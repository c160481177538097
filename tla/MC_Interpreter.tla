--------------------------- MODULE MC_Interpreter ---------------------------
(***************************************************************************)
(* Programs for model checking Interpreter.  Each is the Node::Program   *)
(* tree of the Resilient source quoted above it, in the syntax of spec    *)
(* section 6.  Literals are non-negative because the parser has no prefix *)
(* minus, so negative numbers are written 0 - k.  The main.rs Parser      *)
(* panics on the `if` and `assert(x)` forms (see MC_Parser), so the trees *)
(* with those nodes are what the syntax means, not what that Parser       *)
(* builds.                                                                 *)
(***************************************************************************)
EXTENDS Interpreter

\* let n = k; live { let n = n + 1; assert(n > 1, "no"); } return n;
Rollback(k) ==
  Prog(<< LetS("n", Num(k)),
          LiveB(<< LetS("n", Op(Id("n"), "+", Num(1))),
                   Assrt(Op(Id("n"), ">", Num(1)), Str("no")) >>),
          Ret(Id("n")) >>)

\* fn f(int x) { live { let y = 6 / x; return y; } }  let r = f(d); r
DivInLive(d) ==
  Prog(<< Fn("f", <<"int">>, <<"x">>, << LiveB(<< LetS("y", Op(Num(6), "/", Id("x"))),
                                       Ret(Id("y")) >>) >>),
          LetS("r", CallE(Id("f"), << Num(d) >>)),
          Ex(Id("r")) >>)

\* fn g(int a) { live { if a > 0 { return a; } else { assert(a, a); } } return 0; }
\* g(k)
ReturnFromLive(k) ==
  Prog(<< Fn("g", <<"int">>, <<"a">>,
             << LiveB(<< IfS(Op(Id("a"), ">", Num(0)), << Ret(Id("a")) >>,
                             << Assrt(Id("a"), Id("a")) >>) >>),
                Ret(Num(0)) >>),
          Ex(CallE(Id("g"), << Num(k) >>)) >>)

\* live { live { assert(b); } }
Nested(b) ==
  Prog(<< LiveB(<< LiveB(<< Assrt(Bool(b), None) >>) >>) >>)

\* let a = 1; fn f(int p) { return a + p; } let a = 5;
\* assert(f(1) == 2, "captured"); fn k() { } k(); if a > 6 { a; }
\* fn h(int q, int r) { return h(q, r); } h(1, 2);
Closures ==
  Prog(<< LetS("a", Num(1)),
          Fn("f", <<"int">>, <<"p">>, << Ret(Op(Id("a"), "+", Id("p"))) >>),
          LetS("a", Num(5)),
          Assrt(Op(CallE(Id("f"), << Num(1) >>), "==", Num(2)), Str("captured")),
          Fn("k", <<>>, <<>>, <<>>),
          Ex(CallE(Id("k"), <<>>)),
          IfS(Op(Id("a"), ">", Num(6)), << Ex(Id("a")) >>, <<>>),
          Fn("h", <<"int", "int">>, <<"q", "r">>, << Ret(CallE(Id("h"), << Id("q"), Id("r") >>)) >>),
          Ex(CallE(Id("h"), << Num(1), Num(2) >>)) >>)

\* fn m(int p, int q) { return q; } live { m(1); }
MissingArgument ==
  Prog(<< Fn("m", <<"int", "int">>, <<"p", "q">>, << Ret(Id("q")) >>),
          LiveB(<< Ex(CallE(Id("m"), << Num(1) >>)) >>) >>)

\* let s = "a" + "b"; if s == "ab" { let x = 1; x(2); } else { s + 1; }
\* live { s < s; }
Mismatches ==
  Prog(<< LetS("s", Op(Str("a"), "+", Str("b"))),
          IfS(Op(Id("s"), "==", Str("ab")),
              << LetS("x", Num(1)), Ex(CallE(Id("x"), << Num(2) >>)) >>,
              << Ex(Op(Id("s"), "+", Num(1))) >>),
          LiveB(<< Ex(Op(Id("s"), "<", Id("s"))) >>) >>)

\* fn g(int a, int b) { return a / b; } live { g(0 - 8, 0 - 1); }
MinDivMinusOne ==
  Prog(<< Fn("g", <<"int", "int">>, <<"a", "b">>, << Ret(Op(Id("a"), "/", Id("b"))) >>),
          LiveB(<< Ex(CallE(Id("g"), << Op(Num(0), "-", Num(8)),
                                         Op(Num(0), "-", Num(1)) >>)) >>) >>)

\* The f64 literal num/den as parse::<f64> reads it: the nearest value.
FLit(num, den) == Flt(Round(FALSE, num * 2 ^ FracBits, den))

\* let h = 0.5; let z = (0.0 - h) * 0.0; let t = 7 / h; let big = t * t;
\* let nan = big - big; if z { z; } else { assert(nan != nan, "NaN"); }
\* live { let q = h / d; }
FloatEdges(d) ==
  Prog(<< LetS("h", FLit(1, 2)),
          LetS("z", Op(Op(FLit(0, 1), "-", Id("h")), "*", FLit(0, 1))),
          LetS("t", Op(Num(7), "/", Id("h"))),
          LetS("big", Op(Id("t"), "*", Id("t"))),
          LetS("nan", Op(Id("big"), "-", Id("big"))),
          IfS(Id("z"), << Ex(Id("z")) >>, << Assrt(Op(Id("nan"), "!=", Id("nan")), Str("NaN")) >>),
          LiveB(<< LetS("q", Op(Id("h"), "/", d)) >>) >>)

\* k < f; f > k; k > f; f < k; k == f   -- an Int beside a Float
MixedOrder(k, f) ==
  Prog(<< Ex(Op(Num(k), "<", f)), Ex(Op(f, ">", Num(k))), Ex(Op(Num(k), ">", f)),
          Ex(Op(f, "<", Num(k))), Ex(Op(Num(k), "==", f)) >>)

MCPrograms ==
  {MixedOrder(k, FLit(n, 1)) : k \in {5, 7}, n \in {4, 6, 8}}
  \cup {FloatEdges(d) : d \in {Id("z"), Num(0), FLit(0, 1), Id("nan"), FLit(1, 3)}}
  \cup {Rollback(k) : k \in {0, 1, 7}} \cup {DivInLive(d) : d \in {0, 2}}
  \cup {ReturnFromLive(k) : k \in {0, 3}} \cup {Nested(b) : b \in BOOLEAN}
  \cup {Closures, MissingArgument, Mismatches}

\* Programs whose arithmetic reaches the ends of the i64 range.
MCEdgePrograms == {Rollback(7), MinDivMinusOne}

=============================================================================
