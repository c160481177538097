------------------------------- MODULE MC_Repl -------------------------------
(***************************************************************************)
(* REPL sessions: every sequence of up to three lines from a pool of      *)
(* commands and lines of code, the code given as its Lexer tokens.        *)
(***************************************************************************)
EXTENDS Repl, SequencesExt

Tk(k)   == [kind |-> k, val |-> ""]
IdT(n)  == [kind |-> "Identifier", val |-> n]
IntT(n) == [kind |-> "IntLiteral", val |-> n]
\* (The parameter is not called v: TLC compares record fields in the order
\* it first read their names, and a Value must meet `t` before `v`.)
StrT(s) == [kind |-> "StringLiteral", val |-> s]

\* let x = 1;
LetX == Code(<<Tk("Let"), IdT("x"), Tk("Assign"), IntT(1), Tk("Semicolon")>>)

\* live { let y = x / 0; }   -- fails on all three attempts
LiveDiv == Code(<<Tk("Live"), Tk("LeftBrace"), Tk("Let"), IdT("y"), Tk("Assign"),
                  IdT("x"), Tk("Divide"), IntT(0), Tk("Semicolon"), Tk("RightBrace")>>)

\* fn f(int a) { return a; }
FnF == Code(<<Tk("Function"), IdT("f"), Tk("LeftParen"), IdT("int"), IdT("a"),
              Tk("RightParen"), Tk("LeftBrace"), Tk("Return"), IdT("a"),
              Tk("Semicolon"), Tk("RightBrace")>>)

\* f(x);
CallF == Code(<<IdT("f"), Tk("LeftParen"), IdT("x"), Tk("RightParen"), Tk("Semicolon")>>)

\* "a" + x;
StrPlus == Code(<<StrT("a"), Tk("Plus"), IdT("x"), Tk("Semicolon")>>)

\* assert(x);   -- the Parser panics on it
AssertX == Code(<<Tk("Assert"), Tk("LeftParen"), IdT("x"), Tk("RightParen"),
                  Tk("Semicolon")>>)

LinePool ==
  {LetX, LiveDiv, FnF, CallF, StrPlus, AssertX,
   Cmd("typecheck"), Cmd("help"), Cmd(""), Cmd("exit")}

MCSessions == BoundedSeq(LinePool, 3)

\* The Interpreter's own Init is not used by ReplSpec.
MCPrograms == {}

=============================================================================
