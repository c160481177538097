--------------------------- MODULE MC_ExecuteFile ---------------------------
(***************************************************************************)
(* Programs for the execute_file composition: the repository's example   *)
(* src/resilient/examples/no_params.rs, together with the                 *)
(* MC_Interpreter programs, one program the checker rejects and one whose *)
(* live block rebinds a name the code after it uses.                      *)
(***************************************************************************)
EXTENDS ExecuteFile, MC_Interpreter

\* src/resilient/examples/no_params.rs, whole; each string literal is a
\* short stand-in for the text, which nothing compares, and the argument
\* 42 is 2, inside the IntWidth range.
\*   fn print_hello(int dummy) { println("..."); println("..."); }
\*   fn with_params(int x, string message) {
\*       println("..." + x + "..." + message); }
\*   fn main(int dummy) { println("..."); println("..."); println("...");
\*       print_hello(0); println("..."); println("...");
\*       with_params(42, "..."); println("..."); println("..."); }
\*   main(0);
Say(s) == Ex(CallE(Id("println"), << Str(s) >>))
NoParams ==
  Prog(<< Fn("print_hello", <<"int">>, <<"dummy">>, << Say("a"), Say("b") >>),
          Fn("with_params", <<"int", "string">>, <<"x", "message">>,
             << Ex(CallE(Id("println"),
                   << Op(Op(Op(Str("c"), "+", Id("x")), "+", Str("d")), "+", Id("message")) >>)) >>),
          Fn("main", <<"int">>, <<"dummy">>,
             << Say("e"), Say("f"), Say("g"), Ex(CallE(Id("print_hello"), << Num(0) >>)),
                Say("f"), Say("h"), Ex(CallE(Id("with_params"), << Num(2), Str("i") >>)),
                Say("f"), Say("j") >>),
          Ex(CallE(Id("main"), << Num(0) >>)) >>)

\* let b = 1 == "a";   (rejected: cannot compare Int and String)
CompareMixed == Prog(<< LetS("b", Op(Num(1), "==", Str("a"))) >>)

\* let x = 1; live { let x = "s"; } let y = x + 1;
ShadowInLive ==
  Prog(<< LetS("x", Num(1)), LiveB(<< LetS("x", Str("s")) >>),
          LetS("y", Op(Id("x"), "+", Num(1))) >>)

MCFilePrograms == MCPrograms \cup {NoParams, CompareMixed, ShadowInLive}

=============================================================================
