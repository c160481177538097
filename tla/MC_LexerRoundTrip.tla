-------------------------- MODULE MC_LexerRoundTrip --------------------------
(***************************************************************************)
(* The printed forms of a few literal values, lexed back.                 *)
(***************************************************************************)
EXTENDS Lexer

LiteralValues ==
  {IntV(7), IntV(-7), FloatV(7, 0), FloatV(7, 5), StrV(<<"a">>),
   StrV(<<"\\", "n">>), StrV(<<"\"">>), BoolV(TRUE), BoolV(FALSE)}

RoundTripInputs == {Display(v) : v \in LiteralValues}

\* Spec section 8: printing a literal value (impl Display for Value) and
\* reading the text back through the lexer gives one literal token for an
\* equal value.
LiteralRoundTrip ==
  \A v \in LiteralValues :
    input = Display(v) /\ tokens # <<>> => TokenValue(tokens[1]) = v

=============================================================================
