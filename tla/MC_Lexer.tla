------------------------------ MODULE MC_Lexer ------------------------------
(***************************************************************************)
(* Every source text of up to four characters over an alphabet with one   *)
(* representative of each character class the Lexer distinguishes: the    *)
(* letters of the keyword "if", a digit, the dot, each first character of *)
(* a two-character operator or comment, a newline, a quote, a backslash   *)
(* and a one-character delimiter.                                           *)
(***************************************************************************)
EXTENDS Lexer

Alphabet == {"i", "f", "7", ".", "=", "!", "/", "\n", "\"", "\\", "("}

MCInputs == BoundedSeq(Alphabet, 4)

=============================================================================
