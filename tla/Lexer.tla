------------------------------- MODULE Lexer -------------------------------
(***************************************************************************)
(* The Lexer of src/resilient/src/main.rs (struct Lexer, lines 58-261).   *)
(* The input is a sequence of one-character strings; `position` is the    *)
(* code's 0-based `position`, the index of the current character `ch`     *)
(* (read_position is always position + 1, and ch is input[position] or   *)
(* NUL past the end, so neither is a separate variable).  Each call of    *)
(* Lexer::next_token is one action; the token it returns is appended to   *)
(* `tokens` together with the span of input it was read from.             *)
(***************************************************************************)
EXTENDS Integers, SequencesExt

CONSTANTS
  Inputs,     \* the source texts, as sequences of one-character strings
  IntWidth,   \* bit width of i64 (64 in the code)
  MaxCalls    \* how many times the Parser calls next_token

VARIABLES
  input,      \* Lexer.input
  position,   \* Lexer.position
  tokens,     \* the tokens returned so far
  panicked    \* next_token has panicked ("Unexpected character", unwrap)

lvars == <<input, position, tokens, panicked>>

NUL == "NUL"                                 \* the '\0' of read_char

Whitespace == {" ", "\n", "\t", "\r"}        \* char::is_whitespace
Letters    == {"a", "b", "e", "f", "i", "l", "n", "r", "s", "t", "u", "v", "_"}
DigitSeq   == <<"0", "1", "2", "3", "4", "5", "6", "7", "8", "9">>
Digits     == ToSet(DigitSeq)
IdentChars == Letters \cup Digits            \* is_letter || is_digit

MaxI64 == 2 ^ (IntWidth - 1) - 1

\* The current character, as read_char / peek_char compute it.
Ch(p) == IF p < Len(input) THEN input[p + 1] ELSE NUL

\* The 0-based half-open slice input[s..e] of the code.
Slice(s, e) == SubSeq(input, s + 1, e)

\* The first position at or after p whose character is not in S: the
\* loops of skip_whitespace, read_identifier and read_number.
\* Mutation: the scan loop stops one character short of the run's end.
RECURSIVE ScanWhileShort(_, _)
ScanWhileShort(p, S) ==
  IF Ch(p) \in S /\ Ch(p + 1) \in S THEN ScanWhileShort(p + 1, S) ELSE p

RECURSIVE ScanWhile(_, _)
ScanWhile(p, S) == IF Ch(p) \in S THEN ScanWhile(p + 1, S) ELSE p

\* Mutation: the comment loop only stops at the end of the input.
RECURSIVE ScanToEnd(_)
ScanToEnd(p) == IF Ch(p) = NUL THEN p ELSE ScanToEnd(p + 1)

\* The comment loop of the '/' arm: up to the newline or the end.
RECURSIVE ScanToLineEnd(_)
ScanToLineEnd(p) == IF Ch(p) \in {"\n", NUL} THEN p ELSE ScanToLineEnd(p + 1)

\* The keyword match of the identifier arm, lines 160-170.
Keywords ==
  [w \in {<<"f","n">>, <<"l","e","t">>, <<"l","i","v","e">>,
          <<"a","s","s","e","r","t">>, <<"i","f">>, <<"e","l","s","e">>,
          <<"r","e","t","u","r","n">>, <<"t","r","u","e">>,
          <<"f","a","l","s","e">>} |->
     CASE w = <<"f","n">> -> "Function" [] w = <<"l","e","t">> -> "Let"
       [] w = <<"l","i","v","e">> -> "Live" [] w = <<"i","f">> -> "If"
       [] w = <<"a","s","s","e","r","t">> -> "Assert"
       [] w = <<"e","l","s","e">> -> "Else" [] w = <<"r","e","t","u","r","n">> -> "Return"
       [] OTHER -> "BoolLiteral"]

\* The one-character tokens, lines 106-108 and 144-150.
SingleChar ==
  ("+" :> "Plus") @@ ("-" :> "Minus") @@ ("*" :> "Multiply") @@
  ("(" :> "LeftParen") @@ (")" :> "RightParen") @@ ("{" :> "LeftBrace") @@
  ("}" :> "RightBrace") @@ ("," :> "Comma") @@ (";" :> "Semicolon") @@
  (":" :> "Colon")

\* '=', '>', '<', '!' with and without a following '=' (lines 98-143);
\* a bare '!' panics.
WithEq    == ("=" :> "Equal") @@ (">" :> "GreaterEqual") @@ ("<" :> "LessEqual")
                @@ ("!" :> "NotEqual")
WithoutEq == ("=" :> "Assign") @@ (">" :> "Greater") @@ ("<" :> "Less")

\* The value of a digit string (str::parse::<i64>).
DigitsValue(ds) ==
  FoldLeft(LAMBDA acc, d : 10 * acc + (CHOOSE k \in 0..9 : DigitSeq[k + 1] = d),
           0, ds)

\* read_string, lines 213-241: characters up to the closing quote or the
\* end; a backslash with a character after it is an escape, and an unknown
\* escape keeps the backslash.  Returns the text and where the loop stopped.
Escape(c) ==
  CASE c = "n" -> <<"\n">> [] c = "t" -> <<"\t">> [] c = "r" -> <<"\r">>
    [] c = "\\" -> <<"\\">> [] c = "\"" -> <<"\"">> [] OTHER -> <<"\\", c>>

\* Mutation: a backslash is taken as an escape even when it is the last
\* character, so the escape reads the '\0' past the end.
RECURSIVE read_stringNoGuard(_, _)
read_stringNoGuard(p, acc) ==
  IF Ch(p) \in {"\"", NUL} THEN [text |-> acc, stop |-> p]
  ELSE IF Ch(p) = "\\"
    THEN read_stringNoGuard(p + 2, acc \o Escape(Ch(p + 1)))
  ELSE read_stringNoGuard(p + 1, Append(acc, Ch(p)))

RECURSIVE read_string(_, _)
read_string(p, acc) ==
  IF Ch(p) \in {"\"", NUL} THEN [text |-> acc, stop |-> p]
  ELSE IF Ch(p) = "\\" /\ p + 1 < Len(input)
    THEN read_string(p + 2, acc \o Escape(Ch(p + 1)))
  ELSE read_string(p + 1, Append(acc, Ch(p)))

Tok(kind, val, s, e, n) == [kind |-> kind, val |-> val, start |-> s, end |-> e, next |-> n]
LexPanic == [kind |-> "panic"]

\* Mutation: the integer literal is accepted whatever its size.
read_numberNoOverflow(p) ==
  LET e  == ScanWhile(p, Digits \cup {"."})
      ds == Slice(p, e)
      dots == {i \in DOMAIN ds : ds[i] = "."}
  IN CASE dots = {} -> Tok("IntLiteral", DigitsValue(ds), p, e, e)
       [] Cardinality(dots) = 1 -> Tok("FloatLiteral", ds, p, e, e)
       [] OTHER -> LexPanic

\* read_number, lines 191-211: digits and dots; a Float if a dot appeared.
\* It returns from next_token directly, so the character after the number
\* is not skipped.  parse::<f64> fails on a second dot and parse::<i64>
\* on a value above i64::MAX; both are unwrapped.
read_number(p) ==
  LET e  == ScanWhile(p, Digits \cup {"."})
      ds == Slice(p, e)
      dots == {i \in DOMAIN ds : ds[i] = "."}
  IN CASE dots = {} /\ DigitsValue(ds) <= MaxI64 -> Tok("IntLiteral", DigitsValue(ds), p, e, e)
       [] dots = {} -> LexPanic
       [] Cardinality(dots) = 1 -> Tok("FloatLiteral", ds, p, e, e)
       [] OTHER -> LexPanic

\* Lexer::next_token, lines 94-186.  Every arm but read_number and the
\* comment ends with the trailing read_char of line 184, which also runs
\* after read_identifier and read_string have already moved past their
\* lexeme: the character after an identifier is skipped, and the one
\* after a string literal is its closing quote.
RECURSIVE next_token(_)
next_token(p0) ==
  LET p == ScanWhile(p0, Whitespace)
      c == Ch(p)
  IN CASE c = "/" ->
            IF Ch(p + 1) = "/" THEN next_token(ScanToLineEnd(p))
            ELSE Tok("Divide", "", p, p + 1, p + 1)
       [] c \in DOMAIN WithEq ->
            IF Ch(p + 1) = "=" THEN Tok(WithEq[c], "", p, p + 2, p + 2)
            ELSE IF c = "!" THEN LexPanic
            ELSE Tok(WithoutEq[c], "", p, p + 1, p + 1)
       [] c \in DOMAIN SingleChar -> Tok(SingleChar[c], "", p, p + 1, p + 1)
       [] c = "\"" -> LET r == read_string(p + 1, <<>>) IN
                      Tok("StringLiteral", r.text, p, r.stop + 1, r.stop + 1)
       [] c = NUL -> Tok("Eof", "", p, p, p + 1)
       [] c \in Letters ->
            LET e == ScanWhile(p, IdentChars)
                w == Slice(p, e)
            IN IF w \in DOMAIN Keywords
                 THEN Tok(Keywords[w], IF Keywords[w] = "BoolLiteral"
                                      THEN w = <<"t","r","u","e">> ELSE "", p, e, e + 1)
                 ELSE Tok("Identifier", w, p, e, e + 1)
       [] c \in Digits -> read_number(p)
       [] OTHER -> LexPanic

Init ==
  /\ input \in Inputs
  /\ position = 0           \* Lexer::new reads the first character
  /\ tokens = <<>>
  /\ panicked = FALSE

\* One call of next_token by the Parser.
NextToken ==
  /\ ~panicked /\ Len(tokens) < MaxCalls
  /\ LET t == next_token(position) IN
       IF t.kind = "panic"
         THEN panicked' = TRUE /\ UNCHANGED <<tokens, position>>
         ELSE /\ tokens' = Append(tokens, t)
              /\ position' = t.next
              /\ UNCHANGED panicked
  /\ UNCHANGED input

Spec == Init /\ [][NextToken]_lvars

-----------------------------------------------------------------------------
(* Literal values and their printed form (impl Display for Value, lines   *)
(* 729-740), for the round trip of spec section 8.  A Float is kept as a  *)
(* whole part and one decimal digit; Rust prints 7.0 as "7".              *)

IntV(i)       == [t |-> "Int", v |-> i]
FloatV(w, f)  == [t |-> "Float", whole |-> w, tenth |-> f]
StrV(cs)      == [t |-> "String", text |-> cs]
BoolV(b)      == [t |-> "Bool", truth |-> b]

RECURSIVE DigitsOf(_)
DigitsOf(n) ==
  IF n < 10 THEN <<DigitSeq[n + 1]>>
  ELSE DigitsOf(n \div 10) \o <<DigitSeq[(n % 10) + 1]>>

Display(val) ==
  CASE val.t = "Int"    -> IF val.v < 0 THEN <<"-">> \o DigitsOf(-val.v)
                           ELSE DigitsOf(val.v)
    [] val.t = "Float"  -> DigitsOf(val.whole) \o
                           (IF val.tenth = 0 THEN <<>> ELSE <<".", DigitSeq[val.tenth + 1]>>)
    [] val.t = "String" -> <<"\"">> \o val.text \o <<"\"">>
    [] val.t = "Bool"   -> IF val.truth THEN <<"t","r","u","e">> ELSE <<"f","a","l","s","e">>

\* The value a literal token stands for (Parser::parse_expression's
\* literal arms, lines 593-596, then Interpreter::eval, lines 839-842).
TokenValue(tk) ==
  CASE tk.kind = "IntLiteral"    -> IntV(tk.val)
    [] tk.kind = "StringLiteral" -> StrV(tk.val)
    [] tk.kind = "BoolLiteral"   -> BoolV(tk.val)
    [] tk.kind = "FloatLiteral"  ->
         LET d == CHOOSE i \in DOMAIN tk.val : tk.val[i] = "." IN
         FloatV(DigitsValue(SubSeq(tk.val, 1, d - 1)),
                IF d = Len(tk.val) THEN 0 ELSE DigitsValue(<<tk.val[d + 1]>>))
    [] OTHER -> [t |-> "NotALiteral", kind |-> tk.kind]

-----------------------------------------------------------------------------
(* Properties.                                                             *)

TokenKinds ==
  {"Function", "Let", "Live", "Assert", "If", "Else", "Return", "Identifier",
   "IntLiteral", "FloatLiteral", "StringLiteral", "BoolLiteral", "Divide",
   "Eof"} \cup Range(SingleChar) \cup Range(WithEq) \cup Range(WithoutEq)

\* Every token is one of enum Token's variants, an IntLiteral holds an i64,
\* and each token's span lies inside what the Lexer had read after it.
TypeOK ==
  /\ position \in 0..(Len(input) + MaxCalls)
  /\ \A k \in DOMAIN tokens :
       /\ tokens[k].kind \in TokenKinds
       /\ tokens[k].kind = "IntLiteral" => tokens[k].val \in 0..MaxI64
       /\ tokens[k].start <= tokens[k].end /\ tokens[k].end <= tokens[k].next
  /\ panicked \in BOOLEAN

\* Character i lies in a line comment: a "//" earlier on its line that no
\* token covers.
Covered(i) == \E k \in DOMAIN tokens : tokens[k].start <= i /\ i < tokens[k].end
InComment(i) ==
  \E j \in 0..i :
    /\ Ch(j) = "/" /\ Ch(j + 1) = "/" /\ ~Covered(j)
    /\ \A m \in j..i : Ch(m) # "\n"
Skippable(i) == Ch(i) \in Whitespace \/ InComment(i)

\* Spec section 4.1: comments and whitespace are skipped and nothing else:
\* between one token's end of reading and the next token's first character
\* there is only whitespace and comment text.
GapsSkippable ==
  \A k \in DOMAIN tokens :
    \A i \in (IF k = 1 THEN 0 ELSE tokens[k - 1].next)..(tokens[k].start - 1) :
      Skippable(i)

\* Spec section 4.1: a token is the longest lexeme: an identifier or
\* number is not followed by a character that would continue it, a one-
\* character '=', '<', '>' is not followed by '=', a '/' not by '/', and an
\* identifier is never spelled like a keyword.
LexemesGreedy ==
  \A k \in DOMAIN tokens :
    LET t == tokens[k] IN
    /\ t.kind \in {"Assign", "Less", "Greater"} => Ch(t.end) # "="
    /\ t.kind = "Divide" => Ch(t.end) # "/"
    /\ t.kind \in {"IntLiteral", "FloatLiteral"} => Ch(t.end) \notin Digits \cup {"."}
    /\ t.kind = "Identifier" => Ch(t.end) \notin IdentChars /\ t.val \notin DOMAIN Keywords
    /\ t.kind \in Range(Keywords) => Ch(t.end) \notin IdentChars

\* Spec section 4.1 says which characters are skipped (whitespace and
\* comments); every other character the lexer has moved past belongs to
\* the lexeme of some token.
NoCharacterDropped ==
  \A i \in 0..(Min({position, Len(input)}) - 1) : Skippable(i) \/ Covered(i)

\* Spec section 4.1: calls after the end of input return the end marker
\* indefinitely.  A string literal that is never closed, or whose last
\* character is a backslash, is read up to the end (read_string, lines
\* 217-238, stops at '\0' and escapes only when a character follows):
\* its text holds only characters of the input, and once a token has been
\* read up to the end every later call returns Eof.
EndOfInputSticky ==
  \A k \in DOMAIN tokens :
    /\ tokens[k].kind = "StringLiteral" => NUL \notin Range(tokens[k].val)
    /\ tokens[k].next > Len(input) =>
         \A j \in (k + 1)..Len(tokens) : tokens[j].kind = "Eof"

=============================================================================
