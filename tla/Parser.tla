------------------------------- MODULE Parser -------------------------------
(***************************************************************************)
(* The Parser of src/resilient/src/main.rs (struct Parser, lines 313-710),*)
(* the one execute_file and the REPL use.  It reads a token sequence      *)
(* (what Lexer::next_token returns, Eof forever after the end).  A parse  *)
(* position i stands for the parser's state after its i-th next_token:    *)
(* current_token is T(i) and peek_token is T(i + 1).                       *)
(*                                                                         *)
(* Each parse_* method is a recursive operator that returns the node it   *)
(* built and the position of current_token when it returns, or Fail when  *)
(* the method panics (a panic! or an unwrap of None).  parse_program's    *)
(* loop is the state machine: one action per statement.                   *)
(***************************************************************************)
EXTENDS Integers, Sequences, TLC, ResilientAst

CONSTANT TokenInputs   \* the token sequences the Parser is given

VARIABLES
  toks,     \* the tokens the Lexer will return, in order
  cur,      \* the position of current_token
  stmts,    \* the statements parse_program has pushed so far
  status    \* "parsing", "done" (parse_program returned) or "panic"

pvars == <<toks, cur, stmts, status>>

EofTok == [kind |-> "Eof", val |-> ""]

\* The token at position i; the Lexer returns Eof forever after the end.
T(i) == IF i <= Len(toks) THEN toks[i] ELSE EofTok
Kind(i) == T(i).kind

R(node, pos) == [ok |-> TRUE, node |-> node, pos |-> pos]
Fail == [ok |-> FALSE]

\* current_precedence / peek_precedence, lines 690-710.
Precedence(kind) ==
  CASE kind \in {"Equal", "NotEqual"} -> 2
    [] kind \in {"Less", "Greater", "LessEqual", "GreaterEqual"} -> 3
    [] kind \in {"Plus", "Minus"} -> 4
    [] kind \in {"Multiply", "Divide"} -> 5
    [] kind = "LeftParen" -> 6
    [] OTHER -> 0

\* The operator text of parse_infix_expression, lines 629-641.
OperatorText ==
  ("Plus" :> "+") @@ ("Minus" :> "-") @@ ("Multiply" :> "*") @@
  ("Divide" :> "/") @@ ("Equal" :> "==") @@ ("NotEqual" :> "!=") @@
  ("Less" :> "<") @@ ("Greater" :> ">") @@ ("LessEqual" :> "<=") @@
  ("GreaterEqual" :> ">=")

\* The literal arms of parse_expression's prefix match, lines 592-596.
LiteralNode(tk) ==
  CASE tk.kind = "Identifier"    -> Id(tk.val)
    [] tk.kind = "IntLiteral"    -> Num(tk.val)
    [] tk.kind = "FloatLiteral"  -> Flt(tk.val)
    [] tk.kind = "StringLiteral" -> Str(tk.val)
    [] tk.kind = "BoolLiteral"   -> Bool(tk.val)

LiteralKinds == {"Identifier", "IntLiteral", "FloatLiteral", "StringLiteral", "BoolLiteral"}

\* `if self.peek_token == Token::Semicolon { self.next_token(); }`
SkipSemicolon(pos) == IF Kind(pos + 1) = "Semicolon" THEN pos + 1 ELSE pos

\* A panic unwinds every parse_* call on the way out: the caller continues
\* with F only when the call it made returned.
Then(r, F(_, _)) == IF r.ok THEN F(r.node, r.pos) ELSE Fail

\* `.unwrap()` of the Option<Node> that parse_expression returns: None
\* panics as well.
Unwrap(r, F(_, _)) == IF r.ok /\ r.node # None THEN F(r.node, r.pos) ELSE Fail

RECURSIVE parse_expression(_, _), InfixLoop(_, _, _), parse_infix_expression(_, _),
          parse_call_arguments(_), MoreArguments(_, _)

\* parse_expression, lines 589-606: a prefix (literal, grouping or None).
\* A grouping checks for ')' on current_token, where the inner
\* parse_expression left its own last token.
parse_expression(i, prec) ==
  IF Kind(i) \in LiteralKinds THEN InfixLoop(LiteralNode(T(i)), i, prec)
  ELSE IF Kind(i) = "LeftParen"
    THEN Then(parse_expression(i + 1, 0),
              LAMBDA g, p : IF Kind(p) # "RightParen" THEN Fail ELSE InfixLoop(g, p, prec))
  ELSE InfixLoop(None, i, prec)

\* parse_call_expression, lines 655-662, with current_token on '('.
parse_call_expression(f, i) ==
  Then(parse_call_arguments(i), LAMBDA as, p : R(CallE(f, as), p))

\* The infix loop of parse_expression, lines 608-625: while the peek token
\* is not ';' and binds tighter than prec, an infix operator or a call
\* extends the left expression, which is unwrapped first.
InfixLoop(left, pos, prec) ==
  IF Kind(pos + 1) = "Semicolon" \/ prec >= Precedence(Kind(pos + 1))
    THEN R(left, pos)
  ELSE IF left = None THEN Fail
  ELSE Then(IF Kind(pos + 1) = "LeftParen" THEN parse_call_expression(left, pos + 1)
            ELSE parse_infix_expression(left, pos + 1),
            LAMBDA e, p : InfixLoop(e, p, prec))

\* Mutation: the right side is parsed one rank lower, so operators of
\* equal rank group to the right.
parse_infix_expressionRightAssoc(left, i) ==
  Unwrap(parse_expression(i + 1, Precedence(Kind(i)) - 1),
         LAMBDA right, p : R(Op(left, OperatorText[Kind(i)], right), p))

\* parse_infix_expression, lines 628-653: the right side binds at the
\* operator's own precedence, so operators of equal rank associate left.
parse_infix_expression(left, i) ==
  Unwrap(parse_expression(i + 1, Precedence(Kind(i))),
         LAMBDA right, p : R(Op(left, OperatorText[Kind(i)], right), p))

\* parse_call_arguments, lines 664-674, with current_token on '('.
parse_call_arguments(i) ==
  IF Kind(i + 1) = "RightParen" THEN R(<<>>, i + 1)
  ELSE MoreArguments(<<>>, parse_expression(i + 1, 0))

\* Lines 675-688: a is the argument just parsed; after it comes ',' and
\* another argument, or the closing ')'.
MoreArguments(args, a) ==
  Unwrap(a, LAMBDA e, p :
    IF Kind(p + 1) = "Comma"
      THEN MoreArguments(Append(args, e), parse_expression(p + 2, 0))
    ELSE IF Kind(p + 1) # "RightParen" THEN Fail
    ELSE R(Append(args, e), p + 1))

RECURSIVE parse_statement(_), parse_block_statement(_), BlockLoop(_, _),
          parse_function(_), ParamLoop(_, _, _), parse_live_block(_),
          parse_if_statement(_)

\* Mutation: a statement that cannot start is a panic, not None.
parse_expression_statementNoneFails(i) ==
  Then(parse_expression(i, 0),
       LAMBDA e, p : IF e = None THEN Fail ELSE R(Ex(e), SkipSemicolon(p)))

\* parse_expression_statement, lines 579-587: `?` returns None, and
\* parse_program then moves past the token without a statement.
parse_expression_statement(i) ==
  Then(parse_expression(i, 0),
       LAMBDA e, p : IF e = None THEN R(None, p) ELSE R(Ex(e), SkipSemicolon(p)))

\* parse_let_statement, lines 451-477.
parse_let_statement(i) ==
  IF Kind(i + 1) # "Identifier" \/ Kind(i + 2) # "Assign" THEN Fail
  ELSE Unwrap(parse_expression(i + 3, 0),
              LAMBDA v, p : R(LetS(T(i + 1).val, v), SkipSemicolon(p)))

\* parse_return_statement, lines 479-491.
parse_return_statement(i) ==
  Unwrap(parse_expression(i + 1, 0), LAMBDA v, p : R(Ret(v), SkipSemicolon(p)))

\* parse_assert, lines 507-533: the Comma and RightParen checks look at
\* current_token, which parse_expression leaves on the condition's last
\* token.
parse_assert(i) ==
  IF Kind(i + 1) # "LeftParen" THEN Fail
  ELSE Unwrap(parse_expression(i + 2, 0), LAMBDA c, p :
         Then(IF Kind(p) = "Comma" THEN Unwrap(parse_expression(p + 1, 0), R) ELSE R(None, p),
              LAMBDA m, q : IF Kind(q) # "RightParen" THEN Fail ELSE R(Assrt(c, m), q)))

\* parse_statement, lines 351-361: dispatch on current_token.
parse_statement(i) ==
  CASE Kind(i) = "Function" -> parse_function(i)
    [] Kind(i) = "Let"      -> parse_let_statement(i)
    [] Kind(i) = "Return"   -> parse_return_statement(i)
    [] Kind(i) = "Live"     -> parse_live_block(i)
    [] Kind(i) = "Assert"   -> parse_assert(i)
    [] Kind(i) = "If"       -> parse_if_statement(i)
    [] OTHER                -> parse_expression_statement(i)

\* parse_block_statement, lines 436-449, with current_token on '{': the
\* loop also stops at Eof, so an unclosed block ends without an error.
parse_block_statement(i) == BlockLoop(<<>>, i + 1)

BlockLoop(ss, p) ==
  IF Kind(p) \in {"RightBrace", "Eof"} THEN R(ss, p)
  ELSE Then(parse_statement(p),
            LAMBDA s, q : BlockLoop(IF s = None THEN ss ELSE Append(ss, s), q + 1))

\* Mutation: each pair is pushed as (name, type).
ParamLoopSwapped(ts, ps, p) ==
  IF Kind(p) = "RightParen" THEN R([types |-> ts, names |-> ps], p + 1)
  ELSE IF Kind(p) # "Identifier" \/ Kind(p + 1) # "Identifier" THEN Fail
  ELSE IF Kind(p + 2) = "Comma"
    THEN ParamLoop(Append(ts, T(p + 1).val), Append(ps, T(p).val), p + 3)
  ELSE IF Kind(p + 2) # "RightParen" THEN Fail
  ELSE ParamLoop(Append(ts, T(p + 1).val), Append(ps, T(p).val), p + 2)

\* parse_function_parameters, lines 400-434, from the token after '(':
\* (type, name) pairs separated by commas; returns past the ')'.
ParamLoop(ts, ps, p) ==
  IF Kind(p) = "RightParen" THEN R([types |-> ts, names |-> ps], p + 1)
  ELSE IF Kind(p) # "Identifier" \/ Kind(p + 1) # "Identifier" THEN Fail
  ELSE IF Kind(p + 2) = "Comma"
    THEN ParamLoop(Append(ts, T(p).val), Append(ps, T(p + 1).val), p + 3)
  ELSE IF Kind(p + 2) # "RightParen" THEN Fail
  ELSE ParamLoop(Append(ts, T(p).val), Append(ps, T(p + 1).val), p + 2)

\* parse_function, lines 363-398.
parse_function(i) ==
  IF Kind(i + 1) # "Identifier" \/ Kind(i + 2) # "LeftParen" THEN Fail
  ELSE Then(ParamLoop(<<>>, <<>>, i + 3), LAMBDA ps, p :
         IF Kind(p) # "LeftBrace" THEN Fail
         ELSE Then(parse_block_statement(p),
                   LAMBDA b, q : R(Fn(T(i + 1).val, ps.types, ps.names, b), q)))

\* parse_live_block, lines 493-505.
parse_live_block(i) ==
  IF Kind(i + 1) # "LeftBrace" THEN Fail
  ELSE Then(parse_block_statement(i + 1), LAMBDA b, q : R(LiveB(b), q))

\* The condition of parse_if_statement, lines 538-551, with and without
\* parentheses, and the position of current_token after it.
IfCondition(i) ==
  IF Kind(i + 1) = "LeftParen"
    THEN Unwrap(parse_expression(i + 2, 0),
                LAMBDA c, p : IF Kind(p) # "RightParen" THEN Fail ELSE R(c, p + 1))
  ELSE Unwrap(parse_expression(i + 1, 0), R)

\* Node::IfStatement as parse_if_statement builds it: an `else {}` is
\* Some(Block([])), not None.
IfNode(c, t, alt) == [kind |-> "If", cond |-> c, cons |-> Blk(t), alt |-> alt]

\* parse_if_statement, lines 535-577.
parse_if_statement(i) ==
  Then(IfCondition(i), LAMBDA c, p :
    IF Kind(p) # "LeftBrace" THEN Fail
    ELSE Then(parse_block_statement(p), LAMBDA t, q :
      IF Kind(q + 1) # "Else" THEN R(IfNode(c, t, None), q)
      ELSE IF Kind(q + 2) # "LeftBrace" THEN Fail
      ELSE Then(parse_block_statement(q + 2), LAMBDA e, r : R(IfNode(c, t, Blk(e)), r))))

-----------------------------------------------------------------------------
(* parse_program, lines 338-349: Parser::new reads two tokens, so the     *)
(* first current_token is toks[1]; each loop iteration parses one         *)
(* statement, keeps it if there is one, and calls next_token.             *)

Init ==
  /\ toks \in TokenInputs
  /\ cur = 1
  /\ stmts = <<>>
  /\ status = "parsing"

\* Mutation: the loop calls next_token twice after each statement.
StatementParsedDoubleAdvance(s) ==
  IF ~s.ok
    THEN /\ status' = "panic"
         /\ UNCHANGED <<toks, cur, stmts>>
    ELSE /\ stmts' = IF s.node = None THEN stmts ELSE Append(stmts, s.node)
         /\ cur' = s.pos + 2
         /\ UNCHANGED <<toks, status>>

\* The rest of one loop iteration, given what parse_statement returned: a
\* panic ends the process; a statement is pushed, None is not; then
\* next_token.
StatementParsed(s) ==
  IF ~s.ok
    THEN /\ status' = "panic"
         /\ UNCHANGED <<toks, cur, stmts>>
    ELSE /\ stmts' = IF s.node = None THEN stmts ELSE Append(stmts, s.node)
         /\ cur' = s.pos + 1
         /\ UNCHANGED <<toks, status>>

ParseStatement ==
  /\ status = "parsing"
  /\ Kind(cur) # "Eof"
  /\ StatementParsed(parse_statement(cur))

\* The loop ends at Eof and parse_program returns Program(program).
Finish ==
  /\ status = "parsing"
  /\ Kind(cur) = "Eof"
  /\ status' = "done"
  /\ UNCHANGED <<toks, cur, stmts>>

Next == ParseStatement \/ Finish

Spec == Init /\ [][Next]_pvars /\ WF_pvars(Next)

-----------------------------------------------------------------------------
StatementKinds == {"Function", "Let", "Return", "Live", "Assert", "If", "ExprStmt"}

\* parse_program only pushes statements, and current_token ends at most one
\* position past the Eof that an unclosed block stops at.
TypeOK ==
  /\ \A k \in DOMAIN toks : toks[k].kind \in STRING
  /\ cur \in 1..(Len(toks) + 2)
  /\ \A k \in DOMAIN stmts : stmts[k].kind \in StatementKinds
  /\ status \in {"parsing", "done", "panic"}

=============================================================================
