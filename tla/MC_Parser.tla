------------------------------ MODULE MC_Parser ------------------------------
(***************************************************************************)
(* Token inputs for the Parser, and the references its results are        *)
(* compared with:                                                          *)
(*  - Chains: every operator chain of up to three operators over five     *)
(*    operators of four ranks, each operand a name or a call `name()`,    *)
(*    compared with a reference that splits at the rightmost weakest      *)
(*    operator (spec section 4.2's ranks, all associating left);          *)
(*  - Programs: one or two statements written in the surface syntax of    *)
(*    spec section 6, rendered to tokens, compared with their own AST;    *)
(*  - Noise: every sequence of up to three tokens over a small alphabet.  *)
(***************************************************************************)
EXTENDS Parser, SequencesExt

Tk(k)   == [kind |-> k, val |-> ""]
IdT(n)  == [kind |-> "Identifier", val |-> n]
IntT(v) == [kind |-> "IntLiteral", val |-> v]

OpKind == [o \in Range(OperatorText) |-> CHOOSE k \in DOMAIN OperatorText : OperatorText[k] = o]

\* --- operator chains -----------------------------------------------------
ChainOps == {"Plus", "Minus", "Multiply", "Equal", "Less"}

\* Binding ranks as spec section 4.2 lists them.
SpecRank == ("Equal" :> 2) @@ ("Less" :> 3) @@ ("Plus" :> 4) @@ ("Minus" :> 4)
            @@ ("Multiply" :> 5)

Units(k) == {<<IdT(n)>> : n \in {"a"}} \cup {<<IdT("a"), Tk("LeftParen"), Tk("RightParen")>>}

RECURSIVE ChainsOf(_)
ChainsOf(k) ==
  IF k = 0 THEN Units(0)
  ELSE {c \o <<Tk(o)>> \o u : c \in ChainsOf(k - 1), o \in ChainOps, u \in Units(k)}

Chains == UNION {ChainsOf(k) : k \in 0..3}

\* The reference: an operand alone, or the chain split at its rightmost
\* operator of lowest rank, each side read the same way.
RECURSIVE RefChain(_)
RefChain(ts) ==
  LET ops == {k \in DOMAIN ts : ts[k].kind \in ChainOps}
  IN IF ops = {} THEN IF Len(ts) = 1 THEN Id(ts[1].val) ELSE CallE(Id(ts[1].val), <<>>)
     ELSE LET low == Min({SpecRank[ts[k].kind] : k \in ops})
              k == Max({j \in ops : SpecRank[ts[j].kind] = low})
          IN Op(RefChain(SubSeq(ts, 1, k - 1)), OperatorText[ts[k].kind],
                RefChain(SubSeq(ts, k + 1, Len(ts))))

\* --- statements in surface syntax -----------------------------------------
RECURSIVE RenderExpr(_), RenderArgs(_)
RenderExpr(e) ==
  CASE e.kind = "Ident"  -> <<IdT(e.name)>>
    [] e.kind = "IntLit" -> <<IntT(e.val)>>
    [] e.kind = "Call"   -> RenderExpr(e.fn) \o <<Tk("LeftParen")>> \o RenderArgs(e.args)
                              \o <<Tk("RightParen")>>
    [] e.kind = "Infix"  -> RenderExpr(e.left) \o <<Tk(OpKind[e.op])>> \o RenderExpr(e.right)

RenderArgs(as) ==
  IF as = <<>> THEN <<>>
  ELSE IF Len(as) = 1 THEN RenderExpr(as[1])
  ELSE RenderExpr(as[1]) \o <<Tk("Comma")>> \o RenderArgs(Tail(as))

RECURSIVE RenderParams(_, _), RenderStmts(_), RenderStmt(_)
RenderParams(ts, ps) ==
  IF ts = <<>> THEN <<>>
  ELSE <<IdT(Head(ts)), IdT(Head(ps))>>
       \o (IF Len(ts) = 1 THEN <<>> ELSE <<Tk("Comma")>> \o RenderParams(Tail(ts), Tail(ps)))

Braced(b) == <<Tk("LeftBrace")>> \o RenderStmts(b.stmts) \o <<Tk("RightBrace")>>

RenderStmt(s) ==
  CASE s.kind = "Let"      -> <<Tk("Let"), IdT(s.name), Tk("Assign")>> \o RenderExpr(s.value)
                                \o <<Tk("Semicolon")>>
    [] s.kind = "Return"   -> <<Tk("Return")>> \o RenderExpr(s.value) \o <<Tk("Semicolon")>>
    [] s.kind = "ExprStmt" -> RenderExpr(s.expr) \o <<Tk("Semicolon")>>
    [] s.kind = "Function" -> <<Tk("Function"), IdT(s.name), Tk("LeftParen")>>
                                \o RenderParams(s.ptypes, s.params) \o <<Tk("RightParen")>>
                                \o Braced(s.body)
    [] s.kind = "Live"     -> <<Tk("Live")>> \o Braced(s.body)
    [] s.kind = "If"       -> <<Tk("If")>> \o RenderExpr(s.cond) \o Braced(s.cons)
                                \o (IF s.alt = None THEN <<>> ELSE <<Tk("Else")>> \o Braced(s.alt))
    [] s.kind = "Assert"   -> <<Tk("Assert"), Tk("LeftParen")>> \o RenderExpr(s.cond)
                                \o (IF s.msg = None THEN <<>> ELSE <<Tk("Comma")>> \o RenderExpr(s.msg))
                                \o <<Tk("RightParen"), Tk("Semicolon")>>

RenderStmts(ss) == IF ss = <<>> THEN <<>> ELSE RenderStmt(Head(ss)) \o RenderStmts(Tail(ss))

\* Statements the Parser is expected to read back as written.
Accepted ==
  { LetS("x", Num(1)), Ret(Id("x")),
    Ex(CallE(Id("f"), <<Id("x"), Num(1)>>)),
    Fn("f", <<"int", "int">>, <<"x", "y">>, <<Ret(Op(Id("x"), "+", Id("y")))>>),
    Fn("g", <<>>, <<>>, <<>>),
    LiveB(<<LetS("x", Num(1)), Ex(Id("x"))>>),
    Fn("h", <<"int">>, <<"n">>, <<LiveB(<<Ret(Id("n"))>>)>>),
    Assrt(CallE(Id("f"), <<>>), None) }

\* The same, with the if and assert forms of spec section 6.
WellFormed ==
  Accepted \cup { IfS(Id("x"), <<Ret(Num(1))>>, <<>>), Assrt(Id("x"), None) }

ProgramsOf(S) == {<<>>} \cup {<<s>> : s \in S} \cup {<<s, t>> : s, t \in S}

NoiseAlphabet ==
  {IdT("a"), IntT(1), Tk("LeftParen"), Tk("RightParen"), Tk("LeftBrace"),
   Tk("RightBrace"), Tk("Semicolon"), Tk("Comma"), Tk("Plus"), Tk("Assign"),
   Tk("Let"), Tk("Function"), Tk("Live"), Tk("If"), Tk("Else"), Tk("Assert"),
   Tk("Return")}

CONSTANT Written   \* the programs whose rendering is parsed and compared

RenderedWritten == {[t |-> RenderStmts(p), p |-> p] : p \in Written}

AcceptedPrograms  == ProgramsOf(Accepted)
WellFormedPrograms == ProgramsOf(WellFormed)

\* Each written program with one stray ')' or '}' between two of its
\* statements, or before the first or after the last.
StrayTokens == {Tk("RightParen"), Tk("RightBrace")}
WithStray ==
  UNION {{[t |-> RenderStmts(SubSeq(p, 1, k)) \o <<x>> \o RenderStmts(SubSeq(p, k + 1, Len(p))),
           p |-> p] : k \in 0..Len(p), x \in StrayTokens} : p \in Written}

MCTokenInputs ==
  Chains \cup {w.t : w \in RenderedWritten} \cup {w.t : w \in WithStray}
    \cup BoundedSeq(NoiseAlphabet, 3)

\* Every program of WellFormed cut short after some token: a file whose end
\* was lost, where a block may still be open.
Truncated ==
  UNION {{SubSeq(t, 1, k) : k \in 0..Len(t)} : t \in {RenderStmts(p) : p \in WellFormedPrograms}}

-----------------------------------------------------------------------------
\* parse_expression and parse_infix_expression (lines 589-653) climb
\* precedence as spec section 4.2 ranks the operators: an operator chain,
\* calls included, parses without a panic into the tree that splits it at
\* its rightmost weakest operator, so that `*` binds tighter than `+`,
\* `+` tighter than `<`, `<` tighter than `==`, and equal ranks group left.
PrecedenceClimbing ==
  toks \in Chains =>
    /\ status # "panic"
    /\ status = "done" => stmts = <<Ex(RefChain(toks))>>

\* parse_program and parse_statement (lines 338-587) read the surface
\* syntax of spec section 6 back into the statements it was written from:
\* every parameter, argument and nested block statement in order, nothing
\* added, nothing dropped, and no panic.
ParsesAsWritten ==
  \A w \in RenderedWritten :
    toks = w.t => /\ status # "panic"
                  /\ status = "done" => stmts = w.p

\* A ')' or '}' where a statement should start cannot begin an expression:
\* parse_expression_statement returns None through `?` (line 580) and
\* parse_program moves past that one token (lines 341-346).  The skip is
\* silent, but it loses nothing else: the statements before and after the
\* stray token are read exactly as written, and nothing panics.
StrayTokenSkipped ==
  \A w \in WithStray :
    toks = w.t => /\ status # "panic"
                  /\ status = "done" => stmts = w.p

\* Spec section 4.2: an unterminated block at end of input is an explicit
\* error.  parse_program returns (status "done") only for input whose
\* every '{' is closed by a '}'.
UnclosedBlockRejected ==
  status = "done" =>
    Cardinality({k \in DOMAIN toks : toks[k].kind = "LeftBrace"})
      = Cardinality({k \in DOMAIN toks : toks[k].kind = "RightBrace"})

=============================================================================
