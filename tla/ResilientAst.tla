---------------------------- MODULE ResilientAst ----------------------------
(***************************************************************************)
(* The AST (enum Node, src/resilient/src/main.rs lines 263-311) as nested *)
(* records tagged by `kind`.  Optional children (an assert's message, an  *)
(* if's else block) are None when absent, and so is an expression that  *)
(* Parser::parse_expression could not start.  PrefixExpression is left   *)
(* out: the Parser never builds one (line 296 marks it reserved).         *)
(* Only the evaluator-relevant data is kept: names, literal values and    *)
(* operators; a Function keeps its parameters as two sequences, the type  *)
(* names and the parameter names, in source order.                         *)
(***************************************************************************)
EXTENDS Sequences

None == [kind |-> "None"]

Prog(ss)         == [kind |-> "Program", stmts |-> ss]
Blk(ss)          == [kind |-> "Block", stmts |-> ss]
Fn(n, ts, ps, b) == [kind |-> "Function", name |-> n, ptypes |-> ts,
                     params |-> ps, body |-> Blk(b)]
LiveB(ss)        == [kind |-> "Live", body |-> Blk(ss)]
Assrt(c, m)      == [kind |-> "Assert", cond |-> c, msg |-> m]
LetS(n, e)       == [kind |-> "Let", name |-> n, value |-> e]
Ret(e)           == [kind |-> "Return", value |-> e]
IfS(c, t, e)     == [kind |-> "If", cond |-> c, cons |-> Blk(t),
                     alt |-> IF e = <<>> THEN None ELSE Blk(e)]
Ex(e)            == [kind |-> "ExprStmt", expr |-> e]
Id(n)            == [kind |-> "Ident", name |-> n]
Num(i)           == [kind |-> "IntLit", val |-> i]
Flt(x)           == [kind |-> "FloatLit", f64 |-> x]
Str(s)           == [kind |-> "StrLit", val |-> s]
Bool(b)          == [kind |-> "BoolLit", val |-> b]
Op(l, o, r)      == [kind |-> "Infix", left |-> l, op |-> o, right |-> r]
CallE(f, as)     == [kind |-> "Call", fn |-> f, args |-> as]

=============================================================================
