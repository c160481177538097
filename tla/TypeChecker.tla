---------------------------- MODULE TypeChecker ----------------------------
(***************************************************************************)
(* The static type checker of src/resilient/src/typechecker.rs.  It is a  *)
(* pure walk of the AST (TypeChecker::check_node) that threads a type     *)
(* environment, so it is modelled as recursive operators.  A result is    *)
(* [ok |-> TRUE, ty |-> type, tenv |-> environment after the node] or     *)
(* [ok |-> FALSE].  The TypeEnvironment chain is flattened as in           *)
(* Interpreter: a Block's enclosed scope is dropped afterwards, which is  *)
(* the same as returning to the environment the Block started with.       *)
(***************************************************************************)
EXTENDS Integers, Sequences, TLC, ResilientAst

\* enum Type, lines 6-17.
TInt    == [t |-> "Int"]
TFloat  == [t |-> "Float"]
TString == [t |-> "String"]
TBool   == [t |-> "Bool"]
TVoid   == [t |-> "Void"]
TAny    == [t |-> "Any"]
TFn(ps, r) == [t |-> "Function", params |-> ps, ret |-> r]

Checked(ty, tenv) == [ok |-> TRUE, ty |-> ty, tenv |-> tenv]
TypeError == [ok |-> FALSE]

\* TypeChecker::new, lines 88-98: println is declared as fn(any) -> void.
InitialTypeEnv == "println" :> TFn(<<TAny>>, TVoid)

\* parse_type_name, lines 329-339; an unknown name is an Err.
TypeNames == {"int", "float", "string", "bool", "void", ""}
ParseTypeName(n) ==
  CASE n = "int" -> TInt [] n = "float" -> TFloat [] n = "string" -> TString
    [] n = "bool" -> TBool [] n = "void" -> TVoid [] n = "" -> TAny

\* TypeEnvironment::get and set (flattened, as Interpreter's Environment):
\* set overlays a binding and get reads the innermost one.
TypeBound(tenv, name) == name \in DOMAIN tenv
TypeGet(tenv, name) == tenv[name]
TypeSet(tenv, name, ty) == (name :> ty) @@ tenv

IsNumeric(ty) == ty \in {TInt, TFloat, TAny}
BoolOrAny(ty) == ty \in {TBool, TAny}

\* The InfixExpression arm, lines 262-294, once both operand types are known.
InfixType(op, l, r) ==
  IF op \in {"+", "-", "*", "/"}
    THEN IF IsNumeric(l) /\ IsNumeric(r)
           THEN [ok |-> TRUE, ty |-> IF TFloat \in {l, r} THEN TFloat ELSE TInt]
         ELSE IF op = "+" /\ TString \in {l, r} THEN [ok |-> TRUE, ty |-> TString]
         ELSE TypeError
    ELSE IF l = r \/ TAny \in {l, r} THEN [ok |-> TRUE, ty |-> TBool]
    ELSE TypeError

\* Argument i of a call against parameter type p (line 310).
ArgFits(a, p) == a = p \/ p = TAny \/ a = TAny

\* Lines 123-130: each parameter set in the function's scope, in order.
RECURSIVE BindTypes(_, _, _)
BindTypes(tenv, names, types) ==
  IF names = <<>> THEN tenv
  ELSE BindTypes(TypeSet(tenv, Head(names), Head(types)), Tail(names), Tail(types))

RECURSIVE check_node(_, _), CheckSeq(_, _, _), CheckArgs(_, _, _, _)

\* Statements in order in one environment, the type of the last one
\* (check_program, lines 100-113, and the Block arm, lines 175-190).
CheckSeq(stmts, tenv, last) ==
  IF stmts = <<>> THEN Checked(last, tenv)
  ELSE LET r == check_node(Head(stmts), tenv) IN
       IF ~r.ok THEN TypeError ELSE CheckSeq(Tail(stmts), r.tenv, r.ty)

\* Lines 301-314: arity first, then each argument in order.
CheckArgs(args, params, tenv, ret) ==
  IF args = <<>> THEN Checked(ret, tenv)
  ELSE LET a == check_node(Head(args), tenv) IN
       IF ~a.ok \/ ~ArgFits(a.ty, Head(params)) THEN TypeError
       ELSE CheckArgs(Tail(args), Tail(params), tenv, ret)

\* TypeChecker::check_node, lines 115-327.
check_node(n, tenv) ==
  CASE n.kind = "Program" -> CheckSeq(n.stmts, tenv, TVoid)
    [] n.kind = "Block" ->
         LET r == CheckSeq(n.stmts, tenv, TVoid) IN
         IF r.ok THEN Checked(r.ty, tenv) ELSE TypeError
    [] n.kind = "Function" ->
         IF \E i \in DOMAIN n.ptypes : n.ptypes[i] \notin TypeNames THEN TypeError
         ELSE LET ps   == [i \in DOMAIN n.ptypes |-> ParseTypeName(n.ptypes[i])]
                  fenv == BindTypes(tenv, n.params, ps)
                  b    == check_node(n.body, fenv)
              IN IF b.ok THEN Checked(b.ty, TypeSet(tenv, n.name, TFn(ps, b.ty)))
                 ELSE TypeError
    [] n.kind = "Live" -> check_node(n.body, tenv)
    [] n.kind = "Assert" ->
         LET c == check_node(n.cond, tenv)
             m == IF n.msg = None THEN Checked(TString, tenv)
                  ELSE check_node(n.msg, tenv)
         IN IF c.ok /\ BoolOrAny(c.ty) /\ m.ok /\ m.ty \in {TString, TAny}
              THEN Checked(TVoid, tenv) ELSE TypeError
    [] n.kind = "Let" ->
         LET v == check_node(n.value, tenv) IN
         IF v.ok THEN Checked(TVoid, TypeSet(tenv, n.name, v.ty)) ELSE TypeError
    [] n.kind = "Return" -> check_node(n.value, tenv)
    [] n.kind = "If" ->
         LET c == check_node(n.cond, tenv)
             t == check_node(n.cons, tenv)
             e == IF n.alt = None THEN t ELSE check_node(n.alt, tenv)
         IN IF c.ok /\ BoolOrAny(c.ty) /\ t.ok /\ e.ok
               /\ (e.ty = t.ty \/ TAny \in {t.ty, e.ty})
              THEN Checked(t.ty, tenv) ELSE TypeError
    [] n.kind = "ExprStmt" -> check_node(n.expr, tenv)
    [] n.kind = "Ident" ->
         IF TypeBound(tenv, n.name) THEN Checked(TypeGet(tenv, n.name), tenv) ELSE TypeError
    [] n.kind = "IntLit"  -> Checked(TInt, tenv)
    [] n.kind = "FloatLit" -> Checked(TFloat, tenv)
    [] n.kind = "StrLit"  -> Checked(TString, tenv)
    [] n.kind = "BoolLit" -> Checked(TBool, tenv)
    [] n.kind = "Infix" ->
         LET l == check_node(n.left, tenv)
             r == check_node(n.right, tenv)
             x == IF l.ok /\ r.ok THEN InfixType(n.op, l.ty, r.ty) ELSE TypeError
         IN IF x.ok THEN Checked(x.ty, tenv) ELSE TypeError
    [] n.kind = "Call" ->
         LET f == check_node(n.fn, tenv) IN
         CASE ~f.ok -> TypeError
           [] f.ty.t = "Function" ->
                IF Len(n.args) # Len(f.ty.params) THEN TypeError
                ELSE CheckArgs(n.args, f.ty.params, tenv, f.ty.ret)
           [] f.ty = TAny -> Checked(TAny, tenv)
           [] OTHER -> TypeError

\* TypeChecker::new().check_program(&program), as execute_file calls it.
check_program(p) == check_node(p, InitialTypeEnv).ok

=============================================================================
