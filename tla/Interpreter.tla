---------------------------- MODULE Interpreter ----------------------------
(***************************************************************************)
(* The tree-walking evaluator of src/resilient/src/main.rs (struct        *)
(* Interpreter, lines 787-1089) together with its Environment (lines      *)
(* 747-784) and the live-block retry/rollback controller                   *)
(* (eval_live_block, lines 888-918).                                       *)
(*                                                                         *)
(* The Rust code is recursive.  The model makes the recursion explicit:    *)
(* `ctl` is what the evaluator is doing now (evaluate a node, hand a value *)
(* back to the caller, propagate an Err, or the process has panicked) and  *)
(* `stack` holds one frame per Rust activation that is waiting for a      *)
(* sub-result.  Each action is one match arm or one continuation of a     *)
(* Rust function.                                                          *)
(*                                                                         *)
(* The environment is flattened: an Environment chain whose outer links   *)
(* are never written (closures own a clone) looks up exactly like the     *)
(* function obtained by overlaying the inner store on the outer ones, and *)
(* `set` always writes the innermost store.                                *)
(*                                                                         *)
(* i64 arithmetic is modelled at width IntWidth and f64 arithmetic at    *)
(* the reduced IEEE 754 format of IEEEFloat.                               *)
(***************************************************************************)
EXTENDS Integers, Sequences, TLC, ResilientAst, IEEEFloat

CONSTANTS
  Programs,   \* the Node::Program trees the run starts from
  IntWidth    \* bit width of Value::Int (64 in the code)

ASSUME IntWidth \in 2..8

VARIABLES
  ctl,            \* what the evaluator is doing now
  stack,          \* pending continuations, innermost last
  env,            \* Interpreter.env of the running Interpreter
  overflowChecks  \* TRUE in a debug build: i64 +,-,* overflow panics

vars == <<ctl, stack, env, overflowChecks>>

MAX_RETRIES == 3                        \* const MAX_RETRIES, line 889
MinInt == -(2 ^ (IntWidth - 1))         \* i64::MIN at this width
MaxInt == 2 ^ (IntWidth - 1) - 1        \* i64::MAX at this width

-----------------------------------------------------------------------------
(* Values (enum Value, lines 715-727).                                     *)

Void      == [t |-> "Void"]
IntV(i)   == [t |-> "Int", v |-> i]
BoolV(b)  == [t |-> "Bool", v |-> b]
StrV(s)   == [t |-> "Str", v |-> s]
RetV(val) == [t |-> "Ret", v |-> val]

EmptyEnv == [x \in {} |-> Void]            \* Environment::new()

\* Environment::get and set, lines 770-784.  With the chain flattened, the
\* store that get searches first is the one set writes, so the innermost
\* binding wins: set overlays, get reads the overlay, and a missing name
\* is None.
Bound(e, name) == name \in DOMAIN e
get(e, name) == e[name]
set(e, name, val) == (name :> val) @@ e

\* Interpreter::is_truthy, lines 1080-1088: a Float is truthy when it is
\* not == 0.0, so NaN is truthy and -0.0 is not.
is_truthy(val) ==
  CASE val.t = "Bool" -> val.v
    [] val.t = "Int"  -> val.v # 0
    [] val.t = "Float" -> ~FIsZero(val)
    [] val.t = "Str"  -> val.v # ""
    [] OTHER          -> TRUE

\* Rust `/` on integers truncates toward zero; TLA+ \div floors.
Abs(n) == IF n < 0 THEN -n ELSE n
TruncDiv(a, b) ==
  LET q == Abs(a) \div Abs(b) IN IF (a < 0) = (b < 0) THEN q ELSE -q

\* Two's-complement wrap of a mathematical result (release build).
Wrap(n) == ((n - MinInt) % (2 ^ IntWidth)) + MinInt

\* The outcome of one i64 operation: a value, or a panic when the result
\* does not fit and overflow checks are on.
Ok(val)  == [ok |-> TRUE, val |-> val]
Err(e)   == [ok |-> FALSE, err |-> e]
Panic    == [panic |-> TRUE]

IntResult(n) ==
  IF n \in MinInt..MaxInt THEN Ok(IntV(n))
  ELSE IF overflowChecks THEN Panic
  ELSE Ok(IntV(Wrap(n)))

\* eval_integer_infix_expression, lines 984-1004.  `i64 / i64` panics on
\* i64::MIN / -1 in every build ("attempt to divide with overflow").
eval_integer_infix_expression(op, l, r) ==
  CASE op = "+"  -> IntResult(l + r)
    [] op = "-"  -> IntResult(l - r)
    [] op = "*"  -> IntResult(l * r)
    [] op = "/"  -> IF r = 0 THEN Err([kind |-> "DivisionByZero"])
                    ELSE IF l = MinInt /\ r = -1 THEN Panic
                    ELSE Ok(IntV(TruncDiv(l, r)))
    [] op = "==" -> Ok(BoolV(l = r))
    [] op = "!=" -> Ok(BoolV(l # r))
    [] op = "<"  -> Ok(BoolV(l < r))
    [] op = ">"  -> Ok(BoolV(l > r))
    [] op = "<=" -> Ok(BoolV(l <= r))
    [] op = ">=" -> Ok(BoolV(l >= r))

\* Mutation: the zero test misses -0.0 (a test of the bit pattern).
eval_float_infix_expressionPositiveZero(op, l, r) ==
  CASE op = "+"  -> Ok(FAdd(l, r))
    [] op = "-"  -> Ok(FSub(l, r))
    [] op = "*"  -> Ok(FMul(l, r))
    [] op = "/"  -> IF FIsZero(r) /\ ~r.neg THEN Err([kind |-> "DivisionByZero"])
                    ELSE Ok(FDiv(l, r))
    [] op = "==" -> Ok(BoolV(FEq(l, r)))
    [] op = "!=" -> Ok(BoolV(~FEq(l, r)))
    [] op = "<"  -> Ok(BoolV(FLt(l, r)))
    [] op = ">"  -> Ok(BoolV(FLt(r, l)))
    [] op = "<=" -> Ok(BoolV(FLt(l, r) \/ FEq(l, r)))
    [] op = ">=" -> Ok(BoolV(FLt(r, l) \/ FEq(l, r)))

\* eval_float_infix_expression, lines 1005-1027: the f64 operators; the
\* divisor is compared with 0.0, which -0.0 equals.  `!=` is the negation
\* of `==`, so it is true when either side is NaN.
eval_float_infix_expression(op, l, r) ==
  CASE op = "+"  -> Ok(FAdd(l, r))
    [] op = "-"  -> Ok(FSub(l, r))
    [] op = "*"  -> Ok(FMul(l, r))
    [] op = "/"  -> IF FIsZero(r) THEN Err([kind |-> "DivisionByZero"])
                    ELSE Ok(FDiv(l, r))
    [] op = "==" -> Ok(BoolV(FEq(l, r)))
    [] op = "!=" -> Ok(BoolV(~FEq(l, r)))
    [] op = "<"  -> Ok(BoolV(FLt(l, r)))
    [] op = ">"  -> Ok(BoolV(FLt(r, l)))
    [] op = "<=" -> Ok(BoolV(FLt(l, r) \/ FEq(l, r)))
    [] op = ">=" -> Ok(BoolV(FLt(r, l) \/ FEq(l, r)))

\* eval_string_infix_expression, lines 1028-1035.
eval_string_infix_expression(op, l, r) ==
  CASE op = "+"  -> Ok(StrV(l \o r))
    [] op = "==" -> Ok(BoolV(l = r))
    [] op = "!=" -> Ok(BoolV(l # r))
    [] OTHER     -> Err([kind |-> "UnknownOperator", op |-> op])

\* eval_boolean_infix_expression, lines 1037-1043.
eval_boolean_infix_expression(op, l, r) ==
  CASE op = "==" -> Ok(BoolV(l = r))
    [] op = "!=" -> Ok(BoolV(l # r))
    [] OTHER     -> Err([kind |-> "UnknownOperator", op |-> op])

\* Mutation: the Int/Float arm passes the operands in swapped order.
eval_infix_expressionSwapped(op, l, r) ==
  CASE l.t = "Int"  /\ r.t = "Int"  -> eval_integer_infix_expression(op, l.v, r.v)
    [] l.t = "Float" /\ r.t = "Float" -> eval_float_infix_expression(op, l, r)
    [] l.t = "Int"  /\ r.t = "Float" -> eval_float_infix_expression(op, r, FromInt(l.v))
    [] l.t = "Float" /\ r.t = "Int"  -> eval_float_infix_expression(op, l, FromInt(r.v))
    [] l.t = "Str"  /\ r.t = "Str"  -> eval_string_infix_expression(op, l.v, r.v)
    [] l.t = "Bool" /\ r.t = "Bool" -> eval_boolean_infix_expression(op, l.v, r.v)
    [] OTHER -> Err([kind |-> "TypeMismatch", op |-> op])

\* eval_infix_expression, lines 972-982: dispatch on the operand tags; an
\* Int beside a Float is converted with `as f64`.
eval_infix_expression(op, l, r) ==
  CASE l.t = "Int"  /\ r.t = "Int"  -> eval_integer_infix_expression(op, l.v, r.v)
    [] l.t = "Float" /\ r.t = "Float" -> eval_float_infix_expression(op, l, r)
    [] l.t = "Int"  /\ r.t = "Float" -> eval_float_infix_expression(op, FromInt(l.v), r)
    [] l.t = "Float" /\ r.t = "Int"  -> eval_float_infix_expression(op, l, FromInt(r.v))
    [] l.t = "Str"  /\ r.t = "Str"  -> eval_string_infix_expression(op, l.v, r.v)
    [] l.t = "Bool" /\ r.t = "Bool" -> eval_boolean_infix_expression(op, l.v, r.v)
    [] OTHER -> Err([kind |-> "TypeMismatch", op |-> op])

\* apply_function, lines 1059-1065: a fresh store enclosed by the closure's
\* captured environment, binding parameter i only when argument i exists.
RECURSIVE BindParams(_, _, _)
BindParams(e, params, args) ==
  IF params = <<>> \/ args = <<>> THEN e
  ELSE BindParams(set(e, Head(params), Head(args)), Tail(params), Tail(args))

\* The message of eval_live_block's exhaustion Err, line 908.
LiveExhausted(e) == [kind |-> "LiveBlockFailed", attempts |-> MAX_RETRIES, cause |-> e]

-----------------------------------------------------------------------------
(* Control states.                                                         *)

Eval(n)     == [tag |-> "eval", node |-> n]
Return(val) == [tag |-> "val", val |-> val]
Raise(e)    == [tag |-> "err", err |-> e]

Top == stack[Len(stack)]
Push(f)       == stack' = Append(stack, f)
Pop           == stack' = SubSeq(stack, 1, Len(stack) - 1)
ReplaceTop(f) == stack' = [stack EXCEPT ![Len(stack)] = f]

Node == ctl.node

Init ==
  /\ ctl \in {Eval(p) : p \in Programs}
  /\ stack = <<>>
  /\ env = EmptyEnv
  /\ overflowChecks \in BOOLEAN


-----------------------------------------------------------------------------
(* Interpreter::eval, lines 798-858: one action per match arm that starts *)
(* evaluating a node.                                                      *)

\* Node::Program and Node::Block: eval_program / eval_block_statement
\* start with result = Void and evaluate statement 1.
EvalStatements ==
  /\ ctl.tag = "eval" /\ Node.kind \in {"Program", "Block"}
  /\ IF Node.stmts = <<>>
       THEN ctl' = Return(Void) /\ UNCHANGED stack
       ELSE /\ Push([k |-> "seq", node |-> Node, i |-> 1])
            /\ ctl' = Eval(Node.stmts[1])
  /\ UNCHANGED <<env, overflowChecks>>

\* Node::Function: register a closure over a clone of the current
\* environment, taken before the function's own name is bound.
EvalFunction ==
  /\ ctl.tag = "eval" /\ Node.kind = "Function"
  /\ env' = set(env, Node.name, [t |-> "Fn", params |-> Node.params,
                                 body |-> Node.body, env |-> env])
  /\ ctl' = Return(Void)
  /\ UNCHANGED <<stack, overflowChecks>>

\* Node::LiveBlock, eval_live_block: snapshot the environment, retry_count
\* = 0, first attempt.
LiveEnter ==
  /\ ctl.tag = "eval" /\ Node.kind = "Live"
  /\ Push([k |-> "live", node |-> Node, snapshot |-> env, retries |-> 0])
  /\ ctl' = Eval(Node.body)
  /\ UNCHANGED <<env, overflowChecks>>

\* The arms that first evaluate one sub-expression and continue in a frame:
\* Assert (eval_assert), Let, Return, If, Infix (left operand) and Call
\* (callee expression).
FirstChild(n) ==
  CASE n.kind = "Assert" -> n.cond
    [] n.kind = "Let"    -> n.value
    [] n.kind = "Return" -> n.value
    [] n.kind = "If"     -> n.cond
    [] n.kind = "Infix"  -> n.left
    [] n.kind = "Call"   -> n.fn

EvalCompound ==
  /\ ctl.tag = "eval" /\ Node.kind \in {"Assert", "Let", "Return", "If", "Infix", "Call"}
  /\ Push([k |-> Node.kind, node |-> Node])
  /\ ctl' = Eval(FirstChild(Node))
  /\ UNCHANGED <<env, overflowChecks>>

\* Node::ExpressionStatement evaluates its expression in place.
EvalExpressionStatement ==
  /\ ctl.tag = "eval" /\ Node.kind = "ExprStmt"
  /\ ctl' = Eval(Node.expr)
  /\ UNCHANGED <<stack, env, overflowChecks>>

\* Node::Identifier: Environment::get, or "Identifier not found".
EvalIdentifier ==
  /\ ctl.tag = "eval" /\ Node.kind = "Ident"
  /\ ctl' = IF Bound(env, Node.name) THEN Return(get(env, Node.name))
            ELSE Raise([kind |-> "IdentifierNotFound", name |-> Node.name])
  /\ UNCHANGED <<stack, env, overflowChecks>>

\* Integer, float, string and boolean literals; a FloatLiteral node holds
\* the f64 the Lexer parsed.
EvalLiteral ==
  /\ ctl.tag = "eval"
  /\ Node.kind \in {"IntLit", "FloatLit", "StrLit", "BoolLit"}
  /\ ctl' = Return(CASE Node.kind = "IntLit" -> IntV(Node.val)
                     [] Node.kind = "FloatLit" -> Node.f64
                     [] Node.kind = "StrLit" -> StrV(Node.val)
                     [] Node.kind = "BoolLit" -> BoolV(Node.val))
  /\ UNCHANGED <<stack, env, overflowChecks>>


-----------------------------------------------------------------------------
(* Continuations: a sub-result (`ctl.tag = "val"`) handed to the frame    *)
(* waiting for it.                                                         *)

Value == ctl.val
Returning(kind) == ctl.tag = "val" /\ stack # <<>> /\ Top.k = kind

\* eval_program / eval_block_statement loop, lines 863-868 and 877-882:
\* a statement other than the last finished without a Return marker.
SeqNext ==
  /\ Returning("seq")
  /\ Value.t # "Ret" /\ Top.i < Len(Top.node.stmts)
  /\ ReplaceTop([Top EXCEPT !.i = Top.i + 1])
  /\ ctl' = Eval(Top.node.stmts[Top.i + 1])
  /\ UNCHANGED <<env, overflowChecks>>

\* ... the last statement finished, or a statement produced a Return
\* marker: eval_program unwraps it (line 867), eval_block_statement passes
\* it on (line 881).
SeqExit ==
  /\ Returning("seq")
  /\ Value.t = "Ret" \/ Top.i = Len(Top.node.stmts)
  /\ Pop
  /\ ctl' = Return(IF Value.t = "Ret" /\ Top.node.kind = "Program"
                   THEN Value.v ELSE Value)
  /\ UNCHANGED <<env, overflowChecks>>

\* Node::LetStatement, lines 813-817.
LetBind ==
  /\ Returning("Let")
  /\ env' = set(env, Top.node.name, Value)
  /\ Pop /\ ctl' = Return(Void)
  /\ UNCHANGED overflowChecks

\* Node::ReturnStatement, lines 818-821.
ReturnWrap ==
  /\ Returning("Return")
  /\ Pop /\ ctl' = Return(RetV(Value))
  /\ UNCHANGED <<env, overflowChecks>>

\* Node::IfStatement, lines 822-831: the chosen branch is evaluated in
\* the caller's place.
IfBranch ==
  /\ Returning("If")
  /\ Pop
  /\ ctl' = IF is_truthy(Value) THEN Eval(Top.node.cons)
            ELSE IF Top.node.alt # None THEN Eval(Top.node.alt)
            ELSE Return(Void)
  /\ UNCHANGED <<env, overflowChecks>>

\* eval_assert, lines 921-940: a truthy condition yields Void; otherwise
\* the message (if any) is evaluated and the assertion fails.
AssertCheck ==
  /\ Returning("Assert")
  /\ \/ /\ is_truthy(Value)
        /\ Pop /\ ctl' = Return(Void)
     \/ /\ ~is_truthy(Value) /\ Top.node.msg # None
        /\ ReplaceTop([k |-> "AssertMsg", cond |-> Value])
        /\ ctl' = Eval(Top.node.msg)
     \/ /\ ~is_truthy(Value) /\ Top.node.msg = None
        /\ Pop
        /\ ctl' = Raise([kind |-> "AssertionFailed",
                         msg |-> StrV("Assertion failed"), cond |-> Value])
  /\ UNCHANGED <<env, overflowChecks>>

AssertMessage ==
  /\ Returning("AssertMsg")
  /\ Pop
  /\ ctl' = Raise([kind |-> "AssertionFailed", msg |-> Value, cond |-> Top.cond])
  /\ UNCHANGED <<env, overflowChecks>>

\* Node::InfixExpression, lines 847-851: left, then right, then apply.
InfixLeft ==
  /\ Returning("Infix")
  /\ ReplaceTop([k |-> "InfixR", node |-> Top.node, left |-> Value])
  /\ ctl' = Eval(Top.node.right)
  /\ UNCHANGED <<env, overflowChecks>>

InfixApply ==
  /\ Returning("InfixR")
  /\ LET res == eval_infix_expression(Top.node.op, Top.left, Value) IN
       ctl' = IF "panic" \in DOMAIN res THEN [tag |-> "panic"]
              ELSE IF res.ok THEN Return(res.val) ELSE Raise(res.err)
  /\ Pop
  /\ UNCHANGED <<env, overflowChecks>>

\* apply_function, lines 1056-1077: the body runs in a new Interpreter
\* whose env is the closure's environment plus the bound parameters; the
\* caller's own env is untouched and is what the caller sees afterwards.
Apply(f, args) ==
  IF f.t = "Fn"
    THEN /\ ReplaceTop([k |-> "Activation", saved |-> env])
         /\ env' = BindParams(f.env, f.params, args)
         /\ ctl' = Eval(f.body)
    ELSE /\ Pop
         /\ ctl' = Raise([kind |-> "NotAFunction"])
         /\ UNCHANGED env

\* Node::CallExpression, lines 852-856, and eval_expressions, 1045-1054.
CallCallee ==
  /\ Returning("Call")
  /\ IF Top.node.args = <<>>
       THEN Apply(Value, <<>>)
       ELSE /\ ReplaceTop([k |-> "CallArgs", node |-> Top.node, fn |-> Value, args |-> <<>>])
            /\ ctl' = Eval(Top.node.args[1])
            /\ UNCHANGED env
  /\ UNCHANGED overflowChecks

CallArgument ==
  /\ Returning("CallArgs")
  /\ LET args == Append(Top.args, Value) IN
       IF Len(args) = Len(Top.node.args)
         THEN Apply(Top.fn, args)
         ELSE /\ ReplaceTop([Top EXCEPT !.args = args])
              /\ ctl' = Eval(Top.node.args[Len(args) + 1])
              /\ UNCHANGED env
  /\ UNCHANGED overflowChecks

\* Mutation: the Return marker is not removed at the call boundary.
ActivationReturnNoUnwrap ==
  /\ Returning("Activation")
  /\ Pop /\ env' = Top.saved
  /\ ctl' = Return(Value)
  /\ UNCHANGED overflowChecks

\* lines 1068-1074: the callee's result, with one Return marker removed.
ActivationReturn ==
  /\ Returning("Activation")
  /\ Pop /\ env' = Top.saved
  /\ ctl' = Return(IF Value.t = "Ret" THEN Value.v ELSE Value)
  /\ UNCHANGED overflowChecks

\* eval_live_block, line 898: the body succeeded (a Return marker included).
LiveSucceed ==
  /\ Returning("live")
  /\ Pop /\ ctl' = Return(Value)
  /\ UNCHANGED <<env, overflowChecks>>

-----------------------------------------------------------------------------
(* An Err propagating outward through `?`.                                 *)

Raising(kind) == ctl.tag = "err" /\ stack # <<>> /\ Top.k = kind

\* Mutation: the restore of line 914 is missing.
LiveRetryNoRestore ==
  /\ Raising("live")
  /\ Top.retries + 1 < MAX_RETRIES
  /\ ReplaceTop([Top EXCEPT !.retries = Top.retries + 1])
  /\ ctl' = Eval(Top.node.body)
  /\ UNCHANGED <<env, overflowChecks>>

\* Mutation: retry_count is not incremented (line 900 missing).
LiveRetryNoCount ==
  /\ Raising("live")
  /\ Top.retries + 1 < MAX_RETRIES
  /\ env' = Top.snapshot
  /\ ctl' = Eval(Top.node.body)
  /\ UNCHANGED <<stack, overflowChecks>>

\* Mutation: the limit is compared off by one, allowing a fourth attempt.
LiveRetryOffByOne ==
  /\ Raising("live")
  /\ Top.retries < MAX_RETRIES
  /\ ReplaceTop([Top EXCEPT !.retries = Top.retries + 1])
  /\ env' = Top.snapshot
  /\ ctl' = Eval(Top.node.body)
  /\ UNCHANGED overflowChecks

\* eval_live_block, lines 899-915: count the failure; below the limit,
\* restore the snapshot and evaluate the body again.
LiveRetry ==
  /\ Raising("live")
  /\ Top.retries + 1 < MAX_RETRIES
  /\ ReplaceTop([Top EXCEPT !.retries = Top.retries + 1])
  /\ env' = Top.snapshot
  /\ ctl' = Eval(Top.node.body)
  /\ UNCHANGED overflowChecks

\* Mutation: the exhausted block returns Void instead of the Err.
LiveExhaustSwallow ==
  /\ Raising("live")
  /\ Top.retries + 1 >= MAX_RETRIES
  /\ Pop
  /\ ctl' = Return(Void)
  /\ UNCHANGED <<env, overflowChecks>>

\* ... at the limit, wrap the Err and propagate it; the environment keeps
\* what the last attempt did (no restore on this path).
LiveExhaust ==
  /\ Raising("live")
  /\ Top.retries + 1 >= MAX_RETRIES
  /\ Pop
  /\ ctl' = Raise(LiveExhausted(ctl.err))
  /\ UNCHANGED <<env, overflowChecks>>

\* Mutation: a callee's Err is discarded and the call yields Void.
ActivationUnwindSwallow ==
  /\ Raising("Activation")
  /\ Pop /\ env' = Top.saved
  /\ ctl' = Return(Void)
  /\ UNCHANGED overflowChecks

\* An Err leaving a function body: the callee Interpreter is dropped.
ActivationUnwind ==
  /\ Raising("Activation")
  /\ Pop /\ env' = Top.saved
  /\ UNCHANGED <<ctl, overflowChecks>>

\* Every other `?` on the way out.
Unwind ==
  /\ ctl.tag = "err" /\ stack # <<>>
  /\ Top.k \notin {"live", "Activation"}
  /\ Pop
  /\ UNCHANGED <<ctl, env, overflowChecks>>

-----------------------------------------------------------------------------

\* Interpreter::eval of the Program has returned Ok or Err, or the process
\* panicked.
Terminated ==
  \/ stack = <<>> /\ ctl.tag \in {"val", "err"}
  \/ ctl.tag = "panic"

Next ==
  \/ EvalStatements \/ EvalFunction \/ LiveEnter \/ EvalCompound
  \/ EvalExpressionStatement \/ EvalIdentifier \/ EvalLiteral
  \/ SeqNext \/ SeqExit \/ LetBind \/ ReturnWrap \/ IfBranch
  \/ AssertCheck \/ AssertMessage \/ InfixLeft \/ InfixApply
  \/ CallCallee \/ CallArgument \/ ActivationReturn \/ LiveSucceed
  \/ LiveRetry \/ LiveExhaust \/ ActivationUnwind \/ Unwind

\* The evaluator is one synchronous thread that runs to completion, so a
\* step that is enabled is eventually taken.
Spec == Init /\ [][Next]_vars /\ WF_vars(Next)


-----------------------------------------------------------------------------
(* Properties.                                                             *)

FrameKinds == {"seq", "Assert", "AssertMsg", "Let", "Return", "If", "Infix",
               "InfixR", "Call", "CallArgs", "Activation", "live"}

\* Every variable has its kind; live frames count at most MAX_RETRIES - 1
\* failed attempts.
TypeOK ==
  /\ ctl.tag \in {"eval", "val", "err", "panic"}
  /\ \A i \in 1..Len(stack) :
       /\ stack[i].k \in FrameKinds
       /\ stack[i].k = "live" => stack[i].retries \in 0..(MAX_RETRIES - 1)
  /\ \A x \in DOMAIN env : env[x].t \in {"Int", "Float", "Bool", "Str", "Fn", "Void", "Ret"}
  /\ overflowChecks \in BOOLEAN

\* eval_live_block restores the whole environment before a retry and the
\* evaluator reads nothing else, so a retried attempt replays the failed
\* one: a live block body only ever completes on its first attempt.  (The
\* "self-healing" retry can repeat a failure, never repair it.)
SuccessOnlyOnFirstAttempt ==
  Returning("live") => Top.retries = 0

\* A Value::Return marker is never bound to a name and only ever reaches
\* a statement sequence, a live block or a function-call boundary; in
\* particular it is never the result of the whole program (eval_program
\* and apply_function unwrap it).
ReturnMarkerContained ==
  /\ \A x \in DOMAIN env : env[x].t # "Ret"
  /\ ctl.tag = "val" /\ Value.t = "Ret"
       => stack # <<>> /\ Top.k \in {"seq", "live", "Activation"}

\* An Err with no enclosing live block is never swallowed: it reaches the
\* top and becomes the run's error result.
Uncaught == ctl.tag = "err" /\ \A i \in 1..Len(stack) : stack[i].k # "live"
ErrorsPropagate == Uncaught ~> (stack = <<>> /\ ctl.tag = "err")

\* Every program run by the interpreter finishes: retries are bounded and
\* a closure cannot reach its own name, so call chains are finite.
Termination == <>Terminated

\* A runtime problem inside the interpreter is an Err that an enclosing
\* live block can retry, never a process panic.
NoPanic == ctl.tag # "panic"

\* Spec section 8: divide(a, 0) fails with a division-by-zero Failure for
\* Int and Float alike, never a panic, NaN or an infinity: every `/` of a
\* number by 0 or 0.0 (-0.0 included, an Int operand first converted with
\* `as f64`, eval_infix_expression lines 972-982) ends in that Err.
IsZeroNumber(val) == (val.t = "Int" /\ val.v = 0) \/ (val.t = "Float" /\ FIsZero(val))
DivisionByZeroFails ==
  [][InfixApply /\ Top.node.op = "/" /\ Top.left.t \in {"Int", "Float"}
       /\ IsZeroNumber(Value)
     => ctl' = Raise([kind |-> "DivisionByZero"])]_vars

\* The exact value of a number, in units of the smallest subnormal.
ExactKey(val) == IF val.t = "Int" THEN val.v * 2 ^ FracBits ELSE Key(val)

\* An Int beside a Float is converted with `as f64` (lines 976-977), which
\* rounds an integer wider than the significand: `5 == 4.0` holds when
\* f64 has fewer significand bits than i64 has value bits, as in Rust.
\* The rounding may merge distinct numbers but never inverts them: a mixed
\* `<` or `>` that evaluates to true is true of the exact values.
MixedOrderSound ==
  [][InfixApply /\ Top.node.op \in {"<", ">"}
       /\ {Top.left.t, Value.t} = {"Int", "Float"}
       /\ ctl' = Return(BoolV(TRUE))
     => IF Top.node.op = "<" THEN ExactKey(Top.left) < ExactKey(Value)
                             ELSE ExactKey(Top.left) > ExactKey(Value)]_vars

\* Spec section 3 creates a new environment per live block, enclosed by
\* the surrounding one, and a `let` writes the innermost scope; so when a
\* live block's body completes (eval_live_block, line 898) the surrounding
\* environment is the one the block started with, its env_snapshot.
LiveBodyScoped == [][LiveSucceed => env' = Top.snapshot]_vars


-----------------------------------------------------------------------------
(* Refinement: the evaluator implements the live-block state machine.     *)
(* Each live frame on the stack is one block in progress; its attempt is  *)
(* retry_count + 1 and its restore point is env_snapshot.                  *)

LiveFrames == SelectSeq(stack, LAMBDA f : f.k = "live")

LB == INSTANCE LiveBlock WITH
        MaxAttempts <- MAX_RETRIES,
        blocks <- [i \in 1..Len(LiveFrames) |->
                     [attempt |-> LiveFrames[i].retries + 1,
                      restore |-> LiveFrames[i].snapshot]],
        failing <- (ctl.tag = "err")

\* Every step of the evaluator is a step of the live-block state machine:
\* failures are only absorbed by a live block's retry, which restores that
\* block's snapshot, and a block is left only on success or after its
\* last attempt.
LiveBlockRefinement == LB!Spec

=============================================================================
