---------------------------- MODULE ExecuteFile ----------------------------
(***************************************************************************)
(* execute_file (src/resilient/src/main.rs lines 1230-1255) composes the  *)
(* TypeChecker with the Interpreter: with the --typecheck flag a program  *)
(* is evaluated only if TypeChecker::check_program accepts it; otherwise  *)
(* execute_file returns Err("Type check failed: ...") and evaluates       *)
(* nothing.  The flag is the variable typeCheck, fixed for the run.       *)
(***************************************************************************)
EXTENDS Interpreter, TypeChecker

VARIABLE typeCheck

fvars == <<vars, typeCheck>>

\* The check gate: a rejected program ends at once with TypeCheckFailed.
FileInit ==
  /\ typeCheck \in BOOLEAN
  /\ \E p \in Programs :
       ctl = IF typeCheck /\ ~check_program(p)
               THEN Raise([kind |-> "TypeCheckFailed"])
               ELSE Eval(p)
  /\ stack = <<>>
  /\ env = EmptyEnv
  /\ overflowChecks \in BOOLEAN

FileNext == Next /\ UNCHANGED typeCheck

FileSpec == FileInit /\ [][FileNext]_fvars /\ WF_fvars(FileNext)

-----------------------------------------------------------------------------
(* Properties of the composition.                                          *)

\* Spec section 4.6 says the checker enforces the evaluator's rules, so a
\* program that passed check_program never fails with an error those rules
\* exclude: a name the Interpreter's environment lacks (the Identifier arm
\* of eval, lines 832-837), or operand types eval_infix_expression (lines
\* 972-1054) rejects as a type mismatch or an unknown operator.
WellTypedRunsAgree ==
  typeCheck /\ ctl.tag = "err" =>
    ctl.err.kind \notin {"IdentifierNotFound", "TypeMismatch", "UnknownOperator"}

=============================================================================
