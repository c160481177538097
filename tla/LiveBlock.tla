----------------------------- MODULE LiveBlock -----------------------------
(***************************************************************************)
(* What a live block promises (eval_live_block, src/resilient/src/main.rs *)
(* lines 888-918), independent of the evaluator around it.                 *)
(*                                                                         *)
(* `blocks` are the live blocks in progress, innermost last, each with    *)
(* its attempt number and the restore point captured on entry; `env` is   *)
(* the environment the running code sees; `failing` holds while an Err is *)
(* propagating.  Whatever the body does is one opaque Work step that may  *)
(* change `env` and may raise an Err but never swallows one; only a live  *)
(* block turns a failure back into normal evaluation, by restoring its    *)
(* restore point for the next attempt.                                     *)
(***************************************************************************)
EXTENDS Integers, SequencesExt

CONSTANT MaxAttempts   \* MAX_RETRIES

VARIABLES blocks, env, failing

lbvars == <<blocks, env, failing>>

Init == blocks = <<>> /\ failing = FALSE

\* Entering a live block: capture the restore point, first attempt.
Enter ==
  /\ ~failing
  /\ blocks' = Append(blocks, [attempt |-> 1, restore |-> env])
  /\ UNCHANGED <<env, failing>>

\* The body (or code outside any live block) runs: env may change and an
\* Err may be raised, but an Err is never dropped.
Work ==
  /\ UNCHANGED blocks
  /\ failing => failing'

\* The innermost block catches the Err: another attempt from the restore
\* point.
Retry ==
  /\ failing /\ blocks # <<>>
  /\ Last(blocks).attempt < MaxAttempts
  /\ blocks' = [blocks EXCEPT ![Len(blocks)].attempt = @ + 1]
  /\ env' = Last(blocks).restore
  /\ failing' = FALSE

\* The last attempt failed: the block is left and the Err goes on.
Exhaust ==
  /\ failing /\ blocks # <<>>
  /\ Last(blocks).attempt = MaxAttempts
  /\ blocks' = Front(blocks)
  /\ UNCHANGED <<env, failing>>

\* The body completed: the block is left with the body's result.
Succeed ==
  /\ ~failing /\ blocks # <<>>
  /\ blocks' = Front(blocks)
  /\ UNCHANGED <<env, failing>>

Next == Enter \/ Work \/ Retry \/ Exhaust \/ Succeed

Spec == Init /\ [][Next]_lbvars

=============================================================================
