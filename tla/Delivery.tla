------------------------------ MODULE Delivery ------------------------------
(***************************************************************************)
(* What a queue of background tasks promises, whoever drains it and        *)
(* whatever crashes, stalls and retries there are.  The outbox makes this  *)
(* promise for the notices of an event, the webhook sweep for the          *)
(* deliveries to an endpoint.                                              *)
(*                                                                         *)
(* A task waits, is taken, and is done or given up.  What it is for are    *)
(* its effects, each of which may happen more than once.  None is ever     *)
(* skipped.  As long as nothing has failed, only a task that is taken has  *)
(* effects, each happens once, and no task is given up that has them all.  *)
(* As long as no two workers have met over a task, done is done.           *)
(***************************************************************************)
EXTENDS Naturals

CONSTANTS
  Tasks,
  Effects,
  Wanted    \* the effects of each task

VARIABLES
  state,      \* of each task
  happened,   \* how often each effect of a task has happened
  failed,     \* something has failed: a worker died, a claim grew old
  met         \* two workers may have had one task

vars == <<state, happened, failed, met>>

States == {"absent", "waiting", "taken", "done", "dropped"}

TypeOK == /\ state \in [Tasks -> States]
          /\ happened \in [Tasks -> [Effects -> Nat]]
          /\ failed \in BOOLEAN /\ met \in BOOLEAN

Init == /\ state = [t \in Tasks |-> "absent"]
        /\ happened = [t \in Tasks |-> [e \in Effects |-> 0]]
        /\ failed = FALSE /\ met = FALSE

All(t) == \A e \in Wanted[t] : happened[t][e] > 0

\* A task arrives and is taken.  Whoever has it puts it back for another
\* attempt, is done with it, or gives it up; a late worker may do so once more.
MayChange(t, was, now) ==
  \/ was = now
  \/ was = "absent" /\ now = "waiting"
  \/ was = "waiting" /\ now = "taken"
  \/ /\ was = "taken" \/ (met /\ was # "absent")
     /\ \/ now = "waiting"
        \/ now = "done" /\ All(t)
        \/ now = "dropped" /\ (All(t) => failed)

\* The outcome of any tasks changes, or one effect happens.
Settle ==
  /\ UNCHANGED happened
  /\ \A t \in Tasks : MayChange(t, state[t], state'[t])

Act(t, e) ==
  /\ ~failed => state[t] = "taken" /\ happened[t][e] = 0
  /\ happened' = [happened EXCEPT ![t][e] = @ + 1]

\* What has once gone wrong has gone wrong.
Next ==
  /\ state' \in [Tasks -> States]
  /\ failed' \in {failed, TRUE} /\ met' \in {met, TRUE}
  /\ \/ Settle
     \/ UNCHANGED state /\ \E t \in Tasks : \E e \in Wanted[t] : Act(t, e)

Spec == Init /\ [][Next]_vars

----------------------------------------------------------------------------
\* What follows from the promise: what is done was done in full, and before
\* anything fails nothing is done twice, nor before its task has come, and what
\* is given up was not done in full.
Served ==
  /\ \A t \in Tasks : state[t] = "done" => All(t)
  /\ ~failed => \A t \in Tasks :
                  /\ \A e \in Effects : happened[t][e] <= 1
                  /\ \A e \in Wanted[t] : happened[t][e] > 0 => state[t] # "absent"
                  /\ state[t] = "dropped" => ~All(t)
=============================================================================
