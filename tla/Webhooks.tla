------------------------------ MODULE Webhooks ------------------------------
(***************************************************************************)
(* deliver_webhooks (library/webhooks.py), one of the sweeps that          *)
(* run_sweeps runs under the scheduler's lock (library/ops.py), and the    *)
(* circuit breaker of a host (library/circuit.py), which lives and dies    *)
(* with the process of the sweep.                                          *)
(*                                                                         *)
(* All endpoints are on one host.  Each committed statement is a step, and *)
(* so is each request.  Time is left out: a delivery is due again at any   *)
(* moment, and the cooldown of a breaker ends at any moment.  What is      *)
(* counted as a fault is a sweep that dies, and an answer that is lost on  *)
(* the way from an endpoint that has accepted the request.                 *)
(***************************************************************************)
EXTENDS Library

CONSTANTS
  Sweepers,          \* processes of the scheduler
  Deliveries,        \* WebhookDelivery: an event and an endpoint that matches it
  Unreadable,        \* deliveries whose endpoint has a secret of another key
  WebhookMaxAttempts,
  HookBatch,         \* how many a sweep takes
  Threshold,         \* failures in a row that open the circuit
  MaxHookFaults      \* bound

ASSUME WebhooksAssumption ==
  /\ WebhookMaxAttempts \in Nat \ {0} /\ HookBatch \in Nat \ {0}
  /\ Threshold \in Nat \ {0} /\ MaxHookFaults \in Nat
  /\ Unreadable \subseteq Deliveries /\ None \notin Deliveries /\ None \notin Sweepers

VARIABLES
  hookStatus, hookTries,   \* WebhookDelivery; tries count up to the maximum
  hookOld,                 \* not written for 15 minutes
  accepted,                \* how often the endpoint has accepted it
  runner,                  \* the sweep that holds the scheduler's lock
  sweepStep, sweepBatch, sending,   \* its memory
  misses, circuit,                  \* the breaker
  hookFaults

hookRows == <<hookStatus, hookTries, hookOld>>
breaker == <<misses, circuit>>
hookVars == <<hookRows, accepted, runner, sweepStep, sweepBatch, sending, breaker,
              hookFaults>>

WebhookStatus == {"pending", "sending", "delivered", "failed"}

AtMost(n, max) == IF n < max THEN n ELSE max

\* enqueue_for_outbox_event: get_or_create, once for each event and endpoint.
EnqueueHook(d) ==
  /\ hookStatus[d] = "absent"
  /\ hookStatus' = [hookStatus EXCEPT ![d] = "pending"]
  /\ UNCHANGED <<hookTries, hookOld, accepted, runner, sweepStep, sweepBatch, sending,
                 breaker, hookFaults>>

----------------------------------------------------------------------------
(* A sweep.                                                                *)

\* Mutation: two schedulers sweep at the same time.
NoLock == TRUE

\* scheduler_lock
LockFree == runner = None

\* Mutation: what a dead sweep had claimed is left alone.
NotAbandoned(d) == FALSE

Abandoned(d) == hookStatus[d] = "sending" /\ hookOld[d]

\* The sweep gets the lock, with a breaker of its own, and takes back old claims.
Sweep(s) ==
  /\ LockFree
  /\ sweepStep[s] = "idle"
  /\ runner' = s
  /\ sweepStep' = [sweepStep EXCEPT ![s] = "claiming"]
  /\ hookStatus' = [d \in Deliveries |-> IF Abandoned(d) THEN "pending" ELSE hookStatus[d]]
  /\ hookOld' = [d \in Deliveries |-> hookOld[d] /\ ~Abandoned(d)]
  /\ misses' = 0 /\ circuit' = "closed"
  /\ UNCHANGED <<hookTries, accepted, sweepBatch, sending, hookFaults>>

Pending == {d \in Deliveries : hookStatus[d] = "pending"}

\* It claims a batch of those that are due, in one transaction.
ClaimHooks(s, S) ==
  /\ sweepStep[s] = "claiming"
  /\ S \subseteq Pending /\ Cardinality(S) <= HookBatch
  /\ hookStatus' = [d \in Deliveries |-> IF d \in S THEN "sending" ELSE hookStatus[d]]
  /\ hookTries' = [d \in Deliveries |->
                     IF d \in S THEN AtMost(hookTries[d] + 1, WebhookMaxAttempts)
                     ELSE hookTries[d]]
  /\ sweepBatch' = [sweepBatch EXCEPT ![s] = S]
  /\ sweepStep' = [sweepStep EXCEPT ![s] = "next"]
  /\ UNCHANGED <<hookOld, accepted, runner, sending, breaker, hookFaults>>

\* The next of the batch: its body is signed.
Sign(s, d) ==
  /\ sweepStep[s] = "next" /\ d \in sweepBatch[s]
  /\ d \notin Unreadable
  /\ sending' = [sending EXCEPT ![s] = d]
  /\ sweepStep' = [sweepStep EXCEPT ![s] = "post"]
  /\ UNCHANGED <<hookRows, accepted, runner, sweepBatch, breaker, hookFaults>>

\* The sweep is over: its process ends and the lock is free.
Leave(s) ==
  /\ runner' = IF runner = s THEN None ELSE runner
  /\ sweepStep' = [sweepStep EXCEPT ![s] = "idle"]
  /\ sweepBatch' = [sweepBatch EXCEPT ![s] = {}]
  /\ sending' = [sending EXCEPT ![s] = None]
  /\ misses' = 0 /\ circuit' = "closed"
  /\ UNCHANGED <<hookRows, accepted>>

\* A secret that cannot be decrypted ends the command, and with it the sweeps
\* that come after this one.
SignFails(s, d) ==
  /\ sweepStep[s] = "next" /\ d \in sweepBatch[s]
  /\ d \in Unreadable
  /\ Leave(s)
  /\ UNCHANGED hookFaults

SweepEnds(s) ==
  /\ sweepStep[s] = "next" /\ sweepBatch[s] = {}
  /\ Leave(s)
  /\ UNCHANGED hookFaults

Answered(s, answer) ==
  /\ sweepStep' = [sweepStep EXCEPT ![s] = answer]
  /\ UNCHANGED <<hookRows, runner, sweepBatch, sending>>

\* The breaker lets a request through; the endpoint accepts this one.
Requesting(s) == sweepStep[s] = "post" /\ circuit # "open"

Accepts(s) == accepted' = [accepted EXCEPT ![sending[s]] = @ + 1]

Missed ==
  /\ misses' = AtMost(misses + 1, Threshold)
  /\ circuit' = IF misses' >= Threshold THEN "open" ELSE circuit

\* The request and its answer, which the breaker records.
PostHook(s, ok) ==
  /\ Requesting(s)
  /\ Answered(s, IF ok THEN "ok" ELSE "error")
  /\ IF ok THEN Accepts(s) /\ misses' = 0 /\ circuit' = "closed"
     ELSE UNCHANGED accepted /\ Missed
  /\ UNCHANGED hookFaults

\* The endpoint accepts the request, and the answer does not come in time or
\* its connection breaks: to the sweep and its breaker this is a failure.
LoseAnswer(s) ==
  /\ Requesting(s) /\ hookFaults < MaxHookFaults
  /\ hookFaults' = hookFaults + 1
  /\ Answered(s, "error")
  /\ Accepts(s) /\ Missed

\* CircuitOpen: a failure like any other, without a request.
Refuse(s) ==
  /\ sweepStep[s] = "post" /\ circuit = "open"
  /\ Answered(s, "error")
  /\ UNCHANGED <<accepted, breaker, hookFaults>>

Cooldown ==
  /\ circuit = "open"
  /\ circuit' = "cooled"
  /\ UNCHANGED <<hookRows, accepted, runner, sweepStep, sweepBatch, sending, misses,
                 hookFaults>>

\* Mutation: a delivery that was accepted on its last attempt is given up.
NewStatusLate(s, d) ==
  IF hookTries[d] >= WebhookMaxAttempts THEN "failed"
  ELSE IF sweepStep[s] = "ok" THEN "delivered" ELSE "pending"

NewStatus(s, d) ==
  IF sweepStep[s] = "ok" THEN "delivered"
  ELSE IF hookTries[d] >= WebhookMaxAttempts THEN "failed" ELSE "pending"

SaveHook(s) ==
  LET d == sending[s]
  IN  /\ sweepStep[s] \in {"ok", "error"}
      /\ hookStatus' = [hookStatus EXCEPT ![d] = NewStatus(s, d)]
      /\ hookOld' = [hookOld EXCEPT ![d] = FALSE]
      /\ sweepBatch' = [sweepBatch EXCEPT ![s] = @ \ {d}]
      /\ sending' = [sending EXCEPT ![s] = None]
      /\ sweepStep' = [sweepStep EXCEPT ![s] = "next"]
      /\ UNCHANGED <<hookTries, accepted, runner, breaker, hookFaults>>

----------------------------------------------------------------------------
(* Faults.                                                                 *)

CrashSweep(s) ==
  /\ sweepStep[s] # "idle" /\ hookFaults < MaxHookFaults
  /\ hookFaults' = hookFaults + 1
  /\ Leave(s)

\* 15 minutes pass over a claim.
AgeHook(d) ==
  /\ hookStatus[d] = "sending" /\ ~hookOld[d]
  /\ hookOld' = [hookOld EXCEPT ![d] = TRUE]
  /\ UNCHANGED <<hookStatus, hookTries, accepted, runner, sweepStep, sweepBatch, sending,
                 breaker, hookFaults>>

----------------------------------------------------------------------------
WebhooksInit ==
  /\ hookStatus = [d \in Deliveries |-> "absent"]
  /\ hookTries = [d \in Deliveries |-> 0]
  /\ hookOld = [d \in Deliveries |-> FALSE]
  /\ accepted = [d \in Deliveries |-> 0]
  /\ runner = None
  /\ sweepStep = [s \in Sweepers |-> "idle"]
  /\ sweepBatch = [s \in Sweepers |-> {}]
  /\ sending = [s \in Sweepers |-> None]
  /\ misses = 0 /\ circuit = "closed"
  /\ hookFaults = 0

SweepWork(s) ==
  \/ Sweep(s)
  \/ \E S \in SUBSET Deliveries : ClaimHooks(s, S)
  \/ \E d \in Deliveries : Sign(s, d) \/ SignFails(s, d)
  \/ \E ok \in BOOLEAN : PostHook(s, ok)
  \/ Refuse(s) \/ SaveHook(s) \/ SweepEnds(s)

WebhooksNext ==
  \/ \E s \in Sweepers : SweepWork(s) \/ LoseAnswer(s) \/ CrashSweep(s)
  \/ \E d \in Deliveries : EnqueueHook(d) \/ AgeHook(d)
  \/ Cooldown

WebhooksSpec == WebhooksInit /\ [][WebhooksNext]_hookVars

\* The scheduler starts sweep after sweep, a claim grows old, and a delivery
\* that is due again and again comes into a batch at last, since a batch is
\* filled in the order of next_attempt_at.
WebhooksFairness ==
  /\ WF_hookVars(\E s \in Sweepers : SweepWork(s))
  /\ \A d \in Deliveries :
        /\ WF_hookVars(AgeHook(d))
        /\ SF_hookVars(\E s \in Sweepers, S \in SUBSET Deliveries :
                         d \in S /\ ClaimHooks(s, S))

WebhooksFairSpec == WebhooksSpec /\ WebhooksFairness

----------------------------------------------------------------------------
(* Properties.                                                             *)

\* Types; and a sweep has claimed all that it still has to send.
WebhooksTypeOK ==
  /\ hookStatus \in [Deliveries -> WebhookStatus \cup {"absent"}]
  /\ hookTries \in [Deliveries -> 0 .. WebhookMaxAttempts]
  /\ hookOld \in [Deliveries -> BOOLEAN]
  /\ accepted \in [Deliveries -> Nat]
  /\ runner \in Sweepers \cup {None}
  /\ sweepStep \in [Sweepers -> {"idle", "claiming", "next", "post", "ok", "error"}]
  /\ sweepBatch \in [Sweepers -> SUBSET Deliveries]
  /\ sending \in [Sweepers -> Deliveries \cup {None}]
  /\ misses \in 0 .. Threshold
  /\ circuit \in {"closed", "open", "cooled"}
  /\ hookFaults \in 0 .. MaxHookFaults
  /\ \A s \in Sweepers : sweepStep[s] \in {"post", "ok", "error"} <=> sending[s] # None

\* A claim belongs to one sweep: no delivery is in the hands of two, however
\* old a claim gets under a slow sweep, and what a sweep holds is still claimed.
OneSweep ==
  \A s, t \in Sweepers :
    /\ \A d \in sweepBatch[s] : hookStatus[d] = "sending"
    /\ s # t => sweepBatch[s] \cap sweepBatch[t] = {}

\* Every request beyond the first that an endpoint accepts is owed to a sweep
\* that died before it could save the answer of an earlier one, or to an earlier
\* answer that was lost; and without such a fault what was accepted is never
\* given up.
AcceptedOncePerFault ==
  \A d \in Deliveries :
    /\ accepted[d] <= 1 + hookFaults
    /\ accepted[d] > 0 /\ hookStatus[d] = "failed" => hookFaults > 0

\* The sweep delivers: the effect is that the endpoint accepts, a fault is what
\* fails, and no two sweeps ever meet over a delivery.
HookOutcome == [d \in Deliveries |-> CASE hookStatus[d] = "pending" -> "waiting"
                                       [] hookStatus[d] = "sending" -> "taken"
                                       [] hookStatus[d] = "delivered" -> "done"
                                       [] hookStatus[d] = "failed" -> "dropped"
                                       [] OTHER -> "absent"]

HookQueue == INSTANCE Delivery
  WITH Tasks <- Deliveries, Effects <- {"accepted"},
       Wanted <- [d \in Deliveries |-> {"accepted"}],
       state <- HookOutcome,
       happened <- [d \in Deliveries |-> [x \in {"accepted"} |-> accepted[d]]],
       failed <- hookFaults > 0, met <- FALSE

\* Webhooks are delivered as Delivery promises, and once delivered stay so.
SweepImplementsDelivery == HookQueue!Spec

\* Every delivery is settled at last: accepted or dead-lettered.
HooksSettle ==
  \A d \in Deliveries : hookStatus[d] = "pending" ~> hookStatus[d] \in {"delivered", "failed"}
=============================================================================
