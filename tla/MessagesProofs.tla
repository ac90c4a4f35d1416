--------------------------- MODULE MessagesProofs ---------------------------
(***************************************************************************)
(* An event of the outbox is processed only when it was delivered, and a   *)
(* webhook is in the hands of one sweep, for any workers, sweeps, events,  *)
(* channels and endpoints, and any number of crashes and stalls: OutboxInv *)
(* and WebhooksInv are inductive.  Both queues implement Delivery.         *)
(***************************************************************************)
EXTENDS Outbox, Webhooks, FiniteSetTheorems, TLAPS

----------------------------------------------------------------------------
(* The outbox.                                                             *)

LEMMA OutboxFirst == OutboxInit => OutboxInv
BY OutboxEventAssumption, OutboxNumberAssumption
   DEF OutboxInit, OutboxInv, OutboxTypeOK, NothingSkipped, Delivered, OutboxStatus, RowStatus, Steps

\* A step of one event's fields only, which processes nothing.
LEMMA EmitKeeps ==
  ASSUME OutboxInv, NEW e \in Events, Emit(e)
  PROVE  OutboxInv'
BY DEF OutboxInv, OutboxTypeOK, NothingSkipped, Delivered, Emit, memory, OutboxStatus

LEMMA ReclaimKeeps ==
  ASSUME OutboxInv, NEW w \in Workers, Reclaim(w)
  PROVE  OutboxInv'
<1>1. OutboxTypeOK'
  BY DEF OutboxInv, OutboxTypeOK, Reclaim, OutboxStatus, Steps
<1>2. NothingSkipped'
  BY DEF OutboxInv, OutboxTypeOK, NothingSkipped, Reclaim
<1>3. Delivered'
  BY DEF OutboxInv, OutboxTypeOK, Delivered, Reclaim
<1> QED BY <1>1, <1>2, <1>3 DEF OutboxInv

LEMMA ClaimKeeps ==
  ASSUME OutboxInv, NEW w \in Workers, NEW S \in SUBSET Events, Claim(w, S)
  PROVE  OutboxInv'
<1>1. OutboxTypeOK'
  <2>1. /\ status' \in [Events -> OutboxStatus \cup {"absent"}]
        /\ attempts' \in [Events -> Nat]
        /\ batch' \in [Workers -> SUBSET Events]
    BY DEF OutboxInv, OutboxTypeOK, Claim, OutboxStatus
  <2>2. [e \in Events |-> IF e \in S THEN attempts[e] + 1 ELSE 0] \in [Events -> Nat]
    BY DEF OutboxInv, OutboxTypeOK
  <2>3. tries' \in [Workers -> [Events -> Nat]]
    BY <2>2 DEF OutboxInv, OutboxTypeOK, Claim
  <2>4. pc' \in [Workers -> Steps]
    BY DEF OutboxInv, OutboxTypeOK, Claim, Steps
  <2>5. \A v \in Workers :
          /\ IF pc'[v] \in {"idle", "claiming", "next"} THEN event'[v] = None
             ELSE event'[v] \in batch'[v]
          /\ channel'[v] # None <=> pc'[v] \in {"send", "save"}
    BY DEF OutboxInv, OutboxTypeOK, Claim
  <2> QED BY <2>1, <2>3, <2>4, <2>5 DEF OutboxInv, OutboxTypeOK, Claim
<1>2. NothingSkipped'
  BY DEF OutboxInv, OutboxTypeOK, NothingSkipped, Claim
<1>3. Delivered'
  BY DEF OutboxInv, OutboxTypeOK, Delivered, Claim
<1> QED BY <1>1, <1>2, <1>3 DEF OutboxInv

LEMMA StartKeeps ==
  ASSUME OutboxInv, NEW w \in Workers, NEW e \in Events, Start(w, e)
  PROVE  OutboxInv'
<1>1. OutboxTypeOK'
  BY OutboxEventAssumption DEF OutboxInv, OutboxTypeOK, Start, rows, Steps
<1>2. NothingSkipped'
  BY OutboxEventAssumption DEF OutboxInv, OutboxTypeOK, NothingSkipped, Start, rows
<1>3. Delivered'
  BY DEF OutboxInv, Delivered, Start, rows
<1> QED BY <1>1, <1>2, <1>3 DEF OutboxInv

----------------------------------------------------------------------------
(* The end of an event.                                                    *)

\* A worker is done with its event: it is processed only if it was delivered.
LEMMA DoneKeeps ==
  ASSUME OutboxInv, NEW w \in Workers, NEW s \in OutboxStatus, Done(w, s),
         event[w] \in Events, channel[w] = None,
         s = "processed" =>
            /\ queued[event[w]] = Endpoints
            /\ event[w] \in Notified => \A c \in Channels : sends[event[w]][c] > 0
  PROVE  OutboxInv'
<1>1. OutboxTypeOK'
  <2>1. /\ status' \in [Events -> OutboxStatus \cup {"absent"}]
        /\ stale' \in [Events -> BOOLEAN]
        /\ batch' \in [Workers -> SUBSET Events]
        /\ tries' \in [Workers -> [Events -> Nat]]
        /\ event' \in [Workers -> Events \cup {None}]
        /\ todo' \in [Workers -> SUBSET Channels]
        /\ pc' \in [Workers -> Steps]
    BY DEF OutboxInv, OutboxTypeOK, Done, Steps
  <2>2. \A v \in Workers :
          /\ IF pc'[v] \in {"idle", "claiming", "next"} THEN event'[v] = None
             ELSE event'[v] \in batch'[v]
          /\ channel'[v] # None <=> pc'[v] \in {"send", "save"}
    BY DEF OutboxInv, OutboxTypeOK, Done
  <2> QED BY <2>1, <2>2 DEF OutboxInv, OutboxTypeOK, Done
<1>2. NothingSkipped'
  BY DEF OutboxInv, OutboxTypeOK, NothingSkipped, Done
<1>3. Delivered'
  BY DEF OutboxInv, OutboxTypeOK, Delivered, Done
<1> QED BY <1>1, <1>2, <1>3 DEF OutboxInv

LEMMA FinishKeeps ==
  ASSUME OutboxInv, NEW w \in Workers, Finish(w)
  PROVE  OutboxInv'
<1>1. event[w] \in Events /\ channel[w] = None
  BY DEF OutboxInv, OutboxTypeOK, Finish
<1>2. queued[event[w]] = Endpoints
  BY <1>1 DEF OutboxInv, OutboxTypeOK, Finish
<1>3. event[w] \in Notified => \A c \in Channels : sends[event[w]][c] > 0
  BY DEF OutboxInv, NothingSkipped, Finish
<1> QED BY <1>1, <1>2, <1>3, DoneKeeps DEF Finish, OutboxStatus

LEMMA FailKeeps ==
  ASSUME OutboxInv, NEW w \in Workers, Fail(w)
  PROVE  OutboxInv'
<1>1. event[w] \in Events /\ channel[w] = None
  BY DEF OutboxInv, OutboxTypeOK, Fail
<1>2. PICK s \in OutboxStatus : s # "processed" /\ Done(w, s)
  BY DEF Fail, OutboxStatus
<1> QED BY <1>1, <1>2, DoneKeeps

----------------------------------------------------------------------------
(* Notifying.                                                              *)

LEMMA SkipKeeps ==
  ASSUME OutboxInv, NEW w \in Workers, NEW c \in Channels, Skip(w, c)
  PROVE  OutboxInv'
<1>1. OutboxTypeOK'
  BY DEF OutboxInv, OutboxTypeOK, Skip, rows
<1>2. event[w] \in Events /\ sends[event[w]][c] > 0
  BY DEF OutboxInv, OutboxTypeOK, NothingSkipped, Skip, AlreadySent
<1>3. NothingSkipped'
  BY <1>2 DEF OutboxInv, OutboxTypeOK, NothingSkipped, Skip, rows
<1>4. Delivered'
  BY DEF OutboxInv, Delivered, Skip, rows
<1> QED BY <1>1, <1>3, <1>4 DEF OutboxInv

LEMMA OpenKeeps ==
  ASSUME OutboxInv, NEW w \in Workers, NEW c \in Channels, Open(w, c)
  PROVE  OutboxInv'
<1>1. OutboxTypeOK'
  BY OutboxEventAssumption DEF OutboxInv, OutboxTypeOK, Open, RowStatus, Steps
<1>2. NothingSkipped'
  BY DEF OutboxInv, OutboxTypeOK, NothingSkipped, Open
<1>3. Delivered'
  BY DEF OutboxInv, Delivered, Open
<1> QED BY <1>1, <1>2, <1>3 DEF OutboxInv

\* Sending never takes back what was sent.
LEMMA SendsGrow ==
  ASSUME OutboxTypeOK, NEW w \in Workers, Send(w)
  PROVE  /\ event[w] \in Events /\ channel[w] \in Channels
         /\ sends' \in [Events -> [Channels -> Nat]]
         /\ \A e \in Events, c \in Channels : sends'[e][c] >= sends[e][c]
         /\ sends'[event[w]][channel[w]] > 0
<1>1. event[w] \in Events /\ channel[w] \in Channels
  BY DEF OutboxTypeOK, Send
<1>2. sends' = [sends EXCEPT ![event[w]][channel[w]] = @ + 1]
  BY DEF Send
<1>3. sends \in [Events -> [Channels -> Nat]]
  BY DEF OutboxTypeOK
<1> QED BY <1>1, <1>2, <1>3

LEMMA SendKeeps ==
  ASSUME OutboxInv, NEW w \in Workers, Send(w)
  PROVE  OutboxInv'
<1>1. OutboxTypeOK'
  BY SendsGrow DEF OutboxInv, OutboxTypeOK, Send, rows, Steps
<1>2. \A e \in Events, c \in Channels : sends[e][c] > 0 => sends'[e][c] > 0
  BY SendsGrow DEF OutboxInv, OutboxTypeOK
<1>3. NothingSkipped'
  BY <1>2, SendsGrow DEF OutboxInv, OutboxTypeOK, NothingSkipped, Send, rows
<1>4. Delivered'
  BY <1>2 DEF OutboxInv, Delivered, Send, rows
<1> QED BY <1>1, <1>3, <1>4 DEF OutboxInv

LEMMA SaveKeeps ==
  ASSUME OutboxInv, NEW w \in Workers, Save(w)
  PROVE  OutboxInv'
<1>1. event[w] \in Events /\ channel[w] \in Channels
  BY DEF OutboxInv, OutboxTypeOK, Save
<1>2. OutboxTypeOK'
  BY <1>1, OutboxEventAssumption DEF OutboxInv, OutboxTypeOK, Save, RowStatus, Steps
<1>3. sends[event[w]][channel[w]] > 0
  BY DEF OutboxInv, NothingSkipped, Save
<1>4. NothingSkipped'
  BY <1>1, <1>3 DEF OutboxInv, OutboxTypeOK, NothingSkipped, Save
<1>5. Delivered'
  BY DEF OutboxInv, Delivered, Save
<1> QED BY <1>2, <1>4, <1>5 DEF OutboxInv

LEMMA SendFailsKeeps ==
  ASSUME OutboxInv, NEW w \in Workers, NEW sent \in BOOLEAN, SendFails(w, sent)
  PROVE  OutboxInv'
<1>1. event[w] \in Events /\ channel[w] \in Channels
  BY DEF OutboxInv, OutboxTypeOK, SendFails
<1>2. /\ sends' \in [Events -> [Channels -> Nat]]
      /\ \A e \in Events, c \in Channels : sends'[e][c] >= sends[e][c]
  BY <1>1 DEF OutboxInv, OutboxTypeOK, SendFails
<1>3. \A e \in Events, c \in Channels : sends[e][c] > 0 => sends'[e][c] > 0
  BY <1>2 DEF OutboxInv, OutboxTypeOK
<1>4. OutboxTypeOK'
  <2>1. faults' \in 0 .. MaxFaults
    BY OutboxNumberAssumption DEF OutboxInv, OutboxTypeOK, SendFails
  <2>2. row' \in [Events -> [Channels -> RowStatus]]
    BY <1>1 DEF OutboxInv, OutboxTypeOK, SendFails, RowStatus
  <2>3. /\ pc' \in [Workers -> Steps]
        /\ channel' \in [Workers -> Channels \cup {None}]
    BY DEF OutboxInv, OutboxTypeOK, SendFails, Steps
  <2>4. \A v \in Workers :
          /\ IF pc'[v] \in {"idle", "claiming", "next"} THEN event'[v] = None
             ELSE event'[v] \in batch'[v]
          /\ channel'[v] # None <=> pc'[v] \in {"send", "save"}
    BY DEF OutboxInv, OutboxTypeOK, SendFails
  <2> QED BY <1>2, <2>1, <2>2, <2>3, <2>4 DEF OutboxInv, OutboxTypeOK, SendFails
<1>5. NothingSkipped'
  BY <1>1, <1>3 DEF OutboxInv, OutboxTypeOK, NothingSkipped, SendFails
<1>6. Delivered'
  BY <1>3 DEF OutboxInv, Delivered, SendFails
<1> QED BY <1>4, <1>5, <1>6 DEF OutboxInv

LEMMA EnqueueKeeps ==
  ASSUME OutboxInv, NEW w \in Workers, NEW h \in Endpoints, Enqueue(w, h)
  PROVE  OutboxInv'
<1>1. OutboxTypeOK'
  BY DEF OutboxInv, OutboxTypeOK, Enqueue, memory
<1>2. NothingSkipped'
  BY DEF OutboxInv, NothingSkipped, Enqueue, memory
<1>3. Delivered'
  BY DEF OutboxInv, OutboxTypeOK, Delivered, Enqueue, memory
<1> QED BY <1>1, <1>2, <1>3 DEF OutboxInv

----------------------------------------------------------------------------
(* Faults.                                                                 *)

LEMMA CrashKeeps ==
  ASSUME OutboxInv, NEW w \in Workers, Crash(w)
  PROVE  OutboxInv'
<1>1. OutboxTypeOK'
  BY OutboxNumberAssumption DEF OutboxInv, OutboxTypeOK, Crash, rows, Steps
<1>2. NothingSkipped'
  BY DEF OutboxInv, OutboxTypeOK, NothingSkipped, Crash, rows
<1>3. Delivered'
  BY DEF OutboxInv, Delivered, Crash, rows
<1> QED BY <1>1, <1>2, <1>3 DEF OutboxInv

LEMMA AgeKeeps ==
  ASSUME OutboxInv, NEW e \in Events, Age(e)
  PROVE  OutboxInv'
<1>1. OutboxTypeOK'
  <2>1. faults' \in 0 .. MaxFaults
    BY OutboxNumberAssumption DEF OutboxInv, OutboxTypeOK, Age
  <2> QED BY <2>1 DEF OutboxInv, OutboxTypeOK, Age, memory
<1>2. NothingSkipped' /\ Delivered'
  BY DEF OutboxInv, NothingSkipped, Delivered, Age, memory
<1> QED BY <1>1, <1>2 DEF OutboxInv

----------------------------------------------------------------------------
LEMMA StepKeeps == OutboxInv /\ [OutboxNext]_outboxVars => OutboxInv'
<1> SUFFICES ASSUME OutboxInv, [OutboxNext]_outboxVars PROVE OutboxInv'
  OBVIOUS
<1>1. ASSUME NEW w \in Workers, Notify(w) PROVE OutboxInv'
  BY <1>1, SkipKeeps, OpenKeeps, SendKeeps, SaveKeeps, SendFailsKeeps, EnqueueKeeps
     DEF Notify
<1>2. ASSUME NEW w \in Workers, Work(w) PROVE OutboxInv'
  BY <1>1, <1>2, ReclaimKeeps, ClaimKeeps, StartKeeps, FinishKeeps, FailKeeps DEF Work
<1>3. CASE UNCHANGED outboxVars
  BY <1>3 DEF OutboxInv, OutboxTypeOK, NothingSkipped, Delivered, outboxVars, rows, memory
<1> QED BY <1>2, <1>3, CrashKeeps, EmitKeeps, AgeKeeps DEF OutboxNext

LEMMA OutboxInvariance == OutboxSpec => []OutboxInv
BY OutboxFirst, StepKeeps, PTL DEF OutboxSpec

\* Every field keeps its type, and a worker's memory fits the step it is at: it
\* works on an event of its own batch and opens one channel at a time.
THEOREM OutboxTypeCorrect == OutboxSpec => []OutboxTypeOK
<1>1. OutboxInv => OutboxTypeOK
  BY DEF OutboxInv
<1> QED BY <1>1, OutboxInvariance, PTL

\* At least once: drain_outbox marks an event processed only when its notice has
\* gone out on every channel and its webhooks are queued, even if two workers
\* had the event and wrote over each other's rows, or one of them died.
THEOREM AtLeastOnce == OutboxSpec => []Delivered
<1>1. OutboxInv => Delivered
  BY DEF OutboxInv
<1> QED BY <1>1, OutboxInvariance, PTL

----------------------------------------------------------------------------
(* Without a fault a claim belongs to one worker.                          *)

OwnClaim ==
  faults = 0 =>
    \A v, w \in Workers :
      /\ \A e \in batch[w] : status[e] = "processing" /\ ~stale[e]
      /\ v # w => batch[v] \cap batch[w] = {}

LEMMA ReclaimKeepsClaims ==
  ASSUME OutboxTypeOK, OwnClaim, NEW w \in Workers, Reclaim(w)
  PROVE  OwnClaim'
BY DEF OutboxTypeOK, OwnClaim, Reclaim

LEMMA ClaimKeepsClaims ==
  ASSUME OutboxTypeOK, OwnClaim, NEW w \in Workers, NEW S \in SUBSET Events, Claim(w, S),
         \A e \in Events : status[e] # "processing" => ~stale[e]
  PROVE  OwnClaim'
<1> SUFFICES ASSUME faults' = 0
             PROVE  \A u, v \in Workers :
                      /\ \A e \in batch'[v] : status'[e] = "processing" /\ ~stale'[e]
                      /\ u # v => batch'[u] \cap batch'[v] = {}
  BY DEF OwnClaim
<1>1. \A v \in Workers : batch'[v] = IF v = w THEN S ELSE batch[v]
  BY DEF OutboxTypeOK, Claim
<1>2. \A e \in Events : status'[e] = IF e \in S THEN "processing" ELSE status[e]
  BY DEF Claim
<1>3. faults = 0 /\ stale' = stale /\ \A e \in S : status[e] = "pending"
  BY DEF Claim
<1>4. \A u, v \in Workers :
        /\ \A e \in batch[v] : status[e] = "processing" /\ ~stale[e]
        /\ u # v => batch[u] \cap batch[v] = {}
  BY <1>3 DEF OwnClaim
<1>5. \A v \in Workers : batch[v] \cap S = {} /\ batch[v] \subseteq Events
  BY <1>3, <1>4 DEF OutboxTypeOK
<1> QED BY <1>1, <1>2, <1>3, <1>4, <1>5

LEMMA DoneKeepsClaims ==
  ASSUME OutboxTypeOK, OwnClaim, NEW w \in Workers, NEW s, Done(w, s), event[w] \in batch[w]
  PROVE  OwnClaim'
<1> SUFFICES ASSUME faults' = 0
             PROVE  \A u, v \in Workers :
                      /\ \A e \in batch'[v] : status'[e] = "processing" /\ ~stale'[e]
                      /\ u # v => batch'[u] \cap batch'[v] = {}
  BY DEF OwnClaim
<1>1. \A v \in Workers : batch'[v] = IF v = w THEN batch[w] \ {event[w]} ELSE batch[v]
  BY DEF OutboxTypeOK, Done
<1>2. faults = 0
  BY DEF Done
<1>3. \A u, v \in Workers :
        /\ \A e \in batch[v] : status[e] = "processing" /\ ~stale[e]
        /\ u # v => batch[u] \cap batch[v] = {}
  BY <1>2 DEF OwnClaim
<1>4. \A e \in Events : e # event[w] => status'[e] = status[e] /\ stale'[e] = stale[e]
  BY DEF OutboxTypeOK, Done
<1>5. \A v \in Workers : batch'[v] \subseteq batch[v] /\ batch[v] \subseteq Events
  BY <1>1 DEF OutboxTypeOK
<1>6. \A v \in Workers : event[w] \notin batch'[v]
  <2>1. \A v \in Workers : v # w => event[w] \notin batch[v]
    BY <1>3
  <2> QED BY <1>1, <2>1
<1> QED BY <1>3, <1>4, <1>5, <1>6

\* Only what is claimed grows old.
OldIsClaimed == \A e \in Events : stale[e] => status[e] = "processing"

FinalInv == OutboxInv /\ OwnClaim /\ OldIsClaimed

LEMMA StepKeepsClaims == FinalInv /\ [OutboxNext]_outboxVars => FinalInv'
<1> SUFFICES ASSUME FinalInv, [OutboxNext]_outboxVars PROVE FinalInv'
  OBVIOUS
<1>0. OutboxInv' /\ OutboxTypeOK
  BY StepKeeps DEF FinalInv, OutboxInv
<1> USE <1>0 DEF FinalInv
<1>1. ASSUME UNCHANGED <<status, stale, batch, faults>>
      PROVE  FinalInv'
  BY <1>1 DEF OwnClaim, OldIsClaimed
<1>2. ASSUME NEW w \in Workers, Notify(w)
      PROVE  FinalInv'
  <2>1. CASE \E sent \in BOOLEAN : SendFails(w, sent)
    <3>1. UNCHANGED <<status, stale, batch>> /\ (faults' = 0 => faults = 0)
      BY <2>1 DEF SendFails, OutboxTypeOK
    <3> QED BY <3>1 DEF OwnClaim, OldIsClaimed
  <2>2. CASE \/ \E c \in Channels : Skip(w, c) \/ Open(w, c)
             \/ Send(w) \/ Save(w) \/ \E h \in Endpoints : Enqueue(w, h)
    BY <1>1, <2>2 DEF Skip, Open, Send, Save, Enqueue, rows, memory
  <2> QED BY <1>2, <2>1, <2>2 DEF Notify
<1>3. ASSUME NEW w \in Workers, Reclaim(w)
      PROVE  FinalInv'
  BY <1>3, ReclaimKeepsClaims DEF OldIsClaimed, Reclaim
<1>4. ASSUME NEW w \in Workers, NEW S \in SUBSET Events, Claim(w, S)
      PROVE  FinalInv'
  <2>1. OldIsClaimed'
    BY <1>4 DEF OldIsClaimed, Claim
  <2> QED BY <1>4, <2>1, ClaimKeepsClaims DEF OldIsClaimed
<1>5. ASSUME NEW w \in Workers, NEW e \in Events, Start(w, e)
      PROVE  FinalInv'
  BY <1>1, <1>5 DEF Start, rows
<1>6. ASSUME NEW w \in Workers, NEW s, Done(w, s), event[w] \in batch[w]
      PROVE  FinalInv'
  <2>1. OldIsClaimed'
    BY <1>6 DEF OldIsClaimed, Done, OutboxTypeOK
  <2> QED BY <1>6, <2>1, DoneKeepsClaims
<1>7. ASSUME NEW w \in Workers, Finish(w) \/ Fail(w)
      PROVE  FinalInv'
  BY <1>6, <1>7 DEF Finish, Fail, OutboxTypeOK
<1>8. ASSUME NEW w \in Workers, Crash(w)
      PROVE  FinalInv'
  <2>1. faults' # 0
    BY <1>8 DEF Crash, OutboxTypeOK
  <2> QED BY <1>8, <2>1 DEF Crash, rows, OwnClaim, OldIsClaimed
<1>9. ASSUME NEW e \in Events, Emit(e)
      PROVE  FinalInv'
  BY <1>9 DEF Emit, memory, OwnClaim, OldIsClaimed, OutboxTypeOK
<1>10. ASSUME NEW e \in Events, Age(e)
       PROVE  FinalInv'
  <2>1. OldIsClaimed'
    BY <1>10 DEF Age, OldIsClaimed, OutboxTypeOK
  <2>2. CASE Held(e)
    <3>1. faults' # 0
      BY <1>10, <2>2 DEF Age, OutboxTypeOK
    <3> QED BY <2>1, <3>1 DEF OwnClaim
  <2>3. CASE ~Held(e)
    BY <1>10, <2>1, <2>3 DEF Age, Held, memory, OwnClaim, OutboxTypeOK
  <2> QED BY <2>2, <2>3
<1>11. CASE UNCHANGED outboxVars
  BY <1>1, <1>11 DEF outboxVars, rows, memory
<1>12. ASSUME NEW w \in Workers, Work(w)
       PROVE  FinalInv'
  BY <1>2, <1>3, <1>4, <1>5, <1>7, <1>12 DEF Work
<1> QED BY <1>8, <1>9, <1>10, <1>11, <1>12 DEF OutboxNext

\* A processed event stays so unless a worker was too slow, or died, or a
\* channel failed after it had sent: drain_outbox finishes what it claimed, and
\* nobody else's late save puts it back.
THEOREM StaysProcessed == OutboxSpec => ProcessedIsFinal
<1>1. OutboxInit => FinalInv
  BY OutboxFirst DEF FinalInv, OutboxInit, OwnClaim, OldIsClaimed
<1>2. FinalInv /\ [OutboxNext]_outboxVars =>
        [\A e \in Events : status[e] = "processed" /\ status'[e] # "processed"
                           => faults > 0]_outboxVars
  <2> SUFFICES ASSUME FinalInv, OutboxNext, NEW e \in Events, faults = 0,
                      status[e] = "processed"
               PROVE  status'[e] = "processed"
    BY DEF FinalInv, OutboxInv, OutboxTypeOK
  <2>1. OutboxTypeOK /\ \A w \in Workers : e \notin batch[w]
    BY DEF FinalInv, OutboxInv, OwnClaim
  <2> USE <2>1 DEF OutboxTypeOK
  <2>2. ASSUME NEW w \in Workers, NEW s, Done(w, s), event[w] \in batch[w]
        PROVE  status'[e] = "processed"
    BY <2>2 DEF Done
  <2>3. ASSUME NEW w \in Workers, Finish(w) \/ Fail(w)
        PROVE  status'[e] = "processed"
    BY <2>2, <2>3 DEF Finish, Fail
  <2>4. ASSUME NEW w \in Workers, Reclaim(w) \/ \E S \in SUBSET Events : Claim(w, S)
        PROVE  status'[e] = "processed"
    BY <2>4 DEF Reclaim, Claim
  <2>5. ASSUME NEW w \in Workers, Notify(w) \/ Crash(w) \/ \E d \in Events : Start(w, d)
        PROVE  status'[e] = "processed"
    BY <2>5 DEF Notify, Skip, Open, Send, Save, SendFails, Enqueue, Crash, Start, rows
  <2>6. ASSUME NEW d \in Events, Emit(d) \/ Age(d)
        PROVE  status'[e] = "processed"
    BY <2>6 DEF Emit, Age
  <2> QED BY <2>3, <2>4, <2>5, <2>6 DEF OutboxNext, Work
<1> QED BY <1>1, <1>2, StepKeepsClaims, PTL DEF OutboxSpec, ProcessedIsFinal

----------------------------------------------------------------------------
(* Without a fault nothing is sent twice.                                  *)

\* What has been sent is on record, or its worker is about to put it there.
Recorded(e, c) ==
  /\ sends[e][c] <= 1
  /\ sends[e][c] > 0 =>
       \/ row[e][c] = "sent"
       \/ \E w \in Workers : pc[w] = "save" /\ event[w] = e /\ channel[w] = c

\* A worker sends only what is not on record.
SendsNew(w) == pc[w] = "send" => row[event[w]][channel[w]] # "sent"

OnRecord ==
  faults = 0 =>
    /\ \A e \in Events, c \in Channels : Recorded(e, c)
    /\ \A w \in Workers : SendsNew(w)

\* The steps that send nothing and record nothing.
LEMMA QuietKeepsRecord ==
  ASSUME FinalInv, OnRecord, UNCHANGED <<row, sends, channel, faults>>,
         \A w \in Workers : pc'[w] \in {"save", "send"} \/ pc[w] \in {"save", "send"}
                            => pc'[w] = pc[w] /\ event'[w] = event[w]
  PROVE  OnRecord'
BY DEF OnRecord, Recorded, SendsNew

\* A worker w at the record of e and c changes that one only.
LEMMA OneRecordChanges ==
  ASSUME OutboxTypeOK, OnRecord, faults = 0, NEW w \in Workers,
         NEW e \in Events, NEW c \in Channels, event[w] = e, UNCHANGED event,
         \A v \in Workers \ {w} : pc'[v] = pc[v] /\ channel'[v] = channel[v],
         \A g \in Events, d \in Channels :
            ~(g = e /\ d = c) => sends'[g][d] = sends[g][d] /\ row'[g][d] = row[g][d],
         pc[w] = "save" => channel[w] = c,
         \/ row'[e][c] # "sent"
         \/ \A v \in Workers \ {w} : pc[v] = "send" => event[v] # e,
         Recorded(e, c)', SendsNew(w)'
  PROVE  OnRecord'
<1>1. ASSUME NEW g \in Events, NEW d \in Channels, ~(g = e /\ d = c)
      PROVE  Recorded(g, d)'
  <2>1. Recorded(g, d)
    BY DEF OnRecord
  <2>2. \A v \in Workers : pc[v] = "save" /\ event[v] = g /\ channel[v] = d
                           => pc'[v] = "save" /\ channel'[v] = d
    BY <1>1
  <2>3. sends'[g][d] = sends[g][d] /\ row'[g][d] = row[g][d]
    BY <1>1
  <2> QED BY <2>1, <2>2, <2>3 DEF Recorded
<1>2. ASSUME NEW v \in Workers, v # w, pc'[v] = "send"
      PROVE  row'[event'[v]][channel'[v]] # "sent"
  <2>1. pc[v] = "send" /\ channel'[v] = channel[v] /\ event'[v] = event[v]
    BY <1>2
  <2>2. event[v] \in Events /\ channel[v] \in Channels
    BY <2>1 DEF OutboxTypeOK
  <2>3. row[event[v]][channel[v]] # "sent"
    BY <2>1 DEF OnRecord, SendsNew
  <2>4. CASE event[v] = e /\ channel[v] = c
    BY <1>2, <2>1, <2>4
  <2>5. CASE ~(event[v] = e /\ channel[v] = c)
    BY <2>1, <2>2, <2>3, <2>5
  <2> QED BY <2>4, <2>5
<1>3. \A v \in Workers : SendsNew(v)'
  BY <1>2 DEF SendsNew
<1> QED BY <1>1, <1>3 DEF OnRecord

\* Without a fault, what a worker is about to send has not been sent.
LEMMA SendsOnce ==
  ASSUME FinalInv, OnRecord, NEW w \in Workers, pc[w] = "send", faults = 0
  PROVE  /\ event[w] \in Events /\ channel[w] \in Channels
         /\ sends[event[w]][channel[w]] = 0
<1>1. OutboxTypeOK /\ OwnClaim
  BY DEF FinalInv, OutboxInv
<1>2. event[w] \in Events /\ channel[w] \in Channels
  BY <1>1 DEF OutboxTypeOK
<1>3. row[event[w]][channel[w]] # "sent"
  BY DEF OnRecord, SendsNew
<1>4. \A v \in Workers : ~(pc[v] = "save" /\ event[v] = event[w])
  BY <1>1 DEF OwnClaim, OutboxTypeOK
<1>5. Recorded(event[w], channel[w]) /\ sends[event[w]][channel[w]] \in Nat
  BY <1>1, <1>2 DEF OnRecord, OutboxTypeOK
<1> QED BY <1>2, <1>3, <1>4, <1>5 DEF Recorded

LEMMA NotifyKeepsRecord ==
  ASSUME FinalInv, OnRecord, NEW w \in Workers, Notify(w)
  PROVE  OnRecord'
<1>0. OutboxTypeOK /\ OwnClaim
  BY DEF FinalInv, OutboxInv
<1>1. ASSUME NEW v \in Workers, v # w, faults = 0, pc[w] \in {"send", "save"},
             pc[v] \in {"send", "save"}
      PROVE  event[v] # event[w]
  BY <1>0, <1>1 DEF OwnClaim, OutboxTypeOK
<1>2. ASSUME NEW c \in Channels, Skip(w, c)
      PROVE  OnRecord'
  BY <1>2, QuietKeepsRecord DEF Skip, rows
<1>3. ASSUME NEW h \in Endpoints, Enqueue(w, h)
      PROVE  OnRecord'
  BY <1>3, QuietKeepsRecord DEF Enqueue, memory
<1>4. ASSUME NEW c \in Channels, Open(w, c), faults = 0
      PROVE  OnRecord'
  <2>0. PICK e \in Events : event[w] = e
    BY <1>0, <1>4 DEF Open, OutboxTypeOK
  <2>1. /\ e \in Events /\ pc[w] = "notify" /\ pc'[w] = "send" /\ event' = event
        /\ row[e][c] # "sent" /\ channel'[w] = c /\ sends' = sends
        /\ \A v \in Workers \ {w} : pc'[v] = pc[v] /\ channel'[v] = channel[v]
    BY <1>0, <1>4, <2>0 DEF Open, OutboxTypeOK, AlreadySent
  <2>2. /\ row'[e][c] # "sent"
        /\ \A g \in Events, d \in Channels :
             ~(g = e /\ d = c) => row'[g][d] = row[g][d]
    BY <1>0, <1>4, <2>0, <2>1 DEF Open, OutboxTypeOK
  <2>3. Recorded(e, c)
    BY <1>4, <2>1 DEF OnRecord
  <2>4. Recorded(e, c)'
    BY <2>1, <2>3 DEF Recorded
  <2>5. SendsNew(w)'
    BY <2>0, <2>1, <2>2 DEF SendsNew
  <2> QED BY <1>0, <1>4, <2>0, <2>1, <2>2, <2>4, <2>5, OneRecordChanges
<1>5. ASSUME pc[w] = "send", faults = 0
      PROVE  /\ event[w] \in Events /\ channel[w] \in Channels
             /\ sends[event[w]][channel[w]] = 0
  BY <1>5, SendsOnce
<1>6. ASSUME Send(w), faults = 0
      PROVE  OnRecord'
  <2>p. PICK e \in Events, c \in Channels : event[w] = e /\ channel[w] = c
    BY <1>0, <1>6 DEF Send, OutboxTypeOK
  <2>1. /\ e \in Events /\ c \in Channels /\ pc[w] = "send" /\ pc'[w] = "save"
        /\ event' = event /\ channel' = channel /\ row' = row /\ sends[e][c] = 0
        /\ \A v \in Workers \ {w} : pc'[v] = pc[v]
    BY <2>p, <1>0, <1>5, <1>6 DEF Send, OutboxTypeOK, rows
  <2>2. \A g \in Events, d \in Channels :
           sends'[g][d] = IF g = e /\ d = c THEN sends[g][d] + 1 ELSE sends[g][d]
    BY <2>p, <1>0, <1>6, <2>1 DEF Send, OutboxTypeOK
  <2>3. sends'[e][c] = 1
    BY <2>p, <2>1, <2>2
  <2>4. Recorded(e, c)' /\ SendsNew(w)'
    BY <2>p, <2>1, <2>3 DEF Recorded, SendsNew
  <2>5. row'[e][c] # "sent"
    BY <2>p, <1>6, <2>1 DEF OnRecord, SendsNew
  <2> QED BY <2>p, <1>0, <1>6, <2>1, <2>2, <2>4, <2>5, OneRecordChanges
<1>7. ASSUME Save(w), faults = 0
      PROVE  OnRecord'
  <2>p. PICK e \in Events, c \in Channels : event[w] = e /\ channel[w] = c
    BY <1>0, <1>7 DEF Save, OutboxTypeOK
  <2>1. /\ e \in Events /\ c \in Channels /\ pc[w] = "save" /\ pc'[w] = "notify"
        /\ event' = event /\ sends' = sends
        /\ \A v \in Workers \ {w} : pc'[v] = pc[v] /\ channel'[v] = channel[v]
    BY <2>p, <1>0, <1>7 DEF Save, OutboxTypeOK
  <2>2. \A g \in Events, d \in Channels :
           row'[g][d] = IF g = e /\ d = c THEN "sent" ELSE row[g][d]
    BY <2>p, <1>0, <1>7, <2>1 DEF Save, OutboxTypeOK
  <2>3. Recorded(e, c)
    BY <2>p, <1>7, <2>1 DEF OnRecord
  <2>4. Recorded(e, c)' /\ SendsNew(w)'
    BY <2>p, <2>1, <2>2, <2>3 DEF Recorded, SendsNew
  <2>5. \A v \in Workers \ {w} : pc[v] = "send" => event[v] # e
    BY <2>p, <1>1, <1>7, <2>1
  <2> QED BY <2>p, <1>0, <1>7, <2>1, <2>2, <2>4, <2>5, OneRecordChanges
<1>8. ASSUME NEW sent \in BOOLEAN, SendFails(w, sent), faults' = 0
      PROVE  OnRecord'
  <2>p. PICK e \in Events, c \in Channels : event[w] = e /\ channel[w] = c
    BY <1>0, <1>8 DEF SendFails, OutboxTypeOK
  <2>0. faults = 0 /\ ~sent /\ pc[w] = "send"
    BY <2>p, <1>0, <1>8 DEF SendFails, OutboxTypeOK
  <2>1. /\ e \in Events /\ c \in Channels /\ pc'[w] = "error"
        /\ event' = event /\ sends[e][c] = 0
        /\ \A v \in Workers \ {w} : pc'[v] = pc[v] /\ channel'[v] = channel[v]
    BY <2>p, <1>0, <1>5, <1>8, <2>0 DEF SendFails, OutboxTypeOK
  <2>2. \A g \in Events, d \in Channels :
           /\ row'[g][d] = IF g = e /\ d = c THEN "failed" ELSE row[g][d]
           /\ sends'[g][d] = sends[g][d]
    BY <2>p, <1>0, <1>8, <2>0, <2>1 DEF SendFails, OutboxTypeOK
  <2>4. Recorded(e, c)' /\ SendsNew(w)'
    BY <2>p, <2>1, <2>2 DEF Recorded, SendsNew
  <2> QED BY <2>p, <1>0, <2>0, <2>1, <2>2, <2>4, OneRecordChanges
<1>9. faults' = 0 => faults = 0
  BY <1>0 DEF Notify, Skip, Open, Send, Save, SendFails, Enqueue, memory, OutboxTypeOK
<1>10. CASE faults' # 0
  BY <1>10 DEF OnRecord
<1> QED
  BY <1>2, <1>3, <1>4, <1>6, <1>7, <1>8, <1>9, <1>10 DEF Notify

LEMMA StepKeepsRecord ==
  FinalInv /\ OnRecord /\ [OutboxNext]_outboxVars => OnRecord'
<1> SUFFICES ASSUME FinalInv, OnRecord, [OutboxNext]_outboxVars PROVE OnRecord'
  OBVIOUS
<1> USE DEF FinalInv, OutboxInv, OutboxTypeOK
<1>1. ASSUME NEW w \in Workers, Reclaim(w) \/ \E S \in SUBSET Events : Claim(w, S)
      PROVE  OnRecord'
  BY <1>1, QuietKeepsRecord DEF Reclaim, Claim
<1>2. ASSUME NEW w \in Workers, NEW e \in Events, Start(w, e)
      PROVE  OnRecord'
  BY <1>2, QuietKeepsRecord DEF Start, rows
<1>3. ASSUME NEW w \in Workers, NEW s, pc[w] \in {"notify", "error"}, Done(w, s)
      PROVE  OnRecord'
  BY <1>3, QuietKeepsRecord DEF Done
<1>4. ASSUME NEW w \in Workers, Finish(w) \/ Fail(w)
      PROVE  OnRecord'
  BY <1>3, <1>4 DEF Finish, Fail
<1>5. ASSUME NEW w \in Workers, Crash(w)
      PROVE  OnRecord'
  BY <1>5 DEF Crash, OnRecord
<1>6. ASSUME NEW e \in Events, Emit(e)
      PROVE  OnRecord'
  BY <1>6, QuietKeepsRecord DEF Emit, memory
<1>7. ASSUME NEW e \in Events, Age(e)
      PROVE  OnRecord'
  <2>1. CASE Held(e)
    BY <1>7, <2>1 DEF Age, OnRecord
  <2>2. CASE ~Held(e)
    BY <1>7, <2>2, QuietKeepsRecord DEF Age, memory
  <2> QED BY <2>1, <2>2
<1>8. CASE UNCHANGED outboxVars
  BY <1>8, QuietKeepsRecord DEF outboxVars, rows, memory
<1> QED BY <1>1, <1>2, <1>4, <1>5, <1>6, <1>7, <1>8, NotifyKeepsRecord DEF OutboxNext, Work

----------------------------------------------------------------------------
(* How often an event is tried.                                            *)

\* The workers who will put the event back if they fail.
Retrying(e) == {w \in Workers : e \in batch[w] /\ tries[w][e] < MaxAttempts}

\* Nobody who could end the event has it: it will be claimed again.
Claimable(e) ==
  \/ status[e] \in {"absent", "pending"}
  \/ status[e] = "processing" /\ (stale[e] \/ ~Held(e))

\* Each of those may bring about a claim.
Turns(e) == Cardinality(Retrying(e)) + (IF Claimable(e) THEN 1 ELSE 0)

\* There is one, and one more for each fault; and from the last regular attempt
\* on every claim uses one up.
TurnsBounded(e) ==
  /\ Turns(e) <= 1 + faults
  /\ attempts[e] + 1 >= MaxAttempts => attempts[e] + Turns(e) <= MaxAttempts + faults

TurnsInv ==
  /\ \A w \in Workers : pc[w] \in {"idle", "claiming"} => batch[w] = {}
  /\ \A e \in Events : TurnsBounded(e)

LEMMA WorkersFinite ==
  ASSUME NEW S \in SUBSET Workers
  PROVE  IsFiniteSet(S) /\ Cardinality(S) \in Nat
<1>1. IsFiniteSet(S)
  BY OutboxNumberAssumption, FS_Subset
<1> QED BY <1>1, FS_CardinalityType

LEMMA TurnsNat == ASSUME NEW e \in Events PROVE Turns(e) \in Nat
<1>1. Retrying(e) \in SUBSET Workers
  BY DEF Retrying
<1> QED BY <1>1, WorkersFinite DEF Turns

\* The number of workers, before and after.
LEMMA FewerRetry ==
  ASSUME NEW S \in SUBSET Workers, NEW T \in SUBSET S
  PROVE  /\ Cardinality(S) \in Nat /\ Cardinality(T) \in Nat
         /\ Cardinality(T) <= Cardinality(S)
BY WorkersFinite, FS_Subset

LEMMA OneLessRetries ==
  ASSUME NEW S \in SUBSET Workers, NEW w \in S, NEW T \in SUBSET (S \ {w})
  PROVE  /\ Cardinality(S) \in Nat /\ Cardinality(T) \in Nat
         /\ Cardinality(T) + 1 <= Cardinality(S)
<1>1. IsFiniteSet(S) /\ Cardinality(S) \in Nat
  BY WorkersFinite
<1>2. Cardinality(S \ {w}) = Cardinality(S) - 1
  BY ONLY <1>1, w \in S, FS_RemoveElement
<1>3. Cardinality(T) <= Cardinality(S \ {w}) /\ Cardinality(T) \in Nat
      /\ Cardinality(S \ {w}) \in Nat
  BY FewerRetry
<1> QED BY <1>1, <1>2, <1>3

LEMMA OneMoreRetries ==
  ASSUME NEW S \in SUBSET Workers, NEW w \in Workers, NEW T \in SUBSET (S \cup {w})
  PROVE  /\ Cardinality(S) \in Nat /\ Cardinality(T) \in Nat
         /\ Cardinality(T) <= Cardinality(S) + 1
<1> DEFINE U == S \cup {w}
<1>1. U \in SUBSET Workers
  OBVIOUS
<1>2. CASE w \in S
  BY <1>2, FewerRetry
<1>3. CASE w \notin S
  <2>1. S \in SUBSET (U \ {w})
    BY <1>3
  <2>2. IsFiniteSet(U) /\ Cardinality(U) \in Nat
    BY <1>1, WorkersFinite
  <2>3. w \in U /\ U \ {w} = S
    BY <1>3
  <2>4. Cardinality(S) = Cardinality(U) - 1
    BY ONLY <2>2, <2>3, FS_RemoveElement
  <2>5. /\ Cardinality(S) \in Nat /\ Cardinality(T) \in Nat
        /\ Cardinality(T) <= Cardinality(U)
    BY <1>1, <2>1, FewerRetry
  <2> QED BY <2>2, <2>4, <2>5
<1> QED BY <1>2, <1>3

\* Turns are only taken away.
LEMMA NoNewTurn ==
  ASSUME OutboxTypeOK, NEW e \in Events, TurnsBounded(e), attempts'[e] = attempts[e],
         faults' \in Nat, faults' >= faults,
         Retrying(e)' \subseteq Retrying(e), Claimable(e)' => Claimable(e)
  PROVE  TurnsBounded(e)'
<1>1. /\ Cardinality(Retrying(e)) \in Nat /\ Cardinality(Retrying(e)') \in Nat
      /\ Cardinality(Retrying(e)') <= Cardinality(Retrying(e))
  <2>1. Retrying(e) \in SUBSET Workers /\ Retrying(e)' \in SUBSET Retrying(e)
    BY DEF Retrying
  <2> QED BY <2>1, FewerRetry
<1>2. Turns(e)' <= Turns(e) /\ Turns(e) \in Nat /\ Turns(e)' \in Nat
  BY <1>1 DEF Turns
<1>3. attempts[e] \in Nat /\ faults \in Nat /\ MaxAttempts \in Nat
  BY OutboxNumberAssumption DEF OutboxTypeOK
<1> QED BY <1>2, <1>3 DEF TurnsBounded

\* A fault may make an event claimable that is still being worked on, or no more.
LEMMA FaultGivesTurn ==
  ASSUME OutboxTypeOK, NEW e \in Events, TurnsBounded(e), attempts'[e] = attempts[e],
         faults' = faults + 1, Retrying(e)' \subseteq Retrying(e)
  PROVE  TurnsBounded(e)'
<1>1. /\ Cardinality(Retrying(e)) \in Nat /\ Cardinality(Retrying(e)') \in Nat
      /\ Cardinality(Retrying(e)') <= Cardinality(Retrying(e))
  <2>1. Retrying(e) \in SUBSET Workers /\ Retrying(e)' \in SUBSET Retrying(e)
    BY DEF Retrying
  <2> QED BY <2>1, FewerRetry
<1>2. Turns(e)' <= Turns(e) + 1 /\ Turns(e) \in Nat /\ Turns(e)' \in Nat
  BY <1>1 DEF Turns
<1>3. attempts[e] \in Nat /\ faults \in Nat /\ MaxAttempts \in Nat
  BY OutboxNumberAssumption DEF OutboxTypeOK
<1> QED BY <1>2, <1>3 DEF TurnsBounded

\* A worker that puts an event back gives its own turn for that.
LEMMA TurnPassedOn ==
  ASSUME OutboxTypeOK, NEW e \in Events, TurnsBounded(e), attempts'[e] = attempts[e],
         faults' = faults, NEW w \in Retrying(e), Retrying(e)' \subseteq Retrying(e) \ {w}
  PROVE  TurnsBounded(e)'
<1>1. /\ Cardinality(Retrying(e)) \in Nat /\ Cardinality(Retrying(e)') \in Nat
      /\ Cardinality(Retrying(e)') + 1 <= Cardinality(Retrying(e))
  <2>1. Retrying(e) \in SUBSET Workers /\ Retrying(e)' \in SUBSET (Retrying(e) \ {w})
    BY DEF Retrying
  <2> QED BY <2>1, OneLessRetries
<1>2. Turns(e)' <= Turns(e) /\ Turns(e) \in Nat /\ Turns(e)' \in Nat
  BY <1>1 DEF Turns
<1>3. attempts[e] \in Nat /\ faults \in Nat /\ MaxAttempts \in Nat
  BY OutboxNumberAssumption DEF OutboxTypeOK
<1> QED BY <1>2, <1>3 DEF TurnsBounded

\* The claim of an event: the turn goes to the worker, while it may still put
\* the event back, and is used up otherwise.
LEMMA ClaimTakesTurn ==
  ASSUME OutboxTypeOK, NEW e \in Events, TurnsBounded(e), NEW w \in Workers,
         Claimable(e), ~Claimable(e)', attempts'[e] = attempts[e] + 1, faults' = faults,
         Retrying(e)' \subseteq Retrying(e) \cup {w},
         attempts[e] + 1 >= MaxAttempts => Retrying(e)' \subseteq Retrying(e)
  PROVE  TurnsBounded(e)'
<1>1. attempts[e] \in Nat /\ faults \in Nat /\ MaxAttempts \in Nat
  BY OutboxNumberAssumption DEF OutboxTypeOK
<1>2. Retrying(e) \in SUBSET Workers /\ Retrying(e)' \in SUBSET (Retrying(e) \cup {w})
  BY DEF Retrying
<1>3. /\ Cardinality(Retrying(e)) \in Nat /\ Cardinality(Retrying(e)') \in Nat
      /\ Cardinality(Retrying(e)') <= Cardinality(Retrying(e)) + 1
  BY <1>2, OneMoreRetries
<1>4. Turns(e) = Cardinality(Retrying(e)) + 1 /\ Turns(e)' = Cardinality(Retrying(e)')
  BY <1>3 DEF Turns
<1>5. CASE attempts[e] + 1 >= MaxAttempts
  <2>1. Retrying(e)' \in SUBSET Retrying(e)
    BY <1>5
  <2>2. Cardinality(Retrying(e)') <= Cardinality(Retrying(e))
    BY <1>2, <2>1, FewerRetry
  <2> QED BY <1>1, <1>3, <1>4, <1>5, <2>2 DEF TurnsBounded
<1>6. CASE attempts[e] + 1 < MaxAttempts
  BY <1>1, <1>3, <1>4, <1>6 DEF TurnsBounded
<1> QED BY <1>1, <1>5, <1>6

LEMMA ClaimKeepsTurns ==
  ASSUME OutboxTypeOK, OldIsClaimed, TurnsInv, NEW w \in Workers, NEW S \in SUBSET Events,
         Claim(w, S)
  PROVE  TurnsInv'
<1>1. /\ batch[w] = {} /\ pc[w] = "claiming" /\ faults' = faults /\ stale' = stale
      /\ \A v \in Workers : batch'[v] = IF v = w THEN S ELSE batch[v]
      /\ \A v \in Workers \ {w} : tries'[v] = tries[v] /\ pc'[v] = pc[v]
      /\ pc'[w] = IF S = {} THEN "idle" ELSE "next"
      /\ faults \in Nat
  BY DEF Claim, TurnsInv, OutboxTypeOK
<1>2. ASSUME NEW e \in Events, e \in S
      PROVE  TurnsBounded(e)'
  <2>1. /\ status[e] = "pending" /\ status'[e] = "processing" /\ ~stale[e]
        /\ attempts'[e] = attempts[e] + 1 /\ tries'[w][e] = attempts[e] + 1
    BY <1>2 DEF Claim, OldIsClaimed, OutboxTypeOK
  <2>2. Claimable(e) /\ ~Claimable(e)'
    BY <1>1, <1>2, <2>1 DEF Claimable, Held
  <2>3. Retrying(e)' \subseteq Retrying(e) \cup {w}
    BY <1>1 DEF Retrying
  <2>4. attempts[e] + 1 >= MaxAttempts => Retrying(e)' \subseteq Retrying(e)
    <3> SUFFICES ASSUME attempts[e] + 1 >= MaxAttempts
                 PROVE  w \notin Retrying(e)'
      BY <2>3
    <3>1. attempts[e] \in Nat /\ MaxAttempts \in Nat
      BY OutboxNumberAssumption DEF OutboxTypeOK
    <3> QED BY <2>1, <3>1 DEF Retrying
  <2>5. TurnsBounded(e)
    BY DEF TurnsInv
  <2> QED BY <1>1, <2>1, <2>2, <2>3, <2>4, <2>5, ClaimTakesTurn
<1>3. ASSUME NEW e \in Events, e \notin S
      PROVE  TurnsBounded(e)'
  <2>1. status'[e] = status[e] /\ attempts'[e] = attempts[e]
    BY <1>3 DEF Claim
  <2>2. Retrying(e)' \subseteq Retrying(e) /\ (Held(e)' <=> Held(e))
    BY <1>1, <1>3 DEF Retrying, Held
  <2>3. Claimable(e)' => Claimable(e)
    BY <1>1, <2>1, <2>2 DEF Claimable
  <2>4. TurnsBounded(e)
    BY DEF TurnsInv
  <2> QED BY <1>1, <2>1, <2>2, <2>3, <2>4, NoNewTurn
<1>4. \A v \in Workers : pc'[v] \in {"idle", "claiming"} => batch'[v] = {}
  BY <1>1 DEF TurnsInv
<1> QED BY <1>2, <1>3, <1>4 DEF TurnsInv

LEMMA DoneKeepsTurns ==
  ASSUME OutboxTypeOK, TurnsInv, NEW w \in Workers,
         NEW s \in {"processed", "failed", "pending"}, Done(w, s), event[w] \in batch[w],
         s = "pending" => tries[w][event[w]] < MaxAttempts
  PROVE  TurnsInv'
<1>0. PICK g \in Events : event[w] = g
  BY DEF OutboxTypeOK
<1>1. /\ g \in batch[w] /\ faults' = faults /\ attempts' = attempts /\ faults \in Nat
      /\ status'[g] = s /\ \A e \in Events \ {g} : status'[e] = status[e] /\ stale'[e] = stale[e]
      /\ \A v \in Workers : batch'[v] = IF v = w THEN batch[w] \ {g} ELSE batch[v]
      /\ \A v \in Workers \ {w} : tries'[v] = tries[v] /\ pc'[v] = pc[v]
      /\ \A e \in Events \ {g} : tries'[w][e] = tries[w][e]
      /\ pc'[w] \in {"idle", "next"} /\ (pc'[w] = "idle" => batch[w] \ {g} = {})
  BY <1>0 DEF Done, OutboxTypeOK
<1>2. ASSUME NEW e \in Events, e # g
      PROVE  TurnsBounded(e)'
  <2>1. Retrying(e)' \subseteq Retrying(e) /\ (Held(e)' <=> Held(e))
    BY <1>1, <1>2 DEF Retrying, Held
  <2>2. Claimable(e)' => Claimable(e)
    BY <1>1, <1>2, <2>1 DEF Claimable
  <2>3. TurnsBounded(e)
    BY DEF TurnsInv
  <2> QED BY <1>1, <2>1, <2>2, <2>3, NoNewTurn
<1>3. TurnsBounded(g)'
  <2>1. Retrying(g)' \subseteq Retrying(g) \ {w}
    BY <1>1 DEF Retrying
  <2>2. TurnsBounded(g)
    BY DEF TurnsInv
  <2>3. CASE s = "pending"
    <3>1. w \in Retrying(g)
      BY <1>0, <1>1, <2>3 DEF Retrying
    <3> QED BY <1>1, <2>1, <2>2, <3>1, TurnPassedOn
  <2>4. CASE s # "pending"
    <3>1. ~Claimable(g)'
      BY <1>1, <2>4 DEF Claimable
    <3> QED BY <1>1, <2>1, <2>2, <3>1, NoNewTurn
  <2> QED BY <2>3, <2>4
<1>4. \A v \in Workers : pc'[v] \in {"idle", "claiming"} => batch'[v] = {}
  BY <1>1 DEF TurnsInv
<1> QED BY <1>2, <1>3, <1>4 DEF TurnsInv

LEMMA CrashKeepsTurns ==
  ASSUME OutboxTypeOK, TurnsInv, NEW w \in Workers, Crash(w)
  PROVE  TurnsInv'
<1>1. /\ faults' = faults + 1 /\ attempts' = attempts
      /\ \A v \in Workers : batch'[v] = IF v = w THEN {} ELSE batch[v]
      /\ \A v \in Workers \ {w} : tries'[v] = tries[v] /\ pc'[v] = pc[v]
  BY DEF Crash, rows, OutboxTypeOK
<1>2. ASSUME NEW e \in Events
      PROVE  TurnsBounded(e)'
  <2>1. Retrying(e)' \subseteq Retrying(e)
    BY <1>1 DEF Retrying
  <2>2. TurnsBounded(e)
    BY DEF TurnsInv
  <2> QED BY <1>1, <2>1, <2>2, FaultGivesTurn
<1> QED BY <1>1, <1>2 DEF TurnsInv

LEMMA AgeKeepsTurns ==
  ASSUME OutboxTypeOK, TurnsInv, NEW g \in Events, Age(g)
  PROVE  TurnsInv'
<1>1. /\ UNCHANGED <<status, attempts, batch, tries, pc>> /\ status[g] = "processing"
      /\ \A e \in Events \ {g} : stale'[e] = stale[e]
      /\ faults \in Nat /\ faults' \in Nat /\ faults' >= faults
  BY DEF Age, memory, OutboxTypeOK
<1>2. ASSUME NEW e \in Events
      PROVE  TurnsBounded(e)'
  <2>1. Retrying(e)' \subseteq Retrying(e) /\ (Held(e)' <=> Held(e))
    BY <1>1 DEF Retrying, Held
  <2>2. TurnsBounded(e) /\ attempts'[e] = attempts[e]
    BY <1>1 DEF TurnsInv
  <2>3. CASE e = g /\ Held(g)
    <3>1. faults' = faults + 1
      BY <2>3 DEF Age
    <3> QED BY <2>1, <2>2, <3>1, FaultGivesTurn
  <2>4. CASE ~(e = g /\ Held(g))
    <3>1. Claimable(e)' => Claimable(e)
      BY <1>1, <2>1, <2>4 DEF Claimable
    <3> QED BY <1>1, <2>1, <2>2, <3>1, NoNewTurn
  <2> QED BY <2>3, <2>4
<1> QED BY <1>1, <1>2 DEF TurnsInv

\* The steps that change nobody's batch and make nothing claimable.
LEMMA QuietKeepsTurns ==
  ASSUME OutboxTypeOK, TurnsInv, UNCHANGED <<attempts, batch, tries>>,
         faults' \in Nat, faults' >= faults,
         \A e \in Events : Claimable(e)' => Claimable(e),
         \A w \in Workers : pc'[w] \in {"idle", "claiming"} => pc[w] \in {"idle", "claiming"}
  PROVE  TurnsInv'
<1>1. ASSUME NEW e \in Events
      PROVE  TurnsBounded(e)'
  <2>1. Retrying(e)' \subseteq Retrying(e) /\ TurnsBounded(e)
    BY DEF Retrying, TurnsInv
  <2> QED BY <2>1, NoNewTurn
<1> QED BY <1>1 DEF TurnsInv

LEMMA StepKeepsTurns == FinalInv /\ TurnsInv /\ [OutboxNext]_outboxVars => TurnsInv'
<1> SUFFICES ASSUME FinalInv, TurnsInv, [OutboxNext]_outboxVars PROVE TurnsInv'
  OBVIOUS
<1>0. OutboxTypeOK /\ OldIsClaimed /\ faults \in Nat
  BY DEF FinalInv, OutboxInv, OutboxTypeOK
<1>1. ASSUME UNCHANGED <<status, stale, attempts, batch, tries>>,
             faults' \in Nat, faults' >= faults,
             \A w \in Workers : pc'[w] \in {"idle", "claiming"} => pc[w] \in {"idle", "claiming"}
      PROVE  TurnsInv'
  <2>1. \A e \in Events : Claimable(e)' => Claimable(e)
    BY <1>1 DEF Claimable, Held
  <2> QED BY <1>0, <1>1, <2>1, QuietKeepsTurns
<1>2. ASSUME NEW w \in Workers, Notify(w)
      PROVE  TurnsInv'
  <2>1. UNCHANGED <<status, stale, attempts, batch, tries>>
    BY <1>2 DEF Notify, Skip, Open, Send, Save, SendFails, Enqueue, rows, memory
  <2>2. faults' \in Nat /\ faults' >= faults
    <3>1. faults' \in {faults, faults + 1}
      BY <1>2 DEF Notify, Skip, Open, Send, Save, SendFails, Enqueue, memory
    <3> QED BY <1>0, <3>1
  <2>3. \A v \in Workers : pc'[v] \in {"idle", "claiming"} => pc[v] \in {"idle", "claiming"}
    BY <1>0, <1>2 DEF Notify, Skip, Open, Send, Save, SendFails, Enqueue, memory, OutboxTypeOK
  <2> QED BY <1>1, <2>1, <2>2, <2>3
<1>3. ASSUME NEW w \in Workers, Reclaim(w)
      PROVE  TurnsInv'
  <2>1. \A e \in Events : Claimable(e)' => Claimable(e)
    BY <1>3 DEF Reclaim, Claimable, Held
  <2> QED BY <1>0, <1>3, <2>1, QuietKeepsTurns DEF Reclaim, OutboxTypeOK
<1>4. ASSUME NEW w \in Workers, NEW S \in SUBSET Events, Claim(w, S)
      PROVE  TurnsInv'
  BY <1>0, <1>4, ClaimKeepsTurns
<1>5. ASSUME NEW w \in Workers, NEW e \in Events, Start(w, e)
      PROVE  TurnsInv'
  BY <1>0, <1>1, <1>5 DEF Start, rows, OutboxTypeOK
<1>6. ASSUME NEW w \in Workers, Finish(w) \/ Fail(w)
      PROVE  TurnsInv'
  <2>1. event[w] \in Events /\ event[w] \in batch[w]
    BY <1>0, <1>6 DEF Finish, Fail, OutboxTypeOK
  <2>2. CASE Finish(w)
    BY <1>0, <2>1, <2>2, DoneKeepsTurns DEF Finish
  <2>3. CASE Fail(w)
    <3>1. tries[w][event[w]] \in Nat /\ MaxAttempts \in Nat
      BY <1>0, <2>1, OutboxNumberAssumption DEF OutboxTypeOK
    <3>2. CASE Dead(tries[w][event[w]])
      BY <1>0, <2>1, <2>3, <3>2, DoneKeepsTurns DEF Fail
    <3>3. CASE ~Dead(tries[w][event[w]])
      BY <1>0, <2>1, <2>3, <3>1, <3>3, DoneKeepsTurns DEF Fail, Dead
    <3> QED BY <3>2, <3>3
  <2> QED BY <1>6, <2>2, <2>3
<1>7. ASSUME NEW w \in Workers, Crash(w)
      PROVE  TurnsInv'
  BY <1>0, <1>7, CrashKeepsTurns
<1>8. ASSUME NEW e \in Events, Emit(e)
      PROVE  TurnsInv'
  <2>1. \A g \in Events : Claimable(g)' => Claimable(g)
    BY <1>0, <1>8 DEF Emit, memory, Claimable, Held, OutboxTypeOK
  <2> QED BY <1>0, <1>8, <2>1, QuietKeepsTurns DEF Emit, memory
<1>9. ASSUME NEW e \in Events, Age(e)
      PROVE  TurnsInv'
  BY <1>0, <1>9, AgeKeepsTurns
<1>10. CASE UNCHANGED outboxVars
  BY <1>0, <1>1, <1>10 DEF outboxVars, rows, memory
<1> QED BY <1>2, <1>3, <1>4, <1>5, <1>6, <1>7, <1>8, <1>9, <1>10 DEF OutboxNext, Work

LEMMA InitTurns == OutboxInit => FinalInv /\ OnRecord /\ TurnsInv
<1> SUFFICES ASSUME OutboxInit PROVE FinalInv /\ OnRecord /\ TurnsInv
  OBVIOUS
<1>1. FinalInv
  BY OutboxFirst DEF FinalInv, OutboxInit, OwnClaim, OldIsClaimed
<1>2. OnRecord
  BY DEF OutboxInit, OnRecord, Recorded, SendsNew
<1>3. ASSUME NEW e \in Events
      PROVE  TurnsBounded(e)
  <2>1. Retrying(e) = {} /\ Claimable(e) /\ attempts[e] = 0 /\ faults = 0
    BY DEF OutboxInit, Retrying, Claimable
  <2>2. Turns(e) = 1
    BY <2>1, FS_EmptySet DEF Turns
  <2> QED BY <2>1, <2>2, OutboxNumberAssumption DEF TurnsBounded
<1> QED BY <1>1, <1>2, <1>3 DEF TurnsInv, OutboxInit

\* Without a fault a notice goes out once on each channel, however often the
\* event is retried; and drain_outbox claims an event no more than MaxAttempts
\* times and once for each fault.
THEOREM RetriesEnd == OutboxSpec => []RetriesContained
<1>1. FinalInv /\ OnRecord /\ TurnsInv /\ [OutboxNext]_outboxVars
        => FinalInv' /\ OnRecord' /\ TurnsInv'
  BY StepKeepsClaims, StepKeepsRecord, StepKeepsTurns
<1>2. FinalInv /\ OnRecord /\ TurnsInv => RetriesContained
  <2> SUFFICES ASSUME FinalInv, OnRecord, TurnsInv, NEW e \in Events
               PROVE  /\ faults = 0 => \A c \in Channels : sends[e][c] <= 1
                      /\ attempts[e] <= MaxAttempts + faults
    BY DEF RetriesContained
  <2>1. attempts[e] \in Nat /\ faults \in Nat /\ MaxAttempts \in Nat /\ Turns(e) \in Nat
    BY OutboxNumberAssumption, TurnsNat DEF FinalInv, OutboxInv, OutboxTypeOK
  <2>2. attempts[e] <= MaxAttempts + faults
    BY <2>1 DEF TurnsInv, TurnsBounded
  <2> QED BY <2>2 DEF OnRecord, Recorded
<1> QED BY <1>1, <1>2, InitTurns, PTL DEF OutboxSpec

----------------------------------------------------------------------------
(* The outbox implements Delivery.                                         *)

\* What a worker has left to do is wanted, and without a fault a worker that has
\* failed has left something undone.
InHand ==
  \A w \in Workers :
    /\ todo[w] # {} => event[w] \in Notified
    /\ pc[w] \in {"send", "save"} => channel[w] \in todo[w]
    /\ pc[w] = "error" /\ faults = 0 =>
          event[w] \in Notified /\ \E c \in Channels : sends[event[w]][c] = 0

\* Steps that send nothing and leave every worker with what it had, or with nothing.
LEMMA QuietKeepsInHand ==
  ASSUME InHand, UNCHANGED sends, faults' = 0 => faults = 0,
         \A w \in Workers :
           /\ todo'[w] = {} \/ (todo'[w] = todo[w] /\ event'[w] = event[w])
           /\ \/ pc'[w] \notin {"send", "save", "error"}
              \/ /\ pc'[w] = pc[w] /\ channel'[w] = channel[w]
                 /\ todo'[w] = todo[w] /\ event'[w] = event[w]
  PROVE  InHand'
BY DEF InHand

LEMMA NotifyKeepsInHand ==
  ASSUME FinalInv, OnRecord, InHand, NEW w \in Workers, Notify(w)
  PROVE  InHand'
<1>0. OutboxTypeOK /\ OwnClaim
  BY DEF FinalInv, OutboxInv
<1> USE <1>0 DEF OutboxTypeOK
<1>1. ASSUME NEW c \in Channels, Skip(w, c) \/ Open(w, c)
      PROVE  InHand'
  <2>1. CASE Skip(w, c)
    BY <1>1, <2>1 DEF Skip, rows, InHand
  <2>2. CASE Open(w, c)
    <3>1. /\ UNCHANGED <<event, todo, sends, faults>> /\ c \in todo[w]
          /\ pc' = [pc EXCEPT ![w] = "send"] /\ channel' = [channel EXCEPT ![w] = c]
      BY <2>2 DEF Open
    <3>2. \A v \in Workers : v # w => pc'[v] = pc[v] /\ channel'[v] = channel[v]
      BY <3>1
    <3>3. pc'[w] = "send" /\ channel'[w] = c
      BY <3>1
    <3> QED BY <3>1, <3>2, <3>3 DEF InHand
  <2> QED BY <1>1, <2>1, <2>2
<1>2. ASSUME NEW h \in Endpoints, Enqueue(w, h)
      PROVE  InHand'
  BY <1>2, QuietKeepsInHand DEF Enqueue, memory
<1>3. CASE Save(w)
  BY <1>3 DEF Save, InHand
<1>4. CASE Send(w)
  <2>1. PICK e \in Events, c \in Channels : event[w] = e /\ channel[w] = c
    BY <1>4 DEF Send
  <2>2. /\ pc[w] = "send" /\ pc' = [pc EXCEPT ![w] = "save"]
        /\ UNCHANGED <<batch, event, todo, channel, faults>>
        /\ \A g \in Events : g # e => sends'[g] = sends[g]
    BY <1>4, <2>1 DEF Send, rows
  <2>3. ASSUME NEW v \in Workers, pc[v] = "error", faults = 0
        PROVE  event[v] \in Events /\ event[v] # e
    BY <2>1, <2>2, <2>3 DEF OwnClaim
  <2>4. \A v \in Workers : pc'[v] = "error" => pc[v] = "error" /\ v # w
    BY <2>2
  <2>5. \A v \in Workers : pc'[v] \in {"send", "save"} => pc[v] \in {"send", "save"}
    BY <2>2
  <2>6. ASSUME NEW v \in Workers, pc'[v] = "error", faults' = 0
        PROVE  event'[v] \in Notified /\ \E d \in Channels : sends'[event'[v]][d] = 0
    <3>1. event[v] \in Notified /\ \E d \in Channels : sends[event[v]][d] = 0
      BY <2>2, <2>4, <2>6 DEF InHand
    <3>2. event'[v] = event[v] /\ sends'[event[v]] = sends[event[v]]
      BY <2>2, <2>3, <2>4, <2>6
    <3> QED BY <3>1, <3>2
  <2> QED BY <2>2, <2>5, <2>6 DEF InHand
<1>5. ASSUME NEW sent \in BOOLEAN, SendFails(w, sent)
      PROVE  InHand'
  <2>1. PICK e \in Events, c \in Channels : event[w] = e /\ channel[w] = c
    BY <1>5 DEF SendFails
  <2>2. /\ pc[w] = "send" /\ pc' = [pc EXCEPT ![w] = "error"]
        /\ UNCHANGED <<event, todo>>
        /\ channel' = [channel EXCEPT ![w] = None]
        /\ faults' = 0 => ~sent /\ faults = 0
    BY <1>5 DEF SendFails
  <2>3. event[w] \in Notified
    BY <2>2 DEF InHand
  <2>4. ASSUME faults' = 0
        PROVE  UNCHANGED sends /\ sends[e][c] = 0
    <3>1. UNCHANGED sends
      BY <1>5, <2>1, <2>2, <2>4 DEF SendFails
    <3> QED BY <2>1, <2>2, <2>4, <3>1, SendsOnce
  <2> QED BY <2>1, <2>2, <2>3, <2>4 DEF InHand
<1> QED BY <1>1, <1>2, <1>3, <1>4, <1>5 DEF Notify

LEMMA StepKeepsInHand ==
  FinalInv /\ OnRecord /\ InHand /\ [OutboxNext]_outboxVars => InHand'
<1> SUFFICES ASSUME FinalInv, OnRecord, InHand, [OutboxNext]_outboxVars PROVE InHand'
  OBVIOUS
<1>0. OutboxTypeOK
  BY DEF FinalInv, OutboxInv
<1> USE <1>0 DEF OutboxTypeOK
<1>1. ASSUME NEW w \in Workers, Reclaim(w) \/ \E S \in SUBSET Events : Claim(w, S)
      PROVE  InHand'
  BY <1>1, QuietKeepsInHand DEF Reclaim, Claim
<1>2. ASSUME NEW w \in Workers, NEW e \in Events, Start(w, e)
      PROVE  InHand'
  BY <1>2 DEF Start, rows, InHand
<1>3. ASSUME NEW w \in Workers, NEW s, Done(w, s)
      PROVE  InHand'
  BY <1>3, QuietKeepsInHand DEF Done
<1>4. ASSUME NEW w \in Workers, Finish(w) \/ Fail(w)
      PROVE  InHand'
  BY <1>3, <1>4 DEF Finish, Fail
<1>5. ASSUME NEW w \in Workers, Crash(w)
      PROVE  InHand'
  BY <1>5, QuietKeepsInHand DEF Crash
<1>6. ASSUME NEW e \in Events, Emit(e) \/ Age(e)
      PROVE  InHand'
  BY <1>6, QuietKeepsInHand DEF Emit, Age, memory
<1>7. CASE UNCHANGED outboxVars
  BY <1>7, QuietKeepsInHand DEF outboxVars, rows, memory
<1> QED BY <1>1, <1>2, <1>4, <1>5, <1>6, <1>7, NotifyKeepsInHand DEF OutboxNext, Work

\* A worker has nothing in its batch that was not emitted.
Emitted == \A w \in Workers : \A e \in batch[w] : status[e] # "absent"

LEMMA StepKeepsEmitted ==
  OutboxTypeOK /\ Emitted /\ [OutboxNext]_outboxVars => Emitted'
<1> SUFFICES ASSUME OutboxTypeOK, Emitted, [OutboxNext]_outboxVars PROVE Emitted'
  OBVIOUS
<1> USE DEF OutboxTypeOK, OutboxStatus
<1>1. ASSUME \A e \in Events : status[e] # "absent" => status'[e] # "absent",
             \A w \in Workers : batch'[w] \subseteq batch[w]
      PROVE  Emitted'
  BY <1>1 DEF Emitted
<1>2. ASSUME NEW w \in Workers, Reclaim(w) \/ \E e \in Events : Start(w, e)
      PROVE  Emitted'
  BY <1>1, <1>2 DEF Reclaim, Start, rows
<1>3. ASSUME NEW w \in Workers, NEW S \in SUBSET Events, Claim(w, S)
      PROVE  Emitted'
  BY <1>3 DEF Claim, Emitted
<1>4. ASSUME NEW w \in Workers, NEW s \in OutboxStatus, Done(w, s)
      PROVE  Emitted'
  BY <1>1, <1>4 DEF Done
<1>5. ASSUME NEW w \in Workers, Finish(w) \/ Fail(w)
      PROVE  Emitted'
  BY <1>4, <1>5 DEF Finish, Fail
<1>6. ASSUME NEW w \in Workers, Notify(w) \/ Crash(w)
      PROVE  Emitted'
  BY <1>1, <1>6 DEF Notify, Skip, Open, Send, Save, SendFails, Enqueue, Crash, rows, memory
<1>7. ASSUME NEW e \in Events, Emit(e) \/ Age(e)
      PROVE  Emitted'
  BY <1>1, <1>7 DEF Emit, Age, memory
<1>8. CASE UNCHANGED outboxVars
  BY <1>8 DEF Emitted, outboxVars, rows, memory
<1> QED BY <1>2, <1>3, <1>5, <1>6, <1>7, <1>8 DEF OutboxNext, Work

----------------------------------------------------------------------------
(* The mapping.                                                            *)

LEMMA Outcomes ==
  ASSUME OutboxTypeOK, NEW e \in Events
  PROVE  /\ Outcome \in [Events -> Queue!States]
         /\ Outcome[e] = "absent" <=> status[e] = "absent"
         /\ Outcome[e] = "waiting" <=> status[e] = "pending"
         /\ Outcome[e] = "taken" <=> status[e] = "processing"
         /\ Outcome[e] = "done" <=> status[e] = "processed"
         /\ Outcome[e] = "dropped" <=> status[e] = "failed"
<1> USE DEF OutboxTypeOK, OutboxStatus, Outcome, Queue!States
<1>1. \A g \in Events : status[g] \in {"absent", "pending", "processing", "processed", "failed"}
  OBVIOUS
<1> QED BY <1>1

LEMMA Effects ==
  /\ \A c \in Channels : <<"notice", c>> \in Notices
  /\ \A h \in Endpoints : <<"hook", h>> \in Hooks
  /\ \A x \in Notices : x[2] \in Channels /\ x = <<"notice", x[2]>> /\ x \notin Hooks
  /\ \A x \in Hooks : x[2] \in Endpoints /\ x = <<"hook", x[2]>> /\ x \notin Notices
BY DEF Notices, Hooks

LEMMA AllHappened ==
  ASSUME OutboxTypeOK, NEW e \in Events
  PROVE  Queue!All(e) <=> /\ queued[e] = Endpoints
                          /\ e \in Notified => \A c \in Channels : sends[e][c] > 0
<1>1. Queue!All(e) <=> \A x \in Wants(e) : Happened(e, x) > 0
  BY DEF Queue!All, Wants
<1>2. \A h \in Endpoints : Happened(e, <<"hook", h>>) > 0 <=> h \in queued[e]
  <2>1. ASSUME NEW h \in Endpoints
        PROVE  Happened(e, <<"hook", h>>) = IF h \in queued[e] THEN 1 ELSE 0
    BY <<"hook", h>>[2] = h, Effects DEF Happened
  <2>2. ASSUME NEW h \in Endpoints
        PROVE  Happened(e, <<"hook", h>>) > 0 <=> h \in queued[e]
    <3>1. CASE h \in queued[e]
      <4>1. Happened(e, <<"hook", h>>) = 1
        BY <2>1, <3>1, Zenon
      <4> QED BY <3>1, <4>1
    <3>2. CASE h \notin queued[e]
      <4>1. Happened(e, <<"hook", h>>) = 0
        BY <2>1, <3>2, Zenon
      <4> QED BY <3>2, <4>1
    <3> QED BY <3>1, <3>2
  <2> QED BY <2>2, Zenon
<1>3. \A c \in Channels : Happened(e, <<"notice", c>>) = sends[e][c]
  BY Effects DEF Happened
<1>4. (\A x \in Hooks : Happened(e, x) > 0) <=> queued[e] = Endpoints
  <2>1. queued[e] \subseteq Endpoints
    BY DEF OutboxTypeOK
  <2> QED BY <1>2, <2>1, Effects
<1>5. (\A x \in Notices : Happened(e, x) > 0) <=> \A c \in Channels : sends[e][c] > 0
  <2>1. ASSUME NEW x \in Notices
        PROVE  x[2] \in Channels /\ Happened(e, x) = sends[e][x[2]]
    BY Effects DEF Happened
  <2>2. ASSUME NEW c \in Channels
        PROVE  <<"notice", c>> \in Notices
    BY Effects
  <2> QED BY <1>3, <2>1, <2>2
<1> QED BY <1>1, <1>4, <1>5 DEF Wants

\* What has failed has failed: in terms of Delivery.
LEMMA FaultsStay ==
  ASSUME OutboxTypeOK, OutboxTypeOK', [OutboxNext]_outboxVars
  PROVE  (faults > 0)' \in {faults > 0, TRUE}
<1> USE DEF OutboxTypeOK
<1>1. ASSUME NEW w \in Workers, Work(w) \/ Crash(w)
      PROVE  faults' = faults \/ faults' = faults + 1
  BY <1>1 DEF Work, Notify, Reclaim, Claim, Start, Finish, Fail, Done, Skip, Open, Send, Save,
              SendFails, Enqueue, Crash, memory
<1>2. ASSUME NEW e \in Events, Emit(e) \/ Age(e)
      PROVE  faults' = faults \/ faults' = faults + 1
  BY <1>2 DEF Emit, Age
<1>3. faults > 0 => faults' > 0
  BY <1>1, <1>2 DEF OutboxNext, outboxVars
<1>4. (faults > 0) \in BOOLEAN /\ (faults' > 0) \in BOOLEAN
  OBVIOUS
<1> QED BY <1>3, <1>4, Zenon

\* A step that changes what has become of events, and nothing else.
LEMMA SettleStep ==
  ASSUME OutboxTypeOK, OutboxTypeOK', UNCHANGED <<sends, queued>>,
         (faults > 0)' \in {faults > 0, TRUE},
         \A e \in Events : Queue!MayChange(e, Outcome[e], Outcome'[e])
  PROVE  Queue!Next
<1>1. Outcome' \in [Events -> Queue!States]
  BY Outcomes DEF OutboxTypeOK, OutboxStatus, Outcome, Queue!States
<1>2. UNCHANGED [e \in Events |-> [x \in Notices \cup Hooks |-> Happened(e, x)]]
  BY DEF Happened
<1> QED BY <1>1, <1>2 DEF Queue!Next, Queue!Settle

\* A step in which one effect of a claimed event happens, and nothing else.
LEMMA ActStep ==
  ASSUME OutboxTypeOK, OutboxTypeOK', UNCHANGED status,
         (faults > 0)' \in {faults > 0, TRUE},
         NEW e \in Events, NEW x \in Wants(e),
         \A g \in Events, y \in Notices \cup Hooks :
            Happened(g, y)' = IF g = e /\ y = x THEN Happened(g, y) + 1 ELSE Happened(g, y),
         faults = 0 => status[e] = "processing" /\ Happened(e, x) = 0
  PROVE  Queue!Next
<1> DEFINE H == [g \in Events |-> [y \in Notices \cup Hooks |-> Happened(g, y)]]
<1>1. Outcome' \in [Events -> Queue!States]
  BY Outcomes DEF OutboxTypeOK, OutboxStatus, Outcome, Queue!States
<1>2. UNCHANGED Outcome
  BY DEF Outcome
<1>3. x \in Notices \cup Hooks /\ x \in [g \in Events |-> Wants(g)][e]
  BY DEF Wants
<1>4. H' = [H EXCEPT ![e][x] = @ + 1]
  BY <1>3
<1>5. ~(faults > 0) => Outcome[e] = "taken" /\ H[e][x] = 0
  <2>1. ~(faults > 0) => faults = 0
    BY DEF OutboxTypeOK
  <2> QED BY <1>3, <2>1, Outcomes
<1> QED BY <1>1, <1>2, <1>3, <1>4, <1>5 DEF Queue!Next, Queue!Act

RefinementInv == FinalInv /\ OnRecord /\ InHand /\ Emitted

\* A worker sends a notice.
LEMMA NoticeStep ==
  ASSUME RefinementInv, OutboxTypeOK', NEW w \in Workers, pc[w] = "send", UNCHANGED <<status, queued>>,
         (faults > 0)' \in {faults > 0, TRUE},
         sends' = [sends EXCEPT ![event[w]][channel[w]] = @ + 1]
  PROVE  Queue!Next
<1> DEFINE e == event[w]
           c == channel[w]
           x == <<"notice", c>>
<1>0. OutboxTypeOK /\ OwnClaim
  BY DEF RefinementInv, FinalInv, OutboxInv
<1>1. /\ e \in Events /\ e \in batch[w] /\ c \in Channels /\ e \in Notified
      /\ faults = 0 => sends[e][c] = 0
  <2>1. e \in Events /\ e \in batch[w] /\ c \in Channels
    <3>1. batch[w] \subseteq Events /\ channel[w] \in Channels \cup {None}
      BY <1>0 DEF OutboxTypeOK
    <3>2. event[w] \in batch[w] /\ channel[w] # None
      BY <1>0 DEF OutboxTypeOK
    <3> QED BY <3>1, <3>2
  <2>2. e \in Notified
    BY DEF RefinementInv, InHand
  <2> QED BY <2>1, <2>2, SendsOnce DEF RefinementInv
<1>2. x \in Wants(e) /\ x \in Notices
  BY <1>1, Effects DEF Wants
<1>3. Happened(e, x) = sends[e][c]
  BY <1>2, x[2] = c DEF Happened
<1>4. faults = 0 => status[e] = "processing"
  BY <1>1 , <1>0 DEF OwnClaim
<1>5. \A g \in Events, d \in Channels :
         sends'[g][d] = IF g = e /\ d = c THEN sends[g][d] + 1 ELSE sends[g][d]
  BY <1>0, <1>1 DEF OutboxTypeOK
<1>6. ASSUME NEW g \in Events, NEW y \in Notices \cup Hooks
      PROVE  Happened(g, y)' = IF g = e /\ y = x THEN Happened(g, y) + 1 ELSE Happened(g, y)
  <2>1. CASE y \in Notices
    <3>1. y[2] \in Channels /\ (y = x <=> y[2] = c)
      BY <2>1, Effects, x[2] = c
    <3>2. Happened(g, y) = sends[g][y[2]] /\ Happened(g, y)' = sends'[g][y[2]]
      BY <2>1 DEF Happened
    <3> QED BY <1>5, <3>1, <3>2
  <2>2. CASE y \in Hooks
    <3>1. y # x /\ y \notin Notices
      BY <1>2, <2>2, Effects
    <3> QED BY <3>1 DEF Happened
  <2> QED BY <2>1, <2>2
<1> HIDE DEF e, c, x
<1> QED BY <1>0, <1>1, <1>2, <1>3, <1>4, <1>6, ActStep

\* A worker queues the delivery to an endpoint.
LEMMA HookStep ==
  ASSUME RefinementInv, OutboxTypeOK', NEW w \in Workers, NEW h \in Endpoints, Enqueue(w, h)
  PROVE  Queue!Next
<1> DEFINE e == event[w]
           x == <<"hook", h>>
<1>0. OutboxTypeOK /\ OwnClaim
  BY DEF RefinementInv, FinalInv, OutboxInv
<1>1. e \in Events /\ e \in batch[w]
  BY <1>0 DEF OutboxTypeOK, Enqueue
<1>2. x \in Wants(e) /\ x \in Hooks /\ x \notin Notices
  BY Effects DEF Wants
<1>3. Happened(e, x) = 0
  BY <1>2, x[2] = h DEF Happened, Enqueue
<1>4. faults = 0 => status[e] = "processing"
  BY <1>1 , <1>0 DEF OwnClaim
<1>5. /\ UNCHANGED <<status, sends, faults>>
      /\ \A g \in Events : queued'[g] = IF g = e THEN queued[g] \cup {h} ELSE queued[g]
  BY <1>0, <1>1 DEF OutboxTypeOK, Enqueue
<1>6. ASSUME NEW g \in Events, NEW y \in Notices \cup Hooks
      PROVE  Happened(g, y)' = IF g = e /\ y = x THEN Happened(g, y) + 1 ELSE Happened(g, y)
  <2>1. CASE y \in Notices
    <3>1. y # x
      BY <1>2, <2>1
    <3> QED BY <1>5, <2>1, <3>1 DEF Happened
  <2>2. CASE y \in Hooks
    <3>1. y \notin Notices /\ (y = x <=> y[2] = h)
      BY <2>2, Effects, x[2] = h
    <3>2. CASE g = e /\ y = x
      <4>1. y[2] \in queued'[g] /\ Happened(g, y) = 0
        BY <1>3, <1>5, <3>1, <3>2
      <4> QED BY <3>1, <3>2, <4>1 DEF Happened
    <3>3. CASE ~(g = e /\ y = x)
      <4>1. y[2] \in queued'[g] <=> y[2] \in queued[g]
        BY <1>5, <3>1, <3>3
      <4> QED BY <3>1, <3>3, <4>1 DEF Happened
    <3> QED BY <3>2, <3>3
  <2> QED BY <2>1, <2>2
<1>7. (faults > 0)' \in {faults > 0, TRUE}
  BY <1>5
<1> HIDE DEF e, x
<1> QED BY <1>0, <1>1, <1>2, <1>3, <1>4, <1>5, <1>6, <1>7, ActStep

\* A worker is done with its event.
LEMMA DoneStep ==
  ASSUME RefinementInv, OutboxTypeOK', NEW w \in Workers, NEW s \in OutboxStatus, Done(w, s),
         event[w] \in batch[w],
         \/ s = "pending"
         \/ s = "processed" /\ Queue!All(event[w])
         \/ s = "failed" /\ (faults = 0 => ~Queue!All(event[w]))
  PROVE  Queue!Next
<1> DEFINE e == event[w]
<1>0. OutboxTypeOK /\ OwnClaim /\ e \in Events /\ e \in batch[w]
  BY DEF RefinementInv, FinalInv, OutboxInv, OutboxTypeOK
<1>1. /\ UNCHANGED <<sends, queued, faults>>
      /\ \A g \in Events : status'[g] = IF g = e THEN s ELSE status[g]
  BY <1>0 DEF Done, OutboxTypeOK
<1>2. status[e] = "processing" \/ (faults > 0 /\ status[e] # "absent")
  <2>1. faults = 0 => status[e] = "processing"
    BY <1>0 DEF OwnClaim
  <2>2. status[e] # "absent"
    BY <1>0 DEF RefinementInv, Emitted
  <2> QED BY <1>0, <2>1, <2>2 DEF OutboxTypeOK
<1>3. ASSUME NEW g \in Events, g # e
      PROVE  Queue!MayChange(g, Outcome[g], Outcome'[g])
  BY <1>1, <1>3 DEF Outcome, Queue!MayChange
<1>4. Queue!MayChange(e, Outcome[e], Outcome'[e])
  <2>1. Outcome[e] = "taken" \/ (faults > 0 /\ Outcome[e] # "absent")
    BY <1>0, <1>2, Outcomes
  <2>2. /\ s = "pending" => Outcome'[e] = "waiting"
        /\ s = "processed" => Outcome'[e] = "done"
        /\ s = "failed" => Outcome'[e] = "dropped"
    BY <1>0, <1>1 DEF Outcome
  <2>3. Queue!All(e) /\ s = "failed" => faults > 0
    BY <1>0 DEF OutboxTypeOK
  <2> QED BY <2>1, <2>2, <2>3 DEF Queue!MayChange
<1>5. (faults > 0)' \in {faults > 0, TRUE}
  BY <1>1
<1> QED BY <1>0, <1>1, <1>3, <1>4, <1>5, SettleStep

\* Every step of the outbox is one of Delivery, or none.
LEMMA StepDelivers ==
  RefinementInv /\ OutboxTypeOK' /\ [OutboxNext]_outboxVars => [Queue!Next]_(Queue!vars)
<1> SUFFICES ASSUME RefinementInv, OutboxTypeOK', [OutboxNext]_outboxVars
             PROVE  Queue!Next \/ UNCHANGED Queue!vars
  OBVIOUS
<1>0. OutboxTypeOK /\ OutboxInv
  BY DEF RefinementInv, FinalInv, OutboxInv
<1>a. (faults > 0)' \in {faults > 0, TRUE}
  BY <1>0, FaultsStay
<1> USE <1>0, <1>a
<1>1. ASSUME UNCHANGED <<sends, queued>>,
             \A e \in Events :
               \/ status'[e] = status[e]
               \/ status[e] = "absent" /\ status'[e] = "pending"
               \/ status[e] = "pending" /\ status'[e] = "processing"
               \/ status[e] = "processing" /\ status'[e] = "pending"
      PROVE  Queue!Next
  <2>1. ASSUME NEW e \in Events
        PROVE  Queue!MayChange(e, Outcome[e], Outcome'[e])
    BY <1>1 DEF Outcome, Queue!MayChange
  <2> QED BY <1>1, <2>1, SettleStep
<1>2. ASSUME NEW w \in Workers, Reclaim(w) \/ \E S \in SUBSET Events : Claim(w, S)
      PROVE  Queue!Next
  BY <1>1, <1>2 DEF Reclaim, Claim, OutboxTypeOK
<1>3. ASSUME NEW w \in Workers, \/ Crash(w) \/ \E e \in Events : Start(w, e)
                                \/ Save(w) \/ \E c \in Channels : Skip(w, c) \/ Open(w, c)
      PROVE  Queue!Next
  BY <1>1, <1>3 DEF Crash, Start, Save, Skip, Open, rows
<1>4. ASSUME NEW w \in Workers, Send(w)
      PROVE  Queue!Next
  BY <1>4, NoticeStep DEF Send, rows
<1>5. ASSUME NEW w \in Workers, NEW sent \in BOOLEAN, SendFails(w, sent)
      PROVE  Queue!Next
  <2>1. CASE sent
    BY <1>5, <2>1, NoticeStep DEF SendFails
  <2>2. CASE ~sent
    <3>1. UNCHANGED <<status, sends, queued>>
      BY <1>5, <2>2 DEF SendFails, OutboxTypeOK
    <3> QED BY <1>1, <3>1
  <2> QED BY <2>1, <2>2
<1>6. ASSUME NEW w \in Workers, Finish(w)
      PROVE  Queue!Next
  <2>1. /\ pc[w] = "notify" /\ todo[w] = {} /\ Endpoints \subseteq queued[event[w]]
        /\ Done(w, "processed")
    BY <1>6 DEF Finish
  <2>2. event[w] \in batch[w] /\ event[w] \in Events
    BY <2>1 DEF OutboxTypeOK
  <2>3. Queue!All(event[w])
    <3>1. queued[event[w]] = Endpoints
      BY <2>1, <2>2 DEF OutboxTypeOK
    <3>2. event[w] \in Notified => \A c \in Channels : sends[event[w]][c] > 0
      BY <2>1 DEF OutboxInv, NothingSkipped
    <3> QED BY <2>2, <3>1, <3>2, AllHappened
  <2> QED BY <2>1, <2>2, <2>3, DoneStep DEF OutboxStatus
<1>7. ASSUME NEW w \in Workers, Fail(w)
      PROVE  Queue!Next
  <2>1. pc[w] = "error" /\ event[w] \in batch[w] /\ event[w] \in Events
    BY <1>7 DEF Fail, OutboxTypeOK
  <2>2. faults = 0 => ~Queue!All(event[w])
    <3>1. faults = 0 => event[w] \in Notified /\ \E c \in Channels : sends[event[w]][c] = 0
      BY <2>1 DEF RefinementInv, InHand
    <3> QED BY <2>1, <3>1, AllHappened
  <2>3. Done(w, "failed") \/ Done(w, "pending")
    BY <1>7 DEF Fail
  <2> QED BY <2>1, <2>2, <2>3, DoneStep DEF OutboxStatus
<1>8. ASSUME NEW e \in Events, Emit(e) \/ Age(e)
      PROVE  Queue!Next
  BY <1>1, <1>8 DEF Emit, Age, OutboxTypeOK
<1>9. CASE UNCHANGED outboxVars
  BY <1>9 DEF outboxVars, rows, Queue!vars, Outcome, Happened
<1> QED BY <1>2, <1>3, <1>4, <1>5, <1>6, <1>7, <1>8, <1>9, HookStep
        DEF OutboxNext, Work, Notify

LEMMA FirstDelivers == OutboxInit => RefinementInv /\ Queue!Init
<1> SUFFICES ASSUME OutboxInit PROVE RefinementInv /\ Queue!Init
  OBVIOUS
<1>1. FinalInv
  BY OutboxFirst DEF FinalInv, OutboxInit, OwnClaim, OldIsClaimed
<1>2. OnRecord /\ InHand /\ Emitted
  BY DEF OutboxInit, OnRecord, Recorded, SendsNew, InHand, Emitted
<1>3. Outcome = [e \in Events |-> "absent"]
  BY DEF OutboxInit, Outcome
<1>4. ASSUME NEW e \in Events, NEW x \in Notices \cup Hooks
      PROVE  Happened(e, x) = 0
  BY Effects DEF OutboxInit, Happened
<1>5. (faults > 0) = FALSE
  BY DEF OutboxInit
<1> QED BY <1>1, <1>2, <1>3, <1>4, <1>5 DEF RefinementInv, Queue!Init

\* The outbox makes the promise of Delivery: nothing of an event is skipped, it
\* is settled as processed only when all of it was delivered, and before anything
\* fails each notice goes out once, from the hands of the one worker who has it.
THEOREM OutboxDelivers == OutboxSpec => ImplementsDelivery
<1>1. RefinementInv /\ [OutboxNext]_outboxVars => RefinementInv'
  BY StepKeepsClaims, StepKeepsRecord, StepKeepsInHand, StepKeepsEmitted
     DEF RefinementInv, FinalInv, OutboxInv
<1>2. RefinementInv => OutboxTypeOK
  BY DEF RefinementInv, FinalInv, OutboxInv
<1> QED BY <1>1, <1>2, FirstDelivers, StepDelivers, PTL
        DEF OutboxSpec, ImplementsDelivery, Queue!Spec

\* What Delivery's promise comes to, for the outbox.
Promised == INSTANCE DeliveryProofs
  WITH Tasks <- Events, Effects <- Notices \cup Hooks,
       Wanted <- [e \in Events |-> Wants(e)],
       state <- Outcome,
       happened <- [e \in Events |-> [x \in Notices \cup Hooks |-> Happened(e, x)]],
       failed <- faults > 0, met <- faults > 0

\* An event is processed only when everything it is for has happened; and as long
\* as nothing has failed, nothing happens twice, nor before the event is emitted,
\* and no event is given up of which everything happened.
THEOREM OutboxServes == OutboxSpec => []Queue!Served
<1>1. [e \in Events |-> Wants(e)] \in [Events -> SUBSET (Notices \cup Hooks)]
  BY DEF Wants
<1>2. Queue!Spec => []Queue!Served
  BY <1>1, Promised!PromiseServes
         DEF Queue!Spec, Promised!Spec, Queue!Served, Promised!Served,
             Queue!Init, Promised!Init, Queue!Next, Promised!Next,
             Queue!vars, Promised!vars, Queue!All, Promised!All,
             Queue!Settle, Promised!Settle, Queue!Act, Promised!Act,
             Queue!MayChange, Promised!MayChange, Queue!States, Promised!States
<1> QED BY <1>2, OutboxDelivers, PTL DEF ImplementsDelivery

----------------------------------------------------------------------------
(* The webhook sweep: who holds what.                                      *)

\* Only the sweep that holds the lock has anything in its hands, and what it is
\* sending belongs to its batch.
OnlyRunner ==
  /\ \A s \in Sweepers : sweepStep[s] # "idle" => runner = s
  /\ \A s \in Sweepers : sweepStep[s] = "idle" => sweepBatch[s] = {}
  /\ \A s \in Sweepers : sending[s] # None => sending[s] \in sweepBatch[s]

\* The sweep has the answer to d and has not saved it yet.
Answer(d) == \E s \in Sweepers : sending[s] = d /\ sweepStep[s] = "ok"

\* What an endpoint accepted is saved, about to be saved, or owed to a fault.
Accounted ==
  \A d \in Deliveries :
    accepted[d] <= hookFaults + (IF hookStatus[d] = "delivered" \/ Answer(d) THEN 1 ELSE 0)

WebhooksInv == WebhooksTypeOK /\ OnlyRunner /\ OneSweep /\ Accounted

LEMMA WebhooksFirst == WebhooksInit => WebhooksInv
<1> SUFFICES ASSUME WebhooksInit PROVE WebhooksInv
  OBVIOUS
<1> USE WebhooksAssumption
<1>1. WebhooksTypeOK
  BY DEF WebhooksInit, WebhooksTypeOK, WebhookStatus
<1>2. OnlyRunner /\ OneSweep
  BY DEF WebhooksInit, OnlyRunner, OneSweep
<1>3. Accounted
  BY DEF WebhooksInit, Accounted, Answer
<1> QED BY <1>1, <1>2, <1>3 DEF WebhooksInv

----------------------------------------------------------------------------
(* Types.                                                                  *)

LEMMA WebhooksNextType ==
  ASSUME WebhooksTypeOK, WebhooksNext
  PROVE  WebhooksTypeOK'
<1> USE WebhooksAssumption DEF WebhooksTypeOK, WebhookStatus
<1>1. ASSUME NEW s \in Sweepers, Sweep(s)
      PROVE  WebhooksTypeOK'
  BY <1>1 DEF Sweep, LockFree
<1>2. ASSUME NEW s \in Sweepers, NEW S \in SUBSET Deliveries, ClaimHooks(s, S)
      PROVE  WebhooksTypeOK'
  BY <1>2 DEF ClaimHooks, AtMost, breaker
<1>3. ASSUME NEW s \in Sweepers, NEW d \in Deliveries, Sign(s, d)
      PROVE  WebhooksTypeOK'
  BY <1>3 DEF Sign, breaker, hookRows
<1>4. ASSUME NEW s \in Sweepers, Leave(s), UNCHANGED hookFaults \/ CrashSweep(s)
      PROVE  WebhooksTypeOK'
  BY <1>4 DEF Leave, hookRows, CrashSweep
<1>5. ASSUME NEW s \in Sweepers, (\E ok \in BOOLEAN : PostHook(s, ok)) \/ LoseAnswer(s)
      PROVE  WebhooksTypeOK'
  BY <1>5 DEF PostHook, LoseAnswer, Requesting, Accepts, Missed, Answered, AtMost, hookRows
<1>6. ASSUME NEW s \in Sweepers, Refuse(s)
      PROVE  WebhooksTypeOK'
  BY <1>6 DEF Refuse, Answered, breaker, hookRows
<1>7. ASSUME NEW s \in Sweepers, SaveHook(s)
      PROVE  WebhooksTypeOK'
  BY <1>7 DEF SaveHook, NewStatus, breaker
<1>8. ASSUME NEW d \in Deliveries, EnqueueHook(d) \/ AgeHook(d)
      PROVE  WebhooksTypeOK'
  BY <1>8 DEF EnqueueHook, AgeHook, breaker
<1>9. CASE Cooldown
  BY <1>9 DEF Cooldown, hookRows
<1> QED
  BY <1>1, <1>2, <1>3, <1>4, <1>5, <1>6, <1>7, <1>8, <1>9
  DEF WebhooksNext, SweepWork, SignFails, SweepEnds, CrashSweep

----------------------------------------------------------------------------
(* Who holds what.                                                         *)

LEMMA NextOnlyRunner ==
  ASSUME WebhooksTypeOK, OnlyRunner, WebhooksNext
  PROVE  OnlyRunner'
<1> USE DEF OnlyRunner, WebhooksTypeOK
<1>1. ASSUME NEW s \in Sweepers, Sweep(s)
      PROVE  OnlyRunner'
  BY <1>1, WebhooksAssumption DEF Sweep, LockFree
<1>2. ASSUME NEW s \in Sweepers, NEW S \in SUBSET Deliveries, ClaimHooks(s, S)
      PROVE  OnlyRunner'
  BY <1>2 DEF ClaimHooks
<1>3. ASSUME NEW s \in Sweepers, NEW d \in Deliveries, Sign(s, d)
      PROVE  OnlyRunner'
  BY <1>3 DEF Sign
<1>4. ASSUME NEW s \in Sweepers, sweepStep[s] # "idle", Leave(s)
      PROVE  OnlyRunner'
  BY <1>4, WebhooksAssumption DEF Leave
<1>5. ASSUME NEW s \in Sweepers, NEW answer \in {"ok", "error"}, sweepStep[s] = "post",
             Answered(s, answer)
      PROVE  OnlyRunner'
  BY <1>5 DEF Answered
<1>6. ASSUME NEW s \in Sweepers, SaveHook(s)
      PROVE  OnlyRunner'
  BY <1>6, WebhooksAssumption DEF SaveHook
<1>7. CASE Cooldown \/ \E d \in Deliveries : EnqueueHook(d) \/ AgeHook(d)
  BY <1>7 DEF Cooldown, EnqueueHook, AgeHook
<1> QED
  BY <1>1, <1>2, <1>3, <1>4, <1>5, <1>6, <1>7
  DEF WebhooksNext, SweepWork, SignFails, SweepEnds, CrashSweep, PostHook, LoseAnswer, Requesting, Refuse

LEMMA NextOneSweep ==
  ASSUME WebhooksTypeOK, OnlyRunner, OneSweep, WebhooksNext
  PROVE  OneSweep'
<1> USE DEF OneSweep, WebhooksTypeOK
<1>1. ASSUME NEW s \in Sweepers, Sweep(s)
      PROVE  OneSweep'
  <2>1. \A t \in Sweepers : sweepBatch[t] = {}
    BY <1>1, WebhooksAssumption DEF Sweep, LockFree, OnlyRunner
  <2> QED BY <1>1, <2>1 DEF Sweep
<1>2. ASSUME NEW s \in Sweepers, NEW S \in SUBSET Deliveries, ClaimHooks(s, S)
      PROVE  OneSweep'
  <2>1. \A d \in S : hookStatus[d] = "pending"
    BY <1>2 DEF ClaimHooks, Pending
  <2>2. \A t \in Sweepers : sweepBatch[t] \cap S = {}
    BY <2>1
  <2>3. \A t \in Sweepers : sweepBatch'[t] = IF t = s THEN S ELSE sweepBatch[t]
    BY <1>2 DEF ClaimHooks
  <2>4. \A d \in Deliveries :
           hookStatus'[d] = IF d \in S THEN "sending" ELSE hookStatus[d]
    BY <1>2 DEF ClaimHooks
  <2> QED BY <2>2, <2>3, <2>4
<1>3. ASSUME NEW s \in Sweepers, NEW d \in Deliveries, Sign(s, d)
      PROVE  OneSweep'
  BY <1>3 DEF Sign, hookRows
<1>4. ASSUME NEW s \in Sweepers, Leave(s)
      PROVE  OneSweep'
  BY <1>4 DEF Leave, hookRows
<1>5. ASSUME NEW s \in Sweepers, NEW answer \in {"ok", "error"}, Answered(s, answer)
      PROVE  OneSweep'
  BY <1>5 DEF Answered, hookRows
<1>6. ASSUME NEW s \in Sweepers, SaveHook(s)
      PROVE  OneSweep'
  <2> DEFINE d == sending[s]
  <2>1. d \in sweepBatch[s] /\ d \in Deliveries
    BY <1>6, WebhooksAssumption DEF SaveHook, OnlyRunner
  <2>2. \A t \in Sweepers : sweepBatch'[t] = IF t = s THEN sweepBatch[s] \ {d} ELSE sweepBatch[t]
    BY <1>6 DEF SaveHook
  <2>3. \A e \in Deliveries : e # d => hookStatus'[e] = hookStatus[e]
    BY <1>6 DEF SaveHook
  <2>4. \A t \in Sweepers : d \notin sweepBatch'[t]
    BY <2>1, <2>2
  <2>5. \A t \in Sweepers : sweepBatch'[t] \subseteq sweepBatch[t]
    BY <2>2
  <2> HIDE DEF d
  <2> QED BY <2>3, <2>4, <2>5
<1>7. CASE Cooldown \/ \E d \in Deliveries : EnqueueHook(d) \/ AgeHook(d)
  BY <1>7 DEF Cooldown, EnqueueHook, AgeHook, hookRows
<1> QED
  BY <1>1, <1>2, <1>3, <1>4, <1>5, <1>6, <1>7
  DEF WebhooksNext, SweepWork, SignFails, SweepEnds, CrashSweep, PostHook, LoseAnswer, Requesting, Refuse

----------------------------------------------------------------------------
(* What was accepted.                                                      *)

\* What a sweep is sending is claimed, and no other sweep is sending it.
LEMMA SendingIsOwn ==
  ASSUME OnlyRunner, OneSweep, NEW s \in Sweepers, sending[s] # None
  PROVE  /\ hookStatus[sending[s]] = "sending"
         /\ \A t \in Sweepers : sending[t] = sending[s] => t = s
BY DEF OnlyRunner, OneSweep

LEMMA NextAccounted ==
  ASSUME WebhooksTypeOK, OnlyRunner, OneSweep, Accounted, WebhooksNext
  PROVE  Accounted'
<1> USE WebhooksAssumption DEF WebhooksTypeOK
<1> DEFINE Owed(d) == IF hookStatus[d] = "delivered" \/ Answer(d) THEN 1 ELSE 0
<1>0. \A d \in Deliveries : accepted[d] <= hookFaults + Owed(d)
  BY DEF Accounted
<1>1. ASSUME NEW s \in Sweepers, Sweep(s)
      PROVE  Accounted'
  <2>1. \A t \in Sweepers : sweepStep[t] # "ok" /\ sweepStep'[t] # "ok"
    BY <1>1 DEF Sweep, LockFree, OnlyRunner
  <2>2. \A d \in Deliveries : hookStatus[d] = "delivered" <=> hookStatus'[d] = "delivered"
    BY <1>1 DEF Sweep, Abandoned
  <2> QED BY <1>0, <1>1, <2>1, <2>2 DEF Sweep, Accounted, Answer
<1>2. ASSUME NEW s \in Sweepers, NEW S \in SUBSET Deliveries, ClaimHooks(s, S)
      PROVE  Accounted'
  <2>1. \A d \in Deliveries : hookStatus[d] = "delivered" => hookStatus'[d] = "delivered"
    BY <1>2 DEF ClaimHooks, Pending
  <2>2. \A d \in Deliveries : Answer(d) => Answer(d)'
    BY <1>2 DEF ClaimHooks, Answer
  <2> QED BY <1>0, <1>2, <2>1, <2>2 DEF ClaimHooks, Accounted
<1>3. ASSUME NEW s \in Sweepers, NEW d \in Deliveries, Sign(s, d)
      PROVE  Accounted'
  <2>1. \A e \in Deliveries : Answer(e) => Answer(e)'
    BY <1>3 DEF Sign, Answer
  <2> QED BY <1>0, <1>3, <2>1 DEF Sign, hookRows, Accounted
<1>4. ASSUME NEW s \in Sweepers, sweepStep[s] = "next", Leave(s), UNCHANGED hookFaults
      PROVE  Accounted'
  <2>1. \A e \in Deliveries : Answer(e) => Answer(e)'
    BY <1>4 DEF Leave, Answer
  <2> QED BY <1>0, <1>4, <2>1 DEF Leave, hookRows, Accounted
<1>5. ASSUME NEW s \in Sweepers, CrashSweep(s)
      PROVE  Accounted'
  <2>1. accepted' = accepted /\ hookFaults' = hookFaults + 1
    BY <1>5 DEF CrashSweep, Leave
  <2>2. \A e \in Deliveries : accepted[e] \in Nat /\ hookFaults \in Nat /\ Owed(e) \in {0, 1}
    OBVIOUS
  <2> HIDE DEF Owed
  <2>3. \A e \in Deliveries : accepted'[e] <= hookFaults'
    BY <1>0, <2>1, <2>2
  <2>4. hookFaults' \in Nat
    BY <2>1
  <2> QED BY <2>1, <2>2, <2>3, <2>4 DEF Accounted
<1>6. ASSUME NEW s \in Sweepers, PostHook(s, TRUE)
      PROVE  Accounted'
  <2>0. PICK d \in Deliveries : sending[s] = d /\ d # None
    BY <1>6 DEF PostHook, Requesting
  <2>1. hookStatus[d] = "sending" /\ ~Answer(d)
    BY <1>6, <2>0, SendingIsOwn DEF PostHook, Requesting, Answer
  <2>2. accepted[d] <= hookFaults
    BY <1>0, <2>1
  <2>3. accepted' = [accepted EXCEPT ![d] = @ + 1] /\ UNCHANGED <<hookStatus, hookFaults>>
    BY <1>6, <2>0 DEF PostHook, Accepts, Answered, hookRows
  <2>4. Answer(d)'
    BY <1>6, <2>0 DEF PostHook, Answered, Answer
  <2>5. \A e \in Deliveries : Answer(e) => Answer(e)'
    BY <1>6, <2>4 DEF PostHook, Answered, Answer
  <2>6. accepted'[d] = accepted[d] + 1 /\ \A e \in Deliveries : e # d => accepted'[e] = accepted[e]
    BY <2>3
  <2>7. ASSUME NEW e \in Deliveries
        PROVE  accepted'[e] <= hookFaults' + (IF hookStatus'[e] = "delivered" \/ Answer(e)' THEN 1 ELSE 0)
    <3>1. accepted[e] \in Nat /\ hookFaults \in Nat
      OBVIOUS
    <3>2. CASE e = d
      <4>1. Answer(e)'
        BY <2>4, <3>2 DEF Answer
      <4>2. accepted'[e] = accepted[e] + 1 /\ accepted[e] <= hookFaults /\ hookFaults' = hookFaults
        BY <2>2, <2>3, <2>6, <3>2
      <4> QED BY <3>1, <4>1, <4>2
    <3>3. CASE e # d
      <4>1. accepted[e] <= hookFaults + Owed(e) /\ Owed(e) \in {0, 1}
        BY <1>0
      <4>2. Owed(e) = 1 => hookStatus'[e] = "delivered" \/ Answer(e)'
        BY <2>3, <2>5
      <4>3. accepted'[e] = accepted[e] /\ hookFaults' = hookFaults
        BY <2>3, <2>6, <3>3
      <4> HIDE DEF Owed
      <4> QED BY <3>1, <4>1, <4>2, <4>3
    <3> QED BY <3>2, <3>3
  <2> QED BY <2>7 DEF Accounted
<1>7. ASSUME NEW s \in Sweepers, PostHook(s, FALSE) \/ Refuse(s)
      PROVE  Accounted'
  <2>1. \A e \in Deliveries : Answer(e) => Answer(e)'
    BY <1>7 DEF PostHook, Requesting, Refuse, Answered, Answer
  <2>2. UNCHANGED <<accepted, hookStatus, hookFaults>>
    BY <1>7 DEF PostHook, Refuse, Answered, hookRows
  <2> QED BY <1>0, <2>1, <2>2 DEF Accounted
<1>8. ASSUME NEW s \in Sweepers, SaveHook(s)
      PROVE  Accounted'
  <2> DEFINE d == sending[s]
  <2>1. d \in Deliveries /\ d # None /\ hookStatus[d] = "sending"
    BY <1>8, SendingIsOwn DEF SaveHook
  <2>2. UNCHANGED <<accepted, hookFaults>>
    BY <1>8 DEF SaveHook
  <2>3. \A e \in Deliveries : e # d =>
           /\ hookStatus'[e] = hookStatus[e]
           /\ Answer(e) => Answer(e)'
    BY <1>8 DEF SaveHook, Answer
  <2>4. Answer(d) => hookStatus'[d] = "delivered"
    <3>1. Answer(d) => sweepStep[s] = "ok"
      BY <2>1, SendingIsOwn DEF Answer
    <3> QED BY <1>8, <2>1, <3>1 DEF SaveHook, NewStatus
  <2> HIDE DEF d
  <2>5. ASSUME NEW e \in Deliveries
        PROVE  accepted'[e] <= hookFaults' + (IF hookStatus'[e] = "delivered" \/ Answer(e)' THEN 1 ELSE 0)
    BY <1>0, <2>1, <2>2, <2>3, <2>4
  <2> QED BY <2>5 DEF Accounted
<1>9. CASE Cooldown \/ \E d \in Deliveries : EnqueueHook(d) \/ AgeHook(d)
  <2>1. \A e \in Deliveries : /\ Answer(e) => Answer(e)'
                              /\ hookStatus[e] = "delivered" => hookStatus'[e] = "delivered"
    BY <1>9 DEF Cooldown, EnqueueHook, AgeHook, hookRows, Answer
  <2>2. UNCHANGED <<accepted, hookFaults>>
    BY <1>9 DEF Cooldown, EnqueueHook, AgeHook
  <2> QED BY <1>0, <2>1, <2>2 DEF Accounted
<1>a. ASSUME NEW s \in Sweepers, LoseAnswer(s)
      PROVE  Accounted'
  <2>1. \A e \in Deliveries : Answer(e) => Answer(e)'
    BY <1>a DEF LoseAnswer, Requesting, Answered, Answer
  <2>2. hookFaults' = hookFaults + 1 /\ UNCHANGED hookStatus
    BY <1>a DEF LoseAnswer, Answered, hookRows
  <2>3. \A e \in Deliveries : accepted'[e] \in {accepted[e], accepted[e] + 1}
    BY <1>a DEF LoseAnswer, Accepts
  <2>4. \A e \in Deliveries : /\ accepted[e] \in Nat /\ hookFaults \in Nat
                              /\ Owed(e) \in {0, 1} /\ Owed(e)' \in {0, 1}
                              /\ Owed(e) <= Owed(e)'
    BY <2>1, <2>2
  <2> HIDE DEF Owed
  <2>5. \A e \in Deliveries : accepted'[e] <= hookFaults' + Owed(e)'
    BY <1>0, <2>2, <2>3, <2>4
  <2> QED BY <2>5 DEF Accounted, Owed
<1>10. ASSUME NEW s \in Sweepers, SweepWork(s)
       PROVE  Accounted'
  BY <1>1, <1>2, <1>3, <1>4, <1>6, <1>7, <1>8, <1>10
  DEF SweepWork, SignFails, SweepEnds
<1> QED BY <1>5, <1>9, <1>a, <1>10 DEF WebhooksNext

----------------------------------------------------------------------------
(* The theorems.                                                           *)

LEMMA NextKeeps == WebhooksInv /\ [WebhooksNext]_hookVars => WebhooksInv'
<1>1. CASE WebhooksNext
  BY <1>1, WebhooksNextType, NextOnlyRunner, NextOneSweep, NextAccounted DEF WebhooksInv
<1>2. CASE UNCHANGED hookVars
  BY <1>2 DEF WebhooksInv, WebhooksTypeOK, OnlyRunner, OneSweep, Accounted, Answer,
              hookVars, hookRows, breaker
<1> QED BY <1>1, <1>2

\* The invariant that the two theorems below rest on: the lock, the claims and
\* the account of what was accepted.
THEOREM WebhooksInductive == WebhooksSpec => []WebhooksInv
<1> QED BY WebhooksFirst, NextKeeps, PTL DEF WebhooksSpec

\* A claim of deliver_webhooks belongs to one sweep: no delivery is in the
\* hands of two, and what a sweep holds is still claimed.
THEOREM ClaimedByOne == WebhooksSpec => []OneSweep
<1>1. WebhooksInv => OneSweep
  BY DEF WebhooksInv
<1> QED BY <1>1, WebhooksInductive, PTL

\* An endpoint accepts a delivery once more only for a sweep that died or for an
\* answer that was lost, and a delivery it accepted is dead-lettered only after
\* such a fault.
THEOREM AcceptedOnce == WebhooksSpec => []AcceptedOncePerFault
<1>1. WebhooksInv => AcceptedOncePerFault
  <2> SUFFICES ASSUME WebhooksInv, NEW d \in Deliveries
               PROVE  /\ accepted[d] <= 1 + hookFaults
                      /\ accepted[d] > 0 /\ hookStatus[d] = "failed" => hookFaults > 0
    BY DEF AcceptedOncePerFault
  <2> USE DEF WebhooksInv
  <2>1. accepted[d] <= hookFaults + (IF hookStatus[d] = "delivered" \/ Answer(d) THEN 1 ELSE 0)
    BY DEF Accounted
  <2>2. accepted[d] \in Nat /\ hookFaults \in Nat
    BY WebhooksAssumption DEF WebhooksTypeOK
  <2>3. Answer(d) => hookStatus[d] = "sending"
    BY SendingIsOwn, WebhooksAssumption DEF Answer
  <2> QED BY <2>1, <2>2, <2>3
<1> QED BY <1>1, WebhooksInductive, PTL

----------------------------------------------------------------------------
(* The webhook sweep implements Delivery.                                  *)

\* A sweep that has been told yes is not mistaken.
Acknowledged == \A s \in Sweepers : sweepStep[s] = "ok" => accepted[sending[s]] > 0

LEMMA NextAcknowledged ==
  WebhooksInv /\ Acknowledged /\ [WebhooksNext]_hookVars => Acknowledged'
<1> SUFFICES ASSUME WebhooksInv, Acknowledged, [WebhooksNext]_hookVars PROVE Acknowledged'
  OBVIOUS
<1>0. WebhooksTypeOK /\ OnlyRunner
  BY DEF WebhooksInv
<1> USE <1>0 DEF WebhooksTypeOK, Acknowledged
<1>1. ASSUME UNCHANGED accepted,
             \A s \in Sweepers : sweepStep'[s] = "ok" => /\ sweepStep[s] = "ok"
                                                         /\ sending'[s] = sending[s]
      PROVE  Acknowledged'
  BY <1>1
<1>2. ASSUME NEW s \in Sweepers, \/ Sweep(s) \/ \E S \in SUBSET Deliveries : ClaimHooks(s, S)
                                 \/ \E d \in Deliveries : Sign(s, d)
      PROVE  Acknowledged'
  BY <1>1, <1>2 DEF Sweep, ClaimHooks, Sign
<1>3. ASSUME NEW s \in Sweepers, Leave(s)
      PROVE  Acknowledged'
  BY <1>1, <1>3 DEF Leave
<1>4. ASSUME NEW s \in Sweepers, PostHook(s, FALSE) \/ Refuse(s) \/ SaveHook(s)
      PROVE  Acknowledged'
  BY <1>1, <1>4 DEF PostHook, Refuse, SaveHook, Answered
<1>5. ASSUME NEW s \in Sweepers, PostHook(s, TRUE) \/ LoseAnswer(s)
      PROVE  Acknowledged'
  <2>1. PICK d \in Deliveries : sending[s] = d
    BY <1>5 DEF PostHook, LoseAnswer, Requesting
  <2>2. /\ accepted' = [accepted EXCEPT ![d] = @ + 1] /\ sending' = sending
        /\ \E answer \in {"ok", "error"} : sweepStep' = [sweepStep EXCEPT ![s] = answer]
    BY <1>5, <2>1 DEF PostHook, LoseAnswer, Accepts, Answered
  <2>3. accepted'[d] > 0 /\ \A e \in Deliveries : accepted[e] > 0 => accepted'[e] > 0
    BY <2>2
  <2>4. ASSUME NEW t \in Sweepers, t # s, sweepStep'[t] = "ok"
        PROVE  accepted'[sending'[t]] > 0
    <3>1. sweepStep[t] = "ok" /\ sending'[t] = sending[t] /\ accepted[sending[t]] > 0
      BY <2>2, <2>4
    <3>2. sending[t] \in Deliveries
      BY <3>1, WebhooksAssumption
    <3> QED BY <2>3, <3>1, <3>2
  <2> QED BY <2>1, <2>2, <2>3, <2>4
<1>6. CASE Cooldown \/ (\E d \in Deliveries : EnqueueHook(d) \/ AgeHook(d)) \/ UNCHANGED hookVars
  BY <1>1, <1>6 DEF Cooldown, EnqueueHook, AgeHook, hookVars
<1> QED BY <1>2, <1>3, <1>4, <1>5, <1>6
        DEF WebhooksNext, SweepWork, SignFails, SweepEnds, CrashSweep

LEMMA HookOutcomes ==
  ASSUME WebhooksTypeOK, NEW d \in Deliveries
  PROVE  /\ HookOutcome \in [Deliveries -> HookQueue!States]
         /\ HookOutcome[d] = "taken" <=> hookStatus[d] = "sending"
         /\ HookQueue!All(d) <=> accepted[d] > 0
<1>1. \A e \in Deliveries :
         hookStatus[e] \in {"absent", "pending", "sending", "delivered", "failed"}
  BY DEF WebhooksTypeOK, WebhookStatus
<1> QED BY <1>1 DEF HookOutcome, HookQueue!States, HookQueue!All

\* A step that settles deliveries, and has nothing accepted.
LEMMA HookSettleStep ==
  ASSUME WebhooksTypeOK, WebhooksTypeOK', UNCHANGED accepted,
         (hookFaults > 0)' \in {hookFaults > 0, TRUE},
         \A d \in Deliveries : HookQueue!MayChange(d, HookOutcome[d], HookOutcome'[d])
  PROVE  HookQueue!Next
<1>1. HookOutcome' \in [Deliveries -> HookQueue!States]
  BY HookOutcomes DEF WebhooksTypeOK, WebhookStatus, HookOutcome, HookQueue!States
<1> QED BY <1>1 DEF HookQueue!Next, HookQueue!Settle

LEMMA HookFaultsStay ==
  ASSUME WebhooksTypeOK, WebhooksTypeOK', [WebhooksNext]_hookVars
  PROVE  (hookFaults > 0)' \in {hookFaults > 0, TRUE}
<1> USE DEF WebhooksTypeOK
<1>1. ASSUME NEW s \in Sweepers, SweepWork(s)
      PROVE  hookFaults' = hookFaults
  BY <1>1 DEF SweepWork, Sweep, ClaimHooks, Sign, SignFails, SweepEnds, PostHook, Refuse, SaveHook,
              Answered
<1>2. hookFaults > 0 => hookFaults' > 0
  BY <1>1 DEF WebhooksNext, CrashSweep, EnqueueHook, AgeHook, Cooldown, hookVars, LoseAnswer
<1>3. (hookFaults > 0) \in BOOLEAN /\ (hookFaults' > 0) \in BOOLEAN
  OBVIOUS
<1> QED BY <1>2, <1>3, Zenon

\* Every step of the sweeps is one of Delivery, or none.
LEMMA NextDelivers ==
  WebhooksInv /\ Acknowledged /\ WebhooksTypeOK' /\ [WebhooksNext]_hookVars
    => [HookQueue!Next]_(HookQueue!vars)
<1> SUFFICES ASSUME WebhooksInv, Acknowledged, WebhooksTypeOK', [WebhooksNext]_hookVars
             PROVE  HookQueue!Next \/ UNCHANGED HookQueue!vars
  OBVIOUS
<1>0. WebhooksTypeOK /\ OnlyRunner /\ OneSweep /\ Accounted
  BY DEF WebhooksInv
<1>a. (hookFaults > 0)' \in {hookFaults > 0, TRUE}
  BY <1>0, HookFaultsStay
<1> USE <1>0, <1>a
<1>1. ASSUME UNCHANGED accepted,
             \A d \in Deliveries :
               \/ hookStatus'[d] = hookStatus[d]
               \/ hookStatus[d] = "absent" /\ hookStatus'[d] = "pending"
               \/ hookStatus[d] = "pending" /\ hookStatus'[d] = "sending"
               \/ hookStatus[d] = "sending" /\ hookStatus'[d] = "pending"
      PROVE  HookQueue!Next
  <2>1. ASSUME NEW d \in Deliveries
        PROVE  HookQueue!MayChange(d, HookOutcome[d], HookOutcome'[d])
    BY <1>1 DEF HookOutcome, HookQueue!MayChange
  <2> QED BY <1>1, <2>1, HookSettleStep
<1>2. ASSUME NEW s \in Sweepers, Sweep(s) \/ \E S \in SUBSET Deliveries : ClaimHooks(s, S)
      PROVE  HookQueue!Next
  BY <1>1, <1>2 DEF Sweep, ClaimHooks, Abandoned, Pending
<1>3. ASSUME NEW s \in Sweepers, \/ Leave(s) \/ PostHook(s, FALSE) \/ Refuse(s)
                                 \/ \E d \in Deliveries : Sign(s, d)
      PROVE  HookQueue!Next
  BY <1>1, <1>3 DEF Leave, PostHook, Refuse, Answered, Sign, hookRows
<1>4. ASSUME NEW s \in Sweepers, PostHook(s, TRUE) \/ LoseAnswer(s)
      PROVE  HookQueue!Next
  <2>1. PICK d \in Deliveries : sending[s] = d /\ d # None
    BY <1>4, WebhooksAssumption DEF PostHook, LoseAnswer, Requesting, WebhooksTypeOK
  <2>2. hookStatus[d] = "sending" /\ ~Answer(d)
    BY <1>4, <2>1, SendingIsOwn DEF PostHook, LoseAnswer, Requesting, Answer
  <2>3. hookFaults = 0 => accepted[d] = 0
    BY <2>2 DEF Accounted, WebhooksTypeOK
  <2>4. accepted' = [accepted EXCEPT ![d] = @ + 1] /\ UNCHANGED hookStatus
    BY <1>4, <2>1 DEF PostHook, LoseAnswer, Accepts, Answered, hookRows
  <2>5. HookOutcome' \in [Deliveries -> HookQueue!States] /\ UNCHANGED HookOutcome
    BY <2>1, <2>4, HookOutcomes DEF HookOutcome
  <2>6. [e \in Deliveries |-> [x \in {"accepted"} |-> accepted'[e]]]
        = [[e \in Deliveries |-> [x \in {"accepted"} |-> accepted[e]]]
             EXCEPT ![d]["accepted"] = @ + 1]
    BY <2>4 DEF WebhooksTypeOK
  <2>7. ~(hookFaults > 0) => HookOutcome[d] = "taken" /\ accepted[d] = 0
    BY <2>2, <2>3, HookOutcomes DEF WebhooksTypeOK
  <2>8. HookQueue!Act(d, "accepted")
    BY <2>6, <2>7 DEF HookQueue!Act
  <2> QED BY <2>5, <2>8 DEF HookQueue!Next
<1>5. ASSUME NEW s \in Sweepers, SaveHook(s)
      PROVE  HookQueue!Next
  <2>1. PICK d \in Deliveries : sending[s] = d /\ d # None
    BY <1>5, WebhooksAssumption DEF SaveHook, WebhooksTypeOK
  <2>2. hookStatus[d] = "sending"
    BY <2>1, SendingIsOwn
  <2>3. UNCHANGED accepted /\ \A e \in Deliveries :
           hookStatus'[e] = IF e = d THEN NewStatus(s, d) ELSE hookStatus[e]
    BY <1>5, <2>1 DEF SaveHook, WebhooksTypeOK
  <2>4. \/ NewStatus(s, d) = "pending"
        \/ NewStatus(s, d) = "delivered" /\ accepted[d] > 0
        \/ NewStatus(s, d) = "failed" /\ (accepted[d] > 0 => hookFaults > 0)
    <3>1. sweepStep[s] # "ok" => ~Answer(d)
      BY <2>1, SendingIsOwn DEF Answer
    <3>2. sweepStep[s] # "ok" => accepted[d] <= hookFaults
      BY <2>2, <3>1 DEF Accounted, WebhooksTypeOK
    <3> QED BY <2>1, <3>2 DEF NewStatus, Acknowledged, WebhooksTypeOK
  <2>5. ASSUME NEW e \in Deliveries
        PROVE  HookQueue!MayChange(e, HookOutcome[e], HookOutcome'[e])
    <3>1. CASE e # d
      BY <2>3, <3>1 DEF HookOutcome, HookQueue!MayChange
    <3>2. CASE e = d
      BY <2>2, <2>3, <2>4, <3>2, HookOutcomes DEF HookOutcome, HookQueue!MayChange
    <3> QED BY <3>1, <3>2
  <2> QED BY <2>3, <2>5, HookSettleStep
<1>6. CASE Cooldown \/ \E d \in Deliveries : EnqueueHook(d) \/ AgeHook(d)
  BY <1>1, <1>6 DEF Cooldown, EnqueueHook, AgeHook, hookRows, WebhooksTypeOK
<1>7. CASE UNCHANGED hookVars
  BY <1>7 DEF hookVars, hookRows, HookQueue!vars, HookOutcome
<1> QED BY <1>2, <1>3, <1>4, <1>5, <1>6, <1>7
        DEF WebhooksNext, SweepWork, SignFails, SweepEnds, CrashSweep

LEMMA FirstHookDelivers == WebhooksInit => Acknowledged /\ HookQueue!Init
<1> SUFFICES ASSUME WebhooksInit PROVE Acknowledged /\ HookQueue!Init
  OBVIOUS
<1>1. (hookFaults > 0) = FALSE
  BY DEF WebhooksInit
<1> QED BY <1>1 DEF WebhooksInit, Acknowledged, HookOutcome, HookQueue!Init

\* deliver_webhooks makes the promise of Delivery, and no two of its sweeps ever
\* meet over a delivery: what is delivered was accepted and stays delivered, and
\* as long as no sweep dies and no answer is lost an endpoint accepts each
\* delivery once at most.
THEOREM WebhooksDeliver == WebhooksSpec => SweepImplementsDelivery
<1>1. WebhooksInv /\ Acknowledged /\ [WebhooksNext]_hookVars
        => /\ WebhooksInv' /\ Acknowledged'
           /\ [HookQueue!Next]_(HookQueue!vars)
  <2>1. WebhooksInv' => WebhooksTypeOK'
    BY DEF WebhooksInv
  <2> QED BY <2>1, NextKeeps, NextAcknowledged, NextDelivers
<1> QED BY <1>1, WebhooksFirst, FirstHookDelivers, PTL
        DEF WebhooksSpec, SweepImplementsDelivery, HookQueue!Spec

\* What Delivery's promise comes to, for the sweep.
HookPromised == INSTANCE DeliveryProofs
  WITH Tasks <- Deliveries, Effects <- {"accepted"},
       Wanted <- [d \in Deliveries |-> {"accepted"}],
       state <- HookOutcome,
       happened <- [d \in Deliveries |-> [x \in {"accepted"} |-> accepted[d]]],
       failed <- hookFaults > 0, met <- FALSE

\* A delivery is delivered only when its endpoint has accepted it; and as long as
\* no sweep has died and no answer was lost, none is accepted twice, and none is
\* given up that was.
THEOREM SweepServes == WebhooksSpec => []HookQueue!Served
<1>1. [d \in Deliveries |-> {"accepted"}] \in [Deliveries -> SUBSET {"accepted"}]
  OBVIOUS
<1>2. HookQueue!Spec => []HookQueue!Served
  BY <1>1, HookPromised!PromiseServes
         DEF HookQueue!Spec, HookPromised!Spec, HookQueue!Served, HookPromised!Served,
             HookQueue!Init, HookPromised!Init, HookQueue!Next, HookPromised!Next,
             HookQueue!vars, HookPromised!vars, HookQueue!All, HookPromised!All,
             HookQueue!Settle, HookPromised!Settle, HookQueue!Act, HookPromised!Act,
             HookQueue!MayChange, HookPromised!MayChange,
             HookQueue!States, HookPromised!States
<1> QED BY <1>2, WebhooksDeliver, PTL DEF SweepImplementsDelivery
=============================================================================
