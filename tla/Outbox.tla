------------------------------- MODULE Outbox -------------------------------
(***************************************************************************)
(* The transactional outbox: drain_outbox (library/services.py), run by    *)
(* any number of worker processes, and what it does for each event, that   *)
(* is, the notification of a patron over several channels                  *)
(* (library/notifications.py) and the queueing of webhook deliveries       *)
(* (library/webhooks.py).                                                  *)
(*                                                                         *)
(* Each statement that is committed on its own is a step here, and so is   *)
(* each call of a channel.  Time is left out: an event is due for its next *)
(* attempt at any moment.  What can go wrong is counted as a fault: a      *)
(* worker dies, a worker takes longer over an event than the 15 minutes    *)
(* after which another takes it for dead, a channel reports a failure of   *)
(* what it has sent.  A channel may also refuse, which is no fault.        *)
(***************************************************************************)
EXTENDS Library

CONSTANTS
  Workers, Events, Channels, Endpoints,
  Notified,      \* events that a patron is told of, on every channel
  MaxAttempts,   \* the attempt after which an event is dead-lettered
  BatchSize,
  MaxFaults      \* bound

ASSUME OutboxNumberAssumption ==
  /\ MaxAttempts \in Nat \ {0} /\ BatchSize \in Nat \ {0} /\ MaxFaults \in Nat
  /\ IsFiniteSet(Workers)
ASSUME OutboxEventAssumption ==
  /\ Notified \subseteq Events
  /\ None \notin Events /\ None \notin Channels

VARIABLES
  status, attempts,   \* OutboxEvent
  stale,              \* no worker has written the event for 15 minutes
  row,                \* NotificationDelivery.status of an event and a channel
  queued,             \* endpoints with a WebhookDelivery for the event
  sends,              \* how often a channel has sent the event's notice
  pc, batch, tries, event, todo, channel,   \* a worker's memory
  faults

rows == <<status, attempts, stale, row, queued>>
memory == <<pc, batch, tries, event, todo, channel>>
outboxVars == <<rows, sends, memory, faults>>

OutboxStatus == {"pending", "processing", "processed", "failed"}
RowStatus == {"none", "pending", "sent", "failed"}
Steps == {"idle", "claiming", "next", "notify", "send", "save", "error"}

----------------------------------------------------------------------------
(* The batch.                                                              *)

\* emit_domain_event writes the event in the transaction that causes it.
Emit(e) ==
  /\ status[e] = "absent"
  /\ status' = [status EXCEPT ![e] = "pending"]
  /\ UNCHANGED <<attempts, stale, row, queued, sends, memory, faults>>

\* Mutation: a claim is taken back whether or not it is old.
ReclaimAll(w) ==
  /\ pc[w] = "idle"
  /\ pc' = [pc EXCEPT ![w] = "claiming"]
  /\ status' = [e \in Events |-> IF status[e] = "processing" THEN "pending"
                                 ELSE status[e]]
  /\ stale' = [e \in Events |-> FALSE]
  /\ UNCHANGED <<attempts, row, queued, sends, batch, tries, event, todo, channel,
                 faults>>

\* Mutation: nobody takes back what a dead worker had claimed.
ReclaimNone(w) ==
  /\ pc[w] = "idle"
  /\ pc' = [pc EXCEPT ![w] = "claiming"]
  /\ UNCHANGED <<rows, sends, batch, tries, event, todo, channel, faults>>

\* reclaim_stale_outbox_events, with which a drain begins.
Reclaim(w) ==
  /\ pc[w] = "idle"
  /\ pc' = [pc EXCEPT ![w] = "claiming"]
  /\ status' = [e \in Events |-> IF status[e] = "processing" /\ stale[e]
                                 THEN "pending" ELSE status[e]]
  /\ stale' = [e \in Events |-> FALSE]
  /\ UNCHANGED <<attempts, row, queued, sends, batch, tries, event, todo, channel,
                 faults>>

\* Claim the due events that no other worker has locked, and remember their
\* attempts: nothing of an event is read again before it is finished.
Claim(w, S) ==
  /\ pc[w] = "claiming"
  /\ Cardinality(S) <= BatchSize
  /\ \A e \in S : status[e] = "pending"
  /\ status' = [e \in Events |-> IF e \in S THEN "processing" ELSE status[e]]
  /\ attempts' = [e \in Events |-> IF e \in S THEN attempts[e] + 1 ELSE attempts[e]]
  /\ batch' = [batch EXCEPT ![w] = S]
  /\ tries' = [tries EXCEPT ![w] = [e \in Events |-> IF e \in S THEN attempts[e] + 1
                                                     ELSE 0]]
  /\ pc' = [pc EXCEPT ![w] = IF S = {} THEN "idle" ELSE "next"]
  /\ UNCHANGED <<stale, row, queued, sends, event, todo, channel, faults>>

\* Mutation: any event that is claimed will do.
StartAny(w, e) ==
  /\ pc[w] = "next"
  /\ status[e] = "processing"
  /\ event' = [event EXCEPT ![w] = e]
  /\ todo' = [todo EXCEPT ![w] = IF e \in Notified THEN Channels ELSE {}]
  /\ pc' = [pc EXCEPT ![w] = "notify"]
  /\ UNCHANGED <<rows, sends, batch, tries, channel, faults>>

\* process_outbox_event begins.
Start(w, e) ==
  /\ pc[w] = "next"
  /\ e \in batch[w]
  /\ event' = [event EXCEPT ![w] = e]
  /\ todo' = [todo EXCEPT ![w] = IF e \in Notified THEN Channels ELSE {}]
  /\ pc' = [pc EXCEPT ![w] = "notify"]
  /\ UNCHANGED <<rows, sends, batch, tries, channel, faults>>

\* The event is done with, for this worker; s is its status from now on.
Done(w, s) ==
  LET e    == event[w]
      rest == batch[w] \ {e}
  IN  /\ status' = [status EXCEPT ![e] = s]
      /\ stale' = [stale EXCEPT ![e] = FALSE]
      /\ batch' = [batch EXCEPT ![w] = rest]
      /\ tries' = [tries EXCEPT ![w][e] = 0]
      /\ event' = [event EXCEPT ![w] = None]
      /\ todo' = [todo EXCEPT ![w] = {}]
      /\ pc' = [pc EXCEPT ![w] = IF rest = {} THEN "idle" ELSE "next"]
      /\ UNCHANGED <<attempts, row, queued, sends, channel, faults>>

Finish(w) ==
  /\ pc[w] = "notify" /\ todo[w] = {}
  /\ Endpoints \subseteq queued[event[w]]
  /\ Done(w, "processed")

Dead(n) == n >= MaxAttempts

\* The event goes back to wait for its next attempt, or is given up.
Fail(w) ==
  /\ pc[w] = "error"
  /\ Done(w, IF Dead(tries[w][event[w]]) THEN "failed" ELSE "pending")

----------------------------------------------------------------------------
(* Notifying a patron.                                                     *)

\* Mutation: a retry begins with the first channel again.
NoRow(e, c) == FALSE

AlreadySent(e, c) == row[e][c] = "sent"

\* The channel has nothing left to do for the event.
Skip(w, c) ==
  /\ pc[w] = "notify" /\ c \in todo[w]
  /\ AlreadySent(event[w], c)
  /\ todo' = [todo EXCEPT ![w] = @ \ {c}]
  /\ UNCHANGED <<rows, sends, pc, batch, tries, event, channel, faults>>

\* get_or_create of the delivery row.  The patron's channels are tried in an
\* order of their own.
Open(w, c) ==
  LET e == event[w]
  IN  /\ pc[w] = "notify" /\ c \in todo[w]
      /\ ~AlreadySent(e, c)
      /\ row' = [row EXCEPT ![e][c] = IF @ = "none" THEN "pending" ELSE @]
      /\ channel' = [channel EXCEPT ![w] = c]
      /\ pc' = [pc EXCEPT ![w] = "send"]
      /\ UNCHANGED <<status, attempts, stale, queued, sends, batch, tries, event,
                     todo, faults>>

\* channel.send returns; the row is saved next.
Send(w) ==
  /\ pc[w] = "send"
  /\ sends' = [sends EXCEPT ![event[w]][channel[w]] = @ + 1]
  /\ pc' = [pc EXCEPT ![w] = "save"]
  /\ UNCHANGED <<rows, batch, tries, event, todo, channel, faults>>

Save(w) ==
  /\ pc[w] = "save"
  /\ row' = [row EXCEPT ![event[w]][channel[w]] = "sent"]
  /\ todo' = [todo EXCEPT ![w] = @ \ {channel[w]}]
  /\ channel' = [channel EXCEPT ![w] = None]
  /\ pc' = [pc EXCEPT ![w] = "notify"]
  /\ UNCHANGED <<status, attempts, stale, queued, sends, batch, tries, event, faults>>

\* channel.send raises: the row is saved as failed and the exception goes up to
\* drain_outbox.  The notice may have been sent all the same.
SendFails(w, sent) ==
  LET e == event[w]
      c == channel[w]
  IN  /\ pc[w] = "send"
      /\ sent => faults < MaxFaults
      /\ sends' = [sends EXCEPT ![e][c] = IF sent THEN @ + 1 ELSE @]
      /\ faults' = IF sent THEN faults + 1 ELSE faults
      /\ row' = [row EXCEPT ![e][c] = "failed"]
      /\ channel' = [channel EXCEPT ![w] = None]
      /\ pc' = [pc EXCEPT ![w] = "error"]
      /\ UNCHANGED <<status, attempts, stale, queued, batch, tries, event, todo>>

\* enqueue_for_outbox_event, once no channel is left: get_or_create for each
\* endpoint that matches, in an order that does not matter.
Enqueue(w, h) ==
  LET e == event[w]
  IN  /\ pc[w] = "notify" /\ todo[w] = {}
      /\ h \notin queued[e]
      /\ queued' = [queued EXCEPT ![e] = @ \cup {h}]
      /\ UNCHANGED <<status, attempts, stale, row, sends, memory, faults>>

----------------------------------------------------------------------------
(* Faults.                                                                 *)

\* The process ends and is started again with nothing in memory.
Crash(w) ==
  /\ pc[w] # "idle" /\ faults < MaxFaults
  /\ faults' = faults + 1
  /\ pc' = [pc EXCEPT ![w] = "idle"]
  /\ batch' = [batch EXCEPT ![w] = {}]
  /\ tries' = [tries EXCEPT ![w] = [e \in Events |-> 0]]
  /\ event' = [event EXCEPT ![w] = None]
  /\ todo' = [todo EXCEPT ![w] = {}]
  /\ channel' = [channel EXCEPT ![w] = None]
  /\ UNCHANGED <<rows, sends>>

Held(e) == \E w \in Workers : e \in batch[w]

\* 15 minutes pass over a claim: over one that a worker still works on, that is
\* a fault.
Age(e) ==
  /\ status[e] = "processing" /\ ~stale[e]
  /\ Held(e) => faults < MaxFaults
  /\ faults' = IF Held(e) THEN faults + 1 ELSE faults
  /\ stale' = [stale EXCEPT ![e] = TRUE]
  /\ UNCHANGED <<status, attempts, row, queued, sends, memory>>

----------------------------------------------------------------------------
OutboxInit ==
  /\ status = [e \in Events |-> "absent"]
  /\ attempts = [e \in Events |-> 0]
  /\ stale = [e \in Events |-> FALSE]
  /\ row = [e \in Events |-> [c \in Channels |-> "none"]]
  /\ queued = [e \in Events |-> {}]
  /\ sends = [e \in Events |-> [c \in Channels |-> 0]]
  /\ pc = [w \in Workers |-> "idle"]
  /\ batch = [w \in Workers |-> {}]
  /\ tries = [w \in Workers |-> [e \in Events |-> 0]]
  /\ event = [w \in Workers |-> None]
  /\ todo = [w \in Workers |-> {}]
  /\ channel = [w \in Workers |-> None]
  /\ faults = 0

Notify(w) == \/ \E c \in Channels : Skip(w, c) \/ Open(w, c)
             \/ Send(w)
             \/ Save(w)
             \/ \E sent \in BOOLEAN : SendFails(w, sent)
             \/ \E h \in Endpoints : Enqueue(w, h)

Work(w) == \/ Reclaim(w)
           \/ \E S \in SUBSET Events : Claim(w, S)
           \/ \E e \in Events : Start(w, e)
           \/ Notify(w)
           \/ Finish(w)
           \/ Fail(w)

OutboxNext == \/ \E w \in Workers : Work(w) \/ Crash(w)
              \/ \E e \in Events : Emit(e) \/ Age(e)

OutboxSpec == OutboxInit /\ [][OutboxNext]_outboxVars

\* A worker goes on, after a crash too: somebody starts it again.  An event that
\* is due again and again comes into a batch at last: the batch is filled in the
\* order of next_attempt_at.  And 15 minutes pass.
OutboxFairness ==
  /\ \A w \in Workers : WF_outboxVars(Work(w))
  /\ \A e \in Events : /\ SF_outboxVars(\E w \in Workers, S \in SUBSET Events :
                                    e \in S /\ Claim(w, S))
                       /\ WF_outboxVars(~Held(e) /\ Age(e))

OutboxFairSpec == OutboxSpec /\ OutboxFairness

----------------------------------------------------------------------------
(* Properties.                                                             *)

OutboxTypeOK ==
  /\ status \in [Events -> OutboxStatus \cup {"absent"}]
  /\ attempts \in [Events -> Nat]
  /\ stale \in [Events -> BOOLEAN]
  /\ row \in [Events -> [Channels -> RowStatus]]
  /\ queued \in [Events -> SUBSET Endpoints]
  /\ sends \in [Events -> [Channels -> Nat]]
  /\ pc \in [Workers -> Steps]
  /\ batch \in [Workers -> SUBSET Events]
  /\ tries \in [Workers -> [Events -> Nat]]
  /\ event \in [Workers -> Events \cup {None}]
  /\ todo \in [Workers -> SUBSET Channels]
  /\ channel \in [Workers -> Channels \cup {None}]
  /\ faults \in 0 .. MaxFaults
  /\ \A w \in Workers :
        /\ IF pc[w] \in {"idle", "claiming", "next"} THEN event[w] = None
           ELSE event[w] \in batch[w]
        /\ channel[w] # None <=> pc[w] \in {"send", "save"}

\* At least once: an event is processed only when its notice has gone out on
\* every channel and every endpoint has its delivery, whoever did it and
\* whatever a second worker with the same event writes over it.  (This and
\* ProcessedIsFinal are the two halves of ImplementsDelivery that matter most.)
Delivered ==
  \A e \in Events : status[e] = "processed" =>
     /\ queued[e] = Endpoints
     /\ e \in Notified => \A c \in Channels : sends[e][c] > 0

\* Why: a row says sent only of what was sent, and a worker leaves nothing of
\* its event undone behind it.
NothingSkipped ==
  /\ \A e \in Events, c \in Channels : row[e][c] = "sent" => sends[e][c] > 0
  /\ \A w \in Workers : pc[w] \in {"notify", "send", "save"} =>
        /\ event[w] \in Notified =>
              \A c \in Channels \ todo[w] : sends[event[w]][c] > 0
        /\ pc[w] = "save" => sends[event[w]][channel[w]] > 0

\* The inductive invariant.
OutboxInv == OutboxTypeOK /\ NothingSkipped /\ Delivered

\* Retries alone repeat nothing: as long as nothing has gone wrong a notice goes
\* out once on each channel, however often the other channels fail.  (One fault
\* is enough for more than one repetition: two workers who take turns at one
\* event each mark as failed what the other has sent.)  And an event is tried
\* MaxAttempts times, and once more for each fault, whose claim is wasted.
RetriesContained ==
  \A e \in Events : /\ faults = 0 => \A c \in Channels : sends[e][c] <= 1
                    /\ attempts[e] <= MaxAttempts + faults

\* Without a fault a processed event stays so: no late worker puts it back.
ProcessedIsFinal ==
  [][\A e \in Events : status[e] = "processed" /\ status'[e] # "processed"
                       => faults > 0]_outboxVars

\* The outbox delivers: the effects of an event are its notice on every channel
\* and a webhook delivery for every endpoint, and the faults are what fails and
\* what lets two workers meet.
Outcome == [e \in Events |-> CASE status[e] = "pending" -> "waiting"
                               [] status[e] = "processing" -> "taken"
                               [] status[e] = "processed" -> "done"
                               [] status[e] = "failed" -> "dropped"
                               [] OTHER -> "absent"]

Notices == {"notice"} \X Channels
Hooks == {"hook"} \X Endpoints
Wants(e) == IF e \in Notified THEN Notices \cup Hooks ELSE Hooks

Happened(e, x) == IF x \in Notices THEN sends[e][x[2]]
                  ELSE IF x[2] \in queued[e] THEN 1 ELSE 0

Queue == INSTANCE Delivery
  WITH Tasks <- Events, Effects <- Notices \cup Hooks,
       Wanted <- [e \in Events |-> Wants(e)],
       state <- Outcome,
       happened <- [e \in Events |-> [x \in Notices \cup Hooks |-> Happened(e, x)]],
       failed <- faults > 0, met <- faults > 0

\* Events are delivered as Delivery promises.
ImplementsDelivery == Queue!Spec

\* Every event that is emitted is settled at last, for good: processed or given
\* up.  Nobody leaves it claimed, and no late worker reopens it for ever.
Settles ==
  \A e \in Events : <>[](status[e] \in {"absent", "processed", "failed"})
=============================================================================
