--------------------------- MODULE AuditPipeline ---------------------------
(***************************************************************************)
(* The audit pipeline: AuditsService and AuditProducer hand events to      *)
(* RabbitMQ, AuditConsumer stores them in MongoDB, retries what fails      *)
(* through a delay queue and sends what keeps failing to a dead letter     *)
(* queue.  Producer and consumers live in the same API process             *)
(* (ADR-0004), so a crash stops them together; the broker stays.  Each of  *)
(* the three has a connection of its own, which may be lost and made again *)
(* while the process lives: the broker gives what was not acked to the     *)
(* next handler though the first still runs, and the client publishes once *)
(* more what was not confirmed.                                            *)
(*                                                                         *)
(* The broker and the Nest transport are not in the repository.  Three     *)
(* facts about them are left open and hold for a whole behaviour:          *)
(*   retryQueue  whether audit_retry_queue exists (no code declares it;    *)
(*               getRetryQueueOptions is never used);                      *)
(*   dlx         whether audit_dlx_exchange exists and is bound (as above);*)
(*   byQueue     whether a message finds its handler by the queue it is    *)
(*               in, as the consumers' comments assume, or, as the Nest    *)
(*               RabbitMQ server does, by the pattern in its envelope,     *)
(*               which a republished event no longer has.                  *)
(***************************************************************************)
EXTENDS Naturals, FiniteSets

CONSTANTS Events,          \* audit events, by their eventId
          RetryAttempts,   \* RABBITMQ_CONSTANTS.OPTIONS.RETRY_ATTEMPTS
          MaxLosses        \* bound: crashes of the API process and losses
                           \* of one of its connections to the broker

ASSUME RetryAttemptsAssumption == RetryAttempts \in Nat \ {0}
ASSUME MaxLossesAssumption == MaxLosses \in Nat

VARIABLES
    net,        \* the three open facts
    copies,     \* every message: where it is and what it carries
    adrift,     \* handlers that still run though their connection is gone:
                \* the message as they had it, and which loss it was
    stored,     \* audit log documents, by auditId (a unique field)
    logged,     \* events whose payload an error log line shows
    reply,      \* what the caller of logSync has been told
    accepted,   \* history: events the broker has taken
    expired,    \* history: events the queue's TTL dropped
    attempts,   \* history: how often a handler tried to store the event, for
                \* every time the client published it
    losses      \* history: how many crashes and lost connections there were

vars == <<net, copies, adrift, stored, logged, reply, accepted, expired,
          attempts, losses>>

Places == {"buffer",   \* in the client, not yet published
           "main", "retry", "dead",   \* ready in a queue
           "storing",  \* with a handler that awaits repository.create
           "stored",   \* as above, the document written, the ack not
           "acked"}    \* acked, about to be published to the retry queue

\* A message; the client has published its event `no` times before.
Copy == [ev : Events, no : 0..MaxLosses, sync : BOOLEAN, raw : BOOLEAN,
         header : 0..RetryAttempts, deaths : 0..1,
         at : Places, from : {"main", "dead"}]

Publications == Events \X (0..MaxLosses)
Publication(c) == <<c.ev, c.no>>

TypeOK ==
    /\ net \in [retryQueue : BOOLEAN, dlx : BOOLEAN, byQueue : BOOLEAN]
    /\ copies \subseteq Copy
    /\ adrift \subseteq [msg : Copy, loss : 1..MaxLosses]
    /\ stored \subseteq Events
    /\ logged \subseteq Events
    /\ reply \in [Events -> {"none", "waiting", "yes", "no"}]
    /\ accepted \subseteq Events
    /\ expired \subseteq Events
    /\ attempts \in [Publications -> Nat]
    /\ losses \in 0..MaxLosses

Init ==
    /\ net \in [retryQueue : BOOLEAN, dlx : BOOLEAN, byQueue : BOOLEAN]
    /\ copies = {}
    /\ adrift = {}
    /\ stored = {}
    /\ logged = {}
    /\ reply = [e \in Events |-> "none"]
    /\ accepted = {}
    /\ expired = {}
    /\ attempts = [p \in Publications |-> 0]
    /\ losses = 0

--------------------------------------------------------------------------
(* The producer *)

Fresh(e) == e \notin accepted \cup logged /\ \A c \in copies : c.ev # e

BuildEvent(e, sync) ==
    [ev |-> e, no |-> 0, sync |-> sync, raw |-> FALSE, header |-> 0,
     deaths |-> 0, at |-> "buffer", from |-> "main"]

Replace(c, new) == copies' = (copies \ {c}) \cup new

\* emitAuditEvent: returns at once, the client publishes when it can.
EmitAuditEvent(e) ==
    /\ Fresh(e)
    /\ copies' = copies \cup {BuildEvent(e, FALSE)}
    /\ UNCHANGED <<net, adrift, stored, logged, reply, accepted, expired,
                   attempts, losses>>

\* emitAuditEventSync: the caller waits for the consumer's answer.
EmitAuditEventSync(e) ==
    /\ Fresh(e)
    /\ copies' = copies \cup {BuildEvent(e, TRUE)}
    /\ reply' = [reply EXCEPT ![e] = "waiting"]
    /\ UNCHANGED <<net, adrift, stored, logged, accepted, expired, attempts,
                   losses>>

\* Every helper of AuditsService fills in a payload and ends in log.
Log(e) == EmitAuditEvent(e)
LogSync(e) == EmitAuditEventSync(e)

Publish(c) ==
    /\ c.at = "buffer"
    /\ Replace(c, {[c EXCEPT !.at = "main"]})
    /\ accepted' = accepted \cup {c.ev}
    /\ UNCHANGED <<net, adrift, stored, logged, reply, expired, attempts,
                   losses>>

\* The broker has the event, but the connection is gone before its confirm:
\* the client keeps the event and publishes it once more.
PublishUnconfirmed(c) ==
    /\ c.at = "buffer"
    /\ losses < MaxLosses
    /\ losses' = losses + 1
    /\ Replace(c, {[c EXCEPT !.at = "main"], [c EXCEPT !.no = @ + 1]})
    /\ accepted' = accepted \cup {c.ev}
    /\ UNCHANGED <<net, adrift, stored, logged, reply, expired, attempts>>

\* Two seconds without a broker: the event goes to the log.  A client that
\* was still connecting forgets it, one that had lost its connection keeps it.
EmitTimesOut(c) ==
    /\ c.at = "buffer" /\ ~c.sync
    /\ \/ UNCHANGED copies
       \/ c.no = 0 /\ Replace(c, {})
    /\ logged' = logged \cup {c.ev}
    /\ UNCHANGED <<net, adrift, stored, reply, accepted, expired, attempts,
                   losses>>

\* Five seconds without an answer; the message stays wherever it is.
SyncTimesOut(e) ==
    /\ reply[e] = "waiting"
    /\ reply' = [reply EXCEPT ![e] = "no"]
    /\ UNCHANGED <<net, copies, adrift, stored, logged, accepted, expired,
                   attempts, losses>>

--------------------------------------------------------------------------
(* The broker *)

\* What becomes of a message its queue gives up: a queue with a dead letter
\* exchange passes it on, audit_dlq_queue has none.
DeadLettered(c, queue) ==
    IF queue = "main" /\ net.dlx
    THEN {[c EXCEPT !.at = "dead", !.from = "main",
                    !.deaths = IF c.raw THEN 0 ELSE 1]}
    ELSE {}

\* x-message-ttl: a day in the main queue.
MessageExpires(c) ==
    /\ c.at = "main"
    /\ Replace(c, DeadLettered(c, "main"))
    /\ expired' = IF net.dlx THEN expired ELSE expired \cup {c.ev}
    /\ UNCHANGED <<net, adrift, stored, logged, reply, accepted, attempts,
                   losses>>

\* The delay is over: the retry queue's own dead letter exchange leads back.
RetryDelayEnds(c) ==
    /\ c.at = "retry"
    /\ Replace(c, {[c EXCEPT !.at = "main"]})
    /\ UNCHANGED <<net, adrift, stored, logged, reply, accepted, expired,
                   attempts, losses>>

\* Which handler of the process gets the message.
Handler(c) ==
    CASE net.byQueue /\ c.at = "dead" -> "dead letter"
      [] ~net.byQueue /\ c.raw -> "none"
      [] OTHER -> IF c.sync THEN "sync" ELSE "event"

\* No handler: the transport rejects the message without requeueing it.
Unrouted(c) ==
    /\ c.at \in {"main", "dead"}
    /\ Handler(c) = "none"
    /\ Replace(c, DeadLettered(c, c.at))
    /\ UNCHANGED <<net, adrift, stored, logged, reply, accepted, expired,
                   attempts, losses>>

--------------------------------------------------------------------------
(* The consumers *)

\* handleAuditEvent and handleSyncAuditEvent up to their await.
Deliver(c) ==
    /\ c.at \in {"main", "dead"}
    /\ Handler(c) \in {"event", "sync"}
    /\ Replace(c, {[c EXCEPT !.at = "storing", !.from = c.at]})
    /\ attempts' = [attempts EXCEPT ![Publication(c)] = @ + 1]
    /\ UNCHANGED <<net, adrift, stored, logged, reply, accepted, expired,
                   losses>>

\* auditLogModel.create; auditId is unique, so a second document of the same
\* event is refused.
Create(c) ==
    /\ c.at = "storing"
    /\ c.ev \notin stored
    /\ stored' = stored \cup {c.ev}
    /\ Replace(c, {[c EXCEPT !.at = "stored"]})
    /\ UNCHANGED <<net, adrift, logged, reply, accepted, expired, attempts,
                   losses>>

Answer(c, ok) ==
    reply' = IF c.sync /\ reply[c.ev] = "waiting"
             THEN [reply EXCEPT ![c.ev] = ok] ELSE reply

Ack(c) ==
    /\ c.at = "stored"
    /\ Replace(c, {})
    /\ Answer(c, "yes")
    /\ UNCHANGED <<net, adrift, stored, logged, accepted, expired, attempts,
                   losses>>

\* The header of a republished event, else the broker's count of its deaths.
GetRetryCount(c) == IF c.raw THEN c.header ELSE c.deaths

\* The catch blocks: the database refused, or wrote and failed to say so.
\* Ack and publish are two frames on the connection: the second may be lost.
HandlerFails(c) ==
    /\ c.at \in {"storing", "stored"}
    /\ logged' = logged \cup {c.ev}
    /\ Replace(c, IF ~c.sync /\ GetRetryCount(c) < RetryAttempts
                  THEN {[c EXCEPT !.at = "acked"]}
                  ELSE DeadLettered(c, c.from))
    /\ Answer(c, "no")
    /\ UNCHANGED <<net, adrift, stored, accepted, expired, attempts, losses>>

\* Mutant: the header starts again at one.
ResetSendToRetryQueue(c) ==
    /\ c.at = "acked"
    /\ Replace(c, IF net.retryQueue
                  THEN {[c EXCEPT !.at = "retry", !.raw = TRUE, !.deaths = 0,
                                  !.from = "main", !.header = 1]}
                  ELSE {})
    /\ UNCHANGED <<net, adrift, stored, logged, reply, accepted, expired,
                   attempts, losses>>

\* sendToQueue: the bare payload, one more in the header.  A message for a
\* queue that does not exist is dropped by the broker.
SendToRetryQueue(c) ==
    /\ c.at = "acked"
    /\ Replace(c, IF net.retryQueue
                  THEN {[c EXCEPT !.at = "retry", !.raw = TRUE, !.deaths = 0,
                                  !.from = "main",
                                  !.header = GetRetryCount(c) + 1]}
                  ELSE {})
    /\ UNCHANGED <<net, adrift, stored, logged, reply, accepted, expired,
                   attempts, losses>>

\* Mutant: logged, but never acked.
UnackedHandleDeadLetter(c) ==
    /\ c.at = "dead"
    /\ Handler(c) = "dead letter"
    /\ logged' = logged \cup {c.ev}
    /\ UNCHANGED <<net, copies, adrift, stored, reply, accepted, expired,
                   attempts, losses>>

\* AuditDLQConsumer: log and ack.
HandleDeadLetter(c) ==
    /\ c.at = "dead"
    /\ Handler(c) = "dead letter"
    /\ logged' = logged \cup {c.ev}
    /\ Replace(c, {})
    /\ UNCHANGED <<net, adrift, stored, reply, accepted, expired, attempts,
                   losses>>

\* What a handler of one of these queues has and the broker waits for, and
\* what was acked when the frames had not all left yet.
Unacked(Q) == {c \in copies : c.at \in {"storing", "stored"} /\ c.from \in Q}
Leaving(Q) == {c \in copies : c.at = "acked" /\ c.from \in Q}

\* The broker takes back what was not acked, to deliver it again; an ack that
\* was leaving arrived or did not, the retry behind it did not.
TakenBack(Q) ==
    \E kept \in SUBSET Leaving(Q) :
        copies' = (copies \ (Unacked(Q) \cup Leaving(Q)))
                  \cup {[c EXCEPT !.at = c.from] : c \in Unacked(Q) \cup kept}

\* The connection of one of the two consumers is lost, the process lives on.
ConnectionLost(queue) ==
    /\ losses < MaxLosses
    /\ losses' = losses + 1
    /\ TakenBack({queue})
    /\ adrift' = adrift \cup {[msg |-> c, loss |-> losses + 1] :
                                c \in Unacked({queue})}
    /\ UNCHANGED <<net, stored, logged, reply, accepted, expired, attempts>>

\* A handler whose connection is gone still writes its document.
CreateAdrift(h) ==
    /\ h.msg.at = "storing"
    /\ h.msg.ev \notin stored
    /\ stored' = stored \cup {h.msg.ev}
    /\ adrift' = (adrift \ {h}) \cup {[h EXCEPT !.msg.at = "stored"]}
    /\ UNCHANGED <<net, copies, logged, reply, accepted, expired, attempts,
                   losses>>

\* Its ack throws on the closed channel, and so do the ack or nack of the
\* catch block, before anything is sent back: what is left is the log line.
\* One that had acked before the loss was noticed has nothing more to say.
EndAdrift(h) ==
    /\ adrift' = adrift \ {h}
    /\ \/ logged' = logged \cup {h.msg.ev} /\ Answer(h.msg, "no")
       \/ h.msg.at = "stored" /\ UNCHANGED logged /\ Answer(h.msg, "yes")
    /\ UNCHANGED <<net, copies, stored, accepted, expired, attempts, losses>>

\* What dies with the process: its handlers, and the callers that wait.
ProcessDies ==
    /\ losses < MaxLosses
    /\ losses' = losses + 1
    /\ adrift' = {}
    /\ reply' = [e \in Events |-> IF reply[e] = "waiting" THEN "no"
                                  ELSE reply[e]]
    /\ UNCHANGED <<net, stored, logged, accepted, expired, attempts>>

\* Mutant: consumers with noAck, nothing is redelivered.
NoAckCrash ==
    /\ ProcessDies
    /\ copies' = {c \in copies : c.at \in {"main", "retry", "dead"}}

\* The process dies: the client's buffer is gone, unacked messages go back.
Crash ==
    /\ ProcessDies
    /\ \E kept \in SUBSET Leaving({"main", "dead"}) :
          copies' = {c \in copies : c.at \in {"main", "retry", "dead"}}
                    \cup {[c EXCEPT !.at = c.from] :
                           c \in Unacked({"main", "dead"}) \cup kept}

--------------------------------------------------------------------------

\* What broker and consumers owe a message once it is published.
Handle(c) ==
    \/ RetryDelayEnds(c)
    \/ Unrouted(c)
    \/ Deliver(c)
    \/ Create(c)
    \/ Ack(c)
    \/ HandlerFails(c)
    \/ SendToRetryQueue(c)
    \/ HandleDeadLetter(c)

Next ==
    \/ \E e \in Events : Log(e) \/ LogSync(e) \/ SyncTimesOut(e)
    \/ \E c \in copies : \/ Publish(c)
                         \/ PublishUnconfirmed(c)
                         \/ EmitTimesOut(c)
                         \/ MessageExpires(c)
                         \/ Handle(c)
    \/ \E queue \in {"main", "dead"} : ConnectionLost(queue)
    \/ \E h \in adrift : CreateAdrift(h) \/ EndAdrift(h)
    \/ Crash

Spec == Init /\ [][Next]_vars

\* The broker delivers, a handler's await settles.
HandleEvent(e) == \E c \in copies : c.ev = e /\ Handle(c)
FairSpec == Spec /\ \A e \in Events : WF_vars(HandleEvent(e))

--------------------------------------------------------------------------
(* Properties *)

InFlight(e) == \E c \in copies : c.ev = e /\ c.at # "buffer"

\* Nothing vanishes silently, whatever the broker's set-up, the crashes, the
\* lost connections and the database do: an event the broker took is stored,
\* still under way, in the error log with its payload, or was dropped by the
\* queue's own TTL for want of a dead letter exchange.  And a caller told
\* that its critical event is safe finds it stored.
Accounted ==
    /\ \A e \in accepted : e \in stored \cup logged \cup expired \/ InFlight(e)
    /\ \A e \in Events : reply[e] = "yes" => e \in stored

\* The ladder has as many rungs as configured: each time the client published
\* an event, it is tried once and RetryAttempts times more, plus once for each
\* crash or lost connection that put it back.
AttemptsBounded ==
    \A p \in Publications : attempts[p] <= RetryAttempts + 1 + losses

\* No message circles between the queues for ever: every event the broker
\* takes leaves it, even if the database never comes back.
Settles == \A e \in Events : [](InFlight(e) => <>~InFlight(e))
============================================================================
