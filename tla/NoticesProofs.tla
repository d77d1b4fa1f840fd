---------------------------- MODULE NoticesProofs ----------------------------
(***************************************************************************)
(* Proofs about Notices, for any number of users, calls, jobs, e-mails and *)
(* overlapping runs of the cron, and any number of failures and restarts.  *)
(***************************************************************************)
EXTENDS Notices, FiniteSetTheorems, TLAPS

--------------------------------------------------------------------------
(* Notifications *)

\* The calls that own the row of their key: they have inserted it and write,
\* or have written, the receivers.
Owns(c) == \/ call[c].at \in {"receivers", "landed", "emails", "clear"}
           \/ \E u \in Users : receivers[c][u] # "none"

Written == {"landed", "emails", "clear", "done"}

\* What is known of a call at its await.
CallOK(c) ==
    /\ call[c].at = "idle" <=> call[c].key = NoKey
    /\ call[c].at \in {"idle", "preferences", "row"} =>
         \A u \in Users : receivers[c][u] = "none"
    /\ call[c].at \in Underway \ {"preferences"} => call[c].to # {}
    /\ call[c].at \in Written => Complete(c)
    /\ Owns(c) => call[c].key \in rows

\* One owner a key, as the unique index has it.
OneOwnerEach == \A c, d \in Calls : Owns(c) /\ Owns(d) /\ call[c].key = call[d].key
                                    => c = d

NInv == /\ NotifTypeOK
        /\ \A c \in Calls : CallOK(c)
        /\ OneOwnerEach /\ OrphansAreReported /\ OnlineIsConnected

LEMMA NotifInitNInv == NotifInit => NInv
  BY KeysAssumption
     DEF NotifInit, NInv, NotifTypeOK, Call, Read, NoCall, NoRead, CallOK,
        Owns, OneOwnerEach,
         OrphansAreReported, OnlineIsConnected, Underway, Written, Complete

\* A call goes from one await to the next.
Advances(c, at) ==
    /\ call' \in [Calls -> Call]
    /\ call'[c].at = at /\ call'[c].key = call[c].key
    /\ call'[c].to = call[c].to
    /\ \A d \in Calls \ {c} : call'[d] = call[d]

LEMMA AdvanceAdvances ==
    ASSUME NotifTypeOK, NEW c \in Calls, NEW at \in Underway \cup Ended,
           Advance(c, at)
    PROVE  Advances(c, at)
<1>1. call \in [Calls -> Call] /\ call' = [call EXCEPT ![c].at = at]
  BY DEF NotifTypeOK, Advance
<1>2. [call[c] EXCEPT !.at = at] \in Call
  BY <1>1 DEF Call
<1>3. call' \in [Calls -> Call]
  BY <1>1, <1>2
<1>4. /\ call'[c].at = at /\ call'[c].key = call[c].key
      /\ call'[c].to = call[c].to
  BY <1>1 DEF Call
<1>5. \A d \in Calls \ {c} : call'[d] = call[d]
  BY <1>1
<1> QED
  BY <1>3, <1>4, <1>5 DEF Advances

\* Whatever else happens, the row of a key keeps its witness.
Onward(c, at) ==
    \/ call[c].at \in {"landed", "emails", "clear"} /\ at \in Written
    \/ call[c].at \in {"preferences", "row", "receivers", "landed"} /\ at = "failed"

LEMMA WitnessesStay ==
    ASSUME NInv, NEW c \in Calls, NEW at, Advances(c, at), Onward(c, at),
           at # "landed", rows' = rows, receivers' = receivers
    PROVE  /\ \A d \in Calls : CallOK(d)'
           /\ OneOwnerEach' /\ OrphansAreReported'
<1>1. ASSUME NEW d \in Calls PROVE CallOK(d)'
  BY <1>1 DEF NInv, CallOK, Advances, Owns, Complete, Underway, Written, Onward
<1>2. \A d \in Calls : (Owns(d)' => Owns(d)) /\ call'[d].key = call[d].key
  BY DEF Advances, Owns, Onward, Written
<1>3. OneOwnerEach'
  BY <1>2 DEF NInv, OneOwnerEach
<1>4. OrphansAreReported'
  BY <1>2 DEF NInv, CallOK, Advances, OrphansAreReported, Complete, Underway,
              Written, Onward
<1> QED
  BY <1>1, <1>3, <1>4

LEMMA EmitKeeps ==
    ASSUME NInv, NEW c \in Calls, NEW k \in Keys, NEW to \in SUBSET Users,
           Emit(c, k, to)
    PROVE  NInv'
<1>1. call[c].at = "idle" /\ call[c].key = NoKey /\ call \in [Calls -> Call]
  BY DEF Emit, NInv, CallOK, NotifTypeOK
<1> DEFINE new == [at |-> "preferences", key |-> k, to |-> to]
<1>2. new \in Call
  BY DEF Call, Underway
<1>3. call' = [call EXCEPT ![c] = new]
  BY DEF Emit
<1>4. new.at = "preferences" /\ new.key = k
  OBVIOUS
<1> HIDE DEF new
<1>5. /\ call' \in [Calls -> Call] /\ call'[c] = new
      /\ \A d \in Calls \ {c} : call'[d] = call[d]
  BY <1>1, <1>2, <1>3
<1>6. NotifTypeOK' /\ OnlineIsConnected'
  BY <1>5 DEF Emit, NInv, NotifTypeOK, OnlineIsConnected, cacheVars, sockVars
<1>7. UNCHANGED <<rows, receivers>>
  BY DEF Emit
<1>8. ~Owns(c) /\ ~Owns(c)' /\ \A d \in Calls \ {c} : Owns(d)' <=> Owns(d)
  BY <1>1, <1>4, <1>5, <1>7 DEF NInv, CallOK, Owns
<1>9. \A d \in Calls : CallOK(d)'
  BY <1>1, <1>4, <1>5, <1>7, <1>8, KeysAssumption
     DEF NInv, CallOK, Complete, Underway, Written
<1>10. OneOwnerEach'
  BY <1>5, <1>8 DEF NInv, OneOwnerEach
<1>11. OrphansAreReported'
  <2>1. \A d, e \in Calls, u, v \in Users :
          /\ call'[d].key = call'[e].key
          /\ receivers'[d][u] # "none" /\ receivers'[e][v] # "none"
          => d = e
    BY <1>10 DEF OneOwnerEach, Owns
  <2>2. ASSUME NEW r \in rows
        PROVE  \E d \in Calls :
          /\ call'[d].key = r
          /\ \/ call'[d].at \in {"receivers", "failed", "cut"}
             \/ call'[d].at \in Written /\ call'[d].to # {} /\ Complete(d)'
    <3>1. PICK d \in Calls :
            /\ call[d].key = r
            /\ \/ call[d].at \in {"receivers", "failed", "cut"}
               \/ call[d].at \in Written /\ call[d].to # {} /\ Complete(d)
      BY DEF NInv, OrphansAreReported, Written
    <3>2. d # c
      BY <1>1, <3>1 DEF Written
    <3> QED
      BY <1>5, <1>7, <3>1, <3>2 DEF Complete
  <2> QED
    BY <1>7, <2>1, <2>2 DEF OrphansAreReported, Written
<1> QED
  BY <1>6, <1>9, <1>10, <1>11 DEF NInv

LEMMA FilterRecipientsKeeps ==
    ASSUME NInv, NEW c \in Calls, FilterRecipients(c) PROVE NInv'
<1> DEFINE valid == {u \in call[c].to : wants[u]}
           at == IF valid = {} THEN "done" ELSE "row"
           new == [call[c] EXCEPT !.to = valid, !.at = at]
<1>1. call[c].at = "preferences" /\ call \in [Calls -> Call]
  BY DEF FilterRecipients, NInv, NotifTypeOK
<1>2. valid \subseteq Users /\ at \in {"done", "row"}
  BY <1>1 DEF Call
<1>3. call' = [call EXCEPT ![c] = new]
  BY <1>1 DEF FilterRecipients
<1>4. new.at = at /\ new.key = call[c].key /\ new.to = valid
  BY <1>1 DEF Call
<1>5. (at = "done" /\ valid = {}) \/ (at = "row" /\ valid # {})
  OBVIOUS
<1> HIDE DEF valid, at
<1>6. new \in Call
  BY <1>1, <1>2 DEF Call, Underway, Ended
<1> HIDE DEF new
<1>7. /\ call' \in [Calls -> Call] /\ call'[c] = new
      /\ \A d \in Calls \ {c} : call'[d] = call[d]
  BY <1>1, <1>3, <1>6
<1>8. NotifTypeOK' /\ OnlineIsConnected' /\ UNCHANGED <<rows, receivers>>
  BY <1>7 DEF FilterRecipients, NInv, NotifTypeOK, OnlineIsConnected,
     cacheVars, sockVars
<1>9. \A d \in Calls : Owns(d)' <=> Owns(d)
  BY <1>1, <1>4, <1>5, <1>7, <1>8 DEF Owns
<1>10. \A d \in Calls : CallOK(d)'
  BY <1>1, <1>4, <1>5, <1>7, <1>8, <1>9 DEF NInv, CallOK, Complete, Underway,
     Written
<1>11. OneOwnerEach'
  BY <1>4, <1>7, <1>9 DEF NInv, OneOwnerEach
<1>12. OrphansAreReported'
  BY <1>1, <1>4, <1>7, <1>8 DEF NInv, CallOK, OrphansAreReported, Complete
<1> QED
  BY <1>8, <1>10, <1>11, <1>12 DEF NInv

LEMMA CreateNotificationKeeps ==
    ASSUME NInv, NEW c \in Calls, CreateNotification(c) PROVE NInv'
<1> DEFINE k == call[c].key
<1>1. PICK at \in {"duplicate", "receivers"} :
        Advance(c, at) /\ (at = "duplicate" <=> k \in rows)
  BY DEF CreateNotification
<1>2. Advances(c, at)
  BY <1>1, AdvanceAdvances DEF NInv, Underway, Ended
<1>3. call[c].at = "row" /\ rows' = rows \cup {k} /\ receivers' = receivers
  BY DEF CreateNotification
<1>4. k \in Keys
  BY <1>3 DEF NInv, NotifTypeOK, Call, CallOK
<1>5. NotifTypeOK' /\ OnlineIsConnected'
  BY <1>2, <1>3, <1>4
     DEF CreateNotification, Advances, NInv, NotifTypeOK, OnlineIsConnected,
         cacheVars, sockVars
<1>6. ~Owns(c) /\ \A d \in Calls : Owns(d)' => Owns(d) \/ (d = c /\ at = "receivers")
  BY <1>2, <1>3 DEF Advances, Owns, NInv, CallOK
<1>7. \A d \in Calls : CallOK(d)'
  BY <1>1, <1>2, <1>3, <1>6 DEF NInv, CallOK, Advances, Complete, Underway,
     Written
<1>8. OneOwnerEach'
  BY <1>1, <1>2, <1>6 DEF NInv, OneOwnerEach, CallOK, Advances
<1>9. OrphansAreReported'
  BY <1>1, <1>2, <1>3 DEF NInv, CallOK, OrphansAreReported, Advances, Complete
<1> QED
  BY <1>5, <1>7, <1>8, <1>9 DEF NInv

LEMMA CreateReceiversKeeps ==
    ASSUME NInv, NEW c \in Calls, CreateReceivers(c) PROVE NInv'
<1>1. Advances(c, "landed")
  BY AdvanceAdvances DEF NInv, Underway, CreateReceivers
<1>2. call[c].at = "receivers" /\ Owns(c) /\ rows' = rows
  BY DEF CreateReceivers, Owns
<1>3. /\ receivers' \in [Calls -> [Users -> {"none", "unread", "read", "deleted"}]]
      /\ \A d \in Calls \ {c} : receivers'[d] = receivers[d]
      /\ \A u \in call[c].to : receivers'[c][u] = "unread"
  BY DEF CreateReceivers, NInv, NotifTypeOK, Call
<1>4. NotifTypeOK' /\ OnlineIsConnected'
  BY <1>1, <1>2, <1>3
     DEF CreateReceivers, Advances, NInv, NotifTypeOK, OnlineIsConnected,
         cacheVars, sockVars
<1>5. \A d \in Calls : Owns(d)' => Owns(d)
  BY <1>1, <1>2, <1>3 DEF Advances, Owns
<1>6. \A d \in Calls : CallOK(d)'
  BY <1>1, <1>2, <1>3, <1>5 DEF NInv, CallOK, Advances, Complete, Underway,
     Written
<1>7. OneOwnerEach'
  BY <1>1, <1>5 DEF NInv, OneOwnerEach, Advances
<1>8. OrphansAreReported'
  <2>1. \A d, e \in Calls, u, v \in Users :
          /\ call'[d].key = call'[e].key
          /\ receivers'[d][u] # "none" /\ receivers'[e][v] # "none"
          => d = e
    BY <1>7 DEF OneOwnerEach, Owns
  <2>2. \A k \in rows' : \E d \in Calls :
          /\ call'[d].key = k
          /\ \/ call'[d].at \in {"receivers", "failed", "cut"}
             \/ call'[d].at \in Written /\ call'[d].to # {} /\ Complete(d)'
    BY <1>1, <1>2, <1>3 DEF NInv, CallOK, OrphansAreReported, Advances,
       Complete, Underway, Written
  <2> QED
    BY <2>1, <2>2 DEF OrphansAreReported, Written
<1> QED
  BY <1>4, <1>6, <1>7, <1>8 DEF NInv

LEMMA BroadcastKeeps ==
    ASSUME NInv, NEW c \in Calls, Broadcast(c) PROVE NInv'
<1>1. Advances(c, "emails")
  BY AdvanceAdvances DEF NInv, Underway, Broadcast
<1>2. delivered' \subseteq Calls \X Users
  BY DEF Broadcast, NInv, NotifTypeOK, Call
<1>3. NotifTypeOK' /\ OnlineIsConnected'
  BY <1>1, <1>2
     DEF Broadcast, Advances, NInv, NotifTypeOK, OnlineIsConnected, cacheVars,
         sockVars
<1>9. Onward(c, "emails") /\ rows' = rows /\ receivers' = receivers
  BY DEF Broadcast, Onward, Written
<1> QED
  BY <1>1, <1>3, <1>9, WitnessesStay DEF NInv

LEMMA EmailsQueuedKeeps ==
    ASSUME NInv, NEW c \in Calls, EmailsQueued(c) PROVE NInv'
<1>1. Advances(c, "clear")
  BY AdvanceAdvances DEF NInv, Underway, EmailsQueued
<1>2. NotifTypeOK' /\ OnlineIsConnected'
  BY <1>1
     DEF EmailsQueued, Advances, NInv, NotifTypeOK, OnlineIsConnected,
        cacheVars,
         sockVars
<1>9. Onward(c, "clear") /\ rows' = rows /\ receivers' = receivers
  BY DEF EmailsQueued, Onward, Written
<1> QED
  BY <1>1, <1>2, <1>9, WitnessesStay DEF NInv

LEMMA DroppedCaches ==
    ASSUME NotifTypeOK, NEW us, DropCaches(us) PROVE cache' \in [Users -> SUBSET Nat]
  BY DEF NotifTypeOK, DropCaches

LEMMA InvalidateCachesKeeps ==
    ASSUME NInv, NEW c \in Calls, InvalidateCaches(c) PROVE NInv'
<1>1. Advances(c, "done")
  BY AdvanceAdvances DEF NInv, Ended, InvalidateCaches
<1>2. cache' \in [Users -> SUBSET Nat]
  BY DroppedCaches DEF InvalidateCaches, NInv
<1>3. NotifTypeOK' /\ OnlineIsConnected'
  BY <1>1, <1>2
     DEF InvalidateCaches, Advances, NInv, NotifTypeOK, OnlineIsConnected,
        sockVars
<1>9. Onward(c, "done") /\ rows' = rows /\ receivers' = receivers
  BY DEF InvalidateCaches, Onward, Written
<1> QED
  BY <1>1, <1>3, <1>9, WitnessesStay DEF NInv

LEMMA EmitFailsKeeps ==
    ASSUME NInv, NEW c \in Calls, EmitFails(c) PROVE NInv'
<1>1. Advances(c, "failed")
  BY AdvanceAdvances DEF NInv, Ended, EmitFails
<1>2. NotifTypeOK' /\ OnlineIsConnected'
  BY <1>1
     DEF EmitFails, Advances, NInv, NotifTypeOK, OnlineIsConnected, cacheVars,
         sockVars
<1>9. Onward(c, "failed") /\ rows' = rows /\ receivers' = receivers
  BY DEF EmitFails, Onward, Written
<1> QED
  BY <1>1, <1>2, <1>9, WitnessesStay DEF NInv

\* Steps of readers, of the cache and of connections.
LEMMA CallsAlone ==
    ASSUME NInv, NotifTypeOK', OnlineIsConnected', UNCHANGED <<rows, receivers, call>>
    PROVE  NInv'
  BY DEF NInv, CallOK, Owns, Complete, OneOwnerEach, OrphansAreReported

LEMMA ReadKeeps ==
    ASSUME NInv, NEW u \in Users, NEW r \in Reads,
           GetUnreadCount(r, u) \/ CountUnread(r) \/ StoreCount(r)
    PROVE  NInv'
<1>1. NotifTypeOK /\ Unread(reading[r].user) \in Nat
  <2>1. Cardinality({c \in Calls : receivers[c][reading[r].user] = "unread"})
        \in Nat
    BY CallsAssumption, FS_Subset, FS_CardinalityType
  <2> QED
    BY <2>1 DEF NInv, Unread
<1>2. CASE GetUnreadCount(r, u)
  BY <1>1, <1>2, CallsAlone
     DEF GetUnreadCount, NInv, NotifTypeOK, OnlineIsConnected, Read, emitVars,
         sockVars
<1>3. CASE CountUnread(r)
  <2>1. [reading[r] EXCEPT !.at = "store",
                           !.count = Unread(reading[r].user)] \in Read
    BY <1>1 DEF NotifTypeOK, Read
  <2>2. reading' \in [Reads -> Read]
    BY <1>1, <1>3, <2>1 DEF CountUnread, NotifTypeOK
  <2> QED
    BY <1>1, <1>3, <2>2, CallsAlone
       DEF CountUnread, NInv, NotifTypeOK, OnlineIsConnected, emitVars, sockVars
<1>4. CASE StoreCount(r)
  <2>1. NoRead \in Read /\ reading[r].count \in Nat
    BY <1>1, KeysAssumption DEF NoRead, Read, NotifTypeOK
  <2> QED
    BY <1>1, <1>4, <2>1, CallsAlone
       DEF StoreCount, NInv, NotifTypeOK, OnlineIsConnected, emitVars, sockVars
<1> QED
  BY <1>2, <1>3, <1>4

LEMMA CacheKeeps ==
    ASSUME NInv, NEW u \in Users,
           UpdatePreferences(u) \/ CacheExpires(u) \/ ClearAfterMark(u)
    PROVE  NInv'
<1>1. NotifTypeOK
  BY DEF NInv
<1>2. CASE UpdatePreferences(u)
  BY <1>1, <1>2, CallsAlone
     DEF UpdatePreferences, NInv, NotifTypeOK, OnlineIsConnected, emitVars,
         cacheVars, sockVars
<1>3. CASE CacheExpires(u)
  BY <1>1, <1>3, CallsAlone
     DEF CacheExpires, NInv, NotifTypeOK, OnlineIsConnected, emitVars, sockVars
<1>4. CASE ClearAfterMark(u)
  BY <1>1, <1>4, DroppedCaches, CallsAlone
     DEF ClearAfterMark, NInv, NotifTypeOK, OnlineIsConnected, emitVars,
        sockVars
<1> QED
  BY <1>2, <1>3, <1>4

LEMMA WriteMarkKeeps ==
    ASSUME NInv, NEW u \in Users, NEW cs \in SUBSET Calls,
           NEW to \in {"read", "deleted"}, WriteMark(u, cs, to)
    PROVE  NInv'
<1>1. /\ receivers' \in [Calls -> [Users -> {"none", "unread", "read", "deleted"}]]
      /\ \A c \in Calls, v \in Users : receivers'[c][v] = "none" <=> receivers[c][v] = "none"
  BY DEF WriteMark, NInv, NotifTypeOK
<1>2. UNCHANGED <<rows, call>>
  BY DEF WriteMark
<1>3. NotifTypeOK' /\ OnlineIsConnected'
  BY <1>1
     DEF WriteMark, NInv, NotifTypeOK, OnlineIsConnected, sockVars
<1>4. \A c \in Calls : (Complete(c)' <=> Complete(c)) /\ (Owns(c)' <=> Owns(c))
  BY <1>1, <1>2 DEF NInv, NotifTypeOK, Call, Complete, Owns
<1>5. \A c \in Calls : CallOK(c)'
  BY <1>1, <1>2, <1>4 DEF NInv, CallOK
<1>6. OneOwnerEach' /\ OrphansAreReported'
  BY <1>1, <1>2, <1>4 DEF NInv, OneOwnerEach, OrphansAreReported
<1> QED
  BY <1>3, <1>5, <1>6 DEF NInv

LEMMA ConnectionsKeep ==
    ASSUME NInv, NEW s \in Sockets,
           Connect(s) \/ Verified(s) \/ Refused(s) \/ Drops(s)
    PROVE  NInv'
<1>1. NotifTypeOK' /\ OnlineIsConnected'
  BY DEF Connect, Verified, Refused, Drops, Gone, NInv, NotifTypeOK,
         OnlineIsConnected, emitVars, cacheVars
<1>2. UNCHANGED <<rows, receivers, call>>
  BY DEF Connect, Verified, Refused, Drops, Gone, emitVars
<1> QED
  BY <1>1, <1>2, CallsAlone

LEMMA NotifRestartKeeps ==
    ASSUME NInv, NotifRestart PROVE NInv'
<1>1. \A c \in Calls : [call[c] EXCEPT !.at = "cut"] \in Call
  BY DEF NInv, NotifTypeOK, Call, Ended
<1>2. call' \in [Calls -> Call]
  BY <1>1 DEF NotifRestart, NInv, NotifTypeOK
<1>3. \A c \in Calls : /\ call'[c].key = call[c].key /\ call'[c].to = call[c].to
                       /\ call'[c].at = IF call[c].at \in Underway THEN "cut"
                                        ELSE call[c].at
  BY DEF NotifRestart, NInv, NotifTypeOK, Call
<1>4. NoRead \in Read
  BY KeysAssumption DEF NoRead, Read
<1>5. NotifTypeOK' /\ OnlineIsConnected' /\ UNCHANGED <<rows, receivers>>
  BY <1>2, <1>4 DEF NotifRestart, NInv, NotifTypeOK, OnlineIsConnected
<1>6. \A c \in Calls : Owns(c)' => Owns(c)
  BY <1>3, <1>5 DEF Owns, Underway
<1>7. \A c \in Calls : CallOK(c)'
  BY <1>3, <1>5, <1>6 DEF NInv, CallOK, Complete, Underway, Written
<1>8. OneOwnerEach' /\ OrphansAreReported'
  BY <1>3, <1>5, <1>6 DEF NInv, OneOwnerEach, OrphansAreReported, Complete,
     Underway
<1> QED
  BY <1>5, <1>7, <1>8 DEF NInv

LEMMA NotifOutsideKeeps ==
    ASSUME NInv, NotifOutside PROVE NInv'
  BY EmitFailsKeeps, CacheKeeps, ReadKeeps, WriteMarkKeeps, ConnectionsKeep
     DEF NotifOutside, MarkAsRead, DeleteNotification, MarkAllAsRead

LEMMA NotifInsideKeeps ==
    ASSUME NInv, NotifInside PROVE NInv'
  BY FilterRecipientsKeeps, CreateNotificationKeeps, CreateReceiversKeeps,
     BroadcastKeeps, InvalidateCachesKeeps, CacheKeeps, ReadKeeps,
     ConnectionsKeep, KeysAssumption
     DEF NotifInside, EmitStep
--------------------------------------------------------------------------
(* EmailQueue *)

\* A run that has read a row saw it with attempts left; once the mailer has
\* answered, the attempt it is about to write has been made.
PickedOK(p) ==
    /\ p.attempts < MaxAttempts /\ p.attempts <= tried[p.id]
    /\ p.at # "send" => p.attempts < tried[p.id]

MInv == /\ MailTypeOK /\ GivesUpLate
        /\ \A m \in Mails : /\ mail[m].attempts <= tried[m]
                            /\ mail[m].status = "PENDING" =>
                                 mail[m].attempts < MaxAttempts
        /\ \A r \in CronRuns : \A p \in batch[r] : PickedOK(p)

LEMMA MailInitMInv == MailInit => MInv
  BY MaxAttemptsAssumption
     DEF MailInit, MInv, MailTypeOK, GivesUpLate, NoMail, PickedOK

LEMMA QueueEmailsKeeps ==
    ASSUME MInv, NEW ms, QueueEmails(ms) PROVE MInv'
  BY MaxAttemptsAssumption
     DEF QueueEmails, MInv, MailTypeOK, GivesUpLate, PickedOK

LEMMA ProcessEmailQueueKeeps ==
    ASSUME MInv, NEW r \in CronRuns, ProcessEmailQueue(r) PROVE MInv'
<1> DEFINE new == {[id |-> m, attempts |-> mail[m].attempts, at |-> "send"] :
                   m \in Pending}
<1>1. new \subseteq Picked
  BY DEF MInv, MailTypeOK, Picked, Pending
<1>2. \A p \in new : PickedOK(p)
  BY DEF MInv, MailTypeOK, PickedOK, Pending
<1>3. batch' = [batch EXCEPT ![r] = new] /\ UNCHANGED <<mail, tried>>
  BY DEF ProcessEmailQueue
<1> HIDE DEF new
<1>4. MailTypeOK'
  BY <1>1, <1>3 DEF MInv, MailTypeOK
<1>5. \A s \in CronRuns : \A p \in batch'[s] : PickedOK(p)
  BY <1>2, <1>3 DEF MInv, MailTypeOK
<1> QED
  BY <1>3, <1>4, <1>5 DEF MInv, GivesUpLate, PickedOK

\* A run goes on to its next e-mail, or has the answer to this one.
LEMMA MoveMoves ==
    ASSUME MailTypeOK, NEW r \in CronRuns, NEW p \in batch[r],
           NEW new \in SUBSET Picked, Move(r, p, new)
    PROVE  /\ batch' \in [CronRuns -> SUBSET Picked]
           /\ \A s \in CronRuns : batch'[s] \subseteq batch[s] \cup new
  BY DEF Move, MailTypeOK

LEMMA MailerAnswersKeeps ==
    ASSUME MInv, NEW r \in CronRuns, NEW p \in batch[r], MailerAnswers(r, p)
    PROVE  MInv'
<1>1. p \in Picked /\ PickedOK(p) /\ MailTypeOK
  BY DEF MInv, MailTypeOK
<1>2. PICK ok \in {"sent", "refused"} : Move(r, p, {[p EXCEPT !.at = ok]})
  BY DEF MailerAnswers
<1> DEFINE q == [p EXCEPT !.at = ok]
<1>3. /\ q \in Picked /\ q.at = ok /\ q.id = p.id /\ q.attempts = p.attempts
      /\ p.id \in Mails /\ p.attempts \in 0..MaxAttempts
  BY <1>1, <1>2 DEF Picked
<1>4. Move(r, p, {q})
  BY <1>2
<1> HIDE DEF q
<1>5. /\ batch' \in [CronRuns -> SUBSET Picked]
      /\ \A s \in CronRuns : batch'[s] \subseteq batch[s] \cup {q}
  BY <1>1, <1>3, <1>4, MoveMoves
<1>6. /\ tried' \in [Mails -> 0..MaxAttempts]
      /\ \A m \in Mails : tried'[m] >= tried[m]
      /\ tried'[p.id] = IF tried[p.id] < MaxAttempts THEN tried[p.id] + 1
                        ELSE tried[p.id]
  BY <1>1, <1>3, MaxAttemptsAssumption DEF MailerAnswers, MailTypeOK
<1>7. PickedOK(q)'
  BY <1>1, <1>3, <1>6, MaxAttemptsAssumption DEF PickedOK, MailTypeOK
<1>8. ASSUME NEW s \in CronRuns, NEW x \in batch[s] PROVE PickedOK(x)'
  <2>1. x \in Picked /\ PickedOK(x)
    BY DEF MInv, MailTypeOK
  <2> QED
    BY <1>1, <1>6, <2>1, MaxAttemptsAssumption DEF PickedOK, Picked, MailTypeOK
<1>9. mail' = mail
  BY DEF MailerAnswers
<1>10. ASSUME NEW m \in Mails
       PROVE  /\ mail[m].attempts <= tried'[m]
              /\ mail[m].status = "FAILED" => tried'[m] = MaxAttempts
  <2>1. /\ mail[m].attempts \in Nat /\ mail[m].attempts <= tried[m]
        /\ mail[m].status = "FAILED" => tried[m] = MaxAttempts
    BY DEF MInv, MailTypeOK, GivesUpLate
  <2>2. tried[m] \in Nat /\ tried'[m] \in Nat /\ tried'[m] <= MaxAttempts
        /\ tried'[m] >= tried[m]
    BY <1>1, <1>6, MaxAttemptsAssumption DEF MailTypeOK
  <2> QED
    BY <2>1, <2>2, MaxAttemptsAssumption
<1> QED
  BY <1>1, <1>5, <1>6, <1>7, <1>8, <1>9, <1>10
     DEF MInv, MailTypeOK, GivesUpLate

\* The row gets the status and the count of a run whose attempt was made.
LEMMA RowWritten ==
    ASSUME MInv, NEW r \in CronRuns, NEW p \in batch[r], p.at # "send",
           NEW status \in {"SENT", "FAILED", "PENDING"},
           SetStatus(p, status), Move(r, p, {}), UNCHANGED tried,
           status # "SENT" => (status = "FAILED" <=> p.attempts + 1 >= MaxAttempts)
    PROVE  MInv'
<1>1. p \in Picked /\ PickedOK(p) /\ MailTypeOK
  BY DEF MInv, MailTypeOK
<1>2. /\ batch' \in [CronRuns -> SUBSET Picked]
      /\ \A s \in CronRuns : batch'[s] \subseteq batch[s]
  BY <1>1, MoveMoves
<1>3. /\ p.id \in Mails /\ p.attempts \in Nat
      /\ p.attempts + 1 <= tried[p.id] /\ tried[p.id] \in 0..MaxAttempts
  BY <1>1, MaxAttemptsAssumption DEF PickedOK, Picked, MailTypeOK
<1> DEFINE new == [status |-> status, attempts |-> p.attempts + 1]
<1>4. /\ mail' = [mail EXCEPT ![p.id] = new]
      /\ new.status = status /\ new.attempts = p.attempts + 1
      /\ new \in [status : {"none", "PENDING", "SENT", "FAILED"},
                  attempts : 0..MaxAttempts]
  BY <1>3, MaxAttemptsAssumption DEF SetStatus
<1> HIDE DEF new
<1>5. MailTypeOK'
  BY <1>1, <1>2, <1>3, <1>4 DEF MailTypeOK
<1>6. \A m \in Mails : mail'[m] = IF m = p.id THEN new ELSE mail[m]
  BY <1>1, <1>4 DEF MailTypeOK
<1>7. GivesUpLate'
  BY <1>3, <1>4, <1>6, MaxAttemptsAssumption DEF MInv, GivesUpLate
<1>8. \A m \in Mails : /\ mail'[m].attempts <= tried[m]
                       /\ mail'[m].status = "PENDING" =>
                            mail'[m].attempts < MaxAttempts
  BY <1>3, <1>4, <1>6, MaxAttemptsAssumption DEF MInv
<1> QED
  BY <1>2, <1>5, <1>7, <1>8 DEF MInv, PickedOK

LEMMA SendEmailKeeps ==
    ASSUME MInv, NEW r \in CronRuns, SendEmail(r) PROVE MInv'
<1>1. PICK p \in batch[r] : \/ MailerAnswers(r, p) \/ MarkSent(r, p)
                            \/ MarkSentFails(r, p) \/ MarkRefused(r, p)
  BY DEF SendEmail
<1>2. p \in Picked /\ PickedOK(p) /\ MailTypeOK
  BY DEF MInv, MailTypeOK
<1>3. CASE MailerAnswers(r, p)
  BY <1>3, MailerAnswersKeeps
<1>4. CASE MarkSent(r, p)
  BY <1>4, RowWritten DEF MarkSent
<1>5. CASE MarkSentFails(r, p)
  <2> DEFINE q == [p EXCEPT !.at = "refused"]
  <2>1. q \in Picked /\ PickedOK(q) /\ Move(r, p, {q})
    BY <1>2, <1>5 DEF Picked, PickedOK, MarkSentFails
  <2> HIDE DEF q
  <2>2. /\ batch' \in [CronRuns -> SUBSET Picked]
        /\ \A s \in CronRuns : batch'[s] \subseteq batch[s] \cup {q}
    BY <1>2, <2>1, MoveMoves
  <2> QED
    BY <1>5, <2>1, <2>2
       DEF MarkSentFails, MInv, MailTypeOK, GivesUpLate, PickedOK
<1>6. CASE MarkRefused(r, p)
  <2> DEFINE status == IF p.attempts + 1 >= MaxAttempts THEN "FAILED"
                       ELSE "PENDING"
  <2>1. /\ p.at = "refused" /\ SetStatus(p, status) /\ Move(r, p, {})
        /\ UNCHANGED tried
    BY <1>6 DEF MarkRefused
  <2>2. /\ status \in {"SENT", "FAILED", "PENDING"}
        /\ status = "FAILED" <=> p.attempts + 1 >= MaxAttempts
    OBVIOUS
  <2> HIDE DEF status
  <2> QED
    BY <2>1, <2>2, RowWritten
<1> QED
  BY <1>1, <1>3, <1>4, <1>5, <1>6

\* The row is read again by the next run.
LEMMA MarkRefusedFailsKeeps ==
    ASSUME MInv, NEW r \in CronRuns, NEW p \in batch[r], MarkRefusedFails(r, p)
    PROVE  MInv'
<1>1. /\ batch' \in [CronRuns -> SUBSET Picked]
      /\ \A s \in CronRuns : batch'[s] \subseteq batch[s]
  BY MoveMoves DEF MInv, MarkRefusedFails
<1> QED
  BY <1>1 DEF MarkRefusedFails, MInv, MailTypeOK, GivesUpLate, PickedOK

LEMMA MailRestartKeeps == ASSUME MInv, MailRestart PROVE MInv'
  BY DEF MailRestart, MInv, MailTypeOK, GivesUpLate, PickedOK

LEMMA MailKeeps ==
    ASSUME MInv, MailOutside \/ MailInside PROVE MInv'
  BY ProcessEmailQueueKeeps, MarkRefusedFailsKeeps, SendEmailKeeps
     DEF MailOutside, MailInside

--------------------------------------------------------------------------
(* FeatureAccess *)

\* What the awaits of a request say about it: withdrawals and removals delete,
\* the others write, decisions read no second time and they alone are announced; a
\* request for access is about to write only if the first read gave the user
\* no access by a decision.  While it is under way the user gets none, or the
\* request is overtaken; no more does a user whose withdrawal is under way.
JobOK(j) ==
    LET row == access[job[j].user]
    IN  /\ job[j].at = "delete" => job[j].op \in {"withdraw", "remove"}
        /\ job[j].at \in {"save", "write"} => job[j].op \notin {"withdraw", "remove"}
        /\ job[j].at = "row" => job[j].op \notin Decisions
        /\ job[j].at = "notify" => job[j].op \in Decisions
        /\ job[j].op = "request" =>
             /\ job[j].at = "row" => Available(job[j].flag)
             /\ job[j].at \in {"save", "write"} => ~Grants(job[j].first)
             /\ job[j].at \in {"row", "save", "write"} /\ Grants(row) =>
                  Grants(job[j].first) \/ j \in overtaken
        /\ job[j].op = "withdraw" /\ job[j].at = "delete" /\ Grants(row) =>
             j \in overtaken

FInv == AccessTypeOK /\ \A j \in Jobs : JobOK(j)

LEMMA NoRowIsRow == NoRow \in Row
  BY DEF NoRow, Row, Ids

LEMMA AccessInitFInv == ASSUME AccessInit PROVE FInv
<1>1. access \in [People -> Row]
  <2>1. [id |-> First, status |-> "PENDING", enabled |-> FALSE] \in Row
    BY DEF Row, Ids
  <2> QED
    BY <2>1, NoRowIsRow DEF AccessInit
<1>2. flag \in Flag
  BY DEF AccessInit, Flag
<1> DEFINE new == [op |-> "request", user |-> CHOOSE u \in People : TRUE,
                   at |-> "idle", flag |-> flag, row |-> NoRow,
                   first |-> NoRow, base |-> NoRow, time |-> 0]
<1>3. new \in Job /\ new.at = "idle"
  BY <1>2, NoRowIsRow, FirstAssumption DEF Job, Ops, Instants
<1>4. job = [j \in Jobs |-> new]
  BY DEF AccessInit
<1> HIDE DEF new
<1>5. now \in Instants /\ overtaken \subseteq Jobs
  BY FirstAssumption DEF AccessInit, Instants
<1> QED
  BY <1>1, <1>2, <1>3, <1>4, <1>5 DEF FInv, AccessTypeOK, JobOK

\* One request takes a step, and the others stay.
JobMoves(j) ==
    /\ job[j].at # "done"
    /\ job' \in [Jobs -> Job] /\ \A i \in Jobs \ {j} : job'[i] = job[i]
    /\ job'[j].op = job[j].op /\ job'[j].flag = job[j].flag
    /\ job'[j].first = job[j].first /\ job'[j].user = job[j].user

\* Whoever is given access overtakes the requests under way.
RowsGoOn ==
    /\ flag' \in Flag /\ access' \in [People -> Row] /\ now' \in Instants
    /\ overtaken \subseteq overtaken' /\ overtaken' \subseteq Jobs
    /\ \A u \in People : \A i \in Checked(u) :
         Grants(access'[u]) => Grants(access[u]) \/ i \in overtaken'

LEMMA RowsStay == ASSUME FInv, UNCHANGED <<rowVars, now>> PROVE RowsGoOn
  BY DEF FInv, AccessTypeOK, RowsGoOn, rowVars

\* A request that stays where it is, while the rows go on.
LEMMA OtherJobsKeep ==
    ASSUME FInv, NEW i \in Jobs, job'[i] = job[i], RowsGoOn PROVE JobOK(i)'
<1> DEFINE u == job[i].user
           before == access[u]
           after == access'[u]
<1>1. u \in People /\ JobOK(i)
  BY DEF FInv, AccessTypeOK, Job
<1>2. i \in Checked(u) /\ Grants(after) => Grants(before) \/ i \in overtaken'
  BY <1>1 DEF RowsGoOn
<1>3. overtaken \subseteq overtaken'
  BY DEF RowsGoOn
<1>4. job'[i].user = u
  OBVIOUS
<1>5. i \in Checked(u) <=>
        \/ job[i].op = "request" /\ job[i].at \in {"row", "save", "write"}
        \/ job[i].op = "withdraw" /\ job[i].at = "delete"
  BY DEF Checked
<1> QED
  BY <1>1, <1>2, <1>3, <1>5 DEF JobOK, Grants, Decided

LEMMA JobMovesKeeps ==
    ASSUME FInv, NEW j \in Jobs, JobMoves(j), JobOK(j)', RowsGoOn
    PROVE  FInv'
<1>1. \A i \in Jobs : JobOK(i)'
  BY OtherJobsKeep DEF JobMoves
<1> QED
  BY <1>1 DEF FInv, AccessTypeOK, JobMoves, RowsGoOn

\* Where a request has nothing left to check, nothing is to be shown.
LEMMA EndedOK ==
    ASSUME NEW j \in Jobs, job'[j].at \in {"done", "failed", "refused"}
    PROVE  JobOK(j)'
  BY DEF JobOK

LEMMA GoMoves ==
    ASSUME FInv, NEW j \in Jobs, NEW at \in {"notify", "done", "failed"},
           Go(j, at), job[j].at # "done"
    PROVE  /\ JobMoves(j) /\ job'[j].at = at
           /\ job'[j].row = job[j].row /\ job'[j].time = job[j].time
<1>1. job \in [Jobs -> Job]
  BY DEF FInv, AccessTypeOK
<1>2. [job[j] EXCEPT !.at = at] \in Job
  BY <1>1 DEF Job, Waits
<1>3. job' = [job EXCEPT ![j].at = at]
  BY DEF Go
<1>4. job' \in [Jobs -> Job]
  BY <1>1, <1>2, <1>3
<1> QED
  BY <1>1, <1>3, <1>4 DEF JobMoves, Job

LEMMA StartsKeeps ==
    ASSUME FInv, NEW j \in Jobs, NEW op \in Ops, NEW u \in People,
           Starts(j, op, u)
    PROVE  /\ FInv' /\ job[j].at # "done" /\ job'[j].at # "done"
           /\ \A i \in Jobs \ {j} : job'[i] = job[i]
<1>1. /\ job \in [Jobs -> Job] /\ access[u] \in Row /\ flag \in Flag
      /\ job[j].at = "idle"
  BY DEF FInv, AccessTypeOK, Starts
<1>2. PICK at \in {"row", "save", "refused"}, time \in Instants :
        /\ job' = [job EXCEPT ![j] =
                     [op |-> op, user |-> u, flag |-> flag, row |-> access[u],
                      first |-> access[u], base |-> NoRow, time |-> time,
                      at |-> at]]
        /\ at = "save" => op \in Decisions
        /\ at = "row" => op \notin Decisions
        /\ at = "row" /\ op = "request" => Available(flag)
  <2>1. now \in Instants /\ 0 \in Instants
    BY FirstAssumption DEF FInv, AccessTypeOK, Instants
  <2>2. op = "request" => op \notin Decisions
    BY DEF Decisions
  <2> QED
    BY <2>1, <2>2 DEF Starts
<1> DEFINE new == [op |-> op, user |-> u, flag |-> flag, row |-> access[u],
                   first |-> access[u], base |-> NoRow, time |-> time, at |-> at]
<1>3. /\ new \in Job /\ new.at = at /\ new.op = op /\ new.first = access[u]
      /\ new.flag = flag /\ new.user = u
  BY <1>1, <1>2, NoRowIsRow DEF Job, Waits
<1>4. job' = [job EXCEPT ![j] = new]
  BY <1>2
<1> HIDE DEF new
<1>5. /\ job' \in [Jobs -> Job] /\ job'[j] = new
      /\ \A i \in Jobs \ {j} : job'[i] = job[i]
  BY <1>1, <1>3, <1>4
<1>6. UNCHANGED <<rowVars, now>>
  BY DEF Starts
<1>7. JobOK(j)'
  BY <1>2, <1>3, <1>5, <1>6 DEF JobOK, Decisions, rowVars
<1>8. \A i \in Jobs \ {j} : JobOK(i)'
  BY <1>5, <1>6, RowsStay, OtherJobsKeep
<1> QED
  BY <1>1, <1>2, <1>3, <1>5, <1>6, <1>7, <1>8 DEF FInv, AccessTypeOK, rowVars

LEMMA FindUserAccessKeeps ==
    ASSUME FInv, NEW j \in Jobs, FindUserAccess(j)
    PROVE  /\ FInv' /\ job[j].at # "done" /\ job'[j].at # "done"
           /\ \A i \in Jobs \ {j} : job'[i] = job[i]
<1> DEFINE row == access[job[j].user]
<1>1. /\ job \in [Jobs -> Job] /\ job[j] \in Job /\ row \in Row
      /\ job[j].at = "row" /\ JobOK(j)
  BY DEF FInv, AccessTypeOK, Job, FindUserAccess
<1>2. PICK at \in {"delete", "save", "write", "refused"} :
        /\ job' = [job EXCEPT ![j].row = row, ![j].at = at]
        /\ at = "delete" => job[j].op \in {"withdraw", "remove"}
        /\ at = "delete" /\ job[j].op = "withdraw" => row.status = "PENDING"
        /\ at \in {"save", "write"} => job[j].op \notin {"withdraw", "remove"}
        /\ at \in {"save", "write"} /\ job[j].op = "request" =>
             ~HasFeatureAccess(job[j].flag, job[j].first)
  BY DEF FindUserAccess, AfterFinding
<1> DEFINE new == [job[j] EXCEPT !.row = row, !.at = at]
<1>3. /\ new \in Job /\ new.at = at /\ new.op = job[j].op
      /\ new.flag = job[j].flag /\ new.first = job[j].first
      /\ new.user = job[j].user
  BY <1>1, <1>2 DEF Job, Waits
<1>4. job' = [job EXCEPT ![j] = new]
  BY <1>1, <1>2
<1> HIDE DEF new
<1>5. JobMoves(j) /\ job'[j].at = at
  BY <1>1, <1>3, <1>4 DEF JobMoves
<1>6. UNCHANGED <<rowVars, now>>
  BY DEF FindUserAccess
<1>7. JobOK(j)'
  <2>1. job[j].op = "request" /\ at \in {"save", "write"} => ~Grants(job[j].first)
    BY <1>1, <1>2 DEF JobOK, HasFeatureAccess, Available, Grants
  <2>2. job[j].op = "withdraw" /\ at = "delete" => ~Grants(row)
    BY <1>2 DEF Grants, Decided
  <2> QED
    BY <1>1, <1>2, <1>5, <1>6, <2>1, <2>2 DEF JobMoves, JobOK, rowVars
<1> QED
  BY <1>1, <1>2, <1>5, <1>6, <1>7, RowsStay, JobMovesKeeps DEF JobMoves

LEMMA SaveUserAccessKeeps ==
    ASSUME FInv, NEW j \in Jobs, SaveUserAccess(j)
    PROVE  /\ FInv' /\ job[j].at # "done" /\ job'[j].at # "done"
           /\ \A i \in Jobs \ {j} : job'[i] = job[i]
<1>1. /\ job \in [Jobs -> Job] /\ job[j] \in Job /\ access[job[j].user] \in Row
      /\ job[j].at = "save" /\ JobOK(j)
  BY DEF FInv, AccessTypeOK, Job, SaveUserAccess
<1>2. PICK base \in Row : job' = [job EXCEPT ![j].base = base, ![j].at = "write"]
  BY <1>1, NoRowIsRow DEF SaveUserAccess
<1> DEFINE new == [job[j] EXCEPT !.base = base, !.at = "write"]
<1>3. /\ new \in Job /\ new.at = "write" /\ new.op = job[j].op
      /\ new.flag = job[j].flag /\ new.first = job[j].first
      /\ new.user = job[j].user
  BY <1>1, <1>2 DEF Job, Waits
<1>4. job' = [job EXCEPT ![j] = new]
  BY <1>1, <1>2
<1> HIDE DEF new
<1>5. JobMoves(j) /\ job'[j].at = "write"
  BY <1>1, <1>3, <1>4 DEF JobMoves
<1>6. UNCHANGED <<rowVars, now>>
  BY DEF SaveUserAccess
<1>7. JobOK(j)'
  BY <1>1, <1>5, <1>6 DEF JobMoves, JobOK, rowVars
<1> QED
  BY <1>1, <1>5, <1>6, <1>7, RowsStay, JobMovesKeeps DEF JobMoves

LEMMA WritesKeeps ==
    ASSUME FInv, NEW j \in Jobs, NEW row \in Row, Writes(j, row),
           job[j].at \in {"write", "delete"}
    PROVE  /\ FInv' /\ job[j].at # "done"
           /\ \A i \in Jobs \ {j} : job'[i] = job[i]
           /\ job'[j].at = "done" => job'[j].op \notin Decisions
<1> DEFINE u == job[j].user
           at == IF job[j].op \in Decisions THEN "notify" ELSE "done"
<1>1. /\ access \in [People -> Row] /\ u \in People /\ flag \in Flag
      /\ now \in Instants /\ overtaken \subseteq Jobs /\ Checked(u) \subseteq Jobs
  BY DEF FInv, AccessTypeOK, Job, Checked
<1>2. JobMoves(j) /\ job'[j].at = at
  BY GoMoves DEF Writes
<1>3. JobOK(j)'
  BY <1>2 DEF JobOK, JobMoves
<1>4. access'[u] = row /\ \A v \in People \ {u} : access'[v] = access[v]
  BY <1>1 DEF Writes
<1>5. /\ overtaken \subseteq overtaken' /\ overtaken' \subseteq Jobs
      /\ Grants(row) /\ ~Grants(access[u]) => Checked(u) \subseteq overtaken'
  BY <1>1 DEF Writes
<1>6. RowsGoOn
  <2>1. access' \in [People -> Row] /\ flag' = flag /\ now' = now
    BY <1>1 DEF Writes
  <2>2. ASSUME NEW v \in People, NEW i \in Checked(v), Grants(access'[v])
        PROVE  Grants(access[v]) \/ i \in overtaken'
    BY <1>4, <1>5, <2>2
  <2> QED
    BY <1>1, <1>5, <2>1, <2>2 DEF RowsGoOn
<1> QED
  BY <1>2, <1>3, <1>6, JobMovesKeeps DEF JobMoves

LEMMA WriteUserAccessKeeps ==
    ASSUME FInv, NEW j \in Jobs, WriteUserAccess(j)
    PROVE  /\ FInv' /\ job[j].at # "done"
           /\ \A i \in Jobs \ {j} : job'[i] = job[i]
           /\ job'[j].at = "done" => job'[j].op \notin Decisions
<1> DEFINE row == access[job[j].user]
           base == job[j].base
<1>1. /\ job[j] \in Job /\ row \in Row /\ base \in Row /\ job[j].row \in Row
      /\ job[j].at = "write"
  BY DEF FInv, AccessTypeOK, Job, WriteUserAccess
<1>2. Wanted(j) \in Row
  <2>1. job[j].row.id \in Ids /\ j \in Ids
    BY <1>1 DEF Row, Ids
  <2> QED
    BY <2>1 DEF Wanted, Row
<1>3. Updated(row, base, Wanted(j)) \in Row
  BY <1>1, <1>2 DEF Updated, Row
<1>4. CASE \E new \in Row : Writes(j, new)
  BY <1>1, <1>4, WritesKeeps
<1>5. CASE Go(j, "failed") /\ UNCHANGED <<rowVars, now>>
  <2>1. JobMoves(j) /\ job'[j].at = "failed"
    BY <1>1, <1>5, GoMoves
  <2> QED
    BY <1>5, <2>1, EndedOK, RowsStay, JobMovesKeeps DEF JobMoves
<1> QED
  BY <1>1, <1>2, <1>3, <1>4, <1>5 DEF WriteUserAccess

LEMMA DeleteUserAccessKeeps ==
    ASSUME FInv, NEW j \in Jobs, DeleteUserAccess(j)
    PROVE  /\ FInv' /\ job[j].at # "done"
           /\ \A i \in Jobs \ {j} : job'[i] = job[i]
           /\ job'[j].at = "done" => job'[j].op \notin Decisions
<1>1. access[job[j].user] \in Row /\ job[j].at = "delete"
  BY DEF FInv, AccessTypeOK, Job, DeleteUserAccess
<1>2. \E new \in Row : Writes(j, new)
  BY <1>1, NoRowIsRow DEF DeleteUserAccess
<1> QED
  BY <1>1, <1>2, WritesKeeps

LEMMA NotifyKeeps ==
    ASSUME FInv, NEW j \in Jobs, Notify(j)
    PROVE  /\ FInv' /\ \A i \in Jobs \ {j} : job'[i] = job[i]
           /\ job'[j].at = "done" /\ job'[j].op \in Decisions
           /\ DecisionKey(j)' = DecisionKey(j)
<1>1. /\ JobMoves(j) /\ job'[j].at = "done"
      /\ job'[j].row = job[j].row /\ job'[j].time = job[j].time
  BY GoMoves DEF Notify
<1>2. job[j].op \in Decisions
  BY DEF Notify, FInv, JobOK
<1>3. UNCHANGED <<rowVars, now>>
  BY DEF Notify
<1> QED
  BY <1>1, <1>2, <1>3, EndedOK, RowsStay, JobMovesKeeps
     DEF JobMoves, DecisionKey

LEMMA JobFailsKeeps ==
    ASSUME FInv, NEW j \in Jobs, JobFails(j)
    PROVE  /\ FInv' /\ job[j].at # "done" /\ job'[j].at # "done"
           /\ \A i \in Jobs \ {j} : job'[i] = job[i]
<1>1. JobMoves(j) /\ job'[j].at = "failed"
  BY GoMoves DEF JobFails, Waits
<1>2. UNCHANGED <<rowVars, now>>
  BY DEF JobFails
<1> QED
  BY <1>1, <1>2, EndedOK, RowsStay, JobMovesKeeps DEF JobMoves

LEMMA FlagKeeps ==
    ASSUME FInv, UpdateFeatureFlag \/ DeleteFeatureFlag \/ Tick
    PROVE  FInv' /\ UNCHANGED job
<1>1. UNCHANGED job
  BY DEF UpdateFeatureFlag, DeleteFeatureFlag, Tick
<1>2. RowsGoOn
  <2>1. flag' \in Flag
    BY DEF UpdateFeatureFlag, DeleteFeatureFlag, Tick, rowVars, FInv,
       AccessTypeOK, Flag
  <2>2. now' \in Instants
    BY FirstAssumption
       DEF UpdateFeatureFlag, DeleteFeatureFlag, Tick, FInv, AccessTypeOK,
       Instants
  <2>3. /\ access' \in [People -> Row] /\ overtaken' = overtaken
        /\ \A u \in People : access'[u] = access[u] \/ ~Grants(access'[u])
    <3>1. CASE DeleteFeatureFlag
      BY <3>1, NoRowIsRow DEF DeleteFeatureFlag, Grants, Decided, NoRow
    <3>2. CASE UpdateFeatureFlag \/ Tick
      BY <3>2 DEF UpdateFeatureFlag, Tick, rowVars, FInv, AccessTypeOK
    <3> QED
      BY <3>1, <3>2
  <2> QED
    BY <2>1, <2>2, <2>3 DEF RowsGoOn, FInv, AccessTypeOK
<1>3. \A j \in Jobs : JobOK(j)'
  BY <1>1, <1>2, OtherJobsKeep
<1> QED
  BY <1>1, <1>2, <1>3 DEF RowsGoOn, FInv, AccessTypeOK

LEMMA AccessRestartKeeps ==
    ASSUME FInv, AccessRestart
    PROVE  /\ FInv' /\ \A j \in Jobs : job'[j].at = "done" => job'[j] = job[j]
           /\ \A j \in Jobs : job[j].at = "done" => job'[j] = job[j]
<1>1. job \in [Jobs -> Job]
  BY DEF FInv, AccessTypeOK
<1>2. \A j \in Jobs : /\ [job[j] EXCEPT !.at = "failed"] \in Job
                      /\ [job[j] EXCEPT !.at = "failed"].at = "failed"
  BY <1>1 DEF Job
<1>3. /\ job' \in [Jobs -> Job]
      /\ \A j \in Jobs : job'[j] = job[j] \/ job'[j].at = "failed"
      /\ \A j \in Jobs : job[j].at = "done" => job'[j] = job[j]
  BY <1>1, <1>2 DEF AccessRestart, Waits
<1>4. UNCHANGED <<rowVars, now>>
  BY DEF AccessRestart
<1>5. \A j \in Jobs : JobOK(j)'
  BY <1>3, <1>4, RowsStay, OtherJobsKeep, EndedOK
<1> QED
  BY <1>3, <1>4, <1>5 DEF FInv, AccessTypeOK, rowVars

--------------------------------------------------------------------------
(* The parts together *)

\* A call that has got past the unique key, or failed.
Past == {"receivers", "landed", "emails", "clear", "done", "failed", "cut"}

\* The calls that announce decisions have keys that only such calls have: what
\* the unique index stops one for is another decision with the same key.  A
\* decision that is done has made its call.
Announced(j) ==
    /\ call[j].at # "idle" => /\ job[j].at = "done" /\ job[j].op \in Decisions
                              /\ call[j].key = DecisionKey(j)
    /\ call[j].at = "duplicate" =>
         \E i \in Jobs \ {j} : call[i].key = call[j].key /\ call[i].at \in Past
    /\ job[j].at = "done" /\ job[j].op \in Decisions => call[j].at # "idle"

KInv == /\ \A j \in Jobs : Announced(j)
        /\ \A c \in Sends : call[c].at # "idle" => call[c].key \in SendKeys

IInv == NInv /\ MInv /\ FInv /\ KInv /\ outside \in 0..MaxOutside

\* What a step other than the first of a call may do to the calls: keep their
\* keys, and stop those whose key has a row.
CallsGoOn ==
    \A c \in Calls :
        /\ call'[c].key = call[c].key
        /\ call'[c].at = "idle" <=> call[c].at = "idle"
        /\ call[c].at \in Past => call'[c].at \in Past
        /\ call'[c].at = "duplicate" =>
             \/ call[c].at = "duplicate"
             \/ call[c].at = "row" /\ call[c].key \in rows

\* What a step other than an announcement may do to decisions.
DecisionsStay ==
    \A j \in Jobs :
        /\ job[j].at = "done" => job'[j] = job[j]
        /\ job'[j].at = "done" /\ job'[j].op \in Decisions => job[j].at = "done"

LEMMA JobsStay == ASSUME UNCHANGED job PROVE DecisionsStay
  BY DEF DecisionsStay

LEMMA AdvanceGoesOn ==
    ASSUME NInv, NEW c \in Calls, NEW at \in Underway \cup Ended,
           Advance(c, at), call[c].at # "idle",
           at \in Past \cup {"duplicate"},
           at = "duplicate" => call[c].at = "row" /\ call[c].key \in rows
    PROVE  CallsGoOn
<1>1. Advances(c, at)
  BY AdvanceAdvances DEF NInv
<1> QED
  BY <1>1 DEF Advances, CallsGoOn, Past, Underway, Ended

LEMMA EmitStepGoesOn ==
    ASSUME NInv, NEW c \in Calls, EmitStep(c) \/ EmailsQueued(c) \/ EmitFails(c)
    PROVE  CallsGoOn
<1>1. CASE FilterRecipients(c)
  <2> DEFINE valid == {u \in call[c].to : wants[u]}
             at == IF valid = {} THEN "done" ELSE "row"
             new == [call[c] EXCEPT !.to = valid, !.at = at]
  <2>1. call[c].at = "preferences" /\ call \in [Calls -> Call]
    BY <1>1 DEF FilterRecipients, NInv, NotifTypeOK
  <2>2. call' = [call EXCEPT ![c] = new]
    BY <1>1, <2>1 DEF FilterRecipients
  <2>3. new.at \in {"done", "row"} /\ new.key = call[c].key
    BY <2>1 DEF Call
  <2> HIDE DEF new
  <2> QED
    BY <2>1, <2>2, <2>3 DEF CallsGoOn, Past
<1>2. CASE CreateNotification(c)
  BY <1>2, AdvanceGoesOn DEF CreateNotification, Underway, Ended, Past
<1>3. CASE CreateReceivers(c)
  BY <1>3, AdvanceGoesOn DEF CreateReceivers, Underway, Past
<1>4. CASE Broadcast(c)
  BY <1>4, AdvanceGoesOn DEF Broadcast, Underway, Past
<1>5. CASE InvalidateCaches(c)
  BY <1>5, AdvanceGoesOn DEF InvalidateCaches, Ended, Past
<1>6. CASE EmailsQueued(c)
  BY <1>6, AdvanceGoesOn DEF EmailsQueued, Underway, Past
<1>7. CASE EmitFails(c)
  BY <1>7, AdvanceGoesOn DEF EmitFails, Ended, Past
<1> QED
  BY <1>1, <1>2, <1>3, <1>4, <1>5, <1>6, <1>7 DEF EmitStep

LEMMA CallsStayGoesOn == UNCHANGED call => CallsGoOn
  BY DEF CallsGoOn

LEMMA NotifGoesOn ==
    ASSUME NInv, NotifOutside \/ NotifInside PROVE CallsGoOn
<1>1. \A u \in Users : \/ UpdatePreferences(u) \/ CacheExpires(u)
                       \/ ClearAfterMark(u)
                       => CallsGoOn
  BY CallsStayGoesOn DEF UpdatePreferences, CacheExpires, ClearAfterMark,
     emitVars
<1>2. \A r \in Reads, u \in Users :
        GetUnreadCount(r, u) \/ CountUnread(r) \/ StoreCount(r) => CallsGoOn
  BY CallsStayGoesOn DEF GetUnreadCount, CountUnread, StoreCount, emitVars
<1>3. \A u \in Users, c \in Calls :
        MarkAsRead(u, c) \/ DeleteNotification(u, c) \/ MarkAllAsRead(u)
        => CallsGoOn
  BY CallsStayGoesOn DEF MarkAsRead, DeleteNotification, MarkAllAsRead,
     WriteMark
<1>4. \A u \in Users : MarkAllAsRead(u) => CallsGoOn
  BY CallsStayGoesOn DEF MarkAllAsRead, WriteMark
<1>5. \A s \in Sockets : Connect(s) \/ Refused(s) \/ Drops(s) \/ Verified(s)
                         => CallsGoOn
  BY CallsStayGoesOn DEF Connect, Refused, Drops, Gone, Verified, emitVars
<1>6. \A r \in Reads : CountUnread(r) \/ StoreCount(r) => CallsGoOn
  BY <1>2, KeysAssumption
<1> QED
  BY <1>1, <1>2, <1>3, <1>4, <1>5, <1>6, EmitStepGoesOn
     DEF NotifOutside, NotifInside

LEMMA RestartGoesOn == ASSUME NInv, NotifRestart PROVE CallsGoOn
  BY DEF NotifRestart, CallsGoOn, NInv, NotifTypeOK, Call, Underway, Past

\* A call that goes on is stopped by the row of another decision, if at all:
\* nobody else has such a key.
LEMMA GoingOnKeeps ==
    ASSUME NInv, FInv, KInv, CallsGoOn, DecisionsStay PROVE KInv'
<1>1. Jobs \subseteq Calls /\ Sends \subseteq Calls
  BY PartsAssumption
<1>2. ASSUME NEW j \in Jobs, call[j].at = "row", call[j].key \in rows
      PROVE  \E i \in Jobs \ {j} : call[i].key = call[j].key /\ call[i].at \in Past
  <2>1. PICK d \in Calls :
          /\ call[d].key = call[j].key
          /\ \/ call[d].at \in {"receivers", "failed", "cut"}
             \/ call[d].at \in {"landed", "emails", "clear", "done"}
    BY <1>2 DEF NInv, OrphansAreReported
  <2>2. d # j /\ call[d].at \in Past /\ call[d].at # "idle"
    BY <1>2, <2>1 DEF Past
  <2>3. d \notin Sends
    <3>1. call[j].key \in Decisions \X Ids \X Instants
      <4>1. job[j].op \in Decisions /\ call[j].key = DecisionKey(j)
        BY <1>2 DEF KInv, Announced
      <4>2. job[j].row.id \in Ids /\ job[j].time \in Instants
        BY DEF FInv, AccessTypeOK, Job, Row
      <4> QED
        BY <4>1, <4>2 DEF DecisionKey
    <3> QED
      BY <2>1, <2>2, <3>1, PartsAssumption DEF KInv
  <2> QED
    BY <2>1, <2>2, <2>3, PartsAssumption
<1>3. ASSUME NEW j \in Jobs PROVE Announced(j)'
  <2>1. Announced(j)
    BY DEF KInv
  <2>2. /\ call'[j].key = call[j].key
        /\ call'[j].at = "idle" <=> call[j].at = "idle"
    BY <1>1 DEF CallsGoOn
  <2>3. call'[j].at # "idle" =>
          /\ job'[j].at = "done" /\ job'[j].op \in Decisions
          /\ call'[j].key = DecisionKey(j)'
    BY <2>1, <2>2 DEF Announced, DecisionsStay, DecisionKey
  <2>4. ASSUME call'[j].at = "duplicate"
        PROVE  \E i \in Jobs \ {j} :
                 call'[i].key = call'[j].key /\ call'[i].at \in Past
    <3>1. \/ call[j].at = "duplicate"
          \/ call[j].at = "row" /\ call[j].key \in rows
      BY <1>1, <2>4 DEF CallsGoOn
    <3>2. PICK i \in Jobs \ {j} : call[i].key = call[j].key /\ call[i].at \in Past
      BY <1>2, <2>1, <3>1 DEF Announced
    <3> QED
      BY <1>1, <2>2, <3>2 DEF CallsGoOn
  <2>5. job'[j].at = "done" /\ job'[j].op \in Decisions => call'[j].at # "idle"
    BY <2>1, <2>2 DEF Announced, DecisionsStay
  <2> QED
    BY <2>3, <2>4, <2>5 DEF Announced
<1>4. \A c \in Sends : call'[c].at # "idle" => call'[c].key \in SendKeys
  BY <1>1 DEF CallsGoOn, KInv
<1> QED
  BY <1>3, <1>4 DEF KInv

LEMMA InitIInv == Init => IInv
  BY NotifInitNInv, MailInitMInv, AccessInitFInv, OutsideAssumption,
     PartsAssumption
     DEF Init, IInv, KInv, Announced, NotifInit, AccessInit, NoCall

\* Nothing in FeatureAccess changes.
LEMMA AccessStays == ASSUME FInv, UNCHANGED fvars PROVE FInv' /\ DecisionsStay
<1>1. UNCHANGED <<rowVars, now, job>>
  BY DEF fvars
<1>2. \A j \in Jobs : JobOK(j)'
  BY <1>1, RowsStay, OtherJobsKeep
<1> QED
  BY <1>1, <1>2, JobsStay DEF FInv, AccessTypeOK, rowVars

\* A call is made: the first step of emit.
LEMMA SendKeeps ==
    ASSUME IInv, NEW c \in Sends, NEW k \in SendKeys, NEW to \in SUBSET Users,
           Send(c, k, to)
    PROVE  NInv' /\ MInv' /\ FInv' /\ KInv'
<1>1. c \in Calls /\ k \in Keys /\ c \notin Jobs
  BY PartsAssumption
<1>2. NInv'
  BY <1>1, EmitKeeps DEF IInv, Send
<1>3. MInv' /\ FInv'
  BY AccessStays DEF Send, IInv, mvars, MInv, MailTypeOK, GivesUpLate, PickedOK
<1>4. call' = [call EXCEPT ![c] = [at |-> "preferences", key |-> k, to |-> to]]
      /\ job' = job /\ call \in [Calls -> Call]
  BY DEF Send, Emit, fvars, IInv, NInv, NotifTypeOK
<1>5. \A d \in Calls \ {c} : call'[d] = call[d]
  BY <1>1, <1>4
<1>6. call'[c].key = k
  BY <1>1, <1>4
<1>7. ASSUME NEW j \in Jobs PROVE Announced(j)'
  <2>1. Announced(j) /\ call'[j] = call[j] /\ DecisionKey(j)' = DecisionKey(j)
    BY <1>1, <1>4, <1>5, PartsAssumption DEF IInv, KInv, DecisionKey
  <2>2. \A i \in Jobs : call'[i] = call[i]
    BY <1>1, <1>5, PartsAssumption
  <2> QED
    BY <1>4, <2>1, <2>2 DEF Announced
<1>8. KInv'
  BY <1>1, <1>5, <1>6, <1>7, PartsAssumption DEF IInv, KInv
<1> QED
  BY <1>2, <1>3, <1>8

LEMMA AnnounceKeeps ==
    ASSUME IInv, NEW j \in Jobs, Announce(j)
    PROVE  NInv' /\ MInv' /\ FInv' /\ KInv'
<1>1. /\ j \in Calls /\ j \notin Sends /\ job[j].user \in Users
      /\ job[j].row.id \in Ids /\ job[j].time \in Instants
  BY PartsAssumption DEF IInv, FInv, AccessTypeOK, Job, Row
<1>2. Emit(j, DecisionKey(j), {job[j].user}) /\ Notify(j) /\ UNCHANGED mvars
  BY DEF Announce
<1>3. /\ FInv' /\ \A i \in Jobs \ {j} : job'[i] = job[i]
      /\ job'[j].at = "done" /\ job'[j].op \in Decisions
      /\ DecisionKey(j)' = DecisionKey(j)
  BY <1>2, NotifyKeeps DEF IInv
<1>4. DecisionKey(j) \in Keys /\ {job[j].user} \in SUBSET Users
  <2>1. job[j].op \in Decisions
    BY <1>2 DEF Notify, IInv, FInv, JobOK
  <2> QED
    BY <1>1, <2>1, PartsAssumption DEF DecisionKey
<1>5. NInv'
  BY <1>1, <1>2, <1>4, EmitKeeps DEF IInv
<1>6. MInv'
  BY <1>2 DEF IInv, mvars, MInv, MailTypeOK, GivesUpLate, PickedOK
<1> DEFINE new == [at |-> "preferences", key |-> DecisionKey(j),
                   to |-> {job[j].user}]
<1>7. /\ call' = [call EXCEPT ![j] = new] /\ call \in [Calls -> Call]
      /\ call[j].at = "idle"
  BY <1>2 DEF Emit, IInv, NInv, NotifTypeOK
<1>8. new.at = "preferences" /\ new.key = DecisionKey(j)
  OBVIOUS
<1> HIDE DEF new
<1>9. call'[j] = new /\ \A d \in Calls \ {j} : call'[d] = call[d]
  BY <1>1, <1>7
<1>10. Announced(j)'
  BY <1>3, <1>8, <1>9 DEF Announced
<1>11. ASSUME NEW i \in Jobs \ {j} PROVE Announced(i)'
  <2>1. /\ Announced(i) /\ call'[i] = call[i] /\ job'[i] = job[i]
        /\ DecisionKey(i)' = DecisionKey(i)
    BY <1>3, <1>9, PartsAssumption DEF IInv, KInv, DecisionKey
  <2>2. \A d \in Jobs : call[d].at \in Past => call'[d] = call[d]
    BY <1>7, <1>9, PartsAssumption DEF Past
  <2> QED
    BY <2>1, <2>2 DEF Announced
<1>12. KInv'
  BY <1>1, <1>9, <1>10, <1>11, PartsAssumption DEF IInv, KInv
<1> QED
  BY <1>3, <1>5, <1>6, <1>12

LEMMA EmailStepKeeps ==
    ASSUME IInv, NEW c \in Calls, EmailStep(c)
    PROVE  NInv' /\ MInv' /\ FInv' /\ KInv'
<1>1. NInv' /\ MInv'
  BY EmailsQueuedKeeps, QueueEmailsKeeps DEF IInv, EmailStep
<1>2. FInv' /\ CallsGoOn /\ DecisionsStay
  BY EmitStepGoesOn, AccessStays DEF IInv, EmailStep
<1> QED
  BY <1>1, <1>2, GoingOnKeeps DEF IInv

LEMMA NotifStepKeeps ==
    ASSUME IInv, NotifOutside \/ NotifInside, UNCHANGED <<mvars, fvars>>
    PROVE  NInv' /\ MInv' /\ FInv' /\ KInv'
<1>1. NInv'
  BY NotifOutsideKeeps, NotifInsideKeeps DEF IInv
<1>2. MInv' /\ FInv' /\ DecisionsStay
  BY AccessStays DEF IInv, mvars, MInv, MailTypeOK, GivesUpLate, PickedOK
<1>3. CallsGoOn
  BY NotifGoesOn DEF IInv
<1> QED
  BY <1>1, <1>2, <1>3, GoingOnKeeps DEF IInv

\* Nothing in Notifications changes.
LEMMA NotifStays == ASSUME NInv, UNCHANGED nvars PROVE NInv' /\ CallsGoOn
<1>1. NotifTypeOK' /\ OnlineIsConnected' /\ UNCHANGED <<rows, receivers, call>>
  BY DEF NInv, nvars, emitVars, cacheVars, sockVars, NotifTypeOK,
     OnlineIsConnected
<1> QED
  BY <1>1, CallsAlone, CallsStayGoesOn

LEMMA MailStepKeeps ==
    ASSUME IInv, MailOutside \/ MailInside, UNCHANGED <<nvars, fvars>>
    PROVE  NInv' /\ MInv' /\ FInv' /\ KInv'
<1>1. NInv' /\ CallsGoOn /\ MInv'
  BY NotifStays, MailKeeps DEF IInv
<1>2. FInv' /\ DecisionsStay
  BY AccessStays DEF IInv
<1> QED
  BY <1>1, <1>2, GoingOnKeeps DEF IInv

\* Without an announcement no decision becomes done.
LEMMA AccessStep ==
    ASSUME FInv, AccessOutside \/ AccessInside
    PROVE  FInv' /\ DecisionsStay
<1>1. CASE \E j \in Jobs, op \in Ops, u \in People : Starts(j, op, u)
  BY <1>1, StartsKeeps DEF DecisionsStay
<1>2. CASE \E j \in Jobs : JobFails(j)
  BY <1>2, JobFailsKeeps DEF DecisionsStay
<1>3. CASE UpdateFeatureFlag \/ DeleteFeatureFlag \/ Tick
  BY <1>3, FlagKeeps, JobsStay
<1>4. CASE \E j \in Jobs : FindUserAccess(j)
  BY <1>4, FindUserAccessKeeps DEF DecisionsStay
<1>5. CASE \E j \in Jobs : SaveUserAccess(j)
  BY <1>5, SaveUserAccessKeeps DEF DecisionsStay
<1>6. CASE \E j \in Jobs : WriteUserAccess(j)
  BY <1>6, WriteUserAccessKeeps DEF DecisionsStay
<1>7. CASE \E j \in Jobs : DeleteUserAccess(j)
  BY <1>7, DeleteUserAccessKeeps DEF DecisionsStay
<1> QED
  BY <1>1, <1>2, <1>3, <1>4, <1>5, <1>6, <1>7 DEF AccessOutside, AccessInside

LEMMA AccessStepKeeps ==
    ASSUME IInv, AccessOutside \/ AccessInside, UNCHANGED <<nvars, mvars>>
    PROVE  NInv' /\ MInv' /\ FInv' /\ KInv'
<1>1. NInv' /\ CallsGoOn
  BY NotifStays DEF IInv
<1>2. MInv'
  BY DEF IInv, mvars, MInv, MailTypeOK, GivesUpLate, PickedOK
<1>3. FInv' /\ DecisionsStay
  BY AccessStep DEF IInv
<1> QED
  BY <1>1, <1>2, <1>3, GoingOnKeeps DEF IInv

LEMMA RestartKeeps ==
    ASSUME IInv, Restart PROVE NInv' /\ MInv' /\ FInv' /\ KInv'
<1>1. NInv' /\ CallsGoOn /\ MInv'
  BY NotifRestartKeeps, RestartGoesOn, MailRestartKeeps DEF IInv, Restart
<1>2. FInv' /\ DecisionsStay
  BY AccessRestartKeeps DEF IInv, Restart, DecisionsStay
<1> QED
  BY <1>1, <1>2, GoingOnKeeps DEF IInv

LEMMA StepKeeps == IInv /\ [Next]_vars => IInv'
<1> SUFFICES ASSUME IInv, [Next]_vars PROVE IInv'
  OBVIOUS
<1>1. CASE Outside
  <2>1. outside' \in 0..MaxOutside
    BY <1>1, OutsideAssumption DEF Outside, IInv
  <2>2. NInv' /\ MInv' /\ FInv' /\ KInv'
    BY <1>1, NotifStepKeeps, MailStepKeeps, AccessStepKeeps, SendKeeps,
       RestartKeeps
       DEF Outside
  <2> QED
    BY <2>1, <2>2 DEF IInv
<1>2. CASE Inside
  <2>1. NInv' /\ MInv' /\ FInv' /\ KInv'
    BY <1>2, NotifStepKeeps, MailStepKeeps, AccessStepKeeps, EmailStepKeeps,
       AnnounceKeeps
       DEF Inside
  <2> QED
    BY <1>2, <2>1 DEF Inside, IInv
<1>3. CASE UNCHANGED vars
  <2>1. NInv' /\ CallsGoOn
    BY <1>3, NotifStays DEF IInv, vars
  <2>2. MInv' /\ FInv' /\ DecisionsStay /\ UNCHANGED outside
    BY <1>3, AccessStays
       DEF vars, mvars, IInv, MInv, MailTypeOK, GivesUpLate, PickedOK
  <2>3. KInv'
    BY <2>1, <2>2, GoingOnKeeps DEF IInv
  <2> QED
    BY <2>1, <2>2, <2>3 DEF IInv
<1> QED
  BY <1>1, <1>2, <1>3 DEF Next

--------------------------------------------------------------------------
(* Theorems *)

\* The invariant, for every set of users, calls, requests, e-mails and runs.
THEOREM Inductive == Spec => []IInv
  BY InitIInv, StepKeeps, PTL DEF Spec

\* Every variable keeps its type.
THEOREM TypeCorrect == Spec => []TypeOK
<1>1. IInv => TypeOK
  BY DEF IInv, NInv, MInv, FInv, TypeOK
<1> QED
  BY <1>1, Inductive, PTL

\* NotificationService.emit: a row without its receivers belongs to a call
\* that is about to write them, threw or was cut off, and one call in all
\* writes receivers under a key.
THEOREM RowsAreNotHalf == Spec => []OrphansAreReported
<1>1. IInv => OrphansAreReported
  BY DEF IInv, NInv
<1> QED
  BY <1>1, Inductive, PTL

\* The notification gateway: whoever counts as online is connected, or went
\* away while the token was being verified.
THEOREM OnlineStaysConnected == Spec => []OnlineIsConnected
<1>1. IInv => OnlineIsConnected
  BY DEF IInv, NInv
<1> QED
  BY <1>1, Inductive, PTL

\* The e-mail queue: however many runs of the cron overlap, an e-mail is given
\* up only after MAX_ATTEMPTS attempts.
THEOREM QueueGivesUpLate == Spec => []GivesUpLate
<1>1. IInv => GivesUpLate
  BY DEF IInv, MInv
<1> QED
  BY <1>1, Inductive, PTL

\* approveRequest and rejectRequest: every decision is announced, and emit
\* takes it for a repetition only of the same decision on the same row in the
\* same millisecond.
THEOREM DecisionsAreAnnounced == Spec => []DecisionIsAnnounced
<1>1. IInv => DecisionIsAnnounced
  <2> SUFFICES ASSUME IInv, NEW j \in Jobs, job[j].at = "done",
                      job[j].op \in Decisions
               PROVE  /\ call[j].at # "idle"
                      /\ call[j].at = "done" => Complete(j)
                      /\ call[j].at = "duplicate" =>
                           \E i \in Jobs \ {j} :
                             /\ SameMoment(i, j)
                             /\ call[i].at \notin {"idle", "preferences", "row",
                                                   "duplicate"}
    BY DEF DecisionIsAnnounced
  <2>1. call[j].at # "idle" /\ call[j].key = DecisionKey(j)
    BY DEF IInv, KInv, Announced
  <2>2. call[j].at = "done" => Complete(j)
    <3>1. j \in Calls /\ CallOK(j)
      BY PartsAssumption DEF IInv, NInv
    <3> QED
      BY <3>1 DEF CallOK, Written
  <2>3. ASSUME call[j].at = "duplicate"
        PROVE  \E i \in Jobs \ {j} :
                 /\ SameMoment(i, j)
                 /\ call[i].at \notin {"idle", "preferences", "row", "duplicate"}
    <3>1. PICK i \in Jobs \ {j} : call[i].key = call[j].key /\ call[i].at \in Past
      BY <2>3 DEF IInv, KInv, Announced
    <3>2. call[i].at \notin {"idle", "preferences", "row", "duplicate"}
      BY <3>1 DEF Past
    <3>3. call[i].key = DecisionKey(i)
      BY <3>2 DEF IInv, KInv, Announced
    <3>4. SameMoment(i, j)
      BY <2>1, <3>1, <3>3 DEF DecisionKey, SameMoment
    <3> QED
      BY <3>2, <3>4
  <2> QED
    BY <2>1, <2>2, <2>3
<1> QED
  BY <1>1, Inductive, PTL

\* What ends a request at its write.
LEMMA OnlyWritesEnd ==
    ASSUME IInv, Next, NEW j \in Jobs, job[j].at \in {"write", "delete"},
           job'[j].at = "done"
    PROVE  WriteUserAccess(j) \/ DeleteUserAccess(j)
<1>1. FInv /\ job'[j] # job[j]
  BY DEF IInv
<1>2. ~ UNCHANGED fvars
  BY <1>1 DEF fvars
<1>3. ~ Restart
  BY <1>1, AccessRestartKeeps DEF Restart
<1>4. ~ \E i \in Jobs : Announce(i)
  BY <1>1, NotifyKeeps DEF Announce, Notify
<1>5. AccessOutside \/ AccessInside
  BY <1>2, <1>3, <1>4 DEF Next, Outside, Inside, Send, EmailStep
<1>6. ~ AccessOutside /\ ~ Tick
  <2>1. ~ \E i \in Jobs, op \in Ops, u \in People : Starts(i, op, u)
    BY <1>1, StartsKeeps
  <2>2. ~ \E i \in Jobs : JobFails(i)
    BY <1>1, JobFailsKeeps
  <2> QED
    BY <1>1, <2>1, <2>2, FlagKeeps DEF AccessOutside
<1>7. ~ \E i \in Jobs : FindUserAccess(i) \/ SaveUserAccess(i)
  BY <1>1, FindUserAccessKeeps, SaveUserAccessKeeps
<1>8. PICK i \in Jobs : WriteUserAccess(i) \/ DeleteUserAccess(i)
  BY <1>5, <1>6, <1>7 DEF AccessInside
<1>9. i = j
  BY <1>1, <1>8, WriteUserAccessKeeps, DeleteUserAccessKeeps
<1> QED
  BY <1>8, <1>9

\* requestAccess and withdrawRequest take access away only from a user whom
\* somebody gave it after they had read what they check.
THEOREM AskingTakesNoAccess == Spec => AskingTakesNothing
<1>1. ASSUME IInv, NEW j \in Jobs, Next, j \notin overtaken,
             job[j].op \in {"request", "withdraw"},
             job[j].at \in {"write", "delete"}, job'[j].at = "done",
             HasFeatureAccess(flag, access[job[j].user])
      PROVE  HasFeatureAccess(flag', access'[job[j].user])
  <2> DEFINE u == job[j].user
             row == access[u]
  <2>1. /\ access \in [People -> Row] /\ u \in People /\ row \in Row
        /\ job \in [Jobs -> Job] /\ JobOK(j) /\ job[j].base \in Row
    BY <1>1 DEF IInv, FInv, AccessTypeOK, Job
  <2>2. ~Grants(row)
    BY <1>1, <2>1 DEF JobOK
  <2>3. ~Decided(row) /\ flag.rolloutToAll
    BY <1>1, <2>2 DEF HasFeatureAccess, Grants
  <2>4. WriteUserAccess(j) \/ DeleteUserAccess(j)
    BY <1>1, OnlyWritesEnd
  <2>5. PICK new \in Row : Writes(j, new) /\ ~Decided(new)
    <3>1. CASE DeleteUserAccess(j)
      BY <2>1, <2>3, <3>1, NoRowIsRow DEF DeleteUserAccess, Decided, NoRow
    <3>2. CASE WriteUserAccess(j)
      <4>1. job[j].op = "request" /\ job[j].at = "write"
        BY <1>1, <2>1, <3>2 DEF JobOK, WriteUserAccess
      <4> DEFINE base == job[j].base
                 new == Wanted(j)
                 upd == Updated(row, base, new)
      <4>2. new \in Row /\ new.status = "PENDING"
        <5>1. job[j].row.id \in Ids /\ j \in Ids
          BY <2>1 DEF Job, Row, Ids
        <5> QED
          BY <4>1, <5>1 DEF Wanted, Row
      <4> HIDE DEF new
      <4>3. upd \in Row /\ upd.status \in {"PENDING", row.status}
        BY <2>1, <4>2 DEF Updated, Row
      <4>4. ~Decided(new) /\ ~Decided(upd)
        BY <2>3, <4>2, <4>3 DEF Decided
      <4> HIDE DEF upd
      <4>5. ~Go(j, "failed")
        <5>1. Go(j, "failed") => job'[j].at = "failed"
          BY <1>1, GoMoves DEF IInv
        <5> QED
          BY <1>1, <5>1
      <4>6. \E r \in {row, upd, new} : Writes(j, r)
        BY <3>2, <4>5 DEF WriteUserAccess, new, upd
      <4> QED
        BY <2>1, <2>3, <4>2, <4>3, <4>4, <4>6
    <3> QED
      BY <2>4, <3>1, <3>2
  <2>6. access'[u] = new /\ flag' = flag
    BY <2>1, <2>5 DEF Writes
  <2> QED
    BY <1>1, <2>3, <2>5, <2>6 DEF HasFeatureAccess
<1>2. IInv /\ [Next]_vars =>
        [\A j \in Jobs :
           LET u == job[j].user
           IN  /\ job[j].op \in {"request", "withdraw"}
               /\ job[j].at \in {"write", "delete"} /\ job'[j].at = "done"
               /\ HasFeatureAccess(flag, access[u])
               /\ ~HasFeatureAccess(flag', access'[u])
               => j \in overtaken]_fvars
  BY <1>1 DEF vars
<1> QED
  BY <1>2, Inductive, PTL DEF Spec, AskingTakesNothing
============================================================================
