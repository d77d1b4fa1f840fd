--------------------------- MODULE Notifications ---------------------------
(***************************************************************************)
(* In-app notifications: NotificationService.emit with its repository, the *)
(* cached unread count, "mark as read" and the /notifications gateway.     *)
(*                                                                         *)
(* One step is what Node runs between two awaits that leave the process.   *)
(* The unread count and the unread first page are cached under two keys in *)
(* the same way and dropped together: one cache stands for both.           *)
(***************************************************************************)
EXTENDS Naturals, FiniteSets

CONSTANTS Users,
          Keys,       \* idempotency keys
          NoKey,      \* of a call that has not been made
          Calls,      \* calls of emit
          Sockets,    \* Socket.IO connections, by socket id
          Owner,      \* whose token a connection presents
          Reads       \* bound: requests for the unread count under way

ASSUME OwnerAssumption == Owner \in [Sockets -> Users]
ASSUME KeysAssumption == NoKey \notin Keys /\ Users # {}
ASSUME CallsAssumption == IsFiniteSet(Calls)

VARIABLES
    wants,      \* preferences: does the user take this notification
    rows,       \* table notifications, by idempotency key (unique)
    receivers,  \* table notification_receivers, by call and user
    delivered,  \* receivers whose deliveryStatus is DELIVERED
    call,       \* each call of emit: the await it is at, its key, recipients
    cache,      \* Redis: {} or the count cached for the user
    reading,    \* each request for the count: its await, user and answer
    marking,    \* users whose update is written, the cache not yet dropped
    sock,       \* each connection
    verifying,  \* connections whose handleConnection awaits the token check
    online,     \* socketUserMap, and by Owner userSockets
    late        \* history: registered after they had disconnected

emitVars == <<rows, receivers, delivered, call>>
cacheVars == <<cache, reading, marking>>
sockVars == <<sock, verifying, online, late>>
nvars == <<wants, emitVars, cacheVars, sockVars>>

\* What a call of emit awaits, and how it can end.
Underway == {"preferences", "row", "receivers", "landed", "emails", "clear"}
Ended == {"done", "duplicate", "failed", "cut"}

NoCall == [at |-> "idle", key |-> NoKey, to |-> {}]
NoRead == [at |-> "idle", user |-> CHOOSE u \in Users : TRUE, count |-> 0]

Call == [at : {"idle"} \cup Underway \cup Ended, key : Keys \cup {NoKey},
         to : SUBSET Users]
Read == [at : {"idle", "count", "store"}, user : Users, count : Nat]

NotifTypeOK ==
    /\ wants \in [Users -> BOOLEAN]
    /\ rows \subseteq Keys
    /\ receivers \in [Calls -> [Users -> {"none", "unread", "read", "deleted"}]]
    /\ delivered \subseteq Calls \X Users
    /\ call \in [Calls -> Call]
    /\ cache \in [Users -> SUBSET Nat]
    /\ reading \in [Reads -> Read]
    /\ marking \subseteq Users
    /\ sock \in [Sockets -> {"new", "open", "gone"}]
    /\ verifying \subseteq Sockets
    /\ online \subseteq Sockets
    /\ late \subseteq Sockets

NotifInit ==
    /\ wants = [u \in Users |-> TRUE]
    /\ rows = {}
    /\ receivers = [c \in Calls |-> [u \in Users |-> "none"]]
    /\ delivered = {}
    /\ call = [c \in Calls |-> NoCall]
    /\ cache = [u \in Users |-> {}]
    /\ reading = [r \in Reads |-> NoRead]
    /\ marking = {}
    /\ sock = [s \in Sockets |-> "new"]
    /\ verifying = {} /\ online = {} /\ late = {}

\* countUnread: neither read nor deleted.
Unread(u) == Cardinality({c \in Calls : receivers[c][u] = "unread"})

--------------------------------------------------------------------------
(* emit *)

Advance(c, at) == call' = [call EXCEPT ![c].at = at]

Emit(c, k, to) ==
    /\ call[c].at = "idle" /\ to # {}
    /\ call' = [call EXCEPT ![c] = [at |-> "preferences", key |-> k, to |-> to]]
    /\ UNCHANGED <<wants, rows, receivers, delivered, cacheVars, sockVars>>

\* getPreferencesForUsers and the filter: before any write.
FilterRecipients(c) ==
    /\ call[c].at = "preferences"
    /\ LET valid == {u \in call[c].to : wants[u]}
       IN  call' = [call EXCEPT ![c].to = valid,
                                ![c].at = IF valid = {} THEN "done" ELSE "row"]
    /\ UNCHANGED <<wants, rows, receivers, delivered, cacheVars, sockVars>>

\* Mutant: without the unique index every call goes on.
NoIndexCreateNotification(c) ==
    /\ call[c].at = "row"
    /\ rows' = rows \cup {call[c].key}
    /\ Advance(c, "receivers")
    /\ UNCHANGED <<wants, receivers, delivered, cacheVars, sockVars>>

\* The unique index decides who of two calls with one key goes on.
CreateNotification(c) ==
    /\ call[c].at = "row"
    /\ rows' = rows \cup {call[c].key}
    /\ Advance(c, IF call[c].key \in rows THEN "duplicate" ELSE "receivers")
    /\ UNCHANGED <<wants, receivers, delivered, cacheVars, sockVars>>

\* One insert of all receiver rows.
CreateReceivers(c) ==
    /\ call[c].at = "receivers"
    /\ receivers' = [receivers EXCEPT ![c] =
                        [u \in Users |-> IF u \in call[c].to THEN "unread"
                                         ELSE @[u]]]
    /\ Advance(c, "landed")
    /\ UNCHANGED <<wants, rows, delivered, cacheVars, sockVars>>

IsUserOnline(u) == \E s \in online : Owner[s] = u

\* The answer to the insert: the broadcast, before the caches are dropped.
\* updateDeliveryStatus is not awaited; nothing here depends on when it lands.
Broadcast(c) ==
    /\ call[c].at = "landed"
    /\ delivered' = delivered
                    \cup {<<c, u>> : u \in {v \in call[c].to : IsUserOnline(v)}}
    /\ Advance(c, "emails")
    /\ UNCHANGED <<wants, rows, receivers, cacheVars, sockVars>>

\* queueNotificationEmails: the rows are in EmailQueue; an error is swallowed.
EmailsQueued(c) ==
    /\ call[c].at = "emails"
    /\ Advance(c, "clear")
    /\ UNCHANGED <<wants, rows, receivers, delivered, cacheVars, sockVars>>

\* Promise.allSettled: a deletion Redis refuses is ignored.
DropCaches(us) ==
    cache' \in {[u \in Users |-> IF u \in gone THEN {} ELSE cache[u]] :
                gone \in {us, {}}}

InvalidateCaches(c) ==
    /\ call[c].at = "clear"
    /\ DropCaches(call[c].to)
    /\ Advance(c, "done")
    /\ UNCHANGED <<wants, rows, receivers, delivered, reading, marking, sockVars>>

\* A query fails, or was done and the answer is lost: emit throws.
EmitFails(c) ==
    /\ call[c].at \in {"preferences", "row", "receivers", "landed"}
    /\ Advance(c, "failed")
    /\ UNCHANGED <<wants, rows, receivers, delivered, cacheVars, sockVars>>

EmitStep(c) ==
    \/ FilterRecipients(c) \/ CreateNotification(c) \/ CreateReceivers(c)
    \/ Broadcast(c) \/ InvalidateCaches(c)

UpdatePreferences(u) ==
    /\ wants' = [wants EXCEPT ![u] = ~@]
    /\ UNCHANGED <<emitVars, cacheVars, sockVars>>

--------------------------------------------------------------------------
(* The unread count: a read-through cache *)

\* getUnreadCount: the cached count is the answer, if there is one.
GetUnreadCount(r, u) ==
    /\ reading[r].at = "idle" /\ cache[u] = {}
    /\ reading' = [reading EXCEPT ![r] = [at |-> "count", user |-> u,
                                          count |-> 0]]
    /\ UNCHANGED <<wants, emitVars, cache, marking, sockVars>>

\* The database's answer to countUnread.
CountUnread(r) ==
    /\ reading[r].at = "count"
    /\ reading' = [reading EXCEPT ![r].at = "store",
                                  ![r].count = Unread(reading[r].user)]
    /\ UNCHANGED <<wants, emitVars, cache, marking, sockVars>>

\* storeRecord writes only where there is nothing (NX).
StoreCount(r) ==
    LET u == reading[r].user
    IN  /\ reading[r].at = "store"
        /\ cache' = IF cache[u] # {} THEN cache
                    ELSE [cache EXCEPT ![u] = {reading[r].count}]
        /\ reading' = [reading EXCEPT ![r] = NoRead]
        /\ UNCHANGED <<wants, emitVars, marking, sockVars>>

\* Mutant: the count is stored without a TTL.
NoTtlCacheExpires(u) == u \notin Users /\ UNCHANGED nvars

\* NOTIFICATION_CACHE_TTL.UNREAD_COUNT
CacheExpires(u) ==
    /\ cache[u] # {}
    /\ cache' = [cache EXCEPT ![u] = {}]
    /\ UNCHANGED <<wants, emitVars, reading, marking, sockVars>>

\* markAsRead, markAllAsRead and deleteNotification write the user's rows ...
WriteMark(u, cs, to) ==
    /\ u \notin marking
    /\ receivers' = [c \in Calls |->
                        IF c \in cs /\ receivers[c][u] \in {"unread", "read"}
                        THEN [receivers[c] EXCEPT ![u] = to]
                        ELSE receivers[c]]
    /\ marking' = marking \cup {u}
    /\ UNCHANGED <<wants, rows, delivered, call, cache, reading, sockVars>>

MarkAsRead(u, c) == WriteMark(u, {c}, "read")
MarkAllAsRead(u) == WriteMark(u, Calls, "read")
DeleteNotification(u, c) == WriteMark(u, {c}, "deleted")

\* ... and drop the cache.
ClearAfterMark(u) ==
    /\ u \in marking
    /\ marking' = marking \ {u}
    /\ DropCaches({u})
    /\ UNCHANGED <<wants, emitVars, reading, sockVars>>

--------------------------------------------------------------------------
(* The gateway *)

Connect(s) ==
    /\ sock[s] = "new"
    /\ sock' = [sock EXCEPT ![s] = "open"]
    /\ verifying' = verifying \cup {s}
    /\ UNCHANGED <<wants, emitVars, cacheVars, online, late>>

\* verifyAccessToken has settled; the connection may be gone by now.
Verified(s) ==
    /\ s \in verifying
    /\ verifying' = verifying \ {s}
    /\ online' = online \cup {s}
    /\ late' = IF sock[s] = "open" THEN late ELSE late \cup {s}
    /\ UNCHANGED <<wants, emitVars, cacheVars, sock>>

\* Mutant: the maps keep the connection.
KeepsGone(s) ==
    /\ sock[s] = "open"
    /\ sock' = [sock EXCEPT ![s] = "gone"]
    /\ UNCHANGED <<wants, emitVars, cacheVars, online, late>>

\* handleDisconnect
Gone(s) ==
    /\ sock[s] = "open"
    /\ sock' = [sock EXCEPT ![s] = "gone"]
    /\ online' = online \ {s}
    /\ UNCHANGED <<wants, emitVars, cacheVars, late>>

Refused(s) == s \in verifying /\ Gone(s) /\ verifying' = verifying \ {s}
Drops(s) == Gone(s) /\ UNCHANGED verifying

\* The process restarts: calls, requests and connections are cut.
NotifRestart ==
    /\ call' = [c \in Calls |-> IF call[c].at \in Underway
                                THEN [call[c] EXCEPT !.at = "cut"] ELSE call[c]]
    /\ reading' = [r \in Reads |-> NoRead]
    /\ marking' = {}
    /\ sock' = [s \in Sockets |-> IF sock[s] = "open" THEN "gone" ELSE sock[s]]
    /\ verifying' = {} /\ online' = {} /\ late' = {}
    /\ UNCHANGED <<wants, rows, receivers, delivered, cache>>

--------------------------------------------------------------------------

\* What users, browsers, the network and failures do.
NotifOutside ==
    \/ \E c \in Calls : EmitFails(c)
    \/ \E u \in Users : \/ UpdatePreferences(u)
                        \/ \E r \in Reads : GetUnreadCount(r, u)
                        \/ \E c \in Calls : MarkAsRead(u, c)
                                            \/ DeleteNotification(u, c)
                        \/ MarkAllAsRead(u)
    \/ \E s \in Sockets : Connect(s) \/ Refused(s) \/ Drops(s)

\* What goes on by itself.
NotifInside ==
    \/ \E c \in Calls : EmitStep(c)
    \/ \E u \in Users : CacheExpires(u) \/ ClearAfterMark(u)
    \/ \E r \in Reads : CountUnread(r) \/ StoreCount(r)
    \/ \E s \in Sockets : Verified(s)

--------------------------------------------------------------------------
(* Properties *)

\* A notification is created once, whoever repeats the call, and not half:
\* a row without its receivers belongs to a call that is about to write them,
\* that threw, or that the restart of the process cut off.
Complete(c) == \A u \in call[c].to : receivers[c][u] # "none"
OrphansAreReported ==
    /\ \A k \in rows : \E c \in Calls :
          /\ call[c].key = k
          /\ \/ call[c].at \in {"receivers", "failed", "cut"}
             \/ call[c].at \in {"landed", "emails", "clear", "done"}
                /\ call[c].to # {} /\ Complete(c)
    /\ \A c, d \in Calls, u, v \in Users :
          /\ call[c].key = call[d].key
          /\ receivers[c][u] # "none" /\ receivers[d][v] # "none"
          => c = d

\* Who counts as online has a connection, except for one that went away while
\* its token was being checked: that entry stays until the process restarts.
OnlineIsConnected == \A s \in online : sock[s] = "open" \/ s \in late

\* Cached counts do not go on contradicting the table: whatever read, write
\* and invalidation raced, in the end what is cached is the truth.
CacheCatchesUp == <>[](\A u \in Users : cache[u] \subseteq {Unread(u)})
============================================================================
