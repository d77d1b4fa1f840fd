------------------------------ MODULE RoomChat ------------------------------
(***************************************************************************)
(* The chat of a room: useBoardChat in each tab, the gateway's sendChat    *)
(* and the table of messages.  A tab reads the latest page over REST and   *)
(* folds what the socket brings into the same cache; the two are ordered   *)
(* by nobody.  Bodies, authors and the limits on them are left out: the    *)
(* server may refuse any message.  The history is kept oldest first, as it *)
(* is shown.                                                               *)
(***************************************************************************)
EXTENDS Integers, Sequences, Functions

CONSTANTS Tabs,       \* browser tabs with the page open; other members only write
          Messages,   \* messages people send, each of them once
          NoData,     \* the cache holds no history
          MaxOutside  \* bound: drops, departures, failures, refetches

ASSUME ChatAssumption == NoData \notin Seq(Messages) /\ MaxOutside \in Nat

VARIABLES
    stored,    \* table board_messages, in the order of createdAt
    post,      \* per message: where sendChat is with it, and the tab it is from
    waiting,   \* messages whose sender still awaits the ack
    conn,      \* per tab: its page and connection
    live,      \* tabs whose status is live
    been,      \* beenLive of each tab
    wire,      \* per tab: what its connection carries to it
    data,      \* per tab: the cached history
    fetch,     \* per tab: the request for the history under way
    owed,      \* history: what a tab's refetch on its return must bring
    crossed,   \* history: two messages were between insert and broadcast at once
    outside

chatVars == <<stored, post, waiting, conn, live, been, wire, data, fetch,
              owed, crossed, outside>>

Idle == [at |-> "none", page |-> <<>>]
Asked == [at |-> "asked", page |-> <<>>]
Read(page) == [at |-> "read", page |-> page]

New == [at |-> "new", from |-> NoData]
Events ==
    [kind : {"message", "ack"}, message : Messages] \cup [kind : {"opened"}]

\* Where a connection is; in the room's channel from "joined" on.
InChannel(t) == conn[t] \in {"joined", "open"}

ChatTypeOK ==
    /\ stored \in Seq(Messages)
    /\ post \in [Messages -> [at : {"new", "sent", "inserted", "done", "refused"},
                              from : Tabs \cup {NoData}]]
    /\ waiting \subseteq Messages
    /\ conn \in [Tabs -> {"closed", "off", "opening", "joined", "open"}]
    /\ live \subseteq Tabs
    /\ been \subseteq Tabs
    /\ wire \in [Tabs -> Seq(Events)]
    /\ data \in [Tabs -> Seq(Messages) \cup {NoData}]
    /\ fetch \in [Tabs -> [at : {"none", "asked", "read"}, page : Seq(Messages)]]
    /\ owed \in [Tabs -> SUBSET Messages]
    /\ crossed \in BOOLEAN
    /\ outside \in 0..MaxOutside

ChatInit ==
    /\ stored = <<>>
    /\ post = [m \in Messages |-> New]
    /\ waiting = {}
    /\ conn = [t \in Tabs |-> "closed"]
    /\ live = {}
    /\ been = {}
    /\ wire = [t \in Tabs |-> <<>>]
    /\ data = [t \in Tabs |-> NoData]
    /\ fetch = [t \in Tabs |-> Idle]
    /\ owed = [t \in Tabs |-> {}]
    /\ crossed = FALSE
    /\ outside = 0

--------------------------------------------------------------------------
(* The history over REST: useQuery and listPage *)

\* Bound: the latest page (BOARD_MESSAGES_PAGE_SIZE) holds every message.
ListPage(t) ==
    /\ fetch[t].at = "asked"
    /\ fetch' = [fetch EXCEPT ![t] = Read(stored)]
    /\ UNCHANGED <<stored, post, waiting, conn, live, been, wire, data, owed, crossed>>

FetchReturns(t) ==
    /\ fetch[t].at = "read"
    /\ fetch' = [fetch EXCEPT ![t] = Idle]
    /\ data' = [data EXCEPT ![t] = fetch[t].page]
    /\ UNCHANGED <<stored, post, waiting, conn, live, been, wire, owed, crossed>>

\* After the retry shouldRetry allows, or at once on a 4xx.
FetchFails(t) ==
    /\ fetch[t].at # "none"
    /\ fetch' = [fetch EXCEPT ![t] = Idle]
    /\ owed' = [owed EXCEPT ![t] = {}]
    /\ UNCHANGED <<stored, post, waiting, conn, live, been, wire, data, crossed>>

\* The button after an error, and React Query when the browser is online again.
Refetch(t) ==
    /\ conn[t] # "closed" /\ fetch[t].at = "none"
    /\ fetch' = [fetch EXCEPT ![t] = Asked]
    /\ UNCHANGED <<stored, post, waiting, conn, live, been, wire, data, owed, crossed>>

\* Mutant: a request that is under way will do.
JoiningInvalidateQueries(t) ==
    /\ fetch' = [fetch EXCEPT ![t] = IF @.at = "none" THEN Asked ELSE @]
    /\ owed' = [owed EXCEPT ![t] = IF data[t] = NoData THEN @ ELSE Range(stored)]

\* invalidateQueries starts afresh, except that it joins the first request
\* for a history that is not there yet.
InvalidateQueries(t) ==
    IF fetch[t].at # "none" /\ data[t] = NoData
    THEN UNCHANGED <<fetch, owed>>
    ELSE /\ fetch' = [fetch EXCEPT ![t] = Asked]
         /\ owed' = [owed EXCEPT ![t] = Range(stored)]

--------------------------------------------------------------------------
(* The connection, as far as the chat depends on it *)

Enter(t) ==
    /\ conn[t] = "closed"
    /\ conn' = [conn EXCEPT ![t] = "off"]
    /\ fetch' = [fetch EXCEPT ![t] = Asked]
    /\ UNCHANGED <<stored, post, waiting, live, been, wire, data, owed, crossed>>

Connect(t) ==
    /\ conn[t] = "off"
    /\ conn' = [conn EXCEPT ![t] = "opening"]
    /\ UNCHANGED <<stored, post, waiting, live, been, wire, data, fetch, owed, crossed>>

\* The gateway's open: into the channel, then the room's load, then the ack.
Join(t) ==
    /\ conn[t] = "opening"
    /\ conn' = [conn EXCEPT ![t] = "joined"]
    /\ UNCHANGED <<stored, post, waiting, live, been, wire, data, fetch, owed, crossed>>

AnswerOpen(t) ==
    /\ conn[t] = "joined"
    /\ conn' = [conn EXCEPT ![t] = "open"]
    /\ wire' = [wire EXCEPT ![t] = Append(@, [kind |-> "opened"])]
    /\ UNCHANGED <<stored, post, waiting, live, been, data, fetch, owed, crossed>>

\* What was sent and not received is lost with the connection; what was
\* received is still stored.  Who awaits an ack is told it did not come.
Disconnect(t) ==
    /\ live' = live \ {t}
    /\ wire' = [wire EXCEPT ![t] = <<>>]
    /\ waiting' = {m \in waiting : post[m].from # t}
    /\ \E lost \in SUBSET {m \in Messages : post[m] = [at |-> "sent", from |-> t]} :
          post' = [m \in Messages |->
                     IF m \in lost THEN [post[m] EXCEPT !.at = "refused"] ELSE post[m]]

Drop(t) ==
    /\ conn[t] \in {"opening", "joined", "open"}
    /\ conn' = [conn EXCEPT ![t] = "off"]
    /\ Disconnect(t)
    /\ UNCHANGED <<stored, been, data, fetch, owed, crossed>>

\* The page is left: the request is cancelled (it took the signal), the
\* cache is kept for a while.
Leave(t) ==
    /\ conn[t] # "closed"
    /\ conn' = [conn EXCEPT ![t] = "closed"]
    /\ Disconnect(t)
    /\ been' = been \ {t}
    /\ fetch' = [fetch EXCEPT ![t] = Idle]
    /\ owed' = [owed EXCEPT ![t] = {}]
    /\ data' \in {data, [data EXCEPT ![t] = NoData]}
    /\ UNCHANGED <<stored, crossed>>

--------------------------------------------------------------------------
(* What the socket brings *)

\* Mutant: the new message goes to the other end.
MisplacedWithMessage(history, m) ==
    IF history = NoData \/ m \in Range(history) THEN history ELSE <<m>> \o history

WithMessage(history, m) ==
    IF history = NoData \/ m \in Range(history) THEN history ELSE Append(history, m)

Take(t, kind) ==
    /\ wire[t] # <<>>
    /\ Head(wire[t]).kind = kind
    /\ wire' = [wire EXCEPT ![t] = Tail(@)]

Receive(t) ==
    /\ Take(t, "message")
    /\ data' = [data EXCEPT ![t] = WithMessage(@, Head(wire[t]).message)]
    /\ UNCHANGED <<stored, post, waiting, conn, live, been, fetch, owed, crossed>>

Acked(t) ==
    /\ Take(t, "ack")
    /\ LET m == Head(wire[t]).message
       IN  /\ data' = IF m \in waiting
                      THEN [data EXCEPT ![t] = WithMessage(@, m)] ELSE data
           /\ waiting' = waiting \ {m}
    /\ UNCHANGED <<stored, post, conn, live, been, fetch, owed, crossed>>

\* The room is open: live, and back from a drop the history is fetched again.
GoesLive(t) ==
    /\ Take(t, "opened")
    /\ live' = live \cup {t}
    /\ been' = been \cup {t}
    /\ IF t \in been THEN InvalidateQueries(t) ELSE UNCHANGED <<fetch, owed>>
    /\ UNCHANGED <<stored, post, waiting, conn, data, crossed>>

\* The ack came after OPEN_TIMEOUT_MS: in the channel, but never live.
OpenTimesOut(t) ==
    /\ Take(t, "opened")
    /\ UNCHANGED <<stored, post, waiting, conn, live, been, data, fetch, owed, crossed>>

--------------------------------------------------------------------------
(* Sending: send in the tab, sendChat and BoardChatService.post *)

SendMessage(t, m) ==
    /\ t \in live
    /\ post[m] = New
    /\ post' = [post EXCEPT ![m] = [at |-> "sent", from |-> t]]
    /\ waiting' = waiting \cup {m}
    /\ UNCHANGED <<stored, conn, live, been, wire, data, fetch, owed, crossed>>

\* A member whose tab is not among Tabs.
OtherSends(m) ==
    /\ post[m] = New
    /\ post' = [post EXCEPT ![m].at = "sent"]
    /\ UNCHANGED <<stored, waiting, conn, live, been, wire, data, fetch, owed, crossed>>

\* No room, too fast, empty, too long, or the insert failed.
Refuse(m) ==
    /\ post[m].at = "sent"
    /\ post' = [post EXCEPT ![m].at = "refused"]
    /\ waiting' = waiting \ {m}
    /\ UNCHANGED <<stored, conn, live, been, wire, data, fetch, owed, crossed>>

InsertMessage(m) ==
    /\ post[m].at = "sent"
    /\ stored' = Append(stored, m)
    /\ post' = [post EXCEPT ![m].at = "inserted"]
    /\ crossed' = (crossed \/ \E n \in Messages : post[n].at = "inserted")
    /\ UNCHANGED <<waiting, conn, live, been, wire, data, fetch, owed>>

\* Read back with its author, it goes to the channel and, acked, to its sender.
Broadcast(m) ==
    /\ post[m].at = "inserted"
    /\ post' = [post EXCEPT ![m].at = "done"]
    /\ wire' = [t \in Tabs |->
                  wire[t]
                  \o (IF InChannel(t)
                      THEN <<[kind |-> "message", message |-> m]>> ELSE <<>>)
                  \o (IF t = post[m].from /\ m \in waiting
                      THEN <<[kind |-> "ack", message |-> m]>> ELSE <<>>)]
    /\ UNCHANGED <<stored, waiting, conn, live, been, data, fetch, owed, crossed>>

\* The query that reads it back fails: stored, told to nobody.
ReadBackFails(m) ==
    /\ post[m].at = "inserted"
    /\ post' = [post EXCEPT ![m].at = "refused"]
    /\ waiting' = waiting \ {m}
    /\ UNCHANGED <<stored, conn, live, been, wire, data, fetch, owed, crossed>>

SendTimesOut(m) ==
    /\ m \in waiting
    /\ waiting' = waiting \ {m}
    /\ UNCHANGED <<stored, post, conn, live, been, wire, data, fetch, owed, crossed>>

--------------------------------------------------------------------------
ChatOutside ==
    /\ outside < MaxOutside
    /\ outside' = outside + 1
    /\ \/ \E t \in Tabs : FetchFails(t) \/ Refetch(t) \/ Drop(t) \/ Leave(t)
                          \/ OpenTimesOut(t)
       \/ \E m \in Messages : Refuse(m) \/ ReadBackFails(m) \/ SendTimesOut(m)

ChatInside ==
    /\ UNCHANGED outside
    /\ \/ \E t \in Tabs :
             \/ ListPage(t) \/ FetchReturns(t)
             \/ Enter(t) \/ Connect(t) \/ Join(t) \/ AnswerOpen(t)
             \/ Receive(t) \/ Acked(t) \/ GoesLive(t)
             \/ \E m \in Messages : SendMessage(t, m)
       \/ \E m \in Messages : OtherSends(m) \/ InsertMessage(m) \/ Broadcast(m)

ChatNext == ChatOutside \/ ChatInside

ChatSpec == ChatInit /\ [][ChatNext]_chatVars

--------------------------------------------------------------------------
(* Properties *)

\* "Back from a dropped connection: fetch what was said meanwhile"
\* (use-board-chat.ts:63): once that request is done, everything stored when
\* the tab was live again is shown, whatever the socket brought before or
\* since and whatever request was under way.  A tab that had no page yet is
\* left out: it waits for its first request, which may have been read before.
AwayIsCaughtUp ==
    \A t \in Tabs :
        fetch[t].at = "none"
        => \A m \in owed[t] : data[t] # NoData /\ m \in Range(data[t])

\* Stored, one before the other.
Before(m, n) == \E i, j \in DOMAIN stored : i < j /\ stored[i] = m /\ stored[j] = n

\* "Oldest first, for reading top to bottom" (use-board-chat.ts:93): pages
\* that replace the cache, broadcasts and acks leave the messages a tab shows
\* in the order they were stored in, none of them twice, as long as no two
\* messages were between their insert and their broadcast at once.
OldestFirst ==
    ~crossed =>
        \A t \in Tabs :
            data[t] # NoData
            => /\ Range(data[t]) \subseteq Range(stored)
               /\ \A i, j \in DOMAIN data[t] : i < j => Before(data[t][i], data[t][j])

--------------------------------------------------------------------------
(* The inductive invariant of AwayIsCaughtUp and OldestFirst *)

\* A message is stored once, and one that is yet to be told to the room
\* is the latest unless others were crossed with it.
StoredOK ==
    /\ \A i, j \in DOMAIN stored : stored[i] = stored[j] => i = j
    /\ \A m \in Range(stored) : post[m].at \in {"inserted", "done", "refused"}
    /\ \A m \in Messages : post[m].at \in {"inserted", "done"} => m \in Range(stored)
    /\ ~crossed => \A m \in Messages :
                      post[m].at = "inserted" => \A n \in Range(stored) : ~Before(m, n)

\* A page that was read is what was stored by then; it holds what is owed.
FetchOK(t) ==
    /\ fetch[t].at = "read" =>
          /\ Len(fetch[t].page) <= Len(stored)
          /\ \A i \in DOMAIN fetch[t].page : fetch[t].page[i] = stored[i]
    /\ owed[t] \subseteq Range(stored)
    /\ fetch[t].at = "read" => owed[t] \subseteq Range(fetch[t].page)
    /\ fetch[t].at = "none" /\ owed[t] # {} =>
          data[t] # NoData /\ owed[t] \subseteq Range(data[t])

\* What a connection carries is in the order of the table, and a tab that
\* shows a later message shows it already.
Carried(t) == {i \in DOMAIN wire[t] : wire[t][i].kind # "opened"}

WireOK(t) ==
    /\ \A i \in Carried(t) : wire[t][i].message \in Range(stored)
    /\ ~crossed =>
          /\ \A i, j \in Carried(t) :
                i < j => ~Before(wire[t][j].message, wire[t][i].message)
          /\ data[t] # NoData =>
                \A i \in Carried(t), n \in Range(data[t]) :
                   Before(wire[t][i].message, n) => wire[t][i].message \in Range(data[t])

ChatInv == ChatTypeOK /\ StoredOK /\ (\A t \in Tabs : FetchOK(t) /\ WireOK(t)) /\ OldestFirst
=============================================================================
