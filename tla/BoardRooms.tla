----------------------------- MODULE BoardRooms -----------------------------
(***************************************************************************)
(* The live side of one board document: BoardRoomsService for one key      *)
(* `kind:boardId`, the gateway handlers that call it, the document's row   *)
(* in Postgres and the hourly sweep that deletes an expired board.         *)
(*                                                                         *)
(* The API is one Node process, so what runs between two awaits is one     *)
(* atomic step here, and every await that leaves the process (a query, a   *)
(* write, a timer) separates two steps.  Microtask continuations of one    *)
(* macrotask belong to the same step.                                      *)
(*                                                                         *)
(* A Yjs document is the set of edits merged into it (merging is union),   *)
(* each edit one unit of size.  Every document that exists holds Starter,  *)
(* its seed or the files it was started from, so the empty set stands for  *)
(* "no row".                                                               *)
(***************************************************************************)
EXTENDS Integers, FiniteSets

CONSTANTS
    Sockets,     \* connection ids; a reconnect is another member
    Edits,       \* edits clients can send
    Starter,     \* the seed, or the files the project was started from
    Rooms,       \* identities of LiveRoom objects, recycled once unreachable
    SaveIds,     \* at most this many writes of the key are in flight
    NoRoom,      \* the map has no entry for the key
    Kind,        \* "code" (seeded on first open) or "sandbox" (started over REST)
    MaxBytes,    \* BOARD_MAX_DOC_BYTES, in edits
    MaxStrays,   \* bound: unload timers of a room nobody holds a handle to
    DbFails,     \* the database may refuse a query or lose its answer
    SlowWrites   \* a write may still be in flight when an idle timer fires

ASSUME KindAssumption == Kind \in {"code", "sandbox"}
ASSUME NamesAssumption == NoRoom \notin Rooms /\ Starter \notin Edits
ASSUME BoundsAssumption == MaxBytes \in Nat /\ MaxStrays \in Nat
ASSUME SwitchAssumption == DbFails \in BOOLEAN /\ SlowWrites \in BOOLEAN
ASSUME EditsAssumption == IsFiniteSet(Edits)

VARIABLES
    live,        \* rooms.get(key)
    fetch,       \* loading.get(key): the pending load and the row it read
    status,      \* per LiveRoom object: free, open or disposed
    doc,         \* per object: the edits its Y.Doc holds
    sockets,     \* per object: who has it open
    dirty,       \* per object: dirtySince is set
    saveTimer,   \* per object: a debounced save is pending
    unloadTimer, \* per object: the timer its handle refers to is pending
    strays,      \* per object: pending unload timers whose handle was overwritten
    bytes,       \* per object: the size counter
    writes,      \* saves awaiting the database
    row,         \* the stored state
    board,       \* the board's own row still exists
    expired,     \* expiresAt has passed
    sweep,       \* where the expiry sweep is with this board
    conn,        \* per socket: still connected
    opening,     \* per socket: where its open handler awaits
    opened,      \* per socket: client.data knows the board
    channel,     \* sockets in the Socket.IO room the broadcasts go to
    orderly      \* history: no write overlapped, no unload hit another object

roomVars == <<status, doc, sockets, dirty, saveTimer, unloadTimer, strays, bytes>>
connVars == <<conn, opening, opened, channel>>
boardVars == <<board, expired>>
vars == <<live, fetch, roomVars, writes, row, boardVars, sweep, connVars, orderly>>

Content == Edits \cup {Starter}
NoRow == {}
NoFetch == [phase |-> "none", state |-> NoRow]

Write == [id: SaveIds, room: Rooms, state: SUBSET Content,
          by: {"timer", "leave"}, phase: {"sent", "landed"}]

TypeOK ==
    /\ live \in Rooms \cup {NoRoom}
    /\ fetch \in [phase: {"none", "asked", "read"}, state: SUBSET Content]
    /\ status \in [Rooms -> {"free", "open", "disposed"}]
    /\ doc \in [Rooms -> SUBSET Content]
    /\ sockets \in [Rooms -> SUBSET Sockets]
    /\ dirty \in [Rooms -> BOOLEAN]
    /\ saveTimer \in [Rooms -> BOOLEAN]
    /\ unloadTimer \in [Rooms -> BOOLEAN]
    /\ strays \in [Rooms -> Nat]
    /\ bytes \in [Rooms -> Nat]
    /\ writes \in SUBSET Write
    /\ row \in SUBSET Content
    /\ board \in BOOLEAN
    /\ expired \in BOOLEAN
    /\ sweep \in {"idle", "found", "waiting", "evicting", "deleting", "done"}
    /\ conn \in [Sockets -> BOOLEAN]
    /\ opening \in [Sockets -> {"idle", "member", "waiting"}]
    /\ opened \in [Sockets -> BOOLEAN]
    /\ channel \in SUBSET Sockets
    /\ orderly \in BOOLEAN

Init ==
    /\ live = NoRoom
    /\ fetch = NoFetch
    /\ status = [r \in Rooms |-> "free"]
    /\ doc = [r \in Rooms |-> {}]
    /\ sockets = [r \in Rooms |-> {}]
    /\ dirty = [r \in Rooms |-> FALSE]
    /\ saveTimer = [r \in Rooms |-> FALSE]
    /\ unloadTimer = [r \in Rooms |-> FALSE]
    /\ strays = [r \in Rooms |-> 0]
    /\ bytes = [r \in Rooms |-> 0]
    /\ writes = {}
    /\ row = NoRow
    /\ board = TRUE
    /\ expired = FALSE
    /\ sweep = "idle"
    /\ conn = [s \in Sockets |-> FALSE]
    /\ opening = [s \in Sockets |-> "idle"]
    /\ opened = [s \in Sockets |-> FALSE]
    /\ channel = {}
    /\ orderly = TRUE

-----------------------------------------------------------------------------
(* What the handlers are built from.                                       *)

\* rooms.get(key)?.sockets.has(socketId)
Joined(s) == live # NoRoom /\ s \in sockets[live]

Waiting == {s \in Sockets : opening[s] = "waiting"}

InFlight(r) == {w \in writes : w.room = r}

\* room.unloadTimer = setTimeout(...): the old handle is overwritten, not cleared.
ArmUnload(r) ==
    /\ unloadTimer' = [unloadTimer EXCEPT ![r] = TRUE]
    /\ \/ unloadTimer[r] /\ strays[r] < MaxStrays
          /\ strays' = [strays EXCEPT ![r] = @ + 1]
       \/ ~unloadTimer[r] /\ strays' = strays

\* Mutation: marks the room unsaved but schedules nothing.
ScheduleSave_OnlyMarks(r) ==
    /\ dirty' = [dirty EXCEPT ![r] = TRUE]
    /\ saveTimer' = saveTimer

\* scheduleSave: the debounce restarts, capped by the age of the first edit.
ScheduleSave(r) ==
    /\ dirty' = [dirty EXCEPT ![r] = TRUE]
    /\ saveTimer' = [saveTimer EXCEPT ![r] = TRUE]

\* save() up to its await, on a dirty room: the snapshot is taken and the room
\* counts as saved before the write is answered.
SendWrite(r, by) ==
    /\ saveTimer' = [saveTimer EXCEPT ![r] = FALSE]
    /\ dirty' = [dirty EXCEPT ![r] = FALSE]
    /\ \E i \in SaveIds \ {w.id : w \in writes} :
          writes' = writes \cup
              {[id |-> i, room |-> r, state |-> doc[r], by |-> by, phase |-> "sent"]}
    /\ orderly' = (orderly /\ writes = {})

\* BoardRoomsService.leave; the last one out saves, then arms the unload timer.
LeaveRoom(s) ==
    \/ /\ ~Joined(s)
       /\ UNCHANGED <<sockets, dirty, saveTimer, unloadTimer, strays, writes, orderly>>
    \/ /\ Joined(s)
       /\ sockets' = [sockets EXCEPT ![live] = @ \ {s}]
       /\ \/ /\ sockets[live] # {s}
             /\ UNCHANGED <<dirty, saveTimer, unloadTimer, strays, writes, orderly>>
          \/ /\ sockets[live] = {s} /\ dirty[live]
             /\ SendWrite(live, "leave")
             /\ UNCHANGED <<unloadTimer, strays>>
          \/ /\ sockets[live] = {s} /\ ~dirty[live]
             /\ saveTimer' = [saveTimer EXCEPT ![live] = FALSE]
             /\ ArmUnload(live)
             /\ UNCHANGED <<dirty, writes, orderly>>

-----------------------------------------------------------------------------
(* The gateway: a connection, its open handler, its updates, its end.      *)

\* A connection gets a fresh id and a client.data that knows no board; a member
\* of Sockets is recycled once nothing on the server refers to it any more.
Connect(s) ==
    /\ ~conn[s] /\ opening[s] = "idle" /\ s \notin channel
    /\ \A r \in Rooms : s \notin sockets[r]
    /\ conn' = [conn EXCEPT ![s] = TRUE]
    /\ opened' = [opened EXCEPT ![s] = FALSE]
    /\ UNCHANGED <<live, fetch, roomVars, writes, row, boardVars, sweep,
                   opening, channel, orderly>>

\* BoardsGateway.open / openSandbox: the awaited feature checks and
\* requireMember's queries find everything there (otherwise the open is refused
\* and nothing has changed).  One open per socket at a time: the client waits
\* for its ack.
OpenStart(s) ==
    /\ conn[s] /\ opening[s] = "idle" /\ board
    /\ opening' = [opening EXCEPT ![s] = "member"]
    /\ UNCHANGED <<live, fetch, roomVars, writes, row, boardVars, sweep,
                   conn, opened, channel, orderly>>

\* requireMember refuses an expired board, by the clock after its queries.
OpenExpired(s) ==
    /\ opening[s] = "member" /\ expired
    /\ opening' = [opening EXCEPT ![s] = "idle"]
    /\ UNCHANGED <<live, fetch, roomVars, writes, row, boardVars, sweep,
                   conn, opened, channel, orderly>>

\* The room is in memory: the socket joins and is answered in the same turn.
OpenLive(s) ==
    /\ opening[s] = "member" /\ ~expired /\ live # NoRoom
    /\ opening' = [opening EXCEPT ![s] = "idle"]
    /\ opened' = [opened EXCEPT ![s] = TRUE]
    /\ channel' = channel \cup {s}
    /\ unloadTimer' = [unloadTimer EXCEPT ![live] = FALSE]
    /\ sockets' = [sockets EXCEPT ![live] = @ \cup {s}]
    /\ UNCHANGED <<live, fetch, status, doc, dirty, saveTimer, strays, bytes,
                   writes, row, boardVars, sweep, conn, orderly>>

\* Mutation: the Socket.IO room is joined only on the way that finds a room.
OpenLoads_Unheard(s) ==
    /\ opening[s] = "member" /\ ~expired /\ live = NoRoom
    /\ opening' = [opening EXCEPT ![s] = "waiting"]
    /\ opened' = [opened EXCEPT ![s] = (Kind = "code" \/ @)]
    /\ \/ fetch.phase = "none" /\ fetch' = [NoFetch EXCEPT !.phase = "asked"]
       \/ fetch.phase # "none" /\ fetch' = fetch
    /\ UNCHANGED <<live, roomVars, writes, row, boardVars, sweep, conn, channel, orderly>>

\* It is not: the handler waits for the pending load, starting it if need be.
OpenLoads(s) ==
    /\ opening[s] = "member" /\ ~expired /\ live = NoRoom
    /\ opening' = [opening EXCEPT ![s] = "waiting"]
    /\ opened' = [opened EXCEPT ![s] = (Kind = "code" \/ @)]
    /\ channel' = channel \cup {s}
    /\ \/ fetch.phase = "none" /\ fetch' = [NoFetch EXCEPT !.phase = "asked"]
       \/ fetch.phase # "none" /\ fetch' = fetch
    /\ UNCHANGED <<live, roomVars, writes, row, boardVars, sweep, conn, orderly>>

\* applyUpdate: an edit from a socket that has joined, within the size limit
\* (past it the update is refused and nothing changes).
Update(s, e) ==
    /\ conn[s] /\ opened[s] /\ Joined(s)
    /\ e \notin doc[live] /\ bytes[live] + 1 <= MaxBytes
    /\ bytes' = [bytes EXCEPT ![live] = @ + 1]
    /\ doc' = [doc EXCEPT ![live] = @ \cup {e}]
    /\ ScheduleSave(live)
    /\ UNCHANGED <<live, fetch, status, sockets, unloadTimer, strays, writes,
                   row, boardVars, sweep, connVars, orderly>>

\* BoardsGateway.leave / leaveSandbox
Leave(s) ==
    /\ conn[s] /\ opened[s]
    /\ opened' = [opened EXCEPT ![s] = FALSE]
    /\ channel' = channel \ {s}
    /\ LeaveRoom(s)
    /\ UNCHANGED <<live, fetch, status, doc, bytes, row, boardVars, sweep,
                   conn, opening>>

\* handleDisconnect: leaves what client.data knows, and nothing else.  Nothing
\* reads this connection's client.data again.
Disconnect(s) ==
    /\ conn[s]
    /\ conn' = [conn EXCEPT ![s] = FALSE]
    /\ opened' = [opened EXCEPT ![s] = FALSE]
    /\ channel' = channel \ {s}
    /\ \/ opened[s] /\ LeaveRoom(s)
       \/ /\ ~opened[s]
          /\ UNCHANGED <<sockets, dirty, saveTimer, unloadTimer, strays, writes, orderly>>
    /\ UNCHANGED <<live, fetch, status, doc, bytes, row, boardVars, sweep, opening>>

-----------------------------------------------------------------------------
(* Loading the room.                                                       *)

\* The query behind spec.load runs in the database.
LoadRead ==
    /\ fetch.phase = "asked"
    /\ fetch' = [phase |-> "read", state |-> row]
    /\ orderly' = (orderly /\ writes = {})
    /\ UNCHANGED <<live, roomVars, writes, row, boardVars, sweep, connVars>>

\* Mutation: only one of those waiting hears of it.
LoadSettles_WakesOne ==
    /\ fetch' = NoFetch
    /\ \E s \in Waiting : opening' = [opening EXCEPT ![s] = "idle"]
    /\ sweep' = IF sweep = "waiting" THEN "evicting" ELSE sweep

\* Mutation: the sweep that awaits the load is not resumed.
LoadSettles_NoSweep ==
    /\ fetch' = NoFetch
    /\ opening' = [s \in Sockets |-> IF s \in Waiting THEN "idle" ELSE opening[s]]
    /\ sweep' = sweep

\* The load's promise settles: everyone waiting goes on, the sweep after them.
LoadSettles ==
    /\ fetch' = NoFetch
    /\ opening' = [s \in Sockets |-> IF s \in Waiting THEN "idle" ELSE opening[s]]
    /\ sweep' = IF sweep = "waiting" THEN "evicting" ELSE sweep

\* Every open that awaited the load fails with it.
LoadFails ==
    /\ DbFails /\ fetch.phase # "none"
    /\ LoadSettles
    /\ UNCHANGED <<live, roomVars, writes, row, boardVars, conn, opened, channel, orderly>>

\* The query found a row.
RowFound == fetch.state # NoRow

\* A project nobody has started: the opens answer ready: false.
LoadFindsNothing ==
    /\ fetch.phase = "read" /\ ~RowFound /\ Kind = "sandbox"
    /\ LoadSettles
    /\ channel' = channel \ Waiting
    /\ UNCHANGED <<live, roomVars, writes, row, boardVars, conn, opened, orderly>>

\* The room goes into the map, seeded and unsaved if it had no row, and every
\* open that awaited it joins.
LoadOpensRoom(r) ==
    /\ fetch.phase = "read" /\ (RowFound \/ Kind = "code")
    /\ status[r] = "free"
    /\ LoadSettles
    /\ live' = r
    /\ status' = [status EXCEPT ![r] = "open"]
    /\ LET content == IF RowFound THEN fetch.state ELSE {Starter}
       IN  /\ doc' = [doc EXCEPT ![r] = content]
           /\ bytes' = [bytes EXCEPT ![r] = Cardinality(content)]
    /\ dirty' = [dirty EXCEPT ![r] = ~RowFound]
    /\ saveTimer' = [saveTimer EXCEPT ![r] = ~RowFound]
    /\ sockets' = [sockets EXCEPT ![r] = Waiting]
    /\ opened' = [s \in Sockets |-> opened[s] \/ (Kind = "sandbox" /\ s \in Waiting)]
    /\ UNCHANGED <<unloadTimer, strays, writes, row, boardVars, conn, channel, orderly>>

-----------------------------------------------------------------------------
(* Saving and unloading.                                                   *)

\* scheduleSave's timer: at most two seconds after the last edit, ten after
\* the first unsaved one.
SaveTimeout(r) ==
    /\ saveTimer[r]
    /\ \/ dirty[r] /\ SendWrite(r, "timer")
       \/ /\ ~dirty[r]
          /\ saveTimer' = [saveTimer EXCEPT ![r] = FALSE]
          /\ UNCHANGED <<dirty, writes, orderly>>
    /\ UNCHANGED <<live, fetch, status, doc, sockets, unloadTimer, strays, bytes,
                   row, boardVars, sweep, connVars>>

\* The upsert commits.  Nothing orders it among the writes in flight.
WriteLands(w) ==
    /\ w \in writes /\ w.phase = "sent" /\ board
    /\ row' = w.state
    /\ writes' = (writes \ {w}) \cup {[w EXCEPT !.phase = "landed"]}
    /\ UNCHANGED <<live, fetch, roomVars, boardVars, sweep, connVars, orderly>>

\* Mutation: a leave that awaited a save arms nothing.
AfterSave_NoTimer(w) ==
    /\ writes' = writes \ {w}
    /\ UNCHANGED <<unloadTimer, strays>>

\* save() is over; a leave that awaited it goes on to arm the unload timer.
AfterSave(w) ==
    /\ writes' = writes \ {w}
    /\ \/ w.by = "leave" /\ ArmUnload(w.room)
       \/ w.by = "timer" /\ UNCHANGED <<unloadTimer, strays>>

\* Mutation: dirtySince is cleared after the write, not before it.
WriteSucceeds_ClearsLate(w) ==
    /\ w \in writes /\ w.phase = "landed"
    /\ dirty' = [dirty EXCEPT ![w.room] = FALSE]
    /\ bytes' = [bytes EXCEPT ![w.room] = Cardinality(w.state)]
    /\ AfterSave(w)
    /\ UNCHANGED <<live, fetch, status, doc, sockets, saveTimer,
                   row, boardVars, sweep, connVars, orderly>>

WriteSucceeds(w) ==
    /\ w \in writes /\ w.phase = "landed"
    /\ bytes' = [bytes EXCEPT ![w.room] = Cardinality(w.state)]
    /\ AfterSave(w)
    /\ UNCHANGED <<live, fetch, status, doc, sockets, dirty, saveTimer,
                   row, boardVars, sweep, connVars, orderly>>

\* Mutation: a failed save is taken for a successful one.
WriteFails_Forgotten(w) ==
    /\ w \in writes
    /\ DbFails \/ (w.phase = "sent" /\ ~board)
    /\ AfterSave(w)
    /\ UNCHANGED <<live, fetch, status, doc, sockets, dirty, saveTimer, bytes,
                   row, boardVars, sweep, connVars, orderly>>

\* The database refuses it (without a board the foreign key does), or its
\* answer is lost: the room is unsaved again, with no timer.
WriteFails(w) ==
    /\ w \in writes
    /\ DbFails \/ (w.phase = "sent" /\ ~board)
    /\ dirty' = [dirty EXCEPT ![w.room] = TRUE]
    /\ AfterSave(w)
    /\ UNCHANGED <<live, fetch, status, doc, sockets, saveTimer, bytes,
                   row, boardVars, sweep, connVars, orderly>>

\* dispose(): the timers it has handles to are cleared, the document destroyed.
Dispose(r) ==
    /\ status' = [status EXCEPT ![r] = "disposed"]
    /\ saveTimer' = [saveTimer EXCEPT ![r] = FALSE]
    /\ unloadTimer' = [unloadTimer EXCEPT ![r] = FALSE]
    /\ doc' = [doc EXCEPT ![r] = {}]

\* Mutation: an empty room is unloaded whether or not it is saved.
Unload_Unsaved(r) ==
    /\ sockets[r] = {}
    /\ Dispose(r)
    /\ live' = NoRoom
    /\ orderly' = (orderly /\ live \in {r, NoRoom})

\* unload(): a room in use or unsaved stays; an empty, saved one is disposed
\* of and the key leaves the map, whichever room the map holds under it.
Unload(r) ==
    /\ sockets[r] = {} /\ ~dirty[r]
    /\ Dispose(r)
    /\ live' = NoRoom
    /\ orderly' = (orderly /\ live \in {r, NoRoom})

Stays(r) ==
    /\ sockets[r] # {} \/ dirty[r]
    /\ UNCHANGED <<live, status, saveTimer, doc, orderly>>

\* The idle minute of the timer the room has a handle to is over.  Timers of
\* equal delay run out in the order they were armed, the strays before it.
IdleTimeout(r) ==
    /\ unloadTimer[r] /\ strays[r] = 0 /\ (SlowWrites \/ InFlight(r) = {})
    /\ \/ Unload(r)
       \/ Stays(r) /\ unloadTimer' = [unloadTimer EXCEPT ![r] = FALSE]
    /\ UNCHANGED <<fetch, sockets, dirty, strays, bytes, writes,
                   row, boardVars, sweep, connVars>>

HasStray(r) == strays[r] > 0

\* The same of a timer whose handle was overwritten; dispose() clears only
\* the one it has a handle to.
StrayTimeout(r) ==
    /\ HasStray(r) /\ (SlowWrites \/ InFlight(r) = {})
    /\ strays' = [strays EXCEPT ![r] = @ - 1]
    /\ \/ Unload(r)
       \/ Stays(r) /\ UNCHANGED unloadTimer
    /\ UNCHANGED <<fetch, sockets, dirty, bytes, writes,
                   row, boardVars, sweep, connVars>>

\* An object off the map that no timer or write refers to is garbage.
Collect(r) ==
    /\ status[r] # "free" /\ live # r
    /\ ~saveTimer[r] /\ ~unloadTimer[r] /\ strays[r] = 0 /\ InFlight(r) = {}
    /\ status' = [status EXCEPT ![r] = "free"]
    /\ doc' = [doc EXCEPT ![r] = {}]
    /\ sockets' = [sockets EXCEPT ![r] = {}]
    /\ dirty' = [dirty EXCEPT ![r] = FALSE]
    /\ bytes' = [bytes EXCEPT ![r] = 0]
    /\ UNCHANGED <<live, fetch, saveTimer, unloadTimer, strays, writes,
                   row, boardVars, sweep, connVars, orderly>>

-----------------------------------------------------------------------------
(* The project's REST start, and the expiry of the board.                  *)

\* createIfAbsent: the insert does nothing if the room already has a project.
StartProject ==
    /\ Kind = "sandbox" /\ board /\ row = NoRow
    /\ row' = {Starter}
    /\ UNCHANGED <<live, fetch, roomVars, writes, boardVars, sweep, connVars, orderly>>

\* The clock passes expiresAt, and never goes back.
Expire ==
    /\ ~expired
    /\ expired' = TRUE
    /\ UNCHANGED <<live, fetch, roomVars, writes, row, board, sweep, connVars, orderly>>

\* The hourly sweep's findExpiredIds returns this board.
SweepFinds ==
    /\ sweep = "idle" /\ expired /\ board
    /\ sweep' = "found"
    /\ UNCHANGED <<live, fetch, roomVars, writes, row, boardVars, connVars, orderly>>

\* Mutation: the room is disposed of and stays in the map.
EvictRoom_KeepsKey ==
    /\ sweep' = "deleting"
    /\ live' = live
    /\ \/ live = NoRoom /\ UNCHANGED <<status, saveTimer, unloadTimer, doc>>
       \/ live # NoRoom /\ Dispose(live)

\* evict() after its await: the room leaves the map unsaved.
EvictRoom ==
    /\ sweep' = "deleting"
    /\ live' = NoRoom
    /\ \/ live = NoRoom /\ UNCHANGED <<status, saveTimer, unloadTimer, doc>>
       \/ live # NoRoom /\ Dispose(live)

\* Mutation: evict() does not look for a pending load.
SweepEvicts_NoWait ==
    /\ sweep \in {"found", "evicting"}
    /\ EvictRoom
    /\ UNCHANGED <<fetch, sockets, dirty, strays, bytes, writes, row,
                   boardVars, connVars, orderly>>

\* evict() is called: with no load pending it goes straight on.
SweepEvicts ==
    /\ \/ sweep = "found" /\ fetch.phase = "none"
       \/ sweep = "evicting"
    /\ EvictRoom
    /\ UNCHANGED <<fetch, sockets, dirty, strays, bytes, writes, row,
                   boardVars, connVars, orderly>>

\* Otherwise it awaits that load first (LoadSettles wakes it).
SweepWaits ==
    /\ sweep = "found" /\ fetch.phase # "none"
    /\ sweep' = "waiting"
    /\ UNCHANGED <<live, fetch, roomVars, writes, row, boardVars, connVars, orderly>>

\* deleteByIds: the board goes and its document cascades with it.
SweepDeletes ==
    /\ sweep = "deleting"
    /\ sweep' = "done"
    /\ board' = FALSE
    /\ row' = NoRow
    /\ UNCHANGED <<live, fetch, roomVars, writes, expired, connVars, orderly>>

\* It fails: sweep() logs it and the next hour tries again.
SweepFails ==
    /\ DbFails /\ sweep = "deleting"
    /\ sweep' = "idle"
    /\ UNCHANGED <<live, fetch, roomVars, writes, row, boardVars, connVars, orderly>>

-----------------------------------------------------------------------------
SocketStep(s) ==
    \/ Connect(s) \/ OpenStart(s) \/ OpenExpired(s) \/ OpenLive(s) \/ OpenLoads(s)
    \/ \E e \in Edits : Update(s, e)
    \/ Leave(s) \/ Disconnect(s)

RoomStep(r) ==
    \/ LoadOpensRoom(r) \/ SaveTimeout(r)
    \/ IdleTimeout(r) \/ StrayTimeout(r) \/ Collect(r)

WriteStep(i) ==
    \E w \in writes :
        w.id = i /\ (WriteLands(w) \/ WriteSucceeds(w) \/ WriteFails(w))

SweepStep ==
    \/ SweepFinds \/ SweepWaits \/ SweepEvicts \/ SweepDeletes \/ SweepFails

Next ==
    \/ \E s \in Sockets : SocketStep(s)
    \/ \E r \in Rooms : RoomStep(r)
    \/ LoadRead \/ LoadFails \/ LoadFindsNothing
    \/ \E i \in SaveIds : WriteStep(i)
    \/ StartProject \/ Expire
    \/ SweepStep

Spec == Init /\ [][Next]_vars

\* Node runs every continuation and timer that is due, the database answers,
\* and cron fires every hour; nobody has to connect, edit, leave or fail.
Fairness ==
    /\ \A s \in Sockets :
          WF_vars(OpenExpired(s) \/ OpenLive(s) \/ OpenLoads(s))
    /\ WF_vars(LoadRead)
    /\ WF_vars(LoadFindsNothing \/ \E r \in Rooms : LoadOpensRoom(r))
    /\ \A r \in Rooms : /\ WF_vars(SaveTimeout(r))
                        /\ WF_vars(IdleTimeout(r) \/ StrayTimeout(r))
                        /\ WF_vars(Collect(r))
    /\ \A i \in SaveIds : WF_vars(WriteStep(i))
    /\ WF_vars(SweepFinds \/ SweepWaits \/ SweepEvicts \/ SweepDeletes)

FairSpec == Spec /\ Fairness

-----------------------------------------------------------------------------
(* Safety.                                                                 *)

\* Object identity: the room the map holds is never one that was disposed of,
\* so an edit is never accepted into a destroyed document
\* (dispose and rooms.delete go together in unload and evict).
LiveIsOpen == live # NoRoom => status[live] = "open"

\* A room counted as saved, with no write in flight, is in the database as it
\* is in memory: clearing dirtySince before the await, and setting it again on
\* failure, lose no edit (BoardRoomsService.save).  This holds as long as the
\* run stayed orderly; SettledIsStored is what it would be without that.
SettledIsStored ==
    \A r \in Rooms : live = r /\ ~dirty[r] /\ writes = {} => row = doc[r]

OrderlyIsStored == orderly => SettledIsStored

\* What a room held when its own unload disposed of it is in the database:
\* leave, save, a failed save and the idle timer together drop nothing
\* ("an empty room saves and unloads"), in a run that stayed orderly.
UnloadKeepsEdits ==
    [][\A r \in Rooms :
          status[r] = "open" /\ status'[r] = "disposed" /\ writes = {}
              => row = doc[r] \/ expired \/ ~orderly']_vars

\* evict(): from the moment the sweep goes on to delete the rows, no room and
\* no load of this board is left, and nothing can bring one back: every open
\* still under way is refused by the expiry check after its queries.
EvictedForGood ==
    sweep \in {"deleting", "done"} =>
        live = NoRoom /\ fetch = NoFetch /\ Waiting = {}

\* BoardsGateway.open joins the Socket.IO room before the snapshot is taken: a
\* connected socket in the room hears every update after its snapshot.  Of a
\* React project this is so while the run stays orderly: an unload that hits
\* another object lets a socket wait for a load, leave, and be put back into the
\* room by that load, unheard.
JoinedHearsUpdates ==
    live # NoRoom /\ (Kind = "code" \/ orderly) =>
        \A s \in sockets[live] : conn[s] /\ opened[s] => s \in channel

\* What is shared when no room is in memory: the state of a write that is
\* still on its way, or else the row.
AtRest ==
    LET sent == {w \in writes : w.phase = "sent"}
    IN  IF sent = {} THEN row ELSE UNION {w.state : w \in sent}

Shared == INSTANCE SharedDocument WITH
    Starters <- {Starter},
    content <- IF live = NoRoom THEN AtRest ELSE doc[live],
    stored <- row,
    restarts <- 0,
    kept <- orderly /\ ~expired

\* The board is one shared document: loading, unloading, saving and failing to
\* save, in any order and with any number of people opening, leaving and
\* dropping out, never take an edit out of it nor put a state into the
\* database that it has not had (BoardRoomsService as a whole).
IsSharedDocument == Shared!Spec

-----------------------------------------------------------------------------
(* What makes the above inductive (BoardRoomsProofs).                      *)

\* Timers and contents belong to the objects that are still in use.
ObjectInv ==
    /\ LiveIsOpen
    /\ \A r \in Rooms : saveTimer[r] => status[r] = "open"
    /\ \A r \in Rooms : status[r] = "open" => doc[r] # {}

\* Somebody waits only for a pending load, and a load is pending only while
\* the map has no room.
LoadInv ==
    /\ fetch.phase = "none" => fetch = NoFetch /\ Waiting = {}
    /\ fetch.phase # "none" => live = NoRoom

\* The sweep is past its await only when the board expired and no load is left.
SweepInv ==
    /\ sweep # "idle" => expired
    /\ sweep \in {"evicting", "deleting", "done"} => fetch.phase = "none"
    /\ sweep \in {"deleting", "done"} => live = NoRoom

\* In good order there is one object, one write at a time, and the row agrees
\* with whatever is going to be read from it or was last written to it.
StorageInv ==
    orderly =>
        /\ \A r \in Rooms : status[r] = "open" => live = r
        /\ \A v, w \in writes : v = w
        /\ fetch.phase = "read" => writes = {} /\ fetch.state \in {row, NoRow}
        /\ live # NoRoom /\ ~dirty[live] =>
              /\ writes = {} => row = doc[live]
              /\ \A w \in writes :
                    /\ w.room = live /\ w.state = doc[live]
                    /\ w.phase = "landed" => row = w.state

\* client.data knows a board only while the socket is in its channel.  Of a
\* React project it says so at the end of the load only, so nobody may leave
\* while he waits: who is opened is in the room, until the board expires.
ChannelInv ==
    /\ Kind = "code" \/ orderly =>
          \A s \in Sockets : conn[s] /\ opened[s] => s \in channel
    /\ Kind = "sandbox" /\ orderly =>
          \A s \in Sockets :
             /\ conn[s] /\ opening[s] = "waiting" => s \in channel /\ ~opened[s]
             /\ conn[s] /\ opened[s] /\ ~expired =>
                   live # NoRoom /\ s \in sockets[live]

IInv == TypeOK /\ ObjectInv /\ LoadInv /\ SweepInv /\ StorageInv

\* Before the expiry, the row is part of what is being written, and that part
\* of what is in memory; nothing in flight can fail with no room to retry it,
\* and a project in memory or on its way has been started.  The last but one
\* needs ~(DbFails /\ SlowWrites).
ShareInv ==
    orderly /\ ~expired =>
        /\ board
        /\ \A w \in writes : row \subseteq w.state
        /\ live # NoRoom =>
              row \subseteq doc[live] /\ \A w \in writes : w.state \subseteq doc[live]
        /\ Kind = "code" /\ fetch.phase = "read" => fetch.state = row
        /\ live = NoRoom /\ writes # {} => ~DbFails
        /\ Kind = "sandbox" /\ (live # NoRoom \/ writes # {}) => row # NoRow

-----------------------------------------------------------------------------
(* Liveness, under FairSpec.                                               *)

\* Every open is answered: sharing one load leaves nobody waiting.
OpenAnswered ==
    \A s \in Sockets : opening[s] # "idle" ~> opening[s] = "idle"

\* An edit accepted into the room in memory gets stored, unless the board
\* expires first (evict drops what is unsaved) or two writes overlap.
EditsGetStored ==
    \A e \in Edits :
        (live # NoRoom /\ e \in doc[live]) ~> (e \in row \/ expired \/ ~orderly)

\* BoardRoomsService.leave: "an empty room saves and unloads".
EmptyRoomUnloads ==
    \A r \in Rooms :
        (live = r /\ sockets[r] = {}) ~> (live # r \/ sockets[r] # {})

\* The sweep gets rid of an expired board, whatever is loading or being saved.
ExpiredGetsDeleted == expired ~> ~board
=============================================================================
