-------------------------- MODULE BoardRoomsProofs --------------------------
(***************************************************************************)
(* Theorems about BoardRooms, for any number of sockets, edits, rooms and  *)
(* writes in flight, for both kinds of document, with and without database *)
(* failures and slow writes.                                               *)
(***************************************************************************)
EXTENDS BoardRooms, FiniteSetTheorems, TLAPS

\* A document has a size: the edits there are are finitely many.
LEMMA SizeType ==
    ASSUME NEW S \in SUBSET Content
    PROVE  Cardinality(S) \in Nat
<1>1. IsFiniteSet(Content)
  BY EditsAssumption, FS_AddElement, FS_Union, FS_Singleton DEF Content
<1>2. IsFiniteSet(S)
  BY <1>1, FS_Subset
<1>3. QED
  BY <1>2, FS_CardinalityType

\* What arming, saving, leaving and disposing write has the type of what it replaces.
LEMMA ArmUnloadType ==
    ASSUME TypeOK, NEW r \in Rooms, ArmUnload(r)
    PROVE  unloadTimer' \in [Rooms -> BOOLEAN] /\ strays' \in [Rooms -> Nat]
BY DEF TypeOK, ArmUnload

LEMMA SendWriteType ==
    ASSUME TypeOK, NEW r \in Rooms, NEW by \in {"timer", "leave"}, SendWrite(r, by)
    PROVE  /\ saveTimer' \in [Rooms -> BOOLEAN]
           /\ dirty' \in [Rooms -> BOOLEAN]
           /\ writes' \in SUBSET Write
           /\ orderly' \in BOOLEAN
<1>1. saveTimer' \in [Rooms -> BOOLEAN] /\ dirty' \in [Rooms -> BOOLEAN]
  BY DEF TypeOK, SendWrite
<1>2. PICK i \in SaveIds :
          writes' = writes \cup
            {[id |-> i, room |-> r, state |-> doc[r], by |-> by, phase |-> "sent"]}
  BY DEF SendWrite
<1>3. [id |-> i, room |-> r, state |-> doc[r], by |-> by, phase |-> "sent"] \in Write
  BY DEF TypeOK, Write
<1>4. writes' \in SUBSET Write
  BY <1>2, <1>3 DEF TypeOK
<1>5. orderly' \in BOOLEAN
  BY DEF TypeOK, SendWrite
<1>6. QED
  BY <1>1, <1>4, <1>5

LEMMA LeaveRoomType ==
    ASSUME TypeOK, NEW s \in Sockets, LeaveRoom(s)
    PROVE  /\ sockets' \in [Rooms -> SUBSET Sockets]
           /\ dirty' \in [Rooms -> BOOLEAN]
           /\ saveTimer' \in [Rooms -> BOOLEAN]
           /\ unloadTimer' \in [Rooms -> BOOLEAN]
           /\ strays' \in [Rooms -> Nat]
           /\ writes' \in SUBSET Write
           /\ orderly' \in BOOLEAN
<1>1. CASE ~Joined(s)
  BY <1>1 DEF LeaveRoom, TypeOK
<1>2. CASE Joined(s)
  <2>1. live \in Rooms
    BY <1>2 DEF Joined, TypeOK
  <2>2. sockets' \in [Rooms -> SUBSET Sockets]
    BY <1>2, <2>1 DEF LeaveRoom, TypeOK
  <2>3. CASE sockets[live] # {s}
    BY <1>2, <2>2, <2>3 DEF LeaveRoom, TypeOK
  <2>4. CASE sockets[live] = {s} /\ dirty[live]
    <3>1. SendWrite(live, "leave") /\ UNCHANGED <<unloadTimer, strays>>
      BY <1>2, <2>4 DEF LeaveRoom
    <3>2. QED
      BY <2>1, <2>2, <3>1, SendWriteType DEF TypeOK
  <2>5. CASE sockets[live] = {s} /\ ~dirty[live]
    <3>1. /\ ArmUnload(live)
          /\ saveTimer' = [saveTimer EXCEPT ![live] = FALSE]
          /\ UNCHANGED <<dirty, writes, orderly>>
      BY <1>2, <2>5 DEF LeaveRoom
    <3>2. QED
      BY <2>1, <2>2, <3>1, ArmUnloadType DEF TypeOK
  <2>6. QED
    BY <2>3, <2>4, <2>5
<1>3. QED
  BY <1>1, <1>2

LEMMA DisposeType ==
    ASSUME TypeOK, NEW r \in Rooms, Dispose(r)
    PROVE  /\ status' \in [Rooms -> {"free", "open", "disposed"}]
           /\ saveTimer' \in [Rooms -> BOOLEAN]
           /\ unloadTimer' \in [Rooms -> BOOLEAN]
           /\ doc' \in [Rooms -> SUBSET Content]
BY DEF TypeOK, Dispose

LEMMA AfterSaveType ==
    ASSUME TypeOK, NEW w \in writes, AfterSave(w)
    PROVE  /\ writes' \in SUBSET Write
           /\ unloadTimer' \in [Rooms -> BOOLEAN]
           /\ strays' \in [Rooms -> Nat]
<1>1. w \in Write /\ w.room \in Rooms
  BY DEF TypeOK, Write
<1>2. writes' \in SUBSET Write
  BY DEF TypeOK, AfterSave
<1>3. CASE ArmUnload(w.room)
  BY <1>1, <1>2, <1>3, ArmUnloadType
<1>4. CASE UNCHANGED <<unloadTimer, strays>>
  BY <1>2, <1>4 DEF TypeOK
<1>5. QED
  BY <1>3, <1>4 DEF AfterSave

LEMMA LoadSettlesType ==
    ASSUME TypeOK, LoadSettles
    PROVE  /\ fetch' \in [phase: {"none", "asked", "read"}, state: SUBSET Content]
           /\ sweep' \in {"idle", "found", "waiting", "evicting", "deleting", "done"}
           /\ opening' \in [Sockets -> {"idle", "member", "waiting"}]
BY DEF TypeOK, LoadSettles, NoFetch, NoRow, Waiting

\* No step of a socket, a load, a room, a write or the sweep takes a variable
\* out of its type.
LEMMA TypeStep == TypeOK /\ [Next]_vars => TypeOK'
<1> SUFFICES ASSUME TypeOK, [Next]_vars PROVE TypeOK'
  OBVIOUS
<1> USE DEF roomVars, connVars, boardVars
<1>1. ASSUME NEW s \in Sockets, SocketStep(s) PROVE TypeOK'
  <2>1. CASE Connect(s)
    BY <2>1 DEF TypeOK, Connect
  <2>2. CASE OpenStart(s)
    BY <2>2 DEF TypeOK, OpenStart
  <2>3. CASE OpenExpired(s)
    BY <2>3 DEF TypeOK, OpenExpired
  <2>4. CASE OpenLive(s)
    BY <2>4 DEF TypeOK, OpenLive
  <2>5. CASE OpenLoads(s)
    BY <2>5 DEF TypeOK, OpenLoads, NoFetch, NoRow
  <2>6. ASSUME NEW e \in Edits, Update(s, e) PROVE TypeOK'
    <3>1. live \in Rooms
      BY <2>6 DEF TypeOK, Update, Joined
    <3>2. bytes' \in [Rooms -> Nat] /\ doc' \in [Rooms -> SUBSET Content]
      BY <2>6, <3>1 DEF TypeOK, Update, Content
    <3>3. QED
      BY <2>6, <3>1, <3>2 DEF TypeOK, Update, ScheduleSave
  <2>7. CASE Leave(s)
    <3>1. LeaveRoom(s)
      BY <2>7 DEF Leave
    <3>2. QED
      BY <2>7, <3>1, LeaveRoomType DEF TypeOK, Leave
  <2>8. CASE Disconnect(s)
    <3>1. CASE LeaveRoom(s)
      BY <2>8, <3>1, LeaveRoomType DEF TypeOK, Disconnect
    <3>2. CASE UNCHANGED <<sockets, dirty, saveTimer, unloadTimer, strays, writes, orderly>>
      BY <2>8, <3>2 DEF TypeOK, Disconnect
    <3>3. QED
      BY <2>8, <3>1, <3>2 DEF Disconnect
  <2>9. QED
    BY <1>1, <2>1, <2>2, <2>3, <2>4, <2>5, <2>6, <2>7, <2>8 DEF SocketStep
<1>2. CASE LoadRead
  BY <1>2 DEF TypeOK, LoadRead
<1>3. CASE LoadFails
  BY <1>3, LoadSettlesType DEF TypeOK, LoadFails
<1>4. CASE LoadFindsNothing
  BY <1>4, LoadSettlesType DEF TypeOK, LoadFindsNothing
<1>5. ASSUME NEW r \in Rooms, RoomStep(r) PROVE TypeOK'
  <2>1. CASE LoadOpensRoom(r)
    <3> DEFINE content == IF fetch.state # NoRow THEN fetch.state ELSE {Starter}
    <3>1. content \in SUBSET Content
      BY DEF TypeOK, Content
    <3>2. Cardinality(content) \in Nat
      BY <3>1, SizeType
    <3>3. doc' = [doc EXCEPT ![r] = content] /\ bytes' = [bytes EXCEPT ![r] = Cardinality(content)]
      BY <2>1 DEF LoadOpensRoom, RowFound
    <3> HIDE DEF content
    <3>4. doc' \in [Rooms -> SUBSET Content] /\ bytes' \in [Rooms -> Nat]
      BY <3>1, <3>2, <3>3 DEF TypeOK
    <3>5. dirty' \in [Rooms -> BOOLEAN] /\ saveTimer' \in [Rooms -> BOOLEAN]
      BY <2>1 DEF TypeOK, LoadOpensRoom, RowFound
    <3>6. /\ sockets' \in [Rooms -> SUBSET Sockets] /\ opened' \in [Sockets -> BOOLEAN]
          /\ status' \in [Rooms -> {"free", "open", "disposed"}]
      BY <2>1 DEF TypeOK, LoadOpensRoom, RowFound, Waiting
    <3>7. LoadSettles
      BY <2>1 DEF LoadOpensRoom, RowFound
    <3>8. QED
      BY <2>1, <3>4, <3>5, <3>6, <3>7, LoadSettlesType DEF TypeOK, LoadOpensRoom, RowFound
  <2>2. CASE SaveTimeout(r)
    <3>1. CASE SendWrite(r, "timer")
      BY <2>2, <3>1, SendWriteType DEF TypeOK, SaveTimeout
    <3>2. CASE /\ saveTimer' = [saveTimer EXCEPT ![r] = FALSE]
               /\ UNCHANGED <<dirty, writes, orderly>>
      BY <2>2, <3>2 DEF TypeOK, SaveTimeout
    <3>3. QED
      BY <2>2, <3>1, <3>2 DEF SaveTimeout
  <2>3. CASE IdleTimeout(r)
    <3>1. CASE Unload(r)
      BY <2>3, <3>1, DisposeType DEF TypeOK, IdleTimeout, Unload
    <3>2. CASE Stays(r)
      BY <2>3, <3>2 DEF TypeOK, IdleTimeout, Stays, Unload, Dispose
    <3>3. QED
      BY <2>3, <3>1, <3>2 DEF IdleTimeout
  <2>4. CASE StrayTimeout(r)
    <3>1. strays' \in [Rooms -> Nat]
      BY <2>4 DEF TypeOK, StrayTimeout, HasStray
    <3>2. CASE Unload(r)
      BY <2>4, <3>1, <3>2, DisposeType DEF TypeOK, StrayTimeout, Unload
    <3>3. CASE Stays(r) /\ UNCHANGED unloadTimer
      BY <2>4, <3>1, <3>3 DEF TypeOK, StrayTimeout, Stays
    <3>4. QED
      BY <2>4, <3>2, <3>3 DEF StrayTimeout
  <2>5. CASE Collect(r)
    BY <2>5 DEF TypeOK, Collect
  <2>6. QED
    BY <1>5, <2>1, <2>2, <2>3, <2>4, <2>5 DEF RoomStep
<1>6. ASSUME NEW w \in writes, WriteLands(w) PROVE TypeOK'
  <2>1. w \in Write
    BY DEF TypeOK
  <2>2. [w EXCEPT !.phase = "landed"] \in Write
    BY <2>1 DEF Write
  <2>3. row' \in SUBSET Content /\ writes' \in SUBSET Write
    BY <1>6, <2>1, <2>2 DEF TypeOK, WriteLands, Write
  <2>4. QED
    BY <1>6, <2>3 DEF TypeOK, WriteLands
<1>7. ASSUME NEW w \in writes, WriteSucceeds(w) PROVE TypeOK'
  <2>1. w.state \in SUBSET Content /\ w.room \in Rooms
    BY DEF TypeOK, Write
  <2>2. Cardinality(w.state) \in Nat
    BY <2>1, SizeType
  <2>3. bytes' \in [Rooms -> Nat]
    BY <1>7, <2>1, <2>2 DEF TypeOK, WriteSucceeds
  <2>4. AfterSave(w)
    BY <1>7 DEF WriteSucceeds
  <2>5. QED
    BY <1>7, <2>3, <2>4, AfterSaveType DEF TypeOK, WriteSucceeds
<1>8. ASSUME NEW w \in writes, WriteFails(w) PROVE TypeOK'
  <2>1. dirty' \in [Rooms -> BOOLEAN]
    BY <1>8 DEF TypeOK, WriteFails
  <2>2. AfterSave(w)
    BY <1>8 DEF WriteFails
  <2>3. QED
    BY <1>8, <2>1, <2>2, AfterSaveType DEF TypeOK, WriteFails
<1>9. CASE StartProject
  BY <1>9 DEF TypeOK, StartProject, Content
<1>10. CASE Expire
  BY <1>10 DEF TypeOK, Expire
<1>11. CASE SweepStep
  <2>1. CASE SweepFinds
    BY <2>1 DEF TypeOK, SweepFinds
  <2>2. CASE SweepWaits
    BY <2>2 DEF TypeOK, SweepWaits
  <2>3. CASE SweepEvicts
    <3>1. CASE live = NoRoom /\ UNCHANGED <<status, saveTimer, unloadTimer, doc>>
      BY <2>3, <3>1 DEF TypeOK, SweepEvicts, EvictRoom
    <3>2. CASE live # NoRoom /\ Dispose(live)
      <4>1. live \in Rooms
        BY <3>2 DEF TypeOK
      <4>2. QED
        BY <2>3, <3>2, <4>1, DisposeType DEF TypeOK, SweepEvicts, EvictRoom
    <3>3. QED
      BY <2>3, <3>1, <3>2 DEF SweepEvicts, EvictRoom
  <2>4. CASE SweepDeletes
    BY <2>4 DEF TypeOK, SweepDeletes, NoRow
  <2>5. CASE SweepFails
    BY <2>5 DEF TypeOK, SweepFails
  <2>6. QED
    BY <1>11, <2>1, <2>2, <2>3, <2>4, <2>5 DEF SweepStep
<1>12. CASE UNCHANGED vars
  BY <1>12 DEF TypeOK, vars
<1>13. QED
  BY <1>1, <1>2, <1>3, <1>4, <1>5, <1>6, <1>7, <1>8, <1>9, <1>10, <1>11, <1>12
     DEF Next, WriteStep

\* The initial state is typed.
LEMMA TypeInit == Init => TypeOK
<1>1. NoFetch \in [phase: {"none", "asked", "read"}, state: SUBSET Content]
  BY DEF NoFetch, NoRow
<1>2. ASSUME Init
      PROVE  /\ doc \in [Rooms -> SUBSET Content]
             /\ sockets \in [Rooms -> SUBSET Sockets]
             /\ writes \in SUBSET Write
             /\ row \in SUBSET Content
             /\ channel \in SUBSET Sockets
  BY <1>2 DEF Init, NoRow
<1>3. ASSUME Init
      PROVE  /\ dirty \in [Rooms -> BOOLEAN] /\ saveTimer \in [Rooms -> BOOLEAN]
             /\ unloadTimer \in [Rooms -> BOOLEAN]
             /\ conn \in [Sockets -> BOOLEAN] /\ opened \in [Sockets -> BOOLEAN]
  BY <1>3 DEF Init
<1>4. ASSUME Init
      PROVE  /\ status \in [Rooms -> {"free", "open", "disposed"}]
             /\ opening \in [Sockets -> {"idle", "member", "waiting"}]
             /\ strays \in [Rooms -> Nat] /\ bytes \in [Rooms -> Nat]
  BY <1>4 DEF Init
<1>5. QED
  BY <1>1, <1>2, <1>3, <1>4 DEF Init, TypeOK

\* Type correctness of the whole component, in every reachable state.
THEOREM TypeCorrect == Spec => []TypeOK
<1>1. QED
  BY TypeInit, TypeStep, PTL DEF Spec

-----------------------------------------------------------------------------
(* Objects, loads and the sweep.                                           *)

\* What LeaveRoom can do to the timers: it clears the live room's and no other.
LEMMA LeaveRoomTimers ==
    ASSUME TypeOK, NEW s \in Sockets, LeaveRoom(s)
    PROVE  \A r \in Rooms : saveTimer'[r] => saveTimer[r]
<1>1. CASE ~Joined(s)
  BY <1>1 DEF LeaveRoom, TypeOK
<1>2. CASE Joined(s)
  <2>1. CASE sockets[live] # {s}
    BY <1>2, <2>1 DEF LeaveRoom, TypeOK
  <2>2. CASE sockets[live] = {s} /\ dirty[live]
    BY <1>2, <2>2 DEF LeaveRoom, TypeOK, SendWrite
  <2>3. CASE sockets[live] = {s} /\ ~dirty[live]
    BY <1>2, <2>3 DEF LeaveRoom, TypeOK
  <2>4. QED
    BY <2>1, <2>2, <2>3
<1>3. QED
  BY <1>1, <1>2

LEMMA ObjectStep == TypeOK /\ ObjectInv /\ [Next]_vars => ObjectInv'
<1> SUFFICES ASSUME TypeOK, ObjectInv, [Next]_vars PROVE ObjectInv'
  OBVIOUS
<1> USE NamesAssumption DEF roomVars, connVars, boardVars, ObjectInv, LiveIsOpen
<1>1. ASSUME NEW s \in Sockets, SocketStep(s) PROVE ObjectInv'
  <2>1. CASE Connect(s)
    BY <2>1 DEF Connect
  <2>2. CASE OpenStart(s)
    BY <2>2 DEF OpenStart
  <2>3. CASE OpenExpired(s)
    BY <2>3 DEF OpenExpired
  <2>4. CASE OpenLive(s)
    BY <2>4 DEF OpenLive
  <2>5. CASE OpenLoads(s)
    BY <2>5 DEF OpenLoads
  <2>6. ASSUME NEW e \in Edits, Update(s, e) PROVE ObjectInv'
    BY <2>6 DEF TypeOK, Update, ScheduleSave, Joined
  <2>7. CASE Leave(s)
    <3>1. LeaveRoom(s) /\ UNCHANGED <<live, status, doc>>
      BY <2>7 DEF Leave
    <3>2. QED
      BY <3>1, LeaveRoomTimers
  <2>8. CASE Disconnect(s)
    <3>1. CASE LeaveRoom(s)
      BY <2>8, <3>1, LeaveRoomTimers DEF Disconnect
    <3>2. CASE UNCHANGED saveTimer
      BY <2>8, <3>2 DEF Disconnect
    <3>3. QED
      BY <2>8, <3>1, <3>2 DEF Disconnect
  <2>9. QED
    BY <1>1, <2>1, <2>2, <2>3, <2>4, <2>5, <2>6, <2>7, <2>8 DEF SocketStep
<1>2. CASE LoadRead \/ LoadFails \/ LoadFindsNothing \/ StartProject \/ Expire
  BY <1>2 DEF LoadRead, LoadFails, LoadFindsNothing, StartProject, Expire
<1>3. ASSUME NEW r \in Rooms, RoomStep(r) PROVE ObjectInv'
  <2>1. CASE LoadOpensRoom(r)
    <3>1. /\ live' = r /\ status' = [status EXCEPT ![r] = "open"]
          /\ saveTimer' = [saveTimer EXCEPT ![r] = ~(fetch.state # NoRow)]
      BY <2>1 DEF LoadOpensRoom, RowFound
    <3>2. doc' = [doc EXCEPT ![r] = IF fetch.state # NoRow THEN fetch.state ELSE {Starter}]
      BY <2>1 DEF LoadOpensRoom, RowFound
    <3>3. doc'[r] # {}
      BY <3>2 DEF TypeOK, NoRow
    <3>4. QED
      BY <3>1, <3>2, <3>3 DEF TypeOK
  <2>2. CASE SaveTimeout(r)
    BY <2>2 DEF TypeOK, SaveTimeout, SendWrite
  <2>3. CASE IdleTimeout(r)
    BY <2>3 DEF TypeOK, IdleTimeout, Unload, Stays, Dispose
  <2>4. CASE StrayTimeout(r)
    BY <2>4 DEF TypeOK, StrayTimeout, Unload, Stays, Dispose
  <2>5. CASE Collect(r)
    BY <2>5 DEF TypeOK, Collect
  <2>6. QED
    BY <1>3, <2>1, <2>2, <2>3, <2>4, <2>5 DEF RoomStep
<1>4. ASSUME NEW w \in writes, WriteLands(w) \/ WriteSucceeds(w) \/ WriteFails(w)
      PROVE  ObjectInv'
  BY <1>4 DEF WriteLands, WriteSucceeds, WriteFails
<1>5. CASE SweepStep
  <2>1. CASE SweepEvicts
    BY <2>1 DEF TypeOK, SweepEvicts, EvictRoom, Dispose
  <2>2. CASE SweepFinds \/ SweepWaits \/ SweepDeletes \/ SweepFails
    BY <2>2 DEF SweepFinds, SweepWaits, SweepDeletes, SweepFails
  <2>3. QED
    BY <1>5, <2>1, <2>2 DEF SweepStep
<1>6. CASE UNCHANGED vars
  BY <1>6 DEF vars
<1>7. QED
  BY <1>1, <1>2, <1>3, <1>4, <1>5, <1>6 DEF Next, WriteStep

\* Who waits, what is pending and how far the sweep is depend on each other.
LEMMA LoadSweepStep ==
    TypeOK /\ LoadInv /\ SweepInv /\ [Next]_vars => LoadInv' /\ SweepInv'
<1> SUFFICES ASSUME TypeOK, LoadInv, SweepInv, [Next]_vars PROVE LoadInv' /\ SweepInv'
  OBVIOUS
<1> USE NamesAssumption DEF roomVars, connVars, boardVars, LoadInv, SweepInv, Waiting
<1>1. ASSUME NEW s \in Sockets, SocketStep(s) PROVE LoadInv' /\ SweepInv'
  <2>1. CASE Connect(s)
    BY <2>1 DEF Connect
  <2>2. CASE OpenStart(s)
    BY <2>2 DEF TypeOK, OpenStart
  <2>3. CASE OpenExpired(s)
    BY <2>3 DEF TypeOK, OpenExpired
  <2>4. CASE OpenLive(s)
    BY <2>4 DEF TypeOK, OpenLive
  <2>5. CASE OpenLoads(s)
    <3>1. sweep = "idle" /\ sweep' = sweep /\ expired' = expired
      BY <2>5 DEF OpenLoads
    <3>2. fetch'.phase # "none" /\ live' = NoRoom
      BY <2>5 DEF OpenLoads, NoFetch
    <3>3. QED
      BY <3>1, <3>2
  <2>6. ASSUME NEW e \in Edits, Update(s, e) PROVE LoadInv' /\ SweepInv'
    BY <2>6 DEF Update
  <2>7. CASE Leave(s)
    BY <2>7 DEF Leave
  <2>8. CASE Disconnect(s)
    BY <2>8 DEF Disconnect
  <2>9. QED
    BY <1>1, <2>1, <2>2, <2>3, <2>4, <2>5, <2>6, <2>7, <2>8 DEF SocketStep
<1>2. CASE LoadRead
  BY <1>2 DEF LoadRead
<1>3. ASSUME LoadSettles, fetch.phase # "none", expired' = expired
      PROVE  LoadInv' /\ SweepInv'
  <2>1. fetch' = NoFetch /\ fetch'.phase = "none"
    BY <1>3 DEF LoadSettles, NoFetch
  <2>2. Waiting' = {}
    BY <1>3 DEF LoadSettles
  <2>3. sweep' \notin {"deleting", "done"} /\ (sweep' # "idle" => sweep # "idle")
    BY <1>3 DEF LoadSettles, TypeOK
  <2>4. QED
    BY <1>3, <2>1, <2>2, <2>3
<1>4. CASE LoadFails \/ LoadFindsNothing
  BY <1>3, <1>4 DEF LoadFails, LoadFindsNothing
<1>5. ASSUME NEW r \in Rooms, RoomStep(r) PROVE LoadInv' /\ SweepInv'
  <2>1. CASE LoadOpensRoom(r)
    BY <1>3, <2>1 DEF LoadOpensRoom, RowFound
  <2>2. CASE SaveTimeout(r)
    BY <2>2 DEF SaveTimeout
  <2>3. CASE IdleTimeout(r)
    BY <2>3 DEF IdleTimeout, Unload, Stays
  <2>4. CASE StrayTimeout(r)
    BY <2>4 DEF StrayTimeout, Unload, Stays
  <2>5. CASE Collect(r)
    BY <2>5 DEF Collect
  <2>6. QED
    BY <1>5, <2>1, <2>2, <2>3, <2>4, <2>5 DEF RoomStep
<1>6. ASSUME NEW w \in writes, WriteLands(w) \/ WriteSucceeds(w) \/ WriteFails(w)
      PROVE  LoadInv' /\ SweepInv'
  BY <1>6 DEF WriteLands, WriteSucceeds, WriteFails
<1>7. CASE StartProject \/ Expire
  BY <1>7 DEF StartProject, Expire
<1>8. CASE SweepStep
  <2>1. CASE SweepEvicts
    BY <2>1 DEF SweepEvicts, EvictRoom
  <2>2. CASE SweepFinds \/ SweepWaits \/ SweepDeletes \/ SweepFails
    BY <2>2 DEF SweepFinds, SweepWaits, SweepDeletes, SweepFails
  <2>3. QED
    BY <1>8, <2>1, <2>2 DEF SweepStep
<1>9. CASE UNCHANGED vars
  BY <1>9 DEF vars
<1>10. QED
  BY <1>1, <1>2, <1>4, <1>5, <1>6, <1>7, <1>8, <1>9 DEF Next, WriteStep

-----------------------------------------------------------------------------
(* What the database holds.                                                *)

\* A save of the live room re-establishes the invariant: its write is the only
\* one in flight and carries exactly what the room holds.
LEMMA SendWriteStorage ==
    ASSUME TypeOK, StorageInv, NEW by \in {"timer", "leave"},
           live \in Rooms, SendWrite(live, by),
           fetch.phase = "none",
           UNCHANGED <<live, fetch, status, doc, row>>
    PROVE  StorageInv'
<1> SUFFICES ASSUME orderly' PROVE StorageInv'
  BY DEF StorageInv
<1>1. orderly /\ writes = {}
  BY DEF SendWrite
<1>2. PICK i \in SaveIds :
          writes' = {[id |-> i, room |-> live, state |-> doc[live], by |-> by, phase |-> "sent"]}
  BY <1>1 DEF SendWrite
<1>3. \A w \in writes' : w.room = live /\ w.state = doc[live] /\ w.phase = "sent"
  BY <1>2
<1>4. \A v, w \in writes' : v = w
  BY <1>2
<1>5. writes' # {}
  BY <1>2
<1>6. QED
  BY <1>1, <1>3, <1>4, <1>5 DEF StorageInv

LEMMA LeaveRoomStorage ==
    ASSUME TypeOK, StorageInv, LoadInv, NEW s \in Sockets, LeaveRoom(s),
           UNCHANGED <<live, fetch, status, doc, row>>
    PROVE  StorageInv'
<1>1. CASE UNCHANGED <<dirty, writes, orderly>>
  BY <1>1 DEF StorageInv
<1>2. CASE Joined(s) /\ SendWrite(live, "leave")
  <2>1. live \in Rooms
    BY <1>2 DEF Joined, TypeOK
  <2>2. fetch.phase = "none"
    BY <1>2 DEF LoadInv, Joined
  <2>3. QED
    BY <1>2, <2>1, <2>2, SendWriteStorage
<1>3. QED
  BY <1>1, <1>2 DEF LeaveRoom

\* Unloading in good order takes the only object off the map.
LEMMA UnloadStorage ==
    ASSUME TypeOK, StorageInv, NEW r \in Rooms, Unload(r),
           UNCHANGED <<fetch, writes, row>>
    PROVE  StorageInv'
BY NamesAssumption DEF TypeOK, StorageInv, Unload, Dispose

LEMMA StorageStep ==
    TypeOK /\ ObjectInv /\ LoadInv /\ SweepInv /\ StorageInv /\ [Next]_vars => StorageInv'
<1> SUFFICES ASSUME TypeOK, ObjectInv, LoadInv, SweepInv, StorageInv, [Next]_vars
             PROVE  StorageInv'
  OBVIOUS
<1> USE NamesAssumption DEF roomVars, connVars, boardVars
<1>1. ASSUME NEW s \in Sockets, SocketStep(s) PROVE StorageInv'
  <2>1. CASE Connect(s)
    BY <2>1 DEF StorageInv, Connect
  <2>2. CASE OpenStart(s)
    BY <2>2 DEF StorageInv, OpenStart
  <2>3. CASE OpenExpired(s)
    BY <2>3 DEF StorageInv, OpenExpired
  <2>4. CASE OpenLive(s)
    BY <2>4 DEF StorageInv, OpenLive
  <2>5. CASE OpenLoads(s)
    BY <2>5 DEF StorageInv, OpenLoads, NoFetch
  <2>6. ASSUME NEW e \in Edits, Update(s, e) PROVE StorageInv'
    <3>1. dirty'[live]
      BY <2>6 DEF TypeOK, Update, ScheduleSave, Joined
    <3>2. QED
      BY <2>6, <3>1 DEF StorageInv, Update
  <2>7. CASE Leave(s)
    BY <2>7, LeaveRoomStorage DEF Leave
  <2>8. CASE Disconnect(s)
    <3>1. CASE LeaveRoom(s)
      BY <2>8, <3>1, LeaveRoomStorage DEF Disconnect
    <3>2. CASE UNCHANGED <<dirty, writes, orderly>>
      BY <2>8, <3>2 DEF Disconnect, StorageInv
    <3>3. QED
      BY <2>8, <3>1, <3>2 DEF Disconnect
  <2>9. QED
    BY <1>1, <2>1, <2>2, <2>3, <2>4, <2>5, <2>6, <2>7, <2>8 DEF SocketStep
<1>2. CASE LoadRead
  <2>1. fetch'.state = row /\ live = NoRoom
    BY <1>2 DEF LoadRead, LoadInv
  <2>2. QED
    BY <1>2, <2>1 DEF StorageInv, LoadRead
<1>3. CASE LoadFails \/ LoadFindsNothing
  <2>1. fetch'.phase # "read"
    BY <1>3 DEF LoadFails, LoadFindsNothing, LoadSettles, NoFetch
  <2>2. UNCHANGED <<live, status, doc, dirty, writes, row, orderly>>
    BY <1>3 DEF LoadFails, LoadFindsNothing
  <2>3. QED
    BY <2>1, <2>2 DEF StorageInv
<1>4. ASSUME NEW r \in Rooms, RoomStep(r) PROVE StorageInv'
  <2>1. CASE LoadOpensRoom(r)
    <3> SUFFICES ASSUME orderly' PROVE StorageInv'
      BY DEF StorageInv
    <3>1. /\ orderly /\ live = NoRoom /\ writes = {}
          /\ fetch.state \in {row, NoRow}
      BY <2>1 DEF LoadOpensRoom, RowFound, LoadInv, StorageInv
    <3>2. /\ live' = r /\ writes' = {} /\ row' = row /\ fetch'.phase = "none"
          /\ status' = [status EXCEPT ![r] = "open"]
      BY <2>1, <3>1 DEF LoadOpensRoom, RowFound, LoadSettles, NoFetch
    <3>3. \A q \in Rooms : status'[q] = "open" => live' = q
      BY <3>1, <3>2 DEF TypeOK, StorageInv
    <3>4. /\ dirty'[r] = ~(fetch.state # NoRow)
          /\ fetch.state # NoRow => doc'[r] = fetch.state
      BY <2>1 DEF LoadOpensRoom, RowFound, TypeOK
    <3>5. ~dirty'[r] => row' = doc'[r]
      BY <3>1, <3>2, <3>4
    <3>6. QED
      BY <3>2, <3>3, <3>5 DEF StorageInv
  <2>2. CASE SaveTimeout(r)
    <3>1. CASE SendWrite(r, "timer")
      <4> SUFFICES ASSUME orderly' PROVE StorageInv'
        BY DEF StorageInv
      <4>1. orderly /\ status[r] = "open"
        BY <2>2, <3>1 DEF SendWrite, SaveTimeout, ObjectInv
      <4>2. live = r
        BY <4>1 DEF StorageInv
      <4>3. fetch.phase = "none"
        BY <4>2 DEF LoadInv
      <4>4. QED
        BY <2>2, <3>1, <4>2, <4>3, SendWriteStorage DEF SaveTimeout
    <3>2. CASE UNCHANGED <<dirty, writes, orderly>>
      BY <2>2, <3>2 DEF SaveTimeout, StorageInv
    <3>3. QED
      BY <2>2, <3>1, <3>2 DEF SaveTimeout
  <2>3. CASE IdleTimeout(r)
    <3>1. CASE Unload(r)
      BY <2>3, <3>1, UnloadStorage DEF IdleTimeout
    <3>2. CASE Stays(r)
      BY <2>3, <3>2 DEF IdleTimeout, Stays, Unload, StorageInv
    <3>3. QED
      BY <2>3, <3>1, <3>2 DEF IdleTimeout
  <2>4. CASE StrayTimeout(r)
    <3>1. CASE Unload(r)
      BY <2>4, <3>1, UnloadStorage DEF StrayTimeout
    <3>2. CASE Stays(r)
      BY <2>4, <3>2 DEF StrayTimeout, Stays, StorageInv
    <3>3. QED
      BY <2>4, <3>1, <3>2 DEF StrayTimeout
  <2>5. CASE Collect(r)
    BY <2>5 DEF TypeOK, Collect, StorageInv
  <2>6. QED
    BY <1>4, <2>1, <2>2, <2>3, <2>4, <2>5 DEF RoomStep
<1>5. ASSUME NEW w \in writes, WriteLands(w) PROVE StorageInv'
  <2> SUFFICES ASSUME orderly' PROVE StorageInv'
    BY DEF StorageInv
  <2>1. orderly /\ writes = {w}
    BY <1>5 DEF WriteLands, StorageInv
  <2>2. writes' = {[w EXCEPT !.phase = "landed"]} /\ row' = w.state
    BY <1>5, <2>1 DEF WriteLands
  <2>3. fetch.phase # "read"
    BY <2>1 DEF StorageInv
  <2>4. w \in Write
    BY DEF TypeOK
  <2>5. \A v \in writes' : v.room = w.room /\ v.state = w.state
    BY <2>2, <2>4 DEF Write
  <2>6. QED
    BY <1>5, <2>1, <2>2, <2>3, <2>5 DEF WriteLands, StorageInv
<1>6. ASSUME NEW w \in writes, WriteSucceeds(w) PROVE StorageInv'
  <2> SUFFICES ASSUME orderly' PROVE StorageInv'
    BY DEF StorageInv
  <2>1. orderly /\ writes = {w} /\ writes' = {} /\ w.phase = "landed"
    BY <1>6 DEF WriteSucceeds, AfterSave, StorageInv
  <2>2. QED
    BY <1>6, <2>1 DEF WriteSucceeds, StorageInv
<1>7. ASSUME NEW w \in writes, WriteFails(w) PROVE StorageInv'
  <2> SUFFICES ASSUME orderly' PROVE StorageInv'
    BY DEF StorageInv
  <2>1. orderly /\ writes = {w} /\ writes' = {}
    BY <1>7 DEF WriteFails, AfterSave, StorageInv
  <2>2. live # NoRoom => dirty'[live]
    BY <1>7, <2>1 DEF WriteFails, StorageInv, TypeOK, Write
  <2>3. QED
    BY <1>7, <2>1, <2>2 DEF WriteFails, StorageInv
<1>8. CASE StartProject
  <2>1. live # NoRoom => doc[live] # {}
    BY DEF ObjectInv, LiveIsOpen, TypeOK
  <2>2. QED
    BY <1>8, <2>1 DEF StartProject, StorageInv, NoRow
<1>9. CASE Expire
  BY <1>9 DEF Expire, StorageInv
<1>10. CASE SweepStep
  <2>1. CASE SweepEvicts
    <3>1. CASE live = NoRoom /\ UNCHANGED <<status, saveTimer, unloadTimer, doc>>
      BY <2>1, <3>1 DEF SweepEvicts, EvictRoom, StorageInv
    <3>2. CASE live # NoRoom /\ Dispose(live)
      BY <2>1, <3>2 DEF SweepEvicts, EvictRoom, Dispose, StorageInv, TypeOK
    <3>3. QED
      BY <2>1, <3>1, <3>2 DEF SweepEvicts, EvictRoom
  <2>2. CASE SweepDeletes
    BY <2>2 DEF SweepDeletes, SweepInv, StorageInv
  <2>3. CASE SweepFinds \/ SweepWaits \/ SweepFails
    BY <2>3 DEF SweepFinds, SweepWaits, SweepFails, StorageInv
  <2>4. QED
    BY <1>10, <2>1, <2>2, <2>3 DEF SweepStep
<1>11. CASE UNCHANGED vars
  BY <1>11 DEF vars, StorageInv
<1>12. QED
  BY <1>1, <1>2, <1>3, <1>4, <1>5, <1>6, <1>7, <1>8, <1>9, <1>10, <1>11
     DEF Next, WriteStep

-----------------------------------------------------------------------------
(* The theorems.                                                           *)

\* The strengthened invariant holds of every reachable state.
THEOREM Inductive == Spec => []IInv
<1>1. Init => IInv
  <2>1. Init => TypeOK
    BY TypeInit
  <2>2. Init => ObjectInv /\ LoadInv /\ SweepInv /\ StorageInv
    BY DEF Init, ObjectInv, LiveIsOpen, LoadInv, SweepInv, StorageInv, NoFetch, Waiting
  <2>3. QED
    BY <2>1, <2>2 DEF IInv
<1>2. IInv /\ [Next]_vars => IInv'
  BY TypeStep, ObjectStep, LoadSweepStep, StorageStep DEF IInv
<1>3. QED
  BY <1>1, <1>2, PTL DEF Spec

\* The room the map holds is never a destroyed one.
THEOREM LiveIsAlwaysOpen == Spec => []LiveIsOpen
<1>1. IInv => LiveIsOpen
  BY DEF IInv, ObjectInv
<1>2. QED
  BY <1>1, Inductive, PTL

\* Once the sweep is about to delete an expired board, no room, no load and no
\* waiting open of it is left, and none comes back, for any number of sockets
\* opening it at that moment.
THEOREM EvictionIsFinal == Spec => []EvictedForGood
<1>1. IInv => EvictedForGood
  BY DEF IInv, LoadInv, SweepInv, EvictedForGood
<1>2. QED
  BY <1>1, Inductive, PTL

\* In a run without overlapping writes or misdirected unloads, a saved room is
\* in the database exactly as it is in memory, failures or not.
THEOREM OrderlyIsAlwaysStored == Spec => []OrderlyIsStored
<1>1. IInv => OrderlyIsStored
  BY NamesAssumption DEF IInv, StorageInv, OrderlyIsStored, SettledIsStored
<1>2. QED
  BY <1>1, Inductive, PTL

\* An unload drops no edit in such a run.
THEOREM UnloadingKeepsEdits == Spec => UnloadKeepsEdits
<1> DEFINE Kept == \A r \in Rooms :
          status[r] = "open" /\ status'[r] = "disposed" /\ writes = {}
              => row = doc[r] \/ expired \/ ~orderly'
<1>1. IInv /\ [Next]_vars => [Kept]_vars
  <2> SUFFICES ASSUME IInv, [Next]_vars, NEW q \in Rooms,
                      status[q] = "open", status'[q] = "disposed",
                      writes = {}, orderly', ~expired
               PROVE  row = doc[q]
    OBVIOUS
  <2> USE DEF roomVars, connVars, boardVars
  <2>1. TypeOK /\ StorageInv /\ SweepInv
    BY DEF IInv
  <2>2. ASSUME NEW r \in Rooms, Unload(r) PROVE row = doc[q]
    <3>1. q = r /\ ~dirty[r]
      BY <2>1, <2>2 DEF Unload, Dispose, TypeOK
    <3>2. orderly
      BY <2>2 DEF Unload
    <3>3. live = q /\ live # NoRoom
      BY <2>1, <3>2, NamesAssumption DEF StorageInv
    <3>4. QED
      BY <2>1, <3>1, <3>2, <3>3 DEF StorageInv
  <2>3. ASSUME NEW r \in Rooms, IdleTimeout(r) \/ StrayTimeout(r) PROVE row = doc[q]
    BY <2>2, <2>3 DEF IdleTimeout, StrayTimeout, Stays
  <2>4. ~SweepEvicts
    BY <2>1 DEF SweepInv, SweepEvicts
  <2>5. CASE UNCHANGED status
    BY <2>5
  <2>6. ASSUME NEW s \in Sockets, SocketStep(s) PROVE UNCHANGED status
    BY <2>6 DEF SocketStep, Connect, OpenStart, OpenExpired, OpenLive, OpenLoads,
                Update, Leave, Disconnect
  <2>7. ASSUME NEW r \in Rooms, LoadOpensRoom(r) \/ SaveTimeout(r) \/ Collect(r)
        PROVE  status'[q] # "disposed"
    BY <2>1, <2>7 DEF LoadOpensRoom, RowFound, SaveTimeout, Collect, TypeOK
  <2>8. CASE \/ LoadRead \/ LoadFails \/ LoadFindsNothing
             \/ \E i \in SaveIds : WriteStep(i)
             \/ StartProject \/ Expire
             \/ SweepFinds \/ SweepWaits \/ SweepDeletes \/ SweepFails
             \/ UNCHANGED vars
    <3>1. UNCHANGED status
      BY <2>8 DEF LoadRead, LoadFails, LoadFindsNothing, WriteStep, WriteLands,
                  WriteSucceeds, WriteFails, StartProject, Expire, SweepFinds,
                  SweepWaits, SweepDeletes, SweepFails, vars
    <3>2. QED
      BY <3>1
  <2>9. QED
    BY <2>3, <2>4, <2>6, <2>7, <2>8 DEF Next, RoomStep, SweepStep
<1>2. QED
  BY <1>1, Inductive, PTL DEF Spec, UnloadKeepsEdits
-----------------------------------------------------------------------------
(* Who hears the updates.                                                  *)

\* What is in good order was so before.
LEMMA OrderlyBefore ==
    ASSUME TypeOK, [Next]_vars, orderly'
    PROVE  orderly
<1> USE DEF roomVars, connVars, boardVars
<1>1. ASSUME NEW s \in Sockets, SocketStep(s) PROVE orderly
  <2>1. CASE Leave(s) \/ Disconnect(s)
    BY <2>1 DEF Leave, Disconnect, LeaveRoom, SendWrite
  <2>2. CASE \/ Connect(s) \/ OpenStart(s) \/ OpenExpired(s) \/ OpenLive(s)
             \/ OpenLoads(s) \/ \E e \in Edits : Update(s, e)
    BY <2>2 DEF Connect, OpenStart, OpenExpired, OpenLive, OpenLoads, Update
  <2>3. QED
    BY <1>1, <2>1, <2>2 DEF SocketStep
<1>2. ASSUME NEW r \in Rooms, RoomStep(r) PROVE orderly
  BY <1>2 DEF RoomStep, LoadOpensRoom, SaveTimeout, SendWrite, IdleTimeout,
              StrayTimeout, Unload, Stays, Collect
<1>3. CASE LoadRead \/ LoadFails \/ LoadFindsNothing \/ StartProject \/ Expire
  BY <1>3 DEF LoadRead, LoadFails, LoadFindsNothing, StartProject, Expire
<1>4. ASSUME NEW i \in SaveIds, WriteStep(i) PROVE orderly
  BY <1>4 DEF WriteStep, WriteLands, WriteSucceeds, WriteFails
<1>5. CASE SweepStep
  BY <1>5 DEF SweepStep, SweepFinds, SweepWaits, SweepEvicts, SweepDeletes, SweepFails
<1>6. CASE UNCHANGED vars
  BY <1>6 DEF vars
<1>7. QED
  BY <1>1, <1>2, <1>3, <1>4, <1>5, <1>6 DEF Next

\* A step that moves no socket leaves everyone where he hears what he should,
\* as long as the room in memory stays, or nobody needs it.
LEMMA NobodyMoves ==
    ASSUME ChannelInv, orderly' => orderly, expired => expired',
           UNCHANGED <<conn, opened, channel>>,
           \A s \in Sockets : opening'[s] = "waiting" => opening[s] = "waiting",
           \/ UNCHANGED <<live, sockets>>
           \/ expired'
           \/ orderly' => \A s \in Sockets : conn[s] => ~opened[s]
    PROVE  ChannelInv'
BY DEF ChannelInv

\* Leaving the room takes nobody else out of it.
LEMMA LeaveRoomSockets ==
    ASSUME TypeOK, NEW s \in Sockets, LeaveRoom(s), live' = live
    PROVE  \A q \in Sockets \ {s} :
              live # NoRoom /\ q \in sockets[live] => q \in sockets'[live']
BY DEF TypeOK, LeaveRoom

\* One socket's own steps.
LEMMA ChannelSocketStep ==
    ASSUME TypeOK, LoadInv, ChannelInv, NEW s \in Sockets, SocketStep(s),
           orderly' => orderly
    PROVE  ChannelInv'
<1> USE NamesAssumption DEF roomVars, connVars, boardVars
<1>1. CASE Connect(s)
  BY <1>1 DEF ChannelInv, Connect, TypeOK
<1>2. CASE OpenStart(s)
  BY <1>2, NobodyMoves DEF OpenStart, TypeOK
<1>3. CASE OpenExpired(s)
  BY <1>3, NobodyMoves DEF OpenExpired, TypeOK
<1>4. CASE OpenLive(s)
  BY <1>4 DEF ChannelInv, OpenLive, TypeOK
<1>5. CASE OpenLoads(s)
  BY <1>5, KindAssumption DEF ChannelInv, OpenLoads, TypeOK
<1>6. ASSUME NEW e \in Edits, Update(s, e) PROVE ChannelInv'
  BY <1>6, NobodyMoves DEF Update
<1>7. CASE Leave(s)
  <2>1. \A q \in Sockets \ {s} :
           live # NoRoom /\ q \in sockets[live] => q \in sockets'[live']
    BY <1>7, LeaveRoomSockets DEF Leave
  <2>2. QED
    BY <1>7, <2>1 DEF ChannelInv, Leave, TypeOK
<1>8. CASE Disconnect(s)
  <2>1. \A q \in Sockets \ {s} :
           live # NoRoom /\ q \in sockets[live] => q \in sockets'[live']
    BY <1>8, LeaveRoomSockets DEF Disconnect
  <2>2. QED
    BY <1>8, <2>1 DEF ChannelInv, Disconnect, TypeOK
<1>9. QED
  BY <1>1, <1>2, <1>3, <1>4, <1>5, <1>6, <1>7, <1>8 DEF SocketStep

\* An unload in good order is that of an empty room.
LEMMA UnloadChannel ==
    ASSUME TypeOK, ChannelInv, NEW r \in Rooms, Unload(r), orderly' => orderly,
           UNCHANGED <<conn, opened, channel, opening, expired>>
    PROVE  ChannelInv'
<1>1. Kind = "sandbox" /\ orderly' /\ ~expired
      => \A s \in Sockets : conn[s] => ~opened[s]
  BY DEF ChannelInv, Unload
<1>2. QED
  BY <1>1 DEF ChannelInv, Unload

LEMMA ChannelStep ==
    TypeOK /\ LoadInv /\ SweepInv /\ ChannelInv /\ [Next]_vars => ChannelInv'
<1> SUFFICES ASSUME TypeOK, LoadInv, SweepInv, ChannelInv, [Next]_vars
             PROVE  ChannelInv'
  OBVIOUS
<1> USE NamesAssumption DEF roomVars, connVars, boardVars
<1>1. orderly' => orderly
  BY OrderlyBefore
<1>2. ASSUME NEW s \in Sockets, SocketStep(s) PROVE ChannelInv'
  BY <1>1, <1>2, ChannelSocketStep
<1>3. CASE LoadRead \/ StartProject \/ Expire
  BY <1>1, <1>3, NobodyMoves DEF LoadRead, StartProject, Expire, TypeOK
<1>4. CASE LoadFails
  BY <1>1, <1>4, NobodyMoves DEF LoadFails, LoadSettles, Waiting
<1>5. CASE LoadFindsNothing
  BY <1>1, <1>5 DEF ChannelInv, LoadFindsNothing, LoadSettles, Waiting
<1>6. ASSUME NEW r \in Rooms, RoomStep(r) PROVE ChannelInv'
  <2>1. CASE LoadOpensRoom(r)
    <3>1. /\ live = NoRoom /\ live' = r
          /\ \A s \in Sockets : opening'[s] # "waiting"
          /\ sockets'[r] = Waiting
          /\ UNCHANGED <<conn, channel, expired, orderly>>
      BY <2>1 DEF LoadOpensRoom, LoadSettles, LoadInv, Waiting, TypeOK
    <3>2. \A s \in Sockets :
             opened'[s] => opened[s] \/ (Kind = "sandbox" /\ s \in Waiting)
      BY <2>1 DEF LoadOpensRoom
    <3>3. QED
      BY <3>1, <3>2, KindAssumption DEF ChannelInv, Waiting
  <2>2. CASE SaveTimeout(r)
    BY <1>1, <2>2, NobodyMoves DEF SaveTimeout
  <2>3. CASE IdleTimeout(r)
    <3>1. CASE Unload(r)
      BY <1>1, <2>3, <3>1, UnloadChannel DEF IdleTimeout
    <3>2. CASE Stays(r)
      BY <1>1, <2>3, <3>2, NobodyMoves DEF IdleTimeout, Stays
    <3>3. QED
      BY <2>3, <3>1, <3>2 DEF IdleTimeout
  <2>4. CASE StrayTimeout(r)
    <3>1. CASE Unload(r)
      BY <1>1, <2>4, <3>1, UnloadChannel DEF StrayTimeout
    <3>2. CASE Stays(r)
      BY <1>1, <2>4, <3>2, NobodyMoves DEF StrayTimeout, Stays
    <3>3. QED
      BY <2>4, <3>1, <3>2 DEF StrayTimeout
  <2>5. CASE Collect(r)
    BY <1>1, <2>5 DEF ChannelInv, Collect, TypeOK
  <2>6. QED
    BY <1>6, <2>1, <2>2, <2>3, <2>4, <2>5 DEF RoomStep
<1>7. ASSUME NEW w \in writes, WriteLands(w) \/ WriteSucceeds(w) \/ WriteFails(w)
      PROVE  ChannelInv'
  BY <1>1, <1>7, NobodyMoves DEF WriteLands, WriteSucceeds, WriteFails
<1>8. CASE SweepStep
  <2>1. CASE SweepEvicts
    BY <1>1, <2>1, NobodyMoves DEF SweepEvicts, EvictRoom, SweepInv
  <2>2. CASE SweepFinds \/ SweepWaits \/ SweepDeletes \/ SweepFails
    BY <1>1, <2>2, NobodyMoves DEF SweepFinds, SweepWaits, SweepDeletes, SweepFails
  <2>3. QED
    BY <1>8, <2>1, <2>2 DEF SweepStep
<1>9. CASE UNCHANGED vars
  BY <1>1, <1>9, NobodyMoves DEF vars
<1>10. QED
  BY <1>2, <1>3, <1>4, <1>5, <1>6, <1>7, <1>8, <1>9 DEF Next, WriteStep

\* Whoever is connected and opened in the room hears every update after his
\* snapshot: of a code document always, of a React project while the run is
\* orderly.
THEOREM JoinedAlwaysHears == Spec => []JoinedHearsUpdates
<1>1. Init => ChannelInv
  BY DEF Init, ChannelInv
<1>2. TypeOK /\ LoadInv /\ SweepInv /\ ChannelInv => JoinedHearsUpdates
  BY DEF TypeOK, ChannelInv, JoinedHearsUpdates
<1>3. IInv => TypeOK /\ LoadInv /\ SweepInv
  BY DEF IInv
<1>4. QED
  BY <1>1, <1>2, <1>3, ChannelStep, Inductive, PTL DEF Spec

-----------------------------------------------------------------------------
(***************************************************************************)
(* BoardRooms implements SharedDocument when the database does not both    *)
(* fail and take longer than the idle minute: a write that outlives its    *)
(* room and then fails is the one way an orderly run loses an edit.        *)
(***************************************************************************)

Now == IF live = NoRoom THEN AtRest ELSE doc[live]

LEMMA AtRestOfNone == ASSUME writes = {} PROVE AtRest = row
BY DEF AtRest

LEMMA AtRestOfOne ==
    ASSUME NEW w, writes = {w}
    PROVE  AtRest = IF w.phase = "sent" THEN w.state ELSE row
<1>1. CASE w.phase = "sent"
  <2>1. {v \in writes : v.phase = "sent"} = {w}
    BY <1>1
  <2>2. UNION {v.state : v \in {w}} = w.state
    OBVIOUS
  <2>3. QED
    BY <1>1, <2>1, <2>2 DEF AtRest
<1>2. CASE w.phase # "sent"
  <2>1. {v \in writes : v.phase = "sent"} = {}
    BY <1>2
  <2>2. QED
    BY <1>2, <2>1 DEF AtRest
<1>3. QED
  BY <1>1, <1>2

\* The promise, once off, stays off.
LEMMA KeptBefore ==
    ASSUME TypeOK, [Next]_vars, orderly', ~expired'
    PROVE  orderly /\ ~expired
<1> USE DEF roomVars, connVars, boardVars
<1> orderly \in BOOLEAN /\ expired \in BOOLEAN
  BY DEF TypeOK
<1> DEFINE Goal == orderly /\ ~expired
<1>1. ASSUME NEW s \in Sockets, SocketStep(s) PROVE Goal
  <2>1. CASE Leave(s) \/ Disconnect(s)
    <3>1. UNCHANGED expired
      BY <2>1 DEF Leave, Disconnect
    <3>2. CASE UNCHANGED orderly
      BY <3>1, <3>2
    <3>3. CASE LeaveRoom(s)
      BY <3>1, <3>3 DEF LeaveRoom, SendWrite
    <3>4. QED
      BY <2>1, <3>2, <3>3 DEF Leave, Disconnect
  <2>2. CASE \/ Connect(s) \/ OpenStart(s) \/ OpenExpired(s) \/ OpenLive(s)
             \/ OpenLoads(s) \/ \E e \in Edits : Update(s, e)
    BY <2>2 DEF Connect, OpenStart, OpenExpired, OpenLive, OpenLoads, Update
  <2>3. QED
    BY <1>1, <2>1, <2>2 DEF SocketStep
<1>2. ASSUME NEW r \in Rooms, RoomStep(r) PROVE Goal
  <2>1. CASE LoadOpensRoom(r) \/ Collect(r)
    BY <2>1 DEF LoadOpensRoom, Collect
  <2>2. CASE SaveTimeout(r)
    BY <2>2 DEF SaveTimeout, SendWrite
  <2>3. CASE IdleTimeout(r)
    BY <2>3 DEF IdleTimeout, Unload, Stays
  <2>4. CASE StrayTimeout(r)
    BY <2>4 DEF StrayTimeout, Unload, Stays
  <2>5. QED
    BY <1>2, <2>1, <2>2, <2>3, <2>4 DEF RoomStep
<1>3. ASSUME NEW w \in writes, WriteLands(w) \/ WriteSucceeds(w) \/ WriteFails(w)
      PROVE  Goal
  <2>1. UNCHANGED <<orderly, expired>>
    BY <1>3 DEF WriteLands, WriteSucceeds, WriteFails
  <2>2. QED
    BY <2>1
<1>4. CASE LoadRead
  BY <1>4 DEF LoadRead
<1>5. CASE LoadFails \/ LoadFindsNothing \/ StartProject \/ Expire
  BY <1>5 DEF LoadFails, LoadFindsNothing, StartProject, Expire
<1>6. CASE SweepStep
  BY <1>6 DEF SweepStep, SweepFinds, SweepWaits, SweepEvicts, SweepDeletes, SweepFails
<1>7. CASE UNCHANGED vars
  BY <1>7 DEF vars
<1>8. QED
  BY <1>1, <1>2, <1>3, <1>4, <1>5, <1>6, <1>7 DEF Next, WriteStep

-----------------------------------------------------------------------------
(* What each kind of step does to what is shared and to what is stored,    *)
(* while the promise stands before and after it.                           *)

\* Nothing happens to either.
Stutters == Now' = Now /\ row' = row

\* The document is started, edited or saved.
Starts == Now = {} /\ Now' = {Starter} /\ row' \in {row, {Starter}}
Grows == Now # {} /\ Now \subseteq Now' /\ Now' \subseteq Content /\ row' = row
Stores == Now' = Now /\ row \subseteq row' /\ row' \subseteq Now

Implements == Stutters \/ Starts \/ Grows \/ Stores

LEMMA FrameStutters ==
    ASSUME UNCHANGED <<live, doc, writes, row>>
    PROVE  Stutters
BY DEF Stutters, Now, AtRest

\* Sockets come and go, open and edit.
LEMMA SendWriteImplements ==
    ASSUME TypeOK, StorageInv, ShareInv, NEW r \in Rooms, live = r,
           NEW by \in {"timer", "leave"}, SendWrite(r, by),
           orderly, ~expired, orderly',
           UNCHANGED <<live, fetch, doc, row, board, expired>>
    PROVE  ShareInv' /\ Stutters
<1>1. live # NoRoom
  BY NamesAssumption
<1>2. Stutters
  BY <1>1 DEF Stutters, Now
<1>3. PICK i \in SaveIds :
          writes' = writes \cup
            {[id |-> i, room |-> r, state |-> doc[r], by |-> by, phase |-> "sent"]}
  BY DEF SendWrite
<1>4. writes = {}
  BY DEF SendWrite, TypeOK
<1>5. \A w \in writes' : w.state = doc[r]
  BY <1>3, <1>4
<1>6. row \subseteq doc[r] /\ board
      /\ (Kind = "code" /\ fetch.phase = "read" => fetch.state = row)
      /\ (Kind = "sandbox" => row # NoRow)
  BY <1>1 DEF ShareInv
<1>7. ShareInv'
  BY <1>1, <1>5, <1>6 DEF ShareInv
<1>8. QED
  BY <1>2, <1>7

LEMMA SocketImplements ==
    ASSUME TypeOK, StorageInv, ObjectInv, ShareInv,
           orderly, ~expired, orderly', ~expired',
           NEW s \in Sockets, SocketStep(s)
    PROVE  ShareInv' /\ Implements
<1> USE DEF roomVars, connVars, boardVars
<1>1. ASSUME UNCHANGED <<live, fetch, doc, writes, row, board>> PROVE ShareInv' /\ Implements
  BY <1>1, FrameStutters DEF ShareInv, Implements
<1>2. CASE Connect(s) \/ OpenStart(s) \/ OpenExpired(s) \/ OpenLive(s)
  BY <1>1, <1>2 DEF Connect, OpenStart, OpenExpired, OpenLive
<1>3. CASE OpenLoads(s)
  <2>1. live = NoRoom /\ UNCHANGED <<live, doc, writes, row, board>>
    BY <1>3 DEF OpenLoads
  <2>2. fetch'.phase = "read" => fetch' = fetch
    BY <1>3 DEF OpenLoads, TypeOK, NoFetch
  <2>3. QED
    BY <2>1, <2>2, FrameStutters DEF ShareInv, Implements
<1>4. ASSUME NEW e \in Edits, Update(s, e) PROVE ShareInv' /\ Implements
  <2>1. live \in Rooms /\ live # NoRoom
    BY <1>4, NamesAssumption DEF Update, Joined, TypeOK
  <2>2. doc'[live] = doc[live] \cup {e} /\ UNCHANGED <<live, fetch, writes, row, board>>
    BY <1>4, <2>1 DEF Update, TypeOK
  <2>3. doc[live] # {} /\ doc[live] \subseteq Content
    BY <2>1 DEF ObjectInv, LiveIsOpen, TypeOK
  <2>4. Grows
    BY <2>1, <2>2, <2>3 DEF Grows, Now, Content
  <2>5. ShareInv'
    BY <2>1, <2>2 DEF ShareInv
  <2>6. QED
    BY <2>4, <2>5 DEF Implements
<1>5. CASE Leave(s) \/ Disconnect(s)
  <2>1. UNCHANGED <<live, fetch, doc, row, board, expired>>
    BY <1>5 DEF Leave, Disconnect
  <2>2. CASE UNCHANGED writes
    BY <1>1, <2>1, <2>2
  <2>3. CASE LeaveRoom(s) /\ writes' # writes
    <3>1. Joined(s) /\ SendWrite(live, "leave")
      BY <2>3 DEF LeaveRoom
    <3>2. live \in Rooms
      BY <3>1 DEF Joined, TypeOK
    <3>3. QED
      BY <2>1, <3>1, <3>2, SendWriteImplements DEF Implements
  <2>4. QED
    BY <1>5, <2>2, <2>3 DEF Leave, Disconnect
<1>6. QED
  BY <1>2, <1>3, <1>4, <1>5 DEF SocketStep

\* Rooms are loaded, saved and unloaded.
LEMMA UnloadImplements ==
    ASSUME TypeOK, StorageInv, ObjectInv, ShareInv, ~(DbFails /\ SlowWrites),
           orderly, ~expired, orderly', ~expired',
           NEW r \in Rooms, Unload(r), SlowWrites \/ InFlight(r) = {},
           UNCHANGED <<fetch, writes, row, board>>
    PROVE  ShareInv' /\ Implements
<1>1. live' = NoRoom /\ live \in {r, NoRoom} /\ ~dirty[r]
  BY DEF Unload, TypeOK
<1>2. CASE live = NoRoom
  <2>1. Now' = Now
    BY <1>1, <1>2 DEF Now, AtRest
  <2>2. QED
    BY <1>1, <1>2, <2>1 DEF ShareInv, Implements, Stutters
<1>3. CASE live = r /\ live # NoRoom
  <2>1. \A v, w \in writes : v = w
    BY DEF StorageInv
  <2>2. \A w \in writes : w \in Write /\ w.room = r /\ w.state = doc[r]
    BY <1>1, <1>3 DEF StorageInv, TypeOK
  <2>3. Now' = doc[r]
    <3>1. Now' = AtRest
      BY <1>1 DEF Now, AtRest
    <3>2. CASE writes = {}
      BY <1>1, <1>3, <3>1, <3>2, AtRestOfNone DEF StorageInv
    <3>3. CASE writes # {}
      <4>1. PICK w \in writes : writes = {w}
        BY <2>1, <3>3
      <4>2. w.state = doc[r] /\ (w.phase # "sent" => row = w.state)
        BY <1>1, <1>3, <2>2 DEF StorageInv, Write
      <4>3. QED
        BY <3>1, <4>1, <4>2, AtRestOfOne
    <3>4. QED
      BY <3>2, <3>3
  <2>4. writes # {} => ~DbFails
    BY <2>2, SwitchAssumption DEF InFlight
  <2>5. ShareInv'
    BY <1>1, <1>3, <2>4 DEF ShareInv
  <2>6. Stutters
    BY <1>3, <2>3 DEF Stutters, Now
  <2>7. QED
    BY <2>5, <2>6 DEF Implements
<1>4. QED
  BY <1>1, <1>2, <1>3

LEMMA RoomImplements ==
    ASSUME TypeOK, StorageInv, ObjectInv, LoadInv, ShareInv, ~(DbFails /\ SlowWrites),
           orderly, ~expired, orderly', ~expired',
           NEW r \in Rooms, RoomStep(r)
    PROVE  ShareInv' /\ Implements
<1> USE DEF roomVars, connVars, boardVars
<1>1. CASE LoadOpensRoom(r)
  <2> DEFINE content == IF RowFound THEN fetch.state ELSE {Starter}
  <2>1. /\ live = NoRoom /\ writes = {} /\ fetch.state \in {row, NoRow}
        /\ live' = r /\ r # NoRoom /\ doc'[r] = content
        /\ fetch' = NoFetch
        /\ UNCHANGED <<writes, row, board>>
    BY <1>1, NamesAssumption DEF LoadOpensRoom, LoadSettles, LoadInv, StorageInv, TypeOK
  <2>2. Now = row /\ Now' = content
    BY <2>1, AtRestOfNone DEF Now
  <2>3. CASE RowFound
    <3>1. content = row
      BY <2>1, <2>3 DEF RowFound
    <3>2. row # NoRow
      BY <2>1, <2>3 DEF RowFound
    <3>3. ShareInv'
      BY <2>1, <3>1, <3>2 DEF ShareInv, NoFetch
    <3>4. QED
      BY <2>1, <2>2, <3>1, <3>3 DEF Implements, Stutters
  <2>4. CASE ~RowFound
    <3>1. row = {} /\ Kind = "code" /\ content = {Starter}
      BY <1>1, <2>4 DEF LoadOpensRoom, ShareInv, RowFound, NoRow
    <3>2. ShareInv'
      BY <2>1, <3>1 DEF ShareInv, NoFetch
    <3>3. Starts
      BY <2>1, <2>2, <3>1 DEF Starts
    <3>4. QED
      BY <3>2, <3>3 DEF Implements
  <2>5. QED
    BY <2>3, <2>4
<1>2. CASE SaveTimeout(r)
  <2>1. saveTimer[r] /\ UNCHANGED <<live, fetch, doc, row, board, expired>>
    BY <1>2 DEF SaveTimeout
  <2>2. live = r
    BY <2>1 DEF ObjectInv, StorageInv
  <2>3. CASE SendWrite(r, "timer")
    BY <2>1, <2>2, <2>3, SendWriteImplements DEF Implements
  <2>4. CASE UNCHANGED writes
    BY <2>1, <2>4, FrameStutters DEF ShareInv, Implements
  <2>5. QED
    BY <1>2, <2>3, <2>4 DEF SaveTimeout
<1>3. ASSUME IdleTimeout(r) \/ StrayTimeout(r) PROVE ShareInv' /\ Implements
  <2>1. UNCHANGED <<fetch, writes, row, board>> /\ (SlowWrites \/ InFlight(r) = {})
    BY <1>3 DEF IdleTimeout, StrayTimeout
  <2>2. CASE Unload(r)
    BY <2>1, <2>2, UnloadImplements
  <2>3. CASE Stays(r)
    BY <2>1, <2>3, FrameStutters DEF Stays, ShareInv, Implements
  <2>4. QED
    BY <1>3, <2>2, <2>3 DEF IdleTimeout, StrayTimeout
<1>4. CASE Collect(r)
  <2>1. UNCHANGED <<live, fetch, writes, row, board>> /\ live # r
    BY <1>4 DEF Collect
  <2>2. live # NoRoom => doc'[live] = doc[live]
    BY <1>4, <2>1 DEF Collect, TypeOK
  <2>3. Stutters
    BY <2>1, <2>2 DEF Stutters, Now, AtRest
  <2>4. ShareInv'
    BY <2>1, <2>2 DEF ShareInv
  <2>5. QED
    BY <2>3, <2>4 DEF Implements
<1>5. QED
  BY <1>1, <1>2, <1>3, <1>4 DEF RoomStep

\* Writes land, succeed and fail.
LEMMA WriteImplements ==
    ASSUME TypeOK, StorageInv, ShareInv,
           orderly, ~expired, orderly', ~expired',
           NEW w \in writes, WriteLands(w) \/ WriteSucceeds(w) \/ WriteFails(w)
    PROVE  ShareInv' /\ Implements
<1> USE DEF roomVars, connVars, boardVars
<1>1. writes = {w} /\ w \in Write /\ row \subseteq w.state
  BY DEF StorageInv, ShareInv, TypeOK
<1>2. CASE WriteLands(w)
  <2>1. /\ w.phase = "sent" /\ row' = w.state
        /\ writes' = {[w EXCEPT !.phase = "landed"]}
        /\ UNCHANGED <<live, fetch, doc, board>>
    BY <1>1, <1>2 DEF WriteLands
  <2> DEFINE v == [w EXCEPT !.phase = "landed"]
  <2>2. writes' = {v} /\ v.phase = "landed" /\ v.state = w.state
    BY <1>1, <2>1 DEF Write
  <2> HIDE DEF v
  <2>3. live = NoRoom => Now = w.state /\ Now' = w.state
    <3>1. {x \in writes' : x.phase = "sent"} = {}
      BY <2>2
    <3>2. AtRest' = row'
      BY <3>1 DEF AtRest
    <3>3. AtRest = w.state
      BY <1>1, <2>1, AtRestOfOne
    <3>4. QED
      BY <2>1, <3>2, <3>3 DEF Now
  <2>4. live # NoRoom => Now' = Now /\ w.state \subseteq Now
    BY <1>1, <2>1 DEF Now, ShareInv
  <2>5. Stores
    BY <1>1, <2>1, <2>3, <2>4 DEF Stores
  <2>6. fetch.phase # "read"
    BY <1>1 DEF StorageInv
  <2>7. ShareInv'
    BY <1>1, <2>1, <2>2, <2>6 DEF ShareInv, NoRow
  <2>8. QED
    BY <2>5, <2>7 DEF Implements
<1>3. CASE WriteSucceeds(w) \/ WriteFails(w)
  <2>1. writes' = {} /\ UNCHANGED <<live, fetch, doc, row, board>>
    BY <1>1, <1>3 DEF WriteSucceeds, WriteFails, AfterSave
  <2>2. live = NoRoom => w.phase # "sent"
    BY <1>1, <1>3 DEF WriteSucceeds, WriteFails, ShareInv
  <2>3. live = NoRoom => Now = row /\ Now' = row
    BY <1>1, <2>1, <2>2, AtRestOfOne DEF Now, AtRest
  <2>4. Stutters
    BY <2>1, <2>3 DEF Stutters, Now
  <2>5. ShareInv'
    BY <1>1, <2>1 DEF ShareInv
  <2>6. QED
    BY <2>4, <2>5 DEF Implements
<1>4. QED
  BY <1>2, <1>3

\* Loads end without a room, projects are started; the sweep does nothing yet.
LEMMA OtherImplements ==
    ASSUME TypeOK, StorageInv, LoadInv, SweepInv, ShareInv,
           orderly, ~expired, orderly', ~expired',
           \/ LoadRead \/ LoadFails \/ LoadFindsNothing
           \/ StartProject \/ Expire \/ SweepStep \/ UNCHANGED vars
    PROVE  ShareInv' /\ Implements
<1> USE DEF roomVars, connVars, boardVars
<1>1. ~Expire /\ ~SweepStep
  BY DEF TypeOK, Expire, SweepInv, SweepStep, SweepFinds, SweepWaits, SweepEvicts,
         SweepDeletes, SweepFails
<1>2. CASE LoadRead
  <2>1. UNCHANGED <<live, doc, writes, row, board>> /\ fetch'.state = row
    BY <1>2 DEF LoadRead
  <2>2. QED
    BY <2>1, FrameStutters DEF ShareInv, Implements
<1>3. CASE LoadFails \/ LoadFindsNothing
  <2>1. UNCHANGED <<live, doc, writes, row, board>> /\ fetch'.phase = "none"
    BY <1>3 DEF LoadFails, LoadFindsNothing, LoadSettles, NoFetch
  <2>2. QED
    BY <2>1, FrameStutters DEF ShareInv, Implements
<1>4. CASE StartProject
  <2>1. Kind = "sandbox" /\ row = {} /\ row' = {Starter}
        /\ UNCHANGED <<live, fetch, doc, writes, board>>
    BY <1>4 DEF StartProject, NoRow
  <2>2. live = NoRoom /\ writes = {}
    BY <2>1 DEF ShareInv, NoRow
  <2>3. Now = {} /\ Now' = {Starter}
    BY <2>1, <2>2 DEF Now, AtRest
  <2>4. ShareInv'
    BY <2>1, <2>2 DEF ShareInv
  <2>5. QED
    BY <2>1, <2>3, <2>4 DEF Implements, Starts
<1>5. CASE UNCHANGED vars
  BY <1>5, FrameStutters DEF vars, ShareInv, Implements
<1>6. QED
  BY <1>1, <1>2, <1>3, <1>4, <1>5

LEMMA StepImplements ==
    ASSUME IInv, ShareInv, ~(DbFails /\ SlowWrites), [Next]_vars, orderly', ~expired'
    PROVE  ShareInv' /\ Implements /\ orderly /\ ~expired
<1>1. TypeOK /\ ObjectInv /\ LoadInv /\ SweepInv /\ StorageInv
  BY DEF IInv
<1>2. orderly /\ ~expired
  BY <1>1, KeptBefore
<1>3. CASE \E s \in Sockets : SocketStep(s)
  BY <1>1, <1>2, <1>3, SocketImplements
<1>4. CASE \E r \in Rooms : RoomStep(r)
  BY <1>1, <1>2, <1>4, RoomImplements
<1>5. CASE \E i \in SaveIds : WriteStep(i)
  BY <1>1, <1>2, <1>5, WriteImplements DEF WriteStep
<1>6. CASE \/ LoadRead \/ LoadFails \/ LoadFindsNothing
           \/ StartProject \/ Expire \/ SweepStep \/ UNCHANGED vars
  BY <1>1, <1>2, <1>6, OtherImplements
<1>7. QED
  BY <1>2, <1>3, <1>4, <1>5, <1>6 DEF Next

-----------------------------------------------------------------------------
\* The board is one shared document: no edit ever leaves it and nothing is
\* stored that it has not held, for any number of people, edits, room objects
\* and writes, unless writes overlapped, an unload hit another room, or the
\* board expired.
THEOREM BoardIsSharedDocument ==
    ASSUME ~(DbFails /\ SlowWrites)
    PROVE  Spec => IsSharedDocument
<1>1. Init => ShareInv /\ Shared!Init
  <2>1. ASSUME Init PROVE ShareInv
    BY <2>1 DEF Init, ShareInv, NoFetch
  <2>2. ASSUME Init PROVE Shared!Init
    BY <2>2 DEF Init, Shared!Init, AtRest, NoRow
  <2>3. QED
    BY <2>1, <2>2
<1>2. IInv /\ ShareInv /\ [Next]_vars
        => ShareInv' /\ [Shared!Keeps \/ Shared!Ends]_(Shared!vars)
  <2> SUFFICES ASSUME IInv, ShareInv, [Next]_vars
               PROVE  ShareInv' /\ [Shared!Keeps \/ Shared!Ends]_(Shared!vars)
    OBVIOUS
  <2>1. CASE ~(orderly' /\ ~expired')
    <3>1. (orderly /\ ~expired)' = FALSE
      BY <2>1
    <3>2. Shared!Ends
      BY <3>1 DEF Shared!Ends
    <3>3. ShareInv'
      BY <2>1 DEF ShareInv
    <3>4. QED
      BY <3>2, <3>3
  <2>2. CASE orderly' /\ ~expired'
    <3>1. ShareInv' /\ Implements /\ orderly /\ ~expired
      BY <2>2, StepImplements
    <3>2. (orderly /\ ~expired)' = (orderly /\ ~expired)
      BY <2>2, <3>1
    <3>3. CASE Stutters
      BY <3>1, <3>2, <3>3 DEF Stutters, Now, Shared!vars
    <3>4. CASE Starts
      BY <3>1, <3>2, <3>4 DEF Starts, Now, Shared!Keeps, Shared!Start
    <3>5. CASE Grows
      BY <3>1, <3>2, <3>5 DEF Grows, Now, Content, Shared!Keeps, Shared!Edit
    <3>6. CASE Stores
      BY <3>1, <3>2, <3>6 DEF Stores, Now, Shared!Keeps, Shared!Save
    <3>7. QED
      BY <3>1, <3>3, <3>4, <3>5, <3>6 DEF Implements
  <2>3. QED
    BY <2>1, <2>2
<1>3. QED
  BY <1>1, <1>2, Inductive, PTL DEF Spec, IsSharedDocument, Shared!Spec
=============================================================================
