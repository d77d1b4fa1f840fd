------------------------------ MODULE BoardSync ------------------------------
(***************************************************************************)
(* The browsers around one board: useBoardConnection in every tab, the     *)
(* Socket.IO connection it keeps, and the gateway and the room behind it.  *)
(*                                                                         *)
(* A connection delivers in order each way, and loses what is under way    *)
(* when it drops; neither end resends.  The room is what SharedDocument    *)
(* promises of it (BoardRooms keeps that promise): it loads, takes         *)
(* updates, saves now and then and unloads once nobody is in it.           *)
(* A Yjs document is the set of edits it has received.  An edit builds on  *)
(* others: a document that lacks one of them keeps the edit aside (Yjs's   *)
(* pendingStructs) until it comes.  What is kept aside is not shown and    *)
(* raises no update event (so it is not relayed and makes no room dirty),  *)
(* but it is part of the document's encoded state.                         *)
(***************************************************************************)
EXTENDS Integers, Sequences

CONSTANTS
    Tabs,         \* browser tabs with the board open
    Edits,        \* edits people type, each of them once
    Seeds,        \* what the server may seed an empty board with, one per load
    MaxTroubles,  \* bound: how often a connection drops, a page goes away, an
                  \* open fails or takes too long, or an update is refused,
                  \* less one if the API restarted before
    MaxRestarts,  \* bound: how often the API process restarts
    Closes,       \* people may close or reload a tab
    Slow,         \* an open may take longer than OPEN_TIMEOUT_MS
    DbFails,      \* a query of the open handler may fail
    Refuses       \* the board may be at BOARD_MAX_DOC_BYTES

ASSUME BoundsAssumption == MaxTroubles \in Nat /\ MaxRestarts \in Nat
ASSUME NamesAssumption == Edits \cap Seeds = {}

VARIABLES
    memory,    \* the room's document, {} when it is not in memory
    row,       \* the document stored in Postgres, {} when there is none
    fresh,     \* edits nobody has typed and seeds not yet used
    member,    \* per tab, what the server has: "away", "opening" or "joined"
    phase,     \* per tab: off, opening, open, silent or refused
    doc,       \* per tab: its Y.Doc
    needs,     \* per edit: everything it builds on
    up, down,  \* per tab: what its connection carries each way
    rejected,  \* history: the edits of updates the server refused
    held,      \* history: the edits the room has kept aside
    troubles, restarts

serverVars == <<memory, row, member>>
historyVars == <<rejected, held, troubles, restarts>>
vars == <<serverVars, fresh, phase, doc, needs, up, down, historyVars>>

Content == Edits \cup Seeds

\* "An empty Yjs update is two bytes; anything longer carries edits."
Carrying == (SUBSET Content) \ {{}}

Message == [kind: {"open", "refusal"}, edits: {{}}]
           \cup [kind: {"ack", "update"}, edits: Carrying]

TypeOK ==
    /\ memory \in SUBSET Content /\ row \in SUBSET Content
    /\ fresh \in SUBSET Content
    /\ member \in [Tabs -> {"away", "opening", "joined"}]
    /\ phase \in [Tabs -> {"off", "opening", "open", "silent", "refused"}]
    /\ doc \in [Tabs -> SUBSET Content]
    /\ needs \in [Content -> SUBSET Content]
    /\ up \in [Tabs -> Seq(Message)] /\ down \in [Tabs -> Seq(Message)]
    /\ rejected \in SUBSET Content /\ held \in SUBSET Content
    /\ troubles \in Nat /\ restarts \in Nat

Init ==
    /\ memory = {} /\ row = {} /\ fresh = Content
    /\ member = [t \in Tabs |-> "away"]
    /\ phase = [t \in Tabs |-> "off"]
    /\ doc = [t \in Tabs |-> {}]
    /\ needs = [c \in Content |-> {}]
    /\ up = [t \in Tabs |-> <<>>] /\ down = [t \in Tabs |-> <<>>]
    /\ rejected = {} /\ held = {} /\ troubles = 0 /\ restarts = 0

-----------------------------------------------------------------------------
Opening == [kind |-> "open", edits |-> {}]
Refusal == [kind |-> "refusal", edits |-> {}]
Ack(edits) == [kind |-> "ack", edits |-> edits]
Update(edits) == [kind |-> "update", edits |-> edits]

\* What a document that received this shows, and what it keeps aside.
Settled(received) == {e \in received : needs[e] \subseteq received}
KeptAside(received) == received \ Settled(received)

\* Everything the messages of a queue carry.
Carried(queue) == UNION {queue[i].edits : i \in DOMAIN queue}

NextIs(queue, kind) == queue # <<>> /\ Head(queue).kind = kind

\* An update with these edits, or none at all when there are none.
Sending(queue, edits) ==
    IF edits = {} THEN queue ELSE Append(queue, Update(edits))

\* One of the things MaxTroubles bounds happens.
Trouble == troubles + restarts < MaxTroubles /\ troubles' = troubles + 1

\* The connection is gone at both ends, with what it carried.
Cut(t) ==
    /\ member' = [member EXCEPT ![t] = "away"]
    /\ up' = [up EXCEPT ![t] = <<>>]
    /\ down' = [down EXCEPT ![t] = <<>>]

-----------------------------------------------------------------------------
(* The tab.                                                                *)

\* An edit is made in the editor, which works whatever the connection does;
\* it goes up only while `open`.  It builds on part of what the tab shows: on
\* all that was typed in this Y.Doc, which Yjs numbers, unless it only deletes.
Type(t, e) ==
    /\ phase[t] # "refused" /\ e \in fresh \cap Edits
    /\ fresh' = fresh \ {e}
    /\ doc' = [doc EXCEPT ![t] = @ \cup {e}]
    /\ \E shown \in SUBSET Settled(doc[t]) :
          /\ \A d \in shown : needs[d] \subseteq shown
          /\ needs' = [needs EXCEPT ![e] = shown]
    /\ \/ phase[t] = "open" /\ up' = [up EXCEPT ![t] = Append(@, Update({e}))]
       \/ phase[t] # "open" /\ up' = up
    /\ UNCHANGED <<serverVars, phase, down, historyVars>>

\* 'connect': the board is opened, on every connect and reconnect.
Connect(t) ==
    /\ phase[t] = "off"
    /\ phase' = [phase EXCEPT ![t] = "opening"]
    /\ up' = [up EXCEPT ![t] = <<Opening>>]
    /\ UNCHANGED <<serverVars, fresh, doc, down, needs, historyVars>>

\* The ack does not come within OPEN_TIMEOUT_MS: the handler returns, the
\* socket stays connected, and the ack is dropped if it comes after all.
GiveUp(t) ==
    /\ Slow /\ phase[t] = "opening" /\ Trouble
    /\ phase' = [phase EXCEPT ![t] = "silent"]
    /\ UNCHANGED <<serverVars, fresh, doc, up, down, needs, rejected, held, restarts>>

\* Mutation: the server's state is not merged into what the tab has.
HearAck_Ignores(t) ==
    /\ phase[t] = "opening" /\ NextIs(down[t], "ack")
    /\ LET state == Head(down[t]).edits
       IN  /\ doc' = [doc EXCEPT ![t] = IF @ = {} THEN state ELSE @]
           /\ up' = [up EXCEPT ![t] = Sending(@, doc[t] \ state)]
    /\ phase' = [phase EXCEPT ![t] = "open"]
    /\ down' = [down EXCEPT ![t] = Tail(@)]
    /\ UNCHANGED <<serverVars, fresh, needs, historyVars>>

\* Mutation: nothing typed while offline goes up.
HearAck_SendsNothing(t) ==
    /\ phase[t] = "opening" /\ NextIs(down[t], "ack")
    /\ doc' = [doc EXCEPT ![t] = @ \cup Head(down[t]).edits]
    /\ phase' = [phase EXCEPT ![t] = "open"]
    /\ down' = [down EXCEPT ![t] = Tail(@)]
    /\ UNCHANGED <<serverVars, fresh, up, needs, historyVars>>

\* The server's state is merged in and what it lacks goes up, or keeps aside:
\* its state vector ends where something is missing.
HearAck(t) ==
    /\ phase[t] = "opening" /\ NextIs(down[t], "ack")
    /\ LET state == Head(down[t]).edits
       IN  /\ doc' = [doc EXCEPT ![t] = @ \cup state]
           /\ up' = [up EXCEPT ![t] =
                        Sending(@, (doc[t] \cup state) \ Settled(state))]
    /\ phase' = [phase EXCEPT ![t] = "open"]
    /\ down' = [down EXCEPT ![t] = Tail(@)]
    /\ UNCHANGED <<serverVars, fresh, needs, historyVars>>

\* An answer that comes after GiveUp finds nobody waiting for it.
HearLateAnswer(t) ==
    /\ phase[t] = "silent"
    /\ NextIs(down[t], "ack") \/ NextIs(down[t], "refusal")
    /\ down' = [down EXCEPT ![t] = Tail(@)]
    /\ UNCHANGED <<serverVars, fresh, phase, doc, up, needs, historyVars>>

\* Any ack that is not ok ends it: the tab shows the message and disconnects.
HearRefusal(t) ==
    /\ phase[t] = "opening" /\ NextIs(down[t], "refusal")
    /\ phase' = [phase EXCEPT ![t] = "refused"]
    /\ Cut(t)
    /\ UNCHANGED <<memory, row, fresh, doc, needs, historyVars>>

\* Other people's edits are applied whatever the phase, and not sent back.
HearUpdate(t) ==
    /\ NextIs(down[t], "update")
    /\ doc' = [doc EXCEPT ![t] = @ \cup Head(down[t]).edits]
    /\ down' = [down EXCEPT ![t] = Tail(@)]
    /\ UNCHANGED <<serverVars, fresh, phase, up, needs, historyVars>>

\* The connection drops; Socket.IO or the retry timer will connect again.
Drop(t) ==
    /\ phase[t] \in {"opening", "open", "silent"} /\ Trouble
    /\ phase' = [phase EXCEPT ![t] = "off"]
    /\ Cut(t)
    /\ UNCHANGED <<memory, row, fresh, doc, needs, rejected, held, restarts>>

\* The page goes away, or is loaded anew with an empty document.
Close(t) ==
    /\ Closes /\ (phase[t] # "off" \/ doc[t] # {}) /\ Trouble
    /\ phase' = [phase EXCEPT ![t] = "off"]
    /\ doc' = [doc EXCEPT ![t] = {}]
    /\ Cut(t)
    /\ UNCHANGED <<memory, row, fresh, needs, rejected, held, restarts>>

-----------------------------------------------------------------------------
(* The gateway and the room.                                               *)

\* The open handler starts; at the latest now the socket is in the channel.
ServerOpens(t) ==
    /\ NextIs(up[t], "open")
    /\ up' = [up EXCEPT ![t] = Tail(@)]
    /\ member' = [member EXCEPT ![t] = "opening"]
    /\ UNCHANGED <<memory, row, fresh, phase, doc, down, needs, historyVars>>

\* Mutation: a stored document is not looked for.
Load_SeedsAlways ==
    /\ memory = {} /\ \E t \in Tabs : member[t] = "opening"
    /\ \E seed \in fresh \cap Seeds : memory' = {seed} /\ fresh' = fresh \ {seed}
    /\ UNCHANGED <<row, member, phase, doc, up, down, needs, historyVars>>

\* The room is loaded for whoever opens it, seeded if nothing is stored.
Load ==
    /\ memory = {} /\ \E t \in Tabs : member[t] = "opening"
    /\ \/ row # {} /\ memory' = row /\ fresh' = fresh
       \/ /\ row = {}
          /\ \E seed \in fresh \cap Seeds : memory' = {seed} /\ fresh' = fresh \ {seed}
    /\ UNCHANGED <<row, member, phase, doc, up, down, needs, historyVars>>

\* The socket joins the room and is answered with its state, in one turn.
ServerAnswers(t) ==
    /\ member[t] = "opening" /\ memory # {}
    /\ member' = [member EXCEPT ![t] = "joined"]
    /\ down' = [down EXCEPT ![t] = Append(@, Ack(memory))]
    /\ UNCHANGED <<memory, row, fresh, phase, doc, up, needs, historyVars>>

\* A query fails and the open is answered like one that is not allowed.
ServerRefuses(t) ==
    /\ DbFails /\ member[t] = "opening" /\ Trouble
    /\ member' = [member EXCEPT ![t] = "away"]
    /\ down' = [down EXCEPT ![t] = Append(@, Refusal)]
    /\ UNCHANGED <<memory, row, fresh, phase, doc, up, needs, rejected, held, restarts>>

\* Mutation: the update is merged and nobody is told.
ServerUpdates_NoRelay(t) ==
    /\ NextIs(up[t], "update") /\ member[t] = "joined"
    /\ memory' = memory \cup Head(up[t]).edits
    /\ held' = held \cup KeptAside(memory')
    /\ up' = [up EXCEPT ![t] = Tail(@)]
    /\ UNCHANGED <<row, fresh, member, phase, doc, needs, down, rejected, troubles, restarts>>

\* applyUpdate: merged.  What the room now shows that it did not show before,
\* with the edits that waited for these, goes to everyone else in the channel.
ServerUpdates(t) ==
    /\ NextIs(up[t], "update") /\ member[t] = "joined"
    /\ memory' = memory \cup Head(up[t]).edits
    /\ held' = held \cup KeptAside(memory')
    /\ LET new == Settled(memory') \ Settled(memory)
       IN  down' = [u \in Tabs |-> IF u = t \/ member[u] = "away" THEN down[u]
                                   ELSE Sending(down[u], new)]
    /\ up' = [up EXCEPT ![t] = Tail(@)]
    /\ UNCHANGED <<row, fresh, member, phase, doc, needs, rejected, troubles, restarts>>

\* Past the size limit the update is dropped; the `exception` that answers it
\* has no listener in the tab.  What the tab types next builds on it, and will
\* be kept aside until the tab opens the board anew.
ServerRejects(t) ==
    /\ Refuses /\ NextIs(up[t], "update") /\ member[t] = "joined" /\ Trouble
    /\ up' = [up EXCEPT ![t] = Tail(@)]
    /\ rejected' = rejected \cup Head(up[t]).edits
    /\ UNCHANGED <<serverVars, fresh, phase, doc, needs, down, held, restarts>>

\* A write of some earlier state of the room lands.
Save ==
    /\ memory # {}
    /\ row' \in SUBSET memory \ {row}
    /\ row \subseteq row' /\ Settled(row') # {} /\ KeptAside(row') \subseteq held
    /\ UNCHANGED <<memory, fresh, member, phase, doc, up, down, needs, historyVars>>

\* A room that is empty and clean leaves memory, with what it kept aside:
\* only what it shows makes it dirty.
Unload ==
    /\ memory # {} /\ Settled(memory) \subseteq row
    /\ \A t \in Tabs : member[t] = "away"
    /\ memory' = {}
    /\ UNCHANGED <<row, fresh, member, phase, doc, up, down, needs, historyVars>>

\* The process ends, by a crash or a deploy, and comes back: bootstrap()
\* enables no shutdown hooks, so onModuleDestroy does not run and nothing is
\* saved on the way.
Restart ==
    /\ restarts < MaxRestarts
    /\ restarts' = restarts + 1
    /\ memory' = {}
    /\ member' = [t \in Tabs |-> "away"]
    /\ phase' = [t \in Tabs |-> IF phase[t] = "refused" THEN "refused" ELSE "off"]
    /\ up' = [t \in Tabs |-> <<>>] /\ down' = [t \in Tabs |-> <<>>]
    /\ UNCHANGED <<row, fresh, doc, needs, troubles, rejected, held>>

-----------------------------------------------------------------------------
TabStep(t) ==
    \/ \E e \in Edits : Type(t, e)
    \/ Connect(t) \/ GiveUp(t)
    \/ HearAck(t) \/ HearLateAnswer(t) \/ HearRefusal(t) \/ HearUpdate(t)
    \/ Drop(t) \/ Close(t)

ServerStep(t) ==
    \/ ServerOpens(t) \/ ServerAnswers(t) \/ ServerRefuses(t)
    \/ ServerUpdates(t) \/ ServerRejects(t)

Next ==
    \/ \E t \in Tabs : TabStep(t) \/ ServerStep(t)
    \/ Load \/ Save \/ Unload \/ Restart

Spec == Init /\ [][Next]_vars

\* A tab reconnects until it is in, both ends handle what they receive, and
\* the database answers; people type or not, connections drop or not.
Fairness ==
    /\ \A t \in Tabs :
          /\ WF_vars(Connect(t))
          /\ WF_vars(HearAck(t) \/ HearLateAnswer(t) \/ HearRefusal(t) \/ HearUpdate(t))
          /\ WF_vars(ServerStep(t))
    /\ WF_vars(Load)

FairSpec == Spec /\ Fairness

-----------------------------------------------------------------------------
(* Safety.                                                                 *)

\* The edits that are in X or build on something that is.
Touched(X) == {e \in Content : ({e} \cup needs[e]) \cap X # {}}

\* What the room keeps aside is relayed once the rest comes, but not to the tab
\* the rest came from.  Until a restart has taken edits away, only an edit that
\* builds on a refused one is kept aside.
Waited == IF restarts = 0 THEN held \cap Touched(rejected) ELSE held

\* What the room still lacks because it refused it.
Refused == rejected \ memory

\* A tab in step misses nothing: what the room shows, the tab shows, or will
\* when it has heard what is on its way (the gateway joins the channel before
\* the snapshot is taken), except for what waited in the room.
HearsEverything ==
    \A t \in Tabs : phase[t] = "open" =>
        Settled(memory) \ Touched(Waited) \subseteq Settled(doc[t] \cup Carried(down[t]))

\* Nor does the room miss anything of it: what the tab shows, typed offline or
\* left over from before a restart, the room shows or will when it has heard
\* what is on its way (the reopened tab sends the difference), except for what
\* was refused and what builds on it.
SaysEverything ==
    \A t \in Tabs : phase[t] = "open" =>
        Settled(doc[t]) \ Touched(Refused) \subseteq Settled(memory \cup Carried(up[t]))

\* "A Yjs document ... kept in step": two tabs that are open and have nothing
\* under way show the same document, whatever dropped, restarted or was typed
\* offline before, up to what the room refused or had to keep aside.
QuietTabsAgree ==
    LET Quiet == {t \in Tabs : phase[t] = "open" /\ up[t] = <<>> /\ down[t] = <<>>}
        Sees(t) == Settled(doc[t]) \ Touched(Refused \cup Waited)
    IN  \A t, u \in Quiet : Sees(t) = Sees(u)

Shared == INSTANCE SharedDocument WITH
    Starters <- Seeds,
    content <- Settled(IF memory = {} THEN row ELSE memory),
    stored <- Settled(row),
    kept <- TRUE

\* Around the tabs there is one shared document: nothing they do, and no drop
\* of a connection, takes an edit out of it, and a restart brings back what
\* was stored.
IsSharedDocument == Shared!Spec

-----------------------------------------------------------------------------
(* What makes the above inductive (BoardSyncProofs).                       *)

Kinds(queue) == {queue[i].kind : i \in DOMAIN queue}

\* One open per connection, asked before anything else goes either way, and
\* only an answered tab sends updates.
TalkInv ==
    \A t \in Tabs :
        /\ phase[t] \in {"off", "refused"} =>
              member[t] = "away" /\ up[t] = <<>> /\ down[t] = <<>>
        /\ phase[t] \in {"opening", "silent"} =>
              up[t] = <<>> \/ (up[t] = <<Opening>> /\ member[t] = "away" /\ down[t] = <<>>)
        /\ phase[t] = "open" => member[t] = "joined" /\ Kinds(up[t]) \subseteq {"update"}
        /\ "ack" \in Kinds(down[t]) => member[t] = "joined"

\* What is under way comes from the end that sent it.
CarryInv ==
    \A t \in Tabs :
        /\ Carried(up[t]) \subseteq doc[t]
        /\ member[t] # "away" => Carried(down[t]) \subseteq memory

\* Nothing builds on an edit before somebody typed it, and what an edit builds
\* on is all there is below it.
NeedsInv ==
    LET Used == Content \ fresh
    IN  /\ memory \cup row \cup rejected \cup held \subseteq Used
        /\ \A t \in Tabs : doc[t] \cup Carried(down[t]) \subseteq Used
        /\ \A e \in Content : needs[e] \subseteq Used
        /\ \A e \in Content : \A d \in needs[e] : needs[d] \subseteq needs[e]
        /\ \A e \in Seeds : needs[e] = {}

\* A joined tab will have what the room shows once it has heard everything, and
\* the room has, or will have, what an open tab has and was not refused.
StepInv ==
    \A t \in Tabs :
        /\ member[t] = "joined" /\ phase[t] \in {"opening", "open"} =>
              Settled(memory) \ Touched(held) \subseteq doc[t] \cup Carried(down[t])
        /\ phase[t] = "open" => doc[t] \subseteq memory \cup Carried(up[t]) \cup rejected

\* The room stays while somebody is in it, never falls behind its row, and
\* whatever either keeps aside is on record.
RoomInv ==
    /\ \A t \in Tabs : member[t] = "joined" => memory # {}
    /\ memory # {} => row \subseteq memory /\ Settled(memory) # {}
    /\ row # {} => Settled(row) # {}
    /\ KeptAside(memory) \cup KeptAside(row) \subseteq held

\* What the board shows, in memory or as it would be loaded.
Shown == Settled(IF memory = {} THEN row ELSE memory)

\* Every edit in a queue, those in Except aside, builds on what is in Below and
\* on what goes with it or before it.
Ordered(queue, Except, Below) ==
    \A i \in DOMAIN queue : \A e \in queue[i].edits \ Except :
        needs[e] \subseteq Below \cup UNION {queue[j].edits : j \in 1..i}

\* Before any restart every edit builds on what the board shows and on what
\* goes up with it or before it, or else on something refused.
OrderInv ==
    restarts = 0 =>
        LET Lost == Touched(rejected)
        IN  /\ held \subseteq Lost
            /\ \A t \in Tabs :
                  /\ \A e \in doc[t] \ Lost : needs[e] \subseteq Shown \cup doc[t]
                  /\ \A e \in Carried(down[t]) \ Lost : needs[e] \subseteq Shown
                  /\ Ordered(up[t], Lost, Shown)

IInv == TypeOK /\ TalkInv /\ CarryInv /\ NeedsInv /\ StepInv /\ RoomInv /\ OrderInv

-----------------------------------------------------------------------------
(* Liveness, under FairSpec.                                               *)

\* "A dropped connection loses nothing": what someone typed reaches every tab,
\* unless the tab it was typed in goes away first.
EditsReachEveryone ==
    \A t \in Tabs, e \in Edits : \A u \in Tabs \ {t} :
        e \in Settled(doc[t]) ~> (e \in Settled(doc[u]) \/ e \notin doc[t])

-----------------------------------------------------------------------------
(* What comments and docs say and the code does not keep.                  *)

\* "The code document is seeded on first open": a board has one seed.
SeededOnce ==
    \A s, r \in Seeds : {s, r} \subseteq memory => s = r
=============================================================================
