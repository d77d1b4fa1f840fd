--------------------------- MODULE BoardSyncProofs ---------------------------
(***************************************************************************)
(* Theorems about BoardSync, for any number of tabs, edits, drops and      *)
(* restarts, whether or not opens are slow, fail or are refused.           *)
(***************************************************************************)
EXTENDS BoardSync, TLAPS

-----------------------------------------------------------------------------
(* Queues.                                                                 *)

LEMMA QueueEmpty ==
    <<>> \in Seq(Message) /\ Carried(<<>>) = {} /\ Kinds(<<>>) = {}
BY DEF Carried, Kinds

LEMMA QueueAppend ==
    ASSUME NEW q \in Seq(Message), NEW m \in Message
    PROVE  /\ Append(q, m) \in Seq(Message)
           /\ Carried(Append(q, m)) = Carried(q) \cup m.edits
           /\ Kinds(Append(q, m)) = Kinds(q) \cup {m.kind}
<1> DEFINE r == Append(q, m)
<1>1. /\ r \in Seq(Message)
      /\ DOMAIN q = 1..Len(q) /\ DOMAIN r = 1..(Len(q) + 1) /\ Len(q) \in Nat
      /\ \A i \in 1..Len(q) : r[i] = q[i]
      /\ r[Len(q) + 1] = m
  OBVIOUS
<1>2. DOMAIN r = DOMAIN q \cup {Len(q) + 1}
  BY <1>1
<1> HIDE DEF r
<1>3. Carried(r) = Carried(q) \cup m.edits
  BY <1>1, <1>2 DEF Carried
<1>4. Kinds(r) = Kinds(q) \cup {m.kind}
  BY <1>1, <1>2 DEF Kinds
<1>5. QED
  BY <1>1, <1>3, <1>4 DEF r

LEMMA QueueTail ==
    ASSUME NEW q \in Seq(Message), q # <<>>
    PROVE  /\ Tail(q) \in Seq(Message) /\ Head(q) \in Message
           /\ Carried(q) = Head(q).edits \cup Carried(Tail(q))
           /\ Kinds(q) = {Head(q).kind} \cup Kinds(Tail(q))
<1> DEFINE r == Tail(q)
<1>1. /\ r \in Seq(Message) /\ Head(q) \in Message /\ Head(q) = q[1]
      /\ Len(q) \in Nat \ {0}
      /\ DOMAIN q = 1..Len(q) /\ DOMAIN r = 1..(Len(q) - 1)
      /\ \A i \in 1..(Len(q) - 1) : r[i] = q[i + 1]
  OBVIOUS
<1>2. \A i \in DOMAIN q : i = 1 \/ (i - 1 \in DOMAIN r /\ r[i - 1] = q[i])
  BY <1>1
<1>3. 1 \in DOMAIN q /\ \A i \in DOMAIN r : i + 1 \in DOMAIN q /\ r[i] = q[i + 1]
  BY <1>1
<1> HIDE DEF r
<1>4. Carried(q) = Head(q).edits \cup Carried(r)
  BY <1>1, <1>2, <1>3 DEF Carried
<1>5. Kinds(q) = {Head(q).kind} \cup Kinds(r)
  BY <1>1, <1>2, <1>3 DEF Kinds
<1>6. QED
  BY <1>1, <1>4, <1>5 DEF r

LEMMA MessageType ==
    /\ Opening \in Message /\ Refusal \in Message
    /\ \A edits \in Carrying : Ack(edits) \in Message /\ Update(edits) \in Message
BY DEF Message, Opening, Refusal, Ack, Update

LEMMA QueueSending ==
    ASSUME NEW q \in Seq(Message), NEW edits \in SUBSET Content
    PROVE  /\ Sending(q, edits) \in Seq(Message)
           /\ Carried(Sending(q, edits)) = Carried(q) \cup edits
           /\ Kinds(Sending(q, edits)) \subseteq Kinds(q) \cup {"update"}
<1>1. CASE edits = {}
  BY <1>1 DEF Sending
<1>2. CASE edits # {}
  <2>1. Update(edits) \in Message /\ Update(edits).edits = edits /\ Update(edits).kind = "update"
    BY <1>2, MessageType DEF Carrying, Update
  <2>2. QED
    BY <1>2, <2>1, QueueAppend DEF Sending
<1>3. QED
  BY <1>1, <1>2

-----------------------------------------------------------------------------
(* Every step keeps the inductive invariant.  In each proof the first step *)
(* says what becomes of the queues and documents, the rest follows per     *)
(* part.                                                                   *)

LEMMA TypeStep ==
    ASSUME TypeOK, [Next]_vars
    PROVE  TypeOK'
<1> USE DEF serverVars, historyVars, Trouble
<1>1. ASSUME NEW t \in Tabs, NEW e \in Edits, Type(t, e) PROVE TypeOK'
  <2>1. Update({e}) \in Message
    BY MessageType DEF Carrying, Content
  <2>2. Append(up[t], Update({e})) \in Seq(Message)
    BY <2>1, QueueAppend DEF TypeOK
  <2>3. up' \in [Tabs -> Seq(Message)]
    BY <1>1, <2>2 DEF Type, TypeOK
  <2>4. needs' \in [Content -> SUBSET Content] /\ doc' \in [Tabs -> SUBSET Content]
    BY <1>1 DEF Type, TypeOK, Content, Settled
  <2>5. QED
    BY <1>1, <2>3, <2>4 DEF Type, TypeOK, Content
<1>2. ASSUME NEW t \in Tabs, Connect(t) PROVE TypeOK'
  <2>1. <<Opening>> \in Seq(Message)
    BY MessageType
  <2>2. QED
    BY <1>2, <2>1 DEF Connect, TypeOK
<1>3. ASSUME NEW t \in Tabs, GiveUp(t) PROVE TypeOK'
  BY <1>3 DEF GiveUp, TypeOK
<1>4. ASSUME NEW t \in Tabs, HearAck(t) PROVE TypeOK'
  <2>1. Tail(down[t]) \in Seq(Message) /\ Head(down[t]) \in Message
    BY <1>4, QueueTail DEF HearAck, NextIs, TypeOK
  <2>2. Head(down[t]).edits \in SUBSET Content
    BY <2>1 DEF Message, Carrying
  <2>3. Sending(up[t], (doc[t] \cup Head(down[t]).edits) \ Settled(Head(down[t]).edits))
          \in Seq(Message)
    BY <2>2, QueueSending DEF TypeOK
  <2>4. doc' \in [Tabs -> SUBSET Content]
    BY <1>4, <2>2 DEF HearAck, TypeOK
  <2>5. up' \in [Tabs -> Seq(Message)] /\ down' \in [Tabs -> Seq(Message)]
    BY <1>4, <2>1, <2>3 DEF HearAck, TypeOK
  <2>6. QED
    BY <1>4, <2>4, <2>5 DEF HearAck, TypeOK
<1>5. ASSUME NEW t \in Tabs, HearLateAnswer(t) PROVE TypeOK'
  <2>1. Tail(down[t]) \in Seq(Message)
    BY <1>5, QueueTail DEF HearLateAnswer, NextIs, TypeOK
  <2>2. QED
    BY <1>5, <2>1 DEF HearLateAnswer, TypeOK
<1>6. ASSUME NEW t \in Tabs, HearRefusal(t) PROVE TypeOK'
  BY <1>6, QueueEmpty DEF HearRefusal, Cut, TypeOK
<1>7. ASSUME NEW t \in Tabs, HearUpdate(t) PROVE TypeOK'
  <2>1. Tail(down[t]) \in Seq(Message) /\ Head(down[t]) \in Message
    BY <1>7, QueueTail DEF HearUpdate, NextIs, TypeOK
  <2>2. Head(down[t]).edits \in SUBSET Content
    BY <2>1 DEF Message, Carrying
  <2>3. QED
    BY <1>7, <2>1, <2>2 DEF HearUpdate, TypeOK
<1>8. ASSUME NEW t \in Tabs, Drop(t) \/ Close(t) PROVE TypeOK'
  <2>1. CASE Drop(t)
    BY <2>1, QueueEmpty DEF Drop, Cut, TypeOK
  <2>2. CASE Close(t)
    BY <2>2, QueueEmpty DEF Close, Cut, TypeOK
  <2>3. QED
    BY <1>8, <2>1, <2>2
<1>9. ASSUME NEW t \in Tabs, ServerOpens(t) PROVE TypeOK'
  <2>1. Tail(up[t]) \in Seq(Message)
    BY <1>9, QueueTail DEF ServerOpens, NextIs, TypeOK
  <2>2. QED
    BY <1>9, <2>1 DEF ServerOpens, TypeOK
<1>10. ASSUME NEW t \in Tabs, ServerAnswers(t) PROVE TypeOK'
  <2>1. Ack(memory) \in Message
    BY <1>10, MessageType DEF ServerAnswers, Carrying, TypeOK
  <2>2. Append(down[t], Ack(memory)) \in Seq(Message)
    BY <2>1, QueueAppend DEF TypeOK
  <2>3. QED
    BY <1>10, <2>2 DEF ServerAnswers, TypeOK
<1>11. ASSUME NEW t \in Tabs, ServerRefuses(t) PROVE TypeOK'
  <2>1. Append(down[t], Refusal) \in Seq(Message)
    BY MessageType, QueueAppend DEF TypeOK
  <2>2. QED
    BY <1>11, <2>1 DEF ServerRefuses, TypeOK
<1>12. ASSUME NEW t \in Tabs, ServerUpdates(t) PROVE TypeOK'
  <2> DEFINE new == Settled(memory') \ Settled(memory)
  <2>1. Tail(up[t]) \in Seq(Message) /\ Head(up[t]) \in Message
    BY <1>12, QueueTail DEF ServerUpdates, NextIs, TypeOK
  <2>2. Head(up[t]).edits \in SUBSET Content
    BY <2>1 DEF Message, Carrying
  <2>3. memory' \in SUBSET Content /\ held' \in SUBSET Content
    BY <1>12, <2>2 DEF ServerUpdates, TypeOK, KeptAside
  <2>4. new \in SUBSET Content
    BY <2>3 DEF Settled
  <2>5. /\ down' = [u \in Tabs |-> IF u = t \/ member[u] = "away" THEN down[u]
                                   ELSE Sending(down[u], new)]
        /\ up' = [up EXCEPT ![t] = Tail(@)]
    BY <1>12 DEF ServerUpdates
  <2> HIDE DEF new
  <2>6. \A u \in Tabs : Sending(down[u], new) \in Seq(Message)
    BY <2>4, QueueSending DEF TypeOK
  <2>7. down' \in [Tabs -> Seq(Message)] /\ up' \in [Tabs -> Seq(Message)]
    BY <2>1, <2>5, <2>6 DEF TypeOK
  <2>8. QED
    BY <1>12, <2>3, <2>7 DEF ServerUpdates, TypeOK
<1>13. ASSUME NEW t \in Tabs, ServerRejects(t) PROVE TypeOK'
  <2>1. Tail(up[t]) \in Seq(Message) /\ Head(up[t]) \in Message
    BY <1>13, QueueTail DEF ServerRejects, NextIs, TypeOK
  <2>2. Head(up[t]).edits \in SUBSET Content
    BY <2>1 DEF Message, Carrying
  <2>3. QED
    BY <1>13, <2>1, <2>2 DEF ServerRejects, TypeOK
<1>14. CASE Load
  BY <1>14 DEF Load, TypeOK, Content
<1>15. CASE Save
  BY <1>15 DEF Save, TypeOK
<1>16. CASE Unload
  BY <1>16 DEF Unload, TypeOK
<1>17. CASE Restart
  <2>1. phase' \in [Tabs -> {"off", "opening", "open", "silent", "refused"}]
    BY <1>17 DEF Restart, TypeOK
  <2>2. QED
    BY <1>17, <2>1, QueueEmpty DEF Restart, TypeOK
<1>18. CASE UNCHANGED vars
  BY <1>18 DEF vars, TypeOK
<1>19. QED
  BY <1>1, <1>2, <1>3, <1>4, <1>5, <1>6, <1>7, <1>8, <1>9, <1>10, <1>11, <1>12,
     <1>13, <1>14, <1>15, <1>16, <1>17, <1>18
  DEF Next, TabStep, ServerStep

-----------------------------------------------------------------------------
(* What builds on what.                                                    *)

\* What a document shows grows with what it received.
LEMMA SettledGrows ==
    ASSUME NEW S, NEW R, S \subseteq R
    PROVE  Settled(S) \subseteq Settled(R) /\ Settled(S) \subseteq S
BY DEF Settled

\* What is shown is complete: with an edit, all it builds on.
LEMMA SettledIsClosed ==
    ASSUME NeedsInv, NEW S \in SUBSET Content
    PROVE  \A e \in Settled(S) : needs[e] \subseteq Settled(S)
BY DEF NeedsInv, Settled

\* What builds on something touched is touched.
LEMMA TouchedSpreads ==
    ASSUME TypeOK, NeedsInv, NEW X
    PROVE  \A e \in Content : \A d \in needs[e] : d \in Touched(X) => e \in Touched(X)
BY DEF NeedsInv, Touched

\* The edits that were typed or seeded, and what they build on, stay as they are.
Used == Content \ fresh

LEMMA NeedsStay ==
    ASSUME TypeOK, [Next]_vars
    PROVE  Used \subseteq Used' /\ \A e \in Used : needs'[e] = needs[e]
<1> USE DEF serverVars, historyVars, Used
<1>1. ASSUME NEW t \in Tabs, NEW e \in Edits, Type(t, e)
      PROVE  Used \subseteq Used' /\ \A d \in Used : needs'[d] = needs[d]
  <2>1. e \in fresh /\ fresh' = fresh \ {e} /\ \E N : needs' = [needs EXCEPT ![e] = N]
    BY <1>1 DEF Type
  <2>2. QED
    BY <2>1 DEF TypeOK
<1>2. ASSUME NEW t \in Tabs, TabStep(t) \/ ServerStep(t), ~ \E e \in Edits : Type(t, e)
      PROVE  fresh' = fresh /\ needs' = needs
  BY <1>2 DEF TabStep, ServerStep, Connect, GiveUp, HearAck, HearLateAnswer,
     HearRefusal, HearUpdate, Drop, Close, ServerOpens, ServerAnswers,
     ServerRefuses, ServerUpdates, ServerRejects
<1>3. CASE Load \/ Save \/ Unload \/ Restart \/ UNCHANGED vars
  <2>1. fresh' \subseteq fresh /\ needs' = needs
    BY <1>3 DEF Load, Save, Unload, Restart, vars
  <2>2. QED
    BY <2>1
<1>4. QED
  BY <1>1, <1>2, <1>3 DEF Next

\* So what a document of them shows stays the same, and what they touch.
LEMMA ShownStays ==
    ASSUME TypeOK, [Next]_vars, NEW S \in SUBSET Used
    PROVE  {e \in S : needs'[e] \subseteq S} = Settled(S)
BY NeedsStay DEF Settled

\* Nothing builds on an edit before somebody typed it.
LEMMA NeedsStep ==
    ASSUME TypeOK, NeedsInv, CarryInv, [Next]_vars
    PROVE  NeedsInv'
<1> USE DEF serverVars, historyVars, Trouble
<1> DEFINE Below == /\ memory \cup row \cup rejected \cup held \subseteq Used
                    /\ \A t \in Tabs : doc[t] \cup Carried(down[t]) \subseteq Used
           Links == /\ \A e \in Content : needs[e] \subseteq Used
                    /\ \A e \in Content : \A d \in needs[e] : needs[d] \subseteq needs[e]
                    /\ \A e \in Seeds : needs[e] = {}
<1>1. NeedsInv <=> Below /\ Links
  BY DEF NeedsInv, Used
<1>2. NeedsInv' <=> Below' /\ Links'
  BY DEF NeedsInv, Used
<1>3. Used \subseteq Used' /\ \A e \in Used : needs'[e] = needs[e]
  BY NeedsStay
<1>4. Links'
  <2>1. ASSUME NEW t \in Tabs, NEW e \in Edits, Type(t, e) PROVE Links'
    <3>1. PICK N \in SUBSET Settled(doc[t]) :
             (\A d \in N : needs[d] \subseteq N) /\ needs' = [needs EXCEPT ![e] = N]
      BY <2>1 DEF Type
    <3>2. e \in fresh /\ fresh' = fresh \ {e} /\ e \in Content /\ e \notin Seeds
      BY <2>1, NamesAssumption DEF Type, Content
    <3>3. N \subseteq Used /\ e \notin Used /\ Used \subseteq Content
      BY <1>1, <3>2 DEF NeedsInv, Settled, Used
    <3>4. needs'[e] = N /\ \A d \in Content \ {e} : needs'[d] = needs[d]
      BY <3>1, <3>2 DEF TypeOK
    <3>5. \A d \in Content : needs'[d] \subseteq Used'
      BY <1>1, <1>3, <3>3, <3>4
    <3>6. \A c \in Content : \A d \in needs'[c] : needs'[d] \subseteq needs'[c]
      <4>1. ASSUME NEW d \in N PROVE needs'[d] \subseteq N
        BY <3>1, <3>3, <3>4
      <4>2. ASSUME NEW c \in Content \ {e}, NEW d \in needs[c] PROVE needs'[d] \subseteq needs[c]
        <5>1. d \in Used /\ d # e
          BY <1>1, <3>3
        <5>2. QED
          BY <1>1, <5>1, <3>3, <3>4
      <4>3. QED
        BY <3>4, <4>1, <4>2
    <3>7. \A d \in Seeds : needs'[d] = {}
      BY <1>1, <3>2, <3>4 DEF Content
    <3>8. QED
      BY <3>5, <3>6, <3>7
  <2>2. CASE needs' = needs
    BY <1>1, <1>3, <2>2
  <2>3. ASSUME NEW t \in Tabs, TabStep(t) \/ ServerStep(t), ~ \E e \in Edits : Type(t, e)
        PROVE  needs' = needs
    BY <2>3 DEF TabStep, ServerStep, Connect, GiveUp, HearAck, HearLateAnswer,
       HearRefusal, HearUpdate, Drop, Close, ServerOpens, ServerAnswers,
       ServerRefuses, ServerUpdates, ServerRejects
  <2>4. CASE Load \/ Save \/ Unload \/ Restart \/ UNCHANGED vars
    BY <2>2, <2>4 DEF Load, Save, Unload, Restart, vars
  <2>5. QED
    BY <2>1, <2>2, <2>3, <2>4 DEF Next
<1>5. Below'
  <2>0. /\ Below /\ \A t \in Tabs : Carried(up[t]) \subseteq Used
    BY <1>1 DEF CarryInv
  <2> USE DEF Used
  <2>1. ASSUME NEW t \in Tabs, NEW e \in Edits, Type(t, e) PROVE Below'
    <3>1. /\ fresh' = fresh \ {e} /\ e \in Content /\ e \in fresh
          /\ doc' = [doc EXCEPT ![t] = @ \cup {e}]
          /\ memory' = memory /\ row' = row /\ rejected' = rejected /\ held' = held
          /\ down' = down
      BY <2>1 DEF Type, Content
    <3>2. QED
      BY <1>3, <2>0, <3>1 DEF TypeOK
  <2>2. ASSUME NEW t \in Tabs,
               Connect(t) \/ GiveUp(t) \/ Drop(t) \/ Close(t) \/ HearRefusal(t) \/ ServerOpens(t)
        PROVE  Below'
    <3>1. /\ fresh' = fresh
          /\ memory' = memory /\ row' = row /\ rejected' = rejected /\ held' = held
          /\ \A u \in Tabs : doc'[u] \subseteq doc[u] /\ (down'[u] = down[u] \/ down'[u] = <<>>)
      BY <2>2 DEF Connect, GiveUp, Drop, Close, HearRefusal, ServerOpens, Cut, TypeOK
    <3>2. QED
      BY <2>0, <3>1, QueueEmpty
  <2>3. ASSUME NEW t \in Tabs, HearAck(t) \/ HearLateAnswer(t) \/ HearUpdate(t)
        PROVE  Below'
    <3>1. /\ fresh' = fresh
          /\ memory' = memory /\ row' = row /\ rejected' = rejected /\ held' = held
          /\ down[t] # <<>> /\ down' = [down EXCEPT ![t] = Tail(@)]
          /\ doc' = doc \/ doc' = [doc EXCEPT ![t] = @ \cup Head(down[t]).edits]
      BY <2>3 DEF HearAck, HearLateAnswer, HearUpdate, NextIs
    <3>2. Carried(down[t]) = Head(down[t]).edits \cup Carried(Tail(down[t]))
      BY <3>1, QueueTail DEF TypeOK
    <3>3. QED
      BY <2>0, <3>1, <3>2 DEF TypeOK
  <2>4. ASSUME NEW t \in Tabs, ServerAnswers(t) \/ ServerRefuses(t)
        PROVE  Below'
    <3>1. /\ fresh' = fresh
          /\ memory' = memory /\ row' = row /\ rejected' = rejected /\ held' = held
          /\ doc' = doc
      BY <2>4 DEF ServerAnswers, ServerRefuses
    <3>2. PICK m \in Message : /\ down' = [down EXCEPT ![t] = Append(@, m)]
                               /\ m.edits \subseteq memory
      <4>1. CASE ServerAnswers(t)
        <5>1. Ack(memory) \in Message /\ Ack(memory).edits = memory
          BY <4>1, MessageType DEF ServerAnswers, Carrying, TypeOK, Ack
        <5>2. QED
          BY <4>1, <5>1 DEF ServerAnswers
      <4>2. CASE ServerRefuses(t)
        <5>1. Refusal \in Message /\ Refusal.edits = {}
          BY MessageType DEF Refusal
        <5>2. QED
          BY <4>2, <5>1 DEF ServerRefuses
      <4>3. QED
        BY <2>4, <4>1, <4>2
    <3>3. Carried(Append(down[t], m)) = Carried(down[t]) \cup m.edits
      BY QueueAppend DEF TypeOK
    <3>4. QED
      BY <2>0, <3>1, <3>2, <3>3 DEF TypeOK
  <2>5. ASSUME NEW t \in Tabs, ServerUpdates(t)
        PROVE  Below'
    <3> DEFINE new == Settled(memory') \ Settled(memory)
    <3>1. /\ fresh' = fresh /\ row' = row /\ rejected' = rejected /\ doc' = doc
          /\ up[t] # <<>> /\ memory' = memory \cup Head(up[t]).edits
          /\ held' = held \cup KeptAside(memory')
          /\ down' = [u \in Tabs |-> IF u = t \/ member[u] = "away" THEN down[u]
                                     ELSE Sending(down[u], new)]
      BY <2>5 DEF ServerUpdates, NextIs
    <3>2. Head(up[t]).edits \subseteq Used
      BY <2>0, <3>1, QueueTail DEF TypeOK
    <3>3. memory' \subseteq Used /\ held' \subseteq Used /\ new \in SUBSET Used
      BY <2>0, <3>1, <3>2 DEF KeptAside, Settled
    <3> HIDE DEF new
    <3>4. \A u \in Tabs : Carried(Sending(down[u], new)) = Carried(down[u]) \cup new
      BY <3>3, QueueSending DEF TypeOK
    <3>5. QED
      BY <2>0, <3>1, <3>3, <3>4
  <2>6. ASSUME NEW t \in Tabs, ServerRejects(t)
        PROVE  Below'
    <3>1. /\ fresh' = fresh /\ memory' = memory /\ row' = row /\ held' = held
          /\ doc' = doc /\ down' = down
          /\ up[t] # <<>> /\ rejected' = rejected \cup Head(up[t]).edits
      BY <2>6 DEF ServerRejects, NextIs
    <3>2. Head(up[t]).edits \subseteq Used
      BY <2>0, <3>1, QueueTail DEF TypeOK
    <3>3. QED
      BY <2>0, <3>1, <3>2
  <2>7. CASE Load \/ Save \/ Unload \/ Restart \/ UNCHANGED vars
    <3>1. /\ fresh' \subseteq fresh /\ memory' \cup row' \subseteq Content \ fresh'
          /\ rejected' = rejected /\ held' = held
          /\ doc' = doc /\ \A u \in Tabs : down'[u] \in {down[u], <<>>}
      BY <2>0, <2>7 DEF Load, Save, Unload, Restart, vars, TypeOK, Content
    <3>2. QED
      BY <1>3, <2>0, <3>1, QueueEmpty
  <2>8. QED
    BY <2>1, <2>2, <2>3, <2>4, <2>5, <2>6, <2>7 DEF Next, TabStep, ServerStep
<1>6. QED
  BY <1>2, <1>4, <1>5

-----------------------------------------------------------------------------
(* The connections.                                                        *)

\* What the room shows and never kept aside.
Plain == Settled(memory) \ Touched(held)

\* What the invariant says of one tab.
TabInv(t) ==
    /\ phase[t] \in {"off", "refused"} =>
          member[t] = "away" /\ up[t] = <<>> /\ down[t] = <<>>
    /\ phase[t] \in {"opening", "silent"} =>
          up[t] = <<>> \/ (up[t] = <<Opening>> /\ member[t] = "away" /\ down[t] = <<>>)
    /\ phase[t] = "open" => member[t] = "joined" /\ Kinds(up[t]) \subseteq {"update"}
    /\ "ack" \in Kinds(down[t]) => member[t] = "joined"
    /\ Carried(up[t]) \subseteq doc[t]
    /\ member[t] # "away" => Carried(down[t]) \subseteq memory
    /\ member[t] = "joined" /\ phase[t] \in {"opening", "open"} =>
          Plain \subseteq doc[t] \cup Carried(down[t])
    /\ member[t] = "joined" => memory # {}
    /\ phase[t] = "open" => doc[t] \subseteq memory \cup Carried(up[t]) \cup rejected

RowInv ==
    /\ memory # {} => row \subseteq memory /\ Settled(memory) # {}
    /\ row # {} => Settled(row) # {}
    /\ KeptAside(memory) \cup KeptAside(row) \subseteq held

LEMMA ByTab ==
    TalkInv /\ CarryInv /\ StepInv /\ RoomInv <=> RowInv /\ \A t \in Tabs : TabInv(t)
BY DEF TalkInv, CarryInv, StepInv, RoomInv, TabInv, RowInv, Plain

\* While the room and the record stay, so does what it shows.
LEMMA PlainStays ==
    ASSUME TypeOK, NeedsInv, [Next]_vars, memory' = memory, held' = held
    PROVE  Plain' \subseteq Plain
<1>1. memory \in SUBSET Used /\ \A e \in memory : needs'[e] = needs[e]
  BY NeedsStay DEF NeedsInv, Used
<1>2. QED
  BY <1>1 DEF Plain, Settled, Touched, TypeOK

\* Nothing changed for a tab whose own part of the state did not, as long as
\* the room did not either.
LEMMA TabUnchanged ==
    ASSUME NEW t \in Tabs, TabInv(t), memory' = memory, rejected \subseteq rejected',
           Plain' \subseteq Plain,
           member'[t] = member[t], phase'[t] = phase[t], doc'[t] = doc[t],
           up'[t] = up[t], down'[t] = down[t]
    PROVE  TabInv(t)'
BY DEF TabInv, Carried, Kinds

\* Nor for the room while its document and its row stay.
LEMMA RowUnchanged ==
    ASSUME TypeOK, NeedsInv, RowInv, [Next]_vars, memory' = memory, row' = row, held' = held
    PROVE  RowInv'
<1>1. \A e \in memory \cup row : needs'[e] = needs[e]
  BY NeedsStay DEF NeedsInv, Used
<1>2. Settled(memory)' = Settled(memory) /\ Settled(row)' = Settled(row)
  BY <1>1 DEF Settled
<1>3. QED
  BY <1>2 DEF RowInv, KeptAside

\* The steps that concern one tab and leave the room alone: that tab keeps its
\* part of the invariant.
LEMMA OwnStep ==
    ASSUME TypeOK, NeedsInv, NEW t \in Tabs, TabInv(t), [Next]_vars,
           \/ \E e \in Edits : Type(t, e)
           \/ Connect(t) \/ GiveUp(t) \/ HearAck(t) \/ HearLateAnswer(t)
           \/ HearRefusal(t) \/ HearUpdate(t) \/ Drop(t) \/ Close(t)
           \/ ServerOpens(t) \/ ServerAnswers(t) \/ ServerRefuses(t) \/ ServerRejects(t)
    PROVE  TabInv(t)' /\ memory' = memory /\ row' = row /\ held' = held
           /\ rejected \subseteq rejected'
           /\ \A u \in Tabs \ {t} :
                 /\ member'[u] = member[u] /\ phase'[u] = phase[u] /\ doc'[u] = doc[u]
                 /\ up'[u] = up[u] /\ down'[u] = down[u]
<1> USE DEF serverVars, historyVars, Trouble
<1>0. /\ up[t] \in Seq(Message) /\ down[t] \in Seq(Message)
      /\ doc[t] \in SUBSET Content /\ memory \in SUBSET Content
  BY DEF TypeOK
<1>13. memory' = memory /\ row' = row /\ held' = held
  BY DEF Type, Connect, GiveUp, HearAck, HearLateAnswer, HearRefusal, HearUpdate,
         Drop, Close, ServerOpens, ServerAnswers, ServerRefuses, ServerRejects
<1>kept. rejected \subseteq rejected' /\ Plain' \subseteq Plain
  <2>1. Plain' \subseteq Plain
    BY <1>13, PlainStays
  <2>2. QED
    BY <2>1 DEF Type, Connect, GiveUp, HearAck, HearLateAnswer, HearRefusal, HearUpdate,
         Drop, Close, ServerOpens, ServerAnswers, ServerRefuses, ServerRejects
<1>1. ASSUME NEW e \in Edits, Type(t, e) PROVE TabInv(t)'
  <2>1. /\ doc'[t] = doc[t] \cup {e} /\ memory' = memory
        /\ member'[t] = member[t] /\ phase'[t] = phase[t] /\ down'[t] = down[t]
    BY <1>1 DEF Type, TypeOK
  <2>2. CASE phase[t] = "open"
    <3>1. Update({e}) \in Message /\ Update({e}).edits = {e} /\ Update({e}).kind = "update"
      BY MessageType DEF Update, Carrying, Content
    <3>2. up'[t] = Append(up[t], Update({e}))
      BY <1>1, <2>2 DEF Type, TypeOK
    <3>3. Carried(up'[t]) = Carried(up[t]) \cup {e} /\ Kinds(up'[t]) = Kinds(up[t]) \cup {"update"}
      BY <1>0, <3>1, <3>2, QueueAppend
    <3>4. QED
      BY <1>kept, <2>1, <2>2, <3>3 DEF TabInv
  <2>3. CASE phase[t] # "open"
    <3>1. up'[t] = up[t]
      BY <1>1, <2>3 DEF Type
    <3>2. QED
      BY <1>kept, <2>1, <2>3, <3>1 DEF TabInv
  <2>4. QED
    BY <2>2, <2>3
<1>2. ASSUME Connect(t) PROVE TabInv(t)'
  <2>1. /\ phase[t] = "off" /\ phase'[t] = "opening" /\ up'[t] = <<Opening>>
        /\ doc'[t] = doc[t] /\ memory' = memory
        /\ member'[t] = member[t] /\ down'[t] = down[t]
    BY <1>2 DEF Connect, TypeOK
  <2>2. Carried(up'[t]) = {} /\ Carried(down'[t]) = {} /\ Kinds(down'[t]) = {}
    BY <1>kept, <2>1, QueueEmpty DEF TabInv, Carried, Opening
  <2>3. QED
    BY <1>kept, <2>1, <2>2 DEF TabInv
<1>3. ASSUME GiveUp(t) PROVE TabInv(t)'
  BY <1>kept, <1>3 DEF GiveUp, TabInv, TypeOK, Carried, Kinds
<1>4. ASSUME HearAck(t) PROVE TabInv(t)'
  <2> DEFINE state == Head(down[t]).edits
             lacks == (doc[t] \cup state) \ Settled(state)
  <2>1. /\ phase[t] = "opening" /\ down[t] # <<>> /\ Head(down[t]).kind = "ack"
        /\ doc'[t] = doc[t] \cup state /\ up'[t] = Sending(up[t], lacks)
        /\ phase'[t] = "open" /\ down'[t] = Tail(down[t])
        /\ memory' = memory /\ member'[t] = member[t]
    BY <1>4 DEF HearAck, NextIs, TypeOK
  <2>2. /\ Carried(down[t]) = state \cup Carried(down'[t])
        /\ Kinds(down[t]) = {"ack"} \cup Kinds(down'[t])
        /\ Head(down[t]) \in Message
    BY <1>0, <2>1, QueueTail
  <2>3. state \in SUBSET Content /\ lacks \in SUBSET Content
    BY <1>0, <2>2 DEF Message, Carrying
  <2>4. lacks \subseteq doc'[t] /\ doc[t] \ state \subseteq lacks
    BY <2>1 DEF Settled
  <2> HIDE DEF state, lacks
  <2>5. member[t] = "joined" /\ up[t] = <<>> /\ state \subseteq memory
    BY <1>kept, <2>1, <2>2 DEF TabInv
  <2>6. Carried(up'[t]) = lacks /\ Kinds(up'[t]) \subseteq {"update"}
    <3>1. /\ Carried(up'[t]) = Carried(up[t]) \cup lacks
          /\ Kinds(up'[t]) \subseteq Kinds(up[t]) \cup {"update"}
      BY <1>0, <2>1, <2>3, QueueSending
    <3>2. QED
      BY <2>5, <3>1, QueueEmpty
  <2>7. QED
    BY <1>kept, <2>1, <2>2, <2>4, <2>5, <2>6 DEF TabInv
<1>5. ASSUME HearLateAnswer(t) PROVE TabInv(t)'
  <2>1. /\ phase[t] = "silent" /\ down[t] # <<>> /\ down'[t] = Tail(down[t])
        /\ doc'[t] = doc[t] /\ up'[t] = up[t] /\ phase'[t] = phase[t]
        /\ memory' = memory /\ member'[t] = member[t]
    BY <1>5 DEF HearLateAnswer, NextIs, TypeOK
  <2>2. Carried(down'[t]) \subseteq Carried(down[t]) /\ Kinds(down'[t]) \subseteq Kinds(down[t])
    BY <1>0, <2>1, QueueTail
  <2>3. QED
    BY <1>kept, <2>1, <2>2 DEF TabInv
<1>6. ASSUME HearRefusal(t) PROVE TabInv(t)'
  <2>1. /\ member'[t] = "away" /\ phase'[t] = "refused" /\ up'[t] = <<>> /\ down'[t] = <<>>
    BY <1>6 DEF HearRefusal, Cut, TypeOK
  <2>2. QED
    BY <1>kept, <2>1, QueueEmpty DEF TabInv
<1>7. ASSUME HearUpdate(t) PROVE TabInv(t)'
  <2> DEFINE edits == Head(down[t]).edits
  <2>1. /\ down[t] # <<>> /\ down'[t] = Tail(down[t])
        /\ doc'[t] = doc[t] \cup edits /\ up'[t] = up[t] /\ phase'[t] = phase[t]
        /\ memory' = memory /\ member'[t] = member[t]
    BY <1>7 DEF HearUpdate, NextIs, TypeOK
  <2>2. /\ Carried(down[t]) = edits \cup Carried(down'[t])
        /\ Kinds(down'[t]) \subseteq Kinds(down[t])
    BY <1>0, <2>1, QueueTail
  <2> HIDE DEF edits
  <2>3. QED
    BY <1>kept, <2>1, <2>2 DEF TabInv
<1>8. ASSUME Drop(t) \/ Close(t) PROVE TabInv(t)'
  <2>1. /\ member'[t] = "away" /\ phase'[t] = "off" /\ up'[t] = <<>> /\ down'[t] = <<>>
    BY <1>8 DEF Drop, Close, Cut, TypeOK
  <2>2. QED
    BY <1>kept, <2>1, QueueEmpty DEF TabInv
<1>9. ASSUME ServerOpens(t) PROVE TabInv(t)'
  <2>1. /\ up[t] # <<>> /\ Head(up[t]).kind = "open" /\ up'[t] = Tail(up[t])
        /\ member'[t] = "opening" /\ phase'[t] = phase[t]
        /\ doc'[t] = doc[t] /\ down'[t] = down[t] /\ memory' = memory
    BY <1>9 DEF ServerOpens, NextIs, TypeOK
  <2>2. "open" \in Kinds(up[t])
    BY <1>0, <2>1, QueueTail
  <2>3. up[t] = <<Opening>> /\ down[t] = <<>> /\ phase[t] \in {"opening", "silent"}
    BY <2>1, <2>2 DEF TabInv, TypeOK
  <2>4. up'[t] = <<>>
    BY <2>1, <2>3
  <2>5. QED
    BY <1>kept, <2>1, <2>3, <2>4, QueueEmpty DEF TabInv
<1>10. ASSUME ServerAnswers(t) PROVE TabInv(t)'
  <2>1. /\ member[t] = "opening" /\ memory # {} /\ member'[t] = "joined"
        /\ down'[t] = Append(down[t], Ack(memory)) /\ up'[t] = up[t]
        /\ phase'[t] = phase[t] /\ doc'[t] = doc[t] /\ memory' = memory
    BY <1>10 DEF ServerAnswers, TypeOK
  <2>2. Ack(memory) \in Message /\ Ack(memory).edits = memory
    BY <1>0, <2>1, MessageType DEF Ack, Carrying
  <2>3. Carried(down'[t]) = Carried(down[t]) \cup memory
    BY <1>0, <2>1, <2>2, QueueAppend
  <2>4. Plain \subseteq memory
    BY DEF Plain, Settled
  <2>5. QED
    BY <1>kept, <2>1, <2>3, <2>4 DEF TabInv
<1>11. ASSUME ServerRefuses(t) PROVE TabInv(t)'
  <2>1. /\ member[t] = "opening" /\ member'[t] = "away"
        /\ down'[t] = Append(down[t], Refusal) /\ up'[t] = up[t]
        /\ phase'[t] = phase[t] /\ doc'[t] = doc[t] /\ memory' = memory
    BY <1>11 DEF ServerRefuses, TypeOK
  <2>2. Kinds(down'[t]) = Kinds(down[t]) \cup {"refusal"}
    BY <1>0, <2>1, MessageType, QueueAppend DEF Refusal
  <2>3. up[t] = <<>> /\ phase[t] \in {"opening", "silent"} /\ "ack" \notin Kinds(down[t])
    BY <2>1 DEF TabInv, TypeOK
  <2>4. QED
    BY <1>kept, <2>1, <2>2, <2>3 DEF TabInv
<1>12. ASSUME ServerRejects(t) PROVE TabInv(t)'
  <2>1. /\ member[t] = "joined" /\ up[t] # <<>> /\ up'[t] = Tail(up[t])
        /\ Head(up[t]).kind = "update"
        /\ member'[t] = member[t] /\ phase'[t] = phase[t]
        /\ doc'[t] = doc[t] /\ down'[t] = down[t] /\ memory' = memory
        /\ rejected' = rejected \cup Head(up[t]).edits
    BY <1>12 DEF ServerRejects, NextIs, TypeOK
  <2>2. /\ Carried(up[t]) = Head(up[t]).edits \cup Carried(up'[t])
        /\ Kinds(up'[t]) \subseteq Kinds(up[t])
    BY <1>0, <2>1, QueueTail
  <2>3. phase[t] = "open"
    BY <2>1 DEF TabInv, TypeOK, Opening
  <2>4. QED
    BY <1>kept, <2>1, <2>2, <2>3 DEF TabInv
<1>14. ASSUME NEW u \in Tabs \ {t}
       PROVE  /\ member'[u] = member[u] /\ phase'[u] = phase[u] /\ doc'[u] = doc[u]
              /\ up'[u] = up[u] /\ down'[u] = down[u]
  BY DEF TypeOK, Cut, Type, Connect, GiveUp, HearAck, HearLateAnswer, HearRefusal,
         HearUpdate, Drop, Close, ServerOpens, ServerAnswers, ServerRefuses, ServerRejects
<1>15. QED
  BY <1>1, <1>2, <1>3, <1>4, <1>5, <1>6, <1>7, <1>8, <1>9, <1>10, <1>11, <1>12,
     <1>13, <1>14, <1>kept

\* An update reaches the room and the queues of everyone else in it at once,
\* and with it what waited for it; only what waited in the room is news to the
\* tab that sent it.
LEMMA UpdateStep ==
    ASSUME TypeOK, NeedsInv, RowInv, \A u \in Tabs : TabInv(u),
           NEW t \in Tabs, ServerUpdates(t)
    PROVE  RowInv' /\ \A u \in Tabs : TabInv(u)'
<1> DEFINE new == Settled(memory') \ Settled(memory)
           edits == Head(up[t]).edits
<1>1. /\ up[t] # <<>> /\ Head(up[t]).kind = "update" /\ member[t] = "joined"
      /\ memory' = memory \cup edits
      /\ down' = [u \in Tabs |-> IF u = t \/ member[u] = "away" THEN down[u]
                                 ELSE Sending(down[u], new)]
      /\ up' = [up EXCEPT ![t] = Tail(@)]
      /\ held' = held \cup KeptAside(memory')
      /\ row' = row /\ member' = member /\ phase' = phase /\ doc' = doc
      /\ rejected' = rejected /\ needs' = needs
  BY DEF ServerUpdates, NextIs
<1>2. /\ edits \in SUBSET Content
      /\ Carried(up[t]) = edits \cup Carried(Tail(up[t]))
      /\ Kinds(up[t]) = {"update"} \cup Kinds(Tail(up[t]))
  <2>1. up[t] \in Seq(Message) /\ up[t] # <<>>
    BY <1>1 DEF TypeOK
  <2>2. Head(up[t]) \in Message
    BY <2>1, QueueTail
  <2>3. Head(up[t]).edits \in SUBSET Content
    BY <2>2 DEF Message, Carrying
  <2>4. QED
    BY <1>1, <2>1, <2>3, QueueTail
<1>3. /\ Settled(memory)' = Settled(memory') /\ KeptAside(memory)' = KeptAside(memory')
      /\ Settled(row)' = Settled(row) /\ KeptAside(row)' = KeptAside(row)
      /\ Touched(held)' = Touched(held')
      /\ \A u \in Tabs : Carried(up[u])' = Carried(up'[u]) /\ Carried(down[u])' = Carried(down'[u])
      /\ \A u \in Tabs : Kinds(up[u])' = Kinds(up'[u]) /\ Kinds(down[u])' = Kinds(down'[u])
  BY <1>1 DEF Settled, KeptAside, Touched, Carried, Kinds
<1>4. memory # {} /\ phase[t] = "open" /\ edits \subseteq doc[t]
  BY <1>1, <1>2 DEF TabInv, TypeOK, Opening, Kinds
<1>5. /\ Settled(memory) \subseteq Settled(memory') /\ Settled(memory') \subseteq memory'
      /\ new \in SUBSET Content /\ KeptAside(memory') \subseteq memory'
  BY <1>1, <1>2, SettledGrows DEF KeptAside, Settled, TypeOK
<1>6. Plain' \subseteq Plain \cup new
  BY <1>1, <1>3 DEF Plain, Touched
<1>7. Plain' \subseteq Plain \cup edits
  <2>1. KeptAside(memory) \subseteq held /\ held \subseteq held'
    BY <1>1 DEF RowInv
  <2>2. ASSUME NEW e \in memory, e \in Plain' PROVE e \in Plain
    <3>1. e \notin held
      BY <1>1, <1>3, <2>2 DEF Plain, Touched, TypeOK
    <3>2. e \in Settled(memory)
      BY <2>1, <3>1 DEF KeptAside
    <3>3. QED
      BY <1>1, <1>3, <2>2, <3>2 DEF Plain, Touched
  <2>3. QED
    BY <1>1, <1>3, <1>5, <2>2 DEF Plain
<1> HIDE DEF new, edits
<1>8. RowInv'
  BY <1>1, <1>3, <1>4, <1>5 DEF RowInv
<1>9. TabInv(t)'
  <2>1. up'[t] = Tail(up[t]) /\ down'[t] = down[t]
    BY <1>1 DEF TypeOK
  <2>2. QED
    BY <1>1, <1>2, <1>3, <1>4, <1>7, <2>1 DEF TabInv
<1>10. ASSUME NEW u \in Tabs, u # t PROVE TabInv(u)'
  <2>1. up'[u] = up[u]
    BY <1>1, <1>10 DEF TypeOK
  <2>2. CASE member[u] = "away"
    <3>1. down'[u] = down[u]
      BY <1>1, <2>2
    <3>2. QED
      BY <1>1, <1>3, <2>1, <2>2, <3>1 DEF TabInv
  <2>3. CASE member[u] # "away"
    <3>1. down'[u] = Sending(down[u], new) /\ down[u] \in Seq(Message)
      BY <1>1, <1>10, <2>3 DEF TypeOK
    <3>2. /\ Carried(down'[u]) = Carried(down[u]) \cup new
          /\ Kinds(down'[u]) \subseteq Kinds(down[u]) \cup {"update"}
      BY <1>5, <3>1, QueueSending
    <3>3. /\ phase[u] \notin {"off", "refused"}
          /\ phase[u] \in {"opening", "silent"} => up[u] = <<>>
      BY <2>3 DEF TabInv
    <3>4. /\ "ack" \in Kinds(down'[u]) => member[u] = "joined"
          /\ Carried(down'[u]) \subseteq memory'
      <4>1. new \subseteq memory'
        BY <1>5 DEF new
      <4>2. QED
        BY <1>1, <2>3, <3>2, <4>1 DEF TabInv
    <3>5. member[u] = "joined" /\ phase[u] \in {"opening", "open"} =>
            Plain' \subseteq doc[u] \cup Carried(down'[u])
      BY <1>6, <3>2 DEF TabInv
    <3>6. phase[u] = "open" => doc[u] \subseteq memory' \cup Carried(up[u]) \cup rejected
      BY <1>1 DEF TabInv
    <3>7. /\ phase[u] = "open" => member[u] = "joined" /\ Kinds(up[u]) \subseteq {"update"}
          /\ Carried(up[u]) \subseteq doc[u]
      BY DEF TabInv
    <3>8. QED
      BY <1>1, <1>3, <1>4, <2>1, <3>3, <3>4, <3>5, <3>6, <3>7 DEF TabInv
  <2>4. QED
    BY <2>2, <2>3
<1>11. QED
  BY <1>8, <1>9, <1>10

\* So do the steps of the room and of the process.
LEMMA RoomStep ==
    ASSUME TypeOK, NeedsInv, RowInv, \A u \in Tabs : TabInv(u),
           Load \/ Save \/ Unload \/ Restart
    PROVE  RowInv' /\ \A u \in Tabs : TabInv(u)'
<1> USE DEF historyVars
<1>0. needs' = needs /\ held' = held /\ rejected' = rejected /\ doc' = doc
  BY DEF Load, Save, Unload, Restart
<1>1. CASE Load
  <2>1. /\ memory = {} /\ row' = row
        /\ member' = member /\ phase' = phase /\ up' = up /\ down' = down
    BY <1>1 DEF Load
  <2>2. /\ memory' # {} /\ row \subseteq memory' /\ Settled(memory') # {}
        /\ KeptAside(memory') \subseteq held
    <3>1. CASE row # {} /\ memory' = row
      BY <3>1 DEF RowInv
    <3>2. ASSUME row = {}, NEW seed \in Seeds, memory' = {seed}
          PROVE  /\ memory' # {} /\ row \subseteq memory' /\ Settled(memory') # {}
                 /\ KeptAside(memory') \subseteq held
      BY <3>2 DEF NeedsInv, KeptAside, Settled, Content
    <3>3. QED
      BY <1>1, <3>1, <3>2 DEF Load
  <2>3. RowInv'
    BY <1>0, <2>1, <2>2 DEF RowInv, Settled, KeptAside
  <2>4. \A u \in Tabs : TabInv(u)'
    BY <1>0, <2>1, <2>2 DEF TabInv
  <2>5. QED
    BY <2>3, <2>4
<1>2. CASE Save
  <2>1. /\ memory' = memory /\ row' \subseteq memory
        /\ Settled(row') # {} /\ KeptAside(row') \subseteq held /\ memory # {}
        /\ member' = member /\ phase' = phase /\ up' = up /\ down' = down
    BY <1>2 DEF Save
  <2>2. RowInv'
    BY <1>0, <2>1 DEF RowInv, Settled, KeptAside
  <2>3. Plain' = Plain
    BY <1>0, <2>1 DEF Plain, Settled, Touched
  <2>4. \A u \in Tabs : TabInv(u)'
    BY <1>0, <2>1, <2>3, TabUnchanged
  <2>5. QED
    BY <2>2, <2>4
<1>3. CASE Unload
  <2>1. /\ memory' = {} /\ row' = row /\ \A u \in Tabs : member[u] = "away"
        /\ member' = member /\ phase' = phase /\ up' = up /\ down' = down
    BY <1>3 DEF Unload
  <2>2. RowInv'
    BY <1>0, <2>1 DEF RowInv, Settled, KeptAside
  <2>3. QED
    BY <1>0, <2>1, <2>2 DEF TabInv
<1>4. CASE Restart
  <2>1. /\ memory' = {} /\ row' = row
        /\ \A u \in Tabs : /\ member'[u] = "away" /\ phase'[u] \in {"off", "refused"}
                           /\ up'[u] = <<>> /\ down'[u] = <<>>
    BY <1>4 DEF Restart
  <2>2. RowInv'
    BY <1>0, <2>1 DEF RowInv, Settled, KeptAside
  <2>3. QED
    BY <1>0, <2>1, <2>2, QueueEmpty DEF TabInv
<1>5. QED
  BY <1>1, <1>2, <1>3, <1>4

\* Together: every step keeps what is said of the connections and the room.
LEMMA LinesStep ==
    ASSUME TypeOK, NeedsInv, RowInv, \A u \in Tabs : TabInv(u), [Next]_vars
    PROVE  RowInv' /\ \A u \in Tabs : TabInv(u)'
<1>1. ASSUME NEW t \in Tabs, TabStep(t) \/ ServerStep(t)
      PROVE  RowInv' /\ \A u \in Tabs : TabInv(u)'
  <2>1. CASE ServerUpdates(t)
    BY <2>1, UpdateStep
  <2>2. CASE ~ServerUpdates(t)
    <3>1. /\ TabInv(t)' /\ memory' = memory /\ row' = row /\ held' = held
          /\ rejected \subseteq rejected'
          /\ \A u \in Tabs \ {t} :
                /\ member'[u] = member[u] /\ phase'[u] = phase[u] /\ doc'[u] = doc[u]
                /\ up'[u] = up[u] /\ down'[u] = down[u]
      BY <1>1, <2>2, OwnStep DEF TabStep, ServerStep
    <3>2. \A u \in Tabs \ {t} : TabInv(u)'
      BY <3>1, PlainStays, TabUnchanged
    <3>3. RowInv'
      BY <3>1, RowUnchanged
    <3>4. QED
      BY <3>1, <3>2, <3>3
  <2>3. QED
    BY <2>1, <2>2
<1>2. CASE UNCHANGED vars
  <2>1. /\ memory' = memory /\ row' = row /\ held' = held /\ rejected' = rejected
        /\ member' = member /\ phase' = phase /\ doc' = doc /\ up' = up /\ down' = down
    BY <1>2 DEF vars, serverVars, historyVars
  <2>2. QED
    BY <2>1, PlainStays, TabUnchanged, RowUnchanged
<1>3. CASE Load \/ Save \/ Unload \/ Restart
  BY <1>3, RoomStep
<1>4. QED
  BY <1>1, <1>2, <1>3 DEF Next

-----------------------------------------------------------------------------
(* Before any restart: whatever waits, waits for something refused.        *)

\* Ordered, of any queue and any relation.
Orderly(queue, links, Except, Below) ==
    \A i \in DOMAIN queue : \A e \in queue[i].edits \ Except :
        links[e] \subseteq Below \cup UNION {queue[j].edits : j \in 1..i}

LEMMA OrderlyEmpty ==
    ASSUME NEW N, NEW T, NEW S
    PROVE  Orderly(<<>>, N, T, S) /\ Orderly(<<Opening>>, N, T, S)
BY DEF Orderly, Opening

\* Excusing more, and having more to build on, keeps it.
LEMMA OrderlyStays ==
    ASSUME NEW q, NEW N, NEW T, NEW S, NEW M, NEW R, NEW B, Orderly(q, N, T, S),
           \A e \in Carried(q) : M[e] = N[e] /\ (e \in T => e \in R), S \subseteq B
    PROVE  Orderly(q, M, R, B)
BY DEF Orderly, Carried

LEMMA OrderlyAppend ==
    ASSUME NEW q \in Seq(Message), NEW m \in Message, NEW N, NEW T, NEW S,
           Orderly(q, N, T, S),
           \A e \in m.edits \ T : N[e] \subseteq S \cup Carried(q) \cup m.edits
    PROVE  Orderly(Append(q, m), N, T, S)
<1> DEFINE r == Append(q, m)
<1>1. /\ r \in Seq(Message)
      /\ DOMAIN q = 1..Len(q) /\ DOMAIN r = 1..(Len(q) + 1) /\ Len(q) \in Nat
      /\ \A i \in 1..Len(q) : r[i] = q[i]
      /\ r[Len(q) + 1] = m
  OBVIOUS
<1> HIDE DEF r
<1>2. ASSUME NEW i \in DOMAIN r, NEW e \in r[i].edits \ T
      PROVE  N[e] \subseteq S \cup UNION {r[j].edits : j \in 1..i}
  <2>1. CASE i \in 1..Len(q)
    <3>1. N[e] \subseteq S \cup UNION {q[j].edits : j \in 1..i}
      BY <1>1, <1>2, <2>1 DEF Orderly
    <3>2. \A j \in 1..i : r[j] = q[j]
      BY <1>1, <2>1
    <3>3. QED
      BY <3>1, <3>2
  <2>2. CASE i = Len(q) + 1
    <3>1. N[e] \subseteq S \cup Carried(q) \cup m.edits
      BY <1>1, <1>2, <2>2
    <3>2. \A j \in DOMAIN q : j \in 1..i /\ r[j] = q[j]
      BY <1>1, <2>2
    <3>3. i \in 1..i /\ r[i] = m
      BY <1>1, <2>2
    <3>4. QED
      BY <3>1, <3>2, <3>3 DEF Carried
  <2>3. QED
    BY <1>1, <2>1, <2>2
<1>3. QED
  BY <1>2 DEF Orderly, r

\* Taking the head away keeps it, if what was in it is there to build on, or
\* excuses whatever builds on it.
LEMMA OrderlyTail ==
    ASSUME NEW q \in Seq(Message), q # <<>>, NEW N, NEW T, NEW S, NEW R, NEW B,
           Orderly(q, N, T, S), T \subseteq R, S \subseteq B,
           \A d \in Head(q).edits : d \in B \/ \A e \in Carried(q) : d \in N[e] => e \in R
    PROVE  Orderly(Tail(q), N, R, B)
<1> DEFINE r == Tail(q)
<1>1. /\ Len(q) \in Nat \ {0} /\ Head(q) = q[1]
      /\ DOMAIN q = 1..Len(q) /\ DOMAIN r = 1..(Len(q) - 1)
      /\ \A i \in 1..(Len(q) - 1) : r[i] = q[i + 1]
  OBVIOUS
<1> HIDE DEF r
<1>2. ASSUME NEW i \in DOMAIN r, NEW e \in r[i].edits \ R
      PROVE  N[e] \subseteq B \cup UNION {r[j].edits : j \in 1..i}
  <2>1. i + 1 \in DOMAIN q /\ e \in q[i + 1].edits \ T
    BY <1>1, <1>2
  <2>2. N[e] \subseteq S \cup UNION {q[j].edits : j \in 1..(i + 1)}
    BY <2>1 DEF Orderly
  <2>3. e \in Carried(q)
    BY <2>1 DEF Carried
  <2>4. ASSUME NEW d \in N[e], d \notin B PROVE \E j \in 1..i : d \in r[j].edits
    <3>1. PICK j \in 1..(i + 1) : d \in q[j].edits
      BY <2>2, <2>4
    <3>2. j # 1
      BY <1>1, <1>2, <2>3, <2>4, <3>1
    <3>3. j - 1 \in 1..i /\ r[j - 1] = q[j]
      BY <1>1, <1>2, <3>2
    <3>4. QED
      BY <3>1, <3>3
  <2>5. QED
    BY <2>4
<1>3. QED
  BY <1>2 DEF Orderly, r

\* What OrderInv says of one tab.
OrderedTab(t) ==
    /\ \A e \in doc[t] \ Touched(rejected) : needs[e] \subseteq Shown \cup doc[t]
    /\ \A e \in Carried(down[t]) \ Touched(rejected) : needs[e] \subseteq Shown
    /\ Orderly(up[t], needs, Touched(rejected), Shown)

LEMMA OrderByTab ==
    OrderInv <=> (restarts = 0 => /\ held \subseteq Touched(rejected)
                                  /\ \A t \in Tabs : OrderedTab(t))
BY DEF OrderInv, OrderedTab, Ordered, Orderly

LinesInv == RowInv /\ NeedsInv /\ \A t \in Tabs : TabInv(t)

\* Until a restart, what the board shows only grows, and what was touched stays
\* touched.
LEMMA ShownGrows ==
    ASSUME TypeOK, LinesInv, [Next]_vars, ~Restart
    PROVE  Shown \subseteq Shown' /\ Touched(rejected) \cap Used \subseteq Touched(rejected)'
<1> USE DEF serverVars, historyVars, LinesInv
<1>1. \A e \in Used : needs'[e] = needs[e]
  BY NeedsStay
<1>2. memory \subseteq Used /\ row \subseteq Used
  BY DEF NeedsInv, Used
<1>4. Shown \subseteq Shown'
  <2>1. CASE memory' = memory /\ row' = row
    BY <1>1, <1>2, <2>1 DEF Shown, Settled
  <2>2. ASSUME NEW t \in Tabs, ServerUpdates(t) PROVE Shown \subseteq Shown'
    <3>1. memory # {} /\ memory \subseteq memory'
      BY <2>2 DEF ServerUpdates, TabInv
    <3>2. QED
      BY <1>1, <1>2, <3>1 DEF Shown, Settled
  <2>3. CASE Load
    <3>1. memory = {} /\ row \subseteq memory' /\ memory' # {} /\ row' = row
      BY <2>3 DEF Load
    <3>2. QED
      BY <1>1, <1>2, <3>1 DEF Shown, Settled
  <2>4. CASE Save
    BY <1>1, <1>2, <2>4 DEF Save, Shown, Settled
  <2>5. CASE Unload
    <3>1. memory # {} /\ Settled(memory) \subseteq row /\ memory' = {} /\ row' = row
      BY <2>5 DEF Unload
    <3>2. \A e \in Settled(memory) : needs[e] \subseteq Settled(memory)
      BY SettledIsClosed DEF TypeOK
    <3>3. QED
      BY <1>1, <1>2, <3>1, <3>2 DEF Shown, Settled
  <2>6. ASSUME NEW t \in Tabs, TabStep(t) \/ ServerStep(t), ~ServerUpdates(t)
        PROVE  memory' = memory /\ row' = row
    BY <2>6 DEF TabStep, ServerStep, Type, Connect, GiveUp, HearAck, HearLateAnswer,
                HearRefusal, HearUpdate, Drop, Close, ServerOpens, ServerAnswers,
                ServerRefuses, ServerRejects
  <2>7. CASE UNCHANGED vars
    BY <2>1, <2>7 DEF vars
  <2>8. QED
    BY <2>1, <2>2, <2>3, <2>4, <2>5, <2>6, <2>7 DEF Next
<1>5. rejected \subseteq rejected'
  BY DEF Next, TabStep, ServerStep, Type, Connect, GiveUp, HearAck, HearLateAnswer,
     HearRefusal, HearUpdate, Drop, Close, ServerOpens, ServerAnswers, ServerRefuses,
     ServerUpdates, ServerRejects, Load, Save, Unload, Restart, vars
<1>6. QED
  BY <1>1, <1>4, <1>5 DEF Touched, Used

\* A tab keeps its part while what is its own stays.
LEMMA OrderedTabStays ==
    ASSUME TypeOK, LinesInv, [Next]_vars, ~Restart, NEW t \in Tabs, OrderedTab(t),
           doc'[t] = doc[t], up'[t] = up[t], down'[t] = down[t]
    PROVE  OrderedTab(t)'
<1>1. /\ Shown \subseteq Shown' /\ Touched(rejected) \cap Used \subseteq Touched(rejected)'
      /\ \A e \in Used : needs'[e] = needs[e]
  BY ShownGrows, NeedsStay
<1>2. doc[t] \subseteq Used /\ Carried(down[t]) \subseteq Used /\ Carried(up[t]) \subseteq Used
  BY DEF LinesInv, NeedsInv, Used, TabInv
<1>3. Orderly(up[t], needs', Touched(rejected)', Shown')
  BY <1>1, <1>2, OrderlyStays DEF OrderedTab
<1>4. Orderly(up[t], needs, Touched(rejected), Shown)' <=>
        Orderly(up'[t], needs', Touched(rejected)', Shown')
  BY DEF Orderly
<1>5. Carried(down[t])' = Carried(down'[t])
  BY DEF Carried
<1>6. QED
  BY <1>1, <1>2, <1>3, <1>4, <1>5 DEF OrderedTab

\* What a tab types, hears and sends keeps to the order.
LEMMA OrderedOwn ==
    ASSUME TypeOK, LinesInv, [Next]_vars, NEW t \in Tabs, OrderedTab(t),
           held \subseteq Touched(rejected),
           \/ \E e \in Edits : Type(t, e)
           \/ Connect(t) \/ GiveUp(t) \/ HearAck(t) \/ HearLateAnswer(t)
           \/ HearRefusal(t) \/ HearUpdate(t) \/ Drop(t) \/ Close(t)
           \/ ServerOpens(t) \/ ServerAnswers(t) \/ ServerRefuses(t) \/ ServerRejects(t)
    PROVE  OrderedTab(t)'
<1> USE DEF serverVars, historyVars, Trouble
<1> DEFINE Lost == Touched(rejected)
<1>0. /\ up[t] \in Seq(Message) /\ down[t] \in Seq(Message)
      /\ doc[t] \in SUBSET Used /\ memory \in SUBSET Used /\ row \in SUBSET Used
      /\ Used \subseteq Content /\ Carried(down[t]) \subseteq Used /\ Carried(up[t]) \subseteq doc[t]
  BY DEF TypeOK, LinesInv, NeedsInv, Used, TabInv
<1>1. ~Restart
  <2>1. restarts' = restarts
    BY DEF Type, Connect, GiveUp, HearAck, HearLateAnswer, HearRefusal, HearUpdate,
       Drop, Close, ServerOpens, ServerAnswers, ServerRefuses, ServerRejects
  <2>2. QED
    BY <2>1 DEF Restart, TypeOK
<1>2. /\ Shown \subseteq Shown' /\ Lost \cap Used \subseteq Lost'
      /\ \A e \in Used : needs'[e] = needs[e]
  BY <1>1, ShownGrows, NeedsStay
<1>3. ASSUME NEW q, Carried(q) \subseteq Used, Orderly(q, needs, Lost, Shown)
      PROVE  Orderly(q, needs', Lost', Shown')
  BY <1>2, <1>3, OrderlyStays
<1>4. /\ OrderedTab(t)' <=>
           /\ \A e \in doc'[t] \ Lost' : needs'[e] \subseteq Shown' \cup doc'[t]
           /\ \A e \in Carried(down'[t]) \ Lost' : needs'[e] \subseteq Shown'
           /\ Orderly(up'[t], needs', Lost', Shown')
      /\ OrderedTab(t) <=>
           /\ \A e \in doc[t] \ Lost : needs[e] \subseteq Shown \cup doc[t]
           /\ \A e \in Carried(down[t]) \ Lost : needs[e] \subseteq Shown
           /\ Orderly(up[t], needs, Lost, Shown)
  BY DEF OrderedTab, Orderly, Carried
<1> HIDE DEF Lost
<1>5. Orderly(up[t], needs', Lost', Shown')
  BY <1>0, <1>3, <1>4
<1>6. \A e \in Carried(down[t]) \ Lost' : needs'[e] \subseteq Shown'
  BY <1>0, <1>2, <1>4
<1>7. \A e \in doc[t] \ Lost' : needs'[e] \subseteq Shown' \cup doc[t]
  BY <1>0, <1>2, <1>4
<1>8. ASSUME NEW e \in Edits, Type(t, e) PROVE OrderedTab(t)'
  <2>1. /\ doc'[t] = doc[t] \cup {e} /\ down'[t] = down[t] /\ rejected' = rejected
        /\ phase[t] = "open" => up'[t] = Append(up[t], Update({e}))
        /\ phase[t] # "open" => up'[t] = up[t]
        /\ e \in Content /\ e \notin Used
    BY <1>8 DEF Type, TypeOK, Content, Used
  <2>2. needs'[e] \subseteq doc[t] /\ \A d \in needs'[e] : needs'[d] \subseteq needs'[e]
    <3>1. PICK N \in SUBSET Settled(doc[t]) :
             (\A d \in N : needs[d] \subseteq N) /\ needs' = [needs EXCEPT ![e] = N]
      BY <1>8 DEF Type
    <3>2. needs'[e] = N /\ N \subseteq doc[t]
      BY <2>1, <3>1 DEF TypeOK, Settled
    <3>3. QED
      BY <1>0, <1>2, <3>1, <3>2
  <2>3. \A c \in doc'[t] \ Lost' : needs'[c] \subseteq Shown' \cup doc'[t]
    BY <1>7, <2>1, <2>2
  <2>4. Orderly(up'[t], needs', Lost', Shown')
    <3>1. CASE phase[t] # "open"
      BY <1>5, <2>1, <3>1
    <3>2. CASE phase[t] = "open"
      <4>1. Update({e}) \in Message /\ Update({e}).edits = {e}
        BY <2>1, MessageType DEF Carrying, Update
      <4>2. doc[t] \subseteq memory \cup Carried(up[t]) \cup rejected /\ memory # {}
        BY <3>2 DEF LinesInv, TabInv
      <4>3. ASSUME e \notin Lost', NEW d \in needs'[e] PROVE d \in Shown' \cup Carried(up[t])
        <5>1. d \notin rejected' /\ needs'[d] \cap rejected' = {}
          BY <2>1, <2>2, <4>3 DEF Lost, Touched
        <5>2. CASE d \in memory
          <6>1. d \notin Lost /\ d \in Used
            BY <1>0, <1>2, <2>1, <5>1, <5>2 DEF Lost, Touched
          <6>2. d \in Settled(memory)
            BY <5>2, <6>1 DEF LinesInv, RowInv, KeptAside, Lost
          <6>3. QED
            BY <1>2, <4>2, <6>2 DEF Shown
        <5>3. QED
          BY <2>1, <2>2, <4>2, <5>1, <5>2
      <4>4. \A c \in Update({e}).edits \ Lost' :
                needs'[c] \subseteq Shown' \cup Carried(up[t]) \cup Update({e}).edits
        BY <4>1, <4>3
      <4>5. Orderly(Append(up[t], Update({e})), needs', Lost', Shown')
        BY <1>0, <1>5, <4>1, <4>4, OrderlyAppend
      <4>6. QED
        BY <2>1, <3>2, <4>5
    <3>3. QED
      BY <3>1, <3>2
  <2>5. QED
    BY <1>4, <1>6, <2>1, <2>3, <2>4
<1>9. ASSUME Connect(t) PROVE OrderedTab(t)'
  <2>1. doc'[t] = doc[t] /\ down'[t] = down[t] /\ up'[t] = <<Opening>>
    BY <1>9 DEF Connect, TypeOK
  <2>2. QED
    BY <1>4, <1>6, <1>7, <2>1, OrderlyEmpty
<1>10. ASSUME GiveUp(t) \/ ServerRefuses(t) \/ ServerAnswers(t) PROVE OrderedTab(t)'
  <2>1. doc'[t] = doc[t] /\ up'[t] = up[t]
    BY <1>10 DEF GiveUp, ServerRefuses, ServerAnswers
  <2>2. \A e \in Carried(down'[t]) \ Lost' : needs'[e] \subseteq Shown'
    <3>1. CASE GiveUp(t)
      BY <1>6, <3>1 DEF GiveUp
    <3>2. CASE ServerRefuses(t)
      <4>1. down'[t] = Append(down[t], Refusal) /\ Refusal \in Message /\ Refusal.edits = {}
        BY <3>2, MessageType DEF ServerRefuses, TypeOK, Refusal
      <4>2. Carried(down'[t]) = Carried(down[t]) \cup {}
        BY <1>0, <4>1, QueueAppend
      <4>3. QED
        BY <1>6, <4>2
    <3>3. CASE ServerAnswers(t)
      <4>1. /\ down'[t] = Append(down[t], Ack(memory)) /\ Ack(memory) \in Message
            /\ Ack(memory).edits = memory /\ memory # {} /\ rejected' = rejected
        <5>1. memory \in Carrying
          BY <1>0, <3>3 DEF ServerAnswers, Carrying
        <5>2. QED
          BY <3>3, <5>1, MessageType DEF ServerAnswers, TypeOK, Ack
      <4>2. Carried(down'[t]) = Carried(down[t]) \cup memory
        BY <1>0, <4>1, QueueAppend
      <4>3. ASSUME NEW e \in memory, e \notin Lost' PROVE needs'[e] \subseteq Shown'
        <5>1. e \notin Lost
          BY <1>0, <1>2, <4>3
        <5>2. e \in Settled(memory)
          BY <4>3, <5>1 DEF LinesInv, RowInv, KeptAside, Lost
        <5>3. needs[e] \subseteq Settled(memory)
          BY <1>0, <5>2, SettledIsClosed DEF LinesInv
        <5>4. QED
          BY <1>0, <1>2, <4>1, <5>3 DEF Shown
      <4>4. QED
        BY <1>6, <4>2, <4>3
    <3>4. QED
      BY <1>10, <3>1, <3>2, <3>3
  <2>3. QED
    BY <1>4, <1>5, <1>7, <2>1, <2>2
<1>11. ASSUME HearAck(t) PROVE OrderedTab(t)'
  <2> DEFINE state == Head(down[t]).edits
             lacks == (doc[t] \cup state) \ Settled(state)
  <2>1. /\ phase[t] = "opening" /\ down[t] # <<>> /\ Head(down[t]).kind = "ack"
        /\ doc'[t] = doc[t] \cup state /\ up'[t] = Sending(up[t], lacks)
        /\ down'[t] = Tail(down[t])
    BY <1>11 DEF HearAck, NextIs, TypeOK
  <2>2. /\ Carried(down[t]) = state \cup Carried(down'[t])
        /\ Kinds(down[t]) = {"ack"} \cup Kinds(down'[t])
    BY <1>0, <2>1, QueueTail
  <2>3. member[t] = "joined" /\ up[t] = <<>> /\ state \subseteq memory /\ memory # {}
    BY <2>1, <2>2 DEF LinesInv, TabInv
  <2>4. lacks \in SUBSET Content /\ state \subseteq Used
    BY <1>0, <2>2
  <2>5. Settled(state) \subseteq Shown
    BY <2>3, SettledGrows DEF Shown
  <2>6. doc[t] \cup state \subseteq lacks \cup Shown
    BY <2>5
  <2> HIDE DEF state, lacks
  <2>7. \A e \in (doc[t] \cup state) \ Lost' : needs'[e] \subseteq Shown' \cup lacks
    BY <1>0, <1>2, <1>6, <1>7, <2>2, <2>6
  <2>8. lacks \subseteq doc[t] \cup state
    BY DEF lacks
  <2>9. Orderly(up'[t], needs', Lost', Shown')
    <3>1. CASE lacks = {}
      BY <2>1, <2>3, <3>1, OrderlyEmpty DEF Sending
    <3>2. CASE lacks # {}
      <4>1. Update(lacks) \in Message /\ Update(lacks).edits = lacks
        BY <2>4, <3>2, MessageType DEF Carrying, Update
      <4>2. up'[t] = Append(<<>>, Update(lacks))
        BY <2>1, <2>3, <3>2 DEF Sending
      <4>3. Orderly(<<>>, needs', Lost', Shown') /\ <<>> \in Seq(Message)
        BY OrderlyEmpty
      <4>4. QED
        BY <2>7, <2>8, <4>1, <4>2, <4>3, OrderlyAppend
    <3>3. QED
      BY <3>1, <3>2
  <2>10. \A e \in doc'[t] \ Lost' : needs'[e] \subseteq Shown' \cup doc'[t]
    BY <2>1, <2>7, <2>8
  <2>11. QED
    BY <1>4, <1>6, <2>2, <2>9, <2>10
<1>12. ASSUME HearLateAnswer(t) PROVE OrderedTab(t)'
  <2>1. /\ down[t] # <<>> /\ down'[t] = Tail(down[t])
        /\ doc'[t] = doc[t] /\ up'[t] = up[t]
    BY <1>12 DEF HearLateAnswer, NextIs, TypeOK
  <2>2. Carried(down'[t]) \subseteq Carried(down[t])
    BY <1>0, <2>1, QueueTail
  <2>3. QED
    BY <1>4, <1>5, <1>6, <1>7, <2>1, <2>2
<1>13. ASSUME HearUpdate(t) PROVE OrderedTab(t)'
  <2> DEFINE edits == Head(down[t]).edits
  <2>1. /\ down[t] # <<>> /\ down'[t] = Tail(down[t])
        /\ doc'[t] = doc[t] \cup edits /\ up'[t] = up[t]
    BY <1>13 DEF HearUpdate, NextIs, TypeOK
  <2>2. Carried(down[t]) = edits \cup Carried(down'[t])
    BY <1>0, <2>1, QueueTail
  <2> HIDE DEF edits
  <2>3. QED
    BY <1>4, <1>5, <1>6, <1>7, <2>1, <2>2
<1>14. ASSUME HearRefusal(t) \/ Drop(t) \/ Close(t) PROVE OrderedTab(t)'
  <2>1. /\ doc'[t] \in {doc[t], {}} /\ up'[t] = <<>> /\ down'[t] = <<>>
    BY <1>14 DEF HearRefusal, Drop, Close, Cut, TypeOK
  <2>2. QED
    BY <1>4, <1>7, <2>1, QueueEmpty, OrderlyEmpty
<1>15. ASSUME ServerOpens(t) PROVE OrderedTab(t)'
  <2>1. /\ up[t] # <<>> /\ Head(up[t]).kind = "open" /\ up'[t] = Tail(up[t])
        /\ doc'[t] = doc[t] /\ down'[t] = down[t]
    BY <1>15 DEF ServerOpens, NextIs, TypeOK
  <2>2. Head(up[t]) \in Message
    BY <1>0, <2>1, QueueTail
  <2>3. Head(up[t]).edits = {}
    BY <2>1, <2>2 DEF Message
  <2>4. Orderly(Tail(up[t]), needs', Lost', Shown')
    BY <1>0, <1>5, <2>1, <2>3, OrderlyTail
  <2>5. QED
    BY <1>4, <1>6, <1>7, <2>1, <2>4
<1>16. ASSUME ServerRejects(t) PROVE OrderedTab(t)'
  <2>1. /\ up[t] # <<>> /\ up'[t] = Tail(up[t])
        /\ doc'[t] = doc[t] /\ down'[t] = down[t]
        /\ rejected' = rejected \cup Head(up[t]).edits /\ needs' = needs
    BY <1>16 DEF ServerRejects, NextIs, TypeOK
  <2>2. \A d \in Head(up[t]).edits : \A e \in Carried(up[t]) : d \in needs'[e] => e \in Lost'
    BY <1>0, <2>1 DEF Lost, Touched
  <2>3. Orderly(Tail(up[t]), needs', Lost', Shown')
    BY <1>0, <1>5, <2>1, <2>2, OrderlyTail
  <2>4. QED
    BY <1>4, <1>6, <1>7, <2>1, <2>3
<1>17. QED
  BY <1>8, <1>9, <1>10, <1>11, <1>12, <1>13, <1>14, <1>15, <1>16

\* An update that is merged may be shown at once, unless what it builds on was
\* refused.
LEMMA OrderedUpdate ==
    ASSUME TypeOK, LinesInv, [Next]_vars, \A u \in Tabs : OrderedTab(u),
           held \subseteq Touched(rejected), NEW t \in Tabs, ServerUpdates(t)
    PROVE  held' \subseteq Touched(rejected)' /\ \A u \in Tabs : OrderedTab(u)'
<1> DEFINE new == Settled(memory') \ Settled(memory)
           edits == Head(up[t]).edits
           Lost == Touched(rejected)
<1>1. /\ up[t] # <<>> /\ member[t] = "joined"
      /\ memory' = memory \cup edits
      /\ down' = [u \in Tabs |-> IF u = t \/ member[u] = "away" THEN down[u]
                                 ELSE Sending(down[u], new)]
      /\ up' = [up EXCEPT ![t] = Tail(@)]
      /\ held' = held \cup KeptAside(memory')
      /\ row' = row /\ doc' = doc /\ rejected' = rejected /\ needs' = needs
  BY DEF ServerUpdates, NextIs
<1>2. /\ up[t] \in Seq(Message) /\ up[t] # <<>>
      /\ Carried(up[t]) = edits \cup Carried(Tail(up[t]))
  BY <1>1, QueueTail DEF TypeOK
<1>3. /\ memory' \in SUBSET Content /\ new \in SUBSET Content /\ edits \subseteq Content
      /\ memory # {} /\ memory' # {}
  <2>1. edits \subseteq Content /\ memory # {}
    BY <1>1, <1>2 DEF LinesInv, NeedsInv, TabInv, TypeOK
  <2>2. QED
    BY <1>1, <2>1 DEF TypeOK, Settled
<1>4. Shown = Settled(memory) /\ Shown' = Settled(memory') /\ Shown \subseteq Shown' /\ Lost' = Lost
  <2>1. Settled(memory) \subseteq Settled(memory')
    BY <1>1, SettledGrows
  <2>2. QED
    BY <1>1, <1>3, <2>1 DEF Shown, Settled, Touched
<1>5. \A e \in edits \ Lost : needs[e] \subseteq Shown \cup edits
  <2>1. 1 \in DOMAIN up[t] /\ up[t][1].edits = edits /\ 1..1 = {1}
    BY <1>2
  <2>2. QED
    BY <2>1 DEF OrderedTab, Orderly
<1>6. \A e \in edits \ Lost : e \in Shown'
  BY <1>1, <1>4, <1>5 DEF Settled
<1>7. KeptAside(memory') \subseteq Lost
  <2>1. ASSUME NEW e \in memory, e \notin Lost PROVE e \in Settled(memory')
    <3>1. e \in Settled(memory)
      BY <2>1 DEF LinesInv, RowInv, KeptAside
    <3>2. QED
      BY <1>4, <3>1
  <2>2. QED
    BY <1>1, <1>4, <1>6, <2>1 DEF KeptAside
<1>8. \A e \in new : needs[e] \subseteq Shown'
  BY <1>3, <1>4, SettledIsClosed DEF LinesInv
<1>9. \A d \in edits : d \in Shown' \/ \A e \in Carried(up[t]) : d \in needs[e] => e \in Lost
  BY <1>2, <1>6, TouchedSpreads DEF LinesInv, TabInv, TypeOK
<1>10. Orderly(up[t], needs, Lost, Shown)
  BY DEF OrderedTab
<1> HIDE DEF new, edits, Lost
<1>11. Orderly(Tail(up[t]), needs, Lost, Shown')
  BY <1>2, <1>4, <1>9, <1>10, OrderlyTail DEF edits
<1>12. ASSUME NEW u \in Tabs PROVE OrderedTab(u)'
  <2>1. Orderly(up'[u], needs, Lost, Shown')
    <3>1. CASE u = t
      BY <1>1, <1>11, <3>1 DEF TypeOK
    <3>2. CASE u # t
      <4>1. Orderly(up[u], needs, Lost, Shown) /\ up'[u] = up[u]
        BY <1>1, <3>2 DEF OrderedTab, TypeOK, Lost
      <4>2. QED
        BY <1>4, <4>1, OrderlyStays
    <3>3. QED
      BY <3>1, <3>2
  <2>2. \A e \in Carried(down'[u]) \ Lost : needs[e] \subseteq Shown'
    <3>1. Carried(down'[u]) \subseteq Carried(down[u]) \cup new
      <4>1. Carried(Sending(down[u], new)) = Carried(down[u]) \cup new
        BY <1>3, QueueSending DEF TypeOK
      <4>2. QED
        BY <1>1, <4>1
    <3>2. QED
      BY <1>4, <1>8, <3>1 DEF OrderedTab, Lost
  <2>3. \A e \in doc[u] \ Lost : needs[e] \subseteq Shown' \cup doc[u]
    BY <1>4 DEF OrderedTab, Lost
  <2>4. OrderedTab(u)' <=>
           /\ \A e \in doc'[u] \ Lost' : needs'[e] \subseteq Shown' \cup doc'[u]
           /\ \A e \in Carried(down'[u]) \ Lost' : needs'[e] \subseteq Shown'
           /\ Orderly(up'[u], needs', Lost', Shown')
    BY DEF OrderedTab, Orderly, Carried, Lost
  <2>5. QED
    BY <1>1, <1>4, <2>1, <2>2, <2>3, <2>4
<1>13. held' \subseteq Lost'
  BY <1>1, <1>4, <1>7 DEF Lost
<1>14. QED
  BY <1>12, <1>13 DEF Lost

LEMMA OrderStep ==
    ASSUME TypeOK, LinesInv, OrderInv, [Next]_vars
    PROVE  OrderInv'
<1> USE DEF serverVars, historyVars, Trouble
<1>1. CASE Restart
  BY <1>1, OrderByTab DEF Restart, TypeOK, OrderInv
<1>2. CASE ~Restart
  <2>1. restarts' = restarts
    BY <1>2 DEF Next, TabStep, ServerStep, Type, Connect, GiveUp, HearAck, HearLateAnswer,
       HearRefusal, HearUpdate, Drop, Close, ServerOpens, ServerAnswers, ServerRefuses,
       ServerUpdates, ServerRejects, Load, Save, Unload, vars
  <2>2. SUFFICES ASSUME held \subseteq Touched(rejected), \A t \in Tabs : OrderedTab(t)
                 PROVE  held' \subseteq Touched(rejected)' /\ \A t \in Tabs : OrderedTab(t)'
    <3> DEFINE All == held \subseteq Touched(rejected) /\ \A t \in Tabs : OrderedTab(t)
    <3>1. OrderInv <=> (restarts = 0 => All)
      BY OrderByTab
    <3>2. OrderInv' <=> (restarts' = 0 => All')
      BY DEF OrderInv, OrderedTab, Ordered, Orderly
    <3>3. QED
      BY <2>1, <2>2, <3>1, <3>2
  <2>3. CASE held' = held /\ \A t \in Tabs : OrderedTab(t)'
    <3>1. held \subseteq Used
      BY DEF LinesInv, NeedsInv, Used
    <3>2. QED
      BY <1>2, <2>2, <2>3, <3>1, ShownGrows
  <2>4. ASSUME NEW t \in Tabs, TabStep(t) \/ ServerStep(t), ~ServerUpdates(t)
        PROVE  held' = held /\ \A u \in Tabs : OrderedTab(u)'
    <3>1. /\ held' = held
          /\ \A u \in Tabs \ {t} : doc'[u] = doc[u] /\ up'[u] = up[u] /\ down'[u] = down[u]
      BY <2>4, OwnStep DEF TabStep, ServerStep, LinesInv
    <3>2. OrderedTab(t)'
      BY <2>2, <2>4, OrderedOwn DEF TabStep, ServerStep
    <3>3. \A u \in Tabs \ {t} : OrderedTab(u)'
      BY <1>2, <2>2, <3>1, OrderedTabStays
    <3>4. QED
      BY <3>1, <3>2, <3>3
  <2>5. CASE Load \/ Save \/ Unload \/ UNCHANGED vars
    <3>1. held' = held /\ doc' = doc /\ up' = up /\ down' = down
      BY <2>5 DEF Load, Save, Unload, vars
    <3>2. \A u \in Tabs : OrderedTab(u)'
      BY <1>2, <2>2, <3>1, OrderedTabStays
    <3>3. QED
      BY <2>3, <3>1, <3>2
  <2>6. QED
    BY <1>2, <2>2, <2>3, <2>4, <2>5, OrderedUpdate DEF Next
<1>3. QED
  BY <1>1, <1>2

LEMMA InvStep == IInv /\ [Next]_vars => IInv'
<1> SUFFICES ASSUME TypeOK, LinesInv, OrderInv, [Next]_vars
             PROVE  TypeOK' /\ LinesInv' /\ OrderInv'
  <2> DEFINE Lines == TalkInv /\ CarryInv /\ StepInv /\ RoomInv
             ByTabs == RowInv /\ \A t \in Tabs : TabInv(t)
  <2>1. Lines <=> ByTabs
    BY ByTab
  <2>2. Lines' <=> ByTabs'
    BY DEF TalkInv, CarryInv, StepInv, RoomInv, TabInv, RowInv, Plain
  <2>3. QED
    BY <2>1, <2>2 DEF IInv, LinesInv
<1>1. TypeOK'
  BY TypeStep
<1>2. NeedsInv'
  BY NeedsStep DEF LinesInv, TabInv, CarryInv
<1>3. RowInv' /\ \A t \in Tabs : TabInv(t)'
  BY LinesStep DEF LinesInv
<1>4. OrderInv'
  BY OrderStep
<1>5. QED
  BY <1>1, <1>2, <1>3, <1>4 DEF LinesInv

-----------------------------------------------------------------------------
\* The inductive invariant: what each connection carries, what the room refused
\* and what it keeps aside account for every difference between the tab at one
\* end and the room at the other.
THEOREM Inductive == Spec => []IInv
<1>1. Init => IInv
  <2> SUFFICES ASSUME Init PROVE IInv
    OBVIOUS
  <2>1. TypeOK
    BY QueueEmpty DEF Init, TypeOK
  <2>2. RowInv /\ \A t \in Tabs : TabInv(t)
    BY QueueEmpty DEF Init, RowInv, TabInv, KeptAside, Settled, Plain
  <2>3. NeedsInv
    BY QueueEmpty DEF Init, NeedsInv, Content
  <2>4. OrderInv
    BY QueueEmpty DEF Init, OrderInv, Ordered
  <2>5. QED
    BY <2>1, <2>2, <2>3, <2>4, ByTab DEF IInv
<1>2. QED
  BY <1>1, InvStep, PTL DEF Spec

\* Messages, documents and phases keep their types.
THEOREM TypeCorrect == Spec => []TypeOK
<1>1. IInv => TypeOK
  BY DEF IInv
<1>2. QED
  BY <1>1, Inductive, PTL

\* Until a restart takes edits away, the room keeps aside only what builds on
\* an edit that it refused.
LEMMA OnlyRefusalsWait == IInv => Waited = held
BY DEF IInv, OrderInv, Waited

\* A tab in step shows everything the room shows, or it is on its way, however
\* many tabs, drops and restarts there are, except for edits that the room had
\* to keep aside.
THEOREM OpenTabsHearEverything == Spec => []HearsEverything
<1>1. IInv => HearsEverything
  <2> SUFFICES ASSUME IInv, NEW t \in Tabs, phase[t] = "open",
                      NEW e \in Settled(memory), e \notin Touched(held)
               PROVE  e \in Settled(doc[t] \cup Carried(down[t]))
    BY OnlyRefusalsWait DEF HearsEverything
  <2>1. Plain \subseteq doc[t] \cup Carried(down[t])
    BY ByTab DEF IInv, TabInv
  <2>2. memory \in SUBSET Content /\ e \in Content
    BY DEF IInv, TypeOK, Settled
  <2>3. needs[e] \subseteq Settled(memory)
    BY <2>2, SettledIsClosed DEF IInv
  <2>4. \A d \in needs[e] : d \notin Touched(held)
    BY <2>2, TouchedSpreads DEF IInv
  <2>5. {e} \cup needs[e] \subseteq Plain
    BY <2>3, <2>4 DEF Plain
  <2>6. QED
    BY <2>1, <2>5 DEF Settled
<1>2. QED
  BY <1>1, Inductive, PTL

\* The room shows everything a tab in step shows, or will once it has heard it:
\* typing offline, dropped connections and restarts of the API lose nothing of
\* it, and what is missing there builds on something the room refused and does
\* not have.
THEOREM OpenTabsSayEverything == Spec => []SaysEverything
<1>1. IInv => SaysEverything
  <2> SUFFICES ASSUME IInv, NEW t \in Tabs, phase[t] = "open",
                      NEW e \in Settled(doc[t]), e \notin Touched(Refused)
               PROVE  e \in Settled(memory \cup Carried(up[t]))
    BY DEF SaysEverything
  <2>1. doc[t] \subseteq memory \cup Carried(up[t]) \cup rejected
    BY ByTab DEF IInv, TabInv
  <2>2. {e} \cup needs[e] \subseteq doc[t] /\ e \in Content
    BY DEF Settled, IInv, TypeOK
  <2>3. ({e} \cup needs[e]) \cap Refused = {}
    BY <2>2 DEF Touched
  <2>4. {e} \cup needs[e] \subseteq memory \cup Carried(up[t])
    BY <2>1, <2>2, <2>3 DEF Refused
  <2>5. QED
    BY <2>4 DEF Settled
<1>2. QED
  BY <1>1, Inductive, PTL

\* Two open tabs with nothing under way show the same document, up to what the
\* room refused or had to keep aside, and what builds on that.
THEOREM QuietTabsAlwaysAgree == Spec => []QuietTabsAgree
<1> DEFINE Quiet(t) == phase[t] = "open" /\ up[t] = <<>> /\ down[t] = <<>>
           Sees(t) == Settled(doc[t]) \ Touched(Refused \cup Waited)
<1>1. IInv /\ HearsEverything /\ SaysEverything => QuietTabsAgree
  <2> SUFFICES ASSUME IInv, HearsEverything, SaysEverything,
                      NEW t \in Tabs, NEW u \in Tabs, Quiet(t), Quiet(u)
               PROVE  Sees(t) \subseteq Sees(u)
    BY DEF QuietTabsAgree
  <2>1. Carried(up[t]) = {} /\ Carried(down[u]) = {}
    BY QueueEmpty
  <2>2. \A e \in Content : e \notin Touched(Refused \cup Waited) =>
           e \notin Touched(Refused) /\ e \notin Touched(Waited)
    BY DEF Touched
  <2>3. Settled(doc[t]) \subseteq Content
    BY DEF Settled, IInv, TypeOK
  <2>4. Settled(doc[t]) \ Touched(Refused) \subseteq Settled(memory)
    BY <2>1 DEF SaysEverything
  <2>5. Settled(memory) \ Touched(Waited) \subseteq Settled(doc[u])
    BY <2>1 DEF HearsEverything
  <2>6. QED
    BY <2>2, <2>3, <2>4, <2>5
<1>2. QED
  BY <1>1, Inductive, OpenTabsHearEverything, OpenTabsSayEverything, PTL

\* Whatever the tabs and their connections do, the board stays one shared
\* document that only grows and that a restart brings back as stored.
THEOREM TabsShareOneDocument == Spec => IsSharedDocument
<1> DEFINE content == Settled(IF memory = {} THEN row ELSE memory)
           stored == Settled(row)
<1> USE DEF historyVars
<1>1. Init => Shared!Init
  BY DEF Init, Shared!Init, Settled
<1>2. IInv /\ [Next]_vars => [Shared!Keeps \/ Shared!Ends]_(Shared!vars)
  <2> SUFFICES ASSUME IInv, [Next]_vars
               PROVE  [Shared!Keeps \/ Shared!Ends]_(Shared!vars)
    OBVIOUS
  <2>0. TypeOK /\ NeedsInv /\ RowInv /\ \A t \in Tabs : TabInv(t)
    BY ByTab DEF IInv
  <2>same. \A e \in memory \cup row : needs'[e] = needs[e]
    BY <2>0, NeedsStay DEF NeedsInv, Used
  <2>1. CASE memory' = memory /\ row' = row /\ restarts' = restarts
    <3>1. content' = content /\ stored' = stored
      BY <2>same, <2>1 DEF Settled
    <3>2. QED
      BY <2>1, <3>1 DEF Shared!vars
  <2>2. ASSUME NEW t \in Tabs, ServerUpdates(t) PROVE Shared!Keeps
    <3>1. memory \subseteq memory' /\ row' = row /\ restarts' = restarts
      BY <2>2 DEF ServerUpdates
    <3>2. memory # {} /\ Settled(memory) # {}
      BY <2>0, <2>2 DEF ServerUpdates, TabInv, RowInv
    <3>3. memory' \subseteq Edits \cup Seeds
      BY <2>0, TypeStep DEF TypeOK, Content
    <3>4. /\ content \subseteq content' /\ content # {} /\ stored' = stored
          /\ content' \subseteq Edits \cup Seeds
      BY <2>same, <3>1, <3>2, <3>3 DEF Settled
    <3>5. QED
      BY <3>1, <3>4 DEF Shared!Keeps, Shared!Edit
  <2>3. CASE Load
    <3>1. memory = {} /\ row' = row /\ restarts' = restarts /\ needs' = needs
      BY <2>3 DEF Load
    <3>2. CASE row # {} /\ memory' = row
      BY <3>1, <3>2 DEF Shared!vars, Settled
    <3>3. ASSUME row = {}, NEW seed \in Seeds, memory' = {seed} PROVE Shared!Keeps
      <4>1. content = {} /\ content' = {seed} /\ stored' = {} /\ stored = {}
        BY <2>0, <3>1, <3>3 DEF Settled, NeedsInv, Content
      <4>2. QED
        BY <3>1, <4>1 DEF Shared!Keeps, Shared!Start
    <3>4. QED
      BY <2>3, <3>2, <3>3 DEF Load
  <2>4. CASE Save
    <3>1. /\ memory # {} /\ memory' = memory /\ row \subseteq row' /\ row' \subseteq memory
          /\ restarts' = restarts /\ needs' = needs
      BY <2>4 DEF Save
    <3>2. content' = content /\ stored \subseteq stored' /\ stored' \subseteq content
      BY <3>1 DEF Settled
    <3>3. QED
      BY <3>1, <3>2 DEF Shared!Keeps, Shared!Save
  <2>5. CASE Unload
    <3>1. /\ memory # {} /\ Settled(memory) \subseteq row /\ row \subseteq memory
          /\ memory' = {} /\ row' = row /\ restarts' = restarts /\ needs' = needs
      BY <2>0, <2>5 DEF Unload, RowInv
    <3>2. \A e \in Settled(memory) : needs[e] \subseteq Settled(memory)
      BY <2>0, SettledIsClosed DEF TypeOK
    <3>3. content' = content /\ stored' = stored
      BY <3>1, <3>2 DEF Settled
    <3>4. QED
      BY <3>1, <3>3 DEF Shared!vars
  <2>6. CASE Restart
    <3>1. memory' = {} /\ row' = row /\ restarts' = restarts + 1 /\ needs' = needs
      BY <2>6 DEF Restart
    <3>2. content' = stored /\ stored' = stored
      BY <3>1 DEF Settled
    <3>3. QED
      BY <3>1, <3>2 DEF Shared!Keeps, Shared!Restart
  <2>7. CASE UNCHANGED vars
    BY <2>1, <2>7 DEF vars, serverVars
  <2>8. ASSUME NEW t \in Tabs, TabStep(t) \/ ServerStep(t), ~ServerUpdates(t)
        PROVE  memory' = memory /\ row' = row /\ restarts' = restarts
    BY <2>8 DEF TabStep, ServerStep, Type, Connect, GiveUp, HearAck, HearLateAnswer,
                HearRefusal, HearUpdate, Drop, Close, ServerOpens, ServerAnswers,
                ServerRefuses, ServerRejects, serverVars
  <2>9. QED
    BY <2>1, <2>2, <2>3, <2>4, <2>5, <2>6, <2>7, <2>8 DEF Next
<1>3. QED
  BY <1>1, <1>2, Inductive, PTL DEF Spec, IsSharedDocument, Shared!Spec
=============================================================================
