----------------------------- MODULE TabsProofs -----------------------------
(***************************************************************************)
(* Theorems about what runs in a browser tab: the chat of a room and the   *)
(* editor of a sandbox.                                                    *)
(***************************************************************************)
EXTENDS RoomChat, SandboxEditor, TLAPS

-----------------------------------------------------------------------------
(* Lemmas about the operators of the chat *)

LEMMA RangeAppend ==
    ASSUME NEW S, NEW s \in Seq(S), NEW e \in S
    PROVE  /\ Append(s, e) \in Seq(S)
           /\ Range(Append(s, e)) = Range(s) \cup {e}
<1>1. /\ Append(s, e) \in Seq(S)
      /\ Len(Append(s, e)) = Len(s) + 1 /\ DOMAIN Append(s, e) = 1 .. (Len(s) + 1)
      /\ \A i \in DOMAIN s : Append(s, e)[i] = s[i]
      /\ Append(s, e)[Len(s) + 1] = e
      /\ DOMAIN s = 1 .. Len(s) /\ Len(s) \in Nat
  OBVIOUS
<1>2. QED
  BY <1>1 DEF Range

\* A message that is stored later changes nothing about those that are there.
LEMMA AppendKeepsOrder ==
    ASSUME stored \in Seq(Messages), NEW m \in Messages, stored' = Append(stored, m),
           m \notin Range(stored)
    PROVE  /\ \A x, y : Before(x, y) => Before(x, y)'
           /\ \A x, y : y \in Range(stored) /\ Before(x, y)' => Before(x, y)
           /\ \A y : ~Before(m, y)'
           /\ Range(stored)' = Range(stored) \cup {m}
<1>1. /\ DOMAIN stored' = 1 .. (Len(stored) + 1)
      /\ \A i \in DOMAIN stored : stored'[i] = stored[i]
      /\ stored'[Len(stored) + 1] = m
      /\ DOMAIN stored = 1 .. Len(stored) /\ Len(stored) \in Nat
  OBVIOUS
<1>2. \A i \in DOMAIN stored : stored[i] # m
  BY DEF Range
<1>3. \A x, y : Before(x, y) => Before(x, y)'
  BY <1>1 DEF Before
<1>4. ASSUME NEW x, NEW y \in Range(stored), Before(x, y)'
      PROVE  Before(x, y)
  <2>1. PICK i \in DOMAIN stored', j \in DOMAIN stored' :
           i < j /\ stored'[i] = x /\ stored'[j] = y
    BY <1>4 DEF Before
  <2>2. y # m
    BY <1>2 DEF Range
  <2>3. j # Len(stored) + 1
    BY <1>1, <2>1, <2>2
  <2>4. i \in DOMAIN stored /\ j \in DOMAIN stored
    BY <1>1, <2>1, <2>3
  <2>5. QED
    BY <1>1, <2>1, <2>4 DEF Before
<1>5. ASSUME NEW y, Before(m, y)'
      PROVE  FALSE
  BY <1>1, <1>2, <1>5 DEF Before
<1>6. QED
  BY <1>3, <1>4, <1>5, RangeAppend

\* Two stored messages come one before the other, never each before the other.
LEMMA OrderIsTotal ==
    ASSUME stored \in Seq(Messages), StoredOK, NEW m \in Range(stored),
           NEW n \in Range(stored), m # n
    PROVE  Before(m, n) \/ Before(n, m)
<1>1. PICK i \in DOMAIN stored, j \in DOMAIN stored : stored[i] = m /\ stored[j] = n
  BY DEF Range
<1>2. DOMAIN stored = 1 .. Len(stored) /\ Len(stored) \in Nat
  OBVIOUS
<1>3. i < j \/ j < i
  BY <1>1, <1>2
<1>4. QED
  BY <1>1, <1>3 DEF Before

LEMMA TakeFirst ==
    ASSUME ChatTypeOK, NEW t \in Tabs, NEW kind \in {"message", "ack", "opened"},
           Take(t, kind)
    PROVE  /\ wire' \in [Tabs -> Seq(Events)]
           /\ \A u \in Tabs \ {t} : wire'[u] = wire[u] /\ Carried(u)' = Carried(u)
           /\ \A i \in Carried(t)' : /\ i + 1 \in Carried(t) /\ 1 < i + 1
                                     /\ wire'[t][i] = wire[t][i + 1]
           /\ \A i, j \in Carried(t)' : i < j => i + 1 < j + 1
           /\ Head(wire[t]) = wire[t][1] /\ wire[t][1].kind = kind
           /\ kind # "opened" => 1 \in Carried(t) /\ wire[t][1].message \in Messages
<1>1. wire[t] \in Seq(Events) /\ wire[t] # <<>> /\ wire' = [wire EXCEPT ![t] = Tail(wire[t])]
  BY DEF ChatTypeOK, Take
<1>2. /\ wire' \in [Tabs -> Seq(Events)] /\ wire'[t] = Tail(wire[t])
      /\ \A u \in Tabs \ {t} : wire'[u] = wire[u]
  BY <1>1 DEF ChatTypeOK
<1>3. /\ DOMAIN wire[t] = 1 .. Len(wire[t]) /\ Len(wire[t]) \in Nat /\ Len(wire[t]) > 0
      /\ DOMAIN wire'[t] = 1 .. (Len(wire[t]) - 1)
      /\ \A i \in DOMAIN wire'[t] : wire'[t][i] = wire[t][i + 1]
      /\ Head(wire[t]) = wire[t][1] /\ wire[t][1] \in Events
  BY <1>1, <1>2
<1>4. wire[t][1].kind = kind
  BY <1>3 DEF Take
<1>5. kind # "opened" => 1 \in Carried(t) /\ wire[t][1].message \in Messages
  BY <1>3, <1>4 DEF Carried, Events
<1>6. \A i \in Carried(t)' : i \in Nat /\ i + 1 \in Carried(t) /\ 1 < i + 1
                             /\ wire'[t][i] = wire[t][i + 1]
  BY <1>2, <1>3 DEF Carried
<1>7. QED
  BY <1>2, <1>3, <1>4, <1>5, <1>6 DEF Carried

\* What neither stores, posts nor reads leaves the order of the table alone.
LEMMA SameOrder ==
    ASSUME UNCHANGED stored
    PROVE  \A x, y : Before(x, y)' <=> Before(x, y)
BY DEF Before

LEMMA ChatInvInit == ChatInit => ChatInv
<1> SUFFICES ASSUME ChatInit
             PROVE  ChatInv
  OBVIOUS
<1>1. /\ stored = <<>> /\ DOMAIN stored = {} /\ Range(stored) = {}
      /\ \A m \in Messages : post[m].at = "new"
  BY DEF ChatInit, Range, New
<1>2. \A t \in Tabs : /\ DOMAIN wire[t] = {} /\ data[t] = NoData /\ owed[t] = {}
                      /\ fetch[t].at = "none"
  BY DEF ChatInit, Idle
<1>3. ChatTypeOK
  <2>1. Idle \in [at : {"none", "asked", "read"}, page : Seq(Messages)]
    BY DEF Idle
  <2>2. New \in [at : {"new", "sent", "inserted", "done", "refused"},
                 from : Tabs \cup {NoData}]
    BY DEF New
  <2>3. stored \in Seq(Messages) /\ wire \in [Tabs -> Seq(Events)]
    BY DEF ChatInit
  <2>4. /\ post \in [Messages -> [at : {"new", "sent", "inserted", "done", "refused"},
                                  from : Tabs \cup {NoData}]]
        /\ fetch \in [Tabs -> [at : {"none", "asked", "read"}, page : Seq(Messages)]]
    BY <2>1, <2>2 DEF ChatInit
  <2>5. /\ waiting \subseteq Messages /\ live \subseteq Tabs /\ been \subseteq Tabs
        /\ conn \in [Tabs -> {"closed", "off", "opening", "joined", "open"}]
        /\ data \in [Tabs -> Seq(Messages) \cup {NoData}]
        /\ owed \in [Tabs -> SUBSET Messages]
        /\ crossed \in BOOLEAN
    BY DEF ChatInit
  <2>6. outside \in 0..MaxOutside
    BY ChatAssumption DEF ChatInit
  <2>7. QED
    BY <2>3, <2>4, <2>5, <2>6 DEF ChatTypeOK
<1>4. StoredOK
  BY <1>1 DEF StoredOK
<1>5. \A t \in Tabs : FetchOK(t) /\ WireOK(t)
  BY <1>1, <1>2 DEF FetchOK, WireOK, Carried
<1>6. OldestFirst
  BY <1>2 DEF OldestFirst
<1>7. QED
  BY <1>3, <1>4, <1>5, <1>6 DEF ChatInv

LEMMA WithMessageShows ==
    ASSUME NEW h \in Seq(Messages) \cup {NoData}, NEW m \in Messages
    PROVE  LET g == WithMessage(h, m)
           IN  /\ g \in Seq(Messages) \cup {NoData}
               /\ g = NoData <=> h = NoData
               /\ h # NoData => Range(g) = Range(h) \cup {m}
               /\ h # NoData /\ m \notin Range(h) => g = Append(h, m)
               /\ m \in Range(h) => g = h
<1>1. h # NoData => /\ Append(h, m) \in Seq(Messages)
                    /\ Range(Append(h, m)) = Range(h) \cup {m}
  BY RangeAppend
<1>2. QED
  BY <1>1, ChatAssumption DEF WithMessage

\* A tab takes what its connection carries into the cached history, or not.
LEMMA HearStep ==
    ASSUME ChatInv, outside' \in 0 .. MaxOutside, NEW t \in Tabs,
           NEW kind \in {"message", "ack"}, Take(t, kind),
           UNCHANGED <<stored, post, conn, live, been, fetch, owed, crossed>>,
           waiting' \in SUBSET Messages,
           \/ data' = [data EXCEPT ![t] = WithMessage(@, Head(wire[t]).message)]
           \/ data' = data
    PROVE  ChatInv'
<1> USE DEF ChatInv
<1> DEFINE m == wire[t][1].message
<1>1. /\ wire' \in [Tabs -> Seq(Events)]
      /\ \A u \in Tabs \ {t} : wire'[u] = wire[u] /\ Carried(u)' = Carried(u)
      /\ \A i \in Carried(t)' : /\ i + 1 \in Carried(t) /\ 1 < i + 1
                                /\ wire'[t][i] = wire[t][i + 1]
      /\ \A i, j \in Carried(t)' : i < j => i + 1 < j + 1
      /\ Head(wire[t]) = wire[t][1]
      /\ 1 \in Carried(t) /\ m \in Messages
  BY TakeFirst
<1>2. m \in Range(stored)
  BY <1>1 DEF WireOK
<1> HIDE DEF m
<1>3. data \in [Tabs -> Seq(Messages) \cup {NoData}]
  BY DEF ChatTypeOK
<1>4. /\ \A u \in Tabs \ {t} : data'[u] = data[u]
      /\ data' \in [Tabs -> Seq(Messages) \cup {NoData}]
      /\ data'[t] = NoData <=> data[t] = NoData
      /\ data[t] # NoData =>
            \/ data'[t] = data[t]
            \/ m \notin Range(data[t]) /\ data'[t] = Append(data[t], m)
  <2> DEFINE g == WithMessage(data[t], m)
  <2>1. /\ g \in Seq(Messages) \cup {NoData}
        /\ g = NoData <=> data[t] = NoData
        /\ data[t] # NoData /\ m \notin Range(data[t]) => g = Append(data[t], m)
        /\ m \in Range(data[t]) => g = data[t]
    BY <1>1, <1>3, WithMessageShows
  <2>2. data' = [data EXCEPT ![t] = g] \/ data' = data
    BY <1>1 DEF m
  <2> HIDE DEF g
  <2>3. QED
    BY <1>3, <2>1, <2>2
<1>5. data[t] # NoData /\ data'[t] # data[t] => Range(data'[t]) = Range(data[t]) \cup {m}
  <2>1. SUFFICES ASSUME data[t] # NoData, data'[t] # data[t]
                 PROVE  Range(data'[t]) = Range(data[t]) \cup {m}
    OBVIOUS
  <2>2. data[t] \in Seq(Messages) /\ data'[t] = Append(data[t], m) /\ m \in Messages
    BY <1>1, <1>3, <1>4, <2>1 DEF m
  <2>3. QED
    BY <2>2, RangeAppend
<1>6. ChatTypeOK'
  BY <1>1, <1>4 DEF ChatTypeOK
<1>7. StoredOK'
  BY SameOrder DEF StoredOK
<1>8. ASSUME NEW u \in Tabs
      PROVE  FetchOK(u)'
  BY <1>4, <1>5 DEF FetchOK
<1>9. ASSUME NEW u \in Tabs
      PROVE  WireOK(u)'
  <2>1. CASE u # t
    <3>1. /\ wire'[u] = wire[u] /\ Carried(u)' = Carried(u) /\ data'[u] = data[u]
          /\ \A x, y : Before(x, y)' <=> Before(x, y)
      BY <1>1, <1>4, <2>1, SameOrder
    <3>2. QED
      BY <3>1 DEF WireOK
  <2>2. CASE u = t
    <3>1. \A i \in Carried(t)' : wire'[t][i].message \in Range(stored)
      BY <1>1 DEF WireOK
    <3>2. ASSUME ~crossed
          PROVE  \A i, j \in Carried(t)' :
                   i < j => ~Before(wire'[t][j].message, wire'[t][i].message)
      BY <1>1, <3>2 DEF WireOK
    <3>3. ASSUME ~crossed, data'[t] # NoData, NEW i \in Carried(t)', NEW n \in Range(data'[t]),
                 Before(wire'[t][i].message, n)
          PROVE  wire'[t][i].message \in Range(data'[t])
      <4>1. n # m
        BY <1>1, <3>3 DEF WireOK, m
      <4>2. n \in Range(data[t])
        BY <1>4, <1>5, <3>3, <4>1
      <4>3. wire[t][i + 1].message \in Range(data[t])
        BY <1>1, <1>4, <3>3, <4>2 DEF WireOK
      <4>4. QED
        BY <1>1, <1>4, <1>5, <3>3, <4>3
    <3>4. QED
      BY <2>2, <3>1, <3>2, <3>3, SameOrder DEF WireOK
  <2>3. QED
    BY <2>1, <2>2
<1>10. OldestFirst'
  <2>1. SUFFICES ASSUME ~crossed, NEW u \in Tabs, data'[u] # NoData
                 PROVE  /\ Range(data'[u]) \subseteq Range(stored)
                        /\ \A i, j \in DOMAIN data'[u] :
                              i < j => Before(data'[u][i], data'[u][j])
    BY SameOrder DEF OldestFirst
  <2>2. CASE u # t \/ data'[u] = data[u]
    BY <1>4, <2>1, <2>2 DEF OldestFirst
  <2>3. CASE u = t /\ data'[u] # data[u]
    <3>1. /\ m \notin Range(data[t]) /\ data'[t] = Append(data[t], m)
          /\ data[t] # NoData /\ data[t] \in Seq(Messages)
      BY <1>3, <1>4, <2>1, <2>3
    <3>2. Range(data'[t]) \subseteq Range(stored)
      BY <1>2, <1>5, <2>1, <2>3, <3>1 DEF OldestFirst
    <3>3. \A n \in Range(data[t]) : Before(n, m)
      <4>1. \A n \in Range(data[t]) : ~Before(m, n)
        BY <1>1, <2>1, <3>1 DEF WireOK, m
      <4>2. \A n \in Range(data[t]) : n # m /\ n \in Range(stored)
        BY <2>1, <3>1 DEF OldestFirst
      <4>3. stored \in Seq(Messages)
        BY DEF ChatTypeOK
      <4>4. QED
        BY <1>2, <4>1, <4>2, <4>3, OrderIsTotal
    <3>4. /\ DOMAIN data[t] = 1 .. Len(data[t]) /\ Len(data[t]) \in Nat
          /\ DOMAIN data'[t] = 1 .. (Len(data[t]) + 1)
          /\ \A i \in DOMAIN data[t] : data'[t][i] = data[t][i] /\ data[t][i] \in Range(data[t])
          /\ data'[t][Len(data[t]) + 1] = m
      BY <1>1, <3>1 DEF Range
    <3>5. ASSUME NEW i \in DOMAIN data'[t], NEW j \in DOMAIN data'[t], i < j
          PROVE  Before(data'[t][i], data'[t][j])
      <4>1. i \in DOMAIN data[t]
        BY <3>4, <3>5
      <4>2. CASE j \in DOMAIN data[t]
        BY <2>1, <3>1, <3>4, <3>5, <4>1, <4>2 DEF OldestFirst
      <4>3. CASE j = Len(data[t]) + 1
        BY <3>3, <3>4, <4>1, <4>3
      <4>4. QED
        BY <3>4, <3>5, <4>2, <4>3
    <3>6. QED
      BY <2>3, <3>2, <3>5
  <2>4. QED
    BY <2>2, <2>3
<1>11. QED
  BY <1>6, <1>7, <1>8, <1>9, <1>10

\* The order of what a tab shows and is sent, while neither changes.
LEMMA SameShown ==
    ASSUME ChatInv, UNCHANGED <<stored, wire, data, crossed>>
    PROVE  (\A t \in Tabs : WireOK(t)') /\ OldestFirst'
<1>1. \A x, y : Before(x, y)' <=> Before(x, y)
  BY SameOrder
<1>2. \A t \in Tabs : Carried(t)' = Carried(t)
  BY DEF Carried
<1>3. QED
  BY <1>1, <1>2 DEF ChatInv, WireOK, OldestFirst

\* The same when less is carried: a connection is lost, or its head is heard.
LEMMA FewerCarried ==
    ASSUME ChatInv, UNCHANGED <<stored, crossed>>, NEW t \in Tabs,
           \A u \in Tabs \ {t} : wire'[u] = wire[u] /\ data'[u] = data[u],
           data'[t] \in {data[t], NoData},
           \/ Carried(t)' = {}
           \/ /\ \A i \in Carried(t)' : i + 1 \in Carried(t) /\ wire'[t][i] = wire[t][i + 1]
              /\ \A i, j \in Carried(t)' : i < j => i + 1 < j + 1
    PROVE  (\A u \in Tabs : WireOK(u)') /\ OldestFirst'
<1>1. \A x, y : Before(x, y)' <=> Before(x, y)
  BY SameOrder
<1>2. OldestFirst'
  <2>1. SUFFICES ASSUME ~crossed, NEW u \in Tabs, data'[u] # NoData
                 PROVE  /\ Range(data'[u]) \subseteq Range(stored)
                        /\ \A i, j \in DOMAIN data'[u] :
                              i < j => Before(data'[u][i], data'[u][j])
    BY <1>1 DEF OldestFirst
  <2>2. data'[u] = data[u]
    BY <2>1
  <2>3. QED
    BY <2>1, <2>2 DEF ChatInv, OldestFirst
<1>3. ASSUME NEW u \in Tabs
      PROVE  WireOK(u)'
  <2>1. CASE u # t
    <3>1. wire'[u] = wire[u] /\ data'[u] = data[u] /\ Carried(u)' = Carried(u)
      BY <2>1 DEF Carried
    <3>2. QED
      BY <1>1, <3>1 DEF ChatInv, WireOK
  <2>2. CASE u = t /\ Carried(t)' = {}
    BY <2>2 DEF WireOK
  <2>3. CASE u = t /\ Carried(t)' # {}
    <3>1. /\ \A i \in Carried(t)' : i + 1 \in Carried(t) /\ wire'[t][i] = wire[t][i + 1]
          /\ \A i, j \in Carried(t)' : i < j => i + 1 < j + 1
      BY <2>3
    <3>2. WireOK(t)
      BY DEF ChatInv
    <3>3. \A i \in Carried(t)' : wire'[t][i].message \in Range(stored)
      BY <3>1, <3>2 DEF WireOK
    <3>4. ASSUME ~crossed, NEW i \in Carried(t)', NEW j \in Carried(t)', i < j
          PROVE  ~Before(wire'[t][j].message, wire'[t][i].message)
      BY <3>1, <3>2, <3>4 DEF WireOK
    <3>5. ASSUME ~crossed, data'[t] # NoData, NEW i \in Carried(t)', NEW n \in Range(data'[t]),
                 Before(wire'[t][i].message, n)
          PROVE  wire'[t][i].message \in Range(data'[t])
      <4>1. data'[t] = data[t]
        BY <3>5
      <4>2. QED
        BY <3>1, <3>2, <3>5, <4>1 DEF WireOK
    <3>6. QED
      BY <1>1, <2>3, <3>3, <3>4, <3>5 DEF WireOK
  <2>4. QED
    BY <2>1, <2>2, <2>3
<1>4. QED
  BY <1>2, <1>3

LEMMA SameStored ==
    ASSUME ChatInv, UNCHANGED <<stored, post, crossed>>
    PROVE  StoredOK'
BY SameOrder DEF ChatInv, StoredOK

\* What the components of fetch and of post are.
FetchType == [at : {"none", "asked", "read"}, page : Seq(Messages)]

LEMMA FetchTypes ==
    Idle \in FetchType /\ Asked \in FetchType
BY DEF FetchType, Idle, Asked

LEMMA FetchSteps ==
    ASSUME ChatInv, outside' \in 0 .. MaxOutside, NEW t \in Tabs,
           ListPage(t) \/ FetchFails(t) \/ Refetch(t) \/ Enter(t)
    PROVE  ChatInv'
<1> USE DEF ChatInv
<1>1. /\ UNCHANGED <<stored, post, waiting, live, been, wire, data, crossed>>
      /\ conn' \in [Tabs -> {"closed", "off", "opening", "joined", "open"}]
      /\ \/ fetch' = [fetch EXCEPT ![t] = Read(stored)] /\ owed' = owed
            /\ fetch[t].at = "asked"
         \/ fetch' = [fetch EXCEPT ![t] = Idle] /\ owed' = [owed EXCEPT ![t] = {}]
         \/ fetch' = [fetch EXCEPT ![t] = Asked] /\ owed' = owed
  BY DEF ListPage, FetchFails, Refetch, Enter, ChatTypeOK
<1>2. Read(stored) \in FetchType /\ Idle \in FetchType /\ Asked \in FetchType
  BY DEF ChatTypeOK, FetchType, Read, Idle, Asked
<1>3. fetch \in [Tabs -> FetchType] /\ owed \in [Tabs -> SUBSET Messages]
  BY DEF ChatTypeOK, FetchType
<1>4. /\ fetch' \in [Tabs -> FetchType] /\ owed' \in [Tabs -> SUBSET Messages]
      /\ \A u \in Tabs \ {t} : fetch'[u] = fetch[u] /\ owed'[u] = owed[u]
      /\ \/ fetch'[t] = Read(stored) /\ owed'[t] = owed[t]
         \/ fetch'[t] = Idle /\ owed'[t] = {}
         \/ fetch'[t] = Asked /\ owed'[t] = owed[t]
  BY <1>1, <1>2, <1>3
<1>5. ChatTypeOK'
  BY <1>1, <1>4 DEF ChatTypeOK, FetchType
<1>6. ASSUME NEW u \in Tabs
      PROVE  FetchOK(u)'
  <2>1. CASE u # t
    BY <1>1, <1>4, <2>1 DEF FetchOK
  <2>2. CASE u = t
    BY <1>1, <1>4, <2>2 DEF FetchOK, Read, Idle, Asked, ChatTypeOK
  <2>3. QED
    BY <2>1, <2>2
<1>7. QED
  BY <1>1, <1>5, <1>6, SameShown, SameStored

\* A page that replaces the cache is a prefix of the table.
LEMMA FetchReturnsStep ==
    ASSUME ChatInv, outside' \in 0 .. MaxOutside, NEW t \in Tabs, FetchReturns(t)
    PROVE  ChatInv'
<1> USE DEF ChatInv
<1> DEFINE latest == fetch[t].page
<1>1. /\ latest \in Seq(Messages) /\ latest # NoData
      /\ Len(latest) <= Len(stored) /\ \A i \in DOMAIN latest : latest[i] = stored[i]
      /\ owed[t] \subseteq Range(latest)
  BY ChatAssumption DEF FetchReturns, FetchOK, ChatTypeOK
<1>2. /\ UNCHANGED <<stored, post, waiting, conn, live, been, wire, owed, crossed>>
      /\ fetch' = [fetch EXCEPT ![t] = Idle] /\ data' = [data EXCEPT ![t] = latest]
  BY DEF FetchReturns
<1> HIDE DEF latest
<1>3. /\ fetch' \in [Tabs -> FetchType] /\ data' \in [Tabs -> Seq(Messages) \cup {NoData}]
      /\ \A u \in Tabs \ {t} : fetch'[u] = fetch[u] /\ data'[u] = data[u]
      /\ fetch'[t] = Idle /\ data'[t] = latest
  BY <1>1, <1>2 DEF ChatTypeOK, FetchType, Idle
<1>4. ChatTypeOK'
  BY <1>2, <1>3 DEF ChatTypeOK, FetchType
<1>5. ASSUME NEW u \in Tabs
      PROVE  FetchOK(u)'
  BY <1>1, <1>2, <1>3 DEF FetchOK, Idle
<1>6. /\ DOMAIN latest = 1 .. Len(latest) /\ Len(latest) \in Nat
      /\ DOMAIN stored = 1 .. Len(stored) /\ Len(stored) \in Nat
  BY <1>1 DEF ChatTypeOK
<1>7. /\ Range(latest) \subseteq Range(stored)
      /\ \A i, j \in DOMAIN latest : i < j => Before(latest[i], latest[j])
  BY <1>1, <1>6 DEF Range, Before
<1>8. \A x : \A n \in Range(latest) : Before(x, n) => x \in Range(latest)
  <2>1. SUFFICES ASSUME NEW x, NEW n \in Range(latest), Before(x, n)
                 PROVE  x \in Range(latest)
    OBVIOUS
  <2>2. PICK k \in DOMAIN latest : n = latest[k]
    BY DEF Range
  <2>3. PICK i \in DOMAIN stored, j \in DOMAIN stored :
           i < j /\ stored[i] = x /\ stored[j] = n
    BY <2>1 DEF Before
  <2>4. k \in DOMAIN stored /\ stored[k] = n
    BY <1>1, <1>6, <2>2
  <2>5. j = k
    BY <2>3, <2>4 DEF StoredOK
  <2>6. i \in DOMAIN latest /\ latest[i] = x
    BY <1>1, <1>6, <2>3, <2>5
  <2>7. QED
    BY <2>6 DEF Range
<1>9. /\ \A x, y : Before(x, y)' <=> Before(x, y)
      /\ \A u \in Tabs : Carried(u)' = Carried(u)
  BY <1>2, SameOrder DEF Carried
<1>10. ASSUME NEW u \in Tabs
       PROVE  WireOK(u)'
  BY <1>2, <1>3, <1>8, <1>9 DEF WireOK
<1>11. OldestFirst'
  BY <1>2, <1>3, <1>7, <1>9 DEF OldestFirst
<1>12. QED
  BY <1>2, <1>4, <1>5, <1>10, <1>11, SameStored

\* The ack of an open is heard: the tab goes live, or has given up by then.
LEMMA OpenedSteps ==
    ASSUME ChatInv, outside' \in 0 .. MaxOutside, NEW t \in Tabs,
           GoesLive(t) \/ OpenTimesOut(t)
    PROVE  ChatInv'
<1> USE DEF ChatInv
<1>1. /\ Take(t, "opened") /\ UNCHANGED <<stored, post, waiting, conn, data, crossed>>
      /\ live' \subseteq Tabs /\ been' \subseteq Tabs
      /\ \/ UNCHANGED <<fetch, owed>>
         \/ /\ fetch' = [fetch EXCEPT ![t] = Asked]
            /\ owed' = [owed EXCEPT ![t] = Range(stored)]
  BY DEF GoesLive, OpenTimesOut, InvalidateQueries, ChatTypeOK
<1>2. /\ wire' \in [Tabs -> Seq(Events)]
      /\ \A u \in Tabs \ {t} : wire'[u] = wire[u]
      /\ \A i \in Carried(t)' : i + 1 \in Carried(t) /\ wire'[t][i] = wire[t][i + 1]
      /\ \A i, j \in Carried(t)' : i < j => i + 1 < j + 1
  BY <1>1, TakeFirst
<1>3. (\A u \in Tabs : WireOK(u)') /\ OldestFirst'
  <2>1. /\ data'[t] \in {data[t], NoData}
        /\ \A u \in Tabs \ {t} : wire'[u] = wire[u] /\ data'[u] = data[u]
    BY <1>1, <1>2
  <2>2. QED
    BY <1>1, <1>2, <2>1, FewerCarried
<1>4. Range(stored) \subseteq Messages
  BY DEF ChatTypeOK, Range
<1>5. /\ fetch' \in [Tabs -> FetchType] /\ owed' \in [Tabs -> SUBSET Messages]
      /\ \A u \in Tabs \ {t} : fetch'[u] = fetch[u] /\ owed'[u] = owed[u]
      /\ \/ fetch'[t] = fetch[t] /\ owed'[t] = owed[t]
         \/ fetch'[t] = Asked /\ owed'[t] = Range(stored)
  <2>1. fetch \in [Tabs -> FetchType] /\ owed \in [Tabs -> SUBSET Messages]
    BY DEF ChatTypeOK, FetchType
  <2>2. QED
    BY <1>1, <1>4, <2>1, FetchTypes
<1>6. ChatTypeOK'
  BY <1>1, <1>2, <1>5 DEF ChatTypeOK, FetchType
<1>7. ASSUME NEW u \in Tabs
      PROVE  FetchOK(u)'
  <2>1. CASE u # t
    BY <1>1, <1>5, <2>1 DEF FetchOK
  <2>2. CASE u = t
    BY <1>1, <1>5, <2>2 DEF FetchOK, Asked
  <2>3. QED
    BY <2>1, <2>2
<1>8. QED
  BY <1>1, <1>3, <1>6, <1>7, SameStored

LEMMA ConnectingSteps ==
    ASSUME ChatInv, UNCHANGED outside, NEW t \in Tabs, Connect(t) \/ Join(t) \/ AnswerOpen(t)
    PROVE  ChatInv'
<1> USE DEF ChatInv
<1>1. /\ UNCHANGED <<stored, post, waiting, live, been, data, fetch, owed, crossed>>
      /\ conn' \in [Tabs -> {"closed", "off", "opening", "joined", "open"}]
      /\ wire' = wire \/ wire' = [wire EXCEPT ![t] = Append(@, [kind |-> "opened"])]
  BY DEF Connect, Join, AnswerOpen, ChatTypeOK
<1>2. [kind |-> "opened"] \in Events
  BY DEF Events
<1>3. wire' \in [Tabs -> Seq(Events)]
  <2>1. wire \in [Tabs -> Seq(Events)]
    BY DEF ChatTypeOK
  <2>2. Append(wire[t], [kind |-> "opened"]) \in Seq(Events)
    BY <1>2, <2>1
  <2>3. QED
    BY <1>1, <2>1, <2>2
<1>4. \A u \in Tabs : /\ Carried(u)' = Carried(u)
                      /\ \A i \in Carried(u) : wire'[u][i] = wire[u][i]
  <2>1. CASE wire' = wire
    BY <2>1 DEF Carried
  <2>2. CASE wire' = [wire EXCEPT ![t] = Append(@, [kind |-> "opened"])]
    <3>1. TAKE u \in Tabs
    <3>2. CASE u # t
      BY <2>2, <3>2 DEF Carried, ChatTypeOK
    <3>3. CASE u = t
      <4>1. /\ wire[t] \in Seq(Events) /\ wire'[t] = Append(wire[t], [kind |-> "opened"])
        BY <2>2 DEF ChatTypeOK
      <4>2. /\ DOMAIN wire[t] = 1 .. Len(wire[t]) /\ Len(wire[t]) \in Nat
            /\ DOMAIN wire'[t] = 1 .. (Len(wire[t]) + 1)
            /\ \A i \in DOMAIN wire[t] : wire'[t][i] = wire[t][i]
            /\ wire'[t][Len(wire[t]) + 1].kind = "opened"
        BY <1>2, <4>1
      <4>3. QED
        BY <3>3, <4>2 DEF Carried
    <3>4. QED
      BY <3>2, <3>3
  <2>3. QED
    BY <1>1, <2>1, <2>2
<1>5. \A x, y : Before(x, y)' <=> Before(x, y)
  BY <1>1, SameOrder
<1>6. ChatTypeOK'
  BY <1>1, <1>3 DEF ChatTypeOK
<1>7. ASSUME NEW u \in Tabs
      PROVE  FetchOK(u)' /\ WireOK(u)'
  <2>1. FetchOK(u)'
    BY <1>1 DEF FetchOK
  <2>2. WireOK(u)'
    BY <1>1, <1>4, <1>5 DEF WireOK
  <2>3. QED
    BY <2>1, <2>2
<1>8. OldestFirst'
  BY <1>1, <1>5 DEF OldestFirst
<1>9. QED
  BY <1>1, <1>6, <1>7, <1>8, SameStored

PostType == [at : {"new", "sent", "inserted", "done", "refused"}, from : Tabs \cup {NoData}]

\* What a lost connection leaves of the posts: some are refused that were not
\* stored yet.
LEMMA LostPosts ==
    ASSUME ChatInv, NEW t \in Tabs, Disconnect(t), UNCHANGED <<stored, crossed>>
    PROVE  /\ post' \in [Messages -> PostType] /\ StoredOK'
           /\ waiting' \subseteq Messages /\ live' \subseteq Tabs
           /\ wire' \in [Tabs -> Seq(Events)] /\ Carried(t)' = {}
           /\ \A u \in Tabs \ {t} : wire'[u] = wire[u]
<1> USE DEF ChatInv
<1>1. post \in [Messages -> PostType] /\ wire \in [Tabs -> Seq(Events)]
  BY DEF ChatTypeOK, PostType
<1>2. PICK lost \in SUBSET {m \in Messages : post[m] = [at |-> "sent", from |-> t]} :
         post' = [m \in Messages |->
                    IF m \in lost THEN [post[m] EXCEPT !.at = "refused"] ELSE post[m]]
  BY DEF Disconnect
<1>3. ASSUME NEW m \in Messages
      PROVE  /\ post'[m] \in PostType
             /\ \/ post'[m] = post[m]
                \/ post[m].at = "sent" /\ post'[m].at = "refused"
  <2>1. CASE m \in lost
    <3>1. post'[m] = [post[m] EXCEPT !.at = "refused"] /\ post[m].at = "sent"
      BY <1>2, <2>1
    <3>2. QED
      BY <1>1, <3>1 DEF PostType
  <2>2. CASE m \notin lost
    <3>1. post'[m] = post[m]
      BY <1>2, <2>2
    <3>2. QED
      BY <1>1, <3>1
  <2>3. QED
    BY <2>1, <2>2
<1>4. post' \in [Messages -> PostType]
  BY <1>2, <1>3
<1>5. StoredOK'
  <2>1. Range(stored) \subseteq Messages
    BY DEF ChatTypeOK, Range
  <2>2. \A x, y : Before(x, y)' <=> Before(x, y)
    BY SameOrder
  <2>3. QED
    BY <1>3, <2>1, <2>2 DEF StoredOK
<1>6. /\ wire' \in [Tabs -> Seq(Events)] /\ wire'[t] = <<>>
      /\ \A u \in Tabs \ {t} : wire'[u] = wire[u]
  BY <1>1 DEF Disconnect
<1>7. QED
  BY <1>4, <1>5, <1>6 DEF Disconnect, ChatTypeOK, Carried

LEMMA DroppingSteps ==
    ASSUME ChatInv, outside' \in 0 .. MaxOutside, NEW t \in Tabs, Drop(t) \/ Leave(t)
    PROVE  ChatInv'
<1> USE DEF ChatInv
<1>1. /\ Disconnect(t) /\ UNCHANGED <<stored, crossed>> /\ been' \subseteq Tabs
      /\ conn' \in [Tabs -> {"closed", "off", "opening", "joined", "open"}]
      /\ \/ UNCHANGED <<fetch, owed, data>>
         \/ /\ fetch' = [fetch EXCEPT ![t] = Idle] /\ owed' = [owed EXCEPT ![t] = {}]
            /\ data' \in {data, [data EXCEPT ![t] = NoData]}
  BY DEF Drop, Leave, ChatTypeOK
<1>2. /\ post' \in [Messages -> PostType] /\ StoredOK'
      /\ waiting' \subseteq Messages /\ live' \subseteq Tabs
      /\ wire' \in [Tabs -> Seq(Events)] /\ Carried(t)' = {}
      /\ \A u \in Tabs \ {t} : wire'[u] = wire[u]
  BY <1>1, LostPosts
<1>3. /\ fetch' \in [Tabs -> FetchType] /\ owed' \in [Tabs -> SUBSET Messages]
      /\ data' \in [Tabs -> Seq(Messages) \cup {NoData}]
      /\ data'[t] \in {data[t], NoData}
      /\ \A u \in Tabs \ {t} : /\ fetch'[u] = fetch[u] /\ owed'[u] = owed[u]
                                /\ data'[u] = data[u]
      /\ \/ UNCHANGED <<fetch, owed, data>>
         \/ fetch'[t] = Idle /\ owed'[t] = {}
  <2>1. /\ fetch \in [Tabs -> FetchType] /\ owed \in [Tabs -> SUBSET Messages]
        /\ data \in [Tabs -> Seq(Messages) \cup {NoData}]
    BY DEF ChatTypeOK, FetchType
  <2>2. QED
    BY <1>1, <2>1, FetchTypes
<1>4. ChatTypeOK'
  BY <1>1, <1>2, <1>3 DEF ChatTypeOK, FetchType, PostType
<1>5. ASSUME NEW u \in Tabs
      PROVE  FetchOK(u)'
  <2>1. CASE u # t \/ UNCHANGED <<fetch, owed, data>>
    BY <1>1, <1>3, <2>1 DEF FetchOK
  <2>2. CASE u = t /\ fetch'[t] = Idle /\ owed'[t] = {}
    BY <2>2 DEF FetchOK, Idle
  <2>3. QED
    BY <1>3, <2>1, <2>2
<1>6. (\A u \in Tabs : WireOK(u)') /\ OldestFirst'
  BY <1>1, <1>2, <1>3, FewerCarried
<1>7. QED
  BY <1>2, <1>4, <1>5, <1>6

\* A message moves on without being stored or told to anybody.
LEMMA PostSteps ==
    ASSUME ChatInv, outside' \in 0 .. MaxOutside, NEW m \in Messages,
           (\E t \in Tabs : SendMessage(t, m)) \/ OtherSends(m) \/ Refuse(m)
           \/ ReadBackFails(m) \/ SendTimesOut(m)
    PROVE  ChatInv'
<1> USE DEF ChatInv
<1>1. post \in [Messages -> PostType] /\ Range(stored) \subseteq Messages
  BY DEF ChatTypeOK, PostType, Range
<1>2. /\ UNCHANGED <<stored, conn, live, been, wire, data, fetch, owed, crossed>>
      /\ waiting' \subseteq Messages
  BY DEF SendMessage, OtherSends, Refuse, ReadBackFails, SendTimesOut, ChatTypeOK
<1>3. PICK p \in PostType :
         /\ post' = [post EXCEPT ![m] = p]
         /\ \/ p = post[m]
            \/ post[m].at = "new" /\ p.at = "sent"
            \/ post[m].at \in {"sent", "inserted"} /\ p.at = "refused"
  <2>1. CASE \E t \in Tabs : SendMessage(t, m)
    <3>1. PICK t \in Tabs : SendMessage(t, m)
      BY <2>1
    <3>2. [at |-> "sent", from |-> t] \in PostType
      BY DEF PostType
    <3>3. post' = [post EXCEPT ![m] = [at |-> "sent", from |-> t]] /\ post[m].at = "new"
      BY <3>1 DEF SendMessage, New
    <3>4. QED
      BY <3>2, <3>3
  <2>2. CASE OtherSends(m)
    <3>1. /\ post[m].at = "new" /\ post[m] \in PostType
          /\ post' = [post EXCEPT ![m] = [post[m] EXCEPT !.at = "sent"]]
      BY <1>1, <2>2 DEF OtherSends, New
    <3>2. [post[m] EXCEPT !.at = "sent"] \in PostType /\ [post[m] EXCEPT !.at = "sent"].at = "sent"
      BY <3>1 DEF PostType
    <3>3. QED
      BY <3>1, <3>2
  <2>3. CASE Refuse(m) \/ ReadBackFails(m)
    <3>1. /\ post[m].at \in {"sent", "inserted"} /\ post[m] \in PostType
          /\ post' = [post EXCEPT ![m] = [post[m] EXCEPT !.at = "refused"]]
      BY <1>1, <2>3 DEF Refuse, ReadBackFails
    <3>2. /\ [post[m] EXCEPT !.at = "refused"] \in PostType
          /\ [post[m] EXCEPT !.at = "refused"].at = "refused"
      BY <3>1 DEF PostType
    <3>3. QED
      BY <3>1, <3>2
  <2>4. CASE SendTimesOut(m)
    BY <1>1, <2>4 DEF SendTimesOut
  <2>5. QED
    BY <2>1, <2>2, <2>3, <2>4
<1>4. /\ post' \in [Messages -> PostType]
      /\ \A n \in Messages :
            \/ post'[n] = post[n]
            \/ post[n].at = "new" /\ post'[n].at = "sent"
            \/ post[n].at \in {"sent", "inserted"} /\ post'[n].at = "refused"
  BY <1>1, <1>3
<1>5. ChatTypeOK'
  BY <1>2, <1>4 DEF ChatTypeOK, PostType
<1>6. StoredOK'
  <2>1. \A x, y : Before(x, y)' <=> Before(x, y)
    BY <1>2, SameOrder
  <2>2. QED
    BY <1>1, <1>2, <1>4, <2>1 DEF StoredOK
<1>7. \A u \in Tabs : FetchOK(u)'
  BY <1>2 DEF FetchOK
<1>8. QED
  BY <1>2, <1>5, <1>6, <1>7, SameShown

LEMMA InsertStep ==
    ASSUME ChatInv, UNCHANGED outside, NEW m \in Messages, InsertMessage(m)
    PROVE  ChatInv'
<1> USE DEF ChatInv
<1>1. /\ UNCHANGED <<waiting, conn, live, been, wire, data, fetch, owed>>
      /\ post[m].at = "sent" /\ stored' = Append(stored, m)
      /\ post' = [post EXCEPT ![m].at = "inserted"]
      /\ crossed' = (crossed \/ \E n \in Messages : post[n].at = "inserted")
      /\ post \in [Messages -> PostType] /\ stored \in Seq(Messages)
  BY DEF InsertMessage, ChatTypeOK, PostType
<1>2. /\ post' \in [Messages -> PostType] /\ post'[m].at = "inserted"
      /\ \A n \in Messages \ {m} : post'[n] = post[n]
  <2>1. post[m] \in PostType /\ post' = [post EXCEPT ![m] = [post[m] EXCEPT !.at = "inserted"]]
    BY <1>1
  <2>2. /\ [post[m] EXCEPT !.at = "inserted"] \in PostType
        /\ [post[m] EXCEPT !.at = "inserted"].at = "inserted"
    BY <2>1 DEF PostType
  <2>3. QED
    BY <1>1, <2>1, <2>2
<1>3. m \notin Range(stored)
  BY <1>1 DEF StoredOK
<1>4. /\ \A x, y : Before(x, y) => Before(x, y)'
      /\ \A x, y : y \in Range(stored) /\ Before(x, y)' => Before(x, y)
      /\ \A y : ~Before(m, y)'
      /\ Range(stored)' = Range(stored) \cup {m}
  BY <1>1, <1>3, AppendKeepsOrder
<1>5. /\ DOMAIN stored' = 1 .. (Len(stored) + 1) /\ Len(stored') = Len(stored) + 1
      /\ \A i \in DOMAIN stored : stored'[i] = stored[i] /\ stored[i] # m
      /\ stored'[Len(stored) + 1] = m /\ stored' \in Seq(Messages)
      /\ DOMAIN stored = 1 .. Len(stored) /\ Len(stored) \in Nat
  BY <1>1, <1>3 DEF Range
<1>6. crossed' \in BOOLEAN /\ (~crossed' => ~crossed)
  BY <1>1 DEF ChatTypeOK
<1>7. ChatTypeOK'
  BY <1>1, <1>2, <1>5, <1>6 DEF ChatTypeOK, PostType
<1>8. StoredOK'
  <2>1. \A i, j \in DOMAIN stored' : stored'[i] = stored'[j] => i = j
    BY <1>5 DEF StoredOK
  <2>2. Range(stored) \subseteq Messages
    BY <1>1 DEF Range
  <2>3. \A n \in Range(stored)' : post'[n].at \in {"inserted", "done", "refused"}
    BY <1>2, <1>3, <1>4, <2>2 DEF StoredOK
  <2>4. \A n \in Messages : post'[n].at \in {"inserted", "done"} => n \in Range(stored)'
    BY <1>2, <1>4 DEF StoredOK
  <2>5. ~crossed' => \A n \in Messages : post'[n].at = "inserted" => n = m
    BY <1>1, <1>2
  <2>6. QED
    BY <1>4, <2>1, <2>3, <2>4, <2>5 DEF StoredOK
<1>9. ASSUME NEW t \in Tabs
      PROVE  FetchOK(t)'
  <2>1. fetch[t].at = "read" =>
           /\ fetch[t].page \in Seq(Messages)
           /\ Len(fetch[t].page) <= Len(stored)
           /\ \A i \in DOMAIN fetch[t].page : fetch[t].page[i] = stored[i]
    BY DEF FetchOK, ChatTypeOK
  <2>2. fetch[t].at = "read" =>
           /\ Len(fetch[t].page) <= Len(stored')
           /\ \A i \in DOMAIN fetch[t].page : fetch[t].page[i] = stored'[i]
    BY <1>5, <2>1
  <2>3. QED
    BY <1>1, <1>4, <2>2 DEF FetchOK
<1>10. ASSUME NEW t \in Tabs
       PROVE  WireOK(t)'
  <2>1. Carried(t)' = Carried(t) /\ wire'[t] = wire[t] /\ data'[t] = data[t]
    BY <1>1 DEF Carried
  <2>2. \A i \in Carried(t) : wire[t][i].message \in Range(stored)
    BY DEF WireOK
  <2>3. ~crossed' /\ data[t] # NoData => Range(data[t]) \subseteq Range(stored)
    BY <1>6 DEF OldestFirst
  <2>4. QED
    BY <1>4, <1>6, <2>1, <2>2, <2>3 DEF WireOK
<1>11. OldestFirst'
  BY <1>1, <1>4, <1>6 DEF OldestFirst
<1>12. QED
  BY <1>7, <1>8, <1>9, <1>10, <1>11

\* A connection's queue grows by what it carries of one message.
LEMMA TellOne ==
    ASSUME NEW w \in Seq(Events), NEW e \in Seq(Events), NEW m \in Messages,
           \A i \in DOMAIN e : e[i].kind # "opened" /\ e[i].message = m
    PROVE  /\ w \o e \in Seq(Events)
           /\ \A i \in DOMAIN (w \o e) :
                 \/ i \in DOMAIN w /\ (w \o e)[i] = w[i]
                 \/ /\ (w \o e)[i].kind # "opened" /\ (w \o e)[i].message = m
                    /\ \A j \in DOMAIN w : ~(i < j)
<1>1. /\ DOMAIN w = 1 .. Len(w) /\ Len(w) \in Nat
      /\ DOMAIN e = 1 .. Len(e) /\ Len(e) \in Nat
      /\ w \o e \in Seq(Events)
      /\ DOMAIN (w \o e) = 1 .. (Len(w) + Len(e))
      /\ \A i \in 1 .. (Len(w) + Len(e)) :
            (w \o e)[i] = IF i <= Len(w) THEN w[i] ELSE e[i - Len(w)]
  OBVIOUS
<1>2. \A i \in 1 .. (Len(w) + Len(e)) : i <= Len(w) \/ i - Len(w) \in DOMAIN e
  BY <1>1
<1>3. QED
  BY <1>1, <1>2

LEMMA BroadcastStep ==
    ASSUME ChatInv, UNCHANGED outside, NEW m \in Messages, Broadcast(m)
    PROVE  ChatInv'
<1> USE DEF ChatInv
<1>1. /\ UNCHANGED <<stored, waiting, conn, live, been, data, fetch, owed, crossed>>
      /\ post[m].at = "inserted" /\ post' = [post EXCEPT ![m].at = "done"]
      /\ post \in [Messages -> PostType] /\ wire \in [Tabs -> Seq(Events)]
  BY DEF Broadcast, ChatTypeOK, PostType
<1>2. /\ post' \in [Messages -> PostType] /\ post'[m].at = "done"
      /\ \A n \in Messages \ {m} : post'[n] = post[n]
  <2>1. post[m] \in PostType /\ post' = [post EXCEPT ![m] = [post[m] EXCEPT !.at = "done"]]
    BY <1>1
  <2>2. /\ [post[m] EXCEPT !.at = "done"] \in PostType
        /\ [post[m] EXCEPT !.at = "done"].at = "done"
    BY <2>1 DEF PostType
  <2>3. QED
    BY <1>1, <2>1, <2>2
<1>3. \A x, y : Before(x, y)' <=> Before(x, y)
  BY <1>1, SameOrder
<1>4. /\ m \in Range(stored)
      /\ ~crossed => \A n \in Range(stored) : ~Before(m, n)
  BY <1>1 DEF StoredOK
<1>5. ~Before(m, m)
  BY DEF StoredOK, Before, ChatTypeOK
<1>6. ASSUME NEW t \in Tabs
      PROVE  /\ wire'[t] \in Seq(Events)
             /\ \A i \in Carried(t)' :
                   \/ i \in Carried(t) /\ wire'[t][i] = wire[t][i]
                   \/ /\ wire'[t][i].message = m
                      /\ \A j \in Carried(t) : ~(i < j)
  <2> DEFINE a == IF InChannel(t) THEN <<[kind |-> "message", message |-> m]>> ELSE <<>>
             b == IF t = post[m].from /\ m \in waiting
                  THEN <<[kind |-> "ack", message |-> m]>> ELSE <<>>
  <2>1. wire'[t] = wire[t] \o a \o b
    BY DEF Broadcast
  <2>2. /\ [kind |-> "message", message |-> m] \in Events
        /\ [kind |-> "ack", message |-> m] \in Events
    BY DEF Events
  <2>3. /\ a \in Seq(Events) /\ \A i \in DOMAIN a : a[i].kind # "opened" /\ a[i].message = m
        /\ b \in Seq(Events) /\ \A i \in DOMAIN b : b[i].kind # "opened" /\ b[i].message = m
    BY <2>2
  <2> HIDE DEF a, b
  <2>4. /\ wire[t] \o a \in Seq(Events)
        /\ \A i \in DOMAIN (wire[t] \o a) :
              \/ i \in DOMAIN wire[t] /\ (wire[t] \o a)[i] = wire[t][i]
              \/ /\ (wire[t] \o a)[i].kind # "opened" /\ (wire[t] \o a)[i].message = m
                 /\ \A j \in DOMAIN wire[t] : ~(i < j)
    BY <1>1, <2>3, TellOne
  <2> DEFINE c == wire[t] \o a
  <2>5. /\ c \o b \in Seq(Events)
        /\ \A i \in DOMAIN (c \o b) :
              \/ i \in DOMAIN c /\ (c \o b)[i] = c[i]
              \/ /\ (c \o b)[i].kind # "opened" /\ (c \o b)[i].message = m
                 /\ \A j \in DOMAIN c : ~(i < j)
    BY <2>3, <2>4, TellOne
  <2>6. DOMAIN wire[t] \subseteq DOMAIN c
    BY <1>1, <2>3
  <2>7. wire'[t] = c \o b
    BY <2>1
  <2> HIDE DEF c
  <2>8. \A i \in DOMAIN c :
              \/ i \in DOMAIN wire[t] /\ c[i] = wire[t][i]
              \/ /\ c[i].kind # "opened" /\ c[i].message = m
                 /\ \A j \in DOMAIN wire[t] : ~(i < j)
    BY <2>4 DEF c
  <2>9. QED
    BY <2>5, <2>6, <2>7, <2>8 DEF Carried
<1>7. wire' \in [Tabs -> Seq(Events)]
  <2>1. wire' = [t \in Tabs |-> wire'[t]]
    BY DEF Broadcast
  <2>2. QED
    BY <1>6, <2>1
<1>8. ChatTypeOK'
  BY <1>1, <1>2, <1>7 DEF ChatTypeOK, PostType
<1>9. StoredOK'
  <2>1. Range(stored) \subseteq Messages
    BY DEF Range, ChatTypeOK
  <2>2. QED
    BY <1>1, <1>2, <1>3, <1>4, <2>1 DEF StoredOK
<1>10. \A t \in Tabs : FetchOK(t)'
  BY <1>1 DEF FetchOK
<1>11. ASSUME NEW t \in Tabs
       PROVE  WireOK(t)'
  <2>1. \A i \in Carried(t)' : wire'[t][i].message \in Range(stored)
    BY <1>4, <1>6 DEF WireOK
  <2>2. ASSUME ~crossed, NEW i \in Carried(t)', NEW j \in Carried(t)', i < j
        PROVE  ~Before(wire'[t][j].message, wire'[t][i].message)
    <3>1. CASE j \in Carried(t) /\ wire'[t][j] = wire[t][j]
      BY <1>6, <2>2, <3>1 DEF WireOK
    <3>2. CASE wire'[t][j].message = m
      BY <1>4, <2>1, <2>2, <3>2
    <3>3. QED
      BY <1>6, <3>1, <3>2
  <2>3. ASSUME ~crossed, data[t] # NoData, NEW i \in Carried(t)', NEW n \in Range(data[t]),
               Before(wire'[t][i].message, n)
        PROVE  wire'[t][i].message \in Range(data[t])
    <3>1. n \in Range(stored)
      BY <2>3 DEF OldestFirst
    <3>2. i \in Carried(t) /\ wire'[t][i] = wire[t][i]
      BY <1>4, <1>6, <2>3, <3>1
    <3>3. QED
      BY <2>3, <3>2 DEF WireOK
  <2>4. QED
    BY <1>1, <1>3, <2>1, <2>2, <2>3 DEF WireOK
<1>12. OldestFirst'
  BY <1>1, <1>3 DEF OldestFirst
<1>13. QED
  BY <1>8, <1>9, <1>10, <1>11, <1>12

LEMMA ChatStep == ChatInv /\ [ChatNext]_chatVars => ChatInv'
<1> SUFFICES ASSUME ChatInv, [ChatNext]_chatVars
             PROVE  ChatInv'
  OBVIOUS
<1>1. CASE ChatOutside
  <2>1. outside' \in 0 .. MaxOutside
    BY <1>1, ChatAssumption DEF ChatOutside, ChatInv, ChatTypeOK
  <2>2. QED
    BY <1>1, <2>1, FetchSteps, DroppingSteps, OpenedSteps, PostSteps DEF ChatOutside
<1>2. CASE ChatInside
  <2>1. UNCHANGED outside /\ outside' \in 0 .. MaxOutside
    BY <1>2 DEF ChatInside, ChatInv, ChatTypeOK
  <2>2. ASSUME NEW t \in Tabs, Receive(t) \/ Acked(t)
        PROVE  ChatInv'
    <3>1. CASE Receive(t)
      <4>1. /\ Take(t, "message")
            /\ UNCHANGED <<stored, post, conn, live, been, fetch, owed, crossed>>
            /\ waiting' \in SUBSET Messages
            /\ data' = [data EXCEPT ![t] = WithMessage(@, Head(wire[t]).message)]
        BY <3>1 DEF Receive, ChatInv, ChatTypeOK
      <4>2. QED
        BY <2>1, <4>1, HearStep
    <3>2. CASE Acked(t)
      <4>1. /\ Take(t, "ack")
            /\ UNCHANGED <<stored, post, conn, live, been, fetch, owed, crossed>>
            /\ waiting' \in SUBSET Messages
            /\ \/ data' = [data EXCEPT ![t] = WithMessage(@, Head(wire[t]).message)]
               \/ data' = data
        BY <3>2 DEF Acked, ChatInv, ChatTypeOK
      <4>2. QED
        BY <2>1, <4>1, HearStep
    <3>3. QED
      BY <2>2, <3>1, <3>2
  <2>3. QED
    BY <1>2, <2>1, <2>2, FetchSteps, FetchReturnsStep, ConnectingSteps, OpenedSteps,
       PostSteps, InsertStep, BroadcastStep DEF ChatInside
<1>3. CASE UNCHANGED chatVars
  <2>1. ChatTypeOK' /\ \A t \in Tabs : FetchOK(t)'
    BY <1>3 DEF chatVars, ChatInv, ChatTypeOK, FetchOK
  <2>2. QED
    BY <1>3, <2>1, SameShown, SameStored DEF chatVars, ChatInv
<1>4. QED
  BY <1>1, <1>2, <1>3 DEF ChatNext

\* However pages, broadcasts, acks, drops and departures interleave, what the
\* tabs, the connections and the table hold keeps its type.
THEOREM ChatTypeCorrect == ChatSpec => []ChatTypeOK
<1>1. ChatInv => ChatTypeOK
  BY DEF ChatInv
<1>2. QED
  BY <1>1, ChatInvInit, ChatStep, PTL DEF ChatSpec

\* Back from a drop, and with the request of then done, any tab shows all that
\* was stored when it went live again, for any number of tabs and messages.
THEOREM TheAwayCatchUp == ChatSpec => []AwayIsCaughtUp
<1>1. ChatInv => AwayIsCaughtUp
  BY DEF ChatInv, FetchOK, AwayIsCaughtUp
<1>2. QED
  BY <1>1, ChatInvInit, ChatStep, PTL DEF ChatSpec

\* A tab shows messages in the order they were stored in, none of them twice,
\* for any number of tabs and messages.
THEOREM HistoryIsOldestFirst == ChatSpec => []OldestFirst
<1>1. ChatInv => OldestFirst
  BY DEF ChatInv
<1>2. QED
  BY <1>1, ChatInvInit, ChatStep, PTL DEF ChatSpec

-----------------------------------------------------------------------------
(* Lemmas about the records of the editor *)

LEMMA RowWith ==
    ASSUME NEW e \in Row, NEW w \in {"files", "name"},
           NEW v, v \in IF w = "files" THEN Projects ELSE Names
    PROVE  /\ [e EXCEPT ![w] = v] \in Row
           /\ [e EXCEPT ![w] = v][w] = v
           /\ w = "name" => [e EXCEPT ![w] = v].files = e.files
<1>0. PICK f \in Projects, n \in Names : e = [files |-> f, name |-> n]
  BY DEF Row
<1>1. CASE w = "files"
  <2>1. [e EXCEPT !["files"] = v] = [files |-> v, name |-> e.name]
    BY <1>0
  <2>. QED BY <1>1, <2>1 DEF Row
<1>2. CASE w = "name"
  <2>1. [e EXCEPT !["name"] = v] = [files |-> e.files, name |-> v]
    BY <1>0
  <2>. QED BY <1>2, <2>1 DEF Row
<1>. QED BY <1>1, <1>2
LEMMA PatchWith ==
    ASSUME NEW p \in Patch, NEW heard \in BOOLEAN, NEW alone \in BOOLEAN,
           NEW at \in {"free", "sent", "found", "loaded", "written", "refused"},
           NEW entity \in Row \cup {None}, NEW diff \in SUBSET {"files", "name", "row"}
    PROVE  \A q :
             /\ q = [p EXCEPT !.heard = heard] =>
                  /\ q \in Patch /\ q.heard = heard
                  /\ q.at = p.at /\ q.what = p.what /\ q.value = p.value
                  /\ q.entity = p.entity /\ q.diff = p.diff /\ q.alone = p.alone
             /\ q = [p EXCEPT !.alone = alone] =>
                  /\ q \in Patch /\ q.alone = alone
                  /\ q.at = p.at /\ q.what = p.what /\ q.value = p.value
                  /\ q.entity = p.entity /\ q.diff = p.diff /\ q.heard = p.heard
             /\ q = [p EXCEPT !.at = at] =>
                  /\ q \in Patch /\ q.at = at
                  /\ q.what = p.what /\ q.value = p.value /\ q.entity = p.entity
                  /\ q.diff = p.diff /\ q.heard = p.heard /\ q.alone = p.alone
             /\ q = [p EXCEPT !.at = at, !.entity = entity] =>
                  /\ q \in Patch /\ q.at = at /\ q.entity = entity
                  /\ q.what = p.what /\ q.value = p.value
                  /\ q.diff = p.diff /\ q.heard = p.heard /\ q.alone = p.alone
             /\ q = [p EXCEPT !.at = at, !.diff = diff] =>
                  /\ q \in Patch /\ q.at = at /\ q.diff = diff
                  /\ q.what = p.what /\ q.value = p.value
                  /\ q.entity = p.entity /\ q.heard = p.heard /\ q.alone = p.alone
BY DEF Patch

LEMMA RowMix ==
    ASSUME NEW e \in Row, NEW f \in Row, NEW d
    PROVE  LET g == [c \in {"files", "name"} |-> IF c \in d THEN e[c] ELSE f[c]]
           IN  /\ g \in Row
               /\ g.files = IF "files" \in d THEN e.files ELSE f.files
<1> DEFINE g == [c \in {"files", "name"} |-> IF c \in d THEN e[c] ELSE f[c]]
<1>1. g = [files |-> IF "files" \in d THEN e.files ELSE f.files,
           name |-> IF "name" \in d THEN e.name ELSE f.name]
  OBVIOUS
<1>. QED BY <1>1 DEF Row

LEMMA EditorInvInit == EditorInit => EditorInv
<1> SUFFICES ASSUME EditorInit
             PROVE  EditorInv
  OBVIOUS
<1>1. patch \in [Requests -> Patch] /\ UnderWay = {}
  BY DEF EditorInit, Free, Patch, UnderWay
<1>2. row \in Row
  BY DEF EditorInit, Row
<1>3. EditorTypeOK
  BY <1>1, <1>2, EditorAssumption DEF EditorInit, EditorTypeOK
<1>4. ShellOK /\ SureOK
  BY <1>1 DEF EditorInit, ShellOK, SureOK, Shows
<1>5. \A r \in Requests : PatchOK(r) /\ AloneOK(r)
  BY <1>1 DEF EditorInit, Free, PatchOK, AloneOK
<1>6. QED
  BY <1>3, <1>4, <1>5 DEF EditorInv

LEMMA OpeningSteps ==
    ASSUME EditorInv, UNCHANGED edits, Open \/ GetSandbox \/ Opened
    PROVE  EditorInv'
<1> USE EditorAssumption DEF EditorInv, shell
<1>1. CASE Open
  <2>1. EditorTypeOK'
    BY <1>1 DEF Open, OpenWith, EditorTypeOK, Row
  <2>2. ShellOK' /\ \A r \in Requests : PatchOK(r)' /\ AloneOK(r)'
    BY <1>1 DEF Open, OpenWith, EditorTypeOK, Row, ShellOK, PatchOK, AloneOK, UnderWay
  <2>3. SureOK'
    BY <1>1 DEF Open, OpenWith, EditorTypeOK, ShellOK, SureOK, UnderWay, Saving, Shows
  <2>4. QED
    BY <2>1, <2>2, <2>3
<1>2. CASE GetSandbox
  <2>1. EditorTypeOK'
    BY <1>2 DEF GetSandbox, EditorTypeOK
  <2>2. ShellOK' /\ \A r \in Requests : PatchOK(r)' /\ AloneOK(r)'
    BY <1>2 DEF GetSandbox, EditorTypeOK, ShellOK, PatchOK, AloneOK, UnderWay
  <2>3. SUFFICES ASSUME sure'
                 PROVE  SureOK'
    BY <2>1, <2>2 DEF SureOK
  <2>4. sure /\ ~Saving /\ UNCHANGED <<row, patch, cache, pending, saved>>
    BY <1>2, <2>3 DEF GetSandbox, EditorTypeOK
  <2>5. \A r \in UnderWay : patch[r].what = "name"
    BY <2>4 DEF Saving, UnderWay, EditorTypeOK, Patch
  <2>6. page # "editor" /\ page' # "editor"
    BY <1>2 DEF GetSandbox
  <2>7. row # None /\ cache # None => cache.files = row.files
    BY <2>4, <2>5 DEF SureOK, Shows
  <2>8. got' # None => row # None /\ got'.files = row.files
    BY <1>2 DEF GetSandbox
  <2>9. \A r \in UnderWay : row # None /\ patch[r].at \in {"found", "loaded"} =>
            row.files = patch[r].entity.files
    BY <2>4, <2>5 DEF SureOK, AloneOK, UnderWay
  <2>10. \A r \in UnderWay : patch[r].at \in {"found", "loaded"} =>
            Shows(patch[r].entity.files)
    BY <2>4, <2>5 DEF SureOK
  <2>11. UnderWay' = UnderWay
    BY <2>4 DEF UnderWay
  <2>12. QED
    BY <2>4, <2>5, <2>6, <2>7, <2>8, <2>9, <2>10, <2>11 DEF SureOK, Shows
<1>3. CASE Opened
  <2>1. EditorTypeOK'
    BY <1>3 DEF Opened, OpenWith, EditorTypeOK, Row
  <2>2. ShellOK' /\ \A r \in Requests : PatchOK(r)' /\ AloneOK(r)'
    BY <1>3 DEF Opened, OpenWith, EditorTypeOK, Row, ShellOK, PatchOK, AloneOK, UnderWay
  <2>3. SureOK'
    BY <1>3 DEF Opened, OpenWith, EditorTypeOK, ShellOK, SureOK, AloneOK, UnderWay, Saving, Shows
  <2>4. QED
    BY <2>1, <2>2, <2>3
<1>4. QED
  BY <1>1, <1>2, <1>3

LEMMA LeavingSteps ==
    ASSUME EditorInv, edits' \in 0..MaxEdits,
           GetFails \/ LeaveEditor \/ Reload \/ Delete \/ DeleteRow \/ Deleted
           \/ DeleteFails
    PROVE  EditorInv'
<1> USE EditorAssumption DEF EditorInv, shell
<1>1. CASE GetFails
  BY <1>1 DEF GetFails, EditorTypeOK, ShellOK, SureOK, PatchOK, AloneOK, UnderWay, Shows
<1>2. CASE LeaveEditor
  BY <1>2 DEF LeaveEditor, CloseShell, EditorTypeOK, ShellOK, SureOK, PatchOK, AloneOK,
     UnderWay, Shows
<1>3. CASE Reload
  <2>1. \A r \in Requests :
           /\ patch'[r] \in Patch /\ ~patch'[r].heard
           /\ patch'[r].at = patch[r].at /\ patch'[r].what = patch[r].what
           /\ patch'[r].value = patch[r].value /\ patch'[r].entity = patch[r].entity
           /\ patch'[r].diff = patch[r].diff /\ patch'[r].alone = patch[r].alone
    <3> TAKE r \in Requests
    <3>1. patch[r] \in Patch /\ patch'[r] = [patch[r] EXCEPT !.heard = FALSE]
      BY <1>3 DEF Reload, EditorTypeOK
    <3>2. QED
      BY <3>1 DEF Patch
  <2>2. UnderWay' = UnderWay
    BY <2>1 DEF UnderWay
  <2>3. EditorTypeOK'
    <3>1. patch' \in [Requests -> Patch]
      BY <1>3, <2>1 DEF Reload
    <3>2. QED
      BY <1>3, <3>1 DEF Reload, CloseShell, EditorTypeOK
  <2>4. ShellOK' /\ \A r \in Requests : PatchOK(r)' /\ AloneOK(r)'
    BY <1>3, <2>1, <2>2 DEF Reload, CloseShell, EditorTypeOK, ShellOK, PatchOK, AloneOK
  <2>5. SureOK'
    BY <1>3, <2>1, <2>2 DEF Reload, CloseShell, EditorTypeOK, SureOK, Shows, UnderWay
  <2>6. QED
    BY <2>3, <2>4, <2>5
<1>4. CASE Delete
  BY <1>4 DEF Delete, EditorTypeOK, ShellOK, SureOK, PatchOK, AloneOK, UnderWay, Shows
<1>5. CASE DeleteRow
  <2>1. EditorTypeOK' /\ ShellOK' /\ SureOK'
    BY <1>5 DEF DeleteRow, EditorTypeOK, ShellOK, SureOK, UnderWay, Shows
  <2>2. \A r \in Requests : PatchOK(r)' /\ AloneOK(r)'
    BY <1>5 DEF DeleteRow, PatchOK, AloneOK, UnderWay
  <2>3. QED
    BY <2>1, <2>2
<1>6. CASE Deleted
  BY <1>6 DEF Deleted, EditorTypeOK, ShellOK, SureOK, PatchOK, AloneOK, UnderWay, Shows
<1>7. CASE DeleteFails
  BY <1>7 DEF DeleteFails, EditorTypeOK, ShellOK, SureOK, PatchOK, AloneOK, UnderWay, Shows
<1>8. QED
  BY <1>1, <1>2, <1>3, <1>4, <1>5, <1>6, <1>7

LEMMA TypingSteps ==
    ASSUME EditorInv, edits' \in 0..MaxEdits, (\E p \in Projects : Edit(p)) \/ Retry
    PROVE  EditorInv'
BY EditorAssumption DEF EditorInv, Edit, Retry, EditorTypeOK, ShellOK, SureOK, PatchOK,
   AloneOK, UnderWay, Shows

LEMMA SendPatch ==
    ASSUME EditorTypeOK, NEW r \in Requests, NEW what \in {"files", "name"},
           NEW value \in Projects \cup Names, Send(r, what, value)
    PROVE  /\ patch' \in [Requests -> Patch]
           /\ patch'[r].at = "sent" /\ patch'[r].what = what /\ patch'[r].value = value
           /\ patch'[r].heard /\ (patch'[r].alone <=> UnderWay = {})
           /\ \A q \in Requests \ {r} :
                 /\ ~patch'[q].alone \/ q \notin UnderWay
                 /\ patch'[q].at = patch[q].at /\ patch'[q].what = patch[q].what
                 /\ patch'[q].value = patch[q].value /\ patch'[q].entity = patch[q].entity
                 /\ patch'[q].diff = patch[q].diff /\ patch'[q].heard = patch[q].heard
           /\ UnderWay' = UnderWay \cup {r}
           /\ sure' => sure /\ UnderWay = {}
<1>1. /\ patch'[r].at = "sent" /\ patch'[r].what = what /\ patch'[r].value = value
      /\ patch'[r].heard /\ (patch'[r].alone <=> UnderWay = {})
      /\ patch'[r] \in Patch
  <2>1. patch'[r] = [at |-> "sent", what |-> what, value |-> value, entity |-> None,
                     diff |-> {}, heard |-> TRUE, alone |-> UnderWay = {}]
    BY DEF Send, Free
  <2>2. CASE UnderWay = {}
    <3>1. patch'[r] = [at |-> "sent", what |-> what, value |-> value, entity |-> None,
                       diff |-> {}, heard |-> TRUE, alone |-> TRUE]
      BY <2>1, <2>2
    <3>2. QED
      BY <2>2, <3>1 DEF Patch
  <2>3. CASE UnderWay # {}
    <3>1. patch'[r] = [at |-> "sent", what |-> what, value |-> value, entity |-> None,
                       diff |-> {}, heard |-> TRUE, alone |-> FALSE]
      BY <2>1, <2>3
    <3>2. QED
      BY <2>3, <3>1 DEF Patch
  <2>4. QED
    BY <2>2, <2>3
<1>2. ASSUME NEW q \in Requests, q # r
      PROVE  /\ patch'[q] \in Patch
             /\ ~patch'[q].alone \/ patch[q].at = "free"
             /\ patch'[q].at = patch[q].at /\ patch'[q].what = patch[q].what
             /\ patch'[q].value = patch[q].value /\ patch'[q].entity = patch[q].entity
             /\ patch'[q].diff = patch[q].diff /\ patch'[q].heard = patch[q].heard
  <2>1. /\ patch[q] \in Patch
        /\ patch'[q] = [patch[q] EXCEPT !.alone = @ /\ patch[q].at = "free"]
    BY <1>2 DEF Send, EditorTypeOK
  <2>2. (patch[q].alone /\ patch[q].at = "free") \in BOOLEAN
    OBVIOUS
  <2>3. QED
    BY <2>1, <2>2 DEF Patch
<1>3. patch' \in [Requests -> Patch]
  <2>1. patch' = [q \in Requests |-> patch'[q]]
    BY DEF Send
  <2>2. ASSUME NEW q \in Requests
        PROVE  patch'[q] \in Patch
    BY <1>1, <1>2
  <2>3. QED
    BY <2>1, <2>2
<1>4. \A q \in Requests : patch'[q].at # "free" <=> q = r \/ patch[q].at # "free"
  BY <1>1, <1>2
<1>5. UnderWay' = UnderWay \cup {r}
  BY <1>4 DEF UnderWay
<1>6. sure' => sure /\ UnderWay = {}
  BY DEF Send, EditorTypeOK
<1>7. QED
  BY <1>1, <1>2, <1>3, <1>5, <1>6 DEF UnderWay

LEMMA SendSteps ==
    ASSUME EditorInv, edits' \in 0..MaxEdits, NEW r \in Requests,
           Autosave(r) \/ \E n \in Names : Rename(r, n)
    PROVE  EditorInv'
<1> USE DEF EditorInv
<1>1. PICK what \in {"files", "name"}, value \in Projects \cup Names :
         /\ Send(r, what, value)
         /\ value \in IF what = "files" THEN Projects ELSE Names
         /\ pending' = IF what = "files" THEN r ELSE pending
  BY DEF Autosave, Rename, ShellOK
<1>9. /\ patch' \in [Requests -> Patch]
      /\ patch'[r].at = "sent" /\ patch'[r].what = what /\ patch'[r].value = value
      /\ patch'[r].heard /\ (patch'[r].alone <=> UnderWay = {})
      /\ \A q \in Requests \ {r} :
            /\ ~patch'[q].alone \/ q \notin UnderWay
            /\ patch'[q].at = patch[q].at /\ patch'[q].what = patch[q].what
            /\ patch'[q].value = patch[q].value /\ patch'[q].entity = patch[q].entity
            /\ patch'[q].diff = patch[q].diff /\ patch'[q].heard = patch[q].heard
      /\ UnderWay' = UnderWay \cup {r}
      /\ sure' => sure /\ UnderWay = {}
  BY <1>1, SendPatch
<1>2. /\ UNCHANGED <<row, page, got, cache, deleting, files, saved, failed, name>>
      /\ pending' \in {pending, r} /\ renaming' \in {renaming, r}
      /\ page = "editor"
  BY DEF Autosave, Rename
<1>3. EditorTypeOK'
  <2>1. sure' \in BOOLEAN
    BY <1>1 DEF Send
  <2>2. patch' \in [Requests -> Patch]
    BY <1>9
  <2>3. QED
    BY <1>2, <2>1, <2>2 DEF EditorTypeOK
<1>4. ShellOK'
  <2>1. CASE pending' = r /\ what = "files"
    BY <1>2, <1>9, <2>1 DEF ShellOK
  <2>2. CASE pending' = pending
    <3>1. r \notin UnderWay /\ UnderWay \subseteq Requests
      BY <1>1 DEF Send, UnderWay
    <3>2. pending # None => pending \in Requests \ {r}
      BY <3>1 DEF ShellOK
    <3>3. QED
      BY <1>2, <1>9, <2>2, <3>2, EditorAssumption DEF ShellOK
  <2>3. QED
    BY <1>1, <2>1, <2>2
<1>5. \A q \in Requests : PatchOK(q)'
  BY <1>1, <1>9 DEF PatchOK
<1>6. \A q \in Requests : AloneOK(q)'
  BY <1>9 DEF AloneOK, UnderWay
<1>7. SureOK'
  <2>1. SUFFICES ASSUME sure'
                 PROVE  SureOK'
    BY DEF SureOK
  <2>2. sure /\ UnderWay' = {r}
    BY <1>9, <2>1
  <2>3. /\ patch'[r].alone /\ patch'[r].at = "sent" /\ patch'[r].heard
        /\ patch'[r].what = what
    BY <1>9, <2>1
  <2>4. row # None => Shows(row.files)
    BY <1>9, <2>1 DEF SureOK
  <2>5. got = None
    BY <1>2 DEF ShellOK
  <2>6. QED
    BY <1>1, <1>2, <2>2, <2>3, <2>4, <2>5 DEF SureOK, Shows
<1>8. QED
  BY <1>3, <1>4, <1>5, <1>6, <1>7

LEMMA FindSteps ==
    ASSUME EditorInv, UNCHANGED edits, NEW r \in Requests,
           FindOwned(r) \/ LoadForSave(r)
    PROVE  EditorInv'
<1> USE DEF EditorInv
<1> DEFINE p == patch[r]
           q == patch'[r]
<1>1. patch \in [Requests -> Patch] /\ p \in Patch /\ row \in Row \cup {None}
  BY DEF EditorTypeOK
<1>2. /\ q \in Patch
      /\ q.what = p.what /\ q.value = p.value /\ q.heard = p.heard /\ q.alone = p.alone
      /\ p.at # "free" /\ q.at \in {"found", "loaded", "refused"}
      /\ p.at \in {"sent", "found"}
      /\ q.at = "found" =>
            /\ row # None /\ q.entity \in Row /\ q.entity[q.what] = q.value
            /\ q.what = "name" => q.entity.files = row.files
      /\ q.at = "loaded" =>
            /\ p.at = "found" /\ q.entity = p.entity
            /\ row = None => q.diff = {"row"}
            /\ row # None => q.diff = {c \in {"files", "name"} : row[c] # q.entity[c]}
  <2>1. CASE FindOwned(r) /\ row = None
    <3>1. p.at = "sent" /\ q = [p EXCEPT !.at = "refused"]
      BY <1>1, <2>1 DEF FindOwned
    <3>2. QED
      BY <1>1, <3>1 DEF Patch
  <2>2. CASE FindOwned(r) /\ row # None
    <3> DEFINE e == [row EXCEPT ![p.what] = p.value]
    <3>1. p.at = "sent" /\ q = [p EXCEPT !.at = "found", !.entity = e]
      BY <1>1, <2>2 DEF FindOwned
    <3>2. /\ e \in Row /\ e[p.what] = p.value
          /\ p.what = "name" => e.files = row.files
      <4>1. p.value \in IF p.what = "files" THEN Projects ELSE Names
        BY <3>1 DEF PatchOK
      <4>2. row \in Row /\ p.what \in {"files", "name"}
        BY <1>1, <2>2 DEF Patch
      <4>3. QED
        BY <4>1, <4>2, RowWith
    <3> HIDE DEF e
    <3>3. QED
      BY <1>1, <2>2, <3>1, <3>2 DEF Patch
  <2>3. CASE LoadForSave(r)
    <3> DEFINE d == IF row = None THEN {"row"}
                    ELSE {c \in {"files", "name"} : row[c] # p.entity[c]}
    <3>1. p.at = "found" /\ q = [p EXCEPT !.at = "loaded", !.diff = d]
      BY <1>1, <2>3 DEF LoadForSave
    <3>2. d \in SUBSET {"files", "name", "row"}
      OBVIOUS
    <3>3. \/ row = None /\ d = {"row"}
          \/ row # None /\ d = {c \in {"files", "name"} : row[c] # p.entity[c]}
      OBVIOUS
    <3> HIDE DEF d
    <3>4. q \in Patch /\ q.at = "loaded" /\ q.diff = d /\ q.what = p.what
          /\ q.value = p.value /\ q.heard = p.heard /\ q.alone = p.alone
          /\ q.entity = p.entity
      BY <1>1, <3>1, <3>2 DEF Patch
    <3>5. QED
      BY <1>1, <2>3, <3>1, <3>3, <3>4
  <2>4. QED
    BY <2>1, <2>2, <2>3
<1>3. /\ UNCHANGED <<row, page, got, cache, deleting, files, saved, failed, pending,
                     name, renaming, sure>>
      /\ \A s \in Requests \ {r} : patch'[s] = patch[s]
      /\ patch' \in [Requests -> Patch]
  <2>1. patch' = [patch EXCEPT ![r] = q]
    BY <1>1 DEF FindOwned, LoadForSave
  <2>2. QED
    BY <1>1, <1>2, <2>1 DEF FindOwned, LoadForSave, shell
<1>4. UnderWay' = UnderWay /\ r \in UnderWay
  BY <1>2, <1>3 DEF UnderWay
<1> HIDE DEF p, q
<1>5. EditorTypeOK' /\ ShellOK'
  BY <1>2, <1>3, <1>4 DEF EditorTypeOK, ShellOK, p, q
<1>6. ASSUME NEW s \in Requests
      PROVE  PatchOK(s)'
  BY <1>2, <1>3 DEF PatchOK, p, q
<1>7. ASSUME NEW s \in Requests
      PROVE  AloneOK(s)'
  BY <1>2, <1>3, <1>4 DEF AloneOK, p, q
<1>8. SureOK'
  <2>1. SUFFICES ASSUME sure
                 PROVE  SureOK'
    BY <1>3 DEF SureOK
  <2>2. \A s \in UnderWay : s = r
    BY <1>4, <2>1 DEF SureOK, AloneOK, UnderWay
  <2>3. row # None => Shows(row.files) \/ patch[r].what = "files"
    BY <1>2, <2>1, <2>2 DEF SureOK, p
  <2>4. QED
    BY <1>2, <1>3, <1>4, <2>1, <2>2, <2>3 DEF SureOK, Shows, p, q
<1>9. QED
  BY <1>5, <1>6, <1>7, <1>8

LEMMA SaveSteps ==
    ASSUME EditorInv, UNCHANGED edits, NEW r \in Requests, SaveRow(r)
    PROVE  EditorInv'
<1> USE DEF EditorInv
<1> DEFINE p == patch[r]
           q == patch'[r]
<1>1. patch \in [Requests -> Patch] /\ p \in Patch /\ row \in Row \cup {None}
  BY DEF EditorTypeOK
<1>2. /\ q \in Patch /\ p.at = "loaded" /\ q.at = "written"
      /\ q.what = p.what /\ q.value = p.value /\ q.heard = p.heard /\ q.alone = p.alone
  <2>1. p.at = "loaded" /\ q = [p EXCEPT !.at = "written"]
    BY <1>1 DEF SaveRow
  <2>2. QED
    BY <1>1, <2>1 DEF Patch
<1>3. /\ UNCHANGED <<page, got, cache, deleting, files, saved, failed, pending,
                     name, renaming, sure>>
      /\ \A s \in Requests \ {r} : patch'[s] = patch[s]
      /\ patch' \in [Requests -> Patch]
  <2>1. patch' = [patch EXCEPT ![r] = q]
    BY <1>1 DEF SaveRow
  <2>2. QED
    BY <1>1, <1>2, <2>1 DEF SaveRow, shell
<1>4. UnderWay' = UnderWay /\ r \in UnderWay
  BY <1>2, <1>3 DEF UnderWay
<1>5. p.entity \in Row /\ p.entity[p.what] = p.value
  BY <1>2 DEF PatchOK
<1>6. \/ "row" \in p.diff /\ row' = p.entity
      \/ "row" \notin p.diff /\ row = None /\ row' = None
      \/ /\ "row" \notin p.diff /\ row # None /\ row' \in Row
         /\ row'.files = IF "files" \in p.diff THEN p.entity.files ELSE row.files
  <2>1. CASE "row" \in p.diff \/ row = None
    BY <2>1 DEF SaveRow
  <2>2. CASE "row" \notin p.diff /\ row # None
    <3>1. row' = [c \in {"files", "name"} |-> IF c \in p.diff THEN p.entity[c] ELSE row[c]]
      BY <2>2 DEF SaveRow
    <3>2. QED
      BY <1>1, <1>5, <2>2, <3>1, RowMix
  <2>3. QED
    BY <2>1, <2>2
<1> HIDE DEF p, q
<1>7. EditorTypeOK' /\ ShellOK'
  BY <1>2, <1>3, <1>4, <1>5, <1>6 DEF EditorTypeOK, ShellOK, p, q
<1>8. ASSUME NEW s \in Requests
      PROVE  PatchOK(s)'
  BY <1>2, <1>3 DEF PatchOK, p, q
<1>9. ASSUME NEW s \in Requests
      PROVE  AloneOK(s)'
  <2>1. CASE s # r
    BY <1>3, <1>4, <2>1 DEF AloneOK
  <2>2. CASE s = r
    <3>1. SUFFICES ASSUME q.alone
                   PROVE  AloneOK(r)'
      BY <2>2 DEF AloneOK, q
    <3>2. /\ \A u \in UnderWay : u = r
          /\ row # None => "row" \notin p.diff
          /\ row # None /\ "files" \notin p.diff => row.files = p.entity.files
      BY <1>2, <1>4, <3>1 DEF AloneOK, p
    <3>3. row' # None => row'.files = p.entity.files
      BY <1>6, <3>2
    <3>4. QED
      BY <1>2, <1>4, <1>5, <3>2, <3>3 DEF AloneOK, q
  <2>3. QED
    BY <2>1, <2>2
<1>10. SureOK'
  <2>1. SUFFICES ASSUME sure
                 PROVE  SureOK'
    BY <1>3 DEF SureOK
  <2>2. \A s \in UnderWay : s = r
    BY <1>4, <2>1 DEF SureOK, AloneOK, UnderWay
  <2>3. p.alone
    BY <1>4, <2>1 DEF SureOK, p
  <2>4. CASE p.what = "files"
    BY <1>2, <1>3, <1>4, <2>1, <2>2, <2>4 DEF SureOK, p, q
  <2>5. CASE p.what # "files"
    <3>1. p.what = "name"
      BY <1>1, <2>5 DEF Patch
    <3>2. Shows(p.entity.files)
      BY <1>2, <1>4, <2>1, <3>1 DEF SureOK, p
    <3>3. row' # None => row'.files = p.entity.files
      BY <1>2, <1>4, <1>6, <2>3, <3>1 DEF AloneOK, p
    <3>4. row' # None => /\ page' = "editor" => saved' = row'.files
                         /\ got' # None => got'.files = row'.files
                         /\ cache' # None => cache'.files = row'.files
      BY <1>3, <3>2, <3>3 DEF Shows
    <3>5. /\ \A s \in UnderWay' : s = r
          /\ q.alone /\ q.what = "name" /\ q.at = "written"
      BY <1>2, <1>4, <2>2, <2>3, <3>1
    <3>6. QED
      BY <3>4, <3>5 DEF SureOK, Shows, q
  <2>6. QED
    BY <2>4, <2>5
<1>11. QED
  BY <1>7, <1>8, <1>9, <1>10

LEMMA UpdateFailsStep ==
    ASSUME EditorInv, edits' \in 0..MaxEdits, NEW r \in Requests, UpdateFails(r)
    PROVE  EditorInv'
<1> USE DEF EditorInv
<1> DEFINE p == patch[r]
           q == patch'[r]
<1>1. patch \in [Requests -> Patch] /\ p \in Patch
  BY DEF EditorTypeOK
<1>2. /\ q \in Patch /\ p.at \in {"sent", "found", "loaded"} /\ q.at = "refused"
      /\ q.what = p.what /\ q.value = p.value /\ q.heard = p.heard /\ q.alone = p.alone
  <2>1. p.at \in {"sent", "found", "loaded"} /\ q = [p EXCEPT !.at = "refused"]
    BY <1>1 DEF UpdateFails
  <2>2. QED
    BY <1>1, <2>1 DEF Patch
<1>3. /\ UNCHANGED <<row, page, got, cache, deleting, files, saved, failed, pending,
                     name, renaming, sure>>
      /\ \A s \in Requests \ {r} : patch'[s] = patch[s]
      /\ patch' \in [Requests -> Patch]
  <2>1. patch' = [patch EXCEPT ![r] = q]
    BY <1>1 DEF UpdateFails
  <2>2. QED
    BY <1>1, <1>2, <2>1 DEF UpdateFails, shell
<1>4. UnderWay' = UnderWay /\ r \in UnderWay
  BY <1>2, <1>3 DEF UnderWay
<1> HIDE DEF p, q
<1>5. EditorTypeOK' /\ ShellOK'
  BY <1>2, <1>3, <1>4 DEF EditorTypeOK, ShellOK, p, q
<1>6. \A s \in Requests : PatchOK(s)' /\ AloneOK(s)'
  BY <1>2, <1>3, <1>4 DEF PatchOK, AloneOK, p, q
<1>7. SureOK'
  <2>1. SUFFICES ASSUME sure
                 PROVE  SureOK'
    BY <1>3 DEF SureOK
  <2>2. \A s \in UnderWay : /\ patch'[s].alone /\ patch[s].alone
                            /\ patch'[s].what = patch[s].what
                            /\ patch'[s].heard = patch[s].heard
                            /\ patch'[s].at \in {"found", "loaded", "written"} =>
                                  patch'[s] = patch[s]
                            /\ patch[s].at = "written" => patch'[s] = patch[s]
    BY <1>2, <1>3, <1>4, <2>1 DEF SureOK, UnderWay, p, q
  <2>3. ASSUME row # None, \A s \in UnderWay : patch'[s].at = "written" =>
                                                  patch'[s].what = "name"
        PROVE  Shows(row.files)
    BY <2>1, <2>2, <2>3 DEF SureOK
  <2>4. ASSUME NEW s \in UnderWay, patch'[s].what = "name",
               patch'[s].at \in {"found", "loaded"}
        PROVE  patch'[s] = patch[s] /\ Shows(patch[s].entity.files)
    BY <2>1, <2>2, <2>4 DEF SureOK
  <2>5. ASSUME NEW s \in UnderWay, patch'[s].what = "files"
        PROVE  /\ got = None
               /\ page = "editor" => pending = s
               /\ ~patch'[s].heard => page # "editor" /\ cache = None
    BY <2>1, <2>2, <2>5 DEF SureOK
  <2>6. QED
    BY <1>3, <1>4, <2>2, <2>3, <2>4, <2>5 DEF SureOK, Shows
<1>8. QED
  BY <1>5, <1>6, <1>7

\* A PATCH that is over leaves the others as they were, and is nobody's save
\* once the editor no longer awaits it.
LEMMA FreeSlot ==
    ASSUME EditorInv, NEW r \in Requests, patch' = [patch EXCEPT ![r] = Free],
           UNCHANGED row
    PROVE  /\ patch' \in [Requests -> Patch]
           /\ UnderWay' = UnderWay \ {r}
           /\ \A s \in Requests \ {r} : patch'[s] = patch[s]
           /\ \A s \in Requests : PatchOK(s)' /\ AloneOK(s)'
<1> USE DEF EditorInv
<1>1. Free \in Patch
  BY DEF Free, Patch
<1>2. patch' \in [Requests -> Patch] /\ patch'[r] = Free
      /\ \A s \in Requests \ {r} : patch'[s] = patch[s]
  BY <1>1 DEF EditorTypeOK
<1>3. patch'[r].at = "free"
  BY <1>2 DEF Free
<1>4. UnderWay' = UnderWay \ {r}
  BY <1>2, <1>3 DEF UnderWay
<1>5. ASSUME NEW s \in Requests
      PROVE  PatchOK(s)' /\ AloneOK(s)'
  <2>1. CASE s = r
    BY <1>3, <1>4, <2>1 DEF PatchOK, AloneOK
  <2>2. CASE s # r
    BY <1>2, <1>4, <2>2 DEF PatchOK, AloneOK
  <2>3. QED
    BY <2>1, <2>2
<1>6. QED
  BY <1>2, <1>4, <1>5

LEMMA OnlyOne ==
    ASSUME EditorInv, NEW r \in UnderWay, sure
    PROVE  UnderWay = {r} /\ patch[r].alone
BY DEF EditorInv, SureOK, AloneOK, UnderWay

LEMMA UnheardStep ==
    ASSUME EditorInv, UNCHANGED edits, NEW r \in Requests, Unheard(r)
    PROVE  EditorInv'
<1> USE DEF EditorInv
<1>1. /\ patch' = [patch EXCEPT ![r] = Free]
      /\ UNCHANGED <<row, page, got, cache, deleting, files, saved, failed, pending,
                     name, renaming, sure>>
      /\ patch[r].at \in {"written", "refused"} /\ ~patch[r].heard
  BY DEF Unheard, shell
<1>2. /\ patch' \in [Requests -> Patch]
      /\ UnderWay' = UnderWay \ {r}
      /\ \A s \in Requests \ {r} : patch'[s] = patch[s]
      /\ \A s \in Requests : PatchOK(s)' /\ AloneOK(s)'
  BY <1>1, FreeSlot
<1>3. EditorTypeOK'
  BY <1>1, <1>2 DEF EditorTypeOK
<1>4. ShellOK'
  <2>1. pending # r
    BY <1>1, EditorAssumption DEF ShellOK
  <2>2. pending # None => pending \in Requests \ {r}
    BY <2>1 DEF EditorTypeOK
  <2>3. QED
    BY <1>1, <1>2, <2>2 DEF ShellOK
<1>5. SureOK'
  <2>1. SUFFICES ASSUME sure
                 PROVE  SureOK'
    BY <1>1 DEF SureOK
  <2>2. r \in UnderWay
    BY <1>1 DEF UnderWay
  <2>3. UnderWay' = {} /\ UnderWay = {r}
    BY <1>2, <2>1, <2>2, OnlyOne
  <2>4. row # None => Shows(row.files)
    <3>1. CASE patch[r].at = "written" /\ patch[r].what = "files"
      BY <1>1, <2>1, <2>2, <3>1 DEF SureOK, Shows
    <3>2. CASE ~(patch[r].at = "written" /\ patch[r].what = "files")
      <4>1. patch[r].what \in {"files", "name"}
        BY DEF EditorTypeOK, Patch
      <4>2. \A s \in UnderWay : patch[s].at = "written" => patch[s].what = "name"
        BY <2>3, <3>2, <4>1
      <4>3. QED
        BY <2>1, <4>2 DEF SureOK
    <3>3. QED
      BY <3>1, <3>2
  <2>5. QED
    BY <1>1, <2>3, <2>4 DEF SureOK, Shows
<1>6. QED
  BY <1>2, <1>3, <1>4, <1>5

LEMMA FilesSavedStep ==
    ASSUME EditorInv, UNCHANGED edits, NEW r \in Requests, FilesSaved(r)
    PROVE  EditorInv'
<1> USE DEF EditorInv
<1>1. /\ patch' = [patch EXCEPT ![r] = Free]
      /\ UNCHANGED <<row, page, got, deleting, files, name, renaming>>
      /\ patch[r].at = "written" /\ patch[r].heard /\ patch[r].what = "files"
      /\ \/ pending = r /\ saved' = patch[r].value /\ failed' = None /\ pending' = None
         \/ pending # r /\ UNCHANGED <<saved, failed, pending>>
      /\ sure' = (sure \/ (pending = r /\ patch[r].alone))
  BY DEF FilesSaved, Heard
<1>2. /\ patch' \in [Requests -> Patch]
      /\ UnderWay' = UnderWay \ {r}
      /\ \A s \in Requests \ {r} : patch'[s] = patch[s]
      /\ \A s \in Requests : PatchOK(s)' /\ AloneOK(s)'
  BY <1>1, FreeSlot
<1>3. r \in UnderWay /\ patch[r].value \in Projects
  BY <1>1 DEF UnderWay, PatchOK
<1>4. \/ cache = None /\ cache' = None
      \/ cache' \in Row /\ cache'.files = patch[r].value
  <2>1. CASE cache = None
    BY <2>1 DEF FilesSaved
  <2>2. CASE cache # None
    <3>1. cache \in Row /\ cache' = [cache EXCEPT !["files"] = patch[r].value]
      BY <2>2 DEF FilesSaved, EditorTypeOK
    <3>2. QED
      BY <1>3, <3>1, RowWith
  <2>3. QED
    BY <2>1, <2>2
<1>5. EditorTypeOK'
  <2>1. sure' \in BOOLEAN
    BY <1>1, <1>3 DEF EditorTypeOK
  <2>2. QED
    BY <1>1, <1>2, <1>3, <1>4, <2>1 DEF EditorTypeOK
<1>6. ShellOK'
  <2>1. pending' # None => pending' = pending /\ pending \in Requests \ {r}
    BY <1>1 DEF EditorTypeOK
  <2>2. page = "editor" => saved' \in Projects
    BY <1>1, <1>3 DEF ShellOK
  <2>3. QED
    BY <1>1, <1>2, <2>1, <2>2 DEF ShellOK
<1>7. SureOK'
  <2>1. SUFFICES ASSUME sure'
                 PROVE  SureOK'
    BY DEF SureOK
  <2>2. UnderWay = {r} /\ patch[r].alone
    <3>1. CASE sure
      BY <1>3, <3>1, OnlyOne
    <3>2. CASE ~sure
      BY <1>1, <1>3, <2>1, <3>2 DEF AloneOK
    <3>3. QED
      BY <3>1, <3>2
  <2>3. row # None => row.files = patch[r].value
    BY <1>1, <1>3, <2>2 DEF AloneOK
  <2>4. got = None /\ (page = "editor" => pending = r)
    <3>1. CASE sure
      BY <1>1, <1>3, <3>1 DEF SureOK
    <3>2. CASE ~sure
      BY <1>1, <2>1, <3>2, EditorAssumption DEF ShellOK
    <3>3. QED
      BY <3>1, <3>2
  <2>5. UnderWay' = {}
    BY <1>2, <2>2
  <2>6. page = "editor" => saved' = patch[r].value
    BY <1>1, <2>4
  <2>7. QED
    BY <1>1, <1>4, <2>3, <2>4, <2>5, <2>6 DEF SureOK, Shows
<1>8. QED
  BY <1>2, <1>5, <1>6, <1>7

LEMMA RenamedStep ==
    ASSUME EditorInv, UNCHANGED edits, NEW r \in Requests, Renamed(r)
    PROVE  EditorInv'
<1> USE DEF EditorInv
<1>1. /\ patch' = [patch EXCEPT ![r] = Free]
      /\ UNCHANGED <<row, page, got, deleting, files, saved, failed, pending, sure>>
      /\ patch[r].at = "written" /\ patch[r].what = "name"
      /\ \/ name' = patch[r].value /\ renaming' = None
         \/ UNCHANGED <<name, renaming>>
  BY DEF Renamed, Heard
<1>2. /\ patch' \in [Requests -> Patch]
      /\ UnderWay' = UnderWay \ {r}
      /\ \A s \in Requests \ {r} : patch'[s] = patch[s]
      /\ \A s \in Requests : PatchOK(s)' /\ AloneOK(s)'
  BY <1>1, FreeSlot
<1>3. r \in UnderWay /\ patch[r].value \in Names
  BY <1>1 DEF UnderWay, PatchOK
<1>4. \/ cache = None /\ cache' = None
      \/ cache # None /\ cache' \in Row /\ cache'.files = cache.files
  <2>1. CASE cache = None
    BY <2>1 DEF Renamed
  <2>2. CASE cache # None
    <3>1. cache \in Row /\ cache' = [cache EXCEPT !["name"] = patch[r].value]
      BY <2>2 DEF Renamed, EditorTypeOK
    <3>2. QED
      BY <1>3, <2>2, <3>1, RowWith
  <2>3. QED
    BY <2>1, <2>2
<1>5. EditorTypeOK'
  BY <1>1, <1>2, <1>3, <1>4 DEF EditorTypeOK
<1>6. ShellOK'
  <2>1. pending # None => pending \in Requests \ {r}
    BY <1>1 DEF EditorTypeOK, ShellOK
  <2>2. QED
    BY <1>1, <1>2, <1>3, <2>1 DEF ShellOK
<1>7. SureOK'
  <2>1. SUFFICES ASSUME sure
                 PROVE  SureOK'
    BY <1>1 DEF SureOK
  <2>2. UnderWay = {r} /\ UnderWay' = {}
    BY <1>2, <1>3, <2>1, OnlyOne
  <2>3. row # None => Shows(row.files)
    BY <1>1, <2>1, <2>2 DEF SureOK
  <2>4. QED
    BY <1>1, <1>4, <2>2, <2>3 DEF SureOK, Shows
<1>8. QED
  BY <1>2, <1>5, <1>6, <1>7

\* What onError leaves, once the save or rename it was for is no longer awaited.
LEMMA FailedShell ==
    ASSUME EditorInv, NEW r \in UnderWay, RequestFailed(r)
    PROVE  /\ UNCHANGED <<row, page, got, cache, deleting, files, saved, name>>
           /\ failed' \in Projects \cup {None}
           /\ renaming' \in Requests \cup {None}
           /\ pending' = IF pending = r THEN None ELSE pending
<1> USE DEF EditorInv
<1>1. r \in Requests
  BY DEF UnderWay
<1>2. CASE pending = r
  <2>1. patch[r].what = "files" /\ patch[r].at # "free"
    BY <1>1, <1>2, EditorAssumption DEF ShellOK, UnderWay
  <2>2. patch[r].value \in Projects
    BY <1>1, <2>1 DEF PatchOK
  <2>3. QED
    BY <1>2, <2>2 DEF RequestFailed, EditorTypeOK
<1>3. CASE pending # r
  BY <1>3 DEF RequestFailed, EditorTypeOK
<1>4. QED
  BY <1>2, <1>3

LEMMA RefusedStep ==
    ASSUME EditorInv, UNCHANGED edits, NEW r \in Requests, Refused(r)
    PROVE  EditorInv'
<1> USE DEF EditorInv
<1>1. /\ patch' = [patch EXCEPT ![r] = Free] /\ RequestFailed(r) /\ UNCHANGED sure
      /\ patch[r].at = "refused"
  BY DEF Refused, Heard
<1>2. r \in UnderWay
  BY <1>1 DEF UnderWay
<1>3. /\ UNCHANGED <<row, page, got, cache, deleting, files, saved, name>>
      /\ failed' \in Projects \cup {None}
      /\ renaming' \in Requests \cup {None}
      /\ pending' = IF pending = r THEN None ELSE pending
  BY <1>1, <1>2, FailedShell
<1>4. /\ patch' \in [Requests -> Patch]
      /\ UnderWay' = UnderWay \ {r}
      /\ \A s \in Requests \ {r} : patch'[s] = patch[s]
      /\ \A s \in Requests : PatchOK(s)' /\ AloneOK(s)'
  BY <1>1, <1>3, FreeSlot
<1>5. EditorTypeOK'
  BY <1>1, <1>3, <1>4 DEF EditorTypeOK
<1>6. ShellOK'
  <2>1. pending' # None => pending' = pending /\ pending \in Requests \ {r}
    BY <1>3 DEF EditorTypeOK
  <2>2. QED
    BY <1>3, <1>4, <2>1 DEF ShellOK
<1>7. SureOK'
  <2>1. SUFFICES ASSUME sure
                 PROVE  SureOK'
    BY <1>1 DEF SureOK
  <2>2. UnderWay = {r} /\ UnderWay' = {}
    BY <1>2, <1>4, <2>1, OnlyOne
  <2>3. row # None => Shows(row.files)
    BY <1>1, <2>1, <2>2 DEF SureOK
  <2>4. QED
    BY <1>3, <2>2, <2>3 DEF SureOK, Shows
<1>8. QED
  BY <1>4, <1>5, <1>6, <1>7

LEMMA AnswerLostStep ==
    ASSUME EditorInv, edits' \in 0..MaxEdits, NEW r \in Requests, AnswerLost(r)
    PROVE  EditorInv'
<1> USE DEF EditorInv
<1>1. r \in UnderWay /\ RequestFailed(r) /\ ~sure'
  BY DEF AnswerLost, UnderWay
<1>2. /\ UNCHANGED <<row, page, got, cache, deleting, files, saved, name>>
      /\ failed' \in Projects \cup {None}
      /\ renaming' \in Requests \cup {None}
      /\ pending' = IF pending = r THEN None ELSE pending
  BY <1>1, FailedShell
<1>3. /\ patch' \in [Requests -> Patch]
      /\ UnderWay \ {r} \subseteq UnderWay'
      /\ \A s \in Requests \ {r} : patch'[s] = patch[s]
      /\ \A s \in Requests : PatchOK(s)' /\ AloneOK(s)'
  <2>1. CASE patch' = [patch EXCEPT ![r] = Free]
    BY <1>2, <2>1, FreeSlot
  <2>2. CASE patch' = [patch EXCEPT ![r].heard = FALSE]
    <3>1. patch[r] \in Patch /\ patch'[r] = [patch[r] EXCEPT !.heard = FALSE]
      BY <2>2 DEF EditorTypeOK
    <3>2. /\ patch'[r] \in Patch
          /\ patch'[r].at = patch[r].at /\ patch'[r].what = patch[r].what
          /\ patch'[r].value = patch[r].value /\ patch'[r].entity = patch[r].entity
          /\ patch'[r].diff = patch[r].diff /\ patch'[r].alone = patch[r].alone
      BY <3>1 DEF Patch
    <3>3. patch' = [patch EXCEPT ![r] = patch'[r]]
      BY <2>2, <3>1 DEF EditorTypeOK
    <3>4. /\ patch' \in [Requests -> Patch]
          /\ \A s \in Requests \ {r} : patch'[s] = patch[s]
      BY <3>2, <3>3 DEF EditorTypeOK
    <3>5. UnderWay' = UnderWay
      BY <3>2, <3>4 DEF UnderWay
    <3>6. \A s \in Requests : PatchOK(s)'
      BY <3>2, <3>4 DEF PatchOK
    <3>7. \A s \in Requests : AloneOK(s)'
      BY <1>2, <3>2, <3>4, <3>5 DEF AloneOK
    <3>8. QED
      BY <3>4, <3>5, <3>6, <3>7
  <2>3. QED
    BY <2>1, <2>2 DEF AnswerLost
<1>4. EditorTypeOK'
  BY <1>1, <1>2, <1>3 DEF EditorTypeOK, AnswerLost
<1>5. ShellOK'
  <2>1. pending' # None => pending' = pending /\ pending \in Requests \ {r}
    BY <1>2 DEF EditorTypeOK
  <2>2. QED
    BY <1>2, <1>3, <2>1 DEF ShellOK
<1>6. SureOK'
  BY <1>1 DEF SureOK
<1>7. QED
  BY <1>3, <1>4, <1>5, <1>6

LEMMA EditorStep == EditorInv /\ [EditorNext]_editorVars => EditorInv'
<1> SUFFICES ASSUME EditorInv, [EditorNext]_editorVars
             PROVE  EditorInv'
  OBVIOUS
<1>1. CASE EditorOutside
  <2>1. edits' \in 0..MaxEdits
    BY <1>1, EditorAssumption DEF EditorOutside, EditorInv, EditorTypeOK
  <2>2. CASE PersonActs
    BY <2>1, <2>2, TypingSteps, SendSteps, LeavingSteps DEF PersonActs
  <2>3. CASE ThingsFail
    BY <2>1, <2>3, UpdateFailsStep, AnswerLostStep, LeavingSteps DEF ThingsFail
  <2>4. QED
    BY <1>1, <2>2, <2>3 DEF EditorOutside
<1>2. CASE EditorInside
  <2>1. UNCHANGED edits /\ edits' \in 0..MaxEdits
    BY <1>2 DEF EditorInside, EditorInv, EditorTypeOK
  <2>2. CASE \E r \in Requests : Autosave(r) \/ Handle(r) \/ Answered(r)
    BY <2>1, <2>2, SendSteps, FindSteps, SaveSteps, UnheardStep, FilesSavedStep,
       RenamedStep, RefusedStep DEF Handle, Answered
  <2>3. CASE Open \/ GetSandbox \/ Opened \/ DeleteRow \/ Deleted
    BY <2>1, <2>3, OpeningSteps, LeavingSteps
  <2>4. QED
    BY <1>2, <2>2, <2>3 DEF EditorInside
<1>3. CASE UNCHANGED editorVars
  BY <1>3 DEF editorVars, EditorInv, EditorTypeOK, ShellOK, SureOK, PatchOK, AloneOK,
     UnderWay, Shows
<1>4. QED
  BY <1>1, <1>2, <1>3 DEF EditorNext

\* Whatever is typed, saved, renamed, lost, left and deleted, the variables of
\* the editor and of its requests keep their types.
THEOREM EditorTypeCorrect == EditorSpec => []EditorTypeOK
<1>1. EditorInv => EditorTypeOK
  BY DEF EditorInv
<1>2. QED
  BY <1>1, EditorInvInit, EditorStep, PTL DEF EditorSpec

\* While the header says Saved, the row holds the project on the screen, for
\* any number of requests of one tab, as long as nothing disturbed the save.
THEOREM SavedIsAlwaysStored == EditorSpec => []SavedIsStored
<1>1. EditorInv => SavedIsStored
  <2>1. SUFFICES ASSUME EditorInv, sure, page = "editor", Status = "saved", row # None
                 PROVE  row.files = files
    BY DEF SavedIsStored, SavedMeansStored
  <2>2. pending = None /\ ~Dirty
    BY <2>1 DEF Status
  <2>3. \A r \in UnderWay : patch[r].what = "name"
    <3>1. \A r \in UnderWay : r # None /\ patch[r].what \in {"files", "name"}
      BY <2>1, EditorAssumption DEF EditorInv, EditorTypeOK, UnderWay, Patch
    <3>2. QED
      BY <2>1, <2>2, <3>1 DEF EditorInv, SureOK
  <2>4. Shows(row.files)
    BY <2>1, <2>3 DEF EditorInv, SureOK
  <2>5. QED
    BY <2>1, <2>2, <2>4 DEF Shows, Dirty
<1>2. QED
  BY <1>1, EditorInvInit, EditorStep, PTL DEF EditorSpec
=============================================================================
