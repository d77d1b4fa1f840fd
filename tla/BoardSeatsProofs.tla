--------------------------- MODULE BoardSeatsProofs ---------------------------
(***************************************************************************)
(* Theorems about BoardSeats, for any number of requests, users, codes and *)
(* boards, and any options for seats, attempts and batches.                *)
(***************************************************************************)
EXTENDS BoardSeats, TLAPS, FiniteSetTheorems

-----------------------------------------------------------------------------
(* Counting members.                                                       *)

LEMMA MembersCounted ==
    ASSUME NEW b
    PROVE  IsFiniteSet(MembersOf(b)) /\ Cardinality(MembersOf(b)) \in Nat
<1>1. IsFiniteSet(MembersOf(b))
  BY UsersAssumption, FS_Subset DEF MembersOf
<1>2. QED
  BY <1>1, FS_CardinalityType

LEMMA SeatsType ==
    ASSUME TypeOK, NEW b \in BoardIds
    PROVE  info[b].seats \in Nat
<1>1. info[b] \in Info
  BY DEF TypeOK
<1>2. info[b].seats \in Seats \cup {0}
  BY <1>1 DEF Info
<1>3. \A n \in Seats \cup {0} : n \in Nat
  BY SeatsAssumption
<1>4. QED
  BY <1>2, <1>3

LEMMA OneMore ==
    ASSUME NEW b, NEW u
    PROVE  /\ Cardinality(MembersOf(b) \cup {u}) \in Nat
           /\ Cardinality(MembersOf(b) \cup {u}) <= Cardinality(MembersOf(b)) + 1
BY MembersCounted, FS_AddElement

-----------------------------------------------------------------------------
(* Every step keeps the types.                                             *)

LEMMA AnswerType ==
    ASSUME TypeOK, NEW r \in Requests, NEW a \in Answers, Answer(r, a)
    PROVE  /\ job' \in [Requests -> Job]
           /\ pc' \in [Requests -> {"idle"} \cup Awaits \cup Answers]
BY BoundsAssumption DEF TypeOK, Answer, Work, Job

LEMMA TypeStep ==
    ASSUME TypeOK, JobInv, [Next]_vars
    PROVE  TypeOK'
<1> USE DEF tables, sweepVars
<1>0. {"ok", "full", "refused"} \subseteq Answers
      /\ {"pick", "insert", "find", "lock", "check", "count", "add", "open", "access"} \subseteq Awaits
  BY DEF Answers, Awaits
<1>1. ASSUME NEW r \in Requests, Start(r) PROVE TypeOK'
  <2>1. ASSUME NEW u \in Users, NEW seats \in Seats, StartCreate(r, u, seats) PROVE TypeOK'
    BY <1>0, <2>1, BoundsAssumption DEF StartCreate, Goto, Work, TypeOK, Job
  <2>2. ASSUME NEW u \in Users, NEW code \in Codes, StartJoin(r, u, code) \/ StartOpen(r, u, code)
        PROVE  TypeOK'
    BY <1>0, <2>2, BoundsAssumption DEF StartJoin, StartOpen, Goto, Work, TypeOK, Job
  <2>3. QED
    BY <1>1, <2>1, <2>2 DEF Start
<1>2. ASSUME NEW r \in Requests, NEW code \in Codes, PickCode(r, code) PROVE TypeOK'
  BY <1>0, <1>2, BoundsAssumption DEF PickCode, Goto, TypeOK, Job
<1>3. ASSUME NEW r \in Requests, NoCodeLeft(r) \/ CodeTaken(r) PROVE TypeOK'
  BY <1>0, <1>3, AnswerType DEF NoCodeLeft, CodeTaken, TypeOK
<1>4. ASSUME NEW r \in Requests, NEW b \in BoardIds, InsertBoard(r, b) PROVE TypeOK'
  BY <1>0, <1>4 DEF JobInv, InsertBoard, Goto, TypeOK, Job, Info
<1>5. ASSUME NEW r \in Requests, FindBoard(r) PROVE TypeOK'
  <2>1. CASE Answer(r, "refused")
    BY <1>0, <1>5, <2>1, AnswerType DEF FindBoard, TypeOK
  <2>2. ASSUME NEW b \in WithCode(job[r].code), Goto(r, "lock"),
               job' = [job EXCEPT ![r].board = b]
        PROVE  TypeOK'
    <3>1. b \in BoardIds
      BY DEF WithCode, TypeOK
    <3>2. job' \in [Requests -> Job]
      BY <2>2, <3>1 DEF TypeOK, Job
    <3>3. QED
      BY <1>0, <1>5, <2>2, <3>2 DEF FindBoard, Goto, TypeOK
  <2>3. QED
    BY <1>5, <2>1, <2>2 DEF FindBoard
<1>6. ASSUME NEW r \in Requests, LockBoard(r) \/ CheckMember(r) PROVE TypeOK'
  <2>1. CASE LockBoard(r)
    BY <1>0, <2>1 DEF LockBoard, Goto, TypeOK
  <2>2. CASE CheckMember(r)
    BY <1>0, <2>2 DEF CheckMember, Release, Goto, TypeOK
  <2>3. QED
    BY <1>6, <2>1, <2>2
<1>7. ASSUME NEW r \in Requests, CountSeats(r) PROVE TypeOK'
  BY <1>0, <1>7, AnswerType DEF CountSeats, Release, Goto, TypeOK
<1>8. ASSUME NEW r \in Requests, AddMember(r) PROVE TypeOK'
  <2>1. members' \in SUBSET (BoardIds \X Users)
    BY <1>0, <1>8 DEF AddMember, JobInv, TypeOK
  <2>2. QED
    BY <1>0, <1>8, <2>1, AnswerType DEF AddMember, Release, Goto, TypeOK
<1>9. ASSUME NEW r \in Requests, OpenFinds(r) \/ OpenChecks(r) PROVE TypeOK'
  <2>1. CASE OpenFinds(r)
    BY <1>0, <2>1, AnswerType DEF OpenFinds, WithCode, Goto, TypeOK, Job
  <2>2. CASE OpenChecks(r)
    BY <1>0, <2>2, AnswerType DEF OpenChecks, TypeOK
  <2>3. QED
    BY <1>9, <2>1, <2>2
<1>10. ASSUME NEW r \in Requests, RequestFails(r) PROVE TypeOK'
  BY <1>0, <1>10, AnswerType, BoundsAssumption DEF RequestFails, Release, TypeOK
<1>11. ASSUME NEW b \in BoardIds, Expire(b) PROVE TypeOK'
  BY <1>11 DEF Expire, TypeOK
<1>12. CASE SweepStep
  BY <1>12, BoundsAssumption DEF SweepStep, SweepStarts, SweepFinds, SweepFindsNone,
                                 SweepDeletes, SweepFails, TypeOK
<1>13. CASE UNCHANGED vars
  BY <1>13 DEF vars, TypeOK
<1>14. QED
  BY <1>1, <1>2, <1>3, <1>4, <1>5, <1>6, <1>7, <1>8, <1>9, <1>10, <1>11, <1>12, <1>13
  DEF Next, Continue

-----------------------------------------------------------------------------
(* Requests hold the rows they should.                                     *)

\* What the invariant says of one request.
RequestInv(r) ==
    /\ Seated(r) => /\ job[r].board \in used
                    /\ job[r].board \in boards => lock[job[r].board] = r
    /\ job[r].board \in boards =>
          /\ pc[r] \in {"count", "add"} => job[r].user \notin MembersOf(job[r].board)
          /\ pc[r] = "add" => Cardinality(MembersOf(job[r].board)) < info[job[r].board].seats
    /\ pc[r] \in Awaits => job[r].user \in Users
    /\ pc[r] \in {"pick", "insert"} => job[r].seats \in Seats
    /\ pc[r] = "lock" => job[r].board \in used

\* What it says of one board.
BoardInv(b) ==
    /\ b \in boards => b \in used /\ info[b].host \in MembersOf(b)
    /\ b \notin boards => MembersOf(b) = {}
    /\ lock[b] # Nobody => Seated(lock[b]) /\ job[lock[b]].board = b
    /\ Cardinality(MembersOf(b)) <= info[b].seats \/ b \notin used

LEMMA ByParts ==
    TypeOK => (IInv <=> /\ \A r \in Requests : RequestInv(r)
                        /\ \A b \in BoardIds : BoardInv(b))
BY DEF IInv, TypeOK, LocksAreLetGo, HeldInv, CountInv, JobInv, SeatsKept, HostsAreSeated,
       RequestInv, BoardInv, Seated

LEMMA ByPartsLater ==
    TypeOK' => (IInv' <=> /\ \A r \in Requests : RequestInv(r)'
                          /\ \A b \in BoardIds : BoardInv(b)')
BY DEF IInv, TypeOK, LocksAreLetGo, HeldInv, CountInv, JobInv, SeatsKept, HostsAreSeated,
       RequestInv, BoardInv, Seated

RequestsInv == \A r \in Requests : RequestInv(r)
BoardsInv == \A b \in BoardIds : BoardInv(b)

\* A step of one request that writes no table concerns its own part only.
LEMMA ReadingStep ==
    ASSUME TypeOK, RequestsInv, BoardsInv, NEW r \in Requests, UNCHANGED tables,
           RequestInv(r)',
           \A s \in Requests \ {r} : pc'[s] = pc[s] /\ job'[s] = job[s],
           \A b \in BoardIds :
              \/ lock'[b] = lock[b] /\ lock[b] # r
              \/ lock'[b] = Nobody /\ lock[b] = r
              \/ lock[b] \in {Nobody, r} /\ lock'[b] = r /\ Seated(r)' /\ job'[r].board = b
    PROVE  RequestsInv' /\ BoardsInv'
<1>1. ASSUME NEW s \in Requests, s # r PROVE RequestInv(s)'
  <2>1. RequestInv(s) /\ job[s].board \in BoardIds \cup {NoBoard} /\ boards \subseteq BoardIds
        /\ s # Nobody
    BY NamesAssumption DEF RequestsInv, TypeOK, Job
  <2>2. Seated(s)' = Seated(s) /\ MembersOf(job[s].board)' = MembersOf(job[s].board)
    BY <1>1 DEF Seated, MembersOf, tables
  <2>3. Seated(s) /\ job[s].board \in boards => lock'[job[s].board] = s
    BY <1>1, <2>1 DEF RequestInv
  <2>4. QED
    BY <1>1, <2>1, <2>2, <2>3 DEF RequestInv, tables
<1>2. ASSUME NEW b \in BoardIds PROVE BoardInv(b)'
  <2>1. BoardInv(b) /\ lock[b] \in Requests \cup {Nobody}
    BY DEF BoardsInv, TypeOK
  <2>2. MembersOf(b)' = MembersOf(b)
    BY DEF MembersOf, tables
  <2>3. lock'[b] # Nobody =>
           pc'[lock'[b]] \in {"check", "count", "add"} /\ job'[lock'[b]].board = b
    <3>1. CASE lock'[b] = lock[b] /\ lock[b] # r
      BY <2>1, <3>1 DEF BoardInv, Seated
    <3>2. CASE lock'[b] = r /\ Seated(r)' /\ job'[r].board = b
      BY <3>2 DEF Seated
    <3>3. QED
      BY <3>1, <3>2
  <2>4. QED
    BY <2>1, <2>2, <2>3 DEF BoardInv, Seated, tables
<1>3. QED
  BY <1>1, <1>2 DEF RequestsInv, BoardsInv

\* Whoever is between its lock and its commit keeps it; nobody else has one.
LEMMA OnlyTheSeatedLock ==
    ASSUME TypeOK, BoardsInv, NEW r \in Requests, ~Seated(r)
    PROVE  \A b \in BoardIds : lock[b] # r
BY NamesAssumption DEF BoardsInv, BoardInv

LEMMA ReleaseFrees ==
    ASSUME NEW r \in Requests, Release(r)
    PROVE  \A b \in BoardIds : \/ lock'[b] = lock[b] /\ lock[b] # r
                               \/ lock'[b] = Nobody /\ lock[b] = r
BY DEF Release

LEMMA ReadingSteps ==
    ASSUME TypeOK, RequestsInv, BoardsInv, NEW r \in Requests,
           \/ Start(r) \/ \E code \in Codes : PickCode(r, code)
           \/ NoCodeLeft(r) \/ CodeTaken(r) \/ FindBoard(r) \/ LockBoard(r)
           \/ CheckMember(r) \/ CountSeats(r) \/ OpenFinds(r) \/ OpenChecks(r)
           \/ RequestFails(r)
    PROVE  RequestsInv' /\ BoardsInv'
<1> USE DEF Goto, Seated, Awaits
<1>1. RequestInv(r)
  BY DEF RequestsInv
<1>2. CASE ~Seated(r) /\ lock' = lock /\ UNCHANGED tables /\ RequestInv(r)'
           /\ \A s \in Requests \ {r} : pc'[s] = pc[s] /\ job'[s] = job[s]
  BY <1>2, OnlyTheSeatedLock, ReadingStep
<1>3. CASE Start(r)
  <2>1. ASSUME NEW u \in Users, NEW seats \in Seats, StartCreate(r, u, seats)
        PROVE  /\ ~Seated(r) /\ lock' = lock /\ UNCHANGED tables
               /\ RequestInv(r)'
               /\ \A s \in Requests \ {r} : pc'[s] = pc[s] /\ job'[s] = job[s]
    BY <2>1 DEF StartCreate, Free, Answers, Work, RequestInv, TypeOK
  <2>2. ASSUME NEW u \in Users, NEW code \in Codes, StartJoin(r, u, code) \/ StartOpen(r, u, code)
        PROVE  /\ ~Seated(r) /\ lock' = lock /\ UNCHANGED tables
               /\ RequestInv(r)'
               /\ \A s \in Requests \ {r} : pc'[s] = pc[s] /\ job'[s] = job[s]
    BY <2>2 DEF StartJoin, StartOpen, Free, Answers, Work, RequestInv, TypeOK
  <2>3. QED
    BY <1>2, <1>3, <2>1, <2>2 DEF Start
<1>4. ASSUME NEW code \in Codes, PickCode(r, code) PROVE RequestsInv' /\ BoardsInv'
  <2>1. /\ pc[r] = "pick" /\ lock' = lock /\ UNCHANGED tables
        /\ pc'[r] \in {"pick", "insert"}
        /\ \A s \in Requests \ {r} : pc'[s] = pc[s] /\ job'[s] = job[s]
    BY <1>4 DEF PickCode, TypeOK
  <2>2. job'[r].code = code /\ job'[r].user = job[r].user /\ job'[r].seats = job[r].seats
    BY <1>4 DEF PickCode, TypeOK, Job
  <2>3. QED
    BY <1>1, <1>2, <2>1, <2>2 DEF RequestInv
<1>5. CASE NoCodeLeft(r) \/ CodeTaken(r)
  BY <1>1, <1>2, <1>5 DEF NoCodeLeft, CodeTaken, Answer, RequestInv, TypeOK
<1>6. CASE FindBoard(r)
  <2>1. CASE Answer(r, "refused")
    BY <1>1, <1>2, <1>6, <2>1 DEF FindBoard, Answer, RequestInv, TypeOK
  <2>2. ASSUME NEW b \in WithCode(job[r].code), Goto(r, "lock"),
               job' = [job EXCEPT ![r].board = b]
        PROVE  RequestsInv' /\ BoardsInv'
    <3>1. b \in used
      BY DEF WithCode, BoardsInv, BoardInv, TypeOK
    <3>2. /\ pc[r] = "find" /\ lock' = lock /\ UNCHANGED tables
          /\ pc'[r] = "lock"
          /\ \A s \in Requests \ {r} : pc'[s] = pc[s] /\ job'[s] = job[s]
      BY <1>6, <2>2 DEF FindBoard, TypeOK
    <3>3. job'[r].board = b /\ job'[r].user = job[r].user
      BY <2>2 DEF TypeOK, Job
    <3>4. QED
      BY <1>1, <1>2, <3>1, <3>2, <3>3 DEF RequestInv, tables
  <2>3. QED
    BY <1>6, <2>1, <2>2 DEF FindBoard
<1>7. CASE LockBoard(r)
  <2>1. /\ pc[r] = "lock" /\ pc'[r] = "check" /\ job' = job /\ UNCHANGED tables
        /\ \A s \in Requests \ {r} : pc'[s] = pc[s]
    BY <1>7 DEF LockBoard, TypeOK
  <2>2. \A b \in BoardIds : \/ lock'[b] = lock[b] /\ lock[b] # r
                            \/ lock[b] = Nobody /\ lock'[b] = r /\ job'[r].board = b
    BY <1>7, <2>1, OnlyTheSeatedLock DEF LockBoard, TypeOK
  <2>3. RequestInv(r)'
    BY <1>1, <1>7, <2>1 DEF LockBoard, RequestInv, TypeOK, tables
  <2>4. QED
    BY <2>1, <2>2, <2>3, ReadingStep
<1>8. CASE CheckMember(r)
  <2>1. /\ pc[r] = "check" /\ job' = job /\ UNCHANGED tables
        /\ \A s \in Requests \ {r} : pc'[s] = pc[s]
    BY <1>8 DEF CheckMember, TypeOK
  <2>2. CASE pc'[r] = "open" /\ Release(r)
    <3>1. RequestInv(r)'
      BY <1>1, <2>1, <2>2 DEF RequestInv, tables
    <3>2. QED
      BY <2>1, <2>2, <3>1, ReleaseFrees, ReadingStep
  <2>3. CASE pc'[r] = "count" /\ lock' = lock /\ <<job[r].board, job[r].user>> \notin members
    <3>1. RequestInv(r)'
      BY <1>1, <2>1, <2>3 DEF RequestInv, MembersOf, tables
    <3>2. \A b \in BoardIds : lock[b] = r => Seated(r)' /\ job'[r].board = b
      BY <2>1, <2>3, NamesAssumption DEF BoardsInv, BoardInv
    <3>3. QED
      BY <2>1, <2>3, <3>1, <3>2, ReadingStep
  <2>4. QED
    BY <1>8, <2>2, <2>3 DEF CheckMember, TypeOK
<1>9. CASE CountSeats(r)
  <2>1. /\ pc[r] = "count" /\ UNCHANGED tables
        /\ \A s \in Requests \ {r} : pc'[s] = pc[s] /\ job'[s] = job[s]
    BY <1>9 DEF CountSeats, Answer, TypeOK
  <2>2. CASE Answer(r, "full") /\ Release(r)
    <3>1. RequestInv(r)'
      BY <2>2 DEF Answer, RequestInv, TypeOK
    <3>2. QED
      BY <2>1, <2>2, <3>1, ReleaseFrees, ReadingStep
  <2>3. CASE /\ Cardinality(MembersOf(job[r].board)) < info[job[r].board].seats
             /\ lock' = lock /\ pc'[r] = "add" /\ job' = job
    <3>1. RequestInv(r)'
      BY <1>1, <2>1, <2>3 DEF RequestInv, MembersOf, tables
    <3>2. \A b \in BoardIds : lock[b] = r => Seated(r)' /\ job'[r].board = b
      BY <2>1, <2>3, NamesAssumption DEF BoardsInv, BoardInv
    <3>3. QED
      BY <2>1, <2>3, <3>1, <3>2, ReadingStep
  <2>4. QED
    BY <1>9, <2>2, <2>3 DEF CountSeats, TypeOK
<1>10. CASE OpenFinds(r) \/ OpenChecks(r)
  <2>1. /\ pc[r] \in {"open", "access"} /\ lock' = lock /\ UNCHANGED tables
        /\ \A s \in Requests \ {r} : pc'[s] = pc[s] /\ job'[s] = job[s]
    BY <1>10 DEF OpenFinds, OpenChecks, Answer, TypeOK
  <2>2. \/ pc'[r] \in Answers
        \/ pc'[r] = "access" /\ job'[r].user = job[r].user
    BY <1>10 DEF OpenFinds, OpenChecks, Answer, Answers, TypeOK, Job
  <2>3. RequestInv(r)'
    BY <1>1, <2>1, <2>2 DEF RequestInv, Answers
  <2>4. QED
    BY <1>2, <2>1, <2>3
<1>11. CASE RequestFails(r)
  <2>1. /\ UNCHANGED tables /\ Release(r) /\ pc'[r] = "refused"
        /\ \A s \in Requests \ {r} : pc'[s] = pc[s] /\ job'[s] = job[s]
    BY <1>11 DEF RequestFails, Answer, TypeOK
  <2>2. RequestInv(r)'
    BY <2>1 DEF RequestInv
  <2>3. QED
    BY <2>1, <2>2, ReleaseFrees, ReadingStep
<1>12. QED
  BY <1>3, <1>4, <1>5, <1>6, <1>7, <1>8, <1>9, <1>10, <1>11

-----------------------------------------------------------------------------
(* The steps that write the tables.                                        *)

\* A new board has its host for its only member.
LEMMA InsertStep ==
    ASSUME TypeOK, RequestsInv, BoardsInv, NEW r \in Requests, NEW new \in BoardIds,
           InsertBoard(r, new)
    PROVE  RequestsInv' /\ BoardsInv'
<1>1. /\ pc[r] = "insert" /\ pc'[r] = "open" /\ new \notin used
      /\ lock' = lock /\ job' = job /\ boards' = boards \cup {new} /\ used' = used \cup {new}
      /\ members' = members \cup {<<new, job[r].user>>}
      /\ info'[new] = [code |-> job[r].code, seats |-> job[r].seats, host |-> job[r].user]
      /\ \A b \in BoardIds \ {new} : info'[b] = info[b]
      /\ \A s \in Requests \ {r} : pc'[s] = pc[s]
  BY DEF InsertBoard, Goto, TypeOK
<1>2. new \notin boards /\ MembersOf(new) = {}
  BY <1>1 DEF BoardsInv, BoardInv
<1>3. job[r].user \in Users /\ job[r].seats \in Seats
  BY <1>1 DEF RequestsInv, RequestInv, Awaits
<1>4. \A b \in BoardIds : MembersOf(b)' = IF b = new THEN {job[r].user} ELSE MembersOf(b)
  BY <1>1, <1>2, <1>3 DEF MembersOf
<1>5. ASSUME NEW s \in Requests PROVE RequestInv(s)'
  <2>1. RequestInv(s) /\ job[s].board \in BoardIds \cup {NoBoard}
    BY DEF RequestsInv, TypeOK, Job
  <2>2. CASE s = r
    BY <1>1, <1>3, <2>2 DEF RequestInv, Seated, Awaits
  <2>3. CASE s # r
    <3>1. pc'[s] = pc[s] /\ job'[s] = job[s]
      BY <1>1, <2>3
    <3>2. CASE Seated(s)
      <4>1. job[s].board \in BoardIds \ {new}
        BY <1>1, <2>1, <3>2 DEF RequestInv, TypeOK
      <4>2. /\ MembersOf(job[s].board)' = MembersOf(job[s].board)
            /\ info'[job[s].board] = info[job[s].board]
        BY <1>1, <1>4, <3>1, <4>1 DEF MembersOf
      <4>3. QED
        BY <1>1, <2>1, <3>1, <3>2, <4>1, <4>2 DEF RequestInv, Seated
    <3>3. CASE ~Seated(s)
      BY <1>1, <2>1, <3>1, <3>3 DEF RequestInv, Seated
    <3>4. QED
      BY <3>2, <3>3
  <2>4. QED
    BY <2>2, <2>3
<1>6. ASSUME NEW b \in BoardIds PROVE BoardInv(b)'
  <2>1. BoardInv(b)
    BY DEF BoardsInv
  <2>2. lock[b] # Nobody => lock[b] \in Requests \ {r}
    BY <1>1, <2>1 DEF BoardInv, Seated, TypeOK
  <2>3. CASE b = new
    <3>1. Cardinality(MembersOf(b)') <= info'[b].seats
      <4>1. Cardinality({job[r].user}) = 1
        BY FS_Singleton
      <4>2. MembersOf(b)' = {job[r].user} /\ info'[b].seats = job[r].seats
        BY <1>1, <1>4, <2>3
      <4>3. job[r].seats \in Nat \ {0}
        BY <1>3, SeatsAssumption
      <4>4. Cardinality(MembersOf(b)') = 1
        BY <4>1, <4>2
      <4>5. QED
        BY <4>2, <4>3, <4>4
    <3>2. QED
      BY <1>1, <1>4, <2>1, <2>2, <2>3, <3>1 DEF BoardInv, Seated
  <2>4. CASE b # new
    BY <1>1, <1>4, <2>1, <2>2, <2>4 DEF BoardInv, Seated
  <2>5. QED
    BY <2>3, <2>4
<1>7. QED
  BY <1>5, <1>6 DEF RequestsInv, BoardsInv

\* A member is added by the one request that has the row, and its count holds.
LEMMA AddStep ==
    ASSUME TypeOK, RequestsInv, BoardsInv, NEW r \in Requests, AddMember(r)
    PROVE  RequestsInv' /\ BoardsInv'
<1> PICK mine : mine = job[r].board
  OBVIOUS
<1> PICK user : user = job[r].user
  OBVIOUS
<1>1. /\ pc[r] = "add" /\ Release(r) /\ UNCHANGED <<boards, used, info>>
      /\ \A s \in Requests \ {r} : pc'[s] = pc[s] /\ job'[s] = job[s]
      /\ pc'[r] = "open" \/ pc'[r] = "refused"
  BY DEF AddMember, Answer, Goto, TypeOK
<1>2. CASE mine \notin boards /\ members' = members /\ Answer(r, "refused")
  <2>1. RequestInv(r)'
    BY <1>2 DEF Answer, RequestInv, Seated, Awaits, TypeOK
  <2>2. QED
    BY <1>1, <1>2, <2>1, ReleaseFrees, ReadingStep DEF tables
<1>3. CASE mine \in boards /\ members' = members \cup {<<mine, user>>} /\ pc'[r] = "open" /\ job' = job
  <2>1. /\ user \in Users /\ mine \in used /\ mine \in BoardIds /\ lock[mine] = r
        /\ Cardinality(MembersOf(mine)) < info[mine].seats
    BY <1>1, <1>3 DEF RequestsInv, RequestInv, Seated, Awaits, TypeOK
  <2>2. \A b \in BoardIds :
           MembersOf(b)' = IF b = mine THEN MembersOf(b) \cup {user} ELSE MembersOf(b)
    BY <1>3, <2>1 DEF MembersOf
  <2>3. ASSUME NEW s \in Requests PROVE RequestInv(s)'
    <3>1. RequestInv(s) /\ job'[s] = job[s]
      BY <1>3 DEF RequestsInv
    <3>2. CASE s = r
      BY <1>1, <1>3, <2>1, <3>2 DEF RequestInv, Seated, Awaits
    <3>3. CASE s # r /\ Seated(s) /\ job[s].board \in boards
      <4>1. lock[job[s].board] = s /\ job[s].board # mine /\ job[s].board \in BoardIds
        BY <2>1, <3>1, <3>3 DEF RequestInv, TypeOK
      <4>2. lock'[job[s].board] = s
        BY <1>1, <3>3, <4>1, ReleaseFrees
      <4>3. MembersOf(job[s].board)' = MembersOf(job[s].board)
        BY <2>2, <3>1, <4>1 DEF MembersOf
      <4>4. QED
        BY <1>1, <3>1, <3>3, <4>2, <4>3 DEF RequestInv, Seated
    <3>4. CASE s # r /\ ~(Seated(s) /\ job[s].board \in boards)
      BY <1>1, <3>1, <3>4 DEF RequestInv, Seated
    <3>5. QED
      BY <3>2, <3>3, <3>4
  <2>4. ASSUME NEW b \in BoardIds PROVE BoardInv(b)'
    <3>1. BoardInv(b) /\ lock[b] \in Requests \cup {Nobody}
      BY DEF BoardsInv, TypeOK
    <3>2. lock'[b] # Nobody =>
             pc'[lock'[b]] \in {"check", "count", "add"} /\ job'[lock'[b]].board = b
      BY <1>1, <3>1, ReleaseFrees DEF BoardInv, Seated
    <3>3. CASE b = mine
      <4>1. Cardinality(MembersOf(b)') <= info'[b].seats
        <5>1. info[b].seats \in Nat
          BY SeatsType
        <5>2. Cardinality(MembersOf(b)) \in Nat
          BY MembersCounted
        <5>3. Cardinality(MembersOf(b)) < info[b].seats
          BY <2>1, <3>3
        <5>4. /\ Cardinality(MembersOf(b) \cup {user}) \in Nat
              /\ Cardinality(MembersOf(b) \cup {user}) <= Cardinality(MembersOf(b)) + 1
          BY OneMore
        <5>5. MembersOf(b)' = MembersOf(b) \cup {user} /\ info'[b] = info[b]
          BY <1>1, <2>2, <3>3
        <5>6. QED
          BY <5>1, <5>2, <5>3, <5>4, <5>5
      <4>2. QED
        BY <1>1, <1>3, <2>2, <3>1, <3>2, <3>3, <4>1 DEF BoardInv, Seated
    <3>4. CASE b # mine
      BY <1>1, <2>2, <3>1, <3>2, <3>4 DEF BoardInv, Seated
    <3>5. QED
      BY <3>3, <3>4
  <2>5. QED
    BY <2>3, <2>4 DEF RequestsInv, BoardsInv
<1>4. QED
  BY <1>2, <1>3 DEF AddMember, Goto, TypeOK

\* Boards go with all their members, and never while a join holds their row.
LEMMA SweepsStep ==
    ASSUME TypeOK, RequestsInv, BoardsInv, SweepStep \/ \E b \in BoardIds : Expire(b)
    PROVE  RequestsInv' /\ BoardsInv'
<1>1. /\ used' = used /\ info' = info /\ lock' = lock /\ job' = job /\ pc' = pc
      /\ boards' \subseteq boards
      /\ \A b \in BoardIds : \/ (b \in boards' <=> b \in boards) /\ MembersOf(b)' = MembersOf(b)
                             \/ b \notin boards' /\ MembersOf(b)' = {}
  BY DEF SweepStep, SweepStarts, SweepFinds, SweepFindsNone, SweepDeletes, SweepFails,
         Expire, MembersOf, tables, TypeOK
<1>2. ASSUME NEW s \in Requests PROVE RequestInv(s)'
  <2>1. RequestInv(s) /\ job[s].board \in BoardIds \cup {NoBoard}
    BY DEF RequestsInv, TypeOK, Job
  <2>2. CASE job[s].board \in boards'
    <3>1. MembersOf(job[s].board)' = MembersOf(job[s].board)
      BY <1>1, <2>1, <2>2 DEF TypeOK, MembersOf
    <3>2. QED
      BY <1>1, <2>1, <2>2, <3>1 DEF RequestInv, Seated
  <2>3. CASE job[s].board \notin boards'
    BY <1>1, <2>1, <2>3 DEF RequestInv, Seated
  <2>4. QED
    BY <2>2, <2>3
<1>3. ASSUME NEW b \in BoardIds PROVE BoardInv(b)'
  <2>1. BoardInv(b) /\ (MembersOf(b)' = {} => Cardinality(MembersOf(b)') = 0)
    BY FS_EmptySet DEF BoardsInv
  <2>2. b \in used => info[b].seats \in Nat
    BY SeatsType
  <2>3. CASE (b \in boards' <=> b \in boards) /\ MembersOf(b)' = MembersOf(b)
    BY <1>1, <2>1, <2>3 DEF BoardInv, Seated
  <2>4. CASE b \notin boards' /\ MembersOf(b)' = {}
    BY <1>1, <2>1, <2>2, <2>4 DEF BoardInv, Seated
  <2>5. QED
    BY <1>1, <2>3, <2>4
<1>4. QED
  BY <1>2, <1>3 DEF RequestsInv, BoardsInv

-----------------------------------------------------------------------------
\* The one step that tells somebody the room is full.
LEMMA OnlyCountingFills ==
    ASSUME TypeOK, [Next]_vars, NEW r \in Requests, pc[r] # "full", pc'[r] = "full"
    PROVE  CountSeats(r) /\ Cardinality(MembersOf(job[r].board)) >= info[job[r].board].seats
<1>1. CASE Start(r)
  BY <1>1 DEF Start, StartCreate, StartJoin, StartOpen, Goto, TypeOK
<1>2. ASSUME NEW s \in Requests, s # r, Start(s) \/ Continue(s) \/ RequestFails(s)
      PROVE  FALSE
  <2>1. pc'[r] = pc[r]
    BY <1>2 DEF Start, Continue, RequestFails, StartCreate, PickCode, NoCodeLeft, InsertBoard,
       CodeTaken, StartJoin, FindBoard, LockBoard, CheckMember, CountSeats, AddMember,
       StartOpen, OpenFinds, OpenChecks, Goto, Answer, TypeOK
  <2>2. QED
    BY <2>1
<1>3. CASE Continue(r) \/ RequestFails(r)
  BY <1>3 DEF Continue, RequestFails, PickCode, NoCodeLeft, InsertBoard,
       CodeTaken, FindBoard, LockBoard, CheckMember, CountSeats, AddMember,
       OpenFinds, OpenChecks, Goto, Answer, TypeOK
<1>4. CASE \/ UNCHANGED vars \/ SweepStep \/ \E b \in BoardIds : Expire(b)
  BY <1>4 DEF vars, SweepStep, SweepStarts, SweepFinds, SweepFindsNone, SweepDeletes,
              SweepFails, Expire
<1>5. QED
  BY <1>1, <1>2, <1>3, <1>4 DEF Next

LEMMA InvStep == IInv /\ [Next]_vars => IInv'
<1> SUFFICES ASSUME IInv, [Next]_vars PROVE IInv'
  OBVIOUS
<1>1. TypeOK /\ JobInv /\ RequestsInv /\ BoardsInv
  BY ByParts DEF IInv, RequestsInv, BoardsInv
<1>2. TypeOK'
  BY <1>1, TypeStep
<1>3. RequestsInv' /\ BoardsInv'
  <2>1. ASSUME NEW r \in Requests, Start(r) \/ Continue(r) \/ RequestFails(r)
        PROVE  RequestsInv' /\ BoardsInv'
    BY <1>1, <2>1, ReadingSteps, InsertStep, AddStep DEF Continue
  <2>2. CASE SweepStep \/ \E b \in BoardIds : Expire(b)
    BY <1>1, <2>2, SweepsStep
  <2>3. CASE UNCHANGED vars
    <3>1. ASSUME NEW r \in Requests PROVE RequestInv(r)'
      <4>1. RequestInv(r)
        BY <1>1 DEF RequestsInv
      <4>2. QED
        BY <4>1, <2>3 DEF vars, tables, RequestInv, Seated, MembersOf
    <3>2. ASSUME NEW b \in BoardIds PROVE BoardInv(b)'
      <4>1. BoardInv(b)
        BY <1>1 DEF BoardsInv
      <4>2. QED
        BY <4>1, <2>3 DEF vars, tables, BoardInv, Seated, MembersOf
    <3>3. QED
      BY <3>1, <3>2 DEF RequestsInv, BoardsInv
  <2>4. QED
    BY <2>1, <2>2, <2>3 DEF Next
<1>4. QED
  BY <1>2, <1>3, ByPartsLater DEF RequestsInv, BoardsInv

-----------------------------------------------------------------------------
\* The inductive invariant: who holds which row, and that the count made under
\* it still holds.
THEOREM Inductive == Spec => []IInv
<1>1. Init => IInv
  <2> SUFFICES ASSUME Init PROVE IInv
    OBVIOUS
  <2>1. TypeOK
    BY BoundsAssumption DEF Init, TypeOK, Info, Work, Job
  <2>2. \A r \in Requests : RequestInv(r)
    BY DEF Init, RequestInv, Seated, Awaits
  <2>3. \A b \in BoardIds : BoardInv(b)
    BY DEF Init, BoardInv, MembersOf
  <2>4. QED
    BY <2>1, <2>2, <2>3, ByParts
<1>2. QED
  BY <1>1, InvStep, PTL DEF Spec

\* Rows, answers and everything read keep their types.
THEOREM TypeCorrect == Spec => []TypeOK
<1>1. IInv => TypeOK
  BY DEF IInv
<1>2. QED
  BY <1>1, Inductive, PTL

\* No board ever has more members than seats, whoever races for the last one,
\* for any number of requests.
THEOREM SeatsAreKept == Spec => []SeatsKept
<1>1. IInv => SeatsKept
  BY DEF IInv
<1>2. QED
  BY <1>1, Inductive, PTL

\* A board has its host as long as it exists, and nobody once it is deleted.
THEOREM HostsAreAlwaysSeated == Spec => []HostsAreSeated
<1>1. IInv => HostsAreSeated
  BY DEF IInv
<1>2. QED
  BY <1>1, Inductive, PTL

\* A row is locked only by a join that is about to let it go.
THEOREM LocksAreAlwaysLetGo == Spec => []LocksAreLetGo
<1>1. IInv => LocksAreLetGo
  BY DEF IInv
<1>2. QED
  BY <1>1, Inductive, PTL

\* Whoever is told that the room is full has no seat in it, and every seat is
\* taken at that moment.
THEOREM FullAlwaysMeansFull == Spec => FullMeansFull
<1>1. ASSUME IInv, [Next]_vars, NEW r \in Requests, pc[r] # "full", pc'[r] = "full"
      PROVE  /\ job[r].user \notin MembersOf(job[r].board)
             /\ Cardinality(MembersOf(job[r].board)) = info[job[r].board].seats
  <2>1. TypeOK /\ JobInv /\ RequestsInv /\ BoardsInv
    BY <1>1, ByParts DEF IInv, RequestsInv, BoardsInv
  <2>2. CountSeats(r) /\ Cardinality(MembersOf(job[r].board)) >= info[job[r].board].seats
    BY <1>1, <2>1, OnlyCountingFills
  <2>3. job[r].board \in used /\ job[r].board \in BoardIds
    BY <2>1, <2>2 DEF CountSeats, RequestsInv, RequestInv, Seated, TypeOK
  <2> PICK b \in BoardIds : b = job[r].board
    BY <2>3
  <2>4. Cardinality(MembersOf(b)) <= info[b].seats
    BY <2>1, <2>3 DEF BoardsInv, BoardInv
  <2>5. info[b].seats \in Nat /\ Cardinality(MembersOf(b)) \in Nat
    BY <2>1, SeatsType, MembersCounted
  <2>6. job[r].user \notin MembersOf(b)
    BY <2>1, <2>2 DEF CountSeats, RequestsInv, RequestInv, BoardsInv, BoardInv
  <2>7. QED
    BY <2>2, <2>4, <2>5, <2>6
<1>2. IInv /\ [Next]_vars =>
        [\A r \in Requests :
            pc[r] # "full" /\ pc'[r] = "full" =>
                /\ job[r].user \notin MembersOf(job[r].board)
                /\ Cardinality(MembersOf(job[r].board)) = info[job[r].board].seats]_vars
  BY <1>1
<1>3. QED
  BY <1>2, Inductive, PTL DEF Spec, FullMeansFull

-----------------------------------------------------------------------------
(* The sweep.                                                              *)

\* A request makes a board under an id nobody had, or none.
LEMMA RequestsKeepDue ==
    ASSUME TypeOK, BatchInv, NEW r \in Requests,
           Start(r) \/ Continue(r) \/ RequestFails(r)
    PROVE  BatchInv'
<1> USE DEF tables, sweepVars
<1>1. UNCHANGED <<expired, sweepVars>>
  BY DEF Start, StartCreate, StartJoin, StartOpen, Continue, PickCode, NoCodeLeft,
         CodeTaken, InsertBoard, FindBoard, LockBoard, CheckMember, CountSeats,
         AddMember, OpenFinds, OpenChecks, RequestFails
<1>2. ASSUME NEW b \in BoardIds, InsertBoard(r, b) PROVE BatchInv'
  <2>1. used \subseteq used' /\ boards \subseteq boards' /\ due \cap boards' = due \cap boards
    BY <1>2 DEF InsertBoard, BatchInv
  <2>2. QED
    BY <1>1, <2>1 DEF BatchInv
<1>3. CASE UNCHANGED <<boards, used>>
  BY <1>1, <1>3 DEF BatchInv
<1>4. (\E b \in BoardIds : InsertBoard(r, b)) \/ UNCHANGED <<boards, used>>
  BY DEF Start, StartCreate, StartJoin, StartOpen, Continue, PickCode, NoCodeLeft,
         CodeTaken, FindBoard, LockBoard, CheckMember, CountSeats,
         AddMember, OpenFinds, OpenChecks, RequestFails
<1>5. QED
  BY <1>2, <1>3, <1>4

LEMMA BatchStep ==
    ASSUME TypeOK, boards \subseteq used, BatchInv, [Next]_vars
    PROVE  BatchInv'
<1> USE DEF tables, sweepVars
<1>1. ASSUME NEW r \in Requests, Start(r) \/ Continue(r) \/ RequestFails(r)
      PROVE  BatchInv'
  BY <1>1, RequestsKeepDue
<1>2. ASSUME NEW b \in BoardIds, Expire(b) PROVE BatchInv'
  BY <1>2 DEF Expire, BatchInv
<1>3. CASE SweepStarts
  BY <1>3 DEF SweepStarts, BatchInv
<1>4. CASE SweepFinds
  <2>1. PICK ids \in SUBSET (due \cap boards) :
           /\ Cardinality(ids) < Batch => ids = due \cap boards
           /\ batch' = ids
    BY <1>4 DEF SweepFinds
  <2>2. QED
    BY <1>4, <2>1 DEF SweepFinds, BatchInv
<1>5. CASE SweepFindsNone \/ SweepDeletes \/ SweepFails
  BY <1>5 DEF SweepFindsNone, SweepDeletes, SweepFails, BatchInv
<1>6. CASE UNCHANGED vars
  BY <1>6 DEF vars, BatchInv
<1>7. QED
  BY <1>1, <1>2, <1>3, <1>4, <1>5, <1>6 DEF Next, SweepStep

\* A sweep that ends without a failed query leaves none of the boards that were
\* expired when it began.
THEOREM SweepsAreThorough == Spec => SweepIsThorough
<1> DEFINE Thorough == sweep # "idle" /\ sweep' = "idle" /\ failures' = failures
                       => due \cap boards' = {}
<1>1. Init => BatchInv
  BY DEF Init, BatchInv
<1>2. IInv => TypeOK /\ boards \subseteq used
  BY DEF IInv
<1>3. IInv /\ BatchInv /\ [Next]_vars => BatchInv'
  BY <1>2, BatchStep
<1>4. IInv /\ BatchInv /\ [Next]_vars => [Thorough]_vars
  <2> SUFFICES ASSUME IInv, BatchInv, [Next]_vars, sweep # "idle",
                      sweep' = "idle", failures' = failures
               PROVE  due \cap boards' = {}
    OBVIOUS
  <2> USE DEF tables, sweepVars
  <2>1. ASSUME NEW r \in Requests, Start(r) \/ Continue(r) \/ RequestFails(r)
        PROVE  sweep' = sweep
    BY <2>1 DEF Start, StartCreate, StartJoin, StartOpen, Continue, PickCode,
                NoCodeLeft, CodeTaken, InsertBoard, FindBoard, LockBoard, CheckMember,
                CountSeats, AddMember, OpenFinds, OpenChecks, RequestFails
  <2>2. (\E b \in BoardIds : Expire(b)) \/ UNCHANGED vars => sweep' = sweep
    BY DEF Expire, vars
  <2>3. CASE SweepFindsNone
    BY <2>3 DEF SweepFindsNone
  <2>4. CASE SweepDeletes
    <3>1. Cardinality(batch) < Batch /\ boards' = boards \ batch /\ sweep = "deleting"
      BY <2>4 DEF SweepDeletes
    <3>2. QED
      BY <3>1 DEF BatchInv
  <2>5. CASE SweepStarts \/ SweepFinds \/ SweepFails
    BY <1>2, <2>5 DEF SweepStarts, SweepFinds, SweepFails, TypeOK
  <2>6. QED
    BY <2>1, <2>2, <2>3, <2>4, <2>5 DEF Next, SweepStep
<1>5. QED
  BY <1>1, <1>3, <1>4, Inductive, PTL DEF Spec, SweepIsThorough

-----------------------------------------------------------------------------
(* The requests and the sweep implement Seating.                           *)

Sizes == [b \in BoardIds |-> info[b].seats]

LEMMA StillPromised ==
    ASSUME UNCHANGED <<tables, expired>>
    PROVE  UNCHANGED (Promised!vars)
BY DEF tables, Promised!vars

LEMMA CreatingIsOneStep ==
    ASSUME IInv, NEW r \in Requests, NEW b \in BoardIds, InsertBoard(r, b)
    PROVE  Promised!Next
<1>1. job[r].user \in Users /\ job[r].seats \in Seats
  BY DEF IInv, JobInv, InsertBoard, Awaits
<1>2. PICK host \in Users, seats \in Seats : host = job[r].user /\ seats = job[r].seats
  BY <1>1
<1>3. Sizes' = [Sizes EXCEPT ![b] = seats]
  BY <1>2 DEF IInv, TypeOK, InsertBoard, Sizes
<1>4. Promised!Create(b, host, seats)
  BY <1>2, <1>3 DEF InsertBoard, Promised!Create, Sizes
<1>5. QED
  BY <1>4 DEF Promised!Next

\* Whoever has waited for the row, been found not to be a member and counted a
\* free seat takes it, for nobody else could in between.
LEMMA JoiningIsOneStep ==
    ASSUME IInv, NEW r \in Requests, AddMember(r)
    PROVE  [Promised!Next]_(Promised!vars)
<1>1. CASE job[r].board \notin boards
  BY <1>1, StillPromised DEF AddMember, tables
<1>2. CASE job[r].board \in boards
  <2> DEFINE b == job[r].board
             u == job[r].user
  <2>1. b \in BoardIds /\ u \in Users
    BY <1>2 DEF IInv, TypeOK, JobInv, AddMember, Awaits
  <2>2. u \notin MembersOf(b) /\ Cardinality(MembersOf(b)) < info[b].seats
    BY <1>2 DEF IInv, CountInv, AddMember
  <2>3. Promised!Taken(b) = MembersOf(b) /\ Sizes[b] = info[b].seats
    BY <2>1 DEF Promised!Taken, MembersOf, Sizes
  <2>4. /\ members' = members \cup {<<b, u>>}
        /\ UNCHANGED <<boards, used, info, expired>>
    BY <1>2 DEF AddMember
  <2>5. Promised!Cardinality(MembersOf(b)) = Cardinality(MembersOf(b))
    BY DEF Cardinality, Promised!Cardinality
  <2>6. Promised!Take(b, u)
    BY <1>2, <2>1, <2>2, <2>3, <2>4, <2>5 DEF Promised!Take, Sizes
  <2>7. QED
    BY <2>1, <2>6 DEF Promised!Next
<1>3. QED
  BY <1>1, <1>2

LEMMA StepsAreSeating ==
    ASSUME IInv, BatchInv, [Next]_vars
    PROVE  [Promised!Next]_(Promised!vars)
<1>1. ASSUME NEW r \in Requests, Start(r) \/ Continue(r) \/ RequestFails(r)
      PROVE  [Promised!Next]_(Promised!vars)
  <2>1. CASE AddMember(r)
    BY <2>1, JoiningIsOneStep
  <2>2. ASSUME NEW b \in BoardIds, InsertBoard(r, b)
        PROVE  Promised!Next
    BY <2>2, CreatingIsOneStep
  <2>3. \/ AddMember(r)
        \/ \E b \in BoardIds : InsertBoard(r, b)
        \/ UNCHANGED <<tables, expired>>
    BY <1>1 DEF Start, StartCreate, StartJoin, StartOpen, Continue, PickCode, NoCodeLeft,
                CodeTaken, FindBoard, LockBoard, CheckMember, CountSeats, OpenFinds,
                OpenChecks, RequestFails
  <2>4. QED
    BY <2>1, <2>2, <2>3, StillPromised
<1>2. ASSUME NEW b \in BoardIds, Expire(b) PROVE Promised!Next
  <2>1. Promised!Expire(b)
    BY <1>2 DEF Expire, tables, Promised!Expire
  <2>2. QED
    BY <2>1 DEF Promised!Next
<1>3. CASE SweepDeletes
  <2>1. batch \in SUBSET (boards \cap expired)
    BY DEF BatchInv
  <2>2. Promised!Delete(batch)
    BY <1>3 DEF SweepDeletes, Promised!Delete
  <2>3. QED
    BY <2>1, <2>2 DEF Promised!Next
<1>4. CASE SweepStarts \/ SweepFinds \/ SweepFindsNone \/ SweepFails \/ UNCHANGED vars
  <2>1. UNCHANGED <<tables, expired>>
    BY <1>4 DEF SweepStarts, SweepFinds, SweepFindsNone, SweepFails, vars
  <2>2. QED
    BY <2>1, StillPromised
<1>5. QED
  BY <1>1, <1>2, <1>3, <1>4 DEF Next, SweepStep

\* Query by query, and however requests and sweep interleave, the tables only
\* ever go through the steps of Seating: a board with its host's seat comes at
\* once, a seat is taken while there is one, and only an expired board goes.
THEOREM BoardsAreSeated == Spec => IsSeating
<1>1. Init => BatchInv /\ Promised!Init
  BY DEF Init, BatchInv, Promised!Init
<1>2. IInv /\ BatchInv /\ [Next]_vars => BatchInv' /\ [Promised!Next]_(Promised!vars)
  BY BatchStep, StepsAreSeating DEF IInv
<1>3. QED
  BY <1>1, <1>2, Inductive, PTL DEF Spec, IsSeating, Promised!Spec
=============================================================================
