----------------------------- MODULE BoardSeats -----------------------------
(***************************************************************************)
(* Making, joining and opening boards: the requests BoardsService handles, *)
(* the queries of BoardsRepository each of them is made of, and the hourly *)
(* BoardExpiryService that deletes boards a batch at a time.               *)
(*                                                                         *)
(* Each query is a step, and the steps of different requests interleave.   *)
(* Postgres runs at READ COMMITTED: a transaction is held together only by *)
(* the row lock it takes and by the constraints of the tables.             *)
(***************************************************************************)
EXTENDS Integers, FiniteSets

CONSTANTS
    Requests,     \* requests in progress at a time, each one operation after another
    Users,
    Codes,        \* the codes generateBoardCode can come up with
    BoardIds,     \* primary keys, never used twice
    Seats,        \* BOARD_SEAT_OPTIONS
    MaxAttempts,  \* BOARD_CODE_MAX_ATTEMPTS
    Batch,        \* BOARD_EXPIRY_BATCH_SIZE
    NoBoard,      \* findByCode found nothing, or nothing was read yet
    NoCode,       \* no code was asked for or picked yet
    Nobody,       \* the row of a board is not locked, a request is nobody's yet
    MaxFailures   \* bound: how many queries fail

ASSUME SeatsAssumption == Seats \subseteq Nat \ {0}
ASSUME BoundsAssumption == MaxAttempts \in Nat /\ Batch \in Nat \ {0} /\ MaxFailures \in Nat
ASSUME NamesAssumption == NoBoard \notin BoardIds /\ Nobody \notin Requests \cup Users /\ NoCode \notin Codes
ASSUME UsersAssumption == IsFiniteSet(Users)

VARIABLES
    boards,    \* ids of the rows of `boards`
    used,      \* ids handed out so far
    info,      \* per id: its code, seats and host
    members,   \* the rows of `board_members`
    lock,      \* per id: the request whose transaction holds the row
    expired,   \* boards whose expiresAt has passed
    job,       \* per request: whose it is, and what it has read
    pc,        \* per request: the query it awaits, or its answer
    sweep,     \* where the sweep is
    due,       \* boards expired at the sweep's `now`
    batch,     \* ids the sweep has read and is about to delete
    failures   \* how many queries have failed

tables == <<boards, used, info, members>>
sweepVars == <<sweep, due, batch>>
vars == <<tables, lock, expired, job, pc, sweepVars, failures>>

Info == [code: Codes \cup {NoCode}, seats: Seats \cup {0}, host: Users \cup {Nobody}]
Job == [user: Users \cup {Nobody}, code: Codes \cup {NoCode}, seats: Seats \cup {0},
        board: BoardIds \cup {NoBoard}, tries: 0..MaxAttempts]

Awaits == {"pick", "insert", "find", "lock", "check", "count", "add", "open", "access"}

\* Whoever is not let in is refused: no such board, expired, no member, no
\* free code or a failed query.  A full room is told apart.
Answers == {"ok", "full", "refused"}

TypeOK ==
    /\ boards \in SUBSET BoardIds /\ used \in SUBSET BoardIds
    /\ info \in [BoardIds -> Info]
    /\ members \in SUBSET (BoardIds \X Users)
    /\ lock \in [BoardIds -> Requests \cup {Nobody}]
    /\ expired \in SUBSET BoardIds
    /\ job \in [Requests -> Job]
    /\ pc \in [Requests -> {"idle"} \cup Awaits \cup Answers]
    /\ sweep \in {"idle", "finding", "deleting"}
    /\ due \in SUBSET BoardIds /\ batch \in SUBSET BoardIds
    /\ failures \in 0..MaxFailures

Work(user, code, seats) ==
    [user |-> user, code |-> code, seats |-> seats, board |-> NoBoard, tries |-> 0]

Init ==
    /\ boards = {} /\ used = {} /\ members = {} /\ expired = {}
    /\ info = [b \in BoardIds |-> [code |-> NoCode, seats |-> 0, host |-> Nobody]]
    /\ lock = [b \in BoardIds |-> Nobody]
    /\ job = [r \in Requests |-> Work(Nobody, NoCode, 0)]
    /\ pc = [r \in Requests |-> "idle"]
    /\ sweep = "idle" /\ due = {} /\ batch = {} /\ failures = 0

-----------------------------------------------------------------------------
MembersOf(b) == {u \in Users : <<b, u>> \in members}

\* findByCode
WithCode(code) == {b \in boards : info[b].code = code}

Goto(r, step) == pc' = [pc EXCEPT ![r] = step]

\* The request is answered and what it has read is gone.
Answer(r, answer) ==
    /\ pc' = [pc EXCEPT ![r] = answer]
    /\ job' = [job EXCEPT ![r] = Work(Nobody, NoCode, 0)]

\* The next request may come.
Free(r) == pc[r] \in {"idle"} \cup Answers

\* The request's transaction, if it holds a row, lets it go.
Release(r) == lock' = [b \in BoardIds |-> IF lock[b] = r THEN Nobody ELSE lock[b]]

-----------------------------------------------------------------------------
(* create                                                                  *)

\* Bound: no more boards are begun than BoardIds has ids for.
IdLeft ==
    Cardinality({r \in Requests : pc[r] \in {"pick", "insert"}}) < Cardinality(BoardIds \ used)

StartCreate(r, u, seats) ==
    /\ Free(r) /\ IdLeft
    /\ job' = [job EXCEPT ![r] = Work(u, NoCode, seats)]
    /\ Goto(r, "pick")
    /\ UNCHANGED <<tables, lock, expired, sweepVars, failures>>

\* freeCode: codeExists for a code out of the hat, a few times.
PickCode(r, code) ==
    /\ pc[r] = "pick" /\ job[r].tries < MaxAttempts
    /\ job' = [job EXCEPT ![r].code = code, ![r].tries = @ + 1]
    /\ \/ WithCode(code) = {} /\ Goto(r, "insert")
       \/ WithCode(code) # {} /\ pc' = pc
    /\ UNCHANGED <<tables, lock, expired, sweepVars, failures>>

NoCodeLeft(r) ==
    /\ pc[r] = "pick" /\ job[r].tries = MaxAttempts
    /\ Answer(r, "refused")
    /\ UNCHANGED <<tables, lock, expired, sweepVars, failures>>

\* Mutation: the host is seated by a later request.
InsertBoard_Alone(r, b) ==
    /\ pc[r] = "insert" /\ b \notin used
    /\ WithCode(job[r].code) = {}
    /\ boards' = boards \cup {b} /\ used' = used \cup {b}
    /\ info' = [info EXCEPT ![b] = [code |-> job[r].code, seats |-> job[r].seats,
                                    host |-> job[r].user]]
    /\ members' = members
    /\ Goto(r, "open")
    /\ UNCHANGED <<lock, expired, job, sweepVars, failures>>

\* createWithHost: the board and its host's seat in one transaction.
InsertBoard(r, b) ==
    /\ pc[r] = "insert" /\ b \notin used
    /\ WithCode(job[r].code) = {}
    /\ boards' = boards \cup {b} /\ used' = used \cup {b}
    /\ info' = [info EXCEPT ![b] = [code |-> job[r].code, seats |-> job[r].seats,
                                    host |-> job[r].user]]
    /\ members' = members \cup {<<b, job[r].user>>}
    /\ Goto(r, "open")
    /\ UNCHANGED <<lock, expired, job, sweepVars, failures>>

\* The unique index on the code refuses it: someone else took it meanwhile.
CodeTaken(r) ==
    /\ pc[r] = "insert" /\ WithCode(job[r].code) # {}
    /\ Answer(r, "refused")
    /\ UNCHANGED <<tables, lock, expired, sweepVars, failures>>

-----------------------------------------------------------------------------
(* join                                                                    *)

StartJoin(r, u, code) ==
    /\ Free(r)
    /\ job' = [job EXCEPT ![r] = Work(u, code, 0)]
    /\ Goto(r, "find")
    /\ UNCHANGED <<tables, lock, expired, sweepVars, failures>>

\* findByCode, and the expiry check by the clock after it.
FindBoard(r) ==
    /\ pc[r] = "find"
    /\ \/ WithCode(job[r].code) = {} /\ Answer(r, "refused")
       \/ \E b \in WithCode(job[r].code) :
             \/ b \in expired /\ Answer(r, "refused")
             \/ b \notin expired /\ Goto(r, "lock") /\ job' = [job EXCEPT ![r].board = b]
    /\ UNCHANGED <<tables, lock, expired, sweepVars, failures>>

\* Mutation: the row is read without FOR UPDATE.
LockBoard_Reads(r) ==
    /\ pc[r] = "lock"
    /\ Goto(r, "check")
    /\ UNCHANGED <<tables, lock, expired, job, sweepVars, failures>>

\* SELECT ... FOR UPDATE waits for the row; a row deleted by then locks nothing,
\* and the result is not looked at.
LockBoard(r) ==
    /\ pc[r] = "lock"
    /\ \/ /\ job[r].board \in boards /\ lock[job[r].board] = Nobody
          /\ lock' = [lock EXCEPT ![job[r].board] = r]
       \/ job[r].board \notin boards /\ lock' = lock
    /\ Goto(r, "check")
    /\ UNCHANGED <<tables, expired, job, sweepVars, failures>>

\* Someone who has a seat keeps it.
CheckMember(r) ==
    /\ pc[r] = "check"
    /\ \/ <<job[r].board, job[r].user>> \in members /\ Release(r) /\ Goto(r, "open")
       \/ <<job[r].board, job[r].user>> \notin members /\ lock' = lock /\ Goto(r, "count")
    /\ UNCHANGED <<tables, expired, job, sweepVars, failures>>

\* Mutation: the transaction of a full room is never ended.
CountSeats_KeepsLock(r) ==
    /\ pc[r] = "count"
    /\ \/ /\ Cardinality(MembersOf(job[r].board)) >= info[job[r].board].seats
          /\ lock' = lock /\ Answer(r, "full")
       \/ /\ Cardinality(MembersOf(job[r].board)) < info[job[r].board].seats
          /\ lock' = lock /\ Goto(r, "add") /\ job' = job
    /\ UNCHANGED <<tables, expired, sweepVars, failures>>

\* The seats taken, counted.
CountSeats(r) ==
    /\ pc[r] = "count"
    /\ \/ /\ Cardinality(MembersOf(job[r].board)) >= info[job[r].board].seats
          /\ Release(r) /\ Answer(r, "full")
       \/ /\ Cardinality(MembersOf(job[r].board)) < info[job[r].board].seats
          /\ lock' = lock /\ Goto(r, "add") /\ job' = job
    /\ UNCHANGED <<tables, expired, sweepVars, failures>>

\* The insert and the commit; the foreign key refuses a board that is gone.
AddMember(r) ==
    /\ pc[r] = "add"
    /\ \/ /\ job[r].board \in boards
          /\ members' = members \cup {<<job[r].board, job[r].user>>}
          /\ Goto(r, "open") /\ job' = job
       \/ job[r].board \notin boards /\ members' = members /\ Answer(r, "refused")
    /\ Release(r)
    /\ UNCHANGED <<boards, used, info, expired, sweepVars, failures>>

-----------------------------------------------------------------------------
(* open, on its own or at the end of the other two                         *)

StartOpen(r, u, code) ==
    /\ Free(r)
    /\ job' = [job EXCEPT ![r] = Work(u, code, 0)]
    /\ Goto(r, "open")
    /\ UNCHANGED <<tables, lock, expired, sweepVars, failures>>

\* requireMember's findByCode
OpenFinds(r) ==
    /\ pc[r] = "open"
    /\ \/ WithCode(job[r].code) = {} /\ Answer(r, "refused")
       \/ \E b \in WithCode(job[r].code) :
             job' = [job EXCEPT ![r].board = b] /\ Goto(r, "access")
    /\ UNCHANGED <<tables, lock, expired, sweepVars, failures>>

\* requireMember's findMembership, then the expiry by the clock after it.
OpenChecks(r) ==
    /\ pc[r] = "access"
    /\ \/ <<job[r].board, job[r].user>> \notin members /\ Answer(r, "refused")
       \/ /\ <<job[r].board, job[r].user>> \in members
          /\ \/ job[r].board \in expired /\ Answer(r, "refused")
             \/ job[r].board \notin expired /\ Answer(r, "ok")
    /\ UNCHANGED <<tables, lock, expired, sweepVars, failures>>

\* A query fails: the transaction is rolled back and the request with it.
RequestFails(r) ==
    /\ pc[r] \in Awaits /\ failures < MaxFailures /\ failures' = failures + 1
    /\ Release(r) /\ Answer(r, "refused")
    /\ UNCHANGED <<tables, expired, sweepVars>>

-----------------------------------------------------------------------------
(* The sweep.                                                              *)

Expire(b) ==
    /\ b \in boards \ expired
    /\ expired' = expired \cup {b}
    /\ UNCHANGED <<tables, lock, job, pc, sweepVars, failures>>

\* Cron: everything expired by now is to go.
SweepStarts ==
    /\ sweep = "idle" /\ expired # {}
    /\ sweep' = "finding" /\ due' = expired
    /\ UNCHANGED <<tables, lock, expired, job, pc, batch, failures>>

\* findExpiredIds: at most a batch of them.
SweepFinds ==
    /\ sweep = "finding" /\ due \cap boards # {}
    /\ \E ids \in SUBSET (due \cap boards) :
          /\ Cardinality(ids) <= Batch
          /\ Cardinality(ids) < Batch => ids = due \cap boards
          /\ batch' = ids
    /\ sweep' = "deleting"
    /\ UNCHANGED <<tables, lock, expired, job, pc, due, failures>>

SweepFindsNone ==
    /\ sweep = "finding" /\ due \cap boards = {}
    /\ sweep' = "idle" /\ due' = {} /\ batch' = {}
    /\ UNCHANGED <<tables, lock, expired, job, pc, failures>>

\* Mutation: the board goes and its members stay.
SweepDeletes_NoCascade ==
    /\ sweep = "deleting" /\ \A b \in batch : lock[b] = Nobody
    /\ boards' = boards \ batch
    /\ \/ Cardinality(batch) = Batch /\ sweep' = "finding" /\ due' = due
       \/ Cardinality(batch) < Batch /\ sweep' = "idle" /\ due' = {}
    /\ batch' = {}
    /\ UNCHANGED <<used, info, members, lock, expired, job, pc, failures>>

\* Mutation: one batch is all a sweep does.
SweepDeletes_Once ==
    /\ sweep = "deleting" /\ \A b \in batch : lock[b] = Nobody
    /\ boards' = boards \ batch
    /\ members' = {m \in members : m[1] \notin batch}
    /\ sweep' = "idle" /\ due' = {}
    /\ batch' = {}
    /\ UNCHANGED <<used, info, lock, expired, job, pc, failures>>

\* deleteByIds, with the members (and documents and messages) cascading; it
\* waits for the rows a join has locked.  A full batch is followed by another.
SweepDeletes ==
    /\ sweep = "deleting" /\ \A b \in batch : lock[b] = Nobody
    /\ boards' = boards \ batch
    /\ members' = {m \in members : m[1] \notin batch}
    /\ \/ Cardinality(batch) = Batch /\ sweep' = "finding" /\ due' = due
       \/ Cardinality(batch) < Batch /\ sweep' = "idle" /\ due' = {}
    /\ batch' = {}
    /\ UNCHANGED <<used, info, lock, expired, job, pc, failures>>

SweepFails ==
    /\ sweep # "idle" /\ failures < MaxFailures /\ failures' = failures + 1
    /\ sweep' = "idle" /\ due' = {} /\ batch' = {}
    /\ UNCHANGED <<tables, lock, expired, job, pc>>

-----------------------------------------------------------------------------
Start(r) ==
    \E u \in Users :
        \/ \E seats \in Seats : StartCreate(r, u, seats)
        \/ \E code \in Codes : StartJoin(r, u, code) \/ StartOpen(r, u, code)

Continue(r) ==
    \/ \E code \in Codes : PickCode(r, code)
    \/ NoCodeLeft(r) \/ CodeTaken(r)
    \/ \E b \in BoardIds : InsertBoard(r, b)
    \/ FindBoard(r) \/ LockBoard(r) \/ CheckMember(r) \/ CountSeats(r) \/ AddMember(r)
    \/ OpenFinds(r) \/ OpenChecks(r)

SweepStep == SweepStarts \/ SweepFinds \/ SweepFindsNone \/ SweepDeletes \/ SweepFails

Next ==
    \/ \E r \in Requests : Start(r) \/ Continue(r) \/ RequestFails(r)
    \/ \E b \in BoardIds : Expire(b)
    \/ SweepStep

Spec == Init /\ [][Next]_vars

-----------------------------------------------------------------------------
(* Safety.                                                                 *)

\* addMember: "two people racing for the last seat can't both get it".
SeatsKept == \A b \in BoardIds : Cardinality(MembersOf(b)) <= info[b].seats \/ b \notin used

\* "Creates the board and seats its host, both or neither", and deletes them
\* together, however the sweep and a join interleave.
HostsAreSeated ==
    /\ \A b \in boards : info[b].host \in MembersOf(b)
    /\ \A b \in BoardIds \ boards : MembersOf(b) = {}

\* A row stays locked only while the join that locked it counts and adds, so
\* nobody waits for one for ever, a full room or a failed query included.
LocksAreLetGo ==
    \A b \in BoardIds : lock[b] # Nobody =>
        pc[lock[b]] \in {"check", "count", "add"} /\ job[lock[b]].board = b

\* Nobody who has a seat is told that the room is full ("Joining a room you're
\* already in just opens it"), and who is told so could not have had one.
FullMeansFull ==
    [][\A r \in Requests :
          pc[r] # "full" /\ pc'[r] = "full" =>
              /\ job[r].user \notin MembersOf(job[r].board)
              /\ Cardinality(MembersOf(job[r].board)) = info[job[r].board].seats]_vars

\* deleteExpired: "Deletes every board expired at `now`" before it ends, unless
\* a query failed.
SweepIsThorough ==
    [][sweep # "idle" /\ sweep' = "idle" /\ failures' = failures => due \cap boards' = {}]_vars

Promised == INSTANCE Seating WITH size <- [b \in BoardIds |-> info[b].seats]

\* The requests and the sweep, a query at a time, do what one step each would:
\* the lock and the constraints make joining one, the transaction creating, the
\* cascade deleting, and what a sweep has read it may still delete.
IsSeating == Promised!Spec

-----------------------------------------------------------------------------
(* What makes SeatsKept inductive (BoardSeatsProofs).                      *)

Seated(r) == pc[r] \in {"check", "count", "add"}

\* Between its lock and its commit a request has the row of its board, or the
\* board is gone for good.
HeldInv ==
    \A r \in Requests : Seated(r) =>
        /\ job[r].board \in used
        /\ job[r].board \in boards => lock[job[r].board] = r

\* So what it has found of the members is still right when it goes on.
CountInv ==
    \A r \in Requests : job[r].board \in boards =>
        /\ pc[r] \in {"count", "add"} => job[r].user \notin MembersOf(job[r].board)
        /\ pc[r] = "add" => Cardinality(MembersOf(job[r].board)) < info[job[r].board].seats

\* Who asks, and for how many seats, is known while it matters.
JobInv ==
    \A r \in Requests :
        /\ pc[r] \in Awaits => job[r].user \in Users
        /\ pc[r] \in {"pick", "insert"} => job[r].seats \in Seats
        /\ pc[r] = "lock" => job[r].board \in used

\* What is to go stays known: boards made later have other ids, and when its
\* batch is not full the sweep has in it all that are left of what was due.
BatchInv ==
    /\ expired \subseteq used /\ due \subseteq expired /\ batch \subseteq due \cap boards
    /\ sweep = "deleting" /\ Cardinality(batch) < Batch => due \cap boards \subseteq batch

IInv ==
    /\ TypeOK /\ boards \subseteq used
    /\ LocksAreLetGo /\ HeldInv /\ CountInv /\ JobInv
    /\ SeatsKept /\ HostsAreSeated
=============================================================================
