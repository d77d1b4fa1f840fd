--------------------------- MODULE FeatureAccess ---------------------------
(***************************************************************************)
(* One feature flag, the rows that decide per user, and the requests for   *)
(* access: FeatureFlagsService and FeatureRequestsService.  Every request  *)
(* reads first and writes later; between the two others may have written.  *)
(* TypeORM's save looks the row up by its id, then updates the columns     *)
(* that differ from what it found, or inserts the row again when it is     *)
(* gone.  A change of the flag itself is one step.                         *)
(***************************************************************************)
EXTENDS Naturals, FiniteSets

CONSTANTS People,   \* users and staff act on the rows of these users
          Jobs,     \* requests to the API, each served once
          First,    \* the id of a row that is there from the start
          MaxTime   \* bound: ticks of the clock, in milliseconds

ASSUME FirstAssumption == First \notin Jobs /\ People # {} /\ MaxTime \in Nat

Ids == Jobs \cup {First}   \* a row has the id of the request that inserted it
Instants == 0..MaxTime

VARIABLES
    flag,     \* table feature_flags
    access,   \* table feature_flag_user_access, one row a user (unique index)
    now,      \* the clock of the process
    job,      \* each request: the await it is at, and what it has read
    overtaken \* history: the user was given access after the request's check

rowVars == <<flag, access, overtaken>>
fvars == <<rowVars, now, job>>

NoRow == [id |-> First, status |-> "NONE", enabled |-> FALSE]
Row == [id : Ids, status : {"NONE", "PENDING", "APPROVED", "REJECTED"},
        enabled : BOOLEAN]
Flag == [there : BOOLEAN, enabled : BOOLEAN, experimental : BOOLEAN,
         rolloutToAll : BOOLEAN]
Ops == {"request", "withdraw", "approve", "reject", "grant", "deny", "remove"}

Decisions == {"approve", "reject"}
Waits == {"row", "save", "write", "delete", "notify"}

\* first and row: the user's row as the first and the second read found it;
\* base: as save found it; time: decidedAt.
Job == [op : Ops, user : People,
        at : {"idle"} \cup Waits \cup {"done", "refused", "failed"},
        flag : Flag, row : Row, first : Row, base : Row, time : Instants]

AccessTypeOK ==
    /\ flag \in Flag
    /\ access \in [People -> Row]
    /\ now \in Instants
    /\ job \in [Jobs -> Job]
    /\ overtaken \subseteq Jobs

AccessInit ==
    /\ flag = [there |-> TRUE, enabled |-> TRUE, experimental |-> TRUE,
               rolloutToAll |-> FALSE]
    /\ access \in [People -> {NoRow, [id |-> First, status |-> "PENDING",
                                      enabled |-> FALSE]}]
    /\ job = [j \in Jobs |-> [op |-> "request",
                              user |-> CHOOSE u \in People : TRUE,
                              at |-> "idle", flag |-> flag, row |-> NoRow,
                              first |-> NoRow, base |-> NoRow, time |-> 0]]
    /\ now = 0 /\ overtaken = {}

Decided(row) == row.status \in {"APPROVED", "REJECTED"}

\* hasFeatureAccess: kill switch, then a decided row, then the rollout.
HasFeatureAccess(f, row) ==
    /\ f.there /\ f.enabled
    /\ IF Decided(row) THEN row.enabled ELSE f.rolloutToAll

Available(f) == f.there /\ f.experimental /\ f.enabled

--------------------------------------------------------------------------

Go(j, at) == job' = [job EXCEPT ![j].at = at]

\* The first read of a request: requireExperimentalFlag, requireFlag (both
\* with the rows of the flag) or requireRequest, which a decision takes the
\* time after.
Starts(j, op, u) ==
    /\ job[j].at = "idle"
    /\ LET there == CASE op \in {"request", "withdraw"} -> Available(flag)
                      [] op \in Decisions -> access[u].status = "PENDING"
                      [] OTHER -> flag.there
           next == IF op \in Decisions THEN "save" ELSE "row"
       IN  job' = [job EXCEPT ![j] =
                     [op |-> op, user |-> u, flag |-> flag, row |-> access[u],
                      first |-> access[u], base |-> NoRow,
                      time |-> IF op \in Decisions THEN now ELSE 0,
                      at |-> IF there THEN next ELSE "refused"]]
    /\ UNCHANGED <<rowVars, now>>

\* A row without an id is inserted without being looked up.
AfterFinding(j, row) ==
    CASE job[j].op \in {"withdraw", "remove"} -> "delete"
      [] row.status = "NONE" -> "write"
      [] OTHER -> "save"

\* Mutant: a request is refused only when one is pending already.
HastyFindUserAccess(j) ==
    LET row == access[job[j].user]
        refuses ==
          CASE job[j].op \in {"request", "withdraw"} ->
                 (row.status = "PENDING") = (job[j].op = "request")
            [] job[j].op = "remove" -> row.status \in {"NONE", "PENDING"}
            [] OTHER -> FALSE
    IN  /\ job[j].at = "row"
        /\ job' = [job EXCEPT ![j].row = row,
                              ![j].at = IF refuses THEN "refused"
                                        ELSE AfterFinding(j, row)]
        /\ UNCHANGED <<rowVars, now>>

\* findUserAccess, and the checks that follow it.
FindUserAccess(j) ==
    LET row == access[job[j].user]
        refuses ==
          CASE job[j].op = "request" ->
                 \/ HasFeatureAccess(job[j].flag, job[j].first)
                 \/ row.status = "PENDING"
            [] job[j].op = "withdraw" -> row.status # "PENDING"
            [] job[j].op = "remove" -> row.status \in {"NONE", "PENDING"}
            [] OTHER -> FALSE
    IN  /\ job[j].at = "row"
        /\ job' = [job EXCEPT ![j].row = row,
                              ![j].at = IF refuses THEN "refused"
                                        ELSE AfterFinding(j, row)]
        /\ UNCHANGED <<rowVars, now>>

\* What the request wants the row to become.
Wanted(j) ==
    LET op == job[j].op
    IN  [id |-> IF job[j].row.status = "NONE" THEN j ELSE job[j].row.id,
         status |-> CASE op = "request" -> "PENDING"
                      [] op = "reject" -> "REJECTED"
                      [] OTHER -> "APPROVED",
         enabled |-> op \in {"approve", "grant"}]

\* saveUserAccess, first half: save reads the row by its id.
SaveUserAccess(j) ==
    LET row == access[job[j].user]
    IN  /\ job[j].at = "save"
        /\ job' = [job EXCEPT ![j].base = IF row.id = job[j].row.id THEN row
                                          ELSE NoRow,
                              ![j].at = "write"]
        /\ UNCHANGED <<rowVars, now>>

\* Access by the user's own row.
Grants(row) == Decided(row) /\ row.enabled

\* The user's own requests that have read what they check for the last time.
Checked(u) == {j \in Jobs :
    /\ job[j].user = u
    /\ \/ job[j].op = "request" /\ job[j].at \in {"row", "save", "write"}
       \/ job[j].op = "withdraw" /\ job[j].at = "delete"}

Writes(j, row) ==
    LET u == job[j].user
    IN  /\ access' = [access EXCEPT ![u] = row]
        /\ overtaken' = IF Grants(row) /\ ~Grants(access[u])
                        THEN overtaken \cup Checked(u) ELSE overtaken
        /\ Go(j, IF job[j].op \in Decisions THEN "notify" ELSE "done")
        /\ UNCHANGED <<flag, now>>

\* What update makes of the row: columns save found as wanted stay as they are.
Updated(row, base, new) ==
    [row EXCEPT !.status = IF new.status = base.status THEN @ ELSE new.status,
                !.enabled = IF new.enabled = base.enabled THEN @ ELSE new.enabled]

\* saveUserAccess, second half.  An update of a row that is gone by now is no
\* error; an insert is one when the user has another row by now, or the flag
\* is gone.  A decision on a request is then announced to the user.
WriteUserAccess(j) ==
    LET row == access[job[j].user]
        base == job[j].base
        there == row.status # "NONE"
    IN  /\ job[j].at = "write"
        /\ \/ /\ base.status # "NONE"
              /\ Writes(j, IF there /\ row.id = base.id
                           THEN Updated(row, base, Wanted(j)) ELSE row)
           \/ /\ base.status = "NONE" /\ flag.there /\ ~there
              /\ Writes(j, Wanted(j))
           \/ /\ base.status = "NONE" /\ ~(flag.there /\ ~there)
              /\ Go(j, "failed")
              /\ UNCHANGED <<rowVars, now>>

\* deleteUserAccess: by id, whatever the row says by now.
DeleteUserAccess(j) ==
    LET row == access[job[j].user]
    IN  /\ job[j].at = "delete"
        /\ Writes(j, IF row.id = job[j].row.id THEN NoRow ELSE row)

\* Mutant: the key names the decision and the row, without the time.
TimelessDecisionKey(j) == <<job[j].op, job[j].row.id, 0>>

\* What notifyUserApproved and notifyUserRejected put in the idempotency key:
\* the decision, the row and the millisecond.  Two decisions may share all.
DecisionKey(j) == <<job[j].op, job[j].row.id, job[j].time>>

\* getUser answers, emit is called and not waited for.
Notify(j) ==
    /\ job[j].at = "notify"
    /\ Go(j, "done")
    /\ UNCHANGED <<rowVars, now>>

\* A query fails: the caller gets an error.
JobFails(j) ==
    /\ job[j].at \in Waits
    /\ Go(j, "failed")
    /\ UNCHANGED <<rowVars, now>>

UpdateFeatureFlag ==
    /\ flag.there
    /\ \/ flag' = [flag EXCEPT !.enabled = ~@]
       \/ flag' = [flag EXCEPT !.experimental = ~@]
       \/ flag' = [flag EXCEPT !.rolloutToAll = ~@]
    /\ UNCHANGED <<access, overtaken, now, job>>

\* Rows go with their flag (ON DELETE CASCADE).
DeleteFeatureFlag ==
    /\ flag.there
    /\ flag' = [flag EXCEPT !.there = FALSE]
    /\ access' = [u \in People |-> NoRow]
    /\ UNCHANGED <<overtaken, now, job>>

AccessRestart ==
    /\ job' = [j \in Jobs |-> IF job[j].at \in Waits
                              THEN [job[j] EXCEPT !.at = "failed"] ELSE job[j]]
    /\ UNCHANGED <<rowVars, now>>

\* A millisecond passes.
Tick ==
    /\ now < MaxTime
    /\ now' = now + 1
    /\ UNCHANGED <<rowVars, job>>

AccessOutside ==
    \/ \E j \in Jobs, op \in Ops, u \in People : Starts(j, op, u)
    \/ \E j \in Jobs : JobFails(j)
    \/ UpdateFeatureFlag
    \/ DeleteFeatureFlag

AccessInside ==
    \/ \E j \in Jobs : \/ FindUserAccess(j) \/ SaveUserAccess(j)
                       \/ WriteUserAccess(j) \/ DeleteUserAccess(j)
    \/ Tick

--------------------------------------------------------------------------
(* Properties *)

\* A user's own request or withdrawal takes access away from that user only if
\* somebody decided in the user's favour after the request had read what it
\* checks: between requestAccess's first read and its write, or between
\* withdrawRequest's read and its deletion.  Access by the rollout is never
\* lost this way, nor access by a decision that was there before, whatever
\* other requests write and whichever way the flag is switched meanwhile.
AskingTakesNothing ==
    [][\A j \in Jobs :
         LET u == job[j].user
         IN  /\ job[j].op \in {"request", "withdraw"}
             /\ job[j].at \in {"write", "delete"} /\ job'[j].at = "done"
             /\ HasFeatureAccess(flag, access[u])
             /\ ~HasFeatureAccess(flag', access'[u])
             => j \in overtaken]_fvars
============================================================================
