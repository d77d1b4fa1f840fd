------------------------------ MODULE Notices ------------------------------
(***************************************************************************)
(* A decision on a request for access, the notification it emits and the   *)
(* e-mail emit queues: FeatureAccess, Notifications and EmailQueue in one  *)
(* API process, which may restart.  Some calls of emit come from other     *)
(* services (the Sends), with keys that name a device or a user only.      *)
(***************************************************************************)
EXTENDS Notifications, EmailQueue, FeatureAccess

CONSTANTS Sends,        \* the calls of emit made by other services
          SendKeys,     \* the keys they use
          MaxOutside    \* bound: requests, failures and restarts, all told

ASSUME PartsAssumption ==
    /\ People = Users
    /\ Calls = Jobs \cup Sends
    /\ Jobs \cap Sends = {}
    /\ SendKeys \cup (Decisions \X Ids \X Instants) \subseteq Keys
    /\ SendKeys \cap (Decisions \X Ids \X Instants) = {}
    /\ Jobs \X Users \subseteq Mails

ASSUME OutsideAssumption == MaxOutside \in Nat

VARIABLE outside    \* how much came from outside

vars == <<nvars, mvars, fvars, outside>>

TypeOK == NotifTypeOK /\ MailTypeOK /\ AccessTypeOK /\ outside \in 0..MaxOutside

Init == NotifInit /\ MailInit /\ AccessInit /\ outside = 0

\* E-mail is for those whose address is in the payload: decisions only.
Addressed(c) == IF c \in Jobs THEN {c} \X call[c].to ELSE {}

EmailStep(c) == EmailsQueued(c) /\ QueueEmails(Addressed(c)) /\ UNCHANGED fvars

\* notifyUserApproved and notifyUserRejected, then fire.
Announce(j) ==
    Notify(j) /\ Emit(j, DecisionKey(j), {job[j].user}) /\ UNCHANGED mvars

Send(c, k, to) == Emit(c, k, to) /\ UNCHANGED <<mvars, fvars>>

Restart == NotifRestart /\ MailRestart /\ AccessRestart

Outside ==
    /\ outside < MaxOutside
    /\ outside' = outside + 1
    /\ \/ NotifOutside /\ UNCHANGED <<mvars, fvars>>
       \/ MailOutside /\ UNCHANGED <<nvars, fvars>>
       \/ AccessOutside /\ UNCHANGED <<nvars, mvars>>
       \/ \E c \in Sends, k \in SendKeys, to \in SUBSET Users : Send(c, k, to)
       \/ Restart

Inside ==
    /\ UNCHANGED outside
    /\ \/ NotifInside /\ UNCHANGED <<mvars, fvars>>
       \/ MailInside /\ UNCHANGED <<nvars, fvars>>
       \/ AccessInside /\ UNCHANGED <<nvars, mvars>>
       \/ \E c \in Calls : EmailStep(c)
       \/ \E j \in Jobs : Announce(j)

Next == Outside \/ Inside

Spec == Init /\ [][Next]_vars

\* Node resumes what it awaits, Postgres, Redis and the mailer answer, the
\* cron fires, keys expire.
Fairness ==
    /\ \A c \in Calls : /\ WF_vars(Next /\ EmitStep(c))
                        /\ WF_vars(Next /\ EmailStep(c))
    /\ \A u \in Users : /\ WF_vars(Next /\ CacheExpires(u))
                        /\ WF_vars(Next /\ ClearAfterMark(u))
    /\ \A r \in Reads : WF_vars(Next /\ (CountUnread(r) \/ StoreCount(r)))
    /\ \A s \in Sockets : WF_vars(Next /\ Verified(s))
    /\ \A r \in CronRuns : WF_vars(Next /\ SendEmail(r))
    /\ WF_vars(Inside /\ \E r \in CronRuns : ProcessEmailQueue(r))

FairSpec == Spec /\ Fairness

--------------------------------------------------------------------------
(* Properties *)

\* The one decision on a row, taken twice in the same millisecond.
SameMoment(i, j) ==
    /\ job[i].op = job[j].op /\ job[i].row.id = job[j].row.id
    /\ job[i].time = job[j].time

\* Every decision is announced, even when the same row is decided again after
\* a new request: once emit has run through, the user who takes such notices
\* has a row, and emit takes it for a repetition only if another request made
\* the same decision on the same row in the same millisecond, and its call has
\* got past the unique key.
DecisionIsAnnounced ==
    \A j \in Jobs :
        job[j].at = "done" /\ job[j].op \in Decisions
        => /\ call[j].at # "idle"
           /\ call[j].at = "done" => Complete(j)
           /\ call[j].at = "duplicate" =>
                \E i \in Jobs \ {j} :
                    /\ SameMoment(i, j)
                    /\ call[i].at \notin {"idle", "preferences", "row", "duplicate"}
============================================================================
