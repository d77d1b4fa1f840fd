----------------------------- MODULE EmailQueue -----------------------------
(***************************************************************************)
(* NotificationEmailService: rows queued by emit, sent by a cron that runs *)
(* every five minutes and knows nothing of a run that has not finished.    *)
(* Retry delays are seconds, so a row left PENDING is due at the next run. *)
(***************************************************************************)
EXTENDS Naturals, FiniteSets

CONSTANTS Mails,         \* ids of queue rows
          CronRuns,      \* bound: runs of the cron that overlap
          MaxAttempts    \* EMAIL_QUEUE_CONFIG.MAX_ATTEMPTS

ASSUME MaxAttemptsAssumption == MaxAttempts \in Nat \ {0}

VARIABLES
    mail,    \* table notification_email_queue: status and attempts
    batch,   \* each run: the rows it read, as it read them, not finished yet
    tried    \* history: how often the mailer was asked, up to MaxAttempts

mvars == <<mail, batch, tried>>

NoMail == [status |-> "none", attempts |-> 0]
Picked == [id : Mails, attempts : 0..MaxAttempts,
           at : {"send", "sent", "refused"}]

MailTypeOK ==
    /\ mail \in [Mails -> [status : {"none", "PENDING", "SENT", "FAILED"},
                           attempts : 0..MaxAttempts]]
    /\ batch \in [CronRuns -> SUBSET Picked]
    /\ tried \in [Mails -> 0..MaxAttempts]

MailInit ==
    /\ mail = [m \in Mails |-> NoMail]
    /\ batch = [r \in CronRuns |-> {}]
    /\ tried = [m \in Mails |-> 0]

\* queueEmails: one insert; an error is logged and swallowed.
QueueEmails(ms) ==
    /\ mail' \in {mail, [m \in Mails |-> IF m \in ms
                            THEN [status |-> "PENDING", attempts |-> 0]
                            ELSE mail[m]]}
    /\ UNCHANGED <<batch, tried>>

Pending == {m \in Mails : mail[m].status = "PENDING"}

\* processEmailQueue: the rows are read, not claimed.
ProcessEmailQueue(r) ==
    /\ batch[r] = {} /\ Pending # {}
    /\ batch' = [batch EXCEPT ![r] = {[id |-> m, attempts |-> mail[m].attempts,
                                       at |-> "send"] : m \in Pending}]
    /\ UNCHANGED <<mail, tried>>

Move(r, p, new) == batch' = [batch EXCEPT ![r] = (@ \ {p}) \cup new]

\* sendPreRenderedEmail settles.
MailerAnswers(r, p) ==
    /\ p.at = "send"
    /\ \E ok \in {"sent", "refused"} : Move(r, p, {[p EXCEPT !.at = ok]})
    /\ tried' = [tried EXCEPT ![p.id] = IF @ < MaxAttempts THEN @ + 1 ELSE @]
    /\ UNCHANGED mail

\* Mutant: attempts are written back as they were read.
UncountedSetStatus(p, status) ==
    mail' = [mail EXCEPT ![p.id] = [status |-> status, attempts |-> p.attempts]]

\* The attempts of the row as this run read it, and one more.
SetStatus(p, status) ==
    mail' = [mail EXCEPT ![p.id] = [status |-> status,
                                    attempts |-> p.attempts + 1]]

MarkSent(r, p) ==
    /\ p.at = "sent"
    /\ SetStatus(p, "SENT")
    /\ Move(r, p, {})
    /\ UNCHANGED tried

\* The update to SENT is inside the try: if it fails, so has the e-mail.
MarkSentFails(r, p) ==
    /\ p.at = "sent"
    /\ Move(r, p, {[p EXCEPT !.at = "refused"]})
    /\ UNCHANGED <<mail, tried>>

\* Mutant: given up one attempt early.
EarlyMarkRefused(r, p) ==
    /\ p.at = "refused"
    /\ SetStatus(p, IF p.attempts + 2 >= MaxAttempts THEN "FAILED"
                    ELSE "PENDING")
    /\ Move(r, p, {})
    /\ UNCHANGED tried

MarkRefused(r, p) ==
    /\ p.at = "refused"
    /\ SetStatus(p, IF p.attempts + 1 >= MaxAttempts THEN "FAILED"
                    ELSE "PENDING")
    /\ Move(r, p, {})
    /\ UNCHANGED tried

\* That update fails too: the row stays as it was.
MarkRefusedFails(r, p) ==
    /\ p.at = "refused"
    /\ Move(r, p, {})
    /\ UNCHANGED <<mail, tried>>

MailRestart ==
    /\ batch' = [r \in CronRuns |-> {}]
    /\ UNCHANGED <<mail, tried>>

SendEmail(r) ==
    \E p \in batch[r] : \/ MailerAnswers(r, p) \/ MarkSent(r, p)
                        \/ MarkSentFails(r, p) \/ MarkRefused(r, p)

Idle == \A r \in CronRuns : batch[r] = {}

\* A run is still busy when the next one starts.
MailOutside ==
    \E r \in CronRuns : \/ (~Idle /\ ProcessEmailQueue(r))
                        \/ \E p \in batch[r] : MarkRefusedFails(r, p)

MailInside ==
    \E r \in CronRuns : \/ Idle /\ ProcessEmailQueue(r)
                        \/ SendEmail(r)

--------------------------------------------------------------------------
(* Properties *)

\* An e-mail is given up only after as many attempts as configured, although
\* runs overlap and each writes the count it read plus one.
GivesUpLate ==
    \A m \in Mails : mail[m].status = "FAILED" => tried[m] = MaxAttempts

\* Every queued e-mail is sent or given up in the end, although overlapping
\* runs may set a row back and a restart forgets what was under way.
MailSettles ==
    \A m \in Mails : (mail[m].status = "PENDING") ~>
                     [](mail[m].status \in {"SENT", "FAILED"})
============================================================================
