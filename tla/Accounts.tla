------------------------------ MODULE Accounts ------------------------------
(***************************************************************************)
(* Accounts and the addresses that identify them: registration, e-mail     *)
(* verification, Google sign-in, change of the primary e-mail and its      *)
(* reversal, change of the password, closing an account; composed with the *)
(* devices of Sessions, which some of this signs out.  AuthService,        *)
(* UsersService, FingerprintUtilService, EmailChangeService.  Links and    *)
(* codes are secrets mailed to one address: who returns one has read the   *)
(* mail.                                                                   *)
(***************************************************************************)
EXTENDS Sessions

CONSTANTS Emails,
          NoEmail,      \* the address of a closed account, which nobody has
          Works,        \* requests to the API, each served once
          Registered,   \* accounts that are there from the start
          MaxOutside    \* bound: requests, failures and lapses, all told

ASSUME RegisteredAssumption == Registered \subseteq People
ASSUME EmailsAssumption == NoEmail \notin Emails /\ Emails # {} /\ People # {}
ASSUME OutsideAssumption == MaxOutside \in Nat

VARIABLES
    account,   \* table users: the row (closed: deletedAt is set), its address
    finger,    \* EMAIL_VERIFICATION(email): a live verification link exists
    mailed,    \* addresses that have got the live link
    pending,   \* KEY_REQUEST(user): {} or the change the user asked for
    reverts,   \* KEY_REVERT: confirmations whose way back is stored
    notice,    \* the mail with the way back, sent to the old address: it got
               \* there, or it did not
    work,      \* each request: what it does, the await it is at
    proven,    \* history: addresses somebody was shown to read
    changed,   \* history: {} or the last change applied while its request was
               \* pending, until the user withdraws it or its time is up
    outside    \* how much came from outside

avars == <<account, finger, mailed, pending, reverts, notice, work, proven,
           changed>>
vars == <<svars, avars, outside>>

Address == Emails \cup {NoEmail}
Change == [who : People, old : Address, new : Address]
NoChange == [who |-> CHOOSE u \in People : TRUE,
             old |-> CHOOSE e \in Emails : TRUE,
             new |-> CHOOSE e \in Emails : TRUE]

AccountRow == [row : {"none", "there", "closed", "gone"}, email : Address,
               verified : BOOLEAN]

\* Where a request can be.
Places == {"idle", "finger", "mail", "rollback", "delete", "consume", "find",
           "set", "cancel", "store", "apply", "token", "clear", "notice",
           "clear revert", "signout", "save", "rename", "done", "refused",
           "failed"}

Work == [op : {"register", "resend", "verify", "google", "request", "confirm",
               "revert", "password", "close"},
         at : Places, row : Change, seen : BOOLEAN, by : Works]

TypeOK ==
    /\ SessionTypeOK
    /\ account \in [People -> AccountRow]
    /\ finger \subseteq Emails
    /\ mailed \subseteq Emails
    /\ pending \in [People -> SUBSET Change]
    /\ reverts \subseteq Works
    /\ notice \in [Works -> {"none", "there", "lost"}]
    /\ work \in [Works -> Work]
    /\ proven \subseteq Emails
    /\ changed \in [People -> SUBSET Change]
    /\ outside \in 0..MaxOutside

Init ==
    /\ SessionInit
    /\ \E has \in [Registered -> Emails] :
         /\ \A u, v \in Registered : u # v => has[u] # has[v]
         /\ account = [u \in People |->
                         [row |-> IF u \in Registered THEN "there" ELSE "none",
                          email |-> IF u \in Registered THEN has[u] ELSE NoEmail,
                          verified |-> FALSE]]
    /\ finger = {} /\ mailed = {}
    /\ pending = [u \in People |-> {}]
    /\ reverts = {}
    /\ notice = [w \in Works |-> "none"]
    /\ work = [w \in Works |-> [op |-> "register", at |-> "idle", row |-> NoChange,
                            seen |-> FALSE, by |-> w]]
    /\ proven = {}
    /\ changed = [u \in People |-> {}]
    /\ outside = 0

\* Queries see a row unless it is closed; the unique index and an update by id
\* see closed rows too.  What a closed account is called instead is its own.
There(u) == account[u].row = "there"
Taken(e) == \E u \in People : There(u) /\ account[u].email = e
HeldByOther(u, e) ==
    e # NoEmail /\ \E v \in People \ {u} : /\ account[v].row \in {"there", "closed"}
                                         /\ account[v].email = e

Begin(w, op, at, row) ==
    /\ work[w].at = "idle"
    /\ work' = [work EXCEPT ![w] = [op |-> op, at |-> at, row |-> row,
                                    seen |-> There(row.who)
                                             /\ account[row.who].verified,
                                    by |-> w]]

Go(w, at) == work' = [work EXCEPT ![w].at = at]
At(w, op, at) == work[w].op = op /\ work[w].at = at

--------------------------------------------------------------------------
(* Registration and verification *)

\* registerUser: the row is saved first; the address is unique.
Register(w, u, e) ==
    /\ account[u].row = "none"
    /\ Begin(w, "register", IF HeldByOther(u, e) THEN "refused" ELSE "finger",
             [who |-> u, old |-> e, new |-> e])
    /\ account' = IF HeldByOther(u, e) THEN account
                  ELSE [account EXCEPT ![u] = [row |-> "there", email |-> e,
                                               verified |-> FALSE]]
    /\ UNCHANGED <<finger, mailed, pending, reverts, notice, proven, changed>>

\* resendVerificationEmail and sendEmailVerificationLink
Resend(w, u) ==
    /\ There(u) /\ account[u].email # NoEmail
    /\ Begin(w, "resend", "finger", [who |-> u, old |-> account[u].email,
                                     new |-> account[u].email])
    /\ UNCHANGED <<account, finger, mailed, pending, reverts, notice,
                  proven, changed>>

\* generateEmailFingerprint: refused while an earlier link lives (NX), and a
\* registration that is refused here leaves its row.
GenerateEmailFingerprint(w) ==
    LET e == work[w].row.new
    IN  /\ work[w].at = "finger"
        /\ Go(w, IF e \in finger THEN "refused" ELSE "mail")
        /\ finger' = finger \cup {e}
        /\ mailed' = IF e \in finger THEN mailed ELSE mailed \ {e}
        /\ UNCHANGED <<account, pending, reverts, notice, proven, changed>>

\* notifyUserByEmail; a mailer that reports an error may have sent the mail.
MailLink(w) ==
    /\ work[w].at = "mail" /\ work[w].op \in {"register", "resend"}
    /\ \/ Go(w, "done") /\ mailed' = mailed \cup {work[w].row.new}
       \/ Go(w, "rollback") /\ mailed' \in {mailed, mailed \cup {work[w].row.new}}
    /\ UNCHANGED <<account, finger, pending, reverts, notice, proven, changed>>

RollBackEmailFingerprint(w) ==
    /\ work[w].at = "rollback"
    /\ finger' = finger \ {work[w].row.new}
    /\ Go(w, IF work[w].op = "register" THEN "delete" ELSE "failed")
    /\ UNCHANGED <<account, mailed, pending, reverts, notice, proven, changed>>

\* deleteUser: by id, whatever has become of the account.
DeleteUser(w) ==
    /\ work[w].at = "delete"
    /\ account' = [account EXCEPT ![work[w].row.who].row = "gone"]
    /\ barred' = barred \cup {work[w].row.who}
    /\ Go(w, "failed")
    /\ UNCHANGED <<finger, mailed, pending, reverts, notice, proven, changed>>

\* validateEmailFingerprint: the link from the mail is compared ...
OpenLink(w, e) ==
    /\ e \in mailed
    /\ Begin(w, "verify", IF e \in finger THEN "consume" ELSE "refused",
             [NoChange EXCEPT !.new = e])
    /\ proven' = proven \cup {e}
    /\ UNCHANGED <<account, finger, mailed, pending, reverts, notice, changed>>

\* ... then deleted,
ConsumeLink(w) ==
    /\ work[w].at = "consume"
    /\ finger' = finger \ {work[w].row.new}
    /\ Go(w, "find")
    /\ UNCHANGED <<account, mailed, pending, reverts, notice, proven, changed>>

\* Google vouches for the address.
AuthenticateWithGoogle(w, e) ==
    /\ Begin(w, "google", "find", [NoChange EXCEPT !.new = e])
    /\ proven' = proven \cup {e}
    /\ UNCHANGED <<account, finger, mailed, pending, reverts, notice, changed>>

\* getUserByEmail: nothing to do if the address is verified already.  Google
\* sign-in registers an account where there is none.
FindUser(w) ==
    LET e == work[w].row.new
    IN  /\ work[w].at = "find"
        /\ \/ \E u \in People :
                /\ There(u) /\ account[u].email = e
                /\ work' = [work EXCEPT ![w].row.who = u,
                              ![w].at = IF account[u].verified THEN "done"
                                        ELSE "set"]
                /\ UNCHANGED account
           \/ /\ ~Taken(e)
              /\ work[w].op = "verify" \/ \E u \in People : HeldByOther(u, e)
              /\ Go(w, "refused")
              /\ UNCHANGED account
           \/ /\ ~Taken(e) /\ work[w].op = "google"
              /\ \E u \in People :
                   /\ account[u].row = "none" /\ ~HeldByOther(u, e)
                   /\ account' = [account EXCEPT ![u] =
                        [row |-> "there", email |-> e, verified |-> FALSE]]
                   /\ work' = [work EXCEPT ![w].at = "set", ![w].row.who = u]
        /\ UNCHANGED <<finger, mailed, pending, reverts, notice,
                      proven, changed>>

\* updateUser(id, { emailVerified: true }) throws unless it can read the row.
SetVerified(w) ==
    LET u == work[w].row.who
    IN  /\ work[w].at = "set"
        /\ account' = [account EXCEPT ![u].verified = TRUE]
        /\ Go(w, IF There(u) THEN "done" ELSE "failed")
        /\ UNCHANGED <<finger, mailed, pending, reverts, notice,
                      proven, changed>>

--------------------------------------------------------------------------
(* Changing the address *)

\* request: the new address is free (now), the user has re-authenticated.
RequestChange(w, u, e) ==
    /\ There(u) /\ e # account[u].email
    /\ Begin(w, "request", IF Taken(e) THEN "refused" ELSE "cancel",
             [who |-> u, old |-> account[u].email, new |-> e])
    /\ UNCHANGED <<account, finger, mailed, pending, reverts, notice,
                  proven, changed>>

Drop(u) ==
    /\ pending' = [pending EXCEPT ![u] = {}]
    /\ changed' = [changed EXCEPT ![u] = {}]

CancelForRequest(w) ==
    /\ At(w, "request", "cancel")
    /\ Drop(work[w].row.who)
    /\ Go(w, "store")
    /\ UNCHANGED <<account, finger, mailed, reverts, notice, proven>>

\* setRecordEx; the mail with the code is awaited, but changes nothing here.
StoreRequest(w) ==
    /\ At(w, "request", "store")
    /\ pending' = [pending EXCEPT ![work[w].row.who] = {work[w].row}]
    /\ changed' = [changed EXCEPT ![work[w].row.who] = {}]
    /\ Go(w, "done")
    /\ UNCHANGED <<account, finger, mailed, reverts, notice, proven>>

\* cancelPending by the user, or the code's ten minutes are over.
CancelPending(u) ==
    /\ pending[u] # {}
    /\ Drop(u)
    /\ UNCHANGED <<account, finger, mailed, reverts, notice, work, proven>>

\* Mutant: the code goes to the address the account has.
OldCodeGoesTo(row) == row.old

\* Where request sends the code.
CodeGoesTo(row) == row.new

\* confirm: the user returns the code of the change that is pending.
Confirm(w, u) ==
    \E row \in pending[u] :
        /\ Begin(w, "confirm", "apply", row)
        /\ proven' = proven \cup {CodeGoesTo(row)}
        /\ UNCHANGED <<account, finger, mailed, pending, reverts, notice, changed>>

\* applyEmailChange: an update by id, which a row that is gone or closed does
\* not fail; the unique index refuses an address that is in use by now.
ApplyEmailChange(w, e, next) ==
    LET u == work[w].row.who
        ok == ~HeldByOther(u, e)
    IN  /\ work[w].at = "apply"
        /\ account' = IF ok THEN [account EXCEPT ![u].email = e,
                                                 ![u].verified = TRUE]
                      ELSE account
        /\ Go(w, IF ok THEN next ELSE "failed")

\* A request withdrawn or lapsed while it is confirmed is applied all the same.
Applied(w) ==
    LET row == work[w].row
    IN  IF work'[w].at # "token" THEN changed
        ELSE [changed EXCEPT ![row.who] = {row} \cap pending[row.who]]

\* Mutant: the request is cleared before the way back is stored.
HastyApplyChange(w) ==
    /\ work[w].op = "confirm"
    /\ ApplyEmailChange(w, work[w].row.new, "token")
    /\ pending' = [pending EXCEPT ![work[w].row.who] = {}]
    /\ changed' = Applied(w)
    /\ UNCHANGED <<finger, mailed, reverts, notice, proven>>

ApplyChange(w) ==
    /\ work[w].op = "confirm"
    /\ ApplyEmailChange(w, work[w].row.new, "token")
    /\ changed' = Applied(w)
    /\ UNCHANGED <<finger, mailed, pending, reverts, notice, proven>>

StoreRevert(w) ==
    /\ work[w].at = "token"
    /\ reverts' = reverts \cup {w}
    /\ Go(w, "clear")
    /\ UNCHANGED <<account, finger, mailed, pending, notice, proven, changed>>

\* cancelPending once more: whatever is pending by now, a newer request too,
\* which is then withdrawn.
ClearRequest(w) ==
    LET row == work[w].row
    IN  /\ work[w].at = "clear"
        /\ pending' = [pending EXCEPT ![row.who] = {}]
        /\ changed' = [changed EXCEPT ![row.who] = @ \cap {row}]
        /\ Go(w, "notice")
        /\ UNCHANGED <<account, finger, mailed, reverts, notice, proven>>

\* Only the mail has the token of the way back, Redis its hash.
Deliver(w) == \E n \in {"there", "lost"} : notice' = [notice EXCEPT ![w] = n]

\* notifyUserByEmail, tried once: that it failed is logged.
MailNotice(w) ==
    /\ work[w].at = "notice"
    /\ Deliver(w)
    /\ Go(w, "signout")
    /\ UNCHANGED <<account, finger, mailed, pending, reverts, proven, changed>>

\* revert: with the link that confirmation v mailed to the old address.
Revert(w, v) ==
    LET row == work[v].row
    IN  /\ work[w].at = "idle"
        /\ v \in reverts /\ notice[v] = "there" /\ row.old # NoEmail
        /\ work' = [work EXCEPT ![w] =
                      [op |-> "revert", row |-> row, seen |-> FALSE, by |-> v,
                       at |-> IF Taken(row.old) THEN "refused" ELSE "apply"]]
        /\ proven' = proven \cup {row.old}
        /\ UNCHANGED <<account, finger, mailed, pending, reverts, notice, changed>>

ApplyRevert(w) ==
    /\ work[w].op = "revert"
    /\ ApplyEmailChange(w, work[w].row.old, "clear revert")
    /\ UNCHANGED <<finger, mailed, pending, reverts, notice, proven, changed>>

DeleteRevert(w) ==
    /\ At(w, "revert", "clear revert")
    /\ reverts' = reverts \ {work[w].by}
    /\ changed' = [changed EXCEPT ![work[w].row.who] = @ \ {work[w].row}]
    /\ Go(w, "signout")
    /\ UNCHANGED <<account, finger, mailed, pending, notice, proven>>

\* removeOtherDevices, if the request came from a device, or removeAllDevices.
SignOutAfter(w, k) ==
    LET u == work[w].row.who
    IN  /\ work[w].at = "signout"
        /\ IF work[w].op = "revert" THEN RemoveAllDevices(k, u)
           ELSE \E d \in Devices : Owner[d] = u /\ RemoveOtherDevices(k, u, d)
        /\ Go(w, "done")
        /\ UNCHANGED <<account, finger, mailed, pending, reverts, notice,
                      proven, changed>>

\* A day later, long after the confirmation.
RevertExpires(v) ==
    /\ v \in reverts /\ work[v].at \notin {"clear", "notice"}
    /\ reverts' = reverts \ {v}
    /\ changed' = [changed EXCEPT ![work[v].row.who] = @ \ {work[v].row}]
    /\ UNCHANGED <<account, finger, mailed, pending, notice, work, proven>>

--------------------------------------------------------------------------
(* The password, and the end of an account *)

\* resetPassword, completePasswordReset: the user is read, the password hashed,
ChangePassword(w, u) ==
    /\ There(u)
    /\ Begin(w, "password", "save",
             [who |-> u, old |-> account[u].email, new |-> account[u].email])
    /\ UNCHANGED <<account, finger, mailed, pending, reverts, notice,
                  proven, changed>>

\* and applyNewPassword saves all it has read: a change of the address in
\* between is undone, a closed row opened, a deleted one inserted again.
SavePassword(w) ==
    LET row == work[w].row
        ok == ~HeldByOther(row.who, row.old)
    IN  /\ work[w].at = "save"
        /\ account' = IF ok THEN [account EXCEPT ![row.who] =
                                     [row |-> "there", email |-> row.old,
                                      verified |-> work[w].seen]]
                      ELSE account
        /\ barred' = IF ok THEN barred \ {row.who} ELSE barred
        /\ Go(w, IF ok THEN "signout" ELSE "failed")
        /\ UNCHANGED <<finger, mailed, pending, reverts, notice,
                      proven, changed>>

\* softDeleteUser sets deletedAt,
SoftDelete(w, u) ==
    /\ There(u)
    /\ Begin(w, "close", "rename",
             [who |-> u, old |-> account[u].email, new |-> account[u].email])
    /\ account' = [account EXCEPT ![u].row = "closed"]
    /\ barred' = barred \cup {u}
    /\ UNCHANGED <<finger, mailed, pending, reverts, notice, proven, changed>>

\* then takes the address off the row and closes the account for good.
UpdateForDeactivation(w) ==
    /\ At(w, "close", "rename")
    /\ account' = [account EXCEPT ![work[w].row.who].email = NoEmail]
    /\ barred' = barred \cup {work[w].row.who}
    /\ Go(w, "done")
    /\ UNCHANGED <<finger, mailed, pending, reverts, notice, proven, changed>>

\* A query, a command or the process fails.
WorkFails(w) ==
    /\ work[w].at \notin {"idle", "done", "refused", "failed"}
    /\ IF work[w].at = "notice" THEN Deliver(w) ELSE UNCHANGED notice
    /\ Go(w, "failed")
    /\ UNCHANGED <<account, finger, mailed, pending, reverts, proven, changed>>

LinkExpires(e) ==
    /\ e \in finger
    /\ finger' = finger \ {e}
    /\ UNCHANGED <<account, mailed, pending, reverts, notice, work,
                  proven, changed>>

--------------------------------------------------------------------------

\* svars without the accounts that may not sign in.
deviceVars == <<login, keyVars, tokens, cookie, req, rm, sessionHistory>>

AccountOutside ==
    \/ \E w \in Works : \/ \E u \in People, e \in Emails : Register(w, u, e)
                                                          \/ RequestChange(w, u, e)
                        \/ \E u \in People : Resend(w, u) \/ Confirm(w, u)
                        \/ \E e \in Emails : OpenLink(w, e)
                                             \/ AuthenticateWithGoogle(w, e)
                        \/ \E v \in reverts : Revert(w, v)
                        \/ \E u \in People : ChangePassword(w, u)
                        \/ WorkFails(w)
    \/ \E u \in People : CancelPending(u)
    \/ \E v \in reverts : RevertExpires(v)
    \/ \E e \in Emails : LinkExpires(e)

AccountInside ==
    \E w \in Works :
        \/ GenerateEmailFingerprint(w) \/ MailLink(w)
        \/ RollBackEmailFingerprint(w) \/ ConsumeLink(w) \/ FindUser(w)
        \/ SetVerified(w) \/ CancelForRequest(w) \/ StoreRequest(w)
        \/ ApplyChange(w) \/ StoreRevert(w) \/ ClearRequest(w) \/ MailNotice(w)
        \/ ApplyRevert(w) \/ DeleteRevert(w)

Outside ==
    /\ outside < MaxOutside
    /\ outside' = outside + 1
    /\ \/ AccountOutside /\ UNCHANGED svars
       \/ \E w \in Works, u \in People : SoftDelete(w, u) /\ UNCHANGED deviceVars
       \/ SessionOutside /\ UNCHANGED avars

Inside ==
    /\ UNCHANGED outside
    /\ \/ AccountInside /\ UNCHANGED svars
       \/ \E w \in Works : /\ DeleteUser(w) \/ SavePassword(w)
                              \/ UpdateForDeactivation(w)
                           /\ UNCHANGED deviceVars
       \/ \E w \in Works, k \in Removals :
            /\ SignOutAfter(w, k)
            /\ UNCHANGED <<barred, login, keyVars, tokens, cookie, req,
                           sessionHistory>>
       \/ SessionInside /\ UNCHANGED avars

Next == Outside \/ Inside

Spec == Init /\ [][Next]_vars

--------------------------------------------------------------------------
(* Properties *)

\* An account whose address counts as verified has an address that somebody
\* was shown to read, although verification, Google sign-in and changes of the
\* address read the account first and write it later, by id.
VerifiedIsProven ==
    \A u \in People : There(u) /\ account[u].verified
                     => account[u].email \in proven \cup {NoEmail}

\* The notice of confirmation v is being mailed, or what came of it is known.
Tried(v) == work[v].at = "notice" \/ notice[v] # "none"

\* Wherever its confirmation fails, a change of the address that was applied
\* can be undone: the confirmation can be repeated with the same code, or the
\* way back is stored and the old address has the link to it, will get it, or
\* would have if the one attempt to mail it had not failed (unless the request
\* was withdrawn, replaced or outlived while it was being confirmed).
ChangeCanBeReverted ==
    \A u \in People : \A row \in changed[u] :
        row \in pending[u] \/ \E v \in reverts : work[v].row = row /\ Tried(v)
============================================================================
