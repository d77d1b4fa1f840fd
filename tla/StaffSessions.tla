--------------------------- MODULE StaffSessions ---------------------------
(***************************************************************************)
(* Sessions of one member of staff on the server: StaffAuthService with    *)
(* its records in Redis, StaffAuthMiddleware, and what StaffService does   *)
(* to the sessions of an account it suspends, removes or gives a password. *)
(*                                                                         *)
(* Sign-in names a device and issues an access and a refresh token; every  *)
(* refresh issues the next pair.  Pairs are numbered as they are issued,   *)
(* a device has the number of its first.  One step is what Node runs       *)
(* between two awaits that leave the process.                              *)
(***************************************************************************)
EXTENDS Naturals, Sequences, FiniteSets

CONSTANTS MaxCalls,     \* bound: requests served at a time
          MaxIssued     \* bound: pairs ever issued

ASSUME IssuedAssumption == MaxCalls \in Nat /\ MaxIssued \in Nat \ {0}

VARIABLES
    account,    \* table staff: the status of the account
    issued,     \* the device of every pair
    stale,      \* pairs whose access token is past its time
    records,    \* staff_rt:*, the refresh tokens on record
    indexed,    \* staff_device:*:rts, refresh tokens by device
    devices,    \* staff:*:devices
    black,      \* bl:staff_device:*: 0, or how many pairs were out by then
    call,       \* each request: the await it is at, and what it has read
    ended,      \* history: devices whose sessions were ended
    slipped     \* history: devices given a token during the end or after it

keys == <<records, indexed, devices, black>>
staffHistory == <<ended, slipped>>
staffVars == <<account, issued, stale, keys, call, staffHistory>>

Calls == 1..MaxCalls
Pairs == 1..MaxIssued

\* Requests by what they do; an "admin" one is made by somebody else.
Guarded == {"get", "logout", "everywhere"}
Kinds == Guarded \cup {"refresh", "login", "admin"}
Ending == {"devices", "members", "wipe"}

NoCall == [kind |-> "get", at |-> "free", pair |-> 0, device |-> 0,
           left |-> {}, read |-> {}, all |-> {}]

Request ==
    [kind : Kinds, pair : 0..MaxIssued, device : 0..MaxIssued,
     at : {"free", "blacklist", "principal", "record", "revoked", "staff",
           "delete", "store", "answered", "refused"} \cup Ending,
     left : SUBSET Pairs, read : SUBSET Pairs, all : SUBSET Pairs]

StaffTypeOK ==
    /\ account \in {"active", "suspended", "removed"}
    /\ issued \in Seq(Pairs) /\ Len(issued) <= MaxIssued
    /\ stale \subseteq Pairs
    /\ records \subseteq Pairs /\ indexed \subseteq Pairs
    /\ devices \subseteq Pairs
    /\ black \in [Pairs -> 0..MaxIssued]
    /\ call \in [Calls -> Request]
    /\ ended \subseteq Pairs /\ slipped \subseteq Pairs

\* Somebody signed in a while ago.
StaffInit ==
    /\ account = "active"
    /\ issued = <<1>> /\ stale \in {{}, {1}}
    /\ records = {1} /\ indexed = {1} /\ devices = {1}
    /\ black = [d \in Pairs |-> 0]
    /\ call = [c \in Calls |-> NoCall]
    /\ ended = {} /\ slipped = {}

Free == {c \in Calls : call[c].at = "free"}
NextCall == CHOOSE c \in Free : TRUE

Out == DOMAIN issued
Move(c, at) == call' = [call EXCEPT ![c].at = at]
Reads == UNCHANGED <<account, issued, stale, keys, staffHistory>>

--------------------------------------------------------------------------
(* Arriving *)

\* A request that presents a pair (0: none): a token the middleware cannot
\* verify, or a refresh without a cookie, is refused at once.  Login has found
\* the account active and the password right.
Arriving(kind, pair) ==
    [NoCall EXCEPT !.kind = kind, !.pair = pair,
       !.device = IF pair = 0 THEN 0 ELSE issued[pair],
       !.at = IF kind = "login" THEN "store"
              ELSE IF pair = 0 \/ (kind \in Guarded /\ pair \in stale)
                   THEN "refused"
              ELSE IF kind = "refresh" THEN "record" ELSE "blacklist"]

\* StaffAuthMiddleware
PassBlacklist(c) ==
    /\ call[c].at = "blacklist"
    /\ Move(c, IF black[call[c].device] > 0 THEN "refused" ELSE "principal")
    /\ Reads

\* ... and on to the handler.
FindPrincipal(c) ==
    LET all == IF call[c].kind = "logout" THEN {call[c].device}
               ELSE {issued[p] : p \in Out}
    IN  /\ call[c].at = "principal"
        /\ call' = [call EXCEPT
             ![c].at = CASE account # "active"        -> "refused"
                         [] call[c].kind = "get"      -> "answered"
                         [] call[c].kind = "logout"   -> "members"
                         [] OTHER                     -> "devices",
             ![c].left = IF call[c].kind = "logout" THEN all ELSE {},
             ![c].all = IF call[c].kind = "get" THEN {} ELSE all]
        /\ Reads

--------------------------------------------------------------------------
(* refresh and login *)

GetStaffRefreshRecord(c) ==
    /\ call[c].at = "record"
    /\ Move(c, IF call[c].pair \in records THEN "revoked" ELSE "refused")
    /\ Reads

IsStaffDeviceBlacklisted(c) ==
    /\ call[c].at = "revoked"
    /\ Move(c, IF black[call[c].device] > 0 THEN "refused" ELSE "staff")
    /\ Reads

FindStaff(c) ==
    /\ call[c].at = "staff"
    /\ Move(c, IF account = "active" THEN "delete" ELSE "refused")
    /\ Reads

\* The record goes, then its entry in the index.
DeleteStaffRefreshRecord(c) ==
    /\ call[c].at = "delete"
    /\ records' = records \ {call[c].pair}
    /\ indexed' = indexed \ {call[c].pair}
    /\ Move(c, "store")
    /\ UNCHANGED <<account, issued, stale, devices, black, staffHistory>>

\* A pair issued to a device while its sessions are being ended, or later.
Slips(d) == \/ d \in ended
            \/ \E c \in Calls : /\ call[c].at \in Ending
                                /\ d \in call[c].all \/ call[c].kind # "logout"

\* Mutant: the device is not added to the devices of the account.
UnlistedStoreStaffRefreshRecord(pair, d) ==
    /\ records' = records \cup {pair}
    /\ indexed' = indexed \cup {pair}
    /\ UNCHANGED devices

\* One transaction.
StoreStaffRefreshRecord(pair, d) ==
    /\ records' = records \cup {pair}
    /\ indexed' = indexed \cup {pair}
    /\ devices' = devices \cup {d}

IssueSession(c) ==
    LET pair == Len(issued) + 1
        d == IF call[c].kind = "login" THEN pair ELSE call[c].device
    IN  /\ call[c].at = "store" /\ pair \in Pairs
        /\ StoreStaffRefreshRecord(pair, d)
        /\ issued' = Append(issued, d)
        /\ call' = [call EXCEPT ![c] = [NoCall EXCEPT !.kind = call[c].kind,
                                                      !.at = "answered",
                                                      !.pair = pair]]
        /\ slipped' = slipped \cup {e \in {d} : Slips(e)}
        /\ UNCHANGED <<account, stale, black, ended>>

--------------------------------------------------------------------------
(* The end of sessions *)

\* removeStaffAllDevices
GetDevices(c) ==
    /\ call[c].at = "devices"
    /\ call' = [call EXCEPT ![c].left = devices, ![c].at = "members"]
    /\ Reads

\* removeStaffSingleDevice, of one after the other ...
GetTokens(c) ==
    /\ call[c].at = "members"
    /\ \E d \in call[c].left :
         call' = [call EXCEPT ![c].at = "wipe", ![c].device = d,
                              ![c].read = {p \in indexed : issued[p] = d}]
    /\ Reads

\* ... one transaction: the tokens it has read, the index, the blacklist.
WipeDevice(c) ==
    LET d == call[c].device
    IN  /\ call[c].at = "wipe"
        /\ records' = records \ call[c].read
        /\ indexed' = IF call[c].read = {} THEN indexed
                      ELSE {p \in indexed : issued[p] # d}
        /\ devices' = devices \ {d}
        /\ black' = [black EXCEPT ![d] = Len(issued)]
        /\ call' = [call EXCEPT ![c].at = "members", ![c].read = {},
                                ![c].left = @ \ {d}]
        /\ UNCHANGED <<account, issued, stale, staffHistory>>

\* All devices: in the end the list is deleted, whoever is on it by now.
SessionsEnded(c) ==
    /\ call[c].at = "members" /\ call[c].left = {}
    /\ devices' = IF call[c].kind = "logout" THEN devices ELSE {}
    /\ ended' = ended \cup call[c].all
    /\ call' = [call EXCEPT ![c] = [NoCall EXCEPT !.kind = call[c].kind,
                                                  !.at = "answered"]]
    /\ UNCHANGED <<account, issued, stale, records, indexed, black, slipped>>

\* StaffService.update, remove and changePassword, made by somebody else:
\* the row, then the sessions.
EndFor(status) ==
    /\ account' = status
    /\ call' = [call EXCEPT ![NextCall] =
                  [NoCall EXCEPT !.kind = "admin", !.at = "devices",
                                 !.all = {issued[p] : p \in Out}]]
    /\ UNCHANGED <<issued, stale, keys, staffHistory>>

Suspend == account # "removed" /\ EndFor("suspended")
RemoveStaff == account # "removed" /\ EndFor("removed")
ChangePassword == account # "removed" /\ EndFor(account)

Reactivate ==
    /\ account = "suspended" /\ account' = "active"
    /\ UNCHANGED <<issued, stale, keys, call, staffHistory>>

--------------------------------------------------------------------------

AccessExpires(p) ==
    /\ p \in Out \ stale /\ stale' = stale \cup {p}
    /\ UNCHANGED <<account, issued, keys, call, staffHistory>>

\* An entry lasts as long as a customer's access token, which by the defaults is
\* as long as a staff member's (STAFF_JWT_ACCESS_TTL_MIN may be set longer): the
\* tokens it is for are past their time.
BlacklistLapses(d) ==
    /\ black[d] > 0
    /\ \A p \in 1..black[d] : issued[p] = d => p \in stale
    /\ black' = [black EXCEPT ![d] = 0]
    /\ UNCHANGED <<account, issued, stale, records, indexed, devices, call,
                   staffHistory>>

CallStep(c) ==
    \/ PassBlacklist(c) \/ FindPrincipal(c)
    \/ GetStaffRefreshRecord(c) \/ IsStaffDeviceBlacklisted(c) \/ FindStaff(c)
    \/ DeleteStaffRefreshRecord(c) \/ IssueSession(c)
    \/ GetDevices(c) \/ GetTokens(c) \/ WipeDevice(c) \/ SessionsEnded(c)

--------------------------------------------------------------------------
(* Properties *)

\* The sessions of the device were ended, and no refresh of it that had found
\* its record was under way, nor is.
IsOver(d) ==
    /\ d \in ended \ slipped
    /\ \A c \in Calls : call[c].kind = "refresh" /\ call[c].device = d
                        => call[c].at \notin {"revoked", "staff", "delete", "store"}

\* Whoever was signed out, on a device or on all of them, by himself or by an
\* administrator, can neither refresh nor go on with the access token he has,
\* now or ever after, unless a refresh or sign-in was under way meanwhile:
\* nothing else escapes the lists by which the tokens are found.
EndedStaysEnded ==
    [][/\ \A d \in Pairs : IsOver(d) => IsOver(d)'
       /\ \A p \in Out' : issued'[p] \in ended' \ slipped'
                          => /\ p \notin records'
                             /\ p \in stale' \/ black'[issued'[p]] > 0]_staffVars

--------------------------------------------------------------------------
(* The inductive invariant of EndedStaysEnded *)

\* Nobody gets anywhere with the tokens of the device, nor when the blacklist
\* entry lapses: it covers every pair that is not stale.
Gone(d) ==
    \A p \in Out : issued[p] = d => p \notin records /\ (p \in stale \/ p <= black[d])

\* Requests present pairs that are out, of a device, and are at an await of
\* their own.
PairOK(c) ==
    /\ call[c].pair \in 0..Len(issued)
    /\ call[c].at \in {"blacklist", "principal"} => call[c].kind \in Guarded
    /\ call[c].at \in {"record", "revoked", "staff", "delete"} => call[c].kind = "refresh"
    /\ call[c].at = "store" => call[c].kind \in {"login", "refresh"}
    /\ \/ call[c].at \in {"blacklist", "principal", "record", "revoked", "staff",
                           "delete", "wipe"}
       \/ call[c].at = "store" /\ call[c].kind = "refresh"
       => call[c].device \in Pairs

\* An end of sessions has dealt with what is not left to it, and is to delete
\* the records of the device it is at.
EndingOK(c) ==
    call[c].at \in Ending =>
       /\ call[c].kind # "logout" => \A p \in Out : issued[p] \in call[c].all \cup slipped
       /\ call[c].kind = "logout" =>
             /\ call[c].at # "devices" /\ call[c].left \subseteq call[c].all
             /\ call[c].at = "wipe" => call[c].device \in call[c].all
       /\ call[c].at # "devices" =>
             \A d \in call[c].all \ (call[c].left \cup slipped) : Gone(d)
       /\ call[c].at = "wipe" /\ call[c].device \notin slipped =>
             \A p \in records : issued[p] = call[c].device => p \in call[c].read

\* What is not gone is listed, by device and by token.
ListsOK ==
    /\ \A d \in Pairs \ slipped : d \in devices \/ Gone(d)
    /\ \A p \in records : p \in Out /\ (issued[p] \in slipped \/ p \in indexed)

\* Requests are about a device that is out, and so is what they end.
NumberedOK ==
    /\ \A p \in Out : issued[p] <= p
    /\ ended \subseteq Out
    /\ \A c \in Calls :
          /\ call[c].all \subseteq Out
          /\ \/ call[c].at \in {"blacklist", "principal", "record", "revoked", "staff",
                                "delete"}
             \/ call[c].at = "store" /\ call[c].kind = "refresh"
             => call[c].pair \in Out /\ call[c].device = issued[call[c].pair]

StaffInv ==
    /\ StaffTypeOK /\ ListsOK
    /\ \A d \in ended \ slipped : Gone(d)
    /\ \A c \in Calls : PairOK(c) /\ EndingOK(c)
============================================================================
