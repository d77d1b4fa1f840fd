--------------------------- MODULE ConsoleProofs ---------------------------
(***************************************************************************)
(* Theorems about the sessions of a member of staff, on the server and in  *)
(* the tabs of the ops console.                                            *)
(***************************************************************************)
EXTENDS OpsConsole, TLAPS, FiniteSetTheorems

-----------------------------------------------------------------------------
(* The server *)

LEMMA StaffNumbers ==
    /\ MaxIssued \in Nat /\ MaxIssued > 0
    /\ 1 \in Pairs /\ Pairs \subseteq Nat
    /\ \A n : n \in Pairs <=> n \in Nat /\ 1 <= n /\ n <= MaxIssued
    /\ \A n : n \in 0..MaxIssued <=> n \in Nat /\ n <= MaxIssued
BY IssuedAssumption DEF Pairs

\* Pairs that are out are pairs, of devices that are.
LEMMA PairsOut ==
    ASSUME StaffTypeOK
    PROVE  /\ Len(issued) \in Nat /\ Len(issued) <= MaxIssued
           /\ Out = 1..Len(issued) /\ Out \subseteq Pairs
           /\ 0..Len(issued) \subseteq 0..MaxIssued
           /\ \A p \in Out : issued[p] \in Pairs
<1>1. issued \in Seq(Pairs) /\ Len(issued) <= MaxIssued
  BY DEF StaffTypeOK
<1>2. /\ Len(issued) \in Nat /\ Out = 1..Len(issued)
      /\ \A p \in Out : issued[p] \in Pairs
  BY <1>1 DEF Out
<1>3. QED
  BY <1>1, <1>2, StaffNumbers

LEMMA NoCallIsRequest == NoCall \in Request
BY StaffNumbers DEF NoCall, Request, Kinds, Guarded

LEMMA FreeCalls ==
    /\ Free # {} => NextCall \in Free
    /\ Cardinality(Free) > 1 => NextCall \in Free
    /\ NextCall \in Free => NextCall \in Calls /\ call[NextCall].at = "free"
<1>1. Free = {} => Cardinality(Free) = 0
  BY FS_EmptySet
<1>2. Cardinality(Free) > 1 => Free # {}
  BY <1>1
<1>3. QED
  BY <1>2 DEF Free, NextCall

LEMMA StaffInvInit == StaffInit => StaffInv
<1> SUFFICES ASSUME StaffInit
             PROVE  StaffInv
  OBVIOUS
<1>1. /\ Len(issued) = 1 /\ Out = {1} /\ issued[1] = 1 /\ issued \in Seq(Pairs)
  BY StaffNumbers DEF StaffInit, Out
<1>2. StaffTypeOK
  <2>1. call \in [Calls -> Request]
    BY NoCallIsRequest DEF StaffInit
  <2>2. black \in [Pairs -> 0..MaxIssued]
    BY StaffNumbers DEF StaffInit
  <2>3. QED
    BY <1>1, <2>1, <2>2, StaffNumbers DEF StaffInit, StaffTypeOK
<1>3. ListsOK
  BY <1>1 DEF StaffInit, ListsOK, Gone
<1>4. \A c \in Calls : PairOK(c) /\ EndingOK(c)
  BY <1>1 DEF StaffInit, PairOK, EndingOK, NoCall, Ending
<1>5. QED
  BY <1>2, <1>3, <1>4 DEF StaffInit, StaffInv

\* A step that issues nothing, puts nothing on record and brings no device back.
LEMMA NothingIssued ==
    ASSUME StaffInv, StaffTypeOK', UNCHANGED <<issued, slipped>>, records' \subseteq records,
           \A d \in Pairs \ slipped : Gone(d) => Gone(d)',
           \A d \in devices \ slipped : d \in devices' \/ Gone(d)',
           \A p \in records' : p \in indexed => p \in indexed' \/ issued[p] \in slipped,
           \A d \in ended' : d \in ended \/ d \in slipped \/ Gone(d)',
           \A c \in Calls : call'[c] = call[c] \/ (PairOK(c)' /\ EndingOK(c)')
    PROVE  StaffInv'
<1>1. ListsOK'
  BY DEF StaffInv, ListsOK, Out
<1>2. \A d \in ended' \ slipped' : Gone(d)'
  BY DEF StaffInv, StaffTypeOK
<1>3. ASSUME NEW c \in Calls
      PROVE  PairOK(c)' /\ EndingOK(c)'
  <2>1. CASE call'[c] = call[c]
    <3>1. PairOK(c)'
      BY <2>1 DEF StaffInv, PairOK
    <3>2. call[c].all \subseteq Pairs
      BY DEF StaffInv, StaffTypeOK, Request
    <3>3. EndingOK(c)'
      BY <2>1, <3>2 DEF StaffInv, EndingOK, Out
    <3>4. QED
      BY <3>1, <3>3
  <2>2. QED
    BY <2>1
<1>4. QED
  BY <1>1, <1>2, <1>3 DEF StaffInv

\* A step that reads, or happens in a browser.
LEMMA NothingChanged ==
    ASSUME StaffInv, UNCHANGED <<issued, stale, keys, staffHistory>>,
           account' \in {"active", "suspended", "removed"},
           call' \in [Calls -> Request],
           \A c \in Calls : call'[c] = call[c] \/ (PairOK(c)' /\ EndingOK(c)')
    PROVE  StaffInv'
<1>1. /\ UNCHANGED <<issued, slipped>> /\ records' = records /\ devices' = devices
      /\ indexed' = indexed /\ ended' = ended /\ stale' = stale /\ black' = black
  BY DEF keys, staffHistory
<1>2. StaffTypeOK'
  BY <1>1 DEF StaffInv, StaffTypeOK
<1>3. \A d : Gone(d)' <=> Gone(d)
  BY <1>1 DEF Gone, Out
<1>4. QED
  BY <1>1, <1>2, <1>3, NothingIssued

\* ... of one request.
LEMMA OneRequest ==
    ASSUME StaffInv, UNCHANGED <<issued, stale, keys, staffHistory>>,
           account' \in {"active", "suspended", "removed"},
           NEW c \in Calls, NEW r \in Request, call' = [call EXCEPT ![c] = r],
           PairOK(c)', EndingOK(c)'
    PROVE  StaffInv'
<1>1. call \in [Calls -> Request]
  BY DEF StaffInv, StaffTypeOK
<1>2. call' \in [Calls -> Request] /\ \A d \in Calls \ {c} : call'[d] = call[d]
  BY <1>1
<1>3. QED
  BY <1>2, NothingChanged

\* ... that moves on.
LEMMA MovesOn ==
    ASSUME StaffInv, Reads, NEW c \in Calls, NEW at, Move(c, at),
           \/ at \in {"refused", "answered"}
           \/ /\ at = "principal" /\ call[c].at = "blacklist"
           \/ /\ at \in {"revoked", "staff", "delete"}
              /\ call[c].at \in {"record", "revoked", "staff"}
    PROVE  StaffInv'
<1> DEFINE r == [call[c] EXCEPT !.at = at]
<1>1. call \in [Calls -> Request] /\ call[c] \in Request
  BY DEF StaffInv, StaffTypeOK
<1>2. r \in Request
  BY <1>1 DEF Request
<1>3. call' = [call EXCEPT ![c] = r] /\ call'[c] = r
  BY <1>1 DEF Move
<1>4. /\ r.at = at /\ r.pair = call[c].pair /\ r.kind = call[c].kind
      /\ r.device = call[c].device
  BY <1>1 DEF Request
<1> HIDE DEF r
<1>5. PairOK(c)
  BY DEF StaffInv
<1>6. PairOK(c)'
  BY <1>3, <1>4, <1>5 DEF PairOK, Reads
<1>7. EndingOK(c)'
  BY <1>3, <1>4 DEF EndingOK, Ending
<1>8. QED
  BY <1>2, <1>3, <1>6, <1>7, OneRequest DEF Reads, StaffInv, StaffTypeOK

LEMMA ReadsKeepStaff ==
    ASSUME StaffInv, NEW c \in Calls,
           PassBlacklist(c) \/ GetStaffRefreshRecord(c)
           \/ IsStaffDeviceBlacklisted(c) \/ FindStaff(c)
    PROVE  StaffInv'
<1>1. CASE PassBlacklist(c)
  BY <1>1, MovesOn DEF PassBlacklist
<1>2. CASE GetStaffRefreshRecord(c)
  BY <1>2, MovesOn DEF GetStaffRefreshRecord
<1>3. CASE IsStaffDeviceBlacklisted(c)
  BY <1>3, MovesOn DEF IsStaffDeviceBlacklisted
<1>4. CASE FindStaff(c)
  BY <1>4, MovesOn DEF FindStaff
<1>5. QED
  BY <1>1, <1>2, <1>3, <1>4

LEMMA FindPrincipalKeepsStaff ==
    ASSUME StaffInv, NEW c \in Calls, FindPrincipal(c)
    PROVE  StaffInv'
<1> DEFINE all == IF call[c].kind = "logout" THEN {call[c].device}
                  ELSE {issued[p] : p \in Out}
           at == CASE account # "active"        -> "refused"
                   [] call[c].kind = "get"      -> "answered"
                   [] call[c].kind = "logout"   -> "members"
                   [] OTHER                     -> "devices"
           left == IF call[c].kind = "logout" THEN all ELSE {}
           some == IF call[c].kind = "get" THEN {} ELSE all
           r == [call[c] EXCEPT !.at = at, !.left = left, !.all = some]
<1>1. /\ call \in [Calls -> Request] /\ call[c] \in Request /\ PairOK(c)
      /\ call[c].at = "principal" /\ StaffTypeOK
  BY DEF StaffInv, StaffTypeOK, FindPrincipal
<1>2. call[c].device \in Pairs
  BY <1>1 DEF PairOK
<1>3. all \in SUBSET Pairs /\ (call[c].kind # "logout" => all = {issued[p] : p \in Out})
  BY <1>1, <1>2, PairsOut
<1>4. call' = [call EXCEPT ![c].at = at, ![c].left = left, ![c].all = some]
  BY DEF FindPrincipal
<1>5. /\ UNCHANGED <<account, issued, stale, keys, staffHistory>>
      /\ account' \in {"active", "suspended", "removed"}
  BY <1>1 DEF FindPrincipal, Reads, StaffTypeOK
<1> HIDE DEF all
<1>6. /\ at \in {"refused", "answered", "members", "devices"}
      /\ left \in SUBSET Pairs /\ some \in SUBSET Pairs
      /\ at = "members" => call[c].kind = "logout" /\ left = all /\ some = all
      /\ at = "devices" => call[c].kind # "logout" /\ some = {issued[p] : p \in Out}
  BY <1>3
<1> HIDE DEF at, left, some
<1>7. call' = [call EXCEPT ![c] = r] /\ call'[c] = r
  BY <1>1, <1>4
<1>8. /\ r \in Request /\ r.at = at /\ r.left = left /\ r.all = some
      /\ r.kind = call[c].kind /\ r.pair = call[c].pair
  BY <1>1, <1>6 DEF Request, Ending
<1> HIDE DEF r
<1>9. PairOK(c)'
  BY <1>1, <1>5, <1>6, <1>7, <1>8 DEF PairOK
<1>10. EndingOK(c)'
  BY <1>5, <1>6, <1>7, <1>8 DEF EndingOK, Ending, Out
<1>11. QED
  BY <1>5, <1>7, <1>8, <1>9, <1>10, OneRequest

LEMMA GetDevicesKeepsStaff ==
    ASSUME StaffInv, NEW c \in Calls, GetDevices(c)
    PROVE  StaffInv'
<1> DEFINE r == [call[c] EXCEPT !.left = devices, !.at = "members"]
<1>1. /\ call \in [Calls -> Request] /\ call[c] \in Request /\ PairOK(c) /\ EndingOK(c)
      /\ call[c].at = "devices" /\ StaffTypeOK /\ ListsOK
  BY DEF StaffInv, StaffTypeOK, GetDevices
<1>2. /\ r \in Request /\ r.at = "members" /\ r.left = devices
      /\ r.kind = call[c].kind /\ r.pair = call[c].pair /\ r.all = call[c].all
      /\ call[c].all \subseteq Pairs
  BY <1>1 DEF Request, StaffTypeOK, Ending
<1>3. call' = [call EXCEPT ![c] = r] /\ call'[c] = r
  BY <1>1 DEF GetDevices
<1>4. /\ UNCHANGED <<account, issued, stale, keys, staffHistory>>
      /\ account' \in {"active", "suspended", "removed"}
  BY <1>1 DEF GetDevices, Reads, StaffTypeOK
<1> HIDE DEF r
<1>5. PairOK(c)'
  BY <1>1, <1>2, <1>3, <1>4 DEF PairOK
<1>6. \A d : Gone(d)' <=> Gone(d)
  BY <1>4 DEF Gone, Out, keys
<1>7. EndingOK(c)'
  BY <1>1, <1>2, <1>3, <1>4, <1>6 DEF EndingOK, Ending, ListsOK, Out, staffHistory
<1>8. QED
  BY <1>2, <1>3, <1>4, <1>5, <1>7, OneRequest

LEMMA GetTokensKeepsStaff ==
    ASSUME StaffInv, NEW c \in Calls, GetTokens(c)
    PROVE  StaffInv'
<1>1. /\ call \in [Calls -> Request] /\ call[c] \in Request /\ PairOK(c) /\ EndingOK(c)
      /\ call[c].at = "members" /\ StaffTypeOK /\ ListsOK
  BY DEF StaffInv, StaffTypeOK, GetTokens
<1>2. PICK d \in call[c].left :
        call' = [call EXCEPT ![c].at = "wipe", ![c].device = d,
                             ![c].read = {p \in indexed : issued[p] = d}]
  BY DEF GetTokens
<1> DEFINE read == {p \in indexed : issued[p] = d}
           r == [call[c] EXCEPT !.at = "wipe", !.device = d, !.read = read]
<1>3. d \in Pairs /\ read \in SUBSET Pairs
  BY <1>1 DEF Request, StaffTypeOK
<1>4. \A p \in indexed : issued[p] = d => p \in read
  OBVIOUS
<1>5. call' = [call EXCEPT ![c].at = "wipe", ![c].device = d, ![c].read = read]
  BY <1>2
<1> HIDE DEF read
<1>6. call' = [call EXCEPT ![c] = r] /\ call'[c] = r
  BY <1>1, <1>5
<1>7. /\ r \in Request /\ r.at = "wipe" /\ r.device = d /\ r.read = read
      /\ r.kind = call[c].kind /\ r.pair = call[c].pair
      /\ r.left = call[c].left /\ r.all = call[c].all
  <2>1. d \in 0..MaxIssued
    BY <1>3, StaffNumbers
  <2>2. QED
    BY <1>1, <1>3, <2>1 DEF Request, Ending
<1>8. /\ UNCHANGED <<account, issued, stale, keys, staffHistory>>
      /\ account' \in {"active", "suspended", "removed"}
  BY <1>1 DEF GetTokens, Reads, StaffTypeOK
<1> HIDE DEF r
<1>9. PairOK(c)'
  BY <1>1, <1>3, <1>6, <1>7, <1>8 DEF PairOK
<1>10. \A e : Gone(e)' <=> Gone(e)
  BY <1>8 DEF Gone, Out, keys
<1>11. \A p \in records : issued[p] = d /\ d \notin slipped => p \in read
  BY <1>1, <1>4 DEF ListsOK
<1>12. EndingOK(c)'
  BY <1>1, <1>6, <1>7, <1>8, <1>10, <1>11 DEF EndingOK, Ending, Out, staffHistory, keys
<1>13. QED
  BY <1>6, <1>7, <1>8, <1>9, <1>12, OneRequest

LEMMA DeleteKeepsStaff ==
    ASSUME StaffInv, NEW c \in Calls, DeleteStaffRefreshRecord(c)
    PROVE  StaffInv'
<1> DEFINE r == [call[c] EXCEPT !.at = "store"]
<1>1. /\ call \in [Calls -> Request] /\ call[c] \in Request /\ PairOK(c)
      /\ call[c].at = "delete" /\ StaffTypeOK
  BY DEF StaffInv, StaffTypeOK, DeleteStaffRefreshRecord
<1>2. /\ r \in Request /\ r.at = "store" /\ r.kind = call[c].kind
      /\ r.pair = call[c].pair /\ r.device = call[c].device
  BY <1>1 DEF Request
<1>3. call' = [call EXCEPT ![c] = r] /\ call'[c] = r
  BY <1>1 DEF DeleteStaffRefreshRecord, Move
<1>4. /\ records' = records \ {call[c].pair} /\ indexed' = indexed \ {call[c].pair}
      /\ UNCHANGED <<account, issued, stale, devices, black, ended, slipped>>
  BY DEF DeleteStaffRefreshRecord, staffHistory
<1> HIDE DEF r
<1>5. StaffTypeOK'
  <2>1. call' \in [Calls -> Request]
    BY <1>1, <1>2, <1>3
  <2>2. QED
    BY <1>1, <1>4, <2>1 DEF StaffTypeOK
<1>6. \A d : Gone(d) => Gone(d)'
  BY <1>4 DEF Gone, Out
<1>7. PairOK(c)' /\ EndingOK(c)'
  BY <1>1, <1>2, <1>3, <1>4 DEF PairOK, EndingOK, Ending
<1>8. \A d \in Calls : call'[d] = call[d] \/ (PairOK(d)' /\ EndingOK(d)')
  BY <1>1, <1>3, <1>7
<1>9. QED
  BY <1>4, <1>5, <1>6, <1>8, NothingIssued

\* The device is gone once its tokens, all it has, are deleted, and what is out
\* is blacklisted.
LEMMA WipeKeepsStaff ==
    ASSUME StaffInv, NEW c \in Calls, WipeDevice(c)
    PROVE  StaffInv'
<1>0. PICK d : d = call[c].device
  OBVIOUS
<1> DEFINE r == [call[c] EXCEPT !.at = "members", !.read = {}, !.left = @ \ {d}]
<1>1. /\ call \in [Calls -> Request] /\ call[c] \in Request /\ PairOK(c) /\ EndingOK(c)
      /\ call[c].at = "wipe" /\ StaffTypeOK
  BY DEF StaffInv, StaffTypeOK, WipeDevice
<1>2. d \in Pairs
  BY <1>0, <1>1 DEF PairOK
<1>3. /\ r \in Request /\ r.at = "members" /\ r.left = call[c].left \ {d}
      /\ r.kind = call[c].kind /\ r.pair = call[c].pair /\ r.all = call[c].all
      /\ call[c].all \subseteq Pairs
  BY <1>1 DEF Request, Ending
<1>4. call' = [call EXCEPT ![c] = r] /\ call'[c] = r
  BY <1>0, <1>1 DEF WipeDevice
<1>5. /\ records' = records \ call[c].read
      /\ indexed' = IF call[c].read = {} THEN indexed ELSE {p \in indexed : issued[p] # d}
      /\ devices' = devices \ {d} /\ black' = [black EXCEPT ![d] = Len(issued)]
      /\ UNCHANGED <<account, issued, stale, ended, slipped>>
  BY <1>0 DEF WipeDevice, staffHistory
<1> HIDE DEF r
<1>6. StaffTypeOK'
  <2>1. call' \in [Calls -> Request]
    BY <1>1, <1>3, <1>4
  <2>2. black' \in [Pairs -> 0..MaxIssued]
    BY <1>1, <1>2, <1>5, PairsOut, StaffNumbers DEF StaffTypeOK
  <2>3. indexed' \subseteq Pairs
    BY <1>1, <1>5 DEF StaffTypeOK
  <2>4. QED
    BY <1>1, <1>5, <2>1, <2>2, <2>3 DEF StaffTypeOK
<1>7. \A e \in Pairs \ {d} : Gone(e) => Gone(e)'
  <2>1. \A e \in Pairs \ {d} : black'[e] = black[e]
    BY <1>1, <1>5 DEF StaffTypeOK
  <2>2. QED
    BY <1>5, <2>1 DEF Gone, Out
<1>8. d \notin slipped => Gone(d)'
  <2> SUFFICES ASSUME d \notin slipped, NEW p \in Out, issued[p] = d
               PROVE  p \notin records' /\ p <= black'[d]
    BY <1>5 DEF Gone, Out
  <2>1. p \in records => p \in call[c].read
    BY <1>0, <1>1 DEF EndingOK, Ending
  <2>2. black'[d] = Len(issued)
    BY <1>1, <1>2, <1>5 DEF StaffTypeOK
  <2>3. QED
    BY <1>1, <1>5, <2>1, <2>2, PairsOut
<1>9. \A p \in records' : p \in indexed => p \in indexed' \/ issued[p] \in slipped
  <2> SUFFICES ASSUME NEW p \in records', p \in indexed, p \notin indexed',
                      issued[p] \notin slipped
               PROVE  FALSE
    OBVIOUS
  <2>1. issued[p] = d
    BY <1>5
  <2>2. p \in records /\ p \notin call[c].read
    BY <1>5
  <2>3. QED
    BY <1>0, <1>1, <2>1, <2>2 DEF EndingOK, Ending
<1>10. PairOK(c)'
  BY <1>1, <1>3, <1>4, <1>5 DEF PairOK
<1>11. EndingOK(c)'
  <2>1. /\ call[c].kind # "logout" => \A p \in Out : issued[p] \in call[c].all \cup slipped
        /\ call[c].kind = "logout" => call[c].left \subseteq call[c].all
        /\ \A e \in call[c].all \ (call[c].left \cup slipped) : Gone(e)
    BY <1>1 DEF EndingOK, Ending
  <2>2. \A e \in call[c].all \ ((call[c].left \ {d}) \cup slipped) : Gone(e)'
    BY <1>3, <1>7, <1>8, <2>1
  <2>3. QED
    BY <1>3, <1>4, <1>5, <2>1, <2>2 DEF EndingOK, Out
<1>12. \A e \in Calls : call'[e] = call[e] \/ (PairOK(e)' /\ EndingOK(e)')
  BY <1>1, <1>4, <1>10, <1>11
<1>13. \A e \in Pairs \ slipped : Gone(e) => Gone(e)'
  BY <1>7, <1>8
<1>14. \A e \in devices \ slipped : e \in devices' \/ Gone(e)'
  BY <1>5, <1>8
<1>15. QED
  <2>1. records' \subseteq records /\ UNCHANGED <<issued, slipped>> /\ ended' = ended
    BY <1>5
  <2>2. QED
    BY <1>6, <1>9, <1>12, <1>13, <1>14, <2>1, NothingIssued

LEMMA SessionsEndedKeepsStaff ==
    ASSUME StaffInv, NEW c \in Calls, SessionsEnded(c)
    PROVE  StaffInv'
<1> DEFINE r == [NoCall EXCEPT !.kind = call[c].kind, !.at = "answered"]
<1>1. /\ call \in [Calls -> Request] /\ call[c] \in Request /\ EndingOK(c)
      /\ call[c].at = "members" /\ call[c].left = {} /\ StaffTypeOK
  BY DEF StaffInv, StaffTypeOK, SessionsEnded
<1>2. r \in Request /\ r.at = "answered" /\ r.pair = 0
  BY <1>1, NoCallIsRequest DEF Request, NoCall
<1>3. call' = [call EXCEPT ![c] = r] /\ call'[c] = r
  BY <1>1 DEF SessionsEnded
<1>4. /\ devices' = IF call[c].kind = "logout" THEN devices ELSE {}
      /\ ended' = ended \cup call[c].all
      /\ UNCHANGED <<account, issued, stale, records, indexed, black, slipped>>
  BY DEF SessionsEnded
<1> HIDE DEF r
<1>5. StaffTypeOK'
  <2>1. call' \in [Calls -> Request]
    BY <1>1, <1>2, <1>3
  <2>2. ended' \subseteq Pairs
    BY <1>1, <1>4 DEF StaffTypeOK, Request
  <2>3. devices' \subseteq Pairs
    BY <1>1, <1>4 DEF StaffTypeOK
  <2>4. QED
    BY <1>1, <1>4, <2>1, <2>2, <2>3 DEF StaffTypeOK
<1>6. \A d : Gone(d)' <=> Gone(d)
  BY <1>4 DEF Gone, Out
<1>7. \A d \in call[c].all \ slipped : Gone(d)
  BY <1>1 DEF EndingOK, Ending
<1>8. ASSUME NEW d \in devices \ slipped, d \notin devices'
      PROVE  Gone(d)
  <2>1. \A p \in Out : issued[p] \in call[c].all \cup slipped
    BY <1>1, <1>4, <1>8 DEF EndingOK, Ending
  <2>2. QED
    BY <1>7, <2>1 DEF Gone
<1>9. PairOK(c)' /\ EndingOK(c)'
  BY <1>1, <1>2, <1>3, <1>4, PairsOut DEF PairOK, EndingOK, Ending
<1>10. \A d \in Calls : call'[d] = call[d] \/ (PairOK(d)' /\ EndingOK(d)')
  BY <1>1, <1>3, <1>9
<1>11. /\ records' \subseteq records /\ UNCHANGED <<issued, slipped>>
       /\ \A d \in devices \ slipped : d \in devices' \/ Gone(d)'
       /\ \A p \in records' : p \in indexed => p \in indexed' \/ issued[p] \in slipped
       /\ \A d \in ended' : d \in ended \/ d \in slipped \/ Gone(d)'
       /\ \A d \in Pairs \ slipped : Gone(d) => Gone(d)'
  BY <1>4, <1>6, <1>7, <1>8
<1>12. QED
  BY <1>5, <1>10, <1>11, NothingIssued

\* Whoever is given a token while his sessions are being ended has slipped; the
\* others are listed, as they were.
LEMMA IssueKeepsStaff ==
    ASSUME StaffInv, NEW c \in Calls, IssueSession(c)
    PROVE  StaffInv'
<1>0. PICK n, d : /\ n = Len(issued) + 1
                  /\ d = IF call[c].kind = "login" THEN n ELSE call[c].device
  OBVIOUS
<1> DEFINE r == [NoCall EXCEPT !.kind = call[c].kind, !.at = "answered", !.pair = n]
<1>1. /\ call \in [Calls -> Request] /\ call[c] \in Request /\ PairOK(c)
      /\ call[c].at = "store" /\ n \in Pairs /\ StaffTypeOK /\ ListsOK
      /\ issued \in Seq(Pairs) /\ Len(issued) \in Nat /\ Out = 1..Len(issued)
      /\ \A p \in Out : issued[p] \in Pairs
  BY <1>0, PairsOut DEF StaffInv, StaffTypeOK, IssueSession
<1>2. d \in Pairs
  BY <1>0, <1>1 DEF PairOK
<1>3. /\ r \in Request /\ r.at = "answered" /\ r.pair = n
  <2>1. n \in 0..MaxIssued
    BY <1>1, StaffNumbers
  <2>2. QED
    BY <1>1, <2>1, NoCallIsRequest DEF Request, NoCall
<1>4. call' = [call EXCEPT ![c] = r] /\ call'[c] = r
  BY <1>0, <1>1 DEF IssueSession
<1>5. /\ issued' = Append(issued, d)
      /\ records' = records \cup {n} /\ indexed' = indexed \cup {n}
      /\ devices' = devices \cup {d} /\ slipped' = slipped \cup {e \in {d} : Slips(e)}
      /\ UNCHANGED <<account, stale, black, ended>>
  BY <1>0 DEF IssueSession, StoreStaffRefreshRecord
<1> HIDE DEF r
<1>6. /\ issued' \in Seq(Pairs) /\ Len(issued') = n /\ Out' = Out \cup {n}
      /\ issued'[n] = d /\ \A p \in Out : p # n /\ issued'[p] = issued[p]
  <2>1. issued' \in Seq(Pairs) /\ Len(issued') = n
    BY <1>0, <1>1, <1>2, <1>5
  <2>2. Out' = 1..n
    BY <2>1 DEF Out
  <2>3. issued'[n] = d /\ \A p \in Out : p # n /\ issued'[p] = issued[p]
    BY <1>0, <1>1, <1>2, <1>5
  <2>4. 1..n = (1..Len(issued)) \cup {n}
    BY <1>0, <1>1
  <2>5. QED
    BY <1>1, <2>1, <2>2, <2>3, <2>4
<1>7. StaffTypeOK'
  <2>1. call' \in [Calls -> Request]
    BY <1>1, <1>3, <1>4
  <2>2. slipped' \subseteq Pairs
    BY <1>1, <1>2, <1>5 DEF StaffTypeOK
  <2>3. Len(issued') <= MaxIssued
    BY <1>1, <1>6, StaffNumbers
  <2>4. QED
    BY <1>1, <1>2, <1>5, <1>6, <2>1, <2>2, <2>3 DEF StaffTypeOK
<1>8. \A e : e # d /\ Gone(e) => Gone(e)'
  BY <1>5, <1>6 DEF Gone
<1>9. Slips(d) => d \in slipped'
  BY <1>5
<1>10. slipped \subseteq slipped'
  BY <1>5
<1>11. ListsOK'
  <2>1. \A e \in Pairs \ slipped' : e \in devices' \/ Gone(e)'
    BY <1>1, <1>5, <1>8, <1>10 DEF ListsOK
  <2>2. \A p \in records' : p \in Out' /\ (issued'[p] \in slipped' \/ p \in indexed')
    BY <1>1, <1>5, <1>6, <1>10 DEF ListsOK
  <2>3. QED
    BY <2>1, <2>2 DEF ListsOK
<1>12. \A e \in ended' \ slipped' : Gone(e)'
  BY <1>5, <1>8, <1>9, <1>10 DEF StaffInv, Slips
<1>13. ASSUME NEW e \in Calls
       PROVE  PairOK(e)' /\ EndingOK(e)'
  <2>1. CASE e = c
    <3>1. n \in 0..n
      BY <1>0, <1>1
    <3>2. PairOK(e)'
      BY <1>3, <1>4, <1>6, <2>1, <3>1 DEF PairOK
    <3>3. EndingOK(e)'
      BY <1>3, <1>4, <2>1 DEF EndingOK, Ending
    <3>4. QED
      BY <3>2, <3>3
  <2>2. CASE e # c
    <3>1. call'[e] = call[e] /\ PairOK(e) /\ EndingOK(e) /\ call[e] \in Request
      BY <1>1, <1>4, <2>2 DEF StaffInv
    <3>2. 0..Len(issued) \subseteq 0..n
      BY <1>0, <1>1
    <3>3. PairOK(e)'
      BY <1>6, <3>1, <3>2 DEF PairOK
    <3>4. EndingOK(e)'
      <4> SUFFICES ASSUME call[e].at \in Ending
                   PROVE  EndingOK(e)'
        BY <3>1 DEF EndingOK
      <4>1. /\ call[e].kind # "logout" => d \in slipped'
            /\ d \in call[e].all => d \in slipped'
        BY <1>9 DEF Slips
      <4>2. call[e].kind # "logout" =>
              \A p \in Out' : issued'[p] \in call'[e].all \cup slipped'
        BY <1>6, <1>10, <3>1, <4>1 DEF EndingOK
      <4>3. call[e].at # "devices" =>
              \A g \in call'[e].all \ (call'[e].left \cup slipped') : Gone(g)'
        BY <1>8, <1>10, <3>1, <4>1 DEF EndingOK
      <4>4. call[e].at = "wipe" /\ call'[e].device \notin slipped' =>
              \A p \in records' : issued'[p] = call'[e].device => p \in call'[e].read
        <5> SUFFICES ASSUME call[e].at = "wipe", call[e].device \notin slipped',
                            NEW p \in records', issued'[p] = call[e].device
                     PROVE  p \in call[e].read
          BY <3>1
        <5>1. call[e].device # d
          BY <3>1, <4>1 DEF EndingOK
        <5>2. p \in records /\ p \in Out
          BY <1>1, <1>5, <1>6, <5>1 DEF ListsOK
        <5>3. QED
          BY <1>6, <1>10, <3>1, <5>2 DEF EndingOK
      <4>5. QED
        BY <3>1, <4>2, <4>3, <4>4 DEF EndingOK
    <3>5. QED
      BY <3>3, <3>4
  <2>3. QED
    BY <2>1, <2>2
<1>14. QED
  BY <1>7, <1>11, <1>12, <1>13 DEF StaffInv

LEMMA CallStepKeepsStaff ==
    ASSUME StaffInv, NEW c \in Calls, CallStep(c)
    PROVE  StaffInv'
BY ReadsKeepStaff, FindPrincipalKeepsStaff, DeleteKeepsStaff, IssueKeepsStaff,
   GetDevicesKeepsStaff, GetTokensKeepsStaff, WipeKeepsStaff, SessionsEndedKeepsStaff
   DEF CallStep

\* An administrator's end of sessions starts with all that is out.
LEMMA EndForKeepsStaff ==
    ASSUME StaffInv, NextCall \in Free, NEW s \in {"active", "suspended", "removed"},
           EndFor(s)
    PROVE  StaffInv'
<1> DEFINE all == {issued[p] : p \in Out}
           r == [NoCall EXCEPT !.kind = "admin", !.at = "devices", !.all = all]
<1>1. PICK c \in Calls : c = NextCall
  BY FreeCalls
<1>2. call \in [Calls -> Request] /\ StaffTypeOK
  BY DEF StaffInv, StaffTypeOK
<1>3. all \in SUBSET Pairs
  BY <1>2, PairsOut
<1>4. /\ call' = [call EXCEPT ![c] = r]
      /\ UNCHANGED <<issued, stale, keys, staffHistory>> /\ account' = s
  BY <1>1 DEF EndFor
<1>5. all = {issued[p] : p \in Out}
  OBVIOUS
<1> HIDE DEF all
<1>6. /\ r \in Request /\ r.at = "devices" /\ r.kind = "admin" /\ r.pair = 0
      /\ r.all = all
  BY <1>3, NoCallIsRequest DEF Request, NoCall, Kinds, Ending
<1>7. call'[c] = r
  BY <1>2, <1>4
<1> HIDE DEF r
<1>8. PairOK(c)' /\ EndingOK(c)'
  BY <1>2, <1>4, <1>5, <1>6, <1>7, PairsOut DEF PairOK, EndingOK, Ending, Out, staffHistory
<1>9. QED
  BY <1>4, <1>6, <1>8, OneRequest

LEMMA TimeKeepsStaff ==
    ASSUME StaffInv,
           \/ Reactivate \/ (\E p \in Pairs : AccessExpires(p))
           \/ (\E d \in Pairs : BlacklistLapses(d))
    PROVE  StaffInv'
<1>1. StaffTypeOK
  BY DEF StaffInv
<1>2. CASE Reactivate
  BY <1>1, <1>2, NothingChanged DEF Reactivate, StaffTypeOK
<1>3. CASE \E p \in Pairs : AccessExpires(p)
  <2>1. PICK p \in Pairs : AccessExpires(p)
    BY <1>3
  <2>2. /\ stale' = stale \cup {p} /\ UNCHANGED <<account, issued, call>>
        /\ UNCHANGED <<records, indexed, devices, black, ended, slipped>>
    BY <2>1 DEF AccessExpires, keys, staffHistory
  <2>3. StaffTypeOK'
    BY <1>1, <2>2 DEF StaffTypeOK
  <2>4. \A d : Gone(d) => Gone(d)'
    BY <2>2 DEF Gone, Out
  <2>5. QED
    BY <2>2, <2>3, <2>4, NothingIssued
<1>4. CASE \E d \in Pairs : BlacklistLapses(d)
  <2>1. PICK d \in Pairs : BlacklistLapses(d)
    BY <1>4
  <2>2. /\ black' = [black EXCEPT ![d] = 0] /\ UNCHANGED <<account, issued, stale, call>>
        /\ UNCHANGED <<records, indexed, devices, ended, slipped>>
        /\ \A p \in 1..black[d] : issued[p] = d => p \in stale
    BY <2>1 DEF BlacklistLapses, staffHistory
  <2>3. StaffTypeOK'
    BY <1>1, <2>2, StaffNumbers DEF StaffTypeOK
  <2>4. ASSUME NEW e \in Pairs, Gone(e)
        PROVE  Gone(e)'
    <3>1. black[e] \in Nat /\ (e # d => black'[e] = black[e])
      BY <1>1, <2>2, StaffNumbers DEF StaffTypeOK
    <3>2. \A p \in Out : p \in 1..black[e] <=> p <= black[e]
      BY <1>1, <3>1, PairsOut
    <3>3. QED
      BY <2>2, <2>4, <3>1, <3>2 DEF Gone, Out
  <2>5. QED
    BY <2>2, <2>3, <2>4, NothingIssued
<1>5. QED
  BY <1>2, <1>3, <1>4

-----------------------------------------------------------------------------
(* The browser: types and tokens *)

ConsoleBase == ConsoleTypeOK /\ StaffInv /\ HeldOK

\* What a step of the browser may do to a request.
Left(c) ==
    \/ call'[c] \in {call[c], NoCall}
    \/ \E kind \in Guarded \cup {"refresh", "login"}, pair \in 0..Len(issued) :
         call'[c] = Arriving(kind, pair)

BrowserStep ==
    /\ Elsewhere
    /\ call' = [c \in Calls |-> call'[c]] /\ \A c \in Calls : Left(c)
    /\ token' \in [Tabs -> 0..Len(issued)]
    /\ status' \in [Tabs -> {"unknown", "in", "out"}]
    /\ queue' \in Seq(Tabs) /\ asker' \in [Calls -> Tabs \cup {NoTab}]
    /\ waits' \subseteq Calls /\ again' \subseteq Calls
    /\ \A c \in waits' : \/ c \in waits /\ call'[c] = call[c]
                         \/ call'[c].at = "refused" /\ call'[c].kind \in Guarded

LEMMA BaseFacts ==
    ASSUME ConsoleBase
    PROVE  /\ StaffTypeOK /\ call \in [Calls -> Request]
           /\ cookie \in 0..Len(issued) /\ token \in [Tabs -> 0..Len(issued)]
           /\ status \in [Tabs -> {"unknown", "in", "out"}]
           /\ queue \in Seq(Tabs) /\ asker \in [Calls -> Tabs \cup {NoTab}]
           /\ waits \subseteq Calls /\ again \subseteq Calls
           /\ \A c \in Calls : call[c].pair \in 0..Len(issued)
           /\ \A c \in waits : call[c].at = "refused" /\ call[c].kind \in Guarded
           /\ 0 \in 0..Len(issued)
<1>1. StaffTypeOK
  BY DEF ConsoleBase, StaffInv
<1>2. QED
  BY <1>1, PairsOut DEF ConsoleBase, ConsoleTypeOK, StaffTypeOK, HeldOK, StaffInv, PairOK

LEMMA ArrivingFacts ==
    ASSUME StaffTypeOK, NEW kind \in Guarded \cup {"refresh", "login"},
           NEW pair \in 0..Len(issued)
    PROVE  /\ Arriving(kind, pair) \in Request
           /\ Arriving(kind, pair).kind = kind /\ Arriving(kind, pair).pair = pair
           /\ Arriving(kind, pair).at \in {"store", "refused", "record", "blacklist"}
           /\ Arriving(kind, pair).at = "store" <=> kind = "login"
           /\ Arriving(kind, pair).at = "record" <=> kind = "refresh" /\ pair # 0
           /\ Arriving(kind, pair).at = "blacklist" => kind \in Guarded
           /\ Arriving(kind, pair).at \in {"record", "blacklist"} =>
                /\ Arriving(kind, pair).device \in Pairs /\ pair \in Out
                /\ Arriving(kind, pair).device = issued[pair]
           /\ Arriving(kind, pair).all = {}
<1> DEFINE device == IF pair = 0 THEN 0 ELSE issued[pair]
           at == IF kind = "login" THEN "store"
                 ELSE IF pair = 0 \/ (kind \in Guarded /\ pair \in stale)
                      THEN "refused"
                 ELSE IF kind = "refresh" THEN "record" ELSE "blacklist"
<1>1. pair \in 0..MaxIssued /\ (pair # 0 => pair \in Out)
  BY PairsOut
<1>2. (pair # 0 => device \in Pairs) /\ device \in 0..MaxIssued
  <2>1. CASE pair = 0
    BY <2>1, StaffNumbers
  <2>2. CASE pair # 0
    BY <1>1, <2>2, PairsOut, StaffNumbers
  <2>3. QED
    BY <2>1, <2>2
<1>3. /\ at \in {"store", "refused", "record", "blacklist"}
      /\ at = "store" <=> kind = "login"
      /\ at = "record" <=> kind = "refresh" /\ pair # 0
      /\ at = "blacklist" => kind \in Guarded
      /\ at \in {"record", "blacklist"} => pair # 0
  BY DEF Guarded
<1>4. Arriving(kind, pair) = [NoCall EXCEPT !.kind = kind, !.pair = pair,
                                            !.device = device, !.at = at]
  BY DEF Arriving
<1>0. pair # 0 => device = issued[pair]
  OBVIOUS
<1> HIDE DEF device, at
<1>5. /\ Arriving(kind, pair).kind = kind /\ Arriving(kind, pair).pair = pair
      /\ Arriving(kind, pair).device = device /\ Arriving(kind, pair).at = at
      /\ Arriving(kind, pair).all = {}
  BY <1>4 DEF NoCall
<1>6. Arriving(kind, pair) \in Request
  BY <1>1, <1>2, <1>3, <1>4, NoCallIsRequest DEF Request, NoCall, Kinds, Guarded
<1>7. QED
  BY <1>0, <1>1, <1>2, <1>3, <1>5, <1>6

LEMMA BrowserKeepsBase ==
    ASSUME ConsoleBase, BrowserStep, cookie' \in 0..Len(issued),
           disturbed' \in BOOLEAN, outside' \in 0..MaxOutside
    PROVE  ConsoleBase'
<1>1. /\ UNCHANGED <<account, issued, stale, keys, staffHistory>>
      /\ account' \in {"active", "suspended", "removed"} /\ issued' = issued
  BY BaseFacts DEF BrowserStep, Elsewhere, StaffTypeOK
<1>2. ASSUME NEW c \in Calls
      PROVE  /\ call'[c] \in Request
             /\ call'[c] = call[c] \/ (PairOK(c)' /\ EndingOK(c)')
  <2>1. CASE call'[c] = call[c]
    BY <2>1, BaseFacts
  <2>2. CASE call'[c] = NoCall
    BY <1>1, <2>2, BaseFacts, NoCallIsRequest DEF NoCall, PairOK, EndingOK, Ending
  <2>3. CASE \E kind \in Guarded \cup {"refresh", "login"}, pair \in 0..Len(issued) :
               call'[c] = Arriving(kind, pair)
    <3>1. PICK kind \in Guarded \cup {"refresh", "login"}, pair \in 0..Len(issued) :
            call'[c] = Arriving(kind, pair)
      BY <2>3
    <3>2. StaffTypeOK
      BY BaseFacts
    <3>3. PairOK(c)' /\ EndingOK(c)' /\ call'[c] \in Request
      BY <1>1, <3>1, <3>2, ArrivingFacts DEF PairOK, EndingOK, Ending, Guarded
    <3>4. QED
      BY <3>3
  <2>4. QED
    BY <2>1, <2>2, <2>3 DEF BrowserStep, Left
<1>3. call' \in [Calls -> Request]
  BY <1>2 DEF BrowserStep
<1>4. StaffInv'
  BY <1>1, <1>2, <1>3, NothingChanged DEF ConsoleBase
<1>5. HeldOK'
  BY <1>1, BaseFacts DEF HeldOK, BrowserStep
<1>6. ConsoleTypeOK'
  <2>1. 0..Len(issued) \subseteq 0..MaxIssued
    BY PairsOut, BaseFacts
  <2>2. StaffTypeOK'
    BY <1>4 DEF StaffInv
  <2>3. token' \in [Tabs -> 0..MaxIssued]
    BY <2>1 DEF BrowserStep
  <2>4. QED
    BY <2>1, <2>2, <2>3 DEF ConsoleTypeOK, BrowserStep
<1>7. QED
  BY <1>4, <1>5, <1>6 DEF ConsoleBase

LEMMA ReleaseKeepsHead ==
    ASSUME queue \in Seq(Tabs), NEW t \in Tabs, Release(t)
    PROVE  /\ queue' \in Seq(Tabs)
           /\ queue # <<>> /\ Head(queue) # t => queue' # <<>> /\ Head(queue') = Head(queue)
<1>1. CASE ~InQueue(t)
  BY <1>1 DEF Release
<1>2. CASE InQueue(t)
  <2>1. PICK i \in DOMAIN queue :
          /\ queue[i] = t
          /\ queue' = SubSeq(queue, 1, i - 1) \o SubSeq(queue, i + 1, Len(queue))
    <3> DEFINE i == CHOOSE i \in DOMAIN queue : queue[i] = t
    <3>1. i \in DOMAIN queue /\ queue[i] = t
      BY <1>2 DEF InQueue
    <3>2. queue' = SubSeq(queue, 1, i - 1) \o SubSeq(queue, i + 1, Len(queue))
      BY <1>2 DEF Release
    <3> HIDE DEF i
    <3>3. QED
      BY <3>1, <3>2
  <2>2. i \in 1..Len(queue) /\ Len(queue) \in Nat
    OBVIOUS
  <2>3. /\ SubSeq(queue, 1, i - 1) \in Seq(Tabs)
        /\ SubSeq(queue, i + 1, Len(queue)) \in Seq(Tabs)
    BY <2>2
  <2>4. queue' \in Seq(Tabs)
    BY <2>1, <2>3
  <2>5. ASSUME queue # <<>>, Head(queue) # t
        PROVE  queue' # <<>> /\ Head(queue') = Head(queue)
    <3>1. i # 1
      BY <2>1, <2>5
    <3>2. Len(SubSeq(queue, 1, i - 1)) = i - 1 /\ SubSeq(queue, 1, i - 1)[1] = queue[1]
      BY <2>2, <3>1
    <3>3. \A a, b \in Seq(Tabs) : Len(a) >= 1 => a \o b # <<>> /\ Head(a \o b) = a[1]
      OBVIOUS
    <3>4. queue' # <<>> /\ Head(queue') = queue[1]
      BY <2>1, <2>2, <2>3, <3>1, <3>2, <3>3
    <3>5. QED
      BY <2>5, <3>4
  <2>6. QED
    BY <2>4, <2>5
<1>3. QED
  BY <1>1, <1>2

LEMMA OnceKeepsHead ==
    ASSUME queue \in Seq(Tabs), NEW t \in Tabs, RefreshOnce(t)
    PROVE  /\ queue' \in Seq(Tabs)
           /\ queue # <<>> => queue' # <<>> /\ Head(queue') = Head(queue)
<1>1. CASE InQueue(t)
  BY <1>1 DEF RefreshOnce
<1>2. CASE ~InQueue(t)
  <2>1. queue' = Append(queue, t)
    BY <1>2 DEF RefreshOnce
  <2>2. /\ queue' \in Seq(Tabs) /\ Len(queue') = Len(queue) + 1
        /\ queue # <<>> => Len(queue) >= 1 /\ queue'[1] = queue[1]
    BY <2>1
  <2>3. QED
    BY <2>2
<1>3. QED
  BY <1>1, <1>2

LEMMA LoadIsStep ==
    ASSUME ConsoleBase, NEW t \in Tabs, NEW kept \in 0..Len(issued), Load(t, kept)
    PROVE  BrowserStep
<1>1. /\ token' \in [Tabs -> 0..Len(issued)]
      /\ status' \in [Tabs -> {"unknown", "in", "out"}]
  BY BaseFacts DEF Load
<1>2. queue' \in Seq(Tabs)
  BY BaseFacts, ReleaseKeepsHead DEF Load
<1>3. asker' \in [Calls -> Tabs \cup {NoTab}] /\ waits' \subseteq Calls /\ again' \subseteq Calls
  BY BaseFacts DEF Load
<1>4. /\ call' = [c \in Calls |-> call'[c]]
      /\ \A c \in Calls : IF c \in Of(t) THEN call'[c] = LeftAlone(c) ELSE call'[c] = call[c]
  BY DEF Load
<1>5. \A c \in Calls : call'[c] \in {call[c], NoCall}
  BY <1>4 DEF LeftAlone
<1>6. \A c \in waits' : c \in waits /\ call'[c] = call[c]
  BY <1>3, <1>4 DEF Load
<1>7. QED
  BY <1>1, <1>2, <1>3, <1>4, <1>5, <1>6 DEF BrowserStep, Left, Load

\* A step that ends one request for its tab.
LEMMA DoneFacts ==
    ASSUME ConsoleBase, NEW c \in Calls, Done(c)
    PROVE  /\ call' = [d \in Calls |-> call'[d]]
           /\ call'[c] = NoCall /\ \A d \in Calls \ {c} : call'[d] = call[d]
           /\ asker' \in [Calls -> Tabs \cup {NoTab}]
           /\ \A d \in Calls \ {c} : asker'[d] = asker[d]
           /\ waits' \subseteq Calls /\ again' \subseteq Calls
           /\ \A d \in waits' : d \in waits /\ call'[d] = call[d]
           /\ \A d \in Calls : Left(d)
<1>1. /\ call' = [d \in Calls |-> call'[d]]
      /\ call'[c] = NoCall /\ \A d \in Calls \ {c} : call'[d] = call[d]
  BY BaseFacts DEF Done
<1>2. /\ asker' \in [Calls -> Tabs \cup {NoTab}]
      /\ \A d \in Calls \ {c} : asker'[d] = asker[d]
      /\ waits' \subseteq Calls /\ again' \subseteq Calls
      /\ \A d \in waits' : d \in waits /\ d # c
  BY BaseFacts DEF Done
<1>3. QED
  BY <1>1, <1>2, BaseFacts DEF Left

\* A step that sends one request more.
LEMMA SendFacts ==
    ASSUME ConsoleBase, NEW t \in Tabs, NEW kind \in Guarded \cup {"refresh", "login"},
           NEW pair \in 0..Len(issued), Free # {}, Send(t, kind, pair)
    PROVE  /\ NextCall \in Calls /\ call[NextCall].at = "free"
           /\ call' = [d \in Calls |-> call'[d]]
           /\ call'[NextCall] = Arriving(kind, pair)
           /\ \A d \in Calls \ {NextCall} : call'[d] = call[d] /\ asker'[d] = asker[d]
           /\ asker' \in [Calls -> Tabs \cup {NoTab}] /\ asker'[NextCall] = t
           /\ \A d \in waits : call'[d] = call[d]
           /\ \A d \in Calls : Left(d)
           /\ Elsewhere
<1>1. PICK c \in Calls : c = NextCall /\ call[c].at = "free"
  BY FreeCalls
<1>2. call' = [call EXCEPT ![c] = Arriving(kind, pair)] /\ asker' = [asker EXCEPT ![c] = t]
  BY <1>1 DEF Send
<1>3. /\ call' = [d \in Calls |-> call'[d]] /\ call'[c] = Arriving(kind, pair)
      /\ \A d \in Calls \ {c} : call'[d] = call[d] /\ asker'[d] = asker[d]
      /\ asker' \in [Calls -> Tabs \cup {NoTab}] /\ asker'[c] = t
  BY <1>2, BaseFacts
<1>4. c \notin waits
  BY <1>1, BaseFacts
<1>5. \A d \in Calls : Left(d)
  BY <1>3 DEF Left
<1>6. QED
  BY <1>1, <1>3, <1>4, <1>5, BaseFacts DEF Send

LEMMA RefreshNowIsStep ==
    ASSUME ConsoleBase, NEW t \in Tabs, RefreshNow(t)
    PROVE  BrowserStep /\ cookie' = cookie
<1>1. /\ Free # {} /\ Send(t, "refresh", cookie)
      /\ UNCHANGED <<cookie, status, token, queue, waits, again>>
  BY DEF RefreshNow, tabVars
<1>2. cookie \in 0..Len(issued)
  BY BaseFacts
<1>3. QED
  BY <1>1, <1>2, SendFacts, BaseFacts DEF BrowserStep

LEMMA RenewedIsStep ==
    ASSUME ConsoleBase, NEW c \in Calls, Renewed(c)
    PROVE  /\ BrowserStep /\ cookie' = call[c].pair
           /\ asker[c] \in Tabs /\ token'[asker[c]] = call[c].pair
           /\ \A u \in Tabs \ {asker[c]} : token'[u] = token[u] /\ status'[u] = status[u]
           /\ status'[asker[c]] = "in"
           /\ \A d \in Calls : \/ d = c /\ call'[d] = NoCall
                               \/ d # c /\ call'[d] = call[d]
                               \/ d # c /\ d \in waits
                                  /\ call'[d] = Arriving(call[d].kind, call[c].pair)
<1>1. PICK t, pair : t = asker[c] /\ pair = call[c].pair
  OBVIOUS
<1>2. /\ t \in Tabs /\ pair \in 0..Len(issued) /\ call[c].at = "answered"
  BY <1>1, BaseFacts DEF Renewed, Answered
<1>3. /\ cookie' = pair
      /\ token' = [token EXCEPT ![t] = pair] /\ status' = [status EXCEPT ![t] = "in"]
      /\ Release(t) /\ asker' = [asker EXCEPT ![c] = NoTab]
      /\ waits' = waits \ Of(t) /\ again' = again \cup (waits \cap Of(t)) /\ Elsewhere
      /\ call' = [d \in Calls |-> CASE d = c -> NoCall
                                    [] d \in waits \cap Of(t) -> Arriving(call[d].kind, pair)
                                    [] OTHER -> call[d]]
  BY <1>1 DEF Renewed
<1>4. /\ token' \in [Tabs -> 0..Len(issued)] /\ token'[t] = pair
      /\ status' \in [Tabs -> {"unknown", "in", "out"}] /\ status'[t] = "in"
      /\ \A u \in Tabs \ {t} : token'[u] = token[u] /\ status'[u] = status[u]
      /\ asker' \in [Calls -> Tabs \cup {NoTab}]
      /\ waits' \subseteq Calls /\ again' \subseteq Calls /\ queue' \in Seq(Tabs)
  BY <1>2, <1>3, BaseFacts, ReleaseKeepsHead
<1>5. /\ call' = [d \in Calls |-> call'[d]]
      /\ \A d \in Calls : \/ d = c /\ call'[d] = NoCall
                          \/ d # c /\ d \notin waits \cap Of(t) /\ call'[d] = call[d]
                          \/ d # c /\ d \in waits
                             /\ call'[d] = Arriving(call[d].kind, pair)
  <2>1. call' = [d \in Calls |-> call'[d]]
    BY <1>3
  <2>2. ASSUME NEW d \in Calls
        PROVE  call'[d] = CASE d = c -> NoCall
                            [] d \in waits \cap Of(t) -> Arriving(call[d].kind, pair)
                            [] OTHER -> call[d]
    BY <1>3
  <2>3. c \notin waits
    BY <1>2, BaseFacts
  <2>4. QED
    BY <2>1, <2>2, <2>3
<1>6. \A d \in Calls : Left(d)
  BY <1>2, <1>5, BaseFacts DEF Left
<1>7. \A d \in waits' : d \in waits /\ call'[d] = call[d]
  <2>1. c \notin waits
    BY <1>2, BaseFacts
  <2>2. QED
    BY <1>3, <1>4, <1>5, <2>1 DEF Of
<1>8. BrowserStep
  BY <1>3, <1>4, <1>5, <1>6, <1>7 DEF BrowserStep
<1>9. QED
  BY <1>1, <1>2, <1>3, <1>4, <1>5, <1>8

LEMMA NotRenewedIsStep ==
    ASSUME ConsoleBase, NEW c \in Calls, asker[c] \in Tabs, NotRenewed(c)
    PROVE  BrowserStep
<1>1. PICK t \in Tabs : t = asker[c]
  OBVIOUS
<1>2. CASE status[t] = "unknown"
  <2>1. /\ status' = [status EXCEPT ![t] = "out"]
        /\ Release(t) /\ Done(c) /\ UNCHANGED token /\ Elsewhere
    BY <1>1, <1>2 DEF NotRenewed
  <2>2. /\ status' \in [Tabs -> {"unknown", "in", "out"}] /\ queue' \in Seq(Tabs)
        /\ token' \in [Tabs -> 0..Len(issued)]
    BY <2>1, BaseFacts, ReleaseKeepsHead
  <2>3. QED
    BY <2>1, <2>2, DoneFacts DEF BrowserStep
<1>3. CASE status[t] # "unknown"
  BY <1>1, <1>3, LoadIsStep, BaseFacts DEF NotRenewed
<1>4. QED
  BY <1>2, <1>3

LEMMA RestoreIsStep ==
    ASSUME ConsoleBase, NEW t \in Tabs, RestoreSession(t)
    PROVE  BrowserStep /\ cookie' = cookie
<1>1. /\ RefreshOnce(t) /\ UNCHANGED <<staffVars, cookie, status, token, asker, waits, again>>
  BY DEF RestoreSession
<1>2. queue' \in Seq(Tabs)
  BY <1>1, BaseFacts, OnceKeepsHead
<1>3. call' = call /\ Elsewhere
  BY <1>1 DEF Elsewhere, staffVars
<1>4. QED
  BY <1>1, <1>2, <1>3, BaseFacts DEF BrowserStep, Left

LEMMA UnauthorisedIsStep ==
    ASSUME ConsoleBase, NEW c \in Calls, Unauthorised(c)
    PROVE  /\ BrowserStep /\ asker[c] \in Tabs
           /\ \/ /\ call' = [call EXCEPT ![c] = Arriving(call[c].kind, token[asker[c]])]
                 /\ queue' = queue
              \/ call' = call /\ RefreshOnce(asker[c])
<1>1. PICK t \in Tabs : t = asker[c]
  BY BaseFacts DEF Unauthorised, Refused
<1>2. /\ call[c].at = "refused" /\ c \notin waits /\ call[c].kind \in Guarded
      /\ UNCHANGED <<cookie, status, token, asker>> /\ Elsewhere
      /\ \/ /\ call' = [call EXCEPT ![c] = Arriving(@.kind, token[t])]
            /\ again' = again \cup {c} /\ UNCHANGED <<queue, waits>>
         \/ waits' = waits \cup {c} /\ RefreshOnce(t) /\ UNCHANGED <<call, again>>
  BY <1>1 DEF Unauthorised, Refused
<1>3. CASE /\ call' = [call EXCEPT ![c] = Arriving(@.kind, token[t])]
           /\ again' = again \cup {c} /\ UNCHANGED <<queue, waits>>
  <2>1. /\ call' = [d \in Calls |-> call'[d]]
        /\ call'[c] = Arriving(call[c].kind, token[t])
        /\ \A d \in Calls \ {c} : call'[d] = call[d]
        /\ call' = [call EXCEPT ![c] = Arriving(call[c].kind, token[t])]
    BY <1>3, BaseFacts
  <2>2. token[t] \in 0..Len(issued)
    BY BaseFacts
  <2>3. \A d \in Calls : Left(d)
    BY <1>2, <2>1, <2>2 DEF Left
  <2>4. QED
    BY <1>1, <1>2, <1>3, <2>1, <2>3, BaseFacts DEF BrowserStep
<1>4. CASE waits' = waits \cup {c} /\ RefreshOnce(t) /\ UNCHANGED <<call, again>>
  <2>1. queue' \in Seq(Tabs)
    BY <1>4, BaseFacts, OnceKeepsHead
  <2>2. QED
    BY <1>1, <1>2, <1>4, <2>1, BaseFacts DEF BrowserStep, Left
<1>5. QED
  BY <1>2, <1>3, <1>4

LEMMA SignedInIsStep ==
    ASSUME ConsoleBase, NEW c \in Calls, SignedIn(c)
    PROVE  /\ BrowserStep /\ cookie' = call[c].pair
           /\ asker[c] \in Tabs /\ token'[asker[c]] = call[c].pair
           /\ \A u \in Tabs \ {asker[c]} : token'[u] = token[u] /\ status'[u] = status[u]
           /\ status'[asker[c]] = "in"
<1>1. PICK t \in Tabs : t = asker[c]
  BY BaseFacts DEF SignedIn, Answered
<1>2. /\ cookie' = call[c].pair
      /\ token' = [token EXCEPT ![t] = call[c].pair] /\ status' = [status EXCEPT ![t] = "in"]
      /\ Done(c) /\ UNCHANGED queue /\ Elsewhere
  BY <1>1 DEF SignedIn
<1>3. /\ token' \in [Tabs -> 0..Len(issued)] /\ token'[t] = call[c].pair
      /\ status' \in [Tabs -> {"unknown", "in", "out"}] /\ status'[t] = "in"
      /\ \A u \in Tabs \ {t} : token'[u] = token[u] /\ status'[u] = status[u]
  BY <1>2, BaseFacts
<1>4. QED
  BY <1>1, <1>2, <1>3, BaseFacts, DoneFacts DEF BrowserStep

LEMMA EndsAreSteps ==
    ASSUME ConsoleBase, NEW c \in Calls,
           GetReturns(c) \/ OrphanEnds(c) \/ SignedOut(c)
    PROVE  BrowserStep /\ cookie' \in 0..Len(issued)
<1>1. CASE GetReturns(c) \/ OrphanEnds(c)
  <2>1. Done(c) /\ UNCHANGED <<status, token, queue>> /\ Elsewhere
    BY <1>1 DEF GetReturns, OrphanEnds, tabVars
  <2>2. BrowserStep
    BY <2>1, BaseFacts, DoneFacts DEF BrowserStep
  <2>3. cookie' \in {cookie, call[c].pair, 0}
    BY <1>1 DEF GetReturns, OrphanEnds
  <2>4. QED
    BY <2>2, <2>3, BaseFacts
<1>2. CASE SignedOut(c)
  <2>1. asker[c] \in Tabs /\ Load(asker[c], 0)
    BY <1>2, BaseFacts DEF SignedOut, Settled, Answered, Refused
  <2>2. cookie' \in {cookie, 0}
    BY <1>2 DEF SignedOut
  <2>3. QED
    BY <2>1, <2>2, BaseFacts, LoadIsStep
<1>3. QED
  BY <1>1, <1>2

LEMMA AsksAreSteps ==
    ASSUME ConsoleBase, NEW t \in Tabs,
           SignIn(t) \/ \E kind \in Guarded : Ask(t, kind)
    PROVE  BrowserStep /\ cookie' = cookie
<1>1. PICK kind \in Guarded \cup {"refresh", "login"}, pair \in 0..Len(issued) :
        Cardinality(Free) > 1 /\ Send(t, kind, pair)
  BY BaseFacts DEF SignIn, Ask
<1>2. UNCHANGED <<cookie, status, token, queue, waits, again>>
  BY DEF SignIn, Ask, tabVars
<1>3. Free # {}
  BY <1>1, FS_EmptySet
<1>4. QED
  BY <1>1, <1>2, <1>3, SendFacts, BaseFacts DEF BrowserStep

LEMMA LostIsStep ==
    ASSUME ConsoleBase, NEW c \in Calls, Lost(c)
    PROVE  BrowserStep /\ cookie' = cookie
<1>1. PICK t \in Tabs : t = asker[c]
  BY BaseFacts DEF Lost
<1>2. c \notin waits /\ cookie' = cookie
  BY DEF Lost
<1>3. CASE Load(t, 0)
  BY <1>2, <1>3, LoadIsStep, BaseFacts
<1>4. CASE /\ call' = [call EXCEPT ![c] = LeftAlone(c)] /\ asker' = [asker EXCEPT ![c] = NoTab]
           /\ token' = token /\ waits' = waits /\ Elsewhere
           /\ \/ /\ status' = [status EXCEPT ![t] = "out"] /\ Release(t)
                 /\ again' = again
              \/ again' = again \ {c} /\ UNCHANGED <<status, queue>>
  <2>1. /\ status' \in [Tabs -> {"unknown", "in", "out"}] /\ queue' \in Seq(Tabs)
        /\ again' \subseteq Calls /\ waits' \subseteq Calls /\ token' \in [Tabs -> 0..Len(issued)]
        /\ asker' \in [Calls -> Tabs \cup {NoTab}]
    BY <1>4, BaseFacts, ReleaseKeepsHead
  <2>2. /\ call' = [d \in Calls |-> call'[d]] /\ call'[c] \in {call[c], NoCall}
        /\ \A d \in Calls \ {c} : call'[d] = call[d]
    BY <1>4, BaseFacts DEF LeftAlone
  <2>3. QED
    BY <1>2, <1>4, <2>1, <2>2 DEF BrowserStep, Left
<1>5. QED
  BY <1>1, <1>3, <1>4 DEF Lost, tabVars

LEMMA HistoryTypes ==
    ASSUME ConsoleBase, ConsoleNext
    PROVE  disturbed' \in BOOLEAN /\ outside' \in 0..MaxOutside
<1>1. disturbed \in BOOLEAN /\ outside \in 0..MaxOutside /\ MaxOutside \in Nat
  BY OutsideAssumption DEF ConsoleBase, ConsoleTypeOK
<1>2. CASE Inside
  BY <1>1, <1>2 DEF Inside, Serve, Renew, Renewed, RefreshRefused, Unauthorised, GetReturns,
     SignedOut, SignedIn, OrphanEnds, RestoreSession, RefreshNow, Undisturbed
<1>3. CASE FromOutside
  <2>1. outside' \in 0..MaxOutside
    BY <1>1, <1>3 DEF FromOutside
  <2>2. disturbed' \in BOOLEAN
    BY <1>1, <1>3 DEF FromOutside, SignIn, Leave, Ask, Lost, Others
  <2>3. QED
    BY <2>1, <2>2
<1>4. QED
  BY <1>2, <1>3 DEF ConsoleNext

\* A step of the server leaves the browser alone.
LEMMA ServerKeepsBase ==
    ASSUME ConsoleBase, StaffInv', UNCHANGED <<cookie, tabVars, asker, waits, again>>,
           disturbed' \in BOOLEAN, outside' \in 0..MaxOutside,
           Len(issued) <= Len(issued'), \A c \in waits : call'[c] = call[c]
    PROVE  ConsoleBase'
<1>1. StaffTypeOK' /\ Len(issued') \in Nat /\ Len(issued) \in Nat
  BY PairsOut, BaseFacts DEF StaffInv, StaffTypeOK
<1>2. 0..Len(issued) \subseteq 0..Len(issued')
  BY <1>1
<1>3. HeldOK'
  BY <1>2, BaseFacts DEF HeldOK, tabVars
<1>4. ConsoleTypeOK'
  BY <1>1 DEF ConsoleBase, ConsoleTypeOK, tabVars
<1>5. QED
  BY <1>3, <1>4 DEF ConsoleBase

LEMMA CallStepFacts ==
    ASSUME StaffInv, NEW c \in Calls, CallStep(c)
    PROVE  /\ call[c].at \notin {"free", "answered", "refused"}
           /\ \A d \in Calls \ {c} : call'[d] = call[d]
           /\ Len(issued) <= Len(issued')
<1>1. /\ call \in [Calls -> Request] /\ issued \in Seq(Pairs)
  BY DEF StaffInv, StaffTypeOK
<1>2. CASE IssueSession(c)
  <2>1. PICK d, r : issued' = Append(issued, d) /\ call' = [call EXCEPT ![c] = r]
    BY <1>2 DEF IssueSession
  <2>2. Len(issued) <= Len(issued') /\ \A e \in Calls \ {c} : call'[e] = call[e]
    BY <1>1, <2>1
  <2>3. QED
    BY <1>2, <2>2 DEF IssueSession
<1>3. CASE PassBlacklist(c) \/ FindPrincipal(c) \/ GetStaffRefreshRecord(c)
           \/ IsStaffDeviceBlacklisted(c) \/ FindStaff(c)
  <2>1. /\ call[c].at \in {"blacklist", "principal", "record", "revoked", "staff"}
        /\ issued' = issued
    BY <1>3 DEF PassBlacklist, FindPrincipal, GetStaffRefreshRecord,
       IsStaffDeviceBlacklisted, FindStaff, Reads
  <2>2. \A d \in Calls \ {c} : call'[d] = call[d]
    BY <1>1, <1>3 DEF PassBlacklist, FindPrincipal, GetStaffRefreshRecord,
       IsStaffDeviceBlacklisted, FindStaff, Move
  <2>3. QED
    BY <1>1, <2>1, <2>2
<1>4. CASE DeleteStaffRefreshRecord(c) \/ GetDevices(c) \/ GetTokens(c)
           \/ WipeDevice(c) \/ SessionsEnded(c)
  <2>1. call[c].at \in {"delete", "devices", "members", "wipe"} /\ issued' = issued
    BY <1>4 DEF DeleteStaffRefreshRecord, GetDevices, GetTokens, WipeDevice,
       SessionsEnded, Reads
  <2>2. \A d \in Calls \ {c} : call'[d] = call[d]
    BY <1>1, <1>4 DEF DeleteStaffRefreshRecord, GetDevices, GetTokens, WipeDevice,
       SessionsEnded, Move
  <2>3. QED
    BY <1>1, <2>1, <2>2
<1>5. QED
  BY <1>2, <1>3, <1>4 DEF CallStep

LEMMA OthersKeepBase ==
    ASSUME ConsoleBase, Others, disturbed' \in BOOLEAN, outside' \in 0..MaxOutside
    PROVE  ConsoleBase'
<1>1. UNCHANGED <<cookie, tabVars, asker, waits, again>>
  BY DEF Others
<1>2. CASE Cardinality(Free) > 1 /\ (Suspend \/ RemoveStaff \/ ChangePassword)
  <2>1. PICK s \in {"active", "suspended", "removed"} : EndFor(s)
    BY <1>2, BaseFacts DEF Suspend, RemoveStaff, ChangePassword, StaffTypeOK
  <2>2. PICK c \in Calls : c = NextCall /\ call[c].at = "free" /\ NextCall \in Free
    BY <1>2, FreeCalls
  <2>3. StaffInv'
    BY <2>1, <2>2, EndForKeepsStaff DEF ConsoleBase
  <2>4. issued' = issued /\ \A d \in Calls \ {c} : call'[d] = call[d]
    BY <2>1, <2>2, BaseFacts DEF EndFor
  <2>5. c \notin waits
    BY <2>2, BaseFacts
  <2>6. Len(issued) <= Len(issued')
    BY <2>4, PairsOut, BaseFacts
  <2>7. QED
    BY <1>1, <2>3, <2>4, <2>5, <2>6, ServerKeepsBase, BaseFacts
<1>3. CASE Reactivate \/ (\E p \in Pairs : AccessExpires(p))
           \/ (\E d \in Pairs : BlacklistLapses(d))
  <2>1. StaffInv'
    BY <1>3, TimeKeepsStaff DEF ConsoleBase
  <2>2. issued' = issued /\ call' = call
    BY <1>3 DEF Reactivate, AccessExpires, BlacklistLapses
  <2>3. Len(issued) <= Len(issued')
    BY <2>2, PairsOut, BaseFacts
  <2>4. QED
    BY <1>1, <2>1, <2>2, <2>3, ServerKeepsBase
<1>4. QED
  BY <1>2, <1>3 DEF Others

LEMMA BaseInit == ConsoleInit => ConsoleBase
<1> SUFFICES ASSUME ConsoleInit
             PROVE  ConsoleBase
  OBVIOUS
<1>1. StaffInv /\ StaffTypeOK
  BY StaffInvInit DEF ConsoleInit, StaffInv
<1>2. Len(issued) = 1 /\ 1 \in 0..MaxIssued /\ 0 \in 0..MaxIssued
  BY StaffNumbers DEF ConsoleInit, StaffInit
<1>3. /\ status \in [Tabs -> {"unknown", "in", "out"}]
      /\ token \in [Tabs -> {0, 1}]
      /\ cookie = 1 /\ queue \in Seq(Tabs) /\ asker \in [Calls -> Tabs \cup {NoTab}]
      /\ waits = {} /\ again = {} /\ disturbed = FALSE /\ outside \in 0..MaxOutside
  BY OutsideAssumption DEF ConsoleInit
<1>4. HeldOK
  BY <1>2, <1>3 DEF HeldOK
<1>5. ConsoleTypeOK
  BY <1>1, <1>2, <1>3 DEF ConsoleTypeOK
<1>6. QED
  BY <1>1, <1>4, <1>5 DEF ConsoleBase

LEMMA BaseNext == ConsoleBase /\ [ConsoleNext]_consoleVars => ConsoleBase'
<1> SUFFICES ASSUME ConsoleBase, [ConsoleNext]_consoleVars
             PROVE  ConsoleBase'
  OBVIOUS
<1>1. CASE UNCHANGED consoleVars
  BY <1>1 DEF consoleVars, staffVars, keys, staffHistory, tabVars, ConsoleBase, HeldOK,
     ConsoleTypeOK, StaffTypeOK, StaffInv, ListsOK, Gone, PairOK, EndingOK, Out
<1>2. CASE ConsoleNext
  <2>1. disturbed' \in BOOLEAN /\ outside' \in 0..MaxOutside
    BY <1>2, HistoryTypes
  <2>2. ASSUME NEW c \in Calls, Serve(c)
        PROVE  ConsoleBase'
    <3>1. CASE CallStep(c) /\ UNCHANGED <<cookie, tabVars, asker, waits, again>> /\ Undisturbed
      <4>1. StaffInv' /\ Len(issued) <= Len(issued') /\ \A d \in waits : call'[d] = call[d]
        BY <3>1, BaseFacts, CallStepFacts, CallStepKeepsStaff DEF ConsoleBase
      <4>2. QED
        BY <2>1, <3>1, <4>1, ServerKeepsBase
    <3>2. CASE Renewed(c)
      BY <2>1, <3>2, RenewedIsStep, BrowserKeepsBase, BaseFacts
    <3>3. CASE RefreshRefused(c)
      <4>1. asker[c] \in Tabs /\ NotRenewed(c) /\ cookie' = cookie
        BY <3>3, BaseFacts DEF RefreshRefused, Refused
      <4>2. QED
        BY <2>1, <4>1, NotRenewedIsStep, BrowserKeepsBase, BaseFacts
    <3>4. CASE Unauthorised(c)
      <4>1. cookie' = cookie
        BY <3>4 DEF Unauthorised
      <4>2. QED
        BY <2>1, <3>4, <4>1, UnauthorisedIsStep, BrowserKeepsBase, BaseFacts
    <3>5. CASE GetReturns(c) \/ OrphanEnds(c) \/ SignedOut(c)
      BY <2>1, <3>5, EndsAreSteps, BrowserKeepsBase
    <3>6. CASE SignedIn(c)
      BY <2>1, <3>6, SignedInIsStep, BrowserKeepsBase, BaseFacts
    <3>7. QED
      BY <2>2, <3>1, <3>2, <3>3, <3>4, <3>5, <3>6 DEF Serve
  <2>3. ASSUME NEW t \in Tabs, Renew(t)
        PROVE  ConsoleBase'
    BY <2>1, <2>3, RestoreIsStep, RefreshNowIsStep, BrowserKeepsBase, BaseFacts DEF Renew
  <2>4. ASSUME NEW t \in Tabs, Leave(t)
        PROVE  ConsoleBase'
    <3>1. Load(t, token[t]) /\ token[t] \in 0..Len(issued) /\ cookie' = cookie
      BY <2>4, BaseFacts DEF Leave
    <3>2. QED
      BY <2>1, <3>1, LoadIsStep, BrowserKeepsBase, BaseFacts
  <2>5. ASSUME NEW t \in Tabs, SignIn(t) \/ \E kind \in Guarded : Ask(t, kind)
        PROVE  ConsoleBase'
    BY <2>1, <2>5, AsksAreSteps, BrowserKeepsBase, BaseFacts
  <2>6. ASSUME NEW c \in Calls, Lost(c)
        PROVE  ConsoleBase'
    BY <2>1, <2>6, LostIsStep, BrowserKeepsBase, BaseFacts
  <2>7. CASE Others
    BY <2>1, <2>7, OthersKeepBase
  <2>8. QED
    BY <1>2, <2>2, <2>3, <2>4, <2>5, <2>6, <2>7 DEF ConsoleNext, Inside, FromOutside
<1>3. QED
  BY <1>1, <1>2

\* The variables of the server and of the tabs keep their types: a request
\* always presents a pair that is out and a blacklist entry never covers pairs
\* that are not.
THEOREM ConsoleTypeCorrect == ConsoleSpec => []ConsoleTypeOK
<1>1. ConsoleBase => ConsoleTypeOK
  BY DEF ConsoleBase
<1>2. QED
  BY <1>1, BaseInit, BaseNext, PTL DEF ConsoleSpec

-----------------------------------------------------------------------------
(* Ended sessions *)

\* Every step is one of the browser, of a request the server has, of an
\* administrator, or time passing.
TimePasses == UNCHANGED <<issued, records, call, staffHistory>>
Ends == NextCall \in Free /\ \E s \in {"active", "suspended", "removed"} : EndFor(s)

LEMMA KindsOfSteps ==
    ASSUME ConsoleBase, [ConsoleNext]_consoleVars
    PROVE  BrowserStep \/ (\E c \in Calls : CallStep(c)) \/ Ends \/ TimePasses
<1>1. CASE UNCHANGED consoleVars
  BY <1>1 DEF consoleVars, staffVars, keys, TimePasses
<1>2. ASSUME NEW c \in Calls, Serve(c)
      PROVE  BrowserStep \/ CallStep(c)
  <2>1. CASE RefreshRefused(c)
    <3>1. asker[c] \in Tabs /\ NotRenewed(c)
      BY <2>1, BaseFacts DEF RefreshRefused, Refused
    <3>2. QED
      BY <3>1, NotRenewedIsStep
  <2>2. QED
    BY <1>2, <2>1, RenewedIsStep, UnauthorisedIsStep, EndsAreSteps, SignedInIsStep DEF Serve
<1>3. ASSUME NEW t \in Tabs,
             Renew(t) \/ SignIn(t) \/ Leave(t) \/ \E kind \in Guarded : Ask(t, kind)
      PROVE  BrowserStep
  <2>1. CASE Leave(t)
    BY <2>1, LoadIsStep, BaseFacts DEF Leave
  <2>2. QED
    BY <1>3, <2>1, RestoreIsStep, RefreshNowIsStep, AsksAreSteps DEF Renew
<1>4. CASE Others
  <2>1. CASE Cardinality(Free) > 1 /\ (Suspend \/ RemoveStaff \/ ChangePassword)
    <3>1. \E s \in {"active", "suspended", "removed"} : EndFor(s)
      BY <2>1, BaseFacts DEF Suspend, RemoveStaff, ChangePassword, StaffTypeOK
    <3>2. QED
      BY <2>1, <3>1, FreeCalls DEF Ends
  <2>2. CASE Reactivate \/ (\E p \in Pairs : AccessExpires(p))
             \/ (\E d \in Pairs : BlacklistLapses(d))
    BY <2>2 DEF Reactivate, AccessExpires, BlacklistLapses, keys, TimePasses
  <2>3. QED
    BY <1>4, <2>1, <2>2 DEF Others
<1>5. QED
  BY <1>1, <1>2, <1>3, <1>4, LostIsStep DEF ConsoleNext, Inside, FromOutside

\* What NumberedOK says of one request.
Numbered(r) ==
    /\ r.all \subseteq Out
    /\ \/ r.at \in {"blacklist", "principal", "record", "revoked", "staff", "delete"}
       \/ r.at = "store" /\ r.kind = "refresh"
       => r.pair \in Out /\ r.device = issued[r.pair]

LEMMA StillNumbered ==
    ASSUME NumberedOK, UNCHANGED issued, ended' \subseteq Out,
           \A c \in Calls : call'[c] = call[c] \/ Numbered(call'[c])
    PROVE  NumberedOK'
<1>1. Out' = Out
  BY DEF Out
<1>2. QED
  BY <1>1 DEF NumberedOK, Numbered

LEMMA BrowserKeepsNumbered ==
    ASSUME ConsoleBase, NumberedOK, BrowserStep
    PROVE  NumberedOK'
<1>1. ASSUME NEW c \in Calls
      PROVE  call'[c] = call[c] \/ Numbered(call'[c])
  <2>1. CASE call'[c] = NoCall
    BY <2>1 DEF NoCall, Numbered
  <2>2. ASSUME NEW kind \in Guarded \cup {"refresh", "login"}, NEW pair \in 0..Len(issued),
               call'[c] = Arriving(kind, pair)
        PROVE  Numbered(call'[c])
    BY <2>2, ArrivingFacts, BaseFacts DEF Numbered, Guarded
  <2>3. QED
    BY <2>1, <2>2 DEF BrowserStep, Left
<1>2. QED
  BY <1>1, StillNumbered DEF BrowserStep, Elsewhere, staffHistory, NumberedOK

LEMMA DevicesAreOut ==
    ASSUME ConsoleBase, NumberedOK
    PROVE  \A p \in Out : issued[p] \in Out /\ issued[p] <= p
<1>1. Out = 1..Len(issued) /\ Len(issued) \in Nat /\ \A p \in Out : issued[p] \in Pairs
  BY BaseFacts, PairsOut
<1>2. QED
  BY <1>1, StaffNumbers DEF NumberedOK

\* What the end of sessions is about does not change on the way.
LEMMA EndingKeepsAll ==
    ASSUME ConsoleBase, NEW c \in Calls, GetDevices(c) \/ GetTokens(c) \/ WipeDevice(c)
    PROVE  call'[c].at \in {"members", "wipe"} /\ call'[c].all = call[c].all
<1>1. call \in [Calls -> Request] /\ call[c] \in Request
  BY BaseFacts
<1>2. CASE GetDevices(c)
  <2>1. PICK left : call' = [call EXCEPT ![c].left = left, ![c].at = "members"]
    BY <1>2 DEF GetDevices
  <2>2. QED
    BY <1>1, <2>1 DEF Request
<1>3. CASE GetTokens(c)
  <2>1. PICK d, read : call' = [call EXCEPT ![c].at = "wipe", ![c].device = d,
                                            ![c].read = read]
    BY <1>3 DEF GetTokens
  <2>2. QED
    BY <1>1, <2>1 DEF Request
<1>4. CASE WipeDevice(c)
  <2>1. PICK left : call' = [call EXCEPT ![c].at = "members", ![c].read = {},
                                         ![c].left = left]
    <3>1. PICK d : d = call[c].device
      OBVIOUS
    <3>2. call' = [call EXCEPT ![c].at = "members", ![c].read = {},
                               ![c].left = call[c].left \ {d}]
      BY <1>1, <1>4, <3>1 DEF WipeDevice
    <3>3. QED
      BY <3>2
  <2>2. QED
    BY <1>1, <2>1 DEF Request
<1>5. QED
  BY <1>2, <1>3, <1>4

LEMMA FindPrincipalMoves ==
    ASSUME ConsoleBase, NumberedOK, NEW c \in Calls, FindPrincipal(c)
    PROVE  /\ call'[c].at \in {"refused", "answered", "members", "devices"}
           /\ call'[c].all \subseteq Out
<1>0. call \in [Calls -> Request] /\ call[c] \in Request /\ Numbered(call[c])
  BY BaseFacts DEF NumberedOK, Numbered
<1> DEFINE found == IF call[c].kind = "logout" THEN {call[c].device}
                        ELSE {issued[p] : p \in Out}
               at == CASE account # "active"        -> "refused"
                       [] call[c].kind = "get"      -> "answered"
                       [] call[c].kind = "logout"   -> "members"
                       [] OTHER                     -> "devices"
               left == IF call[c].kind = "logout" THEN found ELSE {}
               all == IF call[c].kind = "get" THEN {} ELSE found
<1>1. call' = [call EXCEPT ![c].at = at, ![c].left = left, ![c].all = all]
  BY DEF FindPrincipal
<1>2. call[c].device \in Out /\ \A p \in Out : issued[p] \in Out
  BY <1>0, DevicesAreOut DEF FindPrincipal, Numbered
<1>3. found \in SUBSET Out
  BY <1>2
<1> HIDE DEF found
<1>4. all \in SUBSET Out /\ at \in {"refused", "answered", "members", "devices"}
  BY <1>3
<1> HIDE DEF at, left, all
<1>5. call'[c].at = at /\ call'[c].all = all
  BY <1>0, <1>1 DEF Request
<1>6. QED
  BY <1>4, <1>5

LEMMA ServerKeepsNumbered ==
    ASSUME ConsoleBase, NumberedOK, NEW c \in Calls, CallStep(c), ~IssueSession(c)
    PROVE  NumberedOK'
<1>1. /\ call \in [Calls -> Request] /\ call[c] \in Request /\ PairOK(c)
      /\ Numbered(call[c]) /\ \A d \in Calls \ {c} : call'[d] = call[d]
  BY BaseFacts, CallStepFacts DEF ConsoleBase, StaffInv, NumberedOK, Numbered
<1>2. CASE PassBlacklist(c) \/ GetStaffRefreshRecord(c) \/ IsStaffDeviceBlacklisted(c)
           \/ FindStaff(c) \/ DeleteStaffRefreshRecord(c)
  <2>1. PICK at \in {"refused", "principal", "revoked", "staff", "delete", "store"} :
           Move(c, at)
    BY <1>2 DEF PassBlacklist, GetStaffRefreshRecord, IsStaffDeviceBlacklisted, FindStaff,
       DeleteStaffRefreshRecord
  <2>2. /\ call'[c].at = at /\ call'[c].kind = call[c].kind /\ call'[c].all = call[c].all
        /\ call'[c].pair = call[c].pair /\ call'[c].device = call[c].device
    BY <1>1, <2>1 DEF Move, Request
  <2>3. /\ call[c].at \in {"blacklist", "record", "revoked", "staff", "delete"}
        /\ UNCHANGED <<issued, ended>>
    BY <1>2 DEF PassBlacklist, GetStaffRefreshRecord, IsStaffDeviceBlacklisted, FindStaff,
       DeleteStaffRefreshRecord, Reads, staffHistory
  <2>4. Numbered(call'[c])
    BY <1>1, <2>2, <2>3 DEF Numbered
  <2>5. QED
    BY <1>1, <2>3, <2>4, StillNumbered DEF NumberedOK
<1>3. CASE FindPrincipal(c)
  <2>1. call'[c].at \in {"refused", "answered", "members", "devices"}
        /\ call'[c].all \subseteq Out
    BY <1>3, FindPrincipalMoves
  <2>2. UNCHANGED <<issued, ended>>
    BY <1>3 DEF FindPrincipal, Reads, staffHistory
  <2>3. Numbered(call'[c])
    BY <2>1 DEF Numbered
  <2>4. QED
    BY <1>1, <2>2, <2>3, StillNumbered DEF NumberedOK
<1>4. CASE GetDevices(c) \/ GetTokens(c) \/ WipeDevice(c)
  <2>1. call'[c].at \in {"members", "wipe"} /\ call'[c].all = call[c].all
    BY <1>1, <1>4, EndingKeepsAll
  <2>2. UNCHANGED <<issued, ended>>
    BY <1>4 DEF GetDevices, GetTokens, WipeDevice, Reads, staffHistory
  <2>3. Numbered(call'[c])
    BY <1>1, <2>1 DEF Numbered
  <2>4. QED
    BY <1>1, <2>2, <2>3, StillNumbered DEF NumberedOK
<1>5. CASE SessionsEnded(c)
  <2>1. call'[c].at = "answered" /\ call'[c].all = {}
    BY <1>1, <1>5 DEF SessionsEnded, NoCall
  <2>2. UNCHANGED issued /\ ended' = ended \cup call[c].all
    BY <1>5 DEF SessionsEnded
  <2>3. Numbered(call'[c])
    BY <2>1 DEF Numbered
  <2>4. ended' \subseteq Out
    BY <1>1, <2>2 DEF NumberedOK, Numbered
  <2>5. QED
    BY <1>1, <2>2, <2>3, <2>4, StillNumbered
<1>6. QED
  BY <1>2, <1>3, <1>4, <1>5 DEF CallStep

\* The pair that is issued, and for whom.
LEMMA IssueFacts ==
    ASSUME ConsoleBase, NumberedOK, NEW c \in Calls, IssueSession(c)
    PROVE  \E n, d : /\ n \notin Out /\ d <= n /\ Out' = Out \cup {n}
                     /\ d = n \/ (call[c].kind = "refresh" /\ d = call[c].device)
                     /\ issued'[n] = d /\ \A p \in Out : issued'[p] = issued[p]
                     /\ slipped' \subseteq slipped \cup {d} /\ ended' = ended
                     /\ call'[c].at = "answered" /\ call'[c].all = {}
                     /\ \A e \in Calls \ {c} : call'[e] = call[e]
<1>1. PICK n, d : /\ n = Len(issued) + 1
                  /\ d = IF call[c].kind = "login" THEN n ELSE call[c].device
  OBVIOUS
<1>2. /\ call \in [Calls -> Request] /\ PairOK(c) /\ call[c].at = "store"
      /\ issued \in Seq(Pairs) /\ Len(issued) \in Nat /\ Out = 1..Len(issued)
  BY BaseFacts, PairsOut DEF ConsoleBase, StaffInv, IssueSession, StaffTypeOK
<1>3. /\ issued' = Append(issued, d) /\ slipped' \subseteq slipped \cup {d}
      /\ ended' = ended
      /\ call' = [call EXCEPT ![c] = [NoCall EXCEPT !.kind = call[c].kind,
                                                    !.at = "answered", !.pair = n]]
  BY <1>1 DEF IssueSession
<1>4. call[c].kind # "login" =>
        call[c].kind = "refresh" /\ call[c].pair \in Out /\ d = issued[call[c].pair]
  BY <1>1, <1>2 DEF PairOK, NumberedOK
<1>5. d <= n /\ d \in Nat
  <2>1. n \in Nat /\ \A p \in Out : p \in Nat /\ p < n
    BY <1>1, <1>2
  <2>2. \A p \in Out : issued[p] \in Out /\ issued[p] <= p
    BY DevicesAreOut
  <2>3. QED
    BY <1>1, <1>4, <2>1, <2>2
<1>6. /\ Out' = 1..n /\ 1..n = (1..Len(issued)) \cup {n} /\ n \notin Out
      /\ issued'[n] = d /\ \A p \in Out : issued'[p] = issued[p]
  <2>1. DOMAIN issued' = 1..n
    BY <1>1, <1>2, <1>3
  <2>2. issued'[n] = d /\ \A p \in Out : issued'[p] = issued[p]
    BY <1>1, <1>2, <1>3
  <2>3. QED
    BY <1>1, <1>2, <2>1, <2>2 DEF Out
<1>7. /\ call'[c].at = "answered" /\ call'[c].all = {}
      /\ \A e \in Calls \ {c} : call'[e] = call[e]
  BY <1>2, <1>3 DEF NoCall
<1>8. QED
  BY <1>1, <1>2, <1>3, <1>4, <1>5, <1>6, <1>7

LEMMA IssueKeepsNumbered ==
    ASSUME ConsoleBase, NumberedOK, NEW c \in Calls, IssueSession(c)
    PROVE  NumberedOK'
<1>1. PICK n, d : /\ n \notin Out /\ d <= n /\ Out' = Out \cup {n}
                  /\ issued'[n] = d /\ \A p \in Out : issued'[p] = issued[p]
                  /\ ended' = ended
                  /\ call'[c].at = "answered" /\ call'[c].all = {}
                  /\ \A e \in Calls \ {c} : call'[e] = call[e]
  BY IssueFacts
<1>2. \A p \in Out' : issued'[p] <= p
  BY <1>1 DEF NumberedOK
<1>3. ASSUME NEW e \in Calls
      PROVE  /\ call'[e].all \subseteq Out'
             /\ \/ call'[e].at \in {"blacklist", "principal", "record", "revoked", "staff",
                                    "delete"}
                \/ call'[e].at = "store" /\ call'[e].kind = "refresh"
                => call'[e].pair \in Out' /\ call'[e].device = issued'[call'[e].pair]
  <2>1. CASE e = c
    BY <1>1, <2>1
  <2>2. CASE e # c
    <3>1. call'[e] = call[e]
      BY <1>1, <2>2
    <3>2. Numbered(call[e])
      BY DEF NumberedOK, Numbered
    <3>3. QED
      BY <1>1, <3>1, <3>2 DEF Numbered
  <2>3. QED
    BY <2>1, <2>2
<1>4. QED
  BY <1>1, <1>2, <1>3 DEF NumberedOK

LEMMA EndForKeepsNumbered ==
    ASSUME ConsoleBase, NumberedOK, Ends
    PROVE  NumberedOK'
<1>1. PICK c \in Calls : c = NextCall
  BY FreeCalls DEF Ends
<1>2. PICK all \in SUBSET Out : all = {issued[p] : p \in Out}
  BY DevicesAreOut
<1>3. /\ call' = [call EXCEPT ![c] = [NoCall EXCEPT !.kind = "admin", !.at = "devices",
                                                    !.all = all]]
      /\ UNCHANGED <<issued, ended>>
  BY <1>1, <1>2 DEF Ends, EndFor, staffHistory
<1>4. call'[c].at = "devices" /\ call'[c].all = all /\ \A d \in Calls \ {c} : call'[d] = call[d]
  BY <1>3, BaseFacts DEF NoCall
<1>5. Numbered(call'[c])
  BY <1>4 DEF Numbered
<1>6. QED
  BY <1>3, <1>4, <1>5, StillNumbered DEF NumberedOK

LEMMA NumberedNext ==
    ASSUME ConsoleBase, NumberedOK, [ConsoleNext]_consoleVars
    PROVE  NumberedOK'
<1>1. CASE TimePasses
  BY <1>1, StillNumbered DEF TimePasses, staffHistory, NumberedOK
<1>2. QED
  BY <1>1, KindsOfSteps, BrowserKeepsNumbered, ServerKeepsNumbered, IssueKeepsNumbered,
     EndForKeepsNumbered

\* No request about the device gets past the record of its token.
LEMMA StillOver ==
    ASSUME NEW d, IsOver(d), ended \subseteq ended', d \notin slipped',
           \A c \in Calls :
              call'[c].kind = "refresh" /\ call'[c].device = d
              => \/ call'[c].at \notin {"revoked", "staff", "delete", "store"}
                 \/ /\ call[c].kind = "refresh" /\ call[c].device = d
                    /\ call[c].at \in {"revoked", "staff", "delete", "store"}
    PROVE  IsOver(d)'
BY DEF IsOver

LEMMA BrowserLeavesOver ==
    ASSUME ConsoleBase, BrowserStep, NEW d, IsOver(d)
    PROVE  IsOver(d)'
<1>1. ASSUME NEW c \in Calls
      PROVE  \/ call'[c] = call[c]
             \/ call'[c].at \notin {"revoked", "staff", "delete", "store"}
             \/ call'[c].kind # "refresh"
  <2>1. CASE call'[c] = NoCall
    BY <2>1 DEF NoCall
  <2>2. ASSUME NEW kind \in Guarded \cup {"refresh", "login"}, NEW pair \in 0..Len(issued),
               call'[c] = Arriving(kind, pair)
        PROVE  call'[c].at \in {"refused", "record", "blacklist"} \/ call'[c].kind = "login"
    <3>1. StaffTypeOK
      BY BaseFacts
    <3>2. /\ Arriving(kind, pair).kind = kind
          /\ Arriving(kind, pair).at \in {"store", "refused", "record", "blacklist"}
          /\ Arriving(kind, pair).at = "store" <=> kind = "login"
      BY <3>1, ArrivingFacts
    <3>3. QED
      BY <2>2, <3>2
  <2>3. QED
    BY <2>1, <2>2 DEF BrowserStep, Left
<1>2. UNCHANGED <<ended, slipped>>
  BY DEF BrowserStep, Elsewhere, staffHistory
<1>3. QED
  BY <1>1, <1>2, StillOver DEF IsOver

LEMMA ServerLeavesOver ==
    ASSUME ConsoleBase, NumberedOK, NEW c \in Calls, CallStep(c), NEW d, IsOver(d)
    PROVE  IsOver(d)'
<1>1. /\ call \in [Calls -> Request] /\ call[c] \in Request /\ PairOK(c)
      /\ Numbered(call[c]) /\ \A e \in Calls \ {c} : call'[e] = call[e]
      /\ d \in Out /\ Gone(d) /\ d \in ended /\ d \notin slipped
  BY BaseFacts, CallStepFacts
  DEF ConsoleBase, StaffInv, NumberedOK, Numbered, IsOver
<1>2. CASE IssueSession(c)
  <2>1. PICK n, e : /\ n \notin Out
                    /\ e = n \/ (call[c].kind = "refresh" /\ e = call[c].device)
                    /\ slipped' \subseteq slipped \cup {e} /\ ended' = ended
                    /\ call'[c].at = "answered"
    BY <1>2, IssueFacts
  <2>2. d # e
    BY <1>1, <1>2, <2>1 DEF IsOver, IssueSession
  <2>3. QED
    BY <1>1, <2>1, <2>2, StillOver
<1>3. CASE GetStaffRefreshRecord(c)
  <2>1. PICK at \in {"refused", "revoked"} :
           Move(c, at) /\ (at = "revoked" => call[c].pair \in records)
    BY <1>3 DEF GetStaffRefreshRecord
  <2>2. /\ call'[c].at = at /\ call'[c].device = call[c].device
        /\ UNCHANGED <<ended, slipped>>
    BY <1>1, <1>3, <2>1 DEF Move, Request, GetStaffRefreshRecord, Reads, staffHistory
  <2>3. call[c].device = d => at = "refused"
    BY <1>1, <1>3, <2>1 DEF Gone, Numbered, GetStaffRefreshRecord
  <2>4. QED
    BY <1>1, <2>2, <2>3, StillOver
<1>4. CASE IsStaffDeviceBlacklisted(c) \/ FindStaff(c) \/ DeleteStaffRefreshRecord(c)
  <2>1. call[c].at \in {"revoked", "staff", "delete"} /\ UNCHANGED <<ended, slipped>>
    BY <1>4 DEF IsStaffDeviceBlacklisted, FindStaff, DeleteStaffRefreshRecord, Reads,
       staffHistory
  <2>2. PICK at : Move(c, at)
    BY <1>4 DEF IsStaffDeviceBlacklisted, FindStaff, DeleteStaffRefreshRecord
  <2>3. call'[c].kind = call[c].kind /\ call'[c].device = call[c].device
    BY <1>1, <2>2 DEF Move, Request
  <2>4. QED
    BY <1>1, <2>1, <2>3, StillOver
<1>5. CASE PassBlacklist(c) \/ FindPrincipal(c) \/ GetDevices(c) \/ GetTokens(c)
           \/ WipeDevice(c) \/ SessionsEnded(c)
  <2>1. call'[c].at \notin {"revoked", "staff", "delete", "store"}
    <3>1. CASE PassBlacklist(c)
      BY <1>1, <3>1 DEF PassBlacklist, Move, Request
    <3>2. CASE FindPrincipal(c)
      BY <1>1, <3>2, FindPrincipalMoves
    <3>3. CASE GetDevices(c) \/ GetTokens(c) \/ WipeDevice(c)
      BY <3>3, EndingKeepsAll
    <3>4. CASE SessionsEnded(c)
      BY <1>1, <3>4 DEF SessionsEnded, NoCall
    <3>5. QED
      BY <1>5, <3>1, <3>2, <3>3, <3>4
  <2>2. ended \subseteq ended' /\ slipped' = slipped
    BY <1>5 DEF PassBlacklist, FindPrincipal, GetDevices, GetTokens, WipeDevice,
       SessionsEnded, Reads, staffHistory
  <2>3. QED
    BY <1>1, <2>1, <2>2, StillOver
<1>6. QED
  BY <1>2, <1>3, <1>4, <1>5 DEF CallStep

LEMMA EndForLeavesOver ==
    ASSUME ConsoleBase, Ends, NEW d, IsOver(d)
    PROVE  IsOver(d)'
<1>1. PICK c \in Calls : c = NextCall
  BY FreeCalls DEF Ends
<1>2. /\ call'[c].kind = "admin" /\ \A e \in Calls \ {c} : call'[e] = call[e]
      /\ UNCHANGED <<ended, slipped>>
  BY <1>1, BaseFacts DEF Ends, EndFor, NoCall, staffHistory
<1>3. QED
  BY <1>2, StillOver DEF IsOver

LEMMA OverIsForGood ==
    ASSUME ConsoleBase, NumberedOK, [ConsoleNext]_consoleVars, NEW d, IsOver(d)
    PROVE  IsOver(d)'
<1>1. CASE TimePasses
  BY <1>1 DEF TimePasses, staffHistory, IsOver
<1>2. QED
  BY <1>1, KindsOfSteps, BrowserLeavesOver, ServerLeavesOver, EndForLeavesOver

\* However sign-outs, suspensions, removals, refreshes and sign-ins interleave,
\* at the awaits of StaffAuthService: with tokens of a device whose sessions
\* were ended nobody gets in or refreshes ever again, unless a refresh or
\* sign-in on that device was under way meanwhile.
THEOREM EndedAlwaysStaysEnded == ConsoleSpec => EndedStaysEnded
<1> DEFINE Dead ==
      \A p \in Out : issued[p] \in ended \ slipped
                     => /\ p \notin records
                        /\ p \in stale \/ black[issued[p]] > 0
           StaysEnded ==
      /\ \A d \in Pairs : IsOver(d) => IsOver(d)'
      /\ \A p \in Out' : issued'[p] \in ended' \ slipped'
                         => /\ p \notin records'
                            /\ p \in stale' \/ black'[issued'[p]] > 0
<1>1. ConsoleInit => ConsoleBase /\ NumberedOK
  <2>1. ASSUME ConsoleInit
        PROVE  Out = {1} /\ issued[1] = 1
    BY <2>1 DEF ConsoleInit, StaffInit, Out
  <2>2. ASSUME ConsoleInit
        PROVE  NumberedOK
    <3>1. ended = {} /\ \A c \in Calls : call[c].at = "free" /\ call[c].all = {}
      BY <2>2 DEF ConsoleInit, StaffInit, NoCall
    <3>2. \A p \in Out : issued[p] <= p
      BY <2>1, <2>2
    <3>3. QED
      BY <3>1, <3>2 DEF NumberedOK
  <2>3. QED
    BY <2>2, BaseInit
<1>2. ConsoleBase /\ NumberedOK /\ [ConsoleNext]_consoleVars => ConsoleBase' /\ NumberedOK'
  BY BaseNext, NumberedNext
<1>3. ConsoleBase => Dead
  <2> SUFFICES ASSUME ConsoleBase, NEW p \in Out, issued[p] \in ended \ slipped
               PROVE  p \notin records /\ (p \in stale \/ black[issued[p]] > 0)
    OBVIOUS
  <2>1. p \notin records /\ (p \in stale \/ p <= black[issued[p]])
    BY DEF ConsoleBase, StaffInv, Gone
  <2>2. p \in Nat /\ p > 0 /\ black[issued[p]] \in Nat
    BY BaseFacts, PairsOut, StaffNumbers DEF StaffTypeOK
  <2>3. QED
    BY <2>1, <2>2
<1>4. ConsoleBase /\ NumberedOK /\ Dead' /\ [ConsoleNext]_consoleVars
        => [StaysEnded]_staffVars
  BY OverIsForGood
<1> HIDE DEF Dead, StaysEnded
<1>5. ConsoleSpec => [][StaysEnded]_staffVars
  BY <1>1, <1>2, <1>3, <1>4, PTL DEF ConsoleSpec
<1>6. QED
  BY <1>5 DEF StaysEnded, EndedStaysEnded

-----------------------------------------------------------------------------
(* Good sessions *)

LEMMA RecordsAreOut ==
    ASSUME ConsoleBase
    PROVE  \A p \in records : p \in 1..Len(issued) /\ p # 0
BY BaseFacts, PairsOut DEF ConsoleBase, StaffInv, ListsOK

\* A step of the browser that sends no refresh.
LEMMA BrowserKeepsCalm ==
    ASSUME ConsoleBase, Calm, Elsewhere,
           \A c \in Calls : \/ call'[c] = call[c]
                            \/ call'[c].kind = "get" /\ call'[c].at \notin Ending
                            \/ /\ call'[c].kind = "login" /\ call'[c].at = "store"
                               /\ call'[c].pair = 0,
           \A c \in Calls : call[c].kind = "refresh" /\ call'[c] = call[c] =>
              asker'[c] = asker[c] /\ queue' # <<>> /\ Head(queue') = Head(queue),
           \/ cookie' \in records
           \/ /\ cookie' = cookie
              /\ \A c \in Calls : call[c].kind = "refresh" => call'[c] = call[c],
           \A c \in Calls : /\ call'[c] = call[c] /\ call[c].at = "answered"
                            /\ call[c].kind \in {"refresh", "login"}
                            => cookie' # call[c].pair
    PROVE  Calm'
<1>1. UNCHANGED <<account, issued, records, black>>
  BY DEF Elsewhere, keys
<1>2. cookie' # 0
  BY RecordsAreOut DEF Calm
<1>3. \/ cookie' \in records'
      \/ \E c \in Calls : call'[c].kind = "refresh" /\ call'[c].at \in {"store", "answered"}
  BY <1>1 DEF Calm
<1>4. ASSUME NEW c \in Calls
      PROVE  /\ call'[c].kind \in {"get", "refresh", "login"}
             /\ call'[c].kind = "login" => call'[c].at \in {"store", "answered"}
             /\ call'[c].at \notin Ending
  BY DEF Calm, Ending
<1>5. ASSUME NEW c \in Calls
      PROVE  RefreshOK(c)'
  <2>1. call'[c].kind = "refresh" => call'[c] = call[c]
    OBVIOUS
  <2>2. RefreshOK(c)
    BY DEF Calm
  <2>3. \A d \in Calls : call'[d].kind = "refresh" => call[d].kind = "refresh"
    OBVIOUS
  <2>4. QED
    BY <1>1, <2>1, <2>2, <2>3 DEF RefreshOK
<1>6. ASSUME NEW c \in Calls
      PROVE  ComingOK(c)'
  <2> SUFFICES ASSUME call'[c].at = "answered", call'[c].kind \in {"refresh", "login"}
               PROVE  ComingOK(c)'
    BY DEF ComingOK
  <2>1. call'[c] = call[c]
    OBVIOUS
  <2>2. ComingOK(c)
    BY DEF Calm
  <2>3. call[c].pair \in records /\ call[c].pair # 0 /\ call[c].pair # cookie'
    BY <2>1, <2>2, RecordsAreOut DEF ComingOK
  <2>4. \A d \in Calls \ {c} : call'[d].kind \in {"refresh", "login"} =>
           call'[d].pair # call[c].pair
    BY <2>1, <2>2, <2>3 DEF ComingOK
  <2>5. QED
    BY <1>1, <2>1, <2>3, <2>4 DEF ComingOK
<1>7. QED
  BY <1>1, <1>2, <1>3, <1>4, <1>5, <1>6 DEF Calm

\* ... nor a new cookie.
LEMMA SameCookieKeepsCalm ==
    ASSUME ConsoleBase, Calm, Elsewhere, cookie' = cookie,
           \A c \in Calls : \/ call'[c] = call[c]
                            \/ /\ call'[c].kind = "get" /\ call'[c].at \notin Ending
                               /\ call[c].kind # "refresh"
                            \/ /\ call'[c].kind = "login" /\ call'[c].at = "store"
                               /\ call'[c].pair = 0 /\ call[c].kind # "refresh",
           \A c \in Calls : call[c].kind = "refresh" =>
              asker'[c] = asker[c] /\ queue' # <<>> /\ Head(queue') = Head(queue)
    PROVE  Calm'
<1>1. \A c \in Calls : /\ call[c].at = "answered" /\ call[c].kind \in {"refresh", "login"}
                       => cookie' # call[c].pair
  BY DEF Calm, ComingOK
<1>2. \A c \in Calls : call[c].kind = "refresh" => call'[c] = call[c]
  OBVIOUS
<1>3. QED
  BY <1>1, <1>2, BrowserKeepsCalm

\* The one refresh, and whose it is.
LEMMA TheRefresh ==
    ASSUME Calm, NEW c \in Calls, call[c].kind = "refresh"
    PROVE  /\ call[c].at \in {"record", "revoked", "staff", "delete", "store", "answered"}
           /\ queue # <<>> /\ asker[c] = Head(queue)
           /\ \A d \in Calls : call[d].kind = "refresh" => d = c
BY DEF Calm, RefreshOK

LEMMA SendKeepsCalm ==
    ASSUME ConsoleBase, Calm, NEW t \in Tabs, NEW kind \in {"get", "login"},
           NEW pair \in 0..Len(issued), kind = "login" => pair = 0,
           Free # {}, Send(t, kind, pair), cookie' = cookie, queue' = queue
    PROVE  Calm'
<1>1. kind \in Guarded \cup {"refresh", "login"}
  BY DEF Guarded
<1>2. PICK c \in Calls : c = NextCall /\ call[c].at = "free"
  BY FreeCalls
<1>3. /\ call'[c] = Arriving(kind, pair) /\ Elsewhere
      /\ \A d \in Calls \ {c} : call'[d] = call[d] /\ asker'[d] = asker[d]
  BY <1>1, <1>2, SendFacts
<1>4. /\ call'[c].kind = kind /\ call'[c].at \notin Ending
      /\ kind = "login" => call'[c].at = "store" /\ call'[c].pair = 0
  <2>1. StaffTypeOK
    BY BaseFacts
  <2>2. /\ Arriving(kind, pair).kind = kind /\ Arriving(kind, pair).pair = pair
        /\ Arriving(kind, pair).at \in {"store", "refused", "record", "blacklist"}
        /\ Arriving(kind, pair).at = "store" <=> kind = "login"
    BY <1>1, <2>1, ArrivingFacts
  <2>3. QED
    BY <1>3, <2>2 DEF Ending
<1>5. call[c].kind # "refresh"
  BY <1>2, TheRefresh
<1>6. \A d \in Calls : call[d].kind = "refresh" => queue # <<>>
  BY TheRefresh
<1>7. QED
  BY <1>3, <1>4, <1>5, <1>6, SameCookieKeepsCalm

LEMMA LeaveKeepsCalm ==
    ASSUME ConsoleBase, Calm, NEW t \in Tabs, ~Renewing(t), Leave(t)
    PROVE  Calm'
<1>1. /\ Release(t) /\ Elsewhere /\ cookie' = cookie
      /\ call' = [c \in Calls |-> IF c \in Of(t) THEN LeftAlone(c) ELSE call[c]]
      /\ asker' = [c \in Calls |-> IF asker[c] = t THEN NoTab ELSE asker[c]]
  BY DEF Leave, Load
<1>2. \A c \in Of(t) : call[c].kind # "refresh"
  BY DEF Renewing
<1>3. \A c \in Calls : call[c].kind = "refresh" =>
         asker'[c] = asker[c] /\ queue' # <<>> /\ Head(queue') = Head(queue)
  <2> SUFFICES ASSUME NEW c \in Calls, call[c].kind = "refresh"
               PROVE  asker'[c] = asker[c] /\ queue' # <<>> /\ Head(queue') = Head(queue)
    OBVIOUS
  <2>1. asker[c] # t
    BY <1>2 DEF Of
  <2>2. QED
    BY <1>1, <2>1, TheRefresh, ReleaseKeepsHead, BaseFacts
<1>4. \A c \in Calls : \/ call'[c] = call[c]
                       \/ /\ call'[c].kind = "get" /\ call'[c].at \notin Ending
                          /\ call[c].kind # "refresh"
  BY <1>1, <1>2 DEF LeftAlone, NoCall, Ending
<1>5. QED
  BY <1>1, <1>3, <1>4, SameCookieKeepsCalm

\* The new pair, on record, is the cookie now; no other is on its way.
LEMMA RenewedKeepsCalm ==
    ASSUME ConsoleBase, Calm, NEW c \in Calls, Renewed(c)
    PROVE  Calm'
<1>1. /\ call[c].kind = "refresh" /\ call[c].at = "answered" /\ Elsewhere
      /\ cookie' = call[c].pair
      /\ \A d \in Calls : \/ d = c /\ call'[d] = NoCall
                          \/ d # c /\ call'[d] = call[d]
                          \/ d # c /\ d \in waits
                             /\ call'[d] = Arriving(call[d].kind, call[c].pair)
  BY RenewedIsStep DEF Renewed, Answered
<1>2. RefreshOK(c) /\ ComingOK(c)
  BY DEF Calm
<1>3. \A d \in Calls : \/ call'[d] = call[d]
                       \/ call'[d].kind = "get" /\ call'[d].at \notin Ending
  <2> SUFFICES ASSUME NEW d \in Calls, call'[d] # call[d]
               PROVE  call'[d].kind = "get" /\ call'[d].at \notin Ending
    OBVIOUS
  <2>1. CASE d = c
    BY <1>1, <2>1 DEF NoCall, Ending
  <2>2. CASE d \in waits /\ call'[d] = Arriving(call[d].kind, call[c].pair)
    <3>1. call[d].kind = "get" /\ "get" \in Guarded \cup {"refresh", "login"}
      BY <2>2, BaseFacts DEF Calm, Guarded
    <3>2. call[c].pair \in 0..Len(issued)
      BY BaseFacts
    <3>3. QED
      BY <2>2, <3>1, <3>2, ArrivingFacts, BaseFacts DEF Ending
  <2>3. QED
    BY <1>1, <2>1, <2>2
<1>4. ASSUME NEW d \in Calls, call'[d] = call[d], call[d].kind \in {"refresh", "login"}
      PROVE  d # c /\ call[d].pair # cookie' /\ call[d].kind # "refresh"
  <2>1. d # c
    BY <1>1, <1>4 DEF NoCall
  <2>2. QED
    BY <1>1, <1>2, <1>4, <2>1 DEF RefreshOK, ComingOK
<1>5. cookie' \in records'
  BY <1>1, <1>2 DEF ComingOK, Elsewhere, keys
<1>6. QED
  <2>1. cookie' \in records
    BY <1>5 DEF Renewed, Elsewhere, keys
  <2>2. QED
    BY <1>1, <1>3, <1>4, <2>1, BrowserKeepsCalm

LEMMA SignedInKeepsCalm ==
    ASSUME ConsoleBase, Calm, NEW c \in Calls,
           call[c].kind = "login", call[c].at = "answered",
           Done(c), Elsewhere, cookie' = call[c].pair, queue' = queue
    PROVE  Calm'
<1>1. /\ call'[c] = NoCall
      /\ \A d \in Calls \ {c} : call'[d] = call[d] /\ asker'[d] = asker[d]
  BY DoneFacts
<1>2. ComingOK(c)
  BY DEF Calm
<1>3. cookie' \in records
  BY <1>2 DEF ComingOK
<1>4. \A d \in Calls \ {c} : call[d].kind \in {"refresh", "login"} => call[d].pair # cookie'
  BY <1>2 DEF ComingOK
<1>5. NoCall.kind = "get" /\ NoCall.at \notin Ending
  BY DEF NoCall, Ending
<1>6. \A d \in Calls : call[d].kind = "refresh" => queue # <<>>
  BY TheRefresh
<1>7. call'[c] # call[c]
  BY <1>1, <1>5
<1>8. QED
  BY <1>1, <1>3, <1>4, <1>5, <1>6, <1>7, BrowserKeepsCalm

LEMMA DoneKeepsCalm ==
    ASSUME ConsoleBase, Calm, NEW c \in Calls, call[c].kind # "refresh",
           Done(c), Elsewhere, cookie' = cookie, queue' = queue
    PROVE  Calm'
<1>1. /\ call'[c] = NoCall
      /\ \A d \in Calls \ {c} : call'[d] = call[d] /\ asker'[d] = asker[d]
  BY DoneFacts
<1>2. NoCall.kind = "get" /\ NoCall.at \notin Ending
  BY DEF NoCall, Ending
<1>3. \A d \in Calls : call[d].kind = "refresh" => queue # <<>>
  BY TheRefresh
<1>4. QED
  BY <1>1, <1>2, <1>3, SameCookieKeepsCalm

LEMMA OrphanKeepsCalm ==
    ASSUME ConsoleBase, Calm, NEW c \in Calls, OrphanEnds(c)
    PROVE  Calm'
<1>1. /\ asker[c] = NoTab /\ call[c].at \in {"answered", "refused"}
      /\ Done(c) /\ Elsewhere /\ queue' = queue
      /\ cookie' = cookie \/ (call[c].at = "answered" /\ cookie' = call[c].pair
                              /\ call[c].kind \in {"refresh", "login"})
  BY DEF OrphanEnds, tabVars, Calm
<1>2. call[c].kind # "refresh"
  BY <1>1, TheRefresh, NoTabAssumption, BaseFacts
<1>3. QED
  BY <1>1, <1>2, DoneKeepsCalm, SignedInKeepsCalm

LEMMA UnauthorisedKeepsCalm ==
    ASSUME ConsoleBase, Calm, NEW c \in Calls, Unauthorised(c)
    PROVE  Calm'
<1>1. PICK t \in Tabs : t = asker[c]
  BY UnauthorisedIsStep
<1>2. call[c].kind = "get" /\ Elsewhere /\ cookie' = cookie /\ asker' = asker
  BY DEF Unauthorised, Calm, Guarded
<1>3. \/ call' = [call EXCEPT ![c] = Arriving("get", token[t])] /\ queue' = queue
      \/ call' = call /\ RefreshOnce(t)
  BY <1>1, <1>2, UnauthorisedIsStep
<1>4. \A d \in Calls : call[d].kind = "refresh" => queue' # <<>> /\ Head(queue') = Head(queue)
  BY <1>3, TheRefresh, OnceKeepsHead, BaseFacts
<1>5. token[t] \in 0..Len(issued) /\ "get" \in Guarded \cup {"refresh", "login"}
  BY BaseFacts DEF Guarded
<1>6. Arriving("get", token[t]).kind = "get" /\ Arriving("get", token[t]).at \notin Ending
  BY <1>5, ArrivingFacts, BaseFacts DEF Ending
<1>7. \A d \in Calls : \/ call'[d] = call[d]
                       \/ /\ call'[d].kind = "get" /\ call'[d].at \notin Ending
                          /\ call[d].kind # "refresh"
  BY <1>2, <1>3, <1>6, BaseFacts
<1>8. QED
  BY <1>2, <1>4, <1>7, SameCookieKeepsCalm

\* The refresh of the tab that has the lock is the only one, and what it
\* presents is on record: what was about to replace the cookie has come.
LEMMA RefreshNowKeepsCalm ==
    ASSUME ConsoleBase, Calm, NEW t \in Tabs, RefreshNow(t)
    PROVE  Calm'
<1>1. /\ queue # <<>> /\ Head(queue) = t /\ ~Renewing(t) /\ Free # {}
      /\ Send(t, "refresh", cookie)
      /\ cookie' = cookie /\ queue' = queue
  BY DEF RefreshNow, MayRefresh, tabVars
<1>2. \A c \in Calls : call[c].kind # "refresh"
  BY <1>1, TheRefresh DEF Renewing, Of
<1>3. cookie \in records /\ cookie # 0 /\ cookie \in 0..Len(issued)
  BY <1>2, BaseFacts DEF Calm
<1>4. PICK c \in Calls : c = NextCall
  BY <1>1, FreeCalls
<1>5. /\ call'[c] = Arriving("refresh", cookie) /\ asker'[c] = t /\ Elsewhere
      /\ \A d \in Calls \ {c} : call'[d] = call[d]
  BY <1>1, <1>3, <1>4, SendFacts
<1>6. call'[c].kind = "refresh" /\ call'[c].at = "record" /\ call'[c].pair = cookie
  <2>1. StaffTypeOK
    BY BaseFacts
  <2>2. QED
    BY <1>3, <1>5, <2>1, ArrivingFacts
<1>7. UNCHANGED <<account, records, black>>
  BY <1>5 DEF Elsewhere, keys
<1>8. ASSUME NEW d \in Calls
      PROVE  /\ call'[d].kind \in {"get", "refresh", "login"}
             /\ call'[d].kind = "login" => call'[d].at \in {"store", "answered"}
             /\ call'[d].at \notin Ending
             /\ RefreshOK(d)'
  <2>1. CASE d = c
    BY <1>1, <1>2, <1>3, <1>5, <1>6, <1>7, <2>1 DEF RefreshOK, Ending
  <2>2. CASE d # c
    BY <1>2, <1>5, <2>2 DEF Calm, RefreshOK
  <2>3. QED
    BY <2>1, <2>2
<1>9. ASSUME NEW d \in Calls
      PROVE  ComingOK(d)'
  <2> SUFFICES ASSUME call'[d].at = "answered", call'[d].kind \in {"refresh", "login"}
               PROVE  ComingOK(d)'
    BY DEF ComingOK
  <2>1. d # c /\ call'[d] = call[d]
    BY <1>5, <1>6
  <2>2. ComingOK(d)
    BY DEF Calm
  <2>3. QED
    BY <1>1, <1>5, <1>6, <1>7, <2>1, <2>2 DEF ComingOK
<1>10. QED
  BY <1>1, <1>3, <1>7, <1>8, <1>9 DEF Calm

\* The refresh, or a request for data, gets on.
LEMMA MoveKeepsCalm ==
    ASSUME ConsoleBase, Calm, NEW c \in Calls, \A d \in Calls \ {c} : call'[d] = call[d],
           call[c].at \notin {"store", "answered"},
           call'[c].kind = call[c].kind, call'[c].pair = call[c].pair,
           UNCHANGED <<account, black, cookie, queue, asker>>,
           \/ call[c].kind = "get" /\ call'[c].at \notin Ending /\ records' = records
           \/ /\ call[c].kind = "refresh" /\ records' = records
              /\ call'[c].at \in {"revoked", "staff", "delete"}
           \/ /\ call[c].kind = "refresh" /\ records' = records \ {call[c].pair}
              /\ call'[c].at = "store"
    PROVE  Calm'
<1>1. RefreshOK(c) /\ \A d \in Calls : ComingOK(d) /\ RefreshOK(d)
  BY DEF Calm
<1>2. call[c].kind = "refresh" => /\ call[c].pair \in records
                                  /\ \A d \in Calls : call[d].kind = "refresh" => d = c
  BY <1>1 DEF RefreshOK
<1>3. \/ cookie \in records'
      \/ \E d \in Calls : call'[d].kind = "refresh" /\ call'[d].at \in {"store", "answered"}
  <2>1. CASE records' = records
    BY <2>1 DEF Calm
  <2>2. CASE call[c].kind = "refresh" /\ call'[c].at = "store"
    BY <2>2
  <2>3. QED
    BY <2>1, <2>2
<1>4. ASSUME NEW d \in Calls
      PROVE  /\ call'[d].kind \in {"get", "refresh", "login"}
             /\ call'[d].kind = "login" => call'[d].at \in {"store", "answered"}
             /\ call'[d].at \notin Ending
  BY DEF Calm, Ending
<1>5. ASSUME NEW d \in Calls
      PROVE  RefreshOK(d)'
  <2> SUFFICES ASSUME call'[d].kind = "refresh"
               PROVE  RefreshOK(d)'
    BY DEF RefreshOK
  <2>1. call[d].kind = "refresh" /\ queue # <<>> /\ asker[d] = Head(queue)
        /\ \A e \in Calls : call[e].kind = "refresh" => e = d
    BY TheRefresh
  <2>2. \A e \in Calls : call'[e].kind = "refresh" => e = d
    BY <2>1
  <2>3. call'[d].at \in {"record", "revoked", "staff", "delete", "store", "answered"}
    BY <1>1 DEF RefreshOK
  <2>4. call'[d].at \in {"record", "revoked", "staff", "delete"} => call'[d].pair \in records'
    <3>1. CASE d = c
      BY <1>2, <3>1
    <3>2. CASE d # c
      BY <1>1, <2>1, <3>2 DEF RefreshOK
    <3>3. QED
      BY <3>1, <3>2
  <2>5. QED
    BY <2>1, <2>2, <2>3, <2>4 DEF RefreshOK
<1>6. ASSUME NEW d \in Calls
      PROVE  ComingOK(d)'
  <2> SUFFICES ASSUME call'[d].at = "answered", call'[d].kind \in {"refresh", "login"}
               PROVE  ComingOK(d)'
    BY DEF ComingOK
  <2>1. d # c /\ call'[d] = call[d]
    OBVIOUS
  <2>2. ComingOK(d)
    BY <1>1
  <2>3. call[c].kind = "refresh" => call[d].pair # call[c].pair
    BY <2>1, <2>2 DEF ComingOK
  <2>4. call[d].pair \in records' /\ call[d].pair # cookie
    BY <2>1, <2>2, <2>3 DEF ComingOK
  <2>5. \A e \in Calls \ {d} : call'[e].kind \in {"refresh", "login"} =>
           call'[e].pair # call[d].pair
    BY <2>1, <2>2 DEF ComingOK
  <2>6. QED
    BY <2>1, <2>4, <2>5 DEF ComingOK
<1>7. QED
  BY <1>3, <1>4, <1>5, <1>6 DEF Calm

\* The pair that is issued is new to everybody.
LEMMA IssueKeepsCalm ==
    ASSUME ConsoleBase, Calm, NEW c \in Calls, IssueSession(c),
           UNCHANGED <<cookie, queue, asker>>
    PROVE  Calm'
<1>0. PICK n : n = Len(issued) + 1
  OBVIOUS
<1>1. /\ call[c].at = "store" /\ n \in Pairs /\ records' = records \cup {n}
      /\ UNCHANGED <<account, black>>
      /\ call' = [call EXCEPT ![c] = [NoCall EXCEPT !.kind = call[c].kind,
                                                    !.at = "answered", !.pair = n]]
  BY <1>0 DEF IssueSession, StoreStaffRefreshRecord
<1>2. /\ \A d \in Calls \ {c} : call'[d] = call[d]
      /\ call'[c].kind = call[c].kind /\ call'[c].at = "answered" /\ call'[c].pair = n
  BY <1>1, BaseFacts DEF NoCall
<1>3. /\ Len(issued) \in Nat /\ cookie # n /\ \A d \in Calls : call[d].pair # n
      /\ \A p \in records : p # n
  BY <1>0, BaseFacts, PairsOut, RecordsAreOut
<1>4. ASSUME NEW d \in Calls
      PROVE  /\ call'[d].kind \in {"get", "refresh", "login"}
             /\ call'[d].kind = "login" => call'[d].at \in {"store", "answered"}
             /\ call'[d].at \notin Ending
             /\ RefreshOK(d)'
  BY <1>1, <1>2 DEF Calm, RefreshOK, Ending
<1>5. ASSUME NEW d \in Calls
      PROVE  ComingOK(d)'
  <2> SUFFICES ASSUME call'[d].at = "answered", call'[d].kind \in {"refresh", "login"}
               PROVE  ComingOK(d)'
    BY DEF ComingOK
  <2>1. CASE d = c
    BY <1>1, <1>2, <1>3, <2>1 DEF ComingOK
  <2>2. CASE d # c
    BY <1>1, <1>2, <1>3, <2>2 DEF Calm, ComingOK
  <2>3. QED
    BY <2>1, <2>2
<1>6. \/ cookie \in records'
      \/ \E d \in Calls : call'[d].kind = "refresh" /\ call'[d].at \in {"store", "answered"}
  BY <1>1, <1>2 DEF Calm
<1>7. QED
  BY <1>1, <1>4, <1>5, <1>6 DEF Calm

LEMMA CallStepKeepsCalm ==
    ASSUME ConsoleBase, Calm, NEW c \in Calls, CallStep(c),
           UNCHANGED <<cookie, queue, asker>>
    PROVE  Calm'
<1>1. /\ call \in [Calls -> Request] /\ call[c] \in Request /\ PairOK(c) /\ RefreshOK(c)
      /\ call[c].kind \in {"get", "refresh", "login"} /\ call[c].at \notin Ending
      /\ call[c].kind = "login" => call[c].at \in {"store", "answered"}
      /\ account = "active" /\ \A d \in Pairs : black[d] = 0
  BY BaseFacts DEF ConsoleBase, StaffInv, Calm
<1>2. \A d \in Calls \ {c} : call'[d] = call[d]
  BY CallStepFacts DEF ConsoleBase
<1>3. CASE PassBlacklist(c)
  <2>1. PICK at \in {"refused", "principal"} : Move(c, at)
    BY <1>3 DEF PassBlacklist
  <2>2. /\ call'[c].at = at /\ call'[c].kind = call[c].kind /\ call'[c].pair = call[c].pair
    BY <1>1, <2>1 DEF Move, Request
  <2>3. /\ call[c].kind = "get" /\ call[c].at = "blacklist"
        /\ UNCHANGED <<account, black, records>>
    BY <1>1, <1>3 DEF PairOK, PassBlacklist, Reads, keys, RefreshOK
  <2>4. QED
    BY <1>2, <2>2, <2>3, MoveKeepsCalm DEF Ending
<1>4. CASE FindPrincipal(c)
  <2>1. /\ call[c].kind = "get" /\ call[c].at = "principal"
        /\ UNCHANGED <<account, black, records>>
    BY <1>1, <1>4 DEF PairOK, FindPrincipal, Reads, keys, RefreshOK
  <2>2. PICK left, all : call' = [call EXCEPT ![c].at = "answered", ![c].left = left,
                                              ![c].all = all]
    BY <1>1, <1>4, <2>1 DEF FindPrincipal
  <2>3. /\ call'[c].at = "answered" /\ call'[c].kind = call[c].kind
        /\ call'[c].pair = call[c].pair
    BY <1>1, <2>2 DEF Request
  <2>4. QED
    BY <1>2, <2>1, <2>3, MoveKeepsCalm DEF Ending
<1>5. CASE GetStaffRefreshRecord(c) \/ IsStaffDeviceBlacklisted(c) \/ FindStaff(c)
  <2>1. /\ call[c].kind = "refresh" /\ call[c].at \in {"record", "revoked", "staff"}
        /\ UNCHANGED <<account, black, records>>
    BY <1>1, <1>5 DEF PairOK, GetStaffRefreshRecord, IsStaffDeviceBlacklisted, FindStaff,
       Reads, keys
  <2>2. call[c].pair \in records /\ black[call[c].device] = 0
    BY <1>1, <2>1 DEF RefreshOK, PairOK
  <2>3. PICK at \in {"revoked", "staff", "delete"} : Move(c, at)
    BY <1>1, <1>5, <2>2 DEF GetStaffRefreshRecord, IsStaffDeviceBlacklisted, FindStaff
  <2>4. /\ call'[c].at = at /\ call'[c].kind = call[c].kind /\ call'[c].pair = call[c].pair
    BY <1>1, <2>3 DEF Move, Request
  <2>5. QED
    BY <1>2, <2>1, <2>4, MoveKeepsCalm
<1>6. CASE DeleteStaffRefreshRecord(c)
  <2>1. /\ call[c].kind = "refresh" /\ call[c].at = "delete"
        /\ UNCHANGED <<account, black>> /\ records' = records \ {call[c].pair}
    BY <1>1, <1>6 DEF PairOK, DeleteStaffRefreshRecord
  <2>2. /\ call'[c].at = "store" /\ call'[c].kind = call[c].kind
        /\ call'[c].pair = call[c].pair
    BY <1>1, <1>6 DEF DeleteStaffRefreshRecord, Move, Request
  <2>3. QED
    BY <1>2, <2>1, <2>2, MoveKeepsCalm
<1>7. CASE IssueSession(c)
  BY <1>7, IssueKeepsCalm
<1>8. ~(GetDevices(c) \/ GetTokens(c) \/ WipeDevice(c) \/ SessionsEnded(c))
  BY <1>1 DEF GetDevices, GetTokens, WipeDevice, SessionsEnded, Ending
<1>9. QED
  BY <1>3, <1>4, <1>5, <1>6, <1>7, <1>8 DEF CallStep

LEMMA TimeKeepsCalm ==
    ASSUME ConsoleBase, Calm,
           \/ Reactivate \/ (\E p \in Pairs : AccessExpires(p))
           \/ (\E d \in Pairs : BlacklistLapses(d)),
           UNCHANGED <<cookie, queue, asker>>
    PROVE  Calm'
<1>1. ~Reactivate
  BY DEF Calm, Reactivate
<1>2. \A d \in Pairs : ~BlacklistLapses(d)
  BY DEF Calm, BlacklistLapses
<1>3. UNCHANGED <<account, call, records, black>>
  BY <1>1, <1>2 DEF AccessExpires, keys
<1>4. QED
  BY <1>3 DEF Calm, RefreshOK, ComingOK

LEMMA CalmInit == ConsoleInit => Calm
BY StaffNumbers DEF ConsoleInit, StaffInit, Calm, RefreshOK, ComingOK, NoCall, Ending

LEMMA DisturbedStays ==
    ASSUME ConsoleNext, ~disturbed'
    PROVE  ~disturbed
<1>1. CASE Inside
  BY <1>1 DEF Inside, Serve, Renew, Renewed, RefreshRefused, Unauthorised, GetReturns,
     SignedOut, SignedIn, OrphanEnds, RestoreSession, RefreshNow, Undisturbed
<1>2. CASE FromOutside
  <2>1. ASSUME NEW t \in Tabs, SignIn(t) \/ Leave(t) \/ \E kind \in Guarded : Ask(t, kind)
        PROVE  ~disturbed
    <3>1. PICK more : disturbed' = (disturbed \/ more) \/ disturbed' = disturbed
      BY <2>1 DEF SignIn, Leave, Ask
    <3>2. QED
      BY <3>1
  <2>2. \A c \in Calls : ~Lost(c)
    BY DEF Lost
  <2>3. Others => ~disturbed
    BY DEF Others
  <2>4. QED
    BY <1>2, <2>1, <2>2, <2>3 DEF FromOutside
<1>3. QED
  BY <1>1, <1>2 DEF ConsoleNext

LEMMA CalmNext ==
    ASSUME ConsoleBase, ~disturbed => Calm, [ConsoleNext]_consoleVars, ~disturbed'
    PROVE  Calm'
<1>1. CASE UNCHANGED consoleVars
  BY <1>1 DEF consoleVars, staffVars, keys, tabVars, Calm, RefreshOK, ComingOK
<1>2. CASE Inside
  <2>1. Calm
    BY <1>2, DisturbedStays DEF ConsoleNext
  <2>2. ASSUME NEW c \in Calls, Serve(c)
        PROVE  Calm'
    <3>1. CASE CallStep(c) /\ UNCHANGED <<cookie, tabVars, asker, waits, again>>
      BY <2>1, <3>1, CallStepKeepsCalm DEF tabVars
    <3>2. CASE Renewed(c)
      BY <2>1, <3>2, RenewedKeepsCalm
    <3>3. ~RefreshRefused(c)
      BY <2>1, TheRefresh DEF RefreshRefused, Refused
    <3>4. CASE Unauthorised(c)
      BY <2>1, <3>4, UnauthorisedKeepsCalm
    <3>5. CASE GetReturns(c)
      BY <2>1, <3>5, DoneKeepsCalm DEF GetReturns, tabVars
    <3>6. ~SignedOut(c)
      BY <2>1 DEF SignedOut, Calm
    <3>7. CASE SignedIn(c)
      BY <2>1, <3>7, SignedInKeepsCalm DEF SignedIn, Answered
    <3>8. CASE OrphanEnds(c)
      BY <2>1, <3>8, OrphanKeepsCalm
    <3>9. QED
      BY <2>2, <3>1, <3>2, <3>3, <3>4, <3>5, <3>6, <3>7, <3>8 DEF Serve
  <2>3. ASSUME NEW t \in Tabs, RestoreSession(t)
        PROVE  Calm'
    <3>1. RefreshOnce(t) /\ UNCHANGED <<staffVars, cookie, asker>>
      BY <2>3 DEF RestoreSession
    <3>2. Elsewhere /\ call' = call
      BY <3>1 DEF staffVars, Elsewhere
    <3>3. \A c \in Calls : call[c].kind = "refresh" =>
             queue' # <<>> /\ Head(queue') = Head(queue)
      BY <2>1, <3>1, TheRefresh, OnceKeepsHead, BaseFacts
    <3>4. QED
      BY <2>1, <3>1, <3>2, <3>3, SameCookieKeepsCalm
  <2>4. QED
    BY <1>2, <2>1, <2>2, <2>3, RefreshNowKeepsCalm DEF Inside, Renew
<1>3. CASE FromOutside
  <2>1. Calm
    BY <1>3, DisturbedStays DEF ConsoleNext
  <2>2. ASSUME NEW t \in Tabs, SignIn(t) \/ \E kind \in Guarded : Ask(t, kind)
        PROVE  Calm'
    <3>1. PICK kind \in {"get", "login"}, pair \in 0..Len(issued) :
            /\ kind = "login" => pair = 0
            /\ Cardinality(Free) > 1 /\ Send(t, kind, pair) /\ cookie' = cookie /\ queue' = queue
      BY <2>2, BaseFacts DEF SignIn, Ask, tabVars
    <3>2. Free # {}
      BY <3>1, FS_EmptySet
    <3>3. QED
      BY <2>1, <3>1, <3>2, SendKeepsCalm
  <2>3. ASSUME NEW t \in Tabs, Leave(t)
        PROVE  Calm'
    BY <2>1, <2>3, LeaveKeepsCalm DEF Leave
  <2>4. \A c \in Calls : ~Lost(c)
    BY DEF Lost
  <2>5. CASE Others
    BY <2>1, <2>5, TimeKeepsCalm DEF Others, tabVars
  <2>6. QED
    BY <1>3, <2>2, <2>3, <2>4, <2>5 DEF FromOutside
<1>4. QED
  BY <1>1, <1>2, <1>3 DEF ConsoleNext

LEMMA ConsoleInvIsInductive ==
    /\ ConsoleInit => ConsoleInv
    /\ ConsoleInv /\ [ConsoleNext]_consoleVars => ConsoleInv'
<1>1. ConsoleInv <=> ConsoleBase /\ (~disturbed => Calm)
  BY DEF ConsoleInv, ConsoleBase
<1>2. ConsoleInit => ConsoleInv
  BY <1>1, BaseInit, CalmInit
<1>3. ASSUME ConsoleInv, [ConsoleNext]_consoleVars
      PROVE  ConsoleInv'
  <2>1. ConsoleBase'
    BY <1>1, <1>3, BaseNext
  <2>2. ~disturbed' => Calm'
    BY <1>1, <1>3, CalmNext
  <2>3. QED
    BY <2>1, <2>2 DEF ConsoleInv, ConsoleBase
<1>4. QED
  BY <1>2, <1>3

\* No tab loses a token or is sent to sign in.
LEMMA StepKeepsSession ==
    ASSUME ConsoleBase, Calm, ConsoleNext, ~disturbed', NEW t \in Tabs
    PROVE  /\ ~(status[t] = "unknown" /\ status'[t] = "out")
           /\ ~(token[t] # 0 /\ token'[t] = 0)
<1> DEFINE Good == /\ ~(status[t] = "unknown" /\ status'[t] = "out")
                   /\ ~(token[t] # 0 /\ token'[t] = 0)
<1>1. UNCHANGED <<status, token>> => Good
  OBVIOUS
<1>2. ASSUME NEW c \in Calls, Renewed(c) \/ SignedIn(c)
      PROVE  Good
  <2>1. /\ asker[c] \in Tabs /\ token'[asker[c]] = call[c].pair
        /\ \A u \in Tabs \ {asker[c]} : token'[u] = token[u] /\ status'[u] = status[u]
        /\ status'[asker[c]] = "in"
    BY <1>2, RenewedIsStep, SignedInIsStep
  <2>2. call[c].pair \in records
    BY <1>2 DEF Renewed, SignedIn, Answered, Calm, ComingOK
  <2>3. QED
    BY <2>1, <2>2, RecordsAreOut
<1>3. ASSUME NEW c \in Calls, Serve(c)
      PROVE  Good
  <2>1. ~RefreshRefused(c) /\ ~SignedOut(c)
    BY TheRefresh DEF RefreshRefused, Refused, SignedOut, Calm
  <2>2. CASE \/ CallStep(c) /\ UNCHANGED <<cookie, tabVars, asker, waits, again>>
             \/ Unauthorised(c) \/ GetReturns(c) \/ OrphanEnds(c)
    <3>1. UNCHANGED <<status, token>>
      BY <2>2 DEF tabVars, Unauthorised, GetReturns, OrphanEnds
    <3>2. QED
      BY <1>1, <3>1
  <2>3. QED
    BY <1>2, <1>3, <2>1, <2>2 DEF Serve
<1>4. ASSUME NEW u \in Tabs, Leave(u)
      PROVE  Good
  <2>1. /\ token' = [token EXCEPT ![u] = token[u]]
        /\ status' = [status EXCEPT ![u] = IF token[u] = 0 THEN "unknown" ELSE "in"]
    BY <1>4 DEF Leave, Load
  <2>2. QED
    BY <2>1, BaseFacts
<1>5. ASSUME NEW u \in Tabs,
             Renew(u) \/ SignIn(u) \/ \E kind \in Guarded : Ask(u, kind)
      PROVE  Good
  <2>1. UNCHANGED <<status, token>>
    BY <1>5 DEF Renew, RestoreSession, RefreshNow, SignIn, Ask, tabVars
  <2>2. QED
    BY <1>1, <2>1
<1>6. \A c \in Calls : ~Lost(c)
  BY DEF Lost
<1>7. Others => Good
  BY <1>1 DEF Others, tabVars
<1>8. QED
  BY <1>3, <1>4, <1>5, <1>6, <1>7 DEF ConsoleNext, Inside, FromOutside

\* However many requests of however many tabs meet an expired token at once,
\* whatever refreshes, sign-ins, reloads and passing of time interleave with
\* them: no tab drops its token or gives up restoring a session, unless an
\* answer was lost, a page left during its refresh, or sessions were ended.
\* The Web Lock of refreshOnce is why: there is one refresh at a time, and the
\* cookie it presents is on record.
THEOREM GoodSessionAlwaysKept == ConsoleSpec => GoodSessionIsKept
<1>1. ASSUME ConsoleInv, ConsoleNext
      PROVE  \A t \in Tabs :
               \/ status[t] = "unknown" /\ status'[t] = "out"
               \/ token[t] # 0 /\ token'[t] = 0
               => disturbed'
  <2> SUFFICES ASSUME NEW t \in Tabs, ~disturbed'
               PROVE  /\ ~(status[t] = "unknown" /\ status'[t] = "out")
                      /\ ~(token[t] # 0 /\ token'[t] = 0)
    OBVIOUS
  <2>1. ConsoleBase
    BY <1>1 DEF ConsoleInv, ConsoleBase
  <2>2. Calm
    BY <1>1, <2>1, DisturbedStays DEF ConsoleInv
  <2>3. QED
    BY <1>1, <2>1, <2>2, StepKeepsSession
<1>2. ConsoleInv /\ [ConsoleNext]_consoleVars =>
        [\A t \in Tabs :
            \/ status[t] = "unknown" /\ status'[t] = "out"
            \/ token[t] # 0 /\ token'[t] = 0
            => disturbed']_consoleVars
  BY <1>1
<1>3. QED
  BY <1>2, ConsoleInvIsInductive, PTL DEF ConsoleSpec, GoodSessionIsKept
============================================================================
