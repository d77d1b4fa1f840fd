---------------------------- MODULE AccountsProofs ----------------------------
(***************************************************************************)
(* Proofs about Accounts, for any number of accounts, addresses, devices   *)
(* and requests, and any number of failures.  First what holds of signed-in*)
(* devices whatever happens: which device a token belongs to, what a       *)
(* removal finds and what it leaves; then the steps Accounts adds.         *)
(***************************************************************************)
EXTENDS Accounts, TLAPS

-----------------------------------------------------------------------------
(* Sessions *)

\* A refresh whose token has been stored.
Stored == {"seen", "touch", "answer", "done", "failed"}

\* The token j was minted for device d and stored.
Home(j, d) ==
    /\ j \in Devices => j = d /\ login[d] = "in"
    /\ j \in Requests => req[j].dev = d /\ req[j].at \in Stored

\* A token a browser has seen: its device is signed in, its refresh is over.
Shown(j, d) ==
    /\ Home(j, d) /\ login[d] = "in"
    /\ j \in Requests => req[j].at = "done"

\* Tokens are minted once, for one device; a record's token is in the set of
\* its device, unless a removal deleted the set under it; a token whose record
\* was deleted does not come back.
TokensOK ==
    /\ \A r \in refresh : r[1] \in rtset[r[2]] \/ r[2] \in straddled
    /\ \A d \in Devices : \A j \in rtset[d] : Home(j, d)
    /\ \A d \in Devices : cookie[d] # NoJti => Shown(cookie[d], d)
    /\ \A q \in Requests :
         /\ req[q].at # "idle" => req[q].jti # NoJti
         /\ req[q].jti # NoJti => Shown(req[q].jti, req[q].dev)
         /\ req[q].at = "unlist" => <<req[q].jti, req[q].dev>> \notin refresh

\* Only devices that have signed in are listed and removed, and the tokens a
\* removal has found are theirs.
RemovalsOK ==
    /\ \A d \in Devices : d \in listed \/ removed[d] # "no" => login[d] \notin {"no", "code"}
    /\ \A k \in Removals :
         /\ rm[k].at \in {"blacklist", "members", "exec"} =>
              \A d \in rm[k].todo \cup rm[k].ready : login[d] \notin {"no", "code"}
         /\ \A j \in Jtis, d \in Devices : <<j, d>> \in rm[k].found
                                         => d \in rm[k].ready /\ Home(j, d)

\* Nothing is left of a device removed while it was quiet, and nothing comes.
OutOK ==
    \A d \in Devices : removed[d] # "no" /\ d \notin straddled =>
        /\ ~Busy(d)
        /\ rtset[d] = {}
        /\ \A r \in refresh : r[2] # d
        /\ removed[d] = "out" =>
             tokens[d] = {} \/ (d \in black /\ tokens[d] = {"before"})

\* The token a refresh is about to hand out has its record.
AnswersOK ==
    \A q \in Requests : req[q].at \in {"seen", "touch", "answer"} =>
        <<q, req[q].dev>> \in refresh \/ removed[req[q].dev] # "no"

SInv == SessionTypeOK /\ TokensOK /\ RemovalsOK /\ OutOK /\ AnswersOK
        /\ CookieIsGood

--------------------------------------------------------------------------

LEMMA SessionInitSInv == SessionInit /\ People # {} => SInv
  BY NoJtiAssumption, JtisAssumption, OwnerAssumption
     DEF SessionInit, SInv, SessionTypeOK, RefreshRequest, RemovalRequest,
         TokensOK, RemovalsOK, OutOK, AnswersOK, CookieIsGood, Busy

\* A step of a request changes where it is, and nothing else of it.
LEMMA RequestMoves ==
    ASSUME SessionTypeOK, NEW q \in Requests, NEW at, Step(q, at),
           at \in {"user", "refused", "delete", "unlist", "store", "seen",
                   "touch", "answer", "done", "failed"}
    PROVE  /\ req' \in [Requests -> RefreshRequest]
           /\ req'[q].at = at
           /\ \A p \in Requests : /\ req'[p].dev = req[p].dev
                                  /\ req'[p].jti = req[p].jti
                                  /\ p # q => req'[p].at = req[p].at
<1>1. req \in [Requests -> RefreshRequest] /\ req' = [req EXCEPT ![q].at = at]
  BY DEF SessionTypeOK, Step
<1>2. at \in {"idle", "record", "done", "refused", "failed"}
             \cup Holding \cup Rotating
  BY DEF Holding, Rotating
<1>3. [req[q] EXCEPT !.at = at] \in RefreshRequest
  BY <1>1, <1>2 DEF RefreshRequest
<1>4. req' \in [Requests -> RefreshRequest]
  BY <1>1, <1>3
<1>5. req'[q].at = at /\ req'[q].dev = req[q].dev /\ req'[q].jti = req[q].jti
  BY <1>1 DEF RefreshRequest
<1>6. \A p \in Requests \ {q} : req'[p] = req[p]
  BY <1>1
<1> QED
  BY <1>4, <1>5, <1>6
\* Tokens stay with their devices while requests move on.
LEMMA RemovalsStay ==
    ASSUME SInv, NEW q \in Requests, NEW at, Step(q, at),
           req[q].at \in Stored => at \in Stored,
           UNCHANGED <<login, rm, removed>>,
           \A d \in listed' : d \in listed \/ login[d] \notin {"no", "code"}
    PROVE  RemovalsOK'
<1>1. SessionTypeOK /\ RemovalsOK
  BY DEF SInv
<1>2. ASSUME NEW j \in Jtis, NEW d \in Devices, Home(j, d) PROVE Home(j, d)'
  BY <1>1, <1>2 DEF SessionTypeOK, Step, Home, RefreshRequest
<1> QED
  BY <1>1, <1>2 DEF RemovalsOK

LEMMA RemovalMoves ==
    ASSUME SessionTypeOK, NEW k \in Removals,
           NEW at \in {"members", "done", "failed"},
           rm' = [rm EXCEPT ![k].at = at]
    PROVE  rm' \in [Removals -> RemovalRequest]
<1>1. [rm[k] EXCEPT !.at = at] \in RemovalRequest
  BY DEF SessionTypeOK, RemovalRequest
<1> QED
  BY <1>1 DEF SessionTypeOK

LEMMA AskForCodeKeeps ==
    ASSUME SInv, NEW d \in Devices, AskForCode(d) PROVE SInv'
<1>1. SessionTypeOK'
  BY DEF AskForCode, SInv, SessionTypeOK, keyVars, sessionHistory
<1>2. TokensOK'
  BY DEF AskForCode, SInv, TokensOK, Home, Shown, keyVars, sessionHistory
<1>3. RemovalsOK'
  BY DEF AskForCode, SInv, RemovalsOK, Home, keyVars, sessionHistory
<1>4. OutOK'
  BY DEF AskForCode, SInv, RemovalsOK, OutOK, Busy, keyVars, sessionHistory
<1>5. AnswersOK'
  BY DEF AskForCode, SInv, AnswersOK, keyVars, sessionHistory
<1>6. CookieIsGood'
  BY DEF AskForCode, SInv, CookieIsGood, keyVars, sessionHistory
<1> QED
  BY <1>1, <1>2, <1>3, <1>4, <1>5, <1>6 DEF SInv

LEMMA SignInKeeps ==
    ASSUME SInv, NEW d \in Devices, SignIn(d) PROVE SInv'
<1>1. SessionTypeOK'
  BY DEF SignIn, SInv, SessionTypeOK, keyVars, sessionHistory
<1>2. TokensOK'
  BY DEF SignIn, SInv, TokensOK, Home, Shown, keyVars, sessionHistory
<1>3. RemovalsOK'
  BY DEF SignIn, SInv, RemovalsOK, Home, keyVars, sessionHistory
<1>4. OutOK'
  BY DEF SignIn, SInv, RemovalsOK, OutOK, Busy, keyVars, sessionHistory
<1>5. AnswersOK'
  BY DEF SignIn, SInv, AnswersOK, keyVars, sessionHistory
<1>6. CookieIsGood'
  BY DEF SignIn, SInv, CookieIsGood, keyVars, sessionHistory
<1> QED
  BY <1>1, <1>2, <1>3, <1>4, <1>5, <1>6 DEF SInv

LEMMA StoreDeviceMetaKeeps ==
    ASSUME SInv, NEW d \in Devices, StoreDeviceMeta(d) PROVE SInv'
<1>1. SessionTypeOK'
  BY DEF StoreDeviceMeta, SInv, SessionTypeOK, sessionHistory
<1>2. TokensOK'
  BY DEF StoreDeviceMeta, SInv, TokensOK, Home, Shown, sessionHistory
<1>3. RemovalsOK'
  BY DEF StoreDeviceMeta, SInv, RemovalsOK, Home, sessionHistory
<1>4. OutOK'
  BY DEF StoreDeviceMeta, SInv, OutOK, Busy, sessionHistory
<1>5. AnswersOK'
  BY DEF StoreDeviceMeta, SInv, AnswersOK, sessionHistory
<1>6. CookieIsGood'
  BY DEF StoreDeviceMeta, SInv, CookieIsGood, sessionHistory
<1> QED
  BY <1>1, <1>2, <1>3, <1>4, <1>5, <1>6 DEF SInv

LEMMA IndexDeviceKeeps ==
    ASSUME SInv, NEW d \in Devices, IndexDevice(d) PROVE SInv'
<1>1. SessionTypeOK'
  BY DEF IndexDevice, SInv, SessionTypeOK, sessionHistory
<1>2. TokensOK'
  BY DEF IndexDevice, SInv, TokensOK, Home, Shown, sessionHistory
<1>3. RemovalsOK'
  BY DEF IndexDevice, SInv, RemovalsOK, Home, sessionHistory
<1>4. OutOK'
  BY DEF IndexDevice, SInv, OutOK, Busy, sessionHistory
<1>5. AnswersOK'
  BY DEF IndexDevice, SInv, AnswersOK, sessionHistory
<1>6. CookieIsGood'
  BY DEF IndexDevice, SInv, CookieIsGood, sessionHistory
<1> QED
  BY <1>1, <1>2, <1>3, <1>4, <1>5, <1>6 DEF SInv

LEMMA SignedInKeeps ==
    ASSUME SInv, NEW d \in Devices, SignedIn(d) PROVE SInv'
<1>1. SessionTypeOK'
  BY DEF SignedIn, StoreRefreshRecord, SInv, SessionTypeOK, Jtis, sessionHistory
<1>2. TokensOK'
  BY JtisAssumption DEF SignedIn, StoreRefreshRecord, SInv, SessionTypeOK,
     RefreshRequest, TokensOK, Home, Shown, sessionHistory
<1>3. RemovalsOK'
  BY DEF SignedIn, SInv, RemovalsOK, Home, sessionHistory
<1>4. OutOK'
  BY DEF SignedIn, StoreRefreshRecord, SInv, OutOK, Busy, sessionHistory
<1>5. AnswersOK'
  BY DEF SignedIn, StoreRefreshRecord, SInv, AnswersOK, sessionHistory
<1>6. CookieIsGood'
  BY DEF SignedIn, StoreRefreshRecord, SInv, CookieIsGood, sessionHistory
<1> QED
  BY <1>1, <1>2, <1>3, <1>4, <1>5, <1>6 DEF SInv

LEMMA SignInFailsKeeps ==
    ASSUME SInv, NEW d \in Devices, SignInFails(d) PROVE SInv'
<1>1. SessionTypeOK'
  BY DEF SignInFails, SInv, SessionTypeOK, keyVars, sessionHistory
<1>2. TokensOK'
  BY DEF SignInFails, SInv, TokensOK, Home, Shown, keyVars, sessionHistory
<1>3. RemovalsOK'
  BY DEF SignInFails, SInv, RemovalsOK, Home, keyVars, sessionHistory
<1>4. OutOK'
  BY DEF SignInFails, SInv, OutOK, Busy, keyVars, sessionHistory
<1>5. AnswersOK'
  BY DEF SignInFails, SInv, AnswersOK, keyVars, sessionHistory
<1>6. CookieIsGood'
  BY DEF SignInFails, SInv, CookieIsGood, keyVars, sessionHistory
<1> QED
  BY <1>1, <1>2, <1>3, <1>4, <1>5, <1>6 DEF SInv

LEMMA RefreshKeeps ==
    ASSUME SInv, NEW q \in Requests, NEW d \in Devices, Refresh(q, d) PROVE SInv'
<1>1. SessionTypeOK'
  BY DEF Refresh, SInv, SessionTypeOK, RefreshRequest, keyVars, sessionHistory
<1>2. TokensOK'
  BY DEF Refresh, SInv, TokensOK, RemovalsOK, Home, Shown, Stored, keyVars, sessionHistory
<1>3. RemovalsOK'
  BY NoJtiAssumption, JtisAssumption, OwnerAssumption DEF Refresh, SInv,
     SessionTypeOK, RefreshRequest, RemovalRequest, TokensOK, RemovalsOK,
     OutOK, AnswersOK, CookieIsGood, Home, Shown, Stored, Busy, Jtis, Holding,
     Rotating, keyVars, sessionHistory
<1>4. OutOK'
  BY DEF Refresh, SInv, OutOK, Busy, Holding, keyVars, sessionHistory
<1>5. AnswersOK'
  BY DEF Refresh, SInv, AnswersOK, keyVars, sessionHistory
<1>6. CookieIsGood'
  BY DEF Refresh, SInv, CookieIsGood, Rotating, keyVars, sessionHistory
<1> QED
  BY <1>1, <1>2, <1>3, <1>4, <1>5, <1>6 DEF SInv

LEMMA GetRefreshRecordKeeps ==
    ASSUME SInv, NEW q \in Requests, GetRefreshRecord(q) PROVE SInv'
<1>1. /\ req' \in [Requests -> RefreshRequest]
      /\ req'[q].at \in {"user", "refused"}
      /\ \A p \in Requests : /\ req'[p].dev = req[p].dev
                             /\ req'[p].jti = req[p].jti
                             /\ p # q => req'[p].at = req[p].at
  BY RequestMoves DEF SInv, GetRefreshRecord
<1>2. SessionTypeOK'
  BY <1>1 DEF GetRefreshRecord, SInv, SessionTypeOK, keyVars, sessionHistory
<1>3. TokensOK'
  BY DEF GetRefreshRecord, SInv, TokensOK, Home, Shown, Stored, keyVars, Step, sessionHistory
<1>4. RemovalsOK'
  BY RemovalsStay DEF GetRefreshRecord, SInv, Stored, Holding, Rotating,
     keyVars, sessionHistory
<1>5. OutOK'
  BY DEF GetRefreshRecord, SInv, OutOK, Busy, Holding, keyVars,
     sessionHistory, Step
<1>6. AnswersOK'
  BY DEF GetRefreshRecord, SInv, AnswersOK, keyVars, sessionHistory, Step
<1>7. CookieIsGood'
  BY DEF GetRefreshRecord, SInv, CookieIsGood, Rotating, keyVars,
     sessionHistory, Step
<1> QED
  BY <1>2, <1>3, <1>4, <1>5, <1>6, <1>7 DEF SInv

LEMMA CheckUserKeeps ==
    ASSUME SInv, NEW q \in Requests, CheckUser(q) PROVE SInv'
<1>1. /\ req' \in [Requests -> RefreshRequest]
      /\ req'[q].at \in {"refused", "delete"}
      /\ \A p \in Requests : /\ req'[p].dev = req[p].dev
                             /\ req'[p].jti = req[p].jti
                             /\ p # q => req'[p].at = req[p].at
  BY RequestMoves DEF SInv, CheckUser
<1>2. SessionTypeOK'
  BY <1>1 DEF CheckUser, SInv, SessionTypeOK, keyVars, sessionHistory
<1>3. TokensOK'
  BY DEF CheckUser, SInv, TokensOK, Home, Shown, Stored, keyVars, Step, sessionHistory
<1>4. RemovalsOK'
  BY RemovalsStay DEF CheckUser, SInv, Stored, Holding, Rotating, keyVars,
     sessionHistory
<1>5. OutOK'
  BY DEF CheckUser, SInv, OutOK, Busy, Holding, keyVars, sessionHistory, Step
<1>6. AnswersOK'
  BY DEF CheckUser, SInv, AnswersOK, keyVars, sessionHistory, Step
<1>7. CookieIsGood'
  BY DEF CheckUser, SInv, CookieIsGood, Rotating, keyVars, sessionHistory, Step
<1> QED
  BY <1>2, <1>3, <1>4, <1>5, <1>6, <1>7 DEF SInv

LEMMA DeleteRefreshRecordKeeps ==
    ASSUME SInv, NEW q \in Requests, DeleteRefreshRecord(q) PROVE SInv'
<1>1. /\ req' \in [Requests -> RefreshRequest]
      /\ req'[q].at = "unlist"
      /\ \A p \in Requests : /\ req'[p].dev = req[p].dev
                             /\ req'[p].jti = req[p].jti
                             /\ p # q => req'[p].at = req[p].at
  BY RequestMoves DEF SInv, DeleteRefreshRecord
<1>2. SessionTypeOK'
  BY <1>1 DEF DeleteRefreshRecord, SInv, SessionTypeOK, sessionHistory
<1>3. TokensOK'
  BY DEF DeleteRefreshRecord, SInv, TokensOK, Home, Shown, Stored, Step, sessionHistory
<1>4. RemovalsOK'
  BY RemovalsStay DEF DeleteRefreshRecord, SInv, Stored, Holding, Rotating,
     keyVars, sessionHistory
<1>5. OutOK'
  BY DEF DeleteRefreshRecord, SInv, OutOK, Busy, Holding, sessionHistory, Step
<1>6. AnswersOK'
  BY DEF DeleteRefreshRecord, SInv, TokensOK, AnswersOK, Shown,
     sessionHistory, Step
<1>7. CookieIsGood'
  BY DEF DeleteRefreshRecord, SInv, SessionTypeOK, CookieIsGood, Rotating,
     sessionHistory, Step
<1> QED
  BY <1>2, <1>3, <1>4, <1>5, <1>6, <1>7 DEF SInv

LEMMA SignTokensKeeps ==
    ASSUME SInv, NEW q \in Requests, SignTokens(q) PROVE SInv'
<1>1. /\ req' \in [Requests -> RefreshRequest]
      /\ req'[q].at = "store"
      /\ \A p \in Requests : /\ req'[p].dev = req[p].dev
                             /\ req'[p].jti = req[p].jti
                             /\ p # q => req'[p].at = req[p].at
  BY RequestMoves DEF SInv, SignTokens
<1>2. SessionTypeOK'
  BY <1>1 DEF SignTokens, SInv, SessionTypeOK, sessionHistory
<1>3. TokensOK'
  BY DEF SignTokens, SInv, SessionTypeOK, RefreshRequest, TokensOK, Home,
     Shown, Stored, Step, sessionHistory
<1>4. RemovalsOK'
  BY RemovalsStay DEF SignTokens, SInv, Stored, Holding, Rotating, keyVars,
     sessionHistory
<1>5. OutOK'
  BY DEF SignTokens, SInv, OutOK, Busy, sessionHistory, Step
<1>6. AnswersOK'
  BY DEF SignTokens, SInv, AnswersOK, sessionHistory, Step
<1>7. CookieIsGood'
  BY DEF SignTokens, SInv, CookieIsGood, Rotating, sessionHistory, Step
<1> QED
  BY <1>2, <1>3, <1>4, <1>5, <1>6, <1>7 DEF SInv

LEMMA StoreNextKeeps ==
    ASSUME SInv, NEW q \in Requests, StoreNext(q) PROVE SInv'
<1>1. /\ req' \in [Requests -> RefreshRequest]
      /\ req'[q].at = "seen"
      /\ \A p \in Requests : /\ req'[p].dev = req[p].dev
                             /\ req'[p].jti = req[p].jti
                             /\ p # q => req'[p].at = req[p].at
  BY RequestMoves DEF SInv, StoreNext
<1>2. SessionTypeOK'
  BY <1>1 DEF StoreNext, StoreRefreshRecord, SInv, SessionTypeOK,
     RefreshRequest, Jtis, sessionHistory
<1>3. TokensOK'
  BY NoJtiAssumption, JtisAssumption, OwnerAssumption DEF StoreNext,
     StoreRefreshRecord, SInv, SessionTypeOK, RefreshRequest, RemovalRequest,
     TokensOK, RemovalsOK, OutOK, AnswersOK, CookieIsGood, Home, Shown,
     Stored, Busy, keyVars, sessionHistory, Step
<1>4. RemovalsOK'
  BY RemovalsStay DEF StoreNext, StoreRefreshRecord, SInv, Stored, Holding,
     Rotating, keyVars, sessionHistory
<1>5. OutOK'
  BY DEF StoreNext, StoreRefreshRecord, SInv, OutOK, Busy, sessionHistory, Step
<1>6. AnswersOK'
  BY DEF StoreNext, StoreRefreshRecord, SInv, AnswersOK, sessionHistory, Step
<1>7. CookieIsGood'
  BY DEF StoreNext, StoreRefreshRecord, SInv, CookieIsGood, Rotating,
     sessionHistory, Step
<1> QED
  BY <1>2, <1>3, <1>4, <1>5, <1>6, <1>7 DEF SInv

LEMMA GetDeviceMetaKeeps ==
    ASSUME SInv, NEW q \in Requests, GetDeviceMeta(q) PROVE SInv'
<1>1. /\ req' \in [Requests -> RefreshRequest]
      /\ req'[q].at \in {"touch", "answer"}
      /\ \A p \in Requests : /\ req'[p].dev = req[p].dev
                             /\ req'[p].jti = req[p].jti
                             /\ p # q => req'[p].at = req[p].at
  BY RequestMoves DEF SInv, GetDeviceMeta
<1>2. SessionTypeOK'
  BY <1>1 DEF GetDeviceMeta, SInv, SessionTypeOK, keyVars, sessionHistory
<1>3. TokensOK'
  BY DEF GetDeviceMeta, SInv, SessionTypeOK, RefreshRequest, TokensOK, Home,
     Shown, Stored, keyVars, sessionHistory, Step
<1>4. RemovalsOK'
  BY RemovalsStay DEF GetDeviceMeta, SInv, Stored, Holding, Rotating, keyVars,
     sessionHistory
<1>5. OutOK'
  BY DEF GetDeviceMeta, SInv, OutOK, Busy, Holding, keyVars, sessionHistory,
     Step
<1>6. AnswersOK'
  BY DEF GetDeviceMeta, SInv, AnswersOK, keyVars, sessionHistory, Step
<1>7. CookieIsGood'
  BY DEF GetDeviceMeta, SInv, CookieIsGood, Rotating, keyVars, sessionHistory,
     Step
<1> QED
  BY <1>2, <1>3, <1>4, <1>5, <1>6, <1>7 DEF SInv

LEMMA UpdateDeviceLastSeenKeeps ==
    ASSUME SInv, NEW q \in Requests, UpdateDeviceLastSeen(q) PROVE SInv'
<1>1. /\ req' \in [Requests -> RefreshRequest]
      /\ req'[q].at = "answer"
      /\ \A p \in Requests : /\ req'[p].dev = req[p].dev
                             /\ req'[p].jti = req[p].jti
                             /\ p # q => req'[p].at = req[p].at
  BY RequestMoves DEF SInv, UpdateDeviceLastSeen
<1>2. SessionTypeOK'
  BY <1>1 DEF UpdateDeviceLastSeen, SInv, SessionTypeOK, RefreshRequest,
     sessionHistory
<1>3. TokensOK'
  BY NoJtiAssumption, JtisAssumption, OwnerAssumption DEF
     UpdateDeviceLastSeen, SInv, SessionTypeOK, RefreshRequest,
     RemovalRequest, TokensOK, RemovalsOK, OutOK, AnswersOK, CookieIsGood,
     Home, Shown, Stored, Busy, Jtis, Holding, Rotating, keyVars,
     sessionHistory, Step
<1>4. RemovalsOK'
  BY RemovalsStay DEF UpdateDeviceLastSeen, SInv, Stored, Holding, Rotating,
     keyVars, sessionHistory, TokensOK, Shown, Home, SessionTypeOK,
     RefreshRequest
<1>5. OutOK'
  BY DEF UpdateDeviceLastSeen, SInv, OutOK, Busy, Holding, sessionHistory, Step
<1>6. AnswersOK'
  BY DEF UpdateDeviceLastSeen, SInv, AnswersOK, sessionHistory, Step
<1>7. CookieIsGood'
  BY DEF UpdateDeviceLastSeen, SInv, CookieIsGood, Rotating, sessionHistory,
     Step
<1> QED
  BY <1>2, <1>3, <1>4, <1>5, <1>6, <1>7 DEF SInv

LEMMA SetRefreshCookieKeeps ==
    ASSUME SInv, NEW q \in Requests, SetRefreshCookie(q) PROVE SInv'
<1>1. /\ req' \in [Requests -> RefreshRequest]
      /\ req'[q].at = "done"
      /\ \A p \in Requests : /\ req'[p].dev = req[p].dev
                             /\ req'[p].jti = req[p].jti
                             /\ p # q => req'[p].at = req[p].at
  BY RequestMoves DEF SInv, SetRefreshCookie
<1>2. SessionTypeOK'
  BY <1>1 DEF SetRefreshCookie, SInv, SessionTypeOK, Jtis, keyVars,
     sessionHistory
<1>3. TokensOK'
  <2>1. SessionTypeOK /\ TokensOK
    BY DEF SInv
  <2>2. ASSUME NEW j \in Jtis, NEW d \in Devices, Home(j, d) PROVE Home(j, d)'
    BY <2>1, <2>2 DEF SessionTypeOK, RefreshRequest, Home, Stored,
                      SetRefreshCookie, Step
  <2>3. ASSUME NEW j \in Jtis, NEW d \in Devices, Shown(j, d) PROVE Shown(j, d)'
    BY <2>1, <2>2, <2>3 DEF SessionTypeOK, RefreshRequest, Shown,
                      SetRefreshCookie, Step
  <2>4. Shown(q, req[q].dev)'
    <3>1. login[req[q].dev] = "in"
      BY <2>1 DEF TokensOK, Shown, SetRefreshCookie
    <3> QED
      BY <3>1, <1>1, JtisAssumption DEF Shown, Home, Stored, SetRefreshCookie
  <2>5. \A d \in Devices : (cookie[d] # NoJti => Shown(cookie[d], d))'
    BY <2>1, <2>3, <2>4, <1>1 DEF SessionTypeOK, TokensOK, SetRefreshCookie,
       Jtis
  <2> QED
    BY <2>1, <2>2, <2>3, <2>5, <1>1 DEF TokensOK, SetRefreshCookie,
       SessionTypeOK, RefreshRequest, keyVars, sessionHistory
<1>4. RemovalsOK'
  BY RemovalsStay DEF SetRefreshCookie, SInv, Stored, Holding, Rotating,
     keyVars, sessionHistory
<1>5. OutOK'
  BY DEF SetRefreshCookie, SInv, OutOK, Busy, Holding, keyVars,
     sessionHistory, Step
<1>6. AnswersOK'
  BY DEF SetRefreshCookie, SInv, AnswersOK, keyVars, sessionHistory, Step
<1>7. CookieIsGood'
  <2>1. /\ cookie \in [Devices -> Jtis \cup {NoJti}] /\ req[q].at = "answer"
        /\ cookie' = [cookie EXCEPT ![req[q].dev] = q]
        /\ UNCHANGED <<refresh, removed, broken>>
    BY DEF SetRefreshCookie, SInv, SessionTypeOK, keyVars, sessionHistory
  <2> SUFFICES ASSUME NEW d \in Devices
               PROVE  \/ cookie'[d] = NoJti \/ <<cookie'[d], d>> \in refresh
                      \/ removed[d] # "no" \/ d \in broken
                      \/ \E p \in Requests : /\ req'[p].dev = d /\ req'[p].jti = cookie'[d]
                                             /\ req'[p].at \in Rotating
    BY <2>1 DEF CookieIsGood
  <2>2. CASE d = req[q].dev
    BY <2>1, <2>2 DEF SInv, AnswersOK
  <2>3. CASE d # req[q].dev
    BY <2>1, <2>3, <1>1 DEF SInv, CookieIsGood
  <2> QED
    BY <2>2, <2>3
<1> QED
  BY <1>2, <1>3, <1>4, <1>5, <1>6, <1>7 DEF SInv

LEMMA RefreshFailsKeeps ==
    ASSUME SInv, NEW q \in Requests, RefreshFails(q) PROVE SInv'
<1>1. /\ req' \in [Requests -> RefreshRequest]
      /\ req'[q].at = "failed"
      /\ \A p \in Requests : /\ req'[p].dev = req[p].dev
                             /\ req'[p].jti = req[p].jti
                             /\ p # q => req'[p].at = req[p].at
  BY RequestMoves DEF SInv, RefreshFails
<1>2. SessionTypeOK'
  BY <1>1 DEF RefreshFails, SInv, SessionTypeOK, RefreshRequest, keyVars
<1>3. TokensOK'
  BY NoJtiAssumption, JtisAssumption, OwnerAssumption DEF RefreshFails, SInv,
     SessionTypeOK, RefreshRequest, RemovalRequest, TokensOK, RemovalsOK,
     OutOK, AnswersOK, CookieIsGood, Home, Shown, Stored, Busy, Jtis, Holding,
     Rotating, keyVars, sessionHistory, Step
<1>4. RemovalsOK'
  BY RemovalsStay DEF RefreshFails, SInv, Stored, Holding, Rotating, keyVars,
     sessionHistory
<1>5. OutOK'
  BY DEF RefreshFails, SInv, OutOK, Busy, Holding, keyVars, Step
<1>6. AnswersOK'
  BY NoJtiAssumption, JtisAssumption, OwnerAssumption DEF RefreshFails, SInv,
     SessionTypeOK, RefreshRequest, RemovalRequest, TokensOK, RemovalsOK,
     OutOK, AnswersOK, CookieIsGood, Home, Shown, Stored, Busy, Jtis, Holding,
     Rotating, keyVars, sessionHistory, Step
<1>7. CookieIsGood'
  BY NoJtiAssumption, JtisAssumption, OwnerAssumption DEF RefreshFails, SInv,
     SessionTypeOK, RefreshRequest, RemovalRequest, TokensOK, RemovalsOK,
     OutOK, AnswersOK, CookieIsGood, Home, Shown, Stored, Busy, Jtis, Holding,
     Rotating, keyVars, sessionHistory, Step
<1> QED
  BY <1>2, <1>3, <1>4, <1>5, <1>6, <1>7 DEF SInv

\* A removal that starts has found nothing yet.
LEMMA RemovalStarts ==
    ASSUME SInv, NEW k \in Removals, NEW job \in RemovalRequest,
           rm' = [rm EXCEPT ![k] = job],
           job.ready = {}, job.found = {},
           job.at \in {"blacklist", "members", "exec"} =>
             \A d \in job.todo : login[d] \notin {"no", "code"},
           UNCHANGED <<barred, login, keyVars, tokens, cookie, req,
                       sessionHistory>>
    PROVE  SInv'
<1>1. SessionTypeOK'
  BY DEF SInv, SessionTypeOK, keyVars, sessionHistory
<1>2. RemovalsOK'
  BY DEF SInv, SessionTypeOK, RemovalsOK, Home, keyVars, sessionHistory
<1>3. TokensOK' /\ AnswersOK'
  BY DEF SInv, TokensOK, AnswersOK, Home, Shown, keyVars, sessionHistory
<1>4. OutOK' /\ CookieIsGood'
  BY DEF SInv, OutOK, Busy, CookieIsGood, keyVars, sessionHistory
<1> QED
  BY <1>1, <1>2, <1>3, <1>4 DEF SInv

\* Nothing here depends on who is barred.
LEMMA BarringKeeps ==
    ASSUME SInv, barred' \subseteq People,
           UNCHANGED <<login, keyVars, tokens, cookie, req, rm, sessionHistory>>
    PROVE  SInv'
<1>1. SessionTypeOK' /\ RemovalsOK'
  BY DEF SInv, SessionTypeOK, RemovalsOK, Home, keyVars, sessionHistory
<1>2. TokensOK' /\ AnswersOK'
  BY DEF SInv, TokensOK, AnswersOK, Home, Shown, keyVars, sessionHistory
<1>3. OutOK' /\ CookieIsGood'
  BY DEF SInv, OutOK, Busy, CookieIsGood, keyVars, sessionHistory
<1> QED
  BY <1>1, <1>2, <1>3 DEF SInv

LEMMA SignOutKeeps ==
    ASSUME SInv, NEW k \in Removals, SignOut(k) PROVE SInv'
<1>1. PICK job \in RemovalRequest :
           /\ Todo(k, job)
           /\ job.ready = {} /\ job.found = {}
           /\ job.at \in {"blacklist", "members", "exec"} =>
                \A d \in job.todo : login[d] \notin {"no", "code"}
  <2>1. ASSUME NEW d \in Devices, login[d] = "in", NEW bl \in BOOLEAN,
               NEW at \in {"blacklist", "members"}
        PROVE  LET job == Removal(Owner[d], "one", at, {d}, bl)
               IN  /\ job \in RemovalRequest
                   /\ job.ready = {} /\ job.found = {}
                   /\ \A e \in job.todo : login[e] \notin {"no", "code"}
    BY <2>1, OwnerAssumption DEF Removal, RemovalRequest
  <2>2. CASE \E d \in Devices : login[d] = "in" /\ Logout(k, d)
    BY <2>1, <2>2 DEF Logout
  <2>3. CASE \E d \in Devices : \E bl \in BOOLEAN :
               login[d] = "in" /\ RevokeDevice(k, d, bl)
    BY <2>1, <2>3 DEF RevokeDevice
  <2>4. CASE \E u \in People : RemoveAllDevices(k, u)
    <3>1. PICK u \in People : RemoveAllDevices(k, u)
      BY <2>4
    <3> DEFINE job == Removal(u, "all", "list", {}, TRUE)
    <3>2. job \in RemovalRequest /\ job.ready = {} /\ job.found = {}
          /\ job.at = "list"
      BY DEF Removal, RemovalRequest
    <3> QED
      BY <3>1, <3>2 DEF RemoveAllDevices
  <2> QED
    BY <2>2, <2>3, <2>4 DEF SignOut
<1>2. rm' = [rm EXCEPT ![k] = job]
  BY <1>1 DEF Todo
<1>3. UNCHANGED <<barred, login, keyVars, tokens, cookie, req, sessionHistory>>
  BY DEF SignOut
<1> QED
  BY <1>1, <1>2, <1>3, RemovalStarts

LEMMA BlacklistDeviceKeeps ==
    ASSUME SInv, NEW k \in Removals, BlacklistDevice(k) PROVE SInv'
<1>1. SessionTypeOK'
  <2>1. rm' \in [Removals -> RemovalRequest] /\ rm[k].todo \subseteq Devices
    BY RemovalMoves DEF BlacklistDevice, SInv, SessionTypeOK, RemovalRequest
  <2> QED
    BY <2>1 DEF BlacklistDevice, Blacklist, SInv, SessionTypeOK, sessionHistory
<1>2. TokensOK'
  BY NoJtiAssumption, JtisAssumption, OwnerAssumption, RemovalMoves DEF
     BlacklistDevice, Blacklist, SInv, SessionTypeOK, RefreshRequest,
     RemovalRequest, TokensOK, RemovalsOK, OutOK, AnswersOK, CookieIsGood,
     Home, Shown, Stored, Busy, Jtis, Holding, Rotating, keyVars,
     sessionHistory
<1>3. RemovalsOK'
  BY NoJtiAssumption, JtisAssumption, OwnerAssumption, RemovalMoves DEF
     BlacklistDevice, Blacklist, SInv, SessionTypeOK, RefreshRequest,
     RemovalRequest, TokensOK, RemovalsOK, OutOK, AnswersOK, CookieIsGood,
     Home, Shown, Stored, Busy, Jtis, Holding, Rotating, keyVars,
     sessionHistory
<1>4. OutOK'
  BY NoJtiAssumption, JtisAssumption, OwnerAssumption, RemovalMoves DEF
     BlacklistDevice, Blacklist, SInv, SessionTypeOK, RefreshRequest,
     RemovalRequest, TokensOK, RemovalsOK, OutOK, AnswersOK, CookieIsGood,
     Home, Shown, Stored, Busy, Jtis, Holding, Rotating, keyVars,
     sessionHistory
<1>5. AnswersOK'
  BY NoJtiAssumption, JtisAssumption, OwnerAssumption, RemovalMoves DEF
     BlacklistDevice, Blacklist, SInv, SessionTypeOK, RefreshRequest,
     RemovalRequest, TokensOK, RemovalsOK, OutOK, AnswersOK, CookieIsGood,
     Home, Shown, Stored, Busy, Jtis, Holding, Rotating, keyVars,
     sessionHistory
<1>6. CookieIsGood'
  BY NoJtiAssumption, JtisAssumption, OwnerAssumption, RemovalMoves DEF
     BlacklistDevice, Blacklist, SInv, SessionTypeOK, RefreshRequest,
     RemovalRequest, TokensOK, RemovalsOK, OutOK, AnswersOK, CookieIsGood,
     Home, Shown, Stored, Busy, Jtis, Holding, Rotating, keyVars,
     sessionHistory
<1> QED
  BY <1>1, <1>2, <1>3, <1>4, <1>5, <1>6 DEF SInv

LEMMA ListDevicesKeeps ==
    ASSUME SInv, NEW k \in Removals, ListDevices(k) PROVE SInv'
<1>1. SessionTypeOK'
  <2> DEFINE todo == {d \in listed : Owner[d] = rm[k].who} \ rm[k].todo
             new == [rm[k] EXCEPT !.todo = todo,
                       !.at = IF todo = {} THEN "done" ELSE "members"]
  <2>1. rm' = [rm EXCEPT ![k] = new] /\ rm[k] \in RemovalRequest
    BY DEF ListDevices, SInv, SessionTypeOK
  <2>2. todo \subseteq Devices
    BY DEF SInv, SessionTypeOK
  <2>3. new \in RemovalRequest
    BY <2>1, <2>2 DEF RemovalRequest
  <2> HIDE DEF new
  <2>4. rm' \in [Removals -> RemovalRequest]
    BY <2>1, <2>3 DEF SInv, SessionTypeOK
  <2> QED
    BY <2>4 DEF ListDevices, SInv, SessionTypeOK, keyVars, sessionHistory
<1>2. TokensOK'
  BY NoJtiAssumption, JtisAssumption, OwnerAssumption DEF ListDevices, SInv,
     SessionTypeOK, RefreshRequest, RemovalRequest, TokensOK, RemovalsOK,
     OutOK, AnswersOK, CookieIsGood, Home, Shown, Stored, Busy, Jtis, Holding,
     Rotating, keyVars, sessionHistory
<1>3. RemovalsOK'
  BY NoJtiAssumption, JtisAssumption, OwnerAssumption DEF ListDevices, SInv,
     SessionTypeOK, RefreshRequest, RemovalRequest, TokensOK, RemovalsOK,
     OutOK, AnswersOK, CookieIsGood, Home, Shown, Stored, Busy, Jtis, Holding,
     Rotating, keyVars, sessionHistory
<1>4. OutOK'
  BY DEF ListDevices, SInv, OutOK, Busy, keyVars, sessionHistory
<1>5. AnswersOK'
  BY NoJtiAssumption, JtisAssumption, OwnerAssumption DEF ListDevices, SInv,
     SessionTypeOK, RefreshRequest, RemovalRequest, TokensOK, RemovalsOK,
     OutOK, AnswersOK, CookieIsGood, Home, Shown, Stored, Busy, Jtis, Holding,
     Rotating, keyVars, sessionHistory
<1>6. CookieIsGood'
  BY NoJtiAssumption, JtisAssumption, OwnerAssumption DEF ListDevices, SInv,
     SessionTypeOK, RefreshRequest, RemovalRequest, TokensOK, RemovalsOK,
     OutOK, AnswersOK, CookieIsGood, Home, Shown, Stored, Busy, Jtis, Holding,
     Rotating, keyVars, sessionHistory
<1> QED
  BY <1>1, <1>2, <1>3, <1>4, <1>5, <1>6 DEF SInv

LEMMA ListTokensKeeps ==
    ASSUME SInv, NEW k \in Removals, ListTokens(k) PROVE SInv'
<1>1. SessionTypeOK'
  <2>1. PICK d \in rm[k].todo :
          rm' = [rm EXCEPT ![k].todo = @ \ {d},
                           ![k].ready = @ \cup {d},
                           ![k].found = @ \cup (rtset[d] \X {d}),
                           ![k].at = IF rm[k].kind = "all" /\ rm[k].todo # {d}
                                     THEN "members" ELSE "exec"]
    BY DEF ListTokens
  <2> DEFINE new == [rm[k] EXCEPT !.todo = @ \ {d}, !.ready = @ \cup {d},
                       !.found = @ \cup (rtset[d] \X {d}),
                       !.at = IF rm[k].kind = "all" /\ rm[k].todo # {d}
                              THEN "members" ELSE "exec"]
  <2>2. rm[k] \in RemovalRequest /\ rm' = [rm EXCEPT ![k] = new]
    BY <2>1 DEF SInv, SessionTypeOK
  <2>3. d \in Devices /\ rtset[d] \subseteq Jtis
    BY <2>2 DEF RemovalRequest, SInv, SessionTypeOK
  <2>4. new \in RemovalRequest
    BY <2>2, <2>3 DEF RemovalRequest
  <2> HIDE DEF new
  <2> QED
    BY <2>2, <2>4 DEF ListTokens, SInv, SessionTypeOK, keyVars, sessionHistory
<1>2. TokensOK'
  BY NoJtiAssumption, JtisAssumption, OwnerAssumption DEF ListTokens, SInv,
     SessionTypeOK, RefreshRequest, RemovalRequest, TokensOK, RemovalsOK,
     OutOK, AnswersOK, CookieIsGood, Home, Shown, Stored, Busy, Jtis, Holding,
     Rotating, keyVars, sessionHistory
<1>3. RemovalsOK'
  BY NoJtiAssumption, JtisAssumption, OwnerAssumption DEF ListTokens, SInv,
     SessionTypeOK, RefreshRequest, RemovalRequest, TokensOK, RemovalsOK,
     OutOK, AnswersOK, CookieIsGood, Home, Shown, Stored, Busy, Jtis, Holding,
     Rotating, keyVars, sessionHistory
<1>4. OutOK'
  BY NoJtiAssumption, JtisAssumption, OwnerAssumption DEF ListTokens, SInv,
     SessionTypeOK, RefreshRequest, RemovalRequest, TokensOK, RemovalsOK,
     OutOK, AnswersOK, CookieIsGood, Home, Shown, Stored, Busy, Jtis, Holding,
     Rotating, keyVars, sessionHistory
<1>5. AnswersOK'
  BY NoJtiAssumption, JtisAssumption, OwnerAssumption DEF ListTokens, SInv,
     SessionTypeOK, RefreshRequest, RemovalRequest, TokensOK, RemovalsOK,
     OutOK, AnswersOK, CookieIsGood, Home, Shown, Stored, Busy, Jtis, Holding,
     Rotating, keyVars, sessionHistory
<1>6. CookieIsGood'
  BY NoJtiAssumption, JtisAssumption, OwnerAssumption DEF ListTokens, SInv,
     SessionTypeOK, RefreshRequest, RemovalRequest, TokensOK, RemovalsOK,
     OutOK, AnswersOK, CookieIsGood, Home, Shown, Stored, Busy, Jtis, Holding,
     Rotating, keyVars, sessionHistory
<1> QED
  BY <1>1, <1>2, <1>3, <1>4, <1>5, <1>6 DEF SInv

LEMMA ExecKeeps ==
    ASSUME SInv, NEW k \in Removals, Exec(k) PROVE SInv'
<1>1. SessionTypeOK'
  <2> DEFINE new == [rm[k] EXCEPT !.ready = {}, !.found = {},
                       !.at = IF rm[k].todo = {} THEN "done" ELSE "members"]
  <2>1. rm[k] \in RemovalRequest /\ rm' = [rm EXCEPT ![k] = new]
    BY DEF Exec, SInv, SessionTypeOK
  <2>2. new \in RemovalRequest
    BY <2>1 DEF RemovalRequest
  <2> HIDE DEF new
  <2>3. rm' \in [Removals -> RemovalRequest]
    BY <2>1, <2>2 DEF SInv, SessionTypeOK
  <2>4. /\ refresh' \subseteq Jtis \X Devices /\ listed' \subseteq Devices
        /\ rtset' \in [Devices -> SUBSET Jtis] /\ meta' \subseteq Devices
    BY DEF Exec, SInv, SessionTypeOK
  <2>5. /\ black' \subseteq Devices
        /\ tokens' \in [Devices -> SUBSET {"before", "after"}]
    BY <2>1 DEF Exec, Blacklist, SInv, SessionTypeOK, RemovalRequest
  <2>6. /\ removed' \in [Devices -> {"no", "out", "spared"}]
        /\ straddled' \subseteq Devices
    BY <2>1 DEF Exec, SInv, SessionTypeOK, RemovalRequest
  <2> QED
    BY <2>3, <2>4, <2>5, <2>6 DEF Exec, SInv, SessionTypeOK
<1>2. TokensOK'
  BY NoJtiAssumption, JtisAssumption, OwnerAssumption DEF Exec, Blacklist,
     SInv, SessionTypeOK, RefreshRequest, RemovalRequest, TokensOK,
     RemovalsOK, OutOK, AnswersOK, CookieIsGood, Home, Shown, Stored, Busy,
     Jtis, Holding, Rotating, keyVars, sessionHistory
<1>3. RemovalsOK'
  <2>1. /\ rm' = [rm EXCEPT ![k].ready = {}, ![k].found = {},
                            ![k].at = IF rm[k].todo = {} THEN "done" ELSE "members"]
        /\ rm[k].at = "exec" /\ UNCHANGED <<login, req>>
        /\ \A d \in Devices : /\ removed'[d] # "no" => removed[d] # "no" \/ d \in rm[k].ready
                              /\ d \in listed' => d \in listed
    BY DEF Exec, SInv, SessionTypeOK
  <2>2. /\ rm'[k].ready = {} /\ rm'[k].found = {} /\ rm'[k].todo = rm[k].todo
        /\ \A x \in Removals \ {k} : rm'[x] = rm[x]
    BY <2>1 DEF SInv, SessionTypeOK, RemovalRequest
  <2>3. \A j \in Jtis, d \in Devices : Home(j, d) <=> Home(j, d)'
    BY <2>1 DEF Home
  <2> QED
    BY <2>1, <2>2, <2>3 DEF SInv, RemovalsOK
<1>4. OutOK'
  <2> SUFFICES ASSUME NEW d \in Devices, removed'[d] # "no", d \notin straddled'
               PROVE  /\ ~Busy(d)' /\ rtset'[d] = {}
                      /\ \A r \in refresh' : r[2] # d
                      /\ removed'[d] = "out" =>
                           tokens'[d] = {} \/ (d \in black' /\ tokens'[d] = {"before"})
    BY DEF OutOK
  <2>1. d \notin straddled /\ (Busy(d) <=> Busy(d)') /\ rm[k] \in RemovalRequest
    BY DEF Exec, Busy, SInv, SessionTypeOK
  <2>2. CASE d \notin rm[k].ready
    <3>1. removed'[d] = removed[d] /\ tokens'[d] = tokens[d] /\ black \subseteq black'
      BY <2>1, <2>2 DEF Exec, Blacklist, SInv, SessionTypeOK
    <3>2. rtset'[d] \subseteq rtset[d] /\ refresh' \subseteq refresh
      BY DEF Exec, SInv, SessionTypeOK
    <3> QED
      BY <2>1, <3>1, <3>2 DEF SInv, OutOK
  <2>3. CASE d \in rm[k].ready
    <3>1. ~Busy(d) /\ \A j \in rtset[d] : <<j, d>> \in rm[k].found
      BY <2>1, <2>3 DEF Exec
    <3>2. rtset'[d] = {}
      <4>1. \A j \in rtset[d] : \E f \in rm[k].found : f[2] = d
        BY <3>1
      <4>2. rtset'[d] = IF \E f \in rm[k].found : f[2] = d THEN {} ELSE rtset[d]
        BY DEF Exec
      <4>3. CASE \E f \in rm[k].found : f[2] = d
        BY <4>2, <4>3
      <4>4. CASE ~\E f \in rm[k].found : f[2] = d
        <5>1. rtset'[d] = rtset[d]
          BY <4>2, <4>4
        <5>2. \A j \in rtset[d] : FALSE
          BY <4>1, <4>4
        <5> QED
          BY <5>1, <5>2
      <4> QED
        BY <4>3, <4>4
    <3>3. ASSUME NEW r \in refresh', r[2] = d PROVE FALSE
      <4>1. r \in refresh /\ r \notin rm[k].found /\ r \in Jtis \X Devices
        BY DEF Exec, SInv, SessionTypeOK
      <4>2. r = <<r[1], d>> /\ r[1] \in rtset[d]
        BY <2>1, <3>3, <4>1 DEF SInv, TokensOK
      <4> QED
        BY <3>1, <4>1, <4>2
    <3>4. removed'[d] = "out" =>
             tokens'[d] = {} \/ (d \in black' /\ tokens'[d] = {"before"})
      <4>1. CASE rm[k].bl
        BY <2>3, <4>1 DEF Exec, Blacklist
      <4>2. CASE ~rm[k].bl
        BY <2>1, <2>3, <4>2 DEF Exec, SInv, SessionTypeOK, OutOK
      <4> QED
        BY <4>1, <4>2
    <3> QED
      BY <2>1, <3>1, <3>2, <3>3, <3>4
  <2> QED
    BY <2>2, <2>3
<1>5. AnswersOK'
  BY DEF Exec, SInv, SessionTypeOK, RemovalRequest
<1>6. CookieIsGood'
  BY NoJtiAssumption, JtisAssumption, OwnerAssumption DEF Exec, Blacklist,
     SInv, SessionTypeOK, RefreshRequest, RemovalRequest, TokensOK,
     RemovalsOK, OutOK, AnswersOK, CookieIsGood, Home, Shown, Stored, Busy,
     Jtis, Holding, Rotating, keyVars, sessionHistory
<1> QED
  BY <1>1, <1>2, <1>3, <1>4, <1>5, <1>6 DEF SInv

LEMMA RemovalFailsKeeps ==
    ASSUME SInv, NEW k \in Removals, RemovalFails(k) PROVE SInv'
<1>1. SessionTypeOK'
  BY NoJtiAssumption, JtisAssumption, OwnerAssumption, RemovalMoves DEF
     RemovalFails, SInv, SessionTypeOK, RefreshRequest, RemovalRequest,
     TokensOK, RemovalsOK, OutOK, AnswersOK, CookieIsGood, Home, Shown,
     Stored, Busy, Jtis, Holding, Rotating, keyVars, sessionHistory
<1>2. TokensOK'
  BY DEF RemovalFails, SInv, TokensOK, Home, Shown, keyVars, sessionHistory
<1>3. RemovalsOK'
  BY DEF RemovalFails, SInv, RemovalsOK, Home, keyVars, sessionHistory
<1>4. OutOK'
  BY DEF RemovalFails, SInv, OutOK, Busy, keyVars, sessionHistory
<1>5. AnswersOK'
  BY DEF RemovalFails, SInv, AnswersOK, keyVars, sessionHistory
<1>6. CookieIsGood'
  BY DEF RemovalFails, SInv, CookieIsGood, keyVars, sessionHistory
<1> QED
  BY <1>1, <1>2, <1>3, <1>4, <1>5, <1>6 DEF SInv

LEMMA BlacklistExpiresKeeps ==
    ASSUME SInv, NEW d \in Devices, BlacklistExpires(d) PROVE SInv'
<1>1. SessionTypeOK'
  BY DEF BlacklistExpires, SInv, SessionTypeOK, sessionHistory
<1>2. TokensOK'
  BY DEF BlacklistExpires, SInv, TokensOK, Home, Shown, sessionHistory
<1>3. RemovalsOK'
  BY DEF BlacklistExpires, SInv, RemovalsOK, Home, sessionHistory
<1>4. OutOK'
  BY DEF BlacklistExpires, SInv, OutOK, Busy, sessionHistory
<1>5. AnswersOK'
  BY DEF BlacklistExpires, SInv, AnswersOK, sessionHistory
<1>6. CookieIsGood'
  BY DEF BlacklistExpires, SInv, CookieIsGood, sessionHistory
<1> QED
  BY <1>1, <1>2, <1>3, <1>4, <1>5, <1>6 DEF SInv

LEMMA AccessExpiresKeeps ==
    ASSUME SInv, NEW d \in Devices, NEW t \in {"before", "after"}, AccessExpires(d, t) PROVE SInv'
<1>1. SessionTypeOK'
  BY DEF AccessExpires, SInv, SessionTypeOK, keyVars, sessionHistory
<1>2. TokensOK'
  BY OwnerAssumption DEF AccessExpires, SInv, SessionTypeOK, TokensOK, Home,
     Shown, keyVars, sessionHistory
<1>3. RemovalsOK'
  BY DEF AccessExpires, SInv, RemovalsOK, Home, keyVars, sessionHistory
<1>4. OutOK'
  BY DEF AccessExpires, SInv, OutOK, Busy, keyVars, sessionHistory
<1>5. AnswersOK'
  BY DEF AccessExpires, SInv, AnswersOK, keyVars, sessionHistory
<1>6. CookieIsGood'
  BY DEF AccessExpires, SInv, CookieIsGood, keyVars, sessionHistory
<1> QED
  BY <1>1, <1>2, <1>3, <1>4, <1>5, <1>6 DEF SInv

LEMMA RefreshExpiresKeeps ==
    ASSUME SInv, NEW r \in refresh, RefreshExpires(r) PROVE SInv'
<1>1. SessionTypeOK'
  BY DEF RefreshExpires, SInv, SessionTypeOK, sessionHistory
<1>2. TokensOK'
  BY NoJtiAssumption, JtisAssumption, OwnerAssumption DEF RefreshExpires,
     SInv, SessionTypeOK, RefreshRequest, RemovalRequest, TokensOK,
     RemovalsOK, OutOK, AnswersOK, CookieIsGood, Home, Shown, Stored, Busy,
     Jtis, Holding, Rotating, keyVars, sessionHistory
<1>3. RemovalsOK'
  BY DEF RefreshExpires, SInv, RemovalsOK, Home, sessionHistory
<1>4. OutOK'
  BY DEF RefreshExpires, SInv, OutOK, Busy, sessionHistory
<1>5. AnswersOK'
  BY DEF RefreshExpires, SInv, AnswersOK, sessionHistory
<1>6. CookieIsGood'
  BY DEF RefreshExpires, SInv, SessionTypeOK, CookieIsGood, sessionHistory
<1> QED
  BY <1>1, <1>2, <1>3, <1>4, <1>5, <1>6 DEF SInv

LEMMA MetaExpiresKeeps ==
    ASSUME SInv, NEW d \in Devices, MetaExpires(d) PROVE SInv'
<1>1. SessionTypeOK'
  BY DEF MetaExpires, SInv, SessionTypeOK, sessionHistory
<1>2. TokensOK'
  BY DEF MetaExpires, SInv, TokensOK, Home, Shown, sessionHistory
<1>3. RemovalsOK'
  BY DEF MetaExpires, SInv, RemovalsOK, Home, sessionHistory
<1>4. OutOK'
  BY DEF MetaExpires, SInv, OutOK, Busy, sessionHistory
<1>5. AnswersOK'
  BY DEF MetaExpires, SInv, AnswersOK, sessionHistory
<1>6. CookieIsGood'
  BY DEF MetaExpires, SInv, CookieIsGood, sessionHistory
<1> QED
  BY <1>1, <1>2, <1>3, <1>4, <1>5, <1>6 DEF SInv

LEMMA IndexExpiresKeeps ==
    ASSUME SInv, NEW u \in People, IndexExpires(u) PROVE SInv'
<1>1. SessionTypeOK'
  BY DEF IndexExpires, SInv, SessionTypeOK, sessionHistory
<1>2. TokensOK'
  BY DEF IndexExpires, SInv, TokensOK, Home, Shown, sessionHistory
<1>3. RemovalsOK'
  BY DEF IndexExpires, SInv, RemovalsOK, Home, sessionHistory
<1>4. OutOK'
  BY DEF IndexExpires, SInv, OutOK, Busy, sessionHistory
<1>5. AnswersOK'
  BY DEF IndexExpires, SInv, AnswersOK, sessionHistory
<1>6. CookieIsGood'
  BY DEF IndexExpires, SInv, CookieIsGood, sessionHistory
<1> QED
  BY <1>1, <1>2, <1>3, <1>4, <1>5, <1>6 DEF SInv

--------------------------------------------------------------------------

LEMMA SessionOutsideKeeps ==
    ASSUME SInv, SessionOutside PROVE SInv'
<1>1. CASE \E d \in Devices : AskForCode(d) \/ SignIn(d) \/ SignInFails(d)
                              \/ MetaExpires(d)
  BY <1>1, AskForCodeKeeps, SignInKeeps, SignInFailsKeeps, MetaExpiresKeeps
<1>2. CASE \E q \in Requests : RefreshFails(q) \/ \E d \in Devices : Refresh(q, d)
  BY <1>2, RefreshFailsKeeps, RefreshKeeps
<1>3. CASE \E k \in Removals : SignOut(k) \/ RemovalFails(k)
  BY <1>3, SignOutKeeps, RemovalFailsKeeps
<1>4. CASE \E u \in People : IndexExpires(u)
  BY <1>4, IndexExpiresKeeps
<1>5. CASE \E r \in refresh : RefreshExpires(r)
  BY <1>5, RefreshExpiresKeeps
<1> QED
  BY <1>1, <1>2, <1>3, <1>4, <1>5 DEF SessionOutside

LEMMA SessionInsideKeeps ==
    ASSUME SInv, SessionInside PROVE SInv'
<1>1. ASSUME NEW d \in Devices,
             \/ StoreDeviceMeta(d) \/ IndexDevice(d) \/ SignedIn(d)
             \/ BlacklistExpires(d)
             \/ \E t \in {"before", "after"} : AccessExpires(d, t)
      PROVE  SInv'
  BY <1>1, StoreDeviceMetaKeeps, IndexDeviceKeeps, SignedInKeeps,
     BlacklistExpiresKeeps, AccessExpiresKeeps
<1>2. ASSUME NEW q \in Requests,
             \/ GetRefreshRecord(q) \/ CheckUser(q) \/ DeleteRefreshRecord(q)
             \/ SignTokens(q) \/ StoreNext(q) \/ GetDeviceMeta(q)
             \/ UpdateDeviceLastSeen(q) \/ SetRefreshCookie(q)
      PROVE  SInv'
  BY <1>2, GetRefreshRecordKeeps, CheckUserKeeps, DeleteRefreshRecordKeeps,
     SignTokensKeeps, StoreNextKeeps, GetDeviceMetaKeeps,
     UpdateDeviceLastSeenKeeps, SetRefreshCookieKeeps
<1>3. ASSUME NEW k \in Removals,
             BlacklistDevice(k) \/ ListDevices(k) \/ ListTokens(k) \/ Exec(k)
      PROVE  SInv'
  BY <1>3, BlacklistDeviceKeeps, ListDevicesKeeps, ListTokensKeeps, ExecKeeps
<1> QED
  BY <1>1, <1>2, <1>3 DEF SessionInside

\* No later removal finds an out device busy, or with tokens left to list.
LEMMA ExecLeavesOut ==
    ASSUME SInv, NEW k \in Removals, Exec(k), NEW d \in Devices, IsOut(d)
    PROVE  IsOut(d)' /\ removed'[d] \in {removed[d], "out"}
<1>1. ~Busy(d) /\ rtset[d] = {}
  BY DEF SInv, OutOK, IsOut
<1>2. d \notin straddled'
  BY <1>1 DEF Exec, IsOut
<1>3. removed'[d] \in {removed[d], "out"} /\ removed'[d] # "no"
  BY DEF Exec, IsOut, SInv, SessionTypeOK
<1> QED
  BY <1>2, <1>3 DEF IsOut

\* Only the MULTI of a removal writes who is out.
LEMMA OthersLeaveOut ==
    ASSUME SessionOutside \/ SessionInside \/ UNCHANGED svars
    PROVE  (\E k \in Removals : Exec(k)) \/ UNCHANGED <<removed, straddled>>
<1>1. SessionOutside => UNCHANGED <<removed, straddled>>
  BY DEF SessionOutside, AskForCode, SignIn, SignInFails, MetaExpires, RefreshFails, Refresh,
         SignOut, RemovalFails, IndexExpires, RefreshExpires, sessionHistory
<1>2. SessionInside => (\E k \in Removals : Exec(k)) \/ UNCHANGED <<removed, straddled>>
  BY DEF SessionInside, StoreDeviceMeta, IndexDevice, SignedIn, BlacklistExpires,
         AccessExpires, GetRefreshRecord, CheckUser, DeleteRefreshRecord, SignTokens,
         StoreNext, GetDeviceMeta, UpdateDeviceLastSeen, SetRefreshCookie,
         BlacklistDevice, ListDevices, ListTokens, sessionHistory
<1>3. UNCHANGED svars => UNCHANGED <<removed, straddled>>
  BY DEF svars, sessionHistory
<1> QED
  BY <1>1, <1>2, <1>3

-----------------------------------------------------------------------------
(* Accounts *)

\* Which operation a request at an await belongs to.
Served(w) ==
    /\ work[w].at \in {"consume", "find", "set"} => work[w].op \in {"verify", "google"}
    /\ work[w].at \in {"token", "clear", "notice"} => work[w].op = "confirm"
    /\ work[w].at = "apply" => work[w].op \in {"confirm", "revert"}
    /\ work[w].op = "request" \/ work[w].at \in {"finger", "mail"}
       => work[w].row.new # NoEmail
    /\ work[w].op = "confirm" => work[w].at \in {"apply", "token", "clear",
                                       "notice", "signout", "done", "failed"}

\* The way back of a change and the notice of it belong to the confirmation
\* that stored and mailed them; who takes it has the change before him that was
\* confirmed.
Over == {"signout", "done", "failed"}
WaysBack ==
    /\ \A v \in reverts : /\ work[v].op = "confirm"
                          /\ work[v].at \in {"clear", "notice"} \cup Over
    /\ \A w \in Works :
         /\ work[w].at = "clear" => w \in reverts
         /\ notice[w] # "none" => work[w].op = "confirm" /\ work[w].at \in Over
         /\ work[w].op = "revert" =>
              LET v == work[w].by
              IN  /\ work[v].op = "confirm" /\ work[v].row = work[w].row
                  /\ work[v].at \in Over
    /\ \A u \in People : \A row \in changed[u] \cup pending[u] :
         row.who = u /\ row.new # NoEmail

\* Whoever is about to mark an address verified has had it shown to read.
Shows(w) ==
    /\ work[w].at \in {"consume", "find", "set"} => work[w].row.new \in proven
    /\ work[w].at = "apply" /\ work[w].op = "confirm" => work[w].row.new \in proven
    /\ work[w].at = "apply" /\ work[w].op = "revert" => work[w].row.old \in proven
    /\ work[w].at = "save" /\ work[w].seen => work[w].row.old \in proven \cup {NoEmail}

\* An account that is not verified has the address it had when any request
\* still under way found it so, or none.
Agree(a, b) == a = b \/ a = NoEmail \/ b = NoEmail

Unseen(w, u) == work[w].at = "save" /\ ~work[w].seen /\ work[w].row.who = u
Setting(w, u) == work[w].at = "set" /\ work[w].row.who = u

Agreed ==
    \A u \in People :
        /\ account[u].verified => account[u].email \in proven \cup {NoEmail}
        /\ \A w \in Works : work[w].at \in {"save", "set"} /\ work[w].row.who = u
                            => account[u].row # "none"
        /\ \A v, w \in Works : Unseen(v, u) =>
             /\ ~account[u].verified => Agree(account[u].email, work[v].row.old)
             /\ Unseen(w, u) => Agree(work[v].row.old, work[w].row.old)
             /\ Setting(w, u) => Agree(work[v].row.old, work[w].row.new)
        /\ \A w \in Works : Setting(w, u) /\ ~account[u].verified
                            => Agree(account[u].email, work[w].row.new)

IInv == /\ SInv /\ TypeOK
        /\ \A w \in Works : Served(w)
        /\ WaysBack /\ ChangeCanBeReverted
        /\ \A w \in Works : Shows(w)
        /\ Agreed

--------------------------------------------------------------------------

LEMMA InitIInv == Init => IInv
<1> SUFFICES ASSUME Init PROVE IInv
  OBVIOUS
<1>1. SInv
  BY SessionInitSInv, EmailsAssumption DEF Init
<1>2. TypeOK
  BY <1>1, RegisteredAssumption, EmailsAssumption, OutsideAssumption
     DEF SInv, Init, TypeOK, AccountRow, Work, Places, Change, NoChange, Address
<1> QED
  BY <1>1, <1>2, EmailsAssumption
     DEF Init, IInv, Served, WaysBack, ChangeCanBeReverted, Shows, Agreed,
         Unseen, Setting, NoChange

LEMMA SessionsSame == ASSUME SInv, UNCHANGED svars PROVE SInv'
<1>1. barred' \subseteq People
  BY DEF SInv, SessionTypeOK, svars
<1> QED
  BY <1>1, BarringKeeps DEF svars

--------------------------------------------------------------------------
(* What a step may do to the requests and the invariant stays *)

\* The request w moves on to another await.
Moves(w, at) ==
    /\ work' \in [Works -> Work]
    /\ work'[w].at = at
    /\ work'[w].op = work[w].op /\ work'[w].row = work[w].row
    /\ work'[w].seen = work[w].seen /\ work'[w].by = work[w].by
    /\ \A x \in Works \ {w} : work'[x] = work[x]

LEMMA GoMoves ==
    ASSUME TypeOK, NEW w \in Works, NEW at \in Places, Go(w, at)
    PROVE  Moves(w, at)
<1>0. work \in [Works -> Work] /\ work' = [work EXCEPT ![w].at = at]
  BY DEF TypeOK, Go
<1>1. [work[w] EXCEPT !.at = at] \in Work
  BY <1>0 DEF Work
<1>2. work' \in [Works -> Work]
  BY <1>0, <1>1
<1>3. /\ work'[w].at = at
      /\ work'[w].op = work[w].op /\ work'[w].row = work[w].row
      /\ work'[w].seen = work[w].seen /\ work'[w].by = work[w].by
  BY <1>0 DEF Work
<1>4. \A x \in Works \ {w} : work'[x] = work[x]
  BY <1>0
<1> QED
  BY <1>2, <1>3, <1>4 DEF Moves

\* The request w begins.
Begins(w) ==
    /\ work' \in [Works -> Work]
    /\ work[w].at = "idle"
    /\ \A x \in Works \ {w} : work'[x] = work[x]

\* Places a request may move to whatever else the step does to it.
Allowed(w, at) ==
    /\ at \notin {"set", "save", "apply", "finger"}
    /\ at = "mail" => work[w].at = "finger"
    /\ at \in {"consume", "find"} => work[w].at = "consume"
    /\ at = "token" => work[w].op = "confirm"
    /\ work[w].op = "confirm" => \/ at \in Over
                                 \/ at = "notice" /\ work[w].at = "clear"
                                 \/ at = "clear" /\ work[w].at = "token"
                                 \/ at = "token" /\ work[w].at = "apply"
    /\ at \in {"clear", "notice"} => work[w].op = "confirm"

\* What came of the notice of a confirmation is known once it was tried, and
\* not forgotten.
Told(w, at) ==
    /\ notice' \in [Works -> {"none", "there", "lost"}]
    /\ \A x \in Works \ {w} : notice'[x] = notice[x]
    /\ notice'[w] # "none" => Tried(w) /\ at \in Over
    /\ Tried(w) => notice'[w] # "none"

\* Nothing happens to it where it is not its turn.
LEMMA Untold ==
    ASSUME IInv, NEW w \in Works, NEW at, UNCHANGED notice, Allowed(w, at),
           work[w].at # "notice"
    PROVE  Told(w, at)
<1>1. notice[w] # "none" => at \in Over
  BY DEF IInv, WaysBack, Allowed, Over
<1> QED
  BY <1>1 DEF IInv, TypeOK, Told, Tried

\* Served and Shows: what w itself needs.
LEMMA ServedStays ==
    ASSUME IInv, NEW w \in Works, NEW at, Moves(w, at), Allowed(w, at),
           proven \subseteq proven'
    PROVE  \A x \in Works : Served(x)' /\ Shows(x)'
<1>1. ASSUME NEW x \in Works, x # w PROVE Served(x)' /\ Shows(x)'
  BY <1>1 DEF IInv, Moves, Served, Shows
<1>2. Served(w)' /\ Shows(w)'
  BY DEF IInv, Moves, Allowed, Over, Served, Shows
<1> QED
  BY <1>1, <1>2

LEMMA AgreedStays ==
    ASSUME Agreed, account' = account, proven \subseteq proven',
           \A x \in Works : work'[x].at \in {"save", "set"} => work'[x] = work[x]
    PROVE  Agreed'
  BY DEF Agreed, Unseen, Setting

\* The ways back, where they and the changes stay what they are.
LEMMA WaysStay ==
    ASSUME IInv, NEW w \in Works, NEW at, Moves(w, at),
           work[w].op = "confirm" => at \in Over,
           at # "clear", Told(w, at),
           UNCHANGED <<reverts, pending, changed>>
    PROVE  WaysBack' /\ ChangeCanBeReverted'
<1>1. \A x \in Works : /\ work'[x].op = work[x].op /\ work'[x].row = work[x].row
                       /\ work'[x].by = work[x].by
  BY DEF Moves
<1>2. \A x \in Works : /\ work[x].op = "confirm"
                            => work'[x].at \in {work[x].at} \cup Over
                       /\ work'[x].at = "clear" => work[x].at = "clear"
  BY DEF Moves, Over
<1>3. \A x \in Works : work[x].by \in Works
  BY DEF IInv, TypeOK, Work
<1>4. reverts \subseteq Works
  BY DEF IInv, TypeOK
<1>5. \A x \in Works : /\ Tried(x) => Tried(x)'
                       /\ notice'[x] # "none" => /\ work'[x].op = "confirm"
                                                 /\ work'[x].at \in Over
  BY <1>1 DEF Told, Tried, Moves, Over, IInv, WaysBack, Served
<1>6. WaysBack'
  BY <1>1, <1>2, <1>3, <1>4, <1>5 DEF IInv, WaysBack, Over
<1>7. ChangeCanBeReverted'
  BY <1>1, <1>4, <1>5 DEF IInv, ChangeCanBeReverted, Tried
<1> QED
  BY <1>6, <1>7

\* Steps that only move a request.
LEMMA MoveKeeps ==
    ASSUME IInv, SInv', NEW w \in Works, NEW at \in Places, Go(w, at),
           Allowed(w, at), at \notin {"token", "clear", "notice"},
           (UNCHANGED notice /\ work[w].at # "notice") \/ Told(w, at),
           UNCHANGED <<account, pending, reverts, proven, changed>>,
           finger' \subseteq Emails, mailed' \subseteq Emails,
           outside' \in 0..MaxOutside
    PROVE  IInv'
<1>0. Told(w, at)
  BY Untold
<1>1. Moves(w, at)
  BY GoMoves DEF IInv
<1>2. TypeOK'
  BY <1>0, <1>1 DEF IInv, SInv, TypeOK, Moves, Told
<1>3. \A x \in Works : Served(x)' /\ Shows(x)'
  BY <1>1, ServedStays
<1>4. WaysBack' /\ ChangeCanBeReverted'
  BY <1>0, <1>1, WaysStay DEF Allowed, Over
<1>5. Agreed'
  BY <1>1, AgreedStays DEF IInv, Moves, Allowed, Over
<1> QED
  BY <1>2, <1>3, <1>4, <1>5 DEF IInv

\* A request that is no confirmation becomes another.
LEMMA BeginStays ==
    ASSUME IInv, NEW w \in Works, work[w].op # "confirm",
           \A x \in Works \ {w} : work'[x] = work[x],
           Served(w)', Shows(w)',
           work'[w].op # "confirm" \/ work'[w].at = "apply",
           work'[w].op = "revert" =>
             /\ work'[w].by \in reverts /\ notice[work'[w].by] # "none"
             /\ work'[w].row = work[work'[w].by].row,
           UNCHANGED <<pending, reverts, notice, changed>>, proven \subseteq proven'
    PROVE  /\ \A x \in Works : Served(x)' /\ Shows(x)'
           /\ WaysBack' /\ ChangeCanBeReverted'
<1>1. ASSUME NEW x \in Works, x # w PROVE Served(x)' /\ Shows(x)'
  BY <1>1 DEF IInv, Served, Shows
<1>2. \A v \in reverts : work'[v] = work[v] /\ v \in Works
  BY DEF IInv, WaysBack, TypeOK
<1>3. \A x \in Works \ {w} :
        work[x].op = "revert" => work'[work[x].by] = work[work[x].by]
  BY DEF IInv, WaysBack, TypeOK, Work
<1>4. work'[w].at # "clear"
  BY DEF Served
<1>5. work'[w].op = "revert" =>
        /\ work'[work'[w].by].op = "confirm"
        /\ work'[work'[w].by].row = work'[w].row
        /\ work'[work'[w].by].at \in Over
  BY <1>2 DEF IInv, WaysBack
<1>6. ASSUME NEW x \in Works, x # w
      PROVE  /\ work'[x].at = "clear" => x \in reverts'
             /\ work'[x].op = "revert" =>
                  LET v == work'[x].by
                  IN  /\ work'[v].op = "confirm" /\ work'[v].row = work'[x].row
                      /\ work'[v].at \in Over
  BY <1>3, <1>6 DEF IInv, WaysBack
<1>7. \A x \in Works : notice[x] # "none" => work'[x] = work[x]
  BY DEF IInv, WaysBack
<1>8. WaysBack'
  BY <1>2, <1>4, <1>5, <1>6, <1>7 DEF IInv, WaysBack
<1>9. ChangeCanBeReverted'
  BY <1>2 DEF IInv, ChangeCanBeReverted, Tried
<1> QED
  BY <1>1, <1>8, <1>9

\* Steps that only begin a request.
LEMMA BeginKeeps ==
    ASSUME IInv, NEW w \in Works, Begins(w), Served(w)', Shows(w)',
           work'[w].op # "confirm" \/ work'[w].at = "apply",
           work'[w].op = "revert" =>
             /\ work'[w].by \in reverts /\ notice[work'[w].by] # "none"
             /\ work'[w].row = work[work'[w].by].row,
           work'[w].at # "set",
           work'[w].at = "save" =>
             LET u == work'[w].row.who
             IN  /\ account[u].row # "none"
                 /\ work'[w].seen = account[u].verified
                 /\ work'[w].row.old = account[u].email,
           UNCHANGED <<svars, account, pending, reverts, notice, changed, finger,
                       mailed>>,
           proven \subseteq proven', proven' \subseteq Emails,
           outside' \in 0..MaxOutside
    PROVE  IInv'
<1>1. SInv'
  BY SessionsSame DEF IInv
<1>2. TypeOK'
  BY <1>1 DEF IInv, SInv, TypeOK, Begins
<1>3. /\ \A x \in Works : Served(x)' /\ Shows(x)'
      /\ WaysBack' /\ ChangeCanBeReverted'
  BY BeginStays DEF Begins, IInv, Served
<1>4. Agreed'
  <2>1. CASE work'[w].at # "save"
    BY <2>1, AgreedStays DEF IInv, Begins
  <2>2. CASE work'[w].at = "save"
    BY <2>2 DEF IInv, Begins, Agreed, Unseen, Setting, Agree
  <2> QED
    BY <2>1, <2>2
<1> QED
  BY <1>1, <1>2, <1>3, <1>4 DEF IInv

--------------------------------------------------------------------------
(* Requests that begin *)

LEMMA BeginBegins ==
    ASSUME TypeOK, NEW w \in Works, NEW row \in Change, NEW at \in Places,
           NEW op \in {"register", "resend", "verify", "google", "request",
                       "confirm", "password", "close"},
           Begin(w, op, at, row)
    PROVE  /\ Begins(w) /\ work'[w].op = op /\ work'[w].at = at
           /\ work'[w].row = row
           /\ work'[w].seen = (There(row.who) /\ account[row.who].verified)
<1> DEFINE job == [op |-> op, at |-> at, row |-> row,
                   seen |-> There(row.who) /\ account[row.who].verified, by |-> w]
<1>1. (There(row.who) /\ account[row.who].verified) \in BOOLEAN
  BY DEF TypeOK, There, Change
<1>2. job \in Work
  BY <1>1 DEF Work
<1>3. /\ job.op = op /\ job.at = at /\ job.row = row
      /\ job.seen = (There(row.who) /\ account[row.who].verified)
  OBVIOUS
<1>4. work' = [work EXCEPT ![w] = job] /\ work[w].at = "idle"
  BY DEF Begin
<1> HIDE DEF job
<1> QED
  BY <1>2, <1>3, <1>4 DEF Begins, TypeOK

LEMMA ResendKeeps ==
    ASSUME IInv, NEW w \in Works, NEW u \in People, Resend(w, u),
           UNCHANGED svars, outside' \in 0..MaxOutside
    PROVE  IInv'
<1> DEFINE row == [who |-> u, old |-> account[u].email, new |-> account[u].email]
<1>1. row \in Change /\ row.new # NoEmail
  BY DEF IInv, TypeOK, AccountRow, Change, Resend
<1>2. Begin(w, "resend", "finger", row)
  BY DEF Resend
<1> HIDE DEF row
<1>3. /\ Begins(w) /\ work'[w].op = "resend" /\ work'[w].at = "finger"
      /\ work'[w].row = row
  BY <1>1, <1>2, BeginBegins DEF IInv, Places
<1>4. Served(w)' /\ Shows(w)'
  BY <1>1, <1>3 DEF Served, Shows
<1> QED
  BY <1>3, <1>4, BeginKeeps DEF Resend, IInv, TypeOK

LEMMA OpenLinkKeeps ==
    ASSUME IInv, NEW w \in Works, NEW e \in Emails, OpenLink(w, e),
           UNCHANGED svars, outside' \in 0..MaxOutside
    PROVE  IInv'
<1> DEFINE row == [NoChange EXCEPT !.new = e]
<1>1. row \in Change /\ row.new = e
  BY EmailsAssumption DEF Change, NoChange, Address
<1>2. PICK at \in {"consume", "refused"} : Begin(w, "verify", at, row)
  BY DEF OpenLink
<1> HIDE DEF row
<1>3. Begins(w) /\ work'[w].op = "verify" /\ work'[w].at = at /\ work'[w].row = row
  <2>1. at \in Places
    BY DEF Places
  <2> QED
    BY <1>1, <1>2, <2>1, BeginBegins DEF IInv
<1>4. Served(w)' /\ Shows(w)'
  BY <1>1, <1>3 DEF OpenLink, Served, Shows
<1> QED
  BY <1>3, <1>4, BeginKeeps DEF OpenLink, IInv, TypeOK

LEMMA AuthenticateWithGoogleKeeps ==
    ASSUME IInv, NEW w \in Works, NEW e \in Emails, AuthenticateWithGoogle(w, e),
           UNCHANGED svars, outside' \in 0..MaxOutside
    PROVE  IInv'
<1> DEFINE row == [NoChange EXCEPT !.new = e]
<1>1. row \in Change /\ row.new = e
  BY EmailsAssumption DEF Change, NoChange, Address
<1>2. Begin(w, "google", "find", row)
  BY DEF AuthenticateWithGoogle
<1> HIDE DEF row
<1>3. Begins(w) /\ work'[w].op = "google" /\ work'[w].at = "find" /\ work'[w].row = row
  BY <1>1, <1>2, BeginBegins DEF IInv, Places
<1>4. Served(w)' /\ Shows(w)'
  BY <1>1, <1>3 DEF AuthenticateWithGoogle, Served, Shows
<1> QED
  BY <1>3, <1>4, BeginKeeps DEF AuthenticateWithGoogle, IInv, TypeOK

LEMMA RequestChangeKeeps ==
    ASSUME IInv, NEW w \in Works, NEW u \in People, NEW e \in Emails,
           RequestChange(w, u, e), UNCHANGED svars, outside' \in 0..MaxOutside
    PROVE  IInv'
<1> DEFINE row == [who |-> u, old |-> account[u].email, new |-> e]
<1>1. row \in Change /\ row.new = e /\ e # NoEmail
  BY EmailsAssumption DEF IInv, TypeOK, AccountRow, Change, Address
<1>2. PICK at \in {"cancel", "refused"} : Begin(w, "request", at, row)
  BY DEF RequestChange
<1> HIDE DEF row
<1>3. /\ Begins(w) /\ work'[w].op = "request" /\ work'[w].at = at
      /\ work'[w].row = row
  <2>1. at \in Places
    BY DEF Places
  <2> QED
    BY <1>1, <1>2, <2>1, BeginBegins DEF IInv
<1>4. Served(w)' /\ Shows(w)'
  BY <1>1, <1>3 DEF Served, Shows
<1> QED
  BY <1>3, <1>4, BeginKeeps DEF RequestChange, IInv, TypeOK

LEMMA ConfirmKeeps ==
    ASSUME IInv, NEW w \in Works, NEW u \in People, Confirm(w, u),
           UNCHANGED svars, outside' \in 0..MaxOutside
    PROVE  IInv'
<1>1. PICK row \in pending[u] :
           /\ Begin(w, "confirm", "apply", row)
           /\ proven' = proven \cup {CodeGoesTo(row)}
  BY DEF Confirm
<1>2. row \in Change
  BY DEF IInv, TypeOK
<1>3. /\ Begins(w) /\ work'[w].op = "confirm" /\ work'[w].at = "apply"
      /\ work'[w].row = row
  BY <1>1, <1>2, BeginBegins DEF IInv, Places
<1>4. row.new \in Emails
  BY <1>2 DEF IInv, WaysBack, Change, Address
<1>5. Served(w)' /\ Shows(w)'
  BY <1>1, <1>3 DEF Served, Shows, CodeGoesTo
<1> QED
  BY <1>1, <1>3, <1>4, <1>5, BeginKeeps DEF Confirm, IInv, TypeOK, CodeGoesTo

LEMMA RevertKeeps ==
    ASSUME IInv, NEW w \in Works, NEW v \in reverts, Revert(w, v),
           UNCHANGED svars, outside' \in 0..MaxOutside
    PROVE  IInv'
<1>1. /\ v \in Works /\ work[v] \in Work /\ work[v].row \in Change
      /\ work[v].row.old \in Emails
  BY DEF IInv, TypeOK, Revert, Work, Change, Address
<1>2. PICK at \in {"refused", "apply"} :
        work' = [work EXCEPT ![w] = [op |-> "revert", row |-> work[v].row,
                                     seen |-> FALSE, by |-> v, at |-> at]]
  BY DEF Revert
<1> DEFINE job == [op |-> "revert", row |-> work[v].row, seen |-> FALSE,
                   by |-> v, at |-> at]
<1>3. at \in Places
  BY DEF Places
<1>4. job \in Work
  BY <1>1, <1>3 DEF Work
<1>5. /\ job.op = "revert" /\ job.row = work[v].row /\ job.at = at
      /\ job.by = v
  OBVIOUS
<1>6. work' = [work EXCEPT ![w] = job] /\ work[w].at = "idle"
  BY <1>2 DEF Revert
<1> HIDE DEF job
<1>7. Begins(w) /\ work'[w] = job
  BY <1>4, <1>6 DEF Begins, IInv, TypeOK
<1>8. Served(w)' /\ Shows(w)'
  BY <1>5, <1>7 DEF Served, Shows, Revert
<1> QED
  BY <1>1, <1>5, <1>7, <1>8, BeginKeeps DEF Revert, IInv, TypeOK

LEMMA ChangePasswordKeeps ==
    ASSUME IInv, NEW w \in Works, NEW u \in People, ChangePassword(w, u),
           UNCHANGED svars, outside' \in 0..MaxOutside
    PROVE  IInv'
<1> DEFINE row == [who |-> u, old |-> account[u].email, new |-> account[u].email]
<1>1. row \in Change /\ row.who = u /\ row.old = account[u].email
  BY DEF IInv, TypeOK, AccountRow, Change
<1>2. Begin(w, "password", "save", row)
  BY DEF ChangePassword
<1> HIDE DEF row
<1>3. /\ Begins(w) /\ work'[w].op = "password" /\ work'[w].at = "save"
      /\ work'[w].row = row
      /\ work'[w].seen = (There(row.who) /\ account[row.who].verified)
  BY <1>1, <1>2, BeginBegins DEF IInv, Places
<1>4. account[u].row = "there" /\ account[u].verified \in BOOLEAN
  BY DEF ChangePassword, There, IInv, TypeOK, AccountRow
<1>5. work'[w].seen = account[u].verified
  BY <1>1, <1>3, <1>4 DEF There
<1>6. Served(w)' /\ Shows(w)'
  BY <1>1, <1>3, <1>5 DEF Served, Shows, ChangePassword, IInv, Agreed
<1> QED
  BY <1>1, <1>3, <1>4, <1>5, <1>6, BeginKeeps DEF ChangePassword, IInv, TypeOK

--------------------------------------------------------------------------
(* Requests that move on *)

LEMMA GenerateEmailFingerprintKeeps ==
    ASSUME IInv, NEW w \in Works, GenerateEmailFingerprint(w),
           UNCHANGED <<svars, outside>>
    PROVE  IInv'
<1>1. PICK at \in {"refused", "mail"} : Go(w, at)
  BY DEF GenerateEmailFingerprint
<1>2. at \in Places /\ Allowed(w, at)
  BY DEF Places, Allowed, Over, IInv, Served, GenerateEmailFingerprint
<1>3. work[w].row.new \in Emails
  BY DEF GenerateEmailFingerprint, IInv, Served, TypeOK, Work, Change, Address
<1>4. finger' \subseteq Emails /\ mailed' \subseteq Emails
  BY <1>3 DEF GenerateEmailFingerprint, IInv, TypeOK
<1> QED
  BY <1>1, <1>2, <1>4, MoveKeeps, SessionsSame
     DEF IInv, TypeOK, GenerateEmailFingerprint

LEMMA MailLinkKeeps ==
    ASSUME IInv, NEW w \in Works, MailLink(w), UNCHANGED <<svars, outside>>
    PROVE  IInv'
<1>1. PICK at \in {"done", "rollback"} : Go(w, at)
  BY DEF MailLink
<1>2. at \in Places /\ Allowed(w, at)
  BY DEF Places, Allowed, Over, IInv, Served, MailLink
<1>3. work[w].row.new \in Emails
  BY DEF MailLink, IInv, Served, TypeOK, Work, Change, Address
<1>4. finger' \subseteq Emails /\ mailed' \subseteq Emails
  BY <1>3 DEF MailLink, IInv, TypeOK
<1> QED
  BY <1>1, <1>2, <1>4, MoveKeeps, SessionsSame DEF IInv, TypeOK, MailLink

LEMMA RollBackEmailFingerprintKeeps ==
    ASSUME IInv, NEW w \in Works, RollBackEmailFingerprint(w),
           UNCHANGED <<svars, outside>>
    PROVE  IInv'
<1>1. PICK at \in {"delete", "failed"} : Go(w, at)
  BY DEF RollBackEmailFingerprint
<1>2. at \in Places /\ Allowed(w, at)
  BY DEF Places, Allowed, Over, IInv, Served, RollBackEmailFingerprint
<1>3. finger' \subseteq Emails /\ mailed' \subseteq Emails
  BY DEF RollBackEmailFingerprint, IInv, TypeOK
<1> QED
  BY <1>1, <1>2, <1>3, MoveKeeps, SessionsSame
     DEF IInv, TypeOK, RollBackEmailFingerprint

LEMMA ConsumeLinkKeeps ==
    ASSUME IInv, NEW w \in Works, ConsumeLink(w), UNCHANGED <<svars, outside>>
    PROVE  IInv'
<1>1. Go(w, "find") /\ "find" \in Places /\ Allowed(w, "find")
  BY DEF Places, Allowed, Over, IInv, Served, ConsumeLink
<1>2. finger' \subseteq Emails /\ mailed' \subseteq Emails
  BY DEF ConsumeLink, IInv, TypeOK
<1> QED
  BY <1>1, <1>2, MoveKeeps, SessionsSame DEF IInv, TypeOK, ConsumeLink

LEMMA DeliverTells ==
    ASSUME IInv, NEW w \in Works, NEW at \in Over, work[w].at = "notice", Deliver(w)
    PROVE  Told(w, at)
  BY DEF Deliver, Told, Tried, IInv, TypeOK

LEMMA MailNoticeKeeps ==
    ASSUME IInv, NEW w \in Works, MailNotice(w), UNCHANGED <<svars, outside>>
    PROVE  IInv'
<1>1. Go(w, "signout") /\ "signout" \in Places /\ Allowed(w, "signout")
  BY DEF Places, Allowed, Over, MailNotice
<1>2. Told(w, "signout")
  BY DeliverTells DEF MailNotice, Over
<1> QED
  BY <1>1, <1>2, MoveKeeps, SessionsSame DEF IInv, TypeOK, MailNotice

LEMMA WorkFailsKeeps ==
    ASSUME IInv, NEW w \in Works, WorkFails(w), UNCHANGED svars,
           outside' \in 0..MaxOutside
    PROVE  IInv'
<1>1. Go(w, "failed") /\ "failed" \in Places /\ Allowed(w, "failed")
  BY DEF Places, Allowed, Over, WorkFails
<1>2. (UNCHANGED notice /\ work[w].at # "notice") \/ Told(w, "failed")
  BY DeliverTells DEF WorkFails, Over
<1> QED
  BY <1>1, <1>2, MoveKeeps, SessionsSame DEF IInv, TypeOK, WorkFails

LEMMA SignOutAfterKeeps ==
    ASSUME IInv, NEW w \in Works, NEW k \in Removals, SignOutAfter(w, k),
           UNCHANGED <<barred, login, keyVars, tokens, cookie, req,
                       sessionHistory, outside>>
    PROVE  IInv'
<1>1. Go(w, "done") /\ "done" \in Places /\ Allowed(w, "done")
  BY DEF Places, Allowed, Over, SignOutAfter
<1>2. work[w].row.who \in People
  BY DEF IInv, TypeOK, Work, Change
<1>3. PICK todo \in SUBSET Devices, kind \in {"others", "all"} :
        Todo(k, Removal(work[w].row.who, kind, "list", todo, TRUE))
  BY DEF SignOutAfter, RemoveAllDevices, RemoveOtherDevices
<1> DEFINE job == Removal(work[w].row.who, kind, "list", todo, TRUE)
<1>4. job \in RemovalRequest
  BY <1>2 DEF Removal, RemovalRequest
<1>5. job.ready = {} /\ job.found = {} /\ job.at = "list"
  BY DEF Removal
<1>6. rm' = [rm EXCEPT ![k] = job]
  BY <1>3 DEF Todo
<1> HIDE DEF job
<1>7. SInv'
  BY <1>4, <1>5, <1>6, RemovalStarts DEF IInv
<1> QED
  BY <1>1, <1>7, MoveKeeps DEF IInv, TypeOK, SignOutAfter

--------------------------------------------------------------------------
(* Changes of the address: the request and the way back *)

\* Steps on requests and ways back that leave the accounts alone.
LEMMA ChangesKeep ==
    ASSUME IInv, UNCHANGED <<svars, account, finger, mailed, proven>>,
           outside' \in 0..MaxOutside,
           work' \in [Works -> Work],
           pending' \in [People -> SUBSET Change],
           changed' \in [People -> SUBSET Change], reverts' \subseteq Works,
           notice' = notice,
           \A x \in Works : Served(x)' /\ Shows(x)',
           \A x \in Works : work'[x].at \in {"save", "set"} => work'[x] = work[x],
           WaysBack', ChangeCanBeReverted'
    PROVE  IInv'
<1>1. SInv'
  BY SessionsSame DEF IInv
<1>2. TypeOK'
  BY <1>1 DEF IInv, SInv, TypeOK
<1>3. Agreed'
  BY AgreedStays DEF IInv
<1> QED
  BY <1>1, <1>2, <1>3 DEF IInv

LEMMA WaysMove ==
    ASSUME IInv, NEW w \in Works, NEW at, Moves(w, at), Allowed(w, at),
           notice' = notice, work[w].at # "notice",
           reverts' \subseteq reverts \cup {w},
           w \in reverts' => w \in reverts \/ at = "clear",
           \A x \in Works : work'[x].at = "clear" => x \in reverts',
           \A u \in People : \A row \in changed'[u] \cup pending'[u] :
             row.who = u /\ row.new # NoEmail
    PROVE  WaysBack'
<1>1. \A x \in Works : /\ work'[x].op = work[x].op /\ work'[x].row = work[x].row
                       /\ work'[x].by = work[x].by /\ work[x].by \in Works
  BY DEF Moves, IInv, TypeOK, Work
<1>2. \A x \in Works :
        /\ x \in reverts \/ work[x].at \in Over
        /\ work[x].op = "confirm"
        => \/ work'[x].at \in {work[x].at} \cup Over
           \/ work[x].at = "clear" /\ work'[x].at = "notice"
  BY DEF Moves, Allowed, Over, IInv, WaysBack
<1>3. reverts \subseteq Works
  BY DEF IInv, TypeOK
<1>4. \A v \in reverts' : /\ work'[v].op = "confirm"
                          /\ work'[v].at \in {"clear", "notice"} \cup Over
  BY <1>1, <1>2, <1>3 DEF IInv, WaysBack, Moves, Allowed, Over
<1>5. \A x \in Works : work'[x].op = "revert" =>
        LET v == work'[x].by
        IN  /\ work'[v].op = "confirm" /\ work'[v].row = work'[x].row
            /\ work'[v].at \in Over
  BY <1>1, <1>2 DEF IInv, WaysBack, Over
<1>6. \A x \in Works : notice[x] # "none" => /\ work'[x].op = "confirm"
                                             /\ work'[x].at \in Over
  BY <1>1, <1>2 DEF IInv, WaysBack, Over
<1> QED
  BY <1>4, <1>5, <1>6 DEF WaysBack

LEMMA TriedStays ==
    ASSUME IInv, NEW w \in Works, NEW at, Moves(w, at), notice' = notice,
           work[w].at # "notice"
    PROVE  \A x \in Works : work'[x].row = work[x].row /\ (Tried(x) => Tried(x)')
  BY DEF Moves, Tried

LEMMA CancelForRequestKeeps ==
    ASSUME IInv, NEW w \in Works, CancelForRequest(w),
           UNCHANGED <<svars, outside>>
    PROVE  IInv'
<1>1. work[w].at # "notice" /\ Moves(w, "store") /\ Allowed(w, "store")
  BY GoMoves DEF IInv, Places, Allowed, CancelForRequest, At
<1>a. /\ reverts \subseteq Works
      /\ \A x \in Works : work'[x].row = work[x].row /\ (Tried(x) => Tried(x)')
  BY <1>1, TriedStays DEF CancelForRequest, IInv, TypeOK
<1>2. \A x \in Works : Served(x)' /\ Shows(x)'
  BY <1>1, ServedStays DEF CancelForRequest
<1>3. work[w].row.who \in People
  BY DEF IInv, TypeOK, Work, Change
<1>4. /\ pending' \in [People -> SUBSET Change]
      /\ changed' \in [People -> SUBSET Change]
      /\ \A u \in People : \/ pending'[u] = pending[u] /\ changed'[u] = changed[u]
                           \/ pending'[u] = {} /\ changed'[u] = {}
  BY DEF CancelForRequest, Drop, IInv, TypeOK
<1>5. WaysBack'
  BY <1>1, <1>4, WaysMove DEF IInv, WaysBack, Moves, CancelForRequest
<1>6. ChangeCanBeReverted'
  BY <1>a, <1>4 DEF CancelForRequest, IInv, ChangeCanBeReverted
<1> QED
  BY <1>1, <1>2, <1>4, <1>5, <1>6, ChangesKeep
     DEF CancelForRequest, Moves, IInv, TypeOK

LEMMA StoreRequestKeeps ==
    ASSUME IInv, NEW w \in Works, StoreRequest(w), UNCHANGED <<svars, outside>>
    PROVE  IInv'
<1>1. work[w].at # "notice" /\ Moves(w, "done") /\ Allowed(w, "done")
  BY GoMoves DEF IInv, Places, Allowed, StoreRequest, At
<1>a. /\ reverts \subseteq Works
      /\ \A x \in Works : work'[x].row = work[x].row /\ (Tried(x) => Tried(x)')
  BY <1>1, TriedStays DEF StoreRequest, IInv, TypeOK
<1>2. \A x \in Works : Served(x)' /\ Shows(x)'
  BY <1>1, ServedStays DEF StoreRequest
<1>3. /\ work[w].row.who \in People /\ work[w].row \in Change
      /\ work[w].row.new # NoEmail
  BY DEF IInv, TypeOK, Work, Change, StoreRequest, At, Served
<1>4. /\ pending' \in [People -> SUBSET Change]
      /\ changed' \in [People -> SUBSET Change]
      /\ \A u \in People :
           \/ pending'[u] = pending[u] /\ changed'[u] = changed[u]
           \/ /\ u = work[w].row.who
              /\ pending'[u] = {work[w].row} /\ changed'[u] = {}
  BY <1>3 DEF StoreRequest, IInv, TypeOK
<1>5. WaysBack'
  BY <1>1, <1>3, <1>4, WaysMove DEF IInv, WaysBack, Moves, StoreRequest
<1>6. ChangeCanBeReverted'
  BY <1>a, <1>4 DEF IInv, ChangeCanBeReverted, StoreRequest
<1> QED
  BY <1>1, <1>2, <1>4, <1>5, <1>6, ChangesKeep
     DEF StoreRequest, Moves, IInv, TypeOK

LEMMA StoreRevertKeeps ==
    ASSUME IInv, NEW w \in Works, StoreRevert(w), UNCHANGED <<svars, outside>>
    PROVE  IInv'
<1>1. work[w].at # "notice" /\ Moves(w, "clear") /\ Allowed(w, "clear")
  BY GoMoves DEF IInv, Places, Allowed, StoreRevert, Served
<1>a. /\ reverts \subseteq Works
      /\ \A x \in Works : work'[x].row = work[x].row /\ (Tried(x) => Tried(x)')
  BY <1>1, TriedStays DEF StoreRevert, IInv, TypeOK
<1>2. \A x \in Works : Served(x)' /\ Shows(x)'
  BY <1>1, ServedStays DEF StoreRevert
<1>3. reverts' = reverts \cup {w} /\ UNCHANGED <<pending, changed>>
  BY DEF StoreRevert
<1>4. WaysBack'
  BY <1>1, <1>3, WaysMove DEF IInv, WaysBack, Moves, StoreRevert
<1>5. ChangeCanBeReverted'
  BY <1>a, <1>3 DEF IInv, ChangeCanBeReverted
<1> QED
  BY <1>1, <1>2, <1>3, <1>4, <1>5, ChangesKeep
     DEF StoreRevert, Moves, IInv, TypeOK

LEMMA ClearRequestKeeps ==
    ASSUME IInv, NEW w \in Works, ClearRequest(w), UNCHANGED <<svars, outside>>
    PROVE  IInv'
<1>1. work[w].at # "notice" /\ Moves(w, "notice") /\ Allowed(w, "notice")
  BY GoMoves DEF IInv, Places, Allowed, ClearRequest, Served
<1>a. /\ reverts \subseteq Works
      /\ \A x \in Works : work'[x].row = work[x].row /\ (Tried(x) => Tried(x)')
  BY <1>1, TriedStays DEF ClearRequest, IInv, TypeOK
<1>2. \A x \in Works : Served(x)' /\ Shows(x)'
  BY <1>1, ServedStays DEF ClearRequest
<1>3. work[w].row \in Change /\ work[w].row.who \in People /\ w \in reverts
  BY DEF IInv, TypeOK, Work, Change, ClearRequest, WaysBack
<1>4. /\ pending' \in [People -> SUBSET Change]
      /\ changed' \in [People -> SUBSET Change]
      /\ \A u \in People :
           \/ pending'[u] = pending[u] /\ changed'[u] = changed[u]
           \/ pending'[u] = {} /\ changed'[u] = changed[u] \cap {work[w].row}
  BY <1>3 DEF ClearRequest, IInv, TypeOK
<1>5. WaysBack'
  BY <1>1, <1>4, WaysMove DEF IInv, WaysBack, Moves, ClearRequest
<1>6. ChangeCanBeReverted'
  <2>1. Tried(w)' /\ work'[w].row = work[w].row /\ w \in reverts'
    BY <1>1, <1>3 DEF Moves, Tried, ClearRequest
  <2> QED
    BY <1>a, <1>3, <1>4, <2>1 DEF IInv, ChangeCanBeReverted, ClearRequest
<1> QED
  BY <1>1, <1>2, <1>4, <1>5, <1>6, ChangesKeep
     DEF ClearRequest, Moves, IInv, TypeOK

LEMMA DeleteRevertKeeps ==
    ASSUME IInv, NEW w \in Works, DeleteRevert(w), UNCHANGED <<svars, outside>>
    PROVE  IInv'
<1>1. work[w].at # "notice" /\ Moves(w, "signout") /\ Allowed(w, "signout")
  BY GoMoves DEF IInv, Places, Allowed, DeleteRevert, At
<1>a. /\ reverts \subseteq Works
      /\ \A x \in Works : work'[x].row = work[x].row /\ (Tried(x) => Tried(x)')
  BY <1>1, TriedStays DEF DeleteRevert, IInv, TypeOK
<1>2. \A x \in Works : Served(x)' /\ Shows(x)'
  BY <1>1, ServedStays DEF DeleteRevert
<1> DEFINE v == work[w].by
           row == work[w].row
<1>3. row \in Change /\ row.who \in People /\ v \in Works
  BY DEF IInv, TypeOK, Work, Change
<1>4. work[v].row = row /\ work[v].at \in Over /\ v # w
  BY DEF IInv, WaysBack, DeleteRevert, At, Over
<1>5. /\ changed' \in [People -> SUBSET Change]
      /\ \A u \in People : changed'[u] = IF u = row.who THEN changed[u] \ {row}
                                         ELSE changed[u]
      /\ reverts' = reverts \ {v} /\ pending' = pending
  BY <1>3 DEF DeleteRevert, IInv, TypeOK
<1> HIDE DEF v, row
<1>6. WaysBack'
  <2>1. \A x \in Works : work'[x].at = "clear" => x \in reverts'
    BY <1>1, <1>4, <1>5 DEF IInv, WaysBack, Moves, Over
  <2>2. \A u \in People : \A r \in changed'[u] \cup pending'[u] :
          r.who = u /\ r.new # NoEmail
    BY <1>5 DEF IInv, WaysBack
  <2>3. notice' = notice /\ reverts' \subseteq reverts
    BY <1>5 DEF DeleteRevert
  <2> QED
    BY <1>1, <2>1, <2>2, <2>3, WaysMove
<1>7. ChangeCanBeReverted'
  <2> SUFFICES ASSUME NEW u \in People, NEW r \in changed'[u]
               PROVE  r \in pending'[u] \/ \E x \in reverts' : work'[x].row = r /\ Tried(x)'
    BY DEF ChangeCanBeReverted
  <2>1. r \in changed[u] /\ r.who = u
    BY <1>5 DEF IInv, WaysBack
  <2>2. r # row
    BY <1>5, <2>1
  <2>3. r \in pending[u] \/ \E x \in reverts : work[x].row = r /\ Tried(x)
    BY <2>1 DEF IInv, ChangeCanBeReverted
  <2> QED
    BY <1>a, <1>4, <1>5, <2>2, <2>3
<1> QED
  BY <1>1, <1>2, <1>5, <1>6, <1>7, ChangesKeep
     DEF DeleteRevert, Moves, IInv, TypeOK

LEMMA RevertExpiresKeeps ==
    ASSUME IInv, NEW v \in reverts, RevertExpires(v), UNCHANGED svars,
           outside' \in 0..MaxOutside
    PROVE  IInv'
<1> DEFINE row == work[v].row
<1>1. row \in Change /\ row.who \in People /\ v \in Works
  BY DEF IInv, TypeOK, Work, Change
<1>2. /\ changed' \in [People -> SUBSET Change]
      /\ \A u \in People : changed'[u] = IF u = row.who THEN changed[u] \ {row}
                                         ELSE changed[u]
      /\ reverts' = reverts \ {v} /\ UNCHANGED <<pending, work, notice>>
  BY <1>1 DEF RevertExpires, IInv, TypeOK
<1>3. WaysBack'
  BY <1>2 DEF IInv, WaysBack, RevertExpires
<1>4. ChangeCanBeReverted'
  <2> SUFFICES ASSUME NEW u \in People, NEW r \in changed'[u]
               PROVE  r \in pending'[u] \/ \E x \in reverts' : work'[x].row = r /\ Tried(x)'
    BY DEF ChangeCanBeReverted
  <2>1. r \in changed[u] /\ r.who = u
    BY <1>2 DEF IInv, WaysBack
  <2>2. r # row
    BY <1>2, <2>1
  <2> QED
    BY <1>2, <2>1, <2>2 DEF IInv, ChangeCanBeReverted, Tried
<1>5. \A x \in Works : Served(x)' /\ Shows(x)'
  BY <1>2 DEF RevertExpires, IInv, Served, Shows
<1> QED
  BY <1>2, <1>3, <1>4, <1>5, ChangesKeep DEF RevertExpires, IInv, TypeOK

LEMMA CancelPendingKeeps ==
    ASSUME IInv, NEW u \in People, CancelPending(u), UNCHANGED svars,
           outside' \in 0..MaxOutside
    PROVE  IInv'
<1>1. /\ pending' \in [People -> SUBSET Change]
      /\ changed' \in [People -> SUBSET Change]
      /\ \A x \in People : \/ pending'[x] = pending[x] /\ changed'[x] = changed[x]
                           \/ pending'[x] = {} /\ changed'[x] = {}
      /\ UNCHANGED <<account, finger, mailed, reverts, notice, work, proven>>
  BY DEF CancelPending, Drop, IInv, TypeOK
<1>2. WaysBack' /\ ChangeCanBeReverted'
  BY <1>1 DEF IInv, WaysBack, ChangeCanBeReverted, Tried
<1>3. \A x \in Works : Served(x)' /\ Shows(x)'
  BY <1>1 DEF IInv, Served, Shows
<1> QED
  BY <1>1, <1>2, <1>3, ChangesKeep DEF IInv, TypeOK

LEMMA LinkExpiresKeeps ==
    ASSUME IInv, NEW e \in Emails, LinkExpires(e), UNCHANGED svars,
           outside' \in 0..MaxOutside
    PROVE  IInv'
<1>1. SInv'
  BY SessionsSame DEF IInv
<1>2. TypeOK'
  BY <1>1 DEF IInv, SInv, TypeOK, LinkExpires
<1> QED
  BY <1>1, <1>2
     DEF LinkExpires, IInv, Served, Shows, WaysBack, ChangeCanBeReverted,
         Tried, Agreed, Unseen, Setting

--------------------------------------------------------------------------
(* Steps that write an account *)

\* What is left to show of a request that writes a row and moves on.
LEMMA WritesKeep ==
    ASSUME IInv, SInv', NEW w \in Works, NEW at \in Places, Go(w, at),
           Allowed(w, at), at # "clear", work[w].at # "notice",
           UNCHANGED <<finger, mailed, pending, reverts, notice, proven, outside>>,
           account' \in [People -> AccountRow],
           changed' \in [People -> SUBSET Change],
           \A u \in People : changed'[u] \subseteq pending[u] \/ changed'[u] = changed[u],
           Agreed'
    PROVE  IInv'
<1>1. Moves(w, at)
  BY GoMoves DEF IInv
<1>2. TypeOK'
  BY <1>1 DEF IInv, SInv, TypeOK, Moves
<1>3. \A x \in Works : Served(x)' /\ Shows(x)'
  BY <1>1, ServedStays
<1>4. WaysBack'
  BY <1>1, WaysMove DEF IInv, WaysBack, Moves
<1>5. ChangeCanBeReverted'
  <2>1. \A x \in reverts : work'[x].row = work[x].row /\ (Tried(x) => Tried(x)')
    BY <1>1, TriedStays DEF IInv, TypeOK
  <2> QED
    BY <2>1 DEF IInv, ChangeCanBeReverted
<1> QED
  BY <1>2, <1>3, <1>4, <1>5 DEF IInv

\* An account that gets an address, proven, counts as verified or is none.
LEMMA Rewritten ==
    ASSUME IInv, NEW u \in People, UNCHANGED proven,
           account' \in [People -> AccountRow],
           \A x \in People \ {u} : account'[x] = account[x],
           account'[u].row # "none" \/ account[u].row = "none",
           account'[u].verified => account'[u].email \in proven \cup {NoEmail},
           ~account'[u].verified =>
             \A v \in Works :
               /\ Unseen(v, u) => Agree(account'[u].email, work[v].row.old)
               /\ Setting(v, u) => Agree(account'[u].email, work[v].row.new),
           \A x \in Works : work'[x].at \in {"save", "set"} => work'[x] = work[x]
    PROVE  Agreed'
<1> SUFFICES ASSUME NEW p \in People
             PROVE  /\ account'[p].verified => account'[p].email \in proven \cup {NoEmail}
                    /\ \A w \in Works :
                         work'[w].at \in {"save", "set"} /\ work'[w].row.who = p
                         => account'[p].row # "none"
                    /\ \A v, w \in Works : Unseen(v, p)' =>
                         /\ ~account'[p].verified
                            => Agree(account'[p].email, work'[v].row.old)
                         /\ Unseen(w, p)' => Agree(work'[v].row.old, work'[w].row.old)
                         /\ Setting(w, p)' => Agree(work'[v].row.old, work'[w].row.new)
                    /\ \A w \in Works : Setting(w, p)' /\ ~account'[p].verified
                         => Agree(account'[p].email, work'[w].row.new)
  BY DEF Agreed, Agree
<1>1. \A x \in Works : /\ Unseen(x, p)' => Unseen(x, p) /\ work'[x] = work[x]
                       /\ Setting(x, p)' => Setting(x, p) /\ work'[x] = work[x]
  BY DEF Unseen, Setting
<1>2. CASE p # u
  BY <1>1, <1>2 DEF IInv, Agreed
<1>3. CASE p = u
  BY <1>1, <1>3 DEF IInv, Agreed
<1> QED
  BY <1>2, <1>3

LEMMA DeleteUserKeeps ==
    ASSUME IInv, NEW w \in Works, DeleteUser(w), UNCHANGED <<deviceVars, outside>>
    PROVE  IInv'
<1>0. work[w].at # "notice" /\ notice' = notice
  BY DEF DeleteUser, At
<1> DEFINE u == work[w].row.who
<1>1. u \in People
  BY DEF IInv, TypeOK, Work, Change
<1>2. Go(w, "failed") /\ "failed" \in Places /\ Allowed(w, "failed")
  BY DEF Places, Allowed, Over, DeleteUser
<1>3. /\ account' = [account EXCEPT ![u].row = "gone"]
      /\ UNCHANGED <<finger, mailed, pending, reverts, notice, proven, changed>>
  BY DEF DeleteUser
<1>4. SInv'
  BY <1>1, BarringKeeps DEF IInv, DeleteUser, deviceVars, SInv, SessionTypeOK
<1> HIDE DEF u
<1>5. account' \in [People -> AccountRow]
  BY <1>1, <1>3 DEF IInv, TypeOK, AccountRow
<1>6. \A x \in Works : work'[x].at \in {"save", "set"} => work'[x] = work[x]
  BY <1>2, GoMoves DEF IInv, Moves
<1>7. Agreed'
  <2>1. /\ account'[u].verified = account[u].verified /\ account'[u].row = "gone"
        /\ account'[u].email = account[u].email
        /\ \A x \in People \ {u} : account'[x] = account[x]
    BY <1>1, <1>3 DEF IInv, TypeOK, AccountRow
  <2> QED
    BY <1>1, <1>3, <1>5, <1>6, <2>1, Rewritten DEF IInv, Agreed
<1> QED
  BY <1>0, <1>2, <1>3, <1>4, <1>5, <1>7, WritesKeep DEF IInv, TypeOK

LEMMA UpdateForDeactivationKeeps ==
    ASSUME IInv, NEW w \in Works, UpdateForDeactivation(w),
           UNCHANGED <<deviceVars, outside>>
    PROVE  IInv'
<1>0. work[w].at # "notice" /\ notice' = notice
  BY DEF UpdateForDeactivation, At
<1> DEFINE u == work[w].row.who
<1>1. u \in People
  BY DEF IInv, TypeOK, Work, Change
<1>2. Go(w, "done") /\ "done" \in Places /\ Allowed(w, "done")
  BY DEF Places, Allowed, Over, UpdateForDeactivation, At
<1>3. /\ account' = [account EXCEPT ![u].email = NoEmail]
      /\ UNCHANGED <<finger, mailed, pending, reverts, notice, proven, changed>>
  BY DEF UpdateForDeactivation
<1>4. SInv'
  BY <1>1, BarringKeeps
     DEF IInv, UpdateForDeactivation, deviceVars, SInv, SessionTypeOK
<1> HIDE DEF u
<1>5. account' \in [People -> AccountRow]
  BY <1>1, <1>3 DEF IInv, TypeOK, AccountRow, Address
<1>6. \A x \in Works : work'[x].at \in {"save", "set"} => work'[x] = work[x]
  BY <1>2, GoMoves DEF IInv, Moves
<1>7. Agreed'
  BY <1>1, <1>3, <1>5, <1>6, Rewritten DEF IInv, TypeOK, AccountRow, Agreed,
     Agree
<1> QED
  BY <1>0, <1>2, <1>3, <1>4, <1>5, <1>7, WritesKeep DEF IInv, TypeOK

LEMMA SetVerifiedKeeps ==
    ASSUME IInv, NEW w \in Works, SetVerified(w), UNCHANGED <<svars, outside>>
    PROVE  IInv'
<1>0. work[w].at # "notice" /\ notice' = notice
  BY DEF SetVerified, At
<1> DEFINE u == work[w].row.who
<1>1. u \in People
  BY DEF IInv, TypeOK, Work, Change
<1>2. PICK at \in {"done", "failed"} : Go(w, at)
  BY DEF SetVerified
<1>3. at \in Places /\ Allowed(w, at)
  BY DEF Places, Allowed, Over, SetVerified, IInv, Served
<1>4. /\ account' = [account EXCEPT ![u].verified = TRUE]
      /\ UNCHANGED <<finger, mailed, pending, reverts, notice, proven, changed>>
  BY DEF SetVerified
<1>5. work[w].row.new \in proven /\ work[w].row.new # NoEmail
  BY EmailsAssumption DEF SetVerified, IInv, Shows, TypeOK
<1>6. account[u].email \in proven \cup {NoEmail}
  <2>1. account[u].verified \/ Agree(account[u].email, work[w].row.new)
    BY <1>1 DEF SetVerified, IInv, Agreed, Setting
  <2> QED
    BY <1>1, <1>5, <2>1 DEF IInv, Agreed, Agree
<1> HIDE DEF u
<1>7. account' \in [People -> AccountRow]
  BY <1>1, <1>4 DEF IInv, TypeOK, AccountRow
<1>8. \A x \in Works : work'[x].at \in {"save", "set"} => work'[x] = work[x]
  BY <1>2, <1>3, GoMoves DEF IInv, Moves
<1>9. Agreed'
  <2>1. /\ account'[u].verified /\ account'[u].email = account[u].email
        /\ account'[u].row = account[u].row
        /\ \A x \in People \ {u} : account'[x] = account[x]
    BY <1>1, <1>4 DEF IInv, TypeOK, AccountRow
  <2> QED
    BY <1>1, <1>4, <1>6, <1>7, <1>8, <2>1, Rewritten
<1> QED
  BY <1>0, <1>2, <1>3, <1>4, <1>7, <1>9, WritesKeep, SessionsSame DEF IInv, TypeOK

LEMMA SavePasswordKeeps ==
    ASSUME IInv, NEW w \in Works, SavePassword(w), UNCHANGED <<deviceVars, outside>>
    PROVE  IInv'
<1>0. work[w].at # "notice" /\ notice' = notice
  BY DEF SavePassword, At
<1> DEFINE u == work[w].row.who
           row == [row |-> "there", email |-> work[w].row.old,
                   verified |-> work[w].seen]
<1>1. u \in People /\ row \in AccountRow
  BY DEF IInv, TypeOK, Work, Change, AccountRow
<1>2. PICK at \in {"signout", "failed"} : Go(w, at)
  BY DEF SavePassword
<1>3. at \in Places /\ Allowed(w, at)
  BY DEF Places, Allowed, Over, SavePassword, IInv, Served
<1>4. /\ account' = [account EXCEPT ![u] = row] \/ account' = account
      /\ UNCHANGED <<finger, mailed, pending, reverts, notice, proven, changed>>
  BY DEF SavePassword
<1>5. SInv'
  BY <1>1, BarringKeeps DEF IInv, SavePassword, deviceVars, SInv, SessionTypeOK
<1>6. /\ row.row = "there" /\ row.email = work[w].row.old
      /\ row.verified = work[w].seen
  OBVIOUS
<1> HIDE DEF u, row
<1>7. account' \in [People -> AccountRow]
  BY <1>1, <1>4 DEF IInv, TypeOK
<1>8. \A x \in Works : work'[x].at \in {"save", "set"} => work'[x] = work[x]
  BY <1>2, <1>3, GoMoves DEF IInv, Moves
<1>9. Agreed'
  <2>1. CASE account' = account
    BY <2>1, <1>4, <1>8, AgreedStays DEF IInv
  <2>2. CASE account' = [account EXCEPT ![u] = row]
    <3>1. account'[u] = row /\ \A x \in People \ {u} : account'[x] = account[x]
      BY <2>2, <1>1 DEF IInv, TypeOK
    <3>2. row.verified => row.email \in proven \cup {NoEmail}
      BY <1>6 DEF SavePassword, IInv, Shows
    <3>3. ~row.verified =>
            \A v \in Works : /\ Unseen(v, u) => Agree(row.email, work[v].row.old)
                             /\ Setting(v, u) => Agree(row.email, work[v].row.new)
      BY <1>1, <1>6 DEF u, SavePassword, IInv, Agreed, Unseen
    <3> QED
      BY <1>1, <1>4, <1>6, <1>7, <1>8, <3>1, <3>2, <3>3, Rewritten
  <2> QED
    BY <1>4, <2>1, <2>2
<1> QED
  BY <1>0, <1>2, <1>3, <1>4, <1>5, <1>7, <1>9, WritesKeep DEF IInv, TypeOK

\* An address is written by id: the row keeps its place.
LEMMA Addressed ==
    ASSUME IInv, NEW w \in Works, NEW e \in proven, NEW next \in Places,
           next \notin {"set", "save"},
           ApplyEmailChange(w, e, next), UNCHANGED proven
    PROVE  account' \in [People -> AccountRow] /\ Agreed'
<1> DEFINE u == work[w].row.who
<1>1. u \in People /\ e \in Address
  BY DEF IInv, TypeOK, Work, Change, Address
<1>2. \A x \in Works : work'[x].at \in {"save", "set"} => work'[x] = work[x]
  <2>1. PICK at \in {next, "failed"} : Go(w, at)
    BY DEF ApplyEmailChange
  <2>2. Moves(w, at)
    BY <2>1, GoMoves DEF IInv, Places
  <2> QED
    BY <2>2 DEF Moves
<1>3. account' = account \/ account' = [account EXCEPT ![u].email = e,
                                                       ![u].verified = TRUE]
  BY DEF ApplyEmailChange
<1> HIDE DEF u
<1>4. account' \in [People -> AccountRow]
  BY <1>1, <1>3 DEF IInv, TypeOK, AccountRow
<1>5. CASE account' = account
  BY <1>2, <1>4, <1>5, AgreedStays DEF IInv
<1>6. CASE account' = [account EXCEPT ![u].email = e, ![u].verified = TRUE]
  <2>1. /\ account'[u].verified /\ account'[u].email = e
        /\ account'[u].row = account[u].row
        /\ \A x \in People \ {u} : account'[x] = account[x]
    BY <1>1, <1>6 DEF IInv, TypeOK, AccountRow
  <2> QED
    BY <1>1, <1>2, <1>4, <2>1, Rewritten
<1> QED
  BY <1>3, <1>4, <1>5, <1>6

LEMMA ApplyChangeKeeps ==
    ASSUME IInv, NEW w \in Works, ApplyChange(w), UNCHANGED <<svars, outside>>
    PROVE  IInv'
<1>0. work[w].at # "notice" /\ notice' = notice
  BY DEF ApplyChange, At, ApplyEmailChange
<1> DEFINE row == work[w].row
<1>1. row \in Change /\ row.new \in proven
  BY DEF IInv, TypeOK, Work, ApplyChange, ApplyEmailChange, Shows
<1>2. account' \in [People -> AccountRow] /\ Agreed'
  BY <1>1, Addressed DEF ApplyChange, Places
<1>3. PICK at \in {"token", "failed"} : Go(w, at)
  BY DEF ApplyChange, ApplyEmailChange
<1>4. at \in Places /\ Allowed(w, at)
  BY DEF Places, Allowed, Over, ApplyChange, ApplyEmailChange
<1>5. /\ changed' \in [People -> SUBSET Change]
      /\ \A u \in People : changed'[u] \subseteq pending[u] \/ changed'[u] = changed[u]
  BY <1>1 DEF ApplyChange, Applied, IInv, TypeOK, Change
<1> QED
  BY <1>0, <1>2, <1>3, <1>4, <1>5, WritesKeep, SessionsSame DEF ApplyChange, IInv

LEMMA ApplyRevertKeeps ==
    ASSUME IInv, NEW w \in Works, ApplyRevert(w), UNCHANGED <<svars, outside>>
    PROVE  IInv'
<1>0. work[w].at # "notice" /\ notice' = notice
  BY DEF ApplyRevert, At, ApplyEmailChange
<1>1. work[w].row.old \in proven
  BY DEF IInv, ApplyRevert, ApplyEmailChange, Shows
<1>2. account' \in [People -> AccountRow] /\ Agreed'
  BY <1>1, Addressed DEF ApplyRevert, Places
<1>3. PICK at \in {"clear revert", "failed"} : Go(w, at)
  BY DEF ApplyRevert, ApplyEmailChange
<1>4. at \in Places /\ Allowed(w, at)
  BY DEF Places, Allowed, Over, ApplyRevert
<1> QED
  BY <1>0, <1>2, <1>3, <1>4, WritesKeep, SessionsSame DEF ApplyRevert, IInv, TypeOK

\* A request that begins with the row: registering and closing.
LEMMA RegisterKeeps ==
    ASSUME IInv, NEW w \in Works, NEW u \in People, NEW e \in Emails,
           Register(w, u, e), UNCHANGED svars, outside' \in 0..MaxOutside
    PROVE  IInv'
<1> DEFINE row == [who |-> u, old |-> e, new |-> e]
           new == [row |-> "there", email |-> e, verified |-> FALSE]
<1>1. row \in Change /\ row.new = e /\ e # NoEmail
  BY EmailsAssumption DEF Change, Address
<1>2. PICK at \in {"refused", "finger"} : Begin(w, "register", at, row)
  BY DEF Register
<1>3. new \in AccountRow /\ ~new.verified /\ new.row = "there"
  BY DEF AccountRow, Address
<1>4. account' = account \/ account' = [account EXCEPT ![u] = new]
  BY DEF Register
<1> HIDE DEF row, new
<1>5. /\ Begins(w) /\ work'[w].op = "register" /\ work'[w].at = at
      /\ work'[w].row = row
  <2>1. at \in Places
    BY DEF Places
  <2> QED
    BY <1>1, <1>2, <2>1, BeginBegins DEF IInv
<1>6. Served(w)' /\ Shows(w)'
  BY <1>1, <1>5 DEF Served, Shows
<1>7. /\ \A x \in Works : Served(x)' /\ Shows(x)'
      /\ WaysBack' /\ ChangeCanBeReverted'
  BY <1>5, <1>6, BeginStays DEF Begins, IInv, Served, Register
<1>8. account' \in [People -> AccountRow]
  BY <1>3, <1>4 DEF IInv, TypeOK
<1>9. SInv' /\ TypeOK'
  BY <1>5, <1>8, SessionsSame DEF Register, Begins, IInv, SInv, TypeOK
<1>10. \A x \in Works : work'[x].at \in {"save", "set"} => work'[x] = work[x]
  BY <1>2, <1>5 DEF Begins
<1>11. Agreed'
  <2>1. CASE account' = account
    BY <2>1, <1>10, AgreedStays DEF IInv, Register
  <2>2. CASE account' = [account EXCEPT ![u] = new]
    <3>1. account'[u] = new /\ \A x \in People \ {u} : account'[x] = account[x]
      BY <2>2 DEF IInv, TypeOK
    <3>2. \A v \in Works : ~Unseen(v, u) /\ ~Setting(v, u)
      BY DEF Register, IInv, Agreed, Unseen, Setting
    <3> QED
      BY <1>3, <1>8, <1>10, <3>1, <3>2, Rewritten DEF Register
  <2> QED
    BY <1>4, <2>1, <2>2
<1> QED
  BY <1>7, <1>9, <1>11 DEF IInv

LEMMA SoftDeleteKeeps ==
    ASSUME IInv, NEW w \in Works, NEW u \in People, SoftDelete(w, u),
           UNCHANGED deviceVars, outside' \in 0..MaxOutside
    PROVE  IInv'
<1> DEFINE row == [who |-> u, old |-> account[u].email, new |-> account[u].email]
<1>1. row \in Change
  BY DEF IInv, TypeOK, AccountRow, Change
<1>2. Begin(w, "close", "rename", row)
  BY DEF SoftDelete
<1> HIDE DEF row
<1>3. Begins(w) /\ work'[w].op = "close" /\ work'[w].at = "rename"
  BY <1>1, <1>2, BeginBegins DEF IInv, Places
<1>4. Served(w)' /\ Shows(w)'
  BY <1>3 DEF Served, Shows
<1>5. /\ \A x \in Works : Served(x)' /\ Shows(x)'
      /\ WaysBack' /\ ChangeCanBeReverted'
  BY <1>3, <1>4, BeginStays DEF Begins, IInv, Served, SoftDelete
<1>6. account' = [account EXCEPT ![u].row = "closed"]
  BY DEF SoftDelete
<1>7. /\ account' \in [People -> AccountRow]
      /\ account'[u].verified = account[u].verified
      /\ account'[u].email = account[u].email /\ account'[u].row = "closed"
      /\ \A x \in People \ {u} : account'[x] = account[x]
  BY <1>6 DEF IInv, TypeOK, AccountRow
<1>8. SInv'
  BY BarringKeeps DEF IInv, SoftDelete, deviceVars, SInv, SessionTypeOK
<1>9. TypeOK'
  BY <1>3, <1>7, <1>8 DEF SoftDelete, Begins, IInv, SInv, TypeOK
<1>10. \A x \in Works : work'[x].at \in {"save", "set"} => work'[x] = work[x]
  BY <1>3 DEF Begins
<1>11. Agreed'
  BY <1>7, <1>10, Rewritten DEF SoftDelete, IInv, Agreed
<1> QED
  BY <1>5, <1>8, <1>9, <1>11 DEF IInv

--------------------------------------------------------------------------
(* Finding whose address it is *)

LEMMA SettingBegins ==
    ASSUME IInv, NEW w \in Works, NEW u \in People, UNCHANGED proven,
           \A x \in People \ {u} : account'[x] = account[x],
           ~account'[u].verified, account'[u].row # "none",
           \A x \in Works \ {w} : work'[x] = work[x],
           Setting(w, u)', work'[w].row.new = account'[u].email,
           \A x \in Works \ {w} :
             /\ Unseen(x, u) => Agree(account'[u].email, work[x].row.old)
             /\ Setting(x, u) => Agree(account'[u].email, work[x].row.new)
    PROVE  Agreed'
<1>1. \A x \in Works \ {w}, p \in People : /\ Unseen(x, p)' <=> Unseen(x, p)
                                           /\ Setting(x, p)' <=> Setting(x, p)
  BY DEF Unseen, Setting
<1>2. \A p \in People : ~Unseen(w, p)' /\ (Setting(w, p)' => p = u)
  BY DEF Unseen, Setting
<1>3. ASSUME NEW p \in People, NEW x \in Works,
             work'[x].at \in {"save", "set"} /\ work'[x].row.who = p
      PROVE  account'[p].row # "none"
  BY <1>3 DEF IInv, Agreed, Setting
<1>4. ASSUME NEW p \in People, account'[p].verified
      PROVE  account'[p].email \in proven' \cup {NoEmail}
  BY <1>4 DEF IInv, Agreed
<1>5. ASSUME NEW p \in People, NEW v \in Works, Unseen(v, p)'
      PROVE  /\ ~account'[p].verified => Agree(account'[p].email, work'[v].row.old)
             /\ \A x \in Works : Unseen(x, p)' => Agree(work'[v].row.old, work'[x].row.old)
             /\ \A x \in Works : Setting(x, p)' => Agree(work'[v].row.old, work'[x].row.new)
  <2>1. v # w /\ Unseen(v, p) /\ work'[v] = work[v]
    BY <1>1, <1>2, <1>5
  <2>2. \A x \in Works \ {w} : work'[x] = work[x]
    OBVIOUS
  <2> QED
    BY <1>1, <1>2, <2>1, <2>2 DEF IInv, Agreed, Agree
<1>6. ASSUME NEW p \in People, NEW x \in Works, Setting(x, p)', ~account'[p].verified
      PROVE  Agree(account'[p].email, work'[x].row.new)
  BY <1>1, <1>2, <1>6 DEF IInv, Agreed, Agree
<1> QED
  BY <1>3, <1>4, <1>5, <1>6 DEF Agreed, Agree, Unseen, Setting

LEMMA FindUserKeeps ==
    ASSUME IInv, NEW w \in Works, FindUser(w), UNCHANGED <<svars, outside>>
    PROVE  IInv'
<1> DEFINE e == work[w].row.new
<1>1. /\ work[w].at = "find" /\ work[w].op \in {"verify", "google"}
      /\ e \in proven /\ e # NoEmail
      /\ work \in [Works -> Work] /\ work[w].row \in Change
  BY EmailsAssumption DEF FindUser, IInv, Served, Shows, TypeOK, Work
<1>2. UNCHANGED <<finger, mailed, pending, reverts, notice, proven, changed>>
  BY DEF FindUser
<1>3. ASSUME account' = account, Go(w, "refused") PROVE IInv'
  <2>1. "refused" \in Places /\ Allowed(w, "refused")
    BY <1>1 DEF Places, Allowed, Over
  <2> QED
    BY <1>1, <1>2, <1>3, <2>1, MoveKeeps, SessionsSame DEF IInv, TypeOK
<1>4. ASSUME NEW u \in People, NEW at \in {"done", "set"},
             work' = [work EXCEPT ![w].row.who = u, ![w].at = at],
             account' \in [People -> AccountRow], Agreed'
      PROVE  IInv'
  <2>1. /\ work' \in [Works -> Work] /\ work'[w].op = work[w].op
        /\ work'[w].at = at /\ work'[w].row.new = e
        /\ \A x \in Works \ {w} : work'[x] = work[x]
    <3> DEFINE row == [work[w].row EXCEPT !.who = u]
               job == [work[w] EXCEPT !.row = row, !.at = at]
    <3>1. row \in Change /\ row.new = e
      BY <1>1 DEF Change
    <3>2. work[w] \in Work /\ at \in Places
      BY <1>1 DEF Places
    <3>3. work' = [work EXCEPT ![w] = job]
      BY <1>1, <1>4, <3>2 DEF Work
    <3> HIDE DEF row
    <3>4. job \in Work
      BY <3>1, <3>2 DEF Work
    <3>5. job.op = work[w].op /\ job.at = at /\ job.row = row
      BY <3>2 DEF Work
    <3> HIDE DEF job
    <3> QED
      BY <1>1, <3>1, <3>3, <3>4, <3>5
  <2>2. Served(w)' /\ Shows(w)'
    BY <1>1, <1>2, <2>1 DEF Served, Shows
  <2>3. /\ \A x \in Works : Served(x)' /\ Shows(x)'
        /\ WaysBack' /\ ChangeCanBeReverted'
    BY <1>1, <1>2, <2>1, <2>2, BeginStays
  <2>4. SInv' /\ TypeOK'
    BY <1>2, <1>4, <2>1, SessionsSame DEF IInv, SInv, TypeOK
  <2> QED
    BY <1>4, <2>3, <2>4 DEF IInv
<1>5. ASSUME NEW u \in People, There(u), account[u].email = e, account' = account,
             work' = [work EXCEPT ![w].row.who = u,
                        ![w].at = IF account[u].verified THEN "done" ELSE "set"]
      PROVE  IInv'
  <2>1. account' \in [People -> AccountRow]
    BY <1>5 DEF IInv, TypeOK
  <2>2. /\ \A x \in Works \ {w} : work'[x] = work[x]
        /\ work'[w].row.new = e /\ work'[w].row.who = u
        /\ work'[w].at = IF account[u].verified THEN "done" ELSE "set"
    BY <1>1, <1>5 DEF Work, Change
  <2>3. CASE account[u].verified
    <3>1. \A x \in Works : work'[x].at \in {"save", "set"} => work'[x] = work[x]
      BY <2>2, <2>3
    <3>2. Agreed'
      BY <1>2, <1>5, <3>1, AgreedStays DEF IInv
    <3> QED
      BY <1>4, <1>5, <2>1, <2>3, <3>2
  <2>4. CASE ~account[u].verified
    <3>1. \A x \in Works :
            /\ Unseen(x, u) => Agree(account'[u].email, work[x].row.old)
            /\ Setting(x, u) => Agree(account'[u].email, work[x].row.new)
      BY <1>5, <2>4 DEF IInv, Agreed
    <3>2. account'[u].row # "none" /\ ~account'[u].verified /\ Setting(w, u)'
      BY <1>5, <2>2, <2>4 DEF There, Setting
    <3>3. Agreed'
      BY <1>2, <1>5, <2>2, <3>1, <3>2, SettingBegins
    <3> QED
      BY <1>4, <1>5, <2>1, <2>4, <3>3
  <2> QED
    BY <2>3, <2>4
<1>6. ASSUME NEW u \in People, account[u].row = "none",
             account' = [account EXCEPT ![u] =
                           [row |-> "there", email |-> e, verified |-> FALSE]],
             work' = [work EXCEPT ![w].at = "set", ![w].row.who = u]
      PROVE  IInv'
  <2> DEFINE new == [row |-> "there", email |-> e, verified |-> FALSE]
  <2>1. /\ new \in AccountRow /\ new.email = e /\ ~new.verified
        /\ new.row = "there"
    BY <1>1 DEF AccountRow, Change
  <2> HIDE DEF new
  <2>2. /\ account' \in [People -> AccountRow] /\ account'[u] = new
        /\ \A x \in People \ {u} : account'[x] = account[x]
    BY <1>6, <2>1 DEF IInv, TypeOK, new
  <2>3. work' = [work EXCEPT ![w].row.who = u, ![w].at = "set"]
    BY <1>1, <1>6 DEF Work, Change
  <2>4. /\ \A x \in Works \ {w} : work'[x] = work[x]
        /\ work'[w].row.new = e /\ work'[w].row.who = u
        /\ work'[w].at = "set"
    BY <1>1, <2>3 DEF Work, Change
  <2>5. \A x \in Works : ~Unseen(x, u) /\ ~Setting(x, u)
    BY <1>6 DEF IInv, Agreed, Unseen, Setting
  <2>6. Agreed'
    BY <1>2, <2>1, <2>2, <2>4, <2>5, SettingBegins DEF Setting
  <2> QED
    BY <1>4, <2>2, <2>3, <2>6
<1> QED
  BY <1>3, <1>5, <1>6 DEF FindUser

--------------------------------------------------------------------------
(* The theorems *)

LEMMA AccountOutsideKeeps ==
    ASSUME IInv, AccountOutside, UNCHANGED svars, outside' \in 0..MaxOutside
    PROVE  IInv'
<1>1. ASSUME NEW w \in Works,
             \/ \E u \in People, e \in Emails : Register(w, u, e) \/ RequestChange(w, u, e)
             \/ \E u \in People : Resend(w, u) \/ Confirm(w, u)
             \/ \E e \in Emails : OpenLink(w, e) \/ AuthenticateWithGoogle(w, e)
             \/ \E v \in reverts : Revert(w, v)
             \/ \E u \in People : ChangePassword(w, u)
             \/ WorkFails(w)
      PROVE  IInv'
  BY <1>1, RegisterKeeps, RequestChangeKeeps, ResendKeeps, ConfirmKeeps,
     OpenLinkKeeps, AuthenticateWithGoogleKeeps, RevertKeeps,
     ChangePasswordKeeps, WorkFailsKeeps
<1>2. CASE \E u \in People : CancelPending(u)
  BY <1>2, CancelPendingKeeps
<1>3. CASE \E v \in reverts : RevertExpires(v)
  BY <1>3, RevertExpiresKeeps
<1>4. CASE \E e \in Emails : LinkExpires(e)
  BY <1>4, LinkExpiresKeeps
<1> QED
  BY <1>1, <1>2, <1>3, <1>4 DEF AccountOutside

LEMMA AccountInsideKeeps ==
    ASSUME IInv, AccountInside, UNCHANGED <<svars, outside>> PROVE IInv'
  BY GenerateEmailFingerprintKeeps, MailLinkKeeps,
     RollBackEmailFingerprintKeeps,
     ConsumeLinkKeeps, FindUserKeeps, SetVerifiedKeeps, CancelForRequestKeeps,
     StoreRequestKeeps, ApplyChangeKeeps, StoreRevertKeeps, ClearRequestKeeps,
     MailNoticeKeeps, ApplyRevertKeeps, DeleteRevertKeeps
     DEF AccountInside

\* The devices' own steps leave the accounts alone.
LEMMA DevicesKeep ==
    ASSUME IInv, SInv', UNCHANGED avars, outside' \in 0..MaxOutside PROVE IInv'
<1>1. TypeOK'
  BY DEF IInv, SInv, TypeOK, avars
<1> QED
  BY <1>1 DEF IInv, avars, Served, Shows, WaysBack, ChangeCanBeReverted, Tried,
              Agreed, Unseen, Setting

LEMMA OutsideKeeps == ASSUME IInv, Outside PROVE IInv'
<1>1. outside' \in 0..MaxOutside
  BY OutsideAssumption DEF Outside, IInv, TypeOK
<1>2. CASE AccountOutside /\ UNCHANGED svars
  BY <1>1, <1>2, AccountOutsideKeeps
<1>3. CASE \E w \in Works, u \in People : SoftDelete(w, u) /\ UNCHANGED deviceVars
  BY <1>1, <1>3, SoftDeleteKeeps
<1>4. CASE SessionOutside /\ UNCHANGED avars
  BY <1>1, <1>4, SessionOutsideKeeps, DevicesKeep DEF IInv
<1> QED
  BY <1>2, <1>3, <1>4 DEF Outside

LEMMA InsideKeeps == ASSUME IInv, Inside PROVE IInv'
<1>1. outside' = outside
  BY DEF Inside
<1>2. CASE AccountInside /\ UNCHANGED svars
  BY <1>1, <1>2, AccountInsideKeeps
<1>3. CASE \E w \in Works : /\ DeleteUser(w) \/ SavePassword(w)
                               \/ UpdateForDeactivation(w)
                            /\ UNCHANGED deviceVars
  BY <1>1, <1>3, DeleteUserKeeps, SavePasswordKeeps, UpdateForDeactivationKeeps
<1>4. CASE \E w \in Works, k \in Removals :
             /\ SignOutAfter(w, k)
             /\ UNCHANGED <<barred, login, keyVars, tokens, cookie, req,
                            sessionHistory>>
  BY <1>1, <1>4, SignOutAfterKeeps
<1>5. CASE SessionInside /\ UNCHANGED avars
  BY <1>1, <1>5, SessionInsideKeeps, DevicesKeep DEF IInv, TypeOK
<1> QED
  BY <1>2, <1>3, <1>4, <1>5 DEF Inside

\* The invariant is inductive.
THEOREM Inductive == Spec => []IInv
<1>1. IInv /\ [Next]_vars => IInv'
  <2> SUFFICES ASSUME IInv, [Next]_vars PROVE IInv'
    OBVIOUS
  <2>1. CASE UNCHANGED vars
    <3>1. SInv' /\ outside' \in 0..MaxOutside /\ UNCHANGED avars
      BY <2>1, SessionsSame DEF vars, IInv, TypeOK
    <3> QED
      BY <3>1, DevicesKeep
  <2> QED
    BY <2>1, OutsideKeeps, InsideKeeps DEF Next
<1> QED
  BY <1>1, InitIInv, PTL DEF Spec

\* Every variable has its type: what the works, the devices and the rows hold
\* is what the code can put there.
THEOREM TypeCorrect == Spec => []TypeOK
<1>1. IInv => TypeOK
  BY DEF IInv
<1> QED
  BY <1>1, Inductive, PTL

\* A device that was signed out, by whatever removal and between whatever
\* steps, can neither refresh nor use the tokens it had, and no later step,
\* another removal included, changes that, unless it was just signing in or
\* refreshing.
THEOREM SignedOutStaysOut == Spec => RemovedStaysOut
<1> DEFINE StaysOut ==
      \A d \in Devices :
         /\ IsOut(d) => IsOut(d)' /\ removed'[d] \in {removed[d], "out"}
         /\ IsOut(d)' => /\ \A j \in Jtis : <<j, d>> \notin refresh'
                         /\ removed'[d] = "out" => ~LetIn(d)'
<1>1. IInv /\ IInv' /\ [Next]_vars => [StaysOut]_svars
  <2> SUFFICES ASSUME IInv, IInv', [Next]_vars, NEW d \in Devices
               PROVE  /\ IsOut(d) => IsOut(d)' /\ removed'[d] \in {removed[d], "out"}
                      /\ IsOut(d)' => /\ \A j \in Jtis : <<j, d>> \notin refresh'
                                      /\ removed'[d] = "out" => ~LetIn(d)'
    OBVIOUS
  <2>1. IsOut(d)' => /\ \A j \in Jtis : <<j, d>> \notin refresh'
                     /\ removed'[d] = "out" => ~LetIn(d)'
    <3>1. SInv'
      BY DEF IInv
    <3> QED
      BY <3>1 DEF SInv, OutOK, LetIn, IsOut
  <2>2. (\E k \in Removals : Exec(k)) \/ UNCHANGED <<removed, straddled>>
    <3>1. \/ SessionOutside \/ SessionInside
          \/ UNCHANGED sessionHistory
          \/ UNCHANGED svars
      BY DEF Next, Outside, Inside, vars, svars, deviceVars
    <3> QED
      BY <3>1, OthersLeaveOut DEF sessionHistory
  <2>3. CASE \E k \in Removals : Exec(k)
    BY <2>1, <2>3, ExecLeavesOut DEF IInv
  <2>4. CASE UNCHANGED <<removed, straddled>>
    BY <2>1, <2>4 DEF IsOut
  <2> QED
    BY <2>2, <2>3, <2>4
<1> QED
  BY <1>1, Inductive, PTL DEF Spec, RemovedStaysOut

\* Any number of tabs may refresh at once: the cookie the browser is left with
\* has its record.
THEOREM CookieStaysGood == Spec => []CookieIsGood
<1>1. IInv => CookieIsGood
  BY DEF IInv, SInv
<1> QED
  BY <1>1, Inductive, PTL

\* An address counts as verified only if somebody was shown to read it, in
\* whatever order verification, changes of the address, password resets and
\* closures read and write the row.
THEOREM VerifiedStaysProven == Spec => []VerifiedIsProven
<1>1. IInv => VerifiedIsProven
  BY DEF IInv, Agreed, VerifiedIsProven
<1> QED
  BY <1>1, Inductive, PTL

\* Wherever its confirmation fails, a change that was applied can be confirmed
\* again, or its way back is stored and the mail with the link to it was sent,
\* or lost, in the one attempt the code makes.
THEOREM ChangesCanBeReverted == Spec => []ChangeCanBeReverted
<1>1. IInv => ChangeCanBeReverted
  BY DEF IInv
<1> QED
  BY <1>1, Inductive, PTL

=============================================================================
