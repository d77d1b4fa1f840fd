------------------------------ MODULE Sessions ------------------------------
(***************************************************************************)
(* Signed-in devices: the Redis records behind refresh tokens, the rotation*)
(* of a refresh token, signing out one, the other or all devices, and the  *)
(* blacklist the auth middleware asks.  AuthService, RedisService,         *)
(* JwtService and AuthMiddleware; one step ends at an await on Redis or    *)
(* Postgres.  A device id belongs to one sign-in; a refresh token has the  *)
(* name of the request that minted it.                                     *)
(***************************************************************************)
EXTENDS Naturals, FiniteSets

CONSTANTS People,      \* accounts, by id
          Devices,     \* device ids
          Requests,    \* requests to refresh
          Removals,    \* requests that sign devices out
          Owner,       \* whose sign-in a device id is
          NoJti        \* no cookie

ASSUME NoJtiAssumption == NoJti \notin Devices \cup Requests
ASSUME JtisAssumption == Devices \cap Requests = {} /\ Devices # {}
ASSUME OwnerAssumption == Owner \in [Devices -> People]

Jtis == Devices \cup Requests

VARIABLES
    barred,     \* accounts that are suspended, closed or deleted
    login,      \* each sign-in: the await it is at
    refresh,    \* REFRESH(jti): the token and the device in its record
    rtset,      \* DEVICE_RT_SET(device)
    meta,       \* DEVICE_META: devices that have one
    listed,     \* USER_DEVICES: the devices in the index of their owner
    black,      \* BL_DEVICE
    tokens,     \* unexpired access tokens: minted before or after BL_DEVICE
    cookie,     \* the refresh cookie of the device's browser
    req,        \* each request to refresh
    rm,         \* each removal
    removed,    \* history: devices a removal has got to
    straddled,  \* history: of these, those that were signing in or refreshing
    broken      \* history: devices that lost a refresh half way

keyVars == <<refresh, rtset, meta, listed, black>>
sessionHistory == <<removed, straddled, broken>>
svars == <<barred, login, keyVars, tokens, cookie, req, rm,
           sessionHistory>>

\* A refresh: before its record is read, with it in hand, after it is deleted.
Holding == {"user", "delete"}
Rotating == {"unlist", "store", "seen", "touch", "answer"}

RefreshRequest ==
    [at : {"idle", "record", "done", "refused", "failed"}
          \cup Holding \cup Rotating,
     dev : Devices, jti : Jtis \cup {NoJti}]

RemovalRequest ==
    [at : {"idle", "blacklist", "list", "members", "exec", "done", "failed"},
     who : People, todo : SUBSET Devices, ready : SUBSET Devices,
     found : SUBSET (Jtis \X Devices), kind : {"one", "others", "all"},
     bl : BOOLEAN]

SessionTypeOK ==
    /\ barred \subseteq People
    /\ login \in [Devices -> {"no", "code", "meta", "index", "refresh", "in",
                             "failed"}]
    /\ refresh \subseteq Jtis \X Devices
    /\ rtset \in [Devices -> SUBSET Jtis]
    /\ meta \subseteq Devices /\ listed \subseteq Devices
    /\ black \subseteq Devices
    /\ tokens \in [Devices -> SUBSET {"before", "after"}]
    /\ cookie \in [Devices -> Jtis \cup {NoJti}]
    /\ req \in [Requests -> RefreshRequest]
    /\ rm \in [Removals -> RemovalRequest]
    /\ removed \in [Devices -> {"no", "out", "spared"}]
    /\ straddled \subseteq Devices
    /\ broken \subseteq Devices

SessionInit ==
    /\ barred = {}
    /\ login = [d \in Devices |-> "no"]
    /\ refresh = {} /\ rtset = [d \in Devices |-> {}]
    /\ meta = {} /\ listed = {} /\ black = {}
    /\ tokens = [d \in Devices |-> {}]
    /\ cookie = [d \in Devices |-> NoJti]
    /\ req = [q \in Requests |-> [at |-> "idle", dev |-> CHOOSE d \in Devices : TRUE,
                                  jti |-> NoJti]]
    /\ rm = [k \in Removals |-> [at |-> "idle", who |-> CHOOSE u \in People : TRUE,
                                 todo |-> {}, ready |-> {}, found |-> {},
                                 kind |-> "one", bl |-> TRUE]]
    /\ removed = [d \in Devices |-> "no"]
    /\ straddled = {} /\ broken = {}

--------------------------------------------------------------------------
(* Signing in: createDeviceSession *)

\* loginService asks for a second factor if the user has one,
AskForCode(d) ==
    /\ login[d] = "no" /\ Owner[d] \notin barred
    /\ login' = [login EXCEPT ![d] = "code"]
    /\ UNCHANGED <<barred, keyVars, tokens, cookie, req, rm, sessionHistory>>

\* or lets the user in; verifyTwoFactorCode and verifyPasskeyLogin do not look
\* at the account again.  The access token is signed first.
SignIn(d) ==
    /\ login[d] = "code" \/ (login[d] = "no" /\ Owner[d] \notin barred)
    /\ login' = [login EXCEPT ![d] = "meta"]
    /\ tokens' = [tokens EXCEPT ![d] = @ \cup {"after"}]
    /\ UNCHANGED <<barred, keyVars, cookie, req, rm, sessionHistory>>

\* storeDeviceMeta: the hash ...
StoreDeviceMeta(d) ==
    /\ login[d] = "meta"
    /\ meta' = meta \cup {d}
    /\ login' = [login EXCEPT ![d] = "index"]
    /\ UNCHANGED <<barred, refresh, rtset, listed, black, tokens, cookie,
                   req, rm, sessionHistory>>

\* ... and the index.
IndexDevice(d) ==
    /\ login[d] = "index"
    /\ listed' = listed \cup {d}
    /\ login' = [login EXCEPT ![d] = "refresh"]
    /\ UNCHANGED <<barred, refresh, rtset, meta, black, tokens, cookie,
                   req, rm, sessionHistory>>

\* Mutant: the token is not added to the set of its device.
UnlistedStoreRefreshRecord(j, d) ==
    refresh' = refresh \cup {<<j, d>>} /\ UNCHANGED rtset

\* One MULTI.
StoreRefreshRecord(j, d) ==
    /\ refresh' = refresh \cup {<<j, d>>}
    /\ rtset' = [rtset EXCEPT ![d] = @ \cup {j}]

SignedIn(d) ==
    /\ login[d] = "refresh"
    /\ StoreRefreshRecord(d, d)
    /\ login' = [login EXCEPT ![d] = "in"]
    /\ cookie' = [cookie EXCEPT ![d] = d]
    /\ UNCHANGED <<barred, meta, listed, black, tokens, req, rm,
                   sessionHistory>>

SignInFails(d) ==
    /\ login[d] \in {"meta", "index", "refresh"}
    /\ login' = [login EXCEPT ![d] = "failed"]
    /\ UNCHANGED <<barred, keyVars, tokens, cookie, req, rm,
                   sessionHistory>>

--------------------------------------------------------------------------
(* refreshAccessTokenService *)

Step(q, at) == req' = [req EXCEPT ![q].at = at]

\* A tab of the browser sends the cookie; several tabs may.
Refresh(q, d) ==
    /\ req[q].at = "idle" /\ cookie[d] # NoJti
    /\ req' = [req EXCEPT ![q] = [at |-> "record", dev |-> d, jti |-> cookie[d]]]
    /\ UNCHANGED <<barred, login, keyVars, tokens, cookie, rm,
                   sessionHistory>>

\* Mutant: read and deleted at once, before the account is checked.
ConsumingGetRefreshRecord(q) ==
    /\ req[q].at = "record"
    /\ Step(q, IF <<req[q].jti, req[q].dev>> \in refresh THEN "user"
               ELSE "refused")
    /\ refresh' = refresh \ {<<req[q].jti, req[q].dev>>}
    /\ UNCHANGED <<barred, login, rtset, meta, listed, black, tokens, cookie,
                   rm, sessionHistory>>

GetRefreshRecord(q) ==
    /\ req[q].at = "record"
    /\ Step(q, IF <<req[q].jti, req[q].dev>> \in refresh THEN "user"
               ELSE "refused")
    /\ UNCHANGED <<barred, login, keyVars, tokens, cookie, rm,
                   sessionHistory>>

\* getUser and assertAccountLoginAllowed
CheckUser(q) ==
    /\ req[q].at = "user"
    /\ Step(q, IF Owner[req[q].dev] \in barred THEN "refused" ELSE "delete")
    /\ UNCHANGED <<barred, login, keyVars, tokens, cookie, rm,
                   sessionHistory>>

DeleteRefreshRecord(q) ==
    /\ req[q].at = "delete"
    /\ refresh' = refresh \ {<<req[q].jti, req[q].dev>>}
    /\ Step(q, "unlist")
    /\ UNCHANGED <<barred, login, rtset, meta, listed, black, tokens,
                   cookie, rm, sessionHistory>>

\* sRem answers, and both new tokens are signed.
SignTokens(q) ==
    LET d == req[q].dev
    IN  /\ req[q].at = "unlist"
        /\ rtset' = [rtset EXCEPT ![d] = @ \ {req[q].jti}]
        /\ tokens' = [tokens EXCEPT ![d] = @ \cup {"after"}]
        /\ Step(q, "store")
        /\ UNCHANGED <<barred, login, refresh, meta, listed, black,
                       cookie, rm, sessionHistory>>

StoreNext(q) ==
    /\ req[q].at = "store"
    /\ StoreRefreshRecord(q, req[q].dev)
    /\ Step(q, "seen")
    /\ UNCHANGED <<barred, login, meta, listed, black, tokens, cookie,
                   rm, sessionHistory>>

\* updateDeviceLastSeen: hGet, and if it found the device, hSet and zAdd.
GetDeviceMeta(q) ==
    /\ req[q].at = "seen"
    /\ Step(q, IF req[q].dev \in meta THEN "touch" ELSE "answer")
    /\ UNCHANGED <<barred, login, keyVars, tokens, cookie, rm,
                   sessionHistory>>

UpdateDeviceLastSeen(q) ==
    /\ req[q].at = "touch"
    /\ meta' = meta \cup {req[q].dev} /\ listed' = listed \cup {req[q].dev}
    /\ Step(q, "answer")
    /\ UNCHANGED <<barred, login, refresh, rtset, black, tokens, cookie,
                   rm, sessionHistory>>

\* The browser takes the new cookie, whatever it has done since it asked.
SetRefreshCookie(q) ==
    /\ req[q].at = "answer"
    /\ cookie' = [cookie EXCEPT ![req[q].dev] = q]
    /\ Step(q, "done")
    /\ UNCHANGED <<barred, login, keyVars, tokens, rm, sessionHistory>>

\* A command, the process or the connection fails.
RefreshFails(q) ==
    /\ req[q].at \in {"record"} \cup Holding \cup Rotating
    /\ broken' = IF req[q].at \in Rotating THEN broken \cup {req[q].dev}
                 ELSE broken
    /\ Step(q, "failed")
    /\ UNCHANGED <<barred, login, keyVars, tokens, cookie, rm, removed,
                   straddled>>

--------------------------------------------------------------------------
(* Signing devices out *)

Todo(k, job) == rm[k].at = "idle" /\ rm' = [rm EXCEPT ![k] = job]

Removal(who, kind, at, todo, bl) ==
    [at |-> at, who |-> who, todo |-> todo, ready |-> {}, found |-> {},
     kind |-> kind, bl |-> bl]

\* logoutService blacklists the device, then removes it as revokeDevice does;
\* removeOtherDevices (the password or the address was changed) and
\* removeAllDevices ask the index first.
Logout(k, d) == Todo(k, Removal(Owner[d], "one", "blacklist", {d}, TRUE))
RevokeDevice(k, d, bl) == Todo(k, Removal(Owner[d], "one", "members", {d}, bl))
RemoveOtherDevices(k, u, d) == Todo(k, Removal(u, "others", "list", {d}, TRUE))
RemoveAllDevices(k, u) == Todo(k, Removal(u, "all", "list", {}, TRUE))

SignOut(k) ==
    /\ \/ \E d \in Devices : /\ login[d] = "in"
                             /\ \/ Logout(k, d)
                                \/ \E bl \in BOOLEAN : RevokeDevice(k, d, bl)
       \/ \E u \in People : RemoveAllDevices(k, u)
    /\ UNCHANGED <<barred, login, keyVars, tokens, cookie, req,
                   sessionHistory>>

\* The access tokens a device has were minted before this entry and expire
\* before it does: both live JWT_ACCESS_TTL_MIN.
Blacklist(ds) ==
    /\ black' = black \cup ds
    /\ tokens' = [d \in Devices |-> IF d \in ds /\ tokens[d] # {}
                                    THEN {"before"} ELSE tokens[d]]

BlacklistDevice(k) ==
    /\ rm[k].at = "blacklist"
    /\ Blacklist(rm[k].todo)
    /\ rm' = [rm EXCEPT ![k].at = "members"]
    /\ UNCHANGED <<barred, login, refresh, rtset, meta, listed, cookie,
                   req, sessionHistory>>

\* zRange: for the others, all but the one that asks.
ListDevices(k) ==
    LET todo == {d \in listed : Owner[d] = rm[k].who} \ rm[k].todo
    IN  /\ rm[k].at = "list"
        /\ rm' = [rm EXCEPT ![k].todo = todo,
                            ![k].at = IF todo = {} THEN "done" ELSE "members"]
        /\ UNCHANGED <<barred, login, keyVars, tokens, cookie, req,
                       sessionHistory>>

\* sMembers of one device after the other; removeAllDevices gathers them all.
ListTokens(k) ==
    /\ rm[k].at = "members"
    /\ \E d \in rm[k].todo :
         rm' = [rm EXCEPT ![k].todo = @ \ {d},
                          ![k].ready = @ \cup {d},
                          ![k].found = @ \cup (rtset[d] \X {d}),
                          ![k].at = IF rm[k].kind = "all" /\ rm[k].todo # {d}
                                    THEN "members" ELSE "exec"]
    /\ UNCHANGED <<barred, login, keyVars, tokens, cookie, req,
                   sessionHistory>>

\* A sign-in or a refresh of the device is about to store a record.
Busy(d) ==
    \/ login[d] \in {"meta", "index", "refresh"}
    \/ \E q \in Requests : /\ req[q].dev = d
                            /\ req[q].at \in Holding \cup {"unlist", "store"}

\* The MULTI: of the tokens only those that sMembers found go, of a device with
\* any the whole set, and with all devices the index.
Exec(k) ==
    LET ds == rm[k].ready
        out == IF rm[k].bl THEN "out" ELSE "spared"
    IN  /\ rm[k].at = "exec"
        /\ refresh' = refresh \ rm[k].found
        /\ rtset' = [d \in Devices |-> IF \E f \in rm[k].found : f[2] = d
                                       THEN {} ELSE rtset[d]]
        /\ meta' = meta \ ds
        /\ listed' = IF rm[k].kind = "all"
                     THEN {d \in listed : Owner[d] # rm[k].who} ELSE listed \ ds
        /\ IF rm[k].bl THEN Blacklist(ds) ELSE UNCHANGED <<black, tokens>>
        /\ removed' = [d \in Devices |-> IF d \in ds /\ removed[d] # "out"
                                         THEN out ELSE removed[d]]
        /\ straddled' = straddled \cup
             {d \in ds : Busy(d) \/ ~(rtset[d] \X {d} \subseteq rm[k].found)}
        /\ rm' = [rm EXCEPT ![k].ready = {}, ![k].found = {},
                            ![k].at = IF rm[k].todo = {} THEN "done"
                                      ELSE "members"]
        /\ UNCHANGED <<barred, login, cookie, req, broken>>

RemovalFails(k) ==
    /\ rm[k].at \in {"blacklist", "list", "members", "exec"}
    /\ rm' = [rm EXCEPT ![k].at = "failed"]
    /\ UNCHANGED <<barred, login, keyVars, tokens, cookie, req,
                   sessionHistory>>

--------------------------------------------------------------------------
(* Time *)

\* An entry outlives the tokens minted before it.
BlacklistExpires(d) ==
    /\ d \in black /\ "before" \notin tokens[d]
    /\ black' = black \ {d}
    /\ UNCHANGED <<barred, login, refresh, rtset, meta, listed, tokens,
                   cookie, req, rm, sessionHistory>>

AccessExpires(d, t) ==
    /\ t \in tokens[d]
    /\ tokens' = [tokens EXCEPT ![d] = @ \ {t}]
    /\ UNCHANGED <<barred, login, keyVars, cookie, req, rm,
                   sessionHistory>>

\* Record and cookie are given the same lifetime, days longer than an answer
\* takes.
RefreshExpires(r) ==
    /\ r \in refresh
    /\ r[1] \in Requests => req[r[1]].at \notin {"seen", "touch", "answer"}
    /\ refresh' = refresh \ {r}
    /\ cookie' = [cookie EXCEPT ![r[2]] = IF @ = r[1] THEN NoJti ELSE @]
    /\ UNCHANGED <<barred, login, rtset, meta, listed, black, tokens,
                   req, rm, sessionHistory>>

\* Their lifetimes start with a sign-in, and refreshing does not prolong them.
MetaExpires(d) ==
    /\ d \in meta
    /\ meta' = meta \ {d}
    /\ UNCHANGED <<barred, login, refresh, rtset, listed, black, tokens,
                   cookie, req, rm, sessionHistory>>

IndexExpires(u) ==
    /\ listed' = {d \in listed : Owner[d] # u}
    /\ UNCHANGED <<barred, login, refresh, rtset, meta, black, tokens,
                   cookie, req, rm, sessionHistory>>

--------------------------------------------------------------------------

SessionOutside ==
    \/ \E d \in Devices : AskForCode(d) \/ SignIn(d) \/ SignInFails(d)
                          \/ MetaExpires(d)
    \/ \E q \in Requests : RefreshFails(q) \/ \E d \in Devices : Refresh(q, d)
    \/ \E k \in Removals : SignOut(k) \/ RemovalFails(k)
    \/ \E u \in People : IndexExpires(u)
    \/ \E r \in refresh : RefreshExpires(r)

SessionInside ==
    \/ \E d \in Devices : \/ StoreDeviceMeta(d) \/ IndexDevice(d) \/ SignedIn(d)
                          \/ BlacklistExpires(d)
                          \/ \E t \in {"before", "after"} : AccessExpires(d, t)
    \/ \E q \in Requests :
         \/ GetRefreshRecord(q) \/ CheckUser(q) \/ DeleteRefreshRecord(q)
         \/ SignTokens(q) \/ StoreNext(q) \/ GetDeviceMeta(q)
         \/ UpdateDeviceLastSeen(q) \/ SetRefreshCookie(q)
    \/ \E k \in Removals : \/ BlacklistDevice(k) \/ ListDevices(k)
                           \/ ListTokens(k) \/ Exec(k)

--------------------------------------------------------------------------
(* Properties *)

\* AuthMiddleware lets a request of the device through.
LetIn(d) == tokens[d] # {} /\ d \notin black

\* Removed, and neither signing in nor refreshing at the moment.
IsOut(d) == removed[d] # "no" /\ d \notin straddled

\* A device that was signed out can neither refresh nor use the access tokens
\* it had, now or ever after, unless it was signing in or refreshing at the
\* moment it was removed (or was revoked without the blacklist: then until its
\* access token expires).
RemovedStaysOut ==
    [][\A d \in Devices :
          /\ IsOut(d) => IsOut(d)' /\ removed'[d] \in {removed[d], "out"}
          /\ IsOut(d)' => /\ \A j \in Jtis : <<j, d>> \notin refresh'
                          /\ removed'[d] = "out" => ~LetIn(d)']_svars

\* However many tabs refresh at once, and in whatever order the answers come,
\* the browser is left with a cookie that works: the record of a cookie is
\* gone only if the device was signed out, a refresh with this cookie is under
\* way or one failed half way.
CookieIsGood ==
    \A d \in Devices :
        \/ cookie[d] = NoJti \/ <<cookie[d], d>> \in refresh
        \/ removed[d] # "no" \/ d \in broken
        \/ \E q \in Requests : /\ req[q].dev = d /\ req[q].jti = cookie[d]
                               /\ req[q].at \in Rotating
============================================================================
