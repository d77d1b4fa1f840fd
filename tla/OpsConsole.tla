----------------------------- MODULE OpsConsole -----------------------------
(***************************************************************************)
(* The ops console in the tabs of one browser, over StaffSessions: its API *)
(* client, which renews an expired session and repeats the request, the    *)
(* session store of each tab, the guards that restore a session from the   *)
(* cookie the tabs share, signing in and signing out.  Answers may be lost *)
(* and pages left at any moment; the server then finishes on its own.      *)
(***************************************************************************)
EXTENDS StaffSessions

CONSTANTS Tabs,
          NoTab,       \* nobody is waiting for the answer
          MaxOutside   \* bound: what users, time and the network do, all told

ASSUME NoTabAssumption == NoTab \notin Tabs
ASSUME OutsideAssumption == MaxOutside \in Nat

VARIABLES
    cookie,     \* the browser's refresh cookie: a pair, 0 when there is none
    status,     \* session store of each tab
    token,      \* access token of each tab, in sessionStorage: a pair or 0
    queue,      \* tabs with a refreshInFlight: its Web Lock and who waits
    asker,      \* who waits for the answer to a request
    waits,      \* requests that were answered 401 and wait for the refresh
    again,      \* requests sent a second time
    disturbed,  \* history: an answer was lost, a page left during a refresh,
                \* or sessions were ended
    outside     \* how much came from outside

tabVars == <<status, token, queue>>
consoleVars == <<staffVars, cookie, tabVars, asker, waits, again, disturbed,
                 outside>>

ConsoleTypeOK ==
    /\ StaffTypeOK
    /\ cookie \in 0..MaxIssued
    /\ status \in [Tabs -> {"unknown", "in", "out"}]
    /\ token \in [Tabs -> 0..MaxIssued]
    /\ queue \in Seq(Tabs)
    /\ asker \in [Calls -> Tabs \cup {NoTab}]
    /\ waits \subseteq Calls /\ again \subseteq Calls
    /\ disturbed \in BOOLEAN /\ outside \in 0..MaxOutside

First == CHOOSE t \in Tabs : TRUE

\* One tab is signed in, the others as well, as copies of it, or are just being
\* opened, or were refused before it was.
ConsoleInit ==
    /\ StaffInit
    /\ cookie = 1
    /\ \E others \in {"in", "unknown", "out"} :
         status = [t \in Tabs |-> IF t = First THEN "in" ELSE others]
    /\ token = [t \in Tabs |-> IF status[t] = "in" THEN 1 ELSE 0]
    /\ queue = <<>>
    /\ asker = [c \in Calls |-> NoTab]
    /\ waits = {} /\ again = {} /\ disturbed = FALSE /\ outside = 0

Of(t) == {c \in Calls : asker[c] = t}
InQueue(t) == \E i \in DOMAIN queue : queue[i] = t
Renewing(t) == \E c \in Of(t) : call[c].kind = "refresh"
Elsewhere == UNCHANGED <<account, issued, stale, keys, staffHistory>>
Undisturbed == UNCHANGED <<disturbed, outside>>

Answered(c) == call[c].at = "answered" /\ asker[c] # NoTab
Refused(c) == call[c].at = "refused" /\ asker[c] # NoTab /\ c \notin waits

\* The request is over for the tab.
Done(c) ==
    /\ call' = [call EXCEPT ![c] = NoCall]
    /\ asker' = [asker EXCEPT ![c] = NoTab]
    /\ waits' = waits \ {c} /\ again' = again \ {c}

\* send
Send(t, kind, pair) ==
    /\ call' = [call EXCEPT ![NextCall] = Arriving(kind, pair)]
    /\ asker' = [asker EXCEPT ![NextCall] = t]
    /\ Elsewhere

--------------------------------------------------------------------------
(* Refreshing *)

\* refreshOnce: what the tab renews already it does not renew again.
RefreshOnce(t) == queue' = IF InQueue(t) THEN queue ELSE Append(queue, t)

\* Mutant: tabs refresh when they like.
UnlockedMayRefresh(t) == InQueue(t)

\* runWithWebLock: locks are granted in the order of their requests.
MayRefresh(t) == queue # <<>> /\ Head(queue) = t

\* refreshNow
RefreshNow(t) ==
    /\ MayRefresh(t) /\ ~Renewing(t) /\ Free # {}
    /\ Send(t, "refresh", cookie)
    /\ UNCHANGED <<cookie, tabVars, waits, again>> /\ Undisturbed

\* finally: no refreshInFlight any more, and the lock goes on.
Release(t) ==
    queue' = IF InQueue(t)
             THEN LET i == CHOOSE i \in DOMAIN queue : queue[i] = t
                  IN  SubSeq(queue, 1, i - 1) \o SubSeq(queue, i + 1, Len(queue))
             ELSE queue

\* A new pair: store and cookie have it, the requests that wait go out again.
Renewed(c) ==
    LET t == asker[c]  pair == call[c].pair
    IN  /\ Answered(c) /\ call[c].kind = "refresh"
        /\ cookie' = pair
        /\ token' = [token EXCEPT ![t] = pair]
        /\ status' = [status EXCEPT ![t] = "in"]
        /\ Release(t)
        /\ call' = [d \in Calls |->
                      CASE d = c -> NoCall
                        [] d \in waits \cap Of(t) -> Arriving(call[d].kind, pair)
                        [] OTHER -> call[d]]
        /\ asker' = [asker EXCEPT ![c] = NoTab]
        /\ waits' = waits \ Of(t) /\ again' = again \cup (waits \cap Of(t))
        /\ Elsewhere /\ Undisturbed

\* A request nobody waits for any more: what is over, or changes nothing, is
\* not followed further.
LeftAlone(c) == IF call[c].kind = "get" \/ call[c].at = "refused" THEN NoCall
                ELSE call[c]

\* The page of the tab is left and loaded again: the session store starts
\* from sessionStorage, and what was under way nobody waits for any more.
Load(t, kept) ==
    /\ token' = [token EXCEPT ![t] = kept]
    /\ status' = [status EXCEPT ![t] = IF kept = 0 THEN "unknown" ELSE "in"]
    /\ Release(t)
    /\ call' = [c \in Calls |-> IF c \in Of(t) THEN LeftAlone(c) ELSE call[c]]
    /\ asker' = [c \in Calls |-> IF asker[c] = t THEN NoTab ELSE asker[c]]
    /\ waits' = waits \ Of(t) /\ again' = again \ Of(t)
    /\ Elsewhere

\* Mutant: refreshInFlight keeps a refresh that failed.
StuckNotRenewed(c) ==
    /\ status' = [status EXCEPT ![asker[c]] = "out"]
    /\ Done(c)
    /\ UNCHANGED <<token, queue>> /\ Elsewhere

\* restoreSession gives up; a request that waited clears the session and goes
\* to the sign-in page.
NotRenewed(c) ==
    LET t == asker[c]
    IN  IF status[t] = "unknown"
        THEN /\ status' = [status EXCEPT ![t] = "out"]
             /\ Release(t) /\ Done(c)
             /\ UNCHANGED token /\ Elsewhere
        ELSE Load(t, 0)

RefreshRefused(c) ==
    /\ Refused(c) /\ call[c].kind = "refresh"
    /\ NotRenewed(c)
    /\ UNCHANGED cookie /\ Undisturbed

\* restoreSession, which RequireStaff and GuestOnly call.
RestoreSession(t) ==
    /\ status[t] = "unknown" /\ ~InQueue(t)
    /\ RefreshOnce(t)
    /\ UNCHANGED <<staffVars, cookie, status, token, asker, waits, again>>
    /\ Undisturbed

--------------------------------------------------------------------------
(* Requests *)

\* request, 401: with a token that is the tab's no longer, or after a refresh,
\* the request is sent once more.
Unauthorised(c) ==
    LET t == asker[c]
    IN  /\ Refused(c) /\ call[c].kind \in Guarded /\ c \notin again
        /\ IF token[t] # call[c].pair
           THEN /\ call' = [call EXCEPT ![c] = Arriving(@.kind, token[t])]
                /\ again' = again \cup {c}
                /\ UNCHANGED <<queue, waits>>
           ELSE /\ waits' = waits \cup {c}
                /\ RefreshOnce(t)
                /\ UNCHANGED <<call, again>>
        /\ UNCHANGED <<cookie, status, token, asker>>
        /\ Elsewhere /\ Undisturbed

\* An answer the caller gets, a second 401 too.
Settled(c) == Answered(c) \/ (Refused(c) /\ c \in again)

GetReturns(c) ==
    /\ Settled(c) /\ call[c].kind = "get"
    /\ Done(c)
    /\ UNCHANGED <<cookie, tabVars>> /\ Elsewhere /\ Undisturbed

\* useSignOut: whatever the answer, the tab forgets the session.
SignedOut(c) ==
    /\ Settled(c) /\ call[c].kind \in {"logout", "everywhere"}
    /\ cookie' = IF Answered(c) THEN 0 ELSE cookie
    /\ Load(asker[c], 0) /\ Undisturbed

\* LoginForm
SignedIn(c) ==
    /\ Answered(c) /\ call[c].kind = "login"
    /\ cookie' = call[c].pair
    /\ token' = [token EXCEPT ![asker[c]] = call[c].pair]
    /\ status' = [status EXCEPT ![asker[c]] = "in"]
    /\ Done(c)
    /\ UNCHANGED queue /\ Elsewhere /\ Undisturbed

\* Nobody waits: the browser may or may not take the cookie.
OrphanEnds(c) ==
    /\ asker[c] = NoTab /\ call[c].at \in {"answered", "refused"}
    /\ cookie' \in {cookie} \cup
         (IF call[c].at = "refused" THEN {}
          ELSE IF call[c].kind \in {"refresh", "login"} THEN {call[c].pair}
          ELSE IF call[c].kind \in {"logout", "everywhere"} THEN {0} ELSE {})
    /\ Done(c)
    /\ UNCHANGED tabVars /\ Elsewhere /\ Undisturbed

--------------------------------------------------------------------------
(* From outside *)

\* A screen asks for something, or somebody signs out.
Ask(t, kind) ==
    /\ status[t] = "in" /\ Cardinality(Free) > 1
    /\ Send(t, kind, token[t])
    /\ disturbed' = (disturbed \/ kind # "get")
    /\ UNCHANGED <<cookie, tabVars, waits, again>>

SignIn(t) ==
    /\ status[t] = "out" /\ Of(t) = {} /\ account = "active"
    /\ Cardinality(Free) > 1
    /\ Send(t, "login", 0)
    /\ UNCHANGED <<cookie, tabVars, waits, again, disturbed>>

\* The page is reloaded.
Leave(t) ==
    /\ Load(t, token[t])
    /\ disturbed' = (disturbed \/ Renewing(t))
    /\ UNCHANGED cookie

\* The answer does not come through; the server goes on.
Lost(c) ==
    LET t == asker[c]
        left == [call EXCEPT ![c] = LeftAlone(c)]
    IN  /\ t # NoTab /\ c \notin waits /\ disturbed' = TRUE
        /\ UNCHANGED cookie
        /\ CASE call[c].kind = "refresh" /\ status[t] = "unknown" ->
                   /\ status' = [status EXCEPT ![t] = "out"]
                   /\ Release(t) /\ call' = left
                   /\ asker' = [asker EXCEPT ![c] = NoTab]
                   /\ UNCHANGED <<token, waits, again>> /\ Elsewhere
             [] call[c].kind \in {"refresh", "logout", "everywhere"}
                /\ status[t] # "unknown" -> Load(t, 0)
             [] OTHER ->
                   /\ call' = left
                   /\ asker' = [asker EXCEPT ![c] = NoTab]
                   /\ again' = again \ {c}
                   /\ UNCHANGED <<tabVars, waits>> /\ Elsewhere

Others ==
    /\ \/ /\ Cardinality(Free) > 1
          /\ Suspend \/ RemoveStaff \/ ChangePassword
          /\ disturbed' = TRUE
       \/ /\ Reactivate \/ (\E p \in Pairs : AccessExpires(p))
                        \/ (\E d \in Pairs : BlacklistLapses(d))
          /\ UNCHANGED disturbed
    /\ UNCHANGED <<cookie, tabVars, asker, waits, again>>

FromOutside ==
    /\ outside < MaxOutside /\ outside' = outside + 1
    /\ \/ \E t \in Tabs : SignIn(t) \/ Leave(t) \/ \E kind \in Guarded : Ask(t, kind)
       \/ \E c \in Calls : Lost(c)
       \/ Others

\* What the server and the tabs do by themselves.
Serve(c) ==
    \/ CallStep(c) /\ UNCHANGED <<cookie, tabVars, asker, waits, again>> /\ Undisturbed
    \/ Renewed(c) \/ RefreshRefused(c) \/ Unauthorised(c) \/ GetReturns(c)
    \/ SignedOut(c) \/ SignedIn(c) \/ OrphanEnds(c)

Renew(t) == RestoreSession(t) \/ RefreshNow(t)

Inside == (\E c \in Calls : Serve(c)) \/ (\E t \in Tabs : Renew(t))

ConsoleNext == Inside \/ FromOutside

ConsoleSpec == ConsoleInit /\ [][ConsoleNext]_consoleVars

\* Something goes on as long as there is anything to do: Node resumes what it
\* awaits, Redis and Postgres answer, answers arrive, React runs the effects
\* of the guards, the browser grants the lock.
ConsoleFairness == WF_consoleVars(Inside)

--------------------------------------------------------------------------
(* Properties *)

\* However many requests of however many tabs meet an expired token at once,
\* each is repeated with a good one and nobody is sent to sign in, unless an
\* answer was lost, a page left in the middle or sessions were ended.
GoodSessionIsKept ==
    [][\A t \in Tabs :
         \/ status[t] = "unknown" /\ status'[t] = "out"
         \/ token[t] # 0 /\ token'[t] = 0
         => disturbed']_consoleVars

\* Again and again no tab is a loader and no request waits for a refresh, also
\* when the tab that was renewing is left or its refresh fails.
ConsoleSettles ==
    []<>(waits = {} /\ \A t \in Tabs : status[t] # "unknown")

--------------------------------------------------------------------------
(* The inductive invariant of GoodSessionIsKept *)

\* The browser and the tabs hold pairs that are out; what waits was refused.
HeldOK ==
    /\ cookie \in 0..Len(issued) /\ \A t \in Tabs : token[t] \in 0..Len(issued)
    /\ \A c \in waits : call[c].at = "refused" /\ call[c].kind \in Guarded

\* The one refresh is that of the tab that has the lock, with a token on record.
RefreshOK(c) ==
    call[c].kind = "refresh" =>
       /\ call[c].at \in {"record", "revoked", "staff", "delete", "store", "answered"}
       /\ call[c].at \in {"record", "revoked", "staff", "delete"} => call[c].pair \in records
       /\ queue # <<>> /\ asker[c] = Head(queue)
       /\ \A d \in Calls : call[d].kind = "refresh" => d = c

\* A pair that is on its way to the browser is on record, and nobody's yet.
ComingOK(c) ==
    call[c].at = "answered" /\ call[c].kind \in {"refresh", "login"} =>
       /\ call[c].pair \in records /\ call[c].pair # cookie
       /\ \A d \in Calls \ {c} : call[d].kind \in {"refresh", "login"} =>
             call[d].pair # call[c].pair

\* Nobody ended sessions, and the cookie is on record or about to be replaced.
Calm ==
    /\ account = "active" /\ \A d \in Pairs : black[d] = 0
    /\ cookie # 0
    /\ \/ cookie \in records
       \/ \E c \in Calls : call[c].kind = "refresh" /\ call[c].at \in {"store", "answered"}
    /\ \A c \in Calls : /\ call[c].kind \in {"get", "refresh", "login"}
                        /\ call[c].kind = "login" => call[c].at \in {"store", "answered"}
                        /\ call[c].at \notin Ending
                        /\ RefreshOK(c) /\ ComingOK(c)

ConsoleInv == ConsoleTypeOK /\ StaffInv /\ HeldOK /\ (~disturbed => Calm)
============================================================================
