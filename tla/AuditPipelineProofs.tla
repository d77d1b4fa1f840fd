------------------------- MODULE AuditPipelineProofs -------------------------
(***************************************************************************)
(* Proofs about AuditPipeline, for every set of events, every number of    *)
(* retries and every number of crashes and lost connections: no event      *)
(* vanishes silently, and none is tried more often than its ladder has     *)
(* rungs.                                                                  *)
(***************************************************************************)
EXTENDS AuditPipeline, TLAPS

\* With a handler: delivered and neither settled nor sent back.
Active(c) == c.at \in {"storing", "stored", "acked"}

\* How far up the ladder a copy says its event is: its counter and the attempt
\* being made, or the end, where a republished event is dead.
Rungs(c) == IF c.raw /\ c.at = "dead" THEN RetryAttempts + 1
            ELSE GetRetryCount(c) + (IF Active(c) THEN 1 ELSE 0)

\* What the place and the fields of a copy say about its event.  The client
\* has published it as often as the copy says, and once more when the copy is
\* not in its buffer; only a handler that failed sends an event back, after it
\* has logged it; only the dead letter exchange leaves a death.
CopyOK(c) ==
    /\ c.no <= losses
    /\ c.at # "buffer" => c.ev \in accepted
    /\ c.at = "buffer" => \A n \in c.no..MaxLosses : attempts[<<c.ev, n>>] = 0
    /\ c.raw \/ c.at = "acked" => c.ev \in logged
    /\ c.at = "stored" => c.ev \in stored
    /\ c.at = "acked" => GetRetryCount(c) < RetryAttempts
    /\ c.at = "retry" => c.raw
    /\ c.at \in {"buffer", "main"} \/ (Active(c) /\ c.from = "main")
       => c.deaths = 0
    /\ c.raw => c.deaths = 0
    /\ attempts[Publication(c)] <= losses + Rungs(c)

CopiesOK == \A c \in copies : CopyOK(c)

\* What was published once is in one place, and what the client still holds
\* comes after all it has published.
Apart ==
    \A c, d \in copies : c.ev = d.ev /\ c # d =>
        c.no # d.no /\ (c.at = "buffer" => d.no < c.no)

\* Nothing is tried before the broker has it.
Untried == \A p \in Publications : p[1] \notin accepted => attempts[p] = 0

\* What a handler without a connection wrote is there.
AdriftOK == \A h \in adrift : h.msg.at = "stored" => h.msg.ev \in stored

IInv == /\ TypeOK /\ Apart /\ CopiesOK /\ Untried /\ AdriftOK
        /\ Accounted /\ AttemptsBounded

--------------------------------------------------------------------------

LEMMA InitIInv == Init => IInv
<1> SUFFICES ASSUME Init PROVE IInv
  OBVIOUS
<1>1. TypeOK
  BY MaxLossesAssumption DEF Init, TypeOK
<1>2. Apart /\ CopiesOK /\ Untried /\ AdriftOK /\ Accounted
  BY DEF Init, Apart, CopiesOK, Untried, AdriftOK, Accounted
<1>3. AttemptsBounded
  BY RetryAttemptsAssumption DEF Init, AttemptsBounded
<1> QED
  BY <1>1, <1>2, <1>3 DEF IInv

\* A step that moves or removes one copy leaves the others alone: what has to
\* be shown is what holds of the copy that takes its place.
LEMMA Replacement ==
    ASSUME TypeOK, Apart, CopiesOK, NEW c \in copies, NEW new \in SUBSET Copy,
           Replace(c, new),
           \A n \in new : /\ n.ev = c.ev /\ n.no = c.no /\ CopyOK(n)'
                          /\ n.at = "buffer" => c.at = "buffer",
           \A n, m \in new : n = m,
           stored \subseteq stored', logged \subseteq logged',
           accepted \subseteq accepted',
           \A p \in Publications :
               p # Publication(c) => attempts'[p] = attempts[p],
           losses' = losses
    PROVE  /\ copies' \subseteq Copy
           /\ Apart' /\ CopiesOK'
           /\ \A e \in Events \ {c.ev} : InFlight(e) => InFlight(e)'
           /\ \A n \in new : n.at # "buffer" => InFlight(c.ev)'
<1>1. copies' = (copies \ {c}) \cup new /\ copies \subseteq Copy
  BY DEF Replace, TypeOK
<1>2. Apart'
  BY <1>1 DEF Apart
<1>3. ASSUME NEW d \in copies, d # c PROVE CopyOK(d)'
  <2>1. d \in Copy /\ CopyOK(d)
    BY <1>1 DEF CopiesOK
  <2>2. /\ d.ev \in Events /\ d.no \in 0..MaxLosses /\ c.no \in 0..MaxLosses
    BY <1>1 DEF Copy
  <2>3. Publication(d) \in Publications /\ Publication(d) # Publication(c)
    BY <1>3, <2>2 DEF Apart, Publication, Publications
  <2>4. ASSUME d.at = "buffer", NEW n \in d.no..MaxLosses
        PROVE  <<d.ev, n>> \in Publications /\ <<d.ev, n>> # Publication(c)
    <3>1. n \in 0..MaxLosses
      BY <2>2, MaxLossesAssumption
    <3>2. c.ev = d.ev => c.no < d.no
      BY <1>3, <2>4 DEF Apart
    <3>3. ~(c.ev = d.ev /\ n = c.no)
      BY <2>2, <3>2, MaxLossesAssumption
    <3> QED
      BY <2>2, <3>1, <3>3 DEF Publication, Publications
  <2>5. /\ attempts'[Publication(d)] = attempts[Publication(d)]
        /\ d.at = "buffer" => \A n \in d.no..MaxLosses :
                                  attempts'[<<d.ev, n>>] = attempts[<<d.ev, n>>]
    BY <2>3, <2>4
  <2> QED
    BY <2>1, <2>5 DEF CopyOK, Publication, Rungs, Active, GetRetryCount
<1>4. CopiesOK'
  BY <1>1, <1>3 DEF CopiesOK
<1>5. \A e \in Events \ {c.ev} : InFlight(e) => InFlight(e)'
  BY <1>1 DEF InFlight
<1>6. \A n \in new : n.at # "buffer" => InFlight(c.ev)'
  BY <1>1 DEF InFlight
<1> QED
  BY <1>1, <1>2, <1>4, <1>5, <1>6

LEMMA PublishStep ==
    ASSUME IInv, NEW c \in copies, Publish(c) PROVE IInv'
<1> DEFINE n == [c EXCEPT !.at = "main"]
<1>1. c \in Copy /\ CopyOK(c) /\ c.at = "buffer"
  BY DEF IInv, TypeOK, CopiesOK, Publish
<1>2. /\ n \in Copy /\ n.ev = c.ev /\ n.no = c.no
      /\ n.at = "main" /\ n.raw = c.raw
      /\ n.header = c.header /\ n.deaths = c.deaths
  BY <1>1 DEF Copy, Places
<1>3. /\ Replace(c, {n}) /\ accepted' = accepted \cup {c.ev}
      /\ UNCHANGED <<net, adrift, stored, logged, reply, expired, attempts,
                     losses>>
  BY DEF Publish
<1> HIDE DEF n
<1>4. CopyOK(n)'
  BY <1>1, <1>2, <1>3 DEF CopyOK, Publication, Rungs, Active, GetRetryCount
<1>5. /\ copies' \subseteq Copy /\ Apart' /\ CopiesOK' /\ InFlight(c.ev)'
      /\ \A e \in Events \ {c.ev} : InFlight(e) => InFlight(e)'
  BY <1>2, <1>3, <1>4, Replacement DEF IInv
<1>6. TypeOK'
  BY <1>1, <1>3, <1>5 DEF IInv, TypeOK, Copy
<1>7. Accounted'
  BY <1>3, <1>5 DEF IInv, Accounted, TypeOK
<1> QED
  BY <1>3, <1>5, <1>6, <1>7 DEF IInv, Untried, AdriftOK, AttemptsBounded

LEMMA RetryDelayEndsStep ==
    ASSUME IInv, NEW c \in copies, RetryDelayEnds(c) PROVE IInv'
<1> DEFINE n == [c EXCEPT !.at = "main"]
<1>1. c \in Copy /\ CopyOK(c) /\ c.at = "retry"
  BY DEF IInv, TypeOK, CopiesOK, RetryDelayEnds
<1>2. /\ n \in Copy /\ n.ev = c.ev /\ n.no = c.no /\ n.at = "main"
      /\ n.raw = c.raw /\ n.header = c.header
      /\ n.deaths = c.deaths
  BY <1>1 DEF Copy, Places
<1>3. /\ Replace(c, {n})
      /\ UNCHANGED <<net, adrift, stored, logged, reply, accepted, expired,
                     attempts, losses>>
  BY <1>1 DEF RetryDelayEnds
<1> HIDE DEF n
<1>4. CopyOK(n)'
  BY <1>1, <1>2, <1>3, RetryAttemptsAssumption
     DEF CopyOK, Publication, Rungs, Active, GetRetryCount, IInv, TypeOK, Copy
<1>5. /\ copies' \subseteq Copy /\ Apart' /\ CopiesOK' /\ InFlight(c.ev)'
      /\ \A e \in Events \ {c.ev} : InFlight(e) => InFlight(e)'
  BY <1>1, <1>2, <1>3, <1>4, Replacement DEF IInv, TypeOK, Copy
<1>6. TypeOK'
  BY <1>1, <1>3, <1>5 DEF IInv, TypeOK, Copy
<1>7. Accounted'
  BY <1>1, <1>3, <1>5 DEF IInv, Accounted, TypeOK
<1>8. Untried' /\ AdriftOK' /\ AttemptsBounded'
  BY <1>1, <1>3
     DEF IInv, Untried, AdriftOK, AttemptsBounded, CopyOK, TypeOK, Copy
<1> QED
  BY <1>5, <1>6, <1>7, <1>8 DEF IInv

LEMMA DeliverStep ==
    ASSUME IInv, NEW c \in copies, Deliver(c) PROVE IInv'
<1> DEFINE n == [c EXCEPT !.at = "storing", !.from = c.at]
<1>1. c \in Copy /\ CopyOK(c) /\ c.at \in {"main", "dead"}
      /\ ~(c.raw /\ c.at = "dead")
  BY DEF IInv, TypeOK, CopiesOK, Deliver, Handler
<1>2. /\ n \in Copy /\ n.ev = c.ev /\ n.no = c.no
      /\ n.at = "storing" /\ n.from = c.at
      /\ n.raw = c.raw /\ n.header = c.header
      /\ n.deaths = c.deaths
  BY <1>1 DEF Copy, Places
<1>3. /\ Replace(c, {n})
      /\ attempts' = [attempts EXCEPT ![Publication(c)] = @ + 1]
      /\ UNCHANGED <<net, adrift, stored, logged, reply, accepted, expired,
                     losses>>
  BY <1>1 DEF Deliver, Handler
<1> HIDE DEF n
<1>4. /\ Publication(n) = Publication(c) /\ Publication(c) \in Publications
      /\ losses \in Nat /\ attempts \in [Publications -> Nat]
  BY <1>1, <1>2, MaxLossesAssumption
     DEF Publication, Publications, Copy, IInv, TypeOK
<1>5. /\ attempts'[Publication(c)] = attempts[Publication(c)] + 1
      /\ \A p \in Publications : p # Publication(c) => attempts'[p] = attempts[p]
      /\ attempts[Publication(c)] \in Nat
      /\ attempts' \in [Publications -> Nat]
  BY <1>3, <1>4
<1>6. GetRetryCount(c) \in Nat /\ attempts[Publication(c)] <= losses + Rungs(c)
  BY <1>1, RetryAttemptsAssumption DEF GetRetryCount, Copy, CopyOK
<1>7. CopyOK(n)'
  <2>1. Rungs(n) = GetRetryCount(c) + 1 /\ Rungs(c) = GetRetryCount(c)
    BY <1>1, <1>2, <1>6 DEF Rungs, Active, GetRetryCount
  <2>2. attempts'[Publication(c)] <= losses + Rungs(n)
    BY <1>4, <1>5, <1>6, <2>1
  <2> QED
    BY <1>1, <1>2, <1>3, <1>4, <2>2
       DEF CopyOK, Publication, Rungs, Active, GetRetryCount
<1>8. /\ copies' \subseteq Copy /\ Apart' /\ CopiesOK' /\ InFlight(c.ev)'
      /\ \A e \in Events \ {c.ev} : InFlight(e) => InFlight(e)'
  BY <1>1, <1>2, <1>3, <1>5, <1>7, Replacement DEF IInv
<1>9. TypeOK'
  BY <1>1, <1>3, <1>5, <1>8 DEF IInv, TypeOK, Copy
<1>10. Accounted'
  BY <1>1, <1>3, <1>8 DEF IInv, Accounted, TypeOK
<1>11. Untried' /\ AdriftOK'
  <2>1. c.ev \in accepted /\ Publication(c)[1] = c.ev
    BY <1>1 DEF CopyOK, Publication
  <2> QED
    BY <1>3, <1>5, <2>1 DEF IInv, Untried, AdriftOK
<1>12. AttemptsBounded'
  <2>1. attempts[Publication(c)] <= losses + RetryAttempts
    BY <1>1, <1>4, <1>6, RetryAttemptsAssumption
       DEF CopyOK, Rungs, Active, GetRetryCount, Copy
  <2> QED
    BY <1>3, <1>4, <1>5, <2>1, RetryAttemptsAssumption
       DEF IInv, AttemptsBounded
<1> QED
  BY <1>8, <1>9, <1>10, <1>11, <1>12 DEF IInv

LEMMA CreateStep ==
    ASSUME IInv, NEW c \in copies, Create(c) PROVE IInv'
<1> DEFINE n == [c EXCEPT !.at = "stored"]
<1>1. c \in Copy /\ CopyOK(c) /\ c.at = "storing"
  BY DEF IInv, TypeOK, CopiesOK, Create
<1>2. /\ n \in Copy /\ n.ev = c.ev /\ n.no = c.no
      /\ n.at = "stored" /\ n.from = c.from
      /\ n.raw = c.raw /\ n.header = c.header
      /\ n.deaths = c.deaths
  BY <1>1 DEF Copy, Places
<1>3. /\ Replace(c, {n})
      /\ stored' = stored \cup {c.ev}
      /\ UNCHANGED <<net, adrift, logged, reply, accepted, expired, attempts,
                     losses>>
  BY <1>1 DEF Create
<1> HIDE DEF n
<1>4. CopyOK(n)'
  BY <1>1, <1>2, <1>3, RetryAttemptsAssumption
     DEF CopyOK, Publication, Rungs, Active, GetRetryCount, IInv, TypeOK, Copy
<1>5. /\ copies' \subseteq Copy /\ Apart' /\ CopiesOK' /\ InFlight(c.ev)'
      /\ \A e \in Events \ {c.ev} : InFlight(e) => InFlight(e)'
  BY <1>1, <1>2, <1>3, <1>4, Replacement DEF IInv, TypeOK, Copy
<1>6. TypeOK'
  BY <1>1, <1>3, <1>5 DEF IInv, TypeOK, Copy
<1>7. Accounted'
  BY <1>1, <1>3, <1>5 DEF IInv, Accounted, TypeOK
<1>8. Untried' /\ AdriftOK' /\ AttemptsBounded'
  BY <1>1, <1>3
     DEF IInv, Untried, AdriftOK, AttemptsBounded, CopyOK, TypeOK, Copy
<1> QED
  BY <1>5, <1>6, <1>7, <1>8 DEF IInv

LEMMA AckStep ==
    ASSUME IInv, NEW c \in copies, Ack(c) PROVE IInv'
<1>1. c \in Copy /\ CopyOK(c) /\ c.at = "stored"
  BY DEF IInv, TypeOK, CopiesOK, Ack
<1>2. Replace(c, {}) /\ Answer(c, "yes")
      /\ UNCHANGED <<net, adrift, stored, logged, accepted, expired, attempts,
                     losses>>
  BY DEF Ack
<1>3. /\ copies' \subseteq Copy /\ Apart' /\ CopiesOK'
      /\ \A e \in Events \ {c.ev} : InFlight(e) => InFlight(e)'
  BY <1>1, <1>2, Replacement DEF IInv, TypeOK, Copy
<1>4. TypeOK'
  BY <1>1, <1>2, <1>3 DEF IInv, TypeOK, Copy, Answer
<1>5. Accounted'
  BY <1>1, <1>2, <1>3 DEF IInv, Accounted, TypeOK, CopyOK, Answer
<1> QED
  BY <1>2, <1>3, <1>4, <1>5 DEF IInv, Untried, AdriftOK, AttemptsBounded

LEMMA HandleDeadLetterStep ==
    ASSUME IInv, NEW c \in copies, HandleDeadLetter(c) PROVE IInv'
<1>1. c \in Copy /\ CopyOK(c) /\ c.at = "dead"
  BY DEF IInv, TypeOK, CopiesOK, HandleDeadLetter
<1>2. Replace(c, {}) /\ logged' = logged \cup {c.ev}
      /\ UNCHANGED <<net, adrift, stored, reply, accepted, expired, attempts,
                     losses>>
  BY DEF HandleDeadLetter
<1>3. /\ copies' \subseteq Copy /\ Apart' /\ CopiesOK'
      /\ \A e \in Events \ {c.ev} : InFlight(e) => InFlight(e)'
  BY <1>1, <1>2, Replacement DEF IInv, TypeOK, Copy
<1>4. TypeOK'
  BY <1>1, <1>2, <1>3 DEF IInv, TypeOK, Copy
<1>5. Accounted'
  BY <1>1, <1>2, <1>3 DEF IInv, Accounted, TypeOK, CopyOK
<1> QED
  BY <1>2, <1>3, <1>4, <1>5 DEF IInv, Untried, AdriftOK, AttemptsBounded

LEMMA EmitTimesOutStep ==
    ASSUME IInv, NEW c \in copies, EmitTimesOut(c) PROVE IInv'
<1>1. c \in Copy /\ CopyOK(c) /\ c.at = "buffer"
  BY DEF IInv, TypeOK, CopiesOK, EmitTimesOut
<1>2. /\ Replace(c, {c}) \/ Replace(c, {})
      /\ logged' = logged \cup {c.ev}
      /\ UNCHANGED <<net, adrift, stored, reply, accepted, expired, attempts,
                     losses>>
  BY DEF EmitTimesOut, Replace
<1>3. CopyOK(c)'
  BY <1>1, <1>2 DEF CopyOK, Publication, Rungs, Active, GetRetryCount
<1>4. /\ copies' \subseteq Copy /\ Apart' /\ CopiesOK'
      /\ \A e \in Events \ {c.ev} : InFlight(e) => InFlight(e)'
  <2>1. CASE Replace(c, {})
    BY <1>1, <1>2, <2>1, Replacement DEF IInv, TypeOK, Copy
  <2>2. CASE Replace(c, {c})
    BY <1>1, <1>2, <1>3, <2>2, Replacement DEF IInv, TypeOK, Copy
  <2> QED
    BY <1>2, <2>1, <2>2
<1>5. TypeOK'
  BY <1>1, <1>2, <1>4 DEF IInv, TypeOK, Copy
<1>6. Accounted'
  BY <1>1, <1>2, <1>4 DEF IInv, Accounted, TypeOK, CopyOK
<1> QED
  BY <1>2, <1>4, <1>5, <1>6 DEF IInv, Untried, AdriftOK, AttemptsBounded

\* Giving a copy up: it is dead, or gone.
LEMMA GiveUp ==
    ASSUME TypeOK, NEW c \in copies, CopyOK(c), c.at # "retry", c.at # "buffer",
           NEW queue \in {"main", "dead"},
           queue = "main" => c.at = "main" \/ (Active(c) /\ c.from = "main")
    PROVE  /\ DeadLettered(c, queue) \in SUBSET Copy
           /\ queue = "main" /\ net.dlx => DeadLettered(c, queue) # {}
           /\ \A n, m \in DeadLettered(c, queue) : n = m
           /\ \A n \in DeadLettered(c, queue) :
                /\ n.ev = c.ev /\ n.no = c.no /\ n.at = "dead" /\ n.raw = c.raw
                /\ n.deaths = (IF c.raw THEN 0 ELSE 1)
                /\ n.header = c.header
                /\ attempts[Publication(c)] <= losses + Rungs(n)
<1> DEFINE n == [c EXCEPT !.at = "dead", !.from = "main",
                          !.deaths = IF c.raw THEN 0 ELSE 1]
<1>1. c \in Copy
  BY DEF TypeOK
<1>2. /\ n \in Copy /\ n.ev = c.ev /\ n.no = c.no
      /\ n.at = "dead" /\ n.raw = c.raw
      /\ n.deaths = (IF c.raw THEN 0 ELSE 1) /\ n.header = c.header
  <2>1. n \in Copy
    <3>1. (IF c.raw THEN 0 ELSE 1) \in 0..1
      OBVIOUS
    <3> QED
      BY <1>1, <3>1, Zenon DEF Copy, Places
  <2>2. /\ n.ev = c.ev /\ n.no = c.no /\ n.at = "dead" /\ n.raw = c.raw
        /\ n.deaths = (IF c.raw THEN 0 ELSE 1) /\ n.header = c.header
    BY <1>1 DEF Copy
  <2> QED
    BY <2>1, <2>2
<1>3. DeadLettered(c, queue) = IF queue = "main" /\ net.dlx THEN {n} ELSE {}
  BY DEF DeadLettered
<1> HIDE DEF n
<1>4. ASSUME queue = "main" PROVE attempts[Publication(c)] <= losses + Rungs(n)
  <2>1. /\ losses \in Nat /\ attempts[Publication(c)] \in Nat
        /\ c.header \in 0..RetryAttempts
    BY <1>1, MaxLossesAssumption DEF TypeOK, Copy, Publication, Publications
  <2>2. CASE c.raw
    <3>1. attempts[Publication(c)] <= losses + c.header + 1
      BY <1>1, <1>4, <2>1, <2>2
         DEF CopyOK, Publication, Rungs, Active, GetRetryCount, Copy
    <3> QED
      BY <1>2, <2>1, <2>2, <3>1, RetryAttemptsAssumption DEF Rungs
  <2>3. CASE ~c.raw
    <3>1. attempts[Publication(c)] <= losses + 1
      BY <1>1, <1>4, <2>1, <2>3
         DEF CopyOK, Publication, Rungs, Active, GetRetryCount, Copy
    <3> QED
      BY <1>2, <2>1, <2>3, <3>1 DEF Rungs, GetRetryCount, Active
  <2> QED
    BY <2>2, <2>3
<1> QED
  BY <1>2, <1>3, <1>4

LEMMA MessageExpiresStep ==
    ASSUME IInv, NEW c \in copies, MessageExpires(c) PROVE IInv'
<1> DEFINE new == DeadLettered(c, "main")
<1>1. c \in Copy /\ CopyOK(c) /\ c.at = "main"
  BY DEF IInv, TypeOK, CopiesOK, MessageExpires
<1>2. /\ Replace(c, new)
      /\ expired' = IF net.dlx THEN expired ELSE expired \cup {c.ev}
      /\ UNCHANGED <<net, adrift, stored, logged, reply, accepted, attempts,
                     losses>>
  BY DEF MessageExpires
<1>3. /\ new \in SUBSET Copy /\ (net.dlx => new # {})
      /\ \A n, m \in new : n = m
      /\ \A n \in new : /\ n.ev = c.ev /\ n.no = c.no
                        /\ n.at = "dead" /\ n.raw = c.raw
                        /\ n.deaths = (IF c.raw THEN 0 ELSE 1)
                        /\ attempts[Publication(c)] <= losses + Rungs(n)
  BY <1>1, GiveUp DEF IInv
<1> HIDE DEF new
<1>4. \A n \in new : /\ n.ev = c.ev /\ n.no = c.no
                     /\ n.at # "buffer" /\ CopyOK(n)'
  BY <1>1, <1>2, <1>3 DEF CopyOK, Publication, Rungs, Active, GetRetryCount
<1>5. /\ copies' \subseteq Copy /\ Apart' /\ CopiesOK'
      /\ \A e \in Events \ {c.ev} : InFlight(e) => InFlight(e)'
      /\ \A n \in new : n.at # "buffer" => InFlight(c.ev)'
  BY <1>1, <1>2, <1>3, <1>4, Replacement DEF IInv, TypeOK, Copy
<1>6. TypeOK'
  BY <1>1, <1>2, <1>5 DEF IInv, TypeOK, Copy
<1>7. Accounted'
  BY <1>1, <1>2, <1>3, <1>5 DEF IInv, Accounted, TypeOK, Copy
<1> QED
  BY <1>2, <1>5, <1>6, <1>7 DEF IInv, Untried, AdriftOK, AttemptsBounded

LEMMA UnroutedStep ==
    ASSUME IInv, NEW c \in copies, Unrouted(c) PROVE IInv'
<1> DEFINE new == DeadLettered(c, c.at)
<1>1. c \in Copy /\ CopyOK(c) /\ c.at \in {"main", "dead"} /\ c.raw
  BY DEF IInv, TypeOK, CopiesOK, Unrouted, Handler
<1>2. /\ Replace(c, new)
      /\ UNCHANGED <<net, adrift, stored, logged, reply, accepted, expired,
                     attempts, losses>>
  BY DEF Unrouted
<1>3. /\ new \in SUBSET Copy
      /\ \A n, m \in new : n = m
      /\ \A n \in new : /\ n.ev = c.ev /\ n.no = c.no
                        /\ n.at = "dead" /\ n.raw = c.raw
                        /\ n.deaths = (IF c.raw THEN 0 ELSE 1)
                        /\ attempts[Publication(c)] <= losses + Rungs(n)
  <2>1. CASE c.at = "main"
    BY <1>1, <2>1, GiveUp DEF IInv
  <2>2. CASE c.at = "dead"
    BY <2>2 DEF DeadLettered
  <2> QED
    BY <1>1, <2>1, <2>2
<1> HIDE DEF new
<1>4. \A n \in new : /\ n.ev = c.ev /\ n.no = c.no
                     /\ n.at # "buffer" /\ CopyOK(n)'
  BY <1>1, <1>2, <1>3 DEF CopyOK, Publication, Rungs, Active, GetRetryCount
<1>5. /\ copies' \subseteq Copy /\ Apart' /\ CopiesOK'
      /\ \A e \in Events \ {c.ev} : InFlight(e) => InFlight(e)'
  BY <1>1, <1>2, <1>3, <1>4, Replacement DEF IInv, TypeOK, Copy
<1>6. TypeOK'
  BY <1>1, <1>2, <1>5 DEF IInv, TypeOK, Copy
<1>7. Accounted'
  BY <1>1, <1>2, <1>5 DEF IInv, Accounted, TypeOK, CopyOK
<1> QED
  BY <1>2, <1>5, <1>6, <1>7 DEF IInv, Untried, AdriftOK, AttemptsBounded

LEMMA HandlerFailsStep ==
    ASSUME IInv, NEW c \in copies, HandlerFails(c) PROVE IInv'
<1> DEFINE back == ~c.sync /\ GetRetryCount(c) < RetryAttempts
           a == [c EXCEPT !.at = "acked"]
           new == IF back THEN {a} ELSE DeadLettered(c, c.from)
<1>1. c \in Copy /\ CopyOK(c) /\ c.at \in {"storing", "stored"} /\ Active(c)
  BY DEF IInv, TypeOK, CopiesOK, HandlerFails, Active
<1>2. /\ Replace(c, new) /\ logged' = logged \cup {c.ev} /\ Answer(c, "no")
      /\ UNCHANGED <<net, adrift, stored, accepted, expired, attempts, losses>>
  BY DEF HandlerFails
<1>3. /\ a \in Copy /\ a.ev = c.ev /\ a.no = c.no
      /\ a.at = "acked" /\ a.raw = c.raw
      /\ a.header = c.header /\ a.deaths = c.deaths /\ a.from = c.from
  BY <1>1 DEF Copy, Places
<1>4. LET dl == DeadLettered(c, c.from)
      IN  /\ dl \in SUBSET Copy
          /\ \A n, m \in dl : n = m
          /\ \A n \in dl : /\ n.ev = c.ev /\ n.no = c.no
                           /\ n.at = "dead" /\ n.raw = c.raw
                           /\ n.deaths = (IF c.raw THEN 0 ELSE 1)
                           /\ attempts[Publication(c)] <= losses + Rungs(n)
  <2>1. c.from \in {"main", "dead"}
    BY <1>1 DEF Copy
  <2> QED
    BY <1>1, <2>1, GiveUp DEF IInv
<1> HIDE DEF a
<1>5. back => CopyOK(a)'
  BY <1>1, <1>2, <1>3 DEF CopyOK, Publication, Rungs, Active, GetRetryCount
<1>6. ~back => \A n \in DeadLettered(c, c.from) : CopyOK(n)'
  BY <1>1, <1>2, <1>4 DEF CopyOK, Publication, Rungs, Active, GetRetryCount
<1>7. /\ new \in SUBSET Copy /\ (\A n, m \in new : n = m)
      /\ \A n \in new : /\ n.ev = c.ev /\ n.no = c.no
                        /\ n.at # "buffer" /\ CopyOK(n)'
  BY <1>3, <1>4, <1>5, <1>6
<1> HIDE DEF new
<1>8. /\ copies' \subseteq Copy /\ Apart' /\ CopiesOK'
      /\ \A e \in Events \ {c.ev} : InFlight(e) => InFlight(e)'
  BY <1>1, <1>2, <1>7, Replacement DEF IInv, TypeOK, Copy
<1>9. TypeOK'
  BY <1>1, <1>2, <1>8 DEF IInv, TypeOK, Copy, Answer
<1>10. Accounted'
  BY <1>1, <1>2, <1>8 DEF IInv, Accounted, TypeOK, Answer
<1> QED
  BY <1>2, <1>8, <1>9, <1>10 DEF IInv, Untried, AdriftOK, AttemptsBounded

LEMMA SendToRetryQueueStep ==
    ASSUME IInv, NEW c \in copies, SendToRetryQueue(c) PROVE IInv'
<1> DEFINE n == [c EXCEPT !.at = "retry", !.raw = TRUE, !.deaths = 0,
                          !.from = "main", !.header = GetRetryCount(c) + 1]
           new == IF net.retryQueue THEN {n} ELSE {}
<1>1. c \in Copy /\ CopyOK(c) /\ c.at = "acked"
  BY DEF IInv, TypeOK, CopiesOK, SendToRetryQueue
<1>2. GetRetryCount(c) + 1 \in 0..RetryAttempts
  BY <1>1, RetryAttemptsAssumption DEF CopyOK, GetRetryCount, Copy
<1>3. /\ n \in Copy /\ n.ev = c.ev /\ n.no = c.no /\ n.at = "retry" /\ n.raw
      /\ n.header = GetRetryCount(c) + 1 /\ n.deaths = 0
  <2>1. 0 \in 0..1 /\ TRUE \in BOOLEAN
    OBVIOUS
  <2>2. n \in Copy
    BY <1>1, <1>2, <2>1, Zenon DEF Copy, Places
  <2>3. /\ n.ev = c.ev /\ n.no = c.no /\ n.at = "retry" /\ n.raw
        /\ n.header = GetRetryCount(c) + 1 /\ n.deaths = 0
    BY <1>1 DEF Copy
  <2> QED
    BY <2>2, <2>3
<1>4. /\ Replace(c, new)
      /\ UNCHANGED <<net, adrift, stored, logged, reply, accepted, expired,
                     attempts, losses>>
  BY DEF SendToRetryQueue
<1> HIDE DEF n
<1>5. CopyOK(n)'
  <2>1. attempts[Publication(c)] <= losses + (GetRetryCount(c) + 1)
    BY <1>1 DEF CopyOK, Rungs, Active
  <2>2. Rungs(n) = GetRetryCount(c) + 1
    BY <1>2, <1>3 DEF Rungs, Active, GetRetryCount
  <2> QED
    BY <1>1, <1>3, <1>4, <2>1, <2>2
       DEF CopyOK, Publication, Rungs, Active, GetRetryCount
<1>6. /\ new \in SUBSET Copy /\ (\A k, m \in new : k = m)
      /\ \A m \in new : /\ m.ev = c.ev /\ m.no = c.no
                        /\ m.at # "buffer" /\ CopyOK(m)'
  BY <1>3, <1>5
<1> HIDE DEF new
<1>7. /\ copies' \subseteq Copy /\ Apart' /\ CopiesOK'
      /\ \A e \in Events \ {c.ev} : InFlight(e) => InFlight(e)'
  BY <1>1, <1>4, <1>6, Replacement DEF IInv, TypeOK, Copy
<1>8. TypeOK'
  BY <1>1, <1>4, <1>7 DEF IInv, TypeOK, Copy
<1>9. Accounted'
  BY <1>1, <1>4, <1>7 DEF IInv, Accounted, TypeOK, CopyOK
<1> QED
  BY <1>4, <1>7, <1>8, <1>9 DEF IInv, Untried, AdriftOK, AttemptsBounded

--------------------------------------------------------------------------
(* The steps that are not about one copy *)

\* A new event: logged nowhere, in no copy, never tried.
LEMMA EmitStep ==
    ASSUME IInv, NEW e \in Events, NEW sync \in BOOLEAN, Fresh(e),
           copies' = copies \cup {BuildEvent(e, sync)},
           reply' = IF sync THEN [reply EXCEPT ![e] = "waiting"] ELSE reply,
           UNCHANGED <<net, adrift, stored, logged, accepted, expired,
                       attempts, losses>>
    PROVE  IInv'
<1> DEFINE n == BuildEvent(e, sync)
<1>1. /\ n \in Copy /\ n.ev = e /\ n.no = 0 /\ n.at = "buffer" /\ ~n.raw
      /\ n.deaths = 0 /\ n.header = 0
  BY RetryAttemptsAssumption, MaxLossesAssumption DEF BuildEvent, Copy, Places
<1>2. /\ e \notin accepted /\ \A c \in copies : c.ev # e
      /\ \A k \in 0..MaxLosses : attempts[<<e, k>>] = 0
  BY DEF Fresh, IInv, Untried, Publications
<1>3. copies' = copies \cup {n}
  OBVIOUS
<1> HIDE DEF n
<1>4. TypeOK'
  BY <1>1, <1>3 DEF IInv, TypeOK
<1>5. Apart'
  BY <1>1, <1>2, <1>3 DEF IInv, Apart
<1>6. CopiesOK'
  <2>1. \A c \in copies : CopyOK(c)'
    BY DEF IInv, CopiesOK, CopyOK, Publication, Rungs, Active, GetRetryCount
  <2>2. Publication(n) = <<e, 0>> /\ 0 \in 0..MaxLosses /\ losses \in Nat
    BY <1>1, MaxLossesAssumption DEF Publication, IInv, TypeOK
  <2>3. Rungs(n) = 0
    BY <1>1 DEF Rungs, Active, GetRetryCount
  <2>4. CopyOK(n)'
    BY <1>1, <1>2, <2>2, <2>3
       DEF CopyOK, Publication, Rungs, Active, GetRetryCount
  <2> QED
    BY <1>3, <2>1, <2>4 DEF CopiesOK
<1>7. Accounted'
  BY <1>1, <1>3 DEF IInv, Accounted, InFlight, TypeOK
<1> QED
  BY <1>4, <1>5, <1>6, <1>7 DEF IInv, Untried, AdriftOK, AttemptsBounded

\* Steps that leave every message where it is.
LEMMA CopiesStay ==
    ASSUME IInv, copies' = copies, stored \subseteq stored',
           logged \subseteq logged',
           UNCHANGED <<accepted, attempts, losses>>
    PROVE  /\ Apart' /\ CopiesOK' /\ Untried' /\ AttemptsBounded'
           /\ \A e \in Events : InFlight(e)' <=> InFlight(e)
<1>1. ASSUME NEW c \in copies PROVE CopyOK(c)'
  <2>1. CopyOK(c)
    BY DEF IInv, CopiesOK
  <2> QED
    BY <2>1 DEF CopyOK, Publication, Rungs, Active, GetRetryCount
<1> QED
  BY <1>1 DEF IInv, Apart, CopiesOK, Untried, AttemptsBounded, InFlight

LEMMA SyncTimesOutStep ==
    ASSUME IInv, NEW e \in Events, SyncTimesOut(e) PROVE IInv'
<1>1. /\ UNCHANGED <<net, copies, adrift, stored, logged, accepted, expired,
                     attempts, losses>>
      /\ reply' = [reply EXCEPT ![e] = "no"]
  BY DEF SyncTimesOut
<1>2. TypeOK'
  BY <1>1 DEF IInv, TypeOK
<1>3. /\ Apart' /\ CopiesOK' /\ Untried' /\ AttemptsBounded'
      /\ \A x \in Events : InFlight(x)' <=> InFlight(x)
  BY <1>1, CopiesStay
<1>4. Accounted'
  BY <1>1, <1>3 DEF IInv, Accounted, TypeOK
<1> QED
  BY <1>1, <1>2, <1>3, <1>4 DEF IInv, AdriftOK

LEMMA CreateAdriftStep ==
    ASSUME IInv, NEW h \in adrift, CreateAdrift(h) PROVE IInv'
<1> DEFINE n == [h EXCEPT !.msg.at = "stored"]
<1>1. /\ h.msg \in Copy /\ h.loss \in 1..MaxLosses
      /\ h = [msg |-> h.msg, loss |-> h.loss]
  BY DEF IInv, TypeOK
<1>2. n = [msg |-> [h.msg EXCEPT !.at = "stored"], loss |-> h.loss]
  BY <1>1
<1>3. /\ n \in [msg : Copy, loss : 1..MaxLosses]
      /\ n.msg.ev = h.msg.ev
  BY <1>1, <1>2 DEF Copy, Places
<1>4. /\ adrift' = (adrift \ {h}) \cup {n} /\ stored' = stored \cup {h.msg.ev}
      /\ UNCHANGED <<net, copies, logged, reply, accepted, expired, attempts,
                     losses>>
  BY DEF CreateAdrift
<1> HIDE DEF n
<1>5. h.msg.ev \in Events
  BY <1>1 DEF Copy
<1>6. TypeOK'
  BY <1>3, <1>4, <1>5 DEF IInv, TypeOK
<1>7. /\ Apart' /\ CopiesOK' /\ Untried' /\ AttemptsBounded'
      /\ \A x \in Events : InFlight(x)' <=> InFlight(x)
  BY <1>4, CopiesStay
<1>8. AdriftOK'
  BY <1>3, <1>4 DEF IInv, AdriftOK
<1>9. Accounted'
  BY <1>4, <1>7 DEF IInv, Accounted, TypeOK
<1> QED
  BY <1>6, <1>7, <1>8, <1>9 DEF IInv

LEMMA EndAdriftStep ==
    ASSUME IInv, NEW h \in adrift, EndAdrift(h) PROVE IInv'
<1>1. h.msg \in Copy /\ h.msg.ev \in Events
  BY DEF IInv, TypeOK, Copy
<1>2. /\ adrift' = adrift \ {h} /\ logged' \in {logged, logged \cup {h.msg.ev}}
      /\ \/ Answer(h.msg, "no")
         \/ h.msg.at = "stored" /\ Answer(h.msg, "yes")
      /\ UNCHANGED <<net, copies, stored, accepted, expired, attempts, losses>>
  BY DEF EndAdrift
<1>3. TypeOK'
  BY <1>1, <1>2 DEF IInv, TypeOK, Answer
<1>4. /\ Apart' /\ CopiesOK' /\ Untried' /\ AttemptsBounded'
      /\ \A x \in Events : InFlight(x)' <=> InFlight(x)
  BY <1>2, CopiesStay
<1>5. AdriftOK'
  BY <1>2 DEF IInv, AdriftOK
<1>6. h.msg.at = "stored" => h.msg.ev \in stored
  BY DEF IInv, AdriftOK
<1>7. \A e \in Events : reply'[e] = "yes" => e \in stored
  BY <1>1, <1>2, <1>6 DEF IInv, Accounted, TypeOK, Answer
<1>8. Accounted'
  BY <1>2, <1>4, <1>7 DEF IInv, Accounted, TypeOK
<1> QED
  BY <1>3, <1>4, <1>5, <1>8 DEF IInv

--------------------------------------------------------------------------
(* Steps that count as a loss *)

\* One more loss allows one more attempt at everything.
LEMMA MoreLosses ==
    ASSUME IInv, NEW c \in copies,
           losses' = losses + 1, stored \subseteq stored',
           logged \subseteq logged', accepted \subseteq accepted',
           attempts' = attempts
    PROVE  CopyOK(c)'
<1>1. /\ CopyOK(c) /\ c \in Copy /\ losses \in Nat /\ c.no \in Nat
      /\ Publication(c) \in Publications
  BY MaxLossesAssumption
     DEF IInv, CopiesOK, TypeOK, Copy, Publication, Publications
<1>2. attempts[Publication(c)] \in Nat
  BY <1>1 DEF IInv, TypeOK
<1>3. Rungs(c) \in Nat
  BY <1>1, RetryAttemptsAssumption DEF Rungs, Active, GetRetryCount, Copy
<1>4. /\ c.no <= losses + 1
      /\ attempts[Publication(c)] <= (losses + 1) + Rungs(c)
  BY <1>1, <1>2, <1>3 DEF CopyOK
<1> QED
  BY <1>1, <1>4 DEF CopyOK, Publication, Rungs, Active, GetRetryCount

LEMMA PublishUnconfirmedStep ==
    ASSUME IInv, NEW c \in copies, PublishUnconfirmed(c) PROVE IInv'
<1> DEFINE n == [c EXCEPT !.at = "main"]
           b == [c EXCEPT !.no = @ + 1]
<1>1. /\ c \in Copy /\ CopyOK(c) /\ c.at = "buffer" /\ losses < MaxLosses
      /\ losses \in Nat /\ c.no \in 0..MaxLosses /\ c.no <= losses
  BY MaxLossesAssumption
     DEF IInv, TypeOK, CopiesOK, PublishUnconfirmed, Copy, CopyOK
<1>2. /\ n \in Copy /\ n.ev = c.ev /\ n.no = c.no /\ n.at = "main"
      /\ n.raw = c.raw /\ n.header = c.header /\ n.deaths = c.deaths
  BY <1>1 DEF Copy, Places
<1>3. c.no + 1 \in 0..MaxLosses
  BY <1>1, MaxLossesAssumption
<1>4. /\ b \in Copy /\ b.ev = c.ev /\ b.no = c.no + 1 /\ b.at = "buffer"
      /\ b.raw = c.raw /\ b.header = c.header /\ b.deaths = c.deaths
  BY <1>1, <1>3 DEF Copy
<1>5. /\ copies' = (copies \ {c}) \cup {n, b} /\ losses' = losses + 1
      /\ accepted' = accepted \cup {c.ev}
      /\ UNCHANGED <<net, adrift, stored, logged, reply, expired, attempts>>
  BY DEF PublishUnconfirmed, Replace
<1> HIDE DEF n, b
<1>6. c.ev \in Events
  BY <1>1 DEF Copy
<1>7. TypeOK'
  BY <1>1, <1>2, <1>4, <1>5, <1>6, MaxLossesAssumption DEF IInv, TypeOK
<1>8. Apart'
  <2>1. \A d \in copies : d.ev = c.ev /\ d # c =>
            d.no \in Nat /\ d.no < c.no /\ d.at # "buffer"
    BY <1>1, MaxLossesAssumption DEF IInv, Apart, TypeOK, Copy
  <2>2. c.no < c.no + 1 /\ \A k \in Nat : k < c.no => k < c.no + 1
    BY <1>1
  <2>3. \A d \in copies : d.ev = c.ev /\ d # c =>
            d.no # c.no /\ d.no # c.no + 1 /\ d.no < c.no + 1
    BY <1>1, <2>1, MaxLossesAssumption
  <2> QED
    BY <1>1, <1>2, <1>4, <1>5, <2>1, <2>2, <2>3 DEF IInv, Apart
<1>9. CopiesOK'
  <2>1. \A d \in copies : CopyOK(d)'
    BY <1>5, MoreLosses
  <2>2. /\ \A k \in c.no..MaxLosses : attempts[<<c.ev, k>>] = 0
        /\ c.raw => c.ev \in logged
        /\ c.deaths = 0 /\ c.header \in Nat
    BY <1>1, RetryAttemptsAssumption DEF CopyOK, Copy
  <2>3. /\ attempts[Publication(n)] = 0 /\ attempts[Publication(b)] = 0
        /\ \A k \in b.no..MaxLosses : attempts[<<b.ev, k>>] = 0
    <3>1. c.no \in c.no..MaxLosses /\ c.no + 1 \in c.no..MaxLosses
      BY <1>1, <1>3, MaxLossesAssumption
    <3>2. \A k \in (c.no + 1)..MaxLosses : k \in c.no..MaxLosses
      BY <1>1, MaxLossesAssumption
    <3> QED
      BY <1>2, <1>4, <2>2, <3>1, <3>2 DEF Publication
  <2>4. Rungs(n) \in Nat /\ Rungs(b) \in Nat
    BY <1>2, <1>4, <2>2 DEF Rungs, Active, GetRetryCount
  <2>5. /\ 0 <= (losses + 1) + Rungs(n) /\ 0 <= (losses + 1) + Rungs(b)
        /\ c.no <= losses + 1 /\ c.no + 1 <= losses + 1
    BY <1>1, <2>4, MaxLossesAssumption
  <2>6. CopyOK(n)'
    BY <1>2, <1>5, <2>2, <2>3, <2>5
       DEF CopyOK, Publication, Rungs, Active, GetRetryCount
  <2>7. CopyOK(b)'
    BY <1>4, <1>5, <2>2, <2>3, <2>5
       DEF CopyOK, Publication, Rungs, Active, GetRetryCount
  <2> QED
    BY <1>5, <2>1, <2>6, <2>7 DEF CopiesOK
<1>10. Accounted'
  <2>1. InFlight(c.ev)'
    BY <1>2, <1>5 DEF InFlight
  <2>2. \A e \in Events : InFlight(e) => InFlight(e)'
    BY <1>1, <1>5 DEF InFlight
  <2> QED
    BY <1>5, <1>6, <2>1, <2>2 DEF IInv, Accounted, TypeOK
<1>11. Untried' /\ AdriftOK'
  BY <1>5 DEF IInv, Untried, AdriftOK
<1>12. AttemptsBounded'
  BY <1>1, <1>5, RetryAttemptsAssumption
     DEF IInv, AttemptsBounded, TypeOK
<1> QED
  BY <1>7, <1>8, <1>9, <1>10, <1>11, <1>12 DEF IInv

\* The message goes back to the queue a handler had it from.
Back(c) == [c EXCEPT !.at = c.from]
Held(c) == c.at \in {"storing", "stored", "acked"}

\* What a lost connection and a crash have in common: messages a handler had go
\* back to their queues, and only those still in the buffer and those acked,
\* so logged, may vanish.
LEMMA TakenBackStep ==
    ASSUME IInv, losses < MaxLosses, losses' = losses + 1,
           UNCHANGED <<stored, logged, accepted, expired, attempts>>,
           \A d \in copies' : \/ d \in copies
                              \/ \E c \in copies \ copies' :
                                     Held(c) /\ d = Back(c),
           \A c \in copies : \/ c \in copies'
                             \/ Held(c) /\ Back(c) \in copies'
                             \/ c.at \in {"buffer", "acked"}
    PROVE  /\ copies' \subseteq Copy /\ losses' \in 0..MaxLosses
           /\ Apart' /\ CopiesOK' /\ Untried' /\ AttemptsBounded'
           /\ \A e \in accepted' : \/ e \in stored' \cup logged' \cup expired'
                                   \/ InFlight(e)'
<1>1. \A c \in copies : /\ c \in Copy /\ Back(c) \in Copy
                        /\ Back(c).ev = c.ev /\ Back(c).at = c.from
                        /\ Back(c).no = c.no /\ Back(c).raw = c.raw
                        /\ Back(c).deaths = c.deaths
                        /\ Back(c).header = c.header
                        /\ c.from \in {"main", "dead"}
  BY DEF IInv, TypeOK, Copy, Places, Back
<1>2. /\ losses \in Nat /\ losses' \in 0..MaxLosses
      /\ \A p \in Publications : attempts[p] \in Nat
  BY MaxLossesAssumption DEF IInv, TypeOK
<1>3. Apart'
  <2> SUFFICES ASSUME NEW c \in copies', NEW d \in copies', c.ev = d.ev, c # d
               PROVE  c.no # d.no /\ (c.at = "buffer" => d.no < c.no)
    BY DEF Apart
  <2>1. PICK x \in copies : \/ c = x
                            \/ x \notin copies' /\ Held(x) /\ c = Back(x)
    OBVIOUS
  <2>2. PICK y \in copies : \/ d = y
                            \/ y \notin copies' /\ Held(y) /\ d = Back(y)
    OBVIOUS
  <2>3. x.ev = y.ev /\ x # y /\ x.no = c.no /\ y.no = d.no
    BY <1>1, <2>1, <2>2
  <2>4. c.at = "buffer" => c = x
    BY <1>1, <2>1
  <2> QED
    BY <2>3, <2>4 DEF IInv, Apart
<1>4. CopiesOK'
  <2>1. \A c \in copies : CopyOK(c)'
    BY MoreLosses
  <2>2. ASSUME NEW c \in copies, Held(c) PROVE CopyOK(Back(c))'
    <3>1. /\ CopyOK(c) /\ CopyOK(c)' /\ Active(c)
          /\ attempts[Publication(c)] \in Nat
          /\ Publication(Back(c)) = Publication(c)
      BY <1>1, <1>2, <2>1, <2>2
         DEF IInv, CopiesOK, Active, Held, Publication, Publications, Copy
    <3>2. attempts[Publication(c)] <= losses + GetRetryCount(c) + 1
      <4>1. Rungs(c) = GetRetryCount(c) + 1 /\ GetRetryCount(c) \in Nat
        BY <1>1, <2>2, <3>1, RetryAttemptsAssumption
           DEF Rungs, Held, GetRetryCount, Copy
      <4> QED
        BY <1>2, <3>1, <4>1 DEF CopyOK
    <3>3. /\ GetRetryCount(c) \in Nat /\ GetRetryCount(Back(c)) = GetRetryCount(c)
          /\ c.raw => GetRetryCount(c) <= RetryAttempts
      BY <1>1, RetryAttemptsAssumption DEF GetRetryCount, Copy
    <3>4. /\ ~Active(Back(c)) /\ Back(c).raw = c.raw
          /\ Back(c).at \in {"main", "dead"}
      BY <1>1 DEF Active
    <3>5. attempts[Publication(c)] <= (losses + 1) + Rungs(Back(c))
      BY <1>2, <3>1, <3>2, <3>3, <3>4, RetryAttemptsAssumption DEF Rungs
    <3>6. c.at # "buffer" /\ (c.from = "main" => c.deaths = 0)
      BY <2>2, <3>1 DEF CopyOK, Held
    <3> QED
      BY <1>1, <3>1, <3>4, <3>5, <3>6
         DEF CopyOK, Publication, Rungs, Active, GetRetryCount
  <2> QED
    BY <2>1, <2>2 DEF CopiesOK
<1>5. ASSUME NEW e \in accepted, InFlight(e), ~InFlight(e)' PROVE e \in logged
  <2>1. PICK c \in copies : c.ev = e /\ c.at # "buffer"
    BY <1>5 DEF InFlight
  <2>2. c.at = "acked"
    BY <1>1, <1>5, <2>1 DEF InFlight
  <2> QED
    BY <2>1, <2>2 DEF IInv, CopiesOK, CopyOK
<1>6. \A e \in accepted' : \/ e \in stored' \cup logged' \cup expired'
                           \/ InFlight(e)'
  BY <1>5 DEF IInv, Accounted
<1>7. Untried'
  BY DEF IInv, Untried
<1>8. AttemptsBounded'
  BY <1>2, RetryAttemptsAssumption DEF IInv, AttemptsBounded
<1>9. copies' \subseteq Copy
  BY <1>1
<1> QED
  BY <1>2, <1>3, <1>4, <1>6, <1>7, <1>8, <1>9

LEMMA ConnectionLostStep ==
    ASSUME IInv, NEW queue \in {"main", "dead"}, ConnectionLost(queue)
    PROVE  IInv'
<1>1. /\ losses < MaxLosses /\ losses' = losses + 1 /\ TakenBack({queue})
      /\ adrift' = adrift \cup {[msg |-> c, loss |-> losses + 1] :
                                c \in Unacked({queue})}
      /\ UNCHANGED <<net, stored, logged, reply, accepted, expired, attempts>>
  BY DEF ConnectionLost
<1>2. PICK kept \in SUBSET Leaving({queue}) :
        copies' = (copies \ (Unacked({queue}) \cup Leaving({queue})))
                  \cup {Back(c) : c \in Unacked({queue}) \cup kept}
  BY <1>1 DEF TakenBack, Back
<1>3. \A c \in copies : Back(c).at = c.from /\ c.from \in {"main", "dead"}
  BY DEF IInv, TypeOK, Copy, Places, Back
<1>4. \A c \in Unacked({queue}) \cup Leaving({queue}) :
        c \in copies /\ Held(c) /\ c \notin copies'
  BY <1>2, <1>3 DEF Unacked, Leaving, Held
<1>5. /\ copies' \subseteq Copy /\ losses' \in 0..MaxLosses
      /\ Apart' /\ CopiesOK' /\ Untried' /\ AttemptsBounded'
      /\ \A e \in accepted' : \/ e \in stored' \cup logged' \cup expired'
                              \/ InFlight(e)'
  <2>1. \A d \in copies' : \/ d \in copies
                           \/ \E c \in copies \ copies' :
                                  Held(c) /\ d = Back(c)
    BY <1>2, <1>4
  <2>2. \A c \in copies : \/ c \in copies'
                          \/ Held(c) /\ Back(c) \in copies'
                          \/ c.at \in {"buffer", "acked"}
    BY <1>2, <1>4 DEF Leaving
  <2> QED
    BY <1>1, <2>1, <2>2, TakenBackStep
<1>6. TypeOK'
  <2>1. losses + 1 \in 1..MaxLosses
    BY <1>1, MaxLossesAssumption DEF IInv, TypeOK
  <2>2. adrift' \subseteq [msg : Copy, loss : 1..MaxLosses]
    BY <1>1, <2>1 DEF IInv, TypeOK, Unacked
  <2> QED
    BY <1>1, <1>5, <2>2 DEF IInv, TypeOK
<1>7. AdriftOK'
  <2>1. \A c \in copies : c.at = "stored" => c.ev \in stored
    BY DEF IInv, CopiesOK, CopyOK
  <2> QED
    BY <1>1, <2>1 DEF IInv, AdriftOK, Unacked
<1>8. Accounted'
  BY <1>1, <1>5 DEF IInv, Accounted
<1> QED
  BY <1>5, <1>6, <1>7, <1>8 DEF IInv

LEMMA CrashStep ==
    ASSUME IInv, Crash PROVE IInv'
<1> DEFINE Q == {"main", "dead"}
<1>1. /\ losses < MaxLosses /\ losses' = losses + 1 /\ adrift' = {}
      /\ reply' = [e \in Events |-> IF reply[e] = "waiting" THEN "no"
                                    ELSE reply[e]]
      /\ UNCHANGED <<net, stored, logged, accepted, expired, attempts>>
  BY DEF Crash, ProcessDies
<1>2. PICK kept \in SUBSET Leaving(Q) :
        copies' = {c \in copies : c.at \in {"main", "retry", "dead"}}
                  \cup {Back(c) : c \in Unacked(Q) \cup kept}
  BY DEF Crash, Back
<1>3. \A c \in copies :
        Back(c).at = c.from /\ c.from \in Q /\ c.at \in Places
  BY DEF IInv, TypeOK, Copy, Places, Back
<1>4. \A c \in Unacked(Q) \cup Leaving(Q) :
        c \in copies /\ Held(c) /\ c \notin copies'
  BY <1>2, <1>3 DEF Unacked, Leaving, Held
<1>5. /\ copies' \subseteq Copy /\ losses' \in 0..MaxLosses
      /\ Apart' /\ CopiesOK' /\ Untried' /\ AttemptsBounded'
      /\ \A e \in accepted' : \/ e \in stored' \cup logged' \cup expired'
                              \/ InFlight(e)'
  <2>1. \A d \in copies' : \/ d \in copies
                           \/ \E c \in copies \ copies' :
                                  Held(c) /\ d = Back(c)
    BY <1>2, <1>4
  <2>2. \A c \in copies : \/ c \in copies'
                          \/ Held(c) /\ Back(c) \in copies'
                          \/ c.at \in {"buffer", "acked"}
    BY <1>2, <1>3 DEF Unacked, Held, Places
  <2> QED
    BY <1>1, <2>1, <2>2, TakenBackStep
<1>6. TypeOK'
  BY <1>1, <1>5 DEF IInv, TypeOK
<1>7. Accounted'
  BY <1>1, <1>5 DEF IInv, Accounted, TypeOK
<1> QED
  BY <1>1, <1>5, <1>6, <1>7 DEF IInv, AdriftOK

--------------------------------------------------------------------------

\* IInv holds in every reachable state: what each copy's place says about its
\* event, and that what was published once is in one place.
THEOREM Inductive == Spec => []IInv
<1>1. ASSUME IInv, [Next]_vars PROVE IInv'
  <2>1. ASSUME NEW e \in Events, Log(e) PROVE IInv'
    BY <1>1, <2>1, EmitStep DEF Log, EmitAuditEvent
  <2>2. ASSUME NEW e \in Events, LogSync(e) PROVE IInv'
    BY <1>1, <2>2, EmitStep DEF LogSync, EmitAuditEventSync
  <2>3. ASSUME NEW e \in Events, SyncTimesOut(e) PROVE IInv'
    BY <1>1, <2>3, SyncTimesOutStep
  <2>4. ASSUME NEW c \in copies,
               \/ Publish(c) \/ PublishUnconfirmed(c)
               \/ EmitTimesOut(c) \/ MessageExpires(c)
        PROVE  IInv'
    BY <1>1, <2>4, PublishStep, PublishUnconfirmedStep,
       EmitTimesOutStep, MessageExpiresStep
  <2>5. ASSUME NEW c \in copies, Handle(c) PROVE IInv'
    BY <1>1, <2>5, RetryDelayEndsStep, UnroutedStep, DeliverStep, CreateStep,
       AckStep, HandlerFailsStep, SendToRetryQueueStep, HandleDeadLetterStep
       DEF Handle
  <2>6. ASSUME NEW queue \in {"main", "dead"}, ConnectionLost(queue)
        PROVE  IInv'
    BY <1>1, <2>6, ConnectionLostStep
  <2>7. ASSUME NEW h \in adrift, CreateAdrift(h) \/ EndAdrift(h) PROVE IInv'
    BY <1>1, <2>7, CreateAdriftStep, EndAdriftStep
  <2>8. ASSUME Crash PROVE IInv'
    BY <1>1, <2>8, CrashStep
  <2>9. CASE UNCHANGED vars
    <3>1. /\ Apart' /\ CopiesOK' /\ Untried' /\ AttemptsBounded'
          /\ \A x \in Events : InFlight(x)' <=> InFlight(x)
      BY <1>1, <2>9, CopiesStay DEF vars
    <3> QED
      BY <1>1, <2>9, <3>1 DEF vars, IInv, TypeOK, AdriftOK, Accounted
  <2> QED
    BY <1>1, <2>1, <2>2, <2>3, <2>4, <2>5, <2>6, <2>7, <2>8, <2>9 DEF Next
<1> QED
  BY InitIInv, <1>1, PTL DEF Spec

\* Every variable keeps its type; no retry counter passes RetryAttempts.
THEOREM TypeCorrect == Spec => []TypeOK
  BY Inductive, PTL DEF IInv

\* No audit event vanishes silently: HandlerFails logs before it sends back.
THEOREM EventsAreAccounted == Spec => []Accounted
  BY Inductive, PTL DEF IInv

\* getRetryCount and the header bound the attempts at every event.
THEOREM AttemptsAreBounded == Spec => []AttemptsBounded
  BY Inductive, PTL DEF IInv
==============================================================================
