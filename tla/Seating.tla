------------------------------ MODULE Seating ------------------------------
(***************************************************************************)
(* What boards promise the people who share them, with requests, queries,  *)
(* locks and the sweep's batches abstracted away: a board and its host's   *)
(* seat come into being at once, a seat is taken by one person at a time   *)
(* and only while there is one, nobody loses a seat, and no board goes,    *)
(* before it has expired; what is gone is gone with all its seats.         *)
(* BoardSeats implements it.                                               *)
(***************************************************************************)
EXTENDS Naturals, FiniteSets

CONSTANTS BoardIds, Users, Seats

VARIABLES
    boards,    \* the boards there are
    used,      \* the boards there have ever been
    size,      \* how many seats a board has
    members,   \* who has a seat at which board
    expired    \* boards whose time is over

vars == <<boards, used, size, members, expired>>

Init == boards = {} /\ used = {} /\ members = {} /\ expired = {}

Taken(b) == {u \in Users : <<b, u>> \in members}

Create(b, host, seats) ==
    /\ b \notin used
    /\ boards' = boards \cup {b} /\ used' = used \cup {b}
    /\ size' = [size EXCEPT ![b] = seats]
    /\ members' = members \cup {<<b, host>>}
    /\ UNCHANGED expired

Take(b, u) ==
    /\ b \in boards /\ u \notin Taken(b) /\ Cardinality(Taken(b)) < size[b]
    /\ members' = members \cup {<<b, u>>}
    /\ UNCHANGED <<boards, used, size, expired>>

Expire(b) ==
    /\ b \in boards /\ expired' = expired \cup {b}
    /\ UNCHANGED <<boards, used, size, members>>

Delete(gone) ==
    /\ boards' = boards \ gone
    /\ members' = {m \in members : m[1] \notin gone}
    /\ UNCHANGED <<used, size, expired>>

Next ==
    \/ \E b \in BoardIds, host \in Users, seats \in Seats : Create(b, host, seats)
    \/ \E b \in BoardIds, u \in Users : Take(b, u)
    \/ \E b \in BoardIds : Expire(b)
    \/ \E gone \in SUBSET (boards \cap expired) : Delete(gone)

Spec == Init /\ [][Next]_vars
=============================================================================
