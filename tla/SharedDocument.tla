--------------------------- MODULE SharedDocument ---------------------------
(***************************************************************************)
(* What a board promises the people in it, with rooms, sockets, timers and *)
(* queries abstracted away: one shared document that only grows, and a     *)
(* stored copy that follows it.  BoardRooms implements it for one process, *)
(* BoardSync for the browsers around it.                                   *)
(*                                                                         *)
(* A document is the set of edits merged into it; empty, it is not started.*)
(***************************************************************************)
EXTENDS Naturals

CONSTANTS Edits, Starters

VARIABLES
    content,   \* what everyone who has the board open works on
    stored,    \* what a restart would bring back
    restarts,  \* how often the API has restarted
    kept       \* the promise still stands: the board has not expired

vars == <<content, stored, restarts, kept>>

Init ==
    /\ content = {} /\ stored = {}
    /\ restarts = 0
    /\ kept = TRUE

\* The document is started, from the seed or from the files someone chose.
Start ==
    /\ content = {}
    /\ \E starter \in Starters :
          /\ content' = {starter}
          /\ stored' \in {stored, {starter}}
    /\ UNCHANGED restarts

\* Edits are merged into it, none ever leaves it.
Edit ==
    /\ content # {} /\ content \subseteq content'
    /\ content' \subseteq Edits \cup Starters
    /\ UNCHANGED <<stored, restarts>>

\* A save stores more of it, and nothing else.
Save ==
    /\ stored \subseteq stored' /\ stored' \subseteq content
    /\ UNCHANGED <<content, restarts>>

\* A restart brings back what was stored.
Restart ==
    /\ content' = stored
    /\ restarts' = restarts + 1
    /\ UNCHANGED stored

Keeps == kept /\ kept' = kept /\ (Start \/ Edit \/ Save \/ Restart)

\* Once the board has expired nothing is promised about it.
Ends == kept' = FALSE

Spec == Init /\ [][Keeps \/ Ends]_vars

\* While the promise stands, what is stored is part of what everyone sees.
StoredIsShared == kept => stored \subseteq content
=============================================================================
