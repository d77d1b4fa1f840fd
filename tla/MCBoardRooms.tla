---------------------------- MODULE MCBoardRooms ----------------------------
(***************************************************************************)
(* Small instances of BoardRooms for TLC.                                  *)
(***************************************************************************)
EXTENDS BoardRooms, TLC

\* Connections, edits, room objects and write slots are interchangeable in
\* every safety property.
Symmetry ==
    Permutations(Sockets) \cup Permutations(Edits)
        \cup Permutations(Rooms) \cup Permutations(SaveIds)
\* Bound: the board outlives the behaviour (expiry has runs of its own).
Unexpired == ~expired
=============================================================================
