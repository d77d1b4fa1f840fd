---------------------------- MODULE MCBoardSeats ----------------------------
(***************************************************************************)
(* Small instances of BoardSeats.                                          *)
(***************************************************************************)
EXTENDS BoardSeats, TLC

Symmetric == Permutations(Requests) \cup Permutations(Users)
             \cup Permutations(Codes) \cup Permutations(BoardIds)
=============================================================================
