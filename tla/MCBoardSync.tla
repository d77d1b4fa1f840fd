---------------------------- MODULE MCBoardSync ----------------------------
(***************************************************************************)
(* Small instances of BoardSync.                                           *)
(***************************************************************************)
EXTENDS BoardSync, TLC

\* Tabs, edits and seeds are interchangeable (safety runs only).
Symmetric == Permutations(Tabs) \cup Permutations(Edits) \cup Permutations(Seeds)
=============================================================================
