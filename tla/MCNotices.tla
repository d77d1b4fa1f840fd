----------------------------- MODULE MCNotices -----------------------------
(***************************************************************************)
(* Small instances of Notices.                                             *)
(***************************************************************************)
EXTENDS Notices, TLC

CONSTANT u1

OneOwner == [s \in Sockets |-> u1]
AllCalls == Jobs \cup Sends
AllKeys == SendKeys \cup (Decisions \X Ids \X Instants)
AllMails == Jobs \X Users

Symmetric == Permutations(Jobs) \cup Permutations(Sends)
=============================================================================
