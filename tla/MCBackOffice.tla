---------------------------- MODULE MCBackOffice ----------------------------
(***************************************************************************)
(* Small instances of the two parts behind the scenes, the audit pipeline  *)
(* and the ops console.  They share no state: in a behaviour one of them   *)
(* moves and the other stays as it began.                                  *)
(***************************************************************************)
EXTENDS AuditPipeline, OpsConsole

VARIABLE part

backVars == <<vars, consoleVars, part>>

BackInit ==
    /\ Init /\ ConsoleInit
    /\ \/ part = "audits" /\ stale = {} /\ status[First] = "in"
                          /\ \A t \in Tabs \ {First} : status[t] = "out"
       \/ part = "console" /\ net.retryQueue /\ net.dlx /\ net.byQueue

Audits(A) == part = "audits" /\ A /\ UNCHANGED <<consoleVars, part>>
Console(A) == part = "console" /\ A /\ UNCHANGED <<vars, part>>

BackNext == Audits(Next) \/ Console(ConsoleNext)

BackSpec ==
    /\ BackInit /\ [][BackNext]_backVars
    /\ \A e \in Events : WF_backVars(Audits(HandleEvent(e)))
    /\ WF_backVars(Console(Inside))
=============================================================================
