------------------------------- MODULE MCTabs -------------------------------
(***************************************************************************)
(* Small fair instances of what runs in browser tabs: the document several *)
(* tabs edit (BoardSync), the chat beside it (RoomChat), and a sandbox in  *)
(* its editor (SandboxEditor).  They share no state: in a behaviour one of *)
(* them moves and the others stay as they began.                           *)
(***************************************************************************)
EXTENDS RoomChat, SandboxEditor

\* The constants of BoardSync; Editors are the tabs that edit the document.
CONSTANTS Editors, Edits, Seeds, MaxTroubles, MaxRestarts, Closes, Slow, DbFails,
          Refuses

VARIABLES memory, docRow, fresh, member, phase, doc, needs, up, down, rejected,
          held, troubles, restarts

Sync == INSTANCE BoardSync WITH Tabs <- Editors, row <- docRow

VARIABLE part

syncVars == <<memory, docRow, fresh, member, phase, doc, needs, up, down, rejected,
              held, troubles, restarts>>
tabsVars == <<chatVars, editorVars, syncVars, part>>

TabsInit ==
    /\ ChatInit /\ EditorInit /\ Sync!Init
    /\ \/ part = "editor"
       \/ part \in {"chat", "document"}
          /\ row = CHOOSE r \in [files : Projects \ TooLarge, name : Names] : TRUE

Chat(A) == part = "chat" /\ A /\ UNCHANGED <<editorVars, syncVars, part>>
Editor(A) == part = "editor" /\ A /\ UNCHANGED <<chatVars, syncVars, part>>
Document(A) == part = "document" /\ A /\ UNCHANGED <<chatVars, editorVars, part>>

TabsNext == Chat(ChatNext) \/ Editor(EditorNext) \/ Document(Sync!Next)

\* EditorFairness, and the fairness of BoardSync.
TabsFairness ==
    /\ WF_tabsVars(Editor(EditorInside /\ \E r \in Requests : Autosave(r)))
    /\ \A r \in Requests :
          WF_tabsVars(Editor(EditorInside /\ (Handle(r) \/ Answered(r))))
    /\ \A t \in Editors :
          /\ WF_tabsVars(Document(Sync!Connect(t)))
          /\ WF_tabsVars(Document(Sync!HearAck(t) \/ Sync!HearLateAnswer(t)
                                  \/ Sync!HearRefusal(t) \/ Sync!HearUpdate(t)))
          /\ WF_tabsVars(Document(Sync!ServerStep(t)))
    /\ WF_tabsVars(Document(Sync!Load))

TabsSpec == TabsInit /\ [][TabsNext]_tabsVars /\ TabsFairness

-----------------------------------------------------------------------------
\* BoardSync: what someone types reaches every tab.
EditsReachEveryone == Sync!EditsReachEveryone
=============================================================================
