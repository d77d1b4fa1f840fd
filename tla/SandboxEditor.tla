--------------------------- MODULE SandboxEditor ---------------------------
(***************************************************************************)
(* One person's sandbox: its row, the requests of one browser tab that     *)
(* read, save, rename and delete it, and the editor with its autosave.     *)
(* Saving and renaming both are a find and then TypeORM's save, which      *)
(* reads the row again and writes every column that differs.               *)
(***************************************************************************)
EXTENDS Integers

CONSTANTS Projects,   \* contents of the files
          TooLarge,   \* those over SANDBOX_MAX_TOTAL_BYTES
          Names,
          Requests,   \* bound: PATCH requests under way at once
          None,
          MayLeave,   \* the person may leave and reopen the editor, reload, delete
          MayFail,    \* requests may fail
          MaxEdits    \* bound: edits, renames, retries, departures, failures

ASSUME EditorAssumption ==
    /\ TooLarge \subseteq Projects
    /\ None \notin Projects \cup Names \cup Requests
    /\ None \notin [files : Projects, name : Names]
    /\ MayLeave \in BOOLEAN /\ MayFail \in BOOLEAN
    /\ MaxEdits \in Nat

VARIABLES
    row,       \* the row in table sandboxes, or None
    patch,     \* each PATCH, its handler and who still listens to it
    page,      \* "list", "loading" or "editor"
    got,       \* loading: the row the GET has read, or None
    cache,     \* the tab's cached SandboxDetail, or None
    deleting,  \* the DELETE: not sent, sent or done
    files,     \* editor: the project as typed
    saved,     \* useAutosave: the snapshot known to be saved
    failed,    \* useAutosave: the snapshot whose save failed, or None
    pending,   \* useAutosave: the save under way, or None
    name,      \* WorkspaceShell: the name shown
    renaming,  \* SandboxName: the rename under way, or None
    sure,      \* history: saved was saved by a request nothing disturbed
    edits

editorVars == <<row, patch, page, got, cache, deleting, files, saved, failed,
                pending, name, renaming, sure, edits>>

Row == [files : Projects, name : Names]

\* at: unused; sent; found (findOwned answered); loaded (save has read the row
\* again, diff differs from it); written.  heard: the tab awaits the answer.
\* alone: no other PATCH was under way at any time.
Free == [at |-> "free", what |-> "files", value |-> None, entity |-> None,
         diff |-> {}, heard |-> FALSE, alone |-> TRUE]

Patch ==
    [at : {"free", "sent", "found", "loaded", "written", "refused"},
     what : {"files", "name"}, value : Projects \cup Names \cup {None},
     entity : Row \cup {None}, diff : SUBSET {"files", "name", "row"},
     heard : BOOLEAN, alone : BOOLEAN]

EditorTypeOK ==
    /\ row \in Row \cup {None}
    /\ patch \in [Requests -> Patch]
    /\ page \in {"list", "loading", "editor"}
    /\ got \in Row \cup {None}
    /\ cache \in Row \cup {None}
    /\ deleting \in {"no", "sent", "done"}
    /\ {files, saved, failed} \subseteq Projects \cup {None}
    /\ {pending, renaming} \subseteq Requests \cup {None}
    /\ name \in Names \cup {None}
    /\ sure \in BOOLEAN
    /\ edits \in 0..MaxEdits

UnderWay == {r \in Requests : patch[r].at # "free"}
Saving == \E r \in UnderWay : patch[r].what = "files"

EditorInit ==
    /\ row \in [files : Projects \ TooLarge, name : Names]
    /\ patch = [r \in Requests |-> Free]
    /\ page = "list" /\ got = None /\ cache = None /\ deleting = "no"
    /\ files = None /\ saved = None /\ failed = None /\ pending = None
    /\ name = None /\ renaming = None
    /\ sure = TRUE
    /\ edits = 0

shell == <<files, saved, failed, pending, name, renaming>>

--------------------------------------------------------------------------
(* Opening and leaving: SandboxWorkspace, WorkspaceShell *)

\* useSandpackProject and useAutosave begin with what was opened.
OpenWith(sandbox) ==
    /\ page' = "editor"
    /\ files' = sandbox.files /\ saved' = sandbox.files
    /\ failed' = None /\ pending' = None
    /\ name' = sandbox.name /\ renaming' = None
    /\ sure' = (sure /\ ~Saving)

\* staleTime is Infinity: what is cached is not asked for again.
Open ==
    /\ page = "list" /\ deleting # "sent"
    /\ \/ /\ cache # None
          /\ OpenWith(cache)
       \/ /\ cache = None
          /\ page' = "loading"
          /\ UNCHANGED <<shell, sure>>
    /\ UNCHANGED <<row, patch, got, cache, deleting>>

GetSandbox ==
    /\ page = "loading" /\ got = None
    /\ \/ /\ row # None
          /\ got' = row
          /\ page' = page
       \/ /\ row = None
          /\ page' = "list"
          /\ UNCHANGED got
    /\ sure' = (sure /\ ~Saving)
    /\ UNCHANGED <<row, patch, cache, deleting, shell>>

Opened ==
    /\ page = "loading" /\ got # None
    /\ cache' = got /\ got' = None
    /\ OpenWith(got)
    /\ UNCHANGED <<row, patch, deleting>>

GetFails ==
    /\ page = "loading"
    /\ page' = "list" /\ got' = None
    /\ UNCHANGED <<row, patch, cache, deleting, shell, sure>>

CloseShell ==
    /\ files' = None /\ saved' = None /\ failed' = None /\ pending' = None
    /\ name' = None /\ renaming' = None

\* Through a link of the application: nothing asks.  A request for the
\* sandbox is cancelled, a save is not, and its callbacks still run.
LeaveEditor ==
    /\ page \in {"loading", "editor"}
    /\ page' = "list" /\ got' = None
    /\ CloseShell
    /\ UNCHANGED <<row, patch, cache, deleting, sure>>

\* The whole page goes, with its cache and everybody who listens.
Reload ==
    /\ page' = "list" /\ got' = None /\ cache' = None
    /\ CloseShell
    /\ patch' = [r \in Requests |-> [patch[r] EXCEPT !.heard = FALSE]]
    /\ deleting' \in {deleting} \cup (IF deleting = "sent" THEN {"no"} ELSE {})
    /\ UNCHANGED <<row, sure>>

--------------------------------------------------------------------------
(* useAutosave and SandboxName *)

Dirty == files # saved

\* saveStatusOf
Status ==
    CASE pending # None       -> "saving"
      [] pending = None /\ ~Dirty -> "saved"
      [] pending = None /\ Dirty /\ files \in TooLarge -> "too-large"
      [] pending = None /\ Dirty /\ files \notin TooLarge /\ files = failed -> "error"
      [] OTHER -> "unsaved"

Edit(p) ==
    /\ page = "editor" /\ p # files
    /\ files' = p
    /\ UNCHANGED <<row, patch, page, got, cache, deleting, saved, failed, pending,
                   name, renaming, sure>>

Retry ==
    /\ page = "editor" /\ Status = "error"
    /\ failed' = None
    /\ UNCHANGED <<row, patch, page, got, cache, deleting, files, saved, pending,
                   name, renaming, sure>>

\* updateSandbox: another PATCH leaves the tab.
Send(r, what, value) ==
    /\ patch[r].at = "free"
    /\ patch' = [q \in Requests |->
                   IF q = r
                   THEN [Free EXCEPT !.at = "sent", !.what = what, !.value = value,
                                     !.heard = TRUE, !.alone = UnderWay = {}]
                   ELSE [patch[q] EXCEPT !.alone = @ /\ patch[q].at = "free"]]
    /\ sure' = (sure /\ UnderWay = {})

\* The timer of the effect, SANDBOX_AUTOSAVE_DELAY_MS after the last edit.
Autosave(r) ==
    /\ page = "editor" /\ Status = "unsaved"
    /\ Send(r, "files", files)
    /\ pending' = r
    /\ UNCHANGED <<row, page, got, cache, deleting, files, saved, failed, name, renaming>>

Rename(r, n) ==
    /\ page = "editor" /\ renaming = None /\ n # name
    /\ Send(r, "name", n)
    /\ renaming' = r
    /\ UNCHANGED <<row, page, got, cache, deleting, files, saved, failed, pending, name>>

--------------------------------------------------------------------------
(* The API: SandboxesService.update *)

FindOwned(r) ==
    /\ patch[r].at = "sent"
    /\ patch' = [patch EXCEPT
         ![r] = IF row = None THEN [@ EXCEPT !.at = "refused"]
                ELSE [@ EXCEPT !.at = "found",
                               !.entity = [row EXCEPT ![patch[r].what] = patch[r].value]]]
    /\ UNCHANGED <<row, page, got, cache, deleting, shell, sure>>

\* save reads the row again: what differs from it is to be written, and a row
\* that is gone is to be inserted.
LoadForSave(r) ==
    /\ patch[r].at = "found"
    /\ patch' = [patch EXCEPT
         ![r].at = "loaded",
         ![r].diff = IF row = None THEN {"row"}
                     ELSE {c \in {"files", "name"} : row[c] # patch[r].entity[c]}]
    /\ UNCHANGED <<row, page, got, cache, deleting, shell, sure>>

SaveRow(r) ==
    /\ patch[r].at = "loaded"
    /\ row' = IF "row" \in patch[r].diff THEN patch[r].entity
              ELSE IF row = None THEN None
              ELSE [c \in {"files", "name"} |->
                      IF c \in patch[r].diff THEN patch[r].entity[c] ELSE row[c]]
    /\ patch' = [patch EXCEPT ![r].at = "written"]
    /\ UNCHANGED <<page, got, cache, deleting, shell, sure>>

\* A query fails before anything is written.
UpdateFails(r) ==
    /\ patch[r].at \in {"sent", "found", "loaded"}
    /\ patch' = [patch EXCEPT ![r].at = "refused"]
    /\ UNCHANGED <<row, page, got, cache, deleting, shell, sure>>

\* Nobody listens any more.
Unheard(r) ==
    /\ patch[r].at \in {"written", "refused"} /\ ~patch[r].heard
    /\ patch' = [patch EXCEPT ![r] = Free]
    /\ UNCHANGED <<row, page, got, cache, deleting, shell, sure>>

--------------------------------------------------------------------------
(* The answers *)

Heard(r, at) == patch[r].heard /\ patch[r].at = at

\* Mutant: what is on the screen by then is taken for what was sent.
CurrentFilesSaved(r) ==
    /\ Heard(r, "written") /\ patch[r].what = "files"
    /\ patch' = [patch EXCEPT ![r] = Free]
    /\ cache' = IF cache = None THEN None
                ELSE [cache EXCEPT !.files = patch[r].value]
    /\ \/ /\ pending = r
          /\ saved' = files /\ failed' = None /\ pending' = None
       \/ /\ pending # r
          /\ UNCHANGED <<saved, failed, pending>>
    /\ sure' = (sure \/ (pending = r /\ patch[r].alone))
    /\ UNCHANGED <<row, page, got, deleting, files, name, renaming>>

\* onSuccess of useAutosave, in the editor that sent it and in the cache.
FilesSaved(r) ==
    /\ Heard(r, "written") /\ patch[r].what = "files"
    /\ patch' = [patch EXCEPT ![r] = Free]
    /\ cache' = IF cache = None THEN None
                ELSE [cache EXCEPT !.files = patch[r].value]
    /\ \/ /\ pending = r
          /\ saved' = patch[r].value /\ failed' = None /\ pending' = None
       \/ /\ pending # r
          /\ UNCHANGED <<saved, failed, pending>>
    /\ sure' = (sure \/ (pending = r /\ patch[r].alone))
    /\ UNCHANGED <<row, page, got, deleting, files, name, renaming>>

\* onSuccess of SandboxName.
Renamed(r) ==
    /\ Heard(r, "written") /\ patch[r].what = "name"
    /\ patch' = [patch EXCEPT ![r] = Free]
    /\ cache' = IF cache = None THEN None
                ELSE [cache EXCEPT !.name = patch[r].value]
    /\ \/ renaming = r /\ name' = patch[r].value /\ renaming' = None
       \/ renaming # r /\ UNCHANGED <<name, renaming>>
    /\ UNCHANGED <<row, page, got, deleting, files, saved, failed, pending, sure>>

\* Mutant: a failed save leaves the editor saving.
StuckRequestFailed(r) ==
    /\ failed' = IF pending = r THEN patch[r].value ELSE failed
    /\ renaming' = IF renaming = r THEN None ELSE renaming
    /\ UNCHANGED <<row, page, got, cache, deleting, files, saved, pending, name>>

\* onError of either.
RequestFailed(r) ==
    /\ \/ pending = r /\ pending' = None /\ failed' = patch[r].value
       \/ pending # r /\ UNCHANGED <<pending, failed>>
    /\ renaming' = IF renaming = r THEN None ELSE renaming
    /\ UNCHANGED <<row, page, got, cache, deleting, files, saved, name>>

Refused(r) ==
    /\ Heard(r, "refused")
    /\ patch' = [patch EXCEPT ![r] = Free]
    /\ RequestFailed(r)
    /\ UNCHANGED sure

\* The network fails: the request or its answer is lost, and what the API has
\* begun it goes on with.
AnswerLost(r) ==
    /\ patch[r].at # "free" /\ patch[r].heard
    /\ \/ patch' = [patch EXCEPT ![r].heard = FALSE]
       \/ patch[r].at = "sent" /\ patch' = [patch EXCEPT ![r] = Free]
    /\ RequestFailed(r)
    /\ sure' = FALSE

--------------------------------------------------------------------------
(* YourSandboxes: deleting *)

Delete ==
    /\ page = "list" /\ deleting = "no"
    /\ deleting' = "sent"
    /\ UNCHANGED <<row, patch, page, got, cache, shell, sure>>

DeleteRow ==
    /\ deleting = "sent" /\ row # None
    /\ row' = None
    /\ UNCHANGED <<patch, page, got, cache, deleting, shell, sure>>

Deleted ==
    /\ deleting = "sent" /\ row = None
    /\ deleting' = "done"
    /\ cache' = None
    /\ UNCHANGED <<row, patch, page, got, shell, sure>>
DeleteFails ==
    /\ deleting = "sent"
    /\ deleting' = "no"
    /\ UNCHANGED <<row, patch, page, got, cache, shell, sure>>

--------------------------------------------------------------------------
PersonActs ==
    \/ \E p \in Projects : Edit(p)
    \/ \E r \in Requests, n \in Names : Rename(r, n)
    \/ Retry
    \/ MayLeave /\ (LeaveEditor \/ Reload \/ Delete)

ThingsFail ==
    /\ MayFail
    /\ \/ \E r \in Requests : UpdateFails(r) \/ AnswerLost(r)
       \/ GetFails \/ DeleteFails

EditorOutside ==
    /\ edits < MaxEdits
    /\ edits' = edits + 1
    /\ PersonActs \/ ThingsFail

Handle(r) == FindOwned(r) \/ LoadForSave(r) \/ SaveRow(r) \/ Unheard(r)
Answered(r) == FilesSaved(r) \/ Renamed(r) \/ Refused(r)

EditorInside ==
    /\ UNCHANGED edits
    /\ \/ \E r \in Requests : Autosave(r) \/ Handle(r) \/ Answered(r)
       \/ Open \/ GetSandbox \/ Opened
       \/ DeleteRow \/ Deleted

EditorNext == EditorOutside \/ EditorInside

EditorSpec == EditorInit /\ [][EditorNext]_editorVars

\* The timer fires, the API answers, the browser runs what it answered.
EditorFairness ==
    /\ WF_editorVars(EditorInside /\ \E r \in Requests : Autosave(r))
    /\ \A r \in Requests : WF_editorVars(EditorInside /\ (Handle(r) \/ Answered(r)))

FairEditorSpec == EditorSpec /\ EditorFairness

--------------------------------------------------------------------------
(* Properties *)

\* "Where the latest edits are" (SaveIndicator.tsx:19): while the header says
\* Saved, the row holds the project on the screen.  It does not hold as it
\* stands: a rename that was found before a save and stored after it brings
\* the files of before back.
SavedMeansStored ==
    page = "editor" /\ Status = "saved" /\ row # None => row.files = files

\* The same, whatever is typed while a save is under way, fails, is refused or
\* retried, and wherever the editor is left and reopened in between, as long
\* as no two PATCHes overlapped, no answer was lost and nothing was opened
\* while a save was under way; and again as soon as a save has had the API to
\* itself.
SavedIsStored == sure => SavedMeansStored

\* One save at a time loses no edit: however typing, saves and failures
\* interleave, an editor that is left alone comes to say that everything is
\* saved, that the save failed, or that the project is too large.
EditsSettle ==
    (page = "editor" /\ Dirty)
    ~> (page # "editor" \/ Status \in {"saved", "error", "too-large"})

--------------------------------------------------------------------------
(* The inductive invariant of SavedIsStored *)

\* A PATCH carries what it says, and so does the entity its handler is to save.
PatchOK(r) ==
    /\ patch[r].at # "free" =>
          patch[r].value \in IF patch[r].what = "files" THEN Projects ELSE Names
    /\ patch[r].at \in {"found", "loaded"} =>
          patch[r].entity \in Row /\ patch[r].entity[patch[r].what] = patch[r].value

\* A PATCH that is alone is the only one, and nothing but the DELETE touches
\* the row between its reads and its write.
AloneOK(r) ==
    r \in UnderWay /\ patch[r].alone =>
       /\ \A q \in UnderWay : q = r
       /\ row # None /\ patch[r].at = "loaded" =>
             /\ "row" \notin patch[r].diff
             /\ "files" \notin patch[r].diff => row.files = patch[r].entity.files
       /\ row # None /\ patch[r].at \in {"found", "loaded"} /\ patch[r].what = "name" =>
             row.files = patch[r].entity.files
       /\ patch[r].at = "loaded" /\ patch[r].what = "name" =>
             "files" \notin patch[r].diff
       /\ row # None /\ patch[r].at = "written" /\ patch[r].what = "files" =>
             row.files = patch[r].value

\* What the tab shows, keeps and has just read of the project is p.
Shows(p) ==
    /\ page = "editor" => saved = p
    /\ got # None => got.files = p
    /\ cache # None => cache.files = p

\* While sure is true, whatever is under way is alone, and the tab agrees with
\* the row until a save is written; a save is that of the editor on the screen,
\* or there is none and nothing was opened since.
SureOK ==
    sure =>
       /\ \A r \in UnderWay : patch[r].alone
       /\ (row # None /\ \A r \in UnderWay : patch[r].at = "written" => patch[r].what = "name")
             => Shows(row.files)
       /\ \A r \in UnderWay :
             /\ patch[r].what = "name" /\ patch[r].at \in {"found", "loaded"} =>
                   Shows(patch[r].entity.files)
             /\ patch[r].what = "files" =>
                   /\ got = None
                   /\ page = "editor" => pending = r
                   /\ ~patch[r].heard => page # "editor" /\ cache = None

\* What the shell holds it holds while the editor is open; the save it awaits
\* is under way.
ShellOK ==
    /\ page = "editor" => {files, saved} \subseteq Projects /\ name \in Names
    /\ got # None => page = "loading"
    /\ pending # None => /\ page = "editor" /\ pending \in UnderWay
                          /\ patch[pending].what = "files" /\ patch[pending].heard
    /\ page # "list" => deleting # "sent"

EditorInv ==
    /\ EditorTypeOK /\ ShellOK /\ SureOK
    /\ \A r \in Requests : PatchOK(r) /\ AloneOK(r)
=============================================================================
