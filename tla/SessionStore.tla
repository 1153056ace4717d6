---------------------------- MODULE SessionStore ----------------------------
(***************************************************************************)
(* Saving the session (core/SessionStore.cpp, app/AppRunGuard.cpp): the    *)
(* file session.json, the copy kept of a version-1 file, and the marker of *)
(* a running process.  A save is one call on the window's thread, but the  *)
(* process may die between any two of its effects on the disk, so each of  *)
(* them is a step here.  The temporary file a save writes is read by no    *)
(* one until it is renamed; `saving` says how far it is.                   *)
(*                                                                         *)
(* A session is the tabs and which of them is active; zoom and window      *)
(* placement travel with it and are left out.  What to_json writes,        *)
(* from_json reads back, so a file holds a session, nothing, or Torn.      *)
(***************************************************************************)
EXTENDS TabList

VARIABLES
    file,      \* session.json
    bak,       \* session.v1.bak
    marker,    \* running.lock is there
    saving     \* the save in progress: its stage, its content, who asked

disk == <<file, bak, marker>>

NoFile == [version |-> 0, list |-> NoTabs]
Torn == [version |-> -1, list |-> NoTabs]
Session(list) == [version |-> 2, list |-> list]

NotSaving == [stage |-> "none", what |-> NoFile, why |-> "none"]

\* load_session: anything that is missing or does not parse is no session;
\* a version-1 file is migrated, which concerns the zoom alone.
load_session == IF file = Torn THEN NoTabs ELSE file.list

-----------------------------------------------------------------------------
(* The steps of save_session.                                              *)

BeginSave(what, why) == saving' = [stage |-> "probe", what |-> what, why |-> why]

\* Fault: a file that cannot be inspected is taken for one not worth keeping.
Inspects_FailOpen(probe) == probe # "Yes"

\* The probe's answers that let the save go on without a copy.
Inspects(probe) == probe = "No"

\* probe_existing_v1: a file that is there may always turn out unreadable.
Probes == CASE file = NoFile -> {"No"}
            [] file.version = 1 -> {"Yes", "Unknown"}
            [] OTHER -> {"No", "Unknown"}

SaveProbe ==
    /\ saving.stage = "probe"
    /\ \E probe \in Probes :
         saving' = [saving EXCEPT !.stage = CASE Inspects(probe) -> "write"
                                              [] probe = "Yes" -> "copy"
                                              [] OTHER -> "refused"]
    /\ UNCHANGED disk

\* copy_file overwrites the copy in place: failing, it may leave a part.
SaveCopy ==
    /\ saving.stage = "copy"
    /\ \/ bak' = file /\ saving' = [saving EXCEPT !.stage = "write"]
       \/ bak' \in {bak, Torn} /\ saving' = [saving EXCEPT !.stage = "refused"]
    /\ UNCHANGED <<file, marker>>

\* Fault: the session is written where it will be read.
SaveWrite_InPlace ==
    /\ saving.stage = "write"
    /\ file' = Torn
    /\ saving' = [saving EXCEPT !.stage = "replace"]
    /\ UNCHANGED <<bak, marker>>

\* The temporary file is created, written and flushed; a full disk shows
\* here and ends the save.
SaveWrite ==
    /\ saving.stage = "write"
    /\ saving' \in {[saving EXCEPT !.stage = "replace"], [saving EXCEPT !.stage = "refused"]}
    /\ UNCHANGED disk

\* One rename replaces the file, or leaves it as it was.
SaveReplace ==
    /\ saving.stage = "replace"
    /\ \/ file' = saving.what /\ saving' = [saving EXCEPT !.stage = "saved"]
       \/ file' = file /\ saving' = [saving EXCEPT !.stage = "refused"]
    /\ UNCHANGED <<bak, marker>>

SaveStep == SaveProbe \/ SaveCopy \/ SaveWrite \/ SaveReplace

SaveEnded == saving.stage \in {"saved", "refused"}
=============================================================================
