---------------------------- MODULE MCMainWindow ----------------------------
(***************************************************************************)
(* Two documents open in the session a crash left behind and two that are  *)
(* asked for besides; one of each two is encrypted.                        *)
(***************************************************************************)
EXTENDS MainWindow

CONSTANTS a, b, c, d

CrashedWith == <<[path |-> b, page |-> 1, slot |-> 0], [path |-> a, page |-> 1, slot |-> 0]>>
=============================================================================
