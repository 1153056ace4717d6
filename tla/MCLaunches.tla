----------------------------- MODULE MCLaunches -----------------------------
(* One process whose reader opens a file and leaves: see the .cfg file.    *)
EXTENDS Launches

NothingListed == {<<>>}
=============================================================================
