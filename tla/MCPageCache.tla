---------------------------- MODULE MCPageCache ----------------------------
(***************************************************************************)
(* PageCacheClient and ContextFamily for TLC: what a tab's threads share,  *)
(* and the MuPDF contexts they use.  A behaviour runs one of the two.      *)
(***************************************************************************)
EXTENDS PageCacheClient, ContextFamily

VARIABLE part

SharedInit == part \in {"cache", "family"} /\ Init /\ FamilyInit

SharedNext ==
    /\ UNCHANGED part
    /\ \/ part = "cache" /\ Next /\ UNCHANGED familyVars
       \/ part = "family" /\ FamilyNext /\ UNCHANGED vars

SharedSpec == SharedInit /\ [][SharedNext]_<<part, vars, familyVars>>

BothSymmetry == Permutations(Pixmaps) \cup Permutations(Lists)

(* Only clear touches both tiers, and each in the same way whatever the other*)
(* holds: one of them at a time is in use here, L1 with two pages in both    *)
(* polarities, L2 with all pages.                                            *)
OneTier ==
    \/ \A p \in Pixmaps : image[p].bytes = 0
    \/ /\ \A d \in Lists : list_refs[d] = 0
       /\ \A p \in Pixmaps : image[p].key.page \in {1, 2}
=============================================================================
