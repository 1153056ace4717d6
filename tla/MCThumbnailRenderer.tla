------------------------ MODULE MCThumbnailRenderer ------------------------
(* Instances of ThumbnailRenderer for TLC: see the .cfg files.             *)
EXTENDS ThumbnailRenderer

PageRender == [page |-> 1, scale |-> 2, invert |-> FALSE, priority |-> 0,
               bypass_cache |-> FALSE, text |-> TRUE]
Thumbnail  == [page |-> 1, scale |-> 1, invert |-> FALSE, priority |-> 3,
               bypass_cache |-> TRUE, text |-> FALSE]

Both   == {PageRender, Thumbnail}
Thumbs == {Thumbnail}
Ids2   == 1..2
Ids3   == 1..3

WorkerSymmetry == Permutations(Workers)
============================================================================
