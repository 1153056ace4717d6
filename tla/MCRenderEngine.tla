-------------------------- MODULE MCRenderEngine --------------------------
(* Instances of RenderEngine for TLC: see the .cfg files.                  *)
EXTENDS RenderEngine

PageRender(page, invert, priority, text) ==
    [page |-> page, scale |-> 2, invert |-> invert, priority |-> priority,
     bypass_cache |-> FALSE, text |-> text]
Thumbnail(page) ==
    [page |-> page, scale |-> 1, invert |-> FALSE, priority |-> 3,
     bypass_cache |-> TRUE, text |-> FALSE]

\* A visible render that asks for its page's text, the same page prefetched
\* in the other polarity, and its thumbnail.
OnePage == {PageRender(1, FALSE, 0, TRUE), PageRender(1, TRUE, 1, FALSE), Thumbnail(1)}

\* One page with its text, and the same page prefetched.
WithText == {PageRender(1, FALSE, 0, TRUE), PageRender(1, FALSE, 1, FALSE)}

Ids2 == 1..2

WorkerSymmetry == Permutations(Workers)
===========================================================================
