--------------------------- MODULE ContextFamily ----------------------------
(***************************************************************************)
(* The MuPDF contexts of one open document, from the opening of its view to*)
(* the last message about it.                                              *)
(*                                                                         *)
(* A Document (core/Document.cpp) shares a MuPDFRoot: the lock table and   *)
(* the context all others are cloned from.  A DocumentView keeps plain     *)
(* clones, dropped before its Document: one for the UI thread, one for the *)
(* cache, one for each render worker.  Whatever may outlive the view, a    *)
(* pixmap or a page's text on its way to the canvas or in the hand of a    *)
(* drag, travels with an EscrowContext: a clone and a share of the root.   *)
(* MuPDF frees the family's colour profiles through the root's context and *)
(* takes the root's locks at every drop, so the root must go last.         *)
(*                                                                         *)
(* Escrows is a pool: an escrow exists while its context, its share or its *)
(* object does.  obj is what its owner frees through it, hold who has it:  *)
(* the search session, a worker, the message queue, the view's text slot,  *)
(* the canvas's drag.  Two of these may share a text.  busy is the escrow a*)
(* thread is destroying, which takes it three steps; Ui names both the UI  *)
(* thread and its context.                                                 *)
(***************************************************************************)
EXTENDS Naturals, FiniteSets

CONSTANTS Workers, Escrows, Ui, Cache, NoEscrow

Owners == {"session", "queue", "slot", "drag"}

ASSUME FamilyConstants ==
    /\ Ui # Cache /\ ({Ui, Cache} \cup Owners) \cap Workers = {}
    /\ NoEscrow \notin Escrows

Threads == {Ui} \cup Workers
Places  == Owners \cup Workers
Objects == {"none", "sdoc", "pixmap", "text"}
Lives   == {"clone", "engine", "session", "open", "close_session", "close_engine",
            "close_docs", "close_workers", "close_cache", "close_clones", "close_slot",
            "close_doc", "close_root", "gone"}

VARIABLES
    life,       \* how far the view is opened or closed
    listening,  \* the canvas's window takes messages
    root_ctx,   \* the root's context is live
    doc_root,   \* Document::Impl shares the root
    doc_open,   \* the Document's fz_document
    clones,     \* the plain clones that are live
    wdocs,      \* the workers whose fz_document is open
    hand,       \* the workers that own a pixmap
    cached,     \* the page cache has references of its own
    ectx, eroot, obj, hold, \* of each escrow
    busy

escrowVars == <<ectx, eroot, obj, hold>>
viewVars   == <<doc_root, doc_open, clones, wdocs, cached>>
familyVars == <<life, listening, root_ctx, viewVars, hand, escrowVars, busy>>

FamilyTypeOK ==
    /\ life \in Lives
    /\ listening \in BOOLEAN /\ root_ctx \in BOOLEAN
    /\ doc_root \in BOOLEAN /\ doc_open \in BOOLEAN /\ cached \in BOOLEAN
    /\ clones \subseteq {Ui, Cache} \cup Workers
    /\ wdocs \subseteq Workers /\ hand \subseteq Workers
    /\ ectx \subseteq Escrows /\ eroot \subseteq Escrows
    /\ obj \in [Escrows -> Objects]
    /\ hold \in [Escrows -> SUBSET Places]
    /\ busy \in [Threads -> Escrows \cup {NoEscrow}]

\* A Document that has been opened, and the view's constructor about to run.
FamilyInit ==
    /\ life = "clone" /\ listening = TRUE
    /\ root_ctx = TRUE /\ doc_root = TRUE /\ doc_open = TRUE
    /\ clones = {} /\ wdocs = {} /\ hand = {} /\ cached = FALSE
    /\ ectx = {} /\ eroot = {}
    /\ obj = [e \in Escrows |-> "none"]
    /\ hold = [e \in Escrows |-> {}]
    /\ busy = [t \in Threads |-> NoEscrow]

-----------------------------------------------------------------------------
(* EscrowContext.                                                          *)

Idle(t) == busy[t] = NoEscrow

Unused(e) ==
    /\ e \notin ectx /\ e \notin eroot /\ obj[e] = "none" /\ hold[e] = {}
    /\ \A t \in Threads : busy[t] # e

\* EscrowContext::clone_from: a share of the root and a clone; then thread t gives
\* it object o to hold at the places p, or destroys it if it got no object.
Escrow(t, e, o, p) ==
    /\ Unused(e)
    /\ eroot' = eroot \cup {e} /\ ectx' = ectx \cup {e}
    /\ obj' = [obj EXCEPT ![e] = o]
    /\ hold' = [hold EXCEPT ![e] = IF o = "none" THEN {} ELSE p]
    /\ busy' = IF o = "none" THEN [busy EXCEPT ![t] = e] ELSE busy

\* Thread t takes escrow e from place p to the places q, and destroys it if that
\* was the last place.
Move(t, e, p, q) ==
    LET left == (hold[e] \ {p}) \cup q
    IN  /\ hold' = [hold EXCEPT ![e] = left]
        /\ busy' = IF left = {} THEN [busy EXCEPT ![t] = e] ELSE busy
        /\ UNCHANGED <<ectx, eroot, obj>>

\* The root's context goes with the last share.
RootAfter(doc, shares) == root_ctx /\ (doc \/ shares # {})

\* What the escrow was for is freed through its context,
FreeObject(t) ==
    LET e == busy[t]
    IN  /\ ~Idle(t) /\ obj[e] # "none"
        /\ obj' = [obj EXCEPT ![e] = "none"]
        /\ UNCHANGED <<life, listening, root_ctx, viewVars, hand, ectx, eroot, hold, busy>>

\* then EscrowContext::reset drops the context,
DropContext(t) ==
    LET e == busy[t]
    IN  /\ ~Idle(t) /\ obj[e] = "none" /\ e \in ectx
        /\ ectx' = ectx \ {e}
        /\ UNCHANGED <<life, listening, root_ctx, viewVars, hand, eroot, obj, hold, busy>>

\* and then releases the share.
\* Fault: the share first, and the context after it.
Release_First(t) ==
    LET e == busy[t]
    IN  /\ ~Idle(t) /\ obj[e] = "none" /\ e \in eroot
        /\ eroot' = eroot \ {e}
        /\ root_ctx' = RootAfter(doc_root, eroot')
        /\ busy' = IF e \in ectx THEN busy ELSE [busy EXCEPT ![t] = NoEscrow]
        /\ UNCHANGED <<life, listening, viewVars, hand, ectx, obj, hold>>

Release(t) ==
    LET e == busy[t]
    IN  /\ ~Idle(t) /\ obj[e] = "none" /\ e \notin ectx
        /\ eroot' = eroot \ {e}
        /\ root_ctx' = RootAfter(doc_root, eroot')
        /\ busy' = [busy EXCEPT ![t] = NoEscrow]
        /\ UNCHANGED <<life, listening, viewVars, hand, ectx, obj, hold>>

-----------------------------------------------------------------------------
(* DocumentView's constructor and destructor, on the UI thread.  Either of *)
(* the constructor's steps may throw; the members already made then go in  *)
(* the order of the destructor.                                            *)

At(from) == life = from /\ Idle(Ui)

\* ui_ctx and cache_ctx: a clone may fail.
CloneContexts ==
    /\ At("clone")
    /\ \E made \in SUBSET {Ui, Cache} :
          /\ clones' = made
          /\ life' = IF made = {Ui, Cache} THEN "engine" ELSE "close_clones"
    /\ UNCHANGED <<listening, root_ctx, doc_root, doc_open, wdocs, cached, hand, escrowVars, busy>>

\* RenderEngine::RenderEngine: first every worker's clone, then every document and
\* its password, then the threads; it rolls back what it has if one fails.
StartEngine ==
    /\ At("engine")
    /\ \E made \in SUBSET Workers : \E opened \in SUBSET made :
          /\ opened # {} => made = Workers
          /\ clones' = clones \cup made
          /\ wdocs' = opened
          /\ life' \in {"close_docs"} \cup IF opened = Workers THEN {"session"} ELSE {}
    /\ UNCHANGED <<listening, root_ctx, doc_root, doc_open, cached, hand, escrowVars, busy>>

\* SearchSession::SearchSession: no escrow, or one whose document fails to open, or
\* one that refuses the password, or the view is there.
StartSession ==
    /\ At("session")
    /\ \/ life' = "close_engine" /\ UNCHANGED <<escrowVars, busy>>
       \/ \E e \in Escrows, o \in {"none", "sdoc"} :
             /\ Escrow(Ui, e, o, {"session"})
             /\ life' \in IF o = "sdoc" THEN {"open", "close_session"} ELSE {"close_engine"}
    /\ UNCHANGED <<listening, root_ctx, viewVars, hand>>

\* DocumentView::~DocumentView.
CloseView ==
    /\ At("open")
    /\ life' = "close_session"
    /\ UNCHANGED <<listening, root_ctx, viewVars, hand, escrowVars, busy>>

\* ~SearchSession, the tasks having drained: its document, then its escrow.
CloseSession ==
    /\ At("close_session")
    /\ life' = "close_engine"
    /\ \E e \in Escrows : "session" \in hold[e] /\ Move(Ui, e, "session", {})
    /\ UNCHANGED <<listening, root_ctx, viewVars, hand>>

\* A worker that is between two requests.
Resting(w) == w \notin hand /\ Idle(w) /\ \A e \in Escrows : w \notin hold[e]

\* ~RenderEngine joins the workers,
JoinWorkers ==
    /\ At("close_engine")
    /\ \A w \in Workers : Resting(w)
    /\ life' = "close_docs"
    /\ UNCHANGED <<listening, root_ctx, viewVars, hand, escrowVars, busy>>

\* and drops their documents and then their contexts; the cache, its context, the
\* UI thread's and the text slot follow, and then the Document: ~Impl drops the
\* fz_document, and its share of the root goes last.
CloseStep(from, to) == At(from) /\ life' = to /\ UNCHANGED <<listening, hand, ectx, eroot, obj>>

DropDocs ==
    /\ CloseStep("close_docs", "close_workers")
    /\ wdocs' = {}
    /\ UNCHANGED <<root_ctx, doc_root, doc_open, clones, cached, hold, busy>>

DropWorkers ==
    /\ CloseStep("close_workers", "close_cache")
    /\ clones' = clones \ Workers
    /\ UNCHANGED <<root_ctx, doc_root, doc_open, wdocs, cached, hold, busy>>

DropCache ==
    /\ CloseStep("close_cache", "close_clones")
    /\ cached' = FALSE
    /\ UNCHANGED <<root_ctx, doc_root, doc_open, clones, wdocs, hold, busy>>

DropClones ==
    /\ CloseStep("close_clones", "close_slot")
    /\ clones' = {}
    /\ UNCHANGED <<root_ctx, doc_root, doc_open, wdocs, cached, hold, busy>>

DropSlot ==
    /\ CloseStep("close_slot", "close_doc")
    /\ \/ \E e \in Escrows : "slot" \in hold[e] /\ Move(Ui, e, "slot", {})
       \/ (\A e \in Escrows : "slot" \notin hold[e]) /\ UNCHANGED <<hold, busy>>
    /\ UNCHANGED <<root_ctx, viewVars>>

DropDocument ==
    /\ CloseStep("close_doc", "close_root")
    /\ doc_open' = FALSE
    /\ UNCHANGED <<root_ctx, doc_root, clones, wdocs, cached, hold, busy>>

ReleaseRoot ==
    /\ CloseStep("close_root", "gone")
    /\ doc_root' = FALSE
    /\ root_ctx' = RootAfter(FALSE, eroot)
    /\ UNCHANGED <<doc_open, clones, wdocs, cached, hold, busy>>

CloseMember ==
    DropDocs \/ DropWorkers \/ DropCache \/ DropClones \/ DropSlot \/ DropDocument \/ ReleaseRoot

-----------------------------------------------------------------------------
(* The render workers, while the engine is there.                          *)

Rendering == life \in {"open", "close_session", "close_engine"} /\ wdocs = Workers

\* A pixmap is rendered, or found in the cache; the cache may take a reference.
Render(w) ==
    /\ Rendering /\ Resting(w)
    /\ hand' = hand \cup {w}
    /\ cached' \in {cached, TRUE}
    /\ UNCHANGED <<life, listening, root_ctx, doc_root, doc_open, clones, wdocs, escrowVars, busy>>

\* post_render_done_impl, post_strip_done: an escrow for the pixmap,
EscrowPixmap(w, e) ==
    /\ w \in hand /\ Idle(w)
    /\ Escrow(w, e, "pixmap", {w})
    /\ hand' = hand \ {w}
    /\ UNCHANGED <<life, listening, root_ctx, viewVars>>

\* or none, and the pixmap is dropped through the worker's context, as it is by
\* the callbacks of thumbnails and prefetches;
FreePixmap(w) ==
    /\ w \in hand /\ Idle(w)
    /\ hand' = hand \ {w}
    /\ UNCHANGED <<life, listening, root_ctx, viewVars, escrowVars, busy>>

\* TextPageAccess::build on the worker's document: a failed build destroys the
\* handle, and with it the escrow.
BuildText(w, e) ==
    /\ Rendering /\ Resting(w)
    /\ \E o \in {"none", "text"} : Escrow(w, e, o, {w})
    /\ UNCHANGED <<life, listening, root_ctx, viewVars, hand>>

\* then it is posted, or it is destroyed here: no memory, no window, not wanted.
Post(w, e) ==
    /\ w \in hold[e] /\ Idle(w)
    /\ \E q \in {{"queue"}, {}} :
          /\ q # {} => listening
          /\ Move(w, e, w, q)
    /\ UNCHANGED <<life, listening, root_ctx, viewVars, hand>>

-----------------------------------------------------------------------------
(* The canvas and the view's text, on the UI thread.                       *)

Held(p) == \E e \in Escrows : p \in hold[e]

\* WM_USER_RENDER_DONE, WM_USER_STRIP_DONE: adopted, used or not, and destroyed.
\* WM_USER_TEXT_READY: DocumentView::offer_text keeps the current page's text if
\* the slot is empty, whatever does not stay is destroyed.
Deliver(e) ==
    /\ Idle(Ui) /\ listening
    /\ "queue" \in hold[e]
    /\ \E q \in {{"slot"}, {}} :
          /\ q # {} => obj[e] = "text" /\ life = "open" /\ ~Held("slot")
          /\ Move(Ui, e, "queue", q)
    /\ UNCHANGED <<life, listening, root_ctx, viewVars, hand>>

\* DocumentView::text_for at a press: the slot's text shared with the drag, or a new
\* one, which the slot keeps if it is the current page's.
Press(e) ==
    /\ At("open") /\ listening /\ ~Held("drag")
    /\ \/ "slot" \in hold[e] /\ Move(Ui, e, "slot", {"slot", "drag"})
       \/ \E o \in {"none", "text"} : \E p \in {{"drag"}, {"slot", "drag"}} :
             /\ "slot" \in p => ~Held("slot")
             /\ Escrow(Ui, e, o, p)
    /\ UNCHANGED <<life, listening, root_ctx, viewVars, hand>>

\* DocumentView::set_current_page empties the slot.
Turn(e) ==
    /\ At("open") /\ "slot" \in hold[e]
    /\ Move(Ui, e, "slot", {})
    /\ UNCHANGED <<life, listening, root_ctx, viewVars, hand>>

\* The drag ends, or the canvas that outlived the view is given another one.
EndDrag(e) ==
    /\ Idle(Ui) /\ "drag" \in hold[e]
    /\ Move(Ui, e, "drag", {})
    /\ UNCHANGED <<life, listening, root_ctx, viewVars, hand>>

\* The program ends: the canvas's window dies before the tabs, with its queue.
WindowDies ==
    /\ At("open") /\ listening
    /\ listening' = FALSE
    /\ UNCHANGED <<life, root_ctx, viewVars, hand, escrowVars, busy>>

FamilyNext ==
    \/ \E t \in Threads : FreeObject(t) \/ DropContext(t) \/ Release(t)
    \/ CloneContexts \/ StartEngine \/ StartSession
    \/ CloseView \/ CloseSession \/ JoinWorkers \/ CloseMember
    \/ \E w \in Workers : Render(w) \/ FreePixmap(w)
    \/ \E w \in Workers, e \in Escrows : EscrowPixmap(w, e) \/ BuildText(w, e) \/ Post(w, e)
    \/ \E e \in Escrows : Deliver(e) \/ Press(e) \/ Turn(e) \/ EndDrag(e)
    \/ WindowDies

FamilySpec == FamilyInit /\ [][FamilyNext]_familyVars

-----------------------------------------------------------------------------
(* Properties.                                                             *)

\* The root's context outlives every context and document of its family,
\* whichever thread drops the last of them and wherever the opening failed (#61).
RootGoesLast ==
    (clones # {} \/ ectx # {} \/ doc_open \/ wdocs # {}) => root_ctx

\* Each object is freed through a context that is still there: a worker's document
\* and pixmap through the worker's, the cache's references through the cache's, a
\* message's pixmap, a text and the session's document through their escrow's.
FreedThroughLive ==
    /\ wdocs \subseteq clones /\ hand \subseteq clones
    /\ cached => Cache \in clones
    /\ \A e \in Escrows : obj[e] # "none" => e \in ectx

\* A worker never holds the last share of the root: while one has a pixmap or an
\* escrow of its own, the Document has not released its own share.
WorkersInside ==
    (hand # {} \/ \E w \in Workers : ~Resting(w)) => doc_root

\* When the view is gone, the queue handled and the drag over, nothing is left;
\* what a dead window never received is what may stay (PdfCanvas.cpp:179).
NothingLeft ==
    (life = "gone" /\ (\A e \in Escrows : hold[e] = {}) /\ (\A t \in Threads : Idle(t)))
        => ~root_ctx /\ clones = {} /\ ectx = {} /\ eroot = {}

FamilySound == RootGoesLast /\ FreedThroughLive /\ WorkersInside /\ NothingLeft
=============================================================================
