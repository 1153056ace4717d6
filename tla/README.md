# LitePDF in TLA+

A verification development for LitePDF, the Win32 PDF/CBZ/ePub viewer of this
repository. It models the parts of the program whose difficulty lies in state
and order rather than in pixels: worker threads, caches with reference counts,
cancellation, messages that arrive after the world has changed, and teardown.
TLC checks the models on small instances; TLAPS proves the main theorems for
every size.

All paths below are relative to `src/`.

## 1. The system

LitePDF is one process with one UI thread. A window holds tabs; each tab owns a
`DocumentView`, which owns the opened `Document`, a `RenderEngine` with two
worker threads (`RenderEngine` clones a MuPDF context and opens a document for
each), a `ThumbnailRenderer` and a `SearchSession`. One `SearchDispatcher` with
two more threads serves the searches of all tabs. Threads talk to the UI thread
by posted window messages; the UI thread talks to them through queues, atomics
and destructors that wait.

| Component | State | Operations | Interacts with | Hard behaviour | Correct when |
|---|---|---|---|---|---|
| Page cache `src/core/PageCache.cpp` | two LRU tiers (pixmaps with a byte budget and a pin, display lists), each a map and an order list | get, put, contains, retain_l1_pages, release_l1_pin, clear | engine workers, UI thread (trim) | concurrent put of one key, oversized entries, late puts of a background tab | reference counts exact; map, list and byte count agree; bounds and pin respected; LRU |
| Render engine `src/core/RenderEngine.cpp` | priority heap, condition variable, stop flag; per worker the request, pixmap and list in hand | submit, cancel, cancel_all_below_priority, the worker loop, begin_shutdown, destructor | page cache, MuPDF, its submitters' callbacks, `text_wanted` | cancel flag read at four places, late cancel after a hit, text built without a lock, shutdown drains | each request finishes once with the pixmap it asked for; nothing leaks; teardown ends |
| Thumbnail renderer `src/core/ThumbnailRenderer.cpp` | pending count, cancel flag, sink | submit, cancel_pending, destructor's spin | render engine | callback against destruction | no callback outlives the renderer; the wait ends; a cancel is reported only for queued work |
| Search dispatcher `src/app/SearchDispatcher.cpp` | lanes of owner queues, owners in flight, service counter | submit, discard, next_ready, release, worker loop, destructor | search sessions | one task per owner, fairness between owners, drain before exit, discard while running | turns taken, nothing lost or run twice, workers never stuck |
| Search session `src/core/SearchSession.cpp` | query epoch, hits, cursor, pages remaining, pending count, abort cookies | set_query, clear, next, prev, set_reference_page, tasks, destructor | dispatcher, MuPDF, observers | stale tasks, page order, cursor under insertion, drain | hits are of the current query only, in order, complete when it says so; the destructor leaves no task behind |
| Cross-tab search `src/app/CrossTabSearch.cpp` | records of the tabs of a dispatch, sentinel, hits | dispatch, clear, chained observers | search sessions, main window, results panel | a tab closing, a new dispatch while tasks run | no record of a closed view; hits of the live dispatch only; observers restored |
| Main window `src/ui/MainWindow.cpp` | active tab, opens in flight, restore chain, find state | message handlers | everything | nested modal loops, failed opens, restore interleaved with user opens | every restored entry handled once, session saved when quiet |
| Tab manager `src/ui/TabManager.cpp`, `src/core/TabList.cpp` | the tabs' order, the active index | add, close, set_active, cycle | main window | callbacks re-entering, active tab across closes | the active index names a tab, the canvas holds its view |
| Page canvas `src/ui/PdfCanvas.cpp` | view epoch, render sequence, two page slots, anchor | set_view, kick_render, RENDER_DONE, TEXT_READY | render engine | completions after navigation, half a dual page failing | shows only what was asked for last; the anchor is applied once |
| Strip `src/ui/PdfCanvasStrip.cpp`, `src/ui/detail/StripSchedule.hpp` | a slot per page near the viewport | passes, completions, clear | render engine | answers that never come | no slot waits for ever; no answer of a former request is taken |
| Thumbnail pane `src/ui/ThumbnailPane.cpp`, `src/ui/detail/ThumbRequests.hpp` | request id per page, bitmap cache | draw, ready, cancelled, clear | thumbnail renderer | notices of former requests | a visible page is asked for again |
| Session file `src/core/SessionStore.cpp`, `src/core/SessionState.cpp` | session.json, its backup and temporary | save, load | main window | crash between steps, failing I/O | the old session or the new is always loadable |
| Run marker and instance `src/app/AppRunGuard.cpp`, `src/app/SingleInstance.cpp`, `src/main.cpp` | marker file, named mutex | start, clean exit, forward | other processes | start against exit | an abnormal end is noticed; one process past the gate; a file reported as delivered is opened |
| Find bar, results panel `src/ui/FindBar.cpp`, `src/ui/ResultsPanel.cpp`, `src/ui/detail/PostCoalescer.hpp` | a gate over posted updates | claim, release, post_failed | search session | update against claim, post failure | the last update reaches the screen |
| Document `src/core/Document.cpp`, `src/core/EscrowContext.cpp`, `src/core/MuPDFRoot.cpp` | MuPDF document, one lock | open, authenticate, page sizes, text | everyone | context lifetimes | a context outlives what was made with it |
| Comics `src/core/CbzPageSizer.cpp`, `src/core/ZipReadAhead.cpp` | page sizes, a read window | size, fill | document | buffer window at its limits | bytes read are the file's |
| Printing `src/printing/PrintJob.cpp` | page loop, abort flag | run | UI thread, GDI | abort inside the pump, failing calls | every started page or document is ended or aborted |
| Recent files `src/core/MruList.cpp` | a list of paths, and its values in the registry | load, push, remove, save | main window, other processes | a death in mid-save, an index used after a message loop | no file twice; the registry's list is the window's |
| Selection, chrome, CLI | drag state; controls | | | little | |

`PROJECT.json` lists every component with its sources and says of each whether
it is modelled; its `hazards` list the lines where this code can go wrong in a
way a unit test would hardly show.

How the parts meet: the UI thread calls `RenderEngine::submit` and
`SearchSession::set_query`, which queue work and return; workers call
`on_complete`, `on_text` and `on_update`, which post a message; the message's
handler runs later on the UI thread, when the tab, the page or the query it
speaks of may be gone. Destructors run on the UI thread and wait for workers:
`~ThumbnailRenderer` and `~SearchSession` spin on a count, `~RenderEngine` and
`~ThreadPoolDispatcher` join.

## 2. The modules

| Module | Models | How it corresponds to the code |
|---|---|---|
| `PageCache` | `PageCache.cpp` | one operator per method, named after it; the two LRU lists as sequences, the maps as functions, MuPDF's reference counts as `pix_refs` and `list_refs` |
| `PageCacheClient` | the callers of one cache | each call holds the cache mutex from start to end, so a call is one step; what a thread keeps between two calls is the references it owns |
| `RenderEngine` | `RenderEngine.cpp` with the cache, and its callers | a worker is split at every lock, atomic read and callback (`pc`); the priority queue is a set and an order; condition-variable waits, notifies and spurious wakeups are steps |
| `RenderService` | what the engine promises its callers | abstract: requests are submitted, withdrawn and finished once; closing waits |
| `ThumbnailRenderer` | `ThumbnailRenderer.cpp` on the engine | extends `RenderEngine`'s steps with the count, the callback's report and `~DocumentView`'s order of destruction |
| `SearchDispatcher` | `SearchDispatcher.cpp` | lanes of owner queues as sequences of records with the source's field names; worker loop split where the mutex is released |
| `SearchService` | what the dispatcher promises a session | abstract: a task is started once or discarded, an owner's one at a time and in order |
| `SearchSession` | `SearchSession.cpp` on `SearchService` | a scan task and `set_query` are split at each lock and each read of the epoch outside one |
| `CrossTabSearch` | `CrossTabSearch.cpp`, and `MainWindow.cpp`'s tabs, results panel and find bar around it | sessions reduced to what `SearchSession` shows; a view is an address the allocator reuses; chained observers are sequences of dispatches |
| `SearchPosts` | `make_search_update_poster`, `on_search_update_posted`, `PostCoalescer.hpp`, the overlay of hits | a worker in the poster is split at the claim, the post and the report of a failed post; the handler at the release and at each of the three things it refreshes |
| `FindBar` | `FindBar.cpp`, and `MainWindow.cpp`'s and `ResultsPanel.cpp`'s keyboard around it | typing, mode buttons, the pause timer, Enter, Escape, opening, closing, tab switches: an action each; a session is the query it holds |
| `TabList` | `core/TabList.cpp` and the list part of `TabManager.cpp` | operators on a record of the tabs and the active index |
| `TabManager` | `TabManager.cpp`, `on_tab_switch` | presses are remembered as indexes, as in the code, while commands move the tabs under them |
| `SessionStore` | `SessionStore.cpp`, `AppRunGuard.cpp` | a save is a sequence of steps on the disk, so that a death of the process falls between any two |
| `MainWindow` | `MainWindow.cpp`'s opening, restoring, saving and closing, `main.cpp`'s start | every dialog is a nested message loop: `modals` is the stack of handlers suspended in one, and only the topmost can go on |
| `PdfCanvas` | `PdfCanvas.cpp` in its paged layouts, `DocumentView`'s page and zoom | an action is one window message; the functions it calls are operators from canvas to canvas, composed in the code's order |
| `StripGeometry`, `StripViewport` | the headers `StripLayout`, `StripScroll`, `StripScrollbar`, `StripCarry`, `StripViewport` | pure operators with the headers' names; a length is a whole number of half DIPs |
| `PdfCanvasStrip` | `PdfCanvasStrip.cpp`, `StripSchedule.hpp`, `StripCompletion.hpp` | a pass (retain, prune, cancel, choose, submit) is part of each message that ends in one; the cache is the L1 keys with their bytes |
| `CanvasLayout` | the layout switches, tab switch and view commands, across page, spread and strip | the same canvas reduced to where the reader is: page, offset, pending anchor, the strip's pin and thumb |
| `CanvasGestures` | mouse and capture in `PdfCanvas.cpp`, `SelectionDrag.hpp` | `GestureState`, `ClickCounter` and the capture, with a Windows that may refuse or take away the capture and pairs clicks on its own |
| `PrintJob` | `PrintJob.cpp`, `PrintProgressDlg.cpp`, `PrintRange.cpp`, and `WM_DESTROY` around them | `run` is split at each GDI call, each of which may fail, and at each pump, in which a cancel, a close or a quit is dispatched; what follows the pump is where the code goes on |
| `ContextFamily` | `MuPDFRoot.cpp`, `EscrowContext.cpp`, the contexts and documents of `Document.cpp`, `RenderEngine.cpp` and `SearchSession.cpp`, `~DocumentView` | a share of the root, a context, its object and its owners are sets of escrows; a view's opening may fail at each clone, and its destructors are steps |
| `Launches` | `main.cpp`'s gate and end, `SingleInstance.cpp`, `MruList.cpp`, `on_copydata`, `open_tab_async`, `~MainWindow` | the processes of one user, each a record of where it is, its list, its save and its box; a save writes one registry value a step, so that a death falls between any two; the members go in the opposite of their declared order |
| `ThumbnailPane` | `ThumbnailPane.cpp`, `ThumbCache.cpp`, `ThumbRequests.hpp` | rows drawn by Windows, requests in the engine, posts in any order of answers and cancel notices |
| `Filter` | | the elements of a sequence that are in a set, as a function that the proofs can reason about |
| `MC*` | | instances for TLC: `MCDesk`, `MCFind` and `MCPageCache` join several parts, the others instantiate one module |
| `DataTheorems` | | lemmas about sequences, filtered sequences, sums of bytes and finite sets that several proofs need |
| `PageCache_proofs`, `PageCacheClient_proofs` | | the cache's operations one by one; its clients, the contexts of `ContextFamily`, and `CanvasLayout` with `StripViewport` and `StripGeometry` |
| `RenderEngine_proofs` | | the engine, its implementation of `RenderService`, the thumbnail renderer |
| `SearchDispatcher_proofs`, `SearchSession_proofs` | | the dispatcher and its implementation of `SearchService`; the session |
| `Find_proofs` | | `CrossTabSearch`, `FindBar`, `SearchPosts`, `Launches` |
| `Desk_proofs` | | `TabManager`, `CanvasGestures`, `SessionStore`, `MainWindow`, `PrintJob`, `ThumbnailPane`, `PdfCanvasStrip` with `StripViewport` and `StripGeometry` |

Composition: `RenderEngine` uses `PageCache`'s operators, `ThumbnailRenderer`
extends `RenderEngine`, `SearchSession` runs on an instance of
`SearchService`, `CrossTabSearch` drives abstracted sessions, `MainWindow`
extends `SessionStore` and `TabList`, and the strip and the layouts share
`StripViewport`. Two refinements tie the layers together: `RenderEngine`
implements `RenderService` and `SearchDispatcher` implements `SearchService`, so
the session is checked on the promise that the dispatcher was shown to keep.

Definitions whose name ends in `_Something` next to one without it (for
instance `Drained_Always` and `Drained`) are faults: each is the definition as a
plausible mistake would have written it. `PROJECT.json` names, for each property,
a fault that breaks it; where a property joins several parts, the other faults
break the other parts.

What is abstracted: pixels, text and layout (a pixmap is a key and a size, a
hit is a query, a page and a number), MuPDF (a call succeeds, fails, or is cut
short where a cookie is set), logging. A failure is possible wherever the code
handles one: a render, a post, a save's write or rename, a page's scan. Where
geometry decides what happens (which pages the strip asks for, whether a jump
lands, when the wheel turns the page), it is modelled, in integers small enough
to enumerate and with page heights chosen so that rounding, clamping and a page
shorter than the window occur.

## 3. The runs

| Run | Question | Instance | Why it is enough |
|---|---|---|---|
| `cache` | What the threads of a tab share, in two parts. The cache: do reference counts, the lists and maps, the byte budget, the pin and the LRU order stay right under any order of calls? The contexts: does each MuPDF context outlive what was made with it? | 3 pages, 3 pixmaps, 3 display lists, room for 2 per tier, sizes 2 and 5 on a budget of 4 | three objects for two places evict; two of size 2 fit, one of size 5 never does. `Shown = {{1}}`: one page is pinned and two are not. `MaxHeld` bounds a thread's references. The constraint `OneTier` keeps states that use one tier at a time: the tiers share no state, and an operation on one leaves the other's variables. The contexts: 2 workers and 3 escrows, so that a posted page, its text and a drag may each hold one while the view closes |
| `engine` | Does every request finish once, with what it asked for, leaking nothing, and does the engine implement `RenderService`? | 2 workers, 2 requests on one page (kinds `OnePage`: visible with text, prefetch in the other polarity, thumbnail), one entry per tier | two workers on one page race for the same list and pixmap, and a tier of one entry makes each put evict |
| `engine_d17` | Is a cancelled request always answered? (finding) | 1 worker | |
| `thumbnails` | Do the renderer's and the engine's destructors wait for exactly the callbacks that remain? | 2 workers, 2 requests | `L2Capacity = 0`: every list is refused by the cache, the worker's own reference must do; the cache's hits are the subject of `engine` |
| `dispatcher` | Is each task run once, an owner's one at a time and in order; do owners take turns, is every task taken, does the destructor return? | 2 workers, 2 owners, 2 lanes, 3 tasks | an owner with two tasks beside another's one, in one lane or in two |
| `search_session` | Are the hits whole, ordered and of the current query, does the cursor stay on its hit, is the drain exact? | 3 pages from page 2, so that blocks land in an empty list, in front and in the middle; page 1 unreadable at will; 2 generations | the second generation supersedes the first at each of its steps; a third would meet the same two kinds of stale task |
| `find` | Searching as the reader sees it, in three parts, the layouts, and the processes. All tabs: are observers restored, does the list end as the sessions', is no dead view read? The bar: is what it shows what was asked for, and the keyboard with something visible? The posts: does the last update reach the screen? The layouts (`CanvasLayout`): do the strip's thumb, page and scroll stay in step, and does the reader keep the place from page to spread to strip and back, and from tab to tab? The processes (`Launches`): is one the primary, is what is reported as delivered opened, and is the list of recent files kept? | all tabs: 2 addresses, 3 tabs ever, 2 searches, 2 pages. The bar: the empty text and one that is no regular expression, 2 tabs. The posts: 2 workers, 2 pages, 2 queries or clears. The layouts: two tabs of the same three pages, 2 zooms and heights, 2 hits, 2 moves (`MaxMoves`) between the switches. The processes: 2, with a file or without; a list of 2 that is full, 1 request of the reader | a tab may reopen at the address of a closed one; the second search, of panel or find bar, meets the first at each step; two workers and the UI thread meet in the gate, and each may lose its post. The text is valid as plain text and bad as an expression, so all modes differ. The switches of the layouts are unbounded, the moves are what a switch must carry; the hits are on the right page of a spread and on one that a window shows whole or not by the zoom. A second start meets the first at every step of its life, and may become the primary after it; a file pushes another out, or is there already. A third start is left out: it could also find the mutex of a second that is about to give it back, and then finds no window, as with a primary that closes |
| `cross_tab_hidden` | Does a dispatch's record ever outlive its tab? (finding) | 2 tabs, 1 search | |
| `desk` | The parts of the UI thread, one at a time: see the next table | | |
| `restore_prompt` | Does a password prompt of the restore chain keep its slot? (finding) | as the window below | |
| `restore_lost` | Is the full session offered again after an exit in mid-restore? (finding) | as the window below | |
| `exit_open` | Does the dispatcher outlive the threads that open documents? (finding) | 1 process, 1 document | |

`cache`, `find` and `desk` are groups: the first state chooses a `part`, a behaviour
runs that part and leaves the others as they begin, and a property about one part
holds of the others' initial states. The parts share no state in the models, as
each is a separate question.

| Part of `desk` | Question | Instance | Why it is enough |
|---|---|---|---|
| window (`MainWindow`) | Does the restore chain bring its tabs one at a time, in order and to the end; is the session file whole, and the marker true? | 4 documents, 2 of them encrypted, 2 in the crashed session, 1 asked for besides, 3 tabs, 1 process | `Init` holds every combination of marker, session file and backup that a start can find, so one process meets what any earlier one may have left, and `MaxRuns = 1` loses nothing. One document beside the two of the chain can come before, between, under a prompt and after |
| tabs (`TabManager`) | Does the canvas hold the active tab's view? | 3 tabs | left of, at and right of the active one |
| gestures (`CanvasGestures`) | Is every drag ended, and are clicks counted (both in `GestureWhole`)? | 2 pages, clicks up to 4 | a triple click and the one that starts over |
| canvas (`PdfCanvas`) | Is the page on screen the one asked for, at the place asked for? | a document of 3 pages (one pair and a single page in the spread) and one of 1, 2 zooms, 2 heights, 4 batches of renders | a first view, two that supersede it, and one more, with the answers in any order; at each zoom some page fits one window and not the other |
| strip (`PdfCanvasStrip`) | Is each visible page served, and each bitmap what its slot says? | 3 pages of different heights, a window of 1 or 2 of them, 2 zooms, L1 of 3 pages by a budget of 24, 3 requests, 2 view switches | a slot is promoted, cancelled, superseded and answered late; the budget refuses what the count of pages would admit |
| pane (`ThumbnailPane`) | Does each visible row get its bitmap? | 3 pages, 2 rows, room for 2 bitmaps, 3 requests, 2 scrolls or hides | a third page evicts, and a page is asked for a second time while the notice about its first request is under way |
| print (`PrintJob`) | Is every started page and document ended or aborted once, does a cancel stop the job, is nothing left behind, and are the pages those asked for? | 3 pages; all, and ranges that overlap, pass the end, have a zero, are the wrong way round or name no page | a job of several pages is cancelled and fails before, in and after each of them |

Named bounds: `MaxHeld` (references), `MaxRequests`, `MaxTasks`, `MaxEpoch`
(queries of a session; view switches of the strip), `MaxOpens`, `MaxSearches`,
`MaxSeq` (render batches and requests of the canvas), `MaxMoves`, `MaxAsked`,
`MaxScenes`, `MaxEvents`, `MaxTabs`, `MaxAsks` (requests of a reader) and `MaxRuns`. The code's own counters
(64-bit epochs and sequence numbers, `int` counts) are far from their width in
any run of the program, so the models bound them instead of wrapping.

Deadlock is checked in every run but `cache`, `desk`, `restore_prompt`,
`restore_lost` and `exit_open`, where a view or a process ends and bounded parts
come to rest. In the others, where the
program may come to rest (`Done`, `Finished`, `Wait`, `AllGone`), a named step says
so, so that a state in which threads only wait for one another is still reported.

### Fairness

Weak fairness of each worker's next step and of the UI thread's continuation of
a call it has begun: the operating system schedules runnable threads, mutexes
are held for bounded time, and MuPDF calls return. Nothing is assumed of
what the user does (no call, cancel or close need ever happen) and nothing of
spurious wakeups: a sleeping worker runs only after a notify, so a lost wakeup shows
as a violation. `SearchSession` takes from the dispatcher that a queued task is
taken in the end, which `dispatcher` checks as a part of `ServedInTurn`.

`MainWindow` adds two assumptions, for `RestoreEnds` only: an open that a worker
has begun ends, in a tab, a prompt or a failure; and a dialog that is shown
is answered, one way or another. Without the second nothing of a chain
could be expected, since the code waits inside the dialog. A reader's own requests,
the save timer and the crash are not fair.

The canvas, the strip, the pane and the posts need no fairness: what must
eventually be shown is stated of the states in which nothing is under way
(`ShowsThePage`, `VisibleServed`, `TilesServed`, `PostsArrive`), which
is stronger, as it leaves no place for a schedule that never settles.

### What the runs show

All properties hold except five, which contradict comments of the code:

- `CancelStillAnswered` (`core/RenderEngine.cpp:187`): a request whose
  cancellation is seen only after its L1 hit is dropped without calling
  `on_complete`, while the comment at checkpoint A says that it must fire even
  on cancel. Thumbnails bypass the cache, so their count is safe.
- `RecordsOpen` (`ui/MainWindow.cpp:987`): closing a tab clears the cross-tab
  dispatch only while the results panel is visible. F6 hides the panel and keeps
  the dispatch, and a tab closed then stays in its records: the next `clear`
  calls into the destroyed view. The comment there equates "panel visible"
  with "dispatch active". `NoUseAfterClose` shows that the workers are safe even so.
- `PromptHoldsItsSlot` (`ui/MainWindow.cpp:2209`): a password prompt of the
  restore chain decides before its nested loop that the open is the chain's. A
  failure without a name, of any other open, moves the chain on meanwhile, and
  the prompt's tab is counted for the next slot. `RestoreInOrder` holds where
  neither this nor a reader's request for the same document interferes, and
  `RestoreEnds` always.
- `FullSessionOfferedAgain` (`ui/MainWindow.cpp:1051`): a save timer armed by
  the window's first sizes fires in the message loop of the restore offer and
  writes the empty session over the crashed one. The session at hand was read
  before, but an exit in mid-restore then leaves the empty file.
- `DispatcherOutlivesOpens` (`ui/MainWindow.cpp:243`): the thread of an open is
  detached and keeps a reference to the dispatcher. When the window is closed
  during the open, `wWinMain` destroys the members while the thread goes on; its
  post fails, and the view it then deletes calls `discard` on the destroyed
  dispatcher. The comment there says that this path works. The tabs' own views
  go before the dispatcher, as `LaunchesSound` checks.

Behaviours the models show that no document of the program speaks against, and
that the properties except by name:

- Find: Enter on the same regular expression, after the bar was closed and its
  session cleared, finds the query unchanged and runs nothing
  (`ui/FindBar.cpp:293`), though `hide` marks it to be run again.
  Closing the bar runs a tab's chained observer on the UI thread while a
  worker may run the same one; if the worker publishes last, the panel keeps the
  hits of a query that was cleared. An expression runs without Enter when a
  mode button is clicked or a pause timer was pending. A bad query edited away
  and back loses its red mark and is not run again.
- Canvas: a reader's scroll between the two halves of a batch is undone when the
  second half lands its anchor. A hit whose page is not shown stays pending. A
  failed answer of an older batch frees the wheel as well (`WheelReleased` speaks of
  the wheel held too long, and a part of `KeepsReadersPlace` of a page turned
  unseen).
- Layouts: a hit's page is not held if the spread is turned on before the hit
  lands, and one on the right page may be carried to the left when the strip is
  entered.
- Pane: an answer names its page only, so an older answer drops the record of a
  newer request, and the page may be asked for a second time (`overtaken`).
- Printing: a cancel dispatched in the pump before a page still lets that page
  render (`CancelStops` allows it), and one seen inside a page's blit is reported
  as a page that failed.
- Recent files: the box about a missing file removes its entry by the index it
  had; a file that another start sends meanwhile moves the entries, and another
  one goes (`ui/MainWindow.cpp:1810`; `RemovesShown` excepts it). A death in
  mid-save may leave a file twice in the registry.
- Starts: a start that meets the mutex of a process that is closing finds no
  window and returns 1 without opening its file. One whose wait ends after three
  seconds returns 1 and may be served even so.
- Messages posted to a window that dies are never received, and what they carry
  is not freed (accepted at `ui/MainWindow.cpp:269` and in `PdfCanvas.cpp:184`).
- Tabs: a close button pressed, then a command that shifts the tabs, closes on
  release the tab then at that index.
- Printing: `with_rendered_page` calls the blit with `doc_mutex` held
  (`Document.cpp:342`), and `abort_proc` dispatches messages from the blit. A
  handler that asks the same document for its outline, or for a page's size that
  is not kept yet, would lock that mutex again on the same thread. The disabled
  window takes no input, so only timers, completions and opens reach one there;
  whether one of them does ask is not modelled.

## 4. The proofs

Each theorem holds for every value of the constants that meets the modules'
named assumptions. These say that bounds are natural numbers, that an empty value
(`NoQuery`, `NoFile`, `NoEscrow`, "none") is none of the others, and little more:
an engine has at least one worker and finitely many (`EngineConstants`), a crashed
session is a sequence of records of known paths (`CrashedAssumption`), a printer's
ranges are pairs of natural numbers (`PrintConstants`), a document has a page and
the thumbnail cache a place (`PaneConstants`), the strip's pages have positive heights
and its zooms, windows, gap, capacities and bounds are positive (`StripConstants`), a
layout's fit is one of the zooms, as the presets are, and a search hit lies on its page
(`LayoutConstants`), and what earlier processes left in
the registry is a list without repetition that fits (`LaunchConstants`: those are
the lists a save that was not torn writes). TLC evaluates the assumptions in every run.

Every theorem follows from an inductive invariant: `Init` gives it, each action keeps
it (one step or lemma of the proof per action), and it implies the property.

| Theorem | Property | The invariant, and why the property alone is not inductive |
|---|---|---|
| `PinAlwaysHolds`, `CountAlwaysBounded` | `PinHolds`, the count bound | `KeysInv`: they go together, since an insertion counts what it evicts and is admitted by the pin |
| `CacheAlwaysSound` | `CacheSound` | `OwnersInv`: each tier's list and map agree and its bytes add up (`L1Sound`, `L2Sound`), and each object has a reference for the cache entry, if there is one, and for each thread that holds it (`Owned1`, `Owned2`, `Shows1`, `Shows2`). The byte count needs the sum over a sequence that loses an element anywhere, by induction over its length |
| `AlwaysKeepsMostRecent` | `KeepsMostRecent` | `OrderInv`: the tiers' lists are in the order of last use, so their ends are the least recently used. The history of use is a list that grows at the front: what a filtered list keeps of it is proved once (`DataTheorems`) |
| `TypeCorrect`, `RequestsConserved`, `HistoryCorrect`, `CalledOnce` | `EngineTypeOK`, `OnePlace`, `NullIsExplained`, `AnsweredOnce` | `Inv` of `RenderEngine_proofs`: what a worker holds depends on where it is (`JobInv`, `ObjectInv`), a queued request is untouched (`QueueInv`), one worker per request (`OwnerInv`), nothing is queued behind an exited worker (`CloseInv`) |
| `ImplementsService` | `FinishesOnce` | the same invariant; each engine step maps to a step of `RenderService` or to a stutter |
| `AnswersAlwaysFaithful` | `AnswersFaithful` | `BothInv`: for pixmaps and for lists, what has an owner (the cache, a worker between two steps, an answer) has that many references, is what its key says, and what no request has made yet has none. It is stated of each worker's place, for a reference changes hands between two locks |
| `CallbacksAlwaysCounted` | `CallbacksCounted` | `ThumbInv`: the count is the number of thumbnails with a future, and a finite set of them loses one element at a time; thumbnails bypass the cache (`ThumbsPlain`), so none is lost at the checkpoint after a hit |
| `OwnersAlternate`, `FlightIsExact`, `LanesAreKept` | `OneTaskPerOwner`, `InFlightExact`, `QueuesKept` | an owner is in flight exactly while a worker has one of its tasks, which the choice of a ready queue preserves and `release` undoes |
| `ServedAsPromised` | `ServesInOrder` (the dispatcher implements `SearchService`) | `TasksInv`: what a task's state says of it and where it is agree (`FateFits`, `WhereFits`), a queue is in the order of submission (`AllRise`), so its front is its owner's oldest, the count of submits is exact (`CountFits`), and the pool is destroyed only after its workers have left (`PoolFits`) |
| `DrainIsExact` | `PendingExact` | `DrainInv`: submitted tasks have a fate, one runs at a time, and the count is what is queued, running, discarded but not yet taken back, and about to be submitted |
| `HitsAlwaysWhole` | `HitsWhole` | `WholeInv`: the current generation asks for the current query and for no page twice (`PlansFit`, `GenerationFits`), a page lands once (`ScansOnce`), only what is superseded is aborted (`AbortsPast`), so a scan that lands found everything (`FoundWhole`); the hits are the concatenation of the pages' blocks (`HitsFit`), with as many pages left as are neither landed nor broken (`LeftFit`). That a block put in at the upper bound of its page keeps the concatenation is proved from lemmas on concatenations |
| `CursorAlwaysKeepsHit` | `CursorKeepsHit` | the same, and `CursorFits`: the cursor is a place in the list, or there is none because the list is empty |
| `FamilyIsSound` | `FamilySound` | `FamilyInv`: the root is there as long as it is shared (`RootShared`), an escrow has its share and its owners its context (`EscrowsWhole`), what the view has at each point of its life (`LifeInv`), workers have nothing in hand once the engine is gone (`WorkersInv`) |
| `ObserversReadOpenViews` | `NoUseAfterClose` | `Shape` of `Find_proofs`: a worker with a job or a queue belongs to an open tab (`WorkersAtHome`), the UI thread runs observers of open tabs only (`UIAtHome`), and in the drain nothing new can start (`CallsName`) |
| `ResultsAlwaysFaithful` | `ResultsFaithful` | the chains of observers step by step (`ChainsRight`), what is found and listed is there to find (`DataSound`), and `ListCurrent`: as long as a view's hits are not in the list, a scan of the view is to come, or the live dispatch's observer is on its way with all there was to read |
| `BarAlwaysSearched` | `BarIsSearched` | `FindInv`: the session has the last query the bar ran, and only a pause or a pattern that waits for Enter keeps that from being what the bar shows (`LastIsHeld`); the focus is in something visible (`KeysSeen`) |
| `PostsAlwaysArrive` | `PostsArrive` | `PostInv`: the gate is closed exactly while a message, a claim or a handler that will open it is under way (`GateExact`), and an update the window has not seen has one of them behind it (`UpdateSeen`) |
| `LaunchesAlwaysSound` | `LaunchesSound` | `LaunchInv`: who is past the gate has a handle of the mutex (`MutexHeld`), a save and a box are a window's (`InWindow`), and the registry has the window's list, or as many values of it as the save under way has written (`RegistryKept`, `WrittenTo`). What `load` reads of a whole list is that list (`LoadsBack`), so the next process begins with it |
| `RestoredInOrder` | `RestoreInOrder` | `ChainInv`: the chain has exactly one document on its way, with a worker or under a prompt that is its own, and all other opens and dialogs are not about what it is to bring (`OnTheWay`), so the tabs it brought stand in the order of the queue (`InOrder`); both where nothing interferes (`~foul`) |
| `CanvasAlwaysActive` | `CanvasHoldsActive` | `TabsInv`: with it, the active index names a tab unless there is none, and removing an element keeps the rest (`RemoveAtKeepsRest`) |
| `GesturesAlwaysWhole`, `StaleAlwaysHeals` | `GestureWhole`, `StaleHeals` | `GesturesInv`: Windows' pairs and the counter's stand in step, or one press apart after a press that was no click (`ClickInv`); that, and not the count, is what a press preserves |
| `FileAlwaysWhole`, `MarkerAlwaysTrue` | `FileStaysWhole`, `MarkerTellsTruth` | `SaveInv`: a save is of the tabs as they are, no message being taken in it (`SavesWhatIs`), and past its copy a version-1 file is in it (`CopyFirst`) |
| `PrintAlwaysSettled` | `PrintSettled` | `PrintInv`: where the job is tells whether its document is open (`JobOpen`), what was sent is a beginning of the pages asked for (`PagesSent`), a cancel is in the flag or a quit is about to put it there (`CancelSeen`), and the window takes input unless a dialog took it (`InputGiven`). That the job's pages are the ranges' is a lemma over concatenations (`PagesCounted`) |
| `TilesAlwaysServed` | `TilesServed` | `PaneInv`: with the property's parts, requests have numbers of their own (`OwnIds`), and the record of a page is that of its queued request unless an older answer dropped it (`QueuedRecorded`); without it a second request could be queued for a page not `overtaken` |
| `BitmapsAlwaysExact`, `VisibleAlwaysServed`, `StripAlwaysPasses` | `BitmapsExact`, `VisibleServed`, `StripPasses` | `StripSound`: requests have numbers of their own, and a slot that waits names the request made for its page, epoch and parameters (`Numbered`), so that an answer that matches by number fits; a slot that holds a bitmap has that bitmap, and no other is kept (`BitmapsHeld`, `OnlyHeld`); pages in view are served at the parameters of the last pass, which are the view's (`Served`); the viewport is where clamping leaves it and the slots are within what it retains (`StripPlaced`) |
| `StripAlwaysInStep`, `PlaceAlwaysKept` | `StripInStep`, `PlaceKept` | `LayoutSound` (`LayoutIsSound`): the layout shown is the one that preference, format and tab ask for; the strip is built for the view's zoom and the window and is scrolled to where clamping leaves it (`StripBuilt`); a drag of the thumb is one of the layout on screen or dead (`DragInStep`); a tab that was left in the strip keeps the position of a clamped scroll (`PlaceHeld`), so that clamping it again on the way back moves nothing; and the page that a reader came to is on screen, or held by the spread with something of it in reach of the pan (`CameInReach`), and a page sent to has its hit pending (`SentThere`): without them the next switch would carry another page |

The strip's handlers end in passes, and a pass is proved by its parts: what it keeps,
cancels and asks for (`PassSlotsAre`), that the orders by area and by distance give
each page its own new number (`RanksDiffer`), that a page in view is served after it
wherever it starts from (`PassServes`), and that the pages it asks for ahead are the
nearest ones that fit beside what is held (`P1Is`, `PassHolds`). A handler then has to
show only what its pass starts from (`KickFrom`). The geometry enters through few facts:
lengths are whole numbers, visible and prefetched pages are apart and retained
(`PassPages`), clamping is idempotent, and a relayout for the zoom that the layout
already has moves nothing (`RelayoutInPlace`). The last one is why `StripPlaced` is in
the invariant: were the viewport anywhere else, a relayout could bring a page
on screen that no pass has seen.

The layouts' handlers are functions of a canvas, and the proof is one lemma per handler
that its result, from any sound canvas, keeps what the theorems say (`KeepsPlace`).
They meet in a few: what the kick that ends each of them does to the view, the zoom
and the strip (`KickedTo`), what a layout switch captures before it (`CaptureIs`) and
where it puts the reader down (`PutDown`), and where a paged bitmap lands (`LandsAt`).
A reader who leaves the strip is put down within reach of the page (`CarriesTo`), since
an offset scaled to the other zoom and rounded down stays in its page (`OffsetScales`),
and from within reach that page is what the next switch captures (`CapturesCame`). A tab
comes back because a scroll's position, turned into a scroll again, is that scroll where
clamping had left it (`RoundTrip`, `PlaceReturns`).

`DataTheorems` holds the facts about data that several of these need. The prover has
no induction theorem with an operator as a parameter, so what would be an induction
over a predicate is one over a set of numbers (`NatSetInduction`): byte sums,
filtered sequences and concatenations are recursive functions, and each lemma shows
that the set of lengths for which it holds is all of `Nat`.

Only model-checked:

- liveness, which is outside the prover's reach: `TeardownFinishes`, `ServedInTurn`
  (with the turns that owners take), `SearchEnds`, `RestoreEnds`;
- the paged canvas (`ShowsThePage`, `LandsWhereAsked`, `KeepsReadersPlace`): what it
  owes holds between a batch of renders and its two answers, and the invariant it needs
  is that of a whole message handler at a time;
- that the five findings are violations: a theorem shows what holds.


## 5. Not modelled, and the plan

Left out of modules that are otherwise there:

- `MainWindow`: menus, window placement, zoom in the session, the cap of 24
  restored tabs, a failed post of an open failure that has a name.
- `Launches`: a `CreateMutex` that fails, where the code goes on without the gate;
  a registry that takes some values of a save and not others; paths longer than
  the buffer of `load`.
- `PrintJob`: the controls of its dialogs, the page's matrix; the lock
  of the document, which a call here takes and gives back in one step (see the
  last of the observations).
- `ContextFamily`: what is read through a context.
- `PdfCanvas`: painting, horizontal panning, the choice of the fit zoom (a table).
- `CanvasGestures`: which text a drag covers. `ThumbnailPane`: a worker's post
  that fails, keys, painting.
- `FindBar`, `ResultsPanel`: the controls and the rows.
- `DocumentView`: the prefetch plan and the copy of a selection.

Components left out, with the reason: text matching (`SearchQuery`), a
pure function over characters; comic archives, whose parser is arithmetic over
bytes (`CbzPageSizer`) and whose read-ahead only hints the system's cache
(`ZipReadAhead`), with no state another part reads; window chrome, which is layout
and input; command line and benchmarks, sequential drivers. Of `Document` only the
lifetimes are modelled: its lock is held for whole calls, which the other modules
take for one step.

What would add most next: the prefetch plan of `DocumentView` and its budget
against the strip's; a selection's copy across the text handles; the zoom and the
placement in the session file.

Theorems worth proving next: `ShowsThePage` of the paged canvas, then
`LandsWhereAsked`.
