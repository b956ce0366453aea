------------------------- MODULE ExploreController -------------------------
(***************************************************************************)
(* explore_controller_impl (cpp/src/explore_controller.cpp) with the two   *)
(* things it stands on: the LMDB cache it opens through api_impl::db and   *)
(* the curl easy handle it drives through curl_get.                        *)
(*                                                                         *)
(* request(page) is synchronous: it runs to its end on the thread that     *)
(* called it and calls the observer on the way.  The applications call it  *)
(* from background threads (the workers here), several of which may be     *)
(* inside request at once, and call unsubscribe from the main thread.      *)
(* There is no lock anywhere in the controller, so a request is modelled   *)
(* as the sequence of the points where another thread can tell the         *)
(* difference; pc[w] is the point that worker w has reached:               *)
(*                                                                         *)
(*   idle       not inside the controller                                  *)
(*   begin      request was called; on_begin_update not called yet         *)
(*   reading    the cache environment is open for reading                  *)
(*   merging    request_db returned what the cache held                    *)
(*   cached     what the cache held is merged; not shown yet               *)
(*   url, sink, perform   before CURLOPT_URL, CURLOPT_WRITEDATA and        *)
(*              curl_easy_perform                                          *)
(*   transfer   inside curl_easy_perform                                   *)
(*   answered, failed     the success or the failure callback is next      *)
(*   telling, failing     observer_ was found not null, on_update is next, *)
(*              after a success or after a failure                         *)
(*   ending, aborting     on_update was called, on_end_update is next      *)
(*   saving     the cache environment is open for writing                  *)
(***************************************************************************)
EXTENDS PagedList, FiniteSets

CONSTANTS
  Worker,     \* background threads that call the controller
  NoOne,      \* not a worker
  Sizes,      \* how many photos a successful answer may hold
  MaxItems    \* bound: longest list for which another request is issued

ASSUME ExploreAssumption ==
  /\ IsFiniteSet(Worker)
  /\ NoOne \notin Worker
  /\ Sizes \subseteq 0..ItemPerPage
  /\ MaxItems \in Nat

VARIABLES
  alive,      \* the process is running
  observer,   \* observer_ is not null
  items,      \* items_
  db,         \* the file "explore": page -> the body saved under its URL
  live,       \* the version of the pages the server has now (external)
  handle,     \* curl_: the options in force and the transfer in progress
  pc,         \* where each worker is
  page,       \* the page each worker requested
  body,       \* what each worker has on its stack: the result of request_db,
              \* later the ostringstream of curl_get
  view,       \* the last explore_view_data given to the observer
  heard       \* history: the last callback the observer got of each worker's
              \* request: "begun", "told", or "quiet" after the end

vars ==
  <<alive, observer, items, db, live, handle, pc, page, body, view, heard>>

Step == {"idle", "begin", "reading", "merging", "cached", "url", "sink",
         "perform", "transfer", "answered", "failed", "telling", "failing",
         "ending", "aborting", "saving"}

FreshHandle == [url |-> 0, sink |-> NoOne, busy |-> NoOne, fetch |-> 0]

NoView == [error |-> FALSE, items |-> <<>>]

TypeOK ==
  /\ alive \in BOOLEAN
  /\ observer \in BOOLEAN
  /\ items \in Seq(Photo)
  /\ db \in [Page -> Body \cup {NoBody}]
  /\ live \in Version
  /\ handle \in [url: Page \cup {0}, sink: Worker \cup {NoOne},
                 busy: Worker \cup {NoOne}, fetch: Page \cup {0}]
  /\ pc \in [Worker -> Step]
  /\ page \in [Worker -> Page \cup {0}]
  /\ body \in [Worker -> Body \cup {NoBody}]
  /\ view \in [error: BOOLEAN, items: Seq(Photo)]
  /\ heard \in [Worker -> {"quiet", "begun", "told"}]

\* A new process: the constructor, then subscribe from the initialiser of the
\* application's data controller, before any request.
Fresh ==
  /\ items = <<>>
  /\ handle = FreshHandle
  /\ pc = [w \in Worker |-> "idle"]
  /\ page = [w \in Worker |-> 0]
  /\ body = [w \in Worker |-> NoBody]
  /\ view = NoView
  /\ heard = [w \in Worker |-> "quiet"]

Init ==
  /\ alive = TRUE
  /\ observer = TRUE
  /\ db = [p \in Page |-> NoBody]
  /\ live = 0
  /\ Fresh

-----------------------------------------------------------------------------
(* Bookkeeping *)

At(w, from) == alive /\ pc[w] = from

Goto(w, to) == pc' = [pc EXCEPT ![w] = to]

\* A callback reaches the observer.
Hear(w, what) == heard' = [heard EXCEPT ![w] = what]

\* request returns: its argument and what it had on the stack are gone.
Return(w) ==
  /\ Goto(w, "idle")
  /\ page' = [page EXCEPT ![w] = 0]
  /\ body' = [body EXCEPT ![w] = NoBody]

Active == {w \in Worker : pc[w] # "idle"}

\* Workers that have called on_begin_update and not yet on_end_update.
Begun == {w \in Worker : pc[w] \notin {"idle", "begin", "saving"}}

\* Workers whose on_end_update is still to come.
Unended == {w \in Worker : pc[w] \notin {"idle", "saving"}}

\* The steps that write items_.
Merging == {"merging", "answered"}

\* items_ is not locked.  Two workers that change it at the same time are a
\* data race: either change may be lost (the race may also bring the process
\* down, which Crash allows at any moment).
Racing(w) == \E v \in Worker \ {w} : pc[v] \in Merging

Merged(w, p, details) ==
  {Merge(items, p, details)} \cup (IF Racing(w) THEN {items} ELSE {})

Cleared(w) == {<<>>} \cup (IF Racing(w) THEN {items} ELSE {})

\* The memory of the process is lost, the cache file is not.
Die ==
  /\ alive' = FALSE
  /\ observer' = FALSE
  /\ items' = <<>>
  /\ handle' = FreshHandle
  /\ pc' = [w \in Worker |-> "idle"]
  /\ page' = [w \in Worker |-> 0]
  /\ body' = [w \in Worker |-> NoBody]
  /\ view' = NoView
  /\ heard' = [w \in Worker |-> "quiet"]
  /\ UNCHANGED <<db, live>>

-----------------------------------------------------------------------------
(* Calls made by the application *)

\* A worker calls request(p).
Request(w, p) ==
  /\ At(w, "idle")
  /\ Goto(w, "begin")
  /\ page' = [page EXCEPT ![w] = p]
  /\ UNCHANGED <<alive, observer, items, db, live, handle, body, view,
                 heard>>

\* A worker calls reset(): the list is emptied, the observer is not told.
Reset(w) ==
  /\ At(w, "idle")
  /\ items' \in Cleared(w)
  /\ UNCHANGED <<alive, observer, db, live, handle, pc, page, body, view,
                 heard>>

\* The main thread calls unsubscribe().
Unsubscribe ==
  /\ alive
  /\ observer
  /\ observer' = FALSE
  /\ UNCHANGED <<alive, items, db, live, handle, pc, page, body, view,
                 heard>>

-----------------------------------------------------------------------------
(* The steps of request *)

\* observer_->on_begin_update(), then request_db opens the environment.
BeginUpdate(w) ==
  /\ At(w, "begin")
  /\ observer
  /\ Hear(w, "begun")
  /\ Goto(w, "reading")
  /\ UNCHANGED <<alive, observer, items, db, live, handle, page, body, view>>

\* The rest of request_db: the row of the URL, if there is one.
ReadCache(w) ==
  /\ At(w, "reading")
  /\ body' = [body EXCEPT ![w] = db[page[w]]]
  /\ Goto(w, "merging")
  /\ UNCHANGED <<alive, observer, items, db, live, handle, page, view, heard>>

\* What request_db returned is merged.
MergeCache(w) ==
  /\ At(w, "merging")
  /\ items' \in Merged(w, page[w], Details(body[w]))
  /\ body' = [body EXCEPT ![w] = NoBody]
  /\ Goto(w, "cached")
  /\ UNCHANGED <<alive, observer, db, live, handle, page, view, heard>>

\* observer_->on_update(explore_view_data{false, "cache", items_}).
ShowCache(w) ==
  /\ At(w, "cached")
  /\ observer
  /\ view' = [error |-> FALSE, items |-> items]
  /\ Hear(w, "told")
  /\ Goto(w, "url")
  /\ UNCHANGED <<alive, observer, items, db, live, handle, page, body>>

\* The calls of the observer: on_begin_update and the update from the cache are
\* not tested for, the update and the end follow one test of observer_.  If it
\* is null when the call is made, the process dies.
Calling == {"begin", "cached", "telling", "failing", "ending", "aborting"}

NullCall(w) ==
  /\ alive
  /\ ~observer
  /\ pc[w] \in Calling
  /\ Die

-----------------------------------------------------------------------------
(* curl_get on the one handle of the controller *)

\* CURLOPT_URL; the string stream that collects the response is on the stack.
SetUrl(w) ==
  /\ At(w, "url")
  /\ handle' = [handle EXCEPT !.url = page[w]]
  /\ Goto(w, "sink")
  /\ UNCHANGED <<alive, observer, items, db, live, page, body, view,
                 heard>>

\* CURLOPT_WRITEDATA: from now on the handle writes into w's stream.
SetSink(w) ==
  /\ At(w, "sink")
  /\ handle' = [handle EXCEPT !.sink = w]
  /\ Goto(w, "perform")
  /\ UNCHANGED <<alive, observer, items, db, live, page, body, view,
                 heard>>

\* curl_easy_perform on a free handle fetches the URL in force.
Perform(w) ==
  /\ At(w, "perform")
  /\ handle.busy = NoOne
  /\ handle' = [handle EXCEPT !.busy = w, !.fetch = handle.url]
  /\ Goto(w, "transfer")
  /\ UNCHANGED <<alive, observer, items, db, live, page, body, view,
                 heard>>

\* Variant of Refused: the failure is not reported, request just returns.
RefusedReturns(w) ==
  /\ At(w, "perform")
  /\ handle.busy # NoOne
  /\ Return(w)
  /\ UNCHANGED <<alive, observer, items, db, live, handle, view, heard>>

\* curl_easy_perform on a handle that is already transferring returns
\* CURLE_FAILED_INIT at once.
Refused(w) ==
  /\ At(w, "perform")
  /\ handle.busy # NoOne
  /\ Goto(w, "failed")
  /\ UNCHANGED <<alive, observer, items, db, live, handle, page, body, view,
                 heard>>

Torn(text) == [text EXCEPT !.size = 0]

\* What a stream holds after text is written into it: two texts in a row do
\* not parse.
Written(old, text) == IF old = NoBody THEN text ELSE Torn(text)

\* write_to_string wrote text (or a part of it) into the stream of the worker
\* that set CURLOPT_WRITEDATA last.  That stream is still there to be read
\* only if that worker is about to call curl_easy_perform.
Spilled(text) ==
  IF pc[handle.sink] = "perform"
    THEN [body EXCEPT ![handle.sink] = Torn(text)] ELSE body

Released == [handle EXCEPT !.busy = NoOne, !.fetch = 0]

\* The server answers with a 2xx and a body of n photos.
Answer(w, n) ==
  LET text == [page |-> handle.fetch, ver |-> live, size |-> n] IN
  /\ At(w, "transfer")
  \* all of the text arrived in w's own stream, or another worker had moved
  \* CURLOPT_WRITEDATA to its own before the end
  /\ \/ body' = [body EXCEPT ![w] = Written(body[w], text)]
     \/ /\ handle.sink # w
        /\ body' = [Spilled(text) EXCEPT ![w] = Torn(text)]
  /\ handle' = Released
  /\ Goto(w, "answered")
  /\ UNCHANGED <<alive, observer, items, db, live, page, view,
                 heard>>

\* No connection, or a status outside 200..299; the reason may be text too.
HttpFail(w) ==
  LET text == [page |-> handle.fetch, ver |-> live, size |-> 0] IN
  /\ At(w, "transfer")
  /\ \/ body' = body
     \/ /\ handle.sink # w
        /\ body' = Spilled(text)
  /\ handle' = Released
  /\ Goto(w, "failed")
  /\ UNCHANGED <<alive, observer, items, db, live, page, view,
                 heard>>

-----------------------------------------------------------------------------
(* The callbacks of curl_get *)

\* on_success up to the test of observer_: the merge.
Succeed(w) ==
  /\ At(w, "answered")
  /\ items' \in Merged(w, PageOf(page[w]), Details(body[w]))
  /\ Goto(w, IF observer THEN "telling" ELSE "saving")
  /\ UNCHANGED <<alive, observer, db, live, handle, page, body, view, heard>>

\* Variant of ShowAnswer: the page alone is shown, and not the list.
ShowAnswerAlone(w) ==
  /\ At(w, "telling")
  /\ observer
  /\ view' = [error |-> FALSE, items |-> Details(body[w])]
  /\ Hear(w, "told")
  /\ Goto(w, "ending")
  /\ UNCHANGED <<alive, observer, items, db, live, handle, page, body>>

\* observer_->on_update(explore_view_data{false, "ok", items_}).
ShowAnswer(w) ==
  /\ At(w, "telling")
  /\ observer
  /\ view' = [error |-> FALSE, items |-> items]
  /\ Hear(w, "told")
  /\ Goto(w, "ending")
  /\ UNCHANGED <<alive, observer, items, db, live, handle, page, body>>

\* Variant of Fail: what map_controller does on a failure.
FailSilently(w) ==
  /\ At(w, "failed")
  /\ Return(w)
  /\ UNCHANGED <<alive, observer, items, db, live, handle, view, heard>>

\* on_failure up to the test of observer_.  Nothing is left to do without an
\* observer.
Fail(w) ==
  /\ At(w, "failed")
  /\ \/ /\ observer
        /\ Goto(w, "failing")
        /\ UNCHANGED <<page, body>>
     \/ /\ ~observer
        /\ Return(w)
  /\ UNCHANGED <<alive, observer, items, db, live, handle, view, heard>>

\* observer_->on_update(explore_view_data{true, message, items_}).
ShowError(w) ==
  /\ At(w, "failing")
  /\ observer
  /\ view' = [error |-> TRUE, items |-> items]
  /\ Hear(w, "told")
  /\ Goto(w, "aborting")
  /\ UNCHANGED <<alive, observer, items, db, live, handle, page, body>>

\* observer_->on_end_update().  After a success the environment is then opened
\* for writing; after a failure request returns.
EndUpdate(w) ==
  /\ observer
  /\ Hear(w, "quiet")
  /\ \/ /\ At(w, "ending")
        /\ Goto(w, "saving")
        /\ UNCHANGED <<page, body>>
     \/ /\ At(w, "aborting")
        /\ Return(w)
  /\ UNCHANGED <<alive, observer, items, db, live, handle, view>>

\* Variants of Save: MDB_NOOVERWRITE; the page read back from the URL.
SaveOnce(w) ==
  /\ At(w, "saving")
  /\ db' = [db EXCEPT ![page[w]] = IF @ = NoBody THEN body[w] ELSE @]
  /\ Return(w)
  /\ UNCHANGED <<alive, observer, items, live, handle, view, heard>>
SaveUnderParsedPage(w) ==
  /\ At(w, "saving")
  /\ db' = [db EXCEPT ![PageOf(page[w])] = body[w]]
  /\ Return(w)
  /\ UNCHANGED <<alive, observer, items, live, handle, view, heard>>

\* dbi.put(wtxn, url, data); wtxn.commit(); request returns.
Save(w) ==
  /\ At(w, "saving")
  /\ db' = [db EXCEPT ![page[w]] = body[w]]
  /\ Return(w)
  /\ UNCHANGED <<alive, observer, items, live, handle, view, heard>>

-----------------------------------------------------------------------------
(* The environment *)

\* The interesting photos of the day change.
Change ==
  /\ live < MaxVersion
  /\ live' = live + 1
  /\ UNCHANGED <<alive, observer, items, db, handle, pc, page, body, view,
                 heard>>

\* The system kills the process, or it dies of an uncaught lmdb::error or of
\* one of the data races.
Crash ==
  /\ alive
  /\ Die

\* The application is started again.
Launch ==
  /\ ~alive
  /\ alive' = TRUE
  /\ observer' = TRUE
  /\ UNCHANGED <<items, db, live, handle, pc, page, body, view,
                 heard>>

-----------------------------------------------------------------------------
\* What is left of a request once it was called.
Continue(w) ==
  \/ BeginUpdate(w)
  \/ ReadCache(w)
  \/ MergeCache(w)
  \/ ShowCache(w)
  \/ NullCall(w)
  \/ SetUrl(w)
  \/ SetSink(w)
  \/ Perform(w)
  \/ Refused(w)
  \/ \E n \in Sizes : Answer(w, n)
  \/ HttpFail(w)
  \/ Succeed(w)
  \/ ShowAnswer(w)
  \/ Fail(w)
  \/ ShowError(w)
  \/ EndUpdate(w)
  \/ Save(w)

\* Every running request may still append a page twice.
HasRoom ==
  Len(items) + 2 * ItemPerPage * (Cardinality(Active) + 1) <= MaxItems

\* An application that calls the controller in any order, for any page.
Next ==
  \/ \E w \in Worker :
       \/ \E p \in Page : HasRoom /\ Request(w, p)
       \/ Reset(w)
       \/ Continue(w)
  \/ Unsubscribe
  \/ Change
  \/ Crash
  \/ Launch

Spec == Init /\ [][Next]_vars

\* A running thread is scheduled again, and a transfer comes to an end: the
\* server answers or the connection breaks.
Fairness == \A w \in Worker : WF_vars(Continue(w))

FairSpec == Spec /\ Fairness

-----------------------------------------------------------------------------
(* Properties *)

\* What a request needs to be true of the shared handle at each of its steps,
\* whatever the other workers do to it: the strengthening that makes TypeOK
\* inductive.  A worker inside curl_easy_perform owns the transfer, the handle
\* has a URL and a stream by then, and every running request has its page.
InFlight ==
  \A w \in Worker :
    /\ pc[w] # "idle" => page[w] \in Page
    /\ pc[w] \in {"sink", "perform", "transfer"} => handle.url \in Page
    /\ pc[w] \in {"perform", "transfer"} => handle.sink \in Worker
    /\ pc[w] = "transfer" => handle.busy = w /\ handle.fetch \in Page

\* The body saved under the URL of page p was produced for page p, as long as
\* requests do not overlap: the URL goes round through the handle, the page
\* number read back from it may be another one (PageOf), and a crash may come
\* between any two of these steps.
CacheOwnPage == \A p \in Page : db[p].page \in {0, p}

\* When no request is running and none was cut short by unsubscribe, the
\* observer has been shown the list as it is, unless it was emptied since.
Settled ==
  Active = {} /\ observer => items \in {view.items, <<>>}

\* With full pages the list is made of whole pages, in whatever order they
\* were requested: the photos of an aligned block are the first, second, ...
\* of one page, in one version of it.
BlocksWhole ==
  /\ Len(items) % ItemPerPage = 0
  /\ \A i \in 1..Len(items) :
       LET first == items[i - ((i - 1) % ItemPerPage)] IN
       items[i] = [first EXCEPT !.idx = 1 + ((i - 1) % ItemPerPage)]

\* Loading a page leaves the earlier pages as they are: a merge for page p
\* never touches a slot before those of page p.
EarlierKept(w) ==
  \A i \in 1..Len(items) :
    i <= Off(page[w]) => i <= Len(items') /\ items'[i] = items[i]

EarlierPagesKept ==
  [][\A w \in Worker : MergeCache(w) \/ Succeed(w) => EarlierKept(w)]_vars

\* The observer is never shown an older version of a photo than the one it was
\* shown in that place before, by a cache that is written after the observer
\* is told and read again before the next answer; a restart excepted, since
\* the process may die between the two.
NeverOlder ==
  [][\A i \in 1..Len(view.items) :
       /\ i <= Len(view'.items)
       /\ view'.items[i].page = view.items[i].page
       => view'.items[i].ver >= view.items[i].ver]_vars

Contract == INSTANCE ControllerContract WITH
  Caller <- Worker,
  Data <- [error: BOOLEAN, items: Seq(Photo)],
  Nothing <- NoView,
  listening <- observer,
  phase <- heard,
  shown <- view

\* The controller keeps the contract of explore_controller_observer with any
\* number of requests overlapping on the unlocked members: each request tells
\* begin, then at least one update, then end, and nothing after unsubscribe.
KeepsContract == Contract!ContractSpec

\* Every request that called on_begin_update comes to its on_end_update, or its
\* observer is gone: also when the handle refuses it, or its body was torn.
EveryBeginEnds == Contract!EveryBeginEnds
=============================================================================
