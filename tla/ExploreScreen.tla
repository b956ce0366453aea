--------------------------- MODULE ExploreScreen ---------------------------
(***************************************************************************)
(* The explore screen on top of the controller: the data controller that   *)
(* observes it (ExploreDataController.kt, ExploreDataController.swift) and *)
(* the three pipelines that call it (ExploreFragment.kt,                   *)
(* ExploreViewController.swift):                                           *)
(*                                                                         *)
(*   initial    request(1) when the screen is set up                       *)
(*   refresh    the pull-to-refresh control: reset, then request(1)        *)
(*   more       the end of the list was scrolled into sight: the next page *)
(*                                                                         *)
(* Each pipeline delivers to one serial worker.  On Android the three are  *)
(* three workers of the computation scheduler, which share one thread on a *)
(* device with one core; on iOS initial and more share a serial queue and  *)
(* refresh has its own.                                                    *)
(*                                                                         *)
(* The data controller keeps the flag loadings.  On Android the screen is  *)
(* bound to the flag itself; on iOS every reader of the flag but one gets  *)
(* its values through observeOn(MainScheduler): each value is posted to    *)
(* the main queue and arrives there later, in order.                       *)
(***************************************************************************)
EXTENDS ExploreController, SequencesExt

CONSTANTS
  Platform,   \* "android" or "ios"
  WorkerOf,   \* the worker each pipeline delivers to
  MaxQueue,   \* bound: jobs that wait for one worker
  MaxPosted   \* bound: values on their way to the main thread when the user
              \* acts or a request begins

Pipeline == {"initial", "refresh", "more"}

ASSUME ScreenAssumption ==
  /\ Platform \in {"android", "ios"}
  /\ WorkerOf \in [Pipeline -> Worker]
  /\ MaxQueue \in Nat \ {0}
  /\ MaxPosted \in Nat

VARIABLES
  currentPage,   \* the page requested last
  loadings,      \* the flag behind the pull-to-refresh control
  loadingMores,  \* Android: the flag behind the progress at the end of the list
  refreshing,    \* what the pull-to-refresh control shows
  posted,        \* iOS: values of loadings on their way to the main thread
  seen,          \* iOS: the value of loadings that arrived there last
  queue,         \* the jobs that wait for each worker
  reloading,     \* the workers between the two calls of a refresh
  gap            \* history: a page of this list did not come in full

flags == <<loadings, loadingMores, refreshing, posted, seen>>

ui == <<currentPage, flags, queue, reloading, gap>>

screenVars ==
  <<alive, observer, items, db, live, handle, pc, page, body, view, heard, ui>>

ScreenTypeOK ==
  /\ TypeOK
  /\ currentPage \in Page
  /\ loadings \in BOOLEAN
  /\ loadingMores \in BOOLEAN
  /\ refreshing \in BOOLEAN
  /\ posted \in Seq(BOOLEAN)
  /\ seen \in BOOLEAN
  /\ queue \in [Worker -> Seq(Pipeline)]
  /\ reloading \subseteq Worker
  /\ gap \in BOOLEAN

\* A screen that is set up has one job: the initial request.
FirstJob ==
  [w \in Worker |-> IF w = WorkerOf["initial"] THEN <<"initial">> ELSE <<>>]

ScreenInit ==
  /\ Init
  /\ currentPage = 1
  /\ loadings = FALSE
  /\ loadingMores = FALSE
  /\ refreshing = FALSE
  /\ posted = <<>>
  /\ seen = FALSE
  /\ queue = FirstJob
  /\ reloading = {}
  /\ gap = FALSE

-----------------------------------------------------------------------------
(* The main thread *)

Deliver(kind) ==
  /\ Len(queue[WorkerOf[kind]]) < MaxQueue
  /\ Len(posted) <= MaxPosted
  /\ queue' = [queue EXCEPT ![WorkerOf[kind]] = Append(@, kind)]

IsWaiting(kind) ==
  \E i \in 1..Len(queue[WorkerOf[kind]]) : queue[WorkerOf[kind]][i] = kind

Waiting(kind) ==
  Cardinality({i \in 1..Len(queue[WorkerOf[kind]]) :
                 queue[WorkerOf[kind]][i] = kind})

\* The list is pulled down.  The control takes no second pull while it shows
\* that it is refreshing.
Pull ==
  /\ alive
  /\ observer
  /\ ~refreshing
  /\ Deliver("refresh")
  /\ refreshing' = TRUE
  /\ UNCHANGED <<vars, currentPage, loadings, loadingMores, posted, seen,
                 reloading, gap>>

\* Android takes no pull while a further page is loading.
AndroidPull == Platform = "android" /\ ~loadingMores /\ Pull

IosPull == Platform = "ios" /\ Pull

\* The end of the list comes into sight.  The job is delivered later (300 ms of
\* debounce or throttle, then the worker), when a request may have begun.
\* MaxPage bounds how far the list is scrolled.
ScrollEnd ==
  /\ alive
  /\ observer
  /\ currentPage + Waiting("more") < MaxPage
  /\ Deliver("more")
  /\ UNCHANGED <<vars, currentPage, flags, reloading, gap>>

\* Scrolling down takes a list that has something to scroll.
AndroidScrollEnd ==
  Platform = "android" /\ ~loadings /\ view.items # <<>> /\ ScrollEnd

\* The flag is the one that arrived last.  The offset of an empty list is
\* beyond its content height minus its bounds.
IosScrollEnd == Platform = "ios" /\ ~seen /\ ScrollEnd

\* Variant of Arrive: a scheduler that does not keep the order.
ArriveAny ==
  /\ \E i \in 1..Len(posted) :
       /\ refreshing' = posted[i]
       /\ seen' = posted[i]
       /\ posted' = RemoveAt(posted, i)
  /\ UNCHANGED <<vars, currentPage, loadings, loadingMores, queue, reloading,
                 gap>>

\* A value of loadings arrives on the main thread: the control is bound to it.
\* Each reader of the flag has its own block there; nothing reads two of them,
\* so they are one step.
Arrive ==
  /\ posted # <<>>
  /\ refreshing' = Head(posted)
  /\ seen' = Head(posted)
  /\ posted' = Tail(posted)
  /\ UNCHANGED <<vars, currentPage, loadings, loadingMores, queue, reloading,
                 gap>>

\* The subscriptions go, then the observer.  The initial request is not among
\* the subscriptions (there is one at most), and a job that is under way is not
\* waited for.
AndroidDestroy ==
  /\ Platform = "android"
  /\ Unsubscribe
  /\ queue' = IF IsWaiting("initial") THEN FirstJob
                                     ELSE [w \in Worker |-> <<>>]
  /\ UNCHANGED <<currentPage, flags, reloading, gap>>

\* deinit: the jobs keep the data controller alive while they run in it.  (A
\* refresh finds its screen gone between its two calls only to die of it, as in
\* ScreenCrash.)
IosDestroy ==
  /\ Platform = "ios"
  /\ Active = {}
  /\ reloading = {}
  /\ Unsubscribe
  /\ queue' = [w \in Worker |-> <<>>]
  /\ posted' = <<>>
  /\ UNCHANGED <<currentPage, loadings, loadingMores, refreshing, seen,
                 reloading, gap>>

-----------------------------------------------------------------------------
(* The jobs, as a worker takes them up *)

Take(w, kind) ==
  /\ w \notin reloading
  /\ queue[w] # <<>>
  /\ Head(queue[w]) = kind
  /\ queue' = [queue EXCEPT ![w] = Tail(@)]

\* Variant of RunInitial: pages counted from zero.
RunInitialFromZero(w) ==
  /\ Take(w, "initial")
  /\ Request(w, 1)
  /\ currentPage' = 0
  /\ UNCHANGED <<flags, reloading, gap>>

RunInitial(w) ==
  /\ Take(w, "initial")
  /\ Request(w, 1)
  /\ currentPage' = 1
  /\ UNCHANGED <<flags, reloading, gap>>

\* Variant of RunRefresh: the list is kept.
RunRefreshKeepsList(w) ==
  /\ Take(w, "refresh")
  /\ At(w, "idle")
  /\ currentPage' = 1
  /\ gap' = FALSE
  /\ reloading' = reloading \cup {w}
  /\ UNCHANGED <<vars, flags>>

\* A refresh is two calls: reset() ...
RunRefresh(w) ==
  /\ Take(w, "refresh")
  /\ Reset(w)
  /\ currentPage' = 1
  /\ gap' = FALSE
  /\ reloading' = reloading \cup {w}
  /\ UNCHANGED flags

\* ... then request(1).
Reload(w) ==
  /\ w \in reloading
  /\ Request(w, 1)
  /\ currentPage' = 1
  /\ reloading' = reloading \ {w}
  /\ UNCHANGED <<flags, queue, gap>>

\* requestNextPage(): the page is counted when it is requested, whatever
\* becomes of it.
NextPage(w) ==
  /\ Take(w, "more")
  /\ Request(w, currentPage + 1)
  /\ currentPage' = currentPage + 1
  /\ UNCHANGED <<flags, reloading, gap>>

AndroidMore(w) == Platform = "android" /\ NextPage(w)

\* On iOS the flag is read once more, at its source.
IosMore(w) == Platform = "ios" /\ ~loadings /\ NextPage(w)

IosSkipMore(w) ==
  /\ Platform = "ios"
  /\ loadings
  /\ At(w, "idle")
  /\ Take(w, "more")
  /\ UNCHANGED <<vars, currentPage, flags, reloading, gap>>

-----------------------------------------------------------------------------
(* The observer: the steps of a request that call back *)

\* onBeginUpdate on Android tells the first page from the others by
\* currentPage.  The pull-to-refresh control is bound to loadings.
AndroidBegin(w) ==
  /\ Platform = "android"
  /\ BeginUpdate(w)
  /\ \/ /\ currentPage = 1
        /\ loadings' = TRUE
        /\ refreshing' = TRUE
        /\ UNCHANGED loadingMores
     \/ /\ currentPage # 1
        /\ loadingMores' = TRUE
        /\ UNCHANGED <<loadings, refreshing>>
  /\ UNCHANGED <<currentPage, posted, seen, queue, reloading, gap>>

\* On iOS there is one flag, and its new value is posted.  MaxPosted bounds how
\* far the main thread is behind.
IosBegin(w) ==
  /\ Platform = "ios"
  /\ Len(posted) <= MaxPosted
  /\ BeginUpdate(w)
  /\ loadings' = TRUE
  /\ posted' = Append(posted, TRUE)
  /\ UNCHANGED <<currentPage, loadingMores, refreshing, seen, queue, reloading,
                 gap>>

\* onEndUpdate: all the flags there are, whichever request ends.
AndroidEnd(w) ==
  /\ Platform = "android"
  /\ EndUpdate(w)
  /\ loadings' = FALSE
  /\ loadingMores' = FALSE
  /\ refreshing' = FALSE
  /\ UNCHANGED <<currentPage, posted, seen, queue, reloading, gap>>

IosEnd(w) ==
  /\ Platform = "ios"
  /\ EndUpdate(w)
  /\ loadings' = FALSE
  /\ posted' = Append(posted, FALSE)
  /\ UNCHANGED <<currentPage, loadingMores, refreshing, seen, queue, reloading,
                 gap>>

\* onUpdate stores the view data: this is view itself, and the other steps
\* leave the screen alone.
Silent(w) ==
  /\ \/ ReadCache(w)
     \/ ShowCache(w)
     \/ SetUrl(w)
     \/ SetSink(w)
     \/ Perform(w)
     \/ Refused(w)
     \/ \E n \in Sizes : Answer(w, n)
     \/ HttpFail(w)
     \/ ShowAnswer(w)
     \/ ShowError(w)
     \/ Save(w)
  /\ UNCHANGED ui

\* The steps that put a page into the list, or give it up.  The history
\* variable records the pages of which the list did not get all the photos.
Partial(n) == n # 0 /\ n # ItemPerPage

Fill(w) ==
  /\ \/ /\ MergeCache(w)
        /\ gap' = (gap \/ Partial(body[w].size))
     \/ /\ Succeed(w)
        /\ gap' = (gap \/ body[w].size # ItemPerPage)
     \/ /\ Fail(w)
        /\ gap' = (gap \/ Len(items) < page[w] * ItemPerPage)
  /\ UNCHANGED <<currentPage, flags, queue, reloading>>

-----------------------------------------------------------------------------
\* The members of a new data controller.
FreshScreen ==
  /\ currentPage' = 1
  /\ loadings' = FALSE
  /\ loadingMores' = FALSE
  /\ refreshing' = FALSE
  /\ posted' = <<>>
  /\ seen' = FALSE
  /\ reloading' = {}
  /\ gap' = FALSE

NoScreen == FreshScreen /\ queue' = [w \in Worker |-> <<>>]

ScreenNullCall(w) == NullCall(w) /\ NoScreen

ScreenCrash == Crash /\ NoScreen

ScreenLaunch == Launch /\ FreshScreen /\ queue' = FirstJob

ScreenChange == Change /\ UNCHANGED ui

Work(w) ==
  \/ RunInitial(w)
  \/ RunRefresh(w)
  \/ Reload(w)
  \/ AndroidMore(w)
  \/ IosMore(w)
  \/ IosSkipMore(w)
  \/ AndroidBegin(w)
  \/ IosBegin(w)
  \/ AndroidEnd(w)
  \/ IosEnd(w)
  \/ Silent(w)
  \/ Fill(w)
  \/ ScreenNullCall(w)

ScreenNext ==
  \/ AndroidPull
  \/ IosPull
  \/ AndroidScrollEnd
  \/ IosScrollEnd
  \/ Arrive
  \/ AndroidDestroy
  \/ IosDestroy
  \/ \E w \in Worker : Work(w)
  \/ ScreenChange
  \/ ScreenCrash
  \/ ScreenLaunch

ScreenSpec == ScreenInit /\ [][ScreenNext]_screenVars

\* The thread pools of RxJava and of libdispatch run every worker that has
\* something to do, a transfer comes to an end, and the main thread takes what
\* was posted to it.
ScreenFairness ==
  /\ \A w \in Worker : WF_screenVars(Work(w))
  /\ WF_screenVars(Arrive)

FairScreenSpec == ScreenSpec /\ ScreenFairness

-----------------------------------------------------------------------------
(* Properties *)

\* As long as every page since the last reset came in full, from the cache or
\* from the server, the list is page 1, page 2, ... in order, each photo once;
\* and when no request runs, it goes up to the page that was requested last.
InOrder ==
  ~gap =>
    /\ \A i \in 1..Len(items) : Off(items[i].page) + items[i].idx = i
    /\ Active = {} /\ items # <<>> => Len(items) = currentPage * ItemPerPage

\* A refresh was asked for and its request has not been called yet.
RefreshDue == IsWaiting("refresh") \/ reloading # {}

\* No indicator of the screen says that something is loading when nothing is:
\* the flags are up only between the begin and the end of some request; and the
\* control, once all that was posted has arrived, shows only a request whose end
\* is to come or a refresh that is due.  (While a value is on its way the control
\* may be up after the request has ended.)
SpinnerHonest ==
  observer =>
    /\ loadings \/ loadingMores => Begun # {}
    /\ refreshing /\ posted = <<>> => Unended # {} \/ RefreshDue

\* Whatever happens to the requests, the pull-to-refresh control goes off again.
SpinnerStops == refreshing /\ observer ~> ~refreshing \/ ~observer

\* So does the progress at the end of Android's list.
MoreStops == loadingMores /\ observer ~> ~loadingMores \/ ~observer
=============================================================================
