---------------------------- MODULE SearchScreen ----------------------------
(***************************************************************************)
(* The search screen: SearchFragment.kt, SearchDataController.kt and       *)
(* SearchViewModel.kt on Android, SearchViewController.swift and           *)
(* SearchDataController.swift on iOS, on top of the search controller.     *)
(*                                                                         *)
(* Each change of the text of the search bar empties the results shown;    *)
(* 0.6 s later the latest text that is not empty, if it differs from the   *)
(* one before, goes to the queue of a background worker, which calls reset *)
(* and search.  With an empty text the recent searches are fetched and     *)
(* shown instead.  A tap on one of them sets the text: on Android that is  *)
(* a change of the text like any other, on iOS it is not, and the search   *)
(* is put into the queue of a second worker.                               *)
(***************************************************************************)
EXTENDS SearchController

CONSTANTS
  Platform,  \* "Android" or "iOS"
  Blank,     \* the empty text
  Typist,    \* the worker that searches for what was typed
  Tapper,    \* the worker that searches for the recent key tapped (iOS)
  Buffer,    \* how many texts the queue of a worker holds: 16 on Android
  MaxInbox,  \* bounds: a search starts with fewer results than this undelivered
  MaxBlocks  \* and with fewer blocks than this in the list

ASSUME ScreenAssumption ==
  /\ Platform \in {"Android", "iOS"}
  /\ Blank \in Key
  /\ Typist \in Worker /\ Tapper \in Worker
  /\ Platform = "Android" => Worker = {Typist}
  /\ Buffer \in Nat \ {0} /\ {MaxInbox, MaxBlocks} \subseteq Nat \ {0}

VARIABLES
  open,     \* the screen is there and subscribed
  typed,    \* the text of the search bar
  pending,  \* the text that waits for the 0.6 s to pass, or NoKey
  last,     \* the text that went to the queue last (distinctUntilChanged)
  queue,    \* the texts each worker has still to search for
  job,      \* reset was called for this key, search not yet
  posting,  \* iOS: the workers inside onUpdate, whose results are not posted yet
  result,   \* the results each of these was given
  inbox,    \* iOS: results on their way to the main thread
  list,     \* searchResults of the view model
  rows,     \* recentItems of the view model
  offered,  \* the recent searches are visible
  newest    \* history: the results of the calls of on_update that were not over
            \* when the last of them began

screenVars ==
  <<open, typed, pending, last, queue, job, posting, result, inbox, list, rows,
    offered, newest>>

delivery == <<posting, result, inbox, newest>>

allVars == <<searchVars, screenVars>>

ScreenTypeOK ==
  /\ SearchTypeOK
  /\ {open, offered} \subseteq BOOLEAN
  /\ typed \in Key
  /\ {pending, last} \subseteq Key \cup {NoKey}
  /\ queue \in [Worker -> Seq(Key)]
  /\ \A w \in Worker : Len(queue[w]) <= Buffer
  /\ job \in [Worker -> Key \cup {NoKey}]
  /\ posting \subseteq Worker
  /\ result \in [Worker -> Seq(Key)]
  /\ inbox \in Seq(Seq(Key))
  /\ newest \subseteq Seq(Key)
  /\ list \in Seq(Key)
  /\ rows.keys \subseteq Key /\ rows.blanks \in Nat

ScreenInit ==
  /\ SearchInit
  /\ open = TRUE
  /\ typed = Blank
  /\ pending = NoKey /\ last = NoKey
  /\ queue = [w \in Worker |-> <<>>]
  /\ job = [w \in Worker |-> NoKey]
  /\ posting = {} /\ result = [w \in Worker |-> <<>>]
  /\ inbox = <<>> /\ list = <<>> /\ newest = {}
  /\ rows = Recents({})
  /\ offered = TRUE

Visible == alive /\ open

-----------------------------------------------------------------------------
(* The main thread *)

\* The text becomes empty: the recent searches are fetched and shown.
Clear ==
  /\ Visible /\ typed # Blank
  /\ typed' = Blank
  /\ rows' \in {Recents(keys) : keys \in Seen}
  /\ offered' = TRUE
  /\ UNCHANGED <<searchVars, open, pending, last, queue, job, delivery, list>>

\* Variant of Type: an earlier text goes first.
TypeBehind(k) ==
  /\ Visible /\ k \notin {typed, Blank}
  /\ typed' = k
  /\ pending' = IF pending = NoKey THEN k ELSE pending
  /\ list' = <<>>
  /\ offered' = FALSE
  /\ UNCHANGED <<searchVars, open, last, queue, job, delivery, rows>>

\* The text becomes another one, typed or (on Android) tapped.
Type(k) ==
  /\ Visible /\ k \notin {typed, Blank}
  /\ typed' = k
  /\ pending' = k
  /\ list' = <<>>
  /\ offered' = FALSE
  /\ UNCHANGED <<searchVars, open, last, queue, job, delivery, rows>>

\* Variant of Enqueue: the buffer takes one text too many.
EnqueueBeyond(w, k) ==
  /\ Len(queue[w]) <= Buffer
  /\ queue' = [queue EXCEPT ![w] = Append(@, k)]
  /\ UNCHANGED searchVars

\* Put k into the queue of w.  On Android, observeOn fails when its buffer is
\* full, and nothing handles the failure; on iOS the queue has no limit, here
\* Buffer bounds it.
Enqueue(w, k) ==
  \/ /\ Len(queue[w]) < Buffer
     /\ queue' = [queue EXCEPT ![w] = Append(@, k)]
     /\ UNCHANGED searchVars
  \/ /\ Len(queue[w]) = Buffer /\ Platform = "Android"
     /\ Die
     /\ UNCHANGED queue

\* Variant of Elapse: what was searched for before is not compared.
ElapseAlways ==
  /\ Visible /\ pending # NoKey
  /\ pending' = NoKey
  /\ UNCHANGED <<searchVars, open, typed, last, queue, job, delivery, list, rows,
                 offered>>

\* 0.6 s passed (debounce on Android); throttle on iOS also lets the first text
\* of a window through at once.
Elapse ==
  /\ Visible /\ pending # NoKey
  /\ IF pending = last THEN UNCHANGED <<searchVars, last, queue>>
     ELSE Enqueue(Typist, pending) /\ last' = pending
  /\ pending' = NoKey
  /\ UNCHANGED <<open, typed, job, delivery, list, rows, offered>>

\* iOS: a tap on a row of the recent searches, blank ones included.
TapRecent(k) ==
  /\ Platform = "iOS"
  /\ Visible /\ offered
  /\ k \in rows.keys \/ (k = Blank /\ rows.blanks > 0)
  /\ typed' = k
  /\ offered' = FALSE
  /\ Enqueue(Tapper, k)
  /\ UNCHANGED <<open, pending, last, job, delivery, list, rows>>

\* Variant of Deliver: the latest results go first.
DeliverLatest ==
  /\ Visible /\ inbox # <<>>
  /\ list' = inbox[Len(inbox)]
  /\ inbox' = SubSeq(inbox, 1, Len(inbox) - 1)
  /\ UNCHANGED <<searchVars, open, typed, pending, last, queue, job, posting,
                 result, rows, offered, newest>>

\* iOS: results reach the view model.
Deliver ==
  /\ Visible /\ inbox # <<>>
  /\ list' = Head(inbox)
  /\ inbox' = Tail(inbox)
  /\ UNCHANGED <<searchVars, open, typed, pending, last, queue, job, posting,
                 result, rows, offered, newest>>

\* onDestroy or deinit: the subscriptions are dropped, then unsubscribe.
Leave ==
  /\ open
  /\ Unsubscribe
  /\ open' = FALSE
  /\ pending' = NoKey
  /\ queue' = [w \in Worker |-> <<>>]
  /\ inbox' = <<>>
  /\ UNCHANGED <<typed, last, job, posting, result, list, rows, offered, newest>>

-----------------------------------------------------------------------------
(* The workers *)

\* Variant of TakeJob: the list is not reset.
TakeJobAsIs(w) ==
  /\ queue[w] # <<>> /\ job[w] = NoKey
  /\ Len(inbox) < MaxInbox /\ Len(items) < MaxBlocks
  /\ At(w, "idle")
  /\ job' = [job EXCEPT ![w] = Head(queue[w])]
  /\ queue' = [queue EXCEPT ![w] = Tail(@)]
  /\ UNCHANGED <<searchVars, open, typed, pending, last, delivery, list, rows,
                 offered>>

\* searchWith: reset() ...
TakeJob(w) ==
  /\ queue[w] # <<>> /\ job[w] = NoKey
  /\ Len(inbox) < MaxInbox /\ Len(items) < MaxBlocks
  /\ Reset(w)
  /\ job' = [job EXCEPT ![w] = Head(queue[w])]
  /\ queue' = [queue EXCEPT ![w] = Tail(@)]
  /\ UNCHANGED <<open, typed, pending, last, delivery, list, rows, offered>>

\* ... and search(key, 1).
RunJob(w) ==
  /\ job[w] # NoKey
  /\ Search(w, job[w])
  /\ job' = [job EXCEPT ![w] = NoKey]
  /\ UNCHANGED <<open, typed, pending, last, queue, delivery, list, rows, offered>>

Told(w) == heard[w] = "begun" /\ heard'[w] = "told"

\* onUpdate is called.  What it is given reaches the view model at once on Android;
\* on iOS it is posted to the main queue before onUpdate returns.
Hand(w) ==
  /\ newest' = {view'.results} \cup {result[v] : v \in posting}
  /\ IF Platform = "Android"
       THEN /\ list' = IF open THEN view'.results ELSE list
            /\ UNCHANGED <<posting, result>>
       ELSE /\ posting' = posting \cup {w}
            /\ result' = [result EXCEPT ![w] = view'.results]
            /\ UNCHANGED list

\* search goes on, once onUpdate has returned.
Run(w) ==
  /\ w \notin posting
  /\ Continue(w)
  /\ IF Told(w) THEN Hand(w) ELSE UNCHANGED <<posting, result, newest, list>>
  /\ UNCHANGED <<open, typed, pending, last, queue, job, inbox, rows, offered>>

\* iOS: the variable tells its subscribers, in no order with another worker that
\* is here too, and the value is posted to the main queue.
Post(w) ==
  /\ alive
  /\ w \in posting
  /\ posting' = posting \ {w}
  /\ result' = [result EXCEPT ![w] = <<>>]
  /\ inbox' = IF open THEN Append(inbox, result[w]) ELSE inbox
  /\ UNCHANGED <<searchVars, open, typed, pending, last, queue, job, list, rows,
                 offered, newest>>

ScreenCrash == Crash /\ UNCHANGED screenVars

Reopen ==
  /\ Launch
  /\ open' = TRUE
  /\ typed' = Blank
  /\ pending' = NoKey /\ last' = NoKey
  /\ queue' = [w \in Worker |-> <<>>]
  /\ job' = [w \in Worker |-> NoKey]
  /\ posting' = {} /\ result' = [w \in Worker |-> <<>>]
  /\ inbox' = <<>> /\ list' = <<>> /\ newest' = {}
  /\ rows' = Recents({})
  /\ offered' = TRUE

WorkerStep(w) == TakeJob(w) \/ RunJob(w) \/ Run(w) \/ Post(w)

ScreenNext ==
  \/ Clear
  \/ \E k \in Key : Type(k) \/ TapRecent(k)
  \/ Elapse
  \/ Deliver
  \/ Leave
  \/ \E w \in Worker : WorkerStep(w)
  \/ ScreenCrash
  \/ Reopen

ScreenSpec == ScreenInit /\ [][ScreenNext]_allVars

\* Time passes, the main queue is served, a worker is scheduled again and a
\* transfer comes to an end.  Nothing is assumed of the user.
FairScreenSpec ==
  /\ ScreenSpec
  /\ WF_allVars(Elapse) /\ WF_allVars(Deliver)
  /\ \A w \in Worker : WF_allVars(WorkerStep(w))

-----------------------------------------------------------------------------
(* Properties *)

\* Nothing is left to do for what was typed or tapped.
Quiet ==
  /\ Visible
  /\ pending = NoKey /\ posting = {} /\ inbox = <<>>
  /\ \A w \in Worker : queue[w] = <<>> /\ job[w] = NoKey /\ pc[w] = "idle"

\* With one worker the list never holds photos of two searches.
OneSearch == Len(items) <= 1 /\ Len(list) <= 1

\* When all is quiet the results under a text are those of that text, however
\* late the answers to the texts before it came; there may be none.
SettledOnTyped ==
  Quiet /\ typed # Blank => list \in {<<>>, <<typed>>}

\* A text that is left alone comes to be the last one searched for, and its
\* search comes to an end, unless the screen goes away.
TypedIsSearched ==
  \A k \in Key \ {Blank} :
    Visible /\ typed = k ~> (Quiet /\ last = k) \/ typed # k \/ ~Visible

\* What the screen shows once all is quiet is the nothing that a change of the
\* text left, or results that were newest when they were told: those given last, or
\* given to another worker that had not posted its own yet.
ShowsTheLast == Quiet => list \in {<<>>} \cup newest
=============================================================================
