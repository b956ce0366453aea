-------------------------- MODULE SearchController --------------------------
(***************************************************************************)
(* search_controller_impl (cpp/src/search_controller.cpp): a search         *)
(* appends the photos it found to the one list of the controller, reset    *)
(* empties the list, and the keys that were searched for are remembered.   *)
(* As in ExploreController a search is synchronous, several workers may be *)
(* inside one at once, nothing is locked, and the points where another     *)
(* thread can tell the difference are the values of pc[w]:                 *)
(*                                                                         *)
(*   idle      not inside search                                           *)
(*   insert    search was called; the key is not remembered yet            *)
(*   begin     on_begin_update not called yet                              *)
(*   transfer  inside curl_get                                             *)
(*   answered, failed   the success or the failure callback is next        *)
(*   appended  the photos are in the list; observer_ is tested next        *)
(*   telling, failing   observer_ was found not null, on_update is next,   *)
(*             after a success or after a failure                          *)
(*   ending    on_update was called, on_end_update is next                 *)
(*                                                                         *)
(* An answer is reduced to the key it was produced for (its photos go into *)
(* the list as one block, named by the key), to NoPhotos (an answer that   *)
(* found nothing) or to NoTotal (a 200 without a total, {"stat":"fail"},   *)
(* or a text that is not JSON).  The steps that two workers take on the    *)
(* shared curl handle are spelled out in ExploreController; here only      *)
(* their outcomes are kept.                                                *)
(***************************************************************************)
EXTENDS Naturals, Sequences, FiniteSets

CONSTANTS
  Worker,    \* background threads that call the controller
  Key,       \* what can be searched for
  NoKey,     \* not a key
  NoPhotos,  \* the answers without photos
  NoTotal

ASSUME SearchAssumption ==
  /\ IsFiniteSet(Worker) /\ IsFiniteSet(Key)
  /\ {NoKey, NoPhotos, NoTotal} \cap Key = {}
  /\ NoPhotos # NoTotal /\ NoKey \notin {NoPhotos, NoTotal}

VARIABLES
  alive,     \* the process is running
  observer,  \* observer_ is not null
  items,     \* items_: the keys of the blocks of photos in the list
  recents,   \* recent_search_key_
  pc,        \* where each worker is
  key,       \* the key each worker searches for
  asked,     \* the keys whose answers a worker inside curl_get may get
  text,      \* what curl_get collected for each worker
  view,      \* the last search_view_data given to the observer
  heard      \* history: the last callback the observer got of each worker

searchVars ==
  <<alive, observer, items, recents, pc, key, asked, text, view, heard>>

Step == {"idle", "insert", "begin", "transfer", "answered", "failed", "appended",
         "telling", "failing", "ending"}

Answers == Key \cup {NoPhotos, NoTotal}

ViewData == [error: BOOLEAN, results: Seq(Key)]

NoView == [error |-> FALSE, results |-> <<>>]

SearchTypeOK ==
  /\ alive \in BOOLEAN
  /\ observer \in BOOLEAN
  /\ items \in Seq(Key)
  /\ recents \in SUBSET Key
  /\ pc \in [Worker -> Step]
  /\ key \in [Worker -> Key \cup {NoKey}]
  /\ asked \in [Worker -> SUBSET Key]
  /\ text \in [Worker -> Answers]
  /\ view \in ViewData
  /\ heard \in [Worker -> {"quiet", "begun", "told"}]

\* A new process; the recent keys are kept in memory only.
Fresh ==
  /\ items = <<>>
  /\ recents = {}
  /\ pc = [w \in Worker |-> "idle"]
  /\ key = [w \in Worker |-> NoKey]
  /\ asked = [w \in Worker |-> {}]
  /\ text = [w \in Worker |-> NoTotal]
  /\ view = NoView
  /\ heard = [w \in Worker |-> "quiet"]

SearchInit == alive = TRUE /\ observer = TRUE /\ Fresh

-----------------------------------------------------------------------------
At(w, from) == alive /\ pc[w] = from

Goto(w, to) == pc' = [pc EXCEPT ![w] = to]

Hear(w, what) == heard' = [heard EXCEPT ![w] = what]

Show(w, error) ==
  /\ view' = [error |-> error, results |-> items]
  /\ Hear(w, "told")

\* search returns.
Return(w) ==
  /\ Goto(w, "idle")
  /\ key' = [key EXCEPT ![w] = NoKey]
  /\ text' = [text EXCEPT ![w] = NoTotal]

Others(w, points) == {v \in Worker \ {w} : pc[v] \in points}

Die ==
  /\ alive' = FALSE
  /\ observer' = FALSE
  /\ items' = <<>>
  /\ recents' = {}
  /\ pc' = [w \in Worker |-> "idle"]
  /\ key' = [w \in Worker |-> NoKey]
  /\ asked' = [w \in Worker |-> {}]
  /\ text' = [w \in Worker |-> NoTotal]
  /\ view' = NoView
  /\ heard' = [w \in Worker |-> "quiet"]

-----------------------------------------------------------------------------
(* Calls made by the application *)

\* A worker calls search(k, 1).
Search(w, k) ==
  /\ At(w, "idle")
  /\ Goto(w, "insert")
  /\ key' = [key EXCEPT ![w] = k]
  /\ UNCHANGED <<alive, observer, items, recents, asked, text, view, heard>>

\* A worker calls reset().  Two workers that change the list at the same time
\* are a data race: either change may be lost.
Reset(w) ==
  /\ At(w, "idle")
  /\ items' \in {<<>>} \cup (IF Others(w, {"answered"}) # {} THEN {items} ELSE {})
  /\ UNCHANGED <<alive, observer, recents, pc, key, asked, text, view, heard>>

\* fetch_recents(): a vector of as many empty strings as there are keys, before
\* which the keys are inserted.
Recents(keys) == [keys |-> keys, blanks |-> Cardinality(keys)]

\* What fetch_recents may see of the set on another thread: the walk over the
\* tree may miss any key while one is being inserted.
Seen ==
  IF Others(NoKey, {"insert"}) = {} THEN {recents}
  ELSE SUBSET (recents \cup {key[w] : w \in Others(NoKey, {"insert"})})

\* The main thread calls unsubscribe().
Unsubscribe ==
  /\ alive
  /\ observer
  /\ observer' = FALSE
  /\ UNCHANGED <<alive, items, recents, pc, key, asked, text, view, heard>>

-----------------------------------------------------------------------------
(* The steps of search *)

\* Variant of Remember: the key is not remembered.
RememberNothing(w) ==
  /\ At(w, "insert")
  /\ Goto(w, "begin")
  /\ UNCHANGED <<alive, observer, items, recents, key, asked, text, view, heard>>

\* recent_search_key_.insert(key), which another insertion may undo.
Remember(w) ==
  /\ At(w, "insert")
  /\ recents' \in {recents \cup {key[w]}}
                  \cup (IF Others(w, {"insert"}) # {} THEN {recents} ELSE {})
  /\ Goto(w, "begin")
  /\ UNCHANGED <<alive, observer, items, key, asked, text, view, heard>>

\* observer_->on_begin_update(), then into curl_get on the shared handle: from
\* now on what is asked for there may reach this worker, and the other way.
BeginUpdate(w) ==
  LET within == Others(w, {"transfer"}) IN
  /\ At(w, "begin")
  /\ observer
  /\ Hear(w, "begun")
  /\ asked' = [v \in Worker |->
                 IF v = w THEN {key[w]} \cup UNION {asked[u] : u \in within}
                 ELSE IF v \in within THEN asked[v] \cup {key[w]}
                 ELSE asked[v]]
  /\ Goto(w, "transfer")
  /\ UNCHANGED <<alive, observer, items, recents, key, text, view>>

\* A 2xx answer of the server, to one of the keys asked for on the handle; what
\* two workers wrote into one stream does not parse.
Answer(w, t) ==
  /\ At(w, "transfer")
  /\ t \in asked[w] \cup {NoPhotos, NoTotal}
  /\ text' = [text EXCEPT ![w] = t]
  /\ asked' = [asked EXCEPT ![w] = {}]
  /\ Goto(w, "answered")
  /\ UNCHANGED <<alive, observer, items, recents, key, view, heard>>

\* No connection, another status, or a handle that is already transferring.
HttpFail(w) ==
  /\ At(w, "transfer")
  /\ asked' = [asked EXCEPT ![w] = {}]
  /\ Goto(w, "failed")
  /\ UNCHANGED <<alive, observer, items, recents, key, text, view, heard>>

\* on_success up to the insertion at the end of items_; a race may lose it.
Extend(w) ==
  /\ At(w, "answered")
  /\ items' \in {IF text[w] \in Key THEN Append(items, text[w]) ELSE items}
                \cup (IF Others(w, {"answered"}) # {} THEN {items} ELSE {})
  /\ Goto(w, "appended")
  /\ UNCHANGED <<alive, observer, recents, key, asked, text, view, heard>>

\* Variant of Succeed: an answer that found nothing is not told.
SucceedUntold(w) ==
  /\ At(w, "appended")
  /\ \/ /\ observer
        /\ Goto(w, IF text[w] = NoPhotos THEN "ending" ELSE "telling")
        /\ UNCHANGED <<key, text>>
     \/ /\ ~observer
        /\ Return(w)
  /\ UNCHANGED <<alive, observer, items, recents, asked, view, heard>>

\* The test of observer_ in on_success.
Succeed(w) ==
  /\ At(w, "appended")
  /\ \/ observer /\ Goto(w, "telling") /\ UNCHANGED <<key, text>>
     \/ ~observer /\ Return(w)
  /\ UNCHANGED <<alive, observer, items, recents, asked, view, heard>>

\* observer_->on_update(), with the list and the total.
ShowAnswer(w) ==
  /\ At(w, "telling")
  /\ observer /\ text[w] # NoTotal
  /\ Show(w, FALSE)
  /\ Goto(w, "ending")
  /\ UNCHANGED <<alive, observer, items, recents, key, asked, text>>

\* stoi of an empty total, an argument of on_update, throws out of on_success;
\* nothing catches it.
Throw(w) ==
  /\ At(w, "telling")
  /\ text[w] = NoTotal
  /\ Die

\* The test of observer_ in on_failure.
Fail(w) ==
  /\ At(w, "failed")
  /\ \/ observer /\ Goto(w, "failing") /\ UNCHANGED <<key, text>>
     \/ ~observer /\ Return(w)
  /\ UNCHANGED <<alive, observer, items, recents, asked, view, heard>>

\* observer_->on_update(), with the error and the list as it is.
ShowError(w) ==
  /\ At(w, "failing")
  /\ observer
  /\ Show(w, TRUE)
  /\ Goto(w, "ending")
  /\ UNCHANGED <<alive, observer, items, recents, key, asked, text>>

\* Variant of EndUpdate: the end is told only if there is something to show.
EndUpdateIfAny(w) ==
  /\ At(w, "ending")
  /\ observer
  /\ IF items = <<>> THEN UNCHANGED heard ELSE Hear(w, "quiet")
  /\ Return(w)
  /\ UNCHANGED <<alive, observer, items, recents, asked, view>>

\* observer_->on_end_update(); search returns.
EndUpdate(w) ==
  /\ At(w, "ending")
  /\ observer
  /\ Hear(w, "quiet")
  /\ Return(w)
  /\ UNCHANGED <<alive, observer, items, recents, asked, view>>

\* on_begin_update is called without a test of observer_, on_update and
\* on_end_update after one test: with a null observer the process dies.
NullCall(w) ==
  /\ alive
  /\ ~observer
  /\ pc[w] \in {"begin", "telling", "failing", "ending"}
  /\ Die

\* The system kills the process, or it dies of one of the data races.
Crash ==
  /\ alive
  /\ Die

\* The application is started again.
Launch ==
  /\ ~alive
  /\ alive' = TRUE
  /\ observer' = TRUE
  /\ UNCHANGED <<items, recents, pc, key, asked, text, view, heard>>

-----------------------------------------------------------------------------
\* What is left of a search once it was called.
Continue(w) ==
  \/ Remember(w)
  \/ BeginUpdate(w)
  \/ \E t \in Answers : Answer(w, t)
  \/ HttpFail(w)
  \/ Extend(w)
  \/ Succeed(w)
  \/ ShowAnswer(w)
  \/ Throw(w)
  \/ Fail(w)
  \/ ShowError(w)
  \/ EndUpdate(w)
  \/ NullCall(w)

\* An application that calls the controller in any order, for any key.
SearchNext ==
  \/ \E w \in Worker : Reset(w) \/ Continue(w) \/ \E k \in Key : Search(w, k)
  \/ Unsubscribe
  \/ Crash
  \/ Launch

SearchSpec == SearchInit /\ [][SearchNext]_searchVars

\* A running thread is scheduled again, and a transfer comes to an end.
SearchFairness == \A w \in Worker : WF_searchVars(Continue(w))

-----------------------------------------------------------------------------
(* Properties *)

Contract == INSTANCE ControllerContract WITH
  Caller <- Worker,
  Data <- ViewData,
  Nothing <- NoView,
  listening <- observer,
  phase <- heard,
  shown <- view

\* The controller keeps the contract of search_controller_observer with any
\* number of searches overlapping: each tells begin, then an update, then end,
\* and nothing is heard after unsubscribe.
KeepsContract == Contract!ContractSpec

\* A search that called on_begin_update comes to its on_end_update, or its
\* observer is gone: an answer without a total takes the process with it.
EveryBeginEnds == Contract!EveryBeginEnds

\* Every block of the list was searched for and is remembered, as long as
\* searches do not overlap: the photos that an answer brings belong to a key
\* that fetch_recents will offer.
FoundIsRemembered ==
  \A i \in 1..Len(items) : items[i] \in recents
=============================================================================
