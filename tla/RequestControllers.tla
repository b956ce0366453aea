------------------------- MODULE RequestControllers -------------------------
(***************************************************************************)
(* The controllers that keep nothing between requests and make one request *)
(* on behalf of a screen: photo_detail_controller_impl,                    *)
(* photo_comment_controller_impl and map_controller_impl                   *)
(* (cpp/src/photo_detail_controller.cpp, photo_comment_controller.cpp,     *)
(* map_controller.cpp).  Their request is the same code, up to the names,  *)
(* so one module stands for any number of such controllers of a process:   *)
(* each has its own observer and its own curl handle, and at most one      *)
(* thread inside request.  The main thread calls unsubscribe meanwhile.    *)
(*                                                                         *)
(* pc[c] is the point that the request of controller c has reached:        *)
(*   idle      no request is running                                       *)
(*   begin     request was called; on_begin_update not called yet          *)
(*   transfer  inside curl_get                                             *)
(*   answered, failed   the success or the failure callback is next        *)
(*   telling, failing   observer_ was found not null, on_update is next,   *)
(*             after a success or after a failure                          *)
(*   ending    on_update was called, on_end_update is next                 *)
(*                                                                         *)
(* A text is "full" (what was asked for), "hollow" (JSON without it, such  *)
(* as {"stat":"fail"}, or no JSON) or "odd" (a photo without the string    *)
(* fields "latitude" and "longitude").                                     *)
(***************************************************************************)
CONSTANTS
  Controller,   \* the controllers of the process
  Silent,       \* those whose on_failure does nothing: the map's
  Strict,       \* those that parse numbers with stod: the map's
  Watched       \* any one of them: the contract is stated of each on its own

ASSUME RequestAssumption ==
  /\ Silent \subseteq Controller
  /\ Strict \subseteq Controller
  /\ Watched \in Controller

VARIABLES
  alive,     \* the process is running
  observer,  \* whose observer_ is not null
  pc,        \* where the request of each controller is
  text,      \* what curl_get collected for each controller
  view,      \* the last view data given to each observer
  heard      \* history: the last callback each observer got

requestVars == <<alive, observer, pc, text, view, heard>>

Step == {"idle", "begin", "transfer", "answered", "failed", "telling", "failing",
         "ending"}

Text == {"full", "hollow", "odd"}

ViewData == [error: BOOLEAN, content: {"full", "hollow"}]

NoView == [error |-> FALSE, content |-> "nothing"]

RequestTypeOK ==
  /\ alive \in BOOLEAN
  /\ observer \in [Controller -> BOOLEAN]
  /\ pc \in [Controller -> Step]
  /\ text \in [Controller -> Text \cup {"none"}]
  /\ view \in [Controller -> ViewData \cup {NoView}]
  /\ heard \in [Controller -> {"quiet", "begun", "told"}]

RequestInit ==
  /\ alive = TRUE
  /\ observer = [c \in Controller |-> TRUE]
  /\ pc = [c \in Controller |-> "idle"]
  /\ text = [c \in Controller |-> "none"]
  /\ view = [c \in Controller |-> NoView]
  /\ heard = [c \in Controller |-> "quiet"]

At(c, from) == alive /\ pc[c] = from

Goto(c, to) == pc' = [pc EXCEPT ![c] = to]

Hear(c, what) == heard' = [heard EXCEPT ![c] = what]

\* observer_->on_update(data)
Show(c, data) ==
  /\ view' = [view EXCEPT ![c] = data]
  /\ Hear(c, "told")

Die ==
  /\ alive' = FALSE
  /\ observer' = [c \in Controller |-> FALSE]
  /\ pc' = [c \in Controller |-> "idle"]
  /\ text' = [c \in Controller |-> "none"]
  /\ view' = [c \in Controller |-> NoView]
  /\ heard' = [c \in Controller |-> "quiet"]

-----------------------------------------------------------------------------
\* A worker calls request_detail, request_comments or request.
Request(c) ==
  /\ At(c, "idle")
  /\ Goto(c, "begin")
  /\ UNCHANGED <<alive, observer, text, view, heard>>

\* observer_->on_begin_update(), then into curl_get.
BeginUpdate(c) ==
  /\ At(c, "begin")
  /\ observer[c]
  /\ Hear(c, "begun")
  /\ Goto(c, "transfer")
  /\ UNCHANGED <<alive, observer, text, view>>

\* A 2xx answer.
Answer(c, t) ==
  /\ At(c, "transfer")
  /\ text' = [text EXCEPT ![c] = t]
  /\ Goto(c, "answered")
  /\ UNCHANGED <<alive, observer, view, heard>>

\* No connection, or another status.
HttpFail(c) ==
  /\ At(c, "transfer")
  /\ Goto(c, "failed")
  /\ UNCHANGED <<alive, observer, text, view, heard>>

\* Variant of Succeed: an answer without what was asked for is not told.
SucceedUntold(c) ==
  /\ At(c, "answered")
  /\ ~(c \in Strict /\ text[c] = "odd")
  /\ Goto(c, IF ~observer[c] THEN "idle"
             ELSE IF text[c] = "hollow" THEN "ending" ELSE "telling")
  /\ UNCHANGED <<alive, observer, text, view, heard>>

\* Variant of Succeed: the observer is told before the text is parsed.
SucceedUnparsed(c) ==
  /\ At(c, "answered")
  /\ observer[c]
  /\ Show(c, [error |-> FALSE, content |-> text[c]])
  /\ Goto(c, "ending")
  /\ UNCHANGED <<alive, observer, text>>

\* on_success up to the test of observer_: the whole text is parsed.  Nothing is
\* left to do without an observer.
Succeed(c) ==
  /\ At(c, "answered")
  /\ ~(c \in Strict /\ text[c] = "odd")
  /\ Goto(c, IF observer[c] THEN "telling" ELSE "idle")
  /\ UNCHANGED <<alive, observer, text, view, heard>>

\* Variant of ShowAnswer: no on_end_update follows.
ShowWithoutEnd(c) ==
  /\ At(c, "telling")
  /\ observer[c]
  /\ Show(c, [error |-> FALSE, content |-> "full"])
  /\ Goto(c, "idle")
  /\ UNCHANGED <<alive, observer, text>>

\* observer_->on_update(), with what was parsed.
ShowAnswer(c) ==
  /\ At(c, "telling")
  /\ observer[c]
  /\ Show(c, [error |-> FALSE,
              content |-> IF text[c] = "hollow" THEN "hollow" ELSE "full"])
  /\ Goto(c, "ending")
  /\ UNCHANGED <<alive, observer, text>>

\* stod of an empty string throws out of on_success; nothing catches it.
Throw(c) ==
  /\ At(c, "answered")
  /\ c \in Strict /\ text[c] = "odd"
  /\ Die

\* Variant of Fail: every controller is as silent as the map's.
FailSilently(c) ==
  /\ At(c, "failed")
  /\ Goto(c, "idle")
  /\ UNCHANGED <<alive, observer, text, view, heard>>

\* on_failure up to the test of observer_; that of the map controller has an
\* empty body.
Fail(c) ==
  /\ At(c, "failed")
  /\ Goto(c, IF observer[c] /\ c \notin Silent THEN "failing" ELSE "idle")
  /\ UNCHANGED <<alive, observer, text, view, heard>>

\* observer_->on_update(), with the error.
ShowError(c) ==
  /\ At(c, "failing")
  /\ observer[c]
  /\ Show(c, [error |-> TRUE, content |-> "hollow"])
  /\ Goto(c, "ending")
  /\ UNCHANGED <<alive, observer, text>>

\* observer_->on_end_update(); request returns.
EndUpdate(c) ==
  /\ At(c, "ending")
  /\ observer[c]
  /\ Hear(c, "quiet")
  /\ Goto(c, "idle")
  /\ UNCHANGED <<alive, observer, text, view>>

\* on_begin_update is called without a test of observer_, on_update and
\* on_end_update after one test: with a null observer the process dies.
NullCall(c) ==
  /\ alive
  /\ ~observer[c]
  /\ pc[c] \in {"begin", "telling", "failing", "ending"}
  /\ Die

\* What is left of a request once it was called.
Continue(c) ==
  \/ BeginUpdate(c)
  \/ \E t \in Text : Answer(c, t)
  \/ HttpFail(c)
  \/ Succeed(c)
  \/ Throw(c)
  \/ ShowAnswer(c)
  \/ Fail(c)
  \/ ShowError(c)
  \/ EndUpdate(c)
  \/ NullCall(c)

-----------------------------------------------------------------------------
\* The main thread calls unsubscribe().
Unsubscribe(c) ==
  /\ alive
  /\ observer[c]
  /\ observer' = [observer EXCEPT ![c] = FALSE]
  /\ UNCHANGED <<alive, pc, text, view, heard>>

\* The system kills the process.
Crash ==
  /\ alive
  /\ Die

\* The application is started again: new controllers, each subscribed in the
\* initialiser of its data controller.
Launch ==
  /\ ~alive
  /\ alive' = TRUE
  /\ observer' = [c \in Controller |-> TRUE]
  /\ UNCHANGED <<pc, text, view, heard>>

RequestNext ==
  \/ \E c \in Controller : Request(c) \/ Continue(c) \/ Unsubscribe(c)
  \/ Crash
  \/ Launch

RequestSpec == RequestInit /\ [][RequestNext]_requestVars

RequestFairness == \A c \in Controller : WF_requestVars(Continue(c))

FairRequestSpec == RequestSpec /\ RequestFairness

-----------------------------------------------------------------------------
Contract == INSTANCE ControllerContract WITH
  Caller <- {Watched},
  Data <- ViewData,
  Nothing <- NoView,
  listening <- observer[Watched],
  phase <- [c \in {Watched} |-> heard[c]],
  shown <- view[Watched]

\* Each controller keeps the contract of its observer interface (begin, one or
\* more updates, end, and nothing after unsubscribe), whatever the others of
\* the same process do.
KeepsContract == Contract!ContractSpec

\* A request that called on_begin_update comes to its on_end_update, or its
\* observer is gone.
EveryBeginEnds == Contract!EveryBeginEnds
=============================================================================
