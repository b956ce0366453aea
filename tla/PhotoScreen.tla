----------------------------- MODULE PhotoScreen -----------------------------
(***************************************************************************)
(* The screen of one photo: PhotoViewActivity.kt and PhotoDataController.kt *)
(* on Android, PhotoViewController.swift and PhotoDataController.swift on  *)
(* iOS.  One background worker asks for the details and then for the       *)
(* comments; the screen may be left at any moment.                         *)
(*                                                                         *)
(* Android makes both requests while it subscribes, so the screen is bound *)
(* to the two streams when both are over, and is then given the last value *)
(* of each.  iOS is bound from the start and hears of a value on the main  *)
(* thread some time after it was set.                                      *)
(***************************************************************************)
EXTENDS RequestControllers, Sequences

ASSUME PhotoAssumption ==
  /\ Controller = {"detail", "comments"}
  /\ Silent = {} /\ Strict = {}

VARIABLES
  platform, \* the application that runs: "Android" or "iOS"
  open,    \* the screen is there and subscribed
  queue,   \* the requests the worker has still to make
  bound,   \* the screen listens to the streams of its data controllers
  drawn    \* what the screen shows of each controller

photoVars == <<requestVars, platform, open, queue, bound, drawn>>

PhotoTypeOK ==
  /\ RequestTypeOK
  /\ platform \in {"Android", "iOS"}
  /\ open \in BOOLEAN
  /\ queue \in {<<"detail", "comments">>, <<"comments">>, <<>>}
  /\ bound \in BOOLEAN
  /\ drawn \in [Controller -> ViewData \cup {NoView}]

Opened ==
  /\ queue = <<"detail", "comments">>
  /\ bound = (platform = "iOS")
  /\ drawn = [c \in Controller |-> NoView]

PhotoInit ==
  /\ RequestInit
  /\ platform \in {"Android", "iOS"}
  /\ open = TRUE
  /\ Opened

Busy == \E c \in Controller : pc[c] # "idle"

-----------------------------------------------------------------------------
\* Variant of RunNext: the comments are asked for without waiting.
RunNextAtOnce ==
  /\ queue # <<>>
  /\ Request(Head(queue))
  /\ queue' = Tail(queue)
  /\ UNCHANGED <<open, bound, drawn>>

\* The worker makes the next request when the one before has returned.
RunNext ==
  /\ queue # <<>>
  /\ ~Busy
  /\ Request(Head(queue))
  /\ queue' = Tail(queue)
  /\ UNCHANGED <<open, bound, drawn>>

Run(c) == Continue(c) /\ UNCHANGED <<open, queue, bound, drawn>>

\* Variant of Bind: the requests are not waited for.
BindAtOnce ==
  /\ platform = "Android"
  /\ alive /\ open /\ ~bound
  /\ bound' = TRUE
  /\ drawn' = view
  /\ UNCHANGED <<requestVars, open, queue>>

\* Android: doOnSubscribe returned, the merged streams are subscribed to.
Bind ==
  /\ platform = "Android"
  /\ alive /\ open /\ ~bound
  /\ queue = <<>> /\ ~Busy
  /\ bound' = TRUE
  /\ drawn' = view
  /\ UNCHANGED <<requestVars, open, queue>>

\* iOS: the main queue hands a new value to the screen, which does not draw
\* the details of a failure.
Deliver(c) ==
  /\ platform = "iOS"
  /\ alive /\ open
  /\ view[c] # drawn[c]
  /\ ~(c = "detail" /\ view[c].error)
  /\ drawn' = [drawn EXCEPT ![c] = view[c]]
  /\ UNCHANGED <<requestVars, open, queue, bound>>

\* onDestroy or deinit drops the subscriptions and calls unsubscribe on the
\* controller of the details, then on that of the comments.  iOS also drops the
\* request that its queue has not started.
Leave ==
  /\ \/ /\ open
        /\ Unsubscribe("detail")
        /\ queue' = IF platform = "iOS" THEN <<>> ELSE queue
     \/ /\ ~open
        /\ Unsubscribe("comments")
        /\ UNCHANGED queue
  /\ open' = FALSE
  /\ UNCHANGED <<bound, drawn>>

PhotoCrash == Crash /\ UNCHANGED <<open, queue, bound, drawn>>

\* The application is started again and the photo is opened again.
Reopen ==
  /\ Launch
  /\ open' = TRUE
  /\ queue' = <<"detail", "comments">>
  /\ bound' = (platform = "iOS")
  /\ drawn' = [c \in Controller |-> NoView]

Worker == RunNext \/ \E c \in Controller : Run(c)

MainThread == Bind \/ \E c \in Controller : Deliver(c)

PhotoNext ==
  /\ Worker \/ MainThread \/ Leave \/ PhotoCrash \/ Reopen
  /\ UNCHANGED platform

PhotoSpec == PhotoInit /\ [][PhotoNext]_photoVars

\* The worker and the main thread are scheduled again, a transfer ends.
FairPhotoSpec ==
  /\ PhotoSpec
  /\ WF_photoVars(Worker /\ UNCHANGED platform)
  /\ WF_photoVars(MainThread /\ UNCHANGED platform)

-----------------------------------------------------------------------------
(* Properties *)

\* The photo and its comments are never asked for at the same time: whatever
\* becomes of the details, the comments are asked for next and only then.
OneAtATime ==
  /\ \E c \in Controller : pc[c] = "idle"
  /\ (\A c \in Controller : observer[c]) => \E c \in Controller : heard[c] = "quiet"

\* What the screen shows is what the controllers said last, and on Android the
\* photo and the comments appear together, when both requests are over.
DrawnTogether ==
  alive => /\ \A c \in Controller : drawn[c] \in {NoView, view[c]}
           /\ platform = "Android" /\ bound => \A c \in Controller : drawn[c] # NoView

\* There is nothing left to draw of a controller.
Complete(c) ==
  /\ view[c] # NoView
  /\ drawn[c] = view[c] \/ (platform = "iOS" /\ c = "detail" /\ view[c].error)

\* A screen that stays open comes to show what both requests brought, an error
\* included, unless the process dies.
ScreenFills ==
  open ~> (\A c \in Controller : Complete(c)) \/ ~open \/ ~alive
=============================================================================
