--------------------------- MODULE PhotoScreenProofs ---------------------------
(***************************************************************************)
(* The photo screen uses its two controllers as they allow, so what is     *)
(* proved of these holds on the screen; it never has both requests under   *)
(* way, and it draws what they said last.                                  *)
(***************************************************************************)
EXTENDS PhotoScreen, RequestControllersProofs

\* The requests the worker has still to make.
ToMake ==
  IF queue = <<"detail", "comments">> THEN {"detail", "comments"}
  ELSE IF queue = <<"comments">> THEN {"comments"} ELSE {}

\* A controller that was not asked, or has not answered, has told nothing; one
\* that has returned to a screen still open has told something.
Progress ==
  \A c \in Controller :
    /\ c \in ToMake => pc[c] = "idle" /\ view[c] = NoView
    /\ pc[c] \in {"begin", "transfer", "answered", "failed", "telling", "failing"}
         => view[c] = NoView
    /\ alive /\ open => observer[c]
    /\ alive /\ open /\ c \notin ToMake /\ pc[c] = "idle" => view[c] # NoView
    /\ pc[c] = "ending" => view[c] # NoView
    /\ ~alive => pc[c] = "idle" /\ view[c] = NoView

\* Android is bound when both requests are over.
BoundLate ==
  alive /\ platform = "Android" /\ bound => queue = <<>> /\ ~Busy

OneRunning == \E c \in Controller : pc[c] = "idle"

PhotoInv == PhotoTypeOK /\ Progress /\ BoundLate /\ OneRunning /\ DrawnTogether

-----------------------------------------------------------------------------
(* The queue *)

LEMMA QueueFacts ==
  ASSUME PhotoTypeOK, queue # <<>>, queue' = Tail(queue)
  PROVE  /\ Head(queue) \in Controller /\ Head(queue) \in ToMake
         /\ queue' \in {<<"comments">>, <<>>}
         /\ ToMake' = ToMake \ {Head(queue)}
<1>1. CASE queue = <<"detail", "comments">>
  <2>1. Head(queue) = "detail" /\ Tail(queue) = <<"comments">>
    BY <1>1
  <2>2. queue' # <<"detail", "comments">>
    BY <2>1
  <2> QED BY <1>1, <2>1, <2>2, PhotoAssumption DEF ToMake
<1>2. CASE queue = <<"comments">>
  <2>1. Head(queue) = "comments" /\ Tail(queue) = <<>>
    BY <1>2
  <2>2. queue # <<"detail", "comments">> /\ queue' # <<"detail", "comments">>
        /\ queue' # <<"comments">>
    BY <1>2, <2>1
  <2> QED BY <1>2, <2>1, <2>2, PhotoAssumption DEF ToMake
<1> QED BY <1>1, <1>2 DEF PhotoTypeOK

LEMMA EmptyQueue == queue = <<>> => ToMake = {}
<1>1. <<>> # <<"detail", "comments">> /\ <<>> # <<"comments">>
  OBVIOUS
<1> QED BY <1>1 DEF ToMake

LEMMA FullQueue == queue = <<"detail", "comments">> => ToMake = Controller
BY PhotoAssumption DEF ToMake

-----------------------------------------------------------------------------
(* The screen uses the controllers as any application may. *)

LEMMA StepRefines ==
  PhotoTypeOK /\ [PhotoNext]_photoVars => [RequestNext]_requestVars
<1> SUFFICES ASSUME PhotoTypeOK, [PhotoNext]_photoVars
             PROVE  [RequestNext]_requestVars
  OBVIOUS
<1>1. CASE RunNext
  <2>1. Request(Head(queue)) /\ Head(queue) \in Controller
    BY <1>1, QueueFacts DEF RunNext
  <2> QED BY <2>1 DEF RequestNext
<1>2. ASSUME NEW c \in Controller, Run(c) PROVE RequestNext
  BY <1>2 DEF Run, RequestNext
<1>3. ASSUME Bind \/ \E c \in Controller : Deliver(c) PROVE UNCHANGED requestVars
  BY <1>3 DEF Bind, Deliver
<1>4. CASE Leave
  <2>1. "detail" \in Controller /\ "comments" \in Controller
    BY PhotoAssumption
  <2> QED BY <1>4, <2>1 DEF Leave, RequestNext
<1>5. CASE PhotoCrash
  BY <1>5 DEF PhotoCrash, RequestNext
<1>6. CASE Reopen
  BY <1>6 DEF Reopen, RequestNext
<1>7. CASE UNCHANGED photoVars
  BY <1>7 DEF photoVars
<1> QED BY <1>1, <1>2, <1>3, <1>4, <1>5, <1>6, <1>7 DEF PhotoNext, Worker, MainThread

-----------------------------------------------------------------------------
(* The invariant *)

LEMMA PhotoInitInv == PhotoInit => PhotoInv
<1> SUFFICES ASSUME PhotoInit PROVE PhotoInv
  OBVIOUS
<1> USE DEF PhotoInit, Opened
<1>1. PhotoTypeOK
  BY InitType DEF PhotoTypeOK
<1>2. Progress
  BY FullQueue DEF RequestInit, Progress
<1>3. BoundLate /\ DrawnTogether
  BY DEF RequestInit, BoundLate, DrawnTogether
<1>4. OneRunning
  BY PhotoAssumption DEF RequestInit, OneRunning
<1> QED BY <1>1, <1>2, <1>3, <1>4 DEF PhotoInv

LEMMA DieInv ==
  ASSUME PhotoInv, Die, UNCHANGED <<open, queue, bound, drawn, platform>>
  PROVE  PhotoInv'
<1>1. PhotoTypeOK'
  BY DieType DEF PhotoInv, PhotoTypeOK
<1>2. Progress' /\ BoundLate' /\ DrawnTogether'
  BY DEF Die, Progress, BoundLate, DrawnTogether
<1>3. OneRunning'
  BY PhotoAssumption DEF Die, OneRunning
<1> QED BY <1>1, <1>2, <1>3 DEF PhotoInv

LEMMA RunNextInv == ASSUME PhotoInv, RunNext, UNCHANGED platform PROVE PhotoInv'
<1> DEFINE r == Head(queue)
<1>1. /\ r \in Controller /\ r \in ToMake /\ queue' \in {<<"comments">>, <<>>}
      /\ ToMake' = ToMake \ {r}
  BY QueueFacts DEF RunNext, PhotoInv
<1>2. /\ pc' = [pc EXCEPT ![r] = "begin"]
      /\ UNCHANGED <<alive, observer, text, view, heard, open, bound, drawn>>
      /\ alive /\ queue # <<>>
      /\ \A c \in Controller : pc[c] = "idle"
  BY DEF RunNext, Request, At, Goto, Busy
<1> HIDE DEF r
<1>3. pc \in [Controller -> Step]
  BY DEF PhotoInv, PhotoTypeOK, RequestTypeOK
<1>4. RequestTypeOK'
  BY <1>1, <1>2, <1>3 DEF PhotoInv, PhotoTypeOK, RequestTypeOK, Step
<1>5. PhotoTypeOK'
  BY <1>1, <1>2, <1>4 DEF PhotoInv, PhotoTypeOK
<1>6. Progress'
  BY <1>1, <1>2, <1>3 DEF PhotoInv, Progress
<1>7. BoundLate' /\ DrawnTogether'
  BY <1>1, <1>2 DEF PhotoInv, BoundLate, DrawnTogether
<1>8. OneRunning'
  BY <1>1, <1>2, <1>3, PhotoAssumption DEF OneRunning
<1> QED BY <1>5, <1>6, <1>7, <1>8 DEF PhotoInv

LEMMA ToMakeKept == queue' = queue => ToMake' = ToMake
BY DEF ToMake

\* A callback of c: nobody else is under way, and nothing of c was drawn.
LEMMA RunInv ==
  ASSUME PhotoInv, NEW c \in Controller, Run(c), UNCHANGED platform PROVE PhotoInv'
<1>1. /\ UNCHANGED <<open, queue, bound, drawn>>
      /\ ToMake' = ToMake
  BY ToMakeKept DEF Run
<1>2. /\ pc \in [Controller -> Step]
      /\ view \in [Controller -> ViewData \cup {NoView}]
  BY DEF PhotoInv, PhotoTypeOK, RequestTypeOK
<1>3. PhotoTypeOK'
  BY <1>1, ContinueType DEF Run, PhotoInv, PhotoTypeOK
<1>4. CASE Throw(c) \/ NullCall(c)
  BY <1>1, <1>4, DieInv DEF Throw, NullCall
<1>5. ASSUME NEW from, NEW to, At(c, from), from # "idle", Goto(c, to),
             UNCHANGED <<alive, observer>>,
             \/ /\ to \in {"transfer", "answered", "failed", "telling", "failing"}
                /\ from \in {"begin", "transfer", "answered", "failed"}
                /\ UNCHANGED view
             \/ UNCHANGED view /\ to = "idle" /\ (from = "ending" \/ ~observer[c])
             \/ /\ to = "ending" /\ from \in {"telling", "failing"}
                /\ \E data \in ViewData : view' = [view EXCEPT ![c] = data]
      PROVE  PhotoInv'
  <2>1. NoView \notin ViewData
    BY DEF NoView, ViewData
  <2>2. Progress'
    BY <1>1, <1>2, <1>5, <2>1 DEF At, Goto, PhotoInv, Progress
  <2>3. BoundLate'
    BY <1>1, <1>2, <1>5 DEF At, Goto, PhotoInv, BoundLate, Busy
  <2>4. OneRunning'
    BY <1>1, <1>2, <1>5, PhotoAssumption DEF At, Goto, PhotoInv, OneRunning
  <2>5. DrawnTogether'
    BY <1>1, <1>2, <1>5 DEF At, Goto, PhotoInv, Progress, DrawnTogether
  <2> QED BY <1>3, <2>2, <2>3, <2>4, <2>5 DEF PhotoInv
<1>6. CASE BeginUpdate(c)
  BY <1>5, <1>6 DEF BeginUpdate
<1>7. CASE \E t \in Text : Answer(c, t)
  BY <1>5, <1>7 DEF Answer
<1>8. CASE HttpFail(c)
  BY <1>5, <1>8 DEF HttpFail
<1>9. CASE Succeed(c)
  BY <1>5, <1>9 DEF Succeed
<1>10. CASE ShowAnswer(c)
  <2>1. [error |-> FALSE,
         content |-> IF text[c] = "hollow" THEN "hollow" ELSE "full"] \in ViewData
    BY DEF ViewData
  <2> QED BY <1>5, <1>10, <2>1 DEF ShowAnswer, Show
<1>11. CASE Fail(c)
  BY <1>5, <1>11, PhotoAssumption DEF Fail
<1>12. CASE ShowError(c)
  <2>1. [error |-> TRUE, content |-> "hollow"] \in ViewData
    BY DEF ViewData
  <2> QED BY <1>5, <1>12, <2>1 DEF ShowError, Show
<1>13. CASE EndUpdate(c)
  BY <1>5, <1>13 DEF EndUpdate
<1> QED BY <1>4, <1>6, <1>7, <1>8, <1>9, <1>10, <1>11, <1>12, <1>13
        DEF Run, Continue

LEMMA BindInv == ASSUME PhotoInv, Bind, UNCHANGED platform PROVE PhotoInv'
<1>1. /\ UNCHANGED <<alive, observer, pc, text, view, heard, open, queue>>
      /\ ToMake' = ToMake /\ ToMake = {} /\ drawn' = view
      /\ alive /\ open /\ queue = <<>> /\ ~Busy
  BY ToMakeKept, EmptyQueue DEF Bind, requestVars
<1>2. \A c \in Controller : view[c] # NoView
  BY <1>1 DEF PhotoInv, Progress, Busy
<1>3. view \in [Controller -> ViewData \cup {NoView}] /\ bound' \in BOOLEAN
  BY DEF PhotoInv, PhotoTypeOK, RequestTypeOK, Bind
<1>4. PhotoTypeOK'
  BY <1>1, <1>3 DEF PhotoInv, PhotoTypeOK, RequestTypeOK
<1> QED BY <1>1, <1>2, <1>4
        DEF PhotoInv, Progress, BoundLate, Busy, OneRunning, DrawnTogether

LEMMA DeliverInv ==
  ASSUME PhotoInv, NEW c \in Controller, Deliver(c), UNCHANGED platform
  PROVE  PhotoInv'
<1>1. /\ UNCHANGED <<alive, observer, pc, text, view, heard, open, queue, bound>>
      /\ ToMake' = ToMake /\ drawn' = [drawn EXCEPT ![c] = view[c]]
      /\ platform # "Android"
  BY ToMakeKept DEF Deliver, requestVars
<1>2. PhotoTypeOK'
  BY <1>1 DEF PhotoInv, PhotoTypeOK, RequestTypeOK
<1>3. DrawnTogether'
  BY <1>1 DEF PhotoInv, PhotoTypeOK, DrawnTogether
<1>4. Progress' /\ BoundLate' /\ OneRunning'
  BY <1>1 DEF PhotoInv, Progress, BoundLate, Busy, OneRunning
<1> QED BY <1>2, <1>3, <1>4 DEF PhotoInv

LEMMA LeaveInv == ASSUME PhotoInv, Leave, UNCHANGED platform PROVE PhotoInv'
<1>1. PICK c \in Controller : Unsubscribe(c)
  BY PhotoAssumption DEF Leave
<1>2. /\ UNCHANGED <<alive, pc, text, view, heard, bound, drawn>>
      /\ open' = FALSE /\ queue' \in {queue, <<>>}
  BY <1>1 DEF Leave, Unsubscribe
<1>3. ToMake' \subseteq ToMake
  BY <1>2, ToMakeKept, EmptyQueue DEF ToMake
<1>4. RequestTypeOK'
  BY <1>1 DEF Unsubscribe, PhotoInv, PhotoTypeOK, RequestTypeOK
<1>5. PhotoTypeOK'
  BY <1>2, <1>4 DEF PhotoInv, PhotoTypeOK
<1>6. Progress'
  BY <1>2, <1>3 DEF PhotoInv, Progress
<1>7. BoundLate' /\ OneRunning' /\ DrawnTogether'
  BY <1>2 DEF PhotoInv, BoundLate, Busy, OneRunning, DrawnTogether
<1> QED BY <1>5, <1>6, <1>7 DEF PhotoInv

LEMMA ReopenInv == ASSUME PhotoInv, Reopen, UNCHANGED platform PROVE PhotoInv'
<1>1. /\ alive' = TRUE /\ ~alive /\ observer' = [c \in Controller |-> TRUE]
      /\ UNCHANGED <<pc, text, view, heard>>
      /\ queue' = <<"detail", "comments">>
      /\ drawn' = [c \in Controller |-> NoView]
      /\ open' = TRUE /\ bound' = (platform = "iOS")
  BY DEF Reopen, Launch
<1>2. queue' = <<"detail", "comments">> => ToMake' = Controller
  BY PhotoAssumption DEF ToMake
<1>3. RequestTypeOK'
  BY <1>1 DEF PhotoInv, PhotoTypeOK, RequestTypeOK
<1>4. PhotoTypeOK'
  BY <1>1, <1>3 DEF PhotoInv, PhotoTypeOK
<1>5. Progress'
  BY <1>1, <1>2 DEF PhotoInv, Progress
<1>6. BoundLate' /\ DrawnTogether'
  BY <1>1 DEF BoundLate, DrawnTogether
<1>7. OneRunning'
  BY <1>1 DEF PhotoInv, OneRunning
<1> QED BY <1>4, <1>5, <1>6, <1>7 DEF PhotoInv

LEMMA PhotoNextInv == PhotoInv /\ [PhotoNext]_photoVars => PhotoInv'
<1> SUFFICES ASSUME PhotoInv, [PhotoNext]_photoVars PROVE PhotoInv'
  OBVIOUS
<1>1. CASE UNCHANGED photoVars
  <2>1. ToMake' = ToMake
    BY <1>1, ToMakeKept DEF photoVars
  <2> QED BY <1>1, <2>1 DEF photoVars, requestVars, PhotoInv, PhotoTypeOK,
          RequestTypeOK, Progress, BoundLate, Busy, OneRunning, DrawnTogether
<1>2. CASE PhotoCrash /\ UNCHANGED platform
  BY <1>2, DieInv DEF PhotoCrash, Crash
<1> QED BY <1>1, <1>2, RunNextInv, RunInv, BindInv, DeliverInv, LeaveInv, ReopenInv
        DEF PhotoNext, Worker, MainThread

\* The invariant that the next theorems rest on: where the two requests are with
\* respect to the worker's queue, and what is drawn of them meanwhile
\* (PhotoViewActivity.kt:49-73, PhotoViewController.swift:43-112).
THEOREM PhotoInvCorrect == PhotoSpec => []PhotoInv
BY PhotoInitInv, PhotoNextInv, PTL DEF PhotoSpec

\* In particular every variable of the screen keeps its type: the worker's queue is
\* a rest of the two requests, and what is drawn is what a controller may say.
THEOREM PhotoTypeCorrect == PhotoSpec => []PhotoTypeOK
<1>1. PhotoInv => PhotoTypeOK
  BY DEF PhotoInv
<1> QED BY <1>1, PhotoInvCorrect, PTL

\* What the screen shows is what the controllers said last, and on Android the
\* photo and the comments appear together (PhotoViewActivity.kt:49-73).
THEOREM DrawnTogetherCorrect == PhotoSpec => []DrawnTogether
<1>1. PhotoInv => DrawnTogether
  BY DEF PhotoInv
<1> QED BY <1>1, PhotoInvCorrect, PTL

\* The screen is one of the applications that the controllers allow for.
THEOREM PhotoUsesControllers == PhotoSpec => RequestSpec
<1>1. PhotoInit => RequestInit
  BY DEF PhotoInit
<1>2. PhotoInv => PhotoTypeOK
  BY DEF PhotoInv
<1> QED BY <1>1, <1>2, StepRefines, PhotoInvCorrect, PTL DEF PhotoSpec, RequestSpec

\* The contract of each controller holds on the screen, which may be left
\* between its two requests or within one (PhotoDataController.kt).
THEOREM PhotoContractKept == PhotoSpec => KeepsContract
<1>1. Watched \notin Silent
  BY PhotoAssumption
<1> QED BY <1>1, PhotoUsesControllers, RequestContractKept

\* The details and the comments are never asked for at the same time, whatever
\* becomes of either request.
THEOREM OneAtATimeCorrect == PhotoSpec => []OneAtATime
<1>1. PhotoInv /\ ContractInv => OneAtATime
  BY PhotoAssumption
  DEF PhotoInv, OneRunning, OneAtATime, ContractInv, Heard
<1>2. RequestSpec => []ContractInv
  BY ContractInvInit, ContractInvNext, RequestTypeCorrect, PTL DEF RequestSpec
<1> QED BY <1>1, <1>2, PhotoInvCorrect, PhotoUsesControllers, PTL
=============================================================================
