------------------------- MODULE ExploreScreenProofs -------------------------
(***************************************************************************)
(* What is proved of the explore screen.                                   *)
(*                                                                         *)
(* For any workers and any deal of the pipelines to them: its indicators   *)
(* tell the truth (SpinnerInv), no page beyond the last is requested       *)
(* (ScreenInv), and the screen drives the controller only as the           *)
(* controller may be driven (CoreStep), so that what was proved of the     *)
(* controller holds of the screen.                                         *)
(*                                                                         *)
(* For one worker and pages with one digit: the list is the pages in order *)
(* (OrderInv).                                                             *)
(***************************************************************************)
EXTENDS ExploreScreen, ExploreControllerProofs, FiniteSetTheorems

Shape ==
  /\ pc \in [Worker -> Step]
  /\ queue \in [Worker -> Seq(Pipeline)]

\* Only iOS posts the values of loadings, and the last one is the present one.
InPost ==
  /\ posted \in Seq(BOOLEAN)
  /\ posted # <<>> => Platform = "ios" /\ posted[Len(posted)] = loadings
  /\ Platform = "ios" => ~loadingMores

SpinnerInv == Shape /\ InPost /\ SpinnerHonest

\* What SpinnerHonest says, without the sets.
LEMMA HonestAlternative ==
  SpinnerHonest <=>
    (observer =>
       /\ loadings \/ loadingMores =>
            \E w \in Worker : pc[w] \notin {"idle", "begin", "saving"}
       /\ refreshing /\ posted = <<>> =>
            \/ \E w \in Worker : pc[w] \notin {"idle", "saving"}
            \/ IsWaiting("refresh")
            \/ reloading # {})
BY DEF SpinnerHonest, Begun, Unended, RefreshDue

\* The same of the next state.
LEMMA HonestAlternativeNext ==
  SpinnerHonest' <=>
    (observer' =>
       /\ loadings' \/ loadingMores' =>
            \E w \in Worker : pc'[w] \notin {"idle", "begin", "saving"}
       /\ refreshing' /\ posted' = <<>> =>
            \/ \E w \in Worker : pc'[w] \notin {"idle", "saving"}
            \/ IsWaiting("refresh")'
            \/ reloading' # {})
BY DEF SpinnerHonest, Begun, Unended, RefreshDue

LEMMA FirstJobShape ==
  /\ FirstJob \in [Worker -> Seq(Pipeline)]
  /\ [w \in Worker |-> <<>>] \in [Worker -> Seq(Pipeline)]
<1>1. <<>> \in Seq(Pipeline) /\ <<"initial">> \in Seq(Pipeline)
  BY DEF Pipeline
<1> QED BY <1>1 DEF FirstJob

LEMMA SpinnerStart == ScreenInit => SpinnerInv
<1> SUFFICES ASSUME ScreenInit PROVE SpinnerInv
  OBVIOUS
<1>1. pc \in [Worker -> Step]
  BY DEF ScreenInit, Init, Fresh, Step
<1>2. FirstJob \in [Worker -> Seq(Pipeline)]
  BY FirstJobShape
<1>3. SpinnerHonest
  BY DEF ScreenInit, SpinnerHonest
<1>4. InPost
  BY DEF ScreenInit, InPost
<1> QED BY <1>1, <1>2, <1>3, <1>4 DEF ScreenInit, SpinnerInv, Shape

\* The end of the process: no observer is left.
LEMMA SpinnerDie ==
  ASSUME Die, NoScreen PROVE SpinnerInv'
<1>1. pc' \in [Worker -> Step]
  BY DEF Die, Step
<1>2. queue' \in [Worker -> Seq(Pipeline)]
  BY DEF NoScreen
<1>3. SpinnerHonest'
  BY DEF Die, SpinnerHonest
<1>4. InPost'
  BY DEF NoScreen, FreshScreen, InPost
<1> QED BY <1>1, <1>2, <1>3, <1>4 DEF SpinnerInv, Shape

\* A value that is posted is the last one.
LEMMA PostShape ==
  ASSUME posted \in Seq(BOOLEAN), NEW value \in BOOLEAN,
         posted' = Append(posted, value), loadings' = value,
         Platform = "ios", ~loadingMores'
  PROVE  InPost' /\ posted' # <<>>
<1>1. /\ posted' \in Seq(BOOLEAN) /\ posted' # <<>>
      /\ Len(posted') = Len(posted) + 1
      /\ posted'[Len(posted) + 1] = value
  OBVIOUS
<1> QED BY <1>1 DEF InPost

\* Appending a job keeps the shape of the queues.
LEMMA DeliverShape ==
  ASSUME Shape, NEW kind \in Pipeline, Deliver(kind)
  PROVE  /\ queue' \in [Worker -> Seq(Pipeline)]
         /\ \A k \in Pipeline : IsWaiting(k) => IsWaiting(k)'
         /\ IsWaiting(kind)'
<1> DEFINE u == WorkerOf[kind]
<1>1. u \in Worker /\ \A k \in Pipeline : WorkerOf[k] \in Worker
  BY ScreenAssumption
<1>2. queue' = [queue EXCEPT ![u] = Append(queue[u], kind)]
  BY DEF Deliver
<1> HIDE DEF u
<1>3. queue[u] \in Seq(Pipeline)
  BY <1>1 DEF Shape
<1>4. /\ Append(queue[u], kind) \in Seq(Pipeline)
      /\ Len(Append(queue[u], kind)) = Len(queue[u]) + 1
      /\ Append(queue[u], kind)[Len(queue[u]) + 1] = kind
      /\ \A i \in 1..Len(queue[u]) : Append(queue[u], kind)[i] = queue[u][i]
  BY <1>3
<1>5. queue' \in [Worker -> Seq(Pipeline)]
  BY <1>1, <1>2, <1>4 DEF Shape
<1>6. queue'[u] = Append(queue[u], kind)
  BY <1>1, <1>2 DEF Shape
<1>7. IsWaiting(kind)'
  <2>1. Len(queue[u]) + 1 \in 1..Len(queue'[u])
    BY <1>3, <1>4, <1>6
  <2> QED BY <2>1, <1>4, <1>6 DEF IsWaiting, u
<1>8. ASSUME NEW k \in Pipeline, IsWaiting(k) PROVE IsWaiting(k)'
  <2>1. PICK i \in 1..Len(queue[WorkerOf[k]]) : queue[WorkerOf[k]][i] = k
    BY <1>8 DEF IsWaiting
  <2>2. CASE WorkerOf[k] = u
    <3>1. i \in 1..Len(queue'[u]) /\ queue'[u][i] = k
      BY <1>3, <1>4, <1>6, <2>1, <2>2
    <3> QED BY <3>1, <2>2 DEF IsWaiting
  <2>3. CASE WorkerOf[k] # u
    <3>1. queue'[WorkerOf[k]] = queue[WorkerOf[k]]
      BY <1>1, <1>2, <2>3 DEF Shape
    <3> QED BY <2>1, <3>1 DEF IsWaiting
  <2> QED BY <2>2, <2>3
<1> QED BY <1>5, <1>7, <1>8

\* A value arrives: the last one is that of the flag, which is up only between
\* the begin and the end of a request.
LEMMA SpinnerArrive ==
  ASSUME SpinnerInv, Arrive PROVE SpinnerInv'
<1>1. /\ posted \in Seq(BOOLEAN) /\ posted # <<>>
      /\ posted' = Tail(posted)
      /\ posted[Len(posted)] = loadings
      /\ Platform = "ios" /\ ~loadingMores
      /\ UNCHANGED <<pc, observer, loadings, loadingMores, queue, reloading>>
  BY DEF Arrive, SpinnerInv, InPost, vars
<1>2. /\ posted' \in Seq(BOOLEAN)
      /\ Len(posted') = Len(posted) - 1
      /\ posted' # <<>> => posted'[Len(posted')] = posted[Len(posted)]
  BY <1>1
<1>3. InPost'
  BY <1>1, <1>2 DEF InPost
<1>4. posted' = <<>> => Len(posted) = 1
  <2>1. posted' = <<>> => Len(posted') = 0
    OBVIOUS
  <2>2. Len(posted) \in Nat
    BY <1>1
  <2> QED BY <1>2, <2>1, <2>2
<1>5. posted' = <<>> => refreshing' = loadings
  BY <1>1, <1>4 DEF Arrive
<1>6. SpinnerHonest'
  BY <1>1, <1>5, HonestAlternative, HonestAlternativeNext DEF SpinnerInv
<1> QED BY <1>1, <1>3, <1>6 DEF SpinnerInv, Shape

\* The actions of the main thread.
LEMMA SpinnerMain ==
  ASSUME SpinnerInv,
         \/ AndroidPull \/ IosPull
         \/ AndroidScrollEnd \/ IosScrollEnd
         \/ AndroidDestroy \/ IosDestroy
  PROVE  SpinnerInv'
<1>1. CASE Pull
  <2>1. IsWaiting("refresh")' /\ queue' \in [Worker -> Seq(Pipeline)]
    BY <1>1, DeliverShape DEF Pull, SpinnerInv, Pipeline
  <2>2. UNCHANGED <<pc, observer, loadings, loadingMores, posted, reloading>>
    BY <1>1 DEF Pull, vars
  <2>3. SpinnerHonest'
    BY <2>1, <2>2, HonestAlternative, HonestAlternativeNext DEF SpinnerInv
  <2> QED BY <2>1, <2>2, <2>3 DEF SpinnerInv, Shape, InPost
<1>2. CASE ScrollEnd
  <2>1. /\ IsWaiting("refresh") => IsWaiting("refresh")'
        /\ queue' \in [Worker -> Seq(Pipeline)]
    BY <1>2, DeliverShape DEF ScrollEnd, SpinnerInv, Pipeline
  <2>2. UNCHANGED <<pc, observer, flags, reloading>>
    BY <1>2 DEF ScrollEnd, vars
  <2>3. SpinnerHonest'
    BY <2>1, <2>2, HonestAlternative, HonestAlternativeNext
       DEF SpinnerInv, flags
  <2> QED BY <2>1, <2>2, <2>3 DEF SpinnerInv, Shape, InPost, flags
<1>3. CASE AndroidDestroy
  <2>1. queue' \in [Worker -> Seq(Pipeline)]
    BY <1>3, FirstJobShape DEF AndroidDestroy
  <2>2. ~observer' /\ UNCHANGED <<pc, flags>>
    BY <1>3 DEF AndroidDestroy, Unsubscribe
  <2> QED BY <2>1, <2>2 DEF SpinnerInv, Shape, InPost, SpinnerHonest, flags
<1>4. CASE IosDestroy
  <2>1. queue' \in [Worker -> Seq(Pipeline)]
    BY <1>4, FirstJobShape DEF IosDestroy
  <2>2. ~observer' /\ posted' = <<>> /\ UNCHANGED <<pc, loadings, loadingMores>>
    BY <1>4 DEF IosDestroy, Unsubscribe
  <2> QED BY <2>1, <2>2 DEF SpinnerInv, Shape, InPost, SpinnerHonest
<1> QED BY <1>1, <1>2, <1>3, <1>4
        DEF AndroidPull, IosPull, AndroidScrollEnd, IosScrollEnd

\* A worker that takes up a job other than a refresh leaves the refreshes.
LEMMA TakeShape ==
  ASSUME Shape, NEW w \in Worker, NEW kind \in Pipeline, Take(w, kind)
  PROVE  /\ queue' \in [Worker -> Seq(Pipeline)]
         /\ kind # "refresh" /\ IsWaiting("refresh") => IsWaiting("refresh")'
<1> DEFINE u == WorkerOf["refresh"]
<1>1. u \in Worker
  BY ScreenAssumption DEF Pipeline
<1> HIDE DEF u
<1>2. queue' = [queue EXCEPT ![w] = Tail(queue[w])]
  BY DEF Take
<1>3. queue[w] \in Seq(Pipeline) /\ queue[w] # <<>> /\ queue[w][1] = kind
  BY DEF Shape, Take
<1>4. /\ Tail(queue[w]) \in Seq(Pipeline)
      /\ Len(Tail(queue[w])) = Len(queue[w]) - 1
      /\ \A i \in 1..(Len(queue[w]) - 1) : Tail(queue[w])[i] = queue[w][i + 1]
  BY <1>3
<1>5. queue' \in [Worker -> Seq(Pipeline)] /\ queue'[w] = Tail(queue[w])
  BY <1>2, <1>4 DEF Shape
<1>6. ASSUME kind # "refresh", IsWaiting("refresh") PROVE IsWaiting("refresh")'
  <2>1. PICK i \in 1..Len(queue[u]) : queue[u][i] = "refresh"
    BY <1>6 DEF IsWaiting, u
  <2>2. CASE u = w
    <3>1. i # 1 /\ Len(queue[w]) \in Nat
      BY <1>3, <1>6, <2>1, <2>2
    <3>2. /\ i - 1 \in 1..(Len(queue[w]) - 1)
          /\ Tail(queue[w])[i - 1] = queue[w][i]
      BY <1>4, <2>1, <2>2, <3>1
    <3>3. i - 1 \in 1..Len(queue'[u]) /\ queue'[u][i - 1] = "refresh"
      BY <1>4, <1>5, <2>1, <2>2, <3>2
    <3> QED BY <3>3 DEF IsWaiting, u
  <2>3. CASE u # w
    <3>1. queue'[u] = queue[u]
      BY <1>1, <1>2, <2>3 DEF Shape
    <3> QED BY <2>1, <3>1 DEF IsWaiting, u
  <2> QED BY <2>2, <2>3
<1> QED BY <1>5, <1>6

\* A request that is called makes its worker one whose end is to come.
LEMMA SpinnerCalled ==
  ASSUME SpinnerInv, NEW w \in Worker, pc[w] = "idle", Goto(w, "begin"),
         queue' \in [Worker -> Seq(Pipeline)],
         UNCHANGED <<observer, flags>>
  PROVE  SpinnerInv'
<1>1. pc' \in [Worker -> Step] /\ pc'[w] = "begin"
  BY DEF Goto, SpinnerInv, Shape, Step
<1>2. \A v \in Worker : pc[v] # "idle" => pc'[v] = pc[v]
  BY DEF Goto, SpinnerInv, Shape
<1>3. SpinnerHonest'
  BY <1>1, <1>2, HonestAlternative, HonestAlternativeNext DEF SpinnerInv, flags
<1> QED BY <1>1, <1>3 DEF SpinnerInv, Shape, InPost, flags

\* A step between begin and end: the worker is among the begun before and after,
\* or there is no observer.
LEMMA SpinnerBetween ==
  ASSUME SpinnerInv, NEW w \in Worker, NEW to \in Step, Goto(w, to),
         \/ ~observer
         \/ to \notin {"idle", "begin", "saving"}
         \/ pc[w] = "saving",
         UNCHANGED <<observer, flags, queue, reloading>>
  PROVE  SpinnerInv'
<1>1. pc' \in [Worker -> Step] /\ pc'[w] = to
  BY DEF Goto, SpinnerInv, Shape
<1>2. \A v \in Worker \ {w} : pc'[v] = pc[v]
  BY DEF Goto, SpinnerInv, Shape
<1>3. IsWaiting("refresh")' = IsWaiting("refresh")
  BY DEF IsWaiting
<1>4. SpinnerHonest'
  BY <1>1, <1>2, <1>3, HonestAlternative, HonestAlternativeNext
     DEF SpinnerInv, flags
<1> QED BY <1>1, <1>4 DEF SpinnerInv, Shape, InPost, flags

\* The jobs a worker takes up.
LEMMA SpinnerJobs ==
  ASSUME SpinnerInv, NEW w \in Worker,
         \/ RunInitial(w) \/ RunRefresh(w) \/ Reload(w) \/ NextPage(w)
         \/ IosSkipMore(w)
  PROVE  SpinnerInv'
<1> USE DEF At
<1>1. CASE RunInitial(w)
  <2>1. queue' \in [Worker -> Seq(Pipeline)]
    BY <1>1, TakeShape DEF RunInitial, SpinnerInv, Pipeline
  <2> QED BY <1>1, <2>1, SpinnerCalled DEF RunInitial, Request
<1>2. CASE RunRefresh(w)
  <2>1. queue' \in [Worker -> Seq(Pipeline)]
    BY <1>2, TakeShape DEF RunRefresh, SpinnerInv, Pipeline
  <2>2. /\ reloading' # {}
        /\ UNCHANGED <<pc, observer, flags>>
    BY <1>2 DEF RunRefresh, Reset
  <2>3. SpinnerHonest'
    BY <2>2, HonestAlternative, HonestAlternativeNext DEF SpinnerInv, flags
  <2> QED BY <2>1, <2>2, <2>3 DEF SpinnerInv, Shape, InPost, flags
<1>3. CASE Reload(w)
  BY <1>3, SpinnerCalled DEF Reload, Request, SpinnerInv, Shape
<1>4. CASE NextPage(w)
  <2>1. queue' \in [Worker -> Seq(Pipeline)]
    BY <1>4, TakeShape DEF NextPage, SpinnerInv, Pipeline
  <2> QED BY <1>4, <2>1, SpinnerCalled DEF NextPage, Request
<1>5. CASE IosSkipMore(w)
  <2>1. /\ queue' \in [Worker -> Seq(Pipeline)]
        /\ IsWaiting("refresh") => IsWaiting("refresh")'
    BY <1>5, TakeShape DEF IosSkipMore, SpinnerInv, Pipeline
  <2>2. UNCHANGED <<pc, observer, flags, reloading>>
    BY <1>5 DEF IosSkipMore, vars
  <2>3. SpinnerHonest'
    BY <2>1, <2>2, HonestAlternative, HonestAlternativeNext
       DEF SpinnerInv, flags
  <2> QED BY <2>1, <2>2, <2>3 DEF SpinnerInv, Shape, InPost, flags
<1> QED BY <1>1, <1>2, <1>3, <1>4, <1>5

\* The begin and the end of a request.
LEMMA SpinnerEnds ==
  ASSUME SpinnerInv, NEW w \in Worker,
         AndroidBegin(w) \/ IosBegin(w) \/ AndroidEnd(w) \/ IosEnd(w)
  PROVE  SpinnerInv'
<1>1. queue' = queue
  BY DEF AndroidBegin, IosBegin, AndroidEnd, IosEnd
<1>2. CASE AndroidBegin(w) \/ IosBegin(w)
  <2>1. BeginUpdate(w)
    BY <1>2 DEF AndroidBegin, IosBegin
  <2>2. pc' \in [Worker -> Step] /\ pc'[w] = "reading"
    BY <2>1 DEF BeginUpdate, Goto, SpinnerInv, Shape, Step
  <2>3. SpinnerHonest'
    BY <2>2, HonestAlternativeNext
  <2>4. InPost'
    <3>1. CASE AndroidBegin(w)
      BY <3>1 DEF AndroidBegin, SpinnerInv, InPost
    <3>2. CASE IosBegin(w)
      BY <3>2, PostShape DEF IosBegin, SpinnerInv, InPost
    <3> QED BY <1>2, <3>1, <3>2
  <2> QED BY <1>1, <2>2, <2>3, <2>4 DEF SpinnerInv, Shape
<1>3. CASE AndroidEnd(w) \/ IosEnd(w)
  <2>1. EndUpdate(w)
    BY <1>3 DEF AndroidEnd, IosEnd
  <2>2. pc' \in [Worker -> Step]
    BY <2>1 DEF EndUpdate, Goto, Return, SpinnerInv, Shape, Step
  <2>3. CASE AndroidEnd(w)
    <3>1. SpinnerHonest'
      BY <2>3 DEF AndroidEnd, SpinnerHonest
    <3>2. InPost'
      BY <2>3 DEF AndroidEnd, SpinnerInv, InPost
    <3> QED BY <1>1, <2>2, <3>1, <3>2 DEF SpinnerInv, Shape
  <2>4. CASE IosEnd(w)
    <3>1. InPost' /\ posted' # <<>>
      BY <2>4, PostShape DEF IosEnd, SpinnerInv, InPost
    <3>2. SpinnerHonest'
      BY <2>4, <3>1 DEF IosEnd, SpinnerInv, InPost, SpinnerHonest
    <3> QED BY <1>1, <2>2, <3>1, <3>2 DEF SpinnerInv, Shape
  <2> QED BY <1>3, <2>3, <2>4
<1> QED BY <1>2, <1>3

\* What a worker does.
LEMMA SpinnerWork ==
  ASSUME SpinnerInv, NEW w \in Worker, Work(w) PROVE SpinnerInv'
<1>1. CASE Silent(w)
  <2>1. UNCHANGED <<flags, queue, reloading>>
    BY <1>1 DEF Silent, ui
  <2>2. CASE ReadCache(w) \/ ShowCache(w) \/ ShowAnswer(w) \/ ShowError(w)
    BY <2>1, <2>2, SpinnerBetween
       DEF ReadCache, ShowCache, ShowAnswer, ShowError, Step
  <2>3. CASE SetUrl(w) \/ SetSink(w) \/ Perform(w) \/ Refused(w)
    BY <2>1, <2>3, SpinnerBetween DEF SetUrl, SetSink, Perform, Refused, Step
  <2>4. CASE (\E n \in Sizes : Answer(w, n)) \/ HttpFail(w)
    <3>1. /\ Goto(w, "answered") \/ Goto(w, "failed")
          /\ observer' = observer
      BY <2>4 DEF Answer, HttpFail
    <3> QED BY <2>1, <3>1, SpinnerBetween DEF Step
  <2>5. CASE Save(w)
    BY <2>1, <2>5, SpinnerBetween DEF Save, Return, Step, At
  <2> QED BY <1>1, <2>2, <2>3, <2>4, <2>5 DEF Silent
<1>2. CASE Fill(w)
  <2>1. UNCHANGED <<flags, queue, reloading>>
    BY <1>2 DEF Fill
  <2>2. CASE MergeCache(w)
    BY <2>1, <2>2, SpinnerBetween DEF MergeCache, Step
  <2>3. CASE Succeed(w)
    <3>1. /\ Goto(w, IF observer THEN "telling" ELSE "saving")
          /\ observer' = observer
      BY <2>3 DEF Succeed
    <3> QED BY <2>1, <3>1, SpinnerBetween DEF Step
  <2>4. CASE Fail(w)
    <3>1. /\ Goto(w, "failing") \/ (~observer /\ Goto(w, "idle"))
          /\ observer' = observer
      BY <2>4 DEF Fail, Return
    <3> QED BY <2>1, <3>1, SpinnerBetween DEF Step
  <2> QED BY <1>2, <2>2, <2>3, <2>4 DEF Fill
<1>3. CASE ScreenNullCall(w)
  BY <1>3, SpinnerDie DEF ScreenNullCall, NullCall
<1> QED BY <1>1, <1>2, <1>3, SpinnerJobs, SpinnerEnds
        DEF Work, AndroidMore, IosMore

\* The induction step.
LEMMA SpinnerNext ==
  SpinnerInv /\ [ScreenNext]_screenVars => SpinnerInv'
<1> SUFFICES ASSUME SpinnerInv, [ScreenNext]_screenVars PROVE SpinnerInv'
  OBVIOUS
<1>1. CASE \/ AndroidPull \/ IosPull
           \/ AndroidScrollEnd \/ IosScrollEnd
           \/ AndroidDestroy \/ IosDestroy
  BY <1>1, SpinnerMain
<1>2. ASSUME NEW w \in Worker, Work(w) PROVE SpinnerInv'
  BY <1>2, SpinnerWork
<1>3. CASE ScreenChange \/ UNCHANGED screenVars
  <2>1. UNCHANGED <<pc, observer, flags, queue, reloading>>
    BY <1>3 DEF ScreenChange, Change, ui, screenVars
  <2> QED BY <2>1 DEF SpinnerInv, Shape, InPost, SpinnerHonest, Begun, Unended,
                      RefreshDue, IsWaiting, flags
<1>4. CASE ScreenCrash
  BY <1>4, SpinnerDie DEF ScreenCrash, Crash
<1>5. CASE ScreenLaunch
  <2>1. queue' = FirstJob /\ pc' = pc
    BY <1>5 DEF ScreenLaunch, Launch
  <2>2. SpinnerHonest'
    BY <1>5 DEF ScreenLaunch, FreshScreen, SpinnerHonest
  <2>3. InPost'
    BY <1>5 DEF ScreenLaunch, FreshScreen, InPost
  <2> QED BY <2>1, <2>2, <2>3, FirstJobShape DEF SpinnerInv, Shape
<1> QED BY <1>1, <1>2, <1>3, <1>4, <1>5, SpinnerArrive DEF ScreenNext

\* No indicator of the explore screen says that something is loading when nothing
\* is, for any workers and any deal of the pipelines to them: the flags are up
\* only between the begin and the end of a request, and the control, once the
\* values on their way to the main thread have arrived, only until the end of one
\* or while a refresh is due
\* (ExploreDataController.kt:58-73, ExploreDataController.swift:26-31, 80-90).
THEOREM SpinnerHonestCorrect == ScreenSpec => []SpinnerHonest
<1>1. SpinnerInv => SpinnerHonest
  BY DEF SpinnerInv
<1> QED BY <1>1, SpinnerStart, SpinnerNext, PTL DEF ScreenSpec

-----------------------------------------------------------------------------
(* Type correctness of the screen: the page counter stays in its range     *)
(* because the next pages that wait were counted when they were delivered. *)

\* A worker has only jobs of the pipelines that deliver to it.
Dealt ==
  \A w \in Worker : \A i \in 1..Len(queue[w]) : WorkerOf[queue[w][i]] = w

\* The pages that are still to be requested are pages.
Ahead == currentPage + Waiting("more") <= MaxPage

ScreenInv == Inv /\ ScreenTypeOK /\ Dealt /\ Ahead

\* The places of kind in a queue.
Places(jobs, kind) == {i \in 1..Len(jobs) : jobs[i] = kind}

LEMMA PlacesFinite ==
  ASSUME NEW jobs \in Seq(Pipeline), NEW kind
  PROVE  /\ IsFiniteSet(Places(jobs, kind))
         /\ Cardinality(Places(jobs, kind)) \in Nat
<1>1. IsFiniteSet(1..Len(jobs))
  BY FS_Interval
<1>2. Places(jobs, kind) \in SUBSET (1..Len(jobs))
  BY DEF Places
<1>3. IsFiniteSet(Places(jobs, kind))
  BY <1>1, <1>2, FS_Subset
<1> QED BY <1>3, FS_CardinalityType

\* A job that is appended adds one place to those of its kind.
LEMMA PlacesAppend ==
  ASSUME NEW jobs \in Seq(Pipeline), NEW kind, NEW job \in Pipeline
  PROVE  Cardinality(Places(Append(jobs, job), kind))
           = Cardinality(Places(jobs, kind)) + (IF job = kind THEN 1 ELSE 0)
<1> DEFINE next == Len(jobs) + 1
<1>1. /\ Append(jobs, job) \in Seq(Pipeline)
      /\ Len(Append(jobs, job)) = next
      /\ Append(jobs, job)[next] = job
      /\ \A i \in 1..Len(jobs) : Append(jobs, job)[i] = jobs[i]
      /\ next \notin 1..Len(jobs)
      /\ 1..next = (1..Len(jobs)) \cup {next}
  OBVIOUS
<1> HIDE DEF next
<1>2. CASE job = kind
  <2>1. Places(Append(jobs, job), kind) = Places(jobs, kind) \cup {next}
    BY <1>1, <1>2 DEF Places
  <2>2. next \notin Places(jobs, kind)
    BY <1>1 DEF Places
  <2> QED BY <1>2, <2>1, <2>2, PlacesFinite, FS_AddElement
<1>3. CASE job # kind
  <2>1. Places(Append(jobs, job), kind) = Places(jobs, kind)
    BY <1>1, <1>3 DEF Places
  <2> QED BY <1>3, <2>1, PlacesFinite
<1> QED BY <1>2, <1>3

\* Taking the first job leaves no more places than there were without it.
LEMMA PlacesTail ==
  ASSUME NEW jobs \in Seq(Pipeline), jobs # <<>>, NEW kind
  PROVE  Cardinality(Places(Tail(jobs), kind))
           <= Cardinality(Places(jobs, kind))
                - (IF Head(jobs) = kind THEN 1 ELSE 0)
<1> DEFINE S == Places(Tail(jobs), kind)
           T == Places(jobs, kind) \ {1}
           shift == [i \in S |-> i + 1]
<1>1. /\ Tail(jobs) \in Seq(Pipeline)
      /\ Len(Tail(jobs)) = Len(jobs) - 1
      /\ \A i \in 1..(Len(jobs) - 1) : Tail(jobs)[i] = jobs[i + 1]
      /\ 1 \in 1..Len(jobs) /\ Head(jobs) = jobs[1]
  OBVIOUS
<1>2. ASSUME NEW i \in S PROVE i + 1 \in T /\ i \in Int
  <2>1. i \in 1..(Len(jobs) - 1) /\ Tail(jobs)[i] = kind
    BY <1>1 DEF Places
  <2>2. i + 1 \in 1..Len(jobs) /\ i + 1 # 1 /\ jobs[i + 1] = kind
    BY <1>1, <2>1
  <2> QED BY <2>1, <2>2 DEF Places
<1>3. shift \in [S -> T]
  BY <1>2
<1>4. shift \in Injection(S, T)
  BY <1>2, <1>3 DEF Injection, IsInjective
<1>5. /\ IsFiniteSet(T)
      /\ Cardinality(T) = IF 1 \in Places(jobs, kind)
                            THEN Cardinality(Places(jobs, kind)) - 1
                            ELSE Cardinality(Places(jobs, kind))
  BY PlacesFinite, FS_RemoveElement
<1>6. Cardinality(S) <= Cardinality(T)
  BY <1>4, <1>5, FS_Injection
<1>7. 1 \in Places(jobs, kind) <=> Head(jobs) = kind
  BY <1>1 DEF Places
<1>8. Cardinality(Places(jobs, kind)) \in Int
  BY PlacesFinite
<1> QED BY <1>5, <1>6, <1>7, <1>8

LEMMA WaitingPlaces ==
  /\ Waiting("more") = Cardinality(Places(queue[WorkerOf["more"]], "more"))
  /\ Waiting("more")' = Cardinality(Places(queue'[WorkerOf["more"]], "more"))
BY DEF Waiting, Places

\* What the queue of a worker holds after a job was appended to it.
LEMMA DeliverQueue ==
  ASSUME ScreenInv, NEW kind \in Pipeline, Deliver(kind)
  PROVE  /\ queue' \in [Worker -> Seq(Pipeline)]
         /\ queue' = [queue EXCEPT ![WorkerOf[kind]]
                        = Append(queue[WorkerOf[kind]], kind)]
         /\ WorkerOf[kind] \in Worker
         /\ Dealt'
         /\ Waiting("more") \in Nat
         /\ Waiting("more")'
              = Waiting("more") + (IF kind = "more" THEN 1 ELSE 0)
<1> DEFINE u == WorkerOf[kind]
           m == WorkerOf["more"]
<1>1. u \in Worker /\ m \in Worker
  BY ScreenAssumption DEF Pipeline
<1>2. queue \in [Worker -> Seq(Pipeline)] /\ Dealt
  BY DEF ScreenInv, ScreenTypeOK
<1>3. queue' = [queue EXCEPT ![u] = Append(queue[u], kind)]
  BY DEF Deliver
<1>4. queue' \in [Worker -> Seq(Pipeline)]
  BY <1>1, <1>2, <1>3
<1>5. Dealt'
  <2> SUFFICES ASSUME NEW w \in Worker, NEW i \in 1..Len(queue'[w])
               PROVE  WorkerOf[queue'[w][i]] = w
    BY DEF Dealt
  <2>1. CASE w # u
    BY <1>1, <1>2, <1>3, <2>1 DEF Dealt
  <2>2. CASE w = u
    <3>1. queue'[w] = Append(queue[w], kind) /\ queue[w] \in Seq(Pipeline)
      BY <1>1, <1>2, <1>3, <2>2
    <3>2. \/ i \in 1..Len(queue[w]) /\ queue'[w][i] = queue[w][i]
          \/ queue'[w][i] = kind
      BY <3>1
    <3> QED BY <1>2, <2>2, <3>2 DEF Dealt
  <2> QED BY <2>1, <2>2
<1>6. /\ Cardinality(Places(queue[m], "more")) \in Nat
      /\ Cardinality(Places(queue'[m], "more"))
           = Cardinality(Places(queue[m], "more"))
               + (IF kind = "more" THEN 1 ELSE 0)
  <2>1. queue[m] \in Seq(Pipeline)
    BY <1>1, <1>2
  <2>2. Cardinality(Places(queue[m], "more")) \in Nat
    BY <2>1, PlacesFinite
  <2>3. CASE m = u
    <3>1. queue'[m] = Append(queue[m], kind)
      BY <1>1, <1>2, <1>3, <2>3
    <3> QED BY <2>1, <2>2, <3>1, PlacesAppend
  <2>4. CASE m # u
    <3>1. queue'[m] = queue[m] /\ kind # "more"
      BY <1>1, <1>2, <1>3, <2>4
    <3> QED BY <2>2, <3>1
  <2> QED BY <2>3, <2>4
<1> QED BY <1>1, <1>3, <1>4, <1>5, <1>6, WaitingPlaces

\* What the queue of a worker holds after its first job was taken.
LEMMA TakeQueue ==
  ASSUME ScreenInv, NEW w \in Worker, NEW kind \in Pipeline, Take(w, kind)
  PROVE  /\ queue' \in [Worker -> Seq(Pipeline)]
         /\ Dealt'
         /\ Waiting("more") \in Nat
         /\ Waiting("more")' \in Nat
         /\ Waiting("more")'
              <= Waiting("more") - (IF kind = "more" THEN 1 ELSE 0)
<1> DEFINE m == WorkerOf["more"]
<1>1. m \in Worker
  BY ScreenAssumption DEF Pipeline
<1>2. queue \in [Worker -> Seq(Pipeline)] /\ Dealt
  BY DEF ScreenInv, ScreenTypeOK
<1>3. /\ queue[w] \in Seq(Pipeline) /\ queue[w] # <<>>
      /\ Head(queue[w]) = kind
      /\ queue' = [queue EXCEPT ![w] = Tail(queue[w])]
  BY <1>2 DEF Take
<1>4. /\ Tail(queue[w]) \in Seq(Pipeline)
      /\ Len(Tail(queue[w])) = Len(queue[w]) - 1
      /\ \A i \in 1..(Len(queue[w]) - 1) : Tail(queue[w])[i] = queue[w][i + 1]
      /\ 1 \in 1..Len(queue[w]) /\ queue[w][1] = kind
  BY <1>3
<1>5. queue' \in [Worker -> Seq(Pipeline)] /\ queue'[w] = Tail(queue[w])
  BY <1>2, <1>3, <1>4
<1>6. Dealt'
  <2> SUFFICES ASSUME NEW v \in Worker, NEW i \in 1..Len(queue'[v])
               PROVE  WorkerOf[queue'[v][i]] = v
    BY DEF Dealt
  <2>1. CASE v # w
    BY <1>2, <1>3, <2>1 DEF Dealt
  <2>2. CASE v = w
    <3>1. /\ i \in 1..(Len(queue[w]) - 1) /\ i + 1 \in 1..Len(queue[w])
          /\ queue'[v][i] = queue[w][i + 1]
      BY <1>3, <1>4, <1>5, <2>2
    <3> QED BY <1>2, <2>2, <3>1 DEF Dealt
  <2> QED BY <2>1, <2>2
<1>7. /\ Cardinality(Places(queue[m], "more")) \in Nat
      /\ Cardinality(Places(queue'[m], "more")) \in Nat
      /\ Cardinality(Places(queue'[m], "more"))
           <= Cardinality(Places(queue[m], "more"))
                - (IF kind = "more" THEN 1 ELSE 0)
  <2>1. queue[m] \in Seq(Pipeline) /\ queue'[m] \in Seq(Pipeline)
    BY <1>1, <1>2, <1>5
  <2>2. /\ Cardinality(Places(queue[m], "more")) \in Nat
        /\ Cardinality(Places(queue'[m], "more")) \in Nat
    BY <2>1, PlacesFinite
  <2>3. CASE m = w
    BY <1>3, <1>5, <2>2, <2>3, PlacesTail
  <2>4. CASE m # w
    <3>1. queue'[m] = queue[m]
      BY <1>1, <1>2, <1>3, <2>4
    <3>2. kind # "more"
      BY <1>2, <1>4, <2>4 DEF Dealt
    <3> QED BY <2>2, <3>1, <3>2
  <2> QED BY <2>3, <2>4
<1> QED BY <1>5, <1>6, <1>7, WaitingPlaces

\* The jobs of a screen that was set up or left.
LEMMA FreshJobs ==
  ASSUME NEW jobs, jobs = FirstJob \/ jobs = [w \in Worker |-> <<>>]
  PROVE  /\ jobs \in [Worker -> Seq(Pipeline)]
         /\ \A w \in Worker : \A i \in 1..Len(jobs[w]) : WorkerOf[jobs[w][i]] = w
         /\ Cardinality(Places(jobs[WorkerOf["more"]], "more")) = 0
<1> DEFINE m == WorkerOf["more"]
<1>1. m \in Worker
  BY ScreenAssumption DEF Pipeline
<1>2. ASSUME NEW w \in Worker
      PROVE  \/ jobs[w] = <<>>
             \/ w = WorkerOf["initial"] /\ jobs[w] = <<"initial">>
  <2>1. CASE jobs = FirstJob
    <3>1. jobs[w] = IF w = WorkerOf["initial"] THEN <<"initial">> ELSE <<>>
      BY <2>1 DEF FirstJob
    <3> QED BY <3>1
  <2>2. CASE jobs = [v \in Worker |-> <<>>]
    BY <2>2
  <2> QED BY <2>1, <2>2
<1>3. ASSUME NEW w \in Worker, NEW i \in 1..Len(jobs[w])
      PROVE  WorkerOf[jobs[w][i]] = w
  <2>1. CASE jobs[w] = <<>>
    BY <2>1
  <2>2. CASE w = WorkerOf["initial"] /\ jobs[w] = <<"initial">>
    <3>1. i = 1 /\ jobs[w][i] = "initial"
      BY <2>2
    <3> QED BY <2>2, <3>1
  <2> QED BY <1>2, <2>1, <2>2
<1>4. Places(jobs[m], "more") = {}
  BY <1>1, <1>2 DEF Places
<1> QED BY <1>3, <1>4, FirstJobShape, FS_EmptySet

LEMMA FreshQueue ==
  ASSUME queue' = FirstJob \/ queue' = [w \in Worker |-> <<>>]
  PROVE  /\ queue' \in [Worker -> Seq(Pipeline)]
         /\ Dealt'
         /\ Waiting("more")' = 0
BY FreshJobs, WaitingPlaces DEF Dealt

-----------------------------------------------------------------------------
(* The screen drives the controller.                                       *)

\* The steps of the controller, without the bound on its list.
CoreNext ==
  \/ \E w \in Worker :
       \/ \E p \in Page : Request(w, p)
       \/ Reset(w)
       \/ Continue(w)
  \/ Unsubscribe
  \/ Change
  \/ Crash
  \/ Launch

\* The page that is requested next is a page.
LEMMA NextPageInRange ==
  ASSUME ScreenInv, NEW w \in Worker, NextPage(w)
  PROVE  currentPage + 1 \in Page
<1>1. /\ currentPage \in Page
      /\ currentPage + Waiting("more") <= MaxPage
  BY DEF ScreenInv, ScreenTypeOK, Ahead
<1>2. Waiting("more") \in Nat /\ Waiting("more") - 1 >= 0
  BY TakeQueue DEF NextPage, Pipeline
<1> QED BY <1>1, <1>2, PagedListAssumption DEF Page

LEMMA CoreStep ==
  ScreenInv /\ [ScreenNext]_screenVars => [CoreNext]_vars
<1> SUFFICES ASSUME ScreenInv, [ScreenNext]_screenVars PROVE [CoreNext]_vars
  OBVIOUS
<1>1. CASE Pull \/ ScrollEnd \/ Arrive
  BY <1>1 DEF Pull, ScrollEnd, Arrive
<1>2. CASE AndroidDestroy \/ IosDestroy
  BY <1>2 DEF AndroidDestroy, IosDestroy, CoreNext
<1>3. 1 \in Page
  BY PagedListAssumption DEF Page
<1>4. ASSUME NEW w \in Worker, RunInitial(w) \/ Reload(w)
      PROVE  CoreNext
  BY <1>3, <1>4 DEF RunInitial, Reload, CoreNext
<1>5. ASSUME NEW w \in Worker, RunRefresh(w)
      PROVE  CoreNext
  BY <1>5 DEF RunRefresh, CoreNext
<1>6. ASSUME NEW w \in Worker, NextPage(w)
      PROVE  CoreNext
  <2>1. Request(w, currentPage + 1) /\ currentPage + 1 \in Page
    BY <1>6, NextPageInRange DEF NextPage
  <2> QED BY <2>1 DEF CoreNext
<1>7. ASSUME NEW w \in Worker, Work(w) PROVE [CoreNext]_vars
  <2>1. CASE RunInitial(w) \/ RunRefresh(w) \/ Reload(w)
    BY <1>4, <1>5, <2>1
  <2>2. CASE AndroidMore(w) \/ IosMore(w)
    BY <1>6, <2>2 DEF AndroidMore, IosMore
  <2>3. CASE IosSkipMore(w)
    BY <2>3 DEF IosSkipMore
  <2>4. CASE \/ AndroidBegin(w) \/ IosBegin(w) \/ AndroidEnd(w) \/ IosEnd(w)
             \/ Silent(w) \/ Fill(w) \/ ScreenNullCall(w)
    <3>1. Continue(w)
      BY <2>4 DEF AndroidBegin, IosBegin, AndroidEnd, IosEnd, Silent, Fill,
                  ScreenNullCall, Continue
    <3> QED BY <3>1 DEF CoreNext
  <2> QED BY <1>7, <2>1, <2>2, <2>3, <2>4 DEF Work
<1>8. CASE ScreenChange \/ ScreenCrash \/ ScreenLaunch
  BY <1>8 DEF ScreenChange, ScreenCrash, ScreenLaunch, CoreNext
<1>9. CASE UNCHANGED screenVars
  BY <1>9 DEF screenVars, vars
<1> QED BY <1>1, <1>2, <1>7, <1>8, <1>9
        DEF ScreenNext, AndroidPull, IosPull, AndroidScrollEnd, IosScrollEnd

LEMMA CoreInv == Inv /\ [CoreNext]_vars => Inv'
BY RequestInv, ResetInv, ContinueInv, UnsubscribeInv, ChangeInv, DieInv, LaunchInv
   DEF CoreNext, Crash, vars, Inv, TypeOK, InFlight

LEMMA ScreenStart == ScreenInit => ScreenInv
<1> SUFFICES ASSUME ScreenInit PROVE ScreenInv
  OBVIOUS
<1>1. Inv
  BY InitInv DEF ScreenInit
<1>2. queue \in [Worker -> Seq(Pipeline)] /\ Dealt /\ Waiting("more") = 0
  BY FreshJobs, WaitingPlaces DEF ScreenInit, Dealt
<1>3. 1 \in Page /\ 1 <= MaxPage
  BY PagedListAssumption DEF Page
<1>4. Ahead
  BY <1>2, <1>3 DEF ScreenInit, Ahead
<1>5. ScreenTypeOK
  <2>1. <<>> \in Seq(BOOLEAN)
    OBVIOUS
  <2> QED BY <1>1, <1>2, <1>3, <2>1 DEF ScreenInit, ScreenTypeOK, Inv
<1> QED BY <1>1, <1>2, <1>4, <1>5 DEF ScreenInv

\* What a step of the screen does to the page counter and the queues.
LEMMA ScreenQueues ==
  ASSUME ScreenInv, ScreenNext
  PROVE  /\ currentPage' \in Page
         /\ queue' \in [Worker -> Seq(Pipeline)]
         /\ Dealt'
         /\ Ahead'
<1>1. /\ currentPage \in Page
      /\ queue \in [Worker -> Seq(Pipeline)]
      /\ Dealt
      /\ currentPage + Waiting("more") <= MaxPage
  BY DEF ScreenInv, ScreenTypeOK, Ahead
<1>2. MaxPage \in Int /\ Page = 1..MaxPage /\ 1 \in Page
  BY PagedListAssumption DEF Page
<1>3. CASE UNCHANGED <<currentPage, queue>>
  BY <1>1, <1>3 DEF Dealt, Ahead, Waiting
<1>4. ASSUME currentPage' \in {1, currentPage},
             queue' = FirstJob \/ queue' = [w \in Worker |-> <<>>]
      PROVE  /\ currentPage' \in Page
             /\ queue' \in [Worker -> Seq(Pipeline)]
             /\ Dealt'
             /\ Ahead'
  BY <1>1, <1>2, <1>4, FreshQueue DEF Ahead
<1>5. CASE Pull
  <2>1. currentPage' = currentPage /\ Deliver("refresh")
    BY <1>5 DEF Pull
  <2> QED BY <1>1, <2>1, DeliverQueue DEF Pipeline, Ahead
<1>6. CASE ScrollEnd
  <2>1. /\ currentPage' = currentPage
        /\ Deliver("more")
        /\ currentPage + Waiting("more") < MaxPage
    BY <1>6 DEF ScrollEnd
  <2> QED BY <1>1, <1>2, <2>1, DeliverQueue DEF Pipeline, Ahead
<1>7. CASE AndroidDestroy \/ IosDestroy
  BY <1>4, <1>7 DEF AndroidDestroy, IosDestroy
<1>8. ASSUME NEW w \in Worker, RunInitial(w) \/ RunRefresh(w)
      PROVE  /\ currentPage' \in Page
             /\ queue' \in [Worker -> Seq(Pipeline)]
             /\ Dealt'
             /\ Ahead'
  <2>1. /\ currentPage' = 1
        /\ \E kind \in {"initial", "refresh"} : Take(w, kind)
    BY <1>8 DEF RunInitial, RunRefresh
  <2>2. PICK kind \in Pipeline : kind # "more" /\ Take(w, kind)
    BY <2>1 DEF Pipeline
  <2> QED BY <1>1, <1>2, <2>1, <2>2, TakeQueue DEF Ahead
<1>9. ASSUME NEW w \in Worker, NextPage(w)
      PROVE  /\ currentPage' \in Page
             /\ queue' \in [Worker -> Seq(Pipeline)]
             /\ Dealt'
             /\ Ahead'
  <2>1. currentPage' = currentPage + 1 /\ Take(w, "more")
    BY <1>9 DEF NextPage
  <2>2. "more" \in Pipeline
    BY DEF Pipeline
  <2> QED BY <1>1, <1>2, <1>9, <2>1, <2>2, TakeQueue, NextPageInRange DEF Ahead
<1>10. ASSUME NEW w \in Worker, IosSkipMore(w)
       PROVE  /\ currentPage' \in Page
              /\ queue' \in [Worker -> Seq(Pipeline)]
              /\ Dealt'
              /\ Ahead'
  <2>1. currentPage' = currentPage /\ Take(w, "more")
    BY <1>10 DEF IosSkipMore
  <2>2. "more" \in Pipeline
    BY DEF Pipeline
  <2> QED BY <1>1, <1>2, <2>1, <2>2, TakeQueue DEF Ahead
<1>11. ASSUME NEW w \in Worker,
              \/ AndroidBegin(w) \/ IosBegin(w) \/ AndroidEnd(w) \/ IosEnd(w)
              \/ Silent(w) \/ Fill(w)
       PROVE  UNCHANGED <<currentPage, queue>>
  BY <1>11 DEF AndroidBegin, IosBegin, AndroidEnd, IosEnd, Silent, Fill, ui
<1>15. ASSUME NEW w \in Worker, Reload(w)
       PROVE  /\ currentPage' \in Page
              /\ queue' \in [Worker -> Seq(Pipeline)]
              /\ Dealt'
              /\ Ahead'
  <2>1. currentPage' = 1 /\ queue' = queue
    BY <1>15 DEF Reload
  <2>2. Waiting("more")' = Waiting("more") /\ Waiting("more") \in Nat
    BY <1>1, <2>1, WaitingPlaces, PlacesFinite, ScreenAssumption DEF Pipeline
  <2>3. 1 <= currentPage
    BY <1>1, <1>2
  <2> QED BY <1>1, <1>2, <2>1, <2>2, <2>3 DEF Dealt, Ahead
<1>12. ASSUME NEW w \in Worker, Work(w)
       PROVE  /\ currentPage' \in Page
              /\ queue' \in [Worker -> Seq(Pipeline)]
              /\ Dealt'
              /\ Ahead'
  BY <1>3, <1>4, <1>8, <1>9, <1>10, <1>11, <1>12, <1>15
     DEF Work, AndroidMore, IosMore, ScreenNullCall, NoScreen, FreshScreen
<1>13. CASE ScreenCrash \/ ScreenLaunch
  BY <1>4, <1>13 DEF ScreenCrash, ScreenLaunch, NoScreen, FreshScreen
<1>14. CASE ScreenChange \/ Arrive
  BY <1>3, <1>14 DEF ScreenChange, Arrive, ui
<1> QED BY <1>5, <1>6, <1>7, <1>12, <1>13, <1>14
        DEF ScreenNext, AndroidPull, IosPull, AndroidScrollEnd, IosScrollEnd

\* The flags stay flags, and what is posted values of one.
FlagsTyped ==
  /\ loadings \in BOOLEAN
  /\ loadingMores \in BOOLEAN
  /\ refreshing \in BOOLEAN
  /\ posted \in Seq(BOOLEAN)
  /\ seen \in BOOLEAN
  /\ reloading \subseteq Worker
  /\ gap \in BOOLEAN

LEMMA FreshFlags == ASSUME FreshScreen PROVE FlagsTyped'
<1>1. <<>> \in Seq(BOOLEAN)
  OBVIOUS
<1> QED BY <1>1 DEF FreshScreen, FlagsTyped

LEMMA ScreenFlags ==
  ASSUME ScreenInv, ScreenNext PROVE FlagsTyped'
<1>1. FlagsTyped
  BY DEF ScreenInv, ScreenTypeOK, FlagsTyped
<1> USE <1>1 DEF FlagsTyped
<1>2. ASSUME NEW w \in Worker, Work(w) PROVE FlagsTyped'
  <2>1. CASE RunInitial(w) \/ RunRefresh(w) \/ Reload(w)
    BY <2>1 DEF RunInitial, RunRefresh, Reload, flags
  <2>2. CASE AndroidMore(w) \/ IosMore(w) \/ IosSkipMore(w)
    BY <2>2 DEF AndroidMore, IosMore, IosSkipMore, NextPage, flags
  <2>3. CASE AndroidBegin(w) \/ AndroidEnd(w)
    BY <2>3 DEF AndroidBegin, AndroidEnd
  <2>4. CASE IosBegin(w) \/ IosEnd(w)
    <3>1. /\ Append(posted, TRUE) \in Seq(BOOLEAN)
          /\ Append(posted, FALSE) \in Seq(BOOLEAN)
      OBVIOUS
    <3> QED BY <2>4, <3>1 DEF IosBegin, IosEnd
  <2>5. CASE Silent(w)
    BY <2>5 DEF Silent, ui, flags
  <2>6. CASE ScreenNullCall(w)
    BY <2>6, FreshFlags DEF ScreenNullCall, NoScreen
  <2>7. CASE Fill(w)
    <3>1. /\ UNCHANGED <<flags, reloading>>
          /\ \/ gap' = (gap \/ Partial(body[w].size))
             \/ gap' = (gap \/ body[w].size # ItemPerPage)
             \/ gap' = (gap \/ Len(items) < page[w] * ItemPerPage)
      BY <2>7 DEF Fill
    <3>2. gap' \in BOOLEAN
      BY <3>1
    <3> QED BY <3>1, <3>2 DEF flags
  <2> QED BY <1>2, <2>1, <2>2, <2>3, <2>4, <2>5, <2>6, <2>7 DEF Work
<1>3. CASE Pull \/ ScrollEnd \/ AndroidDestroy
  BY <1>3 DEF Pull, ScrollEnd, AndroidDestroy, flags
<1>4. CASE IosDestroy
  BY <1>4 DEF IosDestroy
<1>5. CASE Arrive
  <2>1. posted # <<>>
    BY <1>5 DEF Arrive
  <2>2. Head(posted) \in BOOLEAN /\ Tail(posted) \in Seq(BOOLEAN)
    BY <2>1
  <2> QED BY <1>5, <2>2 DEF Arrive
<1>6. CASE ScreenChange
  BY <1>6 DEF ScreenChange, ui, flags
<1>7. CASE ScreenCrash \/ ScreenLaunch
  BY <1>7, FreshFlags DEF ScreenCrash, ScreenLaunch, NoScreen
<1> QED BY <1>2, <1>3, <1>4, <1>5, <1>6, <1>7
        DEF ScreenNext, AndroidPull, IosPull, AndroidScrollEnd, IosScrollEnd

LEMMA ScreenInvNext == ScreenInv /\ [ScreenNext]_screenVars => ScreenInv'
<1> SUFFICES ASSUME ScreenInv, [ScreenNext]_screenVars PROVE ScreenInv'
  OBVIOUS
<1>1. Inv'
  BY CoreStep, CoreInv DEF ScreenInv
<1>2. CASE ScreenNext
  BY <1>1, <1>2, ScreenQueues, ScreenFlags
     DEF ScreenInv, ScreenTypeOK, FlagsTyped, Inv
<1>3. CASE UNCHANGED screenVars
  BY <1>1, <1>3 DEF screenVars, ui, flags, ScreenInv, ScreenTypeOK, Inv, Dealt,
                    Ahead, Waiting
<1> QED BY <1>2, <1>3

THEOREM ScreenInvCorrect == ScreenSpec => []ScreenInv
BY ScreenStart, ScreenInvNext, PTL DEF ScreenSpec

\* The screen is type correct for any workers and any deal of the pipelines to
\* them: in particular no page beyond the last is requested, although the next
\* pages are counted only when a worker comes to them
\* (ExploreDataController.kt:37-51, ExploreDataController.swift:50-68).
THEOREM ScreenTypeCorrect == ScreenSpec => []ScreenTypeOK
<1>1. ScreenInv => ScreenTypeOK
  BY DEF ScreenInv
<1> QED BY <1>1, ScreenInvCorrect, PTL

-----------------------------------------------------------------------------
(* What the controller promises holds on the screen.                       *)

LEMMA CoreContractInv == Inv /\ ContractInv /\ [CoreNext]_vars => ContractInv'
<1> SUFFICES ASSUME Inv, ContractInv, [CoreNext]_vars PROVE ContractInv'
  OBVIOUS
<1>1. pc \in [Worker -> Step]
  BY DEF Inv, TypeOK
<1>2. ASSUME NEW w \in Worker, NEW p \in Page, Request(w, p) PROVE ContractInv'
  BY <1>1, <1>2 DEF Request, ContractInv, Heard, At, Goto
<1>9. ASSUME NEW w \in Worker, Reset(w) PROVE ContractInv'
  BY <1>9 DEF Reset, ContractInv, Heard
<1>3. ASSUME NEW w \in Worker, Continue(w) PROVE ContractInv'
  BY <1>3, ContractInvContinue
<1>4. CASE Crash
  BY <1>4, ContractInvDie DEF Crash
<1>5. CASE Unsubscribe
  BY <1>5 DEF Unsubscribe, ContractInv
<1>6. CASE Change
  BY <1>6 DEF Change, ContractInv, Heard
<1>7. CASE Launch
  BY <1>7 DEF Launch, ContractInv, Heard
<1>8. CASE UNCHANGED vars
  BY <1>8 DEF vars, ContractInv, Heard
<1> QED BY <1>2, <1>3, <1>4, <1>5, <1>6, <1>7, <1>8, <1>9 DEF CoreNext

LEMMA CoreContractStep ==
  Inv /\ ContractInv /\ Inv' /\ [CoreNext]_vars
    => [Contract!ContractNext]_(Contract!contractVars)
<1> SUFFICES ASSUME Inv, ContractInv, Inv', [CoreNext]_vars
             PROVE  [Contract!ContractNext]_(Contract!contractVars)
  OBVIOUS
<1>1. ASSUME NEW w \in Worker, NEW p \in Page, Request(w, p) \/ Reset(w)
      PROVE  UNCHANGED Contract!contractVars
  BY <1>1 DEF Request, Reset, Contract!contractVars
<1>4. 1 \in Page
  BY PagedListAssumption DEF Page
<1>2. ASSUME NEW w \in Worker, Continue(w)
      PROVE  [Contract!ContractNext]_(Contract!contractVars)
  BY <1>2, ContractContinue
<1>3. CASE Unsubscribe \/ Change \/ Crash \/ Launch \/ UNCHANGED vars
  BY <1>3, ContractStep DEF Next
<1> QED BY <1>1, <1>2, <1>3, <1>4 DEF CoreNext

\* The observer of the explore screen hears begin, at least one update, and then
\* end of each request, whatever the pipelines ask for and in whatever order the
\* workers come to it (ExploreDataController.kt:57-74,
\* ExploreDataController.swift:80-94).
THEOREM ExploreContractKept == ScreenSpec => KeepsContract
<1>1. ScreenInv => Inv
  BY DEF ScreenInv
<1>2. ScreenSpec => [][CoreNext]_vars
  BY CoreStep, ScreenInvCorrect, PTL DEF ScreenSpec
<1>3. ScreenInit => ContractInv /\ Contract!ContractInit
  BY ContractInvInit, ContractStart DEF ScreenInit
<1>4. ScreenSpec => []ContractInv
  BY <1>1, <1>2, <1>3, CoreContractInv, ScreenInvCorrect, PTL DEF ScreenSpec
<1> QED
  BY <1>1, <1>2, <1>3, <1>4, CoreContractStep, ScreenInvCorrect, PTL
  DEF ScreenSpec, KeepsContract, Contract!ContractSpec

\* Scrolling on, or pulling down to refresh, leaves the pages before the one that
\* is loaded as they are, for any workers, as long as no page number has two
\* digits (ExploreFragment.kt:80-94, ExploreViewController.swift:25-36, 78-88).
THEOREM ScreenEarlierPagesKept ==
  ASSUME MaxPage < Radix PROVE ScreenSpec => EarlierPagesKept
<1>1. ScreenInv =>
        [\A w \in Worker : MergeCache(w) \/ Succeed(w) => EarlierKept(w)]_vars
  BY EarlierKeptStep DEF ScreenInv
<1> QED BY <1>1, ScreenInvCorrect, PTL DEF EarlierPagesKept

\* One worker: SerialInv is kept by what the screen does with the controller.
LEMMA CoreSerial ==
  ASSUME Serial PROVE Inv /\ SerialInv /\ [CoreNext]_vars => SerialInv'
<1> SUFFICES ASSUME Inv, SerialInv, [CoreNext]_vars PROVE SerialInv'
  OBVIOUS
<1>1. ASSUME NEW w \in Worker, NEW p \in Page, Request(w, p) PROVE SerialInv'
  BY <1>1, SerialCalled DEF Request
<1>5. ASSUME NEW w \in Worker, Reset(w) PROVE SerialInv'
  BY <1>5, SerialReset
<1>2. ASSUME NEW w \in Worker, Continue(w) PROVE SerialInv'
  BY <1>2, SerialContinue
<1>3. CASE Crash
  BY <1>3, SerialDie DEF Crash
<1>4. CASE UNCHANGED vars
  BY <1>4, SerialStutter DEF vars
<1> QED BY <1>1, <1>2, <1>3, <1>4, <1>5, SerialUnsubscribe, SerialChange,
           SerialLaunch
        DEF CoreNext

LEMMA ScreenSerial == ASSUME Serial PROVE ScreenSpec => []SerialInv
<1>1. ScreenInit => SerialInv
  BY SerialStart DEF ScreenInit
<1>2. ScreenInv => Inv
  BY DEF ScreenInv
<1> QED
  BY <1>1, <1>2, CoreSerial, CoreStep, ScreenInvCorrect, PTL DEF ScreenSpec

-----------------------------------------------------------------------------
(* One worker, pages with one digit: the list is the pages in order.       *)

\* Each photo of the list is in the slot of its page.
Placed(list) ==
  \A i \in 1..Len(list) : Off(list[i].page) + list[i].idx = i

\* The list goes up to the page before the current one; to the current one.
Open == Len(items) = Off(currentPage)
Full == Len(items) = currentPage * ItemPerPage

\* The steps of a request before, between and after its merges.
Before == {"begin", "reading", "merging"}
Between == {"cached", "url", "sink", "perform", "transfer", "answered", "failed"}
After == {"telling", "failing", "ending", "aborting", "saving"}

\* How far the list goes at each step of a request.  Between two requests it is
\* full, unless it was not asked for anything yet and the initial request waits
\* or was dropped with the screen, or it was emptied by a refresh whose request
\* is next.
Filled(w) ==
  /\ pc[w] \in Before => Open
  /\ pc[w] \in Between => Open \/ Full
  /\ pc[w] \in After => Full
  /\ pc[w] = "idle" =>
       \/ Full
       \/ /\ items = <<>>
          /\ \/ queue[w] # <<>> /\ Head(queue[w]) = "initial"
             \/ w \in reloading
             \/ ~observer /\ queue[w] = <<>>
             \/ ~alive

NoFirst(jobs) == \A i \in 1..Len(jobs) : jobs[i] # "initial"

\* The initial request waits only in front of the others, and before the list
\* was asked for anything.
FirstOnly(w) ==
  \A i \in 1..Len(queue[w]) :
    queue[w][i] = "initial" => i = 1 /\ items = <<>> /\ pc[w] = "idle"

Order(w) ==
  /\ ~alive => items = <<>> /\ pc[w] = "idle"
  /\ pc[w] # "idle" => page[w] = currentPage
  /\ w \in reloading => items = <<>> /\ pc[w] = "idle" /\ NoFirst(queue[w])
  /\ FirstOnly(w)
  /\ ~gap => Filled(w) /\ Placed(items)

OrderInv == \A w \in Worker : Order(w)

\* The photos of a page that follows the list are in their slots.
LEMMA PlacedAppend ==
  ASSUME NEW list \in Seq(Photo), Placed(list), NEW p \in Page,
         Len(list) = Off(p),
         NEW b \in Body \cup {NoBody}, b.page \in {0, p}
  PROVE  /\ Placed(list \o Details(b))
         /\ Len(list \o Details(b)) = Len(list) + b.size
<1> DEFINE new == Details(b)
           res == list \o new
<1>1. new \in Seq(Photo) /\ Len(new) = b.size
  BY DetailsType
<1> HIDE DEF new
<1>2. Len(res) = Len(list) + b.size
  BY <1>1
<1>3. ASSUME NEW i \in 1..Len(res) PROVE Off(res[i].page) + res[i].idx = i
  <2>1. CASE i <= Len(list)
    <3>1. i \in 1..Len(list) /\ res[i] = list[i]
      BY <1>1, <2>1
    <3> QED BY <3>1 DEF Placed
  <2>2. CASE i > Len(list)
    <3>1. i - Len(list) \in 1..b.size /\ res[i] = new[i - Len(list)]
      BY <1>1, <1>2, <2>2
    <3>2. res[i] = [page |-> b.page, ver |-> b.ver, idx |-> i - Len(list)]
      BY <3>1, DetailsType DEF new
    <3>3. b # NoBody
      BY <3>1 DEF NoBody
    <3>4. b.page = p
      BY <3>3, PagedListAssumption DEF Body, Page
    <3>5. Off(p) \in Int
      BY OffType DEF Page
    <3> QED BY <3>2, <3>4, <3>5
  <2> QED BY <2>1, <2>2
<1> QED BY <1>2, <1>3 DEF Placed, new

\* Those of a page that is overwritten stay in their slots.
LEMMA PlacedOverwrite ==
  ASSUME NEW list \in Seq(Photo), Placed(list), NEW p \in Page,
         NEW b \in Body \cup {NoBody}, b.page \in {0, p}
  PROVE  Placed(Overwrite(list, p, Details(b)))
<1> DEFINE new == Details(b)
           res == Overwrite(list, p, new)
<1>1. new \in Seq(Photo) /\ Len(new) = b.size
  BY DetailsType
<1>2. p \in Int /\ Off(p) \in Int
  BY OffType DEF Page
<1>3. Len(res) = Len(list)
  BY <1>1, <1>2, OverwriteType
<1>4. ASSUME NEW i \in 1..Len(list)
      PROVE  res[i] = IF i > Off(p) /\ i <= Off(p) + Len(new)
                        THEN new[i - Off(p)] ELSE list[i]
  BY DEF Overwrite
<1> HIDE DEF new, res
<1>5. ASSUME NEW i \in 1..Len(res) PROVE Off(res[i].page) + res[i].idx = i
  <2>1. i \in 1..Len(list)
    BY <1>3
  <2>2. CASE i > Off(p) /\ i <= Off(p) + Len(new)
    <3>1. i - Off(p) \in 1..b.size /\ res[i] = new[i - Off(p)]
      BY <1>1, <1>2, <1>4, <2>1, <2>2
    <3>2. res[i] = [page |-> b.page, ver |-> b.ver, idx |-> i - Off(p)]
      BY <3>1, DetailsType DEF new
    <3>3. b # NoBody
      BY <3>1 DEF NoBody
    <3>4. b.page = p
      BY <3>3, PagedListAssumption DEF Body, Page
    <3> QED BY <1>2, <3>2, <3>4
  <2>3. CASE ~(i > Off(p) /\ i <= Off(p) + Len(new))
    BY <1>4, <2>1, <2>3 DEF Placed
  <2> QED BY <2>2, <2>3
<1> QED BY <1>5 DEF Placed, res, new

\* The slots of a page, and where the next one begins.
LEMMA Slots ==
  ASSUME NEW p \in Page
  PROVE  /\ Off(p) \in Nat
         /\ p * ItemPerPage = Off(p) + ItemPerPage
         /\ Off(p) < p * ItemPerPage
         /\ Off(p + 1) = p * ItemPerPage
         /\ Off(1) = 0
<1>1. ItemPerPage \in Nat /\ ItemPerPage > 0 /\ p \in Nat /\ p >= 1
  BY PagedListAssumption DEF Page
<1>2. p - 1 \in Nat
  BY <1>1
<1>3. (p - 1) * ItemPerPage \in Nat
  BY <1>1, <1>2
<1>4. p * ItemPerPage = (p - 1) * ItemPerPage + ItemPerPage
  BY <1>1
<1>5. p + 1 - 1 = p
  BY <1>1
<1> QED BY <1>1, <1>3, <1>4, <1>5 DEF Off

\* A list that is full or open, and a whole page or nothing merged into it.
LEMMA PlacedMerge ==
  ASSUME ScreenInv, Placed(items), Open \/ Full,
         NEW b \in Body \cup {NoBody}, b.page \in {0, currentPage},
         b.size \in {0, ItemPerPage},
         items' = Merge(items, currentPage, Details(b)),
         currentPage' = currentPage
  PROVE  /\ Placed(items)'
         /\ b.size = ItemPerPage => Full'
         /\ Open' \/ Full'
<1> DEFINE p == currentPage
<1>1. items \in Seq(Photo) /\ p \in Page
  BY DEF ScreenInv, ScreenTypeOK, TypeOK
<1>2. /\ Off(p) \in Nat
      /\ p * ItemPerPage = Off(p) + ItemPerPage
      /\ Off(p) < p * ItemPerPage
  BY <1>1, Slots
<1>3. Details(b) \in Seq(Photo) /\ p \in Int
  BY <1>1, DetailsType DEF Page
<1>4. CASE Open
  <2>1. ~(Len(items) >= p * ItemPerPage)
    BY <1>1, <1>2, <1>3, <1>4, PagedListAssumption DEF Open
  <2>2. items' = items \o Details(b)
    BY <2>1 DEF Merge
  <2>3. Placed(items') /\ Len(items') = Len(items) + b.size
    BY <1>1, <1>4, <2>2, PlacedAppend DEF Open
  <2> QED BY <1>2, <1>4, <2>3, PagedListAssumption DEF Open, Full, Placed
<1>5. CASE Full
  <2>1. items' = Overwrite(items, p, Details(b))
    BY <1>1, <1>2, <1>5 DEF Merge, Full
  <2>2. Placed(items')
    BY <1>1, <2>1, PlacedOverwrite
  <2>3. Len(items') = Len(items)
    BY <1>1, <1>3, <2>1, OverwriteType
  <2> QED BY <1>5, <2>2, <2>3 DEF Full, Placed
<1> QED BY <1>4, <1>5

\* The only worker gets every job.
LEMMA OneWorker ==
  ASSUME Serial, NEW w \in Worker
  PROVE  /\ \A v \in Worker : v = w
         /\ \A kind \in Pipeline : WorkerOf[kind] = w
         /\ FirstJob[w] = <<"initial">>
<1>1. \A v \in Worker : v = w
  BY DEF Serial
<1>2. "initial" \in Pipeline /\ \A kind \in Pipeline : WorkerOf[kind] \in Worker
  BY ScreenAssumption DEF Pipeline
<1> QED BY <1>1, <1>2 DEF FirstJob

\* There is a worker, and what holds of it holds of all.
LEMMA OrderOfOne ==
  ASSUME Serial
  PROVE  /\ \E w \in Worker : TRUE
         /\ \A w \in Worker : Order(w) => OrderInv
         /\ \A w \in Worker : Order(w)' => OrderInv'
<1>1. WorkerOf["more"] \in Worker
  BY ScreenAssumption DEF Pipeline
<1>2. \A v, w \in Worker : v = w
  BY DEF Serial
<1> QED BY <1>1, <1>2 DEF OrderInv

\* An empty list of a process that ended, of a screen that was left, or of one
\* that waits for its initial request.
LEMMA OrderRest ==
  ASSUME NEW w \in Worker, items' = <<>>, pc'[w] = "idle",
         \/ queue'[w] = <<>> /\ (~alive' \/ ~observer')
         \/ queue'[w] = <<"initial">> /\ w \notin reloading'
  PROVE  Order(w)'
<1>1. FirstOnly(w)'
  <2>1. Len(<<>>) = 0 /\ Len(<<"initial">>) = 1
    OBVIOUS
  <2>2. Len(queue'[w]) = 0 \/ Len(queue'[w]) = 1
    BY <2>1
  <2>3. \A i \in 1..Len(queue'[w]) : i = 1
    <3> DEFINE n == Len(queue'[w])
    <3>1. n = 0 \/ n = 1
      BY <2>2
    <3> HIDE DEF n
    <3>2. ASSUME NEW i \in 1..n PROVE i = 1
      BY <3>1
    <3> QED BY <3>2 DEF n
  <2> QED BY <2>3 DEF FirstOnly
<1>2. Filled(w)'
  <2>1. \/ queue'[w] # <<>> /\ Head(queue'[w]) = "initial"
        \/ queue'[w] = <<>> /\ (~alive' \/ ~observer')
    OBVIOUS
  <2> QED BY <2>1 DEF Filled, Before, Between, After
<1>3. Placed(items)'
  BY DEF Placed
<1>4. NoFirst(<<>>)
  BY DEF NoFirst
<1> QED BY <1>1, <1>2, <1>3, <1>4 DEF Order

LEMMA OrderStart == ASSUME Serial PROVE ScreenInit => OrderInv
<1> SUFFICES ASSUME ScreenInit PROVE OrderInv
  OBVIOUS
<1>1. PICK w \in Worker : TRUE
  BY OrderOfOne
<1>2. /\ items = <<>> /\ pc[w] = "idle" /\ alive
      /\ queue[w] = <<"initial">> /\ reloading = {}
  BY OneWorker DEF ScreenInit, Init, Fresh
<1>3. FirstOnly(w)
  <2>1. \A i \in 1..Len(queue[w]) : i = 1
    BY <1>2
  <2> QED BY <1>2, <2>1 DEF FirstOnly
<1>4. Filled(w)
  <2>1. queue[w] # <<>> /\ Head(queue[w]) = "initial"
    BY <1>2
  <2> QED BY <1>2, <2>1 DEF Filled, Before, Between, After
<1>5. Order(w)
  BY <1>2, <1>3, <1>4 DEF Order, Placed
<1> QED BY <1>5, OrderOfOne

\* The end of the process, and its next start.
LEMMA OrderDie ==
  ASSUME Serial, NEW w \in Worker, Die, NoScreen PROVE Order(w)'
<1>1. items' = <<>> /\ pc'[w] = "idle" /\ ~alive' /\ queue'[w] = <<>>
  BY DEF Die, NoScreen
<1> QED BY <1>1, OrderRest

LEMMA OrderLaunch ==
  ASSUME Serial, NEW w \in Worker, Order(w), ScreenLaunch PROVE Order(w)'
<1>1. items' = <<>> /\ pc'[w] = "idle"
  BY DEF ScreenLaunch, Launch, Order
<1>2. queue'[w] = <<"initial">> /\ reloading' = {}
  BY OneWorker DEF ScreenLaunch, FreshScreen
<1> QED BY <1>1, <1>2, OrderRest

\* A job that is delivered waits behind those that wait.
LEMMA OrderDeliver ==
  ASSUME Serial, ScreenInv, NEW w \in Worker, Order(w),
         NEW kind \in Pipeline, kind # "initial", Deliver(kind), observer,
         UNCHANGED <<vars, currentPage, reloading, gap>>
  PROVE  Order(w)'
<1>1. UNCHANGED <<alive, observer, items, pc, page>>
  BY DEF vars
<1>2. WorkerOf[kind] = w /\ queue[w] \in Seq(Pipeline)
  BY OneWorker DEF ScreenInv, ScreenTypeOK
<1>3. queue'[w] = Append(queue[w], kind)
  BY <1>2, DeliverQueue DEF ScreenInv, ScreenTypeOK
<1>4. /\ Len(queue'[w]) = Len(queue[w]) + 1
      /\ \A i \in 1..Len(queue[w]) : queue'[w][i] = queue[w][i]
      /\ queue'[w][Len(queue[w]) + 1] = kind
      /\ queue'[w] # <<>>
      /\ queue[w] # <<>> => Head(queue'[w]) = Head(queue[w])
  BY <1>2, <1>3
<1>5. FirstOnly(w)'
  <2> SUFFICES ASSUME NEW i \in 1..Len(queue'[w]), queue'[w][i] = "initial"
               PROVE  i = 1 /\ items' = <<>> /\ pc'[w] = "idle"
    BY DEF FirstOnly
  <2>1. Len(queue[w]) \in Nat
    BY <1>2
  <2>2. i \in 1..Len(queue[w]) /\ queue[w][i] = "initial"
    BY <1>4, <2>1
  <2> QED BY <1>1, <2>2 DEF Order, FirstOnly
<1>6. (~gap => Filled(w) /\ Placed(items))'
  BY <1>1, <1>4 DEF Order, Filled, Open, Full, Placed
<1>7. NoFirst(queue[w]) => NoFirst(queue'[w])
  <2>1. Len(queue[w]) \in Nat
    BY <1>2
  <2> QED BY <1>4, <2>1 DEF NoFirst
<1> QED BY <1>1, <1>5, <1>6, <1>7 DEF Order

\* The screen is left: the initial request goes on waiting, or nothing does.
LEMMA OrderLeft ==
  ASSUME Serial, ScreenInv, NEW w \in Worker, Order(w), Unsubscribe,
         \/ queue'[w] = <<>>
         \/ /\ queue' = FirstJob
            /\ \E i \in 1..Len(queue[w]) : queue[w][i] = "initial",
         UNCHANGED <<currentPage, reloading, gap>>
  PROVE  Order(w)'
<1>1. alive /\ ~observer' /\ UNCHANGED <<alive, items, pc, page>>
  BY DEF Unsubscribe
<1>2. CASE queue'[w] = <<>>
  <2>1. FirstOnly(w)'
    BY <1>2 DEF FirstOnly
  <2>2. (~gap => Filled(w) /\ Placed(items))'
    BY <1>1, <1>2 DEF Order, Filled, Open, Full, Placed
  <2>3. NoFirst(queue'[w])
    BY <1>2 DEF NoFirst
  <2> QED BY <1>1, <2>1, <2>2, <2>3 DEF Order
<1>3. CASE /\ queue' = FirstJob
           /\ \E i \in 1..Len(queue[w]) : queue[w][i] = "initial"
  <2>1. items = <<>> /\ pc[w] = "idle"
    BY <1>3 DEF Order, FirstOnly
  <2>2. queue'[w] = <<"initial">>
    BY <1>3, OneWorker
  <2>3. w \notin reloading'
    BY <1>3 DEF Order, NoFirst
  <2> QED BY <1>1, <2>1, <2>2, <2>3, OrderRest
<1> QED BY <1>2, <1>3

\* A job is taken up: the initial request is not among those that go on waiting.
LEMMA OrderTake ==
  ASSUME Serial, ScreenInv, NEW w \in Worker, Order(w),
         NEW kind \in Pipeline, Take(w, kind)
  PROVE  /\ w \notin reloading
         /\ NoFirst(queue'[w])
         /\ kind = "initial" => items = <<>>
         /\ kind # "initial" /\ alive /\ pc[w] = "idle" /\ ~gap => Full
<1>1. /\ queue[w] \in Seq(Pipeline) /\ queue[w] # <<>>
      /\ Head(queue[w]) = kind
      /\ queue'[w] = Tail(queue[w])
  BY DEF Take, ScreenInv, ScreenTypeOK
<1>2. /\ 1 \in 1..Len(queue[w]) /\ queue[w][1] = kind
      /\ Len(queue'[w]) = Len(queue[w]) - 1
      /\ \A i \in 1..(Len(queue[w]) - 1) : queue'[w][i] = queue[w][i + 1]
  BY <1>1
<1>3. ASSUME NEW i \in 1..Len(queue'[w]) PROVE queue'[w][i] # "initial"
  <2>1. /\ i + 1 \in 1..Len(queue[w]) /\ i + 1 # 1
        /\ queue'[w][i] = queue[w][i + 1]
    BY <1>1, <1>2
  <2> QED BY <2>1 DEF Order, FirstOnly
<1>4. kind = "initial" => items = <<>>
  BY <1>2 DEF Order, FirstOnly
<1>5. kind # "initial" /\ alive /\ pc[w] = "idle" /\ ~gap => Full
  BY <1>1 DEF Order, Filled, Take
<1> QED BY <1>3, <1>4, <1>5 DEF Take, NoFirst

\* A request is called.
LEMMA OrderCalled ==
  ASSUME ScreenInv, NEW w \in Worker, alive, NEW p \in Page,
         alive' = alive, Goto(w, "begin"), page' = [page EXCEPT ![w] = p],
         currentPage' = p, w \notin reloading',
         NoFirst(queue'[w]),
         ~gap' => Len(items') = Off(p) /\ Placed(items')
  PROVE  Order(w)'
<1>1. pc'[w] = "begin" /\ page'[w] = p
  BY DEF Goto, ScreenInv, ScreenTypeOK, TypeOK
<1>2. FirstOnly(w)'
  BY DEF FirstOnly, NoFirst
<1> QED BY <1>1, <1>2 DEF Order, Filled, Open, Before, Between, After

LEMMA OrderJobs ==
  ASSUME Serial, ScreenInv, NEW w \in Worker, Order(w),
         \/ RunInitial(w) \/ RunRefresh(w) \/ Reload(w) \/ NextPage(w)
         \/ IosSkipMore(w)
  PROVE  Order(w)'
<1> USE DEF Pipeline
<1>1. 1 \in Page /\ Off(1) = 0 /\ Len(<<>>) = 0 /\ Placed(<<>>)
  BY PagedListAssumption, Slots DEF Page, Placed
<1>2. CASE RunInitial(w)
  <2>1. /\ items = <<>> /\ items' = items
        /\ w \notin reloading /\ reloading' = reloading
        /\ NoFirst(queue'[w])
    BY <1>2, OrderTake DEF RunInitial, Request
  <2> QED BY <1>1, <1>2, <2>1, OrderCalled DEF RunInitial, Request, At
<1>3. CASE RunRefresh(w)
  <2>1. NoFirst(queue'[w])
    BY <1>3, OrderTake DEF RunRefresh
  <2>2. items' = <<>> /\ pc' = pc /\ pc[w] = "idle" /\ alive' /\ w \in reloading'
    BY <1>3, Alone DEF RunRefresh, Reset, Cleared, At
  <2>3. Filled(w)' /\ Placed(items)'
    BY <1>1, <2>2 DEF Filled, Before, Between, After
  <2>4. FirstOnly(w)'
    BY <2>1 DEF FirstOnly, NoFirst
  <2>5. pc'[w] = "idle"
    BY <2>2
  <2> QED BY <2>1, <2>2, <2>3, <2>4, <2>5 DEF Order
<1>6. CASE Reload(w)
  <2>1. /\ items = <<>> /\ items' = items
        /\ w \notin reloading'
        /\ queue' = queue
        /\ NoFirst(queue[w])
    BY <1>6 DEF Reload, Request, Order
  <2>2. FirstOnly(w)'
    BY <2>1 DEF FirstOnly, NoFirst
  <2>3. /\ pc[w] = "idle" /\ pc'[w] = "begin" /\ page'[w] = 1 /\ currentPage' = 1
        /\ alive'
    BY <1>6 DEF Reload, Request, At, Goto, ScreenInv, ScreenTypeOK, TypeOK
  <2> QED BY <1>1, <2>1, <2>2, <2>3
          DEF Order, Filled, Open, Before, Between, After
<1>4. CASE NextPage(w)
  <2>1. currentPage + 1 \in Page /\ currentPage \in Page
    BY <1>4, NextPageInRange DEF ScreenInv, ScreenTypeOK
  <2>2. /\ NoFirst(queue'[w])
        /\ ~gap => Full
    BY <1>4, OrderTake DEF NextPage, Request, At
  <2>3. ~gap => Len(items) = Off(currentPage + 1) /\ Placed(items)
    BY <2>1, <2>2, Slots DEF Full, Order
  <2>4. items' = items /\ gap' = gap
    BY <1>4 DEF NextPage, Request
  <2>5. ~gap' => Len(items') = Off(currentPage + 1) /\ Placed(items')
    BY <2>3, <2>4
  <2>6. w \notin reloading'
    BY <1>4, OrderTake DEF NextPage
  <2> QED BY <1>4, <2>1, <2>2, <2>5, <2>6, OrderCalled DEF NextPage, Request, At
<1>5. CASE IosSkipMore(w)
  <2>1. /\ NoFirst(queue'[w])
        /\ ~gap => Full
    BY <1>5, OrderTake DEF IosSkipMore, At
  <2>2. /\ alive /\ pc[w] = "idle"
        /\ UNCHANGED <<alive, observer, items, pc, page, currentPage, gap>>
    BY <1>5 DEF IosSkipMore, At, vars
  <2>3. (~gap => Filled(w) /\ Placed(items))'
    BY <2>1, <2>2 DEF Order, Filled, Full, Placed, Before, Between, After
  <2>4. w \notin reloading'
    BY <1>5, OrderTake DEF IosSkipMore
  <2> QED BY <2>1, <2>2, <2>3, <2>4 DEF Order, FirstOnly, NoFirst
<1> QED BY <1>2, <1>3, <1>4, <1>5, <1>6

LEMMA OrderWithin ==
  ASSUME ScreenInv, NEW w \in Worker, Order(w), alive, alive' = alive,
         NEW to \in Step, Goto(w, to),
         \/ pc[w] \in Before /\ to \in Before
         \/ pc[w] \in Between /\ to \in Between
         \/ pc[w] \in After /\ to \in After \cup {"idle"},
         to # "idle" => page' = page,
         UNCHANGED <<items, currentPage, queue, reloading, gap>>
  PROVE  Order(w)'
<1>1. pc'[w] = to
  BY DEF Goto, ScreenInv, ScreenTypeOK, TypeOK
<1>2. (Open' <=> Open) /\ (Full' <=> Full) /\ (Placed(items)' <=> Placed(items))
  BY DEF Open, Full, Placed
<1>3. FirstOnly(w)'
  BY DEF Order, FirstOnly, Before, Between, After
<1>4. (~gap => Filled(w))'
  BY <1>1, <1>2 DEF Order, Filled, Before, Between, After
<1> QED BY <1>1, <1>2, <1>3, <1>4 DEF Order, Before, Between, After

LEMMA OrderQuiet ==
  ASSUME ScreenInv, NEW w \in Worker, Order(w),
         BeginUpdate(w) \/ EndUpdate(w) \/ Silent(w),
         UNCHANGED <<currentPage, queue, reloading, gap>>
  PROVE  Order(w)'
<1> USE DEF At, Before, Between, After, Step
<1>1. CASE BeginUpdate(w)
  BY <1>1, OrderWithin DEF BeginUpdate
<1>2. CASE EndUpdate(w)
  BY <1>2, OrderWithin DEF EndUpdate, Return
<1>3. CASE ReadCache(w) \/ ShowCache(w) \/ SetUrl(w) \/ SetSink(w)
  BY <1>3, OrderWithin DEF ReadCache, ShowCache, SetUrl, SetSink
<1>7. CASE ShowAnswer(w) \/ ShowError(w)
  BY <1>7, OrderWithin DEF ShowAnswer, ShowError
<1>4. CASE Perform(w) \/ Refused(w)
  BY <1>4, OrderWithin DEF Perform, Refused
<1>5. CASE (\E n \in Sizes : Answer(w, n)) \/ HttpFail(w)
  <2>1. /\ pc[w] = "transfer" /\ alive
        /\ Goto(w, "answered") \/ Goto(w, "failed")
        /\ UNCHANGED <<alive, items, page>>
    BY <1>5 DEF Answer, HttpFail
  <2> QED BY <2>1, OrderWithin
<1>6. CASE Save(w)
  BY <1>6, OrderWithin DEF Save, Return
<1> QED BY <1>1, <1>2, <1>3, <1>4, <1>5, <1>6, <1>7 DEF Silent

\* A page that was requested is merged, or given up.
LEMMA OrderFill ==
  ASSUME Serial, MaxPage < Radix, ScreenInv, SerialInv,
         NEW w \in Worker, Order(w), Fill(w)
  PROVE  Order(w)'
<1>1. /\ alive /\ alive' = alive
      /\ pc[w] \in {"merging", "answered", "failed"}
      /\ w \notin reloading'
      /\ UNCHANGED <<observer, currentPage, queue>>
  BY DEF Fill, MergeCache, Succeed, Fail, At, Order
<1>2. /\ pc \in [Worker -> Step] /\ page \in [Worker -> Page \cup {0}]
      /\ gap \in BOOLEAN
      /\ currentPage \in Page
      /\ page[w] = currentPage
  BY <1>1 DEF ScreenInv, ScreenTypeOK, TypeOK, Order
<1>3. FirstOnly(w)'
  BY <1>1 DEF Order, FirstOnly
<1>4. CASE MergeCache(w) /\ gap' = (gap \/ Partial(body[w].size))
  <2> DEFINE b == body[w]
  <2>1. pc[w] = "merging" /\ pc'[w] = "cached" /\ page' = page
    BY <1>2, <1>4 DEF MergeCache, At, Goto
  <2>2. items' = Merge(items, currentPage, Details(b))
    BY <1>2, <1>4, Alone DEF MergeCache, Merged
  <2>5. b = db[currentPage]
    BY <1>2, <2>1 DEF SerialInv, Coherent
  <2>3. b \in Body \cup {NoBody} /\ b.page \in {0, currentPage}
    BY <1>2, <2>5 DEF ScreenInv, ScreenTypeOK, TypeOK, SerialInv, CacheOwnPage
  <2>4. ASSUME ~gap' PROVE Filled(w)' /\ Placed(items)'
    <3>1. ~gap /\ b.size \in {0, ItemPerPage}
      BY <1>4, <2>4 DEF Partial
    <3>2. Open /\ Placed(items)
      BY <2>1, <3>1 DEF Order, Filled, Before, Between
    <3>3. Placed(items)' /\ (Open' \/ Full')
      BY <1>1, <2>2, <2>3, <3>1, <3>2, PlacedMerge
    <3> QED BY <2>1, <3>3 DEF Filled, Before, Between, After
  <2> QED BY <1>1, <1>2, <1>3, <2>1, <2>4 DEF Order
<1>5. CASE Succeed(w) /\ gap' = (gap \/ body[w].size # ItemPerPage)
  <2> DEFINE b == body[w]
  <2>1. /\ pc[w] = "answered" /\ pc'[w] \in {"telling", "saving"}
        /\ page' = page
    BY <1>2, <1>5 DEF Succeed, At, Goto
  <2>2. PageOf(currentPage) = currentPage
    BY <1>2, PagedListAssumption, PageOfType DEF Page
  <2>3. items' = Merge(items, currentPage, Details(b))
    BY <1>2, <1>5, <2>2, Alone DEF Succeed, Merged
  <2>4. b \in Body \cup {NoBody} /\ b.page \in {0, currentPage}
    BY <1>2, <2>1 DEF SerialInv, Coherent, HoldsAnswer, Answered
  <2>5. ASSUME ~gap' PROVE Filled(w)' /\ Placed(items)'
    <3>1. ~gap /\ b.size = ItemPerPage
      BY <1>5, <2>5
    <3>2. (Open \/ Full) /\ Placed(items)
      BY <2>1, <3>1 DEF Order, Filled, Before, Between
    <3>3. Placed(items)' /\ Full'
      BY <1>1, <2>3, <2>4, <3>1, <3>2, PlacedMerge
    <3> QED BY <2>1, <3>3 DEF Filled, Before, Between, After
  <2> QED BY <1>1, <1>2, <1>3, <2>1, <2>5 DEF Order
<1>6. CASE Fail(w) /\ gap' = (gap \/ Len(items) < page[w] * ItemPerPage)
  <2>1. /\ pc[w] = "failed" /\ pc'[w] \in {"failing", "idle"}
        /\ pc'[w] # "idle" => page' = page
        /\ items' = items
    BY <1>2, <1>6 DEF Fail, Return, At, Goto
  <2>2. ASSUME ~gap' PROVE Filled(w)' /\ Placed(items)'
    <3>1. ~gap /\ ~(Len(items) < currentPage * ItemPerPage)
      BY <1>2, <1>6, <2>2
    <3>2. (Open \/ Full) /\ Placed(items)
      BY <2>1, <3>1 DEF Order, Filled, Before, Between
    <3>3. Full
      BY <1>2, <3>1, <3>2, Slots DEF Open
    <3>4. Full' /\ Placed(items)'
      BY <1>1, <2>1, <3>2, <3>3 DEF Full, Placed
    <3> QED BY <2>1, <3>4 DEF Filled, Before, Between, After
  <2> QED BY <1>1, <1>2, <1>3, <2>1, <2>2 DEF Order
<1> QED BY <1>4, <1>5, <1>6 DEF Fill

\* The induction step.
LEMMA OrderNext ==
  ASSUME Serial, MaxPage < Radix
  PROVE  ScreenInv /\ SerialInv /\ OrderInv /\ [ScreenNext]_screenVars => OrderInv'
<1> SUFFICES ASSUME ScreenInv, SerialInv, OrderInv, [ScreenNext]_screenVars
             PROVE  OrderInv'
  OBVIOUS
<1>1. PICK w \in Worker : TRUE
  BY OrderOfOne
<1>2. Order(w)
  BY DEF OrderInv
<1> SUFFICES Order(w)'
  BY OrderOfOne
<1>3. CASE Pull \/ ScrollEnd
  BY <1>2, <1>3, OrderDeliver DEF Pull, ScrollEnd, Pipeline
<1>4. CASE AndroidDestroy \/ IosDestroy
  <2>1. Unsubscribe /\ UNCHANGED <<currentPage, reloading, gap>>
    BY <1>4 DEF AndroidDestroy, IosDestroy
  <2>2. \/ queue'[w] = <<>>
        \/ queue' = FirstJob /\ IsWaiting("initial")
    BY <1>4 DEF AndroidDestroy, IosDestroy
  <2>3. \/ queue'[w] = <<>>
        \/ /\ queue' = FirstJob
           /\ \E i \in 1..Len(queue[w]) : queue[w][i] = "initial"
    BY <2>2, OneWorker DEF IsWaiting, Pipeline
  <2> QED BY <1>2, <2>1, <2>3, OrderLeft
<1>5. ASSUME NEW v \in Worker, Work(v) PROVE Order(w)'
  <2>1. v = w
    BY DEF Serial
  <2>2. CASE \/ RunInitial(w) \/ RunRefresh(w) \/ Reload(w) \/ NextPage(w)
             \/ IosSkipMore(w)
    BY <1>2, <2>2, OrderJobs
  <2>3. CASE \/ AndroidBegin(w) \/ IosBegin(w) \/ AndroidEnd(w) \/ IosEnd(w)
             \/ Silent(w)
    BY <1>2, <2>3, OrderQuiet
       DEF AndroidBegin, IosBegin, AndroidEnd, IosEnd, Silent, ui
  <2>4. CASE Fill(w)
    BY <1>2, <2>4, OrderFill
  <2>5. CASE ScreenNullCall(w)
    BY <2>5, OrderDie DEF ScreenNullCall, NullCall
  <2> QED BY <1>5, <2>1, <2>2, <2>3, <2>4, <2>5 DEF Work, AndroidMore, IosMore
<1>6. CASE ScreenCrash
  BY <1>6, OrderDie DEF ScreenCrash, Crash
<1>7. CASE ScreenLaunch
  BY <1>2, <1>7, OrderLaunch
<1>8. CASE ScreenChange \/ Arrive \/ UNCHANGED screenVars
  <2>1. UNCHANGED <<alive, observer, items, pc, page, currentPage, queue,
                    reloading, gap>>
    BY <1>8 DEF ScreenChange, Change, Arrive, vars, ui, screenVars
  <2> QED BY <1>2, <2>1 DEF Order, FirstOnly, Filled, Open, Full, Placed
<1> QED BY <1>3, <1>4, <1>5, <1>6, <1>7, <1>8
        DEF ScreenNext, AndroidPull, IosPull, AndroidScrollEnd, IosScrollEnd

\* With one worker, and as long as every page came in full, the list is page 1,
\* page 2, ... in order, each photo once, up to the page that was requested last:
\* whatever is scrolled, refreshed, left or started again in between, and
\* whichever of cache and server delivered (explore_controller.cpp:36-41, 92-105,
\* ExploreDataController.kt:37-51, ExploreDataController.swift:51-68).
THEOREM InOrderCorrect ==
  ASSUME Serial, MaxPage < Radix PROVE ScreenSpec => []InOrder
<1>1. OrderInv => InOrder
  <2> SUFFICES ASSUME OrderInv, ~gap
               PROVE  /\ Placed(items)
                      /\ Active = {} /\ items # <<>> => Full
    BY DEF InOrder, Placed, Full
  <2>1. PICK w \in Worker : TRUE
    BY OrderOfOne
  <2>2. Order(w)
    BY DEF OrderInv
  <2> QED BY <2>2 DEF Order, Filled, Active
<1>2. ScreenInit => OrderInv
  BY OrderStart
<1>3. ScreenInv /\ SerialInv /\ OrderInv /\ [ScreenNext]_screenVars => OrderInv'
  BY OrderNext
<1> QED BY <1>1, <1>2, <1>3, ScreenInvCorrect, ScreenSerial, PTL DEF ScreenSpec

-----------------------------------------------------------------------------
(* The other promises of the controller, on the screen.                    *)

\* With one worker, the cache of the screen holds under each page what was
\* produced for it; the screen shows the list as it is once nothing is loading;
\* and it never goes back to an older version of a photo: whatever is scrolled,
\* refreshed or left, and wherever the process dies
\* (explore_controller.cpp:34-42, 89-118, ExploreFragment.kt:52-98,
\* ExploreViewController.swift:25-36, 55-90).
THEOREM ScreenPromises ==
  ASSUME Serial
  PROVE  ScreenSpec => []CacheOwnPage /\ []Settled /\ NeverOlder
<1>1. SerialInv => CacheOwnPage
  BY DEF SerialInv
<1>2. ScreenInv /\ SerialInv => Settled
  BY DEF ScreenInv, Inv, TypeOK, SerialInv, Shown, Settled, Active
<1>3. [CoreNext]_vars => view' = view \/ Die \/ \E w \in Worker : Continue(w)
  BY DEF CoreNext, Request, Reset, Unsubscribe, Change, Crash, Launch, vars
<1>4. ScreenInv /\ SerialInv /\ [CoreNext]_vars =>
        [\A i \in 1..Len(view.items) :
           /\ i <= Len(view'.items)
           /\ view'.items[i].page = view.items[i].page
           => view'.items[i].ver >= view.items[i].ver]_vars
  BY <1>3, SerialNeverOlder DEF ScreenInv
<1> QED BY <1>1, <1>2, <1>4, CoreStep, ScreenInvCorrect, ScreenSerial, PTL
        DEF ScreenSpec, NeverOlder

\* If the server sends full pages, or none, the list of the screen is made of
\* whole pages, each in one version, for any workers, whatever pages are
\* requested and whatever is lost in a race
\* (explore_controller.cpp:36-41, 92-105).
THEOREM ScreenBlocksWhole ==
  ASSUME Sizes \subseteq {0, ItemPerPage} PROVE ScreenSpec => []BlocksWhole
<1>1. Inv /\ WholeInv /\ [CoreNext]_vars => WholeInv'
  <2> SUFFICES ASSUME Inv, WholeInv, [CoreNext]_vars PROVE WholeInv'
    OBVIOUS
  <2>1. CASE UNCHANGED <<items, db, body>>
    BY <2>1 DEF WholeInv, SizesWhole
  <2>2. ASSUME NEW w \in Worker, NEW p \in Page, Request(w, p) PROVE WholeInv'
    BY <2>1, <2>2 DEF Request
  <2>3. ASSUME NEW w \in Worker, Reset(w) PROVE WholeInv'
    BY <2>3, WholeCleared DEF Reset
  <2>4. ASSUME NEW w \in Worker, Continue(w) PROVE WholeInv'
    BY <2>4, WholeContinue
  <2>5. CASE Unsubscribe \/ Change \/ Launch \/ UNCHANGED vars
    BY <2>1, <2>5 DEF Unsubscribe, Change, Launch, vars
  <2>6. CASE Crash
    BY <2>6, WholeDie DEF Crash
  <2> QED BY <2>2, <2>3, <2>4, <2>5, <2>6 DEF CoreNext
<1>2. ScreenInit => WholeInv
  BY WholeStart DEF ScreenInit
<1>3. ScreenInv => Inv
  BY DEF ScreenInv
<1>4. ScreenInv /\ WholeInv => BlocksWhole
  BY WholeIsBlocksWhole DEF ScreenInv, Inv, TypeOK, WholeInv
<1> QED BY <1>1, <1>2, <1>3, <1>4, CoreStep, ScreenInvCorrect, PTL DEF ScreenSpec
=============================================================================
