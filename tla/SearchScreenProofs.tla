--------------------------- MODULE SearchScreenProofs ---------------------------
(***************************************************************************)
(* The search screen uses its controller as that allows; and on Android,   *)
(* where one worker searches, the list belongs to the text in the search   *)
(* bar once all is quiet, however late the answers to earlier texts came.  *)
(***************************************************************************)
EXTENDS SearchScreen, SearchControllerProofs, FiniteSetTheorems,
        SequenceTheorems

ScreenInv == ScreenTypeOK /\ Keyed

-----------------------------------------------------------------------------
(* Types, on either platform *)

LEMMA RecentsType ==
  ASSUME NEW keys \in SUBSET Key
  PROVE  Recents(keys).keys \subseteq Key /\ Recents(keys).blanks \in Nat
<1>1. IsFiniteSet(keys)
  BY SearchAssumption, FS_Subset
<1> QED BY <1>1, FS_CardinalityType DEF Recents

LEMMA SeenType == ASSUME Inv, NEW keys \in Seen PROVE keys \in SUBSET Key
<1>1. \A w \in Others(NoKey, {"insert"}) : key[w] \in Key
  BY DEF Others, Inv, Keyed
<1> QED BY <1>1 DEF Seen, Inv, SearchTypeOK

LEMMA EnqueueType ==
  ASSUME ScreenInv, NEW w \in Worker, NEW k \in Key, Enqueue(w, k)
  PROVE  /\ queue' \in [Worker -> Seq(Key)]
         /\ \A v \in Worker : Len(queue'[v]) <= Buffer
         /\ Inv'
<1>1. queue \in [Worker -> Seq(Key)] /\ \A v \in Worker : Len(queue[v]) <= Buffer
  BY DEF ScreenInv, ScreenTypeOK
<1>2. CASE Len(queue[w]) < Buffer /\ queue' = [queue EXCEPT ![w] = Append(@, k)]
           /\ UNCHANGED searchVars
  <2>1. queue[w] \in Seq(Key) /\ Append(queue[w], k) \in Seq(Key)
        /\ Len(Append(queue[w], k)) = Len(queue[w]) + 1
    BY <1>1
  <2>2. Len(queue[w]) \in Nat /\ Buffer \in Nat
    BY <2>1, ScreenAssumption
  <2>3. queue' \in [Worker -> Seq(Key)]
    BY <1>1, <1>2, <2>1
  <2>4. \A v \in Worker : queue'[v] = IF v = w THEN Append(queue[w], k) ELSE queue[v]
    BY <1>1, <1>2
  <2>5. \A v \in Worker : Len(queue'[v]) <= Buffer
    BY <1>1, <1>2, <2>1, <2>2, <2>4
  <2>6. Inv'
    BY <1>2 DEF searchVars, ScreenInv, ScreenTypeOK, Inv, SearchTypeOK, Keyed
  <2> QED BY <2>3, <2>5, <2>6
<1>3. CASE Die /\ UNCHANGED queue
  BY <1>1, <1>3, DieInv
<1> QED BY <1>2, <1>3 DEF Enqueue

LEMMA UnchangedInv == Inv /\ UNCHANGED searchVars => Inv'
BY DEF searchVars, Inv, SearchTypeOK, Keyed

LEMMA ScreenInitInv == ScreenInit => ScreenInv
<1> SUFFICES ASSUME ScreenInit PROVE ScreenInv
  OBVIOUS
<1>1. Inv
  BY InitInv DEF ScreenInit
<1>2. rows.keys \subseteq Key /\ rows.blanks \in Nat
  BY RecentsType DEF ScreenInit
<1>3. \A w \in Worker : Len(queue[w]) <= Buffer
  BY ScreenAssumption DEF ScreenInit
<1>4. /\ queue \in [Worker -> Seq(Key)] /\ list \in Seq(Key)
      /\ inbox \in Seq(Seq(Key)) /\ result \in [Worker -> Seq(Key)]
  BY DEF ScreenInit
<1>5. typed \in Key
  BY ScreenAssumption DEF ScreenInit
<1> QED BY <1>1, <1>2, <1>3, <1>4, <1>5 DEF ScreenInit, Inv, ScreenInv, ScreenTypeOK

LEMMA MainThreadType ==
  ASSUME ScreenInv,
         Clear \/ (\E k \in Key : Type(k) \/ TapRecent(k)) \/ Elapse \/ Deliver \/ Leave
  PROVE  ScreenInv'
<1>1. Inv
  BY DEF ScreenInv, ScreenTypeOK, Inv
<1> USE DEF Inv, ScreenInv, ScreenTypeOK, delivery
<1>2. CASE Clear
  <2>1. Inv' /\ rows'.keys \subseteq Key /\ rows'.blanks \in Nat
    BY <1>1, <1>2, UnchangedInv, SeenType, RecentsType DEF Clear
  <2> QED BY <1>2, <2>1, ScreenAssumption DEF Clear
<1>3. ASSUME NEW k \in Key, Type(k) PROVE ScreenInv'
  <2>1. Inv' /\ list' \in Seq(Key)
    BY <1>1, <1>3, UnchangedInv DEF Type
  <2> QED BY <1>3, <2>1 DEF Type
<1>4. ASSUME NEW k \in Key, TapRecent(k) PROVE ScreenInv'
  <2>1. /\ queue' \in [Worker -> Seq(Key)]
        /\ \A v \in Worker : Len(queue'[v]) <= Buffer
        /\ Inv'
    BY <1>4, EnqueueType, ScreenAssumption DEF TapRecent
  <2> QED BY <1>4, <2>1 DEF TapRecent
<1>5. CASE Elapse
  <2>1. CASE pending = last
    BY <1>1, <1>5, <2>1, UnchangedInv DEF Elapse
  <2>2. CASE pending # last
    <3>1. pending \in Key /\ Typist \in Worker
      BY <1>5, ScreenAssumption DEF Elapse
    <3>2. /\ queue' \in [Worker -> Seq(Key)]
          /\ \A v \in Worker : Len(queue'[v]) <= Buffer
          /\ Inv' /\ last' = pending
      BY <1>5, <2>2, <3>1, EnqueueType DEF Elapse
    <3> QED BY <1>5, <3>1, <3>2 DEF Elapse
  <2> QED BY <2>1, <2>2
<1>6. CASE Deliver
  <2>1. inbox \in Seq(Seq(Key)) /\ inbox # <<>>
    BY <1>6 DEF Deliver
  <2>2. Head(inbox) \in Seq(Key) /\ Tail(inbox) \in Seq(Seq(Key))
    BY <2>1
  <2>3. Inv'
    BY <1>1, <1>6, UnchangedInv DEF Deliver
  <2> QED BY <1>6, <2>2, <2>3 DEF Deliver
<1>7. CASE Leave
  <2>1. Inv'
    BY <1>1, <1>7 DEF Leave, Unsubscribe, SearchTypeOK, Keyed
  <2>2. \A w \in Worker : Len(queue'[w]) <= Buffer
    BY <1>7, ScreenAssumption DEF Leave
  <2>3. queue' \in [Worker -> Seq(Key)] /\ inbox' \in Seq(Seq(Key))
    BY <1>7 DEF Leave
  <2> QED BY <1>7, <2>1, <2>2, <2>3 DEF Leave
<1> QED BY <1>2, <1>3, <1>4, <1>5, <1>6, <1>7

LEMMA WorkerType ==
  ASSUME ScreenInv, NEW w \in Worker, WorkerStep(w) PROVE ScreenInv'
<1>1. Inv
  BY DEF ScreenInv, ScreenTypeOK, Inv
<1> USE DEF Inv, ScreenInv, ScreenTypeOK, delivery
<1>2. CASE TakeJob(w)
  <2>1. Inv'
    BY <1>1, <1>2, ResetInv DEF TakeJob
  <2>2. queue[w] \in Seq(Key) /\ queue[w] # <<>>
    BY <1>2 DEF TakeJob
  <2>3. /\ Head(queue[w]) \in Key /\ Tail(queue[w]) \in Seq(Key)
        /\ Len(Tail(queue[w])) = Len(queue[w]) - 1 /\ Len(queue[w]) \in Nat
    BY <2>2
  <2>4. queue' \in [Worker -> Seq(Key)] /\ job' \in [Worker -> Key \cup {NoKey}]
    BY <1>2, <2>3 DEF TakeJob
  <2>5. \A v \in Worker : queue'[v] = IF v = w THEN Tail(queue[w]) ELSE queue[v]
    BY <1>2 DEF TakeJob
  <2>6. \A v \in Worker : Len(queue'[v]) <= Buffer
    <3>1. \A v \in Worker : Len(queue[v]) <= Buffer
      OBVIOUS
    <3>2. Len(queue[w]) - 1 <= Buffer
      BY <2>3, <3>1, ScreenAssumption
    <3> QED BY <2>3, <2>5, <3>1, <3>2
  <2> QED BY <1>2, <2>1, <2>4, <2>6 DEF TakeJob
<1>3. CASE RunJob(w)
  <2>1. Inv'
    BY <1>1, <1>3, SearchInv DEF RunJob
  <2> QED BY <1>3, <2>1 DEF RunJob
<1>4. CASE Run(w)
  <2>1. Inv'
    BY <1>1, <1>4, ContinueInv DEF Run
  <2>2. view'.results \in Seq(Key)
    BY <2>1 DEF SearchTypeOK, ViewData
  <2>3. CASE Told(w)
    <3>1. /\ list' \in {list, view'.results} /\ posting' \in {posting, posting \cup {w}}
          /\ result' \in {result, [result EXCEPT ![w] = view'.results]}
          /\ newest' = {view'.results} \cup {result[v] : v \in posting}
      BY <1>4, <2>3 DEF Run, Hand
    <3>2. newest' \subseteq Seq(Key)
      BY <2>2, <3>1
    <3> QED BY <1>4, <2>1, <2>2, <3>1, <3>2 DEF Run
  <2>4. CASE ~Told(w)
    BY <1>4, <2>1, <2>4 DEF Run
  <2> QED BY <2>3, <2>4
<1>5. CASE Post(w)
  <2>1. Inv'
    BY <1>1, <1>5, UnchangedInv DEF Post
  <2>2. inbox' \in Seq(Seq(Key))
    <3>1. result[w] \in Seq(Key) /\ inbox \in Seq(Seq(Key))
      OBVIOUS
    <3>2. Append(inbox, result[w]) \in Seq(Seq(Key))
      BY <3>1
    <3> QED BY <1>5, <3>1, <3>2 DEF Post
  <2>3. result' \in [Worker -> Seq(Key)] /\ posting' \subseteq Worker
    BY <1>5 DEF Post
  <2> QED BY <1>5, <2>1, <2>2, <2>3 DEF Post
<1> QED BY <1>2, <1>3, <1>4, <1>5 DEF WorkerStep

LEMMA ScreenNextInv == ScreenInv /\ [ScreenNext]_allVars => ScreenInv'
<1> SUFFICES ASSUME ScreenInv, [ScreenNext]_allVars PROVE ScreenInv'
  OBVIOUS
<1>1. Inv
  BY DEF ScreenInv, ScreenTypeOK, Inv
<1> USE DEF Inv, ScreenInv, ScreenTypeOK
<1>2. CASE ScreenCrash
  <2>1. Inv'
    BY <1>2, DieInv DEF ScreenCrash, Crash
  <2> QED BY <1>2, <2>1 DEF ScreenCrash, screenVars
<1>3. CASE Reopen
  <2>1. Inv'
    BY <1>1, <1>3 DEF Reopen, Launch, SearchTypeOK, Keyed
  <2>2. rows'.keys \subseteq Key /\ rows'.blanks \in Nat
    BY <1>3, RecentsType DEF Reopen
  <2>3. \A w \in Worker : Len(queue'[w]) <= Buffer
    BY <1>3, ScreenAssumption DEF Reopen
  <2>4. queue' \in [Worker -> Seq(Key)] /\ list' \in Seq(Key)
        /\ inbox' \in Seq(Seq(Key)) /\ job' \in [Worker -> Key \cup {NoKey}]
        /\ result' \in [Worker -> Seq(Key)]
    BY <1>3 DEF Reopen
  <2> QED BY <1>3, <2>1, <2>2, <2>3, <2>4, ScreenAssumption DEF Reopen
<1>4. CASE UNCHANGED allVars
  <2>1. Inv'
    BY <1>1, <1>4, UnchangedInv DEF allVars
  <2> QED BY <1>4, <2>1 DEF allVars, screenVars
<1> QED BY <1>2, <1>3, <1>4, MainThreadType, WorkerType DEF ScreenNext

\* Every variable of the screen keeps its type, on both platforms; in particular
\* no queue of a worker outgrows its buffer (SearchFragment.kt:46-51).
THEOREM ScreenTypeCorrect == ScreenSpec => []ScreenTypeOK
<1>1. ScreenInv => ScreenTypeOK
  BY DEF ScreenInv
<1> QED BY <1>1, ScreenInitInv, ScreenNextInv, PTL DEF ScreenSpec

-----------------------------------------------------------------------------
(* The screen uses the controller as any application may. *)

LEMMA StepRefines ==
  ScreenInv /\ [ScreenNext]_allVars => [SearchNext]_searchVars
<1> SUFFICES ASSUME ScreenInv, [ScreenNext]_allVars
             PROVE  [SearchNext]_searchVars
  OBVIOUS
<1>1. ASSUME \/ Clear \/ (\E k \in Key : Type(k)) \/ Deliver
             \/ \E w \in Worker : Post(w)
      PROVE  UNCHANGED searchVars
  BY <1>1 DEF Clear, Type, Deliver, Post
<1>2. ASSUME Elapse \/ (\E k \in Key : TapRecent(k))
      PROVE  UNCHANGED searchVars \/ Crash
  BY <1>2 DEF Elapse, TapRecent, Enqueue, Crash, Visible
<1>3. CASE Leave
  BY <1>3 DEF Leave, SearchNext
<1>4. ASSUME NEW w \in Worker, TakeJob(w) PROVE SearchNext
  BY <1>4 DEF TakeJob, SearchNext
<1>5. ASSUME NEW w \in Worker, RunJob(w) PROVE SearchNext
  <2>1. job[w] \in Key /\ Search(w, job[w])
    BY <1>5 DEF RunJob, ScreenInv, ScreenTypeOK
  <2> QED BY <2>1 DEF SearchNext
<1>6. ASSUME NEW w \in Worker, Run(w) PROVE SearchNext
  BY <1>6 DEF Run, SearchNext
<1>7. CASE ScreenCrash \/ Reopen
  BY <1>7 DEF ScreenCrash, Reopen, SearchNext
<1>8. CASE UNCHANGED allVars
  BY <1>8 DEF allVars
<1> QED BY <1>1, <1>2, <1>3, <1>4, <1>5, <1>6, <1>7, <1>8
        DEF ScreenNext, WorkerStep, SearchNext

\* The screen implements the search controller: whatever its queues, its timer
\* and its taps do to the controller is an operation of it or nothing
\* (SearchDataController.kt:26-38, SearchDataController.swift:26-60).
THEOREM ScreenUsesController == ScreenSpec => SearchSpec
<1>1. ScreenInit => SearchInit
  BY DEF ScreenInit
<1> QED BY <1>1, ScreenInitInv, ScreenNextInv, StepRefines, PTL
        DEF ScreenSpec, SearchSpec

\* The contract holds on the search screen of either platform, with as many
\* workers as search at once and whenever the screen is left
\* (search_controller.cpp:29-108, SearchViewController.swift:96-180).
THEOREM ScreenContractKept == ScreenSpec => KeepsContract
BY ScreenUsesController, SearchContractKept
-----------------------------------------------------------------------------
(* Android: one worker *)

\* The empty text goes nowhere.
NoBlank ==
  /\ Blank \notin recents /\ Blank \notin {pending, last}
  /\ \A w \in Worker :
       /\ Blank \notin {job[w], key[w]}
       /\ \A i \in 1..Len(queue[w]) : queue[w][i] # Blank

\* What the one search under way finds is of its key, and nothing else is in the
\* list before it.
OneKey ==
  LET w == Typist IN
  /\ job[w] # NoKey => pc[w] = "idle" /\ items = <<>>
  /\ pc[w] \in {"insert", "begin", "transfer", "answered", "failed", "failing"}
       => items = <<>>
  /\ pc[w] = "transfer" => asked[w] = {key[w]}
  /\ pc[w] = "answered" => text[w] \in {key[w], NoPhotos, NoTotal}
  /\ pc[w] \in {"appended", "telling", "ending"} => items \in {<<>>, <<key[w]>>}
  /\ pc[w] \notin {"idle", "insert"} => key[w] \in recents
  /\ items = <<>> \/ \E k \in recents : items = <<k>>
  /\ list = <<>> \/ \E k \in Key : list = <<k>>
  /\ inbox = <<>> /\ posting = {}
  /\ ~alive => items = <<>> /\ recents = {} /\ pc[w] = "idle"

\* The text in the search bar waits or was the last to go to the queue; and the
\* last to go to the queue is the last to be searched for, and the one whose
\* results are shown, if any are, when it was.
LastGoes ==
  LET w == Typist IN
  Visible =>
    /\ observer
    /\ typed # Blank => pending = typed \/ (pending = NoKey /\ last = typed)
    /\ queue[w] # <<>> => queue[w][Len(queue[w])] = last
    /\ queue[w] = <<>> /\ job[w] # NoKey => job[w] = last
    /\ queue[w] = <<>> /\ job[w] = NoKey =>
         /\ pc[w] # "idle" => key[w] = last
         /\ pc[w] \in {"idle", "ending"} => list \in {<<>>, <<last>>}

AndroidInv == NoBlank /\ OneKey /\ LastGoes

LEMMA OneWorker == Platform = "Android" => Worker = {Typist}
BY ScreenAssumption

LEMMA AndroidInitInv ==
  ASSUME Platform = "Android", ScreenInit PROVE AndroidInv
<1>1. Blank \in Key /\ NoKey \notin Key
  BY ScreenAssumption, SearchAssumption
<1> QED BY <1>1, OneWorker
        DEF ScreenInit, SearchInit, Fresh, AndroidInv, NoBlank, OneKey, LastGoes

\* The death of the process, whatever else the step did to what was typed.
LEMMA AndroidDieInv ==
  ASSUME Platform = "Android", ScreenInv, AndroidInv, Die,
         UNCHANGED <<queue, job, inbox, list, posting>>, pending' \in {pending, NoKey},
         last' \in {last, pending}
  PROVE  AndroidInv'
<1>1. Blank \in Key /\ NoKey \notin Key
  BY ScreenAssumption, SearchAssumption
<1>2. NoBlank'
  BY <1>1, OneWorker DEF Die, AndroidInv, NoBlank
<1>3. OneKey' /\ LastGoes'
  BY OneWorker DEF Die, AndroidInv, OneKey, LastGoes, Visible
<1> QED BY <1>2, <1>3 DEF AndroidInv

LEMMA TypingInv ==
  ASSUME Platform = "Android", ScreenInv, AndroidInv,
         Clear \/ \E k \in Key : Type(k)
  PROVE  AndroidInv'
<1>1. CASE Clear
  BY <1>1 DEF Clear, delivery, searchVars, AndroidInv, NoBlank, OneKey, LastGoes, Visible
<1>2. ASSUME NEW k \in Key, Type(k) PROVE AndroidInv'
  <2>1. NoBlank' /\ OneKey'
    BY <1>2 DEF Type, delivery, searchVars, AndroidInv, NoBlank, OneKey
  <2>2. LastGoes'
    BY <1>2 DEF Type, searchVars, AndroidInv, LastGoes, Visible
  <2> QED BY <2>1, <2>2 DEF AndroidInv
<1> QED BY <1>1, <1>2

LEMMA ElapseInv ==
  ASSUME Platform = "Android", ScreenInv, AndroidInv, Elapse PROVE AndroidInv'
<1> DEFINE w == Typist
<1>1. Blank \in Key /\ NoKey \notin Key /\ w \in Worker /\ Worker = {w}
  BY ScreenAssumption, SearchAssumption
<1>2. queue \in [Worker -> Seq(Key)] /\ pending \in Key
  BY DEF ScreenInv, ScreenTypeOK, Elapse
<1>3. CASE pending = last
  BY <1>1, <1>3 DEF Elapse, delivery, searchVars, AndroidInv, NoBlank, OneKey, LastGoes, Visible
<1>4. CASE pending # last /\ Die /\ UNCHANGED queue
  BY <1>4, AndroidDieInv DEF Elapse, delivery
<1>5. CASE pending # last /\ queue' = [queue EXCEPT ![w] = Append(@, pending)]
           /\ UNCHANGED searchVars
  <2>1. queue'[w] = Append(queue[w], pending)
    BY <1>1, <1>2, <1>5
  <2>2. /\ Len(queue'[w]) = Len(queue[w]) + 1 /\ Len(queue[w]) \in Nat
        /\ queue'[w] # <<>> /\ queue'[w][Len(queue'[w])] = pending
        /\ \A i \in 1..Len(queue'[w]) :
             queue'[w][i] = pending \/ (i \in 1..Len(queue[w])
                                        /\ queue'[w][i] = queue[w][i])
    BY <1>1, <1>2, <2>1
  <2>3. NoBlank'
    BY <1>1, <1>5, <2>2 DEF Elapse, searchVars, AndroidInv, NoBlank
  <2>4. OneKey'
    BY <1>5 DEF Elapse, delivery, searchVars, AndroidInv, OneKey
  <2>5. LastGoes'
    BY <1>5, <2>2 DEF Elapse, searchVars, AndroidInv, LastGoes, Visible
  <2> QED BY <2>3, <2>4, <2>5 DEF AndroidInv
<1> QED BY <1>3, <1>4, <1>5 DEF Elapse, Enqueue

LEMMA LeaveInv ==
  ASSUME Platform = "Android", ScreenInv, AndroidInv, Leave PROVE AndroidInv'
<1>1. Blank \in Key /\ NoKey \notin Key /\ Typist \in Worker
  BY ScreenAssumption, SearchAssumption
<1>2. NoBlank'
  BY <1>1 DEF Leave, Unsubscribe, AndroidInv, NoBlank
<1>3. OneKey' /\ LastGoes'
  BY <1>1 DEF Leave, Unsubscribe, AndroidInv, OneKey, LastGoes, Visible
<1> QED BY <1>2, <1>3 DEF AndroidInv

LEMMA TakeJobInv ==
  ASSUME Platform = "Android", ScreenInv, AndroidInv, NEW w \in Worker, TakeJob(w)
  PROVE  AndroidInv'
<1>1. w = Typist /\ Worker = {w}
  BY OneWorker
<1>2. queue[w] \in Seq(Key) /\ queue[w] # <<>> /\ queue \in [Worker -> Seq(Key)]
      /\ job \in [Worker -> Key \cup {NoKey}]
  BY DEF TakeJob, ScreenInv, ScreenTypeOK
<1>3. items' = <<>>
  BY <1>1 DEF TakeJob, Reset, Others
<1>4. /\ queue'[w] = Tail(queue[w]) /\ job'[w] = Head(queue[w])
      /\ alive /\ pc[w] = "idle" /\ job[w] = NoKey
      /\ UNCHANGED <<alive, observer, recents, pc, key, asked, text, view, heard>>
      /\ UNCHANGED <<open, typed, pending, last, posting, inbox, list, rows, offered>>
  BY <1>2 DEF TakeJob, Reset, At, delivery
<1>5. /\ Head(queue[w]) = queue[w][1] /\ Len(queue[w]) \in Nat \ {0}
      /\ Len(Tail(queue[w])) = Len(queue[w]) - 1
      /\ \A i \in 1..Len(Tail(queue[w])) : Tail(queue[w])[i] = queue[w][i + 1]
      /\ Tail(queue[w]) = <<>> => Len(queue[w]) = 1
      /\ Tail(queue[w]) # <<>> =>
           Tail(queue[w])[Len(Tail(queue[w]))] = queue[w][Len(queue[w])]
  <2>1. Head(queue[w]) = queue[w][1] /\ Len(queue[w]) \in Nat \ {0}
    BY <1>2
  <2>2. /\ Len(Tail(queue[w])) = Len(queue[w]) - 1
        /\ \A i \in 1..Len(Tail(queue[w])) : Tail(queue[w])[i] = queue[w][i + 1]
    BY <1>2
  <2>3. Tail(queue[w]) \in Seq(Key)
    BY <1>2
  <2>4. Tail(queue[w]) = <<>> <=> Len(Tail(queue[w])) = 0
    BY <2>3, EmptySeq
  <2>5. Len(Tail(queue[w])) \in Nat
    BY <2>3
  <2>6. Tail(queue[w]) = <<>> => Len(queue[w]) = 1
    BY <2>1, <2>2, <2>4
  <2>7. Tail(queue[w]) # <<>> => Len(Tail(queue[w])) \in Nat \ {0}
    BY <2>4, <2>5
  <2>8. Tail(queue[w]) # <<>> =>
           Tail(queue[w])[Len(Tail(queue[w]))] = queue[w][Len(queue[w])]
    <3>1. SUFFICES ASSUME Tail(queue[w]) # <<>>
                   PROVE  Tail(queue[w])[Len(Tail(queue[w]))] = queue[w][Len(queue[w])]
      OBVIOUS
    <3>2. Len(Tail(queue[w])) \in 1..Len(Tail(queue[w]))
      BY <2>7, <3>1
    <3>3. Len(Tail(queue[w])) + 1 = Len(queue[w])
      BY <2>1, <2>2
    <3> QED BY <2>2, <3>2, <3>3
  <2> QED BY <2>1, <2>2, <2>6, <2>8
<1>6. NoBlank'
  <2>1. \A i \in 1..Len(queue[w]) : queue[w][i] # Blank
    BY DEF AndroidInv, NoBlank
  <2>2. job'[w] # Blank
    BY <1>4, <1>5, <2>1
  <2>3. \A i \in 1..Len(queue'[w]) : queue'[w][i] # Blank
    BY <1>4, <1>5, <2>1
  <2> QED BY <1>1, <1>4, <2>2, <2>3 DEF AndroidInv, NoBlank
<1>7. OneKey'
  BY <1>1, <1>3, <1>4 DEF AndroidInv, OneKey
<1>8. job'[w] # NoKey
  BY <1>2, <1>4, <1>5, SearchAssumption
<1>9. LastGoes'
  BY <1>1, <1>2, <1>4, <1>5, <1>8 DEF AndroidInv, LastGoes, Visible
<1> QED BY <1>6, <1>7, <1>9 DEF AndroidInv

LEMMA RunJobInv ==
  ASSUME Platform = "Android", ScreenInv, AndroidInv, NEW w \in Worker, RunJob(w)
  PROVE  AndroidInv'
<1>1. w = Typist /\ Worker = {w} /\ Blank # NoKey
  BY OneWorker, ScreenAssumption, SearchAssumption
<1>2. /\ job'[w] = NoKey /\ pc'[w] = "insert" /\ key'[w] = job[w]
      /\ job[w] # NoKey /\ pc[w] = "idle" /\ alive
      /\ UNCHANGED <<alive, observer, items, recents, asked, text, view, heard>>
      /\ UNCHANGED <<open, typed, pending, last, queue, posting, inbox, list, rows,
                     offered>>
  BY DEF RunJob, delivery, Search, At, Goto, ScreenInv, ScreenTypeOK, SearchTypeOK
<1>3. NoBlank'
  BY <1>1, <1>2 DEF AndroidInv, NoBlank
<1>4. OneKey' /\ LastGoes'
  BY <1>1, <1>2 DEF AndroidInv, OneKey, LastGoes, Visible
<1> QED BY <1>3, <1>4 DEF AndroidInv

\* The steps of the search under way.
LEMMA RunInv ==
  ASSUME Platform = "Android", ScreenInv, ContractInv, AndroidInv,
         NEW w \in Worker, Run(w)
  PROVE  AndroidInv'
<1>1. w = Typist /\ Worker = {w} /\ Blank # NoKey
      /\ {NoKey, NoPhotos, NoTotal} \cap Key = {}
  BY OneWorker, ScreenAssumption, SearchAssumption
<1>2. /\ pc \in [Worker -> Step]
      /\ heard \in [Worker -> {"quiet", "begun", "told"}]
      /\ key \in [Worker -> Key \cup {NoKey}]
      /\ text \in [Worker -> Answers]
      /\ asked \in [Worker -> SUBSET Key]
      /\ pc[w] # "idle" => key[w] \in Key
  BY DEF ScreenInv, ScreenTypeOK, SearchTypeOK, Keyed
<1>3. /\ Continue(w)
      /\ UNCHANGED <<open, typed, pending, last, queue, job, rows, offered>>
      /\ UNCHANGED <<inbox, posting>>
      /\ Told(w) /\ open => list' = view'.results
      /\ ~(Told(w) /\ open) => UNCHANGED list
  BY DEF Run, Hand
<1>4. \A v : Others(w, v) = {}
  BY <1>1 DEF Others
<1>5. /\ pc[w] \in {"transfer", "answered", "failed", "appended", "telling", "failing"}
           => heard[w] = "begun"
      /\ pc[w] = "ending" => heard[w] = "told"
  BY DEF ContractInv, Heard
<1>6. CASE Throw(w) \/ NullCall(w)
  <2>1. Die
    BY <1>6 DEF Throw, NullCall
  <2>2. ~Told(w)
    BY <2>1 DEF Die, Told
  <2> QED BY <1>3, <2>1, <2>2, AndroidDieInv
<1>7. CASE Remember(w)
  <2>1. /\ pc[w] = "insert" /\ pc'[w] = "begin" /\ recents' = recents \cup {key[w]}
        /\ UNCHANGED <<alive, observer, items, key, asked, text, view, heard>>
    BY <1>2, <1>4, <1>7 DEF Remember, At, Goto
  <2>2. ~Told(w)
    BY <2>1 DEF Told
  <2>3. NoBlank'
    BY <1>1, <1>3, <2>1 DEF AndroidInv, NoBlank
  <2>4. OneKey' /\ LastGoes'
    BY <1>1, <1>3, <2>1, <2>2 DEF AndroidInv, OneKey, LastGoes, Visible
  <2> QED BY <2>3, <2>4 DEF AndroidInv
<1>8. ASSUME pc[w] \in {"begin", "transfer"}, pc'[w] \in {"transfer", "answered", "failed"},
             UNCHANGED <<alive, observer, items, recents, key, view>>,
             ~Told(w),
             pc'[w] = "transfer" => asked'[w] = {key[w]},
             pc'[w] = "answered" => text'[w] \in {key[w], NoPhotos, NoTotal}
      PROVE  AndroidInv'
  <2>1. NoBlank'
    BY <1>1, <1>3, <1>8 DEF AndroidInv, NoBlank
  <2>2. OneKey'
    BY <1>1, <1>3, <1>8 DEF AndroidInv, OneKey
  <2>3. LastGoes'
    BY <1>1, <1>3, <1>8 DEF AndroidInv, OneKey, LastGoes, Visible
  <2> QED BY <2>1, <2>2, <2>3 DEF AndroidInv
<1>9. CASE BeginUpdate(w)
  <2>1. /\ pc[w] = "begin" /\ pc'[w] = "transfer" /\ heard'[w] = "begun"
        /\ UNCHANGED <<alive, observer, items, recents, key, text, view>>
    BY <1>2, <1>9 DEF BeginUpdate, At, Goto, Hear
  <2>2. asked'[w] = {key[w]}
    <3>1. asked'[w] = {key[w]} \cup UNION {asked[u] : u \in Others(w, {"transfer"})}
      BY <1>9 DEF BeginUpdate
    <3> QED BY <1>4, <3>1
  <2> QED BY <1>8, <2>1, <2>2 DEF Told
<1>10. CASE \E t \in Answers : Answer(w, t)
  <2>1. /\ pc[w] = "transfer" /\ pc'[w] = "answered"
        /\ text'[w] \in asked[w] \cup {NoPhotos, NoTotal}
        /\ UNCHANGED <<alive, observer, items, recents, key, view, heard>>
    BY <1>2, <1>10 DEF Answer, At, Goto
  <2>2. asked[w] = {key[w]}
    BY <1>1, <2>1 DEF AndroidInv, OneKey
  <2> QED BY <1>8, <2>1, <2>2 DEF Told
<1>11. CASE HttpFail(w)
  BY <1>2, <1>8, <1>11 DEF HttpFail, At, Goto, Told
<1>12. CASE Extend(w)
  <2>1. /\ pc[w] = "answered" /\ pc'[w] = "appended"
        /\ items' = IF text[w] \in Key THEN Append(items, text[w]) ELSE items
        /\ UNCHANGED <<alive, observer, recents, key, asked, text, view, heard>>
    BY <1>2, <1>4, <1>12 DEF Extend, At, Goto
  <2>2. items = <<>> /\ text[w] \in {key[w], NoPhotos, NoTotal} /\ key[w] \in recents
    BY <1>1, <2>1 DEF AndroidInv, OneKey
  <2>3. items' \in {<<>>, <<key[w]>>}
    BY <1>1, <2>1, <2>2
  <2>4. ~Told(w)
    BY <2>1 DEF Told
  <2>5. NoBlank'
    BY <1>3, <2>1 DEF AndroidInv, NoBlank
  <2>6. key[w] \in Key
    BY <1>2, <2>1
  <2>7. OneKey'
    <3>1. items' = <<>> \/ \E k \in Key : items' = <<k>> /\ k \in recents
      BY <2>2, <2>3, <2>6
    <3> QED BY <1>1, <1>3, <2>1, <2>2, <2>3, <2>4, <3>1 DEF AndroidInv, OneKey
  <2>8. LastGoes'
    BY <1>1, <1>3, <2>1, <2>2, <2>4 DEF AndroidInv, OneKey, LastGoes, Visible
  <2> QED BY <2>5, <2>7, <2>8 DEF AndroidInv
<1>13. CASE ShowAnswer(w) \/ ShowError(w)
  <2>1. /\ pc[w] \in {"telling", "failing"} /\ pc'[w] = "ending"
        /\ heard[w] = "begun" /\ heard'[w] = "told" /\ view'.results = items
        /\ UNCHANGED <<alive, observer, items, recents, key, asked, text>>
    BY <1>2, <1>5, <1>13 DEF ShowAnswer, ShowError, At, Goto, Show, Hear
  <2>2. items \in {<<>>, <<key[w]>>} /\ key[w] \in recents /\ job[w] = NoKey
    BY <1>1, <2>1 DEF AndroidInv, OneKey
  <2>3. open => list' = items
    BY <1>3, <2>1 DEF Told
  <2>4. NoBlank'
    BY <1>3, <2>1 DEF AndroidInv, NoBlank
  <2>5. list' = <<>> \/ \E k \in Key : list' = <<k>>
    <3>1. key[w] \in Key
      BY <1>2, <2>1
    <3>2. CASE open
      BY <2>2, <2>3, <3>1, <3>2
    <3>3. CASE ~open
      BY <1>3, <3>3 DEF AndroidInv, OneKey
    <3> QED BY <3>2, <3>3
  <2>6. OneKey'
    BY <1>1, <1>3, <2>1, <2>2, <2>5 DEF AndroidInv, OneKey
  <2>7. LastGoes'
    BY <1>1, <1>3, <2>1, <2>2, <2>3 DEF AndroidInv, LastGoes, Visible
  <2> QED BY <2>4, <2>6, <2>7 DEF AndroidInv
<1>14. CASE Succeed(w) \/ Fail(w)
  <2>1. /\ pc[w] \in {"failed", "appended"}
        /\ UNCHANGED <<alive, observer, items, recents, asked, view, heard>>
    BY <1>14 DEF Succeed, Fail, At
  <2>2. ~Told(w)
    BY <2>1 DEF Told
  <2>3. CASE observer
    <3>1. /\ pc[w] = "appended" => pc'[w] = "telling"
          /\ pc[w] = "failed" => pc'[w] = "failing"
          /\ UNCHANGED <<key, text>>
      BY <1>2, <1>14, <2>3 DEF Succeed, Fail, At, Goto
    <3>2. NoBlank'
      BY <1>3, <2>1, <3>1 DEF AndroidInv, NoBlank
    <3>3. OneKey'
      BY <1>1, <1>3, <2>1, <2>2, <3>1 DEF AndroidInv, OneKey
    <3>4. LastGoes'
      BY <1>1, <1>3, <2>1, <2>2, <3>1 DEF AndroidInv, LastGoes, Visible
    <3> QED BY <3>2, <3>3, <3>4 DEF AndroidInv
  <2>4. CASE ~observer
    <3>1. pc'[w] = "idle" /\ key' = [key EXCEPT ![w] = NoKey]
      BY <1>2, <1>14, <2>4 DEF Succeed, Fail, Return, Goto
    <3>2. ~Visible'
      BY <1>3, <2>1, <2>4 DEF AndroidInv, LastGoes, Visible
    <3>3. NoBlank'
      BY <1>1, <1>2, <1>3, <2>1, <3>1 DEF AndroidInv, NoBlank
    <3>4. OneKey' /\ LastGoes'
      BY <1>1, <1>3, <2>1, <2>2, <3>1, <3>2 DEF AndroidInv, OneKey, LastGoes
    <3> QED BY <3>3, <3>4 DEF AndroidInv
  <2> QED BY <2>3, <2>4
<1>15. CASE EndUpdate(w)
  <2>1. /\ pc[w] = "ending" /\ pc'[w] = "idle" /\ key' = [key EXCEPT ![w] = NoKey]
        /\ UNCHANGED <<alive, observer, items, recents, asked, view>>
        /\ heard'[w] = "quiet"
    BY <1>2, <1>15 DEF EndUpdate, At, Return, Goto, Hear
  <2>2. ~Told(w)
    BY <2>1 DEF Told
  <2>3. NoBlank'
    BY <1>1, <1>2, <1>3, <2>1 DEF AndroidInv, NoBlank
  <2>4. OneKey' /\ LastGoes'
    BY <1>1, <1>3, <2>1, <2>2 DEF AndroidInv, OneKey, LastGoes, Visible
  <2> QED BY <2>3, <2>4 DEF AndroidInv
<1> QED BY <1>3, <1>6, <1>7, <1>9, <1>10, <1>11, <1>12, <1>13, <1>14, <1>15
        DEF Continue

LEMMA ReopenInv ==
  ASSUME Platform = "Android", ScreenInv, AndroidInv, Reopen PROVE AndroidInv'
<1>1. Blank \in Key /\ NoKey \notin Key /\ Typist \in Worker
  BY ScreenAssumption, SearchAssumption
<1>2. NoBlank'
  BY <1>1 DEF Reopen, Launch, AndroidInv, NoBlank
<1>3. OneKey' /\ LastGoes'
  BY <1>1 DEF Reopen, Launch, AndroidInv, OneKey, LastGoes, Visible
<1> QED BY <1>2, <1>3 DEF AndroidInv

LEMMA AndroidNextInv ==
  ASSUME Platform = "Android"
  PROVE  ScreenInv /\ ContractInv /\ AndroidInv /\ [ScreenNext]_allVars => AndroidInv'
<1> SUFFICES ASSUME ScreenInv, ContractInv, AndroidInv, [ScreenNext]_allVars
             PROVE  AndroidInv'
  OBVIOUS
<1>1. ASSUME \/ Deliver \/ (\E k \in Key : TapRecent(k))
             \/ \E w \in Worker : Post(w)
      PROVE  FALSE
  BY <1>1 DEF Deliver, TapRecent, Post, AndroidInv, OneKey
<1>2. CASE ScreenCrash
  BY <1>2, AndroidDieInv DEF ScreenCrash, screenVars, Crash
<1>3. CASE UNCHANGED allVars
  BY <1>3 DEF allVars, searchVars, screenVars, AndroidInv, NoBlank, OneKey,
              LastGoes, Visible
<1> QED BY <1>1, <1>2, <1>3, TypingInv, ElapseInv, LeaveInv, TakeJobInv, RunJobInv,
           RunInv, ReopenInv
        DEF ScreenNext, WorkerStep

\* The invariant that the three theorems below rest on: the one worker is at one
\* search at a time, of a key that is remembered and was the last to leave the
\* queue (SearchDataController.kt:30-38).
THEOREM AndroidInvCorrect ==
  ASSUME Platform = "Android" PROVE ScreenSpec => []AndroidInv
<1>1. ScreenInit => AndroidInv
  BY AndroidInitInv
<1>2. ScreenSpec => []ScreenInv
  BY ScreenInitInv, ScreenNextInv, PTL DEF ScreenSpec
<1>3. SearchSpec => []ContractInv
  BY ContractInvInit, ContractInvNext, SearchInvCorrect, PTL DEF SearchSpec
<1> QED BY <1>1, <1>2, <1>3, AndroidNextInv, ScreenUsesController, PTL DEF ScreenSpec

\* When all is quiet on the Android screen, what is shown under a text was found
\* for that text, for any texts, any delay of the answers and any length of the
\* worker's queue (SearchFragment.kt:40-60, SearchDataController.kt:30-38).
THEOREM SettledOnTypedCorrect ==
  ASSUME Platform = "Android" PROVE ScreenSpec => []SettledOnTyped
<1>1. ScreenTypeOK /\ AndroidInv => SettledOnTyped
  <2> SUFFICES ASSUME ScreenTypeOK, AndroidInv, Quiet, typed # Blank
               PROVE  list \in {<<>>, <<typed>>}
    BY DEF SettledOnTyped
  <2>1. Visible /\ pending = NoKey /\ queue[Typist] = <<>> /\ job[Typist] = NoKey
        /\ pc[Typist] = "idle"
    BY ScreenAssumption DEF Quiet
  <2>2. list \in {<<>>, <<last>>}
    BY <2>1 DEF AndroidInv, LastGoes
  <2>3. typed # NoKey
    BY SearchAssumption DEF ScreenTypeOK
  <2>4. last = typed
    BY <2>1, <2>3 DEF AndroidInv, LastGoes
  <2> QED BY <2>2, <2>4
<1> QED BY <1>1, AndroidInvCorrect, ScreenTypeCorrect, PTL

\* With one worker the list never holds photos of two searches: reset and search
\* are two calls, and nothing comes between them (SearchDataController.kt:30-38).
THEOREM OneSearchCorrect ==
  ASSUME Platform = "Android" PROVE ScreenSpec => []OneSearch
<1>1. \A s : s = <<>> \/ (\E k : s = <<k>>) => Len(s) <= 1
  <2>1. Len(<<>>) = 0
    BY EmptySeq
  <2>2. \A k : Len(<<k>>) = 1
    OBVIOUS
  <2>3. 0 <= 1 /\ 1 <= 1
    OBVIOUS
  <2> QED BY <2>1, <2>2, <2>3, Zenon
<1>2. AndroidInv => OneSearch
  BY <1>1, Zenon DEF AndroidInv, OneKey, OneSearch
<1> QED BY <1>2, AndroidInvCorrect, PTL

\* The list never holds photos of a key that fetch_recents does not offer: reset
\* comes before each search, and the key goes into the set before its request
\* (search_controller.cpp:29-38, 93).
THEOREM RemembersWhatItFinds ==
  ASSUME Platform = "Android" PROVE ScreenSpec => []FoundIsRemembered
<1>1. AndroidInv => FoundIsRemembered
  <2> SUFFICES ASSUME AndroidInv, NEW i \in 1..Len(items)
               PROVE  items[i] \in recents
    BY DEF FoundIsRemembered
  <2>1. CASE items = <<>>
    BY <2>1
  <2>2. ASSUME NEW k \in recents, items = <<k>> PROVE items[i] \in recents
    <3>1. Len(items) = 1 /\ items[1] = k
      BY <2>2
    <3>2. i = 1
      BY <3>1
    <3> QED BY <3>1, <3>2
  <2> QED BY <2>1, <2>2 DEF AndroidInv, OneKey
<1> QED BY <1>1, AndroidInvCorrect, PTL
-----------------------------------------------------------------------------
(* What is shown once all is quiet, on either platform and with any workers. *)

\* The results that come last, on their way or in the list, are among the newest,
\* unless the list was emptied since or a worker has its own still to post.
LastShown ==
  /\ Platform = "Android" => inbox = <<>> /\ posting = {}
  /\ \A w \in posting : result[w] \in newest
  /\ Visible /\ posting = {} =>
       /\ inbox = <<>> => list \in {<<>>} \cup newest
       /\ inbox # <<>> => inbox[Len(inbox)] \in newest

LEMMA LastShownStart == ScreenInit => LastShown
BY DEF ScreenInit, LastShown

LEMMA LastShownRun ==
  ASSUME ScreenInv, LastShown, NEW w \in Worker, Run(w) PROVE LastShown'
<1>1. posting \subseteq Worker /\ result \in [Worker -> Seq(Key)]
  BY DEF ScreenInv, ScreenTypeOK
<1>2. Visible' => Visible
  BY DEF Run, Visible, Continue, Remember, BeginUpdate, Answer, HttpFail, Extend,
         Succeed, ShowAnswer, Throw, Fail, ShowError, EndUpdate, NullCall, Die, At
<1>3. CASE Told(w) /\ Platform = "Android"
  <2>1. /\ inbox' = <<>> /\ posting' = {} /\ view'.results \in newest'
        /\ open => list' = view'.results
    BY <1>3 DEF Run, Hand, LastShown
  <2> QED BY <1>2, <2>1 DEF LastShown, Visible
<1>4. CASE Told(w) /\ Platform # "Android"
  <2>1. /\ posting' = posting \cup {w} /\ result' = [result EXCEPT ![w] = view'.results]
        /\ newest' = {view'.results} \cup {result[v] : v \in posting}
    BY <1>4 DEF Run, Hand
  <2>2. \A v \in posting' : result'[v] \in newest'
    BY <1>1, <2>1
  <2> QED BY <1>4, <2>1, <2>2 DEF LastShown
<1>5. CASE ~Told(w)
  BY <1>2, <1>5 DEF Run, LastShown
<1> QED BY <1>3, <1>4, <1>5

LEMMA LastShownPost ==
  ASSUME ScreenInv, LastShown, NEW w \in Worker, Post(w) PROVE LastShown'
<1>1. inbox \in Seq(Seq(Key)) /\ result \in [Worker -> Seq(Key)]
  BY DEF ScreenInv, ScreenTypeOK
<1>2. Platform # "Android"
  BY DEF Post, LastShown
<1>3. \A v \in posting' : result'[v] \in newest'
  BY <1>1 DEF Post, LastShown
<1>4. ASSUME Visible' PROVE inbox' # <<>> /\ inbox'[Len(inbox')] \in newest'
  <2>1. inbox' = Append(inbox, result[w]) /\ result[w] \in newest /\ newest' = newest
    BY <1>4 DEF Post, Visible, LastShown
  <2> QED BY <1>1, <2>1
<1> QED BY <1>2, <1>3, <1>4 DEF LastShown

LEMMA LastShownDeliver ==
  ASSUME ScreenInv, LastShown, Deliver PROVE LastShown'
<1>1. inbox \in Seq(Seq(Key)) /\ inbox # <<>>
  BY DEF ScreenInv, ScreenTypeOK, Deliver
<1>2. Visible /\ (posting = {} => inbox[Len(inbox)] \in newest)
  BY DEF Deliver, LastShown
<1>3. /\ list' = inbox[1] /\ inbox' = Tail(inbox)
      /\ UNCHANGED <<posting, result, newest>>
  BY DEF Deliver
<1>4. /\ Len(inbox) \in Nat /\ Len(inbox) >= 1
      /\ inbox' \in Seq(Seq(Key)) /\ Len(inbox') = Len(inbox) - 1
      /\ \A i \in 1..Len(inbox') : inbox'[i] = inbox[i + 1]
  <2> DEFINE S == Seq(Key)
  <2>1. inbox \in Seq(S)
    BY <1>1
  <2> HIDE DEF S
  <2>2. /\ Len(inbox) \in Nat /\ Len(inbox) >= 1
        /\ inbox' \in Seq(S) /\ Len(inbox') = Len(inbox) - 1
        /\ \A i \in 1..Len(inbox') : inbox'[i] = inbox[i + 1]
    BY <1>1, <1>3, <2>1
  <2> QED BY <2>2 DEF S
<1>5. Platform # "Android"
  BY <1>1 DEF LastShown
<1>6. CASE Len(inbox) = 1
  <2>1. posting = {} => list' \in newest'
    BY <1>2, <1>3, <1>6
  <2>2. inbox' = <<>>
    BY <1>4, <1>6, EmptySeq
  <2> QED BY <1>3, <1>5, <2>1, <2>2 DEF LastShown
<1>7. CASE Len(inbox) # 1
  <2>1. Len(inbox) - 1 \in 1..Len(inbox')
    BY <1>4, <1>7
  <2>2. inbox'[Len(inbox')] = inbox[Len(inbox)]
    BY <1>4, <2>1
  <2>3. inbox' # <<>>
    BY <1>4, <2>1, EmptySeq
  <2> QED BY <1>2, <1>3, <1>5, <2>2, <2>3 DEF LastShown
<1> QED BY <1>6, <1>7

LEMMA LastShownNext ==
  ScreenInv /\ LastShown /\ [ScreenNext]_allVars => LastShown'
<1> SUFFICES ASSUME ScreenInv, LastShown, [ScreenNext]_allVars PROVE LastShown'
  OBVIOUS
<1> USE DEF delivery
<1>1. ASSUME Clear \/ \E k \in Key : Type(k) PROVE LastShown'
  BY <1>1 DEF Clear, Type, searchVars, LastShown, Visible
<1>2. ASSUME NEW w \in Worker, NEW k, Enqueue(w, k), UNCHANGED <<delivery, list, open>>
      PROVE  LastShown'
  BY <1>2 DEF Enqueue, Die, searchVars, LastShown, Visible
<1>3. CASE Elapse
  <2>1. CASE UNCHANGED searchVars
    BY <1>3, <2>1 DEF Elapse, searchVars, LastShown, Visible
  <2> QED BY <1>2, <1>3, <2>1, ScreenAssumption DEF Elapse
<1>4. ASSUME NEW k \in Key, TapRecent(k) PROVE LastShown'
  BY <1>2, <1>4, ScreenAssumption DEF TapRecent
<1>5. CASE Leave
  BY <1>5 DEF Leave, LastShown, Visible
<1>6. ASSUME NEW w \in Worker, TakeJob(w) \/ RunJob(w) PROVE LastShown'
  BY <1>6 DEF TakeJob, RunJob, Reset, Search, LastShown, Visible
<1>7. CASE ScreenCrash
  BY <1>7 DEF ScreenCrash, screenVars, Crash, Die, LastShown, Visible
<1>8. CASE Reopen
  BY <1>8 DEF Reopen, Launch, LastShown
<1>9. CASE UNCHANGED allVars
  BY <1>9 DEF allVars, searchVars, screenVars, LastShown, Visible
<1> QED BY <1>1, <1>3, <1>4, <1>5, <1>6, <1>7, <1>8, <1>9, LastShownRun,
           LastShownPost, LastShownDeliver
        DEF ScreenNext, WorkerStep

\* Once all is quiet the screen shows the nothing that a change of the text left,
\* or results that were newest when they were told: those told last, or those of a
\* worker that had not posted its own when the last were told, on either platform
\* and with any number of searches overlapping (SearchDataController.kt:56-58,
\* SearchDataController.swift:92-94).
THEOREM ShowsTheLastCorrect == ScreenSpec => []ShowsTheLast
<1>1. ScreenSpec => []ScreenInv
  BY ScreenInitInv, ScreenNextInv, PTL DEF ScreenSpec
<1>2. ScreenSpec => []LastShown
  BY <1>1, LastShownStart, LastShownNext, PTL DEF ScreenSpec
<1>3. LastShown => ShowsTheLast
  BY DEF LastShown, ShowsTheLast, Quiet
<1> QED BY <1>2, <1>3, PTL
=============================================================================
