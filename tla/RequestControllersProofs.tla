------------------------ MODULE RequestControllersProofs ------------------------
(***************************************************************************)
(* Type correctness of the controllers of the photo screen and of the map, *)
(* and their refinement of the observer contract.  The contract is that of *)
(* the controllers whose on_failure calls back: a map controller asked     *)
(* again after a failure would tell a second begin (MapScreenProofs shows  *)
(* that the map screen does not ask again).                                *)
(***************************************************************************)
EXTENDS RequestControllers, TLAPS

LEMMA InitType == RequestInit => RequestTypeOK
<1> SUFFICES ASSUME RequestInit PROVE RequestTypeOK
  OBVIOUS
<1>1. view \in [Controller -> ViewData \cup {NoView}]
  BY DEF RequestInit
<1> QED BY <1>1 DEF RequestInit, RequestTypeOK, Step, Text

LEMMA DieType == Die => RequestTypeOK'
<1> SUFFICES ASSUME Die PROVE RequestTypeOK'
  OBVIOUS
<1>1. view' \in [Controller -> ViewData \cup {NoView}]
  BY DEF Die
<1> QED BY <1>1 DEF Die, RequestTypeOK, Step, Text

LEMMA ShowType ==
  ASSUME RequestTypeOK, NEW c \in Controller, NEW data \in ViewData, Show(c, data)
  PROVE  /\ view' \in [Controller -> ViewData \cup {NoView}]
         /\ heard' \in [Controller -> {"quiet", "begun", "told"}]
BY DEF Show, Hear, RequestTypeOK

LEMMA ShowAnswerType ==
  ASSUME RequestTypeOK, NEW c \in Controller, ShowAnswer(c) PROVE RequestTypeOK'
<1>1. [error |-> FALSE,
       content |-> IF text[c] = "hollow" THEN "hollow" ELSE "full"] \in ViewData
  BY DEF ViewData
<1>2. /\ view' \in [Controller -> ViewData \cup {NoView}]
      /\ heard' \in [Controller -> {"quiet", "begun", "told"}]
  BY <1>1, ShowType DEF ShowAnswer
<1> QED BY <1>2 DEF ShowAnswer, Goto, Step, RequestTypeOK

LEMMA ShowErrorType ==
  ASSUME RequestTypeOK, NEW c \in Controller, ShowError(c) PROVE RequestTypeOK'
<1>1. [error |-> TRUE, content |-> "hollow"] \in ViewData
  BY DEF ViewData
<1>2. /\ view' \in [Controller -> ViewData \cup {NoView}]
      /\ heard' \in [Controller -> {"quiet", "begun", "told"}]
  BY <1>1, ShowType DEF ShowError
<1> QED BY <1>2 DEF ShowError, Goto, Step, RequestTypeOK

LEMMA ContinueType ==
  ASSUME RequestTypeOK, NEW c \in Controller, Continue(c) PROVE RequestTypeOK'
<1>1. CASE BeginUpdate(c) \/ HttpFail(c) \/ EndUpdate(c)
  BY <1>1 DEF BeginUpdate, HttpFail, EndUpdate, Goto, Hear, Step, RequestTypeOK
<1>2. CASE \E t \in Text : Answer(c, t)
  BY <1>2 DEF Answer, Goto, Step, RequestTypeOK
<1>3. CASE Succeed(c) \/ Fail(c)
  BY <1>3 DEF Succeed, Fail, Goto, Step, RequestTypeOK
<1> QED BY <1>1, <1>2, <1>3, ShowAnswerType, ShowErrorType, DieType
        DEF Continue, Throw, NullCall

LEMMA NextType == RequestTypeOK /\ [RequestNext]_requestVars => RequestTypeOK'
<1> SUFFICES ASSUME RequestTypeOK, [RequestNext]_requestVars PROVE RequestTypeOK'
  OBVIOUS
<1>1. ASSUME NEW c \in Controller, Request(c) PROVE RequestTypeOK'
  BY <1>1 DEF Request, Goto, Step, RequestTypeOK
<1>2. ASSUME NEW c \in Controller, Unsubscribe(c) PROVE RequestTypeOK'
  BY <1>2 DEF Unsubscribe, RequestTypeOK
<1>3. CASE Launch
  BY <1>3 DEF Launch, RequestTypeOK
<1>4. CASE UNCHANGED requestVars
  BY <1>4 DEF requestVars, RequestTypeOK
<1> QED BY <1>1, <1>2, <1>3, <1>4, ContinueType, DieType DEF RequestNext, Crash

\* What the screens are told is made of what was parsed, for any controllers.
THEOREM RequestTypeCorrect == RequestSpec => []RequestTypeOK
BY InitType, NextType, PTL DEF RequestSpec
-----------------------------------------------------------------------------
(* The observer contract *)

\* What the observer has heard of a request under way, as far as the point it is
\* at tells.
HeardSoFar(c) ==
  /\ pc[c] = "begin" => heard[c] = "quiet" \/ ~observer[c]
  /\ pc[c] \in {"transfer", "answered", "failed", "telling", "failing"}
       => heard[c] = "begun"
  /\ pc[c] = "ending" => heard[c] = "told"

\* The same, and the end of the request before if none is under way: true of the
\* controllers whose on_failure calls back.
Heard(c) ==
  /\ pc[c] = "idle" => heard[c] = "quiet" \/ ~observer[c]
  /\ HeardSoFar(c)

\* A process that is not running has told nobody anything.
DeadSilence ==
  ~alive => /\ ~observer[Watched]
            /\ \A c \in Controller : heard[c] = "quiet"
            /\ view[Watched] = NoView

ContractInv ==
  /\ \A c \in Controller \ Silent : Heard(c)
  /\ DeadSilence

LEMMA ContractInvInit == RequestInit => ContractInv
BY RequestAssumption DEF RequestInit, ContractInv, DeadSilence, Heard, HeardSoFar

LEMMA ContractInvDie == Die => ContractInv'
BY RequestAssumption DEF Die, ContractInv, DeadSilence, Heard, HeardSoFar

LEMMA ContractInvNext ==
  RequestTypeOK /\ ContractInv /\ [RequestNext]_requestVars => ContractInv'
<1> SUFFICES ASSUME RequestTypeOK, ContractInv, [RequestNext]_requestVars
             PROVE  ContractInv'
  OBVIOUS
<1>1. /\ pc \in [Controller -> Step]
      /\ heard \in [Controller -> {"quiet", "begun", "told"}]
      /\ observer \in [Controller -> BOOLEAN]
      /\ view \in [Controller -> ViewData \cup {NoView}]
      /\ Watched \in Controller
  BY RequestAssumption DEF RequestTypeOK
<1> USE <1>1 DEF ContractInv, DeadSilence, Heard, HeardSoFar, At, Goto, Hear, Show
<1>2. ASSUME NEW c \in Controller, Request(c) PROVE ContractInv'
  BY <1>2 DEF Request
<1>3. ASSUME NEW c \in Controller, Unsubscribe(c) PROVE ContractInv'
  BY <1>3 DEF Unsubscribe
<1>4. ASSUME NEW c \in Controller, BeginUpdate(c) PROVE ContractInv'
  BY <1>4 DEF BeginUpdate
<1>5. ASSUME NEW c \in Controller, NEW t \in Text, Answer(c, t) PROVE ContractInv'
  BY <1>5 DEF Answer
<1>6. ASSUME NEW c \in Controller, HttpFail(c) PROVE ContractInv'
  BY <1>6 DEF HttpFail
<1>7. ASSUME NEW c \in Controller, Succeed(c) PROVE ContractInv'
  BY <1>7 DEF Succeed
<1>8. ASSUME NEW c \in Controller, Fail(c) PROVE ContractInv'
  BY <1>8 DEF Fail
<1>9. ASSUME NEW c \in Controller, ShowAnswer(c) PROVE ContractInv'
  BY <1>9 DEF ShowAnswer
<1>10. ASSUME NEW c \in Controller, ShowError(c) PROVE ContractInv'
  BY <1>10 DEF ShowError
<1>11. ASSUME NEW c \in Controller, EndUpdate(c) PROVE ContractInv'
  BY <1>11 DEF EndUpdate
<1>12. ASSUME NEW c \in Controller, Throw(c) \/ NullCall(c) PROVE ContractInv'
  BY <1>12, ContractInvDie DEF Throw, NullCall
<1>13. CASE Crash
  BY <1>13, ContractInvDie DEF Crash
<1>14. CASE Launch
  BY <1>14 DEF Launch
<1>15. CASE UNCHANGED requestVars
  BY <1>15 DEF requestVars
<1> QED BY <1>2, <1>3, <1>4, <1>5, <1>6, <1>7, <1>8, <1>9, <1>10, <1>11, <1>12,
           <1>13, <1>14, <1>15
        DEF RequestNext, Continue

LEMMA ContractStart == RequestInit => Contract!ContractInit
<1> SUFFICES ASSUME RequestInit PROVE Contract!ContractInit
  OBVIOUS
<1>1. [c \in {Watched} |-> heard[c]] = [c \in {Watched} |-> "quiet"]
  BY RequestAssumption DEF RequestInit
<1> QED BY <1>1, RequestAssumption
        DEF RequestInit, Contract!ContractInit, Contract!Silence

\* A callback to the observer watched is a step of the contract, another
\* controller's is none.
LEMMA ContractStep ==
  RequestTypeOK /\ HeardSoFar(Watched) /\ DeadSilence /\ RequestTypeOK'
    /\ [RequestNext]_requestVars
    => [Contract!ContractNext]_(Contract!contractVars)
<1> SUFFICES ASSUME RequestTypeOK, HeardSoFar(Watched), DeadSilence,
                    RequestTypeOK', [RequestNext]_requestVars
             PROVE  [Contract!ContractNext]_(Contract!contractVars)
  OBVIOUS
<1> DEFINE phase == [c \in {Watched} |-> heard[c]]
<1>1. /\ heard \in [Controller -> {"quiet", "begun", "told"}]
      /\ observer \in [Controller -> BOOLEAN]
      /\ view \in [Controller -> ViewData \cup {NoView}]
      /\ Watched \in Controller
  BY RequestAssumption DEF RequestTypeOK
<1>2. ASSUME observer'[Watched] = observer[Watched],
             heard'[Watched] = heard[Watched], view'[Watched] = view[Watched]
      PROVE  UNCHANGED Contract!contractVars
  BY <1>2 DEF Contract!contractVars
<1>3. ASSUME NEW c \in Controller, Unsubscribe(c)
      PROVE  [Contract!ContractNext]_(Contract!contractVars)
  <2>1. CASE c = Watched
    <3>1. Contract!Detach
      BY <1>1, <1>3, <2>1 DEF Unsubscribe, Contract!Detach
    <3> QED BY <3>1 DEF Contract!ContractNext
  <2>2. CASE c # Watched
    BY <1>1, <1>2, <1>3, <2>2 DEF Unsubscribe
  <2> QED BY <2>1, <2>2
<1>4. ASSUME NEW c \in Controller, BeginUpdate(c)
      PROVE  [Contract!ContractNext]_(Contract!contractVars)
  <2>1. CASE c = Watched
    <3>1. Contract!Begin(Watched)
      BY <1>1, <1>4, <2>1
      DEF BeginUpdate, Hear, At, HeardSoFar, Contract!Begin
    <3> QED BY <3>1 DEF Contract!ContractNext
  <2>2. CASE c # Watched
    BY <1>1, <1>2, <1>4, <2>2 DEF BeginUpdate, Hear
  <2> QED BY <2>1, <2>2
<1>5. ASSUME NEW c \in Controller, NEW data \in ViewData, Show(c, data),
             observer[c], observer' = observer, heard[c] = "begun"
      PROVE  [Contract!ContractNext]_(Contract!contractVars)
  <2>1. CASE c = Watched
    <3>1. Contract!Tell(Watched)
      BY <1>1, <1>5, <2>1 DEF Show, Hear, Contract!Tell
    <3> QED BY <3>1 DEF Contract!ContractNext
  <2>2. CASE c # Watched
    BY <1>1, <1>2, <1>5, <2>2 DEF Show, Hear
  <2> QED BY <2>1, <2>2
<1>6. ASSUME NEW c \in Controller, ShowAnswer(c)
      PROVE  [Contract!ContractNext]_(Contract!contractVars)
  <2>1. [error |-> FALSE,
         content |-> IF text[c] = "hollow" THEN "hollow" ELSE "full"] \in ViewData
    BY DEF ViewData
  <2>2. CASE c = Watched
    BY <1>5, <1>6, <2>1, <2>2 DEF ShowAnswer, At, HeardSoFar
  <2>3. CASE c # Watched
    BY <1>1, <1>2, <1>6, <2>3 DEF ShowAnswer, Show, Hear
  <2> QED BY <2>2, <2>3
<1>7. ASSUME NEW c \in Controller, ShowError(c)
      PROVE  [Contract!ContractNext]_(Contract!contractVars)
  <2>1. [error |-> TRUE, content |-> "hollow"] \in ViewData
    BY DEF ViewData
  <2>2. CASE c = Watched
    BY <1>5, <1>7, <2>1, <2>2 DEF ShowError, At, HeardSoFar
  <2>3. CASE c # Watched
    BY <1>1, <1>2, <1>7, <2>3 DEF ShowError, Show, Hear
  <2> QED BY <2>2, <2>3
<1>8. ASSUME NEW c \in Controller, EndUpdate(c)
      PROVE  [Contract!ContractNext]_(Contract!contractVars)
  <2>1. CASE c = Watched
    <3>1. Contract!End(Watched)
      BY <1>1, <1>8, <2>1
      DEF EndUpdate, Hear, At, HeardSoFar, Contract!End
    <3> QED BY <3>1 DEF Contract!ContractNext
  <2>2. CASE c # Watched
    BY <1>1, <1>2, <1>8, <2>2 DEF EndUpdate, Hear
  <2> QED BY <2>1, <2>2
<1>9. ASSUME Die PROVE [Contract!ContractNext]_(Contract!contractVars)
  <2>1. Contract!Stop
    BY <1>1, <1>9 DEF Die, Contract!Stop, Contract!Silence
  <2> QED BY <2>1 DEF Contract!ContractNext
<1>10. CASE Launch
  <2>1. Contract!Attach
    BY <1>1, <1>10 DEF Launch, DeadSilence, Contract!Attach, Contract!Silence
  <2> QED BY <2>1 DEF Contract!ContractNext
<1>11. ASSUME NEW c \in Controller,
              \/ Request(c) \/ HttpFail(c) \/ (\E t \in Text : Answer(c, t))
              \/ Succeed(c) \/ Fail(c)
       PROVE  UNCHANGED Contract!contractVars
  BY <1>2, <1>11 DEF Request, HttpFail, Answer, Succeed, Fail
<1>12. CASE UNCHANGED requestVars
  BY <1>2, <1>12 DEF requestVars
<1> QED BY <1>3, <1>4, <1>6, <1>7, <1>8, <1>9, <1>10, <1>11, <1>12
        DEF RequestNext, Continue, Throw, NullCall, Crash

\* Each of any number of controllers tells its observer begin, an update and end
\* of each request, and nothing once it has unsubscribed, whatever the others
\* do (photo_detail_controller.cpp:26-89, photo_comment_controller.cpp:26-80).
THEOREM RequestContractKept ==
  ASSUME Watched \notin Silent PROVE RequestSpec => KeepsContract
<1>1. RequestSpec => []ContractInv
  BY ContractInvInit, ContractInvNext, RequestTypeCorrect, PTL DEF RequestSpec
<1>2. ContractInv => HeardSoFar(Watched) /\ DeadSilence
  BY RequestAssumption DEF ContractInv, Heard
<1> QED
  BY <1>1, <1>2, ContractStart, ContractStep, RequestTypeCorrect, PTL
  DEF RequestSpec, KeepsContract, Contract!ContractSpec
=============================================================================
