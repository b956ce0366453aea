----------------------------- MODULE MapScreenProofs -----------------------------
(***************************************************************************)
(* The map screen asks its controller once, so the silence of that         *)
(* controller after a failure breaks no promise; and what it lists is what *)
(* was told.                                                               *)
(***************************************************************************)
EXTENDS MapScreen, RequestControllersProofs

\* The one request: nothing was told before it, and what was told once stays.
AskedOnce ==
  LET c == "map" IN
  /\ ~asked \/ ~alive => pc[c] = "idle" /\ heard[c] = "quiet" /\ view[c] = NoView
  /\ pc[c] \in {"begin", "transfer", "answered", "failed", "telling", "failing"}
       => view[c] = NoView
  /\ pc[c] # "failing"
  /\ bound => pc[c] = "idle" /\ asked
  /\ HeardSoFar(c)
  /\ DeadSilence

\* The view model is empty or has what was told, the list is empty or has what the
\* view model has, and neither is filled before the screen is bound.
ListTold ==
  alive => /\ model \in {"nothing", view["map"].content}
           /\ list \in {"nothing", model}
           /\ model # "nothing" => bound

MapInv == MapTypeOK /\ AskedOnce /\ ListTold

LEMMA MapFacts == "map" \in Controller /\ Watched = "map" /\ "map" \in Silent
BY MapAssumption, RequestAssumption

-----------------------------------------------------------------------------
(* The screen uses the controller as any application may. *)

LEMMA StepRefines == [MapNext]_mapVars => [RequestNext]_requestVars
<1> SUFFICES ASSUME [MapNext]_mapVars PROVE [RequestNext]_requestVars
  OBVIOUS
<1>1. CASE Ask \/ Run \/ Leave
  BY <1>1, MapFacts DEF Ask, Run, Leave, RequestNext
<1>2. CASE Bind \/ AddMarkers \/ Load \/ MapReady \/ TapItem
  BY <1>2 DEF Bind, AddMarkers, Load, MapReady, TapItem
<1>3. CASE CameraThere
  BY <1>3 DEF CameraThere, Visible, RequestNext, Crash
<1>4. CASE MapCrash \/ Reopen
  BY <1>4 DEF MapCrash, Reopen, RequestNext
<1>5. CASE UNCHANGED mapVars
  BY <1>5 DEF mapVars
<1> QED BY <1>1, <1>2, <1>3, <1>4, <1>5 DEF MapNext, Worker, MainThread

-----------------------------------------------------------------------------
(* The invariant *)

LEMMA MapInitInv == MapInit => MapInv
<1> SUFFICES ASSUME MapInit PROVE MapInv
  OBVIOUS
<1>1. MapTypeOK
  BY InitType DEF MapInit, Opened, MapTypeOK, Content
<1>2. AskedOnce
  BY MapFacts DEF MapInit, Opened, RequestInit, AskedOnce, HeardSoFar, DeadSilence
<1>3. ListTold
  BY DEF MapInit, Opened, ListTold
<1> QED BY <1>1, <1>2, <1>3 DEF MapInv

\* The end of the process, wherever the screen is left.
LEMMA DieInv ==
  ASSUME MapInv, Die, alive,
         UNCHANGED <<platform, open, asked, ready, bound, model, list, markers>>,
         moving' \in {moving, FALSE}
  PROVE  MapInv'
<1>1. MapTypeOK'
  BY DieType DEF MapInv, MapTypeOK
<1>2. AskedOnce'
  BY MapFacts DEF MapInv, Die, AskedOnce, HeardSoFar, DeadSilence
<1>3. ListTold'
  BY DEF MapInv, Die, ListTold
<1> QED BY <1>1, <1>2, <1>3 DEF MapInv

LEMMA AskInv == ASSUME MapInv, Ask, UNCHANGED platform PROVE MapInv'
<1> USE MapFacts DEF MapInv
<1>1. pc \in [Controller -> Step]
  BY DEF MapTypeOK, RequestTypeOK
<1>2. MapTypeOK'
  BY DEF Ask, Request, Goto, Step, MapTypeOK, RequestTypeOK
<1>3. AskedOnce'
  BY <1>1 DEF Ask, Request, At, Goto, AskedOnce, HeardSoFar, DeadSilence
<1>4. ListTold'
  BY DEF Ask, Request, ListTold
<1> QED BY <1>2, <1>3, <1>4

\* A step of the request: nothing is bound before it is over.
LEMMA RunInv == ASSUME MapInv, Run, UNCHANGED platform PROVE MapInv'
<1> USE MapFacts DEF MapInv
<1>1. /\ pc \in [Controller -> Step]
      /\ view \in [Controller -> ViewData \cup {NoView}]
      /\ heard \in [Controller -> {"quiet", "begun", "told"}]
  BY DEF MapTypeOK, RequestTypeOK
<1>2. CASE Throw("map") \/ NullCall("map")
  BY <1>2, DieInv DEF Run, screenVars, Throw, NullCall, At
<1>3. CASE ~(Throw("map") \/ NullCall("map"))
  <2>1. UNCHANGED <<open, asked, ready, bound, model, list, markers, moving>>
    BY DEF Run, screenVars
  <2>2. MapTypeOK'
    BY <2>1, ContinueType DEF Run, MapTypeOK
  <2>3. /\ alive /\ alive' /\ pc["map"] # "idle" /\ observer' = observer
        /\ \/ BeginUpdate("map") \/ (\E t \in Text : Answer("map", t))
           \/ HttpFail("map") \/ Succeed("map") \/ ShowAnswer("map")
           \/ Fail("map") \/ EndUpdate("map")
    <3>1. ~ShowError("map")
      BY DEF ShowError, At, AskedOnce
    <3> QED
      BY <1>3, <3>1 DEF Run, Continue, BeginUpdate, Answer, HttpFail, Succeed,
                        ShowAnswer, Fail, EndUpdate, At
  <2>4. ~bound /\ asked
    BY <2>3 DEF AskedOnce
  <2>5. AskedOnce'
    <3>1. pc'["map"] \in {"begin", "transfer", "answered", "failed", "telling"}
            => view'["map"] = NoView
      BY <1>1, <2>3 DEF AskedOnce, BeginUpdate, Answer, HttpFail, Succeed,
                        ShowAnswer, Fail, EndUpdate, At, Goto
    <3>2. HeardSoFar("map")'
      BY <1>1, <2>3 DEF AskedOnce, HeardSoFar, BeginUpdate, Answer, HttpFail,
                        Succeed, ShowAnswer, Fail, EndUpdate, At, Goto, Hear, Show
    <3>3. pc'["map"] # "failing"
      BY <1>1, <2>3 DEF AskedOnce, BeginUpdate, Answer, HttpFail, Succeed,
                        ShowAnswer, Fail, EndUpdate, At, Goto
    <3> QED BY <2>1, <2>3, <2>4, <3>1, <3>2, <3>3 DEF AskedOnce, DeadSilence
  <2>6. ListTold'
    BY <2>1, <2>3, <2>4 DEF ListTold
  <2> QED BY <2>2, <2>5, <2>6
<1> QED BY <1>2, <1>3

\* A step of the screen after the request, or of the map library.
LEMMA ScreenInv ==
  ASSUME MapInv, Bind \/ AddMarkers \/ Load \/ MapReady \/ TapItem,
         UNCHANGED platform
  PROVE  MapInv'
<1> USE MapFacts DEF MapInv
<1>1. UNCHANGED requestVars /\ UNCHANGED <<open, asked>> /\ alive /\ alive'
  BY DEF Bind, AddMarkers, Load, MapReady, TapItem, Visible, requestVars
<1>2. view["map"] \in ViewData \cup {NoView}
  BY DEF MapTypeOK, RequestTypeOK
<1>3. RequestTypeOK'
  BY <1>1 DEF MapTypeOK, RequestTypeOK, requestVars
<1>4. /\ {model', list', markers'} \subseteq Content
      /\ {ready', bound', moving'} \subseteq BOOLEAN
  BY <1>2 DEF Bind, AddMarkers, Load, MapReady, TapItem, MapTypeOK, Content, ViewData
<1>5. MapTypeOK'
  BY <1>1, <1>3, <1>4 DEF MapTypeOK
<1>6. AskedOnce'
  BY <1>1 DEF Bind, AddMarkers, Load, MapReady, TapItem, AskedOnce, HeardSoFar,
              DeadSilence, requestVars
<1>7. ListTold'
  <2>1. CASE AddMarkers
    <3>1. list = "nothing"
      BY <1>1, <2>1 DEF AddMarkers, ListTold
    <3> QED BY <1>1, <2>1, <3>1 DEF AddMarkers, ListTold, requestVars
  <2>2. CASE Bind \/ Load \/ MapReady \/ TapItem
    BY <1>1, <2>2 DEF Bind, Load, MapReady, TapItem, ListTold, requestVars
  <2> QED BY <2>1, <2>2
<1> QED BY <1>5, <1>6, <1>7

LEMMA CameraThereInv ==
  ASSUME MapInv, CameraThere, UNCHANGED platform PROVE MapInv'
<1>1. CASE Die
  BY <1>1, DieInv DEF CameraThere, Visible
<1>2. CASE UNCHANGED requestVars
  BY <1>2 DEF CameraThere, requestVars, MapInv, MapTypeOK, RequestTypeOK, AskedOnce,
              HeardSoFar, DeadSilence, ListTold
<1> QED BY <1>1, <1>2 DEF CameraThere

LEMMA LeaveInv == ASSUME MapInv, Leave, UNCHANGED platform PROVE MapInv'
<1> USE MapFacts DEF MapInv
<1>1. MapTypeOK'
  BY DEF Leave, Unsubscribe, MapTypeOK, RequestTypeOK
<1>2. AskedOnce'
  BY DEF Leave, Unsubscribe, MapTypeOK, RequestTypeOK, AskedOnce, HeardSoFar,
         DeadSilence
<1>3. ListTold'
  BY DEF Leave, Unsubscribe, ListTold
<1> QED BY <1>1, <1>2, <1>3

LEMMA ReopenInv == ASSUME MapInv, Reopen, UNCHANGED platform PROVE MapInv'
<1> USE MapFacts DEF MapInv
<1>1. MapTypeOK'
  BY DEF Reopen, Launch, MapTypeOK, RequestTypeOK, Content
<1>2. AskedOnce'
  BY DEF Reopen, Launch, AskedOnce, HeardSoFar, DeadSilence
<1>3. ListTold'
  BY DEF Reopen, ListTold
<1> QED BY <1>1, <1>2, <1>3

LEMMA MapNextInv == MapInv /\ [MapNext]_mapVars => MapInv'
<1> SUFFICES ASSUME MapInv, [MapNext]_mapVars PROVE MapInv'
  OBVIOUS
<1>1. CASE UNCHANGED mapVars
  BY <1>1 DEF mapVars, requestVars, MapInv, MapTypeOK, RequestTypeOK, AskedOnce,
              HeardSoFar, DeadSilence, ListTold
<1>2. CASE MapCrash /\ UNCHANGED platform
  BY <1>2, DieInv DEF MapCrash, Crash, screenVars
<1> QED BY <1>1, <1>2, AskInv, RunInv, ScreenInv, CameraThereInv, LeaveInv,
           ReopenInv
        DEF MapNext, Worker, MainThread

\* The invariant that the next theorems rest on: the screen asks once, is bound
\* when the request is over, and lists what was told then
\* (MapFragment.kt, MapViewController.swift).
THEOREM MapInvCorrect == MapSpec => []MapInv
BY MapInitInv, MapNextInv, PTL DEF MapSpec

\* Every variable of the screen keeps its type.
THEOREM MapTypeCorrect == MapSpec => []MapTypeOK
<1>1. MapInv => MapTypeOK
  BY DEF MapInv
<1> QED BY <1>1, MapInvCorrect, PTL

\* The observer of the map controller hears begin, an update and end, or nothing
\* more after a failure, which the contract allows because the screen never asks
\* the same controller again (map_controller.cpp:26-57).
THEOREM MapContractKept == MapSpec => KeepsContract
<1>1. MapInit => Contract!ContractInit
  BY ContractStart DEF MapInit
<1>2. MapInv /\ MapInv' /\ [MapNext]_mapVars
        => [Contract!ContractNext]_(Contract!contractVars)
  BY StepRefines, ContractStep, MapFacts DEF MapInv, MapTypeOK, AskedOnce
<1> QED
  BY <1>1, <1>2, MapInvCorrect, PTL DEF MapSpec, KeepsContract, Contract!ContractSpec
=============================================================================
