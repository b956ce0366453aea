------------------------- MODULE ControllerContract -------------------------
(***************************************************************************)
(* What a controller of the C++ core promises to the application that      *)
(* implements its <>_controller_observer, without how: the abstract        *)
(* specification of the protocol on_begin_update, on_update, on_end_update *)
(* of a request, for any number of requests running at once.               *)
(*                                                                         *)
(* A request that was begun is told at least one update before its end is  *)
(* told; the observer hears nothing after it unsubscribed; the process may *)
(* die at any time, and a new one starts from silence.                     *)
(***************************************************************************)
CONSTANTS
  Caller,    \* the threads that call request, each in one request at a time
  Data,      \* what an update can show
  Nothing    \* what is shown before the first update

VARIABLES
  listening,  \* an observer is subscribed
  phase,      \* the last that the observer was told of each caller's request
  shown       \* the last update

contractVars == <<listening, phase, shown>>

Phase == {"quiet", "begun", "told"}

Silence == [r \in Caller |-> "quiet"]

ContractInit ==
  /\ listening = TRUE
  /\ phase = Silence
  /\ shown = Nothing

\* on_begin_update
Begin(r) ==
  /\ listening
  /\ phase[r] = "quiet"
  /\ phase' = [phase EXCEPT ![r] = "begun"]
  /\ UNCHANGED <<listening, shown>>

\* on_update
Tell(r) ==
  /\ listening
  /\ phase[r] \in {"begun", "told"}
  /\ phase' = [phase EXCEPT ![r] = "told"]
  /\ shown' \in Data
  /\ UNCHANGED listening

\* on_end_update
End(r) ==
  /\ listening
  /\ phase[r] = "told"
  /\ phase' = [phase EXCEPT ![r] = "quiet"]
  /\ UNCHANGED <<listening, shown>>

Detach ==
  /\ listening
  /\ listening' = FALSE
  /\ UNCHANGED <<phase, shown>>

\* The process dies.
Stop ==
  /\ listening' = FALSE
  /\ phase' = Silence
  /\ shown' = Nothing

\* A new process subscribes its observer.
Attach ==
  /\ ~listening
  /\ phase = Silence
  /\ shown = Nothing
  /\ listening' = TRUE
  /\ UNCHANGED <<phase, shown>>

ContractNext ==
  \/ \E r \in Caller : Begin(r) \/ Tell(r) \/ End(r)
  \/ Detach
  \/ Stop
  \/ Attach

ContractSpec == ContractInit /\ [][ContractNext]_contractVars

\* A request that was begun is ended, unless the observer goes away.
EveryBeginEnds ==
  \A r \in Caller : phase[r] # "quiet" ~> phase[r] = "quiet" \/ ~listening
=============================================================================
