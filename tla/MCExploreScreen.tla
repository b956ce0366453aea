--------------------------- MODULE MCExploreScreen ---------------------------
(***************************************************************************)
(* Instances of ExploreScreen for TLC: how each platform deals the three   *)
(* pipelines out to its workers.                                           *)
(***************************************************************************)
EXTENDS ExploreScreen

CONSTANTS w1, w2

\* Android on one core: the computation scheduler has one thread.
OneWorkerOf == [k \in Pipeline |-> w1]

\* iOS: the queue of bindings() and the queue of configureViews().
IosWorkerOf == "initial" :> w1 @@ "refresh" :> w2 @@ "more" :> w1
=============================================================================
