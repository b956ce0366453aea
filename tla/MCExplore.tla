----------------------------- MODULE MCExplore -----------------------------
(***************************************************************************)
(* ExploreController for TLC.  The configurations core_* give the workers  *)
(* as model values.  Those with one worker have no symmetry to use, and    *)
(* the one with two checks liveness, for which TLC must not use it.        *)
(***************************************************************************)
EXTENDS ExploreController, TLC
=============================================================================
