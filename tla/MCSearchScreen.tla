--------------------------- MODULE MCSearchScreen ---------------------------
(* One worker on Android; on iOS one for the texts typed, one for the taps. *)
EXTENDS SearchScreen

CONSTANTS a, b, none, typist, tapper

AndroidKey == {a, b, none}
IOSKey == {a, none}
AndroidWorker == {typist}
IOSWorker == {typist, tapper}
=============================================================================
