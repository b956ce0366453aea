--------------------------- MODULE MCPhotoScreen ---------------------------
(* The controllers of the photo screen. *)
EXTENDS PhotoScreen

MCController == {"detail", "comments"}
=============================================================================
