-------------------------------- MODULE MCHud --------------------------------
(* Instances of Hud for TLC: a comment screen, a list whose rows fetch, an
   upload and a registration. *)
EXTENDS Hud

CONSTANTS comments, rows, upload, registration

Uncovered == {comments, rows, upload}
Closing  == {upload}
Silent   == {registration}
Losing   == {rows, upload, registration}
=============================================================================
