--------------------------- MODULE MCTokenRefresh ---------------------------
(* Two tabs and a login callback over one Character's rows.                  *)
EXTENDS TokenRefresh
=============================================================================
