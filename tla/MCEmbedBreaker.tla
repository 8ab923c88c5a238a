--------------------------- MODULE MCEmbedBreaker ---------------------------
(* A small instance of EmbedBreaker.  Liveness is checked, so the calls are   *)
(* not taken for symmetric.                                                   *)
EXTENDS EmbedBreaker

ASSUME BackoffIsTheLoop
=============================================================================
