--------------------------- MODULE MCDialogPolyfill ---------------------------
(* Model values for the runs of DialogPolyfill. *)
EXTENDS DialogPolyfill, TLC

CONSTANTS d1, d2, d3
===============================================================================
