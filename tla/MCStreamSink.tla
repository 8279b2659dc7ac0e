----------------------------- MODULE MCStreamSink -----------------------------
(* Two goroutines that publish to one sink. *)
EXTENDS StreamSinkRefinement

CONSTANTS p1, p2

===============================================================================
