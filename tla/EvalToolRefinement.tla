-------------------------- MODULE EvalToolRefinement --------------------------
(***************************************************************************)
(* EvalTool implements AtomicEval, however many calls the executor runs at *)
(* once: a call takes effect when the session runs its cell.  The global   *)
(* itself, its owner and the objects of the calls are not part of the      *)
(* abstract session; `offered` is the same history in both.                *)
(***************************************************************************)
EXTENDS EvalTool

(* Where the abstract call is. *)
Phase(c) ==
    CASE pc[c] = "done"        -> "answered"
      [] pc[c] = "correlating" -> "served"
      [] pc[c] = "idle"        -> "new"
      [] OTHER                 -> "open"

(* The output is decided by Evaluate; Eval returns it after the insertion. *)
Decided(c) == IF pc[c] = "correlating" THEN OutputOf(c) ELSE answer[c].output

Atomic == INSTANCE AtomicEval WITH
    ask    <- [c \in Call |-> [source |-> SourceOf(c), input |-> InputOf(c)]],
    phase  <- [c \in Call |-> Phase(c)],
    output <- [c \in Call |-> Decided(c)]

(* The session serves eval_js calls one at a time, each with its own input or *)
(* with one that came from a call overlapping it, whatever the executor and   *)
(* the failures do (developer guide: per-call globals are set through         *)
(* replapi.WithRuntime).                                                      *)
ServesAtomically == Atomic!Spec

===============================================================================
