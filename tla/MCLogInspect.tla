----------------------------- MODULE MCLogInspect -----------------------------
(* The small session of MCEvalTool and an inspector of its log. *)
EXTENDS MCEvalTool, LogInspect

===============================================================================
