----------------------------- MODULE MCChatTurns -----------------------------
(* Conversations of a few prompts, with every reset, failure and lost       *)
(* snapshot between them; the bounds are in the .cfg files.                 *)
EXTENDS ChatTurns

===============================================================================
