------------------------------ MODULE MCChatRun ------------------------------
(* Runs that share the databases a user named, and runs that use defaults. *)
EXTENDS ChatRun

Settings(db, log, keep, none) ==
    [input |-> db, output |-> db, log |-> log, keepTemp |-> keep, noLogDB |-> none]

MCConfig ==
    {Settings("default", "default", FALSE, FALSE), Settings("default", "default", TRUE, FALSE),
     Settings("path", "path", FALSE, FALSE), Settings("default", "blank", FALSE, FALSE),
     Settings("path", "path", FALSE, TRUE)}

MCDefaults == {Settings("default", "default", FALSE, FALSE)}

===============================================================================
