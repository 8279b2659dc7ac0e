------------------------------- MODULE ChatRun -------------------------------
(***************************************************************************)
(* What `chat run` opens, creates and releases: run of cmd/chat/main.go    *)
(* with PrepareInputDB, PrepareOutputDB and PreparedDB.Close of            *)
(* internal/helpdb/helpdb.go and Open and Close of internal/logdb/logdb.go.*)
(*                                                                         *)
(* A run is one process.  Its steps succeed or fail; a failure makes run   *)
(* return, and the deferred calls run in reverse.  Nothing handles         *)
(* signals, so an interrupt ends the process at any step without them.     *)
(* Runs follow each other on the same disk.                                *)
(*                                                                         *)
(* The files are those the program creates by name: databases at a path    *)
(* the user gave, and per-run temporary ones.  SQLite's own side files go  *)
(* with the database they belong to.  Removing one's own temporary file    *)
(* is taken to succeed, as the code ignores the error.                     *)
(***************************************************************************)
EXTENDS Naturals, Sequences, FiniteSets

CONSTANTS
    Config,     \* the settings the runs are given
    MaxRuns     \* bound: processes one after the other

Options == [input: {"default", "path"}, output: {"default", "path"},
            log: {"default", "blank", "path"}, keepTemp: BOOLEAN, noLogDB: BOOLEAN]

ASSUME RunAssumption ==
    /\ Config \subseteq Options
    /\ MaxRuns \in Nat \ {0}

VARIABLES
    run,        \* number of the current process
    config,     \* the settings of each process so far
    pc,         \* the next step of run, "unwind" or "ended"
    deferred,   \* pending deferred calls, the last one first
    open,       \* the profile, the database handles and the session it holds
    disk,       \* files that exist
    outcome     \* how each process ended, or "running"

vars == <<run, config, pc, deferred, open, disk, outcome>>

(* The session is the JavaScript runtime that logdb.Open has replapi create; *)
(* evaljs.Build, given a tool, makes none of its own.                        *)
Handle == {"profile", "helpStore", "viewDB", "inputDB", "outputDB", "turnStore",
           "replStore", "session"}

(* run is the process a temporary file belongs to, 0 for a user's file. *)
File == [what: {"input", "output", "log"}, run: 0 .. MaxRuns]

Step == {"resolve", "settings", "input path", "help store", "sections",
         "close store", "view", "close view", "input db", "output path",
         "output db", "engine", "log path", "turn store", "repl store", "log setup",
         "serve", "unwind", "ended"}

Outcome == {"running", "ok", "error", "log failed", "killed"}

TypeOK ==
    /\ run \in 1 .. MaxRuns
    /\ config \in Seq(Config) /\ Len(config) = run
    /\ outcome \in Seq(Outcome) /\ Len(outcome) = run
    /\ pc \in Step
    /\ deferred \in Seq({"profile", "input", "output", "log"})
    /\ open \subseteq Handle
    /\ disk \subseteq File

-----------------------------------------------------------------------------

c == config[run]

Owner(given) == IF given = "path" THEN 0 ELSE run

InputFile == [what |-> "input", run |-> Owner(c.input)]

OutputFile == [what |-> "output", run |-> Owner(c.output)]

(* resolvePath: a blank path is trimmed to none and gets a temporary file. *)
LogFile == [what |-> "log", run |-> Owner(c.log)]

(* cleanup and Cleanup of helpdb: only a temporary directory is removed. *)
Temporary(file) == {file} \ {f \in File : f.run = 0}

Init ==
    /\ run = 1
    /\ config \in {<<x>> : x \in Config}
    /\ pc = "resolve"
    /\ deferred = <<>>
    /\ open = {}
    /\ disk \in SUBSET [what: {"input", "output", "log"}, run: {0}]
    /\ outcome = <<"running">>

Advance(at, next) ==
    /\ pc = at
    /\ pc' = next
    /\ UNCHANGED <<run, config, outcome>>

(* run returns an error: the deferred calls are next. *)
ReturnError(at, how) ==
    /\ pc = at
    /\ pc' = "unwind"
    /\ outcome' = [outcome EXCEPT ![run] = how]
    /\ UNCHANGED <<run, config, deferred>>

Fails(at) == ReturnError(at, "error")

(* Mutant: the deferred calls run in the order they were made. *)
DeferLast(call) == deferred' = Append(deferred, call)

Defer(call) == deferred' = <<call>> \o deferred

-----------------------------------------------------------------------------
(* The profile. *)

(* The profile may have something to close or not. *)
ResolveProfile ==
    /\ Advance("resolve", "settings")
    /\ \/ open' = open \cup {"profile"} /\ Defer("profile")
       \/ UNCHANGED <<open, deferred>>
    /\ UNCHANGED disk

ResolveFails == Fails("resolve") /\ UNCHANGED <<open, disk>>

HaveSettings ==
    Advance("settings", "input path") /\ UNCHANGED <<deferred, open, disk>>

NoSettings == Fails("settings") /\ UNCHANGED <<open, disk>>

-----------------------------------------------------------------------------
(* PrepareInputDB. *)

(* A temporary directory is made for the file, or the file's own directory; *)
(* a file that is already there is removed, and it is ignored if it stays.   *)
MakeInputPath ==
    /\ Advance("input path", "help store")
    /\ disk' \in {disk, disk \ {InputFile}}
    /\ UNCHANGED <<deferred, open>>

InputPathFails == Fails("input path") /\ UNCHANGED <<open, disk>>

CreateHelpStore ==
    /\ Advance("help store", "sections")
    /\ open' = open \cup {"helpStore"}
    /\ disk' = disk \cup {InputFile}
    /\ UNCHANGED deferred

(* The store is not created, though its file may be. *)
CreateHelpStoreFails ==
    /\ Fails("help store")
    /\ disk' \in {disk, (disk \cup {InputFile}) \ Temporary(InputFile)}
    /\ UNCHANGED open

LoadSections ==
    Advance("sections", "close store") /\ UNCHANGED <<deferred, open, disk>>

(* Mutant: the store is left to the garbage collector. *)
LoadSectionsFailsOpen ==
    /\ Fails("sections")
    /\ disk' = disk \ Temporary(InputFile)
    /\ UNCHANGED open

LoadSectionsFails ==
    /\ Fails("sections")
    /\ open' = open \ {"helpStore"}
    /\ disk' = disk \ Temporary(InputFile)

CloseHelpStore ==
    /\ Advance("close store", "view")
    /\ open' = open \ {"helpStore"}
    /\ UNCHANGED <<deferred, disk>>

(* A Close that reports an error has released the handle all the same. *)
CloseHelpStoreFails ==
    /\ Fails("close store")
    /\ open' = open \ {"helpStore"}
    /\ disk' = disk \ Temporary(InputFile)

(* sql.Open and ensureDocsView. *)
CreateDocsView ==
    /\ Advance("view", "close view")
    /\ open' = open \cup {"viewDB"}
    /\ UNCHANGED <<deferred, disk>>

CreateDocsViewFails ==
    /\ Fails("view")
    /\ disk' = disk \ Temporary(InputFile)
    /\ UNCHANGED open

CloseViewDB ==
    /\ Advance("close view", "input db")
    /\ open' = open \ {"viewDB"}
    /\ UNCHANGED <<deferred, disk>>

CloseViewDBFails ==
    /\ Fails("close view")
    /\ open' = open \ {"viewDB"}
    /\ disk' = disk \ Temporary(InputFile)

OpenInputDB ==
    /\ Advance("input db", "output path")
    /\ open' = open \cup {"inputDB"}
    /\ Defer("input")
    /\ UNCHANGED disk

OpenInputDBFails ==
    /\ Fails("input db")
    /\ disk' = disk \ Temporary(InputFile)
    /\ UNCHANGED open

-----------------------------------------------------------------------------
(* PrepareOutputDB, and the engine factory. *)

MakeOutputPath ==
    Advance("output path", "output db") /\ UNCHANGED <<deferred, open, disk>>

OutputPathFails == Fails("output path") /\ UNCHANGED <<open, disk>>

(* sql.Open and ensureOutputSchema. *)
OpenOutputDB ==
    /\ Advance("output db", "engine")
    /\ open' = open \cup {"outputDB"}
    /\ disk' = disk \cup {OutputFile}
    /\ Defer("output")

OpenOutputDBFails ==
    /\ Fails("output db")
    /\ disk' \in {disk, (disk \cup {OutputFile}) \ Temporary(OutputFile)}
    /\ UNCHANGED open

(* NewEngineFactory, and the refusal of --no-log-db. *)
BuildEngineFactory ==
    /\ ~c.noLogDB
    /\ Advance("engine", "log path")
    /\ UNCHANGED <<deferred, open, disk>>

EngineFactoryFails == ~c.noLogDB /\ Fails("engine") /\ UNCHANGED <<open, disk>>

RefuseNoLogDB == c.noLogDB /\ Fails("engine") /\ UNCHANGED <<open, disk>>

-----------------------------------------------------------------------------
(* logdb.Open.  Its cleanup closes the stores it has opened, not the session, *)
(* and removes no file.                                                       *)

OpenFails(at) == ReturnError(at, "log failed")

ResolveLogPath ==
    Advance("log path", "turn store") /\ UNCHANGED <<deferred, open, disk>>

(* Only the directory of a path the user gave is created. *)
ResolveLogPathFails ==
    /\ c.log = "path"
    /\ OpenFails("log path")
    /\ UNCHANGED <<open, disk>>

OpenTurnStore ==
    /\ Advance("turn store", "repl store")
    /\ open' = open \cup {"turnStore"}
    /\ disk' = disk \cup {LogFile}
    /\ UNCHANGED deferred

OpenTurnStoreFails ==
    /\ OpenFails("turn store")
    /\ disk' \in {disk, disk \cup {LogFile}}
    /\ UNCHANGED open

OpenReplStore ==
    /\ Advance("repl store", "log setup")
    /\ open' = open \cup {"replStore"}
    /\ UNCHANGED <<deferred, disk>>

OpenReplStoreFails ==
    /\ OpenFails("repl store")
    /\ open' = open \ {"turnStore"}
    /\ UNCHANGED disk

(* migrateAppTables, replapi.New, the eval session and the session's row; *)
(* then evaljs.Build, which with a tool cannot fail.                      *)
SetUpLog ==
    /\ Advance("log setup", "serve")
    /\ Defer("log")
    /\ open' = open \cup {"session"}
    /\ UNCHANGED disk

(* The session may have been created by then, when its row is not written. *)
SetUpLogFails ==
    /\ OpenFails("log setup")
    /\ \E created \in {{}, {"session"}} :
         open' = (open \ {"turnStore", "replStore"}) \cup created
    /\ UNCHANGED disk

-----------------------------------------------------------------------------
(* Serving, unwinding, and the next process. *)

(* Mutant: the end of the input is a result of its own. *)
ServeToTheEnd ==
    /\ pc = "serve"
    /\ pc' = "unwind"
    /\ \E how \in {"ok", "error", "EOF"} : outcome' = [outcome EXCEPT ![run] = how]
    /\ UNCHANGED <<run, config, deferred, open, disk>>

(* The prompt or the REPL returns; at the end of the input without an error. *)
Serve ==
    /\ pc = "serve"
    /\ pc' = "unwind"
    /\ \E how \in {"ok", "error"} : outcome' = [outcome EXCEPT ![run] = how]
    /\ UNCHANGED <<run, config, deferred, open, disk>>

CloseProfile == open' = open \ {"profile"} /\ UNCHANGED disk

(* PreparedDB.Close: the handle, then the directory if it is temporary. *)
CloseInput ==
    /\ open' = open \ {"inputDB"}
    /\ disk' = disk \ Temporary(InputFile)

CloseOutput ==
    /\ open' = open \ {"outputDB"}
    /\ disk' = disk \ Temporary(OutputFile)

(* Mutant: only the keep flag is looked at. *)
RemovesLogUnlessKept == ~c.keepTemp

(* Mutant: the temporary log is never removed. *)
RemovesLogNever == FALSE

RemovesLog == c.log = "default" /\ ~c.keepTemp

(* DB.Close closes the two stores; the session stays. *)
CloseLog ==
    /\ open' = open \ {"turnStore", "replStore"}
    /\ disk' = IF RemovesLog THEN disk \ {LogFile} ELSE disk

Pending == Head(deferred)

RunDeferred ==
    /\ pc = "unwind"
    /\ deferred # <<>>
    /\ CASE Pending = "profile" -> CloseProfile
         [] Pending = "input"   -> CloseInput
         [] Pending = "output"  -> CloseOutput
         [] Pending = "log"     -> CloseLog
    /\ deferred' = Tail(deferred)
    /\ UNCHANGED <<run, config, pc, outcome>>

Exit ==
    /\ pc = "unwind"
    /\ deferred = <<>>
    /\ pc' = "ended"
    /\ UNCHANGED <<run, config, deferred, open, disk, outcome>>

(* The process is interrupted; the system closes its handles. *)
Kill ==
    /\ pc # "ended"
    /\ pc' = "ended"
    /\ deferred' = <<>>
    /\ open' = {}
    /\ outcome' = [outcome EXCEPT ![run] = "killed"]
    /\ UNCHANGED <<run, config, disk>>

(* The end of a process releases what it still held. *)
StartAgain ==
    /\ pc = "ended"
    /\ run < MaxRuns
    /\ run' = run + 1
    /\ \E x \in Config : config' = Append(config, x)
    /\ outcome' = Append(outcome, "running")
    /\ pc' = "resolve"
    /\ open' = {}
    /\ UNCHANGED <<deferred, disk>>

Profile == ResolveProfile \/ ResolveFails \/ HaveSettings \/ NoSettings

PrepareInputDB ==
    \/ MakeInputPath \/ InputPathFails
    \/ CreateHelpStore \/ CreateHelpStoreFails
    \/ LoadSections \/ LoadSectionsFails
    \/ CloseHelpStore \/ CloseHelpStoreFails
    \/ CreateDocsView \/ CreateDocsViewFails
    \/ CloseViewDB \/ CloseViewDBFails
    \/ OpenInputDB \/ OpenInputDBFails

PrepareOutputDB ==
    MakeOutputPath \/ OutputPathFails \/ OpenOutputDB \/ OpenOutputDBFails

OpenLogDB ==
    \/ BuildEngineFactory \/ EngineFactoryFails \/ RefuseNoLogDB
    \/ ResolveLogPath \/ ResolveLogPathFails
    \/ OpenTurnStore \/ OpenTurnStoreFails
    \/ OpenReplStore \/ OpenReplStoreFails
    \/ SetUpLog \/ SetUpLogFails

Run == Profile \/ PrepareInputDB \/ PrepareOutputDB \/ OpenLogDB \/ Serve

Unwind == RunDeferred \/ Exit

Done == pc = "ended" /\ run = MaxRuns /\ UNCHANGED vars

Next == Run \/ Unwind \/ Kill \/ StartAgain \/ Done

Spec == Init /\ [][Next]_vars

-----------------------------------------------------------------------------

(* However run returns, it has closed every database handle and the profile; *)
(* what it leaves to the end of the process is the session alone.            *)
OnlySessionLeftOpen == pc = "ended" => open \subseteq {"session"}

(* The log is closed before the databases its JavaScript session works on:   *)
(* while a call can be recorded, inputDB and outputDB are open.  The two     *)
(* handles that prepared the input database never outlive the preparation.   *)
LogClosedFirst ==
    open \cap {"turnStore", "replStore"} # {} =>
        /\ {"inputDB", "outputDB"} \subseteq open
        /\ open \cap {"helpStore", "viewDB"} = {}

(* A temporary file on disk belongs to the process that runs, or to one that *)
(* was killed; a temporary log also stays if it was asked to be kept, if it  *)
(* was asked for with a blank path, and if the log could not be opened.      *)
LeftoversExplained ==
    \A f \in disk : f.run # 0 =>
        \/ f.run = run /\ pc # "ended"
        \/ outcome[f.run] = "killed"
        \/ /\ f.what = "log"
           /\ \/ config[f.run].keepTemp
              \/ config[f.run].log = "blank"
              \/ outcome[f.run] = "log failed"

(* No run removes a scratch or log database that a user named. *)
UserFilesSurvive ==
    [][\A f \in disk : f.run = 0 /\ f.what # "input" => f \in disk']_vars

(* The temporary log is removed when its process has ended, unless it is to  *)
(* be kept (flag log-db-keep-temp: "Keep the default temporary log DB after  *)
(* exit").                                                                   *)
TemporaryLogRemoved ==
    pc = "ended" /\ outcome[run] # "killed" /\ ~c.keepTemp =>
        [what |-> "log", run |-> run] \notin disk

===============================================================================
