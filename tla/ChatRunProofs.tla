---------------------------- MODULE ChatRunProofs ----------------------------
(***************************************************************************)
(* Theorems about what a run opens, creates and releases, for any settings *)
(* and any number of runs: type correctness; only the session stays open;  *)
(* the log is closed before what its session works on; a temporary file    *)
(* that stays is explained; a database the user named is never removed.    *)
(***************************************************************************)
EXTENDS ChatRun, SequenceTheorems, TLAPS

-----------------------------------------------------------------------------
(* The inductive invariant. *)

(* The deferred calls that are pending. *)
Calls == {deferred[i] : i \in DOMAIN deferred}

(* The order in which run makes them. *)
Order == [profile |-> 1, input |-> 2, output |-> 3, log |-> 4]

LastOutFirst ==
    \A i, j \in DOMAIN deferred : i < j => Order[deferred[i]] > Order[deferred[j]]

(* How far run has come, and the calls it has deferred on the way. *)
CallsMade ==
    /\ pc \in {"resolve", "ended"} => Calls = {}
    /\ "input" \in Calls =>
          pc \in {"output path", "output db", "engine", "log path", "turn store",
                  "repl store", "log setup", "serve", "unwind"}
    /\ "output" \in Calls =>
          /\ "input" \in Calls
          /\ pc \in {"engine", "log path", "turn store", "repl store", "log setup",
                     "serve", "unwind"}
    /\ "log" \in Calls => "output" \in Calls /\ pc \in {"serve", "unwind"}
    /\ pc \in {"output path", "output db"} => "input" \in Calls
    /\ pc \in {"engine", "log path", "turn store", "repl store", "log setup"} =>
          "output" \in Calls
    /\ pc = "serve" => "log" \in Calls

(* Who closes what is open: a deferred call, or the step that comes next. *)
Closers ==
    /\ "profile" \in open <=> "profile" \in Calls
    /\ "inputDB" \in open <=> "input" \in Calls
    /\ "outputDB" \in open <=> "output" \in Calls
    /\ "helpStore" \in open => pc \in {"sections", "close store"}
    /\ "viewDB" \in open => pc = "close view"
    /\ "turnStore" \in open => pc \in {"repl store", "log setup"} \/ "log" \in Calls
    /\ "replStore" \in open => pc = "log setup" \/ "log" \in Calls

(* A run has an outcome when it is over, and only then. *)
OutcomeAtTheEnd ==
    /\ pc \notin {"unwind", "ended"} => outcome[run] = "running"
    /\ outcome[run] = "killed" => pc = "ended"

(* Why a temporary log outlives its process. *)
LogStays(n) ==
    config[n].keepTemp \/ config[n].log = "blank" \/ outcome[n] = "log failed"

(* Who removes the temporary files of the run. *)
InputRemoved ==
    /\ c.input = "default"
    /\ \/ pc \in {"sections", "close store", "view", "close view", "input db"}
       \/ "input" \in Calls

OutputRemoved == c.output = "default" /\ "output" \in Calls

LogRemoved ==
    /\ c.log # "path"
    /\ pc \in {"repl store", "log setup"} \/ "log" \in Calls \/ LogStays(run)

Removers ==
    outcome[run] # "killed" => \A f \in disk : f.run = run =>
        /\ f.what = "input" => InputRemoved
        /\ f.what = "output" => OutputRemoved
        /\ f.what = "log" => LogRemoved

(* The files of the runs before. *)
EarlierFiles ==
    \A f \in disk : f.run <= run /\ (f.run \notin {0, run} =>
        outcome[f.run] = "killed" \/ (f.what = "log" /\ LogStays(f.run)))

IndInv ==
    /\ TypeOK
    /\ LastOutFirst
    /\ CallsMade
    /\ Closers
    /\ OutcomeAtTheEnd
    /\ Removers
    /\ EarlierFiles

-----------------------------------------------------------------------------
(* The settings of the run and the files it has a name for. *)

LEMMA Naming ==
    ASSUME TypeOK
    PROVE  /\ MaxRuns \in Nat /\ run \in 1 .. MaxRuns /\ run # 0
           /\ c \in Options
           /\ outcome[run] \in Outcome
           /\ {InputFile, OutputFile, LogFile} \subseteq File
           /\ InputFile.what = "input" /\ OutputFile.what = "output" /\ LogFile.what = "log"
           /\ InputFile.run = IF c.input = "default" THEN run ELSE 0
           /\ OutputFile.run = IF c.output = "default" THEN run ELSE 0
           /\ LogFile.run = IF c.log = "path" THEN 0 ELSE run
<1>1. MaxRuns \in Nat /\ run \in 1 .. MaxRuns /\ run # 0
  BY RunAssumption DEF TypeOK
<1>2. c \in Options /\ outcome[run] \in Outcome
  BY <1>1, RunAssumption, ElementOfSeq DEF TypeOK, c
<1>3. /\ c.input \in {"default", "path"} /\ c.output \in {"default", "path"}
      /\ c.log \in {"default", "blank", "path"}
  BY <1>2 DEF Options
<1>4. QED
  BY <1>1, <1>2, <1>3 DEF InputFile, OutputFile, LogFile, Owner, File

LEMMA Named ==
    ASSUME TypeOK, NEW f \in File, f.run = run
    PROVE  /\ f.what = "input" /\ c.input = "default" => f = InputFile
           /\ f.what = "output" /\ c.output = "default" => f = OutputFile
           /\ f.what = "log" /\ c.log # "path" => f = LogFile
BY Naming DEF File, Owner, InputFile, OutputFile, LogFile

LEMMA TemporaryOnly ==
    ASSUME NEW file \in File
    PROVE  Temporary(file) = IF file.run = 0 THEN {} ELSE {file}
BY DEF Temporary

-----------------------------------------------------------------------------
(* The deferred calls. *)

LEMMA Deferring ==
    ASSUME TypeOK, LastOutFirst, NEW call \in {"profile", "input", "output", "log"},
           Defer(call), \A x \in Calls : Order[x] < Order[call]
    PROVE  /\ deferred' \in Seq({"profile", "input", "output", "log"})
           /\ LastOutFirst'
           /\ Calls' = Calls \cup {call}
<1> DEFINE Names == {"profile", "input", "output", "log"}
<1>1. deferred \in Seq(Names) /\ <<call>> \in Seq(Names)
  BY DEF TypeOK
<1>2. Len(<<call>>) = 1 /\ <<call>>[1] = call /\ Len(deferred) \in Nat
  BY <1>1, LenProperties
<1>3. deferred' = <<call>> \o deferred
  BY DEF Defer
<1> HIDE DEF Names
<1>4. /\ deferred' \in Seq(Names) /\ Len(deferred') = Len(deferred) + 1
      /\ deferred'[1] = call
      /\ \A i \in 2 .. Len(deferred') : deferred'[i] = deferred[i - 1]
  BY <1>1, <1>2, <1>3, ConcatProperties
<1>5. DOMAIN deferred = 1 .. Len(deferred) /\ DOMAIN deferred' = 1 .. Len(deferred')
  BY <1>1, <1>4, LenProperties
<1>6. Calls' = Calls \cup {call}
  <2>1. ASSUME NEW x \in Calls PROVE x \in Calls'
    <3>1. PICK i \in 1 .. Len(deferred) : x = deferred[i]
      BY <1>5 DEF Calls
    <3>2. i + 1 \in DOMAIN deferred' /\ deferred'[i + 1] = x
      BY <1>2, <1>4, <1>5, <3>1
    <3>3. QED
      BY <3>2 DEF Calls
  <2>2. call \in Calls'
    BY <1>2, <1>4, <1>5 DEF Calls
  <2>3. ASSUME NEW i \in DOMAIN deferred' PROVE deferred'[i] \in Calls \cup {call}
    <3>1. CASE i = 1
      BY <1>4, <3>1
    <3>2. CASE i # 1
      <4>1. i - 1 \in DOMAIN deferred /\ deferred'[i] = deferred[i - 1]
        BY <1>2, <1>4, <1>5, <3>2
      <4>2. QED
        BY <4>1 DEF Calls
    <3>3. QED
      BY <3>1, <3>2
  <2>4. QED
    BY <2>1, <2>2, <2>3 DEF Calls
<1>7. ASSUME NEW i \in DOMAIN deferred', NEW j \in DOMAIN deferred', i < j
      PROVE  Order[deferred'[i]] > Order[deferred'[j]]
  <2>1. j - 1 \in DOMAIN deferred /\ deferred'[j] = deferred[j - 1]
    BY <1>2, <1>4, <1>5, <1>7
  <2>2. CASE i = 1
    BY <1>4, <2>1, <2>2 DEF Calls
  <2>3. CASE i # 1
    <3>1. i - 1 \in DOMAIN deferred /\ deferred'[i] = deferred[i - 1] /\ i - 1 < j - 1
      BY <1>2, <1>4, <1>5, <1>7, <2>3
    <3>2. QED
      BY <2>1, <3>1 DEF LastOutFirst
  <2>4. QED
    BY <2>2, <2>3
<1>8. QED
  BY <1>4, <1>6, <1>7 DEF LastOutFirst, Names

LEMMA Undeferring ==
    ASSUME TypeOK, LastOutFirst, deferred # <<>>, deferred' = Tail(deferred)
    PROVE  /\ deferred' \in Seq({"profile", "input", "output", "log"})
           /\ LastOutFirst'
           /\ Pending \in Calls /\ Calls' = Calls \ {Pending}
           /\ \A x \in Calls' : Order[x] < Order[Pending]
<1> DEFINE Names == {"profile", "input", "output", "log"}
<1>1. deferred \in Seq(Names)
  BY DEF TypeOK
<1> HIDE DEF Names
<1>2. /\ Len(deferred) \in Nat /\ Len(deferred) # 0
      /\ Pending = deferred[1]
  BY <1>1, LenProperties, EmptySeq, HeadTailProperties DEF Pending
<1>3. /\ deferred' \in Seq(Names) /\ Len(deferred') = Len(deferred) - 1
      /\ \A i \in 1 .. Len(deferred') : deferred'[i] = deferred[i + 1]
  BY <1>1, HeadTailProperties
<1>4. DOMAIN deferred = 1 .. Len(deferred) /\ DOMAIN deferred' = 1 .. Len(deferred')
  BY <1>1, <1>3, LenProperties
<1>5. ASSUME NEW i \in DOMAIN deferred'
      PROVE  /\ i + 1 \in DOMAIN deferred /\ deferred'[i] = deferred[i + 1]
             /\ Order[deferred'[i]] < Order[Pending]
  <2>1. /\ i + 1 \in DOMAIN deferred /\ deferred'[i] = deferred[i + 1]
        /\ 1 \in DOMAIN deferred /\ 1 < i + 1
    BY <1>2, <1>3, <1>4
  <2>2. Order[deferred[1]] > Order[deferred[i + 1]]
    BY <2>1 DEF LastOutFirst
  <2>3. deferred[1] \in Names /\ deferred[i + 1] \in Names
    BY <1>1, <2>1, <1>4, ElementOfSeq
  <2>4. Order[deferred[1]] \in Nat /\ Order[deferred[i + 1]] \in Nat
    BY <2>3 DEF Order, Names
  <2>5. QED
    BY <1>2, <2>1, <2>2, <2>4
<1>6. LastOutFirst'
  <2>1. ASSUME NEW i \in DOMAIN deferred', NEW j \in DOMAIN deferred', i < j
        PROVE  Order[deferred'[i]] > Order[deferred'[j]]
    <3>1. /\ i + 1 \in DOMAIN deferred /\ deferred'[i] = deferred[i + 1]
          /\ j + 1 \in DOMAIN deferred /\ deferred'[j] = deferred[j + 1]
      BY <1>5
    <3>2. i + 1 < j + 1
      BY <1>4, <1>3, <1>2, <2>1
    <3>3. QED
      BY <3>1, <3>2 DEF LastOutFirst
  <2>2. QED
    BY <2>1 DEF LastOutFirst
<1>7. \A x \in Calls' : x \in Calls /\ Order[x] < Order[Pending]
  BY <1>5 DEF Calls
<1>8. Pending \in Calls /\ Pending \notin Calls'
  <2>1. Pending \in Calls
    BY <1>2, <1>4 DEF Calls
  <2>2. Pending \in Names
    BY <1>1, <1>2, <1>4, ElementOfSeq
  <2>3. ~(Order[Pending] < Order[Pending])
    BY <2>2 DEF Order, Names
  <2>4. QED
    BY <1>7, <2>1, <2>3
<1>9. ASSUME NEW x \in Calls, x # Pending PROVE x \in Calls'
  <2>1. PICK i \in DOMAIN deferred : x = deferred[i]
    BY DEF Calls
  <2>2. i # 1
    BY <1>2, <1>9, <2>1
  <2>3. i - 1 \in DOMAIN deferred' /\ deferred'[i - 1] = deferred[i - 1 + 1]
    BY <1>2, <1>3, <1>4, <2>2
  <2>4. i - 1 + 1 = i
    BY <1>2, <1>4
  <2>5. QED
    BY <2>1, <2>3, <2>4 DEF Calls
<1>10. QED
  BY <1>3, <1>6, <1>7, <1>8, <1>9 DEF Names

-----------------------------------------------------------------------------
(* What the steps of a run have in common: they go on, or make run return. *)

Flow == LastOutFirst /\ CallsMade /\ Closers

Files == Removers /\ EarlierFiles

(* The process goes on with the same settings; a file it creates is its own *)
(* or the user's.                                                           *)
LEMMA EarlierKept ==
    ASSUME TypeOK, EarlierFiles, run' = run, config' = config,
           \A n \in 1 .. run : n # run => outcome'[n] = outcome[n],
           disk' \subseteq disk \cup {InputFile, OutputFile, LogFile}, disk' \subseteq File
    PROVE  EarlierFiles' /\ c' = c
<1>1. c' = c
  BY DEF c
<1>2. ASSUME NEW f \in disk'
      PROVE  f.run <= run /\ (f.run \notin {0, run} =>
                outcome'[f.run] = "killed" \/ (f.what = "log" /\ LogStays(f.run)'))
  <2>1. CASE f \in {InputFile, OutputFile, LogFile}
    BY <2>1, Naming
  <2>2. CASE f \in disk
    <3>1. f.run <= run /\ (f.run \notin {0, run} =>
                outcome[f.run] = "killed" \/ (f.what = "log" /\ LogStays(f.run)))
      BY <2>2 DEF EarlierFiles
    <3>2. f.run \in Nat
      BY <1>2, Naming DEF File
    <3>3. f.run \notin {0, run} => f.run \in 1 .. run /\ outcome'[f.run] = outcome[f.run]
      BY <3>1, <3>2, Naming
    <3>4. QED
      BY <3>1, <3>3 DEF LogStays
  <2>3. QED
    BY <2>1, <2>2
<1>3. QED
  BY <1>1, <1>2 DEF EarlierFiles

LEMMA Ending ==
    ASSUME TypeOK, NEW how \in Outcome, outcome' = [outcome EXCEPT ![run] = how]
    PROVE  /\ outcome' \in Seq(Outcome) /\ Len(outcome') = run
           /\ outcome'[run] = how
           /\ \A n \in 1 .. run : n # run => outcome'[n] = outcome[n]
<1>1. /\ outcome \in Seq(Outcome) /\ Len(outcome) = run /\ run \in Nat /\ run \in 1 .. run
  BY RunAssumption DEF TypeOK
<1>2. DOMAIN outcome = 1 .. run
  BY <1>1, LenProperties
<1>3. outcome' \in Seq(Outcome) /\ Len(outcome') = run
  BY <1>1, ExceptSeq
<1>4. QED
  BY <1>1, <1>2, <1>3

(* A step of run before the deferred calls. *)
LEMMA Going ==
    ASSUME TypeOK, OutcomeAtTheEnd, Run
    PROVE  /\ run' = run /\ config' = config /\ pc \notin {"unwind", "ended"}
           /\ outcome[run] = "running" /\ pc' \in Step
           /\ \/ outcome' = outcome /\ pc' \notin {"unwind", "ended"}
              \/ /\ outcome'[run] \in {"ok", "error", "log failed"}
                 /\ pc' = "unwind"
                 /\ \A n \in 1 .. run : n # run => outcome'[n] = outcome[n]
           /\ outcome' \in Seq(Outcome) /\ Len(outcome') = run
<1>1. /\ run' = run /\ config' = config /\ pc \notin {"unwind", "ended"} /\ pc' \in Step
      /\ \/ outcome' = outcome /\ pc' \notin {"unwind", "ended"}
         \/ /\ \E how \in {"ok", "error", "log failed"} : outcome' = [outcome EXCEPT ![run] = how]
            /\ pc' = "unwind"
  <2>1. CASE Profile
    BY <2>1 DEF Profile, ResolveProfile, ResolveFails, HaveSettings, NoSettings,
                Advance, Fails, ReturnError, Step
  <2>2. CASE PrepareInputDB
    BY <2>2 DEF PrepareInputDB, MakeInputPath, InputPathFails, CreateHelpStore,
                CreateHelpStoreFails, LoadSections, LoadSectionsFails, CloseHelpStore,
                CloseHelpStoreFails, CreateDocsView, CreateDocsViewFails, CloseViewDB,
                CloseViewDBFails, OpenInputDB, OpenInputDBFails,
                Advance, Fails, ReturnError, Step
  <2>3. CASE PrepareOutputDB
    BY <2>3 DEF PrepareOutputDB, MakeOutputPath, OutputPathFails, OpenOutputDB,
                OpenOutputDBFails, Advance, Fails, ReturnError, Step
  <2>4. CASE OpenLogDB
    BY <2>4 DEF OpenLogDB, BuildEngineFactory, EngineFactoryFails, RefuseNoLogDB,
                ResolveLogPath, ResolveLogPathFails, OpenTurnStore, OpenTurnStoreFails,
                OpenReplStore, OpenReplStoreFails, SetUpLog, SetUpLogFails, OpenFails,
                Advance, Fails, ReturnError, Step
  <2>5. CASE Serve
    BY <2>5 DEF Serve, Step
  <2>6. QED
    BY <2>1, <2>2, <2>3, <2>4, <2>5 DEF Run
<1>2. outcome[run] = "running"
  BY <1>1 DEF OutcomeAtTheEnd
<1>3. CASE outcome' = outcome
  BY <1>1, <1>2, <1>3 DEF TypeOK
<1>4. CASE \E how \in {"ok", "error", "log failed"} : outcome' = [outcome EXCEPT ![run] = how]
  BY <1>1, <1>2, <1>4, Ending DEF Outcome
<1>5. QED
  BY <1>1, <1>3, <1>4

-----------------------------------------------------------------------------
(* The deferred calls and the handles, step by step. *)

LEMMA ProfileFlow ==
    ASSUME TypeOK, Flow, Profile
    PROVE  Flow' /\ open' \subseteq Handle /\ disk' = disk
                 /\ deferred' \in Seq({"profile", "input", "output", "log"})
                 /\ Calls \subseteq Calls'
<1>1. CASE ResolveProfile /\ open' = open \cup {"profile"} /\ Defer("profile")
  <2>1. Calls = {}
    BY <1>1 DEF ResolveProfile, Advance, Flow, CallsMade
  <2>2. /\ deferred' \in Seq({"profile", "input", "output", "log"})
        /\ LastOutFirst' /\ Calls' = {"profile"}
    BY <1>1, <2>1, Deferring DEF Flow
  <2>3. pc = "resolve" /\ pc' = "settings" /\ open' = open \cup {"profile"} /\ disk' = disk
    BY <1>1 DEF ResolveProfile, Advance
  <2>4. QED
    BY <2>1, <2>2, <2>3 DEF Flow, CallsMade, Closers, TypeOK, Handle
<1>2. CASE UNCHANGED <<open, deferred>>
  <2>1. Calls' = Calls
    BY <1>2 DEF Calls
  <2>2. /\ open' = open /\ disk' = disk
        /\ \/ pc = "resolve" /\ pc' = "settings"
           \/ pc = "settings" /\ pc' = "input path"
           \/ pc \in {"resolve", "settings"} /\ pc' = "unwind"
    BY <1>2 DEF Profile, ResolveProfile, ResolveFails, HaveSettings, NoSettings,
                Advance, Fails, ReturnError
  <2>3. QED
    BY <1>2, <2>1, <2>2 DEF Flow, LastOutFirst, CallsMade, Closers, TypeOK
<1>3. QED
  BY <1>1, <1>2 DEF Profile, ResolveProfile, ResolveFails, HaveSettings, NoSettings,
                    Advance, Fails, ReturnError

LEMMA InputFlow ==
    ASSUME TypeOK, Flow, PrepareInputDB
    PROVE  Flow' /\ open' \subseteq Handle
                 /\ deferred' \in Seq({"profile", "input", "output", "log"})
                 /\ Calls \subseteq Calls'
<1>1. CASE OpenInputDB
  <2>1. pc = "input db" /\ pc' = "output path" /\ open' = open \cup {"inputDB"}
    BY <1>1 DEF OpenInputDB, Advance
  <2>2. Calls \subseteq {"profile"}
    <3>1. Calls \subseteq {"profile", "input", "output", "log"}
      BY ElementOfSeq DEF Calls, TypeOK
    <3>2. QED
      BY <2>1, <3>1 DEF Flow, CallsMade
  <2>3. /\ deferred' \in Seq({"profile", "input", "output", "log"})
        /\ LastOutFirst' /\ Calls' = Calls \cup {"input"}
    <3>1. \A x \in Calls : Order[x] < Order["input"]
      BY <2>2 DEF Order
    <3>2. Defer("input")
      BY <1>1 DEF OpenInputDB
    <3>3. QED
      BY <3>1, <3>2, Deferring DEF Flow
  <2>4. QED
    BY <2>1, <2>2, <2>3 DEF Flow, CallsMade, Closers, TypeOK, Handle
<1>2. CASE PrepareInputDB /\ ~OpenInputDB
  <2>1. /\ deferred' = deferred
        /\ \/ pc = "input path" /\ pc' = "help store" /\ open' = open
           \/ pc = "help store" /\ pc' = "sections" /\ open' = open \cup {"helpStore"}
           \/ pc = "sections" /\ pc' = "close store" /\ open' = open
           \/ pc = "close store" /\ pc' = "view" /\ open' = open \ {"helpStore"}
           \/ pc = "view" /\ pc' = "close view" /\ open' = open \cup {"viewDB"}
           \/ pc = "close view" /\ pc' = "input db" /\ open' = open \ {"viewDB"}
           \/ /\ pc \in {"input path", "help store", "view", "input db"}
              /\ pc' = "unwind" /\ open' = open
           \/ /\ pc \in {"sections", "close store"}
              /\ pc' = "unwind" /\ open' = open \ {"helpStore"}
           \/ pc = "close view" /\ pc' = "unwind" /\ open' = open \ {"viewDB"}
    BY <1>2 DEF PrepareInputDB, MakeInputPath, InputPathFails, CreateHelpStore,
                CreateHelpStoreFails, LoadSections, LoadSectionsFails, CloseHelpStore,
                CloseHelpStoreFails, CreateDocsView, CreateDocsViewFails, CloseViewDB,
                CloseViewDBFails, OpenInputDBFails, Advance, Fails, ReturnError
  <2>2. Calls' = Calls
    BY <2>1 DEF Calls
  <2>3. LastOutFirst' /\ CallsMade'
    BY <2>1, <2>2 DEF Flow, LastOutFirst, CallsMade
  <2>4. Closers'
    BY <2>1, <2>2 DEF Flow, CallsMade, Closers
  <2>5. open' \subseteq Handle
    BY <2>1 DEF TypeOK, Handle
  <2>6. deferred' \in Seq({"profile", "input", "output", "log"})
    BY <2>1 DEF TypeOK
  <2>7. QED
    BY <2>2, <2>3, <2>4, <2>5, <2>6 DEF Flow
<1>3. QED
  BY <1>1, <1>2

LEMMA OutputFlow ==
    ASSUME TypeOK, Flow, PrepareOutputDB
    PROVE  Flow' /\ open' \subseteq Handle
                 /\ deferred' \in Seq({"profile", "input", "output", "log"})
                 /\ Calls \subseteq Calls'
<1>1. CASE OpenOutputDB
  <2>1. pc = "output db" /\ pc' = "engine" /\ open' = open \cup {"outputDB"}
    BY <1>1 DEF OpenOutputDB, Advance
  <2>2. Calls \subseteq {"profile", "input"}
    <3>1. Calls \subseteq {"profile", "input", "output", "log"}
      BY ElementOfSeq DEF Calls, TypeOK
    <3>2. QED
      BY <2>1, <3>1 DEF Flow, CallsMade
  <2>3. /\ deferred' \in Seq({"profile", "input", "output", "log"})
        /\ LastOutFirst' /\ Calls' = Calls \cup {"output"}
    <3>1. \A x \in Calls : Order[x] < Order["output"]
      BY <2>2 DEF Order
    <3>2. Defer("output")
      BY <1>1 DEF OpenOutputDB
    <3>3. QED
      BY <3>1, <3>2, Deferring DEF Flow
  <2>4. QED
    BY <2>1, <2>2, <2>3 DEF Flow, CallsMade, Closers, TypeOK, Handle
<1>2. CASE PrepareOutputDB /\ ~OpenOutputDB
  <2>1. /\ deferred' = deferred /\ open' = open
        /\ \/ pc = "output path" /\ pc' = "output db"
           \/ pc \in {"output path", "output db"} /\ pc' = "unwind"
    BY <1>2 DEF PrepareOutputDB, MakeOutputPath, OutputPathFails, OpenOutputDBFails,
                Advance, Fails, ReturnError
  <2>2. Calls' = Calls
    BY <2>1 DEF Calls
  <2>3. QED
    BY <2>1, <2>2 DEF Flow, LastOutFirst, CallsMade, Closers, TypeOK
<1>3. QED
  BY <1>1, <1>2

LEMMA LogFlow ==
    ASSUME TypeOK, Flow, OpenLogDB
    PROVE  Flow' /\ open' \subseteq Handle
                 /\ deferred' \in Seq({"profile", "input", "output", "log"})
                 /\ Calls \subseteq Calls'
<1>1. CASE SetUpLog
  <2>1. pc = "log setup" /\ pc' = "serve" /\ open' = open \cup {"session"}
    BY <1>1 DEF SetUpLog, Advance
  <2>2. Calls \subseteq {"profile", "input", "output"}
    <3>1. Calls \subseteq {"profile", "input", "output", "log"}
      BY ElementOfSeq DEF Calls, TypeOK
    <3>2. QED
      BY <2>1, <3>1 DEF Flow, CallsMade
  <2>3. /\ deferred' \in Seq({"profile", "input", "output", "log"})
        /\ LastOutFirst' /\ Calls' = Calls \cup {"log"}
    <3>1. \A x \in Calls : Order[x] < Order["log"]
      BY <2>2 DEF Order
    <3>2. Defer("log")
      BY <1>1 DEF SetUpLog
    <3>3. QED
      BY <3>1, <3>2, Deferring DEF Flow
  <2>4. QED
    BY <2>1, <2>2, <2>3 DEF Flow, CallsMade, Closers, TypeOK, Handle
<1>2. CASE OpenLogDB /\ ~SetUpLog
  <2>1. /\ deferred' = deferred
        /\ \/ pc = "engine" /\ pc' = "log path" /\ open' = open
           \/ pc = "log path" /\ pc' = "turn store" /\ open' = open
           \/ pc = "turn store" /\ pc' = "repl store" /\ open' = open \cup {"turnStore"}
           \/ pc = "repl store" /\ pc' = "log setup" /\ open' = open \cup {"replStore"}
           \/ /\ pc \in {"engine", "log path", "turn store"}
              /\ pc' = "unwind" /\ open' = open
           \/ pc = "repl store" /\ pc' = "unwind" /\ open' = open \ {"turnStore"}
           \/ /\ pc = "log setup" /\ pc' = "unwind"
              /\ \E created \in {{}, {"session"}} :
                   open' = (open \ {"turnStore", "replStore"}) \cup created
    BY <1>2 DEF OpenLogDB, BuildEngineFactory, EngineFactoryFails, RefuseNoLogDB,
                ResolveLogPath, ResolveLogPathFails, OpenTurnStore, OpenTurnStoreFails,
                OpenReplStore, OpenReplStoreFails, SetUpLogFails, OpenFails,
                Advance, Fails, ReturnError
  <2>2. Calls' = Calls
    BY <2>1 DEF Calls
  <2>3. LastOutFirst' /\ CallsMade'
    BY <2>1, <2>2 DEF Flow, LastOutFirst, CallsMade
  <2>4. Closers'
    BY <2>1, <2>2 DEF Flow, CallsMade, Closers
  <2>5. open' \subseteq Handle
    BY <2>1 DEF TypeOK, Handle
  <2>6. deferred' \in Seq({"profile", "input", "output", "log"})
    BY <2>1 DEF TypeOK
  <2>7. QED
    BY <2>2, <2>3, <2>4, <2>5, <2>6 DEF Flow
<1>3. QED
  BY <1>1, <1>2

(* A deferred call closes what it was deferred for. *)
LEMMA DeferredFlow ==
    ASSUME TypeOK, Flow, RunDeferred
    PROVE  Flow' /\ open' \subseteq Handle
                 /\ deferred' \in Seq({"profile", "input", "output", "log"})
<1>1. /\ pc = "unwind" /\ pc' = "unwind" /\ deferred # <<>> /\ deferred' = Tail(deferred)
  BY DEF RunDeferred
<1>2. /\ deferred' \in Seq({"profile", "input", "output", "log"})
      /\ LastOutFirst'
      /\ Pending \in Calls /\ Calls' = Calls \ {Pending}
      /\ \A x \in Calls' : Order[x] < Order[Pending]
  BY <1>1, Undeferring DEF Flow
<1>3. Calls \subseteq {"profile", "input", "output", "log"}
  BY ElementOfSeq DEF Calls, TypeOK
<1>4. /\ Pending = "profile" => open' = open \ {"profile"}
      /\ Pending = "input" => open' = open \ {"inputDB"}
      /\ Pending = "output" => open' = open \ {"outputDB"}
      /\ Pending = "log" => open' = open \ {"turnStore", "replStore"}
  BY DEF RunDeferred, CloseProfile, CloseInput, CloseOutput, CloseLog
<1>5. /\ Pending = "profile" => Calls' = {}
      /\ Pending = "input" => Calls' \subseteq {"profile"}
      /\ Pending = "output" => Calls' \subseteq {"profile", "input"}
  BY <1>2, <1>3 DEF Order
<1>6. CallsMade'
  BY <1>1, <1>2, <1>3, <1>5 DEF Flow, CallsMade
<1>7. Closers'
  BY <1>1, <1>2, <1>3, <1>4, <1>5 DEF Flow, CallsMade, Closers
<1>8. open' \subseteq Handle
  BY <1>2, <1>3, <1>4 DEF TypeOK
<1>9. QED
  BY <1>2, <1>6, <1>7, <1>8 DEF Flow

-----------------------------------------------------------------------------
(* The files on disk. *)

LEMMA ProfileFiles ==
    ASSUME IndInv, Profile, Calls \subseteq Calls', disk' = disk
    PROVE  Removers'
<1>1. /\ run' = run /\ config' = config /\ outcome[run] = "running" /\ c' = c
      /\ pc \in {"resolve", "settings"}
  BY Going DEF IndInv, Run, c, Profile, ResolveProfile, ResolveFails, HaveSettings,
               NoSettings, Advance, Fails, ReturnError
<1>2. "input" \notin Calls /\ "output" \notin Calls /\ "log" \notin Calls
  BY <1>1 DEF IndInv, CallsMade
<1>3. ASSUME NEW f \in disk, f.run = run
      PROVE  f.what # "input" /\ f.what # "output" /\ (f.what = "log" => LogRemoved')
  <2>1. f.what # "input" /\ f.what # "output"
    BY <1>1, <1>2, <1>3 DEF IndInv, Removers, InputRemoved, OutputRemoved
  <2>2. f.what = "log" => c.log # "path" /\ LogStays(run)
    BY <1>1, <1>2, <1>3 DEF IndInv, Removers, LogRemoved
  <2>3. QED
    BY <1>1, <2>1, <2>2 DEF LogRemoved, LogStays
<1>4. QED
  BY <1>1, <1>3 DEF Removers

LEMMA InputFiles ==
    ASSUME IndInv, PrepareInputDB, Flow', Calls \subseteq Calls'
    PROVE  /\ Removers'
           /\ disk' \subseteq disk \cup {InputFile} /\ disk \subseteq disk' \cup {InputFile}
<1>1. \/ /\ pc = "input path" /\ disk' \in {disk, disk \ {InputFile}}
      \/ pc = "help store" /\ pc' = "sections" /\ disk' = disk \cup {InputFile}
      \/ /\ pc = "help store" /\ pc' = "unwind"
         /\ disk' \in {disk, (disk \cup {InputFile}) \ Temporary(InputFile)}
      \/ /\ pc \in {"sections", "close store", "view", "close view", "input db"}
         /\ pc' = "unwind" /\ disk' = disk \ Temporary(InputFile)
      \/ /\ pc \in {"sections", "close store", "view", "close view", "input db"}
         /\ pc' \in {"close store", "view", "close view", "input db", "output path"}
         /\ disk' = disk
  BY DEF PrepareInputDB, MakeInputPath, InputPathFails, CreateHelpStore,
         CreateHelpStoreFails, LoadSections, LoadSectionsFails, CloseHelpStore,
         CloseHelpStoreFails, CreateDocsView, CreateDocsViewFails, CloseViewDB,
         CloseViewDBFails, OpenInputDB, OpenInputDBFails, Advance, Fails, ReturnError
<1>2. run' = run /\ config' = config /\ outcome[run] = "running" /\ c' = c
  BY Going DEF IndInv, Run, c
<1>3. /\ InputFile \in File /\ InputFile.what = "input"
      /\ InputFile.run = IF c.input = "default" THEN run ELSE 0
      /\ run # 0 /\ c.input \in {"default", "path"} /\ disk \subseteq File
  BY Naming DEF IndInv, TypeOK, Options
<1>4. Temporary(InputFile) = IF c.input = "default" THEN {InputFile} ELSE {}
  BY <1>3, TemporaryOnly
<1>5. disk' \subseteq disk \cup {InputFile} /\ disk \subseteq disk' \cup {InputFile}
  BY <1>1, <1>4
<1>6. "output" \notin Calls /\ "log" \notin Calls /\ "input" \notin Calls
  BY <1>1 DEF IndInv, CallsMade
<1>7. ASSUME NEW f \in disk', f.run = run, f.what = "input" PROVE InputRemoved'
  <2>1. f \in disk => c.input = "default" /\ f = InputFile
    BY <1>2, <1>3, <1>7, Named DEF IndInv, Removers, InputRemoved
  <2>2. c.input = "default" /\ f = InputFile
    BY <1>3, <1>5, <1>7, <2>1
  <2>3. f \in disk => pc \in {"sections", "close store", "view", "close view", "input db"}
    BY <1>2, <1>6, <1>7 DEF IndInv, Removers, InputRemoved
  <2>4. pc' \in {"sections", "close store", "view", "close view", "input db", "output path"}
    BY <1>1, <1>4, <1>7, <2>2, <2>3
  <2>5. pc' = "output path" => "input" \in Calls'
    BY DEF Flow, CallsMade
  <2>6. QED
    BY <1>2, <2>2, <2>4, <2>5 DEF InputRemoved
<1>8. ASSUME NEW f \in disk', f.run = run
      PROVE  f.what # "output" /\ (f.what = "log" => LogRemoved')
  <2>1. CASE f = InputFile
    BY <1>3, <2>1
  <2>2. CASE f \in disk
    <3>1. f.what # "output" /\ (f.what = "log" => c.log # "path" /\ LogStays(run))
      BY <1>1, <1>2, <1>6, <1>8, <2>2 DEF IndInv, Removers, OutputRemoved, LogRemoved
    <3>2. QED
      BY <1>2, <3>1 DEF LogRemoved, LogStays
  <2>3. QED
    BY <1>5, <2>1, <2>2
<1>9. QED
  BY <1>2, <1>5, <1>7, <1>8 DEF Removers

LEMMA OutputFiles ==
    ASSUME IndInv, PrepareOutputDB, Flow', Calls \subseteq Calls'
    PROVE  /\ Removers'
           /\ disk' \subseteq disk \cup {OutputFile}
           /\ \A f \in disk : f.run = 0 => f \in disk'
<1>1. /\ pc \in {"output path", "output db"}
      /\ \/ pc' \in {"output db", "unwind"} /\ disk' = disk
         \/ pc' = "engine" /\ disk' = disk \cup {OutputFile}
         \/ pc' = "unwind" /\ disk' = (disk \cup {OutputFile}) \ Temporary(OutputFile)
  BY DEF PrepareOutputDB, MakeOutputPath, OutputPathFails, OpenOutputDB,
         OpenOutputDBFails, Advance, Fails, ReturnError
<1>2. run' = run /\ config' = config /\ outcome[run] = "running" /\ c' = c
  BY Going DEF IndInv, Run, c
<1>3. /\ OutputFile \in File /\ OutputFile.what = "output"
      /\ OutputFile.run = IF c.output = "default" THEN run ELSE 0
      /\ run # 0 /\ c.output \in {"default", "path"} /\ disk \subseteq File
  BY Naming DEF IndInv, TypeOK, Options
<1>4. Temporary(OutputFile) = IF c.output = "default" THEN {OutputFile} ELSE {}
  BY <1>3, TemporaryOnly
<1>5. disk' \subseteq disk \cup {OutputFile} /\ \A f \in disk : f.run = 0 => f \in disk'
  BY <1>1, <1>3, <1>4
<1>6. "output" \notin Calls /\ "log" \notin Calls /\ "input" \in Calls
  BY <1>1 DEF IndInv, CallsMade
<1>7. ASSUME NEW f \in disk', f.run = run, f.what = "output" PROVE OutputRemoved'
  <2>1. f \notin disk
    BY <1>2, <1>6, <1>7 DEF IndInv, Removers, OutputRemoved
  <2>2. f = OutputFile /\ c.output = "default" /\ pc' = "engine"
    BY <1>1, <1>3, <1>4, <1>7, <2>1
  <2>3. QED
    BY <1>2, <2>2 DEF OutputRemoved, Flow, CallsMade
<1>8. ASSUME NEW f \in disk', f.run = run, f.what # "output"
      PROVE  (f.what = "input" => InputRemoved') /\ (f.what = "log" => LogRemoved')
  <2>1. f \in disk
    BY <1>3, <1>5, <1>8
  <2>2. /\ f.what = "input" => c.input = "default"
        /\ f.what = "log" => c.log # "path" /\ LogStays(run)
    BY <1>1, <1>2, <1>6, <1>8, <2>1 DEF IndInv, Removers, InputRemoved, LogRemoved
  <2>3. QED
    BY <1>2, <1>6, <2>2 DEF InputRemoved, LogRemoved, LogStays
<1>9. QED
  BY <1>2, <1>5, <1>7, <1>8 DEF Removers

LEMMA LogFiles ==
    ASSUME IndInv, OpenLogDB, Flow', Calls \subseteq Calls'
    PROVE  /\ Removers'
           /\ disk' \subseteq disk \cup {LogFile} /\ disk \subseteq disk'
<1>1. /\ pc \in {"engine", "log path", "turn store", "repl store", "log setup"}
      /\ \/ pc \in {"engine", "log path"} /\ disk' = disk
         \/ pc = "turn store" /\ pc' = "repl store" /\ disk' = disk \cup {LogFile}
         \/ pc = "repl store" /\ pc' = "log setup" /\ disk' = disk
         \/ pc = "log setup" /\ pc' = "serve" /\ disk' = disk
         \/ /\ OpenFails(pc) /\ disk' \in {disk, disk \cup {LogFile}}
  BY DEF OpenLogDB, BuildEngineFactory, EngineFactoryFails, RefuseNoLogDB,
         ResolveLogPath, ResolveLogPathFails, OpenTurnStore, OpenTurnStoreFails,
         OpenReplStore, OpenReplStoreFails, SetUpLog, SetUpLogFails, OpenFails,
         Advance, Fails, ReturnError
<1>2. run' = run /\ config' = config /\ outcome[run] = "running" /\ c' = c
  BY Going DEF IndInv, Run, c
<1>3. /\ LogFile.what = "log" /\ LogFile.run = IF c.log = "path" THEN 0 ELSE run
      /\ run # 0
  BY Naming DEF IndInv
<1>4. disk' \subseteq disk \cup {LogFile} /\ disk \subseteq disk'
  BY <1>1
<1>5. "output" \in Calls /\ "log" \notin Calls /\ "input" \in Calls
  BY <1>1 DEF IndInv, CallsMade
<1>6. ASSUME OpenFails(pc) PROVE LogStays(run)'
  <2>1. outcome' = [outcome EXCEPT ![run] = "log failed"]
    BY <1>6 DEF OpenFails, ReturnError
  <2>2. outcome'[run] = "log failed"
    BY <2>1, Ending DEF IndInv, Outcome
  <2>3. QED
    BY <1>2, <2>2 DEF LogStays
<1>7. ASSUME NEW f \in disk', f.run = run, f.what = "log" PROVE LogRemoved'
  <2>1. c.log # "path"
    BY <1>2, <1>3, <1>4, <1>7 DEF IndInv, Removers, LogRemoved
  <2>2. f \in disk => pc \in {"repl store", "log setup"} \/ LogStays(run)
    BY <1>2, <1>5, <1>7 DEF IndInv, Removers, LogRemoved
  <2>3. LogStays(run) => LogStays(run)'
    BY <1>2 DEF LogStays
  <2>4. pc' = "serve" => "log" \in Calls'
    BY DEF Flow, CallsMade
  <2>5. pc' \in {"repl store", "log setup"} \/ "log" \in Calls' \/ LogStays(run)'
    BY <1>1, <1>6, <1>7, <2>2, <2>3, <2>4
  <2>6. QED
    BY <1>2, <2>1, <2>5 DEF LogRemoved
<1>8. ASSUME NEW f \in disk', f.run = run, f.what # "log"
      PROVE  (f.what = "input" => InputRemoved') /\ (f.what = "output" => OutputRemoved')
  <2>1. f \in disk
    BY <1>3, <1>4, <1>8
  <2>2. /\ f.what = "input" => c.input = "default"
        /\ f.what = "output" => c.output = "default"
    BY <1>2, <1>8, <2>1 DEF IndInv, Removers, InputRemoved, OutputRemoved
  <2>3. QED
    BY <1>2, <1>5, <2>2 DEF InputRemoved, OutputRemoved
<1>9. QED
  BY <1>2, <1>4, <1>7, <1>8 DEF Removers

LEMMA ServeFiles ==
    ASSUME IndInv, Serve
    PROVE  /\ Flow' /\ Calls' = Calls /\ open' = open /\ deferred' = deferred
           /\ Removers' /\ disk' = disk
<1>1. /\ pc = "serve" /\ pc' = "unwind"
      /\ open' = open /\ deferred' = deferred /\ disk' = disk
  BY DEF Serve
<1>2. Calls' = Calls /\ "log" \in Calls /\ "output" \in Calls /\ "input" \in Calls
  BY <1>1 DEF Calls, IndInv, CallsMade
<1>3. run' = run /\ config' = config /\ outcome[run] = "running" /\ c' = c
  BY Going DEF IndInv, Run, c
<1>4. Flow'
  <2>1. LastOutFirst' /\ CallsMade'
    BY <1>1, <1>2 DEF IndInv, LastOutFirst, CallsMade
  <2>2. Closers'
    BY <1>1, <1>2 DEF IndInv, Closers
  <2>3. QED
    BY <2>1, <2>2 DEF Flow
<1>5. ASSUME NEW f \in disk, f.run = run
      PROVE  /\ f.what = "input" => InputRemoved'
             /\ f.what = "output" => OutputRemoved'
             /\ f.what = "log" => LogRemoved'
  <2>1. /\ f.what = "input" => c.input = "default"
        /\ f.what = "output" => c.output = "default"
        /\ f.what = "log" => c.log # "path"
    BY <1>3, <1>5 DEF IndInv, Removers, InputRemoved, OutputRemoved, LogRemoved
  <2>2. QED
    BY <1>2, <1>3, <2>1 DEF InputRemoved, OutputRemoved, LogRemoved
<1>6. QED
  BY <1>1, <1>2, <1>3, <1>4, <1>5 DEF Removers

(* What UserFilesSurvive says of a file and a step. *)
UserFilesKept == \A f \in disk : f.run = 0 /\ f.what # "input" => f \in disk'

LEMMA RunInv ==
    ASSUME IndInv, Run
    PROVE  IndInv' /\ UserFilesKept
<1> DEFINE Good == /\ Flow' /\ open' \subseteq Handle
                   /\ deferred' \in Seq({"profile", "input", "output", "log"})
                   /\ Removers'
                   /\ disk' \subseteq disk \cup {InputFile, OutputFile, LogFile}
                   /\ UserFilesKept
<1>1. TypeOK /\ Flow
  BY DEF IndInv, Flow
<1>2. {InputFile, OutputFile, LogFile} \subseteq File /\ InputFile.what = "input"
  BY Naming DEF IndInv
<1>3. ASSUME Profile PROVE Good
  <2>1. /\ Flow' /\ open' \subseteq Handle /\ disk' = disk
        /\ deferred' \in Seq({"profile", "input", "output", "log"})
        /\ Calls \subseteq Calls'
    BY <1>1, <1>3, ProfileFlow
  <2>2. Removers'
    BY <1>3, <2>1, ProfileFiles
  <2>3. QED
    BY <2>1, <2>2 DEF UserFilesKept
<1>4. ASSUME PrepareInputDB PROVE Good
  <2>1. /\ Flow' /\ open' \subseteq Handle
        /\ deferred' \in Seq({"profile", "input", "output", "log"})
        /\ Calls \subseteq Calls'
    BY <1>1, <1>4, InputFlow
  <2>2. /\ Removers'
        /\ disk' \subseteq disk \cup {InputFile} /\ disk \subseteq disk' \cup {InputFile}
    BY <1>4, <2>1, InputFiles
  <2>3. QED
    BY <1>2, <2>1, <2>2 DEF UserFilesKept
<1>5. ASSUME PrepareOutputDB PROVE Good
  <2>1. /\ Flow' /\ open' \subseteq Handle
        /\ deferred' \in Seq({"profile", "input", "output", "log"})
        /\ Calls \subseteq Calls'
    BY <1>1, <1>5, OutputFlow
  <2>2. /\ Removers' /\ disk' \subseteq disk \cup {OutputFile}
        /\ \A f \in disk : f.run = 0 => f \in disk'
    BY <1>5, <2>1, OutputFiles
  <2>3. QED
    BY <2>1, <2>2 DEF UserFilesKept
<1>6. ASSUME OpenLogDB PROVE Good
  <2>1. /\ Flow' /\ open' \subseteq Handle
        /\ deferred' \in Seq({"profile", "input", "output", "log"})
        /\ Calls \subseteq Calls'
    BY <1>1, <1>6, LogFlow
  <2>2. Removers' /\ disk' \subseteq disk \cup {LogFile} /\ disk \subseteq disk'
    BY <1>6, <2>1, LogFiles
  <2>3. QED
    BY <2>1, <2>2 DEF UserFilesKept
<1>7. ASSUME Serve PROVE Good
  <2>1. /\ Flow' /\ open' = open /\ deferred' = deferred /\ Removers' /\ disk' = disk
    BY <1>7, ServeFiles
  <2>2. QED
    BY <1>1, <2>1 DEF UserFilesKept, TypeOK
<1>8. Good
  BY <1>3, <1>4, <1>5, <1>6, <1>7 DEF Run
<1>9. /\ run' = run /\ config' = config /\ pc \notin {"unwind", "ended"}
      /\ outcome[run] = "running" /\ pc' \in Step
      /\ \/ outcome' = outcome /\ pc' \notin {"unwind", "ended"}
         \/ /\ outcome'[run] \in {"ok", "error", "log failed"}
            /\ pc' = "unwind"
            /\ \A n \in 1 .. run : n # run => outcome'[n] = outcome[n]
      /\ outcome' \in Seq(Outcome) /\ Len(outcome') = run
  BY Going DEF IndInv
<1>10. disk' \subseteq File
  BY <1>1, <1>2, <1>8 DEF TypeOK
<1>11. TypeOK'
  BY <1>1, <1>8, <1>9, <1>10 DEF TypeOK
<1>12. OutcomeAtTheEnd'
  BY <1>9 DEF OutcomeAtTheEnd
<1>13. EarlierFiles'
  BY <1>8, <1>9, <1>10, EarlierKept DEF IndInv
<1>14. QED
  BY <1>8, <1>11, <1>12, <1>13 DEF IndInv, Flow

-----------------------------------------------------------------------------
(* The deferred calls, the end and the next process. *)

LEMMA DeferredInv ==
    ASSUME IndInv, RunDeferred
    PROVE  IndInv' /\ UserFilesKept
<1>1. /\ pc = "unwind" /\ pc' = "unwind" /\ deferred # <<>> /\ deferred' = Tail(deferred)
      /\ run' = run /\ config' = config /\ outcome' = outcome /\ c' = c
  BY DEF RunDeferred, c
<1>2. /\ Flow' /\ open' \subseteq Handle
      /\ deferred' \in Seq({"profile", "input", "output", "log"})
  BY DeferredFlow DEF IndInv, Flow
<1>3. Pending \in Calls /\ Calls' = Calls \ {Pending}
  BY <1>1, Undeferring DEF IndInv
<1>4. Calls \subseteq {"profile", "input", "output", "log"}
  BY ElementOfSeq DEF IndInv, Calls, TypeOK
<1>5. /\ InputFile \in File /\ InputFile.what = "input"
      /\ InputFile.run = IF c.input = "default" THEN run ELSE 0
      /\ OutputFile \in File /\ OutputFile.what = "output"
      /\ OutputFile.run = IF c.output = "default" THEN run ELSE 0
      /\ LogFile.what = "log" /\ LogFile.run = IF c.log = "path" THEN 0 ELSE run
      /\ run # 0 /\ disk \subseteq File /\ c.log \in {"default", "blank", "path"}
  BY Naming DEF IndInv, TypeOK, Options
<1>6. /\ Temporary(InputFile) = IF c.input = "default" THEN {InputFile} ELSE {}
      /\ Temporary(OutputFile) = IF c.output = "default" THEN {OutputFile} ELSE {}
  BY <1>5, TemporaryOnly
<1>7. /\ Pending = "profile" => disk' = disk
      /\ Pending = "input" => disk' = disk \ Temporary(InputFile)
      /\ Pending = "output" => disk' = disk \ Temporary(OutputFile)
      /\ Pending = "log" => disk' = IF RemovesLog THEN disk \ {LogFile} ELSE disk
  BY DEF RunDeferred, CloseProfile, CloseInput, CloseOutput, CloseLog
<1>8. disk' \subseteq disk
  BY <1>3, <1>4, <1>7
<1>9. UserFilesKept
  <2>1. ASSUME NEW f \in disk, f.run = 0, f \notin disk' PROVE FALSE
    <3>1. Pending = "log" /\ RemovesLog => f # LogFile
      BY <1>5, <2>1 DEF RemovesLog
    <3>2. QED
      BY <1>3, <1>4, <1>5, <1>6, <1>7, <2>1, <3>1
  <2>2. QED
    BY <2>1 DEF UserFilesKept
<1>10. Removers'
  <2>1. SUFFICES ASSUME NEW f \in disk', f.run = run
                 PROVE  /\ f.what = "input" => InputRemoved'
                        /\ f.what = "output" => OutputRemoved'
                        /\ f.what = "log" => LogRemoved'
    BY <1>1 DEF Removers
  <2>2. /\ f \in File
        /\ f.what = "input" => InputRemoved
        /\ f.what = "output" => OutputRemoved
        /\ f.what = "log" => LogRemoved
    BY <1>1, <1>5, <1>8, <2>1 DEF IndInv, OutcomeAtTheEnd, Removers
  <2>3. f.what = "input" => InputRemoved'
    <3>1. ASSUME f.what = "input", Pending = "input" PROVE FALSE
      <4>1. c.input = "default" /\ f = InputFile
        BY <2>1, <2>2, <3>1, Named DEF IndInv, InputRemoved
      <4>2. QED
        BY <1>6, <1>7, <2>1, <3>1, <4>1
    <3>2. QED
      BY <1>1, <1>3, <2>2, <3>1 DEF InputRemoved
  <2>4. f.what = "output" => OutputRemoved'
    <3>1. ASSUME f.what = "output", Pending = "output" PROVE FALSE
      <4>1. c.output = "default" /\ f = OutputFile
        BY <2>1, <2>2, <3>1, Named DEF IndInv, OutputRemoved
      <4>2. QED
        BY <1>6, <1>7, <2>1, <3>1, <4>1
    <3>2. QED
      BY <1>1, <1>3, <2>2, <3>1 DEF OutputRemoved
  <2>5. f.what = "log" => LogRemoved'
    <3>1. ASSUME f.what = "log", Pending = "log" PROVE LogStays(run)
      <4>1. c.log # "path" /\ f = LogFile
        BY <2>1, <2>2, <3>1, Named DEF IndInv, LogRemoved
      <4>2. ~RemovesLog
        BY <1>7, <2>1, <3>1, <4>1
      <4>3. QED
        BY <1>5, <4>1, <4>2 DEF RemovesLog, LogStays, c
    <3>2. QED
      BY <1>1, <1>3, <2>2, <3>1 DEF LogRemoved, LogStays
  <2>6. QED
    BY <2>3, <2>4, <2>5
<1>11. disk' \subseteq disk \cup {InputFile, OutputFile, LogFile} /\ disk' \subseteq File
  BY <1>5, <1>8
<1>12. EarlierFiles'
  BY <1>1, <1>11, EarlierKept DEF IndInv
<1>13. TypeOK' /\ OutcomeAtTheEnd'
  BY <1>1, <1>2, <1>11 DEF IndInv, TypeOK, OutcomeAtTheEnd
<1>14. QED
  BY <1>2, <1>9, <1>10, <1>12, <1>13 DEF IndInv, Flow

LEMMA ExitInv ==
    ASSUME IndInv, Exit
    PROVE  IndInv' /\ UserFilesKept
<1>1. /\ pc = "unwind" /\ pc' = "ended" /\ deferred = <<>>
      /\ deferred' = deferred /\ open' = open /\ disk' = disk
      /\ run' = run /\ config' = config /\ outcome' = outcome /\ c' = c
  BY DEF Exit, c
<1>2. Calls = {} /\ Calls' = {}
  BY <1>1 DEF Calls
<1>3. TypeOK' /\ LastOutFirst' /\ CallsMade' /\ OutcomeAtTheEnd'
  BY <1>1, <1>2 DEF IndInv, TypeOK, Step, LastOutFirst, CallsMade, OutcomeAtTheEnd
<1>4. Closers'
  BY <1>1, <1>2 DEF IndInv, Closers
<1>5. EarlierFiles'
  BY <1>1, EarlierKept DEF IndInv, TypeOK
<1>6. Removers'
  BY <1>1, <1>2 DEF IndInv, OutcomeAtTheEnd, Removers, InputRemoved, OutputRemoved, LogRemoved,
                    LogStays
<1>7. QED
  BY <1>1, <1>3, <1>4, <1>5, <1>6 DEF IndInv, UserFilesKept

LEMMA KillInv ==
    ASSUME IndInv, Kill
    PROVE  IndInv' /\ UserFilesKept
<1>1. /\ pc # "ended" /\ pc' = "ended" /\ deferred' = <<>> /\ open' = {}
      /\ run' = run /\ config' = config /\ disk' = disk
      /\ outcome' = [outcome EXCEPT ![run] = "killed"]
  BY DEF Kill
<1>2. /\ outcome' \in Seq(Outcome) /\ Len(outcome') = run /\ outcome'[run] = "killed"
      /\ \A n \in 1 .. run : n # run => outcome'[n] = outcome[n]
  BY <1>1, Ending DEF IndInv, Outcome
<1>3. Calls' = {}
  BY <1>1 DEF Calls
<1>4. LastOutFirst' /\ CallsMade' /\ Closers'
  BY <1>1, <1>3 DEF LastOutFirst, CallsMade, Closers
<1>5. TypeOK' /\ OutcomeAtTheEnd' /\ Removers'
  <2>1. deferred' \in Seq({"profile", "input", "output", "log"})
    BY <1>1, EmptySeq
  <2>2. QED
    BY <1>1, <1>2, <2>1 DEF IndInv, TypeOK, Step, OutcomeAtTheEnd, Removers
<1>6. EarlierFiles'
  BY <1>1, <1>2, EarlierKept DEF IndInv, TypeOK
<1>7. QED
  BY <1>1, <1>4, <1>5, <1>6 DEF IndInv, UserFilesKept

(* What the ended process leaves is what the next one finds. *)
LEMMA LeftBehind ==
    ASSUME IndInv, NEW f \in disk, f.run # 0, pc = "ended" \/ f.run # run
    PROVE  /\ f.run \in 1 .. run
           /\ outcome[f.run] = "killed" \/ (f.what = "log" /\ LogStays(f.run))
<1>1. f \in File /\ f.run \in Nat /\ f.run <= run /\ run \in Nat
  BY Naming DEF IndInv, TypeOK, File, EarlierFiles
<1>2. CASE f.run # run
  BY <1>1, <1>2 DEF IndInv, EarlierFiles
<1>3. CASE f.run = run
  <2>1. Calls = {} /\ pc = "ended"
    BY <1>3 DEF IndInv, CallsMade
  <2>2. f.what \in {"input", "output", "log"}
    BY <1>1 DEF File
  <2>3. QED
    BY <1>1, <1>3, <2>1, <2>2
       DEF IndInv, Removers, InputRemoved, OutputRemoved, LogRemoved
<1>4. QED
  BY <1>2, <1>3

LEMMA StartInv ==
    ASSUME IndInv, StartAgain
    PROVE  IndInv' /\ UserFilesKept
<1>1. /\ pc = "ended" /\ pc' = "resolve" /\ run < MaxRuns /\ run' = run + 1
      /\ deferred' = deferred /\ open' = {} /\ disk' = disk
      /\ outcome' = Append(outcome, "running")
  BY DEF StartAgain
<1>2. PICK x \in Config : config' = Append(config, x)
  BY DEF StartAgain
<1>3. /\ run \in Nat /\ run \in 1 .. MaxRuns /\ MaxRuns \in Nat
      /\ outcome \in Seq(Outcome) /\ Len(outcome) = run
      /\ config \in Seq(Config) /\ Len(config) = run
  BY Naming DEF IndInv, TypeOK
<1>4. /\ outcome' \in Seq(Outcome) /\ Len(outcome') = run' /\ outcome'[run'] = "running"
      /\ \A n \in 1 .. run : outcome'[n] = outcome[n]
  <2>1. "running" \in Outcome
    BY DEF Outcome
  <2>2. QED
    BY <1>1, <1>3, <2>1, AppendProperties
<1>5. /\ config' \in Seq(Config) /\ Len(config') = run'
      /\ \A n \in 1 .. run : config'[n] = config[n]
  BY <1>1, <1>2, <1>3, AppendProperties
<1>6. Calls = {} /\ Calls' = {}
  BY <1>1 DEF Calls, IndInv, CallsMade
<1>7. LastOutFirst' /\ CallsMade' /\ OutcomeAtTheEnd'
  BY <1>1, <1>4, <1>6 DEF IndInv, LastOutFirst, CallsMade, OutcomeAtTheEnd
<1>8. Closers'
  BY <1>1, <1>6 DEF IndInv, Closers
<1>9. TypeOK'
  BY <1>1, <1>3, <1>4, <1>5 DEF IndInv, TypeOK, Step
<1>10. ASSUME NEW f \in disk
       PROVE  /\ f.run # run' /\ f.run <= run'
              /\ f.run # 0 => outcome'[f.run] = "killed" \/ (f.what = "log" /\ LogStays(f.run)')
  <2>1. CASE f.run = 0
    BY <1>1, <1>3, <2>1
  <2>2. CASE f.run # 0
    <3>1. /\ f.run \in 1 .. run
          /\ outcome[f.run] = "killed" \/ (f.what = "log" /\ LogStays(f.run))
      BY <1>1, <2>2, LeftBehind
    <3>2. outcome'[f.run] = outcome[f.run] /\ config'[f.run] = config[f.run]
      BY <1>4, <1>5, <3>1
    <3>3. f.run # run' /\ f.run <= run'
      BY <1>1, <1>3, <3>1
    <3>4. LogStays(f.run) => LogStays(f.run)'
      BY <3>2 DEF LogStays
    <3>5. QED
      BY <3>1, <3>2, <3>3, <3>4
  <2>3. QED
    BY <2>1, <2>2
<1>11. Removers' /\ EarlierFiles'
  BY <1>1, <1>10 DEF Removers, EarlierFiles
<1>12. QED
  BY <1>1, <1>7, <1>8, <1>9, <1>11 DEF IndInv, UserFilesKept

LEMMA InitInv ==
    ASSUME Init
    PROVE  IndInv
<1>1. PICK x \in Config : config = <<x>>
  BY DEF Init
<1>2. /\ run = 1 /\ 1 \in 1 .. MaxRuns /\ pc = "resolve" /\ deferred = <<>> /\ open = {}
      /\ outcome = <<"running">> /\ MaxRuns \in Nat
      /\ disk \subseteq [what: {"input", "output", "log"}, run: {0}]
  BY RunAssumption DEF Init
<1>3. config \in Seq(Config) /\ Len(config) = run
  BY <1>1, <1>2
<1>4. outcome \in Seq(Outcome) /\ Len(outcome) = run /\ outcome[run] = "running"
  BY <1>2 DEF Outcome
<1>5. disk \subseteq File /\ \A f \in disk : f.run = 0
  BY <1>2 DEF File
<1>6. deferred \in Seq({"profile", "input", "output", "log"})
  BY <1>2, EmptySeq
<1>7. Calls = {}
  BY <1>2 DEF Calls
<1>8. TypeOK /\ LastOutFirst /\ CallsMade /\ Closers
  BY <1>2, <1>3, <1>4, <1>5, <1>6, <1>7
     DEF TypeOK, Step, LastOutFirst, CallsMade, Closers
<1>9. OutcomeAtTheEnd /\ Removers /\ EarlierFiles
  BY <1>2, <1>4, <1>5 DEF OutcomeAtTheEnd, Removers, EarlierFiles
<1>10. QED
  BY <1>8, <1>9 DEF IndInv

LEMMA StepInv ==
    ASSUME IndInv, [Next]_vars
    PROVE  IndInv' /\ UserFilesKept
<1>1. CASE UNCHANGED vars
  <2>1. Calls' = Calls /\ c' = c
    BY <1>1 DEF vars, Calls, c
  <2>2. TypeOK' /\ LastOutFirst' /\ CallsMade' /\ Closers' /\ OutcomeAtTheEnd'
    BY <1>1, <2>1 DEF IndInv, vars, TypeOK, LastOutFirst, CallsMade, Closers, OutcomeAtTheEnd
  <2>3. Removers' /\ EarlierFiles' /\ UserFilesKept
    BY <1>1, <2>1 DEF IndInv, vars, Removers, EarlierFiles, InputRemoved, OutputRemoved,
                      LogRemoved, LogStays, UserFilesKept
  <2>4. QED
    BY <2>2, <2>3 DEF IndInv
<1>2. CASE Run
  BY <1>2, RunInv
<1>3. CASE Unwind
  BY <1>3, DeferredInv, ExitInv DEF Unwind
<1>4. CASE Kill
  BY <1>4, KillInv
<1>5. CASE StartAgain
  BY <1>5, StartInv
<1>6. QED
  BY <1>1, <1>2, <1>3, <1>4, <1>5 DEF Next, Done

LEMMA InvHolds == Spec => []IndInv
<1>1. Init => IndInv
  BY InitInv
<1>2. IndInv /\ [Next]_vars => IndInv'
  BY StepInv
<1>3. QED
  BY <1>1, <1>2, PTL DEF Spec

-----------------------------------------------------------------------------
(* The theorems. *)

(* The steps of run, its deferred calls and its files keep to their values.   *)
THEOREM RunTypeCorrect == Spec => []TypeOK
<1>1. IndInv => TypeOK
  BY DEF IndInv
<1>2. QED
  BY <1>1, InvHolds, PTL

(* Wherever run returns, its deferred calls and its error paths have closed   *)
(* every database handle and the profile; only the session is left, which     *)
(* nothing in logdb.go closes.                                                *)
THEOREM HandlesClosed == Spec => []OnlySessionLeftOpen
<1>1. IndInv => OnlySessionLeftOpen
  <2> SUFFICES ASSUME IndInv, pc = "ended" PROVE open \subseteq {"session"}
    BY DEF OnlySessionLeftOpen
  <2>1. Calls = {}
    BY DEF IndInv, CallsMade
  <2>2. open \subseteq Handle
    BY DEF IndInv, TypeOK
  <2>3. QED
    BY <2>1, <2>2 DEF IndInv, Closers, Handle
<1>2. QED
  BY <1>1, InvHolds, PTL

(* The last deferred call is the log's: while its stores are open, so are the *)
(* databases that the JavaScript session of the log works on.                 *)
THEOREM LogClosesFirst == Spec => []LogClosedFirst
<1>1. IndInv => LogClosedFirst
  BY DEF IndInv, LogClosedFirst, CallsMade, Closers
<1>2. QED
  BY <1>1, InvHolds, PTL

(* Close of logdb and of helpdb, and the cleanups of the preparation, leave   *)
(* no other temporary file than a log that is to stay.                        *)
THEOREM LeftoversAccountedFor == Spec => []LeftoversExplained
<1>1. IndInv => LeftoversExplained
  <2> SUFFICES ASSUME IndInv, NEW f \in disk, f.run # 0, ~(f.run = run /\ pc # "ended")
               PROVE  \/ outcome[f.run] = "killed"
                      \/ f.what = "log" /\ LogStays(f.run)
    BY DEF LeftoversExplained, LogStays
  <2>1. QED
    BY LeftBehind
<1>2. QED
  BY <1>1, InvHolds, PTL

(* Every removal in the code is of a temporary file or of the input database. *)
THEOREM NamedFilesKept == Spec => UserFilesSurvive
<1>1. IndInv /\ [Next]_vars => UserFilesKept
  BY StepInv
<1>2. IndInv /\ [Next]_vars
      => [\A f \in disk : f.run = 0 /\ f.what # "input" => f \in disk']_vars
  BY <1>1 DEF UserFilesKept
<1>3. QED
  BY <1>2, InvHolds, PTL DEF Spec, UserFilesSurvive

===============================================================================
