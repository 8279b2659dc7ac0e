------------------------------ MODULE ChatTurns ------------------------------
(***************************************************************************)
(* The conversation: repl and runPrompt of cmd/chat/main.go, and the turns *)
(* that TurnLogger of internal/logdb/turn_persister.go stores of it.       *)
(*                                                                         *)
(* The seed is the turn the next prompt continues from; only a prompt that *)
(* was answered moves it.  The runner is external: it copies the seed,     *)
(* appends the prompt, gives the turn an ID of its own, calls the model    *)
(* and the tools, hands the turn to the snapshot hook on the way and to    *)
(* the persister at the end, and returns the turn or an error.             *)
(* Whether an error of the persister becomes one of the run is the         *)
(* runner's choice.                                                        *)
(*                                                                         *)
(* A turn is the sequence of its blocks.  A block is the number of the     *)
(* prompt it belongs to; the system block, the same in every turn, is left *)
(* out.                                                                    *)
(***************************************************************************)
EXTENDS Naturals, Sequences, FiniteSets, SequencesExt

CONSTANTS
    MaxPrompts,     \* bound: prompts asked
    MaxBlocks,      \* bound: blocks the model and the tools add to one answer
    MaxTime,        \* bound: milliseconds that pass
    MaxUnsaved      \* bound: snapshots that cannot be stored

ASSUME TurnsAssumption == {MaxPrompts, MaxBlocks, MaxTime, MaxUnsaved} \subseteq Nat

VARIABLES
    mode,       \* "args": one prompt from the command line; "repl": standard input
    snapshots,  \* flag log-db-turn-snapshots
    pc,         \* "waiting" for input, "running" a prompt, "ended"
    seed,       \* the turn to continue from
    current,    \* the turn the runner works on
    phase,      \* the last point of the tool loop it has passed
    answered,   \* answered[n]: "running", "ok" or "error", as runPrompt returned
    since,      \* since[n]: the number of resets before prompt n
    resets,     \* conversations started anew
    stored,     \* the snapshots in the log database
    unsaved,    \* pairs <<n, phase>> of prompts and snapshots that were not stored
    now         \* time.Now().UnixMilli()

vars == <<mode, snapshots, pc, seed, current, phase, answered, since, resets,
          stored, unsaved, now>>

Phase == {"pre_inference", "post_inference", "post_tools", "final"}

(* ID 0 is a turn that has none yet. *)
Turn == [id: 0 .. MaxPrompts, blocks: Seq(1 .. MaxPrompts)]

(* A key of the turn store and the blocks stored under it. *)
Snapshot == [id: 1 .. MaxPrompts, phase: Phase, ms: 0 .. MaxTime,
             blocks: Seq(1 .. MaxPrompts)]

TypeOK ==
    /\ mode \in {"args", "repl"}
    /\ snapshots \in BOOLEAN
    /\ pc \in {"waiting", "running", "ended"}
    /\ {seed, current} \subseteq Turn
    /\ phase \in Phase \cup {"start"}
    /\ answered \in Seq({"running", "ok", "error"})
    /\ Len(answered) <= MaxPrompts
    /\ since \in Seq(0 .. resets) /\ Len(since) = Len(answered)
    /\ resets \in 0 .. MaxPrompts
    /\ stored \subseteq Snapshot
    /\ unsaved \subseteq (1 .. MaxPrompts) \X Phase
    /\ now \in 0 .. MaxTime

-----------------------------------------------------------------------------

initialTurn == [id |-> 0, blocks |-> <<>>]

Init ==
    /\ mode \in {"args", "repl"}
    /\ snapshots \in BOOLEAN
    /\ pc = "waiting"
    /\ seed = initialTurn
    /\ current = initialTurn
    /\ phase = "start"
    /\ answered = <<>>
    /\ since = <<>>
    /\ resets = 0
    /\ stored = {}
    /\ unsaved = {}
    /\ now = 0

(* The prompt that was asked last. *)
latest == Len(answered)

(* What repl does next: another line, or the end of a single prompt. *)
NextInput == IF mode = "args" THEN "ended" ELSE "waiting"

-----------------------------------------------------------------------------
(* Standard input.  A blank line and :help change nothing. *)

(* Mutant: the conversation is reset in a copy. *)
ResetCopy ==
    /\ pc = "waiting" /\ mode = "repl"
    /\ resets < MaxPrompts
    /\ resets' = resets + 1
    /\ UNCHANGED <<mode, snapshots, pc, seed, current, phase, answered, since,
                   stored, unsaved, now>>

Reset ==
    /\ pc = "waiting" /\ mode = "repl"
    /\ resets < MaxPrompts
    /\ seed' = initialTurn
    /\ resets' = resets + 1
    /\ UNCHANGED <<mode, snapshots, pc, current, phase, answered, since,
                   stored, unsaved, now>>

(* :quit, :exit, the end or an error of the input, and a failing output. *)
Quit ==
    /\ pc = "waiting" /\ mode = "repl"
    /\ pc' = "ended"
    /\ UNCHANGED <<mode, snapshots, seed, current, phase, answered, since,
                   resets, stored, unsaved, now>>

(* Mutant: a turn without an ID stays without one. *)
ContinueWithoutID(turn, n) == [turn EXCEPT !.blocks = Append(@, n)]

(* The runner's copy of the seed with the prompt, under an ID never used. *)
Continue(turn, n) == [id |-> n, blocks |-> Append(turn.blocks, n)]

Ask ==
    /\ pc = "waiting"
    /\ latest < MaxPrompts
    /\ pc' = "running"
    /\ answered' = Append(answered, "running")
    /\ since' = Append(since, resets)
    /\ current' = Continue(seed, latest + 1)
    /\ phase' = "start"
    /\ UNCHANGED <<mode, snapshots, seed, resets, stored, unsaved, now>>

-----------------------------------------------------------------------------
(* The runner's loop. *)

(* Mutant: the session in the place of the turn. *)
SaveUnderSession(turn, p) ==
    LET SameKey(s) == s.phase = p /\ s.ms = now
    IN  /\ stored' = {s \in stored : ~SameKey(s)}
                     \cup {[id |-> turn.id, phase |-> p, ms |-> now, blocks |-> turn.blocks]}
        /\ UNCHANGED unsaved

(* Save replaces what it finds under the same key. *)
Save(turn, p) ==
    LET SameKey(s) == s.id = turn.id /\ s.phase = p /\ s.ms = now
    IN  /\ stored' = {s \in stored : ~SameKey(s)}
                     \cup {[id |-> turn.id, phase |-> p, ms |-> now, blocks |-> turn.blocks]}
        /\ UNCHANGED unsaved

(* SaveSnapshot fails to serialise the turn, or Save fails. *)
SaveFails(p) ==
    /\ Cardinality(unsaved) < MaxUnsaved
    /\ unsaved' = unsaved \cup {<<latest, p>>}
    /\ UNCHANGED stored

(* SnapshotHook: installed on request; its error goes nowhere, strict or not. *)
SnapshotHook(turn, p) ==
    IF snapshots THEN Save(turn, p) \/ SaveFails(p) ELSE UNCHANGED <<stored, unsaved>>

LoopStep(from, to, turn) ==
    /\ pc = "running"
    /\ phase \in from
    /\ phase' = to
    /\ current' = turn
    /\ SnapshotHook(turn, to)
    /\ UNCHANGED <<mode, snapshots, pc, seed, answered, since, resets, now>>

WithBlock(turn) == [turn EXCEPT !.blocks = Append(@, latest)]

HasRoom == Len(SelectSeq(current.blocks, LAMBDA n : n = latest)) <= MaxBlocks

PreInference == LoopStep({"start", "post_tools"}, "pre_inference", current)

PostInference ==
    HasRoom /\ LoopStep({"pre_inference"}, "post_inference", WithBlock(current))

PostTools == HasRoom /\ LoopStep({"post_inference"}, "post_tools", WithBlock(current))

Tick ==
    /\ now < MaxTime
    /\ now' = now + 1
    /\ UNCHANGED <<mode, snapshots, pc, seed, current, phase, answered, since,
                   resets, stored, unsaved>>

-----------------------------------------------------------------------------
(* The end of runPrompt. *)

Returns(result) ==
    /\ pc = "running"
    /\ pc' = NextInput
    /\ answered' = [answered EXCEPT ![latest] = result]
    /\ UNCHANGED <<mode, snapshots, current, phase, since, resets, now>>

(* Mutant: the prompt stays in the conversation. *)
RunFailsKeepingPrompt ==
    /\ Returns("error")
    /\ seed' = current
    /\ UNCHANGED <<stored, unsaved>>

(* The error is printed, or returned for a single prompt; the seed is kept. *)
RunFails ==
    /\ Returns("error")
    /\ UNCHANGED <<seed, stored, unsaved>>

(* Mutant: the persister stores under the phase it was last told. *)
PersistTurnAsSnapshot(turn) == Save(turn, phase)

PersistTurn(turn) == Save(turn, "final")

(* Mutant: the answer is shown and forgotten. *)
AnsweredForgotten ==
    /\ phase = "post_inference"
    /\ Returns("ok")
    /\ \/ PersistTurn(current)
       \/ SaveFails("final")
    /\ UNCHANGED seed

(* The updated turn is stored by the runner, as the last thing of a run that *)
(* has succeeded, then it becomes the seed.                                  *)
Answered ==
    /\ phase = "post_inference"
    /\ Returns("ok")
    /\ seed' = current
    /\ \/ PersistTurn(current)
       \/ SaveFails("final")

(* The runner may return the persister's error. *)
NotStored ==
    /\ phase = "post_inference"
    /\ Returns("error")
    /\ SaveFails("final")
    /\ UNCHANGED seed

Done == pc = "ended" /\ UNCHANGED vars

Loop == PreInference \/ PostInference \/ PostTools

Next == Reset \/ Quit \/ Ask \/ Loop \/ Tick \/ RunFails \/ Answered \/ NotStored \/ Done

Spec == Init /\ [][Next]_vars

-----------------------------------------------------------------------------

(* A prompt that failed is out of the conversation: no later turn continues  *)
(* from it, and no final turn in the log shows it.                           *)
FailedPromptsForgotten ==
    \A n \in 1 .. latest : answered[n] = "error" =>
        /\ ~Contains(seed.blocks, n)
        /\ \A s \in stored : s.phase = "final" => ~Contains(s.blocks, n)

(* After :reset nothing of the earlier conversation is sent to the model or  *)
(* stored with a later prompt: the blocks of a turn are of one conversation. *)
OneConversation ==
    /\ \A turn \in {current} \cup stored : \A m, n \in ToSet(turn.blocks) : since[m] = since[n]
    /\ \A n \in ToSet(seed.blocks) : since[n] = resets

(* The turn the user continues from can be found in the log as a final turn  *)
(* with the same blocks, unless storing it failed, whatever snapshots the    *)
(* prompts after it have stored.                                             *)
ContinuesFromRecord ==
    \/ seed = initialTurn
    \/ <<Last(seed.blocks), "final">> \in unsaved
    \/ \E s \in stored : s.phase = "final" /\ s.id = seed.id /\ s.blocks = seed.blocks

(* The final turns of one conversation extend one another, whatever failed   *)
(* between them and whatever could not be stored.                            *)
FinalTurnsChain ==
    \A s, t \in stored :
        /\ s.phase = "final" /\ t.phase = "final"
        /\ since[Last(s.blocks)] = since[Last(t.blocks)]
        => IsPrefix(s.blocks, t.blocks) \/ IsPrefix(t.blocks, s.blocks)

(* A snapshot in the log is never lost: one of the same turn, phase and      *)
(* millisecond may take its place, but only with all of its blocks.          *)
SnapshotsOnlyExtended ==
    [][\A s \in stored : \E t \in stored' :
          /\ t.id = s.id /\ t.phase = s.phase /\ t.ms = s.ms
          /\ IsPrefix(s.blocks, t.blocks)]_vars

(* In strict mode a run whose logging failed is not reported as a success    *)
(* (flag log-db-strict: "Fail the chat run if private logging persistence    *)
(* fails").                                                                  *)
StrictSnapshots ==
    \A n \in 1 .. latest : answered[n] = "ok" =>
        \A p \in Phase \ {"final"} : <<n, p>> \notin unsaved

===============================================================================
