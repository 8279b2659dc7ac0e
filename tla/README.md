# A verification project for the chat agent

This directory holds TLA+ models of the chat agent of this repository (a terminal
program, `chat run`, that answers prompts with a language model and gives the
model one tool, `eval_js`), the TLC configurations that check them on small
instances, and theorems about them that TLAPS checks for all instances.
Paths below are relative to the root of the repository; `main.go`,
`run_command.go`, `inspect.go` and `stream_stdout.go` are in `cmd/chat`.

1. [The system](#1-the-system)
2. [The modules and the code](#2-the-modules-and-the-code)
3. [The runs](#3-the-runs)
4. [Fairness](#4-fairness)
5. [What is proved](#5-what-is-proved)
6. [Where the code and its documentation disagree](#6-where-the-code-and-its-documentation-disagree)
7. [What is not modelled](#7-what-is-not-modelled)
8. [The plan](#8-the-plan)

## 1. The system

One process runs one chat. It opens three SQLite databases, serves prompts, and
releases what it opened.

    standard input --> repl --> runPrompt --> runner (library) --> provider
                                   |             |      |
                            seed turn            |      +-- tool executor --> EvalTool.Eval
                                                 |                               |  1 set `input`
                        events, many goroutines  |                               |  2 evaluate a cell
                                                 v                               |  3 insert a row
                                          stdoutStreamSink                       v
                                                 |                      REPL session (library),
                                             terminal                   inputDB and outputDB facades
                                                 
    snapshot hook, persister --> TurnLogger --> log database <-- rows and cells of eval_js

| Component | State it keeps | Operations | What makes it correct |
|---|---|---|---|
| `eval_js` (`internal/logdb/eval_tool.go`) | none of its own: the VM of the REPL session, its table of cells, the table `eval_tool_calls` | `Eval`: set the globals, evaluate, convert, insert | a row names the cell that ran its code and no other row does; the answer agrees with the record; a cell finds the input of its own call, or of one that overlaps it; strict mode, and nothing else, turns a lost row into an error; every call is answered |
| eval runtime (`internal/evaljs/runtime.go`) | tool specification, scope | `Build`, `Registrar`, `NewSpec`, the scope initializer | the tool that is registered is the replapi-backed one, under the options that were asked for |
| streaming sink (`stream_stdout.go`) | mutex, `assistantStarted`, `thinkingStarted`, `lastWasDelta` | `PublishEvent` and its handlers | events are printed whole; text is under its label; tool lines start lines; nobody waits for ever |
| previews (`stream_stdout.go`, `inspect.go`) | none | `truncateOneLine`, `truncateMultiline`, `preview` | what is shown is within the limit, a beginning of the text, and on one line where that is promised |
| lifecycle of a run (`main.go`, `internal/helpdb`, `internal/logdb/logdb.go`) | handles, temporary directories and files, deferred calls | `run`, `PrepareInputDB`, `PrepareOutputDB`, `logdb.Open`, the `Close`s | whatever fails, every database handle is closed, in an order in which nothing is used after it is closed; what stays on disk stays for a reason |
| input database (`internal/helpdb/helpdb.go`, shared by all processes with one `--input-db`) | the file at the path, the help store while it is loaded, a read-only handle | remove, create and load, add the view, open, first query | a process that was not disturbed reads the sections of its own binary; a section that was read once stays readable; programs cannot change it through `inputDB`, which does not hold ([section 6](#6-where-the-code-and-its-documentation-disagree)) |
| REPL and conversation (`main.go`) | the seed turn | `repl`, `runPrompt`, `:reset` | failed prompts leave the conversation as it was; conversations do not mix |
| turn persistence (`internal/logdb/turn_persister.go`) | none of its own: the turn store | `PersistTurn`, `SnapshotHook`, `SaveSnapshot` | the log holds what the conversation continues from and every snapshot it was given |
| log database (`internal/logdb/logdb.go`) | the app's tables and the session row | migration, `recordSession` | set up completely or not handed out |
| database facades (`internal/jsdb`) | none | `Query`, `Exec`, `Schema` | `inputDB` lets reads through and refuses the rest |
| `chat inspect` (`inspect.go`) | none | read-only queries | what is read first names nothing that a later read lacks, except what the limit cut off |
| command line (`main.go`, `run_command.go`) | none | registration and decoding of flags | |
| help documents (`internal/helpdocs`) | embedded files | | each binary has sections of its own, which matters to the input database |

The components meet in four places. The tool executor calls `Eval` from goroutines of
its own while the provider's stream publishes events to the sink: mutexes, one in the
session and one in the sink, are all that orders them. `Eval` and
`TurnLogger` write to the same log database through different stores and
connections, without a transaction in common. The deferred calls of `run` close the
log, whose session runs JavaScript on the two other databases, before these. And processes
meet at the files they were given by name: at the input database, which each of them
rebuilds, and at the log, which `inspect` reads while a run writes it.

The hard behaviours, each listed at its line under `hazards` in `PROJECT.json`:

* *Interleaving.* Two tool calls of one reply between the three steps of `Eval`;
  publishers at the sink; processes that share an input database, one reading what another
  removes or is building; `inspect` beside a run.
* *Partial failure.* Any of the writes of a handler; any of the steps of
  `Eval`; any of the sixteen steps at which preparing and opening can fail; a
  snapshot or final turn that is not stored.
* *Crash.* No signal is handled: an interrupt ends the process without its deferred calls, which can leave an input database half built.
* *Stale state.* The `input` global of the call before; the label flags of the
  sink; the bindings of the JavaScript session after `:reset`; a read-only handle that has been
  opened but not connected while the file under its path changed.
* *Ordering and numeric edges.* Snapshots of one millisecond; limits below 2;
  bytes against characters; a listing cut off by `--limit`.

## 2. The modules and the code

`PROJECT.json` maps every definition to its lines. This is the overview.

### `EvalResult`, `EvalTool`, `AtomicEval`, `EvalToolRefinement`

`EvalResult` is the conversion of what the session reports to what the tool
returns (`convertReplResponseToEvalOutput`, `eval_tool.go`): which of the error texts, or which value. The
result JSON of a cell is one of the forms the code tells apart: absent, not an
envelope, or an envelope with or without a result and an error.

`EvalTool` has one action for each thing that happens under one hold of the
session's lock or in one statement to the log:

| Step of `Eval` | Actions | What can happen |
|---|---|---|
| the executor calls the registered function | `Start` | at most `MaxParallel` calls are under way |
| `prepareEvalGlobals` in `WithRuntime` | `PrepareEvalGlobals`, `PrepareFails` | `input` is set; or the call is refused, and `input` may have been set all the same |
| `App.Evaluate` | `Evaluate`, `EvaluateUnrecorded`, `EvaluateUnavailable` | a cell runs and is recorded; runs and its record fails; does not run |
| `insertEvalToolCall`, answer | `InsertEvalToolCall`, `InsertFails` | the row is there; or it is not, and strict mode returns an error |

A cell is a relation (`Exec`) from its source, the `input` it finds, and the VM to
outcomes. `vm.Set` does not copy the input object, it shares the Go map of the call with the VM. So a cell
can change the object it found, and can also assign another to the global: `object` is what the object of each call
holds, `owner` whose object the global is, if it is that of a call. The row of a call is made from its object *after* the evaluation
(`eval_tool.go:61`), with whatever has become of it by then (`InputJSON`). Programs that keep an object and change it when it is no
longer `input` are left out.

The history fields `call` and `input` of an evaluation and `call` of a row are not in the
program's tables: the properties need them to say whose cell it was. `offered` is history too: what others have put into the global,
or set out to put there, from the moment a call began until it evaluated.

External, and modelled as the environment the calls of the program imply: the REPL
session (it numbers cells in execution order, stores each in one transaction with its
own connection), and the executor. *How many calls the executor runs at once is an assumption*:
the code of the repository does not set it and does not lock around `Eval`. The
model has it as a parameter.

`AtomicEval` is the abstract specification: a session that serves each call in one
step and answers it later. The cell finds the call's own input, or, if other calls overlap it, what one of them has given or
its cell has left in the meantime. That is all the code does for any degree of parallelism; a call that nothing overlaps is served with its own
input. `EvalToolRefinement` is the refinement mapping. The linearisation point is the evaluation of the cell;
the `input` global, its owner and the objects are hidden.

### `LogInspect`

`chat inspect` on the log of a session that is still running: the state of `EvalTool` and, beside it,
a reader that takes table after table, each with a query of its own and no transaction around them. Both
`inspect schema` (tables in the order of their names) and the way the developer guide goes (from
`eval-calls` to `repl-evals`) read `eval_tool_calls` before `evaluations`.

* The rows of `eval_tool_calls` are listed newest first by `created_at_ms`, which is the time the call
  *started* (`eval_tool.go:43`), to the millisecond, and not the order of the rows. So a limited listing can be any
  subset of the right size (`CallListings`); the model does not follow start times further.
* `evaluations` are listed newest first by cell, which is their order (`NewestEvaluations`).
* `inspect schema` has no limit: that is a limit that no table exceeds.
* A query that fails ends the inspection (`QueryFails`).

### `StreamEvents`, `StreamSink`, `Transcript`, `StreamSinkRefinement`

`StreamEvents` has the sorts of events and of the pieces of text they are printed as.

`StreamSink` is the code. It is `PublishEvent` of several publishers. A publisher calls it (`Publish`), gets the mutex
(`Lock`) and from then on has a sequence of writes to do, `Writes(event)`, each of which
succeeds (`Write`) or fails and ends the handler (`WriteFails`); `Unlock` is the deferred unlock. There is one operator for
each handler. The sequence can be fixed at `Lock` because only the holder of the
mutex changes the flags it depends on; that this is so is one of the things the
mutants question. The screen is the sequence of chunks, each with the number of its event. The texts are left out: a
chunk is of one of nine sorts, which are what the layout distinguishes.

`Transcript` is what the live view promises to who reads it. Its state is the text that is shown, nothing
else: an event is printed in one step, and whether it needs a label or a line break follows from the text
before it. In `StreamSinkRefinement` the text shown is what is on the screen before the event
that is in progress, so the linearisation point of an event is its unlock, and the two flags for
labels and `lastWasDelta` are hidden: the refinement says that they never disagree with what
they stand for. After a failed write (`torn`) an event may be cut short and the break before it is
no longer promised, because the sink clears `lastWasDelta` although the break was not written.

### `TextPreview`

`truncateOneLine`, `truncateMultiline` and `preview` as functions of a text and a limit. A text is a
sequence of characters, each of a width in bytes; `Slice` cuts at a byte as Go does, and what
remains of a character cut through is `Broken`. The state machine types a text
character by character, so that a state is a text and a limit and the invariants are the
specification of the functions.

The expanded details of a tool call are put together from these (`formatToolInput`, `formatToolResult`). What the
decoding of the arguments makes of a text is not followed: a detail is any of the layouts the code can choose,
with the same text in each of its parts. `PreviewLimit` is the rule by which the sink replaces a limit that is
not positive. It is the only protection against a limit of 0, which the functions take for no limit.

### `ChatRun`

`run` with the functions it calls, one action for a step that succeeds and one for its
failure. `ReturnError` makes `run` return; `RunDeferred` takes the deferred calls last in, first out;
`Kill` ends the process at any step, keeping what is on disk and giving up the handles;
`StartAgain` starts another process on the same disk. `open` is the set of handles
held, the JavaScript session that `logdb.Open` has `replapi` create among them (`logdb.go:81`): no code of the repository
releases it, neither `Open`'s clean-up nor `DB.Close`, and it goes with the process. The ticket's diary says as much ("`DB.Close` closes stores but
does not explicitly delete/close the live repl session",
`ttmp/2026/04/29/CHAT-THIRD-DB-LOGGING--design-third-private-sqlite-logging-database-for-chat-agent-turns-and-eval-js-persistence/reference/01-investigation-diary.md`).
What `LogClosedFirst` says of the log is therefore said of its two stores, through which every call is recorded.
`disk` is the set of files that exist by the names the program gives them. The two notions
of a blank log path, that of `resolvePath`, which trims, and that of the deferred removal, which does
not, are kept apart (`log: "blank"`).

### `InputDB`

`PrepareInputDB` and the facade `inputDB` for processes that were given one `--input-db`. The path is accessed
four times with nothing held in between, and each access is an action:

| Code | Actions | What can happen |
|---|---|---|
| `os.Remove`, its error ignored (`helpdb.go:61`) | `Remove`, `RemoveFails` | the path is free; or the old file is still there and will be written into |
| `store.New`, `LoadSectionsFromFS`, `Close` | `CreateStore`, `LoadSection`, `CloseStore` | a file is created, unless another process has just done so; sections are upserted one at a time, by slug |
| the second handle, `ensureDocsView` | `EnsureDocsView` | the view goes into whatever file the path names by now |
| `sql.Open` in read-only mode | `Connects` | no I/O: the first query connects |
| `Facade.Query`, `Facade.Exec` | `QueryRead`, `QueryAttach`, `QueryDelete`, `QueryFails`, `Refused` | rows, an effect, an error, or a refusal |
| an error, the end of the run, a crash | `Ends` | the file stays as it is |

`copies` are the files that ever had the path, and `path` says which one has it now. A file that is removed lives on for
the processes that have it open; this is POSIX, on which the program's own removal of a file that others have open
depends. A connection, once made, stays: the pool of `database/sql` keeps one idle. The facade's check on the
text of a query is on its first word (`isReadQuery`). A text can hold several statements, and a `WITH` clause can lead a `DELETE`, so the
first word says nothing about the effect: `Query` has every combination of the two. What the mode of the handle
adds is that `inputDB` itself cannot be written; a database that a program attaches to the connection is opened to read and write.
Of the databases that could be attached the model has the one that matters to the documents, the file at the path (`attached`), and all
that can be written there stands as the loss of its sections (`QueryDelete`). `OwnDocuments` and `AnswersOnlyGrow` are about files that no
program has written into (`changed`); that the exception is needed is `InputDBReadOnly`. A
read may fail at any time, which covers a busy or a damaged file.

The history variables `kept`, `alone` and `changed` are not in the program. The first two say when the promise of `OwnDocuments` is owed:
to a process in whose way nobody came between its own removal and its first connection.

### `ChatTurns`

`repl`, `runPrompt` and `TurnLogger`, with the runner's tool loop around the snapshot hook. A
turn is an ID and the sequence of its blocks, a block the number of the prompt it
belongs to. The turn store keeps snapshots under (turn, phase, millisecond), and `Save` replaces what it
finds under the same key. Whether `--log-db-turn-snapshots` is on is chosen in `Init`. The runner and the store are external; the model follows the
library sources that the logging ticket quotes
(`ttmp/2026/04/29/CHAT-THIRD-DB-LOGGING--design-third-private-sqlite-logging-database-for-chat-agent-turns-and-eval-js-persistence/sources/evidence-snippets.txt`). What the runner does with an
error of the persister is not quoted there, and both outcomes are possible (`Answered`, `NotStored`). That the runner hands over the
final turn last, when the run has succeeded, is what the ticket's design says of its builder ("the persister is invoked on successful
completion when a final updated turn exists", `design-doc/01-private-logging-database-for-chat-agent-turns-and-eval-js-execution.md`); so
there is no run that has persisted its final turn and then fails (`RunFails`).

## 3. The runs

The modules `MC...` give the constants that are not written in a `.cfg`. No run has a state constraint, and only
the runs of `InputDB` use symmetry (all processes are alike and the properties of these runs are safety properties).
Deadlock is checked except in the run of `TextPreview`, where a
text of full length is the end.

| Run | Instance | What it shows |
|---|---|---|
| `EvalToolParallel` | 2 calls, both at once, strict, fair, cells that change `input`, an inspector beside them; 534,810 states | in every interleaving, with every failure, rows point to the cells of their own calls, no cell twice; answers agree with the record; a lost row is reported; a cell finds the input of its call or of the one that overlaps it; the tool implements `AtomicEval`; the inductive invariant of the proofs holds; the inspector finds every cell that it was told of; a call that has begun is answered |
| `StreamSinkShared` | 2 publishers, 3 events, details on, writes can fail; 105,210 states | events whole, labels right, tool lines on lines of their own; the sink implements `Transcript`; every publisher returns |
| `TextPreviewBounded` | every text of up to 5 characters of 1, 2 and 3 bytes, a blank and a newline, against limits -1 to 6; 31,248 states | the result is within the limit, equals the definition on characters where all are one byte wide, and is one line where that is promised; details end their line and are bounded whatever the flag |
| `InputDBShared` | 2 processes of different binaries, 2 sections each, one of them shared, programs that attach the file and write into it; 15,036 states (up to symmetry) | in a file that no program wrote into, an undisturbed process reads its own sections through a working view, and nobody loses a section once read |
| `ChatRunDisk` | 2 processes in succession, 5 settings; 90,363 states | every database handle and the profile are closed, the log first, and only the JavaScript session is left; each file left has one of the listed reasons; the user's log and scratch database stay |
| `ChatTurnsLogged` | 3 prompts, 2 blocks, 2 instants, 1 snapshot not stored, snapshots on and off; 1,322,804 states | failed prompts are forgotten, conversations do not mix, final turns of a conversation extend each other; what the user continues from is in the log; no snapshot is lost to another with the same key |

Six more runs expect a violation and are the subject of
[section 6](#6-where-the-code-and-its-documentation-disagree).

Why the bounds are enough for what they ask:

* *Two calls at once* is what an interleaving hazard between two steps of one
  call and a step of another needs; the same instance has the two in succession, so that a call can find what the one before it left. Two inputs,
  one of them `{}`, tell one's own input from another's and from none. The programs store the input and assign another to the global, change the object they found into one that
  JSON cannot say, throw, and return every form of result. A limit of 1 lets an inspector's listing be cut off when there are two rows, and complete when there is
  one. The theorems do without these bounds. The run is strict; what `StrictReporting` says without strict mode, that no logging failure becomes an error
  of the tool, is shown by the theorem `ReportsStrictly` alone.
* *Three events of two publishers* let each sort follow every other, and a third event come
  between, with a failure in any of them; a label that fails is tried again by a later delta.
* *Five characters and limits from -1 to 6*: every relation of length, width and limit occurs,
  a cut through a two- and a three-byte character included. Nothing in the functions counts further than the limit. The theorems have every text and every limit.
  A default of 2 stands for the code's 500: what matters is on which side of it a text is.
* *Two processes at one input database*: one that reads, and one that removes, builds or writes meanwhile. A third, which could come between the steps of the second, has more
  states than a run should take once programs can attach the file; the theorems have any number of processes. Two sections
  each let a file be empty, half loaded or complete, with a slug that binaries share and one that they do not.
* *Two processes in succession*: a process sees a disk only through what an earlier one left, and the first can leave every combination.
* *Three prompts* let one fail between two that succeed, with a reset before any of them; two instants let snapshots share a millisecond or not. Two blocks already repeat
  `pre_inference`, the phase the tool loop passes in each round; a third would let
  `post_inference` be passed twice as well, and only `ChatTurnsStrict`, with one prompt, has it. One snapshot that is not stored (`MaxUnsaved`) can be any of them; in the code nothing counts them.

Every property of a passing run has a mutant in `PROJECT.json`: a definition changed the way a
plausible mistake in that code would change it, under which the same run finds the
property violated. The mutants stand in the modules next to what they replace, with a comment that begins
`Mutant:`.

## 4. Fairness

Three specifications state fairness.

* `EvalTool!FairSpec`: weak fairness of each call's steps once it has begun. `Eval` runs on a goroutine that nothing
  suspends; each step either takes a lock that is released on every path or talks to a database with a
  busy timeout; the session's own policy bounds the run of a cell. `Start` is not fair, as the model
  may stop calling tools. `LogInspect!InspectedSpec` has the same fairness, and none of the inspector's steps: nobody has to inspect a
  log, and the calls do not wait for who does.
* `StreamSink!FairSpec`: weak fairness of a holder's writes and its unlock, since a write to the terminal returns; strong
  fairness of `Lock`, since `sync.Mutex` hands itself over to a waiter that has
  waited for a millisecond. Weak fairness would not do: the mutex is free again and again but not for
  good.

The others have safety properties only. In `ChatRun`, `ChatTurns` and `InputDB` a process
may be idle or killed at any time, and nothing that "must eventually happen" is promised by the code
beyond the end of the deferred calls.

## 5. What is proved

Every safety property that a passing run checks is also a theorem, for every value of the constants.
Each component has its proofs in a module of their own. They rest on the assumptions that the modules state
about their constants (TLC evaluates them in the runs), on the library's facts about sequences, finite sets and
well-founded relations, and on nothing else.

| Module | For | Assumptions |
|---|---|---|
| `EvalToolProofs` | every finite set of calls, all programs and behaviours (`Exec` is any function to sets of outcomes), every degree of parallelism, strict or not | `EvalAssumption`, `ResultAssumption`: the types of the constants, that `undefined` is a source and the empty string is not, that `{}` is an input, and that the markers for no input, null and a preview are none of the values |
| `LogInspectProofs` | as before, and every limit | also `InspectAssumption`: limits are natural numbers |
| `StreamSinkProofs`, `StreamRefinementProofs` | every set of publishers, any number of events, details on or off, writes that fail or not | `SinkAssumption`, `DetailsAssumption`: the types of the constants |
| `TextPreviewProofs` | texts of every length (`MaxLength` bounds nothing in the proofs) over any characters with widths of 1 to 4 bytes, any limits | `PreviewAssumption`: the types of the constants, that the blank and the line end are two characters that are space and the blank is one byte wide, and that the ellipsis, a torn byte and the headings of the one-line details are not space |
| `InputDBProofs` | any processes, each with any documents | `InputDBAssumption`: documents are sequences of sections, and two sections of one binary have different slugs (`helpdocs/help` has one file to a slug) |
| `ChatRunProofs` | any settings, any number of runs on one disk | `RunAssumption`: the types of the constants |
| `ChatTurnsProofs` | any number of prompts, blocks, instants and snapshots not stored | `TurnsAssumption`: the bounds are natural numbers |

| Theorem | Statement |
|---|---|
| `EvalToolProofs!TypeCorrect` | the type invariant |
| `RecordCorrect` | `RecordInv`, the inductive invariant |
| `RowsPointToTheirCells` | a row that names a cell names the recorded cell that ran this call's code |
| `CellsCorrelatedOnce` | no two rows name one cell |
| `AnswersAgreeWithRecord` | a call is told of a failure of the host or a refusal exactly when it has no recorded cell, and of an execution error exactly when that cell is recorded as not ok |
| `ReportsStrictly` | past its evaluation, a call returns a Go error exactly if strict mode is on and its row is missing |
| `InputsExplained` | a cell finds the input of its own call, or something that a call overlapping it has given or its cell has left; nothing of a call that was over before |
| `ServesEachAtOnce` | `Spec` implements `AtomicEval`, for any degree of parallelism |
| `InspectTypeCorrect`, `CellsFound` | what an inspection lists are cells of the session; a cell named in the first listing is in the second or cut off by the limit |
| `SinkTypeCorrect`, `NoEventCut`, `TextFollowsItsLabel`, `LabelsNotRepeated`, `ToolLinesStartLines` | types; events are whole; text comes after its label and a label once; tool lines start lines until a write fails |
| `PrintsAsTranscript` | the sink implements `Transcript` |
| `PreviewsWithinLimit`, `PreviewsExactOnBytes`, `PreviewsOnOneLine`, `DetailsAreLines` | no preview has more characters than the limit; on one-byte texts previews are the shortening in characters; a one-line preview is one line of words with single blanks between them; details end their line and are bounded |
| `InputDBProofs!TypeCorrect`, `ReadsOwnDocuments`, `NoSectionLost` | types; an undisturbed process reads its own sections, and answers only grow, in a file that no program wrote into |
| `RunTypeCorrect`, `HandlesClosed`, `LogClosesFirst`, `LeftoversAccountedFor`, `NamedFilesKept` | types; a run that has returned holds nothing but the JavaScript session; the log is closed before what its session uses; every file left has a reason; the user's files stay |
| `TurnsTypeCorrect`, `FailuresForgotten`, `ConversationsApart`, `FinalTurnsExtend`, `SeedIsRecorded`, `NoSnapshotLost` | types; failed prompts leave no trace; turns hold one conversation; final turns extend each other; the seed is in the log; a snapshot is replaced only by an extension of itself |

*The record of the calls.* None of the four promises is inductive: that a row points to its
cell follows only if the reply the row is made from did, and that replies point to cells only if
cells are numbered apart. `RecordInv` follows the data along the call: `EvaluationsInv` (cells
have numbers up to `nextCell`, no two the same, each belongs to a call that has evaluated and agrees with its reply),
`RepliesInv` (a reply is that of a recorded cell of this call, or of none, and then it carries an error), `AnswersInv` (an answer is
a refusal, or the conversion of the reply with the strict flag), `RowsInv` (rows belong to answered calls, one
to a call, and repeat the reply). Nothing in it depends on `MaxParallel`: that is the point, the
correlation is safe without a lock because everything it uses is local to the call or written once.
There is a step lemma for each kind of action (`BeginStep`, `RefuseStep`, `EvaluateStep`, `EvaluateFailsStep`,
`CorrelateStep`).

*The input of a call.* The global is shared, so the property is about all calls that wait for their evaluation. `OverlapInv` says that each of them
has been offered the inputs of the others, and that the global is something a prepared call may find: its own input, or an offer. A call that begins is offered what the others
wait with, and they its input (`StartOffers`); so whatever a preparation sets has been offered to the rest (`PrepareOffers`), whatever a cell
leaves is offered to them at that moment (`EvaluateOffers`), and the offers of a call that has evaluated no longer change
(`WaitingUnevaluated`). What makes it true is that every call sets the global anew, with `{}` when it has no input, after it began: nothing that
was there before can reach its cell. The run `EvalToolInputRace` shows that no more than this can be said of calls that overlap.

*The refinement of `AtomicEval`.* `InitRefines` and `StepRefines`: `Start` is `Make`; with `OverlapInv`, an evaluation is `Serve` with an input that the
call may find; an evaluation without a record is `Serve` with the failed host as outcome, one without a run is `Fail`; a failed
preparation is `Refuse`; the insertion, failed or not, is `Answer`; a preparation stutters. `CellNumberIrrelevant` is why the abstract
session need not number its cells. `SameConversions` and `SameOffers` are why the conversion and the offers can be used on both sides of the mapping.

*The inspector.* `RecordInv` says that the cells a row can name are recorded (`CallsListed`), and evaluations are never
removed (`EvaluationsGrow`), so a cell of the first listing is still there at the second query (`ListedAreRecorded`, the invariant
between the two). What is left is counting. A recorded cell that is not listed has at least `limit` newer ones, and then exactly
`limit` evaluations are listed (`EvaluationsListed`): the number of newer cells is different for every cell, hence
takes every value below their total, hence exactly `limit` cells have fewer than `limit` newer ones (`NewestCount`).

*The sink.* The mutex gives `Exclusive`: one holder, the only publisher with writes left. With `HoldersEventLast`
(what is printed of the holder's event comes last, and nothing of an event that waits) events are whole. The labels
rest on `EverythingPlanned`: what a holder has left to write is one of a few sequences and fits the fields, so that a label is only
planned while its flag is off, and text only while it is on or right after the label; `StartedMeansLabelled` ties the flags to the screen, and a failed write ends
the plan before the flag is set. For the line starts, `KnowsOpenLine`: until a write fails, `lastWasDelta` is on whenever the last thing
printed on standard output is a label or a delta, except while the delta of the label is still to come.

*The refinement of `Transcript`.* The screen is cut in two (`Boundary`): what is shown, and what is being printed. `Underway`, what the
holder has printed of its event together with what it has left, does not change while it writes; `PrintsALayout` says that it is
the text of the event as the shown part asks for it, and after a failure the beginning of it, with or without the break.
At `Lock` this holds because no event is in progress, and then the fields agree with what is shown (`AtRest`, from `FieldsAgree` and
`StartedMeansLabelled`). `Unlock` moves the cut to the end of the screen and is `Show`, `WriteFails` is `Fail`, every other step stutters.

*The previews.* The state is only an input, so `InputAlways` is the whole invariant; the work is in the functions. `Bytes` and `JoinFields` are
folds, and the community modules define a fold by `CHOOSE` over functions on sets of positions. The library's induction theorems
take operators as parameters, which the installed provers cannot instantiate, so induction is stated for sets instead:
`MinExists` comes from the well-foundedness of the natural numbers, and `NumbersByInduction` and `SequencesByInduction` from it.
`FoldExists` builds the function the `CHOOSE` looks for, `FoldInterval` and `FoldExtend` show that any two agree on the positions of a text and of a text one
character longer, and `BytesStep` and `GatherStep` are what is left for a reader: what one more character does to the bytes of a text and to its joined fields.
From these, by induction over the text: a character has a byte at least (`BytesCountCharacters`), on one-byte characters exactly one (`BytesOfNarrow`), and joined fields
have a blank only between two words (`JoinFieldsWell`). `SliceShape` says what `t[:n]` leaves (k whole characters and l bytes of the next, k + l at most n),
`ShortenShape` that a shortened text is a beginning of the text and then only torn bytes and the ellipsis. A limit in bytes is
therefore a limit in characters, and neither a cut nor the ellipsis adds a space.

*The input database.* `BuildsAlone` describes a process that nobody has disturbed yet: the path names the copy it is building, with everything that it
has loaded so far and, unless the old file stayed, nothing else. After its first connection, `CopyLeftAlone`: nobody who could write has that copy, through an
open store or through the path. Both are owed as long as no program has written into the copy (`changed`). `NoSectionLost` needs less and covers the disturbed ones: an `Upsert` replaces a section by one with the same slug
and a removal takes only the name away, so a copy never loses a slug; `AnsweredStillThere` keeps the connection to it.

*The run.* `CallsMade` says which deferred calls are pending at each step, `Closers` that each open handle but the session is closed by one of them or by the step that
comes next, `Removers` the same for the temporary files, and `LastOutFirst` that the calls are made in the reverse of the order in which they were
deferred; without it the log's place among them is not known. `EarlierFiles` carries the reasons for what
earlier processes left.

*The conversation.* `RunnersTurn` ties the runner's turn to the seed it extends and to its own snapshots, which it extends too; `OfAnswers` says that seeds and final turns are made of
answered prompts; `SeedExtendsFinals` makes `FinalTurnsChain` inductive: a new final turn extends the seed, and the seed every earlier
final turn of its conversation. A snapshot under a used key is of the same turn, so it extends what it replaces.

Only model-checked:

* Liveness: `EveryCallAnswered`, `PublishReturns`. Fairness and `ENABLED` are beyond the installed backends.
* The sentences of [section 6](#6-where-the-code-and-its-documentation-disagree), which are false.

## 6. Where the code and its documentation disagree

Each of these runs checks one sentence of the documentation, or one flag's help, and finds a behaviour of the code that
contradicts it. `PROJECT.json` quotes the sentences with their lines.

| Run | Property | What happens |
|---|---|---|
| `EvalToolInputRace` | `EvaluatedWithOwnInput` | two calls of one reply: the second sets `input` between the first one's preparation and evaluation, and the first cell runs with the second's input. Depends on an executor that runs tool calls in parallel |
| `StreamSinkThinking` | `ThinkingUnderItsLabel` | thinking, text, thinking: the second thinking is printed as if it were the assistant's, as the flag for its label is never reset |
| `InputDBRace` | `AnswersComplete` | two processes on one `--input-db`: the second replaces the file after the first is ready and before its first query, which then answers without the sections of its own binary |
| `InputDBReadOnly` | `ReadOnlyDocuments` | one process, alone on its path: a query attaches the file to the connection of `inputDB`, another deletes its sections. The first word is all that is checked, and `mode=ro` is that of the database the handle was opened on |
| `ChatRunTempLog` | `TemporaryLogRemoved` | a turn store whose opening fails after it has made the file: the temporary log stays, as nothing removes it before the removal is deferred |
| `ChatTurnsStrict` | `StrictSnapshots` | a snapshot that cannot be stored goes unreported in strict mode |

`StreamSinkThinking` stands in some tension with `LabelsOnce`, which `StreamSinkShared` checks: `LabelsOnce` says of the code what its flags are for, a label
that is not repeated within a prompt, even if its write fails and is tried again; the documentation asks for thinking to be shown as thinking each time. A sink that resets
`thinkingStarted` when text follows would mend the one and break the other as it is stated, and `LabelsOnce` would then have to
say: once for each stretch of thinking.

Four smaller disagreements are in the models, or left out with the option they are about, and have no run of their own. `--stream-max-preview-chars` is described in
characters (`run_command.go:69`) and counts bytes (`stream_stdout.go:241`), so a short text in another script is
cut, possibly through a character (`TextPreview!Slice`). `--no-log-db` is described as turning the logging off (`run_command.go:63`) and is
refused once both databases are prepared (`main.go:154`, `ChatRun!RefuseNoLogDB`). A call whose preparation fails leaves no row and no Go error, in strict mode
too (`eval_tool.go:46`, `EvalTool!PrepareFails`), while the logging ticket's design has the row always inserted. `--eval-timeout` (`run_command.go:59`) and the output
limit are stored in a specification that the replapi-backed tool never consults.

## 7. What is not modelled

* Time. A cell always ends, after any number of steps of others. The options that would bound it reach no code that the registered tool runs.
* Console lines, durations, identifiers. They are copied from one place to another; identifiers made from the clock are taken to be distinct.
* The scratch data that programs keep in `outputDB`. Its handle can write, its content is the programs' own, and the
  tool adds no state to it. `Schema` and the conversion of values between SQLite and JavaScript are not modelled either: they keep no state.
* The listings of `inspect` other than those of the two tables of a tool call: each is one query and shows one state. The layout of all of them.
* Registration of commands, tools and flags: declarations. The embedded documents' text: data.
* `configureRuntime` and the parts of `Build` that make up the scopedjs runtime: the registered tool runs in the REPL session
  and replaces it.
* The provider, the runner's middleware, the help store's and SQLite's own work. They are external; where their choice matters it is
  nondeterministic.
* What Go does when the map of a call's input is read for the row (`eval_tool.go:61`) while a cell of another call, which found that object as its `input`, writes into
  it: the run-time may end the process. The model has the reading and the writing one after the other. Programs that keep an input object beyond their call.
* What part of a chunk a failed write to the terminal has let through (`StreamSink!WriteFails` prints none of it).
* Databases other than the file at the input path that programs attach to `inputDB` or create through it.
* One path given for several of the three databases. `UserFilesSurvive` takes the names of log, scratch and input database to be different.
* Two processes at the same time on one log or one scratch database. `InputDB` overlaps processes on the input path, the one file that
  a process removes under others; `ChatRun` has them in succession.

## 8. The plan

Models, done in this order: `EvalResult`, `EvalTool` with its refinement and proofs (the most important behaviour: concurrent calls, a shared VM, two
tables); `StreamSink`; `TextPreview`; `ChatRun`; `ChatTurns`; `Transcript` with its refinement; `InputDB` with the facade's check; `LogInspect`.

Left, models: `ChatSystem`, a composition of `EvalTool` and `ChatTurns` for the properties that relate the two halves of the log
(the tool calls of a turn that is stored; `:reset` against the bindings of the session).

Proofs, done: every safety property of the passing runs (invariants, action properties and the two refinements);
[section 5](#5-what-is-proved) has the arguments.

Left, proofs: the promises of `ChatSystem` once it is there, from the invariants of its two parts. Liveness stays with TLC.
