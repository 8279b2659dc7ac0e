------------------------------- MODULE EvalTool -------------------------------
(***************************************************************************)
(* The eval_js tool of one chat session: EvalTool.Eval in                  *)
(* internal/logdb/eval_tool.go, called by the tool executor through the    *)
(* function that evaljs.Runtime.Registrar registers.                       *)
(*                                                                         *)
(* One call takes the lock of the session twice (WithRuntime to set the    *)
(* `input` global, then Evaluate) and then inserts one row into            *)
(* eval_tool_calls.  The three are separate steps here: nothing in the     *)
(* code spans them, and each can fail on its own.                          *)
(*                                                                         *)
(* vm.Set shares the input object with the VM instead of copying it: what  *)
(* a cell changes in `input` is changed in the object of the call whose    *)
(* object the global is, and the row is made from that object.  Programs   *)
(* that keep an object and change it when it is no longer `input` are left *)
(* out.                                                                    *)
(*                                                                         *)
(* External and modelled from the calls the code makes: the session        *)
(* (replsession), which runs a cell, numbers it, and records it in one     *)
(* transaction; the executor, which runs up to MaxParallel calls at once.  *)
(***************************************************************************)
EXTENDS EvalResult, FiniteSets, Sequences

CONSTANTS
    Call,         \* the eval_js calls the model makes in this session
    Code,         \* the code texts of those calls
    Source,       \* cell sources, the trimmed code texts
    Blank,        \* the empty string, what TrimSpace leaves of a blank text
    Undefined,    \* the cell source `undefined`
    TrimSpace,    \* [Code -> Source \cup {Blank}]
    Input,        \* what an input object can hold; Null, if JSON cannot say it
    EmptyInput,   \* the object {}
    NilInput,     \* no input object in the call; in the VM, no global yet
    Env,          \* states of the JavaScript VM, the `input` global apart
    InitEnv,
    Exec,         \* what a cell can do, from its source, `input` and the VM
    Strict,       \* --log-db-strict
    MaxParallel   \* calls the executor runs at the same time

Seen == Input \cup {NilInput}

(* What one execution of a cell does: to the VM, to the object it found as *)
(* `input`, and to the global itself, unless it is Kept on that object.    *)
Outcome == [env: Env, threw: BOOLEAN, json: ResultJSON,
            object: Input, input: Input \cup {Kept}]

ASSUME EvalAssumption ==
    /\ IsFiniteSet(Call)
    /\ Blank \notin Source
    /\ Undefined \in Source
    /\ TrimSpace \in [Code -> Source \cup {Blank}]
    /\ EmptyInput \in Input \ {Null}
    /\ NilInput \notin Input
    /\ Kept \notin Input
    /\ InitEnv \in Env
    /\ Exec \in [Source \X Seen \X Env -> SUBSET Outcome]
    /\ Strict \in BOOLEAN
    /\ MaxParallel \in Nat \ {0}

VARIABLES
    request,      \* the arguments of each call, chosen by the model
    pc,           \* where each call is in Eval
    reply,        \* resp and evalErr, the results of ReplApp.Evaluate
    answer,       \* what Eval returned: the output and the Go error
    input,        \* what the VM's `input` global holds
    owner,        \* the call whose object that is, in a set; or none
    object,       \* what the input object of each call holds
    env,          \* the rest of the VM
    nextCell,     \* number of the last cell the session executed
    evaluations,  \* replsession's table of executed cells
    toolCalls,    \* the eval_tool_calls table, in rowid order
    offered       \* history: what others have put into `input` beside a call

inputVars == <<input, owner, object, offered>>

vars == <<request, pc, reply, answer, inputVars, env, nextCell, evaluations,
          toolCalls>>

(* The arguments of a call were JSON. *)
Request == [code: Code, input: (Input \ {Null}) \cup {NilInput}]

(* call and input are history: the program stores neither with a cell. *)
Evaluation == [cell: Nat, source: Source, ok: BOOLEAN, call: Call, input: Seen]

(* call is history: the program leaves tool_call_id and turn_id empty. *)
Row == [code: Code, input: Input \cup {Null}, cell: Nat, output: Output,
        call: Call]

TypeOK ==
    /\ request \in [Call -> Request]
    /\ pc \in [Call -> {"idle", "preparing", "evaluating", "correlating", "done"}]
    /\ reply \in [Call -> [resp: Response, err: BOOLEAN]]
    /\ answer \in [Call -> [output: Output, err: BOOLEAN]]
    /\ input \in Seen
    /\ owner \in SUBSET Call
    /\ object \in [Call -> Input]
    /\ offered \in [Call -> SUBSET Input]
    /\ env \in Env
    /\ nextCell \in Nat
    /\ evaluations \in SUBSET Evaluation
    /\ toolCalls \in Seq(Row)

-----------------------------------------------------------------------------

(* A blank code text still runs a cell. *)
BuildEvalCellSource(code) ==
    IF TrimSpace[code] = Blank THEN Undefined ELSE TrimSpace[code]

(* The `input` global of a call without input is an empty object. *)
RuntimeInput(in) == IF in = NilInput THEN EmptyInput ELSE in

SourceOf(c) == BuildEvalCellSource(request[c].code)

InputOf(c) == RuntimeInput(request[c].input)

(* Mutant: the absent input is stored as it is. *)
InputJSONRaw(c) == IF request[c].input = NilInput THEN NilInput ELSE object[c]

(* mustJSON: the nil map of a call without input is logged as null, whatever *)
(* its cell has put into the object it was given instead.                    *)
InputJSON(c) == IF request[c].input = NilInput THEN Null ELSE object[c]

OutputOf(c) == Convert(reply[c].resp, reply[c].err)

Running == {c \in Call : pc[c] \notin {"idle", "done"}}

(* The calls that have begun and have not evaluated. *)
Waiting == {c \in Call : pc[c] \in {"preparing", "evaluating"}}

Init ==
    /\ request \in [Call -> Request]
    /\ pc = [c \in Call |-> "idle"]
    /\ reply = [c \in Call |-> [resp |-> NoCell, err |-> FALSE]]
    /\ answer = [c \in Call |-> [output |-> NoOutput, err |-> FALSE]]
    /\ input = NilInput
    /\ owner = {}
    /\ object = [c \in Call |-> InputOf(c)]
    /\ offered = [c \in Call |-> {}]
    /\ env = InitEnv
    /\ nextCell = 0
    /\ evaluations = {}
    /\ toolCalls = <<>>

-----------------------------------------------------------------------------

(* Call c gives or leaves this input while the others wait. *)
Offer(c, in) ==
    [d \in Call |-> IF d \in Waiting \ {c} THEN offered[d] \cup {in} ELSE offered[d]]

(* The executor invokes the registered function. *)
Start(c) ==
    /\ pc[c] = "idle"
    /\ Cardinality(Running) < MaxParallel
    /\ pc' = [pc EXCEPT ![c] = "preparing"]
    /\ offered' = [Offer(c, InputOf(c)) EXCEPT ![c] = {InputOf(d) : d \in Waiting}]
    /\ UNCHANGED <<request, reply, answer, input, owner, object, env, nextCell,
                   evaluations, toolCalls>>

(* Mutant: a call without input keeps the global of the call before it. *)
PrepareEvalGlobalsKept(c) ==
    /\ pc[c] = "preparing"
    /\ pc' = [pc EXCEPT ![c] = "evaluating"]
    /\ input' = IF request[c].input = NilInput THEN input ELSE InputOf(c)
    /\ owner' = {c}
    /\ UNCHANGED <<request, reply, answer, object, offered, env, nextCell,
                   evaluations, toolCalls>>

(* vm.Set("input", input) with the call's own object. *)
SetInput(c) == input' = InputOf(c) /\ owner' = {c}

(* prepareEvalGlobals, under the lock of the session. *)
PrepareEvalGlobals(c) ==
    /\ pc[c] = "preparing"
    /\ pc' = [pc EXCEPT ![c] = "evaluating"]
    /\ SetInput(c)
    /\ UNCHANGED <<request, reply, answer, object, offered, env, nextCell,
                   evaluations, toolCalls>>

(* Mutant: the call is put back instead of being answered. *)
PrepareFailsSilently(c) ==
    /\ pc[c] = "preparing"
    /\ pc' = [pc EXCEPT ![c] = "idle"]
    /\ UNCHANGED <<request, reply, answer, inputVars, env, nextCell, evaluations,
                   toolCalls>>

(* The session is not available, or one of the three assignments fails: the *)
(* first of them may have taken effect.  The call ends here.                *)
PrepareFails(c) ==
    /\ pc[c] = "preparing"
    /\ pc' = [pc EXCEPT ![c] = "done"]
    /\ answer' = [answer EXCEPT ![c] = [output |-> Failure("refused"), err |-> FALSE]]
    /\ SetInput(c) \/ UNCHANGED <<input, owner>>
    /\ UNCHANGED <<request, reply, object, offered, env, nextCell, evaluations,
                   toolCalls>>

(* What the source can do when it runs now, on whatever `input` is now. *)
Effects(c) == Exec[SourceOf(c), input, env]

(* The cell has run.  The object it found as `input` belongs to the call that *)
(* has set the global last, or to none if a cell has assigned another.        *)
Runs(c, o) ==
    /\ env' = o.env
    /\ input' = LeftInput(o)
    /\ owner' = IF o.input = Kept THEN owner ELSE {}
    /\ object' = [d \in Call |-> IF d \in owner THEN o.object ELSE object[d]]
    /\ offered' = Offer(c, LeftInput(o))

(* ReplApp.Evaluate: the cell is executed and recorded. *)
Evaluate(c) ==
    /\ pc[c] = "evaluating"
    /\ nextCell' = nextCell + 1
    /\ \E o \in Effects(c) :
         /\ Runs(c, o)
         /\ evaluations' = evaluations \cup
              {[cell |-> nextCell', source |-> SourceOf(c), ok |-> ~o.threw,
                call |-> c, input |-> input]}
         /\ reply' = [reply EXCEPT ![c].resp =
              [cell |-> nextCell', threw |-> o.threw, json |-> o.json]]
    /\ pc' = [pc EXCEPT ![c] = "correlating"]
    /\ UNCHANGED <<request, answer, toolCalls>>

(* The cell is executed but the record is not written: Evaluate returns only *)
(* the error, and what the cell did to the VM stays.                         *)
EvaluateUnrecorded(c) ==
    /\ pc[c] = "evaluating"
    /\ nextCell' = nextCell + 1
    /\ \E o \in Effects(c) : Runs(c, o)
    /\ reply' = [reply EXCEPT ![c].err = TRUE]
    /\ pc' = [pc EXCEPT ![c] = "correlating"]
    /\ UNCHANGED <<request, answer, evaluations, toolCalls>>

(* The session cannot be reached: nothing is executed. *)
EvaluateUnavailable(c) ==
    /\ pc[c] = "evaluating"
    /\ reply' = [reply EXCEPT ![c].err = TRUE]
    /\ pc' = [pc EXCEPT ![c] = "correlating"]
    /\ UNCHANGED <<request, answer, inputVars, env, nextCell, evaluations, toolCalls>>

(* Mutant: the session's latest cell instead of the one of the response. *)
EvalCorrelationLatest(c) ==
    [code |-> request[c].code, input |-> InputJSON(c),
     cell |-> nextCell, output |-> OutputOf(c), call |-> c]

(* The row of a call; a cell number of 0 is stored as NULL. *)
EvalCorrelation(c) ==
    [code |-> request[c].code, input |-> InputJSON(c),
     cell |-> reply[c].resp.cell, output |-> OutputOf(c), call |-> c]

(* insertEvalToolCall succeeds and Eval returns the converted output. *)
InsertEvalToolCall(c) ==
    /\ pc[c] = "correlating"
    /\ toolCalls' = Append(toolCalls, EvalCorrelation(c))
    /\ answer' = [answer EXCEPT ![c] = [output |-> OutputOf(c), err |-> FALSE]]
    /\ pc' = [pc EXCEPT ![c] = "done"]
    /\ UNCHANGED <<request, reply, inputVars, env, nextCell, evaluations>>

(* Mutant: the error is dropped in strict mode and returned otherwise. *)
InsertFailsInverted(c) ==
    /\ pc[c] = "correlating"
    /\ answer' = [answer EXCEPT ![c] = [output |-> OutputOf(c), err |-> ~Strict]]
    /\ pc' = [pc EXCEPT ![c] = "done"]
    /\ UNCHANGED <<request, reply, inputVars, env, nextCell, evaluations, toolCalls>>

(* The insertion fails: only strict mode tells the executor. *)
InsertFails(c) ==
    /\ pc[c] = "correlating"
    /\ answer' = [answer EXCEPT ![c] = [output |-> OutputOf(c), err |-> Strict]]
    /\ pc' = [pc EXCEPT ![c] = "done"]
    /\ UNCHANGED <<request, reply, inputVars, env, nextCell, evaluations, toolCalls>>

Eval(c) ==
    \/ PrepareEvalGlobals(c)
    \/ PrepareFails(c)
    \/ Evaluate(c)
    \/ EvaluateUnrecorded(c)
    \/ EvaluateUnavailable(c)
    \/ InsertEvalToolCall(c)
    \/ InsertFails(c)

(* Every call of the model's choosing has been answered. *)
Finished ==
    /\ \A c \in Call : pc[c] = "done"
    /\ UNCHANGED vars

Next ==
    \/ \E c \in Call : Start(c) \/ Eval(c)
    \/ Finished

Spec == Init /\ [][Next]_vars

(* Eval runs on a goroutine that nothing suspends, the session's policy     *)
(* bounds every cell, and the locks are released on every path: a call that *)
(* has begun keeps taking steps.  Whether the model makes a call is its own *)
(* choice, so Start is not fair.                                            *)
FairSpec == Spec /\ \A c \in Call : WF_vars(Eval(c))

-----------------------------------------------------------------------------
(* What the tool promises. *)

Logged(c) == \E i \in DOMAIN toolCalls : toolCalls[i].call = c

(* A row that names a cell names the cell that ran this call's code: there is *)
(* such a cell among the recorded evaluations, and its source is the source   *)
(* the row's code text stands for (help topic internals: "repl_cell_id points *)
(* to the replsession cell that executed the tool code").                     *)
RowPointsToItsCell ==
    \A i \in DOMAIN toolCalls :
        LET row == toolCalls[i] IN
        row.cell # 0 =>
            \E e \in evaluations :
                /\ e.cell = row.cell
                /\ e.call = row.call
                /\ e.source = BuildEvalCellSource(row.code)

(* No cell is correlated twice, whatever the interleaving of the calls: the *)
(* join of eval_tool_calls with evaluations repeats no evaluation.          *)
CellCorrelatedOnce ==
    \A i, j \in DOMAIN toolCalls :
        toolCalls[i].cell = toolCalls[j].cell /\ toolCalls[i].cell # 0 => i = j

(* What the model is told agrees with the record.  A call has a recorded cell *)
(* unless it was told that the session refused it or that the host failed;    *)
(* and it is told of an execution error exactly when that cell is on record   *)
(* as not ok.                                                                 *)
AnswerAgreesWithRecord ==
    \A c \in Call : pc[c] = "done" =>
        LET mine == {e \in evaluations : e.call = c}
            error == answer[c].output.error
        IN  /\ mine = {} <=> error \in {"refused", "host"}
            /\ \A e \in mine : ~e.ok <=> error = "execution"

(* A call that got as far as its row either has the row or, in strict mode    *)
(* and only then, returns a Go error: no row is lost unreported in strict     *)
(* mode, and logging never fails a call otherwise (the design: "logging       *)
(* failures should not crash an otherwise successful chat unless the user     *)
(* opts into strict logging").                                                *)
StrictReporting ==
    \A c \in Call : pc[c] = "done" /\ answer[c].output # Failure("refused") =>
        (answer[c].err <=> Strict /\ ~Logged(c))

(* Every cell was run with the input of the call it was run for (help topic *)
(* eval-js-api: "exposed as the per-call `input` global").                  *)
EvaluatedWithOwnInput ==
    \A e \in evaluations : e.input = InputOf(e.call)

(* However the calls interleave, a cell finds as `input` that of its own call, *)
(* or something that another call gave or its cell left while this one was     *)
(* waiting for its turn; nothing of a call that was over before (eval_tool.go  *)
(* sets the global anew for each call, an empty object without an input).  A   *)
(* call that no other overlaps runs with its own input.                        *)
InputFromOverlap ==
    \A e \in evaluations :
        e.input = InputOf(e.call) \/ e.input \in offered[e.call]

(* A call the executor has begun is answered, whatever fails on its way. *)
EveryCallAnswered ==
    \A c \in Call : pc[c] = "preparing" ~> pc[c] = "done"

-----------------------------------------------------------------------------
(* The invariant behind the promises about the record. *)

Evaluated == {"correlating", "done"}

(* Evaluations are numbered apart, belong to calls that evaluated, and hold *)
(* what the call was told.                                                  *)
EvaluationsInv ==
    /\ \A e \in evaluations :
         /\ e.cell \in 1 .. nextCell
         /\ e.source = SourceOf(e.call)
         /\ pc[e.call] \in Evaluated
         /\ reply[e.call].resp.cell = e.cell
         /\ ~reply[e.call].err
         /\ e.ok = ~reply[e.call].resp.threw
    /\ \A e, f \in evaluations : e.cell = f.cell => e = f

(* A reply is that of a recorded cell, or of none. *)
RepliesInv ==
    \A c \in Call :
        /\ pc[c] \notin Evaluated => ~reply[c].err
        /\ reply[c].resp = NoCell \/
              (\E e \in evaluations : e.call = c /\ e.cell = reply[c].resp.cell)
        /\ pc[c] = "correlating" /\ reply[c].resp = NoCell => reply[c].err

(* A call in hand has no row and no answer yet; an answered one was refused *)
(* before it had a cell, or told what its reply converts to.                *)
AnswersInv ==
    \A c \in Call : pc[c] = "done" =>
        \/ /\ answer[c] = [output |-> Failure("refused"), err |-> FALSE]
           /\ reply[c] = [resp |-> NoCell, err |-> FALSE]
        \/ /\ answer[c].output = OutputOf(c)
           /\ answer[c].err <=> Strict /\ ~Logged(c)
           /\ reply[c].resp = NoCell => reply[c].err

(* Rows belong to answered calls, at most one to a call. *)
RowsInv ==
    /\ \A i \in DOMAIN toolCalls :
         LET c == toolCalls[i].call IN
         /\ pc[c] = "done"
         /\ toolCalls[i].code = request[c].code
         /\ toolCalls[i].cell = reply[c].resp.cell
    /\ \A i, j \in DOMAIN toolCalls :
         toolCalls[i].call = toolCalls[j].call => i = j

RecordInv == EvaluationsInv /\ RepliesInv /\ AnswersInv /\ RowsInv

(* The invariant behind the input of a cell: each waiting call counts with the *)
(* inputs of the others, and a prepared one finds what the property allows.    *)
OverlapInv ==
    /\ \A c, d \in Waiting : c # d => InputOf(d) \in offered[c]
    /\ \A c \in Call : pc[c] = "evaluating" =>
          input = InputOf(c) \/ input \in offered[c]
    /\ InputFromOverlap

===============================================================================
