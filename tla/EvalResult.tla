------------------------------ MODULE EvalResult ------------------------------
(***************************************************************************)
(* From what replsession reports about one executed cell to what the model *)
(* is told: resultJSONFromResponse and convertReplResponseToEvalOutput of  *)
(* internal/logdb/eval_tool.go.  A pure module, no variables.              *)
(*                                                                         *)
(* Error messages are abstracted to the check that produced them; console  *)
(* lines and durations are copied through by the code and are left out.    *)
(***************************************************************************)
EXTENDS Naturals

CONSTANTS
    Value,    \* JSON values other than null that a cell can produce
    Null,     \* JSON null, which decodes to Go's nil
    Preview,  \* the {kind, preview} object shown for a value JSON cannot carry
    Kept      \* in place of an object: the `input` global names what it did

ASSUME ResultAssumption ==
    /\ Null \notin Value
    /\ Preview \notin Value \cup {Null}

-----------------------------------------------------------------------------
(* Execution.ResultJSON: nothing, text that does not decode, or an envelope. *)
(* In an envelope, error and kind say whether those strings are nonempty.    *)

Envelope == [form: {"envelope"}, result: Value \cup {Null},
             error: BOOLEAN, kind: BOOLEAN]

Text(form) == [form |-> form, result |-> Null, error |-> FALSE, kind |-> FALSE]

ResultJSON == Envelope \cup {Text("absent"), Text("malformed")}

(* An EvaluateResponse: the cell's number, whether its execution reported an *)
(* error, its ResultJSON.  A nil response and a nil cell, which every        *)
(* function of the code treats alike, are NoCell; real cells start at 1.     *)
Response == [cell: Nat, threw: BOOLEAN, json: ResultJSON]

NoCell == [cell |-> 0, threw |-> FALSE, json |-> Text("absent")]

ErrorText == {"", "refused", "execution", "host", "no cell", "no result",
              "bad json", "serialization"}

Output == [error: ErrorText, result: Value \cup {Null, Preview}]

Failure(text) == [error |-> text, result |-> Null]

Success(v) == [error |-> "", result |-> v]

NoOutput == Success(Null)

-----------------------------------------------------------------------------

(* resultErr: with no host error, the cell or its structured result is missing. *)
ResultMissing(resp, hostError) ==
    ~hostError /\ (resp.cell = 0 \/ resp.json.form = "absent")

(* The value of an envelope that carries no error. *)
Decoded(env) ==
    IF env.kind /\ env.result = Null THEN Preview ELSE env.result

(* Mutant: the error of the execution is not looked at. *)
ConvertIgnoringExecution(resp, hostError) ==
    IF hostError                                THEN Failure("host")
    ELSE IF resp.cell = 0                       THEN Failure("no cell")
    ELSE IF ResultMissing(resp, hostError)      THEN Failure("no result")
    ELSE IF resp.json.form = "malformed"        THEN Failure("bad json")
    ELSE IF resp.json.error                     THEN Failure("serialization")
    ELSE Success(Decoded(resp.json))

(* The checks run in this order and the first that fails decides. *)
Convert(resp, hostError) ==
    IF resp.cell # 0 /\ resp.threw              THEN Failure("execution")
    ELSE IF hostError                           THEN Failure("host")
    ELSE IF resp.cell = 0                       THEN Failure("no cell")
    ELSE IF ResultMissing(resp, hostError)      THEN Failure("no result")
    ELSE IF resp.json.form = "malformed"        THEN Failure("bad json")
    ELSE IF resp.json.error                     THEN Failure("serialization")
    ELSE Success(Decoded(resp.json))

(* What the `input` global holds after a cell. *)
LeftInput(outcome) ==
    IF outcome.input = Kept THEN outcome.object ELSE outcome.input

===============================================================================
