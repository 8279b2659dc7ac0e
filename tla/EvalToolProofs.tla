---------------------------- MODULE EvalToolProofs ----------------------------
(***************************************************************************)
(* Theorems about eval_js, for every set of calls, every behaviour of the  *)
(* programs and every MaxParallel: type correctness, the promises about    *)
(* the record, where the input of a cell comes from, and that eval_js      *)
(* implements AtomicEval.                                                  *)
(***************************************************************************)
EXTENDS EvalToolRefinement, FiniteSetTheorems, SequenceTheorems, TLAPS

USE EvalAssumption, ResultAssumption

-----------------------------------------------------------------------------
(* Facts about the conversions. *)

LEMMA ResponseTypes ==
    /\ NoCell \in Response
    /\ \A n \in Nat, o \in Outcome :
         [cell |-> n, threw |-> o.threw, json |-> o.json] \in Response
BY DEF NoCell, Response, ResultJSON, Outcome, Text

LEMMA FailureType == \A text \in ErrorText : Failure(text) \in Output
BY DEF Failure, Output

LEMMA DecodedType ==
    ASSUME NEW json \in ResultJSON
    PROVE  Decoded(json) \in Value \cup {Null, Preview}
BY DEF Decoded, ResultJSON, Envelope, Text

(* Whatever the session reports, the conversion yields an output. *)
LEMMA ConvertType ==
    ASSUME NEW resp \in Response, NEW err \in BOOLEAN
    PROVE  Convert(resp, err) \in Output
<1>1. resp.json \in ResultJSON
  BY DEF Response
<1>2. Success(Decoded(resp.json)) \in Output
  BY <1>1, DecodedType DEF Success, Output, ErrorText
<1>3. \A text \in {"execution", "host", "no cell", "no result", "bad json",
                   "serialization"} : Failure(text) \in Output
  BY FailureType DEF ErrorText
<1>4. QED
  BY <1>2, <1>3 DEF Convert

LEMMA SourceType ==
    ASSUME NEW code \in Code
    PROVE  BuildEvalCellSource(code) \in Source
BY DEF BuildEvalCellSource

LEMMA InputTypes ==
    ASSUME NEW in \in (Input \ {Null}) \cup {NilInput}
    PROVE  RuntimeInput(in) \in Input
BY DEF RuntimeInput

(* What a cell leaves in `input` is an input. *)
LEMMA LeftType ==
    ASSUME NEW o \in Outcome
    PROVE  LeftInput(o) \in Input /\ o.object \in Input /\ o.env \in Env
BY DEF Outcome, LeftInput

(* What a call is made of, whichever step it is at. *)
LEMMA CallTypes ==
    ASSUME TypeOK, NEW c \in Call
    PROVE  /\ SourceOf(c) \in Source
           /\ InputOf(c) \in Input
           /\ Effects(c) \subseteq Outcome
           /\ OutputOf(c) \in Output
           /\ EvalCorrelation(c) \in Row
<1>1. /\ request[c] \in Request /\ request[c].code \in Code
      /\ request[c].input \in (Input \ {Null}) \cup {NilInput}
  BY DEF TypeOK, Request
<1>2. SourceOf(c) \in Source
  BY <1>1, SourceType DEF SourceOf
<1>3. InputOf(c) \in Input /\ InputJSON(c) \in Input \cup {Null}
  <2>1. object[c] \in Input
    BY DEF TypeOK
  <2>2. QED
    BY <1>1, <2>1, InputTypes DEF InputOf, InputJSON
<1>4. Effects(c) \subseteq Outcome
  BY <1>2 DEF Effects, TypeOK
<1>5. reply[c].resp \in Response /\ reply[c].err \in BOOLEAN
  BY DEF TypeOK
<1>6. OutputOf(c) \in Output
  BY <1>5, ConvertType DEF OutputOf
<1>7. reply[c].resp.cell \in Nat
  BY <1>5 DEF Response
<1>8. EvalCorrelation(c) \in Row
  BY <1>1, <1>3, <1>6, <1>7 DEF EvalCorrelation, Row
<1>9. QED
  BY <1>2, <1>3, <1>4, <1>6, <1>8

(* Offers are inputs, if what is offered is one. *)
LEMMA OfferType ==
    ASSUME TypeOK, NEW c \in Call, NEW in \in Input
    PROVE  Offer(c, in) \in [Call -> SUBSET Input]
<1>1. \A d \in Call : offered[d] \cup {in} \in SUBSET Input
  BY DEF TypeOK
<1>2. QED
  BY <1>1 DEF Offer, TypeOK

(* A cell leaves the VM and the objects in order. *)
LEMMA RunsTypes ==
    ASSUME TypeOK, NEW c \in Call, NEW o \in Outcome, Runs(c, o)
    PROVE  /\ env' \in Env
           /\ input' \in Seen
           /\ owner' \in SUBSET Call
           /\ object' \in [Call -> Input]
           /\ offered' \in [Call -> SUBSET Input]
<1>1. LeftInput(o) \in Input /\ o.object \in Input /\ o.env \in Env
  BY LeftType
<1>2. object' \in [Call -> Input]
  BY <1>1 DEF Runs, TypeOK
<1>3. offered' \in [Call -> SUBSET Input]
  BY <1>1, OfferType DEF Runs
<1>4. QED
  BY <1>1, <1>2, <1>3 DEF Runs, TypeOK, Seen

-----------------------------------------------------------------------------
(* Type correctness. *)

LEMMA TypeStep == TypeOK /\ [Next]_vars => TypeOK'
<1> SUFFICES ASSUME TypeOK, [Next]_vars
             PROVE  TypeOK'
  OBVIOUS
<1> USE DEF TypeOK
<1>1. ASSUME NEW c \in Call, Start(c)
      PROVE  TypeOK'
  <2>1. offered' = [Offer(c, InputOf(c)) EXCEPT ![c] = {InputOf(d) : d \in Waiting}]
    BY <1>1 DEF Start
  <2>2. \A d \in Call : InputOf(d) \in Input
    BY CallTypes
  <2>3. {InputOf(d) : d \in Waiting} \in SUBSET Input
    BY <2>2 DEF Waiting
  <2>4. offered' \in [Call -> SUBSET Input]
    BY <2>1, <2>2, <2>3, OfferType
  <2>5. QED
    BY <1>1, <2>4 DEF Start
<1>2. ASSUME NEW c \in Call, PrepareEvalGlobals(c)
      PROVE  TypeOK'
  BY <1>2, CallTypes DEF PrepareEvalGlobals, SetInput, Seen
<1>3. ASSUME NEW c \in Call, PrepareFails(c)
      PROVE  TypeOK'
  <2>1. Failure("refused") \in Output
    BY FailureType DEF ErrorText
  <2>2. InputOf(c) \in Seen
    BY CallTypes DEF Seen
  <2>3. QED
    BY <1>3, <2>1, <2>2 DEF PrepareFails, SetInput
<1>4. ASSUME NEW c \in Call, Evaluate(c)
      PROVE  TypeOK'
  <2>1. PICK o \in Effects(c) :
          /\ Runs(c, o)
          /\ evaluations' = evaluations \cup
               {[cell |-> nextCell', source |-> SourceOf(c), ok |-> ~o.threw,
                 call |-> c, input |-> input]}
          /\ reply' = [reply EXCEPT ![c].resp =
               [cell |-> nextCell', threw |-> o.threw, json |-> o.json]]
    BY <1>4 DEF Evaluate
  <2>2. o \in Outcome /\ SourceOf(c) \in Source
    BY CallTypes
  <2>3. nextCell' \in Nat
    BY <1>4 DEF Evaluate
  <2>4. [cell |-> nextCell', threw |-> o.threw, json |-> o.json] \in Response
    BY <2>2, <2>3, ResponseTypes
  <2>5. (~o.threw) \in BOOLEAN
    OBVIOUS
  <2> DEFINE e == [cell |-> nextCell', source |-> SourceOf(c), ok |-> ~o.threw,
                   call |-> c, input |-> input]
  <2>6. e \in Evaluation
    BY <2>2, <2>3, <2>5, Zenon DEF Evaluation
  <2>7. evaluations' = evaluations \cup {e}
    BY <2>1, Zenon
  <2> HIDE DEF e
  <2>9. evaluations' \in SUBSET Evaluation
    BY <2>6, <2>7
  <2>8. reply' \in [Call -> [resp : Response, err : BOOLEAN]]
    BY <2>1, <2>4
  <2>10. /\ pc' = [pc EXCEPT ![c] = "correlating"]
         /\ UNCHANGED <<request, answer, toolCalls>>
    BY <1>4 DEF Evaluate
  <2>11. QED
    BY <2>1, <2>2, <2>3, <2>8, <2>9, <2>10, RunsTypes
<1>5. ASSUME NEW c \in Call, EvaluateUnrecorded(c)
      PROVE  TypeOK'
  <2>1. PICK o \in Effects(c) : Runs(c, o)
    BY <1>5 DEF EvaluateUnrecorded
  <2>2. o \in Outcome
    BY CallTypes
  <2>4. nextCell' \in Nat
    BY <1>5 DEF EvaluateUnrecorded
  <2>5. /\ reply' \in [Call -> [resp : Response, err : BOOLEAN]]
        /\ pc' = [pc EXCEPT ![c] = "correlating"]
        /\ UNCHANGED <<request, answer, evaluations, toolCalls>>
    BY <1>5 DEF EvaluateUnrecorded
  <2>6. QED
    BY <2>1, <2>2, <2>4, <2>5, RunsTypes
<1>6. ASSUME NEW c \in Call, EvaluateUnavailable(c)
      PROVE  TypeOK'
  BY <1>6 DEF EvaluateUnavailable, inputVars
<1>7. ASSUME NEW c \in Call, InsertEvalToolCall(c)
      PROVE  TypeOK'
  <2>1. OutputOf(c) \in Output /\ EvalCorrelation(c) \in Row
    BY CallTypes
  <2>2. toolCalls' \in Seq(Row)
    BY <1>7, <2>1 DEF InsertEvalToolCall
  <2>3. QED
    BY <1>7, <2>1, <2>2 DEF InsertEvalToolCall, inputVars
<1>8. ASSUME NEW c \in Call, InsertFails(c)
      PROVE  TypeOK'
  BY <1>8, CallTypes DEF InsertFails, inputVars
<1>9. CASE UNCHANGED vars
  BY <1>9 DEF vars, inputVars
<1>10. QED
  BY <1>1, <1>2, <1>3, <1>4, <1>5, <1>6, <1>7, <1>8, <1>9
     DEF Next, Eval, Finished

(* The types of all the state, for every instance. *)
THEOREM TypeCorrect == Spec => []TypeOK
<1>1. Init => TypeOK
  <2>1. NoOutput \in Output
    BY DEF NoOutput, Success, Output, ErrorText
  <2>2. NilInput \in Seen
    BY DEF Seen
  <2>3. ASSUME Init PROVE \A c \in Call : InputOf(c) \in Input
    BY <2>3, InputTypes DEF Init, Request, InputOf
  <2>4. QED
    BY <2>1, <2>2, <2>3, ResponseTypes DEF Init, TypeOK
<1>2. QED
  BY <1>1, TypeStep, PTL DEF Spec

-----------------------------------------------------------------------------
(* The record.  RecordInv is inductive; the promises about rows, cells and *)
(* answers follow from it.                                                 *)

LEMMA RecordTypes ==
    ASSUME TypeOK
    PROVE  /\ \A e \in evaluations : e.call \in Call /\ e.cell \in Nat
           /\ \A i \in DOMAIN toolCalls :
                toolCalls[i].call \in Call /\ toolCalls[i].cell \in Nat
<1>1. \A e \in evaluations : e \in Evaluation
  BY DEF TypeOK
<1>2. \A i \in DOMAIN toolCalls : toolCalls[i] \in Row
  BY DEF TypeOK
<1>3. QED
  BY <1>1, <1>2 DEF Evaluation, Row

(* Before its evaluation a call has no reply, and no cell is its own. *)
LEMMA Unevaluated ==
    ASSUME TypeOK, RecordInv, NEW c \in Call, pc[c] \notin Evaluated
    PROVE  /\ reply[c] = [resp |-> NoCell, err |-> FALSE]
           /\ \A e \in evaluations : e.call # c
<1>1. \A e \in evaluations : e.call # c
  BY DEF RecordInv, EvaluationsInv
<1>2. reply[c] \in [resp : Response, err : BOOLEAN]
  BY DEF TypeOK
<1>3. reply[c].resp = NoCell /\ ~reply[c].err
  BY <1>1 DEF RecordInv, RepliesInv
<1>4. QED
  BY <1>1, <1>2, <1>3

(* Before its answer a call has no row. *)
LEMMA Unlogged ==
    ASSUME RecordInv, NEW c \in Call, pc[c] # "done"
    PROVE  \A i \in DOMAIN toolCalls : toolCalls[i].call # c
BY DEF RecordInv, RowsInv

(* The steps before the evaluation leave the record alone. *)
LEMMA BeginStep ==
    ASSUME TypeOK, RecordInv, NEW c \in Call, Start(c) \/ PrepareEvalGlobals(c)
    PROVE  RecordInv'
<1>1. /\ pc[c] \in {"idle", "preparing"}
      /\ \A d \in Call : d # c => pc'[d] = pc[d]
      /\ pc'[c] \in {"preparing", "evaluating"}
      /\ UNCHANGED <<request, reply, answer, nextCell, evaluations, toolCalls>>
  BY DEF Start, PrepareEvalGlobals, TypeOK
<1>2. EvaluationsInv'
  BY <1>1, RecordTypes DEF RecordInv, EvaluationsInv, Evaluated, SourceOf
<1>3. RepliesInv'
  BY <1>1 DEF RecordInv, RepliesInv, Evaluated
<1>4. AnswersInv'
  BY <1>1 DEF RecordInv, AnswersInv, OutputOf, Logged
<1>5. RowsInv'
  BY <1>1, RecordTypes DEF RecordInv, RowsInv
<1>6. QED
  BY <1>2, <1>3, <1>4, <1>5 DEF RecordInv

(* A refused call is answered without a reply. *)
LEMMA RefuseStep ==
    ASSUME TypeOK, RecordInv, NEW c \in Call, PrepareFails(c)
    PROVE  RecordInv'
<1>1. /\ pc[c] = "preparing" /\ pc'[c] = "done"
      /\ \A d \in Call : d # c => pc'[d] = pc[d] /\ answer'[d] = answer[d]
      /\ UNCHANGED <<request, reply, nextCell, evaluations, toolCalls>>
  BY DEF PrepareFails, TypeOK
<1>2. /\ reply[c] = [resp |-> NoCell, err |-> FALSE]
      /\ \A e \in evaluations : e.call # c
  BY <1>1, Unevaluated DEF Evaluated
<1>3. EvaluationsInv'
  BY <1>1, <1>2, RecordTypes DEF RecordInv, EvaluationsInv, Evaluated, SourceOf
<1>4. RepliesInv'
  BY <1>1, <1>2 DEF RecordInv, RepliesInv, Evaluated
<1>5. AnswersInv'
  <2>1. answer'[c] = [output |-> Failure("refused"), err |-> FALSE]
    BY DEF PrepareFails, TypeOK
  <2>2. \A d \in Call : /\ OutputOf(d)' = OutputOf(d) /\ (Logged(d)' <=> Logged(d))
                        /\ reply'[d] = reply[d]
    BY <1>1 DEF OutputOf, Logged
  <2>3. AnswersInv
    BY DEF RecordInv
  <2>4. \A d \in Call \ {c} : pc'[d] = pc[d] /\ answer'[d] = answer[d]
    BY <1>1
  <2>5. reply'[c] = [resp |-> NoCell, err |-> FALSE]
    BY <1>2, <2>2
  <2>6. ASSUME NEW d \in Call, pc'[d] = "done"
        PROVE  \/ /\ answer'[d] = [output |-> Failure("refused"), err |-> FALSE]
                  /\ reply'[d] = [resp |-> NoCell, err |-> FALSE]
               \/ /\ answer'[d].output = OutputOf(d)'
                  /\ answer'[d].err <=> Strict /\ ~Logged(d)'
                  /\ reply'[d].resp = NoCell => reply'[d].err
    <3>1. CASE d = c
      BY <2>1, <2>5, <3>1
    <3>2. CASE d # c
      BY <2>2, <2>3, <2>4, <2>6, <3>2 DEF AnswersInv
    <3>3. QED
      BY <3>1, <3>2
  <2>7. QED
    BY <2>6 DEF AnswersInv
<1>6. RowsInv'
  BY <1>1, RecordTypes DEF RecordInv, RowsInv
<1>7. QED
  BY <1>3, <1>4, <1>5, <1>6 DEF RecordInv

(* The cell a call has just run is new, and so is the call's reply. *)
LEMMA EvaluateStep ==
    ASSUME TypeOK, RecordInv, NEW c \in Call, Evaluate(c)
    PROVE  RecordInv'
<1>1. /\ pc[c] = "evaluating" /\ pc'[c] = "correlating"
      /\ \A d \in Call : d # c => pc'[d] = pc[d] /\ reply'[d] = reply[d]
      /\ nextCell \in Nat /\ nextCell' = nextCell + 1
      /\ UNCHANGED <<request, answer, toolCalls>>
  BY DEF Evaluate, TypeOK
<1>2. /\ reply[c] = [resp |-> NoCell, err |-> FALSE]
      /\ \A e \in evaluations : e.call # c
  BY <1>1, Unevaluated DEF Evaluated
<1>3. PICK e0 :
        /\ e0.cell = nextCell' /\ e0.source = SourceOf(c) /\ e0.call = c
        /\ e0.ok = ~reply'[c].resp.threw
        /\ evaluations' = evaluations \cup {e0}
        /\ reply'[c].resp.cell = nextCell' /\ ~reply'[c].err
  <2>1. PICK o \in Effects(c) :
          /\ evaluations' = evaluations \cup
               {[cell |-> nextCell', source |-> SourceOf(c), ok |-> ~o.threw,
                 call |-> c, input |-> input]}
          /\ reply' = [reply EXCEPT ![c].resp =
               [cell |-> nextCell', threw |-> o.threw, json |-> o.json]]
    BY DEF Evaluate
  <2> DEFINE e0 == [cell |-> nextCell', source |-> SourceOf(c), ok |-> ~o.threw,
                    call |-> c, input |-> input]
             r0 == [cell |-> nextCell', threw |-> o.threw, json |-> o.json]
  <2>2. reply'[c] = [reply[c] EXCEPT !.resp = r0]
    BY <2>1, Zenon DEF TypeOK
  <2>3. reply'[c].resp = r0 /\ reply'[c].err = FALSE
    BY <1>2, <2>2
  <2>4. WITNESS e0
  <2>5. QED
    BY <2>1, <2>3
<1>4. EvaluationsInv'
  <2>1. \A e \in evaluations : e.call \in Call /\ e.call # c /\ e.cell \in 1 .. nextCell
    BY <1>2, RecordTypes DEF RecordInv, EvaluationsInv
  <2>2. ASSUME NEW e \in evaluations
        PROVE  /\ e.cell \in 1 .. nextCell'
               /\ e.source = SourceOf(e.call)'
               /\ pc'[e.call] \in Evaluated
               /\ reply'[e.call].resp.cell = e.cell
               /\ ~reply'[e.call].err
               /\ e.ok = ~reply'[e.call].resp.threw
    BY <1>1, <2>1 DEF RecordInv, EvaluationsInv, SourceOf
  <2>3. /\ e0.cell \in 1 .. nextCell'
        /\ e0.source = SourceOf(e0.call)'
        /\ pc'[e0.call] \in Evaluated
        /\ reply'[e0.call].resp.cell = e0.cell
        /\ ~reply'[e0.call].err
        /\ e0.ok = ~reply'[e0.call].resp.threw
    BY <1>1, <1>3 DEF SourceOf, Evaluated
  <2>4. \A e \in evaluations : e.cell # e0.cell
    BY <1>1, <1>3, <2>1
  <2>5. QED
    BY <1>3, <2>2, <2>3, <2>4 DEF RecordInv, EvaluationsInv
<1>5. RepliesInv'
  <2>1. ASSUME NEW d \in Call, d # c
        PROVE  \/ reply'[d].resp = NoCell
               \/ \E e \in evaluations' : e.call = d /\ e.cell = reply'[d].resp.cell
    BY <1>1, <1>3, <2>1 DEF RecordInv, RepliesInv
  <2>2. reply'[c].resp # NoCell
    BY <1>1, <1>3 DEF NoCell
  <2>3. QED
    BY <1>1, <1>3, <2>1, <2>2 DEF RecordInv, RepliesInv, Evaluated
<1>6. AnswersInv'
  <2>1. \A d \in Call : d # c => /\ OutputOf(d)' = OutputOf(d) /\ reply'[d] = reply[d]
                                 /\ pc'[d] = pc[d] /\ answer'[d] = answer[d]
                                 /\ (Logged(d)' <=> Logged(d))
    BY <1>1 DEF OutputOf, Logged
  <2>2. QED
    BY <1>1, <2>1 DEF RecordInv, AnswersInv
<1>7. RowsInv'
  BY <1>1, RecordTypes DEF RecordInv, RowsInv
<1>8. QED
  BY <1>4, <1>5, <1>6, <1>7 DEF RecordInv

(* An evaluation that fails leaves a reply that says so, and no cell. *)
LEMMA EvaluateFailsStep ==
    ASSUME TypeOK, RecordInv, NEW c \in Call,
           EvaluateUnrecorded(c) \/ EvaluateUnavailable(c)
    PROVE  RecordInv'
<1>1. /\ pc[c] = "evaluating" /\ pc'[c] = "correlating"
      /\ \A d \in Call : d # c => pc'[d] = pc[d] /\ reply'[d] = reply[d]
      /\ nextCell \in Nat /\ nextCell' \in {nextCell, nextCell + 1}
      /\ UNCHANGED <<request, answer, evaluations, toolCalls>>
  BY DEF EvaluateUnrecorded, EvaluateUnavailable, TypeOK
<1>2. /\ reply[c] = [resp |-> NoCell, err |-> FALSE]
      /\ \A e \in evaluations : e.call # c
  BY <1>1, Unevaluated DEF Evaluated
<1>3. reply'[c].resp = NoCell /\ reply'[c].err
  <2>1. reply'[c] = [reply[c] EXCEPT !.err = TRUE]
    BY DEF EvaluateUnrecorded, EvaluateUnavailable, TypeOK
  <2>2. QED
    BY <1>2, <2>1
<1>4. EvaluationsInv'
  BY <1>1, <1>2, RecordTypes DEF RecordInv, EvaluationsInv, Evaluated, SourceOf
<1>5. RepliesInv'
  BY <1>1, <1>3 DEF RecordInv, RepliesInv, Evaluated
<1>6. AnswersInv'
  <2>1. \A d \in Call : /\ Logged(d)' <=> Logged(d)
                        /\ d # c => OutputOf(d)' = OutputOf(d)
    BY <1>1 DEF OutputOf, Logged
  <2>2. \A d \in Call : pc'[d] = "done" => d # c /\ pc[d] = "done"
    BY <1>1
  <2>3. AnswersInv
    BY DEF RecordInv
  <2>4. \A d \in Call \ {c} : reply'[d] = reply[d] /\ answer'[d] = answer[d]
    BY <1>1
  <2>5. QED
    BY <2>1, <2>2, <2>3, <2>4 DEF AnswersInv
<1>7. RowsInv'
  BY <1>1, RecordTypes DEF RecordInv, RowsInv
<1>8. QED
  BY <1>4, <1>5, <1>6, <1>7 DEF RecordInv

(* The answers stay right when one more call is given the answer its reply *)
(* converts to, and nothing else of the replies or answers changes.        *)
LEMMA AnswersKept ==
    ASSUME TypeOK, RecordInv, NEW c \in Call,
           pc[c] = "correlating",
           \A d \in Call : d # c => /\ pc'[d] = pc[d] /\ answer'[d] = answer[d]
                                    /\ Logged(d)' <=> Logged(d),
           UNCHANGED reply,
           answer'[c].output = OutputOf(c),
           answer'[c].err <=> Strict /\ ~Logged(c)'
    PROVE  AnswersInv'
<1>1. ASSUME NEW d \in Call, pc'[d] = "done", d # c
      PROVE  \/ /\ answer'[d] = [output |-> Failure("refused"), err |-> FALSE]
                /\ reply'[d] = [resp |-> NoCell, err |-> FALSE]
             \/ /\ answer'[d].output = OutputOf(d)'
                /\ answer'[d].err <=> Strict /\ ~Logged(d)'
                /\ reply'[d].resp = NoCell => reply'[d].err
  BY <1>1 DEF RecordInv, AnswersInv, OutputOf
<1>2. /\ OutputOf(c)' = OutputOf(c)
      /\ reply'[c].resp = NoCell => reply'[c].err
  BY DEF RecordInv, RepliesInv, OutputOf
<1>3. QED
  BY <1>1, <1>2 DEF AnswersInv

(* The row, when there is one, is the first of its call. *)
LEMMA CorrelateStep ==
    ASSUME TypeOK, RecordInv, NEW c \in Call, InsertEvalToolCall(c) \/ InsertFails(c)
    PROVE  RecordInv'
<1>1. /\ pc[c] = "correlating" /\ pc'[c] = "done"
      /\ \A d \in Call : d # c => pc'[d] = pc[d] /\ answer'[d] = answer[d]
      /\ UNCHANGED <<request, reply, nextCell, evaluations>>
  BY DEF InsertEvalToolCall, InsertFails, TypeOK
<1>2. /\ answer'[c].output = OutputOf(c)
      /\ \/ InsertEvalToolCall(c) /\ answer'[c].err = FALSE
         \/ InsertFails(c) /\ answer'[c].err = Strict
  BY DEF InsertEvalToolCall, InsertFails, TypeOK
<1>3. /\ DOMAIN toolCalls = 1 .. Len(toolCalls) /\ Len(toolCalls) \in Nat
      /\ \/ toolCalls' = toolCalls /\ InsertFails(c)
         \/ /\ toolCalls' = Append(toolCalls, EvalCorrelation(c))
            /\ InsertEvalToolCall(c)
  BY DEF InsertEvalToolCall, InsertFails, TypeOK
<1>4. \A i \in DOMAIN toolCalls : toolCalls[i].call # c
  BY <1>1, Unlogged
<1>5. EvaluationsInv'
  BY <1>1, RecordTypes DEF RecordInv, EvaluationsInv, Evaluated, SourceOf
<1>6. RepliesInv'
  BY <1>1 DEF RecordInv, RepliesInv, Evaluated
<1> DEFINE row == EvalCorrelation(c)
<1>7. row.call = c /\ row.code = request[c].code /\ row.cell = reply[c].resp.cell
  BY DEF EvalCorrelation
<1>8. CASE InsertEvalToolCall(c)
  <2>1. toolCalls' = Append(toolCalls, row) /\ answer'[c].err = FALSE
    BY <1>8 DEF InsertEvalToolCall, TypeOK
  <2>2. row \in Row /\ toolCalls \in Seq(Row)
    BY CallTypes DEF TypeOK
  <2> HIDE DEF row
  <2>3. /\ DOMAIN toolCalls' = 1 .. Len(toolCalls) + 1
        /\ toolCalls'[Len(toolCalls) + 1] = row
        /\ \A i \in DOMAIN toolCalls : toolCalls'[i] = toolCalls[i]
    <3>1. /\ toolCalls' \in Seq(Row) /\ Len(toolCalls') = Len(toolCalls) + 1
          /\ \A i \in 1 .. Len(toolCalls) : toolCalls'[i] = toolCalls[i]
          /\ toolCalls'[Len(toolCalls) + 1] = row
      BY <2>1, <2>2, AppendProperties
    <3>2. QED
      BY <1>3, <3>1
  <2>4. Logged(c)' /\ \A d \in Call : d # c => (Logged(d)' <=> Logged(d))
    BY <1>3, <1>7, <2>3 DEF Logged
  <2>5. AnswersInv'
    BY <1>1, <1>2, <2>1, <2>4, AnswersKept
  <2>6. RowsInv'
    <3>1. \A i \in DOMAIN toolCalls :
             /\ toolCalls'[i] = toolCalls[i] /\ toolCalls[i].call \in Call
             /\ toolCalls[i].call # c
      BY <1>4, <2>3, RecordTypes
    <3>2. \A i \in DOMAIN toolCalls' :
             i \in DOMAIN toolCalls \/ (toolCalls'[i] = row /\ i = Len(toolCalls) + 1)
      BY <1>3, <2>3
    <3>3. \A i \in DOMAIN toolCalls' :
             /\ pc'[toolCalls'[i].call] = "done"
             /\ toolCalls'[i].code = request'[toolCalls'[i].call].code
             /\ toolCalls'[i].cell = reply'[toolCalls'[i].call].resp.cell
      BY <1>1, <1>7, <3>1, <3>2 DEF RecordInv, RowsInv
    <3>4. \A i, j \in DOMAIN toolCalls' :
             toolCalls'[i].call = toolCalls'[j].call => i = j
      BY <1>7, <3>1, <3>2 DEF RecordInv, RowsInv
    <3>5. QED
      BY <3>3, <3>4 DEF RowsInv
  <2>7. QED
    BY <1>5, <1>6, <2>5, <2>6 DEF RecordInv
<1>9. CASE InsertFails(c)
  <2>1. toolCalls' = toolCalls /\ answer'[c].err = Strict
    BY <1>9 DEF InsertFails, TypeOK
  <2>2. ~Logged(c)' /\ \A d \in Call : Logged(d)' <=> Logged(d)
    BY <1>4, <2>1 DEF Logged
  <2>3. AnswersInv'
    BY <1>1, <1>2, <2>1, <2>2, AnswersKept
  <2>4. RowsInv'
    BY <1>1, <2>1, RecordTypes DEF RecordInv, RowsInv
  <2>5. QED
    BY <1>5, <1>6, <2>3, <2>4 DEF RecordInv
<1>10. QED
  BY <1>8, <1>9

LEMMA RecordStep == TypeOK /\ RecordInv /\ [Next]_vars => RecordInv'
<1> SUFFICES ASSUME TypeOK, RecordInv, [Next]_vars
             PROVE  RecordInv'
  OBVIOUS
<1>1. CASE UNCHANGED vars
  <2>1. EvaluationsInv' /\ RepliesInv'
    BY <1>1 DEF vars, RecordInv, EvaluationsInv, RepliesInv, SourceOf
  <2>2. AnswersInv' /\ RowsInv'
    BY <1>1 DEF vars, RecordInv, AnswersInv, RowsInv, OutputOf, Logged
  <2>3. QED
    BY <2>1, <2>2 DEF RecordInv
<1>2. ASSUME NEW c \in Call, Start(c) \/ Eval(c)
      PROVE  RecordInv'
  BY <1>2, BeginStep, RefuseStep, EvaluateStep, EvaluateFailsStep, CorrelateStep
     DEF Eval
<1>3. QED
  BY <1>1, <1>2 DEF Next, Finished

LEMMA RecordInit == Init => RecordInv
BY DEF Init, RecordInv, EvaluationsInv, RepliesInv, AnswersInv, RowsInv, Evaluated

(* The invariant that relates cells, replies, rows and answers. *)
THEOREM RecordCorrect == Spec => []RecordInv
BY RecordInit, RecordStep, TypeCorrect, PTL DEF Spec

(* A recorded cell is the one the reply of its call names. *)
LEMMA CellOfReply ==
    ASSUME TypeOK, RecordInv, NEW c \in Call
    PROVE  /\ \A e \in evaluations : e.call = c =>
                /\ reply[c].resp.cell = e.cell /\ e.cell # 0
                /\ e.ok = ~reply[c].resp.threw /\ ~reply[c].err
           /\ reply[c].resp.cell # 0 =>
                \E e \in evaluations : e.call = c /\ e.cell = reply[c].resp.cell
<1>1. NoCell.cell = 0
  BY DEF NoCell
<1>2. QED
  BY <1>1 DEF RecordInv, EvaluationsInv, RepliesInv

(* repl_cell_id names the recorded cell that ran the code of its row. *)
THEOREM RowsPointToTheirCells == Spec => []RowPointsToItsCell
<1>1. TypeOK /\ RecordInv => RowPointsToItsCell
  <2> SUFFICES ASSUME TypeOK, RecordInv, NEW i \in DOMAIN toolCalls,
                      toolCalls[i].cell # 0
               PROVE  \E e \in evaluations :
                        /\ e.cell = toolCalls[i].cell
                        /\ e.call = toolCalls[i].call
                        /\ e.source = BuildEvalCellSource(toolCalls[i].code)
    BY DEF RowPointsToItsCell
  <2> DEFINE c == toolCalls[i].call
  <2>1. c \in Call
    BY RecordTypes
  <2>2. toolCalls[i].code = request[c].code /\ toolCalls[i].cell = reply[c].resp.cell
    BY DEF RecordInv, RowsInv
  <2>3. PICK e \in evaluations : e.call = c /\ e.cell = reply[c].resp.cell
    BY <2>1, <2>2, CellOfReply
  <2>4. e.source = SourceOf(c)
    BY <2>3 DEF RecordInv, EvaluationsInv
  <2>5. QED
    BY <2>2, <2>3, <2>4 DEF SourceOf
<1>2. QED
  BY <1>1, TypeCorrect, RecordCorrect, PTL

(* No cell is correlated with two rows. *)
THEOREM CellsCorrelatedOnce == Spec => []CellCorrelatedOnce
<1>1. TypeOK /\ RecordInv => CellCorrelatedOnce
  <2> SUFFICES ASSUME TypeOK, RecordInv,
                      NEW i \in DOMAIN toolCalls, NEW j \in DOMAIN toolCalls,
                      toolCalls[i].cell = toolCalls[j].cell, toolCalls[i].cell # 0
               PROVE  i = j
    BY DEF CellCorrelatedOnce
  <2>1. /\ toolCalls[i].call \in Call /\ toolCalls[j].call \in Call
        /\ toolCalls[i].cell = reply[toolCalls[i].call].resp.cell
        /\ toolCalls[j].cell = reply[toolCalls[j].call].resp.cell
    BY RecordTypes DEF RecordInv, RowsInv
  <2> DEFINE c == toolCalls[i].call
             d == toolCalls[j].call
  <2> HIDE DEF c, d
  <2>2. PICK e \in evaluations : e.call = c /\ e.cell = toolCalls[i].cell
    BY <2>1, CellOfReply DEF c
  <2>3. PICK f \in evaluations : f.call = d /\ f.cell = toolCalls[i].cell
    <3>1. d \in Call /\ reply[d].resp.cell = toolCalls[i].cell
      BY <2>1 DEF d
    <3>2. QED
      BY <3>1, CellOfReply
  <2>4. e = f
    BY <2>2, <2>3 DEF RecordInv, EvaluationsInv
  <2>5. QED
    BY <2>2, <2>3, <2>4 DEF RecordInv, RowsInv, c, d
<1>2. QED
  BY <1>1, TypeCorrect, RecordCorrect, PTL

(* A cell without a host error: what decides the error the model is told. *)
LEMMA EvaluatedConversion ==
    ASSUME NEW resp \in Response, resp.cell # 0
    PROVE  LET error == Convert(resp, FALSE).error IN
           /\ error \notin {"refused", "host"}
           /\ resp.threw <=> error = "execution"
<1>1. \A text : Failure(text).error = text
  BY DEF Failure
<1>2. Success(Decoded(resp.json)).error = ""
  BY DEF Success
<1>3. resp.threw \in BOOLEAN
  BY DEF Response
<1>4. QED
  BY <1>1, <1>2, <1>3 DEF Convert, ResultMissing

(* What the model is told agrees with the recorded cells. *)
THEOREM AnswersAgreeWithRecord == Spec => []AnswerAgreesWithRecord
<1>1. TypeOK /\ RecordInv => AnswerAgreesWithRecord
  <2> SUFFICES ASSUME TypeOK, RecordInv, NEW c \in Call, pc[c] = "done"
               PROVE  LET mine == {e \in evaluations : e.call = c}
                          error == answer[c].output.error
                      IN  /\ mine = {} <=> error \in {"refused", "host"}
                          /\ \A e \in mine : ~e.ok <=> error = "execution"
    BY DEF AnswerAgreesWithRecord
  <2> DEFINE mine == {e \in evaluations : e.call = c}
             error == answer[c].output.error
  <2>1. CASE mine = {}
    <3>1. reply[c].resp = NoCell
      BY <2>1 DEF RecordInv, RepliesInv
    <3>2. CASE answer[c] = [output |-> Failure("refused"), err |-> FALSE]
      BY <2>1, <3>2 DEF Failure
    <3>3. CASE answer[c].output = OutputOf(c) /\ reply[c].err
      BY <2>1, <3>1, <3>3 DEF OutputOf, Convert, Failure, NoCell
    <3>4. QED
      BY <3>1, <3>2, <3>3 DEF RecordInv, AnswersInv
  <2>2. CASE mine # {}
    <3>1. PICK e \in evaluations : e.call = c
      BY <2>2
    <3>2. /\ reply[c].resp.cell # 0 /\ reply[c].err = FALSE
          /\ \A f \in mine : f.ok = ~reply[c].resp.threw
      BY <3>1, CellOfReply DEF TypeOK
    <3>3. answer[c].output = OutputOf(c)
      <4>1. reply[c].resp # NoCell
        BY <3>2 DEF NoCell
      <4>2. QED
        BY <4>1 DEF RecordInv, AnswersInv
    <3>4. /\ error \notin {"refused", "host"}
          /\ reply[c].resp.threw <=> error = "execution"
      <4>1. error = Convert(reply[c].resp, FALSE).error
        BY <3>2, <3>3 DEF OutputOf
      <4>2. QED
        BY <3>2, <4>1, EvaluatedConversion DEF TypeOK
    <3>5. QED
      BY <2>2, <3>2, <3>4
  <2>3. QED
    BY <2>1, <2>2
<1>2. QED
  BY <1>1, TypeCorrect, RecordCorrect, PTL

(* A lost row is reported in strict mode, and only then. *)
THEOREM ReportsStrictly == Spec => []StrictReporting
<1>1. RecordInv => StrictReporting
  BY DEF RecordInv, AnswersInv, StrictReporting
<1>2. QED
  BY <1>1, RecordCorrect, PTL

-----------------------------------------------------------------------------
(* Where the input of a cell comes from. *)

(* A waiting call has evaluated nothing: its history can still grow. *)
LEMMA WaitingUnevaluated ==
    ASSUME TypeOK, RecordInv
    PROVE  \A e \in evaluations :
               e.call \in Call /\ pc[e.call] \in Evaluated /\ e.call \notin Waiting
BY RecordTypes DEF RecordInv, EvaluationsInv, Evaluated, Waiting

(* A call that begins is offered what the others wait with, and they its own. *)
LEMMA StartOffers ==
    ASSUME TypeOK, RecordInv, OverlapInv, NEW c \in Call, Start(c)
    PROVE  OverlapInv'
<1>1. /\ pc[c] = "idle" /\ pc' = [pc EXCEPT ![c] = "preparing"]
      /\ offered' = [Offer(c, InputOf(c)) EXCEPT ![c] = {InputOf(d) : d \in Waiting}]
      /\ UNCHANGED <<request, input, evaluations>>
  BY DEF Start
<1>2. /\ c \notin Waiting /\ Waiting' = Waiting \cup {c} /\ Waiting \subseteq Call
      /\ \A d \in Call : InputOf(d)' = InputOf(d)
  BY <1>1 DEF Waiting, InputOf, TypeOK
<1>3. /\ offered'[c] = {InputOf(d) : d \in Waiting}
      /\ \A d \in Waiting : offered'[d] = offered[d] \cup {InputOf(c)}
      /\ \A d \in Call : d # c /\ d \notin Waiting => offered'[d] = offered[d]
  BY <1>1, <1>2 DEF Offer
<1>4. \A d, e \in Waiting' : d # e => InputOf(e)' \in offered'[d]
  <2>1. ASSUME NEW d \in Waiting', NEW e \in Waiting', d # e
        PROVE  InputOf(e) \in offered'[d]
    <3>1. CASE d = c
      BY <1>2, <1>3, <2>1, <3>1
    <3>2. CASE e = c
      BY <1>2, <1>3, <2>1, <3>2
    <3>3. CASE d # c /\ e # c
      BY <1>2, <1>3, <2>1, <3>3 DEF OverlapInv
    <3>4. QED
      BY <3>1, <3>2, <3>3
  <2>2. QED
    BY <1>2, <2>1
<1>5. ASSUME NEW d \in Call, pc'[d] = "evaluating"
      PROVE  input' = InputOf(d)' \/ input' \in offered'[d]
  <2>1. pc[d] = "evaluating" /\ d \in Waiting
    BY <1>1, <1>5 DEF TypeOK, Waiting
  <2>2. QED
    BY <1>1, <1>2, <1>3, <2>1 DEF OverlapInv
<1>6. InputFromOverlap'
  <2>1. ASSUME NEW e \in evaluations
        PROVE  e.call \in Call /\ e.call # c /\ offered'[e.call] = offered[e.call]
    BY <1>1, <1>3, <2>1, WaitingUnevaluated DEF Evaluated
  <2>2. QED
    BY <1>1, <1>2, <2>1 DEF OverlapInv, InputFromOverlap
<1>7. QED
  BY <1>4, <1>5, <1>6 DEF OverlapInv

(* What a call sets, the other waiting calls have been offered. *)
LEMMA PrepareOffers ==
    ASSUME TypeOK, OverlapInv, NEW c \in Call, PrepareEvalGlobals(c) \/ PrepareFails(c)
    PROVE  OverlapInv'
<1>1. /\ pc[c] = "preparing"
      /\ \/ pc' = [pc EXCEPT ![c] = "evaluating"] /\ input' = InputOf(c)
         \/ pc' = [pc EXCEPT ![c] = "done"] /\ input' \in {input, InputOf(c)}
      /\ UNCHANGED <<request, offered, evaluations>>
  BY DEF PrepareEvalGlobals, PrepareFails, SetInput
<1>2. /\ c \in Waiting /\ Waiting' \subseteq Waiting
      /\ \A d \in Call : InputOf(d)' = InputOf(d)
  BY <1>1 DEF Waiting, InputOf, TypeOK
<1>3. ASSUME NEW d \in Call, pc'[d] = "evaluating"
      PROVE  input' = InputOf(d)' \/ input' \in offered'[d]
  <2>1. CASE d = c
    BY <1>1, <1>2, <1>3, <2>1 DEF TypeOK
  <2>2. CASE d # c
    <3>1. pc[d] = "evaluating" /\ d \in Waiting
      BY <1>1, <1>3, <2>2 DEF TypeOK, Waiting
    <3>2. InputOf(c) \in offered[d]
      BY <1>2, <2>2, <3>1 DEF OverlapInv
    <3>3. QED
      BY <1>1, <1>2, <3>1, <3>2 DEF OverlapInv
  <2>3. QED
    BY <2>1, <2>2
<1>4. InputFromOverlap' /\ \A d, e \in Waiting' : d # e => InputOf(e)' \in offered'[d]
  <2>1. Waiting \subseteq Call
    BY DEF Waiting
  <2>2. ASSUME NEW e \in evaluations PROVE InputOf(e.call)' = InputOf(e.call)
    BY <1>1 DEF InputOf
  <2>3. QED
    BY <1>1, <1>2, <2>1, <2>2 DEF OverlapInv, InputFromOverlap
<1>5. QED
  BY <1>3, <1>4 DEF OverlapInv

(* What a cell leaves, the waiting calls are offered; what it found is settled. *)
LEMMA EvaluateOffers ==
    ASSUME TypeOK, RecordInv, OverlapInv, NEW c \in Call,
           Evaluate(c) \/ EvaluateUnrecorded(c)
    PROVE  OverlapInv'
<1>1. /\ pc[c] = "evaluating" /\ pc' = [pc EXCEPT ![c] = "correlating"]
      /\ request' = request
  BY DEF Evaluate, EvaluateUnrecorded
<1>2. PICK o \in Effects(c) : input' = LeftInput(o) /\ offered' = Offer(c, LeftInput(o))
  BY DEF Evaluate, EvaluateUnrecorded, Runs
<1>3. /\ c \in Waiting /\ Waiting' = Waiting \ {c} /\ Waiting \subseteq Call
      /\ \A d \in Call : InputOf(d)' = InputOf(d)
  BY <1>1 DEF Waiting, InputOf, TypeOK
<1>4. /\ \A d \in Waiting \ {c} : offered'[d] = offered[d] \cup {LeftInput(o)}
      /\ \A d \in Call : d = c \/ d \notin Waiting => offered'[d] = offered[d]
  BY <1>2, <1>3 DEF Offer
<1>5. \A d, e \in Waiting' : d # e => InputOf(e)' \in offered'[d]
  BY <1>3, <1>4 DEF OverlapInv
<1>6. ASSUME NEW d \in Call, pc'[d] = "evaluating"
      PROVE  input' \in offered'[d]
  <2>1. d # c /\ d \in Waiting
    BY <1>1, <1>6 DEF TypeOK, Waiting
  <2>2. QED
    BY <1>2, <1>4, <2>1
<1>7. \A e \in evaluations :
        e.call \in Call /\ InputOf(e.call)' = InputOf(e.call)
          /\ offered'[e.call] = offered[e.call]
  BY <1>3, <1>4, WaitingUnevaluated
<1>8. evaluations' = evaluations
        \/ \E e0 : e0.call = c /\ e0.input = input /\ evaluations' = evaluations \cup {e0}
  <2>1. CASE EvaluateUnrecorded(c)
    BY <2>1 DEF EvaluateUnrecorded
  <2>2. CASE Evaluate(c)
    <3>1. PICK p \in Effects(c) :
            evaluations' = evaluations \cup
              {[cell |-> nextCell', source |-> SourceOf(c), ok |-> ~p.threw,
                call |-> c, input |-> input]}
      BY <2>2 DEF Evaluate
    <3> DEFINE e0 == [cell |-> nextCell', source |-> SourceOf(c), ok |-> ~p.threw,
                      call |-> c, input |-> input]
    <3>2. e0.call = c /\ e0.input = input
      OBVIOUS
    <3>3. evaluations' = evaluations \cup {e0}
      BY <3>1, Zenon
    <3> HIDE DEF e0
    <3>4. QED
      BY <3>2, <3>3
  <2>3. QED
    BY <2>1, <2>2
<1>9. InputFromOverlap'
  <2>1. (input = InputOf(c) \/ input \in offered[c]) /\ offered'[c] = offered[c]
          /\ InputOf(c)' = InputOf(c)
    BY <1>1, <1>3, <1>4 DEF OverlapInv
  <2>2. \A e \in evaluations : e.input = InputOf(e.call)' \/ e.input \in offered'[e.call]
    BY <1>7 DEF OverlapInv, InputFromOverlap
  <2>3. QED
    BY <1>8, <2>1, <2>2 DEF InputFromOverlap
<1>10. QED
  BY <1>5, <1>6, <1>9 DEF OverlapInv

(* The other steps leave the inputs alone, and nobody begins to wait. *)
LEMMA RestOffersNothing ==
    ASSUME TypeOK, OverlapInv, UNCHANGED <<request, inputVars, evaluations>>,
           \A d \in Call : pc'[d] \in {"preparing", "evaluating"} => pc'[d] = pc[d]
    PROVE  OverlapInv'
<1>1. UNCHANGED <<request, input, offered, evaluations>>
  BY DEF inputVars
<1>2. Waiting' \subseteq Waiting /\ Waiting \subseteq Call
  BY DEF Waiting
<1>3. \A d : InputOf(d)' = InputOf(d)
  BY <1>1 DEF InputOf
<1>4. QED
  BY <1>1, <1>2, <1>3 DEF OverlapInv, InputFromOverlap

LEMMA OverlapStep == TypeOK /\ RecordInv /\ OverlapInv /\ [Next]_vars => OverlapInv'
<1> SUFFICES ASSUME TypeOK, RecordInv, OverlapInv, [Next]_vars
             PROVE  OverlapInv'
  OBVIOUS
<1>1. ASSUME NEW c \in Call,
             EvaluateUnavailable(c) \/ InsertEvalToolCall(c) \/ InsertFails(c)
      PROVE  OverlapInv'
  <2>1. /\ UNCHANGED <<request, inputVars, evaluations>>
        /\ pc' = [pc EXCEPT ![c] = "correlating"] \/ pc' = [pc EXCEPT ![c] = "done"]
    BY <1>1 DEF EvaluateUnavailable, InsertEvalToolCall, InsertFails
  <2>2. \A d \in Call : pc'[d] \in {"preparing", "evaluating"} => pc'[d] = pc[d]
    BY <2>1 DEF TypeOK
  <2>3. QED
    BY <2>1, <2>2, RestOffersNothing
<1>2. CASE UNCHANGED vars
  BY <1>2, RestOffersNothing DEF vars
<1>3. QED
  BY <1>1, <1>2, StartOffers, PrepareOffers, EvaluateOffers DEF Next, Eval, Finished

LEMMA OverlapAlways == Spec => []OverlapInv
<1>1. Init => OverlapInv
  BY DEF Init, OverlapInv, Waiting, InputFromOverlap
<1>2. QED
  BY <1>1, OverlapStep, TypeCorrect, RecordCorrect, PTL DEF Spec

(* Whatever the executor runs at once, a cell finds its own input or one that *)
(* came from a call overlapping its own: nothing outlives its call.           *)
THEOREM InputsExplained == Spec => []InputFromOverlap
<1>1. OverlapInv => InputFromOverlap
  BY DEF OverlapInv
<1>2. QED
  BY <1>1, OverlapAlways, PTL

-----------------------------------------------------------------------------
(* The refinement of AtomicEval: the initial states map to initial states  *)
(* and every step maps to a step of the session that serves its calls      *)
(* atomically, or to a stutter.                                            *)

(* The abstract variables, by the name the mapping gives them. *)
Ask == [c \in Call |-> [source |-> SourceOf(c), input |-> InputOf(c)]]
Phases == [c \in Call |-> Phase(c)]
Outputs == [c \in Call |-> Decided(c)]

(* The abstract session converts results as the tool does. *)
LEMMA SameConversions ==
    /\ Atomic!NoOutput = NoOutput
    /\ \A text : Atomic!Failure(text) = Failure(text)
    /\ Atomic!HostFailure = Failure("host")
    /\ \A o : Atomic!ResultOf(o)
               = Convert([cell |-> 1, threw |-> o.threw, json |-> o.json], FALSE)
BY DEF NoOutput, Success, Failure, Convert, ResultMissing, Decoded, Atomic!NoOutput,
       Atomic!Success, Atomic!Failure, Atomic!HostFailure, Atomic!ResultOf,
       Atomic!Convert, Atomic!ResultMissing, Atomic!Decoded

LEMMA InitRefines == Init => Atomic!Init
<1> SUFFICES ASSUME Init PROVE Atomic!Init
  OBVIOUS
<1>1. /\ request \in [Call -> Request] /\ env = InitEnv /\ offered = [c \in Call |-> {}]
      /\ \A c \in Call : pc[c] = "idle" /\ answer[c].output = NoOutput
  BY DEF Init
<1>2. \A c \in Call : SourceOf(c) \in Source /\ InputOf(c) \in Input
  BY <1>1, SourceType, InputTypes DEF Request, SourceOf, InputOf
<1>3. Ask \in [Call -> [source : Source, input : Input]]
  BY <1>2 DEF Ask
<1>4. Phases = [c \in Call |-> "new"] /\ Outputs = [c \in Call |-> NoOutput]
  BY <1>1 DEF Phases, Outputs, Phase, Decided
<1>5. QED
  BY <1>1, <1>3, <1>4, SameConversions DEF Atomic!Init, Ask, Phases, Outputs

(* A step of call c leaves the arguments and the other calls as they are. *)
LEMMA OneCallSteps ==
    ASSUME TypeOK, NEW c \in Call, Start(c) \/ Eval(c)
    PROVE  /\ Ask' = Ask
           /\ Phases' = [Phases EXCEPT ![c] = Phase(c)']
           /\ Outputs' = [Outputs EXCEPT ![c] = Decided(c)']
<1>1. /\ request' = request
      /\ \A d \in Call : d # c => /\ pc'[d] = pc[d] /\ reply'[d] = reply[d]
                                /\ answer'[d] = answer[d]
  BY DEF TypeOK, Eval, Start, PrepareEvalGlobals, PrepareFails, Evaluate,
         EvaluateUnrecorded, EvaluateUnavailable, InsertEvalToolCall, InsertFails
<1>2. \A d \in Call : /\ SourceOf(d)' = SourceOf(d) /\ InputOf(d)' = InputOf(d)
                      /\ d # c => Phase(d)' = Phase(d) /\ Decided(d)' = Decided(d)
  BY <1>1 DEF SourceOf, InputOf, Phase, Decided, OutputOf
<1>3. QED
  BY <1>2 DEF Ask, Phases, Outputs

(* The calls that wait are the open ones, and get the same offers. *)
LEMMA SameOffers ==
    ASSUME TypeOK
    PROVE  /\ Atomic!Open = Waiting
           /\ \A c, in : Atomic!OfferOthers(c, in) = Offer(c, in)
           /\ \A o : Atomic!LeftInput(o) = LeftInput(o)
<1>1. \A c \in Call : Phases[c] = "open" <=> c \in Waiting
  BY DEF Phases, Phase, Waiting, TypeOK
<1>2. Atomic!Open = Waiting
  BY <1>1 DEF Atomic!Open, Phases, Waiting
<1>3. QED
  BY <1>2 DEF Atomic!OfferOthers, Offer, Atomic!LeftInput, LeftInput

LEMMA StartRefines ==
    ASSUME TypeOK, NEW c \in Call, Start(c)
    PROVE  Atomic!Make(c)
<1>1. /\ pc[c] = "idle" /\ pc'[c] = "preparing"
      /\ offered' = [Offer(c, InputOf(c)) EXCEPT ![c] = {InputOf(d) : d \in Waiting}]
      /\ UNCHANGED <<env, answer>>
  BY DEF Start, TypeOK
<1>2. Phases[c] = "new" /\ Phase(c)' = "open" /\ Decided(c)' = Outputs[c]
  BY <1>1 DEF Phases, Outputs, Phase, Decided
<1>3. Ask' = Ask /\ Phases' = [Phases EXCEPT ![c] = "open"] /\ Outputs' = Outputs
  <2>1. Outputs = [Outputs EXCEPT ![c] = Outputs[c]]
    BY DEF Outputs
  <2>2. QED
    BY <1>2, <2>1, OneCallSteps
<1>4. \A d \in Call : Ask[d].input = InputOf(d)
  BY DEF Ask
<1>5. {Ask[d].input : d \in Waiting} = {InputOf(d) : d \in Waiting}
  BY <1>4 DEF Waiting
<1>6. offered' = [Atomic!OfferOthers(c, Ask[c].input) EXCEPT ![c] =
                    {Ask[d].input : d \in Atomic!Open}]
  BY <1>1, <1>4, <1>5, SameOffers
<1>7. QED
  BY <1>1, <1>2, <1>3, <1>6 DEF Atomic!Make, Ask, Phases, Outputs

(* Setting the globals of a call is not seen. *)
LEMMA PrepareStutters ==
    ASSUME TypeOK, NEW c \in Call, PrepareEvalGlobals(c)
    PROVE  UNCHANGED Atomic!vars
<1>1. /\ pc[c] = "preparing" /\ pc'[c] = "evaluating"
      /\ UNCHANGED <<env, answer, offered>>
  BY DEF PrepareEvalGlobals, TypeOK
<1>2. Phase(c)' = Phases[c] /\ Decided(c)' = Outputs[c]
  BY <1>1 DEF Phases, Outputs, Phase, Decided
<1>3. Ask' = Ask /\ Phases' = Phases /\ Outputs' = Outputs
  <2>1. Phases = [Phases EXCEPT ![c] = Phases[c]] /\ Outputs = [Outputs EXCEPT ![c] = Outputs[c]]
    BY DEF Phases, Outputs
  <2>2. QED
    BY <1>2, <2>1, OneCallSteps DEF Eval
<1>4. QED
  BY <1>1, <1>3 DEF Atomic!vars, Ask, Phases, Outputs

LEMMA RefuseRefines ==
    ASSUME TypeOK, NEW c \in Call, PrepareFails(c)
    PROVE  Atomic!Refuse(c)
<1>1. /\ pc[c] = "preparing" /\ pc'[c] = "done" /\ env' = env /\ offered' = offered
      /\ answer'[c].output = Failure("refused")
  BY DEF PrepareFails, TypeOK
<1>2. Phases[c] = "open" /\ Phase(c)' = "answered" /\ Decided(c)' = Failure("refused")
  BY <1>1 DEF Phases, Phase, Decided
<1>3. Ask' = Ask /\ Phases' = [Phases EXCEPT ![c] = "answered"]
      /\ Outputs' = [Outputs EXCEPT ![c] = Failure("refused")]
  BY <1>2, OneCallSteps DEF Eval
<1>4. QED
  BY <1>1, <1>2, <1>3, SameConversions DEF Atomic!Refuse, Ask, Phases, Outputs

(* The number of a cell does not matter to what the model is told. *)
LEMMA CellNumberIrrelevant ==
    ASSUME NEW r \in Response, NEW q \in Response, r.cell # 0, q.cell # 0,
           r.threw = q.threw, r.json = q.json
    PROVE  Convert(r, FALSE) = Convert(q, FALSE)
BY DEF Convert, ResultMissing, Response

(* The call takes effect when its cell is run, on what it has been offered. *)
LEMMA EvaluateRefines ==
    ASSUME TypeOK, RecordInv, OverlapInv, NEW c \in Call, Evaluate(c)
    PROVE  Atomic!Serve(c)
<1>1. /\ pc[c] = "evaluating" /\ pc'[c] = "correlating"
      /\ nextCell' \in Nat /\ nextCell' # 0
      /\ input \in {InputOf(c)} \cup offered[c]
  BY DEF Evaluate, TypeOK, OverlapInv
<1>2. reply[c] = [resp |-> NoCell, err |-> FALSE]
  BY <1>1, Unevaluated DEF Evaluated
<1>3. PICK o \in Effects(c) :
        /\ env' = o.env /\ offered' = Offer(c, LeftInput(o))
        /\ reply' = [reply EXCEPT ![c].resp =
             [cell |-> nextCell', threw |-> o.threw, json |-> o.json]]
  BY DEF Evaluate, Runs
<1> DEFINE r == [cell |-> nextCell', threw |-> o.threw, json |-> o.json]
<1>4. reply'[c].resp = r /\ reply'[c].err = FALSE
  <2>1. reply'[c] = [reply[c] EXCEPT !.resp = r]
    BY <1>3, Zenon DEF TypeOK
  <2>2. QED
    BY <1>2, <2>1
<1>5. OutputOf(c)' = Atomic!ResultOf(o)
  <2> DEFINE q == [cell |-> 1, threw |-> o.threw, json |-> o.json]
  <2>1. r \in Response /\ q \in Response
    BY <1>1, CallTypes, ResponseTypes
  <2>2. Convert(r, FALSE) = Convert(q, FALSE)
    <3>1. r.cell # 0 /\ q.cell # 0 /\ r.threw = q.threw /\ r.json = q.json
      BY <1>1
    <3> HIDE DEF r, q
    <3>2. QED
      BY <2>1, <3>1, CellNumberIrrelevant
  <2>3. OutputOf(c)' = Convert(r, FALSE)
    BY <1>4, Zenon DEF OutputOf
  <2>4. QED
    BY <2>2, <2>3, SameConversions, Zenon
<1>6. Phases[c] = "open" /\ Phase(c)' = "served" /\ Decided(c)' = Atomic!ResultOf(o)
  BY <1>1, <1>5 DEF Phases, Phase, Decided
<1>7. /\ Ask' = Ask /\ Phases' = [Phases EXCEPT ![c] = "served"]
      /\ Outputs' = [Outputs EXCEPT ![c] = Atomic!ResultOf(o)]
  BY <1>6, OneCallSteps DEF Eval
<1>8. input \in {Ask[c].input} \cup offered[c] /\ o \in Exec[Ask[c].source, input, env]
  BY <1>1 DEF Effects, Ask
<1>9. offered' = Atomic!OfferOthers(c, Atomic!LeftInput(o))
  BY <1>3, SameOffers
<1>10. QED
  BY <1>3, <1>6, <1>7, <1>8, <1>9 DEF Atomic!Serve, Ask, Phases, Outputs

(* An evaluation that is not recorded is served with a host failure. *)
LEMMA EvaluateFailsRefines ==
    ASSUME TypeOK, RecordInv, OverlapInv, NEW c \in Call,
           EvaluateUnrecorded(c) \/ EvaluateUnavailable(c)
    PROVE  Atomic!Serve(c) \/ Atomic!Fail(c)
<1>1. /\ pc[c] = "evaluating" /\ pc'[c] = "correlating"
      /\ input \in {InputOf(c)} \cup offered[c]
  BY DEF EvaluateUnrecorded, EvaluateUnavailable, TypeOK, OverlapInv
<1>2. reply[c] = [resp |-> NoCell, err |-> FALSE]
  BY <1>1, Unevaluated DEF Evaluated
<1>3. reply'[c].resp = NoCell /\ reply'[c].err = TRUE
  <2>1. reply'[c] = [reply[c] EXCEPT !.err = TRUE]
    BY DEF EvaluateUnrecorded, EvaluateUnavailable, TypeOK
  <2>2. QED
    BY <1>2, <2>1
<1>4. OutputOf(c)' = Atomic!HostFailure
  <2>1. Convert(NoCell, TRUE) = Failure("host")
    BY DEF Convert, NoCell
  <2>2. OutputOf(c)' = Convert(NoCell, TRUE)
    BY <1>3, Zenon DEF OutputOf
  <2>3. QED
    BY <2>1, <2>2, SameConversions, Zenon
<1>5. Phases[c] = "open" /\ Phase(c)' = "served" /\ Decided(c)' = Atomic!HostFailure
  BY <1>1, <1>4 DEF Phases, Phase, Decided
<1>6. /\ Ask' = Ask /\ Phases' = [Phases EXCEPT ![c] = "served"]
      /\ Outputs' = [Outputs EXCEPT ![c] = Atomic!HostFailure]
  BY <1>5, OneCallSteps DEF Eval
<1>7. CASE EvaluateUnrecorded(c)
  <2>1. PICK o \in Effects(c) : env' = o.env /\ offered' = Offer(c, LeftInput(o))
    BY <1>7 DEF EvaluateUnrecorded, Runs
  <2>2. input \in {Ask[c].input} \cup offered[c] /\ o \in Exec[Ask[c].source, input, env]
    BY <1>1, <2>1 DEF Effects, Ask
  <2>3. offered' = Atomic!OfferOthers(c, Atomic!LeftInput(o))
    BY <2>1, SameOffers
  <2>4. QED
    BY <1>5, <1>6, <2>1, <2>2, <2>3 DEF Atomic!Serve, Ask, Phases, Outputs
<1>8. CASE EvaluateUnavailable(c)
  BY <1>5, <1>6, <1>8 DEF EvaluateUnavailable, inputVars, Atomic!Fail, Ask, Phases, Outputs
<1>9. QED
  BY <1>7, <1>8

LEMMA CorrelateRefines ==
    ASSUME TypeOK, NEW c \in Call, InsertEvalToolCall(c) \/ InsertFails(c)
    PROVE  Atomic!Answer(c)
<1>1. /\ pc[c] = "correlating" /\ pc'[c] = "done" /\ env' = env /\ offered' = offered
      /\ answer'[c].output = OutputOf(c)
  BY DEF InsertEvalToolCall, InsertFails, inputVars, TypeOK
<1>2. /\ Phases[c] = "served" /\ Phase(c)' = "answered" /\ Decided(c)' = Outputs[c]
  BY <1>1 DEF Phases, Outputs, Phase, Decided
<1>3. /\ Ask' = Ask /\ Phases' = [Phases EXCEPT ![c] = "answered"] /\ Outputs' = Outputs
  <2>1. Outputs = [Outputs EXCEPT ![c] = Outputs[c]]
    BY DEF Outputs
  <2>2. QED
    BY <1>2, <2>1, OneCallSteps DEF Eval
<1>4. QED
  BY <1>1, <1>2, <1>3 DEF Atomic!Answer, Ask, Phases, Outputs

LEMMA StepRefines ==
    TypeOK /\ RecordInv /\ OverlapInv /\ [Next]_vars => [Atomic!Next]_(Atomic!vars)
<1> SUFFICES ASSUME TypeOK, RecordInv, OverlapInv, [Next]_vars
             PROVE  Atomic!Next \/ UNCHANGED Atomic!vars
  OBVIOUS
<1>1. CASE UNCHANGED vars
  BY <1>1 DEF vars, inputVars, Atomic!vars, SourceOf, InputOf, Phase, Decided, OutputOf
<1>2. ASSUME NEW c \in Call, Start(c) \/ Eval(c)
      PROVE  Atomic!Next \/ UNCHANGED Atomic!vars
  BY <1>2, StartRefines, PrepareStutters, RefuseRefines, EvaluateRefines,
     EvaluateFailsRefines, CorrelateRefines DEF Eval, Atomic!Next
<1>3. QED
  BY <1>1, <1>2 DEF Next, Finished

(* However many calls run at once, eval_js is a JavaScript session that serves *)
(* each in one step, with an input that came from it or from an overlapping    *)
(* call (EvalTool.Eval in eval_tool.go).                                       *)
THEOREM ServesEachAtOnce == Spec => ServesAtomically
BY TypeCorrect, RecordCorrect, OverlapAlways, InitRefines, StepRefines, PTL
   DEF Spec, ServesAtomically, Atomic!Spec

===============================================================================
