------------------------------ MODULE AtomicEval ------------------------------
(***************************************************************************)
(* What eval_js looks like to the model: a JavaScript session in which a   *)
(* call takes effect in a single step, between the moment it is made and   *)
(* the moment it is answered.  Its cell finds the call's own input, unless *)
(* other calls overlap it: then it may find what one of them has given, or *)
(* what a cell of theirs has left, since the call was made.  A call can    *)
(* also be refused, which changes nothing, or run without a usable answer, *)
(* when the host fails.                                                    *)
(***************************************************************************)
EXTENDS EvalResult

CONSTANTS
    Call, Source, Input, Env, InitEnv,
    Exec         \* [Source \X Input \X Env -> SUBSET Outcome]

VARIABLES
    ask,         \* the source and the input of each call
    phase,       \* "new", "open", "served" or "answered"
    offered,     \* the inputs that each call may find besides its own
    env,         \* the state of the JavaScript session
    output       \* the output of each call, from the step that serves it

vars == <<ask, phase, offered, env, output>>

HostFailure == Failure("host")

(* A cell exists, so its number is not 0; which one it is, is not promised. *)
ResultOf(o) == Convert([cell |-> 1, threw |-> o.threw, json |-> o.json], FALSE)

Init ==
    /\ ask \in [Call -> [source: Source, input: Input]]
    /\ phase = [c \in Call |-> "new"]
    /\ offered = [c \in Call |-> {}]
    /\ env = InitEnv
    /\ output = [c \in Call |-> NoOutput]

Open == {c \in Call : phase[c] = "open"}

OfferOthers(c, in) ==
    [d \in Call |-> IF d \in Open \ {c} THEN offered[d] \cup {in} ELSE offered[d]]

(* The call is made: it and the other open calls may find each other's input. *)
Make(c) ==
    /\ phase[c] = "new"
    /\ phase' = [phase EXCEPT ![c] = "open"]
    /\ offered' = [OfferOthers(c, ask[c].input) EXCEPT ![c] = {ask[d].input : d \in Open}]
    /\ UNCHANGED <<ask, env, output>>

(* The whole call at once; what it leaves is there for the open calls. *)
Serve(c) ==
    /\ phase[c] = "open"
    /\ phase' = [phase EXCEPT ![c] = "served"]
    /\ \E in \in {ask[c].input} \cup offered[c] :
         \E o \in Exec[ask[c].source, in, env] :
            /\ env' = o.env
            /\ offered' = OfferOthers(c, LeftInput(o))
            /\ output' \in {[output EXCEPT ![c] = ResultOf(o)],
                            [output EXCEPT ![c] = HostFailure]}
    /\ UNCHANGED ask

(* The host fails before anything runs. *)
Fail(c) ==
    /\ phase[c] = "open"
    /\ phase' = [phase EXCEPT ![c] = "served"]
    /\ output' = [output EXCEPT ![c] = HostFailure]
    /\ UNCHANGED <<ask, offered, env>>

Refuse(c) ==
    /\ phase[c] = "open"
    /\ phase' = [phase EXCEPT ![c] = "answered"]
    /\ output' = [output EXCEPT ![c] = Failure("refused")]
    /\ UNCHANGED <<ask, offered, env>>

(* The answer that was decided when the call was served is handed over. *)
Answer(c) ==
    /\ phase[c] = "served"
    /\ phase' = [phase EXCEPT ![c] = "answered"]
    /\ UNCHANGED <<ask, offered, env, output>>

Next == \E c \in Call : Make(c) \/ Serve(c) \/ Fail(c) \/ Refuse(c) \/ Answer(c)

Spec == Init /\ [][Next]_vars

===============================================================================
