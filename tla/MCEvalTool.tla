------------------------------ MODULE MCEvalTool ------------------------------
(***************************************************************************)
(* A small eval_js session.  The VM holds one global, g, which is unset or *)
(* has held what `input` did; the programs are the ones the hazards need:  *)
(*   put    g := input; `input` := another object; g                       *)
(*   get    g                                                              *)
(*   odd    puts a function into `input`, then throws or gives a result of *)
(*          any other form                                                 *)
(*   blank  white space                                                    *)
(***************************************************************************)
EXTENDS EvalToolRefinement

CONSTANTS a, b   \* two input objects that differ; b is the empty one

(* Null is an object that JSON cannot say. *)
MCInput == {a, b, Null}

MCEnv == MCInput \cup {NilInput}

MCSource == {"put", "get", "odd", "undefined"}

(* The programs that tell one input and one VM state from another. *)
MCStateful == {"put", "get"}

(* The programs that bring about every form of a reply. *)
MCForms == {"put", "odd", "blank"}

MCTrimSpace == [code \in Code |-> IF code = "blank" THEN "" ELSE code]

MCValue == {a, b}

Carries(v) ==
    IF v \in MCValue
    THEN [form |-> "envelope", result |-> v, error |-> FALSE, kind |-> FALSE]
    ELSE [form |-> "envelope", result |-> Null, error |-> FALSE, kind |-> TRUE]

NotSerializable == [form |-> "envelope", result |-> Null, error |-> TRUE,
                    kind |-> FALSE]

OddJSON == {Text("absent"), Text("malformed"), NotSerializable}

(* A cell that leaves `input` as it was. *)
Leaves(in) == IF in = NilInput THEN b ELSE in

Ran(e, json, in) == [env |-> e, threw |-> FALSE, json |-> json,
                     object |-> Leaves(in), input |-> Kept]

Other(in) == IF in = a THEN b ELSE a

MCExec ==
    [x \in MCSource \X (MCInput \cup {NilInput}) \X MCEnv |->
        LET src == x[1]  in == x[2]  g == x[3] IN
        CASE src = "put"  -> {[Ran(in, Carries(in), in) EXCEPT !.input = Other(in)]}
          [] src = "get"  -> {Ran(g, Carries(g), in)}
          [] src = "odd"  -> {Ran(g, json, Null) : json \in OddJSON}
                                \cup {[Ran(g, Text("absent"), Null) EXCEPT !.threw = TRUE]}
          [] OTHER        -> {Ran(g, Carries(NilInput), in)}]

===============================================================================
