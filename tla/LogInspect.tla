------------------------------ MODULE LogInspect ------------------------------
(***************************************************************************)
(* chat inspect on the log database of a session that is still running:    *)
(* cmd/chat/inspect.go next to EvalTool, which writes the log.             *)
(*                                                                         *)
(* The inspector reads table after table, each with a query of its own and *)
(* no transaction around them: inspect schema counts the tables in the     *)
(* order of their names, and a user goes from inspect eval-calls to        *)
(* inspect repl-evals (help topic developer-guide).  Either way            *)
(* eval_tool_calls comes before evaluations.  Its handle is read-only and  *)
(* each query sees one committed state; one that fails ends the inspection *)
(* and prints nothing.                                                     *)
(***************************************************************************)
EXTENDS EvalTool

CONSTANT Limits   \* values of --limit; one that no table exceeds is no limit

ASSUME InspectAssumption == Limits \subseteq Nat

VARIABLES
    limit,     \* the limit of this inspection
    listed,    \* the cells that each table's rows named when it was read
    unread     \* the tables still to read, in order

inspectVars == <<limit, listed, unread>>

Table == {"eval_tool_calls", "evaluations"}

InspectTypeOK ==
    /\ limit \in Limits
    /\ listed \in [Table -> SUBSET (1 .. nextCell)]
    /\ unread \in Seq(Table)

(* Mutant: ORDER BY name DESC. *)
TablesReversed == <<"evaluations", "eval_tool_calls">>

(* ORDER BY name. *)
Tables == <<"eval_tool_calls", "evaluations">>

InspectInit ==
    /\ Init
    /\ limit \in Limits
    /\ listed = [t \in Table |-> {}]
    /\ unread = Tables

-----------------------------------------------------------------------------

AtMost(n) == IF limit < n THEN limit ELSE n

(* Mutant: the NULL of a row without a cell is listed as a cell. *)
CallListingsWithNull ==
    {{toolCalls[i].cell : i \in rows} :
        rows \in {r \in SUBSET DOMAIN toolCalls :
                     Cardinality(r) = AtMost(Len(toolCalls))}}

(* What eval_tool_calls can be listed as: which rows come first is up to when *)
(* their calls started, to the millisecond, and not to the order of the rows. *)
(* A row whose call has no cell counts for the limit and names none.          *)
CallListings ==
    {{toolCalls[i].cell : i \in rows} \ {0} :
        rows \in {r \in SUBSET DOMAIN toolCalls :
                     Cardinality(r) = AtMost(Len(toolCalls))}}

(* Mutant: the oldest evaluations. *)
OldestEvaluations ==
    {e.cell : e \in {e \in evaluations :
        Cardinality({f \in evaluations : f.cell < e.cell}) < limit}}

(* The session makes its cells one at a time. *)
NewestEvaluations ==
    {e.cell : e \in {e \in evaluations :
        Cardinality({f \in evaluations : f.cell > e.cell}) < limit}}

Listings(table) ==
    IF table = "evaluations" THEN {NewestEvaluations} ELSE CallListings

(* queryRows or countTable of the next table. *)
ReadTable ==
    /\ unread # <<>>
    /\ \E cells \in Listings(Head(unread)) :
          listed' = [listed EXCEPT ![Head(unread)] = cells]
    /\ unread' = Tail(unread)
    /\ UNCHANGED <<vars, limit>>

(* The file is busy or gone. *)
QueryFails ==
    /\ unread # <<>>
    /\ listed' = [t \in Table |-> {}]
    /\ unread' = <<>>
    /\ UNCHANGED <<vars, limit>>

Inspect == ReadTable \/ QueryFails

InspectNext ==
    \/ Next /\ UNCHANGED inspectVars
    \/ Inspect

(* The session is as fair as before; nobody has to inspect it. *)
InspectedSpec ==
    /\ InspectInit
    /\ [][InspectNext]_<<vars, inspectVars>>
    /\ \A c \in Call : WF_vars(Eval(c))

-----------------------------------------------------------------------------

(* An inspection is complete when its last table is read. *)
Complete == unread = <<>> /\ listed # [t \in Table |-> {}]

(* Whatever the session writes between the two queries, each cell that a row *)
(* of eval_tool_calls was listed with is among the evaluations listed after  *)
(* it, unless the limit cut it off, and then everything listed is newer      *)
(* (the developer guide has the reader go from the one to the other; an      *)
(* inspection without a limit counts no cell that it does not find).         *)
ListedCellsFound ==
    Complete => \A cell \in listed["eval_tool_calls"] \ listed["evaluations"] :
                    /\ Cardinality(listed["evaluations"]) = limit
                    /\ \A other \in listed["evaluations"] : other > cell

===============================================================================
