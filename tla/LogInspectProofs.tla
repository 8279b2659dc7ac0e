--------------------------- MODULE LogInspectProofs ---------------------------
(***************************************************************************)
(* Theorems about inspecting the log of a running session, for every set   *)
(* of calls, every MaxParallel and every limit: what is listed are cells,  *)
(* and each cell that a row names is listed after it or cut off by the     *)
(* limit.                                                                  *)
(***************************************************************************)
EXTENDS LogInspect, EvalToolProofs

USE InspectAssumption

-----------------------------------------------------------------------------
(* The inductive invariant. *)

Unread == {Tables, <<"evaluations">>, <<>>}

(* The cells of the first listing stay in the table of evaluations. *)
ListedAreRecorded ==
    \A cell \in listed["eval_tool_calls"] : \E e \in evaluations : e.cell = cell

InspectInv ==
    /\ InspectTypeOK
    /\ unread \in Unread
    /\ ListedAreRecorded
    /\ ListedCellsFound

-----------------------------------------------------------------------------
(* The newest of finitely many numbers. *)

Newer(S, n) == {m \in S : m > n}

Newest(S, k) == {n \in S : Cardinality(Newer(S, n)) < k}

LEMMA FewerAreNewer ==
    ASSUME NEW S \in SUBSET Nat, IsFiniteSet(S), NEW n \in S
    PROVE  /\ Cardinality(Newer(S, n)) \in 0 .. Cardinality(S) - 1
           /\ \A m \in S : m > n => Cardinality(Newer(S, m)) < Cardinality(Newer(S, n))
<1>1. \A m \in S : IsFiniteSet(Newer(S, m)) /\ Cardinality(Newer(S, m)) \in Nat
  BY FS_Subset, FS_CardinalityType DEF Newer
<1>2. Cardinality(S) \in Nat
  BY FS_CardinalityType
<1>3. Newer(S, n) \in SUBSET S /\ n \notin Newer(S, n)
  BY DEF Newer
<1>4. Cardinality(Newer(S, n)) <= Cardinality(S) /\ Cardinality(Newer(S, n)) # Cardinality(S)
  BY <1>3, FS_Subset
<1>5. ASSUME NEW m \in S, m > n
      PROVE  Cardinality(Newer(S, m)) < Cardinality(Newer(S, n))
  <2>1. Newer(S, m) \in SUBSET Newer(S, n) /\ m \in Newer(S, n) /\ m \notin Newer(S, m)
    <3>1. \A x \in S : x > m => x > n
      BY <1>5
    <3>2. ~(m > m)
      OBVIOUS
    <3>3. QED
      BY <1>5, <3>1, <3>2 DEF Newer
  <2>2. /\ Cardinality(Newer(S, m)) <= Cardinality(Newer(S, n))
        /\ Cardinality(Newer(S, m)) # Cardinality(Newer(S, n))
    BY <1>1, <2>1, FS_Subset
  <2>3. QED
    BY <1>1, <2>2
<1>6. QED
  BY <1>1, <1>2, <1>4, <1>5

LEMMA FirstNumbers ==
    ASSUME NEW n \in Nat
    PROVE  IsFiniteSet(0 .. n - 1) /\ Cardinality(0 .. n - 1) = n
<1>1. n - 1 \in Int /\ 0 \in Int /\ (IF 0 > n - 1 THEN 0 ELSE (n - 1) - 0 + 1) = n
  OBVIOUS
<1>2. /\ IsFiniteSet(0 .. n - 1)
      /\ Cardinality(0 .. n - 1) = IF 0 > n - 1 THEN 0 ELSE (n - 1) - 0 + 1
  <2> HIDE EvalAssumption, ResultAssumption, InspectAssumption
  <2>1. \A b \in Int : /\ IsFiniteSet(0 .. b)
                       /\ Cardinality(0 .. b) = IF 0 > b THEN 0 ELSE b - 0 + 1
    BY FS_Interval
  <2>2. QED
    BY <1>1, <2>1
<1>3. QED
  BY <1>1, <1>2

(* As many are the newest k as there can be: the numbers of newer ones are all *)
(* different, and so are all there are below the cardinality.                  *)
LEMMA NewestCount ==
    ASSUME NEW S \in SUBSET Nat, IsFiniteSet(S), NEW k \in Nat, k <= Cardinality(S)
    PROVE  Cardinality(Newest(S, k)) = k
<1> DEFINE size == Cardinality(S)
           rank == [n \in S |-> Cardinality(Newer(S, n))]
           low  == [n \in Newest(S, k) |-> Cardinality(Newer(S, n))]
<1>1. size \in Nat
  BY FS_CardinalityType
<1>2. \A n \in S : Cardinality(Newer(S, n)) \in 0 .. size - 1
  BY FewerAreNewer
<1>3. \A m, n \in S : Cardinality(Newer(S, m)) = Cardinality(Newer(S, n)) => m = n
  <2>1. SUFFICES ASSUME NEW m \in S, NEW n \in S, m > n
                 PROVE  Cardinality(Newer(S, m)) # Cardinality(Newer(S, n))
    OBVIOUS
  <2>2. /\ Cardinality(Newer(S, m)) < Cardinality(Newer(S, n))
        /\ Cardinality(Newer(S, m)) \in Nat /\ Cardinality(Newer(S, n)) \in Nat
    BY <1>1, <1>2, <2>1, FewerAreNewer
  <2>3. QED
    BY <2>2
<1>4. rank \in Surjection(S, 0 .. size - 1)
  <2>1. rank \in Injection(S, 0 .. size - 1)
    BY <1>2, <1>3 DEF Injection, IsInjective
  <2>2. IsFiniteSet(0 .. size - 1) /\ Cardinality(0 .. size - 1) = size
    BY <1>1, FirstNumbers
  <2>3. QED
    BY <2>1, <2>2, FS_Injection
<1>5. \A j \in 0 .. size - 1 : \E n \in S : Cardinality(Newer(S, n)) = j
  BY <1>4 DEF Surjection
<1>6. low \in Injection(Newest(S, k), 0 .. k - 1)
  <2>1. \A n \in Newest(S, k) : n \in S /\ Cardinality(Newer(S, n)) \in 0 .. k - 1
    BY <1>1, <1>2 DEF Newest
  <2>2. QED
    BY <1>3, <2>1 DEF Injection, IsInjective
<1>7. low \in Surjection(Newest(S, k), 0 .. k - 1)
  <2>1. ASSUME NEW j \in 0 .. k - 1 PROVE \E n \in Newest(S, k) : low[n] = j
    <3>1. PICK n \in S : Cardinality(Newer(S, n)) = j
      BY <1>1, <1>5
    <3>2. n \in Newest(S, k)
      BY <3>1 DEF Newest
    <3>3. QED
      BY <3>1, <3>2
  <2>2. QED
    BY <1>6, <2>1 DEF Injection, Surjection
<1>8. IsFiniteSet(0 .. k - 1) /\ Cardinality(0 .. k - 1) = k
  BY FirstNumbers
<1>9. QED
  BY <1>6, <1>7, <1>8, FS_Injection

-----------------------------------------------------------------------------
(* What the queries can list. *)

Cells == {e.cell : e \in evaluations}

LEMMA CellsRecorded ==
    ASSUME TypeOK, RecordInv
    PROVE  /\ Cells \in SUBSET (1 .. nextCell) /\ Cells \in SUBSET Nat /\ IsFiniteSet(Cells)
           /\ nextCell \in Nat
<1>1. nextCell \in Nat
  BY DEF TypeOK
<1>2. Cells \in SUBSET (1 .. nextCell)
  BY DEF Cells, RecordInv, EvaluationsInv
<1>3. IsFiniteSet(1 .. nextCell)
  BY <1>1, FS_Interval
<1>4. IsFiniteSet(Cells)
  BY <1>2, <1>3, FS_Subset
<1>5. QED
  BY <1>1, <1>2, <1>4

(* The cells that eval_tool_calls names are cells of recorded evaluations. *)
LEMMA CallsListed ==
    ASSUME TypeOK, RecordInv, NEW cells \in CallListings
    PROVE  cells \subseteq Cells
<1>1. PICK rows \in SUBSET DOMAIN toolCalls : cells = {toolCalls[i].cell : i \in rows} \ {0}
  BY DEF CallListings
<1>2. ASSUME NEW i \in rows, toolCalls[i].cell # 0 PROVE toolCalls[i].cell \in Cells
  <2>1. i \in DOMAIN toolCalls /\ toolCalls[i].call \in Call
    BY RecordTypes
  <2>2. toolCalls[i].cell = reply[toolCalls[i].call].resp.cell
    BY <2>1 DEF RecordInv, RowsInv
  <2>3. \E e \in evaluations : e.cell = toolCalls[i].cell
    BY <1>2, <2>1, <2>2, CellOfReply
  <2>4. QED
    BY <2>3 DEF Cells
<1>3. QED
  BY <1>1, <1>2

(* The session numbers its cells apart: as many evaluations are newer than one *)
(* as there are newer cells.                                                   *)
LEMMA NewestAreCells ==
    ASSUME TypeOK, RecordInv
    PROVE  NewestEvaluations = Newest(Cells, limit)
<1>1. ASSUME NEW n
      PROVE  Cardinality({f \in evaluations : f.cell > n}) = Cardinality(Newer(Cells, n))
  <2> DEFINE later == {f \in evaluations : f.cell > n}
             number == [f \in later |-> f.cell]
  <2>1. number \in Injection(later, Newer(Cells, n))
    BY DEF Injection, IsInjective, Newer, Cells, RecordInv, EvaluationsInv
  <2>2. number \in Surjection(later, Newer(Cells, n))
    <3>1. ASSUME NEW m \in Newer(Cells, n) PROVE \E f \in later : number[f] = m
      BY DEF Newer, Cells
    <3>2. QED
      BY <2>1, <3>1 DEF Injection, Surjection
  <2>3. IsFiniteSet(Newer(Cells, n))
    BY CellsRecorded, FS_Subset DEF Newer
  <2>4. QED
    BY <2>1, <2>2, <2>3, FS_Injection
<1> DEFINE more(n) == Cardinality({f \in evaluations : f.cell > n})
           newer(n) == Cardinality(Newer(Cells, n))
<1>2. NewestEvaluations = {e.cell : e \in {e \in evaluations : newer(e.cell) < limit}}
  <2>1. NewestEvaluations = {e.cell : e \in {e \in evaluations : more(e.cell) < limit}}
    BY DEF NewestEvaluations
  <2>2. \A n : more(n) = newer(n)
    BY <1>1
  <2> HIDE DEF more, newer
  <2>3. {e \in evaluations : more(e.cell) < limit} = {e \in evaluations : newer(e.cell) < limit}
    BY <2>2
  <2>4. QED
    BY <2>1, <2>3
<1>3. QED
  BY <1>2 DEF Newest, Cells

(* A recorded cell is listed with the evaluations unless there are as many *)
(* newer ones as the limit allows.                                         *)
LEMMA EvaluationsListed ==
    ASSUME TypeOK, RecordInv, limit \in Nat, NEW cell \in Cells \ NewestEvaluations
    PROVE  /\ Cardinality(NewestEvaluations) = limit
           /\ \A other \in NewestEvaluations : other > cell
<1> DEFINE newer(n) == Cardinality(Newer(Cells, n))
<1>1. NewestEvaluations = Newest(Cells, limit)
  BY NewestAreCells
<1>2. Cells \in SUBSET Nat /\ IsFiniteSet(Cells) /\ Cardinality(Cells) \in Nat
  BY CellsRecorded, FS_CardinalityType
<1>3. ~(newer(cell) < limit)
  BY <1>1 DEF Newest
<1>4. newer(cell) \in 0 .. Cardinality(Cells) - 1
  BY <1>2, FewerAreNewer
<1>5. limit <= Cardinality(Cells)
  BY <1>2, <1>3, <1>4
<1>6. ASSUME NEW other \in NewestEvaluations PROVE other > cell
  <2>1. other \in Cells /\ newer(other) < limit /\ newer(other) \in Nat
    BY <1>1, <1>2, FewerAreNewer DEF Newest
  <2>2. cell > other => newer(cell) < newer(other)
    BY <1>2, <2>1, FewerAreNewer
  <2>3. other # cell /\ other \in Nat /\ cell \in Nat
    BY <1>2, <2>1
  <2>4. QED
    BY <1>3, <1>4, <2>1, <2>2, <2>3
<1>7. QED
  BY <1>1, <1>2, <1>5, <1>6, NewestCount

-----------------------------------------------------------------------------
(* The invariant. *)

(* The session only adds evaluations. *)
LEMMA EvaluationsGrow ==
    ASSUME TypeOK, [Next]_vars
    PROVE  evaluations \subseteq evaluations' /\ nextCell' \in {nextCell, nextCell + 1}
<1>1. CASE UNCHANGED vars
  BY <1>1 DEF vars
<1>2. ASSUME NEW c \in Call, Start(c) \/ Eval(c)
      PROVE  evaluations \subseteq evaluations' /\ nextCell' \in {nextCell, nextCell + 1}
  BY <1>2 DEF Start, Eval, PrepareEvalGlobals, PrepareFails, Evaluate, EvaluateUnrecorded,
         EvaluateUnavailable, InsertEvalToolCall, InsertFails
<1>3. QED
  BY <1>1, <1>2 DEF Next, Finished

LEMMA SessionStep == InspectNext => [Next]_vars
BY DEF InspectNext, Inspect, ReadTable, QueryFails

LEMMA SessionBehaves == InspectedSpec => Spec
<1>1. InspectInit => Init
  BY DEF InspectInit
<1>2. [InspectNext]_<<vars, inspectVars>> => [Next]_vars
  BY SessionStep
<1>3. QED
  BY <1>1, <1>2, PTL DEF InspectedSpec, Spec

LEMMA InspectInitInv == InspectInit => InspectInv
<1> SUFFICES ASSUME InspectInit PROVE InspectInv
  OBVIOUS
<1>1. unread = Tables /\ limit \in Limits /\ listed = [t \in Table |-> {}]
  BY DEF InspectInit
<1>2. unread \in Seq(Table) /\ unread # <<>>
  BY <1>1 DEF Tables, Table
<1>3. InspectTypeOK
  BY <1>1, <1>2 DEF InspectTypeOK
<1>4. QED
  BY <1>1, <1>2, <1>3 DEF InspectInv, Unread, ListedAreRecorded, ListedCellsFound, Complete, Table

(* The session goes on under the listings. *)
LEMMA SessionKeeps ==
    ASSUME TypeOK, InspectInv, [Next]_vars, UNCHANGED inspectVars
    PROVE  InspectInv'
<1>1. /\ limit' = limit /\ listed' = listed /\ unread' = unread
      /\ evaluations \subseteq evaluations'
  BY EvaluationsGrow DEF inspectVars
<1>2. 1 .. nextCell \subseteq 1 .. nextCell'
  <2>1. nextCell \in Nat /\ nextCell' \in {nextCell, nextCell + 1}
    BY EvaluationsGrow DEF TypeOK
  <2>2. QED
    BY <2>1
<1>3. listed \in [Table -> SUBSET (1 .. nextCell')]
  BY <1>2 DEF InspectInv, InspectTypeOK
<1>4. InspectTypeOK'
  BY <1>1, <1>3 DEF InspectInv, InspectTypeOK
<1>5. QED
  BY <1>1, <1>4 DEF InspectInv, ListedAreRecorded, ListedCellsFound, Complete

LEMMA InspectKeeps ==
    ASSUME TypeOK, RecordInv, InspectInv, Inspect
    PROVE  InspectInv'
<1>1. UNCHANGED vars /\ limit' = limit /\ limit \in Nat
  BY DEF Inspect, ReadTable, QueryFails, InspectInv, InspectTypeOK
<1>2. /\ evaluations' = evaluations /\ nextCell' = nextCell
      /\ limit \in Limits /\ listed \in [Table -> SUBSET (1 .. nextCell)]
  BY <1>1 DEF vars, InspectInv, InspectTypeOK
<1>3. CASE QueryFails
  <2>1. listed' = [t \in Table |-> {}] /\ unread' = <<>>
    BY <1>3 DEF QueryFails
  <2>2. InspectTypeOK'
    BY <1>1, <1>2, <2>1 DEF InspectTypeOK
  <2>3. QED
    BY <2>1, <2>2
       DEF InspectInv, Unread, ListedAreRecorded, ListedCellsFound, Complete, Table
<1>4. ASSUME ReadTable, unread = Tables PROVE InspectInv'
  <2>1. Head(Tables) = "eval_tool_calls" /\ Tail(Tables) = <<"evaluations">>
    BY DEF Tables
  <2>2. PICK cells \in CallListings : listed' = [listed EXCEPT !["eval_tool_calls"] = cells]
    BY <1>4, <2>1 DEF ReadTable, Listings
  <2>3. unread' = <<"evaluations">>
    BY <1>4, <2>1 DEF ReadTable
  <2>4. cells \subseteq Cells /\ cells \subseteq 1 .. nextCell
    BY CallsListed, CellsRecorded
  <2>5. InspectTypeOK'
    <3>1. <<"evaluations">> \in Seq(Table)
      BY DEF Table
    <3>2. QED
      BY <1>1, <1>2, <2>2, <2>3, <2>4, <3>1 DEF InspectTypeOK
  <2>6. listed'["eval_tool_calls"] = cells
    BY <1>2, <2>2 DEF Table
  <2>7. ListedAreRecorded'
    BY <1>2, <2>4, <2>6 DEF ListedAreRecorded, Cells
  <2>8. QED
    BY <2>3, <2>5, <2>7 DEF InspectInv, Unread, ListedCellsFound, Complete
<1>5. ASSUME ReadTable, unread = <<"evaluations">> PROVE InspectInv'
  <2>1. Head(<<"evaluations">>) = "evaluations" /\ Tail(<<"evaluations">>) = <<>>
    OBVIOUS
  <2>2. /\ listed' = [listed EXCEPT !["evaluations"] = NewestEvaluations]
        /\ unread' = <<>>
    BY <1>5, <2>1 DEF ReadTable, Listings
  <2>3. /\ listed'["eval_tool_calls"] = listed["eval_tool_calls"]
        /\ listed'["evaluations"] = NewestEvaluations
    BY <1>2, <2>2 DEF Table
  <2>4. NewestEvaluations \subseteq 1 .. nextCell
    BY NewestAreCells, CellsRecorded DEF Newest
  <2>5. InspectTypeOK'
    <3>1. <<>> \in Seq(Table)
      OBVIOUS
    <3>2. QED
      BY <1>1, <1>2, <2>2, <2>4, <3>1 DEF InspectTypeOK
  <2>6. listed["eval_tool_calls"] \subseteq Cells
    BY DEF InspectInv, ListedAreRecorded, Cells
  <2>7. ListedCellsFound'
    BY <1>1, <2>3, <2>6, EvaluationsListed DEF ListedCellsFound
  <2>8. ListedAreRecorded'
    BY <1>2, <2>3 DEF InspectInv, ListedAreRecorded
  <2>9. QED
    BY <2>2, <2>5, <2>7, <2>8 DEF InspectInv, Unread
<1>6. QED
  BY <1>3, <1>4, <1>5 DEF Inspect, ReadTable, InspectInv, Unread

LEMMA InspectStepInv ==
    TypeOK /\ RecordInv /\ InspectInv /\ [InspectNext]_<<vars, inspectVars>> => InspectInv'
<1> SUFFICES ASSUME TypeOK, RecordInv, InspectInv, [InspectNext]_<<vars, inspectVars>>
             PROVE  InspectInv'
  OBVIOUS
<1>1. Inspect \/ ([Next]_vars /\ UNCHANGED inspectVars)
  BY DEF InspectNext
<1>2. QED
  BY <1>1, InspectKeeps, SessionKeeps

LEMMA InspectInvHolds == InspectedSpec => []InspectInv
BY SessionBehaves, TypeCorrect, RecordCorrect, InspectInitInv, InspectStepInv, PTL
   DEF InspectedSpec

(* What an inspection lists of either table are cells that the session has run. *)
THEOREM InspectTypeCorrect == InspectedSpec => []InspectTypeOK
<1>1. InspectInv => InspectTypeOK
  BY DEF InspectInv
<1>2. QED
  BY <1>1, InspectInvHolds, PTL

(* The reader who goes from a row of eval_tool_calls to the evaluations finds *)
(* its cell, unless --limit cut it off (queryRows in cmd/chat/inspect.go),    *)
(* whatever the session wrote in between.                                     *)
THEOREM CellsFound == InspectedSpec => []ListedCellsFound
<1>1. InspectInv => ListedCellsFound
  BY DEF InspectInv
<1>2. QED
  BY <1>1, InspectInvHolds, PTL

===============================================================================
