---------------------------- MODULE ChatTurnsProofs ----------------------------
(***************************************************************************)
(* Theorems about the conversation and its record, for any number of       *)
(* prompts, blocks and milliseconds: type correctness; failed prompts are  *)
(* forgotten; turns do not mix conversations; the final turns of a         *)
(* conversation extend one another and hold the one it continues from; no  *)
(* snapshot is lost.                                                       *)
(***************************************************************************)
EXTENDS ChatTurns, SequenceTheorems, TLAPS

-----------------------------------------------------------------------------
(* The inductive invariant. *)

(* Turns are made of prompts that were asked. *)
OfPrompts ==
    /\ ToSet(seed.blocks) \cup ToSet(current.blocks) \subseteq 1 .. latest
    /\ \A s \in stored :
          s.id <= latest /\ s.blocks # <<>> /\ ToSet(s.blocks) \subseteq 1 .. latest

(* The runner's turn continues the seed with blocks of the latest prompt, and *)
(* extends what the log has of it.                                            *)
RunnersTurn ==
    pc = "running" =>
        /\ latest # 0 /\ answered[latest] = "running" /\ since[latest] = resets
        /\ current.id = latest
        /\ current.blocks # <<>> /\ Last(current.blocks) = latest
        /\ IsPrefix(seed.blocks, current.blocks)
        /\ ToSet(current.blocks) \subseteq ToSet(seed.blocks) \cup {latest}
        /\ \A s \in stored : s.id = latest => IsPrefix(s.blocks, current.blocks)

(* The seed and the final turns are made of prompts that were answered. *)
OfAnswers ==
    /\ \A n \in ToSet(seed.blocks) : answered[n] = "ok"
    /\ \A s \in stored : s.phase = "final" => \A n \in ToSet(s.blocks) : answered[n] = "ok"

(* The seed extends every final turn of its conversation. *)
SeedExtendsFinals ==
    \A s \in stored :
        s.phase = "final" /\ since[Last(s.blocks)] = resets => IsPrefix(s.blocks, seed.blocks)

IndInv ==
    /\ TypeOK
    /\ OfPrompts
    /\ RunnersTurn
    /\ OfAnswers
    /\ OneConversation
    /\ SeedExtendsFinals
    /\ FinalTurnsChain
    /\ ContinuesFromRecord

-----------------------------------------------------------------------------
(* Sequences of blocks. *)

LEMMA PrefixPoints ==
    ASSUME NEW S, NEW s \in Seq(S), NEW t \in Seq(S)
    PROVE  IsPrefix(s, t) <=> /\ Len(s) <= Len(t)
                              /\ \A i \in 1 .. Len(s) : s[i] = t[i]
BY SubSeqProperties DEF IsPrefix

LEMMA PrefixItself ==
    ASSUME NEW S, NEW s \in Seq(S)
    PROVE  IsPrefix(s, s)
BY PrefixPoints, LenProperties

LEMMA PrefixTransitive ==
    ASSUME NEW S, NEW s \in Seq(S), NEW t \in Seq(S), NEW u \in Seq(S),
           IsPrefix(s, t), IsPrefix(t, u)
    PROVE  IsPrefix(s, u)
<1>1. Len(s) <= Len(t) /\ \A i \in 1 .. Len(s) : s[i] = t[i]
  BY PrefixPoints
<1>2. Len(t) <= Len(u) /\ \A i \in 1 .. Len(t) : t[i] = u[i]
  BY PrefixPoints
<1>3. Len(s) \in Nat /\ Len(t) \in Nat /\ Len(u) \in Nat
  BY LenProperties
<1>4. Len(s) <= Len(u) /\ \A i \in 1 .. Len(s) : s[i] = u[i]
  BY <1>1, <1>2, <1>3
<1>5. QED
  BY <1>4, PrefixPoints

LEMMA Appended ==
    ASSUME NEW S, NEW s \in Seq(S), NEW e \in S
    PROVE  /\ Append(s, e) \in Seq(S) /\ Append(s, e) # <<>>
           /\ Last(Append(s, e)) = e
           /\ IsPrefix(s, Append(s, e))
           /\ ToSet(Append(s, e)) = ToSet(s) \cup {e}
<1>1. /\ Append(s, e) \in Seq(S) /\ Len(Append(s, e)) = Len(s) + 1 /\ Len(s) \in Nat
      /\ DOMAIN s = 1 .. Len(s) /\ DOMAIN Append(s, e) = 1 .. Len(s) + 1
      /\ Append(s, e)[Len(s) + 1] = e
      /\ \A i \in 1 .. Len(s) : Append(s, e)[i] = s[i]
  BY AppendProperties, LenProperties
<1>2. Append(s, e) # <<>> /\ Last(Append(s, e)) = e
  BY <1>1, EmptySeq DEF Last
<1>3. IsPrefix(s, Append(s, e))
  <2> DEFINE t == Append(s, e)
  <2>1. t \in Seq(S) /\ Len(s) <= Len(t) /\ \A i \in 1 .. Len(s) : s[i] = t[i]
    BY <1>1
  <2> HIDE DEF t
  <2>2. IsPrefix(s, t)
    BY <2>1, PrefixPoints
  <2>3. QED
    BY <2>2 DEF t
<1>4. ToSet(Append(s, e)) \subseteq ToSet(s) \cup {e}
  BY <1>1 DEF ToSet
<1>5. ToSet(s) \cup {e} \subseteq ToSet(Append(s, e))
  BY <1>1 DEF ToSet
<1>6. QED
  BY <1>1, <1>2, <1>3, <1>4, <1>5

LEMMA BlockAppended ==
    ASSUME NEW blocks \in Seq(1 .. MaxPrompts), NEW n \in 1 .. MaxPrompts,
           NEW more, more = Append(blocks, n)
    PROVE  /\ more \in Seq(1 .. MaxPrompts) /\ more # <<>>
           /\ Last(more) = n
           /\ IsPrefix(blocks, more)
           /\ ToSet(more) = ToSet(blocks) \cup {n}
<1> DEFINE S == 1 .. MaxPrompts
<1>1. blocks \in Seq(S) /\ n \in S
  OBVIOUS
<1> HIDE DEF S
<1>2. /\ Append(blocks, n) \in Seq(S) /\ Append(blocks, n) # <<>>
      /\ Last(Append(blocks, n)) = n
      /\ IsPrefix(blocks, Append(blocks, n))
      /\ ToSet(Append(blocks, n)) = ToSet(blocks) \cup {n}
  BY <1>1, Appended
<1>3. QED
  BY <1>2, Zenon DEF S

LEMMA LastIsThere ==
    ASSUME NEW S, NEW s \in Seq(S)
    PROVE  /\ s # <<>> => Last(s) \in ToSet(s)
           /\ ToSet(s) \subseteq S
           /\ ToSet(<<>>) = {}
           /\ \A e : Contains(s, e) <=> e \in ToSet(s)
<1>1. Len(s) \in Nat /\ DOMAIN s = 1 .. Len(s) /\ (s # <<>> => Len(s) # 0)
  BY LenProperties, EmptySeq
<1>2. ToSet(s) \subseteq S
  BY <1>1, ElementOfSeq DEF ToSet
<1>3. s # <<>> => Last(s) \in ToSet(s)
  BY <1>1 DEF ToSet, Last
<1>4. ToSet(<<>>) = {}
  BY EmptySeq DEF ToSet
<1>5. \A e : Contains(s, e) <=> e \in ToSet(s)
  BY <1>1 DEF Contains, ToSet
<1>6. QED
  BY <1>2, <1>3, <1>4, <1>5

-----------------------------------------------------------------------------
(* Types. *)

LEMMA BlockTypes ==
    ASSUME TypeOK
    PROVE  /\ MaxPrompts \in Nat /\ latest \in Nat /\ latest <= MaxPrompts /\ resets \in Nat
           /\ seed \in Turn /\ seed.blocks \in Seq(1 .. MaxPrompts)
           /\ current \in Turn /\ current.blocks \in Seq(1 .. MaxPrompts)
           /\ current.id \in 0 .. MaxPrompts
           /\ \A s \in stored : s \in Snapshot /\ s.blocks \in Seq(1 .. MaxPrompts)
           /\ DOMAIN answered = 1 .. latest /\ DOMAIN since = 1 .. latest
           /\ \A n \in 1 .. latest : since[n] \in 0 .. resets
<1>1. MaxPrompts \in Nat /\ latest \in Nat /\ latest <= MaxPrompts /\ resets \in Nat
  BY TurnsAssumption, LenProperties DEF TypeOK, latest
<1>2. /\ seed \in Turn /\ seed.blocks \in Seq(1 .. MaxPrompts)
      /\ current \in Turn /\ current.blocks \in Seq(1 .. MaxPrompts)
      /\ current.id \in 0 .. MaxPrompts
  BY DEF TypeOK, Turn
<1>3. \A s \in stored : s \in Snapshot /\ s.blocks \in Seq(1 .. MaxPrompts)
  BY DEF TypeOK, Snapshot
<1>4. DOMAIN answered = 1 .. latest /\ DOMAIN since = 1 .. latest
  BY LenProperties DEF TypeOK, latest
<1>5. \A n \in 1 .. latest : since[n] \in 0 .. resets
  BY ElementOfSeq DEF TypeOK, latest
<1>6. QED
  BY <1>1, <1>2, <1>3, <1>4, <1>5

Stored(turn, p) == [id |-> turn.id, phase |-> p, ms |-> now, blocks |-> turn.blocks]

(* Saving adds a snapshot and drops at most those of the same key. *)
LEMMA SaveEffect ==
    ASSUME NEW turn, NEW p, Save(turn, p)
    PROVE  /\ unsaved' = unsaved
           /\ Stored(turn, p) \in stored'
           /\ \A s \in stored' : s \in stored \/ s = Stored(turn, p)
           /\ \A s \in stored : s \in stored' \/ (s.id = turn.id /\ s.phase = p /\ s.ms = now)
BY DEF Save, Stored

LEMMA StoredTypes ==
    ASSUME TypeOK, NEW turn \in Turn, turn.id # 0, NEW p \in Phase
    PROVE  /\ Stored(turn, p) \in Snapshot
           /\ Stored(turn, p).id = turn.id /\ Stored(turn, p).phase = p
           /\ Stored(turn, p).ms = now /\ Stored(turn, p).blocks = turn.blocks
BY TurnsAssumption DEF TypeOK, Turn, Snapshot, Stored

(* What is logged of a turn has its type. *)
LEMMA LoggedTypes ==
    ASSUME TypeOK, NEW turn \in Turn, turn.id # 0, NEW p \in Phase, latest # 0,
           Save(turn, p) \/ SaveFails(p) \/ UNCHANGED <<stored, unsaved>>
    PROVE  stored' \subseteq Snapshot /\ unsaved' \subseteq (1 .. MaxPrompts) \X Phase
<1>1. CASE Save(turn, p)
  BY <1>1, SaveEffect, StoredTypes DEF TypeOK
<1>2. CASE SaveFails(p)
  <2>1. latest \in 1 .. MaxPrompts
    BY BlockTypes
  <2>2. <<latest, p>> \in (1 .. MaxPrompts) \X Phase
    BY <2>1
  <2>3. QED
    BY <1>2, <2>2 DEF SaveFails, TypeOK
<1>3. CASE UNCHANGED <<stored, unsaved>>
  BY <1>3 DEF TypeOK
<1>4. QED
  BY <1>1, <1>2, <1>3

(* A step of the tool loop: the turn is kept or gets one more block. *)
LEMMA LoopTurn ==
    ASSUME TypeOK, OfPrompts, RunnersTurn, Loop
    PROVE  /\ pc = "running" /\ latest # 0
           /\ \E to \in Phase \ {"final"} : phase' = to /\ SnapshotHook(current', to)
           /\ current' \in Turn /\ current'.id = current.id
           /\ current'.blocks # <<>> /\ Last(current'.blocks) = latest
           /\ IsPrefix(current.blocks, current'.blocks)
           /\ ToSet(current'.blocks) \subseteq ToSet(current.blocks) \cup {latest}
           /\ UNCHANGED <<mode, snapshots, pc, seed, answered, since, resets, now>>
<1>1. PICK to \in Phase \ {"final"}, turn \in {current, WithBlock(current)} :
        /\ pc = "running" /\ phase' = to /\ current' = turn /\ SnapshotHook(turn, to)
        /\ UNCHANGED <<mode, snapshots, pc, seed, answered, since, resets, now>>
  BY DEF Loop, PreInference, PostInference, PostTools, LoopStep, Phase
<1>2. latest # 0 /\ current.blocks # <<>> /\ Last(current.blocks) = latest
  BY <1>1 DEF RunnersTurn
<1>3. current.blocks \in Seq(1 .. MaxPrompts) /\ current \in Turn /\ latest \in 1 .. MaxPrompts
  BY <1>2, BlockTypes
<1>4. CASE turn = current
  BY <1>1, <1>2, <1>3, <1>4, PrefixItself
<1>5. CASE turn = WithBlock(current)
  <2>1. /\ turn.id = current.id /\ turn.blocks = Append(current.blocks, latest)
        /\ turn = [id |-> current.id, blocks |-> Append(current.blocks, latest)]
    BY <1>3, <1>5 DEF WithBlock, Turn
  <2>2. turn \in Turn
    BY <1>3, <2>1, Appended DEF Turn
  <2>3. /\ turn.blocks # <<>> /\ Last(turn.blocks) = latest
        /\ IsPrefix(current.blocks, turn.blocks)
        /\ ToSet(turn.blocks) \subseteq ToSet(current.blocks) \cup {latest}
    BY <1>3, <2>1, BlockAppended
  <2>4. QED
    BY <1>1, <1>2, <2>1, <2>2, <2>3
<1>6. QED
  BY <1>1, <1>4, <1>5

LEMMA InitTypes == Init => TypeOK
<1> SUFFICES ASSUME Init PROVE TypeOK
  OBVIOUS
<1>1. {MaxPrompts, MaxBlocks, MaxTime, MaxUnsaved} \subseteq Nat
  BY TurnsAssumption
<1>2. initialTurn \in Turn
  BY <1>1, EmptySeq DEF initialTurn, Turn
<1>3. /\ answered \in Seq({"running", "ok", "error"}) /\ since \in Seq(0 .. resets)
      /\ Len(answered) = 0 /\ Len(since) = 0
  BY EmptySeq DEF Init
<1>4. QED
  BY <1>1, <1>2, <1>3 DEF Init, TypeOK

LEMMA AskTypes ==
    ASSUME TypeOK, Ask
    PROVE  /\ TypeOK'
           /\ latest' = latest + 1
           /\ answered'[latest'] = "running" /\ since'[latest'] = resets
           /\ \A n \in 1 .. latest : answered'[n] = answered[n] /\ since'[n] = since[n]
           /\ current'.id = latest' /\ current'.blocks = Append(seed.blocks, latest')
<1>1. /\ pc' = "running" /\ answered' = Append(answered, "running")
      /\ since' = Append(since, resets) /\ current' = Continue(seed, latest + 1)
      /\ phase' = "start" /\ latest < MaxPrompts
      /\ UNCHANGED <<mode, snapshots, seed, resets, stored, unsaved, now>>
  BY DEF Ask
<1>2. resets \in 0 .. resets
  BY BlockTypes
<1>3. /\ answered' \in Seq({"running", "ok", "error"}) /\ since' \in Seq(0 .. resets)
      /\ Len(answered') = latest + 1 /\ Len(since') = latest + 1
      /\ answered'[latest + 1] = "running" /\ since'[latest + 1] = resets
      /\ \A n \in 1 .. latest : answered'[n] = answered[n] /\ since'[n] = since[n]
  BY <1>1, <1>2, AppendProperties DEF TypeOK, latest
<1>4. latest + 1 \in 1 .. MaxPrompts /\ seed.blocks \in Seq(1 .. MaxPrompts)
  BY <1>1, BlockTypes
<1>5. /\ current' \in Turn /\ current'.id = latest + 1
      /\ current'.blocks = Append(seed.blocks, latest + 1)
  BY <1>1, <1>4, Appended DEF Continue, Turn
<1>6. TypeOK'
  BY <1>1, <1>3, <1>4, <1>5 DEF TypeOK
<1>7. QED
  BY <1>3, <1>5, <1>6 DEF latest

LEMMA ReturnsTypes ==
    ASSUME TypeOK, RunnersTurn, NEW result \in {"ok", "error"}, Returns(result)
    PROVE  /\ latest # 0 /\ latest' = latest /\ pc' # "running"
           /\ answered' \in Seq({"running", "ok", "error"}) /\ Len(answered') = latest
           /\ answered'[latest] = result
           /\ \A n \in 1 .. latest : n # latest => answered'[n] = answered[n]
           /\ UNCHANGED <<mode, snapshots, current, phase, since, resets, now>>
           /\ pc' \in {"waiting", "running", "ended"}
<1>1. /\ pc = "running" /\ pc' = NextInput
      /\ answered' = [answered EXCEPT ![latest] = result]
      /\ UNCHANGED <<mode, snapshots, current, phase, since, resets, now>>
  BY DEF Returns
<1>2. latest \in 1 .. Len(answered)
  BY <1>1, BlockTypes DEF RunnersTurn, latest
<1>3. /\ answered' \in Seq({"running", "ok", "error"}) /\ Len(answered') = Len(answered)
      /\ answered'[latest] = result
      /\ \A n \in 1 .. latest : n # latest => answered'[n] = answered[n]
  BY <1>1, <1>2, ExceptSeq DEF TypeOK, latest
<1>4. latest' = latest
  BY <1>3 DEF latest
<1>5. pc' \in {"waiting", "ended"}
  BY <1>1 DEF NextInput
<1>6. latest # 0 /\ Len(answered') = latest
  BY <1>1, <1>3 DEF RunnersTurn, latest
<1>7. QED
  BY <1>1, <1>3, <1>4, <1>5, <1>6

-----------------------------------------------------------------------------
(* The steps outside of a prompt. *)

(* What a step can do to the invariant without touching the log. *)
LEMMA QuietInv ==
    ASSUME IndInv, UNCHANGED <<seed, current, answered, since, resets, stored, unsaved>>,
           TypeOK', pc' = pc \/ pc' # "running"
    PROVE  IndInv'
<1>1. latest' = latest
  BY DEF latest
<1>2. OfPrompts' /\ RunnersTurn' /\ OfAnswers'
  BY <1>1 DEF IndInv, OfPrompts, RunnersTurn, OfAnswers
<1>3. OneConversation' /\ SeedExtendsFinals' /\ FinalTurnsChain' /\ ContinuesFromRecord'
  BY <1>1 DEF IndInv, OneConversation, SeedExtendsFinals, FinalTurnsChain,
              ContinuesFromRecord
<1>4. QED
  BY <1>2, <1>3 DEF IndInv

LEMMA QuietSteps ==
    ASSUME IndInv, UNCHANGED vars \/ Quit \/ Tick
    PROVE  IndInv'
<1>1. /\ UNCHANGED <<mode, snapshots, seed, current, phase, answered, since, resets,
                     stored, unsaved>>
      /\ pc' = pc \/ pc' = "ended"
      /\ now' \in 0 .. MaxTime
  BY TurnsAssumption DEF IndInv, TypeOK, vars, Quit, Tick
<1>2. TypeOK'
  BY <1>1 DEF IndInv, TypeOK
<1>3. QED
  BY <1>1, <1>2, QuietInv

LEMMA ResetInv ==
    ASSUME IndInv, Reset
    PROVE  IndInv'
<1>1. /\ pc = "waiting" /\ resets < MaxPrompts /\ seed' = initialTurn /\ resets' = resets + 1
      /\ UNCHANGED <<mode, snapshots, pc, current, phase, answered, since, stored, unsaved, now>>
  BY DEF Reset
<1>2. /\ TypeOK /\ latest' = latest /\ resets \in Nat /\ MaxPrompts \in Nat
      /\ \A n \in 1 .. latest : since[n] \in 0 .. resets
  BY <1>1, BlockTypes DEF IndInv, latest
<1>3. TypeOK'
  <2>1. initialTurn \in Turn
    BY <1>2, EmptySeq DEF initialTurn, Turn
  <2>2. since \in Seq(0 .. resets + 1)
    BY <1>2, SeqMonotonic DEF TypeOK
  <2>3. resets + 1 \in 0 .. MaxPrompts
    BY <1>1, <1>2
  <2>4. QED
    BY <1>1, <1>2, <2>1, <2>2, <2>3 DEF TypeOK
<1>4. ToSet(seed'.blocks) = {}
  BY <1>1, LastIsThere, EmptySeq DEF initialTurn
<1>5. OfPrompts' /\ RunnersTurn' /\ OfAnswers' /\ OneConversation'
  BY <1>1, <1>2, <1>4 DEF IndInv, OfPrompts, RunnersTurn, OfAnswers, OneConversation
<1>6. SeedExtendsFinals'
  <2>1. ASSUME NEW s \in stored PROVE since[Last(s.blocks)] # resets + 1
    <3>1. Last(s.blocks) \in 1 .. latest
      BY <1>2, BlockTypes, LastIsThere DEF IndInv, OfPrompts
    <3>2. QED
      BY <1>2, <3>1
  <2>2. QED
    BY <1>1, <2>1 DEF SeedExtendsFinals
<1>7. FinalTurnsChain' /\ ContinuesFromRecord'
  BY <1>1, <1>2 DEF IndInv, FinalTurnsChain, ContinuesFromRecord, initialTurn
<1>8. QED
  BY <1>3, <1>5, <1>6, <1>7 DEF IndInv

LEMMA AskInv ==
    ASSUME IndInv, Ask
    PROVE  IndInv'
<1>1. /\ TypeOK' /\ latest' = latest + 1 /\ answered'[latest'] = "running"
      /\ since'[latest'] = resets
      /\ \A n \in 1 .. latest : answered'[n] = answered[n] /\ since'[n] = since[n]
      /\ current'.id = latest' /\ current'.blocks = Append(seed.blocks, latest')
  BY AskTypes DEF IndInv
<1>2. UNCHANGED <<seed, resets, stored, unsaved>> /\ latest + 1 \in 1 .. MaxPrompts
  BY BlockTypes DEF Ask, IndInv
<1>3. /\ ToSet(seed.blocks) \subseteq 1 .. latest /\ latest \in Nat
      /\ \A s \in stored : /\ s.id <= latest /\ s.id \in Nat /\ s.blocks # <<>>
                            /\ ToSet(s.blocks) \subseteq 1 .. latest
                            /\ Last(s.blocks) \in 1 .. latest
  <2>1. /\ ToSet(seed.blocks) \subseteq 1 .. latest /\ latest \in Nat
        /\ \A s \in stored : s.id <= latest /\ s.blocks # <<>>
                              /\ ToSet(s.blocks) \subseteq 1 .. latest
    BY BlockTypes DEF IndInv, OfPrompts
  <2>2. \A s \in stored : s.id \in Nat /\ Last(s.blocks) \in ToSet(s.blocks)
    BY <2>1, BlockTypes, LastIsThere DEF IndInv, Snapshot
  <2>3. QED
    BY <2>1, <2>2
<1>4. /\ current'.blocks # <<>> /\ Last(current'.blocks) = latest'
      /\ IsPrefix(seed.blocks, current'.blocks)
      /\ ToSet(current'.blocks) = ToSet(seed.blocks) \cup {latest'}
  <2>1. seed.blocks \in Seq(1 .. MaxPrompts) /\ latest' \in 1 .. MaxPrompts
    BY <1>1, <1>2, BlockTypes DEF IndInv
  <2>2. PICK n \in 1 .. MaxPrompts : n = latest'
    BY <2>1
  <2>3. PICK blocks \in Seq(1 .. MaxPrompts) : blocks = seed.blocks
    BY <2>1
  <2>4. PICK more : more = current'.blocks
    OBVIOUS
  <2>5. more = Append(blocks, n)
    BY <1>1, <2>2, <2>3, <2>4
  <2>6. /\ more # <<>> /\ Last(more) = n /\ IsPrefix(blocks, more)
        /\ ToSet(more) = ToSet(blocks) \cup {n}
    BY <2>5, BlockAppended
  <2>7. QED
    BY <2>2, <2>3, <2>4, <2>6
<1>5. OfPrompts'
  <2>1. 1 .. latest \subseteq 1 .. latest' /\ latest' \in 1 .. latest'
    BY <1>1, <1>3
  <2>2. \A s \in stored : s.id <= latest'
    BY <1>1, <1>3
  <2>3. QED
    BY <1>2, <1>3, <1>4, <2>1, <2>2 DEF OfPrompts
<1>6. RunnersTurn'
  BY <1>1, <1>2, <1>3, <1>4 DEF RunnersTurn
<1>7. OfAnswers'
  BY <1>1, <1>2, <1>3 DEF IndInv, OfAnswers
<1>8. OneConversation'
  <2>1. \A n \in ToSet(seed.blocks) \cup {latest'} : since'[n] = resets
    BY <1>1, <1>3 DEF IndInv, OneConversation
  <2>2. ASSUME NEW s \in stored, NEW m \in ToSet(s.blocks), NEW n \in ToSet(s.blocks)
        PROVE  since'[m] = since'[n]
    <3>1. since[m] = since[n]
      BY DEF IndInv, OneConversation
    <3>2. m \in 1 .. latest /\ n \in 1 .. latest
      BY <1>3
    <3>3. QED
      BY <1>1, <3>1, <3>2
  <2>3. QED
    BY <1>2, <1>4, <2>1, <2>2 DEF OneConversation
<1>9. SeedExtendsFinals' /\ FinalTurnsChain'
  BY <1>1, <1>2, <1>3 DEF IndInv, SeedExtendsFinals, FinalTurnsChain
<1>10. ContinuesFromRecord'
  BY <1>2 DEF IndInv, ContinuesFromRecord
<1>11. QED
  BY <1>1, <1>5, <1>6, <1>7, <1>8, <1>9, <1>10 DEF IndInv

-----------------------------------------------------------------------------
(* The steps of a prompt. *)

(* What the invariant says of the runner's turn and of the snapshots. *)
LEMMA RunningFacts ==
    ASSUME IndInv, pc = "running"
    PROVE  /\ latest \in 1 .. MaxPrompts /\ answered[latest] = "running"
           /\ since[latest] = resets
           /\ current \in Turn /\ current.id = latest /\ current.id # 0
           /\ current.blocks \in Seq(1 .. MaxPrompts) /\ seed.blocks \in Seq(1 .. MaxPrompts)
           /\ current.blocks # <<>> /\ Last(current.blocks) = latest
           /\ IsPrefix(seed.blocks, current.blocks)
           /\ ToSet(current.blocks) \subseteq ToSet(seed.blocks) \cup {latest}
           /\ ToSet(current.blocks) \subseteq 1 .. latest
           /\ \A n \in ToSet(seed.blocks) : n # latest /\ answered[n] = "ok"
           /\ \A n \in ToSet(current.blocks) : since[n] = resets
<1>1. /\ latest # 0 /\ answered[latest] = "running" /\ since[latest] = resets
      /\ current.id = latest
      /\ current.blocks # <<>> /\ Last(current.blocks) = latest
      /\ IsPrefix(seed.blocks, current.blocks)
      /\ ToSet(current.blocks) \subseteq ToSet(seed.blocks) \cup {latest}
  BY DEF IndInv, RunnersTurn
<1>2. /\ latest \in Nat /\ latest <= MaxPrompts /\ MaxPrompts \in Nat /\ current \in Turn
      /\ current.blocks \in Seq(1 .. MaxPrompts) /\ seed.blocks \in Seq(1 .. MaxPrompts)
  BY BlockTypes DEF IndInv
<1>3. latest \in 1 .. MaxPrompts
  BY <1>1, <1>2
<1>4. \A n \in ToSet(seed.blocks) : n # latest /\ answered[n] = "ok"
  BY <1>1 DEF IndInv, OfAnswers
<1>5. \A n \in ToSet(current.blocks) : since[n] = resets
  BY <1>1 DEF IndInv, OneConversation
<1>6. ToSet(current.blocks) \subseteq 1 .. latest
  BY DEF IndInv, OfPrompts
<1>7. QED
  BY <1>1, <1>2, <1>3, <1>4, <1>5, <1>6

LEMMA LoopInv ==
    ASSUME IndInv, Loop
    PROVE  IndInv'
<1>1. /\ pc = "running" /\ latest # 0
      /\ current' \in Turn /\ current'.id = current.id
      /\ current'.blocks # <<>> /\ Last(current'.blocks) = latest
      /\ IsPrefix(current.blocks, current'.blocks)
      /\ ToSet(current'.blocks) \subseteq ToSet(current.blocks) \cup {latest}
      /\ UNCHANGED <<mode, snapshots, pc, seed, answered, since, resets, now>>
  BY LoopTurn DEF IndInv
<1>2. PICK to \in Phase \ {"final"} : phase' = to /\ SnapshotHook(current', to)
  BY LoopTurn DEF IndInv
<1>3. /\ latest \in 1 .. MaxPrompts /\ answered[latest] = "running"
      /\ since[latest] = resets /\ current.id = latest
      /\ current.blocks \in Seq(1 .. MaxPrompts) /\ seed.blocks \in Seq(1 .. MaxPrompts)
      /\ current'.blocks \in Seq(1 .. MaxPrompts)
      /\ IsPrefix(seed.blocks, current.blocks)
      /\ ToSet(current.blocks) \subseteq ToSet(seed.blocks) \cup {latest}
      /\ ToSet(current.blocks) \subseteq 1 .. latest
      /\ \A n \in ToSet(current.blocks) : since[n] = resets
  BY <1>1, RunningFacts DEF Turn
<1>4. latest' = latest /\ latest \in 1 .. latest
  BY <1>1, <1>3 DEF latest
<1> DEFINE new == Stored(current', to)
<1>5. /\ Save(current', to) \/ SaveFails(to) \/ UNCHANGED <<stored, unsaved>>
      /\ unsaved \subseteq unsaved'
      /\ \A s \in stored' : s \in stored \/ s = new
      /\ \A s \in stored : s.phase = "final" => s \in stored'
  <2>1. Save(current', to) \/ SaveFails(to) \/ UNCHANGED <<stored, unsaved>>
    BY <1>2 DEF SnapshotHook
  <2>2. QED
    BY <2>1, SaveEffect DEF SaveFails
<1>6. TypeOK'
  <2>1. to \in Phase /\ current'.id # 0
    BY <1>1, <1>3
  <2>2. stored' \subseteq Snapshot /\ unsaved' \subseteq (1 .. MaxPrompts) \X Phase
    BY <1>1, <1>5, <2>1, LoggedTypes DEF IndInv
  <2>3. QED
    BY <1>1, <1>2, <1>4, <2>2 DEF IndInv, TypeOK
<1>7. /\ new.id = latest /\ new.phase # "final" /\ new.blocks = current'.blocks
  BY <1>1, <1>3 DEF Stored
<1> HIDE DEF new
<1>8. /\ ToSet(current'.blocks) \subseteq 1 .. latest
      /\ \A n \in ToSet(current'.blocks) : since[n] = resets
  BY <1>1, <1>3, <1>4
<1>9. OfPrompts'
  BY <1>1, <1>3, <1>4, <1>5, <1>7, <1>8 DEF IndInv, OfPrompts
<1>10. RunnersTurn'
  <2>1. IsPrefix(seed.blocks, current'.blocks)
    BY <1>1, <1>3, PrefixTransitive
  <2>2. ASSUME NEW s \in stored', s.id = latest PROVE IsPrefix(s.blocks, current'.blocks)
    <3>1. CASE s = new
      BY <1>3, <1>7, <3>1, PrefixItself
    <3>2. CASE s \in stored
      <4>1. IsPrefix(s.blocks, current.blocks)
        BY <1>1, <2>2, <3>2 DEF IndInv, RunnersTurn
      <4>2. s.blocks \in Seq(1 .. MaxPrompts)
        BY <3>2, BlockTypes DEF IndInv
      <4>3. QED
        BY <1>1, <1>3, <4>1, <4>2, PrefixTransitive
    <3>3. QED
      BY <1>5, <3>1, <3>2
  <2>3. ToSet(current'.blocks) \subseteq ToSet(seed.blocks) \cup {latest}
    BY <1>1, <1>3
  <2>4. QED
    BY <1>1, <1>3, <1>4, <2>1, <2>2, <2>3 DEF RunnersTurn
<1>11. OfAnswers'
  BY <1>1, <1>5, <1>7 DEF IndInv, OfAnswers
<1>12. OneConversation'
  <2>1. ASSUME NEW turn \in {current'} \cup stored', NEW m \in ToSet(turn.blocks),
               NEW n \in ToSet(turn.blocks)
        PROVE  since[m] = since[n]
    <3>1. CASE turn \in stored
      BY <3>1 DEF IndInv, OneConversation
    <3>2. CASE turn.blocks = current'.blocks
      BY <1>8, <3>2
    <3>3. QED
      BY <1>5, <1>7, <3>1, <3>2
  <2>2. QED
    BY <1>1, <2>1 DEF IndInv, OneConversation
<1>13. SeedExtendsFinals' /\ FinalTurnsChain'
  BY <1>1, <1>5, <1>7 DEF IndInv, SeedExtendsFinals, FinalTurnsChain
<1>14. ContinuesFromRecord'
  BY <1>1, <1>5 DEF IndInv, ContinuesFromRecord
<1>15. QED
  BY <1>6, <1>9, <1>10, <1>11, <1>12, <1>13, <1>14 DEF IndInv

LEMMA FailInv ==
    ASSUME IndInv, RunFails \/ NotStored
    PROVE  IndInv'
<1>1. /\ Returns("error") /\ UNCHANGED <<seed, stored>>
      /\ UNCHANGED unsaved \/ SaveFails("final")
  BY DEF RunFails, NotStored, SaveFails
<1>2. pc = "running"
  BY <1>1 DEF Returns
<1>3. /\ latest' = latest /\ pc' # "running" /\ pc' \in {"waiting", "running", "ended"}
      /\ answered' \in Seq({"running", "ok", "error"}) /\ Len(answered') = latest
      /\ \A n \in 1 .. latest : n # latest => answered'[n] = answered[n]
      /\ UNCHANGED <<mode, snapshots, current, phase, since, resets, now>>
  BY <1>1, ReturnsTypes DEF IndInv
<1>4. answered[latest] = "running" /\ current.id # 0 /\ current \in Turn /\ latest # 0
  BY <1>2, RunningFacts
<1>5. unsaved \subseteq unsaved'
  BY <1>1 DEF SaveFails
<1>6. TypeOK'
  <2>1. "final" \in Phase
    BY DEF Phase
  <2>2. unsaved' \subseteq (1 .. MaxPrompts) \X Phase
    BY <1>1, <1>4, <2>1, LoggedTypes DEF IndInv
  <2>3. latest <= MaxPrompts /\ Len(since) = latest
    BY BlockTypes DEF IndInv, TypeOK, latest
  <2>4. QED
    BY <1>1, <1>3, <2>2, <2>3 DEF IndInv, TypeOK
<1>7. OfPrompts' /\ RunnersTurn'
  BY <1>1, <1>3 DEF IndInv, OfPrompts, RunnersTurn
<1>8. OfAnswers'
  <2>1. ASSUME NEW n \in 1 .. latest, answered[n] = "ok" PROVE answered'[n] = "ok"
    BY <1>3, <1>4, <2>1
  <2>2. ToSet(seed.blocks) \subseteq 1 .. latest
    BY DEF IndInv, OfPrompts
  <2>3. \A s \in stored : ToSet(s.blocks) \subseteq 1 .. latest
    BY DEF IndInv, OfPrompts
  <2>4. QED
    BY <1>1, <2>1, <2>2, <2>3 DEF IndInv, OfAnswers
<1>9. OneConversation' /\ SeedExtendsFinals' /\ FinalTurnsChain'
  BY <1>1, <1>3 DEF IndInv, OneConversation, SeedExtendsFinals, FinalTurnsChain
<1>10. ContinuesFromRecord'
  BY <1>1, <1>5 DEF IndInv, ContinuesFromRecord
<1>11. QED
  BY <1>6, <1>7, <1>8, <1>9, <1>10 DEF IndInv

(* An answer moves the seed, and may add a final turn. *)
LEMMA AnswerInv ==
    ASSUME IndInv, Answered
    PROVE  IndInv'
<1> DEFINE new == Stored(current, "final")
<1>1. /\ Returns("ok") /\ seed' = current
      /\ Save(current, "final") \/ SaveFails("final")
      /\ pc = "running"
  BY DEF Answered, PersistTurn, Returns
<1>2. /\ latest' = latest /\ pc' # "running" /\ pc' \in {"waiting", "running", "ended"}
      /\ answered' \in Seq({"running", "ok", "error"}) /\ Len(answered') = latest
      /\ answered'[latest] = "ok"
      /\ \A n \in 1 .. latest : n # latest => answered'[n] = answered[n]
      /\ UNCHANGED <<mode, snapshots, current, phase, since, resets, now>>
  BY <1>1, ReturnsTypes DEF IndInv
<1>3. /\ latest \in 1 .. MaxPrompts /\ answered[latest] = "running"
      /\ since[latest] = resets
      /\ current \in Turn /\ current.id = latest /\ current.id # 0
      /\ current.blocks \in Seq(1 .. MaxPrompts) /\ seed.blocks \in Seq(1 .. MaxPrompts)
      /\ current.blocks # <<>> /\ Last(current.blocks) = latest
      /\ IsPrefix(seed.blocks, current.blocks)
      /\ ToSet(current.blocks) \subseteq ToSet(seed.blocks) \cup {latest}
      /\ ToSet(current.blocks) \subseteq 1 .. latest
      /\ \A n \in ToSet(seed.blocks) : n # latest /\ answered[n] = "ok"
      /\ \A n \in ToSet(current.blocks) : since[n] = resets
  BY <1>1, RunningFacts
<1>4. "final" \in Phase
  BY DEF Phase
<1>5. /\ new.id = latest /\ new.phase = "final" /\ new.blocks = current.blocks
  BY <1>3 DEF Stored
<1> HIDE DEF new
<1>6. /\ \A s \in stored' : s \in stored \/ s = new
      /\ new \in stored' \/ <<latest, "final">> \in unsaved'
  BY <1>1, SaveEffect DEF SaveFails, new
<1>7. \A s \in stored : s.blocks \in Seq(1 .. MaxPrompts) /\ ToSet(s.blocks) \subseteq 1 .. latest
  BY BlockTypes DEF IndInv, OfPrompts
<1>8. TypeOK'
  <2>1. stored' \subseteq Snapshot /\ unsaved' \subseteq (1 .. MaxPrompts) \X Phase
    BY <1>1, <1>3, <1>4, LoggedTypes DEF IndInv
  <2>2. latest <= MaxPrompts /\ Len(since) = latest
    BY BlockTypes DEF IndInv, TypeOK, latest
  <2>3. QED
    BY <1>1, <1>2, <1>3, <2>1, <2>2 DEF IndInv, TypeOK
<1>9. OfPrompts'
  BY <1>1, <1>2, <1>3, <1>5, <1>6 DEF IndInv, OfPrompts
<1>10. RunnersTurn'
  BY <1>2 DEF RunnersTurn
<1>11. OfAnswers'
  <2>1. ASSUME NEW n \in 1 .. latest, answered[n] = "ok" PROVE answered'[n] = "ok"
    BY <1>2, <1>3, <2>1
  <2>2. \A n \in ToSet(current.blocks) : answered'[n] = "ok"
    BY <1>2, <1>3, <2>1
  <2>3. ASSUME NEW s \in stored, s.phase = "final", NEW n \in ToSet(s.blocks)
        PROVE  answered'[n] = "ok"
    BY <1>7, <2>1, <2>3 DEF IndInv, OfAnswers
  <2>4. QED
    BY <1>1, <1>5, <1>6, <2>2, <2>3 DEF OfAnswers
<1>12. OneConversation'
  <2>1. ASSUME NEW turn \in {current} \cup stored', NEW m \in ToSet(turn.blocks),
               NEW n \in ToSet(turn.blocks)
        PROVE  since[m] = since[n]
    <3>1. CASE turn \in stored
      BY <3>1 DEF IndInv, OneConversation
    <3>2. CASE turn.blocks = current.blocks
      BY <1>3, <3>2
    <3>3. QED
      BY <1>5, <1>6, <3>1, <3>2
  <2>2. QED
    BY <1>1, <1>2, <1>3, <2>1 DEF OneConversation
<1>13. ASSUME NEW s \in stored, s.phase = "final", since[Last(s.blocks)] = resets
       PROVE  IsPrefix(s.blocks, current.blocks)
  BY <1>3, <1>7, <1>13, PrefixTransitive DEF IndInv, SeedExtendsFinals
<1>14. IsPrefix(current.blocks, current.blocks)
  BY <1>3, PrefixItself
<1>15. SeedExtendsFinals'
  BY <1>1, <1>2, <1>5, <1>6, <1>13, <1>14 DEF SeedExtendsFinals
<1>16. FinalTurnsChain'
  <2>1. ASSUME NEW s \in stored', NEW t \in stored', s.phase = "final", t.phase = "final",
               since[Last(s.blocks)] = since[Last(t.blocks)]
        PROVE  IsPrefix(s.blocks, t.blocks) \/ IsPrefix(t.blocks, s.blocks)
    <3>1. CASE s \in stored /\ t \in stored
      BY <2>1, <3>1 DEF IndInv, FinalTurnsChain
    <3>2. CASE s = new
      BY <1>3, <1>5, <1>6, <1>13, <1>14, <2>1, <3>2
    <3>3. CASE t = new
      BY <1>3, <1>5, <1>6, <1>13, <1>14, <2>1, <3>3
    <3>4. QED
      BY <1>6, <3>1, <3>2, <3>3
  <2>2. QED
    BY <1>2, <2>1 DEF FinalTurnsChain
<1>17. ContinuesFromRecord'
  BY <1>1, <1>3, <1>5, <1>6 DEF ContinuesFromRecord
<1>18. QED
  BY <1>8, <1>9, <1>10, <1>11, <1>12, <1>15, <1>16, <1>17 DEF IndInv

-----------------------------------------------------------------------------
(* The theorems. *)

LEMMA InitInv ==
    ASSUME Init
    PROVE  IndInv
<1>1. TypeOK
  BY InitTypes
<1>2. ToSet(<<>>) = {}
  BY DEF ToSet
<1>3. seed = initialTurn /\ current = initialTurn /\ initialTurn.blocks = <<>>
  BY DEF Init, initialTurn
<1>4. OfPrompts /\ RunnersTurn /\ OfAnswers
  BY <1>2, <1>3 DEF Init, OfPrompts, RunnersTurn, OfAnswers
<1>5. OneConversation /\ SeedExtendsFinals /\ FinalTurnsChain /\ ContinuesFromRecord
  BY <1>2, <1>3 DEF Init, OneConversation, SeedExtendsFinals, FinalTurnsChain,
                    ContinuesFromRecord
<1>6. QED
  BY <1>1, <1>4, <1>5 DEF IndInv

LEMMA StepInv ==
    ASSUME IndInv, [Next]_vars
    PROVE  IndInv'
<1>1. CASE UNCHANGED vars \/ Quit \/ Tick \/ Done
  BY <1>1, QuietSteps DEF Done
<1>2. CASE Reset
  BY <1>2, ResetInv
<1>3. CASE Ask
  BY <1>3, AskInv
<1>4. CASE Loop
  BY <1>4, LoopInv
<1>5. CASE RunFails \/ NotStored
  BY <1>5, FailInv
<1>6. CASE Answered
  BY <1>6, AnswerInv
<1>7. QED
  BY <1>1, <1>2, <1>3, <1>4, <1>5, <1>6 DEF Next

LEMMA InvHolds == Spec => []IndInv
<1>1. Init => IndInv
  BY InitInv
<1>2. IndInv /\ [Next]_vars => IndInv'
  BY StepInv
<1>3. QED
  BY <1>1, <1>2, PTL DEF Spec

(* Every variable of repl, runPrompt and the turn store keeps to its values.  *)
THEOREM TurnsTypeCorrect == Spec => []TypeOK
<1>1. IndInv => TypeOK
  BY DEF IndInv
<1>2. QED
  BY <1>1, InvHolds, PTL

(* runPrompt returns the seed it was given when a run fails: neither the turn *)
(* repl continues from nor a final turn in the log has a failed prompt.       *)
THEOREM FailuresForgotten == Spec => []FailedPromptsForgotten
<1>1. IndInv => FailedPromptsForgotten
  <2> SUFFICES ASSUME IndInv, NEW n \in 1 .. latest, answered[n] = "error"
               PROVE  /\ ~Contains(seed.blocks, n)
                      /\ \A s \in stored : s.phase = "final" => ~Contains(s.blocks, n)
    BY DEF FailedPromptsForgotten
  <2>1. ~Contains(seed.blocks, n)
    <3>1. n \notin ToSet(seed.blocks)
      BY DEF IndInv, OfAnswers
    <3>2. QED
      BY <3>1, BlockTypes, LastIsThere DEF IndInv
  <2>2. ASSUME NEW s \in stored, s.phase = "final" PROVE ~Contains(s.blocks, n)
    <3>1. n \notin ToSet(s.blocks)
      BY <2>2 DEF IndInv, OfAnswers
    <3>2. QED
      BY <3>1, BlockTypes, LastIsThere DEF IndInv
  <2>3. QED
    BY <2>1, <2>2
<1>2. QED
  BY <1>1, InvHolds, PTL

(* :reset starts from a turn without blocks, and no later turn has a block of *)
(* an earlier conversation.                                                   *)
THEOREM ConversationsApart == Spec => []OneConversation
<1>1. IndInv => OneConversation
  BY DEF IndInv
<1>2. QED
  BY <1>1, InvHolds, PTL

(* The final turns PersistTurn has stored of one conversation extend one      *)
(* another.                                                                   *)
THEOREM FinalTurnsExtend == Spec => []FinalTurnsChain
<1>1. IndInv => FinalTurnsChain
  BY DEF IndInv
<1>2. QED
  BY <1>1, InvHolds, PTL

(* What repl continues from is in the log, or could not be stored.            *)
THEOREM SeedIsRecorded == Spec => []ContinuesFromRecord
<1>1. IndInv => ContinuesFromRecord
  BY DEF IndInv
<1>2. QED
  BY <1>1, InvHolds, PTL

(* Save takes the place of a snapshot only with one of more blocks: the       *)
(* runner's turn extends all the log has of it.                               *)
LEMMA SaveExtends ==
    ASSUME TypeOK, NEW turn \in Turn, NEW p, Save(turn, p), NEW s \in stored,
           s.id = turn.id => IsPrefix(s.blocks, turn.blocks)
    PROVE  \E t \in stored' : /\ t.id = s.id /\ t.phase = s.phase /\ t.ms = s.ms
                              /\ IsPrefix(s.blocks, t.blocks)
<1>1. CASE s \in stored'
  <2>1. IsPrefix(s.blocks, s.blocks)
    BY BlockTypes, PrefixItself
  <2>2. QED
    BY <1>1, <2>1
<1>2. CASE s.id = turn.id /\ s.phase = p /\ s.ms = now
  <2>1. /\ Stored(turn, p) \in stored'
        /\ Stored(turn, p).id = s.id /\ Stored(turn, p).phase = s.phase
        /\ Stored(turn, p).ms = s.ms /\ Stored(turn, p).blocks = turn.blocks
    BY <1>2, SaveEffect DEF Stored
  <2>2. IsPrefix(s.blocks, Stored(turn, p).blocks)
    BY <1>2, <2>1
  <2>3. QED
    BY <2>1, <2>2
<1>3. QED
  BY <1>1, <1>2, SaveEffect

(* No step loses a snapshot: what takes its place has all of its blocks.      *)
THEOREM NoSnapshotLost == Spec => SnapshotsOnlyExtended
<1> DEFINE Kept(s) == \E t \in stored' : /\ t.id = s.id /\ t.phase = s.phase /\ t.ms = s.ms
                                         /\ IsPrefix(s.blocks, t.blocks)
<1>1. ASSUME IndInv, [Next]_vars, NEW s \in stored PROVE Kept(s)
  <2>1. CASE UNCHANGED stored
    <3>1. s.blocks \in Seq(1 .. MaxPrompts)
      BY <1>1, BlockTypes DEF IndInv
    <3>2. IsPrefix(s.blocks, s.blocks) /\ s \in stored'
      BY <2>1, <3>1, PrefixItself
    <3>3. QED
      BY <3>2
  <2>2. CASE \E turn \in {current, current'}, p \in Phase :
               /\ pc = "running" /\ turn \in Turn /\ turn.id = latest
               /\ IsPrefix(current.blocks, turn.blocks) /\ Save(turn, p)
    <3>1. PICK turn \in {current, current'}, p \in Phase :
               /\ pc = "running" /\ turn \in Turn /\ turn.id = latest
               /\ IsPrefix(current.blocks, turn.blocks) /\ Save(turn, p)
      BY <2>2
    <3>2. ASSUME s.id = turn.id PROVE IsPrefix(s.blocks, turn.blocks)
      <4>1. IsPrefix(s.blocks, current.blocks)
        BY <1>1, <3>1, <3>2 DEF IndInv, RunnersTurn
      <4>2. /\ s.blocks \in Seq(1 .. MaxPrompts) /\ current.blocks \in Seq(1 .. MaxPrompts)
            /\ turn.blocks \in Seq(1 .. MaxPrompts)
        BY <1>1, <3>1, BlockTypes DEF IndInv, Turn
      <4>3. QED
        BY <3>1, <4>1, <4>2, PrefixTransitive
    <3>3. QED
      BY <1>1, <3>1, <3>2, SaveExtends DEF IndInv
  <2>3. CASE Loop
    <3>1. /\ pc = "running"
          /\ current' \in Turn /\ current'.id = current.id
          /\ IsPrefix(current.blocks, current'.blocks)
      BY <1>1, <2>3, LoopTurn DEF IndInv
    <3>2. PICK to \in Phase \ {"final"} : SnapshotHook(current', to)
      BY <1>1, <2>3, LoopTurn DEF IndInv
    <3>3. current.id = latest
      BY <1>1, <3>1, RunningFacts
    <3>4. CASE Save(current', to)
      BY <2>2, <3>1, <3>3, <3>4
    <3>5. CASE ~Save(current', to)
      BY <2>1, <3>2, <3>5 DEF SnapshotHook, SaveFails
    <3>6. QED
      BY <3>4, <3>5
  <2>4. CASE Answered
    <3>1. CASE Save(current, "final")
      <4>1. /\ pc = "running" /\ current \in Turn /\ current.id = latest
            /\ current.blocks \in Seq(1 .. MaxPrompts) /\ "final" \in Phase
        BY <1>1, <2>4, RunningFacts DEF Answered, Returns, Phase
      <4>2. IsPrefix(current.blocks, current.blocks)
        BY <4>1, PrefixItself
      <4>3. QED
        BY <2>2, <3>1, <4>1, <4>2
    <3>2. CASE ~Save(current, "final")
      BY <2>1, <2>4, <3>2 DEF Answered, PersistTurn, SaveFails
    <3>3. QED
      BY <3>1, <3>2
  <2>5. CASE Reset \/ Quit \/ Ask \/ Tick \/ RunFails \/ NotStored \/ Done \/ UNCHANGED vars
    BY <2>1, <2>5 DEF Reset, Quit, Ask, Tick, RunFails, NotStored, SaveFails, Done, vars
  <2>6. QED
    BY <1>1, <2>3, <2>4, <2>5 DEF Next
<1>2. IndInv /\ [Next]_vars => [\A s \in stored : Kept(s)]_vars
  BY <1>1
<1>3. QED
  BY <1>2, InvHolds, PTL DEF Spec, SnapshotsOnlyExtended

===============================================================================
