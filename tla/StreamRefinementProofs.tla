------------------------ MODULE StreamRefinementProofs ------------------------
(***************************************************************************)
(* StreamSink implements Transcript, for any number of publishers and      *)
(* events, whether or not writes fail: while a publisher prints, an event  *)
(* of the abstract view is on its way, and it is shown when the publisher  *)
(* unlocks the sink.                                                       *)
(***************************************************************************)
EXTENDS StreamSinkRefinement, StreamSinkProofs

-----------------------------------------------------------------------------
(* The invariant of the refinement, beside that of the sink. *)

(* The screen is cut in two: what is shown, and what is being printed. *)
Boundary(n) ==
    /\ n \in 0 .. Len(screen)
    /\ \A i \in 1 .. n : ~InProgress(screen[i].event)
    /\ \A i \in n + 1 .. Len(screen) : InProgress(screen[i].event)

Written == Len(screen) - Completed

(* What the publisher has written of its event, and what it has left. *)
Underway(p) ==
    [i \in 1 .. Written + Len(todo[p]) |->
        IF i <= Written THEN screen[Completed + i].chunk ELSE todo[p][i - Written]]

(* The text of an event, after a line break or not. *)
Text(e, broken) == When(broken /\ Shown!StartsLine(e), "break") \o Shown!Body(e)

Beginning(text, whole) == Len(text) <= Len(whole) /\ \A i \in 1 .. Len(text) : text[i] = whole[i]

(* The event is printed as the reader may see it. *)
Laid(p) ==
    IF failed THEN \E broken \in BOOLEAN : Beginning(Underway(p), Text(event[p], broken))
    ELSE Underway(p) = Text(event[p], Shown!MidLine)

PrintsALayout == \A p \in mu : Laid(p)

(* Until a write fails, lastWasDelta says whether a delta was printed last; a *)
(* label is not the last thing for long.                                      *)
FieldsAgree ==
    LET latest == screen[Len(screen)].chunk
    IN  ~failed =>
          /\ screen = <<>> => ~lastWasDelta
          /\ screen # <<>> /\ latest \notin Label => (lastWasDelta <=> latest \in Delta)
          /\ screen # <<>> /\ latest \in Label => \E p \in mu : todo[p] # <<>>

RefInv == IndInv /\ Boundary(Completed) /\ PrintsALayout /\ FieldsAgree

-----------------------------------------------------------------------------
(* The cut of the screen. *)

LEMMA Greatest ==
    ASSUME NEW S \in SUBSET Nat, NEW n \in S, \A m \in S : m <= n
    PROVE  (CHOOSE k \in S : \A m \in S : m <= k) = n
<1>1. \A k \in S : (\A m \in S : m <= k) => k = n
  OBVIOUS
<1>2. QED
  BY <1>1

LEMMA CutNow ==
    ASSUME Len(screen) \in Nat, NEW n, Boundary(n)
    PROVE  Completed = n
<1>1. n \in Settled /\ Settled \in SUBSET Nat
  BY DEF Boundary, Settled
<1>2. ASSUME NEW m \in Settled PROVE m <= n
  <2>1. m \in 0 .. Len(screen) /\ \A i \in 1 .. m : ~InProgress(screen[i].event)
    BY DEF Settled
  <2>2. ASSUME m > n PROVE FALSE
    <3>1. n + 1 \in 1 .. m /\ n + 1 \in n + 1 .. Len(screen)
      BY <2>1, <2>2 DEF Boundary
    <3>2. QED
      BY <2>1, <3>1 DEF Boundary
  <2>3. QED
    BY <2>1, <2>2 DEF Boundary
<1>3. QED
  BY <1>1, <1>2, Greatest DEF Completed

LEMMA CutNext ==
    ASSUME Len(screen') \in Nat, NEW n, Boundary(n)'
    PROVE  Completed' = n
<1>1. n \in Settled' /\ Settled' \in SUBSET Nat
  BY DEF Boundary, Settled
<1>2. ASSUME NEW m \in Settled' PROVE m <= n
  <2>1. m \in 0 .. Len(screen') /\ (\A i \in 1 .. m : ~InProgress(screen[i].event))'
    BY DEF Settled
  <2>2. ASSUME m > n PROVE FALSE
    <3>1. n + 1 \in 1 .. m /\ n + 1 \in n + 1 .. Len(screen')
      BY <2>1, <2>2 DEF Boundary
    <3>2. QED
      BY <2>1, <3>1 DEF Boundary
  <2>3. QED
    BY <2>1, <2>2 DEF Boundary
<1>3. QED
  BY <1>1, <1>2, Greatest DEF Completed

(* Only an unlock moves the cut; a publisher locks with the cut at the end. *)
LEMMA CutMoves ==
    ASSUME IndInv, Boundary(Completed), NEW p \in Publisher, Act(p)
    PROVE  /\ Boundary(Completed)'
           /\ Completed \in 0 .. Len(screen)
           /\ Unlock(p) => Completed' = Len(screen)
           /\ ~Unlock(p) => Completed' = Completed
           /\ mu = {} => Completed = Len(screen)
<1> PICK n : n = Completed
  OBVIOUS
<1>1. Boundary(n) /\ n \in 0 .. Len(screen) /\ Len(screen) \in Nat
  BY LenProperties DEF Boundary, IndInv, TypeOK
<1>2. mu = {} => n = Len(screen)
  <2>1. ASSUME mu = {}, n # Len(screen) PROVE FALSE
    <3>1. n + 1 \in n + 1 .. Len(screen)
      BY <1>1, <2>1
    <3>2. QED
      BY <1>1, <2>1, <3>1 DEF Boundary, InProgress
  <2>2. QED
    BY <2>1
<1>3. ASSUME Publish(p) \/ WriteFails(p) PROVE Boundary(n)' /\ Len(screen') \in Nat
  <2>1. screen' = screen /\ mu' = mu
    BY <1>3 DEF Publish, WriteFails
  <2>2. \A q \in mu : event'[q] = event[q]
    <3>1. CASE Publish(p)
      <4>1. p \notin mu /\ mu \subseteq Publisher
        BY <3>1 DEF Publish, IndInv, Exclusive, TypeOK
      <4>2. QED
        BY <3>1, <4>1 DEF Publish, IndInv, TypeOK
    <3>2. CASE WriteFails(p)
      BY <3>2 DEF WriteFails
    <3>3. QED
      BY <1>3, <3>1, <3>2
  <2>3. QED
    BY <1>1, <2>1, <2>2 DEF Boundary, InProgress
<1>4. ASSUME Lock(p) PROVE Boundary(n)' /\ Len(screen') \in Nat
  <2>1. /\ screen' = screen /\ mu = {} /\ mu' = {p} /\ event' = event /\ event[p] # NoEvent
    BY <1>4 DEF Lock, MutexFree
  <2>2. DOMAIN screen = 1 .. Len(screen)
    BY LenProperties DEF IndInv, TypeOK
  <2>3. \A i \in 1 .. Len(screen) : screen[i].event # event[p].number
    BY <2>1, <2>2 DEF IndInv, HoldersEventLast
  <2>4. QED
    BY <1>1, <1>2, <2>1, <2>3 DEF Boundary, InProgress
<1>5. ASSUME Write(p) PROVE Boundary(n)' /\ Len(screen') \in Nat
  <2>1. /\ p \in mu /\ mu' = mu /\ event' = event
        /\ Len(screen') = Len(screen) + 1
        /\ \A i \in 1 .. Len(screen) : screen'[i] = screen[i]
        /\ screen'[Len(screen) + 1].event = event[p].number
    BY <1>5, WritePrints DEF Write, IndInv
  <2>2. \A k : InProgress(k)' <=> InProgress(k)
    BY <2>1 DEF InProgress
  <2>3. InProgress(event[p].number)
    BY <2>1 DEF InProgress
  <2>4. \A i \in 1 .. n : screen'[i] = screen[i] /\ ~InProgress(screen[i].event)
    BY <1>1, <2>1 DEF Boundary
  <2>5. \A i \in n + 1 .. Len(screen) : screen'[i] = screen[i] /\ InProgress(screen[i].event)
    BY <1>1, <2>1 DEF Boundary
  <2>6. ASSUME NEW i \in n + 1 .. Len(screen') PROVE InProgress(screen'[i].event)
    <3>1. i \in n + 1 .. Len(screen) \/ i = Len(screen) + 1
      BY <1>1, <2>1
    <3>2. QED
      BY <2>1, <2>3, <2>5, <3>1
  <2>7. n \in 0 .. Len(screen') /\ Len(screen') \in Nat
    BY <1>1, <2>1
  <2>8. \A i \in 1 .. n : ~InProgress(screen'[i].event)
    BY <2>4
  <2>9. Boundary(n)'
    BY <2>1, <2>6, <2>7, <2>8 DEF Boundary, InProgress
  <2>10. QED
    BY <2>7, <2>9
<1>6. ASSUME Unlock(p) PROVE Boundary(Len(screen))' /\ Len(screen') \in Nat
  <2>1. screen' = screen /\ p \in mu /\ mu' = mu \ {p}
    BY <1>6 DEF Unlock, Released
  <2>2. mu' = {}
    BY <2>1 DEF IndInv, Exclusive
  <2>3. \A k : ~InProgress(k)'
    BY <2>2 DEF InProgress
  <2>4. QED
    BY <1>1, <2>1, <2>3 DEF Boundary
<1>7. Unlock(p) \/ Publish(p) \/ WriteFails(p) \/ Lock(p) \/ Write(p)
  BY DEF Act
<1>8. CASE Unlock(p)
  <2>1. PICK k : k = Len(screen)
    OBVIOUS
  <2>2. screen' = screen
    BY <1>8 DEF Unlock
  <2>3. Boundary(k)'
    BY <1>6, <1>8, <2>1, <2>2
  <2>4. Completed' = k
    BY <1>6, <1>8, <2>3, CutNext
  <2>5. Boundary(Completed)'
    BY <2>3, <2>4
  <2>6. QED
    BY <1>1, <1>2, <1>8, <2>1, <2>4, <2>5
<1>9. CASE ~Unlock(p)
  <2>1. Boundary(n)' /\ Len(screen') \in Nat
    BY <1>3, <1>4, <1>5, <1>7, <1>9
  <2>2. Completed' = n
    BY <2>1, CutNext
  <2>3. Boundary(Completed)'
    BY <2>1, <2>2
  <2>4. QED
    BY <1>1, <1>2, <1>9, <2>2, <2>3
<1>10. QED
  BY <1>8, <1>9

LEMMA ScreenChunks ==
    ASSUME TypeOK
    PROVE  Len(screen) \in Nat /\ \A i \in 1 .. Len(screen) : screen[i].chunk \in Chunk
<1>1. screen \in Seq([chunk: Chunk, event: 1 .. published]) /\ Len(screen) \in Nat
  BY LenProperties DEF TypeOK
<1>2. ASSUME NEW i \in 1 .. Len(screen) PROVE screen[i].chunk \in Chunk
  <2>1. screen[i] \in [chunk: Chunk, event: 1 .. published]
    BY <1>1, ElementOfSeq
  <2>2. QED
    BY <2>1
<1>3. QED
  BY <1>1, <1>2

LEMMA PrintedChunks ==
    ASSUME TypeOK, Completed \in 0 .. Len(screen)
    PROVE  /\ Printed \in Seq(Chunk) /\ Len(Printed) = Completed
           /\ DOMAIN Printed = 1 .. Completed
           /\ \A i \in 1 .. Completed : Printed[i] = screen[i].chunk
<1>1. Completed \in Nat /\ \A i \in 1 .. Completed : screen[i].chunk \in Chunk
  BY ScreenChunks
<1>2. QED
  BY <1>1, IsASeq, LenProperties DEF Printed

LEMMA UnderwayChunks ==
    ASSUME TypeOK, Completed \in 0 .. Len(screen), NEW p \in Publisher
    PROVE  /\ Written \in Nat /\ Len(todo[p]) \in Nat
           /\ Underway(p) \in Seq(Chunk) /\ Len(Underway(p)) = Written + Len(todo[p])
           /\ \A i \in 1 .. Written : Underway(p)[i] = screen[Completed + i].chunk
           /\ \A i \in Written + 1 .. Written + Len(todo[p]) :
                 Underway(p)[i] = todo[p][i - Written]
<1>1. /\ Len(screen) \in Nat /\ Completed \in Nat /\ Completed + Written = Len(screen)
      /\ Written \in Nat
  BY ScreenChunks DEF Written
<1>2. todo[p] \in Seq(Chunk) /\ Len(todo[p]) \in Nat
  BY LenProperties DEF TypeOK
<1>3. ASSUME NEW i \in 1 .. Written PROVE screen[Completed + i].chunk \in Chunk
  <2>1. Completed + i \in 1 .. Len(screen)
    BY <1>1
  <2>2. QED
    BY <2>1, ScreenChunks
<1>4. ASSUME NEW i \in Written + 1 .. Written + Len(todo[p]) PROVE todo[p][i - Written] \in Chunk
  <2>1. i - Written \in 1 .. Len(todo[p])
    BY <1>1, <1>2
  <2>2. QED
    BY <1>2, <2>1, ElementOfSeq
<1> DEFINE length == Written + Len(todo[p])
           chunk(i) == IF i <= Written THEN screen[Completed + i].chunk
                       ELSE todo[p][i - Written]
<1>5. length \in Nat
  BY <1>1, <1>2
<1>6. \A i \in 1 .. length : chunk(i) \in Chunk
  BY <1>1, <1>2, <1>3, <1>4
<1>7. Underway(p) = [i \in 1 .. length |-> chunk(i)]
  BY DEF Underway
<1> HIDE DEF length, chunk
<1>8. /\ Underway(p) \in Seq(Chunk) /\ Len(Underway(p)) = length
      /\ \A i \in 1 .. length : Underway(p)[i] = chunk(i)
  BY <1>5, <1>6, <1>7, IsASeq, LenProperties
<1>9. ASSUME NEW i \in 1 .. Written PROVE Underway(p)[i] = screen[Completed + i].chunk
  <2>1. i \in 1 .. length /\ i <= Written
    BY <1>1, <1>2 DEF length
  <2>2. QED
    BY <1>8, <2>1 DEF chunk
<1>10. ASSUME NEW i \in Written + 1 .. Written + Len(todo[p])
       PROVE  Underway(p)[i] = todo[p][i - Written]
  <2>1. i \in 1 .. length /\ ~(i <= Written)
    BY <1>1, <1>2 DEF length
  <2>2. QED
    BY <1>8, <2>1 DEF chunk
<1>11. QED
  BY <1>1, <1>2, <1>8, <1>9, <1>10 DEF length

(* Only an unlock changes what the reader sees. *)
LEMMA PrintedStays ==
    ASSUME IndInv, Boundary(Completed), NEW p \in Publisher, Act(p), ~Unlock(p)
    PROVE  Printed' = Printed
<1>1. Completed' = Completed /\ Completed \in 0 .. Len(screen) /\ Len(screen) \in Nat
  BY CutMoves, LenProperties DEF IndInv, TypeOK
<1>2. \A i \in 1 .. Completed : screen'[i] = screen[i]
  <2>1. CASE Write(p)
    <3>1. \A i \in 1 .. Len(screen) : screen'[i] = screen[i]
      BY <2>1, WritePrints DEF IndInv
    <3>2. \A i \in 1 .. Completed : i \in 1 .. Len(screen)
      BY <1>1
    <3>3. QED
      BY <3>1, <3>2
  <2>2. CASE ~Write(p)
    BY <2>2, OthersKeepScreen
  <2>3. QED
    BY <2>1, <2>2
<1>3. QED
  BY <1>1, <1>2 DEF Printed

(* An unlock shows the text of the publisher, now that it is all printed. *)
LEMMA PrintedGrows ==
    ASSUME IndInv, Boundary(Completed), NEW p \in Publisher, Unlock(p)
    PROVE  Printed' = Printed \o Underway(p)
<1> DEFINE text == Underway(p)
<1>1. /\ Completed \in 0 .. Len(screen) /\ Len(screen) \in Nat /\ Completed' = Len(screen)
      /\ screen' = screen
  BY CutMoves, LenProperties DEF IndInv, TypeOK, Act, Unlock
<1>2. /\ Printed \in Seq(Chunk) /\ Len(Printed) = Completed
      /\ \A i \in 1 .. Completed : Printed[i] = screen[i].chunk
  BY <1>1, PrintedChunks DEF IndInv
<1>3. TypeOK'
  BY StepTypes DEF IndInv, Next
<1>4. /\ Printed' \in Seq(Chunk) /\ Len(Printed') = Len(screen)
      /\ \A i \in 1 .. Len(screen) : Printed'[i] = screen[i].chunk
  <2>1. \A i \in 1 .. Len(screen) : screen[i].chunk \in Chunk
    BY ScreenChunks DEF IndInv
  <2>2. Printed' = [i \in 1 .. Len(screen) |-> screen[i].chunk]
    BY <1>1 DEF Printed
  <2>3. QED
    BY <1>1, <2>1, <2>2, IsASeq, LenProperties
<1>5. /\ text \in Seq(Chunk) /\ Len(text) = Len(screen) - Completed
      /\ \A i \in 1 .. Len(screen) - Completed : text[i] = screen[Completed + i].chunk
  <2>1. Len(todo[p]) = 0
    BY EmptySeq DEF Unlock
  <2>2. QED
    BY <1>1, <2>1, UnderwayChunks DEF IndInv, Written
<1> HIDE DEF text
<1>6. PICK old : old = Printed
  OBVIOUS
<1>7. PICK new : new = Printed'
  OBVIOUS
<1>8. /\ old \o text \in Seq(Chunk) /\ Len(old \o text) = Len(screen)
      /\ \A i \in 1 .. Len(screen) : (old \o text)[i] = screen[i].chunk
  <2>1. /\ old \o text \in Seq(Chunk) /\ Len(old \o text) = Len(old) + Len(text)
        /\ \A i \in 1 .. Len(old) + Len(text) :
              (old \o text)[i] = IF i <= Len(old) THEN old[i] ELSE text[i - Len(old)]
    <3>1. old \in Seq(Chunk) /\ text \in Seq(Chunk)
      BY <1>2, <1>5, <1>6
    <3>2. QED
      BY <3>1, ConcatProperties
  <2>2. Len(old) = Completed /\ Len(old) + Len(text) = Len(screen)
    <3>1. Len(old) = Completed
      BY <1>2, <1>6
    <3>2. Completed + (Len(screen) - Completed) = Len(screen)
      BY <1>1
    <3>3. QED
      BY <1>5, <3>1, <3>2
  <2>3. ASSUME NEW i \in 1 .. Len(screen) PROVE (old \o text)[i] = screen[i].chunk
    <3>1. CASE i <= Completed
      <4>1. i \in 1 .. Completed
        BY <1>1, <3>1
      <4>2. QED
        BY <1>2, <1>6, <2>1, <2>2, <3>1, <4>1
    <3>2. CASE ~(i <= Completed)
      <4>1. i - Completed \in 1 .. Len(screen) - Completed /\ Completed + (i - Completed) = i
        BY <1>1, <3>2
      <4>2. text[i - Completed] = screen[i].chunk
        BY <1>5, <4>1
      <4>3. QED
        BY <2>1, <2>2, <3>2, <4>2
    <3>3. QED
      BY <3>1, <3>2
  <2>4. QED
    BY <2>1, <2>2, <2>3
<1>9. new = old \o text
  BY <1>1, <1>4, <1>7, <1>8, SeqEqual
<1>10. QED
  BY <1>6, <1>7, <1>9 DEF text

-----------------------------------------------------------------------------
(* What a publisher plans to write is the text of its event. *)

LEMMA FrontChunk ==
    ASSUME NEW a, NEW b, NEW c
    PROVE  <<a>> \o <<b, c>> = <<a, b, c>>
<1> DEFINE S == {a, b, c}
<1>1. <<a>> \in Seq(S) /\ <<b, c>> \in Seq(S) /\ <<a, b, c>> \in Seq(S)
  OBVIOUS
<1> HIDE DEF S
<1>2. <<a>> \o <<b, c>> \in Seq(S) /\ Len(<<a>> \o <<b, c>>) = 3
  BY <1>1, ConcatProperties
<1>3. \A i \in 1 .. 3 : (<<a>> \o <<b, c>>)[i] = <<a, b, c>>[i]
  BY <1>1, ConcatProperties
<1>4. QED
  BY <1>1, <1>2, <1>3, SeqEqual

(* The fields of the sink are what the text that is shown says. *)
FieldsSay ==
    /\ Shown!Missing("assistant label") <=> ~assistantStarted
    /\ Shown!Missing("thinking label") <=> ~thinkingStarted

LEMMA PlanIsLayout ==
    ASSUME TypeOK, FieldsSay, NEW e \in Event
    PROVE  Writes(e) = When(lastWasDelta /\ Shown!StartsLine(e), "break") \o Shown!Body(e)
<1>1. {assistantStarted, thinkingStarted, lastWasDelta} \subseteq BOOLEAN
  BY DEF TypeOK
<1>2. e.blank \in BOOLEAN /\ ShowToolArgs \in BOOLEAN /\ ShowToolResults \in BOOLEAN
  BY EventTypes, DetailsAssumption
<1>3. CASE e.kind = "partial"
  <2>1. ~Shown!StartsLine(e)
    BY <1>3 DEF Shown!StartsLine
  <2>2. CASE e.blank
    <3>1. Writes(e) = <<>> /\ Shown!Body(e) = <<>>
      BY <1>3, <2>2 DEF Writes, WriteDelta, Shown!Body
    <3>2. QED
      BY <2>1, <3>1 DEF When
  <2>3. CASE ~e.blank
    <3>1. /\ Writes(e) = When(~assistantStarted, "assistant label") \o <<"assistant text">>
          /\ Shown!Body(e) = When(~assistantStarted, "assistant label") \o <<"assistant text">>
      BY <1>3, <2>3 DEF Writes, WriteDelta, Shown!Body, Shown!When, When, FieldsSay
    <3>2. Writes(e) \in {<<"assistant text">>, <<"assistant label", "assistant text">>}
      BY <3>1, TwoChunks, NoChunk DEF When
    <3>3. <<>> \o Writes(e) = Writes(e)
      <4>1. /\ <<>> \o <<"assistant text">> = <<"assistant text">>
            /\ <<>> \o <<"assistant label", "assistant text">>
                 = <<"assistant label", "assistant text">>
        BY NoChunk
      <4>2. QED
        BY <3>2, <4>1
    <3>4. When(lastWasDelta /\ Shown!StartsLine(e), "break") = <<>>
      BY <2>1 DEF When
    <3>5. QED
      BY <3>1, <3>3, <3>4
  <2>4. QED
    BY <1>2, <2>2, <2>3
<1>4. CASE e.kind = "thinking"
  <2>1. CASE e.blank
    <3>1. Writes(e) = <<>> /\ Shown!Body(e) = <<>> /\ ~Shown!StartsLine(e)
      BY <1>4, <2>1 DEF Writes, WriteThinkingDelta, Shown!Body, Shown!StartsLine
    <3>2. QED
      BY <3>1 DEF When
  <2>2. CASE ~e.blank /\ thinkingStarted
    <3>1. /\ Writes(e) = <<>> \o <<"thinking text">>
          /\ Shown!Body(e) = <<>> \o <<"thinking text">> /\ ~Shown!StartsLine(e)
      BY <1>4, <2>2 DEF Writes, WriteThinkingDelta, Shown!Body, Shown!StartsLine, FieldsSay,
             Shown!When, When
    <3>2. QED
      BY <3>1, NoChunk DEF When
  <2>3. CASE ~e.blank /\ ~thinkingStarted
    <3>1. /\ Writes(e) = (EnsureLineBreak \o <<"thinking label">>) \o <<"thinking text">>
          /\ Shown!Body(e) = <<"thinking label">> \o <<"thinking text">>
          /\ Shown!StartsLine(e)
      BY <1>4, <2>3 DEF Writes, WriteThinkingDelta, Shown!Body, Shown!StartsLine, FieldsSay,
             Shown!When, When
    <3>2. EnsureLineBreak \o <<"thinking label">>
            = IF lastWasDelta THEN <<"break", "thinking label">> ELSE <<"thinking label">>
      BY <1>1, LinePlans
    <3>3. /\ <<"break", "thinking label">> \o <<"thinking text">>
               = <<"break", "thinking label", "thinking text">>
          /\ <<"thinking label">> \o <<"thinking text">> = <<"thinking label", "thinking text">>
      BY TwoChunks, ThreeChunks
    <3>4. <<"break">> \o <<"thinking label", "thinking text">>
            = <<"break", "thinking label", "thinking text">>
      BY FrontChunk
    <3>5. <<>> \o <<"thinking label", "thinking text">> = <<"thinking label", "thinking text">>
      BY NoChunk
    <3>6. QED
      BY <1>1, <3>1, <3>2, <3>3, <3>4, <3>5 DEF When
  <2>4. QED
    BY <1>1, <1>2, <2>1, <2>2, <2>3
<1>5. ASSUME NEW c, NEW shows \in BOOLEAN
      PROVE  /\ EnsureLineBreak \o <<c>> = When(lastWasDelta, "break") \o <<c>>
             /\ EnsureLineBreak \o <<c>> \o When(shows, "detail")
                  = When(lastWasDelta, "break") \o (<<c>> \o When(shows, "detail"))
  <2>1. EnsureLineBreak = When(lastWasDelta, "break")
    BY DEF EnsureLineBreak
  <2>2. /\ When(lastWasDelta, "break") \in {<<>>, <<"break">>}
        /\ When(shows, "detail") \in {<<>>, <<"detail">>}
    BY DEF When
  <2>3. /\ <<>> \o <<c>> = <<c>> /\ <<c>> \o <<>> = <<c>>
        /\ <<"break">> \o <<c>> = <<"break", c>> /\ <<c>> \o <<"detail">> = <<c, "detail">>
        /\ <<"break", c>> \o <<"detail">> = <<"break", c, "detail">>
        /\ <<"break">> \o <<c, "detail">> = <<"break", c, "detail">>
        /\ <<>> \o <<c, "detail">> = <<c, "detail">>
        /\ <<"break", c>> \o <<>> = <<"break", c>>
    BY TwoChunks, ThreeChunks, FrontChunk, NoChunk
  <2>4. QED
    BY <2>1, <2>2, <2>3
<1>6. CASE e.kind \in {"call", "done", "execute", "error"}
  <2>1. Shown!StartsLine(e)
    BY <1>6 DEF Shown!StartsLine
  <2>2. lastWasDelta /\ Shown!StartsLine(e) <=> lastWasDelta
    BY <2>1
  <2>3. When(lastWasDelta /\ Shown!StartsLine(e), "break") = When(lastWasDelta, "break")
    BY <2>2 DEF When
  <2>4. CASE e.kind = "call"
    <3>1. /\ Writes(e) = EnsureLineBreak \o <<"call">> \o When(ShowToolArgs /\ ~e.blank, "detail")
          /\ Shown!Body(e) = <<"call">> \o When(ShowToolArgs /\ ~e.blank, "detail")
      BY <2>4 DEF Writes, WriteToolCall, Shown!Body, Shown!When, When
    <3>2. (ShowToolArgs /\ ~e.blank) \in BOOLEAN
      BY <1>2
    <3>3. QED
      BY <1>5, <2>3, <3>1, <3>2
  <2>5. CASE e.kind = "done"
    <3>1. /\ Writes(e) = EnsureLineBreak \o <<"notice">>
                           \o When(ShowToolResults /\ ~e.blank, "detail")
          /\ Shown!Body(e) = <<"notice">> \o When(ShowToolResults /\ ~e.blank, "detail")
      BY <2>5 DEF Writes, WriteToolResult, Shown!Body, Shown!When, When
    <3>2. (ShowToolResults /\ ~e.blank) \in BOOLEAN
      BY <1>2
    <3>3. QED
      BY <1>5, <2>3, <3>1, <3>2
  <2>6. CASE e.kind = "execute"
    <3>1. Writes(e) = EnsureLineBreak \o <<"notice">> /\ Shown!Body(e) = <<"notice">>
      BY <2>6 DEF Writes, WriteToolExecute, Shown!Body
    <3>2. QED
      BY <1>5, <2>3, <3>1
  <2>7. CASE e.kind = "error"
    <3>1. Writes(e) = EnsureLineBreak \o <<"error">> /\ Shown!Body(e) = <<"error">>
      BY <2>7 DEF Writes, WriteError, Shown!Body
    <3>2. QED
      BY <1>5, <2>3, <3>1
  <2>8. QED
    BY <1>6, <2>4, <2>5, <2>6, <2>7
<1>7. CASE e.kind \notin {"partial", "thinking", "call", "done", "execute", "error"}
  <2>1. Writes(e) = <<>> /\ Shown!Body(e) = <<>> /\ ~Shown!StartsLine(e)
    BY <1>7 DEF Writes, Shown!Body, Shown!StartsLine
  <2>2. QED
    BY <2>1 DEF When
<1>8. QED
  BY <1>3, <1>4, <1>6, <1>7

-----------------------------------------------------------------------------
(* When no event is being printed, the fields say what is shown. *)

LEMMA AtRest ==
    ASSUME RefInv, mu = {}
    PROVE  /\ FieldsSay
           /\ ~failed => (lastWasDelta <=> Shown!MidLine)
<1>1. Completed = Len(screen) /\ Len(screen) \in Nat
  <2>1. Completed \in 0 .. Len(screen) /\ Len(screen) \in Nat
    BY ScreenChunks DEF RefInv, IndInv, Boundary
  <2>2. ASSUME Completed # Len(screen) PROVE FALSE
    <3>1. Completed + 1 \in Completed + 1 .. Len(screen)
      BY <2>1, <2>2
    <3>2. QED
      BY <3>1 DEF RefInv, Boundary, InProgress
  <2>3. QED
    BY <2>1, <2>2
<1>2. /\ DOMAIN Printed = 1 .. Len(screen) /\ Len(Printed) = Len(screen)
      /\ \A i \in 1 .. Len(screen) : Printed[i] = screen[i].chunk
      /\ DOMAIN screen = 1 .. Len(screen)
  BY <1>1, PrintedChunks, LenProperties DEF RefInv, IndInv, TypeOK
<1>3. ASSUME NEW l
      PROVE  Shown!Missing(l) <=> Onto({l}) = {}
  BY <1>2 DEF Shown!Missing, Onto
<1>4. FieldsSay
  BY <1>3 DEF FieldsSay, RefInv, IndInv, StartedMeansLabelled
<1>5. screen = <<>> <=> Len(screen) = 0
  BY EmptySeq, LenProperties DEF RefInv, IndInv, TypeOK
<1>6. Printed = <<>> <=> Len(screen) = 0
  <2>1. Printed \in Seq(Chunk)
    BY <1>1, PrintedChunks DEF RefInv, IndInv
  <2>2. QED
    BY <1>2, <2>1, EmptySeq, LenProperties
<1>7. Len(screen) # 0 => Printed[Len(Printed)] = screen[Len(screen)].chunk
  BY <1>1, <1>2
<1>8. Shown!MidLine <=> Len(screen) # 0 /\ screen[Len(screen)].chunk \in Delta
  BY <1>6, <1>7 DEF Shown!MidLine, Shown!Delta, Delta
<1>9. ~failed => (lastWasDelta <=> Shown!MidLine)
  <2>1. lastWasDelta \in BOOLEAN
    BY DEF RefInv, IndInv, TypeOK
  <2>2. QED
    BY <1>5, <1>8, <2>1 DEF RefInv, FieldsAgree
<1>10. QED
  BY <1>4, <1>9

(* The texts of an event. *)

LEMMA BodyType ==
    ASSUME NEW e \in Event
    PROVE  Shown!Body(e) \in Seq(Chunk)
<1>1. \A a, b \in Chunk, x \in BOOLEAN :
         When(x, a) \o <<b>> \in Seq(Chunk) /\ <<b>> \o When(x, a) \in Seq(Chunk)
  BY DEF When
<1>2. \A b \in Chunk : <<>> \in Seq(Chunk) /\ <<b>> \in Seq(Chunk)
  OBVIOUS
<1>3. QED
  BY <1>1, <1>2, DetailsAssumption, EventTypes
     DEF Shown!Body, Shown!When, When, Chunk, Label, Delta

LEMMA TextType ==
    ASSUME NEW e \in Event, NEW broken \in BOOLEAN
    PROVE  Text(e, broken) \in Seq(Chunk)
<1>1. Shown!Body(e) \in Seq(Chunk)
  BY BodyType
<1>2. When(broken /\ Shown!StartsLine(e), "break") \in Seq(Chunk)
  <2>1. "break" \in Chunk
    BY DEF Chunk
  <2>2. <<>> \in Seq(Chunk) /\ <<"break">> \in Seq(Chunk)
    BY <2>1
  <2>3. QED
    BY <2>2 DEF When
<1>3. QED
  BY <1>1, <1>2, ConcatProperties DEF Text

LEMMA BeginningRemains ==
    ASSUME NEW e \in Event, NEW broken \in BOOLEAN, NEW text \in Seq(Chunk),
           Beginning(text, Text(e, broken))
    PROVE  text \in Shown!Remains(e)
<1> DEFINE whole == Text(e, broken)
<1>1. whole \in Seq(Chunk) /\ Shown!Body(e) \in Seq(Chunk)
  BY TextType, BodyType
<1>2. Len(whole) \in Nat /\ Len(text) \in 0 .. Len(whole)
  BY <1>1, LenProperties DEF Beginning
<1>3. text = SubSeq(whole, 1, Len(text))
  <2> HIDE DEF whole
  <2>1. /\ SubSeq(whole, 1, Len(text)) \in Seq(Chunk)
        /\ Len(SubSeq(whole, 1, Len(text))) = Len(text)
        /\ \A i \in 1 .. Len(text) : SubSeq(whole, 1, Len(text))[i] = whole[i]
    BY <1>1, <1>2, SubSeqProperties
  <2>2. \A i \in 1 .. Len(text) : text[i] = whole[i]
    BY DEF Beginning, whole
  <2>3. QED
    BY <2>1, <2>2, SeqEqual
<1>4. whole \in {Shown!Body(e), Shown!When(Shown!StartsLine(e), "break") \o Shown!Body(e)}
  <2>1. <<>> \o Shown!Body(e) = Shown!Body(e)
    BY <1>1, ConcatEmptySeq
  <2>2. CASE broken /\ Shown!StartsLine(e)
    BY <2>2 DEF Text, When, Shown!When
  <2>3. CASE ~(broken /\ Shown!StartsLine(e))
    BY <2>1, <2>3 DEF Text, When
  <2>4. QED
    BY <2>2, <2>3
<1> HIDE DEF whole
<1>5. QED
  <2>1. text \in {SubSeq(whole, 1, n) : n \in 0 .. Len(whole)}
    BY <1>2, <1>3
  <2>2. QED
    BY <1>4, <2>1 DEF Shown!Remains

-----------------------------------------------------------------------------
(* The steps of a publisher. *)

LEMMA StepFields ==
    ASSUME RefInv, NEW p \in Publisher, Act(p)
    PROVE  FieldsAgree'
<1>1. CASE Publish(p)
  BY <1>1 DEF Publish, RefInv, FieldsAgree
<1>2. CASE Lock(p)
  BY <1>2 DEF Lock, MutexFree, RefInv, FieldsAgree
<1>3. CASE Write(p)
  <2>1. /\ Len(screen') = Len(screen) + 1 /\ Len(screen) \in Nat
        /\ screen'[Len(screen')].chunk = Head(todo[p]) /\ p \in mu
        /\ screen' \in Seq([chunk: Chunk, event: 1 .. published])
    BY <1>3, WritePrints DEF RefInv, IndInv
  <2>2. screen' # <<>>
    BY <2>1, EmptySeq
  <2>3. /\ Head(todo[p]) \in Delta => lastWasDelta'
        /\ Head(todo[p]) \notin Delta \cup Label => lastWasDelta' = FALSE
        /\ todo'[p] = Tail(todo[p]) /\ Planned(todo[p]) /\ todo[p] # <<>>
    BY <1>3, WriteFields DEF RefInv, IndInv
  <2>4. Head(todo[p]) \in Label => Tail(todo[p]) # <<>> /\ Head(todo[p]) \notin Delta
    <3>1. PICK left : left = todo[p]
      OBVIOUS
    <3>2. PICK chunk, rest : chunk = Head(left) /\ rest = Tail(left)
      OBVIOUS
    <3>3. Planned(left) /\ left # <<>>
      BY <2>3, <3>1
    <3>4. chunk \in Label => rest \in {<<"assistant text">>, <<"thinking text">>}
      BY <3>2, <3>3, NextWrite DEF Label
    <3>5. <<"assistant text">> # <<>> /\ <<"thinking text">> # <<>>
      OBVIOUS
    <3>6. chunk \in Label => chunk \notin Delta
      BY DEF Label, Delta
    <3>7. QED
      BY <3>1, <3>2, <3>4, <3>5, <3>6
  <2>5. mu' = mu
    BY <1>3 DEF Write
  <2>6. QED
    BY <2>1, <2>2, <2>3, <2>4, <2>5 DEF FieldsAgree
<1>4. CASE WriteFails(p)
  BY <1>4 DEF WriteFails, FieldsAgree
<1>5. CASE Unlock(p)
  <2>1. \A q \in mu : todo[q] = <<>>
    BY <1>5 DEF Unlock, RefInv, IndInv, Exclusive
  <2>2. QED
    BY <1>5, <2>1 DEF Unlock, RefInv, FieldsAgree
<1>6. QED
  BY <1>1, <1>2, <1>3, <1>4, <1>5 DEF Act

(* While nothing new is shown, an event keeps its texts. *)
LEMMA TextStays ==
    ASSUME Printed' = Printed, NEW e
    PROVE  /\ \A broken \in BOOLEAN : Text(e, broken)' = Text(e, broken)
           /\ Text(e, Shown!MidLine)' = Text(e, Shown!MidLine)
<1>1. \A l : Shown!Missing(l)' <=> Shown!Missing(l)
  BY DEF Shown!Missing
<1>2. Shown!MidLine' <=> Shown!MidLine
  BY DEF Shown!MidLine
<1>3. Shown!StartsLine(e)' <=> Shown!StartsLine(e)
  BY <1>1 DEF Shown!StartsLine
<1>4. Shown!Body(e)' = Shown!Body(e)
  BY <1>1 DEF Shown!Body, Shown!When
<1>5. QED
  BY <1>2, <1>3, <1>4 DEF Text, When

LEMMA SameTextLaid ==
    ASSUME NEW p, Laid(p), Printed' = Printed, Underway(p)' = Underway(p),
           event'[p] = event[p], failed' = failed
    PROVE  Laid(p)'
<1> PICK e : e = event[p]
  OBVIOUS
<1>1. /\ \A broken \in BOOLEAN : Text(e, broken)' = Text(e, broken)
      /\ Text(e, Shown!MidLine)' = Text(e, Shown!MidLine)
  BY TextStays
<1>2. IF failed THEN \E broken \in BOOLEAN : Beginning(Underway(p), Text(e, broken))
      ELSE Underway(p) = Text(e, Shown!MidLine)
  BY DEF Laid
<1>3. QED
  BY <1>1, <1>2 DEF Laid, Beginning

LEMMA HolderHasEvent ==
    ASSUME TypeOK, Exclusive, NEW p \in mu
    PROVE  event[p] \in Event
BY DEF TypeOK, Exclusive

(* A publisher locks with all of its event to be written. *)
LEMMA LockLayout ==
    ASSUME RefInv, NEW p \in Publisher, Lock(p)
    PROVE  Laid(p)'
<1> PICK e : e = event[p]
  OBVIOUS
<1> PICK b : b = lastWasDelta
  OBVIOUS
<1> PICK plan : plan = Writes(e)
  OBVIOUS
<1>1. /\ mu = {} /\ event'[p] = e /\ todo'[p] = plan /\ screen' = screen /\ failed' = failed
      /\ lastWasDelta \in BOOLEAN
  BY DEF Lock, MutexFree, RefInv, IndInv, TypeOK
<1>2. e \in Event
  BY DEF Lock, RefInv, IndInv, TypeOK
<1>3. Act(p) /\ ~Unlock(p)
  BY <1>1 DEF Act, Unlock
<1>4. Printed' = Printed /\ Completed' = Len(screen) /\ Len(screen) \in Nat
  BY <1>1, <1>3, CutMoves, PrintedStays, ScreenChunks DEF RefInv, IndInv
<1>5. plan \in Seq(Chunk)
  BY <1>2, WritesPlanned, WritesType DEF RefInv, IndInv
<1>6. Underway(p)' = plan
  <2>1. Written' = 0
    BY <1>1, <1>4 DEF Written
  <2>2. Len(plan) \in Nat /\ plan = [i \in 1 .. Len(plan) |-> plan[i]]
    BY <1>5, LenProperties
  <2>3. Underway(p)' = [i \in 1 .. 0 + Len(plan) |->
                           IF i <= 0 THEN screen[Len(screen) + i].chunk ELSE plan[i - 0]]
    BY <1>1, <1>4, <2>1 DEF Underway
  <2>4. QED
    BY <2>2, <2>3
<1>7. FieldsSay /\ (~failed => (lastWasDelta <=> Shown!MidLine))
  BY <1>1, AtRest
<1>8. plan = Text(e, b)
  BY <1>2, <1>7, PlanIsLayout DEF Text, RefInv, IndInv
<1>9. CASE failed
  <2>1. Text(e, b)' = plan
    BY <1>1, <1>4, <1>8, TextStays
  <2>2. Beginning(plan, plan)
    BY <1>5, LenProperties DEF Beginning
  <2>3. Beginning(Underway(p), Text(e, b))'
    BY <1>6, <2>1, <2>2 DEF Beginning
  <2>4. QED
    BY <1>1, <1>9, <2>3 DEF Laid
<1>10. CASE ~failed
  <2>1. Text(e, Shown!MidLine) = plan
    BY <1>7, <1>8, <1>10 DEF Text, When
  <2>2. Text(e, Shown!MidLine)' = plan
    BY <1>4, <2>1, TextStays
  <2>3. QED
    BY <1>1, <1>6, <1>10, <2>2 DEF Laid
<1>11. QED
  BY <1>9, <1>10

(* A write moves a chunk from what is left to what is on the screen. *)
LEMMA WriteLayout ==
    ASSUME RefInv, NEW p \in Publisher, Write(p)
    PROVE  Laid(p)'
<1> PICK e : e = event[p]
  OBVIOUS
<1> PICK n : n = Completed
  OBVIOUS
<1> PICK w : w = Written
  OBVIOUS
<1>1. /\ p \in mu /\ Len(screen) \in Nat /\ Len(screen') = Len(screen) + 1
      /\ \A i \in 1 .. Len(screen) : screen'[i] = screen[i]
      /\ screen'[Len(screen) + 1].chunk = Head(todo[p])
  BY WritePrints DEF RefInv, IndInv
<1>2. /\ todo[p] # <<>> /\ todo[p] \in Seq(Chunk) /\ todo'[p] = Tail(todo[p])
      /\ event'[p] = e /\ failed' = failed
  BY DEF Write, RefInv, IndInv, TypeOK
<1>3. Act(p) /\ ~Unlock(p)
  BY <1>2 DEF Act, Unlock
<1>4. Printed' = Printed /\ Completed' = n /\ n \in 0 .. Len(screen)
  BY <1>3, CutMoves, PrintedStays DEF RefInv
<1>5. w \in Nat /\ n + w = Len(screen) /\ Written' = w + 1
  BY <1>1, <1>4 DEF Written
<1>6. /\ Len(todo[p]) \in Nat \ {0} /\ Len(Tail(todo[p])) = Len(todo[p]) - 1
      /\ Head(todo[p]) = todo[p][1]
      /\ \A i \in 1 .. Len(todo[p]) - 1 : Tail(todo[p])[i] = todo[p][i + 1]
  BY <1>2, HeadTailProperties, EmptySeq, LenProperties
<1> DEFINE length == w + Len(todo[p])
           now(i)  == IF i <= w THEN screen[n + i].chunk ELSE todo[p][i - w]
           next(i) == IF i <= w + 1 THEN screen'[n + i].chunk ELSE Tail(todo[p])[i - (w + 1)]
<1>7. ASSUME NEW i \in 1 .. length PROVE next(i) = now(i)
  <2>1. CASE i <= w
    <3>1. n + i \in 1 .. Len(screen) /\ i <= w + 1
      BY <1>4, <1>5, <2>1
    <3>2. QED
      BY <1>1, <2>1, <3>1
  <2>2. CASE i = w + 1
    <3>1. n + i = Len(screen) + 1 /\ i <= w + 1 /\ ~(i <= w) /\ i - w = 1
      BY <1>1, <1>4, <1>5, <2>2
    <3>2. QED
      BY <1>1, <1>6, <3>1
  <2>3. CASE ~(i <= w + 1)
    <3>1. /\ i - (w + 1) \in 1 .. Len(todo[p]) - 1 /\ (i - (w + 1)) + 1 = i - w
          /\ ~(i <= w)
      BY <1>5, <1>6, <2>3
    <3>2. QED
      BY <1>6, <2>3, <3>1
  <2>4. QED
    BY <1>5, <2>1, <2>2, <2>3
<1>8. Underway(p) = [i \in 1 .. length |-> now(i)]
  BY DEF Underway
<1>9. Underway(p)' = [i \in 1 .. length |-> next(i)]
  <2>1. (w + 1) + Len(Tail(todo[p])) = length
    <3>1. \A k \in Nat \ {0} : (w + 1) + (k - 1) = w + k
      BY <1>5
    <3>2. QED
      BY <1>6, <3>1
  <2>2. Underway(p)' = [i \in 1 .. (w + 1) + Len(Tail(todo[p])) |-> next(i)]
    BY <1>2, <1>4, <1>5 DEF Underway
  <2>3. QED
    BY <2>1, <2>2
<1> HIDE DEF length, now, next
<1>10. Underway(p)' = Underway(p)
  BY <1>7, <1>8, <1>9
<1>11. QED
  BY <1>1, <1>2, <1>4, <1>10, SameTextLaid DEF RefInv, PrintsALayout

(* A write that fails leaves the beginning of a text. *)
LEMMA FailLayout ==
    ASSUME RefInv, NEW p \in Publisher, WriteFails(p)
    PROVE  Laid(p)'
<1> PICK e : e = event[p]
  OBVIOUS
<1> PICK n : n = Completed
  OBVIOUS
<1> PICK w : w = Written
  OBVIOUS
<1> PICK text : text = Underway(p)
  OBVIOUS
<1>1. /\ todo[p] # <<>> /\ todo'[p] = <<>> /\ event'[p] = e /\ failed' = TRUE
      /\ screen' = screen /\ p \in mu
  BY DEF WriteFails, RefInv, IndInv, TypeOK, Exclusive
<1>2. Act(p) /\ ~Unlock(p)
  BY <1>1 DEF Act, Unlock
<1>3. Printed' = Printed /\ Completed' = n /\ n \in 0 .. Len(screen) /\ Len(screen) \in Nat
  BY <1>2, CutMoves, PrintedStays, ScreenChunks DEF RefInv, IndInv
<1>4. w \in Nat /\ Written' = w
  BY <1>1, <1>3 DEF Written
<1>5. /\ Len(todo[p]) \in Nat /\ Len(text) = w + Len(todo[p])
      /\ \A i \in 1 .. w : text[i] = screen[n + i].chunk
  BY <1>3, UnderwayChunks DEF RefInv, IndInv
<1>6. PICK left : left = Underway(p)'
  OBVIOUS
<1>7. Len(left) = w /\ \A i \in 1 .. w : left[i] = text[i]
  <2>1. \A i \in 1 .. w : screen[n + i].chunk \in Chunk
    <3>1. ASSUME NEW i \in 1 .. w PROVE n + i \in 1 .. Len(screen)
      BY <1>3 DEF Written
    <3>2. QED
      BY <3>1, ScreenChunks DEF RefInv, IndInv
  <2>2. left = [i \in 1 .. w |-> screen[n + i].chunk]
    <3>1. Len(<<>>) = 0 /\ w + 0 = w
      BY <1>4, EmptySeq
    <3>2. left = [i \in 1 .. w + 0 |->
                     IF i <= w THEN screen[n + i].chunk ELSE <<>>[i - w]]
      BY <1>1, <1>3, <1>4, <1>6, <3>1 DEF Underway
    <3>3. QED
      BY <1>4, <3>1, <3>2
  <2>3. Len(left) = w /\ \A i \in 1 .. w : left[i] = screen[n + i].chunk
    BY <1>4, <2>1, <2>2, IsASeq, LenProperties
  <2>4. QED
    BY <1>5, <2>3
<1>8. PICK b \in BOOLEAN : Beginning(text, Text(e, b))
  <2>1. CASE failed
    BY <1>1, <2>1 DEF RefInv, PrintsALayout, Laid
  <2>2. CASE ~failed
    <3>1. text = Text(e, Shown!MidLine)
      BY <1>1, <2>2 DEF RefInv, PrintsALayout, Laid
    <3>2. Beginning(text, text)
      BY <1>4, <1>5 DEF Beginning
    <3>3. CASE Shown!MidLine
      <4>1. text = Text(e, TRUE)
        BY <3>1, <3>3 DEF Text, When
      <4>2. QED
        BY <3>2, <4>1
    <3>4. CASE ~Shown!MidLine
      <4>1. text = Text(e, FALSE)
        BY <3>1, <3>4 DEF Text, When
      <4>2. QED
        BY <3>2, <4>1
    <3>5. QED
      BY <3>3, <3>4
  <2>3. QED
    BY <2>1, <2>2
<1>9. PICK whole : whole = Text(e, b)
  OBVIOUS
<1>10. Len(text) <= Len(whole) /\ \A i \in 1 .. Len(text) : text[i] = whole[i]
  BY <1>8, <1>9 DEF Beginning
<1>11. Beginning(left, whole)
  <2>1. Len(whole) \in Nat
    <3>1. e \in Event
      BY <1>1, HolderHasEvent DEF RefInv, IndInv
    <3>2. QED
      BY <1>9, <3>1, TextType, LenProperties
  <2>2. w <= Len(text) /\ Len(text) \in Nat
    BY <1>4, <1>5
  <2>3. w <= Len(whole)
    BY <1>4, <1>10, <2>1, <2>2
  <2>4. \A i \in 1 .. w : i \in 1 .. Len(text)
    BY <1>4, <2>2
  <2>5. QED
    BY <1>7, <1>10, <2>3, <2>4 DEF Beginning
<1>12. Text(e, b)' = whole
  BY <1>3, <1>9, TextStays
<1>13. Beginning(Underway(p), Text(e, b))'
  BY <1>6, <1>11, <1>12 DEF Beginning
<1>14. QED
  BY <1>1, <1>13 DEF Laid

LEMMA StepLayout ==
    ASSUME RefInv, NEW p \in Publisher, Act(p)
    PROVE  PrintsALayout'
<1>1. ASSUME Unlock(p) PROVE mu' = {}
  BY <1>1 DEF Unlock, Released, RefInv, IndInv, Exclusive
<1>2. ASSUME Write(p) \/ WriteFails(p) PROVE mu' \subseteq {p}
  BY <1>2 DEF Write, WriteFails, RefInv, IndInv, Exclusive
<1>3. ASSUME Lock(p) PROVE mu' = {p}
  BY <1>3 DEF Lock, MutexFree
<1>4. CASE Publish(p)
  <2>1. p \notin mu /\ mu \subseteq Publisher /\ todo[p] = <<>>
    BY <1>4 DEF Publish, RefInv, IndInv, Exclusive, TypeOK
  <2>2. ~Unlock(p)
    BY <2>1 DEF Unlock
  <2>3. /\ mu' = mu /\ todo' = todo /\ screen' = screen /\ failed' = failed
        /\ Completed' = Completed /\ Printed' = Printed
    BY <1>4, <2>2, CutMoves, PrintedStays DEF Publish, RefInv
  <2>4. ASSUME NEW q \in mu PROVE Laid(q)'
    <3>1. event'[q] = event[q]
      BY <1>4, <2>1 DEF Publish, RefInv, IndInv, TypeOK
    <3>2. Underway(q)' = Underway(q)
      BY <2>3 DEF Underway, Written
    <3>3. QED
      BY <2>3, <3>1, <3>2, SameTextLaid DEF RefInv, PrintsALayout
  <2>5. QED
    BY <2>3, <2>4 DEF PrintsALayout
<1>5. QED
  BY <1>1, <1>2, <1>3, <1>4, LockLayout, WriteLayout, FailLayout DEF Act, PrintsALayout

-----------------------------------------------------------------------------
(* The refinement. *)

LEMMA InitRef == Init => RefInv /\ Shown!Init
<1> SUFFICES ASSUME Init PROVE RefInv /\ Shown!Init
  OBVIOUS
<1>1. IndInv
  BY InitInv
<1>2. screen = <<>> /\ Len(screen) = 0 /\ mu = {} /\ lastWasDelta = FALSE /\ failed = FALSE
  BY EmptySeq DEF Init
<1>3. Boundary(0)
  BY <1>2 DEF Boundary
<1>4. Completed = 0
  BY <1>2, <1>3, CutNow
<1>5. Boundary(Completed)
  BY <1>3, <1>4
<1>6. Printed = <<>>
  <2>1. Printed \in Seq(Chunk) /\ Len(Printed) = 0
    BY <1>1, <1>2, <1>4, PrintedChunks DEF IndInv
  <2>2. QED
    BY <2>1, EmptySeq
<1>7. PrintsALayout /\ FieldsAgree
  BY <1>2 DEF PrintsALayout, FieldsAgree
<1>8. QED
  BY <1>1, <1>2, <1>5, <1>6, <1>7 DEF RefInv, Shown!Init

LEMMA StepRef == RefInv /\ [Next]_vars => RefInv'
<1> SUFFICES ASSUME RefInv, [Next]_vars PROVE RefInv'
  OBVIOUS
<1>1. IndInv'
  BY StepInv DEF RefInv
<1>2. CASE UNCHANGED vars
  <2>1. UNCHANGED <<lastWasDelta, mu, event, todo, screen, failed>>
    BY <1>2 DEF vars
  <2>2. Completed' = Completed
    BY <2>1 DEF Completed, Settled, InProgress
  <2>3. Printed' = Printed /\ Boundary(Completed)'
    BY <2>1, <2>2 DEF Printed, RefInv, Boundary, InProgress
  <2>4. ASSUME NEW p \in mu PROVE Laid(p)'
    <3>1. Underway(p)' = Underway(p)
      BY <2>1, <2>2 DEF Underway, Written
    <3>2. QED
      BY <2>1, <2>3, <3>1, SameTextLaid DEF RefInv, PrintsALayout
  <2>5. FieldsAgree'
    BY <2>1 DEF RefInv, FieldsAgree
  <2>6. QED
    BY <1>1, <2>1, <2>3, <2>4, <2>5 DEF RefInv, PrintsALayout
<1>3. ASSUME NEW p \in Publisher, Act(p) PROVE RefInv'
  <2>1. Boundary(Completed)'
    BY <1>3, CutMoves DEF RefInv
  <2>2. QED
    BY <1>1, <1>3, <2>1, StepFields, StepLayout DEF RefInv
<1>4. QED
  BY <1>2, <1>3, NextStep

(* How an event is printed depends on its sort alone. *)
LEMMA OfItsSort ==
    ASSUME NEW e \in Event
    PROVE  \E sort \in Sort :
              /\ Shown!Whole(sort) = Text(e, Shown!MidLine)
              /\ Shown!Remains(sort) = Shown!Remains(e)
<1>1. PICK sort \in Sort, n \in 1 .. MaxEvents : e = Numbered(sort, n)
  BY DEF Event
<1>2. e.kind = sort.kind /\ e.blank = sort.blank
  BY <1>1 DEF Numbered
<1>3. Shown!Body(e) = Shown!Body(sort)
  BY <1>2 DEF Shown!Body
<1>4. Shown!StartsLine(e) <=> Shown!StartsLine(sort)
  BY <1>2 DEF Shown!StartsLine
<1>5. Shown!Whole(sort) = Text(e, Shown!MidLine)
  BY <1>3, <1>4 DEF Shown!Whole, Text, Shown!When, When
<1>6. Shown!Remains(sort) = Shown!Remains(e)
  BY <1>3, <1>4 DEF Shown!Remains, Shown!When
<1>7. QED
  BY <1>5, <1>6

(* An unlock shows the event; a failure is one; every other step is a stutter. *)
LEMMA StepRefines == RefInv /\ [Next]_vars => [Shown!Next]_Shown!vars
<1> SUFFICES ASSUME RefInv, [Next]_vars PROVE [Shown!Next]_Shown!vars
  OBVIOUS
<1>1. CASE UNCHANGED vars
  <2>1. UNCHANGED <<mu, event, screen, failed>>
    BY <1>1 DEF vars
  <2>2. Completed' = Completed
    BY <2>1 DEF Completed, Settled, InProgress
  <2>3. Printed' = Printed
    BY <2>1, <2>2 DEF Printed
  <2>4. QED
    BY <2>1, <2>3 DEF Shown!vars
<1>2. ASSUME NEW p \in Publisher, Act(p), ~Unlock(p) PROVE [Shown!Next]_Shown!vars
  <2>1. Printed' = Printed
    BY <1>2, PrintedStays DEF RefInv
  <2>2. failed' = failed \/ failed' = TRUE
    BY <1>2 DEF Act, Publish, Lock, Write, WriteFails
  <2>3. QED
    BY <2>1, <2>2 DEF Shown!vars, Shown!Next, Shown!Fail
<1>3. ASSUME NEW p \in Publisher, Unlock(p) PROVE [Shown!Next]_Shown!vars
  <2>1. p \in mu /\ failed' = failed
    BY <1>3 DEF Unlock
  <2>2. PICK e \in Event : e = event[p]
    BY <2>1, HolderHasEvent DEF RefInv, IndInv
  <2>3. PICK sort \in Sort :
            /\ Shown!Whole(sort) = Text(e, Shown!MidLine)
            /\ Shown!Remains(sort) = Shown!Remains(e)
    BY OfItsSort
  <2>4. sort \in Shown!Sort
    BY DEF Sort, Shown!Sort
  <2>5. Printed' = Printed \o Underway(p)
    BY <1>3, PrintedGrows DEF RefInv
  <2>6. Laid(p)
    BY <2>1 DEF RefInv, PrintsALayout
  <2>7. CASE ~failed
    <3>1. Printed' = Printed \o Shown!Whole(sort)
      BY <2>2, <2>3, <2>5, <2>6, <2>7 DEF Laid
    <3>2. QED
      BY <2>1, <2>4, <3>1 DEF Shown!Next, Shown!Show
  <2>8. CASE failed
    <3>1. PICK broken \in BOOLEAN : Beginning(Underway(p), Text(e, broken))
      BY <2>2, <2>6, <2>8 DEF Laid
    <3>2. Underway(p) \in Seq(Chunk)
      BY UnderwayChunks DEF RefInv, IndInv, Boundary
    <3>3. Underway(p) \in Shown!Remains(e)
      BY <3>1, <3>2, BeginningRemains
    <3>4. QED
      BY <2>1, <2>3, <2>4, <2>5, <2>8, <3>3 DEF Shown!Next, Shown!Show
  <2>9. QED
    BY <2>7, <2>8
<1>4. QED
  BY <1>1, <1>2, <1>3, NextStep DEF Act

(* Whatever the goroutines do and whichever writes of PublishEvent fail, the   *)
(* screen is one that a single reader of the events could have written.        *)
THEOREM PrintsAsTranscript == Spec => PrintsWholeEvents
<1>1. Init => RefInv /\ Shown!Init
  BY InitRef
<1>2. RefInv /\ [Next]_vars => RefInv'
  BY StepRef
<1>3. RefInv /\ [Next]_vars => [Shown!Next]_Shown!vars
  BY StepRefines
<1>4. QED
  BY <1>1, <1>2, <1>3, PTL DEF Spec, PrintsWholeEvents, Shown!Spec

===============================================================================
