---------------------------- MODULE StreamSinkProofs ----------------------------
(***************************************************************************)
(* Theorems about the streaming sink, for any number of publishers and     *)
(* events, whether or not writes fail: type correctness, whole events,     *)
(* text under its label, labels printed once and tool lines that start a   *)
(* line.                                                                   *)
(***************************************************************************)
EXTENDS StreamSink, SequenceTheorems, TLAPS

-----------------------------------------------------------------------------
(* The inductive invariant. *)

(* One publisher holds the mutex, the only one with writes left; two events *)
(* that are being published have different numbers.                         *)
Exclusive ==
    /\ \A p, q \in mu : p = q
    /\ \A p \in mu : event[p] # NoEvent
    /\ \A p \in Publisher : todo[p] # <<>> => p \in mu
    /\ \A p, q \in Publisher :
          event[p] # NoEvent /\ event[p].number = event[q].number => p = q
    /\ \A p \in Publisher : event[p].number <= published

(* Nothing of an event that waits is on the screen; what is there of the *)
(* event of the holder comes last.                                       *)
HoldersEventLast ==
    \A p \in Publisher, i \in DOMAIN screen :
        event[p] # NoEvent /\ screen[i].event = event[p].number =>
            /\ p \in mu
            /\ \A j \in i .. Len(screen) : screen[j].event = event[p].number

(* The fields of the sink say which labels are on the screen. *)
StartedMeansLabelled ==
    /\ assistantStarted <=> Onto({"assistant label"}) # {}
    /\ thinkingStarted <=> Onto({"thinking label"}) # {}

LineStart ==
    {<<"call">>, <<"call", "detail">>, <<"notice">>, <<"notice", "detail">>, <<"error">>}

BrokenLine ==
    {<<"break", "call">>, <<"break", "call", "detail">>, <<"break", "notice">>,
     <<"break", "notice", "detail">>, <<"break", "error">>}

(* What a publisher has left fits the fields: a label is missing, the label of *)
(* a delta is not, and what starts a line is not in the middle of one.         *)
Planned(left) ==
    \/ left = <<>>
    \/ left = <<"assistant label", "assistant text">> /\ ~assistantStarted
    \/ left = <<"assistant text">> /\ assistantStarted
    \/ left \in {<<"break", "thinking label", "thinking text">>,
                 <<"thinking label", "thinking text">>} /\ ~thinkingStarted
    \/ left = <<"thinking text">> /\ thinkingStarted
    \/ left \in BrokenLine
    \/ left \in LineStart \cup {<<"detail">>} /\ ~lastWasDelta

EverythingPlanned == \A p \in Publisher : Planned(todo[p])

(* A label or a delta is the last thing on out. *)
TextIsLast ==
    \E i \in Onto(Label \cup Delta) :
        \A j \in i + 1 .. Len(screen) : screen[j].chunk = "error"

(* The sink knows when it has left a line of text open. *)
KnowsOpenLine ==
    ~failed /\ TextIsLast =>
        \/ lastWasDelta
        \/ \E p \in mu : todo[p] # <<>> /\ Head(todo[p]) \in Delta

IndInv ==
    /\ TypeOK
    /\ Exclusive
    /\ HoldersEventLast
    /\ EventsWhole
    /\ StartedMeansLabelled
    /\ EverythingPlanned
    /\ KnowsOpenLine
    /\ TextAfterItsLabel
    /\ LabelsOnce
    /\ NoticesStartLines

-----------------------------------------------------------------------------
(* The plan of an event. *)

LEMMA TwoChunks ==
    ASSUME NEW a, NEW b
    PROVE  <<a>> \o <<b>> = <<a, b>>
<1> DEFINE S == {a, b}
<1>1. <<a>> \in Seq(S) /\ <<b>> \in Seq(S) /\ <<a, b>> \in Seq(S)
  OBVIOUS
<1> HIDE DEF S
<1>2. <<a>> \o <<b>> \in Seq(S) /\ Len(<<a>> \o <<b>>) = 2
  BY <1>1, ConcatProperties
<1>3. \A i \in 1 .. 2 : (<<a>> \o <<b>>)[i] = <<a, b>>[i]
  BY <1>1, ConcatProperties
<1>4. QED
  BY <1>1, <1>2, <1>3, SeqEqual

LEMMA ThreeChunks ==
    ASSUME NEW a, NEW b, NEW c
    PROVE  <<a, b>> \o <<c>> = <<a, b, c>>
<1> DEFINE S == {a, b, c}
<1>1. <<a, b>> \in Seq(S) /\ <<c>> \in Seq(S) /\ <<a, b, c>> \in Seq(S)
  OBVIOUS
<1> HIDE DEF S
<1>2. <<a, b>> \o <<c>> \in Seq(S) /\ Len(<<a, b>> \o <<c>>) = 3
  BY <1>1, ConcatProperties
<1>3. \A i \in 1 .. 3 : (<<a, b>> \o <<c>>)[i] = <<a, b, c>>[i]
  BY <1>1, ConcatProperties
<1>4. QED
  BY <1>1, <1>2, <1>3, SeqEqual

LEMMA NoChunk ==
    ASSUME NEW a
    PROVE  /\ <<>> \o <<a>> = <<a>> /\ <<a>> \o <<>> = <<a>>
           /\ \A b : <<a, b>> \o <<>> = <<a, b>> /\ <<>> \o <<a, b>> = <<a, b>>
OBVIOUS

(* A line break where it is needed, a chunk, and a detail where there is one. *)
LEMMA LinePlans ==
    ASSUME NEW c, NEW shows \in BOOLEAN, lastWasDelta \in BOOLEAN
    PROVE  /\ EnsureLineBreak \o <<c>> = IF lastWasDelta THEN <<"break", c>> ELSE <<c>>
           /\ EnsureLineBreak \o <<c>> \o When(shows, "detail")
                \in IF lastWasDelta THEN {<<"break", c>>, <<"break", c, "detail">>}
                   ELSE {<<c>>, <<c, "detail">>}
<1>1. EnsureLineBreak \o <<c>> = IF lastWasDelta THEN <<"break", c>> ELSE <<c>>
  <2>1. <<"break">> \o <<c>> = <<"break", c>> /\ <<>> \o <<c>> = <<c>>
    BY TwoChunks, NoChunk
  <2>2. QED
    BY <2>1 DEF EnsureLineBreak, When
<1>2. /\ When(shows, "detail") \in {<<>>, <<"detail">>}
      /\ <<c>> \o <<>> = <<c>> /\ <<"break", c>> \o <<>> = <<"break", c>>
      /\ <<c>> \o <<"detail">> = <<c, "detail">>
      /\ <<"break", c>> \o <<"detail">> = <<"break", c, "detail">>
  BY TwoChunks, ThreeChunks, NoChunk DEF When
<1>3. QED
  BY <1>1, <1>2

LEMMA DeltaPlanned ==
    ASSUME TypeOK, NEW blank \in BOOLEAN
    PROVE  Planned(WriteDelta(blank)) /\ Planned(WriteThinkingDelta(blank))
<1>1. {assistantStarted, thinkingStarted, lastWasDelta} \subseteq BOOLEAN
  BY DEF TypeOK
<1>2. /\ <<"assistant label">> \o <<"assistant text">>
           = <<"assistant label", "assistant text">>
      /\ <<"thinking label">> \o <<"thinking text">>
           = <<"thinking label", "thinking text">>
      /\ <<"break", "thinking label">> \o <<"thinking text">>
           = <<"break", "thinking label", "thinking text">>
      /\ <<>> \o <<"assistant text">> = <<"assistant text">>
      /\ <<>> \o <<"thinking text">> = <<"thinking text">>
  BY TwoChunks, ThreeChunks, NoChunk
<1>3. Planned(WriteDelta(blank))
  BY <1>1, <1>2 DEF WriteDelta, Planned, When
<1>4. EnsureLineBreak \o <<"thinking label">>
        \in {<<"break", "thinking label">>, <<"thinking label">>}
  BY <1>1, LinePlans
<1>5. Planned(WriteThinkingDelta(blank))
  BY <1>1, <1>2, <1>4 DEF WriteThinkingDelta, Planned
<1>6. QED
  BY <1>3, <1>5

LEMMA LinesPlanned ==
    ASSUME TypeOK, NEW blank \in BOOLEAN
    PROVE  /\ Planned(WriteToolCall(blank)) /\ Planned(WriteToolExecute)
           /\ Planned(WriteToolResult(blank)) /\ Planned(WriteError)
<1>1. lastWasDelta \in BOOLEAN /\ ShowToolArgs \in BOOLEAN /\ ShowToolResults \in BOOLEAN
  BY DetailsAssumption DEF TypeOK
<1>2. WriteToolCall(blank)
        \in IF lastWasDelta THEN {<<"break", "call">>, <<"break", "call", "detail">>}
           ELSE {<<"call">>, <<"call", "detail">>}
  BY <1>1, LinePlans DEF WriteToolCall
<1>3. WriteToolResult(blank)
        \in IF lastWasDelta THEN {<<"break", "notice">>, <<"break", "notice", "detail">>}
           ELSE {<<"notice">>, <<"notice", "detail">>}
  BY <1>1, LinePlans DEF WriteToolResult
<1>4. /\ WriteToolExecute = IF lastWasDelta THEN <<"break", "notice">> ELSE <<"notice">>
      /\ WriteError = IF lastWasDelta THEN <<"break", "error">> ELSE <<"error">>
  BY <1>1, LinePlans DEF WriteToolExecute, WriteError
<1>5. Planned(WriteToolCall(blank))
  BY <1>2 DEF Planned, BrokenLine, LineStart
<1>6. Planned(WriteToolResult(blank))
  BY <1>3 DEF Planned, BrokenLine, LineStart
<1>7. Planned(WriteToolExecute) /\ Planned(WriteError)
  BY <1>4 DEF Planned, BrokenLine, LineStart
<1>8. QED
  BY <1>5, <1>6, <1>7

LEMMA EventTypes ==
    ASSUME NEW e \in Event
    PROVE  e.blank \in BOOLEAN /\ e.number \in 1 .. MaxEvents
<1>1. PICK sort \in Sort, n \in 1 .. MaxEvents : e = Numbered(sort, n)
  BY DEF Event
<1>2. sort.blank \in BOOLEAN
  BY DEF Sort
<1>3. QED
  BY <1>1, <1>2 DEF Numbered

LEMMA WritesPlanned ==
    ASSUME TypeOK, NEW e \in Event
    PROVE  Planned(Writes(e))
<1>1. e.blank \in BOOLEAN
  BY EventTypes
<1>2. /\ Planned(WriteDelta(e.blank)) /\ Planned(WriteThinkingDelta(e.blank))
      /\ Planned(WriteToolCall(e.blank)) /\ Planned(WriteToolExecute)
      /\ Planned(WriteToolResult(e.blank)) /\ Planned(WriteError)
  BY <1>1, DeltaPlanned, LinesPlanned
<1>3. Planned(<<>>)
  BY DEF Planned
<1>4. QED
  BY <1>2, <1>3 DEF Writes

(* The next write, and what is left after it. *)
LEMMA NextWrite ==
    ASSUME NEW left, Planned(left), left # <<>>
    PROVE  LET chunk == Head(left)
               rest  == Tail(left)
           IN  \/ /\ chunk = "assistant label" /\ ~assistantStarted
                  /\ rest = <<"assistant text">>
               \/ chunk = "assistant text" /\ assistantStarted /\ rest = <<>>
               \/ /\ chunk = "thinking label" /\ ~thinkingStarted
                  /\ rest = <<"thinking text">>
               \/ chunk = "thinking text" /\ thinkingStarted /\ rest = <<>>
               \/ /\ chunk = "break"
                  /\ \/ rest = <<"thinking label", "thinking text">> /\ ~thinkingStarted
                     \/ rest \in LineStart
               \/ /\ chunk \in {"call", "notice", "detail", "error"} /\ ~lastWasDelta
                  /\ rest \in {<<>>, <<"detail">>}
<1> DEFINE First(s, chunk, rest) == Head(s) = chunk /\ Tail(s) = rest
<1>1. \A a : First(<<a>>, a, <<>>)
  OBVIOUS
<1>2. \A a, b : First(<<a, b>>, a, <<b>>)
  OBVIOUS
<1>3. \A a, b, c : First(<<a, b, c>>, a, <<b, c>>)
  OBVIOUS
<1> HIDE DEF First
<1>4. CASE left \in BrokenLine
  <2>1. PICK rest \in LineStart : First(left, "break", rest)
    BY <1>2, <1>3, <1>4 DEF BrokenLine, LineStart
  <2>2. QED
    BY <2>1 DEF First
<1>5. CASE left \in LineStart \cup {<<"detail">>} /\ ~lastWasDelta
  <2>1. PICK chunk \in {"call", "notice", "detail", "error"}, rest \in {<<>>, <<"detail">>} :
          First(left, chunk, rest)
    BY <1>1, <1>2, <1>5 DEF LineStart
  <2>2. QED
    BY <1>5, <2>1 DEF First
<1>6. CASE /\ left \notin BrokenLine
           /\ ~(left \in LineStart \cup {<<"detail">>} /\ ~lastWasDelta)
  <2>1. \/ First(left, "assistant label", <<"assistant text">>) /\ ~assistantStarted
        \/ First(left, "assistant text", <<>>) /\ assistantStarted
        \/ First(left, "break", <<"thinking label", "thinking text">>) /\ ~thinkingStarted
        \/ First(left, "thinking label", <<"thinking text">>) /\ ~thinkingStarted
        \/ First(left, "thinking text", <<>>) /\ thinkingStarted
    <3>1. /\ First(<<"assistant label", "assistant text">>, "assistant label",
                   <<"assistant text">>)
          /\ First(<<"assistant text">>, "assistant text", <<>>)
          /\ First(<<"break", "thinking label", "thinking text">>, "break",
                   <<"thinking label", "thinking text">>)
          /\ First(<<"thinking label", "thinking text">>, "thinking label",
                   <<"thinking text">>)
          /\ First(<<"thinking text">>, "thinking text", <<>>)
      BY <1>1, <1>2, <1>3
    <3>2. QED
      BY <1>6, <3>1, Zenon DEF Planned
  <2>2. QED
    BY <2>1 DEF First
<1>7. QED
  BY <1>4, <1>5, <1>6

-----------------------------------------------------------------------------
(* Types. *)

LEMMA InitTypes == Init => TypeOK
<1> SUFFICES ASSUME Init PROVE TypeOK
  OBVIOUS
<1>1. screen \in Seq([chunk: Chunk, event: 1 .. published])
  BY EmptySeq DEF Init
<1>2. todo \in [Publisher -> Seq(Chunk)]
  BY EmptySeq DEF Init
<1>3. event \in [Publisher -> Event \cup {NoEvent}]
  BY DEF Init
<1>4. published \in 0 .. MaxEvents
  BY SinkAssumption DEF Init
<1>5. /\ {assistantStarted, thinkingStarted, lastWasDelta, failed} \subseteq BOOLEAN
      /\ mu \subseteq Publisher
  BY DEF Init
<1>6. QED
  BY <1>1, <1>2, <1>3, <1>4, <1>5 DEF TypeOK

LEMMA WritesType ==
    ASSUME NEW left, Planned(left)
    PROVE  left \in Seq(Chunk)
<1>1. \A a, b, c \in Chunk : /\ <<>> \in Seq(Chunk) /\ <<a>> \in Seq(Chunk)
                            /\ <<a, b>> \in Seq(Chunk) /\ <<a, b, c>> \in Seq(Chunk)
  OBVIOUS
<1>2. {"assistant label", "assistant text", "thinking label", "thinking text", "break",
       "call", "notice", "detail", "error"} \subseteq Chunk
  BY DEF Chunk, Label, Delta
<1>3. /\ <<>> \in Seq(Chunk) /\ <<"call">> \in Seq(Chunk) /\ <<"notice">> \in Seq(Chunk)
      /\ <<"detail">> \in Seq(Chunk) /\ <<"error">> \in Seq(Chunk)
      /\ <<"call", "detail">> \in Seq(Chunk) /\ <<"notice", "detail">> \in Seq(Chunk)
  BY <1>1, <1>2
<1>4. /\ <<"break", "call">> \in Seq(Chunk) /\ <<"break", "notice">> \in Seq(Chunk)
      /\ <<"break", "error">> \in Seq(Chunk)
      /\ <<"break", "call", "detail">> \in Seq(Chunk)
      /\ <<"break", "notice", "detail">> \in Seq(Chunk)
  BY <1>1, <1>2
<1>5. /\ <<"assistant label", "assistant text">> \in Seq(Chunk)
      /\ <<"assistant text">> \in Seq(Chunk)
      /\ <<"break", "thinking label", "thinking text">> \in Seq(Chunk)
      /\ <<"thinking label", "thinking text">> \in Seq(Chunk)
      /\ <<"thinking text">> \in Seq(Chunk)
  BY <1>1, <1>2
<1>6. QED
  BY <1>3, <1>4, <1>5, Zenon DEF Planned, LineStart, BrokenLine

(* A write is printed at the end of the screen. *)
LEMMA WritePrints ==
    ASSUME TypeOK, Exclusive, NEW p \in Publisher, Write(p)
    PROVE  /\ p \in mu /\ event[p] \in Event /\ event[p].number \in 1 .. published
           /\ Head(todo[p]) \in Chunk /\ Tail(todo[p]) \in Seq(Chunk)
           /\ screen' \in Seq([chunk: Chunk, event: 1 .. published])
           /\ Len(screen) \in Nat /\ Len(screen') = Len(screen) + 1
           /\ DOMAIN screen = 1 .. Len(screen) /\ DOMAIN screen' = 1 .. Len(screen')
           /\ \A i \in 1 .. Len(screen) : screen'[i] = screen[i]
           /\ screen'[Len(screen')].chunk = Head(todo[p])
           /\ screen'[Len(screen')].event = event[p].number
<1>1. todo[p] \in Seq(Chunk) /\ todo[p] # <<>>
  BY DEF TypeOK, Write
<1>2. Head(todo[p]) \in Chunk /\ Tail(todo[p]) \in Seq(Chunk)
  BY <1>1, HeadTailProperties
<1>3. p \in mu /\ event[p] \in Event /\ event[p].number <= published
  BY <1>1 DEF Exclusive, TypeOK
<1>4. event[p].number \in 1 .. published
  BY <1>3 DEF Event, Numbered, TypeOK
<1> DEFINE record == [chunk |-> Head(todo[p]), event |-> event[p].number]
<1>5. record \in [chunk: Chunk, event: 1 .. published]
  BY <1>2, <1>4
<1>6. screen' = Append(screen, record)
  BY DEF Write
<1>7. record.chunk = Head(todo[p]) /\ record.event = event[p].number
  OBVIOUS
<1> HIDE DEF record
<1>8. /\ screen' \in Seq([chunk: Chunk, event: 1 .. published])
      /\ Len(screen) \in Nat /\ Len(screen') = Len(screen) + 1
      /\ \A i \in 1 .. Len(screen) : screen'[i] = screen[i]
      /\ screen'[Len(screen')] = record
      /\ DOMAIN screen = 1 .. Len(screen) /\ DOMAIN screen' = 1 .. Len(screen')
  BY <1>5, <1>6, AppendProperties, LenProperties DEF TypeOK
<1>9. QED
  BY <1>2, <1>3, <1>4, <1>7, <1>8

LEMMA StepTypes == TypeOK /\ Exclusive /\ [Next]_vars => TypeOK'
<1> SUFFICES ASSUME TypeOK, Exclusive, [Next]_vars PROVE TypeOK'
  OBVIOUS
<1>1. CASE UNCHANGED vars
  BY <1>1 DEF TypeOK, vars
<1>2. ASSUME NEW p \in Publisher, Publish(p) PROVE TypeOK'
  <2>1. /\ published' \in 0 .. MaxEvents /\ published \in 0 .. published'
        /\ published' \in 1 .. MaxEvents
    BY <1>2, SinkAssumption DEF TypeOK, Publish
  <2>2. PICK sort \in Sort : event' = [event EXCEPT ![p] = Numbered(sort, published')]
    BY <1>2 DEF Publish
  <2>3. Numbered(sort, published') \in Event
    BY <2>1 DEF Event
  <2>4. event' \in [Publisher -> Event \cup {NoEvent}]
    BY <2>2, <2>3 DEF TypeOK
  <2>5. screen \in Seq([chunk: Chunk, event: 1 .. published'])
    <3>1. [chunk: Chunk, event: 1 .. published]
            \subseteq [chunk: Chunk, event: 1 .. published']
      BY <2>1 DEF TypeOK
    <3>2. QED
      BY <3>1, SeqMonotonic DEF TypeOK
  <2>6. QED
    BY <1>2, <2>1, <2>4, <2>5 DEF TypeOK, Publish
<1>3. ASSUME NEW p \in Publisher, Lock(p) PROVE TypeOK'
  <2>1. event[p] \in Event
    BY <1>3 DEF TypeOK, Lock
  <2>2. Writes(event[p]) \in Seq(Chunk)
    BY <2>1, WritesPlanned, WritesType
  <2>3. QED
    BY <1>3, <2>2 DEF TypeOK, Lock
<1>4. ASSUME NEW p \in Publisher, Write(p) PROVE TypeOK'
  <2>1. /\ assistantStarted' \in BOOLEAN /\ thinkingStarted' \in BOOLEAN
        /\ lastWasDelta' \in BOOLEAN
    BY <1>4 DEF TypeOK, Write, AfterWrite
  <2>2. todo' \in [Publisher -> Seq(Chunk)]
    BY <1>4, WritePrints DEF TypeOK, Write
  <2>3. QED
    BY <1>4, <2>1, <2>2, WritePrints DEF TypeOK, Write
<1>5. ASSUME NEW p \in Publisher, WriteFails(p) PROVE TypeOK'
  <2>1. lastWasDelta' \in BOOLEAN /\ todo' \in [Publisher -> Seq(Chunk)]
    BY <1>5, EmptySeq DEF TypeOK, WriteFails, AfterWrite
  <2>2. QED
    BY <1>5, <2>1 DEF TypeOK, WriteFails
<1>6. ASSUME NEW p \in Publisher, Unlock(p) PROVE TypeOK'
  BY <1>6 DEF TypeOK, Unlock, Released
<1>7. QED
  BY <1>1, <1>2, <1>3, <1>4, <1>5, <1>6 DEF Next, Finished

-----------------------------------------------------------------------------
(* Mutual exclusion, and whole events. *)

Act(p) == Publish(p) \/ Lock(p) \/ Write(p) \/ WriteFails(p) \/ Unlock(p)

LEMMA NextStep ==
    ASSUME [Next]_vars
    PROVE  UNCHANGED vars \/ \E p \in Publisher : Act(p)
BY DEF Next, Finished, Act

LEMMA Numbers ==
    ASSUME TypeOK, NEW p \in Publisher
    PROVE  /\ event[p] = NoEvent => event[p].number = 0
           /\ event[p] # NoEvent => event[p] \in Event /\ event[p].number \in 1 .. MaxEvents
           /\ event[p].number \in Nat /\ published \in Nat
<1>1. event[p] \in Event \cup {NoEvent} /\ published \in Nat
  BY DEF TypeOK
<1>2. event[p] # NoEvent => event[p] \in Event /\ event[p].number \in 1 .. MaxEvents
  BY <1>1, EventTypes
<1>3. event[p] = NoEvent => event[p].number = 0
  BY DEF NoEvent
<1>4. QED
  BY <1>1, <1>2, <1>3

LEMMA StepExclusive ==
    ASSUME TypeOK, Exclusive, NEW p \in Publisher, Act(p)
    PROVE  Exclusive'
<1>1. CASE Publish(p)
  <2>1. PICK sort \in Sort : event' = [event EXCEPT ![p] = Numbered(sort, published')]
    BY <1>1 DEF Publish
  <2>2. /\ event'[p].number = published + 1
        /\ \A q \in Publisher : q # p => event'[q] = event[q]
        /\ published' = published + 1 /\ mu' = mu /\ todo' = todo /\ event[p] = NoEvent
    BY <1>1, <2>1 DEF Publish, Numbered, TypeOK
  <2>3. p \notin mu
    BY <2>2 DEF Exclusive
  <2>4. \A q \in Publisher : event[q].number < published + 1 /\ event[q].number \in Nat
    BY Numbers DEF Exclusive
  <2>5. published \in Nat /\ mu \subseteq Publisher
    BY DEF TypeOK
  <2>6. QED
    BY <2>2, <2>3, <2>4, <2>5 DEF Exclusive
<1>2. CASE Lock(p)
  BY <1>2 DEF Lock, MutexFree, Exclusive, TypeOK
<1>3. CASE Write(p) \/ WriteFails(p)
  <2>1. p \in mu /\ UNCHANGED <<mu, event, published>>
    BY <1>3 DEF Write, WriteFails, Exclusive
  <2>2. \A q \in Publisher : q # p => todo'[q] = todo[q]
    BY <1>3 DEF Write, WriteFails, TypeOK
  <2>3. QED
    BY <2>1, <2>2 DEF Exclusive
<1>4. CASE Unlock(p)
  <2>1. /\ mu' = mu \ {p} /\ todo' = todo /\ todo[p] = <<>> /\ published' = published
        /\ event' = [event EXCEPT ![p] = NoEvent]
    BY <1>4 DEF Unlock, Released
  <2>2. /\ event'[p] = NoEvent /\ NoEvent.number = 0
        /\ \A q \in Publisher : q # p => event'[q] = event[q]
    BY <2>1 DEF TypeOK, NoEvent
  <2>3. \A q \in Publisher : event[q] # NoEvent => event[q].number # 0
    BY Numbers
  <2>4. published \in Nat /\ mu \subseteq Publisher
    BY DEF TypeOK
  <2>5. QED
    BY <2>1, <2>2, <2>3, <2>4 DEF Exclusive
<1>5. QED
  BY <1>1, <1>2, <1>3, <1>4 DEF Act

LEMMA StepWhole ==
    ASSUME TypeOK, Exclusive, HoldersEventLast, EventsWhole, NEW p \in Publisher, Act(p)
    PROVE  HoldersEventLast' /\ EventsWhole'
<1>1. CASE Publish(p)
  <2>1. PICK sort \in Sort : event' = [event EXCEPT ![p] = Numbered(sort, published')]
    BY <1>1 DEF Publish
  <2>2. /\ event'[p].number = published + 1
        /\ \A q \in Publisher : q # p => event'[q] = event[q]
        /\ mu' = mu /\ screen' = screen
    BY <1>1, <2>1 DEF Publish, Numbered, TypeOK
  <2>3. \A i \in DOMAIN screen : screen[i].event \in 1 .. published
    <3>1. ASSUME NEW i \in DOMAIN screen
          PROVE  screen[i] \in [chunk: Chunk, event: 1 .. published]
      BY LenProperties, ElementOfSeq DEF TypeOK
    <3>2. QED
      BY <3>1
  <2>4. published \in Nat
    BY DEF TypeOK
  <2>5. QED
    BY <2>2, <2>3, <2>4 DEF HoldersEventLast, EventsWhole
<1>2. CASE Lock(p)
  BY <1>2 DEF Lock, HoldersEventLast, EventsWhole
<1>3. CASE Write(p)
  <2> DEFINE n == Len(screen)
             number == event[p].number
  <2>1. /\ n \in Nat /\ DOMAIN screen = 1 .. n /\ DOMAIN screen' = 1 .. n + 1
        /\ Len(screen') = n + 1
        /\ \A i \in 1 .. n : screen'[i] = screen[i]
        /\ screen'[n + 1].event = number /\ p \in mu
    BY <1>3, WritePrints
  <2>2. event' = event /\ mu' = mu
    BY <1>3 DEF Write
  <2>3. event[p] # NoEvent
    BY <2>1 DEF Exclusive
  <2>4. ASSUME NEW i \in 1 .. n, screen[i].event = number
        PROVE  \A j \in i .. n + 1 : screen'[j].event = number
    <3>1. \A j \in i .. n : screen[j].event = number
      BY <2>1, <2>3, <2>4 DEF HoldersEventLast
    <3>2. \A j \in i .. n + 1 : j = n + 1 \/ j \in i .. n
      BY <2>1
    <3>3. QED
      BY <2>1, <3>1, <3>2
  <2> HIDE DEF n, number
  <2>5. HoldersEventLast'
    <3> SUFFICES ASSUME NEW q \in Publisher, NEW i \in 1 .. n + 1, event[q] # NoEvent,
                        screen'[i].event = event[q].number
                 PROVE  q \in mu /\ \A j \in i .. n + 1 : screen'[j].event = event[q].number
      BY <2>1, <2>2 DEF HoldersEventLast
    <3>1. CASE i = n + 1
      BY <2>1, <2>3, <3>1 DEF Exclusive, number
    <3>2. CASE i \in 1 .. n
      <4>1. q \in mu
        BY <2>1, <3>2 DEF HoldersEventLast
      <4>2. q = p
        BY <2>1, <4>1 DEF Exclusive
      <4>3. QED
        BY <2>1, <2>4, <3>2, <4>1, <4>2 DEF number
    <3>3. QED
      BY <2>1, <3>1, <3>2
  <2>6. EventsWhole'
    <3> SUFFICES ASSUME NEW i \in 1 .. n + 1, NEW k \in 1 .. n + 1,
                        screen'[i].event = screen'[k].event, NEW j \in i .. k
                 PROVE  screen'[j].event = screen'[i].event
      BY <2>1 DEF EventsWhole
    <3>1. CASE k \in 1 .. n
      BY <2>1, <3>1 DEF EventsWhole
    <3>2. CASE k = n + 1 /\ i \in 1 .. n
      BY <2>1, <2>4, <3>2
    <3>3. CASE k = n + 1 /\ i = n + 1
      BY <2>1, <3>3
    <3>4. QED
      BY <2>1, <3>1, <3>2, <3>3
  <2>7. QED
    BY <2>5, <2>6
<1>4. CASE WriteFails(p)
  BY <1>4 DEF WriteFails, HoldersEventLast, EventsWhole
<1>5. CASE Unlock(p)
  <2>1. /\ \A q \in Publisher : q # p => event'[q] = event[q]
        /\ event'[p] = NoEvent /\ mu' = mu \ {p} /\ screen' = screen /\ p \in mu
    BY <1>5 DEF Unlock, Released, TypeOK
  <2>2. \A q \in mu : q = p
    BY <2>1 DEF Exclusive
  <2>3. QED
    BY <2>1, <2>2 DEF HoldersEventLast, EventsWhole
<1>6. QED
  BY <1>1, <1>2, <1>3, <1>4, <1>5 DEF Act

-----------------------------------------------------------------------------
(* Labels, and what is planned after a write. *)

LEMMA WriteOnto ==
    ASSUME TypeOK, Exclusive, NEW p \in Publisher, Write(p), NEW S
    PROVE  Onto(S)' = Onto(S) \cup (IF Head(todo[p]) \in S THEN {Len(screen) + 1} ELSE {})
BY WritePrints DEF Onto

(* How a write changes the fields. *)
LEMMA WriteFields ==
    ASSUME TypeOK, EverythingPlanned, NEW p \in Publisher, Write(p)
    PROVE  LET chunk == Head(todo[p])
               rest  == Tail(todo[p])
           IN  /\ assistantStarted' = (assistantStarted \/ chunk = "assistant label")
               /\ thinkingStarted' = (thinkingStarted \/ chunk = "thinking label")
               /\ chunk \in Delta => lastWasDelta'
               /\ chunk \in Label => lastWasDelta' = lastWasDelta
               /\ chunk \notin Delta \cup Label => lastWasDelta' = FALSE
               /\ todo'[p] = rest
               /\ \A q \in Publisher : q # p => todo'[q] = todo[q]
               /\ Planned(todo[p]) /\ todo[p] # <<>>
<1> DEFINE chunk == Head(todo[p])
<1>1. /\ assistantStarted' = (assistantStarted \/ chunk = "assistant label")
      /\ thinkingStarted' = (thinkingStarted \/ chunk = "thinking label")
      /\ AfterWrite(chunk) /\ todo' = [todo EXCEPT ![p] = Tail(@)] /\ todo[p] # <<>>
  BY DEF Write
<1>2. /\ todo'[p] = Tail(todo[p])
      /\ \A q \in Publisher : q # p => todo'[q] = todo[q]
  BY <1>1 DEF TypeOK
<1>3. Planned(todo[p])
  BY DEF EverythingPlanned
<1>4. /\ chunk \in Delta => lastWasDelta'
      /\ chunk \in Label => lastWasDelta' = lastWasDelta
      /\ chunk \notin Delta \cup Label => lastWasDelta' = FALSE
  BY <1>1 DEF AfterWrite, Label, Delta
<1>5. QED
  BY <1>1, <1>2, <1>3, <1>4

LEMMA StepPlanned ==
    ASSUME TypeOK, Exclusive, EverythingPlanned, NEW p \in Publisher, Act(p)
    PROVE  EverythingPlanned'
<1>1. Planned(<<>>)'
  BY DEF Planned
<1>2. CASE Publish(p) \/ Unlock(p)
  <2>1. UNCHANGED <<assistantStarted, thinkingStarted, lastWasDelta, todo>>
    BY <1>2 DEF Publish, Unlock
  <2>2. QED
    BY <2>1 DEF EverythingPlanned, Planned
<1>3. CASE Lock(p)
  <2>1. event[p] \in Event
    BY <1>3 DEF TypeOK, Lock
  <2>2. Planned(Writes(event[p]))
    BY <2>1, WritesPlanned
  <2>3. UNCHANGED <<assistantStarted, thinkingStarted, lastWasDelta>>
    BY <1>3 DEF Lock
  <2>4. \A q \in Publisher : Planned(todo'[q])
    BY <1>3, <2>2 DEF Lock, TypeOK, EverythingPlanned
  <2>5. QED
    BY <2>3, <2>4 DEF EverythingPlanned, Planned
<1>4. CASE Write(p)
  <2>1. \A q \in Publisher : q # p => todo'[q] = <<>>
    BY <1>4, WriteFields DEF Exclusive, Write
  <2> DEFINE chunk == Head(todo[p])
             rest  == Tail(todo[p])
  <2>2. /\ assistantStarted' = (assistantStarted \/ chunk = "assistant label")
        /\ thinkingStarted' = (thinkingStarted \/ chunk = "thinking label")
        /\ chunk \notin Delta \cup Label => lastWasDelta' = FALSE
        /\ todo'[p] = rest
    BY <1>4, WriteFields
  <2>3. \/ chunk = "assistant label" /\ rest = <<"assistant text">>
        \/ chunk = "assistant text" /\ rest = <<>>
        \/ chunk = "thinking label" /\ rest = <<"thinking text">>
        \/ chunk = "thinking text" /\ rest = <<>>
        \/ /\ chunk = "break" /\ ~thinkingStarted
           /\ rest = <<"thinking label", "thinking text">>
        \/ chunk = "break" /\ rest \in LineStart
        \/ chunk \in {"call", "notice", "detail", "error"} /\ rest \in {<<>>, <<"detail">>}
    <3>1. Planned(todo[p]) /\ todo[p] # <<>>
      BY <1>4, WriteFields
    <3>2. QED
      BY <3>1, NextWrite
  <2> HIDE DEF chunk, rest
  <2>4. Planned(todo[p])'
    <3>1. CASE chunk \notin Delta \cup Label /\ rest \in LineStart \cup {<<>>, <<"detail">>}
      BY <2>2, <3>1 DEF Planned
    <3>2. CASE rest \in {<<"assistant text">>, <<"thinking text">>, <<>>} /\ chunk # "break"
      BY <2>2, <2>3, <3>2 DEF Planned, Label, Delta
    <3>3. CASE chunk = "break" /\ ~thinkingStarted /\ rest = <<"thinking label", "thinking text">>
      BY <2>2, <3>3 DEF Planned
    <3>4. {"break", "call", "notice", "detail", "error"} \cap (Delta \cup Label) = {}
      BY DEF Delta, Label
    <3>5. QED
      BY <2>3, <3>1, <3>2, <3>3, <3>4
  <2>5. QED
    BY <1>1, <2>1, <2>2, <2>4 DEF EverythingPlanned, Planned
<1>5. CASE WriteFails(p)
  <2>1. \A q \in Publisher : todo'[q] = <<>>
    BY <1>5 DEF WriteFails, Exclusive, TypeOK
  <2>2. QED
    BY <2>1 DEF EverythingPlanned, Planned
<1>6. QED
  BY <1>2, <1>3, <1>4, <1>5 DEF Act

(* Only a write changes what is on the screen and which labels are. *)
LEMMA OthersKeepScreen ==
    ASSUME NEW p \in Publisher, Act(p), ~Write(p)
    PROVE  screen' = screen /\ UNCHANGED <<assistantStarted, thinkingStarted>>
BY DEF Act, Publish, Lock, WriteFails, Unlock

LEMMA StepLabels ==
    ASSUME TypeOK, Exclusive, EverythingPlanned, StartedMeansLabelled, LabelsOnce,
           TextAfterItsLabel, NEW p \in Publisher, Act(p)
    PROVE  StartedMeansLabelled' /\ LabelsOnce' /\ TextAfterItsLabel'
<1>1. CASE ~Write(p)
  BY <1>1, OthersKeepScreen DEF StartedMeansLabelled, LabelsOnce, TextAfterItsLabel, Onto
<1>2. CASE Write(p)
  <2> DEFINE chunk == Head(todo[p])
             n == Len(screen)
  <2>1. /\ assistantStarted' = (assistantStarted \/ chunk = "assistant label")
        /\ thinkingStarted' = (thinkingStarted \/ chunk = "thinking label")
        /\ Planned(todo[p]) /\ todo[p] # <<>>
    BY <1>2, WriteFields
  <2>2. /\ chunk = "assistant label" => ~assistantStarted
        /\ chunk = "thinking label" => ~thinkingStarted
        /\ chunk = "assistant text" => assistantStarted
        /\ chunk = "thinking text" => thinkingStarted
    BY <2>1, NextWrite
  <2>3. ASSUME NEW S
        PROVE  /\ Onto(S)' = Onto(S) \cup (IF chunk \in S THEN {n + 1} ELSE {})
               /\ \A i \in Onto(S) : i < n + 1 /\ i \in Nat
    <3>1. n \in Nat /\ DOMAIN screen = 1 .. n
      BY <1>2, WritePrints
    <3>2. QED
      BY <1>2, <3>1, WriteOnto DEF Onto
  <2> HIDE DEF chunk, n
  <2>4. StartedMeansLabelled'
    BY <2>1, <2>3 DEF StartedMeansLabelled
  <2>5. LabelsOnce'
    <3> SUFFICES ASSUME NEW l \in Label PROVE \A i, j \in Onto({l})' : i = j
      BY DEF LabelsOnce
    <3>1. chunk = l => Onto({l}) = {}
      BY <2>2 DEF StartedMeansLabelled, Label
    <3>2. QED
      BY <2>3, <3>1 DEF LabelsOnce
  <2>6. TextAfterItsLabel'
    <3>1. ASSUME NEW text, NEW label, chunk = text => Onto({label}) # {},
                 \A i \in Onto({text}) : \E j \in Onto({label}) : j < i
          PROVE  \A i \in Onto({text})' : \E j \in Onto({label})' : j < i
      <4>1. Onto({label}) \subseteq Onto({label})'
        BY <2>3
      <4>2. ASSUME NEW i \in Onto({text})' PROVE \E j \in Onto({label}) : j < i
        <5>1. CASE i \in Onto({text})
          BY <3>1, <5>1
        <5>2. CASE i = n + 1 /\ chunk = text
          BY <2>3, <3>1, <5>2
        <5>3. QED
          BY <2>3, <4>2, <5>1, <5>2
      <4>3. QED
        BY <4>1, <4>2
    <3>2. /\ chunk = "assistant text" => Onto({"assistant label"}) # {}
          /\ chunk = "thinking text" => Onto({"thinking label"}) # {}
      BY <2>2 DEF StartedMeansLabelled
    <3>3. QED
      BY <3>1, <3>2 DEF TextAfterItsLabel
  <2>7. QED
    BY <2>4, <2>5, <2>6
<1>3. QED
  BY <1>1, <1>2

-----------------------------------------------------------------------------
(* Lines. *)

LEMMA StepLines ==
    ASSUME TypeOK, Exclusive, EverythingPlanned, KnowsOpenLine, NoticesStartLines,
           NEW p \in Publisher, Act(p)
    PROVE  KnowsOpenLine' /\ NoticesStartLines'
<1>1. CASE Publish(p) \/ WriteFails(p)
  BY <1>1 DEF Publish, WriteFails, KnowsOpenLine, TextIsLast, NoticesStartLines, Onto
<1>2. CASE Lock(p) \/ Unlock(p)
  <2>1. /\ screen' = screen /\ failed' = failed /\ lastWasDelta' = lastWasDelta
        /\ mu = {} \/ (p \in mu /\ todo[p] = <<>>)
    BY <1>2 DEF Lock, Unlock, MutexFree
  <2>2. \A q \in mu : q = p
    BY <2>1 DEF Exclusive
  <2>3. ~failed /\ TextIsLast => lastWasDelta
    BY <2>1, <2>2 DEF KnowsOpenLine
  <2>4. QED
    BY <2>1, <2>3 DEF KnowsOpenLine, TextIsLast, NoticesStartLines, Onto
<1>3. CASE Write(p)
  <2> DEFINE chunk == Head(todo[p])
             n == Len(screen)
  <2>1. /\ n \in Nat /\ DOMAIN screen = 1 .. n /\ DOMAIN screen' = 1 .. n + 1
        /\ Len(screen') = n + 1 /\ p \in mu
        /\ \A i \in 1 .. n : screen'[i] = screen[i]
        /\ screen'[n + 1].chunk = chunk
    BY <1>3, WritePrints
  <2>2. /\ failed' = failed /\ mu' = mu /\ \A q \in mu : q = p
    BY <1>3, <2>1 DEF Write, Exclusive
  <2>3. /\ chunk \in Delta => lastWasDelta'
        /\ Planned(todo[p]) /\ todo[p] # <<>> /\ todo'[p] = Tail(todo[p])
    BY <1>3, WriteFields
  <2>4. /\ chunk \in {"notice", "detail", "error"} => ~lastWasDelta
        /\ chunk \in Label => todo'[p] \in {<<"assistant text">>, <<"thinking text">>}
    BY <2>3, NextWrite DEF Label
  <2>5. ~failed /\ chunk \in {"notice", "detail", "error"} => ~TextIsLast
    BY <2>2, <2>4 DEF KnowsOpenLine, Delta
  <2>6. ASSUME NEW S PROVE Onto(S)' = Onto(S) \cup (IF chunk \in S THEN {n + 1} ELSE {})
    BY <1>3, WriteOnto
  <2>7. ASSUME NEW S PROVE \A i \in Onto(S) : i \in 1 .. n
    BY <2>1 DEF Onto
  <2> HIDE DEF chunk, n
  <2>8. KnowsOpenLine'
    <3> SUFFICES ASSUME ~failed, TextIsLast'
                 PROVE  lastWasDelta' \/ (todo'[p] # <<>> /\ Head(todo'[p]) \in Delta)
      BY <2>1, <2>2 DEF KnowsOpenLine
    <3>1. CASE chunk \in Delta
      BY <2>3, <3>1
    <3>2. CASE chunk \in Label
      <4>1. \A a : Head(<<a>>) = a /\ <<a>> # <<>>
        OBVIOUS
      <4>2. QED
        BY <2>4, <3>2, <4>1 DEF Delta
    <3>3. CASE chunk \notin Delta \cup Label
      <4>1. PICK i \in Onto(Label \cup Delta)' :
              \A j \in i + 1 .. n + 1 : screen'[j].chunk = "error"
        BY <2>1 DEF TextIsLast
      <4>2. i \in Onto(Label \cup Delta) /\ i \in 1 .. n
        BY <2>6, <2>7, <3>3, <4>1
      <4>3. chunk = "error"
        BY <2>1, <4>1, <4>2
      <4>4. \A j \in i + 1 .. n : screen[j].chunk = "error"
        BY <2>1, <4>1, <4>2
      <4>5. QED
        BY <2>5, <4>2, <4>3, <4>4 DEF TextIsLast, n
    <3>4. QED
      BY <3>1, <3>2, <3>3
  <2>9. NoticesStartLines'
    <3> SUFFICES ASSUME ~failed, NEW i \in Onto(Label \cup Delta)',
                        NEW k \in Onto({"notice", "detail"})', i < k
                 PROVE  \E j \in i + 1 .. k - 1 : screen'[j].chunk # "error"
      BY <2>2 DEF NoticesStartLines
    <3>1. i \in 1 .. n + 1 /\ k \in 1 .. n + 1
      BY <2>1 DEF Onto
    <3>2. i \in 1 .. n /\ i \in Onto(Label \cup Delta)
      BY <2>1, <2>6, <3>1
    <3>3. CASE k \in Onto({"notice", "detail"})
      <4>1. PICK j \in i + 1 .. k - 1 : screen[j].chunk # "error"
        BY <3>2, <3>3 DEF NoticesStartLines
      <4>2. j \in 1 .. n
        BY <2>1, <2>7, <3>1, <3>3, <4>1
      <4>3. QED
        BY <2>1, <4>1, <4>2
    <3>4. CASE k \notin Onto({"notice", "detail"})
      <4>1. k = n + 1 /\ chunk \in {"notice", "detail"}
        BY <2>6, <3>4
      <4>2. PICK j \in i + 1 .. n : screen[j].chunk # "error"
        BY <2>5, <3>2, <4>1 DEF TextIsLast, n
      <4>3. j \in 1 .. n /\ j \in i + 1 .. k - 1
        BY <2>1, <3>2, <4>1, <4>2
      <4>4. QED
        BY <2>1, <4>2, <4>3
    <3>5. QED
      BY <3>3, <3>4
  <2>10. QED
    BY <2>8, <2>9
<1>4. QED
  BY <1>1, <1>2, <1>3 DEF Act

-----------------------------------------------------------------------------
(* The theorems. *)

LEMMA InitInv == Init => IndInv
<1> SUFFICES ASSUME Init PROVE IndInv
  OBVIOUS
<1>1. DOMAIN screen = {} /\ \A S : Onto(S) = {}
  BY EmptySeq DEF Init, Onto
<1>2. Exclusive
  BY DEF Init, Exclusive, NoEvent
<1>3. EverythingPlanned
  BY DEF Init, EverythingPlanned, Planned
<1>4. HoldersEventLast /\ EventsWhole
  BY <1>1 DEF HoldersEventLast, EventsWhole
<1>5. StartedMeansLabelled /\ TextAfterItsLabel /\ LabelsOnce
  BY <1>1 DEF Init, StartedMeansLabelled, TextAfterItsLabel, LabelsOnce
<1>6. KnowsOpenLine /\ NoticesStartLines
  BY <1>1 DEF KnowsOpenLine, TextIsLast, NoticesStartLines
<1>7. QED
  BY <1>2, <1>3, <1>4, <1>5, <1>6, InitTypes DEF IndInv

LEMMA StepInv == IndInv /\ [Next]_vars => IndInv'
<1> SUFFICES ASSUME IndInv, [Next]_vars PROVE IndInv'
  OBVIOUS
<1>1. TypeOK'
  BY StepTypes DEF IndInv
<1>2. CASE UNCHANGED vars
  <2>1. UNCHANGED <<assistantStarted, thinkingStarted, lastWasDelta, mu, event, todo,
                    screen, published, failed>>
    BY <1>2 DEF vars
  <2>2. Exclusive' /\ HoldersEventLast' /\ EventsWhole'
    BY <2>1 DEF IndInv, Exclusive, HoldersEventLast, EventsWhole
  <2>3. EverythingPlanned'
    BY <2>1 DEF IndInv, EverythingPlanned, Planned
  <2>4. \A S : Onto(S)' = Onto(S)
    BY <2>1 DEF Onto
  <2>5. StartedMeansLabelled' /\ TextAfterItsLabel' /\ LabelsOnce'
    BY <2>1, <2>4 DEF IndInv, StartedMeansLabelled, TextAfterItsLabel, LabelsOnce
  <2>6. KnowsOpenLine' /\ NoticesStartLines'
    BY <2>1, <2>4 DEF IndInv, KnowsOpenLine, TextIsLast, NoticesStartLines
  <2>7. QED
    BY <1>1, <2>2, <2>3, <2>5, <2>6 DEF IndInv
<1>3. CASE \E p \in Publisher : Act(p)
  <2>1. Exclusive' /\ EverythingPlanned'
    BY <1>3, StepExclusive, StepPlanned DEF IndInv
  <2>2. HoldersEventLast' /\ EventsWhole'
    BY <1>3, StepWhole DEF IndInv
  <2>3. StartedMeansLabelled' /\ LabelsOnce' /\ TextAfterItsLabel'
    BY <1>3, StepLabels DEF IndInv
  <2>4. KnowsOpenLine' /\ NoticesStartLines'
    BY <1>3, StepLines DEF IndInv
  <2>5. QED
    BY <1>1, <2>1, <2>2, <2>3, <2>4 DEF IndInv
<1>4. QED
  BY <1>2, <1>3, NextStep

LEMMA InvHolds == Spec => []IndInv
BY InitInv, StepInv, PTL DEF Spec

(* The fields, the plans and the screen have their types. *)
THEOREM SinkTypeCorrect == Spec => []TypeOK
<1>1. IndInv => TypeOK
  BY DEF IndInv
<1>2. QED
  BY <1>1, InvHolds, PTL

(* The mutex of the sink keeps the writes of one event together, however many *)
(* goroutines publish (PublishEvent).                                         *)
THEOREM NoEventCut == Spec => []EventsWhole
<1>1. IndInv => EventsWhole
  BY DEF IndInv
<1>2. QED
  BY <1>1, InvHolds, PTL

(* A label is printed once, although its write can fail and be repeated with *)
(* the next delta (writeDelta and writeThinkingDelta).                       *)
THEOREM LabelsNotRepeated == Spec => []LabelsOnce
<1>1. IndInv => LabelsOnce
  BY DEF IndInv
<1>2. QED
  BY <1>1, InvHolds, PTL

(* Text comes after its label even when writes fail: a delta is not printed *)
(* when the write of its label has failed.                                  *)
THEOREM TextFollowsItsLabel == Spec => []TextAfterItsLabel
<1>1. IndInv => TextAfterItsLabel
  BY DEF IndInv
<1>2. QED
  BY <1>1, InvHolds, PTL

(* Until a write fails, a tool line never continues a line of text           *)
(* (ensureLineBreak and lastWasDelta, over all the handlers).                *)
THEOREM ToolLinesStartLines == Spec => []NoticesStartLines
<1>1. IndInv => NoticesStartLines
  BY DEF IndInv
<1>2. QED
  BY <1>1, InvHolds, PTL

===============================================================================
