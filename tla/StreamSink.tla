------------------------------ MODULE StreamSink ------------------------------
(***************************************************************************)
(* The live view of one prompt: stdoutStreamSink of cmd/chat/              *)
(* stream_stdout.go, which prints the events of a run while it goes on.    *)
(* The provider's stream and the tool executor publish from goroutines of  *)
(* their own; the mutex of the sink orders them.                           *)
(*                                                                         *)
(* A handler is a sequence of writes to the terminal, each a step, each of *)
(* which may fail and then ends the handler.                               *)
(***************************************************************************)
EXTENDS StreamEvents

CONSTANTS
    Publisher,        \* goroutines that publish events
    Unreliable,       \* whether a write to the terminal can fail
    MaxEvents         \* bound: events published in the prompt

ASSUME SinkAssumption ==
    /\ Unreliable \in BOOLEAN
    /\ MaxEvents \in Nat

VARIABLES
    assistantStarted, thinkingStarted, lastWasDelta,   \* fields of the sink
    mu,          \* the holders of the mutex
    event,       \* the event each publisher is publishing, or NoEvent
    todo,        \* the writes each publisher has left
    screen,      \* what was written, each chunk with its event's number
    published,   \* events published so far
    failed       \* history: whether a write has failed

vars == <<assistantStarted, thinkingStarted, lastWasDelta, mu, event, todo,
          screen, published, failed>>

NoEvent == [kind |-> "none", blank |-> FALSE, number |-> 0]

Numbered(sort, n) == [kind |-> sort.kind, blank |-> sort.blank, number |-> n]

Event == {Numbered(sort, n) : sort \in Sort, n \in 1 .. MaxEvents}

TypeOK ==
    /\ {assistantStarted, thinkingStarted, lastWasDelta, failed} \subseteq BOOLEAN
    /\ mu \subseteq Publisher
    /\ event \in [Publisher -> Event \cup {NoEvent}]
    /\ todo \in [Publisher -> Seq(Chunk)]
    /\ screen \in Seq([chunk: Chunk, event: 1 .. published])
    /\ published \in 0 .. MaxEvents

-----------------------------------------------------------------------------

EnsureLineBreak == When(lastWasDelta, "break")

(* Mutant: the label only where the line is not already one of text. *)
WriteDeltaLabelAtLineStart(blank) ==
    IF blank THEN <<>>
    ELSE When(~assistantStarted /\ ~lastWasDelta, "assistant label")
           \o <<"assistant text">>

WriteDelta(blank) ==
    IF blank THEN <<>>
    ELSE When(~assistantStarted, "assistant label") \o <<"assistant text">>

(* Mutant: a new label whenever the line of text was ended. *)
WriteThinkingDeltaRelabelled(blank) ==
    IF blank THEN <<>>
    ELSE IF thinkingStarted /\ lastWasDelta THEN <<"thinking text">>
    ELSE EnsureLineBreak \o <<"thinking label", "thinking text">>

WriteThinkingDelta(blank) ==
    IF blank THEN <<>>
    ELSE (IF thinkingStarted THEN <<>>
          ELSE EnsureLineBreak \o <<"thinking label">>) \o <<"thinking text">>

WriteToolCall(blank) ==
    EnsureLineBreak \o <<"call">> \o When(ShowToolArgs /\ ~blank, "detail")

(* Mutant: the line is not ended first. *)
WriteToolExecuteInline == <<"notice">>

WriteToolExecute == EnsureLineBreak \o <<"notice">>

WriteToolResult(blank) ==
    EnsureLineBreak \o <<"notice">> \o When(ShowToolResults /\ ~blank, "detail")

(* Mutant: a chunk that is none of the sink's. *)
WriteErrorUnknown == <<"fatal">>

WriteError == EnsureLineBreak \o <<"error">>

(* PublishEvent's dispatch.  The writes are fixed when the mutex is taken: *)
(* only its holder changes the fields they depend on.                      *)
Writes(e) ==
    CASE e.kind = "partial"            -> WriteDelta(e.blank)
      [] e.kind = "thinking"           -> WriteThinkingDelta(e.blank)
      [] e.kind = "call"               -> WriteToolCall(e.blank)
      [] e.kind = "execute"            -> WriteToolExecute
      [] e.kind = "done"               -> WriteToolResult(e.blank)
      [] e.kind = "error"              -> WriteError
      [] OTHER                         -> <<>>

(* lastWasDelta is assigned whether or not the write succeeds. *)
AfterWrite(chunk) ==
    lastWasDelta' = CASE chunk \in Delta -> TRUE
                      [] chunk \in Label -> lastWasDelta
                      [] OTHER           -> FALSE

(* A new sink for every prompt. *)
Init ==
    /\ assistantStarted = FALSE
    /\ thinkingStarted = FALSE
    /\ lastWasDelta = FALSE
    /\ mu = {}
    /\ event = [p \in Publisher |-> NoEvent]
    /\ todo = [p \in Publisher |-> <<>>]
    /\ screen = <<>>
    /\ published = 0
    /\ failed = FALSE

(* Mutant: events are not serialised. *)
MutexIgnored == TRUE

MutexFree == mu = {}

(* Mutant: the unlock is not deferred, and an early return keeps the mutex. *)
ReleasedUnlessFailed(p) == IF failed THEN mu ELSE mu \ {p}

Released(p) == mu \ {p}

(* A goroutine calls PublishEvent. *)
Publish(p) ==
    /\ event[p] = NoEvent
    /\ published < MaxEvents
    /\ published' = published + 1
    /\ \E sort \in Sort : event' = [event EXCEPT ![p] = Numbered(sort, published')]
    /\ UNCHANGED <<assistantStarted, thinkingStarted, lastWasDelta, mu, todo,
                   screen, failed>>

Lock(p) ==
    /\ event[p] # NoEvent
    /\ p \notin mu
    /\ MutexFree
    /\ mu' = mu \cup {p}
    /\ todo' = [todo EXCEPT ![p] = Writes(event[p])]
    /\ UNCHANGED <<assistantStarted, thinkingStarted, lastWasDelta, event, screen,
                   published, failed>>

Write(p) ==
    /\ todo[p] # <<>>
    /\ LET chunk == Head(todo[p]) IN
         /\ screen' = Append(screen, [chunk |-> chunk, event |-> event[p].number])
         /\ assistantStarted' = (assistantStarted \/ chunk = "assistant label")
         /\ thinkingStarted' = (thinkingStarted \/ chunk = "thinking label")
         /\ AfterWrite(chunk)
    /\ todo' = [todo EXCEPT ![p] = Tail(@)]
    /\ UNCHANGED <<mu, event, published, failed>>

(* The error is returned at once: the rest of the event is not written.  What *)
(* part of the chunk reached the terminal is not on the screen of the model.  *)
WriteFails(p) ==
    /\ Unreliable
    /\ todo[p] # <<>>
    /\ AfterWrite(Head(todo[p]))
    /\ todo' = [todo EXCEPT ![p] = <<>>]
    /\ failed' = TRUE
    /\ UNCHANGED <<assistantStarted, thinkingStarted, mu, event, screen, published>>

(* The deferred unlock, and PublishEvent returns. *)
Unlock(p) ==
    /\ p \in mu
    /\ todo[p] = <<>>
    /\ mu' = Released(p)
    /\ event' = [event EXCEPT ![p] = NoEvent]
    /\ UNCHANGED <<assistantStarted, thinkingStarted, lastWasDelta, todo, screen,
                   published, failed>>

(* The run is over: no goroutine is left with an event. *)
Finished ==
    /\ published = MaxEvents
    /\ \A p \in Publisher : event[p] = NoEvent
    /\ UNCHANGED vars

Next ==
    \/ \E p \in Publisher :
          Publish(p) \/ Lock(p) \/ Write(p) \/ WriteFails(p) \/ Unlock(p)
    \/ Finished

Spec == Init /\ [][Next]_vars

(* A write to the terminal returns, and a goroutine that waits for the mutex *)
(* gets it: sync.Mutex hands itself over to a waiter that starves.           *)
FairSpec ==
    Spec /\ \A p \in Publisher :
              /\ SF_vars(Lock(p))
              /\ WF_vars(Write(p) \/ WriteFails(p) \/ Unlock(p))

-----------------------------------------------------------------------------

Onto(chunks) == {i \in DOMAIN screen : screen[i].chunk \in chunks}

(* Whatever the goroutines do, no event is printed into the middle of another. *)
EventsWhole ==
    \A i, k \in DOMAIN screen :
        screen[i].event = screen[k].event =>
            \A j \in i .. k : screen[j].event = screen[i].event

(* A delta is never printed before the label of its kind: a label whose write *)
(* failed is written again by the next delta.                                 *)
TextAfterItsLabel ==
    /\ \A i \in Onto({"assistant text"}) :
         \E j \in Onto({"assistant label"}) : j < i
    /\ \A i \in Onto({"thinking text"}) :
         \E j \in Onto({"thinking label"}) : j < i

(* Each label is printed once in a prompt, by whichever goroutine is first. *)
LabelsOnce ==
    \A l \in Label : \A i, j \in Onto({l}) : i = j

(* As long as every write succeeds, a tool line or a detail starts a line of  *)
(* its own: on out (the error lines go to errOut) something that ended in a   *)
(* newline was printed between a label or a delta and any later one of them.  *)
NoticesStartLines ==
    ~failed =>
        \A i \in Onto(Label \cup Delta), k \in Onto({"notice", "detail"}) :
            i < k => \E j \in i + 1 .. k - 1 : screen[j].chunk # "error"

(* Thinking is printed under its own label (help topic internals: a thinking *)
(* partial is printed as "thinking: ...").                                   *)
ThinkingUnderItsLabel ==
    \A i \in Onto({"thinking text"}) :
        \E j \in Onto({"thinking label"}) :
            j < i /\ \A k \in Onto(Label) : k < i => k <= j

(* A publisher is never left waiting for the sink, whatever failed before. *)
PublishReturns ==
    \A p \in Publisher : event[p] # NoEvent ~> event[p] = NoEvent

===============================================================================
