-------------------------- MODULE StreamSinkRefinement --------------------------
(***************************************************************************)
(* StreamSink implements Transcript: with the mutex, the many writes of an *)
(* event take effect at once when it is unlocked.                          *)
(***************************************************************************)
EXTENDS StreamSink

InProgress(number) == \E p \in mu : event[p].number = number

Settled == {n \in 0 .. Len(screen) : \A i \in 1 .. n : ~InProgress(screen[i].event)}

(* What is on the screen before the event that is being printed. *)
Completed == CHOOSE n \in Settled : \A m \in Settled : m <= n

Printed == [i \in 1 .. Completed |-> screen[i].chunk]

Shown == INSTANCE Transcript WITH shown <- Printed, torn <- failed

(* Whatever the goroutines do and whichever writes fail, the screen is one    *)
(* that a single reader of the events could have written: each event whole,   *)
(* labelled and broken as the text before it asks for (the sink's fields      *)
(* never disagree with what they stand for).                                  *)
PrintsWholeEvents == Shown!Spec

===============================================================================
