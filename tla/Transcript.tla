------------------------------ MODULE Transcript ------------------------------
(***************************************************************************)
(* What the live view promises to who reads it: events are printed one     *)
(* after the other, each at once and as a whole, and how an event looks    *)
(* depends on nothing but the text that is already shown.  A label is      *)
(* printed when it is not there yet, and a line of text is ended before    *)
(* anything that has to start a line.                                      *)
(*                                                                         *)
(* Once a write to the terminal has failed, an event may be cut short, and *)
(* whether the line before it is ended is no longer promised.              *)
(***************************************************************************)
EXTENDS StreamEvents

VARIABLES
    shown,   \* the chunks of the events printed so far
    torn     \* whether a write has failed

vars == <<shown, torn>>

Init == shown = <<>> /\ torn = FALSE

Missing(label) == \A i \in DOMAIN shown : shown[i] # label

MidLine == shown # <<>> /\ shown[Len(shown)] \in Delta

(* What an event is printed as, the line break before it apart. *)
Body(e) ==
    CASE e.kind = "partial" /\ ~e.blank ->
             When(Missing("assistant label"), "assistant label") \o <<"assistant text">>
      [] e.kind = "thinking" /\ ~e.blank ->
             When(Missing("thinking label"), "thinking label") \o <<"thinking text">>
      [] e.kind = "call"    -> <<"call">> \o When(ShowToolArgs /\ ~e.blank, "detail")
      [] e.kind = "done"    -> <<"notice">> \o When(ShowToolResults /\ ~e.blank, "detail")
      [] e.kind = "execute" -> <<"notice">>
      [] e.kind = "error"   -> <<"error">>
      [] OTHER              -> <<>>

StartsLine(e) ==
    \/ e.kind \in {"call", "execute", "done", "error"}
    \/ e.kind = "thinking" /\ ~e.blank /\ Missing("thinking label")

Whole(e) == When(MidLine /\ StartsLine(e), "break") \o Body(e)

(* What can be left of an event after a failure. *)
Remains(e) ==
    LET full == {Body(e), When(StartsLine(e), "break") \o Body(e)}
    IN  UNION {{SubSeq(text, 1, n) : n \in 0 .. Len(text)} : text \in full}

Show(e) ==
    /\ \/ shown' = shown \o Whole(e)
       \/ torn /\ \E text \in Remains(e) : shown' = shown \o text
    /\ UNCHANGED torn

Fail == torn' = TRUE /\ UNCHANGED shown

Next == Fail \/ \E e \in Sort : Show(e)

Spec == Init /\ [][Next]_vars

===============================================================================
