----------------------------- MODULE StreamEvents -----------------------------
(***************************************************************************)
(* The events of one prompt and the pieces of text they are printed as, by *)
(* stdoutStreamSink of cmd/chat/stream_stdout.go.  A chunk is one write:   *)
(*   "break"            a lone newline, from ensureLineBreak               *)
(*   "assistant label"  \nassistant:      "assistant text"  a delta        *)
(*   "thinking label"   \nthinking:       "thinking text"   a delta        *)
(*   "call"             \n[tool .. call ..]\n                              *)
(*   "notice"           [tool .. running|done|result ..]\n                 *)
(*   "detail"           expanded arguments or results, ending in a newline *)
(*   "error"            \n[error] ..\n, the only one written to errOut     *)
(* Names, identifiers and the text of deltas are left out; how a detail is *)
(* shortened is modelled in TextPreview.                                   *)
(***************************************************************************)
EXTENDS Naturals, Sequences

CONSTANTS
    ShowToolArgs,     \* --stream-tool-details, for calls
    ShowToolResults   \* --stream-tool-details, for results

ASSUME DetailsAssumption == {ShowToolArgs, ShowToolResults} \subseteq BOOLEAN

Label == {"assistant label", "thinking label"}

Delta == {"assistant text", "thinking text"}

Chunk == Label \cup Delta \cup {"break", "call", "notice", "detail", "error"}

(* blank: the delta is empty, or the arguments or the result are blank.      *)
(* "done" stands for EventToolCallExecutionResult and EventToolResult, whose *)
(* handlers differ in one word; "other" for any other type, which is ignored.*)
Sort == [kind: {"partial", "thinking", "call", "done"}, blank: BOOLEAN]
          \cup [kind: {"execute", "error", "other"}, blank: {FALSE}]

When(condition, chunk) == IF condition THEN <<chunk>> ELSE <<>>

===============================================================================
