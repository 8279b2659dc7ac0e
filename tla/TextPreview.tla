----------------------------- MODULE TextPreview -----------------------------
(***************************************************************************)
(* How long texts are shortened for display: truncateOneLine and           *)
(* truncateMultiline of cmd/chat/stream_stdout.go, the details of a tool   *)
(* call that are put together from them, and preview of cmd/chat/          *)
(* inspect.go, which is truncateOneLine again.                             *)
(*                                                                         *)
(* A text is a sequence of characters, but len and the slice expression    *)
(* count bytes, so what a cut leaves depends on the widths of the          *)
(* characters in UTF-8.  The state is an input, typed one character at a   *)
(* time; the functions are operators on it.                                *)
(***************************************************************************)
EXTENDS Integers, SequencesExt

CONSTANTS
    Character,   \* the characters of the texts
    Width,       \* [Character -> 1 .. 4], their bytes in UTF-8
    Space,       \* the characters that unicode.IsSpace accepts
    Blank,       \* the one that joins fields
    LineEnd,
    Limit,       \* limits to try, values of --stream-max-preview-chars among them
    DefaultLimit,
    MaxLength    \* bound: characters in a text

Ellipsis == "..."   \* U+2026

Broken == "broken"  \* a byte that is not part of a whole character

(* What the functions put into a preview that is not of the text is no space. *)
ASSUME PreviewAssumption ==
    /\ Space \subseteq Character
    /\ {Blank, LineEnd} \subseteq Space
    /\ Blank # LineEnd
    /\ Space \cap {Ellipsis, Broken, "args: ", "result: "} = {}
    /\ Width \in [Character -> 1 .. 4]
    /\ Width[Blank] = 1
    /\ Limit \subseteq Int
    /\ DefaultLimit \in Nat \ {0}
    /\ MaxLength \in Nat

VARIABLES text, limit

vars == <<text, limit>>

-----------------------------------------------------------------------------

(* len of a string. *)
Bytes(t) == FoldLeft(LAMBDA n, c : n + Width[c], 0, t)

(* strings.Join(strings.Fields(t), " "): a blank is due before the next *)
(* character of a field when space has ended the field before it.       *)
JoinFields(t) ==
    FoldLeft(LAMBDA acc, c :
                IF c \in Space THEN [acc EXCEPT !.due = acc.words # <<>>]
                ELSE [words |-> acc.words \o (IF acc.due THEN <<Blank, c>> ELSE <<c>>),
                      due |-> FALSE],
             [words |-> <<>>, due |-> FALSE], t).words

TrimSpace(t) ==
    LET solid == {i \in DOMAIN t : t[i] \notin Space} IN
    IF solid = {} THEN <<>> ELSE SubSeq(t, Min(solid), Max(solid))

(* t[:n], for n bytes of a longer text: the bytes of the character that the *)
(* cut goes through are left over.                                          *)
Slice(t, n) ==
    LET whole == Max({k \in 0 .. Len(t) : Bytes(SubSeq(t, 1, k)) <= n})
        left  == n - Bytes(SubSeq(t, 1, whole))
    IN  SubSeq(t, 1, whole) \o [i \in 1 .. left |-> Broken]

(* Mutant: the ellipsis is not counted. *)
ShortenBeyond(t, n) ==
    IF n <= 0 \/ Bytes(t) <= n THEN t
    ELSE IF n <= 1             THEN <<Ellipsis>>
    ELSE Slice(t, n) \o <<Ellipsis>>

(* Mutant: a text that just fits is shortened. *)
ShortenEarly(t, n) ==
    IF n <= 0 \/ Bytes(t) < n THEN t
    ELSE IF n <= 1            THEN <<Ellipsis>>
    ELSE Slice(t, n - 1) \o <<Ellipsis>>

Shorten(t, n) ==
    IF n <= 0 \/ Bytes(t) <= n THEN t
    ELSE IF n <= 1             THEN <<Ellipsis>>
    ELSE Slice(t, n - 1) \o <<Ellipsis>>

(* Mutant: the line ends are left in. *)
TruncateOneLineRaw(t, n) == Shorten(TrimSpace(t), n)

TruncateOneLine(t, n) == Shorten(JoinFields(t), n)

TruncateMultiline(t, n) == Shorten(TrimSpace(t), n)

(* Mutant: a flag that is not positive means no limit. *)
PreviewLimitRaw(flag) == flag

(* newStdoutStreamSink: a flag that is not positive means the default. *)
PreviewLimit(flag) == IF flag <= 0 THEN DefaultLimit ELSE flag

(* A part of several lines under its heading. *)
Section(heading, t, n) ==
    <<heading, LineEnd>> \o TruncateMultiline(t, n) \o <<LineEnd>>

(* The arguments of a call.  Those of eval_js are decoded when they can be:  *)
(* t stands for the code, and for the indented input if there is one.        *)
FormatToolInput(t, n) ==
    {<<"args: ">> \o TruncateOneLine(t, n) \o <<LineEnd>>}
      \cup IF TrimSpace(t) = <<>> THEN {}
           ELSE {Section("code:", t, n),
                 Section("code:", t, n) \o Section("input:", t, n)}

(* A result; t stands for its indented form when it is JSON. *)
FormatToolResult(t, n) ==
    {<<"result: ">> \o TruncateOneLine(t, n) \o <<LineEnd>>,
     Section("result:", t, n)}

-----------------------------------------------------------------------------

Init ==
    /\ text = <<>>
    /\ limit \in Limit

Type(c) ==
    /\ Len(text) < MaxLength
    /\ text' = Append(text, c)
    /\ UNCHANGED limit

Next == \E c \in Character : Type(c)

Spec == Init /\ [][Next]_vars

-----------------------------------------------------------------------------

(* The shortening the flags describe, in characters. *)
ShortenCharacters(t, n) ==
    IF n <= 0 \/ Len(t) <= n THEN t ELSE SubSeq(t, 1, n - 1) \o <<Ellipsis>>

(* Neither function ever shows more characters than the limit allows, the    *)
(* ellipsis and what is left of a broken character included (flag            *)
(* stream-max-preview-chars: "Maximum characters for streamed tool           *)
(* args/results previews").                                                  *)
WithinLimit ==
    limit > 0 =>
        /\ Len(TruncateOneLine(text, limit)) <= limit
        /\ Len(TruncateMultiline(text, limit)) <= limit

(* On texts of one-byte characters both agree with the reference. *)
ExactOnBytes ==
    (\A i \in DOMAIN text : Width[text[i]] = 1) =>
        /\ TruncateOneLine(text, limit) = ShortenCharacters(JoinFields(text), limit)
        /\ TruncateMultiline(text, limit) = ShortenCharacters(TrimSpace(text), limit)

(* A one-line preview really is one line, whatever is in the text: the rows  *)
(* of chat inspect and the args line of the stream depend on it.  It has no  *)
(* space but single blanks between words.                                    *)
OneLine ==
    LET shown == TruncateOneLine(text, limit) IN
    /\ \A i \in DOMAIN shown : shown[i] \in Space => shown[i] = Blank /\ i > 1
    /\ \A i \in DOMAIN shown \ {1} : ~(shown[i] = Blank /\ shown[i - 1] = Blank)

(* A detail of a tool call ends its line, whatever the text and the flag, and *)
(* is no longer than its headings and one limit for each text in it: what the *)
(* sink prints next starts a line, and no flag turns the limit off.  The      *)
(* forms on one line have no line end before the last.                        *)
DetailsEndLines ==
    \A detail \in FormatToolInput(text, PreviewLimit(limit))
                   \cup FormatToolResult(text, PreviewLimit(limit)) :
        /\ Last(detail) = LineEnd
        /\ Len(detail) <= 6 + 2 * (IF limit > 0 THEN limit ELSE DefaultLimit)
        /\ Head(detail) \in {"args: ", "result: "} =>
               \A i \in 1 .. Len(detail) - 1 : detail[i] # LineEnd

===============================================================================
