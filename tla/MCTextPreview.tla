---------------------------- MODULE MCTextPreview ----------------------------
(* Characters of one, two and three bytes, a blank and a line end. *)
EXTENDS TextPreview

MCWidth == [c \in Character |-> CASE c = "e-acute" -> 2 [] c = "kanji" -> 3 [] OTHER -> 1]

MCLimit == -1 .. 6

===============================================================================
