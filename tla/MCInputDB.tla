------------------------------ MODULE MCInputDB ------------------------------
(***************************************************************************)
(* Two processes of different binaries on one path.  They share a topic,   *)
(* each with a text of its own, and each has a section of its own.  The    *)
(* processes can be exchanged for one another: nothing else names them.    *)
(***************************************************************************)
EXTENDS InputDB, TLC

CONSTANTS p1, p2, topic

MCSlug == Process \cup {topic}

MCDocs ==
    [p \in Process |-> <<[slug |-> topic, text |-> p], [slug |-> p, text |-> p]>>]

MCSymmetry == Permutations(Process)

===============================================================================
