-------------------------- MODULE TextPreviewProofs ---------------------------
(***************************************************************************)
(* Theorems about the shortening of texts, for texts of every length over  *)
(* every set of characters, and for every limit.  Bytes and JoinFields are *)
(* folds: what they compute is proved by induction over the text, which    *)
(* rests on the well-foundedness of the natural numbers.                   *)
(***************************************************************************)
EXTENDS TextPreview, SequenceTheorems, WellFoundedInduction, TLAPS

-----------------------------------------------------------------------------
(* Induction, over sets: the set of the numbers, or of the sequences, that *)
(* have a property.                                                        *)

LEMMA MinExists ==
    ASSUME NEW S \in SUBSET Nat, S # {}
    PROVE  Min(S) \in S /\ \A x \in S : Min(S) <= x
<1> DEFINE less == OpToRel(<, Nat)
<1>1. \A x, y \in Nat : <<x, y>> \in less <=> x < y
  BY DEF OpToRel
<1>2. IsWellFoundedOn(less, Nat)
  BY NatLessThanWellFounded
<1> HIDE DEF less
<1>3. PICK x \in S : \A y \in S : ~(<<y, x>> \in less)
  BY <1>2, WFMin
<1>4. \A y \in S : x <= y
  <2>1. TAKE y \in S
  <2>2. x \in Nat /\ y \in Nat
    OBVIOUS
  <2>3. ~(y < x)
    BY <1>1, <1>3, <2>2
  <2>4. QED
    BY <2>2, <2>3
<1>5. QED
  BY <1>4 DEF Min

LEMMA NumbersByInduction ==
    ASSUME NEW S, 0 \in S, \A n \in Nat : n \in S => n + 1 \in S
    PROVE  Nat \subseteq S
<1> DEFINE out == {n \in Nat : n \notin S}
<1>1. SUFFICES ASSUME out # {} PROVE FALSE
  OBVIOUS
<1>2. out \in SUBSET Nat
  OBVIOUS
<1>3. Min(out) \in out /\ \A x \in out : Min(out) <= x
  <2> HIDE DEF out
  <2>1. QED
    BY <1>1, <1>2, MinExists
<1>4. Min(out) - 1 \in Nat /\ Min(out) - 1 \notin out
  BY <1>3
<1>5. QED
  BY <1>3, <1>4

LEMMA SequencesByInduction ==
    ASSUME NEW C, NEW S, <<>> \in S,
           \A t \in Seq(C), c \in C : t \in S => Append(t, c) \in S
    PROVE  Seq(C) \subseteq S
<1> DEFINE N == {n \in Nat : \A t \in Seq(C) : Len(t) = n => t \in S}
<1>1. 0 \in N
  BY EmptySeq
<1>2. ASSUME NEW n \in Nat, n \in N, NEW t \in Seq(C), Len(t) = n + 1
      PROVE  t \in S
  <2>1. t # <<>>
    BY <1>2, EmptySeq
  <2>2. PICK s \in Seq(C), c \in C : t = Append(s, c)
    BY <2>1, SequenceEmptyOrAppend
  <2>3. Len(s) = n
    <3>1. Len(Append(s, c)) = Len(s) + 1 /\ Len(s) \in Nat
      BY AppendProperties, LenProperties
    <3>2. QED
      BY <1>2, <2>2, <3>1
  <2>4. QED
    BY <1>2, <2>2, <2>3
<1>3. ASSUME NEW n \in Nat, n \in N PROVE n + 1 \in N
  <2>1. \A t \in Seq(C) : Len(t) = n + 1 => t \in S
    BY <1>2, <1>3
  <2>2. QED
    BY <2>1
<1>4. Nat \subseteq N
  <2> HIDE DEF N
  <2>1. QED
    BY <1>1, <1>3, NumbersByInduction
<1>5. QED
  BY <1>4, LenProperties

(* A set of numbers with an upper bound has a greatest. *)
LEMMA MaxExists ==
    ASSUME NEW n \in Nat, NEW S \in SUBSET (0 .. n), S # {}
    PROVE  Max(S) \in S /\ \A x \in S : Max(S) >= x
<1> DEFINE bounds == {k \in Nat : \A x \in S : x <= k}
<1>1. n \in bounds
  OBVIOUS
<1>2. PICK k \in bounds : \A b \in bounds : k <= b
  <2>1. bounds \in SUBSET Nat
    OBVIOUS
  <2> HIDE DEF bounds
  <2>2. QED
    BY <1>1, <2>1, MinExists
<1>3. k \in S
  <2>1. SUFFICES ASSUME k \notin S PROVE FALSE
    OBVIOUS
  <2>2. \A x \in S : x <= k - 1
    BY <2>1
  <2>3. k - 1 \in Nat
    <3>1. PICK x : x \in S
      OBVIOUS
    <3>2. x \in 0 .. n
      BY <3>1
    <3>3. QED
      BY <2>2, <3>1, <3>2
  <2>4. k - 1 \in bounds
    BY <2>2, <2>3
  <2>5. QED
    BY <1>2, <2>4
<1>4. QED
  BY <1>3 DEF Max

-----------------------------------------------------------------------------
(* Folds.  FoldLeft is a recursive function on the sets of positions of a  *)
(* text, which takes the greatest position away.  FoldOf says that f is    *)
(* this function for an operation given as a function.                     *)

FoldOf(f, op, base, t) ==
    f = [s \in SUBSET DOMAIN t |->
            IF s = {} THEN base ELSE op[<<f[s \ {Max(s)}], t[Max(s)]>>]]

LEMMA WithoutGreatest ==
    ASSUME NEW m \in Nat, NEW s \in SUBSET (1 .. m + 1), s # {}
    PROVE  /\ Max(s) \in s /\ Max(s) \in 1 .. m + 1
           /\ s \ {Max(s)} \in SUBSET (1 .. m)
<1>1. s \in SUBSET (0 .. m + 1) /\ m + 1 \in Nat
  OBVIOUS
<1>2. Max(s) \in s /\ \A x \in s : Max(s) >= x
  BY <1>1, MaxExists
<1>3. Max(s) \in 1 .. m + 1
  BY <1>2
<1>4. ASSUME NEW x \in s \ {Max(s)} PROVE x \in 1 .. m
  <2>1. x \in 1 .. m + 1 /\ Max(s) >= x /\ x # Max(s)
    BY <1>2
  <2>2. QED
    BY <1>3, <2>1
<1>5. QED
  BY <1>2, <1>3, <1>4

LEMMA IntervalStep ==
    ASSUME NEW k \in Nat
    PROVE  /\ Max(1 .. k + 1) = k + 1 /\ (1 .. k + 1) \ {k + 1} = 1 .. k
           /\ 1 .. k + 1 # {} /\ 1 .. 0 = {}
<1>1. k + 1 \in 1 .. k + 1
  OBVIOUS
<1>2. Max(1 .. k + 1) \in 1 .. k + 1 /\ \A x \in 1 .. k + 1 : Max(1 .. k + 1) >= x
  <2>1. k + 1 \in Nat /\ 1 .. k + 1 \in SUBSET (0 .. k + 1) /\ 1 .. k + 1 # {}
    BY <1>1
  <2>2. QED
    BY <2>1, MaxExists
<1>3. QED
  BY <1>1, <1>2

(* There is such a function, and it keeps the type of the operation. *)
LEMMA FoldExists ==
    ASSUME NEW A, NEW C, NEW base \in A, NEW op \in [A \X C -> A], NEW t \in Seq(C)
    PROVE  \E f \in [SUBSET DOMAIN t -> A] : FoldOf(f, op, base, t)
<1> DEFINE Value(f, s) == IF s = {} THEN base ELSE op[<<f[s \ {Max(s)}], t[Max(s)]>>]
           Folds(m) == {f \in [SUBSET (1 .. m) -> A] :
                           \A s \in SUBSET (1 .. m) : f[s] = Value(f, s)}
           N == {m \in Nat : m <= Len(t) => Folds(m) # {}}
<1>1. /\ Len(t) \in Nat /\ DOMAIN t = 1 .. Len(t)
      /\ \A i \in 1 .. Len(t) : t[i] \in C
  BY LenProperties, ElementOfSeq
<1>2. 0 \in N
  <2> DEFINE f == [s \in SUBSET (1 .. 0) |-> base]
  <2>1. \A s \in SUBSET (1 .. 0) : s = {}
    OBVIOUS
  <2>2. f \in Folds(0)
    BY <2>1
  <2>3. QED
    BY <2>2
<1>3. ASSUME NEW m \in Nat, m \in N PROVE m + 1 \in N
  <2>1. SUFFICES ASSUME m + 1 <= Len(t) PROVE Folds(m + 1) # {}
    <3> HIDE DEF Folds
    <3>1. QED
      OBVIOUS
  <2>2. PICK f \in [SUBSET (1 .. m) -> A] : \A s \in SUBSET (1 .. m) : f[s] = Value(f, s)
    <3> HIDE DEF Value
    <3>1. m <= Len(t)
      BY <1>1, <2>1
    <3>2. Folds(m) # {}
      <4> HIDE DEF Folds
      <4>1. QED
        BY <1>3, <3>1
    <3>3. QED
      BY <3>2
  <2> DEFINE g == [s \in SUBSET (1 .. m + 1) |-> Value(f, s)]
  <2> HIDE DEF Value
  <2>3. ASSUME NEW s \in SUBSET (1 .. m + 1) PROVE g[s] \in A
    <3>1. CASE s = {}
      BY <3>1 DEF Value
    <3>2. CASE s # {}
      <4>1. Max(s) \in 1 .. m + 1 /\ s \ {Max(s)} \in SUBSET (1 .. m)
        BY <3>2, WithoutGreatest
      <4>2. t[Max(s)] \in C
        BY <1>1, <2>1, <4>1
      <4>3. f[s \ {Max(s)}] \in A
        BY <4>1
      <4>4. QED
        BY <3>2, <4>2, <4>3 DEF Value
    <3>3. QED
      BY <3>1, <3>2
  <2>4. \A s \in SUBSET (1 .. m) : s \in SUBSET (1 .. m + 1) /\ g[s] = f[s]
    BY <2>2
  <2>5. ASSUME NEW s \in SUBSET (1 .. m + 1) PROVE g[s] = Value(g, s)
    <3>1. CASE s = {}
      BY <3>1 DEF Value
    <3>2. CASE s # {}
      <4>1. s \ {Max(s)} \in SUBSET (1 .. m)
        BY <3>2, WithoutGreatest
      <4>2. g[s \ {Max(s)}] = f[s \ {Max(s)}]
        BY <2>4, <4>1
      <4> HIDE DEF g
      <4>3. Value(g, s) = Value(f, s)
        BY <4>2 DEF Value
      <4>4. QED
        BY <4>3 DEF g
    <3>3. QED
      BY <3>1, <3>2
  <2>6. g \in [SUBSET (1 .. m + 1) -> A]
    BY <2>3
  <2>7. QED
    BY <2>5, <2>6
<1>4. Nat \subseteq N
  <2> HIDE DEF N
  <2>1. QED
    BY <1>2, <1>3, NumbersByInduction
<1>5. PICK f \in [SUBSET DOMAIN t -> A] : \A s \in SUBSET DOMAIN t : f[s] = Value(f, s)
  <2> HIDE DEF Value
  <2>1. Folds(Len(t)) # {}
    <3> HIDE DEF Folds
    <3>1. QED
      BY <1>1, <1>4
  <2>2. QED
    BY <1>1, <2>1
<1>6. FoldOf(f, op, base, t)
  BY <1>5 DEF FoldOf
<1>7. QED
  BY <1>6

(* Only the intervals from the first position on matter to the result. *)
LEMMA SameOnIntervals ==
    ASSUME NEW n \in Nat, NEW f, NEW g, f[{}] = g[{}],
           \A k \in 0 .. n - 1 : f[1 .. k] = g[1 .. k] => f[1 .. k + 1] = g[1 .. k + 1]
    PROVE  \A k \in 0 .. n : f[1 .. k] = g[1 .. k]
<1> DEFINE N == {k \in Nat : k <= n => f[1 .. k] = g[1 .. k]}
<1>1. 0 \in N
  BY IntervalStep
<1>2. ASSUME NEW k \in Nat, k \in N PROVE k + 1 \in N
  BY <1>2
<1>3. Nat \subseteq N
  <2> HIDE DEF N
  <2>1. QED
    BY <1>1, <1>2, NumbersByInduction
<1>4. QED
  BY <1>3

LEMMA FoldInterval ==
    ASSUME NEW f, NEW op, NEW base, NEW t, FoldOf(f, op, base, t),
           NEW n \in Nat, DOMAIN t = 1 .. n
    PROVE  \A k \in 0 .. n - 1 : f[1 .. k + 1] = op[<<f[1 .. k], t[k + 1]>>]
<1> TAKE k \in 0 .. n - 1
<1> DEFINE s == 1 .. k + 1
<1>1. Max(s) = k + 1 /\ s \ {k + 1} = 1 .. k /\ s # {}
  <2>1. k \in Nat
    OBVIOUS
  <2>2. QED
    BY <2>1, IntervalStep
<1>2. f[s] = op[<<f[s \ {Max(s)}], t[Max(s)]>>]
  <2>1. s \in SUBSET DOMAIN t
    OBVIOUS
  <2> HIDE DEF s
  <2>2. QED
    BY <1>1, <2>1, Zenon DEF FoldOf
<1> HIDE DEF s
<1>3. f[s] = op[<<f[1 .. k], t[k + 1]>>]
  BY <1>1, <1>2
<1>4. QED
  BY <1>3 DEF s

(* u is t with one more element. *)
Extends(u, t, c) ==
    \E n \in Nat, m \in Nat :
       /\ m = n + 1 /\ DOMAIN t = 1 .. n /\ DOMAIN u = 1 .. m
       /\ u[m] = c /\ \A i \in 1 .. n : u[i] = t[i]

LEMMA AppendExtends ==
    ASSUME NEW C, NEW t \in Seq(C), NEW c \in C
    PROVE  Append(t, c) \in Seq(C) /\ Extends(Append(t, c), t, c)
<1> DEFINE u == Append(t, c)
<1>1. /\ u \in Seq(C) /\ Len(u) = Len(t) + 1 /\ Len(t) \in Nat
      /\ u[Len(t) + 1] = c /\ \A i \in 1 .. Len(t) : u[i] = t[i]
  BY AppendProperties, LenProperties
<1>2. DOMAIN t = 1 .. Len(t) /\ DOMAIN u = 1 .. Len(t) + 1
  BY <1>1, LenProperties
<1> HIDE DEF u
<1>3. Len(t) + 1 \in Nat
  BY <1>1
<1>4. Extends(u, t, c)
  BY <1>1, <1>2, <1>3 DEF Extends
<1>5. QED
  BY <1>1, <1>4 DEF u

LEMMA FoldExtend ==
    ASSUME NEW op, NEW base, NEW t, NEW u, NEW c, Extends(u, t, c),
           NEW f, FoldOf(f, op, base, t), NEW g, FoldOf(g, op, base, u)
    PROVE  g[DOMAIN u] = op[<<f[DOMAIN t], c>>]
<1>1. PICK n \in Nat, m \in Nat :
         /\ m = n + 1 /\ DOMAIN t = 1 .. n /\ DOMAIN u = 1 .. m
         /\ u[m] = c /\ \A i \in 1 .. n : u[i] = t[i]
  BY DEF Extends
<1>2. f[{}] = base /\ g[{}] = base
  <2>1. {} \in SUBSET DOMAIN t /\ {} \in SUBSET DOMAIN u
    OBVIOUS
  <2>2. QED
    BY <2>1 DEF FoldOf
<1>3. \A k \in 0 .. n - 1 : f[1 .. k + 1] = op[<<f[1 .. k], t[k + 1]>>]
  BY <1>1, FoldInterval
<1>4. \A k \in 0 .. m - 1 : g[1 .. k + 1] = op[<<g[1 .. k], u[k + 1]>>]
  <2>1. DOMAIN u = 1 .. m
    BY <1>1
  <2>2. QED
    BY <2>1, FoldInterval
<1>5. \A k \in 0 .. n - 1 : k \in 0 .. m - 1 /\ u[k + 1] = t[k + 1]
  BY <1>1
<1>6. \A k \in 0 .. n - 1 : f[1 .. k] = g[1 .. k] => f[1 .. k + 1] = g[1 .. k + 1]
  BY <1>3, <1>4, <1>5
<1>7. \A k \in 0 .. n : f[1 .. k] = g[1 .. k]
  BY <1>2, <1>6, SameOnIntervals
<1>8. f[1 .. n] = g[1 .. n] /\ n \in 0 .. m - 1 /\ n + 1 = m
  BY <1>1, <1>7
<1>9. g[1 .. m] = op[<<g[1 .. n], u[m]>>]
  BY <1>4, <1>8
<1>10. QED
  BY <1>1, <1>8, <1>9

(* The fold of an empty text, and how one more character changes a fold. *)
LEMMA FoldEmpty ==
    ASSUME NEW f, NEW op, NEW base, FoldOf(f, op, base, <<>>)
    PROVE  f[DOMAIN <<>>] = base
<1>1. DOMAIN <<>> = {}
  OBVIOUS
<1>2. {} \in SUBSET DOMAIN <<>>
  OBVIOUS
<1>3. QED
  BY <1>1, <1>2 DEF FoldOf

-----------------------------------------------------------------------------
(* The length of a text in bytes. *)

NoBytes == 0

AddWidth == [ac \in Nat \X Character |-> ac[1] + Width[ac[2]]]

TotalsOf(f, t) ==
    f = [s \in SUBSET DOMAIN t |->
            IF s = {} THEN 0 ELSE f[s \ {Max(s)}] + Width[t[Max(s)]]]

LEMMA BytesUnfold ==
    ASSUME NEW t
    PROVE  Bytes(t) = (CHOOSE f : TotalsOf(f, t))[DOMAIN t]
BY DEF Bytes, FoldLeft, MapThenFoldSet, TotalsOf

LEMMA TotalsInterval ==
    ASSUME NEW f, NEW t, TotalsOf(f, t), NEW n \in Nat, DOMAIN t = 1 .. n
    PROVE  \A k \in 0 .. n - 1 : f[1 .. k + 1] = f[1 .. k] + Width[t[k + 1]]
<1> TAKE k \in 0 .. n - 1
<1> DEFINE s == 1 .. k + 1
<1>1. Max(s) = k + 1 /\ s \ {k + 1} = 1 .. k /\ s # {}
  <2>1. k \in Nat
    OBVIOUS
  <2>2. QED
    BY <2>1, IntervalStep
<1>2. f[s] = f[s \ {Max(s)}] + Width[t[Max(s)]]
  <2>1. s \in SUBSET DOMAIN t
    OBVIOUS
  <2> HIDE DEF s
  <2>2. QED
    BY <1>1, <2>1, Zenon DEF TotalsOf
<1> HIDE DEF s
<1>3. f[s] = f[1 .. k] + Width[t[k + 1]]
  BY <1>1, <1>2
<1>4. QED
  BY <1>3 DEF s

LEMMA TotalsUnique ==
    ASSUME NEW t, NEW n \in Nat, DOMAIN t = 1 .. n,
           NEW f, TotalsOf(f, t), NEW h, TotalsOf(h, t)
    PROVE  f[DOMAIN t] = h[DOMAIN t]
<1>1. f[{}] = h[{}]
  <2>1. {} \in SUBSET DOMAIN t
    OBVIOUS
  <2>2. QED
    BY <2>1 DEF TotalsOf
<1>2. \A k \in 0 .. n - 1 : f[1 .. k + 1] = f[1 .. k] + Width[t[k + 1]]
  BY TotalsInterval
<1>3. \A k \in 0 .. n - 1 : h[1 .. k + 1] = h[1 .. k] + Width[t[k + 1]]
  BY TotalsInterval
<1>4. \A k \in 0 .. n - 1 : f[1 .. k] = h[1 .. k] => f[1 .. k + 1] = h[1 .. k + 1]
  BY <1>2, <1>3
<1>5. \A k \in 0 .. n : f[1 .. k] = h[1 .. k]
  BY <1>1, <1>4, SameOnIntervals
<1>6. QED
  BY <1>5

LEMMA BytesFold ==
    ASSUME NEW t \in Seq(Character)
    PROVE  \E f \in [SUBSET DOMAIN t -> Nat] :
              FoldOf(f, AddWidth, NoBytes, t) /\ Bytes(t) = f[DOMAIN t]
<1>1. AddWidth \in [Nat \X Character -> Nat]
  <2>1. ASSUME NEW ac \in Nat \X Character PROVE ac[1] + Width[ac[2]] \in Nat
    <3>1. ac[1] \in Nat /\ Width[ac[2]] \in 1 .. 4
      BY PreviewAssumption
    <3>2. QED
      BY <3>1
  <2>2. QED
    BY <2>1 DEF AddWidth
<1>2. PICK f \in [SUBSET DOMAIN t -> Nat] : FoldOf(f, AddWidth, NoBytes, t)
  <2>1. NoBytes \in Nat
    BY DEF NoBytes
  <2>2. QED
    BY <1>1, <2>1, FoldExists
<1>3. PICK n \in Nat : DOMAIN t = 1 .. n /\ \A i \in 1 .. n : t[i] \in Character
  BY LenProperties, ElementOfSeq
<1>4. ASSUME NEW s \in SUBSET DOMAIN t, s # {}
      PROVE  AddWidth[<<f[s \ {Max(s)}], t[Max(s)]>>] = f[s \ {Max(s)}] + Width[t[Max(s)]]
  <2>1. s \in SUBSET (1 .. n + 1) /\ s \in SUBSET (0 .. n)
    BY <1>3
  <2>2. Max(s) \in s
    BY <1>3, <1>4, <2>1, WithoutGreatest
  <2>3. t[Max(s)] \in Character /\ f[s \ {Max(s)}] \in Nat
    BY <1>3, <2>2
  <2>4. QED
    BY <2>3 DEF AddWidth
<1>5. TotalsOf(f, t)
  BY <1>2, <1>4 DEF FoldOf, TotalsOf, NoBytes
<1> DEFINE h == CHOOSE g : TotalsOf(g, t)
<1>6. TotalsOf(h, t)
  BY <1>5
<1> HIDE DEF h
<1>7. f[DOMAIN t] = h[DOMAIN t]
  BY <1>3, <1>5, <1>6, TotalsUnique
<1>8. QED
  BY <1>2, <1>7, BytesUnfold DEF h

LEMMA BytesStep ==
    /\ Bytes(<<>>) = 0
    /\ \A t \in Seq(Character) : Bytes(t) \in Nat
    /\ \A t \in Seq(Character), c \in Character :
          Bytes(Append(t, c)) = Bytes(t) + Width[c]
<1>1. Bytes(<<>>) = 0
  <2>1. <<>> \in Seq(Character)
    BY EmptySeq
  <2>2. Bytes(<<>>) = NoBytes
    BY <2>1, BytesFold, FoldEmpty
  <2>3. QED
    BY <2>2 DEF NoBytes
<1>2. ASSUME NEW t \in Seq(Character) PROVE Bytes(t) \in Nat
  <2>1. DOMAIN t \in SUBSET DOMAIN t
    OBVIOUS
  <2>2. PICK f \in [SUBSET DOMAIN t -> Nat] : Bytes(t) = f[DOMAIN t]
    BY BytesFold
  <2>3. QED
    BY <2>1, <2>2
<1>3. ASSUME NEW t \in Seq(Character), NEW c \in Character
      PROVE  Bytes(Append(t, c)) = Bytes(t) + Width[c]
  <2> DEFINE u == Append(t, c)
  <2>1. u \in Seq(Character) /\ Extends(u, t, c)
    BY AppendExtends
  <2> HIDE DEF u
  <2>2. PICK f : FoldOf(f, AddWidth, NoBytes, t) /\ Bytes(t) = f[DOMAIN t]
    BY BytesFold
  <2>3. PICK g : FoldOf(g, AddWidth, NoBytes, u) /\ Bytes(u) = g[DOMAIN u]
    BY <2>1, BytesFold
  <2>4. g[DOMAIN u] = AddWidth[<<f[DOMAIN t], c>>]
    BY <2>1, <2>2, <2>3, FoldExtend
  <2>5. Bytes(t) \in Nat
    BY <1>2
  <2>6. Bytes(u) = Bytes(t) + Width[c]
    BY <2>2, <2>3, <2>4, <2>5 DEF AddWidth
  <2>7. QED
    BY <2>6 DEF u
<1>4. QED
  BY <1>1, <1>2, <1>3

-----------------------------------------------------------------------------
(* The fields of a text, joined. *)

NoFields == [words |-> <<>>, due |-> FALSE]

Fields == [words : Seq(Character), due : BOOLEAN]

Gather(acc, c) ==
    IF c \in Space THEN [acc EXCEPT !.due = acc.words # <<>>]
    ELSE [words |-> acc.words \o (IF acc.due THEN <<Blank, c>> ELSE <<c>>),
          due |-> FALSE]

GatherNext == [ac \in Fields \X Character |-> Gather(ac[1], ac[2])]

GatherOf(f, t) ==
    f = [s \in SUBSET DOMAIN t |->
            IF s = {} THEN NoFields ELSE Gather(f[s \ {Max(s)}], t[Max(s)])]

(* The fold of JoinFields before its words are taken. *)
Gathered(t) == (CHOOSE f : GatherOf(f, t))[DOMAIN t]

LEMMA JoinFieldsUnfold == ASSUME NEW t PROVE JoinFields(t) = Gathered(t).words
BY DEF JoinFields, FoldLeft, MapThenFoldSet, Gathered, GatherOf, Gather, NoFields

LEMMA GatherInterval ==
    ASSUME NEW f, NEW t, GatherOf(f, t), NEW n \in Nat, DOMAIN t = 1 .. n
    PROVE  \A k \in 0 .. n - 1 : f[1 .. k + 1] = Gather(f[1 .. k], t[k + 1])
<1> TAKE k \in 0 .. n - 1
<1> DEFINE s == 1 .. k + 1
<1>1. Max(s) = k + 1 /\ s \ {k + 1} = 1 .. k /\ s # {}
  <2>1. k \in Nat
    OBVIOUS
  <2>2. QED
    BY <2>1, IntervalStep
<1>2. f[s] = Gather(f[s \ {Max(s)}], t[Max(s)])
  <2>1. s \in SUBSET DOMAIN t
    OBVIOUS
  <2> HIDE DEF s
  <2>2. QED
    BY <1>1, <2>1, Zenon DEF GatherOf
<1> HIDE DEF s
<1>3. f[s] = Gather(f[1 .. k], t[k + 1])
  BY <1>1, <1>2
<1>4. QED
  BY <1>3 DEF s

LEMMA GatherUnique ==
    ASSUME NEW t, NEW n \in Nat, DOMAIN t = 1 .. n,
           NEW f, GatherOf(f, t), NEW h, GatherOf(h, t)
    PROVE  f[DOMAIN t] = h[DOMAIN t]
<1>1. f[{}] = h[{}]
  <2>1. {} \in SUBSET DOMAIN t
    OBVIOUS
  <2>2. QED
    BY <2>1 DEF GatherOf
<1>2. \A k \in 0 .. n - 1 : f[1 .. k + 1] = Gather(f[1 .. k], t[k + 1])
  BY GatherInterval
<1>3. \A k \in 0 .. n - 1 : h[1 .. k + 1] = Gather(h[1 .. k], t[k + 1])
  BY GatherInterval
<1>4. \A k \in 0 .. n - 1 : f[1 .. k] = h[1 .. k] => f[1 .. k + 1] = h[1 .. k + 1]
  BY <1>2, <1>3
<1>5. \A k \in 0 .. n : f[1 .. k] = h[1 .. k]
  BY <1>1, <1>4, SameOnIntervals
<1>6. QED
  BY <1>5

LEMMA GatherType ==
    /\ NoFields \in Fields
    /\ \A acc \in Fields, c \in Character : Gather(acc, c) \in Fields
<1>1. NoFields \in Fields
  BY EmptySeq DEF NoFields, Fields
<1>2. ASSUME NEW acc \in Fields, NEW c \in Character PROVE Gather(acc, c) \in Fields
  <2>1. acc.words \in Seq(Character) /\ Blank \in Character
    BY PreviewAssumption DEF Fields
  <2>2. <<Blank, c>> \in Seq(Character) /\ <<c>> \in Seq(Character)
    BY <2>1
  <2>3. /\ acc.words \o <<Blank, c>> \in Seq(Character)
        /\ acc.words \o <<c>> \in Seq(Character)
    BY <2>1, <2>2, ConcatProperties
  <2>4. QED
    BY <2>1, <2>3 DEF Gather, Fields
<1>3. QED
  BY <1>1, <1>2

LEMMA GatherFold ==
    ASSUME NEW t \in Seq(Character)
    PROVE  \E f \in [SUBSET DOMAIN t -> Fields] :
              FoldOf(f, GatherNext, NoFields, t) /\ Gathered(t) = f[DOMAIN t]
<1>1. GatherNext \in [Fields \X Character -> Fields] /\ NoFields \in Fields
  BY GatherType DEF GatherNext
<1>2. PICK f \in [SUBSET DOMAIN t -> Fields] : FoldOf(f, GatherNext, NoFields, t)
  BY <1>1, FoldExists
<1>3. PICK n \in Nat : DOMAIN t = 1 .. n /\ \A i \in 1 .. n : t[i] \in Character
  BY LenProperties, ElementOfSeq
<1>4. ASSUME NEW s \in SUBSET DOMAIN t, s # {}
      PROVE  GatherNext[<<f[s \ {Max(s)}], t[Max(s)]>>] = Gather(f[s \ {Max(s)}], t[Max(s)])
  <2>1. s \in SUBSET (1 .. n + 1)
    BY <1>3
  <2>2. Max(s) \in s
    BY <1>3, <1>4, <2>1, WithoutGreatest
  <2>3. t[Max(s)] \in Character /\ f[s \ {Max(s)}] \in Fields
    BY <1>3, <2>2
  <2>4. QED
    BY <2>3 DEF GatherNext
<1>5. GatherOf(f, t)
  BY <1>2, <1>4 DEF FoldOf, GatherOf
<1> DEFINE h == CHOOSE g : GatherOf(g, t)
<1>6. GatherOf(h, t)
  BY <1>5
<1> HIDE DEF h
<1>7. f[DOMAIN t] = h[DOMAIN t]
  BY <1>3, <1>5, <1>6, GatherUnique
<1>8. QED
  BY <1>2, <1>7 DEF h, Gathered

LEMMA GatherStep ==
    /\ Gathered(<<>>) = NoFields
    /\ \A t \in Seq(Character) : Gathered(t) \in Fields
    /\ \A t \in Seq(Character), c \in Character :
          Gathered(Append(t, c)) = Gather(Gathered(t), c)
<1>1. Gathered(<<>>) = NoFields
  <2>1. <<>> \in Seq(Character)
    BY EmptySeq
  <2>2. QED
    BY <2>1, GatherFold, FoldEmpty
<1>2. ASSUME NEW t \in Seq(Character) PROVE Gathered(t) \in Fields
  <2>1. DOMAIN t \in SUBSET DOMAIN t
    OBVIOUS
  <2>2. PICK f \in [SUBSET DOMAIN t -> Fields] : Gathered(t) = f[DOMAIN t]
    BY GatherFold
  <2>3. QED
    BY <2>1, <2>2
<1>3. ASSUME NEW t \in Seq(Character), NEW c \in Character
      PROVE  Gathered(Append(t, c)) = Gather(Gathered(t), c)
  <2> DEFINE u == Append(t, c)
  <2>1. u \in Seq(Character) /\ Extends(u, t, c)
    BY AppendExtends
  <2> HIDE DEF u
  <2>2. PICK f : FoldOf(f, GatherNext, NoFields, t) /\ Gathered(t) = f[DOMAIN t]
    BY GatherFold
  <2>3. PICK g : FoldOf(g, GatherNext, NoFields, u) /\ Gathered(u) = g[DOMAIN u]
    BY <2>1, GatherFold
  <2>4. g[DOMAIN u] = GatherNext[<<f[DOMAIN t], c>>]
    BY <2>1, <2>2, <2>3, FoldExtend
  <2>5. Gathered(t) \in Fields
    BY <1>2
  <2>6. Gathered(u) = Gather(Gathered(t), c)
    BY <2>2, <2>3, <2>4, <2>5 DEF GatherNext
  <2>7. QED
    BY <2>6 DEF u
<1>4. QED
  BY <1>1, <1>2, <1>3

-----------------------------------------------------------------------------
(* What the folds make of every text. *)

Narrow == {c \in Character : Width[c] = 1}

(* A character has a byte at least. *)
LEMMA BytesCountCharacters ==
    ASSUME NEW t \in Seq(Character)
    PROVE  Bytes(t) \in Nat /\ Len(t) \in Nat /\ Len(t) <= Bytes(t)
<1> DEFINE S == {s \in Seq(Character) : Len(s) <= Bytes(s)}
<1>1. <<>> \in S
  BY BytesStep, EmptySeq
<1>2. ASSUME NEW s \in Seq(Character), NEW c \in Character, s \in S
      PROVE  Append(s, c) \in S
  <2>1. /\ Append(s, c) \in Seq(Character) /\ Len(Append(s, c)) = Len(s) + 1
        /\ Bytes(Append(s, c)) = Bytes(s) + Width[c]
    BY BytesStep, AppendProperties
  <2>2. /\ Len(s) \in Nat /\ Bytes(s) \in Nat /\ Len(s) <= Bytes(s)
        /\ Width[c] \in 1 .. 4
    BY <1>2, BytesStep, LenProperties, PreviewAssumption
  <2>3. Len(Append(s, c)) <= Bytes(Append(s, c))
    BY <2>1, <2>2
  <2>4. QED
    BY <2>1, <2>3
<1>3. Seq(Character) \subseteq S
  <2> HIDE DEF S
  <2>1. QED
    BY <1>1, <1>2, SequencesByInduction
<1>4. QED
  BY <1>3, BytesStep, LenProperties

LEMMA NarrowIsCharacter ==
    /\ Blank \in Narrow /\ \A t \in Seq(Narrow) : t \in Seq(Character)
    /\ \A t \in Seq(Character) :
          (\A i \in DOMAIN t : Width[t[i]] = 1) => t \in Seq(Narrow)
<1>1. Narrow \subseteq Character /\ Blank \in Narrow
  BY PreviewAssumption DEF Narrow
<1>2. ASSUME NEW t \in Seq(Narrow) PROVE t \in Seq(Character)
  BY <1>1, SeqMonotonic
<1>3. ASSUME NEW t \in Seq(Character), \A i \in DOMAIN t : Width[t[i]] = 1
      PROVE  t \in Seq(Narrow)
  <2>1. PICK n \in Nat : t \in [1 .. n -> Character]
    BY LenProperties
  <2>2. t \in [1 .. n -> Narrow]
    BY <1>3, <2>1 DEF Narrow
  <2>3. QED
    BY <2>2, SeqDef
<1>4. QED
  BY <1>1, <1>2, <1>3

LEMMA BytesOfNarrow == ASSUME NEW t \in Seq(Narrow) PROVE Bytes(t) = Len(t)
<1> DEFINE S == {s \in Seq(Narrow) : Bytes(s) = Len(s)}
<1>1. <<>> \in S
  BY BytesStep, EmptySeq
<1>2. ASSUME NEW s \in Seq(Narrow), NEW c \in Narrow, s \in S
      PROVE  Append(s, c) \in S
  <2>1. Append(s, c) \in Seq(Narrow) /\ Len(Append(s, c)) = Len(s) + 1
    BY AppendProperties
  <2>2. s \in Seq(Character) /\ c \in Character /\ Width[c] = 1
    BY NarrowIsCharacter DEF Narrow
  <2>3. Bytes(Append(s, c)) = Bytes(s) + Width[c]
    BY <2>2, BytesStep
  <2>4. QED
    BY <1>2, <2>1, <2>2, <2>3
<1>3. Seq(Narrow) \subseteq S
  <2> HIDE DEF S
  <2>1. QED
    BY <1>1, <1>2, SequencesByInduction
<1>4. QED
  BY <1>3

(* The fields of a text are its characters, and blanks between them: a blank *)
(* is neither first nor last, and follows no other.                          *)
WellJoined(w) ==
    \A i \in 1 .. Len(w) :
       w[i] \in Space => /\ w[i] = Blank /\ i > 1 /\ i < Len(w)
                         /\ w[i - 1] \notin Space

LEMMA WellJoinedGrows ==
    ASSUME NEW w \in Seq(Character), WellJoined(w), NEW c \in Character, c \notin Space
    PROVE  /\ WellJoined(w \o <<c>>)
           /\ w # <<>> => WellJoined(w \o <<Blank, c>>)
<1>1. /\ <<c>> \in Seq(Character) /\ <<Blank, c>> \in Seq(Character)
      /\ Len(<<c>>) = 1 /\ Len(<<Blank, c>>) = 2 /\ Len(w) \in Nat
  <2>1. Blank \in Character
    BY PreviewAssumption
  <2>2. <<c>> \in Seq(Character) /\ <<Blank, c>> \in Seq(Character)
    BY <2>1
  <2>3. Len(<<c>>) = 1 /\ Len(<<Blank, c>>) = 2
    OBVIOUS
  <2>4. QED
    BY <2>2, <2>3, LenProperties
<1>2. WellJoined(w \o <<c>>)
  <2> DEFINE v == w \o <<c>>
  <2>1. /\ Len(v) = Len(w) + 1 /\ v[Len(w) + 1] = c
        /\ \A i \in 1 .. Len(w) : v[i] = w[i]
    BY <1>1, ConcatProperties
  <2> HIDE DEF v
  <2>2. ASSUME NEW i \in 1 .. Len(v), v[i] \in Space
        PROVE  v[i] = Blank /\ i > 1 /\ i < Len(v) /\ v[i - 1] \notin Space
    <3>1. i \in 1 .. Len(w)
      BY <1>1, <2>1, <2>2
    <3>2. w[i] \in Space
      BY <2>1, <2>2, <3>1
    <3>3. w[i] = Blank /\ i > 1 /\ i < Len(w) /\ w[i - 1] \notin Space
      BY <3>1, <3>2 DEF WellJoined
    <3>4. i - 1 \in 1 .. Len(w)
      BY <1>1, <3>1, <3>3
    <3>5. QED
      BY <1>1, <2>1, <3>1, <3>3, <3>4
  <2>3. QED
    BY <2>2 DEF WellJoined, v
<1>3. ASSUME w # <<>> PROVE WellJoined(w \o <<Blank, c>>)
  <2> DEFINE v == w \o <<Blank, c>>
  <2>1. /\ Len(v) = Len(w) + 2 /\ v[Len(w) + 1] = Blank /\ v[Len(w) + 2] = c
        /\ \A i \in 1 .. Len(w) : v[i] = w[i]
    BY <1>1, ConcatProperties
  <2> HIDE DEF v
  <2>2. Len(w) >= 1
    BY <1>3, EmptySeq
  <2>3. w[Len(w)] \notin Space
    BY <1>1, <2>2 DEF WellJoined
  <2>4. ASSUME NEW i \in 1 .. Len(v), v[i] \in Space
        PROVE  v[i] = Blank /\ i > 1 /\ i < Len(v) /\ v[i - 1] \notin Space
    <3>1. CASE i = Len(w) + 1
      BY <1>1, <2>1, <2>2, <2>3, <3>1
    <3>2. CASE i # Len(w) + 1
      <4>1. i \in 1 .. Len(w)
        BY <1>1, <2>1, <2>4, <3>2
      <4>2. w[i] \in Space
        BY <2>1, <2>4, <4>1
      <4>3. w[i] = Blank /\ i > 1 /\ i < Len(w) /\ w[i - 1] \notin Space
        BY <4>1, <4>2 DEF WellJoined
      <4>4. i - 1 \in 1 .. Len(w)
        BY <1>1, <4>1, <4>3
      <4>5. QED
        BY <1>1, <2>1, <4>1, <4>3, <4>4
    <3>3. QED
      BY <3>1, <3>2
  <2>5. QED
    BY <2>4 DEF WellJoined, v
<1>4. QED
  BY <1>2, <1>3

LEMMA JoinFieldsWell ==
    ASSUME NEW t \in Seq(Character)
    PROVE  JoinFields(t) \in Seq(Character) /\ WellJoined(JoinFields(t))
<1> DEFINE Proper(acc) == WellJoined(acc.words) /\ (acc.due => acc.words # <<>>)
           S == {s \in Seq(Character) : Proper(Gathered(s))}
<1>1. <<>> \in S
  <2>1. WellJoined(<<>>)
    BY EmptySeq DEF WellJoined
  <2>2. QED
    BY <2>1, GatherStep, EmptySeq DEF NoFields
<1>2. ASSUME NEW s \in Seq(Character), NEW c \in Character, s \in S
      PROVE  Append(s, c) \in S
  <2> DEFINE acc == Gathered(s)
  <2>1. /\ acc \in Fields /\ Proper(acc)
        /\ Append(s, c) \in Seq(Character) /\ Gathered(Append(s, c)) = Gather(acc, c)
    BY <1>2, GatherStep, AppendProperties
  <2>2. acc.words \in Seq(Character) /\ acc.due \in BOOLEAN
    BY <2>1 DEF Fields
  <2> HIDE DEF acc
  <2>3. CASE c \in Space
    <3>1. Gather(acc, c).words = acc.words /\ Gather(acc, c).due = (acc.words # <<>>)
      BY <2>1, <2>3 DEF Gather, Fields
    <3>2. QED
      BY <2>1, <3>1
  <2>4. CASE c \notin Space
    <3>1. /\ Gather(acc, c).words = acc.words \o (IF acc.due THEN <<Blank, c>> ELSE <<c>>)
          /\ Gather(acc, c).due = FALSE
      BY <2>4 DEF Gather
    <3>2. WellJoined(Gather(acc, c).words)
      BY <2>1, <2>2, <2>4, <3>1, WellJoinedGrows
    <3>3. QED
      BY <2>1, <3>1, <3>2
  <2>5. QED
    BY <2>3, <2>4
<1>3. Seq(Character) \subseteq S
  <2> HIDE DEF S
  <2>1. QED
    BY <1>1, <1>2, SequencesByInduction
<1>4. Gathered(t).words \in Seq(Character)
  BY GatherStep DEF Fields
<1>5. QED
  BY <1>3, <1>4, JoinFieldsUnfold

LEMMA JoinFieldsNarrow ==
    ASSUME NEW t \in Seq(Narrow)
    PROVE  JoinFields(t) \in Seq(Narrow)
<1> DEFINE S == {s \in Seq(Narrow) : Gathered(s).words \in Seq(Narrow)}
<1>1. <<>> \in S
  <2>1. Gathered(<<>>).words = <<>>
    BY GatherStep DEF NoFields
  <2>2. <<>> \in Seq(Narrow)
    BY EmptySeq
  <2>3. QED
    BY <2>1, <2>2
<1>2. ASSUME NEW s \in Seq(Narrow), NEW c \in Narrow, s \in S
      PROVE  Append(s, c) \in S
  <2> DEFINE acc == Gathered(s)
  <2>1. s \in Seq(Character) /\ c \in Character /\ Blank \in Narrow
    BY NarrowIsCharacter DEF Narrow
  <2>2. /\ acc \in Fields /\ acc.words \in Seq(Narrow)
        /\ Append(s, c) \in Seq(Narrow) /\ Gathered(Append(s, c)) = Gather(acc, c)
    BY <1>2, <2>1, GatherStep, AppendProperties
  <2> HIDE DEF acc
  <2>3. CASE c \in Space
    <3>1. Gather(acc, c).words = acc.words
      BY <2>2, <2>3 DEF Gather, Fields
    <3>2. QED
      BY <2>2, <3>1
  <2>4. CASE c \notin Space
    <3>1. Gather(acc, c).words = acc.words \o (IF acc.due THEN <<Blank, c>> ELSE <<c>>)
      BY <2>4 DEF Gather
    <3>2. <<Blank, c>> \in Seq(Narrow) /\ <<c>> \in Seq(Narrow)
      BY <2>1
    <3>3. Gather(acc, c).words \in Seq(Narrow)
      BY <2>2, <3>1, <3>2, ConcatProperties
    <3>4. QED
      BY <2>2, <3>3
  <2>5. QED
    BY <2>3, <2>4
<1>3. Seq(Narrow) \subseteq S
  <2> HIDE DEF S
  <2>1. QED
    BY <1>1, <1>2, SequencesByInduction
<1>4. QED
  BY <1>3, JoinFieldsUnfold

LEMMA TrimSpaceType ==
    ASSUME NEW C, NEW t \in Seq(C)
    PROVE  TrimSpace(t) \in Seq(C)
<1> DEFINE solid == {i \in DOMAIN t : t[i] \notin Space}
<1>1. PICK n \in Nat : DOMAIN t = 1 .. n /\ \A i \in 1 .. n : t[i] \in C
  BY LenProperties, ElementOfSeq
<1>2. CASE solid = {}
  BY <1>2, EmptySeq DEF TrimSpace
<1>3. CASE solid # {}
  <2>1. solid \in SUBSET (1 .. n) /\ solid \in SUBSET (0 .. n) /\ solid \in SUBSET Nat
    BY <1>1
  <2>2. TrimSpace(t) = SubSeq(t, Min(solid), Max(solid))
    BY <1>3 DEF TrimSpace
  <2> HIDE DEF solid
  <2>3. Min(solid) \in 1 .. n /\ Max(solid) \in 1 .. n
    BY <1>3, <2>1, MinExists, MaxExists
  <2>4. \A i \in Min(solid) .. Max(solid) : t[i] \in C
    BY <1>1, <2>3
  <2>5. QED
    BY <2>2, <2>3, <2>4, SubSeqProperties
<1>4. QED
  BY <1>2, <1>3

-----------------------------------------------------------------------------
(* Cutting a text. *)

Marked == Character \cup {Broken, Ellipsis}

LEMMA BeginningOf ==
    ASSUME NEW C, NEW t \in Seq(C), NEW k \in 0 .. Len(t)
    PROVE  /\ SubSeq(t, 1, k) \in Seq(C) /\ Len(SubSeq(t, 1, k)) = k
           /\ \A i \in 1 .. k : SubSeq(t, 1, k)[i] = t[i]
<1>1. Len(t) \in Nat /\ \A i \in 1 .. Len(t) : t[i] \in C
  BY LenProperties, ElementOfSeq
<1>2. k \in Nat /\ \A i \in 1 .. k : t[i] \in C
  BY <1>1
<1>3. QED
  BY <1>2, SubSeqProperties

(* The first k characters of a text and l bytes of the next. *)
Torn(k, l, t) == SubSeq(t, 1, k) \o [i \in 1 .. l |-> Broken]

(* A cut keeps a beginning of the text and at most the bytes it may: of the *)
(* character cut through, the bytes that are left.                          *)
LEMMA SliceShape ==
    ASSUME NEW t \in Seq(Character), NEW n \in Nat
    PROVE  \E k \in 0 .. Len(t), l \in Nat :
              /\ k + l <= n
              /\ Slice(t, n) = Torn(k, l, t)
              /\ t \in Seq(Narrow) /\ n <= Len(t) => k = n /\ l = 0
<1> DEFINE size(k) == Bytes(SubSeq(t, 1, k))
           fits == {k \in 0 .. Len(t) : size(k) <= n}
           whole == Max(fits)
           left == n - size(whole)
<1>1. Len(t) \in Nat
  BY LenProperties
<1>2. \A k \in 0 .. Len(t) : size(k) \in Nat /\ k <= size(k)
  <2>1. TAKE k \in 0 .. Len(t)
  <2>2. SubSeq(t, 1, k) \in Seq(Character) /\ Len(SubSeq(t, 1, k)) = k
    BY BeginningOf
  <2>3. QED
    BY <2>2, BytesCountCharacters
<1>3. 0 \in fits
  <2>1. SubSeq(t, 1, 0) = <<>>
    BY SubSeqEmpty
  <2>2. size(0) = 0
    BY <2>1, BytesStep
  <2>3. QED
    BY <1>1, <2>2
<1>4. whole \in fits /\ \A k \in fits : whole >= k
  <2>1. fits \in SUBSET (0 .. Len(t))
    OBVIOUS
  <2> HIDE DEF fits
  <2>2. QED
    BY <1>1, <1>3, <2>1, MaxExists
<1>5. Slice(t, n) = Torn(whole, left, t)
  BY DEF Slice, Torn
<1> HIDE DEF whole
<1>6. whole \in 0 .. Len(t) /\ size(whole) <= n /\ \A k \in 0 .. Len(t) : size(k) <= n => whole >= k
  BY <1>4
<1> HIDE DEF fits, size
<1>7. left \in Nat /\ whole + left <= n
  BY <1>1, <1>2, <1>6
<1>8. ASSUME t \in Seq(Narrow), n <= Len(t) PROVE whole = n /\ left = 0
  <2>1. \A k \in 0 .. Len(t) : size(k) = k
    <3>1. TAKE k \in 0 .. Len(t)
    <3>2. SubSeq(t, 1, k) \in Seq(Narrow) /\ Len(SubSeq(t, 1, k)) = k
      BY <1>8, BeginningOf
    <3>3. QED
      BY <3>2, BytesOfNarrow DEF size
  <2>2. n \in 0 .. Len(t)
    BY <1>1, <1>8
  <2>3. size(n) = n /\ size(whole) = whole
    BY <1>6, <2>1, <2>2
  <2>4. QED
    BY <1>1, <1>6, <2>2, <2>3
<1> HIDE DEF left
<1>9. QED
  BY <1>5, <1>6, <1>7, <1>8

(* A shortened text: its first k characters, and something after them that *)
(* is not of the text.                                                     *)
CutAt(k, shown, t, n) ==
    /\ n > 0 /\ shown \in Seq(Marked)
    /\ Len(shown) \in k + 1 .. n
    /\ \A i \in 1 .. k : shown[i] = t[i]
    /\ \A i \in k + 1 .. Len(shown) : shown[i] \in {Broken, Ellipsis}

(* What is shown of a text: all of it, if its bytes are within the limit, or *)
(* a beginning of it and no more than the limit has room for.                *)
LEMMA ShortenShape ==
    ASSUME NEW t \in Seq(Character), NEW n \in Int
    PROVE  \/ Shorten(t, n) = t /\ (n > 0 => Bytes(t) <= n)
           \/ \E k \in 0 .. Len(t) : CutAt(k, Shorten(t, n), t, n)
<1>1. Len(t) \in Nat /\ Bytes(t) \in Nat /\ Ellipsis \in Marked /\ Broken \in Marked
  BY LenProperties, BytesStep DEF Marked
<1> DEFINE dots == <<Ellipsis>>
<1>2. dots \in Seq(Marked) /\ Len(dots) = 1 /\ dots[1] = Ellipsis
  <2>1. dots \in Seq(Marked)
    BY <1>1
  <2>2. Len(dots) = 1 /\ dots[1] = Ellipsis
    OBVIOUS
  <2>3. QED
    BY <2>1, <2>2
<1>3. CASE n <= 0 \/ Bytes(t) <= n
  BY <1>1, <1>3 DEF Shorten
<1>4. CASE n = 1 /\ ~(Bytes(t) <= n)
  <2>1. Shorten(t, n) = dots
    BY <1>1, <1>4 DEF Shorten
  <2> HIDE DEF dots
  <2>2. PICK k \in 0 .. Len(t) : k = 0
    BY <1>1
  <2>3. CutAt(k, dots, t, n)
    BY <1>2, <1>4, <2>2 DEF CutAt
  <2>4. QED
    BY <2>1, <2>3
<1>5. CASE n > 1 /\ ~(Bytes(t) <= n)
  <2>1. PICK m \in Nat : m = n - 1 /\ m + 1 = n
    BY <1>5
  <2>2. Shorten(t, n) = Slice(t, m) \o dots
    BY <1>1, <1>5, <2>1 DEF Shorten
  <2>3. PICK k \in 0 .. Len(t), l \in Nat :
           k + l <= m /\ Slice(t, m) = Torn(k, l, t)
    BY SliceShape
  <2> DEFINE begun == SubSeq(t, 1, k)
             rest == [i \in 1 .. l |-> Broken]
             cut == begun \o rest
             shown == cut \o dots
  <2>4. /\ begun \in Seq(Marked) /\ Len(begun) = k
        /\ \A i \in 1 .. k : begun[i] = t[i]
    <3>1. begun \in Seq(Character) /\ Character \subseteq Marked
      BY BeginningOf DEF Marked
    <3>2. begun \in Seq(Marked)
      <4> HIDE DEF begun
      <4>1. QED
        BY <3>1, SeqMonotonic
    <3>3. QED
      BY <3>2, BeginningOf
  <2>5. rest \in Seq(Marked) /\ Len(rest) = l /\ \A i \in 1 .. l : rest[i] = Broken
    <3>1. rest \in [1 .. l -> Marked]
      BY <1>1
    <3>2. rest \in Seq(Marked)
      BY <3>1, SeqDef
    <3>3. DOMAIN rest = 1 .. Len(rest) /\ Len(rest) \in Nat
      BY <3>2, LenProperties
    <3>4. QED
      BY <3>2, <3>3
  <2>6. Shorten(t, n) = shown
    BY <2>2, <2>3 DEF Torn
  <2>7. k \in Nat /\ Len(t) \in Nat
    BY <1>1
  <2> HIDE DEF begun, rest, dots
  <2>8. /\ cut \in Seq(Marked) /\ Len(cut) = k + l
        /\ \A i \in 1 .. k : cut[i] = t[i]
        /\ \A i \in k + 1 .. k + l : cut[i] = Broken
    <3>1. /\ cut \in Seq(Marked) /\ Len(cut) = Len(begun) + Len(rest)
          /\ \A i \in 1 .. Len(begun) + Len(rest) :
                cut[i] = IF i <= Len(begun) THEN begun[i] ELSE rest[i - Len(begun)]
      <4>1. begun \in Seq(Marked) /\ rest \in Seq(Marked)
        BY <2>4, <2>5
      <4>2. QED
        BY <4>1, ConcatProperties
    <3> HIDE DEF cut
    <3>2. \A i \in 1 .. k : cut[i] = t[i]
      BY <2>4, <2>5, <2>7, <3>1
    <3>3. \A i \in k + 1 .. k + l : cut[i] = Broken
      BY <2>4, <2>5, <2>7, <3>1
    <3>4. QED
      BY <2>4, <2>5, <3>1, <3>2, <3>3
  <2> HIDE DEF cut
  <2>9. /\ shown \in Seq(Marked) /\ Len(shown) = k + l + 1
        /\ \A i \in 1 .. k : shown[i] = t[i]
        /\ \A i \in k + 1 .. k + l + 1 : shown[i] \in {Broken, Ellipsis}
    <3>1. /\ shown \in Seq(Marked) /\ Len(shown) = Len(cut) + Len(dots)
          /\ \A i \in 1 .. Len(cut) + Len(dots) :
                shown[i] = IF i <= Len(cut) THEN cut[i] ELSE dots[i - Len(cut)]
      <4>1. cut \in Seq(Marked) /\ dots \in Seq(Marked)
        BY <1>2, <2>8
      <4>2. QED
        BY <4>1, ConcatProperties
    <3> HIDE DEF shown
    <3>2. \A i \in 1 .. k : shown[i] = t[i]
      BY <1>2, <2>7, <2>8, <3>1
    <3>3. \A i \in k + 1 .. k + l + 1 : shown[i] \in {Broken, Ellipsis}
      <4>1. TAKE i \in k + 1 .. k + l + 1
      <4>2. CASE i <= k + l
        BY <1>2, <2>7, <2>8, <3>1, <4>2
      <4>3. CASE i = k + l + 1
        BY <1>2, <2>7, <2>8, <3>1, <4>3
      <4>4. QED
        BY <2>7, <4>2, <4>3
    <3>4. QED
      BY <1>2, <2>8, <3>1, <3>2, <3>3
  <2> HIDE DEF shown
  <2>10. CutAt(k, shown, t, n)
    BY <1>5, <2>1, <2>3, <2>7, <2>9 DEF CutAt
  <2>11. QED
    BY <2>6, <2>10
<1>6. QED
  BY <1>1, <1>3, <1>4, <1>5

(* Of a text of one-byte characters, as many as there are bytes. *)
LEMMA ShortenNarrow ==
    ASSUME NEW t \in Seq(Narrow), NEW n \in Int
    PROVE  Shorten(t, n) = ShortenCharacters(t, n)
<1>1. t \in Seq(Character) /\ Len(t) \in Nat /\ Bytes(t) = Len(t)
  BY NarrowIsCharacter, LenProperties, BytesOfNarrow
<1>2. CASE n <= 0 \/ Len(t) <= n
  BY <1>1, <1>2 DEF Shorten, ShortenCharacters
<1> DEFINE dots == <<Ellipsis>>
<1>3. CASE n = 1 /\ ~(Len(t) <= n)
  <2>1. Shorten(t, n) = dots
    BY <1>1, <1>3 DEF Shorten
  <2>2. ShortenCharacters(t, n) = SubSeq(t, 1, 0) \o dots
    BY <1>1, <1>3 DEF ShortenCharacters
  <2>3. SubSeq(t, 1, 0) = <<>>
    BY SubSeqEmpty
  <2>4. dots \in Seq({Ellipsis})
    OBVIOUS
  <2> HIDE DEF dots
  <2>5. <<>> \o dots = dots
    BY <2>4, ConcatEmptySeq
  <2>6. QED
    BY <2>1, <2>2, <2>3, <2>5
<1>4. CASE n > 1 /\ ~(Len(t) <= n)
  <2>1. PICK m \in Nat : m = n - 1 /\ m <= Len(t)
    BY <1>1, <1>4
  <2>2. Shorten(t, n) = Slice(t, m) \o dots
    BY <1>1, <1>4, <2>1 DEF Shorten
  <2>3. ShortenCharacters(t, n) = SubSeq(t, 1, m) \o dots
    BY <1>1, <1>4, <2>1 DEF ShortenCharacters
  <2>4. Slice(t, m) = Torn(m, 0, t)
    BY <1>1, <2>1, SliceShape
  <2>5. SubSeq(t, 1, m) \in Seq(Narrow)
    BY <1>1, <2>1, BeginningOf
  <2> DEFINE begun == SubSeq(t, 1, m)
             none == [i \in 1 .. 0 |-> Broken]
  <2>6. none = <<>>
    OBVIOUS
  <2>7. Torn(m, 0, t) = begun \o none
    BY DEF Torn
  <2> HIDE DEF begun, none
  <2>8. begun \o <<>> = begun
    BY <2>5, ConcatEmptySeq DEF begun
  <2>9. QED
    BY <2>2, <2>3, <2>4, <2>6, <2>7, <2>8 DEF begun
<1>5. QED
  BY <1>2, <1>3, <1>4

(* A limit is a limit in characters. *)
LEMMA ShortenLength ==
    ASSUME NEW t \in Seq(Character), NEW n \in Int
    PROVE  /\ Shorten(t, n) \in Seq(Marked)
           /\ n > 0 => Len(Shorten(t, n)) <= n
<1>1. CASE Shorten(t, n) = t /\ (n > 0 => Bytes(t) <= n)
  <2>1. Character \subseteq Marked
    BY DEF Marked
  <2>2. t \in Seq(Marked)
    BY <2>1, SeqMonotonic
  <2>3. QED
    BY <1>1, <2>2, BytesCountCharacters
<1>2. ASSUME NEW k \in 0 .. Len(t), CutAt(k, Shorten(t, n), t, n)
      PROVE  Shorten(t, n) \in Seq(Marked) /\ Len(Shorten(t, n)) <= n
  BY <1>2, LenProperties DEF CutAt
<1>3. QED
  BY <1>1, <1>2, ShortenShape

(* What is joined has single blanks between words, and a cut keeps it so. *)
LEMMA ShortenJoined ==
    ASSUME NEW w \in Seq(Character), WellJoined(w), NEW n \in Int
    PROVE  \A i \in 1 .. Len(Shorten(w, n)) :
              Shorten(w, n)[i] \in Space =>
                 /\ Shorten(w, n)[i] = Blank /\ i > 1
                 /\ Shorten(w, n)[i - 1] \notin Space
<1> DEFINE shown == Shorten(w, n)
<1>1. ASSUME shown = w, NEW i \in 1 .. Len(shown), shown[i] \in Space
      PROVE  shown[i] = Blank /\ i > 1 /\ shown[i - 1] \notin Space
  <2> HIDE DEF shown
  <2>1. QED
    BY <1>1 DEF WellJoined
<1>2. ASSUME NEW k \in 0 .. Len(w), CutAt(k, shown, w, n),
             NEW i \in 1 .. Len(shown), shown[i] \in Space
      PROVE  shown[i] = Blank /\ i > 1 /\ shown[i - 1] \notin Space
  <2>1. Len(w) \in Nat /\ Broken \notin Space /\ Ellipsis \notin Space
    BY LenProperties, PreviewAssumption
  <2> HIDE DEF shown
  <2>2. /\ Len(shown) \in Nat /\ \A j \in 1 .. k : shown[j] = w[j]
        /\ \A j \in k + 1 .. Len(shown) : shown[j] \in {Broken, Ellipsis}
    BY <1>2, LenProperties DEF CutAt
  <2>3. i \in 1 .. k /\ i \in 1 .. Len(w)
    BY <1>2, <2>1, <2>2
  <2>4. w[i] = Blank /\ i > 1 /\ w[i - 1] \notin Space
    BY <1>2, <2>2, <2>3 DEF WellJoined
  <2>5. i - 1 \in 1 .. k
    BY <2>1, <2>3, <2>4
  <2>6. QED
    BY <2>2, <2>3, <2>4, <2>5
<1>3. QED
  <2>1. shown = w \/ \E k \in 0 .. Len(w) : CutAt(k, shown, w, n)
    BY ShortenShape
  <2> HIDE DEF shown
  <2>2. \A i \in 1 .. Len(shown) :
           shown[i] \in Space => shown[i] = Blank /\ i > 1 /\ shown[i - 1] \notin Space
    BY <1>1, <1>2, <2>1
  <2>3. QED
    BY <2>2 DEF shown

-----------------------------------------------------------------------------
(* A detail of a tool call: headings, shortened texts and line ends. *)

Heading == {"args: ", "result: ", "code:", "input:", "result:"}

Printed == Marked \cup Heading

LEMMA MarkedIsPrinted == \A r \in Seq(Marked) : r \in Seq(Printed)
<1>1. Marked \subseteq Printed
  BY DEF Printed
<1>2. QED
  BY <1>1, SeqMonotonic

(* Two parts of a detail, one after the other. *)
LEMMA PrintedTogether ==
    ASSUME NEW p \in Seq(Printed), NEW q \in Seq(Printed)
    PROVE  /\ p \o q \in Seq(Printed) /\ Len(p \o q) = Len(p) + Len(q)
           /\ Len(p) \in Nat /\ Len(q) \in Nat
           /\ \A i \in 1 .. Len(p) : (p \o q)[i] = p[i]
           /\ \A i \in 1 .. Len(q) : (p \o q)[Len(p) + i] = q[i]
<1> DEFINE r == p \o q
<1>1. Len(p) \in Nat /\ Len(q) \in Nat
  BY LenProperties
<1>2. /\ r \in Seq(Printed) /\ Len(r) = Len(p) + Len(q)
      /\ \A i \in 1 .. Len(p) + Len(q) :
            r[i] = IF i <= Len(p) THEN p[i] ELSE q[i - Len(p)]
  BY ConcatProperties
<1> HIDE DEF r
<1>3. \A i \in 1 .. Len(p) : r[i] = p[i]
  BY <1>1, <1>2
<1>4. \A i \in 1 .. Len(q) : r[Len(p) + i] = q[i]
  <2>1. TAKE i \in 1 .. Len(q)
  <2>2. PICK j \in Nat : j = Len(p) + i
    BY <1>1
  <2>3. j \in 1 .. Len(p) + Len(q) /\ ~(j <= Len(p)) /\ j - Len(p) = i
    BY <1>1, <2>2
  <2>4. r[j] = q[i]
    BY <1>2, <2>3
  <2>5. QED
    BY <2>2, <2>4
<1>5. QED
  BY <1>1, <1>2, <1>3, <1>4 DEF r

(* A text under a heading begins with the one and ends its line. *)
Ended(d, first, most) ==
    /\ d \in Seq(Printed) /\ Len(d) \in 2 .. most
    /\ d[1] = first /\ d[Len(d)] = LineEnd

LEMMA HeadAndLast ==
    ASSUME NEW d, NEW first, NEW most \in Nat, Ended(d, first, most)
    PROVE  Head(d) = first /\ Last(d) = LineEnd /\ Len(d) <= most /\ Len(d) \in Nat
<1>1. d \in Seq(Printed) /\ Len(d) \in 2 .. most /\ d[1] = first /\ d[Len(d)] = LineEnd
  BY DEF Ended
<1>2. Head(d) = d[1] /\ Last(d) = d[Len(d)]
  BY <1>1, HeadTailProperties, EmptySeq DEF Last
<1>3. QED
  BY <1>1, <1>2

LEMMA OnALine ==
    ASSUME NEW h \in Heading, NEW r \in Seq(Marked), NEW n \in Nat, Len(r) <= n
    PROVE  /\ Ended(<<h>> \o r \o <<LineEnd>>, h, n + 2)
           /\ Len(<<h>> \o r \o <<LineEnd>>) = Len(r) + 2
           /\ \A i \in 1 .. Len(r) : (<<h>> \o r \o <<LineEnd>>)[i + 1] = r[i]
<1> DEFINE head == <<h>>
           end == <<LineEnd>>
           begun == head \o r
           d == begun \o end
<1>1. h \in Printed /\ LineEnd \in Printed
  BY PreviewAssumption DEF Printed, Marked
<1>2. head \in Seq(Printed) /\ end \in Seq(Printed)
  BY <1>1
<1>3. Len(head) = 1 /\ head[1] = h /\ Len(end) = 1 /\ end[1] = LineEnd
  OBVIOUS
<1>4. r \in Seq(Printed) /\ Len(r) \in Nat
  BY MarkedIsPrinted, LenProperties
<1> HIDE DEF head, end
<1>5. /\ begun \in Seq(Printed) /\ Len(begun) = Len(r) + 1 /\ begun[1] = h
      /\ \A i \in 1 .. Len(r) : begun[1 + i] = r[i]
  <2>1. /\ begun \in Seq(Printed) /\ Len(begun) = Len(head) + Len(r)
        /\ \A i \in 1 .. Len(head) : begun[i] = head[i]
        /\ \A i \in 1 .. Len(r) : begun[Len(head) + i] = r[i]
    BY <1>2, <1>4, PrintedTogether
  <2> HIDE DEF begun
  <2>2. QED
    BY <1>3, <1>4, <2>1
<1> HIDE DEF begun
<1>6. /\ d \in Seq(Printed) /\ Len(d) = Len(r) + 2
      /\ \A i \in 1 .. Len(r) + 1 : d[i] = begun[i]
      /\ d[Len(r) + 2] = LineEnd
  <2>1. /\ d \in Seq(Printed) /\ Len(d) = Len(begun) + Len(end)
        /\ \A i \in 1 .. Len(begun) : d[i] = begun[i]
        /\ \A i \in 1 .. Len(end) : d[Len(begun) + i] = end[i]
    BY <1>2, <1>5, PrintedTogether
  <2> HIDE DEF d
  <2>2. Len(r) + 1 + 1 = Len(r) + 2
    BY <1>4
  <2>3. QED
    BY <1>3, <1>4, <1>5, <2>1, <2>2
<1> HIDE DEF d
<1>7. Ended(d, h, n + 2)
  BY <1>4, <1>5, <1>6 DEF Ended
<1>8. \A i \in 1 .. Len(r) : d[i + 1] = r[i]
  BY <1>4, <1>5, <1>6
<1>9. QED
  BY <1>6, <1>7, <1>8 DEF d, begun, head, end

LEMMA SectionEnded ==
    ASSUME NEW h \in Heading, NEW t \in Seq(Character), NEW n \in Nat \ {0}
    PROVE  Ended(Section(h, t, n), h, n + 3)
<1> DEFINE head == <<h, LineEnd>>
           end == <<LineEnd>>
           r == TruncateMultiline(t, n)
           begun == head \o r
           d == begun \o end
<1>1. h \in Printed /\ LineEnd \in Printed
  BY PreviewAssumption DEF Printed, Marked
<1>2. head \in Seq(Printed) /\ end \in Seq(Printed)
  BY <1>1
<1>3. Len(head) = 2 /\ head[1] = h /\ Len(end) = 1 /\ end[1] = LineEnd
  OBVIOUS
<1>4. r \in Seq(Printed) /\ Len(r) \in 0 .. n
  <2>1. TrimSpace(t) \in Seq(Character) /\ n \in Int /\ n > 0
    BY TrimSpaceType
  <2>2. r \in Seq(Marked) /\ Len(r) <= n
    BY <2>1, ShortenLength DEF TruncateMultiline
  <2>3. QED
    BY <2>2, MarkedIsPrinted, LenProperties
<1>5. Section(h, t, n) = d
  BY DEF Section
<1> HIDE DEF head, end, r
<1>6. begun \in Seq(Printed) /\ Len(begun) = Len(r) + 2 /\ begun[1] = h
  <2>1. /\ begun \in Seq(Printed) /\ Len(begun) = Len(head) + Len(r)
        /\ \A i \in 1 .. Len(head) : begun[i] = head[i]
    BY <1>2, <1>4, PrintedTogether
  <2> HIDE DEF begun
  <2>2. QED
    BY <1>3, <1>4, <2>1
<1> HIDE DEF begun
<1>7. d \in Seq(Printed) /\ Len(d) = Len(r) + 3 /\ d[1] = h /\ d[Len(r) + 3] = LineEnd
  <2>1. /\ d \in Seq(Printed) /\ Len(d) = Len(begun) + Len(end)
        /\ \A i \in 1 .. Len(begun) : d[i] = begun[i]
        /\ \A i \in 1 .. Len(end) : d[Len(begun) + i] = end[i]
    BY <1>2, <1>6, PrintedTogether
  <2> HIDE DEF d
  <2>2. Len(r) + 2 + 1 = Len(r) + 3 /\ 1 \in 1 .. Len(r) + 2
    BY <1>4
  <2>3. QED
    BY <1>3, <1>4, <1>6, <2>1, <2>2
<1> HIDE DEF d
<1>8. Ended(d, h, n + 3)
  BY <1>4, <1>7 DEF Ended
<1>9. QED
  BY <1>5, <1>8

LEMMA TwoEnded ==
    ASSUME NEW p, NEW q, NEW h, NEW k, NEW n \in Nat, Ended(p, h, n), Ended(q, k, n)
    PROVE  Ended(p \o q, h, n + n)
<1> DEFINE d == p \o q
<1>1. /\ p \in Seq(Printed) /\ Len(p) \in 2 .. n /\ p[1] = h
      /\ q \in Seq(Printed) /\ Len(q) \in 2 .. n /\ q[Len(q)] = LineEnd
  BY DEF Ended
<1>2. /\ d \in Seq(Printed) /\ Len(d) = Len(p) + Len(q)
      /\ \A i \in 1 .. Len(p) : d[i] = p[i]
      /\ \A i \in 1 .. Len(q) : d[Len(p) + i] = q[i]
  BY <1>1, PrintedTogether
<1> HIDE DEF d
<1>3. QED
  BY <1>1, <1>2 DEF Ended, d

-----------------------------------------------------------------------------
(* The state is any text, with any of the limits. *)
Input == text \in Seq(Character) /\ limit \in Int

LEMMA InputAlways == Spec => []Input
<1>1. Init => Input
  BY PreviewAssumption, EmptySeq DEF Init, Input
<1>2. Input /\ [Next]_vars => Input'
  <2> SUFFICES ASSUME Input, [Next]_vars PROVE Input'
    OBVIOUS
  <2>1. ASSUME NEW c \in Character, Type(c) PROVE Input'
    BY <2>1, AppendProperties DEF Input, Type
  <2>2. CASE UNCHANGED vars
    BY <2>2 DEF Input, vars
  <2>3. QED
    BY <2>1, <2>2 DEF Next
<1>3. QED
  BY <1>1, <1>2, PTL DEF Spec

(* What truncateOneLine and truncateMultiline return: of any text, for any     *)
(* limit that is one, no more characters than the limit, though both compare   *)
(* and cut bytes: a character has a byte at least, and the byte the ellipsis   *)
(* is counted for is taken from the text.                                      *)
THEOREM PreviewsWithinLimit == Spec => []WithinLimit
<1>1. Input => WithinLimit
  <2> SUFFICES ASSUME Input, limit > 0
               PROVE  /\ Len(TruncateOneLine(text, limit)) <= limit
                      /\ Len(TruncateMultiline(text, limit)) <= limit
    BY DEF WithinLimit
  <2>1. text \in Seq(Character) /\ limit \in Int
    BY DEF Input
  <2>2. JoinFields(text) \in Seq(Character) /\ TrimSpace(text) \in Seq(Character)
    BY <2>1, JoinFieldsWell, TrimSpaceType
  <2>3. QED
    BY <2>1, <2>2, ShortenLength DEF TruncateOneLine, TruncateMultiline
<1>2. QED
  BY <1>1, InputAlways, PTL

(* On texts of one-byte characters, of any length, the two functions are the  *)
(* shortening in characters that the flag describes: no character is lost     *)
(* that would have fitted, and none is broken.                                *)
THEOREM PreviewsExactOnBytes == Spec => []ExactOnBytes
<1>1. Input => ExactOnBytes
  <2> SUFFICES ASSUME Input, \A i \in DOMAIN text : Width[text[i]] = 1
               PROVE  /\ TruncateOneLine(text, limit)
                            = ShortenCharacters(JoinFields(text), limit)
                      /\ TruncateMultiline(text, limit)
                            = ShortenCharacters(TrimSpace(text), limit)
    BY DEF ExactOnBytes
  <2>1. text \in Seq(Narrow) /\ limit \in Int
    BY NarrowIsCharacter DEF Input
  <2>2. JoinFields(text) \in Seq(Narrow) /\ TrimSpace(text) \in Seq(Narrow)
    BY <2>1, JoinFieldsNarrow, TrimSpaceType
  <2>3. QED
    BY <2>1, <2>2, ShortenNarrow DEF TruncateOneLine, TruncateMultiline
<1>2. QED
  BY <1>1, InputAlways, PTL

(* What truncateOneLine returns has no space but single blanks after its first *)
(* character, whatever the text and wherever it was cut.                       *)
LEMMA OneLineShown ==
    ASSUME NEW t \in Seq(Character), NEW n \in Int
    PROVE  \A i \in 1 .. Len(TruncateOneLine(t, n)) :
              TruncateOneLine(t, n)[i] \in Space =>
                 /\ TruncateOneLine(t, n)[i] = Blank /\ i > 1
                 /\ TruncateOneLine(t, n)[i - 1] \notin Space
<1>1. JoinFields(t) \in Seq(Character) /\ WellJoined(JoinFields(t))
  BY JoinFieldsWell
<1>2. QED
  BY <1>1, ShortenJoined DEF TruncateOneLine

(* The one-line previews of the stream and the rows of chat inspect are one *)
(* line of words with single blanks between them.                           *)
THEOREM PreviewsOnOneLine == Spec => []OneLine
<1>1. Input => OneLine
  <2> SUFFICES ASSUME Input PROVE OneLine
    OBVIOUS
  <2> DEFINE shown == TruncateOneLine(text, limit)
  <2>1. text \in Seq(Character) /\ limit \in Int /\ Blank \in Space
    BY PreviewAssumption DEF Input
  <2>2. shown \in Seq(Marked)
    BY <2>1, JoinFieldsWell, ShortenLength DEF TruncateOneLine
  <2>3. \A i \in 1 .. Len(shown) :
           shown[i] \in Space => shown[i] = Blank /\ i > 1 /\ shown[i - 1] \notin Space
    BY <2>1, OneLineShown
  <2> HIDE DEF shown
  <2>4. DOMAIN shown = 1 .. Len(shown)
    BY <2>2, LenProperties
  <2>5. \A i \in DOMAIN shown : shown[i] \in Space => shown[i] = Blank /\ i > 1
    BY <2>3, <2>4
  <2>6. \A i \in DOMAIN shown \ {1} : ~(shown[i] = Blank /\ shown[i - 1] = Blank)
    BY <2>1, <2>3, <2>4
  <2>7. QED
    BY <2>5, <2>6 DEF OneLine, shown
<1>2. QED
  BY <1>1, InputAlways, PTL

LEMMA DefaultIsALimit == DefaultLimit \in Nat /\ DefaultLimit > 0
<1>1. DefaultLimit \in Nat \ {0}
  BY PreviewAssumption
<1>2. QED
  BY <1>1

(* A detail on one line: its only line end is its last character. *)
LEMMA OneLineEnded ==
    ASSUME NEW h \in Heading, NEW t \in Seq(Character), NEW n \in Nat, n > 0
    PROVE  /\ Ended(<<h>> \o TruncateOneLine(t, n) \o <<LineEnd>>, h, n + 2)
           /\ \A i \in 2 .. Len(<<h>> \o TruncateOneLine(t, n) \o <<LineEnd>>) - 1 :
                 (<<h>> \o TruncateOneLine(t, n) \o <<LineEnd>>)[i] # LineEnd
<1> DEFINE r == TruncateOneLine(t, n)
           d == <<h>> \o r \o <<LineEnd>>
<1>1. n \in Int
  OBVIOUS
<1>2. r \in Seq(Marked) /\ Len(r) <= n
  BY <1>1, JoinFieldsWell, ShortenLength DEF TruncateOneLine
<1>3. \A i \in 1 .. Len(r) : r[i] \in Space => r[i] = Blank
  BY <1>1, OneLineShown
<1> HIDE DEF r
<1>4. \A i \in 1 .. Len(r) : r[i] # LineEnd
  BY <1>3, PreviewAssumption
<1>5. /\ Ended(d, h, n + 2) /\ Len(d) = Len(r) + 2
      /\ \A i \in 1 .. Len(r) : d[i + 1] = r[i]
  BY <1>2, OnALine
<1>6. Len(r) \in Nat
  BY <1>2, LenProperties
<1> HIDE DEF d
<1>7. ASSUME NEW i \in 2 .. Len(d) - 1 PROVE d[i] # LineEnd
  <2>1. PICK j \in 1 .. Len(r) : j = i - 1
    BY <1>5, <1>6
  <2>2. d[j + 1] # LineEnd
    BY <1>4, <1>5
  <2>3. j + 1 = i
    BY <1>6, <2>1
  <2>4. QED
    BY <2>2, <2>3
<1>8. QED
  BY <1>5, <1>7 DEF d, r

(* The details of a tool call, as formatToolInput and formatToolResult write  *)
(* them: they end their line, so that what the sink prints next starts one,   *)
(* no text makes them longer than the limit says and no flag turns the limit  *)
(* off; the args and result forms on one line have no other line end.         *)
THEOREM DetailsAreLines == Spec => []DetailsEndLines
<1>1. Input => DetailsEndLines
  <2> SUFFICES ASSUME Input PROVE DetailsEndLines
    OBVIOUS
  <2>1. text \in Seq(Character) /\ limit \in Int
    BY DEF Input
  <2>2. PICK n \in Nat : n > 0 /\ n = PreviewLimit(limit)
    BY <2>1, DefaultIsALimit DEF PreviewLimit
  <2>3. n \in Nat /\ n > 0
    BY <2>2
  <2> DEFINE OneLineForm(h) == <<h>> \o TruncateOneLine(text, n) \o <<LineEnd>>
             Good(d) == /\ Last(d) = LineEnd
                        /\ Len(d) <= 6 + 2 * n
                        /\ Head(d) \in {"args: ", "result: "} =>
                               \A i \in 1 .. Len(d) - 1 : d[i] # LineEnd
  <2>4. ASSUME NEW h, h \in {"args: ", "result: "} PROVE Good(OneLineForm(h))
    <3> DEFINE d == OneLineForm(h)
    <3>1. h \in Heading /\ h # LineEnd
      BY <2>4, PreviewAssumption DEF Heading
    <3>2. Ended(d, h, n + 2) /\ \A i \in 2 .. Len(d) - 1 : d[i] # LineEnd
      BY <2>1, <2>3, <3>1, OneLineEnded
    <3> HIDE DEF d
    <3>3. PICK m \in Nat : m = n + 2 /\ m <= 6 + 2 * n
      BY <2>3
    <3>4. Ended(d, h, m)
      BY <3>2, <3>3
    <3>5. Last(d) = LineEnd /\ Len(d) <= m /\ Len(d) \in Nat /\ d[1] = h
      BY <3>4, HeadAndLast DEF Ended
    <3>6. PICK length \in Nat : length = Len(d)
      BY <3>5
    <3>7. \A i \in 1 .. Len(d) - 1 : d[i] # LineEnd
      <4>1. TAKE i \in 1 .. Len(d) - 1
      <4>2. i = 1 \/ i \in 2 .. length - 1
        BY <3>6
      <4>3. QED
        BY <3>1, <3>2, <3>5, <3>6, <4>2
    <3>8. Len(d) <= 6 + 2 * n
      <4>1. length <= m /\ m \in Nat /\ m <= 6 + 2 * n
        BY <3>3, <3>5, <3>6
      <4>2. length <= 6 + 2 * n
        BY <2>3, <4>1
      <4>3. QED
        BY <3>6, <4>2
    <3>9. Good(d)
      BY <3>5, <3>7, <3>8
    <3>10. QED
      BY <3>9 DEF d
  <2>5. ASSUME NEW h, NEW d, NEW m \in Nat, Ended(d, h, m), m <= 6 + 2 * n,
               h \notin {"args: ", "result: "}
        PROVE  Good(d)
    <3>1. Head(d) = h /\ Last(d) = LineEnd /\ Len(d) <= m /\ Len(d) \in Nat
      BY <2>5, HeadAndLast
    <3>2. PICK length \in Nat : length = Len(d) /\ length <= m
      BY <3>1
    <3>3. m <= 6 + 2 * n
      BY <2>5
    <3>4. length <= 6 + 2 * n
      BY <2>3, <3>2, <3>3
    <3>5. QED
      BY <2>5, <3>1, <3>2, <3>4
  <2>6. ASSUME NEW h, h \in {"code:", "input:", "result:"}
        PROVE  /\ Ended(Section(h, text, n), h, n + 3)
               /\ h \notin {"args: ", "result: "}
    <3>1. h \in Heading /\ h \notin {"args: ", "result: "}
      BY <2>6 DEF Heading
    <3>2. n \in Nat \ {0}
      BY <2>3
    <3>3. QED
      BY <2>1, <3>1, <3>2, SectionEnded
  <2>7. PICK m \in Nat : m = n + 3 /\ m <= 6 + 2 * n /\ m + m <= 6 + 2 * n /\ m + m \in Nat
    BY <2>3
  <2>8. \A d \in FormatToolInput(text, n) : Good(d)
    <3> DEFINE code == Section("code:", text, n)
               given == Section("input:", text, n)
    <3>1. Good(OneLineForm("args: "))
      BY <2>4
    <3>2. /\ Ended(code, "code:", m) /\ Ended(given, "input:", m)
          /\ "code:" \notin {"args: ", "result: "}
      BY <2>6, <2>7
    <3> HIDE DEF code, given
    <3>3. Ended(code \o given, "code:", m + m)
      BY <3>2, TwoEnded
    <3>4. Good(code) /\ Good(code \o given)
      BY <2>5, <2>7, <3>2, <3>3
    <3>5. \A d \in FormatToolInput(text, n) :
             d \in {OneLineForm("args: "), code, code \o given}
      BY DEF FormatToolInput, code, given
    <3> HIDE DEF Good, OneLineForm
    <3>6. QED
      BY <3>1, <3>4, <3>5
  <2>9. \A d \in FormatToolResult(text, n) : Good(d)
    <3> DEFINE rest == Section("result:", text, n)
    <3>1. Good(OneLineForm("result: "))
      BY <2>4
    <3>2. Ended(rest, "result:", m) /\ "result:" \notin {"args: ", "result: "}
      BY <2>6, <2>7
    <3> HIDE DEF rest
    <3>3. Good(rest)
      BY <2>5, <2>7, <3>2
    <3>4. \A d \in FormatToolResult(text, n) : d \in {OneLineForm("result: "), rest}
      BY DEF FormatToolResult, rest
    <3> HIDE DEF Good, OneLineForm
    <3>5. QED
      BY <3>1, <3>3, <3>4
  <2>10. QED
    <3>1. \A d \in FormatToolInput(text, n) \cup FormatToolResult(text, n) : Good(d)
      <4> HIDE DEF Good
      <4>1. QED
        BY <2>8, <2>9
    <3>2. n = (IF limit > 0 THEN limit ELSE DefaultLimit)
      BY <2>1, <2>2, DefaultIsALimit DEF PreviewLimit
    <3>3. QED
      BY <2>2, <3>1, <3>2 DEF DetailsEndLines
<1>2. QED
  BY <1>1, InputAlways, PTL

===============================================================================
