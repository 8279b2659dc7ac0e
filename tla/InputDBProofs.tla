----------------------------- MODULE InputDBProofs -----------------------------
(***************************************************************************)
(* Theorems about the shared input database, for any number of processes   *)
(* and any documents: type correctness; an undisturbed process reads its   *)
(* own documents, and nobody loses a section, in a file that no program    *)
(* wrote into.                                                             *)
(***************************************************************************)
EXTENDS InputDB, SequenceTheorems, TLAPS

-----------------------------------------------------------------------------
(* The inductive invariants. *)

Left(p) == {todo[p][i] : i \in DOMAIN todo[p]}

(* Only a process that is ready has a connection, and only one that is *)
(* loading has sections left.                                          *)
ConnectedReady ==
    \A p \in Process :
        /\ db[p] # NoCopy => pc[p] = "ready"
        /\ todo[p] # <<>> => pc[p] = "loading"
        /\ Left(p) \subseteq OwnSections(p)

(* What p has loaded is in the copy, and without an old file nothing else. *)
LoadedInto(p, file) ==
    /\ OwnSections(p) \subseteq file.sections \cup Left(p)
    /\ file.sections \subseteq OwnSections(p) \/ kept[p]

(* As long as a process is alone and not connected, nobody else prepares the *)
(* file, so that the path names the copy it is building: one that a program  *)
(* attached after the removal, and created, is empty.                        *)
Building(p) ==
    /\ pc[p] \notin {"idle", "ended"} => Preparing \subseteq {p}
    /\ pc[p] = "removed" =>
          \/ path = NoCopy \/ kept[p] \/ path \in changed
          \/ copies[path].sections = {}
    /\ pc[p] = "loading" => store[p] = path
    /\ pc[p] \in {"loading", "view", "ready"} =>
          /\ path # NoCopy
          /\ copies[path].table
          /\ path \in changed \/ LoadedInto(p, copies[path])
    /\ pc[p] = "ready" => copies[path].view

BuildsAlone == \A p \in Process : alone[p] /\ db[p] = NoCopy => Building(p)

(* Once it is connected, nobody prepares its copy any more. *)
CopyLeftAlone ==
    \A p \in Process : alone[p] /\ db[p] # NoCopy =>
        \A q \in Process :
            /\ store[q] # db[p]
            /\ q \in Preparing => path # db[p]

(* What was answered is still in the copy that answers. *)
AnsweredStillThere ==
    \A p \in Process : answer[p] # {} =>
        \/ pc[p] = "ended"
        \/ db[p] \in changed
        \/ db[p] # NoCopy /\ Slugs(answer[p]) \subseteq Slugs(copies[db[p]].sections)

IndInv ==
    TypeOK /\ ConnectedReady /\ BuildsAlone /\ CopyLeftAlone /\ OwnDocuments

-----------------------------------------------------------------------------
(* Facts about copies. *)

LEMMA CopyTypes ==
    /\ EmptyFile \in Copy
    /\ \A p \in Process : CompleteCopy(p) \in Copy /\ OwnSections(p) \subseteq Section
<1>1. EmptyFile \in Copy
  BY DEF EmptyFile, Copy
<1>2. \A p \in Process : OwnSections(p) \subseteq Section
  <2> SUFFICES ASSUME NEW p \in Process, NEW s \in OwnSections(p) PROVE s \in Section
    OBVIOUS
  <2>1. PICK i \in DOMAIN Docs[p] : s = Docs[p][i]
    BY DEF OwnSections
  <2>2. Docs[p] \in Seq(Section)
    BY InputDBAssumption
  <2>3. QED
    BY <2>1, <2>2, LenProperties, ElementOfSeq
<1>3. \A p \in Process : CompleteCopy(p) \in Copy
  BY <1>2 DEF CompleteCopy, Copy
<1>4. QED
  BY <1>1, <1>2, <1>3

(* Opening the path for writing leaves every copy there is as it is. *)
LEMMA OpenedCopies ==
    ASSUME TypeOK, Opens
    PROVE  /\ Opened \in Seq(Copy)
           /\ path' \in 1 .. Len(Opened)
           /\ Len(copies) <= Len(Opened)
           /\ \A c \in 1 .. Len(copies) : Opened[c] = copies[c]
           /\ path # NoCopy => path' = path /\ Opened = copies
           /\ path = NoCopy => /\ path' = Len(copies) + 1
                               /\ Opened[path'] = EmptyFile
<1>1. copies \in Seq(Copy) /\ path \in 0 .. Len(copies)
  BY DEF TypeOK
<1>2. CASE path = NoCopy
  <2>1. path' = Len(copies) + 1 /\ Opened = Append(copies, EmptyFile)
    BY <1>2 DEF Opens, Opened
  <2>2. QED
    BY <1>1, <1>2, <2>1, CopyTypes, AppendProperties
<1>3. CASE path # NoCopy
  BY <1>1, <1>3 DEF Opens, Opened, NoCopy
<1>4. QED
  BY <1>2, <1>3

(* One field of one copy is changed. *)
LEMMA TableCreatedType ==
    ASSUME NEW s \in Seq(Copy), NEW i \in 1 .. Len(s)
    PROVE  [s EXCEPT ![i].table = TRUE] \in Seq(Copy)
<1>1. s[i] \in Copy
  BY ElementOfSeq
<1>2. PICK e \in Copy : e = [s[i] EXCEPT !.table = TRUE]
  BY <1>1 DEF Copy
<1>3. [s EXCEPT ![i] = e] \in Seq(Copy)
  OBVIOUS
<1>4. [s EXCEPT ![i].table = TRUE] = [s EXCEPT ![i] = e]
  BY <1>2
<1>5. QED
  BY <1>3, <1>4, Zenon

LEMMA ViewCreatedType ==
    ASSUME NEW s \in Seq(Copy), NEW i \in 1 .. Len(s)
    PROVE  [s EXCEPT ![i].view = TRUE] \in Seq(Copy)
<1>1. s[i] \in Copy
  BY ElementOfSeq
<1>2. PICK e \in Copy : e = [s[i] EXCEPT !.view = TRUE]
  BY <1>1 DEF Copy
<1>3. [s EXCEPT ![i] = e] \in Seq(Copy)
  OBVIOUS
<1>4. [s EXCEPT ![i].view = TRUE] = [s EXCEPT ![i] = e]
  BY <1>2
<1>5. QED
  BY <1>3, <1>4, Zenon

LEMMA SectionsChangedType ==
    ASSUME NEW s \in Seq(Copy), NEW i \in 1 .. Len(s), NEW loaded \in SUBSET Section
    PROVE  [s EXCEPT ![i].sections = loaded] \in Seq(Copy)
<1>1. s[i] \in Copy
  BY ElementOfSeq
<1>2. PICK e \in Copy : e = [s[i] EXCEPT !.sections = loaded]
  BY <1>1 DEF Copy
<1>3. [s EXCEPT ![i] = e] \in Seq(Copy)
  OBVIOUS
<1>4. [s EXCEPT ![i].sections = loaded] = [s EXCEPT ![i] = e]
  BY <1>2
<1>5. QED
  BY <1>3, <1>4, Zenon

-----------------------------------------------------------------------------
(* What the actions do to the copies. *)

LEMMA CreateStoreCopies ==
    ASSUME TypeOK, NEW p \in Process, CreateStore(p)
    PROVE  /\ copies' \in Seq(Copy) /\ Len(copies) <= Len(copies')
           /\ path' \in 1 .. Len(copies')
           /\ \A c \in 1 .. Len(copies) : c # path' => copies'[c] = copies[c]
           /\ copies'[path'].table
           /\ path # NoCopy => /\ path' = path
                               /\ copies'[path'].sections = copies[path].sections
           /\ path = NoCopy => /\ path' = Len(copies) + 1
                               /\ copies'[path'].sections = {}
<1>1. Opens
  BY DEF CreateStore
<1>2. Opened \in Seq(Copy)
  BY <1>1, OpenedCopies
<1>3. path' \in 1 .. Len(Opened)
  BY <1>1, OpenedCopies
<1>4. copies' = [Opened EXCEPT ![path'].table = TRUE]
  BY DEF CreateStore
<1>5. copies' \in Seq(Copy)
  BY <1>2, <1>3, <1>4, TableCreatedType, Zenon
<1>6. Len(copies') = Len(Opened)
  BY <1>2, <1>3, <1>4 DEF Copy
<1>7. ASSUME NEW c \in 1 .. Len(Opened), c # path' PROVE copies'[c] = Opened[c]
  BY <1>2, <1>3, <1>4, <1>7, LenProperties
<1>8. /\ copies'[path'].table
      /\ copies'[path'].sections = Opened[path'].sections
  BY <1>2, <1>3, <1>4 DEF Copy
<1>9. Len(copies) \in Nat /\ Len(Opened) \in Nat /\ EmptyFile.sections = {}
  BY <1>2 DEF TypeOK, EmptyFile
<1>10. QED
  BY <1>1, <1>5, <1>6, <1>7, <1>8, <1>9, OpenedCopies

LEMMA EnsureDocsViewCopies ==
    ASSUME TypeOK, NEW p \in Process, EnsureDocsView(p)
    PROVE  /\ copies' \in Seq(Copy) /\ Len(copies) <= Len(copies')
           /\ path' \in 1 .. Len(copies')
           /\ \A c \in 1 .. Len(copies) : c # path' => copies'[c] = copies[c]
           /\ copies'[path'].view
           /\ path # NoCopy => /\ path' = path
                               /\ copies'[path'].sections = copies[path].sections
                               /\ copies'[path'].table = copies[path].table
           /\ path = NoCopy => path' = Len(copies) + 1
<1>1. Opens
  BY DEF EnsureDocsView
<1>2. Opened \in Seq(Copy)
  BY <1>1, OpenedCopies
<1>3. path' \in 1 .. Len(Opened)
  BY <1>1, OpenedCopies
<1>4. copies' = [Opened EXCEPT ![path'].view = TRUE]
  BY DEF EnsureDocsView
<1>5. copies' \in Seq(Copy)
  BY <1>2, <1>3, <1>4, ViewCreatedType, Zenon
<1>6. Len(copies') = Len(Opened)
  BY <1>2, <1>3, <1>4 DEF Copy
<1>7. ASSUME NEW c \in 1 .. Len(Opened), c # path' PROVE copies'[c] = Opened[c]
  BY <1>2, <1>3, <1>4, <1>7, LenProperties
<1>8. /\ copies'[path'].view
      /\ copies'[path'].sections = Opened[path'].sections
      /\ copies'[path'].table = Opened[path'].table
  BY <1>2, <1>3, <1>4 DEF Copy
<1>9. Len(copies) \in Nat /\ Len(Opened) \in Nat
  BY <1>2 DEF TypeOK
<1>10. QED
  BY <1>1, <1>5, <1>6, <1>7, <1>8, <1>9, OpenedCopies

LEMMA UpsertType ==
    ASSUME NEW sections \in SUBSET Section, NEW s \in Section
    PROVE  Upsert(sections, s) \in SUBSET Section
BY DEF Upsert

LEMMA LoadSectionCopies ==
    ASSUME TypeOK, ConnectedReady, NEW p \in Process, LoadSection(p)
    PROVE  /\ pc[p] = "loading" /\ store[p] \in 1 .. Len(copies)
           /\ Head(todo[p]) \in Section /\ Tail(todo[p]) \in Seq(Section)
           /\ copies' \in Seq(Copy) /\ Len(copies') = Len(copies)
           /\ \A c \in 1 .. Len(copies) : c # store[p] => copies'[c] = copies[c]
           /\ copies'[store[p]].sections
                = Upsert(copies[store[p]].sections, Head(todo[p]))
           /\ copies'[store[p]].table = copies[store[p]].table
           /\ copies'[store[p]].view = copies[store[p]].view
<1>1. todo[p] \in Seq(Section) /\ todo[p] # <<>> /\ store[p] \in 0 .. Len(copies)
  BY DEF TypeOK, LoadSection
<1>2. Head(todo[p]) \in Section /\ Tail(todo[p]) \in Seq(Section)
  BY <1>1, HeadTailProperties
<1>3. pc[p] = "loading" /\ store[p] \in 1 .. Len(copies)
  BY <1>1 DEF TypeOK, ConnectedReady, NoCopy
<1>4. copies \in Seq(Copy) /\ copies[store[p]] \in Copy
  BY <1>3, ElementOfSeq DEF TypeOK
<1> DEFINE loaded == Upsert(copies[store[p]].sections, Head(todo[p]))
<1>5. loaded \in SUBSET Section
  BY <1>2, <1>4, UpsertType DEF Copy
<1>6. copies' = [copies EXCEPT ![store[p]].sections = loaded]
  BY DEF LoadSection
<1> HIDE DEF loaded
<1>7. copies' \in Seq(Copy)
  BY <1>3, <1>4, <1>5, <1>6, SectionsChangedType, Zenon
<1>8. Len(copies') = Len(copies)
  BY <1>3, <1>4, <1>5, <1>6 DEF Copy
<1>9. ASSUME NEW c \in 1 .. Len(copies), c # store[p] PROVE copies'[c] = copies[c]
  BY <1>3, <1>4, <1>5, <1>6, <1>9, LenProperties
<1>10. /\ copies'[store[p]].sections = loaded
       /\ copies'[store[p]].table = copies[store[p]].table
       /\ copies'[store[p]].view = copies[store[p]].view
  BY <1>3, <1>4, <1>5, <1>6 DEF Copy
<1>11. QED
  BY <1>2, <1>3, <1>7, <1>8, <1>9, <1>10, Zenon DEF loaded

(* What a query does to the copies: it may empty one, and then it is among *)
(* the changed ones, or put an empty file at a path that names none.        *)
LEMMA QueryCopies ==
    ASSUME TypeOK, NEW p \in Process, Queries(p)
    PROVE  /\ copies' \in Seq(Copy) /\ Len(copies) <= Len(copies')
           /\ path' \in 0 .. Len(copies') /\ attached' \in [Process -> 0 .. Len(copies')]
           /\ changed \subseteq changed' /\ changed' \subseteq 1 .. Len(copies')
           /\ \A c \in 1 .. Len(copies) :
                /\ c \in changed' \/ copies'[c] = copies[c]
                /\ copies'[c].table = copies[c].table
                /\ copies'[c].view = copies[c].view
           /\ path # NoCopy => path' = path
           /\ path = NoCopy => \/ path' = NoCopy
                               \/ path' = Len(copies) + 1 /\ copies'[path'] = EmptyFile
<1>1. /\ copies \in Seq(Copy) /\ Len(copies) \in Nat /\ path \in 0 .. Len(copies)
      /\ attached \in [Process -> 0 .. Len(copies)] /\ changed \subseteq 1 .. Len(copies)
  BY LenProperties DEF TypeOK
<1>2. CASE QueryRead(p) \/ QueryFails(p)
  <2>1. UNCHANGED <<path, copies, attached, changed>>
    BY <1>2 DEF QueryRead, QueryFails
  <2>2. QED
    BY <1>1, <2>1
<1>3. CASE QueryAttach(p)
  <2>1. /\ Opens /\ copies' = Opened /\ changed' = changed
        /\ attached' = [attached EXCEPT ![p] = path'] /\ attached[p] = NoCopy
    BY <1>3 DEF QueryAttach
  <2>2. /\ copies' \in Seq(Copy) /\ path' \in 1 .. Len(copies')
        /\ Len(copies) <= Len(copies')
        /\ \A c \in 1 .. Len(copies) : copies'[c] = copies[c]
        /\ path # NoCopy => path' = path
        /\ path = NoCopy => path' = Len(copies) + 1 /\ copies'[path'] = EmptyFile
    BY <2>1, OpenedCopies
  <2>3. Len(copies') \in Nat
    BY <2>2, LenProperties
  <2>4. attached \in [Process -> 0 .. Len(copies')]
    BY <1>1, <2>2, <2>3
  <2>5. attached' \in [Process -> 0 .. Len(copies')]
    BY <1>1, <2>1, <2>2, <2>3, <2>4 DEF NoCopy
  <2>6. changed' \subseteq 1 .. Len(copies')
    BY <1>1, <2>1, <2>2, <2>3
  <2>7. QED
    BY <1>1, <2>1, <2>2, <2>3, <2>5, <2>6
<1>4. CASE QueryDelete(p)
  <2> DEFINE a == attached[p]
  <2>1. /\ path' = path /\ attached' = attached /\ changed' = changed \cup {a}
        /\ copies' = [copies EXCEPT ![a].sections = {}] /\ a # NoCopy
    BY <1>4 DEF QueryDelete
  <2>2. a \in 1 .. Len(copies)
    BY <1>1, <2>1 DEF NoCopy
  <2> HIDE DEF a
  <2>3. copies' \in Seq(Copy)
    BY <1>1, <2>1, <2>2, SectionsChangedType, Zenon
  <2>4. Len(copies') = Len(copies)
    BY <1>1, <2>1, <2>2 DEF Copy
  <2>5. ASSUME NEW c \in 1 .. Len(copies), c # a PROVE copies'[c] = copies[c]
    BY <1>1, <2>1, <2>2, <2>5, LenProperties
  <2>6. copies'[a].table = copies[a].table /\ copies'[a].view = copies[a].view
    BY <1>1, <2>1, <2>2 DEF Copy
  <2>7. \A c \in 1 .. Len(copies) :
          /\ c \in changed' \/ copies'[c] = copies[c]
          /\ copies'[c].table = copies[c].table
          /\ copies'[c].view = copies[c].view
    BY <2>1, <2>5, <2>6
  <2>8. QED
    BY <1>1, <2>1, <2>2, <2>3, <2>4, <2>7
<1>5. QED
  BY <1>2, <1>3, <1>4 DEF Queries

-----------------------------------------------------------------------------
(* Types. *)

LEMMA InitTypes == Init => TypeOK
<1> SUFFICES ASSUME Init PROVE TypeOK
  OBVIOUS
<1>1. copies \in Seq(Copy) /\ path \in 0 .. Len(copies)
  <2>1. CASE path = NoCopy /\ copies = <<>>
    BY <2>1, EmptySeq DEF NoCopy
  <2>2. CASE path = 1 /\ \E p \in Process : copies = <<CompleteCopy(p)>>
    BY <2>2, CopyTypes
  <2>3. QED
    BY <2>1, <2>2 DEF Init
<1>2. /\ pc \in [Process -> {"idle", "removed", "loading", "view", "ready", "ended"}]
      /\ \A p \in Process : store[p] # NoCopy <=> pc[p] = "loading"
      /\ kept \in [Process -> BOOLEAN] /\ alone \in [Process -> BOOLEAN]
  BY DEF Init
<1>3. /\ store \in [Process -> 0 .. Len(copies)] /\ db \in [Process -> 0 .. Len(copies)]
      /\ answer \in [Process -> SUBSET Section]
      /\ todo \in [Process -> Seq(Section)]
      /\ attached \in [Process -> 0 .. Len(copies)]
      /\ changed \in SUBSET (1 .. Len(copies))
      /\ \A p \in Process : attached[p] # NoCopy => db[p] # NoCopy
  BY <1>1, EmptySeq DEF Init, NoCopy
<1>4. QED
  BY <1>1, <1>2, <1>3 DEF TypeOK

(* A copy is only ever added. *)
LEMMA MoreCopies ==
    ASSUME NEW n \in Nat, NEW m \in Nat, n <= m
    PROVE  /\ \A f \in [Process -> 0 .. n] : f \in [Process -> 0 .. m]
           /\ \A S \in SUBSET (1 .. n) : S \in SUBSET (1 .. m)
OBVIOUS

LEMMA RemoveTypes ==
    ASSUME TypeOK, NEW p \in Process, Remove(p) \/ RemoveFails(p)
    PROVE  TypeOK'
<1>1. /\ copies' = copies /\ path' \in {NoCopy, path}
      /\ kept' \in [Process -> BOOLEAN] /\ alone' \in [Process -> BOOLEAN]
  BY DEF TypeOK, Remove, RemoveFails, DisturbsUnconnected
<1>2. /\ pc' = [pc EXCEPT ![p] = "removed"] /\ pc[p] = "idle"
      /\ UNCHANGED <<store, todo, db, attached, answer, changed>>
  BY DEF Remove, RemoveFails, Starts
<1>3. QED
  BY <1>1, <1>2 DEF TypeOK, NoCopy

LEMMA CreateStoreTypes ==
    ASSUME TypeOK, NEW p \in Process, CreateStore(p)
    PROVE  TypeOK'
<1>1. /\ store' = [store EXCEPT ![p] = path'] /\ db' = db
      /\ pc' = [pc EXCEPT ![p] = "loading"]
      /\ UNCHANGED <<attached, answer, changed, kept, alone>>
      /\ todo' = [todo EXCEPT ![p] = Docs[p]] /\ Docs[p] \in Seq(Section)
  BY InputDBAssumption DEF CreateStore
<1>2. /\ store \in [Process -> 0 .. Len(copies')] /\ db \in [Process -> 0 .. Len(copies')]
      /\ attached \in [Process -> 0 .. Len(copies')]
      /\ changed \in SUBSET (1 .. Len(copies'))
  <2>1. Len(copies) \in Nat /\ Len(copies') \in Nat /\ Len(copies) <= Len(copies')
    BY CreateStoreCopies, LenProperties DEF TypeOK
  <2>2. QED
    BY <2>1, MoreCopies DEF TypeOK
<1>3. QED
  BY <1>1, <1>2, CreateStoreCopies DEF TypeOK, NoCopy

LEMMA LoadSectionTypes ==
    ASSUME TypeOK, ConnectedReady, NEW p \in Process, LoadSection(p)
    PROVE  TypeOK'
<1>1. /\ todo' = [todo EXCEPT ![p] = Tail(@)]
      /\ UNCHANGED <<path, pc, store, db, attached, answer, changed, kept, alone>>
  BY DEF LoadSection
<1>2. todo' \in [Process -> Seq(Section)]
  BY <1>1, LoadSectionCopies DEF TypeOK
<1>3. QED
  BY <1>1, <1>2, LoadSectionCopies DEF TypeOK

LEMMA CloseStoreTypes ==
    ASSUME TypeOK, NEW p \in Process, CloseStore(p)
    PROVE  TypeOK'
BY DEF TypeOK, CloseStore, NoCopy

LEMMA EnsureDocsViewTypes ==
    ASSUME TypeOK, NEW p \in Process, EnsureDocsView(p)
    PROVE  TypeOK'
<1>1. /\ pc[p] = "view" /\ pc' = [pc EXCEPT ![p] = "ready"]
      /\ UNCHANGED <<store, todo, db, attached, answer, changed, kept, alone>>
  BY DEF EnsureDocsView
<1>2. /\ store \in [Process -> 0 .. Len(copies')] /\ db \in [Process -> 0 .. Len(copies')]
      /\ attached \in [Process -> 0 .. Len(copies')]
      /\ changed \in SUBSET (1 .. Len(copies'))
  <2>1. Len(copies) \in Nat /\ Len(copies') \in Nat /\ Len(copies) <= Len(copies')
    BY EnsureDocsViewCopies, LenProperties DEF TypeOK
  <2>2. QED
    BY <2>1, MoreCopies DEF TypeOK
<1>3. QED
  BY <1>1, <1>2, EnsureDocsViewCopies DEF TypeOK, NoCopy

LEMMA EndsTypes ==
    ASSUME TypeOK, NEW p \in Process, Ends(p)
    PROVE  TypeOK'
<1>1. todo' \in [Process -> Seq(Section)]
  BY EmptySeq DEF TypeOK, Ends
<1>2. QED
  BY <1>1 DEF TypeOK, Ends, NoCopy

(* The connection of a query is the one that was there, if there was one. *)
LEMMA QueryConnection ==
    ASSUME TypeOK, NEW p \in Process, Queries(p), NEW q \in Process
    PROVE  /\ pc[p] = "ready"
           /\ UNCHANGED <<pc, store, todo, kept, alone>>
           /\ db' = [db EXCEPT ![p] = Connection(p)]
           /\ db[q] # NoCopy => db'[q] = db[q]
           /\ db'[q] = db[q] \/ (q = p /\ db[q] = NoCopy /\ db'[q] = path)
<1>1. Connects(p)
  BY DEF Queries, QueryRead, QueryAttach, QueryDelete, QueryFails
<1>2. QED
  BY <1>1 DEF Connects, Connection, TypeOK

(* A query answers what was answered before, or all that its copy has. *)
LEMMA QueryAnswers ==
    ASSUME TypeOK, NEW p \in Process, Queries(p)
    PROVE  \/ answer' = answer
           \/ /\ Connection(p) # NoCopy /\ db'[p] = Connection(p)
              /\ answer' = [answer EXCEPT ![p] = copies[Connection(p)].sections]
              /\ UNCHANGED <<copies, changed>>
<1>1. CASE QueryRead(p)
  BY <1>1 DEF QueryRead, Connects, Selectable, TypeOK
<1>2. CASE QueryAttach(p) \/ QueryDelete(p) \/ QueryFails(p)
  BY <1>2 DEF QueryAttach, QueryDelete, QueryFails
<1>3. QED
  BY <1>1, <1>2 DEF Queries

(* Only a process that is connected attaches a copy. *)
LEMMA QueryAttached ==
    ASSUME TypeOK, NEW p \in Process, Queries(p), NEW q \in Process, attached'[q] # NoCopy
    PROVE  db'[q] # NoCopy
<1>1. attached[q] # NoCopy => db[q] # NoCopy
  BY DEF TypeOK
<1>2. db[q] # NoCopy => db'[q] = db[q]
  BY QueryConnection
<1>3. CASE attached' = attached
  BY <1>1, <1>2, <1>3
<1>4. CASE QueryAttach(p)
  <2>1. /\ attached' = [attached EXCEPT ![p] = path'] /\ Connection(p) # NoCopy
        /\ db' = [db EXCEPT ![p] = Connection(p)]
    BY <1>4 DEF QueryAttach, Connects
  <2>2. CASE q = p
    BY <2>1, <2>2 DEF TypeOK
  <2>3. CASE q # p
    BY <1>1, <2>1, <2>3 DEF TypeOK
  <2>4. QED
    BY <2>2, <2>3
<1>5. CASE QueryRead(p) \/ QueryDelete(p) \/ QueryFails(p)
  BY <1>3, <1>5 DEF QueryRead, QueryDelete, QueryFails
<1>6. QED
  BY <1>4, <1>5 DEF Queries

LEMMA QueryTypes ==
    ASSUME TypeOK, NEW p \in Process, Queries(p)
    PROVE  TypeOK'
<1>1. Connection(p) \in 0 .. Len(copies) /\ Len(copies) \in Nat
  BY LenProperties DEF Connection, TypeOK
<1>2. ASSUME Connection(p) # NoCopy
      PROVE  copies[Connection(p)].sections \in SUBSET Section
  <2>1. copies[Connection(p)] \in Copy
    BY <1>1, <1>2, ElementOfSeq DEF TypeOK, NoCopy
  <2>2. QED
    BY <2>1 DEF Copy
<1>3. answer' \in [Process -> SUBSET Section]
  BY <1>2, QueryAnswers DEF TypeOK
<1>4. /\ copies' \in Seq(Copy) /\ Len(copies) <= Len(copies') /\ Len(copies') \in Nat
      /\ path' \in 0 .. Len(copies') /\ attached' \in [Process -> 0 .. Len(copies')]
      /\ changed' \in SUBSET (1 .. Len(copies'))
  BY QueryCopies, LenProperties
<1>5. /\ UNCHANGED <<pc, store, todo, kept, alone>>
      /\ db' = [db EXCEPT ![p] = Connection(p)]
  BY QueryConnection, Zenon
<1>6. store \in [Process -> 0 .. Len(copies')] /\ db' \in [Process -> 0 .. Len(copies')]
  <2>1. db' \in [Process -> 0 .. Len(copies)] /\ store \in [Process -> 0 .. Len(copies)]
    BY <1>1, <1>5 DEF TypeOK
  <2>2. QED
    BY <1>1, <1>4, <2>1, MoreCopies
<1>7. QED
  BY <1>3, <1>4, <1>5, <1>6, QueryAttached DEF TypeOK

LEMMA StepTypes ==
    TypeOK /\ ConnectedReady /\ [Next]_vars => TypeOK'
<1> SUFFICES ASSUME TypeOK, ConnectedReady, [Next]_vars PROVE TypeOK'
  OBVIOUS
<1>1. CASE UNCHANGED vars
  BY <1>1 DEF TypeOK, vars
<1>2. ASSUME NEW p \in Process, Prepare(p) PROVE TypeOK'
  BY <1>2, RemoveTypes, CreateStoreTypes, LoadSectionTypes, CloseStoreTypes,
     EnsureDocsViewTypes DEF Prepare
<1>3. ASSUME NEW p \in Process, Queries(p) \/ Refused(p) \/ Ends(p) PROVE TypeOK'
  BY <1>1, <1>3, QueryTypes, EndsTypes DEF Refused
<1>4. QED
  BY <1>1, <1>2, <1>3 DEF Next, Finished

-----------------------------------------------------------------------------
(* Who is connected and who is loading. *)

LEMMA LeftOver ==
    ASSUME NEW t \in Seq(Section), t # <<>>
    PROVE  {t[i] : i \in DOMAIN t} = {Head(t)} \cup {Tail(t)[i] : i \in DOMAIN Tail(t)}
<1>1. /\ Head(t) = t[1] /\ Len(t) \in Nat \ {0} /\ DOMAIN t = 1 .. Len(t)
      /\ DOMAIN Tail(t) = 1 .. Len(t) - 1
      /\ \A i \in 1 .. Len(t) - 1 : Tail(t)[i] = t[i + 1]
  OBVIOUS
<1>2. \A i \in 1 .. Len(t) : i = 1 \/ (i - 1 \in 1 .. Len(t) - 1 /\ t[i] = Tail(t)[i - 1])
  BY <1>1
<1>3. \A i \in 1 .. Len(t) - 1 : i + 1 \in 1 .. Len(t)
  BY <1>1
<1>4. \A i \in DOMAIN t : t[i] \in {Head(t)} \cup {Tail(t)[j] : j \in DOMAIN Tail(t)}
  BY <1>1, <1>2
<1>5. \A j \in DOMAIN Tail(t) : Tail(t)[j] \in {t[i] : i \in DOMAIN t}
  BY <1>1, <1>3
<1>6. Head(t) \in {t[i] : i \in DOMAIN t}
  BY <1>1
<1>7. QED
  BY <1>4, <1>5, <1>6

LEMMA InitConnected == Init => ConnectedReady
<1> SUFFICES ASSUME Init, NEW p \in Process
             PROVE  db[p] = NoCopy /\ todo[p] = <<>> /\ Left(p) = {}
  BY DEF ConnectedReady
<1>1. db[p] = NoCopy /\ todo[p] = <<>>
  BY DEF Init
<1>2. QED
  BY <1>1, EmptySeq DEF Left

LEMMA StepConnected ==
    ASSUME TypeOK, ConnectedReady, NEW p \in Process,
           Prepare(p) \/ Queries(p) \/ Ends(p)
    PROVE  ConnectedReady'
<1> SUFFICES ASSUME NEW q \in Process
             PROVE  /\ db'[q] # NoCopy => pc'[q] = "ready"
                    /\ todo'[q] # <<>> => pc'[q] = "loading"
                    /\ Left(q)' \subseteq OwnSections(q)
  BY DEF ConnectedReady
<1>1. /\ db[q] # NoCopy => pc[q] = "ready"
      /\ todo[q] # <<>> => pc[q] = "loading"
      /\ Left(q) \subseteq OwnSections(q)
  BY DEF ConnectedReady
<1>2. CASE Remove(p) \/ RemoveFails(p)
  BY <1>1, <1>2 DEF Remove, RemoveFails, Starts, TypeOK, Left
<1>3. CASE CreateStore(p)
  BY <1>1, <1>3 DEF CreateStore, TypeOK, Left, OwnSections
<1>4. CASE LoadSection(p)
  <2>1. pc[p] = "loading" /\ todo[p] \in Seq(Section) /\ todo[p] # <<>>
    BY <1>4, LoadSectionCopies DEF LoadSection, TypeOK
  <2>2. todo' = [todo EXCEPT ![p] = Tail(@)] /\ UNCHANGED <<pc, db>>
    BY <1>4 DEF LoadSection
  <2>3. CASE q = p
    BY <1>1, <2>1, <2>2, <2>3, LeftOver DEF TypeOK, Left
  <2>4. CASE q # p
    BY <1>1, <2>2, <2>4 DEF TypeOK, Left
  <2>5. QED
    BY <2>3, <2>4
<1>5. CASE CloseStore(p)
  BY <1>1, <1>5 DEF CloseStore, TypeOK, Left
<1>6. CASE EnsureDocsView(p)
  BY <1>1, <1>6 DEF EnsureDocsView, TypeOK, Left
<1>7. CASE Queries(p)
  BY <1>1, <1>7, QueryConnection DEF Left
<1>8. CASE Ends(p)
  BY <1>1, <1>8 DEF Ends, TypeOK, Left
<1>9. QED
  BY <1>2, <1>3, <1>4, <1>5, <1>6, <1>7, <1>8 DEF Prepare

-----------------------------------------------------------------------------
(* Building a copy undisturbed. *)

LEMMA InitBuilds == Init => BuildsAlone /\ CopyLeftAlone /\ OwnDocuments
BY DEF Init, BuildsAlone, CopyLeftAlone, OwnDocuments

(* While one process prepares the file, no other is building its copy alone. *)
LEMMA OthersIdle ==
    ASSUME TypeOK, BuildsAlone, NEW p \in Process, p \in Preparing,
           NEW q \in Process, q # p, alone[q], db[q] = NoCopy
    PROVE  pc[q] \in {"idle", "ended"}
BY DEF BuildsAlone, Building

LEMMA StepBuilds ==
    ASSUME TypeOK, ConnectedReady, BuildsAlone, NEW p \in Process,
           Prepare(p) \/ Queries(p) \/ Ends(p)
    PROVE  BuildsAlone'
<1> SUFFICES ASSUME NEW q \in Process, alone'[q], db'[q] = NoCopy
             PROVE  Building(q)'
  BY DEF BuildsAlone
<1>1. CASE Remove(p) \/ RemoveFails(p)
  <2>1. db' = db /\ pc' = [pc EXCEPT ![p] = "removed"]
    BY <1>1 DEF Remove, RemoveFails, Starts
  <2>2. q = p /\ Preparing = {}
    BY <1>1, <2>1 DEF Remove, RemoveFails, DisturbsUnconnected
  <2>3. Preparing' \subseteq {p} /\ pc'[p] = "removed"
    BY <2>1, <2>2 DEF Preparing, TypeOK
  <2>4. path' = NoCopy \/ kept'[p]
    BY <1>1 DEF Remove, RemoveFails, TypeOK
  <2>5. QED
    BY <2>2, <2>3, <2>4 DEF Building
<1>2. ASSUME p \in Preparing, q # p, UNCHANGED <<db, alone>>, pc'[q] = pc[q]
      PROVE  Building(q)'
  BY <1>2, OthersIdle DEF Building
<1>3. CASE CreateStore(p)
  <2>1. /\ pc[p] = "removed" /\ pc' = [pc EXCEPT ![p] = "loading"]
        /\ store' = [store EXCEPT ![p] = path'] /\ todo' = [todo EXCEPT ![p] = Docs[p]]
        /\ UNCHANGED <<db, changed, kept, alone>>
    BY <1>3 DEF CreateStore
  <2>2. p \in Preparing /\ Preparing' = Preparing
    BY <2>1 DEF Preparing, TypeOK
  <2>3. CASE q = p
    <3>1. Building(p)
      BY <2>1, <2>3 DEF BuildsAlone
    <3>2. /\ pc'[p] = "loading" /\ store'[p] = path'
          /\ Left(p)' = OwnSections(p)
      BY <2>1 DEF TypeOK, Left, OwnSections
    <3>3. path' # NoCopy /\ copies'[path'].table
      BY <1>3, CreateStoreCopies DEF NoCopy
    <3>4. copies'[path'].sections = {} \/ kept[p] \/ path' \in changed
      BY <1>3, <2>1, <3>1, CreateStoreCopies DEF Building
    <3>5. QED
      BY <2>1, <2>2, <2>3, <3>1, <3>2, <3>3, <3>4 DEF Building, LoadedInto
  <2>4. QED
    BY <1>2, <2>1, <2>2, <2>3 DEF TypeOK
<1>4. CASE LoadSection(p)
  <2>1. /\ todo[p] # <<>> /\ todo' = [todo EXCEPT ![p] = Tail(@)]
        /\ UNCHANGED <<path, pc, store, db, changed, kept, alone>>
    BY <1>4 DEF LoadSection
  <2>2. pc[p] = "loading" /\ p \in Preparing /\ Preparing' = Preparing
    BY <1>4, <2>1, LoadSectionCopies DEF Preparing
  <2>3. CASE q = p
    <3>1. Building(p)
      BY <2>1, <2>3 DEF BuildsAlone
    <3>2. /\ Left(p) = {Head(todo[p])} \cup Left(p)'
          /\ Left(p) \subseteq OwnSections(p)
      <4>1. todo[p] \in Seq(Section) /\ todo[p] # <<>> /\ todo'[p] = Tail(todo[p])
        BY <2>1 DEF TypeOK
      <4>2. Left(p) \subseteq OwnSections(p)
        BY DEF ConnectedReady
      <4>3. QED
        BY <4>1, <4>2, LeftOver DEF Left
    <3>3. copies'[path].sections = Upsert(copies[path].sections, Head(todo[p]))
      BY <1>4, <2>2, <3>1, LoadSectionCopies DEF Building
    <3>4. path \in changed \/ LoadedInto(p, copies[path])
      BY <2>2, <3>1 DEF Building
    <3>5. \A s \in OwnSections(p) : s.slug = Head(todo[p]).slug => s = Head(todo[p])
      BY <3>2, InputDBAssumption
    <3>6. path \in changed \/ OwnSections(p) \subseteq copies'[path].sections \cup Left(p)'
      BY <3>2, <3>3, <3>4, <3>5 DEF LoadedInto, Upsert
    <3>7. path \in changed \/ copies'[path].sections \subseteq OwnSections(p) \/ kept[p]
      BY <3>2, <3>3, <3>4 DEF LoadedInto, Upsert
    <3>8. copies'[path].table
      BY <1>4, <2>2, <3>1, LoadSectionCopies DEF Building
    <3>9. QED
      BY <2>1, <2>2, <2>3, <3>1, <3>6, <3>7, <3>8 DEF Building, LoadedInto
  <2>4. QED
    BY <1>2, <2>1, <2>2, <2>3
<1>5. CASE CloseStore(p)
  <2>1. /\ pc[p] = "loading" /\ todo[p] = <<>> /\ pc' = [pc EXCEPT ![p] = "view"]
        /\ UNCHANGED <<path, copies, todo, db, changed, kept, alone>>
    BY <1>5 DEF CloseStore
  <2>2. p \in Preparing /\ Preparing' = Preparing
    BY <2>1 DEF Preparing, TypeOK
  <2>3. CASE q = p
    <3>1. Building(p)
      BY <2>1, <2>3 DEF BuildsAlone
    <3>2. pc'[p] = "view"
      BY <2>1 DEF TypeOK
    <3>3. path \in changed \/ LoadedInto(p, copies[path])'
      BY <2>1, <3>1 DEF Building, LoadedInto, Left
    <3>4. QED
      BY <2>1, <2>2, <2>3, <3>1, <3>2, <3>3 DEF Building
  <2>4. QED
    BY <1>2, <2>1, <2>2, <2>3 DEF TypeOK
<1>6. CASE EnsureDocsView(p)
  <2>1. /\ pc[p] = "view" /\ pc' = [pc EXCEPT ![p] = "ready"]
        /\ UNCHANGED <<store, todo, db, changed, kept, alone>>
    BY <1>6 DEF EnsureDocsView
  <2>2. p \in Preparing /\ Preparing' \subseteq Preparing
    BY <2>1 DEF Preparing, TypeOK
  <2>3. CASE q = p
    <3>1. Building(p) /\ path # NoCopy
      BY <2>1, <2>3 DEF BuildsAlone, Building
    <3>2. /\ path' = path /\ copies'[path].view
          /\ copies'[path].sections = copies[path].sections
          /\ copies'[path].table = copies[path].table
      BY <1>6, <3>1, EnsureDocsViewCopies
    <3>3. pc'[p] = "ready"
      BY <2>1 DEF TypeOK
    <3>4. QED
      BY <2>1, <2>2, <2>3, <3>1, <3>2, <3>3 DEF Building, LoadedInto, Left
  <2>4. QED
    BY <1>2, <2>1, <2>2, <2>3 DEF TypeOK
<1>7. CASE Queries(p)
  <2>1. /\ UNCHANGED <<pc, store, todo, kept, alone>> /\ db[q] = NoCopy
        /\ Preparing' = Preparing /\ Left(q)' = Left(q)
    BY <1>7, QueryConnection DEF Preparing, Left
  <2>2. Building(q)
    BY <2>1 DEF BuildsAlone
  <2>3. path # NoCopy => path \in 1 .. Len(copies) /\ path' = path
    BY <1>7, QueryCopies DEF TypeOK, NoCopy
  <2>4. path # NoCopy => /\ path \in changed' \/ copies'[path] = copies[path]
                         /\ copies'[path].table = copies[path].table
                         /\ copies'[path].view = copies[path].view
    BY <1>7, <2>3, QueryCopies
  <2>5. path = NoCopy => path' = NoCopy \/ copies'[path'].sections = {}
    BY <1>7, QueryCopies DEF EmptyFile
  <2>6. changed \subseteq changed'
    BY <1>7, QueryCopies
  <2>7. pc[q] = "removed" => \/ path' = NoCopy \/ kept[q] \/ path' \in changed'
                            \/ copies'[path'].sections = {}
    BY <2>2, <2>3, <2>4, <2>5, <2>6 DEF Building
  <2>8. ASSUME pc[q] \in {"loading", "view", "ready"}
        PROVE  /\ path' # NoCopy /\ path' = path
               /\ copies'[path'].table /\ copies'[path'].view = copies[path].view
               /\ path' \in changed' \/ LoadedInto(q, copies[path])'
    BY <2>1, <2>2, <2>3, <2>4, <2>6, <2>8 DEF Building, LoadedInto
  <2>9. QED
    BY <2>1, <2>2, <2>7, <2>8 DEF Building
<1>8. CASE Ends(p)
  <2>1. /\ pc' = [pc EXCEPT ![p] = "ended"] /\ store' = [store EXCEPT ![p] = NoCopy]
        /\ todo' = [todo EXCEPT ![p] = <<>>] /\ db' = [db EXCEPT ![p] = NoCopy]
        /\ UNCHANGED <<path, copies, changed, kept, alone>>
    BY <1>8 DEF Ends
  <2>2. CASE q = p
    BY <2>1, <2>2 DEF Building, TypeOK
  <2>3. CASE q # p
    <3>1. Preparing' \subseteq Preparing
      BY <2>1 DEF Preparing, TypeOK
    <3>2. Building(q)
      BY <2>1, <2>3 DEF BuildsAlone, TypeOK
    <3>3. UNCHANGED <<pc[q], store[q], todo[q], path, copies, changed, kept>>
      BY <2>1, <2>3 DEF TypeOK
    <3>4. QED
      BY <3>1, <3>2, <3>3 DEF Building, LoadedInto, Left
  <2>4. QED
    BY <2>2, <2>3
<1>9. QED
  BY <1>1, <1>3, <1>4, <1>5, <1>6, <1>7, <1>8 DEF Prepare

-----------------------------------------------------------------------------
(* A copy that a process reads is left alone by those that prepare one. *)

(* What a process opens for writing is not a copy it has to leave alone. *)
LEMMA OpensAnother ==
    ASSUME TypeOK, CopyLeftAlone, NEW p \in Preparing,
           CreateStore(p) \/ EnsureDocsView(p),
           NEW q \in Process, alone[q], db[q] # NoCopy
    PROVE  path' # db[q]
<1>1. p \in Process /\ path # db[q] /\ db[q] \in 0 .. Len(copies) /\ Len(copies) \in Nat
  BY DEF CopyLeftAlone, Preparing, TypeOK
<1>2. path' = IF path = NoCopy THEN Len(copies) + 1 ELSE path
  BY DEF CreateStore, EnsureDocsView, Opens
<1>3. QED
  BY <1>1, <1>2

LEMMA StepLeftAlone ==
    ASSUME TypeOK, ConnectedReady, BuildsAlone, CopyLeftAlone, NEW p \in Process,
           Prepare(p) \/ Queries(p) \/ Ends(p)
    PROVE  CopyLeftAlone'
<1> SUFFICES ASSUME NEW q \in Process, alone'[q], db'[q] # NoCopy, NEW r \in Process
             PROVE  /\ store'[r] # db'[q]
                    /\ r \in Preparing' => path' # db'[q]
  BY DEF CopyLeftAlone
<1>1. alone[q] /\ db[q] # NoCopy
      => store[r] # db[q] /\ (r \in Preparing => path # db[q])
  BY DEF CopyLeftAlone
<1>2. CASE Remove(p)
  <2>1. UNCHANGED <<store, db>> /\ path' = NoCopy /\ pc[p] = "idle"
    BY <1>2 DEF Remove, Starts
  <2>2. q # p
    BY <2>1 DEF ConnectedReady
  <2>3. QED
    BY <1>1, <1>2, <2>1, <2>2 DEF Remove, DisturbsUnconnected
<1>3. CASE RemoveFails(p)
  <2>1. db' = db /\ pc[p] = "idle" /\ q = p
    BY <1>3 DEF RemoveFails, Starts
  <2>2. QED
    BY <2>1 DEF ConnectedReady
<1>4. CASE CreateStore(p)
  <2>1. /\ p \in Preparing /\ Preparing' \subseteq Preparing
        /\ store' = [store EXCEPT ![p] = path'] /\ UNCHANGED <<db, alone>>
    BY <1>4 DEF CreateStore, Preparing, TypeOK
  <2>2. path' # db[q]
    BY <1>4, <2>1, OpensAnother
  <2>3. QED
    BY <1>1, <2>1, <2>2 DEF TypeOK
<1>5. CASE LoadSection(p)
  BY <1>1, <1>5 DEF LoadSection, Preparing
<1>6. CASE CloseStore(p)
  <2>1. /\ Preparing' \subseteq Preparing
        /\ store' = [store EXCEPT ![p] = NoCopy] /\ UNCHANGED <<path, db, alone>>
    BY <1>6 DEF CloseStore, Preparing, TypeOK
  <2>2. QED
    BY <1>1, <2>1 DEF TypeOK
<1>7. CASE EnsureDocsView(p)
  <2>1. /\ p \in Preparing /\ Preparing' \subseteq Preparing
        /\ UNCHANGED <<store, db, alone>>
    BY <1>7 DEF EnsureDocsView, Preparing, TypeOK
  <2>2. path' # db[q]
    BY <1>7, <2>1, OpensAnother
  <2>3. QED
    BY <1>1, <2>1, <2>2
<1>8. CASE Queries(p)
  <2>1. /\ pc' = pc /\ store' = store /\ alone' = alone
        /\ Preparing' = Preparing /\ pc[p] = "ready"
        /\ db'[q] = db[q] \/ (q = p /\ db[q] = NoCopy /\ db'[q] = path)
    BY <1>8, QueryConnection DEF Preparing
  <2>5. /\ path # NoCopy => path' = path
        /\ path = NoCopy => path' = NoCopy \/ path' = Len(copies) + 1
    BY <1>8, QueryCopies
  <2>6. Len(copies) \in Nat /\ \A x \in Process : db[x] \in 0 .. Len(copies)
    BY LenProperties DEF TypeOK
  <2>2. CASE db'[q] = db[q]
    <3>1. path' # db[q] \/ path' = path
      BY <2>2, <2>5, <2>6 DEF NoCopy
    <3>2. QED
      BY <1>1, <2>1, <2>2, <3>1
  <2>3. CASE q = p /\ db[p] = NoCopy /\ db'[p] = path
    <3>1. Building(p)
      BY <2>1, <2>3 DEF BuildsAlone
    <3>2. Preparing = {}
      BY <2>1, <3>1 DEF Building, Preparing
    <3>3. store[r] = NoCopy
      BY <3>2 DEF TypeOK, Preparing
    <3>4. QED
      BY <2>1, <2>3, <3>2, <3>3
  <2>4. QED
    BY <2>1, <2>2, <2>3
<1>9. CASE Ends(p)
  <2>1. /\ Preparing' \subseteq Preparing
        /\ store' = [store EXCEPT ![p] = NoCopy] /\ db' = [db EXCEPT ![p] = NoCopy]
        /\ UNCHANGED <<path, alone>>
    BY <1>9 DEF Ends, Preparing, TypeOK
  <2>2. db'[q] = db[q]
    BY <2>1 DEF TypeOK
  <2>3. QED
    BY <1>1, <2>1, <2>2 DEF TypeOK
<1>10. QED
  BY <1>2, <1>3, <1>4, <1>5, <1>6, <1>7, <1>8, <1>9 DEF Prepare

-----------------------------------------------------------------------------
(* An undisturbed process reads its own documents. *)

LEMMA StepOwnDocuments ==
    ASSUME TypeOK, ConnectedReady, BuildsAlone, CopyLeftAlone, OwnDocuments,
           NEW p \in Process, Prepare(p) \/ Queries(p) \/ Ends(p)
    PROVE  OwnDocuments'
<1> SUFFICES ASSUME NEW q \in Process, alone'[q], db'[q] # NoCopy, db'[q] \notin changed'
             PROVE  HasOwnDocuments(q, copies[db[q]])'
  BY DEF OwnDocuments
<1>1. alone[q] /\ db[q] # NoCopy /\ db[q] \notin changed
      => HasOwnDocuments(q, copies[db[q]]) /\ db[q] \in 1 .. Len(copies)
  BY DEF OwnDocuments, TypeOK, NoCopy
<1>2. CASE Remove(p)
  <2>1. UNCHANGED <<copies, db, changed, kept>> /\ pc[p] = "idle"
    BY <1>2 DEF Remove, Starts
  <2>2. q # p
    BY <2>1 DEF ConnectedReady
  <2>3. QED
    BY <1>1, <1>2, <2>1, <2>2 DEF Remove, DisturbsUnconnected, HasOwnDocuments
<1>3. CASE RemoveFails(p)
  <2>1. db' = db /\ pc[p] = "idle" /\ q = p
    BY <1>3 DEF RemoveFails, Starts
  <2>2. QED
    BY <2>1 DEF ConnectedReady
<1>4. CASE CreateStore(p)
  <2>1. UNCHANGED <<db, changed, kept, alone>> /\ p \in Preparing
    BY <1>4 DEF CreateStore, Preparing
  <2>2. path' # db[q]
    BY <1>4, <2>1, OpensAnother
  <2>3. QED
    BY <1>1, <1>4, <2>1, <2>2, CreateStoreCopies DEF HasOwnDocuments
<1>5. CASE LoadSection(p)
  <2>1. UNCHANGED <<db, changed, kept, alone>>
    BY <1>5 DEF LoadSection
  <2>2. store[p] # db[q]
    BY <2>1 DEF CopyLeftAlone
  <2>3. QED
    BY <1>1, <1>5, <2>1, <2>2, LoadSectionCopies DEF HasOwnDocuments
<1>6. CASE CloseStore(p)
  BY <1>1, <1>6 DEF CloseStore, HasOwnDocuments
<1>7. CASE EnsureDocsView(p)
  <2>1. UNCHANGED <<db, changed, kept, alone>> /\ p \in Preparing
    BY <1>7 DEF EnsureDocsView, Preparing
  <2>2. path' # db[q]
    BY <1>7, <2>1, OpensAnother
  <2>3. QED
    BY <1>1, <1>7, <2>1, <2>2, EnsureDocsViewCopies DEF HasOwnDocuments
<1>8. CASE Queries(p)
  <2>1. /\ UNCHANGED <<kept, alone>> /\ pc[p] = "ready"
        /\ db'[q] = db[q] \/ (q = p /\ db[q] = NoCopy /\ db'[q] = path)
    BY <1>8, QueryConnection
  <2>2. db'[q] \in 1 .. Len(copies)
    BY <2>1 DEF TypeOK, NoCopy
  <2>3. copies'[db'[q]] = copies[db'[q]] /\ db'[q] \notin changed
    BY <1>8, <2>2, QueryCopies
  <2>4. CASE db'[q] = db[q]
    BY <1>1, <2>1, <2>3, <2>4 DEF HasOwnDocuments
  <2>5. CASE q = p /\ db[p] = NoCopy /\ db'[p] = path
    <3>1. Building(p)
      BY <2>1, <2>5 DEF BuildsAlone
    <3>2. todo[p] = <<>>
      BY <2>1 DEF ConnectedReady
    <3>3. Left(p) = {}
      BY <3>2, EmptySeq DEF Left
    <3>4. HasOwnDocuments(p, copies[path])
      BY <2>1, <2>3, <2>5, <3>1, <3>3 DEF Building, LoadedInto, HasOwnDocuments
    <3>5. QED
      BY <2>1, <2>3, <2>5, <3>4 DEF HasOwnDocuments
  <2>6. QED
    BY <2>1, <2>4, <2>5
<1>9. CASE Ends(p)
  <2>1. db' = [db EXCEPT ![p] = NoCopy] /\ UNCHANGED <<copies, changed, kept, alone>>
    BY <1>9 DEF Ends
  <2>2. db'[q] = db[q]
    BY <2>1 DEF TypeOK
  <2>3. QED
    BY <1>1, <2>1, <2>2 DEF HasOwnDocuments
<1>10. QED
  BY <1>2, <1>3, <1>4, <1>5, <1>6, <1>7, <1>8, <1>9 DEF Prepare

-----------------------------------------------------------------------------
(* A section that was answered is not lost. *)

(* No copy loses a slug, unless a program wrote into it. *)
LEMMA SlugsGrow ==
    ASSUME TypeOK, ConnectedReady, NEW p \in Process,
           Prepare(p) \/ Queries(p) \/ Ends(p), NEW c \in 1 .. Len(copies),
           c \notin changed'
    PROVE  Slugs(copies[c].sections) \subseteq Slugs(copies'[c].sections)
<1>1. CASE copies'[c] = copies[c]
  BY <1>1
<1>2. CASE Remove(p) \/ RemoveFails(p) \/ CloseStore(p) \/ Queries(p) \/ Ends(p)
  <2>1. copies'[c] = copies[c]
    BY <1>2, QueryCopies DEF Remove, RemoveFails, CloseStore, Ends
  <2>2. QED
    BY <2>1
<1>3. CASE CreateStore(p)
  <2>0. Len(copies) \in Nat
    BY LenProperties DEF TypeOK
  <2>1. c = path' => copies'[c].sections = copies[c].sections
    BY <1>3, <2>0, CreateStoreCopies
  <2>2. QED
    BY <1>1, <1>3, <2>1, CreateStoreCopies
<1>4. CASE LoadSection(p)
  <2>1. c # store[p] => copies'[c] = copies[c]
    BY <1>4, LoadSectionCopies
  <2>2. c = store[p] => copies'[c].sections
                          = Upsert(copies[c].sections, Head(todo[p]))
    BY <1>4, LoadSectionCopies
  <2>3. \A sections, s : Slugs(sections) \subseteq Slugs(Upsert(sections, s))
    BY DEF Slugs, Upsert
  <2>4. QED
    BY <1>1, <2>1, <2>2, <2>3
<1>5. CASE EnsureDocsView(p)
  <2>0. Len(copies) \in Nat
    BY LenProperties DEF TypeOK
  <2>1. c = path' => copies'[c].sections = copies[c].sections
    BY <1>5, <2>0, EnsureDocsViewCopies
  <2>2. QED
    BY <1>1, <1>5, <2>1, EnsureDocsViewCopies
<1>6. QED
  BY <1>2, <1>3, <1>4, <1>5 DEF Prepare

LEMMA StepAnswered ==
    ASSUME TypeOK, ConnectedReady, AnsweredStillThere, NEW p \in Process,
           Prepare(p) \/ Queries(p) \/ Ends(p)
    PROVE  AnsweredStillThere'
<1> SUFFICES ASSUME NEW q \in Process, answer'[q] # {}, pc'[q] # "ended",
                    db'[q] \notin changed'
             PROVE  /\ db'[q] # NoCopy
                    /\ Slugs(answer'[q]) \subseteq Slugs(copies'[db'[q]].sections)
  BY DEF AnsweredStillThere
<1>1. answer[q] # {} /\ pc[q] # "ended" /\ db[q] \notin changed
      => /\ db[q] # NoCopy /\ db[q] \in 1 .. Len(copies)
         /\ Slugs(answer[q]) \subseteq Slugs(copies[db[q]].sections)
  <2>1. db[q] \in 0 .. Len(copies) /\ Len(copies) \in Nat
    BY LenProperties DEF TypeOK
  <2>2. db[q] # NoCopy => db[q] \in 1 .. Len(copies)
    BY <2>1 DEF NoCopy
  <2>3. QED
    BY <2>2, Zenon DEF AnsweredStillThere
<1>2. pc[q] # "ended"
  BY DEF Prepare, Remove, RemoveFails, Starts, CreateStore, LoadSection, CloseStore,
         EnsureDocsView, Queries, QueryRead, QueryAttach, QueryDelete, QueryFails,
         Connects, Ends, TypeOK
<1>9. changed \subseteq changed' /\ NoCopy \notin changed
  <2>1. NoCopy \notin changed
    BY DEF TypeOK, NoCopy
  <2>2. CASE Prepare(p) \/ Ends(p)
    BY <2>1, <2>2 DEF Prepare, Remove, RemoveFails, Starts, CreateStore, LoadSection,
                      CloseStore, EnsureDocsView, Ends
  <2>3. CASE Queries(p)
    BY <2>1, <2>3, QueryCopies
  <2>4. QED
    BY <2>2, <2>3
<1>3. CASE answer'[q] = answer[q] /\ (db[q] # NoCopy => db'[q] = db[q])
  BY <1>1, <1>2, <1>3, <1>9, SlugsGrow
<1>4. CASE Prepare(p)
  <2>1. answer' = answer /\ db' = db
    BY <1>4 DEF Prepare, Remove, RemoveFails, Starts, CreateStore, LoadSection,
                CloseStore, EnsureDocsView
  <2>2. QED
    BY <1>3, <2>1
<1>5. CASE Queries(p)
  <2>1. db[q] # NoCopy => db'[q] = db[q]
    BY <1>5, QueryConnection, Zenon
  <2>2. CASE answer'[q] = answer[q]
    BY <1>3, <2>1, <2>2
  <2>3. CASE answer'[q] # answer[q]
    <3>1. /\ Connection(p) # NoCopy /\ db'[p] = Connection(p)
          /\ answer' = [answer EXCEPT ![p] = copies[Connection(p)].sections]
          /\ copies' = copies
      BY <1>5, <2>3, QueryAnswers
    <3>2. q = p /\ answer'[p] = copies[Connection(p)].sections
      BY <2>3, <3>1 DEF TypeOK
    <3>3. QED
      BY <2>1, <3>1, <3>2
  <2>4. QED
    BY <2>2, <2>3
<1>6. CASE Ends(p)
  <2>1. q # p
    BY <1>6 DEF Ends, TypeOK
  <2>2. answer' = answer /\ db'[q] = db[q]
    BY <1>6, <2>1 DEF Ends, TypeOK
  <2>3. QED
    BY <1>3, <2>2
<1>7. QED
  BY <1>4, <1>5, <1>6

LEMMA StepAnswersGrow ==
    ASSUME TypeOK, ConnectedReady, AnsweredStillThere, NEW p \in Process,
           Prepare(p) \/ Queries(p) \/ Ends(p), NEW q \in Process,
           db'[q] \notin changed'
    PROVE  Slugs(answer[q]) \subseteq Slugs(answer'[q])
<1>1. CASE answer'[q] = answer[q]
  BY <1>1
<1>2. CASE answer[q] = {}
  BY <1>2 DEF Slugs
<1>3. CASE answer[q] # {} /\ answer'[q] # answer[q]
  <2>1. Queries(p)
    BY <1>3 DEF Prepare, Remove, RemoveFails, Starts, CreateStore, LoadSection,
                CloseStore, EnsureDocsView, Ends
  <2>2. /\ q = p
        /\ answer'[q] = copies[Connection(p)].sections /\ changed' = changed
    BY <1>3, <2>1, QueryAnswers DEF TypeOK
  <2>3. pc[p] = "ready" /\ (db[p] # NoCopy => db'[p] = db[p])
    BY <2>1, QueryConnection
  <2>6. NoCopy \notin changed
    BY DEF TypeOK, NoCopy
  <2>4. db[p] # NoCopy /\ Slugs(answer[p]) \subseteq Slugs(copies[db[p]].sections)
    BY <1>3, <2>2, <2>3, <2>6 DEF AnsweredStillThere
  <2>5. QED
    BY <2>2, <2>4 DEF Connection
<1>4. QED
  BY <1>1, <1>2, <1>3

-----------------------------------------------------------------------------
(* The theorems. *)

Inv == IndInv /\ AnsweredStillThere

LEMMA InitInv == Init => Inv
<1> SUFFICES ASSUME Init PROVE Inv
  OBVIOUS
<1>1. AnsweredStillThere
  BY DEF Init, AnsweredStillThere
<1>2. QED
  BY <1>1, InitTypes, InitConnected, InitBuilds DEF Inv, IndInv

LEMMA NextStep ==
    ASSUME Next
    PROVE  \/ UNCHANGED vars
           \/ \E p \in Process : Prepare(p) \/ Queries(p) \/ Ends(p)
BY DEF Next, Refused, Finished

LEMMA Stutters ==
    ASSUME UNCHANGED vars
    PROVE  /\ Inv => Inv'
           /\ \A p \in Process : Slugs(answer[p]) \subseteq Slugs(answer'[p])
<1>1. Preparing' = Preparing /\ \A p \in Process : Left(p)' = Left(p)
  BY DEF vars, Preparing, Left
<1>2. TypeOK /\ ConnectedReady => TypeOK' /\ ConnectedReady'
  BY <1>1 DEF vars, TypeOK, ConnectedReady
<1>3. BuildsAlone => BuildsAlone'
  BY <1>1 DEF vars, BuildsAlone, Building, LoadedInto
<1>4. CopyLeftAlone /\ OwnDocuments /\ AnsweredStillThere
      => CopyLeftAlone' /\ OwnDocuments' /\ AnsweredStillThere'
  BY <1>1 DEF vars, CopyLeftAlone, OwnDocuments, HasOwnDocuments, AnsweredStillThere
<1>5. QED
  BY <1>2, <1>3, <1>4 DEF vars, Inv, IndInv

LEMMA StepInv == Inv /\ [Next]_vars => Inv'
<1> SUFFICES ASSUME Inv, [Next]_vars PROVE Inv'
  OBVIOUS
<1>1. CASE UNCHANGED vars
  BY <1>1, Stutters
<1>2. ASSUME NEW p \in Process, Prepare(p) \/ Queries(p) \/ Ends(p) PROVE Inv'
  <2>1. TypeOK'
    BY <1>2, StepTypes DEF Inv, IndInv
  <2>2. QED
    BY <1>2, <2>1, StepConnected, StepBuilds, StepLeftAlone, StepOwnDocuments,
       StepAnswered DEF Inv, IndInv
<1>3. QED
  BY <1>1, <1>2, NextStep

LEMMA InvHolds == Spec => []Inv
BY InitInv, StepInv, PTL DEF Spec

(* Every process is where PrepareInputDB can be, and names copies that exist. *)
THEOREM TypeCorrect == Spec => []TypeOK
<1>1. Inv => TypeOK
  BY DEF Inv, IndInv
<1>2. QED
  BY <1>1, InvHolds, PTL

(* A process that prepared the file with nobody else preparing one reads the *)
(* sections of its own binary through a working view (PrepareInputDB), in a  *)
(* file that no program wrote into.                                          *)
THEOREM ReadsOwnDocuments == Spec => []OwnDocuments
<1>1. Inv => OwnDocuments
  BY DEF Inv, IndInv
<1>2. QED
  BY <1>1, InvHolds, PTL

(* Later answers of inputDB have every section that an earlier one had, if *)
(* no program wrote into the file that answers.                            *)
THEOREM NoSectionLost == Spec => AnswersOnlyGrow
<1>1. Inv /\ [Next]_vars
      => [\A p \in Process : db'[p] \notin changed' =>
            Slugs(answer[p]) \subseteq Slugs(answer'[p])]_vars
  <2> SUFFICES ASSUME Inv, Next, NEW q \in Process, db'[q] \notin changed'
               PROVE  Slugs(answer[q]) \subseteq Slugs(answer'[q])
    OBVIOUS
  <2>1. CASE UNCHANGED vars
    BY <2>1, Stutters
  <2>2. CASE \E p \in Process : Prepare(p) \/ Queries(p) \/ Ends(p)
    BY <2>2, StepAnswersGrow DEF Inv, IndInv
  <2>3. QED
    BY <2>1, <2>2, NextStep
<1>2. QED
  BY <1>1, InvHolds, PTL DEF Spec, AnswersOnlyGrow

===============================================================================
