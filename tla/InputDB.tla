-------------------------------- MODULE InputDB --------------------------------
(***************************************************************************)
(* The embedded help database of chat processes that were given the same   *)
(* --input-db path: PrepareInputDB of internal/helpdb/helpdb.go builds it  *)
(* at startup and evaljs hands it to JavaScript as inputDB, a jsdb.Facade. *)
(*                                                                         *)
(* The file is removed and built again by every process, in four separate  *)
(* accesses to the path: remove, open the store and load the sections,     *)
(* open again for the view, and open read-only.  sql.Open does no I/O: the *)
(* last of the four reaches the file only with the first query, and its    *)
(* connection keeps that file from then on.  A removed file lives on for   *)
(* the processes that have it open: a copy is a file, whatever its path.   *)
(*                                                                         *)
(* JavaScript can query inputDB with any text that starts as a read does.  *)
(* The handle is read-only, but a database that a program attaches to its  *)
(* connection is not: of these the model has the one that matters here,    *)
(* the file that the path names.                                           *)
(*                                                                         *)
(* External and modelled from its use: the help store, which upserts one   *)
(* section at a time by its slug, and SQLite with its driver.              *)
(***************************************************************************)
EXTENDS Naturals, Sequences

CONSTANTS
    Process,
    Slug,
    Text,       \* what a section says; it differs between binaries
    Docs        \* the sections embedded in the binary of each process

Section == [slug: Slug, text: Text]

OwnSections(p) == {Docs[p][i] : i \in DOMAIN Docs[p]}

(* The documents in a binary have slugs of their own. *)
ASSUME InputDBAssumption ==
    /\ Docs \in [Process -> Seq(Section)]
    /\ \A p \in Process : \A s, t \in OwnSections(p) : s.slug = t.slug => s = t

VARIABLES
    path,       \* the copy the path names, or NoCopy
    copies,     \* every copy made so far
    pc,         \* where each process is in PrepareInputDB
    store,      \* the copy the open help store of a process is in
    todo,       \* the sections a process has still to load
    db,         \* the copy its read-only handle is connected to, or NoCopy
    attached,   \* the copy a program has attached to its connection, or NoCopy
    answer,     \* what its last successful query for every section returned
    changed,    \* history: the copies that programs have written into
    kept,       \* history: the old file could not be removed
    alone       \* history: nobody else prepared until it was connected

vars ==
    <<path, copies, pc, store, todo, db, attached, answer, changed, kept, alone>>

NoCopy == 0

Copy == [sections: SUBSET Section, table: BOOLEAN, view: BOOLEAN]

EmptyFile == [sections |-> {}, table |-> FALSE, view |-> FALSE]

CompleteCopy(p) == [sections |-> OwnSections(p), table |-> TRUE, view |-> TRUE]

Slugs(sections) == {s.slug : s \in sections}

Preparing == {p \in Process : pc[p] \in {"removed", "loading", "view"}}

TypeOK ==
    /\ copies \in Seq(Copy)
    /\ path \in 0 .. Len(copies)
    /\ pc \in [Process -> {"idle", "removed", "loading", "view", "ready", "ended"}]
    /\ store \in [Process -> 0 .. Len(copies)]
    /\ \A p \in Process : store[p] # NoCopy <=> pc[p] = "loading"
    /\ todo \in [Process -> Seq(Section)]
    /\ db \in [Process -> 0 .. Len(copies)]
    /\ attached \in [Process -> 0 .. Len(copies)]
    /\ \A p \in Process : attached[p] # NoCopy => db[p] # NoCopy
    /\ answer \in [Process -> SUBSET Section]
    /\ changed \in SUBSET (1 .. Len(copies))
    /\ kept \in [Process -> BOOLEAN]
    /\ alone \in [Process -> BOOLEAN]

(* The path is free, or holds what an earlier run of some binary left. *)
Init ==
    /\ \/ path = NoCopy /\ copies = <<>>
       \/ path = 1 /\ \E p \in Process : copies = <<CompleteCopy(p)>>
    /\ pc = [p \in Process |-> "idle"]
    /\ store = [p \in Process |-> NoCopy]
    /\ todo = [p \in Process |-> <<>>]
    /\ db = [p \in Process |-> NoCopy]
    /\ attached = [p \in Process |-> NoCopy]
    /\ answer = [p \in Process |-> {}]
    /\ changed = {}
    /\ kept = [p \in Process |-> FALSE]
    /\ alone = [p \in Process |-> FALSE]

-----------------------------------------------------------------------------
(* PrepareInputDB. *)

(* SQLite creates the file it opens for writing. *)
Opens == path' = IF path = NoCopy THEN Len(copies) + 1 ELSE path

Opened == IF path = NoCopy THEN Append(copies, EmptyFile) ELSE copies

Starts(p) ==
    /\ pc[p] = "idle"
    /\ pc' = [pc EXCEPT ![p] = "removed"]
    /\ UNCHANGED <<store, todo, db, attached, answer, changed>>

(* A new file disturbs those that are not connected to theirs yet. *)
DisturbsUnconnected(p) ==
    alone' = [q \in Process |->
                IF q = p THEN Preparing = {} ELSE alone[q] /\ db[q] # NoCopy]

(* Mutant: the file is emptied in place. *)
Truncate(p) ==
    /\ Starts(p)
    /\ copies' = IF path = NoCopy THEN copies ELSE [copies EXCEPT ![path] = EmptyFile]
    /\ DisturbsUnconnected(p)
    /\ UNCHANGED <<path, kept>>

(* Mutant: the file of an earlier run is left where it is. *)
RemoveSkipped(p) ==
    /\ Starts(p)
    /\ DisturbsUnconnected(p)
    /\ UNCHANGED <<path, copies, kept>>

Remove(p) ==
    /\ Starts(p)
    /\ path' = NoCopy
    /\ DisturbsUnconnected(p)
    /\ UNCHANGED <<copies, kept>>

(* os.Remove fails on a file that is there, and its error is ignored: p *)
(* will write into the file that others may be reading.                 *)
RemoveFails(p) ==
    /\ path # NoCopy
    /\ Starts(p)
    /\ kept' = [kept EXCEPT ![p] = TRUE]
    /\ alone' = [q \in Process |-> q = p /\ Preparing = {}]
    /\ UNCHANGED <<path, copies>>

(* store.New: the table of sections is created unless the file has it. *)
CreateStore(p) ==
    /\ pc[p] = "removed"
    /\ Opens
    /\ copies' = [Opened EXCEPT ![path'].table = TRUE]
    /\ pc' = [pc EXCEPT ![p] = "loading"]
    /\ store' = [store EXCEPT ![p] = path']
    /\ todo' = [todo EXCEPT ![p] = Docs[p]]
    /\ UNCHANGED <<db, attached, answer, changed, kept, alone>>

(* Mutant: a section whose slug is there is not written again. *)
InsertOrIgnore(sections, section) ==
    IF section.slug \in Slugs(sections) THEN sections ELSE sections \cup {section}

Upsert(sections, section) ==
    {s \in sections : s.slug # section.slug} \cup {section}

(* One step of LoadSectionsFromFS. *)
LoadSection(p) ==
    /\ todo[p] # <<>>
    /\ copies' = [copies EXCEPT ![store[p]].sections = Upsert(@, Head(todo[p]))]
    /\ todo' = [todo EXCEPT ![p] = Tail(@)]
    /\ UNCHANGED <<path, pc, store, db, attached, answer, changed, kept, alone>>

(* Every section is loaded and the store is closed. *)
CloseStore(p) ==
    /\ pc[p] = "loading"
    /\ todo[p] = <<>>
    /\ pc' = [pc EXCEPT ![p] = "view"]
    /\ store' = [store EXCEPT ![p] = NoCopy]
    /\ UNCHANGED <<path, copies, todo, db, attached, answer, changed, kept, alone>>

(* The second handle reaches the path with ensureDocsView's statement, which *)
(* SQLite accepts whether or not there is a table to view.                   *)
EnsureDocsView(p) ==
    /\ pc[p] = "view"
    /\ Opens
    /\ copies' = [Opened EXCEPT ![path'].view = TRUE]
    /\ pc' = [pc EXCEPT ![p] = "ready"]
    /\ UNCHANGED <<store, todo, db, attached, answer, changed, kept, alone>>

(* Mutant: the store is left open when its loading fails. *)
EndsHoldingStore(p) ==
    /\ pc[p] \notin {"idle", "ended"}
    /\ pc' = [pc EXCEPT ![p] = "ended"]
    /\ todo' = [todo EXCEPT ![p] = <<>>]
    /\ db' = [db EXCEPT ![p] = NoCopy]
    /\ attached' = [attached EXCEPT ![p] = NoCopy]
    /\ UNCHANGED <<path, copies, store, answer, changed, kept, alone>>

(* PrepareInputDB returns an error, the run ends, or the process dies: what *)
(* is in the file stays, as the clean-up of a given path does nothing.      *)
Ends(p) ==
    /\ pc[p] \notin {"idle", "ended"}
    /\ pc' = [pc EXCEPT ![p] = "ended"]
    /\ store' = [store EXCEPT ![p] = NoCopy]
    /\ todo' = [todo EXCEPT ![p] = <<>>]
    /\ db' = [db EXCEPT ![p] = NoCopy]
    /\ attached' = [attached EXCEPT ![p] = NoCopy]
    /\ UNCHANGED <<path, copies, answer, changed, kept, alone>>

-----------------------------------------------------------------------------
(* inputDB, the facade. *)

(* A query by its first word and by what it does when it is run.  A text may *)
(* hold several statements, of which the driver runs the last, and a WITH    *)
(* clause can lead a DELETE: the first word says nothing of the effect.  The *)
(* reads are of every section, from the view or from the table.              *)
Query ==
    [first : {"select", "with", "other"},
     effect : {"read docs", "read sections", "attach", "delete"}]

isReadQuery(query) == query.first \in {"select", "with"}

(* Facade.Query's check on inputDB, which InitRuntime makes read-only. *)
Allowed(effect) == \E query \in Query : isReadQuery(query) /\ query.effect = effect

(* Mutant: every query opens the path anew. *)
Reconnected(p) == path

(* The first query connects; no file means no connection. *)
Connection(p) == IF db[p] = NoCopy THEN path ELSE db[p]

Connects(p) ==
    /\ pc[p] = "ready"
    /\ db' = [db EXCEPT ![p] = Connection(p)]
    /\ UNCHANGED <<pc, store, todo, kept, alone>>

Selectable(c) ==
    /\ c # NoCopy
    /\ copies[c].table
    /\ \/ Allowed("read sections")
       \/ Allowed("read docs") /\ copies[c].view

QueryRead(p) ==
    /\ Connects(p)
    /\ Selectable(Connection(p))
    /\ answer' = [answer EXCEPT ![p] = copies[Connection(p)].sections]
    /\ UNCHANGED <<path, copies, attached, changed>>

(* ATTACH opens its file to read and write, whatever the mode of the handle. *)
QueryAttach(p) ==
    /\ Allowed("attach")
    /\ Connects(p)
    /\ Connection(p) # NoCopy
    /\ attached[p] = NoCopy
    /\ Opens
    /\ copies' = Opened
    /\ attached' = [attached EXCEPT ![p] = path']
    /\ UNCHANGED <<answer, changed>>

(* All that a program may write into the database it attached stands for the *)
(* loss of its sections; written into inputDB itself, it is an error.        *)
QueryDelete(p) ==
    /\ Allowed("delete")
    /\ Connects(p)
    /\ attached[p] # NoCopy
    /\ copies[attached[p]].table
    /\ copies' = [copies EXCEPT ![attached[p]].sections = {}]
    /\ changed' = changed \cup {attached[p]}
    /\ UNCHANGED <<path, attached, answer>>

(* A query may fail, and does when a file or a table is missing. *)
QueryFails(p) ==
    /\ Connects(p)
    /\ UNCHANGED <<path, copies, attached, answer, changed>>

Queries(p) == QueryRead(p) \/ QueryAttach(p) \/ QueryDelete(p) \/ QueryFails(p)

(* Facade.Exec on inputDB, and the queries that are none by their first word. *)
Refused(p) == pc[p] = "ready" /\ UNCHANGED vars

Prepare(p) ==
    \/ Remove(p)
    \/ RemoveFails(p)
    \/ CreateStore(p)
    \/ LoadSection(p)
    \/ CloseStore(p)
    \/ EnsureDocsView(p)

Finished == (\A p \in Process : pc[p] = "ended") /\ UNCHANGED vars

Next ==
    \/ \E p \in Process : Prepare(p) \/ Queries(p) \/ Refused(p) \/ Ends(p)
    \/ Finished

Spec == Init /\ [][Next]_vars

-----------------------------------------------------------------------------

(* What p requires of the copy it reads. *)
HasOwnDocuments(p, file) ==
    /\ OwnSections(p) \subseteq file.sections
    /\ file.sections = OwnSections(p) \/ kept[p]
    /\ file.table /\ file.view

(* A process that prepared the file with nobody else preparing one, from its *)
(* own removal to its first connection, reads the sections of its own binary *)
(* through a working view; and only those, unless the old file stayed.  That *)
(* is, as long as no program writes into the file.                           *)
OwnDocuments ==
    \A p \in Process : alone[p] /\ db[p] # NoCopy /\ db[p] \notin changed =>
        HasOwnDocuments(p, copies[db[p]])

(* Whatever other processes remove and build, a section that a process has *)
(* read once is in every later answer, unless a program wrote into the     *)
(* file that answers.                                                      *)
AnswersOnlyGrow ==
    [][\A p \in Process : db'[p] \notin changed' =>
         Slugs(answer[p]) \subseteq Slugs(answer'[p])]_vars

(* What JavaScript does through inputDB leaves the documents of the process  *)
(* as they are (help topic database-globals: "`inputDB` is read-only").      *)
ReadOnlyDocuments ==
    \A p \in Process : alone[p] /\ db[p] # NoCopy =>
        HasOwnDocuments(p, copies[db[p]])

(* An answer has every section of the process's own binary (help topic        *)
(* database-globals: inputDB "contains help sections embedded in the `chat`   *)
(* binary and registered at startup").                                        *)
AnswersComplete ==
    \A p \in Process : answer[p] # {} => OwnSections(p) \subseteq answer[p]

===============================================================================
