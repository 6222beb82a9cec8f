---------------------------- MODULE SchemaMigration ----------------------------
(***************************************************************************)
(* Bringing a store's schema up to date (internal/store: store.go,         *)
(* documents.go and the three dialects).  Every process that opens the     *)
(* store migrates it, from the version it read once, without a lock        *)
(* against another that does the same; each may fail or be killed between  *)
(* any two statements.  Version 3 moves the result documents out of their  *)
(* rows into the bucket and then drops the column they were in.  Version 4 *)
(* records what each result refers to, and is finished by every open.      *)
(*                                                                         *)
(* Versions that only add a table or a column behave as version 2 does and *)
(* are not told apart.  A process of an earlier build, which would still   *)
(* write documents into rows, is not part of this repository.              *)
(***************************************************************************)
EXTENDS Naturals, Sequences, FiniteSets

CONSTANTS Openers, Rows,    \* Rows are numbered in the order of their keys
          Batch,            \* documentBatchSize
          MaxInARow         \* maxConsecutiveBucketFailures

SchemaAssumption == /\ Rows \subseteq Nat \ {0} /\ IsFiniteSet(Rows)
                    /\ Batch \in Nat \ {0} /\ MaxInARow \in Nat \ {0}

VARIABLES
    dialect,    \* "sqlite", "postgres" or "mysql"
    version,    \* the recorded schema version
    columns,    \* what the migrations have added, and "document" until it is dropped
    document,   \* [Rows -> {"row", "none"}]: the document column of each row
    named,      \* rows that name an object of the bucket
    objects,    \* rows whose document is in the bucket
    readable,   \* rows whose document decodes
    refs,       \* [Rows -> {"unknown", "recorded", "underivable"}]: refs_indexed
    opener,     \* [Openers -> [at, to, stmt, page, after, failed, inARow]]
    raced       \* history: two migrations were under way at once

vars == <<dialect, version, columns, document, named, objects, readable, refs, opener, raced>>
schemaVars == <<dialect, version, columns, readable>>
rowVars == <<document, named, objects, refs>>

Target == 4
Documents == 3      \* schemaDocumentsInBucket
\* One entry for each version: what its statements create, add or drop.
Migrations == <<{"results"}, {"summary"}, {"document"}, {"references", "refs_indexed"}>>
Statement(v, k) == IF v = Target THEN <<"references", "refs_indexed">>[k]
                   ELSE CHOOSE c \in Migrations[v] : TRUE
Drops(v) == v = Documents
After(v) == ((UNION {Migrations[u] : u \in 1..v}) \ {"document"})
                \cup (IF v \in 1..(Documents - 1) THEN {"document"} ELSE {})

At == {"closed", "prepare", "page", "move", "record", "apply", "count", "index", "open"}
Migrating == {"prepare", "page", "move", "record", "apply"}
Closed == [at |-> "closed", to |-> 0, stmt |-> 1, page |-> <<>>, after |-> 0,
           failed |-> FALSE, inARow |-> 0]

TypeOK ==
    /\ dialect \in {"sqlite", "postgres", "mysql"} /\ version \in 0..(Target + 1) /\ raced \in BOOLEAN
    /\ columns \subseteq UNION {Migrations[v] : v \in 1..Target}
    /\ document \in [Rows -> {"row", "none"}]
    /\ {named, objects, readable} \subseteq SUBSET Rows
    /\ refs \in [Rows -> {"unknown", "recorded", "underivable"}]
    /\ opener \in [Openers -> [at : At, to : 0..Target, stmt : 1..3, page : UNION {[1..n -> Rows] : n \in 0..Batch},
                               after : {0} \cup Rows, failed : BOOLEAN, inARow : 0..MaxInARow]]
    /\ \A r \in Rows : document[r] = "row" => "document" \in columns

\* A new store, one of an earlier build with documents in rows, and a newer build's.
Init ==
    /\ dialect \in {"sqlite", "postgres", "mysql"} /\ opener = [o \in Openers |-> Closed] /\ raced = FALSE
    /\ version \in {0, 1, 2, Target + 1} /\ columns = After(IF version > Target THEN Target ELSE version)
    /\ IF version \in {1, 2} THEN document = [r \in Rows |-> "row"] /\ readable \in SUBSET Rows
       ELSE document = [r \in Rows |-> "none"] /\ readable = Rows
    /\ named = (IF version > Target THEN Rows ELSE {}) /\ objects = named
    /\ refs = [r \in Rows |-> IF r \in named THEN "recorded" ELSE "unknown"]

Becomes(o, w) == opener' = [opener EXCEPT ![o] = w]
Goes(o, place) == opener' = [opener EXCEPT ![o].at = place]
Fails(o) == opener' = [opener EXCEPT ![o] = Closed]

-----------------------------------------------------------------------------
(* Opening                                                                   *)

\* A store that a newer build wrote is not touched.
RefuseNewer(o) == opener[o].at = "closed" /\ version > Target /\ UNCHANGED vars

\* migrate: the version is read here and never again.
Open(o) ==
    /\ opener[o].at = "closed" /\ version <= Target
    /\ Becomes(o, IF version = Target THEN [opener[o] EXCEPT !.at = "count"]
                  ELSE [opener[o] EXCEPT !.at = "prepare", !.to = version + 1])
    /\ raced' = (raced \/ (version < Target /\ \E p \in Openers : opener[p].at \in Migrating))
    /\ UNCHANGED <<schemaVars, rowVars>>

\* openSQLAtItsOwnSchema: a command that promises to change nothing migrates nothing.
OpenForInspection(o) ==
    /\ opener[o].at = "closed" /\ version = Target
    /\ Goes(o, "open")
    /\ UNCHANGED <<schemaVars, rowVars, raced>>

\* A database or a bucket that does not answer, a signal, or the end of the process.
Stop(o) ==
    /\ opener[o].at # "closed" /\ Fails(o)
    /\ UNCHANGED <<schemaVars, rowVars, raced>>

\* planDocuments asks for the column, not for the version.
Pending == "document" \in columns /\ \E r \in Rows : document[r] = "row"

\* prepareMigration
Prepare(o) ==
    /\ opener[o].at = "prepare"
    /\ Becomes(o, IF opener[o].to = Documents /\ Pending
                  THEN [opener[o] EXCEPT !.at = "page", !.after = 0, !.failed = FALSE, !.inARow = 0]
                  ELSE [opener[o] EXCEPT !.at = "apply", !.stmt = 1])
    /\ UNCHANGED <<schemaVars, rowVars, raced>>

-----------------------------------------------------------------------------
(* Moving the documents                                                      *)

\* The first Batch of a set of rows, in key order.
FirstOf(S) == {r \in S : Cardinality({q \in S : q < r}) < Batch}
Page(S) == CHOOSE p \in [1..Cardinality(FirstOf(S)) -> FirstOf(S)] : \A i, j \in DOMAIN p : i < j => p[i] < p[j]

\* What a finished walk must have achieved for the column to be dropped.
MovedAll(o) == ~opener[o].failed

\* documentKeys: the next page of rows that hold a document, by key and past the last.
NextPage(o) ==
    /\ opener[o].at = "page"
    /\ LET rows == {r \in Rows : document[r] = "row" /\ r > opener[o].after}
       IN IF "document" \notin columns \/ (rows = {} /\ ~MovedAll(o)) THEN Fails(o)
          ELSE Becomes(o, IF rows # {} THEN [opener[o] EXCEPT !.at = "move", !.page = Page(rows)]
                          ELSE [opener[o] EXCEPT !.at = "apply", !.stmt = 1, !.page = <<>>])
    /\ UNCHANGED <<schemaVars, rowVars, raced>>

\* A row is behind the walk, whatever became of it.
Past(o, failed, refusals) ==
    LET rest == Tail(opener[o].page)
    IN Becomes(o, [opener[o] EXCEPT !.at = IF rest = <<>> THEN "page" ELSE "move", !.page = rest,
                                    !.after = Head(opener[o].page), !.failed = failed, !.inARow = refusals])

\* moveDocument: read the row, then write the object; a refused write is counted.
MoveDocument(o) ==
    LET r == Head(opener[o].page)
        refusals == opener[o].inARow + 1
    IN /\ opener[o].at = "move"
       /\ \/ /\ "document" \notin columns
             /\ Fails(o) /\ UNCHANGED objects
          \/ /\ "document" \in columns /\ document[r] = "none"
             /\ Past(o, opener[o].failed, 0) /\ UNCHANGED objects
          \/ /\ document[r] = "row"
             /\ objects' = objects \cup {r} /\ Goes(o, "record")
          \/ /\ document[r] = "row"
             /\ IF refusals >= MaxInARow THEN Fails(o) ELSE Past(o, TRUE, refusals)
             /\ UNCHANGED objects
       /\ UNCHANGED <<schemaVars, document, named, refs, raced>>

\* recordMovedDocument: one statement names the object and empties the column.
RecordMoved(o) ==
    LET r == Head(opener[o].page)
    IN /\ opener[o].at = "record"
       /\ IF "document" \in columns
          THEN /\ document' = [document EXCEPT ![r] = "none"] /\ named' = named \cup {r}
               /\ Past(o, opener[o].failed, 0)
          ELSE Fails(o) /\ UNCHANGED <<document, named>>
       /\ UNCHANGED <<schemaVars, objects, refs, raced>>

-----------------------------------------------------------------------------
(* The statements of a version                                               *)

\* Mutant: a drop that finds nothing to drop is an error on MySQL too.
AddsOnly(v) == IF Drops(v) THEN {"postgres"} ELSE {"sqlite", "postgres", "mysql"}
\* Whether a statement whose work is done already goes through: alreadyApplied, or
\* "if exists" in the statement.
Tolerant(v) == IF Drops(v) THEN {"postgres", "mysql"} ELSE {"sqlite", "postgres", "mysql"}

Done(v, c) == (c \in columns) # Drops(v)
Runs(v, c) == ~Done(v, c) \/ dialect \in Tolerant(v)
\* A table that is there is not created again, with the column or without it.
Made(v, cs) == CASE Drops(v) -> columns \ cs
                 [] v = 1 /\ "results" \notin columns -> {"results", "document"}
                 [] OTHER -> columns \cup cs
\* Dropping the column takes what is in it.
Dropped(v) == document' = IF Drops(v) THEN [r \in Rows |-> "none"] ELSE document
Succeeds(o, v) == Becomes(o, IF v = Target THEN [opener[o] EXCEPT !.at = "count"]
                             ELSE [opener[o] EXCEPT !.at = "prepare", !.to = v + 1])

\* Where DDL is transactional the statements and the version are one step.
ApplyMigration(o) ==
    LET v == opener[o].to
    IN /\ opener[o].at = "apply" /\ dialect # "mysql"
       /\ IF \A c \in Migrations[v] : Runs(v, c)
          THEN columns' = Made(v, Migrations[v]) /\ version' = v /\ Dropped(v) /\ Succeeds(o, v)
          ELSE Fails(o) /\ UNCHANGED <<columns, version, document>>
       /\ UNCHANGED <<dialect, named, objects, readable, refs, raced>>

\* MySQL commits each statement, and the version after the last of them.
ApplyStatement(o) ==
    LET v == opener[o].to
        c == Statement(v, opener[o].stmt)
    IN /\ opener[o].at = "apply" /\ dialect = "mysql" /\ opener[o].stmt <= Cardinality(Migrations[v])
       /\ IF Runs(v, c)
          THEN columns' = Made(v, {c}) /\ Dropped(v) /\ Becomes(o, [opener[o] EXCEPT !.stmt = @ + 1])
          ELSE Fails(o) /\ UNCHANGED <<columns, document>>
       /\ UNCHANGED <<dialect, version, named, objects, readable, refs, raced>>

SetSchemaVersion(o) ==
    LET v == opener[o].to
    IN /\ opener[o].at = "apply" /\ dialect = "mysql" /\ opener[o].stmt > Cardinality(Migrations[v])
       /\ version' = v /\ Succeeds(o, v)
       /\ UNCHANGED <<dialect, columns, rowVars, readable, raced>>

-----------------------------------------------------------------------------
(* Recording what each result refers to                                      *)

Unindexed(o) == {r \in named : refs[r] = "unknown" /\ r > opener[o].after}
CountUnindexed(o) ==
    /\ opener[o].at = "count"
    /\ Becomes(o, [opener[o] EXCEPT !.at = "index", !.after = 0, !.inARow = 0])
    /\ UNCHANGED <<schemaVars, rowVars, raced>>

\* indexOneResult: read the document, replace the references and mark the row in one
\* transaction; a row that cannot be recorded is left for the next start.
IndexResult(o) == \E r \in Unindexed(o) :
    /\ opener[o].at = "index" /\ \A q \in Unindexed(o) : r <= q
    /\ \/ /\ refs' = [refs EXCEPT ![r] = IF r \in objects \cap readable THEN "recorded" ELSE "underivable"]
          /\ Becomes(o, [opener[o] EXCEPT !.after = r, !.inARow = 0])
       \/ /\ UNCHANGED refs
          /\ LET refusals == opener[o].inARow + 1
             IN Becomes(o, [opener[o] EXCEPT !.after = r, !.inARow = refusals,
                                             !.at = IF refusals >= MaxInARow THEN "open" ELSE "index"])
    /\ UNCHANGED <<schemaVars, document, named, objects, raced>>

EndIndex(o) ==
    /\ opener[o].at = "index" /\ Unindexed(o) = {}
    /\ Goes(o, "open")
    /\ UNCHANGED <<schemaVars, rowVars, raced>>

-----------------------------------------------------------------------------
Step(o) == \/ RefuseNewer(o) \/ Open(o) \/ OpenForInspection(o) \/ Stop(o) \/ Prepare(o)
           \/ NextPage(o) \/ MoveDocument(o) \/ RecordMoved(o)
           \/ ApplyMigration(o) \/ ApplyStatement(o) \/ SetSchemaVersion(o)
           \/ CountUnindexed(o) \/ IndexResult(o) \/ EndIndex(o)
Next == \E o \in Openers : Step(o)
Spec == Init /\ [][Next]_vars

-----------------------------------------------------------------------------
(* Nothing is lost by an upgrade that fails, is interrupted, or runs in two  *)
(* processes at once: the document of every result an earlier build stored   *)
(* is in its row, or in the bucket under the name its row gives.             *)
KeepsDocuments ==
    \A r \in Rows : document[r] = "row" /\ document'[r] = "none" => r \in named' \cap objects'
DocumentsSurvive == [][KeepsDocuments]_vars

(* What the record still asks for applies to the columns that are there, it  *)
(* claims no version whose work is undone, and whoever has the store open    *)
(* finds the whole schema.                                                   *)
ReplayApplies == \A v \in 1..Target : v > version => \A c \in Migrations[v] :
    Runs(v, c) \/ (Drops(v) /\ "results" \notin columns)
RecordIsEarned == version <= Target => \A v \in 1..version : \A c \in Migrations[v] : Done(v, c)
OpenedIsCurrent == \A o \in Openers :
    opener[o].at \in {"count", "index", "open"} => columns = After(Target)

(* No interruption leaves a store that no build can open, and on a server no *)
(* race of two migrations either, though the record may go back meanwhile.   *)
StoreStaysOpenable ==
    (dialect = "sqlite" /\ raced) \/ (ReplayApplies /\ RecordIsEarned /\ OpenedIsCurrent)
================================================================================
