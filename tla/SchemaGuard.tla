---------------------------- MODULE SchemaGuard ----------------------------
(***************************************************************************)
(* What processes that start side by side do to a database that is older   *)
(* or newer than they are: the indexes they declare                        *)
(* (pkg/database/index_guard.go) and the vector column of the messages     *)
(* (pkg/database/postgresql.go).                                           *)
(*                                                                         *)
(* An index has a meaning, the queries it answers, and a reading, what the *)
(* catalogue query and the comparison of texts see of it.  The tables are  *)
(* those of the schema; columns of the feedback table are left out.        *)
(***************************************************************************)
EXTENDS Integers, FiniteSets, SequencesExt

CONSTANTS
    Starts,      \* processes
    Declared,    \* sequence of the indexes the program declares
    Priors,      \* sets of indexes that may be there before
    NormalForm,  \* [predicates -> predicates]: normalizePredicate
    Columns,     \* dimensions messages may have before; Absent and NoDimension too
    Want         \* [Starts -> dimensions]: embedding.dimension of the process

Whole       == "whole"        \* the predicate of an index of all rows
Computed    == "computed"     \* a key column that is an expression
\* The dimension of a column that is not there, and of one without a dimension.
Absent      == -1
NoDimension == 0

VARIABLES
    indexes,     \* pg_index
    dimensioned, \* document_chunks.embedding has a dimension
    column,      \* chat_messages.embedding
    start,       \* the processes: what they do next, and what they read for it
    said         \* [Starts -> [Reports -> results]], as logged

schemaVars == <<indexes, dimensioned, column, start, said>>

\* What a start reports: each declared index, and the column.
Unsaid  == "unsaid"
Reports == {d.name : d \in ToSet(Declared)} \cup {"column"}

\* indexMethodFamily.  Mutant: methods are compared by name.
Family_ByName(method) == method

Family(method) == IF method \in {"ivfflat", "hnsw"} THEN "ann" ELSE method

SchemaInit ==
    /\ indexes \in Priors /\ dimensioned \in BOOLEAN
    /\ ~dimensioned => \A i \in indexes : Family(i.method) # "ann"
    /\ column \in Columns
    /\ start = [p \in Starts |-> [pc |-> "list", next |-> 1]]
    /\ said = [p \in Starts |-> [what \in Reports |-> Unsaid]]

Says(p, what, result) == said' = [said EXCEPT ![p] = [@ EXCEPT ![what] = result]]

-----------------------------------------------------------------------------
(* How an index is read, and what it is taken for.                         *)

\* tableIndexesSQL joins indkey with the columns of the table: an expression has
\* none, the others stay in their order.
ColumnsOf(indkey) ==
    LET real == {n \in DOMAIN indkey : indkey[n] # Computed}
        Nth(k) == CHOOSE n \in real : Cardinality({m \in real : m <= n}) = k
    IN [k \in 1 .. Cardinality(real) |-> indkey[Nth(k)]]

\* Keys and included columns alike; no operator class.
Definition(i) ==
    [method |-> i.method, columns |-> ColumnsOf(i.keys \o i.included),
     predicate |-> NormalForm[i.predicate], unique |-> i.unique]

\* Whether a answers every query b answers.
Covers(a, b) ==
    /\ Family(a.method) = Family(b.method)
    /\ b.unique => a.unique
    /\ IsPrefix(b.columns, a.columns)
    /\ a.predicate \in {NormalForm[Whole], b.predicate}

-----------------------------------------------------------------------------
(* ensureIndex, for each declared index: two statements.                   *)

Follows(p) == [pc |-> IF start[p].next < Len(Declared) THEN "list" ELSE "column",
               next |-> start[p].next + 1]
Settles(p, result) ==
    /\ Says(p, Declared[start[p].next].name, result)
    /\ start' = [start EXCEPT ![p] = Follows(p)]

\* loadTableIndexes.  A column without a dimension cannot have a vector index.
ListIndexes(p) ==
    /\ start[p].pc = "list"
    /\ LET d == Declared[start[p].next] IN
       \/ /\ Family(d.method) = "ann" => dimensioned
          /\ start' = [start EXCEPT ![p] =
                 [pc |-> "decide", next |-> @.next, seen |-> {i \in indexes : i.table = d.table}]]
          /\ UNCHANGED said
       \/ Settles(p, "warned")
    /\ UNCHANGED <<indexes, dimensioned, column>>

\* CREATE INDEX IF NOT EXISTS: a name is taken for the whole schema.
Create(p, d) ==
    \/ /\ indexes' = IF \E i \in indexes : i.name = d.name THEN indexes ELSE indexes \cup {d}
       /\ Settles(p, "created")
    \/ Settles(p, "warned") /\ UNCHANGED indexes

\* Mutant: an index is looked for by its name only.
Decide_ByName(p) ==
    /\ start[p].pc = "decide"
    /\ LET d == Declared[start[p].next] IN
       IF \E i \in start[p].seen : i.name = d.name
       THEN Settles(p, "ready") /\ UNCHANGED indexes
       ELSE Create(p, d)
    /\ UNCHANGED <<dimensioned, column>>

Decide(p) ==
    /\ start[p].pc = "decide"
    /\ LET d == Declared[start[p].next]
           named == {i \in start[p].seen : i.name = d.name}
           Cover(is) == \E i \in is : Covers(Definition(i), Definition(d))
       IN IF named = {} /\ ~Cover(start[p].seen) THEN Create(p, d)
          ELSE /\ Settles(p, IF named = {} \/ Cover(named) THEN "ready" ELSE "warned")
               /\ UNCHANGED indexes
    /\ UNCHANGED <<dimensioned, column>>

-----------------------------------------------------------------------------
(* EnsureChatMessageEmbeddingSchema.                                       *)

Verdict(p, type) ==
    CASE type = NoDimension -> "warned"
      [] type # NoDimension /\ Want[p] > 0 /\ type # Want[p] -> "mismatch"
      [] OTHER -> "ready"
Judges(p, result) ==
    /\ Says(p, "column", result)
    /\ start' = [start EXCEPT ![p] = [pc |-> "up"]]

ReadColumn(p) ==
    /\ start[p].pc = "column"
    /\ \/ column # Absent /\ Judges(p, Verdict(p, column))
       \/ column = Absent /\ Want[p] = 0 /\ Judges(p, "warned")
       \/ column = Absent /\ Want[p] > 0 /\ start' = [start EXCEPT ![p] = [pc |-> "add"]] /\ UNCHANGED said
       \/ Judges(p, "failed")
    /\ UNCHANGED <<indexes, dimensioned, column>>

\* ADD COLUMN IF NOT EXISTS; the type is not read again.
AddColumn(p) ==
    /\ start[p].pc = "add"
    /\ \/ column' = (IF column = Absent THEN Want[p] ELSE column) /\ Judges(p, "added")
       \/ Judges(p, "failed") /\ UNCHANGED column
    /\ UNCHANGED <<indexes, dimensioned>>

SchemaNext == \E p \in Starts : ListIndexes(p) \/ Decide(p) \/ ReadColumn(p) \/ AddColumn(p)

-----------------------------------------------------------------------------
\* A query finds the rows of a predicate by leading columns and an operator.
Queries == UNION {{[table |-> d.table, method |-> d.method, ops |-> d.ops,
                    columns |-> SubSeq(d.keys, 1, n), rows |-> d.predicate] : n \in 1 .. Len(d.keys)} :
                  d \in ToSet(Declared)}
Answers(i, q) ==
    /\ i.table = q.table /\ i.ops = q.ops
    /\ i.method = q.method \/ {i.method, q.method} \subseteq {"ivfflat", "hnsw"}
    /\ IsPrefix(q.columns, i.keys)
    /\ i.predicate \in {Whole, q.rows}
Serves(i, d) == \A q \in Queries : Answers(d, q) => Answers(i, q)

\* Where the reading of an index leaves out or confuses what it means.
Misread(i, d) ==
    \/ i.included # <<>> \/ Computed \in ToSet(i.keys) \/ i.ops # d.ops
    \/ i.predicate # d.predicate /\ NormalForm[i.predicate] = NormalForm[d.predicate]

\* What is declared and what may be there: relation names are unique; a declared
\* index has plain columns and is not unique, and none stands in for another.
IsIndex(i) ==
    /\ i.keys \in Seq(STRING) /\ i.included \in Seq(STRING)
    /\ i.predicate \in DOMAIN NormalForm /\ i.method # "ann"
NamesDiffer(is) == \A i, j \in is : i.name = j.name => i = j
SoundDeclarations ==
    /\ \A is \in Priors : NamesDiffer(is) /\ \A i \in is : IsIndex(i)
    /\ Declared \in Seq(ToSet(Declared)) /\ Declared # <<>> /\ NamesDiffer(ToSet(Declared))
    /\ \A d \in ToSet(Declared) :
          /\ IsIndex(d) /\ d.keys # <<>> /\ d.included = <<>> /\ Computed \notin ToSet(d.keys)
          /\ d.unique = FALSE /\ d.name # "column"
          /\ \A e \in ToSet(Declared) : Serves(e, d) => e = d
    /\ Whole \in DOMAIN NormalForm
    /\ \A x \in DOMAIN NormalForm : NormalForm[x] = NormalForm[Whole] => x = Whole
    /\ Columns \subseteq Nat \cup {Absent} /\ Want \in [Starts -> Nat]

-----------------------------------------------------------------------------
\* Relation names are unique, rows have their fields.
SchemaTypeOK ==
    /\ NamesDiffer(indexes) /\ \A i \in indexes : IsIndex(i)
    /\ column \in Nat \cup {Absent}
    /\ DOMAIN start = Starts
    /\ said \in [Starts -> [Reports -> {Unsaid, "ready", "created", "warned", "mismatch", "added", "failed"}]]

\* A start that reports an index as ready or created has one that answers
\* the declared one's queries, whatever is in the database and whoever
\* starts beside it; but an index that is misread may have been taken for
\* one, and a name may belong to another table.
Stands(d) ==
    \E i \in indexes :
        \/ Serves(i, d)
        \/ i.table = d.table /\ Misread(i, d) /\ Covers(Definition(i), Definition(d))
        \/ i.name = d.name /\ i.table # d.table
ReadyIndexesServe ==
    \A p \in Starts : \A d \in ToSet(Declared) :
        said[p][d.name] \notin {Unsaid, "warned"} => Stands(d)

\* A start adds no index whose queries another one answers already: every
\* write of the table would have to maintain both.
NoSecondIndex ==
    \A d \in indexes' \ indexes : \A i \in indexes : ~Serves(i, d)

\* A process that found the vector column ready writes vectors that fit it;
\* one that added it does too, unless another one was faster.
ReadyColumnFits ==
    \A p \in Starts : Want[p] > 0 =>
        /\ said[p]["column"] = "ready" => column = Want[p]
        /\ said[p]["column"] = "added" => column \in {Want[q] : q \in Starts}

\* Why it is so.  What a start read is still there, and what came since was
\* declared; a column that was not there is there only if another start added it.
Reading(p) ==
    LET s == start[p] IN
    /\ s.pc \in {"list", "decide"} => s.next \in 1 .. Len(Declared)
    /\ s.pc = "decide" =>
          LET table == Declared[s.next].table IN
          /\ s.seen \subseteq {i \in indexes : i.table = table}
          /\ \A i \in indexes \ s.seen : i.table = table => i \in ToSet(Declared)
    /\ s.pc = "add" => Want[p] > 0 /\ column \in {Absent} \cup {Want[q] : q \in Starts}

\* The inductive invariant of the starts.
SchemaInv == SchemaTypeOK /\ ReadyIndexesServe /\ ReadyColumnFits /\ \A p \in Starts : Reading(p)
=============================================================================
