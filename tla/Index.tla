-------------------------------- MODULE Index --------------------------------
(***************************************************************************)
(* The indexes: the tables index_definitions and document_fields, kept by  *)
(* u1db_create_index, u1db_delete_index and write_doc, and the queries on  *)
(* them (src/u1db.c, src/u1db_query.c).                                    *)
(*                                                                         *)
(* An expression is what it extracts: the content of a document is, here,  *)
(* the set of values that each expression finds in it.  Processes share    *)
(* the database; every action is a statement, or a transaction, of one.    *)
(* (Threads that share a connection are Connection's matter.)              *)
(***************************************************************************)
EXTENDS Naturals, FiniteSets, SequencesExt

CONSTANTS
  Doc,          \* document ids
  Expr,         \* index expressions
  Value,        \* the values they extract, texts
  Content,      \* what documents can contain: the values of each expression
  Faulty,       \* those that can be parsed and not evaluated: number(a, x)
  Absent,       \* there is no row of the document
  Deleted,      \* the NULL content of a deleted document
  Name,         \* index names
  Definition,   \* the lists of expressions that indexes are created with
  Argument,     \* what a query asks of a column
  Special,      \* the letters that mean something to GLOB: * ? [
  Globbed,      \* the values that GLOB finds for a text with a * behind it
  Process,      \* the processes that have the database open
  MaxCrashes    \* bound: how often a process dies

\* NO_GLOB, a text; ENDS_IN_GLOB, the beginning of one; IS_GLOB, any text.
Glob == {"no", "ends", "is"}

ASSUME FaultyAssumption == Faulty \subseteq Expr
ASSUME ContentAssumption == Value \subseteq Seq(Nat) /\ Content \subseteq [Expr -> SUBSET Value]
ASSUME NoContentAssumption == Absent \notin Content /\ Deleted \notin Content
ASSUME DefinitionAssumption == Definition \subseteq Seq(Expr) \ {<<>>}
ASSUME ArgumentAssumption == Argument \subseteq [glob : Glob, text : Seq(Nat)]
ASSUME MaxCrashesAssumption == MaxCrashes \in Nat

\* SQLite's GLOB, of which all that is known is what it makes of plain texts.
Plain(text) == \A n \in DOMAIN text : text[n] \notin Special
ASSUME GlobbedAssumption ==
  \A arg \in Argument :
    Plain(arg.text) => Globbed[arg.text] = {v \in Value : IsPrefix(arg.text, v)}

VARIABLES
  content,              \* content[d]: column content of table document
  index_definitions,    \* index_definitions[n]: the fields of n, by offset
  document_fields,      \* document_fields[row]: how many such rows there are
  deleting,             \* the processes midway in u1db_delete_index
  resolving,            \* the write that u1db_resolve_doc is midway in, if any
  answer,               \* what the last operation answered
  crashes,              \* history: how often a process died, midway in deleting
  unfinished            \* history: the documents whose last write is a resolution
                        \* that has not come to its end

vars == <<content, index_definitions, document_fields, deleting, resolving, answer,
          crashes, unfinished>>

Row == [doc : Doc, field : Expr, value : Value]
Live(d) == content[d] \notin {Absent, Deleted}

\* How often e is in the list, and in the table.
Occurrences(list, e) == Cardinality({n \in DOMAIN list : list[n] = e})
Definitions(e) ==
  UNION {{n} \X {offset \in DOMAIN index_definitions[n] : index_definitions[n][offset] = e} : n \in Name}
Indexed(e) == Definitions(e) # {}

\* The definitions one by one, each with the values that it extracts from c.
Statement == [definition : Name \X (Nat \ {0}), field : Expr, value : Value]
Extracted(c) ==
  IF c = Deleted THEN {}
  ELSE UNION {[definition : Definitions(e), field : {e}, value : c[e]] : e \in Expr}

Init ==
  /\ content = [d \in Doc |-> Absent]
  /\ index_definitions = [n \in Name |-> <<>>]
  /\ document_fields = [row \in Row |-> 0]
  /\ deleting = {}
  /\ resolving = {}
  /\ answer = "ok"
  /\ crashes = 0
  /\ unfinished = {}

\* u1db_resolve_doc reads the document until it returns (lookup_doc's statement is
\* not finished before), and no other process can commit meanwhile.
MayCommit == resolving = {}

\* Mistaken: the rows of what the document was are left.
WriteDocKeepingFields(d, c) ==
  /\ content' = [content EXCEPT ![d] = c]
  /\ document_fields' = [row \in Row |->
       document_fields[row]
         + (IF row.doc = d /\ c # Deleted /\ row.value \in c[row.field]
            THEN Cardinality(Definitions(row.field)) ELSE 0)]
  /\ answer' = "ok"
  /\ unfinished' = unfinished \ {d}
  /\ UNCHANGED <<index_definitions, deleting, resolving, crashes>>

\* write_doc in the transaction of u1db_put_doc, u1db_delete_doc or
\* u1db__put_doc_if_newer: delete_old_fields, if there was a row, and u1db__update_indexes,
\* which goes through the definitions one by one and inserts what each extracts.
WriteDoc(d, c) ==
  /\ MayCommit
  /\ c # Deleted => \A e \in Faulty : ~Indexed(e)
  /\ content' = [content EXCEPT ![d] = c]
  /\ document_fields' = [row \in Row |->
       (IF row.doc = d /\ content[d] # Absent THEN 0 ELSE document_fields[row])
         + (IF row.doc = d /\ c # Deleted /\ row.value \in c[row.field]
            THEN Cardinality(Definitions(row.field)) ELSE 0)]
  /\ answer' = "ok"
  /\ unfinished' = unfinished \ {d}
  /\ UNCHANGED <<index_definitions, deleting, resolving, crashes>>

\* An expression fails, and the transaction is rolled back.
WriteDocFails ==
  /\ \E e \in Faulty : Indexed(e)
  /\ answer' = "failed"
  /\ UNCHANGED <<content, index_definitions, document_fields, deleting, resolving,
                 crashes, unfinished>>

\* write_doc in u1db_resolve_doc, which has no transaction: each statement is
\* committed by itself. The first is that of delete_old_fields.
ResolveDeletesFields(p, d, c) ==
  /\ p \notin deleting /\ MayCommit
  /\ content[d] # Absent
  /\ document_fields' = [row \in Row |-> IF row.doc = d THEN 0 ELSE document_fields[row]]
  /\ resolving' = {[doc |-> d, content |-> c, at |-> "row", left |-> {}]}
  /\ unfinished' = unfinished \cup {d}
  /\ UNCHANGED <<content, index_definitions, deleting, answer, crashes>>

\* Then the row, and what is to be inserted.
ResolveWritesRow(w) ==
  /\ w.at = "row"
  /\ content' = [content EXCEPT ![w.doc] = w.content]
  /\ resolving' = {[w EXCEPT !.at = "fields", !.left = Extracted(w.content)]}
  /\ UNCHANGED <<index_definitions, document_fields, deleting, answer, crashes, unfinished>>

\* u1db__update_indexes, value by value.
ResolveInsertsField(w) ==
  /\ w.at = "fields"
  /\ \E s \in w.left :
       /\ s.field \notin Faulty
       /\ document_fields' =
            [document_fields EXCEPT ![[doc |-> w.doc, field |-> s.field, value |-> s.value]] = @ + 1]
       /\ resolving' = {[w EXCEPT !.left = @ \ {s}]}
  /\ UNCHANGED <<content, index_definitions, deleting, answer, crashes, unfinished>>

ResolveEnds(w) ==
  /\ w.at = "fields" /\ w.left = {}
  /\ w.content # Deleted => \A e \in Faulty : ~Indexed(e)
  /\ resolving' = {}
  /\ answer' = "ok"
  /\ unfinished' = unfinished \ {w.doc}
  /\ UNCHANGED <<content, index_definitions, document_fields, deleting, crashes>>

\* A statement or an expression fails, or the process dies: what has been done
\* stays, the row without the fields.
ResolveStops(w) ==
  /\ resolving' = {}
  /\ answer' = "failed"
  /\ UNCHANGED <<content, index_definitions, document_fields, deleting, crashes, unfinished>>

\* u1db__find_unique_expressions: no index has e yet. An expression that the
\* list has twice is looked up twice, and new both times.
NewTo(e) == ~Indexed(e)

\* How many rows of e the list makes in each document.
IndexedIn(list, e) == IF NewTo(e) THEN Occurrences(list, e) ELSE 0

\* An expression cannot be evaluated: that is noticed where there is a document
\* to evaluate it on.
Fails(list) ==
  /\ \E d \in Doc : Live(d)
  /\ \E offset \in DOMAIN list : NewTo(list[offset]) /\ list[offset] \in Faulty

\* u1db_create_index_list, of a name that is free: the definitions, and
\* u1db__index_all_docs of the expressions that are new.
CreateIndex(n, list) ==
  /\ MayCommit
  /\ index_definitions[n] = <<>>
  /\ ~Fails(list)
  /\ index_definitions' = [index_definitions EXCEPT ![n] = list]
  /\ document_fields' = [row \in Row |->
       document_fields[row]
         + (IF Live(row.doc) /\ row.value \in content[row.doc][row.field]
            THEN IndexedIn(list, row.field) ELSE 0)]
  /\ answer' = "ok"
  /\ UNCHANGED <<content, deleting, resolving, crashes, unfinished>>

CreateIndexFails(n, list) ==
  /\ index_definitions[n] = <<>>
  /\ Fails(list)
  /\ answer' = "failed"
  /\ UNCHANGED <<content, index_definitions, document_fields, deleting, resolving,
                 crashes, unfinished>>

\* The definition of a name in use is read from its last offset to its first,
\* and compared with the list from its first to its last. When it is the longer
\* of the two, what lies behind the list is compared with the rest of it.
CreateAnswers(stored, list) ==
  LET backwards == [n \in DOMAIN stored |-> stored[Len(stored) - n + 1]]
  IN IF \E n \in DOMAIN stored \cap DOMAIN list : backwards[n] # list[n]
     THEN {"duplicate"}
     ELSE IF Len(stored) > Len(list) THEN {"ok", "duplicate"} ELSE {"ok"}

\* Mistaken: the expressions are added to the index.
CreateIndexAppends(n, list) ==
  /\ index_definitions[n] # <<>>
  /\ index_definitions' = [index_definitions EXCEPT ![n] = @ \o list]
  /\ answer' = "ok"
  /\ UNCHANGED <<content, document_fields, deleting, resolving, crashes, unfinished>>

CreateIndexAgain(n, list) ==
  /\ index_definitions[n] # <<>>
  /\ answer' \in CreateAnswers(index_definitions[n], list)
  /\ UNCHANGED <<content, index_definitions, document_fields, deleting, resolving,
                 crashes, unfinished>>

\* The first statement of u1db_delete_index, and the second one: it opens no
\* transaction.
DeleteDefinitions(p, n) ==
  /\ p \notin deleting /\ MayCommit
  /\ index_definitions' = [index_definitions EXCEPT ![n] = <<>>]
  /\ deleting' = deleting \cup {p}
  /\ UNCHANGED <<content, document_fields, resolving, answer, crashes, unfinished>>

\* Mistaken: the rows stay.
DeleteFieldsNot(p) ==
  /\ p \in deleting
  /\ deleting' = deleting \ {p}
  /\ answer' = "ok"
  /\ UNCHANGED <<content, index_definitions, document_fields, resolving, crashes, unfinished>>

DeleteFields(p) ==
  /\ p \in deleting /\ MayCommit
  /\ document_fields' = [row \in Row |->
       IF Indexed(row.field) THEN document_fields[row] ELSE 0]
  /\ deleting' = deleting \ {p}
  /\ answer' = "ok"
  /\ UNCHANGED <<content, index_definitions, resolving, crashes, unfinished>>

\* The second statement fails, or the process dies before it.
Crash(p) ==
  /\ p \in deleting
  /\ crashes < MaxCrashes
  /\ crashes' = crashes + 1
  /\ deleting' = deleting \ {p}
  /\ UNCHANGED <<content, index_definitions, document_fields, resolving, answer, unfinished>>

Next ==
  \/ \E d \in Doc, c \in Content \cup {Deleted} :
       \/ WriteDoc(d, c)
       \/ \E p \in Process : ResolveDeletesFields(p, d, c)
  \/ WriteDocFails
  \/ \E w \in resolving :
       ResolveWritesRow(w) \/ ResolveInsertsField(w) \/ ResolveEnds(w) \/ ResolveStops(w)
  \/ \E n \in Name, list \in Definition :
       CreateIndex(n, list) \/ CreateIndexFails(n, list) \/ CreateIndexAgain(n, list)
  \/ \E p \in Process :
       \/ \E n \in Name : DeleteDefinitions(p, n)
       \/ DeleteFields(p)
       \/ Crash(p)

Spec == Init /\ [][Next]_vars
-----------------------------------------------------------------------------
(***************************************************************************)
(* Queries.                                                                *)
(***************************************************************************)

\* The fields that queries are of: u1db_query_init copies those of an index,
\* which may be deleted, and created otherwise, before the query is made.
Prepared == Definition

\* strcmp, which is how SQLite compares: v comes before w, or is w.
AtMost(v, w) ==
  \/ IsPrefix(v, w)
  \/ \E n \in DOMAIN v \cap DOMAIN w : v[n] < w[n] /\ SubSeq(v, 1, n - 1) = SubSeq(w, 1, n - 1)

\* u1db__format_query and u1db__format_range_query: after a glob there is
\* nothing but globs that are no more than that.
GlobbingAllowed(list) ==
  \A m, n \in DOMAIN list : m < n /\ list[m].glob # "no" => list[n].glob = "is"

Arguments(n) == {list \in [1..n -> Argument] : GlobbingAllowed(list)}

\* The conditions on the value of a column: of an exact query, and of the start
\* and the end of a range. A range without one of them has the conditions of
\* IS_GLOB there.
Equal(arg) ==
  {v \in Value : CASE arg.glob = "no" -> v = arg.text
                   [] arg.glob = "ends" -> v \in Globbed[arg.text]
                   [] arg.glob = "is" -> TRUE}
From(arg) == {v \in Value : arg.glob = "is" \/ AtMost(arg.text, v)}
To(arg) ==
  {v \in Value : CASE arg.glob = "no" -> AtMost(v, arg.text)
                   [] arg.glob = "ends" -> \/ AtMost(v, arg.text) /\ v # arg.text
                                          \/ v \in Globbed[arg.text]
                   [] arg.glob = "is" -> TRUE}

\* Column by column: the conditions of an exact query, and of a range.
Exactly(list) == [n \in DOMAIN list |-> Equal(list[n])]
Within(list, end) == [n \in DOMAIN list |-> From(list[n]) \cap To(end[n])]

\* The join of document_fields with itself: for each field, a row of the document;
\* and the values of those rows are the key.
Joined(fields) ==
  {x \in Doc \X [DOMAIN fields -> Value] :
     \A n \in DOMAIN fields :
       document_fields[[doc |-> x[1], field |-> fields[n], value |-> x[2][n]]] > 0}

\* What of a join satisfies the conditions of the columns.
Where(joined, wanted) == {x \in joined : \A n \in DOMAIN wanted : x[2][n] \in wanted[n]}

\* u1db_get_from_index_list and u1db_get_range_from_index: the documents.
GetFromIndex(joined, wanted) ==
  {d \in Doc : content[d] # Absent /\ \E x \in Where(joined, wanted) : x[1] = d}

\* u1db_get_index_keys: the keys of all documents.
GetIndexKeys(joined) == {x[2] : x \in joined}
-----------------------------------------------------------------------------
(***************************************************************************)
(* Properties.                                                             *)
(***************************************************************************)
TypeOK ==
  /\ content \in [Doc -> Content \cup {Absent, Deleted}]
  /\ index_definitions \in [Name -> {<<>>} \cup Definition]
  /\ document_fields \in [Row -> Nat]
  /\ deleting \subseteq Process
  /\ resolving \subseteq [doc : Doc, content : Content \cup {Deleted}, at : {"row", "fields"},
                          left : SUBSET Statement]
  /\ answer \in {"ok", "failed", "duplicate"}
  /\ crashes \in Nat
  /\ unfinished \subseteq Doc

\* The documents with the values that each has under a list of fields.
Held(fields) ==
  {x \in Doc \X [DOMAIN fields -> Value] :
     Live(x[1]) /\ \A n \in DOMAIN fields : x[2][n] \in content[x[1]][fields[n]]}

\* What is asked for: of a range that ends, or begins, in a glob, the first
\* letters of a value are compared.
First(v, text) == SubSeq(v, 1, IF Len(v) < Len(text) THEN Len(v) ELSE Len(text))
Asked(arg, v) == IF arg.glob = "ends" THEN First(v, arg.text) = arg.text ELSE arg.glob = "is" \/ v = arg.text
AskedFrom(arg, v) == arg.glob = "is" \/ AtMost(arg.text, v)
AskedTo(arg, v) ==
  arg.glob = "is" \/ AtMost(IF arg.glob = "ends" THEN First(v, arg.text) ELSE v, arg.text)

\* Column by column: the values that an exact query and a range ask for.
AskedExactly(list) == [n \in DOMAIN list |-> {v \in Value : Asked(list[n], v)}]
AskedWithin(list, end) ==
  [n \in DOMAIN list |-> {v \in Value : AskedFrom(list[n], v) /\ AskedTo(end[n], v)}]

\* The queries of n columns whose arguments mean to GLOB what they say: the values
\* that the conditions want, and those that are asked for.
Plainly(list) == \A n \in DOMAIN list : list[n].glob = "ends" => Plain(list[n].text)
Queries ==
  [n \in {Len(fields) : fields \in Definition} |->
     LET plain == {list \in Arguments(n) : Plainly(list)}
     IN {[wanted |-> Exactly(list), asked |-> AskedExactly(list)] : list \in plain} \cup
        {[wanted |-> Within(list, end), asked |-> AskedWithin(list, end)] : list, end \in plain}]

\* The documents that have them.
Matching(held, asked) == {x[1] : x \in Where(held, asked)}

\* A query finds nothing but what matches, and all of it, if every field is of an
\* index still, but for what a resolution is midway in writing or has left
\* unfinished.
Finds(fields, found, matching, finished) ==
  /\ found \subseteq matching
  /\ (\A n \in DOMAIN fields : Indexed(fields[n])) => finished \subseteq found

\* A query finds the documents that match it, all of them and no other,
\* however indexes, documents and dying processes have followed one another
\* since it was prepared. If its index is gone it may find less, never a
\* document for what it no longer contains. The keys of an index are those of
\* the documents. Two things are excepted: a text that has letters special to GLOB,
\* and a document whose resolution has not come to its end, until it is written
\* again; such a one may be missing, and is not found for what it was.
QueriesFindMatching ==
  \A fields \in Prepared :
    LET joined == Joined(fields)
        held == Held(fields)
        complete == {x \in held : x[1] \notin unfinished}
    IN /\ Finds(fields, GetIndexKeys(joined), GetIndexKeys(held), GetIndexKeys(complete))
       /\ \A q \in Queries[Len(fields)] :
            Finds(fields, GetFromIndex(joined, q.wanted),
                  Matching(held, q.asked), Matching(complete, q.asked))

\* Every row is of an expression that some index has, but where a process is,
\* or has died, between the statements of u1db_delete_index.
RowsAreIndexed ==
  deleting = {} /\ crashes = 0 =>
    \A row \in Row : document_fields[row] > 0 => Indexed(row.field)
=============================================================================
