----------------------------- MODULE IndexProofs -----------------------------
(***************************************************************************)
(* Theorems about Index, for any documents, expressions, values, names,    *)
(* definitions, arguments and processes.                                   *)
(***************************************************************************)
EXTENDS Index, FiniteSetTheorems, SequenceTheorems, TLAPS

\* A table has finitely many rows.
Defined == UNION {{n} \X DOMAIN index_definitions[n] : n \in Name}
FinitelyDefined == IsFiniteSet(Defined)

\* There are rows only for what a document contains, and where an expression is
\* of an index, for all that a document contains whose last write has ended.
Has(row) == Live(row.doc) /\ row.value \in content[row.doc][row.field]
RowsMatch ==
  \A row \in Row :
    /\ document_fields[row] > 0 => Has(row)
    /\ Indexed(row.field) /\ Has(row) /\ row.doc \notin unfinished => document_fields[row] > 0

\* A resolution has no rows of the document before it has written that; then there
\* are the rows that it has, but for those it is yet to insert.
Inserting(w) ==
  /\ content[w.doc] = w.content
  /\ \A x \in w.left : /\ Live(w.doc) /\ Indexed(x.field)
                       /\ x.value \in w.content[x.field]
  /\ \A row \in Row : row.doc = w.doc /\ Has(row) /\ Indexed(row.field) =>
       \/ document_fields[row] > 0
       \/ \E x \in w.left : x.field = row.field /\ x.value = row.value
Pending ==
  /\ \A w, x \in resolving : w = x
  /\ \A w \in resolving :
       /\ w.doc \in unfinished
       /\ w.at = "row" => \A row \in Row : row.doc = w.doc => document_fields[row] = 0
       /\ w.at = "fields" => Inserting(w)

\* The inductive invariant.
IInv == TypeOK /\ FinitelyDefined /\ RowsMatch /\ RowsAreIndexed /\ Pending
-----------------------------------------------------------------------------
(***************************************************************************)
(* Counting.                                                               *)
(***************************************************************************)

\* How often an expression is in the table index_definitions: not at all unless
\* an index has it.
LEMMA DefinitionsCount ==
  ASSUME FinitelyDefined, NEW e
  PROVE  /\ Cardinality(Definitions(e)) \in Nat
         /\ Cardinality(Definitions(e)) > 0 <=> Indexed(e)
  <1>1. Definitions(e) \subseteq Defined
    BY DEF Definitions, Defined
  <1>2. IsFiniteSet(Definitions(e))
    BY <1>1, FS_Subset DEF FinitelyDefined
  <1>3. Cardinality(Definitions(e)) \in Nat
    BY <1>2, FS_CardinalityType
  <1>4. Cardinality(Definitions(e)) = 0 <=> Definitions(e) = {}
    BY <1>2, FS_EmptySet
  <1>5. QED
    BY <1>3, <1>4 DEF Indexed

\* How often it is in the list that an index is created with.
LEMMA OccurrencesCount ==
  ASSUME NEW list \in Seq(Expr), NEW e
  PROVE  /\ Occurrences(list, e) \in Nat
         /\ Occurrences(list, e) > 0 <=> \E n \in DOMAIN list : list[n] = e
  <1> DEFINE at == {n \in DOMAIN list : list[n] = e}
  <1>1. IsFiniteSet(DOMAIN list)
    BY FS_Interval
  <1>2. IsFiniteSet(at)
    BY <1>1, FS_Subset
  <1>3. Cardinality(at) \in Nat /\ (Cardinality(at) = 0 <=> at = {})
    BY <1>2, FS_CardinalityType, FS_EmptySet
  <1>4. QED
    BY <1>3 DEF Occurrences

\* An expression is of an index if some definition has it.
LEMMA IndexedIs ==
  ASSUME NEW e
  PROVE  Indexed(e) <=>
           \E n \in Name : \E offset \in DOMAIN index_definitions[n] : index_definitions[n][offset] = e
  <1> DEFINE at(n) == {offset \in DOMAIN index_definitions[n] : index_definitions[n][offset] = e}
  <1>1. ASSUME NEW n \in Name, NEW offset \in DOMAIN index_definitions[n],
               index_definitions[n][offset] = e
        PROVE  Indexed(e)
    <2>1. <<n, offset>> \in {n} \X at(n)
      BY <1>1
    <2>2. <<n, offset>> \in Definitions(e)
      BY <2>1 DEF Definitions
    <2>3. QED
      BY <2>2 DEF Indexed
  <1>2. ASSUME Indexed(e)
        PROVE  \E n \in Name : \E offset \in DOMAIN index_definitions[n] :
                 index_definitions[n][offset] = e
    <2>1. PICK x : x \in Definitions(e)
      BY <1>2 DEF Indexed
    <2>2. PICK n \in Name : x \in {n} \X at(n)
      BY <2>1 DEF Definitions
    <2>3. PICK offset : offset \in at(n)
      BY <2>2
    <2>4. QED
      BY <2>3
  <1>3. QED
    BY <1>1, <1>2

\* So it is in every state, the next one included.
ByDefinition ==
  \A e : Indexed(e) <=>
    \E n \in Name : \E offset \in DOMAIN index_definitions[n] : index_definitions[n][offset] = e

\* After a step too, an expression is of an index if some definition has it.
LEMMA IndexedIsNext == ByDefinition'
  <1>1. ByDefinition
    BY IndexedIs DEF ByDefinition
  <1>2. QED
    BY <1>1, PTL

-----------------------------------------------------------------------------
(***************************************************************************)
(* The invariant is inductive.                                             *)
(***************************************************************************)

\* The invariant holds at the start.
LEMMA InitInv == Init => IInv
  <1> SUFFICES ASSUME Init PROVE IInv
    OBVIOUS
  <1>1. TypeOK
    BY DEF Init, TypeOK
  <1>2. Defined = {}
    BY DEF Init, Defined
  <1>3. FinitelyDefined
    BY <1>2, FS_EmptySet DEF FinitelyDefined
  <1>4. \A e : ~Indexed(e)
    BY IndexedIs DEF Init
  <1>5. RowsMatch /\ RowsAreIndexed /\ Pending
    BY <1>4 DEF Init, RowsMatch, RowsAreIndexed, Pending
  <1>6. QED
    BY <1>1, <1>3, <1>5 DEF IInv

\* write_doc replaces the rows of the document by those of what it contains now.
LEMMA WriteDocInv ==
  ASSUME IInv, NEW d \in Doc, NEW c \in Content \cup {Deleted}, WriteDoc(d, c)
  PROVE  IInv'
  <1>a. TypeOK /\ FinitelyDefined /\ RowsMatch /\ RowsAreIndexed
    BY DEF IInv
  <1> DEFINE new(row) == row.doc = d /\ c # Deleted /\ row.value \in c[row.field]
  <1>1. /\ content' = [content EXCEPT ![d] = c] /\ answer' = "ok"
        /\ unfinished' = unfinished \ {d} /\ resolving = {}
        /\ UNCHANGED <<index_definitions, deleting, resolving, crashes>>
    BY DEF WriteDoc, MayCommit
  <1>2. \A e : Indexed(e)' <=> Indexed(e)
    BY <1>1 DEF Indexed, Definitions
  <1>3. ASSUME NEW row \in Row
        PROVE  /\ document_fields'[row] \in Nat
               /\ document_fields'[row] > 0 <=>
                    \/ ~(row.doc = d /\ content[d] # Absent) /\ document_fields[row] > 0
                    \/ new(row) /\ Indexed(row.field)
    <2>1. document_fields'[row] =
            (IF row.doc = d /\ content[d] # Absent THEN 0 ELSE document_fields[row])
              + (IF new(row) THEN Cardinality(Definitions(row.field)) ELSE 0)
      BY DEF WriteDoc
    <2>2. document_fields[row] \in Nat
      BY <1>a DEF TypeOK
    <2>3. /\ Cardinality(Definitions(row.field)) \in Nat
          /\ Cardinality(Definitions(row.field)) > 0 <=> Indexed(row.field)
      BY <1>a, DefinitionsCount
    <2> HIDE DEF new
    <2>4. QED
      BY <2>1, <2>2, <2>3
  <1>4. TypeOK'
    <2>1. document_fields' \in [Row -> Nat]
      BY <1>3 DEF WriteDoc
    <2>2. QED
      BY <1>a, <1>1, <2>1 DEF TypeOK
  <1>5. FinitelyDefined'
    BY <1>a, <1>1 DEF FinitelyDefined, Defined
  <1>6. ASSUME NEW row \in Row
        PROVE  /\ document_fields'[row] > 0 => Has(row)'
               /\ Indexed(row.field)' /\ Has(row)' /\ row.doc \notin unfinished' =>
                    document_fields'[row] > 0
    <2>1. row.doc \in Doc
      BY DEF Row
    <2>2. CASE row.doc = d
      <3>1. Has(row)' <=> new(row)
        BY <1>a, <1>1, <2>2, NoContentAssumption DEF Has, Live, TypeOK
      <3>2. content[d] = Absent => ~(document_fields[row] > 0)
        BY <1>a, <2>2 DEF RowsMatch, Has, Live
      <3> HIDE DEF new
      <3>3. QED
        BY <1>2, <1>3, <2>2, <3>1, <3>2
    <2>3. CASE row.doc # d
      <3>1. Has(row)' <=> Has(row)
        BY <1>a, <1>1, <2>1, <2>3 DEF Has, Live, TypeOK
      <3>2. QED
        BY <1>a, <1>1, <1>2, <1>3, <2>3, <3>1 DEF RowsMatch
    <2>4. QED
      BY <2>2, <2>3
  <1>7. RowsAreIndexed'
    BY <1>a, <1>1, <1>2, <1>3 DEF RowsAreIndexed
  <1>8. Pending'
    BY <1>1 DEF Pending
  <1>9. QED
    BY <1>4, <1>5, <1>6, <1>7, <1>8 DEF IInv, RowsMatch

\* A resolution begins to write: the rows of the document go.
LEMMA ResolveDeletesFieldsInv ==
  ASSUME IInv, NEW p \in Process, NEW d \in Doc, NEW c \in Content \cup {Deleted},
         ResolveDeletesFields(p, d, c)
  PROVE  IInv'
  <1>a. TypeOK /\ FinitelyDefined /\ RowsMatch /\ RowsAreIndexed
    BY DEF IInv
  <1> DEFINE w == [doc |-> d, content |-> c, at |-> "row", left |-> {}]
  <1>1. /\ resolving' = {w} /\ unfinished' = unfinished \cup {d}
        /\ UNCHANGED <<content, index_definitions, deleting, answer, crashes>>
        /\ document_fields' = [row \in Row |-> IF row.doc = d THEN 0 ELSE document_fields[row]]
    BY DEF ResolveDeletesFields
  <1>2. w \in [doc : Doc, content : Content \cup {Deleted}, at : {"row", "fields"},
                left : SUBSET Statement]
    OBVIOUS
  <1>3. w.doc = d /\ w.at = "row"
    OBVIOUS
  <1> HIDE DEF w
  <1>4. TypeOK'
    <2>1. document_fields' \in [Row -> Nat]
      BY <1>a, <1>1 DEF TypeOK
    <2>2. QED
      BY <1>a, <1>1, <1>2, <2>1 DEF TypeOK
  <1>5. FinitelyDefined' /\ \A e : Indexed(e)' <=> Indexed(e)
    BY <1>a, <1>1 DEF FinitelyDefined, Defined, Indexed, Definitions
  <1>6. \A row \in Row : Has(row)' <=> Has(row)
    BY <1>1 DEF Has, Live
  <1>7. RowsMatch'
    BY <1>a, <1>1, <1>5, <1>6 DEF RowsMatch
  <1>8. RowsAreIndexed'
    BY <1>a, <1>1, <1>5 DEF RowsAreIndexed
  <1>9. Pending'
    BY <1>1, <1>3 DEF Pending
  <1>10. QED
    BY <1>4, <1>5, <1>7, <1>8, <1>9 DEF IInv

\* It writes the row: then every row of document_fields is yet to be inserted.
LEMMA ResolveWritesRowInv ==
  ASSUME IInv, NEW w \in resolving, ResolveWritesRow(w)
  PROVE  IInv'
  <1>a. TypeOK /\ FinitelyDefined /\ RowsMatch /\ RowsAreIndexed /\ Pending
    BY DEF IInv
  <1> DEFINE d == w.doc
             c == w.content
  <1>1. /\ content' = [content EXCEPT ![d] = c] /\ w.at = "row"
        /\ resolving' = {[w EXCEPT !.at = "fields", !.left = Extracted(c)]}
        /\ UNCHANGED <<index_definitions, document_fields, deleting, answer, crashes, unfinished>>
    BY DEF ResolveWritesRow
  <1>2. /\ w \in [doc : Doc, content : Content \cup {Deleted}, at : {"row", "fields"},
                   left : SUBSET Statement]
        /\ d \in Doc /\ c \in Content \cup {Deleted}
    BY <1>a DEF TypeOK
  <1>3. /\ d \in unfinished
        /\ \A row \in Row : row.doc = d => document_fields[row] = 0
    BY <1>a, <1>1 DEF Pending
  <1>4. Extracted(c) \in SUBSET Statement
    <2> SUFFICES ASSUME NEW x \in Extracted(c) PROVE x \in Statement
      OBVIOUS
    <2>1. PICK e \in Expr : x \in [definition : Definitions(e), field : {e}, value : c[e]]
      BY DEF Extracted
    <2>2. c # Deleted /\ c[e] \subseteq Value
      BY <1>2, ContentAssumption DEF Extracted
    <2>3. ASSUME NEW n \in Name
          PROVE  {offset \in DOMAIN index_definitions[n] : index_definitions[n][offset] = e}
                   \subseteq Nat \ {0}
      <3>1. index_definitions[n] \in Seq(Expr)
        BY <1>a, EmptySeq, DefinitionAssumption DEF TypeOK
      <3>2. QED
        BY <3>1
    <2>4. Definitions(e) \subseteq Name \X (Nat \ {0})
      BY <2>3 DEF Definitions
    <2>5. QED
      BY <2>1, <2>2, <2>4 DEF Statement
  <1>5. PICK new \in [doc : Doc, content : Content \cup {Deleted}, at : {"row", "fields"},
                     left : SUBSET Statement] :
          /\ resolving' = {new}
          /\ new.doc = d /\ new.content = c /\ new.at = "fields" /\ new.left = Extracted(c)
    <2> DEFINE next == [w EXCEPT !.at = "fields", !.left = Extracted(c)]
    <2>1. /\ next \in [doc : Doc, content : Content \cup {Deleted}, at : {"row", "fields"},
                       left : SUBSET Statement]
          /\ next.doc = d /\ next.content = c /\ next.at = "fields" /\ next.left = Extracted(c)
      BY <1>2, <1>4
    <2>2. resolving' = {next}
      BY <1>1
    <2> HIDE DEF next
    <2>3. QED
      BY <2>1, <2>2
  <1>6. TypeOK'
    BY <1>a, <1>1, <1>2, <1>5 DEF TypeOK
  <1>7. /\ FinitelyDefined'
        /\ \A e : (Indexed(e)' <=> Indexed(e)) /\ Definitions(e)' = Definitions(e)
    BY <1>a, <1>1 DEF FinitelyDefined, Defined, Indexed, Definitions
  <1>8. content'[d] = c /\ \A x \in Doc : x # d => content'[x] = content[x]
    BY <1>a, <1>1, <1>2 DEF TypeOK
  <1>9. RowsMatch'
    <2> SUFFICES ASSUME NEW row \in Row
                 PROVE  /\ document_fields[row] > 0 => Has(row)'
                        /\ Indexed(row.field)' /\ Has(row)' /\ row.doc \notin unfinished =>
                             document_fields[row] > 0
      BY <1>1 DEF RowsMatch
    <2>1. row.doc \in Doc
      BY DEF Row
    <2>2. CASE row.doc = d
      BY <1>3, <2>2
    <2>3. CASE row.doc # d
      <3>1. Has(row)' <=> Has(row)
        BY <1>8, <2>1, <2>3 DEF Has, Live
      <3>2. QED
        BY <1>a, <1>7, <3>1 DEF RowsMatch
    <2>4. QED
      BY <2>2, <2>3
  <1>10. RowsAreIndexed'
    BY <1>a, <1>1, <1>7 DEF RowsAreIndexed
  <1>11. Inserting(new)'
    <2>1. Live(d)' <=> c # Deleted
      BY <1>2, <1>8, NoContentAssumption DEF Live
    <2>2. ASSUME NEW x \in Extracted(c)
          PROVE  Live(d)' /\ Indexed(x.field) /\ x.value \in c[x.field]
      <3>1. c # Deleted
        BY DEF Extracted
      <3>2. PICK e \in Expr : x \in [definition : Definitions(e), field : {e}, value : c[e]]
        BY <3>1 DEF Extracted
      <3>3. QED
        BY <2>1, <3>1, <3>2 DEF Indexed
    <2>3. ASSUME NEW row \in Row, row.doc = d, Has(row)', Indexed(row.field)
          PROVE  \E x \in Extracted(c) : x.field = row.field /\ x.value = row.value
      <3>1. row.field \in Expr /\ c # Deleted /\ row.value \in c[row.field]
        BY <1>8, <2>1, <2>3 DEF Has, Row
      <3>2. PICK x : x \in Definitions(row.field)
        BY <2>3 DEF Indexed
      <3> DEFINE y == [definition |-> x, field |-> row.field, value |-> row.value]
      <3>3. y \in Extracted(c)
        BY <3>1, <3>2 DEF Extracted
      <3>4. y.field = row.field /\ y.value = row.value
        OBVIOUS
      <3>5. QED
        BY <3>3, <3>4
    <2>4. QED
      BY <1>5, <1>7, <1>8, <2>2, <2>3 DEF Inserting
  <1>12. Pending'
    BY <1>1, <1>3, <1>5, <1>11 DEF Pending
  <1>13. QED
    BY <1>6, <1>7, <1>9, <1>10, <1>12 DEF IInv

\* It inserts one of them.
LEMMA ResolveInsertsFieldInv ==
  ASSUME IInv, NEW w \in resolving, ResolveInsertsField(w)
  PROVE  IInv'
  <1>a. TypeOK /\ FinitelyDefined /\ RowsMatch /\ RowsAreIndexed /\ Pending
    BY DEF IInv
  <1>1. PICK x \in w.left :
          /\ document_fields' =
               [document_fields EXCEPT ![[doc |-> w.doc, field |-> x.field, value |-> x.value]] = @ + 1]
          /\ resolving' = {[w EXCEPT !.left = @ \ {x}]}
          /\ UNCHANGED <<content, index_definitions, deleting, answer, crashes, unfinished>>
    BY DEF ResolveInsertsField
  <1> DEFINE in == [doc |-> w.doc, field |-> x.field, value |-> x.value]
  <1>2. /\ w \in [doc : Doc, content : Content \cup {Deleted}, at : {"row", "fields"},
                   left : SUBSET Statement]
        /\ w.at = "fields"
    BY <1>a DEF TypeOK, ResolveInsertsField
  <1>3. w.doc \in unfinished /\ Inserting(w)
    BY <1>a, <1>2 DEF Pending
  <1>4. x \in Statement /\ x.field \in Expr /\ x.value \in Value
    BY <1>2 DEF Statement
  <1>5. /\ in \in Row /\ in.doc = w.doc /\ in.field = x.field /\ in.value = x.value
    BY <1>2, <1>4 DEF Row
  <1>6. PICK new \in [doc : Doc, content : Content \cup {Deleted}, at : {"row", "fields"},
                     left : SUBSET Statement] :
          /\ resolving' = {new}
          /\ new.doc = w.doc /\ new.content = w.content /\ new.at = "fields"
          /\ new.left = w.left \ {x}
    <2> DEFINE next == [w EXCEPT !.left = @ \ {x}]
    <2>1. /\ next \in [doc : Doc, content : Content \cup {Deleted}, at : {"row", "fields"},
                       left : SUBSET Statement]
          /\ next.doc = w.doc /\ next.content = w.content /\ next.at = "fields"
          /\ next.left = w.left \ {x}
      BY <1>2
    <2>2. resolving' = {next}
      BY <1>1
    <2> HIDE DEF next
    <2>3. QED
      BY <2>1, <2>2
  <1> HIDE DEF in
  <1>7. document_fields' = [document_fields EXCEPT ![in] = @ + 1]
    BY <1>1 DEF in
  <1>8. ASSUME NEW row \in Row
        PROVE  /\ document_fields[row] \in Nat
               /\ document_fields'[row] = IF row = in THEN document_fields[row] + 1 ELSE document_fields[row]
    BY <1>a, <1>7 DEF TypeOK
  <1>9. TypeOK'
    <2>1. document_fields \in [Row -> Nat]
      BY <1>a DEF TypeOK
    <2>2. document_fields' \in [Row -> Nat]
      <3>1. document_fields[in] + 1 \in Nat
        BY <1>5, <2>1
      <3>2. QED
        BY <1>7, <2>1, <3>1
    <2>3. QED
      BY <1>a, <1>1, <1>6, <1>7, <2>2 DEF TypeOK
  <1>10. /\ FinitelyDefined' /\ \A e : Indexed(e)' <=> Indexed(e)
         /\ \A row : Has(row)' <=> Has(row)
         /\ \A d : Live(d)' <=> Live(d)
    BY <1>a, <1>1 DEF FinitelyDefined, Defined, Indexed, Definitions, Has, Live
  <1>11. Has(in) /\ Indexed(in.field)
    BY <1>3, <1>5 DEF Inserting, Has
  <1>12. RowsMatch'
    BY <1>a, <1>1, <1>8, <1>10, <1>11 DEF RowsMatch
  <1>13. RowsAreIndexed'
    BY <1>a, <1>1, <1>8, <1>10, <1>11 DEF RowsAreIndexed
  <1>14. Inserting(new)'
    <2>1. /\ content'[new.doc] = new.content
          /\ \A y \in new.left : /\ Live(new.doc)' /\ Indexed(y.field)'
                                /\ y.value \in new.content[y.field]
      BY <1>1, <1>3, <1>6, <1>10 DEF Inserting
    <2>2. ASSUME NEW row \in Row, row.doc = w.doc, Has(row), Indexed(row.field)
          PROVE  \/ document_fields'[row] > 0
                 \/ \E y \in new.left : y.field = row.field /\ y.value = row.value
      <3>1. CASE row.field = x.field /\ row.value = x.value
        <4>1. row = in
          BY <2>2, <3>1 DEF Row, in
        <4>2. QED
          BY <1>8, <4>1
      <3>2. CASE ~(row.field = x.field /\ row.value = x.value)
        <4>1. \/ document_fields[row] > 0
              \/ \E y \in w.left : y.field = row.field /\ y.value = row.value
          BY <1>3, <2>2 DEF Inserting
        <4>2. QED
          BY <1>6, <1>8, <3>2, <4>1
      <3>3. QED
        BY <3>1, <3>2
    <2>3. QED
      BY <1>6, <1>10, <2>1, <2>2 DEF Inserting
  <1>15. Pending'
    BY <1>1, <1>3, <1>6, <1>7, <1>14 DEF Pending
  <1>16. QED
    BY <1>9, <1>10, <1>12, <1>13, <1>15 DEF IInv

\* It ends when there is nothing left to insert, or stops where it is.
LEMMA ResolveReturnsInv ==
  ASSUME IInv, NEW w \in resolving, ResolveEnds(w) \/ ResolveStops(w)
  PROVE  IInv'
  <1>a. TypeOK /\ FinitelyDefined /\ RowsMatch /\ RowsAreIndexed /\ Pending
    BY DEF IInv
  <1>1. /\ resolving' = {} /\ answer' \in {"ok", "failed", "duplicate"}
        /\ unfinished' \subseteq unfinished
        /\ UNCHANGED <<content, index_definitions, document_fields, deleting, crashes>>
    BY DEF ResolveEnds, ResolveStops
  <1>2. /\ FinitelyDefined' /\ \A e : Indexed(e)' <=> Indexed(e)
        /\ \A row : Has(row)' <=> Has(row)
    BY <1>a, <1>1 DEF FinitelyDefined, Defined, Indexed, Definitions, Has, Live
  <1>3. TypeOK'
    BY <1>a, <1>1 DEF TypeOK
  <1>4. RowsMatch'
    <2>1. CASE ResolveEnds(w)
      <3>1. Inserting(w) /\ w.left = {} /\ unfinished' = unfinished \ {w.doc}
        BY <1>a, <2>1 DEF Pending, ResolveEnds
      <3>2. \A row \in Row : row.doc = w.doc /\ Has(row) /\ Indexed(row.field) =>
              document_fields[row] > 0
        BY <3>1 DEF Inserting
      <3>3. QED
        BY <1>a, <1>1, <1>2, <3>1, <3>2 DEF RowsMatch
    <2>2. CASE ResolveStops(w)
      BY <1>a, <1>1, <1>2, <2>2 DEF RowsMatch, ResolveStops
    <2>3. QED
      BY <2>1, <2>2
  <1>5. RowsAreIndexed' /\ Pending'
    BY <1>a, <1>1, <1>2 DEF RowsAreIndexed, Pending
  <1>6. QED
    BY <1>2, <1>3, <1>4, <1>5 DEF IInv

\* A new index makes rows of the expressions that no index had.
LEMMA CreateIndexInv ==
  ASSUME IInv, NEW n \in Name, NEW list \in Definition, CreateIndex(n, list)
  PROVE  IInv'
  <1>a. TypeOK /\ FinitelyDefined /\ RowsMatch /\ RowsAreIndexed
    BY DEF IInv
  <1>b. list \in Seq(Expr)
    BY DefinitionAssumption
  <1>1. /\ index_definitions[n] = <<>> /\ answer' = "ok"
        /\ index_definitions' = [index_definitions EXCEPT ![n] = list]
        /\ resolving = {}
        /\ UNCHANGED <<content, deleting, resolving, crashes, unfinished>>
    BY DEF CreateIndex, MayCommit
  <1>2. \A m \in Name : index_definitions'[m] = IF m = n THEN list ELSE index_definitions[m]
    BY <1>a, <1>1 DEF TypeOK
  <1>3. \A e : Indexed(e)' <=> Indexed(e) \/ \E offset \in DOMAIN list : list[offset] = e
    <2>1. \A e : Indexed(e)' <=>
            \E m \in Name : \E offset \in DOMAIN index_definitions'[m] : index_definitions'[m][offset] = e
      BY IndexedIsNext DEF ByDefinition
    <2>2. QED
      BY <1>1, <1>2, <2>1, IndexedIs
  <1>4. ASSUME NEW row \in Row
        PROVE  /\ document_fields'[row] \in Nat
               /\ document_fields'[row] > 0 <=>
                    \/ document_fields[row] > 0
                    \/ /\ Has(row) /\ ~Indexed(row.field)
                       /\ \E offset \in DOMAIN list : list[offset] = row.field
    <2>1. document_fields'[row] =
            document_fields[row] + (IF Has(row) THEN IndexedIn(list, row.field) ELSE 0)
      BY DEF CreateIndex, Has
    <2>2. document_fields[row] \in Nat
      BY <1>a DEF TypeOK
    <2>3. /\ IndexedIn(list, row.field) \in Nat
          /\ IndexedIn(list, row.field) > 0 <=>
               ~Indexed(row.field) /\ \E offset \in DOMAIN list : list[offset] = row.field
      BY <1>b, OccurrencesCount DEF IndexedIn, NewTo
    <2>4. QED
      BY <2>1, <2>2, <2>3
  <1>5. TypeOK'
    <2>1. document_fields' \in [Row -> Nat]
      BY <1>4 DEF CreateIndex
    <2>2. QED
      BY <1>a, <1>1, <2>1 DEF TypeOK
  <1>6. FinitelyDefined'
    <2>1. Defined' \subseteq Defined \cup ({n} \X DOMAIN list)
      BY <1>2 DEF Defined
    <2>2. IsFiniteSet({n} \X DOMAIN list)
      <3>1. IsFiniteSet(DOMAIN list)
        BY <1>b, FS_Interval
      <3>2. IsFiniteSet({n})
        BY FS_Singleton
      <3>3. QED
        BY <3>1, <3>2, FS_Product
    <2>3. IsFiniteSet(Defined \cup ({n} \X DOMAIN list))
      BY <1>a, <2>2, FS_Union DEF FinitelyDefined
    <2>4. QED
      BY <2>1, <2>3, FS_Subset DEF FinitelyDefined
  <1>7. \A row \in Row : Has(row)' <=> Has(row)
    BY <1>1 DEF Has, Live
  <1>8. RowsMatch'
    BY <1>a, <1>1, <1>3, <1>4, <1>7 DEF RowsMatch
  <1>9. RowsAreIndexed'
    BY <1>a, <1>1, <1>3, <1>4 DEF RowsAreIndexed
  <1>10. Pending'
    BY <1>1 DEF Pending
  <1>11. QED
    BY <1>5, <1>6, <1>8, <1>9, <1>10 DEF IInv

\* u1db_delete_index takes away the definitions.
LEMMA DeleteDefinitionsInv ==
  ASSUME IInv, NEW p \in Process, NEW n \in Name, DeleteDefinitions(p, n)
  PROVE  IInv'
  <1>a. TypeOK /\ FinitelyDefined /\ RowsMatch
    BY DEF IInv
  <1>1. /\ index_definitions' = [index_definitions EXCEPT ![n] = <<>>]
        /\ deleting' = deleting \cup {p}
        /\ resolving = {}
        /\ UNCHANGED <<content, document_fields, resolving, answer, crashes, unfinished>>
    BY DEF DeleteDefinitions, MayCommit
  <1>2. \A m \in Name : index_definitions'[m] = IF m = n THEN <<>> ELSE index_definitions[m]
    BY <1>a, <1>1 DEF TypeOK
  <1>3. Defined' \subseteq Defined /\ \A e : Definitions(e)' \subseteq Definitions(e)
    BY <1>2 DEF Defined, Definitions
  <1>4. TypeOK'
    BY <1>a, <1>1 DEF TypeOK
  <1>5. FinitelyDefined'
    BY <1>a, <1>3, FS_Subset DEF FinitelyDefined
  <1>6. RowsMatch'
    BY <1>a, <1>1, <1>3 DEF RowsMatch, Has, Live, Indexed
  <1>7. RowsAreIndexed' /\ Pending'
    BY <1>1 DEF RowsAreIndexed, Pending
  <1>8. QED
    BY <1>4, <1>5, <1>6, <1>7 DEF IInv

\* Then go the rows of what no index has.
LEMMA DeleteFieldsInv ==
  ASSUME IInv, NEW p \in Process, DeleteFields(p)
  PROVE  IInv'
  <1>a. TypeOK /\ FinitelyDefined /\ RowsMatch
    BY DEF IInv
  <1>1. /\ deleting' = deleting \ {p} /\ answer' = "ok" /\ resolving = {}
        /\ UNCHANGED <<content, index_definitions, resolving, crashes, unfinished>>
        /\ \A row \in Row :
             document_fields'[row] = IF Indexed(row.field) THEN document_fields[row] ELSE 0
    BY DEF DeleteFields, MayCommit
  <1>2. /\ FinitelyDefined' /\ \A e : Indexed(e)' <=> Indexed(e)
        /\ \A row \in Row : Has(row)' <=> Has(row)
    BY <1>a, <1>1 DEF FinitelyDefined, Defined, Indexed, Definitions, Has, Live
  <1>3. TypeOK'
    <2>1. document_fields' \in [Row -> Nat]
      BY <1>a DEF DeleteFields, TypeOK
    <2>2. QED
      BY <1>a, <1>1, <2>1 DEF TypeOK
  <1>4. RowsMatch' /\ RowsAreIndexed' /\ Pending'
    BY <1>a, <1>1, <1>2 DEF RowsMatch, RowsAreIndexed, Pending
  <1>5. QED
    BY <1>2, <1>3, <1>4 DEF IInv

\* The invariant outlasts every step.
LEMMA NextInv == IInv /\ [Next]_vars => IInv'
  <1> SUFFICES ASSUME IInv, [Next]_vars PROVE IInv'
    OBVIOUS
  <1>1. ASSUME UNCHANGED <<content, index_definitions, document_fields, resolving, unfinished>>,
               answer' \in {"ok", "failed", "duplicate"},
               \/ UNCHANGED <<deleting, crashes>>
               \/ deleting' \subseteq deleting /\ crashes' = crashes + 1
        PROVE  IInv'
    <2>1. TypeOK /\ FinitelyDefined /\ RowsMatch /\ RowsAreIndexed /\ Pending
      BY DEF IInv
    <2>2. TypeOK'
      BY <1>1, <2>1 DEF TypeOK
    <2>3. FinitelyDefined' /\ RowsMatch'
      BY <1>1, <2>1 DEF FinitelyDefined, Defined, RowsMatch, Has, Live, Indexed, Definitions
    <2>4. crashes \in Nat
      BY <2>1 DEF TypeOK
    <2>5. RowsAreIndexed'
      BY <1>1, <2>1, <2>4 DEF RowsAreIndexed, Indexed, Definitions
    <2>6. Pending'
      BY <1>1, <2>1 DEF Pending, Inserting, Has, Live, Indexed, Definitions
    <2>7. QED
      BY <2>2, <2>3, <2>5, <2>6 DEF IInv
  <1>2. ASSUME NEW d \in Doc, NEW c \in Content \cup {Deleted},
               WriteDoc(d, c) \/ \E p \in Process : ResolveDeletesFields(p, d, c)
        PROVE  IInv'
    BY <1>2, WriteDocInv, ResolveDeletesFieldsInv
  <1>a. CASE WriteDocFails
    BY <1>1, <1>a DEF WriteDocFails
  <1>b. ASSUME NEW w \in resolving,
               ResolveWritesRow(w) \/ ResolveInsertsField(w) \/ ResolveEnds(w) \/ ResolveStops(w)
        PROVE  IInv'
    BY <1>b, ResolveWritesRowInv, ResolveInsertsFieldInv, ResolveReturnsInv
  <1>3. ASSUME NEW n \in Name, NEW list \in Definition,
               CreateIndex(n, list) \/ CreateIndexFails(n, list) \/ CreateIndexAgain(n, list)
        PROVE  IInv'
    <2>1. CASE CreateIndexAgain(n, list)
      <3>1. answer' \in {"ok", "failed", "duplicate"}
        BY <2>1 DEF CreateIndexAgain, CreateAnswers
      <3>2. QED
        BY <1>1, <2>1, <3>1 DEF CreateIndexAgain
    <2>2. QED
      BY <1>1, <1>3, <2>1, CreateIndexInv DEF CreateIndexFails
  <1>4. ASSUME NEW p \in Process,
               (\E n \in Name : DeleteDefinitions(p, n)) \/ DeleteFields(p) \/ Crash(p)
        PROVE  IInv'
    <2>1. CASE Crash(p)
      BY <1>1, <2>1 DEF Crash, IInv, TypeOK
    <2>2. QED
      BY <1>4, <2>1, DeleteDefinitionsInv, DeleteFieldsInv
  <1>5. CASE UNCHANGED vars
    BY <1>1, <1>5 DEF vars, IInv, TypeOK
  <1>6. QED
    BY <1>2, <1>a, <1>b, <1>3, <1>4, <1>5 DEF Next

\* The invariant holds of every state.
LEMMA Inductive == Spec => []IInv
  BY InitInv, NextInv, PTL DEF Spec

\* Rows, definitions and contents are what their declarations say.
THEOREM TypeCorrect == Spec => []TypeOK
  <1>1. IInv => TypeOK
    BY DEF IInv
  <1>2. QED
    BY Inductive, <1>1, PTL

\* Every row is of an expression that some index has (u1db_create_index_list,
\* write_doc, u1db_delete_index), but between the two statements of
\* u1db_delete_index.
THEOREM RowsAlwaysIndexed == Spec => []RowsAreIndexed
  <1>1. IInv => RowsAreIndexed
    BY DEF IInv
  <1>2. QED
    BY Inductive, <1>1, PTL

-----------------------------------------------------------------------------
(***************************************************************************)
(* Texts, letter by letter.                                                *)
(***************************************************************************)
Shorter(v, w) == IF Len(v) < Len(w) THEN Len(v) ELSE Len(w)
SameUpTo(v, w, n) == \A m \in 1..n : v[m] = w[m]

\* The first n letters of two texts are the same text if each is the same.
LEMMA SameFirst ==
  ASSUME NEW v \in Seq(Nat), NEW w \in Seq(Nat), NEW n \in Nat, n <= Len(v), n <= Len(w)
  PROVE  SubSeq(v, 1, n) = SubSeq(w, 1, n) <=> SameUpTo(v, w, n)
  <1>1. /\ SubSeq(v, 1, n) \in Seq(Nat) /\ SubSeq(w, 1, n) \in Seq(Nat)
        /\ Len(SubSeq(v, 1, n)) = n /\ Len(SubSeq(w, 1, n)) = n
        /\ \A m \in 1..n : SubSeq(v, 1, n)[m] = v[m] /\ SubSeq(w, 1, n)[m] = w[m]
    OBVIOUS
  <1>2. ASSUME SameUpTo(v, w, n)
        PROVE  SubSeq(v, 1, n) = SubSeq(w, 1, n)
    BY <1>1, <1>2, SeqEqual DEF SameUpTo
  <1>3. ASSUME SubSeq(v, 1, n) = SubSeq(w, 1, n)
        PROVE  SameUpTo(v, w, n)
    BY <1>1, <1>3 DEF SameUpTo
  <1>4. QED
    BY <1>2, <1>3

\* A text begins with another if it has its letters.
LEMMA PrefixIs ==
  ASSUME NEW v \in Seq(Nat), NEW w \in Seq(Nat)
  PROVE  IsPrefix(v, w) <=> Len(v) <= Len(w) /\ SameUpTo(v, w, Len(v))
  <1>1. Len(v) \in Nat /\ Len(w) \in Nat
    OBVIOUS
  <1>2. QED
    BY <1>1, SameFirst DEF IsPrefix

\* A text comes before another where they first differ.
LEMMA AtMostIs ==
  ASSUME NEW v \in Seq(Nat), NEW w \in Seq(Nat)
  PROVE  AtMost(v, w) <=>
           \/ IsPrefix(v, w)
           \/ \E n \in 1..Shorter(v, w) : v[n] < w[n] /\ SameUpTo(v, w, n - 1)
  <1>1. DOMAIN v \cap DOMAIN w = 1..Shorter(v, w)
    BY DEF Shorter
  <1>2. \A n \in 1..Shorter(v, w) :
          SubSeq(v, 1, n - 1) = SubSeq(w, 1, n - 1) <=> SameUpTo(v, w, n - 1)
    <2> TAKE n \in 1..Shorter(v, w)
    <2>1. n - 1 \in Nat /\ n - 1 <= Len(v) /\ n - 1 <= Len(w)
      BY DEF Shorter
    <2>2. QED
      BY <2>1, SameFirst
  <1>3. QED
    BY <1>1, <1>2 DEF AtMost

\* What First is, letter by letter.
LEMMA FirstIs ==
  ASSUME NEW v \in Seq(Nat), NEW w \in Seq(Nat)
  PROVE  /\ First(v, w) \in Seq(Nat)
         /\ Len(First(v, w)) = Shorter(v, w)
         /\ SameUpTo(First(v, w), v, Shorter(v, w))
  <1>1. Shorter(v, w) \in Nat /\ Shorter(v, w) <= Len(v)
    BY DEF Shorter
  <1>2. First(v, w) = SubSeq(v, 1, Shorter(v, w))
    BY DEF First, Shorter
  <1>3. QED
    BY <1>1, <1>2 DEF SameUpTo

\* To begin with a text is to have its letters first.
LEMMA BeginsWith ==
  ASSUME NEW v \in Seq(Nat), NEW w \in Seq(Nat)
  PROVE  IsPrefix(w, v) <=> First(v, w) = w
  <1>1. /\ First(v, w) \in Seq(Nat) /\ Len(First(v, w)) = Shorter(v, w)
        /\ SameUpTo(First(v, w), v, Shorter(v, w))
    BY FirstIs
  <1>2. ASSUME First(v, w) = w
        PROVE  IsPrefix(w, v)
    BY <1>1, <1>2, PrefixIs DEF Shorter, SameUpTo
  <1>3. ASSUME IsPrefix(w, v)
        PROVE  First(v, w) = w
    <2>1. Shorter(v, w) = Len(w) /\ SameUpTo(w, v, Len(w))
      BY <1>3, PrefixIs DEF Shorter
    <2>2. QED
      BY <1>1, <2>1, SeqEqual DEF SameUpTo
  <1>4. QED
    BY <1>2, <1>3

\* A value is at most the end of a range, or begins with it, if its first
\* letters are at most it.
LEMMA FirstAtMost ==
  ASSUME NEW v \in Seq(Nat), NEW w \in Seq(Nat)
  PROVE  AtMost(First(v, w), w) <=> AtMost(v, w) \/ IsPrefix(w, v)
  <1> DEFINE f == First(v, w)
             k == Shorter(v, w)
             Before(u) == \E n \in 1..k : u[n] < w[n] /\ SameUpTo(u, w, n - 1)
  <1>1. f \in Seq(Nat) /\ Len(f) = k /\ SameUpTo(f, v, k)
    BY FirstIs
  <1>2. k \in Nat /\ k <= Len(v) /\ k <= Len(w) /\ (k = Len(v) \/ k = Len(w))
    BY DEF Shorter
  <1>3. Shorter(f, w) = k
    BY <1>1, <1>2 DEF Shorter
  <1> HIDE DEF f, k
  <1>4. Before(f) <=> Before(v)
    <2>1. \A n \in 1..k : f[n] = v[n]
      BY <1>1 DEF SameUpTo
    <2>2. \A n \in 1..k : SameUpTo(f, w, n - 1) <=> SameUpTo(v, w, n - 1)
      BY <1>2, <2>1 DEF SameUpTo
    <2>3. QED
      BY <2>1, <2>2
  <1>5. IsPrefix(f, w) <=> SameUpTo(v, w, k)
    BY <1>1, <1>2, PrefixIs DEF SameUpTo
  <1>6. IsPrefix(v, w) \/ IsPrefix(w, v) <=> SameUpTo(v, w, k)
    <2>1. SameUpTo(v, w, k) <=> SameUpTo(w, v, k)
      BY DEF SameUpTo
    <2>2. Len(v) <= Len(w) => k = Len(v)
      BY DEF k, Shorter
    <2>3. Len(w) <= Len(v) => k = Len(w)
      BY DEF k, Shorter
    <2>4. QED
      BY <1>2, <2>1, <2>2, <2>3, PrefixIs
  <1>7. AtMost(f, w) <=> IsPrefix(f, w) \/ Before(f)
    BY <1>1, <1>3, AtMostIs
  <1>8. AtMost(v, w) <=> IsPrefix(v, w) \/ Before(v)
    BY AtMostIs DEF k
  <1>9. QED
    BY <1>4, <1>5, <1>6, <1>7, <1>8 DEF f
-----------------------------------------------------------------------------
(***************************************************************************)
(* What the conditions of the columns say.                                 *)
(***************************************************************************)

\* GLOB finds the values that begin with a plain text.
LEMMA GlobbedIs ==
  ASSUME NEW arg \in Argument, Plain(arg.text)
  PROVE  Globbed[arg.text] = {v \in Value : IsPrefix(arg.text, v)}
  BY GlobbedAssumption

\* An exact query and a range have the conditions that were asked for.
LEMMA ConditionsAsAsked ==
  ASSUME NEW n \in {Len(fields) : fields \in Definition}, NEW q \in Queries[n]
  PROVE  q.wanted = q.asked /\ DOMAIN q.wanted = 1..n
  <1>1. ASSUME NEW arg \in Argument, arg.glob = "ends" => Plain(arg.text)
        PROVE  /\ Equal(arg) = {v \in Value : Asked(arg, v)}
               /\ From(arg) = {v \in Value : AskedFrom(arg, v)}
               /\ To(arg) = {v \in Value : AskedTo(arg, v)}
    <2>1. arg.glob \in {"no", "ends", "is"} /\ arg.text \in Seq(Nat)
      BY ArgumentAssumption DEF Glob
    <2>2. \A v \in Value : /\ v \in Seq(Nat)
                           /\ IsPrefix(arg.text, v) <=> First(v, arg.text) = arg.text
                           /\ AtMost(First(v, arg.text), arg.text) <=>
                                AtMost(v, arg.text) \/ IsPrefix(arg.text, v)
      BY <2>1, ContentAssumption, BeginsWith, FirstAtMost
    <2>3. IsPrefix(arg.text, arg.text)
      BY <2>1, PrefixIs DEF SameUpTo
    <2>4. arg.glob = "ends" => \A v \in Value :
            v \in Globbed[arg.text] <=> First(v, arg.text) = arg.text
      BY <1>1, <2>2, GlobbedIs
    <2>5. arg.glob = "ends" => \A v \in Value :
            (AtMost(v, arg.text) /\ v # arg.text) \/ v \in Globbed[arg.text] <=>
              AtMost(First(v, arg.text), arg.text)
      BY <1>1, <2>2, <2>3, GlobbedIs
    <2>6. Equal(arg) = {v \in Value : Asked(arg, v)}
      BY <2>1, <2>4 DEF Equal, Asked
    <2>7. From(arg) = {v \in Value : AskedFrom(arg, v)}
      BY DEF From, AskedFrom
    <2>8. To(arg) = {v \in Value : AskedTo(arg, v)}
      BY <2>1, <2>5 DEF To, AskedTo
    <2>9. QED
      BY <2>6, <2>7, <2>8
  <1> DEFINE plain == {list \in Arguments(n) : Plainly(list)}
  <1>2. ASSUME NEW list \in plain
        PROVE  /\ DOMAIN list = 1..n
               /\ \A m \in 1..n : list[m] \in Argument /\ (list[m].glob = "ends" => Plain(list[m].text))
    BY DEF Arguments, Plainly
  <1>3. q \in {[wanted |-> Exactly(list), asked |-> AskedExactly(list)] : list \in plain} \cup
              {[wanted |-> Within(list, end), asked |-> AskedWithin(list, end)] : list, end \in plain}
    BY DEF Queries
  <1> HIDE DEF plain
  <1>4. ASSUME NEW list \in plain
        PROVE  Exactly(list) = AskedExactly(list) /\ DOMAIN Exactly(list) = 1..n
    BY <1>1, <1>2 DEF Exactly, AskedExactly
  <1>5. ASSUME NEW list \in plain, NEW end \in plain
        PROVE  Within(list, end) = AskedWithin(list, end) /\ DOMAIN Within(list, end) = 1..n
    BY <1>1, <1>2 DEF Within, AskedWithin
  <1>6. QED
    BY <1>3, <1>4, <1>5
-----------------------------------------------------------------------------
(***************************************************************************)
(* Queries.                                                                *)
(***************************************************************************)
Complete(fields) == {x \in Held(fields) : x[1] \notin unfinished}

\* What the join makes of the documents are keys that they have, and all of them
\* if every field is of an index and no write of the document is unfinished.
LEMMA JoinedIsHeld ==
  ASSUME RowsMatch, NEW fields \in Definition
  PROVE  /\ Joined(fields) \subseteq Held(fields)
         /\ (\A n \in DOMAIN fields : Indexed(fields[n])) => Complete(fields) \subseteq Joined(fields)
         /\ \A x \in Held(fields) : x[1] \in Doc /\ Live(x[1])
  <1>1. fields \in Seq(Expr) /\ DOMAIN fields # {}
    <2>1. fields \in Seq(Expr) /\ fields # <<>>
      BY DefinitionAssumption
    <2>2. Len(fields) \in Nat /\ Len(fields) # 0
      BY <2>1, EmptySeq
    <2>3. 1 \in DOMAIN fields
      BY <2>1, <2>2
    <2>4. QED
      BY <2>1, <2>3
  <1> DEFINE row(x, n) == [doc |-> x[1], field |-> fields[n], value |-> x[2][n]]
             Has1(x, n) == Live(x[1]) /\ x[2][n] \in content[x[1]][fields[n]]
             pairs == Doc \X [DOMAIN fields -> Value]
  <1>2. ASSUME NEW x \in pairs, NEW n \in DOMAIN fields
        PROVE  /\ document_fields[row(x, n)] > 0 => Has1(x, n)
               /\ Indexed(fields[n]) /\ Has1(x, n) /\ x[1] \notin unfinished =>
                    document_fields[row(x, n)] > 0
    <2>1. x[1] \in Doc /\ x[2][n] \in Value /\ fields[n] \in Expr
      BY <1>1
    <2>2. row(x, n) \in Row
      BY <2>1 DEF Row
    <2>3. row(x, n).doc = x[1] /\ row(x, n).field = fields[n] /\ row(x, n).value = x[2][n]
      OBVIOUS
    <2>4. QED
      BY <2>2, <2>3 DEF RowsMatch, Has
  <1>3. \A x \in pairs : x[1] \in Doc
    OBVIOUS
  <1> HIDE DEF row
  <1>4. Joined(fields) = {x \in pairs : \A n \in DOMAIN fields : document_fields[row(x, n)] > 0}
    BY DEF Joined, row
  <1>5. Held(fields) = {x \in pairs : \A n \in DOMAIN fields : Has1(x, n)}
    BY <1>1 DEF Held
  <1> HIDE DEF pairs, Has1
  <1>6. Joined(fields) \subseteq Held(fields)
    BY <1>2, <1>4, <1>5
  <1>7. (\A n \in DOMAIN fields : Indexed(fields[n])) => Complete(fields) \subseteq Joined(fields)
    BY <1>2, <1>4, <1>5 DEF Complete
  <1>8. \A x \in Held(fields) : x[1] \in Doc /\ Live(x[1])
    BY <1>3, <1>5, <1>1 DEF Has1
  <1>9. QED
    BY <1>6, <1>7, <1>8

\* A query finds the documents that match it, and all of them if every field
\* is of an index still, however writes, u1db_create_index_list,
\* u1db_delete_index and dying processes have followed one another; but for a
\* document whose resolution has not come to its end.
THEOREM QueriesAlwaysFindMatching == Spec => []QueriesFindMatching
  <1>1. IInv => QueriesFindMatching
    <2> SUFFICES ASSUME RowsMatch, NEW fields \in Definition
                 PROVE  /\ Finds(fields, GetIndexKeys(Joined(fields)), GetIndexKeys(Held(fields)),
                                 GetIndexKeys(Complete(fields)))
                        /\ \A q \in Queries[Len(fields)] :
                             Finds(fields, GetFromIndex(Joined(fields), q.wanted),
                                   Matching(Held(fields), q.asked), Matching(Complete(fields), q.asked))
      BY DEF IInv, QueriesFindMatching, Prepared, Complete
    <2>1. /\ Joined(fields) \subseteq Held(fields)
          /\ (\A n \in DOMAIN fields : Indexed(fields[n])) => Complete(fields) \subseteq Joined(fields)
          /\ Complete(fields) \subseteq Held(fields)
          /\ \A x \in Held(fields) : x[1] \in Doc /\ content[x[1]] # Absent
      BY JoinedIsHeld DEF Complete, Live
    <2>2. Finds(fields, GetIndexKeys(Joined(fields)), GetIndexKeys(Held(fields)),
                GetIndexKeys(Complete(fields)))
      BY <2>1 DEF Finds, GetIndexKeys
    <2>3. ASSUME NEW q \in Queries[Len(fields)]
          PROVE  Finds(fields, GetFromIndex(Joined(fields), q.wanted),
                       Matching(Held(fields), q.asked), Matching(Complete(fields), q.asked))
      <3>1. q.wanted = q.asked
        BY ConditionsAsAsked
      <3>2. QED
        BY <2>1, <3>1 DEF Finds, GetFromIndex, Matching, Where
    <2>4. QED
      BY <2>2, <2>3
  <1>2. QED
    BY Inductive, <1>1, PTL
=============================================================================
