----------------------------- MODULE StoreProofs -----------------------------
(***************************************************************************)
(* Theorems about Store, for any replicas, documents, contents and clients *)
(* and however many edits.                                                 *)
(***************************************************************************)
EXTENDS Store, VectorClockTheorems

\* The primary key of table conflicts is (doc_id, doc_rev).
ConflictKey ==
  \A r \in Replica, d \in Doc : \A x, y \in conflicts[r][d] : x.rev = y.rev => x = y

\* The inductive invariant.
IInv == TypeOK /\ ConflictKey /\ ConflictsHaveDocument
-----------------------------------------------------------------------------
(***************************************************************************)
(* What the operators make.                                                *)
(***************************************************************************)

\* A version merged with another is a version, covers both, and names an
\* existing revision.
LEMMA MergedWithCovers ==
  ASSUME NEW v \in Version, NEW c \in Version, NEW r \in Replica
  PROVE  /\ MergedWith(v, c, r) \in Version
         /\ MergedWith(v, c, r).content = v.content
         /\ MergedWith(v, c, r).rev # EmptyClock
         /\ Covers(MergedWith(v, c, r).rev, v.rev)
         /\ Covers(MergedWith(v, c, r).rev, c.rev)
  <1>1. v.rev \in Clock /\ c.rev \in Clock
    BY DEF Version
  <1>2. Increment(Maximize(v.rev, c.rev), r) # EmptyClock
    BY <1>1, ClockClosed, IncrementNotEmpty
  <1>3. MergedWith(v, c, r).rev = Increment(Maximize(v.rev, c.rev), r)
    BY DEF MergedWith, Version
  <1>4. MergedWith(v, c, r) \in Version /\ MergedWith(v, c, r).content = v.content
    BY <1>1, MergeCovers DEF MergedWith, Version
  <1>5. QED
    BY <1>1, <1>2, <1>3, <1>4, MergeCovers

\* prune_conflicts gives a version at least as new as the one it was given,
\* and every conflict it drops is covered by it, and was covered by, or equal
\* in content to, the version it was given.
LEMMA PruneOutcome ==
  ASSUME IInv, NEW r \in Replica, NEW d \in Doc, NEW v \in Version,
         v.rev # EmptyClock, NEW p \in PruneConflicts(r, d, v)
  PROVE  /\ p.doc \in Version
         /\ p.doc.rev # EmptyClock
         /\ Covers(p.doc.rev, v.rev)
         /\ p.left \subseteq conflicts[r][d]
         /\ \A x \in conflicts[r][d] \ p.left :
              /\ Covers(p.doc.rev, x.rev)
              /\ Covers(v.rev, x.rev) \/ SameContent(v, x)
  <1>1. conflicts[r][d] \subseteq Version
    BY DEF IInv, TypeOK
  <1>2. CASE Prunable(r, d, v) = {}
    <2>1. p = [doc |-> v, left |-> conflicts[r][d]]
      BY <1>2 DEF PruneConflicts
    <2>2. Covers(v.rev, v.rev)
      BY CoversReflexive DEF Version
    <2>3. QED
      BY <2>1, <2>2
  <1>3. CASE Prunable(r, d, v) # {}
    <2>1. PICK c \in Prunable(r, d, v) :
            p = [doc |-> IF IsNewer(v.rev, c.rev) THEN v ELSE MergedWith(v, c, r),
                 left |-> {x \in conflicts[r][d] : x.rev # c.rev}]
      BY <1>3 DEF PruneConflicts
    <2>2. c \in conflicts[r][d] /\ c \in Version
      BY <1>1 DEF Prunable
    <2>3. IsNewer(v.rev, c.rev) \/ SameContent(v, c)
      BY DEF Prunable
    <2>4. IsNewer(v.rev, c.rev) => Covers(v.rev, c.rev)
      BY DEF IsNewer, Covers
    <2>5. Covers(v.rev, v.rev)
      BY CoversReflexive DEF Version
    <2>6. /\ p.doc \in Version
          /\ p.doc.rev # EmptyClock
          /\ Covers(p.doc.rev, v.rev)
          /\ Covers(p.doc.rev, c.rev)
      BY <2>1, <2>2, <2>4, <2>5, MergedWithCovers
    <2>7. \A x \in conflicts[r][d] \ p.left : x = c
      BY <2>1, <2>2 DEF IInv, ConflictKey
    <2>8. p.left \subseteq conflicts[r][d]
      BY <2>1
    <2>9. QED
      BY <2>3, <2>4, <2>6, <2>7, <2>8
  <1>4. QED
    BY <1>2, <1>3

\* What ensure_maximal_rev leaves covers every revision it was given.
LEMMA JoinsCover ==
  ASSUME NEW clocks \in SUBSET Clock, NEW top \in Joins(clocks)
  PROVE  top \in Clock /\ \A c \in clocks : Covers(top, c)
  BY DEF Joins, Clock
-----------------------------------------------------------------------------
(***************************************************************************)
(* The two ways in which a step changes a replica's versions of a          *)
(* document: it writes the document and perhaps changes its conflicts, or  *)
(* it changes the conflicts only.                                          *)
(***************************************************************************)

\* Writing a version and leaving `left' in conflict with it.
Written(r, d, v, left) ==
  /\ v \in Version
  /\ v.rev # EmptyClock
  /\ left \subseteq Version
  /\ \A x, y \in left : x.rev = y.rev => x = y
  /\ WriteDoc(r, d, v)
  /\ conflicts' = [conflicts EXCEPT ![r][d] = left]

\* The versions of d that r held are still there, or covered by v.
Kept(r, d, v, left) ==
  /\ Exists(r, d) => Covers(v.rev, document[r][d].rev) \/ document[r][d] \in left
  /\ \A x \in conflicts[r][d] \ left : Covers(v.rev, x.rev)

\* The tables stay well formed when a version is written.
LEMMA WrittenInv ==
  ASSUME IInv, NEW r \in Replica, NEW d \in Doc, NEW v, NEW left, Written(r, d, v, left)
  PROVE  /\ document' \in [Replica -> [Doc -> Version]]
         /\ conflicts' \in [Replica -> [Doc -> SUBSET Version]]
         /\ transaction_log' \in [Replica -> Seq(Transaction)]
         /\ ConflictKey'
         /\ ConflictsHaveDocument'
  <1>1. document' \in [Replica -> [Doc -> Version]]
    BY DEF Written, WriteDoc, IInv, TypeOK
  <1>2. conflicts' \in [Replica -> [Doc -> SUBSET Version]]
    BY DEF Written, IInv, TypeOK
  <1>3. transaction_log' \in [Replica -> Seq(Transaction)]
    <2>1. transaction_log[r] \in Seq(Transaction)
      BY DEF IInv, TypeOK
    <2>2. Len(transaction_log[r]) \in Nat
      BY <2>1
    <2>3. [doc |-> d, tid |-> Len(transaction_log[r]) + 1] \in Transaction
      BY <2>2 DEF Transaction
    <2>4. Append(transaction_log[r], [doc |-> d, tid |-> Len(transaction_log[r]) + 1])
            \in Seq(Transaction)
      BY <2>1, <2>3
    <2>5. QED
      BY <2>4 DEF Written, WriteDoc, IInv, TypeOK
  <1>4. ConflictKey'
    BY DEF Written, IInv, TypeOK, ConflictKey
  <1>5. ConflictsHaveDocument'
    BY DEF Written, WriteDoc, IInv, TypeOK, ConflictsHaveDocument, Exists
  <1>6. QED
    BY <1>1, <1>2, <1>3, <1>4, <1>5

\* Nothing is forgotten when a version is written that covers what it replaces.
LEMMA WrittenKeeps ==
  ASSUME IInv, NEW r \in Replica, NEW d \in Doc, NEW v, NEW left,
         Written(r, d, v, left), Kept(r, d, v, left),
         NEW q \in Replica, NEW e \in Doc
  PROVE  KeepsVersions(q, e)
  <1>1. \A x \in Version : Covers(x.rev, x.rev)
    BY CoversReflexive DEF Version
  <1>2. CASE q = r /\ e = d
    <2>1. document'[q][e] = v /\ conflicts'[q][e] = left
      BY <1>2 DEF Written, WriteDoc, IInv, TypeOK
    <2>2. Leaves(q, e)' = {v} \cup left
      BY <2>1 DEF Leaves, Exists, Written
    <2>3. ASSUME NEW x \in Leaves(q, e)
          PROVE  \E w \in Leaves(q, e)' : Covers(w.rev, x.rev)
      <3>1. CASE x \in left
        BY <1>1, <2>2, <3>1 DEF Written
      <3>2. CASE x \notin left
        <4>1. x \in conflicts[r][d] \ left \/ (Exists(r, d) /\ x = document[r][d])
          BY <1>2, <3>2 DEF Leaves
        <4>2. Covers(v.rev, x.rev)
          BY <3>2, <4>1 DEF Kept
        <4>3. QED
          BY <2>2, <4>2
      <3>3. QED
        BY <3>1, <3>2
    <2>4. QED
      BY <2>3 DEF KeepsVersions
  <1>3. CASE ~(q = r /\ e = d)
    <2>1. document'[q][e] = document[q][e] /\ conflicts'[q][e] = conflicts[q][e]
      BY <1>3 DEF Written, WriteDoc, IInv, TypeOK
    <2>2. Leaves(q, e)' = Leaves(q, e) /\ Leaves(q, e) \subseteq Version
      BY <2>1 DEF Leaves, Exists, IInv, TypeOK
    <2>3. QED
      BY <1>1, <2>2 DEF KeepsVersions
  <1>4. QED
    BY <1>2, <1>3

\* Changing the conflicts of an existing document to `new', and nothing else.
Reduced(r, d, new) ==
  /\ Exists(r, d)
  /\ new \subseteq Version
  /\ \A x, y \in new : x.rev = y.rev => x = y
  /\ conflicts' = [conflicts EXCEPT ![r][d] = new]
  /\ UNCHANGED <<document, transaction_log>>

\* The tables stay well formed when the conflicts change alone.
LEMMA ReducedInv ==
  ASSUME IInv, NEW r \in Replica, NEW d \in Doc, NEW new, Reduced(r, d, new)
  PROVE  /\ document' \in [Replica -> [Doc -> Version]]
         /\ conflicts' \in [Replica -> [Doc -> SUBSET Version]]
         /\ transaction_log' \in [Replica -> Seq(Transaction)]
         /\ ConflictKey'
         /\ ConflictsHaveDocument'
  <1>1. conflicts' \in [Replica -> [Doc -> SUBSET Version]]
    BY DEF Reduced, IInv, TypeOK
  <1>2. ConflictKey'
    BY DEF Reduced, IInv, TypeOK, ConflictKey
  <1>3. ConflictsHaveDocument'
    BY DEF Reduced, IInv, TypeOK, ConflictsHaveDocument, Exists
  <1>4. QED
    BY <1>1, <1>2, <1>3 DEF Reduced, IInv, TypeOK

\* The other documents, and the other replicas', keep their versions.
LEMMA ReducedKeepsOthers ==
  ASSUME IInv, NEW r \in Replica, NEW d \in Doc, NEW new, Reduced(r, d, new),
         NEW q \in Replica, NEW e \in Doc, ~(q = r /\ e = d)
  PROVE  KeepsVersions(q, e)
  <1>1. \A x \in Version : Covers(x.rev, x.rev)
    BY CoversReflexive DEF Version
  <1>2. document'[q][e] = document[q][e] /\ conflicts'[q][e] = conflicts[q][e]
    BY DEF Reduced, IInv, TypeOK
  <1>3. Leaves(q, e)' = Leaves(q, e) /\ Leaves(q, e) \subseteq Version
    BY <1>2 DEF Leaves, Exists, IInv, TypeOK
  <1>4. QED
    BY <1>1, <1>3 DEF KeepsVersions

\* Nothing is forgotten by a step that leaves the tables alone.
LEMMA UnchangedKeeps ==
  ASSUME IInv, UNCHANGED storeVars, NEW q \in Replica, NEW e \in Doc
  PROVE  KeepsVersions(q, e)
  <1>1. \A x \in Version : Covers(x.rev, x.rev)
    BY CoversReflexive DEF Version
  <1>2. Leaves(q, e)' = Leaves(q, e) /\ Leaves(q, e) \subseteq Version
    BY DEF storeVars, Leaves, Exists, IInv, TypeOK
  <1>3. QED
    BY <1>1, <1>2 DEF KeepsVersions
-----------------------------------------------------------------------------
(***************************************************************************)
(* Each operation is a step of one of those two kinds.                     *)
(***************************************************************************)

\* The row and the conflicts of a document.
LEMMA Rows ==
  ASSUME IInv, NEW r \in Replica, NEW d \in Doc
  PROVE  /\ document[r][d] \in Version
         /\ conflicts[r][d] \subseteq Version
         /\ conflicts = [conflicts EXCEPT ![r][d] = conflicts[r][d]]
         /\ \A x, y \in conflicts[r][d] : x.rev = y.rev => x = y
  BY DEF IInv, TypeOK, ConflictKey

\* u1db__put_doc_if_newer, without the branch that refuses a conflicted
\* document: it leaves the tables alone or keeps every version.
LEMMA PutStep ==
  ASSUME IInv, NEW r \in Replica, NEW d \in Doc, NEW v \in Version, v.rev # EmptyClock,
         \/ PutNewDocument(r, d, v)
         \/ PutKnown(r, d, v)
         \/ PutNewer(r, d, v)
         \/ PutSameContent(r, d, v)
         \/ PutConflictSaved(r, d, v)
  PROVE  \/ UNCHANGED storeVars
         \/ \E w, left : Written(r, d, w, left) /\ Kept(r, d, w, left)
  <1>1. /\ document[r][d] \in Version
        /\ conflicts[r][d] \subseteq Version
        /\ conflicts = [conflicts EXCEPT ![r][d] = conflicts[r][d]]
        /\ \A x, y \in conflicts[r][d] : x.rev = y.rev => x = y
    BY Rows
  <1>2. CASE PutNewDocument(r, d, v)
    <2>1. Written(r, d, v, conflicts[r][d])
      BY <1>1, <1>2 DEF PutNewDocument, Written
    <2>2. ~Exists(r, d)
      BY <1>2 DEF PutNewDocument, InsertState
    <2>3. Kept(r, d, v, conflicts[r][d])
      BY <2>2 DEF Kept
    <2>4. QED
      BY <2>1, <2>3
  <1>3. CASE PutKnown(r, d, v)
    BY <1>3 DEF PutKnown
  <1>4. CASE PutNewer(r, d, v)
    <2>1. PICK p \in PruneConflicts(r, d, v) :
            /\ conflicts' = [conflicts EXCEPT ![r][d] = p.left]
            /\ WriteDoc(r, d, p.doc)
      BY <1>4 DEF PutNewer
    <2>2. /\ p.doc \in Version
          /\ p.doc.rev # EmptyClock
          /\ Covers(p.doc.rev, v.rev)
          /\ p.left \subseteq conflicts[r][d]
          /\ \A x \in conflicts[r][d] \ p.left : Covers(p.doc.rev, x.rev)
      BY PruneOutcome
    <2>3. Written(r, d, p.doc, p.left)
      BY <1>1, <2>1, <2>2 DEF Written
    <2>4. IsNewer(v.rev, document[r][d].rev)
      BY <1>4 DEF PutNewer, InsertState
    <2>5. Covers(v.rev, document[r][d].rev)
      BY <2>4 DEF IsNewer, Covers
    <2>6. Covers(p.doc.rev, document[r][d].rev)
      BY <1>1, <2>2, <2>5, CoversTransitive DEF Version
    <2>7. Kept(r, d, p.doc, p.left)
      BY <2>2, <2>6 DEF Kept
    <2>8. QED
      BY <2>3, <2>7
  <1>5. CASE PutSameContent(r, d, v)
    <2> DEFINE w == MergedWith(v, document[r][d], r)
    <2>1. w \in Version /\ w.rev # EmptyClock /\ Covers(w.rev, document[r][d].rev)
      BY <1>1, MergedWithCovers
    <2>2. Written(r, d, w, conflicts[r][d])
      BY <1>1, <1>5, <2>1 DEF PutSameContent, Written
    <2>3. Kept(r, d, w, conflicts[r][d])
      BY <2>1 DEF Kept
    <2>4. QED
      BY <2>2, <2>3
  <1>6. CASE PutConflictSaved(r, d, v)
    <2>1. PICK p \in PruneConflicts(r, d, v) :
            /\ \A x \in p.left : x.rev # document[r][d].rev
            /\ conflicts' = [conflicts EXCEPT ![r][d] = p.left \cup {document[r][d]}]
            /\ WriteDoc(r, d, p.doc)
      BY <1>6 DEF PutConflictSaved
    <2>2. /\ p.doc \in Version
          /\ p.doc.rev # EmptyClock
          /\ p.left \subseteq conflicts[r][d]
          /\ \A x \in conflicts[r][d] \ p.left : Covers(p.doc.rev, x.rev)
      BY PruneOutcome
    <2>3. Written(r, d, p.doc, p.left \cup {document[r][d]})
      BY <1>1, <2>1, <2>2 DEF Written
    <2>4. Kept(r, d, p.doc, p.left \cup {document[r][d]})
      BY <2>2 DEF Kept
    <2>5. QED
      BY <2>3, <2>4
  <1>7. QED
    BY <1>2, <1>3, <1>4, <1>5, <1>6

\* Without save_conflict, the conflicts of the document are pruned and it is
\* refused: what is dropped is covered by, or equal in content to, what the
\* other replica offered.
LEMMA IgnoredStep ==
  ASSUME IInv, NEW r \in Replica, NEW d \in Doc, NEW v \in Version, v.rev # EmptyClock,
         PutConflictIgnored(r, d, v)
  PROVE  \E new : /\ Reduced(r, d, new)
                  /\ new \subseteq conflicts[r][d]
                  /\ \A x \in conflicts[r][d] \ new : Covers(v.rev, x.rev) \/ SameContent(v, x)
  <1>1. PICK p \in PruneConflicts(r, d, v) : conflicts' = [conflicts EXCEPT ![r][d] = p.left]
    BY DEF PutConflictIgnored
  <1>2. /\ p.left \subseteq conflicts[r][d]
        /\ \A x \in conflicts[r][d] \ p.left : Covers(v.rev, x.rev) \/ SameContent(v, x)
    BY PruneOutcome
  <1>3. Exists(r, d)
    BY DEF PutConflictIgnored, InsertState
  <1>4. /\ conflicts[r][d] \subseteq Version
        /\ \A x, y \in conflicts[r][d] : x.rev = y.rev => x = y
    BY Rows
  <1>5. Reduced(r, d, p.left)
    BY <1>1, <1>2, <1>3, <1>4 DEF Reduced, PutConflictIgnored
  <1>6. QED
    BY <1>2, <1>5

\* A user's edit of the current document is newer than it.
LEMMA EditedVersionCovers ==
  ASSUME IInv, NEW c \in Client, NEW d \in Doc, NEW content \in Content \cup {Deleted}
  PROVE  /\ Home[c] \in Replica
         /\ EditedVersion(c, d, content) \in Version
         /\ EditedVersion(c, d, content).rev # EmptyClock
         /\ Covers(EditedVersion(c, d, content).rev, document[Home[c]][d].rev)
  <1>1. Home[c] \in Replica
    BY HomeAssumption
  <1>2. document[Home[c]][d] \in Version /\ handle[c][d] \in Handle /\ edits + 1 \in Edit
    BY <1>1 DEF IInv, TypeOK, Edit
  <1>3. document[Home[c]][d].rev \in Clock
    BY <1>2 DEF Version
  <1>4. EditedVersion(c, d, content).rev = Increment(document[Home[c]][d].rev, Home[c])
    BY DEF EditedVersion
  <1>5. EditedVersion(c, d, content) \in Version
    BY <1>1, <1>2, <1>3, ClockClosed DEF EditedVersion, Version, Handle
  <1>6. QED
    BY <1>1, <1>3, <1>4, <1>5, IncrementIsNewer, IncrementNotEmpty

\* u1db_put_doc and u1db_delete_doc.
LEMMA EditStep ==
  ASSUME IInv, NEW c \in Client, NEW d \in Doc, NEW content \in Content \cup {Deleted},
         WriteDoc(Home[c], d, EditedVersion(c, d, content)),
         handle' = [handle EXCEPT ![c][d].rev = EditedVersion(c, d, content).rev,
                                  ![c][d].past = EditedVersion(c, d, content).past],
         UNCHANGED conflicts
  PROVE  /\ handle' \in [Client -> [Doc -> Handle]]
         /\ \E w, left : Written(Home[c], d, w, left) /\ Kept(Home[c], d, w, left)
  <1> DEFINE v == EditedVersion(c, d, content)
  <1>1. /\ Home[c] \in Replica
        /\ v \in Version
        /\ v.rev # EmptyClock
        /\ Covers(v.rev, document[Home[c]][d].rev)
    BY EditedVersionCovers
  <1>2. v.rev \in Clock /\ v.past \subseteq Edit
    BY <1>1 DEF Version
  <1>3. handle' \in [Client -> [Doc -> Handle]]
    <2> HIDE DEF v
    <2>1. handle[c] \in [Doc -> Handle] /\ handle[c][d] \in Handle
      BY DEF IInv, TypeOK
    <2>2. [handle[c][d] EXCEPT !.rev = v.rev] \in Handle
      BY <1>2, <2>1 DEF Handle
    <2>3. [[handle[c][d] EXCEPT !.rev = v.rev] EXCEPT !.past = v.past] \in Handle
      BY <1>2, <2>2 DEF Handle
    <2>4. QED
      BY <1>2, <2>1, <2>2, <2>3 DEF IInv, TypeOK, Handle, v
  <1>4. /\ conflicts[Home[c]][d] \subseteq Version
        /\ conflicts = [conflicts EXCEPT ![Home[c]][d] = conflicts[Home[c]][d]]
        /\ \A x, y \in conflicts[Home[c]][d] : x.rev = y.rev => x = y
    BY <1>1, Rows
  <1>5. Written(Home[c], d, v, conflicts[Home[c]][d])
    BY <1>1, <1>4 DEF Written
  <1>6. Kept(Home[c], d, v, conflicts[Home[c]][d])
    BY <1>1 DEF Kept
  <1>7. QED
    BY <1>3, <1>5, <1>6

\* u1db_resolve_doc: whatever revisions the client names, the resolution
\* covers all it replaces.
LEMMA ResolveStep ==
  ASSUME IInv, NEW c \in Client, NEW d \in Doc, NEW content \in Content \cup {Deleted},
         NEW revs \in SUBSET {x.rev : x \in Versions(d)},
         ResolveDoc(c, d, content, revs),
         NEW q \in Replica, NEW e \in Doc
  PROVE  /\ IInv'
         /\ KeepsVersions(q, e)
  <1> DEFINE r == Home[c]
             stored == document[r][d]
             merged == UNION {x.past : x \in {y \in Versions(d) : y.rev \in revs}}
             left == {x \in conflicts[r][d] : x.rev \notin revs}
  <1>1. r \in Replica
    BY HomeAssumption
  <1>2. /\ stored \in Version
        /\ conflicts[r][d] \subseteq Version
        /\ \A x, y \in conflicts[r][d] : x.rev = y.rev => x = y
    BY <1>1, Rows
  <1>3. Versions(d) \subseteq Version
    BY DEF Versions, Leaves, IInv, TypeOK
  <1>4. PICK top \in Joins(revs \cup {stored.rev}) :
          LET v == [rev |-> Increment(top, r), content |-> content,
                    past |-> merged \cup {edits + 1}]
          IN \/ /\ ~Exists(r, d) \/ stored.rev \in revs
                /\ WriteDoc(r, d, v)
                /\ conflicts' = [conflicts EXCEPT ![r][d] = left]
                /\ handle' = [handle EXCEPT ![c][d] =
                     [rev |-> v.rev, past |-> v.past, has_conflicts |-> left # {}]]
             \/ /\ Exists(r, d) /\ stored.rev \notin revs
                /\ v.rev \notin ConflictRevs(r, d)
                /\ conflicts' = [conflicts EXCEPT ![r][d] = left \cup {v}]
                /\ handle' = [handle EXCEPT ![c][d] =
                     [rev |-> v.rev, past |-> v.past, has_conflicts |-> TRUE]]
                /\ UNCHANGED <<document, transaction_log>>
    BY DEF ResolveDoc
  <1> DEFINE v == [rev |-> Increment(top, r), content |-> content,
                   past |-> merged \cup {edits + 1}]
  <1>5. edits + 1 \in Edit /\ edits' \in Nat
    BY DEF ResolveDoc, IInv, TypeOK, Edit
  <1>6. top \in Clock /\ \A k \in revs \cup {stored.rev} : Covers(top, k)
    <2>1. stored.rev \in Clock /\ revs \subseteq Clock
      BY <1>2, <1>3 DEF Version
    <2>2. QED
      BY <2>1, JoinsCover
  <1>7. /\ Increment(top, r) \in Clock
        /\ Increment(top, r) # EmptyClock
        /\ \A k \in revs \cup {stored.rev} : k \in Clock => Covers(Increment(top, r), k)
    BY <1>1, <1>6, ClockClosed, IncrementIsNewer, IncrementNotEmpty, CoversTransitive
  <1>8. merged \in SUBSET Edit
    BY <1>3 DEF Version
  <1>9. /\ v \in Version
        /\ v.rev # EmptyClock
        /\ v.rev \in Clock
        /\ v.past \in SUBSET Edit
        /\ \A k \in revs \cup {stored.rev} : k \in Clock => Covers(v.rev, k)
    BY <1>5, <1>7, <1>8 DEF Version
  <1>10. handle' \in [Client -> [Doc -> Handle]]
    <2>1. PICK h \in Handle : handle' = [handle EXCEPT ![c][d] = h]
      BY <1>4, <1>9 DEF Handle
    <2>2. QED
      BY <2>1 DEF IInv, TypeOK
  <1>11. left \subseteq Version /\ \A x, y \in left : x.rev = y.rev => x = y
    BY <1>2
  <1>12. \A x \in conflicts[r][d] \ left : Covers(v.rev, x.rev)
    BY <1>2, <1>9 DEF Version
  <1>13. CASE WriteDoc(r, d, v) /\ conflicts' = [conflicts EXCEPT ![r][d] = left]
    <2>1. Written(r, d, v, left)
      BY <1>9, <1>11, <1>13 DEF Written
    <2>2. Kept(r, d, v, left)
      BY <1>2, <1>9, <1>12 DEF Kept, Version
    <2> HIDE DEF v, left
    <2>3. QED
      BY <1>1, <1>5, <1>10, <2>1, <2>2, WrittenInv, WrittenKeeps DEF IInv, TypeOK
  <1>14. CASE /\ Exists(r, d)
              /\ v.rev \notin ConflictRevs(r, d)
              /\ conflicts' = [conflicts EXCEPT ![r][d] = left \cup {v}]
              /\ UNCHANGED <<document, transaction_log>>
    <2>1. \A x \in left : x.rev # v.rev
      BY <1>14 DEF ConflictRevs
    <2>2. Reduced(r, d, left \cup {v})
      BY <1>9, <1>11, <1>14, <2>1 DEF Reduced
    <2> HIDE DEF v, left
    <2>3. IInv'
      BY <1>1, <1>5, <1>10, <2>2, ReducedInv DEF IInv, TypeOK
    <2>4. KeepsVersions(q, e)
      <3>1. CASE ~(q = r /\ e = d)
        BY <1>1, <2>2, <3>1, ReducedKeepsOthers
      <3>2. CASE q = r /\ e = d
        <4>1. /\ conflicts'[q][e] = left \cup {v}
              /\ document'[q][e] = document[q][e]
          BY <1>14, <3>2 DEF IInv, TypeOK
        <4>2. Leaves(q, e)' = {document[q][e]} \cup left \cup {v}
          BY <1>14, <3>2, <4>1 DEF Leaves, Exists
        <4>3. \A x \in Version : Covers(x.rev, x.rev)
          BY CoversReflexive DEF Version
        <4>4. ASSUME NEW x \in Leaves(q, e)
              PROVE  \E w \in Leaves(q, e)' : Covers(w.rev, x.rev)
          <5>1. x \in Version
            BY <1>2, <3>2 DEF Leaves
          <5>2. x = document[q][e] \/ x \in left \/ x \in conflicts[r][d] \ left
            BY <3>2 DEF Leaves
          <5>3. QED
            BY <1>12, <4>2, <4>3, <5>1, <5>2
        <4>5. QED
          BY <4>4 DEF KeepsVersions
      <3>3. QED
        BY <3>1, <3>2
    <2>5. QED
      BY <2>3, <2>4
  <1>15. QED
    BY <1>4, <1>13, <1>14
-----------------------------------------------------------------------------
(***************************************************************************)
(* The invariant, and what every step keeps.                               *)
(***************************************************************************)

\* What the theorems need of a step.
StepIsSafe ==
  /\ IInv'
  /\ \A q \in Replica, e \in Doc : KeepsVersions(q, e) \/ DropsForOffer(q, e)

\* The invariant holds of new databases.
LEMMA InitInv == Init => IInv
  <1> SUFFICES ASSUME Init PROVE IInv
    OBVIOUS
  <1>1. NoRow \in Version /\ NewHandle \in Handle
    BY ClockClosed DEF NoRow, NewHandle, Version, Handle, EmptyClock, Clock
  <1>2. TypeOK
    BY <1>1 DEF Init, StoreInit, TypeOK
  <1>3. \A r \in Replica, d \in Doc : conflicts[r][d] = {}
    BY DEF Init, StoreInit
  <1>4. QED
    BY <1>2, <1>3 DEF IInv, ConflictKey, ConflictsHaveDocument

\* A step that writes a covering version is safe, with well typed handles.
LEMMA WrittenIsSafe ==
  ASSUME IInv, NEW r \in Replica, NEW d \in Doc,
         \E w, left : Written(r, d, w, left) /\ Kept(r, d, w, left),
         handle' \in [Client -> [Doc -> Handle]], edits' \in Nat
  PROVE  StepIsSafe
  <1>1. PICK w, left : Written(r, d, w, left) /\ Kept(r, d, w, left)
    OBVIOUS
  <1>2. IInv'
    BY <1>1, WrittenInv DEF IInv, TypeOK
  <1>3. \A q \in Replica, e \in Doc : KeepsVersions(q, e)
    BY <1>1, WrittenKeeps
  <1>4. QED
    BY <1>2, <1>3 DEF StepIsSafe

\* So is one that leaves the tables as they are.
LEMMA UnchangedIsSafe ==
  ASSUME IInv, UNCHANGED storeVars,
         handle' \in [Client -> [Doc -> Handle]], edits' \in Nat
  PROVE  StepIsSafe
  <1>1. IInv'
    BY DEF storeVars, IInv, TypeOK, ConflictKey, ConflictsHaveDocument, Exists
  <1>2. QED
    BY <1>1, UnchangedKeeps DEF StepIsSafe

\* Whichever branch u1db__put_doc_if_newer takes.
LEMMA OfferIsSafe ==
  ASSUME IInv, NEW r \in Replica, NEW s \in Replica, r # s, NEW d \in Doc,
         NEW save_conflict \in BOOLEAN, Offer(s, r, d, save_conflict)
  PROVE  StepIsSafe
  <1> DEFINE v == document[s][d]
  <1>1. v \in Version /\ v.rev # EmptyClock
    BY Rows DEF Offer, Exists
  <1>2. handle' \in [Client -> [Doc -> Handle]] /\ edits' \in Nat
    BY DEF Offer, IInv, TypeOK
  <1>3. CASE PutConflictIgnored(r, d, v)
    <2>1. PICK new : /\ Reduced(r, d, new)
                     /\ new \subseteq conflicts[r][d]
                     /\ \A x \in conflicts[r][d] \ new :
                          Covers(v.rev, x.rev) \/ SameContent(v, x)
      BY <1>1, <1>3, IgnoredStep
    <2>2. IInv'
      BY <1>2, <2>1, ReducedInv DEF IInv, TypeOK
    <2>3. ASSUME NEW q \in Replica, NEW e \in Doc
          PROVE  KeepsVersions(q, e) \/ DropsForOffer(q, e)
      <3>1. CASE ~(q = r /\ e = d)
        BY <2>1, <3>1, ReducedKeepsOthers
      <3>2. CASE q = r /\ e = d
        <4>1. document'[q][e] = document[q][e] /\ conflicts'[q][e] = new
          BY <2>1, <3>2 DEF Reduced, IInv, TypeOK
        <4>2. QED
          BY <2>1, <3>2, <4>1 DEF DropsForOffer
      <3>3. QED
        BY <3>1, <3>2
    <2>4. QED
      BY <2>2, <2>3 DEF StepIsSafe
  <1>4. CASE ~PutConflictIgnored(r, d, v)
    <2>1. \/ PutNewDocument(r, d, v)
          \/ PutKnown(r, d, v)
          \/ PutNewer(r, d, v)
          \/ PutSameContent(r, d, v)
          \/ PutConflictSaved(r, d, v)
      BY <1>4 DEF Offer, PutDocIfNewer
    <2>2. \/ UNCHANGED storeVars
          \/ \E w, left : Written(r, d, w, left) /\ Kept(r, d, w, left)
      BY <1>1, <2>1, PutStep
    <2>3. QED
      BY <1>2, <2>2, WrittenIsSafe, UnchangedIsSafe
  <1>5. QED
    BY <1>3, <1>4

\* Whatever a client calls.
LEMMA ClientIsSafe ==
  ASSUME IInv, NEW c \in Client, NEW d \in Doc, AnyClientStep(c, d)
  PROVE  StepIsSafe
  <1>1. Home[c] \in Replica
    BY HomeAssumption
  <1>2. CASE \E check \in BOOLEAN : GetDoc(c, d, check)
    <2>1. PICK check \in BOOLEAN : GetDoc(c, d, check)
      BY <1>2
    <2> DEFINE h == [rev |-> document[Home[c]][d].rev,
                     past |-> document[Home[c]][d].past,
                     has_conflicts |-> check /\ conflicts[Home[c]][d] # {}]
    <2>2. handle' = [handle EXCEPT ![c][d] = h]
      BY <2>1 DEF GetDoc
    <2>3. document[Home[c]][d] \in Version
      BY <1>1, Rows
    <2>4. h \in Handle
      BY <2>3 DEF Handle, Version
    <2>5. handle' \in [Client -> [Doc -> Handle]]
      BY <2>2, <2>4 DEF IInv, TypeOK
    <2>6. UNCHANGED storeVars /\ edits' \in Nat
      BY <2>1 DEF GetDoc, IInv, TypeOK
    <2>7. QED
      BY <2>5, <2>6, UnchangedIsSafe
  <1>3. CASE MakeDoc(c, d)
    <2>1. NewHandle \in Handle
      BY ClockClosed DEF NewHandle, Handle, EmptyClock, Clock
    <2>2. handle' \in [Client -> [Doc -> Handle]]
      BY <1>3, <2>1 DEF MakeDoc, IInv, TypeOK
    <2>3. UNCHANGED storeVars /\ edits' \in Nat
      BY <1>3 DEF MakeDoc, IInv, TypeOK
    <2>4. QED
      BY <2>2, <2>3, UnchangedIsSafe
  <1>4. CASE \E content \in Content \cup {Deleted} : PutDoc(c, d, content)
    <2>1. PICK content \in Content \cup {Deleted} : PutDoc(c, d, content)
      BY <1>4
    <2>2. edits' \in Nat
      BY <2>1 DEF PutDoc, IInv, TypeOK
    <2>3. QED
      BY <1>1, <2>1, <2>2, EditStep, WrittenIsSafe DEF PutDoc
  <1>5. CASE DeleteDoc(c, d)
    <2>1. edits' \in Nat
      BY <1>5 DEF DeleteDoc, IInv, TypeOK
    <2>2. QED
      BY <1>1, <1>5, <2>1, EditStep, WrittenIsSafe DEF DeleteDoc
  <1>6. CASE \E content \in Content \cup {Deleted}, revs \in SUBSET {x.rev : x \in Versions(d)} :
               revs # {} /\ ResolveDoc(c, d, content, revs)
    <2>1. PICK content \in Content \cup {Deleted}, revs \in SUBSET {x.rev : x \in Versions(d)} :
            ResolveDoc(c, d, content, revs)
      BY <1>6
    <2>2. \A q \in Replica, e \in Doc : IInv' /\ KeepsVersions(q, e)
      BY <2>1, ResolveStep
    <2>3. QED
      BY <1>1, <2>2 DEF StepIsSafe
  <1>7. QED
    BY <1>2, <1>3, <1>4, <1>5, <1>6 DEF AnyClientStep

\* Every step.
LEMMA NextIsSafe == IInv /\ Next => StepIsSafe
  <1> SUFFICES ASSUME IInv, Next PROVE StepIsSafe
    OBVIOUS
  <1>1. CASE Receive
    BY <1>1, OfferIsSafe DEF Receive
  <1>2. CASE \E c \in Client, d \in Doc : AnyClientStep(c, d)
    BY <1>2, ClientIsSafe
  <1>3. QED
    BY <1>1, <1>2 DEF Next

\* The invariant is about the variables.
LEMMA StutterInv == IInv /\ UNCHANGED vars => IInv'
  BY DEF vars, IInv, TypeOK, ConflictKey, ConflictsHaveDocument, Exists

\* The invariant holds in every state the replicas can be in.
LEMMA Inductive == Spec => []IInv
  <1>1. IInv /\ [Next]_vars => IInv'
    BY NextIsSafe, StutterInv DEF StepIsSafe
  <1>2. QED
    BY InitInv, <1>1, PTL DEF Spec

\* The tables and the handles hold what their declarations say, and a
\* transaction's generation is its place in the log (write_doc).
THEOREM TypeCorrect == Spec => []TypeOK
  <1>1. IInv => TypeOK
    BY DEF IInv
  <1>2. QED
    BY Inductive, <1>1, PTL

\* find_current_doc_for_conflict always finds the document of a conflict:
\* neither u1db__put_doc_if_newer nor u1db_resolve_doc, given any revisions,
\* leaves conflicts without one.
THEOREM ConflictsAlwaysHaveDocument == Spec => []ConflictsHaveDocument
  <1>1. IInv => ConflictsHaveDocument
    BY DEF IInv
  <1>2. QED
    BY Inductive, <1>1, PTL

\* No step makes a replica forget a version that nothing it holds supersedes,
\* but for what it drops in favour of a document it then refuses
\* (u1db__put_doc_if_newer, prune_conflicts, u1db_resolve_doc, u1db_put_doc,
\* u1db_delete_doc).
THEOREM NeverForgets == Spec => NothingForgotten
  <1>1. IInv /\ [Next]_vars =>
          [\A r \in Replica, d \in Doc : KeepsVersions(r, d) \/ DropsForOffer(r, d)]_vars
    BY NextIsSafe DEF StepIsSafe
  <1>2. QED
    BY Inductive, <1>1, PTL DEF Spec, NothingForgotten

\* A client that resolves only by merging everything it is shown is one of
\* those that may resolve anything, so the theorems above hold of it too.
THEOREM CarefulClientsAreClients == CarefulSpec => Spec
  <1>1. ASSUME NEW c \in Client, NEW d \in Doc, CarefulClientStep(c, d)
        PROVE  AnyClientStep(c, d)
    <2>1. CASE \E content \in Content \cup {Deleted} :
                 /\ conflicts[Home[c]][d] # {}
                 /\ ResolveDoc(c, d, content, {x.rev : x \in Leaves(Home[c], d)})
      <3>1. Leaves(Home[c], d) \subseteq Versions(d)
        BY HomeAssumption DEF Versions
      <3>2. conflicts[Home[c]][d] # {} => {x.rev : x \in Leaves(Home[c], d)} # {}
        BY DEF Leaves
      <3>3. {x.rev : x \in Leaves(Home[c], d)} \in SUBSET {x.rev : x \in Versions(d)}
        BY <3>1
      <3>4. QED
        BY <2>1, <3>2, <3>3 DEF AnyClientStep
    <2>2. QED
      BY <1>1, <2>1 DEF CarefulClientStep, AnyClientStep
  <1>2. CarefulNext => Next
    BY <1>1 DEF CarefulNext, Next
  <1>3. [CarefulNext]_vars => [Next]_vars
    BY <1>2
  <1>4. QED
    BY <1>3, PTL DEF CarefulSpec, Spec
-----------------------------------------------------------------------------
(***************************************************************************)
(* Careful clients of at most two replicas.  With three one revision may   *)
(* name two versions, see ConvergedIsSameDocument, and none of what        *)
(* follows holds.                                                          *)
(***************************************************************************)
AtMostTwo == \A q, r, s \in Replica : q = r \/ q = s \/ r = s

\* What history is about: a revision, and the edits it is said to stand for.
Named == [rev : Clock, past : SUBSET Edit]
Name(x) == [rev |-> x.rev, past |-> x.past]

\* All that some replica holds or some client has read, the versions M that are
\* on their way from one replica to the other, and the empty revision.
Known(d, M) ==
  {Name(x) : x \in {NoRow} \cup {document[r][d] : r \in Replica}
                   \cup (UNION {conflicts[r][d] : r \in Replica})
                   \cup {handle[c][d] : c \in Client} \cup M}

\* Nothing in K has more of replica r's generations than clock k.
Latest(r, K, k) == \A x \in K : x.rev[r] <= k[r]

\* Every edit behind a revision was made known by some generation in it:
\* whatever has that generation has the edit.
Told(K) ==
  \A v \in K : \A e \in v.past : \E r \in Replica :
    /\ v.rev[r] > 0
    /\ \A w \in K : v.rev[r] <= w.rev[r] => e \in w.past

\* A revision n that replica r makes of those in U: it has a generation of r
\* that is new in K, and otherwise theirs, and their edits.
MadeOf(r, K, U, n) ==
  /\ U # {}
  /\ \A u \in U : u.past \subseteq n.past
  /\ \A q \in Replica \ {r} : \E u \in U : n.rev[q] = u.rev[q]
  /\ \E u \in U : n.rev[r] = u.rev[r] + 1 /\ Latest(r, K, u.rev)

\* Where edits are told, clocks tell history.
LEMMA ToldIsHistory ==
  ASSUME NEW K \in SUBSET Named, Told(K), NEW v \in K, NEW w \in K, Covers(w.rev, v.rev)
  PROVE  v.past \subseteq w.past
  BY DEF Told, Covers

\* A new revision has more of its maker's generations than all others.
LEMMA MadeIsLatest ==
  ASSUME NEW K \in SUBSET Named, NEW U \in SUBSET K, NEW n \in Named, NEW r \in Replica,
         MadeOf(r, K, U, n)
  PROVE  \A x \in K : x.rev[r] < n.rev[r]
  <1>1. PICK u \in U : n.rev[r] = u.rev[r] + 1 /\ Latest(r, K, u.rev)
    BY DEF MadeOf
  <1>2. \A x \in K : x.rev[r] \in Nat
    BY DEF Named, Clock
  <1>3. \A x \in K : x.rev[r] <= u.rev[r]
    BY <1>1 DEF Latest
  <1>4. QED
    BY <1>1, <1>2, <1>3

\* Making a revision tells its edits, and leaves the others told.
LEMMA MadeIsTold ==
  ASSUME NEW K \in SUBSET Named, Told(K), NEW U \in SUBSET K, NEW n \in Named, NEW r \in Replica,
         MadeOf(r, K, U, n), NEW L \in SUBSET (K \cup {n})
  PROVE  Told(L)
  <1>1. \A x \in K : x.rev[r] < n.rev[r]
    BY MadeIsLatest
  <1>2. \A x \in K \cup {n} : \A q \in Replica : x.rev[q] \in Nat
    BY DEF Named, Clock
  <1>3. ASSUME NEW v \in L, NEW e \in v.past
        PROVE  \E q \in Replica : /\ v.rev[q] > 0
                                  /\ \A w \in L : v.rev[q] <= w.rev[q] => e \in w.past
    <2>1. CASE v = n
      <3>1. n.rev[r] > 0
        BY <1>1, <1>2 DEF MadeOf
      <3>2. \A w \in L : n.rev[r] <= w.rev[r] => w = n
        BY <1>1, <1>2
      <3>3. QED
        BY <1>3, <2>1, <3>1, <3>2
    <2>2. CASE v \in K
      <3>1. PICK q \in Replica : /\ v.rev[q] > 0
                                 /\ \A w \in K : v.rev[q] <= w.rev[q] => e \in w.past
        BY <1>3, <2>2 DEF Told
      <3>2. ASSUME v.rev[q] <= n.rev[q]
            PROVE  \E u \in U : v.rev[q] <= u.rev[q]
        <4>1. CASE q = r
          BY <1>2, <2>2, <4>1 DEF MadeOf, Latest
        <4>2. CASE q # r
          BY <3>2, <4>2 DEF MadeOf
        <4>3. QED
          BY <4>1, <4>2
      <3>3. v.rev[q] <= n.rev[q] => e \in n.past
        BY <3>1, <3>2 DEF MadeOf
      <3>4. QED
        BY <3>1, <3>3
    <2>3. QED
      BY <2>1, <2>2
  <1>4. QED
    BY <1>3 DEF Told

\* What was the latest of another replica's generations still is, and the new
\* revision has the latest of its maker's.
LEMMA LatestKept ==
  ASSUME NEW K \in SUBSET Named, NEW U \in SUBSET K, NEW n \in Named, NEW r \in Replica,
         MadeOf(r, K, U, n), NEW L \in SUBSET (K \cup {n})
  PROVE  /\ Latest(r, L, n.rev)
         /\ \A q \in Replica \ {r}, k \in Clock : Latest(q, K, k) => Latest(q, L, k)
  <1>1. \A x \in K : x.rev[r] < n.rev[r]
    BY MadeIsLatest
  <1>2. \A x \in K \cup {n} : \A q \in Replica : x.rev[q] \in Nat
    BY DEF Named, Clock
  <1>3. Latest(r, L, n.rev)
    BY <1>1, <1>2 DEF Latest
  <1>4. ASSUME NEW q \in Replica \ {r}, NEW k \in Clock, Latest(q, K, k)
        PROVE  Latest(q, L, k)
    BY <1>4 DEF Latest, MadeOf
  <1>5. QED
    BY <1>3, <1>4

\* A revision of d names one version.
OneVersion(d, M) == \A v, w \in Versions(d) \cup M : v.rev = w.rev => v = w

\* Replica r has d in conflict: with one version, which has the latest of r's
\* generations. The document came from the other replica, which has it still or
\* a newer one.
InConflict(r, d, M) ==
  \E c \in conflicts[r][d] :
    /\ conflicts[r][d] = {c}
    /\ Latest(r, Known(d, M), c.rev)
    /\ ~Covers(c.rev, document[r][d].rev) /\ ~Covers(document[r][d].rev, c.rev)
    /\ \A s \in Replica : Covers(document[s][d].rev, document[r][d].rev)

\* Or it has only its document, which has the latest of r's generations.
Single(r, d, M) == conflicts[r][d] = {} /\ Latest(r, Known(d, M), document[r][d].rev)

\* What a client has read, and was not told to be in conflict, is behind the
\* document, or behind the version that the document is now in conflict with.
Follows(c, d) ==
  ~handle[c][d].has_conflicts =>
    \/ conflicts[Home[c]][d] = {} /\ Covers(document[Home[c]][d].rev, handle[c][d].rev)
    \/ \E x \in conflicts[Home[c]][d] : Covers(x.rev, handle[c][d].rev)

\* A document, wherever it is held, with the versions M of it on their way.
DocInv(d, M) ==
  /\ Told(Known(d, M))
  /\ OneVersion(d, M)
  /\ \A r \in Replica : Single(r, d, M) \/ InConflict(r, d, M)
  /\ \A c \in Client : Follows(c, d)

\* There is a row with a revision, or none.
RowsExist == \A r \in Replica, d \in Doc : document[r][d] = NoRow \/ Exists(r, d)

\* The inductive invariant of careful clients, with IInv, where the versions
\* C[d] of d are on their way. In module Store nothing is, as a replica is
\* offered a document at the moment at which it is read.
CareInv(C) == RowsExist /\ NoLostEdit /\ \A d \in Doc : DocInv(d, C[d])
Nothing == [d \in Doc |-> {}]

\* What is known is named, and what is held is known.
LEMMA KnownNames ==
  ASSUME IInv, NEW d \in Doc, NEW M \in SUBSET Version
  PROVE  /\ Known(d, M) \in SUBSET Named
         /\ Name(NoRow) \in Known(d, M)
         /\ \A v \in M : Name(v) \in Known(d, M)
         /\ \A v \in Versions(d) : v \in Version /\ Name(v) \in Known(d, M)
         /\ \A r \in Replica : Name(document[r][d]) \in Known(d, M)
         /\ \A r \in Replica : \A x \in conflicts[r][d] : Name(x) \in Known(d, M)
         /\ \A c \in Client : Name(handle[c][d]) \in Known(d, M)
  <1>1. EmptyClock \in Clock
    BY DEF EmptyClock, Clock
  <1>2. /\ \A r \in Replica : document[r][d] \in Version
        /\ \A r \in Replica : conflicts[r][d] \subseteq Version
        /\ \A c \in Client : handle[c][d] \in Handle
    BY DEF IInv, TypeOK
  <1>3. \A x \in Version \cup Handle : Name(x) \in Named
    BY DEF Version, Handle, Name, Named
  <1> DEFINE all == {NoRow} \cup {document[r][d] : r \in Replica}
                    \cup (UNION {conflicts[r][d] : r \in Replica})
                    \cup {handle[c][d] : c \in Client} \cup M
  <1>4. Name(NoRow) \in Named
    BY <1>1 DEF NoRow, Name, Named
  <1>5. \A x \in all : Name(x) \in Named
    <2> SUFFICES ASSUME NEW x \in all PROVE Name(x) \in Named
      OBVIOUS
    <2>1. \/ x = NoRow
          \/ \E r \in Replica : x = document[r][d] \/ x \in conflicts[r][d]
          \/ \E c \in Client : x = handle[c][d]
          \/ x \in M
      OBVIOUS
    <2>2. x = NoRow \/ x \in Version \/ x \in Handle
      BY <1>2, <2>1
    <2>3. QED
      BY <1>3, <1>4, <2>2
  <1>6. /\ NoRow \in all
        /\ \A r \in Replica : document[r][d] \in all /\ \A x \in conflicts[r][d] : x \in all
        /\ \A c \in Client : handle[c][d] \in all
        /\ \A x \in M : x \in all
    <2>1. NoRow \in all
      OBVIOUS
    <2>2. \A r \in Replica : document[r][d] \in all
      OBVIOUS
    <2>3. \A r \in Replica : \A x \in conflicts[r][d] : x \in all
      OBVIOUS
    <2>4. \A c \in Client : handle[c][d] \in all
      OBVIOUS
    <2>5. \A x \in M : x \in all
      OBVIOUS
    <2>6. QED
      BY <2>1, <2>2, <2>3, <2>4, <2>5
  <1>7. \A v \in Versions(d) : v \in Version /\ v \in all
    BY <1>2 DEF Versions, Leaves
  <1>8. Known(d, M) = {Name(x) : x \in all}
    BY DEF Known
  <1> HIDE DEF all
  <1>9. QED
    BY <1>5, <1>6, <1>7, <1>8

\* A step that changes nothing of a document.
LEMMA DocKept ==
  ASSUME NEW d \in Doc, NEW M, DocInv(d, M),
         \A r \in Replica : document'[r][d] = document[r][d] /\ conflicts'[r][d] = conflicts[r][d],
         \A c \in Client : handle'[c][d] = handle[c][d]
  PROVE  DocInv(d, M)'
  <1>1. Known(d, M)' = Known(d, M)
    BY DEF Known
  <1>2. Versions(d)' = Versions(d)
    BY DEF Versions, Leaves, Exists
  <1>3. Told(Known(d, M))' /\ OneVersion(d, M)'
    BY <1>1, <1>2 DEF DocInv, Told, OneVersion
  <1>4. \A r \in Replica : Single(r, d, M)' <=> Single(r, d, M)
    BY <1>1 DEF Single, Latest
  <1>5. \A r \in Replica : InConflict(r, d, M)' <=> InConflict(r, d, M)
    BY <1>1 DEF InConflict, Latest, Covers
  <1>6. \A c \in Client : Follows(c, d) => Follows(c, d)'
    BY HomeAssumption DEF Follows, Covers
  <1>7. QED
    BY <1>3, <1>4, <1>5, <1>6 DEF DocInv

\* What is known after a step, given what it writes.
LEMMA KnownAfter ==
  ASSUME NEW d \in Doc, NEW M, NEW K, Name(NoRow) \in K, \A x \in M : Name(x) \in K,
         \A r \in Replica : Name(document'[r][d]) \in K,
         \A r \in Replica : \A x \in conflicts'[r][d] : Name(x) \in K,
         \A c \in Client : Name(handle'[c][d]) \in K
  PROVE  Known(d, M)' \subseteq K
  <1> DEFINE all == {NoRow} \cup {document'[r][d] : r \in Replica}
                    \cup (UNION {conflicts'[r][d] : r \in Replica})
                    \cup {handle'[c][d] : c \in Client} \cup M
  <1>1. \A x \in all : Name(x) \in K
    <2> SUFFICES ASSUME NEW x \in all PROVE Name(x) \in K
      OBVIOUS
    <2>1. \/ x = NoRow
          \/ \E r \in Replica : x = document'[r][d] \/ x \in conflicts'[r][d]
          \/ \E c \in Client : x = handle'[c][d]
          \/ x \in M
      OBVIOUS
    <2> HIDE DEF all
    <2>2. QED
      BY <2>1
  <1>2. Known(d, M)' = {Name(x) : x \in all}
    BY DEF Known
  <1> HIDE DEF all
  <1>3. QED
    BY <1>1, <1>2

\* Nothing that is held is new on its way, and nothing is when it arrives.
LEMMA CarriedFewer ==
  ASSUME NEW d \in Doc, NEW M, NEW N, N \subseteq M \cup Versions(d), DocInv(d, M)
  PROVE  DocInv(d, N)
  <1>1. \A v \in Versions(d) : \E r \in Replica : v = document[r][d] \/ v \in conflicts[r][d]
    BY DEF Versions, Leaves
  <1>2. \A v \in Versions(d) : Name(v) \in Known(d, M)
    BY <1>1 DEF Known
  <1>3. Known(d, N) \subseteq Known(d, M)
    <2> SUFFICES ASSUME NEW n \in Known(d, N) PROVE n \in Known(d, M)
      OBVIOUS
    <2>1. PICK x : /\ n = Name(x)
                   /\ \/ x \in N
                      \/ x \in {NoRow} \cup {document[r][d] : r \in Replica}
                              \cup (UNION {conflicts[r][d] : r \in Replica})
                              \cup {handle[c][d] : c \in Client}
      BY DEF Known
    <2>2. CASE x \in Versions(d)
      BY <1>2, <2>1, <2>2
    <2>3. CASE x \notin Versions(d)
      BY <2>1, <2>3 DEF Known
    <2>4. QED
      BY <2>2, <2>3
  <1>4. Told(Known(d, N))
    BY <1>3 DEF DocInv, Told
  <1>5. OneVersion(d, N)
    BY DEF DocInv, OneVersion
  <1>6. \A r \in Replica : (Single(r, d, M) => Single(r, d, N)) /\ (InConflict(r, d, M) => InConflict(r, d, N))
    BY <1>3 DEF Single, InConflict, Latest
  <1>7. QED
    BY <1>4, <1>5, <1>6 DEF DocInv

\* Replica r makes a version of d that covers all it had.
Made(r, d, v, M) ==
  /\ v \in Version /\ v.rev # EmptyClock
  /\ \E U \in SUBSET Known(d, M) : MadeOf(r, Known(d, M), U, Name(v))
  /\ Covers(v.rev, document[r][d].rev)
  /\ \A x \in conflicts[r][d] : Covers(v.rev, x.rev)
  /\ WriteDoc(r, d, v)
  /\ conflicts' = [conflicts EXCEPT ![r][d] = {}]
  /\ \A c \in Client :
       \/ handle'[c][d] = handle[c][d]
       \/ Home[c] = r /\ Name(handle'[c][d]) = Name(v)

\* A version made of what is known keeps the document as it should be, and
\* descends from all the edits of what it replaces.
LEMMA MadeDoc ==
  ASSUME IInv, NEW d \in Doc, NEW M \in SUBSET Version, DocInv(d, M),
         NEW r \in Replica, NEW v, Made(r, d, v, M)
  PROVE  /\ DocInv(d, M)'
         /\ document[r][d].past \subseteq v.past
         /\ \A x \in conflicts[r][d] : x.past \subseteq v.past
  <1> DEFINE K == Known(d, M)
             L == K \cup {Name(v)}
  <1>1. /\ K \in SUBSET Named
        /\ Name(NoRow) \in K
        /\ \A w \in Versions(d) : w \in Version /\ Name(w) \in K
        /\ \A q \in Replica : Name(document[q][d]) \in K
        /\ \A q \in Replica : \A x \in conflicts[q][d] : Name(x) \in K
        /\ \A c \in Client : Name(handle[c][d]) \in K
        /\ \A x \in M : x \in Version /\ Name(x) \in K
    BY KnownNames
  <1>2. PICK U \in SUBSET K : MadeOf(r, K, U, Name(v))
    BY DEF Made
  <1>3. Name(v) \in Named /\ v.rev \in Clock
    BY DEF Made, Version, Name, Named
  <1>4. /\ document'[r][d] = v /\ conflicts'[r][d] = {}
        /\ \A q \in Replica \ {r} : document'[q][d] = document[q][d] /\ conflicts'[q][d] = conflicts[q][d]
    BY DEF Made, WriteDoc, IInv, TypeOK
  <1>5. Known(d, M)' \subseteq L
    <2> HIDE DEF K
    <2>1. \A q \in Replica : Name(document'[q][d]) \in L
      BY <1>1, <1>4
    <2>2. \A q \in Replica : \A x \in conflicts'[q][d] : Name(x) \in L
      BY <1>1, <1>4
    <2>3. \A c \in Client : Name(handle'[c][d]) \in L
      BY <1>1 DEF Made
    <2>4. Name(NoRow) \in L /\ \A x \in M : Name(x) \in L
      BY <1>1
    <2> HIDE DEF L
    <2>5. QED
      BY <2>1, <2>2, <2>3, <2>4, KnownAfter
  <1>6. Told(K)
    BY DEF DocInv
  <1> HIDE DEF K
  <1>7. Told(L)
    BY <1>1, <1>2, <1>3, <1>6, MadeIsTold
  <1>8. Told(Known(d, M)')
    BY <1>1, <1>2, <1>3, <1>5, <1>6, MadeIsTold
  <1>9. L \in SUBSET Named /\ Name(v) \in L
    BY <1>1, <1>3
  <1>10. document[r][d].past \subseteq v.past
    <2>1. Name(document[r][d]) \in L /\ Covers(Name(v).rev, Name(document[r][d]).rev)
      BY <1>1 DEF Made, Name
    <2>2. QED
      BY <1>7, <1>9, <2>1, ToldIsHistory DEF Name
  <1>11. \A x \in conflicts[r][d] : x.past \subseteq v.past
    <2> SUFFICES ASSUME NEW x \in conflicts[r][d] PROVE x.past \subseteq v.past
      OBVIOUS
    <2>1. Name(x) \in L /\ Covers(Name(v).rev, Name(x).rev)
      BY <1>1 DEF Made, Name
    <2>2. QED
      BY <1>7, <1>9, <2>1, ToldIsHistory DEF Name
  <1>12. /\ Latest(r, Known(d, M)', v.rev)
         /\ \A q \in Replica \ {r}, k \in Clock : Latest(q, K, k) => Latest(q, Known(d, M)', k)
    <2>1. /\ Latest(r, Known(d, M)', Name(v).rev)
          /\ \A q \in Replica \ {r}, k \in Clock : Latest(q, K, k) => Latest(q, Known(d, M)', k)
      BY <1>1, <1>2, <1>3, <1>5, LatestKept
    <2>2. QED
      BY <2>1 DEF Name
  <1>13. \A q \in Replica : document[q][d] \in Version /\ document[q][d].rev \in Clock
                            /\ conflicts[q][d] \subseteq Version
    BY Rows DEF Version
  <1>14. \A q \in Replica : (Single(q, d, M) \/ InConflict(q, d, M))'
    <2>1. Single(r, d, M)'
      BY <1>4, <1>12 DEF Single
    <2>2. ASSUME NEW q \in Replica \ {r}, Single(q, d, M)
          PROVE  Single(q, d, M)'
      BY <1>4, <1>12, <1>13, <2>2 DEF Single, K
    <2>3. ASSUME NEW q \in Replica \ {r}, InConflict(q, d, M)
          PROVE  InConflict(q, d, M)'
      <3>1. PICK c \in conflicts[q][d] :
              /\ conflicts[q][d] = {c}
              /\ Latest(q, K, c.rev)
              /\ ~Covers(c.rev, document[q][d].rev) /\ ~Covers(document[q][d].rev, c.rev)
              /\ \A s \in Replica : Covers(document[s][d].rev, document[q][d].rev)
        BY <2>3 DEF InConflict, K
      <3>2. Latest(q, Known(d, M)', c.rev)
        BY <1>12, <1>13, <3>1 DEF Version
      <3>3. Covers(v.rev, document[q][d].rev)
        BY <1>3, <1>13, <3>1, CoversTransitive DEF Made
      <3>4. \A s \in Replica : Covers(document'[s][d].rev, document'[q][d].rev)
        BY <1>4, <3>1, <3>3
      <3>5. QED
        BY <1>4, <3>1, <3>2, <3>4 DEF InConflict, Covers
    <2>4. QED
      BY <2>1, <2>2, <2>3 DEF DocInv
  <1>15. OneVersion(d, M)'
    <2>1. \A w \in Versions(d)' : w = v \/ w \in Versions(d)
      BY <1>4 DEF Versions, Leaves, Exists
    <2>2. \A w \in Versions(d) \cup M : w.rev # v.rev
      <3>1. \A x \in K : x.rev[r] < Name(v).rev[r]
        BY <1>1, <1>2, <1>3, MadeIsLatest
      <3>2. \A w \in Versions(d) \cup M : w.rev[r] < v.rev[r]
        BY <1>1, <3>1 DEF Name
      <3>3. v.rev[r] \in Nat
        BY <1>3 DEF Clock
      <3>4. QED
        BY <3>2, <3>3
    <2>3. \A w, x \in Versions(d) \cup M : w.rev = x.rev => w = x
      BY DEF DocInv, OneVersion
    <2>4. \A w, x \in Versions(d)' \cup M : w.rev = x.rev => w = x
      BY <2>1, <2>2, <2>3
    <2>5. QED
      BY <2>4 DEF OneVersion
  <1>16. ASSUME NEW c \in Client
         PROVE  Follows(c, d)'
    <2>1. Home[c] \in Replica /\ handle[c][d].rev \in Clock
      BY HomeAssumption DEF IInv, TypeOK, Handle
    <2>2. CASE Home[c] = r /\ Name(handle'[c][d]) = Name(v)
      <3>1. Covers(v.rev, handle'[c][d].rev)
        BY <1>3, <2>2, CoversReflexive DEF Name
      <3>2. QED
        BY <1>4, <2>2, <3>1 DEF Follows, Covers
    <2>3. CASE Home[c] = r /\ handle'[c][d] = handle[c][d]
      <3>1. \A x \in conflicts[r][d] : x.rev \in Clock
        BY <1>13 DEF Version
      <3>2. ~handle[c][d].has_conflicts => Covers(v.rev, handle[c][d].rev)
        BY <1>3, <1>13, <2>1, <2>3, <3>1, CoversTransitive DEF DocInv, Follows, Made
      <3>3. QED
        BY <1>4, <2>3, <3>2 DEF Follows, Covers
    <2>4. CASE Home[c] # r
      BY <1>4, <2>1, <2>4 DEF DocInv, Follows, Covers, Made
    <2>5. QED
      BY <2>2, <2>3, <2>4 DEF Made
  <1>17. Told(Known(d, M))'
    BY <1>8 DEF Told
  <1>18. QED
    BY <1>10, <1>11, <1>14, <1>15, <1>16, <1>17 DEF DocInv

\* Replica r takes a version v of d, which is newer than its own: what it had
\* in conflict is covered too, or stays in conflict. Or the two are concurrent,
\* and its own stays in conflict with it.
TookNewer(r, d, v) ==
  /\ Covers(v.rev, document[r][d].rev)
  /\ \/ /\ \A x \in conflicts[r][d] : Covers(v.rev, x.rev)
        /\ conflicts' = [conflicts EXCEPT ![r][d] = {}]
     \/ /\ \A x \in conflicts[r][d] : ~Covers(v.rev, x.rev)
        /\ conflicts[r][d] # {}
        /\ UNCHANGED conflicts

TookConflicting(r, d, v) ==
  /\ ~Covers(v.rev, document[r][d].rev)
  /\ ~Covers(document[r][d].rev, v.rev)
  /\ conflicts[r][d] = {}
  /\ conflicts' = [conflicts EXCEPT ![r][d] = {document[r][d]}]

Took(r, d, v) ==
  /\ v \in Version /\ v.rev # EmptyClock
  /\ WriteDoc(r, d, v)
  /\ TookNewer(r, d, v) \/ TookConflicting(r, d, v)
  /\ UNCHANGED handle

\* Replica r may keep a version in conflict with v: the other replica has v or
\* a newer version, and if that is in conflict there, it is v.
Ceded(r, d, v) ==
  \A q \in Replica \ {r} :
    /\ Covers(document[q][d].rev, v.rev)
    /\ conflicts[q][d] # {} => Covers(v.rev, document[q][d].rev)

\* So does a version taken from the other replica, with what stays in conflict.
LEMMA TookDoc ==
  ASSUME IInv, NEW d \in Doc, NEW M \in SUBSET Version, DocInv(d, M),
         NEW r \in Replica, NEW v \in Versions(d) \cup M, Took(r, d, v),
         conflicts'[r][d] # {} => Ceded(r, d, v)
  PROVE  /\ DocInv(d, M)'
         /\ \A x \in Leaves(r, d) : \E w \in Leaves(r, d)' : x.past \subseteq w.past
  <1> DEFINE K == Known(d, M)
             left == conflicts'[r][d]
  <1>1. /\ K \in SUBSET Named
        /\ Name(NoRow) \in K
        /\ \A w \in Versions(d) : w \in Version /\ Name(w) \in K
        /\ \A q \in Replica : Name(document[q][d]) \in K
        /\ \A q \in Replica : \A x \in conflicts[q][d] : Name(x) \in K
        /\ \A c \in Client : Name(handle[c][d]) \in K
        /\ \A x \in M : Name(x) \in K
    BY KnownNames
  <1>2. /\ \A q \in Replica : document[q][d] \in Version /\ document[q][d].rev \in Clock
                              /\ conflicts[q][d] \subseteq Version
        /\ v \in Version /\ v.rev \in Clock /\ Name(v) \in K
    BY <1>1, Rows DEF Version, Took
  <1>3. /\ document'[r][d] = v
        /\ \A q \in Replica \ {r} : document'[q][d] = document[q][d] /\ conflicts'[q][d] = conflicts[q][d]
        /\ \A c \in Client : handle'[c][d] = handle[c][d]
    BY DEF Took, TookNewer, TookConflicting, WriteDoc, IInv, TypeOK
  <1>4. \/ /\ left = {} /\ Covers(v.rev, document[r][d].rev)
           /\ \A x \in conflicts[r][d] : Covers(v.rev, x.rev)
        \/ /\ left = conflicts[r][d] /\ left # {} /\ Covers(v.rev, document[r][d].rev)
           /\ \A x \in conflicts[r][d] : ~Covers(v.rev, x.rev)
        \/ /\ left = {document[r][d]} /\ conflicts[r][d] = {}
           /\ ~Covers(v.rev, document[r][d].rev) /\ ~Covers(document[r][d].rev, v.rev)
    BY DEF Took, TookNewer, TookConflicting, IInv, TypeOK
  <1>5. Known(d, M)' \subseteq K
    <2> HIDE DEF K
    <2>1. \A q \in Replica : Name(document'[q][d]) \in K
      BY <1>1, <1>2, <1>3
    <2>2. \A q \in Replica : \A x \in conflicts'[q][d] : Name(x) \in K
      BY <1>1, <1>3, <1>4
    <2>3. \A c \in Client : Name(handle'[c][d]) \in K
      BY <1>1, <1>3
    <2>4. QED
      BY <1>1, <2>1, <2>2, <2>3, KnownAfter
  <1>6. Told(K) /\ OneVersion(d, M)
        /\ (\A q \in Replica : Single(q, d, M) \/ InConflict(q, d, M))
        /\ \A c \in Client : Follows(c, d)
    BY DEF DocInv
  <1>7. Told(Known(d, M))'
    <2>1. Told(Known(d, M)')
      BY <1>5, <1>6 DEF Told
    <2>2. QED
      BY <2>1 DEF Told
  <1>8. \A q \in Replica : \A k : Latest(q, K, k) => Latest(q, Known(d, M)', k)
    BY <1>5 DEF Latest
  <1>9. Covers(v.rev, v.rev)
    BY <1>2, CoversReflexive
  <1>10. \A q \in Replica : left # {} => Covers(document'[q][d].rev, v.rev)
    BY <1>3, <1>9 DEF Ceded
  <1>11. OneVersion(d, M)'
    <2>1. left = {document[r][d]} => Exists(r, d)
      <3>1. Exists(r, d) \/ document[r][d].rev = EmptyClock
        BY DEF Exists
      <3>2. Covers(v.rev, EmptyClock)
        BY <1>2, CoversReflexive
      <3>3. QED
        BY <1>4, <3>1, <3>2 DEF ConflictsHaveDocument, IInv
    <2>2. \A w \in left : w \in Versions(d)
      BY <1>4, <2>1 DEF Versions, Leaves
    <2>3. \A w \in Versions(d)' : w \in Versions(d) \cup M
      BY <1>3, <2>2 DEF Versions, Leaves, Exists
    <2>4. QED
      BY <1>6, <2>3 DEF OneVersion
  <1>12. (Single(r, d, M) \/ InConflict(r, d, M))'
    <2>1. CASE left = {} /\ Covers(v.rev, document[r][d].rev)
               /\ \A x \in conflicts[r][d] : Covers(v.rev, x.rev)
      <3>1. PICK k \in Clock : Latest(r, K, k) /\ Covers(v.rev, k)
        BY <1>2, <1>6, <2>1 DEF Single, InConflict, Version, K
      <3>2. Latest(r, K, v.rev)
        <4>1. v.rev[r] \in Nat /\ k[r] \in Nat /\ k[r] <= v.rev[r]
          BY <1>2, <3>1 DEF Clock, Covers
        <4>2. \A x \in K : x.rev[r] \in Nat /\ x.rev[r] <= k[r]
          BY <1>1, <3>1 DEF Latest, Named, Clock
        <4> HIDE DEF K
        <4>3. QED
          BY <4>1, <4>2 DEF Latest
      <3>3. Latest(r, Known(d, M)', v.rev)
        BY <1>8, <3>2
      <3>4. QED
        BY <1>3, <2>1, <3>3 DEF Single
    <2>2. CASE left = conflicts[r][d] /\ left # {} /\ Covers(v.rev, document[r][d].rev)
               /\ \A x \in conflicts[r][d] : ~Covers(v.rev, x.rev)
      <3>1. PICK c \in conflicts[r][d] :
              /\ conflicts[r][d] = {c}
              /\ Latest(r, K, c.rev)
              /\ ~Covers(c.rev, document[r][d].rev)
        BY <1>6, <2>2 DEF Single, InConflict, K
      <3>2. ~Covers(c.rev, v.rev)
        BY <1>2, <2>2, <3>1, CoversTransitive DEF Version
      <3>3. Latest(r, Known(d, M)', c.rev)
        BY <1>8, <3>1
      <3>4. QED
        BY <1>3, <1>10, <2>2, <3>1, <3>2, <3>3 DEF InConflict, Covers
    <2>3. CASE left = {document[r][d]} /\ conflicts[r][d] = {}
               /\ ~Covers(v.rev, document[r][d].rev) /\ ~Covers(document[r][d].rev, v.rev)
      <3>1. Latest(r, Known(d, M)', document[r][d].rev)
        BY <1>6, <1>8, <2>3 DEF Single, InConflict, K
      <3>2. QED
        BY <1>3, <1>10, <2>3, <3>1 DEF InConflict, Covers
    <2>4. QED
      BY <1>4, <2>1, <2>2, <2>3
  <1>13. ASSUME NEW q \in Replica \ {r}
         PROVE  (Single(q, d, M) \/ InConflict(q, d, M))'
    <2>1. CASE Single(q, d, M)
      BY <1>3, <1>8, <2>1 DEF Single, K
    <2>2. CASE InConflict(q, d, M)
      <3>1. PICK c \in conflicts[q][d] :
              /\ conflicts[q][d] = {c}
              /\ Latest(q, K, c.rev)
              /\ ~Covers(c.rev, document[q][d].rev) /\ ~Covers(document[q][d].rev, c.rev)
              /\ \A s \in Replica : Covers(document[s][d].rev, document[q][d].rev)
        BY <2>2 DEF InConflict, K
      <3>2. Latest(q, Known(d, M)', c.rev)
        BY <1>8, <3>1
      <3>3. Covers(v.rev, document[q][d].rev)
        <4>1. CASE Covers(v.rev, document[r][d].rev)
          BY <1>2, <3>1, <4>1, CoversTransitive
        <4>2. CASE ~Covers(v.rev, document[r][d].rev)
          BY <1>4, <3>1, <4>2 DEF Ceded
        <4>3. QED
          BY <4>1, <4>2
      <3>4. \A s \in Replica : Covers(document'[s][d].rev, document'[q][d].rev)
        BY <1>3, <3>1, <3>3
      <3>5. QED
        BY <1>3, <3>1, <3>2, <3>4 DEF InConflict, Covers
    <2>3. QED
      BY <1>6, <2>1, <2>2
  <1>14. ASSUME NEW c \in Client
         PROVE  Follows(c, d)'
    <2>1. Home[c] \in Replica /\ handle[c][d].rev \in Clock /\ handle'[c][d] = handle[c][d]
      BY <1>3, HomeAssumption DEF IInv, TypeOK, Handle
    <2>2. CASE Home[c] # r
      BY <1>3, <1>6, <2>1, <2>2 DEF Follows, Covers
    <2>3. CASE Home[c] = r
      <3> SUFFICES ASSUME ~handle[c][d].has_conflicts
                   PROVE  \/ left = {} /\ Covers(v.rev, handle[c][d].rev)
                          \/ \E x \in left : Covers(x.rev, handle[c][d].rev)
        BY <1>3, <2>1, <2>3 DEF Follows, Covers
      <3>1. \/ conflicts[r][d] = {} /\ Covers(document[r][d].rev, handle[c][d].rev)
            \/ \E x \in conflicts[r][d] : Covers(x.rev, handle[c][d].rev)
        BY <1>6, <2>3 DEF Follows
      <3>2. CASE left = {} /\ Covers(v.rev, document[r][d].rev)
                 /\ \A x \in conflicts[r][d] : Covers(v.rev, x.rev)
        BY <1>2, <2>1, <3>1, <3>2, CoversTransitive DEF Version
      <3>3. CASE left = conflicts[r][d] /\ left # {}
        BY <3>1, <3>3
      <3>4. CASE left = {document[r][d]} /\ conflicts[r][d] = {}
        BY <3>1, <3>4
      <3>5. QED
        BY <1>4, <3>2, <3>3, <3>4
    <2>4. QED
      BY <2>2, <2>3
  <1>15. ASSUME NEW x \in Leaves(r, d)
         PROVE  \E w \in Leaves(r, d)' : x.past \subseteq w.past
    <2>1. x \in Versions(d) /\ (x = document[r][d] \/ x \in conflicts[r][d])
      BY <1>15 DEF Versions, Leaves
    <2>2. Leaves(r, d)' = {v} \cup left
      BY <1>3 DEF Leaves, Exists, Took
    <2>3. Covers(v.rev, x.rev) => x.past \subseteq v.past
      <3>1. Name(x) \in K /\ Name(v) \in K
        BY <1>1, <1>2, <2>1
      <3>2. Covers(v.rev, x.rev) => Covers(Name(v).rev, Name(x).rev)
        BY DEF Name
      <3>3. QED
        BY <1>1, <1>6, <3>1, <3>2, ToldIsHistory DEF Name
    <2>4. QED
      BY <1>4, <2>1, <2>2, <2>3
  <1>16. \A q \in Replica : (Single(q, d, M) \/ InConflict(q, d, M))'
    BY <1>12, <1>13
  <1>17. QED
    BY <1>7, <1>11, <1>14, <1>15, <1>16 DEF DocInv
-----------------------------------------------------------------------------
(***************************************************************************)
(* What each step of careful clients does to a document.                   *)
(***************************************************************************)

\* What a step must do: it leaves the invariant, and an edit descends from all
\* the edits of the document it replaces.
CareIsKept(C) == CareInv(C)' /\ EditBuildsOnCurrent

\* A step that changes one document of one replica, and loses no edit of it.
LEMMA OneDocument ==
  ASSUME IInv, NEW C, CareInv(C), NEW r \in Replica, NEW d \in Doc, DocInv(d, C[d])',
         \A q \in Replica, e \in Doc : q # r \/ e # d =>
           document'[q][e] = document[q][e] /\ conflicts'[q][e] = conflicts[q][e],
         \A c \in Client, e \in Doc : e # d => handle'[c][e] = handle[c][e],
         document'[r][d] = NoRow \/ Exists(r, d)',
         \A x \in Leaves(r, d) : \E w \in Leaves(r, d)' : x.past \subseteq w.past,
         \/ edits' = edits
         \/ /\ edits' = edits + 1
            /\ \E w \in Leaves(r, d)' : edits + 1 \in w.past
  PROVE  CareInv(C)'
  <1>1. \A e \in Doc : DocInv(e, C[e])'
    <2> SUFFICES ASSUME NEW e \in Doc, e # d PROVE DocInv(e, C[e])'
      OBVIOUS
    <2>1. DocInv(e, C[e])
      BY DEF CareInv
    <2>2. QED
      BY <2>1, DocKept
  <1>2. RowsExist'
    BY DEF CareInv, RowsExist, Exists
  <1>3. \A q \in Replica, e \in Doc : \A x \in Leaves(q, e) :
          \E w \in Leaves(q, e)' : x.past \subseteq w.past
    BY DEF Leaves, Exists
  <1>4. NoLostEdit'
    <2> SUFFICES ASSUME NEW n \in 1..edits'
                 PROVE  \E e \in Doc : \E w \in Versions(e)' : n \in w.past
      BY DEF NoLostEdit
    <2>1. edits \in Nat
      BY DEF IInv, TypeOK
    <2>2. CASE n \in 1..edits
      <3>1. PICK e \in Doc : \E x \in Versions(e) : n \in x.past
        BY <2>2 DEF CareInv, NoLostEdit
      <3>2. PICK q \in Replica : \E x \in Leaves(q, e) : n \in x.past
        BY <3>1 DEF Versions
      <3>3. \E w \in Leaves(q, e)' : n \in w.past
        BY <1>3, <3>2
      <3>4. QED
        BY <3>3 DEF Versions
    <2>3. CASE edits' = edits + 1 /\ n = edits + 1
      <3>1. \E w \in Leaves(r, d)' : n \in w.past
        BY <2>1, <2>3
      <3>2. QED
        BY <3>1 DEF Versions
    <2>4. QED
      BY <2>1, <2>2, <2>3
  <1>5. CareInv(C)' = (RowsExist' /\ NoLostEdit' /\ \A e \in Doc : DocInv(e, C[e])')
    BY DEF CareInv
  <1>6. QED
    BY <1>1, <1>2, <1>4, <1>5

\* A step that makes a version.
LEMMA MadeStep ==
  ASSUME IInv, NEW C \in [Doc -> SUBSET Version], CareInv(C),
         NEW r \in Replica, NEW d \in Doc, NEW v, Made(r, d, v, C[d]),
         \A c \in Client, e \in Doc : e # d => handle'[c][e] = handle[c][e],
         edits' = edits \/ (edits' = edits + 1 /\ edits + 1 \in v.past)
  PROVE  CareIsKept(C)
  <1>1. DocInv(d, C[d])
    BY DEF CareInv
  <1>2. /\ DocInv(d, C[d])'
        /\ document[r][d].past \subseteq v.past
        /\ \A x \in conflicts[r][d] : x.past \subseteq v.past
    BY <1>1, MadeDoc
  <1>3. /\ document'[r][d] = v /\ conflicts'[r][d] = {}
        /\ \A q \in Replica, e \in Doc : q # r \/ e # d =>
             document'[q][e] = document[q][e] /\ conflicts'[q][e] = conflicts[q][e]
    BY DEF Made, WriteDoc, IInv, TypeOK
  <1>4. Leaves(r, d)' = {v} /\ Exists(r, d)'
    BY <1>3 DEF Leaves, Exists, Made
  <1>5. \A x \in Leaves(r, d) : \E w \in Leaves(r, d)' : x.past \subseteq w.past
    BY <1>2, <1>4 DEF Leaves
  <1>6. CareInv(C)'
    <2>1. edits' = edits \/ (edits' = edits + 1 /\ \E w \in Leaves(r, d)' : edits + 1 \in w.past)
      BY <1>4
    <2>2. QED
      BY <1>2, <1>3, <1>4, <1>5, <2>1, OneDocument
  <1>7. \A q \in Replica, e \in Doc : document[q][e].past \subseteq document'[q][e].past
    BY <1>2, <1>3
  <1>8. QED
    BY <1>6, <1>7 DEF CareIsKept, EditBuildsOnCurrent

\* A step that takes the other replica's.
LEMMA TookStep ==
  ASSUME IInv, NEW C \in [Doc -> SUBSET Version], CareInv(C),
         NEW r \in Replica, NEW d \in Doc, NEW v \in Versions(d) \cup C[d], Took(r, d, v),
         conflicts'[r][d] # {} => Ceded(r, d, v), edits' = edits
  PROVE  CareIsKept(C)
  <1>1. DocInv(d, C[d])
    BY DEF CareInv
  <1>2. /\ DocInv(d, C[d])'
        /\ \A x \in Leaves(r, d) : \E w \in Leaves(r, d)' : x.past \subseteq w.past
    BY <1>1, TookDoc
  <1>3. /\ document'[r][d] = v
        /\ \A q \in Replica, e \in Doc : q # r \/ e # d =>
             document'[q][e] = document[q][e] /\ conflicts'[q][e] = conflicts[q][e]
    BY DEF Took, TookNewer, TookConflicting, WriteDoc, IInv, TypeOK
  <1>4. Exists(r, d)'
    BY <1>3 DEF Exists, Took
  <1>5. \A c \in Client, e \in Doc : e # d => handle'[c][e] = handle[c][e]
    BY DEF Took
  <1>6. CareInv(C)'
    BY <1>2, <1>3, <1>4, <1>5, OneDocument
  <1>7. QED
    BY <1>6 DEF CareIsKept, EditBuildsOnCurrent

\* A step that changes nothing of what is held or has been read.
LEMMA CareKept ==
  ASSUME NEW C, CareInv(C), UNCHANGED <<storeVars, handle, edits>>
  PROVE  CareIsKept(C)
  <1>1. \A d \in Doc : DocInv(d, C[d]) => DocInv(d, C[d])'
    BY DocKept DEF storeVars
  <1>2. RowsExist' /\ NoLostEdit'
    BY DEF CareInv, RowsExist, NoLostEdit, Exists, Versions, Leaves, storeVars
  <1>3. QED
    BY <1>1, <1>2 DEF CareIsKept, CareInv, EditBuildsOnCurrent

\* A step of a client that only reads, or forgets what it has read.
LEMMA ReadStep ==
  ASSUME IInv, NEW C \in [Doc -> SUBSET Version], CareInv(C),
         NEW c \in Client, NEW d \in Doc, NEW h \in Handle,
         UNCHANGED <<storeVars, edits>>,
         handle' = [handle EXCEPT ![c][d] = h],
         Name(h) \in Known(d, C[d]), Follows(c, d)'
  PROVE  CareIsKept(C)
  <1>1. DocInv(d, C[d])
    BY DEF CareInv
  <1>2. /\ document' = document /\ conflicts' = conflicts
        /\ \A b \in Client, e \in Doc : b # c \/ e # d => handle'[b][e] = handle[b][e]
        /\ handle'[c][d] = h
    BY DEF storeVars, IInv, TypeOK
  <1> DEFINE K == Known(d, C[d])
  <1>3. /\ Name(NoRow) \in K
        /\ \A q \in Replica : Name(document[q][d]) \in K
        /\ \A q \in Replica : \A x \in conflicts[q][d] : Name(x) \in K
        /\ \A b \in Client : Name(handle[b][d]) \in K
        /\ \A x \in C[d] : Name(x) \in K
    BY KnownNames
  <1>4. Name(h) \in K
    OBVIOUS
  <1> HIDE DEF K
  <1>5. Known(d, C[d])' \subseteq K
    <2>1. \A q \in Replica : Name(document'[q][d]) \in K
      BY <1>2, <1>3
    <2>2. \A q \in Replica : \A x \in conflicts'[q][d] : Name(x) \in K
      BY <1>2, <1>3
    <2>3. \A b \in Client : Name(handle'[b][d]) \in K
      BY <1>2, <1>3, <1>4
    <2>4. QED
      BY <1>3, <2>1, <2>2, <2>3, KnownAfter
  <1>6. Told(Known(d, C[d]))'
    <2>1. Told(K)
      BY <1>1 DEF DocInv, K
    <2>2. Told(Known(d, C[d])')
      BY <1>5, <2>1 DEF Told
    <2>3. QED
      BY <2>2 DEF Told
  <1>7. OneVersion(d, C[d])'
    <2>1. Versions(d)' = Versions(d)
      BY <1>2 DEF Versions, Leaves, Exists
    <2>2. QED
      BY <1>1, <2>1 DEF DocInv, OneVersion
  <1>8. \A q \in Replica : (Single(q, d, C[d]) \/ InConflict(q, d, C[d]))'
    <2>1. \A q \in Replica : \A k : Latest(q, Known(d, C[d]), k) => Latest(q, Known(d, C[d])', k)
      BY <1>5 DEF Latest, K
    <2>2. \A q \in Replica : Single(q, d, C[d]) => Single(q, d, C[d])'
      BY <1>2, <2>1 DEF Single
    <2>3. \A q \in Replica : InConflict(q, d, C[d]) => InConflict(q, d, C[d])'
      BY <1>2, <2>1 DEF InConflict, Covers
    <2>4. QED
      BY <1>1, <2>2, <2>3 DEF DocInv
  <1>9. \A b \in Client : Follows(b, d)'
    BY <1>1, <1>2, HomeAssumption DEF DocInv, Follows, Covers
  <1>10. DocInv(d, C[d])'
    BY <1>6, <1>7, <1>8, <1>9 DEF DocInv
  <1>11. \A e \in Doc : DocInv(e, C[e])'
    <2> SUFFICES ASSUME NEW e \in Doc, e # d PROVE DocInv(e, C[e])'
      BY <1>10
    <2>1. DocInv(e, C[e])
      BY DEF CareInv
    <2>2. QED
      BY <1>2, <2>1, DocKept
  <1>12. RowsExist' /\ NoLostEdit'
    BY <1>2 DEF CareInv, RowsExist, NoLostEdit, Exists, Versions, Leaves
  <1>13. QED
    BY <1>11, <1>12 DEF CareIsKept, CareInv, EditBuildsOnCurrent
-----------------------------------------------------------------------------
(***************************************************************************)
(* Each operation of careful clients is one of these.                      *)
(***************************************************************************)

\* Of versions that clocks tell apart, one covers another when it is newer.
LEMMA CoversIsNewer ==
  ASSUME NEW v \in Version, NEW w \in Version
  PROVE  /\ IsNewer(v.rev, w.rev) <=> Covers(v.rev, w.rev) /\ v.rev # w.rev
         /\ Covers(v.rev, w.rev) /\ Covers(w.rev, v.rev) => v.rev = w.rev
         /\ Covers(v.rev, v.rev)
         /\ Covers(v.rev, EmptyClock)
  BY IsNewerIsStrictOrder, CoversAntisymmetric, CoversReflexive DEF Version

\* Merging a version with the replica's own makes one (MergedWith).
LEMMA MergedIsMade ==
  ASSUME NEW K \in SUBSET Named, NEW r \in Replica, NEW v \in Version, NEW w \in Version,
         Name(v) \in K, Name(w) \in K, Latest(r, K, w.rev)
  PROVE  \E U \in SUBSET K : MadeOf(r, K, U, Name(MergedWith(v, w, r)))
  <1> DEFINE n == Name(MergedWith(v, w, r))
             U == {Name(v), Name(w)}
  <1>1. v.rev \in Clock /\ w.rev \in Clock
    BY DEF Version
  <1>2. /\ n.rev = Increment(Maximize(v.rev, w.rev), r)
        /\ n.past = v.past \cup w.past
    BY DEF MergedWith, Version, Name
  <1>3. \A q \in Replica : n.rev[q] = Maximize(v.rev, w.rev)[q] + (IF q = r THEN 1 ELSE 0)
    <2>1. Maximize(v.rev, w.rev) \in Clock
      BY <1>1, ClockClosed
    <2>2. \A m \in Clock, q \in Replica : Increment(m, r)[q] = m[q] + (IF q = r THEN 1 ELSE 0)
      BY DEF Increment, Clock
    <2>3. QED
      BY <1>2, <2>1, <2>2
  <1>4. \A q \in Replica : Maximize(v.rev, w.rev)[q] \in {v.rev[q], w.rev[q]}
    BY DEF Maximize
  <1>5. v.rev[r] <= w.rev[r]
    BY DEF Latest, Name
  <1>6. n.rev[r] = w.rev[r] + 1
    BY <1>1, <1>3, <1>5 DEF Maximize, Clock
  <1>7. Name(v).rev = v.rev /\ Name(w).rev = w.rev /\ Name(v).past = v.past /\ Name(w).past = w.past
    BY DEF Name
  <1>8. \A q \in Replica \ {r} : \E u \in U : n.rev[q] = u.rev[q]
    <2> SUFFICES ASSUME NEW q \in Replica \ {r} PROVE n.rev[q] = v.rev[q] \/ n.rev[q] = w.rev[q]
      BY <1>7
    <2>1. n.rev[q] = Maximize(v.rev, w.rev)[q]
      BY <1>1, <1>3, <1>4 DEF Clock
    <2>2. QED
      BY <1>4, <2>1
  <1> HIDE DEF n
  <1>9. MadeOf(r, K, U, n)
    BY <1>2, <1>6, <1>7, <1>8 DEF MadeOf
  <1>10. U \in SUBSET K
    OBVIOUS
  <1> HIDE DEF U
  <1>11. QED
    BY <1>9, <1>10 DEF n

\* u1db__put_doc_if_newer of a version that is held or on its way: it covers a
\* document that has a conflict, and where a conflict may be left the other
\* replica has what is put.
LEMMA PutCare ==
  ASSUME IInv, NEW C \in [Doc -> SUBSET Version], CareInv(C),
         NEW r \in Replica, NEW d \in Doc, NEW v \in Versions(d) \cup C[d], v.rev # EmptyClock,
         NEW save \in BOOLEAN, PutDocIfNewer(r, d, v, save), UNCHANGED <<handle, edits>>,
         conflicts[r][d] # {} => Covers(v.rev, document[r][d].rev),
         conflicts[r][d] # {} \/ save => Ceded(r, d, v)
  PROVE  CareIsKept(C)
  <1> DEFINE stored == document[r][d]
             K == Known(d, C[d])
  <1>1. /\ v \in Version /\ stored \in Version
        /\ conflicts[r][d] \subseteq Version
        /\ conflicts = [conflicts EXCEPT ![r][d] = conflicts[r][d]]
    BY Rows, KnownNames
  <1>2. /\ edits' = edits /\ handle' = handle
        /\ \A c \in Client, e \in Doc : e # d => handle'[c][e] = handle[c][e]
    OBVIOUS
  <1>3. /\ K \in SUBSET Named
        /\ Name(v) \in K /\ Name(stored) \in K
        /\ \A x \in conflicts[r][d] : Name(x) \in K
    BY KnownNames
  <1>4. Single(r, d, C[d]) \/ InConflict(r, d, C[d])
    BY DEF CareInv, DocInv
  <1>5. Took(r, d, v) /\ (conflicts'[r][d] # {} => conflicts[r][d] # {} \/ save) => CareIsKept(C)
    BY <1>2, TookStep
  <1>6. \A n : Made(r, d, n, C[d]) => CareIsKept(C)
    <2> SUFFICES ASSUME NEW n, Made(r, d, n, C[d]) PROVE CareIsKept(C)
      OBVIOUS
    <2>1. edits' = edits \/ (edits' = edits + 1 /\ edits + 1 \in n.past)
      BY <1>2
    <2>2. QED
      BY <1>2, <2>1, MadeStep
  <1>7. UNCHANGED storeVars => CareIsKept(C)
    BY <1>2, CareKept
  <1>8. ASSUME NEW x \in conflicts[r][d], Latest(r, K, x.rev), Covers(v.rev, stored.rev),
               WriteDoc(r, d, MergedWith(v, x, r)), conflicts[r][d] = {x},
               conflicts' = [conflicts EXCEPT ![r][d] = {}]
        PROVE  Made(r, d, MergedWith(v, x, r), C[d])
    <2>1. x \in Version /\ Name(x) \in K
      BY <1>1, <1>3
    <2>2. \E U \in SUBSET K : MadeOf(r, K, U, Name(MergedWith(v, x, r)))
      BY <1>1, <1>3, <1>8, <2>1, MergedIsMade
    <2>3. /\ MergedWith(v, x, r) \in Version
          /\ MergedWith(v, x, r).rev # EmptyClock
          /\ Covers(MergedWith(v, x, r).rev, v.rev)
          /\ Covers(MergedWith(v, x, r).rev, x.rev)
      BY <1>1, <2>1, MergedWithCovers
    <2>4. Covers(MergedWith(v, x, r).rev, stored.rev)
      BY <1>1, <1>8, <2>3, CoversTransitive DEF Version
    <2>5. QED
      BY <1>2, <1>8, <2>2, <2>3, <2>4 DEF Made
  <1>9. CASE PutNewDocument(r, d, v)
    <2>1. stored.rev = EmptyClock
      BY <1>9 DEF PutNewDocument, InsertState, Exists
    <2>2. conflicts[r][d] = {}
      BY <2>1 DEF IInv, ConflictsHaveDocument, Exists
    <2>3. Covers(v.rev, stored.rev)
      BY <1>1, <2>1, CoversIsNewer
    <2>4. conflicts'[r][d] = {} /\ conflicts' = [conflicts EXCEPT ![r][d] = {}]
      BY <1>1, <1>9, <2>2 DEF PutNewDocument
    <2>5. Took(r, d, v)
      BY <1>1, <1>2, <1>9, <2>2, <2>3, <2>4 DEF Took, TookNewer, PutNewDocument
    <2>6. QED
      BY <1>5, <2>4, <2>5
  <1>10. CASE PutKnown(r, d, v)
    BY <1>7, <1>10 DEF PutKnown
  <1>11. CASE PutNewer(r, d, v)
    <2>1. Covers(v.rev, stored.rev)
      BY <1>1, <1>11, CoversIsNewer DEF PutNewer, InsertState
    <2>2. PICK p \in PruneConflicts(r, d, v) :
            conflicts' = [conflicts EXCEPT ![r][d] = p.left] /\ WriteDoc(r, d, p.doc)
      BY <1>11 DEF PutNewer
    <2>3. CASE Prunable(r, d, v) = {}
      <3>1. p.doc = v /\ p.left = conflicts[r][d]
        BY <2>2, <2>3 DEF PruneConflicts
      <3>2. \A x \in conflicts[r][d] : ~Covers(v.rev, x.rev)
        <4> SUFFICES ASSUME NEW x \in conflicts[r][d], Covers(v.rev, x.rev) PROVE FALSE
          OBVIOUS
        <4>1. v.rev = x.rev
          BY <1>1, <2>3, CoversIsNewer DEF Prunable
        <4>2. ~Covers(x.rev, stored.rev)
          BY <1>4 DEF Single, InConflict
        <4>3. QED
          BY <2>1, <4>1, <4>2
      <3>3. TookNewer(r, d, v)
        BY <1>1, <2>1, <2>2, <3>1, <3>2 DEF TookNewer
      <3>4. Took(r, d, v)
        BY <1>1, <1>2, <2>2, <3>1, <3>3 DEF Took
      <3>5. conflicts' = conflicts
        BY <1>1, <2>2, <3>1
      <3>6. QED
        BY <1>5, <3>4, <3>5
    <2>4. CASE Prunable(r, d, v) # {}
      <3>1. PICK x \in Prunable(r, d, v) :
              p = [doc |-> IF IsNewer(v.rev, x.rev) THEN v ELSE MergedWith(v, x, r),
                   left |-> {y \in conflicts[r][d] : y.rev # x.rev}]
        BY <2>2, <2>4 DEF PruneConflicts
      <3>2. x \in conflicts[r][d] /\ x \in Version
        BY <1>1 DEF Prunable
      <3>3. conflicts[r][d] = {x} /\ Latest(r, K, x.rev)
        BY <1>4, <3>2 DEF Single, InConflict
      <3>4. p.left = {}
        BY <3>1, <3>3
      <3>5. CASE IsNewer(v.rev, x.rev)
        <4>1. p.doc = v /\ Covers(v.rev, x.rev)
          BY <1>1, <3>1, <3>2, <3>5, CoversIsNewer
        <4>2. Took(r, d, v)
          BY <1>1, <1>2, <2>1, <2>2, <3>3, <3>4, <4>1 DEF Took, TookNewer
        <4>3. QED
          BY <1>5, <3>3, <4>2
      <3>6. CASE ~IsNewer(v.rev, x.rev)
        <4>1. p.doc = MergedWith(v, x, r)
          BY <3>1, <3>6
        <4>2. QED
          BY <1>6, <1>8, <2>1, <2>2, <3>2, <3>3, <3>4, <4>1
      <3>7. QED
        BY <3>5, <3>6
    <2>5. QED
      BY <2>3, <2>4
  <1>12. InsertState(r, d, v) \in {"merged", "conflicted"} =>
           /\ Exists(r, d)
           /\ Single(r, d, C[d])
           /\ ~Covers(v.rev, stored.rev) /\ ~Covers(stored.rev, v.rev)
    <2> SUFFICES ASSUME InsertState(r, d, v) \in {"merged", "conflicted"}
                 PROVE  /\ Exists(r, d)
                        /\ Single(r, d, C[d])
                        /\ ~Covers(v.rev, stored.rev) /\ ~Covers(stored.rev, v.rev)
      OBVIOUS
    <2>1. /\ Exists(r, d) /\ v.rev # stored.rev
          /\ ~IsNewer(v.rev, stored.rev) /\ ~IsNewer(stored.rev, v.rev)
      BY DEF InsertState
    <2>2. ~Covers(v.rev, stored.rev) /\ ~Covers(stored.rev, v.rev)
      BY <1>1, <2>1, CoversIsNewer
    <2>3. ~InConflict(r, d, C[d])
      BY <2>2 DEF InConflict
    <2>4. QED
      BY <1>4, <2>1, <2>2, <2>3
  <1>13. CASE PutSameContent(r, d, v)
    <2>1. Single(r, d, C[d]) /\ conflicts[r][d] = {} /\ Latest(r, K, stored.rev)
      BY <1>12, <1>13 DEF PutSameContent, Single
    <2>2. \E U \in SUBSET K : MadeOf(r, K, U, Name(MergedWith(v, stored, r)))
      BY <1>1, <1>3, <2>1, MergedIsMade
    <2>3. /\ MergedWith(v, stored, r) \in Version
          /\ MergedWith(v, stored, r).rev # EmptyClock
          /\ Covers(MergedWith(v, stored, r).rev, stored.rev)
      BY <1>1, MergedWithCovers
    <2>4. Made(r, d, MergedWith(v, stored, r), C[d])
      BY <1>1, <1>2, <1>13, <2>1, <2>2, <2>3 DEF Made, PutSameContent
    <2>5. QED
      BY <1>6, <2>4
  <1>14. InsertState(r, d, v) = "conflicted" =>
           \A p \in PruneConflicts(r, d, v) : p.doc = v /\ p.left = {}
    BY <1>12 DEF Single, Prunable, PruneConflicts
  <1>15. CASE save /\ PutConflictSaved(r, d, v)
    <2>1. /\ WriteDoc(r, d, v)
          /\ conflicts' = [conflicts EXCEPT ![r][d] = {stored}]
      BY <1>14, <1>15 DEF PutConflictSaved
    <2>2. Took(r, d, v)
      BY <1>1, <1>2, <1>12, <1>15, <2>1 DEF Took, TookConflicting, PutConflictSaved, Single
    <2>3. QED
      BY <1>5, <1>15, <2>2
  <1>16. CASE PutConflictIgnored(r, d, v)
    <2>1. UNCHANGED storeVars
      BY <1>1, <1>12, <1>14, <1>16 DEF PutConflictIgnored, Single, storeVars
    <2>2. QED
      BY <1>7, <2>1
  <1>17. QED
    BY <1>9, <1>10, <1>11, <1>13, <1>15, <1>16 DEF PutDocIfNewer

\* And so the other replica's document, when it is offered.
LEMMA OfferCare ==
  ASSUME AtMostTwo, IInv, NEW C \in [Doc -> SUBSET Version], CareInv(C),
         NEW r \in Replica, NEW s \in Replica, r # s, NEW d \in Doc,
         NEW save \in BOOLEAN, Offer(s, r, d, save)
  PROVE  CareIsKept(C)
  <1>1. PICK v : v = document[s][d]
    OBVIOUS
  <1>2. /\ v \in Versions(d) /\ v.rev # EmptyClock
        /\ PutDocIfNewer(r, d, v, save) /\ UNCHANGED <<handle, edits>>
    BY <1>1 DEF Offer, Exists, Versions, Leaves
  <1>3. conflicts[r][d] # {} => Covers(v.rev, document[r][d].rev)
    BY <1>1 DEF CareInv, DocInv, Single, InConflict
  <1>4. Ceded(r, d, v)
    <2>1. document[s][d] \in Version /\ Covers(v.rev, v.rev)
      BY <1>1, Rows, CoversReflexive DEF Version
    <2>2. QED
      BY <1>1, <2>1 DEF Ceded, AtMostTwo
  <1>5. QED
    BY <1>2, <1>3, <1>4, PutCare

\* An edit of a document that is not in conflict makes a version.
LEMMA EditIsMade ==
  ASSUME IInv, NEW C \in [Doc -> SUBSET Version], CareInv(C), NEW r \in Replica, NEW d \in Doc,
         conflicts[r][d] = {}, NEW v \in Version,
         v.rev = Increment(document[r][d].rev, r), document[r][d].past \subseteq v.past,
         WriteDoc(r, d, v), UNCHANGED conflicts,
         \A c \in Client :
           handle'[c][d] = handle[c][d] \/ (Home[c] = r /\ Name(handle'[c][d]) = Name(v))
  PROVE  Made(r, d, v, C[d])
  <1> DEFINE old == document[r][d]
             K == Known(d, C[d])
  <1>1. old \in Version /\ old.rev \in Clock /\ conflicts = [conflicts EXCEPT ![r][d] = {}]
    <2>1. old \in Version /\ conflicts = [conflicts EXCEPT ![r][d] = conflicts[r][d]]
      BY Rows
    <2>2. QED
      BY <2>1 DEF Version
  <1>2. K \in SUBSET Named /\ Name(old) \in K
    BY KnownNames
  <1>3. Latest(r, K, old.rev)
    BY DEF CareInv, DocInv, Single, InConflict
  <1>4. v.rev # EmptyClock /\ Covers(v.rev, old.rev)
    BY <1>1, IncrementNotEmpty, IncrementIsNewer
  <1>5. MadeOf(r, K, {Name(old)}, Name(v))
    <2>1. \A q \in Replica : v.rev[q] = old.rev[q] + (IF q = r THEN 1 ELSE 0)
      BY <1>1 DEF Increment, Clock
    <2>2. v.rev[r] = old.rev[r] + 1 /\ \A q \in Replica \ {r} : v.rev[q] = old.rev[q]
      BY <1>1, <2>1 DEF Clock
    <2>3. Name(v).rev = v.rev /\ Name(v).past = v.past /\ Name(old).rev = old.rev /\ Name(old).past = old.past
      BY DEF Name
    <2> HIDE DEF K
    <2>4. QED
      BY <1>3, <2>2, <2>3 DEF MadeOf
  <1>6. \E U \in SUBSET K : MadeOf(r, K, U, Name(v))
    <2>1. {Name(old)} \in SUBSET K
      BY <1>2
    <2> HIDE DEF old, K
    <2>2. QED
      BY <1>5, <2>1
  <1>7. QED
    BY <1>1, <1>4, <1>6 DEF Made

\* u1db_put_doc and u1db_delete_doc, of a document that is not in conflict.
LEMMA EditCare ==
  ASSUME IInv, NEW C \in [Doc -> SUBSET Version], CareInv(C),
         NEW c \in Client, NEW d \in Doc, NEW content \in Content \cup {Deleted},
         conflicts[Home[c]][d] = {},
         handle[c][d].rev = EmptyClock \/ handle[c][d].rev = document[Home[c]][d].rev,
         WriteDoc(Home[c], d, EditedVersion(c, d, content)),
         handle' = [handle EXCEPT ![c][d].rev = EditedVersion(c, d, content).rev,
                                  ![c][d].past = EditedVersion(c, d, content).past],
         edits' = edits + 1, UNCHANGED conflicts
  PROVE  CareIsKept(C)
  <1> DEFINE r == Home[c]
             old == document[r][d]
             v == EditedVersion(c, d, content)
             K == Known(d, C[d])
  <1>1. r \in Replica /\ v \in Version /\ v.rev = Increment(old.rev, r)
    BY EditedVersionCovers DEF EditedVersion
  <1>2. old \in Version
    BY <1>1, Rows
  <1>3. K \in SUBSET Named /\ Name(old) \in K /\ Name(handle[c][d]) \in K
    BY <1>1, KnownNames
  <1>4. Told(K)
    BY DEF CareInv, DocInv
  <1>5. old.past \subseteq v.past /\ edits + 1 \in v.past
    <2>1. handle[c][d].rev = old.rev => old.past \subseteq handle[c][d].past
      <3>1. handle[c][d].rev = old.rev => Covers(Name(handle[c][d]).rev, Name(old).rev)
        BY <1>2, CoversIsNewer DEF Name
      <3>2. QED
        BY <1>3, <1>4, <3>1, ToldIsHistory DEF Name
    <2>2. QED
      BY <2>1 DEF EditedVersion
  <1>6. /\ \A b \in Client : b # c => handle'[b][d] = handle[b][d]
        /\ \A b \in Client, e \in Doc : e # d => handle'[b][e] = handle[b][e]
        /\ handle'[c][d].rev = v.rev /\ handle'[c][d].past = v.past
    BY DEF IInv, TypeOK, Handle
  <1>7. \A b \in Client :
          handle'[b][d] = handle[b][d] \/ (Home[b] = r /\ Name(handle'[b][d]) = Name(v))
    BY <1>6 DEF Name
  <1>8. WriteDoc(r, d, v) /\ conflicts[r][d] = {}
    OBVIOUS
  <1> HIDE DEF v, r
  <1>9. Made(r, d, v, C[d])
    BY <1>1, <1>5, <1>7, <1>8, EditIsMade
  <1>10. edits' = edits \/ (edits' = edits + 1 /\ edits + 1 \in v.past)
    BY <1>5
  <1>11. QED
    BY <1>1, <1>6, <1>9, <1>10, MadeStep

\* A resolution of all that is in conflict makes a version.
LEMMA ResolutionIsMade ==
  ASSUME IInv, NEW C \in [Doc -> SUBSET Version], CareInv(C), NEW r \in Replica, NEW d \in Doc,
         conflicts[r][d] # {}, NEW v \in Version,
         NEW top \in Joins({x.rev : x \in Leaves(r, d)}), v.rev = Increment(top, r),
         \A x \in Leaves(r, d) : x.past \subseteq v.past,
         WriteDoc(r, d, v), conflicts' = [conflicts EXCEPT ![r][d] = {}],
         \A c \in Client :
           handle'[c][d] = handle[c][d] \/ (Home[c] = r /\ Name(handle'[c][d]) = Name(v))
  PROVE  Made(r, d, v, C[d])
  <1> DEFINE stored == document[r][d]
             revs == {x.rev : x \in Leaves(r, d)}
             K == Known(d, C[d])
             U == {Name(x) : x \in Leaves(r, d)}
  <1>1. Leaves(r, d) = {stored} \cup conflicts[r][d] /\ Leaves(r, d) \subseteq Versions(d)
    BY DEF Leaves, Versions, IInv, ConflictsHaveDocument
  <1>2. /\ K \in SUBSET Named /\ U \in SUBSET K
        /\ \A x \in Leaves(r, d) : x \in Version /\ Name(x) \in K
    BY <1>1, KnownNames
  <1>3. revs \subseteq Clock
    BY <1>2 DEF Version
  <1>4. top \in Clock /\ \A k \in revs : Covers(top, k)
    BY <1>3, JoinsCover
  <1>5. \A q \in Replica : \E x \in Leaves(r, d) : top[q] = x.rev[q]
    <2>1. \A q \in Replica : \E k \in revs : top[q] = k[q]
      BY DEF Joins
    <2>2. QED
      BY <2>1
  <1>6. v.rev # EmptyClock /\ v.rev \in Clock
    BY <1>4, ClockClosed, IncrementNotEmpty
  <1>7. \A x \in Leaves(r, d) : Covers(v.rev, x.rev)
    <2>1. Covers(v.rev, top)
      BY <1>4, IncrementIsNewer
    <2>2. \A k \in revs : Covers(v.rev, k)
      BY <1>3, <1>4, <1>6, <2>1, CoversTransitive
    <2>3. QED
      BY <2>2
  <1>8. MadeOf(r, K, U, Name(v))
    <2>1. U # {}
      BY <1>1
    <2>2. \A u \in U : u.past \subseteq Name(v).past
      BY DEF Name
    <2>3. \A q \in Replica : v.rev[q] = IF q = r THEN top[q] + 1 ELSE top[q]
      BY <1>4 DEF Increment, Clock
    <2>4. \A q \in Replica \ {r} : \E u \in U : Name(v).rev[q] = u.rev[q]
      <3> SUFFICES ASSUME NEW q \in Replica \ {r} PROVE \E u \in U : Name(v).rev[q] = u.rev[q]
        OBVIOUS
      <3>1. PICK x \in Leaves(r, d) : top[q] = x.rev[q]
        BY <1>5
      <3>2. Name(v).rev[q] = x.rev[q] /\ Name(x).rev = x.rev /\ Name(x) \in U
        BY <2>3, <3>1 DEF Name
      <3>3. QED
        BY <3>2
    <2>5. PICK x \in conflicts[r][d] : Latest(r, K, x.rev)
      BY DEF CareInv, DocInv, Single, InConflict
    <2>6. x \in Leaves(r, d) /\ x.rev \in Clock
      BY <1>1, <1>2 DEF Version
    <2>7. x.rev[r] <= top[r]
      BY <1>4, <2>6 DEF Covers
    <2>8. top[r] <= x.rev[r]
      <3>1. PICK y \in Leaves(r, d) : top[r] = y.rev[r]
        BY <1>5
      <3>2. Name(y) \in K
        BY <1>2
      <3>3. QED
        BY <2>5, <3>1, <3>2 DEF Latest, Name
    <2>9. v.rev[r] = x.rev[r] + 1
      BY <1>4, <2>3, <2>6, <2>7, <2>8 DEF Clock
    <2>10. \E u \in U : Name(v).rev[r] = u.rev[r] + 1 /\ Latest(r, K, u.rev)
      <3>1. Name(v).rev[r] = v.rev[r] /\ Name(x).rev = x.rev /\ Name(x) \in U
        BY <2>6 DEF Name
      <3>2. QED
        BY <2>5, <2>9, <3>1
    <2> HIDE DEF U, K
    <2>11. QED
      BY <2>1, <2>2, <2>4, <2>10 DEF MadeOf
  <1>9. \E W \in SUBSET K : MadeOf(r, K, W, Name(v))
    <2> HIDE DEF U, K
    <2>1. QED
      BY <1>2, <1>8
  <1>10. Covers(v.rev, stored.rev) /\ \A x \in conflicts[r][d] : Covers(v.rev, x.rev)
    BY <1>1, <1>7
  <1>11. QED
    BY <1>6, <1>9, <1>10 DEF Made

\* u1db_resolve_doc, of all that u1db_get_doc_conflicts shows.
LEMMA ResolveCare ==
  ASSUME IInv, NEW C \in [Doc -> SUBSET Version], CareInv(C),
         NEW c \in Client, NEW d \in Doc, NEW content \in Content \cup {Deleted},
         conflicts[Home[c]][d] # {},
         ResolveDoc(c, d, content, {x.rev : x \in Leaves(Home[c], d)})
  PROVE  CareIsKept(C)
  <1> DEFINE r == Home[c]
             stored == document[r][d]
             revs == {x.rev : x \in Leaves(r, d)}
             merged == UNION {x.past : x \in {y \in Versions(d) : y.rev \in revs}}
  <1>1. r \in Replica /\ Exists(r, d)
    BY HomeAssumption DEF IInv, ConflictsHaveDocument
  <1>2. Leaves(r, d) = {stored} \cup conflicts[r][d] /\ Leaves(r, d) \subseteq Versions(d)
    BY <1>1 DEF Leaves, Versions
  <1>3. stored.rev \in revs /\ {x \in conflicts[r][d] : x.rev \notin revs} = {}
    BY <1>2
  <1>4. PICK top \in Joins(revs \cup {stored.rev}) :
          LET v == [rev |-> Increment(top, r), content |-> content,
                    past |-> merged \cup {edits + 1}]
          IN /\ WriteDoc(r, d, v)
             /\ conflicts' = [conflicts EXCEPT ![r][d] = {}]
             /\ handle' = [handle EXCEPT ![c][d] =
                  [rev |-> v.rev, past |-> v.past, has_conflicts |-> FALSE]]
    BY <1>1, <1>3 DEF ResolveDoc
  <1> DEFINE v == [rev |-> Increment(top, r), content |-> content,
                   past |-> merged \cup {edits + 1}]
  <1>5. revs \cup {stored.rev} = revs /\ top \in Joins(revs)
    BY <1>3, <1>4
  <1>6. \A x \in Versions(d) : x \in Version
    BY KnownNames
  <1>7. edits + 1 \in Edit /\ edits' = edits + 1
    BY DEF ResolveDoc, IInv, TypeOK, Edit
  <1>8. v \in Version
    <2>1. merged \in SUBSET Edit
      BY <1>6 DEF Version
    <2>2. revs \subseteq Clock
      BY <1>2, <1>6 DEF Version
    <2>3. Increment(top, r) \in Clock
      BY <1>1, <1>5, <2>2, JoinsCover, ClockClosed
    <2>4. QED
      BY <1>7, <2>1, <2>3 DEF Version
  <1>9. \A x \in Leaves(r, d) : x.past \subseteq v.past
    BY <1>2
  <1>10. /\ \A b \in Client, e \in Doc : b # c \/ e # d => handle'[b][e] = handle[b][e]
         /\ Name(handle'[c][d]) = Name(v)
    BY <1>4 DEF IInv, TypeOK, Name
  <1>11. \A b \in Client :
           handle'[b][d] = handle[b][d] \/ (Home[b] = r /\ Name(handle'[b][d]) = Name(v))
    BY <1>10
  <1>12. /\ WriteDoc(r, d, v) /\ conflicts' = [conflicts EXCEPT ![r][d] = {}]
         /\ conflicts[r][d] # {} /\ v.rev = Increment(top, r) /\ edits + 1 \in v.past
    BY <1>4
  <1> HIDE DEF v, r, revs
  <1>13. Made(r, d, v, C[d])
    BY <1>1, <1>5, <1>8, <1>9, <1>11, <1>12, ResolutionIsMade DEF revs
  <1>14. QED
    BY <1>1, <1>7, <1>10, <1>12, <1>13, MadeStep

\* Every step of a careful client.
LEMMA ClientCare ==
  ASSUME IInv, NEW C \in [Doc -> SUBSET Version], CareInv(C),
         NEW c \in Client, NEW d \in Doc, CarefulClientStep(c, d)
  PROVE  CareIsKept(C)
  <1> DEFINE r == Home[c]
  <1>1. r \in Replica /\ DocInv(d, C[d])
    BY HomeAssumption DEF CareInv
  <1>2. /\ document[r][d] \in Version /\ document[r][d].rev \in Clock
        /\ conflicts[r][d] \subseteq Version
        /\ handle[c][d] \in Handle
    BY <1>1, Rows DEF IInv, TypeOK, Version
  <1>3. CASE GetDoc(c, d, TRUE)
    <2> DEFINE h == [rev |-> document[r][d].rev, past |-> document[r][d].past,
                     has_conflicts |-> conflicts[r][d] # {}]
    <2>1. /\ h \in Handle
          /\ handle' = [handle EXCEPT ![c][d] = h]
          /\ UNCHANGED <<storeVars, edits>>
      BY <1>2, <1>3 DEF GetDoc, Handle, Version
    <2>2. Name(h) = Name(document[r][d])
      BY DEF Name
    <2>3. Name(h) \in Known(d, C[d])
      BY <1>1, <2>2, KnownNames
    <2>4. handle'[c][d] = h /\ document' = document /\ conflicts' = conflicts
      BY <2>1 DEF IInv, TypeOK, storeVars
    <2>5. Covers(document[r][d].rev, document[r][d].rev)
      BY <1>2, CoversReflexive
    <2>6. Follows(c, d)'
      <3>1. ~handle'[c][d].has_conflicts => conflicts[r][d] = {}
        <4>1. h.has_conflicts = (conflicts[r][d] # {})
          OBVIOUS
        <4> HIDE DEF h
        <4>2. handle'[c][d].has_conflicts = (conflicts[r][d] # {})
          BY <2>4, <4>1, Zenon
        <4>3. QED
          BY <4>2, Zenon
      <3>2. handle'[c][d].rev = document[r][d].rev
        BY <2>4
      <3>3. QED
        BY <2>4, <2>5, <3>1, <3>2 DEF Follows, Covers
    <2> HIDE DEF h
    <2>7. QED
      BY <2>1, <2>3, <2>6, ReadStep
  <1>4. CASE MakeDoc(c, d)
    <2>1. /\ NewHandle \in Handle
          /\ handle' = [handle EXCEPT ![c][d] = NewHandle]
          /\ UNCHANGED <<storeVars, edits>>
      BY <1>4 DEF MakeDoc, NewHandle, Handle, EmptyClock, Clock
    <2>2. Name(NewHandle) \in Known(d, C[d])
      <3>1. Name(NewHandle) = Name(NoRow)
        BY DEF Name, NewHandle, NoRow
      <3>2. QED
        BY <3>1, KnownNames
    <2>3. handle'[c][d] = NewHandle /\ document' = document /\ conflicts' = conflicts
      BY <2>1 DEF IInv, TypeOK, storeVars
    <2>4. \A k \in Clock : Covers(k, NewHandle.rev)
      BY CoversReflexive DEF NewHandle
    <2>5. Follows(c, d)'
      BY <1>2, <2>3, <2>4 DEF Follows, Covers, Version
    <2>6. QED
      BY <2>1, <2>2, <2>5, ReadStep
  <1>5. CASE \E content \in Content \cup {Deleted} : PutDoc(c, d, content)
    <2>1. PICK content \in Content \cup {Deleted} : PutDoc(c, d, content)
      BY <1>5
    <2>2. QED
      BY <2>1, EditCare DEF PutDoc, PutAllowed
  <1>6. CASE DeleteDoc(c, d)
    <2>1. handle[c][d].rev = document[r][d].rev /\ ~handle[c][d].has_conflicts
      BY <1>6 DEF DeleteDoc, DeleteAllowed
    <2>2. \/ conflicts[r][d] = {}
          \/ \E x \in conflicts[r][d] : Covers(x.rev, document[r][d].rev)
      BY <1>1, <2>1 DEF DocInv, Follows
    <2>3. conflicts[r][d] = {}
      BY <1>1, <2>2 DEF DocInv, Single, InConflict
    <2>4. QED
      BY <1>6, <2>1, <2>3, EditCare DEF DeleteDoc
  <1>7. QED
    BY <1>3, <1>4, <1>5, <1>6, ResolveCare DEF CarefulClientStep

\* The invariant holds at the start.
LEMMA InitCare == Init => CareInv(Nothing)
  <1> SUFFICES ASSUME Init PROVE CareInv(Nothing)
    OBVIOUS
  <1>1. IInv
    BY InitInv
  <1>2. /\ \A r \in Replica, d \in Doc : document[r][d] = NoRow /\ conflicts[r][d] = {}
        /\ \A c \in Client, d \in Doc : handle[c][d] = NewHandle
        /\ edits = 0
    BY DEF Init, StoreInit
  <1>3. EmptyClock \in Clock /\ Covers(EmptyClock, EmptyClock)
    BY CoversReflexive DEF EmptyClock, Clock
  <1>4. ASSUME NEW d \in Doc
        PROVE  DocInv(d, Nothing[d])
    <2> DEFINE M == Nothing[d]
    <2>0. M = {}
      BY DEF Nothing
    <2>1. Versions(d) = {}
      BY <1>2 DEF Versions, Leaves, Exists, NoRow
    <2>2. \A x \in Known(d, M) : x = Name(NoRow)
      <3>1. Name(NewHandle) = Name(NoRow)
        BY DEF Name, NoRow, NewHandle
      <3>2. QED
        BY <1>2, <2>0, <3>1 DEF Known
    <2>3. \A x \in Known(d, M) : x.rev = EmptyClock /\ x.past = {}
      BY <2>2 DEF Name, NoRow
    <2>4. Told(Known(d, M)) /\ OneVersion(d, M)
      BY <2>0, <2>1, <2>3 DEF Told, OneVersion
    <2>5. \A r \in Replica : Single(r, d, M)
      <3>1. \A r \in Replica : EmptyClock[r] = 0
        BY DEF EmptyClock
      <3>2. \A r \in Replica : Latest(r, Known(d, M), EmptyClock)
        BY <2>3, <3>1 DEF Latest
      <3>3. NoRow.rev = EmptyClock
        BY DEF NoRow
      <3>4. QED
        BY <1>2, <3>2, <3>3 DEF Single
    <2>6. \A c \in Client : Follows(c, d)
      BY <1>2, <1>3, HomeAssumption DEF Follows, NoRow, NewHandle
    <2>7. QED
      BY <2>4, <2>5, <2>6 DEF DocInv
  <1>5. RowsExist /\ NoLostEdit
    BY <1>2 DEF RowsExist, NoLostEdit
  <1>6. QED
    BY <1>4, <1>5 DEF CareInv

\* Every step of careful clients keeps it.
LEMMA StepCare ==
  ASSUME AtMostTwo, IInv, CareInv(Nothing), [CarefulNext]_vars
  PROVE  CareInv(Nothing)' /\ [EditBuildsOnCurrent]_vars
  <1>1. Nothing \in [Doc -> SUBSET Version]
    BY DEF Nothing
  <1>2. CASE UNCHANGED vars
    <2>1. UNCHANGED <<storeVars, handle, edits>>
      BY <1>2 DEF vars, storeVars
    <2>2. QED
      BY <2>1, CareKept DEF CareIsKept
  <1>3. CASE Receive
    <2>1. PICK r, s \in Replica, d \in Doc, save \in BOOLEAN : r # s /\ Offer(s, r, d, save)
      BY <1>3 DEF Receive
    <2>2. QED
      BY <1>1, <2>1, OfferCare DEF CareIsKept
  <1>4. CASE \E c \in Client, d \in Doc : CarefulClientStep(c, d)
    BY <1>1, <1>4, ClientCare DEF CareIsKept
  <1>5. QED
    BY <1>2, <1>3, <1>4 DEF CarefulNext

\* So it holds in every state they reach.
LEMMA CarefulInductive ==
  ASSUME AtMostTwo
  PROVE  CarefulSpec => []CareInv(Nothing) /\ [][EditBuildsOnCurrent]_vars
  <1>1. Init => CareInv(Nothing)
    BY InitCare
  <1>2. IInv /\ CareInv(Nothing) /\ [CarefulNext]_vars => CareInv(Nothing)' /\ [EditBuildsOnCurrent]_vars
    BY StepCare
  <1>3. QED
    BY <1>1, <1>2, CarefulClientsAreClients, Inductive, PTL DEF CarefulSpec

\* Between two replicas, while their users look for conflicts and resolve them
\* by merging all they are shown, one revision covers another only if it
\* descends from all the edits the other stands for: is_newer never takes a
\* version that misses an edit for the newer one.
THEOREM ClocksTellTheHistory ==
  ASSUME AtMostTwo
  PROVE  CarefulSpec => []ClocksTellHistory
  <1>1. IInv /\ CareInv(Nothing) => ClocksTellHistory
    <2> SUFFICES ASSUME IInv, CareInv(Nothing), NEW d \in Doc, NEW v \in Versions(d), NEW w \in Versions(d),
                        Covers(v.rev, w.rev)
                 PROVE  w.past \subseteq v.past
      BY DEF ClocksTellHistory
    <2> DEFINE K == Known(d, Nothing[d])
    <2>1. K \in SUBSET Named /\ Name(v) \in K /\ Name(w) \in K
      BY KnownNames DEF Nothing
    <2>2. Told(K) /\ Covers(Name(v).rev, Name(w).rev)
      BY DEF CareInv, DocInv, Name
    <2> HIDE DEF K
    <2>3. QED
      BY <2>1, <2>2, ToldIsHistory DEF Name
  <1>2. QED
    BY <1>1, CarefulInductive, CarefulClientsAreClients, Inductive, PTL

\* And no edit is ever lost, whatever the order of edits, offers refused or
\* kept as conflicts, and resolutions: some replica holds a descendant of it.
THEOREM NoEditIsLost ==
  ASSUME AtMostTwo
  PROVE  CarefulSpec => []NoLostEdit
  <1>1. CareInv(Nothing) => NoLostEdit
    BY DEF CareInv
  <1>2. QED
    BY <1>1, CarefulInductive, PTL

\* A document and what is in conflict with it are concurrent, as the comments
\* of u1db__put_doc_if_newer take for granted.
THEOREM ConflictsStayConcurrent ==
  ASSUME AtMostTwo
  PROVE  CarefulSpec => []ConflictsAreConcurrent
  <1>1. CareInv(Nothing) => ConflictsAreConcurrent
    BY DEF CareInv, DocInv, Single, InConflict, ConflictsAreConcurrent
  <1>2. QED
    BY <1>1, CarefulInductive, PTL

\* Equal revisions are equal documents between two replicas, so that
\* U1DB_CONVERGED means what it says; with three they need not be.
THEOREM TwoReplicasConverge ==
  ASSUME AtMostTwo
  PROVE  CarefulSpec => []ConvergedIsSameDocument
  <1>1. CareInv(Nothing) => ConvergedIsSameDocument
    <2> SUFFICES ASSUME CareInv(Nothing), NEW r \in Replica, NEW s \in Replica, NEW d \in Doc,
                        document[r][d].rev = document[s][d].rev
                 PROVE  document[r][d] = document[s][d]
      BY DEF ConvergedIsSameDocument, SameContent
    <2>1. CASE Exists(r, d)
      BY <2>1 DEF CareInv, DocInv, OneVersion, Versions, Leaves, Exists
    <2>2. CASE ~Exists(r, d)
      BY <2>2 DEF CareInv, RowsExist, Exists
    <2>3. QED
      BY <2>1, <2>2
  <1>2. QED
    BY <1>1, CarefulInductive, PTL

\* No lost update: what u1db_put_doc, u1db_delete_doc or u1db_resolve_doc
\* writes over a document descends from all the edits in it, also when the
\* document changed after the user's handle was read.
THEOREM NoLostUpdate ==
  ASSUME AtMostTwo
  PROVE  CarefulSpec => EditsBuildOnCurrent
  BY CarefulInductive, PTL DEF EditsBuildOnCurrent
=============================================================================
