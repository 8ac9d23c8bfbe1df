------------------------------ MODULE MCIndex ------------------------------
(***************************************************************************)
(* Instances of Index for TLC.                                             *)
(***************************************************************************)
EXTENDS Index, TLC

CONSTANTS
  a, b, f,      \* expressions
  MaxRows       \* bound: how often a row is in document_fields

\* Texts: one that begins another, and one that comes after both.
Texts == {<<1>>, <<1, 2>>, <<2>>}
Contents ==
  LET of(va, vb) == [expr \in Expr |-> CASE expr = a -> va [] expr = b -> vb [] OTHER -> {}]
  IN {of({}, {}), of({<<1>>}, {<<1, 2>>}), of({<<1, 2>>, <<2>>}, {<<1>>})}
\* Letter 9 is GLOB's ?, which stands for any one letter.
AnyLetter == 9
Asking ==
  {[glob |-> "no", text |-> <<1>>], [glob |-> "ends", text |-> <<1>>],
   [glob |-> "ends", text |-> <<AnyLetter, 2>>], [glob |-> "is", text |-> <<>>]}
Globbing ==
  [text \in {arg.text : arg \in Asking} |->
     {v \in Texts : /\ Len(text) <= Len(v)
                    /\ \A n \in DOMAIN text : text[n] \in {v[n], AnyLetter}}]

OneOrTwo == {<<a>>, <<a, b>>, <<f>>}
FewRows == \A row \in Row : document_fields[row] <= MaxRows
OneUnfinished == Cardinality(unfinished) <= 1
Symmetry == Permutations(Doc) \cup Permutations(Name)
              \cup Permutations(Process)
=============================================================================
