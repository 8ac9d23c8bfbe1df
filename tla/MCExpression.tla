---------------------------- MODULE MCExpression ----------------------------
(***************************************************************************)
(* Expressions and documents for TLC.                                      *)
(***************************************************************************)
EXTENDS Expression, TLC

Field == {<<"x">>, <<"x.y">>, <<"x.">>, <<"2">>}

\* Expressions of up to two operations, one in the other, as their items.
Join(list) == FoldLeft(LAMBDA s, t : s \o <<",">> \o t, Head(list), Tail(list))
Call(op, list) == <<op, "(">> \o Join(list) \o <<")">>
Pairs == {<<s>> : s \in Field} \cup {<<s, t>> : s, t \in Field}
Simple == {Call(op, list) : op \in Operation, list \in Pairs}
Nested == {Call(op, <<s>>) : op \in Operation, s \in Simple}
            \cup {Call(op, <<s, t>>) : op \in Operation, s \in Simple, t \in {<<"x">>, <<"2">>}}
            \cup {Call("combine", <<t, s>>) : s \in Simple, t \in Field}

\* Anything, if it is short.
Item == {" ", "(", ",", ")", "lower", "x", "x."}
Short == UNION {[1..n -> Item] : n \in 0..4}

\* Expressions with one item missing, doubled or out of place.
Without(s, n) == SubSeq(s, 1, n - 1) \o SubSeq(s, n + 1, Len(s))
With(s, n, item) == SubSeq(s, 1, n - 1) \o <<item>> \o SubSeq(s, n, Len(s))
Samples == {Call("lower", <<<<"x">>>>), Call("number", <<<<"x">>, <<"2">>>>),
            Call("combine", <<<<"x">>, Call("bool", <<<<"x">>>>)>>)}
Broken ==
  UNION {{Without(s, n) : n \in DOMAIN s}
           \cup {With(s, n, item) : n \in 1..Len(s)+1, item \in Item} : s \in Samples}

\* A space anywhere.
Spaced ==
  UNION {{FlattenSeq([n \in DOMAIN s |-> IF n \in gaps THEN <<s[n], " ">> ELSE <<s[n]>>]) :
            gaps \in SUBSET DOMAIN s} : s \in Samples}

MCInput == Field \cup Simple \cup Nested \cup Short \cup Broken \cup Spaced

Text(words) == [type |-> "string", words |-> words]
Integer(n) == [type |-> "int", n |-> n]
Flag(b) == [type |-> "bool", b |-> b]
List(items) == [type |-> "array", items |-> items]
Y(val) == [type |-> "object", fields |-> [y \in {"y"} |-> val]]
X(val) == [type |-> "object", fields |-> [x \in {"x"} |-> val]]

MCObject ==
  { X(Text(<<"Ann", "bee", "Ann">>)), X(Integer(7)), X(Integer(-7)), X(Flag(TRUE)), Y(Integer(1)),
    X(List(<<Text(<<"Ann">>), List(<<Integer(12), Flag(FALSE)>>), Text(<<"ann", "Bee">>)>>)),
    X(Y(Text(<<"Bee">>))),
    X(List(<<Y(Integer(3)), Text(<<"bee">>), Y(List(<<Text(<<"Ann">>), Integer(10)>>)),
              List(<<Y(Flag(TRUE))>>)>>)) }
=============================================================================
