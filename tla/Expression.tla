----------------------------- MODULE Expression -----------------------------
(***************************************************************************)
(* Index expressions, src/u1db_query.c: make_tokens, the recursive descent *)
(* of parse_term and parse_op with its stack, and the evaluation of the    *)
(* parse tree on a document by get_values and the operations.              *)
(*                                                                         *)
(* The text of an expression is a sequence of items: a delimiter, a space, *)
(* or a word, which stands for the characters of a name or a number.  A    *)
(* token is the items it was cut from.  A text that is indexed is the      *)
(* sequence of its words.                                                  *)
(***************************************************************************)
EXTENDS Integers, SequencesExt

CONSTANTS
  Input,        \* the expressions that are parsed
  Object        \* the documents they are evaluated on

Delimiter == {"(", ",", ")"}
Operation == {"lower", "number", "split_words", "bool", "combine"}
None == <<>>    \* the NULL pointer of get_token

VARIABLES
  input,        \* expression
  idx, start,   \* the loop of make_tokens, counted from 1
  tokens,       \* the tokens not yet taken by get_token
  term,         \* the token parse_term has taken
  stack,        \* the calls of parse_op: the operation, and its children so far
  tree,         \* the result of parse, or of the innermost parse_term
  phase,        \* where the parser is
  status,       \* what it answers
  object,       \* the document evaluated
  values        \* the values extracted from it

vars == <<input, idx, start, tokens, term, stack, tree, phase, status, object, values>>

\* A parse_tree: a field, or an operation on others.
Leaf(token) == [data |-> token, op |-> FALSE, children |-> <<>>]
Node(op, children) == [data |-> op, op |-> TRUE, children |-> children]
NoTree == Leaf(None)

Init ==
  /\ input \in Input
  /\ idx = 1 /\ start = 1
  /\ tokens = <<>> /\ term = None
  /\ stack = <<>> /\ tree = NoTree
  /\ phase = "left" /\ status = "ok"
  /\ object = <<>> /\ values = <<>>
-----------------------------------------------------------------------------
(***************************************************************************)
(* make_tokens.                                                            *)
(***************************************************************************)
Parsing == UNCHANGED <<input, term, stack, tree, status, object, values>>

\* Where the trailing spaces begin. An expression of nothing but spaces keeps
\* its first. In front of the empty one the code reads what is not of it, for as
\* long as that is spaces; `end' is at most 0 then, and no token is made.
End(text) ==
  IF \A n \in DOMAIN text : text[n] = " " THEN (IF text = <<>> THEN 0 ELSE 1)
  ELSE CHOOSE n \in DOMAIN text :
         text[n] # " " /\ \A m \in n+1 .. Len(text) : text[m] = " "

\* The spaces in front.
SkipSpace ==
  /\ phase = "left"
  /\ IF idx <= Len(input) /\ input[idx] = " "
     THEN idx' = idx + 1 /\ UNCHANGED <<start, phase>>
     ELSE start' = idx /\ phase' = "tokens" /\ UNCHANGED idx
  /\ Parsing /\ UNCHANGED tokens

RECURSIVE TrimLeft(_), TrimRight(_)
TrimLeft(text) ==
  IF text # <<>> /\ Head(text) = " " THEN TrimLeft(Tail(text)) ELSE text
TrimRight(text) ==
  IF text # <<>> /\ Last(text) = " " THEN TrimRight(Front(text)) ELSE text

NotEmpty(token) == IF token = <<>> THEN <<>> ELSE <<token>>

\* Mistaken: the spaces behind a token stay.
ScanKeepingSpaces ==
  /\ phase = "tokens" /\ idx <= End(input)
  /\ IF input[idx] \notin Delimiter
     THEN idx' = idx + 1 /\ UNCHANGED <<start, tokens>>
     ELSE IF idx = start
     THEN /\ tokens' = Append(tokens, <<input[idx]>>)
          /\ idx' = idx + 1 /\ start' = idx + 1
     ELSE /\ tokens' = tokens \o NotEmpty(TrimLeft(SubSeq(input, start, idx - 1)))
          /\ start' = idx /\ UNCHANGED idx
  /\ Parsing /\ UNCHANGED phase

\* One pass of the loop: a delimiter is a token, and so is what lies before it.
Scan ==
  /\ phase = "tokens" /\ idx <= End(input)
  /\ IF input[idx] \notin Delimiter
     THEN idx' = idx + 1 /\ UNCHANGED <<start, tokens>>
     ELSE IF idx = start
     THEN /\ tokens' = Append(tokens, <<input[idx]>>)
          /\ idx' = idx + 1 /\ start' = idx + 1
     ELSE /\ tokens' = tokens \o NotEmpty(TrimRight(TrimLeft(SubSeq(input, start, idx - 1))))
          /\ start' = idx /\ UNCHANGED idx
  /\ Parsing /\ UNCHANGED phase

\* The last token, of which nothing is trimmed in front.
ScanLast ==
  /\ phase = "tokens" /\ idx > End(input)
  /\ tokens' = tokens \o NotEmpty(SubSeq(input, start, End(input)))
  /\ phase' = "term"
  /\ Parsing /\ UNCHANGED <<idx, start>>
-----------------------------------------------------------------------------
(***************************************************************************)
(* The parser.                                                             *)
(***************************************************************************)
Scanned == UNCHANGED <<input, idx, start, object, values>>

Peek == IF tokens = <<>> THEN None ELSE Head(tokens)
Take == tokens' = IF tokens = <<>> THEN tokens ELSE Tail(tokens)
IsDelimiter(token) == Len(token) = 1 /\ token[1] \in Delimiter

Reject(why) ==
  /\ status' = why
  /\ phase' = "rejected"
  /\ UNCHANGED <<term, stack, tree>>

\* parse_term, up to the token that is a term.
GetTerm ==
  /\ phase = "term"
  /\ Take
  /\ IF Peek = None \/ IsDelimiter(Peek)
     THEN Reject("INVALID_TRANSFORMATION_FUNCTION")
     ELSE term' = Peek /\ phase' = "peek" /\ UNCHANGED <<stack, tree, status>>
  /\ Scanned

\* A term that is followed by a parenthesis is an operation: parse_op.
BeginOperation ==
  /\ phase = "peek" /\ Peek = <<"(">>
  /\ Take
  /\ IF \E op \in Operation : term = <<op>>
     THEN /\ stack' = Append(stack, [op |-> term[1], children |-> <<>>])
          /\ phase' = "term"
          /\ UNCHANGED <<term, tree, status>>
     ELSE Reject("UNKNOWN_OPERATION")
  /\ Scanned

\* parse_term has a result: for the parse_op that called it, or for parse.
Returned == IF stack = <<>> THEN "end" ELSE "separator"

TakeField ==
  /\ phase = "peek" /\ Peek # <<"(">>
  /\ tree' = Leaf(term)
  /\ phase' = Returned
  /\ Scanned /\ UNCHANGED <<tokens, term, stack, status>>

\* append_node
Child == [stack EXCEPT ![Len(stack)].children = Append(@, tree)]

NextChild ==
  /\ phase = "separator" /\ Peek = <<",">>
  /\ Take
  /\ stack' = Child
  /\ phase' = "term"
  /\ Scanned /\ UNCHANGED <<term, tree, status>>

NoSeparator ==
  /\ phase = "separator" /\ Peek \notin {<<",">>, <<")">>}
  /\ Take
  /\ Reject("INVALID_TRANSFORMATION_FUNCTION")
  /\ Scanned

\* check_fieldname
BadField(node) == ~node.op /\ Last(node.data) = "x."

\* The types of the arguments, in turn.
IsInteger(op, n) == op = "number" /\ n % 2 = 0

\* The operation ends, and its arguments that are expressions become getters.
\* That they are as many as the operation takes is not checked.
EndOperation ==
  LET call == Last(Child)
      bad == \E n \in DOMAIN call.children : ~IsInteger(call.op, n) /\ BadField(call.children[n])
  IN /\ phase = "separator" /\ Peek = <<")">>
     /\ Take
     /\ IF bad
        THEN Reject("INVALID_FIELD_SPECIFIER")
        ELSE /\ tree' = Node(call.op, call.children)
             /\ stack' = Front(stack)
             /\ phase' = IF Len(stack) = 1 THEN "end" ELSE "separator"
             /\ UNCHANGED <<term, status>>
     /\ Scanned

\* The end of parse.
EndParse ==
  /\ phase = "end"
  /\ IF Peek # None THEN Reject("INVALID_TRANSFORMATION_FUNCTION")
     ELSE IF BadField(tree) THEN Reject("INVALID_FIELD_SPECIFIER")
     ELSE phase' = "accepted" /\ UNCHANGED <<term, stack, tree, status>>
  /\ Scanned /\ UNCHANGED tokens
-----------------------------------------------------------------------------
(***************************************************************************)
(* Evaluation.  A JSON value is a record whose type says which field it    *)
(* has: words of a string, n of an integer, b of a boolean, items of an    *)
(* array, fields of an object.                                             *)
(***************************************************************************)
Paths == [field \in {"x", "x.y"} |-> IF field = "x" THEN <<"x">> ELSE <<"x", "y">>]

\* split, into field_path; a name that no document has stands for the others.
FieldPath(node) ==
  IF Len(node.data) = 1 /\ node.data[1] \in DOMAIN Paths THEN Paths[node.data[1]] ELSE <<"?">>

RECURSIVE ExtractValue(_, _)
ExtractValue(val, type) ==
  CASE val.type = "array" -> FlattenSeq([n \in DOMAIN val.items |-> ExtractValue(val.items[n], type)])
    [] val.type = "string" /\ type = "string" -> <<val.words>>
    [] val.type = "int" /\ type = "int" -> <<val.n>>
    [] val.type = "bool" /\ type = "bool" -> <<IF val.b THEN <<"1">> ELSE <<"0">>>>
    [] OTHER -> <<>>

RECURSIVE ExtractFieldValues(_, _, _)
ExtractFieldValues(obj, path, type) ==
  IF obj.type # "object" \/ Head(path) \notin DOMAIN obj.fields THEN <<>>
  ELSE LET val == obj.fields[Head(path)] IN
    CASE Len(path) = 1 -> ExtractValue(val, type)
      [] Len(path) > 1 /\ val.type = "array" ->
           FlattenSeq([n \in DOMAIN val.items |-> ExtractFieldValues(val.items[n], Tail(path), type)])
      [] Len(path) > 1 /\ val.type = "object" -> ExtractFieldValues(val, Tail(path), type)
      [] OTHER -> <<>>

Digits == {"1", "2"}
Lower(word) == CASE word = "Ann" -> "ann" [] word = "Bee" -> "bee" [] OTHER -> word

\* snprintf("%0*d") with a width of 1 or 2.
Padded(n, width) == <<IF width = "2" /\ n < 10 THEN "0" \o ToString(n) ELSE ToString(n)>>

Outcome(what, list) == [status |-> what, values |-> list]

\* op_number, which looks at its two children itself. Its second value is what follows the comma,
\* a number or not; the first one's path is not there if that is an operation.
OpNumber(node, obj, result) ==
  LET field == node.children[1]
      numbers == SelectSeq(ExtractFieldValues(obj, FieldPath(field), "int"), LAMBDA n : n >= 0)
  IN IF field.op \/ Len(node.children) = 1 THEN Outcome("NULL pointer", <<>>)
     ELSE IF node.children[2].op \/ Len(node.children[2].data) # 1
                \/ node.children[2].data[1] \notin Digits
     THEN Outcome("INVALID_VALUE_FOR_INDEX", <<>>)
     ELSE Outcome("ok", result \o [n \in DOMAIN numbers |->
                                     Padded(numbers[n], node.children[2].data[1])])

\* Mistaken: the list that words are looked up in is that of this text.
AddWordsOfFirst(result, text) == IF result = <<>> THEN [n \in DOMAIN text |-> <<text[n]>>] ELSE result

\* The loop of op_split_words over the words of a text.
AddWords(result, text) ==
  FoldLeft(LAMBDA list, word : IF Contains(list, <<word>>) THEN list ELSE Append(list, <<word>>),
           result, text)

\* get_values, and the operations with it: each appends to the result it is
\* given, unless its first argument fails.
RECURSIVE GetValues(_, _, _)
Appended(node, obj, list(_)) ==
  LET first == GetValues(node.children[1], obj, <<>>)
  IN IF first.status = "ok" THEN Outcome("ok", list(first.values)) ELSE first

OpLower(node, obj, result) ==
  Appended(node, obj, LAMBDA values_ :
    result \o [n \in DOMAIN values_ |-> [m \in DOMAIN values_[n] |-> Lower(values_[n][m])]])

OpSplitWords(node, obj, result) ==
  Appended(node, obj, LAMBDA values_ : FoldLeft(AddWords, result, values_))

\* The path of the argument is not there if that is an operation.
OpBool(node, obj, result) ==
  LET outcome == Appended(node, obj, LAMBDA values_ :
        result \o values_ \o (IF node.children[1].op THEN <<>> ELSE
                               ExtractFieldValues(obj, FieldPath(node.children[1]), "bool")))
  IN IF outcome.status = "ok" /\ node.children[1].op THEN Outcome("NULL pointer", <<>>) ELSE outcome

OpCombine(node, obj, result) ==
  FoldLeft(LAMBDA sofar, child :
             IF sofar.status = "ok" THEN GetValues(child, obj, sofar.values) ELSE sofar,
           Outcome("ok", result), node.children)

GetValues(node, obj, result) ==
  CASE ~node.op -> Outcome("ok", result \o ExtractFieldValues(obj, FieldPath(node), "string"))
    [] node.data = "lower" -> OpLower(node, obj, result)
    [] node.data = "split_words" -> OpSplitWords(node, obj, result)
    [] node.data = "bool" -> OpBool(node, obj, result)
    [] node.data = "combine" -> OpCombine(node, obj, result)
    [] node.data = "number" -> OpNumber(node, obj, result)

\* evaluate_index_and_insert_into_db, up to the inserts.
Evaluate ==
  /\ phase = "accepted"
  /\ object' \in Object
  /\ LET outcome == GetValues(tree, object', <<>>)
     IN status' = outcome.status /\ values' = outcome.values
  /\ phase' = "evaluated"
  /\ UNCHANGED <<input, idx, start, tokens, term, stack, tree>>

Next ==
  \/ SkipSpace \/ Scan \/ ScanLast
  \/ GetTerm \/ BeginOperation \/ TakeField
  \/ NextChild \/ NoSeparator \/ EndOperation \/ EndParse
  \/ Evaluate

Spec == Init /\ [][Next]_vars
-----------------------------------------------------------------------------
(***************************************************************************)
(* What expressions are, and mean.                                         *)
(***************************************************************************)

\* An expression without the spaces around its words and delimiters. A space
\* between two words is part of a name.
Bare(text) ==
  LET in_a_name(n) ==
        \E m \in 1..n-1, k \in n+1..Len(text) :
          \A i \in m..k : text[i] \notin Delimiter /\ (text[i] = " " <=> i \in m+1..k-1)
      kept == SelectSeq([n \in DOMAIN text |-> n], LAMBDA n : text[n] # " " \/ in_a_name(n))
  IN [n \in DOMAIN kept |-> text[kept[n]]]

\* The trees a sequence of items denotes: a field, or an operation on a list.
RECURSIVE Trees(_), Lists(_)
Trees(text) ==
  (IF text # <<>> /\ \A n \in DOMAIN text : text[n] \notin Delimiter THEN {Leaf(text)} ELSE {})
    \cup (IF Len(text) > 3 /\ text[1] \in Operation /\ text[2] = "(" /\ Last(text) = ")"
          THEN {Node(text[1], c) : c \in Lists(SubSeq(text, 3, Len(text) - 1))}
          ELSE {})
Lists(text) ==
  {<<t>> : t \in Trees(text)}
    \cup UNION {{<<t>> \o c : t \in Trees(SubSeq(text, 1, n - 1)),
                              c \in Lists(SubSeq(text, n + 1, Len(text)))} :
                  n \in {m \in DOMAIN text : text[m] = ","}}

\* A field of the tree that ends in a dot, where a number is not expected.
RECURSIVE HasBadField(_)
HasBadField(node) ==
  \/ BadField(node)
  \/ \E n \in DOMAIN node.children :
       IF IsInteger(node.data, n) /\ ~node.children[n].op THEN FALSE
       ELSE HasBadField(node.children[n])

\* The values that a field reaches in a document, through arrays and objects.
RECURSIVE Items(_)
Items(val) == IF val.type = "array" THEN UNION {Items(val.items[n]) : n \in DOMAIN val.items} ELSE {val}
Held(val) == IF val.type = "array" THEN Range(val.items) ELSE {val}
Under(vals, key) ==
  {v.fields[key] : v \in {o \in vals : o.type = "object" /\ key \in DOMAIN o.fields}}
Reached(obj, path) ==
  LET last == FoldLeft(LAMBDA vals, key : UNION {Held(v) : v \in Under(vals, key)},
                       {obj}, Front(path))
  IN UNION {Items(v) : v \in Under(last, Last(path))}

\* The texts that an expression finds in a document.
RECURSIVE Meaning(_, _)
Meaning(node, obj) ==
  LET reached == Reached(obj, FieldPath(IF node.op THEN node.children[1] ELSE node))
      of(n) == Meaning(node.children[n], obj)
  IN CASE ~node.op -> {v.words : v \in {o \in reached : o.type = "string"}}
       [] node.data = "lower" -> {[n \in DOMAIN t |-> Lower(t[n])] : t \in of(1)}
       [] node.data = "split_words" -> UNION {{<<t[n]>> : n \in DOMAIN t} : t \in of(1)}
       [] node.data = "bool" ->
            of(1) \cup {<<IF v.b THEN "1" ELSE "0">> : v \in {o \in reached : o.type = "bool"}}
       [] node.data = "combine" -> UNION {of(n) : n \in DOMAIN node.children}
       [] node.data = "number" ->
            {Padded(v.n, node.children[2].data[1]) : v \in {o \in reached : o.type = "int" /\ o.n >= 0}}

\* What is evaluated of an expression: all but what follows the first argument
\* of lower, split_words and bool.
Arguments(node) == IF node.data = "combine" THEN DOMAIN node.children ELSE {1} \cap DOMAIN node.children
RECURSIVE Evaluated(_)
Evaluated(node) ==
  {node} \cup (IF node.op THEN UNION {Evaluated(node.children[n]) : n \in Arguments(node)} ELSE {})

\* The uses of number and bool for which there is no code: of an operation, and
\* of too few arguments.
Misused(node) ==
  \E use \in Evaluated(node) :
    \/ use.op /\ use.data \in {"number", "bool"} /\ use.children[1].op
    \/ use.op /\ use.data = "number" /\ Len(use.children) = 1

\* number(x, y), where y is not a number.
Widthless(node) ==
  \E use \in Evaluated(node) :
    use.op /\ use.data = "number" /\ Len(use.children) > 1
      /\ (use.children[2].op \/ use.children[2].data \notin {<<d>> : d \in Digits})
-----------------------------------------------------------------------------
(***************************************************************************)
(* Properties.                                                             *)
(***************************************************************************)

\* parse accepts what is an expression, however it is spaced, and nothing else:
\* its tree is the one that the expression denotes.
ParsesExpressions ==
  LET denoted == {t \in Trees(Bare(input)) : ~HasBadField(t)}
  IN /\ phase = "accepted" => denoted = {tree}
     /\ phase = "rejected" => denoted = {}

\* What is evaluated yields the texts the expression means, or, for the reason
\* given, an error; for some expressions that parse accepts, with too few
\* arguments or with an operation where only a field will do, it goes astray.
ValuesAreMeant ==
  phase = "evaluated" =>
    CASE status = "ok" -> ~Misused(tree) /\ ToSet(values) = Meaning(tree, object)
      [] status = "INVALID_VALUE_FOR_INDEX" -> Widthless(tree)
      [] OTHER -> Misused(tree)
=============================================================================
