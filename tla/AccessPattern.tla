---------------------------- MODULE AccessPattern ---------------------------
(***************************************************************************)
(* How a DynamoDB statement will be carried out, told from its text and    *)
(* the keys of the table or index it reads: a PartiQL SELECT, or a native  *)
(* Query of a key condition and a filter.                                  *)
(*                                                                         *)
(* A statement is a sequence of tokens, of which the parser makes a tree;  *)
(* numbers stand for any literal, and "bad" for what the tokenizer cannot  *)
(* read.  A predicate is written down by Written, the reference of what    *)
(* the parser reads, and Holds says of which items it is true.             *)
(***************************************************************************)
EXTENDS Integers, Sequences, FiniteSets, SequencesExt

CONSTANTS Predicates,  \* bound: the predicates, as trees
          Requests     \* bound: the requests, but for their predicates

VARIABLES request,     \* [kind, where, keys, ...] and how it is written
          pattern      \* the access pattern, once it is told

avars == <<request, pattern>>

None == "none"
Keywords == {"SELECT", "FROM", "WHERE", "ORDER", "BY", "ASC", "DESC", "LIMIT", "AS",
             "AND", "OR", "NOT", "BETWEEN", "IN"}
Names    == {"pk", "sk", "a", "b", "#p", "t", "ix", "begins_with", "size", "attribute_exists"}
IsWord(token)   == token \in Keywords \union Names
IsNumber(token) == token \in {"1", "3"}
IsValue(token)  == IsNumber(token) \/ token \in {"?", "'?'"}
Comparisons     == {"=", "<>", "<"}

Node(kind, kids) == [kind |-> kind, attribute |-> None, op |-> None, kids |-> kids]
Compare(attribute, op) == [Node("compare", <<>>) EXCEPT !.attribute = attribute, !.op = op]
Other == Node("other", <<>>)

-----------------------------------------------------------------------------
\* The parser: a position in the tokens, 0 once it has failed.
At(s, p) == IF p \in DOMAIN s THEN s[p] ELSE "eof"
Expect(s, p, token) == IF At(s, p) = token THEN p + 1 ELSE 0
Read(p, node) == [pos |-> p, node |-> node]
Failed == Read(0, Other)
Parsed(p, node) == IF p = 0 THEN Failed ELSE Read(p, node)

RECURSIVE Segments(_, _), SkipValue(_, _), SkipMore(_, _, _)

Segments(s, p) ==
  CASE At(s, p) = "." -> IF IsWord(At(s, p + 1)) THEN Segments(s, p + 2) ELSE 0
    [] At(s, p) = "[" -> IF IsNumber(At(s, p + 1)) /\ At(s, p + 2) = "]" THEN Segments(s, p + 3) ELSE 0
    [] OTHER -> p
ParsePath(s, p) == IF IsWord(At(s, p)) THEN Segments(s, p + 1) ELSE 0

SkipMore(s, p, close) ==
  IF At(s, p) = "," THEN SkipMore(s, SkipValue(s, p + 1), close) ELSE Expect(s, p, close)
SkipList(s, p, close) == IF At(s, p) = close THEN p + 1 ELSE SkipMore(s, SkipValue(s, p), close)
SkipCall(s, end) == IF At(s, end) = "(" THEN SkipList(s, end + 1, ")") ELSE end
SkipValue(s, p) ==
  CASE IsValue(At(s, p)) -> p + 1
    [] At(s, p) = "[" -> SkipList(s, p + 1, "]")
    [] IsWord(At(s, p)) -> SkipCall(s, ParsePath(s, p))
    [] OTHER -> 0

Bracketed(s, p) == At(s, p) \in {"[", "("}
Operands(s, p, op) ==
  CASE op = "BETWEEN" -> SkipValue(s, Expect(s, SkipValue(s, p), "AND"))
    [] op = "IN" -> IF Bracketed(s, p) THEN SkipList(s, p + 1, IF At(s, p) = "[" THEN "]" ELSE ")") ELSE 0
    [] OTHER -> SkipValue(s, p)
MaybeTrailingComparison(s, p, attribute) ==
  CASE At(s, p) \in {"BETWEEN", "IN"} \union Comparisons ->
         Parsed(Operands(s, p + 1, At(s, p)), Compare(attribute, At(s, p)))
    [] At(s, p) = "NOT" /\ At(s, p + 1) \in {"BETWEEN", "IN"} ->
         Parsed(Operands(s, p + 2, At(s, p + 1)), Compare(attribute, "NOT " \o At(s, p + 1)))
    [] OTHER -> IF At(s, p) = "NOT" \/ attribute # None THEN Failed ELSE Parsed(p, Other)

\* A function is not compared by its argument, but for begins_with.
AfterCall(s, p) == IF p = 0 THEN Failed ELSE MaybeTrailingComparison(s, p, None)
AfterPath(s, p, end) ==
  CASE end = 0 -> Failed
    [] At(s, end) # "(" -> MaybeTrailingComparison(s, end, At(s, p))
    [] At(s, p) = "begins_with" /\ end = p + 1 ->
         Parsed(Expect(s, SkipValue(s, Expect(s, ParsePath(s, end + 1), ",")), ")"),
                Compare(At(s, end + 1), "begins_with"))
    [] OTHER -> AfterCall(s, SkipList(s, end + 1, ")"))
ParsePredicate(s, p) == AfterPath(s, p, ParsePath(s, p))

RECURSIVE ParseNot(_, _), ParseAnd(_, _), ParseOr(_, _), Ands(_, _, _), Ors(_, _, _)

Negated(kid) == Parsed(kid.pos, Node("NOT", <<kid.node>>))
Closed(s, kid) == Parsed(Expect(s, kid.pos, ")"), kid.node)
ParseNot(s, p) ==
  CASE At(s, p) = "NOT" -> Negated(ParseNot(s, p + 1))
    [] At(s, p) = "(" -> Closed(s, ParseOr(s, p + 1))
    [] OTHER -> ParsePredicate(s, p)

\* The members of a chain of AND, or of OR, of which the last is read.
Chained(word, pos, kids) == Parsed(pos, IF Len(kids) = 1 THEN kids[1] ELSE Node(word, kids))
Ands(s, kid, kids) ==
  IF kid.pos # 0 /\ At(s, kid.pos) = "AND"
  THEN Ands(s, ParseNot(s, kid.pos + 1), Append(kids, kid.node))
  ELSE Chained("AND", kid.pos, Append(kids, kid.node))
Ors(s, kid, kids) ==
  IF kid.pos # 0 /\ At(s, kid.pos) = "OR"
  THEN Ors(s, ParseAnd(s, kid.pos + 1), Append(kids, kid.node))
  ELSE Chained("OR", kid.pos, Append(kids, kid.node))
\* Mutant: AND and OR bind alike.
ParseAnd_Loose(s, p) == ParseNot(s, p)
ParseAnd(s, p) == Ands(s, ParseNot(s, p), <<>>)
ParseOr(s, p)  == Ors(s, ParseAnd(s, p), <<>>)

\* The position after the projection.
RECURSIVE Attributes(_, _)
Attributes(s, p) ==
  LET end   == ParsePath(s, p)
      after == IF At(s, end) = "AS" THEN ParsePath(s, end + 1) ELSE end
  IN  IF At(s, after) = "," THEN Attributes(s, after + 1) ELSE after
ParseProjection(s, p) == IF At(s, p) = "*" THEN p + 1 ELSE Attributes(s, p)

NoSelect == [ok |-> FALSE, table |-> None, index |-> None, where |-> <<>>, forward |-> None, limit |-> None]

\* parseSelect clause by clause, the select so far at position p.
ParseEnd(s, p, select) ==
  IF p # 0 /\ At(s, IF At(s, p) = ";" THEN p + 1 ELSE p) = "eof" THEN select ELSE NoSelect
ParseLimit(s, p, select) ==
  IF At(s, p) # "LIMIT" THEN ParseEnd(s, p, select)
  ELSE IF IsNumber(At(s, p + 1)) THEN ParseEnd(s, p + 2, [select EXCEPT !.limit = At(s, p + 1)])
  ELSE NoSelect
ParseWay(s, p, select) ==
  IF At(s, p) \in {"ASC", "DESC"} THEN ParseLimit(s, p + 1, [select EXCEPT !.forward = At(s, p)])
  ELSE ParseLimit(s, p, select)
ParseOrder(s, p, select) ==
  IF At(s, p) = "ORDER" THEN ParseWay(s, ParsePath(s, Expect(s, p + 1, "BY")), select)
  ELSE ParseLimit(s, p, select)
ParseWhere(s, where, select) == ParseOrder(s, where.pos, [select EXCEPT !.where = <<where.node>>])
ParseIndex(s, p, select) ==
  IF At(s, p) = "WHERE" THEN ParseWhere(s, ParseOr(s, p + 1), select) ELSE ParseOrder(s, p, select)
ParseFrom(s, p, select) ==
  CASE p = 0 \/ ~IsWord(At(s, p)) -> NoSelect
    [] At(s, p + 1) # "." -> ParseIndex(s, p + 1, [select EXCEPT !.table = At(s, p)])
    [] IsWord(At(s, p + 2)) ->
         ParseIndex(s, p + 3, [select EXCEPT !.table = At(s, p), !.index = At(s, p + 2)])
    [] OTHER -> NoSelect
ParseSelect(s) ==
  IF "bad" \in ToSet(s) THEN NoSelect
  ELSE ParseFrom(s, Expect(s, ParseProjection(s, Expect(s, 1, "SELECT")), "FROM"),
                 [NoSelect EXCEPT !.ok = TRUE])

-----------------------------------------------------------------------------
\* Classification: is the partition key given?
RECURSIVE GuaranteesKeyEquality(_, _), FindFirstComparison(_, _), CollectAttributes(_)
RECURSIVE ResolveAttributeNames(_, _)

\* Mutant: one alternative that gives the key is enough.
GuaranteesKeyEquality_AnyOr(node, key) ==
  CASE node.kind \in {"AND", "OR"} -> \E i \in DOMAIN node.kids : GuaranteesKeyEquality(node.kids[i], key)
    [] node.kind = "compare" -> node.attribute = key /\ node.op \in {"=", "IN"}
    [] OTHER -> FALSE
GuaranteesKeyEquality(node, key) ==
  CASE node.kind = "AND" -> \E i \in DOMAIN node.kids : GuaranteesKeyEquality(node.kids[i], key)
    [] node.kind = "OR"  -> \A i \in DOMAIN node.kids : GuaranteesKeyEquality(node.kids[i], key)
    [] node.kind = "compare" -> node.attribute = key /\ node.op \in {"=", "IN"}
    [] OTHER -> FALSE

FindFirstComparison(node, key) ==
  IF node.kind = "compare" THEN IF node.attribute = key THEN node.op ELSE None
  ELSE LET found == SelectSeq([i \in DOMAIN node.kids |-> FindFirstComparison(node.kids[i], key)],
                              LAMBDA op : op # None)
       IN  IF found = <<>> THEN None ELSE Head(found)

CollectAttributes(node) ==
  (IF node.kind = "compare" THEN {node.attribute} \ {None} ELSE {})
  \union UNION {CollectAttributes(node.kids[i]) : i \in DOMAIN node.kids}

\* The names of a native request's attributes, "#p" for the key.
ResolveAttributeNames(node, given) ==
  [node EXCEPT !.attribute = IF given /\ @ = "#p" THEN "pk" ELSE @,
               !.kids = [i \in DOMAIN @ |-> ResolveAttributeNames(@[i], given)]]

Unsettled == [path |-> "unknown", certain |-> FALSE, partitionOp |-> None, sortOp |-> None,
              keyed |-> {}, filter |-> {}, filtered |-> FALSE, forward |-> None, limit |-> None]
Reportable == {"=", "<", "BETWEEN", "begins_with"}

\* where is empty or one node.
Classify(where, keys, index, forward, limit) ==
  LET query == where # <<>> /\ GuaranteesKeyEquality(where[1], keys.partition)
      all   == IF where = <<>> THEN {} ELSE CollectAttributes(where[1])
      op(k) == IF where = <<>> \/ k = None THEN None ELSE FindFirstComparison(where[1], k)
      rest  == IF query THEN all \ {keys.partition, keys.sort} ELSE all
  IN  [path |-> IF query THEN IF index = None THEN "tableQuery" ELSE "indexQuery"
                ELSE IF index = None THEN "tableScan" ELSE "indexScan",
       certain |-> TRUE,
       partitionOp |-> IF op(keys.partition) \in {"=", "IN"} THEN op(keys.partition) ELSE None,
       sortOp |-> IF op(keys.sort) \in Reportable THEN op(keys.sort) ELSE None,
       keyed |-> {k \in {keys.partition, keys.sort} \ {None} : op(k) # None},
       filter |-> rest, filtered |-> rest # {}, forward |-> forward, limit |-> limit]

-----------------------------------------------------------------------------
\* How a request is written.
RECURSIVE Written(_)
Enclosed(node) == IF node.kind \in {"AND", "OR"} THEN <<"(">> \o Written(node) \o <<")">> ELSE Written(node)
RECURSIVE Joined(_, _)
Joined(parts, word) == IF Len(parts) = 1 THEN parts[1] ELSE parts[1] \o <<word>> \o Joined(Tail(parts), word)
Written(node) ==
  LET args == node.args IN
  CASE node.kind = "NOT" -> <<"NOT">> \o Enclosed(node.kids[1])
    [] node.kind = "AND" -> Joined([i \in DOMAIN node.kids |-> Enclosed(node.kids[i])], "AND")
    [] node.kind = "OR"  ->
         Joined([i \in DOMAIN node.kids |->
                   IF node.kids[i].kind = "AND" THEN Written(node.kids[i]) ELSE Enclosed(node.kids[i])], "OR")
    [] node.op = "begins_with" -> <<"begins_with", "(", node.attribute, ",", args[1], ")">>
    [] node.op = "exists"      -> <<"attribute_exists", "(", node.attribute, ")">>
    [] node.op = "size"        -> <<"size", "(", node.attribute, ")", "=", args[1]>>
    [] node.op = "path"        -> <<node.attribute, ".", "b", "[", "1", "]", "=", args[1]>>
    [] node.op = "IN"          -> <<node.attribute, "IN", "(">> \o Joined([i \in DOMAIN args |-> <<args[i]>>], ",") \o <<")">>
    [] node.op = "NOT IN"      -> <<node.attribute, "NOT", "IN", "[", args[1], "]">>
    [] node.op = "BETWEEN"     -> <<node.attribute, "BETWEEN", args[1], "AND", args[2]>>
    [] node.op = "NOT BETWEEN" -> <<node.attribute, "NOT", "BETWEEN", args[1], "AND", args[2]>>
    [] OTHER -> <<node.attribute, node.op, args[1]>>

WrittenSelect(r) ==
  <<"SELECT">> \o r.projection \o <<"FROM", "t">> \o (IF r.index = None THEN <<>> ELSE <<".", r.index>>)
  \o (IF r.where = <<>> THEN <<>> ELSE <<"WHERE">> \o Written(r.where[1]))
  \o (IF r.order = None THEN <<>> ELSE <<"ORDER", "BY", "sk", r.order>>)
  \o (IF r.limit = None THEN <<>> ELSE <<"LIMIT", r.limit>>) \o r.rest

Init ==
  /\ pattern = Unsettled
  /\ \E r \in Requests, where \in {<<>>} \union {<<p>> : p \in Predicates} :
       /\ \A i \in DOMAIN where : where[i].kind = "compare" \/ r.plain
       /\ ~(r.kind = "query" /\ where = <<>>)
       /\ request = [r EXCEPT !.where = where]

\* extractDynamoPartiqlTarget refuses what cannot be read.
AnalyzePartiql ==
  /\ request.kind = "partiql" /\ pattern = Unsettled
  /\ LET select == ParseSelect(WrittenSelect(request)) IN
     /\ select.ok
     /\ pattern' = Classify(select.where, request.keys, select.index, select.forward, select.limit)
  /\ UNCHANGED request

\* A native Query has the filter apart from the key condition, whose names are given or not.
Tell(key, length, filter) ==
  /\ key.pos = length + 1
  /\ pattern' = [Classify(<<ResolveAttributeNames(key.node, request.given)>>, request.keys, request.index,
                           request.order, request.limit) EXCEPT !.filter = @ \union filter,
                                                                !.filtered = @ \/ request.filter # <<>>]
ReadKeyCondition(tokens, filter) == Tell(ParseOr(tokens, 1), Len(tokens), filter)
FilterAttributes(written) == CollectAttributes(ResolveAttributeNames(ParseOr(written, 1).node, request.given))
AnalyzeNativeQuery ==
  /\ request.kind = "query" /\ pattern = Unsettled
  /\ ReadKeyCondition(Written(request.where[1]) \o request.rest,
                      IF request.filter = <<>> THEN {} ELSE FilterAttributes(Written(request.filter[1])))
  /\ UNCHANGED request

Next == AnalyzePartiql \/ AnalyzeNativeQuery

-----------------------------------------------------------------------------
\* Of which items a predicate is true: attributes have values 0 to 4, of which literals
\* are 1 and 3, "#p" is the partition key, and what begins with 1 is 1 or 2.
Item(key, v, others) == [x \in {"pk", "sk", "a"} |-> IF x = key THEN v ELSE others]
Value(item, x) == CASE x = "1" -> 1 [] x = "3" -> 3 [] x = "#p" -> item["pk"] [] OTHER -> item[x]
RECURSIVE Holds(_, _)
Holds(node, item) ==
  LET v    == Value(item, node.attribute)
      w(i) == Value(item, node.args[i])
  IN  CASE node.kind = "AND" -> \A i \in DOMAIN node.kids : Holds(node.kids[i], item)
        [] node.kind = "OR"  -> \E i \in DOMAIN node.kids : Holds(node.kids[i], item)
        [] node.kind = "NOT" -> ~Holds(node.kids[1], item)
        [] node.op = "="  -> v = w(1)
        [] node.op = "<>" -> v # w(1)
        [] node.op = "<"  -> v < w(1)
        [] node.op = "IN" -> \E i \in DOMAIN node.args : v = w(i)
        [] node.op = "NOT IN"  -> \A i \in DOMAIN node.args : v # w(i)
        [] node.op = "BETWEEN" -> w(1) <= v /\ v <= w(2)
        [] node.op = "NOT BETWEEN" -> ~(w(1) <= v /\ v <= w(2))
        [] node.op = "begins_with" -> v = w(1) \/ (w(1) = 1 /\ v = 2)
        [] node.op = "path" -> FALSE
        [] OTHER -> TRUE
-----------------------------------------------------------------------------
RECURSIVE Compiled(_), Leaves(_), WithoutNot(_)
Compiled(node) ==
  CASE node.kind # "compare" -> Node(node.kind, [i \in DOMAIN node.kids |-> Compiled(node.kids[i])])
    [] node.op = "exists" -> Other
    [] node.op = "size"   -> Compare(None, "=")
    [] node.op = "path"   -> Compare(node.attribute, "=")
    [] OTHER -> Compare(node.attribute, node.op)
Leaves(node) ==
  IF node.kind = "compare" THEN {node} ELSE UNION {Leaves(node.kids[i]) : i \in DOMAIN node.kids}

WithoutNot(node) == node.kind # "NOT" /\ \A i \in DOMAIN node.kids : WithoutNot(node.kids[i])

\* A statement is read as it is written, each operator with its own operands, and one
\* with anything more is refused ("refuse to guess").
ReadAsWritten ==
  IF request.kind = "partiql"
  THEN LET select == ParseSelect(WrittenSelect(request)) IN
       /\ select.ok <=> request.rest \in {<<>>, <<";">>}
       /\ select.ok => /\ select.where = [i \in DOMAIN request.where |-> Compiled(request.where[i])]
                       /\ select.index = request.index /\ select.limit = request.limit
                       /\ select.forward = request.order
  ELSE LET written == Written(request.where[1])
       IN  ParseOr(written, 1) = Read(Len(written) + 1, Compiled(request.where[1]))

Predicate  == request.where[1]
Key        == request.keys.partition
IsKey(x)   == x = Key \/ (x = "#p" /\ Key = "pk")
Query      == pattern.path \in {"tableQuery", "indexQuery"}
Values     == [key : 0 .. 4, others : {0, 1, 3}]
OfLiterals(leaf) == \A i \in DOMAIN leaf.args : ~IsWord(leaf.args[i])
Foreign(v) == v.key \in {0, 2, 4}
Satisfied(v) == Holds(Predicate, Item(Key, v.key, v.others))
Resolved == request.given \/ \A leaf \in Leaves(Predicate) : leaf.attribute # "#p"

\* A statement that is said to query reads only items whose key it names, unless it
\* compares the key with another attribute; and one without NOT that is said to scan
\* may read an item of any other key.
QueryNamesItsKeys ==
  pattern.certain /\ request.where # <<>> /\ Resolved =>
    /\ Query /\ (\A leaf \in Leaves(Predicate) : IsKey(leaf.attribute) => OfLiterals(leaf))
         => \A v \in Values : Foreign(v) => ~Satisfied(v)
    /\ ~Query /\ (\A leaf \in Leaves(Predicate) : OfLiterals(leaf) /\ leaf.op # "path") /\ WithoutNot(Predicate)
         => \/ \A v \in Values : ~Satisfied(v)
            \/ \E v \in Values : Foreign(v) /\ Satisfied(v)

\* Every attribute that a statement compares is shown: as a key or as a filter, which
\* is there when the statement has one.
AttributesAreShown ==
  pattern.certain /\ request.where # <<>> /\ Resolved =>
    /\ \A leaf \in Leaves(Predicate) : leaf.op \notin {"size", "exists"} =>
         \/ leaf.attribute \in pattern.keyed \union pattern.filter
         \/ leaf.attribute = "#p" /\ "pk" \in pattern.keyed \union pattern.filter
    /\ \A i \in DOMAIN request.filter : pattern.filtered
    /\ pattern.filter # {} => pattern.filtered
=============================================================================
