---------------------------------- MODULE Jql ----------------------------------
(****************************************************************************)
(* The filter language and the three programs that decide it: the compiler   *)
(* to a SQL WHERE clause (query/jql.rs), the matcher of positional updates    *)
(* (json_filter_matches) and that of computed fields (row_filter_matches).   *)
(*                                                                           *)
(* A filter object is the sequence of its entries in the order of their keys *)
(* (serde_json keeps objects sorted): [key, path, kids, tests].  key is      *)
(* "$and", "$or", "$nor", "$not", "op" (an operator on an array element) or  *)
(* "field".  A test is [op, arg, kids], kids being the filter of $elemMatch. *)
(* The segment "[]" of a path stands for the suffix of the field before it.  *)
(* Filters are well-formed: their operands have the types the operators take. *)
(* Not modelled: the LIKE and REGEXP operators, SQL's comparison across types *)
(* and $type of a string, which SQLite answers with an error.                 *)
(****************************************************************************)
EXTENDS Json, FiniteSets

Entry(key, path, kids, tests) == [key |-> key, path |-> path, kids |-> kids, tests |-> tests]
Test(op, arg, kids) == [op |-> op, arg |-> arg, kids |-> kids]
Field(path, tests) == Entry("field", path, <<>>, tests)
Combined(key, filters) == Entry(key, <<>>, filters, <<>>)

------------------------------------------------------------------------------
(* SQL: three truth values; a comparison with NULL is unknown, and a row is  *)
(* selected when its WHERE clause is true.                                   *)

Truth(b) == IF b THEN "true" ELSE "false"
SqlNot(t) == CASE t = "true" -> "false" [] t = "false" -> "true" [] OTHER -> "unknown"
SqlAnd(ts) == IF "false" \in ts THEN "false" ELSE IF "unknown" \in ts THEN "unknown" ELSE "true"
SqlOr(ts) == IF "true" \in ts THEN "true" ELSE IF "unknown" \in ts THEN "unknown" ELSE "false"

IsNull(v) == v.type \in {"missing", "null"}
\* ->> and json_each give a number; arrays and objects are text, unlike any.
SqlNumber(v) == CASE v.type = "integer" -> v.number [] v.type = "true" -> 1 [] OTHER -> -1
Compare(op, v, w) ==
  IF IsNull(v) \/ IsNull(w) THEN "unknown"
  ELSE LET x == SqlNumber(v)
           y == SqlNumber(w)
       IN Truth(CASE op = "$eq" -> x = y [] op = "$ne" -> x # y [] op = "$gt" -> x > y
                  [] op = "$gte" -> x >= y [] op = "$lt" -> x < y [] op = "$lte" -> x <= y)
InList(v, list) == SqlOr({Compare("$eq", v, w) : w \in ToSet(list)})
\* json_each(v): the items of an array, the values of an object, a scalar itself.
EachRow(v) ==
  CASE IsNull(v) -> <<>>
    [] IsArray(v) \/ IsObject(v) -> SelectSeq(v.kids, Present)
    [] OTHER -> <<v>>
\* EXISTS (SELECT 1 FROM json_each(v) WHERE value IN list)
Holds(v, list) == Truth(\E w \in ToSet(EachRow(v)) : InList(w, list) = "true")
JsonType(v) == IF v.type = "true" THEN "integer" ELSE v.type

\* The predicates compile_operator writes, on the value of the field.
Predicate(op, v, arg) ==
  CASE op \in {"$eq", "$ne", "$gt", "$gte", "$lt", "$lte"} -> Compare(op, v, arg)
    [] op = "$exists" -> Truth((arg = True) = ~IsNull(v))
    [] op = "$in" -> InList(v, Items(arg))
    [] op = "$nin" -> SqlNot(InList(v, Items(arg)))
    [] op = "$between" -> SqlAnd({Compare("$gte", v, Items(arg)[1]), Compare("$lte", v, Items(arg)[2])})
    [] op = "$size" -> IF IsNull(v) THEN "unknown" ELSE Truth(Len(Items(v)) = arg.number)
    [] op = "$includes" -> Holds(v, <<arg>>)
    [] op = "$nincludes" -> SqlNot(Holds(v, <<arg>>))
    [] op = "$any" -> Holds(v, Items(arg))
    [] op = "$none" -> SqlNot(Holds(v, Items(arg)))
    [] op = "is array" -> IF IsNull(v) THEN "unknown" ELSE Truth(JsonType(v) = "array")
    [] op = "is integer" -> IF IsNull(v) THEN "unknown" ELSE Truth(JsonType(v) = "integer")
    [] op = "is real" -> IF IsNull(v) THEN "unknown" ELSE "false"

------------------------------------------------------------------------------
(* A WHERE clause is text: terms joined by AND and OR, the AND binding       *)
(* tighter.  A term is a predicate, or another clause in parentheses, after  *)
(* NOT, or under EXISTS over the items of an array.                          *)

Where(term) == [terms |-> <<term>>, joins |-> <<>>]
Term(kind, path, op, arg, where) ==
  [kind |-> kind, path |-> path, op |-> op, arg |-> arg, where |-> where]
Atom(path, op, arg) == Where(Term("predicate", path, op, arg, <<>>))
Paren(w) == Where(Term("paren", <<>>, "", Null, <<w>>))
Not(w) == Where(Term("not", <<>>, "", Null, <<w>>))
Exists(path, w) == Where(Term("exists", path, "", Null, <<w>>))
Always == Where(Term("paren", <<>>, "1=1", Null, <<>>))

\* parts.join(" AND "): the texts are put side by side.
Join(parts, joiner) ==
  FoldLeft(LAMBDA w, part : [terms |-> w.terms \o part.terms,
                             joins |-> w.joins \o <<joiner>> \o part.joins],
           Head(parts), Tail(parts))

RECURSIVE Eval(_, _)
EvalTerm(t, v) ==
  CASE t.kind = "predicate" -> Predicate(t.op, GetPath(v, t.path), t.arg)
    [] t.kind = "not" -> SqlNot(Eval(t.where[1], v))
    [] t.kind = "exists" ->
         Truth(\E item \in ToSet(EachRow(GetPath(v, t.path))) : Eval(t.where[1], item) = "true")
    [] t.kind = "paren" -> IF t.where = <<>> THEN "true" ELSE Eval(t.where[1], v)
\* The terms of a conjunction run from one OR to the next.
Eval(w, v) ==
  LET n == Len(w.terms)
      Starts == {i \in 1..n : i = 1 \/ w.joins[i - 1] = "OR"}
      End(i) == CHOOSE j \in i..n : /\ j = n \/ w.joins[j] = "OR"
                                    /\ \A k \in i..(j - 1) : w.joins[k] = "AND"
  IN SqlOr({SqlAnd({EvalTerm(w.terms[j], v) : j \in i..End(i)}) : i \in Starts})

Selects(w, v) == Eval(w, v) = "true"

------------------------------------------------------------------------------
(* The compiler. *)

RECURSIVE Compile(_)

CompileTypePredicateBare(path, op) ==
  IF op = "$type number"
  THEN Join(<<Atom(path, "is integer", Null), Atom(path, "is real", Null)>>, "OR")
  ELSE Atom(path, "is array", Null)
CompileTypePredicate(path, op) ==
  IF op = "$type number"
  THEN Paren(Join(<<Atom(path, "is integer", Null), Atom(path, "is real", Null)>>, "OR"))
  ELSE Atom(path, "is array", Null)

CompileElemMatch(path, filter) == Exists(path, Compile(filter))

CompileOperator(path, t) ==
  CASE t.op = "$elemMatch" -> CompileElemMatch(path, t.kids[1])
    [] t.op = "$all" ->
         Paren(Join([i \in 1..Len(Items(t.arg)) |-> Atom(path, "$includes", Items(t.arg)[i])], "AND"))
    [] t.op \in {"$type number", "$type array"} -> CompileTypePredicate(path, t.op)
    [] OTHER -> Atom(path, t.op, t.arg)

CompileTests(path, tests) ==
  Join([i \in 1..Len(tests) |-> CompileOperator(path, tests[i])], "AND")

\* A path through one array: the rest of it is tested on the elements.
SplitFirstArrayPath(path) ==
  LET i == CHOOSE i \in 1..Len(path) : path[i] = "[]"
  IN <<SubSeq(path, 1, i - 1), SubSeq(path, i + 1, Len(path))>>
ElementFilter(rest, tests) ==
  IF rest # <<>> THEN <<Field(rest, tests)>>
  ELSE [i \in 1..Len(tests) |-> Entry("op", <<>>, <<>>, <<tests[i]>>)]
CompileField(path, tests) ==
  IF "[]" \in ToSet(path)
  THEN LET split == SplitFirstArrayPath(path)
       IN CompileElemMatch(split[1], ElementFilter(split[2], tests))
  ELSE CompileTests(path, tests)

CompileEntry(e) ==
  LET Parens == [i \in 1..Len(e.kids) |-> Paren(Compile(e.kids[i]))] IN
  CASE e.key = "$and" -> Join(Parens, "AND")
    [] e.key = "$or" -> Join(Parens, "OR")
    [] e.key = "$nor" -> Not(Join(Parens, "OR"))
    [] e.key = "$not" -> Not(Compile(e.kids[1]))
    [] e.key = "op" -> CompileTests(<<>>, e.tests)
    [] e.key = "field" -> CompileField(e.path, e.tests)

Compile(filter) ==
  IF filter = <<>> THEN Always
  ELSE Join([i \in 1..Len(filter) |-> CompileEntry(filter[i])], "AND")

\* build_where_with_namespace_scope and build_where_with_collection, with the
\* result of comparing the row's collection in place of the comparison.
ScopedBare(filter, inScope) ==
  Join(<<IF inScope THEN Always ELSE Not(Always), Compile(filter)>>, "AND")
Scoped(filter, inScope) ==
  Join(<<IF inScope THEN Always ELSE Not(Always), Paren(Compile(filter))>>, "AND")

------------------------------------------------------------------------------
(* json_filter_matches: an element of an array against a filter.  It answers  *)
(* yes or no, or an error, which refuses the update.                         *)

Verdict(b) == IF b THEN "yes" ELSE "no"
Opposite(r) == CASE r = "yes" -> "no" [] r = "no" -> "yes" [] OTHER -> r
\* A loop that goes on while the answer is go.
WhileAll(go, answers) ==
  LET stops == SelectSeq(answers, LAMBDA r : r # go) IN
  IF stops = <<>> THEN go ELSE Head(stops)

RECURSIVE JsonFilterMatches(_, _)

\* json_filter_values: every value at the path.
RECURSIVE JsonFilterValues(_, _)
JsonFilterValues(v, path) ==
  CASE path = <<>> -> IF Present(v) THEN <<v>> ELSE <<>>
    [] path # <<>> /\ Head(path) = "[]" ->
         FlattenSeq([i \in 1..Len(Items(v)) |-> JsonFilterValues(Items(v)[i], Tail(path))])
    [] OTHER -> JsonFilterValues(Child(v, Head(path)), Tail(path))

\* json_filter_operator_matches, on a value that is there.
OrderOps == {"$gt", "$gte", "$lt", "$lte"}
ArrayOps == {"$size", "$includes", "$nincludes", "$any", "$all", "$none", "$elemMatch"}
Decides(v, t) ==
  LET Args == ToSet(Items(t.arg))
      Elements == ToSet(Items(v))
  IN CASE t.op = "$eq" -> v = t.arg
       [] t.op = "$ne" -> v # t.arg
       [] t.op = "$gt" -> v.number > t.arg.number
       [] t.op = "$gte" -> v.number >= t.arg.number
       [] t.op = "$lt" -> v.number < t.arg.number
       [] t.op = "$lte" -> v.number <= t.arg.number
       [] t.op = "$exists" -> t.arg = True
       [] t.op = "$in" -> v \in Args
       [] t.op = "$nin" -> v \notin Args
       [] t.op = "$between" ->
            /\ v.type = "integer"
            /\ Items(t.arg)[1].number <= v.number /\ v.number <= Items(t.arg)[2].number
       [] t.op = "$size" -> Len(Items(v)) = t.arg.number
       [] t.op = "$includes" -> t.arg \in Elements
       [] t.op = "$nincludes" -> t.arg \notin Elements
       [] t.op = "$any" -> Args \cap Elements # {}
       [] t.op = "$all" -> Args \subseteq Elements
       [] t.op = "$none" -> Args \cap Elements = {}
       [] t.op = "$type number" -> v.type = "integer"
       [] t.op = "$type array" -> IsArray(v)
OperatorMatches(v, t) ==
  CASE t.op \in ArrayOps /\ ~IsArray(v) -> "error"
    [] t.op \in OrderOps /\ {v.type, t.arg.type} # {"integer"} -> "error"
    [] t.op = "$elemMatch" /\ IsArray(v) ->
         WhileAll("no", [i \in 1..Len(Items(v)) |-> JsonFilterMatches(Items(v)[i], t.kids[1])])
    [] OTHER -> Verdict(Decides(v, t))

\* json_field_predicate_matches: the values found at the field's path.  An error
\* of a negative operator counts as no.
TestMatches(values, t) ==
  CASE t.op \in {"$ne", "$nin", "$nincludes"} ->
         Verdict(values # <<>> /\ \A v \in ToSet(values) : OperatorMatches(v, t) = "yes")
    [] t.op = "$exists" -> Verdict((values # <<>>) = (t.arg = True))
    [] OTHER -> WhileAll("no", [i \in 1..Len(values) |-> OperatorMatches(values[i], t)])
PredicateMatches(values, tests) ==
  WhileAll("yes", [i \in 1..Len(tests) |-> TestMatches(values, tests[i])])

EntryMatches(v, e) ==
  LET answers == [i \in 1..Len(e.kids) |-> JsonFilterMatches(v, e.kids[i])] IN
     CASE e.key = "op" ->
            WhileAll("yes", [i \in 1..Len(e.tests) |-> OperatorMatches(v, e.tests[i])])
       [] e.key = "field" -> PredicateMatches(JsonFilterValues(v, e.path), e.tests)
       [] e.key = "$not" -> Opposite(answers[1])
       [] e.key \in {"$and", "$or", "$nor"} ->
            IF "error" \in ToSet(answers) THEN "error"
            ELSE Verdict(CASE e.key = "$and" -> "no" \notin ToSet(answers)
                           [] e.key = "$or" -> "yes" \in ToSet(answers)
                           [] e.key = "$nor" -> "yes" \notin ToSet(answers))
JsonFilterMatches(v, filter) ==
  WhileAll("yes", [i \in 1..Len(filter) |-> EntryMatches(v, filter[i])])

(* row_filter_matches: a computed field's rows; anything else is no match. *)
RowFieldMatchesMissing(v, e) ==
  Len(e.path) = 1 /\ \A t \in ToSet(e.tests) :
    t.op \in {"$eq", "$ne", "$in", "$nin"} /\ OperatorMatches(GetPath(v, e.path), t) = "yes"
RowFieldMatches(v, e) ==
  /\ Len(e.path) = 1 /\ Present(GetPath(v, e.path))
  /\ \A t \in ToSet(e.tests) :
       t.op \in {"$eq", "$ne", "$in", "$nin"} /\ OperatorMatches(GetPath(v, e.path), t) = "yes"
RECURSIVE RowFilterMatches(_, _)
RowFilterMatches(v, filter) ==
  \A e \in ToSet(filter) :
    CASE e.key = "$and" -> \A f \in ToSet(e.kids) : RowFilterMatches(v, f)
      [] e.key = "$or" -> \E f \in ToSet(e.kids) : RowFilterMatches(v, f)
      [] e.key = "field" -> RowFieldMatches(v, e)
      [] OTHER -> FALSE
===============================================================================
