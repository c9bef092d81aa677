------------------------------- MODULE Mutations -------------------------------
(****************************************************************************)
(* The mutation engine (tx_mutation.rs): what `update` makes of a document   *)
(* and `user_update` and `file_update` of their JSON data, and how positional *)
(* paths pick the array elements they change.                                *)
(*                                                                           *)
(* A patch is the sequence of its entries in the order of their paths:       *)
(* [path, op, arg, target].  op "set" stands for a plain value, target is    *)
(* the destination of $rename.  The segment "$e" of a path is the selector   *)
(* $[e]; filters are the array_filters of the request, a function from       *)
(* selectors to filters, None when there are none.                           *)
(****************************************************************************)
EXTENDS Jql

CONSTANTS
  Patches,   \* the patches requests carry, each with its array filters
  Filters,   \* the filters requests carry
  Documents, \* the documents updates start from
  MaxNumber, \* bound: numbers
  MaxItems,  \* bound: items of an array
  MaxUpdates, \* bound: updates of the document
  None

VARIABLES
  doc,     \* a stored document, or the JSON data of a user or a file
  updates  \* how many it has had

Selectors == {"$e"}
Set(path, value) == [path |-> path, op |-> "set", arg |-> value, target |-> <<>>]
Mutate(path, op, arg) == [path |-> path, op |-> op, arg |-> arg, target |-> <<>>]
Rename(path, target) == [path |-> path, op |-> "$rename", arg |-> Null, target |-> target]
IsPositional(path) == \E s \in Selectors : s \in ToSet(path)

Applied(v) == [ok |-> TRUE, doc |-> v]
Refused == [ok |-> FALSE, doc |-> Null]
\* What cannot be done is refused when operators are strict, and left out otherwise.
Unless(strict, v) == IF strict THEN Refused ELSE Applied(v)

\* apply_array_op: a missing or null field becomes an array first.
ItemsAt(v, path) == LET current == GetPath(v, path) IN
                    IF IsArray(current) THEN Items(current) ELSE <<>>
ApplyArrayOp(v, path, strict, changed) ==
  LET current == GetPath(v, path) IN
  IF IsArray(current) \/ IsNull(current) THEN Applied(SetPath(v, path, Arr(changed)))
  ELSE Unless(strict, v)

Candidates(arg) == IF IsArray(arg) THEN Items(arg) ELSE <<arg>>
Without(items, gone) == SelectSeq(items, LAMBDA item : item \notin ToSet(gone))
AddSet(items, new) ==
  FoldLeft(LAMBDA acc, item : IF item \in ToSet(acc) THEN acc ELSE Append(acc, item), items, new)

ParseIncDelta(arg) == IF arg = True THEN 1 ELSE arg.number

RenameField(v, path, target, strict) ==
  CASE IsStrictPrefix(path, target) -> Unless(strict, v)
    [] target = path \/ ~Present(GetPath(v, path)) -> Applied(v)
    [] OTHER -> Applied(SetPath(DropPath(v, path), target, GetPath(v, path)))

ApplySingleMutationField(v, path, e, strict) ==
  LET current == GetPath(v, path) IN
  CASE e.op = "set" -> Applied(SetPath(v, path, e.arg))
    [] e.op = "$replace" ->
         IF IsObject(e.arg) THEN Applied(SetPath(v, path, e.arg)) ELSE Unless(strict, v)
    [] e.op = "$unset" ->
         IF e.arg = True THEN Applied(DropPath(v, path)) ELSE Unless(strict, v)
    [] e.op = "$inc" ->
         CASE e.arg.type \notin {"integer", "true"} -> Unless(strict, v)
           [] current.type = "integer" ->
                Applied(SetPath(v, path, Number(current.number + ParseIncDelta(e.arg))))
           [] IsNull(current) -> Applied(SetPath(v, path, Number(ParseIncDelta(e.arg))))
           [] OTHER -> Unless(strict, v)
    [] e.op = "$push" -> ApplyArrayOp(v, path, strict, Append(ItemsAt(v, path), e.arg))
    [] e.op = "$pop" ->
         IF e.arg \notin {True, Number(1), Number(-1)} /\ strict THEN Refused
         ELSE ApplyArrayOp(v, path, strict,
                LET items == ItemsAt(v, path) IN
                CASE items = <<>> -> items
                  [] e.arg = Number(-1) -> Tail(items)
                  [] OTHER -> Front(items))
    [] e.op = "$extend" ->
         IF IsArray(e.arg) THEN ApplyArrayOp(v, path, strict, ItemsAt(v, path) \o Items(e.arg))
         ELSE Unless(strict, v)
    [] e.op = "$pull" ->
         ApplyArrayOp(v, path, strict, Without(ItemsAt(v, path), Candidates(e.arg)))
    [] e.op = "$addset" ->
         ApplyArrayOp(v, path, strict, AddSet(ItemsAt(v, path), Candidates(e.arg)))
    [] e.op = "$rename" -> RenameField(v, path, e.target, strict)
    [] OTHER -> Unless(strict, v)

\* apply_positional_mutation, for one selector: the elements its filter matches.
ApplyPositionalMutation(v, e, filters, strict) ==
  LET i == CHOOSE i \in 1..Len(e.path) : e.path[i] \in Selectors
      prefix == SubSeq(e.path, 1, i - 1)
      rest == SubSeq(e.path, i + 1, Len(e.path))
      target == GetPath(v, prefix)
      Changed(item) ==
        CASE JsonFilterMatches(item, filters[e.path[i]]) = "yes" ->
               ApplySingleMutationField(item, rest, e, strict)
          [] JsonFilterMatches(item, filters[e.path[i]]) = "no" -> Applied(item)
          [] OTHER -> Refused
      items == [k \in 1..Len(Items(target)) |-> Changed(Items(target)[k])]
  IN CASE ~Present(target) -> Applied(v)
       [] ~IsArray(target) -> Unless(strict, v)
       [] \E k \in DOMAIN items : ~items[k].ok -> Refused
       [] OTHER -> Applied(SetPath(v, prefix, Arr([k \in DOMAIN items |-> items[k].doc])))

\* validate_positional_mutation_contract
ContractKept(patch, filters) ==
  LET Used == UNION {ToSet(e.path) \cap Selectors : e \in ToSet(patch)} IN
  /\ \A e \in ToSet(patch) : {Head(e.path), Last(e.path)} \cap Selectors = {}
  /\ IF filters = None THEN Used = {}
     ELSE /\ Used # {} /\ DOMAIN filters = Used
          /\ \A s \in Used : filters[s] # <<>>

ApplyMutationPatch(v, patch, filters, strict) ==
  LET Step(acc, e) ==
        CASE ~acc.ok -> acc
          [] IsPositional(e.path) -> ApplyPositionalMutation(acc.doc, e, filters, strict)
          [] OTHER -> ApplySingleMutationField(acc.doc, e.path, e, strict)
  IN IF ContractKept(patch, filters) THEN FoldLeft(Step, Applied(v), patch) ELSE Refused

UpdateRequiresMutationEngine(patch) ==
  \E e \in ToSet(patch) : Len(e.path) > 1 \/ e.op # "set"

\* The document `update` makes: plain data is merged by SQLite's json_patch.
PatchObject(patch) == FoldLeft(LAMBDA v, e : SetPath(v, e.path, e.arg), Empty, patch)
Updated(v, patch, filters, strict) ==
  IF filters # None \/ UpdateRequiresMutationEngine(patch)
  THEN ApplyMutationPatch(v, patch, filters, strict)
  ELSE Applied(MergePatch(v, PatchObject(patch)))

\* apply_json_object_update: the data of user_update, the metadata of file_update.
\* A sole $replace at the root is an entry with the empty path.
JsonObjectUpdated(v, patch, strict) ==
  IF \E e \in ToSet(patch) : e.path = <<>>
  THEN IF Len(patch) = 1 /\ IsObject(patch[1].arg) THEN Applied(patch[1].arg) ELSE Refused
  ELSE ApplyMutationPatch(IF IsObject(v) THEN v ELSE Empty, patch, None, strict)

------------------------------------------------------------------------------
RECURSIVE Bounded(_)
Bounded(v) ==
  /\ v.number \in 0..MaxNumber /\ (IsArray(v) => Len(v.kids) <= MaxItems)
  /\ \A i \in 1..Len(v.kids) : Bounded(v.kids[i])
Store(result) ==
  /\ updates < MaxUpdates /\ result.ok /\ Bounded(result.doc)
  /\ doc' = result.doc /\ updates' = updates + 1

Init == doc \in Documents /\ updates = 0
Update == \E p \in Patches, strict \in BOOLEAN :
  /\ \A e \in ToSet(p.patch) : e.path # <<>>
  /\ Store(Updated(doc, p.patch, p.filters, strict))
UserUpdate == \E p \in Patches, strict \in BOOLEAN :
  p.filters = None /\ Store(JsonObjectUpdated(doc, p.patch, strict))
Next == Update \/ UserUpdate
Spec == Init /\ [][Next]_<<doc, updates>>

------------------------------------------------------------------------------
(* What the filters and the mutations promise each other. *)

\* The evaluators are known to differ in three ways.  On a negation of a field
\* that is missing or null SQL does not know, the matchers do: every field of a
\* definite filter is there, and no value of a regular one's $ne or $nin is null.
\* SQL takes a scalar for an array of one element: a regular filter has none.
RECURSIVE Definite(_, _)
Definite(f, v) ==
  \A e \in ToSet(f) :
    /\ e.key = "field" => ~IsNull(GetPath(v, e.path))
    /\ \A t \in ToSet(e.tests) : t.op = "$elemMatch" =>
         \A item \in ToSet(Items(GetPath(v, e.path))) : Definite(t.kids[1], item)
    /\ \A kid \in ToSet(e.kids) : Definite(kid, v)
RECURSIVE Regular(_, _)
Regular(f, v) ==
  \A e \in ToSet(f) :
    LET there == GetPath(v, e.path)
        spread == GetPath(v, SplitFirstArrayPath(e.path)[1])
    IN /\ "[]" \in ToSet(e.path) => IsArray(spread) \/ IsNull(spread)
       /\ \A t \in ToSet(e.tests) :
            /\ t.op \in {"$ne", "$nin"} => there.type # "null"
            /\ t.op = "$nincludes" => IsArray(there)
            /\ t.op = "$elemMatch" => \A item \in ToSet(Items(there)) : Regular(t.kids[1], item)
       /\ \A kid \in ToSet(e.kids) : Regular(kid, v)
Positive == {"$eq", "$gt", "$gte", "$lt", "$lte", "$in", "$between", "$size", "$includes", "$any",
             "$all", "$type number", "$type array", "$ne", "$nin"}
RECURSIVE Affirmative(_)
Affirmative(f) ==
  \A e \in ToSet(f) :
    /\ e.key \notin {"$not", "$nor"} /\ \A kid \in ToSet(e.kids) : Affirmative(kid)
    /\ \A t \in ToSet(e.tests) : \/ t.op \in Positive
                                \/ (t.op = "$elemMatch" /\ Affirmative(t.kids[1]))
\* An $or with a sibling is compiled to something else (see SiblingsConjoined).
RECURSIVE LoneOrs(_)
LoneOrs(f) ==
  \A e \in ToSet(f) :
    /\ e.key = "$or" /\ Len(e.kids) > 1 => Len(f) = 1
    /\ \A kid \in ToSet(e.kids) : LoneOrs(kid)
    /\ \A t \in ToSet(e.tests) : \A kid \in ToSet(t.kids) : LoneOrs(kid)
Comparable(f, v) == LoneOrs(f) /\ Regular(f, v) /\ (Affirmative(f) \/ Definite(f, v))

\* A positional update changes the elements that a query with the same filter
\* under $elemMatch selects a document for, if the matcher does not refuse it:
\* the SQL the filter is compiled to and the matcher written in Rust decide the
\* same of every element (json_filter_matches against compile_filter_on_base).
\* The update marks the elements with a number no element has.
PositionalMatchesQuery ==
  LET items == Items(GetPath(doc, <<"items">>))
      Mark == <<Set(<<"items", "$e", "profile">>, Number(MaxNumber + 1))>>
  IN \A f \in Filters : (items # <<>> /\ \A i \in 1..Len(items) : Comparable(f, items[i])) =>
       LET result == Updated(doc, Mark, [s \in Selectors |-> f], FALSE)
           changed == {i \in 1..Len(items) :
                         Items(GetPath(result.doc, <<"items">>))[i] # items[i]}
           query == <<Field(<<"items">>, <<Test("$elemMatch", Null, <<f>>)>>)>>
       IN result.ok =>
            /\ changed = {i \in 1..Len(items) : Selects(Compile(f), items[i])}
            /\ changed # {} <=> Selects(Compile(query), doc)

\* A computed field's rows are the documents the same filter selects, for the
\* operators row_filter_matches knows and fields that are not null.
ComputedMatchesQuery ==
  LET RECURSIVE Known(_)
      Known(f) == \A e \in ToSet(f) :
        /\ e.key \in {"$and", "$or"} \/ (e.key = "field" /\ Len(e.path) = 1)
        /\ GetPath(doc, e.path) # Null
        /\ \A t \in ToSet(e.tests) : t.op \in {"$eq", "$ne", "$in", "$nin"}
        /\ \A kid \in ToSet(e.kids) : Known(kid)
  IN \A f \in Filters : Known(f) /\ LoneOrs(f) =>
       (RowFilterMatches(doc, f) <=> Selects(Compile(f), doc))

\* A filter, whatever its alternatives, never selects a row of another
\* namespace, and in its own it selects what it says.
ScopeKept ==
  \A f \in Filters : /\ ~Selects(Scoped(f, FALSE), doc)
                     /\ Selects(Scoped(f, TRUE), doc) <=> Selects(Compile(f), doc)

\* An update changes the fields its paths name, the source and the destination
\* of a $rename, and no field besides.
OnlyTargetsChange ==
  LET Prefix(path) == IF IsPositional(path)
                      THEN SubSeq(path, 1, (CHOOSE i \in 1..Len(path) : path[i] \in Selectors) - 1)
                      ELSE path
      Footprint(e) == {Prefix(e.path)} \cup IF e.op = "$rename" THEN {e.target} ELSE {}
      Overlap(p, q) == IsPrefix(p, q) \/ IsPrefix(q, p)
      Paths == {<<x>> : x \in ToSet(Fields)} \cup {<<"profile", x>> : x \in ToSet(Fields)}
  IN \A p \in Patches, strict \in BOOLEAN : (\A e \in ToSet(p.patch) : e.path # <<>>) =>
       LET after == Updated(doc, p.patch, p.filters, strict)
           Named == UNION {Footprint(e) : e \in ToSet(p.patch)}
       IN after.ok =>
            \A path \in Paths : (\A q \in Named : ~Overlap(path, q)) =>
               GetPath(after.doc, path) = GetPath(doc, path)

\* DOCUMENTATION.md: "Multiple fields in one object are implicitly joined with
\* AND", so that a filter selects what each of its entries selects.
SiblingsConjoined ==
  \A f \in Filters : f # <<>> =>
    (Selects(Compile(f), doc) <=> \A e \in ToSet(f) : Selects(Compile(<<e>>), doc))

\* DOCUMENTATION.md: plain data is a merge patch, and "the same patch behavior
\* applies to Identity user_update.data and File file_update.metadata".
SamePatchBehavior ==
  \A p \in Patches : (\A e \in ToSet(p.patch) : e.path # <<>> /\ e.op = "set" /\ Len(e.path) = 1) =>
    JsonObjectUpdated(doc, p.patch, FALSE) = Updated(doc, p.patch, None, FALSE)
===============================================================================
