------------------------------ MODULE MCMutations ------------------------------
(* Small sets of patches and filters for Mutations. *)
EXTENDS Mutations

One == Number(1)
Two == Number(2)
count == <<"count">>
kind == <<"kind">>
tags == <<"tags">>
items == <<"items">>
profileCount == <<"profile", "count">>

WithItems(first, second) ==
  Obj([count |-> One, tags |-> Arr(<<One>>), kind |-> One, items |-> Arr(<<first, second>>),
       profile |-> Obj([kind |-> One, count |-> Two])])
\* Items with numbers, with arrays, and with a null and a number for an array.
MCDocument == WithItems(Obj([count |-> One, kind |-> Two]), Obj([kind |-> One]))
MCDocuments ==
  LET Tagged(n, some) == Obj([count |-> n, kind |-> One, tags |-> Arr(some)])
      Odd == Obj([count |-> Null, kind |-> One, tags |-> Two])
  IN {MCDocument, WithItems(Tagged(One, <<One>>), Tagged(Two, <<One, Two>>)),
      WithItems(Tagged(Two, <<>>), Tagged(One, <<Two>>)), WithItems(Odd, Tagged(One, <<Two>>))}

If(f) == [s \in Selectors |-> f]
Is(path, op, arg) == Field(path, <<Test(op, arg, <<>>)>>)
Between12 == Field(count, <<Test("$gte", One, <<>>), Test("$lt", Two, <<>>)>>)

\* Leaves over the fields of documents and of their items.
Leaves ==
  {Is(count, "$eq", One), Between12, Is(count, "$ne", One), Is(count, "$exists", Null),
   Is(kind, "$in", Arr(<<One, Two>>)), Is(kind, "$nin", Arr(<<Two>>)), Is(kind, "$gt", One),
   Is(tags, "$includes", One), Is(tags, "$all", Arr(<<One, Two>>)), Is(profileCount, "$lte", One)}
MoreLeaves ==
  {Is(count, "$between", Arr(<<One, Two>>)), Is(count, "$exists", True),
   Is(count, "$type number", Null), Is(tags, "$nincludes", One), Is(tags, "$any", Arr(<<One, Two>>)),
   Is(tags, "$none", Arr(<<Two>>)), Is(tags, "$size", One), Is(items, "$type array", Null),
   Is(<<"items", "[]", "kind">>, "$eq", Two), Is(<<"tags", "[]">>, "$gte", Two)}
MCFilters ==
  LET Single == {<<leaf>> : leaf \in Leaves \cup MoreLeaves}
      Pairs == {<<Between12, q>> : q \in {Is(kind, "$gt", One), Is(tags, "$all", Arr(<<One, Two>>))}}
      Kids == {<<p>> : p \in Leaves} \cup Pairs
      Groups == {<<f, <<Is(count, "$eq", One)>>>> : f \in Kids}
                \cup {<<f, <<Between12, Is(kind, "$gt", One)>>>> : f \in Pairs}
      Combinations == {<<Combined(key, g)>> : key \in {"$and", "$or", "$nor"}, g \in Groups}
  IN {<<>>} \cup Single \cup Pairs \cup Combinations
     \cup {<<Combined("$not", <<f>>)>> : f \in Kids}
     \cup {<<Combined("$or", g), Is(kind, "$gt", One)>> : g \in Groups}
     \cup {<<Is(count, "$type number", Null), Is(kind, "$nin", Arr(<<Two>>))>>}
     \cup {<<Field(items, <<Test("$elemMatch", Null, <<<<Between12, Is(kind, "$gt", One)>>>>)>>)>>}

Plain(patch) == [patch |-> patch, filters |-> None]
MCPatches ==
  {Plain(<<Set(count, Two)>>), Plain(<<Set(kind, Null), Set(<<"profile">>, Obj([kind |-> Two]))>>),
   Plain(<<Mutate(count, "$inc", One)>>), Plain(<<Mutate(count, "$inc", Number(-1))>>),
   Plain(<<Mutate(profileCount, "$inc", True)>>), Plain(<<Mutate(profileCount, "$unset", True)>>),
   Plain(<<Mutate(tags, "$push", Two)>>), Plain(<<Mutate(tags, "$pop", Number(-1))>>),
   Plain(<<Mutate(tags, "$pop", True)>>), Plain(<<Mutate(tags, "$extend", Arr(<<Two, One>>))>>),
   Plain(<<Mutate(tags, "$pull", Arr(<<One>>))>>), Plain(<<Mutate(tags, "$addset", Arr(<<One, Two>>))>>),
   Plain(<<Rename(count, kind)>>), Plain(<<Rename(profileCount, count)>>),
   Plain(<<Rename(count, profileCount)>>), Plain(<<Rename(<<"profile">>, profileCount)>>),
   Plain(<<Mutate(kind, "$unset", True)>>), Plain(<<Mutate(<<"profile">>, "$replace", Obj([count |-> One]))>>),
   Plain(<<Mutate(<<>>, "$replace", MCDocument)>>), Plain(<<Mutate(kind, "$unknown", One)>>),
   [patch |-> <<Mutate(<<"items", "$e", "count">>, "$inc", One)>>, filters |-> If(<<Is(kind, "$eq", One)>>)],
   [patch |-> <<Rename(<<"items", "$e", "count">>, kind)>>, filters |-> If(<<Is(count, "$eq", One)>>)],
   [patch |-> <<Mutate(<<"items", "$e", "kind">>, "$unset", True)>>, filters |-> If(<<Is(count, "$ne", One)>>)],
   [patch |-> <<Mutate(<<"items", "$e", "tags">>, "$push", Two)>>, filters |-> If(<<Is(tags, "$size", One)>>)],
   [patch |-> <<Mutate(<<"items", "$e", "tags">>, "$unset", True)>>, filters |-> If(<<Is(tags, "$nincludes", Two)>>)],
   [patch |-> <<Mutate(<<"tags", "$e", "kind">>, "$unset", True)>>, filters |-> None]}
===============================================================================
