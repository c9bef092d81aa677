--------------------------------- MODULE Json ---------------------------------
(****************************************************************************)
(* JSON values and their paths, as the filter compiler and the mutation      *)
(* engine see them.  A value is a record of its type, the number it is, and  *)
(* its children: the items of an array, the fields of an object in the order *)
(* of Fields, Missing where absent.  Scalars are numbers, true and null.     *)
(* A path is a sequence of field names; the code writes them with dots.      *)
(****************************************************************************)
EXTENDS Integers, Sequences, SequencesExt

Fields == <<"count", "tags", "kind", "items", "profile">>
FieldIndex(name) == CHOOSE i \in 1..Len(Fields) : Fields[i] = name

JsonValue(type, number, kids) == [type |-> type, number |-> number, kids |-> kids]
Missing == JsonValue("missing", 0, <<>>)
Null == JsonValue("null", 0, <<>>)
Number(n) == JsonValue("integer", n, <<>>)
True == JsonValue("true", 0, <<>>)
Arr(items) == JsonValue("array", 0, items)
Obj(fields) ==
  JsonValue("object", 0,
    [i \in 1..Len(Fields) |-> IF Fields[i] \in DOMAIN fields THEN fields[Fields[i]] ELSE Missing])
Empty == Obj(<<>>)

IsObject(v) == v.type = "object"
IsArray(v) == v.type = "array"
Present(v) == v.type # "missing"
Items(v) == IF IsArray(v) THEN v.kids ELSE <<>>

\* Value::get: the child under a name; only an object has one.
Child(v, name) == IF IsObject(v) THEN v.kids[FieldIndex(name)] ELSE Missing
WithChild(v, name, child) == [v EXCEPT !.kids[FieldIndex(name)] = child]

\* get_path
GetPath(v, path) == FoldLeft(Child, v, path)

\* set_path: whatever on the way is not an object becomes an empty one.
RECURSIVE SetPathFresh(_, _, _)
SetPathFresh(v, path, new) ==
  WithChild(IF IsObject(v) THEN v ELSE Empty, Head(path),
            IF Len(path) = 1 THEN new ELSE SetPathFresh(Empty, Tail(path), new))
RECURSIVE SetPath(_, _, _)
SetPath(v, path, new) ==
  LET object == IF IsObject(v) THEN v ELSE Empty IN
  WithChild(object, Head(path),
            IF Len(path) = 1 THEN new
            ELSE SetPath(Child(object, Head(path)), Tail(path), new))

\* drop_path: nothing happens when the parent is not an object.
RECURSIVE DropPath(_, _)
DropPath(v, path) ==
  IF ~IsObject(v) THEN v
  ELSE WithChild(v, Head(path),
                 IF Len(path) = 1 THEN Missing ELSE DropPath(Child(v, Head(path)), Tail(path)))

\* SQLite's json_patch (RFC 7396): objects are merged, null removes a field,
\* anything else replaces what was there.
RECURSIVE MergePatch(_, _)
MergePatch(v, patch) ==
  IF ~IsObject(patch) THEN patch
  ELSE LET object == IF IsObject(v) THEN v ELSE Empty
           Merged(i) == LET p == patch.kids[i] IN
                        CASE p.type = "missing" -> object.kids[i]
                          [] p.type = "null" -> Missing
                          [] OTHER -> MergePatch(object.kids[i], p)
       IN [object EXCEPT !.kids = [i \in 1..Len(Fields) |-> Merged(i)]]
===============================================================================
