----------------------------- MODULE MCDocuments -----------------------------
(* Small instances of Documents: one or two documents, two namespaces, one    *)
(* transition name whose update succeeds, fails or sets a TTL.                *)
EXTENDS Documents, TLC

CONSTANTS d1, d2, c1, c2, f, g, tr

Patches == {{f}, {g}}
LifeSpecs == {
  [name |-> tr, after |-> 0, when |-> {}, update |-> {g}, ttl |-> 1],
  [name |-> tr, after |-> 1, when |-> {f}, update |-> None, ttl |-> None]}
LifeTimes == {[ttl |-> None, beh |-> "archive"], [ttl |-> 1, beh |-> "archive"],
              [ttl |-> 1, beh |-> "delete"]}

Op(op, i, c, v) ==
  [op |-> op, id |-> i, coll |-> c, data |-> v, how |-> "mutate", unique |-> {},
   life |-> [ttl |-> None, beh |-> "archive"], spec |-> None, onConflict |-> "error"]
TxOps == UNION {{Op("insert", i, c1, {f}), Op("update", i, c1, {g}), Op("delete", i, c1, {})}
                 : i \in Docs}
TxPairs == {<<x, y>> : x, y \in TxOps}

==============================================================================
