------------------------------- MODULE KVOps --------------------------------
(***************************************************************************)
(* The write requests clients issue to the engine (Put, PutIf,             *)
(* PutIfAbsent, Delete, DeleteIf, BatchWrite, BatchWriteIf of              *)
(* internal/api) and their effect on a map from keys to values.            *)
(***************************************************************************)
EXTENDS Naturals, Sequences

CONSTANTS
  Keys,      \* the keys of the store
  Vals,      \* the values of the store
  None,      \* absence: a key with no value, and the "value" of a delete
  Requests   \* the write requests clients issue: [ops, conds]

ASSUME NoneAssumption == None \notin Vals

(***************************************************************************)
(* One operation of a request writes val to key, or deletes key when val   *)
(* is None.  A condition is one of the kinds of engine_conditional.go.     *)
(***************************************************************************)
Ops   == [key : Keys, val : Vals \cup {None}]
Conds == [key : Keys, kind : {"absent", "present", "equals"}, val : Vals \cup {None}]
Maps  == [Keys -> Vals \cup {None}]

ASSUME RequestsAssumption ==
  Requests \subseteq [ops : Seq(Ops) \ {<< >>}, conds : SUBSET Conds]

(* The last of the first n operations that touches key k decides its value. *)
ApplyPrefix(m, ops, n) ==
  [k \in Keys |->
     IF \E i \in 1..n : ops[i].key = k
     THEN ops[CHOOSE i \in 1..n : /\ ops[i].key = k
                                  /\ \A j \in (i+1)..n : ops[j].key # k].val
     ELSE m[k]]

ApplyOps(m, ops) == ApplyPrefix(m, ops, Len(ops))

(* checkConditionLocked: a condition against the value a key has in m. *)
Holds(c, m) ==
  CASE c.kind = "absent"  -> m[c.key] = None
    [] c.kind = "present" -> m[c.key] # None
    [] c.kind = "equals"  -> m[c.key] # None /\ m[c.key] = c.val
=============================================================================
