------------------------------ MODULE MCEngine ------------------------------
(* Instances of Engine for TLC. *)
EXTENDS Engine, TLC

CONSTANTS k1, k2, v1, v2

Put(k, v) == [key |-> k, val |-> v]
Del(k)    == [key |-> k, val |-> None]
Always(ops) == [ops |-> ops, conds |-> {}]
If(ops, k, kind, v) == [ops |-> ops, conds |-> {[key |-> k, kind |-> kind, val |-> v]}]

(* Overwrites, deletes, a batch over two keys and one that writes a key twice. *)
MCRequests ==
  {Always(<<Put(k1, v1)>>), Always(<<Put(k1, v2)>>), Always(<<Del(k1)>>),
   Always(<<Put(k2, v1)>>),
   Always(<<Put(k2, v2), Del(k1)>>),
   If(<<Put(k1, v2)>>, k1, "equals", v1),
   If(<<Put(k2, v2)>>, k2, "absent", None),
   If(<<Del(k1), Put(k1, v1)>>, k1, "present", None)}

(* A put and a delete of one key: the fault runs are about the log, and about
   which pages reach the disk, not about what the requests say. *)
MCFewRequests == {Always(<<Put(k1, v1)>>), Always(<<Del(k1)>>)}
=============================================================================
