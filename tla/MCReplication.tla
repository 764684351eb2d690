--------------------------- MODULE MCReplication ----------------------------
(* Instances of Replication for TLC. *)
EXTENDS Replication, TLC

CONSTANTS k1, k2, v1, v2, f1, f2, id1, id2

Put(k, v) == [key |-> k, val |-> v]
Del(k)    == [key |-> k, val |-> None]
Request(ops) == [ops |-> ops, conds |-> {}]

(* One key, overwritten and deleted. *)
MCPut     == {Request(<<Put(k1, v1)>>)}
MCSingles == MCPut \cup {Request(<<Del(k1)>>)}

(* A put of one key and a batch that moves a value to another key. *)
MCBatches == {Request(<<Put(k2, v1), Del(k1)>>)}
MCMixed   == MCPut \cup MCBatches

(* Every follower has a name of its own, or both were given the same one. *)
OwnIds    == [f \in Followers |-> IF f = f1 THEN id1 ELSE id2]
SharedIds == [f \in Followers |-> id1]
=============================================================================
