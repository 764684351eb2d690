-------------------------- MODULE ReplicatedStore ---------------------------
(***************************************************************************)
(* What replication promises readers of a follower, without streams, files *)
(* or channels (docs/v1-semantics.md section 3, ROADMAP.md gate            *)
(* "Replication"): a follower shows some earlier state of the leader,      *)
(* moves through the leader's states one at a time, and does not go back,  *)
(* not even when it is restarted.                                          *)
(*                                                                         *)
(*   history  the leader's map after every record;                         *)
(*   at       how many records a follower has taken over;                  *)
(*   seen     the map its readers see, Hidden while it is down.            *)
(*                                                                         *)
(* Module Replication implements this specification.                       *)
(***************************************************************************)
EXTENDS KVOps

CONSTANTS Followers, Hidden

VARIABLES history, at, seen

rsVars == <<history, at, seen>>

RSInit ==
  /\ history = <<[k \in Keys |-> None]>>
  /\ at = [f \in Followers |-> 0]
  /\ seen = [f \in Followers |-> history[1]]

(* A record, or a number that no record has. *)
RSCommit ==
  /\ \E ops \in {r.ops : r \in Requests} \cup {<< >>} :
       history' = Append(history, ApplyOps(history[Len(history)], ops))
  /\ UNCHANGED <<at, seen>>

(* A follower takes the next record over. *)
RSFollow(f) ==
  /\ seen[f] # Hidden /\ at[f] + 1 < Len(history)
  /\ at' = [at EXCEPT ![f] = @ + 1]
  /\ seen' = [seen EXCEPT ![f] = history[at[f] + 2]]
  /\ UNCHANGED history

RSStop(f) ==
  /\ seen' = [seen EXCEPT ![f] = Hidden]
  /\ UNCHANGED <<history, at>>

(* A follower comes back with what it had. *)
RSStart(f) ==
  /\ seen' = [seen EXCEPT ![f] = history[at[f] + 1]]
  /\ UNCHANGED <<history, at>>

RSNext == RSCommit \/ \E f \in Followers : RSFollow(f) \/ RSStop(f) \/ RSStart(f)

RSSpec == RSInit /\ [][RSNext]_rsVars
=============================================================================
