------------------------------ MODULE KVStore -------------------------------
(***************************************************************************)
(* What the storage engine promises its clients, without pages or a log:   *)
(* a map from keys to values that survives crashes (docs/v1-semantics.md   *)
(* section 2, ROADMAP.md "A successful acknowledged write must survive a   *)
(* single-node process crash and restart").                                *)
(*                                                                         *)
(*   db    the map a restart would come back with;                         *)
(*   view  what readers are given: the map itself while the engine serves, *)
(*         nothing while a writer or a checkpoint holds the engine lock,   *)
(*         after a halt, or while the process is down or recovering.       *)
(*                                                                         *)
(* Module Engine implements this specification.                            *)
(***************************************************************************)
EXTENDS KVOps

-----------------------------------------------------------------------------
VARIABLES db, view

kvVars == <<db, view>>

Serving(m)  == [st |-> "serving", map |-> m]
Hidden(why) == [st |-> why, map |-> [k \in Keys |-> None]]

KVInit ==
  /\ db = [k \in Keys |-> None]
  /\ view = Serving(db)

(* A request whose conditions hold in what readers see becomes durable, all
   of its operations at once. *)
KVCommit(r) ==
  /\ view.st = "serving"
  /\ \A c \in r.conds : Holds(c, view.map)
  /\ db' = ApplyOps(db, r.ops)
  /\ view' \in {Hidden("busy"), Hidden("halted")}

(* The acknowledgement: readers now see exactly what a restart would give. *)
KVAck ==
  /\ view.st = "busy"
  /\ view' = Serving(db)
  /\ UNCHANGED db

(* A checkpoint or a snapshot takes the lock and changes nothing. *)
KVLock ==
  /\ view.st = "serving"
  /\ view' = Hidden("busy")
  /\ UNCHANGED db

(* An I/O error: no further write is accepted until a restart. *)
KVHalt ==
  /\ view.st \in {"serving", "busy"}
  /\ view' = Hidden("halted")
  /\ UNCHANGED db

(* A crash or an orderly stop, at any point. *)
KVStop ==
  /\ view' = Hidden("offline")
  /\ UNCHANGED db

(* Recovery ends: everything committed is there, and nothing else. *)
KVStart ==
  /\ view.st = "offline"
  /\ view' = Serving(db)
  /\ UNCHANGED db

KVNext ==
  \/ \E r \in Requests : KVCommit(r)
  \/ KVAck
  \/ KVLock
  \/ KVHalt
  \/ KVStop
  \/ KVStart

KVSpec == KVInit /\ [][KVNext]_kvVars
=============================================================================
