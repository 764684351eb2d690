---------------------------- MODULE LargeValues -------------------------------
(* Values that do not fit in a tuple (internal/api/engine_large.go): a chain of
   chunk tuples, written from its end, and a manifest that heads it.  Engine models
   a value as one tuple; here is what makes a chain behave like one.  A call holds
   the engine's lock, so a call is one step; a call that fails halts the engine, which
   goes on reading, and what its restart does with the log is in Engine.  freeTuple
   reports no error: whatever it frees, some tuples may stay where they are. *)
EXTENDS Integers, Sequences, FiniteSets

CONSTANTS
  Keys, Values,
  Chunks,        \* [Values -> Nat]: how many chunks a value takes, 0 if it is inline
  Slots,         \* where tuples are: positive numbers
  Free, NoValue,
  MaxFaults      \* bound on the calls that meet I/O errors

Tuples == [kind : {"inline", "chunk", "manifest"}, value : Values, at : Nat, next : Nat]

LargeAssumption ==
  /\ Chunks \in [Values -> Nat] /\ Slots \subseteq Nat \ {0}
  /\ MaxFaults \in Nat /\ NoValue \notin Values /\ Free \notin Tuples

VARIABLES
  heap,          \* the tuple in every slot
  leaf,          \* the index: [slot, large], or slot 0 for a key that is not there
  hidden,        \* keys of the leaves that the index leads past
  halted, faults,
  acked,         \* history: what the acknowledged calls say
  undecided,     \* history: <<key, value>> of a call that failed in the index
  orphans        \* history: the tuples an I/O error left behind
history == <<acked, undecided, orphans>>
vars == <<heap, leaf, hidden, halted, faults, history>>

NoRID == [slot |-> 0, large |-> FALSE]
Tuple(kind, v, at, next) == [kind |-> kind, value |-> v, at |-> at, next |-> next]

FreeSlots == {s \in Slots : heap[s] = Free}

(* The slots a value is put in, its chunks in order and then its manifest; which
   ones makes no difference to what is here, so they ascend. *)
Places(v) == {p \in [1..(Chunks[v] + 1) -> FreeSlots] :
                \A i, j \in DOMAIN p : i < j => p[i] < p[j]}

Written(h, v, p) ==
  LET n == Chunks[v]
      kind(i) == IF n = 0 THEN "inline" ELSE IF i <= n THEN "chunk" ELSE "manifest"
      next(i) == IF i > n THEN (IF n = 0 THEN 0 ELSE p[1]) ELSE IF i = n THEN 0 ELSE p[i + 1]
      at(s) == CHOOSE i \in DOMAIN p : p[i] = s
  IN  [s \in Slots |-> IF \E i \in DOMAIN p : p[i] = s
                       THEN Tuple(kind(at(s)), v, at(s), next(at(s))) ELSE h[s]]

Freed(h, S) == [s \in Slots |-> IF s \in S THEN Free ELSE h[s]]

(* walkChain, with the manifest's length, checksum and number of chunks: the slots
   of a chain that is whole, {} of any other. *)
ChainOf(h, m) ==
  LET v == h[m].value
      step[i \in 0..Chunks[v]] == IF i = 0 THEN h[m].next
                                  ELSE IF step[i - 1] = 0 \/ h[step[i - 1]] = Free THEN 0
                                  ELSE h[step[i - 1]].next
      S == {step[i - 1] : i \in 1..Chunks[v]}
      whole == /\ step[Chunks[v]] = 0 /\ 0 \notin S
               /\ \A i \in 1..Chunks[v] :
                    h[step[i - 1]] # Free /\ h[step[i - 1]].kind = "chunk"
                    /\ h[step[i - 1]].value = v /\ h[step[i - 1]].at = i
  IN  IF h[m] = Free \/ h[m].kind # "manifest" THEN {} ELSE IF whole THEN S ELSE {}

SlotsOf(h, rid) ==
  IF rid.slot = 0 THEN {}
  ELSE IF ~rid.large THEN IF h[rid.slot] = Free THEN {} ELSE {rid.slot}
  ELSE IF ChainOf(h, rid.slot) = {} THEN {} ELSE ChainOf(h, rid.slot) \cup {rid.slot}

ReadValue(h, rid) ==
  IF SlotsOf(h, rid) = {} THEN NoValue ELSE h[rid.slot].value

(* Get, which reports a chain that is not whole as an error. *)
Get(k) == IF k \in hidden THEN NoValue ELSE ReadValue(heap, leaf[k])

----------------------------------------------------------------------------
Init ==
  /\ heap = [s \in Slots |-> Free] /\ leaf = [k \in Keys |-> NoRID] /\ hidden = {}
  /\ halted = FALSE /\ faults = 0
  /\ acked = [k \in Keys |-> NoValue] /\ undecided = {} /\ orphans = {}

Fault == faults < MaxFaults /\ faults' = faults + 1
Halt  == ~halted /\ Fault /\ halted' = TRUE

RidAt(v, p) == [slot |-> p[Chunks[v] + 1], large |-> Chunks[v] > 0]
SlotsIn(p)  == {p[i] : i \in DOMAIN p}

FreeManifestOnly(h, rid) == Freed(h, {rid.slot} \cap Slots) \* mutant: the chunks stay
FreeValue(h, rid)        == Freed(h, SlotsOf(h, rid))

Put(k, v) ==
  /\ ~halted
  /\ \E p \in Places(v) :
       /\ heap' = FreeValue(Written(heap, v, p), leaf[k])
       /\ leaf' = [leaf EXCEPT ![k] = RidAt(v, p)]
  /\ acked' = [acked EXCEPT ![k] = v]
  /\ UNCHANGED <<hidden, halted, faults, undecided, orphans>>

(* A tuple cannot be inserted: those before it are freed again, but for the ones
   whose pages cannot be fetched. *)
UndoNothing(h, S) == h \* mutant: none is freed
Undo(h, S)        == Freed(h, S)
PutFails(k, v) ==
  /\ Halt
  /\ \E p \in Places(v), n \in 0..Chunks[v] :
       LET w == Written(heap, v, p)
           written == {p[i] : i \in (Chunks[v] - n + 1)..Chunks[v]}
       IN  \E lost \in SUBSET written :
             /\ heap' = Undo([s \in Slots |-> IF s \in written THEN w[s] ELSE heap[s]],
                             written \ lost)
             /\ orphans' = orphans \cup lost
  /\ UNCHANGED <<leaf, hidden, acked, undecided>>

(* tree.Insert fails.  It has not taken the new value, which stays where it is; or
   it has, in a split that stops halfway: the old value stays, and lookups may miss
   the keys of the half that no parent leads to. *)
IndexFails(k, v) ==
  /\ Halt
  /\ \E p \in Places(v) :
       /\ heap' = Written(heap, v, p)
       /\ \/ /\ orphans' = orphans \cup SlotsIn(p)
             /\ UNCHANGED <<leaf, hidden>>
          \/ /\ leaf' = [leaf EXCEPT ![k] = RidAt(v, p)]
             /\ orphans' = orphans \cup SlotsOf(heap, leaf[k])
             /\ hidden' \in SUBSET Keys
  /\ undecided' = {<<k, v>>} /\ UNCHANGED acked

(* Some tuples of the old value are left, or the whole chain is, when it cannot be
   walked. *)
PutLeaks(k, v) ==
  /\ ~halted /\ Fault /\ leaf[k].slot # 0
  /\ \E p \in Places(v), lost \in SUBSET SlotsOf(heap, leaf[k]) \ {{}} :
       /\ heap' = Freed(Written(heap, v, p), SlotsOf(heap, leaf[k]) \ lost)
       /\ orphans' = orphans \cup lost
       /\ leaf' = [leaf EXCEPT ![k] = RidAt(v, p)]
  /\ acked' = [acked EXCEPT ![k] = v]
  /\ UNCHANGED <<hidden, halted, undecided>>

Delete(k) ==
  /\ ~halted /\ leaf[k].slot # 0
  /\ heap' = FreeValue(heap, leaf[k])
  /\ leaf' = [leaf EXCEPT ![k] = NoRID] /\ acked' = [acked EXCEPT ![k] = NoValue]
  /\ UNCHANGED <<hidden, halted, faults, undecided, orphans>>

(* The value is freed, or what can be of it, before the index forgets the key,
   which fails: the delete is not acknowledged, and the key leads to what is left. *)
DeleteFails(k) ==
  /\ Halt /\ leaf[k].slot # 0
  /\ \E lost \in SUBSET SlotsOf(heap, leaf[k]) :
       heap' = Freed(heap, SlotsOf(heap, leaf[k]) \ lost) /\ orphans' = orphans \cup lost
  /\ undecided' = {<<k, NoValue>>} /\ UNCHANGED <<leaf, hidden, acked>>
DeleteLeaks(k) ==
  /\ ~halted /\ Fault /\ leaf[k].slot # 0
  /\ \E lost \in SUBSET SlotsOf(heap, leaf[k]) \ {{}} :
       heap' = Freed(heap, SlotsOf(heap, leaf[k]) \ lost) /\ orphans' = orphans \cup lost
  /\ leaf' = [leaf EXCEPT ![k] = NoRID] /\ acked' = [acked EXCEPT ![k] = NoValue]
  /\ UNCHANGED <<hidden, halted, undecided>>

Next ==
  \/ \E k \in Keys, v \in Values : Put(k, v) \/ PutFails(k, v) \/ IndexFails(k, v) \/ PutLeaks(k, v)
  \/ \E k \in Keys : Delete(k) \/ DeleteFails(k) \/ DeleteLeaks(k)
Spec == Init /\ [][Next]_vars

----------------------------------------------------------------------------
\* An engine that has not halted gives every key the value acknowledged last, whole;
\* one that has halted still does, but for a key that a half-done split hides, and
\* for the key of the call that failed in the index, which may show what that call
\* was to leave.  No two keys share a tuple, and every tuple in use is part of a
\* key's value or was left behind by an I/O error: of a free, an undo or the index.
ChainsExact ==
  /\ \A k \in Keys : \/ Get(k) = acked[k]
                     \/ halted /\ (k \in hidden \/ <<k, Get(k)>> \in undecided)
  /\ \A j, k \in Keys : j # k => SlotsOf(heap, leaf[j]) \cap SlotsOf(heap, leaf[k]) = {}
  /\ Slots \ FreeSlots = orphans \cup UNION {SlotsOf(heap, leaf[k]) : k \in Keys}
==============================================================================
