----------------------------- MODULE UserContext -----------------------------
(***************************************************************************)
(* The panel of a user's record: useUserContext scans every populated      *)
(* partition for the user's records, all at once.  Another user's record,  *)
(* new counts and each rendering of the page start it again; nothing stops *)
(* what was started before.  Records of a collection are known by whose    *)
(* they are.                                                               *)
(***************************************************************************)
EXTENDS Naturals, FiniteSets

CONSTANTS
  Users, NoHash,    \* user records, one of which has no user hash
  UserPrefixes,     \* partitions other than the users' own
  Holds,            \* Holds[u]: the partitions that hold records of u
  MaxLoads,         \* bound: loads under way
  Idle, Pending, Failed, Unknown

(* What stands for nothing yet is no user and no load. *)
UserLoads == [user : Users, ans : UNION {[P -> {Pending, Failed} \cup BOOLEAN] : P \in SUBSET UserPrefixes}]
UserAssumption == Pending \notin Users /\ Idle \notin UserLoads

VARIABLES
  shown, counts,        \* the record in the details panel; populated partitions
  collections, ready,   \* what the panel shows: an owner, or Pending, by partition
  loads                 \* loads under way: the user, and an answer by partition

vars == <<shown, counts, collections, ready, loads>>
Slots == 1..MaxLoads

None == [p \in {} |-> Idle]

(* The records with an email or a username are shown in this panel, and a
   click on a record in it shows that one. *)
Start(u, cs) ==
  IF u = NoHash \/ cs = Unknown
  THEN UNCHANGED <<collections, ready, loads>>
  ELSE IF cs = {} THEN ready' = TRUE /\ UNCHANGED <<collections, loads>>
  ELSE /\ collections' = [p \in cs |-> Pending] /\ ready' = FALSE
       /\ \E s \in Slots :
            /\ loads[s] = Idle /\ \A t \in Slots : t < s => loads[t] # Idle
            /\ loads' = [loads EXCEPT ![s] = [user |-> u, ans |-> [p \in cs |-> Pending]]]

Init ==
  /\ shown \in Users /\ counts = Unknown /\ ready = FALSE
  /\ collections = None /\ loads = [s \in Slots |-> Idle]

Show(u) == u # shown /\ shown' = u /\ counts' = counts /\ Start(u, counts)
(* A refresh, or the timer, brings counts or renders the page once more. *)
Render(cs) == counts' = cs /\ shown' = shown /\ Start(shown, cs)

ScanAnswered(s, p) ==
  /\ loads[s] # Idle /\ p \in DOMAIN loads[s].ans /\ loads[s].ans[p] = Pending
  /\ \E a \in {(p \in Holds[loads[s].user]), Failed} : loads' = [loads EXCEPT ![s].ans[p] = a]
  /\ UNCHANGED <<shown, counts, collections, ready>>

(* Promise.all: what failed counts as empty, and what is empty is left out. *)
ResultMerged(s) == \* mutant: the answers are merged into what is shown
  LET got == {p \in DOMAIN loads[s].ans : loads[s].ans[p] = TRUE}
  IN  [p \in got \cup DOMAIN collections |-> IF p \in got THEN loads[s].user ELSE collections[p]]
Result(s) ==
  [p \in {p \in DOMAIN loads[s].ans : loads[s].ans[p] = TRUE} |-> loads[s].user]
Finish(s) ==
  /\ loads[s] # Idle /\ \A p \in DOMAIN loads[s].ans : loads[s].ans[p] # Pending
  /\ collections' = Result(s) /\ ready' = TRUE
  /\ loads' = [loads EXCEPT ![s] = Idle]
  /\ UNCHANGED <<shown, counts>>

Next ==
  \/ \E u \in Users : Show(u)
  \/ \E cs \in (SUBSET UserPrefixes) \cup {Unknown} : Render(cs)
  \/ \E s \in Slots : Finish(s) \/ \E p \in UserPrefixes : ScanAnswered(s, p)

(* What the panel says under the name. *)
SaysLoading   == ~ready
SaysNoneFound == ready /\ \A p \in DOMAIN collections : collections[p] = Pending

----------------------------------------------------------------------------
(* Whatever order loads end in, the panel never mixes the records of two users,
   and once none is under way it says what it found, or that it found nothing. *)
PanelWhole ==
  /\ Cardinality({collections[p] : p \in DOMAIN collections} \ {Pending}) <= 1
  /\ (\A s \in Slots : loads[s] = Idle) =>
       /\ Pending \notin {collections[p] : p \in DOMAIN collections}
       /\ SaysNoneFound => collections = None
       /\ SaysLoading => shown = NoHash \/ counts = Unknown
==============================================================================
