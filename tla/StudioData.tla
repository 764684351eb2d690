----------------------------- MODULE StudioData ------------------------------
(***************************************************************************)
(* useStudioData: the list of records the Studio shows, and the requests   *)
(* it has under way.  Nothing is cancelled: an answer is applied whenever  *)
(* it comes, whatever the user did after asking.                           *)
(*                                                                         *)
(* A request is a slot of calls.  It is Pending until the server handles   *)
(* it (Serve) or it is lost (Lose), then waits to be delivered.  Other     *)
(* clients of the database write in between.  The text of errors and the   *)
(* time of the last update are left out.                                   *)
(***************************************************************************)
EXTENDS StudioServer

CONSTANTS
  CascadeLimit,            \* records DeleteUser gets from its scan (500)
  InitStores, OtherValues, \* what the database holds at first; what others write
  MaxSlots, MaxWrites,     \* bounds: requests under way; writes of all clients
  Idle, Pending, Failed, Unknown

VARIABLES
  db, writes,              \* the database, and how often it was written
  calls,                   \* requests under way
  records, hasMore, nextKey, active, loading, loadingMore, error,
  stats, statsError, user, \* prefixes with records; is someone signed in
  from, upto, clean, touched \* history: see Replace, Extend and Written

listVars == <<records, hasMore, nextKey, from, upto, clean, touched>>
metaVars == <<stats, statsError, user>>
flagVars == <<active, loading, loadingMore, error>>
dataVars == <<db, writes, calls, listVars, metaVars, flagVars>>

Slots == 1..MaxSlots

(* What the banner tells of a search. *)
Metas == [count : Nat, scanned : Nat, hasMore : BOOLEAN, nextKey : Keys,
          prefix : Prefixes \cup {All}]
Ops   == {"refresh", "partition", "more", "counts", "tick", "search", "range", "lookup",
          "link", "post", "delete", "deleteUser"}
Requests ==
  [op : Ops, prefix : Prefixes \cup {All}, lo : Keys \cup {All}, hi : Keys \cup {All},
   value : Values \cup {NoValue}, was : Metas \cup Keys \cup {All, Unknown},
   ask : {"none", "save", "update", "remove", "removeUser"},
   ans : Pages \cup Counts \cup {Pending, Failed}, since : SUBSET Keys, fresh : BOOLEAN]

ASSUME DataAssumption ==
  /\ InitStores \subseteq Stores /\ OtherValues \subseteq Values \cup {NoValue}
  /\ MaxSlots \in Nat \ {0}
  /\ Idle \notin Requests /\ Unknown \notin Metas

(* lo and hi are a range, a key, or the start of a search; was is what the
   handler remembers from before the call, ask what asked for a refresh.  since
   and fresh are history: the keys written after it was served, and whether the
   list it continues is still the one shown. *)
Call(op) == [op |-> op, prefix |-> All, lo |-> All, hi |-> All, value |-> NoValue,
             was |-> Unknown, ask |-> "none", ans |-> Pending, since |-> {}, fresh |-> TRUE]

(* The refresh of the mount effect is under way, and so is, when the page was
   opened by a link to a record, the lookup of it. *)
ViewInit ==
  /\ records = <<>> /\ hasMore = FALSE /\ nextKey = 0
  /\ active = All /\ loading = TRUE /\ loadingMore = FALSE /\ error = FALSE
  /\ stats = Unknown /\ statsError = FALSE /\ user = FALSE
  /\ from = 0 /\ upto = 0 /\ clean = FALSE /\ touched = {}
DataInit ==
  /\ db \in InitStores /\ writes = 0
  /\ calls = [s \in Slots |-> IF s = 1 THEN Call("refresh") ELSE Idle]
  /\ ViewInit

LinkInit(k) ==
  /\ db \in InitStores /\ writes = 0
  /\ calls = [s \in Slots |-> CASE s = 1 -> Call("refresh")
                                [] s = 2 -> [Call("link") EXCEPT !.lo = k, !.hi = k]
                                [] OTHER -> Idle]
  /\ ViewInit

Send(c) == \E s \in Slots :
  /\ calls[s] = Idle /\ \A t \in Slots : t < s => calls[t] # Idle
  /\ calls' = [calls EXCEPT ![s] = c]

InFlight(ops) == {s \in Slots : calls[s] # Idle /\ calls[s].op \in ops}
Answered(s, op) == calls[s] # Idle /\ calls[s].op = op /\ calls[s].ans # Pending
Ok(s) == calls[s].ans # Failed

----------------------------------------------------------------------------
(* What the user and the timer ask for. *)

Writes == {"post", "delete", "deleteUser"}

AskRefresh ==
  /\ Send(Call("refresh")) /\ loading' = TRUE /\ error' = FALSE
  /\ UNCHANGED <<db, writes, listVars, metaVars, active, loadingMore>>

AskPartition(p) ==
  /\ Send([Call("partition") EXCEPT !.lo = First(p), !.hi = Last(p)])
  /\ loading' = TRUE /\ error' = FALSE /\ active' = p
  /\ UNCHANGED <<db, writes, listVars, metaVars, loadingMore>>

AskMore ==
  /\ hasMore /\ ~loadingMore
  /\ Send([Call("more") EXCEPT !.lo = nextKey, !.hi = Last(active)])
  /\ loadingMore' = TRUE
  /\ UNCHANGED <<db, writes, listVars, metaVars, active, loading, error>>

(* The interval of fetchStats; bound: one such request at a time. *)
Tick ==
  /\ InFlight({"tick"}) = {} /\ Send(Call("tick"))
  /\ UNCHANGED <<db, writes, listVars, metaVars, flagVars>>

Ask(c) == Send(c) /\ UNCHANGED <<db, writes, listVars, metaVars, flagVars>>

Lookup(k)    == [Call("lookup") EXCEPT !.lo = k, !.hi = k]
KeyRange(lo, hi) == [Call("range") EXCEPT !.lo = lo, !.hi = hi]
(* options?.prefix is tested for truth: prefix 0 is not sent. *)
Search(p, start) ==
  [Call("search") EXCEPT !.prefix = IF p = 0 THEN All ELSE p, !.lo = start]
Save(k, v)   == [Call("post") EXCEPT !.lo = k, !.hi = k, !.value = v, !.ask = "save"]
Update(k, v) == [Save(k, v) EXCEPT !.ask = "update"]
Remove(k)    == [Call("delete") EXCEPT !.lo = k, !.hi = k, !.ask = "remove"]
RemoveUser(h) == [Call("deleteUser") EXCEPT !.lo = h, !.ask = "removeUser"]

----------------------------------------------------------------------------
(* The server. *)

(* Keys K were written: lists and answers made before may be out of date. *)
Touch(cs, K) ==
  [s \in Slots |-> IF cs[s] = Idle \/ cs[s].ans = Pending THEN cs[s]
                   ELSE [cs[s] EXCEPT !.since = @ \cup K]]

Read(c) ==
  CASE c.op \in {"refresh", "partition", "more", "range"} ->
         ScanRecordsBounded(db, IF c.lo = All THEN 0 ELSE c.lo,
                                IF c.hi = All THEN LastKey ELSE c.hi)
    [] c.op = "search" -> SearchRecords(db, c.prefix, c.lo)
    [] c.op \in {"lookup", "link"} -> IF db[c.lo] = NoValue THEN Failed
                          ELSE ScanRecordsBounded(db, c.lo, c.lo)
    [] OTHER -> [prefixes |-> Populated(db)]

ServeRead(s) ==
  /\ calls[s] # Idle /\ calls[s].ans = Pending
  /\ calls[s].op \notin Writes
  /\ calls' = [calls EXCEPT ![s].ans = Read(calls[s])]
  /\ UNCHANGED <<db, writes, listVars, metaVars, flagVars>>

Written(new, cs) ==
  LET K == {k \in Keys : new[k] # db[k]}
  IN  /\ writes < MaxWrites /\ writes' = writes + 1
      /\ db' = new /\ calls' = Touch(cs, K) /\ touched' = touched \cup K
      /\ UNCHANGED <<records, hasMore, nextKey, from, upto, clean, metaVars, flagVars>>

ServeWrite(s) ==
  /\ calls[s] # Idle /\ calls[s].ans = Pending
  /\ calls[s].op \in {"post", "delete"}
  /\ LET c == calls[s]
         refused == c.op = "post" /\ Refused(db, c.lo, c.ask = "save")
         ok  == Page(<<>>, 0, FALSE, 0)
     IN  IF refused
         THEN /\ calls' = [calls EXCEPT ![s].ans = Failed]
              /\ UNCHANGED <<db, writes, listVars, metaVars, flagVars>>
         ELSE Written(IF c.op = "post" THEN PutKey(db, c.lo, c.value)
                                       ELSE DeleteKey(db, c.lo),
                      [calls EXCEPT ![s].ans = ok])

(* DeleteUser: of the records its scan returned, those whose key holds the
   user's hash, one after the other; a failure leaves the rest. *)
Scanned(limit) == LET found == InOrder(Stored(db, 0, LastKey))
                  IN  {found[i] : i \in {j \in DOMAIN found : j <= limit}}
Owned(h) == {k \in Keys : UserHashOf(k) = h}

ServeCascade(s) ==
  /\ calls[s] # Idle /\ calls[s].ans = Pending /\ calls[s].op = "deleteUser"
  /\ LET doomed == InOrder(Scanned(CascadeLimit) \cap Owned(calls[s].lo))
     IN  \E n \in 0..Len(doomed) :
           Written([k \in Keys |-> IF \E i \in 1..n : doomed[i] = k THEN NoValue ELSE db[k]],
                   [calls EXCEPT ![s].ans = IF n = Len(doomed) THEN Page(<<>>, n, FALSE, 0)
                                            ELSE Failed])

(* The request is lost, or the session has expired; or the write was made and
   its answer is lost. *)
Lose(s) ==
  /\ calls[s] # Idle /\ calls[s].ans # Failed
  /\ calls[s].ans = Pending \/ calls[s].op \in Writes
  /\ calls' = [calls EXCEPT ![s].ans = Failed]
  /\ UNCHANGED <<db, writes, listVars, metaVars, flagVars>>

(* Another client writes: another browser, the CLI, a gRPC client. *)
OtherWrite == \E k \in Keys, v \in OtherValues :
  db[k] # v /\ Written([db EXCEPT ![k] = v], calls)

----------------------------------------------------------------------------
(* What comes back. *)

(* The list is the first page of the keys lo to hi.  A loadMore that was asked
   for the list before it is no longer the continuation of what is shown. *)
Replace(s, lo, hi) ==
  LET page == calls[s].ans
  IN  /\ records' = page.records /\ hasMore' = page.hasMore /\ nextKey' = page.nextKey
      /\ from' = lo /\ upto' = hi /\ clean' = TRUE /\ touched' = calls[s].since
Outdated(cs) == [s \in Slots |-> IF cs[s] # Idle /\ cs[s].op = "more"
                                 THEN [cs[s] EXCEPT !.fresh = FALSE] ELSE cs[s]]
Done(s) == [calls EXCEPT ![s] = Idle]
(* After an update the page looks the record up again, to select it. *)
Ended(s) == IF calls[s].ask # "update" THEN Done(s)
            ELSE [calls EXCEPT ![s] = [Call("link") EXCEPT !.lo = calls[s].was, !.hi = calls[s].was]]

(* The list is extended by the answer of loadMore. *)
Extend(s) ==
  LET page == calls[s].ans
  IN  /\ records' = records \o page.records
      /\ hasMore' = page.hasMore /\ nextKey' = page.nextKey
      /\ clean' = (clean /\ calls[s].fresh)
      /\ upto' = calls[s].hi
      /\ UNCHANGED <<from, touched>>

DeliverPartition(s) ==
  /\ Answered(s, "partition") /\ loading' = FALSE
  /\ IF Ok(s) THEN Replace(s, calls[s].lo, calls[s].hi) /\ calls' = Outdated(Done(s)) /\ error' = error
     ELSE error' = TRUE /\ calls' = Done(s) /\ UNCHANGED listVars
  /\ UNCHANGED <<db, writes, metaVars, active, loadingMore>>

DeliverMoreStuck(s) == \* mutant: an error leaves loadingMore set
  /\ Answered(s, "more") /\ calls' = Done(s) /\ loadingMore' = ~Ok(s)
  /\ IF Ok(s) THEN Extend(s) /\ error' = error ELSE error' = TRUE /\ UNCHANGED listVars
  /\ UNCHANGED <<db, writes, metaVars, active, loading>>
DeliverMore(s) ==
  /\ Answered(s, "more") /\ loadingMore' = FALSE /\ calls' = Done(s)
  /\ IF Ok(s) THEN Extend(s) /\ error' = error ELSE error' = TRUE /\ UNCHANGED listVars
  /\ UNCHANGED <<db, writes, metaVars, active, loading>>

(* Promise.allSettled: the page and the user, each of which may have failed;
   then fetchStats, with loading still set. *)
DeliverRefresh(s) ==
  /\ Answered(s, "refresh")
  /\ \E me \in BOOLEAN : user' = me /\ error' = (error \/ ~Ok(s) \/ ~me)
  /\ LET counts == [Call("counts") EXCEPT !.ask = calls[s].ask, !.was = calls[s].was]
     IN  IF Ok(s) THEN Replace(s, 0, LastKey) /\ calls' = Outdated([calls EXCEPT ![s] = counts])
         ELSE calls' = [calls EXCEPT ![s] = counts] /\ UNCHANGED listVars
  /\ UNCHANGED <<db, writes, stats, statsError, active, loading, loadingMore>>

FetchedStats(s, new) ==
  /\ stats' = (IF Ok(s) THEN new ELSE Unknown) /\ statsError' = ~Ok(s)
  /\ UNCHANGED <<db, writes, listVars, user, active, loadingMore, error>>
(* The end of a refresh, and of the write that asked for it. *)
DeliverCounts(s) ==
  /\ Answered(s, "counts") /\ loading' = FALSE /\ calls' = Ended(s)
  /\ FetchedStats(s, IF Ok(s) THEN calls[s].ans.prefixes ELSE Unknown)
(* Without counts=true the counts of before are kept. *)
DeliverTick(s) ==
  Answered(s, "tick") /\ FetchedStats(s, stats) /\ calls' = Done(s) /\ UNCHANGED loading

(* A write that succeeded goes on with a refresh; the others are over. *)
DeliverWrite(s) ==
  /\ \E op \in Writes : Answered(s, op)
  /\ IF Ok(s)
     THEN /\ calls' = [calls EXCEPT ![s] = [Call("refresh") EXCEPT !.ask = calls[s].ask, !.was = calls[s].lo]]
          /\ loading' = TRUE /\ error' = FALSE
     ELSE calls' = Done(s) /\ UNCHANGED <<loading, error>>
  /\ UNCHANGED <<db, writes, listVars, metaVars, active, loadingMore>>

(* lookup, scanRange and search change no state of the hook. *)
DeliverRead(s, op) ==
  /\ Answered(s, op) /\ calls' = Done(s)
  /\ UNCHANGED <<db, writes, listVars, metaVars, flagVars>>

----------------------------------------------------------------------------
DataTypeOK ==
  /\ db \in Stores /\ writes \in 0..MaxWrites
  /\ \A i \in DOMAIN records : records[i].key \in Keys /\ records[i].value \in Values
  /\ nextKey \in Keys /\ active \in Prefixes \cup {All}
  /\ {hasMore, loading, loadingMore, error, statsError, user, clean} \subseteq BOOLEAN
  /\ stats = Unknown \/ stats \subseteq Prefixes
  /\ {from, upto} \subseteq Keys /\ touched \subseteq Keys

(* The pages of a list fit together: of the keys nobody wrote since its first
   page was read, those it has come to are shown once, in order, as they are. *)
Frontier == IF hasMore THEN nextKey ELSE upto + 1
Untouched == Keys \ touched
PagedComplete ==
  clean =>
    /\ \A i, j \in DOMAIN records : i < j => records[i].key < records[j].key
    /\ \A i \in DOMAIN records :
         records[i].key \in Untouched => db[records[i].key] = records[i].value
    /\ \A k \in Untouched : db[k] # NoValue /\ from <= k /\ k < Frontier =>
         \E i \in DOMAIN records : records[i].key = k

(* When nothing is under way any more and nothing failed, the bar under the list
   says "(all loaded)" only if every record of the partition that was chosen,
   and that nobody wrote meanwhile, is in the list. *)
AllLoadedHonest ==
  /\ InFlight({"refresh", "counts", "partition", "more"}) = {}
  /\ ~hasMore /\ ~error /\ active # All
  => \A k \in Untouched : db[k] # NoValue /\ PrefixOf(k) = active =>
       \E i \in DOMAIN records : records[i].key = k
==============================================================================
