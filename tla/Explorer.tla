------------------------------ MODULE Explorer -------------------------------
(***************************************************************************)
(* The Studio's Explorer: RecordsView with its search bar, its banner and  *)
(* its partition rail, and the page around it, over the hook of            *)
(* StudioData.  Which fields a record has, and how, is left out.           *)
(***************************************************************************)
EXTENDS StudioData

CONSTANTS
  NoKey, NoList, NoMeta,
  Ranges,    \* bound: the ranges that are typed in
  Sessions   \* bound: what may happen in one session, by name

ASSUME ExplorerAssumption ==
  /\ 1 \in Prefixes /\ Ranges \subseteq Keys \X Keys
  /\ NoMeta \notin Metas /\ NoList \notin Seq(Records)

VARIABLES
  initialized, partition, prefix, \* RecordsView's; the search bar's selectedPrefix
  mode, results, meta, busy,      \* isSearchMode, searchResults, searchMeta
  selected, deleteKey, deleteUserHash,
  session,                        \* what may happen in this one
  swept, sinceSearch              \* history: see SearchCovers

searchVars == <<mode, results, meta, swept, sinceSearch>>
dialogVars == <<deleteKey, deleteUserHash>>
viewVars == <<initialized, partition, prefix, searchVars, busy, selected, dialogVars, session>>
vars == <<dataVars, viewVars>>

(* A link to a record (?key=) is looked up when the page is mounted. *)
Init ==
  /\ session \in Sessions
  /\ IF "link" \in session THEN \E k \in Keys : LinkInit(k) ELSE DataInit
  /\ initialized = FALSE /\ partition = 1 /\ prefix = 1
  /\ mode = FALSE /\ results = NoList /\ meta = NoMeta /\ busy = FALSE
  /\ selected = NoKey /\ deleteKey = NoKey /\ deleteUserHash = NoKey /\ swept = FALSE /\ sinceSearch = {}

(* What the list shows, and the partitions the rail and the search bar offer. *)
Shown == IF mode /\ results # NoList THEN results ELSE records
RecordKeys(list) == {list[i].key : i \in DOMAIN list}
Partitions == (IF stats = Unknown THEN {} ELSE stats) \cup {PrefixOf(k) : k \in RecordKeys(records)}

----------------------------------------------------------------------------
(* What the user does. *)

Refresh == "refresh" \in session /\ AskRefresh /\ UNCHANGED viewVars

(* The search bar's effect follows the partition when it is another one. *)
ChoosePartition(p) ==
  /\ "partition" \in session /\ p \in Partitions /\ AskPartition(p)
  /\ partition' = p /\ prefix' = (IF p = partition THEN prefix ELSE p) /\ selected' = NoKey
  /\ mode' = FALSE /\ results' = NoList
  /\ UNCHANGED <<session, initialized, meta, busy, dialogVars, swept, sinceSearch>>

LoadMore == "more" \in session /\ AskMore /\ UNCHANGED viewVars

(* The select of the search bar. *)
PickPrefix(p) ==
  /\ "search" \in session /\ p # prefix /\ p \in Partitions \cup {All}
  /\ prefix' = p
  /\ UNCHANGED <<session, dataVars, initialized, partition, searchVars, busy, selected, dialogVars>>

(* withBusy: the forms and the banner's button are off while one call runs. *)
WithBusy(c) ==
  /\ ~busy /\ busy' = TRUE /\ Ask(c)
  /\ UNCHANGED <<session, initialized, partition, prefix, searchVars, selected, dialogVars>>

SearchText == "search" \in session /\ WithBusy(Search(prefix, All))
(* Another chunk: the banner's button is there while the answer has a next key. *)
ContinueScan ==
  /\ mode /\ meta # NoMeta /\ meta.hasMore
  /\ WithBusy([Search(meta.prefix, meta.nextKey) EXCEPT !.was = meta])
LookupKey(k) == "lookup" \in session /\ WithBusy(Lookup(k))
ScanRange(lo, hi) == "range" \in session /\ WithBusy(KeyRange(lo, hi))

ClearResults ==
  /\ mode /\ meta # NoMeta
  /\ mode' = FALSE /\ results' = NoList /\ meta' = NoMeta
  /\ UNCHANGED <<session, dataVars, initialized, partition, prefix, busy, selected, dialogVars, swept, sinceSearch>>

(* A row of the list, or the cross of the details panel. *)
Select(k) ==
  /\ "select" \in session /\ k \in RecordKeys(Shown) \cup {NoKey} /\ k # selected
  /\ selected' = k
  /\ UNCHANGED <<session, dataVars, initialized, partition, prefix, searchVars, busy, dialogVars>>

(* What an administrator does with the record in the details panel.  Each opens
   a dialog; its buttons close it, and one of them goes on. *)
Administers == user /\ selected # NoKey /\ deleteKey = NoKey /\ deleteUserHash = NoKey
OpenDelete ==
  /\ "delete" \in session /\ Administers
  /\ deleteKey' = selected /\ deleteUserHash' = NoKey
  /\ UNCHANGED <<session, dataVars, initialized, partition, prefix, searchVars, busy, selected>>
OpenDeleteUser ==
  /\ "deleteUser" \in session /\ Administers
  /\ deleteUserHash' = UserHashOf(selected) /\ deleteKey' = NoKey
  /\ UNCHANGED <<session, dataVars, initialized, partition, prefix, searchVars, busy, selected>>
Closing == deleteKey' = NoKey /\ deleteUserHash' = NoKey
CloseDialogs ==
  /\ deleteKey # NoKey \/ deleteUserHash # NoKey
  /\ Closing /\ UNCHANGED <<session, dataVars, initialized, partition, prefix, searchVars, busy, selected>>
Confirmed(c) ==
  Ask(c) /\ Closing /\ UNCHANGED <<session, initialized, partition, prefix, searchVars, busy, selected>>
ConfirmDelete  == deleteKey # NoKey /\ Confirmed(Remove(deleteKey))
ConfirmCascade == deleteUserHash # NoKey /\ Confirmed(RemoveUser(deleteUserHash))

(* What the dialogs of RecordForms send. *)
SaveNew(k, v)  == "save" \in session /\ user /\ Ask(Save(k, v)) /\ UNCHANGED viewVars
SaveEdit(v)    == "save" \in session /\ user /\ selected # NoKey
                  /\ Ask(Update(selected, v)) /\ UNCHANGED viewVars

User ==
  \/ Refresh \/ LoadMore \/ SearchText \/ ContinueScan \/ ClearResults
  \/ OpenDelete \/ OpenDeleteUser \/ CloseDialogs \/ ConfirmDelete \/ ConfirmCascade
  \/ \E v \in OtherValues \ {NoValue} : SaveEdit(v) \/ \E k \in Keys : SaveNew(k, v)
  \/ \E p \in Prefixes \cup {All} : PickPrefix(p) \/ (p # All /\ ChoosePartition(p))
  \/ \E k \in Keys \cup {NoKey} : Select(k)
  \/ \E k \in Keys : LookupKey(k)
  \/ \E r \in Ranges : ScanRange(r[1], r[2])

----------------------------------------------------------------------------
(* What comes back, and what the handler that waited for it does then. *)

(* Counts end a refresh, and with it the write that asked for the refresh.  A
   removal closes its dialog once more, whichever record it is open for now. *)
AfterWrite(s) ==
  /\ selected' = (IF calls[s].ask \in {"remove", "removeUser"} THEN NoKey ELSE selected)
  /\ deleteKey' = (IF calls[s].ask = "remove" THEN NoKey ELSE deleteKey)
  /\ deleteUserHash' = (IF calls[s].ask = "removeUser" THEN NoKey ELSE deleteUserHash)

Offered(s) == calls[s].ans.prefixes \cup Partitions
IsFirst(s) == ~initialized /\ Ok(s) /\ Offered(s) # {}

EndOfRefresh(s) ==
  /\ Answered(s, "counts") /\ ~IsFirst(s) /\ DeliverCounts(s) /\ AfterWrite(s)
  /\ UNCHANGED <<session, initialized, partition, prefix, searchVars, busy>>

(* The first counts to arrive choose the partition that is shown first: the
   effect of RecordsView loads it, in the slot of the request that brought them
   unless that one goes on itself. *)
FirstCounts(s) ==
  /\ Answered(s, "counts") /\ IsFirst(s) /\ AfterWrite(s)
  /\ LET first == IF 1 \in Offered(s) THEN 1
                  ELSE CHOOSE p \in Offered(s) : \A q \in Offered(s) : p <= q
     IN  /\ initialized' = TRUE /\ partition' = first /\ prefix' = first /\ active' = first
         /\ \E t \in Slots :
              /\ IF calls[s].ask = "update" THEN calls[t] = Idle ELSE t = s
              /\ calls' = [Ended(s) EXCEPT ![t] = [Call("partition") EXCEPT !.lo = First(first), !.hi = Last(first)]]
  /\ stats' = calls[s].ans.prefixes /\ statsError' = FALSE /\ loading' = TRUE /\ error' = FALSE
  /\ UNCHANGED <<session, db, writes, listVars, user, loadingMore, searchVars, busy>>

RemoveAnswered(s) ==
  /\ DeliverWrite(s)
  /\ deleteKey' = (IF calls[s].op = "delete" /\ ~Ok(s) THEN NoKey ELSE deleteKey)
  /\ deleteUserHash' = (IF calls[s].op = "deleteUser" /\ ~Ok(s) THEN NoKey ELSE deleteUserHash)
  /\ UNCHANGED <<session, initialized, partition, prefix, searchVars, busy, selected>>

(* handleSearchText and handleContinueScan; the latter adds to the totals it
   remembers, and to the results that are there now. *)
Meta(s, count, scanned) ==
  [count |-> count, scanned |-> scanned, hasMore |-> calls[s].ans.hasMore,
   nextKey |-> calls[s].ans.nextKey, prefix |-> calls[s].prefix]
FoundUncounted(s) == \* mutant: the banner counts the last chunk only
  LET page == calls[s].ans
      first == calls[s].was = Unknown
  IN  /\ meta' = Meta(s, Len(page.records), page.scanned)
      /\ mode' = (first \/ mode)
      /\ results' = (IF first \/ results = NoList THEN <<>> ELSE results) \o page.records
      /\ swept' = (IF first THEN ~page.indexed ELSE swept)
      /\ sinceSearch' = (IF first THEN calls[s].since ELSE sinceSearch)
Found(s) ==
  LET page == calls[s].ans
      was  == calls[s].was
  IN  IF was = Unknown
      THEN /\ mode' = TRUE /\ results' = page.records
           /\ meta' = Meta(s, Len(page.records), page.scanned)
           /\ swept' = ~page.indexed /\ sinceSearch' = calls[s].since
      ELSE /\ results' = (IF results = NoList THEN <<>> ELSE results) \o page.records
           /\ meta' = Meta(s, was.count + Len(page.records), was.scanned + page.scanned)
           /\ UNCHANGED <<mode, swept, sinceSearch>>

(* withBusy turns busy off whether the call succeeded or not. *)
SearchAnswered(s) ==
  /\ DeliverRead(s, "search") /\ busy' = FALSE
  /\ IF Ok(s) THEN Found(s) ELSE UNCHANGED searchVars
  /\ UNCHANGED <<session, initialized, partition, prefix, selected, dialogVars>>
RangeAnswered(s) ==
  /\ DeliverRead(s, "range") /\ busy' = FALSE
  /\ IF Ok(s) THEN /\ mode' = TRUE /\ results' = calls[s].ans.records /\ meta' = NoMeta
                   /\ UNCHANGED <<swept, sinceSearch>>
     ELSE UNCHANGED searchVars
  /\ UNCHANGED <<session, initialized, partition, prefix, selected, dialogVars>>
LookupAnswered(s) ==
  /\ DeliverRead(s, "lookup") /\ busy' = FALSE
  /\ IF Ok(s) THEN /\ partition' = PrefixOf(calls[s].lo) /\ selected' = calls[s].lo
                   /\ prefix' = (IF partition' = partition THEN prefix ELSE partition')
     ELSE UNCHANGED <<partition, prefix, selected>>
  /\ UNCHANGED <<session, initialized, searchVars, dialogVars>>
LinkAnswered(s) ==
  /\ DeliverRead(s, "link") /\ selected' = (IF Ok(s) THEN calls[s].lo ELSE selected)
  /\ UNCHANGED <<session, initialized, partition, prefix, searchVars, busy, dialogVars>>

Unwatched(s) ==
  (DeliverPartition(s) \/ DeliverMore(s) \/ DeliverRefresh(s) \/ DeliverTick(s))
  /\ UNCHANGED viewVars

Deliver(s) ==
  \/ Unwatched(s) \/ EndOfRefresh(s) \/ FirstCounts(s) \/ RemoveAnswered(s)
  \/ SearchAnswered(s) \/ RangeAnswered(s) \/ LookupAnswered(s) \/ LinkAnswered(s)

Timer == "tick" \in session /\ Tick /\ UNCHANGED viewVars

Serve(s) ==
  /\ ServeRead(s) \/ ServeWrite(s) \/ ServeCascade(s) \/ ("lose" \in session /\ Lose(s))
  /\ sinceSearch' = sinceSearch \cup {k \in Keys : db'[k] # db[k]}
  /\ UNCHANGED <<session, initialized, partition, prefix, mode, results, meta, swept, busy, selected, dialogVars>>
Other ==
  /\ OtherWrite
  /\ sinceSearch' = sinceSearch \cup {k \in Keys : db'[k] # db[k]}
  /\ UNCHANGED <<session, initialized, partition, prefix, mode, results, meta, swept, busy, selected, dialogVars>>

Next == User \/ Timer \/ Other \/ \E s \in Slots : Serve(s) \/ Deliver(s)
Spec == Init /\ [][Next]_vars

----------------------------------------------------------------------------
TypeOK ==
  /\ DataTypeOK
  /\ {initialized, mode, busy, swept} \subseteq BOOLEAN
  /\ partition \in Prefixes /\ prefix \in Prefixes \cup {All}
  /\ meta # NoMeta => meta.nextKey \in Keys /\ meta.prefix \in Prefixes \cup {All}
  /\ {selected, deleteKey} \subseteq Keys \cup {NoKey}
  /\ deleteUserHash \in Users \cup {NoKey}

(* The banner counts what is shown under it, whatever was clicked while a chunk
   was being scanned: it and the results are set by the same answers. *)
BannerHonest == mode /\ meta # NoMeta => results # NoList /\ meta.count = Len(results)

(* A search that scans misses nothing on the way from chunk to chunk: of the
   keys nobody wrote since it began, those before the next chunk are among the
   results exactly when they match. *)
ScannedTo == IF meta.hasMore THEN meta.nextKey ELSE Last(meta.prefix) + 1
SearchCovers ==
  mode /\ meta # NoMeta /\ swept =>
    \A k \in Keys \ sinceSearch : First(meta.prefix) <= k /\ k < ScannedTo =>
      (db[k] \in Hits <=> \E i \in DOMAIN results : results[i].key = k)

(* Every way out of a request, an error included, takes its spinner down and
   gives the forms back: what is held up has a request under way that ends it. *)
SpinnersSettle ==
  /\ loading => InFlight({"refresh", "counts", "partition"}) # {}
  /\ loadingMore => InFlight({"more"}) # {}
  /\ busy => InFlight({"search", "range", "lookup"}) # {}

(* "Cascading wipe of all orphan records across the keyspace": when the server
   reports the user deleted, nothing of the user is left. *)
CascadeWipes ==
  [][\A s \in Slots :
       calls[s] # Idle /\ calls[s].op = "deleteUser" /\ calls[s].ans = Pending
       /\ calls'[s] # Idle /\ calls'[s].ans \notin {Pending, Failed}
       => \A k \in Owned(calls[s].lo) : db'[k] = NoValue]_vars
==============================================================================
