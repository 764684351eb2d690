------------------------------- MODULE Listing -------------------------------
(***************************************************************************)
(* The list in the middle of the explorer: the pills that filter it by     *)
(* status, the table and the gallery with their pages, the plain list of   *)
(* the split view, and the three panes, one of which a narrow screen       *)
(* shows.  Which records there are changes under it (Explorer).            *)
(*                                                                         *)
(* A record is known by its status: what String() makes of it, whether it  *)
(* is a string, how it reads trimmed and in lower case, and if it is empty. *)
(***************************************************************************)
EXTENDS Integers, SequencesExt

CONSTANTS
  Lists,         \* bound: lists of records, each [status, isText, norm, empty]
  AllStatus,     \* "all"
  PageSize,      \* PageSize[view]: 25 in the table, 24 in the gallery
  NoRow

(* Lists of records are sequences. *)
ListingAssumption == \A l \in Lists : Len(l) \in Nat /\ DOMAIN l = 1..Len(l)

VARIABLES
  list, more,                      \* what the explorer shows of; hasMore
  statusFilter, viewMode, page,
  pane, selected, wide             \* wide: a screen that shows every pane

vars == <<list, more, statusFilter, viewMode, page, pane, selected, wide>>

Paged == DOMAIN PageSize
Views == Paged \cup {"split"}
Panes == {"partitions", "documents", "details"}

----------------------------------------------------------------------------
(* StatusFilterBar: the statuses that are strings, but not empty ones, and how
   many records have each. *)
Pilled(r) == r.isText /\ ~r.empty
StatusCounts ==
  [s \in {list[i].norm : i \in {j \in DOMAIN list : Pilled(list[j])}} |->
     Cardinality({i \in DOMAIN list : Pilled(list[i]) /\ list[i].norm = s})]

(* filteredRecords *)
MatchesRaw(r) == r.status = statusFilter \* mutant: the status is compared as it is
Matches(r) == r.norm = statusFilter

Matching(l) ==
  LET upTo[i \in 0..Len(l)] ==
        IF i = 0 THEN <<>>
        ELSE IF Matches(l[i]) THEN Append(upTo[i - 1], l[i]) ELSE upTo[i - 1]
  IN  upTo[Len(l)]
Filtered == IF statusFilter = AllStatus THEN list ELSE Matching(list)

(* The rows of a page, and what PaginationBar says they are. *)
Rows ==
  LET start == (page - 1) * PageSize[viewMode]
  IN  SubSeq(Filtered, start + 1, Min({start + PageSize[viewMode], Len(Filtered)}))

TotalPages ==
  Max({1, (Len(Filtered) + PageSize[viewMode] - 1) \div PageSize[viewMode]})
SafePage == Min({Max({1, page}), TotalPages})
StartIdx == IF Filtered = <<>> THEN 0 ELSE (SafePage - 1) * PageSize[viewMode] + 1
EndIdx   == Min({SafePage * PageSize[viewMode], Len(Filtered)})

HasBar == viewMode \in Paged /\ Filtered # <<>>
OffersMore == more /\ (viewMode \in Paged => HasBar /\ SafePage = TotalPages)

----------------------------------------------------------------------------
Init ==
  /\ list = <<>> /\ more = FALSE /\ statusFilter = AllStatus
  /\ viewMode = "table" /\ page = 1
  /\ pane = "documents" /\ selected = NoRow /\ wide \in BOOLEAN

Visible(p) == wide \/ pane = p

(* A refresh, a search, a range or an answer that comes late: any other list. *)
Arrives(l, m) ==
  /\ list' = l /\ more' = m
  /\ UNCHANGED <<statusFilter, viewMode, page, pane, selected, wide>>
(* "Fetch more records", or "Load more" in the split view. *)
FetchMore(l, m) == OffersMore /\ Visible("documents") /\ IsPrefix(list, l) /\ Arrives(l, m)

(* A partition of the rail: its records arrive later, the list of the hook is
   shown until then. *)
ChoosePartition(l) ==
  /\ Visible("partitions")
  /\ list' = l /\ statusFilter' = AllStatus /\ selected' = NoRow /\ pane' = "documents"
  /\ UNCHANGED <<more, viewMode, page, wide>>

(* The pills, which are there while there is a status to choose. *)
SelectStatus(s) ==
  /\ DOMAIN StatusCounts # {} /\ s \in DOMAIN StatusCounts \cup {AllStatus}
  /\ statusFilter' = (IF statusFilter = s THEN AllStatus ELSE s)
  /\ UNCHANGED <<list, more, viewMode, page, pane, selected, wide>>

(* A view is mounted anew, on its first page. *)
SetView(v) ==
  /\ v # viewMode /\ viewMode' = v /\ page' = 1
  /\ UNCHANGED <<list, more, statusFilter, pane, selected, wide>>

Turn(n) == page' = SafePage + n

OnBar == HasBar /\ Visible("documents") /\ UNCHANGED <<list, more, statusFilter, viewMode, pane, selected, wide>>
Previous  == OnBar /\ SafePage > 1 /\ Turn(-1)
Following == OnBar /\ SafePage < TotalPages /\ Turn(1)

(* A row, or a record that was looked up; the cross, or the end of a removal. *)
Select(r) ==
  /\ selected' = r /\ pane' = "details"
  /\ UNCHANGED <<list, more, statusFilter, viewMode, page, wide>>
SelectRow ==
  /\ Visible("documents")
  /\ \E r \in ToSet(IF viewMode \in Paged THEN Rows ELSE Filtered) : Select(r)
Deselect ==
  /\ selected # NoRow /\ selected' = NoRow
  /\ UNCHANGED <<list, more, statusFilter, viewMode, page, pane, wide>>
(* The breadcrumb, which is always there. *)
Back ==
  /\ pane # "partitions" /\ pane' = "partitions"
  /\ UNCHANGED <<list, more, statusFilter, viewMode, page, selected, wide>>

Next ==
  \/ \E l \in Lists, m \in BOOLEAN : Arrives(l, m) \/ FetchMore(l, m)
  \/ \E l \in Lists : ChoosePartition(l)
  \/ \E s \in DOMAIN StatusCounts \cup {AllStatus} : SelectStatus(s)
  \/ \E v \in Views : SetView(v)
  \/ Previous \/ Following \/ SelectRow \/ Deselect \/ Back
  \/ \E l \in Lists : \E r \in ToSet(l) : Select(r)

----------------------------------------------------------------------------
TypeOK ==
  /\ list \in Lists \cup {<<>>} /\ {more, wide} \subseteq BOOLEAN
  /\ viewMode \in Views /\ page \in Nat \ {0} /\ pane \in Panes

(* "Showing a-b of n loaded". *)
Claimed == SubSeq(Filtered, StartIdx, EndIdx)

(* "Whitespace-safe status filtering": a pill shows every record it counts,
   however its status is written. *)
PillsShowCounted ==
  \A s \in DOMAIN StatusCounts :
    statusFilter = s => StatusCounts[s] <= Len(Filtered)

(* What the bar says is so without a click, too.  It is not: the page is kept
   when a shorter list arrives, and with a single page both arrows are off. *)
ShownHonest == HasBar => Rows = Claimed
==============================================================================
