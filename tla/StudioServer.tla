---------------------------- MODULE StudioServer -----------------------------
(***************************************************************************)
(* What the HTTP handlers of internal/web/handler answer the Studio, as    *)
(* functions of the records the engine stores.  Keys are those of          *)
(* KeyCodec; a value is what the Studio can tell of one: whether it        *)
(* matches the query, and whether the inverted index knows.                *)
(***************************************************************************)
EXTENDS KeyCodec, Sequences, FiniteSets

CONSTANTS
  NoValue,               \* a key without a record
  PageLimit,             \* limit=100 of the list's requests
  MatchLimit, MaxScan,   \* limit=50 of a search, and its default maxScan
  All                    \* no prefix, no partition: the whole keyspace

(* "plain" does not contain the query, "word" does as an indexed word, and
   "infix" does inside a word only. *)
Values == {"plain", "word", "infix"}
Hits   == {"word", "infix"}

ASSUME ServerAssumption ==
  /\ {PageLimit, MatchLimit, MaxScan} \subseteq Nat \ {0}
  /\ NoValue \notin Values /\ All \notin Keys \cup Prefixes

Stores  == [Keys -> Values \cup {NoValue}]
LastKey == KeyCount - 1
First(p) == IF p = All THEN 0 ELSE PartitionStart(p)
Last(p)  == IF p = All THEN LastKey ELSE PartitionEnd(p)

(* The cursor of a scan: the stored keys of a range, in order. *)
Stored(db, lo, hi) == {k \in Keys : lo <= k /\ k <= hi /\ db[k] # NoValue}
InOrder(S) == [i \in 1..Cardinality(S) |->
                 CHOOSE k \in S : Cardinality({j \in S : j < k}) = i - 1]
AsRecords(db, keys) == [i \in DOMAIN keys |-> [key |-> keys[i], value |-> db[keys[i]]]]
Matching(db, S) == {k \in S : db[k] \in Hits}

Page(recs, scanned, more, next) ==
  [records |-> recs, scanned |-> scanned, hasMore |-> more, nextKey |-> next,
   indexed |-> FALSE]

Records == [key : Keys, value : Values]
Pages   == [records : Seq(Records), scanned : Nat, hasMore : BOOLEAN, nextKey : Keys,
            indexed : BOOLEAN]
Counts  == [prefixes : SUBSET Prefixes]

(* Mutants: the next page starts with the last record of this one; a chunk that
   is full of matches is taken for the last one. *)
ScanOverlapping(db, lo, hi) ==
  LET found == InOrder(Stored(db, lo, hi))
      more  == Len(found) > PageLimit
  IN  IF more THEN Page(AsRecords(db, SubSeq(found, 1, PageLimit)), PageLimit,
                        TRUE, found[PageLimit])
      ELSE Page(AsRecords(db, found), Len(found), FALSE, 0)
ChunkEndsAtLimit(db, lo, hi) ==
  LET found   == InOrder(Stored(db, lo, hi))
      hits(n) == Matching(db, {found[i] : i \in 1..n})
      stops   == {Len(found)} \cup {n \in 1..Len(found) :
                   n = MaxScan \/ Cardinality(hits(n)) = MatchLimit}
      scanned == CHOOSE n \in stops : \A m \in stops : n <= m
      more    == scanned < Len(found) /\ scanned = MaxScan
  IN  Page(AsRecords(db, InOrder(hits(scanned))), scanned,
           more, IF more THEN found[scanned + 1] ELSE 0)

(* ScanRecordsBounded: the key after the last record shown tells whether
   there is more. *)
ScanRecordsBounded(db, lo, hi) ==
  LET found == InOrder(Stored(db, lo, hi))
      more  == Len(found) > PageLimit
  IN  IF more THEN Page(AsRecords(db, SubSeq(found, 1, PageLimit)), PageLimit,
                        TRUE, found[PageLimit + 1])
      ELSE Page(AsRecords(db, found), Len(found), FALSE, 0)

(* ScanSearchChunk: it stops at the limit of matches or of keys inspected. *)
ScanSearchChunk(db, lo, hi) ==
  LET found   == InOrder(Stored(db, lo, hi))
      hits(n) == Matching(db, {found[i] : i \in 1..n})
      stops   == {Len(found)} \cup {n \in 1..Len(found) :
                   n = MaxScan \/ Cardinality(hits(n)) = MatchLimit}
      scanned == CHOOSE n \in stops : \A m \in stops : n <= m
      more    == scanned < Len(found)
  IN  Page(AsRecords(db, InOrder(hits(scanned))), scanned,
           more, IF more THEN found[scanned + 1] ELSE 0)

(* SearchRecords: without a start the inverted index is asked first, and what
   it finds is the whole answer. *)
Indexed(db, prefix) == {k \in Stored(db, First(prefix), Last(prefix)) : db[k] = "word"}

SearchRecords(db, prefix, start) ==
  IF start = All /\ Indexed(db, prefix) # {}
  THEN LET found == InOrder(Indexed(db, prefix))
           n     == IF Len(found) > MatchLimit THEN MatchLimit ELSE Len(found)
       IN  [Page(AsRecords(db, SubSeq(found, 1, n)), n, FALSE, 0) EXCEPT !.indexed = TRUE]
  ELSE LET lo == First(prefix)
           from == IF start # All /\ start \in lo..Last(prefix) THEN start ELSE lo
       IN  ScanSearchChunk(db, from, Last(prefix))

(* GetStats with counts=true, reduced to the prefixes that have records. *)
Populated(db) == {PrefixOf(k) : k \in Stored(db, 0, LastKey)}

(* PutKey and DeleteKey: createOnly refuses a key that has a record. *)
Refused(db, k, createOnly) == createOnly /\ db[k] # NoValue
PutKey(db, k, v) == [db EXCEPT ![k] = v]
DeleteKey(db, k) == [db EXCEPT ![k] = NoValue]
==============================================================================
