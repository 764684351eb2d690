--------------------------- MODULE PartitionNames ----------------------------
(***************************************************************************)
(* What the partitions are called.  usePartitionMetadata samples every     *)
(* populated partition, some at a time, and each round replaces the        *)
(* registry of inferred names; new counts abort what was started for the   *)
(* old ones.  buildPartitionList makes the rail's list of the names.       *)
(*                                                                         *)
(* A record is known by what the heuristics look at: its format, and which *)
(* of a few properties an object has.                                      *)
(***************************************************************************)
EXTENDS Integers, Sequences, FiniteSets, FiniteSetsExt

CONSTANTS
  NamePrefixes, Registered, \* partitions; those that the configuration names
  SamplePool,             \* bound: the samples the partitions give: sequences of records
  Records,                \* bound: records that inference is checked on
  BatchSize,              \* samples at a time (8)
  MaxLoads, Idle, Failed, NoName

VARIABLES
  counts,     \* populated partitions
  inferred,   \* inferredRegistry
  loads       \* rounds of samples under way

vars == <<counts, inferred, loads>>
Slots == 1..MaxLoads

----------------------------------------------------------------------------
(* Names from records. *)

Name(label, n) == [label |-> label, confidence |-> n]
Rule(all, one, none, label, n) ==
  [all |-> all, one |-> one, none |-> none, name |-> Name(label, n)]

(* nameFromFields: the first rule that applies.  tag stands for collection,
   entity, model, table and _type, and nested for an object with a title, a name
   or an id; subject and otherSubject are ids other than those of relations. *)
Rules == <<
  Rule({"tag"}, {}, {}, "TagName", 5),
  Rule({"nested"}, {}, {}, "NestedName", 4),
  Rule({"sku", "price"}, {}, {}, "Products", 4),
  Rule({"sensorId"}, {"temperature", "humidity"}, {}, "Telemetry", 4),
  Rule({"email"}, {"username", "passwordHash"}, {}, "Users", 4),
  Rule({"username", "role"}, {}, {"email"}, "System Users", 4),
  Rule({"token"}, {}, {}, "Tokens", 4),
  Rule({"subject"}, {}, {"otherSubject"}, "SubjectName", 3),
  Rule({"otherSubject"}, {}, {"subject"}, "OtherSubjectName", 3),
  Rule({"weakTag"}, {}, {}, "WeakTagName", 2)>>
Applies(r, has) ==
  r.all \subseteq has /\ (r.one = {} \/ r.one \cap has # {}) /\ r.none \cap has = {}
NameFromFields(has) ==
  LET hits == {i \in DOMAIN Rules : Applies(Rules[i], has)}
  IN  IF hits = {} THEN NoName ELSE Rules[Min(hits)].name

(* A text with a bar in it is a token; some texts are an address or an id. *)
NameFromRecord(r) ==
  CASE r.format = "json_object" -> NameFromFields(r.has)
    [] r.format = "token"       -> Name("Tokens", 3)
    [] r.format = "email"       -> Name("User Index", 3)
    [] r.format = "uuid"        -> Name("Index Pointers", 2)
    [] OTHER                    -> NoName

(* A partition is a number; None, below, is none of them.  NoName is no name. *)
Candidates == {Rules[i].name : i \in DOMAIN Rules}
              \cup {Name("Tokens", 3), Name("User Index", 3), Name("Index Pointers", 2)}
NamesAssumption ==
  /\ NamePrefixes \subseteq Nat /\ IsFiniteSet(NamePrefixes) /\ DOMAIN Registered \subseteq NamePrefixes
  /\ NoName \notin Candidates

(* The loop over the sample: the scores, in the order the labels were met. *)
Readable(rs) ==
  LET upTo[i \in 0..Len(rs)] ==
        IF i = 0 THEN <<>>
        ELSE IF rs[i].format # "empty" THEN Append(upTo[i - 1], rs[i]) ELSE upTo[i - 1]
  IN  upTo[Len(rs)]
Met(scores, label) == \E i \in DOMAIN scores : scores[i].label = label
ScoreOnce(scores, c) == \* mutant: only the first record of a label counts
  IF c = NoName \/ Met(scores, c.label) THEN scores
  ELSE Append(scores, [label |-> c.label, score |-> c.confidence, count |-> 1, confidence |-> c.confidence])
Score(scores, c) ==
  IF c = NoName THEN scores
  ELSE IF ~Met(scores, c.label)
  THEN Append(scores, [label |-> c.label, score |-> c.confidence, count |-> 1, confidence |-> c.confidence])
  ELSE [i \in DOMAIN scores |->
          IF scores[i].label # c.label THEN scores[i]
          ELSE [scores[i] EXCEPT !.score = @ + c.confidence, !.count = @ + 1,
                                 !.confidence = Max({@, c.confidence})]]
Scores(seen) ==
  LET after[i \in 0..Len(seen)] ==
        IF i = 0 THEN <<>> ELSE Score(after[i - 1], NameFromRecord(seen[i]))
  IN  after[Len(seen)]
(* The first of a stable sort, the highest score first; weak evidence must be
   unanimous. *)
BestOf(scores, n) ==
  LET best == CHOOSE i \in DOMAIN scores : \A j \in DOMAIN scores :
                scores[j].score < scores[i].score \/ (scores[j].score = scores[i].score /\ i <= j)
  IN  IF scores = <<>> \/ (scores[best].confidence <= 2 /\ scores[best].count # n) THEN NoName
      ELSE scores[best].label
InferCollectionName(rs) == BestOf(Scores(Readable(rs)), Len(Readable(rs)))

----------------------------------------------------------------------------
(* usePartitionMetadata. *)

NoLabels == [p \in {} |-> NoName]
Range1(S, n) == {p \in S : Cardinality({q \in S : q < p}) < n}

Started(cs) == [todo |-> cs, batch |-> Range1(cs, BatchSize), got |-> NoLabels, aborted |-> FALSE]
Start(cs) == \E s \in Slots :
  /\ loads[s] = Idle /\ \A t \in Slots : t < s => loads[t] # Idle
  /\ loads' = [t \in Slots |->
                 IF t = s THEN Started(cs)
                 ELSE IF loads[t] = Idle THEN Idle ELSE [loads[t] EXCEPT !.aborted = TRUE]]

Init == counts = {} /\ inferred = NoLabels /\ loads = [s \in Slots |-> Idle]

(* The effect runs when the counts are other counts: the partitions that have
   records may still be the same ones. *)
NewCounts(cs) == counts' = cs /\ inferred' = NoLabels /\ Start(cs)

(* One sample of the batch; a failed one leaves the generic label. *)
Sampled(s, p) ==
  /\ loads[s] # Idle /\ p \in loads[s].batch
  /\ \E rs \in SamplePool \cup {Failed} :
       loads' = [loads EXCEPT ![s].batch = @ \ {p}, ![s].todo = @ \ {p},
                  ![s].got = IF rs = Failed \/ loads[s].aborted THEN @
                             ELSE [q \in DOMAIN @ \cup {p} |->
                                     IF q = p THEN InferCollectionName(rs) ELSE @[q]]]
  /\ UNCHANGED <<counts, inferred>>

(* The batch is complete: nothing more is done for counts that are over. *)
OverNever(load) == FALSE \* mutant: aborting stops the requests only
Over(load) == load.aborted
BatchDone(s) ==
  /\ loads[s] # Idle /\ loads[s].batch = {}
  /\ inferred' = (IF Over(loads[s]) THEN inferred ELSE loads[s].got)
  /\ loads' = [loads EXCEPT ![s] =
       IF Over(loads[s]) \/ loads[s].todo = {} THEN Idle
       ELSE [loads[s] EXCEPT !.batch = Range1(loads[s].todo, BatchSize)]]
  /\ UNCHANGED counts

Next ==
  \/ \E cs \in SUBSET NamePrefixes : NewCounts(cs)
  \/ \E s \in Slots : BatchDone(s) \/ \E p \in NamePrefixes : Sampled(s, p)

----------------------------------------------------------------------------
(* buildPartitionList, over the partitions of the records in the list. *)

(* A label: a name, the prefix of a generic one, the prefix told apart by.  The
   text joins them, "Users - 03": no name is taken to read like a joined one. *)
None == -1
Generic(p) == <<"Collection", p, None>>
Named(name) == <<name, None, None>>
(* getPartitionMeta *)
Meta(p) == IF p \in DOMAIN Registered THEN Named(Registered[p])
           ELSE IF p \in DOMAIN inferred /\ inferred[p] # NoName THEN Named(inferred[p])
           ELSE Generic(p)
(* Without a name so far, the records at hand are looked at. *)
ResolveMeta(p, records) ==
  IF p \in DOMAIN Registered \cup DOMAIN inferred \/ records[p] = <<>> THEN Meta(p)
  ELSE LET name == InferCollectionName(records[p])
       IN  IF name = NoName THEN Generic(p) ELSE Named(name)
Listed(records) == DOMAIN Registered \cup counts \cup {p \in DOMAIN records : records[p] # <<>>}
(* Labels that two partitions have are told apart by the prefix. *)
TwiceOrMore(label, labels) == \* mutant: off by one
  Cardinality({p \in DOMAIN labels : labels[p] = label}) > 2
Twice(label, labels) == Cardinality({p \in DOMAIN labels : labels[p] = label}) > 1
ToldApart(labels) ==
  [p \in DOMAIN labels |-> IF Twice(labels[p], labels) THEN [labels[p] EXCEPT ![3] = p]
                           ELSE labels[p]]
BuildPartitionList(records) == ToldApart([p \in Listed(records) |-> ResolveMeta(p, records)])

----------------------------------------------------------------------------
(* The names in use are names of the partitions there are: an answer to a sample
   of counts that are over never changes them, whatever order answers come in. *)
NamesCurrent == DOMAIN inferred \subseteq counts

(* Every populated partition is listed, and no two under the same name. *)
Distinct(labels) ==
  counts \subseteq DOMAIN labels /\ \A a, b \in DOMAIN labels : a # b => labels[a] # labels[b]
ListDistinct == \A rs \in SamplePool, p \in NamePrefixes :
  Distinct(BuildPartitionList([q \in NamePrefixes |-> IF q = p THEN rs ELSE <<>>]))

(* A collection is called by the label with the largest sum of confidences, the
   first met of several; weak evidence must be unanimous. *)
PlacesOf(names, l) == {i \in DOMAIN names : names[i] # NoName /\ names[i].label = l}
SumOf(names, l) ==
  LET upTo[i \in 0..Len(names)] ==
        IF i = 0 THEN 0
        ELSE IF i \in PlacesOf(names, l) THEN upTo[i - 1] + names[i].confidence ELSE upTo[i - 1]
  IN  upTo[Len(names)]
LabelsIn(names) == {names[i].label : i \in {j \in DOMAIN names : names[j] # NoName}}
Beats(names, l, k) ==
  \/ SumOf(names, l) > SumOf(names, k)
  \/ SumOf(names, l) = SumOf(names, k) /\ Min(PlacesOf(names, l)) <= Min(PlacesOf(names, k))
Trusted(names, l) ==
  PlacesOf(names, l) = DOMAIN names \/ \E i \in PlacesOf(names, l) : names[i].confidence > 2
Favourite(names) ==
  LET chosen == {l \in LabelsIn(names) :
                   Trusted(names, l) /\ \A k \in LabelsIn(names) : Beats(names, l, k)}
  IN  IF chosen = {} THEN NoName ELSE CHOOSE l \in chosen : TRUE
Evidence(seen) == [i \in DOMAIN seen |-> NameFromRecord(seen[i])]
InferenceExact == \A sample \in UNION {[1..n -> Records] : n \in 0..3} :
  InferCollectionName(sample) = Favourite(Evidence(Readable(sample)))
==============================================================================
