-------------------------- MODULE ServerPartsProofs ---------------------------
(***************************************************************************)
(* Theorems about the parts of the server that Parts puts together, and    *)
(* about keys, for any of the constants that their modules allow.          *)
(***************************************************************************)
EXTENDS Parts, BTreeProofs, FiniteSetTheorems, WellFoundedInduction, TLAPS

(* The upgrade of a v0 database. *)
V0     == Upgrade!File("v0", DataRecords)
Intact == oldDb = V0 /\ wal = LogRecords
(* The log could not be read and could not be renamed. *)
Both   == {"read", "rename"}
(* The old data file has its new name; the old log has it, too, or is where it was,
   or its records are in the new database, or both errors have met. *)
Saved ==
  /\ dbBak = V0 /\ (oldDb = Upgrade!NoFile \/ oldDb.format = "v1")
  /\ \/ logErrors = Both
     \/ oldDb = Upgrade!NoFile /\ (wal = LogRecords \/ walBak = LogRecords)
     \/ oldDb.format = "v1" /\ LogRecords \subseteq oldDb.records \cup walBak
(* Of the log's records, those that the migration has read. *)
HasRead(rs) == "read" \in logErrors \/ LogRecords \subseteq rs

BeforeBackup == {"scan", "log", "create", "fill", "backup"}
AfterBackup  == {"backupWAL", "install", "installWAL", "open"}

(* What holds at each step.  NothingDestroyed alone is not inductive: that the
   renames keep the log's records depends on what the temporary database holds. *)
UpgradeInv ==
  /\ step \in {"closed"} \cup BeforeBackup \cup AfterBackup /\ logErrors \subseteq Both
  /\ step = "closed" => Intact \/ Saved
  /\ step \in BeforeBackup => Intact
  /\ step \in {"create", "fill"} => HasRead(collected)
  /\ step = "fill" => tmp.format = "v1"
  /\ step \in {"backup", "backupWAL", "install"} => tmp.format = "v1" /\ HasRead(tmp.records)
  /\ step \in AfterBackup => Saved
  /\ step = "backupWAL" => wal = LogRecords
  /\ step \in {"backupWAL", "install"} => oldDb = Upgrade!NoFile
  /\ step = "install" => "rename" \in logErrors \/ walBak = LogRecords
  /\ step = "installWAL" =>
       oldDb.format = "v1" /\ (logErrors = Both \/ LogRecords \subseteq oldDb.records \cup walBak)

LEMMA InitUpgrade == Upgrade!Init => UpgradeInv
BY DEF Upgrade!Init, UpgradeInv, Intact, V0, BeforeBackup, AfterBackup

LEMMA UpgradeKeeps == UpgradeInv => Upgrade!NothingDestroyed
<1> SUFFICES ASSUME UpgradeInv PROVE Upgrade!NothingDestroyed
  OBVIOUS
<1>1. CASE Intact
  BY <1>1 DEF Intact, V0, Upgrade!File, Upgrade!NothingDestroyed
<1>2. CASE Saved
  BY <1>2 DEF Saved, Both, V0, Upgrade!File, Upgrade!NoFile, Upgrade!NothingDestroyed
<1> QED BY <1>1, <1>2 DEF UpgradeInv, BeforeBackup, AfterBackup

(* One step for each action. *)
LEMMA NextUpgrade == UpgradeInv /\ [Upgrade!Next]_upgradeVars => UpgradeInv'
<1> SUFFICES ASSUME UpgradeInv, [Upgrade!Next]_upgradeVars PROVE UpgradeInv'
  OBVIOUS
<1> USE DEF UpgradeInv, BeforeBackup, AfterBackup, Upgrade!At, Upgrade!Go, Upgrade!files
<1>1. CASE Upgrade!Open
  <2>1. CASE oldDb.format = "v0"
    <3>1. ~Saved
      BY <2>1 DEF Saved, Upgrade!NoFile, Upgrade!File
    <3> QED BY <1>1, <2>1, <3>1 DEF Upgrade!Open, Intact, V0
  <2>2. CASE oldDb.format # "v0"
    <3>1. Saved
      BY <1>1, <2>2 DEF Upgrade!Open, Intact, V0, Upgrade!File
    <3>2. /\ oldDb' = Upgrade!File("v1", oldDb.records \cup wal) /\ dbBak' = dbBak /\ walBak' = walBak
          /\ step' = "open" /\ logErrors' = logErrors
      BY <1>1, <2>2 DEF Upgrade!Open
    <3>3. Saved'
      BY <3>1, <3>2 DEF Saved, V0, Upgrade!File, Upgrade!NoFile
    <3> QED BY <3>2, <3>3
  <2> QED BY <2>1, <2>2
<1>2. CASE Upgrade!ScanAll \/ Upgrade!ScanSome
  BY <1>2 DEF Upgrade!ScanAll, Upgrade!ScanSome, Intact, V0
<1>3. CASE Upgrade!LogAll
  <2>1. step' = "create" /\ LogRecords \subseteq collected' /\ Intact' /\ logErrors' = logErrors
    BY <1>3 DEF Upgrade!LogAll, Intact, V0
  <2> QED BY <2>1 DEF HasRead
<1>4. CASE Upgrade!LogSome
  <2>1. step' = "create" /\ Intact' /\ logErrors' = logErrors \cup {"read"}
    BY <1>4 DEF Upgrade!LogSome, Intact, V0
  <2> QED BY <2>1 DEF HasRead, Both
<1>5. CASE Upgrade!CreateTmp
  BY <1>5 DEF Upgrade!CreateTmp, Intact, V0, Upgrade!File, HasRead
<1>6. CASE \E r \in DataRecords \cup LogRecords : Upgrade!Fill(r)
  BY <1>6 DEF Upgrade!Fill, Intact, V0, Upgrade!File, HasRead
<1>7. CASE Upgrade!FillFails
  BY <1>7 DEF Upgrade!FillFails, Intact, V0
<1>8. CASE Upgrade!CloseTmp
  BY <1>8 DEF Upgrade!CloseTmp, Intact, V0, HasRead
<1>9. CASE Upgrade!BackupDB
  BY <1>9 DEF Upgrade!BackupDB, Upgrade!Backup, Intact, Saved, V0, Upgrade!NoFile, HasRead
<1>10. CASE Upgrade!BackupWAL
  <2>1. /\ step' = "install" /\ oldDb' = Upgrade!NoFile /\ oldDb' = oldDb /\ dbBak' = dbBak
        /\ tmp' = tmp
    BY <1>10 DEF Upgrade!BackupWAL
  <2>2. \/ logErrors' = logErrors /\ walBak' = LogRecords
        \/ logErrors' = logErrors \cup {"rename"} /\ wal' = LogRecords
    BY <1>10 DEF Upgrade!BackupWAL
  <2>3. logErrors' \subseteq Both /\ ("rename" \in logErrors' \/ walBak' = LogRecords)
    BY <2>2 DEF Both
  <2>4. Saved'
    BY <1>10, <2>1, <2>2 DEF Saved, Upgrade!BackupWAL
  <2>5. tmp'.format = "v1" /\ HasRead(tmp.records)'
    BY <1>10, <2>1, <2>2 DEF HasRead, Upgrade!BackupWAL
  <2> QED BY <2>1, <2>3, <2>4, <2>5
<1>11. CASE Upgrade!Install
  <2>1. /\ step = "install" /\ step' = "installWAL" /\ oldDb' = tmp /\ tmp.format = "v1"
        /\ dbBak' = dbBak /\ walBak' = walBak /\ logErrors' = logErrors
    BY <1>11 DEF Upgrade!Install
  <2>2. logErrors = Both \/ LogRecords \subseteq tmp.records \cup walBak
    <3>1. CASE LogRecords \subseteq tmp.records
      BY <3>1
    <3>2. CASE "read" \in logErrors /\ "rename" \in logErrors
      BY <3>2 DEF Both
    <3>3. CASE walBak = LogRecords
      BY <3>3
    <3> QED BY <2>1, <3>1, <3>2, <3>3 DEF HasRead
  <2>3. Saved'
    BY <2>1, <2>2 DEF Saved
  <2> QED BY <2>1, <2>2, <2>3
<1>12. CASE Upgrade!InstallWAL
  <2>1. /\ step = "installWAL" /\ step' = "closed" /\ oldDb' = oldDb /\ dbBak' = dbBak
        /\ walBak' = walBak /\ logErrors' = logErrors
    BY <1>12 DEF Upgrade!InstallWAL
  <2>2. Saved'
    BY <2>1 DEF Saved
  <2> QED BY <2>1, <2>2
<1>13. CASE Upgrade!Stop
  <2>1. step' = "closed" /\ (Intact \/ Saved)
    BY <1>13 DEF Upgrade!Stop
  <2>2. (Intact \/ Saved)' /\ logErrors' = logErrors
    BY <1>13, <2>1 DEF Upgrade!Stop, Intact, Saved, V0
  <2> QED BY <2>1, <2>2
<1>14. CASE UNCHANGED upgradeVars
  BY <1>14 DEF upgradeVars, Intact, Saved, V0, HasRead
<1> QED
  BY <1>1, <1>2, <1>3, <1>4, <1>5, <1>6, <1>7, <1>8, <1>9, <1>10, <1>11, <1>12, <1>13, <1>14
  DEF Upgrade!Next

(* Every record of the v0 data file stays in the database or its backup, at every
   step of migrateV0ToV1 and of the starts that follow; every record of the log, in the
   database, the log or the log's backup, unless the migration could neither read the
   log nor rename it. *)
THEOREM UpgradeKeepsRecords == PartsSpec => []NothingDestroyed
<1>1. PartsInit => UpgradeInv
  BY InitUpgrade DEF PartsInit
<1>2. UpgradeInv /\ [PartsNext]_partsVars => UpgradeInv'
  BY NextUpgrade DEF PartsNext, Unused, partsVars
<1>3. UpgradeInv => NothingDestroyed
  BY UpgradeKeeps DEF NothingDestroyed, In
<1> QED BY <1>1, <1>2, <1>3, PTL DEF PartsSpec

-----------------------------------------------------------------------------
(* Keys, and the Key Analyzer, for every width of the parts of a key.  Multiplying and
   dividing by a parameter is beyond linear arithmetic: the first lemmas state the
   facts about it that the rest needs. *)

(* Multiplication is monotonic. *)
LEMMA MulMono ==
  ASSUME NEW a \in Int, NEW b \in Int, NEW d \in Nat, a <= b
  PROVE  a * d <= b * d
OBVIOUS

(* Division with remainder is unique. *)
LEMMA DivUnique ==
  ASSUME NEW d \in Nat \ {0}, NEW q \in Int, NEW r \in 0..(d - 1)
  PROVE  (q * d + r) \div d = q /\ (q * d + r) % d = r
OBVIOUS

(* Every number is a quotient and a remainder. *)
LEMMA DivMod ==
  ASSUME NEW d \in Nat \ {0}, NEW k \in Nat
  PROVE  /\ k \div d \in Nat /\ k % d \in 0..(d - 1)
         /\ k = (k \div d) * d + (k % d)
OBVIOUS

(* The sizes of the parts. *)
LEMMA Sizes ==
  /\ UserCount \in Nat \ {0} /\ ItemCount \in Nat \ {0} /\ PrefixCount \in Nat \ {0}
  /\ Key!PartSize \in Nat \ {0} /\ Key!KeyCount \in Nat
<1>1. Key!PartSize \in Nat \ {0} BY PartsAssumption DEF PartsAssumption, Key!PartSize
<1>2. Key!KeyCount \in Nat BY <1>1, PartsAssumption DEF PartsAssumption, Key!KeyCount
<1>3. QED BY <1>1, <1>2, PartsAssumption DEF PartsAssumption

(* A user's hash and an item's hash together stay below a partition. *)
LEMMA Below ==
  ASSUME NEW u \in Key!Users, NEW i \in Key!Items
  PROVE  u * ItemCount + i \in 0..(Key!PartSize - 1)
<1>1. u \in Int /\ u <= UserCount - 1 /\ i \in Int /\ 0 <= i /\ i <= ItemCount - 1 /\ 0 <= u
  BY Sizes DEF Key!Users, Key!Items
<1>2. u * ItemCount <= (UserCount - 1) * ItemCount BY <1>1, Sizes, MulMono
<1>3. (UserCount - 1) * ItemCount = Key!PartSize - ItemCount BY Sizes DEF Key!PartSize
<1>4. u * ItemCount \in Int /\ 0 <= u * ItemCount BY <1>1, Sizes
<1>5. QED BY <1>1, <1>2, <1>3, <1>4, Sizes

(* A key that was built is a key. *)
LEMMA BuiltIsKey ==
  ASSUME NEW p \in Key!Prefixes, NEW u \in Key!Users, NEW i \in Key!Items
  PROVE  Key!BuildStructuredKey(p, u, i) \in Key!Keys
<1>1. p \in Int /\ 0 <= p /\ p <= PrefixCount - 1 BY Sizes DEF Key!Prefixes
<1>2. p * Key!PartSize <= (PrefixCount - 1) * Key!PartSize BY <1>1, Sizes, MulMono
<1>3. (PrefixCount - 1) * Key!PartSize = Key!KeyCount - Key!PartSize BY Sizes DEF Key!KeyCount
<1>4. p * Key!PartSize \in Int /\ 0 <= p * Key!PartSize BY <1>1, Sizes
<1>5. u * ItemCount + i \in 0..(Key!PartSize - 1) BY Below
<1>6. u * ItemCount \in Int /\ i \in Int BY Sizes DEF Key!Users, Key!Items
<1>7. Key!BuildStructuredKey(p, u, i) = p * Key!PartSize + (u * ItemCount + i)
  BY <1>4, <1>6 DEF Key!BuildStructuredKey
<1>8. QED BY <1>2, <1>3, <1>4, <1>5, <1>7, Sizes DEF Key!Keys

(* Decoding finds the parts that a key was built from. *)
LEMMA DecodeBuilt ==
  ASSUME NEW p \in Key!Prefixes, NEW u \in Key!Users, NEW i \in Key!Items
  PROVE  Key!DecodeKey(Key!BuildStructuredKey(p, u, i)) = <<p, u, i>>
<1> DEFINE k == Key!BuildStructuredKey(p, u, i)
<1>1. p \in Int /\ 0 <= p /\ p <= PrefixCount - 1 BY Sizes DEF Key!Prefixes
<1>2. u \in Int /\ i \in 0..(ItemCount - 1) /\ u \in 0..(UserCount - 1) BY Sizes DEF Key!Users, Key!Items
<1>3. k = p * Key!PartSize + (u * ItemCount + i)
  BY <1>1, <1>2, Sizes DEF Key!BuildStructuredKey
<1>4. k = (p * UserCount + u) * ItemCount + i
  BY <1>1, <1>2, Sizes DEF Key!BuildStructuredKey, Key!PartSize
<1>5. k \div Key!PartSize = p
  <2>1. u * ItemCount + i \in 0..(Key!PartSize - 1) BY Below
  <2>2. (p * Key!PartSize + (u * ItemCount + i)) \div Key!PartSize = p BY <2>1, <1>1, Sizes, DivUnique
  <2>3. QED BY <2>2, <1>3
<1>6. k \div ItemCount = p * UserCount + u /\ k % ItemCount = i
  <2>1. p * UserCount + u \in Int BY <1>1, <1>2, Sizes
  <2>2. QED BY <2>1, <1>2, <1>4, Sizes, DivUnique
<1>7. (p * UserCount + u) % UserCount = u BY <1>1, <1>2, Sizes, DivUnique
<1>8. p % PrefixCount = p
  <2>1. (0 * PrefixCount + p) % PrefixCount = p BY <1>1, Sizes, DivUnique
  <2>2. 0 * PrefixCount + p = p BY <1>1, Sizes
  <2>3. QED BY <2>1, <2>2
<1>9. QED BY <1>5, <1>6, <1>7, <1>8 DEF Key!DecodeKey, Key!PrefixOf, Key!UserHashOf, Key!ItemHashOf

(* Every key is built from some parts. *)
LEMMA KeyParts ==
  ASSUME NEW k \in Key!Keys
  PROVE  \E p \in Key!Prefixes, u \in Key!Users, i \in Key!Items : k = Key!BuildStructuredKey(p, u, i)
<1> DEFINE q == k \div ItemCount
           p == q \div UserCount
           u == q % UserCount
           i == k % ItemCount
<1>1. k \in Nat /\ k < Key!KeyCount BY Sizes DEF Key!Keys
<1>2. q \in Nat /\ i \in 0..(ItemCount - 1) /\ k = q * ItemCount + i BY <1>1, Sizes, DivMod
<1>3. p \in Nat /\ u \in 0..(UserCount - 1) /\ q = p * UserCount + u BY <1>2, Sizes, DivMod
<1> HIDE DEF q, p, u, i
<1>4. k = p * Key!PartSize + u * ItemCount + i
  BY <1>2, <1>3, Sizes DEF Key!PartSize
<1>5. p < PrefixCount
  <2>1. SUFFICES ASSUME PrefixCount <= p PROVE FALSE BY <1>3, Sizes
  <2>2. PrefixCount * Key!PartSize <= p * Key!PartSize BY <2>1, <1>3, Sizes, MulMono
  <2>3. u * ItemCount \in Nat /\ p * Key!PartSize \in Nat /\ i \in Nat BY <1>2, <1>3, Sizes
  <2>4. QED BY <2>2, <2>3, <1>1, <1>4, Sizes DEF Key!KeyCount
<1>6. p \in Key!Prefixes /\ u \in Key!Users /\ i \in Key!Items
  BY <1>2, <1>3, <1>5, Sizes DEF Key!Prefixes, Key!Users, Key!Items
<1>7. k = Key!BuildStructuredKey(p, u, i) BY <1>4 DEF Key!BuildStructuredKey
<1>8. QED BY <1>6, <1>7

(* The keys of partition p are those from its first to its last. *)
LEMMA PartitionBounds ==
  ASSUME NEW p \in Key!Prefixes, NEW b \in Key!Prefixes, NEW rest \in 0..(Key!PartSize - 1)
  PROVE  b = p <=> /\ p * Key!PartSize <= b * Key!PartSize + rest
                   /\ b * Key!PartSize + rest <= (p + 1) * Key!PartSize - 1
<1>1. p \in Int /\ b \in Int BY Sizes DEF Key!Prefixes
<1>2. (p + 1) * Key!PartSize = p * Key!PartSize + Key!PartSize /\ p * Key!PartSize \in Int /\ b * Key!PartSize \in Int
  BY <1>1, Sizes
<1>3. ASSUME b < p PROVE b * Key!PartSize + rest < p * Key!PartSize
  <2>1. (b + 1) * Key!PartSize <= p * Key!PartSize BY <1>1, <1>3, Sizes, MulMono
  <2>2. (b + 1) * Key!PartSize = b * Key!PartSize + Key!PartSize BY <1>1, Sizes
  <2>3. QED BY <2>1, <2>2, <1>2, Sizes
<1>4. ASSUME p < b PROVE (p + 1) * Key!PartSize <= b * Key!PartSize
  BY <1>1, <1>4, Sizes, MulMono
<1>5. QED BY <1>1, <1>2, <1>3, <1>4, Sizes

(* Of the users, u has the keys from its first to its last. *)
LEMMA HashBounds ==
  ASSUME NEW n \in Int, NEW m \in Int, NEW rest \in Key!Items
  PROVE  m = n <=> /\ n * ItemCount <= m * ItemCount + rest
                   /\ m * ItemCount + rest <= n * ItemCount + (ItemCount - 1)
<1>1. n * ItemCount \in Int /\ m * ItemCount \in Int /\ rest \in 0..(ItemCount - 1)
  BY Sizes DEF Key!Users, Key!Items
<1>2. ASSUME m < n PROVE m * ItemCount + rest < n * ItemCount
  <2>1. (m + 1) * ItemCount <= n * ItemCount BY <1>2, Sizes, MulMono
  <2>2. (m + 1) * ItemCount = m * ItemCount + ItemCount BY Sizes
  <2>3. QED BY <2>1, <2>2, <1>1, Sizes
<1>3. ASSUME n < m PROVE n * ItemCount + (ItemCount - 1) < m * ItemCount + rest
  <2>1. (n + 1) * ItemCount <= m * ItemCount BY <1>3, Sizes, MulMono
  <2>2. (n + 1) * ItemCount = n * ItemCount + ItemCount BY Sizes
  <2>3. QED BY <2>1, <2>2, <1>1, Sizes
<1>4. QED BY <1>1, <1>2, <1>3, Sizes

LEMMA PairUnique ==
  ASSUME NEW p \in Key!Prefixes, NEW u \in Key!Users, NEW a \in Key!Prefixes, NEW b \in Key!Users,
         a * UserCount + b = p * UserCount + u
  PROVE  a = p /\ b = u
<1>1. p \in Int /\ a \in Int /\ u \in 0..(UserCount - 1) /\ b \in 0..(UserCount - 1)
  BY Sizes DEF Key!Prefixes, Key!Users, Key!Items
<1>2. (a * UserCount + b) \div UserCount = a /\ (a * UserCount + b) % UserCount = b BY <1>1, Sizes, DivUnique
<1>3. (p * UserCount + u) \div UserCount = p /\ (p * UserCount + u) % UserCount = u BY <1>1, Sizes, DivUnique
<1>4. QED BY <1>2, <1>3

----------------------------------------------------------------------------
(* buildStructuredKey and decodeKey are inverses of each other. *)
THEOREM RoundTripHolds == Key!RoundTrip
<1>1. ASSUME NEW k \in Key!Keys
      PROVE  Key!BuildStructuredKey(Key!PrefixOf(k), Key!UserHashOf(k), Key!ItemHashOf(k)) = k
  <2>1. PICK p \in Key!Prefixes, u \in Key!Users, i \in Key!Items : k = Key!BuildStructuredKey(p, u, i) BY KeyParts
  <2>2. Key!DecodeKey(k) = <<p, u, i>> BY <2>1, DecodeBuilt
  <2>3. Key!PrefixOf(k) = p /\ Key!UserHashOf(k) = u /\ Key!ItemHashOf(k) = i BY <2>2 DEF Key!DecodeKey
  <2>4. QED BY <2>1, <2>3
<1>2. QED BY <1>1, BuiltIsKey, DecodeBuilt DEF Key!RoundTrip

(* A range scan of a partition, or of a user in one, reads exactly its keys. *)
THEOREM ScansExactHolds == Key!ScansExact
<1>1. ASSUME NEW p \in Key!Prefixes, NEW k \in Key!Keys
      PROVE  Key!PrefixOf(k) = p <=> Key!PartitionStart(p) <= k /\ k <= Key!PartitionEnd(p)
  <2>1. PICK b \in Key!Prefixes, u \in Key!Users, i \in Key!Items : k = Key!BuildStructuredKey(b, u, i) BY KeyParts
  <2>2. Key!PrefixOf(k) = b BY <2>1, DecodeBuilt DEF Key!DecodeKey
  <2>3. u * ItemCount + i \in 0..(Key!PartSize - 1) BY Below
  <2>4. k = b * Key!PartSize + (u * ItemCount + i)
    BY <2>1, Sizes DEF Key!BuildStructuredKey, Key!Prefixes, Key!Users, Key!Items
  <2>5. QED BY <2>2, <2>3, <2>4, PartitionBounds DEF Key!PartitionStart, Key!PartitionEnd
<1>2. ASSUME NEW p \in Key!Prefixes, NEW u \in Key!Users, NEW k \in Key!Keys
      PROVE  Key!PrefixOf(k) = p /\ Key!UserHashOf(k) = u <=> Key!CollectionStart(p, u) <= k /\ k <= Key!CollectionEnd(p, u)
  <2>1. PICK a \in Key!Prefixes, b \in Key!Users, i \in Key!Items : k = Key!BuildStructuredKey(a, b, i) BY KeyParts
  <2>2. Key!PrefixOf(k) = a /\ Key!UserHashOf(k) = b BY <2>1, DecodeBuilt DEF Key!DecodeKey
  <2>3. k = (a * UserCount + b) * ItemCount + i
    BY <2>1, Sizes DEF Key!BuildStructuredKey, Key!PartSize, Key!Prefixes, Key!Users, Key!Items
  <2>4. /\ Key!CollectionStart(p, u) = (p * UserCount + u) * ItemCount
        /\ Key!CollectionEnd(p, u) = (p * UserCount + u) * ItemCount + (ItemCount - 1)
    BY Sizes DEF Key!CollectionStart, Key!CollectionEnd, Key!BuildStructuredKey, Key!PartSize, Key!Prefixes, Key!Users, Key!Items
  <2>5. a * UserCount + b \in Int /\ p * UserCount + u \in Int BY Sizes DEF Key!Prefixes, Key!Users, Key!Items
  <2>6. a * UserCount + b = p * UserCount + u <=> Key!CollectionStart(p, u) <= k /\ k <= Key!CollectionEnd(p, u)
    BY <2>3, <2>4, <2>5, HashBounds
  <2>7. QED BY <2>2, <2>6, PairUnique
<1>3. QED BY <1>1, <1>2 DEF Key!ScansExact

(* The Studio's keys are decoded to what they were built from, and each of its range
   scans covers the keys it is meant for, whatever the widths of the fields. *)
THEOREM KeysExactHolds == Key!KeysExact
BY RoundTripHolds, ScansExactHolds DEF Key!KeysExact

----------------------------------------------------------------------------
(* The binary digits are cut up where the shifts take the key apart. *)
LEMMA SliceDecoded ==
  ASSUME NEW k \in Key!Keys
  PROVE  Key!SliceOf(k) = Key!DecodeKey(k)
<1>1. PICK p \in Key!Prefixes, u \in Key!Users, i \in Key!Items : k = Key!BuildStructuredKey(p, u, i) BY KeyParts
<1>2. Key!DecodeKey(k) = <<p, u, i>> BY <1>1, DecodeBuilt
<1>3. p \in Int /\ u \in Int /\ i \in 0..(ItemCount - 1) BY Sizes DEF Key!Prefixes, Key!Users, Key!Items
<1>4. u * ItemCount + i \in 0..(Key!PartSize - 1) BY Below
<1>5. k = p * Key!PartSize + (u * ItemCount + i) BY <1>1, <1>3, Sizes DEF Key!BuildStructuredKey
<1>6. k \div Key!PartSize = p /\ k % Key!PartSize = u * ItemCount + i BY <1>3, <1>4, <1>5, Sizes, DivUnique
<1>7. (u * ItemCount + i) \div ItemCount = u /\ (u * ItemCount + i) % ItemCount = i
  BY <1>3, Sizes, DivUnique
<1>8. QED BY <1>2, <1>6, <1>7 DEF Key!SliceOf

(* The Key Analyzer shows one key, however it came into the field. *)
THEOREM AnatomyHolds == PartsSpec => []AnatomyAgrees
<1> DEFINE KeyInv == text \in Key!Keys \cup {Beyond}
<1>1. PartsInit => KeyInv
  BY DEF PartsInit, Key!Init
<1>2. KeyInv /\ [PartsNext]_partsVars => KeyInv'
  <2> SUFFICES ASSUME KeyInv, [PartsNext]_partsVars PROVE KeyInv'
    OBVIOUS
  <2>next. Key!Next \/ UNCHANGED keyVars
    BY DEF PartsNext, Unused, partsVars
  <2>stay. CASE UNCHANGED keyVars
    BY <2>stay DEF keyVars
  <2>hash. CASE Key!Hash
    BY <2>hash DEF Key!Hash
  <2>type. ASSUME NEW k \in Key!Keys \cup {Beyond}, Key!Type(k) PROVE KeyInv'
    BY <2>type DEF Key!Type
  <2>seed. ASSUME NEW b \in BOOLEAN, Key!TypeSeed(b) PROVE KeyInv'
    BY <2>seed DEF Key!TypeSeed
  <2>preset. ASSUME NEW p \in Key!Prefixes, Key!Preset(p) PROVE KeyInv'
    <3>1. 0 \in Key!Users /\ 0 \in Key!Items
      BY Sizes DEF Key!Users, Key!Items
    <3>2. Key!BuildStructuredKey(p, 0, 0) \in Key!Keys
      BY <3>1, BuiltIsKey
    <3>3. Key!BuildStructuredKey(p, 0, 0) = Key!PartitionStart(p)
      BY Sizes DEF Key!BuildStructuredKey, Key!PartitionStart, Key!Prefixes
    <3> QED BY <2>preset, <3>2, <3>3 DEF Key!Preset
  <2> QED BY <2>next, <2>type, <2>seed, <2>preset, <2>hash, <2>stay DEF Key!Next
<1>3. KeyInv => AnatomyAgrees
  BY SliceDecoded DEF AnatomyAgrees, In, Key!AnatomyAgrees, Key!Valid
<1>4. QED BY <1>1, <1>2, <1>3, PTL DEF PartsSpec

(* Keys, their parts and the ranges of scans fit each other. *)
THEOREM KeysAlwaysFit == PartsSpec => []KeysFit
<1>1. KeysFit
  BY KeysExactHolds DEF KeysFit, In
<1> QED BY <1>1, PTL

-----------------------------------------------------------------------------
(* The login limiter. *)
Checking == {r \in LoginRequests : request[r] = "checking"}
Bound == IF MaxAttempts = 0 THEN 0 ELSE MaxAttempts - 1 + Cardinality(LoginRequests)

LoginInv ==
  /\ now \in Nat /\ failures \in Seq(Nat) /\ attempts \subseteq DOMAIN failures
  /\ request \in [LoginRequests -> {"none", "checking"}]
  /\ Login!Recent \subseteq attempts
  /\ Cardinality(Login!Recent) + Cardinality(Checking) <= Bound

LEMMA LoginConstants ==
  /\ IsFiniteSet(LoginRequests) /\ MaxAttempts \in Nat /\ Window \in Nat \ {0}
  /\ \A S : Login!Cardinality(S) = Cardinality(S)
<1>1. Login!LoginAssumption
  BY PartsAssumption DEF PartsAssumption
<1>2. IsFiniteSet(LoginRequests)
  BY <1>1 DEF Login!LoginAssumption, Login!IsFiniteSet, IsFiniteSet
<1>3. \A S : Login!Cardinality(S) = Cardinality(S)
  BY DEF Login!Cardinality, Cardinality
<1> QED BY <1>1, <1>2, <1>3 DEF Login!LoginAssumption

(* The sets that are counted are finite. *)
LEMMA Counts ==
  ASSUME failures \in Seq(Nat)
  PROVE  /\ IsFiniteSet(Login!Recent) /\ Cardinality(Login!Recent) \in Nat
         /\ IsFiniteSet(Checking) /\ Cardinality(Checking) \in Nat
         /\ Cardinality(Checking) <= Cardinality(LoginRequests)
         /\ Cardinality(LoginRequests) \in Nat
<1>1. IsFiniteSet(1..Len(failures))
  BY FS_Interval
<1>2. Login!Recent \subseteq 1..Len(failures)
  BY DEF Login!Recent
<1>3. IsFiniteSet(Login!Recent)
  BY <1>1, <1>2, FS_Subset
<1>4. IsFiniteSet(Checking) /\ Cardinality(Checking) <= Cardinality(LoginRequests)
  BY LoginConstants, FS_Subset DEF Checking
<1> QED BY <1>3, <1>4, LoginConstants, FS_CardinalityType

LEMMA InitLogin == ASSUME Login!Init PROVE LoginInv
<1>1. Login!Recent = {} /\ Checking = {}
  BY DEF Login!Init, Login!Recent, Checking
<1>2. Cardinality(LoginRequests) \in Nat /\ Cardinality({}) = 0
  BY LoginConstants, FS_CardinalityType, FS_EmptySet
<1>3. 0 <= Bound
  BY <1>2, LoginConstants DEF Bound
<1> QED BY <1>1, <1>2, <1>3 DEF Login!Init, LoginInv

LEMMA ArriveLogin ==
  ASSUME LoginInv, NEW r \in LoginRequests, Login!Arrive(r) PROVE LoginInv'
<1>1. /\ UNCHANGED <<now, failures>> /\ attempts' = attempts \cap Login!Recent
      /\ Login!Recent' = Login!Recent
  BY DEF Login!Arrive, Login!Valid, Login!Recent
<1>2. attempts \cap Login!Recent = Login!Recent
  BY DEF LoginInv
<1>3. CASE Login!Allow(Login!Recent)
  <2>1. Cardinality(Login!Recent) < MaxAttempts
    BY <1>3, LoginConstants DEF Login!Allow
  <2>2. failures \in Seq(Nat) /\ failures' \in Seq(Nat)
    BY <1>1 DEF LoginInv
  <2>3. Cardinality(Login!Recent) + Cardinality(Checking') <= Bound
    <3>1. Cardinality(Checking') \in Nat /\ Cardinality(Checking') <= Cardinality(LoginRequests)
      BY LoginConstants, FS_Subset, FS_CardinalityType DEF Checking
    <3> QED BY <2>1, <2>2, <3>1, Counts, LoginConstants DEF Bound
  <2>4. request' \in [LoginRequests -> {"none", "checking"}]
    BY DEF Login!Arrive, LoginInv
  <2> QED BY <1>1, <1>2, <2>3, <2>4 DEF LoginInv, Login!Recent
<1>4. CASE ~Login!Allow(Login!Recent)
  <2>1. request' = request
    BY <1>2, <1>4 DEF Login!Arrive, Login!Valid, LoginInv
  <2>2. Checking' = Checking
    BY <2>1 DEF Checking
  <2> QED BY <1>1, <1>2, <2>1, <2>2 DEF LoginInv, Login!Recent
<1> QED BY <1>3, <1>4

LEMMA LeaveLogin ==
  ASSUME LoginInv, NEW r \in LoginRequests, request[r] = "checking",
         request' = [request EXCEPT ![r] = "none"]
  PROVE  /\ request' \in [LoginRequests -> {"none", "checking"}]
         /\ Cardinality(Checking) = Cardinality(Checking') + 1
         /\ Cardinality(Checking') \in Nat
<1>1. Checking' = Checking \ {r} /\ r \in Checking
  BY DEF LoginInv, Checking
<1>2. IsFiniteSet(Checking)
  BY Counts DEF LoginInv
<1>3. Cardinality(Checking \ {r}) = Cardinality(Checking) - 1 /\ IsFiniteSet(Checking \ {r})
  BY <1>1, <1>2, FS_RemoveElement
<1>4. Cardinality(Checking \ {r}) \in Nat /\ Cardinality(Checking) \in Nat
  BY <1>2, <1>3, FS_CardinalityType
<1> QED BY <1>1, <1>3, <1>4 DEF LoginInv

LEMMA AcceptLogin ==
  ASSUME LoginInv, NEW r \in LoginRequests, Login!Accept(r) PROVE LoginInv'
<1>1. UNCHANGED <<now, failures, attempts>> /\ Login!Recent' = Login!Recent
  BY DEF Login!Accept, Login!Recent
<1>2. /\ request' \in [LoginRequests -> {"none", "checking"}]
      /\ Cardinality(Checking) = Cardinality(Checking') + 1 /\ Cardinality(Checking') \in Nat
  BY LeaveLogin DEF Login!Accept
<1>3. Cardinality(Login!Recent) \in Nat /\ Bound \in Int
  BY Counts, LoginConstants DEF LoginInv, Bound
<1>4. Cardinality(Login!Recent) + Cardinality(Checking') <= Bound
  BY <1>2, <1>3 DEF LoginInv
<1> QED BY <1>1, <1>2, <1>4 DEF LoginInv

LEMMA FailLogin ==
  ASSUME LoginInv, NEW r \in LoginRequests, Login!RecordFailure(r) PROVE LoginInv'
<1> DEFINE n == Len(failures) + 1
<1>1. /\ now' = now /\ failures' = Append(failures, now) /\ attempts' = attempts \cup {Len(failures')}
      /\ failures \in Seq(Nat) /\ now \in Nat
  BY DEF Login!RecordFailure, LoginInv
<1>2. /\ failures' \in Seq(Nat) /\ Len(failures') = n /\ n \in Nat
      /\ DOMAIN failures' = 1..n /\ DOMAIN failures = 1..Len(failures)
      /\ failures'[n] = now /\ \A i \in DOMAIN failures : failures'[i] = failures[i]
  BY <1>1
<1>3. Login!Recent' = Login!Recent \cup {n} /\ n \notin Login!Recent
  BY <1>1, <1>2, LoginConstants DEF Login!Recent
<1>4. /\ request' \in [LoginRequests -> {"none", "checking"}]
      /\ Cardinality(Checking) = Cardinality(Checking') + 1 /\ Cardinality(Checking') \in Nat
  BY LeaveLogin DEF Login!RecordFailure
<1>5. Cardinality(Login!Recent') = Cardinality(Login!Recent) + 1 /\ Cardinality(Login!Recent) \in Nat
  BY <1>1, <1>3, Counts, FS_AddElement
<1>6. Cardinality(Login!Recent') + Cardinality(Checking') <= Bound
  BY <1>4, <1>5 DEF LoginInv
<1>7. attempts' \subseteq DOMAIN failures' /\ Login!Recent' \subseteq attempts'
  BY <1>1, <1>2, <1>3 DEF LoginInv
<1> QED BY <1>1, <1>2, <1>4, <1>6, <1>7 DEF LoginInv

LEMMA TickLogin == ASSUME LoginInv, Login!Tick PROVE LoginInv'
<1>1. UNCHANGED <<attempts, request, failures>> /\ now' = now + 1
  BY DEF Login!Tick
<1>2. Login!Recent' \subseteq Login!Recent /\ Checking' = Checking
  BY <1>1, LoginConstants DEF Login!Recent, LoginInv, Checking
<1>3. IsFiniteSet(Login!Recent) /\ Cardinality(Login!Recent) \in Nat /\ Cardinality(Checking) \in Nat
  BY Counts DEF LoginInv
<1>4. Cardinality(Login!Recent') <= Cardinality(Login!Recent) /\ Cardinality(Login!Recent') \in Nat
  BY <1>2, <1>3, FS_Subset, FS_CardinalityType
<1>5. Bound \in Int
  BY Counts, LoginConstants DEF LoginInv, Bound
<1> QED BY <1>1, <1>2, <1>3, <1>4, <1>5 DEF LoginInv

LEMMA NextLogin == LoginInv /\ [Login!Next]_loginVars => LoginInv'
<1> SUFFICES ASSUME LoginInv, [Login!Next]_loginVars PROVE LoginInv'
  OBVIOUS
<1>1. CASE \E r \in LoginRequests : Login!Arrive(r) \/ Login!Accept(r) \/ Login!RecordFailure(r)
  BY <1>1, ArriveLogin, AcceptLogin, FailLogin
<1>2. CASE Login!Cleanup \/ UNCHANGED loginVars
  <2>1. UNCHANGED <<now, request, failures>> /\ Login!Recent' = Login!Recent /\ Checking' = Checking
    BY <1>2 DEF Login!Cleanup, loginVars, Login!Recent, Checking
  <2>2. attempts' \in {attempts, attempts \cap Login!Recent}
    BY <1>2 DEF Login!Cleanup, Login!Valid, loginVars
  <2> QED BY <2>1, <2>2 DEF LoginInv
<1> QED BY <1>1, <1>2, TickLogin DEF Login!Next

(* However logins and cleanups interleave, the limiter forgets no failure of the
   window, and lets no more than the limit fail in one, but for those that were
   let through together. *)
THEOREM LoginsAreLimited == PartsSpec => []FailuresBounded
<1>1. PartsInit => LoginInv
  BY InitLogin DEF PartsInit
<1>2. LoginInv /\ [PartsNext]_partsVars => LoginInv'
  BY NextLogin DEF PartsNext, Unused, partsVars
<1>3. LoginInv => FailuresBounded
  BY LoginConstants DEF LoginInv, FailuresBounded, In, Login!FailuresBounded, Login!Valid, Checking, Bound
<1> QED BY <1>1, <1>2, <1>3, PTL DEF PartsSpec
-----------------------------------------------------------------------------
(* The chains of large values. *)
(* Piece i of the n chunks and the manifest of a value, or the value itself if it has none. *)
Piece(v, p, i) ==
  LET n == Chunks[v]
  IN  IF n = 0 THEN Chains!Tuple("inline", v, i, 0)
      ELSE IF i <= n THEN Chains!Tuple("chunk", v, i, IF i = n THEN 0 ELSE p[i + 1])
      ELSE Chains!Tuple("manifest", v, i, p[1])

(* Value v is in the slots p, in order. *)
Lies(h, v, p) ==
  /\ p \in [1..(Chunks[v] + 1) -> ChainSlots]
  /\ \A i, j \in DOMAIN p : p[i] = p[j] => i = j
  /\ \A i \in DOMAIN p : h[p[i]] = Piece(v, p, i)

LEMMA ChainConstants ==
  /\ Chunks \in [ChainValues -> Nat] /\ ChainSlots \subseteq Nat \ {0}
  /\ NoChain \notin ChainValues /\ Free \notin Chains!Tuples
BY PartsAssumption DEF PartsAssumption, Chains!LargeAssumption

LEMMA PieceType ==
  ASSUME NEW v \in ChainValues, NEW p \in [1..(Chunks[v] + 1) -> ChainSlots],
         NEW i \in 1..(Chunks[v] + 1)
  PROVE  Piece(v, p, i) \in Chains!Tuples
<1>1. Chunks[v] \in Nat /\ 1 \in 1..(Chunks[v] + 1) /\ (i < Chunks[v] => i + 1 \in 1..(Chunks[v] + 1))
  BY ChainConstants
<1>2. p[1] \in Nat /\ (i < Chunks[v] => p[i + 1] \in Nat)
  BY <1>1, ChainConstants
<1> QED BY <1>1, <1>2 DEF Piece, Chains!Tuple, Chains!Tuples

(* The tuples of a value, and that they are tuples. *)
LEMMA LiesPieces ==
  ASSUME NEW h, NEW v \in ChainValues, NEW p, Lies(h, v, p)
  PROVE  /\ Chunks[v] \in Nat /\ p \in [1..(Chunks[v] + 1) -> ChainSlots]
         /\ Chunks[v] + 1 \in 1..(Chunks[v] + 1)
         /\ \A i \in 1..(Chunks[v] + 1) : p[i] \in Nat \ {0} /\ h[p[i]] = Piece(v, p, i) /\ h[p[i]] # Free
<1>1. Chunks[v] \in Nat /\ p \in [1..(Chunks[v] + 1) -> ChainSlots]
  BY ChainConstants DEF Lies
<1>2. ASSUME NEW i \in 1..(Chunks[v] + 1)
      PROVE  p[i] \in Nat \ {0} /\ h[p[i]] = Piece(v, p, i) /\ h[p[i]] # Free
  <2>1. p[i] \in ChainSlots /\ DOMAIN p = 1..(Chunks[v] + 1) BY <1>1
  <2>2. h[p[i]] = Piece(v, p, i) BY <2>1 DEF Lies
  <2>3. Piece(v, p, i) \in Chains!Tuples BY <1>1, PieceType
  <2> QED BY <2>1, <2>2, <2>3, ChainConstants
<1> QED BY <1>1, <1>2

(* The slots of its chunks. *)
ChunksAt(v, p) == {p[i] : i \in 1..Chunks[v]}

(* walkChain finds the chunks of a value that lay somewhere, if none of them has been
   freed: its loop is a recursive function, of which there is just one. *)
LEMMA WalkFinds ==
  ASSUME NEW h, NEW g, NEW v \in ChainValues, NEW p, Lies(h, v, p), Chunks[v] > 0,
         g[p[Chunks[v] + 1]] = h[p[Chunks[v] + 1]],
         \A i \in 1..Chunks[v] : g[p[i]] = h[p[i]] \/ g[p[i]] = Free
  PROVE  /\ (\A i \in 1..Chunks[v] : g[p[i]] # Free) => Chains!ChainOf(g, p[Chunks[v] + 1]) = ChunksAt(v, p)
         /\ (\E i \in 1..Chunks[v] : g[p[i]] = Free) => Chains!ChainOf(g, p[Chunks[v] + 1]) = {}
<1> DEFINE n == Chunks[v]
           m == p[n + 1]
           Turn(f, i) == IF i = 0 THEN g[m].next
                          ELSE IF f[i - 1] = 0 \/ g[f[i - 1]] = Free THEN 0
                          ELSE g[f[i - 1]].next
           Walks(f) == f = [i \in 0..n |-> Turn(f, i)]
           Gap(i) == \E j \in 1..n : j <= i /\ g[p[j]] = Free
           path == [i \in 0..n |-> IF i < n /\ ~Gap(i) THEN p[i + 1] ELSE 0]
           walk == CHOOSE f : Walks(f)
<1>0. n \in Nat /\ p \in [1..(n + 1) -> ChainSlots] /\ n + 1 \in 1..(n + 1)
  BY LiesPieces
<1>1. n \in Nat \ {0} /\ p \in [1..(n + 1) -> ChainSlots] /\ n + 1 \in 1..(n + 1)
  BY <1>0
<1>2. \A i \in 1..(n + 1) : p[i] \in Nat \ {0} /\ h[p[i]] = Piece(v, p, i) /\ h[p[i]] # Free
  BY LiesPieces
<1>3. g[m].kind = "manifest" /\ g[m].value = v /\ g[m].next = p[1] /\ g[m] # Free
  <2>1. g[m] = Piece(v, p, n + 1) /\ g[m] # Free BY <1>1, <1>2
  <2>2. Piece(v, p, n + 1) = Chains!Tuple("manifest", v, n + 1, p[1]) BY <1>1 DEF Piece
  <2> HIDE DEF m
  <2> QED BY <2>1, <2>2 DEF Chains!Tuple
<1>4. ASSUME NEW i \in 1..n, g[p[i]] # Free
      PROVE  /\ g[p[i]].kind = "chunk" /\ g[p[i]].value = v /\ g[p[i]].at = i
             /\ g[p[i]].next = IF i = n THEN 0 ELSE p[i + 1]
  <2>1. g[p[i]] = Piece(v, p, i) /\ i <= n /\ n # 0 BY <1>1, <1>2, <1>4
  <2>2. Piece(v, p, i) = Chains!Tuple("chunk", v, i, IF i = n THEN 0 ELSE p[i + 1]) BY <2>1 DEF Piece
  <2> QED BY <2>1, <2>2 DEF Chains!Tuple
<1>5. Walks(path)
  <2>1. ASSUME NEW i \in 0..n PROVE path[i] = Turn(path, i)
    <3>1. CASE i = 0
      <4>1. ~Gap(0) BY <1>1
      <4> HIDE DEF Gap
      <4> QED BY <1>1, <1>3, <3>1, <4>1
    <3>2. CASE i # 0
      <4>1. i \in 1..n /\ i - 1 \in 0..n /\ i - 1 < n /\ (i - 1) + 1 = i
        BY <1>1, <3>2
      <4>2. path[i - 1] = (IF Gap(i - 1) THEN 0 ELSE p[i])
        <5> HIDE DEF Gap
        <5> QED BY <4>1
      <4>3. Gap(i) <=> (Gap(i - 1) \/ g[p[i]] = Free)
        BY <1>1, <4>1
      <4>4. p[i] # 0
        BY <1>1, <1>2, <4>1
      <4>5. path[i] = IF i < n /\ ~Gap(i) THEN p[i + 1] ELSE 0
        OBVIOUS
      <4> HIDE DEF Gap, path
      <4>6. CASE Gap(i - 1)
        BY <3>2, <4>2, <4>3, <4>5, <4>6
      <4>7. CASE ~Gap(i - 1) /\ g[p[i]] = Free
        BY <3>2, <4>2, <4>3, <4>5, <4>7
      <4>8. CASE ~Gap(i - 1) /\ g[p[i]] # Free
        <5>1. g[p[i]].next = IF i = n THEN 0 ELSE p[i + 1]
          BY <1>4, <4>1, <4>8
        <5>2. Turn(path, i) = g[p[i]].next
          BY <3>2, <4>2, <4>4, <4>8
        <5> QED BY <1>1, <4>1, <4>3, <4>5, <4>8, <5>1, <5>2
      <4> QED BY <4>6, <4>7, <4>8
    <3> QED BY <3>1, <3>2
  <2> HIDE DEF Turn
  <2> QED BY <2>1
<1>6. Walks(walk)
  <2> HIDE DEF Walks, path
  <2> QED BY <1>5
<1>7. ASSUME NEW f, Walks(f) PROVE f = path
  <2> DEFINE wrong == {i \in 0..n : f[i] # path[i]}
  <2>1. f = [i \in 0..n |-> f[i]] /\ \A i \in 0..n : f[i] = Turn(f, i)
    BY <1>7
  <2>2. \A i \in 0..n : path[i] = Turn(path, i)
    <3> HIDE DEF Turn
    <3> QED BY <1>5
  <2>3. wrong = {}
    <3> SUFFICES ASSUME wrong # {} PROVE FALSE
      OBVIOUS
    <3>1. PICK i \in wrong : \A j \in wrong : i <= j
      <4>1. wrong \subseteq Nat OBVIOUS
      <4> HIDE DEF wrong
      <4> QED BY <4>1, LeastExists
    <3> HIDE DEF path
    <3>2. i # 0
      BY <2>1, <2>2, <3>1
    <3>3. i - 1 \in 0..n /\ i - 1 \notin wrong
      <4>1. i \in 0..n /\ i - 1 \in 0..n /\ ~(i <= i - 1) BY <1>1, <3>1, <3>2
      <4> HIDE DEF wrong
      <4> QED BY <3>1, <4>1
    <3>4. f[i - 1] = path[i - 1]
      BY <3>3
    <3>5. Turn(f, i) = Turn(path, i)
      BY <3>2, <3>4
    <3>6. i \in 0..n /\ f[i] # path[i]
      BY <3>1
    <3> HIDE DEF Turn, wrong
    <3> QED BY <2>1, <2>2, <3>5, <3>6
  <2>4. path = [i \in 0..n |-> path[i]]
    OBVIOUS
  <2> HIDE DEF path
  <2> QED BY <2>1, <2>3, <2>4
<1>8. walk = path
  <2> HIDE DEF Walks, path, walk
  <2> QED BY <1>6, <1>7
<1> DEFINE S == {walk[i - 1] : i \in 1..n}
           whole == /\ walk[n] = 0 /\ 0 \notin S
                    /\ \A i \in 1..n :
                         g[walk[i - 1]] # Free /\ g[walk[i - 1]].kind = "chunk"
                         /\ g[walk[i - 1]].value = v /\ g[walk[i - 1]].at = i
<1>9. Chains!ChainOf(g, m) = IF whole THEN S ELSE {}
  <2> DEFINE Walk(x) ==
               CHOOSE f : f = [i \in 0..Chunks[x] |->
                                 IF i = 0 THEN g[m].next
                                 ELSE IF f[i - 1] = 0 \/ g[f[i - 1]] = Free THEN 0
                                 ELSE g[f[i - 1]].next]
             Passed(x) == {Walk(x)[i - 1] : i \in 1..Chunks[x]}
             Unbroken(x) == /\ Walk(x)[Chunks[x]] = 0 /\ 0 \notin Passed(x)
                            /\ \A i \in 1..Chunks[x] :
                                 g[Walk(x)[i - 1]] # Free /\ g[Walk(x)[i - 1]].kind = "chunk"
                                 /\ g[Walk(x)[i - 1]].value = x /\ g[Walk(x)[i - 1]].at = i
  <2>1. g[m].value = v /\ ~(g[m] = Free \/ g[m].kind # "manifest") BY <1>3
  <2>2. Chains!ChainOf(g, m) =
          IF g[m] = Free \/ g[m].kind # "manifest" THEN {}
          ELSE IF Unbroken(g[m].value) THEN Passed(g[m].value) ELSE {}
    <3> HIDE DEF m
    <3> QED BY DEF Chains!ChainOf
  <2>3. Unbroken(g[m].value) = Unbroken(v) /\ Passed(g[m].value) = Passed(v)
    <3> HIDE DEF Unbroken, Passed
    <3> QED BY <2>1
  <2>4. Chains!ChainOf(g, m) = IF Unbroken(v) THEN Passed(v) ELSE {}
    <3> HIDE DEF Unbroken, Passed
    <3> QED BY <2>1, <2>2, <2>3
  <2> QED BY <2>4
<1>10. \A i \in 1..n : path[i - 1] = IF Gap(i - 1) THEN 0 ELSE p[i]
  <2> SUFFICES ASSUME NEW i \in 1..n PROVE path[i - 1] = IF Gap(i - 1) THEN 0 ELSE p[i]
    OBVIOUS
  <2>1. i - 1 \in 0..n /\ i - 1 < n /\ (i - 1) + 1 = i BY <1>1
  <2> HIDE DEF Gap
  <2> QED BY <2>1
<1>11. path[n] = 0
  <2> HIDE DEF Gap
  <2> QED BY <1>1
<1> HIDE DEF walk, path
<1>12. CASE \E i \in 1..n : g[p[i]] = Free
  <2>1. PICK i \in 1..n : g[p[i]] = Free
    BY <1>12
  <2>2. g[walk[i - 1]] = Free \/ walk[i - 1] = 0
    <3> HIDE DEF Gap
    <3> QED BY <1>8, <1>10, <2>1
  <2>3. ~whole
    <3>1. walk[i - 1] \in S
      OBVIOUS
    <3> HIDE DEF S
    <3> QED BY <2>2, <3>1
  <2> HIDE DEF whole, S
  <2> QED BY <1>9, <1>12, <2>3
<1>13. CASE \A i \in 1..n : g[p[i]] # Free
  <2>1. \A i \in 1..n : walk[i - 1] = p[i]
    BY <1>8, <1>10, <1>13
  <2>2. whole
    BY <1>1, <1>2, <1>4, <1>8, <1>11, <1>13, <2>1
  <2>3. S = ChunksAt(v, p)
    BY <2>1 DEF ChunksAt
  <2> HIDE DEF whole, S
  <2> QED BY <1>9, <1>13, <2>2, <2>3
<1> QED BY <1>12, <1>13

(* What a value takes, and what is read. *)
LEMMA LiesWhole ==
  ASSUME NEW h, NEW v \in ChainValues, NEW p, Lies(h, v, p)
  PROVE  /\ Chains!SlotsOf(h, Chains!RidAt(v, p)) = Chains!SlotsIn(p)
         /\ Chains!ReadValue(h, Chains!RidAt(v, p)) = v
         /\ Chains!RidAt(v, p).slot \in Chains!SlotsIn(p) /\ Chains!SlotsIn(p) \subseteq ChainSlots
         /\ \A s \in Chains!SlotsIn(p) : h[s] # Free
<1> DEFINE n == Chunks[v]
           m == p[n + 1]
<1>1. n \in Nat /\ p \in [1..(n + 1) -> ChainSlots] /\ n + 1 \in 1..(n + 1)
  BY LiesPieces
<1>2. \A i \in 1..(n + 1) : p[i] \in Nat \ {0} /\ h[p[i]] = Piece(v, p, i) /\ h[p[i]] # Free
  BY LiesPieces
<1>3. h[m].value = v /\ m # 0 /\ h[m] # Free
  <2>1. h[m] = Piece(v, p, n + 1) /\ h[m] # Free /\ m # 0 BY <1>1, <1>2
  <2>2. Piece(v, p, n + 1).value = v BY <1>1 DEF Piece, Chains!Tuple
  <2> HIDE DEF m
  <2> QED BY <2>1, <2>2
<1>6. Chains!RidAt(v, p).slot = m /\ Chains!RidAt(v, p).large = (n > 0) BY DEF Chains!RidAt
<1>4. Chains!SlotsOf(h, Chains!RidAt(v, p)) = Chains!SlotsIn(p)
  <2>1. CASE n = 0
    <3>1. Chains!SlotsIn(p) = {m}
      <4>1. DOMAIN p = {n + 1} BY <1>1, <2>1
      <4> QED BY <4>1 DEF Chains!SlotsIn
    <3>2. ~(n > 0) BY <2>1
    <3> HIDE DEF n, m
    <3> QED BY <1>3, <1>6, <3>1, <3>2 DEF Chains!SlotsOf
  <2>2. CASE n > 0
    <3>1. Chains!ChainOf(h, m) = {p[i] : i \in 1..n}
      <4>1. \A i \in 1..n : h[p[i]] # Free BY <1>1, <1>2
      <4>2. PICK g : g = h
        OBVIOUS
      <4>3. g[m] = h[m] /\ \A i \in 1..n : g[p[i]] = h[p[i]] \/ g[p[i]] = Free
        BY <4>2
      <4>4. Chains!ChainOf(g, m) = ChunksAt(v, p)
        BY <2>2, <4>1, <4>2, <4>3, WalkFinds
      <4> QED BY <4>2, <4>4 DEF ChunksAt
    <3>2. p[1] \in Chains!ChainOf(h, m) BY <1>1, <2>2, <3>1
    <3>3. Chains!SlotsIn(p) = Chains!ChainOf(h, m) \cup {m} BY <1>1, <3>1 DEF Chains!SlotsIn
    <3> HIDE DEF n, m
    <3> QED BY <1>3, <1>6, <2>2, <3>2, <3>3 DEF Chains!SlotsOf
  <2> QED BY <1>1, <2>1, <2>2
<1>5. m \in Chains!SlotsIn(p) /\ Chains!SlotsIn(p) \subseteq ChainSlots /\ \A s \in Chains!SlotsIn(p) : h[s] # Free
  BY <1>1, <1>2 DEF Chains!SlotsIn
<1> QED BY <1>3, <1>4, <1>5 DEF Chains!ReadValue, Chains!RidAt

(* Where tuples have been changed elsewhere, a value lies where it did. *)
LEMMA LiesStays ==
  ASSUME NEW h, NEW g, NEW v \in ChainValues, NEW p, Lies(h, v, p), \A s \in Chains!SlotsIn(p) : g[s] = h[s]
  PROVE  Lies(g, v, p)
BY DEF Lies, Chains!SlotsIn

(* insertValue puts a value where it says it does, and nothing else. *)
LEMMA WrittenLies ==
  ASSUME NEW v \in ChainValues, NEW p \in Chains!Places(v)
  PROVE  /\ Lies(Chains!Written(heap, v, p), v, p) /\ Chains!SlotsIn(p) \subseteq Chains!FreeSlots
         /\ \A s \in ChainSlots \ Chains!SlotsIn(p) : Chains!Written(heap, v, p)[s] = heap[s]
         /\ \A s \in Chains!SlotsIn(p) : Chains!Written(heap, v, p)[s] \in Chains!Tuples
<1> DEFINE n == Chunks[v]
           at(s) == CHOOSE i \in DOMAIN p : p[i] = s
           w == Chains!Written(heap, v, p)
<1>1. /\ n \in Nat /\ p \in [1..(n + 1) -> Chains!FreeSlots] /\ Chains!FreeSlots \subseteq ChainSlots
      /\ \A i, j \in 1..(n + 1) : i < j => p[i] < p[j]
  BY ChainConstants DEF Chains!Places, Chains!FreeSlots
<1>2. \A i, j \in DOMAIN p : p[i] = p[j] => i = j
  <2> SUFFICES ASSUME NEW i \in 1..(n + 1), NEW j \in 1..(n + 1), p[i] = p[j], i # j PROVE FALSE
    BY <1>1
  <2>1. p[i] \in Nat /\ p[j] \in Nat BY <1>1, ChainConstants
  <2> QED BY <1>1, <2>1
<1>3. \A i \in DOMAIN p : at(p[i]) = i
  BY <1>2
<1>4. ASSUME NEW i \in DOMAIN p PROVE w[p[i]] = Piece(v, p, i)
  <2>1. p[i] \in ChainSlots BY <1>1
  <2>2. w[p[i]] = Chains!Tuple(IF n = 0 THEN "inline" ELSE IF i <= n THEN "chunk" ELSE "manifest", v, i,
                               IF i > n THEN (IF n = 0 THEN 0 ELSE p[1]) ELSE IF i = n THEN 0 ELSE p[i + 1])
    BY <1>3, <2>1 DEF Chains!Written
  <2>3. i \in 1..(n + 1) BY <1>1
  <2> QED BY <1>1, <2>2, <2>3 DEF Piece
<1>5. \A s \in ChainSlots \ Chains!SlotsIn(p) : w[s] = heap[s]
  BY DEF Chains!Written, Chains!SlotsIn
<1>6. p \in [1..(n + 1) -> ChainSlots] BY <1>1
<1>7. Lies(w, v, p) BY <1>2, <1>4, <1>6 DEF Lies
<1>8. \A s \in Chains!SlotsIn(p) : w[s] \in Chains!Tuples
  BY <1>1, <1>4, <1>6, PieceType DEF Chains!SlotsIn
<1> QED BY <1>1, <1>5, <1>7, <1>8 DEF Chains!SlotsIn

LEMMA NowhereTaken ==
  ASSUME NEW h, NEW rid, rid.slot = 0 \/ h[rid.slot] = Free PROVE Chains!SlotsOf(h, rid) = {}
BY DEF Chains!SlotsOf, Chains!ChainOf

(* A chain of which some tuples have been freed is not whole. *)
LEMMA BrokenChain ==
  ASSUME NEW h, NEW g, NEW v \in ChainValues, NEW p, Lies(h, v, p),
         \A s \in Chains!SlotsIn(p) : g[s] = h[s] \/ g[s] = Free,
         \E s \in Chains!SlotsIn(p) : g[s] = Free
  PROVE  Chains!SlotsOf(g, Chains!RidAt(v, p)) = {}
<1> DEFINE n == Chunks[v]
           m == p[n + 1]
<1>1. n \in Nat /\ p \in [1..(n + 1) -> ChainSlots] /\ n + 1 \in 1..(n + 1)
  BY LiesPieces
<1>2. \A i \in 1..(n + 1) : g[p[i]] = h[p[i]] \/ g[p[i]] = Free
  BY <1>1 DEF Chains!SlotsIn
<1>3. PICK i \in 1..(n + 1) : g[p[i]] = Free
  BY <1>1 DEF Chains!SlotsIn
<1>4. Chains!RidAt(v, p).slot = m /\ Chains!RidAt(v, p).large = (n > 0)
  BY DEF Chains!RidAt
<1>5. CASE g[m] = Free
  BY <1>4, <1>5, NowhereTaken
<1>6. CASE g[m] # Free
  <2>1. i \in 1..n /\ n > 0
    BY <1>1, <1>3, <1>6
  <2>2. g[m] = h[m] /\ \A j \in 1..n : g[p[j]] = h[p[j]] \/ g[p[j]] = Free
    BY <1>1, <1>2, <1>6
  <2>3. Chains!ChainOf(g, m) = {}
    BY <1>3, <2>1, <2>2, WalkFinds
  <2> HIDE DEF m, n
  <2> QED BY <1>4, <2>1, <2>3 DEF Chains!SlotsOf
<1> QED BY <1>5, <1>6

(* What the engine keeps of a key's value, and what a call does to it.  A key that
   has a value leads to where the value lies whole; any other leads nowhere, or, when
   forgetting it has failed, to a chain that is not whole.  An engine that has halted
   may have the value of the call that failed instead of the one acknowledged. *)
Taken(k) == Chains!SlotsOf(heap, leaf[k])
HoldsValue(k, v) ==
  \/ v \in ChainValues /\ (\E p : Lies(heap, v, p) /\ leaf[k] = Chains!RidAt(v, p))
  \/ v = NoChain /\ (leaf[k] = Chains!NoRID \/ (halted /\ Taken(k) = {}))
Held(k) ==
  \/ HoldsValue(k, acked[k])
  \/ halted /\ \E v : <<k, v>> \in undecided /\ HoldsValue(k, v)
ChainTypes ==
  /\ heap \in [ChainSlots -> Chains!Tuples \cup {Free}]
  /\ leaf \in [ChainKeys -> [slot : ChainSlots \cup {0}, large : BOOLEAN]]
  /\ acked \in [ChainKeys -> ChainValues \cup {NoChain}]
ChainState ==
  /\ ChainTypes
  /\ hidden # {} => halted
  /\ \A k \in ChainKeys : Held(k)
  /\ \A j, k \in ChainKeys : j # k => Taken(j) \cap Taken(k) = {}
  /\ ~halted => \A k \in ChainKeys : orphans \cap Taken(k) = {}
  /\ ChainSlots \ Chains!FreeSlots = orphans \cup UNION {Taken(k) : k \in ChainKeys}
ChainInv == part = "chains" => ChainState

(* What is held is in use, and is what is read. *)
LEMMA HoldsReads ==
  ASSUME NEW k \in ChainKeys, NEW v, HoldsValue(k, v)
  PROVE  Taken(k) \subseteq ChainSlots \ Chains!FreeSlots /\ Chains!ReadValue(heap, leaf[k]) = v
<1>1. CASE v \in ChainValues
  <2>1. PICK p : Lies(heap, v, p) /\ leaf[k] = Chains!RidAt(v, p)
    BY <1>1, ChainConstants DEF HoldsValue
  <2> QED BY <1>1, <2>1, LiesWhole DEF Taken, Chains!FreeSlots
<1>2. CASE v = NoChain
  <2>1. Taken(k) = {}
    BY <1>2, NowhereTaken, ChainConstants DEF HoldsValue, Taken, Chains!NoRID
  <2> QED BY <1>2, <2>1 DEF Taken, Chains!ReadValue
<1> QED BY <1>1, <1>2 DEF HoldsValue

LEMMA HeldIsTaken ==
  ASSUME NEW k \in ChainKeys, Held(k)
  PROVE  /\ Taken(k) \subseteq ChainSlots \ Chains!FreeSlots
         /\ \/ Chains!ReadValue(heap, leaf[k]) = acked[k]
            \/ halted /\ <<k, Chains!ReadValue(heap, leaf[k])>> \in undecided
BY HoldsReads DEF Held

(* A call leaves alone the keys whose tuples it does not touch. *)
LEMMA OthersHeld ==
  ASSUME NEW j \in ChainKeys, Held(j), ~halted,
         \A s \in Taken(j) : heap'[s] = heap[s], leaf'[j] = leaf[j], acked'[j] = acked[j]
  PROVE  Held(j)' /\ Taken(j)' = Taken(j)
<1>0. HoldsValue(j, acked[j])
  BY DEF Held
<1>1. CASE acked[j] \in ChainValues
  <2>1. PICK p : Lies(heap, acked[j], p) /\ leaf[j] = Chains!RidAt(acked[j], p)
    BY <1>0, <1>1, ChainConstants DEF HoldsValue
  <2>2. Taken(j) = Chains!SlotsIn(p)
    BY <1>1, <2>1, LiesWhole DEF Taken
  <2>3. Lies(heap', acked[j], p)
    BY <1>1, <2>1, <2>2, LiesStays
  <2>4. Chains!SlotsOf(heap', leaf'[j]) = Chains!SlotsIn(p)
    BY <1>1, <2>1, <2>3, LiesWhole
  <2> QED BY <1>1, <2>1, <2>2, <2>3, <2>4 DEF Held, HoldsValue, Taken
<1>2. CASE acked[j] = NoChain
  <2>1. leaf[j] = Chains!NoRID
    BY <1>0, <1>2, ChainConstants DEF HoldsValue
  <2> QED BY <1>2, <2>1, NowhereTaken DEF Held, HoldsValue, Taken, Chains!NoRID
<1> QED BY <1>0, <1>1, <1>2 DEF HoldsValue

(* A call puts what key k has now in the slots New, and frees those it had, but for
   the lost ones. *)
LEMMA CallReplaces ==
  ASSUME ChainState, ~halted, NEW k \in ChainKeys, NEW New, NEW lost,
         New \subseteq Chains!FreeSlots, lost \subseteq Taken(k), ChainTypes',
         hidden' # {} => halted',
         \A s \in New : heap'[s] # Free, \A s \in Taken(k) \ lost : heap'[s] = Free,
         \A s \in ChainSlots \ (New \cup (Taken(k) \ lost)) : heap'[s] = heap[s],
         \A j \in ChainKeys \ {k} : leaf'[j] = leaf[j] /\ acked'[j] = acked[j],
         orphans' = orphans \cup lost, Held(k)', Taken(k)' = New
  PROVE  ChainState'
<1>1. \A j \in ChainKeys : Taken(j) \subseteq ChainSlots \ Chains!FreeSlots
  BY HeldIsTaken DEF ChainState
<1>2. ASSUME NEW j \in ChainKeys \ {k} PROVE Held(j)' /\ Taken(j)' = Taken(j)
  <2>1. \A s \in Taken(j) : heap'[s] = heap[s]
    BY <1>1 DEF ChainState
  <2> QED BY <2>1, OthersHeld DEF ChainState
<1>3. orphans \subseteq ChainSlots \ Chains!FreeSlots
  BY DEF ChainState
<1>4. \A j \in ChainKeys : Held(j)'
  BY <1>2
<1>5. \A i, j \in ChainKeys : i # j => Taken(i)' \cap Taken(j)' = {}
  <2> SUFFICES ASSUME NEW i \in ChainKeys, NEW j \in ChainKeys, i # j
               PROVE  Taken(i)' \cap Taken(j)' = {}
    OBVIOUS
  <2>1. Taken(i) \cap Taken(j) = {}
    BY DEF ChainState
  <2> QED BY <1>1, <1>2, <2>1
<1>6. \A j \in ChainKeys : orphans' \cap Taken(j)' = {}
  <2> SUFFICES ASSUME NEW j \in ChainKeys PROVE orphans' \cap Taken(j)' = {}
    OBVIOUS
  <2>1. orphans \cap Taken(j) = {} /\ (j # k => Taken(k) \cap Taken(j) = {})
    BY DEF ChainState
  <2> QED BY <1>1, <1>2, <1>3, <2>1
<1>7. ChainSlots \ Chains!FreeSlots' = orphans' \cup UNION {Taken(j)' : j \in ChainKeys}
  <2>1. ASSUME NEW s \in ChainSlots
        PROVE  (s \notin Chains!FreeSlots') <=> (s \in orphans' \/ \E j \in ChainKeys : s \in Taken(j)')
    <3>1. (s \notin Chains!FreeSlots) <=> (s \in orphans \/ \E j \in ChainKeys : s \in Taken(j))
      BY DEF ChainState
    <3>2. (s \notin Chains!FreeSlots) <=> heap[s] # Free
      BY DEF Chains!FreeSlots
    <3>3. (s \notin Chains!FreeSlots') <=> heap'[s] # Free
      BY DEF Chains!FreeSlots
    <3>4. (\E j \in ChainKeys : s \in Taken(j)') <=> (s \in New \/ \E j \in ChainKeys \ {k} : s \in Taken(j))
      BY <1>2
    <3>5. s \in Taken(k) => s \notin orphans /\ \A j \in ChainKeys \ {k} : s \notin Taken(j)
      BY DEF ChainState
    <3>6. CASE s \in New
      BY <3>3, <3>4, <3>6
    <3>7. CASE s \in Taken(k) \ lost
      <4>1. s \notin New BY <1>1, <3>7
      <4> QED BY <3>3, <3>4, <3>5, <3>7, <4>1
    <3>8. CASE s \notin New /\ s \notin Taken(k) \ lost
      BY <3>1, <3>2, <3>3, <3>4, <3>8
    <3> QED BY <3>6, <3>7, <3>8
  <2>2. orphans' \subseteq ChainSlots /\ \A j \in ChainKeys : Taken(j)' \subseteq ChainSlots
    BY <1>1, <1>2, <1>3 DEF Chains!FreeSlots
  <2> QED BY <2>1, <2>2
<1> QED BY <1>4, <1>5, <1>6, <1>7 DEF ChainState

(* What the key has is what it was, while a new value is written beside it. *)
LEMMA WrittenTaken ==
  ASSUME ChainState, ~halted, NEW k \in ChainKeys, NEW v \in ChainValues, NEW p \in Chains!Places(v)
  PROVE  Chains!SlotsOf(Chains!Written(heap, v, p), leaf[k]) = Taken(k)
<1> DEFINE w == Chains!Written(heap, v, p)
<1>1. Chains!SlotsIn(p) \subseteq Chains!FreeSlots /\ \A s \in ChainSlots \ Chains!SlotsIn(p) : w[s] = heap[s]
  BY WrittenLies
<1>2. Held(k) /\ Taken(k) \subseteq ChainSlots \ Chains!FreeSlots
  BY HeldIsTaken DEF ChainState
<1>3. \A s \in Taken(k) : w[s] = heap[s]
  BY <1>1, <1>2
<1> HIDE DEF w
<1>0. HoldsValue(k, acked[k])
  BY DEF ChainState, Held
<1>4. CASE acked[k] \in ChainValues
  <2>1. PICK q : Lies(heap, acked[k], q) /\ leaf[k] = Chains!RidAt(acked[k], q)
    BY <1>0, <1>4, ChainConstants DEF HoldsValue
  <2>2. Taken(k) = Chains!SlotsIn(q)
    BY <1>4, <2>1, LiesWhole DEF Taken
  <2>3. Lies(w, acked[k], q)
    BY <1>3, <1>4, <2>1, <2>2, LiesStays
  <2>4. Chains!SlotsOf(w, leaf[k]) = Chains!SlotsIn(q)
    BY <1>4, <2>1, <2>3, LiesWhole
  <2> QED BY <2>2, <2>4 DEF w
<1>5. CASE acked[k] = NoChain
  <2>1. leaf[k] = Chains!NoRID
    BY <1>0, <1>5, ChainConstants DEF HoldsValue
  <2> QED BY <2>1, NowhereTaken DEF Taken, Chains!NoRID
<1> QED BY <1>0, <1>4, <1>5 DEF HoldsValue

LEMMA RidType ==
  ASSUME NEW v \in ChainValues, NEW p \in [1..(Chunks[v] + 1) -> ChainSlots]
  PROVE  Chains!RidAt(v, p) \in [slot : ChainSlots \cup {0}, large : BOOLEAN] /\ Chains!RidAt(v, p).slot \in ChainSlots
<1>1. Chunks[v] + 1 \in 1..(Chunks[v] + 1) BY ChainConstants
<1>2. p[Chunks[v] + 1] \in ChainSlots BY <1>1
<1> QED BY <1>2 DEF Chains!RidAt

(* A value is put in the place of another, of which some tuples may be lost. *)
LEMMA PutChainKeeps ==
  ASSUME ChainState, ~halted, NEW k \in ChainKeys, NEW v \in ChainValues,
         NEW p \in Chains!Places(v), NEW lost, lost \subseteq Taken(k),
         heap' = Chains!Freed(Chains!Written(heap, v, p), Taken(k) \ lost),
         leaf' = [leaf EXCEPT ![k] = Chains!RidAt(v, p)], acked' = [acked EXCEPT ![k] = v],
         orphans' = orphans \cup lost, hidden' = hidden
  PROVE  ChainState'
<1> DEFINE w == Chains!Written(heap, v, p)
<1>1. /\ Lies(w, v, p) /\ Chains!SlotsIn(p) \subseteq Chains!FreeSlots
      /\ \A s \in ChainSlots \ Chains!SlotsIn(p) : w[s] = heap[s]
      /\ \A s \in Chains!SlotsIn(p) : w[s] \in Chains!Tuples
  BY WrittenLies
<1>2. Taken(k) \subseteq ChainSlots \ Chains!FreeSlots
  BY HeldIsTaken DEF ChainState
<1>3. heap' = [s \in ChainSlots |-> IF s \in Taken(k) \ lost THEN Free ELSE w[s]]
  BY DEF Chains!Freed
<1> HIDE DEF w
<1>4. Chains!SlotsIn(p) \subseteq ChainSlots
  BY <1>1 DEF Chains!FreeSlots
<1>5. \A s \in Chains!SlotsIn(p) : s \in ChainSlots /\ s \notin Taken(k) /\ heap'[s] = w[s] /\ heap'[s] # Free
  <2>1. \A s \in Chains!SlotsIn(p) : s \in ChainSlots /\ s \notin Taken(k) /\ heap'[s] = w[s]
    BY <1>1, <1>2, <1>3, <1>4
  <2> QED BY <1>1, <2>1, ChainConstants
<1>6. \A s \in ChainSlots \ (Chains!SlotsIn(p) \cup (Taken(k) \ lost)) : heap'[s] = heap[s]
  BY <1>1, <1>3
<1>7. \A s \in Taken(k) \ lost : heap'[s] = Free
  BY <1>2, <1>3
<1>8. Lies(heap', v, p)
  BY <1>1, <1>5, LiesStays
<1>9. acked'[k] = v /\ leaf'[k] = Chains!RidAt(v, p)
  BY DEF ChainState, ChainTypes
<1>10. Held(k)' /\ Taken(k)' = Chains!SlotsIn(p)
  <2>1. HoldsValue(k, acked[k])'
    BY <1>8, <1>9 DEF HoldsValue
  <2>2. Taken(k)' = Chains!SlotsIn(p)
    BY <1>8, <1>9, LiesWhole DEF Taken
  <2> QED BY <2>1, <2>2 DEF Held
<1>11. ChainTypes'
  <2>1. heap' \in [ChainSlots -> Chains!Tuples \cup {Free}]
    BY <1>1, <1>3 DEF ChainState, ChainTypes
  <2>2. p \in [1..(Chunks[v] + 1) -> ChainSlots]
    BY <1>1 DEF Lies
  <2> QED BY <2>1, <2>2, RidType DEF ChainState, ChainTypes
<1>12. \A j \in ChainKeys \ {k} : leaf'[j] = leaf[j] /\ acked'[j] = acked[j]
  BY DEF ChainState, ChainTypes
<1>13. hidden' = {}
  BY DEF ChainState
<1> QED BY <1>1, <1>5, <1>6, <1>7, <1>10, <1>11, <1>12, <1>13, CallReplaces

(* A value goes, and some of its tuples may be lost. *)
LEMMA DeleteChainKeeps ==
  ASSUME ChainState, ~halted, NEW k \in ChainKeys,
         NEW lost, lost \subseteq Taken(k),
         heap' = Chains!Freed(heap, Taken(k) \ lost), acked' = [acked EXCEPT ![k] = NoChain],
         orphans' = orphans \cup lost, hidden' = hidden,
         leaf' = [leaf EXCEPT ![k] = Chains!NoRID]
  PROVE  ChainState'
<1>1. Taken(k) \subseteq ChainSlots \ Chains!FreeSlots
  BY HeldIsTaken DEF ChainState
<1>2. heap' = [s \in ChainSlots |-> IF s \in Taken(k) \ lost THEN Free ELSE heap[s]]
  BY DEF Chains!Freed
<1>3. ChainTypes'
  <2>1. Chains!NoRID \in [slot : ChainSlots \cup {0}, large : BOOLEAN]
    BY DEF Chains!NoRID
  <2>2. heap' \in [ChainSlots -> Chains!Tuples \cup {Free}]
    BY <1>2 DEF ChainState, ChainTypes
  <2>3. leaf' \in [ChainKeys -> [slot : ChainSlots \cup {0}, large : BOOLEAN]]
    BY <2>1 DEF ChainState, ChainTypes
  <2>4. acked' \in [ChainKeys -> ChainValues \cup {NoChain}]
    BY DEF ChainState, ChainTypes
  <2> QED BY <2>2, <2>3, <2>4 DEF ChainTypes
<1>4. acked'[k] = NoChain /\ leaf'[k] = Chains!NoRID
  BY DEF ChainState, ChainTypes
<1>5. Held(k)' /\ Taken(k)' = {}
  BY <1>4, NowhereTaken DEF Held, HoldsValue, Taken, Chains!NoRID
<1>6. \A s \in Taken(k) \ lost : heap'[s] = Free
  BY <1>1, <1>2
<1>7. \A s \in ChainSlots \ ({} \cup (Taken(k) \ lost)) : heap'[s] = heap[s]
  BY <1>2
<1>8. \A j \in ChainKeys \ {k} : leaf'[j] = leaf[j] /\ acked'[j] = acked[j]
  BY DEF ChainState, ChainTypes
<1>9. hidden' = {}
  BY DEF ChainState
<1> QED BY <1>3, <1>5, <1>6, <1>7, <1>8, <1>9, CallReplaces

(* A call that fails writes or leaves tuples in the slots New, to which nothing leads. *)
LEMMA LeftBehindKeeps ==
  ASSUME ChainState, ~halted, halted', NEW New, New \subseteq Chains!FreeSlots,
         heap' \in [ChainSlots -> Chains!Tuples \cup {Free}],
         \A s \in New : heap'[s] # Free, \A s \in ChainSlots \ New : heap'[s] = heap[s],
         leaf' = leaf, acked' = acked, orphans' = orphans \cup New
  PROVE  ChainState'
<1>1. \A j \in ChainKeys : Taken(j) \subseteq ChainSlots \ Chains!FreeSlots
  BY HeldIsTaken DEF ChainState
<1>2. ASSUME NEW j \in ChainKeys PROVE Held(j)' /\ Taken(j)' = Taken(j)
  <2>1. \A s \in Taken(j) : heap'[s] = heap[s]
    BY <1>1
  <2> QED BY <2>1, OthersHeld DEF ChainState
<1>3. ChainTypes'
  BY DEF ChainState, ChainTypes
<1>4. ChainSlots \ Chains!FreeSlots' = orphans' \cup UNION {Taken(j)' : j \in ChainKeys}
  <2>1. ASSUME NEW s \in ChainSlots
        PROVE  (s \notin Chains!FreeSlots') <=> (s \in orphans' \/ \E j \in ChainKeys : s \in Taken(j)')
    <3>1. (s \notin Chains!FreeSlots) <=> (s \in orphans \/ \E j \in ChainKeys : s \in Taken(j))
      BY DEF ChainState
    <3>2. (s \notin Chains!FreeSlots) <=> heap[s] # Free
      BY DEF Chains!FreeSlots
    <3>3. (s \notin Chains!FreeSlots') <=> heap'[s] # Free
      BY DEF Chains!FreeSlots
    <3> QED BY <1>2, <3>1, <3>2, <3>3
  <2>2. orphans' \subseteq ChainSlots /\ \A j \in ChainKeys : Taken(j)' \subseteq ChainSlots
    BY <1>1, <1>2 DEF Chains!FreeSlots, ChainState
  <2> QED BY <2>1, <2>2
<1>5. \A j, l \in ChainKeys : j # l => Taken(j)' \cap Taken(l)' = {}
  BY <1>2 DEF ChainState
<1> QED BY <1>2, <1>3, <1>4, <1>5 DEF ChainState

LEMMA PutFailsKeeps ==
  ASSUME ChainState, NEW k \in ChainKeys, NEW v \in ChainValues, Chains!PutFails(k, v)
  PROVE  ChainState'
<1>1. PICK p \in Chains!Places(v), n \in 0..Chunks[v] :
        LET w == Chains!Written(heap, v, p)
            written == {p[i] : i \in (Chunks[v] - n + 1)..Chunks[v]}
        IN  \E lost \in SUBSET written :
              /\ heap' = Chains!Freed([s \in ChainSlots |-> IF s \in written THEN w[s] ELSE heap[s]],
                                      written \ lost)
              /\ orphans' = orphans \cup lost
  BY DEF Chains!PutFails, Chains!Undo
<1> DEFINE w == Chains!Written(heap, v, p)
           written == {p[i] : i \in (Chunks[v] - n + 1)..Chunks[v]}
<1>2. PICK lost \in SUBSET written :
        /\ heap' = Chains!Freed([s \in ChainSlots |-> IF s \in written THEN w[s] ELSE heap[s]],
                                written \ lost)
        /\ orphans' = orphans \cup lost
  BY <1>1
<1>3. ~halted /\ halted' /\ leaf' = leaf /\ acked' = acked
  BY DEF Chains!PutFails, Chains!Halt
<1>4. /\ Lies(w, v, p) /\ Chains!SlotsIn(p) \subseteq Chains!FreeSlots
      /\ \A s \in Chains!SlotsIn(p) : w[s] \in Chains!Tuples
  BY WrittenLies
<1>5. written \subseteq Chains!SlotsIn(p)
  <2>1. DOMAIN p = 1..(Chunks[v] + 1) /\ Chunks[v] \in Nat /\ n \in Nat /\ n <= Chunks[v]
    BY <1>4, ChainConstants DEF Lies
  <2>2. \A i \in (Chunks[v] - n + 1)..Chunks[v] : i \in DOMAIN p
    BY <2>1
  <2> QED BY <2>2 DEF Chains!SlotsIn
<1> HIDE DEF w, written
<1>6. heap' = [s \in ChainSlots |-> IF s \in written \ lost THEN Free
                                    ELSE IF s \in written THEN w[s] ELSE heap[s]]
  BY <1>2 DEF Chains!Freed
<1>7. lost \subseteq Chains!FreeSlots /\ written \subseteq ChainSlots /\ lost \subseteq written
  BY <1>2, <1>4, <1>5 DEF Chains!FreeSlots
<1>8. \A s \in lost : heap'[s] = w[s] /\ w[s] # Free
  BY <1>4, <1>5, <1>6, <1>7, ChainConstants
<1>9. \A s \in ChainSlots \ lost : heap'[s] = heap[s]
  BY <1>4, <1>5, <1>6 DEF Chains!FreeSlots
<1>10. heap' \in [ChainSlots -> Chains!Tuples \cup {Free}]
  BY <1>4, <1>5, <1>6 DEF ChainState, ChainTypes
<1> QED BY <1>2, <1>3, <1>7, <1>8, <1>9, <1>10, LeftBehindKeeps

(* A value that the index does not take is left where it is; one that it takes in a
   split that stops halfway is where the key leads, and the old one is left behind. *)
LEMMA IndexFailsKeeps ==
  ASSUME ChainState, NEW k \in ChainKeys, NEW v \in ChainValues, Chains!IndexFails(k, v)
  PROVE  ChainState'
<1>1. PICK p \in Chains!Places(v) :
        /\ heap' = Chains!Written(heap, v, p)
        /\ \/ orphans' = orphans \cup Chains!SlotsIn(p) /\ leaf' = leaf
           \/ orphans' = orphans \cup Taken(k) /\ leaf' = [leaf EXCEPT ![k] = Chains!RidAt(v, p)]
  BY DEF Chains!IndexFails, Taken
<1>2. ~halted /\ halted' /\ acked' = acked /\ <<k, v>> \in undecided'
  BY DEF Chains!IndexFails, Chains!Halt
<1>3. /\ Lies(heap', v, p) /\ Chains!SlotsIn(p) \subseteq Chains!FreeSlots
      /\ \A s \in ChainSlots \ Chains!SlotsIn(p) : heap'[s] = heap[s]
      /\ \A s \in Chains!SlotsIn(p) : heap'[s] \in Chains!Tuples
  BY <1>1, WrittenLies
<1>4. \A s \in Chains!SlotsIn(p) : heap'[s] # Free
  BY <1>3, ChainConstants
<1>5. heap' \in [ChainSlots -> Chains!Tuples \cup {Free}]
  <2>1. heap' = [s \in ChainSlots |-> heap'[s]]
    BY <1>1 DEF Chains!Written
  <2> QED BY <1>3, <2>1 DEF ChainState, ChainTypes
<1>6. CASE orphans' = orphans \cup Chains!SlotsIn(p) /\ leaf' = leaf
  BY <1>2, <1>3, <1>4, <1>5, <1>6, LeftBehindKeeps
<1>7. CASE orphans' = orphans \cup Taken(k) /\ leaf' = [leaf EXCEPT ![k] = Chains!RidAt(v, p)]
  <2>1. leaf'[k] = Chains!RidAt(v, p)
    BY <1>7 DEF ChainState, ChainTypes
  <2>2. Held(k)' /\ Taken(k)' = Chains!SlotsIn(p)
    BY <1>2, <1>3, <2>1, LiesWhole DEF Held, HoldsValue, Taken
  <2>3. \A j \in ChainKeys \ {k} : leaf'[j] = leaf[j] /\ acked'[j] = acked[j]
    BY <1>2, <1>7 DEF ChainState, ChainTypes
  <2>4. ChainTypes'
    <3>1. p \in [1..(Chunks[v] + 1) -> ChainSlots]
      BY <1>3 DEF Lies
    <3> QED BY <1>2, <1>5, <1>7, <3>1, RidType DEF ChainState, ChainTypes
  <2>5. PICK lost : lost = Taken(k)
    OBVIOUS
  <2>6. \A s \in ChainSlots \ (Chains!SlotsIn(p) \cup (Taken(k) \ lost)) : heap'[s] = heap[s]
    BY <1>3
  <2>7. lost \subseteq Taken(k) /\ orphans' = orphans \cup lost /\ \A s \in Taken(k) \ lost : heap'[s] = Free
    BY <1>7, <2>5
  <2> QED BY <1>2, <1>3, <1>4, <2>2, <2>3, <2>4, <2>6, <2>7, CallReplaces
<1> QED BY <1>1, <1>6, <1>7

(* A value that is to go, of which some tuples stay, while the index keeps the key:
   it is broken, unless all of them stay. *)
LEMMA DeleteFailsKeeps ==
  ASSUME ChainState, NEW k \in ChainKeys, Chains!DeleteFails(k)
  PROVE  ChainState'
<1>1. PICK lost \in SUBSET Taken(k) :
        heap' = Chains!Freed(heap, Taken(k) \ lost) /\ orphans' = orphans \cup lost
  BY DEF Chains!DeleteFails, Taken
<1>2. ~halted /\ halted' /\ leaf' = leaf /\ acked' = acked /\ <<k, NoChain>> \in undecided'
  BY DEF Chains!DeleteFails, Chains!Halt
<1>3. leaf[k] # Chains!NoRID
  BY DEF Chains!DeleteFails, Chains!NoRID
<1>4. PICK p : Lies(heap, acked[k], p) /\ leaf[k] = Chains!RidAt(acked[k], p) /\ acked[k] \in ChainValues
  BY <1>2, <1>3 DEF ChainState, Held, HoldsValue
<1>5. Taken(k) = Chains!SlotsIn(p) /\ Taken(k) \subseteq ChainSlots
  BY <1>4, LiesWhole DEF Taken
<1>6. heap' = [s \in ChainSlots |-> IF s \in Taken(k) \ lost THEN Free ELSE heap[s]]
  BY <1>1 DEF Chains!Freed
<1>7. ChainTypes'
  BY <1>2, <1>6 DEF ChainState, ChainTypes
<1>8. CASE lost = Taken(k)
  <2>1. \A s \in ChainSlots : heap'[s] = heap[s]
    BY <1>6, <1>8
  <2>2. ASSUME NEW j \in ChainKeys PROVE Held(j)' /\ Taken(j)' = Taken(j)
    <3>1. Taken(j) \subseteq ChainSlots
      BY HeldIsTaken DEF ChainState
    <3> QED BY <1>2, <2>1, <3>1, OthersHeld DEF ChainState
  <2>3. Chains!FreeSlots' = Chains!FreeSlots
    BY <2>1 DEF Chains!FreeSlots
  <2>4. UNION {Taken(j)' : j \in ChainKeys} = UNION {Taken(j) : j \in ChainKeys}
    BY <2>2
  <2>5. orphans' \cup UNION {Taken(j) : j \in ChainKeys} = orphans \cup UNION {Taken(j) : j \in ChainKeys}
    BY <1>1
  <2>6. \A i, j \in ChainKeys : i # j => Taken(i)' \cap Taken(j)' = {}
    BY <2>2 DEF ChainState
  <2> QED BY <1>2, <1>7, <2>2, <2>3, <2>4, <2>5, <2>6 DEF ChainState
<1>9. CASE lost # Taken(k)
  <2>1. \A s \in Taken(k) \ lost : heap'[s] = Free
    BY <1>5, <1>6
  <2>2. \A s \in Taken(k) : heap'[s] = heap[s] \/ heap'[s] = Free
    BY <1>5, <1>6
  <2>3. \E s \in Taken(k) : heap'[s] = Free
    BY <1>9, <2>1
  <2>4. Chains!SlotsOf(heap', leaf[k]) = {}
    BY <1>4, <1>5, <2>2, <2>3, BrokenChain
  <2>5. Held(k)' /\ Taken(k)' = {}
    BY <1>2, <2>4 DEF Held, HoldsValue, Taken
  <2>6. \A s \in ChainSlots \ ({} \cup (Taken(k) \ lost)) : heap'[s] = heap[s]
    BY <1>6
  <2> QED BY <1>1, <1>2, <1>7, <2>1, <2>5, <2>6, CallReplaces
<1> QED BY <1>8, <1>9

LEMMA InitChains == Chains!Init => ChainState
<1> SUFFICES ASSUME Chains!Init PROVE ChainState
  OBVIOUS
<1>1. \A k \in ChainKeys : leaf[k] = Chains!NoRID /\ acked[k] = NoChain
  BY DEF Chains!Init
<1>2. \A k \in ChainKeys : Taken(k) = {}
  BY <1>1, NowhereTaken DEF Taken, Chains!NoRID
<1>3. ChainTypes
  BY DEF Chains!Init, ChainTypes, Chains!NoRID
<1>4. Chains!FreeSlots = ChainSlots /\ orphans = {}
  BY DEF Chains!Init, Chains!FreeSlots
<1>5. hidden = {}
  BY DEF Chains!Init
<1> QED BY <1>1, <1>2, <1>3, <1>4, <1>5 DEF ChainState, Held, HoldsValue

LEMMA NextChains ==
  ASSUME ChainInv, (part = "chains" /\ Chains!Next) \/ (part # "chains" \/ UNCHANGED chainVars),
         part' = part
  PROVE  ChainInv'
<1> SUFFICES ASSUME part = "chains", ChainState PROVE ChainState'
  BY DEF ChainInv
<1>1. CASE UNCHANGED chainVars
  BY <1>1 DEF chainVars, ChainState, ChainTypes, Held, HoldsValue, Taken, Chains!FreeSlots
<1>2. ASSUME NEW k \in ChainKeys, NEW v \in ChainValues, Chains!Put(k, v) PROVE ChainState'
  <2>1. PICK p \in Chains!Places(v) :
          /\ heap' = Chains!Freed(Chains!Written(heap, v, p), Chains!SlotsOf(Chains!Written(heap, v, p), leaf[k]))
          /\ leaf' = [leaf EXCEPT ![k] = Chains!RidAt(v, p)]
    BY <1>2 DEF Chains!Put, Chains!FreeValue, Chains!RidAt
  <2>2. ~halted /\ acked' = [acked EXCEPT ![k] = v] /\ orphans' = orphans /\ hidden' = hidden
    BY <1>2 DEF Chains!Put
  <2>3. Chains!SlotsOf(Chains!Written(heap, v, p), leaf[k]) = Taken(k)
    BY <2>2, WrittenTaken
  <2>4. PICK lost \in SUBSET Taken(k) :
          /\ lost = {} /\ orphans' = orphans \cup lost
          /\ heap' = Chains!Freed(Chains!Written(heap, v, p), Taken(k) \ lost)
    <3>1. {} \in SUBSET Taken(k) /\ orphans' = orphans \cup {} /\ Taken(k) \ {} = Taken(k)
      BY <2>2
    <3> QED BY <2>1, <2>3, <3>1
  <2> QED BY <2>1, <2>2, <2>4, PutChainKeeps
<1>3. ASSUME NEW k \in ChainKeys, NEW v \in ChainValues, Chains!PutFails(k, v) PROVE ChainState'
  BY <1>3, PutFailsKeeps
<1>4. ASSUME NEW k \in ChainKeys, NEW v \in ChainValues, Chains!IndexFails(k, v) PROVE ChainState'
  BY <1>4, IndexFailsKeeps
<1>5. ASSUME NEW k \in ChainKeys, NEW v \in ChainValues, Chains!PutLeaks(k, v) PROVE ChainState'
  <2>1. PICK p \in Chains!Places(v), lost \in SUBSET Taken(k) :
          /\ heap' = Chains!Freed(Chains!Written(heap, v, p), Taken(k) \ lost)
          /\ orphans' = orphans \cup lost
          /\ leaf' = [leaf EXCEPT ![k] = Chains!RidAt(v, p)]
    BY <1>5 DEF Chains!PutLeaks, Taken, Chains!RidAt
  <2>2. ~halted /\ acked' = [acked EXCEPT ![k] = v] /\ hidden' = hidden
    BY <1>5 DEF Chains!PutLeaks
  <2> QED BY <2>1, <2>2, PutChainKeeps
<1>6. ASSUME NEW k \in ChainKeys, Chains!Delete(k) PROVE ChainState'
  <2>1. /\ ~halted /\ heap' = Chains!Freed(heap, Taken(k)) /\ orphans' = orphans /\ hidden' = hidden
        /\ leaf' = [leaf EXCEPT ![k] = Chains!NoRID] /\ acked' = [acked EXCEPT ![k] = NoChain]
    BY <1>6 DEF Chains!Delete, Chains!FreeValue, Taken
  <2>2. PICK lost \in SUBSET Taken(k) :
          /\ lost = {} /\ orphans' = orphans \cup lost
          /\ heap' = Chains!Freed(heap, Taken(k) \ lost)
    <3>1. {} \in SUBSET Taken(k) /\ orphans' = orphans \cup {} /\ Taken(k) \ {} = Taken(k)
      BY <2>1
    <3> QED BY <2>1, <3>1
  <2> QED BY <2>1, <2>2, DeleteChainKeeps
<1>7. ASSUME NEW k \in ChainKeys, Chains!DeleteFails(k) PROVE ChainState'
  BY <1>7, DeleteFailsKeeps
<1>8. ASSUME NEW k \in ChainKeys, Chains!DeleteLeaks(k) PROVE ChainState'
  <2>1. PICK lost \in SUBSET Taken(k) :
          heap' = Chains!Freed(heap, Taken(k) \ lost) /\ orphans' = orphans \cup lost
    BY <1>8 DEF Chains!DeleteLeaks, Taken
  <2>2. /\ ~halted /\ hidden' = hidden
        /\ leaf' = [leaf EXCEPT ![k] = Chains!NoRID] /\ acked' = [acked EXCEPT ![k] = NoChain]
    BY <1>8 DEF Chains!DeleteLeaks
  <2> QED BY <2>1, <2>2, DeleteChainKeeps
<1> QED BY <1>1, <1>2, <1>3, <1>4, <1>5, <1>6, <1>7, <1>8 DEF Chains!Next

(* Whatever calls are made and fail, every key reads back the value acknowledged
   last, whole; after a call that failed in the index, but for the keys that a
   half-done split hides and the key of that call, which may show what the call was to
   leave.  No two values share a tuple, and no tuple is in use that is neither of a
   value nor left behind by an error of the index, of an undo or of a free. *)
THEOREM ChainsReadBack == PartsSpec => []ChainsExact
<1>1. PartsInit => ChainInv
  BY InitChains DEF PartsInit, ChainInv
<1>2. ChainInv /\ [PartsNext]_partsVars => ChainInv'
  BY NextChains DEF PartsNext, Unused, partsVars
<1>3. ChainInv => ChainsExact
  <2> SUFFICES ASSUME part = "chains", ChainState PROVE Chains!ChainsExact
    BY DEF ChainInv, ChainsExact, In
  <2>1. ASSUME NEW k \in ChainKeys
        PROVE  \/ Chains!Get(k) = acked[k]
               \/ halted /\ (k \in hidden \/ <<k, Chains!Get(k)>> \in undecided)
    <3>1. CASE k \in hidden
      BY <3>1 DEF ChainState
    <3>2. CASE k \notin hidden
      BY <3>2, HeldIsTaken DEF ChainState, Chains!Get
    <3> QED BY <3>1, <3>2
  <2>2. \A j, k \in ChainKeys :
          j # k => Chains!SlotsOf(heap, leaf[j]) \cap Chains!SlotsOf(heap, leaf[k]) = {}
    BY DEF ChainState, Taken
  <2>3. ChainSlots \ Chains!FreeSlots =
          orphans \cup UNION {Chains!SlotsOf(heap, leaf[k]) : k \in ChainKeys}
    BY DEF ChainState, Taken
  <2> QED BY <2>1, <2>2, <2>3 DEF Chains!ChainsExact
<1> QED BY <1>1, <1>2, <1>3, PTL DEF PartsSpec

-----------------------------------------------------------------------------
(* The B+ tree: BTreeProofs has the invariant, Inv, that the calls keep. *)

(* The tree that is not in use stays as it is. *)
LEMMA TreeSteps ==
  /\ PartsInit => Inv
  /\ Inv /\ [PartsNext]_partsVars => Inv'
<1>1. BTreeAssumption
  BY PartsAssumption DEF PartsAssumption
<1>2. ASSUME PartsInit PROVE Inv
  <2>1. Init
    BY <1>2 DEF PartsInit
  <2> QED BY <1>1, <2>1, InitKept
<1>3. ASSUME Inv, [PartsNext]_partsVars PROVE Inv'
  <2>1. [Next]_vars
    BY <1>3 DEF PartsNext, Unused, partsVars
  <2> QED BY <1>1, <1>3, <2>1, NextKept
<1> QED BY <1>2, <1>3

(* BPlusTree.Find finds a key exactly when it was put and not deleted since, at the
   place where it was put last, after any splits, borrowings and merges of nodes. *)
THEOREM TreeAlwaysFinds == PartsSpec => []TreeFinds
<1>1. Inv => TreeFinds
  BY FindKept, PartsAssumption DEF PartsAssumption, TreeFinds, In
<1> QED BY <1>1, TreeSteps, PTL DEF PartsSpec

(* A cursor yields exactly the keys of its range, each once and in order, along the
   chain of leaves, and still does after a split that stopped halfway. *)
THEOREM TreeAlwaysScans == PartsSpec => []TreeScans
<1>1. Inv => TreeScans
  BY ScanKept, PartsAssumption DEF PartsAssumption, TreeScans, In
<1> QED BY <1>1, TreeSteps, PTL DEF PartsSpec
=============================================================================
