-------------------------------- MODULE Parts ---------------------------------
(* The panels and dialogs of the Studio, the codec of its keys and, of the server,
   the B+ tree, the chains of large values, the upgrade of old databases and the
   login limiter.  They share nothing but what their modules say of each other.  A
   behaviour uses one of them; the others stay as they are at first.  Init, Next and
   vars are those of BTree. *)
EXTENDS BTree

CONSTANTS
  EmptyText, NotBuilt, Nothing, Idle, Pending, Failed, Unknown, \* shared by parts
  PrefixCount, UserCount, ItemCount, Beyond,                    \* KeyAnalyzer
  FieldNames, Blank, FieldTexts, EmptyField, MaxFields,         \* RecordFields
  Texts, Built, Absent,                                         \* RecordForms
  MaxTokens, MaxTokenCalls, MaxCrashes, MaxOthers,              \* ApiTokens
  UserRecords, NoHash, UserPrefixes, Holds, MaxUserLoads,       \* UserContext
  NamePrefixes, Registered, SamplePool, SampleRecords, BatchSize, MaxNameLoads,
  NoName,                                                       \* PartitionNames
  Lists, AllStatus, PageSize, NoRow,                            \* Listing
  ChainKeys, ChainValues, Chunks, ChainSlots, Free, NoChain, MaxIOErrors,  \* LargeValues
  DataRecords, LogRecords, MaxUpgradeFaults,                    \* Migration
  LoginRequests, MaxAttempts, Window, MaxTime                   \* LoginLimiter

VARIABLES
  part,                                                        \* the one in use
  text, seed,                                                   \* KeyAnalyzer
  fields,                                                       \* RecordFields
  stored, newOpen, form, newBusy, newError, newCall, edit, editCalls, \* RecordForms
  tokenFile, index, drawn, crashes, revoked, taken, open, tokens, fetching,
  creating, newName, newSecret, tokenCalls,             \* ApiTokens
  shown, userCounts, collections, ready, userLoads,             \* UserContext
  counts, inferred, loads,                                      \* PartitionNames
  list, more, statusFilter, viewMode, page, pane, row, wide,    \* Listing
  heap, leaf, hidden, halted, ioErrors, acked, undecided, orphans,  \* LargeValues
  oldDb, wal, dbBak, walBak, tmp, tmpWal, collected, step, faults, logErrors, \* Migration
  now, attempts, request, failures                              \* LoginLimiter

keyVars     == <<text, seed>>
fieldsVars  == <<fields>>
formsVars   == <<stored, newOpen, form, newBusy, newError, newCall, edit, editCalls>>
tokensVars  == <<tokenFile, index, drawn, crashes, revoked, taken, open, tokens, fetching,
                 creating, newName, newSecret, tokenCalls>>
userVars    == <<shown, userCounts, collections, ready, userLoads>>
namesVars   == <<counts, inferred, loads>>
listingVars == <<list, more, statusFilter, viewMode, page, pane, row, wide>>
chainVars   == <<heap, leaf, hidden, halted, ioErrors, acked, undecided, orphans>>
upgradeVars == <<oldDb, wal, dbBak, walBak, tmp, tmpWal, collected, step, faults, logErrors>>
loginVars   == <<now, attempts, request, failures>>

----------------------------------------------------------------------------
Key == INSTANCE KeyAnalyzer
Fields == INSTANCE RecordFields WITH Names <- FieldNames, EmptyText <- EmptyField
Forms == INSTANCE RecordForms
Tokens == INSTANCE ApiTokens WITH
  stored <- tokenFile, loading <- fetching, calls <- tokenCalls, MaxCalls <- MaxTokenCalls
Panel == INSTANCE UserContext WITH
  counts <- userCounts, loads <- userLoads,
  Users <- UserRecords, MaxLoads <- MaxUserLoads
Naming == INSTANCE PartitionNames WITH
  Records <- SampleRecords, MaxLoads <- MaxNameLoads
Rows == INSTANCE Listing WITH selected <- row
Chains == INSTANCE LargeValues WITH
  Keys <- ChainKeys, Values <- ChainValues, Slots <- ChainSlots, NoValue <- NoChain,
  faults <- ioErrors, MaxFaults <- MaxIOErrors
Upgrade == INSTANCE Migration WITH
  db <- oldDb, records <- collected, MaxFaults <- MaxUpgradeFaults
Login == INSTANCE LoginLimiter WITH Requests <- LoginRequests

(* What the modules take for granted of their constants. *)
ASSUME PartsAssumption ==
  /\ PrefixCount \in Nat \ {0} /\ UserCount \in Nat \ {0} /\ ItemCount \in Nat \ {0}
  /\ BTreeAssumption /\ Chains!LargeAssumption
  /\ Upgrade!MigrationAssumption /\ Login!LoginAssumption
  /\ Tokens!TokensAssumption /\ Forms!FormsAssumption /\ Panel!UserAssumption
  /\ Fields!FieldsAssumption /\ Naming!NamesAssumption /\ Rows!ListingAssumption

----------------------------------------------------------------------------
PartNames == {"fields", "forms", "tokens", "user", "names", "key", "listing",
              "tree", "chains", "upgrade", "login"}

PartsInit ==
  /\ part \in PartNames
  /\ Fields!Init /\ Forms!Init /\ Tokens!Init /\ Panel!Init /\ Naming!Init
  /\ Key!Init /\ Rows!Init /\ Init /\ Chains!Init /\ Upgrade!Init /\ Login!Init

Unused(name, v) == part # name /\ UNCHANGED v
PartsNext ==
  /\ part' = part
  /\ Unused("fields", fieldsVars)    \/ (part = "fields" /\ Fields!Next)
  /\ Unused("forms", formsVars)      \/ (part = "forms" /\ Forms!Next)
  /\ Unused("tokens", tokensVars)    \/ (part = "tokens" /\ Tokens!Next)
  /\ Unused("user", userVars)        \/ (part = "user" /\ Panel!Next)
  /\ Unused("names", namesVars)      \/ (part = "names" /\ Naming!Next)
  /\ Unused("key", keyVars)          \/ (part = "key" /\ Key!Next)
  /\ Unused("listing", listingVars)  \/ (part = "listing" /\ Rows!Next)
  /\ Unused("tree", vars)            \/ (part = "tree" /\ Next)
  /\ Unused("chains", chainVars)     \/ (part = "chains" /\ Chains!Next)
  /\ Unused("upgrade", upgradeVars)  \/ (part = "upgrade" /\ Upgrade!Next)
  /\ Unused("login", loginVars)      \/ (part = "login" /\ Login!Next)
partsVars == <<part, fieldsVars, formsVars, tokensVars, userVars, namesVars,
                keyVars, listingVars, vars, chainVars, upgradeVars, loginVars>>
PartsSpec == PartsInit /\ [][PartsNext]_partsVars

----------------------------------------------------------------------------
(* The properties, as each module states them; a part that is not in use is as it
   was at first. *)
In(name, P) == part = name => P

DialogsSettle    == /\ In("forms", Forms!FormsSettle /\ Forms!EditKeepsFormat)
                    /\ In("tokens", Tokens!DialogSettles)
ComputedExact    == In("fields", Fields!BuilderExact) /\ In("names", Naming!InferenceExact)
NamesRight       == In("names", Naming!NamesCurrent /\ Naming!ListDistinct)
PillsShowCounted == In("listing", Rows!PillsShowCounted)
TokensBacked     == In("tokens", Tokens!TokensBacked)
PanelWhole       == In("user", Panel!PanelWhole)
KeysFit          == In("key", Key!KeysExact)
AnatomyAgrees    == In("key", Key!AnatomyAgrees)
TreeFinds        == In("tree", FindExact)
TreeScans        == In("tree", ScanExact)
ChainsExact      == In("chains", Chains!ChainsExact)
NothingDestroyed == In("upgrade", Upgrade!NothingDestroyed)
FailuresBounded  == In("login", Login!FailuresBounded)
CreateNeverOverwrites == Forms!CreateNeverOverwrites
==============================================================================
