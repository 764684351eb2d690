------------------------------ MODULE MCParts --------------------------------
(* Small instances of the parts, and where those begin that are not in use. *)
EXTENDS Parts

CONSTANTS alice, bob

(* Texts of a field: a number is JSON, too. *)
MCFieldTexts == {[number |-> FALSE, json |-> FALSE], [number |-> FALSE, json |-> TRUE],
                 [number |-> TRUE, json |-> TRUE]}
MCEmptyField == [number |-> FALSE, json |-> FALSE]

(* What can be told of a text: JSON begins and ends as an object or an array. *)
MCText(first, closed, parses, bar) ==
  [first |-> first, closed |-> closed, parses |-> parses, bar |-> bar]
MCObject == MCText("brace", TRUE, TRUE, FALSE)
MCTexts == {MCObject, MCText("brace", TRUE, FALSE, FALSE), MCText("bracket", FALSE, FALSE, TRUE),
            MCText("other", FALSE, TRUE, FALSE)}
MCBuilt == {MCObject}

(* A user with records in both partitions, one with records in one, and a record
   without a user hash. *)
MCUsers == {alice, bob, NoHash}
MCHolds == [u \in {alice, bob} |-> IF u = alice THEN {2, 3} ELSE {3}]

(* A partition that is named, samples with strong, weak and no evidence. *)
MCObj(has)  == [format |-> "json_object", has |-> has]
MCOf(f)     == [format |-> f, has |-> {}]
MCSamples == {<<>>, <<MCObj({"email", "username"})>>,
              <<MCObj({"weakTag"}), MCOf("uuid"), MCOf("empty")>>,
              <<MCOf("uuid"), MCOf("uuid"), MCObj({"subject"})>>}
MCSampleRecords == {MCObj({"weakTag"}), MCObj({"subject", "otherSubject", "weakTag"}),
              MCObj({"email", "username"}), MCOf("uuid"), MCOf("empty")}
MCRegistered == [p \in {3} |-> "Users"]

(* Pages of one and of two records; a status that is a number, none at all, and
   one written in two ways. *)
MCRow(s, isText, norm) ==
  [status |-> s, isText |-> isText, norm |-> norm, empty |-> s = ""]
MCRows == {MCRow("done", TRUE, "done"), MCRow(" Done", TRUE, "done"), MCRow("", FALSE, "")}
MCLists == {<<>>} \cup [1..1 -> MCRows]
  \cup {<<MCRow("done", TRUE, "done"), MCRow(" Done", TRUE, "done")>>}
  \cup {<<MCRow("5", TRUE, "5"), MCRow("5", FALSE, "5"), MCRow(" Done", TRUE, "done"),
          MCRow("", FALSE, ""), MCRow("done", TRUE, "done")>>}
MCPageSize == [v \in {"table", "grid"} |-> IF v = "table" THEN 1 ELSE 2]

(* Two leaves; a root about to split; three levels, in ascending order and not; a
   router that has a single child left. *)
MCUpTo(n) == [i \in 1..n |-> i]
MCTreeKeys == 1..12
MCLoads == {MCUpTo(6), MCUpTo(10), <<12, 1, 10, 3, 8, 5, 6, 7, 4, 9, 2, 11>>,
            MCUpTo(12) \o <<-2, -1>>}

(* A value that fits in a tuple, one of two chunks and one of three. *)
MCValues == {"inline", "two", "three"}
MCChunks == [v \in MCValues |-> IF v = "inline" THEN 0 ELSE IF v = "two" THEN 2 ELSE 3]
MCChainSlots == 1..6

----------------------------------------------------------------------------
MCInit ==
  /\ PartsInit
  /\ part # "forms" => stored = Absent
  /\ part # "user" => shown = NoHash
  /\ part # "listing" => wide
  /\ part # "tree" => Len(tree.nodes) = 3
MCSpec == MCInit /\ [][PartsNext]_partsVars
==============================================================================
