----------------------------- MODULE MCExplorer ------------------------------
(* Instances of Explorer for TLC. *)
EXTENDS Explorer

Store(vals) == [k \in Keys |-> vals[k + 1]]

(* Two partitions of two keys; a page is one record, a chunk one or two keys. *)
MCStores == {Store(<<"infix", "plain", "infix", "infix">>)}
MCOther  == {"infix", NoValue}

MCRanges == {<<1, 3>>}

(* Sessions that page, search, look up and delete, with and without failures. *)
MCSessions == {
  {"refresh", "partition", "more"},
  {"more", "lose"},
  {"partition", "search"},
  {"search", "range"},
  {"search", "lose"},
  {"lookup", "tick", "lose"},
  {"link", "partition", "lose"},
  {"select", "delete", "deleteUser", "lose"},
  {"select", "save"}}
==============================================================================
