----------------------------- MODULE KeyAnalyzer -----------------------------
(***************************************************************************)
(* The Key Analyzer: a dialog that takes a key apart that is typed, preset *)
(* or hashed.  FNV-1a is any function to the keys of 63 bits.              *)
(***************************************************************************)
EXTENDS KeyCodec

CONSTANT Beyond \* a text that is no uint64

VARIABLES
  text,   \* what is in the key field: a number, or Beyond
  seed    \* is there an identifier to hash

vars == <<text, seed>>

Init == text = Beyond /\ seed = FALSE
Type(k)     == text' = k /\ UNCHANGED seed
TypeSeed(b) == seed' = b /\ UNCHANGED text
Preset(p)   == text' = PartitionStart(p) /\ UNCHANGED seed
(* fnv1a64 keeps 63 bits of the hash. *)
Hash == seed /\ \E h \in Keys : 2 * h < KeyCount /\ text' = h /\ UNCHANGED seed

Next ==
  \/ \E k \in Keys \cup {Beyond} : Type(k)
  \/ \E b \in BOOLEAN : TypeSeed(b)
  \/ \E p \in Prefixes : Preset(p)
  \/ Hash
Spec == Init /\ [][Next]_vars

Valid == text # Beyond

----------------------------------------------------------------------------
(* The bar of bits and the numbers beside it are of the same key, whatever was
   typed, preset or hashed; a hash is always a key. *)
AnatomyAgrees == Valid => text \in Keys /\ SliceOf(text) = DecodeKey(text)
==============================================================================
