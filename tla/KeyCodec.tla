------------------------------ MODULE KeyCodec -------------------------------
(***************************************************************************)
(* Keys of the Studio: a 64-bit key is a partition, a user's hash and an   *)
(* item's hash.  format.ts builds keys and key-decoder.ts takes them       *)
(* apart by shifts, KeyBitSlicer by cutting up their binary digits; the    *)
(* hook's and the panels' range scans rely on how they are laid out.       *)
(*                                                                         *)
(* Widths are parameters: PrefixCount is 2^8, UserCount and ItemCount are  *)
(* 2^28 each.                                                              *)
(***************************************************************************)
EXTENDS Integers

CONSTANTS PrefixCount, UserCount, ItemCount
ASSUME WidthAssumption ==
  PrefixCount \in Nat \ {0} /\ UserCount \in Nat \ {0} /\ ItemCount \in Nat \ {0}

Prefixes == 0..(PrefixCount - 1)
Users    == 0..(UserCount - 1)
Items    == 0..(ItemCount - 1)
PartSize == UserCount * ItemCount
KeyCount == PrefixCount * PartSize
Keys     == 0..(KeyCount - 1)

----------------------------------------------------------------------------
(* buildStructuredKey: prefix << 56 | fnv28(domain) << 28 | fnv28(item) *)
BuildStructuredKeyShort(p, u, i) == p * ItemCount + u * ItemCount + i \* mutant: the prefix is shifted by 28
BuildStructuredKey(p, u, i) == p * PartSize + u * ItemCount + i

(* decodeKey: (k >> 56) & 0xff, (k >> 28) & 0x0fffffff, k & 0x0fffffff *)
PrefixOf(k)   == (k \div PartSize) % PrefixCount
UserHashOf(k) == (k \div ItemCount) % UserCount
ItemHashOf(k) == k % ItemCount
DecodeKey(k)  == <<PrefixOf(k), UserHashOf(k), ItemHashOf(k)>>

(* The scans of a partition, and of a user's records in one. *)
PartitionStart(p)   == p * PartSize
PartitionEndOpen(p) == (p + 1) * PartSize \* mutant: the first key of the next partition
PartitionEnd(p)     == (p + 1) * PartSize - 1
CollectionStart(p, u)   == BuildStructuredKey(p, u, 0)
CollectionEndOpen(p, u) == BuildStructuredKey(p, u, ItemCount) \* mutant: the first key of the next user
CollectionEnd(p, u)     == BuildStructuredKey(p, u, ItemCount - 1)

(* KeyBitSlicer: the first digits of the padded key, those after them, the rest. *)
SliceOfUneven(k) == \* mutant: the cut is a digit late
  <<k \div (2 * PartSize), (k % PartSize) \div ItemCount, (k % PartSize) % ItemCount>>
SliceOf(k) == <<k \div PartSize, (k % PartSize) \div ItemCount, (k % PartSize) % ItemCount>>

----------------------------------------------------------------------------
(* What is decoded is what was built, and every key is built from what it is
   decoded to: the two files agree on the layout. *)
RoundTrip ==
  /\ \A p \in Prefixes, u \in Users, i \in Items :
       BuildStructuredKey(p, u, i) \in Keys /\ DecodeKey(BuildStructuredKey(p, u, i)) = <<p, u, i>>
  /\ \A k \in Keys : BuildStructuredKey(PrefixOf(k), UserHashOf(k), ItemHashOf(k)) = k

(* The scan of a partition, or of a user's records in it, finds their keys and
   no others: neither end is off by one. *)
ScansExact ==
  /\ \A p \in Prefixes, k \in Keys :
       PrefixOf(k) = p <=> PartitionStart(p) <= k /\ k <= PartitionEnd(p)
  /\ \A p \in Prefixes, u \in Users, k \in Keys :
       PrefixOf(k) = p /\ UserHashOf(k) = u <=> CollectionStart(p, u) <= k /\ k <= CollectionEnd(p, u)

(* What is built is decoded, and what is scanned is what was meant. *)
KeysExact == RoundTrip /\ ScansExact
==============================================================================
