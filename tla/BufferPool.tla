----------------------------- MODULE BufferPool -----------------------------
(***************************************************************************)
(* BufferPoolManager of internal/storage: a fixed set of frames shared by  *)
(* goroutines that fetch, change, unpin and flush pages.                   *)
(*                                                                         *)
(* FetchPage looks a page up under the shared lock; on a miss it gives the *)
(* lock up and takes it exclusively, so other goroutines run in between    *)
(* (want).  Every other operation is one critical section, hence one step. *)
(* A page's content is a version number: latest counts the changes callers *)
(* made to it, ver and disk hold the version a frame and the file have.    *)
(* NoLostUpdate then says where the latest version is.                     *)
(***************************************************************************)
EXTENDS Naturals, FiniteSets

CONSTANTS
  Threads,    \* goroutines that use the pool
  MaxPages,   \* bound: pages the file may grow to
  NumFrames,  \* poolSize
  MaxVersion, \* bound: changes made to one page
  NoPage,     \* a frame with no page, a goroutine that fetches none
  NoFrame     \* a page that is in no frame

Pages  == 0..(MaxPages - 1)
Frames == 0..(NumFrames - 1)

ASSUME PoolAssumption ==
  /\ IsFiniteSet(Threads)
  /\ MaxPages \in Nat /\ NumFrames \in Nat \ {0} /\ MaxVersion \in Nat
  /\ NoPage \notin Pages /\ NoFrame \notin Frames

VARIABLES
  frame, pin, dirty, ref, ver, \* Frame: PageID, pinCount, IsDirty, refBit, Page
  pageTable, hand,   \* BufferPoolManager: pageTable, clockHand
  disk, numPages,    \* DiskManager: the file's pages, how many
  want,              \* the page a goroutine found missing under the shared lock
  held, wrote,       \* pages a goroutine has pinned; those it changed since
  latest             \* history: how often each page was changed

frameVars == <<frame, pin, dirty, ref, ver>>
vars == <<frameVars, pageTable, hand, disk, numPages, want, held, wrote, latest>>

Init ==
  /\ frame = [f \in Frames |-> NoPage] /\ pin = [f \in Frames |-> 0]
  /\ dirty = [f \in Frames |-> FALSE] /\ ref = [f \in Frames |-> FALSE]
  /\ ver = [f \in Frames |-> 0]
  /\ pageTable = [p \in Pages |-> NoFrame] /\ hand = 0
  /\ disk = [p \in Pages |-> 0] /\ numPages = 0
  /\ want = [t \in Threads |-> NoPage]
  /\ held = [t \in Threads |-> {}] /\ wrote = [t \in Threads |-> {}]
  /\ latest = [p \in Pages |-> 0]

-----------------------------------------------------------------------------
(* findVictim.  The clock hand visits every frame twice: an empty frame is
   taken, a pinned one passed over, a referenced one taken on the second visit
   only.  Step i of the sweep visits At(i). *)
At(i) == (hand + i) % NumFrames

(* Mutants: pinned frames are taken; the reference bit is not looked at. *)
TakesPinned(i)       == frame[At(i)] = NoPage \/ ~ref[At(i)] \/ i >= NumFrames
TakesReferenced(i)   == frame[At(i)] = NoPage \/ pin[At(i)] = 0

Takes(i) ==
  \/ frame[At(i)] = NoPage
  \/ pin[At(i)] = 0 /\ (~ref[At(i)] \/ i >= NumFrames)

Victim(i) ==
  /\ i \in 0..(2 * NumFrames - 1)
  /\ Takes(i)
  /\ \A j \in 0..(i - 1) : ~Takes(j)

Exhausted == \A f \in Frames : frame[f] # NoPage /\ pin[f] > 0

(* Mutants: pinned frames lose their bit too; the hand runs off the end. *)
SweptAll(i)      == [f \in Frames |-> ref[f] /\ ~\E j \in 0..(i - 1) : At(j) = f]
HandUnwrapped(i) == At(i) + 1

(* The reference bits and the hand the sweep leaves behind. *)
Swept(i) ==
  [f \in Frames |-> ref[f] /\ ~(pin[f] = 0 /\ \E j \in 0..(i - 1) : At(j) = f)]

HandAfter(i) == At(i + 1)

(* The same, as the loop computes it.  One turn: s holds the reference bits, the
   hand and the frame found so far. *)
Visit(s) ==
  LET next == (s.hand + 1) % NumFrames
  IN  IF s.found # NoFrame THEN s
      ELSE IF frame[s.hand] = NoPage THEN [s EXCEPT !.hand = next, !.found = s.hand]
      ELSE IF pin[s.hand] # 0 THEN [s EXCEPT !.hand = next]
      ELSE IF s.ref[s.hand] THEN [s EXCEPT !.hand = next, !.ref[s.hand] = FALSE]
      ELSE [s EXCEPT !.hand = next, !.found = s.hand]

Sweep ==
  LET step[n \in 0..(2 * NumFrames)] ==
        IF n = 0 THEN [ref |-> ref, hand |-> hand, found |-> NoFrame]
        ELSE Visit(step[n - 1])
  IN  step[2 * NumFrames]

-----------------------------------------------------------------------------
(* evictFrame: the victim's page is written if it is dirty, and forgotten. *)
WriteBack(f) ==
  IF frame[f] # NoPage /\ dirty[f] THEN [disk EXCEPT ![frame[f]] = ver[f]] ELSE disk

Forget(f) == [p \in Pages |-> IF p = frame[f] THEN NoFrame ELSE pageTable[p]]

(* Page p of version v goes into the victim's frame, pinned once. *)
Install(i, p, v, isDirty) ==
  LET f == At(i) IN
  /\ Victim(i)
  /\ frame' = [frame EXCEPT ![f] = p]
  /\ pin' = [pin EXCEPT ![f] = 1]
  /\ dirty' = [dirty EXCEPT ![f] = isDirty]
  /\ ref' = [Swept(i) EXCEPT ![f] = TRUE]
  /\ ver' = [ver EXCEPT ![f] = v]
  /\ pageTable' = [Forget(f) EXCEPT ![p] = f]
  /\ hand' = HandAfter(i)
  /\ disk' = WriteBack(f)

(* No frame; the victim cannot be written; or it is evicted and then reading,
   or allocating, the new page fails. *)
InstallFails ==
  \/ /\ Exhausted
     /\ UNCHANGED <<frameVars, pageTable, hand, disk>>
  \/ \E i \in 0..(2 * NumFrames - 1) :
       /\ Victim(i)
       /\ hand' = HandAfter(i)
       /\ \/ /\ frame[At(i)] # NoPage /\ dirty[At(i)]
             /\ ref' = Swept(i)
             /\ UNCHANGED <<frame, pin, dirty, ver, pageTable, disk>>
          \/ /\ frame' = [frame EXCEPT ![At(i)] = NoPage]
             /\ pin' = [pin EXCEPT ![At(i)] = 0]
             /\ dirty' = [dirty EXCEPT ![At(i)] = FALSE]
             /\ ref' = [Swept(i) EXCEPT ![At(i)] = FALSE]
             /\ pageTable' = Forget(At(i))
             /\ disk' = WriteBack(At(i))
             /\ UNCHANGED ver

-----------------------------------------------------------------------------
(* Mutant: the page found is not pinned. *)
HitUnpinned(t, p) ==
  LET f == pageTable[p] IN
  /\ f # NoFrame
  /\ ref' = [ref EXCEPT ![f] = TRUE]
  /\ held' = [held EXCEPT ![t] = @ \cup {p}]
  /\ UNCHANGED <<frame, pin, dirty, ver, pageTable, hand, disk>>

(* FetchPage, when the page is in a frame. *)
Hit(t, p) ==
  LET f == pageTable[p] IN
  /\ f # NoFrame
  /\ pin' = [pin EXCEPT ![f] = @ + 1]
  /\ ref' = [ref EXCEPT ![f] = TRUE]
  /\ held' = [held EXCEPT ![t] = @ \cup {p}]
  /\ UNCHANGED <<frame, dirty, ver, pageTable, hand, disk>>

FetchHit(t, p) ==
  /\ want[t] = NoPage /\ p < numPages /\ p \notin held[t]
  /\ Hit(t, p)
  /\ UNCHANGED <<numPages, want, wrote, latest>>

FetchMiss(t, p) ==
  /\ want[t] = NoPage /\ p < numPages /\ p \notin held[t]
  /\ pageTable[p] = NoFrame
  /\ want' = [want EXCEPT ![t] = p]
  /\ UNCHANGED <<frameVars, pageTable, hand, disk, numPages, held, wrote, latest>>

(* Mutant: the page is loaded without looking for it again. *)
LoadUnchecked(t, p) ==
  /\ \E i \in 0..(2 * NumFrames - 1) : Install(i, p, disk[p], FALSE)
  /\ held' = [held EXCEPT ![t] = @ \cup {p}]

(* Under the exclusive lock the page is looked up again, then loaded. *)
Load(t, p) ==
  /\ pageTable[p] = NoFrame
  /\ \E i \in 0..(2 * NumFrames - 1) : Install(i, p, disk[p], FALSE)
  /\ held' = [held EXCEPT ![t] = @ \cup {p}]

FetchSlow(t) ==
  /\ want[t] # NoPage
  /\ \/ Hit(t, want[t])
     \/ Load(t, want[t])
     \/ pageTable[want[t]] = NoFrame /\ InstallFails /\ UNCHANGED held
  /\ want' = [want EXCEPT ![t] = NoPage]
  /\ UNCHANGED <<numPages, wrote, latest>>

(* NewPage: the file grows; the page's header exists in memory alone. *)
NewPage(t) ==
  /\ want[t] = NoPage /\ numPages < MaxPages
  /\ \E i \in 0..(2 * NumFrames - 1) : Install(i, numPages, 1, TRUE)
  /\ numPages' = numPages + 1
  /\ held' = [held EXCEPT ![t] = @ \cup {numPages}]
  /\ latest' = [latest EXCEPT ![numPages] = 1]
  /\ UNCHANGED <<want, wrote>>

NewPageFails(t) ==
  /\ want[t] = NoPage /\ InstallFails
  /\ UNCHANGED <<numPages, want, held, wrote, latest>>

(* The holder of a pinned page changes it, with no lock of the pool. *)
Change(t, p) ==
  /\ want[t] = NoPage /\ p \in held[t] /\ latest[p] < MaxVersion
  /\ latest' = [latest EXCEPT ![p] = @ + 1]
  /\ ver' = [f \in Frames |-> IF frame[f] = p THEN latest[p] + 1 ELSE ver[f]]
  /\ wrote' = [wrote EXCEPT ![t] = @ \cup {p}]
  /\ UNCHANGED <<frame, pin, dirty, ref, pageTable, hand, disk, numPages, want, held>>

(* Mutant: the dirty mark is assigned, not accumulated. *)
MarkOverwritten(f, isDirty) == [dirty EXCEPT ![f] = isDirty]

Mark(f, isDirty) == [dirty EXCEPT ![f] = @ \/ isDirty]

(* UnpinPage: a caller says dirty when it changed the page, and may say so when
   it did not. *)
UnpinPage(t, p, isDirty) ==
  LET f == pageTable[p] IN
  /\ want[t] = NoPage /\ p \in held[t]
  /\ p \in wrote[t] => isDirty
  /\ held' = [held EXCEPT ![t] = @ \ {p}]
  /\ wrote' = [wrote EXCEPT ![t] = @ \ {p}]
  /\ \/ /\ f # NoFrame /\ pin[f] > 0
        /\ dirty' = Mark(f, isDirty)
        /\ pin' = [pin EXCEPT ![f] = @ - 1]
     \/ /\ f = NoFrame \/ pin[f] = 0
        /\ UNCHANGED <<dirty, pin>>
  /\ UNCHANGED <<frame, ref, ver, pageTable, hand, disk, numPages, want, latest>>

(* DiskManager.WritePage of the dirty pages in the frames of S. *)
Flush(S) ==
  /\ disk' = [p \in Pages |->
                IF \E f \in S : frame[f] = p /\ dirty[f]
                THEN ver[CHOOSE f \in S : frame[f] = p /\ dirty[f]] ELSE disk[p]]
  /\ dirty' = [f \in Frames |-> dirty[f] /\ f \notin S]
  /\ UNCHANGED <<frame, pin, ref, ver, pageTable, hand, numPages, want, held, wrote, latest>>

FlushPage(t, p) ==
  /\ want[t] = NoPage /\ pageTable[p] # NoFrame
  /\ Flush({pageTable[p]})

(* FlushAll visits the frames in order and stops at the first error. *)
FlushAll(t) ==
  /\ want[t] = NoPage
  /\ \E n \in 0..NumFrames :
       /\ n < NumFrames => frame[n] # NoPage /\ dirty[n]
       /\ Flush(0..(n - 1))

Next ==
  \E t \in Threads :
    \/ FetchSlow(t)
    \/ NewPage(t)
    \/ NewPageFails(t)
    \/ FlushAll(t)
    \/ \E p \in Pages : \/ FetchHit(t, p)
                        \/ FetchMiss(t, p)
                        \/ Change(t, p)
                        \/ FlushPage(t, p)
                        \/ \E isDirty \in BOOLEAN : UnpinPage(t, p, isDirty)

Spec == Init /\ [][Next]_vars

-----------------------------------------------------------------------------
(* Type invariant: the values each field of the pool ranges over; the clock hand
   is always the index of a frame (findVictim's modulo). *)
TypeOK ==
  /\ frame \in [Frames -> Pages \cup {NoPage}] /\ pin \in [Frames -> Nat]
  /\ dirty \in [Frames -> BOOLEAN] /\ ref \in [Frames -> BOOLEAN]
  /\ ver \in [Frames -> Nat]
  /\ pageTable \in [Pages -> Frames \cup {NoFrame}] /\ hand \in Frames
  /\ disk \in [Pages -> Nat] /\ numPages \in 0..MaxPages
  /\ want \in [Threads -> Pages \cup {NoPage}]
  /\ held \in [Threads -> SUBSET Pages] /\ wrote \in [Threads -> SUBSET Pages]
  /\ latest \in [Pages -> Nat]

(* The page table and the frames name each other: a page is in one frame at
   most, although two goroutines may miss it at once and both come back for it
   (the second lookup of FetchPage). *)
TableConsistent ==
  /\ \A p \in Pages : pageTable[p] # NoFrame => frame[pageTable[p]] = p
  /\ \A f \in Frames : frame[f] # NoPage => pageTable[frame[f]] = f

(* The pin count of a frame is the number of goroutines that hold its page:
   it never reaches zero under a holder, which is all that keeps evictFrame
   from taking the page away. *)
Holders(p) == {t \in Threads : p \in held[t]}
PinExact ==
  \A f \in Frames :
    pin[f] = IF frame[f] = NoPage THEN 0 ELSE Cardinality(Holders(frame[f]))

(* A page that is held stays in its frame: a holder's *SlottedPage is the
   buffer that evictFrame and FlushAll will write. *)
HeldStays == \A t \in Threads : \A p \in held[t] : pageTable[p] # NoFrame

(* The last change to a page is in the file, or in its frame and then marked
   dirty, or about to be marked by the goroutine that made it.  Evictions,
   flushes and other goroutines' unpins in between must not lose it. *)
NoLostUpdate ==
  \A p \in Pages :
    \/ pageTable[p] = NoFrame /\ disk[p] = latest[p]
    \/ /\ pageTable[p] # NoFrame
       /\ ver[pageTable[p]] = latest[p]
       /\ \/ disk[p] = latest[p]
          \/ dirty[pageTable[p]]
          \/ \E t \in Threads : p \in wrote[t]

(* Victim, Swept and HandAfter say what the loop of findVictim computes, whatever
   the order it meets empty, pinned and referenced frames in: the frame it stops
   at, the reference bits it clears, where it leaves the hand; and it fails, with
   nothing changed, exactly when every frame is pinned. *)
SweepAgrees ==
  IF Sweep.found = NoFrame
  THEN Exhausted /\ Sweep.ref = ref /\ Sweep.hand = hand
  ELSE /\ ~Exhausted
       /\ \E i \in 0..(2 * NumFrames - 1) :
            /\ Victim(i)
            /\ Sweep = [ref |-> Swept(i), hand |-> HandAfter(i), found |-> At(i)]

(* findVictim gives a second chance: it takes a referenced page only when no
   frame is empty and every page that could go is referenced as well. *)
SecondChance ==
  [][\A f \in Frames :
       frame[f] # NoPage /\ frame'[f] # frame[f] /\ ref[f] =>
         \A g \in Frames : frame[g] # NoPage /\ (pin[g] = 0 => ref[g])]_vars
=============================================================================
