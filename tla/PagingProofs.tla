----------------------------- MODULE PagingProofs -----------------------------
(***************************************************************************)
(* Proofs about Paging.tla, for every number of processes, frames and      *)
(* pages, for traces that do not restart the process that ran last: with   *)
(* such a restart CheckValidity fails, see the run paging_restart.         *)
(*                                                                         *)
(* IInv is the inductive invariant.  It says what check_validity() checks  *)
(* in the direction in which the code relies on it: from the frame table   *)
(* to the page tables, as free_frame() does with its victim, and back.     *)
(***************************************************************************)
EXTENDS Paging, TLAPS, WellFoundedInduction

(* The page table entry of page v of process p.                             *)
Entry(p, v) == table[savedPtbr[p]][v]

(* Every running process has a page table of its own.                       *)
TablesApart ==
  \A p \in running :
    /\ savedPtbr[p] # 0 /\ frameTable[savedPtbr[p]].protected
    /\ \A q \in running : savedPtbr[p] = savedPtbr[q] => p = q

(* Protected are the frame table and page tables; they hold no pages.       *)
TablesProtected ==
  /\ frameTable[0].protected
  /\ \A f \in Frame : frameTable[f].protected =>
       /\ ~frameTable[f].mapped
       /\ f # 0 => \E p \in running : savedPtbr[p] = f

(* A valid entry leads to a frame that names its process and page ...       *)
EntriesHaveFrames ==
  \A p \in running, v \in Page : Entry(p, v).valid =>
    LET fte == frameTable[Entry(p, v).pfn]
    IN fte.mapped /\ fte.process = p /\ fte.vpn = v

(* ... and a mapped frame names a valid entry that leads to it.             *)
FramesHaveEntries ==
  \A f \in Frame : frameTable[f].mapped =>
    LET fte == frameTable[f]
    IN /\ fte.process \in running
       /\ Entry(fte.process, fte.vpn).valid
       /\ Entry(fte.process, fte.vpn).pfn = f

(* Tokens are given out in ascending order, from 1.                         *)
TokensGiven == \A t \in DOMAIN swapQueue : 0 < t /\ t < token

IInv == /\ TypeOK
        /\ TablesApart /\ TablesProtected
        /\ EntriesHaveFrames /\ FramesHaveEntries
        /\ SwapExists /\ SwapOwned /\ TokensGiven
        /\ CleanPagesMatchSwap
        /\ PtbrFollowsCurrent

-----------------------------------------------------------------------------
(* Lemmas                                                                   *)

(* The frame number, page and offset ranges hold what the code takes for    *)
(* granted.                                                                 *)
LEMMA Ranges == 0 \in Frame /\ 0 \in Page /\ 0 \in Byte /\ Frame \subseteq Nat
BY PagingAssumption DEF Frame, Page, Byte

(* What START and STOP print is of the type of printed lines.               *)
LEMMA NoAccessIsLine == NoAccess \in Line
<1>1. 0 \in Address /\ 0 \in Byte
  <2>1. 0 < NumPages * PageSize
    BY PagingAssumption
  <2>. QED BY <2>1, PagingAssumption DEF Address, Byte
<1>. QED BY <1>1 DEF NoAccess, Line

(* An address is a page and an offset, and these determine it.              *)
LEMMA AddressSplit ==
  ASSUME NEW a \in Address
  PROVE  /\ VaddrVpn(a) \in Page /\ VaddrOffset(a) \in Offset
         /\ a = PageSize * VaddrVpn(a) + VaddrOffset(a)
<1>1. a \in Nat /\ PageSize \in Nat \ {0} /\ NumPages \in Nat /\ a < NumPages * PageSize
  BY PagingAssumption DEF Address
<1>2. /\ a \div PageSize \in Nat /\ a % PageSize \in 0 .. PageSize - 1
      /\ a = PageSize * (a \div PageSize) + (a % PageSize)
  BY <1>1
<1>3. a \div PageSize < NumPages
  BY <1>1, <1>2
<1>. QED BY <1>1, <1>2, <1>3 DEF VaddrVpn, VaddrOffset, Page, Offset

(* A set of frames that is not empty has a first one.                       *)
LEMMA FirstFrame ==
  ASSUME NEW F \in SUBSET Frame, F # {}
  PROVE  \E f \in F : \A g \in F : f <= g
<1>. DEFINE Less == {ss \in Nat \X Nat : ss[1] < ss[2]}
<1>1. F \subseteq Nat
  BY Ranges
<1>2. IsWellFoundedOn(Less, Nat)
  BY NatLessThanWellFounded DEF OpToRel
<1>3. PICK f \in F : \A g \in F : ~(<<g, f>> \in Less)
  <2>. HIDE DEF Less
  <2>. QED BY <1>1, <1>2, WFMin, Zenon
<1>4. \A g \in F : ~(g < f)
  BY <1>1, <1>3
<1>. QED BY <1>1, <1>3, <1>4

(* A victim is not protected, and there is one unless all frames are        *)
(* protected or, without replacement, in use.                               *)
LEMMA VictimsAre ==
  /\ Victims \subseteq Unprotected
  /\ Victims = {} => Unused = {} /\ (replacement = "random" => Unprotected = {})
<1>1. CASE Unused # {}
  <2>1. Unused \in SUBSET Frame
    BY DEF Unused, Unprotected
  <2>2. (CHOOSE f \in Unused : \A g \in Unused : f <= g) \in Unused
    BY <1>1, <2>1, FirstFrame
  <2>. QED BY <1>1, <2>2 DEF Victims, Unused
<1>2. CASE Unused = {}
  BY <1>2 DEF Victims
<1>. QED BY <1>1, <1>2
-----------------------------------------------------------------------------
(* free_frame()                                                             *)

(* What free_frame() finds of a victim that holds a page: the valid entry   *)
(* that leads to it.                                                        *)
LEMMA VictimEntry ==
  ASSUME IInv, NEW f \in Frame, frameTable[f].mapped
  PROVE  LET p == frameTable[f].process
             v == frameTable[f].vpn
         IN /\ p \in running /\ p \in Pid /\ v \in Page
            /\ VictimTable(f) = savedPtbr[p] /\ VictimTable(f) \in Frame
            /\ VictimPte(f) = Entry(p, v) /\ VictimPte(f) \in Pte
            /\ Entry(p, v).valid /\ Entry(p, v).pfn = f
<1>1. frameTable[f] \in Fte
  BY DEF IInv, TypeOK
<1>2. frameTable[f].process \in running /\ frameTable[f].process \in Pid /\ frameTable[f].vpn \in Page
  BY <1>1 DEF IInv, TypeOK, FramesHaveEntries, Fte
<1>3. VictimTable(f) = savedPtbr[frameTable[f].process] /\ VictimTable(f) \in Frame
  BY <1>2 DEF IInv, TypeOK, VictimTable
<1>4. VictimPte(f) = Entry(frameTable[f].process, frameTable[f].vpn) /\ VictimPte(f) \in Pte
  BY <1>2, <1>3 DEF IInv, TypeOK, VictimPte, VictimTable, Entry
<1>. QED BY <1>2, <1>3, <1>4 DEF IInv, FramesHaveEntries

(* The entry that leads to frame f.                                         *)
LeadsTo(f, p, v) == frameTable[f].mapped /\ frameTable[f].process = p /\ frameTable[f].vpn = v

(* An entry after free_frame().                                             *)
FreedEntry(f, p, v) == FreedTable(f)[savedPtbr[p]][v]

(* free_frame() changes one entry: that of the page it evicts.              *)
LEMMA FreedEntries ==
  ASSUME IInv, NEW f \in Frame
  PROVE  /\ FreedTable(f) \in [Frame -> [Page -> Pte]]
         /\ \A p \in running, v \in Page :
              FreedEntry(f, p, v) = IF LeadsTo(f, p, v) THEN Absent(SwapToken(f)) ELSE Entry(p, v)
<1>. DEFINE p == frameTable[f].process
            v == frameTable[f].vpn
<1>1. CASE ~frameTable[f].mapped
  BY <1>1 DEF FreedTable, LeadsTo, FreedEntry, Entry, IInv, TypeOK
<1>2. CASE frameTable[f].mapped
  <2>1. /\ p \in running /\ p \in Pid /\ v \in Page
        /\ VictimTable(f) = savedPtbr[p] /\ VictimTable(f) \in Frame /\ VictimPte(f) \in Pte
    BY <1>2, VictimEntry
  <2>2. SwapToken(f) \in Nat
    BY <2>1 DEF SwapToken, NeedsToken, Pte, IInv, TypeOK
  <2>3. Absent(SwapToken(f)) \in Pte
    BY <2>2, Ranges DEF Absent, Pte
  <2>4. FreedTable(f) = [table EXCEPT ![savedPtbr[p]][v] = Absent(SwapToken(f))]
    BY <1>2, <2>1 DEF FreedTable, Invalidated
  <2>5. table \in [Frame -> [Page -> Pte]] /\ savedPtbr[p] \in Frame
    BY <2>1 DEF IInv, TypeOK
  <2>6. FreedTable(f) \in [Frame -> [Page -> Pte]]
    BY <2>1, <2>3, <2>4, <2>5
  <2>7. ASSUME NEW q \in running, NEW w \in Page
        PROVE FreedEntry(f, q, w) = IF LeadsTo(f, q, w) THEN Absent(SwapToken(f)) ELSE Entry(q, w)
    <3>1. savedPtbr[q] \in Frame /\ (savedPtbr[q] = savedPtbr[p] <=> q = p)
      BY <2>1 DEF IInv, TypeOK, TablesApart
    <3>2. CASE q = p /\ w = v
      BY <1>2, <2>1, <2>4, <2>5, <3>2 DEF FreedEntry, LeadsTo
    <3>3. CASE ~(q = p /\ w = v)
      BY <2>1, <2>4, <2>5, <3>1, <3>3 DEF FreedEntry, LeadsTo, Entry
    <3>. QED BY <3>2, <3>3
  <2>. QED BY <2>6, <2>7
<1>. QED BY <1>1, <1>2
(* The swap space after free_frame(): the evicted page is there if it was   *)
(* written back, and everything else as before.                             *)
LEMMA FreedSwapIs ==
  ASSUME IInv, NEW f \in Frame
  PROVE  /\ FreedToken(f) \in Nat /\ token <= FreedToken(f)
         /\ \A t \in DOMAIN FreedSwap(f) :
              t \in Nat /\ 0 < t /\ t < FreedToken(f) /\ FreedSwap(f)[t] \in Content
         /\ \A t \in DOMAIN swapQueue :
              /\ t \in DOMAIN FreedSwap(f)
              /\ (t = SwapToken(f) /\ WritesBack(f)) \/ FreedSwap(f)[t] = swapQueue[t]
         /\ \A t \in DOMAIN FreedSwap(f) \ DOMAIN swapQueue : WritesBack(f) /\ t = SwapToken(f)
         /\ WritesBack(f) =>
              /\ SwapToken(f) \in DOMAIN FreedSwap(f)
              /\ FreedSwap(f)[SwapToken(f)] = data[f]
<1>1. /\ token \in Nat /\ 0 < token /\ data[f] \in Content
      /\ \A t \in DOMAIN swapQueue : t \in Nat /\ 0 < t /\ t < token /\ swapQueue[t] \in Content
  BY PagingAssumption DEF IInv, TypeOK, TokensGiven
<1>2. CASE ~WritesBack(f)
  BY <1>1, <1>2 DEF FreedSwap, FreedToken, NeedsToken
<1>3. CASE WritesBack(f)
  <2>1. SwapToken(f) = IF VictimPte(f).swap = NoSwap THEN token ELSE VictimPte(f).swap
    BY <1>3 DEF SwapToken, NeedsToken
  <2>2. VictimPte(f).swap \in DOMAIN swapQueue \cup {NoSwap}
    BY <1>3, VictimEntry DEF WritesBack, IInv, SwapExists, Entry
  <2>3. FreedToken(f) = IF VictimPte(f).swap = NoSwap THEN token + 1 ELSE token
    BY <1>3 DEF FreedToken, NeedsToken
  <2>4. /\ DOMAIN FreedSwap(f) = DOMAIN swapQueue \cup {SwapToken(f)}
        /\ \A t \in DOMAIN FreedSwap(f) :
             FreedSwap(f)[t] = IF t = SwapToken(f) THEN data[f] ELSE swapQueue[t]
    BY <1>3 DEF FreedSwap
  <2>5. SwapToken(f) \in Nat /\ 0 < SwapToken(f) /\ SwapToken(f) < FreedToken(f)
    BY <1>1, <2>1, <2>2, <2>3
  <2>6. FreedToken(f) \in Nat /\ token <= FreedToken(f)
    BY <1>1, <2>3
  <2>. HIDE DEF IInv
  <2>. QED BY <1>1, <1>3, <2>4, <2>5, <2>6
<1>. QED BY <1>2, <1>3

(* free_frame() keeps the swap space in order: tokens are not shared, and   *)
(* none is without an owner.                                                *)
LEMMA FreedSwapOwned ==
  ASSUME IInv, NEW f \in Frame
  PROVE  /\ \A p \in running, v \in Page :
              FreedEntry(f, p, v).swap \in DOMAIN FreedSwap(f) \cup {NoSwap}
         /\ \A t \in DOMAIN FreedSwap(f) :
              \E p \in running, v \in Page : FreedEntry(f, p, v).swap = t
         /\ \A p, q \in running, v, w \in Page :
              /\ FreedEntry(f, p, v).swap = FreedEntry(f, q, w).swap
              /\ FreedEntry(f, p, v).swap # NoSwap
              => p = q /\ v = w
<1>1. \A p \in running, v \in Page :
        FreedEntry(f, p, v).swap = IF LeadsTo(f, p, v) THEN SwapToken(f) ELSE Entry(p, v).swap
  BY FreedEntries DEF Absent
<1>2. /\ \A p \in running, v \in Page : Entry(p, v).swap \in DOMAIN swapQueue \cup {NoSwap}
      /\ \A t \in DOMAIN swapQueue : \E p \in running, v \in Page : Entry(p, v).swap = t
      /\ \A p, q \in running, v, w \in Page :
           Entry(p, v).swap = Entry(q, w).swap /\ Entry(p, v).swap # NoSwap => p = q /\ v = w
      /\ \A t \in DOMAIN swapQueue : 0 < t /\ t < token
      /\ token \in Nat \ {0}
  BY PagingAssumption DEF IInv, TypeOK, SwapExists, SwapOwned, Entry, TokensGiven
<1>3. \A p \in running, v \in Page : LeadsTo(f, p, v) =>
        SwapToken(f) = IF WritesBack(f) /\ Entry(p, v).swap = NoSwap THEN token ELSE Entry(p, v).swap
  BY VictimEntry DEF LeadsTo, SwapToken, NeedsToken
<1>4. WritesBack(f) => \E p \in running, v \in Page : LeadsTo(f, p, v)
  BY VictimEntry DEF WritesBack, LeadsTo
<1>5. DOMAIN FreedSwap(f) = IF WritesBack(f) THEN DOMAIN swapQueue \cup {SwapToken(f)}
                                             ELSE DOMAIN swapQueue
  BY DEF FreedSwap
<1>6. ASSUME NEW p \in running, NEW v \in Page
      PROVE  FreedEntry(f, p, v).swap \in DOMAIN FreedSwap(f) \cup {NoSwap}
  BY <1>1, <1>2, <1>3, <1>5
<1>7. ASSUME NEW t \in DOMAIN FreedSwap(f)
      PROVE  \E p \in running, v \in Page : FreedEntry(f, p, v).swap = t
  <2>1. CASE WritesBack(f) /\ t = SwapToken(f)
    BY <1>1, <1>4, <2>1
  <2>2. CASE ~(WritesBack(f) /\ t = SwapToken(f))
    <3>1. PICK p \in running, v \in Page : Entry(p, v).swap = t
      BY <1>2, <1>5, <2>2
    <3>2. t # NoSwap /\ t # token
      BY <1>2, <1>5, <2>2 DEF NoSwap
    <3>. QED BY <1>1, <1>3, <3>1, <3>2
  <2>. QED BY <2>1, <2>2
<1>8. ASSUME NEW p \in running, NEW q \in running, NEW v \in Page, NEW w \in Page,
             FreedEntry(f, p, v).swap = FreedEntry(f, q, w).swap,
             FreedEntry(f, p, v).swap # NoSwap
      PROVE  p = q /\ v = w
  <2>1. Entry(p, v).swap # token /\ Entry(q, w).swap # token
    BY <1>2 DEF NoSwap
  <2>2. LeadsTo(f, p, v) /\ LeadsTo(f, q, w) => p = q /\ v = w
    BY DEF LeadsTo
  <2>. QED BY <1>1, <1>2, <1>3, <1>8, <2>1, <2>2
<1>. QED BY <1>6, <1>7, <1>8

(* After free_frame() no entry leads to the frame; the others and their     *)
(* frames still lead to each other.                                         *)
LEMMA FreedFrames ==
  ASSUME IInv, NEW f \in Frame
  PROVE  /\ \A p \in running, v \in Page : FreedEntry(f, p, v).valid =>
              LET g == FreedEntry(f, p, v).pfn
              IN g # f /\ frameTable[g].mapped /\ frameTable[g].process = p /\ frameTable[g].vpn = v
         /\ \A g \in Frame \ {f} : frameTable[g].mapped =>
              LET fte == frameTable[g]
              IN /\ fte.process \in running /\ fte.vpn \in Page
                 /\ FreedEntry(f, fte.process, fte.vpn).valid
                 /\ FreedEntry(f, fte.process, fte.vpn).pfn = g
<1>1. \A p \in running, v \in Page :
        FreedEntry(f, p, v) = IF LeadsTo(f, p, v) THEN Absent(SwapToken(f)) ELSE Entry(p, v)
  BY FreedEntries
<1>2. ASSUME NEW p \in running, NEW v \in Page, FreedEntry(f, p, v).valid
      PROVE  LET g == FreedEntry(f, p, v).pfn
             IN g # f /\ frameTable[g].mapped /\ frameTable[g].process = p /\ frameTable[g].vpn = v
  <2>1. ~LeadsTo(f, p, v) /\ Entry(p, v).valid /\ FreedEntry(f, p, v) = Entry(p, v)
    BY <1>1, <1>2 DEF Absent
  <2>. QED BY <2>1 DEF IInv, EntriesHaveFrames, LeadsTo
<1>3. ASSUME NEW g \in Frame \ {f}, frameTable[g].mapped
      PROVE  LET fte == frameTable[g]
             IN /\ fte.process \in running /\ fte.vpn \in Page
                /\ FreedEntry(f, fte.process, fte.vpn).valid
                /\ FreedEntry(f, fte.process, fte.vpn).pfn = g
  <2>. DEFINE p == frameTable[g].process
              v == frameTable[g].vpn
  <2>1. p \in running /\ v \in Page /\ Entry(p, v).valid /\ Entry(p, v).pfn = g
    BY <1>3, VictimEntry
  <2>2. ~LeadsTo(f, p, v)
    BY <1>3, <2>1, VictimEntry DEF LeadsTo
  <2>. QED BY <1>1, <2>1, <2>2
<1>. QED BY <1>2, <1>3
(* What page_fault() would load for an entry, and what a page is now.       *)
Backing(swap, space) == IF swap # NoSwap THEN space[swap] ELSE ZeroPage
Contents(pte, space, memory) ==
  IF pte.valid THEN memory[pte.pfn] ELSE Backing(pte.swap, space)

LEMMA PageIsContents ==
  \A p \in running, v \in Page : PageOf(p, v) = Contents(Entry(p, v), swapQueue, data)
BY DEF PageOf, Contents, Backing, Entry

LEMMA ContentsType ==
  ASSUME IInv, NEW p \in running, NEW v \in Page
  PROVE  Entry(p, v) \in Pte /\ PageOf(p, v) \in Content
<1>1. Entry(p, v) \in Pte
  BY DEF IInv, TypeOK, Entry
<1>2. ZeroPage \in Content
  BY Ranges DEF ZeroPage, Content
<1>3. Entry(p, v).swap # NoSwap => swapQueue[Entry(p, v).swap] \in Content
  BY DEF IInv, SwapExists, TypeOK, Entry
<1>4. Entry(p, v).valid => data[Entry(p, v).pfn] \in Content
  BY <1>1 DEF IInv, TypeOK, Pte
<1>. QED BY <1>1, <1>2, <1>3, <1>4, PageIsContents DEF Contents, Backing

(* free_frame() loses nothing: every page still has its contents, in memory *)
(* or in swap space, and what may be dropped later is still backed.         *)
LEMMA FreedContents ==
  ASSUME IInv, NEW f \in Frame, NEW p \in running, NEW v \in Page
  PROVE  LET pte == FreedEntry(f, p, v)
         IN /\ Contents(pte, FreedSwap(f), data) = PageOf(p, v)
            /\ pte.valid /\ ~pte.dirty => data[pte.pfn] = Backing(pte.swap, FreedSwap(f))
<1>1. Entry(p, v).valid /\ ~Entry(p, v).dirty =>
        data[Entry(p, v).pfn] = Backing(Entry(p, v).swap, swapQueue)
  BY DEF IInv, CleanPagesMatchSwap, Backing, Entry
<1>2. CASE LeadsTo(f, p, v)
  <2>1. /\ FreedEntry(f, p, v) = Absent(SwapToken(f))
        /\ VictimPte(f) = Entry(p, v) /\ Entry(p, v).valid /\ Entry(p, v).pfn = f
    BY <1>2, FreedEntries, VictimEntry DEF LeadsTo
  <2>2. PageOf(p, v) = data[f] /\ Contents(FreedEntry(f, p, v), FreedSwap(f), data)
                                    = Backing(SwapToken(f), FreedSwap(f))
    BY <2>1, PageIsContents DEF Contents, Absent
  <2>3. CASE WritesBack(f)
    BY <2>1, <2>2, <2>3, FreedSwapIs DEF Backing, NoSwap, Absent
  <2>4. CASE ~WritesBack(f)
    <3>1. ~Entry(p, v).dirty /\ SwapToken(f) = Entry(p, v).swap /\ FreedSwap(f) = swapQueue
      BY <1>2, <2>1, <2>4 DEF WritesBack, LeadsTo, SwapToken, NeedsToken, FreedSwap
    <3>. QED BY <1>1, <2>1, <2>2, <3>1 DEF Absent
  <2>. QED BY <2>3, <2>4
<1>3. CASE ~LeadsTo(f, p, v)
  <2>1. FreedEntry(f, p, v) = Entry(p, v)
    BY <1>3, FreedEntries
  <2>2. Entry(p, v).swap # NoSwap => Entry(p, v).swap \in DOMAIN swapQueue
    BY DEF IInv, SwapExists, Entry
  <2>3. WritesBack(f) => Entry(p, v).swap # SwapToken(f) \/ Entry(p, v).swap = NoSwap
    <3>1. ASSUME WritesBack(f), Entry(p, v).swap # NoSwap PROVE Entry(p, v).swap # SwapToken(f)
      <4>. DEFINE q == frameTable[f].process
                  w == frameTable[f].vpn
      <4>1. q \in running /\ w \in Page /\ LeadsTo(f, q, w)
        BY <3>1, VictimEntry DEF WritesBack, LeadsTo
      <4>2. FreedEntry(f, q, w).swap = SwapToken(f)
        BY <4>1, FreedEntries DEF Absent
      <4>3. FreedEntry(f, p, v).swap = SwapToken(f) => p = q /\ v = w
        BY <2>1, <3>1, <4>1, <4>2, FreedSwapOwned
      <4>. QED BY <1>3, <2>1, <4>1, <4>3
    <3>. QED BY <3>1
  <2>4. Backing(Entry(p, v).swap, FreedSwap(f)) = Backing(Entry(p, v).swap, swapQueue)
    BY <2>2, <2>3, FreedSwapIs DEF Backing
  <2>. QED BY <1>1, <2>1, <2>4, PageIsContents DEF Contents
<1>. QED BY <1>2, <1>3
-----------------------------------------------------------------------------
(* The invariant is inductive                                               *)

LEMMA InitIInv == Init => IInv
<1>. SUFFICES ASSUME Init PROVE IInv
  OBVIOUS
<1>. USE Ranges DEF Init
<1>1. ZeroPage \in Content /\ EmptyTable \in [Page -> Pte] /\ TableFte \in Fte /\ FreeFte \in Fte
  BY DEF ZeroPage, Content, EmptyTable, Absent, Pte, TableFte, FreeFte, Fte, NoSwap
<1>2. TypeOK
  BY <1>1, PagingAssumption, NoAccessIsLine DEF TypeOK, NoPid
<1>3. TablesProtected /\ FramesHaveEntries
  BY DEF TablesProtected, FramesHaveEntries, TableFte, FreeFte
<1>. QED BY <1>2, <1>3 DEF IInv, TablesApart, EntriesHaveFrames, SwapExists, SwapOwned, TokensGiven,
            CleanPagesMatchSwap, PtbrFollowsCurrent

(* The frame free_frame() returns is neither frame 0 nor a page table.      *)
LEMMA VictimFrame ==
  ASSUME IInv, NEW f \in Victims
  PROVE  f \in Frame /\ ~frameTable[f].protected /\ f # 0 /\ \A p \in running : savedPtbr[p] # f
BY VictimsAre DEF IInv, TablesApart, TablesProtected, Unprotected

(* START: the new page table is empty, the others as free_frame() left      *)
(* them.                                                                    *)
LEMMA StartEntries ==
  ASSUME IInv, NEW p \in Pid, p \notin running, NEW f \in Victims,
         table' = [FreedTable(f) EXCEPT ![f] = EmptyTable],
         savedPtbr' = [savedPtbr EXCEPT ![p] = f],
         running' = running \cup {p}
  PROVE  /\ table' \in [Frame -> [Page -> Pte]]
         /\ \A q \in running', v \in Page :
              Entry(q, v)' = IF q = p THEN Absent(NoSwap) ELSE FreedEntry(f, q, v)
<1>1. EmptyTable \in [Page -> Pte]
  BY Ranges DEF EmptyTable, Absent, Pte, NoSwap
<1>2. f \in Frame /\ \A q \in running : savedPtbr[q] # f
  BY VictimFrame
<1>3. FreedTable(f) \in [Frame -> [Page -> Pte]] /\ table' \in [Frame -> [Page -> Pte]]
  BY <1>1, <1>2, FreedEntries
<1>4. savedPtbr \in [Pid -> Frame] /\ running \subseteq Pid
  BY DEF IInv, TypeOK
<1>5. ASSUME NEW q \in running', NEW v \in Page
      PROVE  Entry(q, v)' = IF q = p THEN Absent(NoSwap) ELSE FreedEntry(f, q, v)
  <2>1. CASE q = p
    BY <1>2, <1>3, <1>4, <2>1 DEF Entry, EmptyTable
  <2>2. CASE q # p
    BY <1>2, <1>3, <1>4, <2>2, FreedEntries DEF Entry, FreedEntry
  <2>. QED BY <2>1, <2>2
<1>. QED BY <1>3, <1>5

LEMMA StartIInv ==
  ASSUME IInv, ~RestartCurrent, ~halted, NEW p \in Pid, Start(p)
  PROVE  IInv'
<1>1. PICK f \in Victims :
        /\ FreeFrame(f)
        /\ table' = [FreedTable(f) EXCEPT ![f] = EmptyTable]
        /\ frameTable' = [frameTable EXCEPT ![f] = TableFte]
        /\ savedPtbr' = [savedPtbr EXCEPT ![p] = f]
  BY DEF Start, Saved
<1>2. /\ p \notin running /\ p # current /\ running' = running \cup {p}
      /\ output' = NoAccess /\ UNCHANGED <<replacement, data, ptbr, current, halted>>
  BY DEF Start
<1>3. /\ table' \in [Frame -> [Page -> Pte]]
      /\ \A q \in running', v \in Page :
           Entry(q, v)' = IF q = p THEN Absent(NoSwap) ELSE FreedEntry(f, q, v)
  BY <1>1, <1>2, StartEntries
<1>4. f \in Frame /\ ~frameTable[f].protected /\ f # 0 /\ \A q \in running : savedPtbr[q] # f
  BY VictimFrame
<1>5. token' = FreedToken(f) /\ swapQueue' = FreedSwap(f) /\ FreedToken(f) <= MaxToken + 1
  BY <1>1 DEF FreeFrame
<1>6. \A g \in Frame : frameTable'[g] = IF g = f THEN TableFte ELSE frameTable[g]
  BY <1>1, <1>4 DEF IInv, TypeOK
<1>7. \A q \in running' : savedPtbr'[q] = IF q = p THEN f ELSE savedPtbr[q]
  BY <1>1, <1>2 DEF IInv, TypeOK
<1>8. TypeOK'
  <2>1. TableFte \in Fte
    BY Ranges DEF TableFte, FreeFte, Fte
  <2>2. frameTable' \in [Frame -> Fte] /\ savedPtbr' \in [Pid -> Frame] /\ running' \subseteq Pid
    BY <1>1, <1>2, <1>4, <2>1 DEF IInv, TypeOK
  <2>3. token' \in 1 .. MaxToken + 1 /\ \A t \in DOMAIN swapQueue' : t \in Nat /\ swapQueue'[t] \in Content
    BY <1>4, <1>5, FreedSwapIs, PagingAssumption DEF IInv, TypeOK
  <2>. QED BY <1>2, <1>3, <2>2, <2>3, NoAccessIsLine DEF IInv, TypeOK
<1>9. TablesApart'
  BY <1>2, <1>4, <1>6, <1>7 DEF IInv, TypeOK, TablesApart, TableFte, FreeFte
<1>10. TablesProtected'
  BY <1>2, <1>4, <1>6, <1>7, Ranges DEF IInv, TablesProtected, TableFte, FreeFte
<1>11. EntriesHaveFrames'
  <2>. SUFFICES ASSUME NEW q \in running', NEW v \in Page, Entry(q, v)'.valid
                PROVE  LET fte == frameTable'[Entry(q, v)'.pfn]
                       IN fte.mapped /\ fte.process = q /\ fte.vpn = v
    BY DEF EntriesHaveFrames
  <2>1. q \in running /\ Entry(q, v)' = FreedEntry(f, q, v) /\ FreedEntry(f, q, v).valid
    BY <1>2, <1>3 DEF Absent
  <2>2. Entry(q, v)'.pfn \in Frame
    BY <1>3, <1>8 DEF Entry, TypeOK, Pte
  <2>. QED BY <1>4, <1>6, <2>1, <2>2, FreedFrames
<1>12. FramesHaveEntries'
  <2>. SUFFICES ASSUME NEW g \in Frame, frameTable'[g].mapped,
                       NEW q, q = frameTable'[g].process, NEW w, w = frameTable'[g].vpn
                PROVE  q \in running' /\ Entry(q, w)'.valid /\ Entry(q, w)'.pfn = g
    BY DEF FramesHaveEntries, Entry
  <2>1. g # f /\ frameTable'[g] = frameTable[g]
    BY <1>4, <1>6 DEF TableFte, FreeFte
  <2>2. /\ q \in running /\ w \in Page
        /\ FreedEntry(f, q, w).valid /\ FreedEntry(f, q, w).pfn = g
    BY <1>4, <2>1, FreedFrames
  <2>3. q # p /\ q \in running'
    BY <1>2, <2>2
  <2>. QED BY <1>3, <2>2, <2>3
<1>13. SwapExists' /\ SwapOwned'
  <2>1. \A q \in running', v \in Page :
          Entry(q, v)'.swap = IF q = p THEN NoSwap ELSE FreedEntry(f, q, v).swap
    BY <1>3 DEF Absent
  <2>2. 0 \notin DOMAIN FreedSwap(f)
    BY <1>4, FreedSwapIs
  <2>3. SwapExists'
    BY <1>2, <1>4, <1>5, <2>1, FreedSwapOwned DEF SwapExists, Entry
  <2>4. SwapOwned'
    BY <1>2, <1>4, <1>5, <2>1, <2>2, FreedSwapOwned DEF SwapOwned, Entry
  <2>. QED BY <2>3, <2>4
<1>14. TokensGiven'
  BY <1>4, <1>5, FreedSwapIs DEF TokensGiven
<1>15. CleanPagesMatchSwap'
  <2>. SUFFICES ASSUME NEW q \in running', NEW v \in Page, Entry(q, v)'.valid, ~Entry(q, v)'.dirty
                PROVE  data'[Entry(q, v)'.pfn] = Backing(Entry(q, v)'.swap, swapQueue')
    BY DEF CleanPagesMatchSwap, Entry, Backing
  <2>1. q \in running /\ Entry(q, v)' = FreedEntry(f, q, v)
    BY <1>2, <1>3 DEF Absent
  <2>. QED BY <1>2, <1>4, <1>5, <2>1, FreedContents
<1>16. PtbrFollowsCurrent'
  BY <1>2, <1>7 DEF IInv, PtbrFollowsCurrent
<1>. QED BY <1>8, <1>9, <1>10, <1>11, <1>12, <1>13, <1>14, <1>15, <1>16 DEF IInv
(* What STOP does, seen from the processes that go on: their page tables    *)
(* stay, the frames freed are those of p, the tokens freed none of theirs.  *)
LEMMA StopEffect ==
  ASSUME IInv, NEW p \in Pid, Stop(p)
  PROVE  /\ \A q \in running' : q \in running /\ q # p /\ savedPtbr'[q] = savedPtbr[q]
         /\ table' \in [Frame -> [Page -> Pte]]
         /\ \A q \in running', v \in Page : Entry(q, v)' = Entry(q, v)
         /\ \A f \in Frame :
              frameTable'[f] = IF f = savedPtbr[p] \/ (frameTable[f].mapped /\ frameTable[f].process = p)
                               THEN FreeFte ELSE frameTable[f]
         /\ \A t : t \in DOMAIN swapQueue' <=>
              t \in DOMAIN swapQueue /\ \A v \in Page : Entry(p, v).swap # t
         /\ \A t \in DOMAIN swapQueue' : swapQueue'[t] = swapQueue[t]
<1>. DEFINE pages == table[savedPtbr[p]]
            frames == {pages[v].pfn : v \in {w \in Page : pages[w].valid}} \cup {savedPtbr[p]}
<1>1. p \in running /\ savedPtbr[p] \in Frame
  BY DEF Stop, IInv, TypeOK
<1>2. EmptyTable \in [Page -> Pte]
  BY Ranges DEF EmptyTable, Absent, Pte, NoSwap
<1>3. \A q \in running' : q \in running /\ q # p /\ savedPtbr'[q] = savedPtbr[q] /\ savedPtbr[q] # savedPtbr[p]
  BY <1>1 DEF Stop, IInv, TypeOK, TablesApart
<1>4. table' = [table EXCEPT ![savedPtbr[p]] = EmptyTable]
  BY DEF Stop
<1>5. table' \in [Frame -> [Page -> Pte]]
  BY <1>1, <1>2, <1>4 DEF IInv, TypeOK
<1>6. \A q \in running', v \in Page : Entry(q, v)' = Entry(q, v)
  BY <1>1, <1>3, <1>4 DEF IInv, TypeOK, Entry
<1>7. ASSUME NEW f \in Frame
      PROVE  frameTable'[f] = IF f = savedPtbr[p] \/ (frameTable[f].mapped /\ frameTable[f].process = p)
                              THEN FreeFte ELSE frameTable[f]
  <2>1. frameTable'[f] = IF f \in frames THEN FreeFte ELSE frameTable[f]
    BY DEF Stop
  <2>2. ASSUME frameTable[f].mapped, frameTable[f].process = p PROVE f \in frames
    BY <2>2, VictimEntry DEF Entry
  <2>3. ASSUME f \in frames, f # savedPtbr[p] PROVE frameTable[f].mapped /\ frameTable[f].process = p
    BY <1>1, <2>3 DEF IInv, EntriesHaveFrames, Entry
  <2>. QED BY <2>1, <2>2, <2>3
<1>8. swapQueue' = [t \in DOMAIN swapQueue \ {pages[v].swap : v \in Page} |-> swapQueue[t]]
  BY DEF Stop
<1>. QED BY <1>3, <1>5, <1>6, <1>7, <1>8 DEF Entry

LEMMA StopIInv ==
  ASSUME IInv, ~halted, NEW p \in Pid, Stop(p)
  PROVE  IInv'
<1>1. /\ p \in running /\ running' = running \ {p} /\ savedPtbr' = [savedPtbr EXCEPT ![p] = 0]
      /\ output' = NoAccess /\ UNCHANGED <<replacement, data, token, ptbr, current, halted>>
  BY DEF Stop
<1>2. \A q \in running' : q \in running /\ q # p /\ savedPtbr'[q] = savedPtbr[q]
  BY StopEffect
<1>3. table' \in [Frame -> [Page -> Pte]] /\ \A q \in running', v \in Page : Entry(q, v)' = Entry(q, v)
  BY StopEffect
<1>4. \A f \in Frame :
        frameTable'[f] = IF f = savedPtbr[p] \/ (frameTable[f].mapped /\ frameTable[f].process = p)
                         THEN FreeFte ELSE frameTable[f]
  BY StopEffect
<1>5. /\ \A t : t \in DOMAIN swapQueue' <=>
           t \in DOMAIN swapQueue /\ \A v \in Page : Entry(p, v).swap # t
      /\ \A t \in DOMAIN swapQueue' : swapQueue'[t] = swapQueue[t]
  BY StopEffect
<1>6. FreeFte.mapped = FALSE /\ FreeFte.protected = FALSE /\ FreeFte \in Fte
  BY Ranges DEF FreeFte, Fte
<1>7. \A q \in running' : /\ savedPtbr[q] \in Frame /\ savedPtbr[q] # savedPtbr[p]
                           /\ ~frameTable[savedPtbr[q]].mapped
  BY <1>1, <1>2 DEF IInv, TypeOK, TablesApart, TablesProtected
<1>8. TypeOK'
  <2>1. frameTable' \in [Frame -> Fte]
    <3>1. \A f \in Frame : frameTable'[f] \in Fte
      BY <1>4, <1>6 DEF IInv, TypeOK
    <3>2. frameTable' = [f \in Frame |-> frameTable'[f]]
      BY DEF Stop
    <3>. QED BY <3>1, <3>2
  <2>. QED BY <1>1, <1>3, <1>5, <2>1, Ranges, NoAccessIsLine DEF IInv, TypeOK
<1>9. TablesApart'
  BY <1>1, <1>2, <1>4, <1>7 DEF IInv, TablesApart
<1>10. TablesProtected'
  <2>1. savedPtbr[p] # 0 /\ ~frameTable[0].mapped
    BY <1>1, Ranges DEF IInv, TablesApart, TablesProtected
  <2>2. frameTable'[0].protected
    BY <1>4, <2>1, Ranges DEF IInv, TablesProtected
  <2>3. ASSUME NEW f \in Frame, frameTable'[f].protected
        PROVE  ~frameTable'[f].mapped /\ (f # 0 => \E q \in running' : savedPtbr'[q] = f)
    <3>1. f # savedPtbr[p] /\ frameTable'[f] = frameTable[f]
      BY <1>4, <1>6, <2>3
    <3>. QED BY <1>1, <1>2, <2>3, <3>1 DEF IInv, TablesProtected
  <2>. QED BY <2>2, <2>3 DEF TablesProtected
<1>11. EntriesHaveFrames'
  <2>. SUFFICES ASSUME NEW q \in running', NEW v \in Page, Entry(q, v)'.valid
                PROVE  LET fte == frameTable'[Entry(q, v)'.pfn]
                       IN fte.mapped /\ fte.process = q /\ fte.vpn = v
    BY DEF EntriesHaveFrames
  <2>1. Entry(q, v).valid /\ Entry(q, v)' = Entry(q, v) /\ q \in running /\ q # p
    BY <1>2, <1>3
  <2>2. LET fte == frameTable[Entry(q, v).pfn] IN fte.mapped /\ fte.process = q /\ fte.vpn = v
    BY <2>1 DEF IInv, EntriesHaveFrames
  <2>3. Entry(q, v).pfn \in Frame /\ Entry(q, v).pfn # savedPtbr[p]
    BY <1>1, <2>1, <2>2, ContentsType DEF Pte, IInv, TablesApart, TablesProtected, TypeOK
  <2>. QED BY <1>4, <2>1, <2>2, <2>3
<1>12. FramesHaveEntries'
  <2>. SUFFICES ASSUME NEW f \in Frame, frameTable'[f].mapped
                PROVE  /\ frameTable'[f].process \in running'
                       /\ LET pte == table'[savedPtbr'[frameTable'[f].process]][frameTable'[f].vpn]
                          IN pte.valid /\ pte.pfn = f
    BY DEF FramesHaveEntries, Entry
  <2>1. frameTable'[f] = frameTable[f] /\ frameTable[f].process # p
    BY <1>4, <1>6
  <2>. DEFINE q == frameTable[f].process
              v == frameTable[f].vpn
  <2>2. q \in running' /\ v \in Page /\ Entry(q, v).valid /\ Entry(q, v).pfn = f
    BY <1>1, <2>1, VictimEntry
  <2>3. Entry(q, v)' = Entry(q, v) /\ frameTable'[f].process = q /\ frameTable'[f].vpn = v
    BY <1>3, <2>1, <2>2
  <2>4. table'[savedPtbr'[q]][v] = Entry(q, v)
    BY <2>3 DEF Entry
  <2>. HIDE DEF q, v
  <2>. QED BY <2>2, <2>3, <2>4
<1>13. \A q \in running', v \in Page :
         Entry(q, v)'.swap = Entry(q, v).swap
         /\ (Entry(q, v).swap # NoSwap => \A w \in Page : Entry(p, w).swap # Entry(q, v).swap)
  BY <1>1, <1>2, <1>3 DEF IInv, SwapOwned, Entry
<1>14. SwapExists' /\ SwapOwned'
  <2>1. \A q \in running', v \in Page : Entry(q, v)'.swap \in DOMAIN swapQueue' \cup {NoSwap}
    BY <1>2, <1>5, <1>13 DEF IInv, SwapExists, Entry
  <2>2. ASSUME NEW t \in DOMAIN swapQueue' PROVE \E q \in running', v \in Page : Entry(q, v)'.swap = t
    <3>1. t \in DOMAIN swapQueue /\ \A v \in Page : Entry(p, v).swap # t
      BY <1>5
    <3>2. PICK q \in running, v \in Page : Entry(q, v).swap = t
      BY <3>1 DEF IInv, SwapOwned, Entry
    <3>3. q \in running'
      BY <1>1, <3>1, <3>2
    <3>. QED BY <1>13, <3>2, <3>3
  <2>3. \A q, r \in running', v, w \in Page :
          Entry(q, v)'.swap = Entry(r, w)'.swap /\ Entry(q, v)'.swap # NoSwap => q = r /\ v = w
    BY <1>2, <1>13 DEF IInv, SwapOwned, Entry
  <2>. QED BY <2>1, <2>2, <2>3 DEF SwapExists, SwapOwned, Entry
<1>15. TokensGiven'
  BY <1>1, <1>5 DEF IInv, TokensGiven
<1>16. CleanPagesMatchSwap'
  <2>. SUFFICES ASSUME NEW q \in running', NEW v \in Page, Entry(q, v)'.valid, ~Entry(q, v)'.dirty
                PROVE  data'[Entry(q, v)'.pfn] = Backing(Entry(q, v)'.swap, swapQueue')
    BY DEF CleanPagesMatchSwap, Entry, Backing
  <2>1. Entry(q, v)' = Entry(q, v) /\ q \in running
    BY <1>2, <1>3
  <2>2. data[Entry(q, v).pfn] = Backing(Entry(q, v).swap, swapQueue)
    BY <2>1 DEF IInv, CleanPagesMatchSwap, Backing, Entry
  <2>3. Entry(q, v).swap \in DOMAIN swapQueue' \cup {NoSwap}
    BY <1>14, <2>1 DEF SwapExists, Entry
  <2>. QED BY <1>1, <1>5, <2>1, <2>2, <2>3 DEF Backing
<1>17. PtbrFollowsCurrent'
  BY <1>1, <1>2 DEF IInv, PtbrFollowsCurrent
<1>. QED BY <1>8, <1>9, <1>10, <1>11, <1>12, <1>14, <1>15, <1>16, <1>17 DEF IInv
(* mem_access() always finds the page table of its process in PTBR.         *)
LEMMA BaseIsSaved ==
  ASSUME IInv, NEW p \in running
  PROVE  SwitchedPtbr(p) = savedPtbr[p] /\ savedPtbr[p] \in Frame
BY DEF SwitchedPtbr, IInv, PtbrFollowsCurrent, TypeOK

(* A byte stored in a page changes that byte only.                          *)
LEMMA AccessedPage ==
  ASSUME NEW page \in Content, NEW o \in Offset, NEW rw, NEW byte \in Byte
  PROVE  /\ Accessed(page, o, rw, byte) \in Content
         /\ \A i \in Offset : Accessed(page, o, rw, byte)[i] = IF rw # "r" /\ i = o THEN byte ELSE page[i]
BY DEF Accessed, Content

(* A hit changes the page, and whether its entry is dirty.                  *)
LEMMA HitEffect ==
  ASSUME IInv, NEW p \in running, NEW a \in Address, NEW v \in Page, NEW o \in Offset,
         v = VaddrVpn(a), o = VaddrOffset(a), NEW rw \in {"r", "w"}, NEW byte \in Byte,
         Hit(p, a, rw, byte), UNCHANGED <<savedPtbr, running>>
  PROVE  /\ Entry(p, v).valid /\ Entry(p, v).pfn \in Frame
         /\ table' \in [Frame -> [Page -> Pte]] /\ data' \in [Frame -> Content]
         /\ \A q \in running, w \in Page :
              Entry(q, w)' = IF q = p /\ w = v
                             THEN [Entry(p, v) EXCEPT !.dirty = Entry(p, v).dirty \/ rw = "w"]
                             ELSE Entry(q, w)
         /\ \A g \in Frame : data'[g] = IF g = Entry(p, v).pfn
                                        THEN Accessed(data[g], o, rw, byte) ELSE data[g]
         /\ output' = [pid |-> p, rw |-> rw, address |-> a, byte |-> Accessed(data[Entry(p, v).pfn], o, rw, byte)[o]]
         /\ output' \in Line
         /\ UNCHANGED <<frameTable, swapQueue, token>>
<1>. DEFINE base == savedPtbr[p]
            f == Entry(p, v).pfn
<1>1. SwitchedPtbr(p) = base /\ base \in Frame
  BY BaseIsSaved
<1>2. /\ Entry(p, v).valid
      /\ data' = [data EXCEPT ![f] = Accessed(data[f], o, rw, byte)]
      /\ table' = [table EXCEPT ![base][v].dirty = @ \/ rw = "w"]
      /\ output' = [pid |-> p, rw |-> rw, address |-> a, byte |-> Accessed(data[f], o, rw, byte)[o]]
      /\ UNCHANGED <<frameTable, swapQueue, token>>
  BY <1>1 DEF Hit, Entry, Printed
<1>3. Entry(p, v) \in Pte /\ f \in Frame
  BY ContentsType DEF Pte
<1>4. data[f] \in Content /\ Accessed(data[f], o, rw, byte) \in Content
  BY <1>3, AccessedPage DEF IInv, TypeOK
<1>5. /\ data' \in [Frame -> Content]
      /\ \A g \in Frame : data'[g] = IF g = f THEN Accessed(data[g], o, rw, byte) ELSE data[g]
  BY <1>2, <1>3, <1>4 DEF IInv, TypeOK
<1>. DEFINE pte == [Entry(p, v) EXCEPT !.dirty = Entry(p, v).dirty \/ rw = "w"]
<1>6. table' = [table EXCEPT ![base] = [table[base] EXCEPT ![v] = pte]]
  BY <1>1, <1>2 DEF IInv, TypeOK, Entry
<1>7. pte \in Pte
  BY <1>3 DEF Pte
<1>8. table' \in [Frame -> [Page -> Pte]]
  BY <1>1, <1>6, <1>7 DEF IInv, TypeOK
<1>9. ASSUME NEW q \in running, NEW w \in Page
      PROVE  Entry(q, w)' = IF q = p /\ w = v THEN pte ELSE Entry(q, w)
  <2>1. savedPtbr[q] \in Frame /\ (savedPtbr[q] = base <=> q = p)
    BY DEF IInv, TypeOK, TablesApart
  <2>2. Entry(q, w)' = table'[savedPtbr[q]][w]
    BY DEF Entry
  <2>. HIDE DEF pte
  <2>. QED BY <1>1, <1>6, <2>1, <2>2 DEF IInv, TypeOK, Entry
<1>10. output' \in Line
  BY <1>2, <1>4 DEF Content, Line, IInv, TypeOK
<1>. QED BY <1>2, <1>3, <1>5, <1>8, <1>9, <1>10

(* A fault frees a frame, and then changes one entry and one frame.         *)
LEMMA FaultEffect ==
  ASSUME IInv, NEW p \in running, NEW a \in Address, NEW v \in Page, NEW o \in Offset,
         v = VaddrVpn(a), o = VaddrOffset(a), NEW rw \in {"r", "w"}, NEW byte \in Byte,
         Fault(p, a, rw, byte), UNCHANGED <<savedPtbr, running>>
  PROVE  \E f \in Victims :
         LET page == Accessed(PageOf(p, v), o, rw, byte)
         IN /\ token' = FreedToken(f) /\ swapQueue' = FreedSwap(f) /\ FreedToken(f) <= MaxToken + 1
            /\ ~Entry(p, v).valid /\ FreedEntry(f, p, v) = Entry(p, v)
            /\ PageOf(p, v) = Backing(Entry(p, v).swap, FreedSwap(f))
            /\ table' \in [Frame -> [Page -> Pte]] /\ data' \in [Frame -> Content]
            /\ \A q \in running, w \in Page :
                 Entry(q, w)' = IF q = p /\ w = v
                                THEN [valid |-> TRUE, dirty |-> rw = "w", pfn |-> f, swap |-> Entry(p, v).swap]
                                ELSE FreedEntry(f, q, w)
            /\ frameTable' = [frameTable EXCEPT ![f] =
                                [protected |-> FALSE, mapped |-> TRUE, process |-> p, vpn |-> v]]
            /\ \A g \in Frame : data'[g] = IF g = f THEN page ELSE data[g]
            /\ output' = [pid |-> p, rw |-> rw, address |-> a, byte |-> page[o]]
            /\ output' \in Line
<1>. DEFINE base == savedPtbr[p]
<1>1. SwitchedPtbr(p) = base /\ base \in Frame
  BY BaseIsSaved
<1>2. PICK f \in Victims :
        LET swap == FreedTable(f)[base][v].swap
            page == Accessed(Loaded(f, swap), o, rw, byte)
        IN /\ FreeFrame(f)
           /\ table' = [FreedTable(f) EXCEPT ![base][v] =
                          [valid |-> TRUE, dirty |-> rw = "w", pfn |-> f, swap |-> swap]]
           /\ frameTable' = [frameTable EXCEPT ![f] =
                               [protected |-> FALSE, mapped |-> TRUE, process |-> p, vpn |-> v]]
           /\ data' = [data EXCEPT ![f] = page]
           /\ output' = [pid |-> p, rw |-> rw, address |-> a, byte |-> page[o]]
  BY <1>1 DEF Fault, Printed
<1>3. ~Entry(p, v).valid
  BY <1>1 DEF Fault, Entry
<1>4. f \in Frame
  BY VictimFrame
<1>5. FreedEntry(f, p, v) = Entry(p, v)
  BY <1>3, <1>4, FreedEntries, VictimEntry DEF LeadsTo
<1>6. FreedTable(f)[base][v].swap = Entry(p, v).swap
  BY <1>5 DEF FreedEntry
<1>7. PageOf(p, v) = Backing(Entry(p, v).swap, FreedSwap(f))
  BY <1>3, <1>4, <1>5, FreedContents DEF Contents
<1>8. Loaded(f, Entry(p, v).swap) = PageOf(p, v)
  BY <1>7 DEF Loaded, Backing
<1>. DEFINE page == Accessed(PageOf(p, v), o, rw, byte)
            pte == [valid |-> TRUE, dirty |-> rw = "w", pfn |-> f, swap |-> Entry(p, v).swap]
<1>9. /\ token' = FreedToken(f) /\ swapQueue' = FreedSwap(f) /\ FreedToken(f) <= MaxToken + 1
      /\ table' = [FreedTable(f) EXCEPT ![base] = [FreedTable(f)[base] EXCEPT ![v] = pte]]
      /\ frameTable' = [frameTable EXCEPT ![f] =
                          [protected |-> FALSE, mapped |-> TRUE, process |-> p, vpn |-> v]]
      /\ data' = [data EXCEPT ![f] = page]
      /\ output' = [pid |-> p, rw |-> rw, address |-> a, byte |-> page[o]]
  BY <1>2, <1>6, <1>8 DEF FreeFrame
<1>10. page \in Content
  BY AccessedPage, ContentsType
<1>11. pte \in Pte
  BY <1>4, ContentsType DEF Pte
<1>12. table' \in [Frame -> [Page -> Pte]]
  <2>. HIDE DEF pte
  <2>. QED BY <1>1, <1>4, <1>9, <1>11, FreedEntries
<1>13. data' \in [Frame -> Content] /\ \A g \in Frame : data'[g] = IF g = f THEN page ELSE data[g]
  <2>. HIDE DEF page
  <2>. QED BY <1>4, <1>9, <1>10 DEF IInv, TypeOK
<1>14. ASSUME NEW q \in running, NEW w \in Page
       PROVE  Entry(q, w)' = IF q = p /\ w = v THEN pte ELSE FreedEntry(f, q, w)
  <2>1. savedPtbr[q] \in Frame /\ (savedPtbr[q] = base <=> q = p)
    BY DEF IInv, TypeOK, TablesApart
  <2>2. Entry(q, w)' = table'[savedPtbr[q]][w]
    BY DEF Entry
  <2>. HIDE DEF pte
  <2>. QED BY <1>1, <1>4, <1>9, <2>1, <2>2, FreedEntries DEF FreedEntry
<1>15. output' \in Line
  BY <1>9, <1>10 DEF Content, Line, IInv, TypeOK
<1>. HIDE DEF page
<1>. QED BY <1>3, <1>5, <1>7, <1>9, <1>12, <1>13, <1>14, <1>15 DEF page
LEMMA HitIInv ==
  ASSUME IInv, ~halted, NEW p \in running, NEW a \in Address, NEW v \in Page, NEW o \in Offset,
         v = VaddrVpn(a), o = VaddrOffset(a), NEW rw \in {"r", "w"}, NEW byte \in Byte,
         Hit(p, a, rw, byte),
         ptbr' = SwitchedPtbr(p), current' = p, UNCHANGED <<replacement, running, savedPtbr, halted>>
  PROVE  IInv'
<1>. DEFINE f == Entry(p, v).pfn
<1>1. /\ Entry(p, v).valid /\ f \in Frame
      /\ table' \in [Frame -> [Page -> Pte]] /\ data' \in [Frame -> Content]
      /\ \A q \in running, w \in Page :
           Entry(q, w)' = IF q = p /\ w = v
                          THEN [Entry(p, v) EXCEPT !.dirty = Entry(p, v).dirty \/ rw = "w"]
                          ELSE Entry(q, w)
      /\ \A g \in Frame : data'[g] = IF g = f THEN Accessed(data[g], o, rw, byte) ELSE data[g]
      /\ output' \in Line
      /\ UNCHANGED <<frameTable, swapQueue, token>>
  BY HitEffect
<1>2. ptbr' = savedPtbr[p] /\ savedPtbr[p] \in Frame /\ p \in Pid
  BY BaseIsSaved DEF IInv, TypeOK
<1>3. TypeOK'
  BY <1>1, <1>2 DEF IInv, TypeOK
<1>4. \A q \in running, w \in Page :
        /\ Entry(q, w)'.valid = Entry(q, w).valid
        /\ Entry(q, w)'.pfn = Entry(q, w).pfn
        /\ Entry(q, w)'.swap = Entry(q, w).swap
        /\ q = p /\ w = v => Entry(q, w)'.dirty = (Entry(q, w).dirty \/ rw = "w")
        /\ ~(q = p /\ w = v) => Entry(q, w)'.dirty = Entry(q, w).dirty
  BY <1>1, ContentsType, SMTT(30) DEF Pte
<1>5. TablesApart' /\ TablesProtected'
  BY <1>1 DEF IInv, TablesApart, TablesProtected
<1>6. EntriesHaveFrames'
  BY <1>1, <1>4 DEF IInv, EntriesHaveFrames
<1>7. FramesHaveEntries'
  <2>. SUFFICES ASSUME NEW g \in Frame, frameTable'[g].mapped,
                       NEW q, q = frameTable'[g].process, NEW w, w = frameTable'[g].vpn
                PROVE  q \in running /\ Entry(q, w)'.valid /\ Entry(q, w)'.pfn = g
    BY DEF FramesHaveEntries, Entry
  <2>1. q \in running /\ w \in Page /\ Entry(q, w).valid /\ Entry(q, w).pfn = g
    BY <1>1, VictimEntry
  <2>. QED BY <1>4, <2>1
<1>8. SwapExists' /\ SwapOwned'
  <2>1. \A q \in running, w \in Page : table'[savedPtbr'[q]][w].swap = table[savedPtbr[q]][w].swap
    BY <1>4 DEF Entry
  <2>2. SwapExists'
    BY <1>1, <2>1 DEF IInv, SwapExists
  <2>3. SwapOwned'
    <3>. DEFINE swap(q, w) == table[savedPtbr[q]][w].swap
    <3>1. /\ \A t \in DOMAIN swapQueue : \E q \in running, w \in Page : swap(q, w) = t
          /\ \A q, r \in running, w, x \in Page :
               swap(q, w) = swap(r, x) /\ swap(q, w) # NoSwap => q = r /\ w = x
      BY DEF IInv, SwapOwned
    <3>2. /\ \A q \in running, w \in Page : table'[savedPtbr'[q]][w].swap = swap(q, w)
          /\ running' = running /\ swapQueue' = swapQueue
      BY <1>1, <2>1
    <3>. HIDE DEF swap
    <3>. QED BY <3>1, <3>2 DEF SwapOwned
  <2>. QED BY <2>2, <2>3
<1>9. TokensGiven'
  BY <1>1 DEF IInv, TokensGiven
<1>10. CleanPagesMatchSwap'
  <2>. SUFFICES ASSUME NEW q \in running, NEW w \in Page, Entry(q, w)'.valid, ~Entry(q, w)'.dirty
                PROVE  data'[Entry(q, w)'.pfn] = Backing(Entry(q, w)'.swap, swapQueue')
    BY DEF CleanPagesMatchSwap, Entry, Backing
  <2>1. Entry(q, w).valid /\ ~Entry(q, w).dirty
    BY <1>4
  <2>2. data[Entry(q, w).pfn] = Backing(Entry(q, w).swap, swapQueue)
    BY <2>1 DEF IInv, CleanPagesMatchSwap, Backing, Entry
  <2>3. Entry(q, w).pfn \in Frame
    BY ContentsType DEF Pte
  <2>4. CASE q = p /\ w = v
    <3>1. rw = "r"
      BY <1>4, <2>4
    <3>. QED BY <1>1, <1>4, <2>2, <2>3, <3>1 DEF Accessed, Backing
  <2>5. CASE ~(q = p /\ w = v)
    <3>1. Entry(q, w).pfn # f
      BY <1>1, <2>1, <2>5 DEF IInv, EntriesHaveFrames
    <3>. QED BY <1>1, <1>4, <2>2, <2>3, <3>1 DEF Backing
  <2>. QED BY <2>4, <2>5
<1>11. PtbrFollowsCurrent'
  BY <1>2 DEF PtbrFollowsCurrent
<1>. QED BY <1>3, <1>5, <1>6, <1>7, <1>8, <1>9, <1>10, <1>11 DEF IInv

LEMMA FaultIInv ==
  ASSUME IInv, ~halted, NEW p \in running, NEW a \in Address, NEW v \in Page, NEW o \in Offset,
         v = VaddrVpn(a), o = VaddrOffset(a), NEW rw \in {"r", "w"}, NEW byte \in Byte,
         Fault(p, a, rw, byte),
         ptbr' = SwitchedPtbr(p), current' = p, UNCHANGED <<replacement, running, savedPtbr, halted>>
  PROVE  IInv'
<1>. DEFINE page == Accessed(PageOf(p, v), o, rw, byte)
            Pte1(f) == [valid |-> TRUE, dirty |-> rw = "w", pfn |-> f, swap |-> Entry(p, v).swap]
            Fte1 == [protected |-> FALSE, mapped |-> TRUE, process |-> p, vpn |-> v]
<1>1. PICK f \in Victims :
        /\ token' = FreedToken(f) /\ swapQueue' = FreedSwap(f) /\ FreedToken(f) <= MaxToken + 1
        /\ ~Entry(p, v).valid /\ FreedEntry(f, p, v) = Entry(p, v)
        /\ PageOf(p, v) = Backing(Entry(p, v).swap, FreedSwap(f))
        /\ table' \in [Frame -> [Page -> Pte]] /\ data' \in [Frame -> Content]
        /\ \A q \in running, w \in Page :
             Entry(q, w)' = IF q = p /\ w = v THEN Pte1(f) ELSE FreedEntry(f, q, w)
        /\ frameTable' = [frameTable EXCEPT ![f] = Fte1]
        /\ \A g \in Frame : data'[g] = IF g = f THEN page ELSE data[g]
        /\ output' \in Line
  BY FaultEffect
<1>2. ptbr' = savedPtbr[p] /\ savedPtbr[p] \in Frame /\ p \in Pid
  BY BaseIsSaved DEF IInv, TypeOK
<1>3. f \in Frame /\ ~frameTable[f].protected /\ f # 0 /\ \A q \in running : savedPtbr[q] # f
  BY VictimFrame
<1>4. Fte1 \in Fte /\ Fte1.mapped /\ ~Fte1.protected /\ Fte1.process = p /\ Fte1.vpn = v
  BY <1>2 DEF Fte
<1>5. Pte1(f).valid /\ Pte1(f).pfn = f /\ Pte1(f).swap = FreedEntry(f, p, v).swap /\ Pte1(f).dirty = (rw = "w")
  BY <1>1
<1>. HIDE DEF page, Pte1, Fte1
<1>6. frameTable' \in [Frame -> Fte]
      /\ \A g \in Frame : frameTable'[g] = IF g = f THEN Fte1 ELSE frameTable[g]
  BY <1>1, <1>3, <1>4 DEF IInv, TypeOK
<1>7. TypeOK'
  <2>1. token' \in 1 .. MaxToken + 1 /\ \A t \in DOMAIN swapQueue' : t \in Nat /\ swapQueue'[t] \in Content
    BY <1>1, <1>3, FreedSwapIs, PagingAssumption DEF IInv, TypeOK
  <2>. QED BY <1>1, <1>2, <1>6, <2>1 DEF IInv, TypeOK
<1>8. TablesApart' /\ TablesProtected'
  <2>1. TablesApart'
    BY <1>3, <1>6 DEF IInv, TypeOK, TablesApart
  <2>2. TablesProtected'
    BY <1>3, <1>4, <1>6, Ranges DEF IInv, TablesProtected
  <2>. QED BY <2>1, <2>2
<1>9. EntriesHaveFrames'
  <2>. SUFFICES ASSUME NEW q \in running, NEW w \in Page, Entry(q, w)'.valid
                PROVE  LET fte == frameTable'[Entry(q, w)'.pfn]
                       IN fte.mapped /\ fte.process = q /\ fte.vpn = w
    BY DEF EntriesHaveFrames
  <2>1. CASE q = p /\ w = v
    BY <1>1, <1>3, <1>4, <1>5, <1>6, <2>1
  <2>2. CASE ~(q = p /\ w = v)
    <3>1. Entry(q, w)' = FreedEntry(f, q, w) /\ Entry(q, w)'.pfn \in Frame
      BY <1>1, <1>7, <2>2, SMTT(30) DEF Entry, TypeOK, Pte
    <3>. QED BY <1>3, <1>6, <3>1, FreedFrames
  <2>. QED BY <2>1, <2>2
<1>10. FramesHaveEntries'
  <2>. SUFFICES ASSUME NEW g \in Frame, frameTable'[g].mapped,
                       NEW q, q = frameTable'[g].process, NEW w, w = frameTable'[g].vpn
                PROVE  q \in running /\ Entry(q, w)'.valid /\ Entry(q, w)'.pfn = g
    BY DEF FramesHaveEntries, Entry
  <2>1. CASE g = f
    BY <1>1, <1>4, <1>5, <1>6, <2>1
  <2>2. CASE g # f
    <3>1. frameTable'[g] = frameTable[g]
      BY <1>6, <2>2
    <3>2. /\ q \in running /\ w \in Page
          /\ FreedEntry(f, q, w).valid /\ FreedEntry(f, q, w).pfn = g
      BY <1>3, <2>2, <3>1, FreedFrames
    <3>. QED BY <1>1, <3>2
  <2>. QED BY <2>1, <2>2
<1>11. SwapExists' /\ SwapOwned'
  <2>1. \A q \in running, w \in Page : table'[savedPtbr'[q]][w].swap = FreedEntry(f, q, w).swap
    <3>1. \A q \in running, w \in Page : Entry(q, w)'.swap = FreedEntry(f, q, w).swap
      BY <1>1, <1>5
    <3>. QED BY <3>1 DEF Entry
  <2>2. SwapExists'
    BY <1>1, <1>3, <2>1, FreedSwapOwned DEF SwapExists
  <2>3. SwapOwned'
    <3>1. /\ \A t \in DOMAIN swapQueue' :
               \E q \in running, w \in Page : FreedEntry(f, q, w).swap = t
          /\ \A q, r \in running, w, x \in Page :
               /\ FreedEntry(f, q, w).swap = FreedEntry(f, r, x).swap
               /\ FreedEntry(f, q, w).swap # NoSwap
               => q = r /\ w = x
      BY <1>1, <1>3, FreedSwapOwned
    <3>. QED BY <2>1, <3>1 DEF SwapOwned
  <2>. QED BY <2>2, <2>3
<1>12. TokensGiven'
  BY <1>1, <1>3, FreedSwapIs DEF TokensGiven
<1>13. CleanPagesMatchSwap'
  <2>. SUFFICES ASSUME NEW q \in running, NEW w \in Page, Entry(q, w)'.valid, ~Entry(q, w)'.dirty
                PROVE  data'[Entry(q, w)'.pfn] = Backing(Entry(q, w)'.swap, swapQueue')
    BY DEF CleanPagesMatchSwap, Entry, Backing
  <2>1. CASE q = p /\ w = v
    <3>1. rw = "r" /\ page = PageOf(p, v)
      BY <1>1, <1>5, <2>1 DEF page, Accessed
    <3>. QED BY <1>1, <1>3, <1>5, <2>1, <3>1
  <2>2. CASE ~(q = p /\ w = v)
    <3>1. Entry(q, w)' = FreedEntry(f, q, w) /\ Entry(q, w)'.pfn \in Frame
      BY <1>1, <1>7, <2>2, SMTT(30) DEF Entry, TypeOK, Pte
    <3>2. Entry(q, w)'.pfn # f
      BY <1>3, <3>1, FreedFrames
    <3>. QED BY <1>1, <1>3, <3>1, <3>2, FreedContents
  <2>. QED BY <2>1, <2>2
<1>14. PtbrFollowsCurrent'
  BY <1>2 DEF PtbrFollowsCurrent
<1>. QED BY <1>7, <1>8, <1>9, <1>10, <1>11, <1>12, <1>13, <1>14 DEF IInv

(* A step that changes at most halted keeps the invariant.                  *)
LEMMA HaltIInv ==
  ASSUME IInv, halted' \in BOOLEAN,
         UNCHANGED <<replacement, frameTable, table, data, swapQueue, token, running, savedPtbr, ptbr,
                     current, output>>
  PROVE  IInv'
<1>1. TypeOK'
  BY DEF IInv, TypeOK
<1>2. TablesApart' /\ TablesProtected'
  BY DEF IInv, TablesApart, TablesProtected
<1>3. EntriesHaveFrames' /\ FramesHaveEntries'
  BY DEF IInv, EntriesHaveFrames, FramesHaveEntries, Entry
<1>4. SwapExists' /\ SwapOwned' /\ TokensGiven'
  BY DEF IInv, SwapExists, SwapOwned, TokensGiven
<1>5. CleanPagesMatchSwap' /\ PtbrFollowsCurrent'
  BY DEF IInv, CleanPagesMatchSwap, PtbrFollowsCurrent
<1>. QED BY <1>1, <1>2, <1>3, <1>4, <1>5 DEF IInv

LEMMA OutOfMemoryIInv == IInv /\ OutOfMemory => IInv'
BY HaltIInv DEF OutOfMemory

LEMMA NextIInv == ASSUME ~RestartCurrent PROVE IInv /\ [Next]_vars => IInv'
<1>. SUFFICES ASSUME IInv, [Next]_vars PROVE IInv'
  OBVIOUS
<1>1. ASSUME NEW p \in Pid, NEW a \in TraceAddress, NEW rw \in {"r", "w"}, NEW byte \in Byte,
             ~halted, Access(p, a, rw, byte)
      PROVE  IInv'
  <2>1. a \in Address /\ VaddrVpn(a) \in Page /\ VaddrOffset(a) \in Offset
    BY AddressSplit, TraceAddressAssumption
  <2>. QED BY <1>1, <2>1, HitIInv, FaultIInv DEF Access
<1>2. CASE Next
  BY <1>1, <1>2, StartIInv, StopIInv, OutOfMemoryIInv, Ranges DEF Next, Read, Write
<1>3. CASE UNCHANGED vars
  BY <1>3, HaltIInv DEF vars, IInv, TypeOK
<1>. QED BY <1>2, <1>3

LEMMA InvariantHolds == ASSUME ~RestartCurrent PROVE Spec => []IInv
BY InitIInv, NextIInv, PTL DEF Spec
-----------------------------------------------------------------------------
(* Safety                                                                   *)

(* The tables agree as check_validity() requires.                           *)
LEMMA IInvCheckValidity == IInv => CheckValidity
<1>. SUFFICES ASSUME IInv PROVE CheckValidity
  OBVIOUS
<1>. USE DEF IInv
<1>0. \A f \in Frame : f > 0 <=> f # 0
  BY Ranges
<1>1. frameTable[0].protected
  BY DEF TablesProtected
<1>2. PageTablesProtected
  <2>1. \A p \in running : savedPtbr[p] > 0 /\ frameTable[savedPtbr[p]].protected
    BY <1>0 DEF TypeOK, TablesApart
  <2>. QED BY <2>1 DEF TablesProtected, PageTablesProtected, PageTables
<1>3. \A pv \in Mapped :
        /\ pv[1] \in running /\ pv[2] \in Page /\ pv = <<pv[1], pv[2]>>
        /\ Entry(pv[1], pv[2]).valid /\ MappedFrame(pv) = Entry(pv[1], pv[2]).pfn
  BY DEF Mapped, MappedFrame, Entry
<1>4. \A pv \in Mapped :
        LET f == MappedFrame(pv)
        IN /\ f \in Frame
           /\ frameTable[f].mapped /\ frameTable[f].process = pv[1] /\ frameTable[f].vpn = pv[2]
  BY <1>3, ContentsType DEF EntriesHaveFrames, Pte
<1>5. ASSUME NEW pv \in Mapped PROVE PteValid(pv)
  <2>. DEFINE f == MappedFrame(pv)
  <2>1. f \in Frame /\ ~frameTable[f].protected
    BY <1>4, <1>5 DEF TablesProtected
  <2>2. f > 0 /\ f \notin PageTables
    BY <1>0, <1>1, <2>1 DEF TablesApart, PageTables
  <2>3. ASSUME NEW other \in Mapped, MappedFrame(other) = f PROVE other = pv
    BY <1>3, <1>4, <1>5, <2>3
  <2>. QED BY <1>4, <1>5, <2>2, <2>3 DEF PteValid
<1>6. MappedAccounted
  <2>. SUFFICES ASSUME NEW f \in Frame, frameTable[f].mapped PROVE \E pv \in Mapped : MappedFrame(pv) = f
    BY DEF MappedAccounted
  <2>. DEFINE pv == <<frameTable[f].process, frameTable[f].vpn>>
  <2>1. pv \in Mapped /\ MappedFrame(pv) = f
    BY VictimEntry DEF Mapped, MappedFrame, Entry
  <2>. QED BY <2>1
<1>. QED BY <1>1, <1>2, <1>5, <1>6 DEF CheckValidity

(* The variables have their types, pfn, tokens and bytes included.          *)
THEOREM TypeCorrect == ASSUME ~RestartCurrent PROVE Spec => []TypeOK
<1>1. IInv => TypeOK
  BY DEF IInv
<1>. QED BY <1>1, InvariantHolds, PTL

(* check_validity() never panics: page tables and frame table agree after   *)
(* every line of a trace.                                                   *)
THEOREM TablesAgree == ASSUME ~RestartCurrent PROVE Spec => []CheckValidity
BY IInvCheckValidity, InvariantHolds, PTL

(* No swap entry is leaked or shared.                                       *)
THEOREM SwapIsOwned == ASSUME ~RestartCurrent PROVE Spec => []SwapOwned
<1>1. IInv => SwapOwned
  BY DEF IInv
<1>. QED BY <1>1, InvariantHolds, PTL

(* A page that free_frame() drops without writing it back is not lost.      *)
THEOREM CleanPagesAreBacked == ASSUME ~RestartCurrent PROVE Spec => []CleanPagesMatchSwap
<1>1. IInv => CleanPagesMatchSwap
  BY DEF IInv
<1>. QED BY <1>1, InvariantHolds, PTL

-----------------------------------------------------------------------------
(* Refinement of FlatMemory                                                 *)

(* The memory of the processes, as FlatMemory sees it.                      *)
Store == [p \in Pid |-> [a \in TraceAddress |-> PageOf(p, VaddrVpn(a))[VaddrOffset(a)]]]

LEMMA TraceAddressSplit ==
  ASSUME NEW a \in TraceAddress
  PROVE  /\ VaddrVpn(a) \in Page /\ VaddrOffset(a) \in Offset
         /\ \A b \in TraceAddress :
              VaddrVpn(a) = VaddrVpn(b) /\ VaddrOffset(a) = VaddrOffset(b) => a = b
BY AddressSplit, TraceAddressAssumption

LEMMA NoPage ==
  \A p \in Pid, v \in Page : p \notin running => PageOf(p, v) = ZeroPage
BY DEF PageOf

LEMMA InitImplements == Init => Flat!Init
<1>. SUFFICES ASSUME Init PROVE Flat!Init
  OBVIOUS
<1>1. \A p \in Pid, a \in TraceAddress : PageOf(p, VaddrVpn(a))[VaddrOffset(a)] = 0
  BY NoPage, TraceAddressSplit DEF Init, ZeroPage
<1>. QED BY <1>1 DEF Init, Flat!Init, Flat!Blank

(* START: the pages of the new process are zero, the others where           *)
(* free_frame() put them.                                                   *)
LEMMA StartImplements ==
  ASSUME IInv, NEW p \in Pid, Start(p)
  PROVE  Flat!Start(p)
<1>1. PICK f \in Victims :
        /\ FreeFrame(f)
        /\ table' = [FreedTable(f) EXCEPT ![f] = EmptyTable]
        /\ savedPtbr' = [savedPtbr EXCEPT ![p] = f]
  BY DEF Start, Saved
<1>2. p \notin running /\ running' = running \cup {p} /\ output' = NoAccess /\ UNCHANGED <<data, halted>>
  BY DEF Start
<1>3. \A q \in running', v \in Page :
        Entry(q, v)' = IF q = p THEN Absent(NoSwap) ELSE FreedEntry(f, q, v)
  BY <1>1, <1>2, StartEntries
<1>4. swapQueue' = FreedSwap(f) /\ f \in Frame
  BY <1>1, VictimFrame DEF FreeFrame
<1>5. ASSUME NEW q \in Pid, NEW v \in Page PROVE PageOf(q, v)' = PageOf(q, v)
  <2>1. q \in running' => PageOf(q, v)' = Contents(Entry(q, v)', swapQueue', data')
    BY DEF PageOf, Contents, Backing, Entry
  <2>2. CASE q = p
    BY <1>2, <1>3, <2>1, <2>2, NoPage DEF Contents, Backing, Absent
  <2>3. CASE q # p /\ q \in running
    BY <1>2, <1>3, <1>4, <2>1, <2>3, FreedContents
  <2>4. CASE q # p /\ q \notin running
    BY <1>2, <2>4 DEF PageOf
  <2>. QED BY <2>2, <2>3, <2>4
<1>6. Store' = Store
  BY <1>5, TraceAddressSplit DEF Store
<1>. QED BY <1>2, <1>6 DEF Flat!Start, Store

LEMMA StopImplements ==
  ASSUME IInv, NEW p \in Pid, Stop(p)
  PROVE  Flat!Stop(p)
<1>1. p \in running /\ running' = running \ {p} /\ output' = NoAccess /\ UNCHANGED <<data, halted>>
  BY DEF Stop
<1>2. ASSUME NEW q \in Pid \ {p}, NEW v \in Page PROVE PageOf(q, v)' = PageOf(q, v)
  <2>1. CASE q \in running
    <3>1. Entry(q, v)' = Entry(q, v) /\ q \in running'
      BY <1>1, <2>1, StopEffect
    <3>2. Entry(q, v).swap # NoSwap => swapQueue'[Entry(q, v).swap] = swapQueue[Entry(q, v).swap]
      <4>1. Entry(q, v).swap # NoSwap => Entry(q, v).swap \in DOMAIN swapQueue
        BY <2>1 DEF IInv, SwapExists, Entry
      <4>2. Entry(q, v).swap # NoSwap => \A w \in Page : Entry(p, w).swap # Entry(q, v).swap
        BY <1>1, <1>2, <2>1 DEF IInv, SwapOwned, Entry
      <4>. QED BY <4>1, <4>2, StopEffect
    <3>3. PageOf(q, v)' = Contents(Entry(q, v)', swapQueue', data')
      BY <3>1 DEF PageOf, Contents, Backing, Entry
    <3>. QED BY <1>1, <2>1, <3>1, <3>2, <3>3, PageIsContents DEF Contents, Backing
  <2>2. CASE q \notin running
    BY <1>1, <2>2 DEF PageOf
  <2>. QED BY <2>1, <2>2
<1>3. \A v \in Page : PageOf(p, v)' = ZeroPage
  BY <1>1 DEF PageOf
<1>4. Store' = [Store EXCEPT ![p] = Flat!Blank]
  <2>1. \A q \in Pid, a \in TraceAddress :
          PageOf(q, VaddrVpn(a))'[VaddrOffset(a)] =
            IF q = p THEN 0 ELSE PageOf(q, VaddrVpn(a))[VaddrOffset(a)]
    BY <1>2, <1>3, TraceAddressSplit DEF ZeroPage
  <2>. QED BY <2>1 DEF Store, Flat!Blank
<1>. QED BY <1>1, <1>4 DEF Flat!Stop, Store

(* An access, page fault and eviction included, changes one page, and only  *)
(* if it writes.                                                            *)
LEMMA AccessedPages ==
  ASSUME IInv, NEW p \in running, NEW a \in Address, NEW v \in Page, NEW o \in Offset,
         v = VaddrVpn(a), o = VaddrOffset(a), NEW rw \in {"r", "w"}, NEW byte \in Byte,
         Hit(p, a, rw, byte) \/ Fault(p, a, rw, byte), UNCHANGED <<savedPtbr, running>>
  PROVE  /\ \A q \in Pid, w \in Page :
              PageOf(q, w)' = IF q = p /\ w = v THEN Accessed(PageOf(p, v), o, rw, byte) ELSE PageOf(q, w)
         /\ output' = [pid |-> p, rw |-> rw, address |-> a, byte |-> Accessed(PageOf(p, v), o, rw, byte)[o]]
<1>1. \A q \in running, w \in Page : PageOf(q, w)' = Contents(Entry(q, w)', swapQueue', data')
  BY DEF PageOf, Contents, Backing, Entry
<1>2. \A q \in Pid \ running, w \in Page : PageOf(q, w)' = PageOf(q, w)
  BY DEF PageOf
<1>3. CASE Hit(p, a, rw, byte)
  <2>. DEFINE f == Entry(p, v).pfn
  <2>1. /\ Entry(p, v).valid /\ f \in Frame
        /\ \A q \in running, w \in Page :
             Entry(q, w)' = IF q = p /\ w = v
                            THEN [Entry(p, v) EXCEPT !.dirty = Entry(p, v).dirty \/ rw = "w"]
                            ELSE Entry(q, w)
        /\ \A g \in Frame : data'[g] = IF g = f THEN Accessed(data[g], o, rw, byte) ELSE data[g]
        /\ output' = [pid |-> p, rw |-> rw, address |-> a, byte |-> Accessed(data[f], o, rw, byte)[o]]
        /\ UNCHANGED swapQueue
    BY <1>3, HitEffect
  <2>2. PageOf(p, v) = data[f]
    BY <2>1, PageIsContents DEF Contents
  <2>3. ASSUME NEW q \in running, NEW w \in Page
        PROVE  PageOf(q, w)' = IF q = p /\ w = v THEN Accessed(PageOf(p, v), o, rw, byte) ELSE PageOf(q, w)
    <3>1. Entry(p, v) \in Pte /\ Entry(q, w) \in Pte
      BY ContentsType
    <3>2. CASE q = p /\ w = v
      <4>1. Entry(q, w)'.valid /\ Entry(q, w)'.pfn = f
        BY <2>1, <3>1, <3>2 DEF Pte
      <4>. QED BY <1>1, <2>1, <2>2, <3>2, <4>1 DEF Contents
    <3>3. CASE ~(q = p /\ w = v)
      <4>1. Entry(q, w)' = Entry(q, w)
        BY <2>1, <3>3
      <4>2. Entry(q, w).valid => Entry(q, w).pfn # f /\ Entry(q, w).pfn \in Frame
        BY <2>1, <3>1, <3>3 DEF IInv, EntriesHaveFrames, Pte
      <4>. QED BY <1>1, <2>1, <3>3, <4>1, <4>2, PageIsContents DEF Contents
    <3>. QED BY <3>2, <3>3
  <2>. QED BY <1>2, <2>1, <2>2, <2>3
<1>4. CASE Fault(p, a, rw, byte)
  <2>. DEFINE page == Accessed(PageOf(p, v), o, rw, byte)
  <2>1. PICK f \in Victims :
          /\ swapQueue' = FreedSwap(f)
          /\ \A q \in running, w \in Page :
               Entry(q, w)' = IF q = p /\ w = v
                              THEN [valid |-> TRUE, dirty |-> rw = "w", pfn |-> f, swap |-> Entry(p, v).swap]
                              ELSE FreedEntry(f, q, w)
          /\ \A g \in Frame : data'[g] = IF g = f THEN page ELSE data[g]
          /\ table' \in [Frame -> [Page -> Pte]]
          /\ output' = [pid |-> p, rw |-> rw, address |-> a, byte |-> page[o]]
    BY <1>4, FaultEffect
  <2>2. f \in Frame
    BY VictimFrame
  <2>. HIDE DEF page
  <2>3. ASSUME NEW q \in running, NEW w \in Page
        PROVE  PageOf(q, w)' = IF q = p /\ w = v THEN page ELSE PageOf(q, w)
    <3>1. CASE q = p /\ w = v
      BY <1>1, <2>1, <2>2, <3>1 DEF Contents
    <3>2. CASE ~(q = p /\ w = v)
      <4>1. Entry(q, w)' = FreedEntry(f, q, w)
        BY <2>1, <3>2
      <4>2. FreedEntry(f, q, w).valid => FreedEntry(f, q, w).pfn # f /\ FreedEntry(f, q, w).pfn \in Frame
        <5>1. FreedEntry(f, q, w) \in Pte
          BY <2>2, FreedEntries DEF IInv, TypeOK, FreedEntry
        <5>. QED BY <2>2, <5>1, FreedFrames DEF Pte
      <4>. QED BY <1>1, <2>1, <2>2, <3>2, <4>1, <4>2, FreedContents DEF Contents
    <3>. QED BY <3>1, <3>2
  <2>. QED BY <1>2, <2>1, <2>3 DEF page
<1>. QED BY <1>3, <1>4

LEMMA AccessImplements ==
  ASSUME IInv, NEW p \in Pid, NEW a \in TraceAddress, NEW rw \in {"r", "w"}, NEW byte \in Byte,
         Access(p, a, rw, byte)
  PROVE  (rw = "r" /\ Flat!Read(p, a)) \/ (rw = "w" /\ Flat!Write(p, a, byte))
<1>. DEFINE v == VaddrVpn(a)
            o == VaddrOffset(a)
<1>1. a \in Address /\ v \in Page /\ o \in Offset
  BY TraceAddressSplit, TraceAddressAssumption
<1>2. /\ p \in running /\ UNCHANGED <<running, savedPtbr, halted>>
      /\ Hit(p, a, rw, byte) \/ Fault(p, a, rw, byte)
  BY DEF Access
<1>3. /\ \A q \in Pid, w \in Page :
           PageOf(q, w)' = IF q = p /\ w = v THEN Accessed(PageOf(p, v), o, rw, byte) ELSE PageOf(q, w)
      /\ output' = [pid |-> p, rw |-> rw, address |-> a, byte |-> Accessed(PageOf(p, v), o, rw, byte)[o]]
  <2>1. PICK w, i : w = v /\ i = o
    OBVIOUS
  <2>. QED BY <1>1, <1>2, <2>1, AccessedPages
<1>4. PageOf(p, v) \in Content
  BY <1>1, <1>2, ContentsType
<1>5. \A i \in Offset : Accessed(PageOf(p, v), o, rw, byte)[i]
                          = IF rw # "r" /\ i = o THEN byte ELSE PageOf(p, v)[i]
  BY <1>1, <1>4, AccessedPage
<1>6. ASSUME NEW q \in Pid, NEW b \in TraceAddress
      PROVE  Store'[q][b] = IF rw = "w" /\ q = p /\ b = a THEN byte ELSE Store[q][b]
  <2>1. VaddrVpn(b) \in Page /\ VaddrOffset(b) \in Offset /\ (VaddrVpn(b) = v /\ VaddrOffset(b) = o => a = b)
    BY TraceAddressSplit
  <2>2. /\ Store'[q][b] = PageOf(q, VaddrVpn(b))'[VaddrOffset(b)]
        /\ Store[q][b] = PageOf(q, VaddrVpn(b))[VaddrOffset(b)]
    BY DEF Store
  <2>. QED BY <1>3, <1>5, <2>1, <2>2
<1>7. /\ Store' = [q \in Pid |-> [b \in TraceAddress |-> Store'[q][b]]]
      /\ Store = [q \in Pid |-> [b \in TraceAddress |-> Store[q][b]]]
  BY DEF Store
<1>8. CASE rw = "r"
  <2>1. Store' = Store
    BY <1>6, <1>7, <1>8
  <2>2. output' = Flat!Printed(p, "r", a, Store[p][a])
    BY <1>1, <1>3, <1>5, <1>8 DEF Store, Flat!Printed
  <2>. QED BY <1>2, <1>8, <2>1, <2>2 DEF Flat!Read, Store
<1>9. CASE rw = "w"
  <2>1. output' = Flat!Printed(p, "w", a, byte)
    BY <1>1, <1>3, <1>5, <1>9 DEF Flat!Printed
  <2>2. Store' = [Store EXCEPT ![p][a] = byte]
    BY <1>6, <1>7, <1>9
  <2>. QED BY <1>2, <1>9, <2>1, <2>2 DEF Flat!Write, Store
<1>. QED BY <1>8, <1>9

LEMMA NextImplements == IInv /\ [Next]_vars => [Flat!Next]_(Flat!vars)
<1>. SUFFICES ASSUME IInv, [Next]_vars PROVE Flat!Next \/ UNCHANGED Flat!vars
  OBVIOUS
<1>1. CASE OutOfMemory /\ ~halted
  <2>1. Store' = Store
    BY <1>1 DEF OutOfMemory, Store, PageOf
  <2>. QED BY <1>1, <2>1 DEF OutOfMemory, Flat!Next, Flat!OutOfMemory, Store
<1>2. CASE Next
  BY <1>1, <1>2, StartImplements, StopImplements, AccessImplements, Ranges
     DEF Next, Read, Write, Flat!Next
<1>3. CASE UNCHANGED vars
  BY <1>3 DEF vars, Flat!vars, PageOf
<1>. QED BY <1>2, <1>3

(* Demand paging with replacement and swapping, whatever the victims, is    *)
(* invisible: a process reads what it last wrote, or zero.                  *)
THEOREM PagingImplementsFlatMemory == ASSUME ~RestartCurrent PROVE Spec => ImplementsFlatMemory
BY InvariantHolds, InitImplements, NextImplements, PTL DEF Spec, ImplementsFlatMemory, Flat!Spec
=============================================================================
