-------------------------------- MODULE Paging --------------------------------
(***************************************************************************)
(* The virtual memory simulator (virtual_memory_simulator): a frame table, *)
(* one page table per process in a frame of its own, demand paging with    *)
(* random replacement, and a swap space.  The program is sequential: one   *)
(* line of the trace -- START, STOP or an access -- is one action, which   *)
(* includes the page fault, the eviction and the write-back it may cause.  *)
(*                                                                         *)
(* A frame is a page table or a page of data; each of its two uses has its *)
(* own variable.  pfn and dirty of an invalid page table entry, which the  *)
(* code leaves as they were and page_fault() overwrites, are kept cleared. *)
(* The referenced bits (written, never read) and the statistics are left   *)
(* out.                                                                    *)
(***************************************************************************)
EXTENDS Naturals, FiniteSets

CONSTANTS
  Pid,             \* process identifiers (indices of procs[])
  NumFrames,       \* NUM_FRAMES
  NumPages,        \* NUM_PAGES
  PageSize,        \* PAGE_SIZE
  NumBytes,        \* a byte holds 0 .. NumBytes - 1
  Replacements,    \* the -r options chosen from: "random", "clocksweep"
  RestartCurrent,  \* may a trace restart the process that ran last?
  TraceAddress,    \* bound: the addresses that traces access
  MaxToken         \* bound: the swap entries created in a behaviour

ASSUME PagingAssumption ==
  /\ 0 \notin Pid
  /\ NumFrames \in Nat /\ NumFrames > 1
  /\ NumPages \in Nat \ {0}
  /\ PageSize \in Nat \ {0}
  /\ NumBytes \in Nat \ {0}
  /\ Replacements \subseteq {"random", "clocksweep"}
  /\ RestartCurrent \in BOOLEAN
  /\ MaxToken \in Nat

Frame == 0 .. NumFrames - 1
Page == 0 .. NumPages - 1
Offset == 0 .. PageSize - 1
Byte == 0 .. NumBytes - 1
Address == 0 .. NumPages * PageSize - 1

ASSUME TraceAddressAssumption == TraceAddress \subseteq Address

NoPid == 0   \* the NULL process
NoSwap == 0  \* pte->swap of a page without a swap entry

(* A page of data, a page table entry and a frame table entry.              *)
Content == [Offset -> Byte]
Pte == [valid : BOOLEAN, dirty : BOOLEAN, pfn : Frame, swap : Nat]
Fte == [protected : BOOLEAN, mapped : BOOLEAN, process : Pid \cup {NoPid}, vpn : Page]

ZeroPage == [o \in Offset |-> 0]
Absent(swap) == [valid |-> FALSE, dirty |-> FALSE, pfn |-> 0, swap |-> swap]
EmptyTable == [v \in Page |-> Absent(NoSwap)]
FreeFte == [protected |-> FALSE, mapped |-> FALSE, process |-> NoPid, vpn |-> 0]
TableFte == [FreeFte EXCEPT !.protected = TRUE]

(* The printed line of an access: pid, rw, address, and the byte that       *)
(* mem_access() returned; START and STOP print none.                        *)
Line == [pid : Pid \cup {NoPid}, rw : {"r", "w"}, address : Address, byte : Byte]
NoAccess == [pid |-> NoPid, rw |-> "r", address |-> 0, byte |-> 0]

VARIABLES
  replacement,  \* the replacement algorithm; it never changes
  frameTable,   \* frame_table[f]
  table,        \* table[f]: frame f used as a page table
  data,         \* data[f]: frame f used as a page of data
  swapQueue,    \* the swap entries: from tokens to page contents
  token,        \* TOKEN, the next token
  running,      \* the processes in state PROC_RUNNING
  savedPtbr,    \* procs[pid].saved_ptbr
  ptbr,         \* PTBR
  current,      \* current_process->pid
  output,       \* what is printed of the last line, "for trace verification"
  halted        \* has the simulator panicked?

vars == <<replacement, frameTable, table, data, swapQueue, token, running, savedPtbr, ptbr, current, output, halted>>

TypeOK == /\ replacement \in Replacements
          /\ frameTable \in [Frame -> Fte]
          /\ table \in [Frame -> [Page -> Pte]]
          /\ data \in [Frame -> Content]
          /\ \A t \in DOMAIN swapQueue : t \in Nat /\ swapQueue[t] \in Content
          /\ token \in 1 .. MaxToken + 1
          /\ running \subseteq Pid
          /\ savedPtbr \in [Pid -> Frame]
          /\ ptbr \in Frame
          /\ current \in Pid \cup {NoPid}
          /\ output \in Line
          /\ halted \in BOOLEAN

(* The command line, and system_init().                                     *)
Init == /\ replacement \in Replacements
        /\ frameTable = [f \in Frame |-> IF f = 0 THEN TableFte ELSE FreeFte]
        /\ table = [f \in Frame |-> EmptyTable]
        /\ data = [f \in Frame |-> ZeroPage]
        /\ swapQueue = [t \in {} |-> ZeroPage]
        /\ token = 1
        /\ running = {}
        /\ savedPtbr = [p \in Pid |-> 0]
        /\ ptbr = 0
        /\ current = NoPid
        /\ output = NoAccess
        /\ halted = FALSE

-----------------------------------------------------------------------------
(* page_splitting.h                                                         *)

VaddrVpn(address) == address \div PageSize
VaddrOffset(address) == address % PageSize

-----------------------------------------------------------------------------
(* page_replacement.c                                                       *)

Unprotected == {f \in Frame : ~frameTable[f].protected}
Unused == {f \in Unprotected : ~frameTable[f].mapped}

(* select_victim_frame(): the first free frame; failing that, any frame     *)
(* that is not protected, as the random numbers have it; none at all makes  *)
(* the simulator panic.                                                     *)
Victims == IF Unused # {} THEN {CHOOSE f \in Unused : \A g \in Unused : f <= g}
           ELSE IF replacement = "random" THEN Unprotected ELSE {}

(* free_frame(): the page of victim f, if it holds one, goes to the swap    *)
(* space when it is dirty, under its old token or a new one.                *)
VictimTable(f) == savedPtbr[frameTable[f].process]
VictimPte(f) == table[VictimTable(f)][frameTable[f].vpn]

WritesBack(f) == frameTable[f].mapped /\ VictimPte(f).dirty

(* Variant, for mutation: a new swap entry for every write-back.            *)
NeedsTokenAlways(f) == WritesBack(f)

NeedsToken(f) == WritesBack(f) /\ VictimPte(f).swap = NoSwap
SwapToken(f) == IF NeedsToken(f) THEN token ELSE VictimPte(f).swap

FreedToken(f) == IF NeedsToken(f) THEN token + 1 ELSE token

FreedSwap(f) ==
  IF WritesBack(f)
  THEN [t \in DOMAIN swapQueue \cup {SwapToken(f)} |->
          IF t = SwapToken(f) THEN data[f] ELSE swapQueue[t]]
  ELSE swapQueue

(* Variant, for mutation: the entry stays valid.                            *)
InvalidatedNot(pte, swap) == [pte EXCEPT !.swap = swap]

Invalidated(pte, swap) == Absent(swap)

(* ... and its page table entry becomes invalid.                            *)
FreedTable(f) ==
  IF frameTable[f].mapped
  THEN [table EXCEPT ![VictimTable(f)][frameTable[f].vpn] = Invalidated(@, SwapToken(f))]
  ELSE table

(* free_frame() applied to f; the token bound keeps behaviours finite.      *)
FreeFrame(f) == /\ FreedToken(f) <= MaxToken + 1
                /\ token' = FreedToken(f)
                /\ swapQueue' = FreedSwap(f)

-----------------------------------------------------------------------------
(* paging.c, page_fault.c and the trace loop of pagesim.c                   *)

(* Variant, for mutation: the address of the page table, not its frame.     *)
SavedAddress(f) == f * PageSize

Saved(f) == f

(* START pid: proc_init() takes a frame for the page table.                 *)
Start(p) ==
  /\ p \notin running
  /\ p = current => RestartCurrent
  /\ \E f \in Victims :
       /\ FreeFrame(f)
       /\ table' = [FreedTable(f) EXCEPT ![f] = EmptyTable]
       /\ frameTable' = [frameTable EXCEPT ![f] = TableFte]
       /\ savedPtbr' = [savedPtbr EXCEPT ![p] = Saved(f)]
  /\ running' = running \cup {p}
  /\ output' = NoAccess
  /\ UNCHANGED <<replacement, data, ptbr, current, halted>>

(* STOP pid: proc_cleanup() frees the pages, the swap entries and the page  *)
(* table; PTBR and current_process stay as they are.                        *)
Stop(p) ==
  LET pages == table[savedPtbr[p]]
      frames == {pages[v].pfn : v \in {w \in Page : pages[w].valid}} \cup {savedPtbr[p]}
      tokens == {pages[v].swap : v \in Page}
  IN /\ p \in running
     /\ frameTable' = [f \in Frame |-> IF f \in frames THEN FreeFte ELSE frameTable[f]]
     /\ table' = [table EXCEPT ![savedPtbr[p]] = EmptyTable]
     /\ swapQueue' = [t \in DOMAIN swapQueue \ tokens |-> swapQueue[t]]
     /\ savedPtbr' = [savedPtbr EXCEPT ![p] = 0]
     /\ running' = running \ {p}
     /\ output' = NoAccess
     /\ UNCHANGED <<replacement, data, token, ptbr, current, halted>>

(* Variant, for mutation: only the first access switches.                   *)
SwitchedPtbrOnce(p) == IF current = NoPid THEN savedPtbr[p] ELSE ptbr

(* The trace loop switches to p's page table only if another process ran    *)
(* last: the page table mem_access() will use.                              *)
SwitchedPtbr(p) == IF current # p THEN savedPtbr[p] ELSE ptbr

(* mem_access() on the page: it stores a byte when rw is "w".               *)
Accessed(page, offset, rw, byte) ==
  IF rw = "r" THEN page ELSE [page EXCEPT ![offset] = byte]

(* ... and returns what the byte then is.                                   *)
Printed(p, rw, address, page) ==
  [pid |-> p, rw |-> rw, address |-> address, byte |-> page[VaddrOffset(address)]]

(* The page is in a frame.                                                  *)
Hit(p, address, rw, byte) ==
  LET base == SwitchedPtbr(p)
      vpn == VaddrVpn(address)
      pte == table[base][vpn]
      page == Accessed(data[pte.pfn], VaddrOffset(address), rw, byte)
  IN /\ pte.valid
     /\ data' = [data EXCEPT ![pte.pfn] = page]
     /\ table' = [table EXCEPT ![base][vpn].dirty = @ \/ rw = "w"]
     /\ output' = Printed(p, rw, address, page)
     /\ UNCHANGED <<frameTable, swapQueue, token>>

(* Variant of Loaded, for mutation: the frame of a new page keeps its bytes. *)
LoadedNoMemset(f, swap) == IF swap # NoSwap THEN FreedSwap(f)[swap] ELSE data[f]

(* page_fault() fills frame f from the swap space or with zeros.            *)
Loaded(f, swap) == IF swap # NoSwap THEN FreedSwap(f)[swap] ELSE ZeroPage

(* page_fault(): a frame is freed, mapped and filled; then the access is    *)
(* done.                                                                    *)
Fault(p, address, rw, byte) ==
  LET base == SwitchedPtbr(p)
      vpn == VaddrVpn(address)
      swap(f) == FreedTable(f)[base][vpn].swap
      page(f) == Accessed(Loaded(f, swap(f)), VaddrOffset(address), rw, byte)
  IN /\ ~table[base][vpn].valid
     /\ \E f \in Victims :
          /\ FreeFrame(f)
          /\ table' = [FreedTable(f) EXCEPT ![base][vpn] =
                         [valid |-> TRUE, dirty |-> rw = "w", pfn |-> f, swap |-> swap(f)]]
          /\ frameTable' = [frameTable EXCEPT ![f] =
                              [protected |-> FALSE, mapped |-> TRUE, process |-> p, vpn |-> vpn]]
          /\ data' = [data EXCEPT ![f] = page(f)]
          /\ output' = Printed(p, rw, address, page(f))

(* "pid rw address data": switch to pid if another process ran last, then   *)
(* mem_access().                                                            *)
Access(p, address, rw, byte) ==
  /\ p \in running
  /\ Hit(p, address, rw, byte) \/ Fault(p, address, rw, byte)
  /\ ptbr' = SwitchedPtbr(p)
  /\ current' = p
  /\ UNCHANGED <<replacement, running, savedPtbr, halted>>

Read(p, address) == Access(p, address, "r", 0)
Write(p, address, byte) == Access(p, address, "w", byte)

(* panic("System ran out of memory"): START or a page fault needs a frame   *)
(* and none can be freed.                                                   *)
OutOfMemory ==
  /\ Victims = {}
  /\ \/ \E p \in Pid \ running : p = current => RestartCurrent
     \/ \E p \in running, a \in TraceAddress : ~table[SwitchedPtbr(p)][VaddrVpn(a)].valid
  /\ halted' = TRUE
  /\ UNCHANGED <<replacement, frameTable, table, data, swapQueue, token, running, savedPtbr,
                 ptbr, current, output>>

Next == /\ ~halted
        /\ \/ \E p \in Pid : Start(p) \/ Stop(p)
           \/ \E p \in Pid, a \in TraceAddress : Read(p, a) \/ \E byte \in Byte : Write(p, a, byte)
           \/ OutOfMemory

Spec == Init /\ [][Next]_vars

-----------------------------------------------------------------------------
(* Properties                                                               *)

(* check_validity(): what the simulator checks under -c after every line of *)
(* the trace, panicking at the first disagreement.  Every running process   *)
(* has a protected page table, and nothing else but frame 0 is protected;   *)
PageTables == {savedPtbr[p] : p \in running}

PageTablesProtected ==
  /\ \A p \in running : savedPtbr[p] > 0 /\ frameTable[savedPtbr[p]].protected
  /\ \A f \in Frame : frameTable[f].protected => f \in {0} \cup PageTables

(* a valid page table entry leads to a frame, no other entry's, that names  *)
(* its process and its page; its swap entry exists;                         *)
Mapped == {pv \in running \X Page : table[savedPtbr[pv[1]]][pv[2]].valid}
MappedFrame(pv) == table[savedPtbr[pv[1]]][pv[2]].pfn

PteValid(pv) ==
  LET f == MappedFrame(pv)
  IN /\ f > 0 /\ f \notin PageTables
     /\ \A other \in Mapped \ {pv} : MappedFrame(other) # f
     /\ frameTable[f].mapped /\ frameTable[f].process = pv[1] /\ frameTable[f].vpn = pv[2]

SwapExists == \A p \in running, v \in Page :
                table[savedPtbr[p]][v].swap \in DOMAIN swapQueue \cup {NoSwap}

(* and every mapped frame is some entry's.                                  *)
MappedAccounted == \A f \in Frame : ~frameTable[f].protected /\ frameTable[f].mapped
                                       => \E pv \in Mapped : MappedFrame(pv) = f

CheckValidity == /\ frameTable[0].protected
                 /\ PageTablesProtected
                 /\ \A pv \in Mapped : PteValid(pv)
                 /\ SwapExists
                 /\ MappedAccounted

(* Every swap entry belongs to exactly one page of one running process:     *)
(* nothing is leaked and no two pages share swap space (swap_free() in      *)
(* proc_cleanup(), and "Swap Not Freed" at the end of main()).              *)
SwapOwned ==
  /\ \A t \in DOMAIN swapQueue :
       \E p \in running, v \in Page : table[savedPtbr[p]][v].swap = t
  /\ \A p, q \in running, v, w \in Page :
       /\ table[savedPtbr[p]][v].swap = table[savedPtbr[q]][w].swap
       /\ table[savedPtbr[p]][v].swap # NoSwap
       => p = q /\ v = w

(* A page that is in memory and not dirty is what a page fault would load   *)
(* in its place: free_frame() may drop it without a write-back.             *)
CleanPagesMatchSwap ==
  \A p \in running, v \in Page :
    LET pte == table[savedPtbr[p]][v]
    IN pte.valid /\ ~pte.dirty =>
         data[pte.pfn] = IF pte.swap # NoSwap THEN swapQueue[pte.swap] ELSE ZeroPage

(* PTBR is the page table of the process that ran last, if it still runs:   *)
(* the switch that the trace loop skips was not needed.                     *)
PtbrFollowsCurrent == current \in running => ptbr = savedPtbr[current]

(* "Every frame is protected, so the simulated system is out of memory"     *)
(* (page_replacement.c:68).                                                 *)
OutOfMemoryMeansProtected == halted => \A f \in Frame : frameTable[f].protected

(* The page of process p, wherever it is.                                   *)
PageOf(p, v) ==
  LET pte == table[savedPtbr[p]][v]
  IN CASE p \notin running -> ZeroPage
       [] p \in running /\ pte.valid -> data[pte.pfn]
       [] p \in running /\ ~pte.valid /\ pte.swap # NoSwap -> swapQueue[pte.swap]
       [] OTHER -> ZeroPage

Flat == INSTANCE FlatMemory WITH
          Addr <- TraceAddress, Zero <- 0,
          NoAccess <- NoAccess,
          store <- [p \in Pid |-> [a \in TraceAddress |-> PageOf(p, VaddrVpn(a))[VaddrOffset(a)]]]

(* Whatever is evicted, written back, and loaded again, the byte printed    *)
(* for a read is the one that this process last wrote to this address, or   *)
(* zero: never a byte of another address, of another process or of an       *)
(* earlier use of the frame.                                                *)
ImplementsFlatMemory == Flat!Spec
=============================================================================
