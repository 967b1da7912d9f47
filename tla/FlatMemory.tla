------------------------------ MODULE FlatMemory ------------------------------
(***************************************************************************)
(* What virtual_memory_simulator promises to the processes of a trace:     *)
(* each running process has an address space of its own, zero when the     *)
(* process starts, in which a read returns the last byte written.  There   *)
(* are no frames, no page tables, no swap space and no page faults.        *)
(*                                                                         *)
(* The only other thing that may happen is that memory runs out, which     *)
(* ends the simulation.                                                    *)
(***************************************************************************)

CONSTANTS Pid,    \* process identifiers
          Addr,   \* virtual addresses
          Byte,   \* what a byte may hold
          Zero,   \* the byte 0
          NoAccess  \* what is printed of a line that is no access

VARIABLES running,  \* the processes started and not stopped
          store,    \* store[p][a]: the byte at address a of process p
          output,   \* the last access, with the byte read or written, as printed
          halted    \* has memory run out?

vars == <<running, store, output, halted>>

Blank == [a \in Addr |-> Zero]

Init == /\ running = {}
        /\ store = [p \in Pid |-> Blank]
        /\ output = NoAccess
        /\ halted = FALSE

Start(p) == /\ p \notin running
            /\ running' = running \cup {p}
            /\ output' = NoAccess
            /\ UNCHANGED <<store, halted>>

(* The address space disappears with its process.                           *)
Stop(p) == /\ p \in running
           /\ running' = running \ {p}
           /\ store' = [store EXCEPT ![p] = Blank]
           /\ output' = NoAccess
           /\ UNCHANGED halted

Printed(p, rw, a, byte) == [pid |-> p, rw |-> rw, address |-> a, byte |-> byte]

(* A read of p's byte at a returns what p's store holds at a ...            *)
Read(p, a) == /\ p \in running
              /\ output' = Printed(p, "r", a, store[p][a])
              /\ UNCHANGED <<running, store, halted>>

(* ... and a write changes that byte and no other.                          *)
Write(p, a, byte) == /\ p \in running
                     /\ output' = Printed(p, "w", a, byte)
                     /\ store' = [store EXCEPT ![p][a] = byte]
                     /\ UNCHANGED <<running, halted>>

OutOfMemory == halted' = TRUE /\ UNCHANGED <<running, store, output>>

Next == /\ ~halted
        /\ \/ \E p \in Pid : Start(p) \/ Stop(p)
           \/ \E p \in Pid, a \in Addr : Read(p, a) \/ \E byte \in Byte : Write(p, a, byte)
           \/ OutOfMemory

Spec == Init /\ [][Next]_vars
=============================================================================
