------------------------------- MODULE MCPaging -------------------------------
(* Paging for TLC: the process identifiers are never compared but for       *)
(* equality, so they may be permuted.                                       *)
EXTENDS PagingSwap, TLC

CONSTANTS p1, p2, p3

PidSymmetry == Permutations({p1, p2, p3})
=============================================================================
