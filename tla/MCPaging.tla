------------------------------ MODULE MCPaging -----------------------------
EXTENDS Paging, TLC

Symmetry == Permutations(Proc)
============================================================================
