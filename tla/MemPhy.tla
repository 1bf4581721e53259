------------------------------- MODULE MemPhy ------------------------------
(***************************************************************************)
(* mm-memphy.c: a device of frames, its storage and its list of free       *)
(* frames.  The order of the list tells nothing apart, so it is the number *)
(* of nodes it has for each frame: a frame freed twice has two.  A frame   *)
(* has one cell.  The mutex of the device makes each call one step.        *)
(***************************************************************************)
EXTENDS Integers

\* init_memphy() with n frames.
Frames(n) == 0 .. n - 1

MEMPHY_format(n) == [f \in Frames(n) |-> 1]

\* MEMPHY_get_freefp() can return f, and what it leaves behind.
IsFree(free, f) == free[f] > 0

MEMPHY_get_freefp(free, f) == [free EXCEPT ![f] = @ - 1]

\* What MEMPHY_put_freefp() leaves behind.
MEMPHY_put_freefp(free, f) == [free EXCEPT ![f] = @ + 1]

\* MEMPHY_read() and MEMPHY_write() fail beyond the end of the device.
InDevice(storage, f) == f \in DOMAIN storage

MEMPHY_write(storage, f, v) == [storage EXCEPT ![f] = v]

\* What __swap_cp_page() leaves in the destination.
__swap_cp_page(src, f, dst, s) == MEMPHY_write(dst, s, src[f])
============================================================================
