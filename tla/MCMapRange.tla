---------------------------- MODULE MCMapRange ----------------------------
(***************************************************************************)
(* MapRange on requests with lengths around multiples of the page size,    *)
(* from bases whose sums carry into the next table's index (2 MiB).  The   *)
(* permissions are R, RW, RWX, W alone, and execute-disable with the       *)
(* state flags.                                                            *)
(***************************************************************************)
EXTENDS MapRange

MCRequests ==
  [guest_base : {0, PageSize, 511 * PageSize},
   host_base  : {0, 9 * PageSize, 1023 * PageSize},
   len        : {0, 1, PageSize - 1, PageSize, PageSize + 1, 3 * PageSize, 4 * PageSize + 7},
   perms      : {{P}, {P, W}, {P, W, X}, {W}, {P, Accessed, Dirty, 63}}]
===========================================================================
