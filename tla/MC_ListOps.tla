----------------------------- MODULE MC_ListOps -----------------------------
(* Model-checking instance of ListOps: three nodes, arrays of up to two   *)
(* TADs of extent one or two, indices from -1 to 2, a graph list of       *)
(* height two.  Index -1 reaches the failed write, 2 the BAD_ARGUMENTS    *)
(* return of scatter_list, extent two the unequal slots of gather_list.   *)
EXTENDS ListOps

MCMaxNodes == 3
MCMaxRows == 2
MCMaxExtent == 2
MCIndexValues == -1..2
MCListHeight == 2
=============================================================================
