------------------------------ MODULE MCPaging ------------------------------
(***************************************************************************)
(* Tables of Paging for TLC.  MCStored: packets of several rows at two     *)
(* sites, some in one millisecond, more than a scan of the smaller depth   *)
(* reads; the rows 4 to 6 are deleted.  MCCrowd: the last packet was heard *)
(* by 17 observers of a site, one more than a scan reads for a page of one *)
(* packet, and the packet before by one other.                             *)
(***************************************************************************)
EXTENDS Paging

MCRow(i, p, o, s, t) == [id |-> i, packet |-> p, observer |-> o, site |-> s, heard |-> t]

MCStored == {
  MCRow(1, "q", 1, "A", 4), MCRow(2, "r", 1, "B", 3), MCRow(3, "q", 2, "A", 5),
  MCRow(7, "p", 1, "A", 6), MCRow(8, "p", 2, "A", 6), MCRow(9, "p", 3, "A", 7)}

MCCrowd == {MCRow(1, "q", 1, "A", 1)} \cup {MCRow(i, "p", i, "A", i) : i \in 2..18}
=============================================================================
