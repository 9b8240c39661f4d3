------------------------------ MODULE MCPaging ------------------------------
(***************************************************************************)
(* Model checking of Paging with three entries for 512 in a table: 81      *)
(* pages, of which the loader maps 0..17 to frames 0..17 with huge pages   *)
(* and one page of the kernel.  Frames 15..17 are a device.                *)
(***************************************************************************)
EXTENDS Paging

Absent   == [present |-> FALSE, huge_page |-> FALSE, frame |-> 0]
Huge(f)  == [present |-> TRUE, huge_page |-> TRUE, frame |-> f]
Table(a, b, c) == [i \in Index |-> CASE i = 0 -> a [] i = 1 -> b [] i = 2 -> c]

MCFrames == 0..17

MCBootTables ==
  [t \in 0..6 |->
     CASE t = 0 -> Table(Points(1), Absent, Points(4))
       [] t = 1 -> Table(Points(2), Points(3), Absent)
       [] t = 2 -> Table(Huge(0), Huge(3), Huge(6))
       [] t = 3 -> Table(Huge(9), Huge(12), Huge(15))
       [] t = 4 -> Table(Absent, Points(5), Absent)
       [] t = 5 -> Table(Points(6), Absent, Absent)
       [] t = 6 -> Table(Points(7), Absent, Absent)]

MCBootFree == 8..13

(* Pages of the heap; a page of the next table, one below an absent entry  *)
(* of the top table, and one of the device.                                *)
HeapPages   == {76, 77, 78}
MCMapPages  == {78, 30, 15}
MCUnmap     == {76, 78, 15}
DevicePages == {16}
KernelPages == {63}   \* never unmapped
NoPages     == {}
=============================================================================
