------------------------------ MODULE MCPhysMem ------------------------------
(* Model checking of PhysMem on scaled machines.                           *)
EXTENDS PhysMem

Region(b, n, t) == [base_addr |-> b, length |-> n, type |-> t]

(* As on `make run` (-m 256): conventional memory, main memory from 1 MB,  *)
(* a reserved tail; the bitmap fills more than one page.  Also with a      *)
(* bitmap of exactly one page, and with the longest entry listed last.     *)
SmallMachines ==
  { <<Region(0, 3, 1), Region(3, 5, 2), Region(8, 49, 1), Region(57, 3, 2)>>,
    <<Region(0, 3, 1), Region(3, 5, 2), Region(8, 30, 1), Region(38, 17, 2)>>,
    <<Region(0, 4, 1), Region(4, 4, 3), Region(8, 45, 1)>> }

(* As with -m 128: the bitmap is smaller than a page.                      *)
BitmapUnderOnePage == { <<Region(0, 3, 1), Region(3, 5, 2), Region(8, 95, 1)>> }

(* As with 5 GB: a reserved hole below the memory above 4 GB.              *)
HoleBelowHighMemory ==
  { <<Region(0, 3, 1), Region(8, 33, 1), Region(41, 19, 2), Region(60, 16, 1)>> }

KernelOnly    == {16}      \* kernel and modules fit below the second megabyte
WithBigModule == {16, 20}
=============================================================================
