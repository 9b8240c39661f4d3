------------------------------- MODULE MCHeap -------------------------------
(* Model checking of Heap, scaled: headers of 8 bytes for 32, ROUND_NUM 2   *)
(* for 10, pages of 32 bytes for 4096.                                     *)
EXTENDS Heap

CONSTANTS kernel_main, other_task

OneCaller  == {kernel_main}
TwoCallers == {kernel_main, other_task}

SmallSizes == 1..6
OneSize    == {4}
BigSizes   == {100, 200}   \* below and above what is mapped
HugeSizes  == {400}        \* more than the whole heap
=============================================================================
