--------------------------------- MODULE MCVmm ---------------------------------
(* Tables of three entries and a memory of ten pages, of which the kernel    *)
(* and the bitmap leave five, page 0 among them.                             *)
EXTENDS Vmm

Maps == {<<[addr |-> 0, len |-> 40, available |-> TRUE]>>}
MbEnds == {0}

\* Mapped at boot, and lacking one, two or all three of the tables below the PML4
Addresses ==
  {<<0, 0, 0, 0>>, <<0, 1, 1, 0>>, <<0, 1, 0, 0>>,
   <<0, 2, 0, 0>>, <<1, 0, 0, 0>>, <<1, 0, 1, 0>>, <<1, 1, 1, 1>>}
================================================================================
