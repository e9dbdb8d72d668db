----------------------------- MODULE MCKernelMemory ----------------------------
(* Small memories for KernelMemory: pages of 4 units, 4 pages to a byte of   *)
(* the bitmap, at most 12 pages; the kernel occupies page 4 and half of 5.   *)
EXTENDS KernelMemory

Avail(a, n) == [addr |-> a, len |-> n, available |-> TRUE]
Reserved(a, n) == [addr |-> a, len |-> n, available |-> FALSE]

\* As on a PC: low memory that ends inside a page, a reserved hole, main memory
\* that goes past the limit, and a region above 4 GB.
PcMap == <<Avail(0, 10), Reserved(10, 6), Avail(16, 40), Avail(120, 20)>>

\* The last byte of the bitmap has padding bits and the memory ends inside a page.
OddMap == <<Avail(0, 9), Avail(16, 27)>>

\* Regions that overlap
OverlapMap == <<Avail(0, 20), Avail(12, 32)>>

\* A region inside one byte of the bitmap, behind a reserved page of that byte
HoleMap == <<Avail(4, 4), Avail(16, 16), Reserved(32, 4), Avail(36, 8)>>

Maps == {<<>>, PcMap, OddMap, OverlapMap, HoleMap}
JustPcMap == {PcMap}
MbEnds == {12, 26}
================================================================================
