------------------------------ MODULE MCZigMemory ------------------------------
(* Eight pages of four units, of which the kernel takes two.                 *)
EXTENDS ZigMemory

Avail(a, n) == [base_addr |-> a, length |-> n, available |-> TRUE]
Reserved(a, n) == [base_addr |-> a, length |-> n, available |-> FALSE]

\* As on a PC, past MAX_PAGES; regions that overlap and begin and end inside
\* pages; nothing above low memory
Maps == {<<Avail(0, 6), Reserved(6, 2), Avail(8, 40)>>,
         <<Avail(0, 18), Avail(14, 13)>>,
         <<Avail(0, 8)>>}
================================================================================
