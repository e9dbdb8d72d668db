--------------------------- MODULE KernelMemoryProofs ---------------------------
(***************************************************************************)
(* Proofs about the memory of the C kernel, for any memory map, any size   *)
(* of memory, pages, tables and heap.  KernelMemory: the page allocator    *)
(* keeps the kernel, counts the pages in use and knows the owner of each,  *)
(* and the blocks of the heap are disjoint and clear of the kernel.  The   *)
(* loop over the memory map keeps the count whatever regions it is given:  *)
(* the induction is FoldLemmas' FoldIn.  Vmm, from Entries on: the page    *)
(* tables are a tree of two layers that owns its pages, and a call moves   *)
(* no other address.                                                       *)
(***************************************************************************)
EXTENDS KernelMemory, Vmm, FoldLemmas, SequenceTheorems

--------------------------------------------------------------------------------
(* What the code's divisions give, for any divisor. *)
LEMMA DivIn ==
  ASSUME NEW a \in Nat, NEW d \in Nat \ {0}
  PROVE  /\ a \div d \in Nat
         /\ (a \div d) * d <= a
         /\ a < (a \div d) * d + d
<1>1. a \div d \in Nat
  OBVIOUS
<1>2. a = d * (a \div d) + (a % d)
  OBVIOUS
<1>3. a % d \in 0 .. d - 1
  OBVIOUS
<1>4. d * (a \div d) = (a \div d) * d
  BY <1>1
<1> QED BY <1>1, <1>2, <1>3, <1>4

LEMMA DivMonotone ==
  ASSUME NEW a \in Nat, NEW b \in Nat, a <= b, NEW d \in Nat \ {0}
  PROVE  a \div d <= b \div d
<1> DEFINE p == a \div d
           q == b \div d
<1>1. p \in Nat /\ p * d <= a /\ q \in Nat /\ b < q * d + d
  BY DivIn
<1> HIDE DEF p, q
<1> SUFFICES ASSUME q < p PROVE FALSE
  BY <1>1 DEF p, q
<1>2. (q + 1) * d <= p * d /\ (q + 1) * d = q * d + d /\ q * d \in Nat /\ p * d \in Nat
  BY <1>1
<1> QED BY <1>1, <1>2

LEMMA ModTimes ==
  ASSUME NEW k \in Nat, NEW d \in Nat \ {0}
  PROVE  (k * d) % d = 0
  OBVIOUS

(* The highest end of a region of a memory map is a natural number: what     *)
(* parse_multiboot_mmap looks for exists.                                    *)
LEMMA HighestEnd ==
  ASSUME NEW m \in Seq(Entry), NEW E \in SUBSET {e.addr + e.len : e \in ToSet(m)}
  PROVE  Max({0} \cup E) \in Nat
<1> DEFINE f == [i \in DOMAIN m |-> m[i].addr + m[i].len]
           R == {e.addr + e.len : e \in ToSet(m)}
<1>1. DOMAIN m = 1 .. Len(m) /\ Len(m) \in Nat /\ \A i \in DOMAIN m : m[i] \in Entry
  OBVIOUS
<1>2. IsFiniteSet(DOMAIN m)
  BY <1>1, FS_Interval
<1>3. R \subseteq Nat
  BY <1>1 DEF ToSet, Entry
<1>4. f \in Surjection(DOMAIN m, R)
  BY DEF Surjection, ToSet
<1>5. IsFiniteSet(R)
  <2> HIDE DEF f, R
  <2> QED BY <1>2, <1>4, FS_Surjection
<1>6. IsFiniteSet({0} \cup E)
  <2>1. IsFiniteSet(E)
    BY <1>5, FS_Subset
  <2>2. IsFiniteSet(E \cup {0})
    BY <2>1, FS_AddElement
  <2>3. {0} \cup E = E \cup {0}
    OBVIOUS
  <2> QED BY <2>2, <2>3
<1>7. {0} \cup E \in SUBSET Nat
  BY <1>3
<1> HIDE DEF R, f
<1> QED BY <1>6, <1>7, MaxIn

(* The larger and the smaller of two numbers. *)
LEMMA PairIn ==
  ASSUME NEW a \in Nat, NEW b \in Nat
  PROVE  /\ Max({a, b}) \in Nat /\ Max({a, b}) >= a /\ Max({a, b}) >= b
         /\ Min({a, b}) \in Nat
<1>1. IsFiniteSet({a, b})
  <2>1. IsFiniteSet({a})
    BY FS_Singleton
  <2>2. IsFiniteSet({a} \cup {b})
    BY <2>1, FS_AddElement
  <2>3. {a} \cup {b} = {a, b}
    OBVIOUS
  <2> QED BY <2>2, <2>3
<1>2. {a, b} \in SUBSET Nat /\ {a, b} # {}
  OBVIOUS
<1>3. Max({a, b}) \in {a, b} /\ \A y \in {a, b} : y <= Max({a, b})
  BY <1>1, <1>2, MaxIn
<1>4. Min({a, b}) \in {a, b}
  BY <1>2, MinIn
<1> QED BY <1>3, <1>4

(* PAGE_ALIGN goes to a whole page at or behind the address. *)
LEMMA RoundUpIn ==
  ASSUME NEW a \in Nat
  PROVE  /\ RoundUp(a) \in Nat /\ RoundUp(a) >= a
         /\ \E k \in Nat : RoundUp(a) = k * PageSize
<1> DEFINE n == a + PageSize - 1
           q == n \div PageSize
<1>1. PageSize \in Nat \ {0} /\ n \in Nat
  BY PmmAssumption
<1>2. q \in Nat /\ n < q * PageSize + PageSize
  <2> HIDE DEF n
  <2> QED BY <1>1, DivIn
<1>3. q * PageSize \in Nat
  BY <1>1, <1>2
<1>4. RoundUp(a) = q * PageSize
  BY DEF RoundUp
<1>5. n < q * PageSize + PageSize => q * PageSize >= a
  BY <1>1, <1>3
<1> HIDE DEF q
<1> QED BY <1>2, <1>3, <1>4, <1>5

(* The rounding of kmalloc never makes a block smaller. *)
LEMMA AlignUpIn ==
  ASSUME NEW size \in Nat
  PROVE  /\ AlignUp(size) \in Nat /\ AlignUp(size) >= size
         /\ \E k \in Nat : AlignUp(size) = k * HeapAlign
<1> DEFINE n == size + HeapAlign - 1
           q == n \div HeapAlign
<1>1. HeapAlign \in Nat \ {0} /\ n \in Nat
  BY HeapAssumption
<1>2. q \in Nat /\ n < q * HeapAlign + HeapAlign
  <2> HIDE DEF n
  <2> QED BY <1>1, DivIn
<1>3. q * HeapAlign \in Nat
  BY <1>1, <1>2
<1>4. AlignUp(size) = q * HeapAlign
  BY DEF AlignUp
<1>5. n < q * HeapAlign + HeapAlign => q * HeapAlign >= size
  BY <1>1, <1>3
<1> HIDE DEF q
<1> QED BY <1>2, <1>3, <1>4, <1>5

--------------------------------------------------------------------------------
(* The inductive invariant of the page allocator.                            *)
Types ==
  /\ mmap \in MemoryMaps /\ mb_end \in MbInfoEnd /\ mb_end \in Nat
  /\ total_memory \in Nat /\ total_pages \in Nat /\ pmm_bitmap \in Nat

(* Until the PMM is ready nobody owns a page; the bitmap lies behind the     *)
(* kernel and the Multiboot2 information from the moment it is placed.       *)
Layout ==
  /\ phase \in {"start", "parsed", "bitmap", "ready"}
  /\ phase # "ready" => held = {} /\ lost = {} /\ boot_used = {}
  /\ phase \in {"bitmap", "ready"} => pmm_bitmap >= KernelEnd /\ pmm_bitmap >= mb_end

(* The kernel and the bitmap are among the pages initialisation left in use, *)
(* which no later call frees: this and PagesAccounted give KernelKept.       *)
KernelInBoot == phase = "ready" => KernelPages \subseteq boot_used

(* What the functions that mark regions pass on to each other: a bitmap with *)
(* no bit outside it, and the number of pages whose bit is set.              *)
AllBits == 0 .. ByteBits * BitmapSize - 1
Counted == {pm \in [bits : SUBSET AllBits, used : Nat] : pm.used = Cardinality(pm.bits \cap Page)}

(* The count is right from the first call on; the pages are those of the     *)
(* memory once the bitmap is placed.                                         *)
Counts ==
  /\ Bits \in Counted
  /\ phase \in {"bitmap", "ready"} => total_pages = total_memory \div PageSize

PmmInv == Types /\ Layout /\ PagesAccounted /\ KernelInBoot /\ Counts

(* The bitmap has a bit for every page. *)
LEMMA BytesCover ==
  ASSUME NEW pages \in Nat
  PROVE  LET size == (pages + ByteBits - 1) \div ByteBits
         IN  /\ size \in Nat /\ ByteBits * size \in Nat /\ pages <= ByteBits * size
             /\ 0 .. pages - 1 \subseteq 0 .. ByteBits * size - 1
             /\ IsFiniteSet(0 .. pages - 1) /\ Cardinality(0 .. pages - 1) = pages
<1> DEFINE n == pages + ByteBits - 1
           q == n \div ByteBits
<1>1. ByteBits \in Nat \ {0} /\ n \in Nat
  BY PmmAssumption
<1>2. q \in Nat /\ n < q * ByteBits + ByteBits
  <2> HIDE DEF n
  <2> QED BY <1>1, DivIn
<1>3. q * ByteBits \in Nat /\ ByteBits * q = q * ByteBits
  BY <1>1, <1>2
<1>4. pages <= ByteBits * q
  <2>1. n < q * ByteBits + ByteBits => pages <= q * ByteBits
    BY <1>1, <1>3
  <2> QED BY <1>2, <1>3, <2>1
<1>5. IsFiniteSet(0 .. pages - 1) /\ Cardinality(0 .. pages - 1) = pages
  <2>1. 0 \in Int /\ pages - 1 \in Int
    OBVIOUS
  <2>2. /\ IsFiniteSet(0 .. pages - 1)
        /\ Cardinality(0 .. pages - 1) = IF 0 > pages - 1 THEN 0 ELSE pages - 1 - 0 + 1
    BY <2>1, FS_Interval
  <2> QED BY <2>1, <2>2
<1> HIDE DEF q
<1>6. ByteBits * q \in Nat
  BY <1>3
<1>7. 0 .. pages - 1 \subseteq 0 .. ByteBits * q - 1
  <2> DEFINE b == ByteBits * q
  <2>1. b \in Nat /\ pages <= b
    BY <1>4, <1>6
  <2> HIDE DEF b
  <2>2. 0 .. pages - 1 \subseteq 0 .. b - 1
    BY <2>1
  <2> QED BY <2>2 DEF b
<1> QED BY <1>2, <1>4, <1>5, <1>6, <1>7 DEF q

LEMMA PagesInBitmap ==
  ASSUME Types
  PROVE  /\ BitmapSize \in Nat /\ total_pages <= ByteBits * BitmapSize
         /\ ByteBits * BitmapSize \in Nat
         /\ Page \subseteq AllBits
         /\ IsFiniteSet(Page) /\ Cardinality(Page) = total_pages
  BY BytesCover DEF Types, BitmapSize, AllBits, Page

(* Clearing bits of pages keeps the count, set or not before. *)
LEMMA ClearCounted ==
  ASSUME Types, NEW pm \in Counted, NEW bits, bits \subseteq Page
  PROVE  Clear(pm, bits) \in Counted
<1>1. IsFiniteSet(pm.bits \cap Page) /\ IsFiniteSet(bits \cap pm.bits)
  BY PagesInBitmap, FS_Subset
<1>2. (pm.bits \ bits) \cap Page = (pm.bits \cap Page) \ (bits \cap pm.bits)
  OBVIOUS
<1>3. Cardinality((pm.bits \ bits) \cap Page)
        = Cardinality(pm.bits \cap Page) - Cardinality(bits \cap pm.bits)
  <2> DEFINE A == pm.bits \cap Page
             B == bits \cap pm.bits
  <2>1. A \cap B = B
    OBVIOUS
  <2>2. Cardinality(A \ B) = Cardinality(A) - Cardinality(A \cap B)
    <3>1. IsFiniteSet(A)
      BY <1>1
    <3> HIDE DEF A, B
    <3> QED BY <3>1, FS_Difference
  <2>3. (pm.bits \ bits) \cap Page = A \ B
    BY <1>2
  <2> QED BY <2>1, <2>2, <2>3
<1>4. Cardinality((pm.bits \ bits) \cap Page) \in Nat
  <2>1. IsFiniteSet((pm.bits \ bits) \cap Page)
    BY PagesInBitmap, FS_Subset
  <2> QED BY <2>1, FS_CardinalityType
<1> QED BY <1>3, <1>4 DEF Clear, Counted

(* Marking pages counts those that were free. *)
LEMMA MarkCounted ==
  ASSUME Types, NEW pm \in Counted, NEW base, NEW length
  PROVE  MarkUsed(pm, base, length, Page) \in Counted
<1> DEFINE fresh == {p \in Page : /\ p >= base \div PageSize
                                  /\ p < (base + length + PageSize - 1) \div PageSize
                                  /\ p \notin pm.bits}
<1>1. fresh \subseteq Page /\ fresh \cap pm.bits = {}
  OBVIOUS
<1>2. MarkUsed(pm, base, length, Page)
        = [bits |-> pm.bits \cup fresh, used |-> pm.used + Cardinality(fresh)]
  BY DEF MarkUsed
<1> HIDE DEF fresh
<1>3. IsFiniteSet(pm.bits \cap Page) /\ IsFiniteSet(fresh) /\ Cardinality(fresh) \in Nat
  BY <1>1, PagesInBitmap, FS_Subset, FS_CardinalityType
<1>4. Cardinality((pm.bits \cup fresh) \cap Page)
        = Cardinality(pm.bits \cap Page) + Cardinality(fresh)
  <2> DEFINE A == pm.bits \cap Page
  <2>1. (pm.bits \cup fresh) \cap Page = A \cup fresh
    BY <1>1
  <2>2. A \cap fresh = {}
    BY <1>1
  <2>3. Cardinality(A \cup fresh) = Cardinality(A) + Cardinality(fresh) - Cardinality(A \cap fresh)
    <3>1. IsFiniteSet(A)
      BY <1>3
    <3> HIDE DEF A
    <3> QED BY <1>3, <3>1, FS_Union
  <2>4. Cardinality(A) \in Nat
    BY <1>3, FS_CardinalityType
  <2>5. Cardinality(A \cap fresh) = 0
    BY <2>2, FS_EmptySet
  <2>6. Cardinality((pm.bits \cup fresh) \cap Page) = Cardinality(A \cup fresh)
    BY <2>1
  <2> HIDE DEF A
  <2>7. Cardinality(A \cup fresh) = Cardinality(A) + Cardinality(fresh)
    BY <1>3, <2>3, <2>4, <2>5
  <2> QED BY <2>6, <2>7 DEF A
<1>5. pm.bits \cup fresh \subseteq AllBits
  BY <1>1, PagesInBitmap DEF Counted
<1>6. pm.used + Cardinality(fresh) \in Nat /\ pm.used = Cardinality(pm.bits \cap Page)
  BY <1>3 DEF Counted
<1> DEFINE new == [bits |-> pm.bits \cup fresh, used |-> pm.used + Cardinality(fresh)]
<1>7. new \in [bits : SUBSET AllBits, used : Nat]
  BY <1>5, <1>6
<1>8. new.bits = pm.bits \cup fresh /\ new.used = pm.used + Cardinality(fresh)
  OBVIOUS
<1> HIDE DEF new
<1>9. new \in Counted
  BY <1>4, <1>6, <1>7, <1>8 DEF Counted
<1> QED BY <1>2, <1>9 DEF new

(* The whole bytes pmm_mark_region_free clears hold bits of pages only: the  *)
(* padding bits of the last byte stay set and are never counted.             *)
LEMMA WholeBytes ==
  ASSUME Types, NEW first \in Nat, NEW end_page \in Nat, end_page <= total_pages
  PROVE  first * ByteBits .. Min({end_page \div ByteBits, BitmapSize}) * ByteBits - 1 \subseteq Page
<1> DEFINE end_byte == end_page \div ByteBits
           last == Min({end_byte, BitmapSize})
<1>1. ByteBits \in Nat \ {0}
  BY PmmAssumption
<1>2. end_byte \in Nat /\ end_byte * ByteBits <= end_page
  BY <1>1, DivIn
<1> HIDE DEF end_byte
<1>3. last \in Nat /\ last <= end_byte
  <2>1. BitmapSize \in Nat
    BY PagesInBitmap
  <2>2. {end_byte, BitmapSize} \in SUBSET Nat /\ {end_byte, BitmapSize} # {}
    BY <1>2, <2>1
  <2>3. Min({end_byte, BitmapSize}) \in Nat
    BY <1>2, <2>1, PairIn
  <2> QED BY <2>2, <2>3, MinIn
<1> HIDE DEF last
<1>4. last * ByteBits \in Nat /\ last * ByteBits <= end_byte * ByteBits
  BY <1>1, <1>2, <1>3
<1>5. first * ByteBits \in Nat /\ end_byte * ByteBits \in Nat
  BY <1>1, <1>2
<1>6. last * ByteBits <= total_pages
  BY <1>2, <1>4, <1>5 DEF Types
<1>7. first * ByteBits .. last * ByteBits - 1 \subseteq 0 .. total_pages - 1
  <2> DEFINE f == first * ByteBits
             l == last * ByteBits
  <2>1. f \in Nat /\ l \in Nat /\ total_pages \in Nat /\ l <= total_pages
    BY <1>4, <1>5, <1>6 DEF Types
  <2> HIDE DEF f, l
  <2>2. f .. l - 1 \subseteq 0 .. total_pages - 1
    BY <2>1
  <2> QED BY <2>2 DEF f, l
<1> QED BY <1>7 DEF Page, last, end_byte

LEMMA RegionFreeCounted ==
  ASSUME Types, NEW pm \in Counted, NEW base \in Nat, NEW length \in Nat,
         (base + length) \div PageSize <= total_pages
  PROVE  RegionFree(pm, base, length) \in Counted
<1> DEFINE start_page == base \div PageSize
           end_page == (base + length) \div PageSize
           start_byte == start_page \div ByteBits
           end_byte == end_page \div ByteBits
           unaligned == start_page % ByteBits # 0
           first_whole == IF unaligned THEN start_byte + 1 ELSE start_byte
           head == IF unaligned
                     THEN start_page .. Min({(start_byte + 1) * ByteBits, end_page}) - 1
                     ELSE {}
           whole == first_whole * ByteBits .. Min({end_byte, BitmapSize}) * ByteBits - 1
           tail == IF end_page % ByteBits # 0 THEN end_byte * ByteBits .. end_page - 1 ELSE {}
<1>1. RegionFree(pm, base, length) = Clear(Clear(Clear(pm, head \cap Page), whole), tail \cap Page)
  BY DEF RegionFree
<1>2. PageSize \in Nat \ {0} /\ ByteBits \in Nat \ {0} /\ base + length \in Nat
  BY PmmAssumption
<1>3. start_page \in Nat /\ end_page \in Nat
  BY <1>2, DivIn
<1>4. first_whole \in Nat
  <2> HIDE DEF start_page
  <2>1. start_byte \in Nat
    BY <1>2, <1>3, DivIn
  <2> HIDE DEF start_byte
  <2> QED BY <2>1
<1>5. whole \subseteq Page
  <2> HIDE DEF first_whole
  <2>1. end_page <= total_pages
    OBVIOUS
  <2> HIDE DEF end_page
  <2> QED BY <1>3, <1>4, <2>1, WholeBytes
<1> HIDE DEF head, whole, tail
<1>6. Clear(pm, head \cap Page) \in Counted
  BY ClearCounted
<1>7. Clear(Clear(pm, head \cap Page), whole) \in Counted
  BY <1>5, <1>6, ClearCounted
<1>8. Clear(Clear(Clear(pm, head \cap Page), whole), tail \cap Page) \in Counted
  BY <1>7, ClearCounted
<1> QED BY <1>1, <1>8

(* An entry of the memory map is cut off at the end of the memory in use, so *)
(* no page past the last is cleared.                                         *)
LEMMA FreeEntryCounted ==
  ASSUME Types, total_pages = total_memory \div PageSize, NEW pm \in Counted, NEW e \in Entry
  PROVE  FreeEntry(pm, e) \in Counted
<1>1. CASE ~e.available \/ e.addr >= total_memory
  BY <1>1 DEF FreeEntry
<1>2. CASE ~(~e.available \/ e.addr >= total_memory)
  <2> DEFINE length == Min({e.len, total_memory - e.addr})
  <2>1. e.addr \in Nat /\ e.len \in Nat /\ total_memory - e.addr \in Nat
    BY <1>2 DEF Entry, Types
  <2>2. length \in Nat /\ length <= total_memory - e.addr
    <3>1. length \in Nat
      BY <2>1, PairIn
    <3>2. \A y \in {e.len, total_memory - e.addr} : length <= y
      BY <2>1, MinIn
    <3> QED BY <3>1, <3>2
  <2>3. FreeEntry(pm, e) = RegionFree(pm, e.addr, length)
    BY <1>2 DEF FreeEntry
  <2> HIDE DEF length
  <2>4. e.addr + length \in Nat /\ e.addr + length <= total_memory
    BY <2>1, <2>2 DEF Types
  <2>5. (e.addr + length) \div PageSize <= total_pages
    BY <2>4, DivMonotone, PmmAssumption DEF Types
  <2> QED BY <2>1, <2>2, <2>3, <2>5, RegionFreeCounted
<1> QED BY <1>1, <1>2

(* The loop over the memory map, whatever its regions are. *)
LEMMA LoopCounted ==
  ASSUME Types, total_pages = total_memory \div PageSize, NEW pm \in Counted
  PROVE  FoldLeft(FreeEntry, pm, mmap) \in Counted
<1> DEFINE D == DOMAIN mmap
           step == [i \in D |-> [v \in Counted |-> FreeEntry(v, mmap[i])]]
           pick == [s \in SUBSET D |-> Max(s)]
           Unrolled(g) == [s \in SUBSET D |-> IF s = {} THEN pm
                                               ELSE FreeEntry(g[s \ {Max(s)}], mmap[Max(s)])]
           iter == CHOOSE g : g = Unrolled(g)
<1>1. FoldLeft(FreeEntry, pm, mmap) = iter[D]
  BY Zenon DEF FoldLeft, MapThenFoldSet
<1>2. D \in SUBSET Nat /\ IsFiniteSet(D) /\ \A i \in D : mmap[i] \in Entry
  <2>1. mmap \in Seq(Entry)
    BY PmmAssumption DEF Types
  <2>2. D = 1 .. Len(mmap) /\ Len(mmap) \in Nat
    BY <2>1
  <2>3. IsFiniteSet(D)
    BY <2>2, FS_Interval
  <2> QED BY <2>1, <2>2, <2>3
<1>3. \A i \in D : \A v \in Counted : FreeEntry(v, mmap[i]) \in Counted
  BY <1>2, FreeEntryCounted
<1>4. step \in [D -> [Counted -> Counted]]
  BY <1>3
<1>5. Picks(D, pick) /\ \A s \in SUBSET D : s # {} => Max(s) \in s
  <2>1. ASSUME NEW s \in SUBSET D, s # {} PROVE Max(s) \in s
    <3>1. IsFiniteSet(s) /\ s \in SUBSET Nat
      BY <1>2, FS_Subset
    <3> QED BY <2>1, <3>1, MaxIn
  <2> QED BY <2>1 DEF Picks
<1>6. PICK g \in [SUBSET D -> Counted] : Unrolls(D, pick, pm, step, g)
  <2> HIDE DEF step, pick, D
  <2> QED BY <1>2, <1>4, <1>5, FoldExists
<1>7. g = Unrolled(g)
  <2>1. ASSUME NEW s \in SUBSET D, s # {}
        PROVE  g[s] = FreeEntry(g[s \ {Max(s)}], mmap[Max(s)])
    <3>1. Max(s) \in D /\ s \ {Max(s)} \in SUBSET D
      BY <1>5, <2>1
    <3>2. g[s] = step[Max(s)][g[s \ {Max(s)}]]
      BY <1>6, <2>1 DEF Unrolls
    <3>3. g[s \ {Max(s)}] \in Counted
      BY <3>1
    <3> QED BY <3>1, <3>2, <3>3
  <2>2. g[{}] = pm
    BY <1>6 DEF Unrolls
  <2> QED BY <2>1, <2>2
<1>8. iter = Unrolled(iter)
  <2> HIDE DEF Unrolled
  <2> QED BY <1>7, Zenon
<1>9. iter[{}] = pm
  BY <1>8
<1>10. Follows(D, pick, Counted, step, iter)
  <2> HIDE DEF iter
  <2> QED BY <1>5, <1>8 DEF Follows
<1>11. iter[D] \in Counted
  <2> HIDE DEF iter, step, pick, D
  <2> QED BY <1>2, <1>4, <1>5, <1>9, <1>10, FoldIn
<1> QED BY <1>1, <1>11

(* One page more, one page less. *)
LEMMA OneMore ==
  ASSUME Types, Bits \in Counted, NEW page \in Page, page \notin bitmap
  PROVE  [bits |-> bitmap \cup {page}, used |-> used_pages + 1] \in Counted
<1>1. /\ bitmap \subseteq AllBits /\ used_pages \in Nat
      /\ used_pages = Cardinality(bitmap \cap Page)
  BY DEF Counted, Bits
<1>2. (bitmap \cup {page}) \cap Page = (bitmap \cap Page) \cup {page}
  OBVIOUS
<1>3. IsFiniteSet(bitmap \cap Page) /\ page \notin bitmap \cap Page
  BY PagesInBitmap, FS_Subset
<1>4. Cardinality((bitmap \cup {page}) \cap Page) = used_pages + 1
  BY <1>1, <1>2, <1>3, FS_AddElement
<1>5. bitmap \cup {page} \subseteq AllBits
  BY <1>1, PagesInBitmap
<1> DEFINE new == [bits |-> bitmap \cup {page}, used |-> used_pages + 1]
<1>6. new \in [bits : SUBSET AllBits, used : Nat]
  BY <1>1, <1>5
<1>7. new.bits = bitmap \cup {page} /\ new.used = used_pages + 1
  OBVIOUS
<1> HIDE DEF new
<1>8. new \in Counted
  BY <1>4, <1>6, <1>7 DEF Counted
<1> QED BY <1>8 DEF new

LEMMA OneLess ==
  ASSUME Types, Bits \in Counted, NEW page \in Page \cap bitmap
  PROVE  [bits |-> bitmap \ {page}, used |-> used_pages - 1] \in Counted
<1>1. /\ bitmap \subseteq AllBits /\ used_pages \in Nat
      /\ used_pages = Cardinality(bitmap \cap Page)
  BY DEF Counted, Bits
<1>2. (bitmap \ {page}) \cap Page = (bitmap \cap Page) \ {page}
  OBVIOUS
<1>3. IsFiniteSet(bitmap \cap Page) /\ page \in bitmap \cap Page
  BY PagesInBitmap, FS_Subset
<1>4. /\ Cardinality((bitmap \ {page}) \cap Page) = used_pages - 1
      /\ Cardinality((bitmap \ {page}) \cap Page) \in Nat
  <2> PICK owned : owned = bitmap \cap Page
    OBVIOUS
  <2>1. IsFiniteSet(owned) /\ page \in owned
    BY <1>3
  <2>2. /\ Cardinality(owned \ {page}) = Cardinality(owned) - 1
        /\ IsFiniteSet(owned \ {page})
    BY ONLY <2>1, FS_RemoveElement
  <2>3. Cardinality(owned \ {page}) \in Nat
    BY ONLY <2>2, FS_CardinalityType
  <2> QED BY <1>1, <1>2, <2>2, <2>3
<1> DEFINE new == [bits |-> bitmap \ {page}, used |-> used_pages - 1]
<1>5. new \in [bits : SUBSET AllBits, used : Nat]
  BY <1>1, <1>4
<1>6. new.bits = bitmap \ {page} /\ new.used = used_pages - 1
  OBVIOUS
<1> HIDE DEF new
<1>7. new \in Counted
  BY <1>4, <1>5, <1>6 DEF Counted
<1> QED BY <1>7 DEF new

LEMMA BitmapEndIn ==
  ASSUME Types
  PROVE  BitmapEnd \in Nat /\ BitmapEnd >= pmm_bitmap
<1> DEFINE n == total_pages + ByteBits - 1
<1>1. n \in Nat /\ ByteBits \in Nat \ {0}
  BY PmmAssumption DEF Types
<1>2. n \div ByteBits \in Nat
  <2> HIDE DEF n
  <2> QED BY <1>1, DivIn
<1> QED BY <1>2 DEF Types, BitmapEnd, BitmapSize

(* The last page pmm_mark_region_used marks, rounded up, covers every page   *)
(* that begins before the end of the region.                                 *)
LEMMA LastPage ==
  ASSUME NEW page \in Nat, NEW end \in Nat, page * PageSize < end
  PROVE  page < (end + PageSize - 1) \div PageSize
<1> DEFINE n == end + PageSize - 1
           q == n \div PageSize
<1>1. PageSize \in Nat \ {0} /\ n \in Nat
  BY PmmAssumption
<1>2. q \in Nat /\ n < q * PageSize + PageSize
  <2> HIDE DEF n
  <2> QED BY <1>1, DivIn
<1>3. q * PageSize \in Nat /\ page * PageSize \in Nat
  BY <1>1, <1>2
<1>4. page * PageSize < q * PageSize
  <2>1. n < q * PageSize + PageSize => q * PageSize >= end
    BY <1>1, <1>3
  <2> HIDE DEF n, q
  <2> QED BY <1>2, <1>3, <2>1
<1>5. page < q
  <2> HIDE DEF q
  <2> SUFFICES ASSUME q <= page PROVE FALSE
    BY <1>2
  <2>1. q * PageSize <= page * PageSize
    BY <1>1, <1>2
  <2> QED BY <1>3, <1>4, <2>1
<1> QED BY <1>5

(* Marking the kernel last leaves every page of it in use, whatever the      *)
(* regions made of the bitmap.                                               *)
LEMMA KernelMarked ==
  ASSUME Types, Layout, phase = "bitmap", NEW pm
  PROVE  KernelPages \subseteq Page \cap KernelUsed(pm).bits
<1> SUFFICES ASSUME NEW page \in KernelPages
             PROVE  page \in Page \cap KernelUsed(pm).bits
  OBVIOUS
<1>1. BitmapEnd \in Nat /\ BitmapEnd >= KernelEnd
  BY BitmapEndIn, PmmAssumption DEF Types, Layout
<1>2. KernelStart + (BitmapEnd - KernelStart) = BitmapEnd
  BY <1>1, PmmAssumption
<1>3. page \in Page /\ page \in Nat /\ page >= KernelStart \div PageSize
  BY DEF KernelPages, Page, Types
<1>4. page < (BitmapEnd + PageSize - 1) \div PageSize
  <2>1. page * PageSize < BitmapEnd
    BY DEF KernelPages
  <2> QED BY <1>1, <1>3, <2>1, LastPage
<1>5. KernelUsed(pm).bits =
        pm.bits \cup {p \in Page : /\ p >= KernelStart \div PageSize
                                   /\ p < (BitmapEnd + PageSize - 1) \div PageSize
                                   /\ p \notin pm.bits}
  BY <1>2 DEF KernelUsed, RegionUsed, MarkUsed
<1> QED BY <1>3, <1>4, <1>5

(* pmm_alloc_page finds a free page if there is one. *)
LEMMA LowestFree ==
  ASSUME Types, FreePages # {}
  PROVE  Min(FreePages) \in FreePages
<1>1. FreePages \in SUBSET Nat
  BY DEF FreePages, Page, Types
<1> QED BY <1>1, MinIn

LEMMA PmmInitInv == PmmInit => PmmInv
<1> SUFFICES ASSUME PmmInit PROVE PmmInv
  OBVIOUS
<1>1. Types /\ Layout /\ PagesAccounted /\ KernelInBoot
  BY PmmAssumption DEF PmmInit, Types, Layout, PagesAccounted, KernelInBoot
<1>2. Bits \in Counted
  BY FS_EmptySet DEF PmmInit, Bits, Counted
<1> QED BY <1>1, <1>2 DEF PmmInv, Counts, PmmInit

LEMMA ParseMmapInv == PmmInv /\ ParseMmap => PmmInv'
<1> SUFFICES ASSUME PmmInv, ParseMmap PROVE PmmInv'
  OBVIOUS
<1> USE DEF PmmInv, ParseMmap, fixed
<1>1. total_memory' \in Nat
  <2> DEFINE E == {e.addr + e.len : e \in {f \in ToSet(mmap) : f.available /\ f.addr < FourGb}}
  <2>1. mmap \in Seq(Entry)
    BY PmmAssumption DEF Types
  <2>2. E \in SUBSET {e.addr + e.len : e \in ToSet(mmap)}
    OBVIOUS
  <2>3. total_memory' = Max({0} \cup E)
    OBVIOUS
  <2> HIDE DEF E
  <2> QED BY <2>1, <2>2, <2>3, HighestEnd
<1>2. Types'
  BY <1>1 DEF Types
<1>3. Layout' /\ PagesAccounted' /\ KernelInBoot'
  BY DEF Layout, PagesAccounted, KernelInBoot
<1>4. Counts'
  BY DEF Counts, Counted, Bits, AllBits, BitmapSize, Page
<1> QED BY <1>2, <1>3, <1>4

LEMMA InitBitmapInv == PmmInv /\ InitBitmap => PmmInv'
<1> SUFFICES ASSUME PmmInv, InitBitmap PROVE PmmInv'
  OBVIOUS
<1> USE DEF PmmInv, InitBitmap, fixed
<1>1. total_memory' \in Nat
  BY PmmAssumption, PairIn DEF Types
<1>2. total_pages' \in Nat
  BY <1>1, PmmAssumption, DivIn
<1>3. pmm_bitmap' \in Nat /\ pmm_bitmap' >= KernelEnd /\ pmm_bitmap' >= mb_end
  <2> DEFINE a == Max({mb_end, KernelEnd})
  <2>1. a \in Nat /\ a >= mb_end /\ a >= KernelEnd
    BY PmmAssumption, PairIn DEF Types
  <2>2. RoundUp(a) \in Nat /\ RoundUp(a) >= a
    <3> HIDE DEF a
    <3> QED BY <2>1, RoundUpIn
  <2>3. pmm_bitmap' = RoundUp(a)
    OBVIOUS
  <2> HIDE DEF a
  <2> QED BY <2>1, <2>2, <2>3, PmmAssumption DEF Types
<1>4. Types' /\ Layout'
  BY <1>1, <1>2, <1>3 DEF Types, Layout
<1>5. PagesAccounted' /\ KernelInBoot'
  BY DEF PagesAccounted, KernelInBoot
<1>6. Counts'
  <2>1. bitmap' = AllBits' /\ used_pages' = total_pages'
    BY DEF AllBits
  <2>2. Page' \subseteq AllBits' /\ Cardinality(Page') = total_pages'
    BY <1>2, BytesCover DEF AllBits, Page, BitmapSize
  <2>3. AllBits' \cap Page' = Page'
    BY <2>2
  <2> QED BY <1>2, <2>1, <2>2, <2>3 DEF Counts, Counted, Bits
<1> QED BY <1>4, <1>5, <1>6

LEMMA MarkFreeRegionsInv == PmmInv /\ MarkFreeRegions => PmmInv'
<1> SUFFICES ASSUME PmmInv, MarkFreeRegions PROVE PmmInv'
  OBVIOUS
<1> USE DEF PmmInv
<1>1. PICK pm \in Counted : MarkRegions(KernelUsed(pm))
  <2>1. FoldLeft(FreeEntry, Bits, mmap) \in Counted
    BY LoopCounted DEF Counts, MarkFreeRegions, MarkRegions
  <2> QED BY <2>1 DEF MarkFreeRegions
<1> USE <1>1 DEF MarkRegions, fixed, layout
<1>2. Types' /\ Layout'
  BY DEF Types, Layout
<1>3. Page' = Page /\ KernelPages' = KernelPages
  BY DEF Page, KernelPages, BitmapEnd, BitmapSize
<1>4. boot_used' = Page \cap bitmap' /\ held' = {} /\ lost' = {}
  BY DEF Layout
<1>5. PagesAccounted'
  BY <1>3, <1>4 DEF PagesAccounted
<1>6. KernelPages \subseteq boot_used'
  BY KernelMarked
<1>7. KernelInBoot'
  BY <1>3, <1>6 DEF KernelInBoot
<1>8. Counts'
  <2>1. KernelUsed(pm) \in Counted
    BY MarkCounted DEF KernelUsed, RegionUsed
  <2>2. Bits' = [bits |-> KernelUsed(pm).bits, used |-> KernelUsed(pm).used]
    BY DEF Bits
  <2>3. Bits' \in Counted
    BY <2>1, <2>2 DEF Counted
  <2>4. Counted' = Counted
    BY <1>3 DEF Counted, AllBits, BitmapSize
  <2> QED BY <2>3, <2>4 DEF Counts
<1> QED BY <1>2, <1>5, <1>7, <1>8

LEMMA AllocPageInv == PmmInv /\ AllocPage => PmmInv'
<1> SUFFICES ASSUME PmmInv, AllocPage PROVE PmmInv'
  OBVIOUS
<1> USE DEF PmmInv, AllocPage, fixed, layout
<1>1. Types' /\ Layout'
  BY DEF Types, Layout
<1>2. Page' = Page /\ KernelPages' = KernelPages
  BY DEF Page, KernelPages, BitmapEnd, BitmapSize
<1>3. KernelInBoot'
  BY <1>2 DEF KernelInBoot
<1>4. PagesAccounted'
  <2>1. CASE FreePages = {}
    BY <1>2, <2>1 DEF PagesAccounted
  <2>2. CASE FreePages # {}
    <3> DEFINE page == Min(FreePages)
    <3>1. page \in Page /\ page \notin bitmap
      BY <2>2, LowestFree DEF FreePages
    <3>2. bitmap' = bitmap \cup {page}
      BY <2>2 DEF TakePage, Bits, FreePages
    <3>3. page * PageSize = 0 <=> page = 0
      <4>1. page \in Nat /\ PageSize \in Nat \ {0}
        BY <3>1, PmmAssumption DEF Page, Types
      <4> HIDE DEF page
      <4> QED BY <4>1
    <3>4. \/ page = 0 /\ held' = held /\ lost' = lost \cup {page}
          \/ held' = held \cup {page} /\ lost' = lost
      BY <2>2, <3>3
    <3> HIDE DEF page
    <3> QED BY <1>2, <3>1, <3>2, <3>4 DEF PagesAccounted
  <2> QED BY <2>1, <2>2
<1>5. Counts'
  <2>1. Counted' = Counted
    BY <1>2 DEF Counted, AllBits, BitmapSize
  <2>2. CASE FreePages = {}
    BY <2>1, <2>2 DEF Counts, Bits
  <2>3. CASE FreePages # {}
    <3> DEFINE page == Min(FreePages)
    <3>1. page \in Page /\ page \notin bitmap
      BY <2>3, LowestFree DEF FreePages
    <3>2. bitmap' = bitmap \cup {page} /\ used_pages' = used_pages + 1
      BY <2>3 DEF TakePage, Bits, FreePages
    <3> HIDE DEF page
    <3>3. [bits |-> bitmap \cup {page}, used |-> used_pages + 1] \in Counted
      BY <3>1, OneMore DEF Counts
    <3> QED BY <2>1, <3>2, <3>3 DEF Counts, Bits
  <2> QED BY <2>2, <2>3
<1> QED BY <1>1, <1>3, <1>4, <1>5

LEMMA FreePageInv ==
  ASSUME PmmInv, NEW page \in held, FreePage(page)
  PROVE  PmmInv'
<1> USE DEF PmmInv, FreePage, fixed, layout
<1>1. Types' /\ Layout'
  BY DEF Types, Layout
<1>2. Page' = Page /\ KernelPages' = KernelPages
  BY DEF Page, KernelPages, BitmapEnd, BitmapSize
<1>3. KernelInBoot'
  BY <1>2 DEF KernelInBoot
<1>4. page \in Page \cap bitmap /\ bitmap' = bitmap \ {page}
  BY DEF PagesAccounted
<1>5. PagesAccounted'
  BY <1>2, <1>4 DEF PagesAccounted
<1>6. Counts'
  <2>1. Counted' = Counted
    BY <1>2 DEF Counted, AllBits, BitmapSize
  <2>2. used_pages' = used_pages - 1
    BY <1>4
  <2>3. [bits |-> bitmap \ {page}, used |-> used_pages - 1] \in Counted
    BY <1>4, OneLess DEF Counts
  <2> QED BY <1>4, <2>1, <2>2, <2>3 DEF Counts, Bits
<1> QED BY <1>1, <1>3, <1>5, <1>6

LEMMA PmmInvKept == PmmInv /\ [PmmNext]_pmmVars => PmmInv'
<1> SUFFICES ASSUME PmmInv, [PmmNext]_pmmVars PROVE PmmInv'
  OBVIOUS
<1>1. CASE ParseMmap
  BY <1>1, ParseMmapInv
<1>2. CASE InitBitmap
  BY <1>2, InitBitmapInv
<1>3. CASE MarkFreeRegions
  BY <1>3, MarkFreeRegionsInv
<1>4. CASE AllocPage
  BY <1>4, AllocPageInv
<1>5. CASE \E page \in held : FreePage(page)
  BY <1>5, FreePageInv
<1>6. CASE UNCHANGED pmmVars
  BY <1>6 DEF pmmVars, fixed, layout, PmmInv, Types, Layout, PagesAccounted, KernelInBoot,
              Page, KernelPages, BitmapEnd, BitmapSize, Counts, Counted, Bits, AllBits
<1> QED BY <1>1, <1>2, <1>3, <1>4, <1>5, <1>6 DEF PmmNext, PmmBoot, PmmCall

--------------------------------------------------------------------------------
(* The inductive invariant of the heap.                                      *)
Pointers ==
  /\ heap_start \in Nat /\ heap_current \in Nat /\ heap_end \in Nat
  /\ HeapReady => /\ phase = "ready" /\ heap_start = RoundUp(BitmapEnd)
                  /\ heap_start <= heap_current
                  /\ \E k \in Nat : heap_current = k * HeapAlign

(* Every block lies behind heap_current, which never goes back; a failed     *)
(* call moves it too, so it may pass heap_end while the blocks do not.       *)
Behind ==
  /\ ~HeapReady => blocks = {}
  /\ \A b \in blocks : b.addr \in Nat /\ b.size \in Nat /\ EndOf(b) <= heap_current

HeapInv == HeapTypeOK /\ Pointers /\ Behind /\ BlocksDisjoint

IInv == PmmInv /\ HeapInv

(* What heap_init makes of the end of the bitmap. *)
LEMMA HeapStartIn ==
  ASSUME Types
  PROVE  /\ RoundUp(BitmapEnd) \in Nat /\ RoundUp(BitmapEnd) >= BitmapEnd
         /\ \E k \in Nat : RoundUp(BitmapEnd) = k * HeapAlign
<1>1. /\ RoundUp(BitmapEnd) \in Nat /\ RoundUp(BitmapEnd) >= BitmapEnd
      /\ \E k \in Nat : RoundUp(BitmapEnd) = k * PageSize
  BY BitmapEndIn, RoundUpIn
<1>2. PICK k \in Nat : RoundUp(BitmapEnd) = k * PageSize
  BY <1>1
<1>3. PICK m \in Nat : PageSize = m * HeapAlign
  BY KernelMemoryAssumption, PmmAssumption
<1>4. k * (m * HeapAlign) = (k * m) * HeapAlign /\ k * m \in Nat
  BY HeapAssumption
<1> QED BY <1>1, <1>2, <1>3, <1>4

LEMMA StartHeapInv == IInv /\ StartHeap => IInv'
<1> SUFFICES ASSUME IInv, StartHeap PROVE IInv'
  OBVIOUS
<1> USE DEF IInv, HeapInv, StartHeap, StartHeapAt
<1>1. PmmInv'
  BY PmmInvKept
<1>2. RoundUp(BitmapEnd) \in Nat /\ \E k \in Nat : RoundUp(BitmapEnd) = k * HeapAlign
  BY HeapStartIn DEF PmmInv
<1>3. (RoundUp(BitmapEnd))' = RoundUp(BitmapEnd)
  BY DEF RoundUp, BitmapEnd, BitmapSize, pmmVars, layout
<1>4. Pointers'
  BY <1>2, <1>3, HeapAssumption DEF Pointers, HeapReady, pmmVars
<1>5. Behind' /\ BlocksDisjoint'
  BY DEF Behind, BlocksDisjoint
<1>6. HeapTypeOK'
  BY <1>2, HeapAssumption DEF HeapTypeOK
<1> QED BY <1>1, <1>4, <1>5, <1>6

LEMMA KmallocInv ==
  ASSUME IInv, NEW size \in Sizes, Kmalloc(size), UNCHANGED pmmVars
  PROVE  IInv'
<1> USE DEF IInv, HeapInv
<1>1. PmmInv'
  BY PmmInvKept
<1> DEFINE step == AlignUp(size)
           new == [addr |-> heap_current, size |-> size]
<1>2. size \in Nat /\ size > 0
  BY HeapAssumption DEF Kmalloc
<1>3. step \in Nat /\ step >= size /\ \E k \in Nat : step = k * HeapAlign
  BY <1>2, AlignUpIn
<1>4. /\ HeapReady /\ heap_current' = heap_current + step
      /\ heap_start' = heap_start /\ heap_end' = heap_end
      /\ blocks' = blocks \/ (heap_current' < heap_end /\ blocks' = blocks \cup {new})
  <2> HIDE DEF new
  <2>1. /\ HeapReady /\ heap_current' = heap_current + step
        /\ heap_start' = heap_start /\ heap_end' = heap_end
        /\ blocks' = IF heap_current' >= heap_end THEN blocks ELSE blocks \cup {new}
    BY DEF Kmalloc, Bump, new
  <2>2. heap_current' \in Nat /\ heap_end \in Nat
    BY <2>1, <1>3 DEF Pointers
  <2> QED BY <2>1, <2>2
<1> HIDE DEF step
<1>5. PICK k \in Nat : heap_current = k * HeapAlign
  BY <1>4 DEF Pointers
<1>6. Pointers'
  <2>1. PICK j \in Nat : step = j * HeapAlign
    BY <1>3
  <2>2. heap_current' = (k + j) * HeapAlign /\ k + j \in Nat
    BY <1>4, <1>5, <2>1, HeapAssumption
  <2>3. phase' = phase /\ (RoundUp(BitmapEnd))' = RoundUp(BitmapEnd)
    BY DEF RoundUp, BitmapEnd, BitmapSize, pmmVars, layout
  <2>4. heap_current' \in Nat /\ heap_start' <= heap_current'
    BY <1>3, <1>4 DEF Pointers
  <2> QED BY <1>4, <2>2, <2>3, <2>4 DEF Pointers, HeapReady
<1>7. new.addr = heap_current /\ new.size = size /\ EndOf(new) = heap_current + size
  BY DEF EndOf
<1> HIDE DEF new
<1>8. Behind'
  <2>1. HeapReady'
    BY <1>4 DEF HeapReady
  <2>2. ASSUME NEW b \in blocks'
        PROVE  b.addr \in Nat /\ b.size \in Nat /\ EndOf(b) <= heap_current'
    <3>1. CASE b \in blocks
      BY <3>1, <1>3, <1>4 DEF Behind, Pointers, EndOf
    <3>2. CASE b = new
      BY <3>2, <1>2, <1>3, <1>4, <1>7 DEF Pointers
    <3> QED BY <1>4, <3>1, <3>2
  <2> QED BY <2>1, <2>2 DEF Behind, EndOf
<1>9. BlocksDisjoint'
  <2>1. CASE blocks' = blocks
    BY <2>1, <1>4 DEF BlocksDisjoint, EndOf
  <2>2. CASE heap_current' < heap_end /\ blocks' = blocks \cup {new}
    <3>1. new.addr % HeapAlign = 0
      BY <1>5, <1>7, ModTimes, HeapAssumption
    <3>2. heap_start <= new.addr /\ EndOf(new) < heap_end
      BY <2>2, <1>2, <1>3, <1>4, <1>7 DEF Pointers
    <3>3. \A b \in blocks : EndOf(b) <= new.addr
      BY <1>7 DEF Behind
    <3>4. ASSUME NEW b \in blocks'
          PROVE  /\ b.addr % HeapAlign = 0
                 /\ heap_start <= b.addr /\ EndOf(b) < heap_end
      BY <2>2, <3>1, <3>2 DEF BlocksDisjoint
    <3>5. ASSUME NEW b \in blocks', NEW c \in blocks' \ {b}
          PROVE  EndOf(b) <= c.addr \/ EndOf(c) <= b.addr
      BY <2>2, <3>3 DEF BlocksDisjoint
    <3> QED BY <1>4, <3>4, <3>5 DEF BlocksDisjoint, EndOf
  <2> QED BY <1>4, <2>1, <2>2
<1>10. HeapTypeOK'
  <2>1. new \in [addr : Nat, size : Sizes \ {0}]
    BY <1>2 DEF new, Pointers
  <2>2. /\ heap_start' \in Nat /\ heap_current' \in Nat /\ heap_end' \in Nat
        /\ blocks' \subseteq blocks \cup {new}
    BY <1>3, <1>4 DEF Pointers
  <2> QED BY <2>1, <2>2 DEF HeapTypeOK
<1> QED BY <1>1, <1>6, <1>8, <1>9, <1>10

(* A step of the page allocator alone leaves the heap where it is. *)
LEMMA PageStepInv ==
  ASSUME IInv, [PmmNext]_pmmVars, UNCHANGED heapVars,
         HeapReady => UNCHANGED <<phase, pmm_bitmap, total_pages>>
  PROVE  IInv'
<1> USE DEF IInv, HeapInv, heapVars
<1>1. PmmInv'
  BY PmmInvKept
<1>2. HeapReady' = HeapReady
  BY DEF HeapReady
<1>3. HeapReady => (RoundUp(BitmapEnd))' = RoundUp(BitmapEnd)
  BY DEF RoundUp, BitmapEnd, BitmapSize
<1>4. Pointers'
  BY <1>2, <1>3 DEF Pointers
<1>5. Behind' /\ BlocksDisjoint'
  BY <1>2 DEF Behind, BlocksDisjoint, EndOf
<1>6. HeapTypeOK'
  BY DEF HeapTypeOK
<1> QED BY <1>1, <1>4, <1>5, <1>6

LEMMA NextInv == IInv /\ [Next]_vars => IInv'
<1> SUFFICES ASSUME IInv, [Next]_vars PROVE IInv'
  OBVIOUS
<1>1. CASE PmmBoot /\ UNCHANGED heapVars
  <2>1. ~HeapReady
    BY <1>1 DEF PmmBoot, ParseMmap, InitBitmap, MarkFreeRegions, MarkRegions,
                IInv, HeapInv, Pointers
  <2> QED BY <1>1, <2>1, PageStepInv DEF PmmNext
<1>2. CASE StartHeap
  BY <1>2, StartHeapInv
<1>3. CASE PageCall
  <2>1. UNCHANGED <<phase, pmm_bitmap, total_pages>>
    BY <1>3 DEF PageCall, PmmCall, AllocPage, FreePage, layout
  <2> QED BY <1>3, <2>1, PageStepInv DEF PageCall, PmmNext
<1>4. CASE HeapCall
  BY <1>4, KmallocInv DEF HeapCall
<1>5. CASE UNCHANGED vars
  BY <1>5, PageStepInv DEF vars, pmmVars, layout
<1> QED BY <1>1, <1>2, <1>3, <1>4, <1>5 DEF Next, Boot

LEMMA InitInv == Init => IInv
<1> SUFFICES ASSUME Init PROVE IInv
  OBVIOUS
<1>1. PmmInv
  BY PmmInitInv DEF Init
<1>2. HeapInv
  BY DEF Init, HeapInit, HeapInv, HeapTypeOK, Pointers, Behind, BlocksDisjoint, HeapReady
<1> QED BY <1>1, <1>2 DEF IInv

LEMMA Invariant == Spec => []IInv
  BY InitInv, NextInv, PTL DEF Spec

--------------------------------------------------------------------------------
(* used_pages is the number of pages whose bit is set, whatever regions the  *)
(* memory map has: the byte-wise and the page-wise path of                   *)
(* pmm_mark_region_free count alike, and no padding bit is ever counted.     *)
THEOREM MemoryUsedPagesMatches == Spec => []UsedPagesMatches
<1>1. IInv => UsedPagesMatches
  BY DEF IInv, PmmInv, Counts, Counted, Bits, UsedPagesMatches
<1> QED BY <1>1, Invariant, PTL

(* The types of both allocators: used_pages stays between 0 and total_pages, *)
(* no bit behind the bitmap is set, every page in a caller's hands exists.   *)
THEOREM MemoryTyped == Spec => []MemoryTypeOK
<1>1. IInv => MemoryTypeOK
  <2> SUFFICES ASSUME IInv PROVE MemoryTypeOK
    OBVIOUS
  <2> USE DEF IInv, PmmInv
  <2>1. bitmap \subseteq AllBits /\ used_pages = Cardinality(bitmap \cap Page)
    BY DEF Counts, Counted, Bits
  <2>2. used_pages \in 0 .. total_pages
    <3>1. IsFiniteSet(bitmap \cap Page) /\ Cardinality(bitmap \cap Page) <= Cardinality(Page)
      BY PagesInBitmap, FS_Subset
    <3>2. Cardinality(bitmap \cap Page) \in Nat
      BY <3>1, FS_CardinalityType
    <3> QED BY <2>1, <3>1, <3>2, PagesInBitmap DEF Types
  <2>3. held \subseteq Page /\ lost \subseteq Page /\ boot_used \subseteq Page
    BY DEF PagesAccounted, Layout
  <2>4. PmmTypeOK
    BY <2>1, <2>2, <2>3 DEF PmmTypeOK, Types, Layout, AllBits
  <2> QED BY <2>4 DEF MemoryTypeOK, HeapInv
<1> QED BY <1>1, Invariant, PTL

(* A page is in use because initialisation left it so, because a caller owns *)
(* it, or because it is page 0, never for two of these reasons: neither      *)
(* pmm_alloc_page nor pmm_free_page loses or shares a page.                  *)
THEOREM MemoryPagesAccounted == Spec => []PagesAccounted
  BY Invariant, PTL DEF IInv, PmmInv

(* No sequence of calls of pmm_alloc_page and pmm_free_page hands out a page *)
(* of the kernel, of the Multiboot2 information or of the bitmap.            *)
THEOREM MemoryKernelKept == Spec => []KernelKept
<1>1. IInv => KernelKept
  BY DEF IInv, PmmInv, KernelInBoot, PagesAccounted, KernelKept
<1> QED BY <1>1, Invariant, PTL

(* No two blocks of kmalloc share a byte, each is aligned and inside the     *)
(* heap, after calls that failed too.                                        *)
THEOREM MemoryBlocksDisjoint == Spec => []BlocksDisjoint
  BY Invariant, PTL DEF IInv, HeapInv

(* No block lies over the kernel, the Multiboot2 information or the bitmap   *)
(* of the page allocator, wherever GRUB put the information.                 *)
THEOREM MemoryHeapClearOfKernel == Spec => []HeapClearOfKernel
<1>1. IInv => HeapClearOfKernel
  <2> SUFFICES ASSUME IInv, NEW b \in blocks
               PROVE  b.addr >= BitmapEnd /\ b.addr >= KernelEnd /\ b.addr >= mb_end
    BY DEF HeapClearOfKernel
  <2>1. HeapReady /\ b.addr \in Nat /\ b.addr >= heap_start
    BY DEF IInv, HeapInv, Behind, BlocksDisjoint, Pointers
  <2>2. heap_start \in Nat /\ heap_start >= BitmapEnd
    BY <2>1, HeapStartIn DEF IInv, PmmInv, HeapInv, Pointers
  <2>3. BitmapEnd \in Nat /\ BitmapEnd >= pmm_bitmap
    BY BitmapEndIn DEF IInv, PmmInv
  <2>4. /\ pmm_bitmap \in Nat /\ mb_end \in Nat /\ KernelEnd \in Nat
        /\ pmm_bitmap >= KernelEnd /\ pmm_bitmap >= mb_end
    BY <2>1, PmmAssumption DEF IInv, PmmInv, HeapInv, Pointers, Types, Layout
  <2> QED BY <2>1, <2>2, <2>3, <2>4
<1> QED BY <1>1, Invariant, PTL

--------------------------------------------------------------------------------
(* The virtual memory manager.                                               *)

\* What the tables hold.
Entries == [present : BOOLEAN, frame : Nat, huge : BOOLEAN]
Tables == [Frames -> [Index -> Entries]]

\* The indices of the PML4 but the recursive one
Slots == Index \ {RECURSIVE_INDEX}

\* upper are the tables below the PML4, middle those below them.  There is no
\* third level: what a middle table holds are huge pages.
Layered(mem, upper, middle) ==
  /\ upper \cup middle \subseteq Frames \ {boot_pml4} /\ upper \cap middle = {}
  /\ \A i \in Slots : mem[boot_pml4][i].present =>
       mem[boot_pml4][i].frame \in upper /\ ~mem[boot_pml4][i].huge
  /\ \A t \in upper, i \in Index : mem[t][i].present =>
       mem[t][i].frame \in middle /\ ~mem[t][i].huge
  /\ \A t \in middle, i \in Index : mem[t][i].present => mem[t][i].huge
  /\ \A t \in upper : \E i \in Slots :
       mem[boot_pml4][i].present /\ mem[boot_pml4][i].frame = t
  /\ \A t \in middle : \E u \in upper, i \in Index : mem[u][i].present /\ mem[u][i].frame = t

Tree(mem, ts) ==
  /\ mem \in Tables
  /\ \E upper, middle \in SUBSET Frames :
       /\ Layered(mem, upper, middle)
       /\ upper \cup middle = ts \cup {boot_pdpt, boot_pd, boot_pd_high}

\* Whom the pages in use belong to, the page tables now among the owners
TablesAccounted(bits, ts, gone) ==
  /\ bits \cap Page = boot_used \cup held \cup gone \cup ts
  /\ boot_used \cap held = {} /\ boot_used \cap gone = {} /\ held \cap gone = {}
  /\ ts \cap (boot_used \cup held \cup gone) = {}
  /\ gone \subseteq {0}

PagingInv ==
  /\ Types /\ Layout /\ KernelInBoot
  /\ phase # "ready" => machine = "boot" /\ Counts
  /\ phase \in {"bitmap", "ready"} => Page \subseteq Frames
  /\ phase = "ready" => /\ bitmap \in SUBSET Nat /\ used_pages \in Int
                        /\ TablesAccounted(bitmap, tables, lost)
  /\ machine \in {"boot", "up", "fault"}
  /\ machine = "boot" => tables = {} /\ memory[boot_pml4][RECURSIVE_INDEX] = Absent
  /\ machine = "up" => memory[boot_pml4][RECURSIVE_INDEX] = To(boot_pml4)
  /\ machine # "fault" => Tree(memory, tables)

--------------------------------------------------------------------------------
Through(f) == [ok |-> TRUE, frame |-> f, leaf |-> FALSE]
Reached(f) == [ok |-> TRUE, frame |-> f, leaf |-> TRUE]

(* One level of a walk. *)
LEMMA VisitLeaf ==
  ASSUME NEW mem, NEW va, NEW f, NEW level
  PROVE  /\ Visit(mem, va, Reached(f), level) = Reached(f)
         /\ Visit(mem, va, Fault, level) = Fault
  BY DEF Visit, Reached, Fault

LEMMA VisitThrough ==
  ASSUME NEW mem, NEW va, NEW f, NEW level
  PROVE  LET entry == mem[f][va[level]]
             ends == level = 4 \/ (level \in {2, 3} /\ entry.huge)
         IN  /\ ~entry.present => Visit(mem, va, Through(f), level) = Fault
             /\ entry.present /\ ends =>
                  Visit(mem, va, Through(f), level) = Reached(entry.frame)
             /\ entry.present /\ ~ends =>
                  Visit(mem, va, Through(f), level) = Through(entry.frame)
  BY DEF Visit, Through, Reached

(* The addresses callers pass. *)
LEMMA CallerIn ==
  ASSUME NEW va \in Callers
  PROVE  /\ va[1] \in Slots /\ va[2] \in Index /\ va[3] \in Index /\ va[4] \in Index
         /\ va # <<>>
<1>1. va \in Seq(Index) /\ Len(va) = 4 /\ va[1] # RECURSIVE_INDEX
  BY VmmAssumption
<1>2. \A k \in 1 .. Len(va) : va[k] \in Index
  BY ONLY <1>1, ElementOfSeq
<1>3. va[1] \in Index /\ va[2] \in Index /\ va[3] \in Index /\ va[4] \in Index
  BY ONLY <1>1, <1>2
<1>4. va # <<>>
  BY ONLY <1>1
<1> QED BY ONLY <1>1, <1>3, <1>4 DEF Slots

(* What the recursive entry makes of the macros' addresses: the PML4, the    *)
(* table its entry points to, the table that one's entry points to; and no   *)
(* page table at all.                                                        *)
LEMMA ReachPml4 ==
  ASSUME NEW mem, mem[boot_pml4][RECURSIVE_INDEX] = To(boot_pml4), NEW va
  PROVE  Walk(mem, TableAddress(va, 1)) = Reached(boot_pml4)
<1> DEFINE a == TableAddress(va, 1)
<1>1. /\ a # <<>> /\ a[1] = RECURSIVE_INDEX /\ a[2] = RECURSIVE_INDEX
      /\ a[3] = RECURSIVE_INDEX /\ a[4] = RECURSIVE_INDEX
  BY DEF TableAddress
<1> HIDE DEF a
<1>2. \A level \in {1, 2, 3} : Visit(mem, a, Through(boot_pml4), level) = Through(boot_pml4)
  BY <1>1, VisitThrough DEF To
<1>3. Visit(mem, a, Through(boot_pml4), 4) = Reached(boot_pml4)
  BY <1>1, VisitThrough DEF To
<1>4. Walk(mem, a) = Visit(mem, a, Visit(mem, a, Visit(mem, a,
                       Visit(mem, a, Through(boot_pml4), 1), 2), 3), 4)
  BY <1>1 DEF Walk, Root, Through
<1> QED BY <1>2, <1>3, <1>4 DEF a

LEMMA ReachUpper ==
  ASSUME NEW mem, mem[boot_pml4][RECURSIVE_INDEX] = To(boot_pml4), NEW va
  PROVE  Walk(mem, TableAddress(va, 2)) =
           IF mem[boot_pml4][va[1]].present THEN Reached(mem[boot_pml4][va[1]].frame) ELSE Fault
<1> DEFINE a == TableAddress(va, 2)
<1>1. /\ a # <<>> /\ a[1] = RECURSIVE_INDEX /\ a[2] = RECURSIVE_INDEX
      /\ a[3] = RECURSIVE_INDEX /\ a[4] = va[1]
  BY DEF TableAddress
<1> HIDE DEF a
<1>2. \A level \in {1, 2, 3} : Visit(mem, a, Through(boot_pml4), level) = Through(boot_pml4)
  BY <1>1, VisitThrough DEF To
<1>3. Visit(mem, a, Through(boot_pml4), 4) =
        IF mem[boot_pml4][va[1]].present THEN Reached(mem[boot_pml4][va[1]].frame) ELSE Fault
  BY <1>1, VisitThrough
<1>4. Walk(mem, a) = Visit(mem, a, Visit(mem, a, Visit(mem, a,
                       Visit(mem, a, Through(boot_pml4), 1), 2), 3), 4)
  BY <1>1 DEF Walk, Root, Through
<1> QED BY <1>2, <1>3, <1>4 DEF a

LEMMA ReachMiddle ==
  ASSUME NEW mem, mem[boot_pml4][RECURSIVE_INDEX] = To(boot_pml4), NEW va,
         mem[boot_pml4][va[1]].present => ~mem[boot_pml4][va[1]].huge
  PROVE  LET first == mem[boot_pml4][va[1]]
             second == mem[first.frame][va[2]]
         IN  Walk(mem, TableAddress(va, 3)) =
               IF first.present /\ second.present THEN Reached(second.frame) ELSE Fault
<1> PICK first : first = mem[boot_pml4][va[1]]
  OBVIOUS
<1> PICK second : second = mem[first.frame][va[2]]
  OBVIOUS
<1> DEFINE a == TableAddress(va, 3)
<1>1. /\ a # <<>> /\ a[1] = RECURSIVE_INDEX /\ a[2] = RECURSIVE_INDEX
      /\ a[3] = va[1] /\ a[4] = va[2]
  BY DEF TableAddress
<1> HIDE DEF a
<1>2. \A level \in {1, 2} : Visit(mem, a, Through(boot_pml4), level) = Through(boot_pml4)
  BY <1>1, VisitThrough DEF To
<1>3. Visit(mem, a, Through(boot_pml4), 3) =
        IF first.present THEN Through(first.frame) ELSE Fault
  BY <1>1, VisitThrough
<1>4. Visit(mem, a, Through(first.frame), 4) =
        IF second.present THEN Reached(second.frame) ELSE Fault
  <2> PICK f : f = first.frame
    OBVIOUS
  <2>1. mem[f][a[4]] = second
    BY <1>1
  <2>2. Visit(mem, a, Through(f), 4) =
          IF mem[f][a[4]].present THEN Reached(mem[f][a[4]].frame) ELSE Fault
    BY ONLY VisitThrough
  <2> QED BY ONLY <2>1, <2>2, f = first.frame
<1>5. Walk(mem, a) = Visit(mem, a, Visit(mem, a, Visit(mem, a,
                       Visit(mem, a, Through(boot_pml4), 1), 2), 3), 4)
  BY <1>1 DEF Walk, Root, Through
<1> QED BY <1>2, <1>3, <1>4, <1>5, VisitLeaf DEF a

LEMMA ReachNoTable ==
  ASSUME NEW mem, NEW va
  PROVE  Walk(mem, TableAddress(va, 4)) = Fault
  BY DEF Walk, TableAddress

(* The translation of an address by the layers: there are huge pages only.   *)
Translation(mem, va) ==
  LET first == mem[boot_pml4][va[1]]
      second == mem[first.frame][va[2]]
      third == mem[second.frame][va[3]]
  IN  IF first.present /\ second.present /\ third.present THEN Reached(third.frame) ELSE Fault

LEMMA WalkTranslates ==
  ASSUME NEW mem, NEW upper, NEW middle, Layered(mem, upper, middle), NEW va \in Callers
  PROVE  Walk(mem, va) = Translation(mem, va)
<1> DEFINE first == mem[boot_pml4][va[1]]
           second == mem[first.frame][va[2]]
           third == mem[second.frame][va[3]]
<1> HIDE DEF first, second, third
<1>1. Walk(mem, va) = Visit(mem, va, Visit(mem, va, Visit(mem, va,
                        Visit(mem, va, Through(boot_pml4), 1), 2), 3), 4)
  BY CallerIn DEF Walk, Root, Through
<1>2. va[1] \in Slots /\ va[2] \in Index /\ va[3] \in Index
  BY CallerIn
<1>3. /\ first.present => first.frame \in upper /\ ~first.huge
      /\ first.present /\ second.present => second.frame \in middle /\ ~second.huge
      /\ first.present /\ second.present /\ third.present => third.huge
  <2>1. first.present => first.frame \in upper /\ ~first.huge
    BY <1>2 DEF Layered, first
  <2>2. first.present /\ second.present => second.frame \in middle /\ ~second.huge
    BY <1>2, <2>1 DEF Layered, second
  <2>3. first.present /\ second.present /\ third.present => third.huge
    BY <1>2, <2>2 DEF Layered, third
  <2> QED BY <2>1, <2>2, <2>3
<1>4. Visit(mem, va, Through(boot_pml4), 1) = IF first.present THEN Through(first.frame) ELSE Fault
  BY VisitThrough DEF first
<1>5. first.present => Visit(mem, va, Through(first.frame), 2) =
        IF second.present THEN Through(second.frame) ELSE Fault
  BY <1>3, VisitThrough DEF second
<1>6. first.present /\ second.present => Visit(mem, va, Through(second.frame), 3) =
        IF third.present THEN Reached(third.frame) ELSE Fault
  BY <1>3, VisitThrough DEF third
<1>7. Walk(mem, va) = IF first.present /\ second.present /\ third.present
                        THEN Reached(third.frame) ELSE Fault
  BY <1>1, <1>4, <1>5, <1>6, VisitLeaf
<1> QED BY <1>7 DEF Translation, first, second, third

--------------------------------------------------------------------------------
(* Linking a page into a table and clearing it. *)
Link(mem, table, index, page) ==
  [[mem EXCEPT ![table][index] = To(page)] EXCEPT ![page] = EmptyTable]

LEMMA LinkIn ==
  ASSUME NEW mem \in Tables, NEW table \in Frames, NEW i \in Index,
         NEW page \in Frames \ {table}, NEW new, new = Link(mem, table, i, page)
  PROVE  /\ new \in Tables
         /\ new[page] = EmptyTable /\ new[table][i] = To(page)
         /\ \A j \in Index \ {i} : new[table][j] = mem[table][j]
         /\ \A t \in Frames \ {table, page} : new[t] = mem[t]
<1>1. To(page) \in Entries /\ EmptyTable \in [Index -> Entries]
  BY DEF To, Entries, EmptyTable, Absent, Frames
<1> QED BY <1>1 DEF Link, Tables

LEMMA LinkUpper ==
  ASSUME NEW mem \in Tables, NEW upper, NEW middle, Layered(mem, upper, middle),
         NEW i \in Slots, ~mem[boot_pml4][i].present,
         NEW page \in Frames \ (upper \cup middle \cup {boot_pml4}),
         NEW new, new = Link(mem, boot_pml4, i, page)
  PROVE  /\ new \in Tables /\ Layered(new, upper \cup {page}, middle)
         /\ new[boot_pml4][RECURSIVE_INDEX] = mem[boot_pml4][RECURSIVE_INDEX]
         /\ \A va \in Callers : Translation(new, va) = Translation(mem, va)
<1>1. /\ new \in Tables
      /\ new[page] = EmptyTable /\ new[boot_pml4][i] = To(page)
      /\ \A j \in Index \ {i} : new[boot_pml4][j] = mem[boot_pml4][j]
      /\ \A t \in upper \cup middle : new[t] = mem[t]
  <2>1. boot_pml4 \in Frames /\ i \in Index /\ page \in Frames \ {boot_pml4}
    BY VmmAssumption DEF Slots
  <2>2. upper \cup middle \subseteq Frames \ {boot_pml4, page}
    BY DEF Layered
  <2> QED BY <2>1, <2>2, LinkIn
<1>2. \A j \in Index : ~new[page][j].present
  BY <1>1 DEF EmptyTable, Absent
<1>3. new[boot_pml4][i].present /\ new[boot_pml4][i].frame = page /\ ~new[boot_pml4][i].huge
  BY <1>1 DEF To
<1>4. RECURSIVE_INDEX \in Index \ {i}
  BY VmmAssumption DEF Slots, Index
<1>5. Layered(new, upper \cup {page}, middle)
  <2>1. ASSUME NEW j \in Slots, new[boot_pml4][j].present
        PROVE  new[boot_pml4][j].frame \in upper \cup {page} /\ ~new[boot_pml4][j].huge
    BY <1>1, <1>3, <2>1 DEF Layered, Slots
  <2>2. ASSUME NEW t \in upper \cup {page}, NEW j \in Index, new[t][j].present
        PROVE  new[t][j].frame \in middle /\ ~new[t][j].huge
    BY <1>1, <1>2, <2>2 DEF Layered
  <2>3. ASSUME NEW t \in upper \cup {page}
        PROVE  \E j \in Slots : new[boot_pml4][j].present /\ new[boot_pml4][j].frame = t
    BY <1>1, <1>3 DEF Layered, Slots
  <2>4. \A t \in middle, j \in Index : new[t][j].present => new[t][j].huge
    BY <1>1 DEF Layered
  <2>5. \A t \in middle : \E u \in upper \cup {page}, j \in Index :
          new[u][j].present /\ new[u][j].frame = t
    BY <1>1 DEF Layered
  <2> QED BY <2>1, <2>2, <2>3, <2>4, <2>5 DEF Layered
<1>6. ASSUME NEW va \in Callers PROVE Translation(new, va) = Translation(mem, va)
  <2>1. va[1] \in Slots /\ va[2] \in Index
    BY CallerIn
  <2>2. CASE va[1] = i
    BY <1>2, <1>3, <2>1, <2>2 DEF Translation
  <2>3. CASE va[1] # i
    <3> DEFINE first == mem[boot_pml4][va[1]]
               second == mem[first.frame][va[2]]
    <3>1. new[boot_pml4][va[1]] = first
      BY <1>1, <2>1, <2>3 DEF Slots
    <3>2. first.present => first.frame \in upper
      BY <2>1 DEF Layered
    <3>3. first.present => new[first.frame] = mem[first.frame]
      BY <1>1, <3>2
    <3>4. first.present /\ second.present => second.frame \in middle
      <4>1. \A t \in upper, j \in Index : mem[t][j].present => mem[t][j].frame \in middle
        BY ONLY Layered(mem, upper, middle) DEF Layered
      <4> QED BY ONLY <2>1, <3>2, <4>1
    <3>5. first.present /\ second.present => new[second.frame] = mem[second.frame]
      BY <1>1, <3>4
    <3> HIDE DEF first
    <3> QED BY <3>1, <3>3, <3>5 DEF Translation, first
  <2> QED BY <2>2, <2>3
<1> QED BY <1>1, <1>4, <1>5, <1>6

LEMMA LinkMiddle ==
  ASSUME NEW mem \in Tables, NEW upper, NEW middle, Layered(mem, upper, middle),
         NEW table \in upper, NEW i \in Index, ~mem[table][i].present,
         NEW page \in Frames \ (upper \cup middle \cup {boot_pml4}),
         NEW new, new = Link(mem, table, i, page)
  PROVE  /\ new \in Tables /\ Layered(new, upper, middle \cup {page})
         /\ new[boot_pml4] = mem[boot_pml4]
         /\ \A va \in Callers : Translation(new, va) = Translation(mem, va)
<1>1. /\ new \in Tables
      /\ new[page] = EmptyTable /\ new[table][i] = To(page)
      /\ \A j \in Index \ {i} : new[table][j] = mem[table][j]
      /\ \A t \in (upper \ {table}) \cup middle \cup {boot_pml4} : new[t] = mem[t]
  <2>1. table \in Frames /\ page \in Frames \ {table}
    BY DEF Layered
  <2>2. (upper \ {table}) \cup middle \cup {boot_pml4} \subseteq Frames \ {table, page}
    BY VmmAssumption DEF Layered
  <2> QED BY <2>1, <2>2, LinkIn
<1>2. \A j \in Index : ~new[page][j].present
  BY <1>1 DEF EmptyTable, Absent
<1>3. new[table][i].present /\ new[table][i].frame = page /\ ~new[table][i].huge
  BY <1>1 DEF To
<1>4. new[boot_pml4] = mem[boot_pml4]
  BY <1>1
<1>5. Layered(new, upper, middle \cup {page})
  <2>1. ASSUME NEW t \in upper, NEW j \in Index, new[t][j].present
        PROVE  new[t][j].frame \in middle \cup {page} /\ ~new[t][j].huge
    <3>1. CASE t = table /\ j = i
      BY <1>3, <3>1
    <3>2. CASE ~(t = table /\ j = i)
      <4>1. new[t][j] = mem[t][j]
        BY <1>1, <3>2
      <4> QED BY <2>1, <4>1 DEF Layered
    <3> QED BY <3>1, <3>2
  <2>2. ASSUME NEW t \in middle \cup {page}, NEW j \in Index, new[t][j].present
        PROVE  new[t][j].huge
    BY <1>1, <1>2, <2>2 DEF Layered
  <2>3. ASSUME NEW t \in middle \cup {page}
        PROVE  \E u \in upper, j \in Index : new[u][j].present /\ new[u][j].frame = t
    <3>1. CASE t = page
      BY <1>3, <3>1
    <3>2. CASE t \in middle
      <4>1. PICK u \in upper, j \in Index : mem[u][j].present /\ mem[u][j].frame = t
        BY <3>2 DEF Layered
      <4>2. new[u][j] = mem[u][j]
        BY <1>1, <4>1
      <4> QED BY <4>1, <4>2
    <3> QED BY <3>1, <3>2
  <2>4. /\ \A j \in Slots : new[boot_pml4][j].present =>
             new[boot_pml4][j].frame \in upper /\ ~new[boot_pml4][j].huge
        /\ \A t \in upper : \E j \in Slots :
             new[boot_pml4][j].present /\ new[boot_pml4][j].frame = t
    BY <1>4 DEF Layered
  <2>5. /\ upper \cup (middle \cup {page}) \subseteq Frames \ {boot_pml4}
        /\ upper \cap (middle \cup {page}) = {}
    BY DEF Layered
  <2> QED BY <2>1, <2>2, <2>3, <2>4, <2>5 DEF Layered
<1>6. ASSUME NEW va \in Callers PROVE Translation(new, va) = Translation(mem, va)
  <2> DEFINE first == mem[boot_pml4][va[1]]
             second == mem[first.frame][va[2]]
  <2>1. va[1] \in Slots /\ va[2] \in Index /\ va[3] \in Index
    BY CallerIn
  <2>2. new[boot_pml4][va[1]] = first
    BY <1>4
  <2>3. first.present => first.frame \in upper
    BY <2>1 DEF Layered
  <2>4. CASE first.present /\ first.frame = table /\ va[2] = i
    <3>1. ~second.present /\ new[first.frame][va[2]].frame = page
      BY <1>3, <2>4
    <3>2. ~new[page][va[3]].present
      BY <1>2, <2>1
    <3> HIDE DEF first, second
    <3> QED BY <2>2, <3>1, <3>2 DEF Translation, first, second
  <2>5. CASE first.present /\ ~(first.frame = table /\ va[2] = i)
    <3>1. new[first.frame][va[2]] = second
      BY <1>1, <2>1, <2>3, <2>5
    <3>2. second.present => second.frame \in middle
      <4>1. \A t \in upper, j \in Index : mem[t][j].present => mem[t][j].frame \in middle
        BY ONLY Layered(mem, upper, middle) DEF Layered
      <4> QED BY ONLY <2>1, <2>3, <2>5, <4>1
    <3>3. second.present => new[second.frame] = mem[second.frame]
      BY <1>1, <3>2
    <3> HIDE DEF first, second
    <3> QED BY <2>2, <3>1, <3>3 DEF Translation, first, second
  <2>6. CASE ~first.present
    BY <2>2, <2>6 DEF Translation
  <2> QED BY <2>4, <2>5, <2>6
<1> QED BY <1>1, <1>4, <1>5, <1>6

--------------------------------------------------------------------------------
(* Calls in progress. *)
CallTypes ==
  [pm : [bits : SUBSET Nat, used : Int], mem : Tables, tables : SUBSET Nat,
   lost : SUBSET Nat, end : {"goes_on", "out_of_memory", "not_mapped", "fault"}]

\* A call that has not faulted keeps the tree and what the callers' addresses
\* translate to; whatever it does, each page in use has one owner.
Sound(call) ==
  /\ call \in CallTypes
  /\ TablesAccounted(call.pm.bits, call.tables, call.lost)
  /\ call.end # "fault" =>
       /\ call.mem[boot_pml4][RECURSIVE_INDEX] = To(boot_pml4)
       /\ Tree(call.mem, call.tables)
       /\ \A va \in Callers : Translation(call.mem, va) = Translation(memory, va)

\* What a call may count on.
Running ==
  /\ Types /\ Layout /\ KernelInBoot /\ phase = "ready" /\ Page \subseteq Frames

LEMMA StopSound ==
  ASSUME NEW call, Sound(call), NEW why \in {"out_of_memory", "not_mapped", "fault"},
         call.end = "goes_on"
  PROVE  Sound(Stop(call, why))
<1>1. /\ Stop(call, why) \in CallTypes /\ Stop(call, why).end = why
      /\ Stop(call, why).pm = call.pm /\ Stop(call, why).mem = call.mem
      /\ Stop(call, why).tables = call.tables /\ Stop(call, why).lost = call.lost
  BY DEF Stop, Sound, CallTypes
<1> QED BY <1>1 DEF Sound

(* The tables of boot_minimal.S lie in the kernel, whose pages stay in use.  *)
LEMMA BootTablesInUse ==
  ASSUME Running
  PROVE  {boot_pml4, boot_pdpt, boot_pd, boot_pd_high} \cap Page \subseteq boot_used
<1> SUFFICES ASSUME NEW p \in {boot_pml4, boot_pdpt, boot_pd, boot_pd_high}, p \in Page
             PROVE  p \in KernelPages
  BY DEF Running, KernelInBoot
<1>1. p \in Nat /\ KernelStart <= p * PageSize /\ p * PageSize < KernelEnd
  BY VmmAssumption DEF Frames
<1>2. p >= KernelStart \div PageSize
  <2>1. KernelStart \in Nat /\ PageSize \in Nat \ {0} /\ p * PageSize \in Nat
    BY <1>1, PmmAssumption
  <2>2. KernelStart \div PageSize <= (p * PageSize) \div PageSize
    BY <1>1, <2>1, DivMonotone
  <2>3. (p * PageSize) \div PageSize = p
    BY <1>1, <2>1
  <2> QED BY <2>2, <2>3
<1>3. p * PageSize < BitmapEnd
  <2>1. KernelEnd <= pmm_bitmap /\ pmm_bitmap \in Nat
    BY DEF Running, Layout, Types
  <2>2. BitmapSize \in Nat
    BY PagesInBitmap DEF Running
  <2>3. KernelEnd \in Nat /\ p * PageSize \in Nat
    BY <1>1, PmmAssumption
  <2> QED BY <1>1, <2>1, <2>2, <2>3 DEF BitmapEnd
<1> QED BY <1>2, <1>3 DEF KernelPages

(* The page a call takes is none of the tables, and the call its only owner. *)
LEMMA PageTaken ==
  ASSUME Running, NEW bits, NEW ts, NEW gone, TablesAccounted(bits, ts, gone),
         ~(Page \subseteq bits), NEW page, page = Min(Page \ bits)
  PROVE  /\ page \in Page \ bits
         /\ page \in Frames \ (ts \cup {boot_pml4, boot_pdpt, boot_pd, boot_pd_high})
         /\ TablesAccounted(bits \cup {page}, ts \cup {page}, gone)
         /\ page = 0 => TablesAccounted(bits \cup {page}, ts, gone \cup {0})
<1>1. page \in Page \ bits
  <2>1. Page \ bits \in SUBSET Nat /\ Page \ bits # {}
    BY DEF Page, Running, Types
  <2> QED BY <2>1, MinIn
<1>2. page \notin boot_used \cup held \cup gone \cup ts
  BY <1>1 DEF TablesAccounted
<1>3. page \in Frames \ (ts \cup {boot_pml4, boot_pdpt, boot_pd, boot_pd_high})
  BY <1>1, <1>2, BootTablesInUse DEF Running
<1>4. (bits \cup {page}) \cap Page = (bits \cap Page) \cup {page}
  BY <1>1
<1> QED BY <1>1, <1>2, <1>3, <1>4 DEF TablesAccounted

(* What the code makes of a table that is missing, wherever it goes.         *)
NewTableDoes(call, table, index, address) ==
  LET page == Min(Page \ call.pm.bits)
      r == NewTable(call, table, index, address)
      linked == [call.mem EXCEPT ![table][index] = To(page)]
      at == Walk(linked, address)
  IN  /\ r \in CallTypes
      /\ r.pm.bits = call.pm.bits \cup {page}
      /\ page = 0 => /\ r.mem = call.mem /\ r.tables = call.tables
                     /\ r.lost = call.lost \cup {0} /\ r.end = "out_of_memory"
      /\ page # 0 => /\ r.tables = call.tables \cup {page} /\ r.lost = call.lost
                     /\ at.ok => /\ r.mem = [linked EXCEPT ![at.frame] = EmptyTable]
                                 /\ r.end = call.end
                     /\ ~at.ok => r.end = "fault"

LEMMA NewTableIs ==
  ASSUME Running, NEW call \in CallTypes, NEW table \in Frames, NEW index \in Index, NEW address,
         ~(Page \subseteq call.pm.bits), Min(Page \ call.pm.bits) \in Page
  PROVE  NewTableDoes(call, table, index, address)
<1> PICK page \in Page : page = Min(Page \ call.pm.bits)
  OBVIOUS
<1> PICK r, linked : /\ r = NewTable(call, table, index, address)
                     /\ linked = [call.mem EXCEPT ![table][index] = To(page)]
  OBVIOUS
<1> PICK at : at = Walk(linked, address)
  OBVIOUS
<1> SUFFICES /\ r \in CallTypes
             /\ r.pm.bits = call.pm.bits \cup {page}
             /\ page = 0 => /\ r.mem = call.mem /\ r.tables = call.tables
                            /\ r.lost = call.lost \cup {0} /\ r.end = "out_of_memory"
             /\ page # 0 => /\ r.tables = call.tables \cup {page} /\ r.lost = call.lost
                            /\ at.ok => /\ r.mem = [linked EXCEPT ![at.frame] = EmptyTable]
                                        /\ r.end = call.end
                            /\ ~at.ok => r.end = "fault"
  BY DEF NewTableDoes
<1> DEFINE taken == [call EXCEPT !.pm = TakePage(call.pm)]
           gone == [taken EXCEPT !.lost = @ \cup {0}]
           made == [taken EXCEPT !.mem[table][index] = To(page), !.tables = @ \cup {page}]
<1>1. page \in Nat /\ To(page) \in Entries /\ EmptyTable \in [Index -> Entries]
  BY DEF To, Entries, EmptyTable, Absent, Page, Running, Types
<1>2. linked \in Tables /\ \A f : [linked EXCEPT ![f] = EmptyTable] \in Tables
  BY <1>1 DEF Tables, CallTypes
<1>3. /\ TakePage(call.pm) \in [bits : SUBSET Nat, used : Int]
      /\ TakePage(call.pm).bits = call.pm.bits \cup {page}
  BY <1>1 DEF TakePage, CallTypes
<1>4. /\ taken \in CallTypes /\ taken.pm = TakePage(call.pm) /\ taken.mem = call.mem
      /\ taken.tables = call.tables /\ taken.lost = call.lost /\ taken.end = call.end
  BY <1>3 DEF CallTypes
<1>5. r = IF page = 0 THEN Stop(gone, "out_of_memory") ELSE ClearTable(made, address)
  BY DEF NewTable
<1> HIDE DEF taken
<1>6. CASE page = 0
  <2>1. /\ gone \in CallTypes /\ gone.pm = taken.pm /\ gone.mem = taken.mem
        /\ gone.tables = taken.tables /\ gone.lost = taken.lost \cup {0}
    BY <1>4 DEF CallTypes
  <2> HIDE DEF gone
  <2>2. r = [gone EXCEPT !.end = "out_of_memory"]
    BY <1>5, <1>6 DEF Stop
  <2>3. /\ r \in CallTypes /\ r.pm = gone.pm /\ r.mem = gone.mem /\ r.tables = gone.tables
        /\ r.lost = gone.lost /\ r.end = "out_of_memory"
    BY <2>1, <2>2 DEF CallTypes
  <2> QED BY <1>3, <1>4, <1>6, <2>1, <2>3
<1>7. CASE page # 0
  <2>1. made = [taken EXCEPT !.mem = linked, !.tables = taken.tables \cup {page}]
    BY <1>4 DEF CallTypes
  <2> HIDE DEF made
  <2>2. /\ made \in CallTypes /\ made.pm = taken.pm /\ made.mem = linked
        /\ made.tables = taken.tables \cup {page} /\ made.lost = taken.lost
        /\ made.end = taken.end
    BY <1>1, <1>2, <1>4, <2>1 DEF CallTypes
  <2>3. r = IF at.ok THEN [made EXCEPT !.mem[at.frame] = EmptyTable] ELSE [made EXCEPT !.end = "fault"]
    BY <1>5, <1>7, <2>2 DEF ClearTable, Stop
  <2>4. CASE at.ok
    <3>1. PICK m \in Tables : m = [linked EXCEPT ![at.frame] = EmptyTable]
      BY <1>2
    <3>2. r = [made EXCEPT !.mem = m]
      BY <2>2, <2>3, <2>4, <3>1
    <3>3. /\ r \in CallTypes /\ r.pm = made.pm /\ r.tables = made.tables /\ r.lost = made.lost
          /\ r.end = made.end /\ r.mem = m
      BY ONLY m \in Tables, <2>2, <3>2 DEF CallTypes
    <3> QED BY <1>3, <1>4, <1>7, <2>2, <2>4, <3>1, <3>3
  <2>5. CASE ~at.ok
    <3>1. r = [made EXCEPT !.end = "fault"] /\ made \in CallTypes
      BY ONLY <2>2, <2>3, <2>5
    <3>2. /\ r \in CallTypes /\ r.pm = made.pm /\ r.tables = made.tables /\ r.lost = made.lost
          /\ r.end = "fault"
      BY ONLY <3>1 DEF CallTypes
    <3>3. /\ r \in CallTypes /\ r.pm.bits = call.pm.bits \cup {page}
          /\ r.tables = call.tables \cup {page} /\ r.lost = call.lost /\ r.end = "fault"
      BY ONLY <1>3, <1>4, <2>2, <3>2
    <3> QED BY <1>7, <2>5, <3>3
  <2> QED BY <2>4, <2>5
<1> QED BY <1>6, <1>7

--------------------------------------------------------------------------------
\* Wherever the page comes from, the tree takes it and no caller's address
\* translates to anything else; or clearing it through its address faults.
Fits(call, table, index, address) ==
  \A page \in Frames \ (call.tables \cup {boot_pml4, boot_pdpt, boot_pd, boot_pd_high}) :
    LET new == Link(call.mem, table, index, page)
        at == Walk([call.mem EXCEPT ![table][index] = To(page)], address)
    IN  \/ at = Fault
        \/ /\ at = Reached(page)
           /\ new[boot_pml4][RECURSIVE_INDEX] = To(boot_pml4)
           /\ Tree(new, call.tables \cup {page})
           /\ \A va \in Callers : Translation(new, va) = Translation(call.mem, va)

LEMMA NewTableSound ==
  ASSUME Running, NEW call, Sound(call), call.end = "goes_on",
         NEW table \in Frames, NEW index \in Index, NEW address,
         Fits(call, table, index, address)
  PROVE  Sound(NewTable(call, table, index, address))
<1>1. CASE Page \subseteq call.pm.bits
  BY <1>1, StopSound DEF NewTable
<1>2. CASE ~(Page \subseteq call.pm.bits)
  <2> PICK page : page = Min(Page \ call.pm.bits)
    OBVIOUS
  <2> DEFINE linked == [call.mem EXCEPT ![table][index] = To(page)]
             at == Walk(linked, address)
             r == NewTable(call, table, index, address)
             new == Link(call.mem, table, index, page)
  <2>1. call \in CallTypes /\ TablesAccounted(call.pm.bits, call.tables, call.lost)
    BY DEF Sound
  <2>2. /\ page \in Page
        /\ page \in Frames \ (call.tables \cup {boot_pml4, boot_pdpt, boot_pd, boot_pd_high})
        /\ TablesAccounted(call.pm.bits \cup {page}, call.tables \cup {page}, call.lost)
        /\ page = 0 => TablesAccounted(call.pm.bits \cup {page}, call.tables, call.lost \cup {0})
    <3> DEFINE bits == call.pm.bits
               ts == call.tables
               gone == call.lost
    <3>1. TablesAccounted(bits, ts, gone) /\ ~(Page \subseteq bits) /\ page = Min(Page \ bits)
      BY <1>2, <2>1
    <3> HIDE DEF bits, ts, gone
    <3>2. /\ page \in Page \ bits
          /\ page \in Frames \ (ts \cup {boot_pml4, boot_pdpt, boot_pd, boot_pd_high})
          /\ TablesAccounted(bits \cup {page}, ts \cup {page}, gone)
          /\ page = 0 => TablesAccounted(bits \cup {page}, ts, gone \cup {0})
      BY ONLY Running, <3>1, PageTaken
    <3> QED BY <3>2 DEF bits, ts, gone
  <2>3. /\ r \in CallTypes
        /\ r.pm.bits = call.pm.bits \cup {page}
        /\ page = 0 => /\ r.mem = call.mem /\ r.tables = call.tables
                       /\ r.lost = call.lost \cup {0} /\ r.end = "out_of_memory"
        /\ page # 0 => /\ r.tables = call.tables \cup {page} /\ r.lost = call.lost
                       /\ at.ok => /\ r.mem = [linked EXCEPT ![at.frame] = EmptyTable]
                                   /\ r.end = call.end
                       /\ ~at.ok => r.end = "fault"
    <3>1. Min(Page \ call.pm.bits) \in Page
      BY <2>2
    <3>2. NewTableDoes(call, table, index, address)
      BY <1>2, <2>1, <3>1, NewTableIs
    <3> QED BY <3>2 DEF NewTableDoes
  <2>4. \/ at = Fault
        \/ /\ at = Reached(page)
           /\ new[boot_pml4][RECURSIVE_INDEX] = To(boot_pml4)
           /\ Tree(new, call.tables \cup {page})
           /\ \A va \in Callers : Translation(new, va) = Translation(call.mem, va)
    BY <2>2 DEF Fits
  <2>5. at = Reached(page) => at.ok /\ new = [linked EXCEPT ![at.frame] = EmptyTable]
    BY DEF Link, Reached
  <2>6. at = Fault => ~at.ok
    BY DEF Fault
  <2> SUFFICES Sound(r)
    OBVIOUS
  <2> HIDE DEF linked, at, r, new
  <2>7. CASE page = 0
    BY <2>2, <2>3, <2>7 DEF Sound
  <2>8. CASE page # 0 /\ at = Fault
    BY <2>2, <2>3, <2>6, <2>8 DEF Sound
  <2>9. CASE page # 0 /\ at = Reached(page)
    BY <2>2, <2>3, <2>4, <2>5, <2>6, <2>9 DEF Sound
  <2> QED BY <2>4, <2>7, <2>8, <2>9
<1> QED BY <1>1, <1>2

(* The first level of vmm_map_page: a table below the PML4. *)
LEMMA FirstFits ==
  ASSUME NEW call, Sound(call), call.end = "goes_on", NEW va \in Callers,
         ~call.mem[boot_pml4][va[1]].present
  PROVE  Fits(call, boot_pml4, va[1], TableAddress(va, 2))
<1> DEFINE ts == call.tables
           mem == call.mem
<1>1. mem \in Tables /\ mem[boot_pml4][RECURSIVE_INDEX] = To(boot_pml4) /\ Tree(mem, ts)
  BY DEF Sound, CallTypes
<1>2. PICK upper, middle \in SUBSET Frames :
        Layered(mem, upper, middle) /\ upper \cup middle = ts \cup {boot_pdpt, boot_pd, boot_pd_high}
  BY <1>1 DEF Tree
<1> SUFFICES ASSUME NEW page \in Frames \ (ts \cup {boot_pml4, boot_pdpt, boot_pd, boot_pd_high})
             PROVE  LET new == Link(mem, boot_pml4, va[1], page)
                        at == Walk([mem EXCEPT ![boot_pml4][va[1]] = To(page)], TableAddress(va, 2))
                    IN  /\ at = Reached(page)
                        /\ new[boot_pml4][RECURSIVE_INDEX] = To(boot_pml4)
                        /\ Tree(new, ts \cup {page})
                        /\ \A a \in Callers : Translation(new, a) = Translation(mem, a)
  BY DEF Fits
<1> HIDE DEF ts, mem
<1>3. va[1] \in Slots /\ va[1] \in Index /\ va[1] # RECURSIVE_INDEX /\ boot_pml4 \in Frames
      /\ RECURSIVE_INDEX \in Index
  BY CallerIn, VmmAssumption DEF Slots, Index
<1>4. Walk([mem EXCEPT ![boot_pml4][va[1]] = To(page)], TableAddress(va, 2)) = Reached(page)
  <2> DEFINE linked == [mem EXCEPT ![boot_pml4][va[1]] = To(page)]
  <2>1. /\ linked[boot_pml4][RECURSIVE_INDEX] = To(boot_pml4)
        /\ linked[boot_pml4][va[1]] = To(page)
    BY <1>1, <1>3 DEF Tables
  <2> HIDE DEF linked
  <2>2. linked[boot_pml4][va[1]].present /\ linked[boot_pml4][va[1]].frame = page
    BY <2>1 DEF To
  <2> QED BY <2>1, <2>2, ReachUpper DEF linked
<1> DEFINE new == Link(mem, boot_pml4, va[1], page)
<1>5. /\ new \in Tables /\ Layered(new, upper \cup {page}, middle)
      /\ new[boot_pml4][RECURSIVE_INDEX] = mem[boot_pml4][RECURSIVE_INDEX]
      /\ \A a \in Callers : Translation(new, a) = Translation(mem, a)
  <2>1. page \in Frames \ (upper \cup middle \cup {boot_pml4})
    BY <1>2
  <2>2. ~mem[boot_pml4][va[1]].present
    BY DEF mem
  <2> QED BY <1>1, <1>2, <1>3, <2>1, <2>2, LinkUpper
<1> HIDE DEF new
<1>6. Tree(new, ts \cup {page})
  <2>1. upper \cup {page} \in SUBSET Frames
        /\ (upper \cup {page}) \cup middle = (ts \cup {page}) \cup {boot_pdpt, boot_pd, boot_pd_high}
    BY <1>2
  <2> QED BY <1>5, <2>1 DEF Tree
<1> QED BY <1>1, <1>4, <1>5, <1>6 DEF new

(* The second: a table below one of those. *)
LEMMA SecondFits ==
  ASSUME NEW call, Sound(call), call.end = "goes_on", NEW va \in Callers,
         NEW first, first = call.mem[boot_pml4][va[1]], first.present,
         ~call.mem[first.frame][va[2]].present
  PROVE  Fits(call, first.frame, va[2], TableAddress(va, 3)) /\ first.frame \in Frames
<1> DEFINE ts == call.tables
           mem == call.mem
           table == first.frame
<1>1. mem \in Tables /\ mem[boot_pml4][RECURSIVE_INDEX] = To(boot_pml4) /\ Tree(mem, ts)
  BY DEF Sound, CallTypes
<1>2. PICK upper, middle \in SUBSET Frames :
        Layered(mem, upper, middle) /\ upper \cup middle = ts \cup {boot_pdpt, boot_pd, boot_pd_high}
  BY <1>1 DEF Tree
<1>3. va[1] \in Slots /\ va[2] \in Index
  BY CallerIn
<1>4. table \in upper /\ ~first.huge /\ table \in Frames \ {boot_pml4}
  BY <1>2, <1>3 DEF Layered
<1> SUFFICES ASSUME NEW page \in Frames \ (ts \cup {boot_pml4, boot_pdpt, boot_pd, boot_pd_high})
             PROVE  LET new == Link(mem, table, va[2], page)
                        at == Walk([mem EXCEPT ![table][va[2]] = To(page)], TableAddress(va, 3))
                    IN  /\ at = Reached(page)
                        /\ new[boot_pml4][RECURSIVE_INDEX] = To(boot_pml4)
                        /\ Tree(new, ts \cup {page})
                        /\ \A a \in Callers : Translation(new, a) = Translation(mem, a)
  BY <1>4 DEF Fits
<1>5. first = mem[boot_pml4][va[1]] /\ first.present /\ ~mem[table][va[2]].present
  OBVIOUS
<1> HIDE DEF ts, mem, table
<1>6. Walk([mem EXCEPT ![table][va[2]] = To(page)], TableAddress(va, 3)) = Reached(page)
  <2> DEFINE linked == [mem EXCEPT ![table][va[2]] = To(page)]
  <2>1. linked[boot_pml4] = mem[boot_pml4] /\ linked[table][va[2]] = To(page)
    <3> PICK i, entry : i = va[2] /\ entry = To(page)
      OBVIOUS
    <3>1. /\ mem \in [Frames -> [Index -> Entries]] /\ table \in Frames /\ table # boot_pml4
          /\ boot_pml4 \in Frames /\ i \in Index
      BY <1>1, <1>3, <1>4, VmmAssumption DEF Tables
    <3>2. [mem EXCEPT ![table][i] = entry][boot_pml4] = mem[boot_pml4]
      BY ONLY <3>1
    <3>3. [mem EXCEPT ![table][i] = entry][table][i] = entry
      BY ONLY <3>1
    <3> QED BY <3>2, <3>3
  <2> HIDE DEF linked
  <2> PICK second : second = linked[first.frame][va[2]]
    OBVIOUS
  <2>2. second.present /\ second.frame = page
    <3>1. second = To(page)
      BY <2>1 DEF table
    <3> QED BY ONLY <3>1 DEF To
  <2>3. linked[boot_pml4][RECURSIVE_INDEX] = To(boot_pml4) /\ first = linked[boot_pml4][va[1]]
    BY <1>1, <1>5, <2>1
  <2>4. Walk(linked, TableAddress(va, 3)) =
          IF first.present /\ second.present THEN Reached(second.frame) ELSE Fault
    BY <1>4, <2>3, ReachMiddle
  <2> QED BY <1>5, <2>2, <2>4 DEF linked
<1> DEFINE new == Link(mem, table, va[2], page)
<1>7. /\ new \in Tables /\ Layered(new, upper, middle \cup {page})
      /\ new[boot_pml4] = mem[boot_pml4]
      /\ \A a \in Callers : Translation(new, a) = Translation(mem, a)
  <2> PICK i : i = va[2]
    OBVIOUS
  <2>1. /\ mem \in Tables /\ Layered(mem, upper, middle) /\ table \in upper
        /\ i \in Index /\ ~mem[table][i].present
        /\ page \in Frames \ (upper \cup middle \cup {boot_pml4})
    BY <1>1, <1>2, <1>3, <1>4, <1>5
  <2>2. new = Link(mem, table, i, page)
    OBVIOUS
  <2> HIDE DEF new
  <2> QED BY ONLY <2>1, <2>2, LinkMiddle
<1> HIDE DEF new
<1>8. Tree(new, ts \cup {page})
  <2>1. middle \cup {page} \in SUBSET Frames
        /\ upper \cup (middle \cup {page}) = (ts \cup {page}) \cup {boot_pdpt, boot_pd, boot_pd_high}
    BY <1>2
  <2> QED BY <1>7, <2>1 DEF Tree
<1> QED BY <1>1, <1>6, <1>7, <1>8 DEF new

(* The third: a page table.  PT_VIRT_ADDR is not canonical. *)
LEMMA ThirdFits ==
  ASSUME NEW call, NEW table, NEW index, NEW va
  PROVE  Fits(call, table, index, TableAddress(va, 4))
  BY ReachNoTable DEF Fits

(* Level as a walk that ends in a fault, and as a walk that reaches a table. *)
LEMMA LevelFaults ==
  ASSUME NEW call, NEW va, NEW level,
         call.end = "goes_on" /\ ~Walk(call.mem, TableAddress(va, level)).ok
  PROVE  Level(call, va, level) = Stop(call, "fault")
  BY DEF Level

LEMMA LevelReaches ==
  ASSUME NEW call, NEW va, NEW level, NEW frame,
         call.end = "goes_on" /\ Walk(call.mem, TableAddress(va, level)) = Reached(frame)
  PROVE  Level(call, va, level) =
           IF call.mem[frame][va[level]].present THEN call
           ELSE NewTable(call, frame, va[level], TableAddress(va, level + 1))
<1> PICK at : at = Walk(call.mem, TableAddress(va, level))
  OBVIOUS
<1>1. at.ok /\ at.frame = frame
  BY DEF Reached
<1> HIDE DEF Reached
<1>2. Level(call, va, level) =
        IF call.mem[at.frame][va[level]].present THEN call
        ELSE NewTable(call, at.frame, va[level], TableAddress(va, level + 1))
  BY <1>1 DEF Level
<1> QED BY <1>1, <1>2

LEMMA FirstLevelSound ==
  ASSUME Running, NEW call, Sound(call), NEW va \in Callers
  PROVE  Sound(Level(call, va, 1))
<1>1. CASE call.end # "goes_on"
  BY <1>1 DEF Level
<1>2. CASE call.end = "goes_on"
  <2>1. Walk(call.mem, TableAddress(va, 1)) = Reached(boot_pml4)
    BY <1>2, ReachPml4 DEF Sound
  <2>2. Level(call, va, 1) = IF call.mem[boot_pml4][va[1]].present THEN call
                             ELSE NewTable(call, boot_pml4, va[1], TableAddress(va, 2))
    BY <1>2, <2>1 DEF Level, Reached
  <2>3. boot_pml4 \in Frames /\ va[1] \in Index
    BY CallerIn, VmmAssumption DEF Slots
  <2>4. ASSUME ~call.mem[boot_pml4][va[1]].present
        PROVE  Sound(NewTable(call, boot_pml4, va[1], TableAddress(va, 2)))
    BY <1>2, <2>3, <2>4, FirstFits, NewTableSound
  <2> QED BY <2>2, <2>4
<1> QED BY <1>1, <1>2

LEMMA SecondLevelSound ==
  ASSUME Running, NEW call, Sound(call), NEW va \in Callers
  PROVE  Sound(Level(call, va, 2))
<1>1. CASE call.end # "goes_on"
  BY <1>1 DEF Level
<1>2. CASE call.end = "goes_on"
  <2> PICK first : first = call.mem[boot_pml4][va[1]]
    OBVIOUS
  <2>1. Walk(call.mem, TableAddress(va, 2)) = IF first.present THEN Reached(first.frame) ELSE Fault
    BY <1>2, ReachUpper DEF Sound
  <2>2. Level(call, va, 2) = IF ~first.present THEN Stop(call, "fault")
                             ELSE IF call.mem[first.frame][va[2]].present THEN call
                             ELSE NewTable(call, first.frame, va[2], TableAddress(va, 3))
    <3>1. CASE first.present
      <4>1. call.end = "goes_on" /\ Walk(call.mem, TableAddress(va, 2)) = Reached(first.frame)
        BY <1>2, <2>1, <3>1
      <4>2. Level(call, va, 2) = IF call.mem[first.frame][va[2]].present THEN call
                                 ELSE NewTable(call, first.frame, va[2], TableAddress(va, 2 + 1))
        BY ONLY <4>1, LevelReaches
      <4>3. 2 + 1 = 3
        OBVIOUS
      <4> QED BY ONLY <3>1, <4>2, <4>3
    <3>2. CASE ~first.present
      <4>1. Walk(call.mem, TableAddress(va, 2)) = Fault /\ ~Fault.ok
        BY <2>1, <3>2 DEF Fault
      <4>2. call.end = "goes_on" /\ ~Walk(call.mem, TableAddress(va, 2)).ok
        BY ONLY <1>2, <4>1
      <4>3. Level(call, va, 2) = Stop(call, "fault")
        BY ONLY <4>2, LevelFaults
      <4> QED BY ONLY <3>2, <4>3
    <3> QED BY <3>1, <3>2
  <2>3. va[2] \in Index
    BY CallerIn
  <2>4. ASSUME first.present, ~call.mem[first.frame][va[2]].present
        PROVE  Sound(NewTable(call, first.frame, va[2], TableAddress(va, 3)))
    <3>1. Fits(call, first.frame, va[2], TableAddress(va, 3)) /\ first.frame \in Frames
      BY <1>2, <2>4, SecondFits
    <3> QED BY <1>2, <2>3, <3>1, NewTableSound
  <2> QED BY <1>2, <2>2, <2>4, StopSound
<1> QED BY <1>1, <1>2

LEMMA ThirdLevelSound ==
  ASSUME Running, NEW call, Sound(call), NEW va \in Callers
  PROVE  Sound(Level(call, va, 3))
<1>1. CASE call.end # "goes_on"
  BY <1>1 DEF Level
<1>2. CASE call.end = "goes_on"
  <2> PICK first : first = call.mem[boot_pml4][va[1]]
    OBVIOUS
  <2> PICK second : second = call.mem[first.frame][va[2]]
    OBVIOUS
  <2>1. va[1] \in Slots /\ va[2] \in Index /\ va[3] \in Index
    BY CallerIn
  <2>2. /\ first.present => ~first.huge
        /\ first.present /\ second.present => second.frame \in Frames
    <3>1. PICK upper, middle \in SUBSET Frames : Layered(call.mem, upper, middle)
      BY <1>2 DEF Sound, Tree
    <3>2. first.present => first.frame \in upper /\ ~first.huge
      BY <2>1, <3>1 DEF Layered
    <3>3. ASSUME first.present, second.present PROVE second.frame \in middle
      <4>1. first.frame \in upper /\ call.mem[first.frame][va[2]].present
        BY <3>2, <3>3
      <4>2. \A t \in upper, i \in Index : call.mem[t][i].present => call.mem[t][i].frame \in middle
        BY ONLY <3>1 DEF Layered
      <4> QED BY <2>1, <4>1, <4>2
    <3> QED BY <3>2, <3>3
  <2>3. Walk(call.mem, TableAddress(va, 3)) =
          IF first.present /\ second.present THEN Reached(second.frame) ELSE Fault
    BY <1>2, <2>2, ReachMiddle DEF Sound
  <2>4. Level(call, va, 3) = IF ~(first.present /\ second.present) THEN Stop(call, "fault")
                             ELSE IF call.mem[second.frame][va[3]].present THEN call
                             ELSE NewTable(call, second.frame, va[3], TableAddress(va, 4))
    <3>1. CASE first.present /\ second.present
      <4>1. call.end = "goes_on" /\ Walk(call.mem, TableAddress(va, 3)) = Reached(second.frame)
        BY <1>2, <2>3, <3>1
      <4>2. Level(call, va, 3) = IF call.mem[second.frame][va[3]].present THEN call
                                 ELSE NewTable(call, second.frame, va[3], TableAddress(va, 3 + 1))
        BY ONLY <4>1, LevelReaches
      <4>3. 3 + 1 = 4
        OBVIOUS
      <4> QED BY ONLY <3>1, <4>2, <4>3
    <3>2. CASE ~(first.present /\ second.present)
      <4>1. Walk(call.mem, TableAddress(va, 3)) = Fault /\ ~Fault.ok
        BY <2>3, <3>2 DEF Fault
      <4>2. call.end = "goes_on" /\ ~Walk(call.mem, TableAddress(va, 3)).ok
        BY ONLY <1>2, <4>1
      <4>3. Level(call, va, 3) = Stop(call, "fault")
        BY ONLY <4>2, LevelFaults
      <4> QED BY ONLY <3>2, <4>3
    <3> QED BY <3>1, <3>2
  <2>5. ASSUME first.present, second.present
        PROVE  Sound(NewTable(call, second.frame, va[3], TableAddress(va, 4)))
    BY <1>2, <2>1, <2>2, <2>5, ThirdFits, NewTableSound
  <2> QED BY <1>2, <2>4, <2>5, StopSound
<1> QED BY <1>1, <1>2

LEMMA SetEntrySound ==
  ASSUME NEW call, Sound(call), NEW va, NEW entry
  PROVE  Sound(SetEntry(call, va, entry))
<1>1. Walk(call.mem, TableAddress(va, 4)) = Fault /\ ~Fault.ok
  BY ReachNoTable DEF Fault
<1> QED BY <1>1, StopSound DEF SetEntry

LEMMA LookSound ==
  ASSUME NEW call, Sound(call), NEW va, NEW level
  PROVE  Sound(Look(call, va, level))
  BY StopSound DEF Look

--------------------------------------------------------------------------------
(* A call finds what it counts on. *)
LEMMA CallSound ==
  ASSUME PagingInv, machine = "up"
  PROVE  Running /\ Sound(Call)
<1>1. phase = "ready" /\ Running
  BY DEF PagingInv, Running
<1>2. /\ bitmap \in SUBSET Nat /\ used_pages \in Int
      /\ TablesAccounted(bitmap, tables, lost) /\ Tree(memory, tables)
      /\ memory[boot_pml4][RECURSIVE_INDEX] = To(boot_pml4)
  BY <1>1 DEF PagingInv
<1>3. tables \in SUBSET Nat /\ lost \in SUBSET Nat /\ memory \in Tables
  BY <1>2 DEF TablesAccounted, Tree
<1>4. /\ Call \in CallTypes /\ Call.pm.bits = bitmap /\ Call.tables = tables /\ Call.lost = lost
      /\ Call.mem = memory
  BY <1>2, <1>3 DEF Call, CallTypes, Bits
<1> QED BY <1>1, <1>2, <1>4 DEF Sound

(* What a call leaves when it returns or faults. *)
LEMMA FinishInv ==
  ASSUME PagingInv, NEW call, Sound(call), Finish(call)
  PROVE  /\ PagingInv'
         /\ machine' # "fault" =>
              \A va \in Callers : Translation(memory', va) = Translation(memory, va)
<1>1. phase = "ready" /\ machine = "up"
  BY DEF PagingInv, Finish
<1>2. /\ bitmap' = call.pm.bits /\ used_pages' = call.pm.used /\ memory' = call.mem
      /\ tables' = call.tables /\ lost' = call.lost
      /\ machine' = IF call.end = "fault" THEN "fault" ELSE "up"
      /\ UNCHANGED <<phase, mmap, mb_end, total_memory, total_pages, pmm_bitmap, held, boot_used>>
  BY DEF Finish, fixed, layout
<1>3. Types' /\ Layout' /\ KernelInBoot' /\ Page' = Page
  <2>1. Types /\ Layout /\ KernelInBoot
    BY DEF PagingInv
  <2> QED BY <1>1, <1>2, <2>1 DEF Types, Layout, KernelInBoot, KernelPages, Page, BitmapEnd, BitmapSize
<1>4. bitmap' \in SUBSET Nat /\ used_pages' \in Int /\ TablesAccounted(bitmap, tables, lost)'
  <2>1. call.pm.bits \in SUBSET Nat /\ call.pm.used \in Int
        /\ TablesAccounted(call.pm.bits, call.tables, call.lost)
    BY DEF Sound, CallTypes
  <2> QED BY <1>2, <1>3, <2>1 DEF TablesAccounted
<1>5. machine' # "fault" =>
        /\ machine' = "up" /\ memory'[boot_pml4][RECURSIVE_INDEX] = To(boot_pml4)
        /\ Tree(memory', tables')
        /\ \A va \in Callers : Translation(memory', va) = Translation(memory, va)
  BY <1>2 DEF Sound
<1>6. Tree(memory, tables)' <=> Tree(memory', tables')
  BY DEF Tree, Layered
<1>7. phase' = "ready" /\ Page' \subseteq Frames /\ machine' \in {"up", "fault"}
  BY <1>1, <1>2, <1>3 DEF PagingInv
<1> QED BY <1>3, <1>4, <1>5, <1>6, <1>7 DEF PagingInv

LEMMA MapSound ==
  ASSUME PagingInv, machine = "up", NEW va \in Callers, NEW frame
  PROVE  Sound(SetEntry(Level(Level(Level(Call, va, 1), va, 2), va, 3), va, To(frame)))
  BY CallSound, FirstLevelSound, SecondLevelSound, ThirdLevelSound, SetEntrySound

LEMMA WalkDownSound ==
  ASSUME PagingInv, machine = "up", NEW va \in Callers
  PROVE  Sound(WalkDown(va))
  BY CallSound, LookSound DEF WalkDown

(* Every call keeps the invariant, and every caller's translation.           *)
LEMMA VmmCallInv ==
  ASSUME PagingInv, VmmCall
  PROVE  /\ PagingInv'
         /\ machine' # "fault" =>
              \A va \in Callers : Translation(memory', va) = Translation(memory, va)
<1>1. PICK va \in Callers : vmm_map_page(va, 0) \/ vmm_unmap_page(va) \/ vmm_virt_to_phys(va)
  BY DEF VmmCall
<1>2. CASE vmm_map_page(va, 0)
  <2> PICK call : call = SetEntry(Level(Level(Level(Call, va, 1), va, 2), va, 3), va, To(0))
    OBVIOUS
  <2>1. Finish(call) /\ machine = "up"
    BY <1>2 DEF vmm_map_page, Finish
  <2>2. Sound(call)
    BY <2>1, MapSound
  <2> QED BY <2>1, <2>2, FinishInv
<1>3. CASE vmm_unmap_page(va)
  <2> PICK call : call = SetEntry(WalkDown(va), va, Absent)
    OBVIOUS
  <2>1. Finish(call) /\ machine = "up"
    BY <1>3 DEF vmm_unmap_page, Finish
  <2>2. Sound(call)
    BY <2>1, WalkDownSound, SetEntrySound
  <2> QED BY <2>1, <2>2, FinishInv
<1>4. CASE vmm_virt_to_phys(va)
  <2> PICK down : down = WalkDown(va)
    OBVIOUS
  <2> PICK call : call = IF down.end = "goes_on" /\ ~Walk(down.mem, TableAddress(va, 4)).ok
                         THEN Stop(down, "fault") ELSE down
    OBVIOUS
  <2>1. Finish(call) /\ machine = "up"
    BY <1>4 DEF vmm_virt_to_phys, Finish
  <2>2. Sound(down)
    BY <2>1, WalkDownSound
  <2>3. Sound(call)
    BY <2>2, StopSound
  <2> QED BY <2>1, <2>3, FinishInv
<1> QED BY <1>1, <1>2, <1>3, <1>4

--------------------------------------------------------------------------------
(* The tables of boot_minimal.S. *)
LEMMA BootTree ==
  ASSUME NEW content \in [Index -> Entries], NEW mem, mem = [p \in Frames |-> BootTable(p, content)]
  PROVE  Tree(mem, {}) /\ mem[boot_pml4][RECURSIVE_INDEX] = Absent
<1>1. /\ boot_pml4 \in Frames /\ boot_pdpt \in Frames /\ boot_pd \in Frames
      /\ boot_pd_high \in Frames
      /\ boot_pml4 # boot_pdpt /\ boot_pml4 # boot_pd /\ boot_pml4 # boot_pd_high
      /\ boot_pdpt # boot_pd /\ boot_pdpt # boot_pd_high /\ boot_pd # boot_pd_high
  BY VmmAssumption
<1>2. /\ 0 \in Index /\ RECURSIVE_INDEX \in Index /\ RECURSIVE_INDEX # 0 /\ 0 \in Slots
      /\ ApicPdpt \in Index \ {0} /\ ApicPd \in Index /\ ApicFrame \in Nat
      /\ Frames \subseteq Nat
  BY VmmAssumption DEF Index, Slots, Frames
<1>3. /\ mem[boot_pml4] = [EmptyTable EXCEPT ![0] = To(boot_pdpt)]
      /\ mem[boot_pdpt] = [EmptyTable EXCEPT ![0] = To(boot_pd), ![ApicPdpt] = To(boot_pd_high)]
      /\ mem[boot_pd] = [i \in Index |-> Huge(i * (RECURSIVE_INDEX + 1))]
      /\ mem[boot_pd_high] = [EmptyTable EXCEPT ![ApicPd] = Huge(ApicFrame)]
      /\ \A p \in Frames \ {boot_pml4, boot_pdpt, boot_pd, boot_pd_high} : mem[p] = content
  BY <1>1 DEF BootTable
<1>4. /\ Absent \in Entries /\ \A p \in Frames : To(p) \in Entries
      /\ \A n \in Nat : Huge(n) \in Entries
  BY <1>2 DEF Absent, To, Huge, Entries
<1>5. mem \in Tables
  <2>1. \A i \in Index : i * (RECURSIVE_INDEX + 1) \in Nat
    BY VmmAssumption DEF Index
  <2>2. EmptyTable \in [Index -> Entries]
    BY <1>4 DEF EmptyTable
  <2>3. /\ mem[boot_pml4] \in [Index -> Entries] /\ mem[boot_pdpt] \in [Index -> Entries]
        /\ mem[boot_pd] \in [Index -> Entries] /\ mem[boot_pd_high] \in [Index -> Entries]
    BY <1>1, <1>2, <1>3, <1>4, <2>1, <2>2
  <2>4. \A p \in Frames : mem[p] \in [Index -> Entries]
    BY <1>3, <2>3
  <2>5. mem = [p \in Frames |-> mem[p]]
    OBVIOUS
  <2> QED BY <2>4, <2>5 DEF Tables
<1>6. /\ \A i \in Index \ {0} : mem[boot_pml4][i] = Absent
      /\ mem[boot_pml4][0] = To(boot_pdpt)
      /\ mem[boot_pdpt][0] = To(boot_pd) /\ mem[boot_pdpt][ApicPdpt] = To(boot_pd_high)
      /\ \A i \in Index \ {0, ApicPdpt} : mem[boot_pdpt][i] = Absent
      /\ \A i \in Index : mem[boot_pd][i].huge
      /\ \A i \in Index : mem[boot_pd_high][i].present => mem[boot_pd_high][i].huge
  <2> PICK pml4, pdpt, pd, high :
        pml4 = mem[boot_pml4] /\ pdpt = mem[boot_pdpt] /\ pd = mem[boot_pd] /\ high = mem[boot_pd_high]
    OBVIOUS
  <2>1. /\ pml4 = [EmptyTable EXCEPT ![0] = To(boot_pdpt)]
        /\ pdpt = [EmptyTable EXCEPT ![0] = To(boot_pd), ![ApicPdpt] = To(boot_pd_high)]
        /\ pd = [i \in Index |-> Huge(i * (RECURSIVE_INDEX + 1))]
        /\ high = [EmptyTable EXCEPT ![ApicPd] = Huge(ApicFrame)]
    BY <1>3
  <2>2. pml4[0] = To(boot_pdpt) /\ \A i \in Index \ {0} : pml4[i] = Absent
    BY <1>2, <2>1 DEF EmptyTable
  <2>3. /\ pdpt[0] = To(boot_pd) /\ pdpt[ApicPdpt] = To(boot_pd_high)
        /\ \A i \in Index \ {0, ApicPdpt} : pdpt[i] = Absent
    BY <1>2, <2>1 DEF EmptyTable
  <2>4. \A i \in Index : pd[i].huge
    BY <2>1 DEF Huge
  <2>5. \A i \in Index : high[i].present => high[i].huge
    <3>1. high[ApicPd] = Huge(ApicFrame) /\ \A i \in Index \ {ApicPd} : high[i] = Absent
      BY <1>2, <2>1 DEF EmptyTable
    <3> QED BY <3>1 DEF Huge, Absent
  <2> QED BY <2>2, <2>3, <2>4, <2>5
<1>7. ~Absent.present /\ \A p : To(p).present /\ To(p).frame = p /\ ~To(p).huge
  BY DEF Absent, To
<1>8. Layered(mem, {boot_pdpt}, {boot_pd, boot_pd_high})
  <2>1. \A i \in Slots : mem[boot_pml4][i].present =>
          mem[boot_pml4][i].frame \in {boot_pdpt} /\ ~mem[boot_pml4][i].huge
    BY <1>6, <1>7 DEF Slots
  <2>2. \A i \in Index : mem[boot_pdpt][i].present =>
          mem[boot_pdpt][i].frame \in {boot_pd, boot_pd_high} /\ ~mem[boot_pdpt][i].huge
    <3>1. \A i \in Index : mem[boot_pdpt][i] \in {Absent, To(boot_pd), To(boot_pd_high)}
      BY <1>6
    <3> QED BY <1>7, <3>1
  <2>3. \E i \in Slots : mem[boot_pml4][i].present /\ mem[boot_pml4][i].frame = boot_pdpt
    <3>1. 0 \in Slots
      BY <1>2
    <3>2. mem[boot_pml4][0].present /\ mem[boot_pml4][0].frame = boot_pdpt
      BY ONLY <1>6, <1>7
    <3> QED BY ONLY <3>1, <3>2
  <2>4. \A t \in {boot_pd, boot_pd_high} : \E i \in Index :
          mem[boot_pdpt][i].present /\ mem[boot_pdpt][i].frame = t
    <3>1. mem[boot_pdpt][0].present /\ mem[boot_pdpt][0].frame = boot_pd
      BY <1>6, <1>7
    <3>2. mem[boot_pdpt][ApicPdpt].present /\ mem[boot_pdpt][ApicPdpt].frame = boot_pd_high
      BY <1>6, <1>7
    <3>3. 0 \in Index /\ ApicPdpt \in Index
      BY <1>2
    <3>4. \E i \in Index : mem[boot_pdpt][i].present /\ mem[boot_pdpt][i].frame = boot_pd
      BY ONLY <3>1, <3>3
    <3>5. \E i \in Index : mem[boot_pdpt][i].present /\ mem[boot_pdpt][i].frame = boot_pd_high
      BY ONLY <3>2, <3>3
    <3> QED BY ONLY <3>4, <3>5
  <2> QED BY <1>1, <1>6, <2>1, <2>2, <2>3, <2>4 DEF Layered
<1>9. {boot_pdpt} \cup {boot_pd, boot_pd_high} = {} \cup {boot_pdpt, boot_pd, boot_pd_high}
  OBVIOUS
<1> QED BY <1>1, <1>2, <1>5, <1>6, <1>8, <1>9 DEF Tree

LEMMA VmmInitInv == VmmInit => PagingInv
<1> SUFFICES ASSUME VmmInit PROVE PagingInv
  OBVIOUS
<1>1. PmmInv
  BY PmmInitInv DEF VmmInit
<1>2. EmptyTable \in [Index -> Entries] /\ StaleTable \in [Index -> Entries]
  <2>1. Absent \in Entries /\ To(0) \in Entries
    BY DEF Absent, To, Entries
  <2> QED BY <2>1 DEF EmptyTable, StaleTable
<1>3. PICK content \in {EmptyTable, StaleTable} : memory = [p \in Frames |-> BootTable(p, content)]
  BY DEF VmmInit
<1>4. Tree(memory, {}) /\ memory[boot_pml4][RECURSIVE_INDEX] = Absent
  BY <1>2, <1>3, BootTree
<1>5. machine = "boot" /\ tables = {} /\ phase = "start"
  BY DEF VmmInit, PmmInit
<1> QED BY <1>1, <1>4, <1>5 DEF PagingInv, PmmInv

(* The bitmap has a bit for no page behind the memory limit. *)
LEMMA PagesInLimit ==
  ASSUME PmmInv, InitBitmap
  PROVE  Page' \subseteq Frames
<1>1. /\ total_memory \in Nat /\ MemoryLimit \in Nat /\ PageSize \in Nat \ {0}
  BY PmmAssumption DEF PmmInv, Types
<1>2. Min({total_memory, MemoryLimit}) \in Nat /\ Min({total_memory, MemoryLimit}) <= MemoryLimit
  BY <1>1, PairIn, MinIn
<1>3. total_pages' = Min({total_memory, MemoryLimit}) \div PageSize
  BY DEF InitBitmap
<1>4. /\ total_pages' <= MemoryLimit \div PageSize /\ total_pages' \in Nat
      /\ MemoryLimit \div PageSize \in Nat
  BY <1>1, <1>2, <1>3, DivMonotone, DivIn
<1> DEFINE limit == MemoryLimit \div PageSize
<1> PICK pages : pages = total_pages'
  OBVIOUS
<1>5. limit \in Nat /\ pages \in Nat /\ pages <= limit
  BY <1>4
<1> HIDE DEF limit
<1>6. 0 .. pages - 1 \subseteq 0 .. limit - 1
  BY ONLY <1>5
<1> QED BY <1>6 DEF Page, Frames, limit

LEMMA PmmBootPagingInv ==
  ASSUME PagingInv, PmmBoot, UNCHANGED vmmVars
  PROVE  PagingInv'
<1>1. phase # "ready"
  BY DEF PmmBoot, ParseMmap, InitBitmap, MarkFreeRegions, MarkRegions
<1>2. PmmInv
  BY <1>1 DEF PagingInv, PmmInv, PagesAccounted
<1>3. PmmInv'
  BY <1>2, ParseMmapInv, InitBitmapInv, MarkFreeRegionsInv DEF PmmBoot
<1>4. phase' \in {"bitmap", "ready"} => Page' \subseteq Frames
  <2>1. CASE ParseMmap
    BY <2>1 DEF ParseMmap
  <2>2. CASE InitBitmap
    BY <1>2, <2>2, PagesInLimit
  <2>3. CASE MarkFreeRegions
    BY <2>3 DEF MarkFreeRegions, MarkRegions, layout, Page, PagingInv
  <2> QED BY <2>1, <2>2, <2>3 DEF PmmBoot
<1>5. /\ machine' = "boot" /\ tables' = {} /\ memory'[boot_pml4][RECURSIVE_INDEX] = Absent
      /\ Tree(memory, tables)'
  BY <1>1 DEF PagingInv, vmmVars, Tree
<1>6. phase' = "ready" => /\ bitmap' \in SUBSET Nat /\ used_pages' \in Int
                          /\ TablesAccounted(bitmap, tables, lost)'
  <2>1. bitmap' \in SUBSET AllBits' /\ used_pages' \in Nat
    BY <1>3 DEF PmmInv, Counts, Counted, Bits
  <2>2. AllBits' \in SUBSET Nat
    <3>1. (ByteBits * BitmapSize)' \in Nat
      BY <1>3, BytesCover DEF PmmInv, Types, BitmapSize
    <3> QED BY <3>1 DEF AllBits
  <2>3. phase' = "ready" => TablesAccounted(bitmap, tables, lost)'
    BY <1>3, <1>5 DEF PmmInv, PagesAccounted, TablesAccounted
  <2> QED BY <2>1, <2>2, <2>3
<1>7. Types' /\ Layout' /\ KernelInBoot' /\ Counts'
  BY <1>3 DEF PmmInv
<1> QED BY <1>4, <1>5, <1>6, <1>7 DEF PagingInv

LEMMA VmmStartInv ==
  ASSUME PagingInv, vmm_init
  PROVE  PagingInv'
<1>1. /\ phase = "ready" /\ machine = "boot" /\ machine' = "up"
      /\ memory' = [memory EXCEPT ![boot_pml4][RECURSIVE_INDEX] = To(boot_pml4)]
      /\ UNCHANGED <<pmmVars, tables>>
  BY DEF vmm_init
<1>2. Tree(memory, tables) /\ memory \in Tables /\ tables = {}
  BY <1>1 DEF PagingInv, Tree
<1>3. /\ boot_pml4 \in Frames /\ RECURSIVE_INDEX \in Index /\ To(boot_pml4) \in Entries
  BY VmmAssumption DEF Index, Frames, To, Entries
<1>4. /\ memory' \in Tables /\ memory'[boot_pml4][RECURSIVE_INDEX] = To(boot_pml4)
      /\ \A i \in Slots : memory'[boot_pml4][i] = memory[boot_pml4][i]
      /\ \A t \in Frames \ {boot_pml4} : memory'[t] = memory[t]
  BY <1>1, <1>2, <1>3 DEF Tables, Slots
<1>5. PICK upper, middle \in SUBSET Frames :
        Layered(memory, upper, middle) /\ upper \cup middle = tables \cup {boot_pdpt, boot_pd, boot_pd_high}
  BY <1>2 DEF Tree
<1>6. Layered(memory', upper, middle)
  <2>1. \A t \in upper \cup middle : memory'[t] = memory[t]
    BY <1>4, <1>5 DEF Layered
  <2> QED BY <1>4, <1>5, <2>1 DEF Layered
<1>7. Tree(memory, tables)'
  BY <1>1, <1>4, <1>5, <1>6 DEF Tree
<1>8. /\ Types' /\ Layout' /\ KernelInBoot' /\ Page' = Page
      /\ TablesAccounted(bitmap, tables, lost)' /\ bitmap' \in SUBSET Nat /\ used_pages' \in Int
  BY <1>1 DEF pmmVars, fixed, layout, PagingInv, Types, Layout, KernelInBoot, KernelPages, Page,
              BitmapEnd, BitmapSize, TablesAccounted
<1>9. phase' = "ready" /\ Page' \subseteq Frames
  BY <1>1, <1>8 DEF PagingInv, pmmVars
<1> QED BY <1>1, <1>4, <1>7, <1>8, <1>9 DEF PagingInv

(* The page allocator's other callers take pages that are no tables and give *)
(* back their own.                                                           *)
LEMMA OtherCallInv ==
  ASSUME PagingInv, OtherCall
  PROVE  PagingInv'
<1>1. /\ phase = "ready" /\ PmmCall /\ UNCHANGED <<phase, mmap, mb_end, total_memory, total_pages,
                                                   pmm_bitmap, boot_used, memory, machine, tables>>
  BY DEF OtherCall, PmmCall, AllocPage, FreePage, fixed, layout, vmmVars
<1>2. Types' /\ Layout' /\ KernelInBoot' /\ Page' = Page
  BY <1>1 DEF PagingInv, Types, Layout, KernelInBoot, KernelPages, Page, BitmapEnd, BitmapSize
<1>3. bitmap \in SUBSET Nat /\ used_pages \in Int /\ TablesAccounted(bitmap, tables, lost)
  BY <1>1 DEF PagingInv
<1>4. bitmap' \in SUBSET Nat /\ used_pages' \in Int /\ TablesAccounted(bitmap, tables, lost)'
  <2>1. CASE AllocPage /\ FreePages = {}
    BY <1>1, <1>2, <1>3, <2>1 DEF AllocPage, TablesAccounted
  <2>2. CASE AllocPage /\ FreePages # {}
    <3> PICK page : page = Min(FreePages)
      OBVIOUS
    <3>1. page \in Page /\ page \notin bitmap /\ page \in Nat
      BY <2>2, LowestFree DEF FreePages, Page, PagingInv, Types
    <3>2. bitmap' = bitmap \cup {page} /\ used_pages' = used_pages + 1
      BY <2>2 DEF AllocPage, TakePage, Bits, FreePages
    <3>3. page * PageSize = 0 <=> page = 0
      BY <3>1, PmmAssumption
    <3>4. \/ page = 0 /\ held' = held /\ lost' = lost \cup {page}
          \/ held' = held \cup {page} /\ lost' = lost
      BY <2>2, <3>3 DEF AllocPage
    <3>5. bitmap' \in SUBSET Nat
      BY <1>3, <3>1, <3>2
    <3>6. used_pages' \in Int
      BY <1>3, <3>2
    <3>7. TablesAccounted(bitmap, tables, lost)'
      <4>1. /\ bitmap \cap Page = boot_used \cup held \cup lost \cup tables
            /\ boot_used \cap held = {} /\ boot_used \cap lost = {} /\ held \cap lost = {}
            /\ tables \cap (boot_used \cup held \cup lost) = {} /\ lost \subseteq {0}
        BY <1>3 DEF TablesAccounted
      <4>2. page \in Page /\ page \notin boot_used \cup held \cup lost \cup tables
        BY ONLY <3>1, <4>1
      <4>3. bitmap' \cap Page' = (bitmap \cap Page) \cup {page} /\ boot_used' = boot_used
            /\ tables' = tables
        BY ONLY <1>1, <1>2, <3>2, <4>2
      <4> DEFINE owned == boot_used \cup held \cup lost \cup tables
      <4>4. boot_used' \cup held' \cup lost' \cup tables' = owned \cup {page}
        BY ONLY <3>4, <4>3
      <4>5. bitmap' \cap Page' = owned \cup {page}
        BY ONLY <4>1, <4>3
      <4>6. /\ boot_used' \cap held' = {} /\ boot_used' \cap lost' = {} /\ held' \cap lost' = {}
        BY ONLY <3>4, <4>1, <4>2, <4>3
      <4>7. tables' \cap (boot_used' \cup held' \cup lost') = {}
        BY ONLY <3>4, <4>1, <4>2, <4>3
      <4>8. lost' \subseteq {0}
        BY ONLY <3>4, <4>1
      <4> QED BY ONLY <4>4, <4>5, <4>6, <4>7, <4>8 DEF TablesAccounted
    <3> QED BY <3>5, <3>6, <3>7
  <2>3. CASE \E page \in held : FreePage(page)
    <3>1. PICK page \in held : FreePage(page)
      BY <2>3
    <3>2. page \in Page \cap bitmap
      BY <1>3 DEF TablesAccounted
    <3>3. held' = held \ {page} /\ bitmap' = bitmap \ {page} /\ used_pages' = used_pages - 1
          /\ lost' = lost
      BY <3>1, <3>2 DEF FreePage
    <3>4. bitmap' \in SUBSET Nat
      BY <1>3, <3>3
    <3>5. used_pages' \in Int
      BY <1>3, <3>3
    <3>6. TablesAccounted(bitmap, tables, lost)'
      BY <1>1, <1>2, <1>3, <3>2, <3>3 DEF TablesAccounted
    <3> QED BY <3>4, <3>5, <3>6
  <2> QED BY <1>1, <2>1, <2>2, <2>3 DEF PmmCall
<1>5. Page' \subseteq Frames
  BY <1>1, <1>2 DEF PagingInv
<1>6. Tree(memory, tables)' <=> Tree(memory, tables)
  BY <1>1 DEF Tree
<1>7. /\ machine' \in {"boot", "up", "fault"}
      /\ machine' = "boot" => tables' = {} /\ memory'[boot_pml4][RECURSIVE_INDEX] = Absent
      /\ machine' = "up" => memory'[boot_pml4][RECURSIVE_INDEX] = To(boot_pml4)
      /\ machine' # "fault" => Tree(memory, tables)'
  BY <1>1, <1>6 DEF PagingInv
<1> QED BY <1>1, <1>2, <1>4, <1>5, <1>7 DEF PagingInv

LEMMA VmmNextInv == PagingInv /\ [VmmNext]_pagingVars => PagingInv'
<1> SUFFICES ASSUME PagingInv, [VmmNext]_pagingVars PROVE PagingInv'
  OBVIOUS
<1>1. CASE UNCHANGED pagingVars
  BY <1>1 DEF pagingVars, pmmVars, vmmVars, fixed, layout, PagingInv, Types, Layout, KernelInBoot,
              KernelPages, Page, BitmapEnd, BitmapSize, TablesAccounted, Counts, Counted, Bits,
              AllBits, Tree
<1> QED BY <1>1, PmmBootPagingInv, VmmStartInv, VmmCallInv, OtherCallInv DEF VmmNext

LEMMA PagingInvariant == VmmSpec => []PagingInv
  BY VmmInitInv, VmmNextInv, PTL DEF VmmSpec

--------------------------------------------------------------------------------
(* The tables a walk goes through are those of the two layers.               *)
LEMMA LinkedTables ==
  ASSUME NEW upper, NEW middle, Layered(memory, upper, middle),
         memory[boot_pml4][RECURSIVE_INDEX] \in {Absent, To(boot_pml4)}
  PROVE  Linked = upper \cup middle
<1> DEFINE Below(frames) ==
             {memory[x[1]][x[2]].frame : x \in
               {y \in frames \X Index : LET entry == memory[y[1]][y[2]]
                                        IN  entry.present /\ ~entry.huge}}
<1>1. ASSUME NEW frames, NEW f
      PROVE  f \in Below(frames) <=>
               \E t \in frames, i \in Index :
                 memory[t][i].present /\ ~memory[t][i].huge /\ memory[t][i].frame = f
  <2>1. f \in Below(frames) <=>
          \E x \in frames \X Index :
            memory[x[1]][x[2]].present /\ ~memory[x[1]][x[2]].huge /\ memory[x[1]][x[2]].frame = f
    BY Zenon
  <2>2. \A x \in frames \X Index : x[1] \in frames /\ x[2] \in Index
    OBVIOUS
  <2>3. \A t \in frames, i \in Index : <<t, i>> \in frames \X Index /\ <<t, i>>[1] = t /\ <<t, i>>[2] = i
    OBVIOUS
  <2> HIDE DEF Below
  <2>4. ASSUME f \in Below(frames)
        PROVE  \E t \in frames, i \in Index :
                 memory[t][i].present /\ ~memory[t][i].huge /\ memory[t][i].frame = f
    <3>1. PICK x \in frames \X Index :
            memory[x[1]][x[2]].present /\ ~memory[x[1]][x[2]].huge /\ memory[x[1]][x[2]].frame = f
      BY <2>1, <2>4
    <3> QED BY <2>2, <3>1
  <2>5. ASSUME NEW t \in frames, NEW i \in Index,
               memory[t][i].present /\ ~memory[t][i].huge /\ memory[t][i].frame = f
        PROVE  f \in Below(frames)
    <3> PICK x : x = <<t, i>>
      OBVIOUS
    <3>1. x \in frames \X Index /\ x[1] = t /\ x[2] = i
      OBVIOUS
    <3>2. memory[x[1]][x[2]].present /\ ~memory[x[1]][x[2]].huge /\ memory[x[1]][x[2]].frame = f
      BY <2>5, <3>1
    <3> QED BY <2>1, <3>1, <3>2
  <2> QED BY <2>4, <2>5
<1>2. Linked = (Below({boot_pml4}) \ {boot_pml4}) \cup Below(Below({boot_pml4}) \ {boot_pml4})
                 \cup Below(Below(Below({boot_pml4}) \ {boot_pml4}))
  BY DEF Linked
<1> HIDE DEF Below
<1>3. Below({boot_pml4}) \ {boot_pml4} = upper
  <2>1. ASSUME NEW f \in Below({boot_pml4}), f # boot_pml4 PROVE f \in upper
    <3>1. PICK i \in Index : memory[boot_pml4][i].present /\ memory[boot_pml4][i].frame = f
      BY <1>1, <2>1
    <3>2. i # RECURSIVE_INDEX
      BY <2>1, <3>1 DEF Absent, To
    <3> QED BY <3>1, <3>2 DEF Layered, Slots
  <2>2. ASSUME NEW f \in upper PROVE f \in Below({boot_pml4}) /\ f # boot_pml4
    <3>1. PICK i \in Slots : memory[boot_pml4][i].present /\ memory[boot_pml4][i].frame = f
      BY <2>2 DEF Layered
    <3>2. ~memory[boot_pml4][i].huge
      BY <3>1 DEF Layered
    <3> QED BY <1>1, <3>1, <3>2 DEF Layered, Slots
  <2> QED BY <2>1, <2>2
<1>4. Below(upper) = middle
  <2>1. ASSUME NEW f \in Below(upper) PROVE f \in middle
    BY <1>1, <2>1 DEF Layered
  <2>2. ASSUME NEW f \in middle PROVE f \in Below(upper)
    <3>1. PICK t \in upper, i \in Index : memory[t][i].present /\ memory[t][i].frame = f
      BY <2>2 DEF Layered
    <3>2. ~memory[t][i].huge
      BY <3>1 DEF Layered
    <3> QED BY <1>1, <3>1, <3>2
  <2> QED BY <2>1, <2>2
<1>5. Below(middle) = {}
  <2>1. ASSUME NEW f \in Below(middle) PROVE FALSE
    BY <1>1, <2>1 DEF Layered
  <2> QED BY <2>1
<1> QED BY <1>2, <1>3, <1>4, <1>5

(* Every page table the processor may read is one of boot_minimal.S or a     *)
(* page vmm_map_page took and nobody else owns, after calls that ran out of  *)
(* memory half-way too: none leaks, none is handed out again.                *)
THEOREM VmmTablesOwned == VmmSpec => []TablesOwned
<1>1. PagingInv => TablesOwned
  <2> SUFFICES ASSUME PagingInv PROVE TablesOwned
    OBVIOUS
  <2> DEFINE boot == {boot_pdpt, boot_pd, boot_pd_high}
  <2>1. phase # "ready" => tables = {}
    BY DEF PagingInv
  <2>2. phase = "ready" => TablesAccounted(bitmap, tables, lost) /\ Running
    BY DEF PagingInv, Running
  <2>3. tables \subseteq bitmap /\ tables \cap (held \cup lost) = {}
    BY <2>1, <2>2 DEF TablesAccounted
  <2>4. tables \cap boot = {}
    <3>1. CASE phase # "ready"
      BY <2>1, <3>1
    <3>2. CASE phase = "ready"
      BY <2>2, <3>2, BootTablesInUse DEF TablesAccounted
    <3> QED BY <3>1, <3>2
  <2>5. ASSUME machine # "fault" PROVE Linked \ boot = tables
    <3>1. memory[boot_pml4][RECURSIVE_INDEX] \in {Absent, To(boot_pml4)} /\ Tree(memory, tables)
      BY <2>5 DEF PagingInv
    <3>2. PICK upper, middle \in SUBSET Frames :
            Layered(memory, upper, middle) /\ upper \cup middle = tables \cup boot
      BY <3>1 DEF Tree
    <3>3. Linked = tables \cup boot
      BY <3>1, <3>2, LinkedTables
    <3> QED BY <2>4, <3>3
  <2> QED BY <2>3, <2>5 DEF TablesOwned
<1> QED BY <1>1, PagingInvariant, PTL

(* What a call that returns leaves of the translations: all of them.         *)
LEMMA VmmCallTranslates ==
  ASSUME PagingInv, PagingInv', VmmCall, machine' # "fault", NEW va \in Callers
  PROVE  Walk(memory, va)' = Walk(memory, va)
<1>1. Walk(memory, va)' = Walk(memory', va)
  OBVIOUS
<1>2. machine # "fault"
  BY DEF VmmCall, vmm_map_page, vmm_unmap_page, vmm_virt_to_phys, Finish
<1>3. Translation(memory', va) = Translation(memory, va)
  BY <1>2, VmmCallInv
<1>4. PICK upper, middle \in SUBSET Frames : Layered(memory, upper, middle)
  BY <1>2 DEF PagingInv, Tree
<1>5. PICK above, below \in SUBSET Frames : Layered(memory', above, below)
  BY DEF PagingInv, Tree
<1> QED BY <1>1, <1>3, <1>4, <1>5, WalkTranslates

(* A call of vmm_map_page or vmm_unmap_page that returns leaves the          *)
(* translation of every other address as it was: the identity mapping, and   *)
(* whatever was left in a page that became a table.                          *)
THEOREM VmmOnlyOwnTranslation == VmmSpec => OnlyOwnTranslation
<1> DEFINE Kept == \A va \in Callers :
                     (vmm_map_page(va, 0) \/ vmm_unmap_page(va)) /\ machine' # "fault" =>
                       \A other \in Callers \ {va} : Walk(memory, other)' = Walk(memory, other)
<1>1. PagingInv /\ PagingInv' /\ [VmmNext]_pagingVars => [Kept]_pagingVars
  BY VmmCallTranslates DEF VmmCall
<1> QED BY <1>1, PagingInvariant, PTL DEF VmmSpec, OnlyOwnTranslation

(* The memory manager never maps or unmaps anything: with PT_VIRT_ADDR as it *)
(* is, a call that returns has changed the translation of no address, its    *)
(* own included, for any memory and any number of page tables.               *)
THEOREM VmmMapsNothing == VmmSpec => MapsNothing
<1> DEFINE Same == VmmCall /\ machine' # "fault" =>
                     \A va \in Callers : Walk(memory, va)' = Walk(memory, va)
<1>1. PagingInv /\ PagingInv' /\ [VmmNext]_pagingVars => [Same]_pagingVars
  BY VmmCallTranslates
<1> QED BY <1>1, PagingInvariant, PTL DEF VmmSpec, MapsNothing
================================================================================
