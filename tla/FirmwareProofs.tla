----------------------------- MODULE FirmwareProofs -----------------------------
(***************************************************************************)
(* Proofs about what kernels make of the tables they are given at boot:    *)
(* the memory map of the Zig kernel (ZigMemory) and the ACPI tables of all *)
(* kernels (Acpi).                                                         *)
(*                                                                         *)
(* ZigMemory, for any memory map, any number of pages and any lengths:     *)
(* every usable page is free or begins one block, and free_pages is exact. *)
(* What pmm.init leaves is known in closed form: after any of the entries, *)
(* the pages of those are free.                                            *)
(*                                                                         *)
(* Acpi, from RootOf on, for any firmware and any MAX_CPUS: a search that  *)
(* fails saw nothing it accepts, and the loops over the MADT and over      *)
(* cpu_apic_ids keep the elements of a sequence that are in a set, of      *)
(* which Keeps knows every prefix.                                         *)
(***************************************************************************)
EXTENDS ZigMemory, Acpi, FoldLemmas, SequenceTheorems


\* The bitmap in which just these pages are free
FreeExactly(pages) == [bits |-> Page \ pages, free |-> Cardinality(pages)]

\* The pages of some of the entries of the memory map
Freed(indices) == UNION {PagesOf(mmap[i]) : i \in {j \in indices : mmap[j].available}}

Types ==
  /\ phase \in {"start", "ready", "halted"}
  /\ mmap \in MemoryMaps \cup {NoMemoryMap}
  /\ blocks # {} => phase = "ready"

\* Every usable page is free or the page of one block; a block's page is in use.
Owned ==
  /\ bitmap \subseteq Page
  /\ free_pages = Cardinality(Page \ bitmap)
  /\ Usable = (Page \ bitmap) \cup {b.page : b \in blocks}
  /\ \A b \in blocks : b.page \in Page \cap bitmap /\ b.len \in Nat \ {0}
  /\ \A b, c \in blocks : b.page = c.page => b = c

ZigInv ==
  /\ Types
  /\ phase = "start" => free_pages = 0
  /\ phase = "ready" => Owned

--------------------------------------------------------------------------------
LEMMA PagesFinite ==
  /\ IsFiniteSet(Page) /\ Page \subseteq Nat
  /\ \A s \in SUBSET Page : IsFiniteSet(s) /\ Cardinality(s) \in Nat
<1>1. 0 \in Int /\ MAX_PAGES - 1 \in Int
  BY ZigMemoryAssumption
<1>2. IsFiniteSet(Page) /\ Page \subseteq Nat
  BY <1>1, FS_Interval DEF Page
<1>3. \A s \in SUBSET Page : IsFiniteSet(s) /\ Cardinality(s) \in Nat
  BY <1>2, FS_Subset, FS_CardinalityType
<1> QED BY <1>2, <1>3

(* Two sets of pages apart from each other are counted one after the other. *)
LEMMA CountBoth ==
  ASSUME NEW A \in SUBSET Page, NEW B \in SUBSET Page
  PROVE  /\ Cardinality(A \cup B) = Cardinality(A) + Cardinality(B \ A)
         /\ Cardinality(A \ B) = Cardinality(A) - Cardinality(A \cap B)
<1>1. IsFiniteSet(A) /\ IsFiniteSet(B) /\ IsFiniteSet(B \ A)
  BY PagesFinite, FS_Subset
<1>2. Cardinality(A \ B) = Cardinality(A) - Cardinality(A \cap B)
  BY <1>1, FS_Difference
<1>3. Cardinality(A \cup (B \ A))
        = Cardinality(A) + Cardinality(B \ A) - Cardinality(A \cap (B \ A))
  BY <1>1, FS_Union
<1>4. A \cup (B \ A) = A \cup B /\ A \cap (B \ A) = {}
  OBVIOUS
<1>5. Cardinality({}) = 0
  BY FS_EmptySet
<1>6. Cardinality(A) \in Nat /\ Cardinality(B \ A) \in Nat
  BY <1>1, FS_CardinalityType
<1>7. Cardinality(A \cup B) = Cardinality(A) + Cardinality(B \ A) - 0
  BY <1>3, <1>4, <1>5, Zenon
<1> QED BY <1>2, <1>6, <1>7

(* mark_free frees the pages of a region that overlaps others just once. *)
LEMMA FreeMore ==
  ASSUME NEW A \in SUBSET Page, NEW pages \in SUBSET Page
  PROVE  MarkFree(FreeExactly(A), pages) = FreeExactly(A \cup pages)
<1>1. (Page \ A) \ pages = Page \ (A \cup pages) /\ pages \cap (Page \ A) = pages \ A
  OBVIOUS
<1>2. Cardinality(A \cup pages) = Cardinality(A) + Cardinality(pages \ A)
  BY CountBoth
<1> QED BY <1>1, <1>2 DEF MarkFree, FreeExactly

(* mark_used takes back the free ones of some pages.  *)
LEMMA TakeBack ==
  ASSUME NEW A \in SUBSET Page, NEW pages \in SUBSET Page
  PROVE  MarkUsed(FreeExactly(A), pages) = FreeExactly(A \ pages)
<1>1. (Page \ A) \cup pages = Page \ (A \ pages) /\ pages \ (Page \ A) = A \cap pages
  OBVIOUS
<1>2. Cardinality(A \ pages) = Cardinality(A) - Cardinality(A \cap pages)
  BY CountBoth
<1> QED BY <1>1, <1>2 DEF MarkUsed, FreeExactly

(* One turn of the loop of pmm.init. *)
LEMMA EntryFreed ==
  ASSUME NEW s, NEW i \in s
  PROVE  FreeEntry(FreeExactly(Freed(s \ {i})), mmap[i]) = FreeExactly(Freed(s))
<1> DEFINE U == Freed(s \ {i})
<1>1. U \in SUBSET Page /\ PagesOf(mmap[i]) \in SUBSET Page
  BY DEF Freed, PagesOf
<1>2. CASE mmap[i].available
  <2>1. Freed(s) = U \cup PagesOf(mmap[i])
    BY <1>2 DEF Freed
  <2>2. MarkFree(FreeExactly(U), PagesOf(mmap[i])) = FreeExactly(U \cup PagesOf(mmap[i]))
    <3> HIDE DEF U
    <3> QED BY <1>1, FreeMore
  <2> QED BY <1>2, <2>1, <2>2 DEF FreeEntry
<1>3. CASE ~mmap[i].available
  <2>1. Freed(s) = U
    BY <1>3 DEF Freed
  <2> QED BY <1>3, <2>1 DEF FreeEntry
<1> QED BY <1>2, <1>3

(* The whole loop: the pages of all available entries are free, though the   *)
(* regions overlap, come in any order and end above MAX_PAGES.               *)
LEMMA LoopFrees ==
  ASSUME mmap \in MemoryMaps
  PROVE  FoldLeft(FreeEntry, FreeExactly({}), mmap) = FreeExactly(Freed(DOMAIN mmap))
<1> DEFINE D == DOMAIN mmap
           pick == [s \in SUBSET D |-> Max(s)]
           Unrolled(g) == [s \in SUBSET D |-> IF s = {} THEN FreeExactly({})
                                               ELSE FreeEntry(g[s \ {Max(s)}], mmap[Max(s)])]
           iter == CHOOSE g : g = Unrolled(g)
           closed == [s \in SUBSET D |-> FreeExactly(Freed(s))]
           Good == {s \in SUBSET D : iter[s] = closed[s]}
<1>1. FoldLeft(FreeEntry, FreeExactly({}), mmap) = iter[D]
  BY Zenon DEF FoldLeft, MapThenFoldSet
<1>2. D \in SUBSET Nat /\ IsFiniteSet(D)
  <2>1. mmap \in Seq(Entry)
    BY ZigMemoryAssumption
  <2>2. D = 1 .. Len(mmap) /\ Len(mmap) \in Nat
    BY <2>1
  <2> QED BY <2>2, FS_Interval
<1>3. \A s \in SUBSET D : s # {} => Max(s) \in s
  <2>1. ASSUME NEW s \in SUBSET D, s # {} PROVE Max(s) \in s
    <3>1. IsFiniteSet(s) /\ s \in SUBSET Nat
      BY <1>2, FS_Subset
    <3> QED BY <2>1, <3>1, MaxIn
  <2> QED BY <2>1
<1>4. closed = Unrolled(closed)
  <2>1. ASSUME NEW s \in SUBSET D, s # {}
        PROVE  closed[s] = FreeEntry(closed[s \ {Max(s)}], mmap[Max(s)])
    BY <1>3, <2>1, EntryFreed
  <2>2. closed[{}] = FreeExactly({})
    <3>1. Freed({}) = {}
      BY DEF Freed
    <3> QED BY <3>1
  <2> QED BY <2>1, <2>2
<1>5. iter = Unrolled(iter)
  <2> HIDE DEF Unrolled, closed
  <2> QED BY <1>4, Zenon
<1>6. {} \in Good
  <2> HIDE DEF iter, closed
  <2> QED BY <1>4, <1>5
<1>7. Grows(D, pick, Good)
  <2> HIDE DEF iter, closed
  <2> QED BY <1>3, <1>4, <1>5 DEF Grows
<1>8. Picks(D, pick)
  BY <1>3 DEF Picks
<1>9. D \in Good
  <2> HIDE DEF D, pick, Good
  <2> QED BY <1>2, <1>6, <1>7, <1>8, SubsetSet
<1> QED BY <1>1, <1>9

--------------------------------------------------------------------------------
LEMMA InitInv == Init => ZigInv
  BY DEF Init, ZigInv, Types

(* pmm.init: what the loop freed and the kernel did not take back is usable. *)
LEMMA PmmInitInv == ZigInv /\ PmmInit => ZigInv'
<1> SUFFICES ASSUME ZigInv, PmmInit PROVE ZigInv'
  OBVIOUS
<1>1. phase = "start" /\ free_pages = 0 /\ blocks = {} /\ blocks' = {} /\ mmap' = mmap
  BY DEF ZigInv, Types, PmmInit
<1>2. CASE mmap = NoMemoryMap
  BY <1>1, <1>2 DEF ZigInv, Types, PmmInit
<1>3. CASE mmap # NoMemoryMap
  <2>1. phase' = "ready" /\ mmap \in MemoryMaps
    BY <1>3 DEF ZigInv, Types, PmmInit
  <2>2. [bits |-> Page, free |-> free_pages] = FreeExactly({})
    BY <1>1, FS_EmptySet DEF FreeExactly
  <2>3. Store(MarkUsed(FreeExactly(Freed(DOMAIN mmap)), LowPages))
    <3>1. Store(MarkUsed(FoldLeft(FreeEntry, [bits |-> Page, free |-> free_pages], mmap), LowPages))
      BY <1>3 DEF PmmInit
    <3> QED BY <2>1, <2>2, <3>1, LoopFrees
  <2>4. Freed(DOMAIN mmap) \in SUBSET Page /\ LowPages \in SUBSET Page
    BY DEF Freed, PagesOf, LowPages
  <2>5. Store(FreeExactly(Freed(DOMAIN mmap) \ LowPages))
    BY <2>3, <2>4, TakeBack
  <2>6. Usable' = Freed(DOMAIN mmap) \ LowPages
    BY <1>1 DEF Usable, Freed
  <2>7. /\ bitmap' = Page \ Usable' /\ free_pages' = Cardinality(Usable')
        /\ Usable' \subseteq Page
    BY <2>4, <2>5, <2>6 DEF Store, FreeExactly
  <2>8. Page \ bitmap' = Usable'
    BY <2>7
  <2>9. Owned'
    BY <1>1, <2>7, <2>8 DEF Owned
  <2> QED BY <1>1, <2>1, <2>9 DEF ZigInv, Types
<1> QED BY <1>2, <1>3

(* alloc takes a free page, which no block has.  *)
LEMMA AllocInv ==
  ASSUME ZigInv, NEW len \in Lengths, Alloc(len)
  PROVE  ZigInv'
<1> DEFINE page == Min(Page \ bitmap)
           new == [page |-> page, len |-> len]
<1>1. /\ phase = "ready" /\ Page \ bitmap # {} /\ Owned /\ len \in Nat \ {0}
      /\ UNCHANGED <<phase, mmap>>
  BY ZigMemoryAssumption DEF Alloc, ZigInv
<1>2. page \in Page \ bitmap
  BY <1>1, PagesFinite, MinIn
<1>3. Store(MarkUsed(Pm, {page})) /\ blocks' = blocks \cup {new}
  BY DEF Alloc
<1> HIDE DEF page
<1>4. Pm = FreeExactly(Page \ bitmap)
  <2>1. Page \ (Page \ bitmap) = bitmap
    BY <1>1 DEF Owned
  <2> QED BY <1>1, <2>1 DEF Owned, Pm, FreeExactly
<1>5. Store(FreeExactly((Page \ bitmap) \ {page}))
  <2>1. Page \ bitmap \in SUBSET Page /\ {page} \in SUBSET Page
    BY <1>2
  <2> QED BY <1>3, <1>4, <2>1, TakeBack
<1>6. bitmap' = bitmap \cup {page} /\ Page \ bitmap' = (Page \ bitmap) \ {page}
  BY <1>1, <1>2, <1>5 DEF Store, FreeExactly, Owned
<1>7. free_pages' = Cardinality(Page \ bitmap')
  BY <1>5, <1>6 DEF Store, FreeExactly
<1>8. Usable' = Usable
  BY <1>1 DEF Usable
<1>9. new.page = page /\ new.len = len
  OBVIOUS
<1> HIDE DEF new
<1>10. Owned'
  <2>1. Usable = (Page \ bitmap') \cup {b.page : b \in blocks'}
    BY <1>1, <1>2, <1>3, <1>6, <1>9 DEF Owned
  <2>2. \A b \in blocks' : b.page \in Page \cap bitmap' /\ b.len \in Nat \ {0}
    BY <1>1, <1>2, <1>3, <1>6, <1>9 DEF Owned
  <2>3. \A b, c \in blocks' : b.page = c.page => b = c
    BY <1>1, <1>2, <1>3, <1>9 DEF Owned
  <2>4. bitmap' \subseteq Page
    BY <1>1, <1>2, <1>6 DEF Owned
  <2> QED BY <1>7, <1>8, <2>1, <2>2, <2>3, <2>4 DEF Owned
<1> QED BY <1>1, <1>10 DEF ZigInv, Types

(* free gives the block's page back: no other block has it. *)
LEMMA FreeInv ==
  ASSUME ZigInv, NEW block \in blocks, Free(block)
  PROVE  ZigInv'
<1> DEFINE page == block.page
<1>1. /\ phase = "ready" /\ Owned /\ UNCHANGED <<phase, mmap>>
      /\ Store(MarkFree(Pm, {page})) /\ blocks' = blocks \ {block}
  BY DEF Free, ZigInv
<1>2. page \in Page \cap bitmap
  BY <1>1 DEF Owned
<1>3. \A b \in blocks \ {block} : b.page # page
  BY <1>1 DEF Owned
<1>4. {b.page : b \in blocks} = {b.page : b \in blocks'} \cup {page}
  BY <1>1
<1> HIDE DEF page
<1>5. Pm = FreeExactly(Page \ bitmap)
  <2>1. Page \ (Page \ bitmap) = bitmap
    BY <1>1 DEF Owned
  <2> QED BY <1>1, <2>1 DEF Owned, Pm, FreeExactly
<1>6. Store(FreeExactly((Page \ bitmap) \cup {page}))
  <2>1. Page \ bitmap \in SUBSET Page /\ {page} \in SUBSET Page
    BY <1>2
  <2> QED BY <1>1, <1>5, <2>1, FreeMore
<1>7. bitmap' = bitmap \ {page} /\ Page \ bitmap' = (Page \ bitmap) \cup {page}
  BY <1>1, <1>2, <1>6 DEF Store, FreeExactly, Owned
<1>8. free_pages' = Cardinality(Page \ bitmap')
  BY <1>6, <1>7 DEF Store, FreeExactly
<1>9. Usable' = Usable
  BY <1>1 DEF Usable
<1>10. Owned'
  BY <1>1, <1>3, <1>4, <1>7, <1>8, <1>9 DEF Owned
<1> QED BY <1>1, <1>10 DEF ZigInv, Types

LEMMA ZigInvariant == Spec => []ZigInv
<1>1. ZigInv /\ [Next]_vars => ZigInv'
  <2> SUFFICES ASSUME ZigInv, [Next]_vars PROVE ZigInv'
    OBVIOUS
  <2>1. CASE UNCHANGED vars
    BY <2>1 DEF vars, ZigInv, Types, Owned, Usable
  <2> QED BY <2>1, PmmInitInv, AllocInv, FreeInv DEF Next
<1> QED BY <1>1, InitInv, PTL DEF Spec

(* A block of at most a page touches the page it begins in and no other.     *)
LEMMA OnePage ==
  ASSUME NEW block, block.page \in Nat, block.len \in 1 .. PAGE_SIZE
  PROVE  Touched(block) = {block.page}
<1> DEFINE p == block.page
           r == block.len - 1
<1>1. p \in Nat /\ r \in 0 .. PAGE_SIZE - 1 /\ PAGE_SIZE \in Nat \ {0}
  BY ZigMemoryAssumption
<1>2. p * PAGE_SIZE + block.len - 1 = p * PAGE_SIZE + r
  BY <1>1
<1> HIDE DEF p, r
<1>3. (p * PAGE_SIZE + r) \div PAGE_SIZE = p
  BY <1>1
<1>4. Touched(block) = p .. p
  BY <1>2, <1>3 DEF Touched, p
<1>5. p .. p = {p}
  BY <1>1
<1> QED BY <1>4, <1>5 DEF p

(* Every usable page of the Zig kernel is free or the page of one block,     *)
(* free_pages is exact, and a block of at most a page never runs into        *)
(* another: for every memory map and every order of alloc and free.          *)
THEOREM ZigBlocksOwnPages == Spec => []BlocksOwnPages
<1>1. ZigInv => BlocksOwnPages
  <2> SUFFICES ASSUME Owned PROVE BlocksOwnPages
    BY DEF ZigInv, BlocksOwnPages
  <2>1. ASSUME NEW b \in blocks, b.len <= PAGE_SIZE PROVE Touched(b) = {b.page}
    <3>1. b.page \in Page /\ b.len \in Nat \ {0}
      BY DEF Owned
    <3>2. b.page \in Nat
      BY <3>1, PagesFinite
    <3>3. b.len \in 1 .. PAGE_SIZE
      BY <2>1, <3>1, ZigMemoryAssumption
    <3> QED BY <3>2, <3>3, OnePage
  <2> QED BY <2>1 DEF Owned, BlocksOwnPages
<1> QED BY <1>1, ZigInvariant, PTL

--------------------------------------------------------------------------------
(* Finding the MADT. *)

\* What the search left behind it.  A kernel that gave up saw no RSDP it accepts,
\* or no table it accepts as the root, or no MADT in the root.
RootOf(r) == IF kernel.wide /\ r.rev2 /\ r.xsdt # NoTable THEN r.xsdt ELSE r.rsdt

GivesUp ==
  LET r == Areas[Min(Accepted)]
      root == RootOf(r)
  IN  \/ Accepted = {}
      \/ kernel.rootSum /\ ~root.sum
      \/ "APIC" \notin ToSet(root.tables)

SearchInv ==
  /\ fw \in Firmwares /\ kernel \in Kernels
  /\ pc = "root" => Accepted # {} /\ rsdp = Areas[Min(Accepted)]
  /\ pc = "failed" => GivesUp

LEMMA SearchInit == AcpiInit => SearchInv
  BY DEF AcpiInit, SearchInv

LEMMA SearchNext == SearchInv /\ [AcpiNext]_acpiVars => SearchInv'
<1> SUFFICES ASSUME SearchInv, [AcpiNext]_acpiVars PROVE SearchInv'
  OBVIOUS
<1>1. fw' = fw /\ kernel' = kernel
  BY DEF AcpiNext, acpiVars, machine, FindRsdp, FindMadt, ParseEntry, ParseEnd, StartNext,
         StartEnd, Halted
<1>2. Areas' = Areas /\ Accepted' = Accepted /\ GivesUp' = GivesUp
  BY <1>1 DEF Areas, Accepted, GivesUp, RootOf
<1>3. CASE FindRsdp
  BY <1>1, <1>2, <1>3 DEF FindRsdp, SearchInv, GivesUp
<1>4. CASE FindMadt
  <2> DEFINE root == IF UsesXsdt THEN rsdp.xsdt ELSE rsdp.rsdt
  <2>1. /\ pc = "root"
        /\ pc' = IF (root.sum \/ ~kernel.rootSum) /\ "APIC" \in Words(root, UsesXsdt)
                 THEN "parse" ELSE "failed"
    BY <1>4 DEF FindMadt
  <2>2. Accepted # {} /\ rsdp = Areas[Min(Accepted)] /\ root = RootOf(rsdp)
    BY <2>1 DEF SearchInv, UsesXsdt, RootOf
  <2>3. ToSet(root.tables) \subseteq Words(root, UsesXsdt)
    BY DEF Words
  <2> HIDE DEF root
  <2>4. pc' = "failed" => GivesUp
    BY <2>1, <2>2, <2>3 DEF GivesUp
  <2> QED BY <1>1, <1>2, <2>1, <2>4 DEF SearchInv
<1>5. CASE ParseEntry \/ ParseEnd \/ StartNext \/ StartEnd \/ Halted \/ UNCHANGED acpiVars
  <2>1. pc' \notin {"root", "failed"} \/ (pc' = pc /\ rsdp' = rsdp)
    BY <1>5 DEF ParseEntry, ParseEnd, StartNext, StartEnd, Halted, acpiVars
  <2> QED BY <1>1, <1>2, <2>1 DEF SearchInv
<1> QED BY <1>3, <1>4, <1>5 DEF AcpiNext

LEMMA SearchInvariant == AcpiSpec => []SearchInv
  BY SearchInit, SearchNext, PTL DEF AcpiSpec

\* What the records of the kernels have in common.
LEMMA KernelsAre ==
  ASSUME NEW k \in Kernels
  PROVE  /\ k.rsdpSum \in BOOLEAN /\ k.wide = k.rsdpSum /\ k.rootSum = k.rsdpSum
         /\ k.ebda = ~k.rsdpSum
         /\ k.starts # "none" => \/ k.full = "counts_on" /\ k.starts = "from_1"
                                 \/ k.full = "skips" /\ k.starts = "from_1"
                                 \/ k.full = "stops" /\ k.starts = "others"
<1>1. k \in {MinimalAcpi, Step4, ZigKernel, ModularKernel}
  BY AcpiAssumption DEF AllKernels, Step2, Step3, Step5, Step6, Step7, Step8, CKernel, HybridKernel
<1>2. CASE k = MinimalAcpi
  BY <1>2 DEF MinimalAcpi
<1>3. CASE k = Step4
  BY <1>3 DEF Step4, MinimalAcpi
<1>4. CASE k = ZigKernel
  BY <1>4 DEF ZigKernel
<1>5. CASE k = ModularKernel
  BY <1>5 DEF ModularKernel, MinimalAcpi
<1> QED BY <1>1, <1>2, <1>3, <1>4, <1>5

(* A kernel gives up only what no kernel could use.                          *)
THEOREM AcpiMadtFound == AcpiSpec => []MadtFound
<1>1. SearchInv => MadtFound
  <2> SUFFICES ASSUME SearchInv, pc = "failed", ValidRsdps # {} PROVE MadtFound
    BY DEF MadtFound
  <2> DEFINE v == Min(ValidRsdps)
             r == fw.bios[v]
  <2>1. GivesUp /\ kernel \in Kernels /\ fw \in Firmwares
    BY DEF SearchInv
  <2>2. fw.bios \in Seq(ToSet(fw.bios)) /\ fw.ebda \in Seq(ToSet(fw.ebda))
    BY <2>1, AcpiAssumption
  <2>3. DOMAIN fw.bios = 1 .. Len(fw.bios) /\ Len(fw.bios) \in Nat
    BY <2>2
  <2>4. v \in ValidRsdps /\ \A i \in ValidRsdps : v <= i
    <3>1. ValidRsdps \in SUBSET Nat
      BY <2>3 DEF ValidRsdps
    <3> QED BY <3>1, MinIn
  <2>5. v \in DOMAIN fw.bios /\ r.sum
    BY <2>4 DEF ValidRsdps
  <2> SUFFICES \/ ~TrueRoot(r).sum \/ "APIC" \notin ToSet(TrueRoot(r).tables)
               \/ ~kernel.rsdpSum /\ \/ fw.bios[1] # r \/ fw.ebda # <<>>
                                     \/ "APIC" \notin ToSet(r.rsdt.tables)
    BY DEF MadtFound
  <2>6. CASE kernel.rsdpSum
    <3>1. ~kernel.ebda /\ kernel.wide /\ kernel.rootSum
      BY <2>1, <2>6, KernelsAre
    <3>2. Areas = fw.bios
      BY <2>2, <3>1 DEF Areas
    <3>3. Accepted = ValidRsdps
      BY <2>6, <3>2 DEF Accepted, ValidRsdps
    <3>4. Areas[Min(Accepted)] = r
      BY <3>2, <3>3
    <3>5. RootOf(r) = TrueRoot(r)
      BY <3>1 DEF RootOf, TrueRoot
    <3> HIDE DEF r
    <3> QED BY <2>1, <3>3, <3>4, <3>5 DEF GivesUp
  <2>7. CASE ~kernel.rsdpSum /\ fw.bios[1] = r /\ fw.ebda = <<>>
    <3>1. ~kernel.wide /\ ~kernel.rootSum
      BY <2>1, <2>7, KernelsAre
    <3>2. Areas = fw.bios
      BY <2>2, <2>7 DEF Areas
    <3>3. Accepted = DOMAIN fw.bios
      BY <2>7, <3>2 DEF Accepted
    <3>4. 1 \in Accepted /\ Accepted \in SUBSET Nat /\ \A i \in Accepted : 1 <= i
      BY <2>3, <2>5, <3>3
    <3>5. Min(Accepted) = 1
      <4> PICK m : m = Min(Accepted)
        OBVIOUS
      <4>1. m \in Accepted /\ \A i \in Accepted : m <= i
        BY <3>4, MinIn
      <4>2. m \in Nat /\ m <= 1 /\ 1 <= m
        BY <3>4, <4>1
      <4> QED BY <4>2
    <3>6. Areas[Min(Accepted)] = r /\ Accepted # {}
      BY <2>7, <3>2, <3>4, <3>5
    <3>7. RootOf(r) = r.rsdt
      BY <3>1 DEF RootOf
    <3> HIDE DEF r
    <3>8. "APIC" \notin ToSet(RootOf(r).tables)
      BY <2>1, <3>1, <3>6 DEF GivesUp
    <3> QED BY <2>7, <3>7, <3>8
  <2> QED BY <2>6, <2>7
<1> QED BY <1>1, SearchInvariant, PTL

--------------------------------------------------------------------------------
(* The elements of a sequence that are in a set, prefix by prefix. *)
Keeps(s, S, k) ==
  /\ k[0] = <<>>
  /\ \A n \in 1 .. Len(s) : k[n] = IF s[n] \in S THEN Append(k[n - 1], s[n]) ELSE k[n - 1]

LEMMA KeepsExists ==
  ASSUME NEW X, NEW s \in Seq(X), NEW S
  PROVE  \E k \in [0 .. Len(s) -> Seq(X)] : Keeps(s, S, k)
<1> DEFINE Upto(m, k) == /\ k[0] = <<>>
                         /\ \A n \in 1 .. m : k[n] = IF s[n] \in S THEN Append(k[n - 1], s[n])
                                                     ELSE k[n - 1]
           Good == {m \in Nat : m <= Len(s) => \E k \in [0 .. m -> Seq(X)] : Upto(m, k)}
<1>1. Len(s) \in Nat /\ \A n \in 1 .. Len(s) : s[n] \in X
  OBVIOUS
<1>2. 0 \in Good
  <2> PICK k : k = [n \in 0 .. 0 |-> <<>>]
    OBVIOUS
  <2>1. k \in [0 .. 0 -> Seq(X)]
    OBVIOUS
  <2>2. k[0] = <<>>
    OBVIOUS
  <2>3. \A n \in 1 .. 0 : FALSE
    OBVIOUS
  <2> QED BY <2>1, <2>2, <2>3
<1>3. ASSUME NEW m \in Nat, m \in Good PROVE m + 1 \in Good
  <2> SUFFICES ASSUME m + 1 <= Len(s) PROVE \E k \in [0 .. m + 1 -> Seq(X)] : Upto(m + 1, k)
    <3> HIDE DEF Upto
    <3> QED OBVIOUS
  <2>1. PICK k \in [0 .. m -> Seq(X)] : Upto(m, k)
    <3>1. m <= Len(s)
      BY <1>1
    <3> HIDE DEF Upto
    <3> QED BY <1>3, <3>1
  <2> PICK last : last = IF s[m + 1] \in S THEN Append(k[m], s[m + 1]) ELSE k[m]
    OBVIOUS
  <2> PICK new : new = [n \in 0 .. m + 1 |-> IF n = m + 1 THEN last ELSE k[n]]
    OBVIOUS
  <2>2. last \in Seq(X)
    <3>1. k[m] \in Seq(X) /\ s[m + 1] \in X
      BY <1>1
    <3> QED BY <3>1
  <2>3. new \in [0 .. m + 1 -> Seq(X)] /\ new[m + 1] = last /\ \A n \in 0 .. m : new[n] = k[n]
    BY <2>2
  <2>4. Upto(m + 1, new)
    <3>1. new[0] = <<>>
      BY <2>1, <2>3
    <3>2. ASSUME NEW n \in 1 .. m + 1
          PROVE  new[n] = IF s[n] \in S THEN Append(new[n - 1], s[n]) ELSE new[n - 1]
      <4>1. CASE n = m + 1
        <5>1. new[n - 1] = k[m]
          BY <2>3, <4>1
        <5> QED BY <2>3, <4>1, <5>1
      <4>2. CASE n # m + 1
        <5>1. n \in 1 .. m /\ new[n] = k[n] /\ new[n - 1] = k[n - 1]
          BY <2>3, <4>2
        <5> QED BY <2>1, <5>1
      <4> QED BY <4>1, <4>2
    <3> QED BY <3>1, <3>2
  <2> QED BY <2>3, <2>4
<1>4. Len(s) \in Good
  <2>1. \A n \in Nat : n \in Good => n + 1 \in Good
    BY <1>3
  <2> HIDE DEF Good
  <2> QED BY <1>1, <1>2, <2>1, NatSet
<1> QED BY <1>1, <1>4 DEF Keeps

LEMMA OnlyIs ==
  ASSUME NEW X, NEW s \in Seq(X), NEW S
  PROVE  \E k \in [0 .. Len(s) -> Seq(X)] : Keeps(s, S, k) /\ Only(s, S) = k[Len(s)]
<1> DEFINE Unrolled(k) == [n \in 0 .. Len(s) |->
                             IF n = 0 THEN <<>>
                             ELSE IF s[n] \in S THEN Append(k[n - 1], s[n]) ELSE k[n - 1]]
           kept == CHOOSE k : k = Unrolled(k)
<1>1. Only(s, S) = kept[Len(s)]
  BY Zenon DEF Only
<1>2. Len(s) \in Nat
  OBVIOUS
<1>3. PICK k \in [0 .. Len(s) -> Seq(X)] : Keeps(s, S, k)
  BY KeepsExists
<1>4. k = Unrolled(k)
  <2>1. ASSUME NEW n \in 0 .. Len(s)
        PROVE  k[n] = IF n = 0 THEN <<>>
                      ELSE IF s[n] \in S THEN Append(k[n - 1], s[n]) ELSE k[n - 1]
    <3>1. n = 0 \/ n \in 1 .. Len(s)
      BY <1>2
    <3>2. n \in 1 .. Len(s) => n # 0
      BY <1>2
    <3> QED BY <1>3, <3>1, <3>2 DEF Keeps
  <2>2. k = [n \in 0 .. Len(s) |-> k[n]]
    OBVIOUS
  <2> QED BY <2>1, <2>2
<1>5. kept = Unrolled(kept)
  <2> HIDE DEF Unrolled
  <2> QED BY <1>4, Zenon
<1>6. \A n \in 0 .. Len(s) : kept[n] = IF n = 0 THEN <<>>
        ELSE IF s[n] \in S THEN Append(kept[n - 1], s[n]) ELSE kept[n - 1]
  <2> HIDE DEF kept
  <2> QED BY <1>5
<1> HIDE DEF kept
<1> DEFINE Good == {n \in Nat : n <= Len(s) => kept[n] = k[n]}
<1>7. 0 \in Good
  BY <1>2, <1>3, <1>6 DEF Keeps
<1>8. ASSUME NEW n \in Nat, n \in Good PROVE n + 1 \in Good
  <2> SUFFICES ASSUME n + 1 <= Len(s) PROVE kept[n + 1] = k[n + 1]
    OBVIOUS
  <2>1. kept[n] = k[n] /\ n + 1 \in 1 .. Len(s) /\ n + 1 \in 0 .. Len(s) /\ (n + 1) - 1 = n
    BY <1>2, <1>8
  <2> QED BY <1>3, <1>6, <2>1 DEF Keeps
<1>9. Len(s) \in Good
  <2>1. \A n \in Nat : n \in Good => n + 1 \in Good
    BY <1>8
  <2> HIDE DEF Good
  <2> QED BY <1>2, <1>7, <2>1, NatSet
<1> QED BY <1>1, <1>2, <1>3, <1>9

(* What is kept of a prefix is a prefix of what is kept. *)
LEMMA KeptPrefix ==
  ASSUME NEW X, NEW s \in Seq(X), NEW S, NEW k \in [0 .. Len(s) -> Seq(X)], Keeps(s, S, k),
         NEW n \in 0 .. Len(s)
  PROVE  \A m \in n .. Len(s) : /\ Len(k[n]) <= Len(k[m])
                                /\ \A i \in 1 .. Len(k[n]) : k[m][i] = k[n][i]
<1> DEFINE Good == {d \in Nat : n + d <= Len(s) =>
                      /\ Len(k[n]) <= Len(k[n + d])
                      /\ \A i \in 1 .. Len(k[n]) : k[n + d][i] = k[n][i]}
<1>1. Len(s) \in Nat /\ n \in Nat /\ \A m \in 0 .. Len(s) : k[m] \in Seq(X) /\ Len(k[m]) \in Nat
  OBVIOUS
<1>2. 0 \in Good
  BY <1>1
<1>3. ASSUME NEW d \in Nat, d \in Good PROVE d + 1 \in Good
  <2> SUFFICES ASSUME n + (d + 1) <= Len(s)
               PROVE  /\ Len(k[n]) <= Len(k[n + (d + 1)])
                      /\ \A i \in 1 .. Len(k[n]) : k[n + (d + 1)][i] = k[n][i]
    OBVIOUS
  <2> PICK m : m = n + d
    OBVIOUS
  <2>1. /\ m + 1 \in 1 .. Len(s) /\ m \in 0 .. Len(s) /\ (m + 1) - 1 = m /\ n + (d + 1) = m + 1
        /\ Len(k[n]) <= Len(k[m]) /\ \A i \in 1 .. Len(k[n]) : k[m][i] = k[n][i]
    BY <1>1, <1>3
  <2>2. k[m + 1] = IF s[m + 1] \in S THEN Append(k[m], s[m + 1]) ELSE k[m]
    BY <2>1 DEF Keeps
  <2> PICK old : old = k[m]
    OBVIOUS
  <2> PICK x \in X : x = s[m + 1]
    BY <2>1
  <2>3. /\ old \in Seq(X) /\ Len(old) \in Nat /\ Len(Append(old, x)) = Len(old) + 1
        /\ \A i \in 1 .. Len(old) : Append(old, x)[i] = old[i]
    BY <1>1, <2>1
  <2>4. k[m + 1] \in {Append(old, x), old}
    BY <2>2
  <2>5. Len(k[n]) <= Len(k[m + 1]) /\ \A i \in 1 .. Len(old) : k[m + 1][i] = old[i]
    <3>1. Len(k[n]) \in Nat /\ Len(k[n]) <= Len(old)
      BY <1>1, <2>1
    <3>2. CASE k[m + 1] = Append(old, x)
      <4>1. Len(k[m + 1]) = Len(old) + 1
        BY <2>3, <3>2
      <4> QED BY <2>3, <3>1, <3>2, <4>1
    <3>3. CASE k[m + 1] = old
      BY <3>1, <3>3
    <3> QED BY <2>4, <3>2, <3>3
  <2>6. \A i \in 1 .. Len(k[n]) : i \in 1 .. Len(old)
    BY <1>1, <2>1, <2>3
  <2> QED BY <2>1, <2>5, <2>6
<1>4. \A d \in Nat : d \in Good
  <2>1. \A d \in Nat : d \in Good => d + 1 \in Good
    BY <1>3
  <2> HIDE DEF Good
  <2> QED BY <1>2, <2>1, NatSet
<1>5. ASSUME NEW m \in n .. Len(s)
      PROVE  Len(k[n]) <= Len(k[m]) /\ \A i \in 1 .. Len(k[n]) : k[m][i] = k[n][i]
  <2>1. m - n \in Nat /\ n + (m - n) = m
    BY <1>1
  <2>2. m - n \in Good
    BY <1>4, <2>1
  <2> QED BY <1>1, <2>1, <2>2
<1> QED BY <1>5

--------------------------------------------------------------------------------
(* Parsing the MADT and starting the processors. *)
Least(a, b) == IF a < b THEN a ELSE b

Processors == {e \in ToSet(fw.madt) : e.kind = "lapic" /\ e.enabled}
Ids == {e.id : e \in ToSet(fw.madt)}

\* The ids a kernel has room for.
First == SubSeq(EnabledIds, 1, Least(Len(EnabledIds), MaxCpus))

\* What StartsTheOthers asks of the machine.
Premise ==
  /\ kernel.starts # "none" /\ WellFormed
  /\ kernel.starts = "others" \/ BspIsFirst
  /\ kernel.full = "counts_on" => Len(EnabledIds) <= MaxCpus

\* The loop over the MADT has kept the first of the ids of the entries behind it.
Parsed(k) ==
  LET seen == k[ptr - 1]
  IN  /\ ptr \in 1 .. Len(fw.madt) + 1
      /\ cpu_apic_ids \in Seq(Ids)
      /\ Len(cpu_apic_ids) = Least(Len(seen), MaxCpus)
      /\ \A i \in 1 .. Len(cpu_apic_ids) : cpu_apic_ids[i] = seen[i].id
      /\ cpu_count = Least(Len(seen), IF kernel.full = "counts_on" THEN CountBound ELSE MaxCpus)

ParseInv ==
  \A k \in [0 .. Len(fw.madt) -> Seq(ToSet(fw.madt))] :
    Keeps(fw.madt, Processors, k) => Parsed(k)

\* The loop over the processors has dealt with the first cpu_idx of them.
StartInv ==
  /\ cpu_apic_ids = First /\ cpu_count = Len(First)
  /\ cpu_idx \in 0 .. cpu_count /\ (kernel.starts = "from_1" => cpu_idx >= 1)
  /\ pc = "done" => cpu_idx = cpu_count
  /\ \A k \in [0 .. Len(First) -> Seq(Ids)] :
       Keeps(First, ToSet(First) \ {fw.bsp}, k) => started = k[cpu_idx]

OthersInv ==
  /\ fw \in Firmwares /\ kernel \in Kernels
  /\ Premise =>
       /\ pc \notin {"start", "done"} => ParseInv /\ started = <<>>
       /\ pc \in {"start", "done"} => StartInv

LEMMA EnabledIs ==
  ASSUME fw \in Firmwares
  PROVE  /\ fw.madt \in Seq(ToSet(fw.madt)) /\ Len(fw.madt) \in Nat
         /\ EnabledIds \in Seq(Ids) /\ Len(EnabledIds) \in Nat
         /\ \A i \in 1 .. Len(EnabledIds) : EnabledIds[i] \in Ids
         /\ \E k \in [0 .. Len(fw.madt) -> Seq(ToSet(fw.madt))] :
              /\ Keeps(fw.madt, Processors, k)
              /\ Len(EnabledIds) = Len(k[Len(fw.madt)])
              /\ \A i \in 1 .. Len(EnabledIds) : EnabledIds[i] = k[Len(fw.madt)][i].id
<1>1. fw.madt \in Seq(ToSet(fw.madt)) /\ Len(fw.madt) \in Nat
  BY AcpiAssumption
<1>2. PICK k \in [0 .. Len(fw.madt) -> Seq(ToSet(fw.madt))] :
        Keeps(fw.madt, Processors, k) /\ Only(fw.madt, Processors) = k[Len(fw.madt)]
  BY <1>1, OnlyIs
<1>3. Enabled = k[Len(fw.madt)] /\ Enabled \in Seq(ToSet(fw.madt))
  BY <1>1, <1>2 DEF Enabled, Processors
<1> PICK all, N : all = Enabled /\ N = Len(Enabled)
  OBVIOUS
<1>4. N \in Nat /\ DOMAIN all = 1 .. N /\ \A i \in 1 .. N : all[i].id \in Ids
  BY <1>3 DEF Ids
<1>5. EnabledIds = [i \in 1 .. N |-> all[i].id]
  BY <1>4 DEF EnabledIds
<1>6. EnabledIds \in Seq(Ids) /\ Len(EnabledIds) = N
  BY ONLY <1>4, <1>5
<1>7. \A i \in 1 .. Len(EnabledIds) : EnabledIds[i] = all[i].id
  BY <1>4, <1>5, <1>6
<1> QED BY <1>1, <1>2, <1>3, <1>4, <1>6, <1>7

LEMMA FirstIs ==
  ASSUME fw \in Firmwares
  PROVE  /\ First \in Seq(Ids) /\ Len(First) = Least(Len(EnabledIds), MaxCpus)
         /\ Len(First) \in Nat
         /\ \A i \in 1 .. Len(First) : First[i] = EnabledIds[i]
<1> PICK m : m = Least(Len(EnabledIds), MaxCpus)
  OBVIOUS
<1>1. m \in Nat /\ m <= Len(EnabledIds) /\ EnabledIds \in Seq(Ids)
  BY EnabledIs, AcpiAssumption DEF Least
<1>2. First = SubSeq(EnabledIds, 1, m)
  BY DEF First
<1>3. First = [i \in 1 .. m |-> EnabledIds[i]]
  BY <1>1, <1>2
<1>4. \A i \in 1 .. m : EnabledIds[i] \in Ids
  BY <1>1, EnabledIs
<1>5. First \in Seq(Ids) /\ Len(First) = m
  BY ONLY <1>1, <1>3, <1>4
<1> QED BY <1>1, <1>3, <1>5

LEMMA OthersInit == AcpiInit => OthersInv
<1> SUFFICES ASSUME AcpiInit PROVE OthersInv
  OBVIOUS
<1>1. /\ fw \in Firmwares /\ kernel \in Kernels /\ pc = "rsdp" /\ ptr = 1 /\ cpu_count = 0
      /\ cpu_apic_ids = <<>> /\ started = <<>>
  BY DEF AcpiInit
<1>2. Len(fw.madt) \in Nat /\ MaxCpus \in Nat \ {0} /\ CountBound \in Nat \ {0}
  BY <1>1, EnabledIs, AcpiAssumption
<1>3. ASSUME NEW k, Keeps(fw.madt, Processors, k) PROVE Parsed(k)
  <2>1. k[ptr - 1] = <<>> /\ Len(<<>>) = 0 /\ <<>> \in Seq(Ids)
    BY <1>1, <1>3 DEF Keeps
  <2>2. ptr \in 1 .. Len(fw.madt) + 1
    BY <1>1, <1>2
  <2>3. Least(0, MaxCpus) = 0 /\ Least(0, CountBound) = 0
    BY <1>2 DEF Least
  <2> QED BY <1>1, <2>1, <2>2, <2>3 DEF Parsed
<1> QED BY <1>1, <1>3 DEF OthersInv, ParseInv

(* One turn of the loop over the MADT. *)
LEMMA ParseEntryParsed ==
  ASSUME OthersInv, Premise, ParseEntry,
         NEW k \in [0 .. Len(fw.madt) -> Seq(ToSet(fw.madt))], Keeps(fw.madt, Processors, k),
         Parsed(k)
  PROVE  Parsed(k)'
<1> PICK M : M = fw.madt
  OBVIOUS
<1> PICK e : e = M[ptr]
  OBVIOUS
<1> PICK seen : seen = k[ptr - 1]
  OBVIOUS
<1>1. /\ pc = "parse" /\ ptr <= Len(M) /\ ~(kernel.full = "stops" /\ Full)
      /\ fw' = fw /\ kernel' = kernel
  BY DEF ParseEntry, MoreEntries, machine
<1>2. /\ Len(M) \in Nat /\ M \in Seq(ToSet(M)) /\ ptr \in 1 .. Len(M)
      /\ MaxCpus \in Nat \ {0} /\ CountBound \in Nat /\ CountBound > MaxCpus
  BY <1>1, EnabledIs, AcpiAssumption DEF OthersInv, Parsed
<1>3. e \in ToSet(M) /\ e.size > 0 /\ ptr \in DOMAIN M /\ e.id \in Ids
  BY <1>2 DEF Premise, WellFormed, ToSet, Ids
<1>4. seen \in Seq(ToSet(M)) /\ Len(seen) \in Nat
  BY <1>2
<1>5. /\ cpu_apic_ids \in Seq(Ids)
      /\ Len(cpu_apic_ids) = Least(Len(seen), MaxCpus)
      /\ \A i \in 1 .. Len(cpu_apic_ids) : cpu_apic_ids[i] = seen[i].id
      /\ cpu_count = Least(Len(seen), IF kernel.full = "counts_on" THEN CountBound ELSE MaxCpus)
  BY DEF Parsed
<1>6. ptr' = ptr + 1 /\ ptr' \in 1 .. Len(M) + 1 /\ ptr' - 1 = ptr
  <2>1. ptr' = ptr + 1
    BY <1>1, <1>3 DEF ParseEntry, NextPtr
  <2> QED BY <1>2, <2>1
<1>7. k[ptr] = IF e \in Processors THEN Append(seen, e) ELSE seen
  BY <1>2 DEF Keeps
<1>8. e \in Processors <=> e.kind = "lapic" /\ e.enabled
  BY <1>3 DEF Processors
<1>9. kernel.full \in {"counts_on", "skips", "stops"}
  BY KernelsAre DEF OthersInv, Premise
<1>10. Full <=> Len(seen) >= MaxCpus
  BY <1>2, <1>4, <1>5 DEF Full, Least
<1>11. CASE e \in Processors
  <2>1. k[ptr] = Append(seen, e) /\ Len(k[ptr]) = Len(seen) + 1
        /\ \A i \in 1 .. Len(seen) : k[ptr][i] = seen[i]
        /\ k[ptr][Len(seen) + 1] = e
    BY <1>3, <1>4, <1>7, <1>11
  <2>2. CASE Full
    <3>1. cpu_apic_ids' = cpu_apic_ids /\ Len(cpu_apic_ids) = MaxCpus /\ MaxCpus <= Len(seen)
      <4>1. cpu_apic_ids' = cpu_apic_ids
        BY <1>1, <2>2 DEF ParseEntry
      <4> QED BY <1>2, <1>4, <1>5, <1>10, <2>2, <4>1 DEF Least
    <3>2. cpu_count' = Least(Len(seen) + 1, IF kernel.full = "counts_on" THEN CountBound ELSE MaxCpus)
      <4>1. CASE kernel.full = "counts_on"
        <5>1. cpu_count' = IF cpu_count = CountBound THEN cpu_count ELSE cpu_count + 1
          BY <1>1, <1>8, <1>11, <4>1 DEF ParseEntry
        <5> QED BY <1>2, <1>4, <1>5, <4>1, <5>1 DEF Least
      <4>2. CASE kernel.full = "skips"
        <5>1. cpu_count' = cpu_count
          BY <1>1, <2>2, <4>2 DEF ParseEntry
        <5> QED BY <1>2, <1>4, <1>5, <3>1, <4>2, <5>1 DEF Least
      <4> QED BY <1>1, <1>9, <2>2, <4>1, <4>2
    <3>3. Least(Len(seen) + 1, MaxCpus) = MaxCpus
      BY <1>2, <1>4, <3>1 DEF Least
    <3>4. \A i \in 1 .. Len(cpu_apic_ids) : cpu_apic_ids[i] = k[ptr][i].id
      BY <1>2, <1>4, <1>5, <2>1, <3>1
    <3> QED BY <1>1, <1>5, <1>6, <2>1, <3>1, <3>2, <3>3, <3>4 DEF Parsed, Ids
  <2>3. CASE ~Full
    <3>1. Len(seen) < MaxCpus /\ Len(cpu_apic_ids) = Len(seen) /\ cpu_count = Len(seen)
      BY <1>2, <1>4, <1>5, <1>10, <2>3 DEF Least
    <3>2. /\ cpu_apic_ids' = Append(cpu_apic_ids, e.id)
          /\ cpu_count' = IF cpu_count = CountBound THEN cpu_count ELSE cpu_count + 1
      BY <1>1, <1>8, <1>9, <1>11, <2>3 DEF ParseEntry
    <3>3. cpu_count' = Len(seen) + 1
      BY <1>2, <1>4, <3>1, <3>2
    <3>4. /\ Least(Len(seen) + 1, MaxCpus) = Len(seen) + 1
          /\ Least(Len(seen) + 1, CountBound) = Len(seen) + 1
      BY <1>2, <1>4, <3>1 DEF Least
    <3>5. /\ cpu_apic_ids' \in Seq(Ids) /\ Len(cpu_apic_ids') = Len(seen) + 1
          /\ \A i \in 1 .. Len(seen) : cpu_apic_ids'[i] = cpu_apic_ids[i]
          /\ cpu_apic_ids'[Len(seen) + 1] = e.id
      BY <1>3, <1>5, <3>1, <3>2
    <3>6. \A i \in 1 .. Len(seen) + 1 : cpu_apic_ids'[i] = k[ptr][i].id
      <4>1. \A i \in 1 .. Len(seen) + 1 : i \in 1 .. Len(seen) \/ i = Len(seen) + 1
        <5> PICK n \in Nat : n = Len(seen)
          BY <1>4
        <5>1. \A i \in 1 .. n + 1 : i \in 1 .. n \/ i = n + 1
          OBVIOUS
        <5> QED BY <5>1
      <4> QED BY <1>5, <2>1, <3>1, <3>5, <4>1
    <3> QED BY <1>1, <1>6, <2>1, <3>3, <3>4, <3>5, <3>6 DEF Parsed, Ids
  <2> QED BY <2>2, <2>3
<1>12. CASE e \notin Processors
  <2>1. k[ptr] = seen /\ cpu_apic_ids' = cpu_apic_ids /\ cpu_count' = cpu_count
    BY <1>1, <1>7, <1>8, <1>12 DEF ParseEntry
  <2> QED BY <1>1, <1>5, <1>6, <2>1 DEF Parsed, Ids
<1> QED BY <1>11, <1>12

(* What the loop over the MADT leaves: the ids of the first processors, all  *)
(* of them or as many as there is room for.                                  *)
LEMMA ParseEndFirst ==
  ASSUME OthersInv, Premise, ParseEnd, ParseInv
  PROVE  cpu_apic_ids = First /\ cpu_count = Len(First)
<1> PICK M : M = fw.madt
  OBVIOUS
<1>1. /\ M \in Seq(ToSet(M)) /\ Len(M) \in Nat
      /\ MaxCpus \in Nat \ {0} /\ CountBound \in Nat /\ CountBound > MaxCpus
      /\ EnabledIds \in Seq(Ids) /\ Len(EnabledIds) \in Nat
      /\ fw \in Firmwares /\ kernel \in Kernels
  BY EnabledIs, AcpiAssumption DEF OthersInv
<1>2. PICK k \in [0 .. Len(M) -> Seq(ToSet(M))] :
        /\ Keeps(M, Processors, k)
        /\ Len(EnabledIds) = Len(k[Len(M)])
        /\ \A i \in 1 .. Len(EnabledIds) : EnabledIds[i] = k[Len(M)][i].id
  BY <1>1, EnabledIs
<1> PICK seen : seen = k[ptr - 1]
  OBVIOUS
<1>3. /\ ptr \in 1 .. Len(M) + 1 /\ cpu_apic_ids \in Seq(Ids)
      /\ Len(cpu_apic_ids) = Least(Len(seen), MaxCpus)
      /\ \A i \in 1 .. Len(cpu_apic_ids) : cpu_apic_ids[i] = seen[i].id
      /\ cpu_count = Least(Len(seen), IF kernel.full = "counts_on" THEN CountBound ELSE MaxCpus)
  BY <1>2 DEF ParseInv, Parsed
<1>4. ptr - 1 \in 0 .. Len(M) /\ seen \in Seq(ToSet(M)) /\ Len(seen) \in Nat
      /\ Len(M) \in ptr - 1 .. Len(M)
  BY <1>1, <1>3
<1>5. Len(seen) <= Len(EnabledIds) /\ \A i \in 1 .. Len(seen) : EnabledIds[i] = seen[i].id
  <2>1. /\ Len(seen) <= Len(k[Len(M)])
        /\ \A i \in 1 .. Len(seen) : k[Len(M)][i] = seen[i]
    <3> PICK n : n = ptr - 1
      OBVIOUS
    <3>1. /\ M \in Seq(ToSet(M)) /\ k \in [0 .. Len(M) -> Seq(ToSet(M))]
          /\ Keeps(M, Processors, k) /\ n \in 0 .. Len(M) /\ Len(M) \in n .. Len(M)
      BY <1>1, <1>2, <1>4
    <3>2. \A m \in n .. Len(M) : /\ Len(k[n]) <= Len(k[m])
                                 /\ \A i \in 1 .. Len(k[n]) : k[m][i] = k[n][i]
      BY ONLY <3>1, KeptPrefix
    <3> QED BY <3>1, <3>2
  <2>2. \A i \in 1 .. Len(seen) : i \in 1 .. Len(EnabledIds)
    BY <1>1, <1>2, <1>4, <2>1
  <2> QED BY <1>2, <2>1, <2>2
<1>6. Len(seen) = Len(EnabledIds) \/ (kernel.full = "stops" /\ Len(seen) >= MaxCpus)
  <2>1. ptr > Len(M) \/ (kernel.full = "stops" /\ cpu_count >= MaxCpus)
    BY <1>1, <1>3 DEF ParseEnd, MoreEntries, Full
  <2>2. CASE ptr > Len(M)
    <3>1. ptr - 1 = Len(M)
      <4>1. ptr \in 1 .. Len(M) + 1 /\ Len(M) \in Nat
        BY <1>1, <1>3
      <4> QED BY ONLY <2>2, <4>1
    <3>2. seen = k[Len(M)]
      BY ONLY <3>1, seen = k[ptr - 1]
    <3> QED BY ONLY <1>2, <3>2
  <2>3. CASE kernel.full = "stops" /\ cpu_count >= MaxCpus
    BY <1>1, <1>3, <1>4, <2>3 DEF Least
  <2> QED BY <2>1, <2>2, <2>3
<1>7. Least(Len(seen), MaxCpus) = Least(Len(EnabledIds), MaxCpus)
  BY <1>1, <1>4, <1>5, <1>6 DEF Least
<1>8. cpu_count = Least(Len(EnabledIds), MaxCpus)
  <2>1. CASE kernel.full = "counts_on"
    <3>1. Len(EnabledIds) <= MaxCpus /\ Len(seen) = Len(EnabledIds)
      BY <1>6, <2>1 DEF Premise
    <3> QED BY <1>1, <1>3, <2>1, <3>1 DEF Least
  <2>2. CASE kernel.full # "counts_on"
    BY <1>3, <1>7, <2>2
  <2> QED BY <2>1, <2>2
<1>9. /\ First \in Seq(Ids) /\ Len(First) = Len(cpu_apic_ids)
      /\ \A i \in 1 .. Len(First) : First[i] = EnabledIds[i]
  BY <1>1, <1>3, <1>7, FirstIs
<1>10. \A i \in 1 .. Len(cpu_apic_ids) : cpu_apic_ids[i] = First[i]
  <2>1. \A i \in 1 .. Len(cpu_apic_ids) : i \in 1 .. Len(seen)
    BY <1>1, <1>3, <1>4 DEF Least
  <2> QED BY <1>3, <1>5, <1>9, <2>1
<1>11. cpu_apic_ids = First
  BY ONLY <1>3, <1>9, <1>10, Zenon, SeqEqual
<1> QED BY <1>1, <1>8, <1>11, FirstIs

LEMMA ParseEndStarts ==
  ASSUME OthersInv, Premise, ParseEnd, ParseInv, started = <<>>
  PROVE  StartInv'
<1>1. cpu_apic_ids = First /\ cpu_count = Len(First) /\ fw \in Firmwares /\ kernel \in Kernels
  BY ParseEndFirst DEF OthersInv
<1>2. /\ fw' = fw /\ kernel' = kernel /\ cpu_apic_ids' = cpu_apic_ids /\ cpu_count' = cpu_count
      /\ started' = started /\ pc' = "start"
      /\ cpu_idx' = IF kernel.starts = "from_1" THEN 1 ELSE 0
  BY DEF ParseEnd, machine, Premise
<1>3. First' = First /\ Ids' = Ids
  BY <1>2 DEF First, EnabledIds, Enabled, Least, Ids
<1>4. /\ First \in Seq(Ids) /\ Len(First) = Least(Len(EnabledIds), MaxCpus) /\ Len(First) \in Nat
      /\ \A i \in 1 .. Len(First) : First[i] = EnabledIds[i]
      /\ EnabledIds \in Seq(Ids) /\ Len(EnabledIds) \in Nat /\ MaxCpus \in Nat \ {0}
  BY <1>1, FirstIs, EnabledIs, AcpiAssumption
<1>5. kernel.starts = "from_1" => Len(First) >= 1 /\ First[1] = fw.bsp
  <2> SUFFICES ASSUME kernel.starts = "from_1" PROVE Len(First) >= 1 /\ First[1] = fw.bsp
    OBVIOUS
  <2>1. EnabledIds # <<>> /\ \A i \in DOMAIN EnabledIds : EnabledIds[i] = fw.bsp <=> i = 1
    BY DEF Premise, BspIsFirst
  <2>2. Len(EnabledIds) >= 1 /\ 1 \in DOMAIN EnabledIds
    BY <1>4, <2>1
  <2>3. Len(First) >= 1
    BY <1>4, <2>2 DEF Least
  <2> QED BY <1>4, <2>1, <2>2, <2>3
<1>6. ASSUME NEW k \in [0 .. Len(First) -> Seq(Ids)], Keeps(First, ToSet(First) \ {fw.bsp}, k)
      PROVE  started' = k[cpu_idx']
  <2>1. k[0] = <<>>
    BY <1>6 DEF Keeps
  <2>2. CASE kernel.starts = "from_1"
    <3>1. 1 \in 1 .. Len(First) /\ 1 - 1 = 0 /\ First[1] \notin ToSet(First) \ {fw.bsp}
      BY <1>4, <1>5, <2>2
    <3>2. k[1] = k[1 - 1]
      BY <1>6, <3>1 DEF Keeps
    <3> QED BY <1>2, <2>1, <2>2, <3>1, <3>2
  <2>3. CASE kernel.starts # "from_1"
    BY <1>2, <2>1, <2>3
  <2> QED BY <2>2, <2>3
<1>7. cpu_idx' \in 0 .. cpu_count /\ (kernel.starts = "from_1" => cpu_idx' >= 1)
  BY <1>1, <1>2, <1>4, <1>5
<1> QED BY <1>1, <1>2, <1>3, <1>6, <1>7 DEF StartInv

(* One turn of the loop over the processors. *)
LEMMA StartNextInv ==
  ASSUME OthersInv, Premise, StartNext, StartInv
  PROVE  StartInv'
<1>1. /\ pc = "start" /\ cpu_idx < cpu_count /\ cpu_idx' = cpu_idx + 1 /\ pc' = pc
      /\ UNCHANGED <<fw, kernel, cpu_apic_ids, cpu_count>>
  BY DEF StartNext, machine
<1>2. First' = First /\ Ids' = Ids
  BY <1>1 DEF First, EnabledIds, Enabled, Least, Ids
<1>3. /\ cpu_apic_ids = First /\ cpu_count = Len(First) /\ Len(First) \in Nat
      /\ First \in Seq(Ids) /\ cpu_idx \in 0 .. cpu_count
      /\ kernel.starts = "from_1" => cpu_idx >= 1
  BY FirstIs DEF StartInv, OthersInv
<1> PICK n : n = cpu_idx + 1
  OBVIOUS
<1>4. n \in 1 .. Len(First) /\ n - 1 = cpu_idx /\ cpu_idx < Len(First) /\ n \in 0 .. cpu_count
  BY <1>1, <1>3
<1>5. started' = IF kernel.starts = "others" /\ First[n] = fw.bsp THEN started
                 ELSE Append(started, First[n])
  BY <1>3, <1>4 DEF StartNext
<1>6. kernel.starts = "others" \/ First[n] # fw.bsp
  <2> SUFFICES ASSUME kernel.starts # "others" PROVE First[n] # fw.bsp
    OBVIOUS
  <2>1. kernel.starts = "from_1" /\ BspIsFirst
    BY KernelsAre DEF Premise, OthersInv
  <2>2. n # 1 /\ First[n] = EnabledIds[n] /\ n \in DOMAIN EnabledIds
    <3>1. fw \in Firmwares /\ MaxCpus \in Nat
      BY AcpiAssumption DEF OthersInv
    <3>2. /\ Len(First) = Least(Len(EnabledIds), MaxCpus) /\ First[n] = EnabledIds[n]
          /\ EnabledIds \in Seq(Ids) /\ Len(EnabledIds) \in Nat
      BY <1>4, <3>1, FirstIs, EnabledIs
    <3>3. n \in 1 .. Len(EnabledIds)
      BY <1>3, <1>4, <3>1, <3>2 DEF Least
    <3> QED BY <1>3, <1>4, <2>1, <3>2, <3>3
  <2> QED BY <2>1, <2>2 DEF BspIsFirst
<1>7. First[n] \in ToSet(First)
  BY <1>3, <1>4 DEF ToSet
<1>8. ASSUME NEW k \in [0 .. Len(First) -> Seq(Ids)], Keeps(First, ToSet(First) \ {fw.bsp}, k)
      PROVE  started' = k[cpu_idx']
  <2>1. started = k[n - 1]
    BY <1>4, <1>8 DEF StartInv
  <2>2. k[n] = IF First[n] \in ToSet(First) \ {fw.bsp} THEN Append(k[n - 1], First[n]) ELSE k[n - 1]
    BY <1>4, <1>8 DEF Keeps
  <2> QED BY <1>1, <1>5, <1>6, <1>7, <2>1, <2>2
<1>9. /\ cpu_idx' \in 0 .. cpu_count' /\ (kernel'.starts = "from_1" => cpu_idx' >= 1)
      /\ pc' # "done"
  BY <1>1, <1>3, <1>4
<1> QED BY <1>1, <1>2, <1>3, <1>8, <1>9 DEF StartInv

LEMMA OthersNext == OthersInv /\ [AcpiNext]_acpiVars => OthersInv'
<1> SUFFICES ASSUME OthersInv, [AcpiNext]_acpiVars PROVE OthersInv'
  OBVIOUS
<1>1. fw' = fw /\ kernel' = kernel
  BY DEF AcpiNext, acpiVars, machine, FindRsdp, FindMadt, ParseEntry, ParseEnd, StartNext,
         StartEnd, Halted
<1>2. /\ Premise' <=> Premise
      /\ First' = First /\ Ids' = Ids
  BY <1>1 DEF Premise, WellFormed, BspIsFirst, First, EnabledIds, Enabled, Least, Ids
<1> SUFFICES ASSUME Premise
             PROVE  /\ pc' \notin {"start", "done"} => ParseInv' /\ started' = <<>>
                    /\ pc' \in {"start", "done"} => StartInv'
  BY <1>1, <1>2 DEF OthersInv
<1>3. CASE UNCHANGED <<ptr, cpu_count, cpu_apic_ids, cpu_idx, started>>
           /\ (pc' \in {"start", "done"} <=> pc \in {"start", "done"})
           /\ (pc' = "done" => pc = "done" \/ cpu_idx >= cpu_count)
  <2>1. ParseInv <=> ParseInv'
    BY <1>1, <1>3 DEF ParseInv, Parsed, Ids, Processors
  <2>2. StartInv => StartInv'
    <3> SUFFICES ASSUME StartInv PROVE StartInv'
      OBVIOUS
    <3>1. pc' = "done" => cpu_idx = cpu_count
      <4>1. cpu_count = Len(First) /\ Len(First) \in Nat /\ cpu_idx \in 0 .. cpu_count
        BY FirstIs DEF StartInv, OthersInv
      <4>2. cpu_idx >= cpu_count => cpu_idx = cpu_count
        BY <4>1
      <4> QED BY <1>3, <4>2 DEF StartInv
    <3> QED BY <1>1, <1>2, <1>3, <3>1 DEF StartInv
  <2> QED BY <1>3, <2>1, <2>2 DEF OthersInv
<1>4. CASE FindRsdp \/ FindMadt \/ Halted \/ UNCHANGED acpiVars
  BY <1>3, <1>4 DEF FindRsdp, FindMadt, Halted, acpiVars
<1>5. CASE ParseEntry
  <2>1. pc' = "parse" /\ pc = "parse" /\ started' = started
    BY <1>5 DEF ParseEntry
  <2>2. ParseInv /\ started = <<>>
    BY <2>1 DEF OthersInv
  <2>3. ASSUME NEW k \in [0 .. Len(fw.madt) -> Seq(ToSet(fw.madt))], Keeps(fw.madt, Processors, k)
        PROVE  Parsed(k)'
    <3>1. Parsed(k)
      BY <2>2, <2>3 DEF ParseInv
    <3> QED BY <1>5, <2>3, <3>1, ParseEntryParsed
  <2>4. ParseInv'
    BY <1>1, <2>3 DEF ParseInv, Processors
  <2> QED BY <2>1, <2>2, <2>4
<1>6. CASE ParseEnd
  <2>1. pc = "parse" /\ pc' = "start"
    BY <1>6 DEF ParseEnd, Premise
  <2> QED BY <1>6, <2>1, ParseEndStarts DEF OthersInv
<1>7. CASE StartNext
  BY <1>7, StartNextInv DEF StartNext, OthersInv
<1>8. CASE StartEnd
  BY <1>3, <1>8 DEF StartEnd
<1> QED BY <1>4, <1>5, <1>6, <1>7, <1>8 DEF AcpiNext

LEMMA OthersInvariant == AcpiSpec => []OthersInv
  BY OthersInit, OthersNext, PTL DEF AcpiSpec

(* Startup IPIs go to every enabled processor but the BSP, in the order of   *)
(* the MADT, once, as far as cpu_apic_ids has room.                          *)
THEOREM AcpiStartsTheOthers == AcpiSpec => []StartsTheOthers
<1>1. OthersInv => StartsTheOthers
  <2> SUFFICES ASSUME OthersInv, pc = "done", Premise
               PROVE  started = Only(First, ToSet(First) \ {fw.bsp})
    BY DEF StartsTheOthers, Premise, First, Least
  <2>1. StartInv /\ First \in Seq(Ids)
    BY FirstIs DEF OthersInv
  <2>2. PICK k \in [0 .. Len(First) -> Seq(Ids)] :
          /\ Keeps(First, ToSet(First) \ {fw.bsp}, k)
          /\ Only(First, ToSet(First) \ {fw.bsp}) = k[Len(First)]
    BY <2>1, OnlyIs
  <2> QED BY <2>1, <2>2 DEF StartInv
<1> QED BY <1>1, OthersInvariant, PTL

================================================================================
