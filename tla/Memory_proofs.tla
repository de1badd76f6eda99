---------------------------- MODULE Memory_proofs ----------------------------
(***************************************************************************)
(* Proofs about the physical memory and the page directory, for any layout *)
(* of memory that LayoutAssumption allows, any tasks and any sizes.        *)
(***************************************************************************)
EXTENDS Memory, WellFoundedInduction, TLAPS

USE LayoutAssumption, RequestAssumption

-------------------------------------------------------------------------------
(* Arithmetic: % on what addresses and regions can differ by, and the      *)
(* rounding up of a size to pages.                                         *)

LEMMA ModSmall ==
    ASSUME NEW n \in Nat \ {0}, NEW x \in Int, 0 <= x, x < n
    PROVE  x % n = x
  OBVIOUS

LEMMA ModBack ==
    ASSUME NEW n \in Nat \ {0}, NEW x \in Int, -n <= x, x < 0
    PROVE  x % n = x + n
  OBVIOUS

\* Inside memory, Offset counts from the start of a block and goes around.
LEMMA OffsetIs ==
    ASSUME NEW a \in Regions, NEW start \in Regions
    PROVE  Offset(a, start) = IF start <= a THEN a - start ELSE a - start + NRegions
  <1>1. NRegions \in Nat \ {0} /\ a \in Nat /\ start \in Nat
        /\ a < NRegions /\ start < NRegions
    BY DEF Regions
  <1>2. CASE start <= a
    <2>1. a - start \in Int /\ 0 <= a - start /\ a - start < NRegions
      BY <1>1, <1>2
    <2> QED  BY <1>1, <1>2, <2>1, ModSmall DEF Offset
  <1>3. CASE ~(start <= a)
    BY <1>1, <1>3, ModBack DEF Offset
  <1> QED  BY <1>2, <1>3

\* A block that ends before the end of memory is an interval of regions.
LEMMA OffsetInside ==
    ASSUME NEW a \in Regions, NEW start \in Regions, NEW n \in Nat, start + n <= NRegions
    PROVE  Offset(a, start) < n <=> a \in start .. start + n - 1
  BY OffsetIs DEF Regions

LEMMA BlocksType ==
    ASSUME NEW size \in Nat \ {0}
    PROVE  Blocks(size) \in Nat \ {0}
  <1>1. Unit \in Nat \ {0}
    OBVIOUS
  <1> DEFINE q == size \div Unit
             m == size % Unit
  <1>2. q \in Nat /\ m \in Nat /\ size = Unit * q + m
    BY <1>1
  <1>3. m = 0 => q # 0
    BY <1>1, <1>2
  <1> QED  BY <1>2, <1>3 DEF Blocks

LEMMA BlocksWhole ==
    ASSUME NEW n \in Nat \ {0}
    PROVE  Blocks(n * Unit) = n
  <1>1. Unit \in Nat \ {0} /\ n * Unit \in Nat
    OBVIOUS
  <1> DEFINE q == (n * Unit) \div Unit
             m == (n * Unit) % Unit
  <1>2. q \in Nat /\ m \in 0 .. Unit - 1 /\ n * Unit = Unit * q + m
    BY <1>1
  <1>3. q = n /\ m = 0
    BY <1>1, <1>2
  <1> QED  BY <1>3 DEF Blocks
-------------------------------------------------------------------------------
(* MEM_findRegionIdx.                                                      *)

LEMMA MinFound ==
    ASSUME NEW S \in SUBSET Nat, S # {}
    PROVE  Min(S) \in S /\ \A y \in S : Min(S) <= y
  <1> DEFINE less == {ss \in Nat \X Nat : ss[1] < ss[2]}
  <1>1. IsWellFoundedOn(less, Nat)
    BY NatLessThanWellFounded DEF OpToRel
  <1>2. PICK x \in S : \A y \in S : ~(<<y, x>> \in less)
    <2> HIDE DEF less
    <2> QED  BY <1>1, WFMin
  <1>3. ASSUME NEW y \in S PROVE x <= y
    <2>1. ~(y < x)
      <3>1. ~(<<y, x>> \in less)
        BY <1>2
      <3> QED  BY <3>1
    <2>2. x \in Nat /\ y \in Nat
      OBVIOUS
    <2> QED  BY <2>1, <2>2
  <1> QED  BY <1>3 DEF Min

\* The answer is -1 or the first of the runs that are long enough.
LEMMA RegionFound ==
    ASSUME NEW reg, NEW size
    PROVE  \/ FindRegionIdx(reg, size) = -1
           \/ /\ FindRegionIdx(reg, size) \in Regions
              /\ Fits(reg, FindRegionIdx(reg, size), Blocks(size))
  <1> DEFINE runs == {i \in Regions : Fits(reg, i, Blocks(size))}
  <1>1. CASE runs = {}
    BY <1>1 DEF FindRegionIdx
  <1>2. CASE runs # {}
    <2>1. runs \in SUBSET Nat
      BY DEF Regions
    <2>2. Min(runs) \in runs
      BY <1>2, <2>1, MinFound
    <2> QED  BY <1>2, <2>2 DEF FindRegionIdx
  <1> QED  BY <1>1, <1>2

\* alloc_init gets the pages behind the kernel image for its heap.
LEMMA HeapFirst == HeapIdx = Kernel
  <1> DEFINE runs == {i \in Regions : Fits(BootRegions, i, HeapPages)}
  <1>1. Blocks(HeapPages * Unit) = HeapPages
    BY BlocksWhole
  <1>2. Kernel \in runs
    <2>1. \A r \in Kernel .. Usable - 1 :
             r \in Regions /\ BootRegions[r].available /\ BootRegions[r].exists
      BY DEF BootRegions, Regions
    <2> QED  BY <2>1 DEF Fits, Regions
  <1>3. ASSUME NEW i \in runs PROVE Kernel <= i
    <2>1. i \in Regions /\ BootRegions[i].available
      <3>1. 0 \in 0 .. HeapPages - 1 /\ i + 0 = i
        BY DEF Regions
      <3> QED  BY <3>1 DEF Fits
    <2>2. \A r \in Regions : r < Kernel => ~BootRegions[r].available
      BY DEF BootRegions
    <2> QED  BY <2>1, <2>2 DEF Regions
  <1>4. runs \in SUBSET Nat
    BY DEF Regions
  <1>5. Min(runs) = Kernel
    BY <1>2, <1>3, <1>4, MinFound
  <1> QED  BY <1>1, <1>2, <1>5 DEF HeapIdx, FindRegionIdx
-------------------------------------------------------------------------------
(* Types, whatever the hazards are: every region and page a step writes is *)
(* taken modulo the number of pages.                                       *)

LEMMA InMemory == \A x \in Int : x % NRegions \in Regions
  BY DEF Regions

RegionType == [exists : BOOLEAN, available : BOOLEAN, virtual : Regions \cup {Unmapped}]
MemoryType ==
    /\ region \in [Regions -> RegionType]
    /\ page \in [Regions -> Regions \cup {Absent}]

LEMMA TakenType ==
    ASSUME NEW reg \in [Regions -> RegionType], NEW pg \in [Regions -> Regions \cup {Absent}],
           NEW idx \in Int, NEW n \in Nat, NEW base \in Int
    PROVE  /\ Taken(reg, idx, n, base) \in [Regions -> RegionType]
           /\ Mapped(pg, idx, n, base) \in [Regions -> Regions \cup {Absent}]
  <1>1. \A a \in Regions, s \in Int : Offset(a, s) \in Int
    BY DEF Offset, Regions
  <1>2. \A a \in Regions : base + Offset(a, idx) \in Int /\ idx + Offset(a, base) \in Int
    BY <1>1
  <1>3. \A a \in Regions : /\ (base + Offset(a, idx)) % NRegions \in Regions
                           /\ (idx + Offset(a, base)) % NRegions \in Regions
    BY <1>2, InMemory
  <1> QED  BY <1>3 DEF Taken, Mapped, RegionType

LEMMA BaseType ==
    ASSUME NEW idx \in Regions \cup {-1}, NEW virtual \in Virtuals
    PROVE  Base(idx, virtual) \in Regions /\ idx % NRegions \in Regions
  BY InMemory DEF Base, Regions

LEMMA ReleasedType ==
    ASSUME NEW reg \in [Regions -> RegionType], NEW pg \in [Regions -> Regions \cup {Absent}],
           NEW at, NEW n
    PROVE  /\ Released(reg, at, n) \in [Regions -> RegionType]
           /\ Deleted(pg, reg, at, n) \in [Regions -> Regions \cup {Absent}]
  BY DEF Released, Deleted, RegionType

LEMMA FoundType ==
    ASSUME NEW size \in Sizes
    PROVE  FindRegionIdx(region, size) \in Regions \cup {-1}
  BY RegionFound

LEMMA ReserveType ==
    ASSUME TypeOK, NEW idx \in Regions \cup {-1}, NEW size \in Sizes, NEW virtual \in Virtuals \cup {0},
           Reserve(idx, size, virtual)
    PROVE  MemoryType' /\ Owned(idx, size, virtual) \in Block
  <1>1. Base(idx, virtual) \in Regions /\ idx % NRegions \in Regions /\ idx \in Int
    BY InMemory DEF Base, Regions
  <1>2. Base(idx, virtual) \in Int /\ Blocks(size) \in Nat
    BY <1>1, BlocksType DEF Regions
  <1> QED  BY <1>1, <1>2, TakenType DEF Reserve, MemoryType, Owned, Block, TypeOK, RegionType

HeldType == held \in [Tasks -> SUBSET Block]
FoundOK == found \in [Tasks -> {None} \cup [idx : Regions \cup {-1}, size : Sizes]]

LEMMA NextType == TypeOK /\ [Next]_vars => TypeOK'
  <1> SUFFICES ASSUME TypeOK, [Next]_vars PROVE TypeOK'
    OBVIOUS
  <1>0. MemoryType /\ HeldType /\ FoundOK /\ lost \subseteq Regions
    BY DEF TypeOK, MemoryType, RegionType, HeldType, FoundOK
  <1>a. MemoryType' /\ HeldType' /\ FoundOK' /\ (lost \subseteq Regions)' => TypeOK'
    BY DEF TypeOK, MemoryType, RegionType, HeldType, FoundOK
  <1>1. ASSUME NEW t \in Tasks, NEW size \in Sizes, NEW virtual \in Virtuals,
               Request(t, size, virtual)
        PROVE  TypeOK'
    <2> DEFINE idx == FindRegionIdx(region, size)
    <2>1. idx \in Regions \cup {-1}
      BY FoundType
    <2>2. MemoryType' /\ Owned(idx, size, virtual) \in Block
      BY <1>1, <2>1, ReserveType DEF Request
    <2>3. HeldType' /\ found' = found /\ lost' = lost
      BY <1>0, <1>1, <2>2 DEF Request, HeldType
    <2> QED  BY <1>0, <1>a, <2>2, <2>3 DEF FoundOK
  <1>2. ASSUME NEW t \in Tasks, NEW size \in Sizes, DriverFinds(t, size) PROVE TypeOK'
    <2>1. FoundOK'
      BY <1>0, <1>2, FoundType DEF DriverFinds, FoundOK
    <2> QED  BY <1>0, <1>a, <1>2, <2>1 DEF DriverFinds, MemoryType, HeldType
  <1>3. ASSUME NEW t \in Tasks, DriverReserves(t) PROVE TypeOK'
    <2>1. found[t].idx \in Regions \cup {-1} /\ found[t].size \in Sizes
      BY <1>0, <1>3 DEF DriverReserves, FoundOK
    <2>2. MemoryType' /\ Owned(found[t].idx, found[t].size, 0) \in Block
      BY <1>3, <2>1, ReserveType DEF DriverReserves
    <2>3. HeldType' /\ FoundOK' /\ lost' = lost
      BY <1>0, <1>3, <2>2 DEF DriverReserves, HeldType, FoundOK
    <2> QED  BY <1>0, <1>a, <2>2, <2>3
  <1>4. ASSUME NEW t \in Tasks, Killed(t) PROVE TypeOK'
    <2>1. HeldType' /\ FoundOK' /\ (lost \subseteq Regions)'
      BY <1>0, <1>4 DEF Killed, HeldType, FoundOK, RegionsOf
    <2> QED  BY <1>0, <1>a, <1>4, <2>1 DEF Killed, MemoryType
  <1>5. ASSUME NEW t \in Tasks, NEW b \in held[t], Return(t, b) \/ DriverReturns(t, b)
        PROVE  TypeOK'
    <2>1. MemoryType'
      BY <1>0, <1>5, ReleasedType DEF Return, DriverReturns, MemoryType
    <2>2. HeldType' /\ FoundOK' /\ (lost \subseteq Regions)'
      BY <1>0, <1>5 DEF Return, DriverReturns, HeldType, FoundOK, RegionsOf
    <2> QED  BY <1>a, <2>1, <2>2
  <1>6. ASSUME NEW d \in Devices, ReserveDevice(d) PROVE TypeOK'
    <2>1. d \in Int /\ 1 \in Nat
      OBVIOUS
    <2>2. MemoryType'
      BY <1>0, <1>6, <2>1, TakenType DEF ReserveDevice, MemoryType
    <2> QED  BY <1>0, <1>a, <1>6, <2>2 DEF ReserveDevice, HeldType, FoundOK
  <1>7. CASE UNCHANGED vars
    BY <1>7 DEF vars, TypeOK
  <1> QED  BY <1>1, <1>2, <1>3, <1>4, <1>5, <1>6, <1>7 DEF Next

LEMMA InitType == Init => TypeOK
  <1> SUFFICES ASSUME Init PROVE TypeOK
    OBVIOUS
  <1>1. BootRegions \in [Regions -> RegionType]
    BY DEF BootRegions, RegionType, Regions, Unmapped
  <1>2. BootPages \in [Regions -> Regions \cup {Absent}]
    BY DEF BootPages, Regions, Absent
  <1>3. HeapIdx \in Int /\ HeapPages \in Nat /\ HeapAt \in Int
    BY HeapFirst
  <1>4. region \in [Regions -> RegionType] /\ page \in [Regions -> Regions \cup {Absent}]
    BY <1>1, <1>2, <1>3, TakenType DEF Init
  <1> QED  BY <1>4 DEF Init, TypeOK, RegionType

\* Whatever is asked for, lost, killed or reserved over something else, the two
\* tables of memory and the blocks the tasks count on stay inside memory.
THEOREM MemoryTypeCorrect == Spec => []TypeOK
  BY InitType, NextType, PTL DEF Spec
-------------------------------------------------------------------------------
(* What makes the ownership of memory inductive.  Programs only ask for    *)
(* identity mapped memory here (virtual page 0 of Virtuals), so a block    *)
(* lies between the kernel heap and the virtual pages of the heap, and the *)
(* virtual page a region's record names tells the region apart.            *)

HeapRegions == Kernel .. Kernel + HeapPages - 1
KernelPages == Usable .. Usable + Kernel - 1
HeapAddresses == HeapAt .. HeapAt + HeapPages - 1
Common == Kernel + HeapPages .. Usable - 1
Pages(b) == b.idx .. b.idx + Blocks(b.size) - 1

\* A region, once it has been mapped, keeps its virtual page for ever.
RecordInv ==
    \A r \in Regions :
        /\ r < Kernel => region[r].virtual = Usable + r
        /\ r \in HeapRegions => region[r].virtual = HeapAt + (r - Kernel)
        /\ r \in Common => \/ region[r].virtual = Unmapped
                           \/ region[r].virtual = r /\ r < HeapAt
        /\ r >= Usable => \/ region[r].virtual = 0
                          \/ r \in Devices /\ region[r].virtual = r
        /\ region[r].available => region[r].exists /\ r \in Common \ lost

\* Where the blocks are, and what the tables say of their pages.
BlockInv ==
    \A t \in Tasks : \A b \in held[t] :
        /\ b.at = b.idx /\ Kernel + HeapPages <= b.idx /\ b.idx + Blocks(b.size) <= HeapAt
        /\ \A r \in Pages(b) : /\ ~region[r].available /\ region[r].virtual = r
                               /\ page[r] = r /\ r \notin lost

Apart ==
    \A t, u \in Tasks : \A b \in held[t], c \in held[u] :
        <<t, b>> # <<u, c>> => Pages(b) \cap Pages(c) = {}

\* The kernel image and its heap stay mapped; no task holds or loses them.
KernelInv ==
    /\ \A k \in 0 .. Kernel - 1 : page[Usable + k] = k
    /\ \A k \in 0 .. HeapPages - 1 : page[HeapAt + k] = Kernel + k
    /\ lost \subseteq Kernel + HeapPages .. HeapAt - 1

InBlock(r) == \E t \in Tasks : \E b \in held[t] : r \in Pages(b)
RestInv ==
    /\ \A r \in Common \ lost : region[r].available \/ InBlock(r)
    /\ \A a \in Regions : page[a] # Absent =>
          a \in Devices \cup KernelPages \cup lost \cup HeapAddresses \/ InBlock(a)

MemInv == TypeOK /\ RecordInv /\ BlockInv /\ Apart /\ KernelInv /\ RestInv

\* A run a driver has found is still free when it reserves it.
FoundInv ==
    \A t \in Tasks : found[t] # None =>
        /\ \A u \in Tasks \ {t} : found[u] = None
        /\ found[t].idx \in Regions
        /\ found[t].idx + Blocks(found[t].size) <= HeapAt
        /\ Fits(region, found[t].idx, Blocks(found[t].size))

LEMMA LayoutFacts ==
    /\ {NRegions, Kernel, Usable, HeapAt, HeapPages, Unit} \subseteq Nat \ {0}
    /\ Kernel + HeapPages < Usable /\ Usable + Kernel <= NRegions
    /\ Kernel <= HeapAt /\ HeapAt + HeapPages <= Usable
    /\ \A d \in Devices : d \in Nat /\ Usable + Kernel <= d /\ d < NRegions
  OBVIOUS

LEMMA PagesType ==
    ASSUME NEW b \in Block
    PROVE  /\ b.idx \in Nat /\ b.idx < NRegions /\ Blocks(b.size) \in Nat \ {0}
           /\ b.idx \in Pages(b)
  <1>1. b.idx \in Nat /\ b.idx < NRegions /\ b.size \in Nat \ {0}
    <2>1. b.idx \in Regions /\ b.size \in Sizes
      BY DEF Block
    <2>2. b.idx \in Nat /\ b.idx < NRegions
      BY <2>1 DEF Regions
    <2>3. b.size \in Nat \ {0}
      BY <2>1
    <2> QED  BY <2>2, <2>3
  <1>2. Blocks(b.size) \in Nat \ {0}
    BY <1>1, BlocksType
  <1> QED  BY <1>1, <1>2 DEF Pages

\* The regions of a block are its pages.
LEMMA RegionsOfPages ==
    ASSUME NEW b \in Block, b.idx + Blocks(b.size) <= NRegions
    PROVE  RegionsOf(b) = Pages(b)
  <1>1. b.idx \in Regions /\ Blocks(b.size) \in Nat
    BY PagesType DEF Block
  <1>2. \A r \in Regions : Offset(r, b.idx) < Blocks(b.size) <=> r \in Pages(b)
    BY <1>1, OffsetInside DEF Pages
  <1>3. Pages(b) \subseteq Regions
    BY <1>1 DEF Pages, Regions
  <1> QED  BY <1>2, <1>3 DEF RegionsOf

LEMMA HeldPages ==
    ASSUME MemInv, NEW t \in Tasks, NEW b \in held[t]
    PROVE  /\ b \in Block /\ RegionsOf(b) = Pages(b) /\ b.idx \in Nat
           /\ Blocks(b.size) \in Nat \ {0}
           /\ Pages(b) \subseteq Kernel + HeapPages .. HeapAt - 1
  <1>1. b \in Block
    BY DEF MemInv, TypeOK
  <1>2. b.idx \in Nat /\ Blocks(b.size) \in Nat \ {0}
    BY <1>1, PagesType
  <1>3. Kernel + HeapPages <= b.idx /\ b.idx + Blocks(b.size) <= HeapAt
    BY DEF MemInv, BlockInv
  <1>4. b.idx + Blocks(b.size) <= NRegions
    BY <1>2, <1>3
  <1>5. Pages(b) \subseteq Kernel + HeapPages .. HeapAt - 1
    BY <1>2, <1>3 DEF Pages
  <1> QED  BY <1>1, <1>2, <1>4, <1>5, RegionsOfPages
-------------------------------------------------------------------------------
(* What reserving and releasing an identity mapped block writes.           *)

\* A page that is mapped where it is, by the block that starts at idx.
LEMMA InPlace ==
    ASSUME NEW idx \in Regions, NEW n \in Nat, NEW r \in Regions,
           idx + n <= NRegions, r \in idx .. idx + n - 1
    PROVE  (idx + Offset(r, idx)) % NRegions = r
  <1>1. idx + Offset(r, idx) = r /\ r \in Int /\ 0 <= r /\ r < NRegions
    BY OffsetIs DEF Regions
  <1> QED  BY <1>1, ModSmall

LEMMA ReserveIs ==
    ASSUME NEW idx \in Regions, NEW size \in Sizes, idx + Blocks(size) <= NRegions,
           Reserve(idx, size, 0), NEW r \in Regions
    PROVE  /\ region'[r] =
                 IF r \in idx .. idx + Blocks(size) - 1
                   THEN [exists |-> TRUE, available |-> FALSE, virtual |-> r] ELSE region[r]
           /\ page'[r] = IF r \in idx .. idx + Blocks(size) - 1 THEN r ELSE page[r]
  <1> DEFINE n == Blocks(size)
  <1>1. n \in Nat /\ Base(idx, 0) = idx
    <2>1. idx \in Int /\ 0 <= idx /\ idx < NRegions /\ size \in Nat \ {0}
      BY DEF Regions
    <2> QED  BY <2>1, ModSmall, BlocksType DEF Base
  <1>2. Offset(r, idx) < n <=> r \in idx .. idx + n - 1
    BY <1>1, OffsetInside
  <1>3. r \in idx .. idx + n - 1 => (idx + Offset(r, idx)) % NRegions = r
    BY <1>1, InPlace
  <1>4. region' = Taken(region, idx, n, idx) /\ page' = Mapped(page, idx, n, idx)
    BY <1>1 DEF Reserve
  <1>5. region'[r] = IF Offset(r, idx) < n
                       THEN [exists |-> TRUE, available |-> FALSE,
                             virtual |-> (idx + Offset(r, idx)) % NRegions]
                       ELSE region[r]
    BY <1>4 DEF Taken
  <1>6. page'[r] = IF Offset(r, idx) < n THEN (idx + Offset(r, idx)) % NRegions ELSE page[r]
    BY <1>4 DEF Mapped
  <1> HIDE DEF n
  <1>7. region'[r] = IF r \in idx .. idx + n - 1
                       THEN [exists |-> TRUE, available |-> FALSE, virtual |-> r]
                       ELSE region[r]
    BY <1>2, <1>3, <1>5
  <1>8. page'[r] = IF r \in idx .. idx + n - 1 THEN r ELSE page[r]
    BY <1>2, <1>3, <1>6
  <1> QED  BY <1>7, <1>8 DEF n

\* The virtual page of a block's region names no other region.
LEMMA NamedOne ==
    ASSUME TypeOK, RecordInv, NEW r \in Regions,
           region[r].virtual \in Kernel + HeapPages .. HeapAt - 1
    PROVE  /\ region[r].virtual = r
           /\ Named(region, region[r].virtual) = {r} /\ Min({r}) = r
  <1>1. \A q \in Regions : region[q].virtual \in Kernel + HeapPages .. HeapAt - 1
                             => region[q].virtual = q
    <2> TAKE q \in Regions
    <2> HAVE region[q].virtual \in Kernel + HeapPages .. HeapAt - 1
    <2>1. q \in Nat /\ q < NRegions
      BY DEF Regions
    <2>2. CASE q < Kernel
      BY <2>1, <2>2 DEF RecordInv
    <2>3. CASE q \in HeapRegions
      BY <2>1, <2>3 DEF RecordInv, HeapRegions
    <2>4. CASE q \in Common
      BY <2>1, <2>4 DEF RecordInv, Common, Unmapped
    <2>5. CASE q >= Usable
      BY <2>1, <2>5 DEF RecordInv
    <2> QED  BY <2>1, <2>2, <2>3, <2>4, <2>5 DEF HeapRegions, Common
  <1>2. Named(region, region[r].virtual) = {r}
    BY <1>1 DEF Named
  <1>3. {r} \in SUBSET Nat /\ {r} # {}
    BY DEF Regions
  <1> QED  BY <1>1, <1>2, <1>3, MinFound

LEMMA ReleasedIs ==
    ASSUME TypeOK, RecordInv, NEW at \in Nat, NEW n \in Nat,
           Kernel + HeapPages <= at, at + n <= HeapAt, NEW r \in Regions
    PROVE  Released(region, at, n)[r] =
              IF r \in at .. at + n - 1 /\ region[r].virtual = r
                THEN [region[r] EXCEPT !.exists = TRUE, !.available = TRUE]
                ELSE region[r]
  <1> DEFINE v == region[r].virtual
  <1>1. v \in Regions \cup {Unmapped} /\ at \in Regions /\ at + n <= NRegions
    <2>1. v \in Regions \cup {Unmapped}
      BY DEF TypeOK
    <2>2. at < NRegions /\ at + n <= NRegions
      OBVIOUS
    <2> QED  BY <2>1, <2>2 DEF Regions
  <1>2. v # Unmapped => (Offset(v, at) < n <=> v \in at .. at + n - 1)
    BY <1>1, OffsetInside
  <1>3. v \in at .. at + n - 1 => v = r /\ r = Min(Named(region, v))
    <2> SUFFICES ASSUME v \in at .. at + n - 1 PROVE v = r /\ r = Min(Named(region, v))
      OBVIOUS
    <2>1. v \in Kernel + HeapPages .. HeapAt - 1
      OBVIOUS
    <2> QED  BY <2>1, NamedOne
  <1>4. Unmapped \notin at .. at + n - 1
    BY <1>1 DEF Unmapped
  <1> QED  BY <1>2, <1>3, <1>4 DEF Released

LEMMA DeletedIs ==
    ASSUME NEW at \in Nat, NEW n \in Nat, at + n <= HeapAt, NEW a \in Regions,
           a \in at .. at + n - 1 => region[a].virtual = a
    PROVE  Deleted(page, region, at, n)[a] =
              IF a \in at .. at + n - 1 THEN Absent ELSE page[a]
  <1>1. at \in Regions /\ at + n <= NRegions
    BY DEF Regions
  <1>2. Offset(a, at) < n <=> a \in at .. at + n - 1
    BY <1>1, OffsetInside
  <1>3. a \in at .. at + n - 1 => Named(region, a) # {}
    BY DEF Named
  <1> QED  BY <1>2, <1>3 DEF Deleted
-------------------------------------------------------------------------------
(* The steps.                                                              *)

\* A run of free regions becomes a block of its own.
LEMMA TakeBlock ==
    ASSUME MemInv, TypeOK', NEW t \in Tasks, NEW size \in Sizes, NEW idx \in Regions,
           idx + Blocks(size) <= HeapAt, Fits(region, idx, Blocks(size)),
           Reserve(idx, size, 0), lost' = lost,
           held' = [held EXCEPT ![t] = @ \cup {Owned(idx, size, 0)}]
    PROVE  MemInv'
  <1> DEFINE n == Blocks(size)
             new == idx .. idx + n - 1
             b0 == Owned(idx, size, 0)
  <1>0. n \in Nat \ {0} /\ idx \in Nat /\ idx < NRegions /\ idx + n <= NRegions
    <2>1. size \in Nat \ {0}
      OBVIOUS
    <2>2. n \in Nat \ {0}
      BY <2>1, BlocksType
    <2> QED  BY <2>2 DEF Regions
  <1>1. b0 = [idx |-> idx, at |-> idx, size |-> size] /\ Base(idx, 0) = idx
    BY <1>0, ModSmall DEF Owned, Base
  <1>2. Pages(b0) = new
    BY <1>1 DEF Pages
  <1>3. \A r \in new : r \in Regions /\ region[r].available /\ r \in Common \ lost
    <2>1. ASSUME NEW r \in new PROVE r \in Regions /\ region[r].available
      <3>1. r - idx \in 0 .. n - 1 /\ idx + (r - idx) = r
        BY <1>0
      <3>2. r \in Regions
        BY <1>0 DEF Regions
      <3> QED  BY <3>1, <3>2 DEF Fits
    <2> QED  BY <2>1 DEF MemInv, RecordInv
  <1>4. new \subseteq Kernel + HeapPages .. HeapAt - 1
    BY <1>0, <1>3 DEF Common
  <1>5. \A r \in Regions :
           /\ region'[r] = IF r \in new
                             THEN [exists |-> TRUE, available |-> FALSE, virtual |-> r]
                             ELSE region[r]
           /\ page'[r] = IF r \in new THEN r ELSE page[r]
    BY <1>0, ReserveIs
  <1>6. \A u \in Tasks : \A c \in held'[u] : c \in held[u] \/ (u = t /\ c = b0)
    BY DEF MemInv, TypeOK
  <1>7. \A u \in Tasks : \A c \in held[u] : c \in held'[u] /\ Pages(c) \cap new = {}
    BY <1>3 DEF MemInv, TypeOK, BlockInv
  <1>8. b0 \in held'[t]
    BY DEF MemInv, TypeOK
  <1>9. RecordInv'
    <2> SUFFICES ASSUME NEW r \in Regions PROVE RecordInv!(r)'
      BY DEF RecordInv
    <2>1. CASE r \notin new
      BY <1>5, <2>1 DEF MemInv, RecordInv, HeapRegions, Common, Unmapped
    <2>2. CASE r \in new
      <3>1. r \in Kernel + HeapPages .. HeapAt - 1
        BY <1>4, <2>2
      <3>2. ~(r < Kernel) /\ r \notin HeapRegions /\ ~(r >= Usable) /\ r < HeapAt
        BY <3>1 DEF HeapRegions
      <3>3. region'[r].virtual = r /\ ~region'[r].available
        <4>1. region'[r] = [exists |-> TRUE, available |-> FALSE, virtual |-> r]
          BY <1>5, <2>2
        <4> QED  BY <4>1
      <3> QED  BY <3>2, <3>3
    <2> QED  BY <2>1, <2>2
  <1>10. BlockInv'
    <2> SUFFICES ASSUME NEW u \in Tasks, NEW c \in held'[u] PROVE BlockInv!(u)!(c)'
      BY DEF BlockInv
    <2>1. CASE c \in held[u]
      <3>1. Pages(c) \subseteq Regions /\ BlockInv!(u)!(c)
        BY <2>1, HeldPages DEF MemInv, BlockInv, Regions
      <3> QED  BY <1>5, <1>7, <2>1, <3>1
    <2>2. CASE c = b0
      <3>1. c.at = idx /\ c.idx = idx /\ c.size = size /\ Pages(c) = new
        BY <1>1, <1>2, <2>2
      <3>2. Kernel + HeapPages <= idx
        BY <1>0, <1>4
      <3>3. \A r \in new : /\ ~region'[r].available /\ region'[r].virtual = r
                           /\ page'[r] = r /\ r \notin lost'
        <4> TAKE r \in new
        <4>1. /\ region'[r] = [exists |-> TRUE, available |-> FALSE, virtual |-> r]
              /\ page'[r] = r
          BY <1>3, <1>5
        <4> QED  BY <1>3, <4>1
      <3> QED  BY <3>1, <3>2, <3>3
    <2> QED  BY <1>6, <2>1, <2>2
  <1>11. Apart'
    <2> SUFFICES ASSUME NEW u \in Tasks, NEW v \in Tasks, NEW b \in held'[u], NEW c \in held'[v],
                        <<u, b>> # <<v, c>>
                 PROVE  Pages(b) \cap Pages(c) = {}
      BY DEF Apart, Pages, Blocks
    <2>1. CASE b \in held[u] /\ c \in held[v]
      BY <2>1 DEF MemInv, Apart
    <2>2. CASE b \in held[u] /\ c = b0
      BY <1>2, <1>7, <2>2
    <2>3. CASE b = b0 /\ c \in held[v]
      BY <1>2, <1>7, <2>3
    <2> QED  BY <1>6, <2>1, <2>2, <2>3
  <1>12. KernelInv'
    <2>1. \A k \in 0 .. Kernel - 1 : Usable + k \in Regions /\ Usable + k \notin new
      BY <1>4 DEF Regions
    <2>2. \A k \in 0 .. HeapPages - 1 : HeapAt + k \in Regions /\ HeapAt + k \notin new
      BY <1>4 DEF Regions
    <2> QED  BY <1>5, <2>1, <2>2 DEF MemInv, KernelInv
  <1>13. RestInv'
    <2>1. ASSUME NEW r, InBlock(r) PROVE InBlock(r)'
      BY <1>7, <2>1 DEF InBlock, Pages, Blocks
    <2>2. ASSUME NEW r \in new PROVE InBlock(r)'
      BY <1>2, <1>8 DEF InBlock, Pages, Blocks
    <2>3. Common \subseteq Regions
      BY DEF Common, Regions
    <2> QED  BY <1>5, <2>1, <2>2, <2>3 DEF MemInv, RestInv, KernelPages, HeapAddresses, Common
  <1> QED  BY <1>9, <1>10, <1>11, <1>12, <1>13 DEF MemInv

\* Giving back the first m pages of a block; the rest of it is lost.
LEMMA GiveBack ==
    ASSUME MemInv, TypeOK', NEW t \in Tasks, NEW b \in held[t],
           NEW m \in 1 .. Blocks(b.size),
           region' = Released(region, b.at, m),
           page' = Deleted(page, region, b.at, m),
           held' = [held EXCEPT ![t] = @ \ {b}],
           lost' = lost \cup (b.idx + m .. b.idx + Blocks(b.size) - 1)
    PROVE  MemInv'
  <1> DEFINE back == b.idx .. b.idx + m - 1
             left == b.idx + m .. b.idx + Blocks(b.size) - 1
  <1>1. /\ b.at = b.idx /\ b.idx \in Nat /\ Blocks(b.size) \in Nat \ {0} /\ m \in Nat \ {0}
        /\ Kernel + HeapPages <= b.idx /\ b.idx + m <= HeapAt
        /\ Pages(b) \subseteq Kernel + HeapPages .. HeapAt - 1
    <2>1. b.at = b.idx /\ Kernel + HeapPages <= b.idx /\ b.idx + Blocks(b.size) <= HeapAt
      BY DEF MemInv, BlockInv
    <2> QED  BY <2>1, HeldPages
  <1>2. back \cup left = Pages(b) /\ back \cap left = {}
    BY <1>1 DEF Pages
  <1>3. \A r \in Pages(b) : r \in Regions /\ region[r].virtual = r /\ r \notin lost
    <2>1. Pages(b) \subseteq Regions
      BY <1>1 DEF Regions
    <2> QED  BY <2>1 DEF MemInv, BlockInv
  <1>4. \A r \in Regions :
           region'[r] = IF r \in back
                          THEN [region[r] EXCEPT !.exists = TRUE, !.available = TRUE]
                          ELSE region[r]
    <2> TAKE r \in Regions
    <2>1. Released(region, b.idx, m)[r] =
             IF r \in back /\ region[r].virtual = r
               THEN [region[r] EXCEPT !.exists = TRUE, !.available = TRUE] ELSE region[r]
      <3>1. TypeOK /\ RecordInv
        BY DEF MemInv
      <3>2. b.idx \in Nat /\ m \in Nat /\ Kernel + HeapPages <= b.idx /\ b.idx + m <= HeapAt
        BY <1>1
      <3> QED  BY ONLY <3>1, <3>2, r \in Regions, ReleasedIs
    <2>2. r \in back => region[r].virtual = r
      BY <1>2, <1>3
    <2> QED  BY <1>1, <2>1, <2>2
  <1>5. \A r \in Regions : page'[r] = IF r \in back THEN Absent ELSE page[r]
    <2> TAKE r \in Regions
    <2>1. r \in back => region[r].virtual = r
      BY <1>2, <1>3
    <2>2. Deleted(page, region, b.idx, m)[r] = IF r \in back THEN Absent ELSE page[r]
      BY <1>1, <2>1, DeletedIs
    <2> QED  BY <1>1, <2>2
  <1>6. \A u \in Tasks : \A c \in held'[u] : c \in held[u] /\ <<u, c>> # <<t, b>>
    BY DEF MemInv, TypeOK
  <1>7. \A u \in Tasks : \A c \in held[u] : c \in held'[u] \/ (u = t /\ c = b)
    BY DEF MemInv, TypeOK
  <1>8. \A u \in Tasks : \A c \in held'[u] : Pages(c) \cap Pages(b) = {}
    BY <1>6 DEF MemInv, Apart
  <1>9. \A r \in Regions : region[r] \in RegionType
    BY DEF MemInv, TypeOK, RegionType
  <1>10. RecordInv'
    <2> SUFFICES ASSUME NEW r \in Regions PROVE RecordInv!(r)'
      BY DEF RecordInv
    <2>1. region'[r].virtual = region[r].virtual
      BY <1>4, <1>9 DEF RegionType
    <2>2. region'[r].available => region'[r].exists /\ r \in Common \ lost'
      <3>1. CASE r \in back
        <4>1. region'[r].exists
          BY <1>4, <1>9, <3>1 DEF RegionType
        <4>2. r \in Common
          BY <1>1, <1>2, <3>1 DEF Common
        <4> QED  BY <1>2, <1>3, <3>1, <4>1, <4>2
      <3>2. CASE r \notin back
        <4>1. region'[r] = region[r]
          BY <1>4, <3>2
        <4>2. region[r].available => r \notin Pages(b)
          BY DEF MemInv, BlockInv
        <4> QED  BY <1>2, <4>1, <4>2 DEF MemInv, RecordInv
      <3> QED  BY <3>1, <3>2
    <2> QED  BY <2>1, <2>2 DEF MemInv, RecordInv
  <1>11. BlockInv'
    <2> SUFFICES ASSUME NEW u \in Tasks, NEW c \in held'[u] PROVE BlockInv!(u)!(c)'
      BY DEF BlockInv
    <2>1. BlockInv!(u)!(c) /\ Pages(c) \subseteq Regions
      BY <1>6, HeldPages DEF MemInv, BlockInv, Regions
    <2>2. \A r \in Pages(c) : r \in Regions /\ r \notin back /\ r \notin left
      BY <1>2, <1>8, <2>1
    <2> QED  BY <1>4, <1>5, <2>1, <2>2
  <1>12. Apart'
    BY <1>6 DEF MemInv, Apart, Pages, Blocks
  <1>13. KernelInv'
    <2>1. \A k \in 0 .. Kernel - 1 : Usable + k \in Regions /\ Usable + k \notin back
      BY <1>1 DEF Regions
    <2>2. \A k \in 0 .. HeapPages - 1 : HeapAt + k \in Regions /\ HeapAt + k \notin back
      BY <1>1 DEF Regions
    <2>3. lost' \subseteq Kernel + HeapPages .. HeapAt - 1
      BY <1>1, <1>2 DEF MemInv, KernelInv
    <2> QED  BY <1>5, <2>1, <2>2, <2>3 DEF MemInv, KernelInv
  <1>14. RestInv'
    <2>1. ASSUME NEW r, InBlock(r), r \notin Pages(b) PROVE InBlock(r)'
      BY <1>7, <2>1 DEF InBlock, Pages, Blocks
    <2>2. ASSUME NEW r \in Common \ lost' PROVE region'[r].available \/ InBlock(r)'
      <3>1. r \in Regions
        BY DEF Common, Regions
      <3>2. CASE r \in back
        <4>1. region'[r].available
          BY <1>4, <1>9, <3>1, <3>2 DEF RegionType
        <4> QED  BY <4>1
      <3>3. CASE r \notin back
        <4>1. region'[r] = region[r] /\ r \notin Pages(b)
          BY <1>2, <1>4, <2>2, <3>1, <3>3
        <4> QED  BY <2>1, <2>2, <4>1 DEF MemInv, RestInv
      <3> QED  BY <3>2, <3>3
    <2>3. ASSUME NEW a \in Regions, page'[a] # Absent
          PROVE  a \in Devices \cup KernelPages \cup lost' \cup HeapAddresses \/ InBlock(a)'
      <3>1. a \notin back /\ page[a] # Absent
        BY <1>5, <2>3
      <3>2. CASE a \in left
        BY <3>2
      <3>3. CASE a \notin left
        BY <1>2, <2>1, <3>1, <3>3 DEF MemInv, RestInv
      <3> QED  BY <3>2, <3>3
    <2> QED  BY <2>2, <2>3 DEF RestInv, KernelPages, HeapAddresses, Common
  <1> QED  BY <1>10, <1>11, <1>12, <1>13, <1>14 DEF MemInv

\* A task that dies loses its blocks, and they stay as they are.
LEMMA LoseAll ==
    ASSUME MemInv, TypeOK', NEW t \in Tasks, Killed(t)
    PROVE  MemInv'
  <1> DEFINE gone == UNION {RegionsOf(b) : b \in held[t]}
  <1>1. UNCHANGED <<region, page>> /\ lost' = lost \cup gone
    BY DEF Killed
  <1>2. \A u \in Tasks : \A c \in held'[u] : u # t /\ c \in held[u]
    BY DEF Killed, MemInv, TypeOK
  <1>3. \A u \in Tasks \ {t} : held'[u] = held[u]
    BY DEF Killed, MemInv, TypeOK
  <1>4. \A r : r \in gone <=> \E b \in held[t] : r \in Pages(b)
    BY HeldPages
  <1> HIDE DEF gone
  <1>5. gone \subseteq Kernel + HeapPages .. HeapAt - 1
    BY <1>4, HeldPages
  <1>6. \A r \in gone : r \in Regions /\ ~region[r].available
    <2>1. gone \subseteq Regions
      BY <1>5 DEF Regions
    <2> QED  BY <1>4, <2>1 DEF MemInv, BlockInv
  <1>7. RecordInv'
    BY <1>1, <1>6 DEF MemInv, RecordInv, HeapRegions, Common, Unmapped
  <1>8. BlockInv'
    <2> SUFFICES ASSUME NEW u \in Tasks, NEW c \in held'[u] PROVE BlockInv!(u)!(c)'
      BY DEF BlockInv
    <2>1. u # t /\ c \in held[u]
      BY <1>2
    <2>2. Pages(c) \cap gone = {}
      BY <1>4, <2>1 DEF MemInv, Apart
    <2> QED  BY <1>1, <2>1, <2>2 DEF MemInv, BlockInv
  <1>9. Apart'
    BY <1>2 DEF MemInv, Apart, Pages, Blocks
  <1>10. KernelInv'
    BY <1>1, <1>5 DEF MemInv, KernelInv
  <1>11. \A r : InBlock(r) => InBlock(r)' \/ r \in gone
    BY <1>3, <1>4 DEF InBlock, Pages, Blocks
  <1>12. RestInv'
    BY <1>1, <1>11 DEF MemInv, RestInv, KernelPages, HeapAddresses, Common
  <1> QED  BY <1>7, <1>8, <1>9, <1>10, <1>12 DEF MemInv

\* A device's registers are mapped where no task has memory.
LEMMA DeviceIs ==
    ASSUME NEW d \in Devices, ReserveDevice(d), NEW r \in Regions
    PROVE  /\ region'[r] = IF r = d THEN [exists |-> TRUE, available |-> FALSE,
                                          virtual |-> d]
                                    ELSE region[r]
           /\ page'[r] = IF r = d THEN d ELSE page[r]
  <1>1. d \in Regions /\ d + 1 <= NRegions /\ d .. d + 1 - 1 = {d}
    BY LayoutFacts DEF Regions
  <1>2. Offset(r, d) < 1 <=> r = d
    BY <1>1, OffsetInside
  <1>3. r = d => (d + Offset(r, d)) % NRegions = d
    BY <1>1, InPlace
  <1> QED  BY <1>2, <1>3 DEF ReserveDevice, Taken, Mapped

LEMMA MapDevice ==
    ASSUME MemInv, TypeOK', NEW d \in Devices, ReserveDevice(d)
    PROVE  MemInv'
  <1>1. d \in Regions /\ Usable + Kernel <= d
    BY LayoutFacts DEF Regions
  <1>2. \A r \in Regions : /\ r # d => region'[r] = region[r] /\ page'[r] = page[r]
                           /\ r = d => /\ region'[r].virtual = d /\ ~region'[r].available
                                       /\ page'[r] = d
    <2> TAKE r \in Regions
    <2>1. /\ region'[r] = IF r = d THEN [exists |-> TRUE, available |-> FALSE, virtual |-> d]
                                    ELSE region[r]
          /\ page'[r] = IF r = d THEN d ELSE page[r]
      BY DeviceIs
    <2>2. CASE r = d
      BY <2>1, <2>2
    <2>3. CASE r # d
      BY <2>1, <2>3
    <2> QED  BY <2>2, <2>3
  <1>3. UNCHANGED <<held, lost>>
    BY DEF ReserveDevice
  <1>4. RecordInv'
    <2> SUFFICES ASSUME NEW r \in Regions PROVE RecordInv!(r)'
      BY DEF RecordInv
    <2>1. CASE r # d
      BY <1>2, <1>3, <2>1 DEF MemInv, RecordInv, HeapRegions, Common, Unmapped
    <2>2. CASE r = d
      <3>1. ~(r < Kernel) /\ r \notin HeapRegions /\ r \notin Common
        BY <1>1, <2>2 DEF HeapRegions, Common
      <3> QED  BY <1>2, <2>2, <3>1
    <2> QED  BY <2>1, <2>2
  <1>5. BlockInv'
    <2> SUFFICES ASSUME NEW u \in Tasks, NEW c \in held[u] PROVE BlockInv!(u)!(c)'
      BY <1>3 DEF BlockInv
    <2>1. \A r \in Pages(c) : r \in Regions /\ r # d
      BY <1>1, HeldPages DEF Regions
    <2> QED  BY <1>2, <1>3, <2>1 DEF MemInv, BlockInv
  <1>6. Apart'
    BY <1>3 DEF MemInv, Apart, Pages, Blocks
  <1>7. KernelInv'
    <2>1. \A k \in 0 .. Kernel - 1 : Usable + k \in Regions /\ Usable + k # d
      BY <1>1 DEF Regions
    <2>2. \A k \in 0 .. HeapPages - 1 : HeapAt + k \in Regions /\ HeapAt + k # d
      BY <1>1 DEF Regions
    <2> QED  BY <1>2, <1>3, <2>1, <2>2 DEF MemInv, KernelInv
  <1>8. RestInv'
    <2>1. \A r \in Common : r \in Regions /\ r # d
      BY <1>1 DEF Common, Regions
    <2>2. \A r : InBlock(r)' <=> InBlock(r)
      BY <1>3 DEF InBlock, Pages, Blocks
    <2> QED  BY <1>2, <1>3, <2>1, <2>2 DEF MemInv, RestInv, KernelPages, HeapAddresses, Common
  <1> QED  BY <1>4, <1>5, <1>6, <1>7, <1>8 DEF MemInv
-------------------------------------------------------------------------------
(* The invariant, for tasks that check what MEM_findRegionIdx answers and   *)
(* drivers that are not interrupted between finding and reserving.          *)

Careful == Hazards \cap {"full", "preempt", "reach"} = {} /\ Virtuals \subseteq {0}

\* A free run that is used ends below the virtual pages of the heap.
LEMMA UsualRun ==
    ASSUME Careful, NEW size \in Sizes, Usual(FindRegionIdx(region, size), size)
    PROVE  LET idx == FindRegionIdx(region, size)
           IN  /\ idx \in Regions /\ idx + Blocks(size) <= HeapAt
               /\ Fits(region, idx, Blocks(size))
  <1> DEFINE idx == FindRegionIdx(region, size)
  <1>1. idx \in Regions /\ Fits(region, idx, Blocks(size))
    BY RegionFound DEF Usual, Careful
  <1>2. size \in Nat \ {0}
    OBVIOUS
  <1>3. idx \in Int /\ Blocks(size) \in Nat
    BY <1>1, <1>2, BlocksType DEF Regions
  <1>4. ~(idx + Blocks(size) > HeapAt)
    BY DEF Usual, Careful
  <1>5. idx + Blocks(size) <= HeapAt
    <2> HIDE DEF idx
    <2> QED  BY <1>3, <1>4
  <1> QED  BY <1>1, <1>5

\* Nothing but the driver itself changes what a run that is found rests on.
LEMMA NextFound ==
    ASSUME Careful, MemInv, FoundInv, [Next]_vars
    PROVE  FoundInv'
  <1>0. found \in [Tasks -> {None} \cup [idx : Regions \cup {-1}, size : Sizes]]
    BY DEF MemInv, TypeOK
  <1>1. ASSUME NEW t \in Tasks, found[t] = None, Undisturbed(t), UNCHANGED found
        PROVE  FoundInv'
    <2>1. \A u \in Tasks : found[u] = None
      BY <1>1 DEF Undisturbed, Careful
    <2> QED  BY <1>1, <2>1 DEF FoundInv
  <1>2. ASSUME NEW t \in Tasks, NEW size \in Sizes, DriverFinds(t, size) PROVE FoundInv'
    <2>1. \A u \in Tasks : found[u] = None
      BY <1>2 DEF DriverFinds, Undisturbed, Careful
    <2>2. \A u \in Tasks \ {t} : found'[u] = None
      BY <1>0, <1>2, <2>1 DEF DriverFinds
    <2>3. found'[t] = [idx |-> FindRegionIdx(region, size), size |-> size] /\ region' = region
      BY <1>0, <1>2 DEF DriverFinds
    <2>4. Usual(FindRegionIdx(region, size), size)
      BY <1>2 DEF DriverFinds
    <2>5. /\ found'[t].idx \in Regions /\ found'[t].idx + Blocks(found'[t].size) <= HeapAt
          /\ Fits(region, found'[t].idx, Blocks(found'[t].size))
      BY <2>3, <2>4, UsualRun
    <2> QED  BY <2>2, <2>3, <2>5 DEF FoundInv, Blocks
  <1>3. ASSUME NEW t \in Tasks, DriverReserves(t) PROVE FoundInv'
    <2>1. found'[t] = None /\ \A u \in Tasks \ {t} : found'[u] = found[u] /\ found[u] = None
      BY <1>0, <1>3 DEF DriverReserves, FoundInv
    <2> QED  BY <2>1 DEF FoundInv
  <1>4. ASSUME NEW t \in Tasks, Killed(t) PROVE FoundInv'
    <2>1. /\ found'[t] = None /\ \A u \in Tasks \ {t} : found'[u] = found[u]
          /\ region' = region
      BY <1>0, <1>4 DEF Killed
    <2> QED  BY <2>1 DEF FoundInv, Blocks
  <1>5. ASSUME NEW d \in Devices, ReserveDevice(d) PROVE FoundInv'
    <2>1. found' = found
      BY <1>5 DEF ReserveDevice
    <2> SUFFICES ASSUME NEW t \in Tasks, found[t] # None
                 PROVE  Fits(region', found[t].idx, Blocks(found[t].size))
      BY <2>1 DEF FoundInv, Blocks
    <2> DEFINE idx == found[t].idx
               n == Blocks(found[t].size)
    <2>2. idx \in Regions /\ idx + n <= HeapAt /\ Fits(region, idx, n)
      BY DEF FoundInv
    <2>3. n \in Nat
      <3>1. found[t].size \in Nat \ {0}
        BY <1>0
      <3> QED  BY <3>1, BlocksType
    <2> HIDE DEF idx, n
    <2>4. \A k \in 0 .. n - 1 : region'[idx + k] = region[idx + k]
      <3> TAKE k \in 0 .. n - 1
      <3>1. idx + k \in Regions /\ idx + k # d
        BY <2>2, <2>3, LayoutFacts DEF Regions
      <3> QED  BY <1>5, <3>1, DeviceIs
    <2>5. Fits(region', idx, n)
      BY <2>2, <2>4 DEF Fits
    <2> QED  BY <2>5 DEF idx, n
  <1>6. CASE UNCHANGED vars
    BY <1>6 DEF vars, FoundInv, Blocks
  <1> QED
    BY <1>1, <1>2, <1>3, <1>4, <1>5, <1>6 DEF Next, Request, Return, DriverReturns

LEMMA NextMemory ==
    ASSUME Careful, MemInv, FoundInv, [Next]_vars
    PROVE  MemInv'
  <1>0. TypeOK'
    BY NextType DEF MemInv
  <1>1. ASSUME NEW t \in Tasks, NEW size \in Sizes, NEW virtual \in Virtuals,
               Request(t, size, virtual)
        PROVE  MemInv'
    <2> DEFINE idx == FindRegionIdx(region, size)
    <2>1. /\ idx \in Regions /\ idx + Blocks(size) <= HeapAt
          /\ Fits(region, idx, Blocks(size))
      BY <1>1, UsualRun DEF Request
    <2>2. virtual = 0
      BY DEF Careful
    <2>3. /\ Reserve(idx, size, 0) /\ lost' = lost
          /\ held' = [held EXCEPT ![t] = @ \cup {Owned(idx, size, 0)}]
      BY <1>1, <2>2 DEF Request
    <2> HIDE DEF idx
    <2> QED  BY <1>0, <2>1, <2>3, TakeBlock
  <1>2. ASSUME NEW t \in Tasks, DriverReserves(t) PROVE MemInv'
    <2> DEFINE idx == found[t].idx
               size == found[t].size
    <2>1. /\ idx \in Regions /\ idx + Blocks(size) <= HeapAt
          /\ Fits(region, idx, Blocks(size))
      BY <1>2 DEF FoundInv, DriverReserves
    <2>2. size \in Sizes
      BY <1>2 DEF MemInv, TypeOK, DriverReserves
    <2>3. /\ Reserve(idx, size, 0) /\ lost' = lost
          /\ held' = [held EXCEPT ![t] = @ \cup {Owned(idx, size, 0)}]
      BY <1>2 DEF DriverReserves
    <2> HIDE DEF idx, size
    <2> QED  BY <1>0, <2>1, <2>2, <2>3, TakeBlock
  <1>3. ASSUME NEW t \in Tasks, NEW b \in held[t], Return(t, b) PROVE MemInv'
    <2>1. b.idx \in Nat /\ Blocks(b.size) \in Nat \ {0}
      BY HeldPages
    <2>2. b.idx + Blocks(b.size) .. b.idx + Blocks(b.size) - 1 = {}
      BY <2>1
    <2>3. Blocks(b.size) \in 1 .. Blocks(b.size)
      BY <2>1
    <2> QED  BY <1>0, <1>3, <2>2, <2>3, GiveBack DEF Return
  <1>4. ASSUME NEW t \in Tasks, NEW b \in held[t], DriverReturns(t, b) PROVE MemInv'
    <2>1. b.idx \in Nat /\ Blocks(b.size) \in Nat \ {0} /\ RegionsOf(b) = Pages(b)
      BY HeldPages
    <2>2. RegionsOf(b) \ {b.idx} = b.idx + 1 .. b.idx + Blocks(b.size) - 1
      <3>1. \A i \in Nat, n \in Nat \ {0} : (i .. i + n - 1) \ {i} = i + 1 .. i + n - 1
        OBVIOUS
      <3> QED  BY ONLY <2>1, <3>1 DEF Pages
    <2>3. 1 \in 1 .. Blocks(b.size)
      BY <2>1
    <2> QED  BY <1>0, <1>4, <2>2, <2>3, GiveBack DEF DriverReturns
  <1>5. ASSUME NEW t \in Tasks, Killed(t) PROVE MemInv'
    BY <1>0, <1>5, LoseAll
  <1>6. ASSUME NEW d \in Devices, ReserveDevice(d) PROVE MemInv'
    BY <1>0, <1>6, MapDevice
  <1>7. CASE UNCHANGED <<region, page, held, lost>>
    BY <1>0, <1>7 DEF MemInv, RecordInv, BlockInv, Apart, KernelInv, RestInv, InBlock,
                      Pages, Blocks, HeapRegions, KernelPages, HeapAddresses, Common, Unmapped
  <1> QED
    BY <1>1, <1>2, <1>3, <1>4, <1>5, <1>6, <1>7 DEF Next, vars, DriverFinds

LEMMA InitMemory == Init => MemInv /\ FoundInv
  <1> SUFFICES ASSUME Init PROVE MemInv /\ FoundInv
    OBVIOUS
  <1>1. Kernel \in Regions /\ HeapAt \in Regions /\ HeapPages \in Nat
        /\ Kernel + HeapPages <= NRegions /\ HeapAt + HeapPages <= NRegions
    BY DEF Regions
  <1>2. \A r \in Regions : region[r] =
            IF r \in HeapRegions
              THEN [exists |-> TRUE, available |-> FALSE, virtual |-> HeapAt + (r - Kernel)]
              ELSE BootRegions[r]
    <2> TAKE r \in Regions
    <2>1. region[r] = IF Offset(r, Kernel) < HeapPages
                        THEN [exists |-> TRUE, available |-> FALSE,
                              virtual |-> (HeapAt + Offset(r, Kernel)) % NRegions]
                        ELSE BootRegions[r]
      BY HeapFirst DEF Init, Taken
    <2>2. Offset(r, Kernel) < HeapPages <=> r \in HeapRegions
      BY <1>1, OffsetInside DEF HeapRegions
    <2>3. ASSUME r \in HeapRegions PROVE (HeapAt + Offset(r, Kernel)) % NRegions = HeapAt + (r - Kernel)
      <3>1. Offset(r, Kernel) = r - Kernel
        BY <1>1, <2>3, OffsetIs DEF HeapRegions
      <3>2. /\ HeapAt + (r - Kernel) \in Int /\ 0 <= HeapAt + (r - Kernel)
            /\ HeapAt + (r - Kernel) < NRegions
        BY <2>3 DEF HeapRegions
      <3> QED  BY <3>1, <3>2, ModSmall
    <2> QED  BY <2>1, <2>2, <2>3
  <1>3. \A a \in Regions : page[a] =
            IF a \in HeapAddresses THEN Kernel + (a - HeapAt) ELSE BootPages[a]
    <2> TAKE a \in Regions
    <2>1. page[a] = IF Offset(a, HeapAt) < HeapPages
                      THEN (Kernel + Offset(a, HeapAt)) % NRegions ELSE BootPages[a]
      BY HeapFirst DEF Init, Mapped
    <2>2. Offset(a, HeapAt) < HeapPages <=> a \in HeapAddresses
      BY <1>1, OffsetInside DEF HeapAddresses
    <2>3. ASSUME a \in HeapAddresses PROVE (Kernel + Offset(a, HeapAt)) % NRegions = Kernel + (a - HeapAt)
      <3>1. Offset(a, HeapAt) = a - HeapAt
        BY <1>1, <2>3, OffsetIs DEF HeapAddresses
      <3>2. /\ Kernel + (a - HeapAt) \in Int /\ 0 <= Kernel + (a - HeapAt)
            /\ Kernel + (a - HeapAt) < NRegions
        BY <2>3 DEF HeapAddresses
      <3> QED  BY <3>1, <3>2, ModSmall
    <2> QED  BY <2>1, <2>2, <2>3
  <1>4. RecordInv
    <2> SUFFICES ASSUME NEW r \in Regions PROVE RecordInv!(r)
      BY DEF RecordInv
    <2>0. r \in Nat /\ lost = {}
      BY DEF Regions, Init
    <2>1. CASE r < Kernel
      <3>1. region[r] = [exists |-> TRUE, available |-> FALSE, virtual |-> Usable + r]
        <4>1. r \notin HeapRegions
          BY <2>0, <2>1 DEF HeapRegions
        <4>2. BootRegions[r] = [exists |-> TRUE, available |-> FALSE, virtual |-> Usable + r]
          BY <2>1 DEF BootRegions
        <4> QED  BY <1>2, <4>1, <4>2
      <3> QED  BY <2>0, <2>1, <3>1 DEF HeapRegions, Common
    <2>2. CASE r \in HeapRegions
      <3>1. region[r] = [exists |-> TRUE, available |-> FALSE, virtual |-> HeapAt + (r - Kernel)]
        BY <1>2, <2>2
      <3> QED  BY <2>0, <2>2, <3>1 DEF HeapRegions, Common
    <2>3. CASE r \in Common
      <3>1. region[r] = [exists |-> TRUE, available |-> TRUE, virtual |-> Unmapped]
        <4>1. r \notin HeapRegions /\ ~(r < Kernel) /\ r \in Kernel .. (Usable - 1)
          BY <2>0, <2>3 DEF HeapRegions, Common
        <4>2. BootRegions[r] = [exists |-> TRUE, available |-> TRUE, virtual |-> Unmapped]
          BY <4>1 DEF BootRegions
        <4> QED  BY <1>2, <4>1, <4>2
      <3> QED  BY <2>0, <2>3, <3>1 DEF HeapRegions, Common
    <2>4. CASE r >= Usable
      <3>1. region[r] = [exists |-> FALSE, available |-> FALSE, virtual |-> 0]
        <4>1. r \notin HeapRegions /\ ~(r < Kernel) /\ r \notin Kernel .. (Usable - 1)
          BY <2>0, <2>4 DEF HeapRegions
        <4>2. BootRegions[r] = [exists |-> FALSE, available |-> FALSE, virtual |-> 0]
          BY <4>1 DEF BootRegions
        <4> QED  BY <1>2, <4>1, <4>2
      <3> QED  BY <2>0, <2>4, <3>1 DEF HeapRegions, Common
    <2> QED  BY <2>0, <2>1, <2>2, <2>3, <2>4 DEF HeapRegions, Common
  <1>5. KernelInv
    <2>1. ASSUME NEW k \in 0 .. Kernel - 1 PROVE page[Usable + k] = k
      <3>1. Usable + k \in Regions /\ Usable + k \notin HeapAddresses
            /\ Usable + k \in Usable .. (Usable + Kernel - 1)
        BY DEF Regions, HeapAddresses
      <3> QED  BY <1>3, <3>1 DEF BootPages
    <2>2. ASSUME NEW k \in 0 .. HeapPages - 1 PROVE page[HeapAt + k] = Kernel + k
      <3>1. HeapAt + k \in Regions /\ HeapAt + k \in HeapAddresses
        BY DEF Regions, HeapAddresses
      <3> QED  BY <1>3, <3>1
    <2>3. lost = {}
      BY DEF Init
    <2> QED  BY <2>1, <2>2, <2>3 DEF KernelInv
  <1>6. RestInv
    <2>1. ASSUME NEW r \in Common PROVE region[r].available
      <3>1. r \in Regions /\ r \notin HeapRegions /\ ~(r < Kernel) /\ r \in Kernel .. (Usable - 1)
        BY DEF Common, HeapRegions, Regions
      <3>2. region[r] = [exists |-> TRUE, available |-> TRUE, virtual |-> Unmapped]
        BY <1>2, <3>1 DEF BootRegions
      <3> QED  BY <3>2
    <2>2. ASSUME NEW a \in Regions, page[a] # Absent PROVE a \in KernelPages \cup HeapAddresses
      BY <1>3, <2>2 DEF BootPages, KernelPages
    <2> QED  BY <2>1, <2>2 DEF RestInv
  <1>7. \A t \in Tasks : held[t] = {} /\ found[t] = None
    BY DEF Init
  <1> QED  BY <1>4, <1>5, <1>6, <1>7, InitType DEF MemInv, BlockInv, Apart, FoundInv

LEMMA MemoryInvariant == Careful => (Spec => [](MemInv /\ FoundInv))
  <1> SUFFICES ASSUME Careful PROVE Spec => [](MemInv /\ FoundInv)
    OBVIOUS
  <1>1. MemInv /\ FoundInv /\ [Next]_vars => MemInv' /\ FoundInv'
    BY NextMemory, NextFound
  <1> QED  BY <1>1, InitMemory, PTL DEF Spec
-------------------------------------------------------------------------------
(* What the invariant says of the blocks somebody counts on.               *)

LEMMA LiveIs ==
    \A x : x \in Live <=> \/ x = <<"kernel", HeapBlock>>
                          \/ \E t \in Tasks : \E b \in held[t] : x = <<t, b>>
  BY DEF Live, Blocked

LEMMA HeapBlockIs ==
    /\ HeapBlock.idx = Kernel /\ HeapBlock.at = HeapAt /\ Blocks(HeapBlock.size) = HeapPages
    /\ RegionsOf(HeapBlock) = HeapRegions
  <1>1. HeapBlock.idx = Kernel /\ HeapBlock.at = HeapAt
    BY HeapFirst DEF HeapBlock
  <1>2. Blocks(HeapBlock.size) = HeapPages
    BY BlocksWhole DEF HeapBlock
  <1>3. Kernel \in Regions /\ HeapPages \in Nat /\ Kernel + HeapPages <= NRegions
    BY DEF Regions
  <1>4. \A r \in Regions : Offset(r, Kernel) < HeapPages <=> r \in HeapRegions
    BY <1>3, OffsetInside DEF HeapRegions
  <1>5. HeapRegions \subseteq Regions
    BY <1>3 DEF HeapRegions, Regions
  <1> QED  BY <1>1, <1>2, <1>4, <1>5 DEF RegionsOf

LEMMA ExclusiveFollows == MemInv => Exclusive
  <1> SUFFICES ASSUME MemInv PROVE Exclusive
    OBVIOUS
  <1>1. HeapRegions \subseteq Kernel .. (Usable - 1)
        /\ HeapRegions \cap (Kernel + HeapPages .. HeapAt - 1) = {}
    BY DEF HeapRegions
  <1>2. \A t \in Tasks : \A b \in held[t] :
           /\ RegionsOf(b) = Pages(b) /\ Pages(b) \subseteq Kernel .. (Usable - 1)
           /\ RegionsOf(b) \cap HeapRegions = {}
    BY <1>1, HeldPages
  <1> SUFFICES ASSUME NEW x \in Live, NEW y \in Live
               PROVE  /\ x # y => RegionsOf(x[2]) \cap RegionsOf(y[2]) = {}
                      /\ RegionsOf(x[2]) \subseteq Kernel .. (Usable - 1)
    BY DEF Exclusive
  <1>3. CASE x = <<"kernel", HeapBlock>>
    <2>1. CASE y = <<"kernel", HeapBlock>>
      BY <1>1, <1>3, <2>1, HeapBlockIs
    <2>2. ASSUME NEW t \in Tasks, NEW b \in held[t], y = <<t, b>>
          PROVE  /\ RegionsOf(x[2]) \cap RegionsOf(y[2]) = {}
                 /\ RegionsOf(x[2]) \subseteq Kernel .. (Usable - 1)
      BY <1>1, <1>2, <1>3, <2>2, HeapBlockIs
    <2> QED  BY <2>1, <2>2, LiveIs
  <1>4. ASSUME NEW t \in Tasks, NEW b \in held[t], x = <<t, b>>
        PROVE  /\ x # y => RegionsOf(x[2]) \cap RegionsOf(y[2]) = {}
               /\ RegionsOf(x[2]) \subseteq Kernel .. (Usable - 1)
    <2>0. x[2] = b /\ RegionsOf(b) \subseteq Kernel .. (Usable - 1)
      BY <1>2, <1>4
    <2>1. CASE y = <<"kernel", HeapBlock>>
      BY <1>2, <2>0, <2>1, HeapBlockIs
    <2>2. ASSUME NEW u \in Tasks, NEW c \in held[u], y = <<u, c>>, x # y
          PROVE  RegionsOf(x[2]) \cap RegionsOf(y[2]) = {}
      <3>1. Pages(b) \cap Pages(c) = {}
        BY <1>4, <2>2 DEF MemInv, Apart
      <3> QED  BY <1>2, <1>4, <2>2, <3>1
    <2> QED  BY <2>0, <2>1, <2>2, LiveIs
  <1> QED  BY <1>3, <1>4, LiveIs

LEMMA BackedFollows == MemInv => Backed
  <1> SUFFICES ASSUME MemInv PROVE Backed
    OBVIOUS
  <1>1. \A r \in 0 .. (Kernel - 1) : page[Usable + r] = r
    BY DEF MemInv, KernelInv
  <1>2. \A k \in 0 .. (Blocks(HeapBlock.size) - 1) :
           page[HeapBlock.at + k] = HeapBlock.idx + k
    BY HeapBlockIs DEF MemInv, KernelInv
  <1>3. ASSUME NEW t \in Tasks, NEW b \in held[t], NEW k \in 0 .. (Blocks(b.size) - 1)
        PROVE  page[b.at + k] = b.idx + k
    <2>1. b.idx \in Nat /\ Blocks(b.size) \in Nat \ {0}
      BY HeldPages
    <2>2. b.idx + k \in Pages(b)
      BY ONLY <2>1, k \in 0 .. (Blocks(b.size) - 1) DEF Pages
    <2> QED  BY <2>1, <2>2 DEF MemInv, BlockInv
  <1> QED  BY <1>1, <1>2, <1>3, LiveIs DEF Backed

LEMMA ReturnedFollows == MemInv => Returned
  <1> SUFFICES ASSUME MemInv PROVE Returned
    OBVIOUS
  <1>1. \A t \in Tasks : \A b \in held[t] : RegionsOf(b) = Pages(b)
    BY HeldPages
  <1>2. ASSUME NEW r \in Regions
        PROVE  region[r].available
                 <=> /\ r \in (Kernel .. (Usable - 1)) \ lost
                     /\ \A x \in Live : r \notin RegionsOf(x[2])
    <2>1. ASSUME region[r].available
          PROVE  r \in Common \ lost /\ \A x \in Live : r \notin RegionsOf(x[2])
      <3>1. r \in Common \ lost
        BY <2>1 DEF MemInv, RecordInv
      <3>2. r \notin HeapRegions
        BY <3>1 DEF Common, HeapRegions
      <3>3. \A t \in Tasks : \A b \in held[t] : r \notin Pages(b)
        BY <2>1 DEF MemInv, BlockInv
      <3> QED  BY <1>1, <3>1, <3>2, <3>3, LiveIs, HeapBlockIs
    <2>2. ASSUME r \in (Kernel .. (Usable - 1)) \ lost,
                 \A x \in Live : r \notin RegionsOf(x[2])
          PROVE  region[r].available
      <3>1. r \notin HeapRegions
        <4>1. <<"kernel", HeapBlock>> \in Live
          BY LiveIs
        <4> QED  BY <2>2, <4>1, HeapBlockIs
      <3>2. r \in Common \ lost
        BY <2>2, <3>1 DEF Common, HeapRegions
      <3>3. ~InBlock(r)
        <4>1. ASSUME NEW t \in Tasks, NEW b \in held[t] PROVE r \notin Pages(b)
          <5>1. <<t, b>> \in Live
            BY LiveIs
          <5> QED  BY <1>1, <2>2, <5>1
        <4> QED  BY <4>1 DEF InBlock
      <3> QED  BY <3>2, <3>3 DEF MemInv, RestInv
    <2>3. Common \subseteq Kernel .. (Usable - 1)
      BY DEF Common
    <2> QED  BY <2>1, <2>2, <2>3
  <1>3. ASSUME NEW a \in Regions, page[a] # Absent
        PROVE  \/ a \in Devices \cup (Usable .. (Usable + Kernel - 1)) \cup lost
               \/ \E x \in Live : Offset(a, x[2].at) < Blocks(x[2].size)
    <2>1. CASE a \in HeapAddresses
      <3>1. HeapAt \in Regions /\ HeapPages \in Nat /\ HeapAt + HeapPages <= NRegions
        BY DEF Regions
      <3>2. Offset(a, HeapAt) < HeapPages
        BY <2>1, <3>1, OffsetInside DEF HeapAddresses
      <3>3. <<"kernel", HeapBlock>> \in Live
        BY LiveIs
      <3> QED  BY <3>2, <3>3, HeapBlockIs
    <2>2. CASE InBlock(a)
      <3>0. PICK t \in Tasks : \E b \in held[t] : a \in Pages(b)
        BY <2>2 DEF InBlock
      <3>1. PICK b \in held[t] : a \in Pages(b)
        BY <3>0
      <3>2. a \in RegionsOf(b) /\ b.at = b.idx
        BY <1>1, <3>1 DEF MemInv, BlockInv
      <3>3. Offset(a, b.at) < Blocks(b.size) /\ <<t, b>> \in Live
        BY <3>2, LiveIs DEF RegionsOf
      <3> QED  BY <3>3
    <2> QED  BY <1>3, <2>1, <2>2 DEF MemInv, RestInv, KernelPages
  <1> QED  BY <1>2, <1>3 DEF Returned, Accounted, Sealed

\* Memory is never handed out twice, nor is the kernel's or a device's, whoever
\* dies without returning a block and whatever is returned in part.
THEOREM MemoryIsExclusive == Careful => (Spec => []Exclusive)
  BY MemoryInvariant, ExclusiveFollows, PTL

\* The page directory maps every block that is held, the kernel heap and the
\* kernel image to their own regions, page by page.
THEOREM MemoryIsBacked == Careful => (Spec => []Backed)
  BY MemoryInvariant, BackedFollows, PTL

\* What is given back can be handed out again and is out of reach until it is;
\* nothing else is lost but what a task dies with or a driver returns in part.
THEOREM MemoryIsReturned == Careful => (Spec => []Returned)
  BY MemoryInvariant, ReturnedFollows, PTL
===============================================================================
