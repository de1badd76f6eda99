-------------------------------- MODULE Memory --------------------------------
(***************************************************************************)
(* The physical memory of the machine (src/src/memory.c) and the page      *)
(* directory (src/src/paging.c), both in units of one 4 MB page.           *)
(*                                                                         *)
(* MEMORY_REGIONS says of every physical page whether it is taken and at   *)
(* which virtual page it is mapped; page_directory says the converse.      *)
(* Programs reserve and return blocks by system call (interrupts off, so   *)
(* one step each); drivers that are loaded as programs call the kernel's   *)
(* functions directly and find and reserve in two calls.                   *)
(*                                                                         *)
(* Hazards the constant of that name lets in:                              *)
(*   "full"    no free run is long enough and the -1 is used all the same  *)
(*   "preempt" another task runs between a driver's find and its reserve   *)
(*   "module"  a driver returns a block through the kernel's function table *)
(*   "kill"    a program ends without returning what it reserved           *)
(*   "reach"   identity mapped blocks reach the kernel heap's virtual page *)
(***************************************************************************)
EXTENDS Integers, FiniteSets, FiniteSetsExt

CONSTANTS NRegions,  \* MEMORY_NUM_REGIONS = NUM_PAGES: 1024
          Kernel,    \* pages of the kernel image: 3
          Usable,    \* physical pages below this are handed out: 0x300
          HeapAt,    \* virtual page of kmalloc's heap: 0x90000000 >> 22
          HeapPages, \* its length
          Devices,   \* physical pages of memory mapped devices
          Unit,      \* PAGE_SIZE, in the unit sizes are given in
          Sizes,     \* the sizes that are asked for
          Virtuals,  \* the virtual pages asked for: 0 is none in particular
          Tasks,     \* programs and loaded drivers
          MaxHeld,   \* bound: blocks one of them holds
          Hazards

ASSUME LayoutAssumption ==
    /\ {NRegions, Kernel, Usable, HeapAt, HeapPages, Unit} \subseteq Nat \ {0}
    /\ Kernel + HeapPages < Usable
    /\ Usable + Kernel <= NRegions
    /\ Kernel <= HeapAt /\ HeapAt + HeapPages <= Usable
    /\ Devices \subseteq (Usable + Kernel) .. (NRegions - 1)

Regions == 0 .. (NRegions - 1)
Absent == -1            \* a page directory entry of 0
Unmapped == NRegions    \* 0x68, what get_virtual answers for an unmapped page

ASSUME RequestAssumption ==
    /\ Sizes \subseteq Nat \ {0}
    /\ Virtuals \subseteq Regions
    /\ MaxHeld \in Nat
    /\ Hazards \subseteq {"full", "preempt", "module", "kill", "reach"}

VARIABLES region,   \* MEMORY_REGIONS
          page,     \* page_directory
          held,     \* the blocks a program believes it owns
          found,    \* a driver's result of MEM_findRegionIdx not yet used
          lost      \* history: regions no task holds that were not returned

vars == <<region, page, held, found, lost>>

Block == [idx : Regions, at : Regions, size : Sizes]
None == [idx |-> -2, size |-> 0]

(***************************************************************************)
(* calculateBlocks: the pages a size needs, rounded up.                    *)
(***************************************************************************)
Blocks(size) == (size \div Unit) + (IF size % Unit = 0 THEN 0 ELSE 1)

(***************************************************************************)
(* MEM_findRegionIdx: the first run of free regions that is long enough.   *)
(***************************************************************************)
\* the run is accepted one page early
FitsM(reg, i, n) == /\ i + n <= NRegions
                    /\ \A k \in 0 .. (n - 2) :
                          reg[i + k].available /\ reg[i + k].exists

Fits(reg, i, n) == /\ i + n <= NRegions
                   /\ \A k \in 0 .. (n - 1) :
                         reg[i + k].available /\ reg[i + k].exists

FindRegionIdx(reg, size) ==
    LET runs == {i \in Regions : Fits(reg, i, Blocks(size))}
    IN  IF runs = {} THEN -1 ELSE Min(runs)

(***************************************************************************)
(* Addresses are 32 bits wide, so a block that passes the last page goes   *)
(* on at page 0.  Offset is how far page a is from the start of a block.   *)
(***************************************************************************)
Offset(a, start) == (a - start) % NRegions

(***************************************************************************)
(* MEM_reserveRegionBlock and, for every page, MEM_reserveRegion: the      *)
(* regions are taken, each with its virtual page, and the page entries     *)
(* are written over whatever they held.                                    *)
(***************************************************************************)
\* the base is looked up before there is an entry to find
BaseM(idx, virtual) == IF virtual = 0 THEN Unmapped ELSE virtual

Base(idx, virtual) == IF virtual = 0 THEN idx % NRegions ELSE virtual

Taken(reg, idx, n, base) ==
    [r \in Regions |->
        IF Offset(r, idx) < n
        THEN [exists |-> TRUE, available |-> FALSE,
              virtual |-> (base + Offset(r, idx)) % NRegions]
        ELSE reg[r]]

\* the physical address does not advance with the virtual one
MappedM(pg, idx, n, base) ==
    [a \in Regions |-> IF Offset(a, base) < n THEN idx % NRegions ELSE pg[a]]

Mapped(pg, idx, n, base) ==
    [a \in Regions |-> IF Offset(a, base) < n
                       THEN (idx + Offset(a, base)) % NRegions
                       ELSE pg[a]]

(***************************************************************************)
(* MEM_freeRegionBlock and MEM_freeRegion: for each virtual page the first *)
(* region that names it, taken or not, becomes available and the entry is  *)
(* deleted.  The region keeps the virtual page in its record.              *)
(***************************************************************************)
Named(reg, a) == {r \in Regions : reg[r].virtual = a}

\* a size that is not a whole number of pages is rounded down
Released(reg, at, n) ==
    [r \in Regions |->
        IF /\ Offset(reg[r].virtual, at) < n
           /\ reg[r].virtual # Unmapped
           /\ r = Min(Named(reg, reg[r].virtual))
        THEN [reg[r] EXCEPT !.exists = TRUE, !.available = TRUE]
        ELSE reg[r]]

\* every round of the loop deletes the entry of the block's first page
DeletedM(pg, reg, at, n) ==
    [a \in Regions |-> IF a = at /\ Named(reg, a) # {} THEN Absent ELSE pg[a]]

Deleted(pg, reg, at, n) ==
    [a \in Regions |-> IF Offset(a, at) < n /\ Named(reg, a) # {}
                       THEN Absent ELSE pg[a]]

(***************************************************************************)
(* MEM_populateRegions over the boot page directory (which maps the kernel *)
(* image at 0xC0000000, page Usable), then alloc_init.  The regions that   *)
(* are not filled in are zero, which names virtual page 0.                 *)
(***************************************************************************)
BootRegions ==
    [r \in Regions |->
        CASE r < Kernel -> [exists |-> TRUE, available |-> FALSE,
                            virtual |-> Usable + r]
          [] r \in Kernel .. (Usable - 1) ->
                [exists |-> TRUE, available |-> TRUE, virtual |-> Unmapped]
          [] OTHER -> [exists |-> FALSE, available |-> FALSE, virtual |-> 0]]

BootPages == [a \in Regions |->
                IF a \in Usable .. (Usable + Kernel - 1) THEN a - Usable ELSE Absent]

HeapIdx == FindRegionIdx(BootRegions, HeapPages * Unit)

Init == /\ region = Taken(BootRegions, HeapIdx, HeapPages, HeapAt)
        /\ page = Mapped(BootPages, HeapIdx, HeapPages, HeapAt)
        /\ held = [t \in Tasks |-> {}]
        /\ found = [t \in Tasks |-> None]
        /\ lost = {}

-------------------------------------------------------------------------------
(***************************************************************************)
(* The -1 of a full memory is not looked at: the block starts at the last  *)
(* page and wraps.  A long block may also be identity mapped over the      *)
(* pages that map the heap.                                                *)
(***************************************************************************)
Usual(idx, size) ==
    /\ idx = -1 => "full" \in Hazards
    /\ idx + Blocks(size) > HeapAt => "reach" \in Hazards

Reserve(idx, size, virtual) ==
    /\ region' = Taken(region, idx, Blocks(size), Base(idx, virtual))
    /\ page' = Mapped(page, idx, Blocks(size), Base(idx, virtual))

Owned(idx, size, virtual) ==
    [idx |-> idx % NRegions, at |-> Base(idx, virtual), size |-> size]

RegionsOf(b) == {r \in Regions : Offset(r, b.idx) < Blocks(b.size)}

Room(t) == Cardinality(held[t]) < MaxHeld

\* between a driver's two calls the other tasks do not touch the memory
Undisturbed(t) ==
    "preempt" \in Hazards \/ \A u \in Tasks \ {t} : found[u] = None

(***************************************************************************)
(* syscall_mem_request (memory_requestRegion, and init_stdlib for the heap *)
(* of every program), where virtual is 0, and syscall_mem_reserve, which   *)
(* names the virtual page.                                                 *)
(***************************************************************************)
Request(t, size, virtual) ==
    LET idx == FindRegionIdx(region, size)
    IN  /\ found[t] = None /\ Room(t) /\ Undisturbed(t)
        /\ Usual(idx, size)
        /\ Reserve(idx, size, virtual)
        /\ held' = [held EXCEPT ![t] = @ \cup {Owned(idx, size, virtual)}]
        /\ UNCHANGED <<found, lost>>

(***************************************************************************)
(* A driver calls MEM_findRegionIdx and MEM_reserveRegionBlock itself (the *)
(* names kernel_fn_init puts in its table); it is a task like the others,  *)
(* and nothing keeps the processor for it between the calls.               *)
(***************************************************************************)
DriverFinds(t, size) ==
    /\ found[t] = None /\ Room(t) /\ Undisturbed(t)
    /\ Usual(FindRegionIdx(region, size), size)
    /\ found' = [found EXCEPT ![t] = [idx |-> FindRegionIdx(region, size),
                                     size |-> size]]
    /\ UNCHANGED <<region, page, held, lost>>

DriverReserves(t) ==
    LET f == found[t]
    IN  /\ f # None
        /\ Reserve(f.idx, f.size, 0)
        /\ held' = [held EXCEPT ![t] = @ \cup {Owned(f.idx, f.size, 0)}]
        /\ found' = [found EXCEPT ![t] = None]
        /\ UNCHANGED lost

(***************************************************************************)
(* syscall_mem_free, with the address and size the block was reserved with *)
(* (clean_stdlib does so when a program's main returns).                   *)
(***************************************************************************)
Return(t, b) ==
    /\ found[t] = None /\ Undisturbed(t)
    /\ b \in held[t]
    /\ region' = Released(region, b.at, Blocks(b.size))
    /\ page' = Deleted(page, region, b.at, Blocks(b.size))
    /\ held' = [held EXCEPT ![t] = @ \ {b}]
    /\ UNCHANGED <<found, lost>>

(***************************************************************************)
(* kernel_fn_init gives drivers MEM_freeRegion under the name              *)
(* MEM_freeRegionBlock, and that frees one page.                           *)
(***************************************************************************)
DriverReturns(t, b) ==
    /\ "module" \in Hazards
    /\ found[t] = None /\ Undisturbed(t)
    /\ b \in held[t]
    /\ region' = Released(region, b.at, 1)
    /\ page' = Deleted(page, region, b.at, 1)
    /\ held' = [held EXCEPT ![t] = @ \ {b}]
    /\ lost' = lost \cup (RegionsOf(b) \ {b.idx})
    /\ UNCHANGED found

\* stop_task and task_end return none of the memory
Killed(t) ==
    /\ "kill" \in Hazards
    /\ held[t] # {} \/ found[t] # None
    /\ held' = [held EXCEPT ![t] = {}]
    /\ found' = [found EXCEPT ![t] = None]
    /\ lost' = lost \cup UNION {RegionsOf(b) : b \in held[t]}
    /\ UNCHANGED <<region, page>>

\* a driver of the kernel maps the registers of its device where they are
ReserveDevice(d) ==
    /\ region' = Taken(region, d, 1, d)
    /\ page' = Mapped(page, d, 1, d)
    /\ UNCHANGED <<held, found, lost>>

Next == \/ \E t \in Tasks, size \in Sizes :
              \/ DriverFinds(t, size)
              \/ \E virtual \in Virtuals : Request(t, size, virtual)
        \/ \E t \in Tasks :
              \/ DriverReserves(t)
              \/ Killed(t)
              \/ \E b \in held[t] : Return(t, b) \/ DriverReturns(t, b)
        \/ \E d \in Devices : ReserveDevice(d)

Spec == Init /\ [][Next]_vars

-------------------------------------------------------------------------------
(***************************************************************************)
(* Every variable has the values the C types and the callers give it.      *)
(***************************************************************************)
TypeOK ==
    /\ region \in [Regions -> [exists : BOOLEAN, available : BOOLEAN,
                               virtual : Regions \cup {Unmapped}]]
    /\ page \in [Regions -> Regions \cup {Absent}]
    /\ held \in [Tasks -> SUBSET Block]
    /\ found \in [Tasks -> {None} \cup [idx : Regions \cup {-1}, size : Sizes]]
    /\ lost \subseteq Regions

HeapBlock == [idx |-> HeapIdx, at |-> HeapAt, size |-> HeapPages * Unit]

\* every block somebody counts on: the kernel's heap and what the tasks hold
Blocked == {<<t, b>> : t \in Tasks, b \in UNION {held[u] : u \in Tasks}}
Live == {tb \in Blocked : tb[2] \in held[tb[1]]} \cup {<<"kernel", HeapBlock>>}

(***************************************************************************)
(* The regions of two live blocks are disjoint, and none of them belongs   *)
(* to the kernel image or a device: MEM_findRegionIdx with                 *)
(* MEM_reserveRegionBlock never hands a page out twice, whoever died       *)
(* without returning a block and whatever was returned in part.            *)
(***************************************************************************)
Exclusive ==
    \A x, y \in Live :
        /\ x # y => RegionsOf(x[2]) \cap RegionsOf(y[2]) = {}
        /\ RegionsOf(x[2]) \subseteq Kernel .. (Usable - 1)

(***************************************************************************)
(* The page directory maps every live block to its own regions, page by    *)
(* page, and the kernel image to itself: no reservation or return of one   *)
(* task moves memory from under another or from under the kernel.          *)
(***************************************************************************)
Backed ==
    /\ \A x \in Live : \A k \in 0 .. (Blocks(x[2].size) - 1) :
           page[x[2].at + k] = x[2].idx + k
    /\ \A r \in 0 .. (Kernel - 1) : page[Usable + r] = r

(***************************************************************************)
(* MEM_freeRegionBlock gives back all of a block and nothing else: a       *)
(* region is available exactly when it is in the range that is handed out  *)
(* and no live block holds it, but for what tasks lost by dying or through *)
(* the function table.                                                     *)
(***************************************************************************)
Accounted ==
    \A r \in Regions :
        region[r].available
            <=> /\ r \in (Kernel .. (Usable - 1)) \ lost
                /\ \A x \in Live : r \notin RegionsOf(x[2])

(***************************************************************************)
(* Memory that was returned is out of reach: a page is mapped only if it   *)
(* belongs to the kernel image, a device, a live block or a lost one, so a *)
(* program that keeps an address after memory_returnRegion faults.         *)
(***************************************************************************)
Sealed ==
    \A a \in Regions : page[a] # Absent =>
        \/ a \in Devices \cup (Usable .. (Usable + Kernel - 1)) \cup lost
        \/ \E x \in Live : Offset(a, x[2].at) < Blocks(x[2].size)

\* What is given back with memory_returnRegion or MEM_freeRegionBlock, by
\* whatever way, can be handed out again and is out of reach until it is.
Returned == Accounted /\ Sealed
===============================================================================
