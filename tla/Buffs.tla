------------------------------- MODULE Buffs -------------------------------
(***************************************************************************)
(* The file system in memory (filesystem/drivers/buffs): a file is one     *)
(* block of pages, and a resize that changes the number of pages moves it. *)
(* One program writes the file through fwrite of the C library, which is   *)
(* several system calls; another one that has it open too writes and       *)
(* resizes it, and other drivers reserve and return pages.  A system call  *)
(* runs with interrupts off, so each is one step.                          *)
(***************************************************************************)
EXTENDS Integers, FiniteSets, FiniteSetsExt

CONSTANTS
    PageSize,  \* bytes of a page
    NPages,    \* pages of memory that drivers can reserve
    MaxLen,    \* bound: no length or position is beyond it
    Sizes      \* the lengths that are given to fwrite

\* What is assumed of the constants: see BuffsAssumption in module Devices.

Lens == 0 .. MaxLen
Page == 0 .. NPages - 1
Old == 0     \* what a page holds before anybody writes it
Ours == 1    \* what the two programs write
Others == 2  \* what the drivers write
LastPage == -1  \* index of a block that was not found, for the last page

VARIABLES
    size, num_pages, page_base,  \* struct BUFFS_file; the base as a page
    room,       \* number of pages of the block at page_base
    reserved,   \* pages that are not available; each is mapped to itself
    theirs,     \* those of them that other drivers hold
    mem,        \* the bytes of the pages
    writer,     \* place of the writer: position, step of fwrite, its length
    stored,     \* history: positions a program was told are written
    disturbed   \* history: one of the cases below has happened

vars == <<size, num_pages, page_base, room, reserved, theirs, mem, writer,
          stored, disturbed>>

TypeOK ==
    /\ size \in Lens /\ num_pages \in 0 .. MaxLen \div PageSize + 1
    /\ page_base \in Page \cup {LastPage} /\ room \in 0 .. NPages
    /\ theirs \subseteq reserved /\ reserved \subseteq Page
    /\ mem \in [0 .. NPages * PageSize - 1 -> {Old, Ours, Others}]
    /\ writer \in [head : Lens, pc : {"none", "idle", "resize", "write"}, n : Sizes \cup {0}]
    /\ stored \subseteq Lens /\ disturbed \in BOOLEAN

Idle(h) == [head |-> h, pc |-> "idle", n |-> 0]

\* Nobody has created the file; others may hold pages already.
Init ==
    /\ size = 0 /\ num_pages = 0 /\ page_base = LastPage /\ room = 0
    /\ reserved = {} /\ theirs = {} /\ mem = [a \in 0 .. NPages * PageSize - 1 |-> Old]
    /\ writer = [Idle(0) EXCEPT !.pc = "none"] /\ stored = {} /\ disturbed = FALSE
-----------------------------------------------------------------------------
(* Blocks of memory (memory.c).                                            *)

calculateBlocks(n) == (n + PageSize - 1) \div PageSize
Block(i, n) == i .. i + calculateBlocks(n) - 1

\* The first run of free pages; none is found for a block of no page.
findRegionIdx(n) ==
    LET fits == {i \in Page : Block(i, n) \subseteq Page \ reserved}
    IN IF n = 0 \/ fits = {} THEN LastPage ELSE Min(fits)

Address(base, i) == base * PageSize + i
PageOf(a) == a \div PageSize

\* memcpy(new_base, page_base, len) copies upwards: where the old block is the
\* shorter one it reads on behind it, and maybe what it has just written.
Copied(new, len) ==
    LET byte[i \in 0 .. len - 1] ==
          LET a == Address(page_base, i)
          IN IF a \in Address(new, 0) .. Address(new, i) - 1
             THEN byte[a - Address(new, 0)] ELSE mem[a]
    IN byte

\* ... and is killed at a page that is not mapped.
CanCopy(new, len) ==
    \A i \in 0 .. len - 1 : PageOf(Address(page_base, i)) \in reserved \cup Block(new, len)

\* MEM_freeRegionBlock of the driver is MEM_freeRegion: of the first page only.
FreedM(old, new) == {new}  \* mutant: the new block, after it has replaced the old one
Freed(old, new) == {old}

-----------------------------------------------------------------------------
(* The file.  What follows one of these is not followed: it sets disturbed *)
(*   - no block is found, and nobody looks (see Memory);                   *)
(*   - the file outgrows its block (OutgrowsBlock);                        *)
(*   - a program takes the file for longer than it is (Misjudged);         *)
(*   - a resize cuts what the other's fwrite has made room for or written. *)

\* One page more than there are whole ones, also if nothing is left over.
PageCount(n) == n \div PageSize + 1

\* A resize to the page count that is recorded leaves the block as it is, and
\* a block that was reserved for whole pages has one less than its count.
OutgrowsBlock(len) == len > room * PageSize

buffs_createFile ==
    LET new == findRegionIdx(1)
    IN /\ writer.pc = "none" /\ writer' = Idle(0)
       /\ size' = 1 /\ num_pages' = PageCount(1) /\ page_base' = new
       /\ room' = calculateBlocks(1) /\ reserved' = reserved \cup (Block(new, 1) \cap Page)
       /\ disturbed' = (new = LastPage) /\ UNCHANGED <<theirs, mem, stored>>

NeedsBlock(len) == PageCount(len) # num_pages
Finds(len) == len > 0 => findRegionIdx(len) # LastPage
Killed(len) == NeedsBlock(len) /\ Finds(len) /\ ~CanCopy(findRegionIdx(len), len)

ResizeInPlace(len, cuts) ==
    /\ ~NeedsBlock(len)
    /\ size' = len /\ disturbed' = (cuts \/ OutgrowsBlock(len))
    /\ UNCHANGED <<num_pages, page_base, room, reserved, mem>>

Move(len, cuts) ==
    LET new == findRegionIdx(len)
        copy == Copied(new, len)
    IN /\ NeedsBlock(len) /\ Finds(len) /\ CanCopy(new, len)
       /\ size' = len /\ num_pages' = PageCount(len)
       /\ page_base' = new /\ room' = calculateBlocks(len)
       /\ reserved' = (reserved \cup Block(new, len)) \ Freed(page_base, new)
       /\ mem' = [a \in DOMAIN mem |->
                   IF a - Address(new, 0) \in 0 .. len - 1 THEN copy[a - Address(new, 0)] ELSE mem[a]]
       /\ disturbed' = cuts

\* The task that resizes is killed, the file stays as it is, and the new block
\* is left behind.
DiesInCopy(len) ==
    /\ Killed(len) /\ reserved' = reserved \cup Block(findRegionIdx(len), len)
    /\ UNCHANGED <<size, num_pages, page_base, room, mem, disturbed>>

NoMemory(len) ==
    /\ NeedsBlock(len) /\ ~Finds(len) /\ disturbed' = TRUE
    /\ UNCHANGED <<size, num_pages, page_base, room, reserved, mem>>

buffs_truncate(len, cuts) ==
    /\ ResizeInPlace(len, cuts) \/ Move(len, cuts) \/ DiesInCopy(len) \/ NoMemory(len)
    /\ UNCHANGED theirs

\* The bytes from h on that a write of n reaches.
Within(h, n) == {i \in h .. h + n - 1 : i < size}

buffs_write(bytes) ==
    mem' = [a \in DOMAIN mem |-> IF \E i \in bytes : a = Address(page_base, i) THEN Ours ELSE mem[a]]
-----------------------------------------------------------------------------
(* The program that uses fwrite.                                           *)

\* SEEK_END adds the size to the position.
EndSeen == writer.head + size
Misjudged(n) == EndSeen >= writer.head + n /\ writer.head < size /\ size < writer.head + n

\* ftell, fseek to the end, ftell, fseek back: nobody else moves the position.
Measure(n) ==
    /\ writer.pc = "idle" /\ writer.head + n <= MaxLen
    /\ writer' = [writer EXCEPT !.n = n, !.pc = IF EndSeen < writer.head + n THEN "resize" ELSE "write"]
    /\ disturbed' = Misjudged(n)
    /\ UNCHANGED <<size, num_pages, page_base, room, reserved, theirs, mem, stored>>

Resize ==
    LET len == writer.head + writer.n
    IN /\ writer.pc = "resize"
       /\ writer' = IF Killed(len) THEN Idle(0) ELSE [writer EXCEPT !.pc = "write"]
       /\ buffs_truncate(len, len < size) /\ UNCHANGED stored

\* The element counts as written if any of its bytes is.
Write ==
    LET bytes == Within(writer.head, writer.n)
    IN /\ writer.pc = "write" /\ buffs_write(bytes)
       /\ stored' = IF bytes = {} THEN stored ELSE stored \cup writer.head .. writer.head + writer.n - 1
       /\ writer' = Idle(writer.head + Cardinality(bytes))
       /\ UNCHANGED <<size, num_pages, page_base, room, reserved, theirs, disturbed>>

Seek(h) ==
    /\ writer.pc = "idle" /\ writer' = Idle(h)
    /\ UNCHANGED <<size, num_pages, page_base, room, reserved, theirs, mem, stored, disturbed>>

\* It is stopped between two calls, and another one opens the file.
Reopen ==
    /\ writer.pc \in {"resize", "write"} /\ writer' = Idle(0)
    /\ UNCHANGED <<size, num_pages, page_base, room, reserved, theirs, mem, stored, disturbed>>
-----------------------------------------------------------------------------
(* The others.                                                             *)

Cuts(len) == writer.pc = "write" /\ len < writer.head + writer.n

\* A program that asks for a shorter file gives up what was behind.
Truncate(len) ==
    /\ writer.pc # "none" /\ buffs_truncate(len, Cuts(len)) /\ UNCHANGED writer
    /\ stored' = IF Killed(len) THEN stored ELSE stored \cap 0 .. len - 1

Poke(i) ==
    /\ i < size /\ buffs_write({i}) /\ stored' = stored \cup {i}
    /\ UNCHANGED <<size, num_pages, page_base, room, reserved, theirs, writer, disturbed>>

\* A driver reserves a page and fills it, or returns it.
Take(p) ==
    /\ p \notin reserved /\ reserved' = reserved \cup {p} /\ theirs' = theirs \cup {p}
    /\ mem' = [a \in DOMAIN mem |-> IF PageOf(a) = p THEN Others ELSE mem[a]]
    /\ UNCHANGED <<size, num_pages, page_base, room, writer, stored, disturbed>>

Give(p) ==
    /\ p \in theirs /\ reserved' = reserved \ {p} /\ theirs' = theirs \ {p}
    /\ UNCHANGED <<size, num_pages, page_base, room, mem, writer, stored, disturbed>>

Next ==
    /\ ~disturbed
    /\ \/ buffs_createFile
       \/ \E n \in Sizes : Measure(n)
       \/ Resize \/ Write \/ Reopen
       \/ \E i \in Lens : Seek(i) \/ Truncate(i) \/ Poke(i)
       \/ \E p \in Page : Take(p) \/ Give(p)

Spec == Init /\ [][Next]_vars
-----------------------------------------------------------------------------
(* Up to the first of those cases.                                         *)

\* A byte that a program was told is written is in the file, in a page of the
\* file, and still there however often the file has been moved since.
KeepsContent ==
    disturbed \/ \A i \in stored :
      /\ i < size /\ mem[Address(page_base, i)] = Ours
      /\ PageOf(Address(page_base, i)) \in reserved \ theirs

\* The pages of others hold what they have put there.
SparesOthers ==
    disturbed \/ \A a \in DOMAIN mem : PageOf(a) \in theirs => mem[a] = Others
=============================================================================
