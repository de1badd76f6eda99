----------------------------- MODULE Ext2_proofs -----------------------------
(***************************************************************************)
(* Proofs about the ext2 driver, for any disk that GeometryAssumption      *)
(* allows, any names and any number of open files.                         *)
(***************************************************************************)
EXTENDS Ext2, FiniteSetTheorems, WellFoundedInduction, TLAPS

USE GeometryAssumption

Slots == 0 .. Direct - 1
-----------------------------------------------------------------------------
(* Arithmetic.                                                             *)

LEMMA Quotient ==
    ASSUME NEW b \in Nat \ {0}, NEW a \in Nat
    PROVE  \E q \in Nat, m \in 0 .. b - 1 : q = a \div b /\ a = b * q + m
  <1> DEFINE q == a \div b
             m == a % b
  <1>1. q \in Nat /\ m \in 0 .. b - 1 /\ a = b * q + m
    OBVIOUS
  <1> HIDE DEF q, m
  <1> QED  BY <1>1 DEF q, m

\* A quotient that is at least q takes at least q times the divisor.
LEMMA AtLeast ==
    ASSUME NEW b \in Nat \ {0}, NEW p \in Nat, NEW q \in Nat, p >= q
    PROVE  b * p >= b * q
  OBVIOUS

\* A larger file has no fewer blocks.
LEMMA CountGrows ==
    ASSUME NEW s \in Nat, NEW n \in Nat, s <= n
    PROVE  Count(s) \in Nat \ {0} /\ Count(s) <= Count(n)
  <1>1. PICK p \in Nat, m \in 0 .. BS - 1 : p = s \div BS /\ s = BS * p + m
    BY Quotient
  <1>0. PICK q \in Nat, r \in 0 .. BS - 1 : q = n \div BS /\ n = BS * q + r
    BY Quotient
  <1>2. ASSUME p >= q + 1 PROVE FALSE
    <2>1. BS * p >= BS * (q + 1)
      <3>1. BS \in Nat \ {0} /\ q + 1 \in Nat
        BY <1>1
      <3> QED  BY ONLY <1>1, <3>1, <1>2, AtLeast
    <2>2. BS * (q + 1) = BS * q + BS
      BY <1>1
    <2> QED  BY <1>0, <1>1, <2>1, <2>2
  <1> QED  BY <1>0, <1>1, <1>2 DEF Count

\* A position inside the direct blocks is in the block of a slot.
LEMMA SlotOf ==
    ASSUME NEW p \in Nat, p < Direct * BS
    PROVE  p \div BS \in Slots
  <1>1. PICK q \in Nat, m \in 0 .. BS - 1 : q = p \div BS /\ p = BS * q + m
    BY Quotient
  <1>2. ASSUME q >= Direct PROVE FALSE
    <2>1. BS * q >= BS * Direct
      BY <1>1, <1>2, AtLeast
    <2>2. BS * Direct = Direct * BS
      OBVIOUS
    <2> QED  BY <1>1, <2>1, <2>2
  <1> QED  BY <1>1, <1>2 DEF Slots

LEMMA MinOfTwo ==
    ASSUME NEW a \in Int, NEW b \in Int
    PROVE  Min({a, b}) = IF a <= b THEN a ELSE b
  BY DEF Min

LEMMA MaxOfTwo ==
    ASSUME NEW a \in Int, NEW b \in Int
    PROVE  Max({a, b}) = IF a >= b THEN a ELSE b
  BY DEF Max

LEMMA MinFound ==
    ASSUME NEW S \in SUBSET Nat, S # {}
    PROVE  Min(S) \in S
  <1> DEFINE less == {ss \in Nat \X Nat : ss[1] < ss[2]}
  <1>1. IsWellFoundedOn(less, Nat)
    BY NatLessThanWellFounded DEF OpToRel
  <1>2. PICK x \in S : \A y \in S : ~(<<y, x>> \in less)
    <2> HIDE DEF less
    <2> QED  BY <1>1, WFMin
  <1>3. ASSUME NEW y \in S PROVE x <= y
    <2>1. ~(<<y, x>> \in less)
      BY <1>2
    <2>2. x \in Nat /\ y \in Nat
      OBVIOUS
    <2> QED  BY <2>1, <2>2
  <1> QED  BY <1>3 DEF Min
-----------------------------------------------------------------------------
(* The inductive invariant of the types and of HandleAgrees.               *)

\* The records of the calls in progress.
CreateOp ==
    [call : {"create"}, kind : {"file", "dir"}, ino : Inodes, dir : Inodes, name : Names,
     pc : {"imap", "init", "mark", "zero", "inode", "link", "dot", "dotdot"},
     size : 0 .. MaxFile, ptr : Ptrs, at : Nat, blk : Blocks, todo : Nat]
FileOp ==
    [call : {"write", "truncate"}, ino : Inodes, h : Handles, n : Nat,
     pc : {"mark", "zero", "inode", "data"},
     size : Nat, ptr : Ptrs, at : Nat, blk : Blocks, todo : Nat]
OpType == op \in {Idle} \cup CreateOp \cup FileOp

\* While blocks are allocated, the slots from op.at on are empty, those filled
\* are within the size, and so are those still to fill.
Preparing == op # Idle /\ op.pc \in {"imap", "init"}
Filling == op # Idle /\ op.pc \in {"imap", "init", "mark", "zero", "inode"}
OpSlots ==
    /\ Filling =>
         /\ op.size <= MaxFile
         /\ \A k \in Slots : k >= op.at => op.ptr[k] = 0
         /\ \A k \in Slots : op.ptr[k] # 0 => k <= Count(op.size)
         /\ op.todo > 0 => op.at + op.todo <= Direct /\ op.at + op.todo <= Count(op.size) + 1
         /\ op.pc \in {"mark", "zero"} => op.todo > 0
    /\ Preparing => op.ptr = NoPtrs

\* No inode names a block past its size.
Filled == \A i \in Inodes : \A k \in Slots : k > Count(inode[i].size) => inode[i].ptr[k] = 0

\* What entries, handles and calls name is marked in the usage map of inodes,
\* and the inode a call creates is not before the call has marked it.
Marked ==
    /\ Root \in imap
    /\ \A b \in Blocks : \A e \in ents[b] : e[2] \in imap
    /\ \A h \in Handles : handle[h] # Closed => handle[h].ino \in imap
    /\ op # Idle => (op.pc = "imap" \/ op.ino \in imap)
    /\ op # Idle /\ op.call = "create" => op.dir \in imap
    /\ op # Idle /\ op.call = "create" /\ op.pc = "imap" => op.ino \notin imap

\* A call that extends or writes has an open file, and one that creates has
\* an inode no handle knows.
OpHandle ==
    /\ op # Idle /\ op.call = "create" => \A h \in Handles : handle[h].ino # op.ino
    /\ op # Idle /\ op.call # "create" =>
         /\ handle[op.h] # Closed /\ handle[op.h].ino = op.ino
         /\ op.call = "truncate" => op.pc # "data"
         /\ op.call = "write" => op.n >= 1 /\ handle[op.h].head + op.n <= MaxSize

\* The inode that will be written keeps the blocks it has.
Keep ==
    Filling /\ ~Preparing =>
      \A k \in Slots : inode[op.ino].ptr[k] # 0 => op.ptr[k] = inode[op.ino].ptr[k]

ShapeInv ==
    /\ TypeOK /\ OpType
    /\ OpSlots /\ Filled
    /\ Marked /\ OpHandle
    /\ Keep /\ HandleAgrees

-----------------------------------------------------------------------------
(* The operators of the driver.                                            *)

\* ext2_get_freeBlockIdx gives a block that is free in its map, or block 0.
LEMMA FreeBlockIs == FreeBlock \in Blocks /\ (FreeBlock # 0 => ~InMap(FreeBlock))
  <1> DEFINE free == {i \in Blocks : ~InMap(i)}
  <1>1. CASE free = {}
    BY <1>1 DEF FreeBlock, Blocks
  <1>2. CASE free # {}
    <2>1. free \subseteq Nat
      BY DEF Blocks
    <2>2. Min(free) \in free
      <3> HIDE DEF free
      <3> QED  BY <1>2, <2>1, MinFound
    <2> QED  BY <1>2, <2>2 DEF FreeBlock
  <1> QED  BY <1>1, <1>2

\* ext2_get_freeInodeIdx gives an inode that is not marked.
LEMMA FreeInodeIs == FreeInode # 0 => FreeInode \in Inodes \ imap
  <1> DEFINE free == FirstIno .. (InodeCount - 1) \ imap
  <1>1. CASE free # {}
    <2>1. free \subseteq Nat
      BY DEF FirstIno
    <2>2. Min(free) \in free
      <3> HIDE DEF free
      <3> QED  BY <1>1, <2>1, MinFound
    <2> QED  BY <1>1, <2>2 DEF FreeInode, FirstIno, Inodes, Root
  <1> QED  BY <1>1 DEF FreeInode

\* A walk of directories meets inodes that are marked.
LEMMA PathsMarked ==
    ASSUME TypeOK, Marked
    PROVE  Dirs \subseteq Inodes \cap imap /\ Files \subseteq Inodes \cap imap
  <1>1. Root \in Inodes /\ 0 \in Slots
    BY DEF Root, FirstIno, Inodes, Slots
  <1>2. ASSUME NEW d \in Inodes PROVE Entries(d) \in SUBSET ((Names \cup {".", ".."}) \X (Inodes \cap imap))
    <2>1. inode[d].ptr[0] \in Blocks
      BY <1>1 DEF TypeOK, Ptrs, Slots
    <2> QED  BY <2>1 DEF Entries, TypeOK, Marked
  <1>3. Dirs \subseteq Inodes \cap imap
    BY <1>1, <1>2 DEF Dirs, Marked
  <1> QED  BY <1>2, <1>3 DEF Files

\* ext2_extendFile fills slots that are empty and within the new size.
LEMMA ExtensionIs ==
    ASSUME TypeOK, Filled, NEW i \in Inodes, NEW amount \in Nat
    PROVE  LET e == Extension(i, amount)
           IN  /\ e.size \in Nat /\ e.at \in Nat /\ e.todo \in Nat /\ e.ptr = inode[i].ptr
               /\ \A k \in Slots : k >= e.at => e.ptr[k] = 0
               /\ \A k \in Slots : e.ptr[k] # 0 => k <= Count(e.size)
               /\ e.todo > 0 => e.at + e.todo <= Direct /\ e.at + e.todo <= Count(e.size) + 1
  <1> DEFINE cur == inode[i].size
             new == cur + amount
             old == Count(cur)
             more == Count(new)
             first == old + 1
             room == Min({more - old, Direct - first})
             e == Extension(i, amount)
  <1>1. cur \in Nat /\ new \in Nat /\ cur <= new
    BY DEF TypeOK
  <1>2. old \in Nat \ {0} /\ old <= more /\ more \in Nat
    BY <1>1, CountGrows
  <1>3. e.size = new /\ e.ptr = inode[i].ptr /\ e.at = first /\ e.todo = Max({0, room})
    BY DEF Extension
  <1>4. \A k \in Slots : k > old => inode[i].ptr[k] = 0
    BY DEF Filled
  <1>5. room = IF more - old <= Direct - first THEN more - old ELSE Direct - first
    <2> HIDE DEF old, more
    <2> QED  BY <1>2, MinOfTwo
  <1>6. Max({0, room}) = IF 0 >= room THEN 0 ELSE room
    <2>1. room \in Int
      <3> HIDE DEF old, more, room
      <3> QED  BY <1>2, <1>5
    <2> HIDE DEF room
    <2> QED  BY <2>1, MaxOfTwo
  <1> HIDE DEF e, room, old, more, new, cur
  <1>7. e.at \in Nat /\ e.todo \in Nat /\ (e.todo > 0 => e.at + e.todo <= Direct /\ e.at + e.todo <= more + 1)
    BY <1>2, <1>3, <1>5, <1>6
  <1>8. \A k \in Slots : (k >= first => inode[i].ptr[k] = 0) /\ (inode[i].ptr[k] # 0 => k <= more)
    BY <1>2, <1>4 DEF Slots
  <1>9. more = Count(e.size)
    BY <1>3 DEF more
  <1> QED  BY <1>1, <1>3, <1>7, <1>8, <1>9 DEF e
-----------------------------------------------------------------------------
(* Every step keeps the invariant.                                         *)

\* A call in progress is a record of one of the two kinds.
LEMMA OpIs ==
    ASSUME OpType, op # Idle
    PROVE  op \in CreateOp \/ op \in FileOp
  BY DEF OpType

LEMMA NoPtrsIs == NoPtrs \in Ptrs /\ \A k \in Slots : NoPtrs[k] = 0
  BY DEF NoPtrs, Ptrs, Blocks, Slots

LEMMA CreateShape ==
    ASSUME ShapeInv, NEW d \in Inodes, NEW n \in Names, NEW kind \in {"file", "dir"},
           Create(d, n, kind)
    PROVE  ShapeInv'
  <1> USE DEF ShapeInv
  <1>1. FreeInode \in Inodes \ imap /\ d \in imap /\ op = Idle
    BY FreeInodeIs, PathsMarked DEF Create
  <1> DEFINE size == IF kind = "file" THEN 1 ELSE 0
             todo == IF kind = "dir" THEN 1 ELSE Min({Count(size), Direct})
  <1>2. /\ size \in 0 .. MaxFile
        /\ todo \in Nat \ {0} /\ todo <= Direct /\ todo <= Count(size)
    <2>1. size \in 0 .. MaxFile /\ size \in Nat
      OBVIOUS
    <2>2. Count(size) \in Nat \ {0}
      <3> HIDE DEF size
      <3> QED  BY <2>1, CountGrows
    <2>3. Min({Count(size), Direct}) = IF Count(size) <= Direct THEN Count(size) ELSE Direct
      <3> HIDE DEF size
      <3> QED  BY <2>2, MinOfTwo
    <2> HIDE DEF size
    <2> QED  BY <2>1, <2>2, <2>3
  <1>3. op' = [call |-> "create", pc |-> "imap", kind |-> kind,
               ino |-> FreeInode, dir |-> d, name |-> n, size |-> size,
               ptr |-> NoPtrs, at |-> 0, blk |-> 0, todo |-> todo]
    BY DEF Create
  <1> HIDE DEF size, todo
  <1>4. op' \in CreateOp /\ op' # Idle
    BY <1>1, <1>2, <1>3, NoPtrsIs DEF CreateOp, Idle, Blocks
  <1>5. UNCHANGED <<bmap, slack, imap, inode, data, ents, handle, mounted>>
    BY DEF Create
  <1>6. TypeOK' /\ OpType'
    BY <1>4, <1>5 DEF TypeOK, OpType, CreateOp, Ptrs, Blocks, Inodes
  <1>7. OpSlots' /\ Keep'
    <2>1. Preparing' /\ Filling'
      BY <1>3, <1>4 DEF Preparing, Filling
    <2>2. op'.ptr = NoPtrs /\ op'.todo = todo /\ op'.at = 0 /\ op'.size = size
      BY <1>3
    <2>3. Count(op.size)' = Count(size)
      BY <2>2 DEF Count
    <2>4. Count(size) \in Nat
      BY <1>2, CountGrows
    <2> QED  BY <1>2, <2>1, <2>2, <2>3, <2>4, NoPtrsIs DEF OpSlots, Keep
  <1>8. Filled' /\ HandleAgrees'
    BY <1>5 DEF Filled, HandleAgrees, Count
  <1>9. Marked'
    BY <1>1, <1>3, <1>5 DEF Marked
  <1>10. OpHandle'
    BY <1>1, <1>3, <1>5 DEF OpHandle, Marked, Closed, Inodes, Root
  <1> QED  BY <1>6, <1>7, <1>8, <1>9, <1>10

\* The steps of a call that changes op.pc only, and marks inodes and blocks.
LEMMA MarkInodeShape == ShapeInv /\ MarkInode => ShapeInv'
  <1> SUFFICES ASSUME ShapeInv, MarkInode PROVE ShapeInv'
    OBVIOUS
  <1> USE DEF ShapeInv
  <1>1. op \in CreateOp /\ op # Idle /\ op.pc = "imap"
    BY OpIs DEF MarkInode, At, FileOp
  <1>2. op' = [op EXCEPT !.pc = "init"] /\ imap' = imap \cup {op.ino}
        /\ UNCHANGED <<bmap, slack, inode, data, ents, handle, mounted>>
    BY DEF MarkInode
  <1>3. op' \in CreateOp /\ op' # Idle /\ op'.pc = "init"
        /\ \A f \in {"call", "kind", "ino", "dir", "size", "ptr", "at", "todo"} : op'[f] = op[f]
    BY <1>1, <1>2 DEF CreateOp, Idle
  <1>4. TypeOK' /\ OpType'
    BY <1>1, <1>2, <1>3 DEF TypeOK, OpType, CreateOp, Ptrs, Blocks, Inodes
  <1>5. OpSlots' /\ Keep'
    BY <1>1, <1>2, <1>3 DEF OpSlots, Keep, Preparing, Filling, Count
  <1>6. Filled' /\ HandleAgrees'
    BY <1>2 DEF Filled, HandleAgrees, Count
  <1>7. Marked' /\ OpHandle'
    BY <1>1, <1>2, <1>3 DEF Marked, OpHandle, CreateOp
  <1> QED  BY <1>4, <1>5, <1>6, <1>7

LEMMA InitInodeShape == ShapeInv /\ InitInode => ShapeInv'
  <1> SUFFICES ASSUME ShapeInv, InitInode PROVE ShapeInv'
    OBVIOUS
  <1> USE DEF ShapeInv
  <1>1. op \in CreateOp /\ op # Idle /\ op.pc = "init"
    BY OpIs DEF InitInode, At, FileOp
  <1> DEFINE new == [kind |-> op.kind, size |-> op.size, ptr |-> NoPtrs]
  <1>2. /\ op' = [op EXCEPT !.pc = Fill(op.todo)]
        /\ inode' = [inode EXCEPT ![op.ino] = new]
        /\ UNCHANGED <<bmap, slack, imap, data, ents, handle, mounted>>
    BY DEF InitInode
  <1>3. op' \in CreateOp /\ op' # Idle /\ op'.pc = Fill(op.todo)
        /\ op'.call = op.call /\ op'.ino = op.ino /\ op'.dir = op.dir /\ op'.size = op.size
        /\ op'.ptr = op.ptr /\ op'.at = op.at /\ op'.todo = op.todo
    BY <1>1, <1>2 DEF CreateOp, Idle, Fill
  <1>4. new \in [kind : {"none", "file", "dir"}, size : 0 .. MaxFile, ptr : Ptrs]
        /\ op.ptr = NoPtrs /\ op.ino \in Inodes /\ op.call = "create"
    BY <1>1, NoPtrsIs DEF CreateOp, OpSlots, Preparing
  <1>5. TypeOK' /\ OpType'
    <2>1. op' # Idle => op'.blk \in Blocks /\ op'.ptr \in Ptrs
      BY <1>3 DEF CreateOp
    <2>2. inode' \in [Inodes -> [kind : {"none", "file", "dir"}, size : 0 .. MaxFile, ptr : Ptrs]]
      <3> HIDE DEF new
      <3> QED  BY <1>2, <1>4 DEF TypeOK
    <2> QED  BY <1>2, <1>3, <2>1, <2>2 DEF TypeOK, OpType, Ptrs, Blocks, Inodes, CreateOp
  <1>6. OpSlots' /\ Keep'
    <2>1. \A k \in Slots : inode'[op.ino].ptr[k] = 0
      BY <1>2, <1>4, NoPtrsIs DEF TypeOK
    <2>2. op'.pc \in {"mark", "zero"} => op'.todo > 0
      BY <1>1, <1>3 DEF Fill, CreateOp
    <2>3. ~Preparing'
      BY <1>3 DEF Preparing, Fill
    <2> QED  BY <1>1, <1>3, <2>1, <2>2, <2>3 DEF OpSlots, Keep, Filling, Count
  <1>7. Filled'
    <2>1. inode'[op.ino].ptr = NoPtrs
      BY <1>2, <1>4 DEF TypeOK
    <2>2. \A i \in Inodes : i # op.ino => inode'[i] = inode[i]
      BY <1>2 DEF TypeOK
    <2> QED  BY <2>1, <2>2, NoPtrsIs DEF Filled, Count
  <1>8. HandleAgrees'
    <2>1. \A h \in Handles : handle[h].ino # op.ino
      BY <1>1, <1>4 DEF OpHandle
    <2>2. \A i \in Inodes : i # op.ino => inode'[i] = inode[i]
      BY <1>2 DEF TypeOK
    <2>3. \A h \in Handles : handle[h] # Closed => handle[h].ino \in Inodes
      BY DEF TypeOK, Closed
    <2> QED  BY <1>2, <2>1, <2>2, <2>3 DEF HandleAgrees
  <1>9. Marked' /\ OpHandle'
    BY <1>1, <1>2, <1>3, <1>4 DEF Marked, OpHandle, Fill
  <1> QED  BY <1>5, <1>6, <1>7, <1>8, <1>9

LEMMA MarkBlockShape == ShapeInv /\ MarkBlock => ShapeInv'
  <1> SUFFICES ASSUME ShapeInv, MarkBlock PROVE ShapeInv'
    OBVIOUS
  <1> USE DEF ShapeInv
  <1>1. (op \in CreateOp \/ op \in FileOp) /\ op # Idle /\ op.pc = "mark" /\ FreeBlock \in Blocks
    BY OpIs, FreeBlockIs DEF MarkBlock, At
  <1>2. /\ op' = [op EXCEPT !.pc = "zero", !.blk = FreeBlock]
        /\ bmap' \subseteq bmap \cup {FreeBlock} /\ slack' \subseteq slack \cup {FreeBlock}
        /\ UNCHANGED <<imap, inode, data, ents, handle, mounted>>
    BY DEF MarkBlock
  <1>3. /\ op \in CreateOp => op' \in CreateOp
        /\ op \in FileOp => op' \in FileOp
    BY <1>1, <1>2 DEF CreateOp, FileOp
  <1>4. /\ op' # Idle /\ op'.pc = "zero"
        /\ op'.call = op.call /\ op'.ino = op.ino /\ op'.size = op.size
        /\ op'.ptr = op.ptr /\ op'.at = op.at /\ op'.todo = op.todo
        /\ op \in CreateOp => op'.dir = op.dir
        /\ op \in FileOp => op'.h = op.h /\ op'.n = op.n
    BY <1>1, <1>2 DEF CreateOp, FileOp, Idle
  <1>5. TypeOK' /\ OpType'
    <2>1. op'.blk \in Blocks /\ op'.ptr \in Ptrs
      BY <1>1, <1>3 DEF CreateOp, FileOp
    <2> QED  BY <1>1, <1>2, <1>3, <2>1 DEF TypeOK, OpType, Ptrs, Blocks, Inodes
  <1>6. OpSlots' /\ Keep'
    BY <1>1, <1>2, <1>4 DEF OpSlots, Keep, Preparing, Filling, Count
  <1>7. Filled' /\ HandleAgrees'
    BY <1>2 DEF Filled, HandleAgrees, Count
  <1>8. Marked' /\ OpHandle'
    BY <1>1, <1>2, <1>4 DEF Marked, OpHandle, CreateOp, FileOp
  <1> QED  BY <1>5, <1>6, <1>7, <1>8

LEMMA ZeroBlockShape == ShapeInv /\ ZeroBlock => ShapeInv'
  <1> SUFFICES ASSUME ShapeInv, ZeroBlock PROVE ShapeInv'
    OBVIOUS
  <1> USE DEF ShapeInv
  <1>1. (op \in CreateOp \/ op \in FileOp) /\ op # Idle /\ op.pc = "zero"
    BY OpIs DEF ZeroBlock, At
  <1>2. /\ op' = [op EXCEPT !.pc = Fill(op.todo - 1), !.todo = @ - 1,
                            !.at = @ + 1, !.ptr[op.at] = op.blk]
        /\ data' = Cleared(data, op.blk) /\ ents' = Cleared(ents, op.blk)
        /\ UNCHANGED <<bmap, slack, imap, inode, handle, mounted>>
    BY DEF ZeroBlock
  <1>3. /\ Filling /\ ~Preparing /\ op.todo \in Nat \ {0} /\ op.at \in Slots
        /\ op.blk \in Blocks /\ op.ptr \in Ptrs /\ op.ptr[op.at] = 0
        /\ op.at <= Count(op.size) /\ Count(op.size) \in Nat
    <2>1. op.todo \in Nat /\ op.at \in Nat /\ op.size \in Nat
      BY <1>1 DEF CreateOp, FileOp
    <2>2. Count(op.size) \in Nat
      BY <2>1, CountGrows
    <2> QED  BY <1>1, <2>1, <2>2 DEF OpSlots, Filling, Preparing, Slots, TypeOK
  <1>4. /\ op' # Idle /\ op'.pc = Fill(op.todo - 1)
        /\ op'.call = op.call /\ op'.ino = op.ino /\ op'.size = op.size /\ op'.blk = op.blk
        /\ op'.ptr = [op.ptr EXCEPT ![op.at] = op.blk]
        /\ op'.at = op.at + 1 /\ op'.todo = op.todo - 1
        /\ op \in CreateOp => op'.dir = op.dir
        /\ op \in FileOp => op'.h = op.h /\ op'.n = op.n
    BY <1>1, <1>2 DEF CreateOp, FileOp, Idle
  <1>5. op'.ptr \in Ptrs
    BY <1>3, <1>4 DEF Ptrs, Slots
  <1>6. /\ op \in CreateOp => op' \in CreateOp
        /\ op \in FileOp => op' \in FileOp
    <2>1. op' = [op EXCEPT !.pc = Fill(op.todo - 1), !.todo = op.todo - 1,
                           !.at = op.at + 1, !.ptr = op'.ptr]
      BY <1>1, <1>2, <1>4 DEF CreateOp, FileOp
    <2>2. Fill(op.todo - 1) \in {"mark", "inode"} /\ op.todo - 1 \in Nat /\ op.at + 1 \in Nat
      BY <1>3 DEF Fill, Slots
    <2> QED  BY <1>1, <1>5, <2>1, <2>2 DEF CreateOp, FileOp
  <1>7. /\ \A b \in Blocks : ents'[b] \in SUBSET ents[b]
        /\ data' \in [Blocks -> SUBSET (Inodes \cup {Super, Stale})]
        /\ ents' \in [Blocks -> SUBSET ((Names \cup {".", ".."}) \X Inodes)]
    BY <1>2, <1>3 DEF TypeOK, Cleared
  <1>8. TypeOK' /\ OpType'
    BY <1>1, <1>2, <1>3, <1>4, <1>5, <1>6, <1>7 DEF TypeOK, OpType, Ptrs, Blocks, Inodes
  <1>9. OpSlots'
    <2>1. \A k \in Slots : op'.ptr[k] = IF k = op.at THEN op.blk ELSE op.ptr[k]
      BY <1>3, <1>4 DEF Ptrs, Slots
    <2>2. op'.pc \in {"mark", "zero"} => op'.todo > 0
      BY <1>3, <1>4 DEF Fill
    <2>3. ~Preparing' /\ Count(op.size)' = Count(op.size)
      BY <1>4 DEF Preparing, Fill, Count
    <2>4. \A k \in Slots : k \in Nat
      BY DEF Slots
    <2> QED  BY <1>3, <1>4, <2>1, <2>2, <2>3, <2>4 DEF OpSlots
  <1>10. Keep'
    <2>1. \A k \in Slots : inode[op.ino].ptr[k] # 0 => op.ptr[k] = inode[op.ino].ptr[k] /\ k # op.at
      BY <1>3 DEF Keep
    <2>2. \A k \in Slots : k # op.at => op'.ptr[k] = op.ptr[k]
      BY <1>3, <1>4 DEF Ptrs, Slots
    <2> QED  BY <1>2, <1>4, <2>1, <2>2 DEF Keep
  <1>11. Filled' /\ HandleAgrees'
    BY <1>2 DEF Filled, HandleAgrees, Count
  <1>12. Marked' /\ OpHandle'
    <2>1. Marked'
      BY <1>1, <1>2, <1>4, <1>7 DEF Marked, Fill, CreateOp, FileOp
    <2>2. OpHandle'
      BY <1>1, <1>2, <1>4 DEF OpHandle, Fill, CreateOp, FileOp
    <2> QED  BY <2>1, <2>2
  <1> QED  BY <1>8, <1>9, <1>10, <1>11, <1>12

\* The write of an inode leaves every handle with blocks the inode has.
LEMMA WriteInodeShape == ShapeInv /\ WriteInode => ShapeInv'
  <1> SUFFICES ASSUME ShapeInv, WriteInode PROVE ShapeInv'
    OBVIOUS
  <1> USE DEF ShapeInv
  <1>1. (op \in CreateOp \/ op \in FileOp) /\ op # Idle /\ op.pc = "inode"
    BY OpIs DEF WriteInode, At
  <1>2. /\ op.ino \in Inodes /\ op.size \in 0 .. MaxFile /\ op.ptr \in Ptrs
        /\ \A k \in Slots : op.ptr[k] # 0 => k <= Count(op.size)
        /\ \A k \in Slots : inode[op.ino].ptr[k] # 0 => op.ptr[k] = inode[op.ino].ptr[k]
        /\ Count(op.size) \in Nat
    <2>1. op.ino \in Inodes /\ op.size \in Nat /\ op.ptr \in Ptrs
      BY <1>1 DEF CreateOp, FileOp
    <2>2. Filling /\ ~Preparing
      BY <1>1 DEF Filling, Preparing
    <2> QED  BY <1>1, <2>1, <2>2, CountGrows DEF OpSlots, Keep
  <1>3. /\ inode' = [inode EXCEPT ![op.ino].ptr = op.ptr, ![op.ino].size = op.size]
        /\ UNCHANGED <<bmap, slack, imap, data, ents, mounted>>
    BY DEF WriteInode
  <1>4. /\ inode'[op.ino].ptr = op.ptr /\ inode'[op.ino].size = op.size
        /\ \A i \in Inodes : i # op.ino => inode'[i] = inode[i]
        /\ inode' \in [Inodes -> [kind : {"none", "file", "dir"}, size : 0 .. MaxFile, ptr : Ptrs]]
    BY <1>2, <1>3 DEF TypeOK
  <1>5. /\ op.call = "create" => op \in CreateOp /\ handle' = handle /\ op' = [op EXCEPT !.pc = "link"]
        /\ op.call = "write" =>
             /\ op \in FileOp /\ op' = [op EXCEPT !.pc = "data"]
             /\ handle' = [handle EXCEPT ![op.h].size = op.size, ![op.h].ptr = op.ptr]
        /\ op.call = "truncate" =>
             /\ op \in FileOp /\ op' = Idle
             /\ handle' = [handle EXCEPT ![op.h].size = op.size, ![op.h].ptr = op.ptr]
        /\ op.call \in {"create", "write", "truncate"}
    BY <1>1 DEF WriteInode, CreateOp, FileOp
  <1> DEFINE HandleOf == [ino : Inodes, size : 0 .. MaxFile, ptr : Ptrs, head : 0 .. MaxSize]
  <1>6. ASSUME op.call # "create"
        PROVE  /\ op.h \in Handles /\ handle[op.h] \in HandleOf /\ handle[op.h].ino = op.ino
               /\ handle' \in [Handles -> {Closed} \cup HandleOf]
               /\ handle'[op.h].ptr = op.ptr /\ handle'[op.h].ino = op.ino
               /\ handle'[op.h] # Closed /\ handle'[op.h].head = handle[op.h].head
               /\ \A h \in Handles : h # op.h => handle'[h] = handle[h]
    <2>1. op.h \in Handles /\ handle[op.h] \in HandleOf /\ handle[op.h].ino = op.ino
      BY <1>1, <1>5, <1>6 DEF FileOp, OpHandle, TypeOK
    <2>2. handle' = [handle EXCEPT ![op.h].size = op.size, ![op.h].ptr = op.ptr]
      BY <1>5, <1>6
    <2>3. handle'[op.h] \in HandleOf /\ handle'[op.h].ptr = op.ptr /\ handle'[op.h].ino = op.ino
          /\ handle'[op.h].head = handle[op.h].head
      BY <1>2, <2>1, <2>2 DEF TypeOK
    <2>4. handle'[op.h] # Closed
      BY <1>2, <2>3 DEF Closed, Inodes, Root
    <2>5. handle' \in [Handles -> {Closed} \cup HandleOf]
      <3> HIDE DEF HandleOf
      <3>1. handle \in [Handles -> {Closed} \cup HandleOf]
        BY DEF TypeOK, HandleOf
      <3> QED  BY <2>1, <2>2, <2>3, <3>1
    <2> QED  BY <2>1, <2>2, <2>3, <2>4, <2>5 DEF TypeOK
  <1>7. /\ op.call = "create" => op' \in CreateOp /\ op'.pc = "link" /\ op' # Idle
             /\ op'.call = op.call /\ op'.ino = op.ino /\ op'.dir = op.dir
        /\ op.call = "write" => op' \in FileOp /\ op'.pc = "data" /\ op' # Idle
             /\ op'.call = op.call /\ op'.ino = op.ino /\ op'.h = op.h /\ op'.n = op.n
    BY <1>1, <1>5 DEF CreateOp, FileOp, Idle
  <1>8. TypeOK' /\ OpType'
    <2>1. op' # Idle => op'.blk \in Blocks /\ op'.ptr \in Ptrs
      BY <1>5, <1>7 DEF CreateOp, FileOp
    <2>2. handle' \in [Handles -> {Closed} \cup HandleOf]
      BY <1>5, <1>6 DEF TypeOK
    <2>3. OpType'
      BY <1>5, <1>7 DEF OpType, CreateOp, FileOp, Ptrs, Blocks, Inodes, Idle
    <2> QED  BY <1>3, <1>4, <2>1, <2>2, <2>3 DEF TypeOK, Ptrs, Blocks, Inodes
  <1>9. OpSlots' /\ Keep'
    <2>1. ~Filling' /\ ~Preparing'
      BY <1>5, <1>7 DEF Filling, Preparing
    <2> QED  BY <2>1 DEF OpSlots, Keep
  <1>10. Filled'
    <2>1. \A k \in Slots : k > Count(op.size) => op.ptr[k] = 0
      BY <1>2 DEF Slots
    <2> QED  BY <1>4, <2>1 DEF Filled, Count
  <1>11. HandleAgrees'
    <2>1. ASSUME NEW h \in Handles, handle'[h] # Closed, NEW k \in Slots, handle'[h].ptr[k] # 0
          PROVE  inode'[handle'[h].ino].ptr[k] = handle'[h].ptr[k]
      <3>1. CASE op.call # "create" /\ h = op.h
        BY <1>4, <1>6, <3>1
      <3>2. CASE ~(op.call # "create" /\ h = op.h)
        <4>1. handle'[h] = handle[h]
          BY <1>5, <1>6, <3>2
        <4>2. inode[handle[h].ino].ptr[k] = handle[h].ptr[k] /\ handle[h].ino \in Inodes
          BY <2>1, <4>1 DEF HandleAgrees, TypeOK, Slots
        <4> QED  BY <1>2, <1>4, <2>1, <4>1, <4>2
      <3> QED  BY <3>1, <3>2
    <2> QED  BY <2>1 DEF HandleAgrees, Slots
  <1>12. Marked'
    BY <1>1, <1>3, <1>5, <1>6, <1>7 DEF Marked
  <1>13. OpHandle'
    BY <1>1, <1>5, <1>6, <1>7 DEF OpHandle
  <1> QED  BY <1>8, <1>9, <1>10, <1>11, <1>12, <1>13

\* An entry is made with a name and an inode that is marked.
LEMMA EntryIs ==
    ASSUME TypeOK, Marked, NEW d \in Inodes, NEW n \in Names \cup {".", ".."},
           NEW i \in Inodes \cap imap, NEW fresh \in BOOLEAN, MakeEntry(d, n, i, fresh)
    PROVE  /\ inode[d].ptr[0] \in Blocks
           /\ ents' \in [Blocks -> SUBSET ((Names \cup {".", ".."}) \X Inodes)]
           /\ data' \in [Blocks -> SUBSET (Inodes \cup {Super, Stale})]
           /\ \A b \in Blocks : \A e \in ents'[b] : e[2] \in imap
           /\ UNCHANGED <<bmap, slack, imap, inode, handle, mounted>>
  <1> DEFINE b == inode[d].ptr[0]
             old == IF fresh THEN {} ELSE ents[b]
  <1>1. b \in Blocks
    BY SMTT(20) DEF TypeOK, Ptrs
  <1>2. ents' = [ents EXCEPT ![b] = old \cup {<<n, i>>}] /\ data' = [data EXCEPT ![b] = data[b] \cup {d}]
        /\ UNCHANGED <<bmap, slack, imap, inode, handle, mounted>>
    BY DEF MakeEntry
  <1>3. old \subseteq ents[b] /\ <<n, i>> \in (Names \cup {".", ".."}) \X Inodes
    OBVIOUS
  <1> HIDE DEF b, old
  <1>4. data' \in [Blocks -> SUBSET (Inodes \cup {Super, Stale})]
    BY <1>1, <1>2 DEF TypeOK
  <1>5. ents' \in [Blocks -> SUBSET ((Names \cup {".", ".."}) \X Inodes)]
    BY <1>1, <1>2, <1>3 DEF TypeOK
  <1>6. ASSUME NEW c \in Blocks, NEW e \in ents'[c] PROVE e[2] \in imap
    <2>1. e \in ents[c] \/ e = <<n, i>>
      BY <1>1, <1>2, <1>3, <1>6 DEF TypeOK
    <2> QED  BY <2>1 DEF Marked
  <1> QED  BY <1>1, <1>2, <1>4, <1>5, <1>6 DEF b

LEMMA LinkShape == ShapeInv /\ (Link \/ LinkSelf \/ LinkParent) => ShapeInv'
  <1> SUFFICES ASSUME ShapeInv, Link \/ LinkSelf \/ LinkParent PROVE ShapeInv'
    OBVIOUS
  <1> USE DEF ShapeInv
  <1>1. op \in CreateOp /\ op # Idle /\ op.pc \in {"link", "dot", "dotdot"}
    BY OpIs DEF Link, LinkSelf, LinkParent, At, FileOp
  <1>2. /\ op.dir \in Inodes \cap imap /\ op.ino \in Inodes \cap imap /\ op.name \in Names
        /\ op.call = "create"
    BY <1>1 DEF Marked, CreateOp
  <1>3. /\ ents' \in [Blocks -> SUBSET ((Names \cup {".", ".."}) \X Inodes)]
        /\ data' \in [Blocks -> SUBSET (Inodes \cup {Super, Stale})]
        /\ \A b \in Blocks : \A e \in ents'[b] : e[2] \in imap
        /\ UNCHANGED <<bmap, slack, imap, inode, handle, mounted>>
    BY <1>2, EntryIs DEF Link, LinkSelf, LinkParent
  <1>4. \/ op' = Idle
        \/ /\ op' \in CreateOp /\ op' # Idle /\ op'.pc \in {"dot", "dotdot"}
           /\ op'.call = op.call /\ op'.ino = op.ino /\ op'.dir = op.dir
    <2>1. op' = Idle \/ \E p \in {"dot", "dotdot"} : op' = [op EXCEPT !.pc = p]
      BY DEF Link, LinkSelf, LinkParent
    <2>2. ASSUME NEW p \in {"dot", "dotdot"}, NEW o, o = [op EXCEPT !.pc = p]
          PROVE  /\ o \in CreateOp /\ o.pc = p
                 /\ o.call = op.call /\ o.ino = op.ino /\ o.dir = op.dir
      BY ONLY <1>1, <2>2 DEF CreateOp
    <2>3. ASSUME NEW o \in CreateOp PROVE o # Idle
      BY ONLY <2>3 DEF CreateOp, Idle
    <2> QED  BY <2>1, <2>2, <2>3
  <1>5. TypeOK' /\ OpType'
    <2>1. op' # Idle => op'.blk \in Blocks /\ op'.ptr \in Ptrs
      BY <1>4 DEF CreateOp
    <2> QED  BY <1>3, <1>4, <2>1 DEF TypeOK, OpType, CreateOp, Ptrs, Blocks, Inodes
  <1>6. OpSlots' /\ Keep'
    BY <1>4 DEF OpSlots, Keep, Filling, Preparing
  <1>7. Filled' /\ HandleAgrees'
    BY <1>3 DEF Filled, HandleAgrees, Count
  <1>8. Marked'
    BY <1>2, <1>3, <1>4 DEF Marked
  <1>9. OpHandle'
    BY <1>1, <1>2, <1>3, <1>4 DEF OpHandle
  <1> QED  BY <1>5, <1>6, <1>7, <1>8, <1>9

\* While no call is in progress, a step that changes the handles only.
LEMMA HandleShape ==
    ASSUME ShapeInv, \/ \E h \in Handles, i \in Inodes : Open(h, i)
                     \/ \E h \in Handles : Close(h)
                     \/ \E h \in Handles, head \in 0 .. MaxSize : Seek(h, head)
    PROVE  ShapeInv'
  <1> USE DEF ShapeInv
  <1> DEFINE HandleOf == [ino : Inodes, size : 0 .. MaxFile, ptr : Ptrs, head : 0 .. MaxSize]
  <1>1. op = Idle /\ UNCHANGED <<bmap, slack, imap, inode, data, ents, op, mounted>>
    BY DEF Open, Close, Seek, disk
  <1>2. /\ handle' \in [Handles -> {Closed} \cup HandleOf]
        /\ \A g \in Handles : handle'[g] # Closed =>
             handle'[g].ino \in imap
             /\ \A k \in Slots : handle'[g].ptr[k] # 0 =>
                  inode[handle'[g].ino].ptr[k] = handle'[g].ptr[k]
    <2>1. CASE \E g \in Handles, i \in Inodes : Open(g, i)
      <3>1. PICK g \in Handles, i \in Inodes : Open(g, i)
        BY <2>1
      <3> DEFINE new == [ino |-> i, size |-> inode[i].size, ptr |-> inode[i].ptr, head |-> 0]
      <3>2. new \in HandleOf /\ i \in imap
        BY <3>1, PathsMarked DEF Open, TypeOK
      <3>3. handle' = [handle EXCEPT ![g] = new]
        BY <3>1 DEF Open
      <3>4. \A f \in Handles : handle'[f] = IF f = g THEN new ELSE handle[f]
        BY <3>3 DEF TypeOK
      <3>5. handle' \in [Handles -> {Closed} \cup HandleOf]
        <4> HIDE DEF new
        <4> QED  BY <3>2, <3>3 DEF TypeOK
      <3>6. new.ino = i /\ \A k \in Slots : inode[i].ptr[k] = new.ptr[k]
        OBVIOUS
      <3> HIDE DEF new
      <3> QED  BY <3>2, <3>4, <3>5, <3>6 DEF Marked, HandleAgrees, Slots
    <2>2. CASE \E g \in Handles : Close(g)
      <3>1. PICK g \in Handles : handle' = [handle EXCEPT ![g] = Closed]
        BY <2>2 DEF Close
      <3>2. \A f \in Handles : handle'[f] = IF f = g THEN Closed ELSE handle[f]
        BY <3>1 DEF TypeOK
      <3> QED  BY <3>1, <3>2 DEF Marked, HandleAgrees, Slots, TypeOK
    <2>3. CASE \E g \in Handles, head \in 0 .. MaxSize : Seek(g, head)
      <3>1. PICK g \in Handles, head \in 0 .. MaxSize : Seek(g, head)
        BY <2>3
      <3>2. handle[g] \in HandleOf /\ handle[g] # Closed /\ handle' = [handle EXCEPT ![g].head = head]
        BY <3>1 DEF Seek, TypeOK
      <3> DEFINE new == [handle[g] EXCEPT !.head = head]
      <3>3. new \in HandleOf /\ new.ino = handle[g].ino /\ new.ptr = handle[g].ptr
        BY <3>2
      <3>4. \A f \in Handles : handle'[f] = IF f = g THEN new ELSE handle[f]
        BY <3>2 DEF TypeOK
      <3>5. handle' \in [Handles -> {Closed} \cup HandleOf]
        <4>1. handle \in [Handles -> {Closed} \cup HandleOf]
          BY DEF TypeOK
        <4> HIDE DEF new, HandleOf
        <4> QED  BY <3>2, <3>3, <3>4, <4>1
      <3> HIDE DEF new
      <3> QED  BY <3>2, <3>3, <3>4, <3>5 DEF Marked, HandleAgrees, Slots
    <2> QED  BY <2>1, <2>2, <2>3
  <1>3. TypeOK' /\ OpType'
    BY <1>1, <1>2 DEF TypeOK, OpType, CreateOp, FileOp, Ptrs, Blocks, Inodes
  <1>4. OpSlots' /\ Keep' /\ Filled'
    BY <1>1 DEF OpSlots, Keep, Filling, Preparing, Filled, Count
  <1>5. Marked' /\ OpHandle' /\ HandleAgrees'
    BY <1>1, <1>2 DEF Marked, OpHandle, HandleAgrees, Slots
  <1> QED  BY <1>3, <1>4, <1>5

\* A call that extends a file starts from what the inode on disk has.
LEMMA GrowShape ==
    ASSUME ShapeInv, op = Idle, NEW h \in Handles, handle[h] # Closed,
           NEW call \in {"write", "truncate"}, NEW amount \in Nat, NEW n \in Nat,
           call = "write" => n >= 1 /\ handle[h].head + n <= MaxSize,
           Grow(h, call, amount, n), UNCHANGED <<disk, slack, mounted>>
    PROVE  ShapeInv'
  <1> USE DEF ShapeInv
  <1> DEFINE HandleOf == [ino : Inodes, size : 0 .. MaxFile, ptr : Ptrs, head : 0 .. MaxSize]
             i    == handle[h].ino
             full == Count(inode[i].size) >= Direct
             ext  == Extension(i, amount)
             rec  == [call |-> call, ino |-> i, h |-> h, n |-> n, blk |-> 0,
                      pc |-> IF full THEN "data" ELSE Fill(ext.todo),
                      size |-> ext.size, ptr |-> ext.ptr,
                      at |-> ext.at, todo |-> ext.todo]
             hand == IF full THEN [handle[h] EXCEPT !.size = inode[i].size, !.ptr = inode[i].ptr]
                     ELSE handle[h]
  <1>1. UNCHANGED <<bmap, slack, imap, inode, data, ents, mounted>>
    BY DEF disk
  <1>2. handle[h] \in HandleOf /\ i \in Inodes \cap imap /\ i # 0
        /\ inode[i].size \in 0 .. MaxFile /\ inode[i].ptr \in Ptrs
    BY SMTT(20) DEF TypeOK, Marked, Inodes, Root
  <1>3. /\ ext.size \in Nat /\ ext.at \in Nat /\ ext.todo \in Nat /\ ext.ptr = inode[i].ptr
        /\ \A k \in Slots : k >= ext.at => ext.ptr[k] = 0
        /\ \A k \in Slots : ext.ptr[k] # 0 => k <= Count(ext.size)
        /\ ext.todo > 0 => ext.at + ext.todo <= Direct /\ ext.at + ext.todo <= Count(ext.size) + 1
    <2> HIDE DEF i
    <2> QED  BY <1>2, ExtensionIs
  <1>4. /\ full \/ ext.size <= MaxFile
        /\ op' = IF full /\ call = "truncate" THEN Idle ELSE rec
        /\ handle' = [handle EXCEPT ![h].size = IF full THEN inode[i].size ELSE @,
                                    ![h].ptr = IF full THEN inode[i].ptr ELSE @]
    BY DEF Grow
  <1> HIDE DEF i, full, ext
  <1>5. hand \in HandleOf /\ hand.ino = i /\ hand.head = handle[h].head /\ hand # Closed
        /\ \A k \in Slots : hand.ptr[k] # 0 => inode[i].ptr[k] = hand.ptr[k]
    <2>1. hand \in HandleOf /\ hand.ino = i /\ hand.head = handle[h].head
          /\ (full => hand.ptr = inode[i].ptr) /\ (~full => hand = handle[h])
      BY <1>2 DEF i
    <2>2. hand # Closed
      BY <1>2, <2>1 DEF Closed
    <2>3. \A k \in Slots : handle[h].ptr[k] # 0 => inode[i].ptr[k] = handle[h].ptr[k]
      BY DEF HandleAgrees, i, Slots
    <2> HIDE DEF hand
    <2> QED  BY <2>1, <2>2, <2>3
  <1>6. /\ handle' = [handle EXCEPT ![h] = hand]
        /\ handle' \in [Handles -> {Closed} \cup HandleOf]
    <2>1. handle \in [Handles -> {Closed} \cup HandleOf]
      BY DEF TypeOK
    <2>2. handle' = [handle EXCEPT ![h] = hand]
      BY <1>2, <1>4, <2>1
    <2> HIDE DEF hand, HandleOf
    <2> QED  BY <1>5, <2>1, <2>2
  <1> HIDE DEF hand
  <1>7. \A g \in Handles : handle'[g] = IF g = h THEN hand ELSE handle[g]
    BY <1>6 DEF TypeOK
  <1>8. rec \in FileOp /\ rec # Idle /\ rec.ino = i /\ rec.h = h /\ rec.n = n
        /\ rec.call = call /\ rec.pc = (IF full THEN "data" ELSE Fill(ext.todo))
        /\ rec.size = ext.size /\ rec.ptr = ext.ptr /\ rec.at = ext.at /\ rec.todo = ext.todo
    <2>1. Fill(ext.todo) \in {"mark", "inode"} /\ 0 \in Blocks
      BY DEF Fill, Blocks
    <2> QED  BY <1>2, <1>3, <2>1 DEF FileOp, Idle
  <1> HIDE DEF rec
  <1>9. TypeOK' /\ OpType'
    <2>1. OpType'
      BY <1>4, <1>8 DEF OpType, FileOp, Ptrs, Blocks, Inodes
    <2>2. op' # Idle => op'.blk \in Blocks /\ op'.ptr \in Ptrs
      BY <1>4, <1>8 DEF FileOp
    <2> QED  BY <1>1, <1>6, <2>1, <2>2 DEF TypeOK, Ptrs, Blocks, Inodes
  <1>10. OpSlots' /\ Keep'
    <2>1. CASE op' = Idle
      BY <2>1 DEF OpSlots, Keep, Filling, Preparing
    <2>2. CASE op' = rec
      <3>1. ~Preparing'
        BY <1>8, <2>2 DEF Preparing, Fill
      <3>2. CASE full
        BY <1>8, <2>2, <3>1, <3>2 DEF OpSlots, Keep, Filling
      <3>3. CASE ~full
        <4>1. op'.pc \in {"mark", "zero"} => op'.todo > 0
          BY <1>3, <1>8, <2>2, <3>3 DEF Fill
        <4>2. Count(op.size)' = Count(ext.size)
          BY <1>8, <2>2 DEF Count
        <4>3. op'.ino = i /\ op'.ptr = inode[i].ptr /\ inode' = inode
          BY <1>1, <1>3, <1>8, <2>2
        <4>4. Keep'
          BY <4>3 DEF Keep
        <4> QED  BY <1>3, <1>4, <1>8, <2>2, <3>1, <3>3, <4>1, <4>2, <4>4 DEF OpSlots
      <3> QED  BY <3>2, <3>3
    <2> QED  BY <1>4, <2>1, <2>2
  <1>11. Filled'
    BY <1>1 DEF Filled, Count
  <1>12. HandleAgrees'
    BY <1>1, <1>5, <1>7 DEF HandleAgrees, Slots
  <1>13. Marked'
    <2>1. \A g \in Handles : handle'[g] # Closed => handle'[g].ino \in imap
      BY <1>2, <1>5, <1>7 DEF Marked
    <2>2. op' # Idle => op'.ino \in imap /\ op'.call # "create"
      BY <1>2, <1>4, <1>8
    <2> QED  BY <1>1, <2>1, <2>2 DEF Marked
  <1>14. OpHandle'
    <2>1. op' # Idle => op' = rec /\ (call = "truncate" => ~full)
      BY <1>4
    <2>2. call = "truncate" => (op' # Idle => op'.pc # "data")
      BY <1>8, <2>1 DEF Fill
    <2> QED  BY <1>5, <1>7, <1>8, <2>1, <2>2 DEF OpHandle
  <1> QED  BY <1>9, <1>10, <1>11, <1>12, <1>13, <1>14

\* A write that needs no block goes to its data at once.
LEMMA WriteShape ==
    ASSUME ShapeInv, NEW h \in Handles, NEW n \in 1 .. MaxSize, Write(h, n)
    PROVE  ShapeInv'
  <1> USE DEF ShapeInv
  <1> DEFINE HandleOf == [ino : Inodes, size : 0 .. MaxFile, ptr : Ptrs, head : 0 .. MaxSize]
             f == handle[h]
  <1>1. op = Idle /\ handle[h] # Closed /\ f.head + n <= MaxSize /\ UNCHANGED <<disk, slack, mounted>>
        /\ f \in HandleOf
    BY DEF Write, TypeOK
  <1>2. CASE f.head + n >= f.size
    <2>1. Grow(h, "write", f.head + n - f.size, n) /\ f.head + n - f.size \in Nat /\ n \in Nat /\ n >= 1
      BY <1>1, <1>2 DEF Write
    <2> QED  BY <1>1, <2>1, GrowShape
  <1>3. CASE ~(f.head + n >= f.size)
    <2> DEFINE rec == [call |-> "write", ino |-> f.ino, h |-> h, n |-> n,
                       blk |-> 0, pc |-> "data", size |-> f.size,
                       ptr |-> f.ptr, at |-> 0, todo |-> 0]
    <2>1. op' = rec /\ handle' = handle /\ UNCHANGED <<bmap, slack, imap, inode, data, ents, mounted>>
      BY <1>1, <1>3 DEF Write, disk
    <2>2. rec \in FileOp /\ rec # Idle
      BY <1>1 DEF FileOp, Idle, Blocks
    <2>3. TypeOK' /\ OpType'
      BY <2>1, <2>2 DEF TypeOK, OpType, FileOp, Ptrs, Blocks, Inodes
    <2>4. OpSlots' /\ Keep' /\ Filled' /\ HandleAgrees'
      BY <2>1 DEF OpSlots, Keep, Filled, HandleAgrees, Filling, Preparing, Count
    <2>5. Marked' /\ OpHandle'
      BY <1>1, <2>1, <2>2 DEF Marked, OpHandle
    <2> QED  BY <2>3, <2>4, <2>5
  <1> QED  BY <1>2, <1>3

LEMMA TruncateShape ==
    ASSUME ShapeInv, NEW h \in Handles, NEW len \in 1 .. MaxSize, Truncate(h, len)
    PROVE  ShapeInv'
  <1>1. handle[h].size \in Nat /\ op = Idle /\ handle[h] # Closed
    BY DEF Truncate, ShapeInv, TypeOK
  <1>2. Grow(h, "truncate", handle[h].size + len, 0) /\ UNCHANGED <<disk, slack, mounted>>
    BY DEF Truncate
  <1> QED  BY <1>1, <1>2, GrowShape

\* A write of data goes to a block of the disk, through a slot of the handle.
LEMMA WriteDataIs ==
    ASSUME ShapeInv, WriteData
    PROVE  LET f    == handle[op.h]
               from == f.head % BS
               len  == Min({BS - from, op.n})
               k    == f.head \div BS
           IN  /\ op \in FileOp /\ op # Idle /\ op.call = "write" /\ op.pc = "data"
               /\ k \in Slots /\ f.ptr[k] \in Blocks /\ len \in 1 .. op.n
               /\ f \in [ino : Inodes, size : 0 .. MaxFile, ptr : Ptrs, head : 0 .. MaxSize]
               /\ f.ino = op.ino /\ f.head + op.n <= MaxSize
  <1> USE DEF ShapeInv
  <1> DEFINE f    == handle[op.h]
             from == f.head % BS
             k    == f.head \div BS
  <1>1. op \in FileOp /\ op # Idle /\ op.pc = "data" /\ op.call = "write"
    BY OpIs DEF WriteData, At, CreateOp, FileOp, OpHandle
  <1>2. /\ f \in [ino : Inodes, size : 0 .. MaxFile, ptr : Ptrs, head : 0 .. MaxSize]
        /\ f.ino = op.ino /\ f.head + op.n <= MaxSize /\ op.n \in Nat \ {0}
    BY <1>1 DEF OpHandle, TypeOK, FileOp
  <1>3. f.head \in Nat /\ f.head < Direct * BS
    <2>1. f.head \in Nat /\ f.head < MaxSize
      <3>1. f.head \in Nat /\ op.n \in Nat \ {0} /\ f.head + op.n <= MaxSize /\ MaxSize \in Nat
        BY <1>2
      <3> HIDE DEF f
      <3> QED  BY ONLY <3>1
    <2>2. MaxSize <= Direct * BS /\ MaxSize \in Nat /\ Direct * BS \in Nat
      OBVIOUS
    <2> HIDE DEF f
    <2> QED  BY <2>1, <2>2
  <1>4. k \in Slots
    <2> HIDE DEF f
    <2> QED  BY <1>3, SlotOf
  <1>5. from \in 0 .. BS - 1
    <2> HIDE DEF f
    <2> QED  BY <1>3
  <1>6. Min({BS - from, op.n}) = IF BS - from <= op.n THEN BS - from ELSE op.n
    <2> HIDE DEF f, from
    <2> QED  BY <1>2, <1>5, MinOfTwo
  <1>7. f.ptr[k] \in Blocks
    BY <1>2, <1>4 DEF Ptrs, Slots
  <1> HIDE DEF from, k
  <1>8. Min({BS - from, op.n}) \in 1 .. op.n
    BY <1>2, <1>5, <1>6
  <1> QED  BY <1>1, <1>2, <1>4, <1>7, <1>8 DEF from, k

LEMMA WriteDataShape == ShapeInv /\ WriteData => ShapeInv'
  <1> SUFFICES ASSUME ShapeInv, WriteData PROVE ShapeInv'
    OBVIOUS
  <1> USE DEF ShapeInv
  <1> DEFINE HandleOf == [ino : Inodes, size : 0 .. MaxFile, ptr : Ptrs, head : 0 .. MaxSize]
             f    == handle[op.h]
             from == f.head % BS
             len  == Min({BS - from, op.n})
             b    == f.ptr[f.head \div BS]
             old  == IF len = BS THEN {}
                     ELSE IF from + len = BS THEN data[b] \ {Super} ELSE data[b]
  <1>1. /\ op \in FileOp /\ op # Idle /\ op.call = "write" /\ op.pc = "data"
        /\ b \in Blocks /\ len \in 1 .. op.n /\ f \in HandleOf
        /\ f.ino = op.ino /\ f.head + op.n <= MaxSize
    BY WriteDataIs
  <1>2. /\ data' = [data EXCEPT ![b] = old \cup {f.ino}]
        /\ ents' = [ents EXCEPT ![b] = {}]
        /\ handle' = [handle EXCEPT ![op.h].head = @ + len]
        /\ op' = IF len = op.n THEN Idle ELSE [op EXCEPT !.n = @ - len]
        /\ UNCHANGED <<bmap, slack, imap, inode, mounted>>
    BY DEF WriteData
  <1>3. old \subseteq data[b]
    OBVIOUS
  <1> DEFINE hand == [f EXCEPT !.head = @ + len]
  <1> HIDE DEF b, len, old
  <1>4. op.h \in Handles /\ op.n \in Nat
    BY <1>1 DEF FileOp
  <1>5. hand \in HandleOf /\ hand.ino = f.ino /\ hand.ptr = f.ptr /\ hand.head = f.head + len
    BY <1>1, <1>4
  <1>6. /\ handle' = [handle EXCEPT ![op.h] = hand]
        /\ handle' \in [Handles -> {Closed} \cup HandleOf]
    <2>1. handle \in [Handles -> {Closed} \cup HandleOf]
      BY DEF TypeOK
    <2>2. handle' = [handle EXCEPT ![op.h] = hand]
      BY <1>1, <1>2, <1>4, <2>1
    <2> HIDE DEF hand, HandleOf
    <2> QED  BY <1>4, <1>5, <2>1, <2>2
  <1> HIDE DEF hand, f
  <1>7. \A g \in Handles : handle'[g] = IF g = op.h THEN hand ELSE handle[g]
    BY <1>4, <1>6 DEF TypeOK
  <1>8. op' # Idle => /\ op' \in FileOp /\ op'.call = "write" /\ op'.pc = "data"
                      /\ op'.ino = op.ino /\ op'.h = op.h /\ op'.n = op.n - len /\ op'.n >= 1
    <2>1. len \in Nat /\ (len # op.n => op.n - len \in Nat \ {0})
      <3>1. len \in 1 .. op.n
        BY <1>1
      <3> QED  BY ONLY <1>4, <3>1
    <2>2. op' # Idle => len # op.n /\ op' = [op EXCEPT !.n = op.n - len]
      BY <1>1, <1>2 DEF FileOp
    <2> QED  BY <1>1, <2>1, <2>2 DEF FileOp
  <1>9. hand # Closed
    BY <1>1, <1>5 DEF Closed, Inodes, Root
  <1>10. /\ data' \in [Blocks -> SUBSET (Inodes \cup {Super, Stale})]
         /\ ents' \in [Blocks -> SUBSET ((Names \cup {".", ".."}) \X Inodes)]
         /\ \A c \in Blocks : ents'[c] \in SUBSET ents[c]
    <2>1. data' \in [Blocks -> SUBSET (Inodes \cup {Super, Stale})]
      BY <1>1, <1>2, <1>3 DEF TypeOK
    <2>2. ents' \in [Blocks -> SUBSET ((Names \cup {".", ".."}) \X Inodes)]
      BY <1>1, <1>2 DEF TypeOK
    <2> QED  BY <1>1, <1>2, <2>1, <2>2 DEF TypeOK
  <1>11. TypeOK' /\ OpType'
    <2>1. OpType'
      BY <1>8 DEF OpType, FileOp, Ptrs, Blocks, Inodes
    <2>2. op' # Idle => op'.blk \in Blocks /\ op'.ptr \in Ptrs
      BY <1>8 DEF FileOp
    <2> QED  BY <1>2, <1>6, <1>10, <2>1, <2>2 DEF TypeOK, Ptrs, Blocks, Inodes
  <1>12. OpSlots' /\ Keep'
    <2>1. ~Filling' /\ ~Preparing'
      BY <1>8 DEF Filling, Preparing
    <2> QED  BY <2>1 DEF OpSlots, Keep
  <1>13. Filled'
    BY <1>2 DEF Filled, Count
  <1>14. HandleAgrees'
    <2>1. handle[op.h] # Closed
      BY <1>1 DEF OpHandle
    <2> QED  BY <1>2, <1>4, <1>5, <1>7, <2>1 DEF HandleAgrees, Slots, f
  <1>15. Marked'
    <2>1. op.ino \in imap
      BY <1>1 DEF Marked
    <2>2. \A g \in Handles : handle'[g] # Closed => handle'[g].ino \in imap
      BY <1>1, <1>5, <1>7, <2>1 DEF Marked
    <2> QED  BY <1>2, <1>8, <1>10, <2>1, <2>2 DEF Marked
  <1>16. OpHandle'
    <2>1. hand.head \in Nat /\ f.head \in Nat /\ hand.head + (op.n - len) <= MaxSize
      BY <1>1, <1>4, <1>5
    <2>2. op' # Idle => handle'[op'.h] = hand
      BY <1>4, <1>7, <1>8
    <2> QED  BY <1>1, <1>5, <1>8, <1>9, <2>1, <2>2 DEF OpHandle
  <1> QED  BY <1>11, <1>12, <1>13, <1>14, <1>15, <1>16

LEMMA CrashShape == ShapeInv /\ Crash => ShapeInv'
  <1> SUFFICES ASSUME ShapeInv, Crash PROVE ShapeInv'
    OBVIOUS
  <1> USE DEF ShapeInv
  <1>1. /\ op' = Idle /\ slack' = {} /\ handle' = [h \in Handles |-> Closed] /\ mounted' \in BOOLEAN
        /\ UNCHANGED <<bmap, imap, inode, data, ents>>
    BY DEF Crash, disk
  <1>2. TypeOK' /\ OpType'
    BY <1>1 DEF TypeOK, OpType, Ptrs, Blocks, Inodes
  <1>3. OpSlots' /\ Keep' /\ Filled'
    BY <1>1 DEF OpSlots, Keep, Filling, Preparing, Filled, Count
  <1>4. Marked' /\ OpHandle' /\ HandleAgrees'
    BY <1>1 DEF Marked, OpHandle, HandleAgrees
  <1> QED  BY <1>2, <1>3, <1>4

LEMMA InitShape == Init => ShapeInv
  <1> SUFFICES ASSUME Init PROVE ShapeInv
    OBVIOUS
  <1>1. /\ RootBlock \in Blocks /\ FirstData \in Blocks /\ 0 \in Blocks /\ Root \in Inodes
        /\ RootBlock # FirstData
    BY DEF RootBlock, Blocks, Root, Inodes, FirstIno
  <1>2. Blank \in [kind : {"none", "file", "dir"}, size : 0 .. MaxFile, ptr : Ptrs]
    BY NoPtrsIs DEF Blank
  <1> DEFINE root == [kind |-> "dir", size |-> BS, ptr |-> [NoPtrs EXCEPT ![0] = RootBlock]]
  <1>3. root \in [kind : {"none", "file", "dir"}, size : 0 .. MaxFile, ptr : Ptrs]
        /\ \A k \in Slots : k > 0 => root.ptr[k] = 0
    BY <1>1, SMTT(20) DEF NoPtrs, Ptrs, Slots, Blocks
  <1>4. inode = [i \in Inodes |-> IF i = Root THEN root ELSE Blank]
    BY DEF Init
  <1>5. TypeOK /\ OpType
    <2>1. bmap \subseteq Blocks
      BY <1>1, SMTT(20) DEF Init, Blocks, RootBlock
    <2>2. data \in [Blocks -> SUBSET (Inodes \cup {Super, Stale})]
      BY <1>1 DEF Init
    <2>3. inode \in [Inodes -> [kind : {"none", "file", "dir"}, size : 0 .. MaxFile, ptr : Ptrs]]
      <3> HIDE DEF root
      <3> QED  BY <1>2, <1>3, <1>4
    <2>4. slack = {} /\ imap = {Root} /\ ents = [b \in Blocks |-> {}] /\ op = Idle
          /\ handle = [h \in Handles |-> Closed] /\ mounted = TRUE
      BY DEF Init
    <2> QED  BY <1>1, <2>1, <2>2, <2>3, <2>4 DEF TypeOK, OpType
  <1>6. op = Idle /\ imap = {Root} /\ ents = [b \in Blocks |-> {}]
        /\ handle = [h \in Handles |-> Closed]
    BY DEF Init
  <1>7. OpSlots /\ Keep /\ Marked /\ OpHandle /\ HandleAgrees
    BY <1>6 DEF OpSlots, Keep, Filling, Preparing, Marked, OpHandle, HandleAgrees
  <1>8. Filled
    <2>1. ASSUME NEW i \in Inodes, NEW k \in Slots, k > Count(inode[i].size)
          PROVE  inode[i].ptr[k] = 0
      <3>1. inode[i].size \in Nat
        BY <1>5 DEF TypeOK
      <3>2. k > 0
        BY <2>1, <3>1, CountGrows DEF Slots
      <3>3. Blank.ptr[k] = 0
        BY NoPtrsIs DEF Blank
      <3> HIDE DEF root
      <3> QED  BY <1>3, <1>4, <3>2, <3>3
    <2> QED  BY <2>1 DEF Filled
  <1> QED  BY <1>5, <1>7, <1>8 DEF ShapeInv

LEMMA NextShape == ShapeInv /\ [Next]_vars => ShapeInv'
  <1> SUFFICES ASSUME ShapeInv, [Next]_vars PROVE ShapeInv'
    OBVIOUS
  <1>1. CASE Next
    BY <1>1, CreateShape, MarkInodeShape, InitInodeShape, MarkBlockShape, ZeroBlockShape,
       WriteInodeShape, LinkShape, HandleShape, WriteShape, TruncateShape, WriteDataShape,
       CrashShape DEF Next
  <1>2. CASE UNCHANGED vars
    <2>1. TypeOK'
      BY <1>2 DEF vars, ShapeInv, TypeOK
    <2>2. OpType'
      BY <1>2 DEF vars, ShapeInv, OpType, CreateOp, FileOp
    <2>3. OpSlots' /\ Keep'
      BY <1>2 DEF vars, ShapeInv, OpSlots, Keep, Filling, Preparing
    <2>4. Filled' /\ Marked'
      BY <1>2 DEF vars, ShapeInv, Filled, Marked
    <2>5. OpHandle' /\ HandleAgrees'
      BY <1>2 DEF vars, ShapeInv, OpHandle, HandleAgrees
    <2> QED  BY <2>1, <2>2, <2>3, <2>4, <2>5 DEF ShapeInv
  <1> QED  BY <1>1, <1>2

LEMMA Shape == Spec => []ShapeInv
  BY InitShape, NextShape, PTL DEF Spec

\* Whatever calls, stale copies of inodes, power cuts and full disks follow
\* each other, every inode, slot and map stays one the driver can follow:
\* blocks are on the disk, sizes within bounds, entries name inodes.
THEOREM Ext2TypeCorrect == Spec => []TypeOK
  <1>1. ShapeInv => TypeOK
    BY DEF ShapeInv
  <1> QED  BY <1>1, Shape, PTL

\* A block a handle knows of is the file's block at that position, however
\* many other handles extended the file since (each call of ext2_extendFile
\* starts from the inode on disk and fills slots that are empty there).
THEOREM HandleAgreesHolds == Spec => []HandleAgrees
  <1>1. ShapeInv => HandleAgrees
    BY DEF ShapeInv
  <1> QED  BY <1>1, Shape, PTL
-----------------------------------------------------------------------------
(* Blocks on a disk of one group whose blocks are numbered from 0.  With   *)
(* blocks of 1 KiB (FirstData = 1) Owned is false: a bit of the map is     *)
(* taken for the block of that number.  In a second group the driver never *)
(* sees the map of the disk.                                               *)
OneGroup == FirstData = 0 /\ PerGroup >= NBlocks

\* Block b is marked and no inode names it.
Unclaimed(b) ==
    /\ b > MetaEnd /\ b \in bmap
    /\ \A i \in Inodes, k \in Slots : inode[i].ptr[k] # b

\* A block belongs to one slot of one inode, is marked, and holds no data but
\* of that inode.
SlotOwns(i, k) ==
    LET b == inode[i].ptr[k]
    IN  b # 0 => /\ b > MetaEnd /\ b \in bmap
                 /\ data[b] \subseteq {i}
                 /\ \A j \in Inodes, l \in Slots : inode[j].ptr[l] = b => j = i /\ l = k

\* The blocks a call has taken are unclaimed until the inode is written, each
\* taken once and cleared; so is the one it is about to clear.
OpOwned ==
    Filling =>
      /\ \A k \in Slots : op.ptr[k] # 0 /\ op.ptr[k] # inode[op.ino].ptr[k] =>
           Unclaimed(op.ptr[k]) /\ data[op.ptr[k]] = {}
      /\ \A k, l \in Slots : op.ptr[k] # 0 /\ op.ptr[k] = op.ptr[l] => k = l
      /\ op.pc = "zero" /\ op.blk # 0 =>
           Unclaimed(op.blk) /\ \A k \in Slots : op.ptr[k] # op.blk

BlocksInv ==
    /\ 0 .. MetaEnd \subseteq bmap
    /\ \A i \in Inodes, k \in Slots : SlotOwns(i, k)
    /\ OpOwned

\* What a slot names is a block.
LEMMA SlotIs ==
    ASSUME TypeOK, NEW i \in Inodes, NEW k \in Slots
    PROVE  inode[i].ptr[k] \in Blocks
  BY DEF TypeOK, Ptrs, Slots

\* Steps that leave the disk alone and take no block.
LEMMA SameBlocks ==
    ASSUME BlocksInv, UNCHANGED <<bmap, inode, data>>, OpOwned'
    PROVE  BlocksInv'
  BY DEF BlocksInv, SlotOwns

LEMMA CreateBlocks ==
    ASSUME BlocksInv, NEW d \in Inodes, NEW n \in Names, NEW kind \in {"file", "dir"},
           Create(d, n, kind)
    PROVE  BlocksInv'
  <1>1. UNCHANGED <<bmap, inode, data>> /\ op'.ptr = NoPtrs /\ op'.pc = "imap"
    BY DEF Create
  <1>2. OpOwned'
    BY <1>1, NoPtrsIs DEF OpOwned
  <1> QED  BY <1>1, <1>2, SameBlocks

\* Steps after which no call fills slots.
LEMMA RestBlocks ==
    ASSUME BlocksInv, UNCHANGED <<bmap, inode, data>>, op' = Idle \/ ~Filling'
    PROVE  BlocksInv'
  <1>1. OpOwned'
    BY DEF OpOwned, Filling
  <1> QED  BY <1>1, SameBlocks

LEMMA MarkInodeBlocks == ShapeInv /\ BlocksInv /\ MarkInode => BlocksInv'
  <1> SUFFICES ASSUME ShapeInv, BlocksInv, MarkInode PROVE BlocksInv'
    OBVIOUS
  <1>1. op \in CreateOp /\ op.pc = "imap" /\ op # Idle
    BY OpIs DEF MarkInode, At, FileOp, ShapeInv
  <1>2. op.ptr = NoPtrs
    BY <1>1 DEF ShapeInv, OpSlots, Preparing
  <1>3. op'.ptr = NoPtrs /\ op'.pc = "init" /\ UNCHANGED <<bmap, inode, data>>
    BY <1>1, <1>2 DEF MarkInode, CreateOp
  <1>4. OpOwned'
    BY <1>3, NoPtrsIs DEF OpOwned
  <1> QED  BY <1>3, <1>4, SameBlocks

\* A new inode has no blocks; those an inode of that number had are free.
LEMMA InitInodeBlocks == ShapeInv /\ BlocksInv /\ InitInode => BlocksInv'
  <1> SUFFICES ASSUME ShapeInv, BlocksInv, InitInode PROVE BlocksInv'
    OBVIOUS
  <1>1. op \in CreateOp /\ op.pc = "init" /\ op # Idle
    BY OpIs DEF InitInode, At, FileOp, ShapeInv
  <1>2. op.ptr = NoPtrs /\ op.ino \in Inodes
    BY <1>1 DEF ShapeInv, OpSlots, Preparing, CreateOp
  <1>3. op'.ptr = NoPtrs /\ op'.pc # "zero" /\ UNCHANGED <<bmap, data>>
    BY <1>1, <1>2 DEF InitInode, CreateOp, Fill
  <1>4. OpOwned'
    BY <1>3, NoPtrsIs DEF OpOwned
  <1>5. inode'[op.ino].ptr = NoPtrs /\ \A i \in Inodes : i # op.ino => inode'[i] = inode[i]
    BY <1>2 DEF InitInode, ShapeInv, TypeOK
  <1>6. \A i \in Inodes, k \in Slots : inode'[i].ptr[k] # 0 => inode'[i].ptr[k] = inode[i].ptr[k]
    BY <1>5, NoPtrsIs
  <1>7. ASSUME NEW i \in Inodes, NEW k \in Slots PROVE SlotOwns(i, k)'
    BY <1>3, <1>6 DEF SlotOwns, BlocksInv
  <1> QED  BY <1>3, <1>4, <1>7 DEF BlocksInv

\* ext2_alloc_block takes a block nothing else has, or block 0.
LEMMA MarkBlockBlocks == OneGroup /\ ShapeInv /\ BlocksInv /\ MarkBlock => BlocksInv'
  <1> SUFFICES ASSUME OneGroup, ShapeInv, BlocksInv, MarkBlock PROVE BlocksInv'
    OBVIOUS
  <1>1. (op \in CreateOp \/ op \in FileOp) /\ op.pc = "mark" /\ op # Idle
    BY OpIs DEF MarkBlock, At, ShapeInv
  <1>2. FreeBlock \in Blocks /\ FreeBlock < PerGroup /\ (FreeBlock # 0 => FreeBlock \notin bmap)
    BY FreeBlockIs DEF InMap, OneGroup, Blocks
  <1>3. bmap' = bmap \cup {FreeBlock} /\ UNCHANGED <<inode, data>>
    BY <1>2 DEF MarkBlock
  <1>4. op'.pc = "zero" /\ op'.blk = FreeBlock /\ op'.ptr = op.ptr /\ op'.ino = op.ino
    BY <1>1 DEF MarkBlock, CreateOp, FileOp
  <1>5. Filling /\ op.ino \in Inodes /\ op.ptr \in Ptrs
    BY <1>1 DEF Filling, CreateOp, FileOp
  <1>6. ASSUME NEW i \in Inodes, NEW k \in Slots PROVE SlotOwns(i, k)'
    BY <1>3 DEF BlocksInv, SlotOwns
  <1>7. ASSUME NEW b \in Blocks, b = FreeBlock, b # 0
        PROVE  Unclaimed(b)' /\ \A k \in Slots : op.ptr[k] # b
    <2>1. b > MetaEnd /\ b \in bmap'
      BY <1>2, <1>3, <1>7 DEF BlocksInv, Blocks
    <2>2. \A i \in Inodes, k \in Slots : inode[i].ptr[k] # b
      BY <1>2, <1>7 DEF BlocksInv, SlotOwns
    <2>3. ASSUME NEW k \in Slots, op.ptr[k] = b PROVE FALSE
      <3>1. op.ptr[k] # inode[op.ino].ptr[k]
        BY <1>5, <2>2, <2>3
      <3> QED  BY <1>2, <1>5, <1>7, <2>3, <3>1 DEF BlocksInv, OpOwned, Unclaimed
    <2> QED  BY <1>3, <2>1, <2>2, <2>3 DEF Unclaimed
  <1>8. OpOwned'
    <2>1. \A b : Unclaimed(b) => Unclaimed(b)'
      BY <1>3 DEF Unclaimed
    <2>2. ASSUME NEW k \in Slots, op'.ptr[k] # 0, op'.ptr[k] # inode'[op'.ino].ptr[k]
          PROVE  Unclaimed(op.ptr[k])' /\ data'[op'.ptr[k]] = {}
      <3>1. Unclaimed(op.ptr[k]) /\ data[op.ptr[k]] = {}
        BY <1>3, <1>4, <1>5, <2>2 DEF BlocksInv, OpOwned
      <3> QED  BY <1>3, <1>4, <3>1 DEF Unclaimed
    <2>3. \A k, l \in Slots : op'.ptr[k] # 0 /\ op'.ptr[k] = op'.ptr[l] => k = l
      BY <1>4, <1>5 DEF BlocksInv, OpOwned
    <2>4. op'.blk # 0 => Unclaimed(op.blk)' /\ \A k \in Slots : op'.ptr[k] # op'.blk
      <3>1. PICK b \in Blocks : b = FreeBlock
        BY <1>2
      <3>2. op'.blk = b
        BY <1>4, <3>1
      <3>3. b # 0 => Unclaimed(b)'
        BY <1>7, <3>1
      <3> QED  BY <1>4, <1>7, <3>1, <3>2, <3>3 DEF Unclaimed
    <2> QED  BY <2>2, <2>3, <2>4 DEF OpOwned
  <1> QED  BY <1>3, <1>6, <1>8 DEF BlocksInv

LEMMA ZeroBlockBlocks == ShapeInv /\ BlocksInv /\ ZeroBlock => BlocksInv'
  <1> SUFFICES ASSUME ShapeInv, BlocksInv, ZeroBlock PROVE BlocksInv'
    OBVIOUS
  <1>1. (op \in CreateOp \/ op \in FileOp) /\ op.pc = "zero" /\ op # Idle
    BY OpIs DEF ZeroBlock, At, ShapeInv
  <1>2. Filling /\ op.ino \in Inodes /\ op.ptr \in Ptrs /\ op.blk \in Blocks /\ op.at \in Slots
    <2>1. Filling /\ op.ino \in Inodes /\ op.ptr \in Ptrs /\ op.blk \in Blocks /\ op.at \in Nat
          /\ op.todo \in Nat
      BY <1>1 DEF Filling, CreateOp, FileOp
    <2> QED  BY <1>1, <2>1 DEF ShapeInv, OpSlots, Slots
  <1>3. data' = [data EXCEPT ![op.blk] = {}] /\ UNCHANGED <<bmap, inode>>
    BY DEF ZeroBlock, Cleared
  <1>4. op'.pc # "zero" /\ op'.ptr = [op.ptr EXCEPT ![op.at] = op.blk] /\ op'.ino = op.ino
    BY <1>1 DEF ZeroBlock, CreateOp, FileOp, Fill
  <1>5. \A b \in Blocks : data'[b] \subseteq data[b] /\ data'[op.blk] = {}
    BY <1>2, <1>3 DEF ShapeInv, TypeOK
  <1>6. ASSUME NEW i \in Inodes, NEW k \in Slots PROVE SlotOwns(i, k)'
    <2>1. inode[i].ptr[k] \in Blocks
      BY SlotIs DEF ShapeInv
    <2> QED  BY <1>3, <1>5, <2>1 DEF BlocksInv, SlotOwns
  <1>7. OpOwned'
    <2>1. \A k \in Slots : op'.ptr[k] = IF k = op.at THEN op.blk ELSE op.ptr[k]
      BY <1>2, <1>4 DEF Ptrs, Slots
    <2>2. \A b : Unclaimed(b) => Unclaimed(b)'
      BY <1>3 DEF Unclaimed
    <2>3. /\ \A k \in Slots : op.ptr[k] # 0 /\ op.ptr[k] # inode[op.ino].ptr[k] =>
               Unclaimed(op.ptr[k]) /\ data[op.ptr[k]] = {}
          /\ \A k, l \in Slots : op.ptr[k] # 0 /\ op.ptr[k] = op.ptr[l] => k = l
          /\ op.blk # 0 => Unclaimed(op.blk) /\ \A k \in Slots : op.ptr[k] # op.blk
      BY <1>1, <1>2 DEF BlocksInv, OpOwned
    <2>4. \A k \in Slots : op.ptr[k] \in Blocks
      BY <1>2 DEF Ptrs, Slots
    <2>5. ASSUME NEW k \in Slots, op'.ptr[k] # 0, op'.ptr[k] # inode'[op'.ino].ptr[k]
          PROVE  Unclaimed(op.ptr[k])' /\ data'[op'.ptr[k]] = {}
      <3>1. PICK b \in Blocks : b = op'.ptr[k]
        BY <1>2, <2>1, <2>4
      <3>2. Unclaimed(b) /\ data'[b] = {}
        <4>1. CASE k = op.at
          BY <1>5, <2>1, <2>3, <2>5, <3>1, <4>1
        <4>2. CASE k # op.at
          <5>1. Unclaimed(b) /\ data[b] = {}
            BY <1>3, <1>4, <2>1, <2>3, <2>5, <3>1, <4>2
          <5> QED  BY <1>5, <5>1
        <4> QED  BY <4>1, <4>2
      <3>3. Unclaimed(b)'
        BY <2>2, <3>2
      <3> QED  BY <3>1, <3>2, <3>3 DEF Unclaimed
    <2>6. ASSUME NEW k \in Slots, NEW l \in Slots, op'.ptr[k] # 0, op'.ptr[k] = op'.ptr[l]
          PROVE  k = l
      BY <2>1, <2>3, <2>6
    <2> QED  BY <1>4, <2>5, <2>6 DEF OpOwned
  <1> QED  BY <1>3, <1>6, <1>7 DEF BlocksInv

\* The write of an inode claims what the call took for it.
LEMMA WriteInodeBlocks == ShapeInv /\ BlocksInv /\ WriteInode => BlocksInv'
  <1> SUFFICES ASSUME ShapeInv, BlocksInv, WriteInode PROVE BlocksInv'
    OBVIOUS
  <1>1. (op \in CreateOp \/ op \in FileOp) /\ op.pc = "inode" /\ op # Idle
    BY OpIs DEF WriteInode, At, ShapeInv
  <1>2. Filling /\ ~Preparing /\ op.ino \in Inodes /\ op.ptr \in Ptrs
    BY <1>1 DEF Filling, Preparing, CreateOp, FileOp
  <1>3. /\ UNCHANGED <<bmap, data>>
        /\ inode'[op.ino].ptr = op.ptr
        /\ \A i \in Inodes : i # op.ino => inode'[i] = inode[i]
    BY <1>2 DEF WriteInode, ShapeInv, TypeOK
  <1>4. ~Filling'
    BY <1>1 DEF WriteInode, Filling, CreateOp, FileOp
  <1>5. /\ \A k \in Slots : op.ptr[k] # 0 /\ op.ptr[k] # inode[op.ino].ptr[k] =>
             Unclaimed(op.ptr[k]) /\ data[op.ptr[k]] = {}
        /\ \A k, l \in Slots : op.ptr[k] # 0 /\ op.ptr[k] = op.ptr[l] => k = l
    BY <1>2 DEF BlocksInv, OpOwned
  <1>6. ASSUME NEW k \in Slots, op.ptr[k] # 0
        PROVE  /\ op.ptr[k] > MetaEnd /\ op.ptr[k] \in bmap /\ data[op.ptr[k]] \subseteq {op.ino}
               /\ \A j \in Inodes, l \in Slots : j # op.ino => inode[j].ptr[l] # op.ptr[k]
    <2>1. CASE op.ptr[k] = inode[op.ino].ptr[k]
      <3>1. SlotOwns(op.ino, k)
        BY <1>2 DEF BlocksInv
      <3> QED  BY <1>2, <1>6, <2>1, <3>1 DEF SlotOwns
    <2>2. CASE op.ptr[k] # inode[op.ino].ptr[k]
      BY <1>2, <1>5, <1>6, <2>2 DEF Unclaimed
    <2> QED  BY <2>1, <2>2
  <1>7. ASSUME NEW i \in Inodes, NEW k \in Slots PROVE SlotOwns(i, k)'
    <2>1. CASE i = op.ino
      BY <1>3, <1>5, <1>6, <2>1 DEF SlotOwns
    <2>2. CASE i # op.ino
      <3>1. \A l \in Slots : op.ptr[l] # 0 => op.ptr[l] # inode[i].ptr[k]
        BY <1>6, <2>2
      <3>2. SlotOwns(i, k)
        BY DEF BlocksInv
      <3>3. inode'[i].ptr[k] = inode[i].ptr[k] /\ bmap' = bmap /\ data' = data
        BY <1>3, <2>2
      <3>4. ASSUME NEW j \in Inodes, NEW l \in Slots, inode[i].ptr[k] # 0,
                   inode'[j].ptr[l] = inode[i].ptr[k]
            PROVE  j = i /\ l = k
        <4>1. j # op.ino
          BY <1>3, <3>1, <3>4
        <4> QED  BY <1>3, <3>2, <3>4, <4>1 DEF SlotOwns
      <3> QED  BY <3>2, <3>3, <3>4 DEF SlotOwns
    <2> QED  BY <2>1, <2>2
  <1> QED  BY <1>3, <1>4, <1>7 DEF BlocksInv, OpOwned

\* A block of the disk an inode writes to: its own, or block 0.
OwnData(i) ==
    \E k \in Slots, b \in Blocks :
        /\ b = inode[i].ptr[k] \/ b = 0
        /\ data'[b] \subseteq data[b] \cup {i}
        /\ \A c \in Blocks : c # b => data'[c] = data[c]

LEMMA OwnDataBlocks ==
    ASSUME ShapeInv, BlocksInv, NEW i \in Inodes, OwnData(i),
           UNCHANGED <<bmap, inode>>, ~Filling'
    PROVE  BlocksInv'
  <1>1. PICK k \in Slots, b \in Blocks :
          /\ b = inode[i].ptr[k] \/ b = 0
          /\ data'[b] \subseteq data[b] \cup {i}
          /\ \A c \in Blocks : c # b => data'[c] = data[c]
    BY DEF OwnData
  <1>2. ASSUME NEW j \in Inodes, NEW l \in Slots PROVE SlotOwns(j, l)'
    <2>1. SlotOwns(j, l) /\ inode[j].ptr[l] \in Blocks
      BY SlotIs DEF BlocksInv, ShapeInv
    <2>2. CASE inode[j].ptr[l] = b
      <3>1. inode[j].ptr[l] # 0 => j = i
        BY <1>1, <2>1, <2>2 DEF SlotOwns
      <3> QED  BY <1>1, <2>1, <2>2, <3>1 DEF SlotOwns
    <2>3. CASE inode[j].ptr[l] # b
      BY <1>1, <2>1, <2>3 DEF SlotOwns
    <2> QED  BY <2>2, <2>3
  <1> QED  BY <1>2 DEF BlocksInv, OpOwned

\* ext2_make_dir_entry writes to the directory's own block.
LEMMA LinkBlocks == ShapeInv /\ BlocksInv /\ (Link \/ LinkSelf \/ LinkParent) => BlocksInv'
  <1> SUFFICES ASSUME ShapeInv, BlocksInv, Link \/ LinkSelf \/ LinkParent PROVE BlocksInv'
    OBVIOUS
  <1>1. op \in CreateOp /\ op # Idle
    BY OpIs DEF Link, LinkSelf, LinkParent, At, FileOp, ShapeInv
  <1>2. op.dir \in Inodes /\ op.ino \in Inodes /\ 0 \in Slots
    BY <1>1 DEF CreateOp, Slots
  <1>3. ~Filling'
    BY <1>1 DEF Link, LinkSelf, LinkParent, Filling, CreateOp
  <1>4. UNCHANGED <<bmap, inode>>
    BY DEF Link, LinkSelf, LinkParent, MakeEntry
  <1>5. PICK d \in Inodes : data' = [data EXCEPT ![inode[d].ptr[0]] = @ \cup {d}]
    BY <1>2 DEF Link, LinkSelf, LinkParent, MakeEntry
  <1>6. OwnData(d)
    <2>1. PICK b \in Blocks : b = inode[d].ptr[0]
      BY <1>2, SlotIs DEF ShapeInv
    <2>2. data' = [data EXCEPT ![b] = @ \cup {d}]
      BY <1>5, <2>1
    <2> QED  BY <1>2, <2>1, <2>2 DEF OwnData, ShapeInv, TypeOK
  <1> QED  BY <1>3, <1>4, <1>6, OwnDataBlocks

\* ext2_write writes through the handle's copy: HandleAgrees makes the block
\* the file's own, and a slot without a block is block 0.
LEMMA WriteDataOwn ==
    ASSUME ShapeInv, WriteData
    PROVE  /\ op.ino \in Inodes /\ OwnData(op.ino) /\ op \in FileOp /\ op.pc = "data"
           /\ ~Filling' /\ UNCHANGED <<bmap, inode>>
  <1> DEFINE f    == handle[op.h]
             from == f.head % BS
             len  == Min({BS - from, op.n})
             k    == f.head \div BS
             b    == f.ptr[k]
             old  == IF len = BS THEN {}
                     ELSE IF from + len = BS THEN data[b] \ {Super} ELSE data[b]
  <1>1. /\ op \in FileOp /\ op # Idle /\ op.pc = "data" /\ k \in Slots /\ b \in Blocks
        /\ f.ino = op.ino
    BY WriteDataIs
  <1>2. /\ data' = [data EXCEPT ![b] = old \cup {f.ino}]
        /\ op' = IF len = op.n THEN Idle ELSE [op EXCEPT !.n = @ - len]
        /\ UNCHANGED <<bmap, inode>>
    BY DEF WriteData
  <1>3. old \subseteq data[b]
    OBVIOUS
  <1>4. op.ino \in Inodes /\ op.h \in Handles /\ handle[op.h] # Closed
    BY <1>1 DEF FileOp, ShapeInv, OpHandle
  <1>5. b = inode[op.ino].ptr[k] \/ b = 0
    <2> HIDE DEF k
    <2> QED  BY <1>1, <1>4 DEF ShapeInv, HandleAgrees, Slots
  <1> HIDE DEF old, b, len, k
  <1>6. ~Filling'
    BY <1>1, <1>2 DEF Filling, FileOp
  <1>7. OwnData(op.ino)
    <2>1. data'[b] = old \cup {op.ino} /\ \A c \in Blocks : c # b => data'[c] = data[c]
      BY <1>1, <1>2 DEF ShapeInv, TypeOK
    <2> QED  BY <1>1, <1>3, <1>5, <2>1 DEF OwnData
  <1> QED  BY <1>1, <1>2, <1>4, <1>6, <1>7

LEMMA WriteDataBlocks == ShapeInv /\ BlocksInv /\ WriteData => BlocksInv'
  BY WriteDataOwn, OwnDataBlocks

\* ext2_extendFile starts with the slots the inode has.
LEMMA GrowBlocks ==
    ASSUME ShapeInv, BlocksInv, NEW h \in Handles, handle[h] # Closed, NEW call, NEW amount,
           NEW n, Grow(h, call, amount, n), UNCHANGED disk
    PROVE  BlocksInv'
  <1> DEFINE i == handle[h].ino
  <1>1. i \in Inodes
    BY DEF ShapeInv, TypeOK, Closed
  <1>2. UNCHANGED <<bmap, inode, data>>
    BY DEF disk
  <1>3. op' = Idle \/ (op'.ino = i /\ op'.ptr = inode[i].ptr /\ op'.pc \in {"data", "inode", "mark"})
    BY DEF Grow, Extension, Fill
  <1>4. CASE op' = Idle
    BY <1>2, <1>4, RestBlocks
  <1>5. CASE op'.ino = i /\ op'.ptr = inode[i].ptr /\ op'.pc \in {"data", "inode", "mark"}
    <2> HIDE DEF i
    <2>1. \A k, l \in Slots : inode[i].ptr[k] # 0 /\ inode[i].ptr[k] = inode[i].ptr[l] => k = l
      <3> SUFFICES ASSUME NEW k \in Slots, NEW l \in Slots, inode[i].ptr[k] # 0,
                          inode[i].ptr[k] = inode[i].ptr[l]
                   PROVE  k = l
        OBVIOUS
      <3>1. SlotOwns(i, l)
        BY <1>1 DEF BlocksInv
      <3> QED  BY <1>1, <3>1 DEF SlotOwns
    <2>2. OpOwned'
      BY <1>2, <1>5, <2>1 DEF OpOwned
    <2> QED  BY <1>2, <2>2, SameBlocks
  <1> QED  BY <1>3, <1>4, <1>5

LEMMA WriteBlocks ==
    ASSUME ShapeInv, BlocksInv, NEW h \in Handles, NEW n \in 1 .. MaxSize,
           Write(h, n) \/ Truncate(h, n)
    PROVE  BlocksInv'
  <1>1. CASE Truncate(h, n)
    <2>1. handle[h] # Closed /\ Grow(h, "truncate", handle[h].size + n, 0) /\ UNCHANGED disk
      BY <1>1 DEF Truncate
    <2> QED  BY <2>1, GrowBlocks
  <1>2. CASE Write(h, n)
    <2>1. handle[h] # Closed /\ UNCHANGED disk
      BY <1>2 DEF Write
    <2>2. \/ Grow(h, "write", handle[h].head + n - handle[h].size, n)
          \/ op'.pc = "data"
      BY <1>2 DEF Write
    <2>3. CASE op'.pc = "data"
      BY <2>1, <2>3, RestBlocks DEF Filling, disk
    <2> QED  BY <2>1, <2>2, <2>3, GrowBlocks
  <1> QED  BY <1>1, <1>2

LEMMA InitBlocks == OneGroup /\ Init => BlocksInv
  <1> SUFFICES ASSUME OneGroup, Init PROVE BlocksInv
    OBVIOUS
  <1>1. /\ RootBlock = MetaEnd + 1 /\ MetaEnd \in Nat /\ RootBlock \in Blocks /\ Root \in Inodes
        /\ FirstData = 0
    BY DEF RootBlock, Blocks, Root, Inodes, FirstIno, OneGroup
  <1>2. 0 .. RootBlock \subseteq bmap
    <2>1. \A j \in 0 .. RootBlock : j = j - FirstData /\ j \in FirstData .. RootBlock
      BY <1>1
    <2> QED  BY <2>1 DEF Init
  <1>3. data[RootBlock] = {Root}
    <2>1. data = [b \in Blocks |-> CASE b = FirstData -> {Super}
                                     [] b = RootBlock -> {Root}
                                     [] OTHER         -> {Stale}]
      BY DEF Init
    <2> QED  BY <1>1, <2>1
  <1>4. \A i \in Inodes, k \in Slots : inode[i].ptr[k] # 0 => i = Root /\ k = 0 /\ inode[i].ptr[k] = RootBlock
    <2>1. inode = [i \in Inodes |-> IF i = Root THEN [kind |-> "dir", size |-> BS,
                                       ptr |-> [NoPtrs EXCEPT ![0] = RootBlock]] ELSE Blank]
      BY DEF Init
    <2>2. ASSUME NEW k \in Slots
          PROVE  Blank.ptr[k] = 0 /\ [NoPtrs EXCEPT ![0] = RootBlock][k] = IF k = 0 THEN RootBlock ELSE 0
      BY DEF NoPtrs, Blank, Slots
    <2> QED  BY <2>1, <2>2
  <1>5. ASSUME NEW i \in Inodes, NEW k \in Slots PROVE SlotOwns(i, k)
    BY <1>1, <1>2, <1>3, <1>4 DEF SlotOwns
  <1>6. op = Idle
    BY DEF Init
  <1> QED  BY <1>1, <1>2, <1>5, <1>6 DEF BlocksInv, OpOwned, Filling

LEMMA NextBlocks == OneGroup /\ ShapeInv /\ BlocksInv /\ [Next]_vars => BlocksInv'
  <1> SUFFICES ASSUME OneGroup, ShapeInv, BlocksInv, [Next]_vars PROVE BlocksInv'
    OBVIOUS
  <1>1. CASE (\E h \in Handles, i \in Inodes : Open(h, i)) \/ (\E h \in Handles : Close(h))
             \/ (\E h \in Handles, head \in 0 .. MaxSize : Seek(h, head)) \/ Crash
    <2>1. op' = Idle /\ UNCHANGED <<bmap, inode, data>>
      BY <1>1 DEF Open, Close, Seek, Crash, disk
    <2> QED  BY <2>1, RestBlocks
  <1>2. CASE UNCHANGED vars
    BY <1>2, SMTT(20) DEF vars, BlocksInv, SlotOwns, OpOwned, Filling, Unclaimed
  <1> QED
    BY <1>1, <1>2, CreateBlocks, MarkInodeBlocks, InitInodeBlocks, MarkBlockBlocks,
       ZeroBlockBlocks, WriteInodeBlocks, LinkBlocks, WriteBlocks, WriteDataBlocks DEF Next

LEMMA BlocksHold == OneGroup => (Spec => [](ShapeInv /\ BlocksInv))
  <1>1. OneGroup /\ Init => ShapeInv /\ BlocksInv
    BY InitShape, InitBlocks
  <1>2. OneGroup /\ (ShapeInv /\ BlocksInv) /\ [Next]_vars => (ShapeInv /\ BlocksInv)'
    BY NextShape, NextBlocks
  <1>3. ASSUME OneGroup PROVE Spec => [](ShapeInv /\ BlocksInv)
    <2>1. Init => ShapeInv /\ BlocksInv
      BY <1>1, <1>3
    <2>2. (ShapeInv /\ BlocksInv) /\ [Next]_vars => (ShapeInv /\ BlocksInv)'
      BY <1>2, <1>3
    <2> QED  BY <2>1, <2>2, PTL DEF Spec
  <1> QED  BY <1>3

\* However calls, stale handles, power cuts and full disks follow each other,
\* a block belongs to one slot of one inode, is no metadata and is marked in
\* the map (ext2_alloc_block marks before the inode names the block).
THEOREM OwnedHolds == OneGroup => (Spec => []Owned)
  <1> SUFFICES ASSUME OneGroup PROVE Spec => []Owned
    OBVIOUS
  <1>1. ShapeInv /\ BlocksInv => Owned
    <2> SUFFICES ASSUME ShapeInv, BlocksInv, NEW s \in Claims
                 PROVE  /\ BlockOf(s) > MetaEnd /\ BlockOf(s) - FirstData \in bmap
                        /\ \A t \in Claims : BlockOf(s) = BlockOf(t) => s = t
      BY DEF Owned
    <2>1. \A t \in Claims : /\ t \in Inodes \X Slots /\ t = <<t[1], t[2]>>
                            /\ BlockOf(t) = inode[t[1]].ptr[t[2]] /\ BlockOf(t) # 0
      BY DEF Claims, BlockOf, Slots
    <2>2. s[1] \in Inodes /\ s[2] \in Slots
      BY <2>1
    <2>3. SlotOwns(s[1], s[2]) /\ inode[s[1]].ptr[s[2]] \in Blocks
      BY <2>2, SlotIs DEF BlocksInv, ShapeInv
    <2>4. BlockOf(s) - FirstData = BlockOf(s)
      BY <2>1, <2>3 DEF OneGroup, Blocks
    <2>5. ASSUME NEW t \in Claims, BlockOf(s) = BlockOf(t) PROVE s = t
      <3>1. t[1] = s[1] /\ t[2] = s[2]
        BY <2>1, <2>3, <2>5 DEF SlotOwns
      <3> QED  BY <2>1, <3>1
    <2> QED  BY <2>1, <2>3, <2>4, <2>5 DEF SlotOwns
  <1>2. Spec => [](ShapeInv /\ BlocksInv)
    BY BlocksHold
  <1> QED  BY <1>1, <1>2, PTL

-----------------------------------------------------------------------------
(* Where the data of a file is.                                            *)

\* An inode that is not marked, or that a call has not yet written, has no
\* blocks.
Fresh ==
    /\ \A i \in Inodes \ imap, k \in Slots : inode[i].ptr[k] = 0
    /\ Preparing => \A k \in Slots : inode[op.ino].ptr[k] = 0

\* What was written to an inode is in a block of it, or in block 0.
Placed ==
    \A b \in Blocks \ {0}, i \in Inodes :
        i \in data[b] => \E k \in Slots : inode[i].ptr[k] = b

HomeInv == Fresh /\ Placed

\* Steps that leave inodes and marks alone, and put no data anywhere.
LEMMA SameHome ==
    ASSUME HomeInv, UNCHANGED inode, imap \subseteq imap',
           \A b \in Blocks : data'[b] \subseteq data[b],
           Preparing' => \A k \in Slots : inode[op'.ino].ptr[k] = 0
    PROVE  HomeInv'
  <1>1. Fresh'
    BY DEF HomeInv, Fresh
  <1>2. Placed'
    BY DEF HomeInv, Placed
  <1> QED  BY <1>1, <1>2 DEF HomeInv

LEMMA PrepareHome ==
    ASSUME ShapeInv, HomeInv,
           (\E d \in Inodes, n \in Names, kind \in {"file", "dir"} : Create(d, n, kind)) \/ MarkInode
    PROVE  HomeInv'
  <1>1. CASE \E d \in Inodes, n \in Names, kind \in {"file", "dir"} : Create(d, n, kind)
    <2>1. op'.ino \in Inodes \ imap /\ UNCHANGED <<imap, inode, data>>
      BY <1>1, FreeInodeIs DEF Create
    <2> QED  BY <2>1, SameHome DEF HomeInv, Fresh
  <1>2. CASE MarkInode
    <2>1. Preparing /\ op.ino \in Inodes /\ op \in CreateOp
      BY <1>2, OpIs DEF MarkInode, At, Preparing, CreateOp, FileOp, ShapeInv
    <2>2. op'.ino = op.ino /\ imap \subseteq imap' /\ UNCHANGED <<inode, data>>
      BY <1>2, <2>1 DEF MarkInode, CreateOp
    <2> QED  BY <2>1, <2>2, SameHome DEF HomeInv, Fresh
  <1> QED  BY <1>1, <1>2

\* The inode that is written first has had no block, and so no data.
LEMMA InitInodeHome == ASSUME ShapeInv, HomeInv, InitInode PROVE HomeInv'
  <1>1. op \in CreateOp /\ op.pc = "init" /\ Preparing /\ op.ino \in Inodes
    BY OpIs DEF InitInode, At, Preparing, CreateOp, FileOp, ShapeInv
  <1>2. /\ inode'[op.ino].ptr = NoPtrs /\ \A i \in Inodes : i # op.ino => inode'[i] = inode[i]
        /\ UNCHANGED <<imap, data>>
    BY <1>1 DEF InitInode, ShapeInv, TypeOK
  <1>3. ~Preparing'
    BY <1>1 DEF InitInode, Preparing, Fill, CreateOp
  <1>4. \A k \in Slots : inode'[op.ino].ptr[k] = inode[op.ino].ptr[k]
    BY <1>1, <1>2, NoPtrsIs DEF HomeInv, Fresh
  <1>5. \A i \in Inodes, k \in Slots : inode'[i].ptr[k] = inode[i].ptr[k]
    BY <1>2, <1>4
  <1>6. Fresh'
    BY <1>2, <1>3, <1>5 DEF HomeInv, Fresh
  <1>7. Placed'
    BY <1>2, <1>5 DEF HomeInv, Placed
  <1> QED  BY <1>6, <1>7 DEF HomeInv

LEMMA AllocateHome == ASSUME ShapeInv, HomeInv, MarkBlock \/ ZeroBlock PROVE HomeInv'
  <1>1. (op \in CreateOp \/ op \in FileOp) /\ op.pc \in {"mark", "zero"}
    BY OpIs DEF MarkBlock, ZeroBlock, At, ShapeInv
  <1>2. ~Preparing'
    BY <1>1 DEF MarkBlock, ZeroBlock, Preparing, Fill, CreateOp, FileOp
  <1>3. UNCHANGED <<imap, inode>> /\ \A b \in Blocks : data'[b] \subseteq data[b]
    BY DEF MarkBlock, ZeroBlock, Cleared, ShapeInv, TypeOK
  <1> QED  BY <1>2, <1>3, SameHome

\* An inode that is written keeps the blocks it has.
LEMMA WriteInodeHome == ASSUME ShapeInv, HomeInv, WriteInode PROVE HomeInv'
  <1>1. (op \in CreateOp \/ op \in FileOp) /\ op.pc = "inode" /\ op # Idle
    BY OpIs DEF WriteInode, At, ShapeInv
  <1>2. Filling /\ ~Preparing /\ op.ino \in Inodes /\ op.ino \in imap
    BY <1>1 DEF Filling, Preparing, CreateOp, FileOp, ShapeInv, Marked
  <1>3. /\ UNCHANGED <<imap, data>>
        /\ inode'[op.ino].ptr = op.ptr
        /\ \A i \in Inodes : i # op.ino => inode'[i] = inode[i]
    BY <1>2 DEF WriteInode, ShapeInv, TypeOK
  <1>4. ~Preparing'
    BY <1>1 DEF WriteInode, Preparing, CreateOp, FileOp
  <1>5. \A i \in Inodes, k \in Slots :
           inode[i].ptr[k] # 0 => inode'[i].ptr[k] = inode[i].ptr[k]
    BY <1>2, <1>3 DEF ShapeInv, Keep
  <1>6. Fresh'
    BY <1>2, <1>3, <1>4 DEF HomeInv, Fresh
  <1>7. Placed'
    BY <1>3, <1>5 DEF HomeInv, Placed
  <1> QED  BY <1>6, <1>7 DEF HomeInv

LEMMA OwnDataHome ==
    ASSUME HomeInv, NEW i \in Inodes, OwnData(i), UNCHANGED <<imap, inode>>, ~Preparing'
    PROVE  HomeInv'
  <1>1. PICK k \in Slots, b \in Blocks :
          /\ b = inode[i].ptr[k] \/ b = 0
          /\ data'[b] \subseteq data[b] \cup {i}
          /\ \A c \in Blocks : c # b => data'[c] = data[c]
    BY DEF OwnData
  <1>2. ASSUME NEW c \in Blocks \ {0}, NEW j \in Inodes, j \in data'[c]
        PROVE  \E l \in Slots : inode[j].ptr[l] = c
    <2>1. CASE j \in data[c]
      BY <1>2, <2>1 DEF HomeInv, Placed
    <2>2. CASE j \notin data[c]
      BY <1>1, <1>2, <2>2
    <2> QED  BY <2>1, <2>2
  <1> QED  BY <1>2 DEF HomeInv, Fresh, Placed

LEMMA LinkHome == ASSUME ShapeInv, HomeInv, Link \/ LinkSelf \/ LinkParent PROVE HomeInv'
  <1>1. op \in CreateOp /\ op # Idle
    BY OpIs DEF Link, LinkSelf, LinkParent, At, FileOp, ShapeInv
  <1>2. op.dir \in Inodes /\ op.ino \in Inodes /\ 0 \in Slots
    BY <1>1 DEF CreateOp, Slots
  <1>3. ~Preparing'
    BY <1>1 DEF Link, LinkSelf, LinkParent, Preparing, CreateOp
  <1>4. UNCHANGED <<imap, inode>>
    BY DEF Link, LinkSelf, LinkParent, MakeEntry
  <1>5. PICK d \in Inodes : data' = [data EXCEPT ![inode[d].ptr[0]] = @ \cup {d}]
    BY <1>2 DEF Link, LinkSelf, LinkParent, MakeEntry
  <1>6. OwnData(d)
    <2>1. PICK b \in Blocks : b = inode[d].ptr[0]
      BY <1>2, SlotIs DEF ShapeInv
    <2>2. data' = [data EXCEPT ![b] = @ \cup {d}]
      BY <1>5, <2>1
    <2> QED  BY <1>2, <2>1, <2>2 DEF OwnData, ShapeInv, TypeOK
  <1> QED  BY <1>3, <1>4, <1>6, OwnDataHome

LEMMA WriteDataHome == ASSUME ShapeInv, HomeInv, WriteData PROVE HomeInv'
  <1>1. op.ino \in Inodes /\ OwnData(op.ino) /\ op \in FileOp /\ op.pc = "data"
    BY WriteDataOwn
  <1>2. ~Preparing' /\ UNCHANGED <<imap, inode>>
    BY <1>1 DEF WriteData, Preparing, FileOp
  <1> QED  BY <1>1, <1>2, OwnDataHome

LEMMA InitHome == ASSUME OneGroup, Init PROVE HomeInv
  <1>1. /\ RootBlock \in Blocks /\ RootBlock # 0 /\ Root \in Inodes /\ FirstData = 0 /\ 0 \in Slots
        /\ Root \in imap
    BY DEF RootBlock, Blocks, Root, Inodes, FirstIno, OneGroup, Slots, Init
  <1>2. inode[Root].ptr[0] = RootBlock
    BY <1>1 DEF Init, NoPtrs, Slots
  <1>3. \A i \in Inodes \ imap, k \in Slots : inode[i].ptr[k] = 0
    BY <1>1 DEF Init, Blank, NoPtrs, Slots
  <1>4. ASSUME NEW b \in Blocks \ {0}, NEW i \in Inodes, i \in data[b]
        PROVE  \E k \in Slots : inode[i].ptr[k] = b
    <2>1. data[b] = IF b = RootBlock THEN {Root} ELSE {Stale}
      BY <1>1, <1>4 DEF Init
    <2>2. Stale \notin Inodes
      BY GeometryAssumption DEF Stale, Inodes, Root
    <2> QED  BY <1>1, <1>2, <1>4, <2>1, <2>2
  <1>5. ~Preparing
    BY DEF Init, Preparing
  <1> QED  BY <1>3, <1>4, <1>5 DEF HomeInv, Fresh, Placed

LEMMA NextHome == ASSUME ShapeInv, HomeInv, [Next]_vars PROVE HomeInv'
  <1>1. CASE \/ \E h \in Handles, i \in Inodes : Open(h, i)
             \/ \E h \in Handles : Close(h)
             \/ \E h \in Handles, head \in 0 .. MaxSize : Seek(h, head)
             \/ \E h \in Handles, n \in 1 .. MaxSize : Write(h, n) \/ Truncate(h, n)
             \/ Crash
    <2>1. UNCHANGED <<imap, inode, data>>
      BY <1>1 DEF Open, Close, Seek, Write, Truncate, Crash, disk
    <2>2. ~Preparing'
      <3>1. CASE \E h \in Handles, n \in 1 .. MaxSize : Write(h, n)
        BY <3>1 DEF Write, Grow, Preparing, Fill
      <3>2. CASE \E h \in Handles, n \in 1 .. MaxSize : Truncate(h, n)
        BY <3>2 DEF Truncate, Grow, Preparing, Fill
      <3> QED  BY <1>1, <3>1, <3>2 DEF Open, Close, Seek, Crash, Preparing
    <2> QED  BY <2>1, <2>2, SameHome
  <1>2. CASE UNCHANGED vars
    BY <1>2, SameHome DEF vars, HomeInv, Fresh, Preparing
  <1> QED
    BY <1>1, <1>2, PrepareHome, InitInodeHome, AllocateHome, WriteInodeHome, LinkHome,
       WriteDataHome DEF Next

\* Blocks that were allocated to a file hold its own data or none, and what
\* was written to it lies in them or in block 0, where the slot leads that
\* ext2_extendFile skips: whichever handles write, and after every power cut.
THEOREM DataInOwnBlocksHolds == OneGroup => (Spec => []DataInOwnBlocks)
  <1> SUFFICES ASSUME OneGroup PROVE Spec => []DataInOwnBlocks
    OBVIOUS
  <1>1. ShapeInv /\ BlocksInv /\ HomeInv => DataInOwnBlocks
    <2> SUFFICES ASSUME ShapeInv, BlocksInv, HomeInv PROVE DataInOwnBlocks
      OBVIOUS
    <2>1. ASSUME NEW t \in Claims PROVE data[BlockOf(t)] \subseteq {t[1]}
      <3>1. PICK i \in Inodes, k \in Slots : t = <<i, k>> /\ inode[i].ptr[k] # 0
        BY <2>1 DEF Claims, Slots
      <3>2. SlotOwns(i, k)
        BY <3>1 DEF BlocksInv
      <3> QED  BY <3>1, <3>2 DEF SlotOwns, BlockOf
    <2>2. \A b \in Blocks \ {0}, i \in Inodes :
            i \in data[b] => \E k \in 0 .. Direct - 1 : inode[i].ptr[k] = b
      BY DEF HomeInv, Placed, Slots
    <2> QED  BY <2>1, <2>2 DEF DataInOwnBlocks
  <1>2. Spec => [](ShapeInv /\ BlocksInv)
    BY BlocksHold
  <1>3. Init => HomeInv
    BY InitHome
  <1>4. ShapeInv /\ HomeInv /\ [Next]_vars => HomeInv'
    BY NextHome
  <1> QED  BY <1>1, <1>2, <1>3, <1>4, PTL DEF Spec
-----------------------------------------------------------------------------
(* Names and directories.                                                  *)

Creating == op # Idle /\ op.call = "create"

\* The super block is still there: no call was given block 0.
Intact == Super \in data[FirstData]

\* The inode a call creates is new: until the call makes its entry, no entry
\* has it.
Unnamed ==
    Creating =>
      /\ op.ino # Root /\ op.ino # op.dir
      /\ op.pc \notin {"dot", "dotdot"} => \A b \in Blocks : \A e \in ents[b] : e[2] # op.ino
      /\ op.pc \notin {"imap", "init"} => inode[op.ino].kind = op.kind
      /\ op.pc \in {"dot", "dotdot"} => op.kind = "dir"

\* No inode has two names.
OneName ==
    \A b, c \in Blocks : \A e \in ents[b], f \in ents[c] :
        e[1] \in Names /\ f[1] \in Names /\ e[2] = f[2] => b = c /\ e = f

\* What has a name was written.
Kinds == \A b \in Blocks : \A e \in ents[b] : e[1] \in Names => inode[e[2]].kind # "none"

\* A directory has a block of its own before anything names it.
HasBlock(i) == inode[i].kind = "dir" => inode[i].ptr[0] # 0
DirBlocks ==
    /\ inode[Root].kind = "dir" /\ inode[Root].ptr[0] # 0
    /\ Intact => \A b \in Blocks : \A e \in ents[b] : HasBlock(e[2])
CreateBlock ==
    Intact /\ Creating =>
      /\ HasBlock(op.dir)
      /\ op.pc \in {"link", "dot", "dotdot"} => HasBlock(op.ino)
      /\ op.kind = "dir" =>
           /\ op.pc \in {"imap", "init", "mark", "zero"} => op.at = 0 /\ op.todo = 1
           /\ op.pc = "inode" => op.ptr[0] # 0

LinkInv == Unnamed /\ OneName /\ Kinds /\ DirBlocks /\ CreateBlock

LEMMA IdleIs == \A r \in CreateOp : r # Idle /\ r.call = "create"
  BY DEF CreateOp, Idle

LEMMA FileOpIs == \A r \in FileOp : r # Idle /\ r.call # "create"
  BY DEF FileOp, Idle

LEMMA EntryInodes ==
    ASSUME TypeOK, NEW b \in Blocks, NEW e \in ents[b]
    PROVE  e[2] \in Inodes
  BY DEF TypeOK

\* Steps that leave inodes and entries alone, and after which nothing is
\* being created.
LEMMA RestLinked ==
    ASSUME LinkInv, UNCHANGED <<inode, ents, data>>, ~Creating'
    PROVE  LinkInv'
  <1>1. Unnamed' /\ CreateBlock'
    BY DEF Unnamed, CreateBlock
  <1>2. OneName' /\ Kinds'
    BY DEF LinkInv, OneName, Kinds
  <1>3. DirBlocks'
    BY DEF LinkInv, DirBlocks, Intact, HasBlock
  <1> QED  BY <1>1, <1>2, <1>3 DEF LinkInv

LEMMA CreateLinked ==
    ASSUME ShapeInv, LinkInv, NEW d \in Inodes, NEW n \in Names, NEW kind \in {"file", "dir"},
           Create(d, n, kind)
    PROVE  LinkInv'
  <1>1. UNCHANGED <<inode, ents, data>> /\ FreeInode \in Inodes \ imap /\ d \in Dirs
    BY FreeInodeIs DEF Create
  <1>2. /\ op'.pc = "imap" /\ op'.ino = FreeInode /\ op'.dir = d /\ op'.kind = kind
        /\ op'.at = 0 /\ (kind = "dir" => op'.todo = 1)
    BY DEF Create
  <1>3. d \in imap /\ Root \in imap /\ \A b \in Blocks : \A e \in ents[b] : e[2] \in imap
    BY <1>1, PathsMarked DEF ShapeInv, Marked
  <1>4. Unnamed'
    BY <1>1, <1>2, <1>3 DEF Unnamed
  <1>5. OneName' /\ Kinds'
    BY <1>1 DEF LinkInv, OneName, Kinds
  <1>6. DirBlocks'
    BY <1>1 DEF LinkInv, DirBlocks, Intact, HasBlock
  <1>7. Intact => HasBlock(d)
    <2>1. Root \in Inodes /\ 0 \in Slots
      BY DEF Root, Inodes, FirstIno, Slots
    <2>2. inode[Root].ptr[0] \in Blocks
      BY <2>1, SlotIs DEF ShapeInv
    <2> QED  BY <1>1, <2>2 DEF LinkInv, DirBlocks, HasBlock, Dirs, Entries
  <1>8. CreateBlock'
    BY <1>1, <1>2, <1>7 DEF CreateBlock, Intact, HasBlock
  <1> QED  BY <1>4, <1>5, <1>6, <1>8 DEF LinkInv

LEMMA MarkLinked == ShapeInv /\ LinkInv /\ (MarkInode \/ MarkBlock) => LinkInv'
  <1> SUFFICES ASSUME ShapeInv, LinkInv, MarkInode \/ MarkBlock PROVE LinkInv'
    OBVIOUS
  <1>1. (op \in CreateOp \/ op \in FileOp) /\ op # Idle
    BY OpIs DEF MarkInode, MarkBlock, At, ShapeInv
  <1>2. UNCHANGED <<inode, ents, data>>
    BY DEF MarkInode, MarkBlock
  <1>3. CASE op \in FileOp
    <2>1. op'.call = op.call
      BY <1>3 DEF MarkInode, MarkBlock, FileOp
    <2> QED  BY <1>2, <1>3, <2>1, FileOpIs, RestLinked DEF Creating
  <1>4. CASE op \in CreateOp
    <2>1. /\ op'.ino = op.ino /\ op'.dir = op.dir /\ op'.kind = op.kind /\ op'.at = op.at
          /\ op'.todo = op.todo /\ op'.ptr = op.ptr
          /\ \/ op.pc = "imap" /\ op'.pc = "init"
             \/ op.pc = "mark" /\ op'.pc = "zero"
      BY <1>4 DEF MarkInode, MarkBlock, At, CreateOp
    <2>2. Creating
      BY <1>4, IdleIs DEF Creating
    <2>3. Unnamed'
      BY <1>2, <2>1, <2>2 DEF LinkInv, Unnamed
    <2>4. OneName' /\ Kinds'
      BY <1>2 DEF LinkInv, OneName, Kinds
    <2>5. DirBlocks'
      BY <1>2 DEF LinkInv, DirBlocks, Intact, HasBlock
    <2>6. CreateBlock'
      BY <1>2, <2>1, <2>2 DEF LinkInv, CreateBlock, Intact, HasBlock
    <2> QED  BY <2>3, <2>4, <2>5, <2>6 DEF LinkInv
  <1> QED  BY <1>1, <1>3, <1>4

\* A new inode is named by no entry.
LEMMA InitInodeLinked == ShapeInv /\ LinkInv /\ InitInode => LinkInv'
  <1> SUFFICES ASSUME ShapeInv, LinkInv, InitInode PROVE LinkInv'
    OBVIOUS
  <1>1. op \in CreateOp /\ op.pc = "init" /\ op # Idle
    BY OpIs DEF InitInode, At, FileOp, ShapeInv
  <1>2. /\ op'.ino = op.ino /\ op'.dir = op.dir /\ op'.kind = op.kind /\ op'.at = op.at
        /\ op'.todo = op.todo /\ op'.pc = Fill(op.todo)
        /\ UNCHANGED <<ents, data>> /\ op.ino \in Inodes /\ op.dir \in Inodes
    BY <1>1 DEF InitInode, CreateOp
  <1>3. /\ inode'[op.ino].kind = op.kind
        /\ \A i \in Inodes : i # op.ino => inode'[i] = inode[i]
    BY <1>2 DEF InitInode, ShapeInv, TypeOK
  <1>4. /\ op.ino # Root /\ op.ino # op.dir
        /\ \A b \in Blocks : \A e \in ents[b] : e[2] # op.ino
    BY <1>1, IdleIs DEF LinkInv, Unnamed, Creating
  <1>5. \A b \in Blocks : \A e \in ents[b] : inode'[e[2]] = inode[e[2]]
    BY <1>3, <1>4, EntryInodes DEF ShapeInv
  <1>6. Root \in Inodes
    BY DEF Root, Inodes, FirstIno
  <1>7. Unnamed'
    BY <1>1, <1>2, <1>3, <1>4 DEF Unnamed, Fill
  <1>8. OneName' /\ Kinds'
    BY <1>2, <1>5 DEF LinkInv, OneName, Kinds
  <1>9. DirBlocks'
    BY <1>2, <1>3, <1>4, <1>5, <1>6 DEF LinkInv, DirBlocks, Intact, HasBlock
  <1>10. CreateBlock'
    BY <1>1, <1>2, <1>3, <1>4, IdleIs DEF LinkInv, CreateBlock, Intact, HasBlock, Fill, Creating
  <1> QED  BY <1>7, <1>8, <1>9, <1>10 DEF LinkInv

\* Clearing block 0 is the end of the super block.
LEMMA ZeroBlockIntact ==
    ASSUME OneGroup, ShapeInv, ZeroBlock
    PROVE  /\ op.blk \in Blocks /\ \A b \in Blocks : ents'[b] \subseteq ents[b]
           /\ Intact' => Intact /\ op.blk # 0
  <1>1. op.blk \in Blocks /\ FirstData = 0 /\ 0 \in Blocks
    BY DEF ZeroBlock, At, ShapeInv, TypeOK, OneGroup, Blocks
  <1>2. data' = [data EXCEPT ![op.blk] = {}] /\ ents' = [ents EXCEPT ![op.blk] = {}]
    BY DEF ZeroBlock, Cleared
  <1> QED  BY <1>1, <1>2 DEF Intact, ShapeInv, TypeOK

LEMMA ZeroBlockLinked == OneGroup /\ ShapeInv /\ LinkInv /\ ZeroBlock => LinkInv'
  <1> SUFFICES ASSUME OneGroup, ShapeInv, LinkInv, ZeroBlock PROVE LinkInv'
    OBVIOUS
  <1>1. (op \in CreateOp \/ op \in FileOp) /\ op.pc = "zero" /\ op # Idle
    BY OpIs DEF ZeroBlock, At, ShapeInv
  <1>2. inode' = inode /\ op.blk \in Blocks /\ \A b \in Blocks : ents'[b] \subseteq ents[b]
    BY ZeroBlockIntact DEF ZeroBlock
  <1>3. Intact' => Intact /\ op.blk # 0
    BY ZeroBlockIntact
  <1>4. OneName' /\ Kinds'
    BY <1>2 DEF LinkInv, OneName, Kinds
  <1>5. DirBlocks'
    BY <1>2, <1>3 DEF LinkInv, DirBlocks, HasBlock
  <1>6. CASE op \in FileOp
    <2>1. ~Creating'
      BY <1>6 DEF ZeroBlock, FileOp, Creating
    <2> QED  BY <1>4, <1>5, <2>1 DEF LinkInv, Unnamed, CreateBlock
  <1>7. CASE op \in CreateOp
    <2>1. /\ op'.ino = op.ino /\ op'.dir = op.dir /\ op'.kind = op.kind
          /\ op'.ptr = [op.ptr EXCEPT ![op.at] = op.blk] /\ op'.pc = Fill(op.todo - 1)
          /\ op'.at = op.at + 1 /\ op'.todo = op.todo - 1 /\ op.ptr \in Ptrs /\ Creating
      BY <1>7, IdleIs DEF ZeroBlock, CreateOp, Creating
    <2>2. Unnamed'
      BY <1>1, <1>2, <2>1 DEF LinkInv, Unnamed, Fill
    <2>3. op.at = 0 => op'.ptr[0] = op.blk
      BY <2>1 DEF Ptrs
    <2>4. CreateBlock'
      BY <1>1, <1>2, <1>3, <2>1, <2>3 DEF LinkInv, CreateBlock, HasBlock, Fill
    <2> QED  BY <1>4, <1>5, <2>2, <2>4 DEF LinkInv
  <1> QED  BY <1>1, <1>6, <1>7

LEMMA WriteInodeLinked == ShapeInv /\ LinkInv /\ WriteInode => LinkInv'
  <1> SUFFICES ASSUME ShapeInv, LinkInv, WriteInode PROVE LinkInv'
    OBVIOUS
  <1>1. (op \in CreateOp \/ op \in FileOp) /\ op.pc = "inode" /\ op # Idle
    BY OpIs DEF WriteInode, At, ShapeInv
  <1>2. /\ Filling /\ ~Preparing /\ op.ino \in Inodes
        /\ UNCHANGED <<ents, data>>
    BY <1>1 DEF Filling, Preparing, CreateOp, FileOp, WriteInode
  <1>3. /\ inode'[op.ino].ptr = op.ptr
        /\ \A i \in Inodes : inode'[i].kind = inode[i].kind /\ (i # op.ino => inode'[i] = inode[i])
    BY <1>2 DEF WriteInode, ShapeInv, TypeOK
  <1>4. 0 \in Slots /\ Root \in Inodes
    BY DEF Slots, Root, Inodes, FirstIno
  <1>5. \A i \in Inodes : inode[i].ptr[0] # 0 => inode'[i].ptr[0] # 0
    BY <1>2, <1>3, <1>4 DEF ShapeInv, Keep
  <1>6. \A i \in Inodes : HasBlock(i) => HasBlock(i)'
    BY <1>3, <1>5 DEF HasBlock
  <1>7. OneName' /\ Kinds'
    BY <1>2, <1>3, EntryInodes DEF LinkInv, OneName, Kinds, ShapeInv
  <1>8. DirBlocks'
    <2>1. Intact' => \A b \in Blocks : \A e \in ents[b] : HasBlock(e[2])'
      BY <1>2, <1>6, EntryInodes DEF LinkInv, DirBlocks, ShapeInv, Intact
    <2> QED  BY <1>2, <1>3, <1>4, <1>5, <2>1 DEF LinkInv, DirBlocks, HasBlock
  <1>9. CASE op \in FileOp
    <2>1. ~Creating'
      BY <1>9 DEF WriteInode, FileOp, Creating
    <2> QED  BY <1>7, <1>8, <2>1 DEF LinkInv, Unnamed, CreateBlock
  <1>10. CASE op \in CreateOp
    <2>1. /\ op'.ino = op.ino /\ op'.dir = op.dir /\ op'.kind = op.kind /\ op'.pc = "link"
          /\ Creating /\ op.dir \in Inodes
      BY <1>10, IdleIs DEF WriteInode, CreateOp, Creating
    <2>2. Unnamed'
      BY <1>1, <1>2, <1>3, <2>1 DEF LinkInv, Unnamed
    <2>3. Intact' => Intact /\ (op.kind = "dir" => inode'[op.ino].ptr[0] # 0)
      BY <1>1, <1>2, <1>3, <2>1 DEF LinkInv, CreateBlock, Intact
    <2>4. inode'[op.ino].kind = op.kind
      BY <1>1, <1>2, <1>3, <2>1 DEF LinkInv, Unnamed
    <2>5. CreateBlock'
      <3>1. Intact' => HasBlock(op.dir)'
        BY <1>2, <1>3, <1>6, <2>1, <2>3 DEF LinkInv, CreateBlock, HasBlock
      <3> QED  BY <2>1, <2>3, <2>4, <3>1 DEF CreateBlock, HasBlock
    <2> QED  BY <1>7, <1>8, <2>2, <2>5 DEF LinkInv
  <1> QED  BY <1>1, <1>9, <1>10

\* Writing an inode's number or data brings no super block back.
LEMMA MakeEntryIs ==
    ASSUME ShapeInv, NEW d \in Inodes, NEW n, NEW i, NEW fresh \in BOOLEAN,
           MakeEntry(d, n, i, fresh)
    PROVE  /\ inode' = inode /\ (Intact' => Intact)
           /\ \E b \in Blocks :
                /\ b = inode[d].ptr[0]
                /\ ents'[b] = (IF fresh THEN {} ELSE ents[b]) \cup {<<n, i>>}
                /\ \A c \in Blocks : c # b => ents'[c] = ents[c]
  <1>1. 0 \in Slots /\ FirstData \in Blocks /\ Super \notin Inodes
    BY DEF Slots, Blocks, Super, Inodes, Root
  <1>2. PICK b \in Blocks : b = inode[d].ptr[0]
    BY <1>1, SlotIs DEF ShapeInv
  <1>3. /\ ents' = [ents EXCEPT ![b] = (IF fresh THEN {} ELSE ents[b]) \cup {<<n, i>>}]
        /\ data' = [data EXCEPT ![b] = data[b] \cup {d}] /\ inode' = inode
    BY <1>2 DEF MakeEntry
  <1>4. Intact' => Intact
    BY <1>1, <1>2, <1>3 DEF Intact, ShapeInv, TypeOK
  <1>5. /\ ents'[b] = (IF fresh THEN {} ELSE ents[b]) \cup {<<n, i>>}
        /\ \A c \in Blocks : c # b => ents'[c] = ents[c]
    BY <1>2, <1>3 DEF ShapeInv, TypeOK
  <1> QED  BY <1>2, <1>3, <1>4, <1>5

LEMMA LinkLinked == ShapeInv /\ LinkInv /\ (Link \/ LinkSelf \/ LinkParent) => LinkInv'
  <1> SUFFICES ASSUME ShapeInv, LinkInv, Link \/ LinkSelf \/ LinkParent PROVE LinkInv'
    OBVIOUS
  <1>1. op \in CreateOp /\ op # Idle /\ op.pc \in {"link", "dot", "dotdot"}
    BY OpIs DEF Link, LinkSelf, LinkParent, At, FileOp, ShapeInv
  <1>2. /\ Creating /\ op.dir \in Inodes /\ op.ino \in Inodes /\ op.name \in Names
        /\ op.kind \in {"file", "dir"} /\ inode[op.ino].kind = op.kind
    BY <1>1, IdleIs DEF CreateOp, Creating, LinkInv, Unnamed
  <1>3. \E n \in Names \cup {".", ".."}, i \in Inodes : \E b \in Blocks :
          /\ inode' = inode /\ (Intact' => Intact)
          /\ ents'[b] \subseteq ents[b] \cup {<<n, i>>}
          /\ \A c \in Blocks : c # b => ents'[c] = ents[c]
          /\ n \in Names =>
               i = op.ino /\ \A c \in Blocks : \A e \in ents[c] : e[2] # op.ino
          /\ Intact => HasBlock(i)
    <2>1. CASE Link
      <3>1. MakeEntry(op.dir, op.name, op.ino, FALSE) /\ op.pc = "link"
        BY <2>1 DEF Link, At
      <3>2. (\A c \in Blocks : \A e \in ents[c] : e[2] # op.ino) /\ (Intact => HasBlock(op.ino))
        BY <1>2, <3>1 DEF LinkInv, Unnamed, CreateBlock
      <3>3. /\ inode' = inode /\ (Intact' => Intact)
            /\ \E b \in Blocks :
                 /\ b = inode[op.dir].ptr[0]
                 /\ ents'[b] = (IF FALSE THEN {} ELSE ents[b]) \cup {<<op.name, op.ino>>}
                 /\ \A c \in Blocks : c # b => ents'[c] = ents[c]
        BY <1>2, <3>1, MakeEntryIs, ZenonT(30)
      <3> QED  BY <1>2, <3>2, <3>3
    <2>2. CASE LinkSelf
      <3>1. MakeEntry(op.ino, ".", op.ino, TRUE) /\ op.pc = "dot"
        BY <2>2 DEF LinkSelf, At
      <3>2. (Intact => HasBlock(op.ino)) /\ "." \notin Names
        BY <1>2, <3>1, NamesAssumption DEF LinkInv, CreateBlock
      <3>3. /\ inode' = inode /\ (Intact' => Intact)
            /\ \E b \in Blocks :
                 /\ b = inode[op.ino].ptr[0]
                 /\ ents'[b] = (IF TRUE THEN {} ELSE ents[b]) \cup {<<".", op.ino>>}
                 /\ \A c \in Blocks : c # b => ents'[c] = ents[c]
        BY <1>2, <3>1, MakeEntryIs
      <3> QED  BY <1>2, <3>2, <3>3
    <2>3. CASE LinkParent
      <3>1. MakeEntry(op.ino, "..", op.dir, FALSE) /\ op.pc = "dotdot"
        BY <2>3 DEF LinkParent, At
      <3>2. (Intact => HasBlock(op.dir)) /\ ".." \notin Names
        BY <1>2, <3>1, NamesAssumption DEF LinkInv, CreateBlock
      <3>3. /\ inode' = inode /\ (Intact' => Intact)
            /\ \E b \in Blocks :
                 /\ b = inode[op.ino].ptr[0]
                 /\ ents'[b] = (IF FALSE THEN {} ELSE ents[b]) \cup {<<"..", op.dir>>}
                 /\ \A c \in Blocks : c # b => ents'[c] = ents[c]
        BY <1>2, <3>1, MakeEntryIs
      <3> QED  BY <1>2, <3>2, <3>3
    <2> QED  BY <2>1, <2>2, <2>3
  <1>4. PICK n \in Names \cup {".", ".."}, i \in Inodes : \E b \in Blocks :
          /\ inode' = inode /\ (Intact' => Intact)
          /\ ents'[b] \subseteq ents[b] \cup {<<n, i>>}
          /\ \A c \in Blocks : c # b => ents'[c] = ents[c]
          /\ n \in Names =>
               i = op.ino /\ \A c \in Blocks : \A e \in ents[c] : e[2] # op.ino
          /\ Intact => HasBlock(i)
    BY <1>3
  <1>5. PICK b \in Blocks :
          /\ inode' = inode /\ (Intact' => Intact)
          /\ ents'[b] \subseteq ents[b] \cup {<<n, i>>}
          /\ \A c \in Blocks : c # b => ents'[c] = ents[c]
          /\ n \in Names =>
               i = op.ino /\ \A c \in Blocks : \A e \in ents[c] : e[2] # op.ino
          /\ Intact => HasBlock(i)
    BY <1>4
  <1>6. \A c \in Blocks : \A e \in ents'[c] : e \in ents[c] \/ (c = b /\ e = <<n, i>>)
    BY <1>5
  <1>7. OneName'
    <2> SUFFICES ASSUME NEW c1 \in Blocks, NEW c2 \in Blocks, NEW e \in ents'[c1], NEW f \in ents'[c2],
                        e[1] \in Names, f[1] \in Names, e[2] = f[2]
                 PROVE  c1 = c2 /\ e = f
      BY DEF OneName
    <2>1. CASE e \in ents[c1] /\ f \in ents[c2]
      BY <2>1 DEF LinkInv, OneName
    <2>2. CASE e \notin ents[c1]
      <3>1. e = <<n, i>> /\ c1 = b
        BY <1>6, <2>2
      <3>2. f \notin ents[c2]
        BY <1>5, <3>1
      <3> QED  BY <1>6, <3>1, <3>2
    <2>3. CASE f \notin ents[c2]
      <3>1. f = <<n, i>> /\ c2 = b
        BY <1>6, <2>3
      <3>2. e \notin ents[c1]
        BY <1>5, <3>1
      <3> QED  BY <1>6, <3>1, <3>2
    <2> QED  BY <2>1, <2>2, <2>3
  <1>8. Kinds'
    <2> SUFFICES ASSUME NEW c \in Blocks, NEW e \in ents'[c], e[1] \in Names
                 PROVE  inode'[e[2]].kind # "none"
      BY DEF Kinds
    <2>1. CASE e \in ents[c]
      BY <1>5, <2>1 DEF LinkInv, Kinds
    <2>2. CASE e \notin ents[c]
      <3>1. e = <<n, i>> /\ n \in Names
        BY <1>6, <2>2
      <3> QED  BY <1>2, <1>5, <3>1
    <2> QED  BY <2>1, <2>2
  <1>9. DirBlocks'
    <2>1. ASSUME Intact', NEW c \in Blocks, NEW e \in ents'[c] PROVE HasBlock(e[2])
      <3>1. CASE e \in ents[c]
        BY <1>5, <2>1, <3>1 DEF LinkInv, DirBlocks
      <3>2. CASE e \notin ents[c]
        BY <1>5, <1>6, <2>1, <3>2
      <3> QED  BY <3>1, <3>2
    <2> QED  BY <1>5, <2>1 DEF LinkInv, DirBlocks, HasBlock
  <1>10. Unnamed' /\ CreateBlock'
    <2>1. \/ op' = Idle
          \/ /\ op'.ino = op.ino /\ op'.dir = op.dir /\ op'.kind = op.kind /\ op.kind = "dir"
             /\ op'.pc \in {"dot", "dotdot"}
      <3>1. op.pc \in {"dot", "dotdot"} => op.kind = "dir"
        BY <1>2 DEF LinkInv, Unnamed
      <3>2. CASE Link
        BY <1>1, <3>2 DEF Link, CreateOp
      <3>3. CASE LinkSelf
        BY <1>1, <3>1, <3>3 DEF LinkSelf, At, CreateOp
      <3>4. CASE LinkParent
        BY <3>4 DEF LinkParent
      <3> QED  BY <3>2, <3>3, <3>4
    <2>2. CASE op' = Idle
      BY <2>2 DEF Unnamed, CreateBlock, Creating
    <2>3. CASE op' # Idle
      <3>1. Unnamed'
        BY <1>2, <1>5, <2>1, <2>3 DEF LinkInv, Unnamed
      <3>2. CreateBlock'
        BY <1>1, <1>2, <1>5, <2>1, <2>3 DEF LinkInv, CreateBlock, HasBlock
      <3> QED  BY <3>1, <3>2
    <2> QED  BY <2>2, <2>3
  <1> QED  BY <1>7, <1>8, <1>9, <1>10 DEF LinkInv

LEMMA WriteDataIntact ==
    ASSUME ShapeInv, WriteData
    PROVE  /\ inode' = inode /\ (Intact' => Intact) /\ op \in FileOp
           /\ op' = Idle \/ (op'.call = op.call /\ op'.pc = "data")
           /\ \A b \in Blocks : ents'[b] \subseteq ents[b]
  <1> DEFINE f    == handle[op.h]
             from == f.head % BS
             len  == Min({BS - from, op.n})
             k    == f.head \div BS
             b    == f.ptr[k]
             old  == IF len = BS THEN {}
                     ELSE IF from + len = BS THEN data[b] \ {Super} ELSE data[b]
  <1>1. op \in FileOp /\ op.pc = "data" /\ b \in Blocks /\ f.ino = op.ino
    BY WriteDataIs
  <1>2. /\ data' = [data EXCEPT ![b] = old \cup {f.ino}]
        /\ ents' = [ents EXCEPT ![b] = {}]
        /\ op' = IF len = op.n THEN Idle ELSE [op EXCEPT !.n = @ - len]
        /\ inode' = inode
    BY DEF WriteData
  <1>3. old \subseteq data[b]
    OBVIOUS
  <1>4. op.ino # Super /\ FirstData \in Blocks
    BY <1>1 DEF FileOp, Super, Inodes, Root, Blocks
  <1> HIDE DEF old, b, len, f
  <1>5. Intact' => Intact
    BY <1>1, <1>2, <1>3, <1>4 DEF Intact, ShapeInv, TypeOK
  <1>6. \A c \in Blocks : ents'[c] \subseteq ents[c]
    BY <1>1, <1>2 DEF ShapeInv, TypeOK
  <1>7. op' = Idle \/ (op'.call = op.call /\ op'.pc = "data")
    BY <1>1, <1>2 DEF FileOp
  <1> QED  BY <1>1, <1>2, <1>5, <1>6, <1>7

LEMMA WriteDataLinked == ShapeInv /\ LinkInv /\ WriteData => LinkInv'
  <1> SUFFICES ASSUME ShapeInv, LinkInv, WriteData PROVE LinkInv'
    OBVIOUS
  <1>1. /\ inode' = inode /\ (Intact' => Intact) /\ op \in FileOp
        /\ op' = Idle \/ (op'.call = op.call /\ op'.pc = "data")
        /\ \A b \in Blocks : ents'[b] \subseteq ents[b]
    BY WriteDataIntact
  <1>2. ~Creating'
    BY <1>1, FileOpIs DEF Creating, Idle
  <1>3. OneName' /\ Kinds'
    BY <1>1 DEF LinkInv, OneName, Kinds
  <1>4. DirBlocks'
    BY <1>1 DEF LinkInv, DirBlocks, HasBlock
  <1> QED  BY <1>2, <1>3, <1>4 DEF LinkInv, Unnamed, CreateBlock

LEMMA InitLinked == Init => LinkInv
  <1> SUFFICES ASSUME Init PROVE LinkInv
    OBVIOUS
  <1>1. op = Idle /\ ents = [b \in Blocks |-> {}]
    BY DEF Init
  <1>2. inode[Root].kind = "dir" /\ inode[Root].ptr[0] # 0
    BY DEF Init, Root, Inodes, FirstIno, RootBlock, NoPtrs
  <1> QED
    BY <1>1, <1>2 DEF LinkInv, Unnamed, OneName, Kinds, DirBlocks, CreateBlock, Creating

LEMMA NextLinked == OneGroup /\ ShapeInv /\ LinkInv /\ [Next]_vars => LinkInv'
  <1> SUFFICES ASSUME OneGroup, ShapeInv, LinkInv, [Next]_vars PROVE LinkInv'
    OBVIOUS
  <1>1. CASE \/ \E h \in Handles, i \in Inodes : Open(h, i)
             \/ \E h \in Handles : Close(h)
             \/ \E h \in Handles, head \in 0 .. MaxSize : Seek(h, head)
             \/ \E h \in Handles, n \in 1 .. MaxSize : Write(h, n) \/ Truncate(h, n)
             \/ Crash
    <2>1. UNCHANGED <<inode, ents, data>>
      BY <1>1 DEF Open, Close, Seek, Write, Truncate, Crash, disk
    <2>2. op' = Idle \/ op'.call \in {"write", "truncate"}
      <3>1. CASE \E h \in Handles, n \in 1 .. MaxSize : Write(h, n)
        BY <3>1 DEF Write, Grow
      <3>2. CASE \E h \in Handles, n \in 1 .. MaxSize : Truncate(h, n)
        BY <3>2 DEF Truncate, Grow
      <3> QED  BY <1>1, <3>1, <3>2 DEF Open, Close, Seek, Crash
    <2> QED  BY <2>1, <2>2, RestLinked DEF Creating, Idle
  <1>2. CASE UNCHANGED vars
    BY <1>2 DEF vars, LinkInv, Unnamed, OneName, Kinds, DirBlocks, CreateBlock, Creating,
       Intact, HasBlock
  <1> QED
    BY <1>1, <1>2, CreateLinked, MarkLinked, InitInodeLinked, ZeroBlockLinked, WriteInodeLinked,
       LinkLinked, WriteDataLinked DEF Next

LEMMA LinksHold == OneGroup => (Spec => [](ShapeInv /\ BlocksInv /\ LinkInv))
  <1> SUFFICES ASSUME OneGroup PROVE Spec => [](ShapeInv /\ BlocksInv /\ LinkInv)
    OBVIOUS
  <1>1. Init => ShapeInv /\ BlocksInv /\ LinkInv
    BY InitShape, InitBlocks, InitLinked
  <1>2. (ShapeInv /\ BlocksInv /\ LinkInv) /\ [Next]_vars => (ShapeInv /\ BlocksInv /\ LinkInv)'
    BY NextShape, NextBlocks, NextLinked
  <1> QED  BY <1>1, <1>2, PTL DEF Spec

\* A name in a directory stands for an inode that is marked and written, and
\* no inode has two names: a power cut loses the file or keeps it whole, as
\* long as the super block is whole (a disk that was full may have lost it).
THEOREM LinkedWholeHolds == OneGroup => (Spec => []LinkedWhole)
  <1> SUFFICES ASSUME OneGroup PROVE Spec => []LinkedWhole
    OBVIOUS
  <1>1. ShapeInv /\ BlocksInv /\ LinkInv => LinkedWhole
    <2> SUFFICES ASSUME ShapeInv, BlocksInv, LinkInv, Intact, NEW e \in Named
                 PROVE  LET i == e[1][2] IN
                          /\ i \in imap /\ inode[i].kind # "none"
                          /\ op # Idle /\ op.call = "create" /\ op.ino = i => op.pc \in {"dot", "dotdot"}
                          /\ \A f \in Named : f[1][2] = i => f = e
      BY DEF LinkedWhole, Intact
    <2>1. 0 \in Slots /\ Dirs \subseteq Inodes /\ Root \in Dirs
      BY PathsMarked DEF ShapeInv, Slots, Dirs
    <2>2. \A d \in Dirs : HasBlock(d) /\ inode[d].kind = "dir"
      <3>1. inode[Root].ptr[0] \in Blocks
        BY <2>1, SlotIs DEF ShapeInv
      <3> QED  BY <3>1 DEF LinkInv, DirBlocks, HasBlock, Dirs, Entries
    <2>3. \A f \in Named : /\ f = <<f[1], f[2]>> /\ f[2] \in Dirs /\ f[1] \in ents[inode[f[2]].ptr[0]]
                           /\ f[1][1] \in Names /\ inode[f[2]].ptr[0] # 0
                           /\ inode[f[2]].ptr[0] \in Blocks
      <3>1. \A f \in Named : /\ f = <<f[1], f[2]>> /\ f[2] \in Dirs /\ f[1] \in Entries(f[2])
                             /\ f[1][1] \in Names
        BY DEF Named
      <3>2. \A d \in Dirs : inode[d].ptr[0] # 0 /\ inode[d].ptr[0] \in Blocks
        BY <2>1, <2>2, SlotIs DEF HasBlock, ShapeInv
      <3> QED  BY <3>1, <3>2 DEF Entries
    <2>4. e[1][2] \in imap /\ inode[e[1][2]].kind # "none"
      BY <2>3 DEF ShapeInv, Marked, LinkInv, Kinds
    <2>5. Creating /\ op.ino = e[1][2] => op.pc \in {"dot", "dotdot"}
      BY <2>3 DEF LinkInv, Unnamed
    <2>6. ASSUME NEW f \in Named, f[1][2] = e[1][2] PROVE f = e
      <3>1. inode[f[2]].ptr[0] = inode[e[2]].ptr[0] /\ f[1] = e[1]
        BY <2>3, <2>6 DEF LinkInv, OneName
      <3>2. f[2] = e[2]
        <4>1. SlotOwns(e[2], 0)
          BY <2>1, <2>3 DEF BlocksInv
        <4> QED  BY <2>1, <2>3, <3>1, <4>1 DEF SlotOwns
      <3> QED  BY <2>3, <3>1, <3>2
    <2> QED  BY <2>4, <2>5, <2>6 DEF Creating
  <1>2. Spec => [](ShapeInv /\ BlocksInv /\ LinkInv)
    BY LinksHold
  <1> QED  BY <1>1, <1>2, PTL
-----------------------------------------------------------------------------
(* Sizes and blocks.                                                       *)

\* A file has every slot up to its size but one: ext2_extendFile starts a slot
\* past the blocks the file was created with.
Skipped == Count(1)
BackedInode(i) ==
    /\ inode[i].size >= 1
    /\ \A k \in Slots : inode[i].ptr[k] # 0 <=> k <= Count(inode[i].size) /\ k # Skipped

\* Open files are files, and new inodes go to directories.
FileKinds ==
    /\ \A h \in Handles : handle[h] # Closed => inode[handle[h].ino].kind = "file"
    /\ Creating => inode[op.dir].kind = "dir"

\* Files that are open or have an entry are backed.
FilesBacked ==
    Intact =>
      /\ \A h \in Handles : handle[h] # Closed => BackedInode(handle[h].ino)
      /\ \A b \in Blocks : \A e \in ents[b] : inode[e[2]].kind = "file" => BackedInode(e[2])

\* The slots below op.at are filled, and those that are left reach the size.
Reach(k) == IF op.call = "create" THEN k < Count(op.size) ELSE k <= Count(op.size)
OpBacked ==
    /\ Creating /\ op.kind = "file" => op.size = 1
    /\ op # Idle /\ op.pc = "inode" => op.todo = 0
    /\ Intact =>
         /\ Creating /\ op.kind = "file" /\ op.pc = "link" => BackedInode(op.ino)
         /\ Filling /\ (op.call = "create" => op.kind = "file") =>
              /\ op.size >= 1
              /\ op.call # "create" => op.at > Skipped
              /\ \A k \in Slots : op.ptr[k] # 0 <=> k < op.at /\ k # Skipped
              /\ \A k \in Slots : k < op.at + op.todo <=> Reach(k)

BackInv == FileKinds /\ FilesBacked /\ OpBacked

LEMMA SkippedIs == Skipped \in Nat \ {0}
  BY CountGrows DEF Skipped

\* Steps that change no inode, entry or data, and open no file.
LEMMA SameFiles ==
    ASSUME BackInv, UNCHANGED <<inode, ents, data>>, Creating' => inode[op.dir]'.kind = "dir",
           \A h \in Handles : handle'[h] # Closed =>
             handle[h] # Closed /\ handle'[h].ino = handle[h].ino
    PROVE  FileKinds' /\ FilesBacked'
  <1>1. FileKinds'
    BY DEF BackInv, FileKinds
  <1>2. \A i : BackedInode(i) => BackedInode(i)'
    BY DEF BackedInode, Skipped, Count
  <1>3. FilesBacked'
    <2> SUFFICES ASSUME Intact'
                 PROVE  /\ \A h \in Handles : handle'[h] # Closed => BackedInode(handle[h].ino)'
                        /\ \A b \in Blocks : \A e \in ents[b] : inode[e[2]].kind = "file" => BackedInode(e[2])'
      BY DEF FilesBacked
    <2>1. Intact
      BY DEF Intact
    <2>2. \A h \in Handles : handle'[h] # Closed => BackedInode(handle[h].ino)
      BY <2>1 DEF BackInv, FilesBacked
    <2>3. \A h \in Handles : handle'[h] # Closed => handle'[h].ino = handle[h].ino
      OBVIOUS
    <2> QED  BY <1>2, <2>1, <2>2, <2>3 DEF BackInv, FilesBacked, BackedInode
  <1> QED  BY <1>1, <1>3

\* Directories on the paths are directories.
LEMMA DirsAre ==
    ASSUME LinkInv, NEW d \in Dirs
    PROVE  inode[d].kind = "dir"
  BY DEF Dirs, LinkInv, DirBlocks

LEMMA CreateBacked ==
    ASSUME ShapeInv, LinkInv, BackInv,
           NEW d \in Inodes, NEW n \in Names, NEW kind \in {"file", "dir"}, Create(d, n, kind)
    PROVE  BackInv'
  <1> DEFINE size == IF kind = "file" THEN 1 ELSE 0
  <1>1. /\ UNCHANGED <<inode, ents, data, handle>> /\ d \in Dirs
        /\ op'.pc = "imap" /\ op'.call = "create" /\ op'.kind = kind /\ op'.dir = d
        /\ op'.size = size /\ op'.ptr = NoPtrs /\ op'.at = 0
        /\ (kind = "file" => op'.todo = Min({Count(size), Direct}))
    BY DEF Create
  <1>2. FileKinds' /\ FilesBacked'
    BY <1>1, DirsAre, SameFiles
  <1>3. CASE kind = "dir"
    <2>1. op'.call = "create" /\ op'.kind = "dir" /\ op'.pc = "imap"
      BY <1>1, <1>3
    <2>2. OpBacked'
      BY <2>1 DEF OpBacked
    <2> QED  BY <1>2, <2>2 DEF BackInv
  <1>4. CASE kind = "file"
    <2>1. op'.todo = IF Skipped <= Direct THEN Skipped ELSE Direct
      BY <1>1, <1>4, SkippedIs, MinOfTwo DEF Skipped
    <2>2. \A k \in Slots : Reach(k)' <=> k < Skipped
      BY <1>1, <1>4 DEF Reach, Skipped, Count
    <2>3. \A k \in Slots : k \in Nat /\ k < Direct
      BY DEF Slots
    <2>4. \A k \in Slots : k < op'.at + op'.todo <=> Reach(k)'
      BY <1>1, <2>1, <2>2, <2>3, SkippedIs
    <2>5. \A k \in Slots : op'.ptr[k] # 0 <=> k < op'.at /\ k # Skipped
      BY <1>1, <2>3, NoPtrsIs
    <2>6. Skipped' = Skipped
      BY DEF Skipped, Count
    <2>7. OpBacked'
      BY <1>1, <1>4, <2>4, <2>5, <2>6 DEF OpBacked
    <2> QED  BY <1>2, <2>7 DEF BackInv
  <1> QED  BY <1>2, <1>3, <1>4 DEF BackInv

\* Steps that go on with a call and change none of the fields of interest.
LEMMA SameOp ==
    ASSUME BackInv, UNCHANGED <<inode, ents, data, handle>>, op # Idle, op' # Idle, Filling,
           op'.call = op.call, op'.ino = op.ino, op'.size = op.size, op'.ptr = op.ptr,
           op'.at = op.at, op'.todo = op.todo, op'.pc \in {"init", "zero"},
           op.call = "create" => op'.kind = op.kind /\ op'.dir = op.dir
    PROVE  BackInv'
  <1>1. FileKinds' /\ FilesBacked'
    BY SameFiles DEF Creating, BackInv, FileKinds
  <1>2. \A k \in Slots : Reach(k)' <=> Reach(k)
    BY DEF Reach, Count
  <1>3. Skipped' = Skipped /\ (Intact' <=> Intact) /\ (Creating' <=> Creating)
    BY DEF Skipped, Count, Intact, Creating
  <1>4. OpBacked'
    BY <1>2, <1>3 DEF OpBacked, BackInv, Creating
  <1> QED  BY <1>1, <1>4 DEF BackInv

LEMMA MarkBacked == ShapeInv /\ BackInv /\ (MarkInode \/ MarkBlock) => BackInv'
  <1> SUFFICES ASSUME ShapeInv, BackInv, MarkInode \/ MarkBlock PROVE BackInv'
    OBVIOUS
  <1>1. (op \in CreateOp \/ op \in FileOp) /\ op # Idle
    BY OpIs DEF MarkInode, MarkBlock, At, ShapeInv
  <1>2. /\ UNCHANGED <<inode, ents, data, handle>> /\ Filling
    BY <1>1 DEF MarkInode, MarkBlock, At, Filling
  <1>3. /\ op'.call = op.call /\ op'.ino = op.ino /\ op'.size = op.size /\ op'.ptr = op.ptr
        /\ op'.at = op.at /\ op'.todo = op.todo /\ op'.pc \in {"init", "zero"} /\ op' # Idle
    BY <1>1 DEF MarkInode, MarkBlock, At, CreateOp, FileOp, Idle
  <1>4. op.call = "create" => op'.kind = op.kind /\ op'.dir = op.dir
    BY <1>1 DEF MarkInode, MarkBlock, CreateOp, FileOp
  <1> QED  BY <1>1, <1>2, <1>3, <1>4, SameOp

LEMMA InitInodeBacked == ShapeInv /\ LinkInv /\ BackInv /\ InitInode => BackInv'
  <1> SUFFICES ASSUME ShapeInv, LinkInv, BackInv, InitInode PROVE BackInv'
    OBVIOUS
  <1>1. op \in CreateOp /\ op.pc = "init" /\ op # Idle /\ Creating /\ Filling
    BY OpIs, IdleIs DEF InitInode, At, FileOp, ShapeInv, Creating, Filling
  <1>2. /\ op'.call = op.call /\ op'.ino = op.ino /\ op'.dir = op.dir /\ op'.kind = op.kind
        /\ op'.at = op.at /\ op'.size = op.size /\ op'.ptr = op.ptr
        /\ op'.todo = op.todo /\ op'.pc = Fill(op.todo) /\ op' # Idle
        /\ UNCHANGED <<ents, data, handle>> /\ op.ino \in Inodes /\ op.dir \in Inodes
    BY <1>1 DEF InitInode, CreateOp, Idle
  <1>3. \A i \in Inodes : i # op.ino => inode'[i] = inode[i]
    BY <1>2 DEF InitInode, ShapeInv, TypeOK
  <1>4. /\ op.ino # op.dir
        /\ \A b \in Blocks : \A e \in ents[b] : e[2] # op.ino /\ e[2] \in Inodes
    BY <1>1, EntryInodes DEF LinkInv, Unnamed, ShapeInv
  <1>5. \A h \in Handles : handle[h] # Closed => handle[h].ino # op.ino /\ handle[h].ino \in Inodes
    BY <1>1 DEF ShapeInv, OpHandle, Creating, TypeOK, Closed
  <1>6. \A i \in Inodes : i # op.ino => (BackedInode(i) => BackedInode(i)')
    BY <1>3 DEF BackedInode, Skipped, Count
  <1>7. Intact' <=> Intact
    BY <1>2 DEF Intact
  <1>8. FileKinds'
    BY <1>1, <1>2, <1>3, <1>4, <1>5 DEF BackInv, FileKinds
  <1>9. FilesBacked'
    <2>1. Intact' => \A h \in Handles : handle'[h] # Closed => BackedInode(handle[h].ino)'
      <3> SUFFICES ASSUME Intact', NEW h \in Handles, handle'[h] # Closed PROVE BackedInode(handle[h].ino)'
        OBVIOUS
      <3>1. PICK i \in Inodes : i = handle[h].ino /\ i # op.ino
        BY <1>2, <1>5
      <3>2. BackedInode(i)
        BY <1>2, <1>7, <3>1 DEF BackInv, FilesBacked
      <3>3. BackedInode(i)' /\ handle'[h].ino = i
        BY <1>2, <1>6, <3>1, <3>2
      <3> QED  BY <3>3 DEF BackedInode
    <2>2. Intact' => \A b \in Blocks : \A e \in ents'[b] : inode'[e[2]].kind = "file" => BackedInode(e[2])'
      BY <1>2, <1>3, <1>4, <1>6, <1>7 DEF BackInv, FilesBacked
    <2> QED  BY <2>1, <2>2 DEF FilesBacked
  <1>10. OpBacked'
    <2>1. \A k \in Slots : Reach(k)' <=> Reach(k)
      BY <1>2 DEF Reach, Count
    <2>2. Skipped' = Skipped /\ Creating'
      BY <1>1, <1>2 DEF Skipped, Count, Creating
    <2>3. op'.pc = "inode" => op'.todo = 0
      BY <1>1, <1>2 DEF Fill
    <2>4. op'.pc # "link"
      BY <1>2 DEF Fill
    <2> QED  BY <1>1, <1>2, <1>7, <2>1, <2>2, <2>3, <2>4 DEF OpBacked, BackInv
  <1> QED  BY <1>8, <1>9, <1>10 DEF BackInv

LEMMA ZeroBlockBacked == OneGroup /\ ShapeInv /\ BackInv /\ ZeroBlock => BackInv'
  <1> SUFFICES ASSUME OneGroup, ShapeInv, BackInv, ZeroBlock PROVE BackInv'
    OBVIOUS
  <1>1. (op \in CreateOp \/ op \in FileOp) /\ op.pc = "zero" /\ op # Idle
    BY OpIs DEF ZeroBlock, At, ShapeInv
  <1>2. /\ UNCHANGED <<inode, handle>> /\ op.blk \in Blocks
        /\ \A b \in Blocks : ents'[b] \subseteq ents[b]
        /\ Intact' => Intact /\ op.blk # 0
    BY ZeroBlockIntact DEF ZeroBlock
  <1>3. /\ op' # Idle /\ op'.call = op.call /\ op'.ino = op.ino /\ op'.size = op.size
        /\ op'.ptr = [op.ptr EXCEPT ![op.at] = op.blk] /\ op'.pc = Fill(op.todo - 1)
        /\ op'.at = op.at + 1 /\ op'.todo = op.todo - 1
        /\ op.ptr \in Ptrs /\ op.at \in Nat /\ op.todo \in Nat /\ op.size \in Nat
    <2>1. op' = [op EXCEPT !.pc = Fill(op.todo - 1), !.todo = @ - 1,
                           !.at = @ + 1, !.ptr[op.at] = op.blk]
      BY DEF ZeroBlock
    <2>2. op.ptr \in Ptrs /\ op.at \in Nat /\ op.todo \in Nat /\ op.size \in Nat
      BY <1>1 DEF CreateOp, FileOp
    <2> QED  BY <1>1, <2>1, <2>2 DEF CreateOp, FileOp, Idle
  <1>4. op.call = "create" => op'.kind = op.kind /\ op'.dir = op.dir
    BY <1>1 DEF ZeroBlock, CreateOp, FileOp
  <1>5. Filling /\ op.todo > 0 /\ op.at \in Slots
    BY <1>1, <1>3 DEF Filling, ShapeInv, OpSlots, Slots
  <1>6. \A i : BackedInode(i) => BackedInode(i)'
    BY <1>2 DEF BackedInode, Skipped, Count
  <1>7. FileKinds' /\ FilesBacked'
    <2>1. FileKinds'
      BY <1>1, <1>2, <1>3, <1>4 DEF BackInv, FileKinds, Creating
    <2>2. FilesBacked'
      BY <1>2 DEF BackInv, FilesBacked, BackedInode, Skipped, Count
    <2> QED  BY <2>1, <2>2
  <1>8. OpBacked'
    <2>1. \A k \in Slots : Reach(k)' <=> Reach(k)
      BY <1>3 DEF Reach, Count
    <2>2. Skipped' = Skipped /\ Filling' /\ op'.pc # "link" /\ (Creating' <=> Creating)
      BY <1>1, <1>3 DEF Skipped, Count, Creating, Filling, Fill
    <2>3. op'.pc = "inode" => op'.todo = 0
      BY <1>3, <1>5 DEF Fill
    <2>4. ASSUME Intact', op.call = "create" => op.kind = "file"
          PROVE  /\ op.size >= 1
                 /\ op.call # "create" => op'.at > Skipped
                 /\ \A k \in Slots : op'.ptr[k] # 0 <=> k < op'.at /\ k # Skipped
                 /\ \A k \in Slots : k < op'.at + op'.todo <=> Reach(k)
      <3>1. /\ op.size >= 1 /\ Intact
            /\ op.call # "create" => op.at > Skipped
            /\ \A k \in Slots : op.ptr[k] # 0 <=> k < op.at /\ k # Skipped
            /\ \A k \in Slots : k < op.at + op.todo <=> Reach(k)
        BY <1>2, <1>5, <2>4 DEF BackInv, OpBacked
      <3>2. op.at # Skipped
        <4>1. CASE op.call # "create"
          BY <3>1, <4>1, SkippedIs, <1>3
        <4>2. CASE op.call = "create"
          <5>1. op.at < Count(op.size)
            BY <1>3, <1>5, <3>1, <4>2 DEF Reach
          <5>2. Creating /\ op.kind = "file"
            BY <1>1, <2>4, <4>2 DEF Creating
          <5>3. op.size = 1
            BY <5>2 DEF BackInv, OpBacked
          <5> QED  BY <5>1, <5>3, SkippedIs, <1>3 DEF Skipped
        <4> QED  BY <4>1, <4>2
      <3>3. \A k \in Slots : k \in Nat
        BY DEF Slots
      <3>4. \A k \in Slots : op'.ptr[k] = IF k = op.at THEN op.blk ELSE op.ptr[k]
        BY <1>3 DEF Ptrs, Slots
      <3>5. \A k \in Slots : op'.ptr[k] # 0 <=> k < op'.at /\ k # Skipped
        <4> SUFFICES ASSUME NEW k \in Slots PROVE op'.ptr[k] # 0 <=> k < op'.at /\ k # Skipped
          OBVIOUS
        <4>1. CASE k = op.at
          BY <1>2, <1>3, <2>4, <3>2, <3>4, <4>1
        <4>2. CASE k # op.at
          <5>1. k \in Nat /\ (k < op.at + 1 <=> k < op.at)
            BY <1>3, <3>3, <4>2
          <5> QED  BY <1>3, <3>1, <3>4, <4>2, <5>1
        <4> QED  BY <4>1, <4>2
      <3>6. \A k \in Slots : k < op'.at + op'.todo <=> Reach(k)
        BY <1>3, <1>5, <3>1, <3>3
      <3>7. op.call # "create" => op'.at > Skipped
        BY <1>3, <3>1, SkippedIs
      <3> QED  BY <3>1, <3>5, <3>6, <3>7
    <2> QED  BY <1>3, <1>4, <2>1, <2>2, <2>3, <2>4 DEF OpBacked, BackInv, Creating
  <1> QED  BY <1>7, <1>8 DEF BackInv

\* The inode is written when the last slot its size asks for is filled.
LEMMA WriteInodeBacked == ShapeInv /\ LinkInv /\ BackInv /\ WriteInode => BackInv'
  <1> SUFFICES ASSUME ShapeInv, LinkInv, BackInv, WriteInode PROVE BackInv'
    OBVIOUS
  <1>1. (op \in CreateOp \/ op \in FileOp) /\ op.pc = "inode" /\ op # Idle /\ Filling
    BY OpIs DEF WriteInode, At, ShapeInv, Filling
  <1>2. op.ino \in Inodes /\ op.size \in Nat /\ op.at \in Nat /\ UNCHANGED <<ents, data>>
    BY <1>1 DEF CreateOp, FileOp, WriteInode
  <1>3. /\ inode'[op.ino].ptr = op.ptr /\ inode'[op.ino].size = op.size
        /\ \A i \in Inodes : inode'[i].kind = inode[i].kind /\ (i # op.ino => inode'[i] = inode[i])
    BY <1>2 DEF WriteInode, ShapeInv, TypeOK
  <1>4. Intact' <=> Intact
    BY <1>2 DEF Intact
  <1>5. ASSUME NEW i \in Inodes, i = op.ino, Intact, op.call = "create" => op.kind = "file"
        PROVE  BackedInode(i)'
    <2>1. /\ op.size >= 1 /\ op.todo = 0
          /\ \A k \in Slots : op.ptr[k] # 0 <=> k < op.at /\ k # Skipped
          /\ \A k \in Slots : k < op.at + op.todo <=> Reach(k)
      BY <1>1, <1>5 DEF BackInv, OpBacked
    <2>2. \A k \in Slots : k < op.at <=> Reach(k)
      BY <1>2, <2>1
    <2>3. \A k \in Slots : Reach(k) /\ k # Skipped <=> k <= Count(op.size) /\ k # Skipped
      <3>1. CASE op.call # "create"
        BY <3>1 DEF Reach
      <3>2. CASE op.call = "create"
        <4>1. op.size = 1
          BY <1>1, <1>5, <3>2 DEF BackInv, OpBacked, Creating
        <4>2. \A k \in Slots : k \in Nat
          BY DEF Slots
        <4>3. \A k \in Slots : k < Skipped <=> k <= Skipped /\ k # Skipped
          BY ONLY <4>2, SkippedIs
        <4> QED  BY <3>2, <4>1, <4>3 DEF Reach, Skipped
      <3> QED  BY <3>1, <3>2
    <2>4. Skipped' = Skipped
      BY DEF Skipped, Count
    <2>5. \A k \in Slots : op.ptr[k] # 0 <=> k <= Count(op.size) /\ k # Skipped
      BY <2>1, <2>2, <2>3
    <2> QED  BY <1>3, <1>5, <2>1, <2>4, <2>5 DEF BackedInode, Count
  <1>6. \A i \in Inodes : i # op.ino => (BackedInode(i) => BackedInode(i)')
    BY <1>3 DEF BackedInode, Skipped, Count
  <1>7. \A h \in Handles : handle'[h] # Closed =>
          handle[h] # Closed /\ handle'[h].ino = handle[h].ino /\ handle[h].ino \in Inodes
    <2>1. \A h \in Handles : handle[h] # Closed => handle[h].ino \in Inodes
      BY DEF ShapeInv, TypeOK, Closed
    <2>2. CASE op.call = "create"
      BY <2>1, <2>2 DEF WriteInode
    <2>3. CASE op.call # "create"
      <3>1. op.h \in Handles /\ handle[op.h] # Closed
        BY <1>1, <2>3 DEF ShapeInv, OpHandle, CreateOp, FileOp
      <3>2. handle' = [handle EXCEPT ![op.h].size = op.size, ![op.h].ptr = op.ptr]
        BY <1>1, <2>3 DEF WriteInode, CreateOp, FileOp
      <3>3. handle[op.h] \in [ino : Inodes, size : 0 .. MaxFile, ptr : Ptrs, head : 0 .. MaxSize]
        BY <3>1 DEF ShapeInv, TypeOK
      <3>4. handle'[op.h].ino = handle[op.h].ino /\ \A h \in Handles : h # op.h => handle'[h] = handle[h]
        BY <3>1, <3>2, <3>3 DEF ShapeInv, TypeOK
      <3> QED  BY <2>1, <3>1, <3>4
    <2> QED  BY <2>2, <2>3
  <1>8. op.call = "create" =>
          /\ op' # Idle /\ op'.call = "create" /\ op'.pc = "link" /\ op'.kind = op.kind
          /\ op'.dir = op.dir /\ op'.ino = op.ino /\ op'.size = op.size
          /\ op.dir \in Inodes
    BY <1>1 DEF WriteInode, CreateOp, FileOp, Idle
  <1>9. op.call # "create" => op' = Idle \/ (op'.call # "create" /\ op'.pc = "data")
    BY <1>1 DEF WriteInode, CreateOp, FileOp
  <1>10. FileKinds'
    <2>1. Creating' => Creating /\ op'.dir = op.dir /\ op.dir \in Inodes
      BY <1>1, <1>8, <1>9 DEF Creating
    <2> QED  BY <1>3, <1>7, <2>1 DEF BackInv, FileKinds
  <1>11. ASSUME Intact, NEW i \in Inodes, inode[i].kind = "file",
                \/ \E h \in Handles : handle[h] # Closed /\ handle[h].ino = i
                \/ \E b \in Blocks : \E e \in ents[b] : e[2] = i
         PROVE  BackedInode(i)'
    <2>1. BackedInode(i)
      BY <1>11 DEF BackInv, FilesBacked
    <2>2. i = op.ino /\ op.call = "create" => op.kind = "file"
      BY <1>1, <1>11 DEF LinkInv, Unnamed, Creating
    <2> QED  BY <1>5, <1>6, <1>11, <2>1, <2>2
  <1>12. FilesBacked'
    <2>1. ASSUME Intact', NEW h \in Handles, handle'[h] # Closed PROVE BackedInode(handle[h].ino)'
      <3>1. PICK i \in Inodes : i = handle[h].ino /\ handle[h] # Closed /\ handle'[h].ino = i
        BY <1>7, <2>1
      <3>2. inode[i].kind = "file"
        BY <3>1 DEF BackInv, FileKinds
      <3>3. BackedInode(i)'
        BY <1>4, <1>11, <2>1, <3>1, <3>2
      <3> QED  BY <3>1, <3>3 DEF BackedInode
    <2>2. ASSUME Intact', NEW b \in Blocks, NEW e \in ents'[b], inode'[e[2]].kind = "file"
          PROVE  BackedInode(e[2])'
      <3>1. e \in ents[b] /\ e[2] \in Inodes
        BY <1>2, <2>2, EntryInodes DEF ShapeInv
      <3> QED  BY <1>3, <1>4, <1>11, <2>2, <3>1
    <2> QED  BY <2>1, <2>2 DEF FilesBacked
  <1>13. OpBacked'
    <2>1. CASE op.call # "create"
      BY <1>9, <2>1 DEF OpBacked, Creating, Filling
    <2>2. CASE op.call = "create"
      <3>1. Creating
        BY <1>1, <2>2 DEF Creating
      <3>2. op.kind = "file" => op.size = 1
        BY <3>1 DEF BackInv, OpBacked
      <3>3. ASSUME Intact', op.kind = "file" PROVE BackedInode(op.ino)'
        <4>1. PICK i \in Inodes : i = op.ino
          BY <1>2
        <4>2. BackedInode(i)'
          BY <1>4, <1>5, <3>3, <4>1
        <4> QED  BY <1>8, <2>2, <4>1, <4>2 DEF BackedInode
      <3> QED  BY <1>8, <2>2, <3>2, <3>3 DEF OpBacked, Filling
    <2> QED  BY <2>1, <2>2
  <1> QED  BY <1>10, <1>12, <1>13 DEF BackInv

LEMMA LinkBacked ==
    ASSUME ShapeInv, LinkInv, BackInv, Link \/ LinkSelf \/ LinkParent
    PROVE  BackInv'
  <1>1. op \in CreateOp /\ op # Idle /\ op.pc \in {"link", "dot", "dotdot"}
    BY OpIs DEF Link, LinkSelf, LinkParent, At, FileOp, ShapeInv
  <1>2. /\ Creating /\ op.dir \in Inodes /\ op.ino \in Inodes
        /\ op.kind \in {"file", "dir"} /\ inode[op.ino].kind = op.kind
        /\ inode[op.dir].kind = "dir"
    BY <1>1, IdleIs DEF CreateOp, Creating, LinkInv, Unnamed, BackInv, FileKinds
  <1>3. inode' = inode /\ handle' = handle /\ (Intact' => Intact)
    BY <1>2, MakeEntryIs, ZenonT(30) DEF Link, LinkSelf, LinkParent, MakeEntry
  <1>4. \E n, i : /\ \A b \in Blocks : ents'[b] \subseteq ents[b] \cup {<<n, i>>}
                  /\ inode[i].kind = "file" /\ Intact => BackedInode(i)
    <2>1. CASE Link
      <3>1. MakeEntry(op.dir, op.name, op.ino, FALSE) /\ op.pc = "link"
        BY <2>1 DEF Link, At
      <3>2. inode[op.ino].kind = "file" /\ Intact => BackedInode(op.ino)
        BY <1>2, <3>1 DEF BackInv, OpBacked
      <3>3. \E b \in Blocks :
                 /\ b = inode[op.dir].ptr[0]
                 /\ ents'[b] = (IF FALSE THEN {} ELSE ents[b]) \cup {<<op.name, op.ino>>}
                 /\ \A c \in Blocks : c # b => ents'[c] = ents[c]
        BY <1>2, <3>1, MakeEntryIs, ZenonT(30)
      <3>4. \A b \in Blocks : ents'[b] \subseteq ents[b] \cup {<<op.name, op.ino>>}
        BY <3>3
      <3> QED  BY <3>2, <3>4
    <2>2. CASE LinkSelf
      <3>1. MakeEntry(op.ino, ".", op.ino, TRUE) /\ op.pc = "dot"
        BY <2>2 DEF LinkSelf, At
      <3>2. inode[op.ino].kind # "file"
        BY <1>2, <3>1 DEF LinkInv, Unnamed
      <3>3. \E b \in Blocks :
                 /\ b = inode[op.ino].ptr[0]
                 /\ ents'[b] = (IF TRUE THEN {} ELSE ents[b]) \cup {<<".", op.ino>>}
                 /\ \A c \in Blocks : c # b => ents'[c] = ents[c]
        BY <1>2, <3>1, MakeEntryIs, ZenonT(30)
      <3>4. \A b \in Blocks : ents'[b] \subseteq ents[b] \cup {<<".", op.ino>>}
        BY <3>3
      <3> QED  BY <3>2, <3>4
    <2>3. CASE LinkParent
      <3>1. MakeEntry(op.ino, "..", op.dir, FALSE)
        BY <2>3 DEF LinkParent
      <3>3. \E b \in Blocks :
                 /\ b = inode[op.ino].ptr[0]
                 /\ ents'[b] = (IF FALSE THEN {} ELSE ents[b]) \cup {<<"..", op.dir>>}
                 /\ \A c \in Blocks : c # b => ents'[c] = ents[c]
        BY <1>2, <3>1, MakeEntryIs
      <3>4. \A b \in Blocks : ents'[b] \subseteq ents[b] \cup {<<"..", op.dir>>}
        BY <3>3
      <3> QED  BY <1>2, <3>4
    <2> QED  BY <2>1, <2>2, <2>3
  <1>5. \A i : BackedInode(i) => BackedInode(i)'
    BY <1>3 DEF BackedInode, Skipped, Count
  <1>6. op' = Idle \/ /\ op'.dir = op.dir /\ op'.kind = op.kind /\ op'.pc \in {"dot", "dotdot"}
                      /\ op'.size = op.size
    BY <1>1 DEF Link, LinkSelf, LinkParent, CreateOp
  <1>7. FileKinds'
    BY <1>2, <1>3, <1>6 DEF BackInv, FileKinds, Creating
  <1>8. FilesBacked'
    <2>1. PICK n, i : /\ \A b \in Blocks : ents'[b] \subseteq ents[b] \cup {<<n, i>>}
                      /\ inode[i].kind = "file" /\ Intact => BackedInode(i)
      BY <1>4
    <2>2. ASSUME Intact', NEW h \in Handles, handle'[h] # Closed PROVE BackedInode(handle[h].ino)'
      <3>1. BackedInode(handle[h].ino)
        BY <1>3, <2>2 DEF BackInv, FilesBacked
      <3> QED  BY <1>3, <3>1 DEF BackedInode, Skipped, Count
    <2>3. ASSUME Intact', NEW b \in Blocks, NEW e \in ents'[b], inode'[e[2]].kind = "file"
          PROVE  BackedInode(e[2])'
      <3>1. CASE e \in ents[b]
        BY <1>3, <1>5, <2>3, <3>1 DEF BackInv, FilesBacked
      <3>2. CASE e \notin ents[b]
        BY <1>3, <1>5, <2>1, <2>3, <3>2
      <3> QED  BY <3>1, <3>2
    <2> QED  BY <2>2, <2>3 DEF FilesBacked
  <1>9. OpBacked'
    <2>1. CASE op' = Idle
      BY <2>1 DEF OpBacked, Creating, Filling
    <2>2. CASE op' # Idle
      BY <1>2, <1>6, <2>2 DEF OpBacked, BackInv, Filling
    <2> QED  BY <2>1, <2>2
  <1> QED  BY <1>7, <1>8, <1>9 DEF BackInv

\* ext2_extendFile will fill the slots up to the new size.
LEMMA ExtensionReaches ==
    ASSUME TypeOK, NEW i \in Inodes, NEW amount \in Nat
    PROVE  LET e == Extension(i, amount)
           IN  /\ e.size >= inode[i].size /\ e.at = Count(inode[i].size) + 1
               /\ \A k \in Slots : k < e.at + e.todo <=> k <= Count(e.size)
  <1> DEFINE cur == inode[i].size
             new == cur + amount
             old == Count(cur)
             more == Count(new)
             first == old + 1
             room == Min({more - old, Direct - first})
             e == Extension(i, amount)
  <1>1. cur \in Nat /\ new \in Nat /\ cur <= new
    BY DEF TypeOK
  <1>2. old \in Nat \ {0} /\ old <= more /\ more \in Nat
    BY <1>1, CountGrows
  <1>3. e.size = new /\ e.at = first /\ e.todo = Max({0, room})
    BY DEF Extension
  <1>4. room = IF more - old <= Direct - first THEN more - old ELSE Direct - first
    <2> HIDE DEF old, more
    <2> QED  BY <1>2, MinOfTwo
  <1>5. Max({0, room}) = IF 0 >= room THEN 0 ELSE room
    <2>1. room \in Int
      <3> HIDE DEF old, more, room
      <3> QED  BY <1>2, <1>4
    <2> HIDE DEF room
    <2> QED  BY <2>1, MaxOfTwo
  <1>6. more = Count(e.size)
    BY <1>3
  <1> HIDE DEF e, room, old, more, new, cur
  <1>7. ASSUME NEW k \in Slots PROVE k < e.at + e.todo <=> k <= more
    <2>1. k \in Nat /\ k < Direct
      BY DEF Slots
    <2>2. Direct \in Nat
      OBVIOUS
    <2> QED  BY ONLY <1>2, <1>3, <1>4, <1>5, <2>1, <2>2
  <1>8. e.size >= cur /\ e.at = old + 1
    BY <1>1, <1>3 DEF new
  <1> QED  BY <1>6, <1>7, <1>8 DEF e, old, cur

\* Steps after which no call is in progress and that change no handle's inode.
LEMMA IdleBacked ==
    ASSUME BackInv, UNCHANGED <<inode, ents, data>>,
           op' = Idle \/ (op'.call # "create" /\ op'.pc = "data"),
           \A h \in Handles : handle'[h] # Closed =>
             handle[h] # Closed /\ handle'[h].ino = handle[h].ino
    PROVE  BackInv'
  <1>1. FileKinds' /\ FilesBacked'
    BY SameFiles DEF Creating
  <1>2. OpBacked'
    BY DEF OpBacked, Creating, Filling
  <1> QED  BY <1>1, <1>2 DEF BackInv

LEMMA HandleIs ==
    ASSUME TypeOK, NEW h \in Handles, handle[h] # Closed
    PROVE  /\ handle[h].ino \in Inodes
           /\ handle[h] \in [ino : Inodes, size : 0 .. MaxFile, ptr : Ptrs, head : 0 .. MaxSize]
  BY DEF TypeOK, Closed

LEMMA HandlesBacked ==
    ASSUME ShapeInv, LinkInv, BackInv,
           \/ \E h \in Handles, i \in Inodes : Open(h, i)
           \/ \E h \in Handles : Close(h)
           \/ \E h \in Handles, head \in 0 .. MaxSize : Seek(h, head)
           \/ Crash
    PROVE  BackInv'
  <1>1. UNCHANGED <<inode, ents, data>> /\ op' = Idle
    BY DEF Open, Close, Seek, Crash, disk
  <1>2. CASE Crash \/ \E h \in Handles : Close(h)
    <2>1. \A h \in Handles : handle'[h] # Closed => handle'[h] = handle[h]
      BY <1>2 DEF Crash, Close, ShapeInv, TypeOK
    <2> QED  BY <1>1, <2>1, IdleBacked
  <1>3. CASE \E h \in Handles, head \in 0 .. MaxSize : Seek(h, head)
    <2>1. PICK g \in Handles, head \in 0 .. MaxSize : Seek(g, head)
      BY <1>3
    <2>2. handle[g] # Closed /\ handle' = [handle EXCEPT ![g].head = head]
      BY <2>1 DEF Seek
    <2>3. handle'[g].ino = handle[g].ino /\ \A h \in Handles : h # g => handle'[h] = handle[h]
      BY <2>2, HandleIs DEF ShapeInv, TypeOK
    <2> QED  BY <1>1, <2>2, <2>3, IdleBacked
  <1>4. CASE \E h \in Handles, i \in Inodes : Open(h, i)
    <2>1. PICK g \in Handles, i \in Inodes : Open(g, i)
      BY <1>4
    <2>2. inode[i].kind = "file" /\ (Intact => BackedInode(i))
      <3>1. PICK d \in Dirs : \E e \in Entries(d) : e[2] = i /\ inode[i].kind = "file"
        BY <2>1 DEF Open, Files
      <3>2. inode[d].ptr[0] \in Blocks
        BY <3>1, PathsMarked, SlotIs DEF ShapeInv, Slots
      <3> QED  BY <3>1, <3>2 DEF Entries, BackInv, FilesBacked
    <2>3. handle'[g].ino = i /\ \A h \in Handles : h # g => handle'[h] = handle[h]
      BY <2>1 DEF Open, ShapeInv, TypeOK
    <2>4. \A j : BackedInode(j) => BackedInode(j)'
      BY <1>1 DEF BackedInode, Skipped, Count
    <2>5. FileKinds'
      BY <1>1, <2>2, <2>3 DEF BackInv, FileKinds, Creating
    <2>6. Intact' <=> Intact
      BY <1>1 DEF Intact
    <2>7. FilesBacked'
      <3>1. ASSUME Intact', NEW h \in Handles, handle'[h] # Closed PROVE BackedInode(handle[h].ino)'
        <4>1. PICK j : j = handle'[h].ino
          OBVIOUS
        <4>2. BackedInode(j)
          BY <2>2, <2>3, <2>6, <3>1, <4>1 DEF BackInv, FilesBacked
        <4> QED  BY <2>4, <4>1, <4>2 DEF BackedInode
      <3>2. ASSUME Intact', NEW b \in Blocks, NEW e \in ents'[b], inode'[e[2]].kind = "file"
            PROVE  BackedInode(e[2])'
        BY <1>1, <2>4, <2>6, <3>2 DEF BackInv, FilesBacked
      <3> QED  BY <3>1, <3>2 DEF FilesBacked
    <2>8. OpBacked'
      BY <1>1 DEF OpBacked, Creating, Filling
    <2> QED  BY <2>5, <2>7, <2>8 DEF BackInv
  <1> QED  BY <1>2, <1>3, <1>4

LEMMA GrowBacked ==
    ASSUME ShapeInv, BackInv, NEW h \in Handles, handle[h] # Closed,
           NEW call \in {"write", "truncate"}, NEW amount \in Nat,
           NEW n, Grow(h, call, amount, n), UNCHANGED disk
    PROVE  BackInv'
  <1> DEFINE i    == handle[h].ino
             full == Count(inode[i].size) >= Direct
             ext  == Extension(i, amount)
  <1>1. i \in Inodes /\ UNCHANGED <<inode, ents, data>>
    BY HandleIs DEF ShapeInv, disk
  <1>2. \A g \in Handles : handle'[g] # Closed => handle[g] # Closed /\ handle'[g].ino = handle[g].ino
    <2>1. handle' = [handle EXCEPT ![h].size = IF full THEN inode[i].size ELSE @,
                                   ![h].ptr = IF full THEN inode[i].ptr ELSE @]
      BY DEF Grow
    <2>2. handle'[h].ino = i /\ \A g \in Handles : g # h => handle'[g] = handle[g]
      <3> HIDE DEF full
      <3> QED  BY <2>1, HandleIs DEF ShapeInv, TypeOK
    <2> QED  BY <2>2
  <1>3. CASE op' = Idle
    BY <1>1, <1>2, <1>3, IdleBacked
  <1>4. CASE op' # Idle
    <2>1. /\ op'.call = call /\ op'.ino = i /\ op'.pc = (IF full THEN "data" ELSE Fill(ext.todo))
          /\ op'.size = ext.size /\ op'.ptr = ext.ptr /\ op'.at = ext.at /\ op'.todo = ext.todo
      BY <1>4 DEF Grow
    <2>2. CASE full
      <3>1. op'.call # "create" /\ op'.pc = "data"
        BY <2>1, <2>2
      <3> QED  BY <1>1, <1>2, <3>1, IdleBacked
    <2>3. CASE ~full
      <3> HIDE DEF i
      <3>1. /\ ext.size >= inode[i].size /\ ext.at = Count(inode[i].size) + 1
            /\ \A k \in Slots : k < ext.at + ext.todo <=> k <= Count(ext.size)
            /\ ext.ptr = inode[i].ptr /\ ext.size \in Nat /\ inode[i].size \in Nat
        BY <1>1, ExtensionReaches, ExtensionIs DEF ShapeInv, TypeOK
      <3> HIDE DEF ext, full
      <3>2. ~Creating' /\ Skipped' = Skipped
        BY <2>1 DEF Creating, Skipped, Count
      <3>3. FileKinds' /\ FilesBacked'
        BY <1>1, <1>2, <3>2, SameFiles
      <3>4. \A k \in Slots : Reach(k)' <=> k <= Count(ext.size)
        BY <2>1 DEF Reach, Count
      <3>5. op'.pc = "inode" => op'.todo = 0
        BY <2>1, <2>3 DEF Fill
      <3>6. ASSUME Intact'
            PROVE  /\ ext.size >= 1 /\ ext.at > Skipped
                   /\ \A k \in Slots : ext.ptr[k] # 0 <=> k < ext.at /\ k # Skipped
        <4>1. BackedInode(i)
          BY <1>1, <3>6 DEF BackInv, FilesBacked, i, Intact
        <4>2. 1 <= inode[i].size
          BY <3>1, <4>1 DEF BackedInode
        <4>3. Skipped <= Count(inode[i].size) /\ Count(inode[i].size) \in Nat
          BY <3>1, <4>2, CountGrows DEF Skipped
        <4>4. \A k \in Slots : k \in Nat
          BY DEF Slots
        <4>5. \A k \in Slots : k < ext.at <=> k <= Count(inode[i].size)
          BY <3>1, <4>3, <4>4
        <4>6. \A k \in Slots : inode[i].ptr[k] # 0 <=> k <= Count(inode[i].size) /\ k # Skipped
          BY <4>1 DEF BackedInode
        <4>7. \A k \in Slots : ext.ptr[k] # 0 <=> k < ext.at /\ k # Skipped
          BY <3>1, <4>5, <4>6
        <4>8. ext.size >= 1 /\ ext.at > Skipped
          BY <3>1, <4>2, <4>3, SkippedIs
        <4> QED  BY <4>7, <4>8
      <3>7. OpBacked'
        BY <2>1, <3>1, <3>2, <3>4, <3>5, <3>6 DEF OpBacked
      <3> QED  BY <3>3, <3>7 DEF BackInv
    <2> QED  BY <2>2, <2>3
  <1> QED  BY <1>3, <1>4

LEMMA WriteBacked ==
    ASSUME ShapeInv, BackInv, NEW h \in Handles, NEW n \in 1 .. MaxSize,
           Write(h, n) \/ Truncate(h, n)
    PROVE  BackInv'
  <1>1. handle[h] # Closed /\ UNCHANGED disk /\ UNCHANGED <<inode, ents, data>>
    BY DEF Write, Truncate, disk
  <1>2. handle[h].size \in Nat /\ handle[h].head \in Nat
    BY <1>1, HandleIs DEF ShapeInv
  <1>3. CASE Truncate(h, n)
    <2>1. Grow(h, "truncate", handle[h].size + n, 0) /\ handle[h].size + n \in Nat
      BY <1>2, <1>3 DEF Truncate
    <2> QED  BY <1>1, <2>1, GrowBacked
  <1>4. CASE Write(h, n) /\ handle[h].head + n >= handle[h].size
    <2>1. Grow(h, "write", handle[h].head + n - handle[h].size, n)
          /\ handle[h].head + n - handle[h].size \in Nat
      BY <1>2, <1>4 DEF Write
    <2> QED  BY <1>1, <2>1, GrowBacked
  <1>5. CASE Write(h, n) /\ ~(handle[h].head + n >= handle[h].size)
    <2>1. op'.call = "write" /\ op'.pc = "data" /\ handle' = handle
      BY <1>5 DEF Write
    <2> QED  BY <1>1, <2>1, IdleBacked
  <1> QED  BY <1>3, <1>4, <1>5

LEMMA WriteDataBacked == ShapeInv /\ BackInv /\ WriteData => BackInv'
  <1> SUFFICES ASSUME ShapeInv, BackInv, WriteData PROVE BackInv'
    OBVIOUS
  <1>1. /\ inode' = inode /\ (Intact' => Intact) /\ op \in FileOp
        /\ op' = Idle \/ (op'.call = op.call /\ op'.pc = "data")
        /\ \A b \in Blocks : ents'[b] \subseteq ents[b]
    BY WriteDataIntact
  <1>2. \A h \in Handles : handle'[h] # Closed => handle[h] # Closed /\ handle'[h].ino = handle[h].ino
    <2>1. op.h \in Handles /\ handle[op.h] # Closed
      BY WriteDataIs DEF FileOp, ShapeInv, OpHandle
    <2>2. PICK x : handle' = [handle EXCEPT ![op.h].head = x]
      BY DEF WriteData
    <2>3. handle'[op.h].ino = handle[op.h].ino /\ \A h \in Handles : h # op.h => handle'[h] = handle[h]
      BY <2>1, <2>2, HandleIs DEF ShapeInv, TypeOK
    <2> QED  BY <2>1, <2>3
  <1>3. ~Creating' /\ ~Filling' /\ (op' # Idle => op'.pc = "data")
    BY <1>1, FileOpIs DEF Creating, Filling
  <1>4. \A j : BackedInode(j) => BackedInode(j)'
    BY <1>1 DEF BackedInode, Skipped, Count
  <1>5. FileKinds'
    BY <1>1, <1>2, <1>3 DEF BackInv, FileKinds
  <1>6. FilesBacked'
    <2>1. ASSUME Intact', NEW h \in Handles, handle'[h] # Closed PROVE BackedInode(handle[h].ino)'
      <3>1. PICK j : j = handle'[h].ino
        OBVIOUS
      <3>2. BackedInode(j)
        BY <1>1, <1>2, <2>1, <3>1 DEF BackInv, FilesBacked
      <3> QED  BY <1>4, <3>1, <3>2 DEF BackedInode
    <2>2. ASSUME Intact', NEW b \in Blocks, NEW e \in ents'[b], inode'[e[2]].kind = "file"
          PROVE  BackedInode(e[2])'
      BY <1>1, <1>4, <2>2 DEF BackInv, FilesBacked
    <2> QED  BY <2>1, <2>2 DEF FilesBacked
  <1>7. OpBacked'
    BY <1>3 DEF OpBacked
  <1> QED  BY <1>5, <1>6, <1>7 DEF BackInv

LEMMA InitBacked == Init => BackInv
  BY DEF Init, BackInv, FileKinds, FilesBacked, OpBacked, Creating, Filling

LEMMA NextBacked == OneGroup /\ ShapeInv /\ LinkInv /\ BackInv /\ [Next]_vars => BackInv'
  <1> SUFFICES ASSUME OneGroup, ShapeInv, LinkInv, BackInv, [Next]_vars PROVE BackInv'
    OBVIOUS
  <1>1. CASE UNCHANGED vars
    BY <1>1 DEF vars, BackInv, FileKinds, FilesBacked, OpBacked, Creating, Filling,
       Intact, BackedInode, Skipped, Count, Reach
  <1> QED
    BY <1>1, CreateBacked, MarkBacked, InitInodeBacked, ZeroBlockBacked, WriteInodeBacked,
       LinkBacked, HandlesBacked, WriteBacked, WriteDataBacked DEF Next

\* An interval from 0 with one hole has as many elements as its upper end.
LEMMA HoleCount == ASSUME NEW c \in Nat, NEW s \in 0 .. c
                   PROVE  Cardinality((0 .. c) \ {s}) = c
  <1>1. IsFiniteSet(0 .. c)
    BY FS_Interval
  <1>2. Cardinality(0 .. c) = c + 1
    <2>1. 0 <= c /\ Cardinality(0 .. c) = c - 0 + 1
      BY FS_Interval
    <2> QED  BY <2>1
  <1>3. Cardinality((0 .. c) \ {s}) = Cardinality(0 .. c) - 1
    BY <1>1, FS_RemoveElement, Zenon
  <1>4. Cardinality((0 .. c) \ {s}) = (c + 1) - 1
    BY ONLY <1>2, <1>3, Zenon
  <1>5. (c + 1) - 1 = c
    OBVIOUS
  <1> QED  BY ONLY <1>4, <1>5, Zenon

\* Size and blocks change together: a named file has as many blocks as its
\* size asks for, whatever call was cut short.
THEOREM SizeBackedHolds == OneGroup => (Spec => []SizeBacked)
  <1> SUFFICES ASSUME OneGroup PROVE Spec => []SizeBacked
    OBVIOUS
  <1>1. Init => ShapeInv /\ LinkInv /\ BackInv
    BY InitShape, InitLinked, InitBacked
  <1>2. (ShapeInv /\ LinkInv /\ BackInv) /\ [Next]_vars => (ShapeInv /\ LinkInv /\ BackInv)'
    BY NextShape, NextLinked, NextBacked
  <1>3. ShapeInv /\ LinkInv /\ BackInv => SizeBacked
    <2> SUFFICES ASSUME ShapeInv, LinkInv, BackInv, NEW e \in Named,
                        inode[e[1][2]].kind = "file", Count(inode[e[1][2]].size) < Direct, Intact
                 PROVE  Cardinality({k \in 0 .. Direct - 1 : inode[e[1][2]].ptr[k] # 0})
                          = Count(inode[e[1][2]].size)
      BY DEF SizeBacked, Intact
    <2> DEFINE i == e[1][2]
               c == Count(inode[i].size)
               filled == {k \in 0 .. Direct - 1 : inode[i].ptr[k] # 0}
    <2>1. i \in Inodes /\ BackedInode(i)
      <3>1. PICK d \in Dirs : e[1] \in Entries(d)
        BY DEF Named
      <3>2. inode[d].ptr[0] \in Blocks
        BY <3>1, PathsMarked, SlotIs DEF ShapeInv, Slots
      <3> QED  BY <3>1, <3>2, EntryInodes DEF Entries, BackInv, FilesBacked, ShapeInv
    <2>2. c \in Nat /\ Skipped <= c /\ Skipped \in Nat \ {0} /\ c < Direct
      <3>1. inode[i].size \in Nat /\ 1 <= inode[i].size
        BY <2>1 DEF ShapeInv, TypeOK, BackedInode
      <3> HIDE DEF i
      <3> QED  BY <3>1, CountGrows, SkippedIs DEF Skipped, i
    <2>3. filled = (0 .. c) \ {Skipped}
      <3>1. \A k \in 0 .. Direct - 1 : inode[i].ptr[k] # 0 <=> k <= c /\ k # Skipped
        BY <2>1 DEF BackedInode, Slots
      <3> HIDE DEF c, i
      <3> QED  BY <2>2, <3>1
    <2> HIDE DEF c, i, filled
    <2>4. Cardinality((0 .. c) \ {Skipped}) = c
      BY <2>2, HoleCount
    <2> QED  BY <2>3, <2>4 DEF filled, c, i
  <1> QED  BY <1>1, <1>2, <1>3, PTL DEF Spec
=============================================================================
