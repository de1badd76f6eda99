-------------------------------- MODULE Ext2 --------------------------------
(***************************************************************************)
(* The ext2 driver of drivers/ext2.c: creation of files and directories,   *)
(* extension, writing through open handles, and what a power cut leaves    *)
(* behind.  Every call is a sequence of single-block writes (the driver    *)
(* keeps no journal and orders nothing but by program order), so every     *)
(* write is an action and a Crash may fall between any two.  Calls exclude *)
(* each other: they run inside system calls, with interrupts off.          *)
(*                                                                         *)
(* The disk is bmap and imap (the bits set in the two usage maps), inode,  *)
(* data (whose bytes a block holds: inodes, the super block, or what was   *)
(* there before) and ents (the entries parsed from a directory's block).   *)
(* Sizes and offsets are counted in cells, BS to a block.                  *)
(***************************************************************************)
EXTENDS Integers, FiniteSets, FiniteSetsExt

CONSTANTS Handles,     \* open files (descriptors of the VFS)
          Names,       \* file names
          NBlocks,     \* ext2->block_count
          PerGroup,    \* ext2->blocks_per_group
          FirstData,   \* first_data_block: 1 for blocks of 1 KiB, else 0
          MetaEnd,     \* last block of the super block, maps and inode table
          InodeCount,  \* ext2->inode_count
          BS,          \* cells in a block
          Direct,      \* block pointers in an inode (12)
          MaxSize,     \* bound: furthest position a handle is moved to
          MaxFile      \* bound: largest size an inode grows to

Root     == 2          \* EXT2_ROOT_INODE
FirstIno == 3          \* 11 in the code: the first inode it gives out
Super    == -1         \* holds the super block, in the last cell
Stale    == -2         \* holds whatever the disk held before

ASSUME GeometryAssumption ==
    /\ {NBlocks, PerGroup, FirstData, MetaEnd, InodeCount} \subseteq Nat
    /\ {BS, Direct, MaxSize, MaxFile} \subseteq Nat \ {0}
    /\ FirstData <= MetaEnd /\ MetaEnd + 1 < NBlocks
    /\ InodeCount > FirstIno /\ MaxSize <= Direct * BS /\ BS <= MaxFile

ASSUME NamesAssumption == Names \cap {".", ".."} = {}

VARIABLES bmap,     \* bits set in the block usage map on disk
          slack,    \* bits set in memory behind ext2->buf, never written back
          imap,     \* inodes marked in the inode usage map on disk
          inode,    \* the inode table on disk
          data,     \* block -> whose data it holds; a cleared block has none
          ents,     \* block -> directory entries <<name, inode>> in it
          handle,   \* open file -> its own copy of the inode, and its head
          op,       \* the call in progress and the write it does next
          mounted   \* the drive was recognised at the last boot

disk == <<bmap, imap, inode, data, ents>>
vars == <<bmap, slack, imap, inode, data, ents, handle, op, mounted>>

Blocks    == 0 .. NBlocks - 1
Inodes    == Root .. InodeCount
NoPtrs    == [k \in 0 .. Direct - 1 |-> 0]
Blank     == [kind |-> "none", size |-> 0, ptr |-> NoPtrs]
Idle      == [call |-> "none"]
Closed    == [ino |-> 0]

(* Blocks a file of that size has according to the driver: one more than   *)
(* its size fills.                                                         *)
Count(size) == size \div BS + 1

-----------------------------------------------------------------------------
(* The image mkfs.ext2 leaves: bit j of its map is block FirstData + j,    *)
(* bits past the last block are set, and the root directory has the first  *)
(* block after the inode table.                                            *)
RootBlock == MetaEnd + 1

Init ==
    /\ bmap  = {b - FirstData : b \in FirstData .. RootBlock}
                 \cup {j \in Blocks : j + FirstData >= NBlocks}
    /\ slack = {}
    /\ imap  = {Root}
    /\ inode = [i \in Inodes |->
                  IF i = Root THEN [kind |-> "dir", size |-> BS,
                                    ptr |-> [NoPtrs EXCEPT ![0] = RootBlock]]
                  ELSE Blank]
    /\ data  = [b \in Blocks |-> CASE b = FirstData -> {Super}
                                    [] b = RootBlock -> {Root}
                                    [] OTHER         -> {Stale}]
    /\ ents  = [b \in Blocks |-> {}]
    /\ handle = [h \in Handles |-> Closed]
    /\ op    = Idle
    /\ mounted = TRUE

-----------------------------------------------------------------------------
(* ext2_get_freeBlockIdx.  The byte of bit i is i / 8 whatever the group,  *)
(* so past the first group it lies behind the buffer the map was read to:  *)
(* in memory zeroed at boot and never written to the disk.                 *)
\* the last bit of the group is looked for behind the buffer
InMapM(i) == i < PerGroup - 1 /\ i \in bmap
InMap(i) == IF i < PerGroup THEN i \in bmap ELSE i \in slack

\* a full disk is one block past its end
FreeBlockM ==
    LET free == {i \in Blocks : ~InMap(i)}
    IN  IF free = {} THEN NBlocks ELSE Min(free)
FreeBlock ==
    LET free == {i \in Blocks : ~InMap(i)}
    IN  IF free = {} THEN 0 ELSE Min(free)

(* ext2_get_freeInodeIdx: the last inode is never given out.               *)
\* bit i instead of bit i - 1 is tested
FreeInodeM ==
    LET free == {i \in FirstIno .. InodeCount - 1 : i + 1 \notin imap}
    IN  IF free = {} THEN 0 ELSE Min(free)
FreeInode ==
    LET free == FirstIno .. (InodeCount - 1) \ imap
    IN  IF free = {} THEN 0 ELSE Min(free)

(* The entries a walk of directory d meets.                                *)
Entries(d) == ents[inode[d].ptr[0]]

Bound(d, n) == \E e \in Entries(d) : e[1] = n

(* What paths of at most two components reach.                             *)
Dirs  == {Root} \cup {e[2] : e \in {f \in Entries(Root) :
                                      inode[f[2]].kind = "dir"}}
Files == {e[2] : e \in {f \in UNION {Entries(d) : d \in Dirs} :
                          inode[f[2]].kind = "file"}}

(* ext2_extendFile up to its first write: the inode it will write, and the *)
(* slots it fills on the way.  It starts one slot past the blocks the file *)
(* has, and stops at the last direct slot although the size grows on.      *)
\* the first slot filled is the last one in use
ExtensionM(i, amount) ==
    LET cur   == inode[i]
        new   == cur.size + amount
        first == Count(cur.size) - 1
    IN  [size |-> new, ptr |-> cur.ptr, at |-> first,
         todo |-> Max({0, Min({Count(new) - Count(cur.size),
                               Direct - first})})]
Extension(i, amount) ==
    LET cur   == inode[i]
        new   == cur.size + amount
        first == Count(cur.size) + 1
    IN  [size |-> new, ptr |-> cur.ptr, at |-> first,
         todo |-> Max({0, Min({Count(new) - Count(cur.size),
                               Direct - first})})]

(* Where a call with no block left to allocate continues.                  *)
\* the last block is forgotten
FillM(todo) == IF todo <= 1 THEN "inode" ELSE "mark"
Fill(todo) == IF todo = 0 THEN "inode" ELSE "mark"

(* What clearing block b makes of the blocks' contents.                    *)
\* the block is not cleared
ClearedM(blocks, b) == blocks
Cleared(blocks, b) == [blocks EXCEPT ![b] = {}]

At(pc) == op # Idle /\ op.pc = pc

-----------------------------------------------------------------------------
(* vfs_creat and vfs_creatdir, ext2_createFile and ext2_createDirectory up *)
(* to their first write.  A file is created with size 1.  That an inode is *)
(* free is a bound of the model: the driver does not look.                 *)
Create(d, n, kind) ==
    /\ mounted /\ op = Idle
    /\ d \in Dirs /\ ~Bound(d, n)
    /\ FreeInode # 0
    /\ LET size == IF kind = "file" THEN 1 ELSE 0
       IN op' = [call |-> "create", pc |-> "imap", kind |-> kind,
                 ino |-> FreeInode, dir |-> d, name |-> n, size |-> size,
                 ptr |-> NoPtrs, at |-> 0, blk |-> 0,
                 todo |-> IF kind = "dir" THEN 1
                          ELSE Min({Count(size), Direct})]
    /\ UNCHANGED <<bmap, slack, imap, inode, data, ents, handle, mounted>>

(* ext2_alloc_inode, first write: the inode is marked.                     *)
MarkInode ==
    /\ At("imap")
    /\ imap' = imap \cup {op.ino}
    /\ op' = [op EXCEPT !.pc = "init"]
    /\ UNCHANGED <<bmap, slack, inode, data, ents, handle, mounted>>

(* ext2_alloc_inode, second write: the inode, without a block yet.         *)
InitInode ==
    /\ At("init")
    /\ inode' = [inode EXCEPT ![op.ino] =
                   [kind |-> op.kind, size |-> op.size, ptr |-> NoPtrs]]
    /\ op' = [op EXCEPT !.pc = Fill(op.todo)]
    /\ UNCHANGED <<bmap, slack, imap, data, ents, handle, mounted>>

(* ext2_alloc_block, first write.  With the disk full this is block 0.     *)
MarkBlock ==
    /\ At("mark")
    /\ op' = [op EXCEPT !.pc = "zero", !.blk = FreeBlock]
    /\ IF FreeBlock < PerGroup
       THEN bmap' = bmap \cup {FreeBlock} /\ slack' = slack
       ELSE slack' = slack \cup {FreeBlock} /\ bmap' = bmap
    /\ UNCHANGED <<imap, inode, data, ents, handle, mounted>>

(* ext2_alloc_block, second write: the block is cleared.                   *)
ZeroBlock ==
    /\ At("zero")
    /\ data' = Cleared(data, op.blk)
    /\ ents' = Cleared(ents, op.blk)
    /\ op' = [op EXCEPT !.pc = Fill(op.todo - 1), !.todo = @ - 1,
                        !.at = @ + 1, !.ptr[op.at] = op.blk]
    /\ UNCHANGED <<bmap, slack, imap, inode, handle, mounted>>

(* The write of the inode with its blocks: the last of ext2_alloc_inode,   *)
(* and the last of ext2_extendFile, after which the caller reads it back   *)
(* into the copy its handle has.                                           *)
WriteInode ==
    /\ At("inode")
    /\ inode' = [inode EXCEPT ![op.ino].ptr = op.ptr, ![op.ino].size = op.size]
    /\ CASE op.call = "create" ->
              op' = [op EXCEPT !.pc = "link"] /\ handle' = handle
         [] op.call = "write" ->
              /\ op' = [op EXCEPT !.pc = "data"]
              /\ handle' = [handle EXCEPT ![op.h].size = op.size,
                                          ![op.h].ptr = op.ptr]
         [] op.call = "truncate" ->
              /\ op' = Idle
              /\ handle' = [handle EXCEPT ![op.h].size = op.size,
                                          ![op.h].ptr = op.ptr]
    /\ UNCHANGED <<bmap, slack, imap, data, ents, mounted>>

(* ext2_make_dir_entry: one entry appended to (or, in a new directory,     *)
(* begun in) the block of directory d.                                     *)
MakeEntry(d, n, i, fresh) ==
    LET b == inode[d].ptr[0]
    IN  /\ ents' = [ents EXCEPT ![b] = (IF fresh THEN {} ELSE @) \cup {<<n, i>>}]
        /\ data' = [data EXCEPT ![b] = @ \cup {d}]
        /\ UNCHANGED <<bmap, slack, imap, inode, handle, mounted>>

(* The new inode gets its name in the parent; then, for a directory, "."   *)
(* and ".." are written in its own block.                                  *)
Link ==
    /\ At("link")
    /\ MakeEntry(op.dir, op.name, op.ino, FALSE)
    /\ op' = IF op.kind = "dir" THEN [op EXCEPT !.pc = "dot"] ELSE Idle

LinkSelf ==
    /\ At("dot")
    /\ MakeEntry(op.ino, ".", op.ino, TRUE)
    /\ op' = [op EXCEPT !.pc = "dotdot"]

LinkParent ==
    /\ At("dotdot")
    /\ MakeEntry(op.ino, "..", op.dir, FALSE)
    /\ op' = Idle

-----------------------------------------------------------------------------
(* vfs_open with ext2_getInode: every handle has a copy of its own.        *)
Open(h, i) ==
    /\ mounted /\ op = Idle
    /\ handle[h] = Closed /\ i \in Files
    /\ handle' = [handle EXCEPT ![h] =
         [ino |-> i, size |-> inode[i].size, ptr |-> inode[i].ptr, head |-> 0]]
    /\ UNCHANGED <<disk, slack, op, mounted>>

(* vfs_close: the descriptor is free again.                                *)
Close(h) ==
    /\ mounted /\ op = Idle /\ handle[h] # Closed
    /\ handle' = [handle EXCEPT ![h] = Closed]
    /\ UNCHANGED <<disk, slack, op, mounted>>

(* ext2_seek, ext2_read: only the head of the handle moves, and neither    *)
(* looks at the size.                                                      *)
Seek(h, head) ==
    /\ mounted /\ op = Idle /\ handle[h] # Closed
    /\ handle' = [handle EXCEPT ![h].head = head]
    /\ UNCHANGED <<disk, slack, op, mounted>>

(* The call of ext2_extendFile that ext2_write and ext2_truncate make: a   *)
(* file whose direct slots are used up stays as it is.                     *)
Grow(h, call, amount, n) ==
    LET i    == handle[h].ino
        full == Count(inode[i].size) >= Direct
        ext  == Extension(i, amount)
    IN  /\ full \/ ext.size <= MaxFile
        /\ op' = IF full /\ call = "truncate" THEN Idle
                 ELSE [call |-> call, ino |-> i, h |-> h, n |-> n, blk |-> 0,
                       pc |-> IF full THEN "data" ELSE Fill(ext.todo),
                       size |-> ext.size, ptr |-> ext.ptr,
                       at |-> ext.at, todo |-> ext.todo]
        /\ handle' = [handle EXCEPT ![h].size = IF full THEN inode[i].size ELSE @,
                                    ![h].ptr = IF full THEN inode[i].ptr ELSE @]

(* ext2_write up to its first write: it extends by what its own copy says  *)
(* is missing, which may be what another handle added already.             *)
Write(h, n) ==
    /\ mounted /\ op = Idle /\ handle[h] # Closed
    /\ handle[h].head + n <= MaxSize
    /\ LET f == handle[h]
       IN IF f.head + n >= f.size
          THEN Grow(h, "write", f.head + n - f.size, n)
          ELSE /\ op' = [call |-> "write", ino |-> f.ino, h |-> h, n |-> n,
                         blk |-> 0, pc |-> "data", size |-> f.size,
                         ptr |-> f.ptr, at |-> 0, todo |-> 0]
               /\ handle' = handle
    /\ UNCHANGED <<disk, slack, mounted>>

(* The loop of ext2_write: one block at a time, through the handle's copy, *)
(* a slot without a block being block 0.                                   *)
WriteData ==
    /\ At("data")
    /\ LET f    == handle[op.h]
           from == f.head % BS
           len  == Min({BS - from, op.n})
           b    == f.ptr[f.head \div BS]
           old  == IF len = BS THEN {}
                   ELSE IF from + len = BS THEN data[b] \ {Super} ELSE data[b]
       IN /\ data' = [data EXCEPT ![b] = old \cup {f.ino}]
          /\ ents' = [ents EXCEPT ![b] = {}]
          /\ handle' = [handle EXCEPT ![op.h].head = @ + len]
          /\ op' = IF len = op.n THEN Idle ELSE [op EXCEPT !.n = @ - len]
    /\ UNCHANGED <<bmap, slack, imap, inode, mounted>>

(* ext2_truncate only grows, by the old size and the new one together.     *)
Truncate(h, len) ==
    /\ mounted /\ op = Idle /\ handle[h] # Closed
    /\ len >= handle[h].size
    /\ Grow(h, "truncate", handle[h].size + len, 0)
    /\ UNCHANGED <<disk, slack, mounted>>

(* The power fails and the machine boots again: the disk is as the last    *)
(* write left it, and ext2_check_format takes it only if the super block   *)
(* is still there.                                                         *)
Crash ==
    /\ mounted' = (Super \in data[FirstData])
    /\ slack' = {}
    /\ handle' = [h \in Handles |-> Closed]
    /\ op' = Idle
    /\ UNCHANGED disk

Next ==
    \/ \E d \in Inodes, n \in Names, kind \in {"file", "dir"} : Create(d, n, kind)
    \/ MarkInode \/ InitInode \/ MarkBlock \/ ZeroBlock \/ WriteInode
    \/ Link \/ LinkSelf \/ LinkParent
    \/ \E h \in Handles, i \in Inodes : Open(h, i)
    \/ \E h \in Handles : Close(h)
    \/ \E h \in Handles, head \in 0 .. MaxSize : Seek(h, head)
    \/ \E h \in Handles, n \in 1 .. MaxSize : Write(h, n) \/ Truncate(h, n)
    \/ WriteData
    \/ Crash

Spec == Init /\ [][Next]_vars

-----------------------------------------------------------------------------
(* Types.                                                                  *)
Ptrs == [0 .. Direct - 1 -> Blocks]
TypeOK ==
    /\ bmap \subseteq Blocks /\ slack \subseteq Blocks
    /\ imap \subseteq Inodes
    /\ inode \in [Inodes -> [kind : {"none", "file", "dir"},
                             size : 0 .. MaxFile, ptr : Ptrs]]
    /\ data \in [Blocks -> SUBSET (Inodes \cup {Super, Stale})]
    /\ ents \in [Blocks -> SUBSET ((Names \cup {".", ".."}) \X Inodes)]
    /\ handle \in [Handles -> {Closed} \cup
         [ino : Inodes, size : 0 .. MaxFile, ptr : Ptrs, head : 0 .. MaxSize]]
    /\ mounted \in BOOLEAN
    /\ op # Idle => op.blk \in Blocks /\ op.ptr \in Ptrs

(* The slots of all inodes on disk that name a block.                      *)
Claims == {s \in Inodes \X (0 .. Direct - 1) : inode[s[1]].ptr[s[2]] # 0}
BlockOf(s) == inode[s[1]].ptr[s[2]]

(* However calls, stale handles and power cuts follow each other, a block  *)
(* belongs to one slot of one inode, is no metadata and is marked in the   *)
(* map: nothing else will be given it (ext2_alloc_block marks before the   *)
(* inode names the block).                                                 *)
Owned ==
    \A s \in Claims :
        /\ BlockOf(s) > MetaEnd /\ BlockOf(s) - FirstData \in bmap
        /\ \A t \in Claims : BlockOf(s) = BlockOf(t) => s = t

(* A name in a directory stands for an inode that is marked and written,   *)
(* and no inode has two names: ext2_createFile makes the entry after       *)
(* everything it names, so a power cut loses the file or keeps it whole.   *)
(* On a full disk directories get block 0, the super block's, and share it.*)
Named == {e \in UNION {Entries(d) \X {d} : d \in Dirs} : e[1][1] \in Names}
LinkedWhole ==
    Super \in data[FirstData] => \A e \in Named : LET i == e[1][2] IN
        /\ i \in imap /\ inode[i].kind # "none"
        /\ op # Idle /\ op.call = "create" /\ op.ino = i
             => op.pc \in {"dot", "dotdot"}
        /\ \A f \in Named : f[1][2] = i => f = e

(* Of the blocks that were allocated to a file: they hold its own data or  *)
(* none, neither what the disk held before nor what another file wrote, as *)
(* they are cleared before it names them; and what was written to the file *)
(* lies in them or in block 0, also through a handle with an old copy of   *)
(* the inode.  Block 0 is where the slot leads that ext2_extendFile skips  *)
(* (ext2.c:514), the second one of every file that is extended: what is    *)
(* written there is shared by all of them, and the property leaves it out. *)
DataInOwnBlocks ==
    /\ \A s \in Claims : data[BlockOf(s)] \subseteq {s[1]}
    /\ \A b \in Blocks \ {0}, i \in Inodes :
         i \in data[b] => \E k \in 0 .. Direct - 1 : inode[i].ptr[k] = b

(* A block a handle knows of is the file's block at that position, however *)
(* often other handles extended the file since.                            *)
HandleAgrees ==
    \A h \in Handles : handle[h] # Closed =>
        \A k \in 0 .. Direct - 1 :
            handle[h].ptr[k] # 0 => inode[handle[h].ino].ptr[k] = handle[h].ptr[k]

(* Size and blocks change together: a named file has as many blocks as its *)
(* size asks for, whatever call was cut short (as long as the disk was     *)
(* never full, which marks block 0, and the direct slots suffice).         *)
SizeBacked ==
    \A e \in Named : LET i == e[1][2] IN
        inode[i].kind = "file" /\ Count(inode[i].size) < Direct
          /\ Super \in data[FirstData]
        => Cardinality({k \in 0 .. Direct - 1 : inode[i].ptr[k] # 0})
             = Count(inode[i].size)
=============================================================================
