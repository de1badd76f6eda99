---------------------------- MODULE Files_proofs ----------------------------
(***************************************************************************)
(* Proofs about the file table and the descriptors, for any sizes of the   *)
(* tables, any objects and any hazards but those a theorem excludes.       *)
(***************************************************************************)
EXTENDS Files, FiniteSetTheorems, WellFoundedInduction, TLAPS

USE SizeAssumption
-----------------------------------------------------------------------------
(* The operators of the model.                                             *)

\* The search for the first free entry, descriptor or slot finds a free one if
\* there is one.
LEMMA FirstIs ==
    ASSUME NEW R \in SUBSET Nat
    PROVE  IF R = {} THEN First(R) = None ELSE First(R) \in R
  <1> DEFINE less == {ss \in Nat \X Nat : ss[1] < ss[2]}
  <1>1. CASE R = {}
    BY <1>1 DEF First
  <1>2. CASE R # {}
    <2>1. IsWellFoundedOn(less, Nat)
      BY NatLessThanWellFounded DEF OpToRel
    <2>2. PICK i \in R : \A j \in R : ~(<<j, i>> \in less)
      <3> HIDE DEF less
      <3> QED  BY <1>2, <2>1, WFMin
    <2>3. ASSUME NEW j \in R PROVE i <= j
      <3>1. ~(<<j, i>> \in less)
        BY <2>2
      <3>2. i \in Nat /\ j \in Nat
        OBVIOUS
      <3> QED  BY <3>1, <3>2
    <2> QED  BY <1>2, <2>3 DEF First
  <1> QED  BY <1>1, <1>2

\* vfs_allocFileD gives out entries that are free, and different ones.
LEMMA AllocIs ==
    /\ Alloc1 \in FileId \cup {None} /\ Alloc2 \in FileId \cup {None}
    /\ Alloc3 \in FileId \cup {None} /\ None \notin FileId
    /\ Alloc1 # None => ~used[Alloc1]
    /\ Alloc2 # None => ~used[Alloc2] /\ Alloc1 # None /\ Alloc1 # Alloc2
    /\ Alloc3 # None => ~used[Alloc3] /\ Alloc2 # None /\ Alloc1 # Alloc3 /\ Alloc2 # Alloc3
  <1>1. FileId \subseteq Nat /\ None \notin Nat /\ FreeFiles \subseteq FileId
    BY DEF FileId, None, FreeFiles
  <1>2. \A f \in FreeFiles : ~used[f]
    BY DEF FreeFiles
  <1>3. IF FreeFiles = {} THEN Alloc1 = None ELSE Alloc1 \in FreeFiles
    BY <1>1, FirstIs DEF Alloc1
  <1>4. IF FreeFiles \ {Alloc1} = {} THEN Alloc2 = None ELSE Alloc2 \in FreeFiles \ {Alloc1}
    BY <1>1, FirstIs DEF Alloc2
  <1>5. IF FreeFiles \ {Alloc1, Alloc2} = {} THEN Alloc3 = None
          ELSE Alloc3 \in FreeFiles \ {Alloc1, Alloc2}
    BY <1>1, FirstIs DEF Alloc3
  <1> QED  BY <1>1, <1>2, <1>3, <1>4, <1>5

Row == [Fd -> FileId \cup {None}]

\* task_allocFD changes nothing, or one descriptor that was free.
LEMMA WithFdIs ==
    ASSUME NEW row \in Row, NEW f \in FileId \cup {None}
    PROVE  /\ WithFd(row, f) \in Row
           /\ \/ WithFd(row, f) = row
              \/ \E d \in Fd : row[d] = None /\ WithFd(row, f) = [row EXCEPT ![d] = f]
  <1>1. CASE f = None \/ FreeFds(row) = {}
    BY <1>1 DEF WithFd
  <1>2. CASE ~(f = None \/ FreeFds(row) = {})
    <2>1. FreeFds(row) \subseteq Nat /\ FreeFds(row) # {}
      BY <1>2 DEF FreeFds, Fd
    <2>2. First(FreeFds(row)) \in FreeFds(row)
      BY <2>1, FirstIs
    <2> QED  BY <1>2, <2>2 DEF WithFd, FreeFds, Row
  <1> QED  BY <1>1, <1>2

\* A thread or a program is started in a slot that is not live.
LEMMA ChildIs == ChildSlot # None => ChildSlot \in Task \ live
  <1>1. Task \ live \subseteq Nat
    BY DEF Task
  <1> QED  BY <1>1, FirstIs DEF ChildSlot

\* The nodes.
IsPipe(n) == n.type = "pipe"
LEMMA Nodes ==
    /\ Blank \in Inode /\ ~IsPipe(Blank)
    /\ \A o : ~IsPipe(FileNode(o))
    /\ \A o \in Objects \cup {Kbd, Console} : FileNode(o) \in Inode
    /\ \A p \in PipeId, side \in Side : PipeEnd(p, side) \in Inode
    /\ \A p, side : /\ IsPipe(PipeEnd(p, side)) /\ PipeEnd(p, side).pipe = p
                    /\ PipeEnd(p, side).side = side
    /\ \A n \in Inode : IsPipe(n) =>
          n.pipe \in PipeId /\ n.side \in Side /\ n = PipeEnd(n.pipe, n.side)
  <1>1. ~IsPipe(Blank) /\ \A o : ~IsPipe(FileNode(o))
    BY DEF IsPipe, Blank, FileNode
  <1>2. \A p, side : /\ IsPipe(PipeEnd(p, side)) /\ PipeEnd(p, side).pipe = p
                     /\ PipeEnd(p, side).side = side
    BY DEF IsPipe, PipeEnd
  <1>3. /\ Blank \in Inode
        /\ \A o \in Objects \cup {Kbd, Console} : FileNode(o) \in Inode
        /\ \A p \in PipeId, side \in Side : PipeEnd(p, side) \in Inode
    BY DEF Inode
  <1>4. \A n \in Inode : IsPipe(n) => \E p \in PipeId, side \in Side : n = PipeEnd(p, side)
    BY <1>1 DEF Inode
  <1> QED  BY <1>1, <1>2, <1>3, <1>4
-----------------------------------------------------------------------------
(* What a step does to the file table.                                     *)

TableType ==
    /\ used \in [FileId -> BOOLEAN] /\ inode \in [FileId -> Inode]
    /\ open \in [PipeId -> SUBSET Side]
Keeps(f) == used'[f] = used[f] /\ inode'[f] = inode[f]
Opens(f) == ~used[f] /\ used'[f] /\ (inode'[f] = inode[f] \/ ~IsPipe(inode'[f]))
Frees(f) ==
    /\ ~used'[f] /\ inode'[f] \in {inode[f], Blank}
    /\ IsPipe(inode[f]) => open'[inode[f].pipe] = {}
OpensFiles == TableType' /\ open' = open /\ \A f \in FileId : Keeps(f) \/ Opens(f)
FreesFiles ==
    /\ TableType' /\ \A p \in PipeId : open'[p] \subseteq open[p]
    /\ \A f \in FileId : Keeps(f) \/ Frees(f)

\* vfs_close frees entries of the descriptors it is called for, those of files
\* always, and an end of a pipe only when it leaves both ends closed.
LEMMA FreedIs ==
    ASSUME TypeOK, NEW t \in Task, NEW lo \in Nat, NEW hi \in 0 .. NFds
    PROVE  /\ Freed(t, lo, hi) \subseteq FileId
           /\ \A f \in Freed(t, lo, hi) :
                /\ \E d \in Fd : lo <= d /\ d < hi /\ fds[t][d] = f
                /\ IsPipe(inode[f]) =>
                     open[inode[f].pipe] \ SidesClosed(t, inode[f].pipe, lo, hi - 1) = {}
           /\ \A d \in Fd : lo <= d /\ d < hi /\ fds[t][d] # None /\ ~IsPipe(inode[fds[t][d]])
                => fds[t][d] \in Freed(t, lo, hi)
  <1>1. \A c \in lo .. hi - 1 : c \in Fd /\ fds[t][c] \in FileId \cup {None}
    BY DEF Fd, TypeOK
  <1>2. ASSUME NEW p, NEW c \in lo .. hi - 1
        PROVE  SidesClosed(t, p, lo, c) \subseteq SidesClosed(t, p, lo, hi - 1)
    <2>1. lo .. c \subseteq lo .. hi - 1
      OBVIOUS
    <2> QED  BY <2>1 DEF SidesClosed
  <1>3. ASSUME NEW f \in Freed(t, lo, hi)
        PROVE  \E c \in lo .. hi - 1 :
                 /\ fds[t][c] # None /\ f = fds[t][c]
                 /\ IsPipe(inode[f]) => open[inode[f].pipe] \subseteq
                                          SidesClosed(t, inode[f].pipe, lo, c)
    BY DEF Freed, IsPipe, FullyClosed
  <1>4. ASSUME NEW d \in Fd, lo <= d, d < hi, fds[t][d] # None, ~IsPipe(inode[fds[t][d]])
        PROVE  fds[t][d] \in Freed(t, lo, hi)
    <2>1. d \in lo .. hi - 1
      BY <1>4 DEF Fd
    <2> QED  BY <1>4, <2>1 DEF Freed, IsPipe
  <1>5. ASSUME NEW f \in Freed(t, lo, hi)
        PROVE  /\ f \in FileId
               /\ \E d \in Fd : lo <= d /\ d < hi /\ fds[t][d] = f
               /\ IsPipe(inode[f]) =>
                    open[inode[f].pipe] \ SidesClosed(t, inode[f].pipe, lo, hi - 1) = {}
    <2>1. PICK c \in lo .. hi - 1 :
                 /\ fds[t][c] # None /\ f = fds[t][c]
                 /\ IsPipe(inode[f]) => open[inode[f].pipe] \subseteq
                                          SidesClosed(t, inode[f].pipe, lo, c)
      BY <1>3
    <2>2. lo <= c /\ c < hi
      OBVIOUS
    <2> QED  BY <1>1, <1>2, <2>1, <2>2
  <1> QED  BY <1>4, <1>5

\* The closes of a task_end that may be cut off: F are the entries it blanks.
Closes(t, lo, hi, F) ==
    /\ used' = [f \in FileId |-> used[f] /\ f \notin Freed(t, lo, hi)]
    /\ inode' = [f \in FileId |-> IF f \in F THEN Blanked(f) ELSE inode[f]]
    /\ open' = [p \in PipeId |-> open[p] \ SidesClosed(t, p, lo, hi - 1)]

LEMMA CloseFrees ==
    ASSUME TypeOK, NEW t \in Task, NEW lo \in Nat, NEW hi \in 0 .. NFds,
           NEW F \in SUBSET Freed(t, lo, hi), Closes(t, lo, hi, F)
    PROVE  FreesFiles
  <1> DEFINE G == Freed(t, lo, hi)
             sides(p) == SidesClosed(t, p, lo, hi - 1)
  <1>1. used' = [f \in FileId |-> used[f] /\ f \notin G]
        /\ inode' = [f \in FileId |-> IF f \in F THEN Blank ELSE inode[f]]
        /\ open' = [p \in PipeId |-> open[p] \ sides(p)]
    BY DEF Closes, Blanked
  <1>2. F \subseteq G /\ G \subseteq FileId
        /\ \A f \in G : IsPipe(inode[f]) => open[inode[f].pipe] \ sides(inode[f].pipe) = {}
    BY FreedIs
  <1> HIDE DEF G, sides
  <1>3. used \in [FileId -> BOOLEAN] /\ inode \in [FileId -> Inode]
        /\ open \in [PipeId -> SUBSET Side]
    BY DEF TypeOK
  <1>4. TableType'
    <2>1. used' \in [FileId -> BOOLEAN]
      BY <1>1, <1>3
    <2>2. inode' \in [FileId -> Inode]
      BY <1>1, <1>3, Nodes
    <2>3. open' \in [PipeId -> SUBSET Side]
      BY <1>1, <1>3
    <2> QED  BY <2>1, <2>2, <2>3 DEF TableType
  <1>5. \A p \in PipeId : open'[p] \subseteq open[p]
    BY <1>1
  <1>6. ASSUME NEW f \in FileId PROVE Keeps(f) \/ Frees(f)
    <2>1. CASE f \in G
      <3>1. ~used'[f] /\ inode'[f] \in {inode[f], Blank}
        BY <1>1, <2>1
      <3>2. ASSUME IsPipe(inode[f]) PROVE open'[inode[f].pipe] = {}
        <4>1. inode[f].pipe \in PipeId
          BY <1>3, <3>2, Nodes
        <4> QED  BY <1>1, <1>2, <2>1, <3>2, <4>1
      <3> QED  BY <3>1, <3>2 DEF Frees
    <2>2. CASE f \notin G
      BY <1>1, <1>2, <1>3, <2>2 DEF Keeps
    <2> QED  BY <2>1, <2>2
  <1> QED  BY <1>4, <1>5, <1>6 DEF FreesFiles

LEMMA VfsCloseIs ==
    ASSUME NEW t, NEW lo, NEW hi, VfsClose(t, lo, hi)
    PROVE  Closes(t, lo, hi, Freed(t, lo, hi))
  BY DEF VfsClose, Closes

LEMMA VfsCloseFrees ==
    ASSUME TypeOK, NEW t \in Task, NEW lo \in Nat, NEW hi \in 0 .. NFds, VfsClose(t, lo, hi)
    PROVE  FreesFiles
  <1>1. Freed(t, lo, hi) \in SUBSET Freed(t, lo, hi)
    OBVIOUS
  <1> QED  BY <1>1, VfsCloseIs, CloseFrees

\* The descriptors task_end closes.
LEMMA EndFromIs == \A t : EndFrom(t) \in Nat
  BY DEF EndFrom

LEMMA EndCutIs ==
    ASSUME NEW t \in Task, TaskEndCut(t)
    PROVE  \E hi \in 0 .. NFds : \E F \in SUBSET Freed(t, EndFrom(t), hi) :
              Closes(t, EndFrom(t), hi, F)
  <1>1. PICK hi \in EndFrom(t) .. NFds :
          \/ VfsClose(t, EndFrom(t), hi)
          \/ /\ VfsClose(t, EndFrom(t), hi)!1
             /\ inode' = [f \in FileId |->
                            IF f \in Freed(t, EndFrom(t), hi) \ {fds[t][hi - 1]}
                              THEN Blanked(f) ELSE inode[f]]
             /\ VfsClose(t, EndFrom(t), hi)!3
    BY DEF TaskEndCut
  <1>2. hi \in 0 .. NFds
    BY EndFromIs
  <1>3. CASE VfsClose(t, EndFrom(t), hi)
    BY <1>2, <1>3, VfsCloseIs
  <1>4. CASE ~VfsClose(t, EndFrom(t), hi)
    <2> DEFINE F == Freed(t, EndFrom(t), hi) \ {fds[t][hi - 1]}
    <2>1. F \in SUBSET Freed(t, EndFrom(t), hi)
      OBVIOUS
    <2>2. Closes(t, EndFrom(t), hi, F)
      BY <1>1, <1>4 DEF Closes
    <2> QED  BY <1>2, <2>1, <2>2
  <1> QED  BY <1>3, <1>4

LEMMA StepsFree ==
    ASSUME TypeOK, NEW t \in Task,
           \/ TaskEnd(t) \/ TaskEndCut(t)
           \/ \E d \in Fd : Close(t, d)
           \/ \E old, new \in Fd : Dup2(t, old, new)
    PROVE  FreesFiles
  <1>1. CASE TaskEnd(t)
    <2>1. NFds \in 0 .. NFds
      OBVIOUS
    <2> QED  BY <1>1, <2>1, EndFromIs, VfsCloseFrees DEF TaskEnd
  <1>2. CASE TaskEndCut(t)
    BY <1>2, EndCutIs, EndFromIs, CloseFrees
  <1>3. ASSUME NEW d \in Fd, Close(t, d) PROVE FreesFiles
    <2>1. d \in Nat /\ d + 1 \in 0 .. NFds
      BY DEF Fd
    <2> QED  BY <1>3, <2>1, VfsCloseFrees DEF Close
  <1>4. ASSUME NEW old \in Fd, NEW new \in Fd, Dup2(t, old, new) PROVE FreesFiles
    <2>1. new \in Nat /\ new + 1 \in 0 .. NFds
      BY DEF Fd
    <2> QED  BY <1>4, <2>1, VfsCloseFrees DEF Dup2
  <1> QED  BY <1>1, <1>2, <1>3, <1>4

\* Opening files fills entries that were free.
LEMMA TakingOpens ==
    ASSUME TypeOK, NEW A \in SUBSET FileId, NEW node \in [FileId -> Inode],
           \A f \in A : ~used[f] /\ ~IsPipe(node[f]),
           used' = [f \in FileId |-> used[f] \/ f \in A],
           inode' = [f \in FileId |-> IF f \in A THEN node[f] ELSE inode[f]],
           open' = open
    PROVE  OpensFiles
  <1>1. used \in [FileId -> BOOLEAN] /\ inode \in [FileId -> Inode]
        /\ open \in [PipeId -> SUBSET Side]
    BY DEF TypeOK
  <1>2. TableType'
    <2>1. used' \in [FileId -> BOOLEAN]
      BY <1>1
    <2>2. inode' \in [FileId -> Inode]
      BY <1>1
    <2> QED  BY <1>1, <2>1, <2>2 DEF TableType
  <1>3. ASSUME NEW f \in FileId PROVE Keeps(f) \/ Opens(f)
    BY <1>1 DEF Keeps, Opens
  <1> QED  BY <1>2, <1>3 DEF OpensFiles

LEMMA TakesOne ==
    ASSUME TypeOK, NEW n \in Inode, ~IsPipe(n), Alloc1 # None,
           used' = [used EXCEPT ![Alloc1] = TRUE],
           inode' = [inode EXCEPT ![Alloc1] = n], open' = open
    PROVE  OpensFiles
  <1> DEFINE node == [f \in FileId |-> n]
  <1>1. used \in [FileId -> BOOLEAN] /\ inode \in [FileId -> Inode]
    BY DEF TypeOK
  <1>2. Alloc1 \in FileId /\ ~used[Alloc1]
    BY AllocIs
  <1>3. node \in [FileId -> Inode] /\ \A f \in {Alloc1} : ~used[f] /\ ~IsPipe(node[f])
    BY <1>2
  <1>4. used' = [f \in FileId |-> used[f] \/ f \in {Alloc1}]
    BY <1>1, <1>2
  <1>5. inode' = [f \in FileId |-> IF f \in {Alloc1} THEN node[f] ELSE inode[f]]
    BY <1>1, <1>2
  <1>6. {Alloc1} \in SUBSET FileId
    BY <1>2
  <1> HIDE DEF node
  <1> QED  BY <1>3, <1>4, <1>5, <1>6, TakingOpens

LEMMA ThreadOpens ==
    ASSUME TypeOK, NEW t \in Task, StartThread(t)
    PROVE  OpensFiles
  <1> DEFINE A == {Alloc1, Alloc2} \ {None}
             node == [f \in FileId |-> IF f = Alloc1 THEN FileNode(Kbd) ELSE FileNode(Console)]
  <1>1. A \subseteq FileId /\ \A f \in A : ~used[f]
    BY AllocIs
  <1>2. node \in [FileId -> Inode] /\ \A f \in FileId : ~IsPipe(node[f])
    BY Nodes
  <1>3. used' = [f \in FileId |-> used[f] \/ f \in A]
    BY AllocIs DEF StartThread
  <1>4. inode' = [f \in FileId |-> IF f \in A THEN node[f] ELSE inode[f]]
    <2>1. inode' = [f \in FileId |-> CASE f = Alloc1 -> FileNode(Kbd)
                                       [] f = Alloc2 -> FileNode(Console)
                                       [] OTHER -> inode[f]]
      BY DEF StartThread
    <2>2. \A f \in FileId : (CASE f = Alloc1 -> FileNode(Kbd)
                               [] f = Alloc2 -> FileNode(Console)
                               [] OTHER -> inode[f])
                            = IF f \in A THEN node[f] ELSE inode[f]
      BY AllocIs
    <2> QED  BY <2>1, <2>2
  <1>5. open' = open
    BY DEF StartThread
  <1> HIDE DEF A, node
  <1> QED  BY <1>1, <1>2, <1>3, <1>4, <1>5, TakingOpens

LEMMA ExecOpens ==
    ASSUME TypeOK, NEW t \in Task, NEW o \in Objects, Exec(t, o)
    PROVE  OpensFiles
  <1>1. FileNode(o) \in Inode /\ ~IsPipe(FileNode(o))
    BY Nodes
  <1>2. CASE /\ used' = [used EXCEPT ![Alloc1] = TRUE]
             /\ inode' = [inode EXCEPT ![Alloc1] = FileNode(o)]
    BY <1>1, <1>2, TakesOne DEF Exec
  <1>3. CASE /\ used' = [f \in FileId |-> used[f] \/ f \in {Alloc1, Alloc2, Alloc3}]
             /\ inode' = [f \in FileId |-> CASE f = Alloc1 -> FileNode(o)
                                             [] f = Alloc2 -> FileNode(Kbd)
                                             [] f = Alloc3 -> FileNode(Console)
                                             [] OTHER -> inode[f]]
    <2> DEFINE A == {Alloc1, Alloc2, Alloc3} \ {None}
               node == [f \in FileId |-> CASE f = Alloc1 -> FileNode(o)
                                           [] f = Alloc2 -> FileNode(Kbd)
                                           [] OTHER -> FileNode(Console)]
    <2>1. A \subseteq FileId /\ \A f \in A : ~used[f]
      BY AllocIs
    <2>2. node \in [FileId -> Inode] /\ \A f \in FileId : ~IsPipe(node[f])
      BY Nodes
    <2>3. used' = [f \in FileId |-> used[f] \/ f \in A]
      BY <1>3, AllocIs
    <2>4. inode' = [f \in FileId |-> IF f \in A THEN node[f] ELSE inode[f]]
      <3>1. \A f \in FileId : (CASE f = Alloc1 -> FileNode(o)
                                 [] f = Alloc2 -> FileNode(Kbd)
                                 [] f = Alloc3 -> FileNode(Console)
                                 [] OTHER -> inode[f])
                              = IF f \in A THEN node[f] ELSE inode[f]
        BY AllocIs
      <3> QED  BY <1>3, <3>1
    <2>5. open' = open
      BY DEF Exec
    <2> HIDE DEF A, node
    <2> QED  BY <2>1, <2>2, <2>3, <2>4, <2>5, TakingOpens
  <1> QED  BY <1>2, <1>3 DEF Exec

\* The two ways syscall_pipe goes.
PipeFails == /\ Alloc1 # None /\ used' = [used EXCEPT ![Alloc1] = TRUE]
             /\ UNCHANGED <<inode, open, fds, stdio>>
PipeMade ==
    /\ Alloc2 # None
    /\ used' = [used EXCEPT ![Alloc1] = TRUE, ![Alloc2] = TRUE]
    /\ inode' = [inode EXCEPT ![Alloc1] = PipeEnd(NewPipe, "write"),
                              ![Alloc2] = PipeEnd(NewPipe, "read")]
    /\ open' = [open EXCEPT ![NewPipe] = Side]

LEMMA StepsOpen ==
    ASSUME TypeOK, NEW t \in Task,
           \/ StartThread(t) \/ PipeFails
           \/ \E o \in Objects : Open(t, o) \/ Exec(t, o)
    PROVE  OpensFiles
  <1>1. ASSUME NEW o \in Objects, Open(t, o) PROVE OpensFiles
    <2>1. FileNode(o) \in Inode /\ ~IsPipe(FileNode(o))
      BY Nodes
    <2> QED  BY <1>1, <2>1, TakesOne DEF Open
  <1>2. CASE PipeFails
    <2>1. used \in [FileId -> BOOLEAN] /\ Alloc1 \in FileId /\ ~used[Alloc1]
      BY <1>2, AllocIs DEF TypeOK, PipeFails
    <2>2. used' = [used EXCEPT ![Alloc1] = TRUE] /\ inode' = inode /\ open' = open
      BY <1>2 DEF PipeFails
    <2>3. TableType'
      BY <2>1, <2>2 DEF TypeOK, TableType
    <2>4. \A f \in FileId : Keeps(f) \/ Opens(f)
      BY <2>1, <2>2 DEF Keeps, Opens
    <2> QED  BY <2>2, <2>3, <2>4 DEF OpensFiles
  <1> QED  BY <1>1, <1>2, ThreadOpens, ExecOpens

-----------------------------------------------------------------------------
(* Types.  A new pipe has a number because there are as many numbers as    *)
(* entries, and a pipe, once made, is always named by two entries at least *)
(* until another file takes one of them, so some number is left over.      *)

FdsType == live \subseteq Task /\ fds \in [Task -> Row] /\ stdio \in [Task -> BOOLEAN]

LEMMA TypeIs == TypeOK <=> TableType /\ FdsType
  BY DEF TypeOK, TableType, FdsType, Row

LEMMA StepsFds ==
    ASSUME TypeOK, Next
    PROVE  FdsType'
  <1>1. /\ live \subseteq Task /\ fds \in [Task -> Row] /\ stdio \in [Task -> BOOLEAN]
        /\ NoFds \in Row
    BY DEF TypeOK, Row, NoFds
  <1>2. ASSUME NEW t \in Task, Gone(t) PROVE FdsType'
    BY <1>1, <1>2 DEF Gone, FdsType
  <1>3. PICK t \in Task : Next!(t)
    BY DEF Next
  <1>4. ASSUME NEW o \in Objects, Open(t, o) PROVE FdsType'
    <2>1. fds[t] \in Row /\ Alloc1 \in FileId \cup {None}
      BY <1>1, <1>4, AllocIs DEF Open
    <2>2. WithFd(fds[t], Alloc1) \in Row
      BY <2>1, WithFdIs
    <2>3. /\ live' = live /\ fds' = [fds EXCEPT ![t] = WithFd(fds[t], Alloc1)]
          /\ stdio' = [stdio EXCEPT ![t] = stdio[t] /\ ~Overrun(fds[t], Alloc1)]
      BY <1>4 DEF Open
    <2> QED  BY <1>1, <2>2, <2>3 DEF FdsType
  <1>5. ASSUME ChildSlot \in Task, live' = live \cup {ChildSlot},
               NEW f \in FileId \cup {None}, NEW g \in FileId \cup {None},
               fds' = [fds EXCEPT ![ChildSlot] = [NoFds EXCEPT ![0] = f, ![1] = g]],
               \E b \in BOOLEAN : stdio' = [stdio EXCEPT ![ChildSlot] = b]
        PROVE FdsType'
    <2>1. [NoFds EXCEPT ![0] = f, ![1] = g] \in Row
      BY <1>5 DEF NoFds, Row
    <2> QED  BY <1>1, <1>5, <2>1 DEF FdsType
  <1>6. ASSUME NEW o \in Objects, Exec(t, o) PROVE FdsType'
    <2>1. CASE UNCHANGED <<live, fds, stdio>>
      BY <1>1, <2>1 DEF FdsType
    <2>2. CASE ChildSlot # None /\ live' = live \cup {ChildSlot}
               /\ \E m \in [{0, 1} -> Fd] : StartSharing(t, m)
      <3>1. PICK m \in [{0, 1} -> Fd] : StartSharing(t, m)
        BY <2>2
      <3>2. fds[t][m[0]] \in FileId \cup {None} /\ fds[t][m[1]] \in FileId \cup {None}
        <4>1. m[0] \in Fd /\ m[1] \in Fd /\ fds[t] \in Row
          BY <1>1
        <4> QED  BY <4>1 DEF Row
      <3> QED  BY <1>5, <2>2, <3>1, <3>2, ChildIs DEF StartSharing
    <2>3. CASE ChildSlot # None /\ live' = live \cup {ChildSlot} /\ StartDefault(Alloc2, Alloc3)
      <3>1. Alloc2 \in FileId \cup {None} /\ Alloc3 \in FileId \cup {None}
        BY AllocIs
      <3> QED  BY <1>5, <2>3, <3>1, ChildIs DEF StartDefault
    <2> QED  BY <1>6, <2>1, <2>2, <2>3 DEF Exec
  <1>7. CASE StartThread(t)
    <2>1. Alloc1 \in FileId \cup {None} /\ Alloc2 \in FileId \cup {None}
      BY AllocIs
    <2> QED  BY <1>5, <1>7, <2>1, ChildIs DEF StartThread, StartDefault
  <1>8. ASSUME NEW d \in Fd, Close(t, d) PROVE FdsType'
    <2>1. NoDescriptor(fds[t], d) \in Row
      <3>1. fds[t] \in Row
        BY <1>1
      <3> QED  BY <3>1 DEF NoDescriptor, Row
    <2>2. live' = live /\ fds' = [fds EXCEPT ![t] = NoDescriptor(fds[t], d)] /\ stdio' = stdio
      BY <1>8 DEF Close
    <2> QED  BY <1>1, <2>1, <2>2 DEF FdsType
  <1>9. ASSUME NEW d \in Fd, Dup(t, d) PROVE FdsType'
    <2>1. fds[t] \in Row
      BY <1>1
    <2>2. fds[t][d] \in FileId \cup {None}
      BY <2>1 DEF Row
    <2>3. WithFd(fds[t], fds[t][d]) \in Row
      BY <2>1, <2>2, WithFdIs
    <2>4. /\ live' = live /\ fds' = [fds EXCEPT ![t] = WithFd(fds[t], fds[t][d])]
          /\ stdio' = [stdio EXCEPT ![t] = stdio[t] /\ ~Overrun(fds[t], fds[t][d])]
      BY <1>9 DEF Dup
    <2> QED  BY <1>1, <2>3, <2>4 DEF FdsType
  <1>10. ASSUME NEW old \in Fd, NEW new \in Fd, Dup2(t, old, new) PROVE FdsType'
    <2>1. fds[t] \in Row
      BY <1>1
    <2>2. [fds[t] EXCEPT ![new] = fds[t][old]] \in Row
      BY <2>1 DEF Row
    <2>3. live' = live /\ fds' = [fds EXCEPT ![t] = [fds[t] EXCEPT ![new] = fds[t][old]]]
          /\ stdio' = stdio
      BY <1>10 DEF Dup2
    <2> QED  BY <1>1, <2>2, <2>3 DEF FdsType
  <1>11. CASE MkPipe(t)
    <2>1. CASE UNCHANGED <<fds, stdio>>
      BY <1>1, <1>11, <2>1 DEF MkPipe, FdsType
    <2>2. CASE ~UNCHANGED <<fds, stdio>>
      <3> DEFINE row == WithFd(fds[t], Alloc1)
      <3>1. row \in Row
        BY <1>1, AllocIs, WithFdIs
      <3>2. /\ live' = live /\ fds' = [fds EXCEPT ![t] = WithFd(row, Alloc2)]
            /\ stdio' = [stdio EXCEPT ![t] = stdio[t] /\ ~Overrun(row, Alloc2)]
        BY <1>11, <2>2 DEF MkPipe
      <3>3. WithFd(row, Alloc2) \in Row
        BY <3>1, AllocIs, WithFdIs
      <3> HIDE DEF row
      <3> QED  BY <1>1, <3>2, <3>3 DEF FdsType
    <2> QED  BY <2>1, <2>2
  <1>12. CASE StopTask(t)
    BY <1>2, <1>12 DEF StopTask
  <1>13. CASE TaskEnd(t)
    BY <1>2, <1>13 DEF TaskEnd
  <1>14. CASE TaskEndCut(t)
    BY <1>2, <1>14 DEF TaskEndCut
  <1> QED  BY <1>3, <1>4, <1>6, <1>7, <1>8, <1>9, <1>10, <1>11, <1>12, <1>13, <1>14

Unnamed == \E p \in PipeId : \A f \in FileId : IsPipe(inode[f]) => inode[f].pipe # p

LEMMA StepsTable ==
    ASSUME TypeOK, Next
    PROVE  OpensFiles \/ FreesFiles \/ PipeMade \/ UNCHANGED table
  <1>1. PICK t \in Task : Next!(t)
    BY DEF Next
  <1>2. CASE \E o \in Objects : Open(t, o) \/ Exec(t, o)
    BY <1>2, StepsOpen
  <1>3. CASE StartThread(t)
    BY <1>3, StepsOpen
  <1>4. CASE MkPipe(t)
    <2>1. PipeFails \/ PipeMade
      BY <1>4 DEF MkPipe, PipeFails, PipeMade
    <2> QED  BY <2>1, StepsOpen
  <1>5. CASE TaskEnd(t) \/ TaskEndCut(t) \/ \E d \in Fd : Close(t, d)
    BY <1>5, StepsFree
  <1>6. CASE \E old, new \in Fd : Dup2(t, old, new)
    BY <1>6, StepsFree
  <1>7. CASE StopTask(t) \/ \E d \in Fd : Dup(t, d)
    BY <1>7 DEF StopTask, Dup
  <1> QED  BY <1>1, <1>2, <1>3, <1>4, <1>5, <1>6, <1>7

LEMMA NewPipeIs ==
    ASSUME TypeOK, Unnamed
    PROVE  NewPipe \in PipeId /\ \A f \in FileId : IsPipe(inode[f]) => inode[f].pipe # NewPipe
  <1> DEFINE free == {p \in PipeId : \A side \in Side : \A f \in FileId :
                                       inode[f] # PipeEnd(p, side)}
  <1>1. free \in SUBSET Nat
    BY DEF PipeId
  <1>2. \A p \in PipeId : (\A f \in FileId : IsPipe(inode[f]) => inode[f].pipe # p) => p \in free
    BY Nodes
  <1>3. free # {}
    BY <1>2 DEF Unnamed
  <1>4. NewPipe = First(free)
    BY DEF NewPipe
  <1>5. NewPipe \in free
    <2> HIDE DEF free
    <2> QED  BY <1>1, <1>3, <1>4, FirstIs
  <1>6. ASSUME NEW f \in FileId, IsPipe(inode[f]) PROVE inode[f].pipe # NewPipe
    <2>1. inode[f] = PipeEnd(inode[f].pipe, inode[f].side) /\ inode[f].side \in Side
      BY <1>6, Nodes DEF TypeOK
    <2> QED  BY <1>5, <2>1
  <1> QED  BY <1>5, <1>6

\* What a new pipe changes in the table.
LEMMA PipeMadeIs ==
    ASSUME TypeOK, Unnamed, PipeMade
    PROVE  /\ TableType'
           /\ Alloc1 \in FileId /\ Alloc2 \in FileId /\ Alloc1 # Alloc2
           /\ ~used[Alloc1] /\ ~used[Alloc2] /\ used'[Alloc1] /\ used'[Alloc2]
           /\ inode'[Alloc1] = PipeEnd(NewPipe, "write")
           /\ inode'[Alloc2] = PipeEnd(NewPipe, "read")
           /\ \A f \in FileId \ {Alloc1, Alloc2} : Keeps(f)
           /\ \A p \in PipeId \ {NewPipe} : open'[p] = open[p]
           /\ open'[NewPipe] = Side
  <1>1. /\ used \in [FileId -> BOOLEAN] /\ inode \in [FileId -> Inode]
        /\ open \in [PipeId -> SUBSET Side]
    BY DEF TypeOK
  <1>2. /\ Alloc1 \in FileId /\ Alloc2 \in FileId /\ Alloc1 # Alloc2
        /\ ~used[Alloc1] /\ ~used[Alloc2]
    BY AllocIs DEF PipeMade
  <1>3. NewPipe \in PipeId /\ PipeEnd(NewPipe, "write") \in Inode
        /\ PipeEnd(NewPipe, "read") \in Inode
    BY NewPipeIs, Nodes DEF Side
  <1>4. used' \in [FileId -> BOOLEAN] /\ used'[Alloc1] /\ used'[Alloc2]
        /\ \A f \in FileId \ {Alloc1, Alloc2} : used'[f] = used[f]
    BY <1>1, <1>2 DEF PipeMade
  <1>5. /\ inode' \in [FileId -> Inode]
        /\ inode'[Alloc1] = PipeEnd(NewPipe, "write") /\ inode'[Alloc2] = PipeEnd(NewPipe, "read")
        /\ \A f \in FileId \ {Alloc1, Alloc2} : inode'[f] = inode[f]
    <2>1. inode' = [inode EXCEPT ![Alloc1] = PipeEnd(NewPipe, "write"),
                                 ![Alloc2] = PipeEnd(NewPipe, "read")]
      BY DEF PipeMade
    <2> QED  BY <1>1, <1>2, <1>3, <2>1
  <1>6. /\ open' \in [PipeId -> SUBSET Side] /\ open'[NewPipe] = Side
        /\ \A p \in PipeId \ {NewPipe} : open'[p] = open[p]
    BY <1>1, <1>3 DEF PipeMade
  <1> QED  BY <1>2, <1>4, <1>5, <1>6 DEF TableType, Keeps

\* After a new pipe, its second entry is one more than its number needs.
LEMMA StaysUnnamed ==
    ASSUME TypeOK, Unnamed, Next
    PROVE  Unnamed'
  <1>1. PICK p \in PipeId : \A f \in FileId : IsPipe(inode[f]) => inode[f].pipe # p
    BY DEF Unnamed
  <1>2. CASE ~PipeMade
    <2>1. ASSUME NEW f \in FileId, IsPipe(inode'[f]) PROVE inode'[f] = inode[f]
      BY <1>2, <2>1, StepsTable, Nodes
         DEF OpensFiles, FreesFiles, Keeps, Opens, Frees, table
    <2>2. \A f \in FileId : IsPipe(inode'[f]) => inode'[f].pipe # p
      BY <1>1, <2>1
    <2>3. \A f : IsPipe(inode[f])' <=> IsPipe(inode'[f])
      BY DEF IsPipe
    <2> QED  BY <2>2, <2>3 DEF Unnamed
  <1>3. CASE PipeMade
    <2>1. SUFFICES ASSUME \A q \in PipeId : \E f \in FileId : IsPipe(inode'[f]) /\ inode'[f].pipe = q
                   PROVE  FALSE
      <3>1. \A f : IsPipe(inode[f])' <=> IsPipe(inode'[f])
        BY DEF IsPipe
      <3> QED  BY <3>1 DEF Unnamed
    <2> DEFINE g == [q \in PipeId |-> CHOOSE f \in FileId \ {Alloc1} : inode'[f].pipe = q]
    <2>2. \A q \in PipeId : \E f \in FileId \ {Alloc1} : inode'[f].pipe = q
      <3>1. inode'[Alloc1].pipe = NewPipe /\ inode'[Alloc2].pipe = NewPipe
            /\ Alloc2 \in FileId \ {Alloc1}
        BY <1>3, PipeMadeIs, Nodes
      <3> QED  BY <2>1, <3>1
    <2>3. g \in [PipeId -> FileId \ {Alloc1}] /\ \A q \in PipeId : inode'[g[q]].pipe = q
      BY <2>2
    <2> HIDE DEF g
    <2>4. IsFiniteSet(FileId) /\ Cardinality(FileId) = NFiles /\ PipeId = FileId
      BY FS_Interval DEF FileId, PipeId
    <2>5. IsFiniteSet(FileId \ {Alloc1}) /\ Cardinality(FileId \ {Alloc1}) < NFiles
      <3>1. Alloc1 \in FileId
        BY <1>3, PipeMadeIs
      <3> QED  BY <2>4, <3>1, FS_RemoveElement
    <2>6. PICK q \in PipeId, r \in PipeId : q # r /\ g[q] = g[r]
      <3>1. IsFiniteSet(PipeId) /\ Cardinality(FileId \ {Alloc1}) < Cardinality(PipeId)
        BY <2>4, <2>5
      <3> QED  BY <2>3, <2>5, <3>1, FS_PigeonHole
    <2> QED  BY <2>3, <2>6
  <1> QED  BY <1>2, <1>3

\* An end that is open keeps its entry, and an end keeps to one entry.
LEMMA StaysPipeEnds ==
    ASSUME TypeOK, Unnamed, PipeEnds, Next
    PROVE  PipeEnds'
  <1>1. /\ \A p \in PipeId : \A side \in open[p] :
             \E f \in FileId : used[f] /\ inode[f] = PipeEnd(p, side)
        /\ \A f, g \in FileId : IsPipe(inode[f]) /\ inode[f] = inode[g] => f = g
    BY DEF PipeEnds, IsPipe
  <1>2. SUFFICES
          /\ \A p \in PipeId : \A side \in open'[p] :
               \E f \in FileId : used'[f] /\ inode'[f] = PipeEnd(p, side)
          /\ \A f, g \in FileId : IsPipe(inode'[f]) /\ inode'[f] = inode'[g] => f = g
    <2>1. \A p, side : PipeEnd(p, side)' = PipeEnd(p, side)
      BY DEF PipeEnd
    <2> QED  BY <2>1 DEF PipeEnds, IsPipe
  <1>3. CASE UNCHANGED table
    BY <1>1, <1>3 DEF table
  <1>4. CASE OpensFiles
    <2>1. open' = open /\ \A f \in FileId : Keeps(f) \/ Opens(f)
      BY <1>4 DEF OpensFiles
    <2>2. \A f \in FileId : used[f] => used'[f] /\ inode'[f] = inode[f]
      BY <2>1 DEF Keeps, Opens
    <2>3. \A f \in FileId : IsPipe(inode'[f]) => inode'[f] = inode[f]
      BY <2>1 DEF Keeps, Opens
    <2> QED  BY <1>1, <2>1, <2>2, <2>3
  <1>5. CASE FreesFiles
    <2>1. /\ \A p \in PipeId : open'[p] \subseteq open[p]
          /\ \A f \in FileId : Keeps(f) \/ Frees(f)
      BY <1>5 DEF FreesFiles
    <2>2. ASSUME NEW p \in PipeId, NEW side \in open'[p]
          PROVE  \E f \in FileId : used'[f] /\ inode'[f] = PipeEnd(p, side)
      <3>1. PICK f \in FileId : used[f] /\ inode[f] = PipeEnd(p, side)
        BY <1>1, <2>1
      <3>2. ~Frees(f)
        BY <3>1, Nodes DEF Frees
      <3> QED  BY <2>1, <3>1, <3>2 DEF Keeps
    <2>3. \A f \in FileId : IsPipe(inode'[f]) => inode'[f] = inode[f]
      BY <2>1, Nodes DEF Keeps, Frees
    <2> QED  BY <1>1, <2>2, <2>3
  <1>6. CASE PipeMade
    <2>1. \A f \in FileId : IsPipe(inode[f]) => inode[f].pipe # NewPipe
      BY NewPipeIs
    <2>2. ASSUME NEW p \in PipeId, NEW side \in open'[p]
          PROVE  \E f \in FileId : used'[f] /\ inode'[f] = PipeEnd(p, side)
      <3>1. CASE p = NewPipe
        BY <1>6, <3>1, PipeMadeIs DEF Side
      <3>2. CASE p # NewPipe
        <4>1. PICK f \in FileId : used[f] /\ inode[f] = PipeEnd(p, side)
          BY <1>1, <1>6, <3>2, PipeMadeIs
        <4> QED  BY <1>6, <4>1, PipeMadeIs DEF Keeps
      <3> QED  BY <3>1, <3>2
    <2>3. ASSUME NEW f \in FileId, NEW g \in FileId, IsPipe(inode'[f]), inode'[f] = inode'[g]
          PROVE  f = g
      <3>1. inode'[Alloc1] # inode'[Alloc2]
        BY <1>6, PipeMadeIs, Nodes
      <3>2. \A h \in {Alloc1, Alloc2} : inode'[h].pipe = NewPipe
        BY <1>6, PipeMadeIs, Nodes
      <3>3. \A h \in FileId \ {Alloc1, Alloc2} : inode'[h] = inode[h]
        BY <1>6, PipeMadeIs DEF Keeps
      <3> QED  BY <1>1, <2>1, <2>3, <3>1, <3>2, <3>3
    <2> QED  BY <2>2, <2>3
  <1> QED  BY <1>3, <1>4, <1>5, <1>6, StepsTable

TableInv == TypeOK /\ Unnamed /\ PipeEnds

LEMMA InitTable == Init => TableInv
  <1> SUFFICES ASSUME Init PROVE TableInv
    OBVIOUS
  <1>1. 0 \in Task /\ 0 \in PipeId
    BY DEF Task, PipeId
  <1>2. TypeOK
    BY <1>1, Nodes DEF Init, TypeOK, NoFds
  <1>3. \A f \in FileId : ~IsPipe(inode[f])
    BY Nodes DEF Init
  <1>4. Unnamed
    BY <1>1, <1>3 DEF Unnamed
  <1>5. PipeEnds
    BY <1>3 DEF Init, PipeEnds, IsPipe
  <1> QED  BY <1>2, <1>4, <1>5 DEF TableInv

LEMMA StepTable == TableInv /\ [Next]_vars => TableInv'
  <1> SUFFICES ASSUME TableInv, [Next]_vars PROVE TableInv'
    OBVIOUS
  <1>1. TypeOK /\ Unnamed /\ PipeEnds
    BY DEF TableInv
  <1>2. CASE Next
    <2>1. TableType'
      BY <1>1, <1>2, StepsTable, PipeMadeIs DEF OpensFiles, FreesFiles, TypeOK, TableType, table
    <2>2. TypeOK'
      <3>1. TypeOK' <=> TableType' /\ FdsType'
        BY DEF TypeOK, TableType, FdsType, Row
      <3> QED  BY <1>1, <1>2, <2>1, <3>1, StepsFds
    <2> QED  BY <1>1, <1>2, <2>2, StaysUnnamed, StaysPipeEnds DEF TableInv
  <1>3. CASE UNCHANGED vars
    BY <1>1, <1>3 DEF vars, table, TableInv, TypeOK, Unnamed, PipeEnds, IsPipe
  <1> QED  BY <1>2, <1>3

\* The variables have their types, whatever the hazards are: in particular no
\* search for a free entry or a free pipe comes back with a number outside the
\* table.
THEOREM FilesTypeCorrect == Spec => []TypeOK
  <1>1. TableInv => TypeOK
    BY DEF TableInv
  <1> QED  BY <1>1, InitTable, StepTable, PTL DEF Spec

\* An end of a pipe that is open has an entry through which it can be used and
\* closed, and a pipe has one entry per end (vfs_close, pipe_create), whatever
\* the hazards are.
THEOREM PipeEndsHold == Spec => []PipeEnds
  <1>1. TableInv => PipeEnds
    BY DEF TableInv
  <1> QED  BY <1>1, InitTable, StepTable, PTL DEF Spec
-----------------------------------------------------------------------------
(* A free entry holds nothing, if no task_end is cut off between the two   *)
(* assignments of a vfs_close.                                             *)

\* All the closes but those of a task_end that is cut off blank what they free.
LEMMA CloseBlanks ==
    ASSUME TypeOK, NEW t \in Task, NEW lo, NEW hi, VfsClose(t, lo, hi), FreeIsBlank
    PROVE  FreeIsBlank'
  <1> DEFINE G == Freed(t, lo, hi)
  <1>1. used' = [f \in FileId |-> used[f] /\ f \notin G]
        /\ inode' = [f \in FileId |-> IF f \in G THEN Blank ELSE inode[f]]
    BY DEF VfsClose, Blanked
  <1> HIDE DEF G
  <1>2. \A f \in FileId : ~used'[f] => inode'[f] = Blank
    BY <1>1 DEF FreeIsBlank
  <1>3. Blank' = Blank
    BY DEF Blank
  <1> QED  BY <1>2, <1>3 DEF FreeIsBlank

LEMMA StaysBlank ==
    ASSUME "cut" \notin Hazards, TableInv, FreeIsBlank, [Next]_vars
    PROVE  FreeIsBlank'
  <1>1. TypeOK /\ Unnamed /\ Blank' = Blank
    BY DEF TableInv, Blank
  <1>2. CASE OpensFiles
    BY <1>1, <1>2 DEF OpensFiles, Keeps, Opens, FreeIsBlank
  <1>3. CASE PipeMade
    BY <1>1, <1>3, PipeMadeIs DEF Keeps, FreeIsBlank
  <1>4. CASE UNCHANGED table
    BY <1>1, <1>4 DEF table, FreeIsBlank
  <1>5. CASE UNCHANGED vars
    BY <1>4, <1>5 DEF vars
  <1>6. CASE Next
    <2>1. PICK t \in Task : Next!(t)
      BY <1>6 DEF Next
    <2>2. CASE TaskEnd(t) \/ \E d \in Fd : Close(t, d)
      BY <1>1, <2>2, CloseBlanks DEF TaskEnd, Close
    <2>3. CASE \E old, new \in Fd : Dup2(t, old, new)
      BY <1>1, <2>3, CloseBlanks DEF Dup2
    <2>4. ~TaskEndCut(t)
      BY DEF TaskEndCut
    <2>5. CASE \E o \in Objects : Open(t, o) \/ Exec(t, o)
      BY <1>1, <1>2, <2>5, StepsOpen
    <2>6. CASE StartThread(t)
      BY <1>1, <1>2, <2>6, StepsOpen
    <2>7. CASE MkPipe(t)
      <3>1. PipeFails \/ PipeMade
        BY <2>7 DEF MkPipe, PipeFails, PipeMade
      <3> QED  BY <1>1, <1>2, <1>3, <3>1, StepsOpen
    <2>8. CASE StopTask(t) \/ \E d \in Fd : Dup(t, d)
      BY <1>4, <2>8 DEF StopTask, Dup
    <2> QED  BY <2>1, <2>2, <2>3, <2>4, <2>5, <2>6, <2>7, <2>8
  <1> QED  BY <1>5, <1>6

LEMMA InitBlank == Init => FreeIsBlank
  BY DEF Init, FreeIsBlank

\* A free entry of the file table holds nothing, so that a descriptor left over
\* for it reads nothing (vfs_read, vfs_write), even when descriptors are shared.
THEOREM FreeIsBlankHolds == "cut" \notin Hazards => (Spec => []FreeIsBlank)
  <1> SUFFICES ASSUME "cut" \notin Hazards PROVE Spec => []FreeIsBlank
    OBVIOUS
  <1>1. Init => TableInv /\ FreeIsBlank
    BY InitTable, InitBlank
  <1>2. TableInv /\ FreeIsBlank /\ [Next]_vars => (TableInv /\ FreeIsBlank)'
    BY StepTable, StaysBlank
  <1> QED  BY <1>1, <1>2, PTL DEF Spec
-----------------------------------------------------------------------------
(* Descriptors, as long as no program shares them.  The invariant: what a  *)
(* descriptor names is in use, and no other descriptor names it.  Every    *)
(* step either only adds descriptors, for entries that were free, or only  *)
(* drops some, and then frees nothing that is not named by one of them.    *)

FdsInv ==
    \A t \in Task, d \in Fd : fds[t][d] # None =>
      /\ used[fds[t][d]]
      /\ \A u \in Task, e \in Fd : fds[u][e] = fds[t][d] => u = t /\ e = d

Fresh(f) == f \in FileId /\ ~used[f] /\ used'[f]
Lasts(f) == used'[f] /\ inode'[f] = inode[f]

AddsFds ==
    /\ \A f \in FileId : used[f] => Lasts(f)
    /\ \A t \in Task, d \in Fd : fds'[t][d] \in {fds[t][d], None} \/ Fresh(fds'[t][d])
    /\ \A t, u \in Task, d, e \in Fd :
         Fresh(fds'[t][d]) /\ fds'[t][d] = fds'[u][e] => t = u /\ d = e
    /\ \A t \in live, d \in Fd : fds[t][d] # None => fds'[t][d] = fds[t][d]

DropsFds ==
    /\ \A t \in Task, d \in Fd : fds'[t][d] \in {fds[t][d], None}
    /\ \A f \in FileId : used[f] =>
         Lasts(f) \/ \E t \in Task, d \in Fd : fds[t][d] = f /\ fds'[t][d] = None

LEMMA FdsKept ==
    ASSUME TypeOK, FdsInv, AddsFds \/ DropsFds
    PROVE  FdsInv' /\ KeepsFile
  <1>0. None \notin FileId /\ live \subseteq Task
        /\ \A t \in Task, d \in Fd : fds[t][d] \in FileId \cup {None}
    BY AllocIs DEF TypeOK
  <1>1. ASSUME NEW t \in Task, NEW d \in Fd, fds[t][d] # None, fds'[t][d] = fds[t][d]
        PROVE  Lasts(fds[t][d])
    <2>1. used[fds[t][d]] /\ fds[t][d] \in FileId
      BY <1>0, <1>1 DEF FdsInv
    <2>2. CASE AddsFds
      BY <2>1, <2>2 DEF AddsFds
    <2>3. CASE DropsFds
      <3>1. ASSUME NEW u \in Task, NEW e \in Fd, fds[u][e] = fds[t][d], fds'[u][e] = None
            PROVE  FALSE
        BY <1>1, <3>1 DEF FdsInv
      <3> QED  BY <2>1, <2>3, <3>1 DEF DropsFds
    <2> QED  BY <2>2, <2>3
  <1>2. KeepsFile
    BY <1>0, <1>1 DEF KeepsFile, Lasts
  <1>3. ASSUME NEW t \in Task, NEW d \in Fd, fds'[t][d] # None
        PROVE  /\ used'[fds'[t][d]]
               /\ \A u \in Task, e \in Fd : fds'[u][e] = fds'[t][d] => u = t /\ e = d
    <2>1. CASE fds'[t][d] = fds[t][d]
      <3>1. used[fds[t][d]] /\ used'[fds'[t][d]]
        BY <1>1, <1>3, <2>1 DEF FdsInv, Lasts
      <3>2. ASSUME NEW u \in Task, NEW e \in Fd, fds'[u][e] = fds'[t][d] PROVE u = t /\ e = d
        <4>1. ~Fresh(fds'[u][e])
          BY <2>1, <3>1, <3>2 DEF Fresh
        <4>2. fds'[u][e] = fds[u][e]
          BY <1>3, <3>2, <4>1 DEF AddsFds, DropsFds
        <4>3. fds[t][d] # None /\ fds[u][e] = fds[t][d]
          BY <1>3, <2>1, <3>2, <4>2
        <4> QED  BY <4>3 DEF FdsInv
      <3> QED  BY <3>1, <3>2
    <2>2. CASE fds'[t][d] # fds[t][d]
      <3>1. AddsFds /\ Fresh(fds'[t][d])
        BY <1>3, <2>2 DEF AddsFds, DropsFds
      <3> QED  BY <3>1 DEF AddsFds, Fresh
    <2> QED  BY <2>1, <2>2
  <1>4. FdsInv'
    BY <1>3 DEF FdsInv
  <1> QED  BY <1>2, <1>4

\* A task whose descriptors change gets some for entries that were free, in
\* places that were free or, as the slot was not live, are all set anew.
LEMMA RowAdds ==
    ASSUME TypeOK, FdsInv, NEW t \in Task, NEW row \in Row, fds' = [fds EXCEPT ![t] = row],
           \A f \in FileId : used[f] => Lasts(f),
           \A d \in Fd : \/ row[d] = fds[t][d]
                         \/ Fresh(row[d]) /\ (t \notin live \/ fds[t][d] = None)
                         \/ row[d] = None /\ t \notin live,
           \A d, e \in Fd : Fresh(row[d]) /\ row[d] = row[e] => d = e
    PROVE  AddsFds
  <1>1. fds'[t] = row /\ \A u \in Task \ {t} : fds'[u] = fds[u]
    BY DEF TypeOK
  <1>2. \A u \in Task, d \in Fd : ~Fresh(fds[u][d])
    BY AllocIs DEF FdsInv, Fresh
  <1>3. live \subseteq Task
    BY DEF TypeOK
  <1>4. \A u \in Task, d \in Fd : fds'[u][d] \in {fds[u][d], None} \/ Fresh(fds'[u][d])
    BY <1>1
  <1>5. ASSUME NEW v \in Task, NEW u \in Task, NEW d \in Fd, NEW e \in Fd,
               Fresh(fds'[v][d]), fds'[v][d] = fds'[u][e]
        PROVE  v = u /\ d = e
    <2>1. v = t /\ u = t
      BY <1>1, <1>2, <1>5
    <2> QED  BY <1>1, <1>5, <2>1
  <1>6. \A u \in live, d \in Fd : fds[u][d] # None => fds'[u][d] = fds[u][d]
    BY <1>1, <1>3
  <1> QED  BY <1>4, <1>5, <1>6 DEF AddsFds

LEMMA OpenAdds ==
    ASSUME TypeOK, FdsInv, NEW t \in Task, NEW o \in Objects, Open(t, o)
    PROVE  AddsFds
  <1>1. Alloc1 \in FileId /\ ~used[Alloc1] /\ t \in live /\ fds[t] \in Row
        /\ used \in [FileId -> BOOLEAN] /\ inode \in [FileId -> Inode] /\ Alloc1 # None
    BY AllocIs DEF Open, TypeOK, Row
  <1>2. used' = [used EXCEPT ![Alloc1] = TRUE] /\ inode' = [inode EXCEPT ![Alloc1] = FileNode(o)]
        /\ fds' = [fds EXCEPT ![t] = WithFd(fds[t], Alloc1)]
    BY DEF Open
  <1>3. \A f \in FileId : used[f] => Lasts(f)
    BY <1>1, <1>2 DEF Lasts
  <1>4. Fresh(Alloc1) /\ \A d \in Fd : ~Fresh(fds[t][d])
    BY <1>1, <1>2, AllocIs DEF Fresh, FdsInv
  <1> DEFINE row == WithFd(fds[t], Alloc1)
  <1>5. row \in Row /\ \/ row = fds[t]
                       \/ \E d \in Fd : fds[t][d] = None /\ row = [fds[t] EXCEPT ![d] = Alloc1]
    BY <1>1, WithFdIs
  <1> HIDE DEF row
  <1>6. \/ row = fds[t]
        \/ \E c \in Fd : /\ fds[t][c] = None /\ row[c] = Alloc1
                         /\ \A d \in Fd \ {c} : row[d] = fds[t][d]
    BY <1>1, <1>5 DEF Row
  <1>7. \A d \in Fd : \/ row[d] = fds[t][d]
                      \/ Fresh(row[d]) /\ (t \notin live \/ fds[t][d] = None)
                      \/ row[d] = None /\ t \notin live
    BY <1>4, <1>6
  <1>8. \A d, e \in Fd : Fresh(row[d]) /\ row[d] = row[e] => d = e
    BY <1>4, <1>6
  <1>9. fds' = [fds EXCEPT ![t] = row] /\ row \in Row
    BY <1>2, <1>5 DEF row
  <1> QED  BY ONLY TypeOK, FdsInv, t \in Task, <1>3, <1>7, <1>8, <1>9, RowAdds

LEMMA PipeAdds ==
    ASSUME TypeOK, Unnamed, FdsInv, NEW t \in Task, MkPipe(t)
    PROVE  AddsFds
  <1>1. CASE PipeFails
    <2>1. OpensFiles /\ fds' = fds
      BY <1>1, StepsOpen DEF PipeFails
    <2>2. \A f \in FileId : used[f] => Lasts(f)
      BY <2>1 DEF OpensFiles, Keeps, Opens, Lasts
    <2>3. \A u \in Task, d \in Fd : ~Fresh(fds[u][d])
      BY AllocIs DEF FdsInv, Fresh
    <2> QED  BY <2>1, <2>2, <2>3 DEF AddsFds
  <1>2. CASE ~PipeFails
    <2> DEFINE mid == WithFd(fds[t], Alloc1)
               row == WithFd(mid, Alloc2)
    <2>1. PipeMade /\ fds' = [fds EXCEPT ![t] = row] /\ t \in live
      BY <1>2 DEF MkPipe, PipeFails, PipeMade
    <2>2. /\ Alloc1 \in FileId /\ Alloc2 \in FileId /\ Alloc1 # Alloc2
          /\ Fresh(Alloc1) /\ Fresh(Alloc2)
          /\ \A f \in FileId \ {Alloc1, Alloc2} : Keeps(f)
      BY <2>1, PipeMadeIs DEF Fresh
    <2>3. \A f \in FileId : used[f] => Lasts(f)
      BY <2>2 DEF Keeps, Lasts, Fresh
    <2>4. fds[t] \in Row /\ \A d \in Fd : ~Fresh(fds[t][d])
      BY AllocIs DEF Fresh, FdsInv, TypeOK, Row
    <2>5. mid \in Row /\ \/ mid = fds[t]
                         \/ \E d \in Fd : fds[t][d] = None /\ mid = [fds[t] EXCEPT ![d] = Alloc1]
      BY <2>2, <2>4, WithFdIs
    <2>6. row \in Row /\ \/ row = mid
                         \/ \E d \in Fd : mid[d] = None /\ row = [mid EXCEPT ![d] = Alloc2]
      <3> HIDE DEF mid
      <3> QED  BY <2>2, <2>5, WithFdIs
    <2> HIDE DEF mid, row
    <2>7. \/ mid = fds[t]
          \/ \E c \in Fd : /\ fds[t][c] = None /\ mid[c] = Alloc1
                           /\ \A d \in Fd \ {c} : mid[d] = fds[t][d]
      BY <2>4, <2>5 DEF Row
    <2>8. \/ row = mid
          \/ \E c \in Fd : /\ mid[c] = None /\ row[c] = Alloc2
                           /\ \A d \in Fd \ {c} : row[d] = mid[d]
      BY <2>5, <2>6 DEF Row
    <2>9. \A d \in Fd : \/ row[d] = fds[t][d]
                        \/ Fresh(row[d]) /\ (t \notin live \/ fds[t][d] = None)
                        \/ row[d] = None /\ t \notin live
      <3>1. Alloc1 # None
        BY <2>2, AllocIs
      <3>2. \A d \in Fd : mid[d] = fds[t][d] \/ (mid[d] = Alloc1 /\ fds[t][d] = None)
        <4>1. CASE mid = fds[t]
          BY <4>1
        <4>2. ASSUME NEW c \in Fd, fds[t][c] = None, mid[c] = Alloc1,
                     \A d \in Fd \ {c} : mid[d] = fds[t][d]
              PROVE  \A d \in Fd : mid[d] = fds[t][d] \/ (mid[d] = Alloc1 /\ fds[t][d] = None)
          BY <4>2
        <4> QED  BY <2>7, <4>1, <4>2
      <3> QED  BY <2>2, <2>8, <3>1, <3>2
    <2>10. ASSUME NEW d \in Fd, NEW e \in Fd, Fresh(row[d]), row[d] = row[e] PROVE d = e
      <3>1. CASE row = mid
        BY <2>4, <2>7, <2>10, <3>1
      <3>2. ASSUME NEW c \in Fd, row[c] = Alloc2, \A b \in Fd \ {c} : row[b] = mid[b]
            PROVE  d = e
        <4>1. \A b \in Fd \ {c} : Fresh(row[b]) => row[b] = Alloc1
          BY <2>4, <2>7, <3>2
        <4>2. CASE d = c \/ e = c
          BY <2>2, <2>10, <3>2, <4>1, <4>2
        <4>3. CASE d # c /\ e # c
          <5>1. mid[d] = Alloc1 /\ mid[e] = Alloc1
            BY <2>10, <3>2, <4>1, <4>3
          <5> QED  BY <2>2, <2>4, <2>7, <5>1
        <4> QED  BY <4>2, <4>3
      <3> QED  BY <2>8, <3>1, <3>2
    <2>11. \A d, e \in Fd : Fresh(row[d]) /\ row[d] = row[e] => d = e
      BY <2>10
    <2> QED  BY ONLY TypeOK, FdsInv, t \in Task, <2>1, <2>3, <2>6, <2>9, <2>11, RowAdds
  <1> QED  BY <1>1, <1>2

\* A new task gets different entries, or none.
LEMMA ChildAdds ==
    ASSUME TypeOK, FdsInv, OpensFiles, ChildSlot # None,
           NEW f \in FileId \cup {None}, NEW g \in FileId \cup {None},
           f = None \/ Fresh(f), g = None \/ (Fresh(g) /\ f # g),
           StartDefault(f, g)
    PROVE  AddsFds
  <1> DEFINE row == [NoFds EXCEPT ![0] = f, ![1] = g]
  <1>1. ChildSlot \in Task /\ ChildSlot \notin live
    BY ChildIs
  <1>2. row \in Row /\ row[0] = f /\ row[1] = g /\ \A d \in Fd \ {0, 1} : row[d] = None
    BY DEF Row, NoFds, Fd
  <1>3. fds' = [fds EXCEPT ![ChildSlot] = row]
    BY DEF StartDefault
  <1> HIDE DEF row
  <1>4. \A d \in Fd : Fresh(row[d]) \/ row[d] = None
    BY <1>2
  <1>5. ~Fresh(None)
    BY AllocIs DEF Fresh
  <1>6. \A d, e \in Fd : Fresh(row[d]) /\ row[d] = row[e] => d = e
    BY <1>2, <1>5
  <1>7. \A h \in FileId : used[h] => Lasts(h)
    BY DEF OpensFiles, Keeps, Opens, Lasts
  <1> QED  BY <1>1, <1>2, <1>3, <1>4, <1>6, <1>7, RowAdds

LEMMA ThreadAdds ==
    ASSUME TypeOK, FdsInv, NEW t \in Task, StartThread(t)
    PROVE  AddsFds
  <1>1. OpensFiles
    BY StepsOpen
  <1>2. ChildSlot # None /\ StartDefault(Alloc1, Alloc2)
        /\ used' = [f \in FileId |-> used[f] \/ f \in {Alloc1, Alloc2}]
    BY DEF StartThread
  <1>3. \A f \in {Alloc1, Alloc2} : f = None \/ Fresh(f)
    BY <1>2, AllocIs DEF Fresh
  <1>4. /\ Alloc1 = None \/ Fresh(Alloc1)
        /\ Alloc2 = None \/ (Fresh(Alloc2) /\ Alloc1 # Alloc2)
    <2>1. Alloc2 = None \/ Alloc1 # Alloc2
      BY AllocIs
    <2> QED  BY <1>3, <2>1
  <1>5. Alloc1 \in FileId \cup {None} /\ Alloc2 \in FileId \cup {None}
    BY AllocIs
  <1> QED  BY ONLY TypeOK, FdsInv, <1>1, <1>2, <1>4, <1>5, ChildAdds

LEMMA ExecAdds ==
    ASSUME "share" \notin Hazards, TypeOK, FdsInv, NEW t \in Task, NEW o \in Objects, Exec(t, o)
    PROVE  AddsFds
  <1>1. OpensFiles
    BY StepsOpen
  <1>2. CASE UNCHANGED fds
    <2>1. \A f \in FileId : used[f] => Lasts(f)
      BY <1>1 DEF OpensFiles, Keeps, Opens, Lasts
    <2>2. \A u \in Task, d \in Fd : ~Fresh(fds[u][d])
      BY AllocIs DEF FdsInv, Fresh
    <2> QED  BY <1>2, <2>1, <2>2 DEF AddsFds
  <1>3. CASE ChildSlot # None /\ StartDefault(Alloc2, Alloc3)
             /\ used' = [f \in FileId |-> used[f] \/ f \in {Alloc1, Alloc2, Alloc3}]
    <2>1. \A f \in {Alloc2, Alloc3} : f = None \/ Fresh(f)
      BY <1>3, AllocIs DEF Fresh
    <2>2. /\ Alloc2 = None \/ Fresh(Alloc2)
          /\ Alloc3 = None \/ (Fresh(Alloc3) /\ Alloc2 # Alloc3)
      <3>1. Alloc3 = None \/ Alloc2 # Alloc3
        BY AllocIs
      <3> QED  BY <2>1, <3>1
    <2>3. Alloc2 \in FileId \cup {None} /\ Alloc3 \in FileId \cup {None}
      BY AllocIs
    <2> QED  BY ONLY TypeOK, FdsInv, <1>1, <1>3, <2>2, <2>3, ChildAdds
  <1> QED  BY <1>2, <1>3 DEF Exec

\* What a task closes it no longer names.
LEMMA CloseDrops ==
    ASSUME TypeOK, NEW t \in Task, NEW lo \in Nat, NEW hi \in 0 .. NFds,
           NEW F \in SUBSET Freed(t, lo, hi), Closes(t, lo, hi, F),
           NEW row \in Row, fds' = [fds EXCEPT ![t] = row],
           \A d \in Fd : /\ row[d] \in {fds[t][d], None}
                         /\ lo <= d /\ d < hi => row[d] = None
    PROVE  DropsFds
  <1>1. fds'[t] = row /\ \A u \in Task \ {t} : fds'[u] = fds[u]
    BY DEF TypeOK
  <1>2. \A u \in Task, d \in Fd : fds'[u][d] \in {fds[u][d], None}
    BY <1>1
  <1>3. ASSUME NEW f \in FileId, used[f]
        PROVE  Lasts(f) \/ \E u \in Task, d \in Fd : fds[u][d] = f /\ fds'[u][d] = None
    <2>1. CASE f \in Freed(t, lo, hi)
      <3>1. PICK d \in Fd : lo <= d /\ d < hi /\ fds[t][d] = f
        BY <2>1, FreedIs
      <3> QED  BY <1>1, <3>1
    <2>2. CASE f \notin Freed(t, lo, hi)
      <3>1. used \in [FileId -> BOOLEAN] /\ f \notin F
        BY <2>2 DEF TypeOK
      <3>2. /\ used' = [g \in FileId |-> used[g] /\ g \notin Freed(t, lo, hi)]
            /\ inode' = [g \in FileId |-> IF g \in F THEN Blanked(g) ELSE inode[g]]
        BY DEF Closes
      <3> QED  BY <1>3, <2>2, <3>1, <3>2 DEF Lasts
    <2> QED  BY <2>1, <2>2
  <1> QED  BY <1>2, <1>3 DEF DropsFds

LEMMA NoFdsIs == NoFds \in Row /\ \A d \in Fd : NoFds[d] = None
  BY DEF NoFds, Row

LEMMA StepsDrop ==
    ASSUME TypeOK, NEW t \in Task,
           StopTask(t) \/ TaskEnd(t) \/ TaskEndCut(t) \/ \E d \in Fd : Close(t, d)
    PROVE  DropsFds
  <1>1. CASE StopTask(t)
    <2>1. UNCHANGED table /\ fds' = [fds EXCEPT ![t] = NoFds]
      BY <1>1 DEF StopTask, Gone
    <2>2. \A u \in Task, d \in Fd : fds'[u][d] \in {fds[u][d], None}
      BY <2>1, NoFdsIs DEF TypeOK
    <2> QED  BY <2>1, <2>2 DEF DropsFds, Lasts, table
  <1>2. CASE TaskEnd(t)
    <2>1. VfsClose(t, EndFrom(t), NFds) /\ fds' = [fds EXCEPT ![t] = NoFds]
      BY <1>2 DEF TaskEnd, Gone
    <2>2. Closes(t, EndFrom(t), NFds, Freed(t, EndFrom(t), NFds)) /\ EndFrom(t) \in Nat
          /\ NFds \in 0 .. NFds
      BY <2>1, VfsCloseIs, EndFromIs
    <2>3. Freed(t, EndFrom(t), NFds) \in SUBSET Freed(t, EndFrom(t), NFds)
      OBVIOUS
    <2>4. \A d \in Fd : NoFds[d] \in {fds[t][d], None}
                        /\ (EndFrom(t) <= d /\ d < NFds => NoFds[d] = None)
      BY NoFdsIs
    <2> QED  BY <2>1, <2>2, <2>3, <2>4, NoFdsIs, CloseDrops
  <1>3. CASE TaskEndCut(t)
    <2>1. PICK hi \in 0 .. NFds : \E F \in SUBSET Freed(t, EndFrom(t), hi) :
              Closes(t, EndFrom(t), hi, F)
      BY <1>3, EndCutIs
    <2>2. PICK F \in SUBSET Freed(t, EndFrom(t), hi) : Closes(t, EndFrom(t), hi, F)
      BY <2>1
    <2>3. fds' = [fds EXCEPT ![t] = NoFds] /\ EndFrom(t) \in Nat
      BY <1>3, EndFromIs DEF TaskEndCut, Gone
    <2>4. \A d \in Fd : NoFds[d] \in {fds[t][d], None}
                        /\ (EndFrom(t) <= d /\ d < hi => NoFds[d] = None)
      BY NoFdsIs
    <2> QED  BY <2>2, <2>3, <2>4, NoFdsIs, CloseDrops
  <1>4. ASSUME NEW d \in Fd, Close(t, d) PROVE DropsFds
    <2> DEFINE row == NoDescriptor(fds[t], d)
               hi == d + 1
    <2>1. d \in Nat /\ hi \in 0 .. NFds
      BY DEF Fd
    <2>2. Closes(t, d, hi, Freed(t, d, hi)) /\ fds' = [fds EXCEPT ![t] = row]
      BY <1>4, VfsCloseIs DEF Close
    <2>3. fds[t] \in Row
      BY DEF TypeOK, Row
    <2>4. row \in Row /\ row[d] = None /\ \A e \in Fd \ {d} : row[e] = fds[t][e]
      BY <2>3 DEF Row, NoDescriptor
    <2>5. \A e \in Fd : row[e] \in {fds[t][e], None}
                        /\ (d <= e /\ e < hi => row[e] = None)
      <3>1. \A e \in Fd : d <= e /\ e < hi => e = d
        BY DEF Fd
      <3> QED  BY <2>4, <3>1
    <2>6. Freed(t, d, hi) \in SUBSET Freed(t, d, hi)
      OBVIOUS
    <2> HIDE DEF row, hi
    <2> QED  BY <2>1, <2>2, <2>4, <2>5, <2>6, CloseDrops, ZenonT(30)
  <1> QED  BY <1>1, <1>2, <1>3, <1>4

LEMMA StepsFdsKinds ==
    ASSUME "share" \notin Hazards, TypeOK, Unnamed, FdsInv, NEW t \in Task, Next!(t)
    PROVE  AddsFds \/ (DropsFds /\ (\/ StopTask(t) \/ TaskEnd(t) \/ TaskEndCut(t)
                                    \/ \E d \in Fd : Close(t, d)))
  <1>1. CASE \E o \in Objects : Open(t, o) \/ Exec(t, o)
    BY <1>1, OpenAdds, ExecAdds
  <1>2. CASE MkPipe(t) \/ StartThread(t)
    BY <1>2, PipeAdds, ThreadAdds
  <1>3. CASE StopTask(t) \/ TaskEnd(t) \/ TaskEndCut(t) \/ \E d \in Fd : Close(t, d)
    BY <1>3, StepsDrop
  <1>4. ~(\E d \in Fd : Dup(t, d)) /\ ~(\E old, new \in Fd : Dup2(t, old, new))
    BY DEF Dup, Dup2
  <1> QED  BY <1>1, <1>2, <1>3, <1>4

LEMMA StepGivesBack ==
    ASSUME "share" \notin Hazards, TypeOK, Unnamed, FdsInv, Next
    PROVE  GivesBack
  <1> SUFFICES ASSUME ~\E u \in Task : StopTask(u) \/ TaskEndCut(u),
                      NEW t \in live, NEW d \in Fd, fds[t][d] # None,
                      fds'[t][d] # fds[t][d], ~IsPipe(inode[fds[t][d]]), d >= 2 \/ stdio[t]
               PROVE  ~used'[fds[t][d]]
    BY DEF GivesBack, IsPipe
  <1>1. PICK u \in Task : Next!(u)
    BY DEF Next
  <1>2. t \in Task /\ fds[t][d] \in FileId
    BY DEF TypeOK
  <1>3. ~AddsFds
    BY DEF AddsFds
  <1>4. TaskEnd(u) \/ \E e \in Fd : Close(u, e)
    BY <1>1, <1>3, StepsFdsKinds
  <1>5. CASE TaskEnd(u)
    <2>1. VfsClose(u, EndFrom(u), NFds) /\ fds' = [fds EXCEPT ![u] = NoFds]
      BY <1>5 DEF TaskEnd, Gone
    <2>2. u = t
      BY <1>2, <2>1 DEF TypeOK
    <2>3. EndFrom(t) <= d /\ d < NFds /\ EndFrom(t) \in Nat /\ NFds \in 0 .. NFds
      BY DEF EndFrom, Fd
    <2>4. fds[t][d] \in Freed(t, EndFrom(t), NFds)
      BY <1>2, <2>3, FreedIs
    <2> QED  BY <1>2, <2>1, <2>2, <2>4 DEF VfsClose
  <1>6. ASSUME NEW e \in Fd, Close(u, e) PROVE ~used'[fds[t][d]]
    <2>1. VfsClose(u, e, e + 1) /\ fds' = [fds EXCEPT ![u] = NoDescriptor(fds[u], e)]
      BY <1>6 DEF Close
    <2>2. u = t /\ e = d
      <3>1. fds[u] \in Row /\ fds \in [Task -> Row]
        BY DEF TypeOK, Row
      <3>2. \A c \in Fd \ {e} : NoDescriptor(fds[u], e)[c] = fds[u][c]
        BY <3>1 DEF Row, NoDescriptor
      <3> QED  BY <1>2, <2>1, <3>1, <3>2
    <2>3. d \in Nat /\ d + 1 \in 0 .. NFds /\ d <= d /\ d < d + 1
      BY DEF Fd
    <2>4. fds[t][d] \in Freed(t, d, d + 1)
      BY <1>2, <2>3, FreedIs
    <2> QED  BY <1>2, <2>1, <2>2, <2>4 DEF VfsClose
  <1> QED  BY <1>4, <1>5, <1>6

OwnInv == TableInv /\ FdsInv

LEMMA InitOwn == Init => OwnInv
  <1> SUFFICES ASSUME Init PROVE OwnInv
    OBVIOUS
  <1>1. FdsInv
    BY NoFdsIs DEF Init, FdsInv
  <1> QED  BY <1>1, InitTable DEF OwnInv

LEMMA StepOwn ==
    ASSUME "share" \notin Hazards, OwnInv, [Next]_vars
    PROVE  OwnInv' /\ KeepsFile /\ GivesBack
  <1>1. TableInv /\ TypeOK /\ Unnamed /\ FdsInv
    BY DEF OwnInv, TableInv
  <1>2. TableInv'
    BY <1>1, StepTable
  <1>3. CASE Next
    <2>1. PICK t \in Task : Next!(t)
      BY <1>3 DEF Next
    <2>2. FdsInv' /\ KeepsFile
      BY <1>1, <2>1, StepsFdsKinds, FdsKept
    <2> QED  BY <1>1, <1>2, <1>3, <2>2, StepGivesBack DEF OwnInv
  <1>4. CASE UNCHANGED vars
    <2>1. UNCHANGED <<used, inode, fds, live>>
      BY <1>4 DEF vars, table
    <2>2. FdsInv' /\ GivesBack
      BY <1>1, <2>1 DEF FdsInv, GivesBack
    <2>3. KeepsFile
      BY <1>1, <2>1 DEF FdsInv, KeepsFile, TypeOK
    <2> QED  BY <1>2, <2>2, <2>3 DEF OwnInv
  <1> QED  BY <1>3, <1>4

LEMMA OwnIsPrivate == OwnInv => Private
  <1> SUFFICES ASSUME OwnInv PROVE Private
    OBVIOUS
  <1>1. live \subseteq Task /\ FdsInv
    BY DEF OwnInv, TableInv, TypeOK
  <1> QED  BY <1>1 DEF FdsInv, Private

\* As long as no program asks for sharing, an entry of the file table has one
\* descriptor, whatever is killed or cut off and however full the tables are.
THEOREM PrivateHolds == "share" \notin Hazards => (Spec => []Private)
  <1> SUFFICES ASSUME "share" \notin Hazards PROVE Spec => []Private
    OBVIOUS
  <1>1. OwnInv /\ [Next]_vars => OwnInv'
    BY StepOwn
  <1> QED  BY <1>1, InitOwn, OwnIsPrivate, PTL DEF Spec

\* As long as no program asks for sharing, a descriptor goes on naming the file
\* it was given for, whatever any task closes, opens or ends (vfs_close,
\* task_end).
THEOREM FaithfulHolds == "share" \notin Hazards => (Spec => Faithful)
  <1> SUFFICES ASSUME "share" \notin Hazards PROVE Spec => Faithful
    OBVIOUS
  <1>1. OwnInv /\ [Next]_vars => OwnInv' /\ KeepsFile
    BY StepOwn
  <1> QED  BY <1>1, InitOwn, PTL DEF Spec, Faithful

\* As long as no program asks for sharing, a descriptor that goes away takes its
\* file with it, but in the cases GivesBack names (syscall_close, task_end).
THEOREM ReclaimedHolds == "share" \notin Hazards => (Spec => Reclaimed)
  <1> SUFFICES ASSUME "share" \notin Hazards PROVE Spec => Reclaimed
    OBVIOUS
  <1>1. OwnInv /\ [Next]_vars => OwnInv' /\ GivesBack
    BY StepOwn
  <1> QED  BY <1>1, InitOwn, PTL DEF Spec, Reclaimed
=============================================================================
