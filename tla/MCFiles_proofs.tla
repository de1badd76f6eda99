--------------------------- MODULE MCFiles_proofs ---------------------------
(***************************************************************************)
(* What Files_proofs shows of each of the two settings of MCFiles, put     *)
(* together: SP is the second setting with the lemmas about it.            *)
(***************************************************************************)
EXTENDS MCFiles, Files_proofs

SP == INSTANCE Files_proofs
        WITH NFiles <- SharedFiles, NFds <- SharedFds, Hazards <- SharedHazards

\* S and SP are the same instance of Files.
LEMMA SameInit == S!Init <=> SP!Init
  BY DEF S!Init, S!FileId, S!PipeId, S!Task, S!NoFds, S!Fd, S!None, S!Blank,
         SP!Init, SP!FileId, SP!PipeId, SP!Task, SP!NoFds, SP!Fd, SP!None, SP!Blank

LEMMA SameProperties ==
    /\ S!TypeOK <=> SP!TypeOK
    /\ S!FreeIsBlank <=> SP!FreeIsBlank
    /\ S!PipeEnds <=> SP!PipeEnds
  <1> USE DEF S!FileId, S!PipeId, S!Task, S!Fd, S!None, S!Blank, S!Side, S!PipeEnd, S!FileNode,
              S!Inode, S!Kbd, S!Console,
              SP!FileId, SP!PipeId, SP!Task, SP!Fd, SP!None, SP!Blank, SP!Side, SP!PipeEnd,
              SP!FileNode, SP!Inode, SP!Kbd, SP!Console
  <1>1. S!TypeOK <=> SP!TypeOK
    BY DEF S!TypeOK, SP!TypeOK
  <1>2. S!FreeIsBlank <=> SP!FreeIsBlank
    BY DEF S!FreeIsBlank, SP!FreeIsBlank
  <1>3. S!PipeEnds <=> SP!PipeEnds
    BY DEF S!PipeEnds, SP!PipeEnds
  <1> QED  BY <1>1, <1>2, <1>3

LEMMA SameNext == S!Next <=> SP!Next
  <1> USE DEF S!Alloc1, S!Alloc2, S!Alloc3, S!First, S!FreeFiles, S!WithFd, S!FreeFds, S!Overrun,
              S!Blanked, S!SidesClosed, S!FullyClosed, S!Freed, S!VfsClose, S!FileId, S!Task, S!Fd,
              S!PipeId, S!Side, S!None, S!Kbd, S!Console, S!Blank, S!FileNode, S!PipeEnd, S!NoFds,
              S!NoDescriptor, S!NewPipe, S!ChildSlot, S!StartDefault, S!StartSharing, S!Gone,
              S!EndFrom, S!table,
              SP!Alloc1, SP!Alloc2, SP!Alloc3, SP!First, SP!FreeFiles, SP!WithFd, SP!FreeFds,
              SP!Overrun, SP!Blanked, SP!SidesClosed, SP!FullyClosed, SP!Freed, SP!VfsClose,
              SP!FileId, SP!Task, SP!Fd, SP!PipeId, SP!Side, SP!None, SP!Kbd, SP!Console, SP!Blank,
              SP!FileNode, SP!PipeEnd, SP!NoFds, SP!NoDescriptor, SP!NewPipe, SP!ChildSlot,
              SP!StartDefault, SP!StartSharing, SP!Gone, SP!EndFrom, SP!table
  <1>1. ASSUME NEW t, NEW o PROVE S!Open(t, o) <=> SP!Open(t, o)
    BY DEF S!Open, SP!Open
  <1>2. ASSUME NEW t, NEW o PROVE S!Exec(t, o) <=> SP!Exec(t, o)
    BY DEF S!Exec, SP!Exec
  <1>3. ASSUME NEW t, NEW d PROVE S!Close(t, d) <=> SP!Close(t, d)
    BY DEF S!Close, SP!Close
  <1>4. ASSUME NEW t, NEW d PROVE S!Dup(t, d) <=> SP!Dup(t, d)
    BY DEF S!Dup, SP!Dup
  <1>5. ASSUME NEW t, NEW old, NEW new PROVE S!Dup2(t, old, new) <=> SP!Dup2(t, old, new)
    BY DEF S!Dup2, SP!Dup2
  <1>6. ASSUME NEW t PROVE S!MkPipe(t) <=> SP!MkPipe(t)
    BY DEF S!MkPipe, SP!MkPipe, S!Cardinality, SP!Cardinality
  <1>7. ASSUME NEW t PROVE S!StartThread(t) <=> SP!StartThread(t)
    BY DEF S!StartThread, SP!StartThread
  <1>8. ASSUME NEW t PROVE S!StopTask(t) <=> SP!StopTask(t)
    BY DEF S!StopTask, SP!StopTask
  <1>9. ASSUME NEW t PROVE S!TaskEnd(t) <=> SP!TaskEnd(t)
    BY DEF S!TaskEnd, SP!TaskEnd
  <1>10. ASSUME NEW t PROVE S!TaskEndCut(t) <=> SP!TaskEndCut(t)
    BY DEF S!TaskEndCut, SP!TaskEndCut
  <1> QED  BY <1>1, <1>2, <1>3, <1>4, <1>5, <1>6, <1>7, <1>8, <1>9, <1>10 DEF S!Next, SP!Next
-----------------------------------------------------------------------------
(* A step is a step of the setting it is in.                               *)

mcvars == <<vars, sharing>>

LEMMA Settings ==
    /\ SP!SizeAssumption /\ SP!HazardAssumption
    /\ MCInit => sharing \in BOOLEAN /\ IF sharing THEN SP!Init ELSE Init
    /\ [MCNext]_mcvars =>
         sharing' = sharing /\ IF sharing THEN [SP!Next]_SP!vars ELSE [Next]_vars
  <1>1. SP!SizeAssumption /\ SP!HazardAssumption
    BY SizeAssumption, SharedAssumption
       DEF SP!SizeAssumption, SP!HazardAssumption, SP!HazardKinds, HazardKinds
  <1>2. MCInit => sharing \in BOOLEAN /\ IF sharing THEN SP!Init ELSE Init
    BY SameInit DEF MCInit
  <1>3. ASSUME MCNext PROVE sharing' = sharing /\ IF sharing THEN SP!Next ELSE Next
    BY <1>3, SameNext DEF MCNext
  <1>4. ASSUME UNCHANGED mcvars PROVE sharing' = sharing /\ UNCHANGED vars /\ UNCHANGED SP!vars
    BY <1>4 DEF mcvars, vars, table, SP!vars, SP!table
  <1> QED  BY <1>1, <1>2, <1>3, <1>4

TypeInv == sharing \in BOOLEAN /\ IF sharing THEN SP!TableInv ELSE TableInv

LEMMA InitType == MCInit => TypeInv
  BY Settings, InitTable, SP!InitTable DEF TypeInv

LEMMA StepType == TypeInv /\ [MCNext]_mcvars => TypeInv'
  <1> SUFFICES ASSUME TypeInv, [MCNext]_mcvars PROVE TypeInv'
    OBVIOUS
  <1>1. sharing' = sharing /\ sharing \in BOOLEAN
        /\ IF sharing THEN [SP!Next]_SP!vars /\ SP!TableInv ELSE [Next]_vars /\ TableInv
    BY Settings DEF TypeInv
  <1>2. IF sharing THEN SP!TableInv' ELSE TableInv'
    BY <1>1, Settings, StepTable, SP!StepTable
  <1> QED  BY <1>1, <1>2 DEF TypeInv

\* The variables have their types in both settings.
THEOREM BothTypeCorrect == MCSpec => []FilesTypeOK
  <1>1. TypeInv => FilesTypeOK
    BY SameProperties DEF TypeInv, TableInv, SP!TableInv, FilesTypeOK
  <1> QED  BY <1>1, InitType, StepType, PTL DEF MCSpec, mcvars

\* The second setting is one that shares, but cuts off no task_end.
Apart == "share" \notin Hazards /\ "cut" \notin SharedHazards

SoundInv == TypeInv /\ IF sharing THEN SP!FreeIsBlank ELSE FdsInv

LEMMA InitSound == MCInit => SoundInv
  BY InitType, Settings, InitOwn, SP!InitBlank DEF SoundInv, OwnInv

LEMMA StepSound ==
    ASSUME Apart, SoundInv, [MCNext]_mcvars
    PROVE  SoundInv' /\ (sharing \/ (KeepsFile /\ GivesBack))
  <1>1. TypeInv'
    BY StepType DEF SoundInv
  <1>2. sharing' = sharing /\ sharing \in BOOLEAN
    BY Settings DEF SoundInv, TypeInv
  <1>3. CASE sharing
    <2>1. SP!TableInv /\ SP!FreeIsBlank /\ [SP!Next]_SP!vars
      BY <1>3, Settings DEF SoundInv, TypeInv
    <2>2. SP!FreeIsBlank'
      BY <2>1, Settings, SP!StaysBlank DEF Apart
    <2> QED  BY <1>1, <1>2, <1>3, <2>2 DEF SoundInv
  <1>4. CASE ~sharing
    <2>1. OwnInv /\ [Next]_vars
      BY <1>2, <1>4, Settings DEF SoundInv, TypeInv, OwnInv
    <2>2. OwnInv' /\ KeepsFile /\ GivesBack
      BY <2>1, StepOwn DEF Apart
    <2> QED  BY <1>1, <1>2, <1>4, <2>2 DEF SoundInv, OwnInv
  <1> QED  BY <1>3, <1>4

\* Without sharing, an entry of the file table has one descriptor; even with
\* sharing, a free entry holds nothing, and an end of a pipe that is open has an
\* entry, and only one (vfs_close, vfs_allocFileD, syscall_pipe).
THEOREM TableStaysSound == Apart => (MCSpec => []TableIsSound)
  <1> SUFFICES ASSUME Apart PROVE MCSpec => []TableIsSound
    OBVIOUS
  <1>1. SoundInv => TableIsSound
    BY OwnIsPrivate, SameProperties
       DEF SoundInv, TypeInv, OwnInv, SP!TableInv, TableIsSound
  <1>2. SoundInv /\ [MCNext]_mcvars => SoundInv'
    BY StepSound
  <1> QED  BY <1>1, <1>2, InitSound, PTL DEF MCSpec, mcvars

\* Without sharing, a descriptor keeps naming the file or pipe end it was given
\* for, and takes it with it when it goes away (vfs_close, task_end).
THEOREM DescriptorIsFollowed == "share" \notin Hazards => (MCSpec => FollowsDescriptor)
  <1> SUFFICES ASSUME "share" \notin Hazards PROVE MCSpec => FollowsDescriptor
    OBVIOUS
  <1>1. TypeInv /\ (sharing \/ FdsInv) /\ [MCNext]_mcvars =>
          (TypeInv /\ (sharing \/ FdsInv))' /\ (sharing \/ (KeepsFile /\ GivesBack))
    <2> SUFFICES ASSUME TypeInv, sharing \/ FdsInv, [MCNext]_mcvars
                 PROVE  (sharing \/ FdsInv)' /\ (sharing \/ (KeepsFile /\ GivesBack))
      BY StepType
    <2>1. sharing' = sharing
      BY Settings
    <2>2. CASE ~sharing
      <3>1. OwnInv /\ [Next]_vars
        BY <2>2, Settings DEF TypeInv, OwnInv
      <3> QED  BY <3>1, StepOwn DEF OwnInv
    <2> QED  BY <2>1, <2>2
  <1>2. MCInit => TypeInv /\ (sharing \/ FdsInv)
    BY InitType, Settings, InitOwn DEF OwnInv
  <1> QED  BY <1>1, <1>2, PTL DEF MCSpec, mcvars, FollowsDescriptor
=============================================================================
