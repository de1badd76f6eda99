------------------------------- MODULE Files -------------------------------
(***************************************************************************)
(* The system-wide file table (vfs.c) and the descriptor tables of the     *)
(* tasks (multitasking.c), with the system calls that move descriptors and *)
(* the ends of the pipes.  Nothing counts the references to an entry of    *)
(* the file table: whoever closes it first frees it.                       *)
(*                                                                         *)
(* A system call is one step.  task_end is preemptible, and a task that is *)
(* preempted in it never gets the processor back, so it is one step that   *)
(* may be cut off anywhere.                                                *)
(***************************************************************************)
EXTENDS Integers, FiniteSets

CONSTANTS
    NFiles,   \* VFS_maxFiles
    NTasks,   \* MAX_TASKS
    NFds,     \* MT_maxDescriptors
    Objects,  \* the files programs open, other than Kbd and Console
    Hazards   \* what the environment may do, see HazardKinds

\* share: dup, dup2 and inheriting descriptors.   kill: exit and stop_task.
\* cut: a task is preempted in task_end.   exec: programs start programs.
\* full: programs use up their descriptors, or the file table.
HazardKinds == {"share", "kill", "cut", "exec", "full"}

FileId == 0 .. NFiles - 1
Task == 0 .. NTasks - 1
Fd == 0 .. NFds - 1
PipeId == 0 .. NFiles - 1  \* no more pipes than that are in the table
Side == {"read", "write"}
None == -1
Kbd == "kbd"
Console == "console"

ASSUME SizeAssumption == NFiles \in Nat \ {0} /\ NTasks \in Nat \ {0} /\ NFds \in Nat \ {0, 1}
ASSUME HazardAssumption == Hazards \subseteq HazardKinds

VARIABLES
    used,    \* used[f]: VFS_fileTable[f].status is 0
    inode,   \* VFS_fileTable[f].inode
    open,    \* open[p]: the sides of pipe p that are open
    live,    \* the tasks with slot_active set
    fds,     \* fds[t]: file_descs
    stdio    \* auto_stdinout

table == <<used, inode, open>>
vars == <<table, live, fds, stdio>>

Blank == [type |-> "none"]
FileNode(o) == [type |-> "file", file |-> o]
PipeEnd(p, side) == [type |-> "pipe", pipe |-> p, side |-> side]
Inode == {Blank} \cup {FileNode(o) : o \in Objects \cup {Kbd, Console}}
                 \cup {PipeEnd(p, side) : p \in PipeId, side \in Side}

TypeOK ==
    /\ used \in [FileId -> BOOLEAN] /\ inode \in [FileId -> Inode]
    /\ open \in [PipeId -> SUBSET Side]
    /\ live \subseteq Task
    /\ fds \in [Task -> [Fd -> FileId \cup {None}]]
    /\ stdio \in [Task -> BOOLEAN]

NoFds == [d \in Fd |-> None]

\* After vfs_init.  The kernel task was started before there was a file
\* system, and has no descriptors.
Init ==
    /\ used = [f \in FileId |-> FALSE] /\ inode = [f \in FileId |-> Blank]
    /\ open = [p \in PipeId |-> {}]
    /\ live = {0} /\ fds = [t \in Task |-> NoFds]
    /\ stdio = [t \in Task |-> TRUE]
-----------------------------------------------------------------------------
(* The tables.                                                             *)

\* The first of a set of numbers, -1 if there is none.
First(S) == IF S = {} THEN None ELSE CHOOSE i \in S : \A j \in S : i <= j

FreeFilesM == {f \in FileId : inode[f].type # "pipe"}  \* mutant: opened files count as free
FreeFiles == {f \in FileId : ~used[f]}
Alloc1M ==  \* mutant: a full table gives the entry behind the last one
    IF FreeFiles = {} THEN NFiles ELSE First(FreeFiles)
\* vfs_allocFileD, the n-th time in a row
Alloc1 == First(FreeFiles)
Alloc2 == First(FreeFiles \ {Alloc1})
Alloc3 == First(FreeFiles \ {Alloc1, Alloc2})

\* task_allocFD: the first free descriptor.  A full table makes it write to
\* file_descs[-1], which clears the flags that lie before the table.
FreeFds(row) == {d \in Fd : row[d] = None}
WithFd(row, f) ==
    IF f = None \/ FreeFds(row) = {} THEN row
    ELSE [row EXCEPT ![First(FreeFds(row))] = f]
Overrun(row, f) == f # None /\ FreeFds(row) = {}

Blanked(e) == Blank

\* vfs_close of the descriptors from lo up to before hi, in this order.  A
\* pipe's entry is only freed by the close that finds both of its ends closed.
SidesClosed(t, p, lo, d) ==
    {inode[fds[t][e]].side : e \in {c \in lo .. d :
        fds[t][c] # None /\ inode[fds[t][c]].type = "pipe" /\ inode[fds[t][c]].pipe = p}}
FullyClosed(p, sides) == open[p] \subseteq sides
Freed(t, lo, hi) ==
    {fds[t][d] : d \in {c \in lo .. hi - 1 :
        /\ fds[t][c] # None
        /\ inode[fds[t][c]].type = "pipe" =>
             FullyClosed(inode[fds[t][c]].pipe,
                         SidesClosed(t, inode[fds[t][c]].pipe, lo, c))}}
VfsClose(t, lo, hi) ==
    /\ used' = [f \in FileId |-> used[f] /\ f \notin Freed(t, lo, hi)]
    /\ inode' = [f \in FileId |-> IF f \in Freed(t, lo, hi) THEN Blanked(f) ELSE inode[f]]
    /\ open' = [p \in PipeId |-> open[p] \ SidesClosed(t, p, lo, hi - 1)]
-----------------------------------------------------------------------------
(* The system calls of task t.                                             *)

\* syscall_open
Open(t, o) ==
    /\ t \in live
    /\ FreeFds(fds[t]) # {} \/ "full" \in Hazards
    /\ Alloc1 # None
    /\ used' = [used EXCEPT ![Alloc1] = TRUE]
    /\ inode' = [inode EXCEPT ![Alloc1] = FileNode(o)]
    /\ fds' = [fds EXCEPT ![t] = WithFd(@, Alloc1)]
    /\ stdio' = [stdio EXCEPT ![t] = @ /\ ~Overrun(fds[t], Alloc1)]
    /\ UNCHANGED <<open, live>>

NoDescriptor(row, d) == [row EXCEPT ![d] = None]  \* task_freeFD
\* syscall_close
Close(t, d) ==
    /\ t \in live /\ fds[t][d] # None
    /\ VfsClose(t, d, d + 1)
    /\ fds' = [fds EXCEPT ![t] = NoDescriptor(@, d)]
    /\ UNCHANGED <<live, stdio>>

\* syscall_pipe.  If there is no second entry, the first is left allocated.
\* A pipe no entry names any more stands for the new one.
NewPipe == First({p \in PipeId : \A side \in Side : \A f \in FileId :
                                   inode[f] # PipeEnd(p, side)})
MkPipe(t) ==
    /\ t \in live
    /\ Cardinality(FreeFds(fds[t])) >= 2 \/ "full" \in Hazards
    /\ \/ /\ "full" \in Hazards /\ Alloc1 # None /\ Alloc2 = None
          /\ used' = [used EXCEPT ![Alloc1] = TRUE]
          /\ UNCHANGED <<inode, open, fds, stdio>>
       \/ /\ Alloc2 # None
          /\ used' = [used EXCEPT ![Alloc1] = TRUE, ![Alloc2] = TRUE]
          /\ inode' = [inode EXCEPT ![Alloc1] = PipeEnd(NewPipe, "write"),
                                    ![Alloc2] = PipeEnd(NewPipe, "read")]
          /\ open' = [open EXCEPT ![NewPipe] = Side]
          /\ fds' = [fds EXCEPT ![t] = WithFd(WithFd(@, Alloc1), Alloc2)]
          /\ stdio' = [stdio EXCEPT ![t] = @ /\ ~Overrun(WithFd(fds[t], Alloc1), Alloc2)]
    /\ UNCHANGED live

\* syscall_dupfd
Dup(t, d) ==
    /\ "share" \in Hazards /\ t \in live
    /\ fds' = [fds EXCEPT ![t] = WithFd(@, fds[t][d])]
    /\ stdio' = [stdio EXCEPT ![t] = @ /\ ~Overrun(fds[t], fds[t][d])]
    /\ UNCHANGED <<table, live>>

\* syscall_dup2: of equal descriptors, too, it closes the second.
Dup2(t, old, new) ==
    /\ "share" \in Hazards /\ t \in live /\ fds[t][old] # None
    /\ VfsClose(t, new, new + 1)
    /\ fds' = [fds EXCEPT ![t][new] = fds[t][old]]
    /\ UNCHANGED <<live, stdio>>

\* start_task without a file context opens the keyboard and the console, as
\* far as there are entries; with one, the child shares its parent's entries.
ChildSlot == First(Task \ live)
StartDefault(kbd, console) ==
    /\ fds' = [fds EXCEPT ![ChildSlot] = [NoFds EXCEPT ![0] = kbd, ![1] = console]]
    /\ stdio' = [stdio EXCEPT ![ChildSlot] = TRUE]
StartSharing(t, m) ==
    /\ fds' = [fds EXCEPT ![ChildSlot] = [NoFds EXCEPT ![0] = fds[t][m[0]], ![1] = fds[t][m[1]]]]
    /\ stdio' = [stdio EXCEPT ![ChildSlot] = FALSE]

\* syscall_start_task: a thread with a keyboard and a console of its own
StartThread(t) ==
    /\ t \in live /\ ChildSlot # None
    /\ live' = live \cup {ChildSlot}
    /\ used' = [f \in FileId |-> used[f] \/ f \in {Alloc1, Alloc2}]
    /\ inode' = [f \in FileId |-> CASE f = Alloc1 -> FileNode(Kbd)
                                    [] f = Alloc2 -> FileNode(Console)
                                    [] OTHER -> inode[f]]
    /\ StartDefault(Alloc1, Alloc2)
    /\ UNCHANGED open

\* exec: the program file is opened, and nothing ever closes it.
Exec(t, o) ==
    /\ "exec" \in Hazards /\ t \in live /\ Alloc1 # None
    /\ \/ /\ used' = [used EXCEPT ![Alloc1] = TRUE]
          /\ inode' = [inode EXCEPT ![Alloc1] = FileNode(o)]
          /\ \/ /\ UNCHANGED <<live, fds, stdio>>  \* no loader, or no slot
             \/ /\ "share" \in Hazards /\ ChildSlot # None
                /\ live' = live \cup {ChildSlot}
                /\ \E m \in [{0, 1} -> Fd] : StartSharing(t, m)
       \/ /\ ChildSlot # None
          /\ live' = live \cup {ChildSlot}
          /\ used' = [f \in FileId |-> used[f] \/ f \in {Alloc1, Alloc2, Alloc3}]
          /\ inode' = [f \in FileId |-> CASE f = Alloc1 -> FileNode(o)
                                          [] f = Alloc2 -> FileNode(Kbd)
                                          [] f = Alloc3 -> FileNode(Console)
                                          [] OTHER -> inode[f]]
          /\ StartDefault(Alloc2, Alloc3)
    /\ UNCHANGED open

\* start_task overwrites the descriptors of a task that is not live.
Gone(t) ==
    /\ live' = live \ {t}
    /\ fds' = [fds EXCEPT ![t] = NoFds]
    /\ stdio' = [stdio EXCEPT ![t] = TRUE]

\* stop_task, by exit, /proc or the End key, closes no file.
StopTask(t) ==
    /\ "kill" \in Hazards /\ t \in live
    /\ Gone(t)
    /\ UNCHANGED table

EndFromM(t) == 2  \* mutant: the standard descriptors are never closed
EndFrom(t) == IF stdio[t] THEN 0 ELSE 2
\* task_end closes the descriptors in turn, but not the two standard ones if
\* the task has inherited them.
TaskEnd(t) ==
    /\ t \in live
    /\ VfsClose(t, EndFrom(t), NFds)
    /\ Gone(t)
\* A preemption ends it: after some of the closes, or between the two
\* assignments of one.
TaskEndCut(t) ==
    /\ "cut" \in Hazards /\ t \in live
    /\ \E hi \in EndFrom(t) .. NFds :
          \/ /\ \E d \in hi .. NFds - 1 : fds[t][d] # None
             /\ VfsClose(t, EndFrom(t), hi)
          \/ /\ hi > EndFrom(t) /\ fds[t][hi - 1] # None
             /\ VfsClose(t, EndFrom(t), hi)!1
             /\ inode' = [f \in FileId |->
                            IF f \in Freed(t, EndFrom(t), hi) \ {fds[t][hi - 1]}
                              THEN Blanked(f) ELSE inode[f]]
             /\ VfsClose(t, EndFrom(t), hi)!3
    /\ Gone(t)

Next == \E t \in Task :
    \/ \E o \in Objects : Open(t, o) \/ Exec(t, o)
    \/ \E d \in Fd : Close(t, d) \/ Dup(t, d)
    \/ \E old, new \in Fd : Dup2(t, old, new)
    \/ MkPipe(t) \/ StartThread(t) \/ StopTask(t) \/ TaskEnd(t) \/ TaskEndCut(t)

Spec == Init /\ [][Next]_vars
-----------------------------------------------------------------------------
(* Properties.                                                             *)

\* As long as no program asks for sharing, an entry of the file table has one
\* descriptor: nobody reads, seeks or closes in a file of someone else.
Private ==
    \A t, u \in live : \A d, e \in Fd :
        fds[t][d] # None /\ fds[t][d] = fds[u][e] => t = u /\ d = e

\* As long as no program asks for sharing, a descriptor goes on naming the file
\* or pipe end it was given for, whatever any task closes, opens or ends.
KeepsFile ==
    \A t \in live \cap live' : \A d \in Fd :
      fds[t][d] # None /\ fds'[t][d] = fds[t][d] =>
        used'[fds[t][d]] /\ inode'[fds[t][d]] = inode[fds[t][d]]
Faithful == [][KeepsFile]_vars

\* A free entry holds nothing: a descriptor left over for it reads nothing.
FreeIsBlank == \A f \in FileId : ~used[f] => inode[f] = Blank

\* Even when descriptors are shared, an end of a pipe that is open has an entry
\* through which it can be used and closed, and a pipe has one entry per end.
PipeEnds ==
    /\ \A p \in PipeId : \A side \in open[p] :
         \E f \in FileId : used[f] /\ inode[f] = PipeEnd(p, side)
    /\ \A f, g \in FileId :
         inode[f].type = "pipe" /\ inode[f] = inode[g] => f = g

\* As long as no program asks for sharing, a descriptor that goes away takes
\* its file with it, but for a task that is stopped or cut off, for a standard
\* descriptor whose flag an overrun has cleared, and for the ends of pipes.
GivesBack ==
    (~\E u \in Task : StopTask(u) \/ TaskEndCut(u)) =>
      \A t \in live : \A d \in Fd :
         LET f == fds[t][d]
         IN  /\ f # None /\ fds'[t][d] # f
             /\ inode[f].type # "pipe" /\ (d >= 2 \/ stdio[t])
             => ~used'[f]
Reclaimed == [][GivesBack]_vars

\* "Pipe is fully closed. Clearing FD": when both ends of a pipe have been
\* closed, no entry of the file table is taken up by it.
PipeCleared ==
    \A f \in FileId : used[f] /\ inode[f].type = "pipe" => open[inode[f].pipe] # {}
=============================================================================
