------------------------------- MODULE Tasks -------------------------------
(***************************************************************************)
(* The task table and the preemptive round-robin scheduler of the kernel   *)
(* (multitasking.c), with everything that changes the table: the system    *)
(* calls, the /proc control file, the End key, the page-fault handler, the *)
(* kernel task of main.c, and the program slots and windows a task holds.  *)
(*                                                                         *)
(* Every interrupt handler runs with interrupts off, so a handler (timer   *)
(* tick, system call, key, fault) is one step.  Code that runs in a task   *)
(* itself (kernel_task, task_end) can be preempted between its steps.      *)
(*                                                                         *)
(* A thread of execution is named by the pid it was started with; 0 names  *)
(* the boot code of kmain, which is in no slot of the table.               *)
(***************************************************************************)
EXTENDS Integers

CONSTANTS
    NTasks,        \* MAX_TASKS
    NSlots,        \* PROGRAM_MAX
    NWindows,      \* MAX_WINDOWS
    MaxPid,        \* bound: the number of tasks ever started
    ProtectedPid,  \* the End key spares the pids up to this one (3)
    Schedules,     \* the schedule types programs ask for
    Waited,        \* the pids programs wait for
    Hazards        \* what the environment may do, see HazardKinds

\* userlock: programs take task_lock.    toggle: ctrl+` flips task_lock.
\* kill: /proc and the End key stop tasks.  fault: programs page-fault.
\* killdead: /proc is told to kill a pid that is no longer alive.
\* orphan: a stopped task that is still on the CPU goes on making calls.
HazardKinds == {"userlock", "toggle", "kill", "fault", "killdead", "orphan"}
ScheduleType == {"ALWAYS", "ONFOCUS", "NEVER"}

Task == 0 .. NTasks - 1
Slot == 0 .. NSlots - 1
Window == 0 .. NWindows - 1
Pid == 1 .. MaxPid
Boot == 0
None == -1

ASSUME SizeAssumption ==
    /\ NTasks \in Nat \ {0} /\ NSlots \in Nat \ {0} /\ NWindows \in Nat
    /\ MaxPid \in Nat \ {0} /\ ProtectedPid \in Nat \ {0}
ASSUME RequestAssumption == Schedules \subseteq ScheduleType /\ Waited \subseteq Pid
ASSUME HazardAssumption == Hazards \subseteq HazardKinds

VARIABLES
    active, running, slot, sched, win, ownWin, pid, waitpid, \* tasks[i]
    saved,      \* saved[i]: the thread whose registers tasks[i] holds
    cpu,        \* the thread the processor executes
    cur,        \* task_running_idx
    lock,       \* task_lock
    pids,       \* pid_counter
    slotBusy,   \* program_slot_status
    mapped,     \* program_active_slot, the program mapped at address 0
    winOpen,    \* windows[w].active
    selected,   \* window_selected
    pc          \* pc[p]: where thread p is, for the code modelled stepwise

table == <<slot, sched, pid>>
switch == <<running, saved, cpu, cur, waitpid, mapped>>
wins == <<win, ownWin, winOpen>>
vars == <<active, table, switch, lock, pids, slotBusy, wins, selected, pc>>

PC == {"entry", "window", "exec", "unlock", "never",   \* kernel_task
       "run",                                          \* a program
       "endSlot", "endClose", "endNull",               \* task_end
       "spin"}                                         \* while(1)

TypeOK ==
    /\ active \in [Task -> BOOLEAN] /\ running \in [Task -> BOOLEAN]
    /\ slot \in [Task -> Slot \cup {None}]
    /\ sched \in [Task -> ScheduleType]
    /\ win \in [Task -> Window \cup {None}] /\ ownWin \in [Task -> BOOLEAN]
    /\ pid \in [Task -> Pid \cup {0}] /\ waitpid \in [Task -> Pid \cup {0}]
    /\ saved \in [Task -> Pid \cup {Boot}] /\ cpu \in Pid \cup {Boot}
    /\ cur \in Task /\ lock \in BOOLEAN /\ pids \in 1 .. MaxPid + 1
    /\ slotBusy \in [Slot -> BOOLEAN] /\ mapped \in Slot \cup {0}
    /\ winOpen \in [Window -> BOOLEAN] /\ selected \in Window \cup {0}
    /\ pc \in [Pid -> PC]

\* kmain has started the kernel task (pid 1) and attached task_callback; the
\* processor still executes kmain, which no slot of the table describes.
Init ==
    /\ active = [i \in Task |-> i = 0]
    /\ running = [i \in Task |-> FALSE]
    /\ slot = [i \in Task |-> IF i = 0 THEN None ELSE 0]
    /\ sched = [i \in Task |-> "ALWAYS"]
    /\ win = [i \in Task |-> None] /\ ownWin = [i \in Task |-> FALSE]
    /\ pid = [i \in Task |-> IF i = 0 THEN 1 ELSE 0]
    /\ waitpid = [i \in Task |-> 0]
    /\ saved = [i \in Task |-> IF i = 0 THEN 1 ELSE Boot]
    /\ cpu = Boot /\ cur = 0 /\ lock = FALSE /\ pids = 2
    /\ slotBusy = [s \in Slot |-> FALSE] /\ mapped = 0
    /\ winOpen = [w \in Window |-> FALSE] /\ selected = 0
    /\ pc = [p \in Pid |-> IF p = 1 THEN "entry" ELSE "run"]
-----------------------------------------------------------------------------
(* The scheduler.  act is the activity of the slots as the handler that    *)
(* calls task_callback has left it.                                        *)

\* taskID_fromPID(p) # -1
Alive(act, p) == p # 0 /\ \E i \in Task : act[i] /\ pid[i] = p

EligibleM(act, j) ==  \* mutant: waitpid is not looked at
    /\ act[j] /\ ~running[j]
    /\ sched[j] = "ALWAYS" \/ (sched[j] = "ONFOCUS" /\ win[j] = selected)
Eligible(act, j) ==
    /\ act[j] /\ ~running[j]
    /\ sched[j] = "ALWAYS" \/ (sched[j] = "ONFOCUS" /\ win[j] = selected)
    /\ ~Alive(act, waitpid[j])

RunningIdxM ==  \* mutant: slot 0 is not looked at
    IF \E i \in Task \ {0} : running[i]
      THEN CHOOSE i \in Task \ {0} : running[i] ELSE None
\* The first slot with slot_running set, -1 if there is none.
RunningIdx ==
    IF \E i \in Task : running[i]
      THEN CHOOSE i \in Task : running[i] /\ \A k \in 0 .. i - 1 : ~running[k]
      ELSE None

CheckM(j) == j  \* mutant: the scan starts at slot 0, not after the running one
\* The number of checks the scan has made when it comes to slot j: going
\* from the last slot back to slot 0 takes a check of its own.
Check(j) == IF j > RunningIdx THEN j - RunningIdx - 1
                              ELSE NTasks - RunningIdx + j
Candidates(act) == {j \in Task : Eligible(act, j) /\ Check(j) < NTasks + 5}

MappedByM(j) == mapped   \* mutant: the mapping is left to the running task
\* select_program, for a task that has a program slot
MappedBy(j) == IF slot[j] # None THEN slot[j] ELSE mapped

SavedM(j) ==  \* mutant: the old registers go to the new task
    [i \in Task |-> IF i = j THEN cpu ELSE saved[i]]
Saved(j) == [i \in Task |-> IF i = RunningIdx THEN cpu ELSE saved[i]]

\* switch_to_task: without a running slot the old registers go to tasks[-1].
SwitchTo(j) ==
    /\ saved' = Saved(j)
    /\ cpu' = saved[j]
    /\ mapped' = MappedBy(j)
    /\ running' = [i \in Task |-> i = j \/ (running[i] /\ i # RunningIdx)]
    /\ cur' = j
    /\ waitpid' = [waitpid EXCEPT ![j] = 0]

TaskCallback(act) ==
    \/ Candidates(act) = {} /\ UNCHANGED switch
    \/ \E j \in Candidates(act) :
          /\ \A c \in Candidates(act) : Check(j) <= Check(c)
          /\ SwitchTo(j)
-----------------------------------------------------------------------------
(* Starting and stopping tasks.                                            *)

NextPidM == pids  \* mutant: pid_counter is not advanced
NextPid == pids + 1

FreeTask(i) == ~active[i] /\ \A k \in 0 .. i - 1 : active[k]
\* program_findSlot
FreeSlot(s) == ~slotBusy[s] /\ \A t \in 0 .. s - 1 : slotBusy[t]
FreeWindowM(w) == \A v \in 0 .. w - 1 : winOpen[v]  \* mutant: one window too early
FreeWindow(w) == ~winOpen[w] /\ \A v \in 0 .. w - 1 : winOpen[v]

\* start_task: the first inactive slot, or nothing when all are active.
StartTask(s) ==
    \/ /\ \A i \in Task : active[i]
       /\ UNCHANGED <<active, table, waitpid, saved, win, ownWin, pids>>
    \/ \E i \in Task :
          /\ FreeTask(i) /\ pids <= MaxPid
          /\ active' = [active EXCEPT ![i] = TRUE]
          /\ slot' = [slot EXCEPT ![i] = s]
          /\ sched' = [sched EXCEPT ![i] = "ALWAYS"]
          /\ win' = [win EXCEPT ![i] = win[cur]]
          /\ ownWin' = [ownWin EXCEPT ![i] = FALSE]
          /\ pid' = [pid EXCEPT ![i] = pids]
          /\ waitpid' = [waitpid EXCEPT ![i] = 0]
          /\ saved' = [saved EXCEPT ![i] = pids]
          /\ pids' = NextPid

\* exec of a file the default loader accepts: program_findSlot, then
\* start_task.  A full slot table gives slot -1, which nobody checks.
ExecProgram ==
    \/ /\ \A s \in Slot : slotBusy[s]
       /\ StartTask(None) /\ UNCHANGED slotBusy
    \/ \E s \in Slot :
          /\ FreeSlot(s)
          /\ slotBusy' = [slotBusy EXCEPT ![s] = TRUE]
          /\ StartTask(s)

\* stop_task of every slot in V, one after the other.  Only a task with a
\* program slot gives up its slot and its window.
StopTasks(V) ==
    LET programs == {i \in V : slot[i] # None}
    IN  /\ active' = [i \in Task |-> active[i] /\ i \notin V]
        /\ slotBusy' = [s \in Slot |->
                          slotBusy[s] /\ \A i \in programs : slot[i] # s]
        /\ winOpen' = [w \in Window |->
                         winOpen[w] /\ \A i \in programs : ~(win[i] = w /\ ownWin[i])]
        /\ win' = [i \in Task |-> IF i \in programs THEN None ELSE win[i]]
        /\ ownWin' = [i \in Task |-> ownWin[i] /\ i \notin programs]
-----------------------------------------------------------------------------
(* Interrupts.                                                             *)

\* timer_callback calls task_callback.
Tick ==
    /\ ~lock
    /\ TaskCallback(active)
    /\ UNCHANGED <<active, table, lock, pids, slotBusy, wins, selected, pc>>

\* ctrl+1 .. ctrl+9 select a window that is open.
SelectWindow(w) ==
    /\ winOpen[w]
    /\ selected' = w
    /\ UNCHANGED <<active, table, switch, lock, pids, slotBusy, wins, pc>>

\* ctrl+`
ToggleLock ==
    /\ "toggle" \in Hazards
    /\ lock' = ~lock
    /\ UNCHANGED <<active, table, switch, pids, slotBusy, wins, selected, pc>>

\* The End key stops whatever points at the selected window, active or not.
EndKey ==
    /\ "kill" \in Hazards
    /\ StopTasks({i \in Task : win[i] = selected /\ pid[i] > ProtectedPid})
    /\ UNCHANGED <<table, switch, lock, pids, selected, pc>>

\* page_error: slot_running of slot 0 is not set, and nothing is freed.
PageFault ==
    /\ "fault" \in Hazards /\ cpu # Boot /\ pc[cpu] = "run"
    /\ active' = [active EXCEPT ![cur] = FALSE]
    /\ running' = [running EXCEPT ![cur] = FALSE]
    /\ saved' = [saved EXCEPT ![cur] = cpu]
    /\ cpu' = saved'[0]
    /\ mapped' = MappedBy(0)
    /\ cur' = 0
    /\ UNCHANGED <<table, waitpid, lock, pids, slotBusy, wins, selected, pc>>
-----------------------------------------------------------------------------
(* System calls of the program on the processor.                           *)

\* A stopped task runs on until the next switch, which may be far away.
Calling ==
    /\ cpu # Boot /\ pc[cpu] = "run"
    /\ active[cur] \/ "orphan" \in Hazards

Exec ==
    /\ Calling
    /\ ExecProgram
    /\ UNCHANGED <<running, cpu, cur, lock, mapped, winOpen, selected, pc>>

\* syscall_start_task: a thread without a program slot of its own
StartThread ==
    /\ Calling
    /\ StartTask(None)
    /\ UNCHANGED <<running, cpu, cur, lock, mapped, slotBusy, winOpen, selected, pc>>

\* syscall_exit: libc's exit returns when nobody else can run
Exit ==
    /\ Calling
    /\ lock' = FALSE
    /\ StopTasks({cur})
    /\ TaskCallback(active')
    /\ UNCHANGED <<table, pids, selected, pc>>

\* syscall_wait: the caller goes on until something preempts it
Wait(p) ==
    /\ Calling
    /\ waitpid' = [waitpid EXCEPT ![cur] = p]
    /\ UNCHANGED <<active, table, running, saved, cpu, cur, mapped, lock, pids,
                   slotBusy, wins, selected, pc>>

\* syscall_yield
Yield == Calling /\ Tick

\* syscall_set_schedule
SetSchedule(type) ==
    /\ Calling
    /\ sched' = [sched EXCEPT ![cur] = type]
    /\ UNCHANGED <<active, slot, pid, switch, lock, pids, slotBusy, wins, selected, pc>>

\* syscall_task_lock
TaskLock(b) ==
    /\ "userlock" \in Hazards /\ Calling
    /\ lock' = b
    /\ UNCHANGED <<active, table, switch, pids, slotBusy, wins, selected, pc>>

\* window_open: the first closed window, which becomes the selected one.
OpenWindow ==
    \/ /\ \A w \in Window : winOpen[w]
       /\ win' = [win EXCEPT ![cur] = None]
       /\ UNCHANGED <<winOpen, selected>>
    \/ \E w \in Window :
          /\ FreeWindow(w)
          /\ winOpen' = [winOpen EXCEPT ![w] = TRUE]
          /\ selected' = w
          /\ win' = [win EXCEPT ![cur] = w]

\* syscall_window_open: the task owns whatever window_open gave it.
WindowOpen ==
    /\ Calling
    /\ OpenWindow
    /\ ownWin' = [ownWin EXCEPT ![cur] = TRUE]
    /\ UNCHANGED <<active, table, switch, lock, pids, slotBusy, pc>>

\* syscall_window_close of the window the program holds: own_console is
\* cleared and own_window is not, and the selection stays on the window.
WindowClose ==
    /\ Calling /\ ownWin[cur] /\ win[cur] # None
    /\ winOpen' = [winOpen EXCEPT ![win[cur]] = FALSE]
    /\ win' = [win EXCEPT ![cur] = None]
    /\ UNCHANGED <<active, table, switch, lock, pids, slotBusy, ownWin, selected, pc>>

\* proc_task_write_callback: PAUSE and RESUME take a slot index.
Pause(i) ==
    /\ Calling
    /\ sched' = [sched EXCEPT ![i] = "NEVER"]
    /\ UNCHANGED <<active, slot, pid, switch, lock, pids, slotBusy, wins, selected, pc>>
Resume(i) ==
    /\ Calling
    /\ sched' = [sched EXCEPT ![i] = "ALWAYS"]
    /\ UNCHANGED <<active, slot, pid, switch, lock, pids, slotBusy, wins, selected, pc>>

\* KILL takes a pid.
Kill(p) ==
    /\ "kill" \in Hazards /\ Calling
    /\ \E i \in Task : active[i] /\ pid[i] = p
                       /\ (\A k \in 0 .. i - 1 : ~(active[k] /\ pid[k] = p))
                       /\ StopTasks({i})
    /\ UNCHANGED <<table, switch, lock, pids, selected, pc>>

\* KILL of a pid that is not alive stops tasks[-1]: its program_slot is what
\* happens to lie before the table, so any program slot may be given up.
KillDead(p) ==
    /\ "killdead" \in Hazards /\ Calling
    /\ ~Alive(active, p)
    /\ slotBusy' \in {slotBusy} \cup {[slotBusy EXCEPT ![s] = FALSE] : s \in Slot}
    /\ UNCHANGED <<active, table, switch, lock, pids, wins, selected, pc>>
-----------------------------------------------------------------------------
(* Code that runs in the task itself, one preemptible step at a time.      *)

\* The processor is at a, and goes to b.
At(a, b) == cpu # Boot /\ pc[cpu] = a /\ pc' = [pc EXCEPT ![cpu] = b]

\* kernel_task: take the lock, open the kernel window, start init, release
\* the lock, and never be scheduled again.
KernelLock ==
    /\ At("entry", "window")
    /\ lock' = TRUE
    /\ UNCHANGED <<active, table, switch, pids, slotBusy, wins, selected>>
KernelWindow ==
    /\ At("window", "exec")
    /\ OpenWindow
    /\ sched' = [sched EXCEPT ![cur] = "ONFOCUS"]
    /\ UNCHANGED <<active, slot, pid, switch, lock, pids, slotBusy, ownWin>>
KernelExec ==
    /\ At("exec", "unlock")
    /\ ExecProgram
    /\ UNCHANGED <<running, cpu, cur, lock, mapped, winOpen, selected>>
KernelUnlock ==
    /\ At("unlock", "never")
    /\ lock' = FALSE
    /\ UNCHANGED <<active, table, switch, pids, slotBusy, wins, selected>>
KernelNever ==
    /\ At("never", "spin")
    /\ sched' = [sched EXCEPT ![cur] = "NEVER"]
    /\ UNCHANGED <<active, slot, pid, switch, lock, pids, slotBusy, wins, selected>>

\* task_end, where a program's main returns.  It is preemptible from its
\* first assignment on, and a task that is no longer active is not resumed.
TaskEndM ==  \* mutant: the task still counts as active while it gives up what it has
    /\ At("run", IF slot[cur] # None THEN "endSlot" ELSE "spin")
    /\ UNCHANGED <<active, table, switch, lock, pids, slotBusy, wins, selected>>
TaskEnd ==
    /\ At("run", IF slot[cur] # None THEN "endSlot" ELSE "spin")
    /\ active' = [active EXCEPT ![cur] = FALSE]
    /\ UNCHANGED <<table, switch, lock, pids, slotBusy, wins, selected>>
EndSlot ==
    /\ At("endSlot", "endClose")
    /\ slotBusy' = [s \in Slot |-> slotBusy[s] /\ s # slot[cur]]
    /\ UNCHANGED <<active, table, switch, lock, pids, wins, selected>>
EndClose ==
    /\ At("endClose", "endNull")
    /\ winOpen' = [w \in Window |-> winOpen[w] /\ ~(win[cur] = w /\ ownWin[cur])]
    /\ UNCHANGED <<active, table, switch, lock, pids, slotBusy, win, ownWin, selected>>
EndNull ==
    /\ At("endNull", "spin")
    /\ win' = [win EXCEPT ![cur] = None]
    /\ ownWin' = [ownWin EXCEPT ![cur] = FALSE]
    /\ UNCHANGED <<active, table, switch, lock, pids, slotBusy, winOpen, selected>>
-----------------------------------------------------------------------------
KernelStep == KernelLock \/ KernelWindow \/ KernelExec \/ KernelUnlock \/ KernelNever
EndStep == EndSlot \/ EndClose \/ EndNull
Call ==
    \/ Exec \/ StartThread \/ Exit \/ Yield \/ WindowOpen \/ WindowClose
    \/ \E p \in Waited : Wait(p)
    \/ \E p \in Pid : Kill(p) \/ KillDead(p)
    \/ \E type \in Schedules : SetSchedule(type)
    \/ \E b \in BOOLEAN : TaskLock(b)
    \/ \E i \in Task : Pause(i) \/ Resume(i)
Interrupt ==
    Tick \/ ToggleLock \/ EndKey \/ PageFault \/ (\E w \in Window : SelectWindow(w))

Next == Interrupt \/ Call \/ KernelStep \/ TaskEnd \/ EndStep
Spec == Init /\ [][Next]_vars

\* The timer keeps ticking: a tick that finds the lock released happens again
\* and again.  The kernel task gets through its boot sequence.
Fairness == WF_vars(Tick) /\ WF_vars(KernelStep)
FairSpec == Spec /\ Fairness
-----------------------------------------------------------------------------
(* Properties.                                                             *)

\* At most one slot is marked running, and it is the one task_running_idx
\* names: task_callback finds the context to save by the mark, the system
\* calls find their caller by the index.
OneRunning == \A i \in Task : running[i] => i = cur

\* A pid names one live task, so wait, pidAlive and KILL act on one task.
PidsUnique ==
    \A i, j \in Task : active[i] /\ active[j] /\ pid[i] = pid[j] => i = j

\* The registers of a live task are those of the thread it was started with:
\* they are in its slot or on the processor, and the processor executes for a
\* live task nothing but that thread.
ThreadIdentity ==
    \A i \in Task : active[i] =>
        /\ running[i] \/ saved[i] = pid[i]
        /\ i = cur /\ cpu # Boot => cpu = pid[i]

\* Two live programs never share a program slot, and the slot of a live program
\* is marked as taken: nobody loads a program over another one.
SlotsExclusive ==
    \A i \in Task : active[i] /\ slot[i] # None =>
        /\ slotBusy[slot[i]]
        /\ \A j \in Task : active[j] /\ slot[j] = slot[i] => j = i

\* A live task's own window is open and no other live task's own.
OwnedWindows ==
    \A i \in Task : active[i] /\ ownWin[i] /\ win[i] # None =>
        /\ winOpen[win[i]]
        /\ \A j \in Task : active[j] /\ ownWin[j] /\ win[j] = win[i] => j = i

\* While a program runs, address 0 maps its own memory.
MappedIsRunning ==
    active[cur] /\ running[cur] /\ slot[cur] # None => mapped = slot[cur]

\* The processor only passes to the thread of a live task that is not waiting
\* for another live task, and that is scheduled always or has the focus.
SwitchIsDue ==
    [][cpu' # cpu =>
         \E j \in Task : /\ cur' = j /\ active'[j] /\ cpu' = pid[j]
                         /\ ~Alive(active', waitpid[j])
                         /\ sched[j] # "NEVER"
                         /\ sched[j] = "ONFOCUS" => win[j] = selected]_vars

\* A live task that is scheduled always and waits for nobody alive gets the
\* processor, unless it stops being so.
Due(i) == active[i] /\ sched[i] = "ALWAYS" /\ ~Alive(active, waitpid[i])
Served == \A i \in Task : Due(i) /\ ~running[i] ~> running[i] \/ ~Due(i)

\* "Create new task instance and execute it": the thread of a task that has
\* been started is on the processor or saved to be resumed, until it is stopped.
TaskIsExecuted == \A i \in Task : active[i] => pid[i] \in {cpu, saved[i]}
=============================================================================
