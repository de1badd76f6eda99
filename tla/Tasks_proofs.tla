---------------------------- MODULE Tasks_proofs ----------------------------
(***************************************************************************)
(* Proofs about the task table, for any number of tasks, slots, windows    *)
(* and pids and any choice of hazards.                                     *)
(***************************************************************************)
EXTENDS Tasks, TLAPS

USE SizeAssumption, RequestAssumption
USE DEF Task, Slot, Window, Pid, Boot, None, ScheduleType

LEMMA InitType == Init => TypeOK
  <1> SUFFICES ASSUME Init PROVE TypeOK
    OBVIOUS
  <1>1. active \in [Task -> BOOLEAN] /\ running \in [Task -> BOOLEAN]
        /\ ownWin \in [Task -> BOOLEAN] /\ slotBusy \in [Slot -> BOOLEAN]
        /\ winOpen \in [Window -> BOOLEAN]
    BY DEF Init
  <1>2. pids \in 1 .. MaxPid + 1 /\ cur \in Task /\ cpu \in Pid \cup {Boot}
        /\ mapped \in Slot \cup {0} /\ selected \in Window \cup {0}
    BY DEF Init
  <1>5. lock \in BOOLEAN
    BY DEF Init
  <1>3. slot \in [Task -> Slot \cup {None}] /\ sched \in [Task -> ScheduleType]
        /\ win \in [Task -> Window \cup {None}]
    BY DEF Init
  <1>4. pid \in [Task -> Pid \cup {0}] /\ waitpid \in [Task -> Pid \cup {0}]
        /\ saved \in [Task -> Pid \cup {Boot}] /\ pc \in [Pid -> PC]
    BY DEF Init, PC
  <1> QED  BY <1>1, <1>2, <1>3, <1>4, <1>5 DEF TypeOK

\* A switch keeps every variable it writes in its type.
LEMMA CallbackType ==
    ASSUME TypeOK, NEW act, TaskCallback(act)
    PROVE  /\ running' \in [Task -> BOOLEAN] /\ saved' \in [Task -> Pid \cup {Boot}]
           /\ cpu' \in Pid \cup {Boot} /\ cur' \in Task
           /\ waitpid' \in [Task -> Pid \cup {0}] /\ mapped' \in Slot \cup {0}
  <1>1. CASE UNCHANGED switch
    BY <1>1 DEF switch, TypeOK
  <1>2. CASE \E j \in Candidates(act) : SwitchTo(j)
    <2>1. PICK j \in Task : SwitchTo(j)
      BY <1>2 DEF Candidates
    <2>2. saved[j] \in Pid \cup {Boot} /\ slot[j] \in Slot \cup {None}
      BY DEF TypeOK
    <2> QED  BY <2>1, <2>2 DEF SwitchTo, Saved, MappedBy, TypeOK
  <1> QED  BY <1>1, <1>2 DEF TaskCallback

LEMMA StartType ==
    ASSUME TypeOK, NEW s \in Slot \cup {None}, StartTask(s)
    PROVE  /\ active' \in [Task -> BOOLEAN] /\ slot' \in [Task -> Slot \cup {None}]
           /\ sched' \in [Task -> ScheduleType] /\ win' \in [Task -> Window \cup {None}]
           /\ ownWin' \in [Task -> BOOLEAN] /\ pid' \in [Task -> Pid \cup {0}]
           /\ waitpid' \in [Task -> Pid \cup {0}] /\ saved' \in [Task -> Pid \cup {Boot}]
           /\ pids' \in 1 .. MaxPid + 1
  <1>1. CASE UNCHANGED <<active, table, waitpid, saved, win, ownWin, pids>>
    BY <1>1 DEF table, TypeOK
  <1>2. CASE ~UNCHANGED <<active, table, waitpid, saved, win, ownWin, pids>>
    <2>1. PICK i \in Task : StartTask(s)!2!(i)
      BY <1>2 DEF StartTask
    <2>2. pids \in Pid /\ pids' \in 1 .. MaxPid + 1
      BY <2>1 DEF TypeOK, NextPid
    <2>3. win[cur] \in Window \cup {None}
      BY DEF TypeOK
    <2> QED  BY <2>1, <2>2, <2>3 DEF TypeOK
  <1> QED  BY <1>1, <1>2

LEMMA ExecType ==
    ASSUME TypeOK, ExecProgram
    PROVE  /\ slotBusy' \in [Slot -> BOOLEAN]
           /\ \E s \in Slot \cup {None} : StartTask(s)
  BY DEF ExecProgram, TypeOK

LEMMA StopType ==
    ASSUME TypeOK, NEW V \in SUBSET Task, StopTasks(V)
    PROVE  /\ active' \in [Task -> BOOLEAN] /\ slotBusy' \in [Slot -> BOOLEAN]
           /\ winOpen' \in [Window -> BOOLEAN] /\ ownWin' \in [Task -> BOOLEAN]
           /\ win' \in [Task -> Window \cup {None}]
  BY DEF StopTasks, TypeOK

LEMMA OpenType ==
    ASSUME TypeOK, OpenWindow
    PROVE  /\ winOpen' \in [Window -> BOOLEAN] /\ selected' \in Window \cup {0}
           /\ win' \in [Task -> Window \cup {None}]
  <1>1. CASE UNCHANGED <<winOpen, selected>> /\ win' = [win EXCEPT ![cur] = None]
    BY <1>1 DEF TypeOK
  <1>2. CASE \E w \in Window : /\ winOpen' = [winOpen EXCEPT ![w] = TRUE]
                               /\ selected' = w
                               /\ win' = [win EXCEPT ![cur] = w]
    BY <1>2 DEF TypeOK
  <1> QED  BY <1>1, <1>2 DEF OpenWindow

LEMMA AtType ==
    ASSUME TypeOK, NEW a, NEW b \in PC, At(a, b)
    PROVE  pc' \in [Pid -> PC]
  BY DEF At, TypeOK

\* Every step preserves the types.
LEMMA NextType == TypeOK /\ [Next]_vars => TypeOK'
  <1> SUFFICES ASSUME TypeOK, [Next]_vars PROVE TypeOK'
    OBVIOUS
  <1> USE DEF table, switch, wins
  <1>1. CASE Tick
    BY <1>1, CallbackType DEF Tick, TypeOK
  <1>2. CASE ToggleLock
    BY <1>2 DEF ToggleLock, TypeOK
  <1>3. CASE EndKey
    <2>1. PICK V \in SUBSET Task : StopTasks(V)
      BY <1>3 DEF EndKey
    <2> QED  BY <1>3, <2>1, StopType DEF EndKey, TypeOK
  <1>4. CASE PageFault
    <2>1. /\ active' \in [Task -> BOOLEAN] /\ running' \in [Task -> BOOLEAN]
          /\ saved' \in [Task -> Pid \cup {Boot}] /\ cur' \in Task
      BY <1>4 DEF PageFault, TypeOK
    <2>2. cpu' \in Pid \cup {Boot}
      BY <1>4, <2>1 DEF PageFault
    <2>3. mapped' \in Slot \cup {0}
      BY <1>4 DEF PageFault, MappedBy, TypeOK
    <2> QED  BY <1>4, <2>1, <2>2, <2>3 DEF PageFault, TypeOK
  <1>5. ASSUME NEW w \in Window, SelectWindow(w) PROVE TypeOK'
    BY <1>5 DEF SelectWindow, TypeOK
  <1>6. CASE Exec
    <2>1. slotBusy' \in [Slot -> BOOLEAN] /\ \E s \in Slot \cup {None} : StartTask(s)
      BY <1>6, ExecType DEF Exec
    <2> QED  BY <1>6, <2>1, StartType DEF Exec, TypeOK
  <1>7. CASE StartThread
    BY <1>7, StartType DEF StartThread, TypeOK
  <1>8. CASE Exit
    <2>1. StopTasks({cur}) /\ TaskCallback(active')
      BY <1>8 DEF Exit
    <2>2. {cur} \in SUBSET Task
      BY DEF TypeOK
    <2> QED  BY <1>8, <2>1, <2>2, StopType, CallbackType DEF Exit, TypeOK
  <1>9. CASE Yield
    BY <1>9, <1>1 DEF Yield
  <1>10. CASE WindowOpen
    <2>1. ownWin' \in [Task -> BOOLEAN]
      BY <1>10 DEF WindowOpen, TypeOK
    <2> QED  BY <1>10, <2>1, OpenType DEF WindowOpen, TypeOK
  <1>11. CASE WindowClose
    BY <1>11 DEF WindowClose, TypeOK
  <1>12. ASSUME NEW p \in Waited, Wait(p) PROVE TypeOK'
    BY <1>12 DEF Wait, TypeOK
  <1>13. ASSUME NEW p \in Pid, Kill(p) PROVE TypeOK'
    <2>1. PICK i \in Task : StopTasks({i})
      BY <1>13 DEF Kill
    <2>2. {i} \in SUBSET Task
      OBVIOUS
    <2> QED  BY <1>13, <2>1, <2>2, StopType DEF Kill, TypeOK
  <1>14. ASSUME NEW p \in Pid, KillDead(p) PROVE TypeOK'
    <2>1. slotBusy' = slotBusy \/ \E s \in Slot : slotBusy' = [slotBusy EXCEPT ![s] = FALSE]
      BY <1>14 DEF KillDead
    <2>2. slotBusy' \in [Slot -> BOOLEAN]
      BY <2>1 DEF TypeOK
    <2> QED  BY <1>14, <2>2 DEF KillDead, TypeOK
  <1>15. ASSUME NEW type \in Schedules, SetSchedule(type) PROVE TypeOK'
    BY <1>15 DEF SetSchedule, TypeOK
  <1>16. ASSUME NEW b \in BOOLEAN, TaskLock(b) PROVE TypeOK'
    BY <1>16 DEF TaskLock, TypeOK
  <1>17. ASSUME NEW i \in Task, Pause(i) \/ Resume(i) PROVE TypeOK'
    BY <1>17 DEF Pause, Resume, TypeOK
  <1>18. CASE KernelStep
    <2>1. pc' \in [Pid -> PC]
      BY <1>18, AtType DEF KernelStep, KernelLock, KernelWindow, KernelExec,
                           KernelUnlock, KernelNever, PC
    <2>2. CASE KernelLock \/ KernelUnlock
      BY <2>1, <2>2 DEF KernelLock, KernelUnlock, TypeOK
    <2>3. CASE KernelWindow
      <3>1. sched' \in [Task -> ScheduleType]
        BY <2>3 DEF KernelWindow, TypeOK
      <3> QED  BY <2>1, <2>3, <3>1, OpenType DEF KernelWindow, TypeOK
    <2>4. CASE KernelExec
      <3>1. slotBusy' \in [Slot -> BOOLEAN] /\ \E s \in Slot \cup {None} : StartTask(s)
        BY <2>4, ExecType DEF KernelExec
      <3> QED  BY <2>1, <2>4, <3>1, StartType DEF KernelExec, TypeOK
    <2>5. CASE KernelNever
      BY <2>1, <2>5 DEF KernelNever, TypeOK
    <2> QED  BY <1>18, <2>2, <2>3, <2>4, <2>5 DEF KernelStep
  <1>19. CASE TaskEnd
    <2>1. pc' \in [Pid -> PC]
      BY <1>19, AtType DEF TaskEnd, PC
    <2> QED  BY <1>19, <2>1 DEF TaskEnd, TypeOK
  <1>20. CASE EndStep
    <2>1. pc' \in [Pid -> PC]
      BY <1>20, AtType DEF EndStep, EndSlot, EndClose, EndNull, PC
    <2>2. CASE EndSlot
      BY <2>1, <2>2 DEF EndSlot, TypeOK
    <2>3. CASE EndClose
      BY <2>1, <2>3 DEF EndClose, TypeOK
    <2>4. CASE EndNull
      BY <2>1, <2>4 DEF EndNull, TypeOK
    <2> QED  BY <1>20, <2>2, <2>3, <2>4 DEF EndStep
  <1>21. CASE UNCHANGED vars
    BY <1>21 DEF vars, TypeOK
  <1> QED
    BY <1>1, <1>2, <1>3, <1>4, <1>5, <1>6, <1>7, <1>8, <1>9, <1>10, <1>11, <1>12,
       <1>13, <1>14, <1>15, <1>16, <1>17, <1>18, <1>19, <1>20, <1>21
       DEF Next, Interrupt, Call

\* The task table stays well-typed whatever the programs and the user do.
THEOREM TypeCorrect == Spec => []TypeOK
  BY InitType, NextType, PTL DEF Spec
-----------------------------------------------------------------------------
(* One slot at most is running, and task_running_idx names it.             *)

\* With at most one mark, the scan of task_callback finds the marked slot.
LEMMA RunningFound ==
    ASSUME TypeOK, OneRunning, NEW i \in Task, running[i]
    PROVE  RunningIdx = i
  <1>1. i = cur /\ \A k \in 0 .. i - 1 : ~running[k]
    BY DEF OneRunning, TypeOK
  <1>2. \E k \in Task : running[k] /\ \A m \in 0 .. k - 1 : ~running[m]
    BY <1>1
  <1>3. RunningIdx = CHOOSE k \in Task : running[k] /\ \A m \in 0 .. k - 1 : ~running[m]
    BY DEF RunningIdx
  <1>4. RunningIdx \in Task /\ running[RunningIdx]
    BY <1>2, <1>3
  <1> QED  BY <1>1, <1>4 DEF OneRunning

\* The scan never takes an unmarked slot for the running one.
LEMMA NotRunning ==
    ASSUME TypeOK, OneRunning, NEW i \in Task, ~running[i]
    PROVE  RunningIdx # i
  <1>1. CASE \E k \in Task : running[k]
    BY <1>1, RunningFound
  <1>2. CASE ~\E k \in Task : running[k]
    BY <1>2 DEF RunningIdx
  <1> QED  BY <1>1, <1>2

LEMMA CallbackRunning ==
    ASSUME TypeOK, OneRunning, NEW act, TaskCallback(act)
    PROVE  OneRunning'
  <1>1. CASE UNCHANGED switch
    BY <1>1 DEF switch, OneRunning
  <1>2. ASSUME NEW j \in Task, SwitchTo(j) PROVE OneRunning'
    BY <1>2, RunningFound DEF SwitchTo, OneRunning
  <1> QED  BY <1>1, <1>2 DEF TaskCallback, Candidates

LEMMA NextRunning == TypeOK /\ OneRunning /\ [Next]_vars => OneRunning'
  <1> SUFFICES ASSUME TypeOK, OneRunning, [Next]_vars PROVE OneRunning'
    OBVIOUS
  <1>1. CASE TaskCallback(active) \/ TaskCallback(active')
    BY <1>1, CallbackRunning
  <1>2. CASE UNCHANGED <<running, cur>>
    BY <1>2 DEF OneRunning
  <1>3. CASE PageFault
    BY <1>3 DEF PageFault, OneRunning, TypeOK
  <1> QED
    BY <1>1, <1>2, <1>3
       DEF Next, Interrupt, Call, KernelStep, EndStep, vars, switch,
           Tick, SelectWindow, ToggleLock, EndKey, Exec, StartThread, Exit, Wait,
           Yield, SetSchedule, TaskLock, WindowOpen, WindowClose, Pause, Resume,
           Kill, KillDead, KernelLock, KernelWindow, KernelExec, KernelUnlock,
           KernelNever, TaskEnd, EndSlot, EndClose, EndNull

\* Whatever happens, no two slots are marked running.
THEOREM OneRunningHolds == Spec => []OneRunning
  <1>1. Init => OneRunning
    BY DEF Init, OneRunning
  <1> QED  BY <1>1, InitType, NextType, NextRunning, PTL DEF Spec
-----------------------------------------------------------------------------
(* A pid names one live task: pids are handed out once and only below      *)
(* pid_counter.                                                            *)

PidsBelow == \A i \in Task : active[i] => pid[i] \in 1 .. pids - 1
PidInv == PidsUnique /\ PidsBelow

LEMMA StartPids ==
    ASSUME TypeOK, PidInv, NEW s, StartTask(s)
    PROVE  PidInv'
  <1>1. CASE UNCHANGED <<active, table, waitpid, saved, win, ownWin, pids>>
    BY <1>1 DEF table, PidInv, PidsUnique, PidsBelow
  <1>2. ASSUME NEW i \in Task, StartTask(s)!2!(i) PROVE PidInv'
    <2>1. pids \in Nat /\ pids >= 1
      BY DEF TypeOK
    <2>2. PidsBelow'
      BY <1>2, <2>1 DEF PidInv, PidsBelow, TypeOK, NextPid
    <2>3. PidsUnique'
      BY <1>2, <2>1 DEF PidInv, PidsBelow, PidsUnique, TypeOK, NextPid
    <2> QED  BY <2>2, <2>3 DEF PidInv
  <1> QED  BY <1>1, <1>2 DEF StartTask

LEMMA FewerPids ==
    ASSUME PidInv, UNCHANGED <<pid, pids>>, \A i \in Task : active'[i] => active[i]
    PROVE  PidInv'
  BY DEF PidInv, PidsUnique, PidsBelow

LEMMA NextPids == TypeOK /\ PidInv /\ [Next]_vars => PidInv'
  <1> SUFFICES ASSUME TypeOK, PidInv, [Next]_vars PROVE PidInv'
    OBVIOUS
  <1>1. CASE Exec \/ StartThread \/ KernelExec
    BY <1>1, StartPids DEF Exec, StartThread, KernelExec, ExecProgram
  <1>2. CASE UNCHANGED <<pid, pids, active>>
    BY <1>2, FewerPids
  <1>3. ASSUME NEW V, StopTasks(V), UNCHANGED <<pid, pids>> PROVE PidInv'
    BY <1>3, FewerPids DEF StopTasks
  <1>4. CASE PageFault \/ TaskEnd
    BY <1>4, FewerPids DEF PageFault, TaskEnd, table, TypeOK
  <1>5. CASE EndKey \/ Exit \/ \E p \in Pid : Kill(p)
    BY <1>5, <1>3 DEF EndKey, Exit, Kill, table
  <1> QED
    BY <1>1, <1>2, <1>4, <1>5
       DEF Next, Interrupt, Call, KernelStep, EndStep, vars, table,
           Tick, SelectWindow, ToggleLock, Wait, Yield, SetSchedule, TaskLock,
           WindowOpen, WindowClose, Pause, Resume, KillDead, KernelLock,
           KernelWindow, KernelUnlock, KernelNever, EndSlot, EndClose, EndNull

\* Whatever happens, no two live tasks have the same pid.
THEOREM PidsUniqueHolds == Spec => []PidsUnique
  <1>1. ASSUME Init PROVE PidInv
    <2>1. \A i \in Task : active[i] => i = 0 /\ pid[i] = 1
      BY <1>1 DEF Init
    <2>2. pids = 2
      BY <1>1 DEF Init
    <2> QED  BY <2>1, <2>2 DEF PidInv, PidsUnique, PidsBelow
  <1>2. PidInv => PidsUnique
    BY DEF PidInv
  <1> QED  BY <1>1, <1>2, InitType, NextType, NextPids, PTL DEF Spec
-----------------------------------------------------------------------------
(* Unless a stopped task goes on making calls, the registers of a live     *)
(* task are its own.  What makes the invariant inductive: a running slot   *)
(* that is live has its thread on the processor, and every other live      *)
(* slot has it saved.                                                      *)

OnProcessor == \A i \in Task : running[i] => cpu # Boot
KernelPC == {"entry", "window", "exec", "unlock", "never"}
\* Until kernel_task has started init it is the only task, and is in slot 0.
BootInv ==
    /\ \A p \in Pid : pc[p] \in KernelPC => p = 1
    /\ pc[1] \in {"entry", "window", "exec"} =>
          pids = 2 /\ cur = 0 /\ active[0] /\ pid[0] = 1
IdentityInv == OneRunning /\ PidInv /\ OnProcessor /\ ThreadIdentity /\ BootInv

\* A new task gets a slot that is not on the processor.
LEMMA StartIdentity ==
    ASSUME TypeOK, IdentityInv, active[cur], NEW s, StartTask(s),
           UNCHANGED <<running, cpu, cur>>
    PROVE  ThreadIdentity'
  <1>1. CASE UNCHANGED <<active, table, waitpid, saved, win, ownWin, pids>>
    BY <1>1 DEF table, IdentityInv, ThreadIdentity
  <1>2. ASSUME NEW i \in Task, StartTask(s)!2!(i) PROVE ThreadIdentity'
    <2>1. i # cur
      BY <1>2 DEF FreeTask
    <2>2. saved'[i] = pids /\ pid'[i] = pids
      BY <1>2 DEF TypeOK
    <2>3. \A k \in Task \ {i} : /\ active'[k] = active[k] /\ saved'[k] = saved[k]
                                /\ pid'[k] = pid[k]
      BY <1>2 DEF TypeOK
    <2> QED  BY <2>1, <2>2, <2>3 DEF IdentityInv, ThreadIdentity
  <1> QED  BY <1>1, <1>2 DEF StartTask

\* A switch saves the thread on the processor where it belongs.
LEMMA CallbackIdentity ==
    ASSUME TypeOK, IdentityInv, NEW act, TaskCallback(act), UNCHANGED pid,
           \A i \in Task : active'[i] => active[i],
           \A i \in Task : act[i] => active[i]
    PROVE  OnProcessor' /\ ThreadIdentity'
  <1>1. CASE UNCHANGED switch
    BY <1>1 DEF switch, IdentityInv, OnProcessor, ThreadIdentity
  <1>2. ASSUME NEW j \in Task, Eligible(act, j), SwitchTo(j)
        PROVE  OnProcessor' /\ ThreadIdentity'
    <2>1. active[j] /\ ~running[j] /\ saved[j] = pid[j] /\ pid[j] # Boot
      BY <1>2 DEF Eligible, IdentityInv, ThreadIdentity, PidInv, PidsBelow
    <2>2. cur' = j /\ cpu' = pid[j]
      BY <1>2, <2>1 DEF SwitchTo
    <2>3. ASSUME NEW i \in Task, active'[i], i # j PROVE saved'[i] = pid[i]
      <3>1. CASE running[i]
        <4>1. RunningIdx = i /\ i = cur /\ cpu # Boot
          BY <3>1, RunningFound DEF IdentityInv, OneRunning, OnProcessor
        <4>2. cpu = pid[i]
          BY <2>3, <4>1 DEF IdentityInv, ThreadIdentity
        <4> QED  BY <1>2, <4>1, <4>2 DEF SwitchTo, Saved
      <3>2. CASE ~running[i]
        <4>1. RunningIdx # i
          BY <3>2, NotRunning DEF IdentityInv
        <4>2. saved[i] = pid[i]
          BY <2>3, <3>2 DEF IdentityInv, ThreadIdentity
        <4> QED  BY <1>2, <4>1, <4>2 DEF SwitchTo, Saved
      <3> QED  BY <3>1, <3>2
    <2>4. running'[j]
      BY <1>2 DEF SwitchTo
    <2> QED  BY <2>1, <2>2, <2>3, <2>4 DEF ThreadIdentity, OnProcessor
  <1> QED  BY <1>1, <1>2 DEF TaskCallback, Candidates

\* page_error loads the registers of slot 0, which are the thread of the task
\* in slot 0 if that one is live.
LEMMA FaultIdentity ==
    ASSUME TypeOK, IdentityInv, PageFault
    PROVE  OnProcessor' /\ ThreadIdentity'
  <1>1. \A i \in Task : running'[i] = FALSE
    BY DEF PageFault, IdentityInv, OneRunning, TypeOK
  <1>2. ASSUME NEW i \in Task, active'[i] PROVE saved'[i] = pid[i]
    <2>1. i # cur /\ active[i]
      BY <1>2 DEF PageFault, TypeOK
    <2>2. saved'[i] = saved[i] /\ ~running[i]
      BY <2>1 DEF PageFault, IdentityInv, OneRunning, TypeOK
    <2> QED  BY <2>1, <2>2 DEF IdentityInv, ThreadIdentity
  <1>3. cur' = 0 /\ cpu' = saved'[0] /\ pid' = pid /\ 0 \in Task
    BY DEF PageFault, table
  <1> QED  BY <1>1, <1>2, <1>3 DEF OnProcessor, ThreadIdentity

LEMMA FewerIdentity ==
    ASSUME IdentityInv, UNCHANGED <<running, saved, cpu, cur, pid>>,
           \A i \in Task : active'[i] => active[i]
    PROVE  OnProcessor' /\ ThreadIdentity'
  BY DEF IdentityInv, OnProcessor, ThreadIdentity

\* While the kernel task boots no program is on the processor.
LEMMA NextBoot ==
    ASSUME TypeOK, IdentityInv, [Next]_vars
    PROVE  BootInv'
  <1> USE DEF table, switch, wins, KernelPC
  <1> DEFINE Booting == pc[1] \in {"entry", "window", "exec"}
  <1>1. Booting => cpu \in {Boot, 1}
    BY DEF IdentityInv, BootInv, ThreadIdentity, TypeOK
  <1>2. Booting => \A i \in Task : active[i] => i = 0
    BY DEF IdentityInv, BootInv, PidInv, PidsUnique, PidsBelow
  <1>3. Booting => ~(cpu # Boot /\ pc[cpu] = "run")
    BY <1>1
  <1>4. CASE Interrupt \/ Call \/ UNCHANGED vars
    <2>0. pc' = pc
      BY <1>4 DEF Interrupt, Call, vars, Tick, SelectWindow, ToggleLock,
           EndKey, PageFault, Exec, StartThread, Exit, Wait, Yield, SetSchedule, TaskLock,
           WindowOpen, WindowClose, Pause, Resume, Kill, KillDead
    <2>1. CASE ~Booting
      BY <2>0, <2>1 DEF IdentityInv, BootInv
    <2>2. CASE Tick \/ Yield
      <3>1. ASSUME NEW j \in Task, Eligible(active, j), SwitchTo(j), Booting PROVE cur' = 0
        BY <1>2, <3>1 DEF Eligible, SwitchTo
      <3>2. Booting => cur' = 0
        BY <2>2, <3>1 DEF Tick, Yield, TaskCallback, Candidates, IdentityInv, BootInv
      <3> QED  BY <2>0, <2>2, <3>2 DEF Tick, Yield, IdentityInv, BootInv
    <2>3. CASE EndKey
      BY <2>0, <2>3 DEF EndKey, StopTasks, IdentityInv, BootInv, TypeOK
    <2>4. CASE UNCHANGED <<active, cur, pid, pids>>
      BY <2>0, <2>4 DEF IdentityInv, BootInv
    <2>5. CASE Booting /\ (Call \/ PageFault)
      BY <2>5, <2>2, <1>3 DEF Call, PageFault, Calling, Exec, StartThread, Exit, Yield,
            WindowOpen, WindowClose, Wait, Kill, KillDead, SetSchedule, TaskLock,
            Pause, Resume
    <2> QED
      BY <1>4, <2>1, <2>2, <2>3, <2>4, <2>5
         DEF Interrupt, ToggleLock, SelectWindow, vars
  <1>5. ASSUME KernelStep PROVE cpu = 1 /\ \A p \in Pid \ {1} : pc'[p] = pc[p]
    BY <1>5 DEF KernelStep, KernelLock, KernelWindow, KernelExec, KernelUnlock,
                KernelNever, At, IdentityInv, BootInv, TypeOK
  <1>6. CASE KernelLock \/ KernelWindow
    <2>1. Booting /\ UNCHANGED <<pids, cur, active, pid>>
      BY <1>5, <1>6 DEF KernelStep, KernelLock, KernelWindow, At
    <2> QED  BY <1>5, <1>6, <2>1 DEF KernelStep, IdentityInv, BootInv
  <1>7. CASE KernelExec \/ KernelUnlock \/ KernelNever
    <2>1. cpu = 1 /\ 1 \in Pid
      BY <1>5, <1>7 DEF KernelStep
    <2>2. pc'[1] \in {"unlock", "never", "spin"}
      BY <1>7, <2>1 DEF KernelExec, KernelUnlock, KernelNever, At, TypeOK
    <2> QED  BY <1>5, <1>7, <2>2 DEF KernelStep, IdentityInv, BootInv
  <1>8. CASE TaskEnd \/ EndStep
    <2>2. ASSUME NEW a, NEW b \in {"endSlot", "endClose", "endNull", "spin"}, At(a, b)
          PROVE  \A p \in Pid : pc'[p] \in KernelPC => pc[p] \in KernelPC /\ pc'[p] = pc[p]
      BY <2>2 DEF At, TypeOK
    <2>3. \A p \in Pid : pc'[p] \in KernelPC => pc[p] \in KernelPC /\ pc'[p] = pc[p]
      BY <1>8, <2>2 DEF TaskEnd, EndStep, EndSlot, EndClose, EndNull
    <2>4. CASE TaskEnd
      <3>1. pc[cpu] = "run" /\ cpu # Boot
        BY <2>4 DEF TaskEnd, At
      <3>2. ~Booting
        BY <1>3, <3>1
      <3> QED  BY <2>3, <3>2 DEF IdentityInv, BootInv
    <2>5. CASE EndStep
      <3>1. UNCHANGED <<pids, cur, active, pid>>
        BY <2>5 DEF EndStep, EndSlot, EndClose, EndNull
      <3> QED  BY <2>3, <3>1 DEF IdentityInv, BootInv
    <2> QED  BY <1>8, <2>4, <2>5
  <1> QED
    BY <1>4, <1>6, <1>7, <1>8 DEF Next, KernelStep

LEMMA NextIdentity ==
    ASSUME "orphan" \notin Hazards, TypeOK, IdentityInv, [Next]_vars
    PROVE  IdentityInv'
  <1>1. OneRunning' /\ PidInv' /\ BootInv'
    BY NextRunning, NextPids, NextBoot DEF IdentityInv
  <1>2. SUFFICES OnProcessor' /\ ThreadIdentity'
    BY <1>1 DEF IdentityInv
  <1>3. CASE Exec \/ StartThread \/ KernelExec
    <2>1. (\E s : StartTask(s)) /\ UNCHANGED <<running, cpu, cur>>
      BY <1>3 DEF Exec, StartThread, KernelExec, ExecProgram
    <2>2. ASSUME Exec \/ StartThread PROVE active[cur]
      BY <2>2 DEF Exec, StartThread, Calling
    <2>3. ASSUME KernelExec PROVE active[cur]
      BY <2>3 DEF KernelExec, At, IdentityInv, BootInv, KernelPC, TypeOK
    <2>4. active[cur]
      BY <1>3, <2>2, <2>3
    <2> QED  BY <2>1, <2>4, StartIdentity DEF IdentityInv, OnProcessor
  <1>4. CASE Tick \/ Yield
    BY <1>4, CallbackIdentity DEF Tick, Yield, table
  <1>5. CASE Exit
    BY <1>5, CallbackIdentity DEF Exit, table, StopTasks
  <1>6. CASE PageFault
    BY <1>6, FaultIdentity
  <1>7. CASE TaskEnd
    BY <1>7, FewerIdentity DEF TaskEnd, table, switch, TypeOK
  <1>8. CASE EndKey \/ \E p \in Pid : Kill(p)
    BY <1>8, FewerIdentity DEF EndKey, Kill, StopTasks, table, switch
  <1>9. CASE UNCHANGED <<active, running, saved, cpu, cur, pid>>
    BY <1>9, FewerIdentity
  <1> QED
    BY <1>3, <1>4, <1>5, <1>6, <1>7, <1>8, <1>9
       DEF Next, Interrupt, Call, KernelStep, EndStep, vars, table, switch,
           SelectWindow, ToggleLock, Wait, SetSchedule, TaskLock,
           WindowOpen, WindowClose, Pause, Resume, KillDead, KernelLock,
           KernelWindow, KernelUnlock, KernelNever, EndSlot, EndClose, EndNull

LEMMA InitIdentity == Init => IdentityInv
  <1> SUFFICES ASSUME Init PROVE IdentityInv
    OBVIOUS
  <1>1. \A i \in Task : active[i] => i = 0 /\ pid[i] = 1 /\ saved[i] = 1
    BY DEF Init
  <1>2. \A i \in Task : ~running[i]
    BY DEF Init
  <1>3. pids = 2 /\ cur = 0 /\ cpu = Boot /\ 0 \in Task /\ pid[0] = 1
    BY DEF Init
  <1>4. PidInv
    BY <1>1, <1>3 DEF PidInv, PidsUnique, PidsBelow
  <1>5. active[0]
    BY <1>3 DEF Init
  <1>6. BootInv
    BY <1>3, <1>5 DEF Init, BootInv, KernelPC
  <1> QED  BY <1>1, <1>2, <1>3, <1>4, <1>6
              DEF IdentityInv, OneRunning, OnProcessor, ThreadIdentity

\* When stopped tasks make no further calls, a live task is only ever executed
\* and saved as the thread it was started with: kills, page faults and the lock
\* key cannot mix up two tasks.
THEOREM ThreadIdentityHolds == "orphan" \notin Hazards => (Spec => []ThreadIdentity)
  <1> SUFFICES ASSUME "orphan" \notin Hazards PROVE Spec => []ThreadIdentity
    OBVIOUS
  <1>1. TypeOK /\ IdentityInv /\ [Next]_vars => IdentityInv'
    BY NextIdentity
  <1>2. IdentityInv => ThreadIdentity
    BY DEF IdentityInv
  <1> QED  BY <1>1, <1>2, InitType, InitIdentity, NextType, PTL DEF Spec
-----------------------------------------------------------------------------
(* Address 0 maps the program that runs.  A switch maps the program of the *)
(* task it switches to, and a new task never takes the slot of the running *)
(* one, because the running task is live when it starts another.           *)

\* A task that starts another is live.
LEMMA StarterLives ==
    ASSUME "orphan" \notin Hazards, TypeOK, IdentityInv,
           Exec \/ StartThread \/ KernelExec
    PROVE  active[cur]
  <1>1. ASSUME Exec \/ StartThread PROVE active[cur]
    BY <1>1 DEF Exec, StartThread, Calling
  <1>2. ASSUME KernelExec PROVE active[cur]
    BY <1>2 DEF KernelExec, At, IdentityInv, BootInv, KernelPC, TypeOK
  <1> QED  BY <1>1, <1>2

\* Starting a task changes nothing about the tasks that are live already.
LEMMA StartKeeps ==
    ASSUME TypeOK, NEW s, StartTask(s), NEW k \in Task, active[k]
    PROVE  /\ active'[k] /\ slot'[k] = slot[k] /\ pid'[k] = pid[k]
           /\ win'[k] = win[k] /\ ownWin'[k] = ownWin[k]
  <1>1. CASE UNCHANGED <<active, table, waitpid, saved, win, ownWin, pids>>
    BY <1>1 DEF table
  <1>2. ASSUME NEW i \in Task, StartTask(s)!2!(i)
        PROVE  /\ active'[k] /\ slot'[k] = slot[k] /\ pid'[k] = pid[k]
               /\ win'[k] = win[k] /\ ownWin'[k] = ownWin[k]
    <2>1. i # k
      BY <1>2 DEF FreeTask
    <2> QED  BY <1>2, <2>1 DEF TypeOK
  <1> QED  BY <1>1, <1>2 DEF StartTask

LEMMA CallbackMapped ==
    ASSUME TypeOK, OneRunning, MappedIsRunning, NEW act, TaskCallback(act),
           UNCHANGED slot, \A i \in Task : active'[i] => active[i]
    PROVE  MappedIsRunning'
  <1>1. CASE UNCHANGED switch
    BY <1>1 DEF switch, MappedIsRunning, TypeOK
  <1>2. ASSUME NEW j \in Task, SwitchTo(j) PROVE MappedIsRunning'
    BY <1>2 DEF SwitchTo, MappedBy, MappedIsRunning
  <1> QED  BY <1>1, <1>2 DEF TaskCallback, Candidates

LEMMA NextMapped ==
    ASSUME "orphan" \notin Hazards, TypeOK, IdentityInv, MappedIsRunning, [Next]_vars
    PROVE  MappedIsRunning'
  <1>1. CASE Exec \/ StartThread \/ KernelExec
    <2>1. (\E s : StartTask(s)) /\ UNCHANGED <<running, cur, mapped>>
      BY <1>1 DEF Exec, StartThread, KernelExec, ExecProgram
    <2>2. active[cur] /\ cur \in Task
      BY <1>1, StarterLives DEF TypeOK
    <2>3. active'[cur] /\ slot'[cur] = slot[cur]
      BY <2>1, <2>2, StartKeeps
    <2> QED  BY <2>1, <2>2, <2>3 DEF MappedIsRunning
  <1>2. CASE Tick \/ Yield
    BY <1>2, CallbackMapped DEF Tick, Yield, table, IdentityInv
  <1>3. CASE Exit
    BY <1>3, CallbackMapped DEF Exit, table, StopTasks, IdentityInv
  <1>4. CASE PageFault
    BY <1>4 DEF PageFault, MappedIsRunning, IdentityInv, OneRunning, TypeOK
  <1>5. ASSUME UNCHANGED <<slot, running, cur, mapped>>,
               \A i \in Task : active'[i] => active[i]
        PROVE  MappedIsRunning'
    BY <1>5 DEF MappedIsRunning, TypeOK
  <1>6. CASE EndKey \/ TaskEnd \/ \E p \in Pid : Kill(p)
    BY <1>6, <1>5 DEF EndKey, TaskEnd, Kill, StopTasks, table, switch, TypeOK
  <1>7. CASE UNCHANGED <<active, slot, running, cur, mapped>>
    BY <1>7, <1>5
  <1> QED
    BY <1>1, <1>2, <1>3, <1>4, <1>6, <1>7
       DEF Next, Interrupt, Call, KernelStep, EndStep, vars, table, switch,
           SelectWindow, ToggleLock, Wait, SetSchedule, TaskLock,
           WindowOpen, WindowClose, Pause, Resume, KillDead, KernelLock,
           KernelWindow, KernelUnlock, KernelNever, EndSlot, EndClose, EndNull

\* As long as stopped tasks make no calls, a live program finds its own memory
\* at address 0 whenever it is marked running, kills and faults included.
THEOREM MappedIsRunningHolds == "orphan" \notin Hazards => (Spec => []MappedIsRunning)
  <1> SUFFICES ASSUME "orphan" \notin Hazards PROVE Spec => []MappedIsRunning
    OBVIOUS
  <1>1. Init => MappedIsRunning
    BY DEF Init, MappedIsRunning
  <1>2. TypeOK /\ IdentityInv /\ [Next]_vars => IdentityInv'
    BY NextIdentity
  <1>3. TypeOK /\ IdentityInv /\ MappedIsRunning /\ [Next]_vars => MappedIsRunning'
    BY NextMapped
  <1> QED  BY <1>1, <1>2, <1>3, InitType, InitIdentity, NextType, PTL DEF Spec
-----------------------------------------------------------------------------
(* The processor only passes to a task that is due.  Two moves are left    *)
(* out: page_error, which takes slot 0 whatever its schedule is, and a     *)
(* stopped task that calls on.                                             *)

\* What the switch takes as a candidate is what SwitchIsDue asks for, and the
\* registers it loads are the thread of that task.
LEMMA CallbackDue ==
    ASSUME IdentityInv, TaskCallback(active'), cpu' # cpu,
           \A i \in Task : active'[i] => active[i]
    PROVE  \E j \in Task : /\ cur' = j /\ active'[j] /\ cpu' = pid[j]
                           /\ ~Alive(active', waitpid[j])
                           /\ sched[j] # "NEVER"
                           /\ sched[j] = "ONFOCUS" => win[j] = selected
  <1>1. PICK j \in Task : Eligible(active', j) /\ SwitchTo(j)
    BY DEF TaskCallback, Candidates, switch
  <1>2. saved[j] = pid[j] /\ cpu' = saved[j] /\ cur' = j
    BY <1>1 DEF Eligible, SwitchTo, IdentityInv, ThreadIdentity
  <1> QED  BY <1>1, <1>2 DEF Eligible

\* Without page faults and without calls of stopped tasks, every change of
\* thread is a switch to a task that is live, due and not waiting.
THEOREM SwitchIsDueHolds ==
    Hazards \cap {"orphan", "fault"} = {} => (Spec => SwitchIsDue)
  <1> SUFFICES ASSUME Hazards \cap {"orphan", "fault"} = {} PROVE Spec => SwitchIsDue
    OBVIOUS
  <1> DEFINE IsDue == \E j \in Task : /\ cur' = j /\ active'[j] /\ cpu' = pid[j]
                                      /\ ~Alive(active', waitpid[j])
                                      /\ sched[j] # "NEVER"
                                      /\ sched[j] = "ONFOCUS" => win[j] = selected
  <1>1. "orphan" \notin Hazards /\ "fault" \notin Hazards
    OBVIOUS
  <1>2. TypeOK /\ IdentityInv /\ [Next]_vars => IdentityInv'
    BY <1>1, NextIdentity
  <1>3. TypeOK /\ IdentityInv /\ [Next]_vars => [cpu' # cpu => IsDue]_vars
    <2> SUFFICES ASSUME IdentityInv, Next, cpu' # cpu PROVE IsDue
      BY DEF vars
    <2>1. CASE Tick \/ Yield
      <3>1. TaskCallback(active') /\ active' = active
        BY <2>1 DEF Tick, Yield
      <3> QED  BY <3>1, CallbackDue
    <2>2. CASE Exit
      BY <2>2, CallbackDue DEF Exit, StopTasks
    <2> QED
      BY <1>1, <2>1, <2>2
         DEF Next, Interrupt, Call, KernelStep, EndStep, vars, table, switch,
             SelectWindow, ToggleLock, EndKey, PageFault, Exec, StartThread, Wait,
             SetSchedule, TaskLock, WindowOpen, WindowClose, Pause, Resume, Kill,
             KillDead, KernelLock, KernelWindow, KernelExec, KernelUnlock,
             KernelNever, TaskEnd, EndSlot, EndClose, EndNull
  <1> QED  BY <1>2, <1>3, InitType, InitIdentity, NextType, PTL DEF Spec, SwitchIsDue
-----------------------------------------------------------------------------
(* Program slots and windows have one owner.  Beside the property itself   *)
(* the invariant says that the task on the processor shares its slot and   *)
(* its own window with no live task even when it has been stopped and is   *)
(* in the middle of task_end, and that the task in slot 0, to which        *)
(* page_error goes, is the kernel task, which holds neither.               *)
(*                                                                         *)
(* A kill is left out: the End key also stops tasks that have ended, and   *)
(* gives up a slot and a window that somebody else may hold by then.       *)

NoKill == Hazards \cap {"orphan", "kill"} = {}

KernelKept ==
    /\ active[0] /\ pid[0] = 1 /\ slot[0] = None /\ ~ownWin[0]
    /\ pc[1] \in KernelPC \cup {"spin"}

\* The kernel task is never stopped and takes no slot: it makes no call.
LEMMA NextKernel ==
    ASSUME NoKill, TypeOK, IdentityInv, KernelKept, [Next]_vars
    PROVE  KernelKept'
  <1> USE DEF table, switch, wins, KernelPC
  <1>0. 0 \in Task /\ 1 \in Pid /\ cur \in Task /\ (cpu = Boot \/ cpu \in Pid)
    BY DEF TypeOK
  <1>1. cur = 0 /\ cpu # Boot => cpu = 1
    BY <1>0 DEF IdentityInv, ThreadIdentity, KernelKept
  <1>2. cpu # Boot /\ pc[cpu] \notin KernelPC \cup {"spin"} => cur # 0
    BY <1>1 DEF KernelKept
  <1>3. CASE Exec \/ StartThread \/ KernelExec
    <2>1. \E s : StartTask(s)
      BY <1>3 DEF Exec, StartThread, KernelExec, ExecProgram
    <2>2. pc'[1] = pc[1] \/ pc'[1] = "unlock"
      BY <1>3, <1>0 DEF Exec, StartThread, KernelExec, At, TypeOK
    <2>3. active'[0] /\ slot'[0] = slot[0] /\ pid'[0] = pid[0] /\ ownWin'[0] = ownWin[0]
      BY <2>1, <1>0, StartKeeps DEF KernelKept
    <2> QED  BY <2>2, <2>3 DEF KernelKept
  <1>4. CASE Exit \/ PageFault \/ WindowOpen \/ WindowClose
    <2>1. cur # 0
      BY <1>4, <1>2 DEF Exit, PageFault, WindowOpen, WindowClose, Calling
    <2>2. CASE Exit \/ PageFault
      BY <1>0, <2>1, <2>2, SMTT(20) DEF Exit, StopTasks, PageFault, KernelKept, TypeOK
    <2>3. CASE WindowOpen \/ WindowClose
      BY <1>0, <2>1, <2>3, SMTT(20) DEF WindowOpen, WindowClose, KernelKept, TypeOK
    <2> QED  BY <1>4, <2>2, <2>3
  <1>5. CASE TaskEnd \/ EndStep
    <2>1. cur # 0 /\ cpu # 1 /\ cpu \in Pid
      BY <1>0, <1>2, <1>5 DEF TaskEnd, EndStep, EndSlot, EndClose, EndNull, At, KernelKept
    <2>2. pc'[1] = pc[1]
      BY <1>0, <1>5, <2>1 DEF TaskEnd, EndStep, EndSlot, EndClose, EndNull, At, TypeOK
    <2> QED  BY <1>0, <1>5, <2>1, <2>2
                DEF TaskEnd, EndStep, EndSlot, EndClose, EndNull, KernelKept, TypeOK
  <1>6. CASE KernelLock \/ KernelWindow \/ KernelUnlock \/ KernelNever
    <2>1. cpu = 1
      BY <1>0, <1>6 DEF KernelLock, KernelWindow, KernelUnlock, KernelNever, At,
                        IdentityInv, BootInv
    <2>2. pc'[1] \in KernelPC \cup {"spin"}
      BY <1>0, <1>6, <2>1 DEF KernelLock, KernelWindow, KernelUnlock, KernelNever, At, TypeOK
    <2> QED  BY <1>6, <2>2 DEF KernelLock, KernelWindow, KernelUnlock, KernelNever, KernelKept
  <1>7. CASE UNCHANGED <<active, slot, pid, ownWin, pc>>
    BY <1>7 DEF KernelKept
  <1> QED
    BY <1>3, <1>4, <1>5, <1>6, <1>7
       DEF Next, Interrupt, Call, KernelStep, vars, NoKill,
           Tick, SelectWindow, ToggleLock, EndKey, Wait, Yield, SetSchedule, TaskLock,
           Pause, Resume, Kill, KillDead

Ending == {"endSlot", "endClose", "endNull"}
\* The thread on the processor is the one of slot task_running_idx, live or
\* not; only a task that is no longer live is inside task_end.
CallerInv ==
    /\ cpu # Boot => cpu = pid[cur]
    /\ cpu < pids
    /\ \A j \in Task : active[j] /\ pid[j] = pid[cur] => j = cur
    /\ \A i \in Task : active[i] => pc[pid[i]] \notin Ending
    /\ \A p \in Pid : p >= pids => pc[p] = "run"

\* A switch leaves the processor where it was or with a live task.
LEMMA CallbackCaller ==
    ASSUME IdentityInv, NEW act, TaskCallback(act),
           \A i \in Task : act[i] => active[i]
    PROVE  \/ cur' = cur /\ cpu' = cpu
           \/ cur' \in Task /\ act[cur'] /\ cpu' = pid[cur']
  <1>1. CASE UNCHANGED switch
    BY <1>1 DEF switch
  <1>2. ASSUME NEW j \in Task, Eligible(act, j), SwitchTo(j)
        PROVE  cur' \in Task /\ act[cur'] /\ cpu' = pid[cur']
    BY <1>2 DEF Eligible, SwitchTo, IdentityInv, ThreadIdentity
  <1> QED  BY <1>1, <1>2 DEF TaskCallback, Candidates

\* What start_task gives a task that was not live before.
LEMMA StartNew ==
    ASSUME TypeOK, NEW s, StartTask(s), NEW k \in Task, active'[k], ~active[k]
    PROVE  /\ slot'[k] = s /\ pid'[k] = pids /\ ~ownWin'[k] /\ pids \in Pid
           /\ \A i \in Task : i # k => active'[i] = active[i]
  <1>1. PICK i \in Task : StartTask(s)!2!(i)
    BY DEF StartTask
  <1>2. i = k
    BY <1>1 DEF TypeOK
  <1>3. pids \in Pid
    BY <1>1 DEF TypeOK
  <1> QED  BY <1>1, <1>2, <1>3 DEF TypeOK

LEMMA StartAdvances ==
    ASSUME TypeOK, NEW s, StartTask(s)
    PROVE  pids \in Nat /\ pids' \in Nat /\ pids' >= pids
  <1>1. CASE UNCHANGED <<active, table, waitpid, saved, win, ownWin, pids>>
    BY <1>1 DEF TypeOK
  <1>2. CASE pids' = pids + 1
    BY <1>2 DEF TypeOK
  <1> QED  BY <1>1, <1>2 DEF StartTask, NextPid

LEMMA StartCaller ==
    ASSUME TypeOK, IdentityInv, CallerInv, active[cur], NEW s, StartTask(s),
           UNCHANGED <<cpu, cur>>,
           \A p \in Pid : pc'[p] = pc[p] \/ (p < pids /\ pc'[p] = "unlock")
    PROVE  CallerInv'
  <1>1. cur \in Task /\ active'[cur] /\ pid'[cur] = pid[cur]
    BY StartKeeps DEF TypeOK
  <1>2. pid[cur] \in 1 .. pids - 1
    BY DEF TypeOK, IdentityInv, PidInv, PidsBelow
  <1>3. pids \in Nat /\ pids' \in Nat /\ pids' >= pids
    BY StartAdvances
  <1>4. ASSUME NEW j \in Task, active'[j]
        PROVE  (pid'[j] = pid[cur] => j = cur) /\ pc'[pid'[j]] \notin Ending
    <2>1. CASE active[j]
      <3>1. pid'[j] = pid[j] /\ pid[j] \in Pid
        <4>1. pid'[j] = pid[j]
          BY <2>1, StartKeeps
        <4>2. pid[j] \in 1 .. pids - 1
          BY <2>1 DEF IdentityInv, PidInv, PidsBelow
        <4>3. pids \in 1 .. MaxPid + 1
          BY DEF TypeOK
        <4> QED  BY <4>1, <4>2, <4>3, SizeAssumption DEF Pid
      <3>2. pc[pid[j]] \notin Ending
        BY <2>1 DEF CallerInv
      <3> QED  BY <2>1, <3>1, <3>2 DEF CallerInv, Ending
    <2>2. CASE ~active[j]
      <3>1. pid'[j] = pids /\ pids \in Pid
        BY <1>4, <2>2, StartNew
      <3>2. pc'[pids] = "run"
        BY <3>1 DEF CallerInv
      <3> QED  BY <1>2, <3>1, <3>2 DEF Ending
    <2> QED  BY <2>1, <2>2
  <1>5. \A p \in Pid : p >= pids' => pc'[p] = "run"
    BY <1>3 DEF CallerInv
  <1>6. cpu < pids'
    BY <1>3 DEF CallerInv, TypeOK
  <1> QED  BY <1>1, <1>4, <1>5, <1>6 DEF CallerInv

\* Every step keeps the thread on the processor apart from the live tasks.
LEMMA NextCaller ==
    ASSUME NoKill, TypeOK, IdentityInv, KernelKept, CallerInv, [Next]_vars
    PROVE  CallerInv'
  <1> USE DEF table, switch, wins
  <1>0. 0 \in Task /\ cur \in Task /\ (cpu = Boot \/ cpu \in Pid) /\ pids \in Nat
    BY DEF TypeOK
  <1>1. CASE Exec \/ StartThread \/ KernelExec
    <2>1. (\E s : StartTask(s)) /\ UNCHANGED <<cpu, cur>>
      BY <1>1 DEF Exec, StartThread, KernelExec, ExecProgram
    <2>2. active[cur]
      BY <1>1, StarterLives DEF NoKill
    <2>3. \A p \in Pid : pc'[p] = pc[p] \/ (p < pids /\ pc'[p] = "unlock")
      <3>1. CASE Exec \/ StartThread
        BY <3>1 DEF Exec, StartThread
      <3>2. CASE KernelExec
        <4>1. cpu = pid[cur] /\ pid[cur] \in 1 .. pids - 1
          BY <2>2, <3>2, <1>0 DEF KernelExec, At, CallerInv, IdentityInv, PidInv, PidsBelow
        <4> QED  BY <1>0, <3>2, <4>1 DEF KernelExec, At, TypeOK
      <3> QED  BY <1>1, <3>1, <3>2
    <2> QED  BY <2>1, <2>2, <2>3, StartCaller
  <1>2. ASSUME NEW act, TaskCallback(act), \A i \in Task : act[i] => active[i],
               UNCHANGED <<pid, pids, pc>>, \A i \in Task : active'[i] => active[i]
        PROVE  CallerInv'
    <2>1. CASE cur' = cur /\ cpu' = cpu
      BY <1>2, <2>1 DEF CallerInv
    <2>2. CASE cur' \in Task /\ act[cur'] /\ cpu' = pid[cur']
      <3>1. /\ \A j \in Task : active[j] /\ pid[j] = pid[cur'] => j = cur'
            /\ pid[cur'] < pids
        BY <1>0, <1>2, <2>2 DEF IdentityInv, PidInv, PidsUnique, PidsBelow
      <3> QED  BY <1>2, <2>2, <3>1 DEF CallerInv
    <2> QED  BY <1>2, <2>1, <2>2, CallbackCaller
  <1>3. CASE Tick \/ Yield
    BY <1>3, <1>2 DEF Tick, Yield
  <1>4. CASE Exit
    BY <1>4, <1>2 DEF Exit, StopTasks
  <1>5. CASE PageFault
    <2>1. cur # 0 /\ cpu # Boot
      BY <1>0, <1>5 DEF PageFault, KernelKept, KernelPC, CallerInv
    <2>2. cur' = 0 /\ cpu' = saved[0] /\ pid' = pid /\ pids' = pids /\ pc' = pc
      BY <1>0, <1>5, <2>1 DEF PageFault, TypeOK
    <2>3. saved[0] = pid[0]
      BY <1>0, <2>1 DEF IdentityInv, OneRunning, ThreadIdentity, KernelKept
    <2>4. \A i \in Task : active'[i] => active[i]
      BY <1>5 DEF PageFault, TypeOK
    <2>5. (\A j \in Task : active[j] /\ pid[j] = pid[0] => j = 0) /\ pid[0] < pids
      BY <1>0 DEF IdentityInv, PidInv, PidsUnique, PidsBelow, KernelKept
    <2> QED  BY <2>2, <2>3, <2>4, <2>5 DEF CallerInv
  <1>6. CASE TaskEnd
    <2>1. cpu = pid[cur] /\ cpu \in Pid
      BY <1>0, <1>6 DEF TaskEnd, At, CallerInv
    <2>2. UNCHANGED <<pid, pids, cur, cpu>> /\ ~active'[cur]
          /\ \A i \in Task : active'[i] => active[i]
      BY <1>0, <1>6 DEF TaskEnd, TypeOK
    <2>3. \A p \in Pid \ {cpu} : pc'[p] = pc[p]
      BY <1>6, <2>1 DEF TaskEnd, At, TypeOK
    <2>4. ASSUME NEW i \in Task, active'[i] PROVE pc'[pid[i]] \notin Ending
      <3>1. i # cur /\ active[i] /\ pid[i] \in Pid
        BY <2>2, <2>4 DEF TypeOK, IdentityInv, PidInv, PidsBelow
      <3>2. pid[i] # cpu
        BY <2>1, <3>1 DEF CallerInv
      <3> QED  BY <2>3, <3>1, <3>2 DEF CallerInv
    <2>5. ASSUME NEW p \in Pid, p >= pids PROVE pc'[p] = "run"
      <3>1. cpu < pids
        BY DEF CallerInv
      <3> QED  BY <2>3, <2>5, <3>1, <1>0 DEF CallerInv
    <2> QED  BY <2>2, <2>4, <2>5 DEF CallerInv
  <1>7. CASE EndStep \/ KernelLock \/ KernelWindow \/ KernelUnlock \/ KernelNever
    <2>1. /\ cpu \in Pid /\ UNCHANGED <<active, pid, pids, cur, cpu>>
          /\ \A p \in Pid \ {cpu} : pc'[p] = pc[p]
      BY <1>0, <1>7 DEF EndStep, EndSlot, EndClose, EndNull, KernelLock, KernelWindow,
                        KernelUnlock, KernelNever, At, TypeOK
    <2>2. ASSUME NEW p \in Pid, p >= pids PROVE pc'[p] = "run"
      BY <1>0, <2>1, <2>2 DEF CallerInv
    <2>3. ASSUME NEW i \in Task, active[i] PROVE pc'[pid[i]] \notin Ending
      <3>1. pid[i] \in Pid /\ pc[pid[i]] \notin Ending
        BY <2>3 DEF TypeOK, IdentityInv, PidInv, PidsBelow, CallerInv
      <3>2. CASE EndStep
        <4>1. pc[cpu] \in Ending
          BY <3>2 DEF EndStep, EndSlot, EndClose, EndNull, At, Ending
        <4> QED  BY <2>1, <3>1, <4>1
      <3>3. CASE KernelLock \/ KernelWindow \/ KernelUnlock \/ KernelNever
        <4>1. pc'[cpu] \notin Ending
          BY <2>1, <3>3 DEF KernelLock, KernelWindow, KernelUnlock, KernelNever, At,
                            Ending, TypeOK
        <4> QED  BY <2>1, <3>1, <4>1
      <3> QED  BY <1>7, <3>2, <3>3
    <2> QED  BY <2>1, <2>2, <2>3 DEF CallerInv
  <1>8. CASE UNCHANGED <<active, pid, pids, cur, cpu, pc>>
    BY <1>8 DEF CallerInv
  <1> QED
    BY <1>1, <1>3, <1>4, <1>5, <1>6, <1>7, <1>8
       DEF Next, Interrupt, Call, KernelStep, vars, NoKill,
           SelectWindow, ToggleLock, EndKey, Wait, SetSchedule, TaskLock,
           WindowOpen, WindowClose, Pause, Resume, Kill, KillDead
-----------------------------------------------------------------------------
CallerSlot ==
    slot[cur] # None => \A j \in Task : active[j] /\ slot[j] = slot[cur] => j = cur
SlotInv == SlotsExclusive /\ CallerSlot

\* A task that ends is no longer live while its slot and window are given up.
LEMMA EndingDead ==
    ASSUME TypeOK, CallerInv, EndStep
    PROVE  ~active[cur] /\ cur \in Task
  <1>1. cpu # Boot /\ pc[cpu] \in Ending
    BY DEF EndStep, EndSlot, EndClose, EndNull, At, Ending
  <1> QED  BY <1>1 DEF CallerInv, TypeOK

\* Loading a program takes a slot that no live task has.
LEMMA ExecSlots ==
    ASSUME TypeOK, SlotInv, active[cur], UNCHANGED cur,
           NEW s \in Slot \cup {None}, StartTask(s),
           s # None => ~slotBusy[s] /\ slotBusy'[s],
           \A t \in Slot : slotBusy[t] => slotBusy'[t]
    PROVE  SlotInv'
  <1>1. ASSUME NEW k \in Task, active'[k]
        PROVE  \/ active[k] /\ slot'[k] = slot[k]
               \/ ~active[k] /\ slot'[k] = s /\ \A i \in Task : i # k => active'[i] = active[i]
    BY <1>1, StartKeeps, StartNew
  <1>2. \A k \in Task : active[k] /\ slot[k] # None => slot[k] \in Slot /\ slotBusy[slot[k]]
    BY DEF SlotInv, SlotsExclusive, TypeOK
  <1>3. SlotsExclusive'
    BY <1>1, <1>2 DEF SlotInv, SlotsExclusive
  <1>4. cur \in Task /\ active'[cur]
    BY StartKeeps DEF TypeOK
  <1> QED  BY <1>3, <1>4 DEF SlotInv, SlotsExclusive, CallerSlot

LEMMA NextSlots ==
    ASSUME NoKill, "killdead" \notin Hazards,
           TypeOK, IdentityInv, KernelKept, CallerInv, SlotInv, [Next]_vars
    PROVE  SlotInv'
  <1> USE DEF table, switch, wins
  <1>0. 0 \in Task /\ cur \in Task
    BY DEF TypeOK
  <1>1. CASE Exec \/ KernelExec \/ StartThread
    <2>1. active[cur] /\ UNCHANGED cur
      BY <1>1, StarterLives DEF NoKill, Exec, KernelExec, StartThread
    <2>2. ASSUME StartTask(None), UNCHANGED slotBusy PROVE SlotInv'
      BY <2>1, <2>2, ExecSlots
    <2>3. ASSUME NEW s \in Slot, FreeSlot(s), StartTask(s),
                 slotBusy' = [slotBusy EXCEPT ![s] = TRUE]
          PROVE  SlotInv'
      BY <2>1, <2>3, ExecSlots DEF FreeSlot, TypeOK
    <2> QED  BY <1>1, <2>2, <2>3 DEF Exec, KernelExec, StartThread, ExecProgram
  <1>2. ASSUME NEW act, TaskCallback(act), \A i \in Task : act[i] => active[i],
               UNCHANGED slot, \A i \in Task : active'[i] => active[i], SlotsExclusive'
        PROVE  SlotInv'
    <2>1. CASE cur' = cur
      BY <1>2, <2>1 DEF SlotInv, CallerSlot
    <2>2. CASE cur' \in Task /\ act[cur']
      BY <1>2, <2>2 DEF SlotInv, SlotsExclusive, CallerSlot
    <2> QED  BY <1>2, <2>1, <2>2, CallbackCaller
  <1>3. CASE Tick \/ Yield
    <2>1. UNCHANGED <<active, slot, slotBusy>>
      BY <1>3 DEF Tick, Yield
    <2> QED  BY <1>2, <1>3, <2>1 DEF Tick, Yield, SlotInv, SlotsExclusive
  <1>4. CASE Exit
    <2>1. /\ slot' = slot /\ \A i \in Task : active'[i] => active[i] /\ i # cur
          /\ slotBusy' = [s \in Slot |-> slotBusy[s] /\ (slot[cur] = None \/ slot[cur] # s)]
      BY <1>0, <1>4 DEF Exit, StopTasks
    <2>2. SlotsExclusive'
      BY <2>1 DEF SlotInv, SlotsExclusive, CallerSlot, TypeOK
    <2> QED  BY <1>2, <1>4, <2>1, <2>2 DEF Exit
  <1>5. CASE PageFault
    <2>1. UNCHANGED <<slot, slotBusy>> /\ cur' = 0 /\ \A i \in Task : active'[i] => active[i]
      BY <1>0, <1>5 DEF PageFault, TypeOK
    <2> QED  BY <2>1 DEF SlotInv, SlotsExclusive, CallerSlot, KernelKept
  <1>6. CASE TaskEnd
    <2>1. UNCHANGED <<slot, slotBusy, cur>> /\ \A i \in Task : active'[i] => active[i]
      BY <1>6 DEF TaskEnd, TypeOK
    <2> QED  BY <2>1 DEF SlotInv, SlotsExclusive, CallerSlot
  <1>7. CASE EndSlot
    <2>1. ~active[cur]
      BY <1>7, EndingDead DEF EndStep
    <2>2. UNCHANGED <<slot, active, cur>>
          /\ slotBusy' = [s \in Slot |-> slotBusy[s] /\ s # slot[cur]]
      BY <1>7 DEF EndSlot
    <2> QED  BY <2>1, <2>2 DEF SlotInv, SlotsExclusive, CallerSlot, TypeOK
  <1>8. CASE UNCHANGED <<active, slot, slotBusy, cur>>
    BY <1>8 DEF SlotInv, SlotsExclusive, CallerSlot
  <1> QED
    BY <1>1, <1>3, <1>4, <1>5, <1>6, <1>7, <1>8
       DEF Next, Interrupt, Call, KernelStep, EndStep, vars, NoKill,
           SelectWindow, ToggleLock, EndKey, Wait, SetSchedule, TaskLock,
           WindowOpen, WindowClose, Pause, Resume, Kill, KillDead,
           KernelLock, KernelWindow, KernelUnlock, KernelNever, EndClose, EndNull
LEMMA InitCaller == Init => KernelKept /\ CallerInv
  <1> SUFFICES ASSUME Init PROVE KernelKept /\ CallerInv
    OBVIOUS
  <1>1. 0 \in Task /\ cur = 0 /\ cpu = Boot /\ pids = 2
    BY DEF Init
  <1>2. \A i \in Task : active[i] <=> i = 0
    BY DEF Init
  <1>3. pid[0] = 1 /\ slot[0] = None /\ ~ownWin[0]
    BY <1>1 DEF Init
  <1>4. pc[1] = "entry" /\ \A p \in Pid : p >= 2 => pc[p] = "run"
    BY DEF Init
  <1> QED  BY <1>1, <1>2, <1>3, <1>4 DEF KernelKept, KernelPC, CallerInv, Ending

\* As long as nobody is killed, no program is ever loaded into the slot of
\* another live program, and no live program's slot is taken for free: a
\* program may fault, end or be preempted anywhere in task_end.
THEOREM SlotsExclusiveHolds ==
    NoKill /\ "killdead" \notin Hazards => (Spec => []SlotsExclusive)
  <1> SUFFICES ASSUME NoKill, "killdead" \notin Hazards PROVE Spec => []SlotsExclusive
    OBVIOUS
  <1>1. Init => SlotInv
    <2> SUFFICES ASSUME Init PROVE SlotInv
      OBVIOUS
    <2>1. \A i \in Task : active[i] => i = 0 /\ slot[i] = None
      BY DEF Init
    <2>2. cur = 0 /\ slot[cur] = None
      BY DEF Init
    <2> QED  BY <2>1, <2>2 DEF SlotInv, SlotsExclusive, CallerSlot
  <1>2. TypeOK /\ IdentityInv /\ [Next]_vars => IdentityInv'
    BY NextIdentity DEF NoKill
  <1>3. TypeOK /\ IdentityInv /\ KernelKept /\ CallerInv /\ [Next]_vars
          => KernelKept' /\ CallerInv'
    BY NextKernel, NextCaller
  <1>4. TypeOK /\ IdentityInv /\ KernelKept /\ CallerInv /\ SlotInv /\ [Next]_vars => SlotInv'
    BY NextSlots
  <1>5. SlotInv => SlotsExclusive
    BY DEF SlotInv
  <1> QED
    BY <1>1, <1>2, <1>3, <1>4, <1>5, InitType, InitIdentity, InitCaller, NextType, PTL DEF Spec
-----------------------------------------------------------------------------
CallerWindow ==
    ownWin[cur] /\ win[cur] # None =>
      \A j \in Task : active[j] /\ ownWin[j] /\ win[j] = win[cur] => j = cur
WindowInv == OwnedWindows /\ CallerWindow

LEMMA StartWindows ==
    ASSUME TypeOK, WindowInv, active[cur], UNCHANGED <<cur, winOpen>>,
           NEW s, StartTask(s)
    PROVE  WindowInv'
  <1>1. ASSUME NEW k \in Task, active'[k], ownWin'[k]
        PROVE  active[k] /\ ownWin[k] /\ win'[k] = win[k]
    BY <1>1, StartKeeps, StartNew
  <1>2. cur \in Task /\ active'[cur]
    BY StartKeeps DEF TypeOK
  <1> QED  BY <1>1, <1>2 DEF WindowInv, OwnedWindows, CallerWindow

\* Every step keeps the own windows of the live tasks open and apart.
LEMMA NextWindows ==
    ASSUME NoKill, TypeOK, IdentityInv, KernelKept, CallerInv, WindowInv, [Next]_vars
    PROVE  WindowInv'
  <1> USE DEF table, switch, wins
  <1>0. 0 \in Task /\ cur \in Task
    BY DEF TypeOK
  <1>1. CASE Exec \/ KernelExec \/ StartThread
    <2>1. active[cur] /\ UNCHANGED <<cur, winOpen>> /\ \E s : StartTask(s)
      BY <1>1, StarterLives DEF NoKill, Exec, KernelExec, StartThread, ExecProgram
    <2> QED  BY <2>1, StartWindows
  <1>2. ASSUME NEW act, TaskCallback(act), \A i \in Task : act[i] => active'[i],
               \A i \in Task : act[i] => active[i], OwnedWindows',
               cur' = cur => CallerWindow'
        PROVE  WindowInv'
    <2>1. CASE cur' \in Task /\ act[cur']
      BY <1>2, <2>1 DEF WindowInv, OwnedWindows, CallerWindow
    <2> QED  BY <1>2, <2>1, CallbackCaller DEF WindowInv
  <1>3. CASE Tick \/ Yield
    <2>1. UNCHANGED <<active, win, ownWin, winOpen>>
      BY <1>3 DEF Tick, Yield
    <2>2. OwnedWindows' /\ (cur' = cur => CallerWindow')
      BY <2>1 DEF WindowInv, OwnedWindows, CallerWindow
    <2> QED  BY <1>2, <1>3, <2>1, <2>2 DEF Tick, Yield
  <1>4. CASE Exit
    <2>1. \A i \in Task : active'[i] <=> active[i] /\ i # cur
      BY <1>0, <1>4 DEF Exit, StopTasks, TypeOK
    <2>2. CASE slot[cur] = None
      <3>1. UNCHANGED <<win, ownWin, winOpen>>
        BY <1>0, <1>4, <2>2 DEF Exit, StopTasks, TypeOK
      <3>2. OwnedWindows' /\ (cur' = cur => CallerWindow')
        BY <2>1, <3>1 DEF WindowInv, OwnedWindows, CallerWindow
      <3> QED  BY <1>2, <1>4, <2>1, <3>2 DEF Exit
    <2>3. CASE slot[cur] # None
      <3>1. /\ winOpen' = [w \in Window |-> winOpen[w] /\ ~(win[cur] = w /\ ownWin[cur])]
            /\ \A i \in Task \ {cur} : win'[i] = win[i] /\ ownWin'[i] = ownWin[i]
            /\ win'[cur] = None
        BY <1>0, <1>4, <2>3 DEF Exit, StopTasks, TypeOK
      <3>2. OwnedWindows' /\ (cur' = cur => CallerWindow')
        BY <2>1, <3>1, <1>0 DEF WindowInv, OwnedWindows, CallerWindow, TypeOK
      <3> QED  BY <1>2, <1>4, <2>1, <3>2 DEF Exit
    <2> QED  BY <2>2, <2>3
  <1>5. CASE PageFault
    <2>1. UNCHANGED <<win, ownWin, winOpen>> /\ cur' = 0
          /\ \A i \in Task : active'[i] => active[i]
      BY <1>0, <1>5 DEF PageFault, TypeOK
    <2> QED  BY <2>1 DEF WindowInv, OwnedWindows, CallerWindow, KernelKept
  <1>6. CASE TaskEnd
    <2>1. UNCHANGED <<win, ownWin, winOpen, cur>>
          /\ \A i \in Task : active'[i] => active[i]
      BY <1>6 DEF TaskEnd, TypeOK
    <2> QED  BY <2>1 DEF WindowInv, OwnedWindows, CallerWindow
  <1>7. CASE EndClose \/ EndNull
    <2>1. ~active[cur]
      BY <1>7, EndingDead DEF EndStep
    <2>2. CASE EndClose
      <3>1. UNCHANGED <<active, cur, win, ownWin>>
            /\ winOpen' = [w \in Window |-> winOpen[w] /\ ~(win[cur] = w /\ ownWin[cur])]
        BY <2>2 DEF EndClose
      <3> QED  BY <2>1, <3>1 DEF WindowInv, OwnedWindows, CallerWindow, TypeOK
    <2>3. CASE EndNull
      <3>1. UNCHANGED <<active, cur, winOpen>> /\ win'[cur] = None
            /\ \A i \in Task \ {cur} : win'[i] = win[i] /\ ownWin'[i] = ownWin[i]
        BY <1>0, <2>3 DEF EndNull, TypeOK
      <3> QED  BY <2>1, <3>1 DEF WindowInv, OwnedWindows, CallerWindow
    <2> QED  BY <1>7, <2>2, <2>3
  <1>8. CASE WindowOpen
    <2>1. active[cur] /\ UNCHANGED <<active, cur>>
          /\ \A i \in Task \ {cur} : ownWin'[i] = ownWin[i]
      BY <1>8 DEF WindowOpen, Calling, NoKill, TypeOK
    <2>2. CASE win' = [win EXCEPT ![cur] = None] /\ UNCHANGED winOpen
      BY <1>0, <2>1, <2>2 DEF WindowInv, OwnedWindows, CallerWindow, TypeOK
    <2>3. ASSUME NEW w \in Window, FreeWindow(w), win' = [win EXCEPT ![cur] = w],
                 winOpen' = [winOpen EXCEPT ![w] = TRUE]
          PROVE  WindowInv'
      <3>1. \A i \in Task : active[i] /\ ownWin[i] => win[i] # w
        BY <2>3 DEF FreeWindow, WindowInv, OwnedWindows
      <3>2. /\ win'[cur] = w /\ \A i \in Task \ {cur} : win'[i] = win[i]
            /\ winOpen'[w] /\ \A v \in Window : winOpen[v] => winOpen'[v]
        BY <1>0, <2>3 DEF TypeOK
      <3>3. OwnedWindows'
        <4>1. ASSUME NEW i \in Task \ {cur}, active[i], ownWin[i], win[i] # None
              PROVE  win[i] # w /\ winOpen'[win[i]]
          BY <3>1, <3>2, <4>1 DEF WindowInv, OwnedWindows, TypeOK
        <4> QED  BY <2>1, <3>2, <4>1 DEF WindowInv, OwnedWindows
      <3> QED  BY <2>1, <3>3, <1>0 DEF WindowInv, OwnedWindows, CallerWindow
    <2> QED  BY <1>8, <2>2, <2>3 DEF WindowOpen, OpenWindow
  <1>9. CASE WindowClose
    <2>1. active[cur] /\ ownWin[cur] /\ win[cur] # None /\ UNCHANGED <<active, cur, ownWin>>
      BY <1>9 DEF WindowClose, Calling, NoKill
    <2>2. /\ win'[cur] = None /\ \A i \in Task \ {cur} : win'[i] = win[i]
          /\ \A v \in Window : v # win[cur] => winOpen'[v] = winOpen[v]
      BY <1>0, <1>9 DEF WindowClose, TypeOK
    <2>3. ASSUME NEW i \in Task \ {cur}, active[i], ownWin[i], win[i] # None
          PROVE  winOpen'[win[i]]
      BY <1>0, <2>1, <2>2, <2>3 DEF WindowInv, OwnedWindows, TypeOK
    <2>4. OwnedWindows'
      BY <2>1, <2>2, <2>3 DEF WindowInv, OwnedWindows
    <2> QED  BY <2>1, <2>2, <2>4 DEF WindowInv, CallerWindow
  <1>10. CASE KernelWindow
    <2>1. cur = 0 /\ UNCHANGED <<active, cur, ownWin>>
      <3>1. cpu \in Pid /\ pc[cpu] = "window"
        BY <1>10 DEF KernelWindow, At, TypeOK
      <3> QED  BY <1>10, <3>1 DEF KernelWindow, IdentityInv, BootInv, KernelPC
    <2>2. CASE win' = [win EXCEPT ![cur] = None] /\ UNCHANGED winOpen
      BY <1>0, <2>1, <2>2 DEF WindowInv, OwnedWindows, CallerWindow, KernelKept, TypeOK
    <2>3. ASSUME NEW w \in Window, win' = [win EXCEPT ![cur] = w],
                 winOpen' = [winOpen EXCEPT ![w] = TRUE]
          PROVE  WindowInv'
      BY <1>0, <2>1, <2>3 DEF WindowInv, OwnedWindows, CallerWindow, KernelKept, TypeOK
    <2> QED  BY <1>10, <2>2, <2>3 DEF KernelWindow, OpenWindow
  <1>11. CASE UNCHANGED <<active, win, ownWin, winOpen, cur>>
    BY <1>11 DEF WindowInv, OwnedWindows, CallerWindow
  <1> QED
    BY <1>1, <1>3, <1>4, <1>5, <1>6, <1>7, <1>8, <1>9, <1>10, <1>11
       DEF Next, Interrupt, Call, KernelStep, EndStep, vars, NoKill,
           SelectWindow, ToggleLock, EndKey, Wait, SetSchedule, TaskLock,
           Pause, Resume, Kill, KillDead, KernelLock, KernelUnlock, KernelNever, EndSlot

\* As long as nobody is killed, the window a live task opened for itself stays
\* open and is nobody else's, whatever opens, closes, faults and ends.
THEOREM OwnedWindowsHolds == NoKill => (Spec => []OwnedWindows)
  <1> SUFFICES ASSUME NoKill PROVE Spec => []OwnedWindows
    OBVIOUS
  <1>1. Init => WindowInv
    <2> SUFFICES ASSUME Init PROVE WindowInv
      OBVIOUS
    <2>1. \A i \in Task : ~ownWin[i]
      BY DEF Init
    <2>2. cur \in Task
      BY DEF Init
    <2> QED  BY <2>1, <2>2 DEF WindowInv, OwnedWindows, CallerWindow
  <1>2. TypeOK /\ IdentityInv /\ [Next]_vars => IdentityInv'
    BY NextIdentity DEF NoKill
  <1>3. TypeOK /\ IdentityInv /\ KernelKept /\ CallerInv /\ [Next]_vars
          => KernelKept' /\ CallerInv'
    BY NextKernel, NextCaller
  <1>4. TypeOK /\ IdentityInv /\ KernelKept /\ CallerInv /\ WindowInv /\ [Next]_vars
          => WindowInv'
    BY NextWindows
  <1>5. WindowInv => OwnedWindows
    BY DEF WindowInv
  <1> QED
    BY <1>1, <1>2, <1>3, <1>4, <1>5, InitType, InitIdentity, InitCaller, NextType, PTL DEF Spec
=============================================================================
