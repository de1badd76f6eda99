-------------------------------- MODULE Proc --------------------------------
(***************************************************************************)
(* The process control file (drivers/proc.c) and the program that uses it  *)
(* (utils/task): a request is one write, its answer one read, and between  *)
(* them the request lies in a short queue under the index of the task that *)
(* wrote it.  Any number of these programs run at a time, and each may be  *)
(* stopped between any two calls; the calls themselves run with interrupts *)
(* off.                                                                    *)
(***************************************************************************)
EXTENDS Integers, Sequences, FiniteSets

CONSTANTS
    MaxTask,   \* the last task slot; slot 0 is the desktop's and never ends
    MaxPid,    \* bound: the last pid that is given out
    QueueLen   \* PROC_queue_len

\* What is assumed of the constants: see ProcAssumption in module Devices.

Tasks == 0 .. MaxTask
Users == 1 .. MaxTask
Pids == 0 .. MaxPid
Nobody == -1
Count == [cmd |-> "count", task |-> 0]
Get(i) == [cmd |-> "get", task |-> i]
Requests == {Count} \cup {Get(i) : i \in Tasks}
Schedules == {"ALWAYS", "NEVER"}

VARIABLES
    active, pid, sched,  \* the table of tasks
    nextpid,             \* the pid to come
    queue,               \* proc_queue, each entry with the pid that wrote it
    tool,                \* the program that runs in a task
    orphaned,            \* history: a task has ended with its request in the queue
    last                 \* history: of the last step, who asked and who got the
                         \* answer, or which pid was named and which was hit

table == <<active, pid, sched, nextpid>>
vars == <<table, queue, tool, orphaned, last>>

Free == [open |-> TRUE, requestor |-> Nobody, by |-> Nobody, req |-> Count]
None == [kind |-> "none", a |-> 0, b |-> 0]
Answer(by, to) == [kind |-> "answer", a |-> by, b |-> to]
Scheduled(how, named, hit) == [kind |-> how, a |-> named, b |-> hit]
Idle == [pc |-> "count", n |-> 0, list |-> <<>>]
Waits(s) == active[s] /\ tool[s].pc \in {"counted", "asked"}

TypeOK ==
    /\ active \in [Tasks -> BOOLEAN] /\ pid \in [Tasks -> Pids] /\ sched \in [Tasks -> Schedules]
    /\ nextpid \in 0 .. MaxPid + 1
    /\ queue \in [1 .. QueueLen ->
         [open : BOOLEAN, requestor : Tasks \cup {Nobody}, by : Pids \cup {Nobody}, req : Requests]]
    /\ \A s \in Tasks :
         /\ tool[s].pc \in {"count", "counted", "ask", "asked", "act", "done"}
         /\ tool[s].n \in 0 .. MaxTask + 1 /\ tool[s].list \in Seq(Pids)
         /\ Len(tool[s].list) <= MaxTask + 1
    /\ orphaned \in BOOLEAN
    /\ last \in [kind : {"none", "answer", "command", "click"}, a : Pids, b : Pids \cup {Nobody}]

Init ==
    /\ active = [s \in Tasks |-> s = 0] /\ pid = [s \in Tasks |-> 0]
    /\ sched = [s \in Tasks |-> "ALWAYS"] /\ nextpid = 1
    /\ queue = [e \in 1 .. QueueLen |-> Free] /\ tool = [s \in Tasks |-> Idle]
    /\ orphaned = FALSE /\ last = None
-----------------------------------------------------------------------------
(* Tasks come and go.                                                      *)

Start(s) ==
    /\ nextpid <= MaxPid /\ ~active[s] /\ \A r \in Tasks : r < s => active[r]
    /\ active' = [active EXCEPT ![s] = TRUE]
    /\ pid' = [pid EXCEPT ![s] = nextpid] /\ nextpid' = nextpid + 1
    /\ sched' = [sched EXCEPT ![s] = "ALWAYS"]
    /\ tool' = [tool EXCEPT ![s] = Idle]
    /\ last' = None /\ UNCHANGED <<queue, orphaned>>

\* It has come to its end or is stopped: nobody looks at the queue.
End(s) ==
    /\ active[s] /\ active' = [active EXCEPT ![s] = FALSE]
    /\ orphaned' = (orphaned \/ Waits(s))
    /\ last' = None /\ UNCHANGED <<pid, sched, nextpid, queue, tool>>
-----------------------------------------------------------------------------
(* proc_task_write_callback and proc_task_read_callback.                   *)

Last(E) == CHOOSE e \in E : \A f \in E : f <= e
OpenEntries == {e \in 1 .. QueueLen : queue[e].open}
Matching(s) == {e \in 1 .. QueueLen : ~queue[e].open /\ queue[e].requestor = s}

\* A request that finds no entry is refused, which the program does not see.
Write(s, req) ==
    IF OpenEntries = {} THEN UNCHANGED queue
    ELSE queue' = [queue EXCEPT ![Last(OpenEntries)] =
           [open |-> FALSE, requestor |-> s, by |-> pid[s], req |-> req]]

Counted == Cardinality({r \in Tasks : active[r]})

\* The entry is free again before it is answered.
ReleasedM(e) == [queue[e] EXCEPT !.requestor = Nobody]  \* mutant: the entry stays in use
Released(e) == Free
Asked(s) == queue[Last(Matching(s))].req
Read(s) ==
    LET e == Last(Matching(s)) IN
    /\ queue' = [queue EXCEPT ![e] = Released(e)]
    /\ last' = Answer(queue[e].by, pid[s])
-----------------------------------------------------------------------------
(* utils/task: updateTaskContext, then pause_task or resume_task.          *)

Runs(s, pc) == active[s] /\ sched[s] = "ALWAYS" /\ tool[s].pc = pc
Set(s, t) == tool' = [tool EXCEPT ![s] = t]
Listed(n, list) == [pc |-> IF Len(list) < n THEN "ask" ELSE "act", n |-> n, list |-> list]

AskCount(s) ==
    /\ Runs(s, "count") /\ Write(s, Count) /\ Set(s, [tool[s] EXCEPT !.pc = "counted"])
    /\ last' = None /\ UNCHANGED <<table, orphaned>>

\* Without an answer n_tasks is what the stack held; the answer to a request
\* for a task begins with the command, which is 1.
ReadCount(s) ==
    /\ Runs(s, "counted")
    /\ IF Matching(s) = {} THEN UNCHANGED queue /\ last' = None ELSE Read(s)
    /\ \E n \in 0 .. MaxTask + 1 :
         /\ Matching(s) # {} => n = IF Asked(s) = Count THEN Counted ELSE 1
         /\ Set(s, Listed(n, <<>>))
    /\ UNCHANGED <<table, orphaned>>

AskTask(s) ==
    /\ Runs(s, "ask")
    /\ Write(s, Get(Len(tool[s].list))) /\ Set(s, [tool[s] EXCEPT !.pc = "asked"])
    /\ last' = None /\ UNCHANGED <<table, orphaned>>

ReadTask(s) ==
    /\ Runs(s, "asked")
    /\ IF Matching(s) = {} THEN UNCHANGED queue /\ last' = None ELSE Read(s)
    /\ \E p \in Pids :
         /\ Matching(s) # {} /\ Asked(s).cmd = "get" => p = pid[Asked(s).task]
         /\ Set(s, Listed(tool[s].n, Append(tool[s].list, p)))
    /\ UNCHANGED <<table, orphaned>>

\* From the command line: the program looks for a pid in what it has listed
\* and writes that number, which proc.c takes for an index; then it ends.
Command(s) ==
    /\ Runs(s, "act")
    /\ \E i \in 1 .. Len(tool[s].list), type \in Schedules :
         LET p == tool[s].list[i] IN
         /\ sched' = IF p \in Tasks THEN [sched EXCEPT ![p] = type] ELSE sched
         /\ last' = Scheduled("command", p, IF p \in Tasks THEN pid[p] ELSE Nobody)
    /\ Set(s, [Idle EXCEPT !.pc = "done"])
    /\ UNCHANGED <<active, pid, nextpid, queue, orphaned>>

\* From its window: the index of the line that is clicked.  (The window stays;
\* one click for each program is the bound.)
Click(s) ==
    /\ Runs(s, "act")
    /\ \E i \in 1 .. Len(tool[s].list), type \in Schedules :
         /\ sched' = [sched EXCEPT ![i - 1] = type]
         /\ last' = Scheduled("click", tool[s].list[i], pid[i - 1])
    /\ Set(s, [Idle EXCEPT !.pc = "done"])
    /\ UNCHANGED <<active, pid, nextpid, queue, orphaned>>

Next ==
    \E s \in Users :
      \/ Start(s) \/ End(s)
      \/ AskCount(s) \/ ReadCount(s) \/ AskTask(s) \/ ReadTask(s)
      \/ Command(s) \/ Click(s)
Spec == Init /\ [][Next]_vars
-----------------------------------------------------------------------------
(* Properties.                                                             *)

\* "PROC remembers caller ID, gives appropriate response on next read based
\* on reader id": an answer goes to the task that asked, unless one has ended
\* with its request in the queue: the next task in its slot may get that.
OwnAnswer == ~orphaned /\ last.kind = "answer" => last.a = last.b

\* As long as no task has ended so, the entries that are in use are those of
\* tasks that wait for an answer, one each: what stays in use is answered yet.
\* None is refused when there are no more programs than entries (the code has
\* 30 tasks and 10 entries, so that an eleventh that asks may get no answer).
HeldIsAwaited ==
    orphaned \/
      /\ \A e \in 1 .. QueueLen : ~queue[e].open =>
           queue[e].requestor \in Tasks /\ Waits(queue[e].requestor)
      /\ \A s \in Tasks : \A e, f \in Matching(s) : e = f
      /\ MaxTask <= QueueLen => \A s \in Tasks : Waits(s) => Matching(s) # {}

\* So an entry in use and a task that waits for its answer go together.
QueueServes == OwnAnswer /\ HeldIsAwaited

\* "Pausing %d": the task that is paused or resumed is the one whose pid the
\* user has named.
PauseHits == last.kind = "command" => last.a = last.b
=============================================================================
