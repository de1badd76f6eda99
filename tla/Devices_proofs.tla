--------------------------- MODULE Devices_proofs ---------------------------
(***************************************************************************)
(* Theorems about the components that Devices puts side by side.  Each     *)
(* invariant is one of the component's own state, so that the steps of the *)
(* other five leave it alone.                                              *)
(***************************************************************************)
EXTENDS Devices, Sequences, SequenceTheorems, FiniteSetTheorems, WellFoundedInduction, TLAPS

-----------------------------------------------------------------------------
(* The process file: answers go to who asked, and the queue is not filled  *)
(* by requests that nobody waits for.                                      *)

ProcTasks == 0 .. MaxTask
ProcUsers == 1 .. MaxTask
ProcEntries == 1 .. QueueLen
ProcEntry ==
    [open : BOOLEAN, requestor : ProcTasks \cup {-1}, by : 0 .. MaxPid \cup {-1},
     req : [cmd : {"count", "get"}, task : Nat]]
ProcTool ==
    [pc : {"count", "counted", "ask", "asked", "act", "done"},
     n : 0 .. MaxTask + 1, list : Seq(0 .. MaxPid)]
Waiting(s) == active[s] /\ tool[s].pc \in {"counted", "asked"}

\* The task of slot 0 is not one of these programs.
ProcShape ==
    /\ active \in [ProcTasks -> BOOLEAN] /\ pid \in [ProcTasks -> 0 .. MaxPid]
    /\ nextpid \in Nat /\ orphaned \in BOOLEAN
    /\ queue \in [ProcEntries -> ProcEntry]
    /\ tool \in [ProcTasks -> ProcTool] /\ ~Waiting(0)

\* What is held for a task that waits was asked by the program that is in the
\* task now.
HeldByAsker ==
    \A e \in ProcEntries : ~queue[e].open =>
      LET s == queue[e].requestor IN
      s \in ProcTasks /\ Waiting(s) /\ queue[e].by = pid[s]
OneEach ==
    \A e, f \in ProcEntries :
      ~queue[e].open /\ ~queue[f].open /\ queue[e].requestor = queue[f].requestor => e = f
HasEntry ==
    MaxTask <= QueueLen =>
      \A s \in ProcTasks : Waiting(s) =>
        \E e \in ProcEntries : ~queue[e].open /\ queue[e].requestor = s
Served == HeldByAsker /\ OneEach /\ HasEntry
ProcInv == ProcShape /\ ProcPart!OwnAnswer /\ (orphaned \/ Served)

\* The last entry of a set that is not empty is in the set.
LEMMA LastFound ==
    ASSUME NEW E \in SUBSET ProcEntries, E # {}
    PROVE  ProcPart!Last(E) \in E
  <1> DEFINE less == {ss \in Nat \X Nat : ss[1] < ss[2]}
             S == {n \in Nat : QueueLen - n \in E}
  <1>0. QueueLen \in Nat
    BY ProcAssumption
  <1>1. IsWellFoundedOn(less, Nat)
    BY NatLessThanWellFounded DEF OpToRel
  <1>2. S # {}
    <2>1. PICK e \in E : e \in 1 .. QueueLen
      BY DEF ProcEntries
    <2>2. QueueLen - e \in Nat /\ QueueLen - (QueueLen - e) = e
      BY <1>0, <2>1
    <2>3. QueueLen - e \in S
      BY <2>1, <2>2
    <2> QED  BY <2>3
  <1>3. PICK x \in S : \A y \in S : ~(<<y, x>> \in less)
    <2>1. S \subseteq Nat
      OBVIOUS
    <2> HIDE DEF less, S
    <2> QED  BY <1>1, <1>2, <2>1, WFMin
  <1>4. ASSUME NEW f \in E PROVE f <= QueueLen - x
    <2>1. f \in 1 .. QueueLen
      BY DEF ProcEntries
    <2>2. QueueLen - f \in Nat /\ QueueLen - (QueueLen - f) = f
      BY <1>0, <2>1
    <2>3. QueueLen - f \in S
      BY <2>2
    <2>4. ~(QueueLen - f < x)
      BY <1>3, <2>2, <2>3
    <2> QED  BY <1>0, <2>1, <2>4
  <1> QED  BY <1>4 DEF ProcPart!Last

\* While a task does not wait, there is an entry for it, if there are as many
\* entries as programs.
LEMMA EntryIsOpen ==
    ASSUME ProcShape, HeldByAsker, OneEach, MaxTask <= QueueLen,
           NEW s \in ProcUsers, ~Waiting(s)
    PROVE  \E e \in ProcEntries : queue[e].open
  <1> SUFFICES ASSUME \A e \in ProcEntries : ~queue[e].open PROVE FALSE
    OBVIOUS
  <1> DEFINE f == [e \in ProcEntries |-> queue[e].requestor]
             T == ProcUsers \ {s}
  <1>1. f \in [ProcEntries -> T]
    <2>1. ASSUME NEW e \in ProcEntries PROVE queue[e].requestor \in T
      <3>1. queue[e].requestor \in ProcTasks /\ Waiting(queue[e].requestor)
        BY DEF HeldByAsker
      <3>2. queue[e].requestor # 0 /\ queue[e].requestor # s
        BY <3>1 DEF ProcShape
      <3> QED  BY <3>1, <3>2, ProcAssumption DEF ProcTasks, ProcUsers
    <2> QED  BY <2>1
  <1>2. IsFiniteSet(T) /\ Cardinality(T) = MaxTask - 1
    <2>1. IsFiniteSet(ProcUsers) /\ Cardinality(ProcUsers) = MaxTask
      BY FS_Interval, ProcAssumption DEF ProcUsers
    <2> QED  BY <2>1, FS_RemoveElement
  <1>3. IsFiniteSet(ProcEntries) /\ Cardinality(ProcEntries) = QueueLen
    BY FS_Interval, ProcAssumption DEF ProcEntries
  <1>4. Cardinality(T) < Cardinality(ProcEntries)
    BY <1>2, <1>3, ProcAssumption
  <1>5. \E x, y \in ProcEntries : x # y /\ f[x] = f[y]
    <2> HIDE DEF f, T
    <2> QED  BY <1>1, <1>2, <1>3, <1>4, FS_PigeonHole
  <1> QED  BY <1>5 DEF OneEach

LEMMA IdleTool == ProcPart!Idle \in ProcTool /\ ProcPart!Idle.pc = "count"
  <1>1. <<>> \in Seq(0 .. MaxPid) /\ 0 \in 0 .. MaxTask + 1
    BY ProcAssumption
  <1> QED  BY <1>1 DEF ProcPart!Idle, ProcTool

\* A request that is written.
LEMMA WriteServes ==
    ASSUME ProcInv, NEW s \in ProcUsers, active[s], ~Waiting(s),
           NEW req \in [cmd : {"count", "get"}, task : Nat], ProcPart!Write(s, req),
           NEW t \in ProcTool, t.pc \in {"counted", "asked"}, tool' = [tool EXCEPT ![s] = t],
           UNCHANGED <<active, pid, nextpid, orphaned>>, last' = ProcPart!None
    PROVE  ProcInv'
  <1>1. s \in ProcTasks /\ s # 0
    BY ProcAssumption DEF ProcTasks, ProcUsers
  <1>2. /\ Waiting(s)' /\ \A u \in ProcTasks \ {s} : Waiting(u)' = Waiting(u)
        /\ tool' \in [ProcTasks -> ProcTool] /\ ~Waiting(0)'
    BY <1>1 DEF ProcInv, ProcShape, Waiting, ProcTasks
  <1>3. ProcPart!OwnAnswer'
    BY DEF ProcPart!OwnAnswer, ProcPart!None
  <1>4. CASE ProcPart!OpenEntries = {}
    <2>1. queue' = queue /\ \A e \in ProcEntries : ~queue[e].open
      BY <1>4 DEF ProcPart!Write, ProcPart!OpenEntries, ProcEntries
    <2>2. ASSUME Served PROVE Served'
      <3>1. ~(MaxTask <= QueueLen)
        BY <2>1, <2>2, EntryIsOpen DEF Served, ProcInv
      <3>2. HeldByAsker' /\ OneEach'
        BY <1>2, <2>1, <2>2 DEF Served, HeldByAsker, OneEach
      <3> QED  BY <3>1, <3>2 DEF Served, HasEntry
    <2> QED  BY <1>2, <1>3, <2>1, <2>2 DEF ProcInv, ProcShape
  <1>5. CASE ProcPart!OpenEntries # {}
    <2> DEFINE new == [open |-> FALSE, requestor |-> s, by |-> pid[s], req |-> req]
    <2>1. PICK i \in ProcEntries : queue[i].open /\ queue' = [queue EXCEPT ![i] = new]
      <3>1. ProcPart!Last(ProcPart!OpenEntries) \in ProcPart!OpenEntries
        BY <1>5, LastFound DEF ProcPart!OpenEntries, ProcEntries
      <3> QED  BY <1>5, <3>1 DEF ProcPart!Write, ProcPart!OpenEntries, ProcEntries
    <2>2. new \in ProcEntry
      BY <1>1 DEF ProcEntry, ProcInv, ProcShape
    <2>3. /\ queue' \in [ProcEntries -> ProcEntry] /\ queue'[i] = new
          /\ \A e \in ProcEntries \ {i} : queue'[e] = queue[e]
      BY <2>1, <2>2 DEF ProcInv, ProcShape
    <2>4. ~new.open /\ new.requestor = s /\ new.by = pid[s]
      OBVIOUS
    <2> HIDE DEF new
    <2>5. ASSUME Served PROVE Served'
      <3>1. \A e \in ProcEntries : ~queue[e].open => queue[e].requestor # s
        BY <2>5 DEF Served, HeldByAsker
      <3>2. HeldByAsker'
        BY <1>1, <1>2, <2>3, <2>4, <2>5, <3>1 DEF Served, HeldByAsker
      <3>3. OneEach'
        BY <2>3, <2>4, <2>5, <3>1 DEF Served, OneEach
      <3>4. HasEntry'
        BY <1>2, <2>1, <2>3, <2>4, <2>5 DEF Served, HasEntry
      <3> QED  BY <3>2, <3>3, <3>4 DEF Served
    <2> QED  BY <1>2, <1>3, <2>3, <2>5 DEF ProcInv, ProcShape
  <1> QED  BY <1>4, <1>5

\* An answer that is read, or none.
LEMMA ReadServes ==
    ASSUME ProcInv, NEW s \in ProcUsers, Waiting(s),
           IF ProcPart!Matching(s) = {} THEN queue' = queue /\ last' = ProcPart!None
                                        ELSE ProcPart!Read(s),
           NEW t \in ProcTool, t.pc \notin {"counted", "asked"}, tool' = [tool EXCEPT ![s] = t],
           UNCHANGED <<active, pid, nextpid, orphaned>>
    PROVE  ProcInv'
  <1>1. s \in ProcTasks /\ s # 0
    BY ProcAssumption DEF ProcTasks, ProcUsers
  <1>2. /\ ~Waiting(s)' /\ \A u \in ProcTasks \ {s} : Waiting(u)' = Waiting(u)
        /\ tool' \in [ProcTasks -> ProcTool] /\ ~Waiting(0)'
    BY <1>1 DEF ProcInv, ProcShape, Waiting, ProcTasks
  <1>3. CASE ProcPart!Matching(s) = {}
    <2>1. queue' = queue /\ ProcPart!OwnAnswer'
      BY <1>3 DEF ProcPart!OwnAnswer, ProcPart!None
    <2>2. \A e \in ProcEntries : ~queue[e].open => queue[e].requestor # s
      BY <1>3 DEF ProcPart!Matching, ProcEntries
    <2>3. ASSUME Served PROVE Served'
      <3>1. HeldByAsker' /\ OneEach'
        BY <1>2, <2>1, <2>2, <2>3 DEF Served, HeldByAsker, OneEach
      <3>2. HasEntry'
        BY <1>2, <2>1, <2>3 DEF Served, HasEntry
      <3> QED  BY <3>1, <3>2 DEF Served
    <2> QED  BY <1>2, <2>1, <2>3 DEF ProcInv, ProcShape
  <1>4. CASE ProcPart!Matching(s) # {}
    <2>1. PICK i \in ProcEntries :
            /\ ~queue[i].open /\ queue[i].requestor = s
            /\ queue' = [queue EXCEPT ![i] = ProcPart!Free]
            /\ last' = ProcPart!Answer(queue[i].by, pid[s])
      <3>1. ProcPart!Last(ProcPart!Matching(s)) \in ProcPart!Matching(s)
        BY <1>4, LastFound DEF ProcPart!Matching, ProcEntries
      <3> QED  BY <1>4, <3>1 DEF ProcPart!Read, ProcPart!Released, ProcPart!Matching, ProcEntries
    <2>2. ProcPart!Free \in ProcEntry /\ ProcPart!Free.open
      BY DEF ProcPart!Free, ProcPart!Nobody, ProcPart!Count, ProcEntry
    <2>3. /\ queue' \in [ProcEntries -> ProcEntry] /\ queue'[i].open
          /\ \A e \in ProcEntries \ {i} : queue'[e] = queue[e]
      BY <2>1, <2>2 DEF ProcInv, ProcShape
    <2>4. ASSUME Served PROVE Served' /\ queue[i].by = pid[s]
      <3>1. queue[i].by = pid[s]
        BY <2>1, <2>4 DEF Served, HeldByAsker
      <3>2. \A e \in ProcEntries : ~queue'[e].open =>
              e # i /\ queue'[e] = queue[e] /\ queue[e].requestor # s
        BY <2>1, <2>3, <2>4 DEF Served, OneEach
      <3>3. HeldByAsker'
        BY <1>2, <2>4, <3>2 DEF Served, HeldByAsker
      <3>4. OneEach'
        BY <2>4, <3>2 DEF Served, OneEach
      <3>5. HasEntry'
        BY <1>2, <2>1, <2>3, <2>4 DEF Served, HasEntry
      <3> QED  BY <3>1, <3>3, <3>4, <3>5 DEF Served
    <2>5. ProcPart!OwnAnswer'
      BY <2>1, <2>4 DEF ProcInv, ProcPart!OwnAnswer, ProcPart!Answer
    <2> QED  BY <1>2, <2>3, <2>4, <2>5 DEF ProcInv, ProcShape
  <1> QED  BY <1>3, <1>4

\* The step of a task that starts: it is no one the queue knows.
LEMMA StartServes ==
    ASSUME ProcInv, NEW s \in ProcUsers, ProcPart!Start(s)
    PROVE  ProcInv'
  <1>1. s \in ProcTasks /\ s # 0
    BY ProcAssumption DEF ProcTasks, ProcUsers
  <1>2. /\ ~active[s] /\ nextpid \in 0 .. MaxPid
        /\ active' = [active EXCEPT ![s] = TRUE] /\ pid' = [pid EXCEPT ![s] = nextpid]
        /\ nextpid' = nextpid + 1 /\ tool' = [tool EXCEPT ![s] = ProcPart!Idle]
        /\ last' = ProcPart!None /\ queue' = queue /\ orphaned' = orphaned
    BY ProcAssumption DEF ProcInv, ProcShape, ProcPart!Start
  <1>3. ProcPart!Idle \in ProcTool /\ ProcPart!Idle.pc = "count"
    BY IdleTool
  <1>4. /\ ~Waiting(s) /\ ~Waiting(s)' /\ ~Waiting(0)'
        /\ \A u \in ProcTasks \ {s} : Waiting(u)' = Waiting(u) /\ pid'[u] = pid[u]
        /\ tool' \in [ProcTasks -> ProcTool]
    BY <1>1, <1>2, <1>3 DEF ProcInv, ProcShape, Waiting, ProcTasks
  <1>5. ASSUME Served PROVE Served'
    BY <1>2, <1>4, <1>5 DEF Served, HeldByAsker, OneEach, HasEntry
  <1>6. ProcShape'
    BY <1>1, <1>2, <1>4 DEF ProcInv, ProcShape
  <1> QED  BY <1>2, <1>5, <1>6 DEF ProcInv, ProcPart!OwnAnswer, ProcPart!None

\* One that ends while its request is held is marked.
LEMMA EndServes ==
    ASSUME ProcInv, NEW s \in ProcUsers, ProcPart!End(s)
    PROVE  ProcInv'
  <1>1. s \in ProcTasks /\ s # 0
    BY ProcAssumption DEF ProcTasks, ProcUsers
  <1>2. /\ active' = [active EXCEPT ![s] = FALSE] /\ orphaned' = (orphaned \/ Waiting(s))
        /\ last' = ProcPart!None /\ UNCHANGED <<pid, nextpid, queue, tool>>
    BY DEF ProcPart!End, ProcPart!Waits, Waiting
  <1>3. /\ ~Waiting(s)' /\ ~Waiting(0)'
        /\ \A u \in ProcTasks \ {s} : Waiting(u)' = Waiting(u)
    BY <1>1, <1>2 DEF ProcInv, ProcShape, Waiting, ProcTasks
  <1>4. ASSUME Served, ~orphaned' PROVE Served'
    <2>1. \A u \in ProcTasks : Waiting(u)' = Waiting(u)
      BY <1>2, <1>3, <1>4 DEF Waiting
    <2>2. HeldByAsker' /\ OneEach'
      BY <1>2, <1>4, <2>1 DEF Served, HeldByAsker, OneEach
    <2>3. HasEntry'
      BY <1>2, <1>4, <2>1 DEF Served, HasEntry
    <2> QED  BY <2>2, <2>3 DEF Served
  <1>5. orphaned' \in BOOLEAN
    BY <1>2 DEF Waiting
  <1>6. ProcShape'
    BY <1>1, <1>2, <1>3, <1>5 DEF ProcInv, ProcShape
  <1> QED  BY <1>2, <1>4, <1>6 DEF ProcInv, ProcPart!OwnAnswer, ProcPart!None

\* A command or a click asks for nothing.
LEMMA ActServes ==
    ASSUME ProcInv, NEW s \in ProcUsers, ProcPart!Command(s) \/ ProcPart!Click(s)
    PROVE  ProcInv'
  <1>1. s \in ProcTasks /\ s # 0
    BY ProcAssumption DEF ProcTasks, ProcUsers
  <1>2. /\ tool[s].pc = "act" /\ tool' = [tool EXCEPT ![s] = [ProcPart!Idle EXCEPT !.pc = "done"]]
        /\ last'.kind # "answer" /\ UNCHANGED <<active, pid, nextpid, queue, orphaned>>
    BY DEF ProcPart!Command, ProcPart!Click, ProcPart!Runs, ProcPart!Set, ProcPart!Scheduled
  <1>3. /\ [ProcPart!Idle EXCEPT !.pc = "done"] \in ProcTool
        /\ [ProcPart!Idle EXCEPT !.pc = "done"].pc = "done"
    BY IdleTool DEF ProcTool
  <1>4. /\ \A u \in ProcTasks : Waiting(u)' = Waiting(u)
        /\ tool' \in [ProcTasks -> ProcTool] /\ ~Waiting(0)'
    BY <1>1, <1>2, <1>3 DEF ProcInv, ProcShape, Waiting, ProcTasks
  <1>5. ASSUME Served PROVE Served'
    BY <1>2, <1>4, <1>5 DEF Served, HeldByAsker, OneEach, HasEntry
  <1> QED  BY <1>2, <1>4, <1>5 DEF ProcInv, ProcShape, ProcPart!OwnAnswer

\* Every step of the component.
LEMMA ProcServes ==
    ASSUME ProcInv, ProcPart!Next
    PROVE  ProcInv'
  <1>1. PICK s \in ProcUsers :
          \/ ProcPart!Start(s) \/ ProcPart!End(s)
          \/ ProcPart!AskCount(s) \/ ProcPart!ReadCount(s)
          \/ ProcPart!AskTask(s) \/ ProcPart!ReadTask(s)
          \/ ProcPart!Command(s) \/ ProcPart!Click(s)
    BY DEF ProcPart!Next, ProcPart!Users, ProcUsers
  <1>2. tool[s] \in ProcTool /\ s \in ProcTasks
    <2>1. s \in ProcTasks
      BY ProcAssumption DEF ProcTasks, ProcUsers
    <2> QED  BY <2>1 DEF ProcInv, ProcShape
  <1>3. CASE ProcPart!AskCount(s)
    <2> DEFINE t == [tool[s] EXCEPT !.pc = "counted"]
    <2>1. t \in ProcTool /\ t.pc = "counted"
      BY <1>2 DEF ProcTool
    <2>2. ProcPart!Count \in [cmd : {"count", "get"}, task : Nat]
      BY DEF ProcPart!Count
    <2>3. /\ active[s] /\ ~Waiting(s) /\ ProcPart!Write(s, ProcPart!Count)
          /\ tool' = [tool EXCEPT ![s] = t] /\ last' = ProcPart!None
          /\ UNCHANGED <<active, pid, nextpid, orphaned>>
      BY <1>3 DEF ProcPart!AskCount, ProcPart!Runs, ProcPart!Set, ProcPart!table, Waiting
    <2> HIDE DEF t
    <2> QED  BY <2>1, <2>2, <2>3, WriteServes
  <1>4. CASE ProcPart!AskTask(s)
    <2> DEFINE t == [tool[s] EXCEPT !.pc = "asked"]
               req == ProcPart!Get(Len(tool[s].list))
    <2>1. t \in ProcTool /\ t.pc = "asked"
      BY <1>2 DEF ProcTool
    <2>2. req \in [cmd : {"count", "get"}, task : Nat]
      <3>1. Len(tool[s].list) \in Nat
        BY <1>2 DEF ProcTool
      <3> QED  BY <3>1 DEF ProcPart!Get
    <2>3. /\ active[s] /\ ~Waiting(s) /\ ProcPart!Write(s, req)
          /\ tool' = [tool EXCEPT ![s] = t] /\ last' = ProcPart!None
          /\ UNCHANGED <<active, pid, nextpid, orphaned>>
      BY <1>4 DEF ProcPart!AskTask, ProcPart!Runs, ProcPart!Set, ProcPart!table, Waiting
    <2> HIDE DEF t, req
    <2> QED  BY <2>1, <2>2, <2>3, WriteServes
  <1>5. ASSUME NEW n \in 0 .. MaxTask + 1, NEW list \in Seq(0 .. MaxPid)
        PROVE  /\ ProcPart!Listed(n, list) \in ProcTool
               /\ ProcPart!Listed(n, list).pc \notin {"counted", "asked"}
    BY DEF ProcPart!Listed, ProcTool
  <1>6. CASE ProcPart!ReadCount(s)
    <2>1. PICK n \in 0 .. MaxTask + 1 : tool' = [tool EXCEPT ![s] = ProcPart!Listed(n, <<>>)]
      BY <1>6 DEF ProcPart!ReadCount, ProcPart!Set
    <2>2. /\ ProcPart!Listed(n, <<>>) \in ProcTool
          /\ ProcPart!Listed(n, <<>>).pc \notin {"counted", "asked"}
      <3>1. <<>> \in Seq(0 .. MaxPid)
        OBVIOUS
      <3> QED  BY <1>5, <3>1
    <2>3. /\ Waiting(s) /\ UNCHANGED <<active, pid, nextpid, orphaned>>
          /\ IF ProcPart!Matching(s) = {} THEN queue' = queue /\ last' = ProcPart!None
                                          ELSE ProcPart!Read(s)
      BY <1>6 DEF ProcPart!ReadCount, ProcPart!Runs, ProcPart!table, Waiting
    <2> QED  BY <2>1, <2>2, <2>3, ReadServes
  <1>7. CASE ProcPart!ReadTask(s)
    <2>1. PICK p \in 0 .. MaxPid :
            tool' = [tool EXCEPT ![s] = ProcPart!Listed(tool[s].n, Append(tool[s].list, p))]
      BY <1>7 DEF ProcPart!ReadTask, ProcPart!Set, ProcPart!Pids
    <2> DEFINE t == ProcPart!Listed(tool[s].n, Append(tool[s].list, p))
    <2>2. t \in ProcTool /\ t.pc \notin {"counted", "asked"}
      <3>1. tool[s].n \in 0 .. MaxTask + 1 /\ Append(tool[s].list, p) \in Seq(0 .. MaxPid)
        BY <1>2 DEF ProcTool
      <3> QED  BY <1>5, <3>1
    <2>3. /\ Waiting(s) /\ UNCHANGED <<active, pid, nextpid, orphaned>>
          /\ IF ProcPart!Matching(s) = {} THEN queue' = queue /\ last' = ProcPart!None
                                          ELSE ProcPart!Read(s)
      BY <1>7 DEF ProcPart!ReadTask, ProcPart!Runs, ProcPart!table, Waiting
    <2>4. tool' = [tool EXCEPT ![s] = t]
      BY <2>1
    <2> HIDE DEF t
    <2> QED  BY <2>2, <2>3, <2>4, ReadServes
  <1> QED  BY <1>1, <1>3, <1>4, <1>6, <1>7, StartServes, EndServes, ActServes

LEMMA InitProc == ProcPart!Init => ProcInv
  <1> SUFFICES ASSUME ProcPart!Init PROVE ProcInv
    OBVIOUS
  <1>1. ProcPart!Free \in ProcEntry /\ ProcPart!Free.open
    BY DEF ProcPart!Free, ProcPart!Nobody, ProcPart!Count, ProcEntry
  <1>2. ProcPart!Idle \in ProcTool /\ ProcPart!Idle.pc = "count"
    BY IdleTool
  <1>3. \A e \in ProcEntries : queue[e].open
    BY <1>1 DEF ProcPart!Init, ProcEntries
  <1>4. \A s \in ProcTasks : ~Waiting(s)
    BY <1>2 DEF ProcPart!Init, Waiting, ProcTasks, ProcPart!Tasks
  <1>5. ProcShape
    <2>1. 0 \in ProcTasks /\ 0 \in 0 .. MaxPid /\ 1 \in Nat
      BY ProcAssumption DEF ProcTasks
    <2>2. /\ active \in [ProcTasks -> BOOLEAN] /\ pid \in [ProcTasks -> 0 .. MaxPid]
          /\ nextpid \in Nat /\ orphaned \in BOOLEAN
      BY <2>1 DEF ProcPart!Init, ProcTasks, ProcPart!Tasks
    <2>3. queue \in [ProcEntries -> ProcEntry]
      BY <1>1 DEF ProcPart!Init, ProcEntries
    <2>4. tool \in [ProcTasks -> ProcTool]
      BY <1>2 DEF ProcPart!Init, ProcTasks, ProcPart!Tasks
    <2> QED  BY <1>4, <2>1, <2>2, <2>3, <2>4 DEF ProcShape
  <1>6. ProcPart!OwnAnswer
    BY DEF ProcPart!Init, ProcPart!OwnAnswer, ProcPart!None
  <1>7. Served
    BY <1>3, <1>4 DEF Served, HeldByAsker, OneEach, HasEntry
  <1> QED  BY <1>5, <1>6, <1>7 DEF ProcInv

LEMMA ProcInvariant == Spec => []ProcInv
  <1>1. Init => ProcInv
    BY InitProc DEF Init
  <1>2. ProcInv /\ [Next]_vars => ProcInv'
    <2> SUFFICES ASSUME ProcInv, [Next]_vars PROVE ProcInv'
      OBVIOUS
    <2>1. CASE ProcPart!Next
      BY <2>1, ProcServes
    <2>2. CASE UNCHANGED proc
      <3>1. UNCHANGED <<active, pid, nextpid, queue, tool, orphaned, last>>
        BY <2>2 DEF proc
      <3> QED  BY <3>1 DEF ProcInv, ProcShape, Served, HeldByAsker, OneEach, HasEntry, Waiting,
                           ProcPart!OwnAnswer
    <2> QED  BY <2>1, <2>2 DEF Next, NextAudio, NextPs2, NextKeyboard, NextProc, NextDesktop,
                               NextBuffs, vars
  <1> QED  BY <1>1, <1>2, PTL DEF Spec

\* However many of these programs ask, start, end and are stopped in between,
\* an answer goes to the program that asked and what is held is waited for, up
\* to the first that ends with its request in the queue; and with as many
\* entries as programs each that asks gets one.
THEOREM QueueServesHolds == Spec => []QueueServes
  <1>1. ProcInv => QueueServes
    <2> SUFFICES ASSUME ProcInv PROVE ProcPart!OwnAnswer /\ ProcPart!HeldIsAwaited
      BY DEF QueueServes, ProcPart!QueueServes
    <2>1. ASSUME Served PROVE ProcPart!HeldIsAwaited
      BY <2>1 DEF Served, HeldByAsker, OneEach, HasEntry, Waiting, ProcTasks, ProcEntries,
         ProcPart!HeldIsAwaited, ProcPart!Waits, ProcPart!Matching, ProcPart!Tasks
    <2> QED  BY <2>1 DEF ProcInv, ProcPart!HeldIsAwaited
  <1> QED  BY <1>1, ProcInvariant, PTL
-----------------------------------------------------------------------------
(* Audio: what is read belongs to a player that has not returned it.       *)

\* Unless the song was described within another's wav_play, a player on its way
\* to attach the refilling finds its own song described.  With a card, a song
\* is returned behind a detach, which removes all that are attached.
SourceInv ==
    /\ place \in [Players ->
         {"idle", "set", "loaded", "started", "plays", "detached", "killed"}]
    /\ attached \in 0 .. TimerSlots
    /\ selected \in BOOLEAN /\ source \subseteq Players /\ mingled \in BOOLEAN
    /\ selected /\ attached > 0 => \E p \in Players : place[p] \in {"plays", "killed"}
    /\ ~mingled => \A p \in Players :
                     place[p] \in {"set", "loaded", "started"} => source = {p}
    /\ selected /\ ~mingled /\ attached > 0 =>
         \A p \in source : place[p] \notin {"detached", "idle"}

LEMMA SourceKept == ASSUME SourceInv, [Next]_vars PROVE SourceInv'
  <1> USE DEF SourceInv
  <1>0. TimerSlots \in Nat \ {0}
    BY AudioAssumption
  <1>1. CASE AudioPart!Next
    <2>1. ASSUME attached' \in {0, attached}, place' = place, UNCHANGED AudioPart!whose
          PROVE  SourceInv'
      BY <1>0, <2>1 DEF AudioPart!whose
    <2>2. AudioPart!Dac \/ AudioPart!Tick \/ AudioPart!TornTick \/ AudioPart!AstrayTick
            => attached' \in {0, attached} /\ place' = place /\ UNCHANGED AudioPart!whose
      BY DEF AudioPart!Dac, AudioPart!Tick, AudioPart!TornTick, AudioPart!AstrayTick,
         AudioPart!Detached
    <2>3. ASSUME NEW p \in Players, AudioPart!SetInfo(p) PROVE SourceInv'
      <3>1. /\ place[p] = "idle" /\ place' = [place EXCEPT ![p] = "set"]
            /\ source' = {p} /\ mingled' = AudioPart!WithinAnother(p)
            /\ selected' = selected /\ attached' = attached
        BY <2>3 DEF AudioPart!SetInfo, AudioPart!Step
      <3>2. mingled' \in BOOLEAN
        BY <3>1 DEF AudioPart!WithinAnother
      <3>3. ~mingled' => \A q \in Players \ {p} : place[q] \notin {"set", "loaded", "started"}
        BY <3>1 DEF AudioPart!WithinAnother
      <3> QED  BY <3>1, <3>2, <3>3
    <2>4. ASSUME NEW p \in Players, AudioPart!FirstFill(p) \/ AudioPart!StartCard(p)
          PROVE  SourceInv'
      BY <2>4 DEF AudioPart!FirstFill, AudioPart!StartCard, AudioPart!Step, AudioPart!whose
    <2>5. ASSUME NEW p \in Players, AudioPart!Attach(p) PROVE SourceInv'
      BY <1>0, <2>5 DEF AudioPart!Attach, AudioPart!Step, AudioPart!whose
    <2>6. ASSUME NEW p \in Players, AudioPart!Detach(p) PROVE SourceInv'
      BY <1>0, <2>6 DEF AudioPart!Detach, AudioPart!Detached, AudioPart!Step, AudioPart!whose
    <2>7. ASSUME NEW p \in Players, AudioPart!StopCard(p) \/ AudioPart!Kill(p)
          PROVE  SourceInv'
      BY <2>7 DEF AudioPart!StopCard, AudioPart!Kill, AudioPart!Step, AudioPart!whose
    <2> QED  BY <1>1, <2>1, <2>2, <2>3, <2>4, <2>5, <2>6, <2>7 DEF AudioPart!Next
  <1>2. CASE UNCHANGED audio
    BY <1>2 DEF audio
  <1> QED  BY <1>1, <1>2 DEF Next, NextAudio, NextPs2, NextKeyboard, NextProc, NextDesktop,
                             NextBuffs, vars

LEMMA SourceStarts == Init => SourceInv
  <1> SUFFICES ASSUME Init PROVE SourceInv
    OBVIOUS
  <1>1. /\ place = [p \in Players |-> "idle"] /\ attached = 0
        /\ selected \in BOOLEAN /\ source = {} /\ mingled = FALSE
    BY DEF Init, AudioPart!Init
  <1>2. 0 \in 0 .. TimerSlots
    BY AudioAssumption
  <1>3. \A p \in Players : place[p] = "idle"
    BY <1>1
  <1>4. place \in [Players ->
          {"idle", "set", "loaded", "started", "plays", "detached", "killed"}]
    BY <1>1
  <1>5. source \subseteq Players /\ ~(attached > 0)
    BY <1>1
  <1> QED  BY <1>1, <1>2, <1>3, <1>4, <1>5, Zenon DEF SourceInv

\* With a card, the song that the timer or a first fill reads belongs to a
\* player that has not returned it, however many start, stop and are killed,
\* unless it was described within another's wav_play.
THEOREM SourceHeldHolds == Spec => []SourceHeld
  <1>1. Init => SourceInv
    BY SourceStarts
  <1>2. SourceInv /\ [Next]_vars => SourceInv'
    BY SourceKept
  <1>3. SourceInv => SourceHeld
    BY DEF SourceInv, SourceHeld, AudioPart!SourceHeld, AudioPart!CanBeRead
  <1> QED  BY <1>1, <1>2, <1>3, PTL DEF Spec
-----------------------------------------------------------------------------
(* PS/2: each handler gets the bytes of its own device.                    *)

Ps2Byte ==
    [from : {"keyboard", "mouse", "nobody"}, n : Nat, part : 0 .. 3,
     first : BOOLEAN, overflow : BOOLEAN]
KeyByte(n) ==
    [from |-> "keyboard", n |-> n, part |-> 0, first |-> FALSE, overflow |-> FALSE]
Ps2Type ==
    /\ sent \in [keys : Nat, packets : Nat]
    /\ keys \in Seq(Ps2Byte) /\ motion \in Seq(Ps2Byte) /\ typed \in Seq(Ps2Byte)
    /\ out \in Ps2Byte /\ full \in BOOLEAN /\ irq1 \in BOOLEAN /\ crossed \in BOOLEAN
    /\ mouse_cycle \in 0 .. 2 /\ mouse_byte \in [0 .. 2 -> Ps2Byte]
    /\ moved \in Seq([0 .. 2 -> Ps2Byte])

\* b is the j-th byte the mouse has sent: packet by packet, three of each.
IsByte(b, j) ==
    /\ b.from = "mouse" /\ b.n >= 1 /\ b.part \in 1 .. 3 /\ 3 * (b.n - 1) + b.part = j
    /\ b.part = 1 => b.first /\ (b.overflow <=> b.n \in Overflow)

\* How many bytes have left the mouse, and how many its handler has read.
Loaded == 3 * sent.packets - Len(motion)
OfMouse == full /\ out.from = "mouse"
Taken == Loaded - IF OfMouse THEN 1 ELSE 0

\* The keys that are typed, the one in the register and those to come are the
\* keys that were pressed, in order.
KeyStream ==
    /\ Len(typed) + Len(keys) + (IF irq1 THEN 1 ELSE 0) = sent.keys
    /\ \A i \in 1 .. Len(typed) : typed[i] = KeyByte(i)
    /\ irq1 => out = KeyByte(Len(typed) + 1)
    /\ \A i \in 1 .. Len(keys) : keys[i] = KeyByte(sent.keys - Len(keys) + i)

\* The same of the mouse up to the register, which does not change between the
\* status and the byte that its handler reads.
MotionStream ==
    /\ \A i \in 1 .. Len(motion) : IsByte(motion[i], Loaded + i)
    /\ OfMouse => IsByte(out, Loaded)
    /\ pc = "read" => full /\ status = out.from

\* ... and of the packets, up to one that is marked as overflown, where the
\* handler stays.
Stuck == mouse_cycle = 2 /\ mouse_byte[0].overflow
PacketStream ==
    /\ \A i \in 1 .. Len(moved) :
         i \notin Overflow /\ \A p \in 0 .. 2 : moved[i][p].n = i /\ moved[i][p].part = p + 1
    /\ mouse_cycle > 0 => IsByte(mouse_byte[0], 3 * Len(moved) + 1)
    /\ mouse_cycle > 1 => IsByte(mouse_byte[1], 3 * Len(moved) + 2)
    /\ IF Stuck THEN Taken >= 3 * Len(moved) + 2 ELSE Taken = 3 * Len(moved) + mouse_cycle

Ps2Inv == Ps2Type /\ (crossed \/ (KeyStream /\ MotionStream /\ PacketStream))

LEMMA KeyIs ==
    ASSUME NEW n \in Nat
    PROVE  KeyByte(n) \in Ps2Byte /\ KeyByte(n).from = "keyboard"
  BY DEF Ps2Byte, KeyByte

\* Three more at the end of a sequence.
LEMMA ThreeMore ==
    ASSUME NEW B, NEW m \in Seq(B), NEW a \in B, NEW b \in B, NEW c \in B
    PROVE  /\ m \o <<a, b, c>> \in Seq(B) /\ Len(m \o <<a, b, c>>) = Len(m) + 3
           /\ \A i \in 1 .. Len(m) : (m \o <<a, b, c>>)[i] = m[i]
           /\ (m \o <<a, b, c>>)[Len(m) + 1] = a
           /\ (m \o <<a, b, c>>)[Len(m) + 2] = b
           /\ (m \o <<a, b, c>>)[Len(m) + 3] = c
  <1>1. <<a, b, c>> \in Seq(B) /\ Len(<<a, b, c>>) = 3
    OBVIOUS
  <1> QED  BY <1>1

\* The number of a byte gives its packet and its place there.
LEMMA OnePacket ==
    ASSUME NEW n \in Nat, NEW m \in Nat, NEW p \in 1 .. 3, NEW q \in 1 .. 3,
           3 * (n - 1) + p = 3 * m + q
    PROVE  n = m + 1 /\ p = q
  OBVIOUS

\* The steps: a key is pressed, the mouse is moved, the register takes a byte,
\* and the handlers of either device read it.
LEMMA PressKeyArrives == ASSUME Ps2Inv, Ps2Part!PressKey PROVE Ps2Inv'
  <1>1. /\ sent' = [sent EXCEPT !.keys = sent.keys + 1]
        /\ keys' = Append(keys, KeyByte(sent.keys + 1))
        /\ UNCHANGED <<motion, out, full, irq1, pc, status, mouse_cycle, mouse_byte, moved,
                       typed, crossed>>
    BY DEF Ps2Part!PressKey, Ps2Part!register, Ps2Part!packet, Ps2Part!Key, Ps2Part!Byte, KeyByte
  <1>2. sent.keys \in Nat /\ KeyByte(sent.keys + 1) \in Ps2Byte
    BY KeyIs DEF Ps2Inv, Ps2Type
  <1>3. /\ keys' \in Seq(Ps2Byte) /\ Len(keys') = Len(keys) + 1
        /\ \A i \in 1 .. Len(keys) : keys'[i] = keys[i]
        /\ keys'[Len(keys) + 1] = KeyByte(sent.keys + 1)
    BY <1>1, <1>2 DEF Ps2Inv, Ps2Type
  <1>4. sent'.keys = sent.keys + 1 /\ sent'.packets = sent.packets
        /\ sent' \in [keys : Nat, packets : Nat]
    BY <1>1 DEF Ps2Inv, Ps2Type
  <1>5. Ps2Type'
    BY <1>1, <1>3, <1>4 DEF Ps2Inv, Ps2Type
  <1>6. ASSUME ~crossed PROVE KeyStream' /\ MotionStream' /\ PacketStream'
    <2>1. Len(keys) \in Nat /\ Len(typed) \in Nat /\ irq1 \in BOOLEAN
      BY DEF Ps2Inv, Ps2Type
    <2>2. KeyStream'
      <3>1. ASSUME NEW i \in 1 .. Len(keys') PROVE keys'[i] = KeyByte(sent'.keys - Len(keys') + i)
        <4>1. sent'.keys - Len(keys') = sent.keys - Len(keys)
          BY <1>2, <1>3, <1>4, <2>1
        <4>2. CASE i \in 1 .. Len(keys)
          BY <1>3, <1>6, <4>1, <4>2 DEF Ps2Inv, KeyStream
        <4>3. CASE i = Len(keys) + 1
          <5>1. sent.keys - Len(keys) + i = sent.keys + 1
            BY <1>2, <2>1, <4>3
          <5> QED  BY <1>3, <4>1, <4>3, <5>1
        <4> QED  BY <1>3, <2>1, <4>2, <4>3
      <3>2. Len(typed) + (Len(keys) + 1) + (IF irq1 THEN 1 ELSE 0) = sent.keys + 1
        BY <1>2, <1>6, <2>1 DEF Ps2Inv, KeyStream
      <3> QED  BY <1>1, <1>3, <1>4, <1>6, <3>1, <3>2 DEF Ps2Inv, KeyStream
    <2>3. MotionStream' /\ PacketStream'
      BY <1>1, <1>4, <1>6 DEF Ps2Inv, MotionStream, PacketStream, Loaded, OfMouse, Taken, Stuck
    <2> QED  BY <2>2, <2>3
  <1> QED  BY <1>1, <1>5, <1>6 DEF Ps2Inv

LEMMA MoveMouseArrives == ASSUME Ps2Inv, Ps2Part!MoveMouse PROVE Ps2Inv'
  <1> DEFINE n == sent.packets + 1
             M(part, first, over) == [from |-> "mouse", n |-> n, part |-> part,
                                      first |-> first, overflow |-> over]
  <1>1. /\ sent' = [sent EXCEPT !.packets = n]
        /\ UNCHANGED <<keys, out, full, irq1, pc, status, mouse_cycle, mouse_byte, moved,
                       typed, crossed>>
    BY DEF Ps2Part!MoveMouse, Ps2Part!register, Ps2Part!packet
  <1>2. PICK l2 \in BOOLEAN, l3 \in BOOLEAN :
          motion' = motion \o <<M(1, TRUE, n \in Overflow), M(2, l2, FALSE), M(3, l3, FALSE)>>
    <2>1. PICK looks \in [{2, 3} -> BOOLEAN] :
            motion' = motion \o
              <<M(1, TRUE, n \in Overflow), M(2, looks[2], FALSE), M(3, looks[3], FALSE)>>
      BY DEF Ps2Part!MoveMouse, Ps2Part!Motion, Ps2Part!Byte
    <2>2. looks[2] \in BOOLEAN /\ looks[3] \in BOOLEAN
      OBVIOUS
    <2> QED  BY <2>1, <2>2
  <1>3. sent.packets \in Nat /\ n \in Nat \ {0} /\ motion \in Seq(Ps2Byte)
    BY DEF Ps2Inv, Ps2Type
  <1>4. PICK a \in Ps2Byte, b \in Ps2Byte, c \in Ps2Byte :
          /\ motion' = motion \o <<a, b, c>>
          /\ IsByte(a, 3 * sent.packets + 1) /\ IsByte(b, 3 * sent.packets + 2)
          /\ IsByte(c, 3 * sent.packets + 3)
    <2>1. M(1, TRUE, n \in Overflow) \in Ps2Byte /\ M(2, l2, FALSE) \in Ps2Byte
          /\ M(3, l3, FALSE) \in Ps2Byte
      BY <1>3 DEF Ps2Byte
    <2>2. /\ IsByte(M(1, TRUE, n \in Overflow), 3 * sent.packets + 1)
          /\ IsByte(M(2, l2, FALSE), 3 * sent.packets + 2)
          /\ IsByte(M(3, l3, FALSE), 3 * sent.packets + 3)
      <3>1. n >= 1 /\ 3 * (n - 1) = 3 * sent.packets
        BY <1>3
      <3> HIDE DEF n
      <3>2. M(1, TRUE, n \in Overflow).overflow <=> n \in Overflow
        OBVIOUS
      <3> QED  BY <1>3, <3>1, <3>2 DEF IsByte
    <2> QED  BY <1>2, <2>1, <2>2
  <1>5. /\ motion' \in Seq(Ps2Byte) /\ Len(motion') = Len(motion) + 3
        /\ \A i \in 1 .. Len(motion) : motion'[i] = motion[i]
        /\ motion'[Len(motion) + 1] = a /\ motion'[Len(motion) + 2] = b
        /\ motion'[Len(motion) + 3] = c
    BY <1>3, <1>4, ThreeMore
  <1>6. sent'.keys = sent.keys /\ sent'.packets = sent.packets + 1
        /\ sent' \in [keys : Nat, packets : Nat]
    BY <1>1, <1>3 DEF Ps2Inv, Ps2Type
  <1>7. Ps2Type'
    BY <1>1, <1>5, <1>6 DEF Ps2Inv, Ps2Type
  <1>8. Len(motion) \in Nat
    BY <1>3
  <1>9. Loaded' = Loaded /\ OfMouse' = OfMouse
    BY <1>1, <1>3, <1>5, <1>6, <1>8 DEF Loaded, OfMouse
  <1>10. ASSUME ~crossed PROVE KeyStream' /\ MotionStream' /\ PacketStream'
    <2>1. KeyStream'
      BY <1>1, <1>6, <1>10 DEF Ps2Inv, KeyStream
    <2>2. \A i \in 1 .. Len(motion') : IsByte(motion'[i], Loaded + i)
      <3>1. \A i \in 1 .. Len(motion) : IsByte(motion'[i], Loaded + i)
        BY <1>5, <1>10 DEF Ps2Inv, MotionStream
      <3>2. /\ Loaded + (Len(motion) + 1) = 3 * sent.packets + 1
            /\ Loaded + (Len(motion) + 2) = 3 * sent.packets + 2
            /\ Loaded + (Len(motion) + 3) = 3 * sent.packets + 3
        BY <1>3, <1>8 DEF Loaded
      <3>3. \A i \in 1 .. Len(motion) + 3 :
              i \in 1 .. Len(motion) \/ i = Len(motion) + 1 \/ i = Len(motion) + 2
              \/ i = Len(motion) + 3
        BY <1>8
      <3> QED  BY <1>4, <1>5, <3>1, <3>2, <3>3
    <2>3. MotionStream'
      BY <1>1, <1>9, <1>10, <2>2 DEF Ps2Inv, MotionStream, IsByte
    <2>4. PacketStream'
      BY <1>1, <1>9, <1>10 DEF Ps2Inv, PacketStream, Taken, Stuck, IsByte
    <2> QED  BY <2>1, <2>3, <2>4
  <1> HIDE DEF n, M
  <1> QED  BY <1>1, <1>7, <1>10 DEF Ps2Inv

LEMMA LoadArrives == ASSUME Ps2Inv, Ps2Part!Load PROVE Ps2Inv'
  <1>1. /\ ~full /\ full' = TRUE /\ crossed' = (crossed \/ irq1)
        /\ UNCHANGED <<sent, pc, status, mouse_cycle, mouse_byte, moved, typed>>
    BY DEF Ps2Part!Load, Ps2Part!packet
  <1>2. CASE /\ keys # <<>> /\ out' = Head(keys) /\ keys' = Tail(keys) /\ irq1' = TRUE
             /\ motion' = motion
    <2>1. /\ out' = keys[1] /\ keys[1] \in Ps2Byte /\ keys' \in Seq(Ps2Byte)
          /\ Len(keys) \in Nat \ {0} /\ Len(keys') = Len(keys) - 1
          /\ \A i \in 1 .. Len(keys') : keys'[i] = keys[i + 1]
      BY <1>2 DEF Ps2Inv, Ps2Type
    <2>2. Ps2Type'
      BY <1>1, <1>2, <2>1 DEF Ps2Inv, Ps2Type
    <2>3. ASSUME ~crossed' PROVE KeyStream' /\ MotionStream' /\ PacketStream'
      <3>1. KeyStream /\ MotionStream /\ PacketStream /\ ~irq1
        BY <1>1, <2>3 DEF Ps2Inv, Ps2Type
      <3>2. sent.keys \in Nat /\ Len(typed) \in Nat /\ Len(typed) + Len(keys) = sent.keys
        BY <3>1 DEF Ps2Inv, Ps2Type, KeyStream
      <3>3. out' = KeyByte(Len(typed) + 1)
        <4>1. out' = KeyByte(sent.keys - Len(keys) + 1)
          BY <2>1, <3>1 DEF KeyStream
        <4>2. sent.keys - Len(keys) + 1 = Len(typed) + 1
          <5>1. \A t, k, n \in Nat : t + k = n => n - k + 1 = t + 1
            OBVIOUS
          <5>2. Len(keys) \in Nat
            BY <2>1
          <5> QED  BY ONLY <3>2, <5>1, <5>2
        <4> QED  BY <4>1, <4>2
      <3>4. ASSUME NEW i \in 1 .. Len(keys') PROVE keys'[i] = KeyByte(sent.keys - Len(keys') + i)
        <4>1. i + 1 \in 1 .. Len(keys) /\ keys'[i] = keys[i + 1]
          BY <2>1
        <4>2. sent.keys - Len(keys) + (i + 1) = sent.keys - Len(keys') + i
          <5>1. \A n, k, j \in Nat : n - k + (j + 1) = n - (k - 1) + j
            OBVIOUS
          <5>2. Len(keys) \in Nat /\ i \in Nat /\ Len(keys') = Len(keys) - 1
            BY <2>1
          <5> QED  BY ONLY <3>2, <5>1, <5>2
        <4> QED  BY <3>1, <4>1, <4>2 DEF KeyStream
      <3>5. KeyStream'
        BY <1>1, <1>2, <2>1, <3>1, <3>2, <3>3, <3>4 DEF KeyStream
      <3>6. ~OfMouse /\ ~OfMouse' /\ Loaded' = Loaded
        BY <1>1, <1>2, <3>2, <3>3, KeyIs DEF OfMouse, Loaded
      <3>7. MotionStream' /\ PacketStream'
        BY <1>1, <1>2, <3>1, <3>6 DEF MotionStream, PacketStream, Taken, Stuck, IsByte
      <3> QED  BY <3>5, <3>7
    <2> QED  BY <2>2, <2>3 DEF Ps2Inv
  <1>3. CASE /\ motion # <<>> /\ out' = Head(motion) /\ motion' = Tail(motion)
             /\ keys' = keys /\ irq1' = irq1
    <2>1. /\ out' = motion[1] /\ motion[1] \in Ps2Byte /\ motion' \in Seq(Ps2Byte)
          /\ Len(motion) \in Nat \ {0} /\ Len(motion') = Len(motion) - 1
          /\ \A i \in 1 .. Len(motion') : motion'[i] = motion[i + 1]
      BY <1>3 DEF Ps2Inv, Ps2Type
    <2>2. Ps2Type'
      BY <1>1, <1>3, <2>1 DEF Ps2Inv, Ps2Type
    <2>3. ASSUME ~crossed' PROVE KeyStream' /\ MotionStream' /\ PacketStream'
      <3>1. KeyStream /\ MotionStream /\ PacketStream /\ ~irq1
        BY <1>1, <2>3 DEF Ps2Inv, Ps2Type
      <3>2. KeyStream'
        BY <1>1, <1>3, <3>1 DEF KeyStream
      <3>3. sent.packets \in Nat /\ Loaded \in Int /\ Loaded' = Loaded + 1
        BY <1>1, <2>1 DEF Ps2Inv, Ps2Type, Loaded
      <3>4. IsByte(out', Loaded') /\ OfMouse' /\ ~OfMouse
        BY <1>1, <2>1, <3>1, <3>3 DEF MotionStream, IsByte, OfMouse
      <3>5. ASSUME NEW i \in 1 .. Len(motion') PROVE IsByte(motion'[i], Loaded' + i)
        <4>1. i + 1 \in 1 .. Len(motion) /\ motion'[i] = motion[i + 1]
          BY <2>1
        <4>2. Loaded + (i + 1) = Loaded' + i
          BY <2>1, <3>3
        <4> QED  BY <3>1, <4>1, <4>2 DEF MotionStream
      <3>6. MotionStream'
        BY <1>1, <3>1, <3>4, <3>5 DEF MotionStream, IsByte
      <3>7. Taken' = Taken
        BY <3>3, <3>4 DEF Taken
      <3>8. PacketStream'
        BY <1>1, <3>1, <3>7 DEF PacketStream, Stuck, IsByte
      <3> QED  BY <3>2, <3>6, <3>8
    <2> QED  BY <2>2, <2>3 DEF Ps2Inv
  <1> QED  BY <1>2, <1>3 DEF Ps2Part!Load

LEMMA KbdInterruptArrives == ASSUME Ps2Inv, Ps2Part!KbdInterrupt PROVE Ps2Inv'
  <1>1. /\ pc = "idle" /\ irq1 /\ irq1' = FALSE /\ typed' = typed \o <<out>> /\ full' = FALSE
        /\ crossed' = (crossed \/ out.from = "mouse")
        /\ UNCHANGED <<sent, keys, motion, out, pc, status, mouse_cycle, mouse_byte, moved>>
    BY DEF Ps2Part!KbdInterrupt, Ps2Part!HandedOn, Ps2Part!device, Ps2Part!packet
  <1>2. /\ typed' \in Seq(Ps2Byte) /\ Len(typed') = Len(typed) + 1
        /\ \A i \in 1 .. Len(typed) : typed'[i] = typed[i]
        /\ typed'[Len(typed) + 1] = out /\ Len(typed) \in Nat /\ Len(keys) \in Nat
    BY <1>1 DEF Ps2Inv, Ps2Type
  <1>3. Ps2Type'
    BY <1>1, <1>2 DEF Ps2Inv, Ps2Type
  <1>4. ASSUME ~crossed' PROVE KeyStream' /\ MotionStream' /\ PacketStream'
    <2>1. KeyStream /\ MotionStream /\ PacketStream /\ out.from # "mouse"
      BY <1>1, <1>4 DEF Ps2Inv, Ps2Type
    <2>2. KeyStream'
      <3>1. Len(typed') + Len(keys') + 0 = sent'.keys
        BY <1>1, <1>2, <2>1 DEF KeyStream
      <3>2. ASSUME NEW i \in 1 .. Len(typed') PROVE typed'[i] = KeyByte(i)
        <4>1. i \in 1 .. Len(typed) \/ i = Len(typed) + 1
          BY <1>2
        <4> QED  BY <1>1, <1>2, <2>1, <4>1 DEF KeyStream
      <3>3. \A i \in 1 .. Len(keys') : keys'[i] = KeyByte(sent'.keys - Len(keys') + i)
        BY <1>1, <2>1 DEF KeyStream
      <3> QED  BY <1>1, <3>1, <3>2, <3>3 DEF KeyStream
    <2>3. ~OfMouse /\ ~OfMouse' /\ Loaded' = Loaded
      BY <1>1, <2>1 DEF OfMouse, Loaded
    <2>4. MotionStream' /\ PacketStream'
      BY <1>1, <2>1, <2>3 DEF MotionStream, PacketStream, Taken, Stuck, IsByte
    <2> QED  BY <2>2, <2>4
  <1> QED  BY <1>3, <1>4 DEF Ps2Inv

\* A look at the status.
LEMMA StatusArrives ==
    ASSUME Ps2Inv, Ps2Part!MouseInterrupt \/ Ps2Part!MouseStatus
    PROVE  Ps2Inv'
  <1>1. /\ pc' = "read" => full /\ status' = out.from
        /\ UNCHANGED <<sent, keys, motion, out, full, irq1, mouse_cycle, mouse_byte, moved,
                       typed, crossed>>
    BY DEF Ps2Part!MouseInterrupt, Ps2Part!MouseStatus, Ps2Part!Continue, Ps2Part!Status,
       Ps2Part!device, Ps2Part!register, Ps2Part!packet
  <1> QED  BY <1>1 DEF Ps2Inv, Ps2Type, KeyStream, MotionStream, PacketStream, Loaded, OfMouse,
                       Taken, Stuck, IsByte

LEMMA MouseReadArrives == ASSUME Ps2Inv, Ps2Part!MouseRead PROVE Ps2Inv'
  <1>1. /\ pc = "read" /\ full' = FALSE /\ pc' \in {"idle", "status"}
        /\ UNCHANGED <<sent, keys, motion, out, irq1, status, typed, crossed>>
    BY DEF Ps2Part!MouseRead, Ps2Part!device
  <1>2. Len(moved) \in Nat /\ Len(motion) \in Nat /\ sent.packets \in Nat /\ Loaded \in Int
        /\ Loaded' = Loaded /\ ~OfMouse'
    BY <1>1 DEF Ps2Inv, Ps2Type, Loaded, OfMouse
  <1>3. KeyStream => KeyStream'
    BY <1>1 DEF KeyStream
  <1>4. MotionStream => MotionStream'
    BY <1>1, <1>2 DEF MotionStream, IsByte
  <1>5. CASE status # "mouse"
    <2>1. mouse_cycle' = mouse_cycle /\ mouse_byte' = mouse_byte /\ moved' = moved
      BY <1>5 DEF Ps2Part!MouseRead, Ps2Part!FromMouse, Ps2Part!packet
    <2>2. Ps2Type'
      BY <1>1, <2>1 DEF Ps2Inv, Ps2Type
    <2>3. ASSUME MotionStream, PacketStream PROVE PacketStream'
      <3>1. Taken' = Taken
        BY <1>1, <1>2, <1>5, <2>3 DEF MotionStream, OfMouse, Taken
      <3> QED  BY <2>1, <2>3, <3>1 DEF PacketStream, Stuck, IsByte
    <2> QED  BY <1>1, <1>3, <1>4, <2>2, <2>3 DEF Ps2Inv
  <1>6. CASE status = "mouse"
    <2>1. /\ mouse_byte' = [mouse_byte EXCEPT ![mouse_cycle] = out]
          /\ mouse_cycle' = Ps2Part!Cycle(out)
          /\ moved' = IF mouse_cycle = 2 /\ ~mouse_byte[0].overflow
                        THEN Append(moved, mouse_byte') ELSE moved
      BY <1>6 DEF Ps2Part!MouseRead, Ps2Part!FromMouse, Ps2Part!Accept
    <2>2. /\ mouse_byte' \in [0 .. 2 -> Ps2Byte] /\ mouse_byte'[mouse_cycle] = out
          /\ \A p \in 0 .. 2 : p # mouse_cycle => mouse_byte'[p] = mouse_byte[p]
      BY <2>1 DEF Ps2Inv, Ps2Type
    <2>3. mouse_cycle \in 0 .. 2 /\ mouse_byte \in [0 .. 2 -> Ps2Byte] /\ out \in Ps2Byte
          /\ moved \in Seq([0 .. 2 -> Ps2Byte])
      BY DEF Ps2Inv, Ps2Type
    <2>t. mouse_cycle' \in 0 .. 2 /\ moved' \in Seq([0 .. 2 -> Ps2Byte]) => Ps2Type'
      BY <1>1, <2>2 DEF Ps2Inv, Ps2Type
    <2>4. CASE mouse_cycle = 0
      <3>1. mouse_cycle' = (IF out.first THEN 1 ELSE 0) /\ moved' = moved
        BY <2>1, <2>4 DEF Ps2Part!Cycle
      <3>2. Ps2Type'
        BY <2>t, <2>3, <3>1
      <3>3. ASSUME MotionStream, PacketStream PROVE PacketStream'
        <4>1. Taken = 3 * Len(moved) /\ OfMouse /\ IsByte(out, Loaded) /\ Taken = Loaded - 1
          BY <1>1, <1>2, <1>6, <2>4, <3>3 DEF MotionStream, PacketStream, OfMouse, Taken, Stuck
        <4>2. IsByte(out, 3 * Len(moved) + 1)
          BY <1>2, <4>1
        <4>3. out.first
          BY <1>2, <2>3, <4>2 DEF IsByte, Ps2Byte
        <4>4. Taken' = 3 * Len(moved) + 1 /\ mouse_cycle' = 1 /\ mouse_byte'[0] = out
          BY <1>2, <2>2, <2>4, <3>1, <4>1, <4>3 DEF Taken
        <4> QED  BY <1>2, <3>1, <3>3, <4>2, <4>4 DEF PacketStream, Stuck, IsByte
      <3> QED  BY <1>1, <1>3, <1>4, <3>2, <3>3 DEF Ps2Inv
    <2>5. CASE mouse_cycle = 1
      <3>1. mouse_cycle' = 2 /\ moved' = moved
        BY <2>1, <2>5 DEF Ps2Part!Cycle
      <3>2. Ps2Type'
        BY <2>t, <2>3, <3>1
      <3>3. ASSUME MotionStream, PacketStream PROVE PacketStream'
        <4>1. Taken = 3 * Len(moved) + 1 /\ OfMouse /\ IsByte(out, Loaded) /\ Taken = Loaded - 1
          BY <1>1, <1>2, <1>6, <2>5, <3>3 DEF MotionStream, PacketStream, OfMouse, Taken, Stuck
        <4>2. IsByte(out, 3 * Len(moved) + 2)
          BY <1>2, <4>1
        <4>3. Taken' = 3 * Len(moved) + 2 /\ mouse_byte'[0] = mouse_byte[0]
              /\ mouse_byte'[1] = out
          BY <1>2, <2>2, <2>5, <4>1 DEF Taken
        <4> QED  BY <1>2, <2>5, <3>1, <3>3, <4>2, <4>3 DEF PacketStream, Stuck, IsByte
      <3> QED  BY <1>1, <1>3, <1>4, <3>2, <3>3 DEF Ps2Inv
    <2>6. CASE mouse_cycle = 2 /\ mouse_byte[0].overflow
      <3>1. mouse_cycle' = 2 /\ moved' = moved
        BY <2>1, <2>6 DEF Ps2Part!Cycle
      <3>2. Ps2Type'
        BY <2>t, <2>3, <3>1
      <3>3. ASSUME MotionStream, PacketStream PROVE PacketStream'
        <4>1. mouse_byte'[0] = mouse_byte[0] /\ mouse_byte'[1] = mouse_byte[1]
          BY <2>2, <2>6
        <4>2. Taken >= 3 * Len(moved) + 2 /\ Taken' = Loaded /\ Taken' >= Taken
          BY <1>2, <2>6, <3>3 DEF PacketStream, Stuck, Taken
        <4>3. Taken' \in Int /\ Taken \in Int /\ Taken' >= 3 * Len(moved) + 2
          BY <1>2, <4>2 DEF Taken
        <4> QED  BY <1>2, <2>6, <3>1, <3>3, <4>1, <4>3 DEF PacketStream, Stuck, IsByte
      <3> QED  BY <1>1, <1>3, <1>4, <3>2, <3>3 DEF Ps2Inv
    <2>7. CASE mouse_cycle = 2 /\ ~mouse_byte[0].overflow
      <3>1. mouse_cycle' = 0 /\ moved' = Append(moved, mouse_byte')
        BY <2>1, <2>7 DEF Ps2Part!Cycle
      <3>2. /\ moved' \in Seq([0 .. 2 -> Ps2Byte]) /\ Len(moved') = Len(moved) + 1
            /\ \A i \in 1 .. Len(moved) : moved'[i] = moved[i]
            /\ moved'[Len(moved) + 1] = mouse_byte'
        BY <2>2, <2>3, <3>1
      <3>3. Ps2Type'
        BY <2>t, <3>1, <3>2
      <3>4. ASSUME MotionStream, PacketStream PROVE PacketStream'
        <4>1. Taken = 3 * Len(moved) + 2 /\ OfMouse /\ IsByte(out, Loaded) /\ Taken = Loaded - 1
          BY <1>1, <1>2, <1>6, <2>7, <3>4 DEF MotionStream, PacketStream, OfMouse, Taken, Stuck
        <4>2. IsByte(out, 3 * Len(moved) + 3)
          BY <1>2, <4>1
        <4>3. /\ mouse_byte'[0] = mouse_byte[0] /\ mouse_byte'[1] = mouse_byte[1]
              /\ mouse_byte'[2] = out
          BY <2>2, <2>7
        <4>4. /\ IsByte(mouse_byte[0], 3 * Len(moved) + 1)
              /\ IsByte(mouse_byte[1], 3 * Len(moved) + 2)
          BY <2>7, <3>4 DEF PacketStream
        <4>5. /\ mouse_byte[0].n = Len(moved) + 1 /\ mouse_byte[0].part = 1
              /\ mouse_byte[1].n = Len(moved) + 1 /\ mouse_byte[1].part = 2
              /\ out.n = Len(moved) + 1 /\ out.part = 3
          <5>1. ASSUME NEW b \in Ps2Byte, NEW q \in 1 .. 3, IsByte(b, 3 * Len(moved) + q)
                PROVE  b.n = Len(moved) + 1 /\ b.part = q
            <6>1. b.n \in Nat /\ b.part \in 1 .. 3 /\ 3 * (b.n - 1) + b.part = 3 * Len(moved) + q
              BY <5>1 DEF IsByte, Ps2Byte
            <6>2. PICK n \in Nat, m \in Nat, p \in 1 .. 3 :
                    n = b.n /\ m = Len(moved) /\ p = b.part
              BY <6>1, <1>2
            <6>3. 3 * (n - 1) + p = 3 * m + q
              BY <6>1, <6>2
            <6>4. n = m + 1 /\ p = q
              BY <6>3, OnePacket
            <6> QED  BY <6>2, <6>4
          <5>2. mouse_byte[0] \in Ps2Byte /\ mouse_byte[1] \in Ps2Byte
            BY <2>3
          <5> QED  BY <2>3, <4>2, <4>4, <5>1, <5>2
        <4>6. Len(moved) + 1 \notin Overflow
          BY <2>7, <4>4, <4>5 DEF IsByte
        <4>7. \A p \in 0 .. 2 : mouse_byte'[p].n = Len(moved) + 1 /\ mouse_byte'[p].part = p + 1
          BY <4>3, <4>5
        <4>8. \A i \in 1 .. Len(moved') :
                i \notin Overflow
                /\ \A p \in 0 .. 2 : moved'[i][p].n = i /\ moved'[i][p].part = p + 1
          BY <1>2, <3>2, <3>4, <4>6, <4>7 DEF PacketStream
        <4>9. Taken' = 3 * Len(moved')
          BY <1>2, <3>2, <4>1 DEF Taken
        <4> QED  BY <1>2, <3>1, <3>2, <4>8, <4>9 DEF PacketStream, Stuck
      <3> QED  BY <1>1, <1>3, <1>4, <3>3, <3>4 DEF Ps2Inv
    <2> QED  BY <2>3, <2>4, <2>5, <2>6, <2>7
  <1> QED  BY <1>5, <1>6

LEMMA InitPs2 == Ps2Part!Init => Ps2Inv
  <1> SUFFICES ASSUME Ps2Part!Init PROVE Ps2Inv
    OBVIOUS
  <1>1. Ps2Part!Empty \in Ps2Byte
    BY DEF Ps2Part!Empty, Ps2Part!Byte, Ps2Byte
  <1>2. Ps2Type
    BY <1>1 DEF Ps2Part!Init, Ps2Type
  <1>3. KeyStream /\ MotionStream /\ PacketStream
    BY DEF Ps2Part!Init, KeyStream, MotionStream, PacketStream, Loaded, OfMouse, Taken, Stuck
  <1> QED  BY <1>2, <1>3 DEF Ps2Inv

\* Once all bytes are read the packets are as many as were sent, if none of
\* them was marked.
LEMMA AllMoved ==
    ASSUME Ps2Type, MotionStream, PacketStream,
           motion = <<>>, ~full, 1 .. sent.packets \cap Overflow = {}
    PROVE  Len(moved) = sent.packets
  <1>1. Len(moved) \in Nat /\ sent.packets \in Nat /\ Taken = 3 * sent.packets
    BY DEF Ps2Type, Taken, OfMouse, Loaded
  <1>2. mouse_cycle \in 0 .. 2 /\ mouse_byte \in [0 .. 2 -> Ps2Byte]
    BY DEF Ps2Type
  <1>3. ~Stuck
    <2> SUFFICES ASSUME Stuck PROVE FALSE
      OBVIOUS
    <2>1. IsByte(mouse_byte[0], 3 * Len(moved) + 1) /\ 3 * sent.packets >= 3 * Len(moved) + 2
      BY <1>1 DEF PacketStream, Stuck
    <2>2. mouse_byte[0].n \in Nat /\ mouse_byte[0].part \in 1 .. 3
          /\ 3 * (mouse_byte[0].n - 1) + mouse_byte[0].part = 3 * Len(moved) + 1
      BY <1>2, <2>1 DEF IsByte, Ps2Byte
    <2>3. mouse_byte[0].n = Len(moved) + 1 /\ mouse_byte[0].part = 1
      <3>1. \A n, m \in Nat, p \in 1 .. 3 : 3 * (n - 1) + p = 3 * m + 1 => n = m + 1 /\ p = 1
        OBVIOUS
      <3> QED  BY ONLY <1>1, <2>2, <3>1
    <2>4. mouse_byte[0].n \in Overflow
      BY <2>1, <2>3 DEF IsByte, Stuck
    <2>5. mouse_byte[0].n \in 1 .. sent.packets
      BY <1>1, <2>1, <2>3
    <2> QED  BY <2>4, <2>5
  <1>4. 3 * sent.packets = 3 * Len(moved) + mouse_cycle
    BY <1>1, <1>3 DEF PacketStream
  <1> QED  BY ONLY <1>1, <1>2, <1>4

\* Two handlers read one register and either may empty it under the other, but
\* the keys arrive in order, each once, and the packets whole and in order, up
\* to where an interrupt and the byte it is for have not gone together.
THEOREM BytesArriveHolds == Spec => []BytesArrive
  <1>1. Init => Ps2Inv
    BY InitPs2 DEF Init
  <1>2. Ps2Inv /\ [Next]_vars => Ps2Inv'
    <2> SUFFICES ASSUME Ps2Inv, [Next]_vars PROVE Ps2Inv'
      OBVIOUS
    <2>1. CASE Ps2Part!Next
      BY <2>1, PressKeyArrives, MoveMouseArrives, LoadArrives, KbdInterruptArrives, StatusArrives,
         MouseReadArrives DEF Ps2Part!Next, Ps2Part!Handlers
    <2>2. CASE UNCHANGED ps2
      <3>1. UNCHANGED <<keys, motion, sent, out, full, irq1, pc, status, mouse_cycle, mouse_byte,
                        typed, moved, crossed>>
        BY <2>2 DEF ps2
      <3>2. Ps2Type'
        BY <3>1 DEF Ps2Inv, Ps2Type
      <3>3. KeyStream => KeyStream'
        BY <3>1 DEF KeyStream
      <3>4. MotionStream /\ PacketStream => MotionStream' /\ PacketStream'
        BY <3>1 DEF MotionStream, PacketStream, Loaded, OfMouse, Taken, Stuck
      <3> QED  BY <3>1, <3>2, <3>3, <3>4 DEF Ps2Inv
    <2> QED  BY <2>1, <2>2 DEF Next, NextAudio, NextPs2, NextKeyboard, NextProc, NextDesktop,
                               NextBuffs, vars
  <1>3. Ps2Inv => BytesArrive
    <2> SUFFICES ASSUME Ps2Inv PROVE Ps2Part!KeysInOrder /\ Ps2Part!PacketsWhole
      BY DEF BytesArrive, Ps2Part!BytesArrive
    <2>1. Ps2Part!KeysInOrder
      BY DEF Ps2Inv, KeyStream, Ps2Part!KeysInOrder, KeyByte, Ps2Part!Key, Ps2Part!Byte
    <2>2. Ps2Part!PacketsWhole
      BY AllMoved DEF Ps2Inv, PacketStream, Ps2Part!PacketsWhole
    <2> QED  BY <2>1, <2>2
  <1> QED  BY <1>1, <1>2, <1>3, PTL DEF Spec
-----------------------------------------------------------------------------
(* The keyboard: the driver lags behind the keys by the bytes on the wire. *)
(* What it knows now and those bytes together give the keys that are down. *)

KbdChars == {"a", "A", "b", "B", "4"}
KbdLetters == {"a", "b", "four"}
KbdCodes == {"a", "b", "6B", "shift", "ctrl", "E0", "F0"}
KbdGetc ==
    [pc : {"out", "wait", "read", "done"}, seen : 0 .. BufLen - 1, at : 0 .. BufLen - 1,
     got : KbdChars \cup {"nul", "left", "garbage"},
     since : SUBSET (KbdChars \cup {"left", "combination"})]
KbdVp == [pc : {"wait", "take", "clear"}, c : KbdChars \cup {"nul", "left"}]
KbdType ==
    /\ held \subseteq Keys /\ events \in 0 .. MaxEvents /\ wire \in Seq(KbdCodes)
    /\ shift \in BOOLEAN /\ ctrl \in BOOLEAN /\ release \in BOOLEAN /\ special \in BOOLEAN
    /\ mixed \in BOOLEAN /\ news \in BOOLEAN /\ shown \in BOOLEAN /\ passed \in BOOLEAN
    /\ key \in KbdChars \cup {"nul"} /\ arrow \in {"nul", "left"}
    /\ map \subseteq KbdChars \cup {"nul"}
    /\ buf \in [0 .. BufLen -> KbdChars \cup {"nul", "left"}] /\ idx \in 0 .. BufLen - 1
    /\ getc \in KbdGetc /\ ascii \in KbdChars \cup {"nul", "left"} /\ vp \in KbdVp

\* What was stored last was typed since the call began, and nothing was stored
\* if nothing was typed.
GetcInv ==
    /\ getc.pc = "wait" /\ getc.since = {} => getc.seen = idx
    /\ getc.pc = "read" => getc.since # {}
    /\ getc.pc \in {"wait", "read"} /\ getc.since # {} /\ idx > 0
         => "combination" \in getc.since \/ buf[idx - 1] \in getc.since
    /\ KeyboardPart!GetcTyped

\* Every prefix on the wire has the byte it belongs to behind it.
WireInv ==
    /\ \A i \in 1 .. Len(wire) :
         /\ wire[i] = "E0" => i < Len(wire) /\ wire[i + 1] \in {"F0", "6B"}
         /\ wire[i] = "F0" => i < Len(wire) /\ wire[i + 1] \notin {"E0", "F0"}
    /\ release => Len(wire) > 0 /\ ~special /\ wire[1] \notin {"E0", "F0"}
    /\ special => Len(wire) > 0 /\ wire[1] \in {"F0", "6B"}

\* Byte i ends a break code; it has a prefix of its own and no F0 between.
Broken(i) == IF i = 1 THEN release ELSE wire[i - 1] = "F0"
Extended(i) == IF i = 1 THEN special ELSE wire[i - 1] = "E0"
Makes(i, x) == wire[i] = x /\ ~Broken(i) /\ ~Extended(i)
Breaks(i, x) == wire[i] = x /\ Broken(i)

\* A modifier is what the last of its bytes says.
Follows(m, flag) ==
    \/ flag = (m \in held) /\ \A i \in 1 .. Len(wire) : wire[i] # m
    \/ \E i \in 1 .. Len(wire) :
         /\ wire[i] = m /\ (m \in held) = ~Broken(i)
         /\ \A j \in i + 1 .. Len(wire) : wire[j] # m
ModifiersInv == Follows("shift", shift) /\ Follows("ctrl", ctrl)

KeyCode(k) == IF k = "four" THEN "6B" ELSE k

\* From byte n on a key that was down is so still, or some key is let go.
Lasts(k, n) == k \in held \/ \E i \in n .. Len(wire) : Broken(i)
OfferInv ==
    /\ key # "nul" => key \in map /\ Lasts(KeyboardPart!KeyOf(key), 1)
    /\ arrow # "nul" => Lasts("left", 1)
    /\ \A i \in 1 .. Len(wire) :
         /\ \A k \in KbdLetters : Makes(i, KeyCode(k)) => Lasts(k, i + 1)
         /\ wire[i] = "6B" /\ Extended(i) => Lasts("left", i + 1)
    /\ ~news /\ ~passed => ascii \in {"nul", IF arrow # "nul" THEN arrow ELSE key}

\* ... and shift does not change before its own break code.
Stays(k, n) ==
    /\ k \in held \/ \E i \in n .. Len(wire) : Breaks(i, KeyCode(k))
    /\ \A j \in n .. Len(wire) :
         wire[j] = "shift" => \E i \in n .. j - 1 : Breaks(i, KeyCode(k))
MapInv ==
    /\ \A i \in 1 .. Len(wire) : \A k \in KbdLetters : Makes(i, KeyCode(k)) => Stays(k, i + 1)
    /\ \A c \in map \ {"nul"} :
         LET k == KeyboardPart!KeyOf(c) IN Stays(k, 1) /\ KeyboardPart!Sym(KeyCode(k), shift) = c

KeyboardInv ==
    KbdType /\ GetcInv /\ WireInv /\ ModifiersInv /\ OfferInv /\ (mixed \/ MapInv)

\* What the tables of codes and keys give.
LEMMA Symbols ==
    ASSUME NEW code, NEW s
    PROVE  /\ code = "a" => KeyboardPart!Sym(code, s) = IF s THEN "A" ELSE "a"
           /\ code = "b" => KeyboardPart!Sym(code, s) = IF s THEN "B" ELSE "b"
           /\ code = "6B" => KeyboardPart!Sym(code, s) = "4"
           /\ code \notin {"a", "b", "6B"} => KeyboardPart!Sym(code, s) = "nul"
  <1>1. CASE code = "a"
    BY <1>1 DEF KeyboardPart!Sym
  <1>2. CASE code = "b"
    BY <1>2 DEF KeyboardPart!Sym
  <1>3. CASE code = "6B"
    BY <1>3 DEF KeyboardPart!Sym
  <1>4. CASE code \notin {"a", "b", "6B"}
    BY <1>4 DEF KeyboardPart!Sym, KeyboardPart!Nul
  <1> QED  BY <1>1, <1>2, <1>3, <1>4

LEMMA KeysOf ==
    /\ KeyboardPart!KeyOf("a") = "a" /\ KeyboardPart!KeyOf("A") = "a"
    /\ KeyboardPart!KeyOf("b") = "b" /\ KeyboardPart!KeyOf("B") = "b"
    /\ KeyboardPart!KeyOf("4") = "four" /\ KeyboardPart!KeyOf("left") = "left"
  BY DEF KeyboardPart!KeyOf, KeyboardPart!Left

LEMMA CodesOf ==
    ASSUME NEW k \in Keys
    PROVE  \/ /\ k = "four"
              /\ KeyboardPart!Make(k) = <<"6B">> /\ KeyboardPart!Break(k) = <<"F0", "6B">>
           \/ /\ k = "left"
              /\ KeyboardPart!Make(k) = <<"E0", "6B">> /\ KeyboardPart!Break(k) = <<"E0", "F0", "6B">>
           \/ /\ k \in {"a", "b", "shift", "ctrl"}
              /\ KeyboardPart!Make(k) = <<k>> /\ KeyboardPart!Break(k) = <<"F0", k>>
  <1>1. CASE k = "four"
    BY <1>1 DEF KeyboardPart!Make, KeyboardPart!Break
  <1>2. CASE k = "left"
    BY <1>2 DEF KeyboardPart!Make, KeyboardPart!Break
  <1>3. CASE k \in {"a", "b", "shift", "ctrl"}
    BY <1>3 DEF KeyboardPart!Make, KeyboardPart!Break
  <1> QED  BY <1>1, <1>2, <1>3, KeyboardAssumption

LEMMA IsLetter ==
    ASSUME NEW code \in KbdCodes
    PROVE  KeyboardPart!IsCharacter(code) <=> code \in {"a", "b", "6B"} /\ ~release /\ ~special
  <1>1. "a" # "nul" /\ "b" # "nul" /\ "4" # "nul"
    OBVIOUS
  <1> QED  BY <1>1, Symbols DEF KeyboardPart!IsCharacter, KeyboardPart!Nul
LEMMA InitKeyboard == ASSUME KeyboardPart!Init PROVE KeyboardInv
  <1>1. BufLen \in Nat \ {0} /\ MaxEvents \in Nat
    BY KeyboardAssumption
  <1>2. KbdType
    <2>1. getc \in KbdGetc /\ vp \in KbdVp
      BY <1>1 DEF KeyboardPart!Init, KbdGetc, KbdVp, KeyboardPart!Nul
    <2>2. buf \in [0 .. BufLen -> KbdChars \cup {"nul", "left"}] /\ idx \in 0 .. BufLen - 1
      BY <1>1 DEF KeyboardPart!Init, KeyboardPart!Nul
    <2>3. wire \in Seq(KbdCodes) /\ events \in 0 .. MaxEvents
      BY <1>1 DEF KeyboardPart!Init
    <2> QED  BY <2>1, <2>2, <2>3 DEF KeyboardPart!Init, KbdType, KeyboardPart!Nul
  <1>3. GetcInv
    BY DEF KeyboardPart!Init, GetcInv, KeyboardPart!GetcTyped, KeyboardPart!Nul
  <1>4. Len(wire) = 0 /\ 1 .. Len(wire) = {}
    BY DEF KeyboardPart!Init
  <1>5. WireInv
    BY <1>4 DEF KeyboardPart!Init, WireInv
  <1>6. Follows("shift", shift) /\ Follows("ctrl", ctrl)
    <2>1. held = {} /\ shift = FALSE /\ ctrl = FALSE
      BY DEF KeyboardPart!Init
    <2>2. ("shift" \in held) = FALSE /\ ("ctrl" \in held) = FALSE
      BY <2>1
    <2> QED  BY <1>4, <2>1, <2>2 DEF Follows
  <1>7. OfferInv /\ MapInv
    BY <1>4 DEF KeyboardPart!Init, OfferInv, MapInv, KeyboardPart!Nul
  <1> QED  BY <1>2, <1>3, <1>5, <1>6, <1>7 DEF KeyboardInv, ModifiersInv

\* What a sequence is without its first, and with others behind it.
LEMMA Rests ==
    ASSUME NEW S, NEW s \in Seq(S), s # <<>>
    PROVE  /\ Tail(s) \in Seq(S) /\ Len(s) \in Nat /\ Len(s) > 0 /\ Len(Tail(s)) = Len(s) - 1
           /\ Head(s) = s[1] /\ s[1] \in S
           /\ \A i \in 1 .. Len(s) - 1 : Tail(s)[i] = s[i + 1]
  OBVIOUS

LEMMA Added ==
    ASSUME NEW S, NEW s \in Seq(S), NEW w \in Seq(S)
    PROVE  /\ s \o w \in Seq(S) /\ Len(s) \in Nat /\ Len(s \o w) = Len(s) + Len(w)
           /\ \A i \in 1 .. Len(s) : (s \o w)[i] = s[i]
           /\ \A i \in 1 .. Len(w) : (s \o w)[Len(s) + i] = w[i]
  OBVIOUS

-----------------------------------------------------------------------------
(* A byte is received: the others move up, and the flags for prefixes say  *)
(* what the byte before the first was.                                     *)

LEMMA FlagsFollow ==
    ASSUME KeyboardInv, KeyboardPart!ReceiveScancode
    PROVE  /\ Len(wire) \in Nat /\ Len(wire) > 0 /\ Len(wire') = Len(wire) - 1
           /\ wire' \in Seq(KbdCodes) /\ wire[1] \in KbdCodes
           /\ release' = (wire[1] = "F0") /\ special' = (wire[1] = "E0")
           /\ \A i \in 1 .. Len(wire') :
                wire'[i] = wire[i + 1] /\ Broken(i)' = Broken(i + 1)
                /\ Extended(i)' = Extended(i + 1)
           /\ UNCHANGED <<held, mixed, events, ascii, shown, passed, vp>> /\ news' = TRUE
  <1>1. /\ wire # <<>> /\ wire' = Tail(wire) /\ wire \in Seq(KbdCodes)
        /\ UNCHANGED <<held, mixed, events, ascii, shown, passed, vp>> /\ news' = TRUE
    BY DEF KeyboardPart!ReceiveScancode, KeyboardPart!desk, KeyboardInv, KbdType
  <1>2. /\ Len(wire) \in Nat /\ Len(wire) > 0 /\ Len(wire') = Len(wire) - 1
        /\ wire' \in Seq(KbdCodes) /\ wire[1] \in KbdCodes /\ Head(wire) = wire[1]
        /\ \A i \in 1 .. Len(wire') : wire'[i] = wire[i + 1]
    BY <1>1, Rests
  <1>3. release \in BOOLEAN /\ special \in BOOLEAN
    BY DEF KeyboardInv, KbdType
  <1>4. /\ release => ~special /\ wire[1] \notin {"E0", "F0"}
        /\ special => wire[1] \in {"F0", "6B"}
    BY DEF KeyboardInv, WireInv
  <1>5. release' = (wire[1] = "F0") /\ special' = (wire[1] = "E0")
    <2> DEFINE code == wire[1]
    <2>1. \/ KeyboardPart!Combination(code) \/ KeyboardPart!Character(code)
          \/ KeyboardPart!Prefix(code) \/ KeyboardPart!Rest(code)
      BY <1>2 DEF KeyboardPart!ReceiveScancode
    <2>2. CASE KeyboardPart!Combination(code) \/ KeyboardPart!Character(code)
      <3>1. code \in {"a", "b", "6B"} /\ ~release /\ ~special
        BY <2>2, <1>2, IsLetter DEF KeyboardPart!Combination, KeyboardPart!Character
      <3>2. release' = release /\ special' = special
        BY <2>2 DEF KeyboardPart!Combination, KeyboardPart!Character, KeyboardPart!flags
      <3> QED  BY <1>3, <3>1, <3>2
    <2>3. CASE KeyboardPart!Prefix(code)
      <3>1. \/ code = "E0" /\ special' = TRUE /\ release' = release
            \/ code = "F0" /\ release' = TRUE /\ special' = FALSE
        BY <2>3, Zenon DEF KeyboardPart!Prefix
      <3> QED  BY <3>1, <1>3, <1>4
    <2>4. CASE KeyboardPart!Rest(code)
      BY <2>4 DEF KeyboardPart!Rest, KeyboardPart!Special
    <2> QED  BY <2>1, <2>2, <2>3, <2>4
  <1>6. ASSUME NEW i \in 1 .. Len(wire')
        PROVE  Broken(i)' = Broken(i + 1) /\ Extended(i)' = Extended(i + 1)
    <2>1. CASE i = 1
      BY <1>5, <2>1 DEF Broken, Extended
    <2>2. CASE i # 1
      <3>1. i - 1 \in 1 .. Len(wire') /\ (i - 1) + 1 = i /\ i + 1 # 1 /\ (i + 1) - 1 = i
        BY <1>2, <2>2
      <3>2. wire'[i - 1] = wire[i]
        BY <1>2, <3>1
      <3> QED  BY <2>2, <3>1, <3>2 DEF Broken, Extended
    <2> QED  BY <2>1, <2>2
  <1> QED  BY <1>1, <1>2, <1>5, <1>6

LEMMA ReceiveKeepsWire ==
    ASSUME KeyboardInv, KeyboardPart!ReceiveScancode PROVE WireInv'
  <1>1. /\ Len(wire) \in Nat /\ Len(wire) > 0 /\ Len(wire') = Len(wire) - 1
        /\ release' = (wire[1] = "F0") /\ special' = (wire[1] = "E0")
        /\ \A i \in 1 .. Len(wire') : wire'[i] = wire[i + 1]
    BY FlagsFollow
  <1>2. \A i \in 1 .. Len(wire) :
          /\ wire[i] = "E0" => i < Len(wire) /\ wire[i + 1] \in {"F0", "6B"}
          /\ wire[i] = "F0" => i < Len(wire) /\ wire[i + 1] \notin {"E0", "F0"}
    BY DEF KeyboardInv, WireInv
  <1>3. ASSUME NEW i \in 1 .. Len(wire')
        PROVE  /\ wire'[i] = "E0" => i < Len(wire') /\ wire'[i + 1] \in {"F0", "6B"}
               /\ wire'[i] = "F0" => i < Len(wire') /\ wire'[i + 1] \notin {"E0", "F0"}
    <2>1. i + 1 \in 1 .. Len(wire) /\ wire'[i] = wire[i + 1]
      BY <1>1
    <2>2. i + 1 < Len(wire) => i < Len(wire') /\ wire'[i + 1] = wire[(i + 1) + 1]
      BY <1>1
    <2> QED  BY <1>2, <2>1, <2>2
  <1>4. wire[1] \in {"E0", "F0"} => Len(wire') > 0 /\ wire'[1] = wire[1 + 1]
    BY <1>1, <1>2
  <1>5. /\ release' => wire[1] = "F0" /\ ~special'
        /\ special' => wire[1] = "E0"
    BY <1>1, Zenon
  <1>6. release' => Len(wire') > 0 /\ ~special' /\ wire'[1] \notin {"E0", "F0"}
    BY <1>1, <1>2, <1>4, <1>5
  <1>7. special' => Len(wire') > 0 /\ wire'[1] \in {"F0", "6B"}
    BY <1>1, <1>2, <1>4, <1>5
  <1> QED  BY <1>3, <1>6, <1>7 DEF WireInv

LEMMA ReceiveKeepsModifiers ==
    ASSUME KeyboardInv, KeyboardPart!ReceiveScancode PROVE ModifiersInv'
  <1>1. /\ Len(wire) \in Nat /\ Len(wire) > 0 /\ Len(wire') = Len(wire) - 1 /\ wire[1] \in KbdCodes
        /\ \A i \in 1 .. Len(wire') : wire'[i] = wire[i + 1] /\ Broken(i)' = Broken(i + 1)
        /\ held' = held
    BY FlagsFollow
  <1>2. /\ shift' = IF wire[1] = "shift" THEN ~release ELSE shift
        /\ ctrl' = IF wire[1] = "ctrl" THEN ~release ELSE ctrl
    <2>1. Head(wire) = wire[1]
      BY Rests DEF KeyboardInv, KbdType, KeyboardPart!ReceiveScancode
    <2> DEFINE code == wire[1]
    <2>2. \/ KeyboardPart!Combination(code) \/ KeyboardPart!Character(code)
          \/ KeyboardPart!Prefix(code) \/ KeyboardPart!Rest(code)
      BY <2>1 DEF KeyboardPart!ReceiveScancode
    <2>3. CASE KeyboardPart!Combination(code) \/ KeyboardPart!Character(code)
      <3>1. code \in {"a", "b", "6B"}
        BY <2>3, <1>1, IsLetter DEF KeyboardPart!Combination, KeyboardPart!Character
      <3>2. shift' = shift /\ ctrl' = ctrl
        BY <2>3 DEF KeyboardPart!Combination, KeyboardPart!Character, KeyboardPart!flags
      <3> QED  BY <3>1, <3>2
    <2>4. CASE KeyboardPart!Prefix(code)
      BY <2>4 DEF KeyboardPart!Prefix
    <2>5. CASE KeyboardPart!Rest(code)
      BY <2>5 DEF KeyboardPart!Rest
    <2> QED  BY <2>2, <2>3, <2>4, <2>5
  <1>3. Broken(1) = release
    BY DEF Broken
  <1>4. ASSUME NEW m, NEW f, NEW g, Follows(m, f), g = IF wire[1] = m THEN ~release ELSE f
        PROVE  \/ g = (m \in held') /\ \A i \in 1 .. Len(wire') : wire'[i] # m
               \/ \E i \in 1 .. Len(wire') :
                    /\ wire'[i] = m /\ (m \in held') = ~Broken(i)'
                    /\ \A j \in i + 1 .. Len(wire') : wire'[j] # m
    <2>1. CASE f = (m \in held) /\ \A i \in 1 .. Len(wire) : wire[i] # m
      BY <1>1, <1>4, <2>1
    <2>2. ASSUME NEW i \in 1 .. Len(wire),
                 /\ wire[i] = m /\ (m \in held) = ~Broken(i)
                 /\ \A j \in i + 1 .. Len(wire) : wire[j] # m
          PROVE  \/ g = (m \in held') /\ \A h \in 1 .. Len(wire') : wire'[h] # m
                 \/ \E h \in 1 .. Len(wire') :
                      /\ wire'[h] = m /\ (m \in held') = ~Broken(h)'
                      /\ \A j \in h + 1 .. Len(wire') : wire'[j] # m
      <3>1. CASE i = 1
        <4>1. \A h \in 1 .. Len(wire') : wire'[h] # m
          BY <1>1, <2>2, <3>1
        <4> QED  BY <1>1, <1>3, <1>4, <2>2, <3>1, <4>1
      <3>2. CASE i # 1
        <4>1. i - 1 \in 1 .. Len(wire') /\ (i - 1) + 1 = i
          BY <1>1, <3>2
        <4>2. wire'[i - 1] = m /\ Broken(i - 1)' = Broken(i)
          BY <1>1, <4>1, <2>2
        <4>3. \A j \in (i - 1) + 1 .. Len(wire') : wire'[j] # m
          BY <1>1, <2>2, <4>1
        <4> QED  BY <1>1, <2>2, <4>1, <4>2, <4>3
      <3> QED  BY <3>1, <3>2
    <2> QED  BY <1>4, <2>1, <2>2 DEF Follows
  <1>5. Follows("shift", shift) /\ Follows("ctrl", ctrl)
    BY DEF KeyboardInv, ModifiersInv
  <1>6. Follows("shift", shift)'
    <2>1. Follows("shift", shift) /\ shift' = IF wire[1] = "shift" THEN ~release ELSE shift
      BY <1>2, <1>5
    <2>2. \/ shift' = ("shift" \in held') /\ \A i \in 1 .. Len(wire') : wire'[i] # "shift"
          \/ \E i \in 1 .. Len(wire') :
               /\ wire'[i] = "shift" /\ ("shift" \in held') = ~Broken(i)'
               /\ \A j \in i + 1 .. Len(wire') : wire'[j] # "shift"
      BY <1>4, <2>1
    <2> QED  BY <2>2 DEF Follows
  <1>7. Follows("ctrl", ctrl)'
    <2>1. Follows("ctrl", ctrl) /\ ctrl' = IF wire[1] = "ctrl" THEN ~release ELSE ctrl
      BY <1>2, <1>5
    <2>2. \/ ctrl' = ("ctrl" \in held') /\ \A i \in 1 .. Len(wire') : wire'[i] # "ctrl"
          \/ \E i \in 1 .. Len(wire') :
               /\ wire'[i] = "ctrl" /\ ("ctrl" \in held') = ~Broken(i)'
               /\ \A j \in i + 1 .. Len(wire') : wire'[j] # "ctrl"
      BY <1>4, <2>1
    <2> QED  BY <2>2 DEF Follows
  <1> QED  BY <1>6, <1>7 DEF ModifiersInv

\* What a byte does to the rest of the driver.
LEMMA Scan ==
    ASSUME KeyboardInv, KeyboardPart!ReceiveScancode
    PROVE  \/ /\ wire[1] \in {"a", "b", "6B"} /\ ~release /\ ~special
              /\ map' = map \cup {key} /\ UNCHANGED <<shift, key, arrow>>
              /\ KeyboardPart!Store(buf) /\ KeyboardPart!Typed("combination")
           \/ /\ wire[1] \in {"a", "b", "6B"} /\ ~release /\ ~special
              /\ key' = KeyboardPart!Sym(wire[1], shift) /\ map' = map \cup {key'}
              /\ UNCHANGED <<shift, arrow>>
              /\ KeyboardPart!Store([buf EXCEPT ![idx] = key']) /\ KeyboardPart!Typed(key')
           \/ /\ wire[1] \in {"E0", "F0"} /\ UNCHANGED <<map, shift, key, arrow, buf, idx, getc>>
           \/ /\ wire[1] \notin {"E0", "F0"}
              /\ wire[1] \notin {"a", "b", "6B"} \/ release \/ special
              /\ shift' = IF wire[1] = "shift" THEN ~release ELSE shift
              /\ arrow' = IF release THEN "nul"
                          ELSE IF wire[1] = "6B" /\ special THEN "left" ELSE arrow
              /\ map' = IF release THEN map \ {KeyboardPart!Sym(wire[1], shift')} ELSE map
              /\ key' = IF release THEN "nul" ELSE key
              /\ \/ /\ KeyboardPart!Store([buf EXCEPT ![idx] = "left"])
                    /\ KeyboardPart!Typed("left")
                 \/ UNCHANGED <<buf, idx, getc>>
  <1> DEFINE code == wire[1]
  <1>1. Head(wire) = code /\ code \in KbdCodes
    BY Rests DEF KeyboardInv, KbdType, KeyboardPart!ReceiveScancode
  <1>2. \/ KeyboardPart!Combination(code) \/ KeyboardPart!Character(code)
        \/ KeyboardPart!Prefix(code) \/ KeyboardPart!Rest(code)
    BY <1>1 DEF KeyboardPart!ReceiveScancode
  <1>3. KeyboardPart!IsCharacter(code) <=> code \in {"a", "b", "6B"} /\ ~release /\ ~special
    BY <1>1, IsLetter
  <1> HIDE DEF code
  <1>4. CASE KeyboardPart!Combination(code)
    BY <1>3, <1>4 DEF KeyboardPart!Combination, KeyboardPart!flags, code
  <1>5. CASE KeyboardPart!Character(code)
    BY <1>3, <1>5 DEF KeyboardPart!Character, code
  <1>6. CASE KeyboardPart!Prefix(code)
    <2>1. code \in {"E0", "F0"} /\ UNCHANGED <<map, shift, key, arrow, buf, idx, getc>>
      BY <1>6 DEF KeyboardPart!Prefix
    <2> QED  BY <2>1 DEF code
  <1>7. CASE KeyboardPart!Rest(code)
    <2>1. /\ code \notin {"E0", "F0"} /\ ~KeyboardPart!IsCharacter(code)
          /\ shift' = IF code = "shift" THEN ~release ELSE shift
          /\ map' = IF release THEN map \ {KeyboardPart!Sym(code, shift')} ELSE map
          /\ key' = IF release THEN "nul" ELSE key
      BY <1>7 DEF KeyboardPart!Rest, KeyboardPart!Cleared, KeyboardPart!Nul
    <2>2. /\ arrow' = IF release THEN "nul" ELSE IF code = "6B" /\ special THEN "left" ELSE arrow
          /\ \/ /\ KeyboardPart!Store([buf EXCEPT ![idx] = "left"])
                /\ KeyboardPart!Typed("left")
             \/ UNCHANGED <<buf, idx, getc>>
      <3>1. CASE code = "6B" /\ special
        BY <1>7, <3>1 DEF KeyboardPart!Rest, KeyboardPart!Arrow, KeyboardPart!Nul, KeyboardPart!Left
      <3>2. CASE ~(code = "6B" /\ special)
        BY <1>7, <3>2 DEF KeyboardPart!Rest, KeyboardPart!Arrow, KeyboardPart!Nul, KeyboardPart!Left
      <3> QED  BY <3>1, <3>2
    <2> QED  BY <1>3, <2>1, <2>2 DEF code
  <1> QED  BY <1>2, <1>4, <1>5, <1>6, <1>7

LEMMA Stored ==
    ASSUME KbdType, NEW b \in [0 .. BufLen -> KbdChars \cup {"nul", "left"}],
           KeyboardPart!Store(b)
    PROVE  /\ buf' \in [0 .. BufLen -> KbdChars \cup {"nul", "left"}]
           /\ idx' \in 0 .. BufLen - 1 /\ idx \in 0 .. BufLen
           /\ idx' > 0 => idx' - 1 = idx /\ buf'[idx' - 1] = b[idx]
  <1>1. BufLen \in Nat \ {0} /\ idx \in 0 .. BufLen - 1
    BY KeyboardAssumption DEF KbdType
  <1>2. /\ buf' = [b EXCEPT ![idx + 1] = "nul"]
        /\ idx' = IF idx + 1 >= BufLen THEN 0 ELSE idx + 1
    BY DEF KeyboardPart!Store, KeyboardPart!Wraps, KeyboardPart!Nul
  <1> QED  BY <1>1, <1>2

\* What is typed is noted in the call of getc_blk and lies before the index.
LEMMA ReceiveStores ==
    ASSUME KeyboardInv, KeyboardPart!ReceiveScancode
    PROVE  /\ buf' \in [0 .. BufLen -> KbdChars \cup {"nul", "left"}] /\ idx' \in 0 .. BufLen - 1
           /\ \/ UNCHANGED <<buf, idx, getc>>
              \/ \E c \in KbdChars \cup {"left", "combination"} :
                   /\ getc' = [getc EXCEPT !.since = getc.since \cup {c}]
                   /\ idx' > 0 /\ c # "combination" => buf'[idx' - 1] = c
  <1>1. KbdType
    BY DEF KeyboardInv
  <1> DEFINE B == [0 .. BufLen -> KbdChars \cup {"nul", "left"}]
  <1>2. buf \in B /\ idx \in 0 .. BufLen - 1 /\ idx \in 0 .. BufLen /\ BufLen \in Nat
    BY <1>1, KeyboardAssumption DEF KbdType
  <1>3. ASSUME NEW c \in KbdChars \cup {"left"}, KeyboardPart!Store([buf EXCEPT ![idx] = c]),
               KeyboardPart!Typed(c)
        PROVE  /\ buf' \in B /\ idx' \in 0 .. BufLen - 1
               /\ getc' = [getc EXCEPT !.since = getc.since \cup {c}]
               /\ idx' > 0 => buf'[idx' - 1] = c
    <2>1. [buf EXCEPT ![idx] = c] \in B /\ [buf EXCEPT ![idx] = c][idx] = c
      BY <1>2
    <2>2. /\ buf' \in B /\ idx' \in 0 .. BufLen - 1
          /\ idx' > 0 => buf'[idx' - 1] = [buf EXCEPT ![idx] = c][idx]
      BY <1>1, <1>3, <2>1, Stored
    <2> QED  BY <1>3, <2>1, <2>2 DEF KeyboardPart!Typed
  <1>4. CASE KeyboardPart!Store(buf) /\ KeyboardPart!Typed("combination")
    <2>1. buf' \in B /\ idx' \in 0 .. BufLen - 1
      BY <1>1, <1>2, <1>4, Stored
    <2> QED  BY <1>4, <2>1 DEF KeyboardPart!Typed
  <1>5. CASE /\ wire[1] \in {"a", "b", "6B"} /\ key' = KeyboardPart!Sym(wire[1], shift)
             /\ KeyboardPart!Store([buf EXCEPT ![idx] = key']) /\ KeyboardPart!Typed(key')
    <2>1. key' \in KbdChars
      BY <1>5, Symbols DEF KbdChars
    <2> QED  BY <1>3, <1>5, <2>1
  <1>6. CASE KeyboardPart!Store([buf EXCEPT ![idx] = "left"]) /\ KeyboardPart!Typed("left")
    BY <1>3, <1>6
  <1>7. CASE UNCHANGED <<buf, idx, getc>>
    BY <1>2, <1>7
  <1> QED  BY <1>4, <1>5, <1>6, <1>7, Scan

LEMMA ReceiveKeepsTypes ==
    ASSUME KeyboardInv, KeyboardPart!ReceiveScancode PROVE KbdType'
  <1>1. KbdType
    BY DEF KeyboardInv
  <1>2. /\ wire' \in Seq(KbdCodes) /\ release' \in BOOLEAN /\ special' \in BOOLEAN
        /\ UNCHANGED <<held, mixed, events, ascii, shown, passed, vp>> /\ news' = TRUE
    BY FlagsFollow
  <1>3. getc' \in KbdGetc
    BY <1>1, ReceiveStores DEF KbdType, KbdGetc
  <1>4. /\ shift' \in BOOLEAN /\ key' \in KbdChars \cup {"nul"} /\ arrow' \in {"nul", "left"}
        /\ map' \subseteq KbdChars \cup {"nul"}
    <2>1. wire[1] \in {"a", "b", "6B"} => KeyboardPart!Sym(wire[1], shift) \in KbdChars
      BY Symbols DEF KbdChars
    <2> HIDE DEF KbdChars
    <2> QED  BY <1>1, <2>1, Scan DEF KbdType
  <1>5. ctrl' \in BOOLEAN
    <2>1. \E code : \/ KeyboardPart!Combination(code) \/ KeyboardPart!Character(code)
                    \/ KeyboardPart!Prefix(code) \/ KeyboardPart!Rest(code)
      BY DEF KeyboardPart!ReceiveScancode
    <2>2. ctrl' = ctrl \/ ctrl' = ~release
      BY <2>1 DEF KeyboardPart!Combination, KeyboardPart!Character, KeyboardPart!Prefix,
         KeyboardPart!Rest, KeyboardPart!flags
    <2> QED  BY <1>1, <2>2 DEF KbdType
  <1> QED  BY <1>1, <1>2, <1>3, <1>4, <1>5, ReceiveStores DEF KbdType

LEMMA ReceiveKeepsGetc ==
    ASSUME KeyboardInv, KeyboardPart!ReceiveScancode PROVE GetcInv'
  <1>1. getc \in KbdGetc /\ GetcInv
    BY DEF KeyboardInv, KbdType
  <1>2. CASE UNCHANGED <<buf, idx, getc>>
    BY <1>1, <1>2 DEF GetcInv, KeyboardPart!GetcTyped
  <1>3. ASSUME NEW c \in KbdChars \cup {"left", "combination"},
               getc' = [getc EXCEPT !.since = getc.since \cup {c}],
               idx' > 0 /\ c # "combination" => buf'[idx' - 1] = c
        PROVE  GetcInv'
    <2>1. /\ getc'.since = getc.since \cup {c} /\ getc'.pc = getc.pc /\ getc'.got = getc.got
          /\ getc'.at = getc.at
      BY <1>1, <1>3 DEF KbdGetc
    <2> QED  BY <1>1, <1>3, <2>1 DEF GetcInv, KeyboardPart!GetcTyped
  <1> QED  BY <1>2, <1>3, ReceiveStores

\* A key that lasted from the byte behind the first on lasts from the first on,
\* once the others have moved up.
LEMMA LastsMoves ==
    ASSUME KeyboardInv, KeyboardPart!ReceiveScancode, NEW k, NEW n \in Nat, n > 0,
           Lasts(k, n + 1)
    PROVE  Lasts(k, n)'
  <1>1. /\ Len(wire) \in Nat /\ Len(wire') = Len(wire) - 1 /\ held' = held
        /\ \A i \in 1 .. Len(wire') : Broken(i)' = Broken(i + 1)
    BY FlagsFollow
  <1>2. ASSUME NEW i \in n + 1 .. Len(wire), Broken(i) PROVE Lasts(k, n)'
    <2>1. i - 1 \in 1 .. Len(wire') /\ i - 1 \in n .. Len(wire') /\ (i - 1) + 1 = i
      BY <1>1
    <2>2. Broken(i - 1)'
      BY <1>1, <1>2, <2>1
    <2> QED  BY <2>1, <2>2 DEF Lasts
  <1> QED  BY <1>1, <1>2 DEF Lasts

LEMMA StaysMoves ==
    ASSUME KeyboardInv, KeyboardPart!ReceiveScancode, NEW k, NEW n \in Nat, n > 0,
           Stays(k, n + 1)
    PROVE  Stays(k, n)'
  <1>1. /\ Len(wire) \in Nat /\ Len(wire') = Len(wire) - 1 /\ held' = held
        /\ \A i \in 1 .. Len(wire') : wire'[i] = wire[i + 1] /\ Broken(i)' = Broken(i + 1)
    BY FlagsFollow
  <1>2. \A i \in 1 .. Len(wire') : \A x : Breaks(i, x)' <=> Breaks(i + 1, x)
    BY <1>1 DEF Breaks
  <1>3. ASSUME NEW i \in n + 1 .. Len(wire), Breaks(i, KeyCode(k))
        PROVE  \E h \in n .. Len(wire') : Breaks(h, KeyCode(k))' /\ h = i - 1
    <2>1. i - 1 \in 1 .. Len(wire') /\ i - 1 \in n .. Len(wire') /\ (i - 1) + 1 = i
      BY <1>1
    <2>2. Breaks(i - 1, KeyCode(k))'
      BY <1>2, <1>3, <2>1
    <2> QED  BY <2>1, <2>2
  <1>4. KeyCode(k)' = KeyCode(k)
    BY DEF KeyCode
  <1>5. k \in held' \/ \E i \in n .. Len(wire') : Breaks(i, KeyCode(k))'
    BY <1>1, <1>3 DEF Stays
  <1>6. ASSUME NEW j \in n .. Len(wire'), wire'[j] = "shift"
        PROVE  \E i \in n .. j - 1 : Breaks(i, KeyCode(k))'
    <2>1. j + 1 \in n + 1 .. Len(wire) /\ wire[j + 1] = "shift"
      BY <1>1, <1>6
    <2>2. PICK i \in n + 1 .. (j + 1) - 1 : Breaks(i, KeyCode(k))
      BY <2>1 DEF Stays
    <2>3. i \in n + 1 .. Len(wire) /\ i - 1 \in n .. j - 1
      BY <1>1, <2>2
    <2> QED  BY <1>3, <2>2, <2>3
  <1> QED  BY <1>4, <1>5, <1>6 DEF Stays

\* What lasts from the first byte on does so from the second, unless the first
\* ends a break code.
LEMMA LastsOn ==
    ASSUME NEW k, Lasts(k, 1), ~release, Len(wire) \in Nat PROVE Lasts(k, 2)
  <1>1. ASSUME NEW i \in 1 .. Len(wire), Broken(i) PROVE i \in 2 .. Len(wire)
    BY <1>1 DEF Broken
  <1> QED  BY <1>1 DEF Lasts

LEMMA StaysOn ==
    ASSUME NEW k, Stays(k, 1), wire[1] # KeyCode(k) \/ ~release, Len(wire) \in Nat
    PROVE  Stays(k, 2)
  <1>1. ASSUME NEW i \in Nat, i >= 1, Breaks(i, KeyCode(k)) PROVE i >= 2
    BY <1>1 DEF Breaks, Broken
  <1>2. k \in held \/ \E i \in 2 .. Len(wire) : Breaks(i, KeyCode(k))
    BY <1>1 DEF Stays
  <1>3. ASSUME NEW j \in 2 .. Len(wire), wire[j] = "shift"
        PROVE  \E i \in 2 .. j - 1 : Breaks(i, KeyCode(k))
    <2>1. PICK i \in 1 .. j - 1 : Breaks(i, KeyCode(k))
      BY <1>3 DEF Stays
    <2>2. i >= 2
      BY <1>1, <2>1
    <2> QED  BY <2>1, <2>2
  <1> QED  BY <1>2, <1>3 DEF Stays

LEMMA ReceiveKeepsOffer ==
    ASSUME KeyboardInv, KeyboardPart!ReceiveScancode PROVE OfferInv'
  <1>1. /\ Len(wire) \in Nat /\ Len(wire) > 0 /\ Len(wire') = Len(wire) - 1
        /\ \A i \in 1 .. Len(wire') :
             wire'[i] = wire[i + 1] /\ Broken(i)' = Broken(i + 1) /\ Extended(i)' = Extended(i + 1)
        /\ news' = TRUE
    BY FlagsFollow
  <1>2. OfferInv /\ WireInv /\ KbdType
    BY DEF KeyboardInv
  <1>3. ASSUME NEW k, Lasts(k, 1), ~release PROVE Lasts(k, 1)'
    <2>1. Lasts(k, 1 + 1)
      BY <1>1, <1>3, LastsOn
    <2> QED  BY <2>1, LastsMoves
  <1>4. ASSUME NEW i \in 1 .. Len(wire')
        PROVE  /\ \A k \in KbdLetters : Makes(i, KeyCode(k))' => Lasts(k, i + 1)'
               /\ wire'[i] = "6B" /\ Extended(i)' => Lasts("left", i + 1)'
    <2>1. i + 1 \in 1 .. Len(wire) /\ i + 1 \in Nat /\ i + 1 > 0
      BY <1>1
    <2>2. ASSUME NEW k \in KbdLetters, Makes(i, KeyCode(k))' PROVE Lasts(k, i + 1)'
      <3>1. Makes(i + 1, KeyCode(k))
        BY <1>1, <2>2 DEF Makes, KeyCode
      <3>2. Lasts(k, (i + 1) + 1)
        BY <1>2, <2>1, <3>1 DEF OfferInv
      <3> QED  BY <2>1, <3>2, LastsMoves
    <2>3. ASSUME wire'[i] = "6B", Extended(i)' PROVE Lasts("left", i + 1)'
      <3>1. Lasts("left", (i + 1) + 1)
        BY <1>1, <1>2, <2>1, <2>3 DEF OfferInv
      <3> QED  BY <2>1, <3>1, LastsMoves
    <2> QED  BY <2>2, <2>3
  <1>5. Broken(1) = release /\ Extended(1) = special
    BY DEF Broken, Extended
  <1>6. ASSUME key' # "nul" PROVE key' \in map' /\ Lasts(KeyboardPart!KeyOf(key), 1)'
    <2>1. CASE /\ key' = key /\ map \subseteq map' /\ ~release
      <3>1. Lasts(KeyboardPart!KeyOf(key), 1) /\ key \in map
        BY <1>2, <1>6, <2>1 DEF OfferInv
      <3> QED  BY <1>3, <2>1, <3>1 DEF Lasts
    <2>2. CASE /\ wire[1] \in {"a", "b", "6B"} /\ ~release /\ ~special
               /\ key' = KeyboardPart!Sym(wire[1], shift) /\ map' = map \cup {key'}
      <3> DEFINE k == KeyboardPart!KeyOf(key')
      <3>1. k \in KbdLetters /\ KeyCode(k) = wire[1]
        BY <2>2, Symbols, KeysOf DEF KbdLetters, KeyCode
      <3>2. Makes(1, KeyCode(k))
        BY <1>5, <2>2, <3>1 DEF Makes
      <3>3. Lasts(k, 1 + 1)
        BY <1>1, <1>2, <3>1, <3>2 DEF OfferInv
      <3>4. \A m : Lasts(m, 1 + 1) => Lasts(m, 1)'
        BY LastsMoves
      <3> QED  BY <2>2, <3>3, <3>4 DEF Lasts
    <2>3. CASE wire[1] \in {"E0", "F0"} /\ UNCHANGED <<map, key>>
      <3>1. ~release
        BY <1>2, <2>3 DEF WireInv
      <3> QED  BY <2>1, <2>3, <3>1
    <2> QED  BY <1>6, <2>1, <2>2, <2>3, Scan
  <1>7. ASSUME arrow' # "nul" PROVE Lasts("left", 1)'
    <2>1. CASE arrow' = arrow /\ ~release
      BY <1>2, <1>3, <1>7, <2>1 DEF OfferInv
    <2>2. CASE wire[1] = "6B" /\ special
      <3>1. Lasts("left", 1 + 1)
        <4>1. 1 \in 1 .. Len(wire) /\ wire[1] = "6B" /\ Extended(1)
          BY <1>1, <2>2 DEF Extended
        <4> QED  BY <1>2, <4>1 DEF OfferInv
      <3> QED  BY <3>1, LastsMoves
    <2>3. wire[1] \in {"E0", "F0"} => ~release
      BY <1>2 DEF WireInv
    <2> QED  BY <1>7, <2>1, <2>2, <2>3, Scan
  <1>8. KbdLetters' = KbdLetters
    BY DEF KbdLetters
  <1>9. \A i \in 1 .. Len(wire') :
          /\ \A k \in KbdLetters' : Makes(i, KeyCode(k))' => Lasts(k, i + 1)'
          /\ wire'[i] = "6B" /\ Extended(i)' => Lasts("left", i + 1)'
    BY <1>4, <1>8
  <1> QED  BY <1>1, <1>6, <1>7, <1>9 DEF OfferInv

LEMMA ReceiveKeepsMap ==
    ASSUME KeyboardInv, KeyboardPart!ReceiveScancode, MapInv PROVE MapInv'
  <1>1. /\ Len(wire) \in Nat /\ Len(wire) > 0 /\ Len(wire') = Len(wire) - 1
        /\ \A i \in 1 .. Len(wire') :
             wire'[i] = wire[i + 1] /\ Broken(i)' = Broken(i + 1) /\ Extended(i)' = Extended(i + 1)
    BY FlagsFollow
  <1>2. OfferInv /\ WireInv /\ KbdType
    BY DEF KeyboardInv
  <1>3. Broken(1) = release /\ Extended(1) = special
    BY DEF Broken, Extended
  <1>4. ASSUME NEW i \in 1 .. Len(wire'), NEW k \in KbdLetters, Makes(i, KeyCode(k))'
        PROVE  Stays(k, i + 1)'
    <2>1. i + 1 \in 1 .. Len(wire) /\ i + 1 \in Nat /\ i + 1 > 0
      BY <1>1
    <2>2. Makes(i + 1, KeyCode(k))
      BY <1>1, <1>4 DEF Makes, KeyCode
    <2>3. Stays(k, (i + 1) + 1)
      BY <2>1, <2>2 DEF MapInv
    <2> QED  BY <2>1, <2>3, StaysMoves
  <1>5. map \ {"nul"} # {} => wire[1] # "shift"
    <2>1. ASSUME NEW c \in map \ {"nul"}, wire[1] = "shift" PROVE FALSE
      <3>1. \A j \in 1 .. Len(wire) : wire[j] = "shift" =>
              \E i \in 1 .. j - 1 : Breaks(i, KeyCode(KeyboardPart!KeyOf(c)))
        BY DEF MapInv, Stays
      <3>2. 1 \in 1 .. Len(wire) /\ 1 .. 1 - 1 = {}
        BY <1>1
      <3> QED  BY <2>1, <3>1, <3>2
    <2> QED  BY <2>1
  <1>6. ASSUME NEW c \in map \ {"nul"}, c \in map'
        PROVE  /\ Stays(KeyboardPart!KeyOf(c), 1)'
               /\ KeyboardPart!Sym(KeyCode(KeyboardPart!KeyOf(c)), shift') = c
    <2> DEFINE k == KeyboardPart!KeyOf(c)
    <2>1. Stays(k, 1) /\ KeyboardPart!Sym(KeyCode(k), shift) = c
      BY DEF MapInv
    <2>2. shift' = shift
      BY <1>5, Scan
    <2>3. wire[1] # KeyCode(k) \/ ~release
      <3>1. ASSUME wire[1] = KeyCode(k), release PROVE FALSE
        <4>1. wire[1] \notin {"E0", "F0"}
          BY <1>2, <3>1 DEF WireInv
        <4>2. map' = map \ {KeyboardPart!Sym(wire[1], shift')}
          BY <3>1, <4>1, Scan
        <4> QED  BY <1>6, <2>1, <2>2, <3>1, <4>2
      <3> QED  BY <3>1
    <2> HIDE DEF k
    <2>4. Stays(k, 1 + 1)
      BY <1>1, <2>1, <2>3, StaysOn
    <2>5. Stays(k, 1)'
      BY <2>4, StaysMoves
    <2> QED  BY <2>1, <2>2, <2>5 DEF k
  <1>7. ASSUME NEW c \in map' \ {"nul"}, c \notin map
        PROVE  /\ Stays(KeyboardPart!KeyOf(c), 1)'
               /\ KeyboardPart!Sym(KeyCode(KeyboardPart!KeyOf(c)), shift') = c
    <2>1. /\ wire[1] \in {"a", "b", "6B"} /\ ~release /\ ~special
          /\ c = KeyboardPart!Sym(wire[1], shift) /\ shift' = shift
      BY <1>2, <1>7, Scan DEF OfferInv
    <2> DEFINE k == KeyboardPart!KeyOf(c)
    <2>2. k \in KbdLetters /\ KeyCode(k) = wire[1]
      BY <2>1, Symbols, KeysOf DEF KbdLetters, KeyCode
    <2>3. Makes(1, KeyCode(k))
      BY <1>3, <2>1, <2>2 DEF Makes
    <2>4. Stays(k, 1 + 1)
      BY <1>1, <2>2, <2>3 DEF MapInv
    <2> HIDE DEF k
    <2>5. Stays(k, 1)'
      BY <2>4, StaysMoves
    <2> QED  BY <2>1, <2>2, <2>5 DEF k
  <1> QED  BY <1>4, <1>6, <1>7 DEF MapInv

LEMMA ReceiveScancodeArrives ==
    ASSUME KeyboardInv, KeyboardPart!ReceiveScancode PROVE KeyboardInv'
  BY ReceiveKeepsTypes, ReceiveKeepsGetc, ReceiveKeepsWire, ReceiveKeepsModifiers,
     ReceiveKeepsOffer, ReceiveKeepsMap, FlagsFollow DEF KeyboardInv
-----------------------------------------------------------------------------
(* A key is pressed or let go: its bytes go to the end of the wire, behind *)
(* a byte that is no prefix.                                               *)

LEMMA Appended ==
    ASSUME KeyboardInv, NEW w \in Seq(KbdCodes), Len(w) > 0, wire' = wire \o w,
           UNCHANGED <<release, special>>, NEW n, n = Len(wire)
    PROVE  /\ n \in Nat /\ Len(w) \in Nat /\ Len(wire') = n + Len(w)
           /\ wire' \in Seq(KbdCodes)
           /\ \A i \in 1 .. n :
                /\ wire'[i] = wire[i]
                /\ Broken(i)' <=> Broken(i)
                /\ Extended(i)' <=> Extended(i)
           /\ \A i \in 1 .. Len(w) : wire'[n + i] = w[i]
           /\ ~Broken(n + 1)' /\ ~Extended(n + 1)'
           /\ \A i \in 2 .. Len(w) :
                /\ Broken(n + i)' <=> w[i - 1] = "F0"
                /\ Extended(n + i)' <=> w[i - 1] = "E0"
  <1>1. /\ n \in Nat /\ Len(w) \in Nat /\ Len(wire') = n + Len(w)
        /\ wire' \in Seq(KbdCodes)
        /\ \A i \in 1 .. n : wire'[i] = wire[i]
        /\ \A i \in 1 .. Len(w) : wire'[n + i] = w[i]
    BY Added DEF KeyboardInv, KbdType
  <1>2. ASSUME NEW i \in 1 .. n
        PROVE  (Broken(i)' <=> Broken(i)) /\ (Extended(i)' <=> Extended(i))
    <2>1. CASE i = 1
      BY <2>1 DEF Broken, Extended
    <2>2. CASE i # 1
      <3>1. wire'[i - 1] = wire[i - 1]
        BY <1>1, <2>2
      <3> QED  BY <2>2, <3>1 DEF Broken, Extended
    <2> QED  BY <2>1, <2>2
  <1>3. ~Broken(n + 1)' /\ ~Extended(n + 1)'
    <2>1. CASE n = 0
      <3>1. ~release /\ ~special
        BY <2>1 DEF KeyboardInv, WireInv
      <3>2. n + 1 = 1
        BY <2>1
      <3> QED  BY <3>1, <3>2 DEF Broken, Extended
    <2>2. CASE n > 0
      <3>1. n \in 1 .. n /\ n + 1 # 1 /\ (n + 1) - 1 = n /\ ~(n < n)
        BY <1>1, <2>2
      <3>2. wire'[n] = wire[n] /\ wire[n] \notin {"E0", "F0"}
        BY <1>1, <3>1 DEF KeyboardInv, WireInv
      <3>3. wire'[n] \notin {"E0", "F0"}
        BY <3>2
      <3> QED  BY <3>1, <3>3 DEF Broken, Extended
    <2> QED  BY <1>1, <2>1, <2>2
  <1>4. ASSUME NEW i \in 2 .. Len(w)
        PROVE  /\ Broken(n + i)' <=> w[i - 1] = "F0"
               /\ Extended(n + i)' <=> w[i - 1] = "E0"
    <2>1. i - 1 \in 1 .. Len(w) /\ n + i # 1 /\ (n + i) - 1 = n + (i - 1)
      BY <1>1
    <2>2. wire'[n + (i - 1)] = w[i - 1]
      BY <1>1, <2>1
    <2> QED  BY <2>1, <2>2 DEF Broken, Extended
  <1> QED  BY <1>1, <1>2, <1>3, <1>4

\* The bytes of one key: the last is its code, the others are prefixes.
KeyBytes(w, k, up) ==
    /\ w \in Seq(KbdCodes) /\ Len(w) \in 1 .. 3
    /\ w[Len(w)] = IF k = "left" THEN "6B" ELSE KeyCode(k)
    /\ \A i \in 1 .. Len(w) - 1 : w[i] = IF up /\ i = Len(w) - 1 THEN "F0" ELSE "E0"
    /\ Len(w) = IF k = "left" THEN IF up THEN 3 ELSE 2 ELSE IF up THEN 2 ELSE 1

LEMMA MakeIs ==
    ASSUME NEW k \in Keys PROVE KeyBytes(KeyboardPart!Make(k), k, FALSE)
  <1>1. CASE k = "four" /\ KeyboardPart!Make(k) = <<"6B">>
    BY <1>1 DEF KeyBytes, KeyCode, KbdCodes
  <1>2. CASE k = "left" /\ KeyboardPart!Make(k) = <<"E0", "6B">>
    <2> DEFINE w == <<"E0", "6B">>
    <2>1. w \in Seq(KbdCodes) /\ Len(w) = 2 /\ w[1] = "E0" /\ w[2] = "6B"
      BY DEF KbdCodes
    <2> HIDE DEF w
    <2>2. KeyBytes(w, "left", FALSE)
      BY <2>1 DEF KeyBytes
    <2> QED  BY <1>2, <2>2 DEF w
  <1>3. CASE k \in {"a", "b", "shift", "ctrl"} /\ KeyboardPart!Make(k) = <<k>>
    <2>1. k \in KbdCodes /\ k # "four" /\ k # "left"
      BY <1>3 DEF KbdCodes
    <2> QED  BY <1>3, <2>1 DEF KeyBytes, KeyCode
  <1> QED  BY <1>1, <1>2, <1>3, CodesOf

LEMMA BreakIs ==
    ASSUME NEW k \in Keys PROVE KeyBytes(KeyboardPart!Break(k), k, TRUE)
  <1>1. CASE k = "four" /\ KeyboardPart!Break(k) = <<"F0", "6B">>
    <2> DEFINE w == <<"F0", "6B">>
    <2>1. w \in Seq(KbdCodes) /\ Len(w) = 2 /\ w[1] = "F0" /\ w[2] = "6B"
      BY DEF KbdCodes
    <2> HIDE DEF w
    <2>2. KeyBytes(w, "four", TRUE)
      BY <2>1 DEF KeyBytes, KeyCode
    <2> QED  BY <1>1, <2>2 DEF w
  <1>2. CASE k = "left" /\ KeyboardPart!Break(k) = <<"E0", "F0", "6B">>
    <2> DEFINE w == <<"E0", "F0", "6B">>
    <2>1. w \in Seq(KbdCodes) /\ Len(w) = 3 /\ w[1] = "E0" /\ w[2] = "F0" /\ w[3] = "6B"
      BY DEF KbdCodes
    <2> HIDE DEF w
    <2>2. KeyBytes(w, "left", TRUE)
      BY <2>1 DEF KeyBytes
    <2> QED  BY <1>2, <2>2 DEF w
  <1>3. CASE k \in {"a", "b", "shift", "ctrl"} /\ KeyboardPart!Break(k) = <<"F0", k>>
    <2>1. k \in KbdCodes /\ "F0" \in KbdCodes /\ k # "four" /\ k # "left"
      BY <1>3 DEF KbdCodes
    <2> QED  BY <1>3, <2>1 DEF KeyBytes, KeyCode
  <1> QED  BY <1>1, <1>2, <1>3, CodesOf

\* A step of a key, pressed or let go (up).
KeyMoves(k, up) ==
    /\ k \in Keys /\ up \in BOOLEAN /\ events' \in 0 .. MaxEvents
    /\ held' = IF up THEN held \ {k} ELSE held \cup {k}
    /\ \E w : KeyBytes(w, k, up) /\ wire' = wire \o w
    /\ mixed' = (mixed \/ (k = "shift" /\ held \cap KbdLetters # {}))
    /\ UNCHANGED <<shift, ctrl, release, special, key, arrow, buf, idx, map, getc, news,
                   ascii, shown, passed, vp>>

LEMMA PressMoves ==
    ASSUME KeyboardInv, NEW k \in Keys, KeyboardPart!Press(k) PROVE KeyMoves(k, FALSE)
  <1>1. events' \in 0 .. MaxEvents
    BY KeyboardAssumption DEF KeyboardPart!Press, KeyboardInv, KbdType
  <1>2. /\ held' = held \cup {k}
        /\ wire' = wire \o KeyboardPart!Make(k)
        /\ UNCHANGED <<shift, ctrl, release, special, key, arrow, buf, idx, map, getc, news,
                       ascii, shown, passed, vp>>
    BY DEF KeyboardPart!Press, KeyboardPart!driver, KeyboardPart!flags, KeyboardPart!desk
  <1>3. mixed' = (mixed \/ (k = "shift" /\ held \cap KbdLetters # {}))
    BY Zenon DEF KeyboardPart!Press, KeyboardPart!Mixes, KeyboardPart!Letters, KbdLetters
  <1>4. KeyBytes(KeyboardPart!Make(k), k, FALSE)
    BY MakeIs
  <1> QED  BY <1>1, <1>2, <1>3, <1>4 DEF KeyMoves

LEMMA ReleaseMoves ==
    ASSUME KeyboardInv, NEW k \in Keys, KeyboardPart!Release(k) PROVE KeyMoves(k, TRUE)
  <1>1. events' \in 0 .. MaxEvents
    BY KeyboardAssumption DEF KeyboardPart!Release, KeyboardInv, KbdType
  <1>2. /\ held' = held \ {k}
        /\ wire' = wire \o KeyboardPart!Break(k)
        /\ UNCHANGED <<shift, ctrl, release, special, key, arrow, buf, idx, map, getc, news,
                       ascii, shown, passed, vp>>
    BY DEF KeyboardPart!Release, KeyboardPart!driver, KeyboardPart!flags, KeyboardPart!desk
  <1>3. mixed' = (mixed \/ (k = "shift" /\ held \cap KbdLetters # {}))
    BY Zenon DEF KeyboardPart!Release, KeyboardPart!Mixes, KeyboardPart!Letters, KbdLetters
  <1>4. KeyBytes(KeyboardPart!Break(k), k, TRUE)
    BY BreakIs
  <1> QED  BY <1>1, <1>2, <1>3, <1>4 DEF KeyMoves

\* What lies on the wire now, byte by byte: the old ones as they were, prefixes,
\* and the code of the key as the last.
LEMMA MovesIs ==
    ASSUME KeyboardInv, NEW k, NEW up, KeyMoves(k, up),
           NEW l, l = Len(wire), NEW n, n = Len(wire')
    PROVE  /\ l \in Nat /\ n \in Nat /\ n > l /\ wire' \in Seq(KbdCodes)
           /\ \A i \in 1 .. l :
                /\ wire'[i] = wire[i]
                /\ Broken(i)' <=> Broken(i)
                /\ Extended(i)' <=> Extended(i)
           /\ wire'[n] = IF k = "left" THEN "6B" ELSE KeyCode(k)
           /\ Broken(n)' <=> up
           /\ Extended(n)' <=> k = "left" /\ ~up
           /\ \A i \in l + 1 .. n - 1 :
                /\ wire'[i] \in {"E0", "F0"} /\ ~Broken(i)'
                /\ wire'[i] = "E0" => wire'[i + 1] \in {"F0", "6B"}
                /\ wire'[i] = "F0" => wire'[i + 1] \notin {"E0", "F0"}
  <1>1. PICK w : KeyBytes(w, k, up) /\ wire' = wire \o w
    BY DEF KeyMoves
  <1>2. w \in Seq(KbdCodes) /\ Len(w) > 0 /\ UNCHANGED <<release, special>>
    BY <1>1 DEF KeyBytes, KeyMoves
  <1>3. /\ l \in Nat /\ Len(w) \in Nat /\ n = l + Len(w) /\ wire' \in Seq(KbdCodes)
        /\ \A i \in 1 .. l :
             /\ wire'[i] = wire[i]
             /\ Broken(i)' <=> Broken(i)
             /\ Extended(i)' <=> Extended(i)
        /\ \A i \in 1 .. Len(w) : wire'[l + i] = w[i]
        /\ ~Broken(l + 1)' /\ ~Extended(l + 1)'
        /\ \A i \in 2 .. Len(w) :
             /\ Broken(l + i)' <=> w[i - 1] = "F0"
             /\ Extended(l + i)' <=> w[i - 1] = "E0"
    <2>1. /\ l \in Nat /\ Len(w) \in Nat /\ Len(wire') = l + Len(w)
          /\ wire' \in Seq(KbdCodes)
      BY <1>1, <1>2, Appended
    <2>2. \A i \in 1 .. l :
            /\ wire'[i] = wire[i]
            /\ Broken(i)' <=> Broken(i)
            /\ Extended(i)' <=> Extended(i)
      BY <1>1, <1>2, Appended
    <2>3. \A i \in 1 .. Len(w) : wire'[l + i] = w[i]
      BY <1>1, <1>2, Appended
    <2>4. ~Broken(l + 1)' /\ ~Extended(l + 1)'
      BY <1>1, <1>2, Appended
    <2>5. \A i \in 2 .. Len(w) : Broken(l + i)' <=> w[i - 1] = "F0"
      BY <1>1, <1>2, Appended, ZenonT(60)
    <2>6. \A i \in 2 .. Len(w) : Extended(l + i)' <=> w[i - 1] = "E0"
      BY <1>1, <1>2, Appended, ZenonT(60)
    <2> QED  BY <2>1, <2>2, <2>3, <2>4, <2>5, <2>6
  <1>4. k \in {"a", "b", "four", "shift", "ctrl", "left"} /\ up \in BOOLEAN
    BY KeyboardAssumption DEF KeyMoves
  <1>5. CASE k = "left" /\ up
    <2>1. Len(w) = 3 /\ w[1] = "E0" /\ w[2] = "F0" /\ w[3] = "6B"
      BY <1>1, <1>5 DEF KeyBytes
    <2>2. /\ n = l + 3 /\ wire'[l + 1] = "E0" /\ wire'[l + 2] = "F0" /\ wire'[l + 3] = "6B"
          /\ ~Broken(l + 1)' /\ ~Broken(l + 2)' /\ Broken(l + 3)' /\ ~Extended(l + 3)'
      BY <1>3, <2>1
    <2>3. \A i \in l + 1 .. n - 1 : i = l + 1 \/ i = l + 2
      BY <1>3, <2>2
    <2> QED  BY <1>3, <1>5, <2>2, <2>3
  <1>6. CASE k = "left" /\ ~up
    <2>1. Len(w) = 2 /\ w[1] = "E0" /\ w[2] = "6B"
      BY <1>1, <1>6 DEF KeyBytes
    <2>2. /\ n = l + 2 /\ wire'[l + 1] = "E0" /\ wire'[l + 2] = "6B"
          /\ ~Broken(l + 1)' /\ ~Broken(l + 2)' /\ Extended(l + 2)'
      BY <1>3, <2>1
    <2>3. \A i \in l + 1 .. n - 1 : i = l + 1
      BY <1>3, <2>2
    <2> QED  BY <1>3, <1>6, <2>2, <2>3
  <1>7. CASE k # "left" /\ up
    <2>1. Len(w) = 2 /\ w[1] = "F0" /\ w[2] = KeyCode(k) /\ w[2] \notin {"E0", "F0"}
      BY <1>1, <1>4, <1>7 DEF KeyBytes, KeyCode
    <2>2. /\ n = l + 2 /\ wire'[l + 1] = "F0" /\ wire'[l + 2] = KeyCode(k)
          /\ wire'[l + 2] \notin {"E0", "F0"}
          /\ ~Broken(l + 1)' /\ Broken(l + 2)' /\ ~Extended(l + 2)'
      BY <1>3, <2>1
    <2>3. \A i \in l + 1 .. n - 1 : i = l + 1
      BY <1>3, <2>2
    <2> QED  BY <1>3, <1>7, <2>2, <2>3
  <1>8. CASE k # "left" /\ ~up
    <2>1. Len(w) = 1 /\ w[1] = KeyCode(k)
      BY <1>1, <1>4, <1>8 DEF KeyBytes, KeyCode
    <2>2. /\ n = l + 1 /\ wire'[l + 1] = KeyCode(k) /\ ~Broken(l + 1)' /\ ~Extended(l + 1)'
      BY <1>3, <2>1
    <2>3. l + 1 .. n - 1 = {}
      BY <1>3, <2>2
    <2> QED  BY <1>3, <1>8, <2>2, <2>3
  <1> QED  BY <1>4, <1>5, <1>6, <1>7, <1>8

LEMMA LastsKept ==
    ASSUME KeyboardInv, NEW k, NEW up, KeyMoves(k, up), NEW m, NEW n \in Nat, n >= 1,
           n <= Len(wire) + 1, Lasts(m, n)
    PROVE  Lasts(m, n)'
  <1>1. PICK l, z : l = Len(wire) /\ z = Len(wire')
    OBVIOUS
  <1>2. /\ l \in Nat /\ z \in Nat /\ z > l
        /\ \A i \in 1 .. l : Broken(i)' <=> Broken(i)
        /\ Broken(z)' <=> up
    BY <1>1, MovesIs
  <1>3. CASE m \in held
    <2>1. up \/ m \in held'
      BY <1>3 DEF KeyMoves
    <2>2. z \in n .. Len(wire')
      BY <1>1, <1>2
    <2> QED  BY <1>2, <2>1, <2>2 DEF Lasts
  <1>4. ASSUME NEW i \in n .. Len(wire), Broken(i) PROVE Lasts(m, n)'
    <2>1. i \in 1 .. l /\ i \in n .. Len(wire')
      BY <1>1, <1>2
    <2> QED  BY <1>2, <1>4, <2>1 DEF Lasts
  <1> QED  BY <1>3, <1>4 DEF Lasts

\* Shift moves only with no character key down, as nothing is mixed.
LEMMA StaysKept ==
    ASSUME KeyboardInv, NEW k, NEW up, KeyMoves(k, up), ~mixed', NEW m \in KbdLetters,
           NEW n \in Nat, n >= 1, n <= Len(wire) + 1, Stays(m, n)
    PROVE  Stays(m, n)'
  <1>1. PICK l, z : l = Len(wire) /\ z = Len(wire')
    OBVIOUS
  <1>2. /\ l \in Nat /\ z \in Nat /\ z > l
        /\ \A i \in 1 .. l : wire'[i] = wire[i] /\ (Broken(i)' <=> Broken(i))
        /\ Broken(z)' <=> up
        /\ wire'[z] = IF k = "left" THEN "6B" ELSE KeyCode(k)
        /\ \A i \in l + 1 .. z - 1 : wire'[i] \in {"E0", "F0"}
    BY <1>1, MovesIs
  <1>3. \A i \in 1 .. l : \A x : Breaks(i, x) => Breaks(i, x)'
    BY <1>2 DEF Breaks
  <1>4. m # "left" /\ KeyCode(m)' = KeyCode(m)
    BY DEF KbdLetters, KeyCode
  <1>5. m \in held' \/ \E i \in n .. Len(wire') : Breaks(i, KeyCode(m))'
    <2>1. CASE m \in held /\ (m # k \/ ~up)
      BY <2>1 DEF KeyMoves
    <2>2. CASE m \in held /\ m = k /\ up
      <3>1. z \in n .. Len(wire') /\ Breaks(z, KeyCode(m))'
        BY <1>1, <1>2, <1>4, <2>2 DEF Breaks
      <3> QED  BY <3>1
    <2>3. ASSUME NEW i \in n .. Len(wire), Breaks(i, KeyCode(m))
          PROVE  \E h \in n .. Len(wire') : Breaks(h, KeyCode(m))'
      <3>1. i \in 1 .. l /\ i \in n .. Len(wire')
        BY <1>1, <1>2
      <3> QED  BY <1>3, <2>3, <3>1
    <2> QED  BY <2>1, <2>2, <2>3 DEF Stays
  <1>6. ASSUME NEW j \in n .. Len(wire'), wire'[j] = "shift"
        PROVE  \E i \in n .. j - 1 : Breaks(i, KeyCode(m))'
    <2>1. CASE j <= l
      <3>1. j \in n .. Len(wire) /\ wire[j] = "shift"
        BY <1>1, <1>2, <1>6, <2>1
      <3>2. PICK i \in n .. j - 1 : Breaks(i, KeyCode(m))
        BY <3>1 DEF Stays
      <3>3. i \in 1 .. l
        BY <1>2, <2>1
      <3> QED  BY <1>3, <3>2, <3>3
    <2>2. CASE j > l
      <3>1. j = z
        BY <1>1, <1>2, <1>6, <2>2
      <3>2. k = "shift"
        BY <1>2, <1>6, <3>1 DEF KeyCode
      <3>3. m \notin held
        BY <3>2 DEF KeyMoves
      <3>4. PICK i \in n .. Len(wire) : Breaks(i, KeyCode(m))
        BY <3>3 DEF Stays
      <3>5. i \in 1 .. l /\ i \in n .. j - 1
        BY <1>1, <1>2, <2>2
      <3> QED  BY <1>3, <3>4, <3>5
    <2> QED  BY <1>1, <1>2, <2>1, <2>2
  <1> QED  BY <1>4, <1>5, <1>6 DEF Stays

LEMMA KeyKeepsWire ==
    ASSUME KeyboardInv, NEW k, NEW up, KeyMoves(k, up) PROVE WireInv'
  <1>1. PICK l, z : l = Len(wire) /\ z = Len(wire')
    OBVIOUS
  <1>2. /\ l \in Nat /\ z \in Nat /\ z > l
        /\ \A i \in 1 .. l : wire'[i] = wire[i]
        /\ wire'[z] = IF k = "left" THEN "6B" ELSE KeyCode(k)
        /\ \A i \in l + 1 .. z - 1 :
             /\ wire'[i] = "E0" => wire'[i + 1] \in {"F0", "6B"}
             /\ wire'[i] = "F0" => wire'[i + 1] \notin {"E0", "F0"}
    BY <1>1, MovesIs
  <1>3. wire'[z] \notin {"E0", "F0"}
    BY <1>2, KeyboardAssumption DEF KeyMoves, KeyCode
  <1>4. ASSUME NEW i \in 1 .. Len(wire')
        PROVE  /\ wire'[i] = "E0" => i < Len(wire') /\ wire'[i + 1] \in {"F0", "6B"}
               /\ wire'[i] = "F0" => i < Len(wire') /\ wire'[i + 1] \notin {"E0", "F0"}
    <2>1. CASE i <= l
      <3>1. i \in 1 .. Len(wire) /\ wire'[i] = wire[i]
        BY <1>1, <1>2, <2>1
      <3>2. /\ wire[i] = "E0" => i < Len(wire) /\ wire[i + 1] \in {"F0", "6B"}
            /\ wire[i] = "F0" => i < Len(wire) /\ wire[i + 1] \notin {"E0", "F0"}
        BY <3>1 DEF KeyboardInv, WireInv
      <3>3. i < Len(wire) => wire'[i + 1] = wire[i + 1] /\ i < Len(wire')
        BY <1>1, <1>2
      <3> QED  BY <3>1, <3>2, <3>3
    <2>2. CASE i > l /\ i < z
      BY <1>1, <1>2, <2>2
    <2>3. CASE i = z
      BY <1>3, <2>3
    <2> QED  BY <1>1, <1>2, <2>1, <2>2, <2>3
  <1>5. release' = release /\ special' = special
    BY DEF KeyMoves
  <1>6. /\ release => Len(wire) > 0 /\ ~special /\ wire[1] \notin {"E0", "F0"}
        /\ special => Len(wire) > 0 /\ wire[1] \in {"F0", "6B"}
    BY DEF KeyboardInv, WireInv
  <1>7. Len(wire) > 0 => Len(wire') > 0 /\ wire'[1] = wire[1]
    BY <1>1, <1>2
  <1> QED  BY <1>4, <1>5, <1>6, <1>7 DEF WireInv

LEMMA KeyKeepsModifiers ==
    ASSUME KeyboardInv, NEW k, NEW up, KeyMoves(k, up) PROVE ModifiersInv'
  <1>1. PICK l, z : l = Len(wire) /\ z = Len(wire')
    OBVIOUS
  <1>2. /\ l \in Nat /\ z \in Nat /\ z > l
        /\ \A i \in 1 .. l : wire'[i] = wire[i] /\ (Broken(i)' <=> Broken(i))
        /\ Broken(z)' <=> up
        /\ wire'[z] = IF k = "left" THEN "6B" ELSE KeyCode(k)
        /\ \A i \in l + 1 .. z - 1 : wire'[i] \in {"E0", "F0"}
    BY <1>1, MovesIs
  <1>3. ASSUME NEW m \in {"shift", "ctrl"}, NEW f \in BOOLEAN, Follows(m, f)
        PROVE  \/ f = (m \in held') /\ \A i \in 1 .. Len(wire') : wire'[i] # m
               \/ \E i \in 1 .. Len(wire') :
                    /\ wire'[i] = m /\ (m \in held') = ~Broken(i)'
                    /\ \A j \in i + 1 .. Len(wire') : wire'[j] # m
    <2>1. \A i \in 1 .. Len(wire') : i > l /\ wire'[i] = m => k = m /\ i = z
      <3>1. ASSUME NEW i \in 1 .. Len(wire'), i > l, wire'[i] = m PROVE k = m /\ i = z
        <4>1. i = z
          BY <1>1, <1>2, <3>1
        <4> QED  BY <1>2, <3>1, <4>1 DEF KeyCode
      <3> QED  BY <3>1
    <2>2. CASE k = m
      <3>1. wire'[z] = m /\ z \in 1 .. Len(wire') /\ z + 1 .. Len(wire') = {}
        BY <1>1, <1>2, <2>2 DEF KeyCode
      <3>2. (m \in held') <=> ~up
        BY <2>2 DEF KeyMoves
      <3>3. (m \in held') = ~Broken(z)'
        BY <1>2, <3>2
      <3> QED  BY <3>1, <3>3
    <2>3. CASE k # m
      <3>1. (m \in held') = (m \in held)
        BY <2>3 DEF KeyMoves
      <3>2. CASE f = (m \in held) /\ \A i \in 1 .. Len(wire) : wire[i] # m
        <4>1. \A i \in 1 .. Len(wire') : wire'[i] # m
          <5>1. ASSUME NEW i \in 1 .. Len(wire') PROVE wire'[i] # m
            <6>1. CASE i <= l
              BY <1>1, <1>2, <3>2, <6>1
            <6>2. CASE i > l
              BY <2>1, <2>3, <6>2
            <6> QED  BY <1>1, <1>2, <6>1, <6>2
          <5> QED  BY <5>1
        <4>2. f = (m \in held')
          BY <3>1, <3>2
        <4> QED  BY <4>1, <4>2
      <3>3. ASSUME NEW i \in 1 .. Len(wire), wire[i] = m, (m \in held) = ~Broken(i),
                   \A j \in i + 1 .. Len(wire) : wire[j] # m
            PROVE  \E h \in 1 .. Len(wire') :
                     /\ wire'[h] = m /\ (m \in held') = ~Broken(h)'
                     /\ \A j \in h + 1 .. Len(wire') : wire'[j] # m
        <4>1. i \in 1 .. l /\ i \in 1 .. Len(wire') /\ wire'[i] = m
          BY <1>1, <1>2, <3>3
        <4>2. Broken(i)' <=> Broken(i)
          BY <1>2, <4>1
        <4>3. (m \in held') = ~Broken(i)'
          BY <3>1, <3>3, <4>2
        <4>4. ASSUME NEW j \in i + 1 .. Len(wire') PROVE wire'[j] # m
          <5>1. CASE j <= l
            BY <1>1, <1>2, <3>3, <4>1, <5>1
          <5>2. CASE j > l
            BY <1>1, <1>2, <2>1, <2>3, <5>2
          <5> QED  BY <1>2, <4>1, <5>1, <5>2
        <4> QED  BY <4>1, <4>3, <4>4
      <3> QED  BY <1>3, <3>2, <3>3 DEF Follows
    <2> QED  BY <2>2, <2>3
  <1>4. /\ Follows("shift", shift) /\ shift \in BOOLEAN /\ shift' = shift
        /\ Follows("ctrl", ctrl) /\ ctrl \in BOOLEAN /\ ctrl' = ctrl
    BY DEF KeyboardInv, ModifiersInv, KbdType, KeyMoves
  <1>5. Follows("shift", shift)'
    <2>1. \/ shift = ("shift" \in held') /\ \A i \in 1 .. Len(wire') : wire'[i] # "shift"
          \/ \E i \in 1 .. Len(wire') :
               /\ wire'[i] = "shift" /\ ("shift" \in held') = ~Broken(i)'
               /\ \A j \in i + 1 .. Len(wire') : wire'[j] # "shift"
      BY <1>3, <1>4
    <2> QED  BY <1>4, <2>1 DEF Follows
  <1>6. Follows("ctrl", ctrl)'
    <2>1. \/ ctrl = ("ctrl" \in held') /\ \A i \in 1 .. Len(wire') : wire'[i] # "ctrl"
          \/ \E i \in 1 .. Len(wire') :
               /\ wire'[i] = "ctrl" /\ ("ctrl" \in held') = ~Broken(i)'
               /\ \A j \in i + 1 .. Len(wire') : wire'[j] # "ctrl"
      BY <1>3, <1>4
    <2> QED  BY <1>4, <2>1 DEF Follows
  <1> QED  BY <1>5, <1>6 DEF ModifiersInv

\* The only new byte that makes a character or an arrow is that of the key that
\* is pressed, and it is down.
LEMMA NewMakes ==
    ASSUME KeyboardInv, NEW k, NEW up, KeyMoves(k, up), NEW i \in 1 .. Len(wire'),
           i > Len(wire)
    PROVE  /\ \A m \in KbdLetters : Makes(i, KeyCode(m))' => m \in held' /\ i = Len(wire')
           /\ wire'[i] = "6B" /\ Extended(i)' => "left" \in held' /\ i = Len(wire')
  <1>1. PICK l, z : l = Len(wire) /\ z = Len(wire')
    OBVIOUS
  <1>2. /\ l \in Nat /\ z \in Nat /\ z > l
        /\ wire'[z] = IF k = "left" THEN "6B" ELSE KeyCode(k)
        /\ Broken(z)' <=> up
        /\ Extended(z)' <=> k = "left" /\ ~up
        /\ \A h \in l + 1 .. z - 1 : wire'[h] \in {"E0", "F0"}
    BY <1>1, MovesIs
  <1>3. k \in {"a", "b", "four", "shift", "ctrl", "left"} /\ up \in BOOLEAN
        /\ (~up => k \in held')
    BY KeyboardAssumption DEF KeyMoves
  <1>4. CASE i < z
    <2>1. wire'[i] \in {"E0", "F0"}
      BY <1>1, <1>2, <1>4
    <2> QED  BY <2>1 DEF Makes, KeyCode, KbdLetters
  <1>5. CASE i = z
    <2>1. ASSUME NEW m \in KbdLetters, Makes(i, KeyCode(m))' PROVE m \in held'
      <3>1. ~up /\ k # "left" /\ KeyCode(k) = KeyCode(m)
        BY <1>2, <1>3, <1>5, <2>1 DEF Makes, KeyCode
      <3> QED  BY <1>3, <3>1 DEF KeyCode, KbdLetters
    <2> QED  BY <1>1, <1>2, <1>3, <1>5, <2>1
  <1> QED  BY <1>1, <1>2, <1>4, <1>5

LEMMA KeyKeepsOffer ==
    ASSUME KeyboardInv, NEW k, NEW up, KeyMoves(k, up) PROVE OfferInv'
  <1>1. OfferInv /\ Len(wire) \in Nat /\ Len(wire') \in Nat /\ Len(wire') > Len(wire)
    BY MovesIs DEF KeyboardInv
  <1>2. UNCHANGED <<key, arrow, map, news, ascii, passed>>
    BY DEF KeyMoves
  <1>3. \A m : Lasts(m, 1) => Lasts(m, 1)'
    BY <1>1, LastsKept
  <1>4. key # "nul" => Lasts(KeyboardPart!KeyOf(key), 1)'
    BY <1>1, <1>3, <1>2 DEF OfferInv, Lasts
  <1>5. ASSUME NEW i \in 1 .. Len(wire')
        PROVE  /\ \A m \in KbdLetters : Makes(i, KeyCode(m))' => Lasts(m, i + 1)'
               /\ wire'[i] = "6B" /\ Extended(i)' => Lasts("left", i + 1)'
    <2>1. CASE i <= Len(wire)
      <3>1. i \in 1 .. Len(wire) /\ i + 1 \in Nat /\ i + 1 >= 1 /\ i + 1 <= Len(wire) + 1
        BY <1>1, <2>1
      <3>2. wire'[i] = wire[i] /\ (Broken(i)' <=> Broken(i)) /\ (Extended(i)' <=> Extended(i))
        BY <3>1, MovesIs
      <3>3. \A m : Lasts(m, i + 1) => Lasts(m, i + 1)'
        BY <3>1, LastsKept
      <3>4. ASSUME NEW m \in KbdLetters, Makes(i, KeyCode(m))' PROVE Lasts(m, i + 1)'
        <4>1. Makes(i, KeyCode(m))
          BY <3>2, <3>4 DEF Makes, KeyCode
        <4> QED  BY <1>1, <3>1, <3>3, <4>1 DEF OfferInv
      <3>5. ASSUME wire'[i] = "6B", Extended(i)' PROVE Lasts("left", i + 1)'
        BY <1>1, <3>1, <3>2, <3>3, <3>5 DEF OfferInv
      <3> QED  BY <3>4, <3>5
    <2>2. CASE i > Len(wire)
      BY <2>2, NewMakes DEF Lasts
    <2> QED  BY <1>1, <2>1, <2>2
  <1>6. KbdLetters' = KbdLetters
    BY DEF KbdLetters
  <1>7. /\ key' # "nul" => key' \in map' /\ Lasts(KeyboardPart!KeyOf(key), 1)'
        /\ arrow' # "nul" => Lasts("left", 1)'
        /\ ~news' /\ ~passed' => ascii' \in {"nul", IF arrow' # "nul" THEN arrow' ELSE key'}
    BY <1>1, <1>2, <1>3, <1>4 DEF OfferInv
  <1> QED  BY <1>5, <1>6, <1>7 DEF OfferInv

LEMMA KeyKeepsMap ==
    ASSUME KeyboardInv, MapInv, NEW k, NEW up, KeyMoves(k, up), ~mixed' PROVE MapInv'
  <1>1. KbdType /\ Len(wire) \in Nat /\ Len(wire') \in Nat /\ Len(wire') > Len(wire)
    BY MovesIs DEF KeyboardInv
  <1>2. UNCHANGED <<map, shift>>
    BY DEF KeyMoves
  <1>3. \A m \in KbdLetters : Stays(m, 1) => Stays(m, 1)'
    BY <1>1, StaysKept
  <1>4. ASSUME NEW i \in 1 .. Len(wire'), NEW m \in KbdLetters, Makes(i, KeyCode(m))'
        PROVE  Stays(m, i + 1)'
    <2>1. CASE i <= Len(wire)
      <3>1. i \in 1 .. Len(wire) /\ i + 1 \in Nat /\ i + 1 >= 1 /\ i + 1 <= Len(wire) + 1
        BY <1>1, <2>1
      <3>2. wire'[i] = wire[i] /\ (Broken(i)' <=> Broken(i)) /\ (Extended(i)' <=> Extended(i))
        BY <3>1, MovesIs
      <3>3. Makes(i, KeyCode(m))
        BY <1>4, <3>2 DEF Makes, KeyCode
      <3> QED  BY <3>1, <3>3, StaysKept DEF MapInv
    <2>2. CASE i > Len(wire)
      <3>1. m \in held' /\ i = Len(wire')
        BY <1>4, <2>2, NewMakes
      <3>2. i + 1 .. Len(wire') = {}
        BY <1>1, <3>1
      <3> QED  BY <3>1, <3>2 DEF Stays
    <2> QED  BY <1>1, <2>1, <2>2
  <1>5. ASSUME NEW c \in map \ {"nul"}
        PROVE  /\ Stays(KeyboardPart!KeyOf(c), 1)'
               /\ KeyboardPart!Sym(KeyCode(KeyboardPart!KeyOf(c)), shift) = c
    <2>1. KeyboardPart!KeyOf(c) \in KbdLetters
      BY <1>1, KeysOf DEF KbdType, KbdChars, KbdLetters
    <2>2. /\ Stays(KeyboardPart!KeyOf(c), 1)
          /\ KeyboardPart!Sym(KeyCode(KeyboardPart!KeyOf(c)), shift) = c
      BY DEF MapInv
    <2> QED  BY <1>3, <2>1, <2>2
  <1> QED  BY <1>2, <1>4, <1>5 DEF MapInv

LEMMA KeyMovesArrive ==
    ASSUME KeyboardInv, NEW k, NEW up, KeyMoves(k, up) PROVE KeyboardInv'
  <1>1. KbdType'
    <2>1. wire' \in Seq(KbdCodes)
      BY MovesIs
    <2>2. held' \subseteq Keys /\ events' \in 0 .. MaxEvents
      BY DEF KeyMoves, KeyboardInv, KbdType
    <2>3. mixed' \in BOOLEAN
      BY Zenon DEF KeyMoves
    <2> QED  BY <2>1, <2>2, <2>3 DEF KeyMoves, KeyboardInv, KbdType
  <1>2. GetcInv'
    BY DEF KeyMoves, KeyboardInv, GetcInv, KeyboardPart!GetcTyped
  <1>3. mixed \/ MapInv
    BY DEF KeyboardInv
  <1>4. mixed => mixed'
    BY DEF KeyMoves
  <1>5. mixed' \/ MapInv'
    BY <1>3, <1>4, KeyKeepsMap
  <1> QED  BY <1>1, <1>2, <1>5, KeyKeepsWire, KeyKeepsModifiers, KeyKeepsOffer DEF KeyboardInv
-----------------------------------------------------------------------------
(* The readers.                                                            *)

\* What a step leaves alone of the keys and the driver.
LEMMA QuietKeeps ==
    ASSUME KeyboardInv,
           UNCHANGED <<held, wire, shift, ctrl, release, special, key, arrow, buf, idx, map,
                       mixed>>
    PROVE  /\ WireInv' /\ ModifiersInv' /\ (mixed' \/ MapInv')
           /\ \A k, n : Lasts(k, n) => Lasts(k, n)'
           /\ \A i \in 1 .. Len(wire') :
                /\ \A k \in KbdLetters' : Makes(i, KeyCode(k))' => Lasts(k, i + 1)'
                /\ wire'[i] = "6B" /\ Extended(i)' => Lasts("left", i + 1)'
           /\ key' # "nul" => key' \in map' /\ Lasts(KeyboardPart!KeyOf(key), 1)'
           /\ arrow' # "nul" => Lasts("left", 1)'
  <1>1. WireInv /\ ModifiersInv /\ (mixed \/ MapInv) /\ OfferInv
    BY DEF KeyboardInv
  <1>2. WireInv'
    BY <1>1 DEF WireInv
  <1>3. ModifiersInv'
    BY <1>1 DEF ModifiersInv, Follows, Broken
  <1>4. mixed' \/ MapInv'
    BY <1>1 DEF MapInv, Stays, Makes, Breaks, Broken, Extended
  <1>5. \A k, n : Lasts(k, n) => Lasts(k, n)'
    BY DEF Lasts, Broken
  <1>6. \A i \in 1 .. Len(wire') :
          /\ \A k \in KbdLetters' : Makes(i, KeyCode(k))' => Lasts(k, i + 1)'
          /\ wire'[i] = "6B" /\ Extended(i)' => Lasts("left", i + 1)'
    BY <1>1, <1>5 DEF OfferInv, Makes, Broken, Extended, KbdLetters, KeyCode
  <1>7. /\ key' # "nul" => key' \in map' /\ Lasts(KeyboardPart!KeyOf(key), 1)'
        /\ arrow' # "nul" => Lasts("left", 1)'
    BY <1>1, <1>5 DEF OfferInv
  <1> QED  BY <1>2, <1>3, <1>4, <1>5, <1>6, <1>7

LEMMA GetcArrives ==
    ASSUME KeyboardInv,
           KeyboardPart!GetcCall \/ KeyboardPart!GetcSees \/ KeyboardPart!GetcReturns
    PROVE  KeyboardInv'
  <1>1. UNCHANGED <<held, events, wire, shift, ctrl, release, special, key, arrow, buf, idx, map,
                    mixed, news, ascii, shown, passed, vp>>
    BY DEF KeyboardPart!GetcCall, KeyboardPart!GetcSees, KeyboardPart!GetcReturns,
       KeyboardPart!driver, KeyboardPart!flags, KeyboardPart!desk
  <1>2. /\ WireInv' /\ ModifiersInv' /\ (mixed' \/ MapInv')
        /\ \A i \in 1 .. Len(wire') :
             /\ \A k \in KbdLetters' : Makes(i, KeyCode(k))' => Lasts(k, i + 1)'
             /\ wire'[i] = "6B" /\ Extended(i)' => Lasts("left", i + 1)'
        /\ key' # "nul" => key' \in map' /\ Lasts(KeyboardPart!KeyOf(key), 1)'
        /\ arrow' # "nul" => Lasts("left", 1)'
    BY <1>1, QuietKeeps
  <1>3. ~news' /\ ~passed' => ascii' \in {"nul", IF arrow' # "nul" THEN arrow' ELSE key'}
    BY <1>1 DEF KeyboardInv, OfferInv
  <1>4. OfferInv'
    BY <1>1, <1>2, <1>3 DEF OfferInv
  <1>5. /\ KbdType /\ GetcInv /\ getc \in KbdGetc /\ idx \in 0 .. BufLen - 1
        /\ buf \in [0 .. BufLen -> KbdChars \cup {"nul", "left"}] /\ BufLen \in Nat \ {0}
    BY KeyboardAssumption DEF KeyboardInv, KbdType
  <1>6. getc' \in KbdGetc /\ GetcInv'
    <2>1. CASE KeyboardPart!GetcCall
      <3>1. getc' = [getc EXCEPT !.pc = "wait", !.seen = idx, !.got = "nul", !.since = {}]
        BY <2>1 DEF KeyboardPart!GetcCall, KeyboardPart!Nul
      <3>2. getc' \in KbdGetc /\ getc'.pc = "wait" /\ getc'.seen = idx /\ getc'.since = {}
        BY <1>5, <3>1 DEF KbdGetc
      <3> QED  BY <1>1, <3>2 DEF GetcInv, KeyboardPart!GetcTyped
    <2>2. CASE KeyboardPart!GetcSees
      <3>1. getc' = [getc EXCEPT !.pc = "read"] /\ getc.pc = "wait" /\ getc.seen # idx
        BY <2>2 DEF KeyboardPart!GetcSees
      <3>2. getc' \in KbdGetc /\ getc'.pc = "read" /\ getc'.since = getc.since
        BY <1>5, <3>1 DEF KbdGetc
      <3> QED  BY <1>1, <1>5, <3>1, <3>2 DEF GetcInv, KeyboardPart!GetcTyped
    <2>3. CASE KeyboardPart!GetcReturns
      <3> DEFINE g == IF idx = 0 THEN "garbage" ELSE buf[idx - 1]
      <3>1. /\ getc' = [getc EXCEPT !.pc = "done", !.seen = 0, !.at = idx, !.got = g]
            /\ getc.pc = "read"
        BY <2>3 DEF KeyboardPart!GetcReturns, KeyboardPart!Last, KeyboardPart!Garbage
      <3>2. g \in KbdChars \cup {"nul", "left", "garbage"} /\ 0 \in 0 .. BufLen - 1
        BY <1>5
      <3>3. idx # 0 => g = buf[idx - 1] /\ idx > 0
        BY <1>5
      <3> HIDE DEF g
      <3>4. /\ getc' \in KbdGetc /\ getc'.pc = "done" /\ getc'.at = idx /\ getc'.got = g
            /\ getc'.since = getc.since
        BY <1>5, <3>1, <3>2 DEF KbdGetc
      <3>5. g \in getc.since \/ idx = 0 \/ "combination" \in getc.since
        BY <1>5, <3>1, <3>3 DEF GetcInv
      <3> QED  BY <1>1, <3>4, <3>5 DEF GetcInv, KeyboardPart!GetcTyped
    <2> QED  BY <2>1, <2>2, <2>3
  <1>7. KbdType'
    BY <1>1, <1>5, <1>6 DEF KbdType
  <1> QED  BY <1>2, <1>4, <1>6, <1>7 DEF KeyboardInv

LEMMA ViewportArrives ==
    ASSUME KeyboardInv, KeyboardPart!DesktopPass \/ KeyboardPart!ViewportGetc
    PROVE  KeyboardInv'
  <1>1. UNCHANGED <<held, events, wire, shift, ctrl, release, special, key, arrow, buf, idx, map,
                    mixed, getc>>
    BY DEF KeyboardPart!DesktopPass, KeyboardPart!ViewportGetc, KeyboardPart!driver,
       KeyboardPart!flags
  <1>2. /\ WireInv' /\ ModifiersInv' /\ (mixed' \/ MapInv')
        /\ \A i \in 1 .. Len(wire') :
             /\ \A k \in KbdLetters' : Makes(i, KeyCode(k))' => Lasts(k, i + 1)'
             /\ wire'[i] = "6B" /\ Extended(i)' => Lasts("left", i + 1)'
        /\ key' # "nul" => key' \in map' /\ Lasts(KeyboardPart!KeyOf(key), 1)'
        /\ arrow' # "nul" => Lasts("left", 1)'
    BY <1>1, QuietKeeps
  <1>3. KbdType /\ OfferInv /\ GetcInv
    BY DEF KeyboardInv
  <1>4. /\ shown' = shown /\ passed' \in BOOLEAN
        /\ ~news' /\ ~passed' => ascii' \in {"nul", IF arrow' # "nul" THEN arrow' ELSE key'}
        /\ news' \in BOOLEAN /\ ascii' \in KbdChars \cup {"nul", "left"} /\ vp' \in KbdVp
    <2>1. CASE KeyboardPart!DesktopPass
      BY <1>1, <1>3, <2>1 DEF KeyboardPart!DesktopPass, KeyboardPart!Nul, KbdType
    <2>2. CASE KeyboardPart!ViewportGetc
      <3>1. /\ news' = news /\ ascii' \in {ascii, "nul"} /\ shown' = shown /\ passed' = passed
            /\ \/ \E c \in {"wait", "take", "clear"} : vp' = [vp EXCEPT !.pc = c]
               \/ vp' = [pc |-> "clear", c |-> ascii]
        BY <2>2 DEF KeyboardPart!ViewportGetc, KeyboardPart!VpSees, KeyboardPart!VpTakes,
           KeyboardPart!VpReturns, KeyboardPart!VpStep, KeyboardPart!Nul
      <3>2. vp' \in KbdVp
        BY <1>3, <3>1 DEF KbdType, KbdVp
      <3> QED  BY <1>1, <1>3, <3>1, <3>2 DEF KbdType, OfferInv
    <2> QED  BY <2>1, <2>2
  <1>5. OfferInv'
    BY <1>1, <1>2, <1>4 DEF OfferInv
  <1>6. KbdType'
    BY <1>1, <1>3, <1>4 DEF KbdType
  <1>7. GetcInv'
    BY <1>1, <1>3 DEF GetcInv, KeyboardPart!GetcTyped
  <1> QED  BY <1>2, <1>5, <1>6, <1>7 DEF KeyboardInv

LEMMA FrontArrives ==
    ASSUME KeyboardInv, KeyboardPart!FrontChanges
    PROVE  KeyboardInv'
  <1>1. /\ UNCHANGED <<held, wire, shift, ctrl, release, special, key, arrow, buf, idx, map,
                       mixed, getc, news, ascii, passed, vp>>
        /\ events < MaxEvents /\ events' = events + 1 /\ shown' = ~shown
    BY DEF KeyboardPart!FrontChanges, KeyboardPart!driver, KeyboardPart!flags
  <1>2. /\ WireInv' /\ ModifiersInv' /\ (mixed' \/ MapInv')
        /\ \A i \in 1 .. Len(wire') :
             /\ \A k \in KbdLetters' : Makes(i, KeyCode(k))' => Lasts(k, i + 1)'
             /\ wire'[i] = "6B" /\ Extended(i)' => Lasts("left", i + 1)'
        /\ key' # "nul" => key' \in map' /\ Lasts(KeyboardPart!KeyOf(key), 1)'
        /\ arrow' # "nul" => Lasts("left", 1)'
    BY <1>1, QuietKeeps
  <1>3. KbdType /\ OfferInv /\ GetcInv
    BY DEF KeyboardInv
  <1>4. OfferInv'
    BY <1>1, <1>2, <1>3 DEF OfferInv
  <1>5. events' \in 0 .. MaxEvents
    BY <1>1, <1>3, KeyboardAssumption DEF KbdType
  <1>6. KbdType'
    BY <1>1, <1>3, <1>5 DEF KbdType
  <1>7. GetcInv'
    BY <1>1, <1>3 DEF GetcInv, KeyboardPart!GetcTyped
  <1> QED  BY <1>2, <1>4, <1>6, <1>7 DEF KeyboardInv

LEMMA KeyboardInvariant == Spec => []KeyboardInv
  <1>1. Init => KeyboardInv
    BY InitKeyboard DEF Init
  <1>2. KeyboardInv /\ [Next]_vars => KeyboardInv'
    <2> SUFFICES ASSUME KeyboardInv, [Next]_vars PROVE KeyboardInv'
      OBVIOUS
    <2>1. CASE KeyboardPart!Next
      <3>1. ASSUME NEW k \in Keys, KeyboardPart!Press(k) \/ KeyboardPart!Release(k)
            PROVE  KeyboardInv'
        BY <3>1, PressMoves, ReleaseMoves, KeyMovesArrive
      <3> QED  BY <2>1, <3>1, ReceiveScancodeArrives, GetcArrives, FrontArrives,
               ViewportArrives DEF KeyboardPart!Next
    <2>2. CASE UNCHANGED keyboard
      <3>1. UNCHANGED <<held, events, wire, shift, ctrl, release, special, key, arrow, buf, idx,
                        map, mixed, getc, news, ascii, shown, passed, vp>>
        BY <2>2 DEF keyboard
      <3> QED  BY <3>1 DEF KeyboardInv, KbdType, GetcInv, KeyboardPart!GetcTyped, WireInv,
               ModifiersInv, Follows, OfferInv, MapInv, Lasts, Stays, Makes, Breaks, Broken,
               Extended
    <2> QED  BY <2>1, <2>2 DEF Next, NextAudio, NextPs2, NextKeyboard, NextProc, NextDesktop,
                               NextBuffs, vars
  <1> QED  BY <1>1, <1>2, PTL DEF Spec

\* Once its bytes have arrived the driver knows which modifiers are down, and
\* the characters it takes for pressed are those of keys that are, unless shift
\* has changed with one of them down: for any keys, presses and delays.
THEOREM KeysAgreeHolds == Spec => []KeysAgree
  <1>1. KeyboardInv => KeysAgree
    <2> SUFFICES ASSUME KeyboardInv PROVE KeysAgree
      OBVIOUS
    <2>1. ASSUME wire = <<>> PROVE Len(wire) = 0 /\ 1 .. Len(wire) = {}
      BY <2>1
    <2>2. KeyboardPart!ModifiersAgree
      BY <2>1 DEF KeyboardInv, ModifiersInv, Follows, WireInv, KeyboardPart!ModifiersAgree
    <2>3. KeyboardPart!NoStuckKey
      <3>1. ASSUME wire = <<>>, ~mixed, NEW c \in map \ {"nul"}
            PROVE  KeyboardPart!KeyOf(c) \in held
        BY <2>1, <3>1 DEF KeyboardInv, MapInv, Stays
      <3> QED  BY <3>1 DEF KeyboardPart!NoStuckKey, KeyboardPart!Nul
    <2> QED  BY <2>2, <2>3 DEF KeysAgree, KeyboardPart!KeysAgree
  <1> QED  BY <1>1, KeyboardInvariant, PTL

\* getc_blk returns what was typed while it waited, however the bytes and its
\* two readings of the index interleave, but for a buffer that wraps and for
\* combinations.
THEOREM GetcTypedHolds == Spec => []GetcTyped
  <1>1. KeyboardInv => GetcTyped
    BY DEF KeyboardInv, GetcInv, GetcTyped
  <1> QED  BY <1>1, KeyboardInvariant, PTL

\* The key that a viewport is offered is down, once the desktop has seen the
\* last byte, if the viewport was in front and not minimised when it did.
THEOREM OfferedIsHeldHolds == Spec => []OfferedIsHeld
  <1>1. KeyboardInv => OfferedIsHeld
    <2> SUFFICES ASSUME KeyboardInv, wire = <<>>, ~news, ~passed, ascii # "nul"
                 PROVE  KeyboardPart!KeyOf(ascii) \in held
      BY DEF OfferedIsHeld, KeyboardPart!OfferedIsHeld, KeyboardPart!Nul
    <2>1. 1 .. Len(wire) = {}
      OBVIOUS
    <2>2. \A k : Lasts(k, 1) => k \in held
      BY <2>1 DEF Lasts
    <2>3. arrow \in {"nul", "left"} /\ KeyboardPart!KeyOf("left") = "left"
      BY KeysOf DEF KeyboardInv, KbdType
    <2> QED  BY <2>2, <2>3 DEF KeyboardInv, OfferInv
  <1> QED  BY <1>1, KeyboardInvariant, PTL
-----------------------------------------------------------------------------
(* The file in memory: its block is of pages that nobody else has, and is  *)
(* as long as the file.                                                    *)

BuffsBytes == 0 .. NPages * PageSize - 1
\* The lengths that a step of fwrite works with are within the bound.
WriterType ==
    /\ writer.pc \in {"resize", "write"} => writer.head + writer.n <= MaxLen
    /\ writer.pc = "none" => size = 0 /\ stored = {}
\* What writes to the block stays in it.
BlockInv ==
    /\ room > 0 \/ page_base = -1
    /\ \A p \in page_base .. page_base + room - 1 : p \in reserved \ theirs
    /\ size <= room * PageSize
\* fwrite has made room, or its position is behind the end and nothing is
\* written there.
RoomMade ==
    writer.pc = "write" => writer.head + writer.n <= size \/ size <= writer.head
\* Its types; and until it is disturbed, that each byte stored is in it, and
\* the pages of the others are theirs.
BuffsTyped ==
    /\ size \in BuffsPart!Lens /\ num_pages \in 0 .. MaxLen \div PageSize + 1
    /\ page_base \in BuffsPart!Page \cup {-1} /\ room \in 0 .. NPages
    /\ theirs \subseteq reserved /\ reserved \subseteq BuffsPart!Page
    /\ mem \in [BuffsBytes -> {0, 1, 2}] /\ stored \subseteq BuffsPart!Lens
    /\ writer \in [head : BuffsPart!Lens, pc : {"none", "idle", "resize", "write"},
                   n : Sizes \cup {0}]
    /\ disturbed \in BOOLEAN
StoredInv ==
    \A i \in stored :
      /\ i < size /\ mem[BuffsPart!Address(page_base, i)] = 1
      /\ BuffsPart!PageOf(BuffsPart!Address(page_base, i)) \in reserved \ theirs
TheirsInv == \A a \in BuffsBytes : BuffsPart!PageOf(a) \in theirs => mem[a] = 2
BuffsInv ==
    /\ BuffsTyped /\ WriterType
    /\ disturbed \/ (BlockInv /\ RoomMade /\ StoredInv /\ TheirsInv)

\* Pages and the bytes in them.
LEMMA PageBounds ==
    ASSUME NEW a \in Int
    PROVE  /\ BuffsPart!PageOf(a) \in Int
           /\ BuffsPart!PageOf(a) * PageSize <= a
           /\ a < BuffsPart!PageOf(a) * PageSize + PageSize
  <1> DEFINE q == a \div PageSize
             m == a % PageSize
  <1>0. PageSize \in Nat \ {0}
    BY BuffsAssumption
  <1>1. q \in Int /\ m \in 0 .. PageSize - 1 /\ a = PageSize * q + m
    BY <1>0
  <1>2. BuffsPart!PageOf(a) = q
    BY DEF BuffsPart!PageOf
  <1> HIDE DEF q, m
  <1>3. q * PageSize = PageSize * q
    BY <1>0, <1>1
  <1> QED  BY <1>0, <1>1, <1>2, <1>3

LEMMA TimesPage ==
    ASSUME NEW p \in Int, NEW q \in Int, p <= q
    PROVE  p * PageSize <= q * PageSize
  BY BuffsAssumption

LEMMA InBlock ==
    ASSUME NEW b \in Int, NEW n \in Nat, NEW i \in Nat, i < n * PageSize
    PROVE  /\ BuffsPart!Address(b, i) \in Int
           /\ BuffsPart!PageOf(BuffsPart!Address(b, i)) \in b .. b + n - 1
  <1>0. PageSize \in Nat
    BY BuffsAssumption
  <1>1. BuffsPart!Address(b, i) = b * PageSize + i /\ b * PageSize + i \in Int
    BY <1>0 DEF BuffsPart!Address
  <1>2. PICK q \in Int : /\ q = BuffsPart!PageOf(b * PageSize + i)
                         /\ q * PageSize <= b * PageSize + i
                         /\ b * PageSize + i < q * PageSize + PageSize
    BY <1>1, PageBounds
  <1>3. ASSUME q + 1 <= b PROVE FALSE
    <2>1. (q + 1) * PageSize <= b * PageSize
      BY <1>3, TimesPage
    <2>2. (q + 1) * PageSize = q * PageSize + PageSize
      BY <1>0
    <2> QED  BY <1>0, <1>1, <1>2, <2>1, <2>2
  <1>4. ASSUME b + n <= q PROVE FALSE
    <2>1. (b + n) * PageSize <= q * PageSize
      BY <1>4, TimesPage
    <2>2. (b + n) * PageSize = b * PageSize + n * PageSize
      BY <1>0
    <2> QED  BY <1>0, <1>1, <1>2, <2>1, <2>2
  <1> QED  BY <1>1, <1>2, <1>3, <1>4

LEMMA InMemory ==
    ASSUME NEW a \in Int
    PROVE  BuffsPart!PageOf(a) \in BuffsPart!Page <=> a \in BuffsBytes
  <1>0. PageSize \in Nat /\ PageSize > 0 /\ NPages \in Nat
    BY BuffsAssumption
  <1>1. PICK q \in Int : /\ q = BuffsPart!PageOf(a) /\ q * PageSize <= a
                         /\ a < q * PageSize + PageSize
    BY PageBounds
  <1>2. ASSUME q >= 0 PROVE a >= 0
    <2>1. 0 * PageSize <= q * PageSize
      BY <1>2, TimesPage
    <2> QED  BY <1>0, <1>1, <2>1
  <1>3. ASSUME q + 1 <= 0 PROVE a < 0
    <2>1. (q + 1) * PageSize <= 0 * PageSize
      BY <1>3, TimesPage
    <2>2. (q + 1) * PageSize = q * PageSize + PageSize
      BY <1>0
    <2> QED  BY <1>0, <1>1, <2>1, <2>2
  <1>4. ASSUME q + 1 <= NPages PROVE a < NPages * PageSize
    <2>1. (q + 1) * PageSize <= NPages * PageSize
      BY <1>0, <1>4, TimesPage
    <2>2. (q + 1) * PageSize = q * PageSize + PageSize
      BY <1>0
    <2> QED  BY <1>0, <1>1, <2>1, <2>2
  <1>5. ASSUME NPages <= q PROVE a >= NPages * PageSize
    <2>1. NPages * PageSize <= q * PageSize
      BY <1>0, <1>5, TimesPage
    <2> QED  BY <1>0, <1>1, <2>1
  <1> QED  BY <1>0, <1>1, <1>2, <1>3, <1>4, <1>5 DEF BuffsPart!Page, BuffsBytes

\* A block has room for what it was reserved for.
LEMMA BlockHolds ==
    ASSUME NEW n \in Nat
    PROVE  /\ BuffsPart!calculateBlocks(n) \in Nat
           /\ n <= BuffsPart!calculateBlocks(n) * PageSize
           /\ (n > 0) => (BuffsPart!calculateBlocks(n) > 0)
           /\ (n \in {0, 1}) => (BuffsPart!calculateBlocks(n) = n)
  <1>0. PageSize \in Nat /\ PageSize > 1
    BY BuffsAssumption
  <1>1. PICK q \in Int : /\ q = BuffsPart!calculateBlocks(n)
                         /\ q * PageSize <= n + PageSize - 1
                         /\ n + PageSize - 1 < q * PageSize + PageSize
    <2>1. n + PageSize - 1 \in Int
      BY <1>0
    <2> QED  BY <2>1, PageBounds DEF BuffsPart!PageOf, BuffsPart!calculateBlocks
  <1>2. ASSUME q + 1 <= 0 PROVE FALSE
    <2>1. (q + 1) * PageSize <= 0 * PageSize
      BY <1>2, TimesPage
    <2>2. (q + 1) * PageSize = q * PageSize + PageSize
      BY <1>0
    <2> QED  BY <1>0, <1>1, <2>1, <2>2
  <1>3. n > 0 => q # 0
    <2>1. 0 * PageSize = 0
      BY <1>0
    <2> QED  BY <1>0, <1>1, <2>1
  <1>4. ASSUME n \in {0, 1}, q >= n + 1 PROVE FALSE
    <2>1. (n + 1) * PageSize <= q * PageSize
      BY <1>4, TimesPage
    <2>2. (n + 1) * PageSize = n * PageSize + PageSize
      BY <1>0
    <2>3. n * PageSize >= n
      BY <1>0, <1>4
    <2> QED  BY <1>0, <1>1, <2>1, <2>2, <2>3
  <1>5. n <= q * PageSize
    BY <1>0, <1>1
  <1> QED  BY <1>0, <1>1, <1>2, <1>3, <1>4, <1>5

LEMMA CountWithin ==
    ASSUME NEW n \in 0 .. MaxLen
    PROVE  BuffsPart!PageCount(n) \in 1 .. MaxLen \div PageSize + 1
  <1>0. PageSize \in Nat /\ PageSize > 0 /\ MaxLen \in Nat
    BY BuffsAssumption
  <1>1. PICK q \in Int : q = n \div PageSize /\ q * PageSize <= n /\ n < q * PageSize + PageSize
    BY PageBounds DEF BuffsPart!PageOf
  <1>2. PICK m \in Int : /\ m = MaxLen \div PageSize /\ m * PageSize <= MaxLen
                         /\ MaxLen < m * PageSize + PageSize
    BY <1>0, PageBounds DEF BuffsPart!PageOf
  <1>3. ASSUME m + 1 <= q PROVE FALSE
    <2>1. (m + 1) * PageSize <= q * PageSize
      BY <1>3, TimesPage
    <2>2. (m + 1) * PageSize = m * PageSize + PageSize
      BY <1>0
    <2> QED  BY <1>0, <1>1, <1>2, <2>1, <2>2
  <1>4. ASSUME q + 1 <= 0 PROVE FALSE
    <2>1. (q + 1) * PageSize <= 0 * PageSize
      BY <1>4, TimesPage
    <2>2. (q + 1) * PageSize = q * PageSize + PageSize
      BY <1>0
    <2> QED  BY <1>0, <1>1, <2>1, <2>2
  <1> QED  BY <1>1, <1>2, <1>3, <1>4 DEF BuffsPart!PageCount

\* Numbers have a least one.
LEMMA LeastOf ==
    ASSUME NEW S \in SUBSET Nat, S # {}
    PROVE  \E x \in S : \A y \in S : x <= y
  <1> DEFINE less == {ss \in Nat \X Nat : ss[1] < ss[2]}
  <1>1. IsWellFoundedOn(less, Nat)
    BY NatLessThanWellFounded DEF OpToRel
  <1>2. PICK x \in S : \A y \in S : ~(<<y, x>> \in less)
    <2> HIDE DEF less
    <2> QED  BY <1>1, WFMin
  <1>3. ASSUME NEW y \in S PROVE x <= y
    <2>1. x \in Nat /\ y \in Nat
      OBVIOUS
    <2>2. <<y, x>> \in less <=> y < x
      BY <2>1
    <2> QED  BY <1>2, <2>1, <2>2
  <1> QED  BY <1>3

LEMMA RegionFound ==
    ASSUME NEW n \in Nat
    PROVE  LET i == BuffsPart!findRegionIdx(n)
           IN  \/ i = -1
               \/ /\ i \in BuffsPart!Page /\ n > 0
                  /\ BuffsPart!Block(i, n) \subseteq BuffsPart!Page \ reserved
  <1> DEFINE fits == {i \in BuffsPart!Page :
                        BuffsPart!Block(i, n) \subseteq BuffsPart!Page \ reserved}
  <1>1. CASE n = 0 \/ fits = {}
    BY <1>1 DEF BuffsPart!findRegionIdx, BuffsPart!LastPage
  <1>2. CASE ~(n = 0 \/ fits = {})
    <2>1. BuffsPart!findRegionIdx(n) = BuffsPart!Min(fits)
      BY <1>2 DEF BuffsPart!findRegionIdx
    <2>2. fits \in SUBSET Nat /\ fits # {}
      BY <1>2, BuffsAssumption DEF BuffsPart!Page
    <2>3. \E x \in fits : \A y \in fits : x <= y
      <3> HIDE DEF fits
      <3> QED  BY <2>2, LeastOf
    <2>4. BuffsPart!Min(fits) \in fits
      <3> HIDE DEF fits
      <3> QED  BY <2>3 DEF BuffsPart!Min
    <2> QED  BY <1>2, <2>1, <2>4
  <1> QED  BY <1>1, <1>2

LEMMA SameRemainder ==
    ASSUME NEW d \in Nat \ {0}, NEW i \in Nat, i >= d
    PROVE  (i - d) % d = i % d
  <1> DEFINE q == i \div d
             m == i % d
             p == (i - d) \div d
             k == (i - d) % d
  <1>1. q \in Int /\ m \in 0 .. d - 1 /\ i = d * q + m
    OBVIOUS
  <1>2. p \in Int /\ k \in 0 .. d - 1 /\ i - d = d * p + k
    <2>1. i - d \in Int
      OBVIOUS
    <2> QED  BY <2>1
  <1> HIDE DEF q, m, p, k
  <1>3. d * (p + 1) = d * p + d
    BY <1>2
  <1>4. ASSUME p + 1 < q PROVE FALSE
    <2>1. d * (p + 2) <= d * q
      BY <1>1, <1>2, <1>4
    <2>2. d * (p + 2) = d * p + d + d
      BY <1>2
    <2> QED  BY <1>1, <1>2, <2>1, <2>2
  <1>5. ASSUME q < p + 1 PROVE FALSE
    <2>1. d * q <= d * p
      BY <1>1, <1>2, <1>5
    <2> QED  BY <1>1, <1>2, <2>1
  <1>6. q = p + 1
    BY <1>1, <1>2, <1>4, <1>5
  <1>7. k = m
    BY <1>1, <1>2, <1>3, <1>6
  <1> QED  BY <1>7 DEF k, m

\* What a copy upwards writes: there is a function that the definition names,
\* as every byte depends on earlier ones only.
LEMMA CopyIs ==
    ASSUME NEW b \in Int, b = page_base, NEW new \in Int, NEW len \in Nat
    PROVE  LET byte == BuffsPart!Copied(new, len)
           IN  byte = [i \in 0 .. len - 1 |->
                 IF BuffsPart!Address(b, i) \in
                      BuffsPart!Address(new, 0) .. BuffsPart!Address(new, i) - 1
                 THEN byte[BuffsPart!Address(b, i) - BuffsPart!Address(new, 0)]
                 ELSE mem[BuffsPart!Address(b, i)]]
  <1> DEFINE A(i) == BuffsPart!Address(b, i)
             Up(i) == A(i) \in BuffsPart!Address(new, 0) .. BuffsPart!Address(new, i) - 1
             d == (new - b) * PageSize
             Is(f) == f = [i \in 0 .. len - 1 |->
                        IF Up(i) THEN f[A(i) - BuffsPart!Address(new, 0)] ELSE mem[A(i)]]
             g == [i \in 0 .. len - 1 |-> mem[A(IF d > 0 THEN i % d ELSE i)]]
  <1>0. PageSize \in Nat /\ d \in Int /\ new * PageSize \in Int /\ b * PageSize \in Int
        /\ d = new * PageSize - b * PageSize
    BY BuffsAssumption
  <1>1. BuffsPart!Copied(new, len) = CHOOSE f : Is(f)
    BY DEF BuffsPart!Copied
  <1>2. ASSUME NEW i \in 0 .. len - 1
        PROVE  /\ Up(i) <=> (0 < d /\ d <= i)
               /\ A(i) - BuffsPart!Address(new, 0) = i - d
    <2> HIDE DEF d
    <2> QED  BY <1>0 DEF BuffsPart!Address
  <1>3. ASSUME NEW i \in 0 .. len - 1
        PROVE  g[i] = IF Up(i) THEN g[A(i) - BuffsPart!Address(new, 0)] ELSE mem[A(i)]
    <2>1. CASE Up(i)
      <3>1. 0 < d /\ d <= i /\ i - d \in 0 .. len - 1
        <4> HIDE DEF d, A, Up
        <4> QED  BY <1>0, <1>2, <2>1
      <3>2. g[i - d] = mem[A((i - d) % d)] /\ g[i] = mem[A(i % d)]
        <4> HIDE DEF d, A, Up
        <4> QED  BY <3>1
      <3>3. (i - d) % d = i % d
        <4> HIDE DEF d
        <4>1. d \in Nat \ {0} /\ i \in Nat /\ i >= d
          BY <1>0, <3>1
        <4> QED  BY <4>1, SameRemainder
      <3> HIDE DEF d, A, Up, g
      <3> QED  BY <1>2, <2>1, <3>2, <3>3
    <2>2. CASE ~Up(i)
      <3>1. ~(0 < d /\ d <= i)
        <4> HIDE DEF d, A, Up
        <4> QED  BY <1>2, <2>2
      <3>2. d > 0 => i % d = i
        <4> HIDE DEF d
        <4> QED  BY <1>0, <3>1
      <3>3. g[i] = mem[A(i)]
        <4> HIDE DEF d, A, Up
        <4> QED  BY <3>2
      <3> HIDE DEF d, A, Up, g
      <3> QED  BY <2>2, <3>3
    <2> QED  BY <2>1, <2>2
  <1>4. Is(g)
    <2>1. g = [i \in 0 .. len - 1 |-> g[i]]
      OBVIOUS
    <2> HIDE DEF g, Up, A, d
    <2> QED  BY <1>3, <2>1
  <1>5. Is(CHOOSE f : Is(f))
    <2> HIDE DEF Is
    <2> QED  BY <1>4
  <1> QED  BY <1>1, <1>5

\* Of a copy, the bytes that lie outside of its target are the old ones, and
\* all of them are bytes of memory.
LEMMA CopyKeeps ==
    ASSUME page_base \in Int, NEW new \in Int, NEW len \in Nat,
           NEW i \in 0 .. len - 1,
           BuffsPart!Address(page_base, i) \notin
             BuffsPart!Address(new, 0) .. BuffsPart!Address(new, 0) + len - 1
    PROVE  BuffsPart!Copied(new, len)[i] = mem[BuffsPart!Address(page_base, i)]
  <1> DEFINE byte == BuffsPart!Copied(new, len)
             old == BuffsPart!Address(page_base, i)
  <1>1. byte[i] = IF old \in BuffsPart!Address(new, 0) .. BuffsPart!Address(new, i) - 1
                  THEN byte[old - BuffsPart!Address(new, 0)] ELSE mem[old]
    <2> HIDE DEF byte
    <2>1. byte = [j \in 0 .. len - 1 |->
                   IF BuffsPart!Address(page_base, j) \in
                        BuffsPart!Address(new, 0) .. BuffsPart!Address(new, j) - 1
                   THEN byte[BuffsPart!Address(page_base, j) - BuffsPart!Address(new, 0)]
                   ELSE mem[BuffsPart!Address(page_base, j)]]
      BY CopyIs DEF byte
    <2> QED  BY <2>1
  <1>2. old \notin BuffsPart!Address(new, 0) .. BuffsPart!Address(new, i) - 1
    <2>1. PageSize \in Nat /\ page_base * PageSize \in Int /\ new * PageSize \in Int
      BY BuffsAssumption
    <2> QED  BY <2>1 DEF BuffsPart!Address
  <1> HIDE DEF byte, old
  <1>3. byte[i] = mem[old]
    BY <1>1, <1>2
  <1> QED  BY <1>3 DEF byte, old

LEMMA CopyType ==
    ASSUME page_base \in Int, NEW new \in Int, NEW len \in Nat, NEW T,
           \A i \in 0 .. len - 1 : mem[BuffsPart!Address(page_base, i)] \in T
    PROVE  \A i \in 0 .. len - 1 : BuffsPart!Copied(new, len)[i] \in T
  <1> DEFINE byte == BuffsPart!Copied(new, len)
             S == {i \in 0 .. len - 1 : byte[i] \notin T}
             d == (new - page_base) * PageSize
  <1>0. PageSize \in Nat /\ d \in Int /\ new * PageSize \in Int /\ page_base * PageSize \in Int
        /\ d = new * PageSize - page_base * PageSize
    BY BuffsAssumption
  <1>1. ASSUME NEW i \in 0 .. len - 1
        PROVE  byte[i] = IF 0 < d /\ d <= i THEN byte[i - d]
                         ELSE mem[BuffsPart!Address(page_base, i)]
    <2> DEFINE old == BuffsPart!Address(page_base, i)
    <2>1. byte[i] = IF old \in BuffsPart!Address(new, 0) .. BuffsPart!Address(new, i) - 1
                    THEN byte[old - BuffsPart!Address(new, 0)] ELSE mem[old]
      <3> HIDE DEF byte
      <3>1. byte = [j \in 0 .. len - 1 |->
                     IF BuffsPart!Address(page_base, j) \in
                          BuffsPart!Address(new, 0) .. BuffsPart!Address(new, j) - 1
                     THEN byte[BuffsPart!Address(page_base, j) - BuffsPart!Address(new, 0)]
                     ELSE mem[BuffsPart!Address(page_base, j)]]
        BY CopyIs DEF byte
      <3> QED  BY <3>1
    <2>2. /\ old \in BuffsPart!Address(new, 0) .. BuffsPart!Address(new, i) - 1
               <=> (0 < d /\ d <= i)
          /\ old - BuffsPart!Address(new, 0) = i - d
      <3> HIDE DEF d
      <3> QED  BY <1>0 DEF BuffsPart!Address
    <2> HIDE DEF byte, d, old
    <2>3. byte[i] = IF 0 < d /\ d <= i THEN byte[i - d] ELSE mem[old]
      BY <2>1, <2>2
    <2> QED  BY <2>3 DEF old
  <1>2. ASSUME S # {} PROVE FALSE
    <2>1. S \in SUBSET Nat
      OBVIOUS
    <2>2. PICK i \in S : \A j \in S : i <= j
      <3> HIDE DEF S
      <3> QED  BY <1>2, <2>1, LeastOf
    <2> HIDE DEF byte, d
    <2>3. i \in 0 .. len - 1 /\ byte[i] \notin T
      OBVIOUS
    <2>4. 0 < d /\ d <= i
      BY <1>1, <2>3
    <2>5. i - d \in 0 .. len - 1 /\ i - d < i
      BY <1>0, <2>3, <2>4
    <2>6. i - d \in S
      BY <1>1, <2>3, <2>4, <2>5
    <2>7. i <= i - d
      <3> HIDE DEF S
      <3> QED  BY <2>2, <2>6
    <2> QED  BY <2>3, <2>5, <2>7
  <1> HIDE DEF byte
  <1>3. \A i \in 0 .. len - 1 : byte[i] \in T
    BY <1>2
  <1> QED  BY <1>3 DEF byte
-----------------------------------------------------------------------------
(* Each step.                                                              *)

\* A resize that moves the file: the new block is of free pages, and what was
\* stored is copied to it before the old one is given back.
LEMMA MoveKeeps ==
    ASSUME BuffsInv, ~disturbed, writer.pc # "none", NEW len \in BuffsPart!Lens, NEW cuts \in BOOLEAN,
           BuffsPart!Move(len, cuts), theirs' = theirs, NEW kept \in SUBSET stored,
           \A i \in kept : i < len
    PROVE  /\ size' = len /\ disturbed' = cuts /\ num_pages' \in 0 .. MaxLen \div PageSize + 1
           /\ page_base' \in BuffsPart!Page \cup {-1} /\ room' \in 0 .. NPages
           /\ reserved' \subseteq BuffsPart!Page /\ theirs \subseteq reserved'
           /\ mem' \in [BuffsBytes -> {0, 1, 2}]
           /\ BlockInv'
           /\ \A i \in kept :
                /\ mem'[BuffsPart!Address(page_base', i)] = 1
                /\ BuffsPart!PageOf(BuffsPart!Address(page_base', i)) \in reserved' \ theirs
           /\ \A a \in BuffsBytes : BuffsPart!PageOf(a) \in theirs => mem'[a] = 2
  <1>0. /\ PageSize \in Nat /\ PageSize > 1 /\ NPages \in Nat /\ MaxLen \in Nat /\ len \in 0 .. MaxLen
        /\ page_base \in Int /\ size \in Nat /\ room \in Nat
        /\ stored \subseteq Nat /\ theirs \subseteq reserved /\ reserved \subseteq BuffsPart!Page
        /\ mem \in [BuffsBytes -> {0, 1, 2}]
    BY BuffsAssumption DEF BuffsInv, BuffsTyped, BuffsPart!Lens, BuffsPart!Page
  <1>1. /\ page_base \in reserved \ theirs \/ page_base = -1
        /\ \A i \in stored :
             /\ i < size /\ mem[BuffsPart!Address(page_base, i)] = 1
             /\ BuffsPart!PageOf(BuffsPart!Address(page_base, i)) \in reserved \ theirs
        /\ \A a \in BuffsBytes : BuffsPart!PageOf(a) \in theirs => mem[a] = 2
    <2>1. page_base \in reserved \ theirs \/ page_base = -1
      <3>1. room > 0 => page_base \in page_base .. page_base + room - 1
        BY <1>0
      <3> QED  BY <3>1 DEF BuffsInv, BlockInv
    <2> QED  BY <1>0, <2>1 DEF BuffsInv, StoredInv, TheirsInv
  <1>2. PICK new : new = BuffsPart!findRegionIdx(len)
    OBVIOUS
  <1>3. PICK n : n = BuffsPart!calculateBlocks(len)
    OBVIOUS
  <1>4. /\ n \in Nat /\ len <= n * PageSize /\ ((len > 0) => (n > 0)) /\ ((len = 0) => (n = 0))
        /\ BuffsPart!Block(new, len) = new .. new + n - 1
    BY <1>0, <1>3, BlockHolds DEF BuffsPart!Block
  <1>5. \/ new = -1 /\ len = 0
        \/ new \in BuffsPart!Page /\ len > 0 /\ BuffsPart!Block(new, len) \subseteq BuffsPart!Page \ reserved
    BY <1>0, <1>2, RegionFound DEF BuffsPart!Move, BuffsPart!Finds, BuffsPart!LastPage
  <1>6. /\ new \in Int /\ new \in BuffsPart!Page \cup {-1} /\ n \in 0 .. NPages
        /\ \A p \in new .. new + n - 1 : p \in BuffsPart!Page \ reserved
        /\ (n > 0) \/ (new = -1)
    <2>1. \A p \in new .. new + n - 1 : p \in BuffsPart!Page \ reserved
      BY <1>4, <1>5
    <2>2. new \in Int /\ new \in BuffsPart!Page \cup {-1} /\ ((n > 0) \/ (new = -1))
      BY <1>4, <1>5 DEF BuffsPart!Page
    <2>3. CASE n > 0
      <3>1. new + n - 1 \in new .. new + n - 1 /\ new \in new .. new + n - 1
        BY <1>4, <2>2, <2>3
      <3>2. new \in 0 .. NPages - 1 /\ new + n - 1 \in 0 .. NPages - 1
        BY <2>1, <3>1 DEF BuffsPart!Page
      <3>3. n <= NPages
        BY <1>0, <1>4, <2>2, <3>2
      <3> QED  BY <1>0, <1>4, <2>1, <2>2, <3>3
    <2>4. CASE n = 0
      BY <1>0, <2>1, <2>2, <2>4
    <2> QED  BY <1>4, <2>3, <2>4
  <1>7. PICK byte : byte = BuffsPart!Copied(new, len)
    OBVIOUS
  <1>8. /\ size' = len /\ disturbed' = cuts /\ num_pages' = BuffsPart!PageCount(len)
        /\ page_base' = new /\ room' = n
        /\ reserved' = (reserved \cup (new .. new + n - 1)) \ {page_base}
        /\ mem' = [a \in BuffsBytes |->
                    IF a - BuffsPart!Address(new, 0) \in 0 .. len - 1
                    THEN byte[a - BuffsPart!Address(new, 0)] ELSE mem[a]]
    <2>1. DOMAIN mem = BuffsBytes
      BY <1>0
    <2> QED  BY <1>2, <1>3, <1>4, <1>7, <2>1 DEF BuffsPart!Move, BuffsPart!Freed
  <1>9. num_pages' \in 0 .. MaxLen \div PageSize + 1
    BY <1>0, <1>8, CountWithin
  <1>10. page_base' \in BuffsPart!Page \cup {-1} /\ room' \in 0 .. NPages
    BY <1>6, <1>8
  <1>11. reserved' \subseteq BuffsPart!Page /\ theirs \subseteq reserved'
    <2>1. page_base \notin theirs
      BY <1>0, <1>1 DEF BuffsPart!Page
    <2> QED  BY <1>0, <1>6, <1>8, <2>1
  <1>12. \A i \in 0 .. len - 1 :
           /\ BuffsPart!Address(new, i) \in BuffsBytes
           /\ BuffsPart!PageOf(BuffsPart!Address(new, i)) \in new .. new + n - 1
    <2> SUFFICES ASSUME NEW i \in 0 .. len - 1
                 PROVE  /\ BuffsPart!Address(new, i) \in BuffsBytes
                        /\ BuffsPart!PageOf(BuffsPart!Address(new, i)) \in new .. new + n - 1
      OBVIOUS
    <2>1. i \in Nat /\ i < n * PageSize
      BY <1>0, <1>4
    <2>2. /\ BuffsPart!Address(new, i) \in Int
          /\ BuffsPart!PageOf(BuffsPart!Address(new, i)) \in new .. new + n - 1
      BY <1>4, <1>6, <2>1, InBlock
    <2> QED  BY <1>6, <2>2, InMemory
  <1>13. mem' \in [BuffsBytes -> {0, 1, 2}]
    <2>1. \A i \in 0 .. len - 1 : BuffsPart!Address(page_base, i) \in BuffsBytes
      <3> SUFFICES ASSUME NEW i \in 0 .. len - 1
                   PROVE  BuffsPart!Address(page_base, i) \in BuffsBytes
        OBVIOUS
      <3>1. BuffsPart!PageOf(BuffsPart!Address(page_base, i)) \in BuffsPart!Page
        BY <1>0, <1>2, <1>4, <1>6 DEF BuffsPart!Move, BuffsPart!CanCopy
      <3>2. BuffsPart!Address(page_base, i) \in Int
        BY <1>0 DEF BuffsPart!Address
      <3> QED  BY <3>1, <3>2, InMemory
    <2>2. \A i \in 0 .. len - 1 : mem[BuffsPart!Address(page_base, i)] \in {0, 1, 2}
      BY <1>0, <2>1
    <2>3. len \in Nat
      BY <1>0
    <2>4. \A i \in 0 .. len - 1 : byte[i] \in {0, 1, 2}
      BY <1>0, <1>6, <1>7, <2>2, <2>3, CopyType
    <2> QED  BY <1>0, <1>8, <2>4
  <1>14. BlockInv'
    <2>1. room' > 0 \/ page_base' = -1
      BY <1>6, <1>8
    <2>2. size' <= room' * PageSize
      BY <1>4, <1>8
    <2>3. \A p \in new .. new + n - 1 : p \in reserved' \ theirs
      <3>1. \A p \in new .. new + n - 1 : p # page_base
        BY <1>1, <1>6 DEF BuffsPart!Page
      <3> QED  BY <1>0, <1>6, <1>8, <3>1
    <2>4. \A p \in page_base' .. page_base' + room' - 1 : p \in reserved' \ theirs'
      BY <1>8, <2>3
    <2> QED  BY <2>1, <2>2, <2>4 DEF BlockInv
  <1>15. ASSUME NEW i \in kept
         PROVE  /\ mem'[BuffsPart!Address(new, i)] = 1
                /\ BuffsPart!PageOf(BuffsPart!Address(new, i)) \in reserved' \ theirs
    <2>1. i \in 0 .. len - 1 /\ i \in stored
      BY <1>0
    <2>2. /\ BuffsPart!PageOf(BuffsPart!Address(page_base, i)) \in reserved
          /\ mem[BuffsPart!Address(page_base, i)] = 1
          /\ BuffsPart!Address(page_base, i) \in Int
      BY <1>0, <1>1, <2>1 DEF BuffsPart!Address
    <2>3. BuffsPart!Address(page_base, i) \notin
            BuffsPart!Address(new, 0) .. BuffsPart!Address(new, 0) + len - 1
      <3> SUFFICES ASSUME BuffsPart!Address(page_base, i) \in
                            BuffsPart!Address(new, 0) .. BuffsPart!Address(new, 0) + len - 1
                   PROVE  FALSE
        OBVIOUS
      <3>1. PICK j \in 0 .. len - 1 : BuffsPart!Address(page_base, i) = BuffsPart!Address(new, j)
        <4>1. new * PageSize \in Int
          BY <1>0, <1>6
        <4>2. BuffsPart!Address(page_base, i) - new * PageSize \in 0 .. len - 1
          BY <1>0, <2>2, <4>1 DEF BuffsPart!Address
        <4> QED  BY <2>2, <4>1, <4>2 DEF BuffsPart!Address
      <3>2. BuffsPart!PageOf(BuffsPart!Address(new, j)) \in new .. new + n - 1
        BY <1>12
      <3> QED  BY <1>6, <2>2, <3>1, <3>2
    <2>4. byte[i] = 1
      <3>1. len \in Nat
        BY <1>0
      <3> QED  BY <1>0, <1>6, <1>7, <2>1, <2>2, <2>3, <3>1, CopyKeeps
    <2>5. BuffsPart!Address(new, i) - BuffsPart!Address(new, 0) = i
      <3>1. new * PageSize \in Int
        BY <1>0, <1>6
      <3> QED  BY <2>1, <3>1 DEF BuffsPart!Address
    <2>6. mem'[BuffsPart!Address(new, i)] = 1
      BY <1>8, <1>12, <2>1, <2>4, <2>5
    <2>7. \A p \in new .. new + n - 1 : p \in reserved' \ theirs
      BY <1>8, <1>14 DEF BlockInv
    <2> QED  BY <1>12, <2>1, <2>6, <2>7
  <1>16. ASSUME NEW a \in BuffsBytes, BuffsPart!PageOf(a) \in theirs
         PROVE  mem'[a] = 2
    <2>1. a - BuffsPart!Address(new, 0) \notin 0 .. len - 1
      <3> SUFFICES ASSUME a - BuffsPart!Address(new, 0) \in 0 .. len - 1 PROVE FALSE
        OBVIOUS
      <3>1. PICK j \in 0 .. len - 1 : a = BuffsPart!Address(new, j)
        <4>1. new * PageSize \in Int /\ a \in Int
          BY <1>0, <1>6 DEF BuffsBytes
        <4>2. a - new * PageSize \in 0 .. len - 1
          BY <4>1 DEF BuffsPart!Address
        <4> QED  BY <4>1, <4>2 DEF BuffsPart!Address
      <3>2. BuffsPart!PageOf(a) \in new .. new + n - 1
        BY <1>12, <3>1
      <3> QED  BY <1>0, <1>6, <1>16, <3>2
    <2> QED  BY <1>1, <1>8, <1>16, <2>1
  <1> QED  BY <1>8, <1>9, <1>10, <1>11, <1>13, <1>14, <1>15, <1>16

\* What a resize leaves, moved or not, and if it is killed in the copy.
LEMMA TruncateKeeps ==
    ASSUME BuffsInv, ~disturbed, writer.pc # "none", NEW len \in BuffsPart!Lens, NEW cuts \in BOOLEAN,
           BuffsPart!buffs_truncate(len, cuts),
           NEW kept, kept = IF BuffsPart!Killed(len) THEN stored ELSE stored \cap 0 .. len - 1
    PROVE  /\ size' \in BuffsPart!Lens /\ num_pages' \in 0 .. MaxLen \div PageSize + 1
           /\ page_base' \in BuffsPart!Page \cup {-1} /\ room' \in 0 .. NPages
           /\ reserved' \subseteq BuffsPart!Page /\ theirs' \subseteq reserved'
           /\ mem' \in [BuffsBytes -> {0, 1, 2}] /\ disturbed' \in BOOLEAN
           /\ disturbed' \/
                /\ BlockInv'
                /\ size' = IF BuffsPart!Killed(len) THEN size ELSE len
                /\ BuffsPart!Killed(len) \/ ~cuts
                /\ \A i \in kept :
                     /\ i < size' /\ mem'[BuffsPart!Address(page_base', i)] = 1
                     /\ BuffsPart!PageOf(BuffsPart!Address(page_base', i)) \in reserved' \ theirs'
                /\ \A a \in BuffsBytes : BuffsPart!PageOf(a) \in theirs' => mem'[a] = 2
  <1> USE DEF BuffsPart!buffs_truncate
  <1>0. /\ size \in BuffsPart!Lens /\ num_pages \in 0 .. MaxLen \div PageSize + 1
        /\ page_base \in BuffsPart!Page \cup {-1} /\ room \in 0 .. NPages
        /\ theirs \subseteq reserved /\ reserved \subseteq BuffsPart!Page
        /\ mem \in [BuffsBytes -> {0, 1, 2}] /\ stored \subseteq Nat
        /\ len \in Nat /\ PageSize \in Nat /\ theirs' = theirs
    BY BuffsAssumption DEF BuffsInv, BuffsTyped, BuffsPart!Lens
  <1>1. /\ \A i \in stored :
             /\ i < size /\ mem[BuffsPart!Address(page_base, i)] = 1
             /\ BuffsPart!PageOf(BuffsPart!Address(page_base, i)) \in reserved \ theirs
        /\ \A a \in BuffsBytes : BuffsPart!PageOf(a) \in theirs => mem[a] = 2
        /\ BlockInv
    BY <1>0 DEF BuffsInv, StoredInv, TheirsInv
  <1>2. kept \subseteq stored
    OBVIOUS
  <1>3. CASE BuffsPart!ResizeInPlace(len, cuts)
    <2>1. /\ size' = len /\ disturbed' = (cuts \/ len > room * PageSize)
          /\ num_pages' = num_pages /\ page_base' = page_base /\ room' = room
          /\ reserved' = reserved /\ mem' = mem /\ ~BuffsPart!Killed(len)
      BY <1>3 DEF BuffsPart!ResizeInPlace, BuffsPart!OutgrowsBlock, BuffsPart!Killed
    <2>2. disturbed' \/ (len <= room * PageSize /\ ~cuts)
      <3>1. len > room * PageSize \/ len <= room * PageSize
        BY <1>0
      <3> QED  BY <2>1, <3>1
    <2>3. disturbed' \/ BlockInv'
      BY <1>0, <1>1, <2>1, <2>2 DEF BlockInv
    <2>4. \A i \in kept : i < len
      BY <1>0, <2>1
    <2> QED  BY <1>0, <1>1, <1>2, <2>1, <2>2, <2>3, <2>4
  <1>4. CASE BuffsPart!Move(len, cuts)
    <2>1. ~BuffsPart!Killed(len)
      BY <1>4 DEF BuffsPart!Move, BuffsPart!Killed
    <2>2. kept \in SUBSET stored /\ \A i \in kept : i < len
      BY <1>0, <2>1
    <2>3. /\ size' = len /\ disturbed' = cuts /\ num_pages' \in 0 .. MaxLen \div PageSize + 1
          /\ page_base' \in BuffsPart!Page \cup {-1} /\ room' \in 0 .. NPages
          /\ reserved' \subseteq BuffsPart!Page /\ theirs \subseteq reserved'
          /\ mem' \in [BuffsBytes -> {0, 1, 2}]
          /\ BlockInv'
          /\ \A i \in kept :
               /\ mem'[BuffsPart!Address(page_base', i)] = 1
               /\ BuffsPart!PageOf(BuffsPart!Address(page_base', i)) \in reserved' \ theirs
          /\ \A a \in BuffsBytes : BuffsPart!PageOf(a) \in theirs => mem'[a] = 2
      BY <1>0, <1>4, <2>2, MoveKeeps
    <2> QED  BY <1>0, <2>1, <2>2, <2>3
  <1>5. CASE BuffsPart!DiesInCopy(len)
    <2>1. PICK new : new = BuffsPart!findRegionIdx(len)
      OBVIOUS
    <2>2. /\ BuffsPart!Killed(len) /\ kept = stored /\ size' = size /\ num_pages' = num_pages
          /\ page_base' = page_base /\ room' = room /\ mem' = mem /\ disturbed' = disturbed
          /\ reserved' = reserved \cup BuffsPart!Block(new, len)
      BY <1>5, <2>1 DEF BuffsPart!DiesInCopy
    <2>3. BuffsPart!Block(new, len) \subseteq BuffsPart!Page \ reserved
      <3>1. CASE len = 0
        <4>1. BuffsPart!calculateBlocks(len) = 0 /\ new = -1
          BY <1>0, <2>1, <3>1, BlockHolds, RegionFound
        <4> QED  BY <4>1 DEF BuffsPart!Block
      <3>2. CASE len > 0
        <4>1. new # -1
          BY <2>1, <2>2, <3>2 DEF BuffsPart!Killed, BuffsPart!Finds, BuffsPart!LastPage
        <4> QED  BY <1>0, <2>1, <4>1, RegionFound
      <3> QED  BY <1>0, <3>1, <3>2
    <2>4. BlockInv'
      <3>1. \A p \in page_base .. page_base + room - 1 : p \in reserved' \ theirs'
        BY <1>0, <1>1, <2>2 DEF BlockInv
      <3> QED  BY <1>1, <2>2, <3>1 DEF BlockInv
    <2>5. \A i \in kept :
            /\ i < size' /\ mem'[BuffsPart!Address(page_base', i)] = 1
            /\ BuffsPart!PageOf(BuffsPart!Address(page_base', i)) \in reserved' \ theirs'
      BY <1>0, <1>1, <2>2
    <2>6. reserved' \subseteq BuffsPart!Page /\ theirs' \subseteq reserved'
      BY <1>0, <2>2, <2>3
    <2>7. \A a \in BuffsBytes : BuffsPart!PageOf(a) \in theirs' => mem'[a] = 2
      BY <1>0, <1>1, <2>2
    <2>8. /\ size' \in BuffsPart!Lens /\ num_pages' \in 0 .. MaxLen \div PageSize + 1
          /\ page_base' \in BuffsPart!Page \cup {-1} /\ room' \in 0 .. NPages
          /\ mem' \in [BuffsBytes -> {0, 1, 2}] /\ disturbed' \in BOOLEAN
          /\ size' = IF BuffsPart!Killed(len) THEN size ELSE len
      <3>1. disturbed \in BOOLEAN
        BY DEF BuffsInv, BuffsTyped
      <3> QED  BY <1>0, <2>2, <3>1
    <2> QED  BY <2>2, <2>4, <2>5, <2>6, <2>7, <2>8
  <1>6. CASE BuffsPart!NoMemory(len)
    BY <1>0, <1>6 DEF BuffsPart!NoMemory
  <1> QED  BY <1>3, <1>4, <1>5, <1>6

\* The bytes of the file that are written are in its block, and no one else's.
LEMMA WriteKeeps ==
    ASSUME BuffsInv, ~disturbed, NEW bytes, \A i \in bytes : i \in Nat /\ i < size,
           BuffsPart!buffs_write(bytes),
           UNCHANGED <<size, num_pages, page_base, room, reserved, theirs>>
    PROVE  /\ mem' \in [BuffsBytes -> {0, 1, 2}]
           /\ \A i \in stored \cup bytes :
                /\ i < size /\ mem'[BuffsPart!Address(page_base, i)] = 1
                /\ BuffsPart!PageOf(BuffsPart!Address(page_base, i)) \in reserved \ theirs
           /\ \A a \in BuffsBytes : BuffsPart!PageOf(a) \in theirs => mem'[a] = 2
  <1>0. /\ mem \in [BuffsBytes -> {0, 1, 2}] /\ stored \subseteq Nat
        /\ page_base \in Int /\ room \in Nat /\ size \in Nat /\ reserved \subseteq BuffsPart!Page
        /\ PageSize \in Nat
    BY BuffsAssumption DEF BuffsInv, BuffsTyped, BuffsPart!Lens, BuffsPart!Page
  <1>1. /\ \A i \in stored :
             /\ i < size /\ mem[BuffsPart!Address(page_base, i)] = 1
             /\ BuffsPart!PageOf(BuffsPart!Address(page_base, i)) \in reserved \ theirs
        /\ \A a \in BuffsBytes : BuffsPart!PageOf(a) \in theirs => mem[a] = 2
    BY <1>0 DEF BuffsInv, StoredInv, TheirsInv
  <1>2. mem' = [a \in BuffsBytes |->
                 IF \E i \in bytes : a = BuffsPart!Address(page_base, i) THEN 1 ELSE mem[a]]
    <2>1. DOMAIN mem = BuffsBytes
      BY <1>0
    <2> QED  BY <2>1 DEF BuffsPart!buffs_write, BuffsPart!Ours
  <1>3. \A i \in bytes :
          /\ BuffsPart!Address(page_base, i) \in BuffsBytes
          /\ BuffsPart!PageOf(BuffsPart!Address(page_base, i)) \in reserved \ theirs
    <2> SUFFICES ASSUME NEW i \in bytes
                 PROVE  /\ BuffsPart!Address(page_base, i) \in BuffsBytes
                        /\ BuffsPart!PageOf(BuffsPart!Address(page_base, i)) \in reserved \ theirs
      OBVIOUS
    <2>1. i \in Nat /\ i < room * PageSize
      <3>1. size <= room * PageSize /\ room * PageSize \in Int
        BY <1>0 DEF BuffsInv, BlockInv
      <3> QED  BY <1>0, <3>1
    <2>2. /\ BuffsPart!Address(page_base, i) \in Int
          /\ BuffsPart!PageOf(BuffsPart!Address(page_base, i)) \in page_base .. page_base + room - 1
      BY <1>0, <2>1, InBlock
    <2>3. BuffsPart!PageOf(BuffsPart!Address(page_base, i)) \in reserved \ theirs
      BY <2>2 DEF BuffsInv, BlockInv
    <2> QED  BY <1>0, <2>2, <2>3, InMemory
  <1>4. mem' \in [BuffsBytes -> {0, 1, 2}]
    BY <1>0, <1>2
  <1>5. ASSUME NEW i \in stored \cup bytes
        PROVE  /\ i < size /\ mem'[BuffsPart!Address(page_base, i)] = 1
               /\ BuffsPart!PageOf(BuffsPart!Address(page_base, i)) \in reserved \ theirs
    <2>1. i < size /\ BuffsPart!PageOf(BuffsPart!Address(page_base, i)) \in reserved \ theirs
      BY <1>1, <1>3
    <2>2. BuffsPart!Address(page_base, i) \in BuffsBytes
      <3>1. BuffsPart!Address(page_base, i) \in Int
        BY <1>0 DEF BuffsPart!Address
      <3> QED  BY <1>0, <2>1, <3>1, InMemory
    <2>3. mem'[BuffsPart!Address(page_base, i)] = 1
      BY <1>1, <1>2, <2>2
    <2> QED  BY <2>1, <2>3
  <1>6. ASSUME NEW a \in BuffsBytes, BuffsPart!PageOf(a) \in theirs PROVE mem'[a] = 2
    BY <1>1, <1>2, <1>3, <1>6
  <1> QED  BY <1>4, <1>5, <1>6

\* What the invariant says, for the steps of the file.
LEMMA BuffsFacts ==
    ASSUME BuffsInv
    PROVE  /\ size \in BuffsPart!Lens /\ num_pages \in 0 .. MaxLen \div PageSize + 1
           /\ page_base \in BuffsPart!Page \cup {-1} /\ room \in 0 .. NPages
           /\ theirs \subseteq reserved /\ reserved \subseteq BuffsPart!Page
           /\ mem \in [BuffsBytes -> {0, 1, 2}] /\ stored \subseteq BuffsPart!Lens
           /\ writer \in [head : BuffsPart!Lens, pc : {"none", "idle", "resize", "write"},
                          n : Sizes \cup {0}]
           /\ disturbed \in BOOLEAN /\ page_base \in Int /\ room \in Nat
           /\ size \in Nat /\ writer.head \in Nat /\ writer.n \in Nat
           /\ PageSize \in Nat /\ MaxLen \in Nat /\ Sizes \subseteq Nat \ {0}
           /\ BuffsPart!Lens = 0 .. MaxLen
           /\ disturbed \/
                /\ \A i \in stored :
                     /\ i < size /\ mem[BuffsPart!Address(page_base, i)] = 1
                     /\ BuffsPart!PageOf(BuffsPart!Address(page_base, i)) \in reserved \ theirs
                     /\ BuffsPart!Address(page_base, i) \in BuffsBytes
                /\ \A a \in BuffsBytes : BuffsPart!PageOf(a) \in theirs => mem[a] = 2
  <1>1. /\ size \in BuffsPart!Lens /\ num_pages \in 0 .. MaxLen \div PageSize + 1
        /\ page_base \in BuffsPart!Page \cup {-1} /\ room \in 0 .. NPages
        /\ theirs \subseteq reserved /\ reserved \subseteq BuffsPart!Page
        /\ mem \in [BuffsBytes -> {0, 1, 2}] /\ stored \subseteq BuffsPart!Lens
        /\ writer \in [head : BuffsPart!Lens, pc : {"none", "idle", "resize", "write"},
                       n : Sizes \cup {0}]
        /\ disturbed \in BOOLEAN /\ PageSize \in Nat /\ MaxLen \in Nat /\ Sizes \subseteq Nat \ {0}
        /\ BuffsPart!Lens = 0 .. MaxLen
    BY BuffsAssumption DEF BuffsInv, BuffsTyped, BuffsPart!Lens
  <1>2. /\ page_base \in Int /\ room \in Nat /\ size \in Nat /\ writer.head \in Nat /\ writer.n \in Nat
    <2>1. page_base \in Int /\ room \in Nat
      BY <1>1, BuffsAssumption DEF BuffsPart!Page
    <2>2. size \in Nat
      BY <1>1
    <2>3. writer.head \in 0 .. MaxLen /\ writer.n \in Sizes \cup {0}
      BY <1>1
    <2>4. writer.head \in Nat /\ writer.n \in Nat
      <3>1. \A x \in Sizes \cup {0} : x \in Nat
        BY <1>1
      <3>2. \A x \in 0 .. MaxLen : x \in Nat
        BY <1>1
      <3> QED  BY ONLY <2>3, <3>1, <3>2
    <2> QED  BY <2>1, <2>2, <2>4
  <1>3. ASSUME ~disturbed
        PROVE  /\ \A i \in stored :
                     /\ i < size /\ mem[BuffsPart!Address(page_base, i)] = 1
                     /\ BuffsPart!PageOf(BuffsPart!Address(page_base, i)) \in reserved \ theirs
                     /\ BuffsPart!Address(page_base, i) \in BuffsBytes
               /\ \A a \in BuffsBytes : BuffsPart!PageOf(a) \in theirs => mem[a] = 2
    <2>1. /\ \A i \in stored :
               /\ i < size /\ mem[BuffsPart!Address(page_base, i)] = 1
               /\ BuffsPart!PageOf(BuffsPart!Address(page_base, i)) \in reserved \ theirs
          /\ \A a \in BuffsBytes : BuffsPart!PageOf(a) \in theirs => mem[a] = 2
      BY <1>1, <1>3 DEF BuffsInv, StoredInv, TheirsInv
    <2>2. \A i \in stored : BuffsPart!Address(page_base, i) \in Int
      BY <1>1, <1>2 DEF BuffsPart!Address
    <2>3. \A i \in stored : BuffsPart!Address(page_base, i) \in BuffsBytes
      BY <1>1, <2>1, <2>2, InMemory
    <2> QED  BY <2>1, <2>3
  <1> QED  BY <1>1, <1>2, <1>3

\* ... and that it gives what is claimed.
LEMMA BuffsGives ==
    ASSUME BuffsInv
    PROVE  BuffsPart!TypeOK /\ BuffsPart!KeepsContent /\ BuffsPart!SparesOthers
  <1>1. BuffsPart!TypeOK
    BY DEF BuffsInv, BuffsTyped, BuffsPart!TypeOK, BuffsPart!LastPage, BuffsBytes,
       BuffsPart!Old, BuffsPart!Ours, BuffsPart!Others
  <1>2. DOMAIN mem = BuffsBytes
    BY DEF BuffsInv, BuffsTyped
  <1>3. BuffsPart!KeepsContent /\ BuffsPart!SparesOthers
    BY <1>2 DEF BuffsInv, StoredInv, TheirsInv, BuffsPart!KeepsContent,
       BuffsPart!SparesOthers, BuffsPart!Ours, BuffsPart!Others
  <1> QED  BY <1>1, <1>3

LEMMA InitBuffs ==
    ASSUME BuffsPart!Init
    PROVE  BuffsInv
  <1>1. /\ size = 0 /\ num_pages = 0 /\ page_base = -1 /\ room = 0
        /\ reserved = {} /\ theirs = {} /\ mem \in [BuffsBytes -> {0, 1, 2}]
        /\ writer = [head |-> 0, pc |-> "none", n |-> 0] /\ stored = {} /\ disturbed = FALSE
    BY DEF BuffsPart!Init, BuffsPart!LastPage, BuffsPart!Idle, BuffsBytes, BuffsPart!Old
  <1>2. /\ NPages \in Nat /\ MaxLen \in Nat /\ PageSize \in Nat /\ 0 \in 0 .. MaxLen \div PageSize + 1
    <2>1. BuffsPart!PageCount(0) \in 1 .. MaxLen \div PageSize + 1 /\ MaxLen \div PageSize \in Int
      BY CountWithin, BuffsAssumption
    <2> QED  BY <2>1, BuffsAssumption
  <1>3. WriterType /\ BlockInv /\ RoomMade
    BY <1>1, <1>2 DEF WriterType, BlockInv, RoomMade
  <1>4. size \in BuffsPart!Lens /\ writer \in
          [head : BuffsPart!Lens, pc : {"none", "idle", "resize", "write"}, n : Sizes \cup {0}]
    BY <1>1, <1>2 DEF BuffsPart!Lens
  <1>5. /\ size \in BuffsPart!Lens /\ num_pages \in 0 .. MaxLen \div PageSize + 1
        /\ page_base \in BuffsPart!Page \cup {-1} /\ room \in 0 .. NPages
        /\ theirs \subseteq reserved /\ reserved \subseteq BuffsPart!Page
        /\ mem \in [BuffsBytes -> {0, 1, 2}] /\ stored \subseteq BuffsPart!Lens
        /\ disturbed \in BOOLEAN
    <2>1. size \in BuffsPart!Lens /\ num_pages \in 0 .. MaxLen \div PageSize + 1
      BY <1>1, <1>2, <1>4
    <2>2. page_base \in BuffsPart!Page \cup {-1} /\ room \in 0 .. NPages
      BY <1>1, <1>2
    <2>3. /\ theirs \subseteq reserved /\ reserved \subseteq BuffsPart!Page
          /\ mem \in [BuffsBytes -> {0, 1, 2}] /\ stored \subseteq BuffsPart!Lens
      BY <1>1
    <2>4. disturbed \in BOOLEAN
      BY <1>1
    <2> QED  BY <2>1, <2>2, <2>3, <2>4
  <1>6. StoredInv /\ TheirsInv
    BY <1>1 DEF StoredInv, TheirsInv
  <1> QED  BY <1>3, <1>4, <1>5, <1>6 DEF BuffsInv, BuffsTyped

LEMMA CreateKeeps ==
    ASSUME BuffsInv, ~disturbed, BuffsPart!buffs_createFile
    PROVE  BuffsInv'
  <1>1. PICK new : new = BuffsPart!findRegionIdx(1)
    OBVIOUS
  <1>2. /\ writer.pc = "none" /\ writer' = [head |-> 0, pc |-> "idle", n |-> 0]
        /\ size' = 1 /\ num_pages' = BuffsPart!PageCount(1) /\ page_base' = new
        /\ room' = 1 /\ reserved' = reserved \cup ((new .. new) \cap BuffsPart!Page)
        /\ disturbed' = (new = -1) /\ theirs' = theirs /\ mem' = mem /\ stored' = stored
    <2>1. BuffsPart!calculateBlocks(1) = 1
      BY BlockHolds
    <2>2. new \in Int
      BY <1>1, RegionFound DEF BuffsPart!Page
    <2> QED  BY <1>1, <2>1, <2>2 DEF BuffsPart!buffs_createFile, BuffsPart!Idle, BuffsPart!Block,
       BuffsPart!LastPage
  <1>3. new = -1 \/ (new \in BuffsPart!Page /\ new \notin reserved)
    <2>1. BuffsPart!calculateBlocks(1) = 1
      BY BlockHolds
    <2>2. new = -1 \/ (new \in BuffsPart!Page /\ BuffsPart!Block(new, 1) \subseteq BuffsPart!Page \ reserved)
      BY <1>1, RegionFound
    <2>4. new \in BuffsPart!Page => BuffsPart!Block(new, 1) = new .. new
      BY <2>1 DEF BuffsPart!Block, BuffsPart!Page
    <2>3. new \in BuffsPart!Page => new \in new .. new
      BY DEF BuffsPart!Page
    <2> QED  BY <2>2, <2>3, <2>4
  <1>4. stored = {}
    BY <1>2 DEF BuffsInv, WriterType
  <1>5. /\ MaxLen \in Nat \ {0} /\ NPages \in Nat \ {0} /\ PageSize \in Nat /\ PageSize > 1
        /\ BuffsPart!PageCount(1) \in 0 .. MaxLen \div PageSize + 1
    <2>1. BuffsPart!PageCount(1) \in 1 .. MaxLen \div PageSize + 1 /\ MaxLen \div PageSize \in Int
      BY CountWithin, BuffsAssumption
    <2> QED  BY <2>1, BuffsAssumption
  <1>6. disturbed' \/ BlockInv'
    <2> SUFFICES ASSUME new \in BuffsPart!Page, new \notin reserved PROVE BlockInv'
      BY <1>2, <1>3
    <2>1. new \in Int /\ theirs \subseteq reserved
      BY BuffsFacts DEF BuffsPart!Page
    <2>2. \A p \in new .. new + 1 - 1 : p = new
      BY <2>1
    <2>3. \A p \in page_base' .. page_base' + room' - 1 : p \in reserved' \ theirs'
      BY <1>2, <2>1, <2>2
    <2> QED  BY <1>2, <1>5, <2>3 DEF BlockInv
  <1>7. WriterType' /\ RoomMade'
    BY <1>2 DEF WriterType, RoomMade
  <1>8. \A a \in BuffsBytes : BuffsPart!PageOf(a) \in theirs' => mem'[a] = 2
    BY <1>2, BuffsFacts
  <1>9. /\ size' \in BuffsPart!Lens /\ num_pages' \in 0 .. MaxLen \div PageSize + 1
        /\ page_base' \in BuffsPart!Page \cup {-1} /\ room' \in 0 .. NPages
        /\ theirs' \subseteq reserved' /\ reserved' \subseteq BuffsPart!Page
        /\ mem' \in [BuffsBytes -> {0, 1, 2}] /\ stored' \subseteq BuffsPart!Lens
        /\ disturbed' \in BOOLEAN
    BY <1>2, <1>3, <1>5, BuffsFacts
  <1>10. writer' \in [head : BuffsPart!Lens, pc : {"none", "idle", "resize", "write"}, n : Sizes \cup {0}]
    BY <1>2, <1>5 DEF BuffsPart!Lens
  <1>11. stored' = {}
    BY <1>2, <1>4
  <1>12. StoredInv' /\ TheirsInv'
    BY <1>8, <1>11 DEF StoredInv, TheirsInv
  <1> QED  BY <1>6, <1>7, <1>9, <1>10, <1>12 DEF BuffsInv, BuffsTyped

LEMMA SameCount ==
    ASSUME NEW S
    PROVE  BuffsPart!Cardinality(S) = Cardinality(S)
  BY DEF BuffsPart!Cardinality, Cardinality

\* The calls of fwrite.
LEMMA MeasureKeeps ==
    ASSUME BuffsInv, ~disturbed, NEW n \in Sizes, BuffsPart!Measure(n)
    PROVE  BuffsInv'
  <1>1. /\ writer.head + n <= MaxLen /\ writer.pc = "idle"
        /\ writer' = [writer EXCEPT !.n = n,
                        !.pc = IF writer.head + size < writer.head + n THEN "resize" ELSE "write"]
        /\ disturbed' = (writer.head + size >= writer.head + n
                          /\ writer.head < size /\ size < writer.head + n)
        /\ size' = size /\ num_pages' = num_pages /\ page_base' = page_base /\ room' = room
        /\ reserved' = reserved /\ theirs' = theirs /\ mem' = mem /\ stored' = stored
    BY DEF BuffsPart!Measure, BuffsPart!EndSeen, BuffsPart!Misjudged
  <1>2. /\ writer' \in [head : BuffsPart!Lens, pc : {"none", "idle", "resize", "write"},
                        n : Sizes \cup {0}]
        /\ writer'.pc \in {"resize", "write"} /\ writer'.n = n /\ writer'.head = writer.head
        /\ (writer'.pc = "write") => (writer.head + size >= writer.head + n)
    <2>1. size \in Nat /\ writer.head \in Nat /\ n \in Nat
      BY BuffsFacts
    <2>2. PICK c \in {"resize", "write"} :
            /\ c = IF writer.head + size < writer.head + n THEN "resize" ELSE "write"
            /\ writer' = [writer EXCEPT !.n = n, !.pc = c]
      BY <1>1
    <2>3. writer' = [head |-> writer.head, pc |-> c, n |-> n] /\ writer.head \in BuffsPart!Lens
      BY <2>2, BuffsFacts
    <2>4. /\ writer' \in [head : BuffsPart!Lens, pc : {"none", "idle", "resize", "write"},
                          n : Sizes \cup {0}]
          /\ writer'.pc = c /\ writer'.n = n /\ writer'.head = writer.head
      BY <2>3
    <2>5. (c = "write") => (writer.head + size >= writer.head + n)
      BY <2>1, <2>2
    <2> QED  BY <2>4, <2>5
  <1>3. WriterType'
    BY <1>1, <1>2 DEF WriterType
  <1>4. disturbed' \/ RoomMade'
    <2>1. size \in Nat /\ writer.head \in Nat /\ n \in Nat
      BY BuffsFacts
    <2>2. disturbed' <=> (writer.head + size >= writer.head + n
                          /\ writer.head < size /\ size < writer.head + n)
      BY <1>1
    <2> QED  BY <1>1, <1>2, <2>1, <2>2 DEF RoomMade
  <1>5. BuffsTyped'
    BY <1>1, <1>2 DEF BuffsInv, BuffsTyped
  <1>6. BlockInv' /\ StoredInv' /\ TheirsInv'
    BY <1>1 DEF BuffsInv, BlockInv, StoredInv, TheirsInv
  <1> QED  BY <1>3, <1>4, <1>5, <1>6 DEF BuffsInv

LEMMA ResizeKeeps ==
    ASSUME BuffsInv, ~disturbed, BuffsPart!Resize
    PROVE  BuffsInv'
  <1>1. PICK len : len = writer.head + writer.n
    OBVIOUS
  <1>2. /\ writer.pc = "resize" /\ stored' = stored
        /\ writer' = IF BuffsPart!Killed(len) THEN [head |-> 0, pc |-> "idle", n |-> 0]
                     ELSE [writer EXCEPT !.pc = "write"]
        /\ BuffsPart!buffs_truncate(len, len < size)
    BY <1>1 DEF BuffsPart!Resize, BuffsPart!Idle
  <1>3. len \in BuffsPart!Lens
    <2>1. writer.head + writer.n <= MaxLen
      BY <1>2 DEF BuffsInv, WriterType
    <2> QED  BY <1>1, <2>1, BuffsFacts
  <1>4. PICK kept : kept = IF BuffsPart!Killed(len) THEN stored ELSE stored \cap 0 .. len - 1
    OBVIOUS
  <1>5. /\ size' \in BuffsPart!Lens /\ num_pages' \in 0 .. MaxLen \div PageSize + 1
        /\ page_base' \in BuffsPart!Page \cup {-1} /\ room' \in 0 .. NPages
        /\ reserved' \subseteq BuffsPart!Page /\ theirs' \subseteq reserved'
        /\ mem' \in [BuffsBytes -> {0, 1, 2}] /\ disturbed' \in BOOLEAN
        /\ disturbed' \/
             /\ BlockInv'
             /\ size' = IF BuffsPart!Killed(len) THEN size ELSE len
             /\ BuffsPart!Killed(len) \/ ~(len < size)
             /\ \A i \in kept :
                  /\ i < size' /\ mem'[BuffsPart!Address(page_base', i)] = 1
                  /\ BuffsPart!PageOf(BuffsPart!Address(page_base', i)) \in reserved' \ theirs'
             /\ \A a \in BuffsBytes : BuffsPart!PageOf(a) \in theirs' => mem'[a] = 2
    <2>0. (len < size) \in BOOLEAN
      OBVIOUS
    <2>1. PICK cuts \in BOOLEAN : cuts = (len < size)
      BY <2>0, Zenon
    <2>2. writer.pc # "none" /\ BuffsPart!buffs_truncate(len, cuts)
      BY <1>2, <2>1
    <2>3. cuts <=> len < size
      BY <2>1
    <2> QED  BY <1>3, <1>4, <2>2, <2>3, TruncateKeeps
  <1>6. /\ writer' \in [head : BuffsPart!Lens, pc : {"none", "idle", "resize", "write"},
                        n : Sizes \cup {0}]
        /\ BuffsPart!Killed(len) => (writer'.pc = "idle")
        /\ (~BuffsPart!Killed(len)) =>
              (writer'.pc = "write" /\ writer'.head = writer.head /\ writer'.n = writer.n)
    BY <1>2, BuffsFacts
  <1>7. WriterType'
    <2>1. writer.head + writer.n <= MaxLen
      BY <1>2 DEF BuffsInv, WriterType
    <2> QED  BY <1>6, <2>1 DEF WriterType
  <1>8. BuffsTyped'
    BY <1>2, <1>5, <1>6, BuffsFacts DEF BuffsTyped
  <1>9. ASSUME ~disturbed' PROVE RoomMade' /\ StoredInv'
    <2>1. RoomMade'
      BY <1>1, <1>3, <1>5, <1>6, <1>9, BuffsFacts DEF RoomMade
    <2>2. kept = stored
      BY <1>3, <1>4, <1>5, <1>9, BuffsFacts
    <2>3. StoredInv'
      BY <1>2, <1>5, <1>9, <2>2 DEF StoredInv
    <2> QED  BY <2>1, <2>3
  <1>10. disturbed' \/ (BlockInv' /\ TheirsInv')
    BY <1>5 DEF TheirsInv
  <1> QED  BY <1>7, <1>8, <1>9, <1>10 DEF BuffsInv

LEMMA WriteStepKeeps ==
    ASSUME BuffsInv, ~disturbed, BuffsPart!Write
    PROVE  BuffsInv'
  <1> DEFINE h == writer.head
             bytes == BuffsPart!Within(h, writer.n)
  <1>1. /\ writer.pc = "write" /\ BuffsPart!buffs_write(bytes)
        /\ stored' = IF bytes = {} THEN stored ELSE stored \cup (h .. h + writer.n - 1)
        /\ writer' = [head |-> h + Cardinality(bytes), pc |-> "idle", n |-> 0]
        /\ size' = size /\ num_pages' = num_pages /\ page_base' = page_base /\ room' = room
        /\ reserved' = reserved /\ theirs' = theirs /\ disturbed' = disturbed
    <2>1. /\ writer.pc = "write" /\ BuffsPart!buffs_write(bytes)
          /\ writer' = BuffsPart!Idle(h + Cardinality(bytes))
          /\ stored' = IF bytes = {} THEN stored ELSE stored \cup (h .. h + writer.n - 1)
      BY SameCount DEF BuffsPart!Write
    <2>2. /\ size' = size /\ num_pages' = num_pages /\ page_base' = page_base /\ room' = room
          /\ reserved' = reserved /\ theirs' = theirs /\ disturbed' = disturbed
      <3>1. UNCHANGED <<size, num_pages, page_base, room, reserved, theirs, disturbed>>
        BY DEF BuffsPart!Write
      <3> QED  BY <3>1
    <2> HIDE DEF bytes, h
    <2> QED  BY <2>1, <2>2 DEF BuffsPart!Idle
  <1>2. h \in Nat /\ writer.n \in Nat /\ size \in Nat /\ h + writer.n <= MaxLen /\ MaxLen \in Nat
    BY <1>1, BuffsFacts DEF BuffsInv, WriterType
  <1>3. bytes = {i \in h .. h + writer.n - 1 : i < size}
    BY DEF BuffsPart!Within
  <1>4. Cardinality(bytes) \in Nat /\ Cardinality(bytes) <= writer.n
    <2> HIDE DEF h
    <2>1. /\ IsFiniteSet(h .. h + writer.n - 1)
          /\ Cardinality(h .. h + writer.n - 1) <= writer.n
      <3>1. h \in Int /\ h + writer.n - 1 \in Int
        BY <1>2
      <3>2. PICK a \in Int, b \in Int : a = h /\ b = h + writer.n - 1
        BY <3>1
      <3>3. IsFiniteSet(a .. b) /\ Cardinality(a .. b) = IF a > b THEN 0 ELSE b - a + 1
        BY FS_Interval
      <3>4. b - a + 1 = writer.n
        BY <1>2, <3>2
      <3> QED  BY <1>2, <3>2, <3>3, <3>4
    <2>2. bytes \in SUBSET (h .. h + writer.n - 1)
      BY <1>3
    <2> HIDE DEF bytes
    <2>3. IsFiniteSet(bytes) /\ Cardinality(bytes) <= Cardinality(h .. h + writer.n - 1)
      BY <2>1, <2>2, FS_Subset
    <2>4. Cardinality(bytes) \in Nat /\ Cardinality(h .. h + writer.n - 1) \in Nat
      BY <2>1, <2>3, FS_CardinalityType
    <2> QED  BY <1>2, <2>1, <2>3, <2>4
  <1>5. writer' \in [head : BuffsPart!Lens, pc : {"none", "idle", "resize", "write"},
                     n : Sizes \cup {0}]
    <2> HIDE DEF bytes, h
    <2>1. h + Cardinality(bytes) \in BuffsPart!Lens
      BY <1>2, <1>4 DEF BuffsPart!Lens
    <2> QED  BY <1>1, <2>1
  <1>6. \A i \in bytes : i \in Nat /\ i < size
    <2> HIDE DEF h
    <2> QED  BY <1>2, <1>3
  <1>7. /\ mem' \in [BuffsBytes -> {0, 1, 2}]
        /\ \A i \in stored \cup bytes :
             /\ i < size /\ mem'[BuffsPart!Address(page_base, i)] = 1
             /\ BuffsPart!PageOf(BuffsPart!Address(page_base, i)) \in reserved \ theirs
        /\ \A a \in BuffsBytes : BuffsPart!PageOf(a) \in theirs => mem'[a] = 2
    <2> HIDE DEF bytes, h
    <2> QED  BY <1>1, <1>6, WriteKeeps
  <1>8. stored' \subseteq stored \cup bytes /\ stored' \subseteq BuffsPart!Lens
    <2> HIDE DEF h
    <2>1. h + writer.n <= size \/ size <= h
      BY <1>1 DEF BuffsInv, RoomMade, h
    <2>2. CASE bytes = {}
      BY <1>1, <2>2, BuffsFacts
    <2>3. CASE bytes # {}
      <3>1. ~(size <= h)
        BY <1>2, <1>3, <2>3
      <3>2. h .. h + writer.n - 1 \subseteq bytes
        BY <1>2, <1>3, <2>1, <3>1
      <3>3. bytes \subseteq BuffsPart!Lens
        BY <1>2, <1>3 DEF BuffsPart!Lens
      <3> HIDE DEF bytes
      <3> QED  BY <1>1, <2>3, <3>2, <3>3, BuffsFacts
    <2> QED  BY <2>2, <2>3
  <1> HIDE DEF bytes, h
  <1>9. BuffsTyped'
    BY <1>1, <1>5, <1>7, <1>8, BuffsFacts DEF BuffsTyped
  <1>10. WriterType' /\ RoomMade'
    BY <1>1 DEF WriterType, RoomMade
  <1>11. BlockInv'
    BY <1>1 DEF BuffsInv, BlockInv
  <1>12. StoredInv' /\ TheirsInv'
    BY <1>1, <1>7, <1>8 DEF StoredInv, TheirsInv
  <1> QED  BY <1>9, <1>10, <1>11, <1>12 DEF BuffsInv

\* The steps of the others.
LEMMA OthersTruncate ==
    ASSUME BuffsInv, ~disturbed, NEW len \in BuffsPart!Lens, BuffsPart!Truncate(len)
    PROVE  BuffsInv'
  <1>1. PICK cuts : cuts = BuffsPart!Cuts(len)
    OBVIOUS
  <1>2. PICK kept : kept = IF BuffsPart!Killed(len) THEN stored ELSE stored \cap 0 .. len - 1
    OBVIOUS
  <1>3. /\ writer.pc # "none" /\ writer' = writer /\ stored' = kept
        /\ BuffsPart!buffs_truncate(len, cuts)
        /\ cuts = (writer.pc = "write" /\ len < writer.head + writer.n)
    BY <1>1, <1>2 DEF BuffsPart!Truncate, BuffsPart!Cuts
  <1>4. cuts \in BOOLEAN
    BY <1>3
  <1>5. /\ size' \in BuffsPart!Lens /\ num_pages' \in 0 .. MaxLen \div PageSize + 1
        /\ page_base' \in BuffsPart!Page \cup {-1} /\ room' \in 0 .. NPages
        /\ reserved' \subseteq BuffsPart!Page /\ theirs' \subseteq reserved'
        /\ mem' \in [BuffsBytes -> {0, 1, 2}] /\ disturbed' \in BOOLEAN
        /\ disturbed' \/
             /\ BlockInv'
             /\ size' = IF BuffsPart!Killed(len) THEN size ELSE len
             /\ BuffsPart!Killed(len) \/ ~cuts
             /\ \A i \in kept :
                  /\ i < size' /\ mem'[BuffsPart!Address(page_base', i)] = 1
                  /\ BuffsPart!PageOf(BuffsPart!Address(page_base', i)) \in reserved' \ theirs'
             /\ \A a \in BuffsBytes : BuffsPart!PageOf(a) \in theirs' => mem'[a] = 2
    BY <1>2, <1>3, <1>4, TruncateKeeps
  <1>6. WriterType'
    BY <1>3 DEF BuffsInv, WriterType
  <1>7. BuffsTyped'
    <2>1. kept \subseteq BuffsPart!Lens
      BY <1>2, BuffsFacts
    <2> QED  BY <1>3, <1>5, <2>1, BuffsFacts DEF BuffsTyped
  <1>8. ASSUME ~disturbed' PROVE RoomMade'
    <2>1. len \in Nat
      BY BuffsFacts
    <2>2. cuts <=> writer.pc = "write" /\ len < writer.head + writer.n
      BY <1>3
    <2>3. writer.head + writer.n \in Nat
      BY BuffsFacts
    <2>4. RoomMade
      BY DEF BuffsInv
    <2>5. CASE BuffsPart!Killed(len)
      BY <1>3, <1>5, <1>8, <2>4, <2>5 DEF RoomMade
    <2>6. CASE ~BuffsPart!Killed(len)
      BY <1>3, <1>5, <1>8, <2>1, <2>2, <2>3, <2>6 DEF RoomMade
    <2> QED  BY <2>5, <2>6
  <1>9. disturbed' \/ (BlockInv' /\ StoredInv' /\ TheirsInv')
    BY <1>3, <1>5 DEF StoredInv, TheirsInv
  <1> QED  BY <1>6, <1>7, <1>8, <1>9 DEF BuffsInv

LEMMA PokeKeeps ==
    ASSUME BuffsInv, ~disturbed, NEW i \in BuffsPart!Lens, BuffsPart!Poke(i)
    PROVE  BuffsInv'
  <1>1. /\ i < size /\ BuffsPart!buffs_write({i}) /\ stored' = stored \cup {i}
        /\ size' = size /\ num_pages' = num_pages /\ page_base' = page_base /\ room' = room
        /\ reserved' = reserved /\ theirs' = theirs /\ writer' = writer /\ disturbed' = disturbed
    BY DEF BuffsPart!Poke
  <1>2. i \in Nat
    BY BuffsFacts
  <1>3. /\ mem' \in [BuffsBytes -> {0, 1, 2}]
        /\ \A j \in stored \cup {i} :
             /\ j < size /\ mem'[BuffsPart!Address(page_base, j)] = 1
             /\ BuffsPart!PageOf(BuffsPart!Address(page_base, j)) \in reserved \ theirs
        /\ \A a \in BuffsBytes : BuffsPart!PageOf(a) \in theirs => mem'[a] = 2
    BY <1>1, <1>2, WriteKeeps
  <1>4. BuffsTyped'
    BY <1>1, <1>3, BuffsFacts DEF BuffsTyped
  <1>5. WriterType'
    BY <1>1, <1>2, BuffsFacts DEF BuffsInv, WriterType
  <1>6. RoomMade' /\ BlockInv'
    BY <1>1 DEF BuffsInv, RoomMade, BlockInv
  <1>7. StoredInv' /\ TheirsInv'
    BY <1>1, <1>3 DEF StoredInv, TheirsInv
  <1> QED  BY <1>4, <1>5, <1>6, <1>7 DEF BuffsInv

LEMMA PagesKeep ==
    ASSUME BuffsInv, ~disturbed, NEW p \in BuffsPart!Page,
           BuffsPart!Take(p) \/ BuffsPart!Give(p)
    PROVE  BuffsInv'
  <1>1. /\ size' = size /\ num_pages' = num_pages /\ page_base' = page_base /\ room' = room
        /\ writer' = writer /\ stored' = stored /\ disturbed' = disturbed
    BY DEF BuffsPart!Take, BuffsPart!Give
  <1>2. WriterType' /\ RoomMade'
    BY <1>1 DEF BuffsInv, WriterType, RoomMade
  <1>3. \/ /\ p \notin reserved /\ reserved' = reserved \cup {p} /\ theirs' = theirs \cup {p}
           /\ mem' = [a \in BuffsBytes |-> IF BuffsPart!PageOf(a) = p THEN 2 ELSE mem[a]]
        \/ /\ p \in theirs /\ reserved' = reserved \ {p} /\ theirs' = theirs \ {p} /\ mem' = mem
    <2>1. DOMAIN mem = BuffsBytes
      BY BuffsFacts
    <2> QED  BY <2>1 DEF BuffsPart!Take, BuffsPart!Give, BuffsPart!Others
  <1>4. BuffsTyped'
    <2>1. mem' \in [BuffsBytes -> {0, 1, 2}]
      BY <1>3, BuffsFacts
    <2>2. theirs' \subseteq reserved' /\ reserved' \subseteq BuffsPart!Page
      BY <1>3, BuffsFacts
    <2> QED  BY <1>1, <2>1, <2>2, BuffsFacts DEF BuffsTyped
  <1>5. \A q \in reserved \ theirs : q \in reserved' \ theirs' /\ q # p
    BY <1>3
  <1>6. BlockInv'
    <2>1. \A q \in page_base .. page_base + room - 1 : q \in reserved' \ theirs'
      BY <1>5 DEF BuffsInv, BlockInv
    <2> QED  BY <1>1, <2>1 DEF BuffsInv, BlockInv
  <1>7. StoredInv'
    <2> SUFFICES ASSUME NEW i \in stored
                 PROVE  /\ i < size /\ mem'[BuffsPart!Address(page_base, i)] = 1
                        /\ BuffsPart!PageOf(BuffsPart!Address(page_base, i)) \in reserved' \ theirs'
      BY <1>1 DEF StoredInv
    <2>1. /\ i < size /\ mem[BuffsPart!Address(page_base, i)] = 1
          /\ BuffsPart!PageOf(BuffsPart!Address(page_base, i)) \in reserved \ theirs
          /\ BuffsPart!Address(page_base, i) \in BuffsBytes
      BY BuffsFacts
    <2> QED  BY <1>3, <1>5, <2>1
  <1>8. TheirsInv'
    BY <1>3 DEF BuffsInv, TheirsInv
  <1> QED  BY <1>2, <1>4, <1>6, <1>7, <1>8 DEF BuffsInv

\* Moving the position, or another program in place of the one that wrote.
LEMMA SeekKeeps ==
    ASSUME BuffsInv, ~disturbed, BuffsPart!Reopen \/ \E h \in BuffsPart!Lens : BuffsPart!Seek(h)
    PROVE  BuffsInv'
  <1>1. /\ size' = size /\ num_pages' = num_pages /\ page_base' = page_base /\ room' = room
        /\ reserved' = reserved /\ theirs' = theirs /\ mem' = mem /\ stored' = stored
        /\ disturbed' = disturbed
    BY DEF BuffsPart!Reopen, BuffsPart!Seek
  <1>2. PICK h \in BuffsPart!Lens : writer' = [head |-> h, pc |-> "idle", n |-> 0]
    <2>1. 0 \in BuffsPart!Lens
      BY BuffsFacts
    <2> QED  BY <2>1 DEF BuffsPart!Reopen, BuffsPart!Seek, BuffsPart!Idle
  <1>3. WriterType' /\ RoomMade'
    BY <1>2 DEF WriterType, RoomMade
  <1>4. BuffsTyped'
    BY <1>1, <1>2, BuffsFacts DEF BuffsTyped
  <1>5. BlockInv' /\ StoredInv' /\ TheirsInv'
    BY <1>1 DEF BuffsInv, BlockInv, StoredInv, TheirsInv
  <1> QED  BY <1>3, <1>4, <1>5 DEF BuffsInv

LEMMA BuffsInvariant == Spec => []BuffsInv
  <1>1. Init => BuffsInv
    BY InitBuffs DEF Init
  <1>2. BuffsInv /\ [Next]_vars => BuffsInv'
    <2> SUFFICES ASSUME BuffsInv, [Next]_vars PROVE BuffsInv'
      OBVIOUS
    <2>1. CASE BuffsPart!Next
      <3>1. ~disturbed
        BY <2>1 DEF BuffsPart!Next
      <3>2. CASE BuffsPart!buffs_createFile
        BY <3>1, <3>2, CreateKeeps
      <3>3. ASSUME NEW n \in Sizes, BuffsPart!Measure(n) PROVE BuffsInv'
        BY <3>1, <3>3, MeasureKeeps
      <3>4. CASE BuffsPart!Resize
        BY <3>1, <3>4, ResizeKeeps
      <3>5. CASE BuffsPart!Write
        BY <3>1, <3>5, WriteStepKeeps
      <3>6. CASE BuffsPart!Reopen
        BY <3>1, <3>6, SeekKeeps
      <3>7. ASSUME NEW i \in BuffsPart!Lens,
                   BuffsPart!Seek(i) \/ BuffsPart!Truncate(i) \/ BuffsPart!Poke(i)
            PROVE  BuffsInv'
        BY <3>1, <3>7, SeekKeeps, OthersTruncate, PokeKeeps
      <3>8. ASSUME NEW p \in BuffsPart!Page, BuffsPart!Take(p) \/ BuffsPart!Give(p)
            PROVE  BuffsInv'
        BY <3>1, <3>8, PagesKeep
      <3> QED  BY <2>1, <3>2, <3>3, <3>4, <3>5, <3>6, <3>7, <3>8 DEF BuffsPart!Next
    <2>2. CASE UNCHANGED buffs
      BY <2>2 DEF buffs, BuffsInv, BuffsTyped, WriterType, BlockInv, RoomMade, StoredInv, TheirsInv
    <2> QED  BY <2>1, <2>2 DEF Next, NextAudio, NextPs2, NextKeyboard, NextProc, NextDesktop,
                               NextBuffs, vars
  <1> QED  BY <1>1, <1>2, PTL DEF Spec

\* What a program was told is written is in the file, however often it was
\* moved, and its writes stay out of the pages of others, until memory ran out
\* or a resize went wrong in one of the ways that Buffs lists.
THEOREM FileWholeHolds == Spec => []FileWhole
  <1>1. BuffsInv => FileWhole
    BY BuffsGives DEF FileWhole
  <1> QED  BY <1>1, BuffsInvariant, PTL
-----------------------------------------------------------------------------
(* Audio: what the card plays next is the next frame of the song.          *)

AudioPlaces == {"idle", "set", "loaded", "started", "plays", "detached", "killed"}
AudioType ==
    /\ place \in [Players -> AudioPlaces]
    /\ total \in Lengths \cup {0} /\ next \in Nat /\ left \in 0 .. Word - 1
    /\ content \in [0 .. 2 * R - 1 -> Int]
    /\ playing \in {0, 1} /\ filled \in {0, 1} /\ finished \in Nat
    /\ on \in BOOLEAN /\ pos \in 0 .. 2 * R - 1 /\ late \in 0 .. Lag
    /\ heard \in Seq(Int) /\ astray \in BOOLEAN

\* One player at a time, and what the timer and the card do meanwhile.
OnePlayer ==
    /\ \A p, q \in Players :
         p = q \/ place[p] \in {"idle", "killed"} \/ place[q] \in {"idle", "killed"}
    /\ \A p \in Players :
         /\ place[p] \in {"set", "loaded"} => ~on
         /\ place[p] = "started" => on = selected
         /\ place[p] \in {"set", "loaded", "started"} => attached = 0
         /\ place[p] = "detached" /\ selected => attached = 0
    /\ selected /\ attached > 0 => on

From(h) == IF h = 0 THEN 0 ELSE R
InHalf(h, p) == IF h = 0 THEN p < R ELSE p >= R
\* Half h of the buffer holds the song from frame n on.
Holds(h, n) == \A j \in 0 .. R - 1 : n + j < total => content[From(h) + j] = n + j
\* The source has been read up to frame n, or to its end.
ReadTo(n) == IF next < total THEN next = n /\ left = (total - next) * F ELSE n >= total
\* The halves are at their start, and the source has been read up to n.
Fresh(n) == playing = 0 /\ filled = 0 /\ finished = 0 /\ ReadTo(n) /\ total > 0

\* With l frames heard and n of them in finished halves the card, at p, is in
\* half h, which is taken to be played, or has left it at most k frames ago for
\* the other one, which is filled.  The other one is not, before the first tick.
FollowsAt(k, h, f, n, p, l) ==
    IF InHalf(h, p)
    THEN l = n + p - From(h) /\ (f = h => l <= k)
    ELSE l = n + R + p - From(1 - h) /\ p - From(1 - h) <= k /\ f # h
\* The timer knows of the end of the song by the next tick or the one behind.
OverrunAt(t, k, h, p, l) == l < t + k \/ (h = 1 /\ p < R /\ l < t + Lag + 1 + k)
\* What the halves hold.
Plenty ==
    /\ Holds(playing, finished)
    /\ filled # playing => Holds(filled, finished + R)
    /\ ReadTo(IF filled = playing THEN R ELSE finished + 2 * R)
    /\ filled = playing => playing = 0 /\ finished = 0

HeardInv == \A i \in 1 .. Len(heard) : i <= total => heard[i] = i - 1
CardInv ==
    /\ FollowsAt(late, playing, filled, finished, pos, Len(heard))
    /\ OverrunAt(total, late, playing, pos, Len(heard))
    /\ Plenty
SongInv ==
    /\ OnePlayer
    /\ (\E p \in Players : place[p] = "set") => Fresh(0)
    /\ (\E p \in Players : place[p] = "loaded") => Fresh(R) /\ Holds(0, 0)
    /\ on => CardInv /\ total > 0
\* Without a card nothing is heard.
MuteInv == ~selected => ~on /\ heard = <<>>
AudioRest == AudioType /\ HeardInv /\ (~astray => SongInv)
AudioInv == AudioType /\ SourceInv /\ MuteInv /\ HeardInv /\ (~astray => SongInv)

LEMMA AudioBounds ==
    /\ R \in Nat \ {0} /\ F \in Nat \ {0} /\ Word \in Nat \ {0} /\ Entry \in 1 .. 2 * R
    /\ Lengths \subseteq Nat \ {0} /\ \A n \in Lengths : n * F < Word
    /\ Lag \in Nat /\ Lag + 1 < R
  BY AudioAssumption

\* Places in the buffer.
LEMMA SmallRemainder ==
    ASSUME NEW m \in Nat \ {0}, NEW x \in 0 .. m
    PROVE  x % m = IF x = m THEN 0 ELSE x
  <1> DEFINE q == x \div m
             r == x % m
  <1>1. q \in Int /\ r \in 0 .. m - 1 /\ x = m * q + r
    OBVIOUS
  <1> HIDE DEF q, r
  <1>2. ASSUME q >= 2 PROVE FALSE
    <2>1. m * q >= m * 2
      BY <1>1, <1>2
    <2> QED  BY <1>1, <2>1
  <1>3. ASSUME q <= -1 PROVE FALSE
    <2>1. m * q <= m * (-1)
      BY <1>1, <1>3
    <2> QED  BY <1>1, <2>1
  <1>4. CASE q = 0
    <2>1. m * q = 0
      BY <1>4
    <2> QED  BY <1>1, <2>1 DEF r
  <1>5. CASE q = 1
    <2>1. m * q = m
      BY <1>5
    <2> QED  BY <1>1, <2>1 DEF r
  <1> QED  BY <1>1, <1>2, <1>3, <1>4, <1>5

Succ(p) == IF p = 2 * R - 1 THEN 0 ELSE p + 1
LEMMA NextPlaces ==
    ASSUME pos \in 0 .. 2 * R - 1
    PROVE  AudioPart!At(0) = pos /\ AudioPart!At(1) = Succ(pos) /\ Succ(pos) \in 0 .. 2 * R - 1
  <1>1. PICK m \in Nat \ {0} : m = 2 * R
    BY AudioBounds
  <1>2. pos \in 0 .. m /\ pos + 1 \in 0 .. m /\ pos # m /\ pos + 0 = pos /\ pos \in Nat
    BY <1>1
  <1>3. pos % m = pos /\ (pos + 1) % m = IF pos + 1 = m THEN 0 ELSE pos + 1
    BY <1>1, <1>2, SmallRemainder
  <1> QED  BY <1>1, <1>2, <1>3 DEF AudioPart!At, Succ

LEMMA HalfOf ==
    ASSUME NEW i \in 0 .. 2 * R - 1
    PROVE  i \div R = (IF i < R THEN 0 ELSE 1) /\ i % R = (IF i < R THEN i ELSE i - R)
  <1> DEFINE q == i \div R
             r == i % R
  <1>0. R \in Nat \ {0}
    BY AudioBounds
  <1>1. q \in Int /\ r \in 0 .. R - 1 /\ i = R * q + r
    BY <1>0
  <1> HIDE DEF q, r
  <1>2. ASSUME q >= 2 PROVE FALSE
    <2>1. R * q >= R * 2
      BY <1>0, <1>1, <1>2
    <2> QED  BY <1>0, <1>1, <2>1
  <1>3. ASSUME q <= -1 PROVE FALSE
    <2>1. R * q <= R * (-1)
      BY <1>0, <1>1, <1>3
    <2> QED  BY <1>0, <1>1, <2>1
  <1>4. CASE q = 0
    <2>1. R * q = 0
      BY <1>0, <1>4
    <2>2. i < R /\ r = i
      BY <1>0, <1>1, <2>1
    <2> QED  BY <1>4, <2>2 DEF q, r
  <1>5. CASE q = 1
    <2>1. R * q = R
      BY <1>0, <1>5
    <2>2. ~(i < R) /\ r = i - R
      BY <1>0, <1>1, <2>1
    <2> QED  BY <1>5, <2>2 DEF q, r
  <1> QED  BY <1>1, <1>2, <1>3, <1>4, <1>5

\* A reading that is not torn gives where the card is at its end.
LEMMA PositionIs ==
    ASSUME NEW a \in 0 .. 2 * R - 1, NEW b \in 0 .. 2 * R - 1,
           AudioPart!EntryOf(a) = AudioPart!EntryOf(b)
    PROVE  AudioPart!Position(a, b) = b
  <1> DEFINE e == b \div Entry
             r == b % Entry
  <1>0. Entry \in Nat \ {0} /\ R \in Nat
    BY AudioBounds
  <1>1. e \in Int /\ r \in Int /\ b = Entry * e + r
    BY <1>0
  <1> HIDE DEF e, r
  <1>2. e * Entry \in Int /\ Entry * e = e * Entry
    BY <1>0, <1>1
  <1>3. PICK s \in Int : s = AudioPart!Size(e)
    <2>1. PICK x \in Int, y \in Int : x = Entry /\ y = 2 * R - e * Entry
      BY <1>0, <1>2
    <2>2. AudioPart!Min({x, y}) \in Int
      BY DEF AudioPart!Min
    <2> QED  BY <2>1, <2>2 DEF AudioPart!Size
  <1>4. AudioPart!Position(a, b) = e * Entry + s - (s - r)
    BY <1>3 DEF AudioPart!Position, AudioPart!EntryOf, e, r
  <1> QED  BY <1>1, <1>2, <1>3, <1>4

\* The card plays a frame.
LEMMA Onward ==
    ASSUME NEW k \in Nat, k + 1 < R, NEW h \in {0, 1}, NEW f \in {0, 1}, NEW n \in Nat,
           NEW p \in 0 .. 2 * R - 1, NEW l \in Nat,
           f = h => h = 0 /\ n = 0,
           FollowsAt(k, h, f, n, p, l)
    PROVE  FollowsAt(k + 1, h, f, n, Succ(p), l + 1)
  BY AudioBounds DEF FollowsAt, InHalf, From, Succ

LEMMA Overruns ==
    ASSUME NEW k \in Nat, k + 1 < R, NEW h \in {0, 1}, NEW f \in {0, 1}, NEW n \in Nat,
           NEW p \in 0 .. 2 * R - 1, NEW l \in Nat, NEW t \in Nat,
           FollowsAt(k, h, f, n, p, l), OverrunAt(t, k, h, p, l)
    PROVE  OverrunAt(t, k + 1, h, Succ(p), l + 1)
  BY AudioBounds DEF FollowsAt, OverrunAt, InHalf, From, Succ

\* The timer notices from the position p1 that the card has left the half; the
\* card is at p2 when it returns.
LEMMA Notices ==
    ASSUME NEW k \in 0 .. Lag, NEW h \in {0, 1}, NEW f \in {0, 1}, NEW n \in Nat,
           NEW p \in 0 .. 2 * R - 1, NEW l \in Nat,
           f = h => h = 0 /\ n = 0,
           FollowsAt(k, h, f, n, p, l),
           NEW p1 \in 0 .. 2 * R - 1, NEW p2 \in 0 .. 2 * R - 1, NEW l2 \in Nat,
           \/ p1 = p /\ p2 = p /\ l2 = l
           \/ p1 = p /\ p2 = Succ(p) /\ l2 = l + 1
           \/ p1 = Succ(p) /\ p2 = p1 /\ l2 = l + 1,
           NEW h2 \in {0, 1}, h2 = IF InHalf(h, p1) THEN h ELSE 1 - h,
           NEW n2 \in Nat, n2 = n + IF InHalf(h, p1) THEN 0 ELSE R
    PROVE  FollowsAt(0, h2, 1 - h2, n2, p2, l2)
  <1>1. CASE p1 = p /\ p2 = p /\ l2 = l
    BY <1>1, AudioBounds DEF FollowsAt, InHalf, From
  <1>2. CASE p1 = p /\ p2 = Succ(p) /\ l2 = l + 1
    BY <1>2, AudioBounds DEF FollowsAt, InHalf, From, Succ
  <1>3. CASE p1 = Succ(p) /\ p2 = p1 /\ l2 = l + 1
    BY <1>3, AudioBounds DEF FollowsAt, InHalf, From, Succ
  <1> QED  BY <1>1, <1>2, <1>3


\* What the converter is given is what is left of the song.
LEMMA Converts ==
    ASSUME AudioType, NEW n \in Nat, ReadTo(n)
    PROVE  /\ AudioPart!Count(next, left) \in Nat
           /\ next < total => next = n
           /\ \A j \in 0 .. R - 1 : n + j < total => j < AudioPart!Count(next, left)
           /\ AudioPart!Advance(next, left) /\ total' = total
                => /\ next' \in Nat /\ left' \in 0 .. Word - 1 /\ ReadTo(n + R)'
  <1>0. /\ R \in Nat \ {0} /\ F \in Nat \ {0} /\ Word \in Nat \ {0}
        /\ total \in Nat /\ next \in Nat /\ left \in Nat /\ left < Word
        /\ total > 0 => total * F < Word
    BY AudioBounds DEF AudioType
  <1>1. PICK c : c = AudioPart!Count(next, left)
    OBVIOUS
  <1>2. c = IF left = 0 THEN 0 ELSE IF left < R THEN left \div F ELSE R
    BY <1>1 DEF AudioPart!Count
  <1>3. c \in Nat
    BY <1>0, <1>2
  <1>4. ASSUME AudioPart!Advance(next, left), total' = total
        PROVE  next' = next + c /\ left' = (left + Word - c * F) % Word
    BY <1>1, <1>4 DEF AudioPart!Advance
  <1>5. ASSUME AudioPart!Advance(next, left), total' = total
        PROVE  next' \in Nat /\ left' \in 0 .. Word - 1
    <2>1. left + Word - c * F \in Int
      BY <1>0, <1>3
    <2> QED  BY <1>0, <1>3, <1>4, <1>5, <2>1
  <1>6. CASE next >= total
    <2>1. n >= total
      BY <1>0, <1>6 DEF ReadTo
    <2>2. ASSUME AudioPart!Advance(next, left), total' = total PROVE ReadTo(n + R)'
      <3>1. ~(next' < total') /\ n + R >= total'
        BY <1>0, <1>3, <1>4, <1>6, <2>1, <2>2
      <3> QED  BY <3>1 DEF ReadTo
    <2> QED  BY <1>0, <1>1, <1>3, <1>5, <1>6, <2>1, <2>2
  <1>7. CASE next < total
    <2>1. PICK d \in Nat \ {0} : d = total - next
      BY <1>0, <1>7
    <2>2. next = n /\ left = d * F
      BY <1>7, <2>1 DEF ReadTo
    <2>3. d * F >= d
      BY <1>0, <2>1
    <2>4. CASE left < R
      <3>1. (d * F) \div F = d
        <4>1. PICK x \in Int : x = d * F
          BY <1>0, <2>1
        <4>2. PICK q \in Int, r \in 0 .. F - 1 : q = x \div F /\ x = F * q + r
          <5> DEFINE q == x \div F
                     r == x % F
          <5>1. q \in Int /\ r \in 0 .. F - 1 /\ x = F * q + r
            BY <1>0, <4>1
          <5> HIDE DEF q, r
          <5> QED  BY <5>1 DEF q
        <4>3. F * (d - q) = r
          BY <1>0, <2>1, <4>1, <4>2
        <4>4. ASSUME d - q >= 1 PROVE FALSE
          <5>1. F * (d - q) >= F * 1
            BY <1>0, <2>1, <4>2, <4>4
          <5> QED  BY <1>0, <4>2, <4>3, <5>1
        <4>5. ASSUME d - q <= -1 PROVE FALSE
          <5>1. F * (d - q) <= F * (-1)
            BY <1>0, <2>1, <4>2, <4>5
          <5> QED  BY <1>0, <4>2, <4>3, <5>1
        <4> QED  BY <2>1, <4>1, <4>2, <4>4, <4>5
      <3>2. c = d
        BY <1>0, <1>2, <2>1, <2>2, <2>3, <2>4, <3>1
      <3>3. \A j \in 0 .. R - 1 : n + j < total => j < c
        BY <1>0, <2>1, <2>2, <3>2
      <3>4. ASSUME AudioPart!Advance(next, left), total' = total PROVE ReadTo(n + R)'
        <4>1. next' = total /\ n + R >= total'
          BY <1>0, <1>4, <2>1, <2>2, <2>3, <2>4, <3>2, <3>4
        <4>2. ~(next' < total')
          BY <1>0, <3>4, <4>1
        <4> QED  BY <4>1, <4>2 DEF ReadTo
      <3> QED  BY <1>1, <1>3, <1>5, <2>2, <3>3, <3>4
    <2>5. CASE left >= R
      <3>1. c = R
        BY <1>0, <1>2, <2>5
      <3>2. ASSUME AudioPart!Advance(next, left), total' = total PROVE ReadTo(n + R)'
        <4>1. next' = n + R /\ left' = (left + Word - R * F) % Word
          BY <1>4, <2>2, <3>1, <3>2
        <4>2. CASE n + R < total
          <5>1. PICK z \in Nat : z = (total - (n + R)) * F /\ z = d * F - R * F
            <6>1. PICK y \in Nat : y = total - (n + R)
              BY <1>0, <4>2
            <6>2. d = y + R
              BY <1>0, <2>1, <2>2, <6>1
            <6>3. (y + R) * F = y * F + R * F
              BY <1>0, <6>1
            <6>4. y * F \in Nat /\ R * F \in Nat
              BY <1>0, <6>1
            <6> QED  BY <6>1, <6>2, <6>3, <6>4
          <5>2. R * F \in Nat /\ d * F < Word
            BY <1>0, <2>2
          <5>3. left + Word - R * F = z + Word /\ z < Word
            BY <1>0, <2>2, <5>1, <5>2
          <5>4. (z + Word) % Word = z
            <6> DEFINE q == (z + Word) \div Word
                       r == (z + Word) % Word
            <6>1. q \in Int /\ r \in 0 .. Word - 1 /\ z + Word = Word * q + r
              BY <1>0, <5>1
            <6> HIDE DEF q, r
            <6>2. ASSUME q >= 2 PROVE FALSE
              <7>1. Word * q >= Word * 2
                BY <1>0, <6>1, <6>2
              <7> QED  BY <1>0, <5>1, <5>3, <6>1, <7>1
            <6>3. ASSUME q <= 0 PROVE FALSE
              <7>1. Word * q <= Word * 0
                BY <1>0, <6>1, <6>3
              <7> QED  BY <1>0, <5>1, <6>1, <7>1
            <6>4. q = 1
              BY <6>1, <6>2, <6>3
            <6>5. Word * q = Word
              BY <1>0, <6>4
            <6>6. r = z
              BY <1>0, <5>1, <6>1, <6>5
            <6> QED  BY <6>6 DEF r
          <5>5. next' = n + R /\ left' = (total' - next') * F
            BY <3>2, <4>1, <5>1, <5>3, <5>4
          <5> QED  BY <3>2, <4>2, <5>5 DEF ReadTo
        <4>3. CASE ~(n + R < total)
          <5>1. ~(next' < total') /\ n + R >= total'
            BY <1>0, <3>2, <4>1, <4>3
          <5> QED  BY <5>1 DEF ReadTo
        <4> QED  BY <4>2, <4>3
      <3> QED  BY <1>0, <1>1, <1>3, <1>5, <2>2, <3>1, <3>2
    <2> QED  BY <1>0, <2>4, <2>5
  <1> QED  BY <1>0, <1>6, <1>7

\* A half that is filled holds the song from there on, the other one as before.
LEMMA Fills ==
    ASSUME AudioType, NEW n \in Nat, ReadTo(n), NEW h \in {0, 1},
           content' = AudioPart!Fill(h, next, left), total' = total
    PROVE  /\ content' \in [0 .. 2 * R - 1 -> Int]
           /\ Holds(h, n)'
           /\ \A m \in Nat : Holds(1 - h, m) => Holds(1 - h, m)'
  <1>0. R \in Nat \ {0} /\ next \in Nat /\ total \in Nat /\ content \in [0 .. 2 * R - 1 -> Int]
    BY AudioBounds DEF AudioType
  <1>1. PICK c \in Nat : c = AudioPart!Count(next, left)
    BY Converts
  <1>2. ASSUME NEW i \in 0 .. 2 * R - 1
        PROVE  content'[i] = IF i \div R = h /\ i % R < c THEN next + (i % R) ELSE content[i]
    BY <1>1 DEF AudioPart!Fill, AudioPart!Place
  <1>3. content' \in [0 .. 2 * R - 1 -> Int]
    <2>1. content' = [i \in 0 .. 2 * R - 1 |-> content'[i]]
      BY DEF AudioPart!Fill, AudioPart!Place
    <2>2. \A i \in 0 .. 2 * R - 1 : content'[i] \in Int
      <3> SUFFICES ASSUME NEW i \in 0 .. 2 * R - 1 PROVE content'[i] \in Int
        OBVIOUS
      <3>1. PICK k \in Int : k = i % R
        <4>1. i % R = IF i < R THEN i ELSE i - R
          BY HalfOf
        <4> QED  BY <1>0, <4>1
      <3>2. next + k \in Int /\ content[i] \in Int
        BY <1>0
      <3>3. content'[i] = IF i \div R = h /\ k < c THEN next + k ELSE content[i]
        BY <1>2, <3>1
      <3> QED  BY <3>2, <3>3
    <2> QED  BY <2>1, <2>2
  <1>4. ASSUME NEW j \in 0 .. R - 1, NEW g \in {0, 1}
        PROVE  /\ From(g) + j \in 0 .. 2 * R - 1
               /\ (From(g) + j) \div R = g /\ (From(g) + j) % R = j
    <2>1. PICK i : i = From(g) + j
      OBVIOUS
    <2>2. i \in 0 .. 2 * R - 1 /\ (i < R <=> g = 0)
      BY <1>0, <2>1 DEF From
    <2>3. i \div R = (IF i < R THEN 0 ELSE 1) /\ i % R = (IF i < R THEN i ELSE i - R)
      BY <2>2, HalfOf
    <2> QED  BY <1>0, <2>1, <2>2, <2>3 DEF From
  <1>5. ASSUME NEW j \in 0 .. R - 1, n + j < total PROVE content'[From(h) + j] = n + j
    <2>1. j < c /\ next = n
      <3>1. next < total => next = n
        BY Converts
      <3>2. next < total
        BY <1>0, <1>5 DEF ReadTo
      <3> QED  BY <1>1, <1>5, <3>1, <3>2, Converts
    <2> QED  BY <1>2, <1>4, <2>1
  <1>6. Holds(h, n)'
    BY <1>5 DEF Holds, From
  <1>7. ASSUME NEW m \in Nat, Holds(1 - h, m) PROVE Holds(1 - h, m)'
    <2>1. 1 - h \in {0, 1} /\ 1 - h # h
      OBVIOUS
    <2>2. \A j \in 0 .. R - 1 : content'[From(1 - h) + j] = content[From(1 - h) + j]
      BY <1>2, <1>4, <2>1
    <2> QED  BY <1>7, <2>2 DEF Holds, From
  <1> QED  BY <1>3, <1>6, <1>7

\* What the card plays next.
LEMMA PlaysNext ==
    ASSUME AudioType, CardInv
    PROVE  Len(heard) \in Nat /\ (Len(heard) < total => content[pos] = Len(heard))
  <1>0. /\ R \in Nat \ {0} /\ total \in Nat /\ pos \in 0 .. 2 * R - 1 /\ finished \in Nat
        /\ playing \in {0, 1} /\ filled \in {0, 1} /\ late \in Nat /\ late < R
    BY AudioBounds DEF AudioType
  <1>1. PICK l \in Nat : l = Len(heard)
    BY LenProperties DEF AudioType
  <1>2. FollowsAt(late, playing, filled, finished, pos, l) /\ Plenty
    BY <1>1 DEF CardInv
  <1>3. CASE InHalf(playing, pos)
    <2>1. pos - From(playing) \in 0 .. R - 1 /\ l = finished + (pos - From(playing))
      BY <1>0, <1>2, <1>3 DEF FollowsAt, InHalf, From
    <2>2. l < total => content[From(playing) + (pos - From(playing))] = l
      BY <1>2, <2>1 DEF Plenty, Holds
    <2>3. From(playing) + (pos - From(playing)) = pos
      BY <1>0 DEF From
    <2> QED  BY <1>1, <2>2, <2>3
  <1>4. CASE ~InHalf(playing, pos)
    <2>1. /\ filled # playing /\ filled = 1 - playing
          /\ pos - From(filled) \in 0 .. R - 1 /\ l = finished + R + (pos - From(filled))
      BY <1>0, <1>2, <1>4 DEF FollowsAt, InHalf, From
    <2>2. l < total => content[From(filled) + (pos - From(filled))] = l
      BY <1>2, <2>1 DEF Plenty, Holds
    <2>3. From(filled) + (pos - From(filled)) = pos
      BY <1>0 DEF From
    <2> QED  BY <1>1, <2>2, <2>3
  <1> QED  BY <1>3, <1>4

LEMMA Played ==
    ASSUME AudioType, HeardInv, CardInv, NEW n \in {0, 1}, AudioPart!Plays(n), total' = total
    PROVE  /\ pos' \in 0 .. 2 * R - 1 /\ heard' \in Seq(Int) /\ HeardInv'
           /\ Len(heard) \in Nat /\ Len(heard') = Len(heard) + n
           /\ pos' = IF n = 0 THEN pos ELSE Succ(pos)
  <1>0. /\ heard \in Seq(Int) /\ total \in Nat /\ content \in [0 .. 2 * R - 1 -> Int]
        /\ pos \in 0 .. 2 * R - 1 /\ AudioPart!At(0) = pos /\ AudioPart!At(1) = Succ(pos)
        /\ Succ(pos) \in 0 .. 2 * R - 1
    BY AudioBounds, NextPlaces DEF AudioType
  <1>1. PICK t : t = [i \in 1 .. n |-> content[AudioPart!At(i - 1)]]
    OBVIOUS
  <1>2. pos' = AudioPart!At(n) /\ heard' = heard \o t
    BY <1>1 DEF AudioPart!Plays
  <1>3. pos' = (IF n = 0 THEN pos ELSE Succ(pos)) /\ pos' \in 0 .. 2 * R - 1
    BY <1>0, <1>2
  <1>4. t \in Seq(Int) /\ Len(t) = n /\ (n = 1 => t[1] = content[pos])
    <2>1. CASE n = 0
      <3>1. t = <<>>
        BY <1>1, <2>1
      <3> QED  BY <2>1, <3>1
    <2>2. CASE n = 1
      <3>1. content[pos] \in Int
        BY <1>0
      <3>2. t = [i \in 1 .. 1 |-> content[pos]]
        <4>1. \A i \in 1 .. 1 : AudioPart!At(i - 1) = pos
          BY <1>0
        <4> QED  BY <1>1, <2>2, <4>1
      <3>3. t = <<content[pos]>>
        BY <3>2
      <3> QED  BY <2>2, <3>1, <3>3
    <2> QED  BY <2>1, <2>2
  <1>5. /\ heard' \in Seq(Int) /\ Len(heard') = Len(heard) + n /\ Len(heard) \in Nat
        /\ \A i \in 1 .. Len(heard) + n :
             heard'[i] = IF i <= Len(heard) THEN heard[i] ELSE t[i - Len(heard)]
    BY <1>0, <1>2, <1>4, ConcatProperties, LenProperties
  <1>6. HeardInv'
    <2> SUFFICES ASSUME NEW i \in 1 .. Len(heard) + n, i <= total PROVE heard'[i] = i - 1
      BY <1>5 DEF HeardInv
    <2>1. PICK l \in Nat : l = Len(heard)
      BY <1>5
    <2>2. CASE i <= l
      BY <1>5, <2>1, <2>2 DEF HeardInv
    <2>3. CASE i > l
      <3>1. n = 1 /\ i = l + 1 /\ l < total
        BY <1>0, <2>1, <2>3
      <3>2. heard'[i] = t[1]
        BY <1>5, <2>1, <3>1
      <3>3. content[pos] = l
        BY <2>1, <3>1, PlaysNext
      <3> QED  BY <1>4, <3>1, <3>2, <3>3
    <2> QED  BY <2>1, <2>2, <2>3
  <1> QED  BY <1>3, <1>5, <1>6
-----------------------------------------------------------------------------
(* The card and the timer.                                                 *)

LEMMA AudioFacts ==
    ASSUME AudioInv
    PROVE  /\ total \in Nat /\ finished \in Nat /\ pos \in 0 .. 2 * R - 1 /\ late \in 0 .. Lag
           /\ playing \in {0, 1} /\ filled \in {0, 1} /\ Len(heard) \in Nat /\ on \in BOOLEAN
           /\ attached \in Nat /\ selected \in BOOLEAN /\ (on => selected)
           /\ ~astray /\ on => /\ CardInv /\ total > 0
                               /\ FollowsAt(late, playing, filled, finished, pos, Len(heard))
                               /\ OverrunAt(total, late, playing, pos, Len(heard))
                               /\ filled = playing => playing = 0 /\ finished = 0
  <1>1. /\ total \in Nat /\ finished \in Nat /\ pos \in 0 .. 2 * R - 1 /\ late \in 0 .. Lag
        /\ playing \in {0, 1} /\ filled \in {0, 1} /\ on \in BOOLEAN
    BY AudioBounds DEF AudioInv, AudioType
  <1>2. Len(heard) \in Nat
    BY LenProperties DEF AudioInv, AudioType
  <1>3. attached \in Nat /\ selected \in BOOLEAN /\ (on => selected)
    BY DEF AudioInv, SourceInv, MuteInv
  <1>4. ASSUME ~astray, on
        PROVE  /\ CardInv /\ total > 0
               /\ FollowsAt(late, playing, filled, finished, pos, Len(heard))
               /\ OverrunAt(total, late, playing, pos, Len(heard))
               /\ filled = playing => playing = 0 /\ finished = 0
    BY <1>4 DEF AudioInv, SongInv, CardInv, Plenty
  <1> QED  BY <1>1, <1>2, <1>3, <1>4

\* A frame more, and nothing else.
LEMMA DacKeeps ==
    ASSUME AudioInv, AudioPart!Dac
    PROVE  AudioInv'
  <1>1. /\ on /\ ~astray /\ late < Lag /\ AudioPart!Plays(1) /\ late' = late + 1
        /\ place' = place /\ attached' = attached /\ on' = on /\ astray' = astray
        /\ total' = total /\ next' = next /\ left' = left /\ content' = content
        /\ playing' = playing /\ filled' = filled /\ finished' = finished
        /\ selected /\ selected' = selected /\ source' = source /\ mingled' = mingled
    BY AudioFacts DEF AudioPart!Dac, AudioPart!song, AudioPart!whose
  <1>2. /\ pos' = Succ(pos) /\ pos' \in 0 .. 2 * R - 1 /\ heard' \in Seq(Int) /\ HeardInv'
        /\ Len(heard') = Len(heard) + 1
    BY <1>1, AudioFacts, Played DEF AudioInv
  <1>3. PICK l \in Nat : l = Len(heard)
    BY AudioFacts
  <1>4. late \in Nat /\ late + 1 < R
    BY <1>1, AudioFacts, AudioBounds
  <1>5. FollowsAt(late + 1, playing, filled, finished, Succ(pos), l + 1)
    BY <1>1, <1>3, <1>4, AudioFacts, Onward
  <1>6. OverrunAt(total, late + 1, playing, Succ(pos), l + 1)
    BY <1>1, <1>3, <1>4, AudioFacts, Overruns
  <1>7. Plenty'
    BY <1>1, AudioFacts DEF CardInv, Plenty, Holds, ReadTo, From
  <1>8. CardInv'
    <2>1. FollowsAt(late', playing', filled', finished', pos', Len(heard'))
      BY <1>1, <1>2, <1>3, <1>5
    <2>2. OverrunAt(total', late', playing', pos', Len(heard'))
      BY <1>1, <1>2, <1>3, <1>6
    <2> QED  BY <1>7, <2>1, <2>2 DEF CardInv
  <1>9. AudioType'
    <2>1. late' \in 0 .. Lag
      BY <1>1, <1>4, AudioBounds
    <2> QED  BY <1>1, <1>2, <2>1 DEF AudioInv, AudioType
  <1>10. SongInv'
    <2>1. OnePlayer'
      BY <1>1 DEF AudioInv, SongInv, OnePlayer
    <2>2. \A p \in Players : place[p] \notin {"set", "loaded"}
      BY <1>1 DEF AudioInv, SongInv, OnePlayer
    <2>3. total' > 0
      BY <1>1, AudioFacts
    <2> QED  BY <1>1, <1>8, <2>1, <2>2, <2>3 DEF SongInv
  <1> QED  BY <1>1, <1>2, <1>9, <1>10 DEF AudioInv, SourceInv, MuteInv

\* A tick in other words: it notices from the position p1, counts from p2,
\* where the card is when it returns, and fills the half that is taken to be
\* played, if it is the one that was filled last.
LEMMA TickIs ==
    ASSUME AudioInv, AudioPart!Tick, on
    PROVE  /\ selected /\ ~astray /\ attached > 0
           /\ selected' = selected /\ source' = source /\ mingled' = mingled
           /\ place' = place /\ total' = total /\ astray' = astray /\ late' = 0
           /\ \E n \in {0, 1} : \E p1, p2, h2, n2, c :
                /\ AudioPart!Plays(n) /\ p2 = (IF n = 0 THEN pos ELSE Succ(pos))
                /\ p1 = pos \/ p1 = p2
                /\ h2 = (IF InHalf(playing, p1) THEN playing ELSE 1 - playing)
                /\ n2 = finished + (IF InHalf(playing, p1) THEN 0 ELSE R)
                /\ c = n2 + p2 - (IF h2 = 1 THEN R ELSE 0)
                /\ playing' = h2 /\ finished' = n2
                /\ attached' = (IF c >= total THEN 0 ELSE attached)
                /\ on' = (~(c >= total))
                /\ \/ /\ h2 = filled /\ content' = AudioPart!Fill(1 - filled, next, left)
                      /\ AudioPart!Advance(next, left) /\ filled' = 1 - filled
                   \/ h2 # filled /\ UNCHANGED <<content, next, left, filled>>
  <1>1. on /\ selected /\ ~astray /\ attached > 0
    BY AudioFacts DEF AudioPart!Tick
  <1>2. /\ total \in Nat /\ finished \in Nat /\ pos \in 0 .. 2 * R - 1 /\ playing \in {0, 1}
        /\ AudioPart!At(0) = pos /\ AudioPart!At(1) = Succ(pos) /\ Succ(pos) \in 0 .. 2 * R - 1
    BY AudioFacts, NextPlaces
  <1>3. PICK a, b, cc, d : a \in 0 .. 1 /\ b \in a .. 1 /\ cc \in b .. 1 /\ d \in cc .. 1 /\ (
         LET first == AudioPart!Position(AudioPart!At(a), AudioPart!At(b))
             second == AudioPart!Position(AudioPart!At(cc), AudioPart!At(d))
             over == AudioPart!Played(AudioPart!Finished(first), AudioPart!Playing(first), second) >= total
         IN  /\ AudioPart!EntryOf(AudioPart!At(a)) = AudioPart!EntryOf(AudioPart!At(b))
             /\ AudioPart!EntryOf(AudioPart!At(cc)) = AudioPart!EntryOf(AudioPart!At(d))
             /\ AudioPart!Plays(d)
             /\ finished' = AudioPart!Finished(first)
             /\ playing' = AudioPart!Playing(first)
             /\ attached' = IF over THEN AudioPart!Detached(attached) ELSE attached
             /\ on' = (on /\ ~over)
             /\ \/ /\ AudioPart!Playing(first) = filled
                   /\ content' = AudioPart!Fill(1 - filled, next, left)
                   /\ AudioPart!Advance(next, left)
                   /\ filled' = 1 - filled
                \/ /\ AudioPart!Playing(first) # filled
                   /\ UNCHANGED <<content, next, left, filled>>)
    BY <1>1 DEF AudioPart!Tick
  <1>4. /\ a \in {0, 1} /\ b \in {0, 1} /\ cc \in {0, 1} /\ d \in {0, 1}
        /\ (b = 1) => (d = 1)
    BY <1>3
  <1>5. PICK p1, p2 : p1 = AudioPart!At(b) /\ p2 = AudioPart!At(d)
    OBVIOUS
  <1>6. /\ p2 = (IF d = 0 THEN pos ELSE Succ(pos)) /\ (p1 = pos \/ p1 = p2)
        /\ p1 \in 0 .. 2 * R - 1 /\ p2 \in 0 .. 2 * R - 1
        /\ AudioPart!Position(AudioPart!At(a), AudioPart!At(b)) = p1
        /\ AudioPart!Position(AudioPart!At(cc), AudioPart!At(d)) = p2
    <2>1. /\ AudioPart!At(a) \in 0 .. 2 * R - 1 /\ AudioPart!At(b) \in 0 .. 2 * R - 1
          /\ AudioPart!At(cc) \in 0 .. 2 * R - 1 /\ AudioPart!At(d) \in 0 .. 2 * R - 1
      BY <1>2, <1>4
    <2>2. /\ AudioPart!Position(AudioPart!At(a), AudioPart!At(b)) = p1
          /\ AudioPart!Position(AudioPart!At(cc), AudioPart!At(d)) = p2
      BY <1>3, <1>5, <2>1, PositionIs
    <2>3. p2 = (IF d = 0 THEN pos ELSE Succ(pos)) /\ (p1 = pos \/ p1 = p2)
      BY <1>2, <1>4, <1>5
    <2> QED  BY <1>5, <2>1, <2>2, <2>3
  <1>7. AudioPart!LeftHalf(p1) <=> ~InHalf(playing, p1)
    BY <1>2, <1>6, AudioBounds DEF AudioPart!LeftHalf, InHalf
  <1>8. PICK h2, n2, c :
          /\ h2 = AudioPart!Playing(p1) /\ n2 = AudioPart!Finished(p1)
          /\ c = AudioPart!Played(n2, h2, p2)
    OBVIOUS
  <1>9. /\ h2 = (IF InHalf(playing, p1) THEN playing ELSE 1 - playing)
        /\ n2 = finished + (IF InHalf(playing, p1) THEN 0 ELSE R)
        /\ c = n2 + p2 - (IF h2 = 1 THEN R ELSE 0)
    <2>1. h2 = (IF InHalf(playing, p1) THEN playing ELSE 1 - playing)
      BY <1>7, <1>8 DEF AudioPart!Playing
    <2>2. n2 = finished + (IF InHalf(playing, p1) THEN 0 ELSE R)
      BY <1>7, <1>8 DEF AudioPart!Finished
    <2>3. c = n2 + p2 - (IF h2 = 1 THEN R ELSE 0)
      BY <1>8 DEF AudioPart!Played
    <2> QED  BY <2>1, <2>2, <2>3
  <1>10. /\ AudioPart!Plays(d) /\ playing' = h2 /\ finished' = n2
         /\ attached' = (IF c >= total THEN 0 ELSE attached)
         /\ on' = (~(c >= total))
         /\ \/ /\ h2 = filled /\ content' = AudioPart!Fill(1 - filled, next, left)
               /\ AudioPart!Advance(next, left) /\ filled' = 1 - filled
            \/ h2 # filled /\ UNCHANGED <<content, next, left, filled>>
    <2>1. /\ AudioPart!Plays(d) /\ playing' = h2 /\ finished' = n2
          /\ \/ /\ h2 = filled /\ content' = AudioPart!Fill(1 - filled, next, left)
                /\ AudioPart!Advance(next, left) /\ filled' = 1 - filled
             \/ h2 # filled /\ UNCHANGED <<content, next, left, filled>>
      BY <1>3, <1>6, <1>8
    <2>2. attached' = (IF c >= total THEN 0 ELSE attached)
      BY <1>1, <1>3, <1>6, <1>8 DEF AudioPart!Detached
    <2>3. on' = (on /\ ~(c >= total))
      BY <1>3, <1>6, <1>8
    <2>4. (on /\ ~(c >= total)) = ~(c >= total)
      BY <1>1
    <2> QED  BY <2>1, <2>2, <2>3, <2>4
  <1>11. /\ place' = place /\ total' = total /\ astray' = astray /\ late' = 0
         /\ selected' = selected /\ source' = source /\ mingled' = mingled
    BY DEF AudioPart!Tick, AudioPart!whose
  <1> QED  BY <1>1, <1>4, <1>6, <1>9, <1>10, <1>11

LEMMA LoudTickKeeps ==
    ASSUME AudioInv, AudioPart!Tick, on
    PROVE  /\ AudioInv'
           /\ attached' = 0 => Len(heard') >= total
           /\ Len(heard') < total + 2 * (Lag + 1)
  <1>1. /\ on /\ selected /\ ~astray /\ attached > 0
        /\ place' = place /\ total' = total /\ astray' = astray /\ late' = 0
        /\ selected' = selected /\ source' = source /\ mingled' = mingled
    BY TickIs
  <1>2. PICK d, p1, p2, h2, n2, c :
          /\ d \in {0, 1} /\ AudioPart!Plays(d) /\ p2 = (IF d = 0 THEN pos ELSE Succ(pos))
          /\ p1 = pos \/ p1 = p2
          /\ h2 = (IF InHalf(playing, p1) THEN playing ELSE 1 - playing)
          /\ n2 = finished + (IF InHalf(playing, p1) THEN 0 ELSE R)
          /\ c = n2 + p2 - (IF h2 = 1 THEN R ELSE 0)
          /\ playing' = h2 /\ finished' = n2
          /\ attached' = (IF c >= total THEN 0 ELSE attached)
          /\ on' = (~(c >= total))
          /\ \/ /\ h2 = filled /\ content' = AudioPart!Fill(1 - filled, next, left)
                /\ AudioPart!Advance(next, left) /\ filled' = 1 - filled
             \/ h2 # filled /\ UNCHANGED <<content, next, left, filled>>
    BY TickIs
  <1>3. /\ total \in Nat /\ finished \in Nat /\ pos \in 0 .. 2 * R - 1 /\ late \in 0 .. Lag
        /\ playing \in {0, 1} /\ filled \in {0, 1} /\ total > 0
        /\ CardInv /\ R \in Nat /\ attached \in Nat
        /\ (filled = playing) => (playing = 0 /\ finished = 0)
    BY <1>1, AudioFacts, AudioBounds
  <1>4. PICK l \in Nat, l2 \in Nat : l = Len(heard) /\ l2 = l + d
    BY <1>2, AudioFacts
  <1>5. /\ pos' = p2 /\ p2 \in 0 .. 2 * R - 1 /\ heard' \in Seq(Int) /\ HeardInv' /\ Len(heard') = l2
    BY <1>1, <1>2, <1>3, <1>4, Played DEF AudioInv
  <1>6. \/ p1 = pos /\ p2 = pos /\ l2 = l
        \/ p1 = pos /\ p2 = Succ(pos) /\ l2 = l + 1
        \/ p1 = Succ(pos) /\ p2 = p1 /\ l2 = l + 1
    BY <1>2, <1>4
  <1>7. /\ FollowsAt(late, playing, filled, finished, pos, l)
        /\ OverrunAt(total, late, playing, pos, l)
    BY <1>3, <1>4 DEF CardInv
  <1>8. h2 \in {0, 1} /\ n2 \in Nat /\ c \in Int /\ p1 \in 0 .. 2 * R - 1
    BY <1>2, <1>3, <1>5, <1>6, NextPlaces
  <1>9. FollowsAt(0, h2, 1 - h2, n2, p2, l2)
    <2>1. /\ h2 = (IF InHalf(playing, p1) THEN playing ELSE 1 - playing)
          /\ n2 = finished + (IF InHalf(playing, p1) THEN 0 ELSE R)
      BY <1>2
    <2>2. (filled = playing) => (playing = 0 /\ finished = 0)
      BY <1>3
    <2>3. /\ late \in 0 .. Lag /\ playing \in {0, 1} /\ filled \in {0, 1} /\ finished \in Nat
          /\ pos \in 0 .. 2 * R - 1 /\ l \in Nat /\ l2 \in Nat
          /\ p1 \in 0 .. 2 * R - 1 /\ p2 \in 0 .. 2 * R - 1 /\ h2 \in {0, 1} /\ n2 \in Nat
          /\ FollowsAt(late, playing, filled, finished, pos, l)
      BY <1>3, <1>4, <1>5, <1>7, <1>8
    <2> QED  BY <1>6, <2>1, <2>2, <2>3, Notices
  \* What it counts is what was heard, unless the card has gone round.
  <1>10. /\ (c >= total) => (l2 >= total)
         /\ (c < total) => OverrunAt(total, 0, h2, p2, l2)
         /\ l2 < total + 2 * (Lag + 1)
    <2>1. /\ h2 = (IF InHalf(playing, p1) THEN playing ELSE 1 - playing)
          /\ n2 = finished + (IF InHalf(playing, p1) THEN 0 ELSE R)
          /\ c = n2 + p2 - (IF h2 = 1 THEN R ELSE 0)
      BY <1>2
    <2>2. (filled = playing) => (playing = 0 /\ finished = 0)
      BY <1>3
    <2>3. /\ late \in 0 .. Lag /\ playing \in {0, 1} /\ filled \in {0, 1} /\ finished \in Nat
          /\ pos \in 0 .. 2 * R - 1 /\ l \in Nat /\ total \in Nat
          /\ p1 \in 0 .. 2 * R - 1 /\ p2 \in 0 .. 2 * R - 1 /\ l2 \in Nat
          /\ h2 \in {0, 1} /\ n2 \in Nat
      BY <1>3, <1>4, <1>5, <1>8
    <2>4. CASE p1 = pos /\ p2 = pos /\ l2 = l
      BY <1>7, <2>1, <2>2, <2>3, <2>4, AudioBounds DEF FollowsAt, OverrunAt, InHalf, From
    <2>5. CASE p1 = pos /\ p2 = Succ(pos) /\ l2 = l + 1
      BY <1>7, <2>1, <2>2, <2>3, <2>5, AudioBounds DEF FollowsAt, OverrunAt, InHalf, From, Succ
    <2>6. CASE p1 = Succ(pos) /\ p2 = p1 /\ l2 = l + 1
      BY <1>7, <2>1, <2>2, <2>3, <2>6, AudioBounds DEF FollowsAt, OverrunAt, InHalf, From, Succ
    <2> QED  BY <1>6, <2>4, <2>5, <2>6
  <1>11. (h2 # playing) => (h2 = filled /\ filled # playing)
    <2>1. ASSUME h2 # playing PROVE filled # playing
      <3>1. ~InHalf(playing, p1)
        BY <1>2, <2>1
      <3>2. CASE p1 = pos
        BY <1>7, <3>1, <3>2 DEF FollowsAt
      <3>3. CASE p1 = Succ(pos)
        <4>1. late \in Nat /\ late + 1 < R
          BY <1>3, AudioBounds
        <4>2. FollowsAt(late + 1, playing, filled, finished, Succ(pos), l + 1)
          BY <1>3, <1>7, <4>1, Onward
        <4> QED  BY <3>1, <3>3, <4>2 DEF FollowsAt
      <3> QED  BY <1>6, <3>2, <3>3
    <2> QED  BY <1>3, <1>8, <2>1
  <1>12. (h2 = playing) => (n2 = finished)
    BY <1>2, <1>3
  <1>13. (h2 # playing) => (n2 = finished + R)
    BY <1>2, <1>3
  \* What the halves hold then.
  <1>14. /\ filled' = 1 - h2 /\ filled' \in {0, 1} /\ content' \in [0 .. 2 * R - 1 -> Int]
         /\ next' \in Nat /\ left' \in 0 .. Word - 1
         /\ Holds(h2, n2)' /\ Holds(1 - h2, n2 + R)' /\ ReadTo(n2 + 2 * R)'
    <2>0. AudioType /\ Plenty
      BY <1>3 DEF AudioInv, CardInv
    <2>1. CASE h2 # filled
      <3>1. h2 = playing /\ n2 = finished /\ filled # playing /\ filled = 1 - h2
        BY <1>3, <1>8, <1>11, <1>12, <2>1
      <3>2. UNCHANGED <<content, next, left, filled, total>>
        BY <1>1, <1>2, <2>1
      <3>3. Holds(h2, n2) /\ Holds(1 - h2, n2 + R) /\ ReadTo(n2 + 2 * R)
        BY <2>0, <3>1 DEF Plenty
      <3>4. Holds(h2, n2)' /\ Holds(1 - h2, n2 + R)' /\ ReadTo(n2 + 2 * R)'
        BY <3>2, <3>3 DEF Holds, ReadTo, From
      <3> QED  BY <1>3, <2>0, <3>1, <3>2, <3>4 DEF AudioType
    <2>2. CASE h2 = filled
      <3>1. /\ content' = AudioPart!Fill(1 - filled, next, left)
            /\ AudioPart!Advance(next, left) /\ filled' = 1 - filled
        BY <1>2, <2>2
      <3>2. PICK g \in {0, 1} : g = 1 - filled /\ 1 - g = h2
        BY <1>3, <2>2
      <3>3. PICK m \in Nat : m = n2 + R
        BY <1>3, <1>8
      <3>4. Holds(h2, n2) /\ ReadTo(m)
        <4>1. CASE h2 = playing
          <5>1. playing = 0 /\ finished = 0 /\ n2 = 0 /\ m = R
            BY <1>3, <1>12, <2>2, <3>3, <4>1
          <5> QED  BY <2>0, <2>2, <4>1, <5>1 DEF Plenty
        <4>2. CASE h2 # playing
          <5>1. filled # playing /\ n2 = finished + R /\ m = finished + 2 * R
            BY <1>3, <1>11, <1>13, <3>3, <4>2
          <5> QED  BY <2>0, <2>2, <5>1 DEF Plenty
        <4> QED  BY <4>1, <4>2
      <3>5. /\ content' \in [0 .. 2 * R - 1 -> Int] /\ Holds(g, m)'
            /\ \A mm \in Nat : Holds(1 - g, mm) => Holds(1 - g, mm)'
        BY <1>1, <2>0, <3>1, <3>2, <3>4, Fills
      <3>6. next' \in Nat /\ left' \in 0 .. Word - 1 /\ ReadTo(m + R)'
        BY <1>1, <2>0, <3>1, <3>4, Converts
      <3>7. Holds(1 - g, n2)'
        BY <1>8, <3>2, <3>4, <3>5
      <3>8. g = 1 - h2 /\ m = n2 + R /\ m + R = n2 + 2 * R
        BY <1>3, <1>8, <3>2, <3>3
      <3> QED  BY <1>3, <2>2, <3>1, <3>2, <3>5, <3>6, <3>7, <3>8
    <2> QED  BY <2>1, <2>2
  <1>15. Plenty'
    <2>1. filled' # playing'
      BY <1>2, <1>8, <1>14
    <2> QED  BY <1>2, <1>14, <2>1 DEF Plenty, Holds, ReadTo
  <1>16. on' => CardInv' /\ total' > 0
    <2> SUFFICES ASSUME on' PROVE CardInv' /\ total' > 0
      OBVIOUS
    <2>1. c < total
      <3>1. ~(c >= total)
        BY <1>2
      <3> QED  BY <1>3, <1>8, <3>1
    <2>2. FollowsAt(late', playing', filled', finished', pos', Len(heard'))
      BY <1>1, <1>2, <1>5, <1>9, <1>14
    <2>3. OverrunAt(total', late', playing', pos', Len(heard'))
      BY <1>1, <1>2, <1>5, <1>10, <2>1
    <2> QED  BY <1>1, <1>3, <1>15, <2>2, <2>3 DEF CardInv
  <1>17. AudioType'
    <2>1. on' \in BOOLEAN /\ late' \in 0 .. Lag
      BY <1>1, <1>2, AudioBounds
    <2> QED  BY <1>1, <1>2, <1>5, <1>8, <1>14, <2>1 DEF AudioInv, AudioType
  <1>18. SourceInv' /\ MuteInv'
    <2>1. attached' \in {0, attached}
      BY <1>1, <1>2, <1>3
    <2>2. 0 \in 0 .. TimerSlots
      BY AudioAssumption
    <2> QED  BY <1>1, <2>1, <2>2 DEF AudioInv, SourceInv, MuteInv
  <1>19. SongInv'
    <2>1. attached' > 0 => on'
      <3>1. CASE c >= total
        BY <1>2, <3>1
      <3>2. CASE ~(c >= total)
        BY <1>2, <3>2
      <3> QED  BY <3>1, <3>2
    <2>2. \A p \in Players : place[p] \notin {"set", "loaded", "started", "detached"}
      BY <1>1, <1>3 DEF AudioInv, SongInv, OnePlayer
    <2>3. OnePlayer'
      BY <1>1, <2>1, <2>2 DEF AudioInv, SongInv, OnePlayer
    <2> QED  BY <1>1, <1>16, <2>2, <2>3 DEF SongInv
  <1>20. attached' = 0 => l2 >= total
    BY <1>1, <1>2, <1>3, <1>10
  <1> QED  BY <1>1, <1>5, <1>10, <1>17, <1>18, <1>19, <1>20 DEF AudioInv

\* The types of what is converted, wherever the source has been read to.
LEMMA ConvertTypes ==
    ASSUME AudioType, NEW h \in {0, 1}
    PROVE  /\ AudioPart!Fill(h, next, left) \in [0 .. 2 * R - 1 -> Int]
           /\ AudioPart!Advance(next, left) => next' \in Nat /\ left' \in 0 .. Word - 1
  <1>0. /\ R \in Nat \ {0} /\ F \in Nat \ {0} /\ Word \in Nat \ {0}
        /\ next \in Nat /\ left \in Nat /\ content \in [0 .. 2 * R - 1 -> Int]
    BY AudioBounds DEF AudioType
  <1>1. PICK c : c = AudioPart!Count(next, left)
    OBVIOUS
  <1>2. c \in Nat
    BY <1>0, <1>1 DEF AudioPart!Count
  <1>3. AudioPart!Fill(h, next, left) \in [0 .. 2 * R - 1 -> Int]
    <2>1. ASSUME NEW i \in 0 .. 2 * R - 1
          PROVE  (IF i \div R = h /\ i % R < c THEN next + (i % R) ELSE content[i]) \in Int
      <3>1. PICK k \in Int : k = i % R
        <4>1. i % R = IF i < R THEN i ELSE i - R
          BY HalfOf
        <4> QED  BY <1>0, <4>1
      <3>2. next + k \in Int /\ content[i] \in Int
        BY <1>0
      <3> QED  BY <3>1, <3>2
    <2>2. AudioPart!Fill(h, next, left) =
            [i \in 0 .. 2 * R - 1 |->
               IF i \div R = h /\ i % R < c THEN next + (i % R) ELSE content[i]]
      BY <1>1 DEF AudioPart!Fill, AudioPart!Place
    <2> QED  BY <2>1, <2>2
  <1>4. ASSUME AudioPart!Advance(next, left) PROVE next' \in Nat /\ left' \in 0 .. Word - 1
    <2>1. next' = next + c /\ left' = (left + Word - c * F) % Word
      BY <1>1, <1>4 DEF AudioPart!Advance
    <2>2. left + Word - c * F \in Int
      BY <1>0, <1>2
    <2> QED  BY <1>0, <1>2, <2>1, <2>2
  <1> QED  BY <1>3, <1>4

\* A tick while the card is off.
LEMMA QuietTickIs ==
    ASSUME AudioPart!Tick, ~on
    PROVE  /\ AudioPart!Plays(0) /\ ~on'
           /\ attached' = attached \/ attached' = AudioPart!Detached(attached)
           /\ \E at : finished' = AudioPart!Finished(at) /\ playing' = AudioPart!Playing(at)
           /\ \/ /\ content' = AudioPart!Fill(1 - filled, next, left)
                 /\ AudioPart!Advance(next, left) /\ filled' = 1 - filled
              \/ UNCHANGED <<content, next, left, filled>>
  BY ZenonT(120) DEF AudioPart!Tick

\* Nothing is played, and what was heard stays.
LEMMA PlaysNothing ==
    ASSUME AudioPart!Plays(0), heard = <<>>
    PROVE  pos' = AudioPart!At(0) /\ heard' = <<>>
  <1>1. PICK t : t = [i \in 1 .. 0 |-> content[AudioPart!At(i - 1)]]
    OBVIOUS
  <1>2. t = <<>>
    BY <1>1
  <1>3. pos' = AudioPart!At(0) /\ heard' = heard \o t
    BY <1>1 DEF AudioPart!Plays
  <1> QED  BY <1>2, <1>3

LEMMA MuteKept == ASSUME MuteInv, [Next]_vars PROVE MuteInv'
  <1>1. CASE AudioPart!Next
    <2>1. CASE AudioPart!Tick
      <3>1. selected' = selected
        BY <2>1 DEF AudioPart!Tick, AudioPart!whose
      <3>2. ASSUME ~selected PROVE ~on' /\ heard' = <<>>
        BY <2>1, <3>2, QuietTickIs, PlaysNothing DEF MuteInv
      <3> QED  BY <3>1, <3>2 DEF MuteInv
    <2>2. CASE AudioPart!Dac \/ AudioPart!TornTick \/ AudioPart!AstrayTick
      BY <2>2 DEF AudioPart!Dac, AudioPart!TornTick, AudioPart!AstrayTick, AudioPart!whose,
         AudioPart!card, MuteInv
    <2>3. ASSUME NEW p \in Players, AudioPart!SetInfo(p) \/ AudioPart!StartCard(p)
          PROVE  MuteInv'
      BY <2>3 DEF AudioPart!SetInfo, AudioPart!StartCard, AudioPart!whose, MuteInv
    <2>4. ASSUME NEW p \in Players,
                 \/ AudioPart!FirstFill(p) \/ AudioPart!Attach(p) \/ AudioPart!Detach(p)
                 \/ AudioPart!StopCard(p) \/ AudioPart!Kill(p)
          PROVE  MuteInv'
      BY <2>4 DEF AudioPart!FirstFill, AudioPart!Attach, AudioPart!Detach, AudioPart!StopCard,
         AudioPart!Kill, AudioPart!whose, AudioPart!card, MuteInv
    <2> QED  BY <1>1, <2>1, <2>2, <2>3, <2>4 DEF AudioPart!Next
  <1>2. CASE UNCHANGED audio
    BY <1>2 DEF audio, MuteInv
  <1> QED  BY <1>1, <1>2 DEF Next, NextAudio, NextPs2, NextKeyboard, NextProc, NextDesktop,
                             NextBuffs, vars

\* The timer ticks without a card: its function reads the source and stays.
LEMMA MuteTickKeeps ==
    ASSUME AudioInv, AudioPart!Tick, ~on
    PROVE  AudioRest' /\ attached' # 0 /\ Len(heard') = 0
  <1>1. /\ ~astray /\ attached > 0 /\ place' = place /\ total' = total /\ astray' = astray
        /\ late' = 0 /\ selected' = selected
    BY DEF AudioPart!Tick, AudioPart!whose
  <1>2. ~selected /\ heard = <<>> /\ OnePlayer
    BY <1>1 DEF AudioInv, SongInv, OnePlayer, MuteInv
  <1>3. /\ AudioPart!Plays(0) /\ ~on'
        /\ attached' = attached
        /\ \E at : finished' = AudioPart!Finished(at) /\ playing' = AudioPart!Playing(at)
        /\ \/ /\ content' = AudioPart!Fill(1 - filled, next, left)
              /\ AudioPart!Advance(next, left) /\ filled' = 1 - filled
           \/ UNCHANGED <<content, next, left, filled>>
    BY <1>2, QuietTickIs DEF AudioPart!Detached
  <1>4. pos' = pos /\ heard' = <<>>
    BY <1>2, <1>3, AudioFacts, NextPlaces, PlaysNothing
  <1>5. finished' \in Nat /\ playing' \in {0, 1}
    BY <1>3, AudioFacts, AudioBounds DEF AudioPart!Finished, AudioPart!Playing
  <1>6. /\ content' \in [0 .. 2 * R - 1 -> Int] /\ next' \in Nat /\ left' \in 0 .. Word - 1
        /\ filled' \in {0, 1}
    <2>1. AudioType /\ 1 - filled \in {0, 1}
      BY AudioFacts DEF AudioInv
    <2>2. CASE UNCHANGED <<content, next, left, filled>>
      BY <2>1, <2>2 DEF AudioType
    <2>3. CASE /\ content' = AudioPart!Fill(1 - filled, next, left)
               /\ AudioPart!Advance(next, left) /\ filled' = 1 - filled
      BY <2>1, <2>3, ConvertTypes
    <2> QED  BY <1>3, <2>2, <2>3
  <1>7. AudioType' /\ HeardInv' /\ Len(heard') = 0
    <2>1. 0 \in 0 .. Lag /\ on' \in BOOLEAN
      BY <1>3, AudioBounds, AudioFacts DEF AudioPart!Tick
    <2> QED  BY <1>1, <1>4, <1>5, <1>6, <2>1 DEF AudioInv, AudioType, HeardInv
  <1>8. SongInv'
    <2>1. \A p \in Players : place[p] \notin {"set", "loaded", "started"}
      BY <1>1, <1>2 DEF OnePlayer
    <2>2. OnePlayer'
      BY <1>1, <1>2, <1>3, <2>1 DEF OnePlayer
    <2> QED  BY <1>1, <1>3, <2>1, <2>2 DEF SongInv
  <1>9. attached' # 0
    BY <1>1, <1>3, AudioFacts
  <1> QED  BY <1>7, <1>8, <1>9 DEF AudioRest

LEMMA TickKeeps ==
    ASSUME AudioInv, AudioPart!Tick
    PROVE  /\ AudioRest'
           /\ attached' = 0 => Len(heard') >= total
           /\ Len(heard') < total + 2 * (Lag + 1)
  <1>1. CASE on
    BY <1>1, LoudTickKeeps DEF AudioInv, AudioRest
  <1>2. CASE ~on
    <2>1. total \in Nat /\ Lag \in Nat
      BY AudioFacts, AudioBounds
    <2> QED  BY <1>2, <2>1, MuteTickKeeps
  <1> QED  BY <1>1, <1>2
-----------------------------------------------------------------------------
(* The players.                                                            *)

\* The player moves on and the others stay where they are.
LEMMA StepIs ==
    ASSUME AudioInv, NEW p \in Players, NEW to \in AudioPlaces,
           place' = [place EXCEPT ![p] = to]
    PROVE  /\ place' \in [Players -> AudioPlaces] /\ place'[p] = to
           /\ \A q \in Players : q # p => place'[q] = place[q]
  BY DEF AudioInv, AudioType

\* The description is set: the halves are at their start, nothing is heard.
LEMMA SetInfoKeeps ==
    ASSUME AudioInv, NEW p \in Players, AudioPart!SetInfo(p)
    PROVE  AudioRest'
  <1>1. /\ place[p] = "idle" /\ place' = [place EXCEPT ![p] = "set"]
        /\ astray' = ~AudioPart!Alone(p) /\ attached' = attached /\ on' = on /\ selected' = selected
        /\ next' = 0 /\ playing' = 0 /\ filled' = 0 /\ finished' = 0
        /\ content' = AudioPart!Quiet /\ pos' = 0 /\ late' = 0 /\ heard' = <<>>
    BY DEF AudioPart!SetInfo, AudioPart!Step
  <1>2. PICK n : /\ n \in (IF AudioPart!Alone(p) THEN Lengths ELSE {0})
                 /\ total' = n /\ left' = n * F
    BY DEF AudioPart!SetInfo
  <1>3. /\ n \in Nat /\ n \in Lengths \cup {0} /\ n * F \in 0 .. Word - 1
        /\ AudioPart!Alone(p) => n > 0
    <2>1. CASE n \in Lengths
      <3>1. n \in Nat \ {0} /\ n * F < Word /\ n * F \in Nat
        BY <2>1, AudioBounds
      <3> QED  BY <2>1, <3>1, AudioBounds
    <2>2. CASE n \notin Lengths
      <3>1. n = 0 /\ ~AudioPart!Alone(p)
        BY <1>2, <2>2
      <3>2. n * F = 0
        BY <3>1, AudioBounds
      <3> QED  BY <3>1, <3>2, AudioBounds
    <2> QED  BY <2>1, <2>2
  <1>4. /\ place' \in [Players -> AudioPlaces] /\ place'[p] = "set"
        /\ \A q \in Players : q # p => place'[q] = place[q]
    BY <1>1, StepIs DEF AudioPlaces
  <1>5. heard' \in Seq(Int) /\ Len(heard') = 0
    BY <1>1
  <1>6. AudioType'
    <2>1. content' \in [0 .. 2 * R - 1 -> Int]
      BY <1>1 DEF AudioPart!Quiet, AudioPart!Place, AudioPart!Silence
    <2>2. on' \in BOOLEAN /\ astray' \in BOOLEAN
      BY <1>1, AudioFacts
    <2> QED  BY <1>1, <1>2, <1>3, <1>4, <1>5, <2>1, <2>2, AudioBounds DEF AudioType
  <1>7. HeardInv'
    BY <1>5 DEF HeardInv
  <1>8. ASSUME ~astray' PROVE SongInv'
    <2>1. /\ attached = 0 /\ ~on
          /\ \A q \in Players \ {p} : place[q] \in {"idle", "killed"}
      <3>1. AudioPart!Alone(p)
        BY <1>1, <1>8
      <3> QED  BY <3>1 DEF AudioPart!Alone
    <2>2. OnePlayer'
      BY <1>1, <1>4, <2>1 DEF OnePlayer
    <2>3. Fresh(0)'
      <3>1. n > 0
        BY <1>1, <1>3, <1>8
      <3>2. next' < total' /\ left' = (total' - next') * F /\ total' > 0
        BY <1>1, <1>2, <1>3, <3>1
      <3> QED  BY <1>1, <3>2 DEF Fresh, ReadTo
    <2>4. ~(\E q \in Players : place'[q] = "loaded")
      BY <1>4, <2>1
    <2> QED  BY <1>1, <2>1, <2>2, <2>3, <2>4 DEF SongInv
  <1> QED  BY <1>6, <1>7, <1>8 DEF AudioRest

\* The first half holds the song's beginning.
LEMMA FirstFillKeeps ==
    ASSUME AudioInv, NEW p \in Players, AudioPart!FirstFill(p)
    PROVE  AudioRest'
  <1>1. /\ place[p] = "set" /\ place' = [place EXCEPT ![p] = "loaded"]
        /\ total' = total /\ playing' = playing /\ filled' = filled /\ finished' = finished
        /\ pos' = pos /\ late' = late /\ heard' = heard
        /\ attached' = attached /\ on' = on /\ astray' = astray /\ selected' = selected
    BY DEF AudioPart!FirstFill, AudioPart!Step, AudioPart!card, AudioPart!whose
  <1>2. /\ place' \in [Players -> AudioPlaces] /\ place'[p] = "loaded"
        /\ \A q \in Players : q # p => place'[q] = place[q]
    BY <1>1, StepIs DEF AudioPlaces
  <1>3. HeardInv'
    BY <1>1 DEF AudioInv, HeardInv
  <1>4. CASE astray
    <2>1. UNCHANGED <<content, next, left>>
      BY <1>4 DEF AudioPart!FirstFill
    <2>2. AudioType'
      BY <1>1, <1>2, <2>1 DEF AudioInv, AudioType
    <2> QED  BY <1>1, <1>3, <1>4, <2>2 DEF AudioRest
  <1>5. CASE ~astray
    <2>1. content' = AudioPart!Fill(0, next, left) /\ AudioPart!Advance(next, left)
      BY <1>5 DEF AudioPart!FirstFill
    <2>2. AudioType /\ OnePlayer /\ ~on /\ Fresh(0)
      BY <1>1, <1>5 DEF AudioInv, SongInv, OnePlayer
    <2>3. ReadTo(0)
      BY <2>2 DEF Fresh
    <2>4. content' \in [0 .. 2 * R - 1 -> Int] /\ Holds(0, 0)'
      BY <1>1, <2>1, <2>2, <2>3, Fills
    <2>5. next' \in Nat /\ left' \in 0 .. Word - 1 /\ ReadTo(R)'
      <3>1. next' \in Nat /\ left' \in 0 .. Word - 1 /\ ReadTo(0 + R)'
        BY <1>1, <2>1, <2>2, <2>3, Converts
      <3>2. 0 + R = R
        BY AudioBounds
      <3> QED  BY <3>1, <3>2
    <2>6. AudioType'
      BY <1>1, <1>2, <2>2, <2>4, <2>5 DEF AudioType
    <2>7. \A q \in Players : q # p => place[q] \in {"idle", "killed"}
      BY <1>1, <2>2 DEF OnePlayer
    <2>8. OnePlayer'
      BY <1>1, <1>2, <2>2, <2>7 DEF OnePlayer
    <2>9. Fresh(R)'
      BY <1>1, <2>2, <2>5 DEF Fresh
    <2>10. ~(\E q \in Players : place'[q] = "set") /\ ~on'
      BY <1>1, <1>2, <2>2, <2>7
    <2>11. SongInv'
      BY <2>4, <2>8, <2>9, <2>10 DEF SongInv
    <2> QED  BY <1>3, <2>6, <2>11 DEF AudioRest
  <1> QED  BY <1>4, <1>5

\* The card is started at the first half.
LEMMA StartCardKeeps ==
    ASSUME AudioInv, NEW p \in Players, AudioPart!StartCard(p)
    PROVE  AudioRest'
  <1>1. /\ place[p] = "loaded" /\ place' = [place EXCEPT ![p] = "started"]
        /\ on' = selected /\ pos' = 0 /\ late' = 0 /\ heard' = <<>>
        /\ total' = total /\ next' = next /\ left' = left /\ content' = content
        /\ playing' = playing /\ filled' = filled /\ finished' = finished
        /\ attached' = attached /\ astray' = astray /\ selected' = selected /\ selected \in BOOLEAN
    BY AudioFacts DEF AudioPart!StartCard, AudioPart!Step, AudioPart!song, AudioPart!whose
  <1>2. /\ place' \in [Players -> AudioPlaces] /\ place'[p] = "started"
        /\ \A q \in Players : q # p => place'[q] = place[q]
    BY <1>1, StepIs DEF AudioPlaces
  <1>3. heard' \in Seq(Int) /\ Len(heard') = 0
    BY <1>1
  <1>4. AudioType' /\ HeardInv'
    <2>1. 0 \in 0 .. 2 * R - 1 /\ 0 \in 0 .. Lag
      BY AudioBounds
    <2> QED  BY <1>1, <1>2, <1>3, <2>1 DEF AudioInv, AudioType, HeardInv
  <1>5. ASSUME ~astray' PROVE SongInv'
    <2>1. OnePlayer /\ attached = 0 /\ Fresh(R) /\ Holds(0, 0)
      BY <1>1, <1>5 DEF AudioInv, SongInv, OnePlayer
    <2>2. \A q \in Players : q # p => place[q] \in {"idle", "killed"}
      BY <1>1, <2>1 DEF OnePlayer
    <2>3. OnePlayer' /\ \A q \in Players : place'[q] \notin {"set", "loaded"}
      BY <1>1, <1>2, <2>1, <2>2 DEF OnePlayer
    <2>4. playing = 0 /\ filled = 0 /\ finished = 0 /\ ReadTo(R) /\ total > 0 /\ total \in Nat
      BY <2>1, AudioFacts DEF Fresh
    <2>5. FollowsAt(0, 0, 0, 0, 0, 0) /\ OverrunAt(total, 0, 0, 0, 0)
      BY <2>4, AudioBounds DEF FollowsAt, OverrunAt, InHalf, From
    <2>6. Plenty'
      BY <1>1, <2>1, <2>4 DEF Plenty, Holds, ReadTo, From
    <2>7. CardInv'
      BY <1>1, <1>3, <2>4, <2>5, <2>6 DEF CardInv
    <2> QED  BY <1>1, <2>3, <2>4, <2>7 DEF SongInv
  <1> QED  BY <1>4, <1>5 DEF AudioRest

\* A step that leaves the song and the card as they are.
LEMMA SameSong ==
    ASSUME AudioInv, NEW p \in Players, NEW to \in AudioPlaces,
           place' = [place EXCEPT ![p] = to], to \notin {"set", "loaded"},
           UNCHANGED <<AudioPart!song, AudioPart!card, on, astray>>,
           ~astray => OnePlayer'
    PROVE  AudioRest'
  <1>1. /\ total' = total /\ next' = next /\ left' = left /\ content' = content
        /\ playing' = playing /\ filled' = filled /\ finished' = finished
        /\ pos' = pos /\ late' = late /\ heard' = heard /\ on' = on /\ astray' = astray
    BY DEF AudioPart!song, AudioPart!card
  <1>2. /\ place' \in [Players -> AudioPlaces] /\ place'[p] = to
        /\ \A q \in Players : q # p => place'[q] = place[q]
    BY StepIs
  <1>3. AudioType' /\ HeardInv'
    BY <1>1, <1>2 DEF AudioInv, AudioType, HeardInv
  <1>4. ASSUME ~astray' PROVE SongInv'
    <2>1. SongInv /\ OnePlayer'
      BY <1>1, <1>4 DEF AudioInv
    <2>2. /\ (\E q \in Players : place'[q] = "set") => (\E q \in Players : place[q] = "set")
          /\ (\E q \in Players : place'[q] = "loaded") => (\E q \in Players : place[q] = "loaded")
      BY <1>2
    <2>3. /\ Fresh(0) => Fresh(0)'
          /\ Fresh(R) => Fresh(R)'
          /\ Holds(0, 0) => Holds(0, 0)'
          /\ Plenty => Plenty'
      BY <1>1 DEF Fresh, Holds, ReadTo, From, Plenty
    <2>4. CardInv => CardInv'
      BY <1>1, <2>3 DEF CardInv
    <2> QED  BY <1>1, <2>1, <2>2, <2>3, <2>4 DEF SongInv
  <1> QED  BY <1>3, <1>4 DEF AudioRest

LEMMA AttachKeeps ==
    ASSUME AudioInv, NEW p \in Players, AudioPart!Attach(p)
    PROVE  AudioRest'
  <1>1. /\ place[p] = "started" /\ place' = [place EXCEPT ![p] = "plays"]
        /\ UNCHANGED <<AudioPart!song, AudioPart!card, on, astray>>
        /\ selected' = selected
    BY DEF AudioPart!Attach, AudioPart!Step, AudioPart!whose
  <1>2. \A q \in Players : place'[q] = IF q = p THEN "plays" ELSE place[q]
    BY <1>1 DEF AudioInv, AudioType
  <1>3. ASSUME ~astray PROVE OnePlayer'
    <2>1. OnePlayer /\ on = selected
      BY <1>1, <1>3 DEF AudioInv, SongInv, OnePlayer
    <2>2. \A q \in Players : q # p => place[q] \in {"idle", "killed"}
      BY <1>1, <2>1 DEF OnePlayer
    <2> QED  BY <1>1, <1>2, <2>1, <2>2 DEF OnePlayer
  <1> QED  BY <1>1, <1>3, SameSong DEF AudioPlaces

LEMMA DetachKeeps ==
    ASSUME AudioInv, NEW p \in Players, AudioPart!Detach(p)
    PROVE  AudioRest'
  <1>1. /\ place[p] = "plays" /\ place' = [place EXCEPT ![p] = "detached"]
        /\ UNCHANGED <<AudioPart!song, AudioPart!card, on, astray>>
        /\ attached' = (IF selected THEN 0 ELSE attached) /\ selected' = selected
    BY DEF AudioPart!Detach, AudioPart!Step, AudioPart!Detached, AudioPart!whose
  <1>2. \A q \in Players : place'[q] = IF q = p THEN "detached" ELSE place[q]
    BY <1>1 DEF AudioInv, AudioType
  <1>3. ASSUME ~astray PROVE OnePlayer'
    <2>1. OnePlayer
      BY <1>3 DEF AudioInv, SongInv
    <2>2. \A q \in Players : q # p => place[q] \in {"idle", "killed"}
      BY <1>1, <2>1 DEF OnePlayer
    <2> QED  BY <1>1, <1>2, <2>1, <2>2 DEF OnePlayer
  <1> QED  BY <1>1, <1>3, SameSong DEF AudioPlaces

LEMMA KillKeeps ==
    ASSUME AudioInv, NEW p \in Players, AudioPart!Kill(p)
    PROVE  AudioRest'
  <1>1. /\ place' = [place EXCEPT ![p] = "killed"] /\ attached' = attached
        /\ UNCHANGED <<AudioPart!song, AudioPart!card, on, astray>> /\ selected' = selected
    BY DEF AudioPart!Kill, AudioPart!whose
  <1>2. \A q \in Players : place'[q] = IF q = p THEN "killed" ELSE place[q]
    BY <1>1 DEF AudioInv, AudioType
  <1>3. ASSUME ~astray PROVE OnePlayer'
    <2>1. OnePlayer
      BY <1>3 DEF AudioInv, SongInv
    <2> QED  BY <1>1, <1>2, <2>1 DEF OnePlayer
  <1> QED  BY <1>1, <1>3, SameSong DEF AudioPlaces

\* The card stops; if nobody else has a song, the count is right again.
LEMMA StopCardKeeps ==
    ASSUME AudioInv, NEW p \in Players, AudioPart!StopCard(p)
    PROVE  AudioRest'
  <1>1. /\ place[p] = "detached" /\ place' = [place EXCEPT ![p] = "idle"] /\ on' = FALSE
        /\ total' = total /\ next' = next /\ left' = left /\ content' = content
        /\ playing' = playing /\ filled' = filled /\ finished' = finished
        /\ pos' = pos /\ late' = late /\ heard' = heard /\ attached' = attached
        /\ astray' = (astray /\ \E q \in Players \ {p} : place[q] # "idle")
        /\ selected' = selected
    BY DEF AudioPart!StopCard, AudioPart!Step, AudioPart!song, AudioPart!card, AudioPart!whose
  <1>2. /\ place' \in [Players -> AudioPlaces] /\ place'[p] = "idle"
        /\ \A q \in Players : q # p => place'[q] = place[q]
    BY <1>1, StepIs DEF AudioPlaces
  <1>3. astray' \in BOOLEAN
    <2>1. CASE astray /\ \E q \in Players \ {p} : place[q] # "idle"
      BY <1>1, <2>1
    <2>2. CASE ~(astray /\ \E q \in Players \ {p} : place[q] # "idle")
      <3>1. astray' = FALSE
        BY <1>1, <2>2
      <3> QED  BY <3>1
    <2> QED  BY <2>1, <2>2
  <1>4. AudioType' /\ HeardInv'
    BY <1>1, <1>2, <1>3 DEF AudioInv, AudioType, HeardInv
  <1>5. ASSUME ~astray' PROVE SongInv'
    <2>1. /\ selected => attached = 0
          /\ \A q \in Players : q # p => place[q] \in {"idle", "killed"}
      <3>1. CASE ~astray
        BY <1>1, <3>1 DEF AudioInv, SongInv, OnePlayer
      <3>2. CASE astray
        <4>1. \A q \in Players : q # p => place[q] = "idle"
          <5>1. ~(\E q \in Players \ {p} : place[q] # "idle")
            BY <1>1, <1>5, <3>2
          <5> QED  BY <5>1
        <4>2. attached \in Nat /\ (selected => ~(attached > 0))
          BY <1>1, <4>1, AudioFacts DEF AudioInv, SourceInv
        <4> QED  BY <4>1, <4>2
      <3> QED  BY <3>1, <3>2
    <2>2. OnePlayer' /\ \A q \in Players : place'[q] \in {"idle", "killed"}
      BY <1>1, <1>2, <2>1 DEF OnePlayer
    <2> QED  BY <1>1, <2>2 DEF SongInv
  <1> QED  BY <1>4, <1>5 DEF AudioRest

\* When the count is astray, nothing is claimed of the song.
LEMMA AstrayKeeps ==
    ASSUME AudioInv, AudioPart!TornTick \/ AudioPart!AstrayTick
    PROVE  AudioRest'
  <1>1. /\ astray' = TRUE /\ on' \in BOOLEAN /\ place' = place
        /\ total' = total /\ next' = next /\ left' = left /\ content' = content
        /\ playing' = playing /\ filled' = filled /\ finished' = finished
        /\ pos' = pos /\ late' = late /\ heard' = heard
    <2>1. CASE AudioPart!TornTick
      BY <2>1, AudioFacts DEF AudioPart!TornTick, AudioPart!song, AudioPart!card
    <2>2. CASE AudioPart!AstrayTick
      <3>1. astray = TRUE
        BY <2>2 DEF AudioPart!AstrayTick, AudioInv, AudioType
      <3> QED  BY <2>2, <3>1 DEF AudioPart!AstrayTick, AudioPart!song, AudioPart!card
    <2> QED  BY <2>1, <2>2
  <1> QED  BY <1>1 DEF AudioInv, AudioRest, AudioType, HeardInv
-----------------------------------------------------------------------------
(* A song is heard in order, and stopped when it is over.                  *)

LEMMA AudioStarts == Init => AudioInv
  <1> SUFFICES ASSUME Init PROVE AudioInv
    OBVIOUS
  <1>1. /\ place = [p \in Players |-> "idle"] /\ total = 0 /\ next = 0 /\ left = 0
        /\ playing = 0 /\ filled = 0 /\ finished = 0 /\ content = AudioPart!Quiet
        /\ attached = 0 /\ on = FALSE /\ pos = 0 /\ late = 0 /\ heard = <<>> /\ astray = FALSE
    BY DEF Init, AudioPart!Init
  <1>2. content \in [0 .. 2 * R - 1 -> Int]
    BY <1>1 DEF AudioPart!Quiet, AudioPart!Place, AudioPart!Silence
  <1>3. heard \in Seq(Int) /\ Len(heard) = 0
    BY <1>1
  <1>4. AudioType
    <2>1. 0 \in 0 .. Word - 1 /\ 0 \in 0 .. 2 * R - 1 /\ 0 \in 0 .. Lag
      BY AudioBounds
    <2>2. place \in [Players -> AudioPlaces]
      BY <1>1 DEF AudioPlaces
    <2> QED  BY <1>1, <1>2, <1>3, <2>1, <2>2 DEF AudioType
  <1>5. HeardInv /\ SongInv /\ MuteInv
    BY <1>1, <1>3 DEF HeardInv, SongInv, OnePlayer, MuteInv
  <1>6. SourceInv
    BY SourceStarts
  <1> QED  BY <1>4, <1>5, <1>6 DEF AudioInv

LEMMA AudioKeeps == AudioInv /\ [Next]_vars => AudioInv'
  <1> SUFFICES ASSUME AudioInv, [Next]_vars PROVE AudioInv'
    OBVIOUS
  <1>1. SourceInv' /\ MuteInv'
    BY SourceKept, MuteKept DEF AudioInv
  <1>2. CASE AudioPart!Next
    <2>1. CASE AudioPart!Dac \/ AudioPart!Tick
      BY <1>1, <2>1, DacKeeps, TickKeeps DEF AudioRest, AudioInv
    <2>2. CASE AudioPart!TornTick \/ AudioPart!AstrayTick
      BY <1>1, <2>2, AstrayKeeps DEF AudioRest, AudioInv
    <2>3. ASSUME NEW p \in Players,
                 \/ AudioPart!SetInfo(p) \/ AudioPart!FirstFill(p) \/ AudioPart!StartCard(p)
                 \/ AudioPart!Attach(p) \/ AudioPart!Detach(p) \/ AudioPart!StopCard(p)
                 \/ AudioPart!Kill(p)
          PROVE  AudioRest'
      BY <2>3, SetInfoKeeps, FirstFillKeeps, StartCardKeeps, AttachKeeps, DetachKeeps,
         StopCardKeeps, KillKeeps
    <2> QED  BY <1>1, <1>2, <2>1, <2>2, <2>3 DEF AudioPart!Next, AudioRest, AudioInv
  <1>3. CASE UNCHANGED audio
    BY <1>1, <1>3 DEF audio, AudioInv, AudioType, HeardInv, SongInv, OnePlayer, Fresh,
                CardInv, Plenty, Holds, ReadTo, From
  <1> QED  BY <1>2, <1>3 DEF Next, NextAudio, NextPs2, NextKeyboard, NextProc, NextDesktop,
                             NextBuffs, vars

\* A song is heard in order, without gap or repetition, however the program is
\* preempted and wherever the card is between two readings of its registers.
THEOREM InOrderHolds == Spec => []InOrder
  <1>1. AudioInv => InOrder
    <2> SUFFICES ASSUME AudioInv,
                        NEW i \in 1 .. AudioPart!Min({Len(heard), total})
                 PROVE  heard[i] = i - 1
      BY DEF InOrder, AudioPart!InOrder
    <2>1. PICK l \in Nat, t \in Nat : l = Len(heard) /\ t = total
      BY AudioFacts
    <2>2. AudioPart!Min({l, t}) = IF l <= t THEN l ELSE t
      BY <2>1 DEF AudioPart!Min
    <2>3. i \in 1 .. l /\ i <= t
      BY <2>1, <2>2
    <2> QED  BY <2>1, <2>3 DEF AudioInv, HeardInv
  <1> QED  BY <1>1, AudioStarts, AudioKeeps, PTL DEF Spec

\* The timer stops a song when it has been heard whole, and not much later.
THEOREM StopsAtEndHolds == Spec => StopsAtEnd
  <1>1. AudioInv /\ [Next]_vars
          => [AudioPart!Tick => /\ attached' = 0 => Len(heard') >= total
                                /\ Len(heard') < total + 2 * (Lag + 1)]_AudioPart!vars
    BY TickKeeps
  <1> QED  BY <1>1, AudioStarts, AudioKeeps, PTL DEF Spec, StopsAtEnd, AudioPart!StopsAtEnd
-----------------------------------------------------------------------------
(* The types of the components' variables.                                 *)

\* The keyboard's and the file's are among their invariants.
LEMMA KeyboardTypes ==
    ASSUME KbdType
    PROVE  KeyboardPart!TypeOK
  <1>1. /\ getc \in KbdGetc /\ vp \in KbdVp
        /\ {shift, ctrl, release, special, mixed, news} \subseteq BOOLEAN
        /\ shown \in BOOLEAN /\ passed \in BOOLEAN
    BY DEF KbdType
  <1>2. /\ getc.pc \in {"out", "wait", "read", "done"} /\ getc.seen \in 0 .. BufLen - 1
        /\ getc.at \in 0 .. BufLen - 1 /\ getc.got \in KbdChars \cup {"nul", "left", "garbage"}
        /\ getc.since \subseteq KbdChars \cup {"left", "combination"}
    BY <1>1 DEF KbdGetc
  <1>3. vp.pc \in {"wait", "take", "clear"} /\ vp.c \in KbdChars \cup {"nul", "left"}
    BY <1>1 DEF KbdVp
  <1> QED  BY <1>1, <1>2, <1>3 DEF KbdType, KeyboardPart!TypeOK, KbdCodes, KbdChars,
               KeyboardPart!Codes, KeyboardPart!Chars, KeyboardPart!Nul, KeyboardPart!Left,
               KeyboardPart!Garbage

LEMMA AudioTypes ==
    ASSUME AudioType, SourceInv
    PROVE  AudioPart!TypeOK
  BY DEF AudioType, AudioPlaces, SourceInv, AudioPart!TypeOK, AudioPart!Half, AudioPart!Place

\* Those of the two devices are inductive as they stand.
LEMMA Ps2Cycles ==
    ASSUME Ps2Part!TypeOK, NEW b \in Ps2Part!Bytes
    PROVE  Ps2Part!Cycle(b) \in 0 .. 2
  <1>1. mouse_cycle = 0 \/ mouse_cycle = 1 \/ mouse_cycle = 2
    BY DEF Ps2Part!TypeOK
  <1> QED  BY <1>1 DEF Ps2Part!Cycle

LEMMA Ps2Sends ==
    ASSUME Ps2Part!TypeOK, Ps2Part!PressKey \/ Ps2Part!MoveMouse
    PROVE  Ps2Part!TypeOK'
  <1>1. /\ sent \in [keys : 0 .. MaxKeys, packets : 0 .. MaxPackets]
        /\ sent.keys \in 0 .. MaxKeys /\ sent.packets \in 0 .. MaxPackets
    BY DEF Ps2Part!TypeOK
  <1>2. CASE Ps2Part!PressKey
    <2>1. sent' \in [keys : 0 .. MaxKeys, packets : 0 .. MaxPackets]
      BY <1>1, <1>2, Ps2Assumption DEF Ps2Part!PressKey
    <2>2. Ps2Part!Key(sent.keys + 1) \in Ps2Part!KeyBytes
      BY <1>1, <1>2, Ps2Assumption DEF Ps2Part!PressKey, Ps2Part!KeyBytes
    <2>3. keys' \in Seq(Ps2Part!KeyBytes)
      BY <1>2, <2>2 DEF Ps2Part!PressKey, Ps2Part!TypeOK
    <2>4. UNCHANGED <<motion, out, full, irq1, irq12, served12, pc, status, mouse_cycle,
                      mouse_byte, moved, typed, crossed>>
      BY <1>2 DEF Ps2Part!PressKey, Ps2Part!register, Ps2Part!packet
    <2> QED  BY <2>1, <2>3, <2>4 DEF Ps2Part!TypeOK
  <1>3. CASE Ps2Part!MoveMouse
    <2>1. /\ sent' \in [keys : 0 .. MaxKeys, packets : 0 .. MaxPackets]
          /\ sent.packets + 1 \in 1 .. MaxPackets
      <3>1. /\ sent.packets < MaxPackets
            /\ sent' = [sent EXCEPT !.packets = sent.packets + 1]
        BY <1>1, <1>3 DEF Ps2Part!MoveMouse
      <3> QED  BY <1>1, <3>1, Ps2Assumption
    <2>2. PICK looks \in [{2, 3} -> BOOLEAN] :
            motion' = motion \o
              <<Ps2Part!Motion(sent.packets + 1, 1, TRUE, sent.packets + 1 \in Overflow),
                Ps2Part!Motion(sent.packets + 1, 2, looks[2], FALSE),
                Ps2Part!Motion(sent.packets + 1, 3, looks[3], FALSE)>>
      BY <1>3 DEF Ps2Part!MoveMouse
    <2>3. \A f, o \in BOOLEAN :
            /\ Ps2Part!Motion(sent.packets + 1, 1, f, o) \in Ps2Part!MouseBytes
            /\ Ps2Part!Motion(sent.packets + 1, 2, f, o) \in Ps2Part!MouseBytes
            /\ Ps2Part!Motion(sent.packets + 1, 3, f, o) \in Ps2Part!MouseBytes
      BY <2>1 DEF Ps2Part!MouseBytes
    <2>4. looks[2] \in BOOLEAN /\ looks[3] \in BOOLEAN
      OBVIOUS
    <2>5. \A a, b, c \in Ps2Part!MouseBytes, s \in Seq(Ps2Part!MouseBytes) :
            s \o <<a, b, c>> \in Seq(Ps2Part!MouseBytes)
      OBVIOUS
    <2>6. (sent.packets + 1 \in Overflow) \in BOOLEAN /\ TRUE \in BOOLEAN /\ FALSE \in BOOLEAN
      OBVIOUS
    <2>7. motion' \in Seq(Ps2Part!MouseBytes)
      <3>1. Ps2Part!Motion(sent.packets + 1, 1, TRUE, sent.packets + 1 \in Overflow)
              \in Ps2Part!MouseBytes
        BY <2>3, <2>6, Zenon
      <3>2. /\ Ps2Part!Motion(sent.packets + 1, 2, looks[2], FALSE) \in Ps2Part!MouseBytes
            /\ Ps2Part!Motion(sent.packets + 1, 3, looks[3], FALSE) \in Ps2Part!MouseBytes
        BY <2>3, <2>4, <2>6, Zenon
      <3> QED  BY <2>2, <2>5, <3>1, <3>2 DEF Ps2Part!TypeOK
    <2>8. UNCHANGED <<keys, out, full, irq1, irq12, served12, pc, status, mouse_cycle,
                      mouse_byte, moved, typed, crossed>>
      BY <1>3 DEF Ps2Part!MoveMouse, Ps2Part!register, Ps2Part!packet
    <2> QED  BY <2>1, <2>7, <2>8 DEF Ps2Part!TypeOK
  <1> QED  BY <1>2, <1>3

LEMMA Ps2Handles ==
    ASSUME Ps2Part!TypeOK, Ps2Part!Handlers
    PROVE  Ps2Part!TypeOK'
  <1>1. Ps2Part!Status \in {"nobody", "keyboard", "mouse"}
    <2>1. out \in Ps2Part!Bytes => out.from \in {"nobody", "keyboard", "mouse"}
      BY DEF Ps2Part!Bytes, Ps2Part!KeyBytes, Ps2Part!MouseBytes, Ps2Part!Empty, Ps2Part!Key,
         Ps2Part!Motion, Ps2Part!Byte
    <2> QED  BY <2>1 DEF Ps2Part!Status, Ps2Part!TypeOK
  <1>2. CASE Ps2Part!Load
    <2>1. /\ keys' \in Seq(Ps2Part!KeyBytes) /\ motion' \in Seq(Ps2Part!MouseBytes)
          /\ out' \in Ps2Part!Bytes /\ irq1' \in BOOLEAN /\ irq12' \in BOOLEAN
      <3>1. CASE keys # <<>> /\ out' = Head(keys) /\ keys' = Tail(keys) /\ irq1' = TRUE
                 /\ motion' = motion /\ irq12' = irq12
        <4>1. keys \in Seq(Ps2Part!KeyBytes)
          BY DEF Ps2Part!TypeOK
        <4>2. Head(keys) \in Ps2Part!KeyBytes /\ Tail(keys) \in Seq(Ps2Part!KeyBytes)
          BY <3>1, <4>1
        <4> QED  BY <3>1, <4>2 DEF Ps2Part!TypeOK, Ps2Part!Bytes
      <3>2. CASE motion # <<>> /\ out' = Head(motion) /\ motion' = Tail(motion) /\ irq12' = TRUE
                 /\ keys' = keys /\ irq1' = irq1
        <4>1. motion \in Seq(Ps2Part!MouseBytes)
          BY DEF Ps2Part!TypeOK
        <4>2. Head(motion) \in Ps2Part!MouseBytes /\ Tail(motion) \in Seq(Ps2Part!MouseBytes)
          BY <3>2, <4>1
        <4> QED  BY <3>2, <4>2 DEF Ps2Part!TypeOK, Ps2Part!Bytes
      <3> QED  BY <1>2, <3>1, <3>2 DEF Ps2Part!Load
    <2>2. full' \in BOOLEAN /\ crossed' \in BOOLEAN
      BY <1>2 DEF Ps2Part!Load
    <2>3. UNCHANGED <<sent, served12, pc, status, mouse_cycle, mouse_byte, moved, typed>>
      BY <1>2 DEF Ps2Part!Load, Ps2Part!packet
    <2> QED  BY <2>1, <2>2, <2>3 DEF Ps2Part!TypeOK
  <1>3. CASE Ps2Part!KbdInterrupt
    <2>1. typed' \in Seq(Ps2Part!Bytes)
      BY <1>3 DEF Ps2Part!KbdInterrupt, Ps2Part!HandedOn, Ps2Part!TypeOK
    <2>2. irq1' \in BOOLEAN /\ full' \in BOOLEAN /\ crossed' \in BOOLEAN
      BY <1>3 DEF Ps2Part!KbdInterrupt
    <2>3. UNCHANGED <<keys, motion, sent, out, irq12, served12, pc, status, mouse_cycle,
                      mouse_byte, moved>>
      BY <1>3 DEF Ps2Part!KbdInterrupt, Ps2Part!device, Ps2Part!packet
    <2> QED  BY <2>1, <2>2, <2>3 DEF Ps2Part!TypeOK
  <1>4. CASE Ps2Part!MouseInterrupt
    <2>1. /\ irq12' \in BOOLEAN /\ served12' \in BOOLEAN /\ pc' \in {"idle", "read", "status"}
          /\ status' \in {"nobody", "keyboard", "mouse"}
      BY <1>1, <1>4 DEF Ps2Part!MouseInterrupt, Ps2Part!TypeOK
    <2>2. UNCHANGED <<keys, motion, sent, out, full, irq1, mouse_cycle, mouse_byte, moved,
                      typed, crossed>>
      BY <1>4 DEF Ps2Part!MouseInterrupt, Ps2Part!device, Ps2Part!register, Ps2Part!packet
    <2> QED  BY <2>1, <2>2 DEF Ps2Part!TypeOK
  <1>5. CASE Ps2Part!MouseRead
    <2>1. UNCHANGED <<keys, motion, sent, out, irq1, irq12, served12, status, typed, crossed>>
      BY <1>5 DEF Ps2Part!MouseRead, Ps2Part!device
    <2>2. full' \in BOOLEAN /\ pc' \in {"idle", "read", "status"}
      BY <1>5 DEF Ps2Part!MouseRead
    <2>3. /\ mouse_cycle' \in 0 .. 2 /\ mouse_byte' \in [0 .. 2 -> Ps2Part!Bytes]
          /\ moved' \in Seq([0 .. 2 -> Ps2Part!Bytes])
      <3>1. CASE Ps2Part!Accept(out)
        <4>1. mouse_byte' \in [0 .. 2 -> Ps2Part!Bytes]
          BY <3>1 DEF Ps2Part!Accept, Ps2Part!TypeOK
        <4>2. mouse_cycle' \in 0 .. 2
          BY <3>1, Ps2Cycles DEF Ps2Part!Accept, Ps2Part!TypeOK
        <4>3. moved' = moved \/ moved' = Append(moved, mouse_byte')
          BY <3>1 DEF Ps2Part!Accept
        <4>4. \A S : \A s \in Seq(S), x \in S : Append(s, x) \in Seq(S)
          OBVIOUS
        <4>5. moved \in Seq([0 .. 2 -> Ps2Part!Bytes])
          BY DEF Ps2Part!TypeOK
        <4>6. Append(moved, mouse_byte') \in Seq([0 .. 2 -> Ps2Part!Bytes])
          BY <4>1, <4>4, <4>5, Zenon
        <4> QED  BY <4>1, <4>2, <4>3, <4>5, <4>6
      <3>2. CASE UNCHANGED Ps2Part!packet
        BY <3>2 DEF Ps2Part!packet, Ps2Part!TypeOK
      <3> QED  BY <1>5, <3>1, <3>2 DEF Ps2Part!MouseRead
    <2> QED  BY <2>1, <2>2, <2>3 DEF Ps2Part!TypeOK
  <1>6. CASE Ps2Part!MouseStatus
    <2>1. /\ served12' \in BOOLEAN /\ pc' \in {"idle", "read", "status"}
          /\ status' \in {"nobody", "keyboard", "mouse"}
      BY <1>1, <1>6 DEF Ps2Part!MouseStatus, Ps2Part!Continue, Ps2Part!Acknowledged,
         Ps2Part!TypeOK
    <2>2. UNCHANGED <<keys, motion, sent, out, full, irq1, irq12, mouse_cycle, mouse_byte, moved,
                      typed, crossed>>
      BY <1>6 DEF Ps2Part!MouseStatus, Ps2Part!device, Ps2Part!register, Ps2Part!packet
    <2> QED  BY <2>1, <2>2 DEF Ps2Part!TypeOK
  <1> QED  BY <1>2, <1>3, <1>4, <1>5, <1>6 DEF Ps2Part!Handlers

LEMMA Ps2Starts == Ps2Part!Init => Ps2Part!TypeOK
  <1> SUFFICES ASSUME Ps2Part!Init PROVE Ps2Part!TypeOK
    OBVIOUS
  <1>1. Ps2Part!Empty \in Ps2Part!Bytes
    BY DEF Ps2Part!Bytes
  <1>2. 0 \in 0 .. MaxKeys /\ 0 \in 0 .. MaxPackets
    BY Ps2Assumption
  <1> QED  BY <1>1, <1>2 DEF Ps2Part!Init, Ps2Part!TypeOK

LEMMA Ps2TypesHold == ASSUME Ps2Part!TypeOK, [Next]_vars PROVE Ps2Part!TypeOK'
  <1>1. CASE UNCHANGED ps2
    <2>1. UNCHANGED <<keys, motion, sent, out, full, irq1, irq12, served12, pc, status,
                      mouse_cycle, mouse_byte, moved, typed, crossed>>
      BY <1>1 DEF ps2
    <2> QED  BY <2>1 DEF Ps2Part!TypeOK
  <1> QED  BY <1>1, Ps2Sends, Ps2Handles DEF Ps2Part!Next, Next, NextAudio, NextPs2,
               NextKeyboard, NextProc, NextDesktop, NextBuffs, vars

\* What the process file's types need beside ProcInv: a request in the queue is
\* a program's, and a program that asks for a task has not listed all of them.
ProcRequests == ProcPart!Requests
QueueTypes ==
    \A e \in ProcEntries :
      queue[e].req \in ProcRequests /\ (~queue[e].open => queue[e].by \in 0 .. MaxPid)
ToolType(t) ==
    Len(t.list) <= MaxTask + 1 /\ (t.pc \in {"ask", "asked"} => Len(t.list) < t.n)
LastTypes ==
    last \in [kind : {"none", "answer", "command", "click"}, a : 0 .. MaxPid,
              b : 0 .. MaxPid \cup {-1}]
ProcTypes ==
    /\ QueueTypes /\ LastTypes /\ \A s \in ProcTasks : ToolType(tool[s])
    /\ sched \in [ProcTasks -> {"ALWAYS", "NEVER"}] /\ nextpid \in 0 .. MaxPid + 1

LEMMA RequestsAre ==
    /\ ProcPart!Count \in ProcRequests
    /\ \A i \in ProcTasks : ProcPart!Get(i) \in ProcRequests
    /\ \A r \in ProcRequests : r.task \in ProcTasks
  <1>1. /\ ProcRequests = {ProcPart!Count} \cup {ProcPart!Get(i) : i \in ProcTasks}
        /\ ProcPart!Count.task = 0 /\ \A i \in ProcTasks : ProcPart!Get(i).task = i
    BY DEF ProcRequests, ProcPart!Requests, ProcPart!Count, ProcPart!Get, ProcPart!Tasks,
       ProcTasks
  <1>2. 0 \in ProcTasks
    BY ProcAssumption DEF ProcTasks
  <1> QED  BY <1>1, <1>2

LEMMA WriteKeepsTypes ==
    ASSUME ProcInv, QueueTypes, NEW s \in ProcTasks, NEW req \in ProcRequests,
           ProcPart!Write(s, req)
    PROVE  QueueTypes'
  <1>1. CASE ProcPart!OpenEntries = {}
    BY <1>1 DEF ProcPart!Write, QueueTypes
  <1>2. CASE ProcPart!OpenEntries # {}
    <2> DEFINE new == [open |-> FALSE, requestor |-> s, by |-> pid[s], req |-> req]
    <2>1. PICK i \in ProcEntries : queue' = [queue EXCEPT ![i] = new]
      <3>1. ProcPart!Last(ProcPart!OpenEntries) \in ProcPart!OpenEntries
        BY <1>2, LastFound DEF ProcPart!OpenEntries, ProcEntries
      <3> QED  BY <1>2, <3>1 DEF ProcPart!Write, ProcPart!OpenEntries, ProcEntries
    <2>2. new.req \in ProcRequests /\ new.by \in 0 .. MaxPid
      BY DEF ProcInv, ProcShape
    <2> HIDE DEF new
    <2> QED  BY <2>1, <2>2 DEF QueueTypes, ProcInv, ProcShape
  <1> QED  BY <1>1, <1>2

LEMMA NoneIsLast == last' = ProcPart!None => LastTypes'
  BY ProcAssumption DEF LastTypes, ProcPart!None

LEMMA ReadKeepsTypes ==
    ASSUME ProcInv, QueueTypes, NEW s \in ProcTasks,
           IF ProcPart!Matching(s) = {} THEN queue' = queue /\ last' = ProcPart!None
                                        ELSE ProcPart!Read(s)
    PROVE  QueueTypes' /\ LastTypes'
  <1>1. CASE ProcPart!Matching(s) = {}
    BY <1>1, NoneIsLast DEF QueueTypes
  <1>2. CASE ProcPart!Matching(s) # {}
    <2>1. PICK i \in ProcEntries :
            /\ ~queue[i].open /\ queue' = [queue EXCEPT ![i] = ProcPart!Free]
            /\ last' = ProcPart!Answer(queue[i].by, pid[s])
      <3>1. ProcPart!Last(ProcPart!Matching(s)) \in ProcPart!Matching(s)
        BY <1>2, LastFound DEF ProcPart!Matching, ProcEntries
      <3> QED  BY <1>2, <3>1 DEF ProcPart!Read, ProcPart!Released, ProcPart!Matching, ProcEntries
    <2>2. ProcPart!Free.open /\ ProcPart!Free.req \in ProcRequests
      BY RequestsAre DEF ProcPart!Free
    <2>3. QueueTypes'
      BY <2>1, <2>2 DEF QueueTypes, ProcInv, ProcShape
    <2>4. queue[i].by \in 0 .. MaxPid /\ pid[s] \in 0 .. MaxPid
      BY <2>1 DEF QueueTypes, ProcInv, ProcShape
    <2> QED  BY <2>1, <2>3, <2>4 DEF LastTypes, ProcPart!Answer
  <1> QED  BY <1>1, <1>2

LEMMA ToolsKeep ==
    ASSUME ProcInv, \A u \in ProcTasks : ToolType(tool[u]), NEW s \in ProcTasks,
           NEW t, ToolType(t), tool' = [tool EXCEPT ![s] = t]
    PROVE  \A u \in ProcTasks : ToolType(tool'[u])
  BY DEF ProcInv, ProcShape

LEMMA ToolIs ==
    /\ ToolType(ProcPart!Idle) /\ ToolType([ProcPart!Idle EXCEPT !.pc = "done"])
    /\ \A n \in 0 .. MaxTask + 1, list \in Seq(0 .. MaxPid) :
         Len(list) <= MaxTask + 1 => ToolType(ProcPart!Listed(n, list))
  <1>1. Len(<<>>) = 0 /\ 0 <= MaxTask + 1
    BY ProcAssumption
  <1> QED  BY <1>1 DEF ToolType, ProcPart!Idle, ProcPart!Listed

LEMMA ProcStepKeepsTypes ==
    ASSUME ProcInv, ProcTypes, ProcPart!Next
    PROVE  ProcTypes'
  <1>1. PICK s \in ProcUsers :
          \/ ProcPart!Start(s) \/ ProcPart!End(s)
          \/ ProcPart!AskCount(s) \/ ProcPart!ReadCount(s)
          \/ ProcPart!AskTask(s) \/ ProcPart!ReadTask(s)
          \/ ProcPart!Command(s) \/ ProcPart!Click(s)
    BY DEF ProcPart!Next, ProcPart!Users, ProcUsers
  <1>2. /\ s \in ProcTasks /\ tool[s] \in ProcTool /\ ToolType(tool[s])
        /\ tool[s].n \in 0 .. MaxTask + 1 /\ tool[s].list \in Seq(0 .. MaxPid)
        /\ Len(tool[s].list) \in Nat
    <2>1. s \in ProcTasks
      BY ProcAssumption DEF ProcTasks, ProcUsers
    <2>2. tool[s] \in ProcTool
      BY <2>1 DEF ProcInv, ProcShape
    <2> QED  BY <2>1, <2>2 DEF ProcTypes, ProcTool
  <1>3. CASE ProcPart!Start(s)
    <2>1. /\ nextpid <= MaxPid /\ nextpid' = nextpid + 1 /\ queue' = queue
          /\ sched' = [sched EXCEPT ![s] = "ALWAYS"] /\ last' = ProcPart!None
          /\ tool' = [tool EXCEPT ![s] = ProcPart!Idle]
      BY <1>3 DEF ProcPart!Start
    <2>2. \A u \in ProcTasks : ToolType(tool'[u])
      BY <1>2, <2>1, ToolIs, ToolsKeep DEF ProcTypes
    <2>3. nextpid' \in 0 .. MaxPid + 1
      BY <2>1, ProcAssumption DEF ProcTypes
    <2> QED  BY <2>1, <2>2, <2>3, NoneIsLast DEF ProcTypes, QueueTypes
  <1>4. CASE ProcPart!End(s)
    BY <1>4, NoneIsLast DEF ProcPart!End, ProcTypes, QueueTypes
  <1>5. CASE ProcPart!AskCount(s)
    <2> DEFINE t == [tool[s] EXCEPT !.pc = "counted"]
    <2>1. /\ ProcPart!Write(s, ProcPart!Count) /\ tool' = [tool EXCEPT ![s] = t]
          /\ last' = ProcPart!None /\ sched' = sched /\ nextpid' = nextpid
      BY <1>5 DEF ProcPart!AskCount, ProcPart!Set, ProcPart!table
    <2>2. ToolType(t)
      BY <1>2 DEF ToolType, ProcTool
    <2> HIDE DEF t
    <2>3. \A u \in ProcTasks : ToolType(tool'[u])
      BY <1>2, <2>1, <2>2, ToolsKeep DEF ProcTypes
    <2>4. QueueTypes'
      BY <1>2, <2>1, RequestsAre, WriteKeepsTypes DEF ProcTypes
    <2> QED  BY <2>1, <2>3, <2>4, NoneIsLast DEF ProcTypes
  <1>6. CASE ProcPart!AskTask(s)
    <2> DEFINE t == [tool[s] EXCEPT !.pc = "asked"]
    <2>1. /\ ProcPart!Write(s, ProcPart!Get(Len(tool[s].list))) /\ tool' = [tool EXCEPT ![s] = t]
          /\ tool[s].pc = "ask"
          /\ last' = ProcPart!None /\ sched' = sched /\ nextpid' = nextpid
      BY <1>6 DEF ProcPart!AskTask, ProcPart!Set, ProcPart!Runs, ProcPart!table
    <2>2. Len(tool[s].list) < tool[s].n
      BY <1>2, <2>1 DEF ToolType
    <2>3. ToolType(t)
      BY <1>2, <2>2 DEF ToolType, ProcTool
    <2> HIDE DEF t
    <2>4. \A u \in ProcTasks : ToolType(tool'[u])
      BY <1>2, <2>1, <2>3, ToolsKeep DEF ProcTypes
    <2>5. Len(tool[s].list) \in ProcTasks
      BY <1>2, <2>2, ProcAssumption DEF ProcTasks
    <2>6. QueueTypes'
      BY <1>2, <2>1, <2>5, RequestsAre, WriteKeepsTypes DEF ProcTypes
    <2> QED  BY <2>1, <2>4, <2>6, NoneIsLast DEF ProcTypes
  <1>7. CASE ProcPart!ReadCount(s)
    <2>1. PICK n \in 0 .. MaxTask + 1 : tool' = [tool EXCEPT ![s] = ProcPart!Listed(n, <<>>)]
      BY <1>7 DEF ProcPart!ReadCount, ProcPart!Set
    <2>2. ToolType(ProcPart!Listed(n, <<>>))
      <3>1. <<>> \in Seq(0 .. MaxPid) /\ Len(<<>>) <= MaxTask + 1
        BY ProcAssumption
      <3> QED  BY <3>1, ToolIs
    <2>3. \A u \in ProcTasks : ToolType(tool'[u])
      BY <1>2, <2>1, <2>2, ToolsKeep DEF ProcTypes
    <2>4. sched' = sched /\ nextpid' = nextpid /\ QueueTypes' /\ LastTypes'
      BY <1>2, <1>7, ReadKeepsTypes DEF ProcPart!ReadCount, ProcPart!table, ProcTypes
    <2> QED  BY <2>3, <2>4 DEF ProcTypes
  <1>8. CASE ProcPart!ReadTask(s)
    <2>1. PICK p \in 0 .. MaxPid :
            tool' = [tool EXCEPT ![s] = ProcPart!Listed(tool[s].n, Append(tool[s].list, p))]
      BY <1>8 DEF ProcPart!ReadTask, ProcPart!Set, ProcPart!Pids
    <2>2. Len(tool[s].list) < tool[s].n
      BY <1>2, <1>8 DEF ProcPart!ReadTask, ProcPart!Runs, ToolType
    <2>3. ToolType(ProcPart!Listed(tool[s].n, Append(tool[s].list, p)))
      <3>1. /\ Append(tool[s].list, p) \in Seq(0 .. MaxPid)
            /\ Len(Append(tool[s].list, p)) = Len(tool[s].list) + 1
        BY <1>2
      <3>2. Len(tool[s].list) + 1 <= MaxTask + 1
        BY <1>2, <2>2, ProcAssumption
      <3> QED  BY <1>2, <3>1, <3>2, ToolIs
    <2>4. \A u \in ProcTasks : ToolType(tool'[u])
      BY <1>2, <2>1, <2>3, ToolsKeep DEF ProcTypes
    <2>5. sched' = sched /\ nextpid' = nextpid /\ QueueTypes' /\ LastTypes'
      BY <1>2, <1>8, ReadKeepsTypes DEF ProcPart!ReadTask, ProcPart!table, ProcTypes
    <2> QED  BY <2>4, <2>5 DEF ProcTypes
  <1>9. ASSUME ProcPart!Command(s) \/ ProcPart!Click(s)
        PROVE  /\ queue' = queue /\ nextpid' = nextpid
               /\ \A u \in ProcTasks : ToolType(tool'[u])
    <2>1. /\ queue' = queue /\ nextpid' = nextpid
          /\ tool' = [tool EXCEPT ![s] = [ProcPart!Idle EXCEPT !.pc = "done"]]
      BY <1>9 DEF ProcPart!Command, ProcPart!Click, ProcPart!Set
    <2> QED  BY <1>2, <2>1, ToolIs, ToolsKeep DEF ProcTypes
  <1>10. CASE ProcPart!Command(s)
    <2>1. PICK i \in 1 .. Len(tool[s].list), type \in {"ALWAYS", "NEVER"} :
            LET p == tool[s].list[i] IN
            /\ sched' = IF p \in ProcTasks THEN [sched EXCEPT ![p] = type] ELSE sched
            /\ last' = ProcPart!Scheduled("command", p, IF p \in ProcTasks THEN pid[p] ELSE -1)
      BY <1>10 DEF ProcPart!Command, ProcPart!Tasks, ProcTasks, ProcPart!Schedules,
         ProcPart!Nobody
    <2>2. tool[s].list[i] \in 0 .. MaxPid
      BY <1>2, ElementOfSeq
    <2>3. sched' \in [ProcTasks -> {"ALWAYS", "NEVER"}]
      BY <2>1 DEF ProcTypes
    <2>4. LastTypes'
      BY <2>1, <2>2 DEF LastTypes, ProcPart!Scheduled, ProcInv, ProcShape
    <2> QED  BY <1>9, <1>10, <2>3, <2>4 DEF ProcTypes, QueueTypes
  <1>11. CASE ProcPart!Click(s)
    <2>1. PICK i \in 1 .. Len(tool[s].list), type \in {"ALWAYS", "NEVER"} :
            /\ sched' = [sched EXCEPT ![i - 1] = type]
            /\ last' = ProcPart!Scheduled("click", tool[s].list[i], pid[i - 1])
      BY <1>11 DEF ProcPart!Click, ProcPart!Schedules
    <2>2. tool[s].list[i] \in 0 .. MaxPid /\ i - 1 \in ProcTasks
      <3>1. i <= MaxTask + 1
        BY <1>2, ProcAssumption DEF ToolType
      <3>2. i - 1 \in ProcTasks
        BY <3>1, ProcAssumption DEF ProcTasks
      <3>3. tool[s].list[i] \in 0 .. MaxPid
        BY <1>2, ElementOfSeq
      <3> QED  BY <3>2, <3>3
    <2>3. sched' \in [ProcTasks -> {"ALWAYS", "NEVER"}]
      BY <2>1 DEF ProcTypes
    <2>4. LastTypes'
      BY <2>1, <2>2 DEF LastTypes, ProcPart!Scheduled, ProcInv, ProcShape
    <2> QED  BY <1>9, <1>11, <2>3, <2>4 DEF ProcTypes, QueueTypes
  <1> QED  BY <1>1, <1>3, <1>4, <1>5, <1>6, <1>7, <1>8, <1>10, <1>11

LEMMA InitProcTypes == ProcPart!Init => ProcTypes
  <1> SUFFICES ASSUME ProcPart!Init PROVE ProcTypes
    OBVIOUS
  <1>1. ProcPart!Free.open /\ ProcPart!Free.req \in ProcRequests
    BY RequestsAre DEF ProcPart!Free
  <1>2. QueueTypes
    BY <1>1 DEF ProcPart!Init, QueueTypes, ProcEntries
  <1>3. LastTypes
    BY ProcAssumption DEF ProcPart!Init, LastTypes, ProcPart!None
  <1>4. \A s \in ProcTasks : ToolType(tool[s])
    BY ToolIs DEF ProcPart!Init, ProcTasks, ProcPart!Tasks
  <1>5. sched \in [ProcTasks -> {"ALWAYS", "NEVER"}] /\ nextpid \in 0 .. MaxPid + 1
    BY ProcAssumption DEF ProcPart!Init, ProcTasks, ProcPart!Tasks
  <1> QED  BY <1>2, <1>3, <1>4, <1>5 DEF ProcTypes

LEMMA ProcTypesHold == ASSUME ProcInv, ProcTypes, [Next]_vars PROVE ProcTypes'
  <1>1. CASE UNCHANGED proc
    BY <1>1 DEF proc, ProcTypes, QueueTypes, LastTypes
  <1> QED  BY <1>1, ProcStepKeepsTypes DEF Next, NextAudio, NextPs2, NextKeyboard, NextProc,
               NextDesktop, NextBuffs, vars

LEMMA ProcIsTyped ==
    ASSUME ProcShape, ProcTypes
    PROVE  ProcPart!TypeOK
  <1>1. queue \in [1 .. QueueLen ->
          [open : BOOLEAN, requestor : ProcTasks \cup {-1}, by : 0 .. MaxPid \cup {-1},
           req : ProcRequests]]
    <2>1. ASSUME NEW e \in ProcEntries
          PROVE  queue[e] \in
                   [open : BOOLEAN, requestor : ProcTasks \cup {-1}, by : 0 .. MaxPid \cup {-1},
                    req : ProcRequests]
      <3>1. queue[e] \in ProcEntry /\ queue[e].req \in ProcRequests
        BY DEF ProcShape, ProcTypes, QueueTypes
      <3> HIDE DEF ProcRequests
      <3> QED  BY <3>1 DEF ProcEntry
    <2> QED  BY <2>1 DEF ProcShape, ProcEntries
  <1>2. ASSUME NEW s \in ProcTasks
        PROVE  /\ tool[s].pc \in {"count", "counted", "ask", "asked", "act", "done"}
               /\ tool[s].n \in 0 .. MaxTask + 1 /\ tool[s].list \in Seq(0 .. MaxPid)
               /\ Len(tool[s].list) <= MaxTask + 1
    <2>1. tool[s] \in ProcTool /\ ToolType(tool[s])
      BY DEF ProcShape, ProcTypes
    <2> QED  BY <2>1 DEF ProcTool, ToolType
  <1> QED  BY <1>1, <1>2 DEF ProcShape, ProcTypes, LastTypes, ProcPart!TypeOK, ProcTasks,
               ProcRequests, ProcPart!Tasks, ProcPart!Pids, ProcPart!Schedules, ProcPart!Nobody

\* What the types need beside the components' invariants.
TypesInv ==
    /\ component \in {"audio", "ps2", "keyboard", "proc", "desktop", "buffs"}
    /\ Ps2Part!TypeOK /\ ProcTypes

LEMMA TypesStart == Init => TypesInv
  BY Ps2Starts, InitProcTypes DEF Init, TypesInv

LEMMA TypesKeep == ASSUME ProcInv, TypesInv, [Next]_vars PROVE TypesInv'
  <1>1. component' = component
    BY DEF Next, NextAudio, NextPs2, NextKeyboard, NextProc, NextDesktop, NextBuffs, vars
  <1>2. Ps2Part!TypeOK /\ ProcTypes
    BY DEF TypesInv
  <1>3. Ps2Part!TypeOK' /\ ProcTypes'
    BY <1>2, Ps2TypesHold, ProcTypesHold
  <1> QED  BY <1>1, <1>3 DEF TypesInv

\* The variables of every component but the desktop have their types, for any
\* number of players, keys, packets, tasks, entries and pages.
THEOREM TypesHold == Spec => [](component # "desktop" => TypeOK)
  <1>1. ASSUME AudioInv, KeyboardInv, ProcInv, BuffsInv, TypesInv, component # "desktop"
        PROVE  TypeOK
    <2>1. AudioPart!TypeOK
      BY <1>1, AudioTypes DEF AudioInv
    <2>2. KeyboardPart!TypeOK
      BY <1>1, KeyboardTypes DEF KeyboardInv
    <2>3. ProcPart!TypeOK
      BY <1>1, ProcIsTyped DEF ProcInv, TypesInv
    <2>4. BuffsPart!TypeOK
      BY <1>1, BuffsGives
    <2>5. Ps2Part!TypeOK
      BY <1>1 DEF TypesInv
    <2>6. \/ component = "audio" \/ component = "ps2" \/ component = "keyboard"
          \/ component = "proc" \/ component = "buffs"
      BY <1>1 DEF TypesInv
    <2> QED  BY <2>1, <2>2, <2>3, <2>4, <2>5, <2>6 DEF TypeOK
  <1>2. ProcInv /\ TypesInv /\ [Next]_vars => TypesInv'
    BY TypesKeep
  <1>3. AudioInv /\ KeyboardInv /\ ProcInv /\ BuffsInv /\ TypesInv
          => (component # "desktop" => TypeOK)
    BY <1>1
  <1> QED  BY <1>2, <1>3, TypesStart, AudioStarts, AudioKeeps, KeyboardInvariant,
               ProcInvariant, BuffsInvariant, PTL DEF Spec
=============================================================================
