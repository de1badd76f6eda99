------------------------------ MODULE Desktop -------------------------------
(***************************************************************************)
(* Viewports (drivers/desktop): the list of windows on the screen, which   *)
(* the desktop and all programs change by calling the same functions, each *)
(* in its own task.  A call is a sequence of steps, and the processor may  *)
(* go to another task between any two of them unless task_lock is set.  An *)
(* event is delivered by calling the handler of the owner in the owner's   *)
(* memory, under the owner's task index, with the lock set.                *)
(***************************************************************************)
EXTENDS Integers, Sequences, FiniteSets

CONSTANTS
    MaxProgs,   \* bound: programs that run at a time
    MaxStarts,  \* bound: programs that are started altogether
    MaxVp,      \* MAX_VIEWPORTS
    Beyond      \* bound: the marks after which a behaviour is followed further

\* What is assumed of the constants: see DesktopAssumption in module Devices.

Nobody == 0
D == 0                  \* the desktop's task: a thread, with no program slot
Progs == 1 .. MaxProgs  \* a program's task, and the slot of its memory
Tasks == {D} \cup Progs
Vps == 1 .. MaxVp
None == 0               \* NULL
Places == 0 .. MaxVp - 1
Events == {"focused", "unfocused", "exit"}
Marks == {"overlap", "kill", "early", "twice"}

VARIABLES
    live, phase, starts,  \* the programs and how far they are
    asleep, told,         \* schedule_type NEVER; the program has been told to exit
    mine,                 \* the viewport that viewport_open has returned
    vps,                  \* the structures: open, owner, and whose handler is set
    elements, count,      \* the list, front first; more may be in use than count
    lock,                 \* task_lock
    cur,                  \* the task that executes
    runid, mapped,        \* task_running_idx; the slot mapped at address 0
    todo,                 \* the steps that remain of each task's call
    marks                 \* history: what has happened that the code has no answer to

progs == <<live, phase, starts, asleep, told, mine>>
list == <<vps, elements, count>>
cpu == <<lock, cur, runid, mapped>>
vars == <<progs, list, cpu, todo, marks>>

Op(op, x, ev) == [op |-> op, x |-> x, ev |-> ev]
Find == Op("find", 0, "exit")
Link(e) == Op("link", e, "exit")
Make(v) == Op("make", v, "exit")
Front(e) == Op("front", e, "exit")
Return(v) == Op("return", v, "exit")
Drop(v) == Op("drop", v, "exit")
Shift(e) == Op("shift", e, "exit")
Tell(e, ev) == Op("tell", e, ev)    \* to the viewport in that place
Send(v, ev) == Op("send", v, ev)
Handle(v, ev) == Op("handle", v, ev)
Restore == Op("restore", 0, "exit")
Unlock == Op("unlock", 0, "exit")

TypeOK ==
    /\ live \in [Progs -> BOOLEAN] /\ phase \in [Progs -> {"new", "opened", "running", "closed"}]
    /\ starts \in 0 .. MaxStarts /\ asleep \in [Progs -> BOOLEAN] /\ told \in [Progs -> BOOLEAN]
    /\ mine \in [Progs -> Vps \cup {None}]
    /\ vps \in [Vps -> [open : BOOLEAN, owner : Tasks, handler : Progs \cup {Nobody}]]
    /\ elements \in [Places -> [inUse : BOOLEAN, vp : Vps \cup {None}]]
    /\ "overlap" \notin marks => count \in 0 .. MaxVp
    /\ lock \in BOOLEAN /\ cur \in Tasks /\ runid \in Tasks /\ mapped \in Progs
    /\ marks \subseteq Marks

Init ==
    /\ live = [p \in Progs |-> FALSE] /\ phase = [p \in Progs |-> "new"] /\ starts = 0
    /\ asleep = [p \in Progs |-> FALSE] /\ told = [p \in Progs |-> FALSE]
    /\ mine = [p \in Progs |-> None]
    /\ vps = [v \in Vps |-> [open |-> FALSE, owner |-> D, handler |-> Nobody]]
    /\ elements = [e \in Places |-> [inUse |-> FALSE, vp |-> None]] /\ count = 0
    /\ lock = FALSE /\ cur = D /\ runid = D /\ mapped = 1
    /\ todo = [t \in Tasks |-> <<>>] /\ marks = {}
-----------------------------------------------------------------------------
(* Calls and steps.                                                        *)

Busy(t) == todo[t] # <<>>
Mark(m, if) == IF if THEN {m} ELSE {}
Overlaps == Mark("overlap", \E t \in Tasks \ {cur} : Busy(t))
Call(ops) == ~Busy(cur) /\ todo' = [todo EXCEPT ![cur] = ops]
At(op) == Busy(cur) /\ Head(todo[cur]).op = op
X == Head(todo[cur]).x
Ev == Head(todo[cur]).ev
Then(ops) == todo' = [todo EXCEPT ![cur] = ops \o Tail(@)]

FirstOf(S) == CHOOSE i \in S : \A j \in S : i <= j

\* viewport_open: a place, a structure, make_viewport, to the front.
FindPlace ==
    /\ At("find")
    /\ LET free == {e \in Places : ~elements[e].inUse} IN
       \/ free = {} /\ Then(<<Return(None)>>) /\ UNCHANGED count
       \/ free # {} /\ Then(<<Link(FirstOf(free))>>) /\ count' = count + 1
    /\ UNCHANGED <<progs, vps, elements, cpu, marks>>

FreeVps == {v \in Vps : ~vps[v].open}
LinkPlace ==
    /\ At("link") /\ FreeVps # {}
    /\ elements' = [elements EXCEPT ![X] = [inUse |-> TRUE, vp |-> FirstOf(FreeVps)]]
    /\ Then(<<Make(FirstOf(FreeVps)), Front(X), Return(FirstOf(FreeVps))>>)
    /\ UNCHANGED <<progs, vps, count, cpu, marks>>

\* The lock it sets is cleared again on the way out.
MakeViewport ==
    /\ At("make")
    /\ vps' = [vps EXCEPT ![X] = [open |-> TRUE, owner |-> runid, handler |-> Nobody]]
    /\ lock' = FALSE /\ Then(<<>>)
    /\ UNCHANGED <<progs, elements, count, cur, runid, mapped, marks>>

ReturnViewport ==
    /\ At("return")
    /\ mine' = [mine EXCEPT ![cur] = X] /\ Then(<<>>)
    /\ UNCHANGED <<live, phase, starts, asleep, told, list, cpu, marks>>

\* viewport_move_element_to_front.
FocusOpsM(e) == IF e = 0 THEN <<>> ELSE <<Tell(1, "focused"), Tell(0, "unfocused")>>  \* mutant: swapped
FocusOps(e) == IF e = 0 THEN <<>> ELSE <<Tell(0, "focused"), Tell(1, "unfocused")>>
MoveToFront ==
    /\ At("front")
    /\ elements' = [e \in Places |->
         IF e = 0 THEN elements[X] ELSE IF e <= X THEN elements[e - 1] ELSE elements[e]]
    /\ Then(FocusOps(X))
    /\ UNCHANGED <<progs, vps, count, cpu, marks>>

\* viewport_close: only the places below count are looked at.
Listed(v) == {e \in Places : e < count /\ elements[e].vp = v}
DropPlace ==
    /\ At("drop")
    /\ vps' = [vps EXCEPT ![X].open = FALSE, ![X].handler = Nobody]
    /\ \/ Listed(X) = {} /\ Then(<<>>) /\ UNCHANGED <<elements, count>>
       \/ /\ Listed(X) # {}
          /\ elements' = [elements EXCEPT ![FirstOf(Listed(X))] = [inUse |-> FALSE, vp |-> None]]
          /\ count' = count - 1
          /\ Then(<<Shift(FirstOf(Listed(X))), Tell(0, "focused")>>)
    /\ UNCHANGED <<progs, cpu, marks>>

\* The last of the places that are moved up stays in use as well.
Shifted(from) == [e \in Places |-> IF e \in from .. count - 1 THEN elements[e + 1] ELSE elements[e]]
ShiftPlaces ==
    /\ At("shift")
    /\ elements' = Shifted(X) /\ Then(<<>>)
    /\ UNCHANGED <<progs, vps, count, cpu, marks>>
-----------------------------------------------------------------------------
(* viewport_send_event.                                                    *)

TellPlace ==
    /\ At("tell")
    /\ Then(IF elements[X].vp = None THEN <<>> ELSE <<Send(elements[X].vp, Ev)>>)
    /\ UNCHANGED <<progs, list, cpu, marks>>

HomeM(v) == mapped  \* mutant: select_program is not called
Home(v) == vps[v].owner
Deliver ==
    /\ At("send")
    /\ \/ vps[X].handler = Nobody /\ Then(<<>>) /\ UNCHANGED cpu
       \/ /\ vps[X].handler # Nobody /\ Then(<<Handle(X, Ev), Restore>>)
          /\ lock' = TRUE /\ runid' = vps[X].owner /\ mapped' = Home(X)
          /\ UNCHANGED cur
    /\ UNCHANGED <<progs, list, marks>>

\* The handlers of the programs: set_schedule for the task that seems to run,
\* and the flag in the memory that is mapped.  What a handler does in another
\* program's memory is not followed.
HandleEvent ==
    /\ At("handle") /\ vps[X].handler = mapped
    /\ asleep' = IF Ev = "exit" THEN asleep ELSE [asleep EXCEPT ![runid] = Ev = "unfocused"]
    /\ told' = IF Ev = "exit" THEN [told EXCEPT ![mapped] = TRUE] ELSE told
    /\ Then(<<>>)
    /\ UNCHANGED <<live, phase, starts, mine, list, cpu, marks>>

\* The desktop has no slot to go back to.
Back == IF cur = D THEN mapped ELSE cur
RestoreTask ==
    /\ At("restore")
    /\ runid' = cur /\ mapped' = Back /\ lock' = FALSE /\ Then(<<>>)
    /\ UNCHANGED <<progs, list, cur, marks>>
-----------------------------------------------------------------------------
(* The desktop's pass over a click.                                        *)

\* A click on a window brings it to the front; one on its X also tells the
\* owner to exit and closes the viewport.
ExitOpsM(v) == <<Drop(v), Send(v, "exit")>>  \* mutant: closed first
ExitOps(v) == <<Send(v, "exit"), Drop(v)>>
Click ==
    /\ cur = D
    /\ \E e \in Places, x \in BOOLEAN :
         /\ e < count /\ elements[e].inUse /\ elements[e].vp # None
         /\ LET v == elements[e].vp IN
            /\ Call(<<Front(e)>> \o (IF x THEN ExitOps(v) ELSE <<>>) \o <<Unlock>>)
            /\ marks' = marks \cup Overlaps \cup Mark("early", x /\ vps[v].handler = Nobody)
    /\ lock' = TRUE
    /\ UNCHANGED <<progs, list, cur, runid, mapped>>

EndPass ==
    /\ At("unlock") /\ lock' = FALSE /\ Then(<<>>)
    /\ UNCHANGED <<progs, list, cur, runid, mapped, marks>>
-----------------------------------------------------------------------------
(* The programs.                                                           *)

Start(p) ==
    /\ ~live[p] /\ starts < MaxStarts /\ cur = D
    /\ live' = [live EXCEPT ![p] = TRUE] /\ starts' = starts + 1
    /\ phase' = [phase EXCEPT ![p] = "new"] /\ mine' = [mine EXCEPT ![p] = None]
    /\ asleep' = [asleep EXCEPT ![p] = FALSE] /\ told' = [told EXCEPT ![p] = FALSE]
    /\ todo' = [todo EXCEPT ![p] = <<>>]
    /\ UNCHANGED <<list, cpu, marks>>

In(p, ph) == cur = p /\ live[p] /\ phase[p] = ph
Phase(p, ph) == phase' = [phase EXCEPT ![p] = ph]
Open(p) ==
    /\ In(p, "new") /\ Call(<<Find>>) /\ Phase(p, "opened")
    /\ marks' = marks \cup Overlaps
    /\ UNCHANGED <<live, starts, asleep, told, mine, list, cpu>>

AddHandler(p) ==
    /\ In(p, "opened") /\ ~Busy(p) /\ mine[p] # None
    /\ vps' = [vps EXCEPT ![mine[p]].handler = p] /\ Phase(p, "running")
    /\ UNCHANGED <<live, starts, asleep, told, mine, elements, count, cpu, todo, marks>>

\* Told to, or of its own accord.  It has not noticed that the desktop has
\* closed its viewport already, and that it may be another program's now.
Close(p) ==
    /\ In(p, "running") /\ Call(<<Drop(mine[p])>>) /\ Phase(p, "closed")
    /\ marks' = marks \cup Overlaps
         \cup Mark("twice", vps[mine[p]].open /\ vps[mine[p]].owner # p)
    /\ UNCHANGED <<live, starts, asleep, told, mine, list, cpu>>

\* After the last call, or when there was no place for a viewport.
End(p) ==
    /\ cur = p /\ live[p] /\ ~Busy(p)
    /\ phase[p] = "closed" \/ (phase[p] = "opened" /\ mine[p] = None)
    /\ live' = [live EXCEPT ![p] = FALSE] /\ cur' = D /\ runid' = D
    /\ UNCHANGED <<phase, starts, asleep, told, mine, list, lock, mapped, todo, marks>>

\* stop_task, from another task or a key: the viewport stays.
Kill(p) ==
    /\ live[p] /\ cur # p /\ "kill" \notin marks
    /\ live' = [live EXCEPT ![p] = FALSE] /\ marks' = marks \cup {"kill"}
    /\ todo' = [todo EXCEPT ![p] = <<>>]
    /\ UNCHANGED <<phase, starts, asleep, told, mine, list, cpu>>

\* The timer's interrupt: the lock keeps the task.
Switch(t) ==
    /\ ~lock /\ t # cur
    /\ t = D \/ (t \in Progs /\ live[t] /\ ~asleep[t])
    /\ cur' = t /\ runid' = t /\ mapped' = IF t = D THEN mapped ELSE t
    /\ UNCHANGED <<progs, list, lock, todo, marks>>

Step ==
    \/ FindPlace \/ LinkPlace \/ MakeViewport \/ ReturnViewport \/ MoveToFront
    \/ DropPlace \/ ShiftPlaces \/ TellPlace \/ Deliver \/ HandleEvent \/ RestoreTask
    \/ EndPass
Next ==
    /\ marks \subseteq Beyond
    /\ \/ Step \/ Click
       \/ \E p \in Progs : Start(p) \/ Open(p) \/ AddHandler(p) \/ Close(p) \/ End(p) \/ Kill(p)
       \/ \E t \in Tasks : Switch(t)
Spec == Init /\ [][Next]_vars
-----------------------------------------------------------------------------
(* Properties.                                                             *)

Quiet == \A t \in Tasks : ~Busy(t)

\* Whenever the processor may go to another task, the index and the memory
\* are those of the task that executes, however the lock was set and cleared.
Restored == ~lock => runid = cur /\ (cur \in Progs => mapped = cur)

\* A handler runs in the memory and under the index of the program it belongs
\* to, which is alive, and cannot be interrupted, unless calls have overlapped,
\* a program was killed, a viewport was closed before it had its handler, or
\* one was closed by a program whose viewport it no longer was.
HandlersAtHome ==
    At("handle") /\ marks = {} =>
      /\ lock /\ live[runid] /\ runid = mapped /\ vps[X].handler = mapped

\* So index and memory are borrowed for a handler, and given back after it.
BorrowsAndReturns == Restored /\ HandlersAtHome

\* Between calls, unless some have overlapped or been cut short, the first
\* count places are the viewports that are open, each of them once.
ListAgrees ==
    Quiet /\ marks \cap {"overlap", "kill"} = {} =>
      /\ {elements[e].vp : e \in 0 .. count - 1} = {v \in Vps : vps[v].open}
      /\ count = Cardinality({v \in Vps : vps[v].open})
      /\ \A e \in 0 .. count - 1 : elements[e].inUse

\* The program whose viewport is in front is not asleep: it gets the keys, and
\* it can leave when it is told to.
FrontIsAwake ==
    Quiet /\ marks \cap {"overlap", "kill"} = {} /\ count > 0 =>
      ~asleep[vps[elements[0].vp].owner]

\* So list, structures and focus agree between calls.
ListAndFocus == ListAgrees /\ FrontIsAwake

\* A program loses its viewport only when it has been told to exit, unless one
\* that had lost its own has closed it (or ...).
NoSilentLoss ==
    marks = {} => \A p \in Progs :
      live[p] /\ phase[p] = "running" =>
        told[p] \/ (vps[mine[p]].open /\ vps[mine[p]].owner = p /\ vps[mine[p]].handler = p)
=============================================================================
