--------------------------- MODULE Desktop_proofs ---------------------------
(***************************************************************************)
(* Theorems about the viewports, as Devices runs them.  A task's call is a *)
(* sequence of steps; the invariant says of each step that remains where   *)
(* in the sequence it may stand, what it names, and what will hold when it *)
(* is reached.                                                             *)
(***************************************************************************)
EXTENDS Devices, Sequences, FiniteSets, FiniteSetTheorems, WellFoundedInduction, TLAPS

DProgs == 1 .. MaxProgs
DTasks == {0} \cup DProgs
DVps == 1 .. MaxVp
DPlaces == 0 .. MaxVp - 1

AnySeq(s) == \E S : s \in Seq(S)
Working(t) == Len(todo[t]) > 0
First(t, op) == Working(t) /\ todo[t][1].op = op

\* Index and memory are another program's only while a handler runs and until
\* they are given back, with the lock set.
Borrowed == runid # cur \/ (cur \in DProgs /\ mapped # cur)
HomeInv ==
    Borrowed =>
      /\ lock
      /\ \/ First(cur, "restore")
         \/ First(cur, "handle") /\ Len(todo[cur]) > 1 /\ todo[cur][2].op = "restore"
CallInv ==
    /\ DOMAIN todo = DTasks /\ cur \in DTasks
    /\ \A t \in DTasks : AnySeq(todo[t]) /\ Len(todo[t]) \in Nat
    /\ HomeInv

\* What the steps are called.
LEMMA Fields ==
    ASSUME NEW x, NEW ev
    PROVE  /\ DesktopPart!Find.op = "find"
           /\ DesktopPart!Link(x).op = "link" /\ DesktopPart!Link(x).x = x
           /\ DesktopPart!Make(x).op = "make" /\ DesktopPart!Make(x).x = x
           /\ DesktopPart!Front(x).op = "front" /\ DesktopPart!Front(x).x = x
           /\ DesktopPart!Return(x).op = "return" /\ DesktopPart!Return(x).x = x
           /\ DesktopPart!Drop(x).op = "drop" /\ DesktopPart!Drop(x).x = x
           /\ DesktopPart!Shift(x).op = "shift" /\ DesktopPart!Shift(x).x = x
           /\ DesktopPart!Tell(x, ev).op = "tell" /\ DesktopPart!Tell(x, ev).x = x
           /\ DesktopPart!Send(x, ev).op = "send" /\ DesktopPart!Send(x, ev).x = x
           /\ DesktopPart!Send(x, ev).ev = ev
           /\ DesktopPart!Handle(x, ev).op = "handle" /\ DesktopPart!Handle(x, ev).x = x
           /\ DesktopPart!Handle(x, ev).ev = ev
           /\ DesktopPart!Restore.op = "restore" /\ DesktopPart!Unlock.op = "unlock"
  BY DEF DesktopPart!Op, DesktopPart!Find, DesktopPart!Link, DesktopPart!Make, DesktopPart!Front,
     DesktopPart!Return, DesktopPart!Drop, DesktopPart!Shift, DesktopPart!Tell, DesktopPart!Send,
     DesktopPart!Handle, DesktopPart!Restore, DesktopPart!Unlock

LEMMA Literals ==
    ASSUME NEW a, NEW b, NEW c
    PROVE  /\ AnySeq(<<>>) /\ Len(<<>>) = 0
           /\ AnySeq(<<a>>) /\ Len(<<a>>) = 1 /\ <<a>>[1] = a
           /\ AnySeq(<<a, b>>) /\ Len(<<a, b>>) = 2 /\ <<a, b>>[1] = a /\ <<a, b>>[2] = b
           /\ AnySeq(<<a, b, c>>) /\ Len(<<a, b, c>>) = 3
           /\ <<a, b, c>>[1] = a /\ <<a, b, c>>[2] = b /\ <<a, b, c>>[3] = c
  <1>1. <<>> \in Seq({a}) /\ <<a>> \in Seq({a}) /\ <<a, b>> \in Seq({a, b})
        /\ <<a, b, c>> \in Seq({a, b, c})
    OBVIOUS
  <1> QED  BY <1>1 DEF AnySeq

LEMMA Joined ==
    ASSUME NEW s, NEW u, AnySeq(s), AnySeq(u)
    PROVE  /\ AnySeq(s \o u) /\ Len(s) \in Nat /\ Len(u) \in Nat
           /\ Len(s \o u) = Len(s) + Len(u)
           /\ \A i \in 1 .. Len(s) : (s \o u)[i] = s[i]
           /\ \A i \in 1 .. Len(s) + Len(u) : i > Len(s) => (s \o u)[i] = u[i - Len(s)]
  <1>1. PICK S, T : s \in Seq(S) /\ u \in Seq(T)
    BY DEF AnySeq
  <1>2. s \in Seq(S \cup T) /\ u \in Seq(S \cup T)
    BY <1>1
  <1> QED  BY <1>2 DEF AnySeq

LEMMA Cut ==
    ASSUME NEW s, AnySeq(s), s # <<>>
    PROVE  /\ AnySeq(Tail(s)) /\ Len(s) \in Nat \ {0} /\ Len(Tail(s)) = Len(s) - 1
           /\ Head(s) = s[1] /\ \A i \in 1 .. Len(s) - 1 : Tail(s)[i] = s[i + 1]
  BY DEF AnySeq

LEMMA Blankness ==
    ASSUME NEW s, AnySeq(s)
    PROVE  Len(s) \in Nat /\ (s # <<>> <=> Len(s) > 0)
  BY DEF AnySeq

\* The step of the task that executes, and what it puts in its place.
LEMMA StepOf ==
    ASSUME CallInv, NEW op, DesktopPart!At(op)
    PROVE  First(cur, op) /\ DesktopPart!X = todo[cur][1].x /\ DesktopPart!Ev = todo[cur][1].ev
  BY Cut DEF CallInv, DesktopPart!At, DesktopPart!Busy, DesktopPart!X, DesktopPart!Ev, First,
     Working

LEMMA ThenIs ==
    ASSUME CallInv, Working(cur), NEW ops, AnySeq(ops), DesktopPart!Then(ops)
    PROVE  /\ DOMAIN todo' = DTasks
           /\ \A t \in DTasks : AnySeq(todo'[t]) /\ Len(todo'[t]) \in Nat
           /\ \A t \in DTasks \ {cur} : todo'[t] = todo[t]
           /\ Len(ops) \in Nat /\ Len(todo[cur]) \in Nat
           /\ Len(todo'[cur]) = Len(ops) + Len(todo[cur]) - 1
           /\ \A i \in 1 .. Len(ops) : todo'[cur][i] = ops[i]
           /\ \A i \in 1 .. Len(todo'[cur]) : i > Len(ops) =>
                /\ i - Len(ops) + 1 \in 2 .. Len(todo[cur])
                /\ todo'[cur][i] = todo[cur][i - Len(ops) + 1]
  <1> DEFINE s == todo[cur]
             z == ops \o Tail(s)
  <1>1. AnySeq(s) /\ s # <<>>
    BY Blankness DEF CallInv, Working
  <1>2. todo' = [todo EXCEPT ![cur] = z]
    BY DEF DesktopPart!Then
  <1>3. /\ AnySeq(z) /\ Len(ops) \in Nat /\ Len(s) \in Nat \ {0}
        /\ Len(z) = Len(ops) + (Len(s) - 1)
        /\ \A i \in 1 .. Len(ops) : z[i] = ops[i]
        /\ \A i \in 1 .. Len(ops) + (Len(s) - 1) : i > Len(ops) => z[i] = Tail(s)[i - Len(ops)]
        /\ \A i \in 1 .. Len(s) - 1 : Tail(s)[i] = s[i + 1]
    <2>1. /\ AnySeq(Tail(s)) /\ Len(s) \in Nat \ {0} /\ Len(Tail(s)) = Len(s) - 1
          /\ \A i \in 1 .. Len(s) - 1 : Tail(s)[i] = s[i + 1]
      BY <1>1, Cut
    <2> HIDE DEF s
    <2> QED  BY <2>1, Joined
  <1>4. todo'[cur] = z /\ DOMAIN todo' = DTasks /\ \A t \in DTasks \ {cur} : todo'[t] = todo[t]
    BY <1>2 DEF CallInv
  <1>5. ASSUME NEW i \in 1 .. Len(z), i > Len(ops)
        PROVE  i - Len(ops) + 1 \in 2 .. Len(s) /\ z[i] = s[i - Len(ops) + 1]
    <2>1. i - Len(ops) \in 1 .. Len(s) - 1
      BY <1>3, <1>5
    <2> HIDE DEF s, z
    <2> QED  BY <1>3, <1>5, <2>1
  <1>6. \A t \in DTasks : AnySeq(todo'[t]) /\ Len(todo'[t]) \in Nat
    BY <1>3, <1>4, Blankness DEF CallInv
  <1> HIDE DEF z
  <1> QED  BY <1>3, <1>4, <1>5, <1>6

LEMMA CallIs ==
    ASSUME CallInv, NEW ops, AnySeq(ops), DesktopPart!Call(ops)
    PROVE  /\ DOMAIN todo' = DTasks
           /\ \A t \in DTasks : AnySeq(todo'[t]) /\ Len(todo'[t]) \in Nat
           /\ \A t \in DTasks \ {cur} : todo'[t] = todo[t]
           /\ ~Working(cur) /\ todo'[cur] = ops
  BY Blankness DEF CallInv, DesktopPart!Call, DesktopPart!Busy, Working
-----------------------------------------------------------------------------
(* Index and memory are borrowed for a handler only.                       *)

LEMMA Step1 ==
    ASSUME CallInv, NEW op, DesktopPart!At(op), op \notin {"handle", "restore"}
    PROVE  ~Borrowed
  BY StepOf DEF CallInv, HomeInv, First

\* A step that goes on in the same task, and in its own memory.
LEMMA OwnStep ==
    ASSUME CallInv, ~Borrowed, Working(cur), NEW ops, AnySeq(ops), DesktopPart!Then(ops),
           UNCHANGED <<cur, runid, mapped>>
    PROVE  CallInv'
  <1>1. DOMAIN todo' = DTasks /\ \A t \in DTasks : AnySeq(todo'[t]) /\ Len(todo'[t]) \in Nat
    BY SMTT(60), ThenIs
  <1>2. ~Borrowed'
    BY DEF Borrowed
  <1> QED  BY <1>1, <1>2 DEF CallInv, HomeInv

LEMMA FirstStep ==
    ASSUME CallInv, NEW op, DesktopPart!At(op)
    PROVE  Working(cur) /\ todo[cur][1].op = op
  BY StepOf DEF First

LEMMA StepKeepsCalls ==
    ASSUME CallInv, DesktopPart!Step
    PROVE  CallInv'
  <1> USE DEF DesktopPart!cpu
  <1>1. CASE DesktopPart!FindPlace
    <2>1. ~Borrowed /\ Working(cur)
      BY <1>1, Step1, FirstStep DEF DesktopPart!FindPlace
    <2>2. PICK op : DesktopPart!Then(<<op>>)
      BY <1>1 DEF DesktopPart!FindPlace
    <2> QED  BY <1>1, <2>1, <2>2, OwnStep, Literals DEF DesktopPart!FindPlace
  <1>2. CASE DesktopPart!LinkPlace
    <2>1. ~Borrowed /\ Working(cur)
      BY <1>2, Step1, FirstStep DEF DesktopPart!LinkPlace
    <2>2. PICK a, b, c : DesktopPart!Then(<<a, b, c>>)
      BY <1>2 DEF DesktopPart!LinkPlace
    <2> QED  BY <1>2, <2>1, <2>2, OwnStep, Literals DEF DesktopPart!LinkPlace
  <1>3. CASE DesktopPart!MakeViewport
    <2>1. ~Borrowed /\ Working(cur)
      BY <1>3, Step1, FirstStep DEF DesktopPart!MakeViewport
    <2> QED  BY <1>3, <2>1, OwnStep, Literals DEF DesktopPart!MakeViewport
  <1>4. CASE DesktopPart!ReturnViewport
    <2>1. ~Borrowed /\ Working(cur)
      BY <1>4, Step1, FirstStep DEF DesktopPart!ReturnViewport
    <2> QED  BY <1>4, <2>1, OwnStep, Literals DEF DesktopPart!ReturnViewport
  <1>5. CASE DesktopPart!MoveToFront
    <2>1. ~Borrowed /\ Working(cur)
      BY <1>5, Step1, FirstStep DEF DesktopPart!MoveToFront
    <2>2. AnySeq(DesktopPart!FocusOps(DesktopPart!X))
      BY Literals DEF DesktopPart!FocusOps
    <2> QED  BY <1>5, <2>1, <2>2, OwnStep DEF DesktopPart!MoveToFront
  <1>6. CASE DesktopPart!DropPlace
    <2>1. ~Borrowed /\ Working(cur)
      BY <1>6, Step1, FirstStep DEF DesktopPart!DropPlace
    <2>2. PICK ops : AnySeq(ops) /\ DesktopPart!Then(ops)
      BY <1>6, Literals DEF DesktopPart!DropPlace
    <2> QED  BY <1>6, <2>1, <2>2, OwnStep DEF DesktopPart!DropPlace
  <1>7. CASE DesktopPart!ShiftPlaces
    <2>1. ~Borrowed /\ Working(cur)
      BY <1>7, Step1, FirstStep DEF DesktopPart!ShiftPlaces
    <2> QED  BY <1>7, <2>1, OwnStep, Literals DEF DesktopPart!ShiftPlaces
  <1>8. CASE DesktopPart!TellPlace
    <2>1. ~Borrowed /\ Working(cur)
      BY <1>8, Step1, FirstStep DEF DesktopPart!TellPlace
    <2>2. PICK ops : AnySeq(ops) /\ DesktopPart!Then(ops)
      BY <1>8, Literals DEF DesktopPart!TellPlace
    <2> QED  BY <1>8, <2>1, <2>2, OwnStep DEF DesktopPart!TellPlace
  <1>9. CASE DesktopPart!Deliver
    <2>1. ~Borrowed /\ Working(cur)
      BY <1>9, Step1, FirstStep DEF DesktopPart!Deliver
    <2>2. CASE DesktopPart!Then(<<>>) /\ UNCHANGED DesktopPart!cpu
      BY <2>1, <2>2, OwnStep, Literals
    <2>3. ASSUME NEW v, NEW ev, lock' = TRUE, cur' = cur,
                 DesktopPart!Then(<<DesktopPart!Handle(v, ev), DesktopPart!Restore>>)
          PROVE  CallInv'
      <3> DEFINE ops == <<DesktopPart!Handle(v, ev), DesktopPart!Restore>>
      <3>1. /\ AnySeq(ops) /\ Len(ops) = 2
            /\ ops[1].op = "handle" /\ ops[2].op = "restore"
        <4>1. AnySeq(ops) /\ Len(ops) = 2 /\ ops[1] = DesktopPart!Handle(v, ev)
              /\ ops[2] = DesktopPart!Restore
          BY Literals
        <4> QED  BY <4>1, Fields
      <3> HIDE DEF ops
      <3>2. /\ DOMAIN todo' = DTasks
            /\ \A t \in DTasks : AnySeq(todo'[t]) /\ Len(todo'[t]) \in Nat
            /\ Len(todo[cur]) \in Nat
            /\ Len(todo'[cur]) = Len(ops) + Len(todo[cur]) - 1
            /\ \A i \in 1 .. Len(ops) : todo'[cur][i] = ops[i]
        BY ZenonT(60), <2>1, <2>3, <3>1, ThenIs DEF ops
      <3>3. Len(todo'[cur]) > 1 /\ todo'[cur][1].op = "handle" /\ todo'[cur][2].op = "restore"
        BY <2>1, <3>1, <3>2 DEF Working
      <3> QED  BY <2>3, <3>2, <3>3 DEF CallInv, HomeInv, First, Working
    <2> QED  BY <1>9, <2>2, <2>3 DEF DesktopPart!Deliver
  <1>10. CASE DesktopPart!HandleEvent
    <2>1. /\ First(cur, "handle") /\ DesktopPart!Then(<<>>)
          /\ UNCHANGED <<lock, cur, runid, mapped>>
      BY <1>10, StepOf DEF DesktopPart!HandleEvent
    <2>2. /\ DOMAIN todo' = DTasks
          /\ \A t \in DTasks : AnySeq(todo'[t]) /\ Len(todo'[t]) \in Nat
          /\ Len(todo[cur]) \in Nat
          /\ Len(todo'[cur]) = Len(todo[cur]) - 1
          /\ \A i \in 1 .. Len(todo'[cur]) : todo'[cur][i] = todo[cur][i + 1]
      <3>1. \A i \in Nat : i - 0 + 1 = i + 1
        OBVIOUS
      <3>2. \A i \in Nat : 0 + i - 1 = i - 1
        OBVIOUS
      <3>3. Working(cur) /\ AnySeq(<<>>) /\ Len(<<>>) = 0
        BY <2>1, Literals DEF First
      <3> QED  BY SMTT(60), <2>1, <3>1, <3>2, <3>3, ThenIs
    <2>3. Borrowed => lock' /\ First(cur, "restore")'
      <3> SUFFICES ASSUME Borrowed PROVE lock' /\ First(cur, "restore")'
        OBVIOUS
      <3>1. lock /\ Len(todo[cur]) > 1 /\ todo[cur][2].op = "restore"
        BY <2>1 DEF CallInv, HomeInv, First
      <3> QED  BY <2>1, <2>2, <3>1 DEF First, Working
    <2>4. Borrowed' <=> Borrowed
      BY <2>1 DEF Borrowed
    <2> QED  BY <2>1, <2>2, <2>3, <2>4 DEF CallInv, HomeInv
  <1>11. CASE DesktopPart!RestoreTask
    <2>1. /\ Working(cur) /\ DesktopPart!Then(<<>>)
          /\ cur' = cur /\ runid' = cur /\ (cur # 0 => mapped' = cur)
      BY <1>11, FirstStep DEF DesktopPart!RestoreTask, DesktopPart!Back, DesktopPart!D
    <2>2. DOMAIN todo' = DTasks /\ \A t \in DTasks : AnySeq(todo'[t]) /\ Len(todo'[t]) \in Nat
      BY <2>1, ThenIs, Literals
    <2>3. ~Borrowed'
      BY <2>1 DEF Borrowed, DProgs
    <2> QED  BY <2>1, <2>2, <2>3 DEF CallInv, HomeInv
  <1>12. CASE DesktopPart!EndPass
    <2>1. ~Borrowed /\ Working(cur)
      BY <1>12, Step1, FirstStep DEF DesktopPart!EndPass
    <2> QED  BY <1>12, <2>1, OwnStep, Literals DEF DesktopPart!EndPass
  <1> QED  BY <1>1, <1>2, <1>3, <1>4, <1>5, <1>6, <1>7, <1>8, <1>9, <1>10, <1>11, <1>12
           DEF DesktopPart!Step

LEMMA CallsKeep ==
    ASSUME CallInv, DesktopPart!Next
    PROVE  CallInv'
  <1>1. CASE DesktopPart!Step
    BY <1>1, StepKeepsCalls
  <1>2. ASSUME ~Working(cur) PROVE ~Borrowed
    BY <1>2 DEF CallInv, HomeInv, First
  <1>3. ASSUME NEW ops, AnySeq(ops), DesktopPart!Call(ops), UNCHANGED <<cur, runid, mapped>>
        PROVE  CallInv'
    <2>1. /\ DOMAIN todo' = DTasks
          /\ \A t \in DTasks : AnySeq(todo'[t]) /\ Len(todo'[t]) \in Nat
          /\ ~Working(cur)
      BY <1>3, CallIs
    <2>2. ~Borrowed'
      BY <1>2, <1>3, <2>1 DEF Borrowed
    <2> QED  BY <1>3, <2>1, <2>2 DEF CallInv, HomeInv
  <1>4. CASE DesktopPart!Click
    <2>1. PICK ops : AnySeq(ops) /\ DesktopPart!Call(ops)
      <3>1. PICK e, x, v : DesktopPart!Call(<<DesktopPart!Front(e)>>
                              \o (IF x THEN DesktopPart!ExitOps(v) ELSE <<>>)
                              \o <<DesktopPart!Unlock>>)
        BY <1>4 DEF DesktopPart!Click
      <3>2. AnySeq(IF x THEN DesktopPart!ExitOps(v) ELSE <<>>)
        BY Literals DEF DesktopPart!ExitOps
      <3>3. AnySeq(<<DesktopPart!Front(e)>> \o (IF x THEN DesktopPart!ExitOps(v) ELSE <<>>))
        BY <3>2, Literals, Joined
      <3> QED  BY <3>1, <3>3, Literals, Joined
    <2> QED  BY <1>4, <2>1, <1>3 DEF DesktopPart!Click
  <1>5. ASSUME NEW p \in DProgs, DesktopPart!Start(p) PROVE CallInv'
    <2>1. cur = 0 /\ p # 0 /\ todo' = [todo EXCEPT ![p] = <<>>]
          /\ UNCHANGED <<lock, cur, runid, mapped>>
      BY <1>5 DEF DesktopPart!Start, DesktopPart!D, DesktopPart!cpu, DProgs
    <2>2. todo'[cur] = todo[cur]
      BY <2>1
    <2>3. DOMAIN todo' = DTasks /\ \A t \in DTasks : todo'[t] = todo[t] \/ todo'[t] = <<>>
      BY <2>1 DEF CallInv
    <2>4. \A t \in DTasks : AnySeq(todo'[t]) /\ Len(todo'[t]) \in Nat
      <3>1. AnySeq(<<>>) /\ Len(<<>>) \in Nat
        BY Literals
      <3> QED  BY <2>3, <3>1 DEF CallInv
    <2>5. Borrowed' <=> Borrowed
      BY <2>1 DEF Borrowed
    <2> QED  BY <2>1, <2>2, <2>3, <2>4, <2>5 DEF CallInv, HomeInv, First, Working
  <1>6. ASSUME NEW p \in DProgs, DesktopPart!Open(p) PROVE CallInv'
    BY <1>3, <1>6, Literals DEF DesktopPart!Open, DesktopPart!cpu
  <1>7. ASSUME NEW p \in DProgs, DesktopPart!AddHandler(p) PROVE CallInv'
    BY <1>7 DEF DesktopPart!AddHandler, DesktopPart!cpu, CallInv, HomeInv, Borrowed, First, Working
  <1>8. ASSUME NEW p \in DProgs, DesktopPart!Close(p) PROVE CallInv'
    BY <1>3, <1>8, Literals DEF DesktopPart!Close, DesktopPart!cpu
  <1>9. ASSUME NEW p \in DProgs, DesktopPart!End(p) PROVE CallInv'
    <2>1. cur' = 0 /\ runid' = 0 /\ todo' = todo
      BY <1>9 DEF DesktopPart!End, DesktopPart!D
    <2>2. ~Borrowed'
      BY <2>1 DEF Borrowed, DProgs
    <2> QED  BY <2>1, <2>2 DEF CallInv, HomeInv, DTasks
  <1>10. ASSUME NEW p \in DProgs, DesktopPart!Kill(p) PROVE CallInv'
    <2>1. cur # p /\ todo' = [todo EXCEPT ![p] = <<>>] /\ UNCHANGED <<lock, cur, runid, mapped>>
      BY <1>10 DEF DesktopPart!Kill, DesktopPart!cpu
    <2>2. todo'[cur] = todo[cur]
      BY <2>1
    <2>3. DOMAIN todo' = DTasks /\ \A t \in DTasks : todo'[t] = todo[t] \/ todo'[t] = <<>>
      BY <2>1 DEF CallInv
    <2>4. \A t \in DTasks : AnySeq(todo'[t]) /\ Len(todo'[t]) \in Nat
      <3>1. AnySeq(<<>>) /\ Len(<<>>) \in Nat
        BY Literals
      <3> QED  BY <2>3, <3>1 DEF CallInv
    <2>5. Borrowed' <=> Borrowed
      BY <2>1 DEF Borrowed
    <2> QED  BY <2>1, <2>2, <2>3, <2>4, <2>5 DEF CallInv, HomeInv, First, Working
  <1>11. ASSUME NEW t \in DTasks, DesktopPart!Switch(t) PROVE CallInv'
    <2>1. cur' = t /\ runid' = t /\ (t # 0 => mapped' = t) /\ todo' = todo
      BY <1>11 DEF DesktopPart!Switch, DesktopPart!D
    <2>2. ~Borrowed'
      BY <2>1 DEF Borrowed, DProgs
    <2> QED  BY <2>1, <2>2 DEF CallInv, HomeInv
  <1> QED  BY <1>1, <1>4, <1>5, <1>6, <1>7, <1>8, <1>9, <1>10, <1>11
           DEF DesktopPart!Next, DesktopPart!Progs, DesktopPart!Tasks, DesktopPart!D, DProgs, DTasks

LEMMA NoCalls == DesktopPart!Init => CallInv
  <1> SUFFICES ASSUME DesktopPart!Init PROVE CallInv
    OBVIOUS
  <1>1. todo = [t \in DTasks |-> <<>>] /\ cur = 0 /\ runid = 0
    BY DEF DesktopPart!Init, DesktopPart!Tasks, DesktopPart!D, DesktopPart!Progs, DTasks, DProgs
  <1>2. ~Borrowed
    BY <1>1 DEF Borrowed, DProgs
  <1> QED  BY <1>1, <1>2, Literals DEF CallInv, HomeInv, DTasks

\* Whenever the processor may go to another task, the index and the memory are
\* those of the task that executes: for any number of programs and viewports,
\* with calls that overlap and programs that are killed in the middle of one.
THEOREM RestoredHolds == Spec => []DesktopPart!Restored
  <1>1. Init => CallInv
    BY NoCalls DEF Init
  <1>2. CallInv /\ [Next]_vars => CallInv'
    <2> SUFFICES ASSUME CallInv, [Next]_vars PROVE CallInv'
      OBVIOUS
    <2>1. CASE DesktopPart!Next
      BY <2>1, CallsKeep
    <2>2. CASE UNCHANGED desktop
      BY <2>2 DEF desktop, CallInv, HomeInv, Borrowed, First, Working
    <2> QED  BY <2>1, <2>2 DEF Next, NextAudio, NextPs2, NextKeyboard, NextProc, NextDesktop,
                               NextBuffs, vars
  <1>3. CallInv => DesktopPart!Restored
    BY DEF CallInv, HomeInv, Borrowed, DesktopPart!Restored, DesktopPart!Progs, DProgs
  <1> QED  BY <1>1, <1>2, <1>3, PTL DEF Spec
-----------------------------------------------------------------------------
(* A program that runs has a viewport and is in no call.                   *)

RunInv ==
    /\ DOMAIN phase = DProgs /\ DOMAIN mine = DProgs
    /\ \A p \in DProgs : phase[p] = "running" => mine[p] # 0 /\ ~Working(p)

LEMMA StepKeepsRuns ==
    ASSUME CallInv, RunInv, DesktopPart!Step
    PROVE  RunInv'
  <1>1. PICK ops : DesktopPart!Then(ops)
    BY DEF DesktopPart!Step, DesktopPart!FindPlace, DesktopPart!LinkPlace,
       DesktopPart!MakeViewport, DesktopPart!ReturnViewport, DesktopPart!MoveToFront,
       DesktopPart!DropPlace, DesktopPart!ShiftPlaces, DesktopPart!TellPlace,
       DesktopPart!Deliver, DesktopPart!HandleEvent, DesktopPart!RestoreTask,
       DesktopPart!EndPass
  <1>2. PICK op : DesktopPart!At(op)
    BY DEF DesktopPart!Step, DesktopPart!FindPlace, DesktopPart!LinkPlace,
       DesktopPart!MakeViewport, DesktopPart!ReturnViewport, DesktopPart!MoveToFront,
       DesktopPart!DropPlace, DesktopPart!ShiftPlaces, DesktopPart!TellPlace,
       DesktopPart!Deliver, DesktopPart!HandleEvent, DesktopPart!RestoreTask,
       DesktopPart!EndPass
  <1>3. phase' = phase /\ \E v : mine' = mine \/ mine' = [mine EXCEPT ![cur] = v]
    BY DEF DesktopPart!Step, DesktopPart!FindPlace, DesktopPart!LinkPlace,
       DesktopPart!MakeViewport, DesktopPart!ReturnViewport, DesktopPart!MoveToFront,
       DesktopPart!DropPlace, DesktopPart!ShiftPlaces, DesktopPart!TellPlace,
       DesktopPart!Deliver, DesktopPart!HandleEvent, DesktopPart!RestoreTask,
       DesktopPart!EndPass, DesktopPart!progs
  <1>4. Working(cur)
    BY <1>2, FirstStep
  <1>5. \A t \in DTasks \ {cur} : todo'[t] = todo[t]
    BY <1>1 DEF DesktopPart!Then, CallInv
  <1>6. \A p \in DProgs : p # cur => Working(p)' = Working(p) /\ mine'[p] = mine[p]
    BY <1>3, <1>5 DEF Working, DTasks, RunInv
  <1>7. \A p \in DProgs : p = cur => phase[p] # "running"
    BY <1>4 DEF RunInv
  <1>8. DOMAIN mine' = DProgs /\ DOMAIN phase' = DProgs
    BY <1>3 DEF RunInv
  <1> QED  BY <1>3, <1>6, <1>7, <1>8 DEF RunInv

LEMMA RunsKeep ==
    ASSUME CallInv, RunInv, DesktopPart!Next
    PROVE  RunInv'
  <1>1. CASE DesktopPart!Step
    BY <1>1, StepKeepsRuns
  <1>3. CASE DesktopPart!Click
    <2>1. PICK ops : DesktopPart!Call(ops)
      BY <1>3 DEF DesktopPart!Click
    <2>2. \A p \in DProgs : todo'[p] = todo[p]
      BY <1>3, <2>1 DEF DesktopPart!Click, DesktopPart!Call, DesktopPart!D, CallInv, DTasks, DProgs
    <2>3. UNCHANGED <<phase, mine>>
      BY <1>3 DEF DesktopPart!Click, DesktopPart!progs
    <2> QED  BY <2>2, <2>3 DEF RunInv, Working
  <1>4. ASSUME NEW p \in DProgs, NEW ops, NEW ph, DesktopPart!Call(ops), cur = p,
               phase' = [phase EXCEPT ![p] = ph], ph # "running", mine' = mine
        PROVE  RunInv'
    <2>1. \A t \in DTasks \ {p} : todo'[t] = todo[t]
      BY <1>4 DEF DesktopPart!Call, CallInv
    <2> QED  BY <1>4, <2>1 DEF RunInv, Working, DTasks
  <1>5. ASSUME NEW p \in DProgs, DesktopPart!Open(p) PROVE RunInv'
    BY <1>4, <1>5 DEF DesktopPart!Open, DesktopPart!Phase, DesktopPart!In
  <1>6. ASSUME NEW p \in DProgs, DesktopPart!Close(p) PROVE RunInv'
    BY <1>4, <1>6 DEF DesktopPart!Close, DesktopPart!Phase, DesktopPart!In
  <1>7. ASSUME NEW p \in DProgs, DesktopPart!AddHandler(p) PROVE RunInv'
    <2>1. ~Working(p) /\ mine[p] # 0
      BY <1>7, Blankness DEF DesktopPart!AddHandler, DesktopPart!Busy, DesktopPart!None, Working,
         CallInv, DTasks
    <2>2. todo' = todo /\ mine' = mine /\ phase' = [phase EXCEPT ![p] = "running"]
      BY <1>7 DEF DesktopPart!AddHandler, DesktopPart!Phase
    <2> QED  BY <2>1, <2>2 DEF RunInv, Working
  <1>8. ASSUME NEW p \in DProgs, todo' = [todo EXCEPT ![p] = <<>>],
               \/ UNCHANGED <<phase, mine>>
               \/ /\ phase' = [phase EXCEPT ![p] = "new"]
                  /\ \E v : mine' = [mine EXCEPT ![p] = v]
        PROVE  RunInv'
    <2>1. \A t \in DTasks : todo'[t] = IF t = p THEN <<>> ELSE todo[t]
      BY <1>8 DEF CallInv
    <2>2. \A t \in DTasks : Working(t)' => Working(t)
      BY <2>1, Literals DEF Working
    <2> QED  BY <1>8, <2>2 DEF RunInv, DTasks
  <1>9. ASSUME NEW p \in DProgs, DesktopPart!Start(p) PROVE RunInv'
    BY <1>8, <1>9 DEF DesktopPart!Start
  <1>10. ASSUME NEW p \in DProgs, DesktopPart!Kill(p) PROVE RunInv'
    BY <1>8, <1>10 DEF DesktopPart!Kill
  <1>11. ASSUME NEW p \in DProgs, DesktopPart!End(p) PROVE RunInv'
    BY <1>11 DEF DesktopPart!End, RunInv, Working
  <1>12. ASSUME NEW t \in DTasks, DesktopPart!Switch(t) PROVE RunInv'
    BY <1>12 DEF DesktopPart!Switch, DesktopPart!progs, RunInv, Working
  <1> QED  BY <1>1, <1>3, <1>5, <1>6, <1>7, <1>9, <1>10, <1>11, <1>12
           DEF DesktopPart!Next, DesktopPart!Progs, DesktopPart!Tasks, DesktopPart!D, DProgs, DTasks
-----------------------------------------------------------------------------
(* The list, as long as calls do not overlap and no program is killed.     *)

Calm == marks \cap {"overlap", "kill"} = {}

ViewTypes ==
    /\ live \in [DProgs -> BOOLEAN] /\ told \in [DProgs -> BOOLEAN]
    /\ phase \in [DProgs -> {"new", "opened", "running", "closed"}]
    /\ mine \in [DProgs -> DVps \cup {0}]
    /\ vps \in [DVps -> [open : BOOLEAN, owner : DTasks, handler : DProgs \cup {0}]]
    /\ elements \in [DPlaces -> [inUse : BOOLEAN, vp : DVps \cup {0}]]
    /\ count \in 0 .. MaxVp /\ runid \in DTasks

\* One call at a time, by a program that lives.
OneCall ==
    /\ \A t, u \in DTasks : Working(t) /\ Working(u) => t = u
    /\ \A p \in DProgs : Working(p) => live[p]

\* A step that waits behind k others of task t.
Waits(t, o, k) ==
    \/ o.op = "return" /\ t # 0 /\ k = 0 /\ o.x \in DVps \cup {0}
    \/ o.op = "tell" /\ o.x \in DPlaces
    \/ o.op = "send" /\ o.x \in DVps
    \/ o.op = "drop" /\ t = 0 /\ k = 1 /\ o.x \in DVps
    \/ o.op = "unlock" /\ t = 0 /\ k = 0
    \/ o.op = "restore"
\* A step that is only ever the next one; s are the steps of task t.
Leads(t, s, o) ==
    \/ o.op \in {"find", "link", "drop"} /\ t # 0 /\ Len(s) = 1
         /\ (o.op = "link" => o.x \in DPlaces) /\ (o.op = "drop" => o.x \in DVps)
    \/ o.op = "make" /\ t # 0 /\ Len(s) = 3 /\ o.x \in DVps
         /\ s[2].op = "front" /\ s[2].x \in DPlaces /\ elements[s[2].x].inUse
         /\ s[3].op = "return" /\ s[3].x = o.x
    \/ o.op = "front" /\ o.x \in DPlaces /\ elements[o.x].inUse
    \/ o.op = "shift" /\ o.x \in DPlaces
    \/ o.op = "handle" /\ o.x \in DVps /\ Len(s) > 1 /\ s[2].op = "restore"
    \/ Waits(t, o, Len(s) - 1)
Laid(t) ==
    Working(t) =>
      /\ Leads(t, todo[t], todo[t][1])
      /\ \A i \in 2 .. Len(todo[t]) :
           Waits(t, todo[t][i], Len(todo[t]) - i) \/ (i = 2 /\ First(t, "make"))

\* The first n places are in use, with the two exceptions a call makes for a
\* moment: a place is counted before it is taken, and one that was cleared is
\* filled from behind.
InUse(n) == \A e \in DPlaces : e < n => elements[e].inUse
Counted ==
    /\ (\A t \in DTasks : ~First(t, "link") /\ ~First(t, "shift")) => InUse(count)
    /\ \A t \in DTasks : First(t, "link") =>
         InUse(count - 1) /\ InUse(todo[t][1].x) /\ ~elements[todo[t][1].x].inUse
    /\ \A t \in DTasks : First(t, "shift") =>
         /\ count + 1 <= MaxVp /\ todo[t][1].x <= count
         /\ \A e \in DPlaces : e < count + 1 /\ e # todo[t][1].x => elements[e].inUse
CalmInv == ViewTypes /\ OneCall /\ (\A t \in DTasks : Laid(t)) /\ Counted
-----------------------------------------------------------------------------
(* Who has which viewport, as long as nothing has gone wrong at all.       *)

\* The owner of a handler lives, and is done with it when it closes.
Owned ==
    \A v \in DVps : LET h == vps[v].handler IN h # 0 =>
      /\ vps[v].open /\ vps[v].owner = h /\ mine[h] = v /\ live[h]
      /\ \/ phase[h] = "running"
         \/ phase[h] = "closed" /\ First(h, "drop") /\ todo[h][1].x = v
\* What a program knows of its viewport.
Known(p) ==
    /\ phase[p] = "new" => mine[p] = 0
    /\ phase[p] = "opened" /\ mine[p] # 0 =>
         vps[mine[p]].open /\ vps[mine[p]].owner = p /\ vps[mine[p]].handler = 0
    /\ phase[p] \in {"running", "closed"} => mine[p] # 0
    /\ phase[p] = "running" /\ live[p] => told[p] \/ vps[mine[p]].handler = p
\* What will hold when a step is reached.
Opening(t) ==
    /\ First(t, "find") \/ First(t, "link") \/ First(t, "make") => phase[t] = "opened"
    /\ First(t, "make") => ~vps[todo[t][1].x].open
    /\ \A i \in 1 .. Len(todo[t]) : todo[t][i].op = "return" =>
         /\ phase[t] = "opened"
         /\ todo[t][i].x # 0 /\ ~First(t, "make") =>
              /\ vps[todo[t][i].x].open /\ vps[todo[t][i].x].owner = t
              /\ vps[todo[t][i].x].handler = 0
Closing(t) ==
    First(t, "drop") /\ t # 0 =>
      /\ phase[t] = "closed" /\ mine[t] = todo[t][1].x
      /\ vps[mine[t]].open => vps[mine[t]].owner = t
\* Before the desktop drops a viewport its owner is told.
Exits(i, v) == todo[0][i].op \in {"send", "handle"} /\ todo[0][i].x = v /\ todo[0][i].ev = "exit"
Warned ==
    \A i \in 1 .. Len(todo[0]) : todo[0][i].op = "drop" =>
      LET v == todo[0][i].x IN
      /\ vps[v].handler # 0
      /\ told[vps[v].handler] \/ \E j \in 1 .. i - 1 : Exits(j, v)
Handling(t) ==
    First(t, "handle") =>
      /\ t = cur /\ lock /\ runid = mapped /\ vps[todo[t][1].x].handler = mapped
      /\ mapped \in DProgs /\ live[mapped]
CleanInv ==
    /\ Owned /\ Warned /\ (\A p \in DProgs : Known(p))
    /\ \A t \in DTasks : Opening(t) /\ Closing(t) /\ Handling(t)

ViewInv == CallInv /\ RunInv /\ (Calm => CalmInv) /\ (marks = {} => CleanInv)

\* What a step says of itself when it is reached.
LEMMA LeadsTo ==
    ASSUME NEW t, NEW s, NEW o, Leads(t, s, o)
    PROVE  /\ o.op = "find" => t # 0 /\ Len(s) = 1
           /\ o.op = "link" => t # 0 /\ Len(s) = 1 /\ o.x \in DPlaces
           /\ o.op = "make" =>
                /\ t # 0 /\ Len(s) = 3 /\ o.x \in DVps
                /\ s[2].op = "front" /\ s[2].x \in DPlaces /\ elements[s[2].x].inUse
                /\ s[3].op = "return" /\ s[3].x = o.x
           /\ o.op = "front" => o.x \in DPlaces /\ elements[o.x].inUse
           /\ o.op = "return" => t # 0 /\ Len(s) - 1 = 0 /\ o.x \in DVps \cup {0}
           /\ o.op = "drop" => /\ o.x \in DVps /\ (t # 0 => Len(s) = 1 \/ Len(s) - 1 = 1)
                               /\ (t = 0 => Len(s) - 1 = 1)
           /\ o.op = "shift" => o.x \in DPlaces
           /\ o.op = "tell" => o.x \in DPlaces
           /\ o.op = "send" => o.x \in DVps
           /\ o.op = "handle" => o.x \in DVps /\ Len(s) > 1 /\ s[2].op = "restore"
           /\ o.op = "unlock" => t = 0 /\ Len(s) - 1 = 0
  BY DEF Leads, Waits

LEMMA WaitsAsLead ==
    ASSUME NEW t, NEW s, NEW o, Waits(t, o, Len(s) - 1)
    PROVE  Leads(t, s, o) /\ o.op \notin {"find", "link", "make", "front", "shift", "handle"}
  BY DEF Leads, Waits

\* The steps behind the next one do not change when it makes way for others.
LEMMA Behind ==
    ASSUME CallInv, OneCall, NEW t \in DTasks, t = cur, Laid(t), Working(t), ~First(t, "make"),
           NEW ops, AnySeq(ops), DesktopPart!Then(ops)
    PROVE  /\ \A u \in DTasks \ {t} : ~Working(u)'
           /\ Len(ops) \in Nat /\ Len(todo[t]) \in Nat \ {0} /\ Len(todo'[t]) \in Nat
           /\ Len(todo'[t]) = Len(ops) + Len(todo[t]) - 1
           /\ \A i \in 1 .. Len(ops) : todo'[t][i] = ops[i]
           /\ \A i \in 1 .. Len(todo'[t]) : i > Len(ops) =>
                /\ i - Len(ops) + 1 \in 2 .. Len(todo[t])
                /\ todo'[t][i] = todo[t][i - Len(ops) + 1]
                /\ Waits(t, todo'[t][i], Len(todo'[t]) - i)
  <1> DEFINE m == Len(ops)
             n == Len(todo[t])
             k == Len(todo'[t])
  <1>1. /\ \A u \in DTasks \ {t} : todo'[u] = todo[u]
        /\ m \in Nat /\ n \in Nat /\ k \in Nat
        /\ k = m + n - 1
        /\ \A i \in 1 .. m : todo'[t][i] = ops[i]
        /\ \A i \in 1 .. k : i > m =>
             i - m + 1 \in 2 .. n /\ todo'[t][i] = todo[t][i - m + 1]
    BY SMTT(60), ThenIs
  <1>2. \A i \in 2 .. n : Waits(t, todo[t][i], n - i)
    BY DEF Laid
  <1>3. \A u \in DTasks \ {t} : ~Working(u)'
    BY <1>1 DEF OneCall, Working
  <1>4. n > 0
    BY DEF Working
  <1>5. \A i \in 1 .. k : i > m => n - (i - m + 1) = k - i
    BY <1>1
  <1>6. ASSUME NEW i \in 1 .. k, i > m PROVE Waits(t, todo'[t][i], k - i)
    <2>1. Waits(t, todo[t][i - m + 1], n - (i - m + 1))
      BY <1>1, <1>2, <1>6
    <2> QED  BY <1>1, <1>5, <1>6, <2>1
  <1> HIDE DEF m, n, k
  <1>7. n \in Nat \ {0}
    BY <1>1, <1>4
  <1> QED  BY <1>1, <1>3, <1>6, <1>7 DEF m, n, k

LEMMA StillLaid ==
    ASSUME CallInv', NEW t \in DTasks, NEW ops,
           \A u \in DTasks \ {t} : ~Working(u)',
           \A i \in 1 .. Len(ops) : todo'[t][i] = ops[i],
           \A i \in 1 .. Len(todo'[t]) : i > Len(ops) => Waits(t, todo'[t][i], Len(todo'[t]) - i),
           Len(ops) \in Nat, Len(todo'[t]) \in Nat,
           Len(ops) > 0 => Leads(t, todo[t], ops[1])',
           \A i \in 2 .. Len(ops) :
             Waits(t, ops[i], Len(todo'[t]) - i) \/ (i = 2 /\ ops[1].op = "make")
    PROVE  /\ \A u \in DTasks : Laid(u)'
           /\ Len(ops) = 0 => \A op \in {"find", "link", "make", "front", "shift", "handle"} :
                                ~First(t, op)'
  <1>1. ASSUME Len(ops) = 0, Working(t)'
        PROVE  /\ Leads(t, todo[t], todo[t][1])'
               /\ todo'[t][1].op \notin {"find", "link", "make", "front", "shift", "handle"}
    <2>1. Waits(t, todo'[t][1], Len(todo'[t]) - 1)
      BY <1>1 DEF Working
    <2>2. /\ todo'[t][1].op \notin {"find", "link", "make", "front", "shift", "handle"}
          /\ Waits(t, todo[t][1], Len(todo[t]) - 1)'
      BY <2>1, WaitsAsLead
    <2> QED  BY <2>2 DEF Leads
  <1>2. ASSUME Working(t)' PROVE Leads(t, todo[t], todo[t][1])'
    <2>1. CASE Len(ops) = 0
      BY <1>1, <1>2, <2>1
    <2>2. CASE Len(ops) > 0
      <3>1. todo'[t][1] = ops[1]
        BY <2>2
      <3> QED  BY <2>2, <3>1
    <2> QED  BY <2>1, <2>2
  <1>3. ASSUME Working(t)', NEW i \in 2 .. Len(todo'[t])
        PROVE  Waits(t, todo'[t][i], Len(todo'[t]) - i) \/ (i = 2 /\ First(t, "make")')
    <2>1. CASE i > Len(ops)
      BY <2>1
    <2>2. CASE i <= Len(ops)
      <3>1. todo'[t][i] = ops[i] /\ todo'[t][1] = ops[1] /\ i \in 2 .. Len(ops)
        BY <2>2
      <3> QED  BY <1>3, <3>1 DEF First
    <2> QED  BY <2>1, <2>2
  <1>4. Laid(t)'
    BY <1>2, <1>3 DEF Laid
  <1>5. ASSUME NEW u \in DTasks \ {t} PROVE Laid(u)'
    BY <1>5 DEF Laid
  <1> QED  BY <1>1, <1>4, <1>5 DEF First

\* A call of one task stays the only one.
LEMMA StillOne ==
    ASSUME OneCall, NEW t \in DTasks, Working(t), \A u \in DTasks \ {t} : ~Working(u)',
           live' = live
    PROVE  OneCall'
  <1>1. \A u \in DTasks : Working(u)' => u = t
    OBVIOUS
  <1>2. \A p \in DProgs : p = t => live[p]
    BY DEF OneCall
  <1> QED  BY <1>1, <1>2 DEF OneCall, DTasks

\* Counting the places.
LEMMA AllInUse ==
    ASSUME OneCall, Counted, NEW t \in DTasks, NEW op, First(t, op), op \notin {"link", "shift"}
    PROVE  InUse(count)
  BY DEF OneCall, Counted, First

LEMMA StillCounted ==
    ASSUME NEW t \in DTasks, \A u \in DTasks \ {t} : ~Working(u)', InUse(count)',
           ~First(t, "link")', ~First(t, "shift")'
    PROVE  Counted'
  BY DEF Counted, First

LEMMA FirstFound ==
    ASSUME NEW S \in SUBSET Nat, S # {}
    PROVE  /\ DesktopPart!FirstOf(S) \in S
           /\ \A i \in S : DesktopPart!FirstOf(S) <= i
  <1> DEFINE less == {ss \in Nat \X Nat : ss[1] < ss[2]}
  <1>1. IsWellFoundedOn(less, Nat)
    BY NatLessThanWellFounded DEF OpToRel
  <1>2. PICK n \in S : \A i \in S : ~(<<i, n>> \in less)
    <2> HIDE DEF less
    <2> QED  BY <1>1, WFMin
  <1>3. ASSUME NEW i \in S PROVE n <= i
    <2>1. ~(<<i, n>> \in less)
      BY <1>2
    <2>2. n \in Nat /\ i \in Nat
      OBVIOUS
    <2> QED  BY <2>1, <2>2
  <1> QED  BY <1>3 DEF DesktopPart!FirstOf

\* A step that is reached, and what it finds.
LEMMA Reached ==
    ASSUME CallInv, CalmInv, NEW op, DesktopPart!At(op)
    PROVE  \E t \in DTasks :
             /\ t = cur /\ Working(t) /\ First(t, op) /\ todo[t][1].op = op
             /\ DesktopPart!X = todo[t][1].x /\ DesktopPart!Ev = todo[t][1].ev
             /\ Leads(t, todo[t], todo[t][1]) /\ OneCall /\ Laid(t) /\ Len(todo[t]) \in Nat
             /\ op \notin {"link", "shift"} => InUse(count)
             /\ op # "make" => ~First(t, "make")
  <1>1. PICK t \in DTasks : t = cur
    BY DEF CallInv
  <1>2. /\ First(t, op) /\ DesktopPart!X = todo[t][1].x /\ DesktopPart!Ev = todo[t][1].ev
    BY <1>1, StepOf
  <1>3. op \notin {"link", "shift"} => InUse(count)
    BY <1>2, AllInUse DEF CalmInv
  <1>4. Leads(t, todo[t], todo[t][1]) /\ OneCall /\ Laid(t) /\ Len(todo[t]) \in Nat
    BY <1>2 DEF CalmInv, CallInv, Laid, First
  <1>5. t = cur /\ Working(t) /\ todo[t][1].op = op /\ (op # "make" => ~First(t, "make"))
    BY <1>1, <1>2 DEF First
  <1> QED  BY <1>2, <1>3, <1>4, <1>5

\* It makes way for others, none of which touches the count ...
LEMMA Replaced ==
    ASSUME CallInv, CallInv', OneCall, NEW t \in DTasks, t = cur, Laid(t), Working(t),
           ~First(t, "make"), live' = live, InUse(count)',
           NEW ops, AnySeq(ops), DesktopPart!Then(ops), Len(ops) > 0,
           ops[1].op \notin {"link", "shift"}, Leads(t, todo[t], ops[1])',
           \A i \in 2 .. Len(ops) :
             Waits(t, ops[i], Len(ops) + Len(todo[t]) - 1 - i) \/ (i = 2 /\ ops[1].op = "make")
    PROVE  OneCall' /\ (\A u \in DTasks : Laid(u)') /\ Counted'
  <1>1. /\ \A u \in DTasks \ {t} : ~Working(u)'
        /\ Len(ops) \in Nat /\ Len(todo'[t]) \in Nat
        /\ Len(todo'[t]) = Len(ops) + Len(todo[t]) - 1
        /\ \A i \in 1 .. Len(ops) : todo'[t][i] = ops[i]
        /\ \A i \in 1 .. Len(todo'[t]) : i > Len(ops) => Waits(t, todo'[t][i], Len(todo'[t]) - i)
    BY SMTT(60), Behind
  <1>2. \A i \in 2 .. Len(ops) :
          Waits(t, ops[i], Len(todo'[t]) - i) \/ (i = 2 /\ ops[1].op = "make")
    BY <1>1
  <1>3. \A u \in DTasks : Laid(u)'
    BY <1>1, <1>2, StillLaid
  <1>4. ~First(t, "link")' /\ ~First(t, "shift")'
    BY <1>1 DEF First
  <1>5. Counted'
    BY <1>1, <1>4, StillCounted
  <1> QED  BY <1>1, <1>3, <1>5, StillOne

\* ... or for none.
LEMMA Done ==
    ASSUME CallInv, CallInv', OneCall, NEW t \in DTasks, t = cur, Laid(t), Working(t),
           ~First(t, "make"), live' = live, InUse(count)', DesktopPart!Then(<<>>)
    PROVE  OneCall' /\ (\A u \in DTasks : Laid(u)') /\ Counted'
  <1> DEFINE ops == <<>>
  <1>1. AnySeq(ops) /\ Len(ops) = 0
    BY Literals
  <1>2. DesktopPart!Then(ops)
    OBVIOUS
  <1> HIDE DEF ops
  <1>3. /\ \A u \in DTasks \ {t} : ~Working(u)'
        /\ Len(ops) \in Nat /\ Len(todo'[t]) \in Nat
        /\ \A i \in 1 .. Len(ops) : todo'[t][i] = ops[i]
        /\ \A i \in 1 .. Len(todo'[t]) : i > Len(ops) => Waits(t, todo'[t][i], Len(todo'[t]) - i)
    BY SMTT(60), <1>1, <1>2, Behind
  <1>4. /\ ~(Len(ops) > 0)
        /\ \A i \in 2 .. Len(ops) :
             Waits(t, ops[i], Len(todo'[t]) - i) \/ (i = 2 /\ ops[1].op = "make")
    BY <1>1
  <1>5. /\ \A u \in DTasks : Laid(u)'
        /\ \A op \in {"find", "link", "make", "front", "shift", "handle"} : ~First(t, op)'
    BY <1>1, <1>3, <1>4, StillLaid
  <1>6. ~First(t, "link")' /\ ~First(t, "shift")'
    BY <1>5
  <1>7. Counted'
    BY <1>3, <1>6, StillCounted
  <1> QED  BY <1>3, <1>5, <1>7, StillOne
-----------------------------------------------------------------------------
(* The steps of a call, when it is the only one.                           *)

LEMMA FindCalm ==
    ASSUME CallInv, CallInv', CalmInv, DesktopPart!FindPlace
    PROVE  CalmInv'
  <1>1. PICK t \in DTasks : t = cur
    BY DEF CallInv
  <1>2. First(t, "find") /\ Working(t) /\ ~First(t, "make")
    BY <1>1, StepOf DEF DesktopPart!FindPlace, First
  <1>3. t # 0 /\ Len(todo[t]) = 1
    BY <1>1, <1>2, LeadsTo DEF CalmInv, Laid, First
  <1>4. InUse(count) /\ count \in 0 .. MaxVp /\ OneCall /\ Laid(t)
    BY <1>2, AllInUse DEF CalmInv, ViewTypes
  <1>5. UNCHANGED <<live, phase, told, mine, vps, elements, runid>>
    BY DEF DesktopPart!FindPlace, DesktopPart!progs, DesktopPart!cpu
  <1> DEFINE free == {e \in DPlaces : ~elements[e].inUse}
  <1>9. PICK n : n = DesktopPart!FirstOf(free)
    OBVIOUS
  <1>6. \/ DesktopPart!Then(<<DesktopPart!Return(0)>>) /\ count' = count
        \/ free # {} /\ DesktopPart!Then(<<DesktopPart!Link(n)>>) /\ count' = count + 1
    BY <1>9 DEF DesktopPart!FindPlace, DesktopPart!Places, DPlaces, DesktopPart!None
  <1>7. CASE DesktopPart!Then(<<DesktopPart!Return(0)>>) /\ count' = count
    <2> DEFINE ops == <<DesktopPart!Return(0)>>
    <2>1. /\ AnySeq(ops) /\ Len(ops) = 1 /\ ops[1].op = "return" /\ ops[1].x = 0
      <3>1. AnySeq(ops) /\ Len(ops) = 1 /\ ops[1] = DesktopPart!Return(0)
        BY Literals
      <3> QED  BY <3>1, Fields
    <2>2. DesktopPart!Then(ops)
      BY <1>7
    <2> HIDE DEF ops
    <2>3. /\ \A u \in DTasks \ {t} : ~Working(u)'
          /\ Len(todo'[t]) = 1 /\ todo'[t][1] = ops[1]
          /\ \A i \in 1 .. Len(todo'[t]) : i > 1 => Waits(t, todo'[t][i], Len(todo'[t]) - i)
      BY SMTT(60), <1>1, <1>2, <1>3, <1>4, <2>1, <2>2, Behind
    <2>4. Leads(t, todo[t], ops[1])'
      BY <1>3, <2>1, <2>3 DEF Leads, Waits
    <2>5. \A u \in DTasks : Laid(u)'
      BY <2>1, <2>3, <2>4, StillLaid
    <2>6. ~First(t, "link")' /\ ~First(t, "shift")'
      BY <2>1, <2>3 DEF First
    <2>7. Counted'
      BY <1>4, <1>5, <1>7, <2>3, <2>6, StillCounted DEF InUse
    <2>8. OneCall'
      BY <1>2, <1>4, <1>5, <2>3, StillOne
    <2> QED  BY <1>5, <1>7, <2>5, <2>7, <2>8 DEF CalmInv, ViewTypes
  <1>8. CASE free # {} /\ DesktopPart!Then(<<DesktopPart!Link(n)>>) /\ count' = count + 1
    <2> DEFINE ops == <<DesktopPart!Link(n)>>
    <2>1. /\ AnySeq(ops) /\ Len(ops) = 1 /\ ops[1].op = "link" /\ ops[1].x = n
      <3>1. AnySeq(ops) /\ Len(ops) = 1 /\ ops[1] = DesktopPart!Link(n)
        BY Literals
      <3> QED  BY <3>1, Fields
    <2>2. DesktopPart!Then(ops)
      BY <1>8
    <2>3. n \in free /\ \A e \in free : n <= e
      <3>1. free \in SUBSET Nat
        BY DEF DPlaces
      <3> QED  BY <1>8, <1>9, <3>1, FirstFound
    <2>4. n \in DPlaces /\ ~elements[n].inUse /\ \A e \in DPlaces : e < n => elements[e].inUse
      BY <2>3 DEF DPlaces
    <2> HIDE DEF ops
    <2>5. count <= n /\ n <= MaxVp - 1
      BY <1>4, <2>4, DesktopAssumption DEF InUse, DPlaces
    <2>6. /\ \A u \in DTasks \ {t} : ~Working(u)'
          /\ Len(todo'[t]) = 1 /\ todo'[t][1] = ops[1]
          /\ \A i \in 1 .. Len(todo'[t]) : i > 1 => Waits(t, todo'[t][i], Len(todo'[t]) - i)
      BY SMTT(60), <1>1, <1>2, <1>3, <1>4, <2>1, <2>2, Behind
    <2>7. Leads(t, todo[t], ops[1])'
      BY <1>3, <2>1, <2>4, <2>6 DEF Leads
    <2>8. \A u \in DTasks : Laid(u)'
      BY <2>1, <2>6, <2>7, StillLaid
    <2>9. Counted'
      <3>1. count' - 1 = count
        BY <1>4, <1>8
      <3>2. InUse(count - 1)' /\ InUse(n)' /\ ~elements'[n].inUse
        BY <1>4, <1>5, <2>4, <3>1 DEF InUse
      <3>3. First(t, "link")' /\ ~First(t, "shift")' /\ todo'[t][1].x = n
        BY <2>1, <2>6 DEF First, Working
      <3>4. \A u \in DTasks : First(u, "link")' \/ First(u, "shift")' => u = t
        BY <2>6 DEF First
      <3> QED  BY <3>2, <3>3, <3>4 DEF Counted
    <2>10. OneCall'
      BY <1>2, <1>4, <1>5, <2>6, StillOne
    <2>11. count' \in 0 .. MaxVp
      BY <1>4, <1>8, <2>4, <2>5, DesktopAssumption DEF DPlaces
    <2> QED  BY <1>5, <2>8, <2>9, <2>10, <2>11 DEF CalmInv, ViewTypes
  <1> QED  BY <1>6, <1>7, <1>8

LEMMA LinkCalm ==
    ASSUME CallInv, CallInv', CalmInv, DesktopPart!LinkPlace
    PROVE  CalmInv'
  <1>1. PICK t \in DTasks :
          /\ t = cur /\ Working(t) /\ First(t, "link") /\ todo[t][1].op = "link"
          /\ DesktopPart!X = todo[t][1].x /\ Leads(t, todo[t], todo[t][1])
          /\ OneCall /\ Laid(t) /\ ~First(t, "make")
    BY Reached DEF DesktopPart!LinkPlace
  <1>2. PICK x \in DPlaces : x = DesktopPart!X /\ x = todo[t][1].x
    BY <1>1, LeadsTo
  <1>3. PICK v \in DVps : v = DesktopPart!FirstOf(DesktopPart!FreeVps)
    <2>1. DesktopPart!FreeVps \in SUBSET Nat /\ DesktopPart!FreeVps # {}
          /\ DesktopPart!FreeVps \subseteq DVps
      BY DEF DesktopPart!LinkPlace, DesktopPart!FreeVps, DesktopPart!Vps, DVps
    <2> QED  BY <2>1, FirstFound
  <1> DEFINE ops == <<DesktopPart!Make(v), DesktopPart!Front(x), DesktopPart!Return(v)>>
  <1>4. /\ elements' = [elements EXCEPT ![x] = [inUse |-> TRUE, vp |-> v]]
        /\ DesktopPart!Then(ops)
        /\ UNCHANGED <<live, phase, told, mine, vps, count, runid>>
    BY <1>2, <1>3 DEF DesktopPart!LinkPlace, DesktopPart!progs, DesktopPart!cpu
  <1>5. /\ AnySeq(ops) /\ Len(ops) = 3
        /\ ops[1].op = "make" /\ ops[1].x = v /\ ops[2].op = "front" /\ ops[2].x = x
        /\ ops[3].op = "return" /\ ops[3].x = v
    <2>1. /\ AnySeq(ops) /\ Len(ops) = 3 /\ ops[1] = DesktopPart!Make(v)
          /\ ops[2] = DesktopPart!Front(x) /\ ops[3] = DesktopPart!Return(v)
      BY Literals
    <2> QED  BY <2>1, Fields
  <1> HIDE DEF ops
  <1>6. t # 0 /\ Len(todo[t]) = 1
    BY <1>1, LeadsTo
  <1>7. elements' \in [DPlaces -> [inUse : BOOLEAN, vp : DVps \cup {0}]] /\ elements'[x].inUse
        /\ \A e \in DPlaces : elements[e].inUse => elements'[e].inUse
    BY <1>4 DEF CalmInv, ViewTypes
  <1>8. InUse(count)'
    <2>1. InUse(count - 1) /\ InUse(x) /\ ~elements[x].inUse /\ count \in Nat
      BY <1>1, <1>2 DEF CalmInv, Counted, ViewTypes
    <2>2. ASSUME NEW e \in DPlaces, e < count PROVE elements'[e].inUse
      <3>1. x >= count - 1
        BY <2>1 DEF InUse, DPlaces
      <3>2. e < x \/ e = x
        BY <2>1, <2>2, <3>1 DEF DPlaces
      <3> QED  BY <1>7, <2>1, <3>2 DEF InUse
    <2> QED  BY <1>4, <2>2 DEF InUse
  <1>9. Leads(t, todo[t], ops[1])'
    <2>1. /\ Len(todo'[t]) = Len(ops) + Len(todo[t]) - 1
          /\ \A i \in 1 .. Len(ops) : todo'[t][i] = ops[i]
      BY ZenonT(60), <1>1, <1>4, <1>5, Behind
    <2>2. Len(todo'[t]) = 3 /\ todo'[t][2] = ops[2] /\ todo'[t][3] = ops[3]
      BY <1>5, <1>6, <2>1
    <2> QED  BY <1>5, <1>6, <1>7, <2>2 DEF Leads
  <1>10. \A i \in 2 .. Len(ops) :
           Waits(t, ops[i], Len(ops) + Len(todo[t]) - 1 - i) \/ (i = 2 /\ ops[1].op = "make")
    BY <1>5, <1>6 DEF Waits
  <1>11. OneCall' /\ (\A u \in DTasks : Laid(u)') /\ Counted'
    <2>1. Len(ops) > 0 /\ ops[1].op \notin {"link", "shift"} /\ AnySeq(ops)
          /\ live' = live /\ DesktopPart!Then(ops)
      BY <1>4, <1>5
    <2> QED  BY <1>1, <1>8, <1>9, <1>10, <2>1, Replaced
  <1> QED  BY <1>4, <1>7, <1>11 DEF CalmInv, ViewTypes

LEMMA MakeCalm ==
    ASSUME CallInv, CallInv', CalmInv, DesktopPart!MakeViewport
    PROVE  CalmInv'
  <1>1. PICK t \in DTasks :
          /\ t = cur /\ Working(t) /\ First(t, "make") /\ todo[t][1].op = "make"
          /\ DesktopPart!X = todo[t][1].x /\ Leads(t, todo[t], todo[t][1])
          /\ OneCall /\ Laid(t) /\ InUse(count)
    BY Reached DEF DesktopPart!MakeViewport
  <1>2. PICK v \in DVps : v = DesktopPart!X /\ v = todo[t][1].x
    BY <1>1, LeadsTo
  <1>3. /\ vps' = [vps EXCEPT ![v] = [open |-> TRUE, owner |-> runid, handler |-> 0]]
        /\ DesktopPart!Then(<<>>)
        /\ UNCHANGED <<live, phase, told, mine, elements, count, runid>>
    BY <1>2 DEF DesktopPart!MakeViewport, DesktopPart!progs, DesktopPart!Nobody
  <1>4. /\ t # 0 /\ Len(todo[t]) = 3
        /\ todo[t][2].op = "front" /\ todo[t][2].x \in DPlaces /\ elements[todo[t][2].x].inUse
        /\ todo[t][3].op = "return" /\ todo[t][3].x = v
    BY <1>1, <1>2, LeadsTo
  <1>5. /\ \A u \in DTasks \ {t} : todo'[u] = todo[u]
        /\ Len(todo'[t]) = 2 /\ todo'[t][1] = todo[t][2] /\ todo'[t][2] = todo[t][3]
    <2> DEFINE ops == <<>>
    <2>1. AnySeq(ops) /\ Len(ops) = 0 /\ DesktopPart!Then(ops)
      BY <1>3, Literals
    <2> HIDE DEF ops
    <2>2. /\ \A u \in DTasks \ {t} : todo'[u] = todo[u]
          /\ Len(todo'[t]) = Len(ops) + Len(todo[t]) - 1
          /\ \A i \in 1 .. Len(todo'[t]) : i > Len(ops) => todo'[t][i] = todo[t][i - Len(ops) + 1]
      BY SMTT(60), <1>1, <2>1, ThenIs
    <2> QED  BY <1>4, <2>1, <2>2
  <1>6. \A u \in DTasks \ {t} : ~Working(u)'
    BY <1>1, <1>5 DEF OneCall, Working
  <1>7. Laid(t)'
    <2>1. Leads(t, todo[t], todo[t][1])'
      BY <1>3, <1>4, <1>5 DEF Leads
    <2>2. Waits(t, todo'[t][2], 0)
      BY <1>4, <1>5 DEF Waits
    <2>3. \A i \in 2 .. Len(todo'[t]) : i = 2 /\ Len(todo'[t]) - i = 0
      BY <1>5
    <2> QED  BY <2>1, <2>2, <2>3 DEF Laid
  <1>8. \A u \in DTasks : Laid(u)'
    BY <1>6, <1>7 DEF Laid
  <1>9. Counted'
    <2>1. InUse(count)' /\ ~First(t, "link")' /\ ~First(t, "shift")'
      BY <1>1, <1>3, <1>4, <1>5 DEF InUse, First
    <2> QED  BY <1>6, <2>1, StillCounted
  <1>10. OneCall'
    BY <1>1, <1>3, <1>6, StillOne
  <1>11. vps' \in [DVps -> [open : BOOLEAN, owner : DTasks, handler : DProgs \cup {0}]]
    BY <1>3 DEF CalmInv, ViewTypes
  <1> QED  BY <1>3, <1>8, <1>9, <1>10, <1>11 DEF CalmInv, ViewTypes

LEMMA ReturnCalm ==
    ASSUME CallInv, CallInv', CalmInv, DesktopPart!ReturnViewport
    PROVE  CalmInv'
  <1>1. PICK t \in DTasks :
          /\ t = cur /\ Working(t) /\ First(t, "return") /\ todo[t][1].op = "return"
          /\ DesktopPart!X = todo[t][1].x /\ Leads(t, todo[t], todo[t][1])
          /\ OneCall /\ Laid(t) /\ InUse(count) /\ ~First(t, "make")
    BY Reached DEF DesktopPart!ReturnViewport
  <1>2. DesktopPart!X \in DVps \cup {0}
    BY <1>1, LeadsTo
  <1>3. /\ mine' = [mine EXCEPT ![cur] = DesktopPart!X] /\ DesktopPart!Then(<<>>)
        /\ UNCHANGED <<live, phase, told, vps, elements, count, runid>>
    BY DEF DesktopPart!ReturnViewport, DesktopPart!list, DesktopPart!cpu
  <1>4. InUse(count)'
    BY <1>1, <1>3 DEF InUse
  <1>5. OneCall' /\ (\A u \in DTasks : Laid(u)') /\ Counted'
    BY <1>1, <1>3, <1>4, Done
  <1>6. mine' \in [DProgs -> DVps \cup {0}]
    BY <1>2, <1>3 DEF CalmInv, ViewTypes
  <1> QED  BY <1>3, <1>5, <1>6 DEF CalmInv, ViewTypes

LEMMA FrontCalm ==
    ASSUME CallInv, CallInv', CalmInv, DesktopPart!MoveToFront
    PROVE  CalmInv'
  <1>1. PICK t \in DTasks :
          /\ t = cur /\ Working(t) /\ First(t, "front") /\ todo[t][1].op = "front"
          /\ DesktopPart!X = todo[t][1].x /\ Leads(t, todo[t], todo[t][1])
          /\ OneCall /\ Laid(t) /\ InUse(count) /\ ~First(t, "make")
    BY Reached DEF DesktopPart!MoveToFront
  <1>2. PICK x \in DPlaces : x = DesktopPart!X /\ elements[x].inUse
    BY <1>1, LeadsTo
  <1>3. /\ elements' = [e \in DPlaces |->
             IF e = 0 THEN elements[x] ELSE IF e <= x THEN elements[e - 1] ELSE elements[e]]
        /\ DesktopPart!Then(DesktopPart!FocusOps(x))
        /\ UNCHANGED <<live, phase, told, mine, vps, count, runid>>
    BY <1>2 DEF DesktopPart!MoveToFront, DesktopPart!progs, DesktopPart!cpu, DesktopPart!Places,
       DPlaces
  <1>4. \A e \in DPlaces : e <= x /\ e # 0 => e - 1 \in DPlaces
    BY DesktopAssumption DEF DPlaces
  <1>5. elements' \in [DPlaces -> [inUse : BOOLEAN, vp : DVps \cup {0}]]
    BY <1>3, <1>4 DEF CalmInv, ViewTypes
  <1>6. InUse(count)'
    <2>1. ASSUME NEW e \in DPlaces, e < count PROVE elements'[e].inUse
      <3>1. CASE e = 0
        BY <1>2, <1>3, <3>1
      <3>2. CASE e # 0 /\ e <= x
        <4>1. e - 1 \in DPlaces /\ e - 1 < count
          BY <1>4, <2>1, <3>2 DEF DPlaces, CalmInv, ViewTypes
        <4> QED  BY <1>1, <1>3, <3>2, <4>1 DEF InUse
      <3>3. CASE e # 0 /\ ~(e <= x)
        BY <1>1, <1>3, <2>1, <3>3 DEF InUse
      <3> QED  BY <3>1, <3>2, <3>3
    <2> QED  BY <1>3, <2>1 DEF InUse
  <1>7. OneCall' /\ (\A u \in DTasks : Laid(u)') /\ Counted'
    <2>1. CASE x = 0
      BY <1>1, <1>3, <1>6, <2>1, Done DEF DesktopPart!FocusOps
    <2>2. CASE x # 0
      <3> DEFINE ops == <<DesktopPart!Tell(0, "focused"), DesktopPart!Tell(1, "unfocused")>>
      <3>1. /\ AnySeq(ops) /\ Len(ops) = 2
            /\ ops[1].op = "tell" /\ ops[1].x = 0 /\ ops[2].op = "tell" /\ ops[2].x = 1
        <4>1. /\ AnySeq(ops) /\ Len(ops) = 2 /\ ops[1] = DesktopPart!Tell(0, "focused")
              /\ ops[2] = DesktopPart!Tell(1, "unfocused")
          BY Literals
        <4> QED  BY <4>1, Fields
      <3>2. DesktopPart!Then(ops)
        BY <1>3, <2>2 DEF DesktopPart!FocusOps
      <3> HIDE DEF ops
      <3>3. 0 \in DPlaces /\ 1 \in DPlaces
        BY DesktopAssumption DEF DPlaces
      <3>4. Leads(t, todo[t], ops[1])'
        BY <3>1, <3>3 DEF Leads, Waits
      <3>5. \A i \in 2 .. Len(ops) :
              Waits(t, ops[i], Len(ops) + Len(todo[t]) - 1 - i) \/ (i = 2 /\ ops[1].op = "make")
        BY <3>1, <3>3 DEF Waits
      <3>6. Len(ops) > 0 /\ ops[1].op \notin {"link", "shift"} /\ AnySeq(ops) /\ live' = live
        BY <1>3, <3>1
      <3> QED  BY <1>1, <1>6, <3>2, <3>4, <3>5, <3>6, Replaced
    <2> QED  BY <2>1, <2>2
  <1> QED  BY <1>3, <1>5, <1>7 DEF CalmInv, ViewTypes

LEMMA DropCalm ==
    ASSUME CallInv, CallInv', CalmInv, DesktopPart!DropPlace
    PROVE  CalmInv'
  <1>1. PICK t \in DTasks :
          /\ t = cur /\ Working(t) /\ First(t, "drop") /\ todo[t][1].op = "drop"
          /\ DesktopPart!X = todo[t][1].x /\ Leads(t, todo[t], todo[t][1])
          /\ OneCall /\ Laid(t) /\ InUse(count) /\ ~First(t, "make")
    BY Reached DEF DesktopPart!DropPlace
  <1>2. PICK v \in DVps : v = DesktopPart!X
    BY <1>1, LeadsTo
  <1> DEFINE listed == DesktopPart!Listed(v)
  <1>3. PICK n : n = DesktopPart!FirstOf(listed)
    OBVIOUS
  <1>4. /\ vps' = [vps EXCEPT ![v].open = FALSE, ![v].handler = 0]
        /\ UNCHANGED <<live, phase, told, mine, runid>>
        /\ \/ DesktopPart!Then(<<>>) /\ UNCHANGED <<elements, count>>
           \/ /\ listed # {} /\ count' = count - 1
              /\ elements' = [elements EXCEPT ![n] = [inUse |-> FALSE, vp |-> 0]]
              /\ DesktopPart!Then(<<DesktopPart!Shift(n), DesktopPart!Tell(0, "focused")>>)
    BY <1>2, <1>3 DEF DesktopPart!DropPlace, DesktopPart!progs, DesktopPart!cpu,
       DesktopPart!Nobody, DesktopPart!None
  <1>5. vps' \in [DVps -> [open : BOOLEAN, owner : DTasks, handler : DProgs \cup {0}]]
    <2>1. vps \in [DVps -> [open : BOOLEAN, owner : DTasks, handler : DProgs \cup {0}]]
      BY DEF CalmInv, ViewTypes
    <2>2. vps[v] \in [open : BOOLEAN, owner : DTasks, handler : DProgs \cup {0}]
      BY <2>1
    <2>3. vps' = [vps EXCEPT ![v] = [[vps[v] EXCEPT !.open = FALSE] EXCEPT !.handler = 0]]
      BY <1>4, <2>1
    <2>4. [[vps[v] EXCEPT !.open = FALSE] EXCEPT !.handler = 0]
            \in [open : BOOLEAN, owner : DTasks, handler : DProgs \cup {0}]
      BY <2>2
    <2> QED  BY <2>1, <2>3, <2>4
  <1>6. CASE DesktopPart!Then(<<>>) /\ UNCHANGED <<elements, count>>
    <2>1. InUse(count)'
      BY <1>1, <1>6 DEF InUse
    <2>2. OneCall' /\ (\A u \in DTasks : Laid(u)') /\ Counted'
      BY <1>1, <1>4, <1>6, <2>1, Done
    <2> QED  BY <1>4, <1>5, <1>6, <2>2 DEF CalmInv, ViewTypes
  <1>7. CASE /\ listed # {} /\ count' = count - 1
             /\ elements' = [elements EXCEPT ![n] = [inUse |-> FALSE, vp |-> 0]]
             /\ DesktopPart!Then(<<DesktopPart!Shift(n), DesktopPart!Tell(0, "focused")>>)
    <2>1. n \in DPlaces /\ n < count
      <3>1. /\ listed \in SUBSET Nat
            /\ \A e \in listed : e \in DPlaces /\ e < count
        BY DEF DesktopPart!Listed, DesktopPart!Places, DPlaces
      <3> QED  BY <1>3, <1>7, <3>1, FirstFound
    <2> HIDE DEF listed
    <2> DEFINE ops == <<DesktopPart!Shift(n), DesktopPart!Tell(0, "focused")>>
    <2>2. /\ AnySeq(ops) /\ Len(ops) = 2
          /\ ops[1].op = "shift" /\ ops[1].x = n /\ ops[2].op = "tell" /\ ops[2].x = 0
      <3>1. /\ AnySeq(ops) /\ Len(ops) = 2 /\ ops[1] = DesktopPart!Shift(n)
            /\ ops[2] = DesktopPart!Tell(0, "focused")
        BY Literals
      <3> QED  BY <3>1, Fields
    <2>3. DesktopPart!Then(ops)
      BY <1>7
    <2> HIDE DEF ops
    <2>4. /\ \A u \in DTasks \ {t} : ~Working(u)'
          /\ Len(todo'[t]) \in Nat /\ Len(todo[t]) \in Nat \ {0}
          /\ Len(todo'[t]) = Len(ops) + Len(todo[t]) - 1
          /\ \A i \in 1 .. Len(ops) : todo'[t][i] = ops[i]
          /\ \A i \in 1 .. Len(todo'[t]) : i > Len(ops) => Waits(t, todo'[t][i], Len(todo'[t]) - i)
      BY ZenonT(60), <1>1, <2>2, <2>3, Behind
    <2>5. Leads(t, todo[t], ops[1])'
      BY <2>1, <2>2 DEF Leads
    <2>6. \A i \in 2 .. Len(ops) :
            Waits(t, ops[i], Len(todo'[t]) - i) \/ (i = 2 /\ ops[1].op = "make")
      <3>1. 0 \in DPlaces
        BY DesktopAssumption DEF DPlaces
      <3> QED  BY <2>2, <3>1 DEF Waits
    <2>7. \A u \in DTasks : Laid(u)'
      <3>1. Len(ops) \in Nat
        BY <2>2
      <3> QED  BY <2>4, <2>5, <2>6, <3>1, StillLaid
    <2>8. Counted'
      <3>1. First(t, "shift")' /\ ~First(t, "link")' /\ todo'[t][1].x = n
        BY <2>2, <2>4 DEF First, Working
      <3>2. \A u \in DTasks : First(u, "link")' \/ First(u, "shift")' => u = t
        BY <2>4 DEF First
      <3>3. count \in 0 .. MaxVp /\ n \in Nat /\ MaxVp \in Nat
        BY <2>1, DesktopAssumption DEF CalmInv, ViewTypes, DPlaces
      <3>4. count' + 1 <= MaxVp /\ n <= count' /\ count' + 1 = count
        BY <1>7, <2>1, <3>3
      <3>5. \A e \in DPlaces : e < count' + 1 /\ e # n => elements'[e].inUse
        BY <1>1, <1>7, <3>4 DEF InUse, CalmInv, ViewTypes
      <3> QED  BY <3>1, <3>2, <3>4, <3>5 DEF Counted
    <2>9. OneCall'
      BY <1>1, <1>4, <2>4, StillOne
    <2>10. elements' \in [DPlaces -> [inUse : BOOLEAN, vp : DVps \cup {0}]]
      <3>1. elements \in [DPlaces -> [inUse : BOOLEAN, vp : DVps \cup {0}]]
        BY DEF CalmInv, ViewTypes
      <3> QED  BY <1>7, <2>1, <3>1
    <2>11. count' \in 0 .. MaxVp
      <3>1. count \in 0 .. MaxVp /\ n \in Nat /\ MaxVp \in Nat
        BY <2>1, DesktopAssumption DEF CalmInv, ViewTypes, DPlaces
      <3> QED  BY <1>7, <2>1, <3>1
    <2> QED  BY <1>4, <1>5, <2>7, <2>8, <2>9, <2>10, <2>11 DEF CalmInv, ViewTypes
  <1> QED  BY <1>4, <1>6, <1>7

LEMMA ShiftCalm ==
    ASSUME CallInv, CallInv', CalmInv, DesktopPart!ShiftPlaces
    PROVE  CalmInv'
  <1>1. PICK t \in DTasks :
          /\ t = cur /\ Working(t) /\ First(t, "shift") /\ todo[t][1].op = "shift"
          /\ DesktopPart!X = todo[t][1].x /\ Leads(t, todo[t], todo[t][1])
          /\ OneCall /\ Laid(t) /\ ~First(t, "make")
    BY Reached DEF DesktopPart!ShiftPlaces
  <1>2. PICK x \in DPlaces : x = DesktopPart!X
    BY <1>1, LeadsTo
  <1>3. /\ elements' = [e \in DPlaces |->
             IF e \in x .. count - 1 THEN elements[e + 1] ELSE elements[e]]
        /\ DesktopPart!Then(<<>>)
        /\ UNCHANGED <<live, phase, told, mine, vps, count, runid>>
    BY <1>2 DEF DesktopPart!ShiftPlaces, DesktopPart!Shifted, DesktopPart!progs,
       DesktopPart!cpu, DesktopPart!Places, DPlaces
  <1>4. /\ count + 1 <= MaxVp /\ x <= count /\ count \in Nat /\ MaxVp \in Nat
        /\ \A e \in DPlaces : e < count + 1 /\ e # x => elements[e].inUse
    BY <1>1, <1>2, DesktopAssumption DEF CalmInv, Counted, ViewTypes
  <1>5. \A e \in DPlaces : e \in x .. count - 1 => e + 1 \in DPlaces /\ e + 1 < count + 1
    BY <1>4 DEF DPlaces
  <1>6. elements' \in [DPlaces -> [inUse : BOOLEAN, vp : DVps \cup {0}]]
    BY <1>3, <1>5 DEF CalmInv, ViewTypes
  <1>7. InUse(count)'
    <2>1. ASSUME NEW e \in DPlaces, e < count PROVE elements'[e].inUse
      <3>1. CASE e \in x .. count - 1
        <4>1. e + 1 # x
          BY <3>1 DEF DPlaces
        <4> QED  BY <1>3, <1>4, <1>5, <3>1, <4>1
      <3>2. CASE e \notin x .. count - 1
        <4>1. e # x /\ e < count + 1
          BY <1>4, <2>1, <3>2 DEF DPlaces
        <4> QED  BY <1>3, <1>4, <3>2, <4>1
      <3> QED  BY <3>1, <3>2
    <2> QED  BY <1>3, <2>1 DEF InUse
  <1>8. OneCall' /\ (\A u \in DTasks : Laid(u)') /\ Counted'
    BY <1>1, <1>3, <1>7, Done
  <1> QED  BY <1>3, <1>6, <1>8 DEF CalmInv, ViewTypes

LEMMA TellCalm ==
    ASSUME CallInv, CallInv', CalmInv, DesktopPart!TellPlace
    PROVE  CalmInv'
  <1>1. PICK t \in DTasks :
          /\ t = cur /\ Working(t) /\ First(t, "tell") /\ todo[t][1].op = "tell"
          /\ DesktopPart!X = todo[t][1].x /\ Leads(t, todo[t], todo[t][1])
          /\ OneCall /\ Laid(t) /\ InUse(count) /\ ~First(t, "make")
    BY Reached DEF DesktopPart!TellPlace
  <1>2. PICK v : v = elements[DesktopPart!X].vp /\ v \in DVps \cup {0}
    BY <1>1, LeadsTo DEF CalmInv, ViewTypes
  <1>3. PICK ev : ev = DesktopPart!Ev
    OBVIOUS
  <1>4. /\ DesktopPart!Then(IF v = 0 THEN <<>> ELSE <<DesktopPart!Send(v, ev)>>)
        /\ UNCHANGED <<live, phase, told, mine, vps, elements, count, runid>>
    BY <1>2, <1>3 DEF DesktopPart!TellPlace, DesktopPart!progs, DesktopPart!cpu,
       DesktopPart!list, DesktopPart!None
  <1>5. InUse(count)'
    BY <1>1, <1>4 DEF InUse
  <1>6. OneCall' /\ (\A u \in DTasks : Laid(u)') /\ Counted'
    <2>1. CASE v = 0
      BY <1>1, <1>4, <1>5, <2>1, Done
    <2>2. CASE v # 0
      <3> DEFINE ops == <<DesktopPart!Send(v, ev)>>
      <3>1. AnySeq(ops) /\ Len(ops) = 1 /\ ops[1].op = "send" /\ ops[1].x = v
        <4>1. AnySeq(ops) /\ Len(ops) = 1 /\ ops[1] = DesktopPart!Send(v, ev)
          BY Literals
        <4> QED  BY <4>1, Fields
      <3>2. DesktopPart!Then(ops)
        BY <1>4, <2>2
      <3> HIDE DEF ops
      <3>3. Leads(t, todo[t], ops[1])'
        BY <1>2, <2>2, <3>1 DEF Leads, Waits
      <3>4. /\ Len(ops) > 0 /\ ops[1].op \notin {"link", "shift"} /\ AnySeq(ops) /\ live' = live
            /\ \A i \in 2 .. Len(ops) :
                 Waits(t, ops[i], Len(ops) + Len(todo[t]) - 1 - i) \/ (i = 2 /\ ops[1].op = "make")
        BY <1>4, <3>1
      <3> QED  BY <1>1, <1>5, <3>2, <3>3, <3>4, Replaced
    <2> QED  BY <2>1, <2>2
  <1> QED  BY <1>4, <1>6 DEF CalmInv, ViewTypes

LEMMA DeliverCalm ==
    ASSUME CallInv, CallInv', CalmInv, DesktopPart!Deliver
    PROVE  CalmInv'
  <1>1. PICK t \in DTasks :
          /\ t = cur /\ Working(t) /\ First(t, "send") /\ todo[t][1].op = "send"
          /\ DesktopPart!X = todo[t][1].x /\ Leads(t, todo[t], todo[t][1])
          /\ OneCall /\ Laid(t) /\ InUse(count) /\ ~First(t, "make")
    BY Reached DEF DesktopPart!Deliver
  <1>2. PICK v \in DVps : v = DesktopPart!X
    BY <1>1, LeadsTo
  <1>3. PICK ev : ev = DesktopPart!Ev
    OBVIOUS
  <1>4. /\ UNCHANGED <<live, phase, told, mine, vps, elements, count>>
        /\ \/ DesktopPart!Then(<<>>) /\ runid' = runid
           \/ /\ runid' = vps[v].owner
              /\ DesktopPart!Then(<<DesktopPart!Handle(v, ev), DesktopPart!Restore>>)
    BY <1>2, <1>3 DEF DesktopPart!Deliver, DesktopPart!progs, DesktopPart!cpu, DesktopPart!list
  <1>5. InUse(count)' /\ runid' \in DTasks
    BY <1>1, <1>4 DEF InUse, CalmInv, ViewTypes
  <1>6. OneCall' /\ (\A u \in DTasks : Laid(u)') /\ Counted'
    <2>1. CASE DesktopPart!Then(<<>>)
      BY <1>1, <1>4, <1>5, <2>1, Done
    <2>2. CASE DesktopPart!Then(<<DesktopPart!Handle(v, ev), DesktopPart!Restore>>)
      <3> DEFINE ops == <<DesktopPart!Handle(v, ev), DesktopPart!Restore>>
      <3>1. /\ AnySeq(ops) /\ Len(ops) = 2
            /\ ops[1].op = "handle" /\ ops[1].x = v /\ ops[2].op = "restore"
        <4>1. /\ AnySeq(ops) /\ Len(ops) = 2 /\ ops[1] = DesktopPart!Handle(v, ev)
              /\ ops[2] = DesktopPart!Restore
          BY Literals
        <4> QED  BY <4>1, Fields
      <3>2. DesktopPart!Then(ops)
        BY <2>2
      <3> HIDE DEF ops
      <3>3. /\ Len(todo[t]) \in Nat \ {0} /\ Len(todo'[t]) = Len(ops) + Len(todo[t]) - 1
            /\ \A i \in 1 .. Len(ops) : todo'[t][i] = ops[i]
        BY ZenonT(60), <1>1, <3>1, <3>2, Behind
      <3>4. Len(todo'[t]) > 1 /\ todo'[t][2] = ops[2]
        BY <3>1, <3>3
      <3>5. Leads(t, todo[t], ops[1])'
        BY <3>1, <3>4 DEF Leads
      <3>6. /\ Len(ops) > 0 /\ ops[1].op \notin {"link", "shift"} /\ AnySeq(ops) /\ live' = live
            /\ \A i \in 2 .. Len(ops) :
                 Waits(t, ops[i], Len(ops) + Len(todo[t]) - 1 - i) \/ (i = 2 /\ ops[1].op = "make")
        BY <1>4, <3>1 DEF Waits
      <3> QED  BY <1>1, <1>5, <3>2, <3>5, <3>6, Replaced
    <2> QED  BY <1>4, <2>1, <2>2
  <1> QED  BY <1>4, <1>5, <1>6 DEF CalmInv, ViewTypes

\* The steps that only end.
LEMMA EndCalm ==
    ASSUME CallInv, CallInv', CalmInv,
           DesktopPart!HandleEvent \/ DesktopPart!RestoreTask \/ DesktopPart!EndPass
    PROVE  CalmInv'
  <1>1. PICK op \in {"handle", "restore", "unlock"} : DesktopPart!At(op)
    BY DEF DesktopPart!HandleEvent, DesktopPart!RestoreTask, DesktopPart!EndPass
  <1>2. PICK t \in DTasks :
          /\ t = cur /\ Working(t) /\ OneCall /\ Laid(t) /\ InUse(count) /\ ~First(t, "make")
    BY <1>1, Reached
  <1>3. /\ DesktopPart!Then(<<>>)
        /\ UNCHANGED <<live, phase, mine, vps, elements, count>>
        /\ told' = told \/ \E p : told' = [told EXCEPT ![p] = TRUE]
        /\ runid' = runid \/ runid' = cur
    BY DEF DesktopPart!HandleEvent, DesktopPart!RestoreTask, DesktopPart!EndPass,
       DesktopPart!progs, DesktopPart!cpu, DesktopPart!list
  <1>4. InUse(count)'
    BY <1>2, <1>3 DEF InUse
  <1>5. OneCall' /\ (\A u \in DTasks : Laid(u)') /\ Counted'
    BY <1>2, <1>3, <1>4, Done
  <1>6. runid' \in DTasks /\ told' \in [DProgs -> BOOLEAN]
    BY <1>2, <1>3 DEF CalmInv, ViewTypes
  <1> QED  BY <1>3, <1>5, <1>6 DEF CalmInv, ViewTypes

LEMMA Alone ==
    ASSUME CallInv, Calm', DesktopPart!Overlaps \subseteq marks'
    PROVE  \A u \in DTasks \ {cur} : ~Working(u)
  <1>1. \A u \in DTasks : Working(u) => DesktopPart!Busy(u)
    BY Blankness DEF CallInv, DesktopPart!Busy, Working
  <1>2. "overlap" \notin DesktopPart!Overlaps
    BY DEF Calm
  <1> QED  BY <1>1, <1>2 DEF DesktopPart!Overlaps, DesktopPart!Mark, DesktopPart!Tasks,
           DesktopPart!D, DesktopPart!Progs, DTasks, DProgs

\* A call that no other overlaps is the only one.
LEMMA CallCalm ==
    ASSUME CallInv, CallInv', CalmInv, NEW t \in DTasks, t = cur, ~Working(t),
           \A u \in DTasks \ {t} : ~Working(u), t \in DProgs => live[t],
           UNCHANGED <<live, elements, count>>,
           NEW ops, AnySeq(ops), DesktopPart!Call(ops), ops[1].op \notin {"link", "shift"},
           Leads(t, ops, ops[1]), \A i \in 2 .. Len(ops) : Waits(t, ops[i], Len(ops) - i)
    PROVE  OneCall' /\ (\A u \in DTasks : Laid(u)') /\ Counted'
  <1>1. todo'[t] = ops /\ \A u \in DTasks \ {t} : ~Working(u)'
    BY CallIs DEF Working
  <1>2. InUse(count)'
    <2>1. InUse(count)
      BY DEF CalmInv, Counted, First
    <2> QED  BY <2>1 DEF InUse
  <1>3. ~First(t, "link")' /\ ~First(t, "shift")'
    BY <1>1 DEF First
  <1>4. Counted'
    BY <1>1, <1>2, <1>3, StillCounted
  <1>5. Laid(t)'
    <2>1. Leads(t, todo[t], todo[t][1])'
      BY <1>1 DEF Leads
    <2> QED  BY <1>1, <2>1 DEF Laid
  <1>6. \A u \in DTasks : Laid(u)'
    BY <1>1, <1>5 DEF Laid
  <1>7. OneCall'
    <2>1. \A u \in DTasks : Working(u)' => u = t
      BY <1>1
    <2> QED  BY <2>1 DEF OneCall, DTasks
  <1> QED  BY <1>4, <1>6, <1>7

\* The two sequences a click may start.
LEMMA ClickOps ==
    ASSUME NEW a, NEW d
    PROVE  /\ AnySeq(<<a>> \o <<>> \o <<d>>) /\ Len(<<a>> \o <<>> \o <<d>>) = 2
           /\ (<<a>> \o <<>> \o <<d>>)[1] = a /\ (<<a>> \o <<>> \o <<d>>)[2] = d
  <1>1. <<a>> \o <<>> = <<a>> /\ <<a>> \o <<d>> \in Seq({a, d})
    OBVIOUS
  <1>2. Len(<<a>> \o <<d>>) = 2 /\ (<<a>> \o <<d>>)[1] = a /\ (<<a>> \o <<d>>)[2] = d
    OBVIOUS
  <1> QED  BY <1>1, <1>2 DEF AnySeq

LEMMA ExitClickOps ==
    ASSUME NEW a, NEW b, NEW c, NEW d
    PROVE  /\ AnySeq(<<a>> \o <<b, c>> \o <<d>>) /\ Len(<<a>> \o <<b, c>> \o <<d>>) = 4
           /\ (<<a>> \o <<b, c>> \o <<d>>)[1] = a /\ (<<a>> \o <<b, c>> \o <<d>>)[2] = b
           /\ (<<a>> \o <<b, c>> \o <<d>>)[3] = c /\ (<<a>> \o <<b, c>> \o <<d>>)[4] = d
  <1> DEFINE s == <<a>> \o <<b, c>>
             u == <<d>>
  <1>1. s \in Seq({a, b, c, d}) /\ Len(s) = 3 /\ s[1] = a /\ s[2] = b /\ s[3] = c
    OBVIOUS
  <1>2. AnySeq(u) /\ Len(u) = 1 /\ u[1] = d
    BY Literals
  <1>3. AnySeq(s)
    BY <1>1 DEF AnySeq
  <1> HIDE DEF s, u
  <1>4. /\ AnySeq(s \o u) /\ Len(s \o u) = Len(s) + Len(u)
        /\ \A i \in 1 .. Len(s) : (s \o u)[i] = s[i]
        /\ \A i \in 1 .. Len(s) + Len(u) : i > Len(s) => (s \o u)[i] = u[i - Len(s)]
    BY <1>2, <1>3, Joined
  <1>5. 4 \in 1 .. 3 + 1 /\ 4 > 3 /\ 4 - 3 = 1 /\ 3 + 1 = 4
    OBVIOUS
  <1>6. (s \o u)[4] = u[1]
    BY <1>1, <1>2, <1>4, <1>5
  <1>7. AnySeq(s \o u) /\ Len(s \o u) = 4
        /\ (s \o u)[1] = a /\ (s \o u)[2] = b /\ (s \o u)[3] = c /\ (s \o u)[4] = d
    BY <1>1, <1>2, <1>4, <1>6
  <1> QED  BY <1>7 DEF s, u

\* The steps of a click.  The viewport that one on an X closes has its handler,
\* unless that was marked.
LEMMA ClickIs ==
    ASSUME CalmInv, DesktopPart!Click
    PROVE  \E e, v, ops :
             /\ e \in DPlaces /\ v \in DVps /\ e < count /\ elements[e].inUse
             /\ AnySeq(ops) /\ DesktopPart!Call(ops) /\ ops[1] = DesktopPart!Front(e)
             /\ \/ Len(ops) = 2 /\ ops[2] = DesktopPart!Unlock
                \/ /\ Len(ops) = 4 /\ ops[2] = DesktopPart!Send(v, "exit")
                   /\ ops[3] = DesktopPart!Drop(v) /\ ops[4] = DesktopPart!Unlock
                   /\ marks' = {} => vps[v].handler # 0
  <1>1. PICK e \in DPlaces, x \in BOOLEAN :
          /\ e < count /\ elements[e].inUse /\ elements[e].vp # 0
          /\ DesktopPart!Call(<<DesktopPart!Front(e)>>
               \o (IF x THEN DesktopPart!ExitOps(elements[e].vp) ELSE <<>>)
               \o <<DesktopPart!Unlock>>)
          /\ DesktopPart!Mark("early", x /\ vps[elements[e].vp].handler = 0) \subseteq marks'
    BY DEF DesktopPart!Click, DesktopPart!Places, DPlaces, DesktopPart!None, DesktopPart!Nobody
  <1>2. PICK v \in DVps : v = elements[e].vp
    BY <1>1 DEF CalmInv, ViewTypes
  <1>3. x /\ marks' = {} => vps[v].handler # 0
    BY <1>1, <1>2 DEF DesktopPart!Mark
  <1> DEFINE a == DesktopPart!Front(e)
             b == DesktopPart!Send(v, "exit")
             c == DesktopPart!Drop(v)
             d == DesktopPart!Unlock
  <1>4. CASE x
    <2>1. DesktopPart!Call(<<a>> \o <<b, c>> \o <<d>>)
      BY <1>1, <1>2, <1>4 DEF DesktopPart!ExitOps
    <2> HIDE DEF a, b, c, d
    <2> DEFINE z == <<a>> \o <<b, c>> \o <<d>>
    <2>2. AnySeq(z) /\ Len(z) = 4 /\ z[1] = a /\ z[2] = b /\ z[3] = c /\ z[4] = d
      BY ExitClickOps
    <2>3. DesktopPart!Call(z)
      BY <2>1
    <2> HIDE DEF z
    <2> QED  BY <1>1, <1>3, <1>4, <2>2, <2>3 DEF a, b, c, d
  <1>5. CASE ~x
    <2>1. DesktopPart!Call(<<a>> \o <<>> \o <<d>>)
      BY <1>1, <1>5
    <2> HIDE DEF a, b, c, d
    <2> DEFINE z == <<a>> \o <<>> \o <<d>>
    <2>2. AnySeq(z) /\ Len(z) = 2 /\ z[1] = a /\ z[2] = d
      BY ClickOps
    <2>3. DesktopPart!Call(z)
      BY <2>1
    <2> HIDE DEF z
    <2> QED  BY <1>1, <2>2, <2>3 DEF a, d
  <1> QED  BY <1>4, <1>5

LEMMA ClickCalm ==
    ASSUME CallInv, CallInv', CalmInv, Calm', DesktopPart!Click
    PROVE  CalmInv'
  <1>1. cur = 0 /\ 0 \in DTasks /\ 0 \notin DProgs
        /\ UNCHANGED <<live, phase, told, mine, vps, elements, count, runid>>
    BY DEF DesktopPart!Click, DesktopPart!D, DesktopPart!progs, DesktopPart!list, DTasks, DProgs
  <1>2. \A u \in DTasks \ {0} : ~Working(u)
    <2>1. DesktopPart!Overlaps \subseteq marks'
      BY DEF DesktopPart!Click
    <2> QED  BY <1>1, <2>1, Alone
  <1>3. PICK e, v, ops :
          /\ e \in DPlaces /\ v \in DVps /\ elements[e].inUse
          /\ AnySeq(ops) /\ DesktopPart!Call(ops) /\ ops[1] = DesktopPart!Front(e)
          /\ \/ Len(ops) = 2 /\ ops[2] = DesktopPart!Unlock
             \/ /\ Len(ops) = 4 /\ ops[2] = DesktopPart!Send(v, "exit")
                /\ ops[3] = DesktopPart!Drop(v) /\ ops[4] = DesktopPart!Unlock
    BY ClickIs
  <1> DEFINE a == DesktopPart!Front(e)
             b == DesktopPart!Send(v, "exit")
             c == DesktopPart!Drop(v)
             d == DesktopPart!Unlock
  <1>5. a.op = "front" /\ a.x = e /\ b.op = "send" /\ b.x = v /\ c.op = "drop" /\ c.x = v
        /\ d.op = "unlock"
    BY Fields
  <1>7. /\ AnySeq(ops) /\ DesktopPart!Call(ops) /\ ops[1] = a
        /\ \/ Len(ops) = 2 /\ ops[2] = d
           \/ Len(ops) = 4 /\ ops[2] = b /\ ops[3] = c /\ ops[4] = d
    BY <1>3
  <1> HIDE DEF a, b, c, d
  <1>8. ops[1].op \notin {"link", "shift"} /\ Leads(0, ops, ops[1])
    BY <1>3, <1>5, <1>7 DEF Leads
  <1>9. \A i \in 2 .. Len(ops) : Waits(0, ops[i], Len(ops) - i)
    <2>1. Waits(0, b, 2) /\ Waits(0, c, 1) /\ Waits(0, d, 0)
      BY <1>3, <1>5 DEF Waits
    <2>2. CASE Len(ops) = 2 /\ ops[2] = d
      <3>1. \A i \in 2 .. Len(ops) : i = 2 /\ Len(ops) - i = 0
        BY <2>2
      <3> QED  BY <2>1, <2>2, <3>1
    <2>3. CASE Len(ops) = 4 /\ ops[2] = b /\ ops[3] = c /\ ops[4] = d
      <3>1. 4 - 2 = 2 /\ 4 - 3 = 1 /\ 4 - 4 = 0 /\ \A i \in 2 .. 4 : i = 2 \/ i = 3 \/ i = 4
        OBVIOUS
      <3>2. ASSUME NEW i \in 2 .. 4 PROVE Waits(0, ops[i], 4 - i)
        <4>1. i = 2 => Waits(0, ops[i], 4 - i)
          BY <2>1, <2>3, <3>1
        <4>2. i = 3 => Waits(0, ops[i], 4 - i)
          BY <2>1, <2>3, <3>1
        <4>3. i = 4 => Waits(0, ops[i], 4 - i)
          BY <2>1, <2>3, <3>1
        <4> QED  BY <3>1, <4>1, <4>2, <4>3
      <3> QED  BY <2>3, <3>2
    <2> QED  BY <1>7, <2>2, <2>3
  <1>10. ~Working(0)
    BY <1>1, <1>7, CallIs
  <1>11. OneCall' /\ (\A u \in DTasks : Laid(u)') /\ Counted'
    BY <1>1, <1>2, <1>7, <1>8, <1>9, <1>10, CallCalm
  <1> QED  BY <1>1, <1>11 DEF CalmInv, ViewTypes

LEMMA OpenCalm ==
    ASSUME CallInv, CallInv', CalmInv, Calm', NEW p \in DProgs, DesktopPart!Open(p)
    PROVE  CalmInv'
  <1>1. /\ p = cur /\ p \in DTasks /\ p # 0 /\ live[p]
        /\ phase' = [phase EXCEPT ![p] = "opened"]
        /\ UNCHANGED <<live, told, mine, vps, elements, count, runid>>
    BY DEF DesktopPart!Open, DesktopPart!In, DesktopPart!Phase, DesktopPart!list,
       DesktopPart!cpu, DTasks, DProgs
  <1>2. \A u \in DTasks \ {p} : ~Working(u)
    <2>1. DesktopPart!Overlaps \subseteq marks'
      BY DEF DesktopPart!Open
    <2> QED  BY <1>1, <2>1, Alone
  <1> DEFINE ops == <<DesktopPart!Find>>
  <1>3. /\ AnySeq(ops) /\ Len(ops) = 1 /\ ops[1].op = "find" /\ DesktopPart!Call(ops)
    <2>1. AnySeq(ops) /\ Len(ops) = 1 /\ ops[1] = DesktopPart!Find
      BY Literals
    <2>2. DesktopPart!Find.op = "find"
      BY Fields
    <2> QED  BY <2>1, <2>2 DEF DesktopPart!Open
  <1> HIDE DEF ops
  <1>4. ops[1].op \notin {"link", "shift"} /\ Leads(p, ops, ops[1])
    BY <1>1, <1>3 DEF Leads
  <1>5. \A i \in 2 .. Len(ops) : Waits(p, ops[i], Len(ops) - i)
    BY <1>3
  <1>6. ~Working(p)
    BY <1>1, <1>3, CallIs
  <1>7. OneCall' /\ (\A u \in DTasks : Laid(u)') /\ Counted'
    BY <1>1, <1>2, <1>3, <1>4, <1>5, <1>6, CallCalm
  <1> QED  BY <1>1, <1>7 DEF CalmInv, ViewTypes

LEMMA CloseCalm ==
    ASSUME CallInv, CallInv', RunInv, CalmInv, Calm', NEW p \in DProgs, DesktopPart!Close(p)
    PROVE  CalmInv'
  <1>1. /\ p = cur /\ p \in DTasks /\ p # 0 /\ live[p] /\ phase[p] = "running"
        /\ phase' = [phase EXCEPT ![p] = "closed"]
        /\ UNCHANGED <<live, told, mine, vps, elements, count, runid>>
    BY DEF DesktopPart!Close, DesktopPart!In, DesktopPart!Phase, DesktopPart!list,
       DesktopPart!cpu, DTasks, DProgs
  <1>2. \A u \in DTasks \ {p} : ~Working(u)
    <2>1. DesktopPart!Overlaps \subseteq marks'
      BY DEF DesktopPart!Close
    <2> QED  BY <1>1, <2>1, Alone
  <1>8. PICK v \in DVps : v = mine[p]
    BY <1>1 DEF RunInv, CalmInv, ViewTypes
  <1> DEFINE ops == <<DesktopPart!Drop(v)>>
  <1>3. /\ AnySeq(ops) /\ Len(ops) = 1 /\ ops[1].op = "drop" /\ ops[1].x = v
        /\ DesktopPart!Call(ops)
    <2>1. AnySeq(ops) /\ Len(ops) = 1 /\ ops[1] = DesktopPart!Drop(v)
      BY Literals
    <2>2. DesktopPart!Drop(v).op = "drop" /\ DesktopPart!Drop(v).x = v
      BY Fields
    <2> QED  BY <1>8, <2>1, <2>2 DEF DesktopPart!Close
  <1> HIDE DEF ops
  <1>4. ops[1].op \notin {"link", "shift"} /\ Leads(p, ops, ops[1])
    BY <1>1, <1>3 DEF Leads
  <1>5. \A i \in 2 .. Len(ops) : Waits(p, ops[i], Len(ops) - i)
    BY <1>3
  <1>6. ~Working(p)
    BY <1>1, <1>3, CallIs
  <1>7. OneCall' /\ (\A u \in DTasks : Laid(u)') /\ Counted'
    BY <1>1, <1>2, <1>3, <1>4, <1>5, <1>6, CallCalm
  <1> QED  BY <1>1, <1>7 DEF CalmInv, ViewTypes

\* What does not touch the calls and the list.
LEMMA AsideCalm ==
    ASSUME CallInv, CalmInv, UNCHANGED <<elements, count>>, OneCall',
           \A t \in DTasks : Working(t)' => Working(t) /\ todo'[t] = todo[t],
           \A t \in DTasks : Working(t) => todo'[t] = todo[t]
    PROVE  (\A t \in DTasks : Laid(t)') /\ Counted'
  <1>1. ASSUME NEW t \in DTasks PROVE Laid(t)'
    BY DEF Laid, First, Leads, CalmInv, Working
  <1>2. \A t \in DTasks, op \in {"link", "shift"} : First(t, op)' <=> First(t, op)
    BY DEF First, Working
  <1>3. InUse(count)' <=> InUse(count)
    BY DEF InUse
  <1>4. ASSUME NEW t \in DTasks, First(t, "link")'
        PROVE  (InUse(count - 1) /\ InUse(todo[t][1].x) /\ ~elements[todo[t][1].x].inUse)'
    BY <1>2, <1>4 DEF First, InUse, CalmInv, Counted
  <1>5. ASSUME NEW t \in DTasks, First(t, "shift")'
        PROVE  /\ count' + 1 <= MaxVp /\ todo'[t][1].x <= count'
               /\ \A e \in DPlaces : e < count' + 1 /\ e # todo'[t][1].x => elements'[e].inUse
    BY <1>2, <1>5 DEF First, CalmInv, Counted
  <1>6. (\A t \in DTasks : ~First(t, "link")' /\ ~First(t, "shift")') => InUse(count)'
    BY <1>2, <1>3 DEF CalmInv, Counted
  <1> QED  BY <1>1, <1>4, <1>5, <1>6 DEF Counted

LEMMA OthersCalm ==
    ASSUME CallInv, CallInv', CalmInv, Calm', NEW p \in DProgs,
           DesktopPart!Start(p) \/ DesktopPart!AddHandler(p) \/ DesktopPart!End(p)
             \/ DesktopPart!Kill(p) \/ \E t \in DTasks : DesktopPart!Switch(t)
    PROVE  CalmInv'
  <1>1. CASE DesktopPart!Start(p)
    <2>1. /\ ~live[p] /\ UNCHANGED <<vps, elements, count, runid>>
          /\ live' = [live EXCEPT ![p] = TRUE] /\ phase' = [phase EXCEPT ![p] = "new"]
          /\ mine' = [mine EXCEPT ![p] = 0] /\ told' = [told EXCEPT ![p] = FALSE]
          /\ todo' = [todo EXCEPT ![p] = <<>>]
      BY <1>1 DEF DesktopPart!Start, DesktopPart!list, DesktopPart!cpu, DesktopPart!None
    <2>2. ~Working(p) /\ p \in DTasks
      BY <2>1 DEF CalmInv, OneCall, DTasks
    <2>3. ~Working(p)' /\ \A t \in DTasks \ {p} : todo'[t] = todo[t]
      <3>1. todo'[p] = <<>> /\ Len(<<>>) = 0
        BY <2>1, <2>2, Literals DEF CallInv
      <3> QED  BY <2>1, <3>1 DEF CallInv, Working
    <2>4. \A t \in DTasks : (Working(t)' <=> Working(t)) /\ (Working(t) => todo'[t] = todo[t])
      BY <2>2, <2>3 DEF Working
    <2>5. OneCall'
      BY <2>1, <2>4 DEF CalmInv, OneCall, ViewTypes, DTasks
    <2>6. (\A t \in DTasks : Laid(t)') /\ Counted'
      BY <2>1, <2>4, <2>5, AsideCalm
    <2> QED  BY <2>1, <2>5, <2>6 DEF CalmInv, ViewTypes
  <1>2. CASE DesktopPart!AddHandler(p)
    <2>1. PICK v \in DVps : v = mine[p]
      BY <1>2 DEF DesktopPart!AddHandler, DesktopPart!None, CalmInv, ViewTypes
    <2>2. /\ vps' = [vps EXCEPT ![v].handler = p] /\ phase' = [phase EXCEPT ![p] = "running"]
          /\ UNCHANGED <<live, told, mine, elements, count, runid, todo>>
      BY <1>2, <2>1 DEF DesktopPart!AddHandler, DesktopPart!Phase, DesktopPart!cpu
    <2>3. OneCall'
      BY <2>2 DEF CalmInv, OneCall, Working
    <2>4. (\A t \in DTasks : Laid(t)') /\ Counted'
      <3>1. \A t \in DTasks : Working(t)' => Working(t)
        BY <2>2 DEF Working
      <3> QED  BY <2>2, <2>3, <3>1, AsideCalm
    <2>5. vps' \in [DVps -> [open : BOOLEAN, owner : DTasks, handler : DProgs \cup {0}]]
      BY <2>2 DEF CalmInv, ViewTypes
    <2> QED  BY <2>2, <2>3, <2>4, <2>5 DEF CalmInv, ViewTypes
  <1>3. CASE DesktopPart!End(p)
    <2>1. /\ ~Working(p) /\ live' = [live EXCEPT ![p] = FALSE] /\ runid' = 0
          /\ UNCHANGED <<phase, told, mine, vps, elements, count, todo>>
      BY <1>3, Blankness DEF DesktopPart!End, DesktopPart!D, DesktopPart!Busy, Working, CallInv,
         DesktopPart!list, DTasks
    <2>2. OneCall'
      BY <2>1 DEF CalmInv, OneCall, Working, ViewTypes
    <2>3. (\A t \in DTasks : Laid(t)') /\ Counted'
      <3>1. \A t \in DTasks : Working(t)' => Working(t)
        BY <2>1 DEF Working
      <3> QED  BY <2>1, <2>2, <3>1, AsideCalm
    <2> QED  BY <2>1, <2>2, <2>3 DEF CalmInv, ViewTypes, DTasks
  <1>4. CASE DesktopPart!Kill(p)
    BY <1>4 DEF DesktopPart!Kill, Calm
  <1>5. ASSUME NEW t \in DTasks, DesktopPart!Switch(t) PROVE CalmInv'
    <2>1. runid' = t /\ UNCHANGED <<live, phase, told, mine, vps, elements, count, todo>>
      BY <1>5 DEF DesktopPart!Switch, DesktopPart!progs, DesktopPart!list
    <2>2. OneCall'
      BY <2>1 DEF CalmInv, OneCall, Working
    <2>3. (\A u \in DTasks : Laid(u)') /\ Counted'
      <3>1. \A u \in DTasks : Working(u)' => Working(u)
        BY <2>1 DEF Working
      <3> QED  BY <2>1, <2>2, <3>1, AsideCalm
    <2> QED  BY <2>1, <2>2, <2>3 DEF CalmInv, ViewTypes
  <1> QED  BY <1>1, <1>2, <1>3, <1>4, <1>5

LEMMA CalmKeeps ==
    ASSUME CallInv, CallInv', RunInv, CalmInv, Calm', DesktopPart!Next
    PROVE  CalmInv'
  <1>1. ASSUME DesktopPart!Step PROVE CalmInv'
    BY <1>1, FindCalm, LinkCalm, MakeCalm, ReturnCalm, FrontCalm, DropCalm, ShiftCalm, TellCalm,
       DeliverCalm, EndCalm DEF DesktopPart!Step
  <1>2. 1 \in DProgs
    BY DesktopAssumption DEF DProgs
  <1> QED  BY <1>1, <1>2, ClickCalm, OpenCalm, CloseCalm, OthersCalm
           DEF DesktopPart!Next, DesktopPart!Progs, DesktopPart!Tasks, DesktopPart!D, DProgs, DTasks
-----------------------------------------------------------------------------
(* The owners, step by step.                                               *)

LEMMA Idle ==
    ASSUME CallInv', NEW t \in DTasks, ~Working(t)'
    PROVE  Opening(t)' /\ Closing(t)' /\ Handling(t)' /\ (t = 0 => Warned')
  <1>1. \A i \in 1 .. Len(todo'[t]) : FALSE
    BY DEF CallInv, Working
  <1> QED  BY <1>1 DEF Opening, Closing, Handling, Warned, First

\* A viewport with a handler is not the one that a call is about to close.
LEMMA KeptOwners ==
    ASSUME CalmInv, CleanInv, NEW t \in DTasks, NEW op, First(t, op), op # "drop",
           UNCHANGED <<live, phase, mine, vps>>,
           told' = told \/ \E p : told' = [told EXCEPT ![p] = TRUE]
    PROVE  Owned' /\ \A p \in DProgs : Known(p)'
  <1>1. \A h \in DTasks : ~First(h, "drop")
    BY DEF CalmInv, OneCall, First
  <1>2. \A p \in DProgs : told[p] => told'[p]
    BY DEF CalmInv, ViewTypes
  <1>3. Owned'
    <2>1. ASSUME NEW v \in DVps, vps[v].handler # 0
          PROVE  /\ vps[v].open /\ vps[v].owner = vps[v].handler
                 /\ mine[vps[v].handler] = v /\ live[vps[v].handler]
                 /\ phase[vps[v].handler] = "running"
      <3>1. vps[v].handler \in DTasks
        BY DEF CalmInv, ViewTypes, DTasks
      <3> QED  BY <1>1, <2>1, <3>1 DEF CleanInv, Owned
    <2>2. \A v \in DVps : vps'[v].handler # 0 =>
                 /\ vps'[v].open /\ vps'[v].owner = vps'[v].handler
                 /\ mine'[vps'[v].handler] = v /\ live'[vps'[v].handler]
                 /\ phase'[vps'[v].handler] = "running"
      BY <2>1
    <2> QED  BY <2>2 DEF Owned
  <1>4. ASSUME NEW p \in DProgs PROVE Known(p)'
    <2>1. Known(p)
      BY DEF CleanInv
    <2> QED  BY <1>2, <2>1 DEF Known
  <1> QED  BY <1>3, <1>4

\* A step that changes no viewport and no life, and starts no call.
LEMMA CleanStep ==
    ASSUME CallInv, CallInv', CalmInv, CleanInv, NEW t \in DTasks, t = cur,
           NEW op, First(t, op), op \notin {"make", "drop"},
           NEW ops, AnySeq(ops), DesktopPart!Then(ops),
           UNCHANGED <<live, phase, mine, vps>>,
           told' = told \/ \E p : told' = [told EXCEPT ![p] = TRUE],
           \A i \in 1 .. Len(ops) : ops[i].op \in {"tell", "send", "restore", "handle"},
           Len(ops) > 0 /\ ops[1].op = "handle" => Handling(t)',
           \A v \in DVps : t = 0 /\ Exits(1, v) /\ vps[v].handler # 0 =>
             \/ told'[vps[v].handler]
             \/ \E j \in 1 .. Len(ops) :
                  ops[j].op \in {"send", "handle"} /\ ops[j].x = v /\ ops[j].ev = "exit"
    PROVE  CleanInv'
  <1> DEFINE m == Len(ops)
             n == Len(todo[t])
             k == Len(todo'[t])
  <1>1. /\ \A u \in DTasks \ {t} : ~Working(u)'
        /\ m \in Nat /\ n \in Nat \ {0} /\ k \in Nat /\ k = m + n - 1
        /\ \A i \in 1 .. m : todo'[t][i] = ops[i]
        /\ \A i \in 1 .. k : i > m =>
             /\ i - m + 1 \in 2 .. n /\ todo'[t][i] = todo[t][i - m + 1]
             /\ Waits(t, todo'[t][i], k - i)
    <2>1. Laid(t) /\ OneCall /\ Working(t) /\ ~First(t, "make")
      BY DEF CalmInv, First
    <2> QED  BY SMTT(60), <2>1, Behind
  <1> HIDE DEF m, n, k
  <1>2. ASSUME Working(t)'
        PROVE  \/ m > 0 /\ todo'[t][1] = ops[1]
               \/ m = 0 /\ Waits(t, todo'[t][1], k - 1)
    BY <1>1, <1>2 DEF Working, k
  <1>3. \A o \in {"find", "link", "make"} : ~First(t, o)'
    BY <1>1, <1>2 DEF First, Waits, m
  <1>4. Closing(t)'
    BY <1>1, <1>2 DEF Closing, First, Waits, m
  <1>5. Handling(t)'
    BY <1>1, <1>2 DEF Handling, First, Waits, m
  <1>6. Owned' /\ \A p \in DProgs : Known(p)'
    BY KeptOwners
  <1>7. Opening(t)'
    <2>1. ASSUME NEW i \in 1 .. k, todo'[t][i].op = "return"
          PROVE  /\ phase[t] = "opened"
                 /\ todo'[t][i].x # 0 =>
                      /\ vps[todo'[t][i].x].open /\ vps[todo'[t][i].x].owner = t
                      /\ vps[todo'[t][i].x].handler = 0
      <3>1. i > m
        BY <1>1, <2>1 DEF m
      <3>2. PICK l \in 1 .. n : todo'[t][i] = todo[t][l]
        BY <1>1, <3>1
      <3>3. Opening(t) /\ ~First(t, "make")
        BY DEF CleanInv, First
      <3> QED  BY <2>1, <3>2, <3>3 DEF Opening, n
    <2> QED  BY <1>3, <2>1 DEF Opening, k
  <1>8. Warned'
    <2>1. CASE t # 0
      <3>1. 0 \in DTasks /\ ~Working(0)'
        BY <1>1, <2>1 DEF DTasks
      <3> QED  BY <3>1, Idle
    <2>2. CASE t = 0
      <3>1. ASSUME NEW i \in 1 .. k, todo'[0][i].op = "drop", NEW v, v = todo'[0][i].x
            PROVE  /\ vps[v].handler # 0
                   /\ told'[vps[v].handler] \/ \E j \in 1 .. i - 1 : Exits(j, v)'
        <4>1. i > m
          BY <1>1, <2>2, <3>1 DEF m
        <4>2. i - m + 1 \in 2 .. n /\ todo'[0][i] = todo[0][i - m + 1] /\ v \in DVps
          BY <1>1, <2>2, <3>1, <4>1 DEF Waits
        <4>3. PICK l \in 2 .. n : l = i - m + 1 /\ todo[0][l].op = "drop" /\ todo[0][l].x = v
          BY <3>1, <4>2
        <4>4. /\ vps[v].handler # 0
              /\ told[vps[v].handler] \/ \E j \in 1 .. l - 1 : Exits(j, v)
          BY <2>2, <4>3 DEF CleanInv, Warned, n
        <4>5. CASE told[vps[v].handler]
          BY <4>2, <4>4, <4>5 DEF CalmInv, ViewTypes
        <4>6. ASSUME NEW j \in 1 .. l - 1, Exits(j, v)
              PROVE  told'[vps[v].handler] \/ \E jj \in 1 .. i - 1 : Exits(jj, v)'
          <5>1. CASE j = 1
            <6>1. \/ told'[vps[v].handler]
                  \/ \E jj \in 1 .. m :
                       ops[jj].op \in {"send", "handle"} /\ ops[jj].x = v /\ ops[jj].ev = "exit"
              BY <2>2, <4>2, <4>4, <4>6, <5>1 DEF m
            <6>2. \A jj \in 1 .. m : jj \in 1 .. i - 1 /\ todo'[0][jj] = ops[jj]
              BY <1>1, <2>2, <4>1
            <6> QED  BY <6>1, <6>2 DEF Exits
          <5>2. CASE j # 1
            <6> DEFINE jj == j + m - 1
            <6>1. jj \in 1 .. k /\ jj \in 1 .. i - 1 /\ jj > m /\ jj - m + 1 = j
              <7>1. /\ m \in Nat /\ n \in Nat /\ k = m + n - 1 /\ l \in 2 .. n /\ l = i - m + 1
                    /\ j \in 1 .. l - 1 /\ j # 1 /\ i \in 1 .. k
                BY <1>1, <3>1, <4>3, <4>6, <5>2
              <7>2. \A a, b, c, d, f \in Nat :
                      /\ c \in 2 .. b /\ c = f - a + 1 /\ d \in 1 .. c - 1 /\ d # 1
                      => /\ d + a - 1 \in 1 .. a + b - 1 /\ d + a - 1 \in 1 .. f - 1
                         /\ d + a - 1 > a /\ (d + a - 1) - a + 1 = d
                OBVIOUS
              <7> QED  BY ONLY <7>1, <7>2
            <6>2. todo'[0][jj] = todo[0][j]
              BY <1>1, <2>2, <6>1
            <6>3. Exits(jj, v)'
              BY <4>6, <6>2 DEF Exits
            <6> QED  BY <6>1, <6>3
          <5> QED  BY <5>1, <5>2
        <4> QED  BY <4>4, <4>5, <4>6
      <3> QED  BY <2>2, <3>1 DEF Warned, k
    <2> QED  BY <2>1, <2>2
  <1>9. \A u \in DTasks \ {t} : Opening(u)' /\ Closing(u)' /\ Handling(u)'
    BY <1>1, Idle
  <1> QED  BY <1>4, <1>5, <1>6, <1>7, <1>8, <1>9 DEF CleanInv

LEMMA EndClean ==
    ASSUME CallInv, CallInv', CalmInv, CleanInv,
           DesktopPart!HandleEvent \/ DesktopPart!RestoreTask \/ DesktopPart!EndPass
             \/ DesktopPart!ShiftPlaces
    PROVE  CleanInv'
  <1>1. PICK op \in {"handle", "restore", "unlock", "shift"} :
          /\ DesktopPart!At(op)
          /\ op = "handle" => DesktopPart!HandleEvent
    BY DEF DesktopPart!HandleEvent, DesktopPart!RestoreTask, DesktopPart!EndPass,
       DesktopPart!ShiftPlaces
  <1>2. PICK t \in DTasks :
          /\ t = cur /\ First(t, op) /\ todo[t][1].op = op /\ Leads(t, todo[t], todo[t][1])
          /\ DesktopPart!X = todo[t][1].x /\ DesktopPart!Ev = todo[t][1].ev
    BY <1>1, Reached
  <1>3. /\ DesktopPart!Then(<<>>) /\ UNCHANGED <<live, phase, mine, vps>>
        /\ told' = told \/ \E p : told' = [told EXCEPT ![p] = TRUE]
    BY DEF DesktopPart!HandleEvent, DesktopPart!RestoreTask, DesktopPart!EndPass,
       DesktopPart!ShiftPlaces, DesktopPart!progs, DesktopPart!list
  <1>4. ASSUME NEW v \in DVps, t = 0, Exits(1, v), vps[v].handler # 0
        PROVE  told'[vps[v].handler]
    <2>1. op = "handle" /\ DesktopPart!X = v /\ DesktopPart!Ev = "exit"
      BY <1>1, <1>2, <1>4 DEF Exits
    <2>2. vps[v].handler = mapped /\ told' = [told EXCEPT ![mapped] = TRUE]
      BY <1>1, <2>1 DEF DesktopPart!HandleEvent
    <2>3. mapped \in DProgs
      BY <1>4, <2>2 DEF CalmInv, ViewTypes
    <2> QED  BY <2>2, <2>3 DEF CalmInv, ViewTypes
  <1> DEFINE ops == <<>>
  <1>5. AnySeq(ops) /\ Len(ops) = 0
    BY Literals
  <1>6. DesktopPart!Then(ops)
    BY <1>3
  <1> HIDE DEF ops
  <1>7. /\ \A i \in 1 .. Len(ops) : ops[i].op \in {"tell", "send", "restore", "handle"}
        /\ ~(Len(ops) > 0) /\ op \notin {"make", "drop"}
    BY <1>1, <1>5
  <1> QED  BY <1>2, <1>3, <1>4, <1>5, <1>6, <1>7, CleanStep

LEMMA FrontClean ==
    ASSUME CallInv, CallInv', CalmInv, CleanInv, DesktopPart!MoveToFront
    PROVE  CleanInv'
  <1>1. PICK t \in DTasks : t = cur /\ First(t, "front") /\ todo[t][1].op = "front"
    BY Reached DEF DesktopPart!MoveToFront
  <1>2. /\ UNCHANGED <<live, phase, told, mine, vps>>
        /\ DesktopPart!Then(DesktopPart!FocusOps(DesktopPart!X))
    BY DEF DesktopPart!MoveToFront, DesktopPart!progs
  <1>3. PICK ops :
          /\ DesktopPart!Then(ops) /\ AnySeq(ops)
          /\ \A i \in 1 .. Len(ops) : ops[i].op = "tell"
    <2>1. CASE DesktopPart!X = 0
      <3> DEFINE z == <<>>
      <3>1. AnySeq(z) /\ Len(z) = 0 /\ DesktopPart!Then(z)
        BY <1>2, <2>1, Literals DEF DesktopPart!FocusOps
      <3> HIDE DEF z
      <3>2. \A i \in 1 .. Len(z) : z[i].op = "tell"
        BY <3>1
      <3> QED  BY <3>1, <3>2
    <2>2. CASE DesktopPart!X # 0
      <3> DEFINE z == <<DesktopPart!Tell(0, "focused"), DesktopPart!Tell(1, "unfocused")>>
      <3>1. AnySeq(z) /\ Len(z) = 2 /\ z[1].op = "tell" /\ z[2].op = "tell"
        <4>1. /\ AnySeq(z) /\ Len(z) = 2 /\ z[1] = DesktopPart!Tell(0, "focused")
              /\ z[2] = DesktopPart!Tell(1, "unfocused")
          BY Literals
        <4> QED  BY <4>1, Fields
      <3>2. DesktopPart!Then(z)
        BY <1>2, <2>2 DEF DesktopPart!FocusOps
      <3> HIDE DEF z
      <3>3. \A i \in 1 .. Len(z) : z[i].op = "tell"
        BY <3>1
      <3> QED  BY <3>1, <3>2, <3>3
    <2> QED  BY <2>1, <2>2
  <1>4. \A v : ~Exits(1, v) \/ t # 0
    BY <1>1 DEF Exits
  <1>5. /\ \A i \in 1 .. Len(ops) : ops[i].op \in {"tell", "send", "restore", "handle"}
        /\ ~(Len(ops) > 0 /\ ops[1].op = "handle")
    <2>1. Len(ops) \in Nat
      BY <1>3, Blankness
    <2> QED  BY <1>3, <2>1
  <1> QED  BY <1>1, <1>2, <1>3, <1>4, <1>5, CleanStep

LEMMA TellClean ==
    ASSUME CallInv, CallInv', CalmInv, CleanInv, DesktopPart!TellPlace
    PROVE  CleanInv'
  <1>1. PICK t \in DTasks : t = cur /\ First(t, "tell") /\ todo[t][1].op = "tell"
    BY Reached DEF DesktopPart!TellPlace
  <1>2. UNCHANGED <<live, phase, told, mine, vps>>
    BY DEF DesktopPart!TellPlace, DesktopPart!progs, DesktopPart!list
  <1>3. PICK ops :
          /\ DesktopPart!Then(ops) /\ AnySeq(ops)
          /\ \A i \in 1 .. Len(ops) : ops[i].op = "send"
    <2>1. PICK v, ev : \/ DesktopPart!Then(<<>>)
                       \/ DesktopPart!Then(<<DesktopPart!Send(v, ev)>>)
      BY DEF DesktopPart!TellPlace
    <2>2. CASE DesktopPart!Then(<<>>)
      <3> DEFINE z == <<>>
      <3>1. AnySeq(z) /\ Len(z) = 0 /\ DesktopPart!Then(z)
        BY <2>2, Literals
      <3> HIDE DEF z
      <3>2. \A i \in 1 .. Len(z) : z[i].op = "send"
        BY <3>1
      <3> QED  BY <3>1, <3>2
    <2>3. CASE DesktopPart!Then(<<DesktopPart!Send(v, ev)>>)
      <3> DEFINE z == <<DesktopPart!Send(v, ev)>>
      <3>1. AnySeq(z) /\ Len(z) = 1 /\ z[1].op = "send"
        <4>1. AnySeq(z) /\ Len(z) = 1 /\ z[1] = DesktopPart!Send(v, ev)
          BY Literals
        <4> QED  BY <4>1, Fields
      <3>2. DesktopPart!Then(z)
        BY <2>3
      <3> HIDE DEF z
      <3>3. \A i \in 1 .. Len(z) : z[i].op = "send"
        BY <3>1
      <3> QED  BY <3>1, <3>2, <3>3
    <2> QED  BY <2>1, <2>2, <2>3
  <1>4. \A v : ~Exits(1, v) \/ t # 0
    BY <1>1 DEF Exits
  <1>5. /\ \A i \in 1 .. Len(ops) : ops[i].op \in {"tell", "send", "restore", "handle"}
        /\ ~(Len(ops) > 0 /\ ops[1].op = "handle")
    <2>1. Len(ops) \in Nat
      BY <1>3, Blankness
    <2> QED  BY <1>3, <2>1
  <1> QED  BY <1>1, <1>2, <1>3, <1>4, <1>5, CleanStep

LEMMA DeliverClean ==
    ASSUME CallInv, CallInv', CalmInv, CleanInv, DesktopPart!Deliver
    PROVE  CleanInv'
  <1>1. PICK t \in DTasks :
          /\ t = cur /\ First(t, "send") /\ todo[t][1].op = "send"
          /\ DesktopPart!X = todo[t][1].x /\ DesktopPart!Ev = todo[t][1].ev
          /\ Leads(t, todo[t], todo[t][1])
    BY Reached DEF DesktopPart!Deliver
  <1>2. PICK v \in DVps : v = DesktopPart!X /\ v = todo[t][1].x
    BY <1>1, LeadsTo
  <1>3. PICK ev : ev = DesktopPart!Ev /\ ev = todo[t][1].ev
    BY <1>1
  <1>4. /\ UNCHANGED <<live, phase, told, mine, vps>>
        /\ \/ vps[v].handler = 0 /\ DesktopPart!Then(<<>>)
           \/ /\ vps[v].handler # 0 /\ lock' = TRUE /\ cur' = cur
              /\ runid' = vps[v].owner /\ mapped' = vps[v].owner
              /\ DesktopPart!Then(<<DesktopPart!Handle(v, ev), DesktopPart!Restore>>)
    BY <1>2, <1>3 DEF DesktopPart!Deliver, DesktopPart!progs, DesktopPart!list,
       DesktopPart!Nobody, DesktopPart!Home
  <1>5. \A w : t = 0 /\ Exits(1, w) => w = v /\ ev = "exit"
    BY <1>2, <1>3 DEF Exits
  <1>6. CASE vps[v].handler = 0 /\ DesktopPart!Then(<<>>)
    <2> DEFINE ops == <<>>
    <2>1. AnySeq(ops) /\ Len(ops) = 0 /\ DesktopPart!Then(ops)
      BY <1>6, Literals
    <2> HIDE DEF ops
    <2>2. /\ \A i \in 1 .. Len(ops) : ops[i].op \in {"tell", "send", "restore", "handle"}
          /\ ~(Len(ops) > 0)
      BY <2>1
    <2>3. \A w \in DVps : ~(t = 0 /\ Exits(1, w) /\ vps[w].handler # 0)
      BY <1>5, <1>6
    <2> QED  BY <1>1, <1>4, <2>1, <2>2, <2>3, CleanStep
  <1>7. CASE /\ vps[v].handler # 0 /\ lock' = TRUE /\ cur' = cur
             /\ runid' = vps[v].owner /\ mapped' = vps[v].owner
             /\ DesktopPart!Then(<<DesktopPart!Handle(v, ev), DesktopPart!Restore>>)
    <2> DEFINE ops == <<DesktopPart!Handle(v, ev), DesktopPart!Restore>>
    <2>1. /\ AnySeq(ops) /\ Len(ops) = 2 /\ ops[1].op = "handle" /\ ops[1].x = v
          /\ ops[1].ev = ev /\ ops[2].op = "restore"
      <3>1. /\ AnySeq(ops) /\ Len(ops) = 2 /\ ops[1] = DesktopPart!Handle(v, ev)
            /\ ops[2] = DesktopPart!Restore
        BY Literals
      <3> QED  BY <3>1, Fields
    <2>2. DesktopPart!Then(ops)
      BY <1>7
    <2> HIDE DEF ops
    <2>3. todo'[t][1] = ops[1]
      <3>1. Working(cur)
        BY <1>1 DEF First
      <3>2. \A i \in 1 .. Len(ops) : todo'[cur][i] = ops[i]
        BY ZenonT(60), <2>1, <2>2, <3>1, ThenIs
      <3> QED  BY <1>1, <2>1, <3>2
    <2>4. Handling(t)'
      <3>1. /\ vps[v].owner = vps[v].handler /\ live[vps[v].handler]
            /\ vps[v].handler \in DProgs
        BY <1>7 DEF CleanInv, Owned, CalmInv, ViewTypes
      <3> QED  BY <1>1, <1>4, <1>7, <2>1, <2>3, <3>1 DEF Handling
    <2>5. \A i \in 1 .. Len(ops) : ops[i].op \in {"tell", "send", "restore", "handle"}
      BY <2>1
    <2>6. \A w : t = 0 /\ Exits(1, w) =>
            \E j \in 1 .. Len(ops) :
              ops[j].op \in {"send", "handle"} /\ ops[j].x = w /\ ops[j].ev = "exit"
      BY <1>5, <2>1
    <2> QED  BY <1>1, <1>4, <2>1, <2>2, <2>4, <2>5, <2>6, CleanStep
  <1> QED  BY <1>4, <1>6, <1>7

\* The steps of viewport_open.
LEMMA FindClean ==
    ASSUME CallInv, CallInv', CalmInv, CleanInv, DesktopPart!FindPlace
    PROVE  CleanInv'
  <1>1. PICK t \in DTasks :
          /\ t = cur /\ Working(t) /\ First(t, "find") /\ todo[t][1].op = "find"
          /\ Leads(t, todo[t], todo[t][1]) /\ OneCall /\ Laid(t) /\ ~First(t, "make")
    BY Reached DEF DesktopPart!FindPlace
  <1>2. t # 0 /\ Len(todo[t]) = 1 /\ phase[t] = "opened"
    BY <1>1, LeadsTo DEF CleanInv, Opening
  <1>3. UNCHANGED <<live, phase, told, mine, vps>>
    BY DEF DesktopPart!FindPlace, DesktopPart!progs
  <1>4. PICK n : \/ DesktopPart!Then(<<DesktopPart!Return(0)>>)
                 \/ DesktopPart!Then(<<DesktopPart!Link(n)>>)
    BY DEF DesktopPart!FindPlace, DesktopPart!None
  <1>5. PICK o : /\ DesktopPart!Then(<<o>>)
                 /\ (o.op = "return" /\ o.x = 0) \/ o.op = "link"
    <2>1. DesktopPart!Return(0).op = "return" /\ DesktopPart!Return(0).x = 0
          /\ DesktopPart!Link(n).op = "link"
      BY Fields
    <2> QED  BY <1>4, <2>1
  <1>6. /\ \A u \in DTasks \ {t} : ~Working(u)'
        /\ Len(todo'[t]) = 1 /\ todo'[t][1] = o
    <2> DEFINE ops == <<o>>
    <2>1. AnySeq(ops) /\ Len(ops) = 1 /\ ops[1] = o /\ DesktopPart!Then(ops)
      BY <1>5, Literals
    <2> HIDE DEF ops
    <2> QED  BY SMTT(60), <1>1, <1>2, <2>1, Behind
  <1>7. Owned' /\ \A p \in DProgs : Known(p)'
    BY <1>1, <1>3, KeptOwners
  <1>8. Opening(t)' /\ Closing(t)' /\ Handling(t)'
    <2>1. \A i \in 1 .. Len(todo'[t]) : i = 1
      BY <1>6
    <2> QED  BY <1>2, <1>3, <1>5, <1>6, <2>1 DEF Opening, Closing, Handling, First
  <1>9. Warned' /\ \A u \in DTasks \ {t} : Opening(u)' /\ Closing(u)' /\ Handling(u)'
    <2>1. 0 \in DTasks \ {t}
      BY <1>2 DEF DTasks
    <2> QED  BY <1>6, <2>1, Idle
  <1> QED  BY <1>7, <1>8, <1>9 DEF CleanInv

LEMMA LinkClean ==
    ASSUME CallInv, CallInv', CalmInv, CleanInv, DesktopPart!LinkPlace
    PROVE  CleanInv'
  <1>1. PICK t \in DTasks :
          /\ t = cur /\ Working(t) /\ First(t, "link") /\ todo[t][1].op = "link"
          /\ Leads(t, todo[t], todo[t][1]) /\ OneCall /\ Laid(t) /\ ~First(t, "make")
    BY Reached DEF DesktopPart!LinkPlace
  <1>2. t # 0 /\ Len(todo[t]) = 1 /\ phase[t] = "opened"
    BY <1>1, LeadsTo DEF CleanInv, Opening
  <1>3. UNCHANGED <<live, phase, told, mine, vps>>
    BY DEF DesktopPart!LinkPlace, DesktopPart!progs
  <1>4. PICK v \in DVps : v = DesktopPart!FirstOf(DesktopPart!FreeVps) /\ ~vps[v].open
    <2>1. DesktopPart!FreeVps \in SUBSET Nat /\ DesktopPart!FreeVps # {}
          /\ \A v \in DesktopPart!FreeVps : v \in DVps /\ ~vps[v].open
      BY DEF DesktopPart!LinkPlace, DesktopPart!FreeVps, DesktopPart!Vps, DVps
    <2> QED  BY <2>1, FirstFound
  <1>5. PICK x : x = DesktopPart!X
    OBVIOUS
  <1> DEFINE ops == <<DesktopPart!Make(v), DesktopPart!Front(x), DesktopPart!Return(v)>>
  <1>6. /\ AnySeq(ops) /\ Len(ops) = 3 /\ DesktopPart!Then(ops)
        /\ ops[1].op = "make" /\ ops[1].x = v /\ ops[2].op = "front" /\ ops[3].op = "return"
    <2>1. /\ AnySeq(ops) /\ Len(ops) = 3 /\ ops[1] = DesktopPart!Make(v)
          /\ ops[2] = DesktopPart!Front(x) /\ ops[3] = DesktopPart!Return(v)
      BY Literals
    <2>2. DesktopPart!Then(ops)
      BY <1>4, <1>5 DEF DesktopPart!LinkPlace
    <2> QED  BY <2>1, <2>2, Fields
  <1> HIDE DEF ops
  <1>7. /\ \A u \in DTasks \ {t} : ~Working(u)'
        /\ Len(todo'[t]) = 3 /\ todo'[t][1] = ops[1]
    <2>1. /\ \A u \in DTasks \ {t} : ~Working(u)'
          /\ Len(todo'[t]) = Len(ops) + Len(todo[t]) - 1
          /\ \A i \in 1 .. Len(ops) : todo'[t][i] = ops[i]
      BY SMTT(60), <1>1, <1>6, Behind
    <2> QED  BY <1>2, <1>6, <2>1
  <1>8. Owned' /\ \A p \in DProgs : Known(p)'
    BY <1>1, <1>3, KeptOwners
  <1>9. First(t, "make")' /\ todo'[t][1].x = v
    BY <1>6, <1>7 DEF First, Working
  <1>10. Opening(t)' /\ Closing(t)' /\ Handling(t)'
    BY <1>2, <1>3, <1>4, <1>9 DEF Opening, Closing, Handling, First
  <1>11. Warned' /\ \A u \in DTasks \ {t} : Opening(u)' /\ Closing(u)' /\ Handling(u)'
    <2>1. 0 \in DTasks \ {t}
      BY <1>2 DEF DTasks
    <2> QED  BY <1>7, <2>1, Idle
  <1> QED  BY <1>8, <1>10, <1>11 DEF CleanInv

LEMMA MakeClean ==
    ASSUME CallInv, CallInv', CalmInv, CleanInv, DesktopPart!MakeViewport
    PROVE  CleanInv'
  <1>1. PICK t \in DTasks :
          /\ t = cur /\ Working(t) /\ First(t, "make") /\ todo[t][1].op = "make"
          /\ DesktopPart!X = todo[t][1].x /\ Leads(t, todo[t], todo[t][1]) /\ OneCall
    BY Reached DEF DesktopPart!MakeViewport
  <1>2. PICK v \in DVps : v = DesktopPart!X /\ v = todo[t][1].x
    BY <1>1, LeadsTo
  <1>3. /\ vps' = [vps EXCEPT ![v] = [open |-> TRUE, owner |-> runid, handler |-> 0]]
        /\ DesktopPart!Then(<<>>) /\ UNCHANGED <<live, phase, told, mine>>
    BY <1>2 DEF DesktopPart!MakeViewport, DesktopPart!progs, DesktopPart!Nobody
  <1>4. runid = t
    BY <1>1, Step1 DEF DesktopPart!MakeViewport, Borrowed
  <1>5. /\ vps'[v].open /\ vps'[v].owner = t /\ vps'[v].handler = 0
        /\ \A w \in DVps \ {v} : vps'[w] = vps[w]
    BY <1>3, <1>4 DEF CalmInv, ViewTypes
  <1>6. t # 0 /\ Len(todo[t]) = 3 /\ todo[t][2].op = "front"
        /\ todo[t][3].op = "return" /\ todo[t][3].x = v
    BY <1>1, <1>2, LeadsTo
  <1>7. phase[t] = "opened" /\ ~vps[v].open
    BY <1>1, <1>2 DEF CleanInv, Opening
  <1>8. /\ \A u \in DTasks \ {t} : todo'[u] = todo[u] /\ ~Working(u)'
        /\ Len(todo'[t]) = 2 /\ todo'[t][1] = todo[t][2] /\ todo'[t][2] = todo[t][3]
    <2> DEFINE ops == <<>>
    <2>1. AnySeq(ops) /\ Len(ops) = 0 /\ DesktopPart!Then(ops)
      BY <1>3, Literals
    <2> HIDE DEF ops
    <2>2. /\ \A u \in DTasks \ {t} : todo'[u] = todo[u]
          /\ Len(todo'[t]) = Len(ops) + Len(todo[t]) - 1
          /\ \A i \in 1 .. Len(todo'[t]) : i > Len(ops) => todo'[t][i] = todo[t][i - Len(ops) + 1]
      BY SMTT(60), <1>1, <2>1, ThenIs
    <2>3. \A u \in DTasks \ {t} : ~Working(u)'
      BY <1>1, <2>2 DEF OneCall, Working
    <2> QED  BY <1>6, <2>1, <2>2, <2>3
  <1>9. \A u \in DTasks : ~First(u, "drop")
    BY <1>1 DEF OneCall, First
  <1>10. vps[v].handler = 0
    BY <1>7 DEF CleanInv, Owned
  <1>11. Owned'
    <2>1. ASSUME NEW w \in DVps, vps'[w].handler # 0
          PROVE  /\ vps'[w].open /\ vps'[w].owner = vps'[w].handler
                 /\ mine'[vps'[w].handler] = w /\ live'[vps'[w].handler]
                 /\ phase'[vps'[w].handler] = "running"
      <3>1. w # v /\ vps'[w] = vps[w]
        BY <1>5, <2>1
      <3>2. vps[w].handler \in DTasks
        BY DEF CalmInv, ViewTypes, DTasks
      <3> QED  BY <1>3, <1>9, <2>1, <3>1, <3>2 DEF CleanInv, Owned
    <2> QED  BY <2>1 DEF Owned
  <1>12. ASSUME NEW p \in DProgs PROVE Known(p)'
    <2>1. Known(p) /\ (mine[p] # 0 => mine[p] \in DVps)
      BY DEF CleanInv, CalmInv, ViewTypes
    <2>2. mine[p] # 0 /\ mine[p] # v => vps'[mine[p]] = vps[mine[p]]
      BY <1>5, <2>1
    <2>3. mine[p] = v => vps[mine[p]].open = FALSE /\ vps[mine[p]].handler = 0
      BY <1>7, <1>10 DEF CalmInv, ViewTypes
    <2>4. 0 \notin DProgs
      BY DEF DProgs
    <2> QED  BY <1>3, <2>1, <2>2, <2>3, <2>4 DEF Known
  <1>13. Opening(t)'
    <2>1. ~First(t, "find")' /\ ~First(t, "link")' /\ ~First(t, "make")'
      BY <1>6, <1>8 DEF First
    <2>2. ASSUME NEW i \in 1 .. Len(todo'[t]), todo'[t][i].op = "return"
          PROVE  todo'[t][i].x = v
      <3>1. i = 1 \/ i = 2
        BY <1>8
      <3> QED  BY <1>6, <1>8, <2>2, <3>1
    <2> QED  BY <1>3, <1>5, <1>7, <2>1, <2>2 DEF Opening
  <1>14. Closing(t)' /\ Handling(t)'
    BY <1>6, <1>8 DEF Closing, Handling, First
  <1>15. Warned' /\ \A u \in DTasks \ {t} : Opening(u)' /\ Closing(u)' /\ Handling(u)'
    <2>1. 0 \in DTasks \ {t}
      BY <1>6 DEF DTasks
    <2> QED  BY <1>8, <2>1, Idle
  <1> QED  BY <1>11, <1>12, <1>13, <1>14, <1>15 DEF CleanInv

LEMMA ReturnClean ==
    ASSUME CallInv, CallInv', CalmInv, CleanInv, DesktopPart!ReturnViewport
    PROVE  CleanInv'
  <1>1. PICK t \in DTasks :
          /\ t = cur /\ Working(t) /\ First(t, "return") /\ todo[t][1].op = "return"
          /\ DesktopPart!X = todo[t][1].x /\ Leads(t, todo[t], todo[t][1])
          /\ OneCall /\ ~First(t, "make") /\ Len(todo[t]) \in Nat
    BY Reached DEF DesktopPart!ReturnViewport
  <1>2. PICK x \in DVps \cup {0} : x = DesktopPart!X /\ x = todo[t][1].x
    BY <1>1, LeadsTo
  <1>3. t \in DProgs /\ t # 0 /\ Len(todo[t]) - 1 = 0
    BY <1>1, LeadsTo DEF DTasks
  <1>4. /\ mine' = [mine EXCEPT ![t] = x] /\ DesktopPart!Then(<<>>)
        /\ UNCHANGED <<live, phase, told, vps>>
    BY <1>1, <1>2 DEF DesktopPart!ReturnViewport, DesktopPart!list
  <1>5. /\ phase[t] = "opened"
        /\ x # 0 => vps[x].open /\ vps[x].owner = t /\ vps[x].handler = 0
    <2>1. 1 \in 1 .. Len(todo[t])
      BY <1>1 DEF Working
    <2> QED  BY <1>1, <1>2, <2>1 DEF CleanInv, Opening
  <1>6. \A u \in DTasks : ~Working(u)'
    <2> DEFINE ops == <<>>
    <2>1. AnySeq(ops) /\ Len(ops) = 0 /\ DesktopPart!Then(ops)
      BY <1>4, Literals
    <2> HIDE DEF ops
    <2>2. /\ \A u \in DTasks \ {t} : todo'[u] = todo[u]
          /\ Len(todo'[t]) = Len(ops) + Len(todo[t]) - 1
      BY SMTT(60), <1>1, <2>1, ThenIs
    <2>3. Len(todo'[t]) = 0
      BY <1>1, <1>3, <2>1, <2>2
    <2> QED  BY <1>1, <2>2, <2>3 DEF OneCall, Working
  <1>7. \A u \in DTasks : ~First(u, "drop")
    BY <1>1 DEF OneCall, First
  <1>8. \A p \in DProgs : mine'[p] = IF p = t THEN x ELSE mine[p]
    BY <1>4 DEF CalmInv, ViewTypes
  <1>9. Owned'
    <2>1. ASSUME NEW w \in DVps, vps[w].handler # 0
          PROVE  /\ vps[w].open /\ vps[w].owner = vps[w].handler
                 /\ mine'[vps[w].handler] = w /\ live[vps[w].handler]
                 /\ phase[vps[w].handler] = "running"
      <3>1. vps[w].handler \in DProgs /\ vps[w].handler \in DTasks
        BY <2>1 DEF CalmInv, ViewTypes, DTasks
      <3>2. /\ vps[w].open /\ vps[w].owner = vps[w].handler
            /\ mine[vps[w].handler] = w /\ live[vps[w].handler]
            /\ phase[vps[w].handler] = "running"
        BY <1>7, <2>1, <3>1 DEF CleanInv, Owned
      <3> QED  BY <1>5, <1>8, <3>1, <3>2
    <2>2. \A w \in DVps : vps'[w].handler # 0 =>
                 /\ vps'[w].open /\ vps'[w].owner = vps'[w].handler
                 /\ mine'[vps'[w].handler] = w /\ live'[vps'[w].handler]
                 /\ phase'[vps'[w].handler] = "running"
      BY <1>4, <2>1
    <2> QED  BY <2>2 DEF Owned
  <1>10. ASSUME NEW p \in DProgs PROVE Known(p)'
    <2>1. Known(p)
      BY DEF CleanInv
    <2>2. CASE p = t
      BY <1>4, <1>5, <1>8, <2>2 DEF Known
    <2>3. CASE p # t
      BY <1>4, <1>8, <2>1, <2>3 DEF Known
    <2> QED  BY <2>2, <2>3
  <1>11. 0 \in DTasks
    BY DEF DTasks
  <1> QED  BY <1>6, <1>9, <1>10, <1>11, Idle DEF CleanInv

LEMMA DropClean ==
    ASSUME CallInv, CallInv', CalmInv, CleanInv, DesktopPart!DropPlace
    PROVE  CleanInv'
  <1>1. PICK t \in DTasks :
          /\ t = cur /\ Working(t) /\ First(t, "drop") /\ todo[t][1].op = "drop"
          /\ DesktopPart!X = todo[t][1].x /\ Leads(t, todo[t], todo[t][1])
          /\ OneCall /\ Laid(t) /\ ~First(t, "make") /\ Len(todo[t]) \in Nat
    BY Reached DEF DesktopPart!DropPlace
  <1>2. PICK v \in DVps : v = DesktopPart!X /\ v = todo[t][1].x
    BY <1>1, LeadsTo
  <1>3. /\ vps' = [vps EXCEPT ![v].open = FALSE, ![v].handler = 0]
        /\ UNCHANGED <<live, phase, told, mine>>
    BY <1>2 DEF DesktopPart!DropPlace, DesktopPart!progs, DesktopPart!Nobody
  <1>4. /\ vps'[v].open = FALSE /\ vps'[v].handler = 0
        /\ \A w \in DVps \ {v} : vps'[w] = vps[w]
    <2>1. vps \in [DVps -> [open : BOOLEAN, owner : DTasks, handler : DProgs \cup {0}]]
      BY DEF CalmInv, ViewTypes
    <2>2. vps[v] \in [open : BOOLEAN, owner : DTasks, handler : DProgs \cup {0}]
      BY <2>1
    <2>3. vps' = [vps EXCEPT ![v] = [[vps[v] EXCEPT !.open = FALSE] EXCEPT !.handler = 0]]
      BY <1>3, <2>1
    <2>4. vps'[v] = [[vps[v] EXCEPT !.open = FALSE] EXCEPT !.handler = 0]
          /\ \A w \in DVps \ {v} : vps'[w] = vps[w]
      BY <2>1, <2>3
    <2> QED  BY <2>2, <2>4
  <1>5. PICK ops :
          /\ AnySeq(ops) /\ DesktopPart!Then(ops)
          /\ \A i \in 1 .. Len(ops) : ops[i].op \in {"shift", "tell"}
    <2>1. PICK n : \/ DesktopPart!Then(<<>>)
                   \/ DesktopPart!Then(<<DesktopPart!Shift(n), DesktopPart!Tell(0, "focused")>>)
      BY DEF DesktopPart!DropPlace
    <2>2. CASE DesktopPart!Then(<<>>)
      <3> DEFINE z == <<>>
      <3>1. AnySeq(z) /\ Len(z) = 0 /\ DesktopPart!Then(z)
        BY <2>2, Literals
      <3> HIDE DEF z
      <3>2. \A i \in 1 .. Len(z) : z[i].op \in {"shift", "tell"}
        BY <3>1
      <3> QED  BY <3>1, <3>2
    <2>3. CASE DesktopPart!Then(<<DesktopPart!Shift(n), DesktopPart!Tell(0, "focused")>>)
      <3> DEFINE z == <<DesktopPart!Shift(n), DesktopPart!Tell(0, "focused")>>
      <3>1. AnySeq(z) /\ Len(z) = 2 /\ z[1].op = "shift" /\ z[2].op = "tell"
        <4>1. /\ AnySeq(z) /\ Len(z) = 2 /\ z[1] = DesktopPart!Shift(n)
              /\ z[2] = DesktopPart!Tell(0, "focused")
          BY Literals
        <4> QED  BY <4>1, Fields
      <3>2. DesktopPart!Then(z)
        BY <2>3
      <3> HIDE DEF z
      <3>3. \A i \in 1 .. Len(z) : z[i].op \in {"shift", "tell"}
        BY <3>1
      <3> QED  BY <3>1, <3>2, <3>3
    <2> QED  BY <2>1, <2>2, <2>3
  <1> DEFINE m == Len(ops)
             k == Len(todo'[t])
  \* Behind it the desktop has only the end of its pass, a program nothing.
  <1>6. /\ \A u \in DTasks \ {t} : ~Working(u)'
        /\ m \in Nat /\ k \in Nat
        /\ \A i \in 1 .. m : todo'[t][i] = ops[i]
        /\ \A i \in 1 .. k : i > m => t = 0 /\ Waits(0, todo'[t][i], 0)
    <2> DEFINE n == Len(todo[t])
    <2>1. /\ \A u \in DTasks \ {t} : ~Working(u)'
          /\ m \in Nat /\ n \in Nat \ {0} /\ k \in Nat /\ k = m + n - 1
          /\ \A i \in 1 .. m : todo'[t][i] = ops[i]
          /\ \A i \in 1 .. k : i > m => Waits(t, todo'[t][i], k - i)
      BY SMTT(60), <1>1, <1>5, Behind
    <2>2. (t # 0 => n = 1 \/ n - 1 = 1) /\ (t = 0 => n - 1 = 1)
      BY <1>1, LeadsTo
    <2>3. t # 0 => n = 1
      BY <1>1, <2>1, <2>2 DEF Leads, Waits
    <2> HIDE DEF m, n, k
    <2>4. ASSUME NEW i \in 1 .. k, i > m PROVE t = 0 /\ k - i = 0
      BY <2>1, <2>2, <2>3, <2>4
    <2>5. ASSUME NEW i \in 1 .. k, i > m PROVE t = 0 /\ Waits(0, todo'[t][i], 0)
      BY <2>1, <2>4, <2>5
    <2> QED  BY <2>1, <2>5
  <1> HIDE DEF m, k
  <1>7. ASSUME NEW i \in 1 .. k
        PROVE  todo'[t][i].op \in {"shift", "tell", "send", "unlock", "restore"}
    <2>1. CASE i > m
      BY <1>6, <2>1 DEF Waits
    <2>2. CASE ~(i > m)
      <3>1. i \in 1 .. m
        BY <1>6, <2>2
      <3> QED  BY <1>5, <1>6, <3>1 DEF m
    <2> QED  BY <2>1, <2>2
  <1>8. /\ Opening(t)' /\ Closing(t)' /\ Handling(t)'
        /\ t = 0 => Warned'
    <2>1. Working(t)' => 1 \in 1 .. k
      BY <1>6 DEF Working, k
    <2>2. \A o \in {"find", "link", "make", "drop", "handle"} : ~First(t, o)'
      BY <1>7, <2>1 DEF First
    <2>3. \A i \in 1 .. Len(todo'[t]) : todo'[t][i].op # "return" /\ todo'[t][i].op # "drop"
      BY <1>7 DEF k
    <2> QED  BY <2>2, <2>3 DEF Opening, Closing, Handling, Warned
  <1>9. Warned' /\ \A u \in DTasks : Opening(u)' /\ Closing(u)' /\ Handling(u)'
    <2>1. 0 \in DTasks
      BY DEF DTasks
    <2> QED  BY <1>6, <1>8, <2>1, Idle
  \* The one whose viewport it is closes it itself, or has been told to exit.
  <1>10. ASSUME NEW p \in DProgs, vps[v].handler = p
         PROVE  /\ vps[v].open /\ vps[v].owner = p /\ mine[p] = v
                /\ told[p] \/ phase[p] # "running"
    <2>1. 0 \notin DProgs
      BY DEF DProgs
    <2>2. vps[v].open /\ vps[v].owner = p /\ mine[p] = v
      BY <1>10, <2>1 DEF CleanInv, Owned
    <2>3. CASE t = 0
      <3>1. 1 \in 1 .. Len(todo[0]) /\ \A j \in 1 .. 1 - 1 : FALSE
        BY <1>1, <2>3 DEF Working
      <3>2. told[p]
        BY <1>1, <1>2, <1>10, <2>3, <3>1 DEF CleanInv, Warned
      <3> QED  BY <2>2, <3>2
    <2>4. CASE t # 0
      <3>1. phase[t] = "closed" /\ mine[t] = v /\ (vps[v].open => vps[v].owner = t)
        BY <1>1, <1>2, <2>4 DEF CleanInv, Closing
      <3> QED  BY <2>2, <3>1
    <2> QED  BY <2>3, <2>4
  <1>11. Owned'
    <2>1. ASSUME NEW w \in DVps, vps'[w].handler # 0
          PROVE  /\ vps'[w].open /\ vps'[w].owner = vps'[w].handler
                 /\ mine'[vps'[w].handler] = w /\ live'[vps'[w].handler]
                 /\ phase'[vps'[w].handler] = "running"
      <3>1. w # v /\ vps'[w] = vps[w]
        BY <1>4, <2>1
      <3>2. PICK h \in DProgs : h = vps[w].handler
        BY <2>1, <3>1 DEF CalmInv, ViewTypes
      <3>3. h \in DTasks /\ 0 \notin DProgs
        BY DEF DTasks, DProgs
      <3>4. ~(First(h, "drop") /\ todo[h][1].x = w)
        BY <1>1, <1>2, <3>1, <3>3 DEF OneCall, First
      <3> QED  BY <1>3, <2>1, <3>1, <3>2, <3>3, <3>4 DEF CleanInv, Owned
    <2> QED  BY <2>1 DEF Owned
  <1>12. ASSUME NEW p \in DProgs PROVE Known(p)'
    <2>1. Known(p) /\ (mine[p] # 0 => mine[p] \in DVps)
      BY DEF CleanInv, CalmInv, ViewTypes
    <2>2. mine[p] # 0 /\ mine[p] # v => vps'[mine[p]] = vps[mine[p]]
      BY <1>4, <2>1
    <2>3. CASE mine[p] # v
      BY <1>3, <2>1, <2>2, <2>3 DEF Known
    <2>4. CASE mine[p] = v
      <3>1. v # 0
        BY DEF DVps
      <3>2. phase[p] # "opened"
        <4> SUFFICES ASSUME phase[p] = "opened" PROVE FALSE
          OBVIOUS
        <4>1. vps[v].open /\ vps[v].owner = p /\ vps[v].handler = 0
          BY <2>1, <2>4, <3>1 DEF Known
        <4>2. CASE t = 0
          <5>1. 1 \in 1 .. Len(todo[0])
            BY <1>1, <4>2 DEF Working
          <5> QED  BY <1>1, <1>2, <4>1, <4>2, <5>1 DEF CleanInv, Warned
        <4>3. CASE t # 0
          BY <1>1, <1>2, <4>1, <4>3 DEF CleanInv, Closing
        <4> QED  BY <4>2, <4>3
      <3>3. phase[p] = "running" /\ live[p] => told[p]
        BY <1>10, <2>1, <2>4 DEF Known
      <3> QED  BY <1>3, <2>1, <2>4, <3>1, <3>2, <3>3 DEF Known
    <2> QED  BY <2>3, <2>4
  <1> QED  BY <1>9, <1>11, <1>12 DEF CleanInv

LEMMA StepClean ==
    ASSUME CallInv, CallInv', CalmInv, CleanInv, DesktopPart!Step
    PROVE  CleanInv'
  BY FindClean, LinkClean, MakeClean, ReturnClean, FrontClean, DropClean, TellClean, DeliverClean,
     EndClean DEF DesktopPart!Step
-----------------------------------------------------------------------------
(* The owners, when a call begins and when no call goes on.                *)

\* What has happened is not forgotten.
LEMMA Grows ==
    ASSUME DesktopPart!Next
    PROVE  marks \subseteq marks'
  BY DEF DesktopPart!Next, DesktopPart!Step, DesktopPart!FindPlace, DesktopPart!LinkPlace,
     DesktopPart!MakeViewport, DesktopPart!ReturnViewport, DesktopPart!MoveToFront,
     DesktopPart!DropPlace, DesktopPart!ShiftPlaces, DesktopPart!TellPlace, DesktopPart!Deliver,
     DesktopPart!HandleEvent, DesktopPart!RestoreTask, DesktopPart!EndPass, DesktopPart!Click,
     DesktopPart!Start, DesktopPart!Open, DesktopPart!AddHandler, DesktopPart!Close,
     DesktopPart!End, DesktopPart!Kill, DesktopPart!Switch

\* The desktop opens nothing and closes nothing of its own.
LEMMA DesktopIsNoProgram ==
    ASSUME CallInv', Laid(0)'
    PROVE  Opening(0)' /\ Closing(0)'
  <1>1. ASSUME NEW i \in 1 .. Len(todo'[0]) PROVE todo'[0][i].op # "return"
    <2>1. Len(todo'[0]) \in Nat
      BY DEF CallInv, DTasks
    <2>2. Working(0)'
      BY <2>1 DEF Working
    <2>3. CASE i = 1
      BY <2>2, <2>3 DEF Laid, Leads, Waits
    <2>4. CASE i # 1
      BY <2>1, <2>2, <2>4 DEF Laid, Leads, Waits, First
    <2> QED  BY <2>3, <2>4
  <1>2. ~First(0, "find")' /\ ~First(0, "link")' /\ ~First(0, "make")'
    BY DEF Laid, Leads, Waits, First
  <1> QED  BY <1>1, <1>2 DEF Opening, Closing

LEMMA ClickClean ==
    ASSUME CallInv, CallInv', CalmInv, CalmInv', CleanInv, marks' = {}, DesktopPart!Click
    PROVE  CleanInv'
  <1>1. cur = 0 /\ 0 \in DTasks /\ UNCHANGED <<live, phase, told, mine, vps>>
    BY DEF DesktopPart!Click, DesktopPart!D, DesktopPart!progs, DesktopPart!list, DTasks
  <1>2. PICK e, v, ops :
          /\ e \in DPlaces /\ v \in DVps
          /\ AnySeq(ops) /\ DesktopPart!Call(ops) /\ ops[1] = DesktopPart!Front(e)
          /\ \/ Len(ops) = 2 /\ ops[2] = DesktopPart!Unlock
             \/ /\ Len(ops) = 4 /\ ops[2] = DesktopPart!Send(v, "exit")
                /\ ops[3] = DesktopPart!Drop(v) /\ ops[4] = DesktopPart!Unlock
                /\ marks' = {} => vps[v].handler # 0
    BY ClickIs
  <1>3. /\ ops[1].op = "front"
        /\ \/ Len(ops) = 2 /\ ops[2].op = "unlock"
           \/ /\ Len(ops) = 4 /\ ops[2].op = "send" /\ ops[2].x = v /\ ops[2].ev = "exit"
              /\ ops[3].op = "drop" /\ ops[3].x = v /\ ops[4].op = "unlock"
              /\ vps[v].handler # 0
    BY <1>2, Fields
  <1>4. todo'[0] = ops /\ \A u \in DTasks \ {0} : todo'[u] = todo[u]
    BY <1>1, <1>2, CallIs
  <1>5. \A u \in DTasks \ {0} : ~Working(u)
    <2>1. DesktopPart!Overlaps \subseteq marks' /\ Calm'
      BY DEF DesktopPart!Click, Calm
    <2> QED  BY <1>1, <2>1, Alone
  <1>6. \A u \in DTasks \ {0} : Opening(u)' /\ Closing(u)' /\ Handling(u)'
    BY <1>4, <1>5, Idle DEF Working
  <1>7. Opening(0)' /\ Closing(0)'
    BY <1>1, DesktopIsNoProgram DEF CalmInv
  <1>8. Handling(0)'
    BY <1>3, <1>4 DEF Handling, First
  <1>9. Warned'
    <2>1. ASSUME NEW i \in 1 .. Len(ops), ops[i].op = "drop"
          PROVE  i = 3 /\ ops[i].x = v /\ vps[v].handler # 0 /\ Exits(2, v)'
      <3>1. i = 3 /\ Len(ops) = 4
        <4>1. CASE Len(ops) = 2
          <5>1. i = 1 \/ i = 2
            BY <4>1
          <5> QED  BY <1>3, <2>1, <4>1, <5>1
        <4>2. CASE Len(ops) = 4
          <5>1. i = 1 \/ i = 2 \/ i = 3 \/ i = 4
            BY <4>2
          <5> QED  BY <1>3, <2>1, <4>2, <5>1
        <4> QED  BY <1>3, <4>1, <4>2
      <3>2. ops[2].op = "send" /\ ops[2].x = v /\ ops[2].ev = "exit"
        BY <1>3, <3>1
      <3> QED  BY <1>3, <1>4, <3>1, <3>2 DEF Exits
    <2>2. 2 \in 1 .. 3 - 1
      OBVIOUS
    <2>3. \A i \in 1 .. Len(todo'[0]) : todo'[0][i].op = "drop" =>
             /\ todo'[0][i].x = v /\ vps'[v].handler # 0
             /\ \E j \in 1 .. i - 1 : Exits(j, v)'
      BY <1>1, <1>4, <2>1, <2>2
    <2> QED  BY <2>3 DEF Warned
  <1>10. Owned' /\ \A p \in DProgs : Known(p)'
    <2>1. \A h \in DTasks : ~First(h, "drop") \/ h = 0
      BY <1>5 DEF First
    <2>2. ASSUME NEW w \in DVps, vps[w].handler # 0
          PROVE  /\ vps[w].open /\ vps[w].owner = vps[w].handler
                 /\ mine[vps[w].handler] = w /\ live[vps[w].handler]
                 /\ phase[vps[w].handler] = "running"
      <3>1. vps[w].handler \in DTasks
        BY DEF CalmInv, ViewTypes, DTasks
      <3> QED  BY <2>1, <2>2, <3>1 DEF CleanInv, Owned
    <2>3. \A w \in DVps : vps'[w].handler # 0 =>
                 /\ vps'[w].open /\ vps'[w].owner = vps'[w].handler
                 /\ mine'[vps'[w].handler] = w /\ live'[vps'[w].handler]
                 /\ phase'[vps'[w].handler] = "running"
      BY <1>1, <2>2
    <2>4. \A p \in DProgs : Known(p) <=> Known(p)'
      BY <1>1 DEF Known
    <2> QED  BY <2>3, <2>4 DEF Owned, CleanInv
  <1> QED  BY <1>6, <1>7, <1>8, <1>9, <1>10 DEF CleanInv

LEMMA StartClean ==
    ASSUME CallInv, CallInv', CalmInv, CalmInv', CleanInv,
           NEW p \in DProgs, DesktopPart!Start(p)
    PROVE  CleanInv'
  <1>1. /\ ~live[p] /\ UNCHANGED <<vps, cur, lock, runid, mapped>>
        /\ live' = [live EXCEPT ![p] = TRUE] /\ phase' = [phase EXCEPT ![p] = "new"]
        /\ mine' = [mine EXCEPT ![p] = 0] /\ told' = [told EXCEPT ![p] = FALSE]
        /\ todo' = [todo EXCEPT ![p] = <<>>]
    BY DEF DesktopPart!Start, DesktopPart!list, DesktopPart!cpu, DesktopPart!None
  <1>2. p \in DTasks /\ p # 0 /\ 0 \in DTasks
    BY DEF DTasks, DProgs
  <1>3. ~Working(p)' /\ \A t \in DTasks \ {p} : todo'[t] = todo[t]
    <2>1. todo'[p] = <<>> /\ Len(<<>>) = 0
      BY <1>1, <1>2, Literals DEF CallInv
    <2> QED  BY <1>1, <2>1 DEF CallInv, Working
  <1>4. /\ live'[p] /\ phase'[p] = "new" /\ mine'[p] = 0
        /\ \A q \in DProgs \ {p} : /\ live'[q] = live[q] /\ phase'[q] = phase[q]
                                   /\ mine'[q] = mine[q] /\ told'[q] = told[q]
    BY <1>1 DEF CalmInv, ViewTypes
  <1>5. \A w \in DVps : vps[w].handler # 0 => vps[w].handler \in DProgs \ {p}
    <2>1. ASSUME NEW w \in DVps, vps[w].handler # 0 PROVE vps[w].handler \in DProgs \ {p}
      <3>1. live[vps[w].handler] /\ vps[w].handler \in DProgs
        BY <2>1 DEF CleanInv, Owned, CalmInv, ViewTypes
      <3> QED  BY <1>1, <3>1
    <2> QED  BY <2>1
  <1>6. Owned'
    <2>1. ASSUME NEW w \in DVps, NEW h, h = vps[w].handler, h # 0
          PROVE  /\ vps[w].open /\ vps[w].owner = h /\ mine'[h] = w /\ live'[h]
                 /\ \/ phase'[h] = "running"
                    \/ phase'[h] = "closed" /\ First(h, "drop")' /\ todo'[h][1].x = w
      <3>1. h \in DProgs \ {p} /\ h \in DTasks \ {p}
        BY <1>5, <2>1 DEF DTasks
      <3>2. /\ vps[w].open /\ vps[w].owner = h /\ mine[h] = w /\ live[h]
            /\ \/ phase[h] = "running"
               \/ phase[h] = "closed" /\ First(h, "drop") /\ todo[h][1].x = w
        BY <2>1 DEF CleanInv, Owned
      <3>3. todo'[h] = todo[h] /\ (First(h, "drop") => First(h, "drop")')
        BY <1>3, <3>1 DEF First, Working
      <3> QED  BY <1>4, <3>1, <3>2, <3>3
    <2> QED  BY <1>1, <2>1 DEF Owned
  <1>7. ASSUME NEW q \in DProgs PROVE Known(q)'
    <2>1. Known(q)
      BY DEF CleanInv
    <2>2. CASE q = p
      BY <1>1, <1>4, <2>2 DEF Known
    <2>3. CASE q # p
      BY <1>1, <1>4, <2>1, <2>3 DEF Known
    <2> QED  BY <2>2, <2>3
  <1>8. Warned'
    <2>1. todo'[0] = todo[0] /\ \A j, w : Exits(j, w) => Exits(j, w)'
      BY <1>2, <1>3 DEF Exits
    <2>2. ASSUME NEW i \in 1 .. Len(todo[0]), todo[0][i].op = "drop", NEW w, w = todo[0][i].x
          PROVE  /\ vps[w].handler # 0
                 /\ told'[vps[w].handler] \/ \E j \in 1 .. i - 1 : Exits(j, w)
      <3>1. vps[w].handler # 0 /\ (told[vps[w].handler] \/ \E j \in 1 .. i - 1 : Exits(j, w))
        BY <2>2 DEF CleanInv, Warned
      <3>2. w \in DVps
        <4>1. Laid(0) /\ Len(todo[0]) \in Nat
          BY <1>2 DEF CalmInv, CallInv
        <4>2. Working(0)
          BY <4>1 DEF Working
        <4>3. i = 1 \/ i \in 2 .. Len(todo[0])
          BY <4>1
        <4> QED  BY <2>2, <4>1, <4>2, <4>3 DEF Laid, Leads, Waits, First
      <3> QED  BY <1>4, <1>5, <3>1, <3>2
    <2> QED  BY <1>1, <2>1, <2>2 DEF Warned
  <1>9. ASSUME NEW t \in DTasks PROVE Opening(t)' /\ Closing(t)' /\ Handling(t)'
    <2>1. CASE t = p
      BY <1>3, <2>1, Idle
    <2>2. CASE t # p /\ t # 0
      <3>1. t \in DProgs \ {p} /\ todo'[t] = todo[t] /\ \A op : First(t, op)' <=> First(t, op)
        BY <1>3, <2>2 DEF DTasks, First, Working
      <3>2. Opening(t) /\ Closing(t) /\ Handling(t)
        BY DEF CleanInv
      <3>3. Opening(t)'
        BY <1>1, <1>4, <3>1, <3>2 DEF Opening
      <3>4. Closing(t)'
        BY <1>1, <1>4, <3>1, <3>2 DEF Closing
      <3>5. Handling(t)'
        BY <1>1, <1>4, <3>1, <3>2 DEF Handling
      <3> QED  BY <3>3, <3>4, <3>5
    <2>3. CASE t = 0
      <3>1. Opening(t)' /\ Closing(t)'
        BY <2>3, DesktopIsNoProgram DEF CalmInv
      <3>2. Handling(t) /\ todo'[t] = todo[t]
        BY <1>2, <1>3, <2>3 DEF CleanInv
      <3>3. Handling(t)'
        BY <1>1, <1>4, <3>2 DEF Handling, First, Working
      <3> QED  BY <3>1, <3>3
    <2> QED  BY <2>1, <2>2, <2>3
  <1> QED  BY <1>6, <1>7, <1>8, <1>9 DEF CleanInv

LEMMA OpenClean ==
    ASSUME CallInv, CallInv', CalmInv, CleanInv, marks' = {},
           NEW p \in DProgs, DesktopPart!Open(p)
    PROVE  CleanInv'
  <1>1. /\ p = cur /\ p \in DTasks /\ p # 0 /\ phase[p] = "new"
        /\ phase' = [phase EXCEPT ![p] = "opened"] /\ UNCHANGED <<live, told, mine, vps>>
    BY DEF DesktopPart!Open, DesktopPart!In, DesktopPart!Phase, DesktopPart!list, DTasks, DProgs
  <1>2. todo'[p] = <<DesktopPart!Find>> /\ \A u \in DTasks \ {p} : todo'[u] = todo[u]
    BY <1>1, CallIs, Literals DEF DesktopPart!Open
  <1>3. \A u \in DTasks \ {p} : ~Working(u)
    <2>1. DesktopPart!Overlaps \subseteq marks' /\ Calm'
      BY DEF DesktopPart!Open, Calm
    <2> QED  BY <1>1, <2>1, Alone
  <1>4. Len(todo'[p]) = 1 /\ todo'[p][1].op = "find"
    <2>1. Len(todo'[p]) = 1 /\ todo'[p][1] = DesktopPart!Find
      BY <1>2, Literals
    <2>2. DesktopPart!Find.op = "find"
      BY Fields
    <2> QED  BY <2>1, <2>2
  <1>5. \A q \in DProgs : phase'[q] = IF q = p THEN "opened" ELSE phase[q]
    BY <1>1 DEF CalmInv, ViewTypes
  <1>6. Owned'
    <2>1. ASSUME NEW w \in DVps, NEW h, h = vps[w].handler, h # 0
          PROVE  /\ vps[w].open /\ vps[w].owner = h /\ mine[h] = w /\ live[h]
                 /\ phase'[h] = "running"
      <3>1. h \in DProgs /\ h \in DTasks
        BY <2>1 DEF CalmInv, ViewTypes, DTasks
      <3>2. /\ vps[w].open /\ vps[w].owner = h /\ mine[h] = w /\ live[h]
            /\ \/ phase[h] = "running"
               \/ phase[h] = "closed" /\ First(h, "drop") /\ todo[h][1].x = w
        BY <2>1 DEF CleanInv, Owned
      <3>3. h # p
        BY <1>1, <3>2
      <3> QED  BY <1>3, <1>5, <3>1, <3>2, <3>3 DEF First
    <2> QED  BY <1>1, <2>1 DEF Owned
  <1>7. ASSUME NEW q \in DProgs PROVE Known(q)'
    <2>1. Known(q)
      BY DEF CleanInv
    <2>2. CASE q = p
      BY <1>1, <1>5, <2>1, <2>2 DEF Known
    <2>3. CASE q # p
      BY <1>1, <1>5, <2>1, <2>3 DEF Known
    <2> QED  BY <2>2, <2>3
  <1>8. Opening(p)' /\ Closing(p)' /\ Handling(p)'
    <2>1. \A i \in 1 .. Len(todo'[p]) : todo'[p][i].op = "find"
      BY <1>4
    <2>2. phase'[p] = "opened"
      BY <1>5
    <2> QED  BY <1>4, <2>1, <2>2 DEF Opening, Closing, Handling, First
  <1>9. Warned' /\ \A u \in DTasks \ {p} : Opening(u)' /\ Closing(u)' /\ Handling(u)'
    <2>1. 0 \in DTasks \ {p}
      BY <1>1 DEF DTasks
    <2> QED  BY <1>2, <1>3, <2>1, Idle DEF Working
  <1> QED  BY <1>6, <1>7, <1>8, <1>9 DEF CleanInv

\* The viewport is the program's own, unless that was marked.
LEMMA CloseClean ==
    ASSUME CallInv, CallInv', RunInv, CalmInv, CleanInv, marks' = {},
           NEW p \in DProgs, DesktopPart!Close(p)
    PROVE  CleanInv'
  <1>1. /\ p = cur /\ p \in DTasks /\ p # 0 /\ phase[p] = "running"
        /\ phase' = [phase EXCEPT ![p] = "closed"] /\ UNCHANGED <<live, told, mine, vps>>
    BY DEF DesktopPart!Close, DesktopPart!In, DesktopPart!Phase, DesktopPart!list, DTasks, DProgs
  <1>2. PICK v \in DVps : v = mine[p]
    BY <1>1 DEF RunInv, CalmInv, ViewTypes
  <1>3. todo'[p] = <<DesktopPart!Drop(v)>> /\ \A u \in DTasks \ {p} : todo'[u] = todo[u]
    BY <1>1, <1>2, CallIs, Literals DEF DesktopPart!Close
  <1>4. \A u \in DTasks \ {p} : ~Working(u)
    <2>1. DesktopPart!Overlaps \subseteq marks' /\ Calm'
      BY DEF DesktopPart!Close, Calm
    <2> QED  BY <1>1, <2>1, Alone
  <1>5. vps[v].open => vps[v].owner = p
    BY <1>2 DEF DesktopPart!Close, DesktopPart!Mark
  <1>6. Len(todo'[p]) = 1 /\ todo'[p][1].op = "drop" /\ todo'[p][1].x = v
    <2>1. Len(todo'[p]) = 1 /\ todo'[p][1] = DesktopPart!Drop(v)
      BY <1>3, Literals
    <2>2. DesktopPart!Drop(v).op = "drop" /\ DesktopPart!Drop(v).x = v
      BY Fields
    <2> QED  BY <2>1, <2>2
  <1>7. First(p, "drop")'
    BY <1>6 DEF First, Working
  <1>8. \A q \in DProgs : phase'[q] = IF q = p THEN "closed" ELSE phase[q]
    BY <1>1 DEF CalmInv, ViewTypes
  <1>9. Owned'
    <2>1. ASSUME NEW w \in DVps, NEW h, h = vps[w].handler, h # 0
          PROVE  /\ vps[w].open /\ vps[w].owner = h /\ mine[h] = w /\ live[h]
                 /\ \/ phase'[h] = "running"
                    \/ phase'[h] = "closed" /\ First(h, "drop")' /\ todo'[h][1].x = w
      <3>1. h \in DProgs /\ h \in DTasks
        BY <2>1 DEF CalmInv, ViewTypes, DTasks
      <3>2. /\ vps[w].open /\ vps[w].owner = h /\ mine[h] = w /\ live[h]
            /\ \/ phase[h] = "running"
               \/ phase[h] = "closed" /\ First(h, "drop") /\ todo[h][1].x = w
        BY <2>1 DEF CleanInv, Owned
      <3>3. CASE h = p
        BY <1>2, <1>6, <1>7, <1>8, <3>1, <3>2, <3>3
      <3>4. CASE h # p
        BY <1>4, <1>8, <3>1, <3>2, <3>4 DEF First
      <3> QED  BY <3>3, <3>4
    <2> QED  BY <1>1, <2>1 DEF Owned
  <1>10. ASSUME NEW q \in DProgs PROVE Known(q)'
    <2>1. Known(q)
      BY DEF CleanInv
    <2>2. CASE q = p
      BY <1>1, <1>8, <2>1, <2>2 DEF Known
    <2>3. CASE q # p
      BY <1>1, <1>8, <2>1, <2>3 DEF Known
    <2> QED  BY <2>2, <2>3
  <1>11. Opening(p)' /\ Closing(p)' /\ Handling(p)'
    <2>1. \A i \in 1 .. Len(todo'[p]) : todo'[p][i].op = "drop"
      BY <1>6
    <2>2. Opening(p)'
      BY <1>6, <2>1 DEF Opening, First
    <2>3. phase'[p] = "closed" /\ mine'[p] = v /\ (vps'[v].open => vps'[v].owner = p)
      BY <1>1, <1>2, <1>5, <1>8
    <2> QED  BY <1>6, <2>2, <2>3 DEF Closing, Handling, First
  <1>12. Warned' /\ \A u \in DTasks \ {p} : Opening(u)' /\ Closing(u)' /\ Handling(u)'
    <2>1. 0 \in DTasks \ {p}
      BY <1>1 DEF DTasks
    <2> QED  BY <1>3, <1>4, <2>1, Idle DEF Working
  <1> QED  BY <1>9, <1>10, <1>11, <1>12 DEF CleanInv

\* Steps outside of calls.  Another task's call may be under way.
LEMMA HandlerClean ==
    ASSUME CallInv, CallInv', CalmInv, CalmInv', CleanInv,
           NEW p \in DProgs, DesktopPart!AddHandler(p)
    PROVE  CleanInv'
  <1>1. /\ p = cur /\ p \in DTasks /\ p # 0 /\ live[p] /\ phase[p] = "opened" /\ ~Working(p)
        /\ phase' = [phase EXCEPT ![p] = "running"]
        /\ UNCHANGED <<live, told, mine, todo, lock, cur, runid, mapped>>
    BY Blankness DEF DesktopPart!AddHandler, DesktopPart!In, DesktopPart!Phase, DesktopPart!Busy,
       DesktopPart!cpu, Working, CallInv, DTasks, DProgs
  <1>2. PICK v \in DVps : v = mine[p]
    BY DEF DesktopPart!AddHandler, DesktopPart!None, CalmInv, ViewTypes
  <1>3. vps[v].open /\ vps[v].owner = p /\ vps[v].handler = 0
    <2>1. v # 0
      BY DEF DVps
    <2> QED  BY <1>1, <1>2, <2>1 DEF CleanInv, Known
  <1>4. /\ vps'[v].open /\ vps'[v].owner = p /\ vps'[v].handler = p
        /\ \A w \in DVps \ {v} : vps'[w] = vps[w]
    <2>1. vps' = [vps EXCEPT ![v].handler = p]
      BY <1>2 DEF DesktopPart!AddHandler
    <2> QED  BY <1>3, <2>1 DEF CalmInv, ViewTypes
  <1>5. \A q \in DProgs : phase'[q] = IF q = p THEN "running" ELSE phase[q]
    BY <1>1 DEF CalmInv, ViewTypes
  <1>6. \A t \in DTasks : todo'[t] = todo[t] /\ \A op : First(t, op)' <=> First(t, op)
    BY <1>1 DEF First, Working
  <1>7. Owned'
    <2>1. ASSUME NEW w \in DVps \ {v}, NEW h, h = vps'[w].handler, h # 0
          PROVE  /\ vps'[w].open /\ vps'[w].owner = h /\ mine'[h] = w /\ live'[h]
                 /\ \/ phase'[h] = "running"
                    \/ phase'[h] = "closed" /\ First(h, "drop")' /\ todo'[h][1].x = w
      <3>1. vps'[w] = vps[w] /\ h = vps[w].handler
        BY <1>4, <2>1
      <3>2. h \in DProgs /\ h \in DTasks
        BY <2>1, <3>1 DEF CalmInv, ViewTypes, DTasks
      <3>3. /\ vps[w].open /\ vps[w].owner = h /\ mine[h] = w /\ live[h]
            /\ \/ phase[h] = "running"
               \/ phase[h] = "closed" /\ First(h, "drop") /\ todo[h][1].x = w
        BY <2>1, <3>1 DEF CleanInv, Owned
      <3>4. h # p
        BY <1>2, <3>3
      <3> QED  BY <1>1, <1>5, <1>6, <3>1, <3>2, <3>3, <3>4
    <2>2. vps'[v].open /\ vps'[v].owner = p /\ mine'[p] = v /\ live'[p] /\ phase'[p] = "running"
      BY <1>1, <1>2, <1>4, <1>5
    <2> QED  BY <1>4, <2>1, <2>2 DEF Owned
  <1>8. ASSUME NEW q \in DProgs PROVE Known(q)'
    <2>1. Known(q)
      BY DEF CleanInv
    <2>2. CASE q = p
      BY <1>1, <1>2, <1>4, <1>5, <2>2 DEF Known, DVps
    <2>3. CASE q # p
      <3>1. mine[q] = v => phase[q] # "opened" /\ vps[mine[q]].handler # q
        BY <1>3, <2>1, <2>3 DEF Known, DVps, DProgs
      <3>2. mine[q] \in DVps /\ mine[q] # v => vps'[mine[q]] = vps[mine[q]]
        BY <1>4
      <3>3. mine[q] # 0 => mine[q] \in DVps
        BY DEF CalmInv, ViewTypes
      <3> QED  BY <1>1, <1>5, <2>1, <2>3, <3>1, <3>2, <3>3 DEF Known
    <2> QED  BY <2>2, <2>3
  <1>9. Warned'
    <2>1. ASSUME NEW i \in 1 .. Len(todo[0]), todo[0][i].op = "drop", NEW w, w = todo[0][i].x
          PROVE  vps'[w] = vps[w]
      <3>1. vps[w].handler # 0
        BY <2>1 DEF CleanInv, Warned
      <3>2. w \in DVps
        <4>1. Laid(0) /\ Len(todo[0]) \in Nat
          BY DEF CalmInv, CallInv, DTasks
        <4>2. Working(0)
          BY <4>1 DEF Working
        <4>3. i = 1 \/ i \in 2 .. Len(todo[0])
          BY <4>1
        <4> QED  BY <2>1, <4>1, <4>2, <4>3 DEF Laid, Leads, Waits, First
      <3> QED  BY <1>3, <1>4, <3>1, <3>2
    <2>2. todo'[0] = todo[0] /\ \A j, w : Exits(j, w)' <=> Exits(j, w)
      BY <1>1 DEF Exits
    <2> QED  BY <1>1, <2>1, <2>2 DEF CleanInv, Warned
  <1>10. ASSUME NEW t \in DTasks PROVE Opening(t)' /\ Closing(t)' /\ Handling(t)'
    <2>1. CASE t = p
      <3>1. ~Working(t)'
        BY <1>1, <2>1 DEF Working
      <3> QED  BY <3>1, Idle
    <2>2. Handling(t)'
      BY <1>1, <1>6, <2>1 DEF CleanInv, Handling, First
    <2>3. CASE t = 0
      BY <2>2, <2>3, DesktopIsNoProgram DEF CalmInv, DTasks
    <2>4. CASE t # p /\ t # 0
      <3>1. t \in DProgs /\ phase'[t] = phase[t] /\ Opening(t) /\ Closing(t)
        BY <1>5, <2>4 DEF DTasks, CleanInv
      <3>2. /\ \A w \in DVps : vps'[w].open = vps[w].open /\ vps'[w].owner = vps[w].owner
            /\ \A w \in DVps : vps[w].owner = t => vps'[w] = vps[w]
        <4>1. \A w \in DVps : w # v => vps'[w] = vps[w]
          BY <1>4
        <4>2. vps'[v].open = vps[v].open /\ vps'[v].owner = vps[v].owner
          BY <1>3, <1>4 DEF CalmInv, ViewTypes
        <4>3. vps[v].owner # t
          BY <1>3, <2>4
        <4> QED  BY <4>1, <4>2, <4>3
      <3>3. Closing(t)'
        <4>1. First(t, "drop") => mine[t] \in DVps
          BY <2>4, <3>1 DEF Closing, First, CleanInv, Known, CalmInv, ViewTypes
        <4> QED  BY <1>1, <1>6, <3>1, <3>2, <4>1 DEF Closing
      <3>4. Laid(t) /\ Len(todo[t]) \in Nat
        BY DEF CalmInv, CallInv
      <3>5. First(t, "make") => todo[t][1].x \in DVps
        BY <3>4 DEF Laid, Leads, Waits, First
      <3>6. ASSUME NEW i \in 1 .. Len(todo[t]), todo[t][i].op = "return"
            PROVE  todo[t][i].x \in DVps \cup {0}
        <4>1. Working(t)
          BY <3>4 DEF Working
        <4>2. i = 1 \/ i \in 2 .. Len(todo[t])
          BY <3>4
        <4>3. CASE First(t, "make") /\ i = 2
          <5>1. todo[t][2].op = "front"
            BY <3>4, <4>1, <4>3 DEF Laid, Leads, Waits, First
          <5> QED  BY <3>6, <4>3, <5>1
        <4>4. CASE i = 1
          BY <3>4, <3>6, <4>1, <4>4 DEF Laid, Leads, Waits
        <4>5. CASE i \in 2 .. Len(todo[t]) /\ ~(First(t, "make") /\ i = 2)
          BY <3>4, <3>6, <4>1, <4>5 DEF Laid, Waits
        <4> QED  BY <4>2, <4>3, <4>4, <4>5
      <3>7. Opening(t)'
        <4>1. First(t, "find")' \/ First(t, "link")' \/ First(t, "make")' => phase'[t] = "opened"
          BY <1>6, <3>1 DEF Opening
        <4>2. First(t, "make")' => ~vps'[todo'[t][1].x].open
          BY <1>6, <3>1, <3>2, <3>5 DEF Opening
        <4>3. ASSUME NEW i \in 1 .. Len(todo[t]), todo[t][i].op = "return"
              PROVE  /\ phase'[t] = "opened"
                     /\ todo[t][i].x # 0 /\ ~First(t, "make") =>
                          /\ vps'[todo[t][i].x].open /\ vps'[todo[t][i].x].owner = t
                          /\ vps'[todo[t][i].x].handler = 0
          BY <3>1, <3>2, <3>6, <4>3 DEF Opening
        <4> QED  BY <1>6, <4>1, <4>2, <4>3 DEF Opening
      <3> QED  BY <2>2, <3>3, <3>7
    <2> QED  BY <2>1, <2>3, <2>4
  <1> QED  BY <1>7, <1>8, <1>9, <1>10 DEF CleanInv

\* The end of a program, and the timer's interrupt.
LEMMA AsideClean ==
    ASSUME CallInv, CallInv', CalmInv, CleanInv, UNCHANGED <<phase, told, mine, vps, todo>>,
           \/ \E p \in DProgs : /\ ~Working(p) /\ live' = [live EXCEPT ![p] = FALSE] /\ cur = p
                                /\ phase[p] # "running"
           \/ live' = live /\ ~lock
    PROVE  CleanInv'
  <1>1. \A t \in DTasks : todo'[t] = todo[t] /\ \A op : First(t, op)' <=> First(t, op)
    BY DEF First, Working
  <1>2. \A t \in DTasks : ~First(t, "handle")
    BY DEF CleanInv, Handling, First
  <1>3. ASSUME NEW q \in DProgs, phase[q] = "running" \/ Working(q) PROVE live'[q] = live[q]
    BY <1>3 DEF CalmInv, ViewTypes
  <1>4. Owned'
    <2>1. ASSUME NEW w \in DVps, NEW h, h = vps[w].handler, h # 0
          PROVE  /\ vps[w].open /\ vps[w].owner = h /\ mine[h] = w /\ live'[h]
                 /\ \/ phase[h] = "running"
                    \/ phase[h] = "closed" /\ First(h, "drop")' /\ todo'[h][1].x = w
      <3>1. h \in DProgs /\ h \in DTasks
        BY <2>1 DEF CalmInv, ViewTypes, DTasks
      <3>2. /\ vps[w].open /\ vps[w].owner = h /\ mine[h] = w /\ live[h]
            /\ \/ phase[h] = "running"
               \/ phase[h] = "closed" /\ First(h, "drop") /\ todo[h][1].x = w
        BY <2>1 DEF CleanInv, Owned
      <3>3. live'[h]
        BY <1>3, <3>1, <3>2 DEF First
      <3> QED  BY <1>1, <3>1, <3>2, <3>3
    <2> QED  BY <2>1 DEF Owned
  <1>5. ASSUME NEW q \in DProgs PROVE Known(q)'
    <2>1. Known(q)
      BY DEF CleanInv
    <2>2. phase[q] = "running" => live'[q] = live[q]
      BY <1>3
    <2> QED  BY <2>1, <2>2 DEF Known
  <1>6. Warned'
    BY DEF CleanInv, Warned, Exits
  <1>7. \A t \in DTasks : Opening(t)' /\ Closing(t)' /\ Handling(t)'
    <2>1. ASSUME NEW t \in DTasks PROVE Opening(t)'
      BY <1>1 DEF CleanInv, Opening
    <2>2. ASSUME NEW t \in DTasks PROVE Closing(t)'
      BY <1>1 DEF CleanInv, Closing
    <2>3. ASSUME NEW t \in DTasks PROVE Handling(t)'
      BY <1>1, <1>2 DEF Handling
    <2> QED  BY <2>1, <2>2, <2>3
  <1> QED  BY <1>4, <1>5, <1>6, <1>7 DEF CleanInv

LEMMA CleanKeeps ==
    ASSUME CallInv, CallInv', RunInv, CalmInv, CalmInv', CleanInv, marks' = {},
           DesktopPart!Next
    PROVE  CleanInv'
  <1>1. ASSUME NEW p \in DProgs, DesktopPart!End(p) PROVE CleanInv'
    <2>1. /\ ~Working(p) /\ live' = [live EXCEPT ![p] = FALSE] /\ cur = p
          /\ phase[p] # "running" /\ UNCHANGED <<phase, told, mine, vps, todo>>
      BY <1>1, Blankness DEF DesktopPart!End, DesktopPart!Busy, Working, CallInv,
         DesktopPart!list, DTasks
    <2> QED  BY <2>1, AsideClean
  <1>2. ASSUME NEW p \in DProgs, DesktopPart!Kill(p) PROVE CleanInv'
    BY <1>2 DEF DesktopPart!Kill
  <1>3. ASSUME NEW t \in DTasks, DesktopPart!Switch(t) PROVE CleanInv'
    <2>1. ~lock /\ live' = live /\ UNCHANGED <<phase, told, mine, vps, todo>>
      BY <1>3 DEF DesktopPart!Switch, DesktopPart!progs, DesktopPart!list
    <2> QED  BY <2>1, AsideClean
  <1> QED  BY <1>1, <1>2, <1>3, StepClean, ClickClean, StartClean, OpenClean, CloseClean,
              HandlerClean
           DEF DesktopPart!Next, DesktopPart!Progs, DesktopPart!Tasks, DesktopPart!D, DProgs, DTasks
-----------------------------------------------------------------------------
(* The theorems.                                                           *)

LEMMA ViewStarts == DesktopPart!Init => ViewInv
  <1> SUFFICES ASSUME DesktopPart!Init PROVE ViewInv
    OBVIOUS
  <1>1. /\ live = [p \in DProgs |-> FALSE] /\ phase = [p \in DProgs |-> "new"]
        /\ told = [p \in DProgs |-> FALSE] /\ mine = [p \in DProgs |-> 0]
        /\ vps = [v \in DVps |-> [open |-> FALSE, owner |-> 0, handler |-> 0]]
        /\ elements = [e \in DPlaces |-> [inUse |-> FALSE, vp |-> 0]] /\ count = 0
        /\ cur = 0 /\ runid = 0 /\ todo = [t \in DTasks |-> <<>>] /\ marks = {}
    BY DEF DesktopPart!Init, DesktopPart!Tasks, DesktopPart!D, DesktopPart!Progs, DTasks, DProgs,
       DesktopPart!Vps, DVps, DesktopPart!Places, DPlaces, DesktopPart!None, DesktopPart!Nobody
  <1>2. CallInv
    BY NoCalls
  <1>3. \A t \in DTasks : ~Working(t) /\ Len(todo[t]) = 0
    BY <1>1, Literals DEF Working
  <1>4. DProgs \subseteq DTasks /\ 0 \in DTasks
    BY DEF DTasks
  <1>5. RunInv
    BY <1>1 DEF RunInv
  <1>6. CalmInv
    <2>1. 0 \in 0 .. MaxVp
      BY DesktopAssumption
    <2>2. ViewTypes
      BY <1>1, <1>4, <2>1 DEF ViewTypes
    <2>3. OneCall /\ \A t \in DTasks : Laid(t)
      BY <1>3, <1>4 DEF OneCall, Laid
    <2>4. InUse(count)
      BY <1>1 DEF InUse, DPlaces
    <2>5. Counted
      BY <1>3, <2>4 DEF Counted, First
    <2> QED  BY <2>2, <2>3, <2>5 DEF CalmInv
  <1>7. CleanInv
    <2>1. Owned /\ \A p \in DProgs : Known(p)
      BY <1>1 DEF Owned, Known
    <2>2. \A t \in DTasks : Closing(t) /\ Handling(t)
      BY <1>3 DEF Closing, Handling, First
    <2>3. ASSUME NEW t \in DTasks PROVE Opening(t)
      <3>1. \A i \in 1 .. Len(todo[t]) : FALSE
        BY <1>3
      <3> QED  BY <1>3, <3>1 DEF Opening, First
    <2>4. Warned
      <3>1. \A i \in 1 .. Len(todo[0]) : FALSE
        BY <1>3, <1>4
      <3> QED  BY <3>1 DEF Warned
    <2> QED  BY <2>1, <2>2, <2>3, <2>4 DEF CleanInv
  <1> QED  BY <1>2, <1>5, <1>6, <1>7 DEF ViewInv

LEMMA ViewKeeps == ViewInv /\ [Next]_vars => ViewInv'
  <1> SUFFICES ASSUME ViewInv, [Next]_vars PROVE ViewInv'
    OBVIOUS
  <1>1. CASE DesktopPart!Next
    <2>1. CallInv' /\ RunInv'
      BY <1>1, CallsKeep, RunsKeep DEF ViewInv
    <2>2. marks \subseteq marks'
      BY <1>1, Grows
    <2>3. Calm' => CalmInv'
      <3> SUFFICES ASSUME Calm' PROVE CalmInv'
        OBVIOUS
      <3>1. Calm
        BY <2>2 DEF Calm
      <3> QED  BY <1>1, <2>1, <3>1, CalmKeeps DEF ViewInv
    <2>4. marks' = {} => CleanInv'
      <3> SUFFICES ASSUME marks' = {} PROVE CleanInv'
        OBVIOUS
      <3>1. marks = {} /\ Calm /\ Calm'
        BY <2>2 DEF Calm
      <3> QED  BY <1>1, <2>1, <2>3, <3>1, CleanKeeps DEF ViewInv
    <2> QED  BY <2>1, <2>3, <2>4 DEF ViewInv
  <1>2. CASE UNCHANGED desktop
    <2> USE <1>2 DEF desktop
    <2>1. CallInv' /\ RunInv'
      BY DEF ViewInv, CallInv, HomeInv, Borrowed, First, Working, RunInv
    <2>2. Calm' => CalmInv'
      <3> SUFFICES ASSUME Calm PROVE CalmInv'
        BY DEF Calm
      <3>1. OneCall' /\ ViewTypes'
        BY DEF ViewInv, CalmInv, OneCall, Working, ViewTypes
      <3>2. (\A t \in DTasks : Laid(t)') /\ Counted'
        BY <3>1, AsideCalm DEF ViewInv, Working
      <3> QED  BY <3>1, <3>2 DEF CalmInv
    <2>3. marks' = {} => CleanInv'
      <3> SUFFICES ASSUME CleanInv PROVE CleanInv'
        BY DEF ViewInv
      <3>1. Owned' /\ Warned' /\ \A p \in DProgs : Known(p)'
        BY DEF CleanInv, Owned, Warned, Exits, Known, First, Working
      <3>2. ASSUME NEW t \in DTasks PROVE Opening(t)' /\ Closing(t)' /\ Handling(t)'
        <4>1. \A op : First(t, op)' <=> First(t, op)
          BY DEF First, Working
        <4>2. Opening(t)'
          BY <4>1 DEF CleanInv, Opening
        <4>3. Closing(t)' /\ Handling(t)'
          BY <4>1 DEF CleanInv, Closing, Handling
        <4> QED  BY <4>2, <4>3
      <3> QED  BY <3>1, <3>2 DEF CleanInv
    <2> QED  BY <2>1, <2>2, <2>3 DEF ViewInv
  <1> QED  BY <1>1, <1>2 DEF Next, NextAudio, NextPs2, NextKeyboard, NextProc, NextDesktop,
                             NextBuffs, vars

LEMMA ViewHolds == Spec => []ViewInv
  <1>1. Init => ViewInv
    BY ViewStarts DEF Init
  <1> QED  BY <1>1, ViewKeeps, PTL DEF Spec

\* A handler runs in the memory and under the index of its program, which
\* lives, and with the lock set, as long as none of the four things has
\* happened that the code does not guard against; and index and memory are
\* given back after it, whatever has happened.
THEOREM BorrowsAndReturnsHolds == Spec => []BorrowsAndReturns
  <1>1. ViewInv => DesktopPart!Restored
    BY DEF ViewInv, CallInv, HomeInv, Borrowed, DesktopPart!Restored, DesktopPart!Progs, DProgs
  <1>2. ViewInv => DesktopPart!HandlersAtHome
    <2> SUFFICES ASSUME ViewInv, DesktopPart!At("handle"), marks = {}
                 PROVE  /\ lock /\ live[runid] /\ runid = mapped
                        /\ vps[DesktopPart!X].handler = mapped
      BY DEF DesktopPart!HandlersAtHome
    <2>1. CallInv /\ CleanInv /\ cur \in DTasks
      BY DEF ViewInv, CallInv
    <2>2. First(cur, "handle") /\ DesktopPart!X = todo[cur][1].x
      BY <2>1, StepOf
    <2> QED  BY <2>1, <2>2 DEF CleanInv, Handling
  <1>3. ViewInv => BorrowsAndReturns
    BY <1>1, <1>2 DEF BorrowsAndReturns, DesktopPart!BorrowsAndReturns
  <1> QED  BY <1>3, ViewHolds, PTL

\* A program that runs and has not been told to exit still has its viewport
\* and its handler, on the same condition.
THEOREM NoSilentLossHolds == Spec => []NoSilentLoss
  <1>1. ViewInv => NoSilentLoss
    <2> SUFFICES ASSUME ViewInv, marks = {}, NEW p \in DProgs, live[p], phase[p] = "running"
                 PROVE  \/ told[p]
                        \/ /\ vps[mine[p]].open /\ vps[mine[p]].owner = p
                           /\ vps[mine[p]].handler = p
      BY DEF NoSilentLoss, DesktopPart!NoSilentLoss, DesktopPart!Progs, DProgs
    <2>1. CalmInv /\ CleanInv
      BY DEF ViewInv, Calm
    <2>2. told[p] \/ vps[mine[p]].handler = p
      BY <2>1 DEF CleanInv, Known
    <2>3. mine[p] \in DVps /\ p # 0
      BY <2>1 DEF CalmInv, ViewTypes, CleanInv, Known, DProgs
    <2> QED  BY <2>1, <2>2, <2>3 DEF CleanInv, Owned
  <1> QED  BY <1>1, ViewHolds, PTL
-----------------------------------------------------------------------------
(* The viewports that are listed, and the program in front, as long as     *)
(* calls do not overlap and no program is killed.                          *)

Steps(t) == {todo[t][i] : i \in 1 .. Len(todo[t])}
Rest(t) == {todo[t][i] : i \in 2 .. Len(todo[t])}

\* The places of S show the viewports that are open, each of them once.
Shows(S) ==
    /\ \A e \in S : elements[e].vp \in DVps /\ vps[elements[e].vp].open
    /\ \A e, f \in S : elements[e].vp = elements[f].vp => e = f
    /\ \A v \in DVps : vps[v].open => \E e \in S : elements[e].vp = v
Below(n) == {e \in DPlaces : e < n}

\* A viewport that is being opened has its place behind the others' until it is
\* brought to the front, and one that is closed leaves its place empty.
Usual ==
    \A t \in DTasks : /\ ~First(t, "link") /\ ~First(t, "make") /\ ~First(t, "shift")
                      /\ First(t, "front") => t = 0
Linking(t) ==
    First(t, "link") =>
      Shows(Below(count - 1)) /\ count > 0 /\ (todo[t][1].x = 0 \/ count > 1)
Making(t) ==
    First(t, "make") =>
      LET v == todo[t][1].x
          e == todo[t][2].x IN
      /\ Shows(Below(count - 1)) /\ count > 0 /\ count <= e + 1 /\ (e = 0 \/ count > 1)
      /\ elements[e].vp = v /\ ~vps[v].open
Fronting(t) ==
    First(t, "front") =>
      LET e == todo[t][1].x IN
      \/ t = 0 /\ e < count
      \/ /\ t # 0 /\ Shows(Below(count - 1) \cup {e})
         /\ count > 0 /\ count <= e + 1 /\ (e = 0 \/ count > 1)
         /\ vps[elements[e].vp].owner = t
Shifting(t) ==
    First(t, "shift") =>
      /\ Shows(Below(count + 1) \ {todo[t][1].x})
      /\ \E s \in Rest(t) : s.op = "tell" /\ s.x = 0 /\ s.ev = "focused"
ListInv ==
    /\ Usual => Shows(Below(count))
    /\ (\A t \in DTasks : ~First(t, "link")) /\ count = 0 => ~elements[0].inUse
    /\ \A t \in DTasks : Linking(t) /\ Making(t) /\ Fronting(t) /\ Shifting(t)

\* A program has one viewport, from when it is made until it is closed.
Brings(p, v) ==
    /\ Working(p) /\ ~First(p, "make")
    /\ todo[p][Len(todo[p])].op = "return" /\ todo[p][Len(todo[p])].x = v
Holds(p, v) ==
    /\ mine[p] = v
    /\ phase[p] = "running" \/ (phase[p] = "closed" /\ First(p, "drop"))
HeldInv ==
    \A v \in DVps : LET p == vps[v].owner
                        h == vps[v].handler IN
      /\ vps[v].open =>
           /\ p \in DProgs /\ live[p]
           /\ \/ Holds(p, v) /\ h # 0
              \/ phase[p] = "opened" /\ (mine[p] = v \/ Brings(p, v))
      /\ h # 0 => live[h] /\ Holds(h, v)
Asks(p) ==
    /\ phase[p] = "new" => mine[p] = 0 /\ ~Working(p)
    /\ phase[p] = "opened" /\ Working(p) => mine[p] = 0
    /\ First(p, "drop") => phase[p] = "closed" /\ todo[p][1].x = mine[p]
    /\ First(p, "find") \/ First(p, "link") \/ First(p, "make") => phase[p] = "opened"
    /\ \A s \in Steps(p) : s.op = "return" => phase[p] = "opened"

\* Who is awake, and who is put to sleep.
AwakeInv ==
    /\ asleep \in [DProgs -> BOOLEAN]
    /\ cur \in DProgs => ~asleep[cur]
    /\ \A p \in DProgs : phase[p] \in {"new", "opened"} => ~asleep[p]
Runs(t) ==
    First(t, "handle") => t = cur /\ lock /\ runid = mapped /\ runid = vps[todo[t][1].x].owner
Unfocus(t, s) ==
    /\ \/ s.op = "tell" /\ s.x = 1
       \/ s.op \in {"send", "handle"} /\ s.x = elements[1].vp
    /\ count > 1
    /\ t # 0 => vps[elements[0].vp].owner = t
Unfocuses(t) ==
    \A s \in Steps(t) : s.ev = "unfocused" =>
      Unfocus(t, s) /\ todo[t][1].op \notin {"find", "link", "make", "front", "shift", "drop"}
Unlocks == Working(0) => todo[0][Len(todo[0])].op = "unlock"
\* The program in front is awake or will be woken.
Focuses(s) ==
    /\ s.ev = "focused"
    /\ \/ s.op = "tell" /\ s.x = 0
       \/ s.op \in {"send", "handle"} /\ s.x = elements[0].vp
Due == \E t \in DTasks : \E s \in Steps(t) : Focuses(s)
FrontInv == Usual /\ count > 0 => ~asleep[vps[elements[0].vp].owner] \/ Due
FocusInv ==
    /\ ListInv /\ HeldInv /\ AwakeInv /\ FrontInv /\ Unlocks
    /\ \A p \in DProgs : Asks(p)
    /\ \A t \in DTasks : Runs(t) /\ Unfocuses(t)

\* The steps of a task's call after the next one, and when the next one has made
\* way for others.
LEMMA NoSteps ==
    ASSUME NEW s, NEW n \in Nat, ~(n > 0)
    PROVE  {s[i] : i \in 1 .. n} = {}
  OBVIOUS

LEMMA Proceeds ==
    ASSUME CallInv, OneCall, NEW t \in DTasks, t = cur, Laid(t), Working(t), ~First(t, "make"),
           NEW ops, AnySeq(ops), DesktopPart!Then(ops)
    PROVE  /\ \A u \in DTasks \ {t} : ~Working(u) /\ ~Working(u)' /\ todo'[u] = todo[u]
           /\ Steps(t) = {todo[t][1]} \cup Rest(t)
           /\ Steps(t)' = {ops[i] : i \in 1 .. Len(ops)} \cup Rest(t)
           /\ Len(ops) > 0 => Working(t)' /\ todo'[t][1] = ops[1]
           /\ Len(ops) = 0 /\ Working(t)' => todo'[t][1] \in Rest(t)
           /\ Len(ops) = 0 /\ Len(todo[t]) = 1 => ~Working(t)'
           /\ Len(todo[t]) > 1 => Working(t)' /\ todo'[t][Len(todo'[t])] = todo[t][Len(todo[t])]
           /\ \A s \in Rest(t) :
                /\ s.op \notin {"find", "link", "make", "front", "shift", "handle"}
                /\ s.op = "drop" => t = 0
           /\ Len(ops) > 1 => Rest(t)' = {ops[i] : i \in 2 .. Len(ops)} \cup Rest(t)
  <1> DEFINE m == Len(ops)
             n == Len(todo[t])
             k == Len(todo'[t])
  <1>1. /\ \A u \in DTasks \ {t} : ~Working(u)'
        /\ m \in Nat /\ n \in Nat \ {0} /\ k \in Nat
        /\ k = m + n - 1
        /\ \A i \in 1 .. m : todo'[t][i] = ops[i]
        /\ \A i \in 1 .. k : i > m => i - m + 1 \in 2 .. n /\ todo'[t][i] = todo[t][i - m + 1]
    BY SMTT(60), Behind
  <1>2. \A u \in DTasks \ {t} : ~Working(u) /\ todo'[u] = todo[u]
    BY SMTT(60), ThenIs DEF OneCall
  <1>3. ASSUME NEW s \in Rest(t)
        PROVE  /\ s.op \notin {"find", "link", "make", "front", "shift", "handle"}
               /\ s.op = "drop" => t = 0
    <2>1. PICK i \in 2 .. n : s = todo[t][i]
      BY <1>3 DEF Rest
    <2>2. Waits(t, s, n - i)
      BY <2>1 DEF Laid
    <2> QED  BY <2>2 DEF Waits
  <1>4. ASSUME NEW j \in 2 .. n
        PROVE  j + m - 1 \in 1 .. k /\ j + m - 1 > m /\ todo'[t][j + m - 1] = todo[t][j]
    <2>1. j + m - 1 \in 1 .. k /\ j + m - 1 > m /\ (j + m - 1) - m + 1 = j
      BY <1>1
    <2> HIDE DEF m, n, k
    <2> QED  BY <1>1, <2>1
  <1> HIDE DEF m, n, k
  <1>5. {todo[t][i] : i \in 1 .. n} = {todo[t][1]} \cup {todo[t][i] : i \in 2 .. n}
    BY <1>1
  <1>6. {todo'[t][i] : i \in 1 .. k} = {ops[i] : i \in 1 .. m} \cup {todo[t][i] : i \in 2 .. n}
    <2>1. ASSUME NEW i \in 1 .. k
          PROVE  todo'[t][i] \in {ops[j] : j \in 1 .. m} \cup {todo[t][j] : j \in 2 .. n}
      <3>1. CASE i > m
        BY <1>1, <2>1, <3>1
      <3>2. CASE i \in 1 .. m
        BY <1>1, <3>2
      <3> QED  BY <1>1, <3>1, <3>2
    <2>2. ASSUME NEW i \in 1 .. m PROVE ops[i] \in {todo'[t][j] : j \in 1 .. k}
      BY <1>1, <2>2
    <2>3. ASSUME NEW j \in 2 .. n PROVE todo[t][j] \in {todo'[t][i] : i \in 1 .. k}
      BY <1>4, <2>3
    <2> QED  BY <2>1, <2>2, <2>3
  <1>7. m > 1 => {todo'[t][i] : i \in 2 .. k} = {ops[i] : i \in 2 .. m} \cup {todo[t][i] : i \in 2 .. n}
    <2> SUFFICES ASSUME m > 1
                 PROVE  {todo'[t][i] : i \in 2 .. k} =
                          {ops[i] : i \in 2 .. m} \cup {todo[t][i] : i \in 2 .. n}
      OBVIOUS
    <2>1. ASSUME NEW i \in 2 .. k
          PROVE  todo'[t][i] \in {ops[j] : j \in 2 .. m} \cup {todo[t][j] : j \in 2 .. n}
      <3>1. CASE i > m
        BY <1>1, <2>1, <3>1
      <3>2. CASE i \in 2 .. m
        BY <1>1, <3>2
      <3> QED  BY <1>1, <3>1, <3>2
    <2>2. ASSUME NEW i \in 2 .. m PROVE ops[i] \in {todo'[t][j] : j \in 2 .. k}
      BY <1>1, <2>2
    <2>3. ASSUME NEW j \in 2 .. n PROVE todo[t][j] \in {todo'[t][i] : i \in 2 .. k}
      <3>1. j + m - 1 \in 2 .. k
        BY <1>1, <1>4, <2>3
      <3> QED  BY <1>4, <2>3, <3>1
    <2> QED  BY <2>1, <2>2, <2>3
  <1>8. m > 0 => k > 0 /\ todo'[t][1] = ops[1]
    BY <1>1
  <1>9. m = 0 /\ k > 0 => todo'[t][1] \in {todo[t][i] : i \in 2 .. n}
    BY <1>1
  <1>10. /\ m = 0 /\ n = 1 => ~(k > 0)
         /\ n > 1 => k > 0 /\ k \in 1 .. k /\ k > m /\ k - m + 1 = n
    BY <1>1
  <1>11. n > 1 => todo'[t][k] = todo[t][n]
    BY <1>1, <1>10
  <1> QED  BY <1>1, <1>2, <1>3, <1>5, <1>6, <1>7, <1>8, <1>9, <1>10, <1>11
           DEF m, n, k, Steps, Rest, Working

\* The list between the steps that change it.
LEMMA NowListed ==
    ASSUME OneCall, FocusInv, NEW t \in DTasks, NEW op, First(t, op),
           op \notin {"link", "make", "front", "shift"}
    PROVE  /\ Shows(Below(count)) /\ (count = 0 => ~elements[0].inUse)
           /\ count > 0 => ~asleep[vps[elements[0].vp].owner] \/ Due
  <1>1. \A u \in DTasks : Working(u) => u = t
    BY DEF OneCall, First
  <1>2. Usual /\ \A u \in DTasks : ~First(u, "link")
    BY <1>1 DEF Usual, First
  <1> QED  BY <1>2 DEF FocusInv, ListInv, FrontInv

LEMMA StillListed ==
    ASSUME NEW t \in DTasks, \A u \in DTasks \ {t} : ~Working(u)',
           ~First(t, "link")', ~First(t, "make")', ~First(t, "shift")', ~First(t, "front")',
           Shows(Below(count))', count' = 0 => ~elements'[0].inUse
    PROVE  ListInv'
  <1>1. \A u \in DTasks : /\ ~First(u, "link")' /\ ~First(u, "make")' /\ ~First(u, "shift")'
                          /\ ~First(u, "front")'
    BY DEF First
  <1> QED  BY <1>1 DEF ListInv, Linking, Making, Fronting, Shifting

\* Who has which viewport, when only the call of task t goes on.
LEMMA StillHeld ==
    ASSUME HeldInv, ViewTypes, NEW t \in DTasks, UNCHANGED <<live, phase, mine, vps>>,
           \A u \in DTasks \ {t} : todo'[u] = todo[u],
           First(t, "drop") => t = 0 \/ First(t, "drop")',
           \A v \in DVps : Brings(t, v) => t = 0 \/ Brings(t, v)'
    PROVE  HeldInv'
  <1>1. ASSUME NEW p \in DProgs, NEW v \in DVps
        PROVE  (Holds(p, v) => Holds(p, v)') /\ (Brings(p, v) => Brings(p, v)')
    <2>1. p \in DTasks /\ p # 0
      BY DEF DTasks, DProgs
    <2>2. CASE p = t
      BY <2>1, <2>2 DEF Holds
    <2>3. CASE p # t
      <3>1. todo'[p] = todo[p]
        BY <2>1, <2>3
      <3> QED  BY <3>1 DEF Holds, Brings, First, Working
    <2> QED  BY <2>2, <2>3
  <1>2. ASSUME NEW v \in DVps
        PROVE  /\ vps'[v].open =>
                    /\ vps'[v].owner \in DProgs /\ live'[vps'[v].owner]
                    /\ \/ Holds(vps[v].owner, v)' /\ vps'[v].handler # 0
                       \/ /\ phase'[vps'[v].owner] = "opened"
                          /\ mine'[vps'[v].owner] = v \/ Brings(vps[v].owner, v)'
               /\ vps'[v].handler # 0 => live'[vps'[v].handler] /\ Holds(vps[v].handler, v)'
    <2>1. PICK p, h : p = vps[v].owner /\ h = vps[v].handler
      OBVIOUS
    <2>2. h \in DProgs \cup {0} /\ vps' = vps
      BY <2>1 DEF ViewTypes
    <2>3. ASSUME vps[v].open
          PROVE  /\ p \in DProgs /\ live[p]
                 /\ \/ Holds(p, v) /\ h # 0
                    \/ phase[p] = "opened" /\ (mine[p] = v \/ Brings(p, v))
      BY <2>1, <2>3 DEF HeldInv
    <2>4. h # 0 => live[h] /\ Holds(h, v)
      BY <2>1 DEF HeldInv
    <2>5. vps[v].open =>
            /\ p \in DProgs /\ live'[p]
            /\ \/ Holds(p, v)' /\ h # 0
               \/ phase'[p] = "opened" /\ (mine'[p] = v \/ Brings(p, v)')
      BY <1>1, <2>3
    <2>6. h # 0 => live'[h] /\ Holds(h, v)'
      BY <1>1, <2>2, <2>4
    <2> QED  BY <2>1, <2>2, <2>5, <2>6 DEF Holds, Brings
  <1> QED  BY <1>2 DEF HeldInv

LEMMA StillAsks ==
    ASSUME \A p \in DProgs : Asks(p), NEW t \in DTasks, Working(t), UNCHANGED <<phase, mine>>,
           \A u \in DTasks \ {t} : todo'[u] = todo[u],
           t # 0 => /\ ~First(t, "find")' /\ ~First(t, "link")' /\ ~First(t, "make")'
                    /\ ~First(t, "drop")',
           \A s \in Steps(t)' : s.op = "return" => s \in Steps(t)
    PROVE  \A p \in DProgs : Asks(p)'
  <1> SUFFICES ASSUME NEW p \in DProgs PROVE Asks(p)'
    OBVIOUS
  <1>1. p \in DTasks /\ p # 0
    BY DEF DTasks, DProgs
  <1>2. CASE p = t
    BY <1>1, <1>2 DEF Asks
  <1>3. CASE p # t
    <2>1. todo'[p] = todo[p]
      BY <1>1, <1>3
    <2> QED  BY <2>1 DEF Asks, First, Working, Steps
  <1> QED  BY <1>2, <1>3

\* Nothing is put to sleep after a viewport has been dropped.
LEMMA DropIsLast ==
    ASSUME CallInv', NEW t \in DTasks, Laid(t)', Unlocks', First(t, "drop")'
    PROVE  \A s \in Steps(t)' : s.op \in {"drop", "unlock"}
  <1>1. Leads(t, todo[t], todo[t][1])' /\ todo'[t][1].op = "drop" /\ Len(todo'[t]) \in Nat
    BY DEF Laid, First, CallInv
  <1>2. (t # 0 /\ Len(todo'[t]) = 1) \/ (t = 0 /\ Len(todo'[t]) = 2)
    BY <1>1 DEF Leads, Waits
  <1>3. t = 0 => todo'[t][Len(todo'[t])].op = "unlock"
    BY DEF Unlocks, First
  <1>4. ASSUME NEW i \in 1 .. Len(todo'[t]) PROVE todo'[t][i].op \in {"drop", "unlock"}
    BY <1>1, <1>2, <1>3
  <1> QED  BY <1>4 DEF Steps

\* A step of viewport_send_event, or the end of a call, changes neither the list
\* nor who has what.
LEMMA Goes ==
    ASSUME CallInv, CallInv', CalmInv, CalmInv', FocusInv, OneCall, NEW t \in DTasks, t = cur,
           Laid(t), Working(t), todo[t][1].op \in {"tell", "send", "handle", "restore", "unlock"},
           NEW ops, AnySeq(ops), DesktopPart!Then(ops),
           UNCHANGED <<live, phase, mine, vps, elements, count>>,
           todo[t][1].op = "unlock" => Len(ops) = 0,
           \A i \in 1 .. Len(ops) :
             /\ ops[i].op \in {"send", "handle", "restore"}
             /\ ops[i].ev = "unfocused" => Unfocus(t, ops[i])
    PROVE  /\ ListInv' /\ HeldInv' /\ (\A p \in DProgs : Asks(p)') /\ Unlocks'
           /\ \A u \in DTasks : Unfocuses(u)'
           /\ Shows(Below(count))
           /\ count > 0 =>
                ~asleep[vps[elements[0].vp].owner] \/ Due' \/ Focuses(todo[t][1])
           /\ (\E i \in 1 .. Len(ops) : Focuses(ops[i])) => Due'
           /\ Len(ops) = 0 => ~First(t, "handle")'
           /\ \A u \in DTasks \ {t} : ~First(u, "handle")'
  <1>1. /\ \A u \in DTasks \ {t} : ~Working(u) /\ ~Working(u)' /\ todo'[u] = todo[u]
        /\ Steps(t) = {todo[t][1]} \cup Rest(t)
        /\ Steps(t)' = {ops[i] : i \in 1 .. Len(ops)} \cup Rest(t)
        /\ Len(ops) > 0 => Working(t)' /\ todo'[t][1] = ops[1]
        /\ Len(ops) = 0 /\ Working(t)' => todo'[t][1] \in Rest(t)
        /\ Len(ops) = 0 /\ Len(todo[t]) = 1 => ~Working(t)'
        /\ Len(todo[t]) > 1 => Working(t)' /\ todo'[t][Len(todo'[t])] = todo[t][Len(todo[t])]
        /\ \A s \in Rest(t) :
             /\ s.op \notin {"find", "link", "make", "front", "shift", "handle"}
             /\ s.op = "drop" => t = 0
    <2>1. ~First(t, "make")
      BY DEF First
    <2> QED  BY <2>1, Proceeds
  <1>2. Len(ops) \in Nat /\ Len(todo[t]) \in Nat /\ Len(todo[t]) > 0
    BY Blankness DEF CallInv, Working
  <1>3. \A n \in Nat : n > 0 => n = 1 \/ n > 1
    OBVIOUS
  <1>13. Working(t)' => /\ todo'[t][1].op \notin {"find", "link", "make", "front", "shift"}
                        /\ todo'[t][1].op = "drop" => t = 0
                        /\ Len(ops) = 0 => todo'[t][1].op # "handle"
    <2>1. CASE Len(ops) > 0
      <3>1. ops[1].op \in {"send", "handle", "restore"}
        BY <1>2, <2>1
      <3> QED  BY <1>1, <2>1, <3>1
    <2>2. CASE Len(ops) = 0
      BY <1>1, <2>2
    <2> QED  BY <1>2, <2>1, <2>2
  <1>4. ListInv'
    <2>1. Shows(Below(count)) /\ (count = 0 => ~elements[0].inUse)
      <3>1. PICK op : op = todo[t][1].op
        OBVIOUS
      <3>2. First(t, op) /\ op \notin {"link", "make", "front", "shift"}
        BY <3>1 DEF First
      <3> QED  BY <3>2, NowListed
    <2>2. Shows(Below(count))' /\ (count' = 0 => ~elements'[0].inUse)
      BY <2>1 DEF Shows, Below
    <2>3. ~First(t, "link")' /\ ~First(t, "make")' /\ ~First(t, "shift")' /\ ~First(t, "front")'
      BY <1>13 DEF First
    <2> QED  BY <1>1, <2>2, <2>3, StillListed
  <1>5. HeldInv'
    <2>1. ~First(t, "drop")
      BY DEF First
    <2>2. ASSUME NEW v \in DVps, Brings(t, v) PROVE Brings(t, v)'
      <3>1. Len(todo[t]) > 1
        BY <1>2, <2>2 DEF Brings
      <3>2. ~First(t, "make")'
        BY <1>13 DEF First
      <3> QED  BY <1>1, <2>2, <3>1, <3>2 DEF Brings
    <2> QED  BY <1>1, <2>1, <2>2, StillHeld DEF FocusInv, CalmInv
  <1>6. \A p \in DProgs : Asks(p)'
    <2>1. t # 0 => /\ ~First(t, "find")' /\ ~First(t, "link")' /\ ~First(t, "make")'
                   /\ ~First(t, "drop")'
      BY <1>13 DEF First
    <2>2. \A s \in Steps(t)' : s.op = "return" => s \in Steps(t)
      BY <1>1
    <2> QED  BY <1>1, <2>1, <2>2, StillAsks DEF FocusInv
  <1>7. \A u \in DTasks \ {t} : Steps(u)' = {} /\ Steps(u) = {}
    BY <1>1, NoSteps DEF CallInv, Steps, Working
  <1>9. Unlocks'
    <2>1. CASE t = 0
      <3>1. Len(todo[t]) > 1 \/ ~Working(t)'
        <4>1. Len(ops) = 0 \/ todo[t][1].op # "unlock"
          OBVIOUS
        <4>2. Len(todo[t]) = 1 => todo[t][1].op = "unlock"
          BY <2>1 DEF FocusInv, Unlocks
        <4>3. Len(ops) = 0 /\ Len(todo[t]) = 1 => ~Working(t)'
          BY <1>1
        <4>4. Len(todo[t]) = 1 \/ Len(todo[t]) > 1
          BY <1>2, <1>3
        <4> QED  BY <4>1, <4>2, <4>3, <4>4
      <3> QED  BY <1>1, <2>1, <3>1 DEF FocusInv, Unlocks
    <2>2. CASE t # 0
      <3>1. 0 \in DTasks \ {t}
        BY <2>2 DEF DTasks
      <3> QED  BY <1>1, <3>1 DEF Unlocks
    <2> QED  BY <2>1, <2>2
  <1>8. \A u \in DTasks : Unfocuses(u)'
    <2>1. ASSUME NEW s \in Steps(t)', s.ev = "unfocused"
          PROVE  /\ Unfocus(t, s)'
                 /\ todo'[t][1].op \notin {"find", "link", "make", "front", "shift", "drop"}
      <3>1. Unfocus(t, s) /\ (s \in Rest(t) => todo[t][1].op # "drop" /\ s \in Steps(t))
        <4>1. CASE s \in Rest(t)
          BY <1>1, <2>1, <4>1 DEF FocusInv, Unfocuses
        <4>2. CASE s \in {ops[i] : i \in 1 .. Len(ops)}
          BY <1>1, <2>1, <4>2
        <4> QED  BY <1>1, <2>1, <4>1, <4>2
      <3>2. Unfocus(t, s)'
        BY <3>1 DEF Unfocus
      <3>3. Working(t)'
        <4>1. Steps(t)' # {}
          BY <2>1
        <4> QED  BY <1>2, <4>1, NoSteps DEF Steps, CallInv, Working
      <3>4. s.op \notin {"drop", "unlock"}
        BY <3>1 DEF Unfocus
      <3>5. ~First(t, "drop")'
        BY <1>9, <2>1, <3>4, DropIsLast DEF CalmInv
      <3> QED  BY <1>13, <3>2, <3>3, <3>5 DEF First
    <2> QED  BY <1>7, <2>1 DEF Unfocuses
  <1>10. ASSUME NEW s \in Steps(t), Focuses(s), s # todo[t][1] PROVE Due'
    <2>1. s \in Steps(t)'
      BY <1>1, <1>10
    <2>2. Focuses(s)'
      BY <1>10 DEF Focuses
    <2> QED  BY <2>1, <2>2 DEF Due
  <1>11. ASSUME NEW i \in 1 .. Len(ops), Focuses(ops[i]) PROVE Due'
    <2>1. ops[i] \in Steps(t)'
      BY <1>1
    <2>2. Focuses(ops[i])'
      BY <1>11 DEF Focuses
    <2> QED  BY <2>1, <2>2 DEF Due
  <1>12. /\ Len(ops) = 0 => ~First(t, "handle")'
         /\ \A u \in DTasks \ {t} : ~First(u, "handle")'
    BY <1>1, <1>13 DEF First
  <1>14. /\ Shows(Below(count))
         /\ count > 0 => ~asleep[vps[elements[0].vp].owner] \/ Due' \/ Focuses(todo[t][1])
    <2>1. PICK op : op = todo[t][1].op
      OBVIOUS
    <2>2. First(t, op) /\ op \notin {"link", "make", "front", "shift"}
      BY <2>1 DEF First
    <2>3. /\ Shows(Below(count))
          /\ count > 0 => ~asleep[vps[elements[0].vp].owner] \/ Due
      BY <2>2, NowListed
    <2>4. Due => Due' \/ Focuses(todo[t][1])
      BY <1>7, <1>10 DEF Due
    <2> QED  BY <2>3, <2>4
  <1> QED  BY <1>4, <1>5, <1>6, <1>8, <1>9, <1>11, <1>12, <1>14

LEMMA StepFields ==
    ASSUME NEW x, NEW ev
    PROVE  /\ DesktopPart!Tell(x, ev).ev = ev /\ DesktopPart!Restore.ev = "exit"
           /\ DesktopPart!Find.ev = "exit" /\ DesktopPart!Link(x).ev = "exit"
           /\ DesktopPart!Make(x).ev = "exit" /\ DesktopPart!Front(x).ev = "exit"
           /\ DesktopPart!Return(x).ev = "exit" /\ DesktopPart!Drop(x).ev = "exit"
           /\ DesktopPart!Shift(x).ev = "exit" /\ DesktopPart!Unlock.ev = "exit"
  BY DEF DesktopPart!Op, DesktopPart!Find, DesktopPart!Link, DesktopPart!Make, DesktopPart!Front,
     DesktopPart!Return, DesktopPart!Drop, DesktopPart!Shift, DesktopPart!Tell,
     DesktopPart!Restore, DesktopPart!Unlock

LEMMA TellFocus ==
    ASSUME CallInv, CallInv', CalmInv, CalmInv', FocusInv, DesktopPart!TellPlace
    PROVE  FocusInv'
  <1>1. PICK t \in DTasks :
          /\ t = cur /\ Working(t) /\ First(t, "tell") /\ todo[t][1].op = "tell"
          /\ DesktopPart!X = todo[t][1].x /\ DesktopPart!Ev = todo[t][1].ev
          /\ Leads(t, todo[t], todo[t][1]) /\ OneCall /\ Laid(t)
    BY Reached DEF DesktopPart!TellPlace
  <1>11. PICK x \in DPlaces : x = todo[t][1].x
    BY <1>1, LeadsTo
  <1>12. PICK ev : ev = todo[t][1].ev
    OBVIOUS
  <1>2. x = todo[t][1].x /\ ev = todo[t][1].ev
    BY <1>11, <1>12
  <1>3. PICK v : v = elements[x].vp
    OBVIOUS
  <1>4. /\ UNCHANGED <<live, phase, mine, asleep, vps, elements, count, cur>>
        /\ \/ v = 0 /\ DesktopPart!Then(<<>>)
           \/ v # 0 /\ DesktopPart!Then(<<DesktopPart!Send(v, ev)>>)
    BY <1>1, <1>2, <1>3 DEF DesktopPart!TellPlace, DesktopPart!progs, DesktopPart!cpu,
       DesktopPart!list, DesktopPart!None
  <1>5. PICK ops :
          /\ AnySeq(ops) /\ DesktopPart!Then(ops)
          /\ \/ v = 0 /\ Len(ops) = 0
             \/ /\ v # 0 /\ Len(ops) = 1
                /\ ops[1].op = "send" /\ ops[1].x = v /\ ops[1].ev = ev
    <2>1. CASE v = 0
      BY <1>4, <2>1, Literals
    <2>2. CASE v # 0
      <3>1. PICK s : s = DesktopPart!Send(v, ev)
        OBVIOUS
      <3>2. s.op = "send" /\ s.x = v /\ s.ev = ev
        BY <3>1, Fields
      <3>3. AnySeq(<<s>>) /\ Len(<<s>>) = 1 /\ <<s>>[1] = s /\ DesktopPart!Then(<<s>>)
        BY <1>4, <2>2, <3>1, Literals
      <3> QED  BY <2>2, <3>2, <3>3
    <2> QED  BY <2>1, <2>2
  <1>6. ASSUME NEW i \in 1 .. Len(ops)
        PROVE  /\ ops[i].op \in {"send", "handle", "restore"}
               /\ ops[i].ev = "unfocused" => Unfocus(t, ops[i])
    <2>1. i = 1 /\ ops[i].op = "send" /\ ops[i].x = v /\ ops[i].ev = ev
      <3>1. Len(ops) = 1 => i = 1
        OBVIOUS
      <3>2. Len(ops) # 0
        OBVIOUS
      <3> QED  BY <1>5, <3>1, <3>2
    <2>2. ASSUME ev = "unfocused" PROVE Unfocus(t, ops[i])
      <3>1. todo[t][1] \in Steps(t)
        BY <1>1 DEF Steps, Working, CallInv
      <3>2. Unfocus(t, todo[t][1])
        BY <1>2, <2>2, <3>1 DEF FocusInv, Unfocuses
      <3> QED  BY <1>1, <1>2, <1>3, <2>1, <3>2 DEF Unfocus
    <2> QED  BY <2>1, <2>2
  <1>7. /\ ListInv' /\ HeldInv' /\ (\A p \in DProgs : Asks(p)') /\ Unlocks'
        /\ \A u \in DTasks : Unfocuses(u)'
        /\ Shows(Below(count))
        /\ count > 0 => ~asleep[vps[elements[0].vp].owner] \/ Due' \/ Focuses(todo[t][1])
        /\ (\E i \in 1 .. Len(ops) : Focuses(ops[i])) => Due'
        /\ Len(ops) = 0 => ~First(t, "handle")'
        /\ \A u \in DTasks \ {t} : ~First(u, "handle")'
    BY <1>1, <1>4, <1>5, <1>6, Goes
  <1>8. FrontInv'
    <2>1. ASSUME count > 0, Focuses(todo[t][1]) PROVE Due'
      <3>1. x = 0 /\ ev = "focused"
        BY <1>1, <1>2, <2>1 DEF Focuses
      <3>2. 0 \in Below(count) /\ 0 \notin DVps
        BY <2>1, DesktopAssumption DEF Below, DPlaces, DVps
      <3>3. v # 0
        BY <1>3, <1>7, <3>1, <3>2 DEF Shows
      <3>4. Focuses(ops[1]) /\ 1 \in 1 .. Len(ops)
        BY <1>3, <1>5, <3>1, <3>3 DEF Focuses
      <3> QED  BY <1>7, <3>4
    <2> QED  BY <1>4, <1>7, <2>1 DEF FrontInv
  <1>9. AwakeInv'
    BY <1>4 DEF FocusInv, AwakeInv
  <1>10. \A u \in DTasks : Runs(u)'
    <2>1. ~First(t, "handle")'
      <3>1. CASE Len(ops) = 0
        BY <1>7, <3>1
      <3>2. CASE Len(ops) = 1
        <4>1. todo'[t][1] = ops[1]
          <5>1. ~First(t, "make")
            BY <1>1 DEF First
          <5> QED  BY <1>1, <1>5, <3>2, <5>1, Proceeds
        <4> QED  BY <1>5, <3>2, <4>1 DEF First
      <3> QED  BY <1>5, <3>1, <3>2
    <2> QED  BY <1>7, <2>1 DEF Runs
  <1> QED  BY <1>7, <1>8, <1>9, <1>10 DEF FocusInv

LEMMA DeliverFocus ==
    ASSUME CallInv, CallInv', CalmInv, CalmInv', FocusInv, DesktopPart!Deliver
    PROVE  FocusInv'
  <1>1. PICK t \in DTasks :
          /\ t = cur /\ Working(t) /\ First(t, "send") /\ todo[t][1].op = "send"
          /\ DesktopPart!X = todo[t][1].x /\ DesktopPart!Ev = todo[t][1].ev
          /\ Leads(t, todo[t], todo[t][1]) /\ OneCall /\ Laid(t)
    BY Reached DEF DesktopPart!Deliver
  <1>11. PICK v \in DVps : v = todo[t][1].x
    BY <1>1, LeadsTo
  <1>12. PICK ev : ev = todo[t][1].ev
    OBVIOUS
  <1>2. v = todo[t][1].x /\ ev = todo[t][1].ev
    BY <1>11, <1>12
  <1>4. /\ UNCHANGED <<live, phase, mine, asleep, vps, elements, count, cur>>
        /\ \/ vps[v].handler = 0 /\ DesktopPart!Then(<<>>)
           \/ /\ vps[v].handler # 0
              /\ DesktopPart!Then(<<DesktopPart!Handle(v, ev), DesktopPart!Restore>>)
              /\ lock' = TRUE /\ runid' = vps[v].owner /\ mapped' = vps[v].owner
    BY <1>1, <1>2 DEF DesktopPart!Deliver, DesktopPart!progs, DesktopPart!cpu,
       DesktopPart!list, DesktopPart!Nobody, DesktopPart!Home
  <1>5. PICK ops :
          /\ AnySeq(ops) /\ DesktopPart!Then(ops)
          /\ \/ vps[v].handler = 0 /\ Len(ops) = 0
             \/ /\ vps[v].handler # 0 /\ Len(ops) = 2
                /\ ops[1].op = "handle" /\ ops[1].x = v /\ ops[1].ev = ev
                /\ ops[2].op = "restore" /\ ops[2].ev = "exit"
                /\ lock' = TRUE /\ runid' = vps[v].owner /\ mapped' = vps[v].owner
    <2>1. CASE vps[v].handler = 0
      BY <1>4, <2>1, Literals
    <2>2. CASE vps[v].handler # 0
      <3>1. PICK s, r : s = DesktopPart!Handle(v, ev) /\ r = DesktopPart!Restore
        OBVIOUS
      <3>2. s.op = "handle" /\ s.x = v /\ s.ev = ev /\ r.op = "restore" /\ r.ev = "exit"
        BY <3>1, Fields, StepFields
      <3>3. /\ AnySeq(<<s, r>>) /\ Len(<<s, r>>) = 2 /\ <<s, r>>[1] = s /\ <<s, r>>[2] = r
            /\ DesktopPart!Then(<<s, r>>)
        BY <1>4, <2>2, <3>1, Literals
      <3> QED  BY <1>4, <2>2, <3>2, <3>3
    <2> QED  BY <2>1, <2>2
  <1>6. ASSUME NEW i \in 1 .. Len(ops)
        PROVE  /\ ops[i].op \in {"send", "handle", "restore"}
               /\ ops[i].ev = "unfocused" => Unfocus(t, ops[i])
    <2>1. \/ i = 1 /\ ops[i].op = "handle" /\ ops[i].x = v /\ ops[i].ev = ev
          \/ i = 2 /\ ops[i].op = "restore" /\ ops[i].ev = "exit"
      <3>1. Len(ops) = 2 => i = 1 \/ i = 2
        OBVIOUS
      <3>2. Len(ops) # 0
        OBVIOUS
      <3> QED  BY <1>5, <3>1, <3>2
    <2>2. ASSUME ev = "unfocused", ops[i].op = "handle", ops[i].x = v PROVE Unfocus(t, ops[i])
      <3>1. todo[t][1] \in Steps(t)
        BY <1>1 DEF Steps, Working, CallInv
      <3>2. Unfocus(t, todo[t][1])
        BY <1>2, <2>2, <3>1 DEF FocusInv, Unfocuses
      <3> QED  BY <1>1, <1>2, <2>2, <3>2 DEF Unfocus
    <2> QED  BY <2>1, <2>2
  <1>7. /\ ListInv' /\ HeldInv' /\ (\A p \in DProgs : Asks(p)') /\ Unlocks'
        /\ \A u \in DTasks : Unfocuses(u)'
        /\ Shows(Below(count))
        /\ count > 0 => ~asleep[vps[elements[0].vp].owner] \/ Due' \/ Focuses(todo[t][1])
        /\ (\E i \in 1 .. Len(ops) : Focuses(ops[i])) => Due'
        /\ Len(ops) = 0 => ~First(t, "handle")'
        /\ \A u \in DTasks \ {t} : ~First(u, "handle")'
    BY <1>1, <1>4, <1>5, <1>6, Goes
  <1>8. FrontInv'
    <2>1. ASSUME count > 0, Focuses(todo[t][1])
          PROVE  Due' \/ ~asleep[vps[elements[0].vp].owner]
      <3>1. v = elements[0].vp /\ ev = "focused"
        BY <1>1, <1>2, <2>1 DEF Focuses
      <3>2. 0 \in Below(count)
        BY <2>1, DesktopAssumption DEF Below, DPlaces
      <3>3. vps[v].open
        BY <1>7, <3>1, <3>2 DEF Shows
      <3>4. CASE vps[v].handler = 0
        <4>1. vps[v].owner \in DProgs /\ phase[vps[v].owner] = "opened"
          BY <3>3, <3>4 DEF FocusInv, HeldInv
        <4> QED  BY <3>1, <4>1 DEF FocusInv, AwakeInv
      <3>5. CASE vps[v].handler # 0
        <4>1. Focuses(ops[1]) /\ 1 \in 1 .. Len(ops)
          BY <1>5, <3>1, <3>5 DEF Focuses
        <4> QED  BY <1>7, <4>1
      <3> QED  BY <3>4, <3>5
    <2> QED  BY <1>4, <1>7, <2>1 DEF FrontInv
  <1>9. AwakeInv'
    BY <1>4 DEF FocusInv, AwakeInv
  <1>10. \A u \in DTasks : Runs(u)'
    <2>1. Runs(t)'
      <3>1. CASE Len(ops) = 0
        BY <1>7, <3>1 DEF Runs
      <3>2. CASE Len(ops) = 2
        <4>1. todo'[t][1] = ops[1]
          <5>1. ~First(t, "make")
            BY <1>1 DEF First
          <5> QED  BY <1>1, <1>5, <3>2, <5>1, Proceeds
        <4> QED  BY <1>1, <1>4, <1>5, <3>2, <4>1 DEF Runs
      <3> QED  BY <1>5, <3>1, <3>2
    <2> QED  BY <1>7, <2>1 DEF Runs
  <1> QED  BY <1>7, <1>8, <1>9, <1>10 DEF FocusInv

LEMMA HandleFocus ==
    ASSUME CallInv, CallInv', CalmInv, CalmInv', FocusInv, DesktopPart!HandleEvent
    PROVE  FocusInv'
  <1>1. PICK t \in DTasks :
          /\ t = cur /\ Working(t) /\ First(t, "handle") /\ todo[t][1].op = "handle"
          /\ DesktopPart!X = todo[t][1].x /\ DesktopPart!Ev = todo[t][1].ev
          /\ Leads(t, todo[t], todo[t][1]) /\ OneCall /\ Laid(t)
    BY Reached DEF DesktopPart!HandleEvent
  <1>11. PICK v \in DVps : v = todo[t][1].x
    BY <1>1, LeadsTo
  <1>12. PICK ev, r, w, q : ev = todo[t][1].ev /\ r = runid /\ w = elements[0].vp
                            /\ q = vps[elements[0].vp].owner
    OBVIOUS
  <1>2. v = todo[t][1].x /\ ev = todo[t][1].ev
    BY <1>11, <1>12
  <1>3. /\ UNCHANGED <<live, phase, mine, vps, elements, count, cur>>
        /\ DesktopPart!Then(<<>>) /\ vps[v].handler = mapped
        /\ asleep' = IF ev = "exit" THEN asleep ELSE [asleep EXCEPT ![r] = ev = "unfocused"]
    BY <1>1, <1>2, <1>12 DEF DesktopPart!HandleEvent, DesktopPart!cpu, DesktopPart!list
  <1>4. vps[v].handler = r /\ vps[v].owner = r /\ r \in DProgs \cup {0}
    <2>1. runid = mapped /\ runid = vps[v].owner
      BY <1>1, <1>2 DEF FocusInv, Runs
    <2> QED  BY <1>3, <1>12, <2>1 DEF CalmInv, ViewTypes
  <1>5. PICK ops : AnySeq(ops) /\ DesktopPart!Then(ops) /\ Len(ops) = 0
    BY <1>3, Literals
  <1>6. /\ ListInv' /\ HeldInv' /\ (\A p \in DProgs : Asks(p)') /\ Unlocks'
        /\ \A u \in DTasks : Unfocuses(u)'
        /\ Shows(Below(count))
        /\ count > 0 => ~asleep[vps[elements[0].vp].owner] \/ Due' \/ Focuses(todo[t][1])
        /\ Len(ops) = 0 => ~First(t, "handle")'
        /\ \A u \in DTasks \ {t} : ~First(u, "handle")'
    <2>1. \A i \in 1 .. Len(ops) :
            /\ ops[i].op \in {"send", "handle", "restore"}
            /\ ops[i].ev = "unfocused" => Unfocus(t, ops[i])
      BY <1>5
    <2> QED  BY <1>1, <1>3, <1>5, <2>1, Goes
  <1>7. asleep \in [DProgs -> BOOLEAN] /\ count \in Nat /\ 0 \notin DProgs
    BY DesktopAssumption DEF FocusInv, AwakeInv, CalmInv, ViewTypes, DProgs
  <1>8. asleep' \in [DProgs -> BOOLEAN] /\ \A p \in DProgs :
          asleep'[p] = IF p = r /\ ev # "exit" THEN ev = "unfocused" ELSE asleep[p]
    BY <1>3, <1>7
  \* The program in front is not the one that is put to sleep.
  <1>9. count > 0 =>
          /\ vps[w].open /\ q = vps[w].owner /\ q \in DProgs
          /\ Holds(q, w) \/ phase[q] = "opened"
    <2> SUFFICES ASSUME count > 0
                 PROVE  /\ vps[w].open /\ q = vps[w].owner /\ q \in DProgs
                        /\ Holds(q, w) \/ phase[q] = "opened"
      OBVIOUS
    <2>1. 0 \in Below(count)
      BY DesktopAssumption DEF Below, DPlaces
    <2>2. w \in DVps /\ vps[w].open /\ q = vps[w].owner
      BY <1>6, <1>12, <2>1 DEF Shows
    <2> QED  BY <2>2 DEF FocusInv, HeldInv
  <1>10. r # 0 => mine[r] = v /\ phase[r] \in {"running", "closed"}
    <2>1. r # 0 => Holds(r, v)
      BY <1>4 DEF FocusInv, HeldInv
    <2> QED  BY <2>1 DEF Holds
  <1>13. ASSUME ev = "unfocused"
         PROVE  r # q /\ (t # 0 => t = q) /\ ~Focuses(todo[t][1])
    <2>1. todo[t][1] \in Steps(t)
      BY <1>1 DEF Steps, Working, CallInv
    <2>2. Unfocus(t, todo[t][1])
      BY <1>2, <1>13, <2>1 DEF FocusInv, Unfocuses
    <2>3. v = elements[1].vp /\ count > 1 /\ (t # 0 => t = q)
      BY <1>1, <1>2, <1>12, <2>2 DEF Unfocus
    <2>4. w # v
      <3>1. 0 \in Below(count) /\ 1 \in Below(count)
        BY <1>7, <2>3, DesktopAssumption DEF Below, DPlaces
      <3> QED  BY <1>6, <1>12, <2>3, <3>1 DEF Shows
    <2>5. q \in DProgs /\ (mine[q] = w \/ phase[q] = "opened")
      BY <1>7, <1>9, <2>3 DEF Holds
    <2>6. r # q
      BY <1>7, <1>10, <2>4, <2>5
    <2> QED  BY <1>2, <1>13, <2>3, <2>6 DEF Focuses
  <1>14. FrontInv'
    <2> SUFFICES ASSUME count > 0, ~Due' PROVE ~asleep'[q]
      BY <1>3, <1>12 DEF FrontInv
    <2>1. q \in DProgs
      BY <1>9
    <2>2. ~asleep[q] \/ Focuses(todo[t][1])
      BY <1>6, <1>12
    <2>3. CASE Focuses(todo[t][1])
      <3>1. v = w /\ ev = "focused"
        BY <1>1, <1>2, <1>12, <2>3 DEF Focuses
      <3>2. r = q
        BY <1>4, <1>12, <3>1
      <3> QED  BY <1>8, <2>1, <3>1, <3>2
    <2>4. CASE ~asleep[q]
      <3>1. CASE ev = "unfocused"
        BY <1>8, <1>13, <2>1, <2>4, <3>1
      <3>2. CASE ev # "unfocused"
        BY <1>8, <2>1, <2>4, <3>2
      <3> QED  BY <3>1, <3>2
    <2> QED  BY <2>2, <2>3, <2>4
  <1>15. AwakeInv'
    <2>1. ASSUME cur \in DProgs PROVE ~asleep'[cur]
      <3>1. ~asleep[cur]
        BY <2>1 DEF FocusInv, AwakeInv
      <3>2. CASE ev = "unfocused"
        <4>1. cur # r
          BY <1>1, <1>7, <1>13, <2>1, <3>2
        <4> QED  BY <1>8, <2>1, <3>1, <4>1
      <3>3. CASE ev # "unfocused"
        BY <1>8, <2>1, <3>1, <3>3
      <3> QED  BY <3>2, <3>3
    <2>2. ASSUME NEW p \in DProgs, phase[p] \in {"new", "opened"} PROVE ~asleep'[p]
      <3>1. ~asleep[p]
        BY <2>2 DEF FocusInv, AwakeInv
      <3>2. p # r
        BY <1>7, <1>10, <2>2
      <3> QED  BY <1>8, <3>1, <3>2
    <2> QED  BY <1>3, <1>8, <2>1, <2>2 DEF AwakeInv
  <1>16. \A u \in DTasks : Runs(u)'
    BY <1>5, <1>6 DEF Runs
  <1> QED  BY <1>6, <1>14, <1>15, <1>16 DEF FocusInv

LEMMA EndFocus ==
    ASSUME CallInv, CallInv', CalmInv, CalmInv', FocusInv,
           DesktopPart!RestoreTask \/ DesktopPart!EndPass
    PROVE  FocusInv'
  <1>1. PICK op \in {"restore", "unlock"} : DesktopPart!At(op)
    BY DEF DesktopPart!RestoreTask, DesktopPart!EndPass
  <1>2. PICK t \in DTasks :
          /\ t = cur /\ Working(t) /\ todo[t][1].op = op /\ OneCall /\ Laid(t)
    BY <1>1, Reached
  <1>3. /\ DesktopPart!Then(<<>>)
        /\ UNCHANGED <<live, phase, mine, asleep, vps, elements, count, cur>>
    BY DEF DesktopPart!RestoreTask, DesktopPart!EndPass, DesktopPart!progs, DesktopPart!list
  <1>5. PICK ops : AnySeq(ops) /\ DesktopPart!Then(ops) /\ Len(ops) = 0
    BY <1>3, Literals
  <1>6. /\ ListInv' /\ HeldInv' /\ (\A p \in DProgs : Asks(p)') /\ Unlocks'
        /\ \A u \in DTasks : Unfocuses(u)'
        /\ count > 0 => ~asleep[vps[elements[0].vp].owner] \/ Due' \/ Focuses(todo[t][1])
        /\ Len(ops) = 0 => ~First(t, "handle")'
        /\ \A u \in DTasks \ {t} : ~First(u, "handle")'
    <2>1. \A i \in 1 .. Len(ops) :
            /\ ops[i].op \in {"send", "handle", "restore"}
            /\ ops[i].ev = "unfocused" => Unfocus(t, ops[i])
      BY <1>5
    <2> QED  BY <1>2, <1>3, <1>5, <2>1, Goes
  <1>7. FrontInv'
    <2>1. ~Focuses(todo[t][1])
      BY <1>2 DEF Focuses
    <2> QED  BY <1>3, <1>6, <2>1 DEF FrontInv
  <1>8. AwakeInv'
    BY <1>3 DEF FocusInv, AwakeInv
  <1>9. \A u \in DTasks : Runs(u)'
    BY <1>5, <1>6 DEF Runs
  <1> QED  BY <1>6, <1>7, <1>8, <1>9 DEF FocusInv
-----------------------------------------------------------------------------
(* The list and the focus while a viewport is opened and brought to the     *)
(* front.                                                                  *)

\* It is enough to look at the task whose call goes on.
LEMMA OnlyOne ==
    ASSUME CallInv', NEW t \in DTasks, \A u \in DTasks \ {t} : ~Working(u)',
           HeldInv', AwakeInv', \A p \in DProgs : Asks(p)', t = 0 => Unlocks',
           Runs(t)', Unfocuses(t)', Linking(t)', Making(t)', Fronting(t)', Shifting(t)',
           \/ First(t, "link")' \/ First(t, "make")' \/ First(t, "shift")'
           \/ First(t, "front")' /\ t # 0
           \/ /\ Shows(Below(count))'
              /\ count' > 0 => ~asleep'[vps'[elements'[0].vp].owner] \/ Due',
           First(t, "link")' \/ (count' = 0 => ~elements'[0].inUse)
    PROVE  FocusInv'
  <1>1. ASSUME NEW u \in DTasks \ {t}
        PROVE  /\ Runs(u)' /\ Unfocuses(u)' /\ Linking(u)' /\ Making(u)' /\ Fronting(u)'
               /\ Shifting(u)'
    <2>1. Steps(u)' = {}
      BY NoSteps DEF CallInv, Steps, Working
    <2> QED  BY <1>1, <2>1 DEF Runs, Unfocuses, Linking, Making, Fronting, Shifting, First
  <1>2. Usual' => /\ Shows(Below(count))'
                  /\ count' > 0 => ~asleep'[vps'[elements'[0].vp].owner] \/ Due'
    BY DEF Usual
  <1>3. (\A u \in DTasks : ~First(u, "link")') /\ count' = 0 => ~elements'[0].inUse
    OBVIOUS
  <1>4. Unlocks'
    BY DEF Unlocks, DTasks
  <1>5. ListInv'
    BY <1>1, <1>2, <1>3 DEF ListInv
  <1>6. FrontInv'
    BY <1>2 DEF FrontInv
  <1> QED  BY <1>1, <1>4, <1>5, <1>6 DEF FocusInv

\* A call that has one step left makes way for another one.
LEMMA InItsPlace ==
    ASSUME CallInv, CallInv', OneCall, NEW t \in DTasks, t = cur, Laid(t), Working(t),
           ~First(t, "make"), Len(todo[t]) = 1, NEW s, DesktopPart!Then(<<s>>)
    PROVE  /\ \A u \in DTasks \ {t} : ~Working(u) /\ ~Working(u)' /\ todo'[u] = todo[u]
           /\ Steps(t) = {todo[t][1]} /\ \A u \in DTasks \ {t} : Steps(u) = {}
           /\ Steps(t)' = {s} /\ Working(t)' /\ todo'[t][1] = s /\ Len(todo'[t]) = 1
  <1> DEFINE ops == <<s>>
  <1>1. AnySeq(ops) /\ Len(ops) = 1 /\ ops[1] = s
    BY Literals
  <1>2. DesktopPart!Then(ops)
    OBVIOUS
  <1> HIDE DEF ops
  <1>3. /\ \A u \in DTasks \ {t} : ~Working(u) /\ ~Working(u)' /\ todo'[u] = todo[u]
        /\ Steps(t) = {todo[t][1]} \cup Rest(t)
        /\ Steps(t)' = {ops[i] : i \in 1 .. Len(ops)} \cup Rest(t)
        /\ Len(ops) > 0 => Working(t)' /\ todo'[t][1] = ops[1]
    BY <1>1, <1>2, Proceeds
  <1>4. Len(todo'[t]) = 1
    <2>1. Len(todo'[t]) = Len(ops) + Len(todo[t]) - 1
      BY ZenonT(60), <1>1, <1>2, Behind
    <2> QED  BY <1>1, <2>1
  <1>5. Rest(t) = {}
    BY DEF Rest
  <1>6. {ops[i] : i \in 1 .. Len(ops)} = {s}
    BY <1>1
  <1>7. \A u \in DTasks \ {t} : Steps(u) = {}
    BY <1>3, NoSteps DEF CallInv, Steps, Working
  <1> QED  BY <1>1, <1>3, <1>4, <1>5, <1>6, <1>7

\* A program that is opening its viewport has none.
LEMMA OpeningAsks ==
    ASSUME \A p \in DProgs : Asks(p), NEW t \in DProgs, UNCHANGED <<phase, mine>>,
           \A u \in DTasks \ {t} : todo'[u] = todo[u],
           phase[t] = "opened", mine[t] = 0, ~First(t, "drop")'
    PROVE  \A p \in DProgs : Asks(p)'
  <1> SUFFICES ASSUME NEW p \in DProgs PROVE Asks(p)'
    OBVIOUS
  <1>1. CASE p = t
    BY <1>1 DEF Asks
  <1>2. CASE p # t
    <2>1. todo'[p] = todo[p]
      BY <1>2 DEF DTasks
    <2> QED  BY <2>1 DEF Asks, First, Working, Steps
  <1> QED  BY <1>1, <1>2

LEMMA FindFocus ==
    ASSUME CallInv, CallInv', CalmInv, CalmInv', FocusInv, DesktopPart!FindPlace
    PROVE  FocusInv'
  <1>1. PICK t \in DTasks :
          /\ t = cur /\ Working(t) /\ First(t, "find") /\ todo[t][1].op = "find"
          /\ Leads(t, todo[t], todo[t][1]) /\ OneCall /\ Laid(t) /\ ~First(t, "make")
    BY Reached DEF DesktopPart!FindPlace
  <1>2. t # 0 /\ t \in DProgs /\ Len(todo[t]) = 1
    BY <1>1, LeadsTo DEF DTasks
  <1>3. UNCHANGED <<live, phase, mine, asleep, vps, elements, cur>> /\ count \in Nat
    BY DEF DesktopPart!FindPlace, DesktopPart!progs, DesktopPart!cpu, CalmInv, ViewTypes
  <1> DEFINE free == {e \in DPlaces : ~elements[e].inUse}
  <1>4. PICK n : n = DesktopPart!FirstOf(free)
    OBVIOUS
  <1>5. PICK s :
          /\ DesktopPart!Then(<<s>>) /\ s.ev = "exit"
          /\ \/ s.op = "return" /\ s.x = 0 /\ count' = count
             \/ free # {} /\ s.op = "link" /\ s.x = n /\ count' = count + 1
    <2>1. \/ DesktopPart!Then(<<DesktopPart!Return(0)>>) /\ count' = count
          \/ free # {} /\ DesktopPart!Then(<<DesktopPart!Link(n)>>) /\ count' = count + 1
      BY <1>4 DEF DesktopPart!FindPlace, DesktopPart!Places, DPlaces, DesktopPart!None
    <2>2. /\ DesktopPart!Return(0).op = "return" /\ DesktopPart!Return(0).x = 0
          /\ DesktopPart!Link(n).op = "link" /\ DesktopPart!Link(n).x = n
          /\ DesktopPart!Return(0).ev = "exit" /\ DesktopPart!Link(n).ev = "exit"
      BY Fields, StepFields
    <2> HIDE DEF free
    <2> QED  BY <2>1, <2>2
  <1>6. /\ \A u \in DTasks \ {t} : ~Working(u) /\ ~Working(u)' /\ todo'[u] = todo[u]
        /\ Steps(t) = {todo[t][1]} /\ \A u \in DTasks \ {t} : Steps(u) = {}
        /\ Steps(t)' = {s} /\ Working(t)' /\ todo'[t][1] = s /\ Len(todo'[t]) = 1
    BY <1>1, <1>2, <1>5, InItsPlace
  <1>7. /\ Shows(Below(count)) /\ (count = 0 => ~elements[0].inUse)
        /\ count > 0 => ~asleep[vps[elements[0].vp].owner]
    <2>1. ~Due
      BY <1>1, <1>6 DEF Due, Focuses
    <2> QED  BY <1>1, <2>1, NowListed
  <1>8. HeldInv'
    <2>1. ~First(t, "drop") /\ \A v \in DVps : ~Brings(t, v)
      BY <1>1, <1>2 DEF First, Brings
    <2> QED  BY <1>3, <1>6, <2>1, StillHeld DEF FocusInv, CalmInv
  <1>9. \A p \in DProgs : Asks(p)'
    <2>1. phase[t] = "opened" /\ mine[t] = 0
      BY <1>1, <1>2 DEF FocusInv, Asks
    <2>2. ~First(t, "drop")'
      BY <1>5, <1>6 DEF First
    <2> QED  BY <1>2, <1>3, <1>6, <2>1, <2>2, OpeningAsks DEF FocusInv
  <1>10. AwakeInv' /\ Runs(t)' /\ Unfocuses(t)' /\ Making(t)' /\ Fronting(t)' /\ Shifting(t)'
    BY <1>3, <1>5, <1>6 DEF FocusInv, AwakeInv, Runs, Unfocuses, Making, Fronting, Shifting, First
  <1>11. CASE s.op = "return" /\ count' = count
    <2>1. Shows(Below(count))' /\ (count' > 0 => ~asleep'[vps'[elements'[0].vp].owner])
          /\ (count' = 0 => ~elements'[0].inUse)
      BY <1>3, <1>7, <1>11 DEF Shows, Below
    <2>2. Linking(t)'
      BY <1>6, <1>11 DEF Linking, First
    <2> QED  BY <1>2, <1>6, <1>8, <1>9, <1>10, <2>1, <2>2, OnlyOne
  <1>12. CASE free # {} /\ s.op = "link" /\ s.x = n /\ count' = count + 1
    <2>1. n \in free /\ \A e \in free : n <= e
      <3>1. free \in SUBSET Nat
        BY DEF DPlaces
      <3> QED  BY <1>4, <1>12, <3>1, FirstFound
    <2>2. n = 0 \/ count' > 1
      <3>1. CASE count = 0
        <4>1. 0 \in free /\ n \in Nat
          BY <1>7, <2>1, <3>1, DesktopAssumption DEF DPlaces
        <4> QED  BY <2>1, <4>1
      <3>2. CASE count # 0
        BY <1>3, <1>12, <3>2
      <3> QED  BY <3>1, <3>2
    <2>3. count' - 1 = count /\ count' > 0
      BY <1>3, <1>12
    <2>4. Shows(Below(count - 1))'
      BY <1>3, <1>7, <2>3 DEF Shows, Below
    <2>5. Linking(t)' /\ First(t, "link")'
      BY <1>6, <1>12, <2>2, <2>3, <2>4 DEF Linking, First
    <2> QED  BY <1>2, <1>6, <1>8, <1>9, <1>10, <2>5, OnlyOne
  <1> QED  BY <1>5, <1>11, <1>12

LEMMA LinkFocus ==
    ASSUME CallInv, CallInv', CalmInv, CalmInv', FocusInv, DesktopPart!LinkPlace
    PROVE  FocusInv'
  <1>1. PICK t \in DTasks :
          /\ t = cur /\ Working(t) /\ First(t, "link") /\ todo[t][1].op = "link"
          /\ DesktopPart!X = todo[t][1].x /\ Leads(t, todo[t], todo[t][1])
          /\ OneCall /\ Laid(t) /\ ~First(t, "make")
    BY Reached DEF DesktopPart!LinkPlace
  <1>2. PICK x \in DPlaces : x = DesktopPart!X /\ x = todo[t][1].x
    BY <1>1, LeadsTo
  <1>3. PICK v \in DVps : v = DesktopPart!FirstOf(DesktopPart!FreeVps) /\ ~vps[v].open
    <2>1. DesktopPart!FreeVps \in SUBSET Nat /\ DesktopPart!FreeVps # {}
          /\ \A v \in DesktopPart!FreeVps : v \in DVps /\ ~vps[v].open
      BY DEF DesktopPart!LinkPlace, DesktopPart!FreeVps, DesktopPart!Vps, DVps
    <2> QED  BY <2>1, FirstFound
  <1> DEFINE ops == <<DesktopPart!Make(v), DesktopPart!Front(x), DesktopPart!Return(v)>>
  <1>4. /\ elements' = [elements EXCEPT ![x] = [inUse |-> TRUE, vp |-> v]]
        /\ DesktopPart!Then(ops)
        /\ UNCHANGED <<live, phase, mine, asleep, vps, count, cur>>
    BY <1>2, <1>3 DEF DesktopPart!LinkPlace, DesktopPart!progs, DesktopPart!cpu
  <1>5. /\ AnySeq(ops) /\ Len(ops) = 3
        /\ ops[1].op = "make" /\ ops[1].x = v /\ ops[1].ev = "exit"
        /\ ops[2].op = "front" /\ ops[2].x = x /\ ops[2].ev = "exit"
        /\ ops[3].op = "return" /\ ops[3].x = v /\ ops[3].ev = "exit"
    <2>1. /\ AnySeq(ops) /\ Len(ops) = 3 /\ ops[1] = DesktopPart!Make(v)
          /\ ops[2] = DesktopPart!Front(x) /\ ops[3] = DesktopPart!Return(v)
      BY Literals
    <2> QED  BY <2>1, Fields, StepFields
  <1> HIDE DEF ops
  <1>6. t # 0 /\ t \in DProgs /\ Len(todo[t]) = 1
    BY <1>1, LeadsTo DEF DTasks
  <1>7. /\ \A u \in DTasks \ {t} : ~Working(u) /\ ~Working(u)' /\ todo'[u] = todo[u]
        /\ Steps(t)' = {ops[i] : i \in 1 .. Len(ops)} \cup Rest(t)
        /\ Len(ops) > 0 => Working(t)' /\ todo'[t][1] = ops[1]
    BY <1>1, <1>4, <1>5, Proceeds
  <1>8. \A i \in 1 .. Len(ops) : todo'[t][i] = ops[i]
    BY ZenonT(60), <1>1, <1>4, <1>5, Behind
  <1>9. Working(t)' /\ todo'[t][1] = ops[1] /\ todo'[t][2] = ops[2]
    BY <1>5, <1>7, <1>8
  <1>10. \A s \in Steps(t)' : s.ev = "exit"
    <2>1. Rest(t) = {}
      BY <1>6 DEF Rest
    <2>2. \A i \in 1 .. 3 : ops[i].ev = "exit"
      BY <1>5
    <2> QED  BY <1>5, <1>7, <2>1, <2>2
  <1>11. HeldInv'
    <2>1. ~First(t, "drop") /\ \A u \in DVps : ~Brings(t, u)
      BY <1>1, <1>6 DEF First, Brings
    <2> QED  BY <1>4, <1>7, <2>1, StillHeld DEF FocusInv, CalmInv
  <1>12. \A p \in DProgs : Asks(p)'
    <2>1. phase[t] = "opened" /\ mine[t] = 0
      BY <1>1, <1>6 DEF FocusInv, Asks
    <2>2. ~First(t, "drop")'
      BY <1>5, <1>9 DEF First
    <2> QED  BY <1>4, <1>6, <1>7, <2>1, <2>2, OpeningAsks DEF FocusInv
  <1>13. AwakeInv' /\ Runs(t)' /\ Unfocuses(t)' /\ Linking(t)' /\ Fronting(t)' /\ Shifting(t)'
    BY <1>4, <1>5, <1>9, <1>10
       DEF FocusInv, AwakeInv, Runs, Unfocuses, Linking, Fronting, Shifting, First
  <1>14. /\ Shows(Below(count - 1)) /\ count > 0 /\ (x = 0 \/ count > 1) /\ count \in Nat
         /\ count - 1 <= x
    <2>1. Shows(Below(count - 1)) /\ count > 0 /\ (x = 0 \/ count > 1)
      BY <1>1, <1>2 DEF FocusInv, ListInv, Linking
    <2>2. InUse(count - 1) /\ ~elements[x].inUse /\ count \in Nat
      BY <1>1, <1>2 DEF CalmInv, Counted, ViewTypes
    <2>3. ~(x < count - 1)
      BY <2>2 DEF InUse
    <2> QED  BY <2>1, <2>2, <2>3 DEF DPlaces
  <1>15. Making(t)' /\ First(t, "make")' /\ (count' = 0 => ~elements'[0].inUse)
    <2>1. \A e \in Below(count - 1) : e # x /\ elements'[e] = elements[e]
      BY <1>4, <1>14 DEF Below, DPlaces, CalmInv, ViewTypes
    <2>2. Shows(Below(count - 1))'
      BY <1>4, <1>14, <2>1 DEF Shows, Below
    <2>3. elements'[x].vp = v /\ ~vps'[v].open
      BY <1>3, <1>4 DEF CalmInv, ViewTypes
    <2>4. count' <= x + 1 /\ count' > 0 /\ (x = 0 \/ count' > 1) /\ count' # 0
      BY <1>4, <1>14 DEF DPlaces
    <2> QED  BY <1>5, <1>9, <2>2, <2>3, <2>4 DEF Making, First
  <1> QED  BY <1>6, <1>7, <1>11, <1>12, <1>13, <1>15, OnlyOne

LEMMA MakeFocus ==
    ASSUME CallInv, CallInv', CalmInv, CalmInv', FocusInv, DesktopPart!MakeViewport
    PROVE  FocusInv'
  <1>1. PICK t \in DTasks :
          /\ t = cur /\ Working(t) /\ First(t, "make") /\ todo[t][1].op = "make"
          /\ DesktopPart!X = todo[t][1].x /\ Leads(t, todo[t], todo[t][1])
          /\ OneCall /\ Laid(t)
    BY Reached DEF DesktopPart!MakeViewport
  <1>2. PICK v \in DVps : v = DesktopPart!X /\ v = todo[t][1].x
    BY <1>1, LeadsTo
  <1>3. /\ vps' = [vps EXCEPT ![v] = [open |-> TRUE, owner |-> t, handler |-> 0]]
        /\ DesktopPart!Then(<<>>)
        /\ UNCHANGED <<live, phase, mine, asleep, elements, count, cur>>
    <2>1. runid = t
      BY <1>1, Step1 DEF Borrowed, DesktopPart!MakeViewport
    <2> QED  BY <1>2, <2>1 DEF DesktopPart!MakeViewport, DesktopPart!progs, DesktopPart!Nobody
  <1>4. PICK x \in DPlaces :
          /\ t # 0 /\ t \in DProgs /\ Len(todo[t]) = 3
          /\ todo[t][2].op = "front" /\ todo[t][2].x = x
          /\ todo[t][3].op = "return" /\ todo[t][3].x = v
    BY <1>1, <1>2, LeadsTo DEF DTasks
  <1>5. /\ \A u \in DTasks \ {t} : todo'[u] = todo[u]
        /\ Len(todo'[t]) = 2 /\ todo'[t][1] = todo[t][2] /\ todo'[t][2] = todo[t][3]
    <2> DEFINE ops == <<>>
    <2>1. AnySeq(ops) /\ Len(ops) = 0 /\ DesktopPart!Then(ops)
      BY <1>3, Literals
    <2> HIDE DEF ops
    <2>2. /\ \A u \in DTasks \ {t} : todo'[u] = todo[u]
          /\ Len(todo'[t]) = Len(ops) + Len(todo[t]) - 1
          /\ \A i \in 1 .. Len(todo'[t]) : i > Len(ops) => todo'[t][i] = todo[t][i - Len(ops) + 1]
      BY SMTT(60), <1>1, <2>1, ThenIs
    <2> QED  BY <1>4, <2>1, <2>2
  <1>6. \A u \in DTasks \ {t} : ~Working(u) /\ ~Working(u)'
    BY <1>1, <1>5 DEF OneCall, Working
  <1>7. Steps(t)' = {todo[t][2], todo[t][3]} /\ {todo[t][2], todo[t][3]} \subseteq Steps(t)
    <2>1. 1 .. 2 = {1, 2} /\ 2 \in 1 .. 3 /\ 3 \in 1 .. 3
      OBVIOUS
    <2> QED  BY <1>4, <1>5, <2>1 DEF Steps
  <1>8. First(t, "front")' /\ todo'[t][1].x = x /\ Working(t)'
    BY <1>4, <1>5 DEF First, Working
  <1>9. \A p \in DProgs : Asks(p)'
    <2>1. /\ ~First(t, "find")' /\ ~First(t, "link")' /\ ~First(t, "make")'
          /\ ~First(t, "drop")'
      BY <1>8 DEF First
    <2> QED  BY <1>1, <1>3, <1>5, <1>7, <2>1, StillAsks DEF FocusInv
  <1>10. /\ AwakeInv' /\ Runs(t)' /\ Linking(t)' /\ Making(t)' /\ Shifting(t)'
    BY <1>3, <1>8 DEF FocusInv, AwakeInv, Runs, Linking, Making, Shifting, First
  <1>11. Unfocuses(t)'
    <2>1. \A s \in Steps(t) : s.ev # "unfocused"
      BY <1>1 DEF FocusInv, Unfocuses
    <2> QED  BY <1>7, <2>1 DEF Unfocuses
  <1>12. /\ Shows(Below(count - 1)) /\ count > 0 /\ count <= x + 1 /\ (x = 0 \/ count > 1)
         /\ elements[x].vp = v /\ ~vps[v].open
    BY <1>1, <1>2, <1>4 DEF FocusInv, ListInv, Making
  <1>13. /\ vps'[v].open /\ vps'[v].owner = t /\ vps'[v].handler = 0
         /\ \A u \in DVps \ {v} : vps'[u] = vps[u]
    BY <1>3 DEF CalmInv, ViewTypes
  <1>14. Fronting(t)'
    <2>1. Shows(Below(count - 1) \cup {x})'
      <3>1. ASSUME NEW e \in Below(count - 1)
            PROVE  elements'[e].vp \in DVps \ {v} /\ vps'[elements'[e].vp].open
        BY <1>3, <1>12, <1>13 DEF Shows
      <3>2. elements'[x].vp = v /\ v \in DVps /\ vps'[v].open
        BY <1>3, <1>12, <1>13
      <3>3. \A e, f \in Below(count - 1) : elements'[e].vp = elements'[f].vp => e = f
        BY <1>3, <1>12 DEF Shows
      <3>4. ASSUME NEW u \in DVps, vps'[u].open
            PROVE  \E e \in Below(count - 1) \cup {x} : elements'[e].vp = u
        <4>1. CASE u = v
          BY <3>2, <4>1
        <4>2. CASE u # v
          BY <1>3, <1>12, <1>13, <3>4, <4>2 DEF Shows
        <4> QED  BY <4>1, <4>2
      <3>5. Below(count - 1)' = Below(count - 1)
        BY <1>3 DEF Below
      <3> QED  BY <3>1, <3>2, <3>3, <3>4, <3>5 DEF Shows
    <2> QED  BY <1>3, <1>4, <1>8, <1>12, <1>13, <2>1 DEF Fronting
  <1>15. HeldInv'
    <2>1. Brings(t, v)' /\ phase'[t] = "opened" /\ live'[t]
      <3>1. phase[t] = "opened" /\ live[t]
        BY <1>1, <1>4 DEF FocusInv, Asks, OneCall
      <3> QED  BY <1>3, <1>4, <1>5, <1>8, <3>1 DEF Brings, First
    <2>2. ASSUME NEW p \in DProgs, NEW u \in DVps
          PROVE  (Holds(p, u) => Holds(p, u)') /\ (Brings(p, u) => Brings(p, u)')
      <3>1. CASE p = t
        BY <1>1, <1>3, <3>1 DEF Holds, Brings, First
      <3>2. CASE p # t
        <4>1. todo'[p] = todo[p]
          BY <1>5, <3>2 DEF DTasks
        <4> QED  BY <1>3, <4>1 DEF Holds, Brings, First, Working
      <3> QED  BY <3>1, <3>2
    <2>3. ASSUME NEW u \in DVps \ {v}
          PROVE  /\ vps'[u].open =>
                      /\ vps'[u].owner \in DProgs /\ live'[vps'[u].owner]
                      /\ \/ Holds(vps[u].owner, u)' /\ vps'[u].handler # 0
                         \/ /\ phase'[vps'[u].owner] = "opened"
                            /\ mine'[vps'[u].owner] = u \/ Brings(vps[u].owner, u)'
                 /\ vps'[u].handler # 0 => live'[vps'[u].handler] /\ Holds(vps[u].handler, u)'
      <3>1. PICK p, h : p = vps[u].owner /\ h = vps[u].handler
        OBVIOUS
      <3>2. h \in DProgs \cup {0} /\ vps'[u] = vps[u]
        BY <1>13, <3>1 DEF CalmInv, ViewTypes
      <3>3. vps[u].open =>
              /\ p \in DProgs /\ live[p]
              /\ \/ Holds(p, u) /\ h # 0
                 \/ phase[p] = "opened" /\ (mine[p] = u \/ Brings(p, u))
        BY <3>1 DEF FocusInv, HeldInv
      <3>4. h # 0 => live[h] /\ Holds(h, u)
        BY <3>1 DEF FocusInv, HeldInv
      <3>5. vps[u].open =>
              /\ p \in DProgs /\ live'[p]
              /\ \/ Holds(p, u)' /\ h # 0
                 \/ phase'[p] = "opened" /\ (mine'[p] = u \/ Brings(p, u)')
        BY <1>3, <2>2, <3>3
      <3>6. h # 0 => live'[h] /\ Holds(h, u)'
        BY <1>3, <2>2, <3>2, <3>4
      <3>7. vps'[u].owner = p /\ vps'[u].handler = h
        BY <3>1, <3>2
      <3> QED  BY <3>1, <3>2, <3>5, <3>6, <3>7 DEF Holds, Brings
    <2> QED  BY <1>4, <1>13, <2>1, <2>3 DEF HeldInv
  <1>16. count' = 0 => ~elements'[0].inUse
    BY <1>3, <1>12
  <1> QED  BY <1>4, <1>6, <1>8, <1>9, <1>10, <1>11, <1>14, <1>15, <1>16, OnlyOne

LEMMA ReturnFocus ==
    ASSUME CallInv, CallInv', CalmInv, CalmInv', FocusInv, DesktopPart!ReturnViewport
    PROVE  FocusInv'
  <1>1. PICK t \in DTasks :
          /\ t = cur /\ Working(t) /\ First(t, "return") /\ todo[t][1].op = "return"
          /\ DesktopPart!X = todo[t][1].x /\ Leads(t, todo[t], todo[t][1])
          /\ OneCall /\ Laid(t) /\ ~First(t, "make")
    BY Reached DEF DesktopPart!ReturnViewport
  <1>2. PICK x : x = DesktopPart!X /\ x = todo[t][1].x
    BY <1>1
  <1>3. /\ mine' = [mine EXCEPT ![t] = x] /\ DesktopPart!Then(<<>>)
        /\ UNCHANGED <<live, phase, asleep, vps, elements, count, cur>>
    BY <1>1, <1>2 DEF DesktopPart!ReturnViewport, DesktopPart!list, DesktopPart!cpu
  <1>4. t # 0 /\ t \in DProgs /\ Len(todo[t]) = 1
    <2>1. t # 0 /\ Len(todo[t]) - 1 = 0 /\ Len(todo[t]) \in Nat
      BY <1>1, LeadsTo DEF CallInv
    <2> QED  BY <2>1 DEF DTasks
  <1>5. /\ \A u \in DTasks \ {t} : ~Working(u) /\ ~Working(u)' /\ todo'[u] = todo[u]
        /\ Steps(t) = {todo[t][1]} \cup Rest(t) /\ ~Working(t)'
    <2>1. PICK ops : AnySeq(ops) /\ DesktopPart!Then(ops) /\ Len(ops) = 0
      BY <1>3, Literals
    <2> QED  BY <1>1, <1>4, <2>1, Proceeds
  <1>6. Steps(t)' = {} /\ \A u \in DTasks \ {t} : Steps(u) = {}
    BY <1>5, NoSteps DEF CallInv, Steps, Working
  <1>7. todo[t][1] \in Steps(t) /\ Rest(t) = {}
    BY <1>4, <1>5 DEF Rest
  <1>8. phase[t] = "opened" /\ mine[t] = 0
    BY <1>1, <1>4, <1>7 DEF FocusInv, Asks
  <1>9. mine'[t] = x /\ \A p \in DProgs \ {t} : mine'[p] = mine[p] /\ todo'[p] = todo[p]
    BY <1>3, <1>4, <1>5 DEF CalmInv, ViewTypes, DTasks
  <1>10. HeldInv'
    <2>1. ASSUME NEW p \in DProgs, NEW u \in DVps, Holds(p, u) PROVE Holds(p, u)' /\ p # t
      <3>1. p # t
        BY <1>8, <2>1 DEF Holds
      <3> QED  BY <1>3, <1>9, <2>1, <3>1 DEF Holds, First, Working
    <2>2. ASSUME NEW p \in DProgs, NEW u \in DVps, phase[p] = "opened", mine[p] = u \/ Brings(p, u)
          PROVE  mine'[p] = u \/ Brings(p, u)'
      <3>1. CASE p = t
        <4>1. mine[p] # u
          BY <1>8, <3>1, DesktopAssumption DEF DVps
        <4> QED  BY <1>1, <1>2, <1>4, <1>9, <2>2, <3>1, <4>1 DEF Brings
      <3>2. CASE p # t
        BY <1>9, <2>2, <3>2 DEF Brings, First, Working
      <3> QED  BY <3>1, <3>2
    <2>3. ASSUME NEW u \in DVps
          PROVE  /\ vps'[u].open =>
                      /\ vps'[u].owner \in DProgs /\ live'[vps'[u].owner]
                      /\ \/ Holds(vps[u].owner, u)' /\ vps'[u].handler # 0
                         \/ /\ phase'[vps'[u].owner] = "opened"
                            /\ mine'[vps'[u].owner] = u \/ Brings(vps[u].owner, u)'
                 /\ vps'[u].handler # 0 => live'[vps'[u].handler] /\ Holds(vps[u].handler, u)'
      <3>1. PICK p, h : p = vps[u].owner /\ h = vps[u].handler
        OBVIOUS
      <3>2. h \in DProgs \cup {0} /\ vps'[u] = vps[u]
        BY <1>3, <3>1 DEF CalmInv, ViewTypes
      <3>3. vps[u].open =>
              /\ p \in DProgs /\ live[p]
              /\ \/ Holds(p, u) /\ h # 0
                 \/ phase[p] = "opened" /\ (mine[p] = u \/ Brings(p, u))
        BY <3>1 DEF FocusInv, HeldInv
      <3>4. h # 0 => live[h] /\ Holds(h, u)
        BY <3>1 DEF FocusInv, HeldInv
      <3>5. vps[u].open =>
              /\ p \in DProgs /\ live'[p]
              /\ \/ Holds(p, u)' /\ h # 0
                 \/ phase'[p] = "opened" /\ (mine'[p] = u \/ Brings(p, u)')
        BY <1>3, <2>1, <2>2, <3>3
      <3>6. h # 0 => live'[h] /\ Holds(h, u)'
        BY <1>3, <2>1, <3>2, <3>4
      <3>7. vps'[u].owner = p /\ vps'[u].handler = h
        BY <3>1, <3>2
      <3> QED  BY <3>1, <3>2, <3>5, <3>6, <3>7 DEF Holds, Brings
    <2> QED  BY <2>3 DEF HeldInv
  <1>11. ASSUME NEW p \in DProgs PROVE Asks(p)'
    <2>1. CASE p = t
      BY <1>3, <1>5, <1>6, <1>8, <2>1 DEF Asks, First
    <2>2. CASE p # t
      BY <1>3, <1>9, <2>2 DEF FocusInv, Asks, First, Working, Steps
    <2> QED  BY <2>1, <2>2
  <1>12. /\ AwakeInv' /\ Runs(t)' /\ Unfocuses(t)' /\ Linking(t)' /\ Making(t)' /\ Fronting(t)'
         /\ Shifting(t)'
    BY <1>3, <1>5, <1>6
       DEF FocusInv, AwakeInv, Runs, Unfocuses, Linking, Making, Fronting, Shifting, First
  <1>13. /\ Shows(Below(count))' /\ (count' = 0 => ~elements'[0].inUse)
         /\ count' > 0 => ~asleep'[vps'[elements'[0].vp].owner]
    <2>1. ~Due
      BY <1>1, <1>5, <1>6, <1>7 DEF Due, Focuses
    <2>2. /\ Shows(Below(count)) /\ (count = 0 => ~elements[0].inUse)
          /\ count > 0 => ~asleep[vps[elements[0].vp].owner]
      BY <1>1, <2>1, NowListed
    <2> QED  BY <1>3, <2>2 DEF Shows, Below
  <1> QED  BY <1>4, <1>5, <1>10, <1>11, <1>12, <1>13, OnlyOne

\* What viewport_move_element_to_front does to the places.
Rotates(x) ==
    \A e \in DPlaces :
      elements'[e] = IF e = 0 THEN elements[x] ELSE IF e <= x THEN elements[e - 1] ELSE elements[e]
Shown(x, S) ==
    /\ count \in 0 .. MaxVp
    /\ \/ x < count /\ S = Below(count)
       \/ count > 0 /\ count <= x + 1 /\ S = Below(count - 1) \cup {x}
LEMMA Rotated ==
    ASSUME NEW x \in DPlaces, NEW S, Shown(x, S), Rotates(x)
    PROVE  /\ count > 0 /\ 0 \in Below(count) /\ elements'[0] = elements[x]
           /\ \A e \in Below(count) : \E s \in S : elements'[e] = elements[s]
           /\ \A s \in S : \E e \in Below(count) : elements'[e] = elements[s]
           /\ \A e, f \in Below(count) :
                e # f => \E s, u \in S : s # u /\ elements'[e] = elements[s] /\ elements'[f] = elements[u]
  <1> DEFINE src(e) == IF e = 0 THEN x ELSE IF e <= x THEN e - 1 ELSE e
  <1>1. MaxVp \in Nat /\ count > 0 /\ x \in Nat /\ count \in Nat /\ 0 \in DPlaces
    BY DesktopAssumption DEF DPlaces, Shown
  <1>2. ASSUME NEW e \in Below(count) PROVE src(e) \in S /\ elements'[e] = elements[src(e)]
    BY <1>1, <1>2 DEF Below, DPlaces, Shown, Rotates
  <1>3. \A e, f \in Below(count) : src(e) = src(f) => e = f
    BY <1>1 DEF Below, DPlaces
  <1>4. ASSUME NEW s \in S PROVE \E e \in Below(count) : src(e) = s
    <2>1. s \in DPlaces
      BY DEF Below, Shown
    <2>2. CASE s = x
      <3>1. 0 \in Below(count) /\ src(0) = s
        BY <1>1, <2>2 DEF Below, Shown
      <3> QED  BY <3>1
    <2>3. CASE s < x
      <3>1. s + 1 \in Below(count) /\ src(s + 1) = s
        BY <1>1, <2>1, <2>3 DEF Below, Shown, DPlaces
      <3> QED  BY <3>1
    <2>4. CASE s > x
      <3>1. s \in Below(count) /\ src(s) = s
        BY <1>1, <2>1, <2>4 DEF Below, Shown, DPlaces
      <3> QED  BY <3>1
    <2> QED  BY <1>1, <2>1, <2>2, <2>3, <2>4 DEF DPlaces
  <1>5. 0 \in Below(count) /\ elements'[0] = elements[x]
    BY <1>1 DEF Below, Rotates
  <1> HIDE DEF src
  <1>6. ASSUME NEW e \in Below(count), NEW f \in Below(count), e # f
        PROVE  \E s, u \in S : s # u /\ elements'[e] = elements[s] /\ elements'[f] = elements[u]
    BY <1>2, <1>3, <1>6
  <1>7. \A e \in Below(count) : \E s \in S : elements'[e] = elements[s]
    BY <1>2
  <1>8. \A s \in S : \E e \in Below(count) : elements'[e] = elements[s]
    BY <1>2, <1>4
  <1> QED  BY <1>1, <1>5, <1>6, <1>7, <1>8

\* Places that have been changed round show what they did.
LEMMA StillShown ==
    ASSUME NEW S, NEW T, Shows(S), vps' = vps,
           \A e \in T : \E s \in S : elements'[e].vp = elements[s].vp,
           \A s \in S : \E e \in T : elements'[e].vp = elements[s].vp,
           \A e, f \in T :
             e # f => \E s, u \in S : /\ s # u /\ elements'[e].vp = elements[s].vp
                                      /\ elements'[f].vp = elements[u].vp
    PROVE  /\ \A e \in T : elements'[e].vp \in DVps /\ vps'[elements'[e].vp].open
           /\ \A e, f \in T : elements'[e].vp = elements'[f].vp => e = f
           /\ \A v \in DVps : vps'[v].open => \E e \in T : elements'[e].vp = v
  <1>1. ASSUME NEW e \in T PROVE elements'[e].vp \in DVps /\ vps'[elements'[e].vp].open
    BY <1>1 DEF Shows
  <1>2. ASSUME NEW e \in T, NEW f \in T, elements'[e].vp = elements'[f].vp PROVE e = f
    BY <1>2 DEF Shows
  <1>3. ASSUME NEW v \in DVps, vps'[v].open PROVE \E e \in T : elements'[e].vp = v
    <2>1. PICK s \in S : elements[s].vp = v
      BY <1>3 DEF Shows
    <2> QED  BY <2>1
  <1> QED  BY <1>1, <1>2, <1>3

LEMMA FrontFocus ==
    ASSUME CallInv, CallInv', CalmInv, CalmInv', FocusInv, DesktopPart!MoveToFront
    PROVE  FocusInv'
  <1>1. PICK t \in DTasks :
          /\ t = cur /\ Working(t) /\ First(t, "front") /\ todo[t][1].op = "front"
          /\ DesktopPart!X = todo[t][1].x /\ Leads(t, todo[t], todo[t][1])
          /\ OneCall /\ Laid(t) /\ ~First(t, "make")
    BY Reached DEF DesktopPart!MoveToFront
  <1>2. PICK x \in DPlaces : x = DesktopPart!X /\ x = todo[t][1].x
    BY <1>1, LeadsTo
  <1>3. /\ elements' = [e \in DPlaces |->
             IF e = 0 THEN elements[x] ELSE IF e <= x THEN elements[e - 1] ELSE elements[e]]
        /\ DesktopPart!Then(DesktopPart!FocusOps(x))
        /\ UNCHANGED <<live, phase, mine, asleep, vps, count, cur>>
    BY <1>2 DEF DesktopPart!MoveToFront, DesktopPart!progs, DesktopPart!cpu, DesktopPart!Places,
       DPlaces
  <1>4. PICK ops :
          /\ AnySeq(ops) /\ DesktopPart!Then(ops)
          /\ \/ x = 0 /\ Len(ops) = 0
             \/ /\ x # 0 /\ Len(ops) = 2
                /\ ops[1].op = "tell" /\ ops[1].x = 0 /\ ops[1].ev = "focused"
                /\ ops[2].op = "tell" /\ ops[2].x = 1 /\ ops[2].ev = "unfocused"
    <2>1. CASE x = 0
      BY <1>3, <2>1, Literals DEF DesktopPart!FocusOps
    <2>2. CASE x # 0
      <3>1. PICK s, u : s = DesktopPart!Tell(0, "focused") /\ u = DesktopPart!Tell(1, "unfocused")
        OBVIOUS
      <3>2. /\ s.op = "tell" /\ s.x = 0 /\ s.ev = "focused"
            /\ u.op = "tell" /\ u.x = 1 /\ u.ev = "unfocused"
        BY <3>1, Fields, StepFields
      <3>3. /\ AnySeq(<<s, u>>) /\ Len(<<s, u>>) = 2 /\ <<s, u>>[1] = s /\ <<s, u>>[2] = u
            /\ DesktopPart!Then(<<s, u>>)
        BY <1>3, <2>2, <3>1, Literals DEF DesktopPart!FocusOps
      <3> QED  BY <2>2, <3>2, <3>3
    <2> QED  BY <2>1, <2>2
  <1>5. /\ \A u \in DTasks \ {t} : ~Working(u) /\ ~Working(u)' /\ todo'[u] = todo[u]
        /\ Steps(t) = {todo[t][1]} \cup Rest(t)
        /\ Steps(t)' = {ops[i] : i \in 1 .. Len(ops)} \cup Rest(t)
        /\ Len(ops) > 0 => Working(t)' /\ todo'[t][1] = ops[1]
        /\ Len(ops) = 0 /\ Working(t)' => todo'[t][1] \in Rest(t)
        /\ Len(todo[t]) > 1 => Working(t)' /\ todo'[t][Len(todo'[t])] = todo[t][Len(todo[t])]
        /\ \A s \in Rest(t) :
             /\ s.op \notin {"find", "link", "make", "front", "shift", "handle"}
             /\ s.op = "drop" => t = 0
    BY <1>1, <1>4, Proceeds
  <1>6. \A s \in Steps(t)' : s \in Rest(t) \/
          (x # 0 /\ s.op = "tell" /\ ((s.x = 0 /\ s.ev = "focused") \/ (s.x = 1 /\ s.ev = "unfocused")))
    <2>1. ASSUME NEW i \in 1 .. Len(ops) PROVE x # 0 /\ (i = 1 \/ i = 2)
      <3>1. Len(ops) # 0
        OBVIOUS
      <3>2. Len(ops) = 2 => i = 1 \/ i = 2
        OBVIOUS
      <3> QED  BY <1>4, <3>1, <3>2
    <2> QED  BY <1>4, <1>5, <2>1
  <1>7. Working(t)' =>
          /\ todo'[t][1].op \notin {"find", "link", "make", "front", "shift", "handle"}
          /\ todo'[t][1].op = "drop" => t = 0 /\ x = 0
    <2>1. CASE Len(ops) = 0
      BY <1>4, <1>5, <2>1
    <2>2. CASE Len(ops) = 2
      BY <1>4, <1>5, <2>2
    <2> QED  BY <1>4, <2>1, <2>2
  <1>8. /\ ~First(t, "link")' /\ ~First(t, "make")' /\ ~First(t, "shift")' /\ ~First(t, "front")'
        /\ ~First(t, "handle")' /\ ~First(t, "find")' /\ (t # 0 => ~First(t, "drop")')
    BY <1>7 DEF First
  <1>9. Len(todo[t]) \in Nat /\ Len(todo[t]) > 0
    BY <1>1 DEF CallInv, Working
  <1>10. HeldInv'
    <2>1. ~First(t, "drop")
      BY <1>1 DEF First
    <2>2. ASSUME NEW v \in DVps, Brings(t, v) PROVE Brings(t, v)'
      <3>1. Len(todo[t]) > 1
        BY <1>1, <1>9, <2>2 DEF Brings
      <3> QED  BY <1>5, <1>8, <2>2, <3>1 DEF Brings
    <2> QED  BY <1>3, <1>5, <2>1, <2>2, StillHeld DEF FocusInv, CalmInv
  <1>11. \A p \in DProgs : Asks(p)'
    <2>1. \A s \in Steps(t)' : s.op = "return" => s \in Steps(t)
      BY <1>5, <1>6
    <2> QED  BY <1>1, <1>3, <1>5, <1>8, <2>1, StillAsks DEF FocusInv
  <1>12. t = 0 => Unlocks'
    <2>1. t = 0 => Len(todo[t]) > 1
      <3>1. Len(todo[t]) = 1 \/ Len(todo[t]) > 1
        <4>1. \A n \in Nat : n > 0 => n = 1 \/ n > 1
          OBVIOUS
        <4> QED  BY <1>9, <4>1
      <3> QED  BY <1>1, <3>1 DEF FocusInv, Unlocks
    <2> QED  BY <1>1, <1>5, <2>1 DEF FocusInv, Unlocks
  <1>13. AwakeInv' /\ Runs(t)' /\ Linking(t)' /\ Making(t)' /\ Fronting(t)' /\ Shifting(t)'
    BY <1>3, <1>8 DEF FocusInv, AwakeInv, Runs, Linking, Making, Fronting, Shifting
  \* The places before and after.
  <1>14. PICK S :
           /\ Shows(S) /\ Shown(x, S) /\ count \in 0 .. MaxVp
           /\ x # 0 => count > 1
           /\ t # 0 => vps[elements[x].vp].owner = t
    <2>1. count \in 0 .. MaxVp /\ x \in Nat
      BY DEF CalmInv, ViewTypes, DPlaces
    <2>2. CASE t = 0
      <3>1. x < count
        BY <1>1, <1>2, <2>2 DEF FocusInv, ListInv, Fronting
      <3>2. Usual
        BY <1>1, <1>5, <2>2 DEF Usual, First
      <3> QED  BY <2>1, <2>2, <3>1, <3>2 DEF FocusInv, ListInv, Shown
    <2>3. CASE t # 0
      BY <1>1, <1>2, <2>1, <2>3 DEF FocusInv, ListInv, Fronting, Shown
    <2> QED  BY <2>2, <2>3
  <1>15. /\ count > 0 /\ 0 \in Below(count) /\ elements'[0] = elements[x]
         /\ Shows(Below(count))'
    <2>2. /\ count > 0 /\ 0 \in Below(count) /\ elements'[0] = elements[x]
          /\ \A e \in Below(count) : \E s \in S : elements'[e] = elements[s]
          /\ \A s \in S : \E e \in Below(count) : elements'[e] = elements[s]
          /\ \A e, f \in Below(count) : e # f =>
               \E s, u \in S : s # u /\ elements'[e] = elements[s] /\ elements'[f] = elements[u]
      <3>1. Rotates(x)
        BY <1>3 DEF Rotates
      <3> QED  BY <1>14, <3>1, Rotated
    <2>3. PICK T : T = Below(count)
      OBVIOUS
    <2>4. /\ \A e \in T : elements'[e].vp \in DVps /\ vps'[elements'[e].vp].open
          /\ \A e, f \in T : elements'[e].vp = elements'[f].vp => e = f
          /\ \A v \in DVps : vps'[v].open => \E e \in T : elements'[e].vp = v
      <3>1. \A e \in T : \E s \in S : elements'[e].vp = elements[s].vp
        BY <2>2, <2>3
      <3>2. \A s \in S : \E e \in T : elements'[e].vp = elements[s].vp
        BY <2>2, <2>3
      <3>3. ASSUME NEW e \in T, NEW f \in T, e # f
            PROVE  \E s, u \in S : /\ s # u /\ elements'[e].vp = elements[s].vp
                                   /\ elements'[f].vp = elements[u].vp
        <4>1. PICK s, u \in S : s # u /\ elements'[e] = elements[s] /\ elements'[f] = elements[u]
          BY <2>2, <2>3, <3>3
        <4> QED  BY <4>1
      <3>4. Shows(S) /\ vps' = vps
        BY <1>3, <1>14
      <3> QED  BY <3>1, <3>2, <3>3, <3>4, StillShown
    <2>5. Below(count)' = T
      BY <1>3, <2>3 DEF Below
    <2> QED  BY <2>2, <2>4, <2>5 DEF Shows
  <1>16. count > 0 => ~asleep'[vps'[elements'[0].vp].owner] \/ Due'
    <2>1. CASE x # 0
      <3>1. ops[1] \in Steps(t)' /\ Focuses(ops[1])'
        BY <1>4, <1>5, <2>1 DEF Focuses
      <3> QED  BY <3>1 DEF Due
    <2>2. CASE x = 0 /\ t # 0
      <3>1. vps'[elements'[0].vp].owner = t /\ t \in DProgs
        BY <1>3, <1>14, <1>15, <2>2 DEF DTasks
      <3> QED  BY <1>1, <1>3, <2>2, <3>1 DEF FocusInv, AwakeInv
    <2>3. CASE x = 0 /\ t = 0
      <3>1. Usual
        BY <1>1, <1>5, <2>3 DEF Usual, First
      <3>2. count > 0 => ~asleep[vps[elements[0].vp].owner] \/ Due
        BY <3>1 DEF FocusInv, FrontInv
      <3>3. elements'[0] = elements[0]
        BY <1>15, <2>3
      <3>4. Due => Due'
        <4>1. \A u \in DTasks \ {t} : Steps(u) = {}
          BY <1>5, NoSteps DEF CallInv, Steps, Working
        <4>2. ASSUME NEW s \in Steps(t), Focuses(s) PROVE s \in Steps(t)' /\ Focuses(s)'
          <5>1. s # todo[t][1]
            BY <1>1, <4>2 DEF Focuses
          <5> QED  BY <1>5, <3>3, <4>2, <5>1 DEF Focuses
        <4> QED  BY <4>1, <4>2 DEF Due
      <3> QED  BY <1>3, <3>2, <3>3, <3>4
    <2> QED  BY <2>1, <2>2, <2>3
  <1>17. Unfocuses(t)'
    <2> SUFFICES ASSUME NEW s \in Steps(t)', s.ev = "unfocused"
                 PROVE  /\ Unfocus(t, s)'
                        /\ todo'[t][1].op \notin {"find", "link", "make", "front", "shift", "drop"}
      BY DEF Unfocuses
    <2>1. s \notin Rest(t)
      BY <1>1, <1>5 DEF FocusInv, Unfocuses
    <2>2. x # 0 /\ s.op = "tell" /\ s.x = 1
      BY <1>6, <2>1
    <2>3. Working(t)'
      BY <1>4, <1>5, <2>2
    <2>4. Unfocus(t, s)'
      BY <1>3, <1>14, <1>15, <2>2 DEF Unfocus
    <2> QED  BY <1>7, <2>2, <2>3, <2>4
  <1>18. count' = 0 => ~elements'[0].inUse
    BY <1>3, <1>15
  <1> QED  BY <1>3, <1>5, <1>10, <1>11, <1>12, <1>13, <1>15, <1>16, <1>17, <1>18, OnlyOne
-----------------------------------------------------------------------------
(* The list and the focus when a viewport is closed.                       *)

\* Who has which viewport after one has been dropped.
LEMMA HeldWithout ==
    ASSUME CalmInv, FocusInv, NEW t \in DTasks, NEW v \in DVps, First(t, "drop"),
           todo[t][1].x = v, t # 0 => Len(todo[t]) = 1,
           \A u \in DTasks \ {t} : todo'[u] = todo[u],
           UNCHANGED <<live, phase, mine>>,
           vps' = [vps EXCEPT ![v].open = FALSE, ![v].handler = 0]
    PROVE  HeldInv'
  <1>1. vps \in [DVps -> [open : BOOLEAN, owner : DTasks, handler : DProgs \cup {0}]]
    BY DEF CalmInv, ViewTypes
  <1>2. vps'[v].open = FALSE /\ vps'[v].handler = 0 /\ \A u \in DVps \ {v} : vps'[u] = vps[u]
    BY <1>1
  <1>3. ASSUME NEW p \in DProgs, NEW u \in DVps \ {v}
        PROVE  (Holds(p, u) => Holds(p, u)') /\ (Brings(p, u) => Brings(p, u)')
    <2>1. p # 0 /\ p \in DTasks
      BY DEF DProgs, DTasks
    <2>2. CASE p = t
      <3>1. mine[p] = v /\ ~Brings(p, u)
        BY <2>1, <2>2 DEF FocusInv, Asks, Brings, First
      <3> QED  BY <3>1 DEF Holds
    <2>3. CASE p # t
      BY <2>1, <2>3 DEF Holds, Brings, First, Working
    <2> QED  BY <2>2, <2>3
  <1>4. ASSUME NEW u \in DVps \ {v}
        PROVE  /\ vps'[u].open =>
                    /\ vps'[u].owner \in DProgs /\ live'[vps'[u].owner]
                    /\ \/ Holds(vps[u].owner, u)' /\ vps'[u].handler # 0
                       \/ /\ phase'[vps'[u].owner] = "opened"
                          /\ mine'[vps'[u].owner] = u \/ Brings(vps[u].owner, u)'
               /\ vps'[u].handler # 0 => live'[vps'[u].handler] /\ Holds(vps[u].handler, u)'
    <2>1. PICK p, h : p = vps[u].owner /\ h = vps[u].handler
      OBVIOUS
    <2>2. h \in DProgs \cup {0} /\ vps'[u] = vps[u]
      BY <1>1, <1>2, <2>1
    <2>3. vps[u].open =>
            /\ p \in DProgs /\ live[p]
            /\ \/ Holds(p, u) /\ h # 0
               \/ phase[p] = "opened" /\ (mine[p] = u \/ Brings(p, u))
      BY <2>1 DEF FocusInv, HeldInv
    <2>4. h # 0 => live[h] /\ Holds(h, u)
      BY <2>1 DEF FocusInv, HeldInv
    <2>5. vps[u].open =>
            /\ p \in DProgs /\ live'[p]
            /\ \/ Holds(p, u)' /\ h # 0
               \/ phase'[p] = "opened" /\ (mine'[p] = u \/ Brings(p, u)')
      BY <1>3, <2>3
    <2>6. h # 0 => live'[h] /\ Holds(h, u)'
      BY <1>3, <2>2, <2>4
    <2>7. vps'[u].owner = p /\ vps'[u].handler = h
      BY <2>1, <2>2
    <2> QED  BY <2>1, <2>2, <2>5, <2>6, <2>7 DEF Holds, Brings
  <1> QED  BY <1>2, <1>4 DEF HeldInv

LEMMA DropFocus ==
    ASSUME CallInv, CallInv', CalmInv, CalmInv', FocusInv, DesktopPart!DropPlace
    PROVE  FocusInv'
  <1>1. PICK t \in DTasks :
          /\ t = cur /\ Working(t) /\ First(t, "drop") /\ todo[t][1].op = "drop"
          /\ DesktopPart!X = todo[t][1].x /\ Leads(t, todo[t], todo[t][1])
          /\ OneCall /\ Laid(t) /\ ~First(t, "make")
    BY Reached DEF DesktopPart!DropPlace
  <1>2. PICK v \in DVps : v = DesktopPart!X /\ v = todo[t][1].x
    BY <1>1, LeadsTo
  <1> DEFINE listed == DesktopPart!Listed(v)
  <1>3. PICK n : n = DesktopPart!FirstOf(listed)
    OBVIOUS
  <1>4. /\ vps' = [vps EXCEPT ![v].open = FALSE, ![v].handler = 0]
        /\ UNCHANGED <<live, phase, mine, asleep, cur>>
        /\ \/ listed = {} /\ DesktopPart!Then(<<>>) /\ UNCHANGED <<elements, count>>
           \/ /\ listed # {} /\ count' = count - 1
              /\ elements' = [elements EXCEPT ![n] = [inUse |-> FALSE, vp |-> 0]]
              /\ DesktopPart!Then(<<DesktopPart!Shift(n), DesktopPart!Tell(0, "focused")>>)
    BY <1>2, <1>3 DEF DesktopPart!DropPlace, DesktopPart!progs, DesktopPart!cpu,
       DesktopPart!Nobody, DesktopPart!None
  <1>5. (t # 0 => Len(todo[t]) = 1) /\ (t = 0 => Len(todo[t]) = 2) /\ count \in 0 .. MaxVp
    <2>1. Len(todo[t]) \in Nat /\ count \in 0 .. MaxVp
      BY DEF CalmInv, ViewTypes, CallInv
    <2>2. (t # 0 /\ Len(todo[t]) = 1) \/ (t = 0 /\ Len(todo[t]) - 1 = 1)
      BY <1>1 DEF Leads, Waits
    <2> QED  BY <2>1, <2>2
  <1>6. listed = {e \in DPlaces : e < count /\ elements[e].vp = v}
    BY DEF DesktopPart!Listed, DesktopPart!Places, DPlaces
  <1> HIDE DEF listed
  <1>7. /\ Shows(Below(count)) /\ (count = 0 => ~elements[0].inUse)
        /\ count > 0 => ~asleep[vps[elements[0].vp].owner] \/ Due
    BY <1>1, NowListed
  <1>8. vps'[v].open = FALSE /\ (\A u \in DVps \ {v} : vps'[u] = vps[u])
        /\ \A u \in DVps : vps'[u].owner = vps[u].owner
    BY <1>4 DEF CalmInv, ViewTypes
  <1>9. Steps(t) = {todo[t][1]} \cup Rest(t) /\ \A s \in Rest(t) : s.ev # "unfocused"
    <2>1. Steps(t) = {todo[t][1]} \cup Rest(t)
      <3>1. PICK ops : AnySeq(ops) /\ DesktopPart!Then(ops)
        BY <1>4, Literals
      <3> QED  BY <1>1, <3>1, Proceeds
    <2> QED  BY <1>1, <2>1 DEF FocusInv, Unfocuses
  <1>10. \A u \in DTasks \ {t} : todo'[u] = todo[u]
    BY <1>1, <1>4 DEF DesktopPart!Then, CallInv
  <1>11. HeldInv'
    BY <1>1, <1>2, <1>4, <1>5, <1>10, HeldWithout
  <1>12. AwakeInv'
    BY <1>4 DEF FocusInv, AwakeInv
  <1>13. CASE listed = {} /\ DesktopPart!Then(<<>>) /\ UNCHANGED <<elements, count>>
    <2>1. PICK ops : AnySeq(ops) /\ DesktopPart!Then(ops) /\ Len(ops) = 0
      BY <1>13, Literals
    <2>2. /\ \A u \in DTasks \ {t} : ~Working(u) /\ ~Working(u)'
          /\ Steps(t)' = {ops[i] : i \in 1 .. Len(ops)} \cup Rest(t)
          /\ Working(t)' => todo'[t][1] \in Rest(t)
          /\ Len(todo[t]) = 1 => ~Working(t)'
          /\ Len(todo[t]) > 1 => Working(t)' /\ todo'[t][Len(todo'[t])] = todo[t][Len(todo[t])]
          /\ \A s \in Rest(t) :
               /\ s.op \notin {"find", "link", "make", "front", "shift", "handle"}
               /\ s.op = "drop" => t = 0
      BY <1>1, <2>1, Proceeds
    <2>3. Steps(t)' = Rest(t)
      BY <2>1, <2>2
    <2>4. /\ ~First(t, "link")' /\ ~First(t, "make")' /\ ~First(t, "shift")' /\ ~First(t, "front")'
          /\ ~First(t, "handle")' /\ ~First(t, "find")' /\ (t # 0 => ~First(t, "drop")')
      BY <2>2 DEF First
    <2>5. \A p \in DProgs : Asks(p)'
      BY <1>1, <1>4, <1>9, <1>10, <2>3, <2>4, StillAsks DEF FocusInv
    <2>6. t = 0 => Unlocks'
      BY <1>1, <1>5, <2>2 DEF FocusInv, Unlocks
    <2>7. /\ Runs(t)' /\ Unfocuses(t)' /\ Linking(t)' /\ Making(t)' /\ Fronting(t)'
          /\ Shifting(t)'
      BY <1>9, <2>3, <2>4 DEF Runs, Unfocuses, Linking, Making, Fronting, Shifting
    <2>8. ~vps[v].open
      BY <1>6, <1>7, <1>13 DEF Shows, Below
    <2>9. \A u \in DVps : vps'[u].open <=> vps[u].open
      BY <1>8, <2>8
    <2>10. Shows(Below(count))'
      BY <1>7, <1>13, <2>9 DEF Shows, Below
    <2>11. count' > 0 => ~asleep'[vps'[elements'[0].vp].owner] \/ Due'
      <3> SUFFICES ASSUME count > 0
                   PROVE  ~asleep[vps'[elements[0].vp].owner] \/ Due'
        BY <1>4, <1>13
      <3>1. elements[0].vp \in DVps
        <4>1. 0 \in Below(count)
          BY DesktopAssumption DEF Below, DPlaces
        <4> QED  BY <1>7, <4>1 DEF Shows
      <3>2. Due => Due'
        <4>1. \A u \in DTasks \ {t} : Steps(u) = {}
          BY <2>2, NoSteps DEF CallInv, Steps, Working
        <4>2. ASSUME NEW s \in Steps(t), Focuses(s) PROVE s \in Steps(t)' /\ Focuses(s)'
          <5>1. s # todo[t][1]
            BY <1>1, <4>2 DEF Focuses
          <5> QED  BY <1>9, <1>13, <2>3, <4>2, <5>1 DEF Focuses
        <4> QED  BY <4>1, <4>2 DEF Due
      <3> QED  BY <1>7, <1>8, <3>1, <3>2
    <2>12. count' = 0 => ~elements'[0].inUse
      BY <1>7, <1>13
    <2> QED  BY <1>11, <1>12, <2>2, <2>5, <2>6, <2>7, <2>10, <2>11, <2>12, OnlyOne
  <1>14. CASE /\ listed # {} /\ count' = count - 1
              /\ elements' = [elements EXCEPT ![n] = [inUse |-> FALSE, vp |-> 0]]
              /\ DesktopPart!Then(<<DesktopPart!Shift(n), DesktopPart!Tell(0, "focused")>>)
    <2>1. n \in DPlaces /\ n < count /\ elements[n].vp = v
      <3>1. /\ listed \in SUBSET Nat
            /\ \A e \in listed : e \in DPlaces /\ e < count /\ elements[e].vp = v
        BY <1>6 DEF DPlaces
      <3> QED  BY <1>3, <1>14, <3>1, FirstFound
    <2>2. PICK ops :
            /\ AnySeq(ops) /\ DesktopPart!Then(ops) /\ Len(ops) = 2
            /\ ops[1].op = "shift" /\ ops[1].x = n /\ ops[1].ev = "exit"
            /\ ops[2].op = "tell" /\ ops[2].x = 0 /\ ops[2].ev = "focused"
      <3>1. PICK s, u : s = DesktopPart!Shift(n) /\ u = DesktopPart!Tell(0, "focused")
        OBVIOUS
      <3>2. /\ s.op = "shift" /\ s.x = n /\ s.ev = "exit"
            /\ u.op = "tell" /\ u.x = 0 /\ u.ev = "focused"
        BY <3>1, Fields, StepFields
      <3>3. /\ AnySeq(<<s, u>>) /\ Len(<<s, u>>) = 2 /\ <<s, u>>[1] = s /\ <<s, u>>[2] = u
            /\ DesktopPart!Then(<<s, u>>)
        BY <1>14, <3>1, Literals
      <3> QED  BY <3>2, <3>3
    <2>3. /\ \A u \in DTasks \ {t} : ~Working(u) /\ ~Working(u)'
          /\ Steps(t)' = {ops[i] : i \in 1 .. Len(ops)} \cup Rest(t)
          /\ Working(t)' /\ todo'[t][1] = ops[1]
          /\ Len(todo[t]) > 1 => todo'[t][Len(todo'[t])] = todo[t][Len(todo[t])]
          /\ Rest(t)' = {ops[i] : i \in 2 .. Len(ops)} \cup Rest(t)
      BY <1>1, <2>2, Proceeds
    <2>4. \A i \in 1 .. Len(ops) : ops[i].op # "return" /\ ops[i].ev # "unfocused"
      <3>1. ASSUME NEW i \in 1 .. Len(ops) PROVE i = 1 \/ i = 2
        BY <2>2
      <3> QED  BY <2>2, <3>1
    <2>5. /\ First(t, "shift")' /\ todo'[t][1].x = n
          /\ ~First(t, "link")' /\ ~First(t, "make")' /\ ~First(t, "front")'
          /\ ~First(t, "handle")' /\ ~First(t, "find")' /\ ~First(t, "drop")'
      BY <2>2, <2>3 DEF First
    <2>6. \A p \in DProgs : Asks(p)'
      <3>1. \A s \in Steps(t)' : s.op = "return" => s \in Steps(t)
        BY <1>9, <2>3, <2>4
      <3> QED  BY <1>1, <1>4, <1>10, <2>5, <3>1, StillAsks DEF FocusInv
    <2>7. t = 0 => Unlocks'
      BY <1>1, <1>5, <2>3 DEF FocusInv, Unlocks
    <2>8. /\ Runs(t)' /\ Unfocuses(t)' /\ Linking(t)' /\ Making(t)' /\ Fronting(t)'
      BY <1>9, <2>3, <2>4, <2>5 DEF Runs, Unfocuses, Linking, Making, Fronting
    <2>9. Shifting(t)'
      <3>1. \A e \in DPlaces \ {n} : elements'[e] = elements[e]
        BY <1>14 DEF CalmInv, ViewTypes
      <3>3. PICK S : S = Below(count) \ {n}
        OBVIOUS
      <3>4. (Below(count + 1) \ {todo[t][1].x})' = S
        <4>1. count' + 1 = count
          BY <1>5, <1>14
        <4> QED  BY <2>5, <3>3, <4>1 DEF Below
      <3>5. ASSUME NEW e \in S
            PROVE  /\ e \in Below(count) /\ e # n /\ elements'[e] = elements[e]
                   /\ elements[e].vp # v
        BY <1>7, <2>1, <3>1, <3>3, <3>5 DEF Below, Shows
      <3>6. \A e \in S : elements'[e].vp \in DVps /\ vps'[elements'[e].vp].open
        BY <1>7, <1>8, <3>5 DEF Shows
      <3>7. \A e, f \in S : elements'[e].vp = elements'[f].vp => e = f
        BY <1>7, <3>5 DEF Shows
      <3>8. ASSUME NEW u \in DVps, vps'[u].open PROVE \E e \in S : elements'[e].vp = u
        <4>1. u # v /\ vps[u].open
          BY <1>8, <3>8
        <4>2. PICK e \in Below(count) : elements[e].vp = u
          BY <1>7, <4>1 DEF Shows
        <4>3. e \in S
          BY <2>1, <3>3, <4>1, <4>2
        <4> QED  BY <3>5, <4>2, <4>3
      <3>9. ops[2] \in Rest(t)'
        BY <2>2, <2>3
      <3> QED  BY <2>2, <3>4, <3>6, <3>7, <3>8, <3>9 DEF Shifting, Shows
    <2>10. count' = 0 => ~elements'[0].inUse
      <3> SUFFICES ASSUME count' = 0 PROVE ~elements'[0].inUse
        OBVIOUS
      <3>1. n = 0
        BY <1>5, <1>14, <2>1 DEF DPlaces
      <3> QED  BY <1>14, <2>1, <3>1 DEF CalmInv, ViewTypes
    <2> QED  BY <1>11, <1>12, <2>3, <2>5, <2>6, <2>7, <2>8, <2>9, <2>10, OnlyOne
  <1> QED  BY <1>4, <1>13, <1>14

\* What the loop at the end of viewport_close does to the places.
Moves(x) ==
    \A e \in DPlaces :
      elements'[e] = IF e \in x .. count - 1 THEN elements[e + 1] ELSE elements[e]
Vacated(x, S) ==
    count \in Nat /\ count + 1 <= MaxVp /\ x <= count /\ S = Below(count + 1) \ {x}
LEMMA Moved ==
    ASSUME NEW x \in DPlaces, NEW S, Vacated(x, S), Moves(x)
    PROVE  /\ \A e \in Below(count) : \E s \in S : elements'[e] = elements[s]
           /\ \A s \in S : \E e \in Below(count) : elements'[e] = elements[s]
           /\ \A e, f \in Below(count) :
                e # f => \E s, u \in S : s # u /\ elements'[e] = elements[s] /\ elements'[f] = elements[u]
  <1> DEFINE src(e) == IF e < x THEN e ELSE e + 1
  <1>1. MaxVp \in Nat /\ x \in Nat
    BY DesktopAssumption DEF DPlaces
  <1>2. ASSUME NEW e \in Below(count) PROVE src(e) \in S /\ elements'[e] = elements[src(e)]
    BY <1>1, <1>2 DEF Below, DPlaces, Moves, Vacated
  <1>3. \A e, f \in Below(count) : src(e) = src(f) => e = f
    BY <1>1 DEF Below, DPlaces
  <1>4. ASSUME NEW s \in S PROVE \E e \in Below(count) : src(e) = s
    <2>1. s \in DPlaces /\ s < count + 1 /\ s # x
      BY DEF Below, Vacated
    <2>2. CASE s < x
      <3>1. s \in Below(count) /\ src(s) = s
        BY <1>1, <2>1, <2>2 DEF Below, DPlaces, Vacated
      <3> QED  BY <3>1
    <2>3. CASE s > x
      <3>1. s - 1 \in Below(count) /\ src(s - 1) = s
        BY <1>1, <2>1, <2>3 DEF Below, DPlaces, Vacated
      <3> QED  BY <3>1
    <2> QED  BY <1>1, <2>1, <2>2, <2>3 DEF DPlaces
  <1> HIDE DEF src
  <1>5. ASSUME NEW e \in Below(count), NEW f \in Below(count), e # f
        PROVE  \E s, u \in S : s # u /\ elements'[e] = elements[s] /\ elements'[f] = elements[u]
    BY <1>2, <1>3, <1>5
  <1>6. \A e \in Below(count) : \E s \in S : elements'[e] = elements[s]
    BY <1>2
  <1>7. \A s \in S : \E e \in Below(count) : elements'[e] = elements[s]
    BY <1>2, <1>4
  <1> QED  BY <1>5, <1>6, <1>7

LEMMA ShiftFocus ==
    ASSUME CallInv, CallInv', CalmInv, CalmInv', FocusInv, DesktopPart!ShiftPlaces
    PROVE  FocusInv'
  <1>1. PICK t \in DTasks :
          /\ t = cur /\ Working(t) /\ First(t, "shift") /\ todo[t][1].op = "shift"
          /\ DesktopPart!X = todo[t][1].x /\ Leads(t, todo[t], todo[t][1])
          /\ OneCall /\ Laid(t) /\ ~First(t, "make")
    BY Reached DEF DesktopPart!ShiftPlaces
  <1>2. PICK x \in DPlaces : x = DesktopPart!X /\ x = todo[t][1].x
    BY <1>1, LeadsTo
  <1>3. /\ elements' = [e \in DPlaces |->
             IF e \in x .. count - 1 THEN elements[e + 1] ELSE elements[e]]
        /\ DesktopPart!Then(<<>>)
        /\ UNCHANGED <<live, phase, mine, asleep, vps, count, cur>>
    BY <1>2 DEF DesktopPart!ShiftPlaces, DesktopPart!Shifted, DesktopPart!progs,
       DesktopPart!cpu, DesktopPart!Places, DPlaces
  <1>4. PICK ops : AnySeq(ops) /\ DesktopPart!Then(ops) /\ Len(ops) = 0
    BY <1>3, Literals
  <1>5. /\ \A u \in DTasks \ {t} : ~Working(u) /\ ~Working(u)' /\ todo'[u] = todo[u]
        /\ Steps(t) = {todo[t][1]} \cup Rest(t)
        /\ Steps(t)' = {ops[i] : i \in 1 .. Len(ops)} \cup Rest(t)
        /\ Working(t)' => todo'[t][1] \in Rest(t)
        /\ Len(todo[t]) > 1 => Working(t)' /\ todo'[t][Len(todo'[t])] = todo[t][Len(todo[t])]
        /\ \A s \in Rest(t) :
             /\ s.op \notin {"find", "link", "make", "front", "shift", "handle"}
             /\ s.op = "drop" => t = 0
    BY <1>1, <1>4, Proceeds
  <1>6. Steps(t)' = Rest(t)
    BY <1>4, <1>5
  <1>7. /\ ~First(t, "link")' /\ ~First(t, "make")' /\ ~First(t, "shift")' /\ ~First(t, "front")'
        /\ ~First(t, "handle")' /\ ~First(t, "find")' /\ (t # 0 => ~First(t, "drop")')
    BY <1>5 DEF First
  <1>8. Len(todo[t]) > 1
    <2>1. PICK s \in Rest(t) : s.op = "tell"
      BY <1>1 DEF FocusInv, ListInv, Shifting
    <2>2. Len(todo[t]) \in Nat
      BY DEF CallInv
    <2> QED  BY <2>1, <2>2 DEF Rest
  <1>9. HeldInv'
    <2>1. ~First(t, "drop")
      BY <1>1 DEF First
    <2>2. \A v \in DVps : Brings(t, v) => Brings(t, v)'
      BY <1>5, <1>7, <1>8 DEF Brings
    <2> QED  BY <1>3, <1>5, <2>1, <2>2, StillHeld DEF FocusInv, CalmInv
  <1>10. \A p \in DProgs : Asks(p)'
    <2>1. \A s \in Steps(t)' : s.op = "return" => s \in Steps(t)
      BY <1>5, <1>6
    <2> QED  BY <1>1, <1>3, <1>5, <1>7, <2>1, StillAsks DEF FocusInv
  <1>11. t = 0 => Unlocks'
    BY <1>1, <1>5, <1>8 DEF FocusInv, Unlocks
  <1>12. \A s \in Rest(t) : s.ev # "unfocused"
    BY <1>1, <1>5 DEF FocusInv, Unfocuses
  <1>13. /\ AwakeInv' /\ Runs(t)' /\ Unfocuses(t)' /\ Linking(t)' /\ Making(t)' /\ Fronting(t)'
         /\ Shifting(t)'
    BY <1>3, <1>6, <1>7, <1>12
       DEF FocusInv, AwakeInv, Runs, Unfocuses, Linking, Making, Fronting, Shifting
  \* The places before and after.
  <1>14. PICK S, T : S = Below(count + 1) \ {x} /\ T = Below(count)
    OBVIOUS
  <1>15. Shows(S) /\ count \in Nat /\ count + 1 <= MaxVp /\ x <= count
    <2>1. Shows(Below(count + 1) \ {x})
      BY <1>1, <1>2 DEF FocusInv, ListInv, Shifting
    <2>2. count \in Nat /\ count + 1 <= MaxVp /\ x <= count
      BY <1>1, <1>2 DEF CalmInv, Counted, ViewTypes
    <2> QED  BY <1>14, <2>1, <2>2
  <1>16. Shows(Below(count))'
    <2>1. /\ \A e \in T : \E s \in S : elements'[e] = elements[s]
          /\ \A s \in S : \E e \in T : elements'[e] = elements[s]
          /\ \A e, f \in T : e # f =>
               \E s, u \in S : s # u /\ elements'[e] = elements[s] /\ elements'[f] = elements[u]
      <3>1. Moves(x)
        BY <1>3 DEF Moves
      <3>2. Vacated(x, S)
        BY <1>14, <1>15 DEF Vacated
      <3>3. /\ \A e \in Below(count) : \E s \in S : elements'[e] = elements[s]
            /\ \A s \in S : \E e \in Below(count) : elements'[e] = elements[s]
            /\ \A e, f \in Below(count) : e # f =>
                 \E s, u \in S : s # u /\ elements'[e] = elements[s] /\ elements'[f] = elements[u]
        BY <3>1, <3>2, Moved
      <3> QED  BY <1>14, <3>3
    <2>2. /\ \A e \in T : elements'[e].vp \in DVps /\ vps'[elements'[e].vp].open
          /\ \A e, f \in T : elements'[e].vp = elements'[f].vp => e = f
          /\ \A v \in DVps : vps'[v].open => \E e \in T : elements'[e].vp = v
      <3>1. \A e \in T : \E s \in S : elements'[e].vp = elements[s].vp
        BY <2>1
      <3>2. \A s \in S : \E e \in T : elements'[e].vp = elements[s].vp
        BY <2>1
      <3>3. ASSUME NEW e \in T, NEW f \in T, e # f
            PROVE  \E s, u \in S : /\ s # u /\ elements'[e].vp = elements[s].vp
                                   /\ elements'[f].vp = elements[u].vp
        <4>1. PICK s, u \in S : s # u /\ elements'[e] = elements[s] /\ elements'[f] = elements[u]
          BY <2>1, <3>3
        <4> QED  BY <4>1
      <3>4. Shows(S) /\ vps' = vps
        BY <1>3, <1>15
      <3> QED  BY <3>1, <3>2, <3>3, <3>4, StillShown
    <2>3. Below(count)' = T
      BY <1>3, <1>14 DEF Below
    <2> QED  BY <2>2, <2>3 DEF Shows
  <1>17. Due'
    <2>1. PICK s \in Rest(t) : s.op = "tell" /\ s.x = 0 /\ s.ev = "focused"
      BY <1>1 DEF FocusInv, ListInv, Shifting
    <2>2. s \in Steps(t)' /\ Focuses(s)'
      BY <1>6, <2>1 DEF Focuses
    <2> QED  BY <2>2 DEF Due
  <1>18. count' = 0 => ~elements'[0].inUse
    <2> SUFFICES ASSUME count = 0 PROVE ~elements'[0].inUse
      BY <1>3
    <2>1. ~elements[0].inUse
      <3>1. \A u \in DTasks : ~First(u, "link")
        BY <1>1, <1>5 DEF First
      <3> QED  BY <3>1 DEF FocusInv, ListInv
    <2>2. 0 \in DPlaces /\ 0 \notin x .. count - 1
      BY DesktopAssumption DEF DPlaces
    <2> QED  BY <1>3, <2>1, <2>2
  <1> QED  BY <1>5, <1>9, <1>10, <1>11, <1>13, <1>16, <1>17, <1>18, OnlyOne
-----------------------------------------------------------------------------
(* The list and the focus when a call begins, and between calls.           *)

\* Who has which viewport, when nobody loses one.
LEMMA HeldOn ==
    ASSUME HeldInv, ViewTypes, vps' = vps,
           \A p \in DProgs, v \in DVps : Holds(p, v) => Holds(p, v)',
           \A p \in DProgs, v \in DVps :
             phase[p] = "opened" /\ (mine[p] = v \/ Brings(p, v)) =>
               phase'[p] = "opened" /\ (mine'[p] = v \/ Brings(p, v)'),
           \A p \in DProgs, v \in DVps :
             live[p] /\ ((vps[v].open /\ vps[v].owner = p) \/ vps[v].handler = p) => live'[p]
    PROVE  HeldInv'
  <1>1. ASSUME NEW v \in DVps
        PROVE  /\ vps'[v].open =>
                    /\ vps'[v].owner \in DProgs /\ live'[vps'[v].owner]
                    /\ \/ Holds(vps[v].owner, v)' /\ vps'[v].handler # 0
                       \/ /\ phase'[vps'[v].owner] = "opened"
                          /\ mine'[vps'[v].owner] = v \/ Brings(vps[v].owner, v)'
               /\ vps'[v].handler # 0 => live'[vps'[v].handler] /\ Holds(vps[v].handler, v)'
    <2>1. PICK p, h : p = vps[v].owner /\ h = vps[v].handler
      OBVIOUS
    <2>2. h \in DProgs \cup {0}
      BY <2>1 DEF ViewTypes
    <2>3. vps[v].open =>
            /\ p \in DProgs /\ live[p]
            /\ \/ Holds(p, v) /\ h # 0
               \/ phase[p] = "opened" /\ (mine[p] = v \/ Brings(p, v))
      BY <2>1 DEF HeldInv
    <2>4. h # 0 => live[h] /\ Holds(h, v)
      BY <2>1 DEF HeldInv
    <2>5. vps[v].open =>
            /\ p \in DProgs /\ live'[p]
            /\ \/ Holds(p, v)' /\ h # 0
               \/ phase'[p] = "opened" /\ (mine'[p] = v \/ Brings(p, v)')
      BY <2>1, <2>3
    <2>6. h # 0 => live'[h] /\ Holds(h, v)'
      BY <2>1, <2>2, <2>4
    <2>7. vps'[v].owner = p /\ vps'[v].handler = h
      BY <2>1
    <2> QED  BY <2>1, <2>5, <2>6, <2>7 DEF Holds, Brings
  <1> QED  BY <1>1 DEF HeldInv

\* The list between calls.
LEMMA AllIdle ==
    ASSUME CallInv, FocusInv, \A t \in DTasks : ~Working(t)
    PROVE  /\ Shows(Below(count)) /\ (count = 0 => ~elements[0].inUse)
           /\ count > 0 => ~asleep[vps[elements[0].vp].owner]
  <1>1. Usual /\ \A t \in DTasks : ~First(t, "link")
    BY DEF Usual, First
  <1>2. ~Due
    <2>1. \A t \in DTasks : Steps(t) = {}
      BY NoSteps DEF CallInv, Steps, Working
    <2> QED  BY <2>1 DEF Due
  <1> QED  BY <1>1, <1>2 DEF FocusInv, ListInv, FrontInv

LEMMA ClickFocus ==
    ASSUME CallInv, CallInv', CalmInv, CalmInv', Calm', FocusInv, DesktopPart!Click
    PROVE  FocusInv'
  <1>1. cur = 0 /\ 0 \in DTasks /\ 0 \notin DProgs
        /\ UNCHANGED <<live, phase, asleep, mine, vps, elements, count, cur>>
    BY DEF DesktopPart!Click, DesktopPart!D, DesktopPart!progs, DesktopPart!list, DTasks, DProgs
  <1>2. PICK e, v, ops :
          /\ e \in DPlaces /\ v \in DVps /\ e < count
          /\ AnySeq(ops) /\ DesktopPart!Call(ops) /\ ops[1] = DesktopPart!Front(e)
          /\ \/ Len(ops) = 2 /\ ops[2] = DesktopPart!Unlock
             \/ /\ Len(ops) = 4 /\ ops[2] = DesktopPart!Send(v, "exit")
                /\ ops[3] = DesktopPart!Drop(v) /\ ops[4] = DesktopPart!Unlock
    BY ClickIs
  <1>3. \A u \in DTasks : ~Working(u)
    <2>1. DesktopPart!Overlaps \subseteq marks'
      BY DEF DesktopPart!Click
    <2>2. ~Working(cur)
      BY <1>2, CallIs
    <2> QED  BY <2>1, <2>2, Alone
  <1>4. todo'[0] = ops /\ \A u \in DTasks \ {0} : todo'[u] = todo[u] /\ ~Working(u)'
    <2>1. todo'[0] = ops /\ \A u \in DTasks \ {0} : todo'[u] = todo[u]
      BY <1>1, <1>2, CallIs
    <2> QED  BY <1>3, <2>1 DEF Working
  <1>5. /\ Len(ops) > 1 /\ ops[1].op = "front" /\ ops[1].x = e /\ ops[Len(ops)].op = "unlock"
        /\ \A i \in 1 .. Len(ops) : ops[i].ev = "exit" /\ ops[i].op # "return"
    <2>1. PICK a, b, c, d :
            /\ a = DesktopPart!Front(e) /\ b = DesktopPart!Send(v, "exit")
            /\ c = DesktopPart!Drop(v) /\ d = DesktopPart!Unlock
      OBVIOUS
    <2>2. /\ a.op = "front" /\ a.x = e /\ b.op = "send" /\ c.op = "drop" /\ d.op = "unlock"
          /\ a.ev = "exit" /\ b.ev = "exit" /\ c.ev = "exit" /\ d.ev = "exit"
      BY <2>1, Fields, StepFields
    <2>3. /\ ops[1] = a
          /\ \/ Len(ops) = 2 /\ ops[2] = d
             \/ Len(ops) = 4 /\ ops[2] = b /\ ops[3] = c /\ ops[4] = d
      BY <1>2, <2>1
    <2>4. CASE Len(ops) = 2 /\ ops[2] = d
      <3>1. \A i \in 1 .. 2 : i = 1 \/ i = 2
        OBVIOUS
      <3> QED  BY <2>2, <2>3, <2>4, <3>1
    <2>5. CASE Len(ops) = 4 /\ ops[2] = b /\ ops[3] = c /\ ops[4] = d
      <3>1. \A i \in 1 .. 4 : i = 1 \/ i = 2 \/ i = 3 \/ i = 4
        OBVIOUS
      <3> QED  BY <2>2, <2>3, <2>5, <3>1
    <2> QED  BY <2>3, <2>4, <2>5
  <1>6. HeldInv'
    <2>1. ~First(0, "drop")
      BY <1>1, <1>3 DEF First
    <2> QED  BY <1>1, <1>4, <2>1, StillHeld DEF FocusInv, CalmInv
  <1>7. ASSUME NEW p \in DProgs PROVE Asks(p)'
    <2>1. todo'[p] = todo[p]
      BY <1>1, <1>4 DEF DTasks
    <2> QED  BY <1>1, <2>1 DEF FocusInv, Asks, First, Working, Steps
  <1>8. Unlocks'
    BY <1>4, <1>5 DEF Unlocks
  <1>9. /\ AwakeInv' /\ Runs(0)' /\ Linking(0)' /\ Making(0)' /\ Fronting(0)' /\ Shifting(0)'
    BY <1>1, <1>2, <1>4, <1>5
       DEF FocusInv, AwakeInv, Runs, Linking, Making, Fronting, Shifting, First
  <1>10. Unfocuses(0)'
    BY <1>4, <1>5 DEF Unfocuses, Steps
  <1>11. /\ Shows(Below(count))' /\ (count' = 0 => ~elements'[0].inUse)
         /\ count' > 0 => ~asleep'[vps'[elements'[0].vp].owner]
    <2>1. /\ Shows(Below(count)) /\ (count = 0 => ~elements[0].inUse)
          /\ count > 0 => ~asleep[vps[elements[0].vp].owner]
      BY <1>3, AllIdle
    <2> QED  BY <1>1, <2>1 DEF Shows, Below
  <1> QED  BY <1>1, <1>4, <1>6, <1>7, <1>8, <1>9, <1>10, <1>11, OnlyOne

LEMMA OpenFocus ==
    ASSUME CallInv, CallInv', CalmInv, CalmInv', Calm', FocusInv,
           NEW p \in DProgs, DesktopPart!Open(p)
    PROVE  FocusInv'
  <1>1. /\ p = cur /\ p \in DTasks /\ p # 0 /\ live[p] /\ phase[p] = "new"
        /\ phase' = [phase EXCEPT ![p] = "opened"]
        /\ UNCHANGED <<live, asleep, mine, vps, elements, count, cur>>
    BY DEF DesktopPart!Open, DesktopPart!In, DesktopPart!Phase, DesktopPart!list,
       DesktopPart!cpu, DTasks, DProgs
  <1>2. PICK s : s = DesktopPart!Find /\ s.op = "find" /\ s.ev = "exit"
    BY Fields, StepFields
  <1>3. PICK ops : AnySeq(ops) /\ Len(ops) = 1 /\ ops[1] = s /\ DesktopPart!Call(ops)
    <2>1. AnySeq(<<s>>) /\ Len(<<s>>) = 1 /\ <<s>>[1] = s
      BY Literals
    <2>2. DesktopPart!Call(<<s>>)
      BY <1>2 DEF DesktopPart!Open
    <2> QED  BY <2>1, <2>2
  <1>4. \A u \in DTasks : ~Working(u)
    <2>1. DesktopPart!Overlaps \subseteq marks'
      BY DEF DesktopPart!Open
    <2>2. ~Working(cur)
      BY <1>3, CallIs
    <2> QED  BY <2>1, <2>2, Alone
  <1>5. todo'[p] = ops /\ \A u \in DTasks \ {p} : todo'[u] = todo[u] /\ ~Working(u)'
    <2>1. todo'[p] = ops /\ \A u \in DTasks \ {p} : todo'[u] = todo[u]
      BY <1>1, <1>3, CallIs
    <2> QED  BY <1>4, <2>1 DEF Working
  <1>6. /\ phase'[p] = "opened" /\ mine[p] = 0 /\ \A q \in DProgs \ {p} : phase'[q] = phase[q]
    BY <1>1 DEF CalmInv, ViewTypes, FocusInv, Asks
  <1>7. Steps(p)' = {s}
    <2>1. Len(todo'[p]) = 1 /\ todo'[p][1] = s
      BY <1>3, <1>5
    <2> QED  BY <2>1 DEF Steps
  <1>8. HeldInv'
    <2>1. ASSUME NEW q \in DProgs, NEW v \in DVps, Holds(q, v) PROVE Holds(q, v)'
      <3>1. q # p /\ q \in DTasks
        BY <1>1, <2>1 DEF Holds, DTasks
      <3> QED  BY <1>1, <1>5, <1>6, <2>1, <3>1 DEF Holds, First, Working
    <2>2. ASSUME NEW q \in DProgs, NEW v \in DVps, phase[q] = "opened", mine[q] = v \/ Brings(q, v)
          PROVE  phase'[q] = "opened" /\ (mine'[q] = v \/ Brings(q, v)')
      <3>1. q # p /\ q \in DTasks
        BY <1>1, <2>2 DEF DTasks
      <3> QED  BY <1>1, <1>5, <1>6, <2>2, <3>1 DEF Brings, First, Working
    <2> QED  BY <1>1, <2>1, <2>2, HeldOn DEF FocusInv, CalmInv
  <1>9. ASSUME NEW q \in DProgs PROVE Asks(q)'
    <2>1. CASE q = p
      <3>1. \A r \in Steps(p)' : r.op = "find"
        BY <1>2, <1>7
      <3> QED  BY <1>1, <1>2, <1>3, <1>5, <1>6, <2>1, <3>1 DEF Asks, First
    <2>2. CASE q # p
      <3>1. todo'[q] = todo[q]
        BY <1>5, <2>2 DEF DTasks
      <3> QED  BY <1>1, <1>6, <2>2, <3>1 DEF FocusInv, Asks, First, Working, Steps
    <2> QED  BY <2>1, <2>2
  <1>10. AwakeInv'
    <2>1. \A q \in DProgs : phase'[q] \in {"new", "opened"} => phase[q] \in {"new", "opened"}
      BY <1>1, <1>6
    <2> QED  BY <1>1, <2>1 DEF FocusInv, AwakeInv
  <1>11. /\ Runs(p)' /\ Linking(p)' /\ Making(p)' /\ Fronting(p)' /\ Shifting(p)'
    BY <1>2, <1>3, <1>5 DEF Runs, Linking, Making, Fronting, Shifting, First
  <1>12. Unfocuses(p)'
    BY <1>2, <1>7 DEF Unfocuses
  <1>13. /\ Shows(Below(count))' /\ (count' = 0 => ~elements'[0].inUse)
         /\ count' > 0 => ~asleep'[vps'[elements'[0].vp].owner]
    <2>1. /\ Shows(Below(count)) /\ (count = 0 => ~elements[0].inUse)
          /\ count > 0 => ~asleep[vps[elements[0].vp].owner]
      BY <1>4, AllIdle
    <2> QED  BY <1>1, <2>1 DEF Shows, Below
  <1> QED  BY <1>1, <1>5, <1>8, <1>9, <1>10, <1>11, <1>12, <1>13, OnlyOne

LEMMA CloseFocus ==
    ASSUME CallInv, CallInv', RunInv, CalmInv, CalmInv', Calm', FocusInv,
           NEW p \in DProgs, DesktopPart!Close(p)
    PROVE  FocusInv'
  <1>1. /\ p = cur /\ p \in DTasks /\ p # 0 /\ live[p] /\ phase[p] = "running"
        /\ phase' = [phase EXCEPT ![p] = "closed"]
        /\ UNCHANGED <<live, asleep, mine, vps, elements, count, cur>>
    BY DEF DesktopPart!Close, DesktopPart!In, DesktopPart!Phase, DesktopPart!list,
       DesktopPart!cpu, DTasks, DProgs
  <1>2. PICK s : s = DesktopPart!Drop(mine[p]) /\ s.op = "drop" /\ s.x = mine[p] /\ s.ev = "exit"
    BY Fields, StepFields
  <1>3. PICK ops : AnySeq(ops) /\ Len(ops) = 1 /\ ops[1] = s /\ DesktopPart!Call(ops)
    <2>1. AnySeq(<<s>>) /\ Len(<<s>>) = 1 /\ <<s>>[1] = s
      BY Literals
    <2>2. DesktopPart!Call(<<s>>)
      BY <1>2 DEF DesktopPart!Close
    <2> QED  BY <2>1, <2>2
  <1>4. \A u \in DTasks : ~Working(u)
    <2>1. DesktopPart!Overlaps \subseteq marks'
      BY DEF DesktopPart!Close
    <2>2. ~Working(cur)
      BY <1>3, CallIs
    <2> QED  BY <2>1, <2>2, Alone
  <1>5. todo'[p] = ops /\ \A u \in DTasks \ {p} : todo'[u] = todo[u] /\ ~Working(u)'
    <2>1. todo'[p] = ops /\ \A u \in DTasks \ {p} : todo'[u] = todo[u]
      BY <1>1, <1>3, CallIs
    <2> QED  BY <1>4, <2>1 DEF Working
  <1>6. /\ phase'[p] = "closed" /\ \A q \in DProgs \ {p} : phase'[q] = phase[q]
    BY <1>1 DEF CalmInv, ViewTypes
  <1>7. Steps(p)' = {s}
    <2>1. Len(todo'[p]) = 1 /\ todo'[p][1] = s
      BY <1>3, <1>5
    <2> QED  BY <2>1 DEF Steps
  <1>8. Working(p)'
    BY <1>3, <1>5 DEF Working
  <1>9. First(p, "drop")' /\ todo'[p][1].x = mine[p]
    BY <1>2, <1>3, <1>5, <1>8 DEF First
  <1>10. HeldInv'
    <2>1. ASSUME NEW q \in DProgs, NEW v \in DVps, Holds(q, v) PROVE Holds(q, v)'
      <3>1. CASE q = p
        BY <1>1, <1>6, <1>9, <2>1, <3>1 DEF Holds
      <3>2. CASE q # p
        BY <1>1, <1>5, <1>6, <2>1, <3>2 DEF Holds, First, Working, DTasks
      <3> QED  BY <3>1, <3>2
    <2>2. ASSUME NEW q \in DProgs, NEW v \in DVps, phase[q] = "opened", mine[q] = v \/ Brings(q, v)
          PROVE  phase'[q] = "opened" /\ (mine'[q] = v \/ Brings(q, v)')
      <3>1. q # p /\ q \in DTasks
        BY <1>1, <2>2 DEF DTasks
      <3> QED  BY <1>1, <1>5, <1>6, <2>2, <3>1 DEF Brings, First, Working
    <2> QED  BY <1>1, <2>1, <2>2, HeldOn DEF FocusInv, CalmInv
  <1>11. ASSUME NEW q \in DProgs PROVE Asks(q)'
    <2>1. CASE q = p
      <3>1. \A r \in Steps(p)' : r.op = "drop"
        BY <1>2, <1>7
      <3>2. ~First(p, "find")' /\ ~First(p, "link")' /\ ~First(p, "make")'
        BY <1>9 DEF First
      <3> QED  BY <1>1, <1>6, <1>9, <2>1, <3>1, <3>2 DEF Asks
    <2>2. CASE q # p
      <3>1. todo'[q] = todo[q]
        BY <1>5, <2>2 DEF DTasks
      <3> QED  BY <1>1, <1>6, <2>2, <3>1 DEF FocusInv, Asks, First, Working, Steps
    <2> QED  BY <2>1, <2>2
  <1>12. AwakeInv'
    <2>1. \A q \in DProgs : phase'[q] \in {"new", "opened"} => phase[q] \in {"new", "opened"}
      BY <1>1, <1>6
    <2> QED  BY <1>1, <2>1 DEF FocusInv, AwakeInv
  <1>13. /\ Runs(p)' /\ Linking(p)' /\ Making(p)' /\ Fronting(p)' /\ Shifting(p)'
    BY <1>9 DEF Runs, Linking, Making, Fronting, Shifting, First
  <1>14. Unfocuses(p)'
    BY <1>2, <1>7 DEF Unfocuses
  <1>15. /\ Shows(Below(count))' /\ (count' = 0 => ~elements'[0].inUse)
         /\ count' > 0 => ~asleep'[vps'[elements'[0].vp].owner]
    <2>1. /\ Shows(Below(count)) /\ (count = 0 => ~elements[0].inUse)
          /\ count > 0 => ~asleep[vps[elements[0].vp].owner]
      BY <1>4, AllIdle
    <2> QED  BY <1>1, <2>1 DEF Shows, Below
  <1> QED  BY <1>1, <1>5, <1>10, <1>11, <1>12, <1>13, <1>14, <1>15, OnlyOne

\* The viewport in front belongs to a program.
LEMMA FrontIsOpen ==
    ASSUME CalmInv, FocusInv, Usual, count > 0
    PROVE  /\ elements[0].vp \in DVps /\ vps[elements[0].vp].open
           /\ vps[elements[0].vp].owner \in DProgs
  <1>1. 0 \in Below(count)
    BY DesktopAssumption DEF Below, DPlaces
  <1> QED  BY <1>1 DEF FocusInv, ListInv, Shows, HeldInv

\* What goes on beside the calls wakes programs, at most.
LEMMA AsideFocus ==
    ASSUME CallInv, CalmInv, FocusInv, UNCHANGED <<elements, count>>,
           \A v \in DVps : vps'[v].open = vps[v].open /\ vps'[v].owner = vps[v].owner,
           \A t \in DTasks : Working(t)' <=> Working(t),
           \A t \in DTasks : Working(t) => todo'[t] = todo[t],
           \A t \in DTasks : First(t, "handle") => UNCHANGED <<cur, lock, runid, mapped>>,
           \A p \in DProgs : ~asleep[p] => ~asleep'[p],
           CallInv', HeldInv', AwakeInv', \A p \in DProgs : Asks(p)'
    PROVE  FocusInv'
  <1>1. ASSUME NEW t \in DTasks
        PROVE  /\ Steps(t)' = Steps(t) /\ Rest(t)' = Rest(t)
               /\ \A op : First(t, op)' <=> First(t, op)
    <2>1. CASE Working(t)
      BY <2>1 DEF Steps, Rest, First
    <2>2. CASE ~Working(t)
      <3>1. Len(todo[t]) \in Nat /\ ~(Len(todo[t]) > 0)
        BY <2>2 DEF CallInv, Working
      <3>2. Len(todo'[t]) \in Nat /\ ~(Len(todo'[t]) > 0)
        BY <2>2 DEF CallInv, Working
      <3>3. Steps(t) = {} /\ Rest(t) = {}
        BY <3>1 DEF Steps, Rest
      <3>4. Steps(t)' = {} /\ Rest(t)' = {}
        BY <3>2 DEF Steps, Rest
      <3> QED  BY <2>2, <3>3, <3>4 DEF First
    <2> QED  BY <2>1, <2>2
  <1>2. ASSUME NEW t \in DTasks, NEW op, First(t, op)
        PROVE  todo'[t] = todo[t] /\ todo[t][1].op = op
    BY <1>2 DEF First
  <1>3. ASSUME NEW S PROVE Shows(S) => Shows(S)'
    BY DEF Shows
  <1>4. \A n : Below(n)' = Below(n)
    BY DEF Below
  <1>5. Usual' <=> Usual
    BY <1>1 DEF Usual
  <1>6. ASSUME NEW t \in DTasks PROVE Linking(t)' /\ Making(t)' /\ Fronting(t)' /\ Shifting(t)'
    <2>1. Linking(t) /\ Making(t) /\ Fronting(t) /\ Shifting(t) /\ Laid(t)
      BY DEF FocusInv, ListInv, CalmInv
    <2>2. ASSUME First(t, "link") PROVE Linking(t)'
      <3>1. Shows(Below(count - 1)) /\ count > 0 /\ (todo[t][1].x = 0 \/ count > 1)
        BY <2>1, <2>2 DEF Linking
      <3>2. Shows(Below(count - 1))'
        BY <3>1 DEF Shows, Below
      <3> QED  BY <1>2, <2>2, <3>1, <3>2 DEF Linking
    <2>3. ASSUME First(t, "make") PROVE Making(t)'
      <3>1. PICK v, e : v = todo[t][1].x /\ e = todo[t][2].x
        OBVIOUS
      <3>2. /\ Shows(Below(count - 1)) /\ count > 0 /\ count <= e + 1 /\ (e = 0 \/ count > 1)
            /\ elements[e].vp = v /\ ~vps[v].open
        BY <2>1, <2>3, <3>1 DEF Making
      <3>3. v \in DVps
        BY <2>1, <2>3, <3>1 DEF Laid, Leads, Waits, First
      <3>4. Shows(Below(count - 1))'
        BY <3>2 DEF Shows, Below
      <3>5. todo'[t] = todo[t] /\ ~vps'[v].open
        BY <1>2, <2>3, <3>2, <3>3
      <3> QED  BY <3>1, <3>2, <3>4, <3>5 DEF Making
    <2>4. ASSUME First(t, "front") PROVE Fronting(t)'
      <3>1. PICK e : e = todo[t][1].x
        OBVIOUS
      <3>2. todo'[t] = todo[t]
        BY <1>2, <2>4
      <3>3. CASE t = 0
        BY <2>1, <2>4, <3>1, <3>2, <3>3 DEF Fronting
      <3>4. CASE t # 0
        <4>1. /\ Shows(Below(count - 1) \cup {e})
              /\ count > 0 /\ count <= e + 1 /\ (e = 0 \/ count > 1)
              /\ vps[elements[e].vp].owner = t
          BY <2>1, <2>4, <3>1, <3>4 DEF Fronting
        <4>2. PICK S : S = Below(count - 1) \cup {e}
          OBVIOUS
        <4>3. Shows(S)
          BY <4>1, <4>2
        <4>4. Shows(S)'
          BY <1>3, <4>3
        <4>5. elements[e].vp \in DVps
          BY <4>2, <4>3 DEF Shows
        <4>6. vps'[elements'[e].vp].owner = t
          BY <4>1, <4>5
        <4>7. Below(count - 1)' \cup {e} = S
          BY <4>2 DEF Below
        <4>8. Shows(Below(count - 1) \cup {todo[t][1].x})'
          BY <3>1, <3>2, <4>4, <4>7 DEF Shows
        <4> QED  BY <3>1, <3>2, <3>4, <4>1, <4>6, <4>8 DEF Fronting
      <3> QED  BY <3>3, <3>4
    <2>5. ASSUME First(t, "shift") PROVE Shifting(t)'
      <3>1. todo'[t] = todo[t]
        BY <1>2, <2>5
      <3>2. PICK S : S = Below(count + 1) \ {todo[t][1].x}
        OBVIOUS
      <3>3. Shows(S) /\ \E s \in Rest(t) : s.op = "tell" /\ s.x = 0 /\ s.ev = "focused"
        BY <2>1, <2>5, <3>2 DEF Shifting
      <3>4. Shows(S)' /\ (Below(count + 1) \ {todo[t][1].x})' = S
        BY <1>3, <3>1, <3>2, <3>3 DEF Below
      <3> QED  BY <1>1, <3>3, <3>4 DEF Shifting, Shows
    <2> QED  BY <1>1, <2>2, <2>3, <2>4, <2>5 DEF Linking, Making, Fronting, Shifting
  <1>7. ListInv'
    <2>1. Usual' => Shows(Below(count))'
      <3>1. Usual => Shows(Below(count))
        BY DEF FocusInv, ListInv
      <3> QED  BY <1>5, <3>1 DEF Shows, Below
    <2>2. (\A t \in DTasks : ~First(t, "link")') /\ count' = 0 => ~elements'[0].inUse
      BY <1>1 DEF FocusInv, ListInv
    <2> QED  BY <1>6, <2>1, <2>2 DEF ListInv
  <1>8. \A s : Focuses(s)' <=> Focuses(s)
    BY DEF Focuses
  <1>9. Due' <=> Due
    BY <1>1, <1>8 DEF Due
  <1>10. FrontInv'
    <2> SUFFICES ASSUME Usual, count > 0, ~Due
                 PROVE  ~asleep'[vps'[elements'[0].vp].owner]
      BY <1>5, <1>9 DEF FrontInv
    <2>1. PICK w, q : w = elements[0].vp /\ q = vps[w].owner
      OBVIOUS
    <2>2. w \in DVps /\ q \in DProgs
      BY <2>1, FrontIsOpen
    <2>3. ~asleep[q]
      BY <2>1 DEF FocusInv, FrontInv
    <2>4. vps'[elements'[0].vp].owner = q
      BY <2>1, <2>2
    <2> QED  BY <2>2, <2>3, <2>4
  <1>11. Unlocks'
    BY DEF FocusInv, Unlocks, DTasks
  <1>12. ASSUME NEW t \in DTasks PROVE Runs(t)'
    <2> SUFFICES ASSUME First(t, "handle") PROVE Runs(t)'
      BY <1>1 DEF Runs
    <2>1. PICK v \in DVps : v = todo[t][1].x
      BY DEF CalmInv, Laid, Leads, Waits, First
    <2>2. t = cur /\ lock /\ runid = mapped /\ runid = vps[v].owner
      BY <2>1 DEF FocusInv, Runs
    <2>3. vps'[v].owner = vps[v].owner /\ todo'[t] = todo[t]
      BY <1>2
    <2> QED  BY <2>1, <2>2, <2>3 DEF Runs
  <1>13. ASSUME NEW t \in DTasks PROVE Unfocuses(t)'
    <2> SUFFICES ASSUME NEW s \in Steps(t), s.ev = "unfocused"
                 PROVE  /\ Unfocus(t, s)'
                        /\ todo'[t][1].op \notin {"find", "link", "make", "front", "shift", "drop"}
      BY <1>1 DEF Unfocuses
    <2>1. /\ Unfocus(t, s)
          /\ todo[t][1].op \notin {"find", "link", "make", "front", "shift", "drop"}
      BY DEF FocusInv, Unfocuses
    <2>2. Working(t)
      <3>1. Steps(t) # {}
        OBVIOUS
      <3> QED  BY <3>1, NoSteps DEF Steps, CallInv, Working
    <2>3. Usual
      BY <2>1, <2>2 DEF CalmInv, OneCall, Usual, First
    <2>4. PICK w, q : w = elements[0].vp /\ q = vps[w].owner
      OBVIOUS
    <2>5. count > 0 => w \in DVps
      BY <2>3, <2>4, FrontIsOpen
    <2>6. count > 1 => count > 0
      BY DEF CalmInv, ViewTypes
    <2>7. count > 1 => vps'[elements'[0].vp].owner = vps[elements[0].vp].owner
      BY <2>4, <2>5, <2>6
    <2>8. Unfocus(t, s)'
      BY <2>1, <2>7 DEF Unfocus
    <2> QED  BY <2>1, <2>2, <2>8
  <1> QED  BY <1>7, <1>10, <1>11, <1>12, <1>13 DEF FocusInv

LEMMA HandlerFocus ==
    ASSUME CallInv, CallInv', CalmInv, FocusInv, NEW p \in DProgs, DesktopPart!AddHandler(p)
    PROVE  FocusInv'
  <1>1. /\ p = cur /\ p \in DTasks /\ p # 0 /\ live[p] /\ phase[p] = "opened" /\ ~Working(p)
        /\ phase' = [phase EXCEPT ![p] = "running"] /\ mine[p] # 0
        /\ UNCHANGED <<live, asleep, mine, elements, count, todo, lock, cur, runid, mapped>>
    BY Blankness DEF DesktopPart!AddHandler, DesktopPart!In, DesktopPart!Phase, DesktopPart!Busy,
       DesktopPart!cpu, Working, CallInv, DTasks, DProgs, DesktopPart!None
  <1>2. PICK v \in DVps : v = mine[p]
    BY <1>1 DEF CalmInv, ViewTypes
  <1>3. /\ vps'[v].handler = p
        /\ \A w \in DVps : vps'[w].open = vps[w].open /\ vps'[w].owner = vps[w].owner
        /\ \A w \in DVps \ {v} : vps'[w] = vps[w]
    <2>1. vps' = [vps EXCEPT ![v].handler = p]
      BY <1>2 DEF DesktopPart!AddHandler
    <2> QED  BY <2>1 DEF CalmInv, ViewTypes
  <1>4. phase'[p] = "running" /\ \A q \in DProgs \ {p} : phase'[q] = phase[q]
    BY <1>1 DEF CalmInv, ViewTypes
  <1>5. HeldInv'
    <2>1. ASSUME NEW q \in DProgs, NEW w \in DVps, Holds(q, w) PROVE Holds(q, w)' /\ q # p
      <3>1. q # p
        BY <1>1, <2>1 DEF Holds
      <3> QED  BY <1>1, <1>4, <2>1, <3>1 DEF Holds, First, Working
    <2>2. ASSUME NEW q \in DProgs, NEW w \in DVps, q # p \/ w # v,
                 phase[q] = "opened", mine[q] = w \/ Brings(q, w)
          PROVE  q # p /\ phase'[q] = "opened" /\ (mine'[q] = w \/ Brings(q, w)')
      <3>1. q # p
        BY <1>1, <1>2, <2>2 DEF Brings
      <3> QED  BY <1>1, <1>4, <2>2, <3>1 DEF Brings, First, Working
    <2>3. Holds(p, v)'
      BY <1>1, <1>2, <1>4 DEF Holds
    <2>4. ASSUME NEW w \in DVps
          PROVE  /\ vps'[w].open =>
                      /\ vps'[w].owner \in DProgs /\ live'[vps'[w].owner]
                      /\ \/ Holds(vps[w].owner, w)' /\ vps'[w].handler # 0
                         \/ /\ phase'[vps'[w].owner] = "opened"
                            /\ mine'[vps'[w].owner] = w \/ Brings(vps[w].owner, w)'
                 /\ \A k \in DProgs : vps'[w].handler = k => live'[k] /\ Holds(k, w)'
      <3>1. PICK q, h, k : q = vps[w].owner /\ h = vps[w].handler /\ k = vps'[w].handler
        OBVIOUS
      <3>2. h \in DProgs \cup {0} /\ vps'[w].owner = q /\ vps'[w].open = vps[w].open
            /\ k = (IF w = v THEN p ELSE h)
        BY <1>3, <3>1 DEF CalmInv, ViewTypes
      <3>3. vps[w].open =>
              /\ q \in DProgs /\ live[q]
              /\ \/ Holds(q, w) /\ h # 0
                 \/ phase[q] = "opened" /\ (mine[q] = w \/ Brings(q, w))
        BY <3>1 DEF FocusInv, HeldInv
      <3>4. h # 0 => live[h] /\ Holds(h, w)
        BY <3>1 DEF FocusInv, HeldInv
      <3>5. vps[w].open =>
              /\ q \in DProgs /\ live'[q]
              /\ \/ Holds(q, w)' /\ k # 0
                 \/ phase'[q] = "opened" /\ (mine'[q] = w \/ Brings(q, w)')
        <4> SUFFICES ASSUME vps[w].open
                     PROVE  \/ Holds(q, w)' /\ k # 0
                            \/ phase'[q] = "opened" /\ (mine'[q] = w \/ Brings(q, w)')
          BY <1>1, <3>3
        <4>1. CASE Holds(q, w) /\ h # 0
          BY <1>1, <2>1, <3>2, <3>3, <4>1
        <4>2. CASE q = p /\ w = v
          BY <1>1, <2>3, <3>2, <4>2
        <4>3. CASE (q # p \/ w # v) /\ phase[q] = "opened" /\ (mine[q] = w \/ Brings(q, w))
          BY <2>2, <3>3, <4>3
        <4> QED  BY <3>3, <4>1, <4>2, <4>3
      <3>6. k # 0 => live'[k] /\ Holds(k, w)'
        <4>1. CASE w = v
          BY <1>1, <2>3, <3>2, <4>1
        <4>2. CASE w # v
          BY <1>1, <2>1, <3>2, <3>4, <4>2
        <4> QED  BY <4>1, <4>2
      <3>7. k \in DProgs => k # 0
        BY DEF DProgs
      <3> QED  BY <3>1, <3>2, <3>5, <3>6, <3>7 DEF Holds, Brings
    <2>5. ASSUME NEW w \in DVps
          PROVE  vps'[w].handler # 0 => live'[vps'[w].handler] /\ Holds(vps[w].handler, w)'
      <3>1. vps'[w].handler \in DProgs \cup {0}
        BY <1>3 DEF CalmInv, ViewTypes
      <3> QED  BY <2>4, <3>1 DEF Holds
    <2> QED  BY <2>4, <2>5 DEF HeldInv
  <1>6. ASSUME NEW q \in DProgs PROVE Asks(q)'
    <2>1. CASE q = p
      <3>1. Steps(p)' = {}
        BY <1>1, NoSteps DEF Steps, CallInv, Working
      <3> QED  BY <1>1, <1>4, <2>1, <3>1 DEF Asks, First, Working
    <2>2. CASE q # p
      BY <1>1, <1>4, <2>2 DEF FocusInv, Asks, First, Working, Steps
    <2> QED  BY <2>1, <2>2
  <1>7. AwakeInv'
    <2>1. \A q \in DProgs : phase'[q] \in {"new", "opened"} => phase[q] \in {"new", "opened"}
      BY <1>4
    <2> QED  BY <1>1, <2>1 DEF FocusInv, AwakeInv
  <1>8. \A t \in DTasks : Working(t)' <=> Working(t)
    BY <1>1 DEF Working
  <1> QED  BY <1>1, <1>3, <1>5, <1>6, <1>7, <1>8, AsideFocus

LEMMA StartFocus ==
    ASSUME CallInv, CallInv', CalmInv, FocusInv, NEW p \in DProgs, DesktopPart!Start(p)
    PROVE  FocusInv'
  <1>1. /\ ~live[p] /\ cur = 0 /\ p # 0 /\ p \in DTasks
        /\ live' = [live EXCEPT ![p] = TRUE] /\ phase' = [phase EXCEPT ![p] = "new"]
        /\ mine' = [mine EXCEPT ![p] = 0] /\ asleep' = [asleep EXCEPT ![p] = FALSE]
        /\ todo' = [todo EXCEPT ![p] = <<>>]
        /\ UNCHANGED <<vps, elements, count, lock, cur, runid, mapped>>
    BY DEF DesktopPart!Start, DesktopPart!list, DesktopPart!cpu, DesktopPart!None, DesktopPart!D,
       DTasks, DProgs
  <1>2. ~Working(p)
    BY <1>1 DEF CalmInv, OneCall
  <1>3. ~Working(p)' /\ \A t \in DTasks \ {p} : todo'[t] = todo[t]
    <2>1. todo'[p] = <<>> /\ Len(<<>>) = 0
      BY <1>1, Literals DEF CallInv
    <2> QED  BY <1>1, <2>1 DEF CallInv, Working
  <1>4. /\ live'[p] /\ phase'[p] = "new" /\ mine'[p] = 0 /\ ~asleep'[p]
        /\ asleep' \in [DProgs -> BOOLEAN]
        /\ \A q \in DProgs \ {p} : /\ live'[q] = live[q] /\ phase'[q] = phase[q]
                                   /\ mine'[q] = mine[q] /\ asleep'[q] = asleep[q]
    BY <1>1 DEF CalmInv, ViewTypes, FocusInv, AwakeInv
  <1>5. HeldInv'
    <2>1. ASSUME NEW v \in DVps
          PROVE  /\ vps'[v].open =>
                      /\ vps'[v].owner \in DProgs /\ live'[vps'[v].owner]
                      /\ \/ Holds(vps[v].owner, v)' /\ vps'[v].handler # 0
                         \/ /\ phase'[vps'[v].owner] = "opened"
                            /\ mine'[vps'[v].owner] = v \/ Brings(vps[v].owner, v)'
                 /\ vps'[v].handler # 0 => live'[vps'[v].handler] /\ Holds(vps[v].handler, v)'
      <3>1. PICK q, h : q = vps[v].owner /\ h = vps[v].handler
        OBVIOUS
      <3>2. h \in DProgs \cup {0} /\ vps'[v] = vps[v]
        BY <1>1, <3>1 DEF CalmInv, ViewTypes
      <3>3. vps[v].open =>
              /\ q \in DProgs /\ live[q]
              /\ \/ Holds(q, v) /\ h # 0
                 \/ phase[q] = "opened" /\ (mine[q] = v \/ Brings(q, v))
        BY <3>1 DEF FocusInv, HeldInv
      <3>4. h # 0 => live[h] /\ Holds(h, v)
        BY <3>1 DEF FocusInv, HeldInv
      <3>5. ASSUME NEW r \in DProgs \ {p}
            PROVE  (Holds(r, v) => Holds(r, v)') /\ (Brings(r, v) => Brings(r, v)')
        <4>1. todo'[r] = todo[r]
          BY <1>3 DEF DTasks
        <4> QED  BY <1>4, <4>1 DEF Holds, Brings, First, Working
      <3>6. vps[v].open =>
              /\ q \in DProgs /\ live'[q]
              /\ \/ Holds(q, v)' /\ h # 0
                 \/ phase'[q] = "opened" /\ (mine'[q] = v \/ Brings(q, v)')
        BY <1>1, <1>4, <3>3, <3>5
      <3>7. h # 0 => live'[h] /\ Holds(h, v)'
        BY <1>1, <1>4, <3>2, <3>4, <3>5
      <3>8. vps'[v].owner = q /\ vps'[v].handler = h
        BY <3>1, <3>2
      <3> QED  BY <3>1, <3>2, <3>6, <3>7, <3>8 DEF Holds, Brings
    <2> QED  BY <2>1 DEF HeldInv
  <1>6. ASSUME NEW q \in DProgs PROVE Asks(q)'
    <2>1. CASE q = p
      <3>1. Steps(p)' = {}
        BY <1>1, <1>3, NoSteps DEF Steps, CallInv, Working
      <3> QED  BY <1>3, <1>4, <2>1, <3>1 DEF Asks, First
    <2>2. CASE q # p
      <3>1. todo'[q] = todo[q]
        BY <1>3, <2>2 DEF DTasks
      <3> QED  BY <1>4, <2>2, <3>1 DEF FocusInv, Asks, First, Working, Steps
    <2> QED  BY <2>1, <2>2
  <1>7. AwakeInv'
    <2>1. cur' \notin DProgs
      BY <1>1 DEF DProgs
    <2>2. ASSUME NEW q \in DProgs, phase'[q] \in {"new", "opened"} PROVE ~asleep'[q]
      BY <1>4, <2>2 DEF FocusInv, AwakeInv
    <2> QED  BY <1>4, <2>1, <2>2 DEF AwakeInv
  <1>8. /\ \A t \in DTasks : Working(t)' <=> Working(t)
        /\ \A t \in DTasks : Working(t) => todo'[t] = todo[t]
    BY <1>2, <1>3 DEF Working
  <1>9. \A q \in DProgs : ~asleep[q] => ~asleep'[q]
    BY <1>4
  <1> QED  BY <1>1, <1>5, <1>6, <1>7, <1>8, <1>9, AsideFocus

LEMMA LeaveFocus ==
    ASSUME CallInv, CallInv', CalmInv, FocusInv, NEW p \in DProgs, DesktopPart!End(p)
    PROVE  FocusInv'
  <1>1. /\ p = cur /\ p # 0 /\ p \in DTasks /\ ~Working(p)
        /\ phase[p] = "closed" \/ (phase[p] = "opened" /\ mine[p] = 0)
        /\ live' = [live EXCEPT ![p] = FALSE] /\ cur' = 0
        /\ UNCHANGED <<phase, mine, asleep, vps, elements, count, todo>>
    BY Blankness DEF DesktopPart!End, DesktopPart!D, DesktopPart!Busy, Working, CallInv,
       DesktopPart!list, DTasks, DProgs, DesktopPart!None
  <1>2. \A q \in DProgs \ {p} : live'[q] = live[q]
    BY <1>1 DEF CalmInv, ViewTypes
  <1>3. ASSUME NEW v \in DVps
        PROVE  (vps[v].open => vps[v].owner # p) /\ vps[v].handler # p
    <2>1. ~Holds(p, v) /\ ~Brings(p, v)
      BY <1>1 DEF Holds, Brings, First
    <2>2. mine[p] = v => phase[p] # "opened"
      BY <1>1, DesktopAssumption DEF DVps
    <2>3. PICK q, h : q = vps[v].owner /\ h = vps[v].handler
      OBVIOUS
    <2>4. vps[v].open =>
            \/ Holds(q, v) /\ h # 0
            \/ phase[q] = "opened" /\ (mine[q] = v \/ Brings(q, v))
      BY <2>3 DEF FocusInv, HeldInv
    <2>5. h # 0 => Holds(h, v)
      BY <2>3 DEF FocusInv, HeldInv
    <2> QED  BY <1>1, <2>1, <2>2, <2>3, <2>4, <2>5
  <1>4. HeldInv'
    <2>1. \A q \in DProgs, v \in DVps : Holds(q, v) => Holds(q, v)'
      BY <1>1 DEF Holds, First, Working
    <2>2. \A q \in DProgs, v \in DVps :
            phase[q] = "opened" /\ (mine[q] = v \/ Brings(q, v)) =>
              phase'[q] = "opened" /\ (mine'[q] = v \/ Brings(q, v)')
      BY <1>1 DEF Brings, First, Working
    <2>3. \A q \in DProgs, v \in DVps :
            live[q] /\ ((vps[v].open /\ vps[v].owner = q) \/ vps[v].handler = q) => live'[q]
      BY <1>2, <1>3
    <2> QED  BY <1>1, <2>1, <2>2, <2>3, HeldOn DEF FocusInv, CalmInv
  <1>5. \A q \in DProgs : Asks(q)'
    BY <1>1 DEF FocusInv, Asks, First, Working, Steps
  <1>6. AwakeInv'
    BY <1>1 DEF FocusInv, AwakeInv, DProgs
  <1>7. \A t \in DTasks : ~First(t, "handle")
    BY <1>1 DEF FocusInv, Runs, First
  <1>8. \A t \in DTasks : Working(t)' <=> Working(t)
    BY <1>1 DEF Working
  <1> QED  BY <1>1, <1>4, <1>5, <1>6, <1>7, <1>8, AsideFocus

LEMMA SwitchFocus ==
    ASSUME CallInv, CallInv', CalmInv, FocusInv, NEW t \in DTasks, DesktopPart!Switch(t)
    PROVE  FocusInv'
  <1>1. /\ ~lock /\ cur' = t /\ (t \in DProgs => ~asleep[t])
        /\ UNCHANGED <<live, phase, mine, asleep, vps, elements, count, todo>>
    BY DEF DesktopPart!Switch, DesktopPart!progs, DesktopPart!list, DesktopPart!D,
       DesktopPart!Progs, DProgs
  <1>2. HeldInv'
    BY <1>1, StillHeld DEF FocusInv, CalmInv, Brings, First, Working
  <1>3. \A q \in DProgs : Asks(q)'
    BY <1>1 DEF FocusInv, Asks, First, Working, Steps
  <1>4. AwakeInv'
    BY <1>1 DEF FocusInv, AwakeInv
  <1>5. \A u \in DTasks : ~First(u, "handle")
    BY <1>1 DEF FocusInv, Runs
  <1>6. \A u \in DTasks : Working(u)' <=> Working(u)
    BY <1>1 DEF Working
  <1> QED  BY <1>1, <1>2, <1>3, <1>4, <1>5, <1>6, AsideFocus

LEMMA FocusKeeps ==
    ASSUME CallInv, CallInv', RunInv, CalmInv, CalmInv', Calm', FocusInv, DesktopPart!Next
    PROVE  FocusInv'
  <1>1. ASSUME DesktopPart!Step PROVE FocusInv'
    BY <1>1, FindFocus, LinkFocus, MakeFocus, ReturnFocus, FrontFocus, DropFocus, ShiftFocus,
       TellFocus, DeliverFocus, HandleFocus, EndFocus DEF DesktopPart!Step
  <1>2. ASSUME NEW p \in DProgs, DesktopPart!Kill(p) PROVE FALSE
    BY <1>2 DEF DesktopPart!Kill, Calm
  <1> QED  BY <1>1, <1>2, ClickFocus, StartFocus, OpenFocus, HandlerFocus, CloseFocus, LeaveFocus,
              SwitchFocus
           DEF DesktopPart!Next, DesktopPart!Progs, DesktopPart!Tasks, DesktopPart!D, DProgs, DTasks

LEMMA FocusStarts == DesktopPart!Init => FocusInv
  <1> SUFFICES ASSUME DesktopPart!Init PROVE FocusInv
    OBVIOUS
  <1>1. /\ phase = [p \in DProgs |-> "new"] /\ asleep = [p \in DProgs |-> FALSE]
        /\ mine = [p \in DProgs |-> 0]
        /\ vps = [v \in DVps |-> [open |-> FALSE, owner |-> 0, handler |-> 0]]
        /\ elements = [e \in DPlaces |-> [inUse |-> FALSE, vp |-> 0]] /\ count = 0
        /\ cur = 0 /\ todo = [t \in DTasks |-> <<>>]
    BY DEF DesktopPart!Init, DesktopPart!Tasks, DesktopPart!D, DesktopPart!Progs, DTasks, DProgs,
       DesktopPart!Vps, DVps, DesktopPart!Places, DPlaces, DesktopPart!None, DesktopPart!Nobody
  <1>2. \A t \in DTasks : ~Working(t) /\ Len(todo[t]) = 0
    BY <1>1, Literals DEF Working
  <1>3. DProgs \subseteq DTasks /\ 0 \in DTasks /\ 0 \notin DProgs /\ 0 \in DPlaces
    BY DesktopAssumption DEF DTasks, DProgs, DPlaces
  <1>4. \A t \in DTasks : Steps(t) = {}
    BY <1>2 DEF Steps
  <1>5. ListInv
    <2>1. Shows(Below(count))
      BY <1>1 DEF Shows, Below, DPlaces
    <2>2. ~elements[0].inUse
      BY <1>1, <1>3
    <2> QED  BY <1>2, <2>1, <2>2 DEF ListInv, Linking, Making, Fronting, Shifting, First
  <1>6. HeldInv
    BY <1>1 DEF HeldInv
  <1>7. AwakeInv /\ FrontInv /\ Unlocks
    BY <1>1, <1>2, <1>3 DEF AwakeInv, FrontInv, Unlocks
  <1>8. \A p \in DProgs : Asks(p)
    BY <1>1, <1>2, <1>3, <1>4 DEF Asks, First
  <1>9. \A t \in DTasks : Runs(t) /\ Unfocuses(t)
    BY <1>2, <1>4 DEF Runs, Unfocuses, First
  <1> QED  BY <1>5, <1>6, <1>7, <1>8, <1>9 DEF FocusInv

LEMMA FocusHolds == Spec => [](ViewInv /\ (Calm => FocusInv))
  <1>1. Init => ViewInv /\ (Calm => FocusInv)
    BY ViewStarts, FocusStarts DEF Init
  <1>2. ViewInv /\ (Calm => FocusInv) /\ [Next]_vars => (ViewInv /\ (Calm => FocusInv))'
    <2> SUFFICES ASSUME ViewInv, Calm => FocusInv, [Next]_vars, Calm' PROVE FocusInv'
      BY ViewKeeps
    <2>1. ViewInv'
      BY ViewKeeps
    <2>2. CASE DesktopPart!Next
      <3>1. Calm
        BY <2>2, Grows DEF Calm
      <3> QED  BY <2>1, <2>2, <3>1, FocusKeeps DEF ViewInv
    <2>3. CASE UNCHANGED desktop
      <3> USE <2>3 DEF desktop
      <3>1. FocusInv /\ CallInv /\ CallInv' /\ CalmInv
        BY <2>1 DEF Calm, ViewInv
      <3>2. HeldInv'
        BY <3>1 DEF FocusInv, HeldInv, Holds, Brings, First, Working
      <3>3. AwakeInv'
        BY <3>1 DEF FocusInv, AwakeInv
      <3>4. \A p \in DProgs : Asks(p)'
        BY <3>1 DEF FocusInv, Asks, First, Working, Steps
      <3>5. \A t \in DTasks : Working(t)' <=> Working(t)
        BY DEF Working
      <3> QED  BY <3>1, <3>2, <3>3, <3>4, <3>5, AsideFocus
    <2> QED  BY <2>2, <2>3 DEF Next, NextAudio, NextPs2, NextKeyboard, NextProc, NextDesktop,
                               NextBuffs, vars
  <1> QED  BY <1>1, <1>2, PTL DEF Spec

LEMMA SameCount ==
    ASSUME NEW S
    PROVE  DesktopPart!Cardinality(S) = Cardinality(S)
  BY DEF DesktopPart!Cardinality, Cardinality

\* The first n places show as many viewports as there are places.
LEMMA CountedPlaces ==
    ASSUME NEW n \in Nat, n <= MaxVp, NEW T, T = {v \in DVps : vps[v].open}, Shows(Below(n))
    PROVE  {elements[e].vp : e \in 0 .. n - 1} = T /\ Cardinality(T) = n
  <1> DEFINE S == 0 .. n - 1
             f == [e \in S |-> elements[e].vp]
  <1>1. S = Below(n)
    BY DesktopAssumption DEF Below, DPlaces
  <1>2. /\ \A e \in S : elements[e].vp \in T
        /\ \A e, g \in S : elements[e].vp = elements[g].vp => e = g
        /\ \A v \in T : \E e \in S : elements[e].vp = v
    BY <1>1 DEF Shows
  <1>3. IsFiniteSet(S) /\ Cardinality(S) = n
    <2>1. 0 \in Int /\ n - 1 \in Int
      OBVIOUS
    <2>2. IsFiniteSet(S) /\ Cardinality(S) = IF 0 > n - 1 THEN 0 ELSE (n - 1) - 0 + 1
      BY <2>1, FS_Interval
    <2> HIDE DEF S
    <2> QED  BY <2>2
  <1> HIDE DEF S
  <1>4. f \in Bijection(S, T)
    <2>1. f \in [S -> T] /\ \A e \in S : f[e] = elements[e].vp
      BY <1>2
    <2> HIDE DEF f
    <2>2. f \in Injection(S, T)
      BY <1>2, <2>1 DEF Injection, IsInjective
    <2>3. f \in Surjection(S, T)
      BY <1>2, <2>1 DEF Surjection
    <2> QED  BY <2>2, <2>3 DEF Bijection
  <1>5. ExistsBijection(S, T)
    BY <1>4 DEF ExistsBijection
  <1>6. Cardinality(T) = n
    BY <1>3, <1>5, FS_Bijection
  <1>7. {elements[e].vp : e \in S} = T
    BY <1>2
  <1> QED  BY <1>6, <1>7 DEF S

\* Between calls, unless some have overlapped or a program was killed, the list
\* shows exactly the viewports that are open, each in one place that is in use,
\* and the program whose viewport is in front is awake.
THEOREM ListAndFocusHolds == Spec => []ListAndFocus
  <1>1. ViewInv /\ (Calm => FocusInv) => ListAndFocus
    <2> SUFFICES ASSUME ViewInv, Calm => FocusInv, DesktopPart!Quiet,
                        marks \cap {"overlap", "kill"} = {}
                 PROVE  /\ {elements[e].vp : e \in 0 .. count - 1}
                             = {v \in DesktopPart!Vps : vps[v].open}
                        /\ count = DesktopPart!Cardinality({v \in DesktopPart!Vps : vps[v].open})
                        /\ \A e \in 0 .. count - 1 : elements[e].inUse
                        /\ count > 0 => ~asleep[vps[elements[0].vp].owner]
      BY DEF ListAndFocus, DesktopPart!ListAndFocus, DesktopPart!ListAgrees,
         DesktopPart!FrontIsAwake
    <2>1. CallInv /\ CalmInv /\ FocusInv
      BY DEF ViewInv, Calm
    <2>2. \A t \in DTasks : ~Working(t)
      BY <2>1, Blankness DEF DesktopPart!Quiet, DesktopPart!Busy, DesktopPart!Tasks,
         DesktopPart!D, DesktopPart!Progs, CallInv, DTasks, DProgs, Working
    <2>3. Shows(Below(count)) /\ (count > 0 => ~asleep[vps[elements[0].vp].owner])
      BY <2>1, <2>2, AllIdle
    <2>4. count \in Nat /\ count <= MaxVp
      BY <2>1, DesktopAssumption DEF CalmInv, ViewTypes
    <2>5. \A e \in 0 .. count - 1 : elements[e].inUse
      <3>1. InUse(count)
        BY <2>1, <2>2 DEF CalmInv, Counted, First
      <3>2. \A e \in 0 .. count - 1 : e \in DPlaces /\ e < count
        BY <2>4, DesktopAssumption DEF DPlaces
      <3> QED  BY <3>1, <3>2 DEF InUse
    <2>6. PICK T : T = {v \in DVps : vps[v].open} /\ T = {v \in DesktopPart!Vps : vps[v].open}
      BY DEF DesktopPart!Vps, DVps
    <2>7. {elements[e].vp : e \in 0 .. count - 1} = T /\ Cardinality(T) = count
      BY <2>3, <2>4, <2>6, CountedPlaces
    <2> QED  BY <2>3, <2>5, <2>6, <2>7, SameCount
  <1> QED  BY <1>1, FocusHolds, PTL
-----------------------------------------------------------------------------
(* The types of the variables.                                             *)

\* A viewport that has a handler, that a program knows or that a call is about
\* to return has been made, so that there is a program whose memory is mapped
\* for its handler.
Made(v) == vps[v].owner # 0
Homes ==
    /\ \A v \in DVps : vps[v].handler # 0 => Made(v)
    /\ \A p \in DProgs : mine[p] # 0 => Made(mine[p])
    /\ \A t \in DTasks : \A s \in Steps(t) :
         s.op = "return" /\ s.x # 0 => Made(s.x) \/ First(t, "make")
Bounded == Beyond \cap {"overlap", "kill"} = {}
DeskTypes ==
    /\ starts \in 0 .. MaxStarts /\ lock \in BOOLEAN
    /\ marks \subseteq {"overlap", "kill", "early", "twice"}
DeskInv ==
    /\ DeskTypes
    /\ Calm => mapped \in DProgs /\ Homes
    /\ Bounded => DesktopPart!TypeOK

\* What a step but make puts in its place: it does not return a viewport, or
\* makes it first.
Brief(ops) ==
    /\ AnySeq(ops)
    /\ \A i \in 1 .. Len(ops) :
         ops[i].op = "return" /\ ops[i].x # 0 => Len(ops) > 0 /\ ops[1].op = "make"

LEMMA BriefAre ==
    /\ Brief(<<>>)
    /\ \A a : a.op # "return" \/ a.x = 0 => Brief(<<a>>)
    /\ \A a, b : a.op # "return" /\ b.op # "return" => Brief(<<a, b>>)
    /\ \A a, b, c : a.op = "make" => Brief(<<a, b, c>>)
  <1>1. Brief(<<>>)
    <2>1. AnySeq(<<>>) /\ Len(<<>>) = 0
      BY Literals
    <2>2. 1 .. 0 = {}
      OBVIOUS
    <2> QED  BY <2>1, <2>2 DEF Brief
  <1>2. ASSUME NEW a, a.op # "return" \/ a.x = 0 PROVE Brief(<<a>>)
    <2>1. AnySeq(<<a>>) /\ Len(<<a>>) = 1 /\ <<a>>[1] = a
      BY Literals
    <2>2. 1 .. 1 = {1}
      OBVIOUS
    <2> QED  BY <1>2, <2>1, <2>2 DEF Brief
  <1>3. ASSUME NEW a, NEW b, a.op # "return", b.op # "return" PROVE Brief(<<a, b>>)
    <2>1. AnySeq(<<a, b>>) /\ Len(<<a, b>>) = 2 /\ <<a, b>>[1] = a /\ <<a, b>>[2] = b
      BY Literals
    <2>2. 1 .. 2 = {1, 2}
      OBVIOUS
    <2> QED  BY <1>3, <2>1, <2>2 DEF Brief
  <1>4. ASSUME NEW a, NEW b, NEW c, a.op = "make" PROVE Brief(<<a, b, c>>)
    <2>1. AnySeq(<<a, b, c>>) /\ Len(<<a, b, c>>) = 3 /\ <<a, b, c>>[1] = a
      BY Literals
    <2> QED  BY <1>4, <2>1 DEF Brief
  <1> QED  BY <1>1, <1>2, <1>3, <1>4

LEMMA StepAdds ==
    ASSUME DesktopPart!Step
    PROVE  \E ops : Brief(ops) /\ DesktopPart!Then(ops)
  <1>1. CASE DesktopPart!FindPlace
    <2>1. PICK x : \/ DesktopPart!Then(<<DesktopPart!Return(0)>>)
                   \/ DesktopPart!Then(<<DesktopPart!Link(x)>>)
      BY <1>1 DEF DesktopPart!FindPlace, DesktopPart!None
    <2>2. Brief(<<DesktopPart!Return(0)>>) /\ Brief(<<DesktopPart!Link(x)>>)
      BY BriefAre, Fields
    <2> QED  BY <2>1, <2>2
  <1>2. CASE DesktopPart!LinkPlace
    <2>1. PICK x, b, c : DesktopPart!Then(<<DesktopPart!Make(x), b, c>>)
      BY <1>2 DEF DesktopPart!LinkPlace
    <2>2. Brief(<<DesktopPart!Make(x), b, c>>)
      BY BriefAre, Fields
    <2> QED  BY <2>1, <2>2
  <1>3. CASE \/ DesktopPart!MakeViewport \/ DesktopPart!ReturnViewport \/ DesktopPart!ShiftPlaces
             \/ DesktopPart!HandleEvent \/ DesktopPart!RestoreTask \/ DesktopPart!EndPass
    BY <1>3, BriefAre DEF DesktopPart!MakeViewport, DesktopPart!ReturnViewport,
       DesktopPart!ShiftPlaces, DesktopPart!HandleEvent, DesktopPart!RestoreTask,
       DesktopPart!EndPass
  <1>4. CASE DesktopPart!MoveToFront
    <2>1. Brief(DesktopPart!FocusOps(DesktopPart!X))
      <3>1. Brief(<<DesktopPart!Tell(0, "focused"), DesktopPart!Tell(1, "unfocused")>>)
        BY BriefAre, Fields
      <3> QED  BY <3>1, BriefAre DEF DesktopPart!FocusOps
    <2> QED  BY <1>4, <2>1 DEF DesktopPart!MoveToFront
  <1>5. CASE DesktopPart!DropPlace
    <2>1. PICK x : \/ DesktopPart!Then(<<>>)
                   \/ DesktopPart!Then(<<DesktopPart!Shift(x), DesktopPart!Tell(0, "focused")>>)
      BY <1>5 DEF DesktopPart!DropPlace
    <2>2. Brief(<<DesktopPart!Shift(x), DesktopPart!Tell(0, "focused")>>)
      BY BriefAre, Fields
    <2> QED  BY <2>1, <2>2, BriefAre
  <1>6. CASE DesktopPart!TellPlace
    <2>1. PICK x, ev : \/ DesktopPart!Then(<<>>)
                       \/ DesktopPart!Then(<<DesktopPart!Send(x, ev)>>)
      BY <1>6 DEF DesktopPart!TellPlace
    <2>2. Brief(<<DesktopPart!Send(x, ev)>>)
      BY BriefAre, Fields
    <2> QED  BY <2>1, <2>2, BriefAre
  <1>7. CASE DesktopPart!Deliver
    <2>1. PICK x, ev : \/ DesktopPart!Then(<<>>)
                       \/ DesktopPart!Then(<<DesktopPart!Handle(x, ev), DesktopPart!Restore>>)
      BY <1>7 DEF DesktopPart!Deliver
    <2>2. Brief(<<DesktopPart!Handle(x, ev), DesktopPart!Restore>>)
      BY BriefAre, Fields
    <2> QED  BY <2>1, <2>2, BriefAre
  <1> QED  BY <1>1, <1>2, <1>3, <1>4, <1>5, <1>6, <1>7 DEF DesktopPart!Step

\* A step but make does not change who has made what.
LEMMA StepLeaves ==
    ASSUME CallInv, CalmInv, Homes, mapped \in DProgs, DesktopPart!Step, ~DesktopPart!MakeViewport
    PROVE  /\ \A v \in DVps : Made(v)' = Made(v) /\ (vps'[v].handler # 0 => vps[v].handler # 0)
           /\ \A p \in DProgs : mine'[p] # 0 => vps[mine'[p]].owner # 0
           /\ mapped' \in DProgs /\ cur' = cur
  <1>1. /\ \A v \in DVps : vps[v].handler # 0 => Made(v)
        /\ \A p \in DProgs : mine[p] # 0 => Made(mine[p])
    BY DEF Homes
  <1>2. CASE \/ DesktopPart!FindPlace \/ DesktopPart!LinkPlace \/ DesktopPart!MoveToFront
             \/ DesktopPart!ShiftPlaces \/ DesktopPart!TellPlace \/ DesktopPart!HandleEvent
             \/ DesktopPart!EndPass
    <2>1. UNCHANGED <<vps, mine, mapped, cur>>
      BY <1>2 DEF DesktopPart!FindPlace, DesktopPart!LinkPlace, DesktopPart!MoveToFront,
         DesktopPart!ShiftPlaces, DesktopPart!TellPlace, DesktopPart!HandleEvent,
         DesktopPart!EndPass, DesktopPart!progs, DesktopPart!list, DesktopPart!cpu
    <2> QED  BY <1>1, <2>1 DEF Made
  <1>3. CASE DesktopPart!ReturnViewport
    <2>1. PICK t \in DTasks :
            /\ t = cur /\ Working(t) /\ First(t, "return") /\ todo[t][1].op = "return"
            /\ DesktopPart!X = todo[t][1].x /\ Leads(t, todo[t], todo[t][1])
            /\ ~First(t, "make") /\ Len(todo[t]) \in Nat
      BY <1>3, Reached DEF DesktopPart!ReturnViewport
    <2>2. UNCHANGED <<vps, mapped, cur>> /\ mine' = [mine EXCEPT ![t] = todo[t][1].x]
      BY <1>3, <2>1 DEF DesktopPart!ReturnViewport, DesktopPart!list, DesktopPart!cpu
    <2>3. todo[t][1] \in Steps(t)
      BY <2>1 DEF Steps, Working
    <2>4. todo[t][1].x # 0 => Made(todo[t][1].x)
      BY <2>1, <2>3 DEF Homes
    <2>5. \A p \in DProgs : mine'[p] = mine[p] \/ mine'[p] = todo[t][1].x
      BY <2>2 DEF CalmInv, ViewTypes
    <2>6. \A x : Made(x)' = Made(x)
      BY <2>2 DEF Made
    <2>7. \A p \in DProgs : mine'[p] # 0 => vps[mine'[p]].owner # 0
      BY <1>1, <2>4, <2>5 DEF Made
    <2> QED  BY <2>2, <2>6, <2>7
  <1>4. CASE DesktopPart!DropPlace
    <2>1. PICK v \in DVps : v = DesktopPart!X
      BY <1>4, Reached, LeadsTo DEF DesktopPart!DropPlace
    <2>2. /\ vps' = [vps EXCEPT ![v].open = FALSE, ![v].handler = 0]
          /\ UNCHANGED <<mine, mapped, cur>>
      BY <1>4, <2>1 DEF DesktopPart!DropPlace, DesktopPart!progs, DesktopPart!cpu,
         DesktopPart!Nobody
    <2>3. \A w \in DVps : /\ vps'[w].owner = vps[w].owner
                          /\ vps'[w].handler # 0 => vps'[w].handler = vps[w].handler
      BY <2>2 DEF CalmInv, ViewTypes
    <2>4. \A p \in DProgs : mine[p] # 0 => mine[p] \in DVps
      BY DEF CalmInv, ViewTypes
    <2> QED  BY <1>1, <2>2, <2>3, <2>4 DEF Made
  <1>5. CASE DesktopPart!Deliver
    <2>1. PICK v \in DVps : v = DesktopPart!X
      BY <1>5, Reached, LeadsTo DEF DesktopPart!Deliver
    <2>2. UNCHANGED <<vps, mine, cur>>
      BY <1>5 DEF DesktopPart!Deliver, DesktopPart!progs, DesktopPart!list, DesktopPart!cpu
    <2>3. mapped' = mapped \/ (vps[v].handler # 0 /\ mapped' = vps[v].owner)
      BY <1>5, <2>1 DEF DesktopPart!Deliver, DesktopPart!cpu, DesktopPart!Home,
         DesktopPart!Nobody
    <2>4. vps[v].owner \in DTasks
      BY DEF CalmInv, ViewTypes
    <2> QED  BY <1>1, <2>2, <2>3, <2>4 DEF Made, DTasks
  <1>6. CASE DesktopPart!RestoreTask
    <2>1. UNCHANGED <<vps, mine, cur>> /\ mapped' \in {mapped, cur} /\ (cur = 0 => mapped' = mapped)
      BY <1>6 DEF DesktopPart!RestoreTask, DesktopPart!Back, DesktopPart!progs, DesktopPart!list,
         DesktopPart!D
    <2>2. cur \in DTasks
      BY DEF CallInv
    <2> QED  BY <1>1, <2>1, <2>2 DEF Made, DTasks
  <1> QED  BY <1>2, <1>3, <1>4, <1>5, <1>6 DEF DesktopPart!Step

LEMMA MakeHomes ==
    ASSUME CallInv, CalmInv, Homes, DesktopPart!MakeViewport
    PROVE  Homes'
  <1>1. PICK t \in DTasks :
          /\ t = cur /\ Working(t) /\ First(t, "make") /\ todo[t][1].op = "make"
          /\ DesktopPart!X = todo[t][1].x /\ Leads(t, todo[t], todo[t][1])
    BY Reached DEF DesktopPart!MakeViewport
  <1>2. PICK v \in DVps : v = DesktopPart!X /\ v = todo[t][1].x
    BY <1>1, LeadsTo
  <1>3. /\ t # 0 /\ Len(todo[t]) = 3 /\ todo[t][2].op = "front"
        /\ todo[t][3].op = "return" /\ todo[t][3].x = v
    BY <1>1, <1>2, LeadsTo
  <1>4. /\ vps' = [vps EXCEPT ![v] = [open |-> TRUE, owner |-> t, handler |-> 0]]
        /\ DesktopPart!Then(<<>>) /\ mine' = mine
    <2>1. runid = t
      BY <1>1, Step1 DEF Borrowed, DesktopPart!MakeViewport
    <2> QED  BY <1>2, <2>1 DEF DesktopPart!MakeViewport, DesktopPart!progs, DesktopPart!Nobody
  <1>5. /\ \A u \in DTasks \ {t} : todo'[u] = todo[u]
        /\ Len(todo'[t]) = 2 /\ todo'[t][1] = todo[t][2] /\ todo'[t][2] = todo[t][3]
    <2> DEFINE ops == <<>>
    <2>1. AnySeq(ops) /\ Len(ops) = 0 /\ DesktopPart!Then(ops)
      BY <1>4, Literals
    <2> HIDE DEF ops
    <2>2. /\ \A u \in DTasks \ {t} : todo'[u] = todo[u]
          /\ Len(todo'[t]) = Len(ops) + Len(todo[t]) - 1
          /\ \A i \in 1 .. Len(todo'[t]) : i > Len(ops) => todo'[t][i] = todo[t][i - Len(ops) + 1]
      BY SMTT(60), <1>1, <2>1, ThenIs
    <2> QED  BY <1>3, <2>1, <2>2
  <1>6. /\ \A w \in DVps : Made(w) => Made(w)'
        /\ \A w \in DVps : vps'[w].handler # 0 => vps[w].handler # 0
        /\ Made(v)'
    BY <1>3, <1>4 DEF CalmInv, ViewTypes, Made
  <1>7. Steps(t)' = {todo[t][2], todo[t][3]}
    <2>1. 1 .. 2 = {1, 2}
      OBVIOUS
    <2> QED  BY <1>5, <2>1 DEF Steps
  <1>8. \A p \in DProgs : mine'[p] # 0 => vps'[mine'[p]].owner # 0
    <2>1. \A p \in DProgs : mine[p] # 0 => mine[p] \in DVps /\ Made(mine[p])
      BY DEF Homes, CalmInv, ViewTypes
    <2> QED  BY <1>4, <1>6, <2>1 DEF Made
  <1>9. ASSUME NEW u \in DTasks, NEW s \in Steps(u)', s.op = "return", s.x # 0
        PROVE  Made(s.x)' \/ First(u, "make")'
    <2>1. CASE u = t
      BY <1>3, <1>6, <1>7, <1>9, <2>1
    <2>2. CASE u # t
      <3>1. s \in Steps(u) /\ todo'[u] = todo[u]
        BY <1>5, <1>9, <2>2 DEF Steps
      <3>2. s.x \in DVps
        <4>1. u # t /\ Working(u)
          BY <2>2, <3>1 DEF Steps, Working, CallInv
        <4> QED  BY <1>1, <4>1 DEF CalmInv, OneCall
      <3> QED  BY <1>6, <1>9, <3>1, <3>2 DEF Homes, First, Working
    <2> QED  BY <2>1, <2>2
  <1> QED  BY <1>6, <1>8, <1>9 DEF Homes, Made

LEMMA StepHomes ==
    ASSUME CallInv, CalmInv, Homes, mapped \in DProgs, DesktopPart!Step
    PROVE  Homes' /\ mapped' \in DProgs
  <1>1. CASE DesktopPart!MakeViewport
    BY <1>1, MakeHomes DEF DesktopPart!MakeViewport
  <1>2. CASE ~DesktopPart!MakeViewport
    <2>1. /\ \A v \in DVps : Made(v)' = Made(v) /\ (vps'[v].handler # 0 => vps[v].handler # 0)
          /\ \A p \in DProgs : mine'[p] # 0 => vps[mine'[p]].owner # 0
          /\ mapped' \in DProgs /\ cur' = cur
      BY <1>2, StepLeaves
    <2>2. PICK ops : Brief(ops) /\ DesktopPart!Then(ops)
      BY StepAdds
    <2>3. PICK op : DesktopPart!At(op) /\ op # "make"
      BY <1>2 DEF DesktopPart!Step, DesktopPart!FindPlace, DesktopPart!LinkPlace,
         DesktopPart!ReturnViewport, DesktopPart!MoveToFront, DesktopPart!DropPlace,
         DesktopPart!ShiftPlaces, DesktopPart!TellPlace, DesktopPart!Deliver,
         DesktopPart!HandleEvent, DesktopPart!RestoreTask, DesktopPart!EndPass
    <2>4. PICK t \in DTasks :
            t = cur /\ Working(t) /\ OneCall /\ Laid(t) /\ ~First(t, "make")
      BY <2>3, Reached
    <2>5. /\ \A u \in DTasks \ {t} : ~Working(u)' /\ todo'[u] = todo[u]
          /\ Steps(t) = {todo[t][1]} \cup Rest(t)
          /\ Steps(t)' = {ops[i] : i \in 1 .. Len(ops)} \cup Rest(t)
          /\ Len(ops) > 0 => Working(t)' /\ todo'[t][1] = ops[1]
      BY <2>2, <2>4, Proceeds DEF Brief
    <2>6. ASSUME NEW u \in DTasks, NEW s \in Steps(u)', s.op = "return", s.x # 0
          PROVE  Made(s.x)' \/ First(u, "make")'
      <3>1. u = t
        BY <2>5, <2>6 DEF Steps, Working
      <3>2. CASE s \in Rest(t)
        <4>1. Made(s.x)
          BY <2>4, <2>5, <2>6, <3>2 DEF Homes
        <4>2. s.x \in DVps
          <5>1. PICK i \in 2 .. Len(todo[t]) : s = todo[t][i]
            BY <3>2 DEF Rest
          <5>2. Waits(t, s, Len(todo[t]) - i)
            BY <2>4, <5>1 DEF Laid
          <5> QED  BY <2>6, <5>2 DEF Waits
        <4> QED  BY <2>1, <4>1, <4>2
      <3>3. CASE s \in {ops[i] : i \in 1 .. Len(ops)}
        <4>1. Len(ops) > 0 /\ ops[1].op = "make"
          BY <2>2, <2>6, <3>3 DEF Brief
        <4> QED  BY <2>5, <3>1, <4>1 DEF First
      <3> QED  BY <2>5, <2>6, <3>1, <3>2, <3>3
    <2>7. \A p \in DProgs : mine'[p] # 0 => vps'[mine'[p]].owner # 0
      <3>1. UNCHANGED vps \/ mine' = mine
        BY <1>2 DEF DesktopPart!Step, DesktopPart!FindPlace, DesktopPart!LinkPlace,
           DesktopPart!ReturnViewport, DesktopPart!MoveToFront, DesktopPart!DropPlace,
           DesktopPart!ShiftPlaces, DesktopPart!TellPlace, DesktopPart!Deliver,
           DesktopPart!HandleEvent, DesktopPart!RestoreTask, DesktopPart!EndPass,
           DesktopPart!progs, DesktopPart!list
      <3>2. \A p \in DProgs : mine[p] # 0 => mine[p] \in DVps
        BY DEF CalmInv, ViewTypes
      <3> QED  BY <2>1, <3>1, <3>2 DEF Made
    <2>8. \A v \in DVps : vps'[v].handler # 0 => Made(v)'
      BY <2>1 DEF Homes
    <2> QED  BY <2>1, <2>6, <2>7, <2>8 DEF Homes, Made
  <1> QED  BY <1>1, <1>2

\* A viewport that is still to be returned.
LEMMA Returned ==
    ASSUME CalmInv, NEW u \in DTasks, NEW s \in Steps(u), s.op = "return"
    PROVE  s.x \in DVps \cup {0} \/ First(u, "make")
  <1>1. PICK i \in 1 .. Len(todo[u]) : s = todo[u][i]
    BY DEF Steps
  <1>2. Working(u) /\ Laid(u)
    BY <1>1 DEF Working, CalmInv
  <1>3. CASE i = 1
    <2>1. Leads(u, todo[u], s)
      BY <1>1, <1>2, <1>3 DEF Laid
    <2> QED  BY <2>1 DEF Leads, Waits
  <1>4. CASE i # 1
    <2>1. i \in 2 .. Len(todo[u])
      BY <1>1, <1>4
    <2>2. Waits(u, s, Len(todo[u]) - i) \/ First(u, "make")
      BY <1>1, <1>2, <2>1 DEF Laid
    <2> QED  BY <2>2 DEF Waits
  <1> QED  BY <1>3, <1>4

\* What makes no viewport and returns none.
LEMMA AsideHomes ==
    ASSUME CalmInv, Homes,
           \A v \in DVps : /\ vps'[v].owner = vps[v].owner
                           /\ vps'[v].handler # 0 => vps[v].handler # 0 \/ Made(v),
           \A p \in DProgs : mine'[p] \in {mine[p], 0},
           \A t \in DTasks : todo'[t] = todo[t] \/ \A s \in Steps(t)' : s.op # "return"
    PROVE  Homes'
  <1>1. \A v \in DVps : Made(v)' = Made(v) /\ (vps'[v].handler # 0 => Made(v)')
    BY DEF Homes, Made
  <1>2. \A p \in DProgs : mine'[p] # 0 => vps'[mine'[p]].owner # 0
    BY <1>1 DEF Homes, Made, CalmInv, ViewTypes
  <1>3. ASSUME NEW t \in DTasks, NEW s \in Steps(t)', s.op = "return", s.x # 0
        PROVE  Made(s.x)' \/ First(t, "make")'
    <2>1. todo'[t] = todo[t] /\ s \in Steps(t)
      BY <1>3 DEF Steps
    <2>2. First(t, "make")' <=> First(t, "make")
      BY <2>1 DEF First, Working
    <2>3. Made(s.x) \/ First(t, "make")
      BY <1>3, <2>1 DEF Homes
    <2>4. s.x \in DVps \/ First(t, "make")
      BY <1>3, <2>1, Returned
    <2> QED  BY <1>1, <2>2, <2>3, <2>4
  <1> QED  BY <1>1, <1>2, <1>3 DEF Homes, Made

\* A call that begins makes no viewport.
LEMMA CallHomes ==
    ASSUME CallInv, CalmInv, Homes, UNCHANGED <<vps, mine>>, NEW ops, AnySeq(ops),
           DesktopPart!Call(ops), \A i \in 1 .. Len(ops) : ops[i].op # "return"
    PROVE  Homes'
  <1>1. \A t \in DTasks : todo'[t] = todo[t] \/ \A s \in Steps(t)' : s.op # "return"
    BY CallIs DEF Steps
  <1> QED  BY <1>1, AsideHomes

LEMMA ClickHomes ==
    ASSUME CallInv, CalmInv, Homes, DesktopPart!Click
    PROVE  Homes'
  <1>1. PICK e, v, ops :
          /\ AnySeq(ops) /\ DesktopPart!Call(ops) /\ ops[1] = DesktopPart!Front(e)
          /\ \/ Len(ops) = 2 /\ ops[2] = DesktopPart!Unlock
             \/ /\ Len(ops) = 4 /\ ops[2] = DesktopPart!Send(v, "exit")
                /\ ops[3] = DesktopPart!Drop(v) /\ ops[4] = DesktopPart!Unlock
    BY ClickIs
  <1>2. /\ DesktopPart!Front(e).op = "front" /\ DesktopPart!Send(v, "exit").op = "send"
        /\ DesktopPart!Drop(v).op = "drop" /\ DesktopPart!Unlock.op = "unlock"
    BY Fields
  <1>3. 1 .. 2 = {1, 2} /\ 1 .. 4 = {1, 2, 3, 4}
    OBVIOUS
  <1>4. \A i \in 1 .. Len(ops) : ops[i].op # "return"
    BY <1>1, <1>2, <1>3
  <1>5. UNCHANGED <<vps, mine>>
    BY DEF DesktopPart!Click, DesktopPart!progs, DesktopPart!list
  <1> QED  BY <1>1, <1>4, <1>5, CallHomes

LEMMA HomesKeep ==
    ASSUME CallInv, CalmInv, Homes, mapped \in DProgs, Calm', DesktopPart!Next
    PROVE  Homes' /\ mapped' \in DProgs
  <1>1. CASE DesktopPart!Step
    BY <1>1, StepHomes
  <1>2. CASE DesktopPart!Click
    BY <1>2, ClickHomes DEF DesktopPart!Click
  <1>3. ASSUME NEW p \in DProgs, DesktopPart!Start(p) PROVE Homes' /\ mapped' \in DProgs
    <2>1. /\ UNCHANGED <<vps, mapped>> /\ mine' = [mine EXCEPT ![p] = 0]
          /\ todo' = [todo EXCEPT ![p] = <<>>]
      BY <1>3 DEF DesktopPart!Start, DesktopPart!list, DesktopPart!cpu, DesktopPart!None
    <2>2. \A t \in DTasks : todo'[t] = todo[t] \/ \A s \in Steps(t)' : s.op # "return"
      <3>1. \A t \in DTasks : todo'[t] = todo[t] \/ todo'[t] = <<>>
        BY <2>1 DEF CallInv
      <3>2. 1 .. Len(<<>>) = {}
        BY Literals
      <3> QED  BY <3>1, <3>2 DEF Steps
    <2>3. \A q \in DProgs : mine'[q] \in {mine[q], 0}
      BY <2>1 DEF CalmInv, ViewTypes
    <2> QED  BY <2>1, <2>2, <2>3, AsideHomes
  <1>4. ASSUME NEW p \in DProgs, NEW a, DesktopPart!Call(<<a>>), a.op # "return",
               UNCHANGED <<vps, mine, mapped>>
        PROVE  Homes' /\ mapped' \in DProgs
    <2>1. PICK ops : ops = <<a>> /\ AnySeq(ops) /\ Len(ops) = 1 /\ ops[1] = a
      BY Literals
    <2>2. \A i \in 1 .. Len(ops) : ops[i].op # "return"
      BY <1>4, <2>1
    <2> QED  BY <1>4, <2>1, <2>2, CallHomes
  <1>5. ASSUME NEW p \in DProgs, DesktopPart!Open(p) PROVE Homes' /\ mapped' \in DProgs
    <2>1. DesktopPart!Find.op # "return"
      BY Fields
    <2> QED  BY <1>4, <1>5, <2>1 DEF DesktopPart!Open, DesktopPart!list, DesktopPart!cpu
  <1>6. ASSUME NEW p \in DProgs, DesktopPart!Close(p) PROVE Homes' /\ mapped' \in DProgs
    <2>1. DesktopPart!Drop(mine[p]).op # "return"
      BY Fields
    <2> QED  BY <1>4, <1>6, <2>1 DEF DesktopPart!Close, DesktopPart!list, DesktopPart!cpu
  <1>7. ASSUME NEW p \in DProgs, DesktopPart!AddHandler(p) PROVE Homes' /\ mapped' \in DProgs
    <2>1. PICK v \in DVps : v = mine[p] /\ Made(v)
      BY <1>7 DEF DesktopPart!AddHandler, DesktopPart!None, CalmInv, ViewTypes, Homes
    <2>2. vps' = [vps EXCEPT ![v].handler = p] /\ UNCHANGED <<mine, mapped, todo>>
      BY <1>7, <2>1 DEF DesktopPart!AddHandler, DesktopPart!cpu
    <2>3. \A w \in DVps : /\ vps'[w].owner = vps[w].owner
                          /\ vps'[w].handler # 0 => vps[w].handler # 0 \/ Made(w)
      BY <2>1, <2>2 DEF CalmInv, ViewTypes
    <2> QED  BY <2>2, <2>3, AsideHomes
  <1>8. ASSUME NEW p \in DProgs, DesktopPart!End(p) PROVE Homes' /\ mapped' \in DProgs
    <2>1. UNCHANGED <<vps, mine, mapped, todo>>
      BY <1>8 DEF DesktopPart!End, DesktopPart!list
    <2> QED  BY <2>1, AsideHomes
  <1>9. ASSUME NEW p \in DProgs, DesktopPart!Kill(p) PROVE FALSE
    BY <1>9 DEF DesktopPart!Kill, Calm
  <1>10. ASSUME NEW t \in DTasks, DesktopPart!Switch(t) PROVE Homes' /\ mapped' \in DProgs
    <2>1. UNCHANGED <<vps, mine, todo>> /\ mapped' \in DProgs
      BY <1>10 DEF DesktopPart!Switch, DesktopPart!progs, DesktopPart!list, DesktopPart!D, DTasks
    <2> QED  BY <2>1, AsideHomes
  <1> QED  BY <1>1, <1>2, <1>3, <1>5, <1>6, <1>7, <1>8, <1>9, <1>10
           DEF DesktopPart!Next, DesktopPart!Progs, DesktopPart!Tasks, DesktopPart!D, DProgs, DTasks

LEMMA DeskTypesKeep ==
    ASSUME DeskTypes, DesktopPart!Next
    PROVE  DeskTypes'
  <1>1. starts' \in 0 .. MaxStarts
    <2>1. starts' = starts \/ (starts < MaxStarts /\ starts' = starts + 1)
      BY DEF DesktopPart!Next, DesktopPart!Step, DesktopPart!FindPlace, DesktopPart!LinkPlace,
         DesktopPart!MakeViewport, DesktopPart!ReturnViewport, DesktopPart!MoveToFront,
         DesktopPart!DropPlace, DesktopPart!ShiftPlaces, DesktopPart!TellPlace,
         DesktopPart!Deliver, DesktopPart!HandleEvent, DesktopPart!RestoreTask,
         DesktopPart!EndPass, DesktopPart!Click, DesktopPart!Start, DesktopPart!Open,
         DesktopPart!AddHandler, DesktopPart!Close, DesktopPart!End, DesktopPart!Kill,
         DesktopPart!Switch, DesktopPart!progs
    <2> QED  BY <2>1, DesktopAssumption DEF DeskTypes
  <1>2. lock' \in BOOLEAN
    <2>1. lock' = lock \/ lock' = TRUE \/ lock' = FALSE
      BY DEF DesktopPart!Next, DesktopPart!Step, DesktopPart!FindPlace, DesktopPart!LinkPlace,
         DesktopPart!MakeViewport, DesktopPart!ReturnViewport, DesktopPart!MoveToFront,
         DesktopPart!DropPlace, DesktopPart!ShiftPlaces, DesktopPart!TellPlace,
         DesktopPart!Deliver, DesktopPart!HandleEvent, DesktopPart!RestoreTask,
         DesktopPart!EndPass, DesktopPart!Click, DesktopPart!Start, DesktopPart!Open,
         DesktopPart!AddHandler, DesktopPart!Close, DesktopPart!End, DesktopPart!Kill,
         DesktopPart!Switch, DesktopPart!list, DesktopPart!cpu
    <2> QED  BY <2>1 DEF DeskTypes
  <1>3. marks' \subseteq marks \cup {"overlap", "kill", "early", "twice"}
    BY DEF DesktopPart!Next, DesktopPart!Step, DesktopPart!FindPlace, DesktopPart!LinkPlace,
       DesktopPart!MakeViewport, DesktopPart!ReturnViewport, DesktopPart!MoveToFront,
       DesktopPart!DropPlace, DesktopPart!ShiftPlaces, DesktopPart!TellPlace,
       DesktopPart!Deliver, DesktopPart!HandleEvent, DesktopPart!RestoreTask,
       DesktopPart!EndPass, DesktopPart!Click, DesktopPart!Start, DesktopPart!Open,
       DesktopPart!AddHandler, DesktopPart!Close, DesktopPart!End, DesktopPart!Kill,
       DesktopPart!Switch, DesktopPart!Overlaps, DesktopPart!Mark
  <1> QED  BY <1>1, <1>2, <1>3 DEF DeskTypes

LEMMA TypesOf ==
    ASSUME CallInv, ViewTypes, AwakeInv, DeskTypes, mapped \in DProgs
    PROVE  DesktopPart!TypeOK
  BY DEF CallInv, ViewTypes, AwakeInv, DeskTypes, DesktopPart!TypeOK, DesktopPart!Tasks,
     DesktopPart!D, DesktopPart!Progs, DesktopPart!Vps, DesktopPart!Places, DesktopPart!None,
     DesktopPart!Nobody, DesktopPart!Marks, DTasks, DProgs, DVps, DPlaces

\* The step that makes calls overlap or kills a program changes no viewport yet.
LEMMA LastTypes ==
    ASSUME DesktopPart!TypeOK, DeskTypes', Calm, ~Calm', DesktopPart!Next
    PROVE  DesktopPart!TypeOK'
  <1>1. marks' # marks
    BY DEF Calm
  <1>2. /\ UNCHANGED <<asleep, told, mine, vps, elements, count, cur, runid, mapped>>
        /\ \/ live' = live \/ \E p \in DesktopPart!Progs : live' = [live EXCEPT ![p] = FALSE]
        /\ \/ phase' = phase
           \/ \E p \in DesktopPart!Progs :
                \/ phase' = [phase EXCEPT ![p] = "opened"]
                \/ phase' = [phase EXCEPT ![p] = "closed"]
    BY <1>1 DEF DesktopPart!Next, DesktopPart!Step, DesktopPart!FindPlace,
       DesktopPart!LinkPlace, DesktopPart!MakeViewport, DesktopPart!ReturnViewport,
       DesktopPart!MoveToFront, DesktopPart!DropPlace, DesktopPart!ShiftPlaces,
       DesktopPart!TellPlace, DesktopPart!Deliver, DesktopPart!HandleEvent,
       DesktopPart!RestoreTask, DesktopPart!EndPass, DesktopPart!Click, DesktopPart!Start,
       DesktopPart!Open, DesktopPart!AddHandler, DesktopPart!Close, DesktopPart!End,
       DesktopPart!Kill, DesktopPart!Switch, DesktopPart!Phase, DesktopPart!progs,
       DesktopPart!list, DesktopPart!cpu
  <1>3. /\ live' \in [DesktopPart!Progs -> BOOLEAN]
        /\ phase' \in [DesktopPart!Progs -> {"new", "opened", "running", "closed"}]
    BY <1>2 DEF DesktopPart!TypeOK
  <1>4. count \in 0 .. MaxVp
    BY DEF DesktopPart!TypeOK, Calm
  <1> QED  BY <1>2, <1>3, <1>4 DEF DesktopPart!TypeOK, DeskTypes, DesktopPart!Marks

\* The desktop's variables have their types as long as no calls have overlapped
\* and no program was killed, and in a behaviour that is followed no further than
\* that also in the state where it happens.  Beyond it count need not stay within
\* the places: a killed program may have counted one that it never took.
THEOREM DesktopTypesHold ==
    Spec => [](component = "desktop" /\ (Calm \/ Bounded) => TypeOK)
  <1>1. Init => DeskInv
    <2> SUFFICES ASSUME Init PROVE DeskInv
      OBVIOUS
    <2>1. ViewInv /\ FocusInv
      BY ViewStarts, FocusStarts DEF Init
    <2>2. /\ starts = 0 /\ lock = FALSE /\ marks = {} /\ mapped = 1
          /\ mine = [p \in DProgs |-> 0] /\ todo = [t \in DTasks |-> <<>>]
          /\ vps = [v \in DVps |-> [open |-> FALSE, owner |-> 0, handler |-> 0]]
      BY DEF Init, DesktopPart!Init, DesktopPart!Tasks, DesktopPart!D, DesktopPart!Progs, DTasks,
         DProgs, DesktopPart!Vps, DVps, DesktopPart!None, DesktopPart!Nobody
    <2>3. DeskTypes /\ mapped \in DProgs /\ Calm
      <3>1. 0 \in 0 .. MaxStarts /\ 1 \in 1 .. MaxProgs
        BY DesktopAssumption
      <3> QED  BY <2>2, <3>1 DEF DeskTypes, DProgs, Calm
    <2>4. \A t \in DTasks : Steps(t) = {}
      <3>1. 1 .. Len(<<>>) = {}
        BY Literals
      <3> QED  BY <2>2, <3>1 DEF Steps
    <2>5. Homes
      BY <2>2, <2>4 DEF Homes
    <2>6. DesktopPart!TypeOK
      BY <2>1, <2>3, TypesOf DEF ViewInv, CalmInv, FocusInv
    <2> QED  BY <2>3, <2>5, <2>6 DEF DeskInv
  <1>2. /\ ViewInv /\ (Calm => FocusInv) /\ (ViewInv /\ (Calm => FocusInv))'
        /\ DeskInv /\ [Next]_vars
        => DeskInv'
    <2> SUFFICES ASSUME ViewInv, Calm => FocusInv, ViewInv', Calm' => FocusInv', DeskInv,
                        [Next]_vars
                 PROVE  DeskInv'
      OBVIOUS
    <2>1. CASE DesktopPart!Next
      <3>1. DeskTypes'
        BY <2>1, DeskTypesKeep DEF DeskInv
      <3>2. Calm' => Calm
        BY <2>1, Grows DEF Calm
      <3>3. Calm' => mapped' \in DProgs /\ Homes'
        BY <2>1, <3>2, HomesKeep DEF DeskInv, ViewInv
      <3>4. Calm' => DesktopPart!TypeOK'
        <4> SUFFICES ASSUME Calm' PROVE DesktopPart!TypeOK'
          OBVIOUS
        <4>1. CallInv' /\ ViewTypes' /\ AwakeInv' /\ mapped' \in DProgs
          BY <3>3 DEF ViewInv, CalmInv, FocusInv
        <4> QED  BY <3>1, <4>1 DEF CallInv, ViewTypes, AwakeInv, DeskTypes, DesktopPart!TypeOK,
                 DesktopPart!Tasks, DesktopPart!D, DesktopPart!Progs, DesktopPart!Vps,
                 DesktopPart!Places, DesktopPart!None, DesktopPart!Nobody, DesktopPart!Marks,
                 DTasks, DProgs, DVps, DPlaces
      <3>5. Bounded => Calm
        BY <2>1 DEF Bounded, Calm, DesktopPart!Next
      <3>6. Bounded /\ ~Calm' => DesktopPart!TypeOK'
        BY <2>1, <3>1, <3>5, LastTypes DEF DeskInv
      <3> QED  BY <3>1, <3>3, <3>4, <3>6 DEF DeskInv, Bounded
    <2>2. CASE UNCHANGED desktop
      <3> USE <2>2 DEF desktop
      <3>1. DeskTypes' /\ (Calm' <=> Calm) /\ mapped' = mapped
        BY DEF DeskInv, DeskTypes, Calm
      <3>2. Homes => Homes'
        BY DEF Homes, Made, Steps, First, Working
      <3>3. DesktopPart!TypeOK => DesktopPart!TypeOK'
        BY DEF DesktopPart!TypeOK
      <3> QED  BY <3>1, <3>2, <3>3 DEF DeskInv, Bounded
    <2> QED  BY <2>1, <2>2 DEF Next, NextAudio, NextPs2, NextKeyboard, NextProc, NextDesktop,
                               NextBuffs, vars
  <1>3. ViewInv /\ (Calm => FocusInv) /\ DeskInv
        => (component = "desktop" /\ (Calm \/ Bounded) => TypeOK)
    <2> SUFFICES ASSUME ViewInv, Calm => FocusInv, DeskInv, Calm \/ Bounded,
                        component = "desktop"
                 PROVE  TypeOK
      OBVIOUS
    <2>1. Calm => DesktopPart!TypeOK
      BY TypesOf DEF ViewInv, CalmInv, FocusInv, DeskInv
    <2>2. DesktopPart!TypeOK
      BY <2>1 DEF DeskInv
    <2> QED  BY <2>2 DEF TypeOK
  <1> QED  BY <1>1, <1>2, <1>3, FocusHolds, PTL DEF Spec
=============================================================================
