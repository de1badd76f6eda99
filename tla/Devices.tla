------------------------------ MODULE Devices ------------------------------
(***************************************************************************)
(* Six modules that share no state, checked side by side: a behaviour is  *)
(* one of the component that it has chosen at the start, and the others'   *)
(* variables stay as they are.  The properties are those of the modules.   *)
(***************************************************************************)
EXTENDS Integers

CONSTANTS
    Players, Lengths, R, F, Entry, Word, Lag, TimerSlots,  \* Audio
    MaxKeys, MaxPackets, Overflow,                \* Ps2
    Keys, MaxEvents, MaxWire, BufLen,             \* Keyboard
    MaxTask, MaxPid, QueueLen,                    \* Proc
    MaxProgs, MaxStarts, MaxVp, Beyond,           \* Desktop
    PageSize, NPages, MaxLen, Sizes               \* Buffs

\* The timer ticks 176 times in the second that half of the sound buffer
\* lasts, and one frame more is played within a tick.
ASSUME AudioAssumption ==
    /\ {R, F, Word} \subseteq Nat \ {0} /\ Entry \in 1 .. 2 * R
    /\ Lengths \subseteq Nat \ {0} /\ \A n \in Lengths : n * F < Word
    /\ Lag \in Nat /\ Lag + 1 < R
    /\ TimerSlots \in Nat \ {0}
ASSUME Ps2Assumption ==
    MaxKeys \in Nat /\ MaxPackets \in Nat /\ Overflow \subseteq 1 .. MaxPackets
ASSUME KeyboardAssumption ==
    /\ Keys \subseteq {"a", "b", "four", "shift", "ctrl", "left"}
    /\ {MaxEvents, MaxWire} \subseteq Nat /\ BufLen \in Nat \ {0}
ASSUME ProcAssumption == {MaxTask, MaxPid, QueueLen} \subseteq Nat \ {0}
ASSUME DesktopAssumption ==
    {MaxProgs, MaxStarts} \subseteq Nat \ {0} /\ MaxVp \in Nat /\ MaxVp > 1
\* A new file, of one byte, does not fill its page.
ASSUME BuffsAssumption ==
    /\ PageSize \in Nat /\ PageSize > 1 /\ {NPages, MaxLen} \subseteq Nat \ {0}
    /\ Sizes \subseteq Nat \ {0}

VARIABLES
    component,  \* the one whose behaviour this is
    place, selected, source, total, next, left, content, playing, filled,
    finished, attached, on, pos, late, heard, astray, mingled,
    keys, motion, sent, out, full, irq1, irq12, served12, pc, status,
    mouse_cycle, mouse_byte, typed, moved, crossed,
    held, events, wire, shift, ctrl, release, special, key, arrow, buf,
    idx, map, mixed, getc, news, ascii, shown, passed, vp,
    active, pid, sched, nextpid, queue, tool, orphaned, last,
    live, phase, starts, asleep, told, mine, vps, elements, count, lock,
    cur, runid, mapped, todo, marks,
    size, num_pages, page_base, room, reserved, theirs, mem, writer, stored,
    disturbed

AudioPart == INSTANCE Audio
Ps2Part == INSTANCE Ps2
KeyboardPart == INSTANCE Keyboard
ProcPart == INSTANCE Proc
DesktopPart == INSTANCE Desktop
BuffsPart == INSTANCE Buffs

audio == <<place, selected, source, total, next, left, content, playing, filled,
    finished, attached, on, pos, late, heard, astray, mingled>>
ps2 == <<keys, motion, sent, out, full, irq1, irq12, served12, pc, status,
    mouse_cycle, mouse_byte, typed, moved, crossed>>
keyboard == <<held, events, wire, shift, ctrl, release, special, key, arrow,
    buf, idx, map, mixed, getc, news, ascii, shown, passed, vp>>
proc == <<active, pid, sched, nextpid, queue, tool, orphaned, last>>
desktop == <<live, phase, starts, asleep, told, mine, vps, elements, count,
    lock, cur, runid, mapped, todo, marks>>
buffs == <<size, num_pages, page_base, room, reserved, theirs, mem, writer,
    stored, disturbed>>
vars == <<component, audio, ps2, keyboard, proc, desktop, buffs>>

Init ==
    /\ component \in {"audio", "ps2", "keyboard", "proc", "desktop", "buffs"}
    /\ AudioPart!Init
    /\ selected \/ component = "audio"  \* what the others leave alone need not differ
    /\ Ps2Part!Init
    /\ KeyboardPart!Init
    /\ ProcPart!Init
    /\ DesktopPart!Init
    /\ BuffsPart!Init

NextAudio ==
    component = "audio" /\ AudioPart!Next /\ UNCHANGED <<component, ps2, keyboard, proc, desktop, buffs>>
NextPs2 ==
    component = "ps2" /\ Ps2Part!Next /\ UNCHANGED <<component, audio, keyboard, proc, desktop, buffs>>
NextKeyboard ==
    component = "keyboard" /\ KeyboardPart!Next /\ UNCHANGED <<component, audio, ps2, proc, desktop, buffs>>
NextProc ==
    component = "proc" /\ ProcPart!Next /\ UNCHANGED <<component, audio, ps2, keyboard, desktop, buffs>>
NextDesktop ==
    component = "desktop" /\ DesktopPart!Next /\ UNCHANGED <<component, audio, ps2, keyboard, proc, buffs>>
NextBuffs ==
    component = "buffs" /\ BuffsPart!Next /\ UNCHANGED <<component, audio, ps2, keyboard, proc, desktop>>

Next == NextAudio \/ NextPs2 \/ NextKeyboard \/ NextProc \/ NextDesktop \/ NextBuffs

\* The fairness is that of the modules.
Spec ==
    /\ Init /\ [][Next]_vars
    /\ WF_audio(AudioPart!Dac) /\ WF_audio(AudioPart!Tick)
    /\ WF_ps2(Ps2Part!Handlers)
-----------------------------------------------------------------------------
(* The properties; the modules say in full what they promise.              *)

\* The variables of the component have their types.
TypeOK ==
    CASE component = "audio" -> AudioPart!TypeOK
      [] component = "ps2" -> Ps2Part!TypeOK
      [] component = "keyboard" -> KeyboardPart!TypeOK
      [] component = "proc" -> ProcPart!TypeOK
      [] component = "desktop" -> DesktopPart!TypeOK
      [] component = "buffs" -> BuffsPart!TypeOK

\* A song is heard in order, without gap or repetition.
InOrder == AudioPart!InOrder

\* The timer stops it when it has been heard whole, and not much later.
StopsAtEnd == AudioPart!StopsAtEnd

\* With a card, and up to a start within another's, the song that is read to
\* fill the buffer has not been returned.
SourceHeld == AudioPart!SourceHeld

\* With a card, a song that plays comes to its end.
Ends == AudioPart!Ends

\* The keyboard's bytes and the mouse's packets arrive in order, each once.
BytesArrive == Ps2Part!BytesArrive

\* What the devices send is taken from them in the end.
Drained == Ps2Part!Drained

\* Flags and map of pressed keys are those of the keys that are down.
KeysAgree == KeyboardPart!KeysAgree

\* getc_blk returns what was typed while it waited.
GetcTyped == KeyboardPart!GetcTyped

\* The key that a viewport is offered is down, if the last pass was for it.
OfferedIsHeld == KeyboardPart!OfferedIsHeld

\* An answer of the process file goes to the task that asked, and the entries
\* in its queue are those of the tasks that wait.
QueueServes == ProcPart!QueueServes

\* A handler runs in the memory and under the index of its own program, and
\* the task that executes has its own again afterwards.
BorrowsAndReturns == DesktopPart!BorrowsAndReturns

\* The list holds the viewports that are open, each once, and the program in
\* front is not asleep.
ListAndFocus == DesktopPart!ListAndFocus

\* No program loses its viewport without being told.
NoSilentLoss == DesktopPart!NoSilentLoss

\* A file in memory keeps what was written to it, in pages of its own, and
\* writes to it stay out of the pages of others.
FileWhole == BuffsPart!KeepsContent /\ BuffsPart!SparesOthers
=============================================================================
