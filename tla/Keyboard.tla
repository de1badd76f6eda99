------------------------------ MODULE Keyboard ------------------------------
(***************************************************************************)
(* From the keyboard to the program (interfaces/keyboard.c and the desktop *)
(* driver): scan codes of set 2 arrive a byte per interrupt and drive the  *)
(* flags, the map of pressed keys and the text buffer.  A program reads    *)
(* the buffer with getc_blk, or reads the viewport to which the desktop    *)
(* hands the key once per pass with viewport_getc; both poll, with         *)
(* interrupts on.                                                          *)
(***************************************************************************)
EXTENDS Integers, Sequences

CONSTANTS
    Keys,       \* the keys that are used
    MaxEvents,  \* bound: presses and releases
    MaxWire,    \* bound: bytes on their way when a key is pressed or let go of
    BufLen      \* keyboard_buffer_size

\* What is assumed of the constants: see KeyboardAssumption in module Devices.

VARIABLES
    held, events,     \* the keys that are down; how many events there have been
    wire,             \* bytes on their way
    shift, ctrl, release, special, key, arrow,  \* KBD_flags
    buf, idx,         \* keyboard_ASCIIBuffer and KBD_ascii_buffer_idx
    map,              \* key_pressed_map: the characters that are set
    mixed,            \* history: shift has changed with a character key down
    getc,             \* a call of getc_blk, and what was typed since it began
    news, ascii,      \* the desktop has not seen this byte; vp->ascii
    shown,            \* elements[0] is this viewport, and it is not minimised
    passed,           \* history: the last pass was not for this viewport
    vp                \* a call of viewport_getc

flags == <<shift, ctrl, release, special, key, arrow>>
driver == <<flags, buf, idx, map>>
desk == <<ascii, shown, passed>>
vars == <<held, events, wire, driver, mixed, getc, news, desk, vp>>

Nul == "nul"
Garbage == "garbage"  \* what lies in front of the buffer
Left == "left"
Make(k) == CASE k = "four" -> <<"6B">> [] k = "left" -> <<"E0", "6B">> [] OTHER -> <<k>>
Break(k) == CASE k = "four" -> <<"F0", "6B">> [] k = "left" -> <<"E0", "F0", "6B">> [] OTHER -> <<"F0", k>>
Codes == {"a", "b", "6B", "shift", "ctrl", "E0", "F0"}

\* kbd_US and kbd_US_shift; the keypad is the same in both.
Sym(code, shifted) ==
    CASE code = "a" -> IF shifted THEN "A" ELSE "a"
      [] code = "b" -> IF shifted THEN "B" ELSE "b"
      [] code = "6B" -> "4"
      [] OTHER -> Nul
KeyOf(c) == CASE c \in {"a", "A"} -> "a" [] c \in {"b", "B"} -> "b" [] c = "4" -> "four" [] c = Left -> "left"
Letters == {"a", "b", "four"}
Chars == {"a", "A", "b", "B", "4"}

TypeOK ==
    /\ held \subseteq Keys /\ events \in 0 .. MaxEvents /\ wire \in Seq(Codes)
    /\ {shift, ctrl, release, special, mixed, news} \subseteq BOOLEAN
    /\ key \in Chars \cup {Nul} /\ arrow \in {Nul, Left} /\ map \subseteq Chars \cup {Nul}
    /\ buf \in [0 .. BufLen -> Chars \cup {Nul, Left}] /\ idx \in 0 .. BufLen - 1
    /\ getc.pc \in {"out", "wait", "read", "done"} /\ getc.seen \in 0 .. BufLen - 1
    /\ getc.at \in 0 .. BufLen - 1 /\ getc.got \in Chars \cup {Nul, Left, Garbage}
    /\ getc.since \subseteq Chars \cup {Left, "combination"}
    /\ ascii \in Chars \cup {Nul, Left}
    /\ shown \in BOOLEAN /\ passed \in BOOLEAN
    /\ vp.pc \in {"wait", "take", "clear"} /\ vp.c \in Chars \cup {Nul, Left}

Init ==
    /\ held = {} /\ events = 0 /\ wire = <<>>
    /\ shift = FALSE /\ ctrl = FALSE /\ release = FALSE /\ special = FALSE
    /\ key = Nul /\ arrow = Nul
    /\ buf = [i \in 0 .. BufLen |-> Nul] /\ idx = 0 /\ map = {} /\ mixed = FALSE
    /\ getc = [pc |-> "out", seen |-> 0, at |-> 0, got |-> Nul, since |-> {}]
    /\ news = FALSE /\ ascii = Nul /\ shown = TRUE /\ passed = FALSE
    /\ vp = [pc |-> "wait", c |-> Nul]
-----------------------------------------------------------------------------
(* The keys.  A key that is held down repeats its make code.               *)

Mixes(k) == k = "shift" /\ held \cap Letters # {}
Press(k) ==
    /\ events < MaxEvents /\ Len(wire) <= MaxWire /\ events' = events + 1
    /\ held' = held \cup {k} /\ wire' = wire \o Make(k)
    /\ mixed' = (mixed \/ Mixes(k))
    /\ UNCHANGED <<driver, getc, news, desk, vp>>

Release(k) ==
    /\ events < MaxEvents /\ Len(wire) <= MaxWire /\ events' = events + 1
    /\ k \in held /\ held' = held \ {k} /\ wire' = wire \o Break(k)
    /\ mixed' = (mixed \/ Mixes(k))
    /\ UNCHANGED <<driver, getc, news, desk, vp>>
-----------------------------------------------------------------------------
(* kbd_recieveScancode.                                                    *)

Typed(c) == getc' = [getc EXCEPT !.since = @ \cup {c}]
\* The index moves on and a zero follows it; it wraps after that.
WrapsM(i) == i  \* mutant: it does not wrap
Wraps(i) == IF i >= BufLen THEN 0 ELSE i
Store(b) == buf' = [b EXCEPT ![idx + 1] = Nul] /\ idx' = Wraps(idx + 1)

IsCharacter(code) == Sym(code, FALSE) # Nul /\ ~release /\ ~special

\* With ctrl down a letter is a command: nothing is stored, and the key that
\* came before is marked as pressed.
Combination(code) ==
    /\ IsCharacter(code) /\ ctrl /\ ~shift
    /\ map' = map \cup {key} /\ Store(buf)
    /\ Typed("combination")
    /\ UNCHANGED flags

Character(code) ==
    /\ IsCharacter(code) /\ ~(ctrl /\ ~shift)
    /\ key' = Sym(code, shift) /\ map' = map \cup {key'}
    /\ Store([buf EXCEPT ![idx] = key']) /\ Typed(key')
    /\ UNCHANGED <<shift, ctrl, release, special, arrow>>

Prefix(code) ==
    /\ ~IsCharacter(code)
    /\ \/ code = "E0" /\ special' = TRUE /\ UNCHANGED release
       \/ code = "F0" /\ release' = TRUE /\ special' = FALSE
    /\ UNCHANGED <<shift, ctrl, key, arrow, buf, idx, map, getc>>

\* The break code ends here: the key it clears is the one that shift gives.
ClearedM(code, shifted) == {}  \* mutant: the map is left alone
Cleared(code, shifted) == {Sym(code, shifted)}
ArrowM(now) == now  \* mutant: an arrow is not forgotten on release
Arrow(now) == IF release THEN Nul ELSE now
Special == FALSE
Rest(code) ==
    /\ ~IsCharacter(code) /\ code \notin {"E0", "F0"}
    /\ shift' = IF code = "shift" THEN ~release ELSE shift
    /\ ctrl' = IF code = "ctrl" THEN ~release ELSE ctrl
    /\ IF code = "6B" /\ special
         THEN arrow' = Arrow(Left) /\ Store([buf EXCEPT ![idx] = Left]) /\ Typed(Left)
         ELSE arrow' = Arrow(arrow) /\ UNCHANGED <<buf, idx, getc>>
    /\ map' = IF release THEN map \ Cleared(code, shift') ELSE map
    /\ key' = IF release THEN Nul ELSE key
    /\ release' = FALSE /\ special' = Special

ReceiveScancode ==
    /\ wire # <<>> /\ wire' = Tail(wire) /\ news' = TRUE
    /\ \E code \in {Head(wire)} : Combination(code) \/ Character(code) \/ Prefix(code) \/ Rest(code)
    /\ UNCHANGED <<held, events, mixed, desk, vp>>
-----------------------------------------------------------------------------
(* getc_blk, which compares the index and then loads it once more.         *)

GetcCall ==
    /\ getc.pc \in {"out", "done"}
    /\ getc' = [getc EXCEPT !.pc = "wait", !.seen = idx, !.got = Nul, !.since = {}]
    /\ UNCHANGED <<held, events, wire, driver, mixed, news, desk, vp>>

GetcSees ==
    /\ getc.pc = "wait" /\ getc.seen # idx
    /\ getc' = [getc EXCEPT !.pc = "read"]
    /\ UNCHANGED <<held, events, wire, driver, mixed, news, desk, vp>>

LastM(i) == buf[i]  \* mutant: one too far
Last(i) == IF i = 0 THEN Garbage ELSE buf[i - 1]
GetcReturns ==
    /\ getc.pc = "read"
    /\ getc' = [getc EXCEPT !.pc = "done", !.seen = 0, !.at = idx, !.got = Last(idx)]
    /\ UNCHANGED <<held, events, wire, driver, mixed, news, desk, vp>>
-----------------------------------------------------------------------------
(* The desktop's pass, and a program that goes on calling viewport_getc.   *)

\* A click of the mouse, or a program that opens or closes a viewport, brings
\* another to the front or this one back, minimises it or restores it.  Each
\* counts as an event.
FrontChanges ==
    /\ events < MaxEvents /\ events' = events + 1
    /\ shown' = ~shown
    /\ UNCHANGED <<held, wire, driver, mixed, getc, news, ascii, passed, vp>>

\* Only a viewport that is in front and not minimised gets the key, or is told
\* that there is none.  The keys here are none that the desktop keeps.
DesktopPass ==
    /\ news /\ news' = FALSE
    /\ passed' = ~shown
    /\ ascii' = IF ~shown THEN ascii ELSE IF arrow # Nul THEN arrow ELSE key
    /\ UNCHANGED <<held, events, wire, driver, mixed, getc, shown, vp>>

VpStep(from, to) == vp.pc = from /\ vp' = [vp EXCEPT !.pc = to]
VpSees == ascii # Nul /\ VpStep("wait", "take") /\ UNCHANGED ascii
VpTakes == vp.pc = "take" /\ vp' = [pc |-> "clear", c |-> ascii] /\ UNCHANGED ascii
VpReturns == VpStep("clear", "wait") /\ ascii' = Nul
ViewportGetc ==
    /\ VpSees \/ VpTakes \/ VpReturns
    /\ UNCHANGED <<held, events, wire, driver, mixed, getc, news, shown, passed>>

Next ==
    \/ \E k \in Keys : Press(k) \/ Release(k)
    \/ ReceiveScancode \/ GetcCall \/ GetcSees \/ GetcReturns
    \/ FrontChanges \/ DesktopPass \/ ViewportGetc
Spec == Init /\ [][Next]_vars
-----------------------------------------------------------------------------
(* Properties.                                                             *)

\* With no byte on its way the flags say which modifiers are down, and no
\* prefix is left over for the next key.
ModifiersAgree ==
    wire = <<>> =>
      /\ shift = ("shift" \in held) /\ ctrl = ("ctrl" \in held)
      /\ ~release /\ ~special

\* A character that is marked as pressed belongs to a key that is down,
\* unless shift has changed while a character key was down: then the break
\* code clears another character than the make code has set, and the first
\* one stays for ever.
NoStuckKey ==
    wire = <<>> /\ ~mixed => \A c \in map \ {Nul} : KeyOf(c) \in held

\* So the driver's picture of the keys is right once all bytes have arrived.
KeysAgree == ModifiersAgree /\ NoStuckKey

\* getc_blk returns something that was typed while it waited, unless the
\* index has just wrapped or a combination has moved it.
GetcTyped ==
    getc.pc = "done" =>
      getc.got \in getc.since \/ getc.at = 0 \/ "combination" \in getc.since

\* Once the desktop has caught up, and its last pass was for this viewport, the
\* key that the viewport is offered is one that is still down.  A viewport that
\* was minimised or behind another in the last pass is not told of a release:
\* vp->ascii keeps the key until the program asks for it, however much later.
OfferedIsHeld ==
    wire = <<>> /\ ~news /\ ~passed /\ ascii # Nul => KeyOf(ascii) \in held
=============================================================================
