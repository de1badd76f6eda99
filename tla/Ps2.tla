-------------------------------- MODULE Ps2 --------------------------------
(***************************************************************************)
(* The PS/2 controller, which has one output register for two devices, and *)
(* the two interrupt handlers that read it (ps2.c): the keyboard's takes   *)
(* whatever the register holds, the mouse's loops while there is something *)
(* to read and puts packets of three bytes together.                       *)
(*                                                                         *)
(* Handlers run with interrupts off, but the controller does not wait for  *)
(* them: each access to it is a step.  A read that waits in vain goes on    *)
(* all the same, and gets what the register held last.                     *)
(***************************************************************************)
EXTENDS Integers, Sequences

CONSTANTS
    MaxKeys,     \* bound: bytes the keyboard sends
    MaxPackets,  \* bound: packets the mouse sends
    Overflow     \* the packets the mouse marks as overflown

\* What is assumed of the constants: see Ps2Assumption in module Devices.

VARIABLES
    keys, motion,   \* the bytes the devices still have to send
    sent,           \* how many keys and packets they have sent altogether
    out, full,      \* the output register, and whether it is still to be read
    irq1, irq12,    \* interrupts that are pending
    served12,       \* the mouse's interrupt is in service: no other comes
    pc,             \* where the mouse's handler is
    status,         \* the status it has read
    mouse_cycle, mouse_byte,
    typed,          \* what the keyboard's handler has handed on
    moved,          \* the packets mouse_update was called for
    crossed         \* history: interrupts and bytes have not gone together

device == <<keys, motion, sent>>
register == <<out, full>>
packet == <<mouse_cycle, mouse_byte, moved>>
vars == <<device, register, irq1, irq12, served12, pc, status, packet, typed, crossed>>

\* The first byte of a packet has bit 3 set; the others may look like one.
Byte(from, n, part, first, over) ==
    [from |-> from, n |-> n, part |-> part, first |-> first, overflow |-> over]
Key(n) == Byte("keyboard", n, 0, FALSE, FALSE)
Motion(n, part, first, over) == Byte("mouse", n, part, first, over)
Empty == Byte("nobody", 0, 0, FALSE, FALSE)
KeyBytes == {Key(n) : n \in 1 .. MaxKeys}
MouseBytes == {Motion(n, p, f, o) : n \in 1 .. MaxPackets, p \in 1 .. 3, f \in BOOLEAN, o \in BOOLEAN}
Bytes == KeyBytes \cup MouseBytes \cup {Empty}

TypeOK ==
    /\ keys \in Seq(KeyBytes) /\ motion \in Seq(MouseBytes)
    /\ sent \in [keys : 0 .. MaxKeys, packets : 0 .. MaxPackets]
    /\ out \in Bytes /\ full \in BOOLEAN
    /\ irq1 \in BOOLEAN /\ irq12 \in BOOLEAN /\ served12 \in BOOLEAN
    /\ pc \in {"idle", "read", "status"} /\ status \in {"nobody", "keyboard", "mouse"}
    /\ mouse_cycle \in 0 .. 2 /\ mouse_byte \in [0 .. 2 -> Bytes]
    /\ typed \in Seq(Bytes)
    /\ moved \in Seq([0 .. 2 -> Bytes]) /\ crossed \in BOOLEAN

\* Both devices have been enabled.
Init ==
    /\ keys = <<>> /\ motion = <<>> /\ sent = [keys |-> 0, packets |-> 0]
    /\ out = Empty /\ full = FALSE
    /\ irq1 = FALSE /\ irq12 = FALSE /\ served12 = FALSE
    /\ pc = "idle" /\ status = "nobody"
    /\ mouse_cycle = 0 /\ mouse_byte = [part \in 0 .. 2 |-> Empty]
    /\ typed = <<>> /\ moved = <<>> /\ crossed = FALSE
-----------------------------------------------------------------------------
(* The devices and the controller.                                         *)

PressKey ==
    /\ sent.keys < MaxKeys
    /\ sent' = [sent EXCEPT !.keys = @ + 1]
    /\ keys' = Append(keys, Key(sent.keys + 1))
    /\ UNCHANGED <<motion, register, irq1, irq12, served12, pc, status, packet, typed, crossed>>

MoveMouse ==
    /\ sent.packets < MaxPackets
    /\ sent' = [sent EXCEPT !.packets = @ + 1]
    /\ \E looks \in [{2, 3} -> BOOLEAN] :
         motion' = motion \o
           <<Motion(sent.packets + 1, 1, TRUE, sent.packets + 1 \in Overflow),
             Motion(sent.packets + 1, 2, looks[2], FALSE),
             Motion(sent.packets + 1, 3, looks[3], FALSE)>>
    /\ UNCHANGED <<keys, register, irq1, irq12, served12, pc, status, packet, typed, crossed>>

\* The register takes the next byte of either device once it has been read.
\* The mouse's handler may have read a key whose interrupt still waits: if
\* another byte comes now, there is one interrupt for two bytes.
Load ==
    /\ ~full /\ full' = TRUE
    /\ \/ /\ keys # <<>> /\ out' = Head(keys) /\ keys' = Tail(keys) /\ irq1' = TRUE
          /\ UNCHANGED <<motion, irq12>>
       \/ /\ motion # <<>> /\ out' = Head(motion) /\ motion' = Tail(motion) /\ irq12' = TRUE
          /\ UNCHANGED <<keys, irq1>>
    /\ crossed' = (crossed \/ irq1)
    /\ UNCHANGED <<sent, served12, pc, status, packet, typed>>

Status == IF full THEN out.from ELSE "nobody"
-----------------------------------------------------------------------------
(* ps2_keyboard_handler.                                                   *)

\* It does not look at the status: an empty register still holds the byte
\* that the mouse's handler has dropped.
HandedOn == <<out>>
KbdInterrupt ==
    /\ pc = "idle" /\ irq1
    /\ irq1' = FALSE
    /\ typed' = typed \o HandedOn
    /\ full' = FALSE
    /\ crossed' = (crossed \/ out.from = "mouse")
    /\ UNCHANGED <<device, out, irq12, served12, pc, status, packet>>
-----------------------------------------------------------------------------
(* ps2_mouse_handler.                                                      *)

\* Its return, with pic_acknowledge or without.
AcknowledgedM == full  \* mutant: only after it has had something to read
Acknowledged == TRUE
Continue ==
    /\ status' = Status
    /\ \/ Status # "nobody" /\ pc' = "read" /\ UNCHANGED served12
       \/ Status = "nobody" /\ pc' = "idle" /\ served12' = ~Acknowledged

\* The keyboard's interrupt goes first.
MouseInterrupt ==
    /\ pc = "idle" /\ irq12 /\ ~irq1 /\ ~served12
    /\ irq12' = FALSE
    /\ status' = Status
    /\ \/ Status # "nobody" /\ pc' = "read" /\ served12' = TRUE
       \/ Status = "nobody" /\ UNCHANGED <<pc, served12>>
    /\ UNCHANGED <<device, register, irq1, packet, typed, crossed>>

\* A packet that is marked as overflown is not used, and mouse_cycle stays
\* where it is.
Cycle(b) ==
    CASE mouse_cycle = 0 -> IF b.first THEN 1 ELSE 0
      [] mouse_cycle = 1 -> 2
      [] mouse_cycle = 2 -> IF mouse_byte[0].overflow THEN 2 ELSE 0
Accept(b) ==
    /\ mouse_byte' = [mouse_byte EXCEPT ![mouse_cycle] = b]
    /\ mouse_cycle' = Cycle(b)
    /\ moved' = IF mouse_cycle = 2 /\ ~mouse_byte[0].overflow
                  THEN Append(moved, mouse_byte') ELSE moved

FromMouseM == TRUE  \* mutant: MOUSE_F_BIT is not looked at
FromMouse == status = "mouse"
\* A first byte that is none makes the handler return without an acknowledge.
MouseRead ==
    /\ pc = "read"
    /\ full' = FALSE
    /\ \/ FromMouse /\ Accept(out)
       \/ ~FromMouse /\ UNCHANGED packet
    /\ pc' = IF FromMouse /\ mouse_cycle = 0 /\ ~out.first THEN "idle" ELSE "status"
    /\ UNCHANGED <<device, out, irq1, irq12, served12, status, typed, crossed>>

MouseStatus ==
    /\ pc = "status"
    /\ Continue
    /\ UNCHANGED <<device, register, irq1, irq12, packet, typed, crossed>>

Handlers == Load \/ KbdInterrupt \/ MouseInterrupt \/ MouseRead \/ MouseStatus
Next == PressKey \/ MoveMouse \/ Handlers
Spec == Init /\ [][Next]_vars /\ WF_vars(Handlers)
-----------------------------------------------------------------------------
(* Properties.                                                             *)

\* The keyboard gets its bytes in order, each once, even those the mouse's
\* handler has read and thrown away, unless the keyboard's handler has met a
\* byte of the mouse in the register.
KeysInOrder == ~crossed => \A i \in 1 .. Len(typed) : typed[i] = Key(i)

\* The packets are applied in order, each once and each made of its own three
\* bytes, none that is marked as overflown, and all if there was none such,
\* unless ...  (After one that is marked the mouse is dead: mouse_cycle and
\* the marked first byte stay, ps2.c line 431.)
PacketsWhole ==
    ~crossed =>
      /\ \A i \in 1 .. Len(moved) :
           /\ i \notin Overflow
           /\ \A p \in 0 .. 2 : moved[i][p].n = i /\ moved[i][p].part = p + 1
      /\ motion = <<>> /\ ~full /\ 1 .. sent.packets \cap Overflow = {} => Len(moved) = sent.packets

\* So each handler gets the bytes of its own device, although both read one
\* register and either may empty it under the other.
BytesArrive == KeysInOrder /\ PacketsWhole

\* Whatever the devices send is taken from them in the end, unless ...
Drained == sent # [keys |-> 0, packets |-> 0] ~> (keys = <<>> /\ motion = <<>> /\ ~full) \/ crossed
=============================================================================
