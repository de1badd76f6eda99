----------------------------- MODULE ByteStream -----------------------------
(***************************************************************************)
(* What a pipe of the kernel promises its users: the bytes that were       *)
(* accepted, and no others, come out once and in the order they went in,   *)
(* until both ends have been closed and what is left is dropped.  The k-th *)
(* byte accepted is the number k.                                          *)
(***************************************************************************)
EXTENDS Integers, Sequences

CONSTANT Capacity

VARIABLES
    sent,    \* the number of bytes accepted
    fifo,    \* the bytes on their way
    got,     \* the bytes delivered
    ends     \* the ends that are still open

vars == <<sent, fifo, got, ends>>

Init == sent = 0 /\ fifo = <<>> /\ got = <<>> /\ ends = {"read", "write"}

Send(n) ==
    /\ ends # {} /\ Len(fifo) + n <= Capacity
    /\ sent' = sent + n
    /\ fifo' = [k \in 1 .. Len(fifo) + n |->
                  IF k <= Len(fifo) THEN fifo[k] ELSE sent + k - Len(fifo)]
    /\ UNCHANGED <<got, ends>>

Receive(n) ==
    /\ n <= Len(fifo)
    /\ got' = [k \in 1 .. Len(got) + n |->
                 IF k <= Len(got) THEN got[k] ELSE fifo[k - Len(got)]]
    /\ fifo' = [k \in 1 .. Len(fifo) - n |-> fifo[k + n]]
    /\ UNCHANGED <<sent, ends>>

Close(side) ==
    /\ ends' = ends \ {side}
    /\ fifo' = IF ends' = {} THEN <<>> ELSE fifo
    /\ UNCHANGED <<sent, got>>

Next ==
    \/ \E n \in 1 .. Capacity : Send(n) \/ Receive(n)
    \/ \E side \in {"read", "write"} : Close(side)

Spec == Init /\ [][Next]_vars
=============================================================================
