-------------------------------- MODULE Pipe --------------------------------
(***************************************************************************)
(* One pipe (drivers/pipe.c): a buffer that is filled from the front and   *)
(* is only reused once the reader has drained it.  Every call is a system  *)
(* call with interrupts off, so it is one step; any number of descriptors  *)
(* may share an end, so any call may come at any time.  The k-th byte the  *)
(* pipe accepts is the number k; 0 is the byte pipe_create fills in.       *)
(***************************************************************************)
EXTENDS Integers, Sequences

CONSTANTS
    BufSize,  \* the size vfs_mkpipe asks for (1000)
    MaxSent   \* bound: the bytes ever accepted

ASSUME PipeAssumption == BufSize \in Nat \ {0} /\ MaxSent \in Nat

VARIABLES
    buf, bufSize, writeHead, readHead, writeOpen, readOpen,  \* struct Pipe
    sent,  \* the number of bytes pipe_write has accepted
    got    \* the bytes pipe_read has handed out

pipe == <<buf, bufSize, writeHead, readHead, writeOpen, readOpen>>
vars == <<pipe, sent, got>>

Byte == 0 .. MaxSent
Cell == 0 .. BufSize - 1
TypeOK ==
    /\ buf \in [Cell -> Byte] /\ bufSize \in {0, BufSize}
    /\ writeHead \in 0 .. BufSize /\ readHead \in 0 .. BufSize
    /\ writeOpen \in BOOLEAN /\ readOpen \in BOOLEAN
    /\ sent \in Byte /\ got \in Seq(Byte)

\* pipe_create
Init ==
    /\ buf = [c \in Cell |-> 0] /\ bufSize = BufSize
    /\ writeHead = 0 /\ readHead = 0
    /\ writeOpen = TRUE /\ readOpen = TRUE
    /\ sent = 0 /\ got = <<>>

Least(a, b) == IF a < b THEN a ELSE b

Space == bufSize - writeHead

\* pipe_write of n bytes: as many as there is space for at the end.
Write(n) ==
    LET count == Least(n, Space)
    IN  /\ Space > 0 /\ sent + count <= MaxSent
        /\ buf' = [c \in Cell |-> IF writeHead <= c /\ c < writeHead + count
                                    THEN sent + 1 + c - writeHead ELSE buf[c]]
        /\ writeHead' = writeHead + count
        /\ sent' = sent + count
        /\ UNCHANGED <<bufSize, readHead, writeOpen, readOpen, got>>

AvailableM == writeHead - readHead - 1  \* mutant: one too few
Available == writeHead - readHead
Source == readHead
DrainedM(head) == FALSE  \* mutant: the heads are never reset
Drained(head) == head = writeHead

\* pipe_read of n bytes.
Read(n) ==
    LET count == Least(n, Available)
    IN  /\ Available > 0
        /\ got' = [k \in 1 .. Len(got) + count |->
                     IF k <= Len(got) THEN got[k] ELSE buf[Source + k - Len(got) - 1]]
        /\ readHead' = IF Drained(readHead + count) THEN 0 ELSE readHead + count
        /\ writeHead' = IF Drained(readHead + count) THEN 0 ELSE writeHead
        /\ UNCHANGED <<buf, bufSize, writeOpen, readOpen, sent>>

BothClosedM(w, r) == ~w \/ ~r  \* mutant: the first close frees the pipe
BothClosed(w, r) == ~w /\ ~r
ClearedM(head, freed) == head  \* mutant: the buffer goes, the heads stay
Cleared(head, freed) == IF freed THEN 0 ELSE head

\* pipe_close.  A write end may be closed again by a descriptor that shares it.
Close(side) ==
    /\ writeOpen' = (writeOpen /\ side # "write")
    /\ readOpen' = (readOpen /\ side # "read")
    /\ LET freed == BothClosed(writeOpen', readOpen')
       IN  /\ bufSize' = IF freed THEN 0 ELSE bufSize
           /\ writeHead' = Cleared(writeHead, freed)
           /\ readHead' = Cleared(readHead, freed)
    /\ UNCHANGED <<buf, sent, got>>

Next ==
    \/ \E n \in 1 .. BufSize + 1 : Write(n) \/ Read(n)
    \/ \E side \in {"read", "write"} : Close(side)

Spec == Init /\ [][Next]_vars
\* The reader polls the pipe, as the terminal does for its child's output.
FairSpec == Spec /\ WF_vars(\E n \in 1 .. BufSize + 1 : Read(n))
-----------------------------------------------------------------------------
(* Properties.                                                             *)

Freed == ~writeOpen /\ ~readOpen

\* A read or write stays inside the buffer and off what was not written: the
\* heads are in order, and a freed pipe (its buffer is NULL) has no cell.
HeadsInBuffer ==
    /\ readHead <= writeHead /\ writeHead <= bufSize
    /\ bufSize = 0 <=> Freed

\* A pipe with nothing in it has all of its buffer free: what has been drained
\* is never lost to the writer, however the reads cut up the bytes.
Recycles == readHead = writeHead => readHead = 0

\* The bytes handed out are the bytes accepted, once and in order, and until
\* the pipe is freed the rest lie in the buffer in their order.
InOrder ==
    /\ \A k \in 1 .. Len(got) : got[k] = k
    /\ ~Freed => /\ sent = Len(got) + Available
                 /\ \A c \in readHead .. writeHead - 1 :
                      buf[c] = Len(got) + 1 + c - readHead

\* The pipe as its users see it.
Stream == INSTANCE ByteStream WITH
    Capacity <- BufSize,
    fifo <- [k \in 1 .. writeHead - readHead |-> buf[readHead + k - 1]],
    ends <- (IF writeOpen THEN {"write"} ELSE {}) \cup (IF readOpen THEN {"read"} ELSE {})
ImplementsStream == Stream!Spec

\* A byte that was accepted is handed out, unless the pipe is freed before.
Delivered == \A k \in 1 .. MaxSent : sent >= k ~> Len(got) >= k \/ Freed
=============================================================================
