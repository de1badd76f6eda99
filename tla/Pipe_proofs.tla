----------------------------- MODULE Pipe_proofs -----------------------------
(***************************************************************************)
(* Proofs about Pipe, for every buffer size: its invariants, and that a    *)
(* pipe is a ByteStream.                                                   *)
(***************************************************************************)
EXTENDS Pipe, TLAPS

\* What the steps preserve together: the heads say which cells hold bytes on
\* their way, and those cells hold the next numbers.
IInv == TypeOK /\ HeadsInBuffer /\ Recycles /\ InOrder

USE PipeAssumption DEF Cell, Byte, Least, Freed, Space, Available, Source, Drained,
                       BothClosed, Cleared

\* A new pipe is empty.
LEMMA InitIInv == Init => IInv
BY DEF Init, IInv, TypeOK, HeadsInBuffer, Recycles, InOrder

\* How much a write takes: at least one byte, and no more than fits.
LEMMA WriteCount ==
  ASSUME TypeOK, HeadsInBuffer, NEW n \in 1 .. BufSize + 1, Space > 0
  PROVE  /\ Least(n, Space) \in 1 .. Space
         /\ Space \in 1 .. BufSize /\ ~Freed /\ bufSize = BufSize
BY DEF TypeOK, HeadsInBuffer

\* A write fills cells that held nothing, with the next bytes.
LEMMA WriteIInv ==
  ASSUME IInv, NEW n \in 1 .. BufSize + 1, Write(n)
  PROVE  IInv'
<1> DEFINE count == Least(n, Space)
<1>1. /\ count \in 1 .. Space /\ Space \in 1 .. BufSize
      /\ ~Freed /\ bufSize = BufSize /\ Space = bufSize - writeHead
  BY WriteCount DEF Write, IInv
<1>2. /\ writeHead' = writeHead + count /\ sent' = sent + count
      /\ sent + count <= MaxSent
      /\ buf' = [c \in Cell |-> IF writeHead <= c /\ c < writeHead + count
                                  THEN sent + 1 + c - writeHead ELSE buf[c]]
      /\ UNCHANGED <<bufSize, readHead, writeOpen, readOpen, got>>
  BY DEF Write
<1> HIDE DEF count
<1> USE DEF IInv
<1>3. TypeOK'
  <2>1. /\ writeHead' \in 0 .. BufSize /\ sent' \in Byte
        /\ \A c \in Cell : buf'[c] \in Byte
    BY <1>1, <1>2 DEF TypeOK
  <2> QED BY <1>2, <2>1 DEF TypeOK
<1>4. HeadsInBuffer' /\ Recycles'
  BY <1>1, <1>2 DEF TypeOK, HeadsInBuffer, Recycles
<1>5. InOrder'
  <2>1. /\ sent = Len(got) + writeHead - readHead
        /\ \A c \in readHead .. writeHead - 1 : buf[c] = Len(got) + 1 + c - readHead
    BY <1>1 DEF InOrder, TypeOK
  <2>t. /\ writeHead \in Nat /\ readHead \in Nat /\ sent \in Nat /\ Len(got) \in Nat
        /\ readHead <= writeHead /\ writeHead + count <= BufSize
        /\ count \in Nat /\ BufSize \in Nat
    BY <1>1 DEF TypeOK, HeadsInBuffer
  <2>2. \A c \in readHead .. writeHead + count - 1 :
          (IF writeHead <= c /\ c < writeHead + count
             THEN sent + 1 + c - writeHead ELSE buf[c]) = Len(got) + 1 + c - readHead
    BY <2>1, <2>t
  <2>3. \A c \in readHead .. writeHead' - 1 : buf'[c] = Len(got) + 1 + c - readHead
    <3>1. \A c \in readHead .. writeHead + count - 1 : c \in Cell
      BY <2>t
    <3>2. writeHead' = writeHead + count /\ got' = got
      BY <1>2
    <3>3. \A c \in readHead .. writeHead + count - 1 :
            buf'[c] = Len(got) + 1 + c - readHead
      BY <1>2, <2>2, <3>1
    <3> QED BY <3>2, <3>3, <2>t
  <2>4. sent' = Len(got') + (writeHead' - readHead')
    BY <1>2, <2>1, <2>t
  <2>5. \A k \in 1 .. Len(got') : got'[k] = k
    BY <1>2 DEF InOrder
  <2> QED BY <1>2, <2>3, <2>4, <2>5 DEF InOrder
<1> QED BY <1>3, <1>4, <1>5

\* How much a read takes: at least one byte, and no more than there is.
LEMMA ReadCount ==
  ASSUME TypeOK, HeadsInBuffer, NEW n \in 1 .. BufSize + 1, Available > 0
  PROVE  /\ Least(n, Available) \in 1 .. Available
         /\ Available \in 1 .. BufSize /\ ~Freed
BY DEF TypeOK, HeadsInBuffer

\* A read hands out the oldest bytes; the rest keeps its place, or there is
\* no rest and the heads go back to the front.
LEMMA ReadIInv ==
  ASSUME IInv, NEW n \in 1 .. BufSize + 1, Read(n)
  PROVE  IInv'
<1> DEFINE count == Least(n, Available)
<1>1. /\ count \in 1 .. Available /\ Available \in 1 .. BufSize /\ ~Freed
      /\ Available = writeHead - readHead
  BY ReadCount DEF Read, IInv
<1>2. /\ got' = [k \in 1 .. Len(got) + count |->
                   IF k <= Len(got) THEN got[k] ELSE buf[readHead + k - Len(got) - 1]]
      /\ readHead' = IF readHead + count = writeHead THEN 0 ELSE readHead + count
      /\ writeHead' = IF readHead + count = writeHead THEN 0 ELSE writeHead
      /\ UNCHANGED <<buf, bufSize, writeOpen, readOpen, sent>>
  BY DEF Read
<1> HIDE DEF count
<1> USE DEF IInv
<1>3. Len(got) \in Nat /\ \A k \in 1 .. Len(got) : got[k] \in Byte
  BY DEF TypeOK
<1>4. got' \in Seq(Byte) /\ Len(got') = Len(got) + count
  <2>1. \A k \in 1 .. Len(got) + count : got'[k] \in Byte
    BY <1>1, <1>2, <1>3 DEF TypeOK, HeadsInBuffer
  <2>2. got' \in [1 .. Len(got) + count -> Byte]
    BY <1>2, <2>1
  <2>3. Len(got) + count \in Nat
    BY <1>1, <1>3
  <2> HIDE DEF Byte
  <2> QED BY <2>2, <2>3
<1>5. TypeOK' /\ HeadsInBuffer' /\ Recycles'
  <2>1. readHead' \in 0 .. BufSize /\ writeHead' \in 0 .. BufSize
    BY <1>1, <1>2 DEF TypeOK, HeadsInBuffer
  <2>2. TypeOK'
    BY <1>2, <1>4, <2>1 DEF TypeOK
  <2> QED BY <1>1, <1>2, <2>2 DEF TypeOK, HeadsInBuffer, Recycles
<1>6. InOrder'
  <2>1. /\ sent = Len(got) + writeHead - readHead
        /\ \A c \in readHead .. writeHead - 1 : buf[c] = Len(got) + 1 + c - readHead
        /\ \A k \in 1 .. Len(got) : got[k] = k
    BY <1>1 DEF InOrder, TypeOK
  <2>t. /\ writeHead \in Nat /\ readHead \in Nat /\ sent \in Nat /\ Len(got) \in Nat
        /\ count \in 1 .. writeHead - readHead
    BY <1>1, <1>3 DEF TypeOK, HeadsInBuffer
  <2>2. \A k \in 1 .. Len(got) + count : got'[k] = k
    <3>1. \A k \in 1 .. Len(got) + count :
            (IF k <= Len(got) THEN got[k] ELSE buf[readHead + k - Len(got) - 1]) = k
      BY <2>1, <2>t
    <3> QED BY <1>2, <3>1
  <2>3. \A c \in readHead' .. writeHead' - 1 : buf'[c] = Len(got') + 1 + c - readHead'
    <3>1. buf' = buf
      BY <1>2
    <3>2. CASE readHead + count = writeHead
      BY <1>2, <2>t, <3>2
    <3>3. CASE readHead + count # writeHead
      <4>1. readHead' = readHead + count /\ writeHead' = writeHead
        BY <1>2, <3>3
      <4> QED BY <1>4, <2>1, <2>t, <3>1, <4>1
    <3> QED BY <3>2, <3>3, <2>t
  <2>4. sent' = Len(got') + (writeHead' - readHead')
    <3>1. sent' = sent
      BY <1>2
    <3>2. writeHead' - readHead' = writeHead - readHead - count
      BY <1>2, <2>t
    <3> QED BY <1>4, <2>1, <2>t, <3>1, <3>2
  <2> QED BY <1>4, <2>2, <2>3, <2>4 DEF InOrder
<1> QED BY <1>5, <1>6

\* Closing an end moves nothing, unless it is the last one to be closed.
LEMMA CloseIInv ==
  ASSUME IInv, NEW side \in {"read", "write"}, Close(side)
  PROVE  IInv'
<1>1. TypeOK /\ HeadsInBuffer /\ Recycles /\ InOrder
  BY DEF IInv
<1>2. CASE Freed'
  <2>1. bufSize' = 0 /\ writeHead' = 0 /\ readHead' = 0
    BY <1>2 DEF Close
  <2>2. writeOpen' \in BOOLEAN /\ readOpen' \in BOOLEAN /\ UNCHANGED <<buf, sent, got>>
    BY DEF Close
  <2>3. TypeOK'
    BY <1>1, <2>1, <2>2 DEF TypeOK
  <2>4. HeadsInBuffer' /\ Recycles'
    BY <1>2, <2>1 DEF HeadsInBuffer, Recycles
  <2>5. InOrder'
    BY <1>1, <1>2, <2>2 DEF InOrder
  <2> QED BY <2>3, <2>4, <2>5 DEF IInv
<1>3. CASE ~Freed'
  <2>1. /\ UNCHANGED <<bufSize, writeHead, readHead, buf, sent, got>>
        /\ writeOpen' \in BOOLEAN /\ readOpen' \in BOOLEAN
    BY <1>3 DEF Close
  <2>2. ~Freed
    BY <1>3 DEF Close
  <2>3. TypeOK'
    BY <1>1, <2>1 DEF TypeOK
  <2>4. HeadsInBuffer' /\ Recycles'
    BY <1>1, <1>3, <2>1, <2>2 DEF HeadsInBuffer, Recycles
  <2>5. InOrder'
    BY <1>1, <1>3, <2>1, <2>2 DEF InOrder
  <2> QED BY <2>3, <2>4, <2>5 DEF IInv
<1> QED BY <1>2, <1>3

\* A step that changes nothing of the pipe.
LEMMA StutterIInv == IInv /\ UNCHANGED vars => IInv'
BY DEF IInv, vars, pipe, TypeOK, HeadsInBuffer, Recycles, InOrder

LEMMA NextIInv == IInv /\ [Next]_vars => IInv'
BY WriteIInv, ReadIInv, CloseIInv, StutterIInv DEF Next

\* The invariants of a pipe of any size: the heads stay in order and in the
\* buffer, an empty pipe has all of its space, and the bytes come in order.
THEOREM PipeInvariant == Spec => [](TypeOK /\ HeadsInBuffer /\ Recycles /\ InOrder)
<1>1. Spec => []IInv
  BY InitIInv, NextIInv, PTL DEF Spec
<1> QED BY <1>1, PTL DEF IInv

\* A pipe of any size that was read to its end has all of its space again: a
\* writer that is always ahead is the only way to fill it for good.
THEOREM PipeRecycles == Spec => []Recycles
BY PipeInvariant, PTL
-----------------------------------------------------------------------------
\* Every step of the pipe is a step of the stream, or does not show in it.
LEMMA StepIsStreamStep == IInv /\ [Next]_vars => [Stream!Next]_(Stream!vars)
<1> SUFFICES ASSUME IInv, [Next]_vars PROVE [Stream!Next]_(Stream!vars)
  OBVIOUS
<1> DEFINE fifo == [k \in 1 .. writeHead - readHead |-> buf[readHead + k - 1]]
<1> DEFINE ends == (IF writeOpen THEN {"write"} ELSE {}) \cup (IF readOpen THEN {"read"} ELSE {})
<1>0. TypeOK /\ HeadsInBuffer /\ Recycles /\ InOrder
  BY DEF IInv
<1>l. Len(fifo) = writeHead - readHead
  BY <1>0 DEF TypeOK, HeadsInBuffer
<1>1. ASSUME NEW n \in 1 .. BufSize + 1, Write(n) PROVE Stream!Next
  <2>1. PICK count \in 1 .. Space :
          /\ count = Least(n, Space) /\ Space \in 1 .. BufSize
          /\ ~Freed /\ bufSize = BufSize /\ Space = bufSize - writeHead
    BY <1>0, <1>1, WriteCount DEF Write
  <2>2. /\ writeHead' = writeHead + count /\ sent' = sent + count
        /\ buf' = [c \in Cell |-> IF writeHead <= c /\ c < writeHead + count
                                    THEN sent + 1 + c - writeHead ELSE buf[c]]
        /\ UNCHANGED <<bufSize, readHead, writeOpen, readOpen, got>>
    BY <1>1, <2>1 DEF Write
  <2>3. fifo' = [k \in 1 .. Len(fifo) + count |->
                   IF k <= Len(fifo) THEN fifo[k] ELSE sent + k - Len(fifo)]
    BY <1>0, <1>l, <2>1, <2>2 DEF TypeOK, HeadsInBuffer
  <2>4. ends # {} /\ ends' = ends
    BY <2>1, <2>2 DEF TypeOK
  <2>5. count \in 1 .. BufSize
    BY <2>1
  <2>7. Len(fifo) + count <= BufSize
    BY <1>0, <1>l, <2>1 DEF TypeOK, HeadsInBuffer
  <2>6. Stream!Send(count)
    BY <2>2, <2>3, <2>4, <2>7 DEF Stream!Send
  <2> QED BY <2>5, <2>6 DEF Stream!Next
<1>2. ASSUME NEW n \in 1 .. BufSize + 1, Read(n) PROVE Stream!Next
  <2>1. PICK count \in 1 .. Available :
          /\ count = Least(n, Available) /\ Available \in 1 .. BufSize
          /\ Available = writeHead - readHead
    BY <1>0, <1>2, ReadCount DEF Read
  <2>2. /\ got' = [k \in 1 .. Len(got) + count |->
                     IF k <= Len(got) THEN got[k] ELSE buf[readHead + k - Len(got) - 1]]
        /\ readHead' = IF readHead + count = writeHead THEN 0 ELSE readHead + count
        /\ writeHead' = IF readHead + count = writeHead THEN 0 ELSE writeHead
        /\ UNCHANGED <<buf, bufSize, writeOpen, readOpen, sent>>
    BY <1>2, <2>1 DEF Read
  <2>3. fifo' = [k \in 1 .. Len(fifo) - count |-> fifo[k + count]]
    BY <1>0, <1>l, <2>1, <2>2 DEF TypeOK, HeadsInBuffer
  <2>g. Len(got) \in Nat
    BY <1>0 DEF TypeOK
  <2>4. got' = [k \in 1 .. Len(got) + count |->
                  IF k <= Len(got) THEN got[k] ELSE fifo[k - Len(got)]]
    <3>1. ASSUME NEW k \in 1 .. Len(got) + count, k > Len(got)
          PROVE  buf[readHead + k - Len(got) - 1] = fifo[k - Len(got)]
      <4>1. k - Len(got) \in 1 .. writeHead - readHead
        BY <2>1, <2>g, <3>1
      <4>2. readHead + (k - Len(got)) - 1 = readHead + k - Len(got) - 1
        BY <1>0, <2>g, <3>1 DEF TypeOK
      <4> QED BY <4>1, <4>2
    <3> HIDE DEF fifo
    <3>2. \A k \in 1 .. Len(got) + count : ~(k <= Len(got)) => k > Len(got)
      BY <2>g, <2>1
    <3> QED BY <2>2, <3>1, <3>2
  <2>5. count \in 1 .. BufSize
    BY <2>1
  <2>7. count <= Len(fifo) /\ ends' = ends
    BY <1>l, <2>1, <2>2
  <2>6. Stream!Receive(count)
    BY <2>2, <2>3, <2>4, <2>7 DEF Stream!Receive
  <2> QED BY <2>5, <2>6 DEF Stream!Next
<1>3. ASSUME NEW side \in {"read", "write"}, Close(side) PROVE Stream!Next
  <2>1. ends' = ends \ {side}
    BY <1>0, <1>3 DEF Close, TypeOK
  <2>2. Freed' <=> ends' = {}
    BY <1>0, <1>3 DEF Close, TypeOK
  <2>3. fifo' = IF ends' = {} THEN <<>> ELSE fifo
    <3>1. CASE Freed'
      BY <3>1, <2>2, <1>3 DEF Close
    <3>2. CASE ~Freed'
      BY <3>2, <2>2, <1>3 DEF Close
    <3> QED BY <3>1, <3>2
  <2>4. sent' = sent /\ got' = got
    BY <1>3 DEF Close
  <2>5. Stream!Close(side)
    BY <2>1, <2>3, <2>4 DEF Stream!Close
  <2> QED BY <2>5 DEF Stream!Next
<1>4. ASSUME UNCHANGED vars PROVE UNCHANGED Stream!vars
  BY <1>4 DEF vars, pipe, Stream!vars
<1> QED BY <1>1, <1>2, <1>3, <1>4 DEF Next

\* A pipe, of any size, is a stream of bytes that loses, repeats and reorders
\* nothing before both of its ends are closed.
THEOREM PipeIsStream == Spec => ImplementsStream
<1>1. Init => Stream!Init
  BY DEF Init, Stream!Init
<1>2. Spec => []IInv
  BY InitIInv, NextIInv, PTL DEF Spec
<1> QED BY <1>1, <1>2, StepIsStreamStep, PTL DEF Spec, ImplementsStream, Stream!Spec
=============================================================================
