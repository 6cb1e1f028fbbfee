------------------------------ MODULE NamedPipe ------------------------------
(***************************************************************************)
(* The overlapped named pipes of the agent (agent/NamedPipe.cc).  The      *)
(* owner of a pipe appends to an unbounded output queue; an OutputWorker   *)
(* takes at most kIoSize from it, hands it to WriteFile, and waits for     *)
(* that one write before the next.  An InputWorker keeps a read pending    *)
(* and appends what arrives to an input queue.                             *)
(*                                                                         *)
(* What was written to a pipe is kept as a whole, in `stream', and the     *)
(* places it has reached are positions in it:                              *)
(*                                                                         *)
(*     1 .. got .. wired .. Len(stream)                                    *)
(*                                                                         *)
(* The peer has read up to got, the kernel was handed everything up to     *)
(* wired (its last `pending' items by a WriteFile that has not completed), *)
(* and the rest is m_outQueue.                                             *)
(***************************************************************************)
EXTENDS Naturals, Sequences

CONSTANTS
  OutPipes,   \* the pipes opened for writing
  InPipes,    \* the pipes opened for reading
  IoSize,     \* kIoSize: the most one WriteFile is given
  Quota       \* what the kernel buffers before a write is left pending

ASSUME PipeAssumption == IoSize \in Nat \ {0} /\ Quota \in Nat

Pipes == OutPipes \cup InPipes

VARIABLES
  agentEnd,   \* the agent's handle: being connected, connected or closed
  peerEnd,    \* the other side's handle; "eof" once a read found the end
  stream,     \* everything given to NamedPipe::write
  wired,      \* how much of it WriteFile was given
  pending,    \* size of the pending WriteFile, 0 when there is none
  got,        \* how much of it the peer has read
  inWire,     \* what the peer wrote and the agent has not read
  inQueue     \* m_inQueue

pipeVars == <<agentEnd, peerEnd, stream, wired, pending, got, inWire, inQueue>>

Smaller(a, b) == IF a < b THEN a ELSE b
Larger(a, b) == IF a < b THEN b ELSE a

PipeTypeOK ==
  /\ agentEnd \in [Pipes -> {"connecting", "connected", "closed"}]
  /\ peerEnd \in [Pipes -> {"none", "open", "eof", "closed"}]
  /\ wired \in [OutPipes -> Nat]
  /\ pending \in [OutPipes -> Nat]
  /\ got \in [OutPipes -> Nat]

-----------------------------------------------------------------------------
(* Queries                                                                 *)

\* m_outQueue.size(), when s is what has been written.
OutQueueSize(p, s) == Len(s[p]) - wired[p]

\* Mutant of BytesToSend: the write in flight is not counted.
BytesQueuedOnly(p, s) == OutQueueSize(p, s)

\* NamedPipe::bytesToSend: the queue and the write in flight.
BytesToSend(p, s) == OutQueueSize(p, s) + pending[p]

PeerGone(p) == peerEnd[p] = "closed"

\* GetOverlappedResult reports success on the pending write: the kernel has
\* room for what the peer has not read.
WriteAccepted(p) == wired[p] - got[p] <= Quota

-----------------------------------------------------------------------------
(* Operations of the owner                                                 *)

\* NamedPipe::write: what has been written once x is appended to s.  The
\* queue has no limit, and a closed pipe accepts as an open one does.
Written(p, x, s) == [s EXCEPT ![p] = Append(@, x)]

\* closePipe on the pipes of S.  CancelIo withdraws the pending write: what
\* the peer had not read of it is gone.
CloseAll(S) ==
  /\ agentEnd' = [p \in Pipes |-> IF p \in S THEN "closed" ELSE agentEnd[p]]
  /\ wired' = [p \in OutPipes |->
                 IF p \in S THEN Larger(got[p], wired[p] - pending[p])
                            ELSE wired[p]]
  /\ pending' = [p \in OutPipes |-> IF p \in S THEN 0 ELSE pending[p]]

\* serviceIo finds the ConnectNamedPipe call completed.
FinishConnect(p) ==
  /\ agentEnd[p] = "connecting"
  /\ peerEnd[p] # "none"
  /\ agentEnd' = [agentEnd EXCEPT ![p] = "connected"]
  /\ UNCHANGED <<peerEnd, stream, wired, pending, got, inWire, inQueue>>

\* InputWorker: all that has arrived moves to m_inQueue.
ReadArrived(p) ==
  /\ inQueue' = [inQueue EXCEPT ![p] = @ \o inWire[p]]
  /\ inWire' = [inWire EXCEPT ![p] = <<>>]

\* Mutant of ServiceRead: a broken pipe is closed before its data is read.
ServiceReadLosingLast(p) ==
  /\ IF PeerGone(p) THEN CloseAll({p}) /\ UNCHANGED <<inWire, inQueue>>
                    ELSE ReadArrived(p) /\ UNCHANGED <<agentEnd, wired, pending>>
  /\ UNCHANGED <<peerEnd, stream, got>>

\* The read completes with data, if there is any, and is issued again; it
\* fails once the peer is gone, and serviceIo closes the pipe.
ServiceRead(p) ==
  /\ ReadArrived(p)
  /\ IF PeerGone(p) THEN CloseAll({p})
                    ELSE UNCHANGED <<agentEnd, wired, pending>>
  /\ UNCHANGED <<peerEnd, stream, got>>

\* OutputWorker: the pending write has completed.
CompleteWrite(p) ==
  /\ pending[p] > 0
  /\ ~PeerGone(p)
  /\ WriteAccepted(p)
  /\ pending' = [pending EXCEPT ![p] = 0]
  /\ UNCHANGED <<agentEnd, peerEnd, stream, wired, got, inWire, inQueue>>

\* OutputWorker: the head of m_outQueue is given to WriteFile, which either
\* completes at once or is left pending.
IssueWrite(p) ==
  LET size == Smaller(OutQueueSize(p, stream), IoSize)
  IN  /\ pending[p] = 0
      /\ size > 0
      /\ ~PeerGone(p)
      /\ wired' = [wired EXCEPT ![p] = @ + size]
      /\ pending' = [pending EXCEPT ![p] =
                       IF wired[p] + size - got[p] <= Quota THEN 0 ELSE size]
      /\ UNCHANGED <<agentEnd, peerEnd, stream, got, inWire, inQueue>>

\* A completed or a new write finds that the peer is gone: serviceIo closes
\* the pipe.  An idle pipe does not notice.
FailWrite(p) ==
  /\ PeerGone(p)
  /\ BytesToSend(p, stream) > 0
  /\ CloseAll({p})
  /\ UNCHANGED <<peerEnd, stream, got, inWire, inQueue>>

-----------------------------------------------------------------------------
(* What the other side can do: the pipe's client, and the kernel.          *)

\* CreateFile on the pipe's name: there must be a server waiting.
PeerConnect(p) ==
  /\ peerEnd[p] = "none"
  /\ agentEnd[p] = "connecting"
  /\ peerEnd' = [peerEnd EXCEPT ![p] = "open"]
  /\ UNCHANGED <<agentEnd, stream, wired, pending, got, inWire, inQueue>>

PeerRead(p) ==
  /\ peerEnd[p] = "open"
  /\ \E n \in (got[p] + 1)..wired[p] : got' = [got EXCEPT ![p] = n]
  /\ UNCHANGED <<agentEnd, peerEnd, stream, wired, pending, inWire, inQueue>>

\* A read returns end of file: the agent's end is closed and nothing is left.
PeerReadEof(p) ==
  /\ peerEnd[p] = "open"
  /\ agentEnd[p] = "closed"
  /\ got[p] = wired[p]
  /\ peerEnd' = [peerEnd EXCEPT ![p] = "eof"]
  /\ UNCHANGED <<agentEnd, stream, wired, pending, got, inWire, inQueue>>

PeerClose(p) ==
  /\ peerEnd[p] = "open"
  /\ peerEnd' = [peerEnd EXCEPT ![p] = "closed"]
  /\ UNCHANGED <<agentEnd, stream, wired, pending, got, inWire, inQueue>>

=============================================================================
