------------------------------ MODULE LibWinpty -------------------------------
(***************************************************************************)
(* The RPC calls of libwinpty (libwinpty/winpty.cc) on one winpty_t that   *)
(* several threads share: the mutex, the request written to the control    *)
(* pipe, the reply read from it piece by piece, the time limit and the     *)
(* agent's death, and RpcOperation, which closes the pipe unless the call  *)
(* declared success.                                                       *)
(*                                                                         *)
(* The agent is its end of the control pipe: it handles requests in order, *)
(* may take any time, and may die at any moment.  (Module Agent has the    *)
(* rest of it.)                                                            *)
(***************************************************************************)
EXTENDS Naturals, Sequences

CONSTANTS
  Threads,    \* the client's threads that use the winpty_t
  Kinds,      \* the calls they make
  MaxCalls    \* bound: calls made

ASSUME LibAssumption ==
  /\ Kinds \subseteq {"spawn", "setSize", "processList"}
  /\ MaxCalls \in Nat
  /\ Threads # {} /\ 0 \notin Threads

Nobody == 0

VARIABLES
  mutex,        \* the thread that holds winpty_t::mutex, or Nobody
  controlPipe,  \* winpty_t::controlPipe is not null
  pc,           \* what each thread is doing
  call,         \* the call each thread makes: its number and kind
  reply,        \* the part of a reply packet the caller has read
  result,       \* how each thread's last call ended
  requests,     \* requests in the pipe
  outbox,       \* the agent's queue of reply pieces
  replies,      \* reply pieces in the pipe
  agent,        \* "running" or "dead"
  effects,      \* the calls the agent has handled, in order
  freed,        \* winpty_free was called
  calls, spawned   \* counts: calls made, and whether one was a spawn

threadVars == <<pc, call, reply, result>>
agentVars == <<outbox, agent, effects>>
wireVars == <<requests, replies>>
countVars == <<calls, spawned>>
vars == <<mutex, controlPipe, freed, threadVars, agentVars, wireVars, countVars>>

Call == [id : Nat, kind : {"none", "spawn", "setSize", "processList"}]
NoCall == [id |-> 0, kind |-> "none"]

\* A reply packet arrives in two pieces, which name the call they answer.
Answers == {"done", "createProcessFailed", "fits", "tooLong"}
Piece == [id : Nat, answer : Answers, last : BOOLEAN]
Packet(c, a) == << [id |-> c, answer |-> a, last |-> FALSE],
                   [id |-> c, answer |-> a, last |-> TRUE] >>

IoErrors == {"timeout", "agentDied", "lostConnection"}
Outcomes == {"none", "ok", "createProcessFailed", "badPacket", "noHandle", "shutdown"}
              \cup IoErrors

-----------------------------------------------------------------------------
(* A call                                                                  *)

\* The documented contract: winpty_spawn is called once.
Invoke(t, k) ==
  /\ pc[t] = "idle" /\ ~freed /\ calls < MaxCalls
  /\ k = "spawn" => ~spawned
  /\ calls' = calls + 1
  /\ spawned' = (spawned \/ k = "spawn")
  /\ pc' = [pc EXCEPT ![t] = "locking"]
  /\ call' = [call EXCEPT ![t] = [id |-> calls + 1, kind |-> k]]
  /\ result' = [result EXCEPT ![t] = "none"]
  /\ UNCHANGED <<mutex, controlPipe, freed, reply, agentVars, wireVars>>

\* The call returns and LockGuard's destructor runs.
Return(t, outcome) ==
  /\ pc' = [pc EXCEPT ![t] = "idle"]
  /\ call' = [call EXCEPT ![t] = NoCall]
  /\ reply' = [reply EXCEPT ![t] = <<>>]
  /\ result' = [result EXCEPT ![t] = outcome]
  /\ mutex' = Nobody

\* Mutant of Fail: the exception leaves the control pipe as it is.
FailKeepingPipe(t, outcome) == Return(t, outcome) /\ UNCHANGED controlPipe

\* An exception: ~RpcOperation finds no success() and closes the control pipe.
Fail(t, outcome) == Return(t, outcome) /\ controlPipe' = FALSE

\* Mutant of Lock: RpcOperation does not look at the control pipe.
LockBlindly(t) ==
  /\ pc[t] = "locking" /\ mutex = Nobody
  /\ mutex' = t
  /\ pc' = [pc EXCEPT ![t] = "writing"]
  /\ UNCHANGED <<controlPipe, call, reply, result, agentVars, wireVars, countVars>>

\* LockGuard, and RpcOperation's constructor.
Lock(t) ==
  /\ pc[t] = "locking" /\ mutex = Nobody
  /\ IF controlPipe
     THEN /\ mutex' = t
          /\ pc' = [pc EXCEPT ![t] = "writing"]
          /\ UNCHANGED <<controlPipe, call, reply, result>>
     ELSE Return(t, "shutdown") /\ UNCHANGED controlPipe
  /\ UNCHANGED <<agentVars, wireVars, countVars>>

\* writePacket, when the agent takes the request.
WritePacket(t) ==
  /\ pc[t] = "writing" /\ agent = "running"
  /\ requests' = Append(requests, call[t])
  /\ pc' = [pc EXCEPT ![t] = "reading"]
  /\ UNCHANGED <<mutex, controlPipe, call, reply, result, agentVars, replies, countVars>>

\* handlePendingIo runs out of time in a write: it is cancelled, unless the
\* agent has taken it after all.
WriteTimeout(t) ==
  /\ pc[t] = "writing" /\ agent = "running"
  /\ requests' \in {requests, Append(requests, call[t])}
  /\ Fail(t, "timeout")
  /\ UNCHANGED <<agentVars, replies, countVars>>

\* Mutant of ReadPiece: the packet is taken to end with its first piece.
ReadHeaderOnly(t) ==
  /\ pc[t] = "reading" /\ replies # <<>>
  /\ reply' = [reply EXCEPT ![t] = Append(@, Head(replies))]
  /\ replies' = Tail(replies)
  /\ pc' = [pc EXCEPT ![t] = "decoding"]
  /\ UNCHANGED <<mutex, controlPipe, call, result, agentVars, requests, countVars>>

\* readAll takes what the pipe has, up to the end of the packet.
ReadPiece(t) ==
  /\ pc[t] = "reading" /\ replies # <<>>
  /\ reply' = [reply EXCEPT ![t] = Append(@, Head(replies))]
  /\ replies' = Tail(replies)
  /\ pc' = [pc EXCEPT ![t] = IF Head(replies).last THEN "decoding" ELSE @]
  /\ UNCHANGED <<mutex, controlPipe, call, result, agentVars, requests, countVars>>

\* Mutant of ReadTimeout: the caller waits for as long as the agent lives.
ReadForever(t) == FALSE

\* handlePendingIo runs out of time in a read.  The cancelled read may have
\* taken a piece that arrived late.
ReadTimeout(t) ==
  /\ pc[t] = "reading"
  /\ replies' \in {replies, IF replies = <<>> THEN <<>> ELSE Tail(replies)}
  /\ Fail(t, "timeout")
  /\ UNCHANGED <<agentVars, requests, countVars>>

\* The agent is gone: a write fails, and so does a read once nothing is left.
LoseAgent(t) ==
  /\ pc[t] = "writing" \/ (pc[t] = "reading" /\ replies = <<>>)
  /\ agent = "dead"
  /\ \E error \in {"agentDied", "lostConnection"} : Fail(t, error)
  /\ UNCHANGED <<agentVars, wireVars, countVars>>

\* What the caller makes of the whole packet.
Answer(t) == reply[t][Len(reply[t])].answer

\* Mutant of Succeed: CreateProcess's error is thrown before rpc.success().
SucceedUnlessRefused(t) ==
  /\ pc[t] = "decoding"
  /\ \/ Answer(t) \in {"done", "fits"} /\ Return(t, "ok") /\ UNCHANGED controlPipe
     \/ Answer(t) = "createProcessFailed" /\ Fail(t, "createProcessFailed")
  /\ UNCHANGED <<agentVars, wireVars, countVars>>

\* The packet is as expected: rpc.success(), also when CreateProcess failed.
Succeed(t) ==
  /\ pc[t] = "decoding"
  /\ \/ Answer(t) \in {"done", "fits"} /\ Return(t, "ok")
     \/ Answer(t) = "createProcessFailed" /\ Return(t, "createProcessFailed")
  /\ UNCHANGED <<controlPipe, agentVars, wireVars, countVars>>

\* stealHandle cannot duplicate the child's handles out of a dead agent.
StealNothing(t) ==
  /\ pc[t] = "decoding" /\ call[t].kind = "spawn"
  /\ Answer(t) = "done" /\ agent = "dead"
  /\ Fail(t, "noHandle")
  /\ UNCHANGED <<agentVars, wireVars, countVars>>

\* A list longer than the caller's buffer is not read, and assertEof throws.
RejectList(t) ==
  /\ pc[t] = "decoding" /\ Answer(t) = "tooLong"
  /\ Fail(t, "badPacket")
  /\ UNCHANGED <<agentVars, wireVars, countVars>>

\* winpty_free, which nobody may call while another thread uses the winpty_t.
Free ==
  /\ \A t \in Threads : pc[t] = "idle"
  /\ ~freed /\ freed' = TRUE
  /\ controlPipe' = FALSE
  /\ UNCHANGED <<mutex, threadVars, agentVars, wireVars, countVars>>

Step(t) ==
  /\ \/ Lock(t) \/ WritePacket(t) \/ WriteTimeout(t)
     \/ ReadPiece(t) \/ ReadTimeout(t) \/ LoseAgent(t)
     \/ Succeed(t) \/ StealNothing(t) \/ RejectList(t)
  /\ UNCHANGED freed

-----------------------------------------------------------------------------
(* The agent                                                               *)

AnswersTo(k) ==
  CASE k = "spawn" -> {"done", "createProcessFailed"}
    [] k = "processList" -> {"fits", "tooLong"}
    [] OTHER -> {"done"}

\* Agent::handlePacket and its reply.
HandlePacket ==
  /\ agent = "running" /\ requests # <<>>
  /\ requests' = Tail(requests)
  /\ effects' = Append(effects, Head(requests).id)
  /\ \E a \in AnswersTo(Head(requests).kind) :
       outbox' = outbox \o Packet(Head(requests).id, a)
  /\ UNCHANGED <<mutex, controlPipe, freed, threadVars, replies, agent, countVars>>

\* The agent's OutputWorker.
SendPiece ==
  /\ agent = "running" /\ controlPipe /\ outbox # <<>>
  /\ replies' = Append(replies, Head(outbox))
  /\ outbox' = Tail(outbox)
  /\ UNCHANGED <<mutex, controlPipe, freed, threadVars, requests, agent, effects,
                 countVars>>

\* It finds the control pipe closed and exits, or it crashes.
AgentExits ==
  /\ agent = "running"
  /\ agent' = "dead"
  /\ UNCHANGED <<mutex, controlPipe, freed, threadVars, wireVars, outbox, effects,
                 countVars>>

-----------------------------------------------------------------------------
(* Specification                                                           *)

Init ==
  /\ mutex = Nobody /\ controlPipe = TRUE
  /\ pc = [t \in Threads |-> "idle"]
  /\ call = [t \in Threads |-> NoCall]
  /\ reply = [t \in Threads |-> <<>>]
  /\ result = [t \in Threads |-> "none"]
  /\ requests = <<>> /\ outbox = <<>> /\ replies = <<>>
  /\ agent = "running" /\ effects = <<>>
  /\ freed = FALSE /\ calls = 0 /\ spawned = FALSE

Next ==
  \/ \E t \in Threads : Step(t) \/ \E k \in Kinds : Invoke(t, k)
  \/ Free
  \/ HandlePacket \/ SendPiece \/ AgentExits

Spec == Init /\ [][Next]_vars

\* Threads are scheduled and waits end in time, whatever the agent does.
FairSpec == Spec /\ \A t \in Threads : WF_vars(Step(t))

-----------------------------------------------------------------------------
(* Properties                                                              *)

TypeOK ==
  /\ mutex \in Threads \cup {Nobody}
  /\ controlPipe \in BOOLEAN /\ freed \in BOOLEAN /\ spawned \in BOOLEAN
  /\ pc \in [Threads -> {"idle", "locking", "writing", "reading", "decoding"}]
  /\ call \in [Threads -> Call]
  /\ reply \in [Threads -> Seq(Piece)]
  /\ result \in [Threads -> Outcomes]
  /\ requests \in Seq(Call)
  /\ outbox \in Seq(Piece) /\ replies \in Seq(Piece)
  /\ agent \in {"running", "dead"}
  /\ effects \in Seq(Nat) /\ calls \in Nat

\* A caller never reads a piece of another call's reply, however late that
\* reply came: a time-out "could leave the control pipe in an inconsistent
\* state", so nobody uses it again.
AnswersOwnCall ==
  \A t \in Threads : \A i \in 1..Len(reply[t]) : reply[t][i].id = call[t].id

\* A thread that is about to write finds nothing of an earlier call in either
\* direction of the pipe, nor in the agent's queue.
PipeCleanBeforeCall ==
  controlPipe /\ (\A t \in Threads : pc[t] \in {"idle", "locking", "writing"}) =>
    requests = <<>> /\ outbox = <<>> /\ replies = <<>>

\* The session ends because the client freed it, the communication failed, or the
\* caller's buffer does not hold a process list: a call that is refused or that
\* the agent answers leaves it open.
ClosedOnlyForCause ==
  [][controlPipe /\ ~controlPipe' =>
       \/ freed'
       \/ \E t \in Threads : /\ pc[t] # "idle"
                            /\ \/ result'[t] \in IoErrors \cup {"noHandle"}
                               \/ call[t].kind = "processList" /\ result'[t] = "badPacket"]_vars

\* Every call returns, also when the agent hangs, and lets others in.
CallsReturn == \A t \in Threads : pc[t] # "idle" ~> pc[t] = "idle"

\* Refinement of RpcSession: a request that is still in the pipe when it is
\* closed may yet be handled.
Pending == [t \in Threads |-> call[t].id]
LateEffects == IF controlPipe THEN {} ELSE {requests[i].id : i \in 1..Len(requests)}
Succeeded == {t \in Threads : result[t] \in {"ok", "createProcessFailed"}}
Session == INSTANCE RpcSession WITH
  call <- Pending, late <- LateEffects, closed <- ~controlPipe, ok <- Succeeded

\* The calls are atomic, take effect at most once, and end with the first
\* that fails.
ImplementsSession == Session!Spec

-----------------------------------------------------------------------------
(* The inductive invariant from which they are proved                      *)

\* The mutex is held by the thread that uses the pipe, and an open pipe only.
MutexHeld ==
  /\ \A t \in Threads : pc[t] \in {"writing", "reading", "decoding"} <=> mutex = t
  /\ mutex # Nobody => controlPipe

HasEffect(c) == \E i \in 1..Len(effects) : effects[i] = c

\* Calls are numbered apart, and none has an effect before it is made.
CallsNumbered ==
  /\ \A t \in Threads : /\ call[t].id <= calls
                        /\ call[t].id = 0 <=> pc[t] = "idle"
                        /\ \A u \in Threads : call[u].id = call[t].id =>
                              u = t \/ call[t].id = 0
  /\ \A i \in 1..Len(effects) : 0 < effects[i] /\ effects[i] <= calls
  /\ \A i \in 1..Len(requests) : 0 < requests[i].id /\ requests[i].id <= calls

\* No piece has been read yet, except by a thread that is reading.
NothingRead == \A t \in Threads : pc[t] \in {"idle", "locking", "writing"} => reply[t] = <<>>

\* Calls that have not written their request have no effect.
Unwritten ==
  controlPipe => \A t \in Threads : pc[t] \in {"locking", "writing"} => ~HasEffect(call[t].id)

NothingInFlight == requests = <<>> /\ outbox = <<>> /\ replies = <<>>

\* Where the packet with the call's answer a is while t is reading it.
ReplyOnTheWay(t, a) ==
  LET one == Packet(call[t].id, a)[1]
      two == Packet(call[t].id, a)[2]
  IN  <<reply[t], replies, outbox>> \in
        { << <<>>, <<>>, <<one, two>> >>, << <<>>, <<one>>, <<two>> >>,
          << <<>>, <<one, two>>, <<>> >>, << <<one>>, <<>>, <<two>> >>,
          << <<one>>, <<two>>, <<>> >> }

\* What is in the pipe belongs to the call that holds the mutex.
InFlight ==
  /\ controlPipe /\ mutex = Nobody => NothingInFlight
  /\ \A t \in Threads :
       /\ pc[t] = "writing" => NothingInFlight
       /\ pc[t] = "reading" =>
            \/ /\ requests = <<call[t]>> /\ ~HasEffect(call[t].id)
               /\ reply[t] = <<>> /\ replies = <<>> /\ outbox = <<>>
            \/ /\ requests = <<>> /\ HasEffect(call[t].id)
               /\ \E a \in Answers : ReplyOnTheWay(t, a)
       /\ pc[t] = "decoding" =>
            /\ NothingInFlight /\ HasEffect(call[t].id)
            /\ \E a \in Answers : reply[t] = Packet(call[t].id, a)
  /\ ~controlPipe =>
       requests = <<>> \/ (Len(requests) = 1 /\ ~HasEffect(requests[1].id))

IInv ==
  /\ TypeOK /\ MutexHeld /\ CallsNumbered /\ NothingRead /\ Unwritten /\ InFlight

=============================================================================
