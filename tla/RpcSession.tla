------------------------------ MODULE RpcSession ------------------------------
(***************************************************************************)
(* What the RPC calls of a winpty_t promise the threads that make them:    *)
(* each takes effect at most once, between its invocation and its return,  *)
(* a call that succeeds did take effect, and the first call that fails is  *)
(* the last that can take effect at all, though it may do so late.         *)
(***************************************************************************)
EXTENDS Naturals, Sequences

CONSTANT Threads

VARIABLES
  calls,   \* how many calls have been made
  call,    \* the call each thread waits in, 0 for none
  effects, \* the calls that have taken effect, in the order they did
  late,    \* the failed call that may still take effect
  closed,  \* no further call takes effect
  ok       \* the threads whose last call succeeded

vars == <<calls, call, effects, late, closed, ok>>

Init ==
  /\ calls = 0
  /\ call = [t \in Threads |-> 0]
  /\ effects = <<>> /\ late = {}
  /\ closed = FALSE
  /\ ok = {}

HasEffect(c) == \E i \in 1..Len(effects) : effects[i] = c

Invoke(t) ==
  /\ call[t] = 0
  /\ calls' = calls + 1
  /\ call' = [call EXCEPT ![t] = calls + 1]
  /\ ok' = ok \ {t}
  /\ UNCHANGED <<effects, late, closed>>

TakeEffect(c) ==
  /\ ~HasEffect(c)
  /\ \/ ~closed /\ \E t \in Threads : call[t] = c
     \/ c \in late
  /\ effects' = Append(effects, c)
  /\ late' = late \ {c}
  /\ UNCHANGED <<calls, call, closed, ok>>

Succeed(t) ==
  /\ call[t] # 0 /\ HasEffect(call[t])
  /\ call' = [call EXCEPT ![t] = 0]
  /\ ok' = ok \cup {t}
  /\ UNCHANGED <<calls, effects, late, closed>>

\* A call that fails ends the session and may leave its effect behind.
Fail(t) ==
  /\ call[t] # 0
  /\ call' = [call EXCEPT ![t] = 0]
  /\ closed' = TRUE
  /\ IF closed THEN UNCHANGED late
               ELSE late' \in {{}, {c \in {call[t]} : ~HasEffect(c)}}
  /\ ok' = ok \ {t}
  /\ UNCHANGED <<calls, effects>>

Close ==
  /\ \A t \in Threads : call[t] = 0
  /\ closed' = TRUE
  /\ UNCHANGED <<calls, call, effects, late, ok>>

Next ==
  \/ \E t \in Threads : Invoke(t) \/ Succeed(t) \/ Fail(t)
  \/ \E c \in 1..calls : TakeEffect(c)
  \/ Close

Spec == Init /\ [][Next]_vars

=============================================================================
