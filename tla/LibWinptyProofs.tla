--------------------------- MODULE LibWinptyProofs ----------------------------
(***************************************************************************)
(* Proofs about LibWinpty, for any threads and any number of calls.        *)
(***************************************************************************)
EXTENDS LibWinpty, SequenceTheorems, TLAPS

\* What a thread that holds the mutex leaves behind when its call ends.
LEMMA ReturnStep ==
  ASSUME IInv, NEW t \in Threads, pc[t] \in {"locking", "writing", "reading", "decoding"},
         mutex \in {t, Nobody}, NEW o \in Outcomes, Return(t, o),
         controlPipe' \in BOOLEAN, UNCHANGED <<freed, effects, agent, countVars>>,
         requests' \in Seq(Call), outbox' \in Seq(Piece), replies' \in Seq(Piece),
         controlPipe' => controlPipe /\ NothingInFlight',
         ~controlPipe' => \/ requests' = <<>>
                          \/ /\ Len(requests') = 1
                             /\ ~HasEffect(requests'[1].id)
                             /\ 0 < requests'[1].id /\ requests'[1].id <= calls
  PROVE  IInv'
<1> USE LibAssumption DEF IInv
<1>1. TypeOK'
  <2>1. NoCall \in Call /\ <<>> \in Seq(Piece)
    BY DEF NoCall, Call
  <2> QED
    BY <2>1 DEF Return, TypeOK, countVars
<1>2. MutexHeld'
  BY DEF MutexHeld, Return, TypeOK, Nobody
<1>3. CallsNumbered'
  <2>1. \A u \in Threads : /\ call'[u].id = (IF u = t THEN 0 ELSE call[u].id)
                           /\ pc'[u] = (IF u = t THEN "idle" ELSE pc[u])
    BY DEF Return, TypeOK, NoCall
  <2>2. UNCHANGED <<calls, effects>> /\ calls \in Nat
    BY DEF countVars, TypeOK
  <2>3. \A i \in 1..Len(requests') : 0 < requests'[i].id /\ requests'[i].id <= calls
    BY DEF NothingInFlight
  <2>4. \A u \in Threads : call'[u].id <= calls /\ (call'[u].id = 0 <=> pc'[u] = "idle")
    BY <2>1, <2>2 DEF CallsNumbered
  <2>5. \A u, v \in Threads : call'[v].id = call'[u].id => v = u \/ call'[u].id = 0
    BY <2>1 DEF CallsNumbered
  <2> QED
    BY <2>2, <2>3, <2>4, <2>5 DEF CallsNumbered
<1>4. NothingRead' /\ Unwritten'
  BY DEF NothingRead, Unwritten, HasEffect, Return, TypeOK
<1>5. InFlight'
  <2>1. \A u \in Threads : pc'[u] \in {"idle", "locking"}
    BY DEF MutexHeld, Return, TypeOK, Nobody
  <2> QED
    BY <2>1 DEF InFlight, HasEffect
<1> QED
  BY <1>1, <1>2, <1>3, <1>4, <1>5

\* Every way a call can end.
LEMMA EndStep ==
  ASSUME IInv, NEW t \in Threads, UNCHANGED freed,
         \/ Lock(t) /\ ~controlPipe
         \/ WriteTimeout(t) \/ ReadTimeout(t) \/ LoseAgent(t)
         \/ Succeed(t) \/ StealNothing(t) \/ RejectList(t)
  PROVE  IInv'
<1> USE DEF IInv
<1>1. /\ requests \in Seq(Call) /\ outbox \in Seq(Piece) /\ replies \in Seq(Piece)
      /\ controlPipe \in BOOLEAN /\ call[t] \in Call
  BY DEF TypeOK
<1>2. ASSUME requests = <<>>, call[t].id # 0, ~HasEffect(call[t].id)
      PROVE  /\ Append(requests, call[t]) \in Seq(Call)
             /\ Len(Append(requests, call[t])) = 1
             /\ Append(requests, call[t])[1] = call[t]
             /\ 0 < call[t].id /\ call[t].id <= calls
  BY <1>1, <1>2 DEF CallsNumbered, Call
<1>3. CASE Lock(t) /\ ~controlPipe
  <2>1. /\ mutex = Nobody /\ pc[t] = "locking" /\ Return(t, "shutdown")
        /\ UNCHANGED <<controlPipe, freed, effects, agent, countVars, requests, outbox, replies>>
    BY <1>3 DEF Lock, agentVars, wireVars
  <2>2. requests = <<>> \/ (Len(requests) = 1 /\ ~HasEffect(requests[1].id)
                            /\ 0 < requests[1].id /\ requests[1].id <= calls)
    BY <1>3 DEF InFlight, CallsNumbered
  <2> QED
    BY <1>1, <1>3, <2>1, <2>2, ReturnStep DEF Outcomes
<1>4. CASE WriteTimeout(t)
  <2>1. mutex = t /\ controlPipe
    BY <1>4, LibAssumption DEF WriteTimeout, MutexHeld, Nobody
  <2>2. requests = <<>> /\ ~HasEffect(call[t].id) /\ call[t].id # 0
    BY <1>4, <2>1 DEF WriteTimeout, InFlight, NothingInFlight, Unwritten, CallsNumbered
  <2>3. requests' = <<>> \/ requests' = Append(requests, call[t])
    BY <1>4, <2>2 DEF WriteTimeout
  <2>4. \/ requests' = <<>>
        \/ /\ Len(requests') = 1 /\ ~HasEffect(requests'[1].id)
           /\ 0 < requests'[1].id /\ requests'[1].id <= calls
    BY <1>2, <2>2, <2>3
  <2>5. requests' \in Seq(Call)
    BY <1>1, <1>2, <2>2, <2>3
  <2>6. /\ pc[t] = "writing" /\ Return(t, "timeout") /\ controlPipe' = FALSE
        /\ UNCHANGED <<freed, effects, agent, countVars, outbox, replies>>
    BY <1>4 DEF WriteTimeout, Fail, agentVars
  <2> QED
    BY <1>1, <2>1, <2>4, <2>5, <2>6, ReturnStep DEF Outcomes, IoErrors
<1>5. ASSUME NEW o \in Outcomes, Fail(t, o),
             pc[t] \in {"writing", "reading", "decoding"},
             UNCHANGED <<freed, effects, agent, countVars, requests, outbox>>,
             replies' \in Seq(Piece)
      PROVE  IInv'
  <2>1. mutex = t /\ Return(t, o) /\ controlPipe' = FALSE
    BY <1>5 DEF Fail, MutexHeld
  <2>2. requests = <<>> \/ (requests = <<call[t]>> /\ ~HasEffect(call[t].id))
    BY <1>5 DEF InFlight, NothingInFlight
  <2>3. requests = <<>> \/ (Len(requests) = 1 /\ ~HasEffect(requests[1].id)
                            /\ 0 < requests[1].id /\ requests[1].id <= calls)
    <3>1. CASE requests = <<call[t]>> /\ ~HasEffect(call[t].id)
      <4>1. Len(requests) = 1 /\ requests[1] = call[t]
        BY <3>1
      <4> QED
        BY <3>1, <4>1 DEF CallsNumbered
    <3> QED
      BY <2>2, <3>1
  <2> QED
    BY <1>1, <1>5, <2>1, <2>3, ReturnStep
<1>6. CASE ReadTimeout(t)
  <2>1. CASE replies' = replies
    BY <1>1, <1>5, <1>6, <2>1 DEF ReadTimeout, agentVars, Outcomes, IoErrors
  <2>2. CASE replies # <<>> /\ replies' = Tail(replies)
    <3>1. replies' \in Seq(Piece)
      BY <1>1, <2>2
    <3> QED
      BY <1>5, <1>6, <3>1 DEF ReadTimeout, agentVars, Outcomes, IoErrors
  <2>3. replies' = replies \/ (replies # <<>> /\ replies' = Tail(replies))
    BY <1>6 DEF ReadTimeout
  <2> QED
    BY <2>1, <2>2, <2>3
<1>7. CASE LoseAgent(t)
  BY <1>1, <1>5, <1>7 DEF LoseAgent, agentVars, wireVars, Outcomes, IoErrors
<1>8. CASE StealNothing(t) \/ RejectList(t)
  BY <1>1, <1>5, <1>8 DEF StealNothing, RejectList, agentVars, wireVars, Outcomes
<1>9. CASE Succeed(t)
  <2>1. /\ mutex = t /\ controlPipe /\ NothingInFlight
    BY <1>9, LibAssumption DEF Succeed, MutexHeld, InFlight, Nobody
  <2>2. PICK o \in {"ok", "createProcessFailed"} : Return(t, o)
    BY <1>9 DEF Succeed
  <2>3. /\ pc[t] = "decoding"
        /\ UNCHANGED <<controlPipe, freed, effects, agent, countVars, requests, outbox, replies>>
    BY <1>9 DEF Succeed, agentVars, wireVars
  <2> QED
    BY <1>1, <2>1, <2>2, <2>3, ReturnStep DEF Outcomes, NothingInFlight
<1> QED
  BY <1>3, <1>4, <1>6, <1>7, <1>8, <1>9

\* A packet's pieces.
LEMMA Pieces ==
  ASSUME NEW c \in Nat, NEW a \in Answers
  PROVE  /\ Packet(c, a) = <<Packet(c, a)[1], Packet(c, a)[2]>>
         /\ Packet(c, a)[1] \in Piece /\ ~Packet(c, a)[1].last
         /\ Packet(c, a)[2] \in Piece /\ Packet(c, a)[2].last
         /\ Packet(c, a) \in Seq(Piece) /\ Len(Packet(c, a)) = 2
  BY DEF Packet, Piece

LEMMA TwoPieces ==
  ASSUME NEW x \in Piece, NEW y \in Piece
  PROVE  Append(<<x>>, y) = <<x, y>>
<1>1. <<x>> \in Seq(Piece) /\ <<x, y>> \in Seq(Piece)
  OBVIOUS
<1>2. /\ Append(<<x>>, y) \in Seq(Piece) /\ Len(Append(<<x>>, y)) = 2
      /\ Append(<<x>>, y)[1] = x /\ Append(<<x>>, y)[2] = y
  BY <1>1
<1>3. Len(<<x, y>>) = 2 /\ <<x, y>>[1] = x /\ <<x, y>>[2] = y
  OBVIOUS
<1>4. \A i \in 1..2 : Append(<<x>>, y)[i] = <<x, y>>[i]
  BY <1>2, <1>3
<1> DEFINE s == Append(<<x>>, y)
           p == <<x, y>>
<1>5. s \in Seq(Piece) /\ p \in Seq(Piece) /\ Len(s) = Len(p)
      /\ \A i \in 1..Len(s) : s[i] = p[i]
  BY <1>1, <1>2, <1>3, <1>4
<1> HIDE DEF s, p
<1>6. s = p
  BY <1>5, SeqEqual
<1> QED
  BY <1>6 DEF s, p

\* The five places of the packet that t is reading.
LEMMA Places ==
  ASSUME TypeOK, NEW t \in Threads, NEW a \in Answers, ReplyOnTheWay(t, a)
  PROVE  LET one == Packet(call[t].id, a)[1]
             two == Packet(call[t].id, a)[2]
         IN  \/ reply[t] = <<>> /\ replies = <<>> /\ outbox = <<one, two>>
             \/ reply[t] = <<>> /\ replies = <<one>> /\ outbox = <<two>>
             \/ reply[t] = <<>> /\ replies = <<one, two>> /\ outbox = <<>>
             \/ reply[t] = <<one>> /\ replies = <<>> /\ outbox = <<two>>
             \/ reply[t] = <<one>> /\ replies = <<two>> /\ outbox = <<>>
  BY DEF ReplyOnTheWay

LEMMA InvokeStep ==
  ASSUME IInv, NEW t \in Threads, NEW k \in Kinds, Invoke(t, k)
  PROVE  IInv'
<1> USE LibAssumption DEF IInv, Invoke, agentVars, wireVars
<1>1. TypeOK'
  <2>1. [id |-> calls + 1, kind |-> k] \in Call
    BY DEF TypeOK, Call
  <2> QED
    BY <2>1 DEF TypeOK, Outcomes
<1>2. MutexHeld' /\ NothingRead'
  BY DEF MutexHeld, NothingRead, TypeOK
<1>3. /\ calls \in Nat /\ call[t].id = 0
      /\ \A u \in Threads : /\ call'[u].id = (IF u = t THEN calls + 1 ELSE call[u].id)
                            /\ pc'[u] = (IF u = t THEN "locking" ELSE pc[u])
                            /\ call[u].id \in Nat /\ call[u].id <= calls
  BY DEF TypeOK, CallsNumbered, Call
<1>4. CallsNumbered'
  <2>1. \A i \in 1..Len(effects) : effects[i] \in Nat
    BY DEF TypeOK
  <2>2. \A i \in 1..Len(requests) : requests[i].id \in Nat
    <3>1. requests \in Seq(Call)
      BY DEF TypeOK
    <3>2. \A i \in 1..Len(requests) : requests[i] \in Call
      BY <3>1
    <3> QED
      BY <3>2 DEF Call
  <2> QED
    BY <1>3, <2>1, <2>2 DEF CallsNumbered
<1>5. Unwritten'
  <2>1. ~HasEffect(calls + 1)
    <3>1. \A i \in 1..Len(effects) : effects[i] \in Nat
      BY DEF TypeOK
    <3> QED
      BY <1>3, <3>1 DEF CallsNumbered, HasEffect
  <2> QED
    BY <1>3, <2>1 DEF Unwritten, HasEffect
<1>6. InFlight'
  <2>1. ASSUME NEW u \in Threads, pc'[u] # "idle", pc'[u] # "locking"
        PROVE  u # t /\ pc'[u] = pc[u] /\ call'[u] = call[u] /\ reply'[u] = reply[u]
    BY <1>3, <2>1 DEF TypeOK
  <2> QED
    BY <2>1 DEF InFlight, NothingInFlight, HasEffect, ReplyOnTheWay
<1> QED
  BY <1>1, <1>2, <1>4, <1>5, <1>6

LEMMA LockStep ==
  ASSUME IInv, NEW t \in Threads, Lock(t), controlPipe, UNCHANGED freed
  PROVE  IInv'
<1> USE LibAssumption DEF IInv, Lock, agentVars, wireVars, countVars
<1>1. TypeOK' /\ MutexHeld'
  BY DEF TypeOK, MutexHeld, Nobody
<1>3. \A u \in Threads : pc'[u] = (IF u = t THEN "writing" ELSE pc[u])
  BY DEF TypeOK
<1>4. NothingRead' /\ Unwritten'
  BY <1>3 DEF NothingRead, Unwritten, HasEffect
<1>5. CallsNumbered'
  <2>1. \A u \in Threads : pc'[u] = "idle" <=> pc[u] = "idle"
    BY <1>3
  <2> QED
    BY <2>1 DEF CallsNumbered
<1>2. InFlight'
  <2>1. NothingInFlight /\ \A u \in Threads : pc[u] \in {"idle", "locking"}
    BY DEF InFlight, MutexHeld, TypeOK, Nobody
  <2>2. \A u \in Threads : pc'[u] \in {"idle", "locking", "writing"}
    BY <2>1 DEF TypeOK
  <2> QED
    BY <2>1, <2>2 DEF InFlight, NothingInFlight
<1> QED
  BY <1>1, <1>4, <1>5, <1>2

LEMMA WritePacketStep ==
  ASSUME IInv, NEW t \in Threads, WritePacket(t), UNCHANGED freed
  PROVE  IInv'
<1> USE LibAssumption DEF IInv, WritePacket, agentVars, countVars
<1>1. mutex = t /\ controlPipe /\ NothingInFlight /\ reply[t] = <<>> /\ call[t].id # 0
      /\ ~HasEffect(call[t].id) /\ call[t] \in Call /\ call[t].id <= calls
      /\ \A u \in Threads : pc[u] \in {"idle", "locking"} \/ u = t
  BY DEF InFlight, MutexHeld, TypeOK, Nobody, NothingRead, Unwritten, CallsNumbered
<1>2. requests' = <<call[t]>> /\ requests' \in Seq(Call)
  BY <1>1 DEF NothingInFlight
<1>3. TypeOK' /\ MutexHeld' /\ NothingRead' /\ Unwritten'
  BY <1>1, <1>2 DEF TypeOK, MutexHeld, NothingRead, Unwritten, HasEffect
<1>4. CallsNumbered'
  <2>1. 0 < call[t].id
    BY <1>1 DEF Call
  <2>2. Len(requests') = 1 /\ requests'[1] = call[t]
    BY <1>2
  <2>3. \A u \in Threads : pc'[u] = "idle" <=> pc[u] = "idle"
    BY DEF TypeOK
  <2> QED
    BY <1>1, <2>1, <2>2, <2>3 DEF CallsNumbered
<1>5. InFlight'
  <2>1. \A u \in Threads : pc'[u] = (IF u = t THEN "reading" ELSE pc[u])
    BY DEF TypeOK
  <2>2. /\ \A u \in Threads : pc'[u] \in {"idle", "locking"} \/ u = t
        /\ pc'[t] = "reading" /\ controlPipe' /\ mutex' = t /\ mutex' # Nobody
    BY <1>1, <2>1 DEF Nobody
  <2>3. /\ requests' = <<call'[t]>> /\ ~HasEffect(call[t].id)'
        /\ reply'[t] = <<>> /\ replies' = <<>> /\ outbox' = <<>>
    BY <1>1, <1>2 DEF NothingInFlight, HasEffect
  <2> HIDE DEF WritePacket
  <2> QED
    BY <2>2, <2>3 DEF InFlight
<1> QED
  BY <1>3, <1>4, <1>5

LEMMA ReadPieceStep ==
  ASSUME IInv, NEW t \in Threads, ReadPiece(t), UNCHANGED freed
  PROVE  IInv'
<1> USE LibAssumption DEF IInv, ReadPiece, agentVars, countVars
<1>1. /\ mutex = t /\ controlPipe
      /\ \A u \in Threads : pc[u] \in {"idle", "locking"} \/ u = t
  BY DEF MutexHeld, TypeOK, Nobody
<1>2. requests = <<>> /\ HasEffect(call[t].id) /\ call[t].id \in Nat
      /\ \E a \in Answers : ReplyOnTheWay(t, a)
  BY DEF InFlight, TypeOK, Call
<1>3. PICK a \in Answers : ReplyOnTheWay(t, a)
  BY <1>2
<1> DEFINE one == Packet(call[t].id, a)[1]
           two == Packet(call[t].id, a)[2]
<1>4. /\ Packet(call[t].id, a) = <<one, two>>
      /\ one \in Piece /\ two \in Piece /\ ~one.last /\ two.last
  BY <1>2, Pieces
<1>5. \/ reply[t] = <<>> /\ replies = <<one>> /\ outbox = <<two>>
      \/ reply[t] = <<>> /\ replies = <<one, two>> /\ outbox = <<>>
      \/ reply[t] = <<one>> /\ replies = <<two>> /\ outbox = <<>>
  BY <1>3, Places
<1>6. \/ /\ reply'[t] = <<one>> /\ replies' = <<>> /\ outbox' = <<two>>
         /\ pc'[t] = "reading"
      \/ /\ reply'[t] = <<one>> /\ replies' = <<two>> /\ outbox' = <<>>
         /\ pc'[t] = "reading"
      \/ /\ reply'[t] = <<one, two>> /\ replies' = <<>> /\ outbox' = <<>>
         /\ pc'[t] = "decoding"
  <2> HIDE DEF one, two
  <2>1. /\ replies # <<>> /\ replies' = Tail(replies) /\ outbox' = outbox
        /\ reply'[t] = Append(reply[t], Head(replies))
        /\ pc'[t] = IF Head(replies).last THEN "decoding" ELSE "reading"
    BY DEF TypeOK
  <2> HIDE DEF ReadPiece
  <2>2. CASE reply[t] = <<>> /\ replies = <<one>> /\ outbox = <<two>>
    BY <1>4, <2>1, <2>2
  <2>3. CASE reply[t] = <<>> /\ replies = <<one, two>> /\ outbox = <<>>
    BY <1>4, <2>1, <2>3
  <2>4. CASE reply[t] = <<one>> /\ replies = <<two>> /\ outbox = <<>>
    <3>1. Head(replies) = two /\ Tail(replies) = <<>>
      BY <2>4
    <3>2. Append(<<one>>, two) = <<one, two>>
      BY <1>4, TwoPieces
    <3> QED
      BY <1>4, <2>1, <2>4, <3>1, <3>2, Zenon
  <2> QED
    BY <1>5, <2>2, <2>3, <2>4
<1>7. \A u \in Threads : u # t => pc'[u] = pc[u] /\ reply'[u] = reply[u]
  BY DEF TypeOK
<1>8. TypeOK'
  <2>1. reply'[t] \in Seq(Piece) /\ replies' \in Seq(Piece) /\ outbox' \in Seq(Piece)
    <3> HIDE DEF one, two, ReadPiece
    <3>1. <<>> \in Seq(Piece) /\ <<one>> \in Seq(Piece) /\ <<two>> \in Seq(Piece)
          /\ <<one, two>> \in Seq(Piece)
      BY <1>4
    <3> QED
      BY <3>1, <1>6
  <2>2. reply' = [reply EXCEPT ![t] = reply'[t]]
    BY DEF TypeOK
  <2> QED
    BY <2>1, <2>2 DEF TypeOK
<1>9. MutexHeld' /\ NothingRead' /\ Unwritten'
  BY <1>1, <1>6, <1>7 DEF MutexHeld, NothingRead, Unwritten, HasEffect
<1>10. CallsNumbered'
  <2>1. \A u \in Threads : pc'[u] = "idle" <=> pc[u] = "idle"
    BY <1>6, <1>7
  <2> QED
    BY <2>1 DEF CallsNumbered
<1>11. InFlight'
  <2>1. pc'[t] = "reading" => ReplyOnTheWay(t, a)'
    BY <1>6 DEF ReplyOnTheWay
  <2>2. pc'[t] = "decoding" => NothingInFlight' /\ reply'[t] = Packet(call'[t].id, a)
    BY <1>2, <1>4, <1>6 DEF NothingInFlight
  <2>3. HasEffect(call[t].id)'
    BY <1>2 DEF HasEffect
  <2>4. pc'[t] \in {"reading", "decoding"} /\ requests' = <<>> /\ controlPipe' /\ mutex' = t
    BY <1>1, <1>2, <1>6
  <2>5. \A u \in Threads : pc'[u] \in {"idle", "locking"} \/ u = t
    BY <1>1, <1>7
  <2>6. mutex' # Nobody
    BY <2>4 DEF Nobody
  <2> HIDE DEF ReadPiece
  <2> QED
    BY <2>1, <2>2, <2>3, <2>4, <2>5, <2>6 DEF InFlight
<1> QED
  BY <1>8, <1>9, <1>10, <1>11

LEMMA HandlePacketStep ==
  ASSUME IInv, HandlePacket
  PROVE  IInv'
<1> USE LibAssumption DEF IInv, HandlePacket, threadVars, countVars
<1>1. /\ requests \in Seq(Call) /\ requests # <<>> /\ requests' = Tail(requests)
      /\ effects \in Seq(Nat) /\ effects' = Append(effects, Head(requests).id)
      /\ outbox \in Seq(Piece)
  BY DEF TypeOK
<1> DEFINE c == Head(requests).id
<1>2. /\ Head(requests) = requests[1] /\ 1 \in 1..Len(requests)
      /\ c \in Nat /\ 0 < c /\ c <= calls
  <2>1. Head(requests) = requests[1] /\ 1 \in 1..Len(requests) /\ requests[1] \in Call
    BY <1>1
  <2> QED
    BY <2>1 DEF Call, CallsNumbered
<1>3. PICK a \in Answers : outbox' = outbox \o Packet(c, a)
  BY DEF AnswersTo, Answers
<1>4. \A d : HasEffect(d)' <=> HasEffect(d) \/ d = c
  <2>1. Len(effects') = Len(effects) + 1 /\ effects'[Len(effects) + 1] = c
        /\ \A i \in 1..Len(effects) : effects'[i] = effects[i]
    BY <1>1
  <2>2. Len(effects) \in Nat
    BY <1>1
  <2> HIDE DEF c, HandlePacket
  <2> QED
    BY <2>1, <2>2 DEF HasEffect
<1>5. TypeOK'
  <2>1. requests' \in Seq(Call) /\ effects' \in Seq(Nat)
    BY <1>1, <1>2
  <2>2. outbox' \in Seq(Piece)
    <3>1. Packet(c, a) \in Seq(Piece)
      BY <1>2, Pieces
    <3> QED
      BY <1>1, <1>3, <3>1, ConcatProperties
  <2> QED
    BY <2>1, <2>2 DEF TypeOK
<1>6. MutexHeld' /\ NothingRead'
  BY DEF MutexHeld, NothingRead
<1>7. CallsNumbered'
  <2>1. \A i \in 1..Len(effects') : 0 < effects'[i] /\ effects'[i] <= calls
    <3> HIDE DEF c, HandlePacket
    <3> QED
      BY <1>1, <1>2 DEF CallsNumbered, c
  <2>2. \A i \in 1..Len(requests') : 0 < requests'[i].id /\ requests'[i].id <= calls
    <3>1. \A i \in 1..Len(requests') : i + 1 \in 1..Len(requests) /\ requests'[i] = requests[i + 1]
      BY <1>1
    <3> QED
      BY <3>1 DEF CallsNumbered
  <2> QED
    BY <2>1, <2>2 DEF CallsNumbered
\* The request is that of the thread that reads, or the last of a closed session.
<1>8. \/ /\ controlPipe
         /\ \E t \in Threads : /\ pc[t] = "reading" /\ mutex = t
                               /\ requests = <<call[t]>>
                               /\ reply[t] = <<>> /\ replies = <<>> /\ outbox = <<>>
      \/ ~controlPipe /\ Len(requests) = 1
  <2>1. CASE controlPipe
    <3>1. mutex # Nobody
      BY <1>1, <2>1 DEF InFlight, NothingInFlight
    <3>2. mutex \in Threads /\ pc[mutex] \in {"writing", "reading", "decoding"}
      BY <3>1 DEF TypeOK, MutexHeld
    <3> QED
      BY <1>1, <2>1, <3>2 DEF InFlight, NothingInFlight
  <2>2. CASE ~controlPipe
    BY <1>1, <2>2 DEF InFlight
  <2>3. controlPipe \in BOOLEAN
    BY DEF TypeOK
  <2> QED
    BY <2>1, <2>2, <2>3
<1>9. CASE controlPipe
  <2>1. PICK t \in Threads : /\ pc[t] = "reading" /\ mutex = t
                             /\ requests = <<call[t]>>
                             /\ reply[t] = <<>> /\ replies = <<>> /\ outbox = <<>>
    BY <1>8, <1>9
  <2>2. c = call[t].id /\ requests' = <<>>
    BY <1>1, <2>1
  <2>3. /\ \A u \in Threads : pc[u] \in {"idle", "locking"} \/ u = t
        /\ mutex # Nobody
    BY <2>1 DEF MutexHeld, TypeOK, Nobody
  <2>4. Unwritten'
    <3>1. \A u \in Threads : pc[u] \in {"locking", "writing"} => call[u].id # c
      BY <1>2, <2>1, <2>2 DEF CallsNumbered
    <3> HIDE DEF c
    <3> QED
      BY <1>4, <3>1 DEF Unwritten
  <2>5. ReplyOnTheWay(t, a)'
    <3>1. outbox' = Packet(c, a)
      BY <1>2, <1>3, <2>1, Pieces
    <3>2. Packet(c, a) = <<Packet(c, a)[1], Packet(c, a)[2]>>
      BY <1>2, Pieces
    <3> QED
      BY <2>1, <2>2, <3>1, <3>2 DEF ReplyOnTheWay
  <2>6. InFlight'
    <3>1. HasEffect(call[t].id)'
      BY <1>4, <2>2 DEF HasEffect
    <3>2. /\ \A u \in Threads : pc'[u] \in {"idle", "locking"} \/ u = t
          /\ pc'[t] = "reading" /\ controlPipe' /\ mutex' # Nobody /\ requests' = <<>>
      BY <1>9, <2>1, <2>2, <2>3
    <3> HIDE DEF HandlePacket
    <3> QED
      BY <2>5, <3>1, <3>2 DEF InFlight
  <2> QED
    BY <1>5, <1>6, <1>7, <2>4, <2>6
<1>10. CASE ~controlPipe
  <2>1. requests' = <<>>
    BY <1>1, <1>8, <1>10, SMTT(40)
  <2>2. \A u \in Threads : pc[u] \in {"idle", "locking"}
    BY <1>10 DEF MutexHeld, TypeOK, Nobody
  <2>3. ~controlPipe' /\ \A u \in Threads : pc'[u] \in {"idle", "locking"}
    BY <1>10, <2>2
  <2> HIDE DEF HandlePacket
  <2> QED
    BY <1>5, <1>6, <1>7, <2>1, <2>3 DEF InFlight, Unwritten
<1> QED
  BY <1>9, <1>10

LEMMA SendPieceStep ==
  ASSUME IInv, SendPiece
  PROVE  IInv'
<1> USE LibAssumption DEF IInv, SendPiece, threadVars, countVars
<1>1. /\ outbox \in Seq(Piece) /\ outbox # <<>> /\ replies \in Seq(Piece)
      /\ replies' = Append(replies, Head(outbox)) /\ outbox' = Tail(outbox)
      /\ controlPipe
  BY DEF TypeOK
<1>2. TypeOK'
  <2>1. outbox' \in Seq(Piece) /\ replies' \in Seq(Piece)
    BY <1>1
  <2> QED
    BY <2>1 DEF TypeOK
<1>3. MutexHeld' /\ NothingRead' /\ CallsNumbered' /\ Unwritten'
  BY DEF MutexHeld, NothingRead, CallsNumbered, Unwritten, HasEffect
<1>4. PICK t \in Threads : /\ pc[t] = "reading" /\ mutex = t
                           /\ requests = <<>> /\ HasEffect(call[t].id)
                           /\ \E a \in Answers : ReplyOnTheWay(t, a)
  <2>1. mutex # Nobody
    BY <1>1 DEF InFlight, NothingInFlight
  <2>2. mutex \in Threads /\ pc[mutex] \in {"writing", "reading", "decoding"}
    BY <2>1 DEF TypeOK, MutexHeld
  <2> QED
    BY <1>1, <2>2 DEF InFlight, NothingInFlight
<1>5. PICK a \in Answers : ReplyOnTheWay(t, a)
  BY <1>4
<1>6. call[t].id \in Nat
  BY DEF TypeOK, Call
<1> DEFINE one == Packet(call[t].id, a)[1]
           two == Packet(call[t].id, a)[2]
<1>7. one \in Piece /\ two \in Piece
  BY <1>6, Pieces
<1>8. \/ reply[t] = <<>> /\ replies = <<>> /\ outbox = <<one, two>>
      \/ reply[t] = <<>> /\ replies = <<one>> /\ outbox = <<two>>
      \/ reply[t] = <<one>> /\ replies = <<>> /\ outbox = <<two>>
  BY <1>1, <1>5, Places
<1>9. \/ reply[t] = <<>> /\ replies' = <<one>> /\ outbox' = <<two>>
      \/ reply[t] = <<>> /\ replies' = <<one, two>> /\ outbox' = <<>>
      \/ reply[t] = <<one>> /\ replies' = <<two>> /\ outbox' = <<>>
  <2> HIDE DEF one, two, SendPiece
  <2>1. CASE reply[t] = <<>> /\ replies = <<>> /\ outbox = <<one, two>>
    BY <1>1, <1>7, <2>1
  <2>2. CASE reply[t] = <<>> /\ replies = <<one>> /\ outbox = <<two>>
    <3>1. Head(outbox) = two /\ Tail(outbox) = <<>>
      BY <2>2
    <3>2. Append(<<one>>, two) = <<one, two>>
      BY <1>7, TwoPieces
    <3> QED
      BY <1>1, <2>2, <3>1, <3>2, Zenon
  <2>3. CASE reply[t] = <<one>> /\ replies = <<>> /\ outbox = <<two>>
    BY <1>1, <1>7, <2>3
  <2> QED
    BY <1>8, <2>1, <2>2, <2>3
<1>10. ReplyOnTheWay(t, a)'
  BY <1>9 DEF ReplyOnTheWay
<1>11. InFlight'
  <2>1. HasEffect(call[t].id)'
    BY <1>4 DEF HasEffect
  <2>2. /\ \A u \in Threads : pc'[u] \in {"idle", "locking"} \/ u = t
        /\ pc'[t] = "reading" /\ controlPipe' /\ mutex' # Nobody /\ requests' = <<>>
    BY <1>1, <1>4 DEF MutexHeld, TypeOK, Nobody
  <2> HIDE DEF SendPiece
  <2> QED
    BY <1>10, <2>1, <2>2 DEF InFlight
<1> QED
  BY <1>2, <1>3, <1>11

\* Steps that leave the pipe's two directions alone.
LEMMA QuietStep ==
  ASSUME IInv, AgentExits \/ Free \/ UNCHANGED vars
  PROVE  IInv'
<1> USE DEF IInv, threadVars, agentVars, wireVars, countVars, vars
<1>1. CASE AgentExits \/ UNCHANGED vars
  <2>1. /\ UNCHANGED <<mutex, controlPipe, freed, pc, call, reply, result, requests,
                       outbox, replies, effects, calls, spawned>>
        /\ agent' \in {"running", "dead"}
    BY <1>1 DEF AgentExits, TypeOK
  <2>2. TypeOK' /\ MutexHeld'
    BY <2>1 DEF TypeOK, MutexHeld
  <2>3. CallsNumbered' /\ NothingRead' /\ Unwritten'
    BY <2>1 DEF CallsNumbered, NothingRead, Unwritten, HasEffect
  <2>4. InFlight'
    BY <2>1 DEF InFlight, HasEffect, NothingInFlight, ReplyOnTheWay
  <2> QED
    BY <2>2, <2>3, <2>4
<1>2. CASE Free
  <2>1. \A t \in Threads : pc[t] = "idle"
    BY <1>2 DEF Free
  <2>2. mutex = Nobody /\ (requests = <<>> \/ (Len(requests) = 1 /\ ~HasEffect(requests[1].id)))
    BY <2>1 DEF MutexHeld, TypeOK, InFlight, NothingInFlight
  <2>3. /\ UNCHANGED <<mutex, pc, call, reply, result, requests, outbox, replies, agent,
                       effects, calls, spawned>>
        /\ controlPipe' = FALSE /\ freed' = TRUE
    BY <1>2 DEF Free
  <2>4. TypeOK' /\ MutexHeld'
    BY <2>2, <2>3 DEF TypeOK, MutexHeld
  <2>5. CallsNumbered' /\ NothingRead' /\ Unwritten'
    BY <2>3 DEF CallsNumbered, NothingRead, Unwritten
  <2>6. InFlight'
    BY <2>1, <2>2, <2>3 DEF InFlight, HasEffect
  <2> QED
    BY <2>4, <2>5, <2>6
<1> QED
  BY <1>1, <1>2

LEMMA InitInvariant == Init => IInv
<1> SUFFICES ASSUME Init PROVE IInv
  OBVIOUS
<1> USE LibAssumption DEF Init, IInv
<1>1. TypeOK
  <2>1. NoCall \in Call /\ <<>> \in Seq(Piece) /\ <<>> \in Seq(Call) /\ <<>> \in Seq(Nat)
    BY DEF NoCall, Call
  <2> QED
    BY <2>1 DEF TypeOK, Outcomes
<1>2. MutexHeld /\ NothingRead /\ Unwritten
  BY DEF MutexHeld, NothingRead, Unwritten, Nobody
<1>3. CallsNumbered
  BY DEF CallsNumbered, NoCall
<1>4. InFlight
  BY DEF InFlight, NothingInFlight
<1> QED
  BY <1>1, <1>2, <1>3, <1>4

LEMMA NextInvariant == IInv /\ [Next]_vars => IInv'
<1> SUFFICES ASSUME IInv, [Next]_vars PROVE IInv'
  OBVIOUS
<1>1. ASSUME NEW t \in Threads, Step(t) PROVE IInv'
  BY <1>1, LockStep, WritePacketStep, ReadPieceStep, EndStep DEF Step, IInv, TypeOK
<1>2. ASSUME NEW t \in Threads, NEW k \in Kinds, Invoke(t, k) PROVE IInv'
  BY <1>2, InvokeStep
<1> QED
  BY <1>1, <1>2, HandlePacketStep, SendPieceStep, QuietStep DEF Next

\* The invariant: what is in the pipe, in either direction, belongs to the
\* thread that holds the mutex, and to nobody once the pipe is closed.
THEOREM Invariance == Spec => []IInv
  BY InitInvariant, NextInvariant, PTL DEF Spec

\* The variables keep their types.
THEOREM TypeCorrect == Spec => []TypeOK
  BY Invariance, PTL DEF IInv

\* No caller reads a piece of another call's reply (readPacket): a reply that
\* comes after its call timed out finds the pipe closed.
THEOREM RepliesAreNotMixed == Spec => []AnswersOwnCall
<1>1. IInv => AnswersOwnCall
  <2> SUFFICES ASSUME IInv, NEW t \in Threads, NEW i \in 1..Len(reply[t])
               PROVE  reply[t][i].id = call[t].id
    BY DEF AnswersOwnCall
  <2> USE DEF IInv
  <2>1. pc[t] \in {"reading", "decoding"}
    BY DEF NothingRead, TypeOK
  <2>2. PICK a \in Answers : ReplyOnTheWay(t, a) \/ reply[t] = Packet(call[t].id, a)
                             \/ reply[t] = <<>>
    BY <2>1 DEF InFlight, Answers
  <2>3. \/ reply[t] = <<>> \/ reply[t] = <<Packet(call[t].id, a)[1]>>
        \/ reply[t] = Packet(call[t].id, a)
    BY <2>2, Places
  <2> QED
    BY <2>3 DEF Packet
<1> QED
  BY <1>1, Invariance, PTL

\* While the pipe is open and no call is waiting for its answer, nothing of an
\* earlier call is left in it: the next writePacket starts on a clean pipe.
THEOREM CallsFindACleanPipe == Spec => []PipeCleanBeforeCall
<1>1. IInv => PipeCleanBeforeCall
  <2> SUFFICES ASSUME IInv, controlPipe,
                      \A t \in Threads : pc[t] \in {"idle", "locking", "writing"}
               PROVE  NothingInFlight
    BY DEF PipeCleanBeforeCall, NothingInFlight
  <2>1. mutex = Nobody \/ (mutex \in Threads /\ pc[mutex] = "writing")
    BY DEF IInv, MutexHeld, TypeOK
  <2> QED
    BY <2>1 DEF IInv, InFlight
<1> QED
  BY <1>1, Invariance, PTL

-----------------------------------------------------------------------------
(* LibWinpty implements RpcSession                                         *)

\* A call that returns without declaring success.
LEMMA FailIsFail ==
  ASSUME IInv, NEW t \in Threads, pc[t] # "idle",
         NEW o \in Outcomes \ {"ok", "createProcessFailed"}, Return(t, o),
         controlPipe' = FALSE, UNCHANGED <<effects, calls>>,
         \/ requests' = <<>> /\ controlPipe
         \/ requests' = <<call[t]>> /\ ~HasEffect(call[t].id) /\ controlPipe
         \/ requests' = requests /\ ~controlPipe
  PROVE  Session!Fail(t)
<1> USE DEF IInv
<1>1. Pending[t] # 0 /\ Pending[t] = call[t].id
  BY DEF CallsNumbered, Pending
<1>2. Pending' = [Pending EXCEPT ![t] = 0]
  BY DEF Return, Pending, TypeOK, NoCall
<1>3. Succeeded' = Succeeded \ {t}
  BY DEF Return, Succeeded, TypeOK
<1>4. IF ~controlPipe THEN UNCHANGED LateEffects
      ELSE LateEffects' \in {{}, {c \in {Pending[t]} : ~Session!HasEffect(c)}}
  <2>1. CASE requests' = <<>> /\ controlPipe
    BY <2>1 DEF LateEffects
  <2>2. CASE requests' = <<call[t]>> /\ ~HasEffect(call[t].id) /\ controlPipe
    <3>1. Len(requests') = 1 /\ requests'[1] = call[t]
      BY <2>2
    <3>2. LateEffects' = {call[t].id}
      BY <3>1 DEF LateEffects
    <3>3. {c \in {Pending[t]} : ~Session!HasEffect(c)} = {call[t].id}
      BY <1>1, <2>2 DEF HasEffect, Session!HasEffect
    <3> QED
      BY <2>2, <3>2, <3>3
  <2>3. CASE requests' = requests /\ ~controlPipe
    BY <2>3 DEF LateEffects
  <2> QED
    BY <2>1, <2>2, <2>3
<1> QED
  BY <1>1, <1>2, <1>3, <1>4 DEF Session!Fail

\* Steps of a thread that are none of its session.
LEMMA Stutter ==
  ASSUME IInv, UNCHANGED <<controlPipe, call, result, effects, calls>>,
         controlPipe \/ UNCHANGED requests
  PROVE  UNCHANGED Session!vars
  BY DEF Session!vars, Pending, LateEffects, Succeeded

LEMMA ThreadStepSimulated ==
  ASSUME IInv, NEW t \in Threads, Step(t)
  PROVE  [Session!Next]_(Session!vars)
<1> USE DEF IInv
<1>1. CASE Lock(t)
  <2>1. CASE controlPipe
    BY <1>1, <2>1, Stutter DEF Lock, agentVars, wireVars, countVars
  <2>2. CASE ~controlPipe
    <3>1. /\ pc[t] = "locking" /\ Return(t, "shutdown") /\ controlPipe' = FALSE
          /\ UNCHANGED <<effects, calls, requests>>
      BY <1>1, <2>2 DEF Lock, agentVars, wireVars, countVars, TypeOK
    <3> QED
      BY <2>2, <3>1, FailIsFail DEF Outcomes, Session!Next
  <2> QED
    BY <2>1, <2>2
<1>2. CASE WritePacket(t) \/ ReadPiece(t)
  <2>1. controlPipe
    BY <1>2, LibAssumption DEF WritePacket, ReadPiece, MutexHeld, Nobody
  <2> QED
    BY <1>2, <2>1, Stutter DEF WritePacket, ReadPiece, agentVars, countVars
<1>3. CASE WriteTimeout(t)
  <2>1. /\ pc[t] = "writing" /\ Return(t, "timeout") /\ controlPipe' = FALSE
        /\ UNCHANGED <<effects, calls>>
        /\ requests' \in {requests, Append(requests, call[t])}
    BY <1>3 DEF WriteTimeout, Fail, agentVars, countVars
  <2>2. controlPipe /\ requests = <<>> /\ ~HasEffect(call[t].id)
    BY <2>1, LibAssumption DEF MutexHeld, Nobody, InFlight, NothingInFlight, Unwritten
  <2>3. requests' = <<>> \/ requests' = <<call[t]>>
    BY <2>1, <2>2
  <2> QED
    BY <2>1, <2>2, <2>3, FailIsFail DEF Outcomes, IoErrors, Session!Next
<1>4. CASE ReadTimeout(t) \/ LoseAgent(t) \/ StealNothing(t) \/ RejectList(t)
  <2>1. /\ pc[t] \in {"writing", "reading", "decoding"}
        /\ \E o \in Outcomes \ {"ok", "createProcessFailed"} : Return(t, o)
        /\ controlPipe' = FALSE
        /\ UNCHANGED <<effects, calls, requests>>
    BY <1>4 DEF ReadTimeout, LoseAgent, StealNothing, RejectList, Fail, agentVars,
                wireVars, countVars, Outcomes, IoErrors
  <2>2. controlPipe /\ (requests = <<>> \/ (requests = <<call[t]>> /\ ~HasEffect(call[t].id)))
    BY <2>1, LibAssumption DEF MutexHeld, Nobody, InFlight, NothingInFlight
  <2> QED
    BY <2>1, <2>2, FailIsFail DEF Session!Next
<1>5. CASE Succeed(t)
  <2>1. /\ pc[t] = "decoding" /\ UNCHANGED <<controlPipe, effects, calls, requests>>
        /\ \E o \in {"ok", "createProcessFailed"} : Return(t, o)
    BY <1>5 DEF Succeed, agentVars, wireVars, countVars
  <2>2. Pending[t] # 0 /\ Session!HasEffect(Pending[t])
    BY <2>1 DEF CallsNumbered, InFlight, Pending, HasEffect, Session!HasEffect
  <2>3. Pending' = [Pending EXCEPT ![t] = 0] /\ Succeeded' = Succeeded \cup {t}
    <3>1. Pending' = [Pending EXCEPT ![t] = 0]
      <4>1. call' = [call EXCEPT ![t] = NoCall]
        BY <2>1 DEF Return
      <4> QED
        BY <4>1 DEF Pending, TypeOK, NoCall
    <3>2. Succeeded' = Succeeded \cup {t}
      BY <2>1 DEF Return, Succeeded, TypeOK
    <3> QED
      BY <3>1, <3>2
  <2>4. UNCHANGED LateEffects
    BY <2>1 DEF LateEffects
  <2> QED
    BY <2>1, <2>2, <2>3, <2>4 DEF Session!Succeed, Session!Next
<1> QED
  BY <1>1, <1>2, <1>3, <1>4, <1>5 DEF Step

LEMMA InvokeSimulated ==
  ASSUME IInv, NEW t \in Threads, NEW k \in Kinds, Invoke(t, k)
  PROVE  Session!Invoke(t)
<1> USE DEF IInv
<1>1. Pending[t] = 0
  BY DEF Invoke, Pending, CallsNumbered
<1>2. Pending' = [Pending EXCEPT ![t] = calls + 1]
  BY DEF Invoke, Pending, TypeOK
<1>3. Succeeded' = Succeeded \ {t}
  BY DEF Invoke, Succeeded, TypeOK
<1>4. UNCHANGED <<effects, LateEffects, controlPipe>> /\ calls' = calls + 1
  BY DEF Invoke, agentVars, wireVars, LateEffects
<1> QED
  BY <1>1, <1>2, <1>3, <1>4 DEF Session!Invoke

\* A request takes effect for the call that waits for it, or late.
LEMMA HandlePacketSimulated ==
  ASSUME IInv, HandlePacket
  PROVE  \E c \in 1..calls : Session!TakeEffect(c)
<1> USE DEF IInv
<1> DEFINE c == Head(requests).id
<1>1. /\ requests \in Seq(Call) /\ requests # <<>> /\ requests' = Tail(requests)
      /\ effects' = Append(effects, c)
      /\ UNCHANGED <<calls, call, controlPipe, result>>
  BY DEF HandlePacket, TypeOK, threadVars, countVars
<1>2. c \in 1..calls /\ calls \in Nat
  <2>1. Head(requests) = requests[1] /\ 1 \in 1..Len(requests) /\ requests[1] \in Call
    BY <1>1
  <2> QED
    BY <2>1 DEF Call, CallsNumbered, TypeOK
<1>3. UNCHANGED <<Pending, Succeeded>>
  BY <1>1 DEF Pending, Succeeded
<1>4. /\ ~HasEffect(c) /\ LateEffects' = LateEffects \ {c}
      /\ (controlPipe /\ \E t \in Threads : Pending[t] = c) \/ c \in LateEffects
  <2>1. CASE controlPipe
    <3>1. mutex # Nobody
      BY <1>1, <2>1 DEF InFlight, NothingInFlight
    <3>2. mutex \in Threads /\ pc[mutex] \in {"writing", "reading", "decoding"}
      BY <3>1 DEF TypeOK, MutexHeld
    <3>3. requests = <<call[mutex]>> /\ ~HasEffect(call[mutex].id)
      BY <1>1, <2>1, <3>2 DEF InFlight, NothingInFlight
    <3> QED
      BY <1>1, <2>1, <3>2, <3>3 DEF Pending, LateEffects
  <2>2. CASE ~controlPipe
    <3>1. Len(requests) = 1 /\ ~HasEffect(requests[1].id)
      BY <1>1, <2>2 DEF InFlight
    <3>2. c = requests[1].id /\ requests' = <<>>
      BY <1>1, <3>1
    <3>3. LateEffects = {c} /\ LateEffects' = {}
      BY <1>1, <2>2, <3>1, <3>2 DEF LateEffects
    <3> QED
      BY <3>1, <3>2, <3>3
  <2> QED
    BY <2>1, <2>2
<1> QED
  BY <1>1, <1>2, <1>3, <1>4 DEF Session!TakeEffect, Session!HasEffect, HasEffect

LEMMA FreeSimulated ==
  ASSUME IInv, Free
  PROVE  Session!Close
<1> USE DEF IInv
<1>1. \A t \in Threads : pc[t] = "idle" /\ Pending[t] = 0
  BY DEF Free, Pending, CallsNumbered
<1>2. UNCHANGED <<calls, effects, Pending, Succeeded, requests>> /\ controlPipe' = FALSE
  BY DEF Free, threadVars, agentVars, wireVars, countVars, Pending, Succeeded
<1>3. controlPipe => requests = <<>>
  BY <1>1 DEF MutexHeld, TypeOK, InFlight, NothingInFlight
<1>4. UNCHANGED LateEffects
  BY <1>2, <1>3 DEF LateEffects
<1> QED
  BY <1>1, <1>2, <1>4 DEF Session!Close

LEMMA InitSimulated == Init => Session!Init
  BY LibAssumption DEF Init, Session!Init, Pending, LateEffects, Succeeded, NoCall

LEMMA NextSimulated == IInv /\ [Next]_vars => [Session!Next]_(Session!vars)
<1> SUFFICES ASSUME IInv, [Next]_vars PROVE [Session!Next]_(Session!vars)
  OBVIOUS
<1>1. CASE SendPiece \/ AgentExits \/ UNCHANGED vars
  BY <1>1, Stutter DEF SendPiece, AgentExits, vars, threadVars, agentVars, wireVars, countVars
<1> QED
  BY <1>1, ThreadStepSimulated, InvokeSimulated, HandlePacketSimulated, FreeSimulated
     DEF Next, Session!Next

\* RPC calls are atomic: LibWinpty, with its mutex, its time limit and
\* RpcOperation's closing of the pipe, implements RpcSession.
THEOREM CallsAreAtomic == Spec => ImplementsSession
<1>1. Spec => Session!Init /\ [][Session!Next]_(Session!vars)
  BY InitSimulated, NextSimulated, Invariance, PTL DEF Spec
<1> QED
  BY <1>1 DEF ImplementsSession, Session!Spec

-----------------------------------------------------------------------------
(* Why the control pipe is closed                                          *)

AllFit(s, kind) == \A i \in 1..Len(s) : s[i].answer \in AnswersTo(kind)

\* What is on its way to a thread that reads is an answer to its kind of call.
AnswersFit ==
  \A t \in Threads : pc[t] \in {"reading", "decoding"} =>
    /\ AllFit(outbox, call[t].kind) /\ AllFit(replies, call[t].kind)
    /\ AllFit(reply[t], call[t].kind)

LEMMA FitHead ==
  ASSUME NEW s \in Seq(Piece), s # <<>>, NEW kind, AllFit(s, kind)
  PROVE  /\ Head(s).answer \in AnswersTo(kind) /\ AllFit(Tail(s), kind)
         /\ \A r \in Seq(Piece) : AllFit(r, kind) => AllFit(Append(r, Head(s)), kind)
<1>1. Head(s) = s[1] /\ 1 \in 1..Len(s)
  OBVIOUS
<1>2. \A i \in 1..Len(Tail(s)) : Tail(s)[i] = s[i + 1] /\ i + 1 \in 1..Len(s)
  OBVIOUS
<1>3. \A r \in Seq(Piece) : \A i \in 1..Len(Append(r, Head(s))) :
        Append(r, Head(s))[i] = Head(s) \/ (i \in 1..Len(r) /\ Append(r, Head(s))[i] = r[i])
  OBVIOUS
<1> QED
  BY <1>1, <1>2, <1>3 DEF AllFit

LEMMA AnswersFitStep == IInv /\ AnswersFit /\ [Next]_vars => AnswersFit'
<1> SUFFICES ASSUME IInv, AnswersFit, [Next]_vars,
                    NEW t \in Threads, pc'[t] \in {"reading", "decoding"}
             PROVE  /\ AllFit(outbox', call'[t].kind) /\ AllFit(replies', call'[t].kind)
                    /\ AllFit(reply'[t], call'[t].kind)
  BY DEF AnswersFit
<1>1. /\ outbox \in Seq(Piece) /\ replies \in Seq(Piece) /\ reply \in [Threads -> Seq(Piece)]
      /\ call \in [Threads -> Call]
      /\ pc \in [Threads -> {"idle", "locking", "writing", "reading", "decoding"}]
  BY DEF IInv, TypeOK
<1>2. ASSUME pc[t] = pc'[t], call[t] = call'[t], UNCHANGED <<outbox, replies, reply[t]>>
      PROVE  /\ AllFit(outbox', call'[t].kind) /\ AllFit(replies', call'[t].kind)
             /\ AllFit(reply'[t], call'[t].kind)
  BY <1>2 DEF AnswersFit
<1>3. ASSUME NEW u \in Threads, NEW o, Return(u, o)
      PROVE  u # t /\ UNCHANGED <<pc[t], call[t], reply[t]>>
  BY <1>1, <1>3 DEF Return
<1>4. ASSUME NEW u \in Threads, pc[u] \in {"writing", "reading", "decoding"}, u # t
      PROVE  pc[t] \notin {"writing", "reading", "decoding"}
  BY <1>4 DEF IInv, MutexHeld
<1>5. ASSUME NEW u \in Threads, WritePacket(u)
      PROVE  u = t /\ UNCHANGED <<call, reply, replies, outbox>> /\ NothingInFlight
             /\ reply[t] = <<>>
  <2>1. u = t
    BY <1>1, <1>4, <1>5 DEF WritePacket
  <2> QED
    BY <1>5, <2>1 DEF WritePacket, agentVars, IInv, InFlight, NothingRead
<1>6. CASE \E u \in Threads : WritePacket(u)
  BY <1>5, <1>6 DEF NothingInFlight, AllFit
<1>7. ASSUME NEW u \in Threads, ReadPiece(u)
      PROVE  /\ AllFit(outbox', call'[t].kind) /\ AllFit(replies', call'[t].kind)
             /\ AllFit(reply'[t], call'[t].kind)
  <2>1. u = t
    BY <1>1, <1>4, <1>7 DEF ReadPiece
  <2>2. /\ replies # <<>> /\ reply'[t] = Append(reply[t], Head(replies))
        /\ replies' = Tail(replies) /\ UNCHANGED <<call, outbox>> /\ pc[t] = "reading"
    BY <1>1, <1>7, <2>1 DEF ReadPiece, agentVars
  <2>3. /\ AllFit(outbox, call[t].kind) /\ AllFit(replies, call[t].kind)
        /\ AllFit(reply[t], call[t].kind)
    BY <2>2 DEF AnswersFit
  <2> QED
    BY <1>1, <2>2, <2>3, FitHead
<1>8. CASE SendPiece
  <2>1. /\ outbox # <<>> /\ replies' = Append(replies, Head(outbox))
        /\ outbox' = Tail(outbox) /\ UNCHANGED <<call, reply, pc>>
    BY <1>8 DEF SendPiece, threadVars
  <2>2. /\ AllFit(outbox, call[t].kind) /\ AllFit(replies, call[t].kind)
        /\ AllFit(reply[t], call[t].kind)
    BY <2>1 DEF AnswersFit
  <2> QED
    BY <1>1, <2>1, <2>2, FitHead
<1>9. CASE HandlePacket
  <2>1. /\ requests # <<>> /\ UNCHANGED <<call, reply, pc, replies>>
        /\ \E a \in AnswersTo(Head(requests).kind) :
             outbox' = outbox \o Packet(Head(requests).id, a)
    BY <1>9 DEF HandlePacket, threadVars
  <2>2. requests = <<call[t]>> /\ outbox = <<>>
    BY <2>1 DEF IInv, InFlight, NothingInFlight
  <2>3. PICK a \in AnswersTo(call[t].kind) : outbox' = <<>> \o Packet(call[t].id, a)
    BY <2>1, <2>2
  <2>4. outbox' = Packet(call[t].id, a)
    BY <2>3 DEF Packet
  <2>5. AllFit(outbox', call[t].kind)
    BY <2>4 DEF AllFit, Packet
  <2>6. AllFit(replies, call[t].kind) /\ AllFit(reply[t], call[t].kind)
    BY <2>1 DEF AnswersFit
  <2> QED
    BY <2>1, <2>5, <2>6
<1>10. ASSUME NEW u \in Threads, NEW k \in Kinds, Invoke(u, k)
       PROVE  UNCHANGED <<pc[t], call[t], outbox, replies, reply>>
  BY <1>1, <1>10 DEF Invoke, agentVars, wireVars
<1>11. ASSUME NEW u \in Threads, Lock(u)
       PROVE  UNCHANGED <<pc[t], call[t], outbox, replies, reply[t]>>
  BY <1>1, <1>3, <1>11 DEF Lock, agentVars, wireVars
<1>12. ASSUME NEW u \in Threads, WriteTimeout(u) \/ ReadTimeout(u) \/ LoseAgent(u)
       PROVE  UNCHANGED <<pc[t], call[t], outbox, replies, reply[t]>>
  <2>1. u # t /\ UNCHANGED <<pc[t], call[t], reply[t], outbox>>
    BY <1>3, <1>12 DEF WriteTimeout, ReadTimeout, LoseAgent, Fail, agentVars
  <2>2. UNCHANGED replies
    <3>1. pc[t] \in {"reading", "decoding"}
      BY <2>1
    <3>2. pc[u] \notin {"writing", "reading", "decoding"}
      BY <1>4, <2>1, <3>1
    <3> QED
      BY <1>12, <3>2 DEF WriteTimeout, ReadTimeout, LoseAgent
  <2> QED
    BY <2>1, <2>2
<1>13. ASSUME NEW u \in Threads, Succeed(u) \/ StealNothing(u) \/ RejectList(u)
       PROVE  UNCHANGED <<pc[t], call[t], outbox, replies, reply[t]>>
  BY <1>3, <1>13 DEF Succeed, StealNothing, RejectList, Fail, agentVars, wireVars
<1>14. CASE Free \/ AgentExits \/ UNCHANGED vars
  BY <1>2, <1>14 DEF Free, AgentExits, vars, threadVars, agentVars, wireVars
<1> QED
  BY <1>2, <1>6, <1>7, <1>8, <1>9, <1>10, <1>11, <1>12, <1>13, <1>14 DEF Next, Step

\* The pipe is closed because the client freed the session, because the
\* communication failed, or because a process list is longer than the caller's
\* buffer: no other call gets an answer that it would throw away.
THEOREM PipeIsClosedForCause == Spec => ClosedOnlyForCause
<1>1. Init => AnswersFit
  BY DEF Init, AnswersFit
<1>2. ASSUME IInv, AnswersFit, NEW t \in Threads, Step(t), controlPipe, ~controlPipe'
      PROVE  /\ pc[t] # "idle"
             /\ \/ result'[t] \in IoErrors \cup {"noHandle"}
                \/ call[t].kind = "processList" /\ result'[t] = "badPacket"
  <2>1. result \in [Threads -> Outcomes]
    BY <1>2 DEF IInv, TypeOK
  <2>2. ASSUME NEW o, Fail(t, o) PROVE result'[t] = o
    BY <2>1, <2>2 DEF Fail, Return
  <2>3. CASE RejectList(t)
    <3>1. pc[t] = "decoding" /\ Answer(t) = "tooLong" /\ result'[t] = "badPacket"
      BY <2>2, <2>3 DEF RejectList
    <3>2. PICK a \in Answers : reply[t] = Packet(call[t].id, a)
      BY <1>2, <3>1 DEF IInv, InFlight
    <3>3. Len(reply[t]) = 2
      BY <3>2 DEF Packet
    <3>4. Answer(t) \in AnswersTo(call[t].kind)
      BY <1>2, <3>1, <3>3 DEF AnswersFit, AllFit, Answer
    <3> QED
      BY <3>1, <3>4 DEF AnswersTo
  <2>4. CASE WriteTimeout(t) \/ ReadTimeout(t) \/ LoseAgent(t) \/ StealNothing(t)
    BY <2>2, <2>4 DEF WriteTimeout, ReadTimeout, LoseAgent, StealNothing, IoErrors
  <2> QED
    BY <1>2, <2>3, <2>4 DEF Step, Lock, WritePacket, ReadPiece, Succeed, Return
<1>3. IInv /\ AnswersFit /\ [Next]_vars =>
        [controlPipe /\ ~controlPipe' =>
           \/ freed'
           \/ \E t \in Threads : /\ pc[t] # "idle"
                                /\ \/ result'[t] \in IoErrors \cup {"noHandle"}
                                   \/ call[t].kind = "processList" /\ result'[t] = "badPacket"]_vars
  BY <1>2 DEF Next, Invoke, Free, HandlePacket, SendPiece, AgentExits
<1>4. Spec => [](IInv /\ AnswersFit)
  BY <1>1, InitInvariant, NextInvariant, AnswersFitStep, PTL DEF Spec
<1> QED
  BY <1>3, <1>4, PTL DEF Spec, ClosedOnlyForCause

=============================================================================
