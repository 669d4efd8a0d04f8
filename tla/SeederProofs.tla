---------------------------- MODULE SeederProofs ----------------------------
(***************************************************************************)
(* Proofs about Seeder for any number of workers, batches, failures and    *)
(* moves of the target: the types, that a run which reports success has    *)
(* posted and had acknowledged every batch once, and that the error it     *)
(* reports is the one that stopped it.                                     *)
(***************************************************************************)
EXTENDS Seeder, TLAPS

-----------------------------------------------------------------------------
(* Types                                                                    *)

(* A worker that posts, or deals with the error of its post, holds a batch, *)
(* and a generator that sends has one to send.                              *)
Holding ==
    /\ \A w \in Workers :
          pc[w] \in {"post", "abort", "record", "cancel"} => batch[w] \in Batches
    /\ gen = "send" => next \in Batches

Typed == TypeOK /\ Holding

(* The first state has its types.                                           *)
LEMMA TypeInit == Init => Typed
PROOF
  <1> SUFFICES ASSUME Init PROVE Typed
    OBVIOUS
  <1>1. queue \in Seq(Batches) /\ Len(queue) = 0
    BY DEF Init
  <1>2. posts \in [Batches -> Nat] /\ acked \subseteq Batches
    BY DEF Init
  <1>3. /\ draining \in BOOLEAN /\ closed \in BOOLEAN /\ cancelled \in BOOLEAN
        /\ byCaller \in BOOLEAN
    BY DEF Init
  <1>4. next \in 1..(NumBatches + 1) /\ 0 <= QueueCap
    BY SeederAssumption DEF Init, QueueCap
  <1>5. Holding
    BY DEF Init, Holding
  <1> QED
    BY <1>1, <1>2, <1>3, <1>4, <1>5, SeederAssumption DEF Init, Typed, TypeOK

(* A generator's step keeps the types; the channel has room when it sends.  *)
LEMMA TypeGenerator == Typed /\ Generator => Typed'
PROOF
  <1> SUFFICES ASSUME Typed, Generator PROVE Typed'
    OBVIOUS
  <1> USE SeederAssumption DEF Typed, workerVars
  <1>1. Holding'
    BY DEF Generator, Check, Send, StopSending, Drain, Close, Holding, TypeOK, Batches
  <1>2. CASE Check
    BY <1>1, <1>2 DEF Check, TypeOK
  <1>3. CASE Send
    <2>1. next \in Batches
      BY <1>3 DEF Send, Holding
    <2>2. queue' \in Seq(Batches) /\ Len(queue') = Len(queue) + 1
      BY <1>3, <2>1 DEF Send, TypeOK
    <2>3. Len(queue) \in Nat /\ Len(queue) < QueueCap /\ QueueCap \in Nat
      BY <1>3 DEF Send, HasRoom, TypeOK, QueueCap
    <2>4. Len(queue') <= QueueCap /\ next' \in 1..(NumBatches + 1)
      BY <1>3, <2>1, <2>2, <2>3 DEF Send, Batches
    <2> QED
      BY <1>1, <1>3, <2>2, <2>4 DEF Send, TypeOK
  <1>4. CASE StopSending \/ Drain \/ Close
    BY <1>1, <1>4 DEF StopSending, Drain, Close, TypeOK
  <1> QED
    BY <1>2, <1>3, <1>4 DEF Generator

(* What a worker takes is the head of the channel.                          *)
LEMMA Taking ==
    ASSUME Typed, queue # <<>>
    PROVE  /\ Head(queue) \in Batches /\ Tail(queue) \in Seq(Batches)
           /\ Len(queue) \in Nat \ {0} /\ Len(Tail(queue)) = Len(queue) - 1
PROOF
  BY DEF Typed, TypeOK

(* A worker's step keeps the types.                                         *)
LEMMA TypeWorker ==
    ASSUME Typed, NEW w \in Workers, Worker(w)
    PROVE  Typed'
PROOF
  <1> USE SeederAssumption DEF Typed, genVars, At
  <1>0. Len(queue) \in Nat /\ QueueCap \in Nat /\ Len(queue) <= QueueCap
    BY DEF TypeOK, QueueCap
  <1>1. CASE Gate(w) \/ Poll(w) \/ Look(w) \/ GiveUp(w) \/ ChannelClosed(w)
    BY <1>1 DEF Gate, Poll, Look, GiveUp, ChannelClosed, TypeOK, Holding
  <1>2. CASE Receive(w)
    <2>1. /\ Head(queue) \in Batches /\ queue' \in Seq(Batches)
          /\ Len(queue') = Len(queue) - 1
      BY <1>2, Taking DEF Receive
    <2>2. posts' \in [Batches -> Nat]
      BY <1>2, <2>1 DEF Receive, TypeOK
    <2>3. batch' = [batch EXCEPT ![w] = Head(queue)]
      BY <1>2 DEF Receive
    <2>4. pc' \in [Workers -> {"gate", "poll", "look", "receive", "post", "abort",
                               "record", "cancel", "done"}]
      BY <1>2 DEF Receive, TypeOK
    <2>5. Holding'
      BY <1>2, <2>1, <2>3 DEF Receive, TypeOK, Holding
    <2> QED
      BY <1>0, <1>2, <2>1, <2>2, <2>3, <2>4, <2>5 DEF Receive, TypeOK
  <1>3. CASE Acknowledged(w)
    <2>1. batch[w] \in Batches
      BY <1>3 DEF Acknowledged, Holding
    <2> QED
      BY <1>3, <2>1 DEF Acknowledged, TypeOK, Holding
  <1>4. CASE EndpointFails(w)
    BY <1>4 DEF EndpointFails, Meet, Errors, TypeOK, Holding
  <1>5. CASE Aborted(w)
    BY <1>5 DEF Aborted, Meet, Errors, TypeOK, Holding
  <1>6. CASE Record(w)
    BY <1>6 DEF Record, FirstError, TypeOK, Holding
  <1>7. CASE Cancel(w)
    <2>1. pc' = [pc EXCEPT ![w] = "done"] /\ cancelled' = TRUE
      BY <1>7 DEF Cancel
    <2>2. Holding'
      BY <1>7, <2>1 DEF Cancel, TypeOK, Holding
    <2> QED
      BY <1>7, <2>1, <2>2 DEF Cancel, TypeOK
  <1> QED
    BY <1>1, <1>2, <1>3, <1>4, <1>5, <1>6, <1>7 DEF Worker

(* Every step keeps the types.                                              *)
LEMMA TypeStep == Typed /\ [Next]_vars => Typed'
PROOF
  <1> SUFFICES ASSUME Typed, [Next]_vars PROVE Typed'
    OBVIOUS
  <1> USE SeederAssumption DEF Typed, genVars, workerVars
  <1>1. CASE Return
    <2>1. result' \in Errors \cup {"running", "ok"}
      <3>1. CASE generatorErr # NoError
        BY <1>1, <3>1 DEF Return, TypeOK
      <3>2. CASE generatorErr = NoError
        BY <1>1, <3>2 DEF Return, Errors
      <3> QED
        BY <3>1, <3>2
    <2>2. cancelled' = TRUE
      BY <1>1 DEF Return
    <2>3. UNCHANGED <<target, gen, next, draining, closed, queue, pc, batch, stash,
                      generatorErr, posts, acked, byCaller, retargets, faults>>
      BY <1>1 DEF Return
    <2>4. Holding'
      BY <2>3 DEF Holding
    <2> QED
      BY <2>1, <2>2, <2>3, <2>4 DEF TypeOK
  <1>2. CASE Retarget
    <2>1. retargets' \in 0..MaxRetargets
      BY <1>2 DEF Retarget, TypeOK
    <2>2. target' \in Targets
      BY <1>2 DEF Retarget
    <2>3. UNCHANGED <<gen, next, draining, closed, queue, cancelled, pc, batch, stash,
                      generatorErr, posts, acked, result, byCaller, faults>>
      BY <1>2 DEF Retarget
    <2>4. Holding'
      BY <2>3 DEF Holding
    <2> QED
      BY <2>1, <2>2, <2>3, <2>4 DEF TypeOK
  <1>3. CASE CallerCancels
    <2>1. cancelled' = TRUE /\ byCaller' = TRUE
      BY <1>3 DEF CallerCancels
    <2>2. UNCHANGED <<gen, next, draining, closed, queue, target, pc, batch, stash,
                      generatorErr, posts, acked, result, retargets, faults>>
      BY <1>3 DEF CallerCancels
    <2>3. Holding'
      BY <2>2 DEF Holding
    <2> QED
      BY <2>1, <2>2, <2>3 DEF TypeOK
  <1>4. CASE UNCHANGED vars
    BY <1>4 DEF vars, TypeOK, Holding
  <1> QED
    BY <1>1, <1>2, <1>3, <1>4, TypeGenerator, TypeWorker DEF Next, Over

(* Every variable keeps its type, and the channel its capacity.             *)
THEOREM TypeCorrect == Spec => []TypeOK
PROOF
  <1>1. Typed => TypeOK
    BY DEF Typed
  <1> QED
    BY <1>1, TypeInit, TypeStep, PTL DEF Spec

-----------------------------------------------------------------------------
(* The error that stops a run                                               *)

(* While nobody called the run off, a cancelled one has an error on record  *)
(* that is not itself a cancellation: a worker cancels only after it has    *)
(* recorded, and meets a cancellation only after somebody else did.         *)
Caused ==
    /\ \A w \in Workers :
          /\ pc[w] = "record" => stash[w] # NoError
          /\ pc[w] = "abort" => cancelled
          /\ pc[w] = "cancel" => generatorErr # NoError
    /\ result # "running" => \A w \in Workers : pc[w] = "done"
    /\ ~ byCaller =>
          /\ cancelled /\ result = "running" => generatorErr # NoError
          /\ generatorErr # "cancelled" /\ result # "cancelled"
          /\ \A w \in Workers : pc[w] = "record" /\ stash[w] = "cancelled"
                                => generatorErr # NoError

(* At first there is no error.                                              *)
LEMMA CausedInit == Init => Caused
PROOF
  BY DEF Init, Caused, NoError

(* No step of anybody makes a cancellation the cause.                       *)
LEMMA CausedStep == Typed /\ Caused /\ [Next]_vars => Caused'
PROOF
  <1> SUFFICES ASSUME Typed, Caused, [Next]_vars PROVE Caused'
    OBVIOUS
  <1> USE DEF Typed, TypeOK
  <1>1. CASE Generator
    BY <1>1 DEF Generator, Check, Send, StopSending, Drain, Close, workerVars, Caused
  <1>2. ASSUME NEW w \in Workers, Worker(w) PROVE Caused'
    <2>0. pc[w] # "done"
      BY <1>2 DEF Worker, Gate, Poll, Look, GiveUp, Receive, ChannelClosed,
                  Acknowledged, EndpointFails, Aborted, Record, Cancel
    <2>1. result = "running" /\ result' = result /\ byCaller' = byCaller
      BY <1>2, <2>0 DEF Caused, Worker, Gate, Poll, Look, GiveUp, Receive, ChannelClosed,
                        Acknowledged, EndpointFails, Aborted, Meet, Record, Cancel
    <2>2. CASE Gate(w) \/ Poll(w) \/ Look(w) \/ GiveUp(w) \/ ChannelClosed(w)
      BY <2>1, <2>2 DEF Gate, Poll, Look, GiveUp, ChannelClosed, At, Caused
    <2>3. CASE Receive(w)
      BY <2>1, <2>3 DEF Receive, At, Caused
    <2>4. CASE Acknowledged(w)
      BY <2>1, <2>4 DEF Acknowledged, At, Caused
    <2>5. CASE EndpointFails(w)
      BY <2>1, <2>5 DEF EndpointFails, Meet, At, Caused, NoError
    <2>6. CASE Aborted(w)
      BY <2>1, <2>6 DEF Aborted, Meet, At, Caused, NoError
    <2>7. CASE Record(w)
      BY <2>1, <2>7 DEF Record, FirstError, At, Caused, NoError
    <2>8. CASE Cancel(w)
      BY <2>1, <2>8 DEF Cancel, At, Caused
    <2> QED
      BY <1>2, <2>2, <2>3, <2>4, <2>5, <2>6, <2>7, <2>8 DEF Worker
  <1>3. CASE Return
    BY <1>3 DEF Return, Caused, workerVars, NoError
  <1>4. CASE Retarget \/ CallerCancels
    BY <1>4 DEF Retarget, CallerCancels, Caused, workerVars
  <1>5. CASE UNCHANGED vars
    BY <1>5 DEF vars, Caused, workerVars
  <1> QED
    BY <1>1, <1>2, <1>3, <1>4, <1>5 DEF Next, Over

(* A run reports a cancellation only when its caller cancelled it.          *)
THEOREM RootCause == Spec => []RootCauseReported
PROOF
  <1>1. Caused => RootCauseReported
    BY DEF Caused, RootCauseReported
  <1>2. Typed /\ Caused /\ [Next]_vars => (Typed /\ Caused)'
    BY TypeStep, CausedStep
  <1> QED
    BY <1>1, <1>2, TypeInit, CausedInit, PTL DEF Spec

-----------------------------------------------------------------------------
(* What success means                                                       *)

(* Of the batches produced, the last Len(queue) are in the channel.         *)
Taken == next - 1 - Len(queue)

(* The batches are in the channel in their order.                           *)
InOrder == Len(queue) < next /\ \A i \in 1..Len(queue) : queue[i] = Taken + i

(* In a run that was not cancelled the generator stops only at the end, and *)
(* worker zero, whose number is below every target, leaves only an empty    *)
(* channel that is closed.                                                  *)
NoneLeft ==
    /\ closed <=> gen = "done"
    /\ ~ cancelled =>
          /\ gen \in {"drain", "close", "done"} => next = NumBatches + 1
          /\ pc[0] \notin {"poll", "look"}
          /\ pc[0] = "done" => closed /\ queue = <<>>

(* In a run that was not cancelled every batch taken from the channel was   *)
(* posted once, and is acknowledged or in the hands of a worker that is not *)
(* done.                                                                    *)
Accounted ==
    ~ cancelled =>
        /\ \A b \in Batches : posts[b] = IF b <= Taken THEN 1 ELSE 0
        /\ \A b \in Batches :
              b <= Taken => \/ b \in acked
                            \/ \E w \in Workers : batch[w] = b /\ pc[w] # "done"
        /\ \A w \in Workers :
              pc[w] \notin {"post", "record", "cancel"} => batch[w] = NoBatch

Complete == InOrder /\ NoneLeft /\ Accounted /\ Caused /\ SuccessMeansAll

(* At first nothing is produced.                                            *)
LEMMA CompleteInit == Init => Complete
PROOF
  <1> SUFFICES ASSUME Init PROVE Complete
    OBVIOUS
  <1>1. Len(queue) = 0 /\ Taken = 0 /\ next = 1
    <2>1. queue = <<>> /\ next = 1
      BY DEF Init
    <2>2. Len(queue) = 0
      BY <2>1
    <2>3. next - 1 - Len(queue) = 1 - 1 - 0
      BY <2>1, <2>2, Zenon
    <2>4. Taken = 0
      BY <2>3 DEF Taken
    <2> QED
      BY <2>1, <2>2, <2>4
  <1>2. InOrder
    BY <1>1 DEF InOrder
  <1>3. NoneLeft
    <2>1. gen = "check" /\ closed = FALSE
      BY DEF Init
    <2>2. pc[0] = "gate"
      BY SeederAssumption DEF Init, Workers
    <2> QED
      BY <2>1, <2>2 DEF NoneLeft
  <1>4. Accounted
    BY <1>1 DEF Init, Accounted, Batches
  <1> QED
    BY <1>2, <1>3, <1>4, CausedInit DEF Init, Complete, SuccessMeansAll

(* The generator adds a batch at the end of the channel, and stops at the   *)
(* end of the window or when it is cancelled.                               *)
LEMMA CompleteGenerator == Typed /\ Complete /\ Generator => Complete'
PROOF
  <1> SUFFICES ASSUME Typed, Complete, Generator PROVE Complete'
    OBVIOUS
  <1> USE SeederAssumption DEF Complete, workerVars
  <1>0. next \in Nat /\ Len(queue) \in Nat /\ NumBatches \in Nat
    BY DEF Typed, TypeOK
  <1>1. Caused'
    BY CausedStep DEF Next
  <1>2. SuccessMeansAll'
    BY DEF Generator, Check, Send, StopSending, Drain, Close, SuccessMeansAll
  <1>3. CASE Send
    <2>1. /\ queue' = Append(queue, next) /\ next' = next + 1 /\ gen = "send" /\ gen' = "check"
          /\ UNCHANGED <<closed, cancelled, pc, batch, posts, acked>>
      BY <1>3 DEF Send
    <2>2. /\ Len(queue') = Len(queue) + 1
          /\ \A i \in 1..Len(queue) : queue'[i] = queue[i]
          /\ queue'[Len(queue) + 1] = next
      BY <2>1 DEF Typed, TypeOK
    <2>3. Taken' = Taken
      BY <1>0, <2>1, <2>2 DEF Taken
    <2>4. InOrder'
      <3>1. ASSUME NEW i \in 1..Len(queue') PROVE queue'[i] = Taken + i
        <4>1. CASE i = Len(queue) + 1
          BY <1>0, <2>2, <4>1 DEF Taken
        <4>2. CASE i \in 1..Len(queue)
          BY <2>2, <4>2 DEF InOrder
        <4> QED
          BY <1>0, <2>2, <4>1, <4>2
      <3> QED
        BY <1>0, <2>1, <2>2, <2>3, <3>1 DEF InOrder
    <2>5. NoneLeft'
      BY <2>1 DEF NoneLeft
    <2>6. Accounted'
      BY <2>1, <2>3 DEF Accounted
    <2> QED
      BY <1>1, <1>2, <2>4, <2>5, <2>6
  <1>4. CASE Check \/ StopSending \/ Drain \/ Close
    <2>1. UNCHANGED <<queue, next, cancelled, pc, batch, posts, acked>>
      BY <1>4 DEF Check, StopSending, Drain, Close
    <2>2. Taken' = Taken
      BY <2>1 DEF Taken
    <2>3. InOrder' /\ Accounted'
      BY <2>1, <2>2 DEF InOrder, Accounted
    <2>4. NoneLeft'
      <3>1. next <= NumBatches + 1
        BY DEF Typed, TypeOK
      <3> QED
        BY <1>0, <1>4, <3>1 DEF Check, StopSending, Drain, Close, NoneLeft
    <2> QED
      BY <1>1, <1>2, <2>3, <2>4
  <1> QED
    BY <1>3, <1>4 DEF Generator

(* A worker takes the first batch of the channel and keeps it until it is   *)
(* acknowledged, or leaves without one.                                     *)
LEMMA CompleteWorker ==
    ASSUME Typed, Complete, NEW w \in Workers, Worker(w)
    PROVE  Complete'
PROOF
  <1> USE SeederAssumption DEF Complete, genVars
  <1>0. /\ next \in Nat /\ Len(queue) \in Nat /\ NumBatches \in Nat
        /\ 0 \in Workers /\ 0 < target
    BY DEF Typed, TypeOK, Workers, Targets
  <1>1. /\ DOMAIN pc = Workers /\ DOMAIN batch = Workers /\ DOMAIN posts = Batches
        /\ \A b \in Batches : posts[b] \in Nat /\ b \in Nat /\ b # NoBatch
    BY DEF Typed, TypeOK, Batches, NoBatch
  <1>2. Caused'
    BY CausedStep DEF Next
  <1>3. pc[w] # "done" /\ result = "running" /\ result' = result
    <2>1. pc[w] # "done"
      BY DEF Worker, Gate, Poll, Look, GiveUp, Receive, ChannelClosed,
             Acknowledged, EndpointFails, Aborted, Record, Cancel
    <2> QED
      BY <2>1 DEF Caused, Worker, Gate, Poll, Look, GiveUp, Receive, ChannelClosed,
                  Acknowledged, EndpointFails, Aborted, Meet, Record, Cancel
  <1>4. SuccessMeansAll'
    BY <1>3 DEF SuccessMeansAll
  <1>5. CASE Gate(w) \/ Poll(w) \/ Look(w) \/ GiveUp(w) \/ ChannelClosed(w)
    <2>1. UNCHANGED <<queue, next, gen, closed, cancelled, batch, posts, acked>>
      BY <1>5 DEF Gate, Poll, Look, GiveUp, ChannelClosed
    <2>2. PICK place \in {"receive", "poll", "look", "done"} :
             /\ pc' = [pc EXCEPT ![w] = place]
             /\ pc[w] \in {"gate", "poll", "look", "receive"}
      BY <1>5 DEF Gate, Poll, Look, GiveUp, ChannelClosed, At
    <2>3. InOrder' /\ Taken' = Taken
      BY <2>1 DEF InOrder, Taken
    <2>4. NoneLeft'
      <3>1. CASE w # 0
        BY <1>0, <1>1, <2>1, <2>2, <3>1 DEF NoneLeft
      <3>2. CASE w = 0
        BY <1>0, <1>1, <1>5, <2>1, <3>2
        DEF NoneLeft, Gate, Permitted, Poll, Look, GiveUp, ChannelClosed, At
      <3> QED
        BY <3>1, <3>2
    <2>5. Accounted'
      <3>1. ASSUME ~ cancelled, NEW b \in Batches, b <= Taken
            PROVE  b \in acked \/ \E v \in Workers : batch[v] = b /\ pc'[v] # "done"
        <4>1. CASE b \in acked
          BY <4>1
        <4>2. ASSUME NEW v \in Workers, batch[v] = b, pc[v] # "done"
              PROVE  pc'[v] # "done"
          <5>1. v # w
            BY <1>1, <2>2, <3>1, <4>2 DEF Accounted
          <5> QED
            BY <1>1, <2>2, <4>2, <5>1
        <4> QED
          BY <3>1, <4>1, <4>2 DEF Accounted
      <3>2. ASSUME ~ cancelled, NEW v \in Workers, pc'[v] \notin {"post", "record", "cancel"}
            PROVE  batch[v] = NoBatch
        BY <1>1, <2>2, <3>2 DEF Accounted
      <3> QED
        BY <2>1, <2>3, <3>1, <3>2 DEF Accounted
    <2> QED
      BY <1>2, <1>4, <2>3, <2>4, <2>5
  <1>6. CASE Receive(w)
    <2> DEFINE b == Head(queue)
    <2>1. /\ pc[w] = "receive" /\ queue # <<>> /\ batch' = [batch EXCEPT ![w] = b]
          /\ queue' = Tail(queue)
          /\ UNCHANGED <<next, gen, closed, cancelled, acked>>
      BY <1>6 DEF Receive
    <2>2. /\ Len(queue) > 0 /\ Len(queue') = Len(queue) - 1 /\ b = queue[1]
          /\ \A i \in 1..Len(queue') : queue'[i] = queue[i + 1]
      BY <2>1 DEF Typed, TypeOK
    <2>3. b = Taken + 1 /\ b \in Batches /\ Taken' = Taken + 1 /\ Taken \in Nat
      BY <1>0, <2>1, <2>2, Taking DEF InOrder, Taken
    <2>4. InOrder'
      <3>1. ASSUME NEW i \in 1..Len(queue') PROVE queue'[i] = Taken' + i
        <4>1. i + 1 \in 1..Len(queue)
          BY <1>0, <2>2
        <4> QED
          BY <1>0, <2>2, <2>3, <4>1 DEF InOrder, Taken
      <3> QED
        BY <1>0, <2>1, <2>2, <3>1 DEF InOrder
    <2>5. CASE cancelled
      BY <1>2, <1>4, <2>1, <2>4, <2>5 DEF NoneLeft, Accounted
    <2>6. CASE ~ cancelled
      <3>1. pc' = [pc EXCEPT ![w] = "post"] /\ posts' = [posts EXCEPT ![b] = @ + 1]
        BY <1>6, <2>6 DEF Receive, At
      <3> HIDE DEF b
      <3>2. NoneLeft'
        BY <1>0, <1>1, <2>1, <3>1 DEF NoneLeft
      <3>3. ASSUME NEW c \in Batches
            PROVE  posts'[c] = IF c <= Taken' THEN 1 ELSE 0
        BY <1>1, <2>3, <2>6, <3>1 DEF Accounted
      <3>4. ASSUME NEW c \in Batches, c <= Taken'
            PROVE  c \in acked \/ \E v \in Workers : batch'[v] = c /\ pc'[v] # "done"
        <4>1. CASE c = b
          BY <1>1, <2>1, <3>1, <4>1
        <4>2. CASE c # b
          <5>1. c <= Taken
            BY <1>1, <2>3, <3>4, <4>2
          <5>2. ASSUME NEW v \in Workers, batch[v] = c, pc[v] # "done"
                PROVE  batch'[v] = c /\ pc'[v] # "done"
            <6>1. v # w
              BY <1>1, <2>1, <2>6, <5>2 DEF Accounted
            <6> QED
              BY <1>1, <2>1, <3>1, <5>2, <6>1
          <5> QED
            BY <2>6, <5>1, <5>2 DEF Accounted
        <4> QED
          BY <4>1, <4>2
      <3>5. ASSUME NEW v \in Workers, pc'[v] \notin {"post", "record", "cancel"}
            PROVE  batch'[v] = NoBatch
        <4>1. v # w
          BY <1>1, <3>1, <3>5
        <4> QED
          BY <1>1, <2>1, <2>6, <3>1, <3>5, <4>1 DEF Accounted
      <3>6. Accounted'
        BY <2>1, <3>3, <3>4, <3>5 DEF Accounted
      <3> QED
        BY <1>2, <1>4, <2>4, <3>2, <3>6
    <2> QED
      BY <2>5, <2>6
  <1>7. CASE Acknowledged(w)
    <2>1. /\ pc[w] = "post" /\ acked' = acked \cup {batch[w]}
          /\ batch' = [batch EXCEPT ![w] = NoBatch] /\ pc' = [pc EXCEPT ![w] = "gate"]
          /\ UNCHANGED <<queue, next, gen, closed, cancelled, posts>>
      BY <1>7 DEF Acknowledged, At
    <2>2. InOrder' /\ Taken' = Taken
      BY <2>1 DEF InOrder, Taken
    <2>3. NoneLeft'
      BY <1>0, <1>1, <2>1 DEF NoneLeft
    <2>4. Accounted'
      <3>1. ASSUME ~ cancelled, NEW b \in Batches, b <= Taken
            PROVE  b \in acked' \/ \E v \in Workers : batch'[v] = b /\ pc'[v] # "done"
        <4>1. CASE b \in acked'
          BY <4>1
        <4>2. ASSUME b \notin acked', NEW v \in Workers, batch[v] = b, pc[v] # "done"
              PROVE  batch'[v] = b /\ pc'[v] # "done"
          <5>1. v # w
            BY <2>1, <4>2
          <5> QED
            BY <1>1, <2>1, <4>2, <5>1
        <4> QED
          BY <2>1, <3>1, <4>1, <4>2 DEF Accounted
      <3>2. ASSUME ~ cancelled, NEW v \in Workers, pc'[v] \notin {"post", "record", "cancel"}
            PROVE  batch'[v] = NoBatch
        BY <1>1, <2>1, <3>2 DEF Accounted
      <3> QED
        BY <2>1, <2>2, <3>1, <3>2 DEF Accounted
    <2> QED
      BY <1>2, <1>4, <2>2, <2>3, <2>4
  <1>8. CASE EndpointFails(w) \/ Aborted(w) \/ Record(w)
    <2>1. PICK place \in {"record", "cancel"} :
             /\ pc' = [pc EXCEPT ![w] = place] /\ pc[w] \in {"post", "abort", "record"}
             /\ pc[w] = "abort" => cancelled
             /\ UNCHANGED <<queue, next, gen, closed, cancelled, posts, batch, acked>>
      BY <1>8 DEF EndpointFails, Aborted, Meet, Record, At, Caused
    <2>2. InOrder' /\ Taken' = Taken
      BY <2>1 DEF InOrder, Taken
    <2>3. NoneLeft'
      BY <1>0, <1>1, <2>1 DEF NoneLeft
    <2>4. Accounted'
      <3>1. \A v \in Workers : pc[v] # "done" => pc'[v] # "done"
        BY <1>1, <2>1
      <3>2. ASSUME ~ cancelled, NEW v \in Workers, pc'[v] \notin {"post", "record", "cancel"}
            PROVE  batch[v] = NoBatch
        BY <1>1, <2>1, <3>2 DEF Accounted
      <3> QED
        BY <2>1, <2>2, <3>1, <3>2 DEF Accounted
    <2> QED
      BY <1>2, <1>4, <2>2, <2>3, <2>4
  <1>9. CASE Cancel(w)
    <2>1. cancelled' /\ UNCHANGED <<queue, next, gen, closed>>
      BY <1>9 DEF Cancel
    <2> QED
      BY <1>2, <1>4, <2>1 DEF InOrder, Taken, NoneLeft, Accounted
  <1> QED
    BY <1>5, <1>6, <1>7, <1>8, <1>9 DEF Worker

(* When all workers are done, the run was not cancelled and nothing failed, *)
(* every batch is acknowledged.                                             *)
LEMMA CompleteReturn == Typed /\ Complete /\ Return => Complete'
PROOF
  <1> SUFFICES ASSUME Typed, Complete, Return PROVE Complete'
    OBVIOUS
  <1> USE SeederAssumption DEF Complete, genVars, workerVars
  <1>1. Caused'
    BY CausedStep DEF Next
  <1>2. /\ \A w \in Workers : pc[w] = "done"
        /\ cancelled' /\ UNCHANGED <<gen, next, closed, queue, posts, acked>>
        /\ cancelled => result' # "ok"
    BY DEF Return, Typed, TypeOK, NoError, Errors
  <1>3. InOrder' /\ NoneLeft' /\ Accounted'
    BY <1>2 DEF InOrder, Taken, NoneLeft, Accounted
  <1>4. ASSUME ~ cancelled PROVE acked = Batches /\ \A b \in Batches : posts[b] = 1
    <2>1. 0 \in Workers
      BY DEF Workers
    <2>2. queue = <<>> /\ gen = "done" /\ next = NumBatches + 1
      BY <1>2, <1>4, <2>1 DEF NoneLeft
    <2>3. Taken = NumBatches
      BY <2>2 DEF Taken
    <2>4. \A b \in Batches : b <= Taken
      BY <2>3 DEF Batches
    <2>5. \A b \in Batches : posts[b] = 1 /\ b \in acked
      BY <1>2, <1>4, <2>4 DEF Accounted
    <2> QED
      BY <2>5 DEF Typed, TypeOK
  <1>5. SuccessMeansAll'
    BY <1>2, <1>4 DEF SuccessMeansAll
  <1> QED
    BY <1>1, <1>3, <1>5

(* Every step.                                                              *)
LEMMA CompleteStep == Typed /\ Complete /\ [Next]_vars => Complete'
PROOF
  <1> SUFFICES ASSUME Typed, Complete, [Next]_vars PROVE Complete'
    OBVIOUS
  <1>1. Caused'
    BY CausedStep DEF Complete
  <1>2. CASE Retarget \/ CallerCancels
    BY <1>1, <1>2 DEF Retarget, CallerCancels, Complete, InOrder, Taken, NoneLeft, Accounted,
                      SuccessMeansAll, genVars, workerVars
  <1>3. CASE UNCHANGED vars
    BY <1>1, <1>3 DEF vars, Complete, InOrder, Taken, NoneLeft, Accounted, SuccessMeansAll,
                      genVars, workerVars
  <1> QED
    BY <1>2, <1>3, CompleteGenerator, CompleteWorker, CompleteReturn DEF Next, Over

(* A run that reports success had every batch posted once and acknowledged. *)
THEOREM SuccessComplete == Spec => []SuccessMeansAll
PROOF
  <1>1. Complete => SuccessMeansAll
    BY DEF Complete
  <1>2. Typed /\ Complete /\ [Next]_vars => (Typed /\ Complete)'
    BY TypeStep, CompleteStep
  <1> QED
    BY <1>1, <1>2, TypeInit, CompleteInit, PTL DEF Spec
=============================================================================
