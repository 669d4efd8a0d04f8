------------------------------- MODULE Seeder -------------------------------
(***************************************************************************)
(* The seeding pipeline of ch-seed-long (runStream in                      *)
(* cmd/ch-seed-long/seed.go, concurrencyLimiter in token_bucket.go): one   *)
(* generator fills a buffered channel with batches, MaxConcurrency workers *)
(* post them to a remote-write endpoint.  A worker passes the limiter      *)
(* before it takes a batch: its number must lie below a target that the    *)
(* regulator and the health probe move about (SeedThrottle).  The first    *)
(* failed batch cancels the run.                                           *)
(***************************************************************************)
EXTENDS Integers, Sequences

CONSTANTS
    MaxConcurrency, \* number of workers
    NumBatches,     \* batches with samples in the time window
    MaxRetargets,   \* bound on the changes of the target
    MaxFaults       \* bound on batches the endpoint fails

ASSUME SeederAssumption ==
    /\ MaxConcurrency \in Nat \ {0} /\ NumBatches \in Nat
    /\ MaxRetargets \in Nat /\ MaxFaults \in Nat

Workers == 0..(MaxConcurrency - 1)
Batches == 1..NumBatches
QueueCap == 2 * MaxConcurrency
Targets == 1..MaxConcurrency

VARIABLES
    target,         \* the concurrency target
    gen, next,      \* the generator: where it is, the batch it produces next
    queue,          \* the channel `requests`
    draining,       \* the limiter's flag
    closed,         \* close(requests) happened
    cancelled,      \* the run's context is done
    pc, batch,      \* the workers: where they are, the batch they hold
    stash,          \* the error each worker met
    generatorErr,   \* the error the run will report
    result,         \* what runStream returned, "running" before that
    posts, acked,   \* (history) how often each batch was posted; those acknowledged
    byCaller,       \* (history) the caller cancelled the run
    retargets, faults

genVars == <<gen, next, draining, closed>>
workerVars == <<pc, batch, stash, generatorErr, posts, acked>>
vars == <<target, genVars, queue, cancelled, workerVars, result, byCaller,
          retargets, faults>>

NoBatch == 0
NoError == "none"
Errors == {"endpoint", "cancelled"}

Init ==
    /\ target \in Targets
    /\ gen = "check" /\ next = 1 /\ queue = <<>>
    /\ draining = FALSE /\ closed = FALSE /\ cancelled = FALSE
    /\ pc = [w \in Workers |-> "gate"]
    /\ batch = [w \in Workers |-> NoBatch]
    /\ stash = [w \in Workers |-> NoError]
    /\ generatorErr = NoError
    /\ result = "running"
    /\ posts = [b \in Batches |-> 0] /\ acked = {}
    /\ byCaller = FALSE /\ retargets = 0 /\ faults = 0

-----------------------------------------------------------------------------
(* The generator                                                            *)

(* Top of the loop: stop at the end of the window or when cancelled.        *)
Check ==
    /\ gen = "check"
    /\ gen' = IF next > NumBatches \/ cancelled THEN "drain" ELSE "send"
    /\ UNCHANGED <<target, next, queue, draining, closed, cancelled, workerVars,
                   result, byCaller, retargets, faults>>

(* The select: when the context is done and there is room, either may win.  *)
HasRoom == Len(queue) < QueueCap
Send ==
    /\ gen = "send"
    /\ HasRoom
    /\ queue' = Append(queue, next)
    /\ next' = next + 1
    /\ gen' = "check"
    /\ UNCHANGED <<target, draining, closed, cancelled, workerVars, result,
                   byCaller, retargets, faults>>
StopSending ==
    /\ gen = "send"
    /\ cancelled
    /\ gen' = "drain"
    /\ UNCHANGED <<target, next, queue, draining, closed, cancelled, workerVars,
                   result, byCaller, retargets, faults>>

(* The deferred function: raise the flag, then close the channel, whichever *)
(* way the loop ended.                                                      *)
Drain ==
    /\ gen = "drain"
    /\ draining' = TRUE
    /\ gen' = "close"
    /\ UNCHANGED <<target, next, queue, closed, cancelled, workerVars, result,
                   byCaller, retargets, faults>>
Close ==
    /\ gen = "close"
    /\ closed' = TRUE
    /\ gen' = "done"
    /\ UNCHANGED <<target, next, queue, draining, cancelled, workerVars, result,
                   byCaller, retargets, faults>>

Generator == Check \/ Send \/ StopSending \/ Drain \/ Close

-----------------------------------------------------------------------------
(* A worker                                                                 *)

At(w, place) == pc' = [pc EXCEPT ![w] = place]

(* waitForSlot, fast path: nothing but the target is looked at.             *)
UnlessDraining(w) == w < target /\ ~draining
Permitted(w) == w < target
Gate(w) ==
    /\ pc[w] = "gate"
    /\ At(w, IF Permitted(w) THEN "receive" ELSE "poll")
    /\ UNCHANGED <<target, genVars, queue, cancelled, batch, stash, generatorErr,
                   posts, acked, result, byCaller, retargets, faults>>

(* Slow path: after each poll interval first the flag is read, then the     *)
(* target.                                                                  *)
NeverDrained(w) == FALSE
Drained(w) == draining
Poll(w) ==
    /\ pc[w] = "poll"
    /\ At(w, IF Drained(w) THEN "done" ELSE "look")
    /\ UNCHANGED <<target, genVars, queue, cancelled, batch, stash, generatorErr,
                   posts, acked, result, byCaller, retargets, faults>>
Look(w) ==
    /\ pc[w] = "look"
    /\ At(w, IF w < target THEN "receive" ELSE "poll")
    /\ UNCHANGED <<target, genVars, queue, cancelled, batch, stash, generatorErr,
                   posts, acked, result, byCaller, retargets, faults>>
GiveUp(w) ==
    /\ pc[w] = "poll"
    /\ cancelled
    /\ At(w, "done")
    /\ UNCHANGED <<target, genVars, queue, cancelled, batch, stash, generatorErr,
                   posts, acked, result, byCaller, retargets, faults>>

(* The target is not looked at again, and the context neither: a batch that *)
(* is taken under a cancelled context is not sent, its request fails.       *)
Receive(w) ==
    /\ pc[w] = "receive"
    /\ queue # <<>>
    /\ LET b == Head(queue) IN
         /\ batch' = [batch EXCEPT ![w] = b]
         /\ posts' = IF cancelled THEN posts ELSE [posts EXCEPT ![b] = @ + 1]
    /\ queue' = Tail(queue)
    /\ At(w, IF cancelled THEN "abort" ELSE "post")
    /\ UNCHANGED <<target, genVars, cancelled, stash, generatorErr, acked, result,
                   byCaller, retargets, faults>>
ChannelClosed(w) ==
    /\ pc[w] = "receive"
    /\ queue = <<>>
    /\ closed
    /\ At(w, "done")
    /\ UNCHANGED <<target, genVars, queue, cancelled, batch, stash, generatorErr,
                   posts, acked, result, byCaller, retargets, faults>>

Acknowledged(w) ==
    /\ pc[w] = "post"
    /\ acked' = acked \cup {batch[w]}
    /\ batch' = [batch EXCEPT ![w] = NoBatch]
    /\ At(w, "gate")
    /\ UNCHANGED <<target, genVars, queue, cancelled, stash, generatorErr, posts,
                   result, byCaller, retargets, faults>>

Meet(w, error) ==
    /\ stash' = [stash EXCEPT ![w] = error]
    /\ At(w, "record")
    /\ UNCHANGED <<target, genVars, queue, cancelled, batch, generatorErr, posts,
                   acked, result, byCaller, retargets>>
EndpointFails(w) ==
    /\ pc[w] = "post"
    /\ faults < MaxFaults
    /\ faults' = faults + 1
    /\ Meet(w, "endpoint")
Aborted(w) ==
    /\ \/ pc[w] = "abort"
       \/ pc[w] = "post" /\ cancelled
    /\ Meet(w, "cancelled")
    /\ UNCHANGED faults

(* Any error is fatal: it is kept unless there is one already, and then the *)
(* run is cancelled.                                                        *)
LastError(w) == stash[w]
FirstError(w) == IF generatorErr = NoError THEN stash[w] ELSE generatorErr
Record(w) ==
    /\ pc[w] = "record"
    /\ generatorErr' = FirstError(w)
    /\ At(w, "cancel")
    /\ UNCHANGED <<target, genVars, queue, cancelled, batch, stash, posts, acked,
                   result, byCaller, retargets, faults>>
Cancel(w) ==
    /\ pc[w] = "cancel"
    /\ cancelled' = TRUE
    /\ At(w, "done")
    /\ UNCHANGED <<target, genVars, queue, batch, stash, generatorErr, posts,
                   acked, result, byCaller, retargets, faults>>

Worker(w) ==
    \/ Gate(w) \/ Poll(w) \/ Look(w) \/ GiveUp(w)
    \/ Receive(w) \/ ChannelClosed(w)
    \/ Acknowledged(w) \/ EndpointFails(w) \/ Aborted(w)
    \/ Record(w) \/ Cancel(w)

-----------------------------------------------------------------------------
(* runStream waits for all workers, and for nobody else; its deferred       *)
(* cancel ends whoever is left.                                             *)
Return ==
    /\ result = "running"
    /\ \A w \in Workers : pc[w] = "done"
    /\ result' = IF generatorErr # NoError THEN generatorErr
                 ELSE IF cancelled THEN "cancelled" ELSE "ok"
    /\ cancelled' = TRUE
    /\ UNCHANGED <<target, genVars, queue, workerVars, byCaller, retargets, faults>>

(* The regulator and the probe                                              *)
Retarget ==
    /\ retargets < MaxRetargets
    /\ retargets' = retargets + 1
    /\ target' \in Targets \ {target}
    /\ UNCHANGED <<genVars, queue, cancelled, workerVars, result, byCaller, faults>>

CallerCancels ==
    /\ result = "running"
    /\ ~cancelled
    /\ cancelled' = TRUE
    /\ byCaller' = TRUE
    /\ UNCHANGED <<target, genVars, queue, workerVars, result, retargets, faults>>

Over == result # "running" /\ gen = "done" /\ UNCHANGED vars

Next ==
    \/ Generator
    \/ \E w \in Workers : Worker(w)
    \/ Return \/ Retarget \/ CallerCancels \/ Over

(* Goroutines are scheduled and a request ends (http.Client.Timeout).  A    *)
(* select that is entered with the context done finds it done long before   *)
(* its timer, hence SF on leaving the poll loop.                            *)
Fairness ==
    /\ WF_vars(Generator) /\ WF_vars(Return)
    /\ \A w \in Workers : WF_vars(Worker(w)) /\ SF_vars(GiveUp(w))

Spec == Init /\ [][Next]_vars /\ Fairness

-----------------------------------------------------------------------------
(* Properties                                                               *)

(* The types; the channel never holds more than its capacity.               *)
TypeOK ==
    /\ target \in Targets
    /\ gen \in {"check", "send", "drain", "close", "done"}
    /\ next \in 1..(NumBatches + 1)
    /\ queue \in Seq(Batches) /\ Len(queue) <= QueueCap
    /\ draining \in BOOLEAN /\ closed \in BOOLEAN /\ cancelled \in BOOLEAN
    /\ pc \in [Workers -> {"gate", "poll", "look", "receive", "post", "abort",
                           "record", "cancel", "done"}]
    /\ batch \in [Workers -> Batches \cup {NoBatch}]
    /\ stash \in [Workers -> Errors \cup {NoError}]
    /\ generatorErr \in Errors \cup {NoError}
    /\ result \in Errors \cup {"running", "ok"}
    /\ posts \in [Batches -> Nat] /\ acked \subseteq Batches
    /\ byCaller \in BOOLEAN
    /\ retargets \in 0..MaxRetargets /\ faults \in 0..MaxFaults

(* A run that reports success has had every batch acknowledged, and posted  *)
(* none twice: workers that leave early when the generator is done leave no *)
(* batch behind in the channel, however the target moved.                   *)
SuccessMeansAll ==
    result = "ok" => acked = Batches /\ \A b \in Batches : posts[b] = 1

(* The error a run reports is the one that stopped it: the cancellations it *)
(* sets off in the other workers never take its place.                      *)
RootCauseReported ==
    result = "cancelled" => byCaller

(* Every run comes to an end, and its generator with it: nobody waits for   *)
(* good on a channel that is full, empty, or never closed, or parked above  *)
(* the target.                                                              *)
Terminates == <>(result # "running" /\ gen = "done")
=============================================================================
