---------------------------- MODULE SeedThrottle ----------------------------
(***************************************************************************)
(* Who moves the concurrency target of ch-seed-long: the regulator         *)
(* (cmd/ch-seed-long/regulator.go), one round per tick, and the health     *)
(* probe (probe.go), which fires when the host or a backend is under       *)
(* pressure.  They share two atomics and no lock: the target, which each   *)
(* of them loads, judges and stores, and rampUpFreeze, the time before     *)
(* which the target must not rise.                                         *)
(*                                                                         *)
(* The unit of time is the regulator's tick, and times are kept as what is *)
(* left of them: rampUpFreeze, the deadlines still to be written and the   *)
(* values a compare-and-swap expects all run down as time passes.          *)
(***************************************************************************)
EXTENDS Integers

CONSTANTS
    MaxN,           \* MaxConcurrency; the floor MinN is 1
    StallTicks,     \* rounds without a completed batch that make a stall
    StallHold,      \* how long a stall keeps the target from rising, in ticks
    HoldOff,        \* the same for a fire of the probe
    Divisor         \* ThrottleDivisor

ASSUME ThrottleAssumption ==
    /\ MaxN \in Nat \ {0} /\ StallTicks \in Nat \ {0}
    /\ StallHold \in Nat /\ HoldOff \in Nat \ {0}
    /\ Divisor \in Nat \ {0, 1}

VARIABLES
    target, freeze,         \* the two atomics
    due,                    \* a regulator tick lies in the ticker's channel
    signal, streak, stalled,\* what a round saw of the ring; rounds without a batch
    reg, oldN, newN,        \* the regulator: where it is, what it read and wants
    regEnd, regCur,         \* its deadline, and the freeze it saw
    probe, probeN,          \* the probe: where it is, the target it read
    probeEnd, probeCur,
    calm,                   \* the pressure is over for good
    overlap,                \* (history) a fire ran across this round of the regulator
    sinceStall, sinceFire   \* (history) time since the last of each

regVars == <<signal, streak, stalled, reg, oldN, newN, regEnd, regCur>>
probeVars == <<probe, probeN, probeEnd, probeCur>>
history == <<overlap, sinceStall, sinceFire>>
vars == <<target, freeze, due, regVars, probeVars, calm, history>>

(* What a round makes of p50, p99 and the error rate: no outcome yet, some  *)
(* failed, a long tail, p50 at its floor, a little or far above it.         *)
Signals == {"empty", "errors", "tail", "near", "above", "elevated"}
Longest == IF StallHold > HoldOff THEN StallHold ELSE HoldOff
Least(a, b) == IF a < b THEN a ELSE b
AtLeastOne(n) == IF n < 1 THEN 1 ELSE n
Down(t) == IF t > 0 THEN t - 1 ELSE 0

Init ==
    /\ target \in 1..MaxN
    /\ freeze = 0 /\ due = FALSE
    /\ signal = "empty" /\ streak = 0 /\ stalled = FALSE
    /\ reg = "wait" /\ oldN = target /\ newN = target
    /\ regEnd = 0 /\ regCur = 0
    /\ probe = "wait" /\ probeN = target /\ probeEnd = 0 /\ probeCur = 0
    /\ calm = FALSE /\ overlap = FALSE
    /\ sinceStall = StallHold /\ sinceFire = HoldOff

-----------------------------------------------------------------------------
(* The regulator                                                            *)

InFire == probe # "wait"

(* ring.summary and the count of completed batches: new outcomes may have   *)
(* come in since the last round.  The stall is looked for first, and also   *)
(* while the ring is empty.                                                 *)
Streak(done) == IF done THEN 0 ELSE Least(streak + 1, StallTicks)
Sample ==
    /\ reg = "wait"
    /\ due
    /\ due' = FALSE
    /\ \E done \in BOOLEAN, s \in Signals :
          /\ signal # "empty" \/ done => s # "empty"
          /\ calm => done /\ s = "near"
          /\ signal' = s
          /\ streak' = Streak(done)
          /\ stalled' = (Streak(done) >= StallTicks)
    /\ reg' = "read"
    /\ UNCHANGED <<target, freeze, oldN, newN, regEnd, regCur, probeVars,
                   calm, history>>

ReadTarget ==
    /\ reg = "read"
    /\ oldN' = target
    /\ overlap' = InFire
    /\ reg' = "judge"
    /\ UNCHANGED <<target, freeze, due, signal, streak, stalled, newN, regEnd, regCur, probeVars, calm, sinceStall, sinceFire>>

(* The switch, its cases in order.                                          *)
Half == AtLeastOne(oldN \div 2)
OneLess == AtLeastOne(oldN - 1)
AnyTime == TRUE
WhileFrozen == freeze > 0
RampUpAllowed == freeze = 0
Decision ==
    CASE signal = "errors" -> [reason |-> "errors", n |-> Half]
      [] signal # "errors" /\ stalled /\ oldN > 1 -> [reason |-> "stall", n |-> Half]
      [] signal = "tail" /\ ~(stalled /\ oldN > 1) -> [reason |-> "tail", n |-> OneLess]
      [] /\ signal = "near" /\ ~(stalled /\ oldN > 1)
         /\ oldN < MaxN /\ RampUpAllowed -> [reason |-> "ramp-up", n |-> oldN + 1]
      [] OTHER -> [reason |-> "hold", n |-> oldN]

(* A stall starts its streak anew and freezes the ramp-up before it stores. *)
Judge ==
    /\ reg = "judge"
    /\ newN' = Decision.n
    /\ IF Decision.reason = "stall"
       THEN /\ streak' = 0
            /\ regEnd' = StallHold
            /\ sinceStall' = 0
            /\ reg' = "load"
       ELSE /\ reg' = IF Decision.n = oldN THEN "wait" ELSE "store"
            /\ UNCHANGED <<streak, regEnd, sinceStall>>
    /\ UNCHANGED <<target, freeze, due, signal, stalled, oldN, regCur,
                   probeVars, calm, overlap, sinceFire>>

Store ==
    /\ reg = "store"
    /\ target' = newN
    /\ reg' = "wait"
    /\ UNCHANGED <<freeze, due, signal, streak, stalled, oldN, newN,
                   regEnd, regCur, probeVars, calm, history>>

-----------------------------------------------------------------------------
(* suppressRampUntil, by the regulator and by the probe: the later deadline *)
(* wins.                                                                    *)

RegLoad ==
    /\ reg = "load"
    /\ regCur' = freeze
    /\ reg' = IF freeze >= regEnd THEN "store" ELSE "swap"
    /\ UNCHANGED <<target, freeze, due, signal, streak, stalled, oldN, newN, regEnd, probeVars, calm, history>>

Unconditional(cur) == TRUE
Unmoved(cur) == freeze = cur
RegSwap ==
    /\ reg = "swap"
    /\ IF Unmoved(regCur)
       THEN freeze' = regEnd /\ reg' = "store"
       ELSE reg' = "load" /\ UNCHANGED freeze
    /\ UNCHANGED <<target, due, signal, streak, stalled, oldN, newN,
                   regEnd, regCur, probeVars, calm, history>>

ProbeLoad ==
    /\ probe = "load"
    /\ probeCur' = freeze
    /\ probe' = IF freeze >= probeEnd THEN "wait" ELSE "swap"
    /\ UNCHANGED <<target, freeze, due, regVars, probeN, probeEnd, calm, history>>

ProbeSwap ==
    /\ probe = "swap"
    /\ IF Unmoved(probeCur)
       THEN freeze' = probeEnd /\ probe' = "wait"
       ELSE probe' = "load" /\ UNCHANGED freeze
    /\ UNCHANGED <<target, due, regVars, probeN, probeEnd, probeCur, calm, history>>

-----------------------------------------------------------------------------
(* The probe: a signal trips                                                *)

Trip ==
    /\ probe = "wait"
    /\ ~calm
    /\ probeN' = target
    /\ probe' = "fire"
    /\ overlap' = (overlap \/ reg # "wait")
    /\ UNCHANGED <<target, freeze, due, regVars, probeEnd, probeCur, calm,
                   sinceStall, sinceFire>>

(* Only a fire that lowers the target has any effect.                       *)
Fired == AtLeastOne(probeN \div Divisor)
Fire ==
    /\ probe = "fire"
    /\ IF Fired < probeN
       THEN /\ target' = Fired
            /\ probe' = "stored"
            /\ sinceFire' = 0
       ELSE /\ probe' = "wait"
            /\ UNCHANGED <<target, sinceFire>>
    /\ UNCHANGED <<freeze, due, regVars, probeN, probeEnd, probeCur, calm, overlap,
                   sinceStall>>

SetHoldOff ==
    /\ probe = "stored"
    /\ probeEnd' = HoldOff
    /\ probe' = "load"
    /\ UNCHANGED <<target, freeze, due, regVars, probeN, probeCur, calm, history>>

-----------------------------------------------------------------------------
Elapse ==
    /\ due' = TRUE
    /\ freeze' = Down(freeze)
    /\ regEnd' = Down(regEnd) /\ regCur' = Down(regCur)
    /\ probeEnd' = Down(probeEnd) /\ probeCur' = Down(probeCur)
    /\ sinceStall' = Least(sinceStall + 1, StallHold)
    /\ sinceFire' = Least(sinceFire + 1, HoldOff)
    /\ UNCHANGED <<target, signal, streak, stalled, reg, oldN, newN,
                   probe, probeN, calm, overlap>>

(* From here on nothing trips and every round finds p50 at its floor.       *)
CalmDown ==
    /\ ~calm
    /\ calm' = TRUE
    /\ UNCHANGED <<target, freeze, due, regVars, probeVars, history>>

Regulator == Sample \/ ReadTarget \/ Judge \/ RegLoad \/ RegSwap \/ Store
Firing == Fire \/ SetHoldOff \/ ProbeLoad \/ ProbeSwap
Next == Regulator \/ Trip \/ Firing \/ Elapse \/ CalmDown

(* The goroutines are scheduled and time goes on.                           *)
Spec == /\ Init /\ [][Next]_vars
        /\ WF_vars(Regulator) /\ WF_vars(Firing) /\ WF_vars(Elapse)

-----------------------------------------------------------------------------
(* Properties                                                               *)

(* The types: no halving, division or step down brings the target to zero,  *)
(* where all workers would stop, and none of the ramps over the maximum.    *)
TypeOK ==
    /\ target \in 1..MaxN
    /\ freeze \in 0..Longest
    /\ due \in BOOLEAN /\ calm \in BOOLEAN /\ stalled \in BOOLEAN
    /\ signal \in Signals /\ streak \in 0..StallTicks
    /\ reg \in {"wait", "read", "judge", "load", "swap", "store"}
    /\ oldN \in 1..MaxN /\ newN \in 1..MaxN
    /\ regEnd \in 0..StallHold /\ regCur \in 0..Longest
    /\ probe \in {"wait", "fire", "stored", "load", "swap"}
    /\ probeN \in 1..MaxN /\ probeEnd \in 0..HoldOff /\ probeCur \in 0..Longest
    /\ overlap \in BOOLEAN
    /\ sinceStall \in 0..StallHold
    /\ sinceFire \in 0..HoldOff

(* Whatever the two writers of rampUpFreeze do to each other, the deadline  *)
(* never moves closer except by time passing.                               *)
FreezeNeverShortened == [][freeze' >= freeze \/ Elapse]_vars

RampsUp == Store /\ newN > oldN

(* The regulator raises the target no sooner than the whole hold after the  *)
(* last stall, and after the last fire of the probe unless that fire ran    *)
(* across the very round that raises it; the freeze both of them share      *)
(* serves each in full.                                                     *)
ThrottleHolds ==
    [][RampsUp => /\ sinceStall = StallHold
                  /\ overlap \/ sinceFire = HoldOff]_vars

(* Once the pressure is over, the target climbs back to the maximum and     *)
(* stays there: no freeze, stall or lost update holds it down for good.     *)
RampsBack == <>calm => <>[](target = MaxN)
=============================================================================
