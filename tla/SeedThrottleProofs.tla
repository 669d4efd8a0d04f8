------------------------- MODULE SeedThrottleProofs -------------------------
(***************************************************************************)
(* Proofs about SeedThrottle for any maximum, any divisor and any lengths  *)
(* of the two holds: the target stays within its limits, the freeze is     *)
(* never shortened, and the ramp-up waits out every hold.                  *)
(***************************************************************************)
EXTENDS SeedThrottle, TLAPS

(* Dividing by two or more leaves something smaller, and never a negative   *)
(* number.                                                                  *)
LEMMA Quotient ==
    ASSUME NEW n \in Nat \ {0}, NEW d \in Nat \ {0, 1}
    PROVE  n \div d \in Nat /\ n \div d < n
PROOF
  <1> DEFINE q == n \div d
             r == n % d
  <1>1. q \in Int /\ r \in 0..(d - 1) /\ n = d * q + r
    OBVIOUS
  <1>2. q >= 0
    <2>1. SUFFICES ASSUME q <= -1 PROVE FALSE
      BY <1>1
    <2>2. d * q <= d * (-1)
      BY <1>1, <2>1
    <2> QED
      BY <1>1, <2>2
  <1>3. q < n
    <2>1. SUFFICES ASSUME q >= n PROVE FALSE
      BY <1>1
    <2>2. d * q >= 2 * q
      BY <1>1, <1>2
    <2> QED
      BY <1>1, <2>1, <2>2
  <1> QED
    BY <1>1, <1>2, <1>3

(* Every target a round may decide on is one the pool may have.             *)
LEMMA DecisionInRange ==
    ASSUME MaxN \in Nat \ {0}, oldN \in 1..MaxN
    PROVE  /\ Decision.n \in 1..MaxN
           /\ Decision.reason = "stall" => Decision.n <= oldN
           /\ Decision.n > oldN => freeze = 0 /\ Decision.reason # "stall"
PROOF
  <1>1. oldN \div 2 \in Nat /\ oldN \div 2 < oldN
    BY Quotient
  <1>2. Half \in 1..oldN
    BY <1>1 DEF Half, AtLeastOne
  <1>3. OneLess \in 1..oldN
    BY DEF OneLess, AtLeastOne
  <1>4. CASE signal = "errors"
    BY <1>2, <1>4 DEF Decision
  <1>5. CASE signal # "errors" /\ stalled /\ oldN > 1
    BY <1>2, <1>5 DEF Decision
  <1>6. CASE signal = "tail" /\ ~(stalled /\ oldN > 1)
    BY <1>3, <1>6 DEF Decision
  <1>7. CASE /\ signal = "near" /\ ~(stalled /\ oldN > 1)
             /\ oldN < MaxN /\ RampUpAllowed
    BY <1>7 DEF Decision, RampUpAllowed
  <1>8. CASE /\ ~(signal = "errors")
             /\ ~(signal # "errors" /\ stalled /\ oldN > 1)
             /\ ~(signal = "tail" /\ ~(stalled /\ oldN > 1))
             /\ ~(/\ signal = "near" /\ ~(stalled /\ oldN > 1)
                  /\ oldN < MaxN /\ RampUpAllowed)
    BY <1>8 DEF Decision
  <1> QED
    BY <1>4, <1>5, <1>6, <1>7, <1>8

(* A fire that lowers the target lowers it to one the pool may have.        *)
LEMMA FiredInRange ==
    ASSUME MaxN \in Nat \ {0}, Divisor \in Nat \ {0, 1}, probeN \in 1..MaxN
    PROVE  Fired \in 1..MaxN
PROOF
  <1>1. probeN \div Divisor \in Nat /\ probeN \div Divisor < probeN
    BY Quotient
  <1> QED
    BY <1>1 DEF Fired, AtLeastOne

-----------------------------------------------------------------------------
(* Types                                                                    *)

(* The first targets and deadlines have their types.                        *)
LEMMA TypeInit == Init => TypeOK
PROOF
  <1> SUFFICES ASSUME Init PROVE TypeOK
    OBVIOUS
  <1> USE ThrottleAssumption DEF Init
  <1>1. due \in BOOLEAN /\ calm \in BOOLEAN /\ stalled \in BOOLEAN /\ overlap \in BOOLEAN
    OBVIOUS
  <1>2. target \in 1..MaxN /\ oldN \in 1..MaxN /\ newN \in 1..MaxN /\ probeN \in 1..MaxN
    OBVIOUS
  <1>3. /\ freeze \in 0..Longest /\ regCur \in 0..Longest /\ probeCur \in 0..Longest
        /\ regEnd \in 0..StallHold /\ probeEnd \in 0..HoldOff
        /\ sinceStall \in 0..StallHold /\ sinceFire \in 0..HoldOff
        /\ streak \in 0..StallTicks
    BY DEF Longest
  <1> QED
    BY <1>1, <1>2, <1>3 DEF TypeOK, Signals

(* One step of the regulator, of the probe or of time keeps the types.      *)
LEMMA TypeStep == TypeOK /\ [Next]_vars => TypeOK'
PROOF
  <1> SUFFICES ASSUME TypeOK, [Next]_vars PROVE TypeOK'
    OBVIOUS
  <1> USE ThrottleAssumption DEF TypeOK
  <1> USE DEF regVars, probeVars, history
  <1>1. CASE Sample
    <2>1. PICK done \in BOOLEAN, s \in Signals :
             /\ signal' = s
             /\ streak' = Streak(done)
             /\ stalled' = (Streak(done) >= StallTicks)
      BY <1>1 DEF Sample
    <2>2. Streak(done) \in 0..StallTicks
      BY DEF Streak, Least
    <2>3. streak' \in 0..StallTicks /\ signal' \in Signals /\ reg' = "read"
      BY <1>1, <2>1, <2>2 DEF Sample
    <2>4. due' \in BOOLEAN /\ calm' \in BOOLEAN /\ overlap' \in BOOLEAN
      BY <1>1 DEF Sample
    <2>5. stalled' \in BOOLEAN
      BY <2>1
    <2> QED
      BY <1>1, <2>3, <2>4, <2>5 DEF Sample
  <1>2. CASE ReadTarget
    BY <1>2 DEF ReadTarget, InFire
  <1>3. CASE Judge
    <2>1. Decision.n \in 1..MaxN
      BY DecisionInRange
    <2> QED
      BY <1>3, <2>1 DEF Judge
  <1>4. CASE Store
    BY <1>4 DEF Store
  <1>5. CASE RegLoad
    BY <1>5 DEF RegLoad
  <1>6. CASE RegSwap
    BY <1>6 DEF RegSwap, Longest
  <1>7. CASE ProbeLoad
    BY <1>7 DEF ProbeLoad
  <1>8. CASE ProbeSwap
    BY <1>8 DEF ProbeSwap, Longest
  <1>9. CASE Trip
    BY <1>9 DEF Trip
  <1>10. CASE Fire
    <2>1. Fired \in 1..MaxN
      BY FiredInRange
    <2> QED
      BY <1>10, <2>1 DEF Fire
  <1>11. CASE SetHoldOff
    BY <1>11 DEF SetHoldOff
  <1>12. CASE Elapse
    <2>1. due' \in BOOLEAN /\ calm' \in BOOLEAN /\ stalled' \in BOOLEAN /\ overlap' \in BOOLEAN
      BY <1>12 DEF Elapse
    <2>2. /\ Down(freeze) \in 0..Longest /\ Down(regCur) \in 0..Longest
          /\ Down(probeCur) \in 0..Longest /\ Down(regEnd) \in 0..StallHold
          /\ Down(probeEnd) \in 0..HoldOff
          /\ Least(sinceStall + 1, StallHold) \in 0..StallHold
          /\ Least(sinceFire + 1, HoldOff) \in 0..HoldOff
      BY DEF Down, Least, Longest
    <2> QED
      BY <1>12, <2>1, <2>2 DEF Elapse
  <1>13. CASE CalmDown
    BY <1>13 DEF CalmDown
  <1>14. CASE UNCHANGED vars
    BY <1>14 DEF vars
  <1> QED
    BY <1>1, <1>2, <1>3, <1>4, <1>5, <1>6, <1>7, <1>8, <1>9, <1>10, <1>11,
       <1>12, <1>13, <1>14 DEF Next, Regulator, Firing

(* The target never leaves one to the maximum, so no halving stops every    *)
(* worker, and every deadline is within its hold.                           *)
THEOREM TypeCorrect == Spec => []TypeOK
PROOF
  <1>1. Init => TypeOK
    BY TypeInit
  <1>2. TypeOK /\ [Next]_vars => TypeOK'
    BY TypeStep
  <1> QED
    BY <1>1, <1>2, PTL DEF Spec
-----------------------------------------------------------------------------
(* The freeze                                                               *)

(* A compare-and-swap that is about to succeed does not write a nearer      *)
(* deadline: both the value it expects and the one it brings have run down  *)
(* since they were compared.                                                *)
SwapsLater ==
    /\ reg = "swap" => regCur <= regEnd
    /\ probe = "swap" => probeCur <= probeEnd

(* Nobody is swapping at first.                                             *)
LEMMA SwapsInit == Init => SwapsLater
PROOF
  BY DEF Init, SwapsLater

(* Only Load moves a writer to its swap, and only with a later deadline;    *)
(* time takes as much from one side as from the other.                      *)
LEMMA SwapsStep == TypeOK /\ SwapsLater /\ [Next]_vars => SwapsLater'
PROOF
  <1> SUFFICES ASSUME TypeOK, SwapsLater, [Next]_vars PROVE SwapsLater'
    OBVIOUS
  <1> USE ThrottleAssumption DEF TypeOK, SwapsLater, regVars, probeVars, history
  <1>1. freeze \in Int /\ regEnd \in Int /\ probeEnd \in Int /\ regCur \in Int /\ probeCur \in Int
    BY DEF Longest
  <1>2. CASE Sample \/ ReadTarget \/ Judge \/ Store
    BY <1>2 DEF Sample, ReadTarget, Judge, Store
  <1>3. CASE RegLoad \/ RegSwap
    BY <1>1, <1>3 DEF RegLoad, RegSwap
  <1>4. CASE Trip \/ Fire \/ SetHoldOff
    BY <1>4 DEF Trip, Fire, SetHoldOff
  <1>5. CASE ProbeLoad \/ ProbeSwap
    BY <1>1, <1>5 DEF ProbeLoad, ProbeSwap
  <1>6. CASE Elapse
    BY <1>1, <1>6 DEF Elapse, Down, Longest
  <1>7. CASE CalmDown \/ UNCHANGED vars
    BY <1>7 DEF CalmDown, vars
  <1> QED
    BY <1>2, <1>3, <1>4, <1>5, <1>6, <1>7 DEF Next, Regulator, Firing

(* Whatever the regulator and the probe do to each other, the freeze never  *)
(* ends earlier than it did, but for time passing.                          *)
THEOREM FreezeStands == Spec => FreezeNeverShortened
PROOF
  <1> DEFINE I == TypeOK /\ SwapsLater
  <1>1. Init => I
    BY TypeInit, SwapsInit
  <1>2. I /\ [Next]_vars => I'
    BY TypeStep, SwapsStep
  <1>3. I /\ [Next]_vars => [freeze' >= freeze \/ Elapse]_vars
    <2> SUFFICES ASSUME TypeOK, SwapsLater, [Next]_vars, ~ Elapse
                 PROVE  freeze' >= freeze
      OBVIOUS
    <2> USE ThrottleAssumption DEF TypeOK, SwapsLater, regVars, probeVars, history
    <2>1. freeze \in Int
      BY DEF Longest
    <2>2. CASE RegSwap
      BY <2>1, <2>2 DEF RegSwap, Unmoved
    <2>3. CASE ProbeSwap
      BY <2>1, <2>3 DEF ProbeSwap, Unmoved
    <2>4. CASE UNCHANGED freeze
      BY <2>1, <2>4
    <2>5. Next /\ ~ RegSwap /\ ~ ProbeSwap => UNCHANGED freeze
      BY DEF Next, Regulator, Firing, Sample, ReadTarget, Judge, RegLoad, Store,
             Trip, Fire, SetHoldOff, ProbeLoad, CalmDown
    <2>6. UNCHANGED vars => UNCHANGED freeze
      BY DEF vars
    <2> QED
      BY <2>2, <2>3, <2>4, <2>5, <2>6
  <1> QED
    BY <1>1, <1>2, <1>3, PTL DEF Spec, FreezeNeverShortened

-----------------------------------------------------------------------------
(* The holds                                                                *)

(* What is left of a stall's hold is in the freeze, or still in the hands   *)
(* of the regulator that is about to put it there.                          *)
StallServed ==
    /\ reg \notin {"load", "swap"} => freeze + sinceStall >= StallHold
    /\ reg \in {"load", "swap"} => regEnd + sinceStall >= StallHold /\ newN <= oldN

(* The same for a fire of the probe, from the store of the lower target on. *)
FireServed ==
    /\ probe \in {"wait", "fire"} => freeze + sinceFire >= HoldOff
    /\ probe \in {"load", "swap"} => probeEnd + sinceFire >= HoldOff

(* A round that no fire ran across has the probe waiting since it read the  *)
(* target; one that is about to raise it found every hold served.           *)
RaisesLate ==
    /\ reg \notin {"wait", "read"} /\ ~ overlap => probe = "wait"
    /\ reg = "store" /\ newN > oldN =>
          /\ sinceStall = StallHold
          /\ overlap \/ sinceFire = HoldOff

Held == StallServed /\ FireServed /\ RaisesLate

(* At first every hold is long over.                                        *)
LEMMA HeldInit == Init => Held
PROOF
  BY ThrottleAssumption DEF Init, Held, StallServed, FireServed, RaisesLate

(* No step of the regulator, the probe or time loses a hold.                *)
LEMMA HeldStep == TypeOK /\ SwapsLater /\ Held /\ [Next]_vars => Held'
PROOF
  <1> SUFFICES ASSUME TypeOK, SwapsLater, Held, [Next]_vars PROVE Held'
    OBVIOUS
  <1> USE ThrottleAssumption DEF TypeOK, SwapsLater, regVars, probeVars, history
  <1>1. /\ freeze \in Nat /\ regEnd \in Nat /\ probeEnd \in Nat
        /\ regCur \in Nat /\ probeCur \in Nat
        /\ sinceStall \in 0..StallHold /\ sinceFire \in 0..HoldOff
        /\ newN \in Nat /\ oldN \in Nat
    BY DEF Longest
  <1>2. CASE Sample \/ ReadTarget
    BY <1>1, <1>2 DEF Sample, ReadTarget, InFire, Held, StallServed, FireServed, RaisesLate
  <1>3. CASE Judge
    <2>1. /\ Decision.n \in 1..MaxN
          /\ Decision.reason = "stall" => Decision.n <= oldN
          /\ Decision.n > oldN => freeze = 0 /\ Decision.reason # "stall"
      BY DecisionInRange
    <2>2. StallServed'
      BY <1>1, <1>3, <2>1 DEF Judge, Held, StallServed
    <2>3. FireServed'
      BY <1>1, <1>3 DEF Judge, Held, FireServed
    <2>4. RaisesLate'
      BY <1>1, <1>3, <2>1 DEF Judge, Held, StallServed, FireServed, RaisesLate
    <2> QED
      BY <2>2, <2>3, <2>4 DEF Held
  <1>4. CASE Store
    BY <1>1, <1>4 DEF Store, Held, StallServed, FireServed, RaisesLate
  <1>5. CASE RegLoad \/ RegSwap
    BY <1>1, <1>5 DEF RegLoad, RegSwap, Unmoved, Held, StallServed, FireServed, RaisesLate
  <1>6. CASE ProbeLoad \/ ProbeSwap
    BY <1>1, <1>6 DEF ProbeLoad, ProbeSwap, Unmoved, Held, StallServed, FireServed, RaisesLate
  <1>7. CASE Trip
    BY <1>1, <1>7 DEF Trip, Held, StallServed, FireServed, RaisesLate
  <1>8. CASE Fire
    BY <1>1, <1>8 DEF Fire, Held, StallServed, FireServed, RaisesLate
  <1>9. CASE SetHoldOff
    BY <1>1, <1>9 DEF SetHoldOff, Held, StallServed, FireServed, RaisesLate
  <1>10. CASE Elapse
    BY <1>1, <1>10 DEF Elapse, Down, Least, Held, StallServed, FireServed, RaisesLate
  <1>11. CASE CalmDown \/ UNCHANGED vars
    BY <1>11 DEF CalmDown, vars, Held, StallServed, FireServed, RaisesLate
  <1> QED
    BY <1>2, <1>3, <1>4, <1>5, <1>6, <1>7, <1>8, <1>9, <1>10, <1>11
    DEF Next, Regulator, Firing

(* The target rises only when the hold of the last stall is over, and that  *)
(* of the last fire too unless the fire ran across the round that raises.   *)
THEOREM HoldsAreServed == Spec => ThrottleHolds
PROOF
  <1> DEFINE I == TypeOK /\ SwapsLater /\ Held
             A == RampsUp => /\ sinceStall = StallHold
                             /\ overlap \/ sinceFire = HoldOff
  <1>1. Init => I
    BY TypeInit, SwapsInit, HeldInit
  <1>2. I /\ [Next]_vars => I'
    BY TypeStep, SwapsStep, HeldStep
  <1>3. I /\ [Next]_vars => [A]_vars
    BY DEF RampsUp, Store, Held, RaisesLate
  <1> QED
    BY <1>1, <1>2, <1>3, PTL DEF Spec, ThrottleHolds
=============================================================================
