------------------------ MODULE SelectorStatsProofs ------------------------
(***************************************************************************)
(* Proofs about SelectorStats for any requests, selectors, limits and      *)
(* time to live: the types, that a slot is taken exactly while its probe   *)
(* runs, that the cache keeps within its limit, and that it loses what is  *)
(* still good only to make room, oldest first.                             *)
(***************************************************************************)
EXTENDS SelectorStats, TLAPS, FiniteSetTheorems, WellFoundedInduction

(* While a slot is free there is a least one, which FreeSlot picks.         *)
LEMMA LeastSlot ==
    ASSUME Cap \in Nat, Probes \ Running # {}
    PROVE  FreeSlot \in Probes \ Running
PROOF
  <1> DEFINE S == Probes \ Running
  <1>1. S \subseteq Nat
    BY DEF Probes
  <1>2. PICK x \in S : \A y \in S : ~ (<<y, x>> \in OpToRel(<, Nat))
    BY <1>1, WFMin, NatLessThanWellFounded
  <1>3. ASSUME NEW y \in S PROVE x <= y
    <2>1. <<y, x>> \in Nat \X Nat
      BY <1>1
    <2>2. ~ (<<y, x>> \in {ss \in Nat \X Nat : ss[1] < ss[2]})
      BY <1>2 DEF OpToRel
    <2>3. ~ (y < x)
      BY <2>1, <2>2
    <2> QED
      BY <1>1, <2>3
  <1> QED
    BY <1>3 DEF FreeSlot

(* There are Cap slots, so finitely many probes run and signatures are held.*)
LEMMA Finite ==
    /\ IsFiniteSet(Probes) /\ Cardinality(Probes) = Cap
    /\ IsFiniteSet(Running) /\ IsFiniteSet(Cached)
PROOF
  <1>1. IsFiniteSet(Probes) /\ Cardinality(Probes) = Cap
    BY StatsAssumption, FS_Interval DEF Probes
  <1>2. Running \in SUBSET Probes
    BY DEF Running
  <1>3. Cached \in SUBSET Sigs
    BY DEF Cached
  <1>4. IsFiniteSet(Times)
    BY StatsAssumption, FS_Interval DEF Times
  <1>5. IsFiniteSet(Sigs)
    BY <1>4, StatsAssumption, FS_Product DEF Sigs
  <1> QED
    BY <1>1, <1>2, <1>3, <1>5, FS_Subset

(* A probe that runs is one of the places a probe can be at.                *)
LEMMA ProbeRuns ==
    ASSUME NEW s \in Sigs, NEW t \in Times, NEW where \in {"query", "put", "stored", "failed"}
    PROVE  /\ RunningProbe(Probe(s, where, t))
           /\ Probe(s, where, t) # Idle
PROOF
  BY DEF RunningProbe, Probe, Idle

(* The selector a request looks at is one of its query.                     *)
LEMMA KeyIsSig ==
    ASSUME NEW r \in Requests, TypeOK, AtSelector(r)
    PROVE  Key(r) \in Sigs
PROOF
  <1>1. QueryOf[r] \in Seq(Sels) /\ at[r] \in Nat \ {0} /\ evalTime[r] \in Times
    BY StatsAssumption DEF TypeOK
  <1>2. QueryOf[r][at[r]] \in Sels
    BY <1>1 DEF AtSelector
  <1> QED
    BY <1>1, <1>2 DEF Key, Sigs

-----------------------------------------------------------------------------
(* Slots and their probes                                                   *)

(* The slot a request takes is a free one, and there is one whenever the    *)
(* semaphore has a place.                                                   *)
LEMMA SlotThere ==
    ASSUME TypeOK, SlotsMatchProbes, SlotFree
    PROVE  FreeSlot \in Probes \ Running
PROOF
  <1>1. Running \in SUBSET Probes
    BY DEF Running
  <1>2. Cardinality(Running) < Cap
    BY DEF SlotsMatchProbes, SlotFree
  <1>3. Probes # Running
    BY <1>2, Finite, StatsAssumption
  <1>4. Probes \ Running # {}
    BY <1>1, <1>3
  <1> QED
    BY <1>4, LeastSlot, StatsAssumption

(* A step of a probe that is still going on changes nobody's being at work. *)
LEMMA StillRunning ==
    ASSUME TypeOK, NEW p \in Running, NEW q,
           RunningProbe(q), probes' = [probes EXCEPT ![p] = q]
    PROVE  Running' = Running
PROOF
  <1>1. q # Idle
    BY DEF RunningProbe, Idle
  <1> QED
    BY <1>1 DEF Running, TypeOK, Probes

(* A request that takes a slot has one more probe running.                  *)
LEMMA OneMore ==
    ASSUME TypeOK, SlotsMatchProbes, SlotFree, NEW q, RunningProbe(q),
           probes' = [probes EXCEPT ![FreeSlot] = q]
    PROVE  /\ Running' = Running \cup {FreeSlot}
           /\ Cardinality(Running') = Cardinality(Running) + 1
PROOF
  <1>1. FreeSlot \in Probes \ Running
    BY SlotThere
  <1>2. q # Idle
    BY DEF RunningProbe, Idle
  <1>3. Running' = Running \cup {FreeSlot}
    BY <1>1, <1>2 DEF Running, TypeOK, Probes
  <1> QED
    BY <1>1, <1>3, Finite, FS_AddElement

(* A probe that gives its slot back leaves one less.                        *)
LEMMA OneLess ==
    ASSUME TypeOK, NEW p \in Running, probes' = [probes EXCEPT ![p] = Idle]
    PROVE  /\ Cardinality(Running') = Cardinality(Running) - 1
           /\ Cardinality(Running) \in Nat \ {0}
PROOF
  <1>1. Running' = Running \ {p}
    BY DEF Running, TypeOK, Probes
  <1>2. Cardinality(Running') = Cardinality(Running) - 1
    BY <1>1, Finite, FS_RemoveElement
  <1>3. Cardinality(Running) \in Nat /\ (Cardinality(Running) = 0 => Running = {})
    BY Finite, FS_CardinalityType, FS_EmptySet
  <1> QED
    BY <1>2, <1>3

(* Who is at work is one of the places and its probe is of the type.        *)
LEMMA AtWork ==
    ASSUME TypeOK, NEW p \in Probes,
           probes[p].at \in {"query", "put", "stored", "failed"}
    PROVE  /\ p \in Running /\ RunningProbe(probes[p])
           /\ probes[p].sig \in Sigs /\ probes[p].observed \in Times
PROOF
  <1>1. probes[p] # Idle
    BY DEF Idle
  <1> QED
    BY <1>1 DEF TypeOK, Running, RunningProbe

(* The number of taken places is that of the probes at work after every     *)
(* step.                                                                    *)
LEMMA SlotsStep == TypeOK /\ SlotsMatchProbes /\ [Next]_vars => SlotsMatchProbes'
PROOF
  <1> SUFFICES ASSUME TypeOK, SlotsMatchProbes, [Next]_vars
               PROVE  SlotsMatchProbes'
    OBVIOUS
  <1>1. UNCHANGED <<tokens, probes>> => SlotsMatchProbes'
    BY DEF SlotsMatchProbes, Running
  <1>2. ASSUME NEW r \in Requests, Acquire(r) PROVE SlotsMatchProbes'
    <2>1. CASE SlotFree
      <3>1. Key(r) \in Sigs
        BY <1>2, KeyIsSig DEF Acquire, TypeOK
      <3>2. RunningProbe(Probe(Key(r), "query", 0))
        BY <3>1, ProbeRuns, StatsAssumption DEF Times
      <3>3. tokens' = tokens + 1
            /\ probes' = [probes EXCEPT ![FreeSlot] = Probe(Key(r), "query", 0)]
        BY <1>2, <2>1 DEF Acquire
      <3> QED
        BY <2>1, <3>2, <3>3, OneMore DEF SlotsMatchProbes
    <2>2. CASE ~ SlotFree
      BY <1>1, <1>2, <2>2 DEF Acquire
    <2> QED
      BY <2>1, <2>2
  <1>3. ASSUME NEW r \in Requests, Request(r), ~ Acquire(r) PROVE SlotsMatchProbes'
    BY <1>1, <1>3 DEF Request, Ask, Classify, Read, Classified, Done, Walk, Look
  <1>4. ASSUME NEW p \in Probes, Observe(p) \/ Failed(p) \/ Store(p) PROVE SlotsMatchProbes'
    <2>1. p \in Running /\ probes[p].sig \in Sigs
      BY <1>4, AtWork DEF Observe, Failed, Store
    <2>2. PICK t \in Times, where \in {"put", "failed", "stored"} :
             probes' = [probes EXCEPT ![p] = Probe(probes[p].sig, where, t)]
      BY <1>4, StatsAssumption DEF Observe, Failed, Store, TypeOK, Times
    <2>3. RunningProbe(Probe(probes[p].sig, where, t))
      BY <2>1, <2>2, ProbeRuns
    <2>4. Running' = Running
      BY <2>1, <2>2, <2>3, StillRunning
    <2>5. tokens' = tokens
      BY <1>4 DEF Observe, Failed, Store
    <2> QED
      BY <2>4, <2>5 DEF SlotsMatchProbes
  <1>5. ASSUME NEW p \in Probes, Release(p) PROVE SlotsMatchProbes'
    <2>1. p \in Running
      BY <1>5, AtWork DEF Release
    <2>2. probes' = [probes EXCEPT ![p] = Idle] /\ tokens' = tokens - 1
      BY <1>5 DEF Release, Given
    <2> QED
      BY <2>1, <2>2, OneLess DEF SlotsMatchProbes
  <1>6. CASE Tick \/ UNCHANGED vars
    BY <1>1, <1>6 DEF Tick, vars
  <1> QED
    BY <1>2, <1>3, <1>4, <1>5, <1>6 DEF Next, Step

-----------------------------------------------------------------------------
(* Types                                                                    *)

(* At first nothing is cached and nobody is at work.                        *)
LEMMA TypeInit == Init => TypeOK /\ SlotsMatchProbes
PROOF
  <1> SUFFICES ASSUME Init PROVE TypeOK /\ SlotsMatchProbes
    OBVIOUS
  <1> USE StatsAssumption DEF Init
  <1>1. Running = {}
    BY DEF Running
  <1>2. SlotsMatchProbes
    BY <1>1, FS_EmptySet DEF SlotsMatchProbes
  <1>3. \A r \in Requests : Len(QueryOf[r]) \in Nat
    OBVIOUS
  <1>4. fresh \in [Requests -> BOOLEAN]
    OBVIOUS
  <1> QED
    BY <1>2, <1>3, <1>4 DEF TypeOK, Times, None

(* What the cache holds after a look or a put is of its type.               *)
LEMMA CacheType ==
    ASSUME TypeOK, NEW s \in Sigs, NEW t \in Times, Get(s, t) \/ Put(s, t)
    PROVE  entries' \in [Sigs -> Times \cup {None}]
PROOF
  <1>1. CASE Get(s, t)
    BY <1>1 DEF Get, TypeOK
  <1>2. CASE Put(s, t)
    <2>1. PICK kept, drop :
             entries' = [x \in Sigs |-> IF x = s THEN t
                                       ELSE IF x \in kept \ drop THEN entries[x]
                                       ELSE None]
      BY <1>2 DEF Put
    <2> QED
      BY <2>1 DEF TypeOK
  <1> QED
    BY <1>1, <1>2

(* A request that goes on to its next selector is at one of its query, or   *)
(* behind the last.                                                         *)
LEMMA TypeStep == TypeOK /\ SlotsMatchProbes /\ [Next]_vars => TypeOK'
PROOF
  <1> SUFFICES ASSUME TypeOK, SlotsMatchProbes, [Next]_vars PROVE TypeOK'
    OBVIOUS
  <1> USE StatsAssumption DEF Times
  <1>0. \A r \in Requests : Len(QueryOf[r]) \in Nat
    OBVIOUS
  <1> USE DEF AtSelector
  <1>1. ASSUME NEW r \in Requests, Ask(r) PROVE TypeOK'
    BY <1>1 DEF Ask, TypeOK
  <1>12. ASSUME NEW r \in Requests, Classify(r) PROVE TypeOK'
    BY <1>12 DEF Classify, TypeOK
  <1>2. ASSUME NEW r \in Requests, Read(r) PROVE TypeOK'
    <2>1. entries' \in [Sigs -> Times \cup {None}]
      BY <1>2, CacheType, KeyIsSig DEF Read, TypeOK
    <2>2. fresh' \in [Requests -> BOOLEAN]
      BY <1>2 DEF Read, TypeOK, Hit
    <2> QED
      BY <1>0, <1>2, <2>1, <2>2 DEF Read, TypeOK
  <1>3. ASSUME NEW r \in Requests, Classified(r) PROVE TypeOK'
    <2>1. PICK where \in {"idle", "walk"}, t \in {0, evalTime[r]} :
             /\ pc' = [pc EXCEPT ![r] = where]
             /\ evalTime' = [evalTime EXCEPT ![r] = t]
      <3>1. CASE SeriesKnown(r)
        BY <1>3, <3>1 DEF Classified, Done
      <3>2. CASE ~ SeriesKnown(r)
        <4>1. pc' = [pc EXCEPT ![r] = "walk"] /\ evalTime' = evalTime
          BY <1>3, <3>2 DEF Classified
        <4>2. evalTime' = [evalTime EXCEPT ![r] = evalTime[r]]
          BY <4>1 DEF TypeOK
        <4> QED
          BY <4>1, <4>2
      <3> QED
        BY <3>1, <3>2
    <2>2. evalTime' \in [Requests -> Times]
      BY <2>1 DEF TypeOK
    <2>3. /\ pc' \in [Requests -> {"idle", "plan", "read", "walk", "look", "acquire"}]
          /\ at' = [at EXCEPT ![r] = 1]
          /\ \A x \in Requests : pc'[x] = (IF x = r THEN where ELSE pc[x])
      BY <1>3, <2>1 DEF Classified, TypeOK
    <2>4. /\ now' = [now EXCEPT ![r] = 0] /\ fresh' = [fresh EXCEPT ![r] = FALSE]
          /\ UNCHANGED <<clock, entries, tokens, probes, faults, visits>>
      BY <1>3 DEF Classified
    <2> QED
      BY <1>0, <2>2, <2>3, <2>4 DEF TypeOK, RunningProbe
  <1>4. ASSUME NEW r \in Requests, Walk(r) PROVE TypeOK'
    <2>1. /\ pc' \in [Requests -> {"idle", "plan", "read", "walk", "look", "acquire"}]
          /\ now' \in [Requests -> Times] /\ at' \in [Requests -> Nat \ {0}]
          /\ evalTime' \in [Requests -> Times]
      <3>1. /\ pc \in [Requests -> {"idle", "plan", "read", "walk", "look", "acquire"}]
            /\ now \in [Requests -> Times] /\ at \in [Requests -> Nat \ {0}]
            /\ clock \in Times /\ evalTime \in [Requests -> Times]
        BY DEF TypeOK
      <3>2. CASE at[r] <= Len(QueryOf[r])
        BY <1>4, <3>1, <3>2 DEF Walk
      <3>3. CASE ~ (at[r] <= Len(QueryOf[r]))
        <4>1. /\ now' = now /\ pc' = [pc EXCEPT ![r] = "idle"]
              /\ at' = [at EXCEPT ![r] = 1] /\ evalTime' = [evalTime EXCEPT ![r] = 0]
          BY <1>4, <3>3 DEF Walk, Done
        <4>2. pc' \in [Requests -> {"idle", "plan", "read", "walk", "look", "acquire"}]
          BY <3>1, <4>1
        <4>3. now' \in [Requests -> Times]
          BY <3>1, <4>1
        <4>4. at' \in [Requests -> Nat \ {0}]
          BY <3>1, <4>1
        <4>5. evalTime' \in [Requests -> Times]
          BY <3>1, <4>1
        <4> QED
          BY <4>2, <4>3, <4>4, <4>5
      <3> QED
        BY <3>2, <3>3
    <2>2. ASSUME NEW x \in Requests
          PROVE  /\ at'[x] <= Len(QueryOf[x]) + 1
                 /\ pc'[x] \in {"look", "acquire"} => at'[x] <= Len(QueryOf[x])
      <3>1. Len(QueryOf[x]) \in Nat /\ at[x] \in Nat /\ at[x] <= Len(QueryOf[x]) + 1
            /\ (pc[x] \in {"look", "acquire"} => at[x] <= Len(QueryOf[x]))
        BY <1>0 DEF TypeOK
      <3>2. CASE x # r
        <4>1. pc'[x] = pc[x] /\ at'[x] = at[x]
          BY <1>4, <3>2 DEF Walk, Done, TypeOK
        <4> QED
          BY <3>1, <4>1
      <3>3. CASE x = r /\ at[r] <= Len(QueryOf[r])
        <4>1. at'[x] = at[x]
          BY <1>4, <3>3 DEF Walk
        <4> QED
          BY <3>1, <3>3, <4>1
      <3>4. CASE x = r /\ ~ (at[r] <= Len(QueryOf[r]))
        <4>1. at'[x] = 1 /\ pc'[x] = "idle"
          BY <1>4, <3>4 DEF Walk, Done, TypeOK
        <4> QED
          BY <3>1, <4>1
      <3> QED
        BY <3>2, <3>3, <3>4
    <2>3. UNCHANGED <<clock, entries, tokens, probes, fresh, faults, visits>>
      BY <1>4 DEF Walk
    <2>4. /\ (DOMAIN probes = Probes)'
          /\ (\A p \in Probes : probes[p] = Idle \/ RunningProbe(probes[p]))'
      BY <2>3 DEF TypeOK, RunningProbe
    <2>5. (\A x \in Requests :
             /\ at[x] <= Len(QueryOf[x]) + 1
             /\ pc[x] \in {"look", "acquire"} => at[x] <= Len(QueryOf[x]))'
      BY <2>2
    <2> QED
      BY <2>1, <2>3, <2>4, <2>5 DEF TypeOK
  <1>5. ASSUME NEW r \in Requests, Look(r) PROVE TypeOK'
    <2>1. entries' \in [Sigs -> Times \cup {None}]
      BY <1>5, CacheType, KeyIsSig DEF Look, TypeOK
    <2>2. /\ pc' \in [Requests -> {"idle", "plan", "read", "walk", "look", "acquire"}]
          /\ now' \in [Requests -> Times] /\ at' \in [Requests -> Nat \ {0}]
      <3>1. /\ pc \in [Requests -> {"idle", "plan", "read", "walk", "look", "acquire"}]
            /\ now \in [Requests -> Times] /\ at \in [Requests -> Nat \ {0}]
            /\ clock \in Times
        BY DEF TypeOK
      <3>2. CASE Hit(Key(r), now[r])
        <4>1. /\ now' = [now EXCEPT ![r] = 0] /\ pc' = [pc EXCEPT ![r] = "walk"]
              /\ at' = [at EXCEPT ![r] = @ + 1]
          BY <1>5, <3>2 DEF Look
        <4>2. pc' \in [Requests -> {"idle", "plan", "read", "walk", "look", "acquire"}]
          BY <3>1, <4>1
        <4>3. now' \in [Requests -> Times]
          BY <3>1, <4>1
        <4>4. at' \in [Requests -> Nat \ {0}]
          BY <3>1, <4>1
        <4> QED
          BY <4>2, <4>3, <4>4
      <3>3. CASE ~ (Hit(Key(r), now[r]))
        <4>1. at' = at /\ pc' = [pc EXCEPT ![r] = "acquire"] /\ now' = [now EXCEPT ![r] = 0]
          BY <1>5, <3>3 DEF Look
        <4>2. pc' \in [Requests -> {"idle", "plan", "read", "walk", "look", "acquire"}]
          BY <3>1, <4>1
        <4>3. now' \in [Requests -> Times]
          BY <3>1, <4>1
        <4>4. at' \in [Requests -> Nat \ {0}]
          BY <3>1, <4>1
        <4> QED
          BY <4>2, <4>3, <4>4
      <3> QED
        BY <3>2, <3>3
    <2>3. at[r] <= Len(QueryOf[r])
      BY <1>5 DEF Look, TypeOK
    <2>4. ASSUME NEW x \in Requests
          PROVE  /\ at'[x] <= Len(QueryOf[x]) + 1
                 /\ pc'[x] \in {"look", "acquire"} => at'[x] <= Len(QueryOf[x])
      <3>1. Len(QueryOf[x]) \in Nat /\ at[x] \in Nat /\ at[x] <= Len(QueryOf[x]) + 1
            /\ (pc[x] \in {"look", "acquire"} => at[x] <= Len(QueryOf[x]))
        BY <1>0 DEF TypeOK
      <3>2. CASE x # r
        <4>1. pc'[x] = pc[x] /\ at'[x] = at[x]
          BY <1>5, <3>2 DEF Look, TypeOK
        <4> QED
          BY <3>1, <4>1
      <3>3. CASE x = r /\ Hit(Key(r), now[r])
        <4>1. at'[x] = at[x] + 1 /\ pc'[x] = "walk"
          BY <1>5, <3>3 DEF Look, TypeOK
        <4> QED
          BY <2>3, <3>1, <3>3, <4>1
      <3>4. CASE x = r /\ ~ Hit(Key(r), now[r])
        <4>1. at'[x] = at[x]
          BY <1>5, <3>4 DEF Look
        <4> QED
          BY <2>3, <3>1, <3>4, <4>1
      <3> QED
        BY <3>2, <3>3, <3>4
    <2>5. UNCHANGED <<clock, tokens, probes, evalTime, fresh, faults, visits>>
      BY <1>5 DEF Look
    <2>6. /\ (DOMAIN probes = Probes)'
          /\ (\A p \in Probes : probes[p] = Idle \/ RunningProbe(probes[p]))'
      BY <2>5 DEF TypeOK, RunningProbe
    <2>7. (\A x \in Requests :
             /\ at[x] <= Len(QueryOf[x]) + 1
             /\ pc[x] \in {"look", "acquire"} => at[x] <= Len(QueryOf[x]))'
      BY <2>4
    <2> QED
      BY <2>1, <2>2, <2>5, <2>6, <2>7 DEF TypeOK
  <1>6. ASSUME NEW r \in Requests, Acquire(r) PROVE TypeOK'
    <2>1. CASE SlotFree
      <3>1. Key(r) \in Sigs /\ at[r] <= Len(QueryOf[r])
        BY <1>6, KeyIsSig DEF Acquire, TypeOK
      <3>2. RunningProbe(Probe(Key(r), "query", 0))
        BY <3>1, ProbeRuns
      <3>3. tokens' \in 0..Cap
        BY <1>6, <2>1 DEF Acquire, SlotFree, TypeOK
      <3>4. probes' = [probes EXCEPT ![FreeSlot] = Probe(Key(r), "query", 0)]
        BY <1>6, <2>1 DEF Acquire
      <3>5. /\ (DOMAIN probes = Probes)'
            /\ (\A p \in Probes : probes[p] = Idle \/ RunningProbe(probes[p]))'
        BY <3>2, <3>4 DEF TypeOK
      <3>6. /\ at' = [at EXCEPT ![r] = at[r] + 1]
            /\ pc' = [pc EXCEPT ![r] = "walk"]
            /\ UNCHANGED <<clock, entries, now, evalTime, fresh, faults, visits>>
        BY <1>6 DEF Acquire
      <3>7. at' \in [Requests -> Nat \ {0}]
        BY <3>6 DEF TypeOK
      <3>8. pc' \in [Requests -> {"idle", "plan", "read", "walk", "look", "acquire"}]
        BY <3>6 DEF TypeOK
      <3>9. (\A x \in Requests :
               /\ at[x] <= Len(QueryOf[x]) + 1
               /\ pc[x] \in {"look", "acquire"} => AtSelector(x))'
        BY <1>0, <3>1, <3>6 DEF TypeOK, AtSelector
      <3> QED
        BY <3>3, <3>5, <3>6, <3>7, <3>8, <3>9 DEF TypeOK
    <2>2. CASE ~ SlotFree
      BY <1>0, <1>6, <2>2 DEF Acquire, TypeOK
    <2> QED
      BY <2>1, <2>2
  <1>7. ASSUME NEW p \in Probes, Observe(p) \/ Failed(p) PROVE TypeOK'
    <2>1. probes[p].sig \in Sigs
      BY <1>7, AtWork DEF Observe, Failed
    <2>2. PICK t \in Times, where \in {"put", "failed"} :
             probes' = [probes EXCEPT ![p] = Probe(probes[p].sig, where, t)]
      BY <1>7 DEF Observe, Failed, TypeOK
    <2>3. RunningProbe(Probe(probes[p].sig, where, t))
      BY <2>1, <2>2, ProbeRuns
    <2>4. faults' \in 0..MaxFaults
      BY <1>7 DEF Observe, Failed, TypeOK
    <2> QED
      BY <1>7, <2>2, <2>3, <2>4 DEF Observe, Failed, TypeOK, reqVars, RunningProbe
  <1>8. ASSUME NEW p \in Probes, Store(p) PROVE TypeOK'
    <2>1. probes[p].sig \in Sigs /\ probes[p].observed \in Times
      BY <1>8, AtWork DEF Store
    <2>2. entries' \in [Sigs -> Times \cup {None}]
      BY <1>8, <2>1, CacheType DEF Store
    <2>3. RunningProbe(Probe(probes[p].sig, "stored", 0))
      BY <2>1, ProbeRuns
    <2> QED
      BY <1>8, <2>2, <2>3 DEF Store, TypeOK, reqVars, RunningProbe
  <1>9. ASSUME NEW p \in Probes, Release(p) PROVE TypeOK'
    <2>1. p \in Running
      BY <1>9, AtWork DEF Release
    <2>2. Cardinality(Running) \in Nat \ {0}
      BY <1>9, <2>1, OneLess DEF Release
    <2>3. tokens' \in 0..Cap
      BY <1>9, <2>2 DEF Release, Given, TypeOK, SlotsMatchProbes
    <2> QED
      BY <1>9, <2>3 DEF Release, TypeOK, reqVars, RunningProbe
  <1>10. CASE Tick
    BY <1>10 DEF Tick, TypeOK, reqVars, RunningProbe
  <1>11. CASE UNCHANGED vars
    BY <1>11 DEF vars, TypeOK, reqVars, RunningProbe
  <1> QED
    BY <1>1, <1>2, <1>3, <1>4, <1>5, <1>6, <1>7, <1>8, <1>9, <1>10, <1>11, <1>12
    DEF Next, Request, Step

(* No request, no probe and no entry of the cache is ahead of the clock.    *)
ClocksBehind ==
    /\ \A s \in Cached : entries[s] <= clock
    /\ \A r \in Requests : now[r] <= clock
    /\ \A p \in Probes : probes[p].at = "put" => probes[p].observed <= clock

(* All clocks start at zero.                                                *)
LEMMA ClocksInit == Init => ClocksBehind
PROOF
  BY StatsAssumption DEF Init, ClocksBehind, Idle, Cached

(* Clocks are read from the one there is, which only moves on.              *)
LEMMA ClocksStep == TypeOK /\ ClocksBehind /\ [Next]_vars => ClocksBehind'
PROOF
  <1> SUFFICES ASSUME TypeOK, ClocksBehind, [Next]_vars PROVE ClocksBehind'
    OBVIOUS
  <1>0. /\ clock \in Nat /\ now \in [Requests -> Nat] /\ DOMAIN probes = Probes
        /\ \A p \in Probes : probes[p].at = "put" => probes[p].observed \in Nat
    BY StatsAssumption, AtWork DEF TypeOK, Times
  <1>1. \A s \in Cached : s \in Sigs /\ entries[s] \in Nat
    BY DEF Cached, TypeOK, Times, None
  <1>2. ASSUME UNCHANGED <<clock, entries>> PROVE \A s \in Cached' : entries'[s] <= clock'
    BY <1>2 DEF ClocksBehind, Cached
  <1>3. ASSUME NEW r \in Requests, NEW t, Get(Key(r), t), UNCHANGED clock
        PROVE  \A s \in Cached' : entries'[s] <= clock'
    BY <1>3 DEF ClocksBehind, Cached, Get, TypeOK
  <1>4. ASSUME NEW r \in Requests,
               Ask(r) \/ Classify(r) \/ Classified(r) \/ Walk(r) \/ Read(r) \/ Look(r)
        PROVE  ClocksBehind'
    <2>1. UNCHANGED <<clock, probes>> /\ \A x \in Requests : now'[x] <= clock
      BY <1>0, <1>4 DEF Ask, Classify, Classified, Walk, Read, Look, ClocksBehind
    <2>2. UNCHANGED entries \/ Get(Key(r), now[r])
      BY <1>4 DEF Ask, Classify, Classified, Walk, Read, Look
    <2> QED
      BY <1>2, <1>3, <2>1, <2>2 DEF ClocksBehind
  <1>5. ASSUME NEW r \in Requests, Acquire(r) PROVE ClocksBehind'
    <2>1. UNCHANGED <<now, clock, entries>>
      BY <1>5 DEF Acquire
    <2>2. ASSUME NEW p \in Probes, probes'[p].at = "put" PROVE probes'[p] = probes[p]
      BY <1>0, <1>5, <2>2 DEF Acquire, Probe
    <2> QED
      BY <1>0, <1>2, <2>1, <2>2 DEF ClocksBehind
  <1>6. ASSUME NEW p \in Probes, Step(p) PROVE ClocksBehind'
    <2>1. now' = now /\ clock' = clock
      BY <1>6 DEF Step, Observe, Failed, Store, Release, reqVars
    <2>2. ASSUME NEW q \in Probes, probes'[q].at = "put"
          PROVE  probes'[q] = probes[q] \/ probes'[q].observed = clock
      BY <1>0, <1>6, <2>2 DEF Step, Observe, Failed, Store, Release, Probe, Idle
    <2>3. \A s \in Cached' : entries'[s] <= clock'
      <3>1. CASE Store(p)
        <4>1. PICK left :
                 entries' = [x \in Sigs |-> IF x = probes[p].sig THEN probes[p].observed
                                           ELSE IF x \in left THEN entries[x]
                                           ELSE None]
          BY <3>1 DEF Store, Put
        <4>2. probes[p].observed <= clock
          BY <3>1 DEF Store, ClocksBehind
        <4> QED
          BY <2>1, <4>1, <4>2 DEF ClocksBehind, Cached
      <3>2. CASE ~ Store(p)
        <4>1. UNCHANGED <<clock, entries>>
          BY <1>6, <3>2 DEF Step, Observe, Failed, Release
        <4> QED
          BY <1>2, <4>1
      <3> QED
        BY <3>1, <3>2
    <2> QED
      BY <1>0, <2>1, <2>2, <2>3 DEF ClocksBehind
  <1>7. CASE Tick
    <2>1. clock' = clock + 1 /\ UNCHANGED <<entries, probes, now>>
      BY <1>7 DEF Tick, reqVars
    <2>2. \A s \in Cached' : entries'[s] <= clock'
      BY <1>0, <1>1, <2>1 DEF ClocksBehind, Cached
    <2> QED
      BY <1>0, <2>1, <2>2 DEF ClocksBehind
  <1>8. CASE UNCHANGED vars
    BY <1>2, <1>8 DEF vars, ClocksBehind, reqVars
  <1> QED
    BY <1>4, <1>5, <1>6, <1>7, <1>8 DEF Next, Request

(* Everything the cache, the semaphore, the probes and the requests keep    *)
(* has its type, and nothing in the cache, in a probe's hands or in a       *)
(* request's is dated ahead of the clock: no outcome of a probe takes the   *)
(* semaphore below zero or stores statistics that expire too late.          *)
THEOREM TypeCorrect == Spec => [](TypeOK /\ ClocksBehind)
PROOF
  <1> DEFINE I == TypeOK /\ SlotsMatchProbes /\ ClocksBehind
  <1>1. Init => I
    BY TypeInit, ClocksInit
  <1>2. I /\ [Next]_vars => I'
    BY TypeStep, SlotsStep, ClocksStep
  <1> QED
    BY <1>1, <1>2, PTL DEF Spec

(* A slot is taken exactly while its probe is at work.                      *)
THEOREM SlotsMatch == Spec => []SlotsMatchProbes
PROOF
  <1>1. Init => TypeOK /\ SlotsMatchProbes
    BY TypeInit
  <1>2. (TypeOK /\ SlotsMatchProbes) /\ [Next]_vars => (TypeOK /\ SlotsMatchProbes)'
    BY TypeStep, SlotsStep
  <1> QED
    BY <1>1, <1>2, PTL DEF Spec
-----------------------------------------------------------------------------
(* The cache                                                                *)

(* A put leaves at most what was held, or makes room for one more.          *)
LEMMA PutBounded ==
    ASSUME TypeOK, CacheBounded, NEW s \in Sigs, NEW t \in Times, Put(s, t)
    PROVE  CacheBounded'
PROOF
  <1> DEFINE kept == {x \in Cached : ~Expired(x, t)}
  <1>1. kept \in SUBSET Cached /\ IsFiniteSet(kept) /\ Cardinality(kept) <= Cardinality(Cached)
    BY Finite, FS_Subset
  <1>2. Cardinality(kept) \in Nat /\ Cardinality(Cached) \in Nat
    BY <1>1, Finite, FS_CardinalityType
  <1>3. PICK drop \in IF s \in kept THEN {{}} ELSE Evictions(kept) :
           entries' = [x \in Sigs |-> IF x = s THEN t
                                     ELSE IF x \in kept \ drop THEN entries[x]
                                     ELSE None]
    BY DEF Put
  <1> DEFINE left == kept \ drop
  <1>4. Cached' \subseteq left \cup {s}
    BY <1>3 DEF Cached
  <1>5. IsFiniteSet(left) /\ IsFiniteSet(left \cup {s})
    BY <1>1, FS_Difference, FS_AddElement
  <1>6. Cardinality(Cached') <= Cardinality(left \cup {s})
    BY <1>4, <1>5, FS_Subset
  <1>7. Cardinality(left \cup {s}) <= MaxEntries
    <2>1. CASE s \in kept
      <3>1. drop = {}
        BY <1>3, <2>1
      <3>2. left \cup {s} = kept
        BY <2>1, <3>1
      <3>3. Cardinality(left \cup {s}) = Cardinality(kept)
        BY <3>2
      <3> HIDE DEF kept, left
      <3> QED
        BY <1>1, <1>2, <3>3, StatsAssumption DEF CacheBounded
    <2>2. CASE s \notin kept
      <3>1. /\ drop \in SUBSET kept
            /\ Cardinality(drop) = IF Cardinality(kept) > Room
                                   THEN Cardinality(kept) - Room ELSE 0
        BY <1>3, <2>2 DEF Evictions
      <3>2. kept \cap drop = drop
        BY <3>1
      <3>3. Cardinality(left) = Cardinality(kept) - Cardinality(drop)
        BY <1>1, <3>2, FS_Difference
      <3>4. Cardinality(left) \in Nat /\ Cardinality(left) <= Room
        BY <1>2, <1>5, <3>1, <3>3, FS_CardinalityType, StatsAssumption DEF Room
      <3>5. Cardinality(left \cup {s}) <= Cardinality(left) + 1
        BY <1>5, <3>4, FS_AddElement
      <3> QED
        BY <1>5, <3>4, <3>5, FS_CardinalityType, StatsAssumption DEF Room
    <2> QED
      BY <2>1, <2>2
  <1>8. Cardinality(Cached') \in Nat /\ Cardinality(left \cup {s}) \in Nat
    <2>1. IsFiniteSet(Cached')
      BY <1>4, <1>5, FS_Subset
    <2> QED
      BY <1>5, <2>1, FS_CardinalityType
  <1> QED
    BY <1>6, <1>7, <1>8, StatsAssumption DEF CacheBounded

(* A look only takes out what has expired.                                  *)
LEMMA GetBounded ==
    ASSUME TypeOK, CacheBounded, NEW s \in Sigs, NEW t \in Times, Get(s, t)
    PROVE  CacheBounded'
PROOF
  <1>1. Cached' \in SUBSET Cached
    BY DEF Cached, Get, TypeOK
  <1>2. IsFiniteSet(Cached') /\ Cardinality(Cached') <= Cardinality(Cached)
    BY <1>1, Finite, FS_Subset
  <1>3. Cardinality(Cached') \in Nat /\ Cardinality(Cached) \in Nat
    BY <1>2, Finite, FS_CardinalityType
  <1> QED
    BY <1>2, <1>3, StatsAssumption DEF CacheBounded

(* Only looks and puts touch the cache.                                     *)
LEMMA CacheSteps ==
    ASSUME TypeOK, [Next]_vars
    PROVE  \/ UNCHANGED entries
           \/ \E r \in Requests :
                 /\ Key(r) \in Sigs /\ now[r] \in Times
                 /\ Get(Key(r), now[r])
           \/ \E p \in Probes :
                 /\ probes[p].sig \in Sigs /\ probes[p].observed \in Times
                 /\ Store(p)
PROOF
  <1>1. ASSUME NEW r \in Requests, Read(r) \/ Look(r)
        PROVE  /\ Key(r) \in Sigs /\ now[r] \in Times
               /\ Get(Key(r), now[r])
    BY <1>1, KeyIsSig DEF Read, Look, TypeOK
  <1>2. ASSUME NEW p \in Probes, Store(p)
        PROVE  probes[p].sig \in Sigs /\ probes[p].observed \in Times
    BY <1>2, AtWork DEF Store
  <1>3. ASSUME NEW r \in Requests, Request(r), ~ Read(r), ~ Look(r)
        PROVE  UNCHANGED entries
    BY <1>3 DEF Request, Ask, Classify, Classified, Done, Walk, Acquire
  <1>4. ASSUME NEW p \in Probes, Step(p), ~ Store(p) PROVE UNCHANGED entries
    BY <1>4 DEF Step, Observe, Failed, Release
  <1>5. Tick \/ UNCHANGED vars => UNCHANGED entries
    BY DEF Tick, vars
  <1> QED
    BY <1>1, <1>2, <1>3, <1>4, <1>5 DEF Next

(* No step takes the cache over its limit.                                  *)
LEMMA BoundedStep == TypeOK /\ CacheBounded /\ [Next]_vars => CacheBounded'
PROOF
  <1> SUFFICES ASSUME TypeOK, CacheBounded, [Next]_vars PROVE CacheBounded'
    OBVIOUS
  <1>1. UNCHANGED entries => CacheBounded'
    BY DEF CacheBounded, Cached
  <1>2. ASSUME NEW p \in Probes, Store(p) PROVE Put(probes[p].sig, probes[p].observed)
    BY <1>2 DEF Store
  <1> QED
    BY <1>1, <1>2, CacheSteps, GetBounded, PutBounded

(* An empty cache is within its limit.                                      *)
LEMMA BoundedInit == Init => CacheBounded
PROOF
  <1> SUFFICES ASSUME Init PROVE CacheBounded
    OBVIOUS
  <1>1. Cached = {}
    BY DEF Init, Cached
  <1>2. Cardinality(Cached) = 0
    BY <1>1, FS_EmptySet
  <1> QED
    BY <1>2, StatsAssumption DEF CacheBounded

(* The cache never holds more than MaxEntries selectors.                    *)
THEOREM CacheKeepsLimit == Spec => []CacheBounded
PROOF
  <1> DEFINE I == TypeOK /\ SlotsMatchProbes /\ CacheBounded
  <1>1. Init => I
    BY TypeInit, BoundedInit
  <1>2. I /\ [Next]_vars => I'
    BY TypeStep, SlotsStep, BoundedStep
  <1> QED
    BY <1>1, <1>2, PTL DEF Spec

-----------------------------------------------------------------------------
(* What the cache loses                                                     *)

(* Making room at its limit, the cache loses its oldest.                    *)
LEMMA PutLosesOldest ==
    ASSUME TypeOK, CacheBounded, NEW p \in Probes, Store(p),
           probes[p].sig \in Sigs, probes[p].observed \in Times,
           probes[p].observed <= clock,
           NEW s \in Cached, entries'[s] = None, clock - entries[s] <= TTL
    PROVE  /\ Cardinality(Cached) = MaxEntries
           /\ \A t \in Cached : entries'[t] # None => entries[t] >= entries[s]
PROOF
  <1> DEFINE sig == probes[p].sig
             kept == {x \in Cached : ~Expired(x, probes[p].observed)}
  <1>1. PICK drop \in IF sig \in kept THEN {{}} ELSE Evictions(kept) :
           entries' = [x \in Sigs |-> IF x = sig THEN probes[p].observed
                                     ELSE IF x \in kept \ drop THEN entries[x]
                                     ELSE None]
    BY DEF Store, Put
  <1>2. /\ s \in Sigs /\ entries[s] \in Nat /\ clock \in Nat
        /\ probes[p].observed \in Nat /\ TTL \in Nat
    BY StatsAssumption DEF Cached, TypeOK, Times, None
  <1>3. s \in kept
    BY <1>2 DEF Expired
  <1>4. s \in drop
    BY <1>1, <1>2, <1>3 DEF Cached, None
  <1>5. /\ sig \notin kept /\ drop \in SUBSET kept
        /\ Cardinality(drop) = IF Cardinality(kept) > Room
                               THEN Cardinality(kept) - Room ELSE 0
        /\ Oldest(kept, drop)
    BY <1>1, <1>4 DEF Evictions
  <1>6. /\ IsFiniteSet(kept) /\ IsFiniteSet(drop) /\ IsFiniteSet(Cached)
        /\ Cardinality(kept) <= Cardinality(Cached)
        /\ (Cardinality(kept) = Cardinality(Cached) => kept = Cached)
    BY <1>5, Finite, FS_Subset
  <1>7. Cardinality(kept) \in Nat /\ Cardinality(Cached) \in Nat
    BY <1>6, FS_CardinalityType
  <1>8. Cardinality(drop) # 0
    BY <1>4, <1>6, FS_EmptySet
  <1>9. Cardinality(kept) = MaxEntries /\ Cardinality(Cached) = MaxEntries
    BY <1>5, <1>6, <1>7, <1>8, StatsAssumption DEF Room, CacheBounded
  <1>10. kept = Cached
    BY <1>6, <1>9
  <1>11. ASSUME NEW t \in Cached, entries'[t] # None PROVE entries[t] >= entries[s]
    <2>1. t \in Sigs /\ entries[t] \in Nat
      BY DEF Cached, TypeOK, Times, None
    <2>2. t \in kept \ drop
      BY <1>1, <1>5, <1>10, <1>11, <2>1
    <2>3. entries[s] <= entries[t]
      BY <1>4, <1>5, <2>2 DEF Oldest
    <2> QED
      BY <1>2, <2>1, <2>3
  <1> QED
    BY <1>9, <1>11

(* Statistics that are still good go only to make room, oldest first,       *)
(* whatever old clock a request brings and however late a probe stores.     *)
THEOREM LosesOldest == Spec => LosesOnlyOldest
PROOF
  <1> DEFINE I == TypeOK /\ SlotsMatchProbes /\ CacheBounded /\ ClocksBehind
             A == \A s \in Cached : entries'[s] = None /\ clock - entries[s] <= TTL =>
                    /\ Cardinality(Cached) = MaxEntries
                    /\ \A t \in Cached : entries'[t] # None => entries[t] >= entries[s]
  <1>1. Init => I
    BY TypeInit, BoundedInit, ClocksInit
  <1>2. I /\ [Next]_vars => I'
    BY TypeStep, SlotsStep, BoundedStep, ClocksStep
  <1>3. I /\ [Next]_vars => [A]_vars
    <2> SUFFICES ASSUME I, [Next]_vars, NEW s \in Cached,
                        entries'[s] = None, clock - entries[s] <= TTL
                 PROVE  /\ Cardinality(Cached) = MaxEntries
                        /\ \A t \in Cached : entries'[t] # None => entries[t] >= entries[s]
      OBVIOUS
    <2>1. entries[s] # None /\ s \in Sigs /\ entries[s] \in Nat /\ clock \in Nat
      BY StatsAssumption DEF Cached, TypeOK, Times, None
    <2>2. CASE UNCHANGED entries
      BY <2>1, <2>2
    <2>3. ASSUME NEW r \in Requests, Key(r) \in Sigs, now[r] \in Times,
                 Get(Key(r), now[r])
          PROVE  FALSE
      <3>1. entries' = [entries EXCEPT ![Key(r)] = None]
            /\ Expired(Key(r), now[r])
        BY <2>1, <2>3 DEF Get
      <3>2. s = Key(r)
        BY <2>1, <3>1 DEF TypeOK
      <3>3. now[r] \in Nat /\ now[r] <= clock
        BY <2>3, StatsAssumption DEF ClocksBehind, Times
      <3> QED
        BY <2>1, <3>1, <3>2, <3>3, StatsAssumption DEF Expired
    <2>4. ASSUME NEW p \in Probes, Store(p), probes[p].sig \in Sigs,
                 probes[p].observed \in Times
          PROVE  /\ Cardinality(Cached) = MaxEntries
                 /\ \A t \in Cached : entries'[t] # None => entries[t] >= entries[s]
      <3>1. probes[p].observed <= clock
        BY <2>4 DEF ClocksBehind, Store
      <3> QED
        BY <2>4, <3>1, PutLosesOldest
    <2> QED
      BY <2>2, <2>3, <2>4, CacheSteps
  <1> QED
    BY <1>1, <1>2, <1>3, PTL DEF Spec, LosesOnlyOldest
=============================================================================
