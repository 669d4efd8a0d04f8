---------------------------- MODULE SelectorStats ----------------------------
(***************************************************************************)
(* What promshim knows of a selector's size when it routes by cost: the    *)
(* cache of selector statistics and the probes that fill it behind the     *)
(* requests' backs (internal/promshim/selector_estimates.go,               *)
(* selector_probe.go, selector_probe_scheduler.go).                        *)
(*                                                                         *)
(* A request asks the cache for every selector of its query.  Under the    *)
(* policy cost_shadow, when that gave no series to estimate with, it walks *)
(* the selectors once more and starts a probe for each one still missing,  *)
(* unless all probe slots are taken: then the probe is dropped.  Of the    *)
(* statistics themselves only their time is kept, and whether the selector *)
(* matches anything at all.  A signature is a selector at the time its     *)
(* query is evaluated for, which the client names or the clock tells.  A   *)
(* local variable that is no longer used goes back to its initial value.   *)
(***************************************************************************)
EXTENDS Integers, Sequences, FiniteSets

CONSTANTS
    Requests,       \* clients
    Visitors,       \* those that ask now and then; the others ask again and again
    Sels,           \* selectors: matchers, look-back and offset
    QueryOf,        \* the selectors of each client's query, in walking order
    TimeOf,         \* the evaluation time each client names, or Clock
    Empty,          \* selectors that match no series
    TTL,            \* selectorStatsCache.ttl
    MaxEntries,     \* selectorStatsCache.maxEntries
    Cap,            \* capacity of selectorProbeSem
    MaxTime,        \* bound on the clock
    MaxFaults,      \* bound on failed probes
    MaxVisits       \* bound on what the visitors ask

Times == 0..MaxTime
Clock == -1         \* the request names no time
Sigs == Sels \X Times

ASSUME StatsAssumption ==
    /\ IsFiniteSet(Sels) /\ Empty \subseteq Sels
    /\ QueryOf \in [Requests -> Seq(Sels)]
    /\ TimeOf \in [Requests -> Times \cup {Clock}]
    /\ \A r \in Requests : QueryOf[r] # <<>>
    /\ TTL \in Nat \ {0} /\ MaxEntries \in Nat \ {0} /\ Cap \in Nat
    /\ MaxTime \in Nat /\ MaxFaults \in Nat /\ MaxVisits \in Nat

VARIABLES
    clock,
    entries,        \* ObservedAt of each cached signature, or None
    tokens,         \* len(selectorProbeSem)
    probes,         \* the probe goroutines, one place per slot
    pc, now, at,    \* each request: where it is, its time.Now(), the selector it is at
    evalTime,       \* each request: the time it evaluates its query for
    fresh,          \* EstimateState.Fresh of the request's query class
    faults, visits

reqVars == <<pc, now, at, evalTime, fresh>>
vars == <<clock, entries, tokens, probes, reqVars, faults, visits>>

None == -1
Probes == 1..Cap
Idle == [at |-> "idle"]
Probe(sig, where, time) == [at |-> where, sig |-> sig, observed |-> time]
Running == {p \in Probes : probes[p] # Idle}
Cached == {s \in Sigs : entries[s] # None}

Init ==
    /\ clock = 0
    /\ entries = [s \in Sigs |-> None]
    /\ tokens = 0
    /\ probes = [p \in Probes |-> Idle]
    /\ pc = [r \in Requests |-> "idle"]
    /\ now = [r \in Requests |-> 0]
    /\ at = [r \in Requests |-> 1]
    /\ evalTime = [r \in Requests |-> 0]
    /\ fresh = [r \in Requests |-> FALSE]
    /\ faults = 0 /\ visits = 0

-----------------------------------------------------------------------------
(* The cache; each operation runs under its mutex.                          *)

Expired(s, time) == entries[s] # None /\ time - entries[s] > TTL
Hit(s, time) == entries[s] # None /\ ~Expired(s, time)

(* getWithState: an expired entry is deleted by whoever finds it.           *)
Get(s, time) ==
    entries' = IF Expired(s, time) THEN [entries EXCEPT ![s] = None] ELSE entries

(* put: expired entries go, seen from the time of the new observation; for  *)
(* a new key the oldest go until there is room.                             *)
Room == MaxEntries - 1
NewestFirst(held, drop) == \A s \in drop, t \in held \ drop : entries[s] >= entries[t]
Oldest(held, drop) == \A s \in drop, t \in held \ drop : entries[s] <= entries[t]
NoEviction(held) == {{}}
Evictions(held) ==
    {drop \in SUBSET held :
        /\ Cardinality(drop) = IF Cardinality(held) > Room
                               THEN Cardinality(held) - Room ELSE 0
        /\ Oldest(held, drop)}
Put(sig, time) ==
    LET kept == {s \in Cached : ~Expired(s, time)}
    IN  \E drop \in IF sig \in kept THEN {{}} ELSE Evictions(kept) :
            entries' = [s \in Sigs |-> IF s = sig THEN time
                                       ELSE IF s \in kept \ drop THEN entries[s]
                                       ELSE None]

-----------------------------------------------------------------------------
(* A request: its plan, queryCostClass, maybeScheduleSelectorStatsProbes     *)

(* The key of the selector the request is at: where its range begins and    *)
(* ends is absolute.                                                        *)
Key(r) == <<QueryOf[r][at[r]], evalTime[r]>>
AtSelector(r) == at[r] <= Len(QueryOf[r])

(* The plan fixes the evaluation time.                                      *)
Ask(r) ==
    /\ pc[r] = "idle"
    /\ r \in Visitors => visits < MaxVisits
    /\ visits' = IF r \in Visitors THEN visits + 1 ELSE visits
    /\ pc' = [pc EXCEPT ![r] = "plan"]
    /\ evalTime' = [evalTime EXCEPT ![r] = IF TimeOf[r] = Clock THEN clock ELSE TimeOf[r]]
    /\ UNCHANGED <<clock, entries, tokens, probes, now, at, fresh, faults>>

(* Later the clock is read again, for the age of what the cache holds.      *)
Classify(r) ==
    /\ pc[r] = "plan"
    /\ pc' = [pc EXCEPT ![r] = "read"]
    /\ now' = [now EXCEPT ![r] = clock]
    /\ fresh' = [fresh EXCEPT ![r] = TRUE]
    /\ UNCHANGED <<clock, entries, tokens, probes, at, evalTime, faults, visits>>

(* applyCachedSelectorEstimates: one miss and there is no estimate, but the *)
(* walk goes on.                                                            *)
Read(r) ==
    /\ pc[r] = "read"
    /\ AtSelector(r)
    /\ Get(Key(r), now[r])
    /\ fresh' = [fresh EXCEPT ![r] = @ /\ Hit(Key(r), now[r])]
    /\ at' = [at EXCEPT ![r] = @ + 1]
    /\ UNCHANGED <<clock, tokens, probes, pc, now, evalTime, faults, visits>>

(* EstimatedSeries > 0                                                      *)
SeriesKnown(r) ==
    fresh[r] /\ \E i \in DOMAIN QueryOf[r] : QueryOf[r][i] \notin Empty
Done(r) ==
    /\ pc' = [pc EXCEPT ![r] = "idle"]
    /\ evalTime' = [evalTime EXCEPT ![r] = 0]
Classified(r) ==
    /\ pc[r] = "read"
    /\ ~AtSelector(r)
    /\ IF SeriesKnown(r) THEN Done(r)
       ELSE pc' = [pc EXCEPT ![r] = "walk"] /\ UNCHANGED evalTime
    /\ at' = [at EXCEPT ![r] = 1]
    /\ now' = [now EXCEPT ![r] = 0]
    /\ fresh' = [fresh EXCEPT ![r] = FALSE]
    /\ UNCHANGED <<clock, entries, tokens, probes, faults, visits>>

(* The walk that schedules: read the clock, look, and take a slot if there  *)
(* is one.  Nothing joins a probe for the same signature under way.         *)
Walk(r) ==
    /\ pc[r] = "walk"
    /\ IF AtSelector(r)
       THEN /\ pc' = [pc EXCEPT ![r] = "look"]
            /\ now' = [now EXCEPT ![r] = clock]
            /\ UNCHANGED <<at, evalTime>>
       ELSE /\ Done(r)
            /\ at' = [at EXCEPT ![r] = 1]
            /\ UNCHANGED now
    /\ UNCHANGED <<clock, entries, tokens, probes, fresh, faults, visits>>

Look(r) ==
    /\ pc[r] = "look"
    /\ Get(Key(r), now[r])
    /\ IF Hit(Key(r), now[r])
       THEN /\ pc' = [pc EXCEPT ![r] = "walk"]
            /\ at' = [at EXCEPT ![r] = @ + 1]
       ELSE pc' = [pc EXCEPT ![r] = "acquire"] /\ UNCHANGED at
    /\ now' = [now EXCEPT ![r] = 0]
    /\ UNCHANGED <<clock, tokens, probes, evalTime, fresh, faults, visits>>

FreeSlot == CHOOSE p \in Probes \ Running : \A q \in Probes \ Running : p <= q
SlotFree == tokens < Cap
Acquire(r) ==
    /\ pc[r] = "acquire"
    /\ IF SlotFree
       THEN /\ tokens' = tokens + 1
            /\ probes' = [probes EXCEPT ![FreeSlot] = Probe(Key(r), "query", 0)]
       ELSE UNCHANGED <<tokens, probes>>
    /\ pc' = [pc EXCEPT ![r] = "walk"]
    /\ at' = [at EXCEPT ![r] = @ + 1]
    /\ UNCHANGED <<clock, entries, now, evalTime, fresh, faults, visits>>

Request(r) ==
    \/ Ask(r) \/ Classify(r) \/ Read(r) \/ Classified(r)
    \/ Walk(r) \/ Look(r) \/ Acquire(r)

-----------------------------------------------------------------------------
(* A probe: one query against ClickHouse, within its budget                 *)

(* The answer is dated when it has arrived, before the cache is locked.     *)
Observe(p) ==
    /\ probes[p].at = "query"
    /\ probes' = [probes EXCEPT ![p] = Probe(@.sig, "put", clock)]
    /\ UNCHANGED <<clock, entries, tokens, reqVars, faults, visits>>

(* The query fails or its 250 ms are over: nothing is stored.               *)
Failed(p) ==
    /\ probes[p].at = "query"
    /\ faults < MaxFaults
    /\ faults' = faults + 1
    /\ probes' = [probes EXCEPT ![p] = Probe(@.sig, "failed", 0)]
    /\ UNCHANGED <<clock, entries, tokens, reqVars, visits>>

Store(p) ==
    /\ probes[p].at = "put"
    /\ Put(probes[p].sig, probes[p].observed)
    /\ probes' = [probes EXCEPT ![p] = Probe(@.sig, "stored", 0)]
    /\ UNCHANGED <<clock, tokens, reqVars, faults, visits>>

(* The deferred receive from the semaphore, whatever became of the probe.   *)
OnlyFailed(p) == IF probes[p].at = "failed" THEN tokens - 1 ELSE tokens
OnlyStored(p) == IF probes[p].at = "stored" THEN tokens - 1 ELSE tokens
Given(p) == tokens - 1
Release(p) ==
    /\ probes[p].at \in {"stored", "failed"}
    /\ tokens' = Given(p)
    /\ probes' = [probes EXCEPT ![p] = Idle]
    /\ UNCHANGED <<clock, entries, reqVars, faults, visits>>

Step(p) == Observe(p) \/ Failed(p) \/ Store(p) \/ Release(p)

Tick ==
    /\ clock < MaxTime
    /\ clock' = clock + 1
    /\ UNCHANGED <<entries, tokens, probes, reqVars, faults, visits>>

Next ==
    \/ \E r \in Requests : Request(r)
    \/ \E p \in Probes : Step(p)
    \/ Tick

(* Goroutines are scheduled, and a probe's context ends it; clients go on   *)
(* asking.                                                                  *)
Fairness ==
    /\ \A r \in Requests : WF_vars(Request(r))
    /\ \A p \in Probes : WF_vars(Step(p))

Spec == Init /\ [][Next]_vars /\ Fairness

-----------------------------------------------------------------------------
(* Properties                                                               *)

RunningProbe(q) ==
    /\ q.at \in {"query", "put", "stored", "failed"}
    /\ q = Probe(q.sig, q.at, q.observed)
    /\ q.sig \in Sigs /\ q.observed \in Times

(* The types: the semaphore never counts below zero or over its capacity,   *)
(* and a request looks only at selectors its query has.                     *)
TypeOK ==
    /\ clock \in Times
    /\ entries \in [Sigs -> Times \cup {None}]
    /\ tokens \in 0..Cap
    /\ DOMAIN probes = Probes
    /\ \A p \in Probes : probes[p] = Idle \/ RunningProbe(probes[p])
    /\ pc \in [Requests -> {"idle", "plan", "read", "walk", "look", "acquire"}]
    /\ now \in [Requests -> Times]
    /\ at \in [Requests -> Nat \ {0}]
    /\ \A r \in Requests :
          /\ at[r] <= Len(QueryOf[r]) + 1
          /\ pc[r] \in {"look", "acquire"} => AtSelector(r)
    /\ evalTime \in [Requests -> Times]
    /\ fresh \in [Requests -> BOOLEAN]
    /\ faults \in 0..MaxFaults /\ visits \in 0..MaxVisits

(* The cache never outgrows its limit, whatever the probes that were under  *)
(* way bring in and in whichever order.                                     *)
CacheBounded == Cardinality(Cached) <= MaxEntries

(* A slot is taken exactly while its probe runs: no outcome of a probe      *)
(* leaks one, and a burst of requests never runs more than Cap of them.     *)
SlotsMatchProbes == tokens = Cardinality(Running)

(* Statistics still good are lost only to make room, oldest first: neither  *)
(* a request with an old clock nor a late probe throws out what others can  *)
(* still use.                                                               *)
LosesOnlyOldest ==
    [][\A s \in Cached : entries'[s] = None /\ clock - entries[s] <= TTL =>
          /\ Cardinality(Cached) = MaxEntries
          /\ \A t \in Cached : entries'[t] # None => entries[t] >= entries[s]]_vars

(* A query asked for again and again for the same time comes to be known    *)
(* again and again, though its probes fail, time out or are dropped for     *)
(* want of a slot, the statistics run out or make room for others: no       *)
(* outcome of a probe and no order of requests leaves promshim without      *)
(* estimates for good.  Of a query evaluated now nothing of the kind holds: *)
(* asked again, it is another signature.                                    *)
EstimatesArrive ==
    \A r \in Requests \ Visitors : TimeOf[r] # Clock =>
        \A i \in DOMAIN QueryOf[r] : []<>Hit(<<QueryOf[r][i], TimeOf[r]>>, clock)
=============================================================================
