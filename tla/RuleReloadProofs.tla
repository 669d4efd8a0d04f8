-------------------------- MODULE RuleReloadProofs --------------------------
(***************************************************************************)
(* Proofs about RuleReload for any number of requests and files, any       *)
(* contents, any interval and any bound on the clock and the plans: its    *)
(* types, the exclusion of loads, that the registry never steps back, and  *)
(* that no plan is built with part of a load.                              *)
(***************************************************************************)
EXTENDS RuleReload, TLAPS, WellFoundedInduction

(* A non-empty set of files has a least one, which Least picks.             *)
LEMMA LeastFile ==
    ASSUME NEW S \in SUBSET Files, S # {}
    PROVE  Least(S) \in S
PROOF
  <1>1. S \subseteq Nat
    BY FilesAssumption DEF Files
  <1>2. PICK x \in S : \A y \in S : ~ (<<y, x>> \in OpToRel(<, Nat))
    BY <1>1, WFMin, NatLessThanWellFounded
  <1>3. ASSUME NEW y \in S PROVE x <= y
    <2>1. <<y, x>> \in Nat \X Nat
      BY <1>1
    <2>2. ~ (<<y, x>> \in {ss \in Nat \X Nat : ss[1] < ss[2]})
      BY <1>2 DEF OpToRel
    <2>3. ~ (y < x)
      BY <2>1, <2>2
    <2> QED
      BY <1>1, <2>3
  <1> QED
    BY <1>3 DEF Least

(* A request that does not load has an empty load.                          *)
LEMMA NoLoadType == NoLoad \in Loads
PROOF
  <1>1. Nothing \in Registries
    BY DEF Nothing, Registries
  <1> QED
    BY <1>1 DEF NoLoad, Loads

(* Visiting its least file leaves a load a load.                            *)
LEMMA StepsOfLoad ==
    ASSUME dir \in [Files -> Contents], NEW l \in Loads
    PROVE  /\ l.todo # {} => Globbed(l, Least(l.todo)) \in Loads
           /\ l.found # {} => Taken(l, Least(l.found)) \in Loads
PROOF
  <1>1. ASSUME NEW f \in Files PROVE Globbed(l, f) \in Loads
    BY DEF Globbed, Loads
  <1>2. ASSUME NEW f \in Files PROVE Taken(l, f) \in Loads
    <2>1. CASE Parses(dir[f])
      <3>1. [l.built EXCEPT ![f] = dir[f]] \in Registries
        BY <2>1 DEF Loads, Registries
      <3> QED
        BY <2>1, <3>1 DEF Taken, Loads
    <2>2. CASE ~ Parses(dir[f])
      BY <2>2 DEF Taken, Loads
    <2> QED
      BY <2>1, <2>2
  <1> QED
    BY <1>1, <1>2, LeastFile DEF Loads

(* The registry and the first deadline NewHandler leaves behind have their  *)
(* types.                                                                   *)
LEMMA TypeInit == Init => TypeOK
PROOF
  <1> SUFFICES ASSUME Init PROVE TypeOK
    OBVIOUS
  <1>1. registry \in Registries
    BY DEF Init, StartRegistry, Registries, Parses, Present, Contents
  <1>2. everGone \subseteq Files
    BY DEF Init
  <1>3. used \in [Requests -> Seq(Registries)]
    BY DEF Init
  <1>4. load \in [Requests -> Loads]
    BY NoLoadType DEF Init
  <1> QED
    BY <1>1, <1>2, <1>3, <1>4, TimeAssumption DEF Init, TypeOK

(* One step, whoever takes it, keeps the types.                             *)
LEMMA TypeStep == TypeOK /\ [Next]_vars => TypeOK'
PROOF
  <1> SUFFICES ASSUME TypeOK, [Next]_vars PROVE TypeOK'
    OBVIOUS
  <1> USE FilesAssumption, TimeAssumption DEF TypeOK
  <1>1. ASSUME NEW r \in Requests, ReadClock(r) PROVE TypeOK'
    BY <1>1 DEF ReadClock, envVars
  <1>2. ASSUME NEW r \in Requests, CheckDeadline(r) PROVE TypeOK'
    BY <1>2 DEF CheckDeadline, envVars
  <1>3. ASSUME NEW r \in Requests, LockAndRecheck(r) PROVE TypeOK'
    <2>1. CASE StillDue(r)
      <3>1. mu' = r /\ lastTry' = now[r] /\ pc' = [pc EXCEPT ![r] = "glob"]
        BY <1>3, <2>1 DEF LockAndRecheck
      <3> QED
        BY <1>3, <3>1 DEF LockAndRecheck, envVars
    <2>2. CASE ~ StillDue(r)
      BY <1>3, <2>2 DEF LockAndRecheck, envVars
    <2> QED
      BY <2>1, <2>2
  <1>4. ASSUME NEW r \in Requests, Glob(r), UNCHANGED restVars PROVE TypeOK'
    <2>1. [NoLoad EXCEPT !.todo = Listing] \in Loads
          /\ [NoLoad EXCEPT !.failed = TRUE] \in Loads
      BY NoLoadType DEF Loads, Listing
    <2> QED
      BY <1>4, <2>1 DEF Glob, restVars
  <1>5. ASSUME NEW r \in Requests, Reglob(r), UNCHANGED restVars PROVE TypeOK'
    BY <1>5, StepsOfLoad DEF Reglob, restVars
  <1>6. ASSUME NEW r \in Requests, ReglobDone(r), UNCHANGED restVars PROVE TypeOK'
    BY <1>6 DEF ReglobDone, restVars
  <1>7. ASSUME NEW r \in Requests, ReadFile(r), UNCHANGED restVars PROVE TypeOK'
    BY <1>7, StepsOfLoad DEF ReadFile, restVars
  <1>8. ASSUME NEW r \in Requests, Swap(r), UNCHANGED restVars PROVE TypeOK'
    <2>1. LoadOutcome(r) \in Registries
      BY DEF LoadOutcome, Loads
    <2> QED
      BY <1>8, <2>1 DEF Swap, restVars
  <1>9. ASSUME NEW r \in Requests, ScheduleAndUnlock(r) PROVE TypeOK'
    BY <1>9, NoLoadType DEF ScheduleAndUnlock, Unlock, envVars
  <1>10. ASSUME NEW r \in Requests, Snapshot(r) PROVE TypeOK'
    BY <1>10 DEF Snapshot, envVars
  <1>11. ASSUME Tick PROVE TypeOK'
    BY <1>11 DEF Tick
  <1>12. ASSUME NEW f \in Files, Edit(f) PROVE TypeOK'
    BY <1>12 DEF Edit
  <1>13. CASE UNCHANGED vars
    BY <1>13 DEF vars, envVars
  <1> QED
    BY <1>1, <1>2, <1>3, <1>4, <1>5, <1>6, <1>7, <1>8, <1>9, <1>10, <1>11,
       <1>12, <1>13 DEF Next, Plan, LoadFiles, Served

(* Every variable of the registry, its reload and the requests keeps its    *)
(* type, for any number of requests and files.                              *)
THEOREM TypeCorrect == Spec => []TypeOK
PROOF
  <1>1. Init => TypeOK
    BY TypeInit
  <1>2. TypeOK /\ [Next]_vars => TypeOK'
    BY TypeStep
  <1> QED
    BY <1>1, <1>2, PTL DEF Spec

-----------------------------------------------------------------------------
(* The mutex.                                                               *)

(* A request that globs, reads, swaps or schedules holds the mutex, and     *)
(* whoever holds it is doing one of these.                                  *)
LEMMA OneLoaderStep == TypeOK /\ OneLoader /\ [Next]_vars => OneLoader'
PROOF
  <1> SUFFICES ASSUME TypeOK, OneLoader, [Next]_vars PROVE OneLoader'
    OBVIOUS
  <1> USE NoOneAssumption DEF TypeOK, OneLoader, Loading
  <1>1. ASSUME NEW r \in Requests,
               ReadClock(r) \/ CheckDeadline(r) \/ Snapshot(r)
        PROVE  OneLoader'
    BY <1>1 DEF ReadClock, CheckDeadline, Snapshot
  <1>2. ASSUME NEW r \in Requests, LockAndRecheck(r) PROVE OneLoader'
    <2>1. CASE StillDue(r)
      BY <1>2, <2>1 DEF LockAndRecheck, MutexFree
    <2>2. CASE ~ StillDue(r)
      BY <1>2, <2>2 DEF LockAndRecheck
    <2> QED
      BY <2>1, <2>2
  <1>3. ASSUME NEW r \in Requests, LoadFiles(r), UNCHANGED restVars
        PROVE  OneLoader'
    <2>1. mu' = mu /\ Loading(r)
      BY <1>3 DEF LoadFiles, Glob, Reglob, ReglobDone, ReadFile, Swap, restVars
    <2>2. pc' = pc \/ \E s \in {"reglob", "read", "schedule"} : pc' = [pc EXCEPT ![r] = s]
      BY <1>3 DEF LoadFiles, Glob, Reglob, ReglobDone, ReadFile, Swap
    <2> QED
      BY <2>1, <2>2
  <1>4. ASSUME NEW r \in Requests, ScheduleAndUnlock(r) PROVE OneLoader'
    BY <1>4 DEF ScheduleAndUnlock, Unlock
  <1>5. CASE Tick \/ \E f \in Files : Edit(f)
    BY <1>5 DEF Tick, Edit
  <1>6. CASE UNCHANGED vars
    BY <1>6 DEF vars
  <1> QED
    BY <1>1, <1>2, <1>3, <1>4, <1>5, <1>6 DEF Next, Plan, Served

(* No two requests reload at once and none reloads without the mutex.       *)
THEOREM LoadsExclude == Spec => []OneLoader
PROOF
  <1>1. Init => OneLoader
    BY NoOneAssumption DEF Init, OneLoader, Loading
  <1>2. TypeOK /\ OneLoader /\ [Next]_vars => OneLoader'
    BY OneLoaderStep
  <1> QED
    BY <1>1, <1>2, TypeCorrect, PTL DEF Spec

-----------------------------------------------------------------------------
(* The registry never steps back.  Inductively: a request outside a load    *)
(* holds nothing of one, the registry is nowhere newer than the files, and  *)
(* what a load has read is nowhere older than the registry.                 *)

Between(f, r) ==
    load[r].built[f] # NoFile =>
        registry[f] <= load[r].built[f] /\ load[r].built[f] <= dir[f]

Ordered ==
    /\ \A r \in Requests : ~ Loading(r) => load[r] = NoLoad
    /\ \A f \in Files : registry[f] <= dir[f]
    /\ \A r \in Requests : \A f \in Files : Between(f, r)

(* The contents that Ordered compares are integers.                         *)
LEMMA Numbers ==
    TypeOK => /\ \A f \in Files : dir[f] \in Int /\ registry[f] \in Int
              /\ \A f \in Files : 0 <= dir[f]
              /\ \A r \in Requests : \A f \in Files : load[r].built[f] \in Int
PROOF
  BY ContentAssumption DEF TypeOK, Registries, Loads, Contents, NoFile

(* The first registry was read from the files as they are.                  *)
LEMMA OrderedInit == Init => Ordered
PROOF
  <1> SUFFICES ASSUME Init PROVE Ordered
    OBVIOUS
  <1>1. \A f \in Files : dir[f] \in Int /\ 0 <= dir[f]
    BY ContentAssumption DEF Init, Contents
  <1>2. \A f \in Files : registry[f] <= dir[f]
    BY <1>1 DEF Init, StartRegistry, NoFile
  <1>3. \A r \in Requests : \A f \in Files : load[r].built[f] = NoFile
    BY DEF Init, NoLoad, Nothing
  <1> QED
    BY <1>2, <1>3 DEF Init, Ordered, Between

(* Only Swap publishes, and the mutex keeps a second load from publishing   *)
(* in between; an edit only makes contents newer.                           *)
LEMMA OrderedStep ==
    TypeOK /\ OneLoader /\ Ordered /\ [Next]_vars => Ordered'
PROOF
  <1> SUFFICES ASSUME TypeOK, OneLoader, Ordered, [Next]_vars PROVE Ordered'
    OBVIOUS
  <1> USE DEF Ordered, Loading
  <1>0. /\ pc \in [Requests -> {"idle", "check", "lock", "glob", "reglob", "read",
                                "schedule", "snapshot"}]
        /\ load \in [Requests -> Loads]
        /\ registry \in Registries /\ dir \in [Files -> Contents]
    BY DEF TypeOK
  <1>1. ASSUME NEW r \in Requests,
               \/ ReadClock(r) \/ CheckDeadline(r) \/ Snapshot(r)
               \/ ReglobDone(r) /\ UNCHANGED restVars
        PROVE  Ordered'
    BY <1>0, <1>1 DEF ReadClock, CheckDeadline, ReglobDone, Snapshot, Between, envVars
  <1>2. ASSUME NEW r \in Requests, LockAndRecheck(r) PROVE Ordered'
    <2>1. UNCHANGED <<dir, registry, load>>
          /\ (pc' = [pc EXCEPT ![r] = "glob"] \/ pc' = [pc EXCEPT ![r] = "snapshot"])
          /\ pc[r] = "lock"
      BY <1>2 DEF LockAndRecheck, envVars
    <2> QED
      BY <1>0, <2>1 DEF Between
  <1>3. ASSUME NEW r \in Requests, Glob(r), UNCHANGED restVars PROVE Ordered'
    <2>1. \A q \in Requests : load'[q] = load[q] \/ load'[q].built = Nothing
      BY <1>0, <1>3 DEF Glob, NoLoad
    <2>2. ASSUME NEW q \in Requests, NEW f \in Files PROVE Between(f, q)'
      <3>1. UNCHANGED <<registry, dir>>
        BY <1>3 DEF Glob, restVars
      <3>2. CASE load'[q] = load[q]
        BY <3>1, <3>2 DEF Between
      <3>3. CASE load'[q].built = Nothing
        BY <3>3 DEF Between, Nothing
      <3> QED
        BY <2>1, <3>2, <3>3
    <2> QED
      BY <1>0, <1>3, <2>2 DEF Glob, restVars
  <1>4. ASSUME NEW r \in Requests, Reglob(r), UNCHANGED restVars PROVE Ordered'
    <2>1. \A q \in Requests : load'[q].built = load[q].built
      BY <1>0, <1>4 DEF Reglob, Globbed, Loads
    <2>2. \A q \in Requests : q # r => load'[q] = load[q]
      BY <1>0, <1>4 DEF Reglob
    <2> QED
      BY <1>0, <1>4, <2>1, <2>2 DEF Reglob, Between, restVars
  <1>5. ASSUME NEW r \in Requests, ReadFile(r), UNCHANGED restVars PROVE Ordered'
    <2> DEFINE f == Least(load[r].found)
    <2>1. f \in Files
      BY <1>0, <1>5, LeastFile DEF ReadFile, Loads
    <2>2. \A q \in Requests : q # r => load'[q] = load[q]
      BY <1>0, <1>5 DEF ReadFile
    <2>3. \A g \in Files : load'[r].built[g] = load[r].built[g]
                            \/ (g = f /\ load'[r].built[g] = dir[g])
      <3>1. load'[r] = Taken(load[r], f)
        BY <1>0, <1>5 DEF ReadFile
      <3>2. CASE Parses(dir[f])
        BY <1>0, <2>1, <3>1, <3>2 DEF Taken, Loads, Registries
      <3>3. CASE ~ Parses(dir[f])
        BY <1>0, <3>1, <3>3 DEF Taken, Loads
      <3> QED
        BY <3>2, <3>3
    <2>4. \A g \in Files : Between(g, r)'
      BY <1>5, <2>3, Numbers DEF ReadFile, Between, restVars
    <2> QED
      BY <1>0, <1>5, <2>2, <2>4 DEF ReadFile, Between, restVars
  <1>6. ASSUME NEW r \in Requests, Swap(r), UNCHANGED restVars PROVE Ordered'
    <2>1. \A q \in Requests : q # r => load[q] = NoLoad
      BY <1>6 DEF Swap, OneLoader
    <2>2. \A f \in Files : registry'[f] = registry[f]
                            \/ registry'[f] = load[r].built[f]
      BY <1>6 DEF Swap, LoadOutcome
    <2>3. \A f \in Files : registry'[f] <= dir[f]
      BY <2>2, Numbers DEF Between, NoFile
    <2>4. \A f \in Files : Between(f, r)'
      BY <1>6, <2>2, Numbers DEF Swap, Between, restVars
    <2>5. \A q \in Requests : \A f \in Files : q # r => Between(f, q)'
      BY <1>6, <2>1 DEF Swap, Between, NoLoad, Nothing, restVars
    <2> QED
      BY <1>0, <1>6, <2>3, <2>4, <2>5 DEF Swap, restVars
  <1>7. ASSUME NEW r \in Requests, ScheduleAndUnlock(r) PROVE Ordered'
    <2>1. \A q \in Requests : load'[q] = IF q = r THEN NoLoad ELSE load[q]
      BY <1>0, <1>7 DEF ScheduleAndUnlock
    <2>2. \A q \in Requests : \A f \in Files : Between(f, q)'
      BY <1>7, <2>1 DEF ScheduleAndUnlock, Between, NoLoad, Nothing, envVars
    <2> QED
      BY <1>0, <1>7, <2>1, <2>2 DEF ScheduleAndUnlock, envVars
  <1>8. CASE Tick
    BY <1>8 DEF Tick, Between
  <1>9. ASSUME NEW f \in Files, Edit(f) PROVE Ordered'
    <2>1. \A g \in Files : dir[g] <= dir'[g] /\ dir'[g] \in Int
      BY <1>0, <1>9, ContentAssumption DEF Edit, Contents
    <2> QED
      BY <1>0, <1>9, <2>1, Numbers DEF Edit, Between
  <1>10. CASE UNCHANGED vars
    BY <1>10 DEF vars, Between, envVars
  <1> QED
    BY <1>1, <1>2, <1>3, <1>4, <1>5, <1>6, <1>7, <1>8, <1>9, <1>10
    DEF Next, Plan, LoadFiles, Served

(* Ordered is inductive relative to the types and the mutex.                *)
LEMMA OrderedAlways == Spec => []Ordered
PROOF
  <1>1. TypeOK /\ OneLoader /\ Ordered /\ [Next]_vars => Ordered'
    BY OrderedStep
  <1> QED
    BY <1>1, OrderedInit, TypeCorrect, LoadsExclude, PTL DEF Spec

(* A load never replaces the content of a file by an older one, however     *)
(* slow it was and whoever reloaded or edited meanwhile.                    *)
THEOREM NeverOlder == Spec => RegistryNeverOlder
PROOF
  <1>1. TypeOK /\ Ordered /\ [Next]_vars
          => [\A f \in Files : registry[f] # NoFile /\ registry'[f] # NoFile
                                  => registry'[f] >= registry[f]]_vars
    <2> SUFFICES ASSUME TypeOK, Ordered, [Next]_vars,
                        NEW f \in Files, registry[f] # NoFile, registry'[f] # NoFile
                 PROVE  registry'[f] >= registry[f]
      OBVIOUS
    <2>1. registry[f] \in Int
      BY Numbers
    <2>2. ASSUME NEW r \in Requests, Swap(r) PROVE registry'[f] >= registry[f]
      BY <2>1, <2>2, Numbers DEF Swap, LoadOutcome, Ordered, Between
    <2>3. CASE registry' = registry
      BY <2>1, <2>3
    <2>4. registry' = registry \/ \E r \in Requests : Swap(r)
      BY DEF Next, Plan, LoadFiles, Served, ReadClock, CheckDeadline, LockAndRecheck, Glob,
             Reglob, ReglobDone, ReadFile, ScheduleAndUnlock, Snapshot, Tick,
             Edit, vars
    <2> QED
      BY <2>2, <2>3, <2>4
  <1> QED
    BY <1>1, TypeCorrect, OrderedAlways, PTL DEF Spec, RegistryNeverOlder

-----------------------------------------------------------------------------
(* No plan is built with part of a load.  Inductively: a load that has met  *)
(* no error has not lost a file that was there all the time.                *)

Kept(f, r) ==
    /\ pc[r] = "reglob" /\ ~ load[r].failed => f \in load[r].todo \cup load[r].found
    /\ pc[r] = "read" /\ ~ load[r].failed
          => f \in load[r].found \/ load[r].built[f] # NoFile

Whole ==
    \A f \in Files \ everGone :
        /\ Present(dir[f])
        /\ registry[f] # NoFile
        /\ \A r \in Requests : Kept(f, r)
        /\ \A r \in Requests : \A i \in DOMAIN used[r] : used[r][i][f] # NoFile

(* The first registry has every file that is there.                         *)
LEMMA WholeInit == Init => Whole
PROOF
  <1> SUFFICES ASSUME Init, NEW f \in Files \ everGone
               PROVE  /\ Present(dir[f]) /\ registry[f] # NoFile
                      /\ \A r \in Requests : Kept(f, r)
                      /\ \A r \in Requests : \A i \in DOMAIN used[r] :
                             used[r][i][f] # NoFile
    BY DEF Whole
  <1>1. Present(dir[f])
    BY DEF Init, Listing
  <1>2. registry[f] # NoFile
    BY <1>1, ContentAssumption DEF Init, StartRegistry, NoFile, Contents
  <1>3. \A r \in Requests : Kept(f, r)
    BY DEF Init, Kept
  <1>4. ASSUME NEW r \in Requests PROVE DOMAIN used[r] = {}
    <2>1. used[r] = <<>>
      BY DEF Init
    <2>2. DOMAIN <<>> = {}
      OBVIOUS
    <2> QED
      BY <2>1, <2>2
  <1> QED
    BY <1>1, <1>2, <1>3, <1>4

(* A load lists, globs and reads every file that is there throughout, or    *)
(* fails.                                                                   *)
LEMMA WholeStep == TypeOK /\ Whole /\ [Next]_vars => Whole'
PROOF
  <1> SUFFICES ASSUME TypeOK, Whole, [Next]_vars, NEW f \in Files \ everGone'
               PROVE  /\ Present(dir'[f]) /\ registry'[f] # NoFile
                      /\ \A r \in Requests : Kept(f, r)'
                      /\ \A r \in Requests : \A i \in DOMAIN used'[r] :
                             used'[r][i][f] # NoFile
    BY DEF Whole
  <1> DEFINE Kept4 == /\ Present(dir'[f]) /\ registry'[f] # NoFile
                      /\ \A r \in Requests : Kept(f, r)'
                      /\ \A r \in Requests : \A i \in DOMAIN used'[r] :
                             used'[r][i][f] # NoFile
  <1>0. /\ pc \in [Requests -> {"idle", "check", "lock", "glob", "reglob", "read",
                                "schedule", "snapshot"}]
        /\ load \in [Requests -> Loads]
        /\ used \in [Requests -> Seq(Registries)]
        /\ registry \in Registries /\ dir \in [Files -> Contents]
    BY DEF TypeOK
  <1>a. f \in Files \ everGone
    BY DEF Next, Plan, LoadFiles, Served, ReadClock, CheckDeadline, LockAndRecheck, Glob,
           Reglob, ReglobDone, ReadFile, Swap, ScheduleAndUnlock, Snapshot, Tick,
           Edit, vars, envVars, restVars
  <1>b. /\ Present(dir[f]) /\ registry[f] # NoFile
        /\ \A r \in Requests : Kept(f, r)
        /\ \A r \in Requests : \A i \in DOMAIN used[r] : used[r][i][f] # NoFile
    BY <1>a DEF Whole
  <1>1. ASSUME NEW r \in Requests, ReadClock(r) \/ CheckDeadline(r) PROVE Kept4
    BY <1>0, <1>b, <1>1 DEF ReadClock, CheckDeadline, Kept, envVars
  <1>2. ASSUME NEW r \in Requests, LockAndRecheck(r) PROVE Kept4
    <2>1. /\ UNCHANGED <<dir, registry, load, used>>
          /\ (pc' = [pc EXCEPT ![r] = "glob"] \/ pc' = [pc EXCEPT ![r] = "snapshot"])
      BY <1>2 DEF LockAndRecheck, envVars
    <2> QED
      BY <1>0, <1>b, <2>1 DEF Kept
  <1>3. ASSUME NEW r \in Requests, Glob(r), UNCHANGED restVars PROVE Kept4
    <2>1. /\ UNCHANGED <<dir, registry, used>>
          /\ pc' = [pc EXCEPT ![r] = "reglob"]
          /\ \A q \in Requests : q # r => load'[q] = load[q]
      BY <1>0, <1>3 DEF Glob, restVars
    <2>2. ~ load'[r].failed => f \in load'[r].todo
      <3>1. f \in Listing
        BY <1>a, <1>b DEF Listing
      <3>2. CASE Literal \subseteq Listing
        BY <1>0, <1>3, <3>1, <3>2 DEF Glob, NoLoad
      <3>3. CASE ~ (Literal \subseteq Listing)
        BY <1>0, <1>3, <3>3 DEF Glob, NoLoad
      <3> QED
        BY <3>2, <3>3
    <2>3. Kept(f, r)'
      BY <1>0, <2>1, <2>2 DEF Kept
    <2> QED
      BY <1>0, <1>b, <2>1, <2>3 DEF Kept
  <1>4. ASSUME NEW r \in Requests, Reglob(r), UNCHANGED restVars PROVE Kept4
    <2> DEFINE g == Least(load[r].todo)
    <2>1. /\ UNCHANGED <<dir, registry, used, pc>>
          /\ pc[r] = "reglob"
          /\ \A q \in Requests : q # r => load'[q] = load[q]
          /\ load'[r] = Globbed(load[r], g)
      BY <1>0, <1>4 DEF Reglob, restVars
    <2>2. CASE Present(dir[g])
      <3>1. load'[r].failed = load[r].failed
            /\ load'[r].todo \cup load'[r].found = load[r].todo \cup load[r].found \cup {g}
        BY <1>0, <2>1, <2>2 DEF Globbed, Loads
      <3> QED
        BY <1>0, <1>b, <2>1, <3>1 DEF Kept
    <2>3. CASE ~ Present(dir[g])
      <3>1. load'[r].failed
        BY <1>0, <2>1, <2>3 DEF Globbed, Loads
      <3> QED
        BY <1>0, <1>b, <2>1, <3>1 DEF Kept
    <2> QED
      BY <2>2, <2>3
  <1>5. ASSUME NEW r \in Requests, ReglobDone(r), UNCHANGED restVars PROVE Kept4
    BY <1>0, <1>b, <1>5 DEF ReglobDone, Kept, restVars
  <1>6. ASSUME NEW r \in Requests, ReadFile(r), UNCHANGED restVars PROVE Kept4
    <2> DEFINE g == Least(load[r].found)
    <2>1. /\ UNCHANGED <<dir, registry, used, pc>>
          /\ pc[r] = "read"
          /\ \A q \in Requests : q # r => load'[q] = load[q]
          /\ load'[r] = Taken(load[r], g)
      BY <1>0, <1>6 DEF ReadFile, restVars
    <2>2. g \in Files
      BY <1>0, <1>6, LeastFile DEF ReadFile, Loads
    <2>3. CASE Parses(dir[g])
      <3>1. dir[g] # NoFile
        BY <1>0, <2>2, ContentAssumption DEF Contents, NoFile
      <3>2. /\ load'[r].failed = load[r].failed
            /\ load'[r].found = load[r].found \ {g}
            /\ load'[r].built = [load[r].built EXCEPT ![g] = dir[g]]
        BY <1>0, <2>1, <2>3 DEF Taken, Loads
      <3>3. load'[r].built[f] = IF f = g THEN dir[g] ELSE load[r].built[f]
        BY <1>0, <1>a, <3>2 DEF Loads, Registries
      <3> QED
        BY <1>0, <1>b, <2>1, <3>1, <3>2, <3>3 DEF Kept
    <2>4. CASE ~ Parses(dir[g])
      <3>1. load'[r].failed
        BY <1>0, <2>1, <2>4 DEF Taken, Loads
      <3> QED
        BY <1>0, <1>b, <2>1, <3>1 DEF Kept
    <2> QED
      BY <2>3, <2>4
  <1>7. ASSUME NEW r \in Requests, Swap(r), UNCHANGED restVars PROVE Kept4
    <2>1. registry'[f] # NoFile
      BY <1>b, <1>7 DEF Swap, LoadOutcome, Kept
    <2> QED
      BY <1>0, <1>b, <1>7, <2>1 DEF Swap, Kept, restVars
  <1>8. ASSUME NEW r \in Requests, ScheduleAndUnlock(r) PROVE Kept4
    BY <1>0, <1>b, <1>8 DEF ScheduleAndUnlock, Kept, envVars
  <1>9. ASSUME NEW r \in Requests, Snapshot(r) PROVE Kept4
    <2>1. \A q \in Requests : \A i \in DOMAIN used'[q] :
             used'[q][i] = registry \/ (i \in DOMAIN used[q] /\ used'[q][i] = used[q][i])
      BY <1>0, <1>9 DEF Snapshot
    <2> QED
      BY <1>0, <1>b, <1>9, <2>1 DEF Snapshot, Kept, envVars
  <1>10. CASE Tick
    BY <1>b, <1>10 DEF Tick, Kept
  <1>11. ASSUME NEW g \in Files, Edit(g) PROVE Kept4
    <2>1. Present(dir'[f])
      BY <1>0, <1>b, <1>11 DEF Edit
    <2> QED
      BY <1>b, <1>11, <2>1 DEF Edit, Kept
  <1>12. CASE UNCHANGED vars
    BY <1>b, <1>12 DEF vars, Kept, envVars
  <1> QED
    BY <1>1, <1>2, <1>3, <1>4, <1>5, <1>6, <1>7, <1>8, <1>9, <1>10, <1>11, <1>12
    DEF Next, Plan, LoadFiles, Served

(* No request ever plans with part of a load: a file that was there all the *)
(* time is in every registry a plan was built with, for any files, edits    *)
(* and number of requests.                                                  *)
THEOREM WholeRegistry == Spec => []PlansUseWholeRegistry
PROOF
  <1>1. TypeOK /\ Whole /\ [Next]_vars => Whole'
    BY WholeStep
  <1>2. Whole => PlansUseWholeRegistry
    BY DEF Whole, PlansUseWholeRegistry
  <1> QED
    BY <1>1, <1>2, WholeInit, TypeCorrect, PTL DEF Spec

-----------------------------------------------------------------------------
(* Reloads keep their distance.  Inductively: while the mutex is free the   *)
(* deadline lies an interval after the last attempt, and whoever holds it   *)
(* made that attempt.                                                       *)

Spacing ==
    /\ mu = NoOne => nextReload = lastTry + Interval
    /\ \A r \in Requests : mu = r => lastTry = now[r]

(* The second look at the deadline, under the mutex, keeps attempts apart.  *)
LEMMA SpacingStep ==
    TypeOK /\ OneLoader /\ Spacing /\ [Next]_vars
        => Spacing' /\ (lastTry' # lastTry => lastTry' >= lastTry + Interval)
PROOF
  <1> DEFINE Apart == lastTry' # lastTry => lastTry' >= lastTry + Interval
  <1> SUFFICES ASSUME TypeOK, OneLoader, Spacing, [Next]_vars
               PROVE  Spacing' /\ Apart
    OBVIOUS
  <1> USE NoOneAssumption, TimeAssumption DEF TypeOK, Spacing
  <1>1. ASSUME NEW r \in Requests, ReadClock(r) PROVE Spacing' /\ Apart
    <2>1. mu # r
      BY <1>1 DEF ReadClock, OneLoader, Loading
    <2> QED
      BY <1>1, <2>1 DEF ReadClock, envVars
  <1>2. ASSUME NEW r \in Requests, LockAndRecheck(r) PROVE Spacing' /\ Apart
    <2>1. CASE StillDue(r)
      <3>1. /\ mu = NoOne /\ mu' = r
            /\ lastTry' = now[r] /\ UNCHANGED <<now, nextReload>>
        BY <1>2, <2>1 DEF LockAndRecheck, MutexFree
      <3>2. now[r] >= lastTry + Interval
        BY <2>1, <3>1 DEF StillDue, Due
      <3> QED
        BY <3>1, <3>2
    <2>2. CASE ~ StillDue(r)
      BY <1>2, <2>2 DEF LockAndRecheck
    <2> QED
      BY <2>1, <2>2
  <1>3. ASSUME NEW r \in Requests, ScheduleAndUnlock(r) PROVE Spacing' /\ Apart
    <2>1. mu = r
      BY <1>3 DEF ScheduleAndUnlock, OneLoader, Loading
    <2> QED
      BY <1>3, <2>1 DEF ScheduleAndUnlock, Unlock
  <1>4. ASSUME UNCHANGED <<mu, nextReload, lastTry, now>> PROVE Spacing' /\ Apart
    BY <1>4
  <1>5. \/ UNCHANGED <<mu, nextReload, lastTry, now>>
        \/ \E r \in Requests : ReadClock(r) \/ LockAndRecheck(r) \/ ScheduleAndUnlock(r)
    BY DEF Next, Plan, Served, CheckDeadline, Snapshot, Tick, Edit, vars, envVars,
           restVars
  <1> QED
    BY <1>1, <1>2, <1>3, <1>4, <1>5

(* However many requests find the deadline passed together, the times two   *)
(* attempts to reload count from are an interval apart, for any interval.   *)
THEOREM Spaced == Spec => ReloadsSpaced
PROOF
  <1>1. Init => Spacing
    BY NoOneAssumption, TimeAssumption DEF Init, Spacing
  <1>2. TypeOK /\ OneLoader /\ Spacing /\ [Next]_vars
          => Spacing' /\ (lastTry' # lastTry => lastTry' >= lastTry + Interval)
    BY SpacingStep
  <1>3. TypeOK /\ OneLoader /\ Spacing /\ [Next]_vars
          => [lastTry' # lastTry => lastTry' >= lastTry + Interval]_vars
    BY <1>2
  <1> QED
    BY <1>1, <1>2, <1>3, TypeCorrect, LoadsExclude, PTL DEF Spec, ReloadsSpaced

-----------------------------------------------------------------------------
(* The reload implements the register, its fairness apart: every step is a  *)
(* publication, a question, an answer, or nothing the register shows.       *)

Asking == {r \in Requests : pc[r] # "idle"}

(* A swap is a publication, reading the clock asks, loading the pointer     *)
(* answers, and everything else leaves the register alone.                  *)
LEMMA CellStep ==
    TypeOK /\ TypeOK' /\ Ordered /\ [Next]_vars => [Cell!Next]_(Cell!vars)
PROOF
  <1> SUFFICES ASSUME TypeOK, TypeOK', Ordered, [Next]_vars
               PROVE  Cell!Next \/ UNCHANGED <<registry, Asking, used>>
    BY DEF Cell!vars, Asking
  <1>0. pc \in [Requests -> {"idle", "check", "lock", "glob", "reglob", "read",
                             "schedule", "snapshot"}]
    BY DEF TypeOK
  <1>1. ASSUME NEW r \in Requests, ReadClock(r) PROVE Cell!Ask(r)
    <2>1. r \notin Asking /\ Asking' = Asking \cup {r}
      BY <1>0, <1>1 DEF ReadClock, Asking
    <2> QED
      BY <1>1, <2>1 DEF ReadClock, Cell!Ask, Asking
  <1>2. ASSUME NEW r \in Requests, Snapshot(r) PROVE Cell!Answer(r)
    <2>1. r \in Asking /\ Asking' = Asking \ {r}
      BY <1>0, <1>2 DEF Snapshot, Asking
    <2> QED
      BY <1>2, <2>1 DEF Snapshot, Cell!Answer, Asking
  <1>3. ASSUME NEW r \in Requests, Swap(r), UNCHANGED restVars PROVE Cell!Publish
    <2>1. UNCHANGED <<Asking, used>>
      BY <1>0, <1>3 DEF Swap, Asking, restVars
    <2>2. registry' \in Registries
      BY DEF TypeOK
    <2>3. ASSUME NEW f \in Files, registry[f] # NoFile, registry'[f] # NoFile
          PROVE  registry'[f] >= registry[f]
      BY <1>3, <2>3, Numbers DEF Swap, LoadOutcome, Ordered, Between
    <2> QED
      BY <2>1, <2>2, <2>3 DEF Cell!Publish, Cell!NotOlder, Cell!NoFile, NoFile, Asking
  <1>4. ASSUME NEW r \in Requests,
               \/ CheckDeadline(r) \/ LockAndRecheck(r) \/ ScheduleAndUnlock(r)
               \/ (Glob(r) \/ Reglob(r) \/ ReglobDone(r) \/ ReadFile(r))
                     /\ UNCHANGED restVars
        PROVE  UNCHANGED <<registry, Asking, used>>
    <2>1. UNCHANGED <<registry, used>>
      BY <1>4 DEF CheckDeadline, LockAndRecheck, ScheduleAndUnlock, Glob, Reglob,
                  ReglobDone, ReadFile, restVars
    <2>2. pc[r] # "idle"
          /\ (pc' = pc \/ \E s \in {"lock", "snapshot", "glob", "reglob", "read"} :
                             pc' = [pc EXCEPT ![r] = s])
      BY <1>4 DEF CheckDeadline, LockAndRecheck, ScheduleAndUnlock, Glob, Reglob,
                  ReglobDone, ReadFile
    <2> QED
      BY <1>0, <2>1, <2>2 DEF Asking
  <1>5. CASE Tick \/ (\E f \in Files : Edit(f)) \/ UNCHANGED vars
    BY <1>5 DEF Tick, Edit, vars, Asking
  <1> QED
    BY <1>1, <1>2, <1>3, <1>4, <1>5 DEF Next, Plan, LoadFiles, Served, Cell!Next

(* Seen by the requests the registry is one register: a publication         *)
(* replaces it as a whole and never by an older one, and every plan gets    *)
(* what stood in it at one moment, for any files, edits and requests.       *)
THEOREM CellSafety == Spec => Cell!Init /\ [][Cell!Next]_(Cell!vars)
PROOF
  <1>1. Init => Cell!Init
    <2> SUFFICES ASSUME Init PROVE Cell!Init
      OBVIOUS
    <2>1. registry \in Registries
      BY TypeInit DEF TypeOK
    <2> QED
      BY <2>1 DEF Init, Cell!Init
  <1>2. TypeOK /\ TypeOK' /\ Ordered /\ [Next]_vars => [Cell!Next]_(Cell!vars)
    BY CellStep
  <1> QED
    BY <1>1, <1>2, TypeCorrect, OrderedAlways, PTL DEF Spec
=============================================================================
