----------------------------- MODULE RuleReload -----------------------------
(***************************************************************************)
(* The recording-rule registry of promshim and its request-driven reload   *)
(* (internal/promshim/service.go, internal/promshim/rules/registry.go).    *)
(*                                                                         *)
(* The registry hangs off an atomic pointer.  No goroutine reloads it in   *)
(* the background: every plan a request builds first calls                 *)
(* maybeReloadRecordingRules(time.Now()), and the request that finds the   *)
(* reload deadline passed loads the rule files while it holds              *)
(* recordingRuleReloadMu.  A request plans once, and again for a routing   *)
(* candidate, an execution fallback or a shadow evaluation.                *)
(*                                                                         *)
(* An edit always gives a file a higher number than it had, so that "older *)
(* than" can be said of two contents of one file.                          *)
(***************************************************************************)
EXTENDS RuleLoad, Sequences

CONSTANTS
    Interval,       \* RecordingRuleReloadInterval; 0 never reloads
    MaxTime,        \* bound on the clock
    MaxPlans,       \* bound on the plans one request builds
    NoOne           \* the mutex is free

ASSUME TimeAssumption == Interval \in Nat /\ MaxTime \in Nat /\ MaxPlans \in Nat
ASSUME NoOneAssumption == NoOne \notin Requests

VARIABLES
    clock,          \* time.Now()
    nextReload,     \* recordingRuleNextReload; 0 when reloading is off
    mu,             \* holder of recordingRuleReloadMu, or NoOne
    now,            \* the time each request read before it looked at the deadline
    used,           \* the registries each request's plans were built with
    lastTry,        \* (history) the `now` of the last reload that was attempted
    everGone        \* (history) the files that were absent at some time

envVars == <<dir, clock, everGone>>
restVars == <<clock, nextReload, mu, now, used, lastTry, everGone>>
vars == <<dir, clock, registry, nextReload, mu, pc, now, load, used, lastTry,
          everGone>>

(* NewHandler loads the files before it serves and fails to start when the  *)
(* load fails; the first deadline is one interval away.                     *)
Init ==
    /\ dir \in [Files -> Contents]
    /\ \A f \in Files : dir[f] \notin Unparsable
    /\ \A f \in Literal : Present(dir[f])
    /\ clock = 0
    /\ registry = StartRegistry
    /\ nextReload = Interval
    /\ mu = NoOne
    /\ pc = [r \in Requests |-> "idle"]
    /\ now = [r \in Requests |-> 0]
    /\ load = [r \in Requests |-> NoLoad]
    /\ used = [r \in Requests |-> <<>>]
    /\ lastTry = 0
    /\ everGone = Files \ Listing

-----------------------------------------------------------------------------
(* One planning pass: expandRecordingRules                                  *)

(* The clock is read before the deadline is, and never again.               *)
ReadClock(r) ==
    /\ pc[r] = "idle"
    /\ Len(used[r]) < MaxPlans
    /\ now' = [now EXCEPT ![r] = clock]
    /\ pc' = [pc EXCEPT ![r] = "check"]
    /\ UNCHANGED <<envVars, registry, nextReload, mu, load, used, lastTry>>

Due(r) == nextReload # 0 /\ now[r] >= nextReload

(* First look at the deadline, without the mutex.                           *)
CheckDeadline(r) ==
    /\ pc[r] = "check"
    /\ pc' = [pc EXCEPT ![r] = IF Due(r) THEN "lock" ELSE "snapshot"]
    /\ UNCHANGED <<envVars, registry, nextReload, mu, now, load, used, lastTry>>

(* Second look, under the mutex: a request that waited while another one    *)
(* reloaded lets the mutex go and plans with the registry it finds.         *)
AssumeStillDue(r) == TRUE
StillDue(r) == Due(r)
NoMutex(r) == TRUE
MutexFree(r) == mu = NoOne
LockAndRecheck(r) ==
    /\ pc[r] = "lock"
    /\ MutexFree(r)
    /\ IF StillDue(r)
       THEN /\ mu' = r
            /\ pc' = [pc EXCEPT ![r] = "glob"]
            /\ lastTry' = now[r]
       ELSE /\ pc' = [pc EXCEPT ![r] = "snapshot"]
            /\ UNCHANGED <<mu, lastTry>>
    /\ UNCHANGED <<envVars, registry, nextReload, now, load, used>>

(* The next deadline counts from the time read before the mutex was taken;  *)
(* the deferred Unlock follows.                                             *)
UnlockOnSuccess(r) == mu' = IF load[r].failed THEN mu ELSE NoOne
Unlock(r) == mu' = NoOne
ScheduleAndUnlock(r) ==
    /\ pc[r] = "schedule"
    /\ nextReload' = now[r] + Interval
    /\ Unlock(r)
    /\ load' = [load EXCEPT ![r] = NoLoad]
    /\ pc' = [pc EXCEPT ![r] = "snapshot"]
    /\ UNCHANGED <<envVars, registry, now, used, lastTry>>

(* currentRecordingRules: the pass expands with the registry it finds here. *)
Snapshot(r) ==
    /\ pc[r] = "snapshot"
    /\ used' = [used EXCEPT ![r] = Append(@, registry)]
    /\ pc' = [pc EXCEPT ![r] = "idle"]
    /\ UNCHANGED <<envVars, registry, nextReload, mu, now, load, lastTry>>

Plan(r) ==
    \/ ReadClock(r) \/ CheckDeadline(r) \/ LockAndRecheck(r)
    \/ LoadFiles(r) /\ UNCHANGED restVars
    \/ ScheduleAndUnlock(r) \/ Snapshot(r)

-----------------------------------------------------------------------------
(* The surroundings: time passes, somebody edits, adds and removes files.   *)

Tick ==
    /\ clock < MaxTime
    /\ clock' = clock + 1
    /\ UNCHANGED <<dir, everGone, registry, nextReload, mu, pc, now, load, used,
                   lastTry>>

Edit(f) ==
    /\ \E c \in Contents : c > dir[f] /\ dir' = [dir EXCEPT ![f] = c]
    /\ everGone' = IF Present(dir'[f]) THEN everGone ELSE everGone \cup {f}
    /\ UNCHANGED <<clock, registry, nextReload, mu, pc, now, load, used, lastTry>>

(* Every request has built all its plans.                                   *)
Served ==
    /\ \A r \in Requests : pc[r] = "idle" /\ Len(used[r]) = MaxPlans
    /\ UNCHANGED vars

Next ==
    \/ \E r \in Requests : Plan(r)
    \/ Tick
    \/ \E f \in Files : Edit(f)
    \/ Served

(* Request goroutines are scheduled and file reads return; nothing is       *)
(* assumed of the clock or of who edits the files.  sync.Mutex hands itself *)
(* over to a waiter that has starved, hence SF on taking it.                *)
Fairness ==
    \A r \in Requests :
        /\ WF_vars(Plan(r))
        /\ SF_vars(LockAndRecheck(r))

Spec == Init /\ [][Next]_vars /\ Fairness

-----------------------------------------------------------------------------
(* Properties                                                               *)

(* The types: no load ever publishes, or even builds, a registry with a     *)
(* file that did not parse.                                                 *)
TypeOK ==
    /\ dir \in [Files -> Contents]
    /\ clock \in 0..MaxTime
    /\ registry \in Registries
    /\ nextReload \in Nat
    /\ mu \in Requests \cup {NoOne}
    /\ pc \in [Requests -> {"idle", "check", "lock", "glob", "reglob", "read",
                            "schedule", "snapshot"}]
    /\ now \in [Requests -> 0..MaxTime]
    /\ load \in [Requests -> Loads]
    /\ used \in [Requests -> Seq(Registries)]
    /\ lastTry \in 0..MaxTime
    /\ everGone \subseteq Files

Loading(r) == pc[r] \in {"glob", "reglob", "read", "schedule"}

(* No plan is ever built with part of a load.  Every file a registry names  *)
(* parsed (TypeOK), and a file that was there all the time is in it, however often   *)
(* it was edited, broken and mended and whichever request loaded it.        *)
PlansUseWholeRegistry ==
    \A r \in Requests : \A i \in DOMAIN used[r] :
        \A f \in Files \ everGone : used[r][i][f] # NoFile

(* Two reloads never overlap, and only the holder of the mutex reloads.     *)
OneLoader == \A r \in Requests : Loading(r) <=> mu = r

(* The registry never goes back: a slow load never replaces a file's        *)
(* content with one older than the registry was built from already.         *)
RegistryNeverOlder ==
    [][\A f \in Files : registry[f] # NoFile /\ registry'[f] # NoFile
                            => registry'[f] >= registry[f]]_vars

(* However many requests find the deadline passed at once, one reloads: the *)
(* times two attempts count from are at least an interval apart.            *)
ReloadsSpaced == [][lastTry' # lastTry => lastTry' >= lastTry + Interval]_vars

(* A reload that started is never given up half way, so nobody waits at the *)
(* mutex for good: a request that reads the clock gets its plan.            *)
EveryPlanBuilt ==
    \A r \in Requests : pc[r] = "check" ~> pc[r] = "idle"

(* The reload implements the register: what happens to the files, the       *)
(* deadline and the mutex is hidden, a request asks from the moment it      *)
(* reads the clock to the moment it loads the pointer.                      *)
Cell == INSTANCE RegistryCell
            WITH asking <- {r \in Requests : pc[r] # "idle"}
ImplementsCell == Cell!Spec
=============================================================================
