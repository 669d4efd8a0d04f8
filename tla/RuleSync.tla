------------------------------ MODULE RuleSync ------------------------------
(***************************************************************************)
(* promshim-rule-syncer (internal/promshim/rulesync/syncer.go): a sidecar  *)
(* that lists PrometheusRule objects, renders them and makes the shared    *)
(* rule directory hold one file for each.                                  *)
(*                                                                         *)
(* An object carries its UID in the name of its file, so object o writes   *)
(* file o and nothing else; files are numbered in the order of their       *)
(* names.  A body is a number, 0 (Absent) is "no such object" and "no such *)
(* file".  Files outside Generated lack the promshim- prefix: somebody     *)
(* else put them into the directory.                                       *)
(***************************************************************************)
EXTENDS Integers

CONSTANTS
    NumFiles,       \* file names that occur, 1..NumFiles
    Generated,      \* those with the generated prefix and the .yaml suffix
    MaxContent,     \* bodies are 0..MaxContent
    Invalid,        \* bodies renderRule rejects
    NumNamespaces,  \* namespaces listed one after the other; 1 for "all"
    NsOf,           \* the namespace each object lives in
    MaxEdits,       \* bound on the changes of the API
    MaxFaults       \* bound on failed calls and crashes

Files == 1..NumFiles
Absent == 0
Bodies == 1..MaxContent

ASSUME SyncAssumption ==
    /\ NumFiles \in Nat /\ MaxContent \in Nat /\ NumNamespaces \in Nat \ {0}
    /\ Generated \subseteq Files /\ Invalid \subseteq Bodies
    /\ NsOf \in [Generated -> 1..NumNamespaces]
    /\ MaxEdits \in Nat /\ MaxFaults \in Nat

VARIABLES
    api,        \* the PrometheusRule objects
    dir,        \* the files of the output directory
    at,         \* where the syncer is
    listed,     \* namespaces listed in this round
    rendered,   \* ruleFiles: what this round wants the files to hold
    left,       \* files this round has still to write, then those it has still to remove
    born,       \* objects that exist or existed
    edits, faults,
    missing     \* (history) objects that were absent at some time in this round

syncVars == <<at, listed, rendered, left>>
apiVars == <<api, born, edits>>
vars == <<apiVars, dir, syncVars, faults, missing>>

Nobody == [o \in Generated |-> Absent]
Held(objs) == {o \in Generated : objs[o] # Absent}
First(S) == CHOOSE f \in S : \A g \in S : f <= g

(* The first sync is over: the directory holds what the API holds.          *)
Init ==
    /\ api \in [Generated -> (Bodies \ Invalid) \cup {Absent}]
    /\ dir \in [Files -> Bodies \cup {Absent}]
    /\ \A o \in Generated : dir[o] = api[o]
    /\ at = "idle" /\ listed = 0 /\ rendered = Nobody /\ left = {}
    /\ born = Held(api) /\ edits = 0 /\ faults = 0 /\ missing = {}

-----------------------------------------------------------------------------
(* One round: SyncOnce                                                      *)

Rest == /\ at' = "idle" /\ listed' = 0 /\ rendered' = Nobody /\ left' = {}
        /\ missing' = {}

(* The ticker fires, or the process has just started.                       *)
Start ==
    /\ at = "idle"
    /\ at' = "list"
    /\ missing' = Generated \ Held(api)
    /\ UNCHANGED <<apiVars, dir, listed, rendered, left, faults>>

(* RuleFiles lists one namespace and renders what it finds; a single object *)
(* that does not render ends the round before any file is touched.          *)
InNamespace(n) == {o \in Held(api) : NsOf[o] = n}
RendersAll(n) == TRUE
RendersEvery(n) == \A o \in InNamespace(n) : api[o] \notin Invalid
AddListed(n) == [o \in Generated |-> IF o \in InNamespace(n) THEN api[o] ELSE rendered[o]]
ListNamespace ==
    /\ at = "list"
    /\ listed < NumNamespaces
    /\ IF RendersEvery(listed + 1)
       THEN /\ listed' = listed + 1
            /\ rendered' = AddListed(listed + 1)
            /\ UNCHANGED <<at, left, missing>>
       ELSE Rest
    /\ UNCHANGED <<apiVars, dir, faults>>

Wanted == Held(rendered)
BeginWriting ==
    /\ at = "list"
    /\ listed = NumNamespaces
    /\ at' = "write"
    /\ left' = Wanted
    /\ UNCHANGED <<apiVars, dir, listed, rendered, faults, missing>>

(* writeFileAtomic: the rename is the moment the file changes.              *)
WriteFile ==
    /\ at = "write"
    /\ left # {}
    /\ LET f == First(left) IN
         /\ dir' = [dir EXCEPT ![f] = rendered[f]]
         /\ left' = left \ {f}
    /\ UNCHANGED <<apiVars, at, listed, rendered, faults, missing>>

(* Only when everything wanted is on disk is the directory read for what is *)
(* not wanted.                                                              *)
Nothing == {}
Stale == {f \in Generated : dir[f] # Absent /\ f \notin Wanted}
WritesUnderWay == TRUE
WritesDone == left = {}
ReadDir ==
    /\ at = "write"
    /\ WritesDone
    /\ at' = "remove"
    /\ left' = Stale
    /\ UNCHANGED <<apiVars, dir, listed, rendered, faults, missing>>

RemoveFile ==
    /\ at = "remove"
    /\ left # {}
    /\ LET f == First(left) IN
         /\ dir' = [dir EXCEPT ![f] = Absent]
         /\ left' = left \ {f}
    /\ UNCHANGED <<apiVars, at, listed, rendered, faults, missing>>

Finish ==
    /\ at = "remove"
    /\ left = {}
    /\ Rest
    /\ UNCHANGED <<apiVars, dir, faults>>

(* A list, write, ReadDir or remove call fails: the round ends there and    *)
(* the error is logged.  A crash of the process leaves the same behind.     *)
SkipNamespace ==
    IF at = "list" /\ listed < NumNamespaces
    THEN listed' = listed + 1 /\ UNCHANGED <<at, rendered, left, missing>>
    ELSE Rest
AfterFault == Rest
Fail ==
    /\ at # "idle"
    /\ faults < MaxFaults
    /\ faults' = faults + 1
    /\ AfterFault
    /\ UNCHANGED <<apiVars, dir>>

Sync == \/ Start \/ ListNamespace \/ BeginWriting \/ WriteFile \/ ReadDir
        \/ RemoveFile \/ Finish

-----------------------------------------------------------------------------
(* The Kubernetes API: objects come and go.  An object that was deleted     *)
(* comes back under another UID, so a name is used once.                    *)

Change(o, b) ==
    /\ edits < MaxEdits
    /\ edits' = edits + 1
    /\ api' = [api EXCEPT ![o] = b]
    /\ born' = born \cup {o}
    /\ missing' = IF at # "idle" /\ b = Absent THEN missing \cup {o} ELSE missing
    /\ UNCHANGED <<dir, syncVars, faults>>

Create(o) == o \notin born /\ \E b \in Bodies : Change(o, b)
Delete(o) == api[o] # Absent /\ Change(o, Absent)
Edit(o) == /\ api[o] # Absent
           /\ \E b \in Bodies \ {api[o]} : Change(o, b)

Kubernetes == \E o \in Generated : Create(o) \/ Delete(o) \/ Edit(o)

-----------------------------------------------------------------------------
(* Properties                                                               *)

(* The types; what a round wants written is never a body renderRule         *)
(* rejects.                                                                 *)
TypeOK ==
    /\ api \in [Generated -> Bodies \cup {Absent}]
    /\ dir \in [Files -> Bodies \cup {Absent}]
    /\ at \in {"idle", "list", "write", "remove"}
    /\ listed \in 0..NumNamespaces
    /\ rendered \in [Generated -> (Bodies \ Invalid) \cup {Absent}]
    /\ left \subseteq Files
    /\ born \subseteq Generated
    /\ edits \in 0..MaxEdits /\ faults \in 0..MaxFaults
    /\ missing \subseteq Generated

(* A file is removed only for an object the API was without at some time of *)
(* the round that removes it: a list call that fails, an object that does   *)
(* not render or a crash never empties the directory, and a file somebody   *)
(* else put there stays.                                                    *)
RemovesOnlyDeleted ==
    [][\A f \in Files : dir[f] # Absent /\ dir'[f] = Absent => f \in missing]_vars

(* The old file of a rule goes only after the new files of the round are    *)
(* all in place: whoever reads the directory while a rule moves to a new    *)
(* object finds it at least once.                                           *)
RemovesAfterWrites ==
    at = "remove" => \A o \in Wanted : dir[o] = rendered[o]

(* Every object of the API can be rendered.                                 *)
Renders == \A o \in Generated : api[o] \notin Invalid
=============================================================================
