------------------------------ MODULE RuleFlow ------------------------------
(***************************************************************************)
(* The whole way of a recording rule: PrometheusRule objects, the syncer   *)
(* that renders them into the shared directory (RuleSync), and promshim    *)
(* reloading that directory while it is being written (RuleReload).  The   *)
(* two processes share nothing but the files.                              *)
(*                                                                         *)
(* Loads exclude one another (RuleReloadProofs!LoadsExclude), so one       *)
(* request stands for whichever request is loading; that the reload        *)
(* deadline has passed and a request notices is left to chance and         *)
(* fairness.  All generated rules live under one directory glob.           *)
(***************************************************************************)
EXTENDS RuleSync

CONSTANT loader     \* the request that loads

VARIABLES
    registry,   \* promshim's registry
    pc, load,   \* the load under way
    standing    \* (history) what a namespace held without a break, nor an edit in place

flowVars == <<registry, pc, load>>
allVars == <<vars, flowVars, standing>>

Reload == INSTANCE RuleLoad
    WITH Requests <- {loader}, Literal <- {}, Missing <- {Absent},
         Unparsable <- Invalid

(* What each namespace holds; and what it loses to an edit in place, which   *)
(* promises nothing to the reader of a directory written file by file.      *)
APIBodies(objs) == {<<NsOf[o], objs[o]>> : o \in Held(objs)}

EditedAway ==
    {<<NsOf[o], api[o]>> : o \in {g \in Held(api) : api'[g] \notin {api[g], Absent}}}

FlowInit ==
    /\ Init
    /\ \A f \in Files : dir[f] \notin Invalid     \* or promshim would not start
    /\ registry = Reload!StartRegistry
    /\ pc = [r \in {loader} |-> "snapshot"]
    /\ load = [r \in {loader} |-> Reload!NoLoad]
    /\ standing = APIBodies(api)

(* The deadline has passed and a request has taken the mutex.               *)
BeginLoad ==
    /\ pc[loader] = "snapshot"
    /\ pc' = [pc EXCEPT ![loader] = "glob"]
    /\ UNCHANGED <<vars, registry, load, standing>>

Load ==
    /\ Reload!LoadFiles(loader)
    /\ UNCHANGED <<apiVars, syncVars, faults, missing, standing>>

EndLoad ==
    /\ pc[loader] = "schedule"
    /\ pc' = [pc EXCEPT ![loader] = "snapshot"]
    /\ load' = [load EXCEPT ![loader] = Reload!NoLoad]
    /\ UNCHANGED <<vars, registry, standing>>

Promshim == BeginLoad \/ Load \/ EndLoad

Syncer == /\ Sync \/ Fail
          /\ UNCHANGED <<flowVars, standing>>

Cluster == /\ Kubernetes
           /\ standing' = (standing \cap APIBodies(api')) \ EditedAway
           /\ UNCHANGED flowVars

FlowNext == Promshim \/ Syncer \/ Cluster

FlowSpec == /\ FlowInit /\ [][FlowNext]_allVars
            /\ WF_allVars(Syncer /\ Sync) /\ WF_allVars(Promshim)

-----------------------------------------------------------------------------
(* Properties                                                               *)

(* The types of both processes' state; a registry names parsing bodies      *)
(* only.                                                                    *)
FlowTypeOK ==
    /\ TypeOK
    /\ registry \in Reload!Registries
    /\ pc[loader] \in {"snapshot", "glob", "reglob", "read", "schedule"}
    /\ load \in [{loader} -> Reload!Loads]
    /\ standing \subseteq (1..NumNamespaces) \X Bodies

(* A rule that moves to a new object of its namespace while the old one     *)
(* still stands never drops out of the registry: between the syncer's       *)
(* rounds, failures and restarts and promshim's file by file reading, no    *)
(* registry lacks a body its namespace held without a break.  (Between two  *)
(* namespaces it may: they are listed one after the other.)                 *)
StandingRulesServed ==
    \A s \in standing : \E f \in Generated : NsOf[f] = s[1] /\ registry[f] = s[2]

(* When the API rests and renders, promshim comes to serve exactly its      *)
(* rules, and keeps serving them.                                           *)
Serves == \A o \in Generated :
              registry[o] = IF api[o] = Absent THEN Reload!NoFile ELSE api[o]
RegistryConverges == <>[](Renders => Serves)
=============================================================================
