---------------------------- MODULE RegistryCell ----------------------------
(***************************************************************************)
(* What the recording-rule reload promises to the requests that plan with  *)
(* the registry: it is one register.  A publication replaces the whole of  *)
(* it with a registry that is nowhere older, a request that asks for a     *)
(* plan gets the registry as it stands at one moment of its asking, and    *)
(* every request that asks is answered.  Files, globs, the deadline and    *)
(* the mutex have no place here.                                           *)
(***************************************************************************)
EXTENDS Integers, Sequences

CONSTANTS Requests, Files, Registries

VARIABLES
    registry,   \* the published registry
    asking,     \* the requests that wait for a plan
    used        \* the registries each request was answered with

vars == <<registry, asking, used>>

NoFile == -1
NotOlder(old, new) ==
    \A f \in Files : old[f] # NoFile /\ new[f] # NoFile => new[f] >= old[f]

Init ==
    /\ registry \in Registries
    /\ asking = {}
    /\ used = [r \in Requests |-> <<>>]

Publish ==
    /\ registry' \in Registries
    /\ NotOlder(registry, registry')
    /\ UNCHANGED <<asking, used>>

Ask(r) ==
    /\ r \notin asking
    /\ asking' = asking \cup {r}
    /\ UNCHANGED <<registry, used>>

Answer(r) ==
    /\ r \in asking
    /\ asking' = asking \ {r}
    /\ used' = [used EXCEPT ![r] = Append(@, registry)]
    /\ UNCHANGED registry

Next == Publish \/ \E r \in Requests : Ask(r) \/ Answer(r)

Spec == Init /\ [][Next]_vars /\ \A r \in Requests : WF_vars(Answer(r))
=============================================================================
