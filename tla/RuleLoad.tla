------------------------------ MODULE RuleLoad ------------------------------
(***************************************************************************)
(* One load of the recording-rule files (loadRecordingRuleRegistry in      *)
(* internal/promshim/service.go, LoadFiles in rules/registry.go): list the *)
(* directory, look for every file again, read and parse one file after the *)
(* other, and replace the registry if nothing went wrong on the way.  The  *)
(* files may change between any two of these steps.                        *)
(*                                                                         *)
(* A file's content is a number.  Numbers in Missing stand for "there is   *)
(* no such file", numbers in Unparsable for a content rulefmt rejects.     *)
(***************************************************************************)
EXTENDS Integers

CONSTANTS
    Requests,       \* the requests, one of which may load
    NumFiles,       \* rule files, numbered in the order sort.Strings gives them
    Literal,        \* the files named by a pattern without glob characters
    MaxContent,     \* bound on the contents a file takes
    Missing,        \* contents that stand for an absent file
    Unparsable      \* contents rulefmt.ParseFile or ParseExpr rejects

Files == 1..NumFiles
Contents == 0..MaxContent
Present(c) == c \notin Missing
Parses(c) == Present(c) /\ c \notin Unparsable

ASSUME FilesAssumption == NumFiles \in Nat
ASSUME ContentAssumption == MaxContent \in Nat
ASSUME LiteralAssumption == Literal \subseteq Files

VARIABLES
    dir,            \* what each rule file holds now
    registry,       \* recordingRules: the contents the registry was built from
    pc,             \* where each request is
    load            \* the local variables of each request's load

(* A registry records, for each file, the content it was built from; a file *)
(* that was not there when the load listed the directory contributes none.  *)
NoFile == -1
Registries == [Files -> {c \in Contents : Parses(c)} \cup {NoFile}]
Nothing == [f \in Files |-> NoFile]
Listing == {f \in Files : Present(dir[f])}

(* A load: the files it has still to glob and those it has still to read,   *)
(* the lowest first in both, the registry it builds, and whether it met an  *)
(* error.                                                                   *)
Loads == [todo : SUBSET Files, found : SUBSET Files, built : Registries,
          failed : BOOLEAN]
NoLoad == [todo |-> {}, found |-> {}, built |-> Nothing, failed |-> FALSE]
Least(S) == CHOOSE f \in S : \A g \in S : f <= g

(* What a load that meets no error makes of the files as they are.          *)
StartUnchecked == dir
StartRegistry == [f \in Files |-> IF Present(dir[f]) THEN dir[f] ELSE NoFile]

-----------------------------------------------------------------------------
(* One load of r, from "glob" to "schedule".                                *)

(* expandRecordingRuleFilePatterns: list the files the patterns match.  A   *)
(* literal pattern without a file fails the load before anything is read.   *)
Glob(r) ==
    /\ pc[r] = "glob"
    /\ load' = [load EXCEPT ![r] = IF Literal \subseteq Listing
                                   THEN [NoLoad EXCEPT !.todo = Listing]
                                   ELSE [NoLoad EXCEPT !.failed = TRUE]]
    /\ pc' = [pc EXCEPT ![r] = "reglob"]
    /\ UNCHANGED <<dir, registry>>

(* rules.LoadFiles globs every listed name again; one that is gone by then  *)
(* is an error, and the walk goes on.                                       *)
Globbed(l, f) ==
    IF Present(dir[f])
    THEN [l EXCEPT !.todo = @ \ {f}, !.found = @ \cup {f}]
    ELSE [l EXCEPT !.todo = @ \ {f}, !.failed = TRUE]
Reglob(r) ==
    /\ pc[r] = "reglob"
    /\ load[r].todo # {}
    /\ load' = [load EXCEPT ![r] = Globbed(@, Least(@.todo))]
    /\ UNCHANGED <<dir, registry, pc>>

ReglobDone(r) ==
    /\ pc[r] = "reglob"
    /\ load[r].todo = {}
    /\ pc' = [pc EXCEPT ![r] = "read"]
    /\ UNCHANGED <<dir, registry, load>>

(* loadFile, one file after the other: a file that is gone or does not      *)
(* parse is an error, and the next one is read all the same.                *)
TakenOnceItParses(l, f) ==
    IF Parses(dir[f])
    THEN [l EXCEPT !.found = @ \ {f}, !.built = [@ EXCEPT ![f] = dir[f]]]
    ELSE l
Taken(l, f) ==
    IF Parses(dir[f])
    THEN [l EXCEPT !.found = @ \ {f}, !.built = [@ EXCEPT ![f] = dir[f]]]
    ELSE [l EXCEPT !.found = @ \ {f}, !.failed = TRUE]
ReadFile(r) ==
    /\ pc[r] = "read"
    /\ load[r].found # {}
    /\ load' = [load EXCEPT ![r] = Taken(@, Least(@.found))]
    /\ UNCHANGED <<dir, registry, pc>>

(* reloadRecordingRulesOnce: a load without any error replaces the pointer, *)
(* one with an error leaves it alone.                                       *)
WhatParsed(r) == load[r].built
LoadOutcome(r) == IF load[r].failed THEN registry ELSE load[r].built
Swap(r) ==
    /\ pc[r] = "read"
    /\ load[r].found = {}
    /\ registry' = LoadOutcome(r)
    /\ pc' = [pc EXCEPT ![r] = "schedule"]
    /\ UNCHANGED <<dir, load>>

LoadFiles(r) ==
    Glob(r) \/ Reglob(r) \/ ReglobDone(r) \/ ReadFile(r) \/ Swap(r)
=============================================================================
