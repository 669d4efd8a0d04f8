--------------------------- MODULE RuleFlowProofs ---------------------------
(***************************************************************************)
(* Proofs about RuleFlow for any number of files, namespaces, bodies,      *)
(* changes and failures: the syncer removes a file only after it has       *)
(* written everything the round wants and only for an object that was      *)
(* gone, and no registry promshim serves from lacks a rule that its        *)
(* namespace held all the time.                                            *)
(***************************************************************************)
EXTENDS RuleFlow, TLAPS, WellFoundedInduction

(* A non-empty set of files has a least one, which First picks.             *)
LEMMA FirstFile ==
    ASSUME NEW S \in SUBSET Files, S # {}
    PROVE  First(S) \in S
PROOF
  <1>1. S \subseteq Nat
    BY SyncAssumption DEF Files
  <1>2. PICK x \in S : \A y \in S : ~ (<<y, x>> \in OpToRel(<, Nat))
    BY <1>1, WFMin, NatLessThanWellFounded
  <1>3. ASSUME NEW y \in S PROVE x <= y
    <2>1. <<y, x>> \in Nat \X Nat
      BY <1>1
    <2>2. ~ (<<y, x>> \in {ss \in Nat \X Nat : ss[1] < ss[2]})
      BY <1>2 DEF OpToRel
    <2>3. ~ (y < x)
      BY <2>1, <2>2
    <2> QED
      BY <1>1, <2>3
  <1> QED
    BY <1>3 DEF First

(* promshim only reads the files: whatever it does, the syncer and the API  *)
(* are left alone.                                                          *)
LEMMA ReaderReads == Promshim => UNCHANGED <<vars, standing>>
PROOF
  BY DEF Promshim, BeginLoad, Load, EndLoad, vars, apiVars, syncVars,
         Reload!LoadFiles, Reload!Glob, Reload!Reglob, Reload!ReglobDone,
         Reload!ReadFile, Reload!Swap

-----------------------------------------------------------------------------
(* A round of the syncer                                                    *)

(* Where a round is tells what it has rendered and what is left to do: only *)
(* wanted files to write, and once they are written, only files that are    *)
(* there and not wanted to remove.                                          *)
Round ==
    /\ at = "idle" => listed = 0
    /\ at \in {"write", "remove"} => listed = NumNamespaces
    /\ at \in {"idle", "list"} => left = {}
    /\ \A o \in Generated : NsOf[o] > listed => rendered[o] = Absent
    /\ at = "write" =>
          /\ left \subseteq Wanted
          /\ \A o \in Wanted \ left : dir[o] = rendered[o]
    /\ at = "remove" =>
          /\ \A f \in left : f \in Generated /\ rendered[f] = Absent /\ dir[f] # Absent
          /\ \A o \in Wanted : dir[o] = rendered[o]

(* What a round has listed and found no object for was missing in it.       *)
Missed ==
    at # "idle" => \A o \in Generated :
        \/ o \in missing
        \/ NsOf[o] > listed /\ api[o] # Absent
        \/ NsOf[o] <= listed /\ rendered[o] # Absent

(* An object whose file is there, or is to be written, has existed.         *)
Known ==
    \A o \in Generated :
        api[o] # Absent \/ rendered[o] # Absent \/ dir[o] # Absent => o \in born

(* A file a round does not want belongs to an object that is gone for good. *)
GoneForGood ==
    at # "idle" => \A o \in Generated :
        NsOf[o] <= listed /\ rendered[o] = Absent /\ dir[o] # Absent => api[o] = Absent

SyncInv == TypeOK /\ Round /\ Missed /\ Known /\ GoneForGood

(* The first state has finished a round.                                    *)
LEMMA SyncInit == Init => SyncInv
PROOF
  <1> SUFFICES ASSUME Init PROVE SyncInv
    OBVIOUS
  <1>1. TypeOK
    <2>1. api \in [Generated -> Bodies \cup {Absent}]
      BY DEF Init
    <2>2. rendered \in [Generated -> (Bodies \ Invalid) \cup {Absent}]
      BY DEF Init, Nobody
    <2>3. born \subseteq Generated
      BY DEF Init, Held
    <2> QED
      BY <2>1, <2>2, <2>3, SyncAssumption DEF Init, TypeOK
  <1>2. Round /\ Missed /\ Known /\ GoneForGood
    BY DEF Init, Round, Missed, Known, GoneForGood, Nobody, Held
  <1> QED
    BY <1>1, <1>2 DEF SyncInv

(* When a round ends, however it does, nothing of it is left.               *)
LEMMA RestStep ==
    ASSUME SyncInv, Rest, UNCHANGED <<apiVars, dir>>, faults' \in 0..MaxFaults
    PROVE  SyncInv'
PROOF
  <1> USE SyncAssumption DEF SyncInv, Rest, apiVars
  <1>1. TypeOK'
    <2>1. rendered' \in [Generated -> (Bodies \ Invalid) \cup {Absent}]
      BY DEF Nobody
    <2> QED
      BY <2>1 DEF TypeOK
  <1>2. Round' /\ Missed' /\ GoneForGood'
    BY DEF Round, Missed, GoneForGood, Nobody
  <1>3. Known'
    BY DEF Known, Nobody
  <1> QED
    BY <1>1, <1>2, <1>3

(* A round begins, with everything missing that does not exist.             *)
LEMMA StartStep == SyncInv /\ Start => SyncInv'
PROOF
  <1> SUFFICES ASSUME SyncInv, Start PROVE SyncInv'
    OBVIOUS
  <1> USE SyncAssumption DEF SyncInv, Start, apiVars
  <1>1. TypeOK'
    BY DEF TypeOK
  <1>2. Round' /\ Known'
    BY DEF Round, Known
  <1>3. \A o \in Generated : NsOf[o] > listed /\ listed = 0
    BY DEF Round
  <1>4. Missed' /\ GoneForGood'
    BY <1>3 DEF Missed, GoneForGood, Held, Round
  <1> QED
    BY <1>1, <1>2, <1>4

(* A namespace is listed at one moment.                                     *)
LEMMA ListStep == SyncInv /\ ListNamespace => SyncInv'
PROOF
  <1> SUFFICES ASSUME SyncInv, ListNamespace PROVE SyncInv'
    OBVIOUS
  <1> USE SyncAssumption DEF SyncInv, apiVars
  <1>1. CASE ~ RendersEvery(listed + 1)
    BY <1>1, RestStep DEF ListNamespace, TypeOK
  <1>2. CASE RendersEvery(listed + 1)
    <2>1. /\ at = "list" /\ listed < NumNamespaces
          /\ listed' = listed + 1 /\ rendered' = AddListed(listed + 1)
          /\ UNCHANGED <<at, left, missing, api, born, edits, dir, faults>>
      BY <1>2 DEF ListNamespace
    <2>2. \A o \in Generated :
             rendered'[o] = IF api[o] # Absent /\ NsOf[o] = listed + 1
                            THEN api[o] ELSE rendered[o]
      BY <2>1 DEF AddListed, InNamespace, Held
    <2>3. listed \in 0..NumNamespaces /\ listed' \in 0..NumNamespaces
      BY <2>1 DEF TypeOK
    <2>4. TypeOK'
      <3>1. rendered' \in [Generated -> (Bodies \ Invalid) \cup {Absent}]
        BY <1>2, <2>1 DEF AddListed, RendersEvery, InNamespace, Held, TypeOK
      <3> QED
        BY <2>1, <2>3, <3>1 DEF TypeOK
    <2>5. Round'
      BY <2>1, <2>2, <2>3 DEF Round
    <2>6. Missed'
      <3>1. ASSUME NEW o \in Generated
            PROVE  \/ o \in missing
                   \/ NsOf[o] > listed + 1 /\ api[o] # Absent
                   \/ NsOf[o] <= listed + 1 /\ rendered'[o] # Absent
        <4>1. NsOf[o] \in Nat
          OBVIOUS
        <4> QED
          BY <2>1, <2>2, <2>3, <4>1 DEF Missed
      <3> QED
        BY <2>1, <3>1 DEF Missed
    <2>7. Known'
      BY <2>1, <2>2 DEF Known
    <2>8. GoneForGood'
      <3>1. ASSUME NEW o \in Generated, NsOf[o] <= listed + 1, rendered'[o] = Absent,
                   dir[o] # Absent
            PROVE  api[o] = Absent
        <4>1. NsOf[o] \in Nat
          OBVIOUS
        <4>2. CASE NsOf[o] = listed + 1
          BY <2>2, <3>1, <4>2
        <4>3. CASE NsOf[o] <= listed
          BY <2>1, <2>2, <2>3, <3>1, <4>1, <4>3 DEF GoneForGood
        <4> QED
          BY <2>3, <3>1, <4>1, <4>2, <4>3
      <3> QED
        BY <2>1, <3>1 DEF GoneForGood
    <2> QED
      BY <2>4, <2>5, <2>6, <2>7, <2>8
  <1> QED
    BY <1>1, <1>2

(* Writing begins with all of what the round wants.                         *)
LEMMA BeginStep == SyncInv /\ BeginWriting => SyncInv'
PROOF
  <1> SUFFICES ASSUME SyncInv, BeginWriting PROVE SyncInv'
    OBVIOUS
  <1> USE SyncAssumption DEF SyncInv, BeginWriting, apiVars
  <1>1. TypeOK'
    BY DEF TypeOK, Wanted, Held
  <1>2. Round' /\ Known'
    BY DEF Round, Known, Wanted, Held
  <1>3. Missed' /\ GoneForGood'
    BY DEF Missed, GoneForGood
  <1> QED
    BY <1>1, <1>2, <1>3

(* A file that is written holds what the round rendered.                    *)
LEMMA WriteStep == SyncInv /\ WriteFile => SyncInv'
PROOF
  <1> SUFFICES ASSUME SyncInv, WriteFile PROVE SyncInv'
    OBVIOUS
  <1> DEFINE f == First(left)
  <1> USE SyncAssumption DEF SyncInv, apiVars
  <1>1. f \in left /\ left \subseteq Wanted
    BY FirstFile DEF WriteFile, Round, TypeOK
  <1>2. f \in Generated /\ rendered[f] # Absent
    BY <1>1 DEF Wanted, Held
  <1>3. /\ at = "write" /\ dir' = [dir EXCEPT ![f] = rendered[f]] /\ left' = left \ {f}
        /\ UNCHANGED <<api, born, edits, at, listed, rendered, faults, missing>>
    BY DEF WriteFile
  <1> HIDE DEF f
  <1>4. TypeOK'
    BY <1>2, <1>3 DEF TypeOK
  <1>5. \A o \in Generated : dir'[o] = IF o = f THEN rendered[f] ELSE dir[o]
    BY <1>3 DEF TypeOK
  <1>6. Round'
    BY <1>1, <1>2, <1>3, <1>5 DEF Round, Wanted, Held
  <1>7. Missed' /\ Known' /\ GoneForGood'
    BY <1>2, <1>3, <1>5 DEF Missed, Known, GoneForGood
  <1> QED
    BY <1>4, <1>6, <1>7

(* The directory is read when everything is written.                        *)
LEMMA ReadDirStep == SyncInv /\ ReadDir => SyncInv'
PROOF
  <1> SUFFICES ASSUME SyncInv, ReadDir PROVE SyncInv'
    OBVIOUS
  <1> USE SyncAssumption DEF SyncInv, ReadDir, apiVars
  <1>1. TypeOK'
    BY DEF TypeOK, Stale
  <1>2. Round'
    BY DEF Round, WritesDone, Stale, Wanted, Held
  <1>3. Missed' /\ Known' /\ GoneForGood'
    BY DEF Missed, Known, GoneForGood
  <1> QED
    BY <1>1, <1>2, <1>3

(* A file that is removed is one nobody wants.                              *)
LEMMA RemoveStep == SyncInv /\ RemoveFile => SyncInv'
PROOF
  <1> SUFFICES ASSUME SyncInv, RemoveFile PROVE SyncInv'
    OBVIOUS
  <1> DEFINE f == First(left)
  <1> USE SyncAssumption DEF SyncInv, apiVars
  <1>1. f \in left
    BY FirstFile DEF RemoveFile, TypeOK
  <1>2. f \in Generated /\ rendered[f] = Absent
    BY <1>1 DEF RemoveFile, Round
  <1>3. /\ at = "remove" /\ dir' = [dir EXCEPT ![f] = Absent] /\ left' = left \ {f}
        /\ UNCHANGED <<api, born, edits, at, listed, rendered, faults, missing>>
    BY DEF RemoveFile
  <1> HIDE DEF f
  <1>4. TypeOK'
    BY <1>2, <1>3 DEF TypeOK
  <1>5. \A o \in Generated : dir'[o] = IF o = f THEN Absent ELSE dir[o]
    BY <1>3 DEF TypeOK
  <1>6. Round'
    BY <1>1, <1>2, <1>3, <1>5 DEF Round, Wanted, Held
  <1>7. Missed' /\ Known' /\ GoneForGood'
    BY <1>2, <1>3, <1>5 DEF Missed, Known, GoneForGood
  <1> QED
    BY <1>4, <1>6, <1>7

(* Every step of the syncer, its failures and crashes included.             *)
LEMMA SyncerStep == SyncInv /\ (Sync \/ Fail) => SyncInv'
PROOF
  <1>1. SyncInv /\ Finish => SyncInv'
    BY RestStep DEF Finish, SyncInv, TypeOK
  <1>2. SyncInv /\ Fail => SyncInv'
    <2> SUFFICES ASSUME SyncInv, Fail PROVE SyncInv'
      OBVIOUS
    <2>1. faults' \in 0..MaxFaults
      BY SyncAssumption DEF Fail, SyncInv, TypeOK
    <2> QED
      BY <2>1, RestStep DEF Fail, AfterFault
  <1> QED
    BY <1>1, <1>2, StartStep, ListStep, BeginStep, WriteStep, ReadDirStep, RemoveStep
    DEF Sync

(* An object is created once, and whatever it changes to, the round notices *)
(* what is missing in it.                                                   *)
LEMMA KubernetesStep == SyncInv /\ Kubernetes => SyncInv'
PROOF
  <1> SUFFICES ASSUME SyncInv, NEW o \in Generated, Create(o) \/ Delete(o) \/ Edit(o)
               PROVE  SyncInv'
    BY DEF Kubernetes
  <1> USE SyncAssumption DEF SyncInv
  <1>1. PICK b \in Bodies \cup {Absent} :
           /\ Change(o, b)
           /\ api[o] = Absent => o \notin born
    BY DEF Create, Delete, Edit, Known, TypeOK
  <1>2. /\ api' = [api EXCEPT ![o] = b] /\ born' = born \cup {o}
        /\ edits < MaxEdits /\ edits' = edits + 1
        /\ missing' = IF at # "idle" /\ b = Absent THEN missing \cup {o} ELSE missing
        /\ UNCHANGED <<dir, at, listed, rendered, left, faults>>
    BY <1>1 DEF Change, syncVars
  <1>3. \A g \in Generated : api'[g] = IF g = o THEN b ELSE api[g]
    BY <1>2 DEF TypeOK
  <1>4. TypeOK'
    BY <1>2 DEF TypeOK
  <1>5. Round'
    BY <1>2 DEF Round, Wanted, Held
  <1>6. Known'
    BY <1>2, <1>3 DEF Known
  <1>7. Missed'
    BY <1>2, <1>3 DEF Missed
  <1>8. GoneForGood'
    BY <1>1, <1>2, <1>3 DEF GoneForGood, Known
  <1> QED
    BY <1>4, <1>5, <1>6, <1>7, <1>8

(* Every step of the composed system.                                       *)
LEMMA SyncInvStep == SyncInv /\ [FlowNext]_allVars => SyncInv'
PROOF
  <1>1. SyncInv /\ UNCHANGED vars => SyncInv'
    BY DEF SyncInv, TypeOK, Round, Missed, Known, GoneForGood, Wanted, Held, vars,
           apiVars, syncVars
  <1>2. SyncInv /\ Promshim => SyncInv'
    BY <1>1, ReaderReads
  <1>3. SyncInv /\ Syncer => SyncInv'
    BY SyncerStep DEF Syncer
  <1>4. SyncInv /\ Cluster => SyncInv'
    BY KubernetesStep DEF Cluster
  <1> QED
    BY <1>1, <1>2, <1>3, <1>4 DEF FlowNext, allVars

(* The old file of a rule goes only after all the new ones are in place.    *)
THEOREM RemovesLast == FlowSpec => []RemovesAfterWrites
PROOF
  <1>1. FlowInit => SyncInv
    BY SyncInit DEF FlowInit
  <1>2. SyncInv => RemovesAfterWrites
    BY DEF SyncInv, Round, RemovesAfterWrites
  <1> QED
    BY <1>1, <1>2, SyncInvStep, PTL DEF FlowSpec

(* Only the file of an object that was gone in this round is removed.       *)
THEOREM RemovesDeleted == FlowSpec => RemovesOnlyDeleted
PROOF
  <1> DEFINE A == \A f \in Files : dir[f] # Absent /\ dir'[f] = Absent => f \in missing
  <1>1. FlowInit => SyncInv
    BY SyncInit DEF FlowInit
  <1>2. SyncInv /\ [FlowNext]_allVars => [A]_vars
    <2> SUFFICES ASSUME SyncInv, [FlowNext]_allVars, NEW f \in Files,
                        dir[f] # Absent, dir'[f] = Absent
                 PROVE  f \in missing
      BY DEF vars
    <2>1. ~ UNCHANGED dir
      OBVIOUS
    <2>2. WriteFile \/ RemoveFile
      BY <2>1, ReaderReads
      DEF FlowNext, allVars, vars, Syncer, Cluster, Sync, Fail, AfterFault, Start,
          ListNamespace, BeginWriting, ReadDir, Finish, Kubernetes, Create, Delete,
          Edit, Change
    <2>3. left \in SUBSET Files
      BY DEF SyncInv, TypeOK
    <2>4. CASE WriteFile
      <3>1. First(left) \in left /\ left \subseteq Wanted
        BY <2>3, <2>4, FirstFile DEF WriteFile, SyncInv, Round
      <3>2. rendered[First(left)] # Absent
        BY <3>1 DEF Wanted, Held
      <3> QED
        BY <2>4, <3>2 DEF WriteFile, SyncInv, TypeOK
    <2>5. CASE RemoveFile
      <3>1. First(left) \in left
        BY <2>3, <2>5, FirstFile DEF RemoveFile
      <3>2. f = First(left)
        BY <2>5 DEF RemoveFile, SyncInv, TypeOK
      <3>3. /\ f \in Generated /\ rendered[f] = Absent
            /\ listed = NumNamespaces /\ at = "remove"
        BY <2>5, <3>1, <3>2 DEF RemoveFile, SyncInv, Round
      <3>4. NsOf[f] \in Nat /\ NsOf[f] <= listed
        BY <3>3, SyncAssumption
      <3> QED
        BY <3>3, <3>4, SyncAssumption DEF SyncInv, Missed
    <2> QED
      BY <2>2, <2>4, <2>5
  <1> QED
    BY <1>1, <1>2, SyncInvStep, PTL DEF FlowSpec, RemovesOnlyDeleted
-----------------------------------------------------------------------------
(* What a namespace held all the time                                       *)

(* A body that stands is held by the API; an object that had it once and    *)
(* has another one now took it out of those that stand, so that neither the *)
(* file nor what the round has rendered from such an object is a body that  *)
(* stands.                                                                  *)
Stands ==
    /\ \A s \in standing :
          \E o \in Generated : api[o] # Absent /\ s = <<NsOf[o], api[o]>>
    /\ \A o \in Generated :
          /\ dir[o] # Absent /\ api[o] \notin {dir[o], Absent}
             => <<NsOf[o], dir[o]>> \notin standing
          /\ rendered[o] # Absent /\ api[o] \notin {rendered[o], Absent}
             => <<NsOf[o], rendered[o]>> \notin standing
          /\ rendered[o] # Absent /\ dir[o] \notin {rendered[o], Absent}
             => <<NsOf[o], dir[o]>> \notin standing

(* A body that stands is in some file of its namespace; once its namespace  *)
(* is listed the round has it too, and while the round removes files, in a  *)
(* file it wants.                                                           *)
InDirectory ==
    \A s \in standing :
        /\ \E o \in Generated : /\ NsOf[o] = s[1] /\ dir[o] = s[2]
                                /\ at = "remove" => rendered[o] = s[2]
        /\ at # "idle" /\ s[1] <= listed =>
              \E o \in Generated : NsOf[o] = s[1] /\ rendered[o] = s[2]

StandInv == SyncInv /\ Stands /\ InDirectory

(* At first every file holds what its object holds.                         *)
LEMMA StandInit == FlowInit => StandInv
PROOF
  <1> SUFFICES ASSUME FlowInit PROVE StandInv
    OBVIOUS
  <1>1. SyncInv /\ Init /\ standing = APIBodies(api)
    BY SyncInit DEF FlowInit
  <1>2. \A s \in standing : \E o \in Generated : api[o] # Absent /\ s = <<NsOf[o], api[o]>>
    BY <1>1 DEF APIBodies, Held
  <1>3. \A o \in Generated : dir[o] = api[o] /\ rendered[o] = Absent
    BY <1>1 DEF Init, Nobody
  <1>4. at = "idle"
    BY <1>1 DEF Init
  <1>5. Stands
    BY <1>2, <1>3 DEF Stands
  <1>6. ASSUME NEW s \in standing
        PROVE  \E o \in Generated : NsOf[o] = s[1] /\ dir[o] = s[2]
    <2>1. PICK o \in Generated : api[o] # Absent /\ s = <<NsOf[o], api[o]>>
      BY <1>2
    <2> QED
      BY <1>3, <2>1
  <1> QED
    BY <1>1, <1>4, <1>5, <1>6 DEF StandInv, InDirectory

(* A body and the namespace it stands in.                                   *)
LEMMA StandsWhere ==
    ASSUME SyncInv, Stands, NEW s \in standing
    PROVE  /\ s = <<s[1], s[2]>> /\ s[1] \in 1..NumNamespaces
           /\ s[2] \in Bodies /\ s[2] # Absent
PROOF
  <1>1. PICK o \in Generated : api[o] # Absent /\ s = <<NsOf[o], api[o]>>
    BY DEF Stands
  <1> QED
    BY <1>1, SyncAssumption DEF SyncInv, TypeOK

(* No step of the syncer takes a body that stands out of the directory.     *)
LEMMA StandSyncer == StandInv /\ Syncer => StandInv'
PROOF
  <1> SUFFICES ASSUME StandInv, Syncer PROVE StandInv'
    OBVIOUS
  <1> USE SyncAssumption DEF StandInv
  <1>0. SyncInv' /\ standing' = standing /\ api' = api
    BY SyncerStep
    DEF Syncer, Sync, Fail, AfterFault, Rest, Start, ListNamespace, BeginWriting,
        WriteFile, ReadDir, RemoveFile, Finish, apiVars, flowVars
  <1>1. CASE Rest /\ UNCHANGED dir
    BY <1>0, <1>1 DEF Rest, Nobody, Stands, InDirectory
  <1>2. CASE Start
    <2>1. listed = 0 /\ \A s \in standing : ~ (s[1] <= listed)
      BY <1>2, StandsWhere DEF Start, SyncInv, Round
    <2> QED
      BY <1>0, <1>2, <2>1 DEF Start, Stands, InDirectory
  <1>3. CASE ListNamespace /\ RendersEvery(listed + 1)
    <2>1. /\ at = "list" /\ at' = at /\ listed' = listed + 1 /\ dir' = dir
          /\ rendered' = AddListed(listed + 1)
      BY <1>3 DEF ListNamespace
    <2>2. \A o \in Generated :
             rendered'[o] = IF api[o] # Absent /\ NsOf[o] = listed + 1
                            THEN api[o] ELSE rendered[o]
      BY <2>1 DEF AddListed, InNamespace, Held
    <2>3. Stands'
      BY <1>0, <2>1, <2>2 DEF Stands
    <2>4. ASSUME NEW s \in standing, s[1] <= listed + 1
          PROVE  \E o \in Generated : NsOf[o] = s[1] /\ rendered'[o] = s[2]
      <3>1. s[1] \in Nat /\ listed \in Nat
        BY StandsWhere DEF SyncInv, TypeOK
      <3>2. CASE s[1] = listed + 1
        <4>1. PICK o \in Generated : api[o] # Absent /\ s = <<NsOf[o], api[o]>>
          BY DEF Stands
        <4> QED
          BY <2>2, <3>2, <4>1
      <3>3. CASE s[1] <= listed
        <4>1. PICK o \in Generated : NsOf[o] = s[1] /\ rendered[o] = s[2]
          BY <2>1, <3>3 DEF InDirectory
        <4>2. NsOf[o] # listed + 1
          BY <3>1, <3>3, <4>1
        <4> QED
          BY <2>2, <4>1, <4>2
      <3> QED
        BY <2>4, <3>1, <3>2, <3>3
    <2>5. InDirectory'
      BY <1>0, <2>1, <2>4 DEF InDirectory
    <2> QED
      BY <1>0, <2>3, <2>5
  <1>4. CASE BeginWriting
    BY <1>0, <1>4 DEF BeginWriting, Stands, InDirectory
  <1>5. CASE WriteFile
    <2> DEFINE f == First(left)
    <2>1. f \in Generated /\ rendered[f] # Absent
      BY <1>5, FirstFile DEF WriteFile, SyncInv, Round, TypeOK, Wanted, Held
    <2>2. /\ at = "write" /\ dir' = [dir EXCEPT ![f] = rendered[f]]
          /\ UNCHANGED <<at, listed, rendered>>
      BY <1>5 DEF WriteFile
    <2> HIDE DEF f
    <2>3. \A o \in Generated : dir'[o] = IF o = f THEN rendered[f] ELSE dir[o]
      BY <2>2 DEF SyncInv, TypeOK
    <2>4. Stands'
      <3>1. ASSUME NEW o \in Generated
            PROVE  /\ dir'[o] # Absent /\ api[o] \notin {dir'[o], Absent}
                      => <<NsOf[o], dir'[o]>> \notin standing
                   /\ rendered[o] # Absent /\ dir'[o] \notin {rendered[o], Absent}
                      => <<NsOf[o], dir'[o]>> \notin standing
        <4>1. CASE o = f
          BY <2>3, <4>1 DEF Stands
        <4>2. CASE o # f
          BY <2>3, <4>2 DEF Stands
        <4> QED
          BY <4>1, <4>2
      <3> QED
        BY <1>0, <2>2, <3>1 DEF Stands
    <2>5. ASSUME NEW s \in standing
          PROVE  \E o \in Generated : NsOf[o] = s[1] /\ dir'[o] = s[2]
      <3>1. PICK o \in Generated : NsOf[o] = s[1] /\ dir[o] = s[2]
        BY DEF InDirectory
      <3>2. CASE o # f
        BY <2>3, <3>1, <3>2
      <3>3. CASE o = f
        <4>1. dir[f] # Absent /\ <<NsOf[f], dir[f]>> = s
          BY <3>1, <3>3, StandsWhere
        <4>2. rendered[f] = dir[f]
          BY <2>1, <4>1 DEF Stands
        <4> QED
          BY <2>1, <2>3, <3>1, <3>3, <4>2
      <3> QED
        BY <3>2, <3>3
    <2>6. InDirectory'
      BY <1>0, <2>2, <2>5 DEF InDirectory
    <2> QED
      BY <1>0, <2>4, <2>6
  <1>6. CASE ReadDir
    <2>1. /\ at = "write" /\ left = {} /\ at' = "remove" /\ listed = NumNamespaces
          /\ UNCHANGED <<dir, rendered, listed>>
      BY <1>6 DEF ReadDir, WritesDone, SyncInv, Round
    <2>2. ASSUME NEW s \in standing
          PROVE  \E o \in Generated : NsOf[o] = s[1] /\ dir[o] = s[2] /\ rendered[o] = s[2]
      <3>1. s[1] <= listed /\ s[2] # Absent
        BY <2>1, StandsWhere
      <3>2. PICK o \in Generated : NsOf[o] = s[1] /\ rendered[o] = s[2]
        BY <2>1, <3>1 DEF InDirectory
      <3>3. dir[o] = rendered[o]
        BY <2>1, <3>1, <3>2 DEF SyncInv, Round, Wanted, Held
      <3> QED
        BY <3>2, <3>3
    <2> QED
      BY <1>0, <2>1, <2>2 DEF Stands, InDirectory
  <1>7. CASE RemoveFile
    <2> DEFINE f == First(left)
    <2>1. f \in Generated /\ rendered[f] = Absent
      BY <1>7, FirstFile DEF RemoveFile, SyncInv, Round, TypeOK
    <2>2. /\ at = "remove" /\ dir' = [dir EXCEPT ![f] = Absent]
          /\ UNCHANGED <<at, listed, rendered>>
      BY <1>7 DEF RemoveFile
    <2> HIDE DEF f
    <2>3. \A o \in Generated : dir'[o] = IF o = f THEN Absent ELSE dir[o]
      BY <2>2 DEF SyncInv, TypeOK
    <2>4. Stands'
      BY <1>0, <2>1, <2>2, <2>3 DEF Stands
    <2>5. ASSUME NEW s \in standing
          PROVE  \E o \in Generated : NsOf[o] = s[1] /\ dir'[o] = s[2] /\ rendered[o] = s[2]
      <3>1. PICK o \in Generated : NsOf[o] = s[1] /\ dir[o] = s[2] /\ rendered[o] = s[2]
        BY <2>2 DEF InDirectory
      <3>2. o # f
        BY <2>1, <3>1, StandsWhere
      <3> QED
        BY <2>3, <3>1, <3>2
    <2>6. InDirectory'
      BY <1>0, <2>2, <2>5 DEF InDirectory
    <2> QED
      BY <1>0, <2>4, <2>6
  <1> QED
    BY <1>1, <1>2, <1>3, <1>4, <1>5, <1>6, <1>7
    DEF Syncer, Sync, Fail, AfterFault, Finish, ListNamespace

(* What the API takes away or edits does not stand any longer.              *)
LEMMA StandCluster == StandInv /\ Cluster => StandInv'
PROOF
  <1> SUFFICES ASSUME StandInv, Cluster PROVE StandInv'
    OBVIOUS
  <1> USE SyncAssumption DEF StandInv
  <1>0. SyncInv'
    BY KubernetesStep DEF Cluster
  <1>1. /\ standing' = (standing \cap APIBodies(api')) \ EditedAway
        /\ UNCHANGED <<dir, at, listed, rendered>>
    BY DEF Cluster, Kubernetes, Create, Delete, Edit, Change, syncVars
  <1>2. PICK g \in Generated, b \in Bodies \cup {Absent} :
           /\ api' = [api EXCEPT ![g] = b]
           /\ api[g] = Absent => g \notin born
    BY DEF Cluster, Kubernetes, Create, Delete, Edit, Change, SyncInv, TypeOK
  <1>3. \A o \in Generated : api'[o] = IF o = g THEN b ELSE api[o]
    BY <1>2 DEF SyncInv, TypeOK
  <1>4. standing' \subseteq standing
    BY <1>1
  <1>5. \A s \in standing' : \E o \in Generated : api'[o] # Absent /\ s = <<NsOf[o], api'[o]>>
    BY <1>1 DEF APIBodies, Held
  <1>6. api[g] # Absent /\ b \notin {api[g], Absent} => <<NsOf[g], api[g]>> \notin standing'
    BY <1>1, <1>3 DEF EditedAway, Held
  <1>7. ASSUME NEW o \in Generated
        PROVE  /\ dir[o] # Absent /\ api'[o] \notin {dir[o], Absent}
                  => <<NsOf[o], dir[o]>> \notin standing'
               /\ rendered[o] # Absent /\ api'[o] \notin {rendered[o], Absent}
                  => <<NsOf[o], rendered[o]>> \notin standing'
               /\ rendered[o] # Absent /\ dir[o] \notin {rendered[o], Absent}
                  => <<NsOf[o], dir[o]>> \notin standing'
    <2>1. CASE o # g
      BY <1>3, <1>4, <2>1 DEF Stands
    <2>2. CASE o = g
      <3>1. dir[o] # Absent \/ rendered[o] # Absent => api[o] # Absent
        BY <1>2, <2>2 DEF SyncInv, Known
      <3>2. api'[g] = b
        BY <1>3
      <3>3. dir[g] # Absent /\ b \notin {dir[g], Absent} => <<NsOf[g], dir[g]>> \notin standing'
        <4>1. CASE api[g] = dir[g]
          BY <1>6, <4>1
        <4>2. CASE api[g] # dir[g]
          BY <1>4, <2>2, <3>1, <4>2 DEF Stands
        <4> QED
          BY <4>1, <4>2
      <3>4. rendered[g] # Absent /\ b \notin {rendered[g], Absent}
               => <<NsOf[g], rendered[g]>> \notin standing'
        <4>1. CASE api[g] = rendered[g]
          BY <1>6, <4>1
        <4>2. CASE api[g] # rendered[g]
          BY <1>4, <2>2, <3>1, <4>2 DEF Stands
        <4> QED
          BY <4>1, <4>2
      <3>5. rendered[g] # Absent /\ dir[g] \notin {rendered[g], Absent}
               => <<NsOf[g], dir[g]>> \notin standing'
        BY <1>4 DEF Stands
      <3> QED
        BY <2>2, <3>2, <3>3, <3>4, <3>5
    <2> QED
      BY <2>1, <2>2
  <1>8. Stands'
    BY <1>1, <1>5, <1>7 DEF Stands
  <1>9. InDirectory'
    BY <1>1, <1>4 DEF InDirectory
  <1> QED
    BY <1>0, <1>8, <1>9

-----------------------------------------------------------------------------
(* The load under way                                                       *)

L == load[loader]
Reading == pc[loader] \in {"reglob", "read"}

(* The loader's variables; it has globbed every name by the time it reads.  *)
ReaderType ==
    /\ pc \in [{loader} -> {"snapshot", "glob", "reglob", "read", "schedule"}]
    /\ load \in [{loader} -> Reload!Loads]
    /\ pc[loader] = "read" => L.todo = {}

(* A file that was listed and is gone by now; it never comes back.          *)
Gone(o) == dir[o] = Absent /\ api[o] = Absent /\ rendered[o] = Absent /\ o \in born

(* The load has read body b from file o, or will read it, or will find the  *)
(* file gone and fail.                                                      *)
Carries(o, b) ==
    \/ o \notin L.todo \cup L.found /\ L.built[o] = b
    \/ o \in L.todo \cup L.found /\ (dir[o] = b \/ Gone(o))

(* A load that has not failed carries every body that stands.               *)
LoadCarries ==
    Reading /\ ~ L.failed =>
        \A s \in standing : \E o \in Generated : NsOf[o] = s[1] /\ Carries(o, s[2])

FlowInv == StandInv /\ ReaderType /\ LoadCarries /\ StandingRulesServed

(* Nothing is being loaded at first, and the registry is what the files     *)
(* hold.                                                                    *)
LEMMA FlowInitInv == FlowInit => FlowInv
PROOF
  <1> SUFFICES ASSUME FlowInit PROVE FlowInv
    OBVIOUS
  <1>1. StandInv
    BY StandInit
  <1>2. ReaderType /\ ~ Reading
    BY DEF FlowInit, ReaderType, Reading, L, Reload!NoLoad, Reload!Loads, Reload!Nothing,
           Reload!Registries
  <1>3. ASSUME NEW s \in standing
        PROVE  \E f \in Generated : NsOf[f] = s[1] /\ registry[f] = s[2]
    <2>1. PICK o \in Generated : NsOf[o] = s[1] /\ dir[o] = s[2]
      BY <1>1 DEF StandInv, InDirectory
    <2>2. s[2] # Absent /\ o \in Files
      BY <1>1, StandsWhere, SyncAssumption DEF StandInv
    <2>3. registry[o] = dir[o]
      BY <2>1, <2>2 DEF FlowInit, Reload!StartRegistry, Reload!Present, Reload!Files, Files
    <2> QED
      BY <2>1, <2>3
  <1> QED
    BY <1>1, <1>2, <1>3 DEF FlowInv, LoadCarries, StandingRulesServed

(* A step of the syncer leaves a carried body carried.                      *)
LEMMA CarriesSyncer ==
    ASSUME StandInv, Syncer, NEW s \in standing, NEW o \in Generated,
           NsOf[o] = s[1], Carries(o, s[2])
    PROVE  Carries(o, s[2])'
PROOF
  <1>1. L' = L /\ api' = api /\ born' = born
    BY DEF Syncer, flowVars, L, Sync, Fail, AfterFault, Rest, Start, ListNamespace,
           BeginWriting, WriteFile, ReadDir, RemoveFile, Finish, apiVars
  <1>2. CASE o \notin L.todo \cup L.found
    BY <1>1, <1>2 DEF Carries
  <1>3. CASE o \in L.todo \cup L.found /\ Gone(o)
    <2>1. rendered'[o] = Absent
      BY <1>3 DEF Gone, Syncer, Sync, Fail, AfterFault, Rest, Nobody, Start, ListNamespace,
           AddListed, InNamespace, Held, BeginWriting, WriteFile, ReadDir, RemoveFile, Finish
    <2>2. dir'[o] = Absent
      <3>1. CASE UNCHANGED dir
        BY <1>3, <3>1 DEF Gone
      <3>2. CASE WriteFile
        <4>1. First(left) \in Wanted
          BY <3>2, FirstFile DEF WriteFile, StandInv, SyncInv, Round, TypeOK
        <4>2. First(left) # o
          BY <1>3, <4>1 DEF Gone, Wanted, Held
        <4> QED
          BY <1>3, <3>2, <4>2 DEF WriteFile, Gone, StandInv, SyncInv, TypeOK
      <3>3. CASE RemoveFile
        BY <1>3, <3>3, SyncAssumption DEF RemoveFile, Gone, StandInv, SyncInv, TypeOK
      <3> QED
        BY <3>1, <3>2, <3>3
        DEF Syncer, Sync, Fail, AfterFault, Start, ListNamespace, BeginWriting, ReadDir, Finish
    <2> QED
      BY <1>1, <1>3, <2>1, <2>2 DEF Carries, Gone
  <1>4. CASE o \in L.todo \cup L.found /\ dir[o] = s[2]
    <2>1. s[2] # Absent /\ s = <<NsOf[o], dir[o]>>
      BY <1>4, StandsWhere DEF StandInv
    <2>2. CASE dir'[o] = dir[o]
      BY <1>1, <1>4, <2>2 DEF Carries
    <2>3. CASE WriteFile
      <3>1. First(left) \in Generated /\ rendered[First(left)] # Absent
        BY <2>3, FirstFile DEF WriteFile, StandInv, SyncInv, Round, TypeOK, Wanted, Held
      <3>2. CASE First(left) = o
        <4>1. rendered[o] = dir[o]
          BY <2>1, <3>1, <3>2 DEF StandInv, Stands
        <4> QED
          BY <2>2, <2>3, <3>2, <4>1, SyncAssumption DEF WriteFile, StandInv, SyncInv, TypeOK
      <3>3. CASE First(left) # o
        BY <2>2, <2>3, <3>3, SyncAssumption DEF WriteFile, StandInv, SyncInv, TypeOK
      <3> QED
        BY <3>2, <3>3
    <2>4. CASE RemoveFile
      <3>1. CASE First(left) = o
        <4>1. o \in left /\ at = "remove" /\ listed = NumNamespaces
          BY <2>4, <3>1, FirstFile DEF RemoveFile, StandInv, SyncInv, Round, TypeOK
        <4>2. rendered[o] = Absent /\ dir[o] # Absent /\ o \in born
          BY <4>1 DEF StandInv, SyncInv, Round, Known
        <4>3. NsOf[o] <= listed
          BY <4>1, SyncAssumption
        <4>4. api[o] = Absent
          BY <4>1, <4>2, <4>3 DEF StandInv, SyncInv, GoneForGood
        <4>5. dir'[o] = Absent /\ rendered'[o] = Absent
          BY <2>4, <3>1, <4>2, SyncAssumption DEF RemoveFile, StandInv, SyncInv, TypeOK
        <4> QED
          BY <1>1, <1>4, <4>2, <4>4, <4>5 DEF Carries, Gone
      <3>2. CASE First(left) # o
        BY <2>2, <2>4, <3>2, SyncAssumption DEF RemoveFile, StandInv, SyncInv, TypeOK
      <3> QED
        BY <3>1, <3>2
    <2> QED
      BY <2>2, <2>3, <2>4
      DEF Syncer, Sync, Fail, AfterFault, Start, ListNamespace, BeginWriting, ReadDir, Finish
  <1> QED
    BY <1>2, <1>3, <1>4 DEF Carries

(* The syncer and the API leave the loader and the registry alone.          *)
LEMMA FlowOutside == FlowInv /\ (Syncer \/ Cluster) => FlowInv'
PROOF
  <1> SUFFICES ASSUME FlowInv, Syncer \/ Cluster PROVE FlowInv'
    OBVIOUS
  <1>1. StandInv /\ StandInv'
    BY StandSyncer, StandCluster DEF FlowInv
  <1>2. UNCHANGED flowVars /\ standing' \subseteq standing
    BY DEF Syncer, Cluster
  <1>3. L' = L /\ Reading' = Reading /\ registry' = registry
    BY <1>2 DEF flowVars, L, Reading
  <1>4. ReaderType'
    BY <1>2, <1>3 DEF ReaderType, flowVars, FlowInv
  <1>5. StandingRulesServed'
    BY <1>2, <1>3 DEF StandingRulesServed, FlowInv
  <1>6. ASSUME NEW s \in standing', NEW o \in Generated, NsOf[o] = s[1], Carries(o, s[2])
        PROVE  Carries(o, s[2])'
    <2>1. CASE Syncer
      BY <1>1, <1>2, <1>6, <2>1, CarriesSyncer
    <2>2. CASE Cluster
      <3>1. dir' = dir /\ rendered' = rendered /\ born \subseteq born'
        BY <2>2 DEF Cluster, Kubernetes, Create, Delete, Edit, Change, syncVars
      <3>2. Gone(o) => api'[o] = Absent
        BY <1>1, <2>2 DEF Gone, Cluster, Kubernetes, Create, Delete, Edit, Change, StandInv,
             SyncInv, TypeOK
      <3> QED
        BY <1>3, <1>6, <3>1, <3>2 DEF Carries, Gone
    <2> QED
      BY <2>1, <2>2
  <1>7. LoadCarries'
    <2> SUFFICES ASSUME Reading, ~ L.failed, NEW s \in standing'
                 PROVE  \E o \in Generated : NsOf[o] = s[1] /\ Carries(o, s[2])'
      BY <1>3 DEF LoadCarries
    <2>1. PICK o \in Generated : NsOf[o] = s[1] /\ Carries(o, s[2])
      BY <1>2 DEF LoadCarries, FlowInv
    <2> QED
      BY <1>6, <2>1
  <1> QED
    BY <1>1, <1>4, <1>5, <1>7 DEF FlowInv

(* Visiting its least file leaves a load a load.                            *)
LEMMA LoadVisits ==
    ASSUME NEW l \in Reload!Loads, NEW f \in Files, dir \in [Files -> Bodies \cup {Absent}]
    PROVE  Reload!Globbed(l, f) \in Reload!Loads /\ Reload!Taken(l, f) \in Reload!Loads
PROOF
  <1>1. Reload!Globbed(l, f) \in Reload!Loads
    BY DEF Reload!Globbed, Reload!Loads, Reload!Files, Files
  <1>2. CASE Reload!Parses(dir[f])
    <2>1. dir[f] \in Reload!Contents
      BY SyncAssumption DEF Bodies, Absent, Reload!Contents
    <2>2. [l.built EXCEPT ![f] = dir[f]] \in Reload!Registries
      BY <1>2, <2>1 DEF Reload!Loads, Reload!Registries, Reload!Files, Files
    <2> QED
      BY <1>1, <1>2, <2>2 DEF Reload!Taken, Reload!Loads, Reload!Files, Files
  <1>3. CASE ~ Reload!Parses(dir[f])
    BY <1>1, <1>3 DEF Reload!Taken, Reload!Loads, Reload!Files, Files
  <1> QED
    BY <1>1, <1>2, <1>3

(* The loader visits the least file it has still to visit.                  *)
LEMMA LeastVisited ==
    ASSUME NEW S \in SUBSET Files, S # {}
    PROVE  Reload!Least(S) \in S
PROOF
  BY FirstFile DEF Reload!Least, First

(* A load begins with every file that is there, those of the bodies that    *)
(* stand among them.                                                        *)
LEMMA GlobCarries ==
    ASSUME FlowInv, Reload!Glob(loader)
    PROVE  ReaderType' /\ (Reading /\ ~ L.failed)' /\ L'.todo = Reload!Listing /\ L'.found = {}
PROOF
  <1>1. Reload!NoLoad \in Reload!Loads
    BY DEF Reload!NoLoad, Reload!Loads, Reload!Nothing, Reload!Registries
  <1>2. load' = [load EXCEPT ![loader] = [Reload!NoLoad EXCEPT !.todo = Reload!Listing]]
        /\ pc' = [pc EXCEPT ![loader] = "reglob"]
    BY DEF Reload!Glob
  <1>3. [Reload!NoLoad EXCEPT !.todo = Reload!Listing] \in Reload!Loads
    BY <1>1 DEF Reload!Loads, Reload!Listing
  <1>4. load' \in [{loader} -> Reload!Loads] /\ pc'[loader] = "reglob"
        /\ pc' \in [{loader} -> {"snapshot", "glob", "reglob", "read", "schedule"}]
        /\ L' = [Reload!NoLoad EXCEPT !.todo = Reload!Listing]
    BY <1>2, <1>3 DEF FlowInv, ReaderType, L
  <1> QED
    BY <1>4 DEF ReaderType, Reading, Reload!NoLoad

(* One step of the load under way.                                          *)
LEMMA FlowLoad == FlowInv /\ Load => FlowInv'
PROOF
  <1> SUFFICES ASSUME FlowInv, Load PROVE FlowInv'
    OBVIOUS
  <1>1. UNCHANGED <<vars, standing>>
    BY ReaderReads DEF Promshim
  <1>2. StandInv /\ StandInv'
    BY <1>1, SyncInvStep
    DEF FlowInv, StandInv, Stands, InDirectory, FlowNext, Promshim, vars, apiVars, syncVars
  <1>3. /\ L \in Reload!Loads /\ L.todo \in SUBSET Files /\ L.found \in SUBSET Files
        /\ dir \in [Files -> Bodies \cup {Absent}] /\ Generated \subseteq Files
    BY <1>2, SyncAssumption
    DEF FlowInv, ReaderType, L, Reload!Loads, Reload!Files, Files, StandInv, SyncInv, TypeOK
  <1>4. /\ dir' = dir /\ api' = api /\ rendered' = rendered /\ born' = born
        /\ standing' = standing
    BY <1>1 DEF vars, apiVars, syncVars
  <1>5. registry' = registry => StandingRulesServed'
    BY <1>4 DEF StandingRulesServed, FlowInv
  <1>6. CASE Reload!Glob(loader)
    <2>1. ASSUME NEW s \in standing
          PROVE  \E o \in Generated : NsOf[o] = s[1] /\ o \in Reload!Listing /\ dir[o] = s[2]
      <3>1. PICK o \in Generated : NsOf[o] = s[1] /\ dir[o] = s[2]
        BY <1>2 DEF StandInv, InDirectory
      <3>2. s[2] # Absent
        BY <1>2, StandsWhere DEF StandInv
      <3> QED
        BY <1>3, <3>1, <3>2 DEF Reload!Listing, Reload!Present, Reload!Files, Files
    <2>2. ReaderType' /\ L'.todo = Reload!Listing
      BY <1>6, GlobCarries
    <2>3. LoadCarries'
      BY <1>4, <2>1, <2>2 DEF LoadCarries, Carries
    <2>4. registry' = registry
      BY <1>6 DEF Reload!Glob
    <2> QED
      BY <1>2, <1>5, <2>2, <2>3, <2>4 DEF FlowInv
  <1>7. CASE Reload!Reglob(loader)
    <2> DEFINE f == Reload!Least(L.todo)
    <2>1. f \in L.todo /\ f \in Files
      BY <1>3, <1>7, LeastVisited DEF Reload!Reglob, L
    <2>2. /\ load' = [load EXCEPT ![loader] = Reload!Globbed(L, f)]
          /\ pc' = pc /\ registry' = registry /\ pc[loader] = "reglob"
      BY <1>7 DEF Reload!Reglob, L
    <2> HIDE DEF f
    <2>3. L' = Reload!Globbed(L, f) /\ L' \in Reload!Loads
      BY <1>3, <2>1, <2>2, LoadVisits DEF FlowInv, ReaderType, L
    <2>4. ReaderType'
      BY <2>2, <2>3 DEF FlowInv, ReaderType, L
    <2>5. L'.failed \/ /\ L'.failed = L.failed /\ L'.built = L.built
                       /\ L'.todo \cup L'.found = L.todo \cup L.found
      BY <1>3, <2>1, <2>3 DEF Reload!Globbed, Reload!Loads
    <2>6. LoadCarries'
      BY <1>4, <2>2, <2>5 DEF FlowInv, LoadCarries, Reading, Carries, Gone
    <2> QED
      BY <1>2, <1>5, <2>2, <2>4, <2>6 DEF FlowInv
  <1>8. CASE Reload!ReglobDone(loader)
    <2>1. load' = load /\ registry' = registry /\ pc[loader] = "reglob" /\ L.todo = {}
          /\ pc' = [pc EXCEPT ![loader] = "read"]
      BY <1>8 DEF Reload!ReglobDone, L
    <2>2. L' = L
      BY <2>1 DEF L
    <2>3. ReaderType'
      BY <2>1, <2>2 DEF FlowInv, ReaderType
    <2>4. LoadCarries'
      BY <1>4, <2>1, <2>2 DEF FlowInv, LoadCarries, Reading, Carries, Gone
    <2> QED
      BY <1>2, <1>5, <2>1, <2>3, <2>4 DEF FlowInv
  <1>9. CASE Reload!ReadFile(loader)
    <2> DEFINE f == Reload!Least(L.found)
    <2>1. f \in L.found /\ f \in Files
      BY <1>3, <1>9, LeastVisited DEF Reload!ReadFile, L
    <2>2. /\ load' = [load EXCEPT ![loader] = Reload!Taken(L, f)]
          /\ pc' = pc /\ registry' = registry /\ pc[loader] = "read" /\ L.todo = {}
      BY <1>9 DEF Reload!ReadFile, L, FlowInv, ReaderType
    <2> HIDE DEF f
    <2>3. L' = Reload!Taken(L, f) /\ L' \in Reload!Loads
      BY <1>3, <2>1, <2>2, LoadVisits DEF FlowInv, ReaderType, L
    <2>4. L'.todo = {}
      BY <1>3, <2>2, <2>3 DEF Reload!Taken, Reload!Loads
    <2>5. ReaderType'
      BY <2>2, <2>3, <2>4 DEF FlowInv, ReaderType, L
    <2>6. \/ L'.failed
          \/ /\ Reload!Parses(dir[f]) /\ L'.failed = L.failed
             /\ L'.found = L.found \ {f} /\ L'.built = [L.built EXCEPT ![f] = dir[f]]
      BY <1>3, <2>1, <2>3 DEF Reload!Taken, Reload!Loads
    <2>7. ASSUME ~ L'.failed, NEW s \in standing, NEW o \in Generated, Carries(o, s[2])
          PROVE  Carries(o, s[2])'
      <3>1. /\ dir[f] # Absent /\ L'.found = L.found \ {f}
            /\ L'.built = [L.built EXCEPT ![f] = dir[f]]
        BY <2>6, <2>7 DEF Reload!Parses, Reload!Present
      <3>3. DOMAIN L.built = Files
        BY <1>3 DEF Reload!Loads, Reload!Registries, Reload!Files, Files
      <3>4. CASE o = f
        BY <1>3, <2>1, <2>2, <2>4, <2>7, <3>1, <3>3, <3>4 DEF Carries, Gone
      <3>5. CASE o # f
        <4>1. L'.built[o] = L.built[o]
          BY <1>3, <3>1, <3>3, <3>5
        <4> QED
          BY <1>4, <2>2, <2>4, <2>7, <3>1, <3>5, <4>1 DEF Carries, Gone
      <3> QED
        BY <3>4, <3>5
    <2>8. LoadCarries'
      <3>1. L'.failed \/ (~ L'.failed /\ ~ L.failed)
        BY <2>6
      <3> QED
        BY <1>4, <2>2, <2>7, <3>1 DEF FlowInv, LoadCarries, Reading
    <2> QED
      BY <1>2, <1>5, <2>2, <2>5, <2>8 DEF FlowInv
  <1>10. CASE Reload!Swap(loader)
    <2>1. /\ pc[loader] = "read" /\ L.found = {} /\ L.todo = {} /\ load' = load
          /\ registry' = IF L.failed THEN registry ELSE L.built
          /\ pc' = [pc EXCEPT ![loader] = "schedule"]
      BY <1>10 DEF Reload!Swap, Reload!LoadOutcome, L, FlowInv, ReaderType
    <2>2. ReaderType' /\ ~ Reading'
      BY <2>1 DEF FlowInv, ReaderType, Reading, L
    <2>3. LoadCarries'
      BY <2>2 DEF LoadCarries
    <2>4. ASSUME ~ L.failed PROVE StandingRulesServed'
      <3>1. ASSUME NEW s \in standing
            PROVE  \E o \in Generated : NsOf[o] = s[1] /\ L.built[o] = s[2]
        <4>1. PICK o \in Generated : NsOf[o] = s[1] /\ Carries(o, s[2])
          BY <2>1, <2>4 DEF FlowInv, LoadCarries, Reading
        <4> QED
          BY <2>1, <4>1 DEF Carries
      <3> QED
        BY <1>4, <2>1, <2>4, <3>1 DEF StandingRulesServed
    <2> QED
      BY <1>2, <1>5, <2>1, <2>2, <2>3, <2>4 DEF FlowInv
  <1> QED
    BY <1>6, <1>7, <1>8, <1>9, <1>10 DEF Load, Reload!LoadFiles

(* Beginning and ending a load, nothing is being read.                      *)
LEMMA FlowAround == FlowInv /\ (BeginLoad \/ EndLoad) => FlowInv'
PROOF
  <1> SUFFICES ASSUME FlowInv, BeginLoad \/ EndLoad PROVE FlowInv'
    OBVIOUS
  <1>1. UNCHANGED <<vars, standing, registry>>
    BY DEF BeginLoad, EndLoad
  <1>2. StandInv'
    BY <1>1, SyncInvStep
    DEF FlowInv, StandInv, Stands, InDirectory, FlowNext, Promshim, vars, apiVars, syncVars
  <1>3. Reload!NoLoad \in Reload!Loads
    BY DEF Reload!NoLoad, Reload!Loads, Reload!Nothing, Reload!Registries
  <1>4. ReaderType' /\ ~ Reading'
    BY <1>3 DEF FlowInv, ReaderType, Reading, BeginLoad, EndLoad, L
  <1>5. StandingRulesServed'
    BY <1>1 DEF FlowInv, StandingRulesServed
  <1> QED
    BY <1>2, <1>4, <1>5 DEF FlowInv, LoadCarries

(* A rule its namespace has held all the time is in every registry promshim *)
(* serves from, however the syncer's rounds, failures and restarts fall     *)
(* between the steps of promshim's loads.                                   *)
THEOREM StandingServed == FlowSpec => []StandingRulesServed
PROOF
  <1>1. FlowInv /\ [FlowNext]_allVars => FlowInv'
    <2>1. FlowInv /\ UNCHANGED allVars => FlowInv'
      <3> SUFFICES ASSUME FlowInv, UNCHANGED allVars PROVE FlowInv'
        OBVIOUS
      <3>1. SyncInv'
        BY SyncInvStep DEF FlowInv, StandInv
      <3> QED
        BY <3>1 DEF FlowInv, StandInv, Stands, InDirectory, ReaderType, LoadCarries, Reading, L,
             Carries, Gone, StandingRulesServed, allVars, vars, flowVars, apiVars, syncVars
    <2> QED
      BY <2>1, FlowOutside, FlowLoad, FlowAround DEF FlowNext, Promshim
  <1>2. FlowInv => StandingRulesServed
    BY DEF FlowInv
  <1> QED
    BY <1>1, <1>2, FlowInitInv, PTL DEF FlowSpec
=============================================================================
