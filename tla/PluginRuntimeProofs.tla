------------------------ MODULE PluginRuntimeProofs ------------------------
(***************************************************************************)
(* Proofs about PluginRuntime for any set of paths, contents and requests, *)
(* any retention and any number of updates: types, what garbage collection *)
(* must keep, and what readers may rely on -- true hashes, coherent        *)
(* registries, one catalog per generation, silence of what was replaced, a *)
(* final shutdown; from these, that the runtime implements HotRegistry;    *)
(* and that what is kept is bounded.                                       *)
(***************************************************************************)
EXTENDS PluginRuntime, FiniteSetTheorems, TLAPS

-----------------------------------------------------------------------------
(* Type correctness *)

\* Whatever the deployer, the updates and the readers do, every variable keeps
\* its type; in particular a candidate always records contents that were on
\* disk when it was hashed and copied.
THEOREM TypeCorrect == Spec => []TypeOK
<1>1. Init => TypeOK
  BY CatalogAssumption DEF Init, TypeOK, Registry, Stages
<1>2. TypeOK /\ [Next]_vars => TypeOK'
  <2> SUFFICES ASSUME TypeOK, [Next]_vars
               PROVE  TypeOK'
    OBVIOUS
  <2> USE CatalogAssumption
      DEF TypeOK, Ref, Registry, Stages, servingVars, stagingVars, clientVars
  <2>0. ASSUME AbandonTemporary
        PROVE  TypeOK'
    <3>1. {c.id : c \in candidate} \subseteq Nat
      OBVIOUS
    <3> QED
      BY <2>0, <3>1 DEF AbandonTemporary, GiveUp
  <2>1. ASSUME NEW p \in Paths, NEW c \in Contents, DiskWrite(p, c)
        PROVE  TypeOK'
    BY <2>1 DEF DiskWrite
  <2>2. ASSUME NEW p \in Paths, DiskDelete(p)
        PROVE  TypeOK'
    BY <2>2 DEF DiskDelete
  <2>3. ASSUME NEW p \in Paths, DetectChange(p)
        PROVE  TypeOK'
    <3>1. disk[p] \in Contents
      BY <2>3 DEF DetectChange, SourceIsLibrary
    <3> QED
      BY <2>3, <3>1 DEF DetectChange
  <2>4. ASSUME NEW p \in Paths, SkipPath(p)
        PROVE  TypeOK'
    BY <2>4 DEF SkipPath
  <2>5. ASSUME NEW p \in Paths, RemovePlugin(p)
        PROVE  TypeOK'
    BY <2>5 DEF RemovePlugin, Publish
  <2>6. CASE InitializeDone
    BY <2>6 DEF InitializeDone
  <2>7. CASE StageCopy
    <3>1. PICK c \in candidate :
             \/ /\ disk[c.path] = Absent
                /\ AbandonTemporary
             \/ /\ disk[c.path] # Absent
                /\ candidate' = {[c EXCEPT !.lib = disk[c.path]]}
                /\ stage' = "seal"
                /\ UNCHANGED <<disk, phase, unvisited, previous, notifying,
                               snapshot, servingVars, stagingVars, clientVars>>
      BY <2>7 DEF StageCopy
    <3>2. CASE disk[c.path] = Absent /\ AbandonTemporary
      BY <3>2, <2>0
    <3>3. CASE disk[c.path] # Absent
      <4>1. [c EXCEPT !.lib = disk[c.path]] \in Ref
        BY <3>3
      <4> QED
        BY <3>1, <3>3, <4>1
    <3> QED
      BY <3>1, <3>2, <3>3
  <2>8. CASE StageSeal
    <3>1. PICK c \in candidate :
             \/ ~CopyVerified(c) /\ UNCHANGED <<staged, leftovers>> /\ GiveUp
             \/ AbandonTemporary
             \/ /\ staged' = staged \cup {c}
                /\ stage' = "load"
                /\ UNCHANGED <<disk, phase, unvisited, candidate, previous,
                               sequence, leftovers, history, notifying,
                               snapshot, servingVars, clientVars>>
      BY <2>8 DEF StageSeal
    <3>2. CASE UNCHANGED <<staged, leftovers>> /\ GiveUp
      BY <3>2 DEF GiveUp
    <3>3. CASE /\ staged' = staged \cup {c}
               /\ stage' = "load"
               /\ UNCHANGED <<disk, phase, unvisited, candidate, previous,
                              sequence, leftovers, history, notifying,
                              snapshot, servingVars, clientVars>>
      BY <3>3
    <3> QED
      BY <3>1, <3>2, <3>3, <2>0
  <2>9. CASE LoadCandidate
    BY <2>9 DEF LoadCandidate, DiscardCandidate, RemoveDirectories, GiveUp
  <2>10. CASE RejectCandidate
    BY <2>10 DEF RejectCandidate, DiscardCandidate, RemoveDirectories, GiveUp
  <2>11. CASE PublishCandidate
    BY <2>11 DEF PublishCandidate, Publish, Replacing
  <2>12. CASE SilenceRetired
    BY <2>12 DEF SilenceRetired
  <2>13. CASE NotifyCapabilityChanges
    BY <2>13 DEF NotifyCapabilityChanges, ChangedKinds
  <2>14. CASE CollectGarbage
    BY <2>14 DEF CollectGarbage, DeleteCollectable
  <2>15. CASE ShutdownPublish
    BY <2>15 DEF ShutdownPublish
  <2>16. CASE ShutdownClear
    BY <2>16 DEF ShutdownClear
  <2>17. ASSUME NEW r \in Requests, TakeSnapshot(r)
         PROVE  TypeOK'
    BY <2>17 DEF TakeSnapshot
  <2>18. ASSUME NEW r \in Requests, ReleaseSnapshot(r)
         PROVE  TypeOK'
    BY <2>18 DEF ReleaseSnapshot
  <2>19. ASSUME NEW kind \in Kinds, ListCapability(kind)
         PROVE  TypeOK'
    BY <2>19 DEF ListCapability
  <2>20. CASE UNCHANGED vars
    BY <2>20 DEF vars
  <2> QED
    BY <2>1, <2>2, <2>3, <2>4, <2>5, <2>6, <2>7, <2>8, <2>9, <2>10, <2>11,
       <2>12, <2>13, <2>14, <2>15, <2>16, <2>17, <2>18, <2>19, <2>20
    DEF Next, Deployer, Updater, UpdateStep, Readers
<1> QED
  BY <1>1, <1>2, PTL DEF Spec

-----------------------------------------------------------------------------
(* A plugin in use keeps its staged library *)

\* Some registry in use, or the active map, refers to the plugin.
Serves(ref) ==
    \/ ref \in active
    \/ ref \in published.plugins
    \/ \E r \in Requests : \E reg \in snapshot[r] : ref \in reg.plugins

\* What it means, in terms of the state, that some shared_ptr refers to a
\* plugin.
LEMMA HeldMeaning ==
  ASSUME NEW ref
  PROVE  ref \in Held <=>
           Serves(ref) \/ ref \in previous \/ ref \in LoadedCandidate
BY DEF Held, Registries, Serves

\* The stages before the candidate is published or given up.
Preparing == stage \in {"copy", "seal", "load", "validate"}

\* While an update prepares, it has one candidate, the last one numbered, and
\* owns no retired plugin; between updates there is neither.
CandidateInv ==
    /\ stage \in {"idle", "shutdown"} => candidate = {} /\ previous = {}
    /\ Preparing =>
          previous = {} /\ \E c \in Ref : candidate = {c} /\ c.id = sequence

\* A candidate in preparation is numbered higher than every plugin in use, so
\* giving it up cannot remove a directory that is in use.
FreshInv ==
    \A ref \in Ref :
        Serves(ref) =>
            /\ ref.id <= sequence
            /\ Preparing => ref.id < sequence

StagedInv ==
    /\ \A ref \in Ref : Serves(ref) \/ ref \in previous => ref \in staged
    /\ stage \in {"load", "validate"} => candidate \subseteq staged

StagingInv == TypeOK /\ CandidateInv /\ FreshInv /\ StagedInv

\* The invariant covers every holder of a plugin.
LEMMA StagingInvImpliesHeldPluginsStaged == StagingInv => HeldPluginsStaged
<1> SUFFICES ASSUME StagingInv, NEW ref \in Held
             PROVE  ref \in staged
  BY DEF HeldPluginsStaged
<1>1. ref \in Ref
  <2>1. CASE Serves(ref)
    BY <2>1 DEF StagingInv, TypeOK, Serves, Registry
  <2>2. CASE ref \in previous
    BY <2>2 DEF StagingInv, TypeOK
  <2>3. CASE ref \in LoadedCandidate
    BY <2>3 DEF StagingInv, TypeOK, LoadedCandidate
  <2> QED
    BY <2>1, <2>2, <2>3, HeldMeaning
<1>2. CASE ref \in LoadedCandidate
  BY <1>2 DEF StagingInv, StagedInv, LoadedCandidate
<1> QED
  BY <1>1, <1>2, HeldMeaning DEF StagingInv, StagedInv

\* A step that changes none of what the invariant reads keeps it.
LEMMA StagingFrame ==
  ASSUME CandidateInv, FreshInv, StagedInv,
         UNCHANGED <<stage, candidate, previous, active, published, sequence,
                     staged, snapshot>>
  PROVE  CandidateInv' /\ FreshInv' /\ StagedInv'
BY DEF CandidateInv, FreshInv, StagedInv, Serves, Preparing

\* Giving up the candidate, whether or not its directory is removed.
LEMMA StagingGiveUp ==
  ASSUME StagingInv, Preparing, GiveUp,
         staged \ candidate \subseteq staged'
  PROVE  CandidateInv' /\ FreshInv' /\ StagedInv'
<1> USE DEF StagingInv
<1>1. /\ stage' = "idle"
      /\ candidate' = {}
      /\ UNCHANGED <<previous, sequence, snapshot, active, published>>
  BY DEF GiveUp, servingVars
<1>2. previous = {}
  BY DEF CandidateInv
<1>3. \A ref \in Ref : Serves(ref)' <=> Serves(ref)
  BY <1>1 DEF Serves
<1>4. CandidateInv'
  BY <1>1, <1>2 DEF CandidateInv, Preparing
<1>5. FreshInv'
  BY <1>1, <1>3 DEF FreshInv, Preparing
<1>6. StagedInv'
  <2>1. PICK c \in Ref : candidate = {c} /\ c.id = sequence
    BY DEF CandidateInv
  <2>2. \A ref \in Ref : Serves(ref) => ref \in staged /\ ref # c
    BY <2>1 DEF FreshInv, StagedInv, Ref, TypeOK
  <2> QED
    BY <1>1, <1>2, <1>3, <2>1, <2>2 DEF StagedInv
<1> QED
  BY <1>4, <1>5, <1>6

\* The invariant is inductive: one step per action of the runtime.
LEMMA StagingStep ==
  StagingInv /\ [Next]_vars => CandidateInv' /\ FreshInv' /\ StagedInv'
<1> SUFFICES ASSUME StagingInv, [Next]_vars
             PROVE  CandidateInv' /\ FreshInv' /\ StagedInv'
  OBVIOUS
<1> USE DEF StagingInv
<1> DEFINE Goal == CandidateInv' /\ FreshInv' /\ StagedInv'
           Frame == UNCHANGED <<stage, candidate, previous, active, published,
                                sequence, staged, snapshot>>
<1>0. ASSUME Frame PROVE Goal
  BY <1>0, StagingFrame
<1>1. ASSUME NEW p \in Paths, NEW c \in Contents, DiskWrite(p, c)
      PROVE  Goal
  BY <1>1, <1>0 DEF DiskWrite, servingVars, stagingVars
<1>2. ASSUME NEW p \in Paths, DiskDelete(p)
      PROVE  Goal
  BY <1>2, <1>0 DEF DiskDelete, servingVars, stagingVars
<1>3. ASSUME NEW p \in Paths, DetectChange(p)
      PROVE  Goal
  <2>1. /\ stage = "idle" /\ stage' = "copy"
        /\ sequence' = sequence + 1
        /\ UNCHANGED <<previous, active, published, staged, snapshot>>
    BY <1>3 DEF DetectChange, MayReload, servingVars
  <2>2. PICK c : candidate' = {c} /\ c \in Ref /\ c.id = sequence + 1
    <3>1. disk[p] \in Contents
      BY <1>3, CatalogAssumption DEF DetectChange, SourceIsLibrary, TypeOK
    <3> DEFINE c == [id |-> sequence + 1, path |-> p,
                     sha |-> disk[p], lib |-> disk[p]]
    <3>2. c \in Ref
      BY <3>1 DEF Ref, TypeOK
    <3> QED
      BY <1>3, <3>2 DEF DetectChange
  <2>3. \A ref : Serves(ref)' <=> Serves(ref)
    BY <2>1 DEF Serves
  <2>4. CandidateInv'
    BY <2>1, <2>2 DEF CandidateInv, Preparing
  <2>5. FreshInv'
    BY <2>1, <2>3 DEF FreshInv, Preparing, TypeOK, Ref
  <2>6. StagedInv'
    BY <2>1, <2>3 DEF StagedInv
  <2> QED
    BY <2>4, <2>5, <2>6
<1>4. ASSUME NEW p \in Paths, SkipPath(p)
      PROVE  Goal
  BY <1>4, <1>0 DEF SkipPath, servingVars, stagingVars
<1>5. ASSUME NEW r \in active, NEW p, stage = "idle", r.path = p,
             Publish(active \ {r}), stage' = "silence",
             UNCHANGED <<candidate, snapshot, sequence, staged>>
      PROVE  Goal
  <2>1. \A ref : Serves(ref)' => Serves(ref) \/ ref \in active
    BY <1>5 DEF Serves, Publish
  <2>2. CandidateInv'
    BY <1>5 DEF CandidateInv, Preparing
  <2>3. FreshInv'
    BY <1>5, <2>1 DEF FreshInv, Preparing, Serves
  <2>4. StagedInv'
    BY <1>5, <2>1 DEF StagedInv, Serves, Publish
  <2> QED
    BY <2>2, <2>3, <2>4
<1>6. CASE InitializeDone
  BY <1>6, <1>0 DEF InitializeDone, servingVars, stagingVars
<1>7. CASE StageCopy
  <2>1. PICK c \in candidate :
           \/ AbandonTemporary
           \/ /\ disk[c.path] # Absent
              /\ candidate' = {[c EXCEPT !.lib = disk[c.path]]}
              /\ stage' = "seal"
              /\ UNCHANGED <<previous, active, published, staged, snapshot,
                             sequence>>
    BY <1>7 DEF StageCopy, servingVars, stagingVars
  <2>2. CASE AbandonTemporary
    BY <1>7, <2>2, StagingGiveUp DEF AbandonTemporary, StageCopy, Preparing
  <2>3. CASE /\ disk[c.path] # Absent
             /\ candidate' = {[c EXCEPT !.lib = disk[c.path]]}
             /\ stage' = "seal"
             /\ UNCHANGED <<previous, active, published, staged, snapshot,
                            sequence>>
    <3>1. /\ c.id = sequence
          /\ c \in Ref
      BY <1>7 DEF CandidateInv, StageCopy, Preparing
    <3> DEFINE d == [c EXCEPT !.lib = disk[c.path]]
    <3>2. d \in Ref /\ d.id = sequence
      BY <2>3, <3>1, CatalogAssumption DEF TypeOK, Ref
    <3>3. \A ref : Serves(ref)' <=> Serves(ref)
      BY <2>3 DEF Serves
    <3>4. CandidateInv'
      BY <1>7, <2>3, <3>2 DEF CandidateInv, Preparing, StageCopy
    <3>5. FreshInv'
      BY <1>7, <2>3, <3>3 DEF FreshInv, Preparing, StageCopy
    <3>6. StagedInv'
      BY <2>3, <3>3 DEF StagedInv
    <3> QED
      BY <3>4, <3>5, <3>6
  <2> QED
    BY <2>1, <2>2, <2>3
<1>8. CASE StageSeal
  <2>1. PICK c \in candidate :
           \/ UNCHANGED staged /\ GiveUp
           \/ /\ staged' = staged \cup {c}
              /\ stage' = "load"
              /\ UNCHANGED <<previous, active, published, candidate, snapshot,
                             sequence>>
    BY <1>8 DEF StageSeal, AbandonTemporary, servingVars
  <2>2. CASE UNCHANGED staged /\ GiveUp
    BY <1>8, <2>2, StagingGiveUp DEF StageSeal, Preparing
  <2>3. CASE /\ staged' = staged \cup {c}
             /\ stage' = "load"
             /\ UNCHANGED <<previous, active, published, candidate, snapshot,
                            sequence>>
    <3>1. candidate = {c}
      BY <1>8 DEF CandidateInv, StageSeal, Preparing
    <3>2. \A ref : Serves(ref)' <=> Serves(ref)
      BY <2>3 DEF Serves
    <3>3. CandidateInv'
      BY <1>8, <2>3 DEF CandidateInv, Preparing, StageSeal
    <3>4. FreshInv'
      BY <1>8, <2>3, <3>2 DEF FreshInv, Preparing, StageSeal
    <3>5. StagedInv'
      BY <2>3, <3>1, <3>2 DEF StagedInv
    <3> QED
      BY <3>3, <3>4, <3>5
  <2> QED
    BY <2>1, <2>2, <2>3
<1>9. ASSUME DiscardCandidate, Preparing PROVE Goal
  BY <1>9, StagingGiveUp DEF DiscardCandidate, RemoveDirectories
<1>10. CASE LoadCandidate
  <2>1. CASE DiscardCandidate
    BY <1>9, <1>10, <2>1 DEF LoadCandidate, Preparing
  <2>2. CASE /\ stage' = "validate"
             /\ UNCHANGED <<candidate, previous, snapshot, active, published,
                            sequence, staged>>
    <3>1. \A ref : Serves(ref)' <=> Serves(ref)
      BY <2>2 DEF Serves
    <3>2. CandidateInv'
      BY <1>10, <2>2 DEF CandidateInv, Preparing, LoadCandidate
    <3>3. FreshInv'
      BY <1>10, <2>2, <3>1 DEF FreshInv, Preparing, LoadCandidate
    <3>4. StagedInv'
      BY <1>10, <2>2, <3>1 DEF StagedInv, LoadCandidate
    <3> QED
      BY <3>2, <3>3, <3>4
  <2> QED
    BY <1>10, <2>1, <2>2 DEF LoadCandidate, servingVars, stagingVars
<1>11. CASE RejectCandidate
  BY <1>9, <1>11 DEF RejectCandidate, Preparing
<1>12. CASE PublishCandidate
  <2>1. PICK c \in candidate : Publish(Replacing(active, c))
    BY <1>12 DEF PublishCandidate
  <2>2. /\ stage = "validate" /\ stage' = "silence"
        /\ UNCHANGED <<candidate, snapshot, sequence, staged>>
    BY <1>12 DEF PublishCandidate, stagingVars
  <2>3. c \in Ref /\ c.id = sequence /\ c \in staged
    BY <2>2 DEF CandidateInv, Preparing, StagedInv
  <2>4. \A ref : Serves(ref)' => Serves(ref) \/ ref = c
    BY <2>1, <2>2 DEF Serves, Publish, Replacing
  <2>5. CandidateInv'
    BY <2>2 DEF CandidateInv, Preparing
  <2>6. FreshInv'
    BY <2>2, <2>3, <2>4 DEF FreshInv, Preparing, TypeOK, Ref
  <2>7. StagedInv'
    BY <2>1, <2>2, <2>3, <2>4 DEF StagedInv, Publish, Serves
  <2> QED
    BY <2>5, <2>6, <2>7
<1>13. CASE SilenceRetired
  <2>1. /\ stage = "silence" /\ stage' = "notify"
        /\ UNCHANGED <<candidate, previous, active, published, sequence,
                       staged, snapshot>>
    BY <1>13 DEF SilenceRetired, servingVars
  <2> QED
    BY <2>1 DEF CandidateInv, FreshInv, StagedInv, Serves, Preparing
<1>14. CASE NotifyCapabilityChanges
  <2>1. /\ stage = "notify" /\ stage' = "collect"
        /\ UNCHANGED <<candidate, previous, active, published, sequence,
                       staged, snapshot>>
    BY <1>14 DEF NotifyCapabilityChanges, servingVars, stagingVars
  <2> QED
    BY <2>1 DEF CandidateInv, FreshInv, StagedInv, Serves, Preparing
<1>15. CASE CollectGarbage
  <2>1. /\ stage = "collect" /\ stage' = "idle"
        /\ candidate' = {} /\ previous' = {}
        /\ UNCHANGED <<active, published, sequence, snapshot>>
    BY <1>15 DEF CollectGarbage, servingVars
  <2>2. \A ref : Serves(ref)' <=> Serves(ref)
    BY <2>1 DEF Serves
  <2>3. \A ref : Serves(ref) /\ ref \in staged => ref \in staged'
    BY <1>15, HeldMeaning DEF CollectGarbage, DeleteCollectable, Collectable
  <2>4. CandidateInv'
    BY <2>1 DEF CandidateInv, Preparing
  <2>5. FreshInv'
    BY <2>1, <2>2 DEF FreshInv, Preparing
  <2>6. StagedInv'
    BY <2>1, <2>2, <2>3 DEF StagedInv
  <2> QED
    BY <2>4, <2>5, <2>6
<1>16. CASE ShutdownPublish
  <2>1. /\ stage = "idle" /\ stage' = "shutdown"
        /\ published'.plugins = {}
        /\ UNCHANGED <<candidate, previous, active, sequence, staged, snapshot>>
    BY <1>16 DEF ShutdownPublish, stagingVars
  <2>2. \A ref : Serves(ref)' => Serves(ref)
    BY <2>1 DEF Serves
  <2> QED
    BY <2>1, <2>2 DEF CandidateInv, FreshInv, StagedInv, Preparing
<1>17. CASE ShutdownClear
  <2>1. /\ stage = "shutdown" /\ stage' = "idle" /\ active' = {}
        /\ UNCHANGED <<candidate, previous, published, sequence, staged,
                       snapshot>>
    BY <1>17 DEF ShutdownClear, stagingVars
  <2>2. \A ref : Serves(ref)' => Serves(ref)
    BY <2>1 DEF Serves
  <2> QED
    BY <2>1, <2>2 DEF CandidateInv, FreshInv, StagedInv, Preparing
<1>18. ASSUME NEW r \in Requests, NEW regs \in SUBSET {published},
              snapshot' = [snapshot EXCEPT ![r] = regs],
              UNCHANGED <<stage, candidate, previous, active, published,
                          sequence, staged>>
       PROVE  Goal
  <2>1. \A ref : Serves(ref)' => Serves(ref)
    BY <1>18 DEF Serves, TypeOK
  <2> QED
    BY <1>18, <2>1 DEF CandidateInv, FreshInv, StagedInv, Preparing
<1>19. ASSUME NEW r \in Requests, TakeSnapshot(r)
       PROVE  Goal
  BY <1>19, <1>18 DEF TakeSnapshot, servingVars, stagingVars
<1>20. ASSUME NEW r \in Requests, ReleaseSnapshot(r)
       PROVE  Goal
  BY <1>20, <1>18 DEF ReleaseSnapshot, servingVars, stagingVars
<1>21. ASSUME NEW kind \in Kinds, ListCapability(kind)
       PROVE  Goal
  BY <1>21, <1>0 DEF ListCapability, servingVars, stagingVars
<1>22. CASE UNCHANGED vars
  BY <1>22, <1>0 DEF vars
<1>23. ASSUME NEW p \in Paths, RemovePlugin(p)
       PROVE  Goal
  BY <1>23, <1>5 DEF RemovePlugin, stagingVars
<1> QED
  BY <1>1, <1>2, <1>3, <1>4, <1>6, <1>7, <1>8, <1>10, <1>11, <1>12, <1>13,
     <1>14, <1>15, <1>16, <1>17, <1>19, <1>20, <1>21, <1>22, <1>23
  DEF Next, Deployer, Updater, UpdateStep, Readers

\* No collection, rejection or failed load ever deletes the staged library of
\* a plugin that is active, published, being validated or still used by a
\* request, however requests and updates interleave.
THEOREM HeldSafe == Spec => []HeldPluginsStaged
<1>1. Init => CandidateInv /\ FreshInv /\ StagedInv
  BY DEF Init, CandidateInv, FreshInv, StagedInv, Serves, Preparing
<1>2. TypeOK /\ CandidateInv /\ FreshInv /\ StagedInv /\ [Next]_vars
        => CandidateInv' /\ FreshInv' /\ StagedInv'
  BY StagingStep DEF StagingInv
<1>3. TypeOK /\ CandidateInv /\ FreshInv /\ StagedInv => HeldPluginsStaged
  BY StagingInvImpliesHeldPluginsStaged DEF StagingInv
<1> QED
  BY <1>1, <1>2, <1>3, TypeCorrect, PTL DEF Spec

-----------------------------------------------------------------------------
(* What the other proofs start from *)

\* The invariants of PluginRuntimeProofs that the proofs below start from.
Sound == TypeOK /\ CandidateInv

LEMMA SoundAlways == Spec => []Sound
<1>1. Init => CandidateInv /\ FreshInv /\ StagedInv
  BY DEF Init, CandidateInv, FreshInv, StagedInv, Serves, Preparing
<1>2. TypeOK /\ CandidateInv /\ FreshInv /\ StagedInv /\ [Next]_vars
        => CandidateInv' /\ FreshInv' /\ StagedInv'
  BY StagingStep DEF StagingInv
<1>3. TypeOK /\ CandidateInv => Sound
  BY DEF Sound
<1> QED
  BY <1>1, <1>2, <1>3, TypeCorrect, PTL DEF Spec

-----------------------------------------------------------------------------
(* The actions, as far as the invariants below distinguish them *)

\* Nothing a reader can see changes, and no update moves.
Aside == UNCHANGED <<phase, stage, candidate, previous, notifying, servingVars>>

\* Every step is one of these; the proofs of the invariants go through them.
LEMMA StepCases ==
  ASSUME [Next]_vars
  PROVE  \/ Aside /\ UNCHANGED snapshot
         \/ \E p \in Paths : DetectChange(p) \/ RemovePlugin(p)
         \/ InitializeDone
         \/ UpdateStep
         \/ ShutdownPublish
         \/ \E r \in Requests : TakeSnapshot(r) \/ ReleaseSnapshot(r)
<1>1. ASSUME NEW p \in Paths, NEW c \in Contents,
             DiskWrite(p, c) \/ DiskDelete(p) \/ SkipPath(p)
      PROVE  Aside /\ UNCHANGED snapshot
  BY <1>1 DEF DiskWrite, DiskDelete, SkipPath, Aside, servingVars
<1>2. ASSUME NEW p \in Paths, DiskDelete(p) \/ SkipPath(p)
      PROVE  Aside /\ UNCHANGED snapshot
  BY <1>2 DEF DiskDelete, SkipPath, Aside, servingVars
<1>3. ASSUME NEW kind \in Kinds, ListCapability(kind)
      PROVE  Aside /\ UNCHANGED snapshot
  BY <1>3 DEF ListCapability, Aside, servingVars
<1>4. CASE UNCHANGED vars
  BY <1>4 DEF vars, Aside, servingVars
<1> QED
  BY <1>1, <1>2, <1>3, <1>4 DEF Next, Deployer, Updater, Readers

\* What the steps of an update that prepare a candidate do to what the
\* invariants read.
GivesUp ==
    /\ Preparing
    /\ stage' = "idle" /\ candidate' = {}
    /\ notifying' = notifying \ candidate
    /\ UNCHANGED <<phase, previous, snapshot, servingVars>>

Copied ==
    /\ stage = "copy" /\ stage' = "seal"
    /\ \E c \in candidate : candidate' = {[c EXCEPT !.lib = disk[c.path]]}
    /\ UNCHANGED <<phase, previous, notifying, snapshot, servingVars>>

Sealed ==
    /\ stage = "seal" /\ stage' = "load"
    /\ \E c \in candidate : CopyVerified(c)
    /\ UNCHANGED <<phase, candidate, previous, notifying, snapshot, servingVars>>

Opened ==
    /\ stage = "load" /\ stage' = "validate"
    /\ \E c \in candidate : Loads(c.lib) /\ notifying' = notifying \cup {c}
    /\ UNCHANGED <<phase, candidate, previous, snapshot, servingVars>>

LEMMA UpdateCases ==
  ASSUME UpdateStep
  PROVE  \/ GivesUp \/ Copied \/ Sealed \/ Opened \/ PublishCandidate
         \/ SilenceRetired \/ NotifyCapabilityChanges \/ CollectGarbage
         \/ ShutdownClear
<1>1. ASSUME GiveUp, Preparing PROVE GivesUp
  BY <1>1 DEF GiveUp, GivesUp
<1>2. CASE StageCopy
  BY <1>1, <1>2 DEF StageCopy, AbandonTemporary, Copied, Preparing
<1>3. CASE StageSeal
  BY <1>1, <1>3 DEF StageSeal, AbandonTemporary, Sealed, Preparing
<1>4. CASE LoadCandidate
  <2>1. PICK c \in candidate :
           \/ DiscardCandidate
           \/ /\ Loads(c.lib)
              /\ stage' = "validate"
              /\ notifying' = notifying \cup {c}
              /\ UNCHANGED <<phase, candidate, previous, snapshot, servingVars>>
    BY <1>4 DEF LoadCandidate
  <2>2. CASE DiscardCandidate
    BY <1>1, <1>4, <2>2 DEF LoadCandidate, DiscardCandidate, Preparing
  <2>3. CASE ~DiscardCandidate
    BY <1>4, <2>1, <2>3 DEF LoadCandidate, Opened
  <2> QED
    BY <2>2, <2>3
<1>5. CASE RejectCandidate
  BY <1>1, <1>5 DEF RejectCandidate, DiscardCandidate, Preparing
<1> QED
  BY <1>2, <1>3, <1>4, <1>5 DEF UpdateStep

-----------------------------------------------------------------------------
(* The recorded hashes are true *)

\* A candidate past the seal has been compared with its hash.
HashesInv ==
    /\ ActiveHashesTrue
    /\ stage \in {"load", "validate"} => \A c \in candidate : c.lib = c.sha

LEMMA HashesStep ==
  ASSUME Sound, HashesInv, [Next]_vars
  PROVE  HashesInv'
<1> USE DEF HashesInv, ActiveHashesTrue
<1>1. CASE Aside
  BY <1>1 DEF Aside, servingVars
<1>2. ASSUME NEW p \in Paths, DetectChange(p)
      PROVE  HashesInv'
  BY <1>2 DEF DetectChange, servingVars
<1>3. ASSUME NEW p \in Paths, RemovePlugin(p)
      PROVE  HashesInv'
  BY <1>3 DEF RemovePlugin, Publish
<1>4. CASE InitializeDone
  BY <1>4 DEF InitializeDone, servingVars
<1>5. CASE GivesUp
  BY <1>5 DEF GivesUp, servingVars
<1>6. CASE Copied
  BY <1>6 DEF Copied, servingVars
<1>7. CASE Sealed
  BY <1>7 DEF Sealed, Sound, CandidateInv, Preparing, CopyVerified, servingVars
<1>8. CASE Opened
  BY <1>8 DEF Opened, servingVars
<1>9. CASE PublishCandidate
  BY <1>9 DEF PublishCandidate, Publish, Replacing
<1>10. CASE SilenceRetired \/ NotifyCapabilityChanges \/ CollectGarbage
  BY <1>10 DEF SilenceRetired, NotifyCapabilityChanges, CollectGarbage, servingVars
<1>11. CASE ShutdownPublish \/ ShutdownClear
  BY <1>11 DEF ShutdownPublish, ShutdownClear
<1>12. ASSUME NEW r \in Requests, TakeSnapshot(r) \/ ReleaseSnapshot(r)
       PROVE  HashesInv'
  BY <1>12 DEF TakeSnapshot, ReleaseSnapshot, servingVars
<1> QED
  BY StepCases, UpdateCases, <1>1, <1>2, <1>3, <1>4, <1>5, <1>6, <1>7, <1>8,
     <1>9, <1>10, <1>11, <1>12

\* The hash an active plugin was recorded with is that of the library it runs,
\* although the source may change between the hash and the copy.
THEOREM HashesTrue == Spec => []ActiveHashesTrue
<1>1. Init => HashesInv
  BY DEF Init, HashesInv, ActiveHashesTrue
<1>2. Sound /\ HashesInv /\ [Next]_vars => HashesInv'
  BY HashesStep
<1>3. HashesInv => ActiveHashesTrue
  BY DEF HashesInv
<1> QED
  BY <1>1, <1>2, <1>3, SoundAlways, PTL DEF Spec

-----------------------------------------------------------------------------
(* Shutdown is final *)

\* An update that was begun before Shutdown has ended before it, and none
\* begins after it.
DownInv ==
    /\ phase = "down" => stage = "idle" /\ published.plugins = {} /\ active = {}
    /\ stage = "shutdown" => published.plugins = {}

LEMMA DownStep ==
  ASSUME Sound, DownInv, [Next]_vars
  PROVE  DownInv'
<1> USE DEF DownInv
<1>1. CASE Aside
  BY <1>1 DEF Aside, servingVars
<1>2. ASSUME NEW p \in Paths, DetectChange(p)
      PROVE  DownInv'
  BY <1>2 DEF DetectChange, MayReload, servingVars
<1>3. ASSUME NEW p \in Paths, RemovePlugin(p)
      PROVE  DownInv'
  BY <1>3 DEF RemovePlugin
<1>4. CASE InitializeDone
  BY <1>4 DEF InitializeDone, servingVars
<1>5. CASE GivesUp
  BY <1>5 DEF GivesUp, Preparing, servingVars
<1>6. CASE Copied \/ Sealed \/ Opened
  BY <1>6 DEF Copied, Sealed, Opened, servingVars
<1>7. CASE PublishCandidate
  BY <1>7 DEF PublishCandidate
<1>8. CASE SilenceRetired \/ NotifyCapabilityChanges \/ CollectGarbage
  BY <1>8 DEF SilenceRetired, NotifyCapabilityChanges, CollectGarbage, servingVars
<1>9. CASE ShutdownPublish \/ ShutdownClear
  BY <1>9 DEF ShutdownPublish, ShutdownClear
<1>10. ASSUME NEW r \in Requests, TakeSnapshot(r) \/ ReleaseSnapshot(r)
       PROVE  DownInv'
  BY <1>10 DEF TakeSnapshot, ReleaseSnapshot, servingVars
<1> QED
  BY StepCases, UpdateCases, <1>1, <1>2, <1>3, <1>4, <1>5, <1>6, <1>7, <1>8,
     <1>9, <1>10

\* Once Shutdown has returned nothing is served, whatever updates raced with
\* it for update_mutex_.
THEOREM ShutdownFinal == Spec => []DownServesNothing
<1>1. Init => DownInv
  BY DEF Init, DownInv
<1>2. Sound /\ DownInv /\ [Next]_vars => DownInv'
  BY DownStep
<1>3. DownInv => DownServesNothing
  BY DEF DownInv, DownServesNothing
<1> QED
  BY <1>1, <1>2, <1>3, SoundAlways, PTL DEF Spec

-----------------------------------------------------------------------------
(* One catalog per generation *)

\* The published registry has the number the next update starts from, or,
\* within Shutdown, the next one; every other registry in use is older.
GenerationInv ==
    /\ published.generation =
          IF stage = "shutdown" THEN generation + 1 ELSE generation
    /\ OneGenerationOneCatalog

\* A registry published with a higher number than all before.
LEMMA GenerationPublish ==
  ASSUME Sound, GenerationInv, UNCHANGED snapshot,
         published'.generation = generation + 1, stage # "shutdown"
  PROVE  OneGenerationOneCatalog'
<1>1. \A reg \in Registries : reg.generation \in Nat
  BY DEF Registries, Sound, TypeOK, Registry
<1>2. \A reg \in Registries :
         reg.generation <= generation /\ reg.generation < published'.generation
  BY <1>1 DEF GenerationInv, OneGenerationOneCatalog, Sound, TypeOK
<1>3. \A reg \in Registries' : reg = published' \/ reg \in Registries
  BY DEF Registries
<1>4. ASSUME NEW reg \in Registries', NEW other \in Registries',
             reg.generation = other.generation
      PROVE  reg = other
  <2>1. CASE reg \in Registries /\ other \in Registries
    BY <1>4, <2>1 DEF GenerationInv, OneGenerationOneCatalog
  <2>2. CASE reg = published' /\ other \in Registries
    BY <1>1, <1>2, <1>4, <2>2 DEF Sound, TypeOK
  <2>3. CASE other = published' /\ reg \in Registries
    BY <1>1, <1>2, <1>4, <2>3 DEF Sound, TypeOK
  <2> QED
    BY <1>3, <2>1, <2>2, <2>3
<1>5. \A reg \in Registries' : reg.generation <= published'.generation
  BY <1>1, <1>2, <1>3 DEF Sound, TypeOK
<1> QED
  BY <1>4, <1>5 DEF OneGenerationOneCatalog

LEMMA GenerationStep ==
  ASSUME Sound, GenerationInv, [Next]_vars
  PROVE  GenerationInv'
<1>1. ASSUME UNCHANGED <<generation, published, snapshot>>,
             (stage # "shutdown" /\ stage' # "shutdown") \/ UNCHANGED stage
      PROVE  GenerationInv'
  BY <1>1 DEF GenerationInv, OneGenerationOneCatalog, Registries
<1>2. CASE Aside /\ UNCHANGED snapshot
  BY <1>1, <1>2 DEF Aside, servingVars
<1>3. ASSUME NEW p \in Paths, DetectChange(p)
      PROVE  GenerationInv'
  BY <1>1, <1>3 DEF DetectChange, MayReload, servingVars
<1>4. ASSUME NEW p \in Paths, RemovePlugin(p)
      PROVE  GenerationInv'
  <2>1. /\ stage = "idle" /\ stage' = "silence" /\ UNCHANGED snapshot
        /\ generation' = generation + 1
        /\ published'.generation = generation + 1
    BY <1>4 DEF RemovePlugin, Publish
  <2> QED
    BY <2>1, GenerationPublish DEF GenerationInv
<1>5. CASE InitializeDone
  BY <1>1, <1>5 DEF InitializeDone, servingVars
<1>6. CASE GivesUp \/ Copied \/ Sealed \/ Opened
  BY <1>1, <1>6 DEF GivesUp, Copied, Sealed, Opened, Preparing, servingVars
<1>7. CASE PublishCandidate
  <2>1. /\ stage = "validate" /\ stage' = "silence" /\ UNCHANGED snapshot
        /\ generation' = generation + 1
        /\ published'.generation = generation + 1
    BY <1>7 DEF PublishCandidate, Publish
  <2> QED
    BY <2>1, GenerationPublish DEF GenerationInv
<1>8. CASE SilenceRetired \/ NotifyCapabilityChanges \/ CollectGarbage
  BY <1>1, <1>8
  DEF SilenceRetired, NotifyCapabilityChanges, CollectGarbage, servingVars
<1>9. CASE ShutdownPublish
  <2>1. /\ stage = "idle" /\ stage' = "shutdown"
        /\ UNCHANGED <<generation, snapshot>>
        /\ published'.generation = generation + 1
    BY <1>9 DEF ShutdownPublish
  <2> QED
    BY <2>1, GenerationPublish DEF GenerationInv
<1>10. CASE ShutdownClear
  BY <1>10 DEF ShutdownClear, GenerationInv, OneGenerationOneCatalog, Registries
<1>11. ASSUME NEW r \in Requests, TakeSnapshot(r) \/ ReleaseSnapshot(r)
       PROVE  GenerationInv'
  <2>1. UNCHANGED <<stage, generation, published>>
    BY <1>11 DEF TakeSnapshot, ReleaseSnapshot, servingVars
  <2>2. Registries' \subseteq Registries
    BY <1>11, <2>1
    DEF TakeSnapshot, ReleaseSnapshot, Registries, Sound, TypeOK
  <2> QED
    BY <2>1, <2>2 DEF GenerationInv, OneGenerationOneCatalog
<1> QED
  BY StepCases, UpdateCases, <1>2, <1>3, <1>4, <1>5, <1>6, <1>7, <1>8, <1>9,
     <1>10, <1>11

\* Two requests that see the same generation number see the same plugins, and
\* none sees a number that has not been published.
THEOREM GenerationsTrue == Spec => []OneGenerationOneCatalog
<1>1. Init => GenerationInv
  BY DEF Init, GenerationInv, OneGenerationOneCatalog, Registries
<1>2. Sound /\ GenerationInv /\ [Next]_vars => GenerationInv'
  BY GenerationStep
<1>3. GenerationInv => OneGenerationOneCatalog
  BY DEF GenerationInv
<1> QED
  BY <1>1, <1>2, <1>3, SoundAlways, PTL DEF Spec

-----------------------------------------------------------------------------
(* What was replaced falls silent *)

\* Besides the active plugins only the candidate that is being validated, or
\* the plugin just retired, can notify.
SilenceInv ==
    \A ref \in notifying :
        \/ ref \in active
        \/ stage = "silence" /\ ref \in previous
        \/ stage = "validate" /\ ref \in candidate

LEMMA SilenceStep ==
  ASSUME Sound, SilenceInv, [Next]_vars
  PROVE  SilenceInv'
<1> USE DEF SilenceInv
<1>1. CASE Aside
  BY <1>1 DEF Aside, servingVars
<1>2. ASSUME NEW p \in Paths, DetectChange(p)
      PROVE  SilenceInv'
  BY <1>2 DEF DetectChange, MayReload, servingVars
<1>3. ASSUME NEW p \in Paths, RemovePlugin(p)
      PROVE  SilenceInv'
  BY <1>3 DEF RemovePlugin, Publish
<1>4. CASE InitializeDone
  BY <1>4 DEF InitializeDone, servingVars
<1>5. CASE GivesUp
  BY <1>5 DEF GivesUp, Preparing, servingVars
<1>6. CASE Copied \/ Sealed
  BY <1>6 DEF Copied, Sealed, servingVars
<1>7. CASE Opened
  BY <1>7 DEF Opened, servingVars
<1>8. CASE PublishCandidate
  <2>1. PICK c \in candidate : Publish(Replacing(active, c))
    BY <1>8 DEF PublishCandidate
  <2>2. candidate = {c}
    BY <1>8, <2>1 DEF PublishCandidate, Sound, CandidateInv, Preparing
  <2>3. c \in active' /\ previous' = active
    BY <2>1 DEF Publish, Replacing
  <2> QED
    BY <1>8, <2>2, <2>3 DEF PublishCandidate
<1>9. CASE SilenceRetired
  BY <1>9 DEF SilenceRetired, Retired, servingVars
<1>10. CASE NotifyCapabilityChanges \/ CollectGarbage
  BY <1>10 DEF NotifyCapabilityChanges, CollectGarbage, servingVars
<1>11. CASE ShutdownPublish \/ ShutdownClear
  BY <1>11 DEF ShutdownPublish, ShutdownClear
<1>12. ASSUME NEW r \in Requests, TakeSnapshot(r) \/ ReleaseSnapshot(r)
       PROVE  SilenceInv'
  BY <1>12 DEF TakeSnapshot, ReleaseSnapshot, servingVars
<1> QED
  BY StepCases, UpdateCases, <1>1, <1>2, <1>3, <1>4, <1>5, <1>6, <1>7, <1>8,
     <1>9, <1>10, <1>11, <1>12

\* When no update is under way only active plugins can notify the client,
\* however long requests keep the others alive.
THEOREM RetiredSilent == Spec => []RetiredSilenced
<1>1. Init => SilenceInv
  BY DEF Init, SilenceInv
<1>2. Sound /\ SilenceInv /\ [Next]_vars => SilenceInv'
  BY SilenceStep
<1>3. SilenceInv => RetiredSilenced
  BY DEF SilenceInv, RetiredSilenced
<1> QED
  BY <1>1, <1>2, <1>3, SoundAlways, PTL DEF Spec

-----------------------------------------------------------------------------
(* Registries are coherent *)

\* A part of a coherent set is coherent.
LEMMA CoherentPart ==
  ASSUME NEW S, Coherent(S), NEW T \in SUBSET S
  PROVE  Coherent(T)
BY DEF Coherent, Builds

\* ReloadLocked checks enough: if the active plugins are coherent and it
\* accepts a library that loads, then so are the plugins it publishes.
LEMMA CoherentReplacing ==
  ASSUME NEW S, Coherent(S), NEW c, Loads(c.lib), Accepts(S, c)
  PROVE  Coherent(Replacing(S, c))
BY DEF Coherent, Accepts, Replacing

CoherenceInv ==
    /\ Coherent(active)
    /\ RegistriesCoherent
    /\ stage = "validate" => \A c \in candidate : Loads(c.lib)

\* A coherent registry takes the place of the published one.
LEMMA CoherencePublish ==
  ASSUME RegistriesCoherent, Coherent(published'.plugins), UNCHANGED snapshot
  PROVE  RegistriesCoherent'
BY DEF RegistriesCoherent, Registries

LEMMA CoherenceStep ==
  ASSUME Sound, CoherenceInv, [Next]_vars
  PROVE  CoherenceInv'
<1>1. ASSUME UNCHANGED <<active, published, snapshot>>,
             stage' = "validate" => UNCHANGED <<stage, candidate>>
      PROVE  CoherenceInv'
  BY <1>1 DEF CoherenceInv, RegistriesCoherent, Registries
<1>2. CASE Aside /\ UNCHANGED snapshot
  BY <1>1, <1>2 DEF Aside, servingVars
<1>3. ASSUME NEW p \in Paths, DetectChange(p)
      PROVE  CoherenceInv'
  BY <1>1, <1>3 DEF DetectChange, servingVars
<1>4. ASSUME NEW p \in Paths, RemovePlugin(p)
      PROVE  CoherenceInv'
  <2>1. PICK r \in active : Publish(active \ {r})
    BY <1>4 DEF RemovePlugin
  <2>2. Coherent(active \ {r})
    BY CoherentPart DEF CoherenceInv
  <2>3. /\ active' = active \ {r} /\ published'.plugins = active \ {r}
        /\ stage' = "silence" /\ UNCHANGED snapshot
    BY <1>4, <2>1 DEF RemovePlugin, Publish
  <2> QED
    BY <2>2, <2>3, CoherencePublish DEF CoherenceInv
<1>5. CASE InitializeDone
  BY <1>1, <1>5 DEF InitializeDone, servingVars
<1>6. CASE GivesUp \/ Copied \/ Sealed
  BY <1>1, <1>6 DEF GivesUp, Copied, Sealed, servingVars
<1>7. CASE Opened
  <2>1. \A c \in candidate : Loads(c.lib)
    BY <1>7 DEF Opened, Sound, CandidateInv, Preparing
  <2> QED
    BY <1>7, <2>1
    DEF Opened, CoherenceInv, RegistriesCoherent, Registries, servingVars
<1>8. CASE PublishCandidate
  <2>1. PICK c \in candidate :
           Accepts(active, c) /\ Publish(Replacing(active, c))
    BY <1>8 DEF PublishCandidate
  <2>2. Coherent(Replacing(active, c))
    BY <1>8, <2>1, CoherentReplacing DEF PublishCandidate, CoherenceInv
  <2>3. /\ active' = Replacing(active, c)
        /\ published'.plugins = Replacing(active, c)
        /\ stage' = "silence" /\ UNCHANGED snapshot
    BY <1>8, <2>1 DEF PublishCandidate, Publish
  <2> QED
    BY <2>2, <2>3, CoherencePublish DEF CoherenceInv
<1>9. CASE SilenceRetired \/ NotifyCapabilityChanges \/ CollectGarbage
  BY <1>1, <1>9
  DEF SilenceRetired, NotifyCapabilityChanges, CollectGarbage, servingVars
<1>10. CASE ShutdownPublish
  <2>1. Coherent({})
    BY CoherentPart DEF CoherenceInv
  <2>2. /\ published'.plugins = {} /\ UNCHANGED <<active, snapshot>>
        /\ stage' = "shutdown"
    BY <1>10 DEF ShutdownPublish
  <2> QED
    BY <2>1, <2>2, CoherencePublish DEF CoherenceInv
<1>11. CASE ShutdownClear
  <2>1. Coherent({})
    BY CoherentPart DEF CoherenceInv
  <2>2. /\ active' = {} /\ UNCHANGED <<published, snapshot>> /\ stage' = "idle"
    BY <1>11 DEF ShutdownClear
  <2> QED
    BY <2>1, <2>2 DEF CoherenceInv, RegistriesCoherent, Registries
<1>12. ASSUME NEW r \in Requests, TakeSnapshot(r) \/ ReleaseSnapshot(r)
       PROVE  CoherenceInv'
  <2>1. UNCHANGED <<stage, candidate, active, published>>
    BY <1>12 DEF TakeSnapshot, ReleaseSnapshot, servingVars
  <2>2. Registries' \subseteq Registries
    BY <1>12, <2>1
    DEF TakeSnapshot, ReleaseSnapshot, Registries, Sound, TypeOK
  <2> QED
    BY <2>1, <2>2 DEF CoherenceInv, RegistriesCoherent
<1> QED
  BY StepCases, UpdateCases, <1>2, <1>3, <1>4, <1>5, <1>6, <1>7, <1>8, <1>9,
     <1>10, <1>11, <1>12

LEMMA CoherenceInit == Init => CoherenceInv
BY DEF Init, CoherenceInv, RegistriesCoherent, Registries, Coherent, Builds

\* No registry that is or was published, and no request, ever has two plugins
\* of a path or a name, or a tool, prompt or resource twice.
THEOREM RegistriesSound == Spec => []RegistriesCoherent
<1>1. Init => CoherenceInv
  BY CoherenceInit
<1>2. Sound /\ CoherenceInv /\ [Next]_vars => CoherenceInv'
  BY CoherenceStep
<1>3. CoherenceInv => RegistriesCoherent
  BY DEF CoherenceInv
<1> QED
  BY <1>1, <1>2, <1>3, SoundAlways, PTL DEF Spec

-----------------------------------------------------------------------------
(* The runtime implements what its readers are promised *)

\* Outside Shutdown what is published is what is active, and a candidate in
\* preparation differs from the active plugin of its path.
ServingInv ==
    /\ published.plugins = IF stage = "shutdown" THEN {} ELSE active
    /\ Preparing =>
          \A c \in candidate, r \in active : r.path = c.path => r.sha # c.sha

LEMMA ServingStep ==
  ASSUME Sound, ServingInv, [Next]_vars
  PROVE  ServingInv'
<1> USE DEF ServingInv, Preparing
<1>1. CASE Aside
  BY <1>1 DEF Aside, servingVars
<1>2. ASSUME NEW p \in Paths, DetectChange(p)
      PROVE  ServingInv'
  BY <1>2 DEF DetectChange, MayReload, SourceChanged, servingVars
<1>3. ASSUME NEW p \in Paths, RemovePlugin(p)
      PROVE  ServingInv'
  BY <1>3 DEF RemovePlugin, Publish
<1>4. CASE InitializeDone
  BY <1>4 DEF InitializeDone, servingVars
<1>5. CASE GivesUp
  BY <1>5 DEF GivesUp, servingVars
<1>6. CASE Copied
  <2>1. PICK c \in candidate : candidate' = {[c EXCEPT !.lib = disk[c.path]]}
    BY <1>6 DEF Copied
  <2>2. c \in Ref
    BY DEF Sound, TypeOK
  <2>3. \A d \in candidate' : d.path = c.path /\ d.sha = c.sha
    BY <2>1, <2>2 DEF Ref
  <2> QED
    BY <1>6, <2>3 DEF Copied, servingVars
<1>7. CASE Sealed \/ Opened
  BY <1>7 DEF Sealed, Opened, servingVars
<1>8. CASE PublishCandidate
  BY <1>8 DEF PublishCandidate, Publish
<1>9. CASE SilenceRetired \/ NotifyCapabilityChanges \/ CollectGarbage
  BY <1>9
  DEF SilenceRetired, NotifyCapabilityChanges, CollectGarbage, servingVars
<1>10. CASE ShutdownPublish
  BY <1>10 DEF ShutdownPublish
<1>11. CASE ShutdownClear
  BY <1>11 DEF ShutdownClear
<1>12. ASSUME NEW r \in Requests, TakeSnapshot(r) \/ ReleaseSnapshot(r)
       PROVE  ServingInv'
  BY <1>12 DEF TakeSnapshot, ReleaseSnapshot, servingVars
<1> QED
  BY StepCases, UpdateCases, <1>1, <1>2, <1>3, <1>4, <1>5, <1>6, <1>7, <1>8,
     <1>9, <1>10, <1>11, <1>12

\* What the abstract specification sees of a set of plugins.
Seen(S) == {[path |-> r.path, lib |-> r.lib] : r \in S}

\* The abstract specification has the rules of PluginCatalog too.
LEMMA SameRules ==
  /\ \A lib : HR!Loads(lib) <=> Loads(lib)
  /\ \A S, d : HR!Replacing(S, d) = Replacing(S, d)
  /\ \A S, d : HR!Accepts(S, d) <=> Accepts(S, d)
<1>1. \A S : HR!Builds(S) <=> Builds(S)
  BY DEF HR!Builds, Builds
<1>2. \A lib : HR!NameOf(lib) = NameOf(lib)
  BY DEF HR!NameOf, NameOf
<1>3. \A S, d : HR!Replacing(S, d) = Replacing(S, d)
  BY DEF HR!Replacing, Replacing
<1>4. \A lib : HR!Loads(lib) <=> Loads(lib)
  BY DEF HR!Loads, Loads
<1> QED
  BY <1>1, <1>2, <1>3, <1>4 DEF HR!Accepts, Accepts

\* Replacing and accepting a plugin look at its path and its library only.
LEMMA SeenReplacing ==
  ASSUME NEW S \in SUBSET Ref, NEW c \in Ref,
         NEW d, d = [path |-> c.path, lib |-> c.lib]
  PROVE  /\ Seen(Replacing(S, c)) = Replacing(Seen(S), d)
         /\ Accepts(S, c) => Accepts(Seen(S), d)
<1>1. Seen(Replacing(S, c)) = Replacing(Seen(S), d)
  BY DEF Seen, Replacing
<1>2. \A T : Builds(T) => Builds(Seen(T))
  BY DEF Builds, Seen
<1>3. ASSUME Accepts(S, c)
      PROVE  Accepts(Seen(S), d)
  <2>1. Builds(Replacing(Seen(S), d))
    BY <1>1, <1>2, <1>3 DEF Accepts
  <2>2. \A r \in Seen(S) : r.path = d.path <=> NameOf(r.lib) = NameOf(d.lib)
    BY <1>3 DEF Accepts, Seen
  <2> QED
    BY <2>1, <2>2 DEF Accepts
<1> QED
  BY <1>1, <1>3

\* In a coherent set a plugin is known by its path.
LEMMA SeenWithout ==
  ASSUME NEW S \in SUBSET Ref, Coherent(S), NEW r \in S,
         NEW d, d = [path |-> r.path, lib |-> r.lib]
  PROVE  /\ Seen(S \ {r}) = Seen(S) \ {d}
         /\ d \in Seen(S)
<1>1. \A q \in S : [path |-> q.path, lib |-> q.lib] = d => q = r
  BY DEF Coherent
<1> QED
  BY <1>1 DEF Seen

RefinementInv ==
    Sound /\ HashesInv /\ CoherenceInv /\ GenerationInv /\ ServingInv

Catalog == Serving(published)
View == [r \in Requests |-> {Serving(reg) : reg \in snapshot[r]}]

\* Every step of the runtime is a step of the catalog or changes nothing a
\* reader can see.
LEMMA RefinementStep ==
  ASSUME RefinementInv, [Next]_vars
  PROVE  [HR!Next]_(HR!abstractVars)
<1> DEFINE Goal == [HR!Next]_(HR!abstractVars)
<1>1. ASSUME UNCHANGED <<published, snapshot>> PROVE Goal
  BY <1>1 DEF HR!abstractVars, Serving
<1>2. Catalog = [generation |-> published.generation,
                 plugins |-> Seen(published.plugins)]
  BY DEF Catalog, Serving, Seen
<1>3. published \in Registry /\ active \subseteq Ref /\ candidate \subseteq Ref
  BY DEF RefinementInv, Sound, TypeOK
<1>4. ASSUME UNCHANGED snapshot, NEW S,
             published' = [generation |-> generation + 1, plugins |-> S],
             stage # "shutdown"
      PROVE  HR!Advance(Seen(S))
  <2>1. Catalog' = [generation |-> Catalog.generation + 1, plugins |-> Seen(S)]
    BY <1>2, <1>4 DEF Catalog, Serving, Seen, RefinementInv, GenerationInv
  <2> QED
    BY <1>4, <2>1 DEF HR!Advance, Catalog
<1>5. ASSUME NEW p \in Paths, RemovePlugin(p) PROVE Goal
  <2>1. PICK r \in active : Publish(active \ {r})
    BY <1>5 DEF RemovePlugin
  <2>2. stage = "idle" /\ UNCHANGED snapshot
    BY <1>5 DEF RemovePlugin
  <2> DEFINE d == [path |-> r.path, lib |-> r.lib]
  <2>3. Seen(active \ {r}) = Seen(active) \ {d} /\ d \in Seen(active)
    BY <1>3, SeenWithout DEF RefinementInv, CoherenceInv
  <2>4. Catalog.plugins = Seen(active)
    BY <1>2, <2>2 DEF RefinementInv, ServingInv
  <2>5. HR!Advance(Seen(active \ {r}))
    BY <1>4, <2>1, <2>2 DEF Publish
  <2>6. HR!Withdraw(d)
    BY <2>3, <2>4, <2>5 DEF HR!Withdraw, Catalog
  <2>7. d \in HR!Deployed
    BY <1>3 DEF HR!Deployed, Ref
  <2> QED
    BY <2>6, <2>7 DEF HR!Next
<1>6. CASE PublishCandidate
  <2>1. PICK c \in candidate :
           Accepts(active, c) /\ Publish(Replacing(active, c))
    BY <1>6 DEF PublishCandidate
  <2>2. stage = "validate" /\ UNCHANGED snapshot
    BY <1>6 DEF PublishCandidate
  <2> DEFINE d == [path |-> c.path, lib |-> c.lib]
  <2>3. /\ Seen(Replacing(active, c)) = Replacing(Seen(active), d)
        /\ Accepts(Seen(active), d)
    BY <1>3, <2>1, SeenReplacing
  <2>4. Catalog.plugins = Seen(active)
    BY <1>2, <2>2 DEF RefinementInv, ServingInv
  <2>5. HR!Advance(Replacing(Seen(active), d))
    BY <1>4, <2>1, <2>2, <2>3 DEF Publish
  <2>6. d \notin Seen(active)
    <3>1. c.lib = c.sha /\ \A r \in active : r.lib = r.sha
      BY <2>2 DEF RefinementInv, HashesInv, ActiveHashesTrue
    <3>2. \A r \in active : r.path = c.path => r.sha # c.sha
      BY <2>2 DEF RefinementInv, ServingInv, Preparing
    <3> QED
      BY <3>1, <3>2 DEF Seen
  <2>7. Loads(d.lib)
    BY <2>2 DEF RefinementInv, CoherenceInv
  <2>8. HR!Deploy(d)
    BY <2>3, <2>4, <2>5, <2>6, <2>7, SameRules DEF HR!Deploy, Catalog
  <2>9. d \in HR!Deployed
    BY <1>3 DEF HR!Deployed, Ref
  <2> QED
    BY <2>8, <2>9 DEF HR!Next
<1>7. CASE ShutdownPublish
  <2>1. HR!Advance(Seen({}))
    BY <1>4, <1>7 DEF ShutdownPublish
  <2>2. Seen({}) = {}
    BY DEF Seen
  <2> QED
    BY <2>1, <2>2 DEF HR!Next, HR!Close
<1>8. ASSUME NEW r \in Requests, TakeSnapshot(r) PROVE Goal
  <2>1. UNCHANGED Catalog /\ View[r] = {}
    BY <1>8 DEF TakeSnapshot, servingVars, Catalog, Serving, View
  <2>2. View' = [View EXCEPT ![r] = {Catalog}]
    BY <1>8 DEF TakeSnapshot, View, Catalog, RefinementInv, Sound, TypeOK
  <2>3. HR!Open(r)
    BY <2>1, <2>2 DEF HR!Open, Catalog, View
  <2> QED
    BY <2>3 DEF HR!Next
<1>9. ASSUME NEW r \in Requests, ReleaseSnapshot(r) PROVE Goal
  <2>1. UNCHANGED Catalog /\ View[r] # {}
    BY <1>9 DEF ReleaseSnapshot, servingVars, Catalog, Serving, View
  <2>2. View' = [View EXCEPT ![r] = {}]
    BY <1>9 DEF ReleaseSnapshot, View, RefinementInv, Sound, TypeOK
  <2>3. HR!Finish(r)
    BY <2>1, <2>2 DEF HR!Finish, Catalog, View
  <2> QED
    BY <2>3 DEF HR!Next
<1>10. ASSUME NEW p \in Paths, DetectChange(p) PROVE Goal
  BY <1>1, <1>10 DEF DetectChange, servingVars
<1>11. CASE InitializeDone
  BY <1>1, <1>11 DEF InitializeDone, servingVars
<1>12. CASE GivesUp \/ Copied \/ Sealed \/ Opened
  BY <1>1, <1>12 DEF GivesUp, Copied, Sealed, Opened, servingVars
<1>13. CASE SilenceRetired \/ NotifyCapabilityChanges \/ CollectGarbage
  BY <1>1, <1>13
  DEF SilenceRetired, NotifyCapabilityChanges, CollectGarbage, servingVars
<1>14. CASE ShutdownClear
  BY <1>1, <1>14 DEF ShutdownClear
<1>15. CASE Aside /\ UNCHANGED snapshot
  BY <1>1, <1>15 DEF Aside, servingVars
<1> QED
  BY StepCases, UpdateCases, <1>5, <1>6, <1>7, <1>8, <1>9, <1>10, <1>11,
     <1>12, <1>13, <1>14, <1>15

\* The runtime implements the catalog its readers are promised: complete
\* generations in order, one plugin changed at a time by the rules of the
\* catalog, requests that stay on the generation they began with, and failed
\* candidates without effect.
THEOREM Implements == Spec => ImplementsHotRegistry
<1>1. Init => HashesInv /\ GenerationInv /\ ServingInv
  BY DEF Init, HashesInv, ActiveHashesTrue, GenerationInv,
         OneGenerationOneCatalog, Registries, ServingInv, Preparing
<1>2. Init => CoherenceInv
  BY CoherenceInit
<1>3. Sound /\ HashesInv /\ CoherenceInv /\ GenerationInv /\ ServingInv
        /\ [Next]_vars
        => HashesInv' /\ CoherenceInv' /\ GenerationInv' /\ ServingInv'
  BY HashesStep, CoherenceStep, GenerationStep, ServingStep
<1>4. Sound /\ HashesInv /\ CoherenceInv /\ GenerationInv /\ ServingInv
        /\ [Next]_vars
        => [HR!Next]_(HR!abstractVars)
  BY RefinementStep DEF RefinementInv
<1>5. Init => HR!Init
  BY DEF Init, HR!Init, Serving
<1> QED
  BY <1>1, <1>2, <1>3, <1>4, <1>5, SoundAlways, PTL
  DEF Spec, ImplementsHotRegistry, HR!Spec

-----------------------------------------------------------------------------
(* The client is told what changes *)

\* Between a publication and its notices a client may still have the list of
\* the plugins that were replaced.
ListingInv ==
    phase # "down" /\ stage # "shutdown" =>
        \A kind \in Kinds :
            \/ kind \in notices
            \/ listing[kind] = Capability(published.plugins, kind)
            \/ /\ stage \in {"silence", "notify"}
               /\ listing[kind] = Capability(previous, kind)

LEMMA ListingStep ==
  ASSUME Sound, ServingInv, DownInv, ListingInv, [Next]_vars
  PROVE  ListingInv'
<1>1. ASSUME UNCHANGED <<notices, listing, published>>,
             UNCHANGED <<stage, previous>>
               \/ (stage \notin {"silence", "notify", "shutdown"}
                     /\ stage' # "shutdown"),
             phase' # "down" => phase # "down"
      PROVE  ListingInv'
  BY <1>1 DEF ListingInv
<1>2. ASSUME NEW p \in Paths, NEW c \in Contents,
             DiskWrite(p, c) \/ DiskDelete(p) \/ SkipPath(p)
      PROVE  ListingInv'
  BY <1>1, <1>2 DEF DiskWrite, DiskDelete, SkipPath, servingVars, clientVars
<1>3. ASSUME NEW p \in Paths, DiskDelete(p) \/ SkipPath(p) \/ DetectChange(p)
      PROVE  ListingInv'
  BY <1>1, <1>3
  DEF DiskDelete, SkipPath, DetectChange, MayReload, servingVars, clientVars
<1>4. CASE InitializeDone
  BY <1>1, <1>4 DEF InitializeDone, servingVars, clientVars
<1>5. CASE StageCopy \/ StageSeal \/ LoadCandidate \/ RejectCandidate
  BY <1>1, <1>5
  DEF StageCopy, StageSeal, LoadCandidate, RejectCandidate, AbandonTemporary,
      DiscardCandidate, GiveUp, servingVars, clientVars
<1>6. ASSUME stage \in {"idle", "validate"}, stage' = "silence",
             previous' = active, UNCHANGED <<phase, notices, listing>>
      PROVE  ListingInv'
  BY <1>6 DEF ListingInv, ServingInv
<1>7. ASSUME NEW p \in Paths, RemovePlugin(p)
      PROVE  ListingInv'
  BY <1>6, <1>7 DEF RemovePlugin, Publish, clientVars
<1>8. CASE PublishCandidate
  BY <1>6, <1>8 DEF PublishCandidate, Publish, clientVars
<1>9. CASE SilenceRetired
  BY <1>9 DEF SilenceRetired, ListingInv, servingVars, clientVars
<1>10. CASE NotifyCapabilityChanges
  BY <1>10 DEF NotifyCapabilityChanges, ListingInv, ChangedKinds, servingVars
<1>11. CASE CollectGarbage
  BY <1>11 DEF CollectGarbage, ListingInv, servingVars, clientVars
<1>12. CASE ShutdownPublish \/ ShutdownClear
  BY <1>12 DEF ShutdownPublish, ShutdownClear, ListingInv
<1>13. ASSUME NEW r \in Requests, TakeSnapshot(r) \/ ReleaseSnapshot(r)
       PROVE  ListingInv'
  BY <1>1, <1>13 DEF TakeSnapshot, ReleaseSnapshot, servingVars, clientVars
<1>14. ASSUME NEW kind \in Kinds, ListCapability(kind)
       PROVE  ListingInv'
  BY <1>14 DEF ListCapability, ListingInv, Sound, TypeOK, servingVars
<1>15. CASE UNCHANGED vars
  BY <1>1, <1>15 DEF vars
<1> QED
  BY <1>2, <1>3, <1>4, <1>5, <1>7, <1>8, <1>9, <1>10, <1>11, <1>12, <1>13,
     <1>14, <1>15
  DEF Next, Deployer, Updater, UpdateStep, Readers

\* When no update is under way, a client that lists again after every
\* list_changed has the current lists or a list_changed still to act on.
THEOREM ClientTold == Spec => []ClientUpToDate
<1>1. Init => ServingInv /\ DownInv /\ ListingInv
  BY DEF Init, ServingInv, Preparing, DownInv, ListingInv
<1>2. Sound /\ ServingInv /\ DownInv /\ ListingInv /\ [Next]_vars
        => ServingInv' /\ DownInv' /\ ListingInv'
  BY ServingStep, DownStep, ListingStep
<1>3. ListingInv => ClientUpToDate
  BY DEF ListingInv, ClientUpToDate
<1> QED
  BY <1>1, <1>2, <1>3, SoundAlways, PTL DEF Spec

-----------------------------------------------------------------------------
(* Every staging directory is accounted for *)

\* A candidate has a directory from the seal until it enters the history.
Unrecorded ==
    IF stage \in {"load", "validate", "silence"} THEN candidate ELSE {}

TrackedInv ==
    /\ \A ref \in history \cup candidate : ref.id <= sequence
    /\ Preparing => \A ref \in history : ref.id < sequence
    /\ ~RemovalMayFail => staged = history \cup Unrecorded

\* Giving up a candidate whose directory, if it has one, is removed.
LEMMA TrackedGiveUp ==
  ASSUME Sound, TrackedInv, Preparing, GiveUp,
         ~RemovalMayFail =>
            staged' = staged \ (IF Unrecorded = {} THEN {} ELSE candidate)
  PROVE  TrackedInv'
<1>1. PICK c \in Ref : candidate = {c} /\ c.id = sequence
  BY DEF Sound, CandidateInv
<1>2. c \notin history
  BY <1>1 DEF TrackedInv, Sound, TypeOK, Ref
<1>3. /\ stage' = "idle" /\ candidate' = {}
      /\ UNCHANGED <<sequence, history>>
  BY DEF GiveUp
<1> QED
  BY <1>1, <1>2, <1>3 DEF TrackedInv, Unrecorded, Preparing

LEMMA TrackedStep ==
  ASSUME Sound, TrackedInv, [Next]_vars
  PROVE  TrackedInv'
<1>1. ASSUME UNCHANGED <<stage, candidate, sequence, staged, history>>
      PROVE  TrackedInv'
  BY <1>1 DEF TrackedInv, Unrecorded, Preparing
<1>2. ASSUME NEW p \in Paths, NEW c \in Contents,
             DiskWrite(p, c) \/ DiskDelete(p) \/ SkipPath(p)
      PROVE  TrackedInv'
  BY <1>1, <1>2 DEF DiskWrite, DiskDelete, SkipPath, stagingVars
<1>3. ASSUME NEW p \in Paths, DiskDelete(p) \/ SkipPath(p)
      PROVE  TrackedInv'
  BY <1>1, <1>3 DEF DiskDelete, SkipPath, stagingVars
<1>4. ASSUME NEW p \in Paths, DetectChange(p)
      PROVE  TrackedInv'
  <2>1. /\ stage = "idle" /\ stage' = "copy" /\ sequence' = sequence + 1
        /\ UNCHANGED <<staged, history>>
        /\ \A c \in candidate' : c.id = sequence + 1
    BY <1>4 DEF DetectChange, MayReload
  <2>2. history \subseteq Ref /\ sequence \in Nat
    BY DEF Sound, TypeOK
  <2> QED
    BY <2>1, <2>2 DEF TrackedInv, Unrecorded, Preparing, Ref
<1>5. CASE InitializeDone
  BY <1>1, <1>5 DEF InitializeDone, stagingVars
<1>6. ASSUME stage \in {"copy", "seal"}, GiveUp, UNCHANGED staged
      PROVE  TrackedInv'
  BY <1>6, TrackedGiveUp DEF Unrecorded, Preparing
<1>7. CASE StageCopy
  <2>1. CASE AbandonTemporary
    BY <1>6, <1>7, <2>1 DEF StageCopy, AbandonTemporary
  <2>2. CASE ~AbandonTemporary
    <3>1. PICK c \in candidate : candidate' = {[c EXCEPT !.lib = disk[c.path]]}
      BY <1>7, <2>2 DEF StageCopy
    <3>2. c \in Ref
      BY DEF Sound, TypeOK
    <3>3. \A d \in candidate' : d.id = c.id
      BY <3>1, <3>2 DEF Ref
    <3> QED
      BY <1>7, <2>2, <3>3
      DEF StageCopy, stagingVars, TrackedInv, Unrecorded, Preparing
  <2> QED
    BY <2>1, <2>2
<1>8. CASE StageSeal
  <2>1. PICK c \in candidate :
           \/ GiveUp /\ UNCHANGED staged
           \/ /\ staged' = staged \cup {c}
              /\ stage' = "load"
              /\ UNCHANGED <<candidate, sequence, history>>
    BY <1>8 DEF StageSeal, AbandonTemporary
  <2>2. CASE GiveUp /\ UNCHANGED staged
    BY <1>6, <1>8, <2>2 DEF StageSeal
  <2>3. CASE /\ staged' = staged \cup {c}
             /\ stage' = "load"
             /\ UNCHANGED <<candidate, sequence, history>>
    <3>1. candidate = {c}
      BY <1>8 DEF Sound, CandidateInv, StageSeal, Preparing
    <3> QED
      BY <1>8, <2>3, <3>1 DEF StageSeal, TrackedInv, Unrecorded, Preparing
  <2> QED
    BY <2>1, <2>2, <2>3
<1>9. ASSUME stage \in {"load", "validate"}, DiscardCandidate
      PROVE  TrackedInv'
  <2>1. ~RemovalMayFail => staged' = staged \ candidate
    BY <1>9 DEF DiscardCandidate, RemoveDirectories
  <2>2. Unrecorded = candidate
    BY <1>9 DEF Unrecorded
  <2> QED
    BY <1>9, <2>1, <2>2, TrackedGiveUp DEF DiscardCandidate, Preparing
<1>10. CASE LoadCandidate
  <2>1. CASE DiscardCandidate
    BY <1>9, <1>10, <2>1 DEF LoadCandidate
  <2>2. CASE ~DiscardCandidate
    BY <1>10, <2>2
    DEF LoadCandidate, stagingVars, TrackedInv, Unrecorded, Preparing
  <2> QED
    BY <2>1, <2>2
<1>11. CASE RejectCandidate
  BY <1>9, <1>11 DEF RejectCandidate
<1>12. CASE PublishCandidate
  BY <1>12 DEF PublishCandidate, stagingVars, TrackedInv, Unrecorded, Preparing
<1>13. ASSUME NEW p \in Paths, RemovePlugin(p)
       PROVE  TrackedInv'
  BY <1>13
  DEF RemovePlugin, stagingVars, TrackedInv, Unrecorded, Preparing,
      Sound, CandidateInv
<1>14. CASE SilenceRetired
  BY <1>14 DEF SilenceRetired, TrackedInv, Unrecorded, Preparing
<1>15. CASE NotifyCapabilityChanges
  BY <1>15
  DEF NotifyCapabilityChanges, stagingVars, TrackedInv, Unrecorded, Preparing
<1>16. CASE CollectGarbage
  <2>1. PICK failed \in SUBSET Collectable :
           /\ failed # {} => RemovalMayFail
           /\ history' = history \ (Collectable \ failed)
           /\ staged' = staged \ (Collectable \ failed)
    BY <1>16 DEF CollectGarbage, DeleteCollectable
  <2>2. /\ stage = "collect" /\ stage' = "idle" /\ candidate' = {}
        /\ UNCHANGED sequence
    BY <1>16 DEF CollectGarbage
  <2> QED
    BY <2>1, <2>2 DEF TrackedInv, Unrecorded, Preparing
<1>17. CASE ShutdownPublish \/ ShutdownClear
  BY <1>17
  DEF ShutdownPublish, ShutdownClear, stagingVars, TrackedInv, Unrecorded,
      Preparing
<1>18. ASSUME NEW r \in Requests, TakeSnapshot(r) \/ ReleaseSnapshot(r)
       PROVE  TrackedInv'
  BY <1>1, <1>18 DEF TakeSnapshot, ReleaseSnapshot, stagingVars
<1>19. ASSUME NEW kind \in Kinds, ListCapability(kind)
       PROVE  TrackedInv'
  BY <1>1, <1>19 DEF ListCapability, stagingVars
<1>20. CASE UNCHANGED vars
  BY <1>1, <1>20 DEF vars
<1> QED
  BY <1>2, <1>3, <1>4, <1>5, <1>7, <1>8, <1>10, <1>11, <1>12, <1>13, <1>14,
     <1>15, <1>16, <1>17, <1>18, <1>19, <1>20
  DEF Next, Deployer, Updater, UpdateStep, Readers

\* When removals work, a final staging directory exists, between updates, just
\* for the generations in the history: none is forgotten and none is lost.
THEOREM DirectoriesTracked == Spec => []StagedTracked
<1>1. Init => TrackedInv
  BY DEF Init, TrackedInv, Unrecorded, Preparing
<1>2. Sound /\ TrackedInv /\ [Next]_vars => TrackedInv'
  BY TrackedStep
<1>3. TrackedInv => StagedTracked
  BY DEF TrackedInv, Unrecorded, StagedTracked
<1> QED
  BY <1>1, <1>2, <1>3, SoundAlways, PTL DEF Spec

-----------------------------------------------------------------------------
(* Counting *)

\* Of the elements of a finite set that carry different numbers, at most n
\* have fewer than n elements above them.
LEMMA FewAbove ==
  ASSUME NEW S, IsFiniteSet(S), NEW number \in [S -> Nat],
         \A x, y \in S : number[x] = number[y] => x = y,
         NEW n \in Nat,
         NEW Top, Top = {x \in S :
                           Cardinality({y \in S : number[y] > number[x]}) < n}
  PROVE  IsFiniteSet(Top) /\ Cardinality(Top) <= n
<1>1. IsFiniteSet(Top) /\ Cardinality(Top) \in Nat
  <2>1. Top \in SUBSET S
    OBVIOUS
  <2> QED
    BY <2>1, FS_Subset, FS_CardinalityType
<1>2. CASE Top = {}
  <2>1. Cardinality(Top) = 0
    BY <1>2, FS_EmptySet
  <2> QED
    BY <1>1, <2>1
<1>3. CASE Top # {}
  <2> DEFINE Under(x) == {y \in Top : number[y] < number[x]}
             Unders == {Under(x) : x \in Top}
  <2>1. Unders \subseteq FiniteSubsetsOf(Top) /\ Unders # {}
    <3>1. \A x \in Top : Under(x) \in SUBSET Top /\ IsFiniteSet(Under(x))
      BY <1>1, FS_Subset
    <3> HIDE DEF Under
    <3>2. PICK t \in Top : TRUE
      BY <1>3
    <3>3. Under(t) \in Unders
      OBVIOUS
    <3>4. ASSUME NEW V \in Unders PROVE V \in SUBSET Top /\ IsFiniteSet(V)
      <4>1. PICK x \in Top : V = Under(x)
        OBVIOUS
      <4> QED
        BY <3>1, <4>1
    <3> HIDE DEF Unders
    <3> QED
      BY <3>3, <3>4 DEF FiniteSubsetsOf
  <2>2. PICK U \in Unders : \A V \in Unders : <<V, U>> \notin StrictSubsetOrdering(Top)
    <3>1. IsWellFoundedOn(StrictSubsetOrdering(Top), FiniteSubsetsOf(Top))
      BY FS_StrictSubsetOrderingWellFounded
    <3> HIDE DEF Unders
    <3> QED
      BY <2>1, <3>1, WFMin
  <2>3. PICK x \in Top : U = Under(x)
    OBVIOUS
  <2> DEFINE Over == {y \in S : number[y] > number[x]}
  <2>4. Top \ {x} \subseteq Over
    <3>1. ASSUME NEW y \in Top, number[y] < number[x] PROVE FALSE
      <4>1. number[x] \in Nat /\ \A z \in Top : number[z] \in Nat
        OBVIOUS
      <4>2. Under(y) \subseteq Under(x) /\ y \in Under(x) /\ y \notin Under(y)
        BY <3>1, <4>1
      <4>3. <<Under(y), Under(x)>> \in StrictSubsetOrdering(Top)
        BY <4>2 DEF StrictSubsetOrdering
      <4>4. Under(y) \in Unders
        BY <3>1
      <4> HIDE DEF Unders, Under
      <4> QED
        BY <2>2, <2>3, <4>3, <4>4
    <3>2. ASSUME NEW y \in Top, y # x PROVE y \in Over
      <4>1. number[x] \in Nat /\ number[y] \in Nat /\ number[y] # number[x]
        BY <3>2
      <4> QED
        BY <3>1, <4>1
    <3> QED
      BY <3>2
  <2>5. IsFiniteSet(Over) /\ Cardinality(Over) \in Nat /\ Cardinality(Over) < n
    BY <2>3, FS_Subset, FS_CardinalityType
  <2>6. Cardinality(Top \ {x}) = Cardinality(Top) - 1
    BY <1>1, <2>3, FS_RemoveElement
  <2>7. Cardinality(Top \ {x}) <= Cardinality(Over)
    <3> HIDE DEF Over
    <3> QED
      BY <2>4, <2>5, FS_Subset
  <2> QED
    BY <1>1, <2>5, <2>6, <2>7
<1> QED
  BY <1>2, <1>3

\* A set whose elements are told apart by whom they belong to has at most as
\* many elements as there are owners.
LEMMA OnePerOwner ==
  ASSUME NEW S, NEW Owners, IsFiniteSet(Owners), NEW owner \in [S -> Owners],
         \A x, y \in S : owner[x] = owner[y] => x = y
  PROVE  IsFiniteSet(S) /\ Cardinality(S) <= Cardinality(Owners)
<1>1. owner \in Injection(S, Owners)
  BY DEF Injection, IsInjective
<1> QED
  BY <1>1, FS_Injection

\* A union of three finite sets has no more elements than the three.
LEMMA UnionOfThree ==
  ASSUME NEW A, IsFiniteSet(A), NEW B, IsFiniteSet(B), NEW C, IsFiniteSet(C)
  PROVE  /\ IsFiniteSet(A \cup B \cup C)
         /\ Cardinality(A \cup B \cup C)
              <= Cardinality(A) + Cardinality(B) + Cardinality(C)
<1>1. IsFiniteSet(A \cup B) /\ Cardinality(A \cup B) <= Cardinality(A) + Cardinality(B)
  <2>1. IsFiniteSet(A \cap B)
    BY FS_Intersection
  <2>2. /\ Cardinality(A \cap B) \in Nat
        /\ Cardinality(A) \in Nat /\ Cardinality(B) \in Nat
    BY <2>1, FS_CardinalityType
  <2>3. /\ IsFiniteSet(A \cup B)
        /\ Cardinality(A \cup B)
             = Cardinality(A) + Cardinality(B) - Cardinality(A \cap B)
    BY FS_Union
  <2> QED
    BY <2>2, <2>3
<1>2. Cardinality((A \cup B) \cap C) \in Nat
  BY <1>1, FS_Intersection, FS_CardinalityType
<1>3. /\ IsFiniteSet((A \cup B) \cup C)
      /\ Cardinality((A \cup B) \cup C)
           = Cardinality(A \cup B) + Cardinality(C) - Cardinality((A \cup B) \cap C)
  BY <1>1, FS_Union
<1>4. /\ Cardinality(A) \in Nat /\ Cardinality(B) \in Nat /\ Cardinality(C) \in Nat
      /\ Cardinality(A \cup B) \in Nat
  BY <1>1, FS_CardinalityType
<1> QED
  BY <1>1, <1>2, <1>3, <1>4

-----------------------------------------------------------------------------
(* Old generations do not pile up *)

\* What the count rests on: numbers tell the entries of the history apart, the
\* active plugin of a path is the newest there, a request holds one registry,
\* and neither it nor the holder of update_mutex_ has two plugins of a path.
NewestInv ==
    /\ IsFiniteSet(history) /\ IsFiniteSet(candidate)
    /\ \A x, y \in history : x.id = y.id => x = y
    /\ \A a \in active, h \in history : a.path = h.path => h.id <= a.id
    /\ \A x, y \in previous : x.path = y.path => x = y
    /\ \A r \in Requests : \A reg1, reg2 \in snapshot[r] : reg1 = reg2
    /\ stage = "silence" =>
          /\ candidate \subseteq active
          /\ \A c \in candidate, h \in history : h.id < c.id
          /\ \A c, d \in candidate : c = d

OfPath(p) == {ref \in history : ref.path = p}

Bounded ==
    \A p \in Paths : Cardinality(OfPath(p)) <= Retain + Cardinality(Requests) + 1

\* The bound is exceeded only between the entry of a new generation and the
\* collection that follows it.
BoundInv == ~RemovalMayFail /\ stage \notin {"notify", "collect"} => Bounded

\* What requests hold of a path: one plugin for each at most.
InRequests(p) ==
    {ref \in Ref : /\ ref.path = p
                   /\ \E r \in Requests : \E reg \in snapshot[r] : ref \in reg.plugins}

LEMMA RequestsHoldFew ==
  ASSUME Sound, CoherenceInv, NewestInv, NEW p \in Paths
  PROVE  /\ IsFiniteSet(InRequests(p))
         /\ Cardinality(InRequests(p)) <= Cardinality(Requests)
<1> DEFINE holder == [ref \in InRequests(p) |->
                        CHOOSE r \in Requests :
                           \E reg \in snapshot[r] : ref \in reg.plugins]
<1>1. \A ref \in InRequests(p) :
         /\ holder[ref] \in Requests
         /\ \E reg \in snapshot[holder[ref]] : ref \in reg.plugins
  BY DEF InRequests
<1>2. ASSUME NEW x \in InRequests(p), NEW y \in InRequests(p), holder[x] = holder[y]
      PROVE  x = y
  <2>1. PICK reg \in snapshot[holder[x]] : x \in reg.plugins
    BY <1>1
  <2>2. y \in reg.plugins
    BY <1>1, <1>2, <2>1 DEF NewestInv
  <2>3. reg \in Registries
    BY <1>1, <2>1 DEF Registries
  <2>4. Coherent(reg.plugins)
    BY <2>3 DEF CoherenceInv, RegistriesCoherent
  <2> QED
    BY <2>1, <2>2, <2>4 DEF Coherent, InRequests
<1>3. holder \in [InRequests(p) -> Requests]
  BY <1>1
<1> HIDE DEF holder
<1> QED
  BY <1>2, <1>3, OnePerOwner, RuntimeAssumption DEF RuntimeAssumption

\* A collection leaves, of a path, the newest generations, the one the update
\* has replaced and what requests hold.
LEMMA CollectionBounds ==
  ASSUME Sound, CoherenceInv, ServingInv, NewestInv, ~RemovalMayFail, CollectGarbage
  PROVE  Bounded'
<1> SUFFICES ASSUME NEW p \in Paths
             PROVE  Cardinality(OfPath(p)') <= Retain + Cardinality(Requests) + 1
  BY DEF Bounded
<1> DEFINE S == OfPath(p)
           number == [x \in S |-> x.id]
           Top == {x \in S : Cardinality({y \in S : number[y] > number[x]}) < Retain}
           Old == {x \in previous : x.path = p}
<1>1. /\ history \subseteq Ref /\ active \subseteq Ref /\ previous \subseteq Ref
      /\ stage = "collect" /\ history' = history \ Collectable
  BY DEF Sound, TypeOK, CollectGarbage, DeleteCollectable
<1>2. S \subseteq history /\ IsFiniteSet(S)
  BY FS_Subset DEF OfPath, NewestInv
<1>3. IsFiniteSet(Top) /\ Cardinality(Top) <= Retain
  <2>1. number \in [S -> Nat]
    BY <1>1, <1>2 DEF Ref
  <2>2. \A x, y \in S : number[x] = number[y] => x = y
    BY <1>2 DEF NewestInv
  <2>3. Retain \in Nat
    BY RuntimeAssumption DEF RuntimeAssumption
  <2> HIDE DEF S, number
  <2> QED
    BY <1>2, <2>1, <2>2, <2>3, FewAbove
<1>4. IsFiniteSet(Old) /\ Cardinality(Old) <= 1
  <2> DEFINE owner == [x \in Old |-> p]
  <2>1. owner \in [Old -> {p}] /\ \A x, y \in Old : x = y
    BY DEF NewestInv
  <2>2. IsFiniteSet({p}) /\ Cardinality({p}) = 1
    BY FS_Singleton
  <2>3. IsFiniteSet(Old) /\ Cardinality(Old) <= Cardinality({p})
    <3> HIDE DEF Old, owner
    <3> QED
      BY <2>1, <2>2, OnePerOwner
  <2> QED
    BY <2>2, <2>3
<1>5. IsFiniteSet(InRequests(p)) /\ Cardinality(InRequests(p)) <= Cardinality(Requests)
  BY RequestsHoldFew
<1>6. ASSUME NEW x \in S, Kept(x) PROVE x \in Top
  <2>1. {r \in history : r.path = x.path /\ r.id > x.id}
          = {y \in S : number[y] > number[x]}
    BY DEF OfPath
  <2> QED
    BY <1>6, <2>1 DEF Kept
<1>7. ASSUME NEW x \in S, x \in active PROVE x \in Top
  <2>1. {y \in S : number[y] > number[x]} = {}
    BY <1>1, <1>2, <1>7 DEF NewestInv, OfPath, Ref
  <2>2. Cardinality({y \in S : number[y] > number[x]}) = 0
    BY <2>1, FS_EmptySet
  <2> QED
    BY <2>2, RuntimeAssumption DEF RuntimeAssumption
<1>8. OfPath(p)' \subseteq Top \cup Old \cup InRequests(p)
  <2> SUFFICES ASSUME NEW x \in history, x.path = p, x \notin Collectable
               PROVE  x \in Top \cup Old \cup InRequests(p)
    BY <1>1 DEF OfPath
  <2>1. x \in S /\ x \in Ref
    BY <1>1 DEF OfPath
  <2>2. Kept(x) \/ x \in Held
    BY DEF Collectable
  <2>3. ASSUME x \in Held
        PROVE  x \in active \/ x \in Old \/ x \in InRequests(p)
    <3>1. Serves(x) \/ x \in previous
      BY <1>1, <2>3, HeldMeaning DEF LoadedCandidate
    <3>2. published.plugins = active
      BY <1>1 DEF ServingInv
    <3> QED
      BY <2>1, <3>1, <3>2 DEF Serves, InRequests
  <2> QED
    BY <1>6, <1>7, <2>1, <2>2, <2>3
<1>9. /\ Cardinality(Top) \in Nat /\ Cardinality(Old) \in Nat
      /\ Cardinality(InRequests(p)) \in Nat /\ Cardinality(Requests) \in Nat
      /\ Retain \in Nat
  BY <1>3, <1>4, <1>5, RuntimeAssumption, FS_CardinalityType DEF RuntimeAssumption
<1>10. /\ IsFiniteSet(Top \cup Old \cup InRequests(p))
       /\ Cardinality(Top \cup Old \cup InRequests(p))
            <= Cardinality(Top) + Cardinality(Old) + Cardinality(InRequests(p))
  <2> HIDE DEF Top, Old
  <2> QED
    BY <1>3, <1>4, <1>5, UnionOfThree
<1>11. Cardinality(OfPath(p)') <= Cardinality(Top \cup Old \cup InRequests(p))
  <2> HIDE DEF Top, Old
  <2> QED
    BY <1>8, <1>10, FS_Subset
<1>12. /\ IsFiniteSet(OfPath(p)')
       /\ Cardinality(Top \cup Old \cup InRequests(p)) \in Nat
       /\ Cardinality(OfPath(p)') \in Nat
  <2> HIDE DEF Top, Old
  <2> QED
    BY <1>8, <1>10, FS_Subset, FS_CardinalityType
<1> QED
  BY <1>3, <1>4, <1>5, <1>9, <1>10, <1>11, <1>12

LEMMA NewestStep ==
  ASSUME Sound, CoherenceInv, TrackedInv, NewestInv, [Next]_vars
  PROVE  NewestInv'
<1>1. ASSUME UNCHANGED <<history, candidate, active, previous, snapshot>>,
             stage' = "silence" => stage = "silence"
      PROVE  NewestInv'
  BY <1>1 DEF NewestInv
<1>2. ASSUME UNCHANGED <<history, active, previous, snapshot>>, stage' # "silence",
             IsFiniteSet(candidate')
      PROVE  NewestInv'
  BY <1>2 DEF NewestInv
<1>3. ASSUME NEW p \in Paths, NEW c \in Contents,
             DiskWrite(p, c) \/ DiskDelete(p) \/ SkipPath(p)
      PROVE  NewestInv'
  BY <1>1, <1>3 DEF DiskWrite, DiskDelete, SkipPath, servingVars, stagingVars
<1>4. ASSUME NEW p \in Paths, DiskDelete(p) \/ SkipPath(p)
      PROVE  NewestInv'
  BY <1>1, <1>4 DEF DiskDelete, SkipPath, servingVars, stagingVars
<1>5. ASSUME NEW p \in Paths, DetectChange(p)
      PROVE  NewestInv'
  <2>1. /\ UNCHANGED <<history, active, previous, snapshot>> /\ stage' = "copy"
        /\ \E c : candidate' = {c}
    BY <1>5 DEF DetectChange, servingVars
  <2>2. IsFiniteSet(candidate')
    BY <2>1, FS_Singleton
  <2> QED
    BY <1>2, <2>1, <2>2
<1>6. CASE InitializeDone
  BY <1>1, <1>6 DEF InitializeDone, servingVars, stagingVars
<1>7. ASSUME GiveUp PROVE NewestInv'
  BY <1>2, <1>7, FS_EmptySet DEF GiveUp, servingVars
<1>8. CASE StageCopy
  <2>1. CASE AbandonTemporary
    BY <1>7, <2>1 DEF AbandonTemporary
  <2>2. CASE ~AbandonTemporary
    <3>1. /\ UNCHANGED <<history, active, previous, snapshot>> /\ stage' = "seal"
          /\ \E c : candidate' = {c}
      BY <1>8, <2>2 DEF StageCopy, servingVars, stagingVars
    <3>2. IsFiniteSet(candidate')
      BY <3>1, FS_Singleton
    <3> QED
      BY <1>2, <3>1, <3>2
  <2> QED
    BY <2>1, <2>2
<1>9. CASE StageSeal
  BY <1>1, <1>7, <1>9 DEF StageSeal, AbandonTemporary, servingVars
<1>10. CASE LoadCandidate
  BY <1>1, <1>7, <1>10 DEF LoadCandidate, DiscardCandidate, servingVars, stagingVars
<1>11. CASE RejectCandidate
  BY <1>7, <1>11 DEF RejectCandidate, DiscardCandidate
<1>12. CASE PublishCandidate
  <2>1. PICK c \in candidate : Publish(Replacing(active, c))
    BY <1>12 DEF PublishCandidate
  <2>2. /\ stage = "validate" /\ stage' = "silence"
        /\ UNCHANGED <<history, candidate, snapshot>>
    BY <1>12 DEF PublishCandidate, stagingVars
  <2>3. candidate = {c} /\ c \in Ref /\ c.id = sequence
    BY <2>1, <2>2 DEF Sound, CandidateInv, Preparing
  <2>4. \A h \in history : h \in Ref /\ h.id < c.id
    BY <2>2, <2>3 DEF TrackedInv, Preparing, Sound, TypeOK
  <2>5. active' = Replacing(active, c) /\ previous' = active
    BY <2>1 DEF Publish
  <2>6. \A a \in active', h \in history' : a.path = h.path => h.id <= a.id
    BY <2>2, <2>3, <2>4, <2>5 DEF NewestInv, Replacing, Ref
  <2>7. \A x, y \in previous' : x.path = y.path => x = y
    BY <2>5 DEF CoherenceInv, Coherent
  <2>8. candidate' \subseteq active'
    BY <2>2, <2>3, <2>5 DEF Replacing
  <2> QED
    BY <2>2, <2>3, <2>4, <2>6, <2>7, <2>8 DEF NewestInv
<1>13. ASSUME NEW p \in Paths, RemovePlugin(p)
       PROVE  NewestInv'
  <2>1. /\ stage = "idle" /\ UNCHANGED <<history, candidate, snapshot>>
        /\ previous' = active /\ active' \subseteq active
    BY <1>13 DEF RemovePlugin, Publish, stagingVars
  <2>2. candidate = {}
    BY <2>1 DEF Sound, CandidateInv
  <2>3. \A x, y \in previous' : x.path = y.path => x = y
    BY <2>1 DEF CoherenceInv, Coherent
  <2> QED
    BY <2>1, <2>2, <2>3 DEF NewestInv
<1>14. CASE SilenceRetired
  <2>1. /\ stage = "silence" /\ stage' = "notify" /\ history' = history \cup candidate
        /\ UNCHANGED <<candidate, active, previous, snapshot>>
    BY <1>14 DEF SilenceRetired, servingVars
  <2>2. IsFiniteSet(history')
    BY <2>1, FS_Union DEF NewestInv
  <2>3. \A x, y \in history' : x.id = y.id => x = y
    <3>1. \A h \in history, c \in candidate : h.id # c.id
      BY <2>1 DEF NewestInv, Sound, TypeOK, Ref
    <3> QED
      BY <2>1, <3>1 DEF NewestInv
  <2>4. \A a \in active, c \in candidate : a.path = c.path => a = c
    BY <2>1 DEF NewestInv, CoherenceInv, Coherent
  <2>5. \A a \in active', h \in history' : a.path = h.path => h.id <= a.id
    BY <2>1, <2>4 DEF NewestInv, Sound, TypeOK, Ref
  <2> QED
    BY <2>1, <2>2, <2>3, <2>5 DEF NewestInv
<1>15. CASE NotifyCapabilityChanges
  BY <1>1, <1>15 DEF NotifyCapabilityChanges, servingVars, stagingVars
<1>16. CASE CollectGarbage
  <2>1. /\ stage' = "idle" /\ history' \subseteq history /\ candidate' = {}
        /\ previous' = {} /\ UNCHANGED <<active, snapshot>>
    BY <1>16 DEF CollectGarbage, DeleteCollectable, servingVars
  <2>2. IsFiniteSet(history') /\ IsFiniteSet(candidate')
    BY <2>1, FS_Subset, FS_EmptySet DEF NewestInv
  <2> QED
    BY <2>1, <2>2 DEF NewestInv
<1>17. CASE ShutdownPublish
  BY <1>1, <1>17 DEF ShutdownPublish, stagingVars
<1>18. CASE ShutdownClear
  BY <1>18 DEF ShutdownClear, stagingVars, NewestInv
<1>19. ASSUME NEW r \in Requests, TakeSnapshot(r) \/ ReleaseSnapshot(r)
       PROVE  NewestInv'
  <2>1. UNCHANGED <<stage, history, candidate, active, previous>>
    BY <1>19 DEF TakeSnapshot, ReleaseSnapshot, servingVars, stagingVars
  <2>2. \A q \in Requests : \A reg1, reg2 \in snapshot'[q] : reg1 = reg2
    BY <1>19 DEF TakeSnapshot, ReleaseSnapshot, NewestInv, Sound, TypeOK
  <2> QED
    BY <2>1, <2>2 DEF NewestInv
<1>20. ASSUME NEW kind \in Kinds, ListCapability(kind)
       PROVE  NewestInv'
  BY <1>1, <1>20 DEF ListCapability, servingVars, stagingVars
<1>21. CASE UNCHANGED vars
  BY <1>1, <1>21 DEF vars
<1> QED
  BY <1>3, <1>4, <1>5, <1>6, <1>8, <1>9, <1>10, <1>11, <1>12, <1>13, <1>14,
     <1>15, <1>16, <1>17, <1>18, <1>19, <1>20, <1>21
  DEF Next, Deployer, Updater, UpdateStep, Readers

\* The history grows in one step and is cut in another, which comes before
\* the next update can begin.
LEMMA BoundStep ==
  ASSUME Sound, CoherenceInv, ServingInv, NewestInv, BoundInv, [Next]_vars
  PROVE  BoundInv'
<1>1. ASSUME UNCHANGED history,
             stage \in {"notify", "collect"} => stage' \in {"notify", "collect"}
      PROVE  BoundInv'
  BY <1>1 DEF BoundInv, Bounded, OfPath
<1>2. CASE Aside /\ UNCHANGED history
  BY <1>1, <1>2 DEF Aside
<1>3. ASSUME NEW p \in Paths, NEW c \in Contents,
             DiskWrite(p, c) \/ DiskDelete(p) \/ SkipPath(p)
      PROVE  BoundInv'
  BY <1>1, <1>3 DEF DiskWrite, DiskDelete, SkipPath, stagingVars
<1>4. ASSUME NEW p \in Paths,
             DiskDelete(p) \/ SkipPath(p) \/ DetectChange(p) \/ RemovePlugin(p)
      PROVE  BoundInv'
  BY <1>1, <1>4
  DEF DiskDelete, SkipPath, DetectChange, MayReload, RemovePlugin, stagingVars
<1>5. CASE InitializeDone
  BY <1>1, <1>5 DEF InitializeDone, stagingVars
<1>6. CASE StageCopy \/ StageSeal \/ LoadCandidate \/ RejectCandidate
  BY <1>1, <1>6
  DEF StageCopy, StageSeal, LoadCandidate, RejectCandidate, AbandonTemporary,
      DiscardCandidate, GiveUp, stagingVars
<1>7. CASE PublishCandidate
  BY <1>1, <1>7 DEF PublishCandidate, stagingVars
<1>8. CASE SilenceRetired \/ NotifyCapabilityChanges
  BY <1>8 DEF SilenceRetired, NotifyCapabilityChanges, BoundInv
<1>9. CASE CollectGarbage
  BY <1>9, CollectionBounds DEF BoundInv
<1>10. CASE ShutdownPublish \/ ShutdownClear
  BY <1>1, <1>10 DEF ShutdownPublish, ShutdownClear, stagingVars
<1>11. ASSUME NEW r \in Requests, TakeSnapshot(r) \/ ReleaseSnapshot(r)
       PROVE  BoundInv'
  BY <1>1, <1>11 DEF TakeSnapshot, ReleaseSnapshot, stagingVars
<1>12. ASSUME NEW kind \in Kinds, ListCapability(kind)
       PROVE  BoundInv'
  BY <1>1, <1>12 DEF ListCapability, stagingVars
<1>13. CASE UNCHANGED vars
  BY <1>1, <1>13 DEF vars
<1> QED
  BY <1>3, <1>4, <1>5, <1>6, <1>7, <1>8, <1>9, <1>10, <1>11, <1>12, <1>13
  DEF Next, Deployer, Updater, UpdateStep, Readers

\* When removals work, CollectGarbage leaves of a path no more than the
\* generations it is told to retain, one for each request in progress and the
\* one the update has just replaced, whatever updates, requests and removals
\* came before.
THEOREM RetentionBounded == Spec => []RetentionBound
<1>1. Init => CoherenceInv
  BY CoherenceInit
<1>2. Init => ServingInv /\ TrackedInv
  BY DEF Init, ServingInv, TrackedInv, Unrecorded, Preparing
<1>3. Init => NewestInv
  BY FS_EmptySet DEF Init, NewestInv
<1>4. Init => BoundInv
  <2> SUFFICES ASSUME Init, NEW p \in Paths
               PROVE  Cardinality(OfPath(p)) <= Retain + Cardinality(Requests) + 1
    BY DEF BoundInv, Bounded
  <2>1. OfPath(p) = {}
    BY DEF Init, OfPath
  <2>2. Cardinality(OfPath(p)) = 0
    BY <2>1, FS_EmptySet
  <2> QED
    BY <2>2, RuntimeAssumption, FS_CardinalityType DEF RuntimeAssumption
<1>5. Sound /\ CoherenceInv /\ ServingInv /\ TrackedInv /\ NewestInv /\ BoundInv
        /\ [Next]_vars
        => CoherenceInv' /\ ServingInv' /\ TrackedInv' /\ NewestInv' /\ BoundInv'
  BY CoherenceStep, ServingStep, TrackedStep, NewestStep, BoundStep
<1>6. BoundInv => RetentionBound
  BY DEF BoundInv, Bounded, OfPath, RetentionBound
<1> QED
  BY <1>1, <1>2, <1>3, <1>4, <1>5, <1>6, SoundAlways, PTL DEF Spec
=============================================================================
