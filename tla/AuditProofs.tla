---------------------------- MODULE AuditProofs ----------------------------
(***************************************************************************)
(* Proofs about Audit for any number of events and of overlapping runs.    *)
(***************************************************************************)
EXTENDS Audit, FiniteSetTheorems, TLAPS

(* The part of the types that the arguments need.  The event at hand of a  *)
(* run is one it still has before it.                                      *)
JobTypes ==
    /\ recorded \in [Events -> Nat]
    /\ job \in [Jobs -> Job]
    /\ \A j \in Jobs : job[j].pc = "log" => job[j].event \in job[j].todo
    /\ \A j \in Jobs : job[j].pc = "idle" => job[j].todo = {}

(* What a run is about to record is gone already, and nothing that is gone *)
(* comes back.                                                             *)
LoggedIsGone ==
    /\ RecordedIsGone
    /\ \A j \in Jobs : job[j].pc = "log" => job[j].event \notin subjects

(* Until two runs have had it before them, an event is before one run at   *)
(* most, and then it has no record.                                        *)
OneRunAtATime ==
    \A e \in Events \ overlapped :
        /\ recorded[e] <= 1
        /\ \A i, j \in Jobs : e \in job[i].todo /\ e \in job[j].todo => i = j
        /\ \A j \in Jobs : e \in job[j].todo => recorded[e] = 0

CleanupInv == JobTypes /\ LoggedIsGone /\ OneRunAtATime

(* Before the first run nothing is recorded and no run is under way.       *)
LEMMA CleanupInitially == AuditInit => CleanupInv
  BY DEF AuditInit, IdleJob, CleanupInv, JobTypes, Job, LoggedIsGone, RecordedIsGone,
         OneRunAtATime

(* Steps that move one run only, and leave it with fewer events, keep the  *)
(* argument about overlap.                                                 *)
LEMMA FewerEventsLeft ==
    ASSUME CleanupInv, NEW j \in Jobs, UNCHANGED <<recorded, overlapped>>,
           job' \in [Jobs -> Job],
           \A i \in Jobs \ {j} : job'[i] = job[i],
           job'[j].todo \subseteq job[j].todo
    PROVE  OneRunAtATime'
  BY DEF CleanupInv, OneRunAtATime, JobTypes

(* Every step keeps the invariant.                                         *)
LEMMA CleanupPreserved ==
    ASSUME CleanupInv, [AuditNext]_auditVars
    PROVE  CleanupInv'
<1> USE DEF CleanupInv, JobTypes, LoggedIsGone, RecordedIsGone
<1>1. ASSUME NEW e \in Events, SaveLog(e) \/ DayPasses(e)
      PROVE  CleanupInv'
  BY <1>1 DEF SaveLog, DayPasses, OneRunAtATime
<1>2. ASSUME NEW j \in Jobs, CleanupEventData(j)
      PROVE  CleanupInv'
  <2>1. /\ job' \in [Jobs -> Job]
        /\ job'[j] = [pc |-> "loop", todo |-> EventsToClean, event |-> "none"]
        /\ \A i \in Jobs \ {j} : job'[i] = job[i]
    BY <1>2 DEF CleanupEventData, IdleJob, Job, EventsToClean
  <2>2. JobTypes' /\ LoggedIsGone'
    BY <1>2, <2>1 DEF CleanupEventData
  <2>3. ASSUME NEW e \in Events, e \notin overlapped'
        PROVE  /\ recorded'[e] <= 1
               /\ \A i, k \in Jobs : e \in job'[i].todo /\ e \in job'[k].todo => i = k
               /\ \A i \in Jobs : e \in job'[i].todo => recorded'[e] = 0
    <3>1. e \notin overlapped /\ UNCHANGED recorded
      BY <1>2, <2>3 DEF CleanupEventData
    <3>2. e \in EventsToClean => \A i \in Jobs : e \notin job[i].todo
      BY <1>2, <2>3 DEF CleanupEventData
    <3>3. e \in EventsToClean => recorded[e] = 0
      BY DEF EventsToClean
    <3>4. QED
      BY <2>1, <3>1, <3>2, <3>3 DEF OneRunAtATime
  <2>4. OneRunAtATime'
    BY <2>3 DEF OneRunAtATime
  <2>5. QED
    BY <2>2, <2>4
<1>3. ASSUME NEW j \in Jobs, NEW e \in Events, CollectionDeleted(j, e)
      PROVE  CleanupInv'
  <2>1. /\ job' \in [Jobs -> Job]
        /\ job'[j].pc = "log" /\ job'[j].event = e /\ job'[j].todo = job[j].todo
        /\ \A i \in Jobs \ {j} : job'[i] = job[i]
    BY <1>3 DEF CollectionDeleted, Job
  <2>2. JobTypes' /\ LoggedIsGone'
    BY <1>3, <2>1 DEF CollectionDeleted
  <2>3. OneRunAtATime'
    BY <1>3, <2>1, FewerEventsLeft DEF CollectionDeleted
  <2>4. QED
    BY <2>2, <2>3
<1>4. ASSUME NEW j \in Jobs, NEW e \in Events, DeletionFailed(j, e)
      PROVE  CleanupInv'
  <2>1. /\ job' \in [Jobs -> Job]
        /\ job'[j].pc = "loop" /\ job'[j].todo = job[j].todo \ {e}
        /\ \A i \in Jobs \ {j} : job'[i] = job[i]
    BY <1>4 DEF DeletionFailed, Job
  <2>2. JobTypes' /\ LoggedIsGone'
    BY <1>4, <2>1 DEF DeletionFailed
  <2>3. OneRunAtATime'
    BY <1>4, <2>1, FewerEventsLeft DEF DeletionFailed
  <2>4. QED
    BY <2>2, <2>3
<1>5. ASSUME NEW j \in Jobs, NextEvent(j), job[j].pc = "log"
      PROVE  /\ job' \in [Jobs -> Job]
             /\ job'[j].pc = "loop"
             /\ job'[j].todo = job[j].todo \ {job[j].event}
             /\ \A i \in Jobs \ {j} : job'[i] = job[i]
  BY <1>5 DEF NextEvent, Job
<1>6. ASSUME NEW j \in Jobs, LogAction(j)
      PROVE  CleanupInv'
  <2> DEFINE e == job[j].event
  <2>1. e \in Events /\ e \in job[j].todo /\ e \notin subjects
    BY <1>6 DEF LogAction, Job
  <2>2. /\ job' \in [Jobs -> Job]
        /\ job'[j].pc = "loop" /\ job'[j].todo = job[j].todo \ {e}
        /\ \A i \in Jobs \ {j} : job'[i] = job[i]
    BY <1>5, <1>6 DEF LogAction
  <2>3. /\ recorded' = [recorded EXCEPT ![e] = @ + 1]
        /\ UNCHANGED <<subjects, overlapped>>
    BY <1>6 DEF LogAction
  <2>4. JobTypes' /\ LoggedIsGone'
    BY <2>1, <2>2, <2>3
  <2>5. OneRunAtATime'
    BY <2>1, <2>2, <2>3 DEF OneRunAtATime
  <2>6. QED
    BY <2>4, <2>5
<1>7. ASSUME NEW j \in Jobs, LogActionFailed(j)
      PROVE  CleanupInv'
  <2>1. /\ job' \in [Jobs -> Job]
        /\ job'[j].pc = "loop" /\ job'[j].todo \subseteq job[j].todo
        /\ \A i \in Jobs \ {j} : job'[i] = job[i]
    BY <1>5, <1>7 DEF LogActionFailed
  <2>2. JobTypes' /\ LoggedIsGone'
    BY <1>7, <2>1 DEF LogActionFailed
  <2>3. OneRunAtATime'
    BY <1>7, <2>1, FewerEventsLeft DEF LogActionFailed
  <2>4. QED
    BY <2>2, <2>3
<1>8. ASSUME NEW j \in Jobs, EndOfLoop(j) \/ JobDies(j)
      PROVE  CleanupInv'
  <2>1. /\ job' \in [Jobs -> Job]
        /\ job'[j].pc = "idle" /\ job'[j].todo = {}
        /\ \A i \in Jobs \ {j} : job'[i] = job[i]
        /\ UNCHANGED <<recorded, subjects, overlapped>>
    BY <1>8 DEF EndOfLoop, JobDies, IdleJob, Job
  <2>2. JobTypes' /\ LoggedIsGone'
    BY <2>1
  <2>3. OneRunAtATime'
    BY <2>1, FewerEventsLeft
  <2>4. QED
    BY <2>2, <2>3
<1>9. ASSUME UNCHANGED auditVars
      PROVE  CleanupInv'
  BY <1>9 DEF auditVars, OneRunAtATime
<1>10. QED
  BY <1>1, <1>2, <1>3, <1>4, <1>6, <1>7, <1>8, <1>9 DEF AuditNext

(* However runs overlap, fail, time out and die, the cleanup of an event   *)
(* is recorded only when its subject is gone.                              *)
THEOREM RecordsAreTrue == AuditSpec => []RecordedIsGone
<1>1. CleanupInv => RecordedIsGone
  BY DEF CleanupInv, LoggedIsGone
<1>2. QED
  BY <1>1, CleanupInitially, CleanupPreserved, PTL DEF AuditSpec

(* A second record of an event needs two runs that had the event before    *)
(* them at the same time; failures, timeouts and restarts do not make one. *)
THEOREM RecordsAreSingle == AuditSpec => []RecordedOnceUnlessOverlapped
<1>1. CleanupInv => RecordedOnceUnlessOverlapped
  BY DEF CleanupInv, JobTypes, OneRunAtATime, RecordedOnceUnlessOverlapped
<1>2. QED
  BY <1>1, CleanupInitially, CleanupPreserved, PTL DEF AuditSpec

-----------------------------------------------------------------------------
(* The runs that have e before them, and may still record it.              *)
Holders(e) == {j \in Jobs : e \in job[j].todo}

RecordsBounded == \A e \in Events : recorded[e] + Cardinality(Holders(e)) <= Cardinality(Jobs)

OtherTypes ==
    /\ gateLogs \in [Events -> SUBSET {"recent", "old"}]
    /\ subjects \subseteq Events
    /\ overlapped \subseteq Events

(* The holders of an event can be counted.                                 *)
LEMMA HoldersAreFinite ==
    \A e \in Events : /\ IsFiniteSet(Holders(e)) /\ Cardinality(Holders(e)) \in Nat
                      /\ Cardinality(Holders(e)) <= Cardinality(Jobs)
                      /\ Cardinality(Jobs) \in Nat
<1> TAKE e \in Events
<1>1. IsFiniteSet(Jobs) /\ Holders(e) \subseteq Jobs
  BY AuditAssumption DEF Holders
<1>2. IsFiniteSet(Holders(e)) /\ Cardinality(Holders(e)) <= Cardinality(Jobs)
  BY <1>1, FS_Subset
<1>3. QED
  BY <1>1, <1>2, FS_CardinalityType

(* Runs that give events up, or end, leave fewer holders.                  *)
LEMMA FewerHolders ==
    ASSUME JobTypes, RecordsBounded, UNCHANGED recorded,
           \A j \in Jobs : job'[j].todo \subseteq job[j].todo
    PROVE  RecordsBounded'
<1> SUFFICES ASSUME NEW e \in Events
             PROVE  (recorded[e] + Cardinality(Holders(e)) <= Cardinality(Jobs))'
  BY DEF RecordsBounded
<1>1. Holders(e)' \subseteq Holders(e)
  BY DEF Holders
<1>2. /\ Cardinality(Holders(e)') <= Cardinality(Holders(e))
      /\ Cardinality(Holders(e)') \in Nat
  BY <1>1, HoldersAreFinite, FS_Subset, FS_CardinalityType
<1>3. recorded[e] + Cardinality(Holders(e)) <= Cardinality(Jobs)
  BY DEF RecordsBounded
<1>4. recorded[e] \in Nat /\ Cardinality(Holders(e)) \in Nat /\ Cardinality(Jobs) \in Nat
  BY HoldersAreFinite DEF JobTypes
<1>5. QED
  BY <1>2, <1>3, <1>4

(* A run takes an event up only while it has no record, and each run that  *)
(* has it records it once.                                                 *)
LEMMA BoundPreserved ==
    ASSUME CleanupInv, RecordsBounded, [AuditNext]_auditVars
    PROVE  RecordsBounded'
<1>0. /\ JobTypes /\ job \in [Jobs -> Job] /\ recorded \in [Events -> Nat]
      /\ \A j \in Jobs : job[j].pc = "log" => job[j].event \in job[j].todo
      /\ \A j \in Jobs : job[j].pc = "idle" => job[j].todo = {}
  BY DEF CleanupInv, JobTypes
<1>1. ASSUME UNCHANGED <<recorded, job>> PROVE RecordsBounded'
  BY <1>0, <1>1, FewerHolders
<1>2. ASSUME NEW j \in Jobs, CleanupEventData(j) PROVE RecordsBounded'
  <2>1. /\ job'[j].todo = EventsToClean /\ job[j].todo = {}
        /\ \A i \in Jobs \ {j} : job'[i] = job[i]
        /\ UNCHANGED recorded
    BY <1>0, <1>2 DEF CleanupEventData, IdleJob
  <2>2. SUFFICES ASSUME NEW e \in Events
                 PROVE  (recorded[e] + Cardinality(Holders(e)) <= Cardinality(Jobs))'
    BY DEF RecordsBounded
  <2>3. CASE e \in EventsToClean
    <3>1. recorded'[e] = 0
      BY <2>1, <2>3 DEF EventsToClean
    <3>2. IsFiniteSet(Jobs) /\ Holders(e)' \subseteq Jobs
      BY AuditAssumption DEF Holders
    <3>3. Cardinality(Holders(e)') <= Cardinality(Jobs) /\ Cardinality(Holders(e)') \in Nat
      BY <3>2, FS_Subset, FS_CardinalityType
    <3>4. QED
      BY <3>1, <3>3
  <2>4. CASE e \notin EventsToClean
    <3>1. Holders(e)' = Holders(e)
      BY <2>1, <2>4 DEF Holders
    <3>2. QED
      BY <2>1, <3>1 DEF RecordsBounded
  <2>5. QED
    BY <2>3, <2>4
<1>3. ASSUME NEW j \in Jobs, NEW e \in Events, CollectionDeleted(j, e) \/ DeletionFailed(j, e)
      PROVE  RecordsBounded'
  <2>1. UNCHANGED recorded /\ \A i \in Jobs : job'[i].todo \subseteq job[i].todo
    BY <1>0, <1>3 DEF CollectionDeleted, DeletionFailed, Job
  <2>2. QED
    BY <1>0, <2>1, FewerHolders
<1>4. ASSUME NEW j \in Jobs, NextEvent(j), job[j].pc = "log"
      PROVE  /\ job'[j].todo = job[j].todo \ {job[j].event}
             /\ \A i \in Jobs \ {j} : job'[i] = job[i]
  BY <1>0, <1>4 DEF NextEvent, Job
<1>5. ASSUME NEW j \in Jobs, LogAction(j) PROVE RecordsBounded'
  <2>1. PICK x \in Events : x = job[j].event /\ x \in job[j].todo
    BY <1>0, <1>5 DEF LogAction, Job
  <2>2. /\ job'[j].todo = job[j].todo \ {x} /\ \A i \in Jobs \ {j} : job'[i] = job[i]
    BY <1>4, <1>5, <2>1 DEF LogAction
  <2>3. recorded' = [recorded EXCEPT ![x] = @ + 1]
    BY <1>5, <2>1 DEF LogAction
  <2>4. SUFFICES ASSUME NEW e \in Events
                 PROVE  (recorded[e] + Cardinality(Holders(e)) <= Cardinality(Jobs))'
    BY DEF RecordsBounded
  <2>5. recorded[e] + Cardinality(Holders(e)) <= Cardinality(Jobs)
    BY DEF RecordsBounded
  <2>6. recorded[e] \in Nat /\ Cardinality(Holders(e)) \in Nat /\ Cardinality(Jobs) \in Nat
    BY <1>0, HoldersAreFinite
  <2>7. CASE e = x
    <3>1. Holders(e)' = Holders(e) \ {j} /\ j \in Holders(e)
      BY <2>1, <2>2, <2>7 DEF Holders
    <3>2. Cardinality(Holders(e)') = Cardinality(Holders(e)) - 1
      BY <3>1, HoldersAreFinite, FS_RemoveElement
    <3>3. recorded'[e] = recorded[e] + 1
      BY <1>0, <2>3, <2>7
    <3>4. QED
      BY <2>5, <2>6, <3>2, <3>3
  <2>8. CASE e # x
    <3>1. Holders(e)' = Holders(e)
      BY <2>2, <2>8 DEF Holders
    <3>2. recorded'[e] = recorded[e]
      BY <1>0, <2>3, <2>8
    <3>3. QED
      BY <2>5, <3>1, <3>2
  <2>9. QED
    BY <2>7, <2>8
<1>6. ASSUME NEW j \in Jobs, LogActionFailed(j) \/ EndOfLoop(j) \/ JobDies(j) PROVE RecordsBounded'
  <2>1. UNCHANGED recorded /\ \A i \in Jobs : job'[i].todo \subseteq job[i].todo
    BY <1>0, <1>4, <1>6 DEF LogActionFailed, EndOfLoop, JobDies, IdleJob
  <2>2. QED
    BY <1>0, <2>1, FewerHolders
<1>7. QED
  BY <1>1, <1>2, <1>3, <1>5, <1>6 DEF AuditNext, SaveLog, DayPasses, auditVars

(* For any number of overlapping runs, an event has no more records than   *)
(* runs can be under way at once, and the types are kept.                  *)
THEOREM AuditTypeCorrect == AuditSpec => []AuditTypeOK
<1>1. AuditInit => OtherTypes /\ RecordsBounded
  <2> SUFFICES ASSUME AuditInit PROVE OtherTypes /\ RecordsBounded
    OBVIOUS
  <2>1. OtherTypes
    BY DEF AuditInit, OtherTypes
  <2>2. \A e \in Events : recorded[e] = 0
    BY DEF AuditInit
  <2>3. QED
    BY <2>1, <2>2, HoldersAreFinite DEF RecordsBounded
<1>2. OtherTypes /\ [AuditNext]_auditVars => OtherTypes'
  <2> SUFFICES ASSUME OtherTypes, [AuditNext]_auditVars PROVE OtherTypes'
    OBVIOUS
  <2>1. gateLogs' \in [Events -> SUBSET {"recent", "old"}]
    BY DEF OtherTypes, auditVars, AuditNext, SaveLog, DayPasses, CollectionDeleted, DeletionFailed,
           CleanupEventData, LogAction, LogActionFailed, EndOfLoop, JobDies
  <2>2. subjects' \subseteq Events
    BY DEF OtherTypes, auditVars, AuditNext, SaveLog, DayPasses, CollectionDeleted, DeletionFailed,
           CleanupEventData, LogAction, LogActionFailed, EndOfLoop, JobDies
  <2>3. overlapped' \subseteq Events
    BY DEF OtherTypes, auditVars, AuditNext, SaveLog, DayPasses, CollectionDeleted, DeletionFailed,
           CleanupEventData, EventsToClean, LogAction, LogActionFailed, EndOfLoop, JobDies
  <2>4. QED
    BY <2>1, <2>2, <2>3 DEF OtherTypes
<1>3. CleanupInv /\ OtherTypes /\ RecordsBounded => AuditTypeOK
  <2> SUFFICES ASSUME CleanupInv, OtherTypes, RecordsBounded PROVE AuditTypeOK
    OBVIOUS
  <2>1. recorded \in [Events -> Nat] /\ job \in [Jobs -> Job]
    BY DEF CleanupInv, JobTypes
  <2>2. \A e \in Events : recorded[e] \in 0..Cardinality(Jobs)
    <3> TAKE e \in Events
    <3>1. recorded[e] + Cardinality(Holders(e)) <= Cardinality(Jobs)
      BY DEF RecordsBounded
    <3>2. recorded[e] \in Nat /\ Cardinality(Holders(e)) \in Nat /\ Cardinality(Jobs) \in Nat
      BY <2>1, HoldersAreFinite
    <3>3. QED
      BY <3>1, <3>2
  <2>3. QED
    BY <2>1, <2>2 DEF OtherTypes, AuditTypeOK
<1>4. QED
  BY <1>1, <1>2, <1>3, CleanupInitially, CleanupPreserved, BoundPreserved, PTL DEF AuditSpec
=============================================================================
