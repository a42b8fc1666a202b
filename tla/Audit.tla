------------------------------- MODULE Audit -------------------------------
(***************************************************************************)
(* AuditService.cleanupEventData, the hourly job that deletes the face     *)
(* collection of an event and records it in `audit_logs`.  A run takes the *)
(* events that are due and not recorded, and goes through them one by one; *)
(* what it could not do it leaves to the next run.  Nothing stops a run    *)
(* from starting while an earlier one is still at work.                    *)
(***************************************************************************)
EXTENDS Naturals, FiniteSets

CONSTANTS
    Events,
    Jobs           \* runs of the job that can be under way at the same time

ASSUME AuditAssumption == IsFiniteSet(Jobs)

VARIABLES
    gateLogs,      \* gateLogs[e]: ages of the gate logs of e: "recent", "old"
    recorded,      \* recorded[e]: rows of e in audit_logs with DATA_CLEANUP
    subjects,      \* events under whose id CompreFace has a subject
    job,           \* job[j]: position of a run, events left, event at hand
    overlapped     \* history: events that two runs had before them at once

auditVars == <<gateLogs, recorded, subjects, job, overlapped>>

Job == [pc : {"idle", "loop", "log"}, todo : SUBSET Events, event : Events \cup {"none"}]

IdleJob == [pc |-> "idle", todo |-> {}, event |-> "none"]

(* Which events CompreFace has a subject for is not this service's doing.  *)
AuditInit ==
    /\ gateLogs = [e \in Events |-> {}]
    /\ recorded = [e \in Events |-> 0]
    /\ subjects \in SUBSET Events
    /\ job = [j \in Jobs |-> IdleJob]
    /\ overlapped = {}

-----------------------------------------------------------------------------
(* The gate saves a log, and a day passes over the logs of an event.       *)
SaveLog(e) ==
    /\ gateLogs' = [gateLogs EXCEPT ![e] = @ \cup {"recent"}]
    /\ UNCHANGED <<recorded, subjects, job, overlapped>>

DayPasses(e) ==
    /\ "recent" \in gateLogs[e]
    /\ gateLogs' = [gateLogs EXCEPT ![e] = {"old"}]
    /\ UNCHANGED <<recorded, subjects, job, overlapped>>

(* The query: some log of the event is older than the cutoff, and there is *)
(* no record of its cleanup.                                               *)
EventsOfRecentLogs == {e \in Events : "recent" \in gateLogs[e] /\ recorded[e] = 0}
EventsOfOldLogs == {e \in Events : "old" \in gateLogs[e]}
EventsToClean == {e \in Events : "old" \in gateLogs[e] /\ recorded[e] = 0}

CleanupEventData(j) ==
    /\ job[j].pc = "idle"
    /\ job' = [job EXCEPT ![j] = [IdleJob EXCEPT !.pc = "loop", !.todo = EventsToClean]]
    /\ overlapped' = overlapped \cup
                        (EventsToClean \cap UNION {job[i].todo : i \in Jobs})
    /\ UNCHANGED <<gateLogs, recorded, subjects>>

(* DELETE of the subject named after the event: carried out, or a 404 that *)
(* says there is none.                                                     *)
CollectionDeleted(j, e) ==
    /\ job[j].pc = "loop"
    /\ e \in job[j].todo
    /\ subjects' = subjects \ {e}
    /\ job' = [job EXCEPT ![j].pc = "log", ![j].event = e]
    /\ UNCHANGED <<gateLogs, recorded, overlapped>>

(* Another status, a network error or the abort after ten seconds, where   *)
(* CompreFace may have acted all the same: continue.                       *)
DeletionFailedButLogged(j, e) ==
    /\ job[j].pc = "loop"
    /\ e \in job[j].todo
    /\ subjects' \in {subjects, subjects \ {e}}
    /\ job' = [job EXCEPT ![j].pc = "log", ![j].event = e]
    /\ UNCHANGED <<gateLogs, recorded, overlapped>>

DeletionFailed(j, e) ==
    /\ job[j].pc = "loop"
    /\ e \in job[j].todo
    /\ subjects' \in {subjects, subjects \ {e}}
    /\ job' = [job EXCEPT ![j].todo = @ \ {e}]
    /\ UNCHANGED <<gateLogs, recorded, overlapped>>

NextEvent(j) ==
    job' = [job EXCEPT ![j] = [pc |-> "loop", todo |-> @.todo \ {@.event}, event |-> "none"]]

(* logAction: one row more.  An exception is caught like one of the DELETE. *)
LogAction(j) ==
    /\ job[j].pc = "log"
    /\ recorded' = [recorded EXCEPT ![job[j].event] = @ + 1]
    /\ NextEvent(j)
    /\ UNCHANGED <<gateLogs, subjects, overlapped>>

LogActionFailed(j) ==
    /\ job[j].pc = "log"
    /\ NextEvent(j)
    /\ UNCHANGED <<gateLogs, recorded, subjects, overlapped>>

EndOfLoop(j) ==
    /\ job[j].pc = "loop"
    /\ job[j].todo = {}
    /\ job' = [job EXCEPT ![j] = IdleJob]
    /\ UNCHANGED <<gateLogs, recorded, subjects, overlapped>>

(* The process stops, and with it a run.                                   *)
JobDies(j) ==
    /\ job[j].pc # "idle"
    /\ job' = [job EXCEPT ![j] = IdleJob]
    /\ UNCHANGED <<gateLogs, recorded, subjects, overlapped>>

AuditNext ==
    \/ \E e \in Events : SaveLog(e) \/ DayPasses(e)
    \/ \E j \in Jobs, e \in Events : CollectionDeleted(j, e) \/ DeletionFailed(j, e)
    \/ \E j \in Jobs :
          \/ CleanupEventData(j) \/ LogAction(j) \/ LogActionFailed(j)
          \/ EndOfLoop(j) \/ JobDies(j)

(* The job is started every hour and its loop goes on; what is tried again *)
(* and again, a deletion or the INSERT of its record, succeeds at last.    *)
AuditFairness ==
    /\ WF_auditVars(\E j \in Jobs : CleanupEventData(j))
    /\ \A j \in Jobs :
          /\ WF_auditVars(EndOfLoop(j))
          /\ SF_auditVars(LogAction(j))
          /\ \A e \in Events : SF_auditVars(CollectionDeleted(j, e))

AuditSpec == AuditInit /\ [][AuditNext]_auditVars /\ AuditFairness

-----------------------------------------------------------------------------
(* Every variable holds values of the kind its column or local has.  Runs  *)
(* that overlap can each record an event, but no run that starts later     *)
(* takes it up again: an event never has more records than runs can be     *)
(* under way at once.                                                      *)
AuditTypeOK ==
    /\ gateLogs \in [Events -> SUBSET {"recent", "old"}]
    /\ recorded \in [Events -> 0..Cardinality(Jobs)]
    /\ subjects \subseteq Events
    /\ job \in [Jobs -> Job]
    /\ overlapped \subseteq Events

(* The record is the truth: an event with a DATA_CLEANUP row has no        *)
(* subject left at CompreFace, whatever failed, timed out, died or was     *)
(* done twice before the row was written.                                  *)
RecordedIsGone == \A e \in Events : recorded[e] > 0 => e \notin subjects

(* The cleanup of an event is recorded once, also after failed attempts    *)
(* that CompreFace had carried out, unless two runs had it before them.    *)
RecordedOnceUnlessOverlapped ==
    \A e \in Events : recorded[e] > 1 => e \in overlapped

(* "will retry next cycle": an event with a gate log of more than a day is *)
(* cleaned up at last, and its subject is then gone.                       *)
EventuallyCleaned ==
    \A e \in Events : "old" \in gateLogs[e] ~> recorded[e] > 0 /\ e \notin subjects
=============================================================================
