\* Two events and two runs of the job that may overlap.
SPECIFICATION AuditSpec
CONSTANTS
    Events = {e1, e2}
    Jobs = {j1, j2}
INVARIANTS
    AuditTypeOK
    RecordedIsGone
    RecordedOnceUnlessOverlapped
PROPERTIES
    EventuallyCleaned
