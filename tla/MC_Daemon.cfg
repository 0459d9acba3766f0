\* The daemon and a tablet, which may start one session and change the tree once; the
\* server works on two calls of a device at once, so that a retry meets the call the
\* daemon gave up on.
CONSTANTS
    Me = me
    Devices = {me, tablet}
    Calls = {1, 2}
    Limit = 1
    MaxChanges = 1
    MaxStarts = 1
    MaxEdits = 1
    MaxFaults = 1
    MaxEvents = 3
SPECIFICATION Spec
CHECK_DEADLOCK FALSE
INVARIANTS TypeOK OnlyOverlapsLeak NoLostWakeup
PROPERTIES TurnsAreRespected EventuallySynced
