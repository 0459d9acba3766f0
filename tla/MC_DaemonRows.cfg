\* Two overlapping syncStarts of the daemon leave two active rows.  Must be violated.
CONSTANTS
    Me = me
    Devices = {me, tablet}
    Calls = {1, 2}
    Limit = 1
    MaxChanges = 1
    MaxStarts = 1
    MaxEdits = 1
    MaxFaults = 1
    MaxEvents = 3
SPECIFICATION Spec
CHECK_DEADLOCK FALSE
INVARIANT OneRowPerDevice
