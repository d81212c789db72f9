\* apply, clear, refresh and reload, with failures, kills and reboots anywhere,
\* while addresses and list change.
CONSTANTS
    a1 = a1  a2 = a2  Absent = Absent
    Setup <- MCSetup
    Addr <- MCAddr
    MaxList = 2
    Faulty = TRUE
SPECIFICATION LiveSpec
SYMMETRY MCSymmetry
INVARIANTS
    LiveTypeOK
    RefreshOkMeansCurrent
    OkMeansInForce
    WholeLists
