\* A batch of two tables, with or without a rule the kernel refuses, in a family
\* that may be skipped; a chain may be set up twice.
CONSTANTS
    dns = dns  local = local  external = external
    nat = nat  mangle = mangle
    Chain = {dns, local, external}
    Table = {nat, mangle}
    TableOf <- MCTableOf
    Rule = {r1, r2}
    Bad = {r2}
    Twice = {dns}
    Absent = Absent
    Batching = TRUE
    Skips = TRUE
    MaxCalls = 6
SPECIFICATION BatchSpec
INVARIANTS
    BatchTypeOK
    FailedLeavesNothing
    OkMeansBuilt
PROPERTY
    ImplementsPerRule
CHECK_DEADLOCK FALSE
