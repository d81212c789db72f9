\* Every mode, with failures and kills at any point, and edits while
\* nothing is installed.
CONSTANTS
    Mode = {"redirect", "tproxy", "mixed", "enhance", "tun", "ebpf"}
    Setting = {s1, s2}
    Ipv6Mode = {"enable", "disable", "bypass"}
    Faulty = TRUE
    Undeletable = {"forward", "redirect", "tproxy"}
    Edits = {TRUE}
    NoSnap = NoSnap
    Fixed = Fixed
SPECIFICATION RulesSpec
INVARIANTS
    RuleTypeOK
    ApplyOkExact
    ClearOkTriedAll
