SPECIFICATION Spec
CONSTANTS
  BoxUid = "0"
  BoxGid = "3005"
  ApInterfaces = {"ap"}
  BlockedInterfaces = {"blk"}
  Macs = {"m1"}
  Settings <- MCSettings
  Flows <- MCFlows
INVARIANTS
  BypassedLeftAlone
  LeftOutLeftAlone
  ChosenIsCaptured
  DnsIsCaptured
  CoreNotCaptured
  NothingLost
  RepliesLeftAlone
PROPERTY FateKept
CHECK_DEADLOCK FALSE
