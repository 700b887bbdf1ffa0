SPECIFICATION FairSpec
CONSTANTS
  enroll = enroll
  invoke = invoke
  Jobs = {j1, j2}
  ByHand = {m1}
  OwnerCalls = {enroll}
  OpenCalls = {invoke}
  Messages <- Session
INVARIANTS
  ServedIsReachable
  InstalledIsNew
PROPERTIES
  ServiceComesBack
  KeepsRemoteCall
  EveryCallEnds
  EveryMessageIsAnswered
CHECK_DEADLOCK FALSE
