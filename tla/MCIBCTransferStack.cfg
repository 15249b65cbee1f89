SPECIFICATION Spec
CONSTANTS
  MaxPackets = 3
  MaxAmt = 2
  Quota = 2
  LimitPaths = {"v1"}
  PacketKinds <- MCPacketKinds
INVARIANTS TypeOK InflowWithinQuota
PROPERTY ReceiveRefinesContract
