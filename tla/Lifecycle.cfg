SPECIFICATION FairSpec
CONSTANTS
  m1 = m1  m2 = m2  m3 = m3
  Ids = {1, 2}
  Evidence <- MCEvidence
  NoStatus = NoStatus  NoTarget = NoTarget  Nothing = Nothing  NoSource = NoSource
  RequestedStatuses = {"packet_ready", "closed"}
  Times = {1, 2}
  MaxEvents = 2
CHECK_DEADLOCK FALSE
INVARIANTS
  NewestDecisionWins
  ReceiptsMatchHistory
PROPERTIES
  ImplementsSettlement
  CommittedEvidenceIsReceipted
