SPECIFICATION BoardSpec
CONSTANTS
  Reason = {"accepted_risk"}
  Agent <- Agents
  EvidenceSpace <- SomeEvidence
  Finding <- Findings
  MaxDay = 1
CONSTRAINT Bounded
INVARIANTS ViewsAgree  FailureIsShown
  
CHECK_DEADLOCK FALSE
