SPECIFICATION Spec
CONSTANTS
  Inputs <- MCInputs
  MaxAttempts = 2
  MaxPlanned = 2
INVARIANTS PlansWhatIsMissing TargetsAreFree LotsStayTogether
CHECK_DEADLOCK FALSE
