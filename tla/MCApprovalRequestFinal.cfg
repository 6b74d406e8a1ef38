CONSTANTS
  ann = ann
  bob = bob
  cat = cat
  Approvers = {ann, bob}
  Askers = {cat}
  Others = TRUE
  Nobody = Nobody
SPECIFICATION Spec
PROPERTIES
  DecisionIsFinal
CHECK_DEADLOCK FALSE
