CONSTANTS
  ann = ann
  bob = bob
  cat = cat
  Approvers = {ann, bob, cat}
  Askers = {cat}
  Others = TRUE
  Nobody = Nobody
SPECIFICATION Spec
INVARIANTS
  ApprovedByQuorum
CHECK_DEADLOCK FALSE
