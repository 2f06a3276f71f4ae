SPECIFICATION FairSpec
CONSTANTS
  Operations <- History
  Products = {"p"}
  Seeds = {1}
  Quotas = {1}
  Workers = {w1, w2}
PROPERTIES
  PendingIsReconciled
CHECK_DEADLOCK FALSE
