\* CancelTimer as its callers understand it: refuted.
SPECIFICATION Spec
CONSTANTS
  Flags = {"TF_FIRE_PERIODICALLY"}
  MaxTimers = 2
PROPERTY CancelledNeverFires
