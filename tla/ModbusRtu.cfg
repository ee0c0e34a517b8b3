SPECIFICATION RtuFairSpec
CONSTANTS
  Slaves = {1, 2}
  Kinds = {"READ_COILS", "READ_DISCRETE_INPUTS", "READ_HOLDING_REGISTERS",
           "READ_INPUT_REGISTERS", "WRITE_AND_READ_REGISTERS",
           "WRITE_MULTIPLE_COILS", "WRITE_MULTIPLE_REGISTERS",
           "WRITE_SINGLE_COIL", "WRITE_SINGLE_REGISTER",
           "READ_EXCEPTION_STATUS", "REPORT_SLAVE_ID", "MASK_WRITE_REGISTER"}
  Counts = {0, 8, 126}
  MaxPieces = 1
INVARIANTS RtuTypeOK NoFalseAlarm AnswersBelong
PROPERTIES CallEnds ImplementsBlockingCall
