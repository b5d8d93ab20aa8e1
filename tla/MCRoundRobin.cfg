CONSTANT NPROC = 6
SPECIFICATION RRFairSpec
PROPERTIES Overtaking NoStarvation
CHECK_DEADLOCK FALSE
