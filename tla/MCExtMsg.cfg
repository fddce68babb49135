SPECIFICATION ExtSpec
CONSTANTS
  Blocks <- FourBlocks
  GATT_MAX_NUM_RELIABLE_WRITES = 2
  MaxAttrs = 3
CONSTRAINT NotMisfreed
INVARIANTS
  
  OnlyTheseMisfree
  KeptAsAnswered
  AnswersAreFresh
