SPECIFICATION FairSpec
CONSTANTS
  BlockSize = 2
  Blocks = 4
  MSC_MEDIA_PACKET = 4
  SENSE_LIST_DEPTH = 3
  Word = 32
  HalfWord = 8
  Lbas <- FirstBlock
  Counts <- ThreeOrFour
INVARIANTS TypeOK InStep NoResetUndisturbed DataIsNoCommand
PROPERTIES SenseIsTheReason IsBulkOnly Answered
