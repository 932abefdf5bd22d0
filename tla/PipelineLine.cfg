\* More products than any stage has room for: every wait really blocks.
CONSTANTS
  Products = {p1, p2, p3, p4}
  NUM_ASSEMBLY_MACHINES = 2
  NUM_QUALITY_CHECK_MACHINES = 2
  NUM_PACKAGING_MACHINES = 1
  BUFFER_SIZE_1 = 1
  BUFFER_SIZE_2 = 1
  NoThread = NoThread
SPECIFICATION FairSpec
INVARIANTS TypeOK Conservation NeverStuck
PROPERTIES ImplementsLine ImplementsLiveLine
