\* Seven programs that start workers and wait for them.
CONSTANTS
  \* Two roads, two cars from each.
  Sources = {North, East}
  CAR_COUNT_PER_SPAWNER = 2
  NoThread = NoThread
  \* Three sections of two cells and one cell left over; values repeat.
  SortCells = 7
  SortSections = 3
  SortValues = {1, 2}
  \* The squares of odd primes begin at 9; the last range is longer; the pipe fills.
  ANSWER_UP_TO = 10
  nproc = 3
  PipeSize = 2
  \* Blocks are cut short at both borders.
  MatrixRows = 3
  MatrixCols = 3
  BlockRows = 2
  BlockCols = 2
  MatrixValues = {1, 2}
  \* Less than, equal to and more than the key; the last section is shorter for
  \* threads and longer for processes.
  HeapCells = 5
  HeapValues = {1, 2, 3}
  Wanted = 2
  NUM_THREADS = 3
  NUM_PROCESSES = 3
  \* Three levels, a file in each.
  src = src
  sub = sub
  deep = deep
  file1 = file1
  file2 = file2
  file3 = file3
  Dirs = {src, sub, deep}
  Files = {file1, file2, file3}
  Root = src
  Entries <- MCEntries
  \* Lines of two and three characters; each read() ends in the middle of one;
  \* room for re-reads; joined parts may be longer than url.
  NumChars = 9
  Newlines = {2, 5, 7, 9}
  BlockSize = 4
  URL_SIZE = 4
  MAX_URLS = 7
SPECIFICATION FairSpec
INVARIANTS TypeOK LogFollowsCars ChildrenApart NothingLost RoundsSorted SumRight RowsRight AnswersRight LossIsWholeSubtrees NoAddressSkipped
PROPERTIES ImplementsForkJoin ProgramsEnd
