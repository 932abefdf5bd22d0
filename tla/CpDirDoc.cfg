\* A directory whose parent is not made yet.
CONSTANTS
  src = src
  sub = sub
  deep = deep
  file1 = file1
  file2 = file2
  file3 = file3
SPECIFICATION Spec
INVARIANT DocStructureFirst
