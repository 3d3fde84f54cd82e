SPECIFICATION Spec
CONSTANTS
  WORD_BITS = 4
  p1 = p1
  p2 = p2
  p3 = p3
  f1 = f1
  f2 = f2
SYMMETRY Symmetry
INVARIANTS FilesOk PipeOk SpipeOk ConsoleOk VfsOk  FileReadsBack ImageOk
CHECK_DEADLOCK FALSE
