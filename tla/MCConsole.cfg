SPECIFICATION Spec
CONSTANTS
  shell = shell
  child = child
  NULL = NULL
  Width = 3
  IntMin <- MCIntMin
  Bound = 2
  Chars <- MCChars
  LineSize = 4
  MaxArgument = 3
  Numbers <- MCNumbers
  Garbage <- MCGarbage
  MaxKeys = 5
INVARIANTS EchoAgrees LineAsTyped CommandIsLine NumberShown
PROPERTY EnterEndsLine
