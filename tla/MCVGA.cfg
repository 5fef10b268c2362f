\* Three rows of two cells; the message is longer than a row.
CONSTANTS
  Width = 2
  Height = 3
  Radix = 4
  Chars = {"a", "b"}
  PanicText <- Message
SPECIFICATION Spec
INVARIANTS ShowsLastLines JunkInOneRow CursorFollows PanicIsShown
