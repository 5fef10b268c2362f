\* All numbers of 6 bits in the code's bases, and binary as the longest; every
\* length up to that of the longest numeral and its NUL.  KPrintf's tmp has
\* room for the lowest number and no more, as in the code.
CONSTANTS
  Bits = 6
  Bases = {2, 10, 16}
  Lens = {0, 1, 2, 3, 4, 5, 6, 7}
  TmpLen = 4
  Formats <- MCFormats
  Strings <- MCStrings
  TextChars = {"a", ",", ";"}
  DelimSets <- MCDelimSets
  MaxText = 5
  Objects = {x, y}
  Letters = {"a", "b"}
  Literals <- MCLiterals
  MaxSize = 2
SPECIFICATION LibrarySpec
INVARIANTS NumeralIsRight StaysInBuffer PrintsAsFormatted TokensAreRight OneOwner
CHECK_DEADLOCK FALSE
