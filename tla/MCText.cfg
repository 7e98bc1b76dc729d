\* Streams of up to six bytes, from a client that may stop at any of them;
\* all patterns of up to five characters; two creators of nested directories;
\* all queries of up to six characters, and an int of four bits.
CONSTANTS
  CR = CR
  LF = LF
  Char = {char}
  MaxBytes = 6
  PatternChar = {"%", "{", "}", "d", "x"}
  MaxPattern = 5
  c1 = c1
  c2 = c2
  Creator = {c1, c2}
  Target <- Targets
  Symbol = {"&", "=", "8", "-", "1"}
  MaxQuery = 6
  MaxInt = 7
  MaxLong = 99
SPECIFICATION TextSpec
INVARIANT LineIInv
INVARIANT LinesMatch
INVARIANT SpellsConsumed
INVARIANT ParsesLanguage
INVARIANT DirIInv
INVARIANT DirectoryReady
INVARIANT OperandsAsSent
INVARIANT ResultsAreRight
PROPERTY LineReturns
\* The connection ends, and so do the others.
CHECK_DEADLOCK FALSE
