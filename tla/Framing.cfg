\* Six bytes are three empty lines, or one line and what follows it; a piece
\* of four can hold a whole line, and the start of the next.
SPECIFICATION FramingSpec
CONSTANTS
  Text = {"x"}
  CR = "r"
  LF = "n"
  NUL = "0"
  Chunk = 4
  MaxBytes = 6
PROPERTIES
  ImplementsStream LinesServed
\* The peer may send nothing more.
CHECK_DEADLOCK FALSE
