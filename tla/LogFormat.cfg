\* Every pattern of up to 5 characters, and what 4 pieces make.  "m" stands
\* for the letters that s_format_items knows, "x" for those it does not.
CONSTANTS
  Char <- SomeChar
  Known <- SomeKnown
  Pattern <- SomePattern
  MaxLength = 5
  MaxPiece = 4
SPECIFICATION ParseSpec
INVARIANTS Tokenised Faithful ReadsInside
