\* Three fields with values of up to two tokens: every way they can refer to each other.
CONSTANTS
  x = x
  y = y
  z = z
  a = a
  Bad = Bad
  Fields = {x, y, z}
  Literals = {a}
  Contents <- ShortTexts
  Templates <- FewTemplates
  MaxLength = 16
SPECIFICATION Spec
INVARIANT TypeOK
INVARIANT RenderedInFull
INVARIANT FailsIfBadReached
PROPERTY PassesDescend
PROPERTY RenderingEnds
CHECK_DEADLOCK FALSE
