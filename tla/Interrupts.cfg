\* Exceptions with and without error code, up to two in one another.
CONSTANTS
  Exceptions = {2, 3, 13, 14}
  ErrorCodes = {0, 1}
  Masks = {184, 255}
  MaxNesting = 2
SPECIFICATION Spec
INVARIANTS FrameIsRead FaultsAreDelivered Remapped
