\* A single page fault is enough.
CONSTANTS
  Exceptions = {2, 14}
  ErrorCodes = {0, 1}
  Masks = {184}
  MaxNesting = 1
SPECIFICATION Spec
INVARIANT PageFaultReported
