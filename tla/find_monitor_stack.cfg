\* A target whose stack pointer cannot be pushed to.
CONSTANTS
  Values = {v1, v2}
  Usable = {v1}
  Stack = v1
  Context = context
  Private = private
  Junk = junk
  Last = 1
SPECIFICATION Spec
INVARIANT SavesInContext
