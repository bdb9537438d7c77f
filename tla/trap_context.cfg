CONSTANTS
  Values = {v1, v2}
  Usable = {v1}
  Stack = v1
  Context = context
  Private = private
  Junk = junk
  Last = 1
SPECIFICATION Spec
INVARIANTS
  TypeOK TargetUndisturbed ContextIsFound NotNested
