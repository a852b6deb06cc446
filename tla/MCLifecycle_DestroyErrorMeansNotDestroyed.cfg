SPECIFICATION Spec
CONSTANTS
  None = None
  Devices = {d1, d2}
  Contexts = {c1, c2}
  Buffers = {b1}
  HandleReuse = FALSE
  LoadErrors = {"OUT_OF_MEMORY"}
SYMMETRY Symmetry
PROPERTY DestroyErrorMeansNotDestroyed
