CONSTANTS
  Requests = {p, q}
  Bodies <- SomeBodies
  Limit = 1
  MaxSize = 1
  MaxChunks = 2
  None = None
SPECIFICATION Spec
SYMMETRY AnyRequest
INVARIANTS ErrorBodiesLogged PreviewOfFirst
