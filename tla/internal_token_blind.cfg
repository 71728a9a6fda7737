\* The probe asks a router that lingo-core may not serve.
SPECIFICATION Spec
CONSTANTS
  Tokens = {t1, t2}
  Empty = Empty
  Unresolved = Unresolved
PROPERTY MismatchIsLoud
