CONSTANTS
  Command = {e1, e2}
  Host = {h1, h2}
  Limits = {1, 2}
SYMMETRY Symmetry
SPECIFICATION Spec
INVARIANTS TypeOK AlwaysDecodes SecretsStayPrivate EditsAreDurable NoCopyLeft
