SPECIFICATION Spec
CONSTANTS
  Appender = {g1}
  Lister = {l1}
  Registrar = {s1}
  Nobody = nobody
PROPERTY
  ChatIsEmitted
CHECK_DEADLOCK FALSE
