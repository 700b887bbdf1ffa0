SPECIFICATION Spec
CHECK_DEADLOCK FALSE
CONSTANTS
  Invocations = {i1}
  Payloads = {new}
  Genuine = {new}
  Edits = {e1}
PROPERTY ReplacedIsBackedUp
