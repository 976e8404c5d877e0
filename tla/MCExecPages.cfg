SPECIFICATION Spec
CONSTANTS
  Accesses <- MCAccesses
  LastAddress = 5
  PageSize = 2
PROPERTIES ImplementsFlat
