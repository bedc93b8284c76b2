SPECIFICATION Spec
CONSTANTS
  Builders = {b1, b2, b3}
INVARIANTS
  EnvironmentKept
  KeysAreTrue
  ConstructorSeesItsKey
