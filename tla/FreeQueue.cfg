SPECIFICATION Spec
CONSTANT N = 4
INVARIANTS Spelled GuardExact
PROPERTY Implements
