CONSTANTS
  Variables <- MCVariables
  TypeOf <- MCTypeOf
  EnumFields <- MCEnumFields
  FieldValue <- MCFieldValue
  NullArgument = 7
  Globals <- MCGlobals
  FunctionNumber <- MCFunctionNumber
  Declared <- MCDeclared
  Content <- MCContent
  Heap <- MCHeap
  Structures <- MCStructures
  Profiles <- MCProfiles
  VoidOps <- MCVoidOps
SPECIFICATION Spec
CHECK_DEADLOCK FALSE
INVARIANTS ValueExact VoidExact DeclaredExact
