\* A field named like a type, and that type declared an enum afterwards.
CONSTANTS
  NoJoinValue = NoJoinValue
  NoJoin <- NoJoinValue
  TypeNames <- ObjTypeNames
  Scalars <- MCScalars
  Lower <- MCLowerOverlap
  IdCol = "id"
  FieldShapes <- OverlapFieldShapes
  FieldCounts = {1, 2}
  VirtualArgs = {"absent", "true"}
  DefKinds = {"object", "enum"}
  MaxDefs = 2
  MaxMembers = 1
SPECIFICATION Spec
\* The constructor returns (or fails) after its last definition.
CHECK_DEADLOCK FALSE
INVARIANT
  ForeignKeysRecognisedByQueries
