\* A field whose name is also the name of a type that has no table.
CONSTANTS
  NoJoinValue = NoJoinValue
  NoJoin <- NoJoinValue
  TypeNames <- ObjTypeNames
  Scalars <- MCScalars
  Lower <- MCLowerOverlap
  IdCol = "id"
  FieldShapes <- OverlapFieldShapes
  FieldCounts = {1, 2}
  VirtualArgs = {"absent", "true"}
  DefKinds = {"object", "enum", "interface"}
  MaxDefs = 1
  MaxMembers = 1
SPECIFICATION Spec
\* The constructor returns (or fails) after its last definition.
CHECK_DEADLOCK FALSE
INVARIANT
  ChildTablesExist
