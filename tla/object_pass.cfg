\* Objects and enums: the object path of the join table deriver.
CONSTANTS
  NoJoinValue = NoJoinValue
  NoJoin <- NoJoinValue
  TypeNames <- ObjTypeNames
  Scalars <- MCScalars
  Lower <- MCLower
  IdCol = "id"
  FieldShapes <- ObjFieldShapes
  FieldCounts = {1, 2}
  VirtualArgs = {"absent", "true"}
  DefKinds = {"object", "enum", "interface"}
  MaxDefs = 2
  MaxMembers = 1
SPECIFICATION Spec
\* The constructor returns (or fails) after its last definition.
CHECK_DEADLOCK FALSE
INVARIANTS
  TypeOK
  JoinMetaLocatesListField
  ChildTablesExist
  JoinTableForEarlierListField
  JoinAbortsOnlyOnForwardColumn
