\* Objects and unions: the union path of the join table deriver.
CONSTANTS
  NoJoinValue = NoJoinValue
  NoJoin <- NoJoinValue
  TypeNames <- UnionTypeNames
  Scalars <- MCScalars
  Lower <- MCLower
  IdCol = "id"
  FieldShapes <- UnionFieldShapes
  FieldCounts = {1, 2}
  VirtualArgs = {"absent", "true"}
  DefKinds = {"object", "union"}
  MaxDefs = 3
  MaxMembers = 2
SPECIFICATION Spec
\* The constructor returns (or fails) after its last definition.
CHECK_DEADLOCK FALSE
INVARIANT UnionFieldTypeMatchesJoinTable
