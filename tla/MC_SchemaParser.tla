-------------------------- MODULE MC_SchemaParser --------------------------
(***************************************************************************)
(* Model-checking instances of SchemaParser and SchemaQueries.  Each run's *)
(* cfg picks its constants from the definitions below.                     *)
(***************************************************************************)
EXTENDS SchemaQueries

CONSTANT NoJoinValue

MCScalars == {"ID"}

(* String::to_lowercase on the names used below.                           *)
MCLower == [n \in {"A", "B", "U", "ID", "f", "g"} |->
              CASE n = "A" -> "a" [] n = "B" -> "b" [] n = "U" -> "u"
                [] n = "ID" -> "id" [] n = "f" -> "f" [] n = "g" -> "g"]

Field(n, b, d, j) == [name |-> n, base |-> b, depth |-> d, join |-> j]

(* Objects and enums only: two type names, list and scalar fields,         *)
(* self references and forward references, virtual objects, and a list    *)
(* field [A] with @join(on: f), which resolves only once A.f is indexed.  *)
ObjTypeNames == {"A", "B"}
ObjFieldShapes ==
  { Field(n, b, 1, NoJoinValue) : n \in {"f", "g"}, b \in {"A", "B"} }
  \cup { Field("g", "ID", 0, NoJoinValue), Field("f", "B", 0, NoJoinValue),
         Field("g", "A", 1, "f") }

(* Unions: two object names and one more name, so that a union can follow *)
(* or precede its members, members can share a field name "f" with a      *)
(* list, or a scalar, type, and a list field [A] with @join(on: f).        *)
UnionTypeNames == {"A", "B", "U"}
UnionFieldShapes ==
  { Field("f", b, 1, NoJoinValue) : b \in {"A", "B"} }
  \cup { Field("f", "ID", 0, NoJoinValue), Field("g", "A", 1, "f") }

(* A field whose name is also a type name: "B" is both.                   *)
OverlapFieldShapes ==
  { Field("B", "ID", 0, NoJoinValue), Field("f", "B", 1, NoJoinValue) }
MCLowerOverlap == MCLower @@ ("B" :> "b")
====
