--------------------------- MODULE SchemaQueries ---------------------------
(***************************************************************************)
(* The query helpers of ParsedGraphQLSchema (parser.rs 709-829), read over *)
(* the model the construction pass leaves behind.  Downstream code asks    *)
(* them for the SQL column type of a field (scalar_type_for) and for the   *)
(* type behind a name (graphql_type), after new() has returned; the        *)
(* properties compare their answers with the foreign key mappings and the *)
(* join metadata new() recorded while the model was still being built.    *)
(*                                                                         *)
(* A column type is written <<name, depth>>: a type name with its list    *)
(* nesting (0 for a plain name), and <<>> when the call panics.            *)
(***************************************************************************)
EXTENDS SchemaParser

ColType(n) == <<n, 0>>
QueryAbort == <<>>

\* is_enum_typedef, is_virtual_typedef
IsEnumTypedef(n) == n \in enumNames
IsVirtualTypedef(n) == n \in virtualNames /\ ~IsEnumTypedef(n)

\* is_possible_foreign_key, the method (parser.rs 758-763).
IsPossibleForeignKeyQuery(n) ==
  /\ n \in parsed
  /\ n \notin Scalars
  /\ ~IsEnumTypedef(n)
  /\ ~IsVirtualTypedef(n)

\* list_field_types: the list type (without '!') of every list field of
\* every entity object, inserted by the field loop (parser.rs 373-375).
ListFieldTypes ==
  {<<f.base, f.depth>> : f \in {g \in UNION {ToSet(objects[t]) : t \in DOMAIN objects} :
                                  IsListType(g)}}

\* The column type extract_foreign_key_info reports: that of the @join
\* column with brackets removed, else UInt8 for the id column.
RefColType(f) == IF f.join = NoJoin THEN ColType("UInt8")
                 ELSE ColType(ftm[<<f.base, f.join>>])

\* scalar_type_for (parser.rs 709-742).  A list field whose type is in
\* list_field_types is typed by its inner name; any other field by
\* list_field_type_name, which keeps the brackets of a nested list.  The
\* name is then a foreign key (typed by the referenced column, the call
\* panicking where the @join column is missing), a virtual type, an enum
\* (stored as Charfield), or itself.
ScalarTypeFor(f) ==
  LET typed(n, d) ==
        CASE IsPossibleForeignKeyQuery(n) ->
               IF JoinResolves(f) THEN RefColType(f) ELSE QueryAbort
          [] IsVirtualTypedef(n) -> ColType("Virtual")
          [] IsEnumTypedef(n) -> ColType("Charfield")
          [] OTHER -> <<n, d>>
  IN  IF IsListType(f) /\ <<f.base, f.depth>> \in ListFieldTypes
        THEN typed(f.base, 0)
      ELSE IF f.depth = 0 THEN typed(f.base, 0)
      ELSE <<f.base, f.depth>>

\* field_type: object_field_mappings[cond][name], retried with the
\* brackets of cond removed; object_field_mappings holds the same
\* <<type, field>> -> type name pairs as field_type_mappings.
FieldType(cond, name) ==
  IF <<cond, name>> \in DOMAIN ftm THEN {ftm[<<cond, name>>]} ELSE {}

\* typedef_type: typedef_names_to_types maps the lowercased name of every
\* non-enum type definition to the name; built by folding over a HashMap,
\* so when two names lowercase alike either may be the one kept.
TypedefType(name) ==
  {k \in DOMAIN objects \cup unionNames : Lower[k] = name}

\* graphql_type: field_type when a parent type is given, else typedef_type.
GraphqlType(cond, name) ==
  IF cond = "none" THEN TypedefType(name) ELSE FieldType(cond, name)

-----------------------------------------------------------------------------

EntityFields == UNION {{<<t, i>> : i \in DOMAIN objects[t]} : t \in DOMAIN objects}

HasForeignKey(t, f) == Lower[t] \in DOMAIN fkm /\ f.name \in DOMAIN fkm[Lower[t]]

\* Every relationship new() recorded in foreign_key_mappings is one the
\* query layer, asked after new() returned, also treats as a foreign key:
\* scalar_type_for types the column by the referenced column, the one the
\* mapping names.  The gate new() used read the model half-built, so this
\* fails if a later definition could change what the gate decided.
ForeignKeysRecognisedByQueries ==
  phase = "done" =>
    \A p \in EntityFields :
      LET f == objects[p[1]][p[2]]
      IN  HasForeignKey(p[1], f) =>
            /\ IsPossibleForeignKeyQuery(f.base)
            /\ fkm[Lower[p[1]]][f.name] = <<Lower[f.base], RefColumn(f)>>
            /\ ScalarTypeFor(f) = RefColType(f)

\* Once new() has returned Ok, scalar_type_for can type every field of
\* every entity without panicking: an unresolvable @join is reported by
\* new() (the expect at mod.rs:136), not left for the first query.
QueriesTotalAfterSuccess ==
  phase = "done" =>
    \A p \in EntityFields : ScalarTypeFor(objects[p[1]][p[2]]) # QueryAbort

\* A query resolving a union's list field through graphql_type finds the
\* type whose table the union's join metadata for that field points at.
UnionFieldTypeMatchesJoinTable ==
  phase = "done" =>
    \A u \in unionNames \cap DOMAIN jtm :
      \A e \in ToSet(jtm[u]) :
        LET n == Layout(u)[e.parent.pos + 1].name
        IN  \A ty \in GraphqlType(u, n) : Lower[ty] = e.child.table

=============================================================================
