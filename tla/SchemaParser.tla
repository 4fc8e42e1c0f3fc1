--------------------------- MODULE SchemaParser ---------------------------
(***************************************************************************)
(* The construction pass of ParsedGraphQLSchema::new                       *)
(* (fuel-indexer-lib/src/graphql/parser.rs) together with the helpers it   *)
(* calls from graphql/mod.rs (extract_foreign_key_info, is_list_type,      *)
(* field_type_name, field_id).                                             *)
(*                                                                         *)
(* The pass walks the definitions of the parsed document once, in order.   *)
(* The model reads the document one definition at a time: the next         *)
(* definition is chosen from a small set of inputs, so every document of   *)
(* at most MaxDefs definitions is explored, and the pass over an object's  *)
(* fields is one step per field, as in the loop at parser.rs:363.          *)
(*                                                                         *)
(* Names and field types are data: a type or field name is a string from   *)
(* a small set, a field type is its base name plus its list depth, and     *)
(* to_lowercase() is the constant function Lower.  The indices the pass    *)
(* keeps only for downstream consumers and that nothing in the pass reads *)
(* (type_defs, field_defs, field_type_optionality, list_field_types,       *)
(* list_type_defs, object_field_mappings, object_ordered_fields) are left  *)
(* out; the objects map stands for object_ordered_fields.                  *)
(***************************************************************************)
EXTENDS Integers, Sequences, FiniteSets, SequencesExt

CONSTANTS
  TypeNames,     \* names a document may give its type definitions
  Scalars,       \* the scalars of BASE_SCHEMA (ID, UInt8, Charfield, ...)
  Lower,         \* String::to_lowercase on TypeNames \cup Scalars
  IdCol,         \* IdCol::to_lowercase_str(), the implicit join column
  NoJoin,        \* a field without a @join directive
  FieldShapes,   \* field definitions a document may contain
  FieldCounts,   \* numbers of fields an entity object may declare
  VirtualArgs,   \* "absent", or the value of @entity(virtual: _)
  DefKinds,      \* kinds of type definition a document may contain
  MaxDefs,       \* bound on the number of definitions in the document
  MaxMembers     \* bound on the number of members of a union

ASSUME TypeNames \cap Scalars = {}
ASSUME TypeNames \cup Scalars \subseteq DOMAIN Lower
ASSUME VirtualArgs \subseteq {"absent", "true", "false"}
ASSUME DefKinds \subseteq {"object", "enum", "union", "interface"}
ASSUME MaxDefs \in Nat /\ MaxMembers \in Nat \ {0}

(* A field: its name, the name left by field_type_name (all of '[', ']'   *)
(* and '!' removed), its list nesting depth and the column named by its   *)
(* @join(on: _) directive, if any.                                         *)
FieldNamesOf(S) == {f.name : f \in S}
ASSUME \A f \in FieldShapes :
         /\ f.base \in TypeNames \cup Scalars
         /\ f.depth \in Nat
         /\ f.join = NoJoin \/ f.join \in FieldNamesOf(FieldShapes)

(* is_list_type: the type string holds exactly two bracket characters.    *)
IsListType(f) == 2 * f.depth = 2

DistinctNames(s) == \A i, j \in DOMAIN s : i # j => s[i].name # s[j].name

FieldSeqs ==
  UNION { {s \in [1..n -> FieldShapes] : DistinctNames(s)} : n \in FieldCounts }

MemberSeqs ==
  UNION { {s \in [1..n -> TypeNames] : \A i, j \in 1..n : i # j => s[i] # s[j]}
          : n \in 1..MaxMembers }

(* The type definitions of a document.  A non-entity object is skipped    *)
(* without looking at its fields, so its fields are left empty.           *)
Defs ==
  LET d(k, nm, ent, va, fs, ms) ==
        [kind |-> k, name |-> nm, entity |-> ent, virtualArg |-> va,
         fields |-> fs, members |-> ms]
  IN  { d("object", nm, TRUE, va, fs, <<>>) :
          nm \in TypeNames, va \in VirtualArgs, fs \in FieldSeqs }
      \cup { d(k, nm, FALSE, "absent", <<>>, <<>>) :
               k \in {"object", "enum", "interface"}, nm \in TypeNames }
      \cup { d("union", nm, FALSE, "absent", <<>>, ms) :
               nm \in TypeNames, ms \in MemberSeqs }

(* Mutant: JoinTableMeta::new called with the two sides swapped.         *)
JoinTableMetaSwapped(ptable, pcol, ctable, ccol, pos) ==
  [parent |-> [table |-> ctable, col |-> ccol, pos |-> pos],
   child  |-> [table |-> ptable, col |-> pcol]]

(* JoinTableMeta::new: the parent side is the table holding the list      *)
(* field, the child side the table the list refers to.                    *)
JoinTableMeta(ptable, pcol, ctable, ccol, pos) ==
  [parent |-> [table |-> ptable, col |-> pcol, pos |-> pos],
   child  |-> [table |-> ctable, col |-> ccol]]

VARIABLES
  phase,        \* "parse", "object" (inside an object's field loop), "done",
                \* "error" (an Err returned) or "panic" (an expect failed)
  cause,        \* why the pass stopped early
  doc,          \* the definitions read so far, in document order
  cur,          \* the entity object whose fields are being walked
  idx,          \* the 1-based index of the next field of cur
  parsed,       \* parsed_typedef_names
  virtualNames, \* virtual_type_names
  enumNames,    \* enum_names
  unionNames,   \* union_names
  objects,      \* objects: entity object name -> its fields
  ftm,          \* field_type_mappings: <<type, field>> -> field type name
  fkm,          \* foreign_key_mappings: table -> field -> <<table, column>>
  jtm           \* join_table_meta: type name -> Seq of JoinTableMeta

vars == <<phase, cause, doc, cur, idx, parsed, virtualNames, enumNames,
          unionNames, objects, ftm, fkm, jtm>>

-----------------------------------------------------------------------------
(* Mutant: the foreign key gate without its virtual_type_names test.      *)
IsPossibleForeignKeyNoVirtual(base, parsedNow, virtualNow) ==
  /\ base \in parsedNow
  /\ base \notin Scalars
  /\ base \notin enumNames

(* The manual is_possible_foreign_key of parser.rs:394 and :532.           *)
IsPossibleForeignKey(base, parsedNow, virtualNow) ==
  /\ base \in parsedNow
  /\ base \notin Scalars
  /\ base \notin enumNames
  /\ base \notin virtualNow

(* extract_foreign_key_info: with @join(on: col) the referenced column is *)
(* col, and field_type_mappings must already hold <<base, col>> or the     *)
(* expect at mod.rs:136 panics; without it the column is the id column.   *)
JoinResolves(f) == f.join = NoJoin \/ <<f.base, f.join>> \in DOMAIN ftm

(* Mutant: the @join column read without the IdCol default.                *)
RefColumnNoDefault(f) == f.join

RefColumn(f) == IF f.join = NoJoin THEN IdCol ELSE f.join

(* The type names the document has declared so far.                        *)
Declared == {doc[i].name : i \in DOMAIN doc}

Init ==
  /\ phase = "parse"
  /\ cause = "none"
  /\ doc = <<>>
  /\ cur = [name |-> "", virtualArg |-> "absent", fields |-> <<>>]
  /\ idx = 1
  /\ parsed = {}
  /\ virtualNames = {}
  /\ enumNames = {}
  /\ unionNames = {}
  /\ objects = <<>>
  /\ ftm = <<>>
  /\ fkm = <<>>
  /\ jtm = <<>>

(* Reading the next type definition of the document (the loop of         *)
(* parser.rs:341); type names are distinct within a document.              *)
Reading(d) ==
  /\ phase = "parse"
  /\ Len(doc) < MaxDefs
  /\ d.kind \in DefKinds
  /\ d.name \notin Declared
  /\ doc' = Append(doc, d)

(* Mutant: the entity's own name never inserted into parsed_typedef_names. *)
ReadObjectNotParsed(d) ==
  /\ d.kind = "object"
  /\ Reading(d)
  /\ phase' = IF d.entity /\ d.fields # <<>> THEN "object" ELSE "parse"
  /\ cur' = [name |-> d.name, virtualArg |-> d.virtualArg, fields |-> d.fields]
  /\ idx' = 1
  /\ objects' = IF d.entity THEN objects @@ (d.name :> d.fields) ELSE objects
  /\ UNCHANGED <<parsed, cause, virtualNames, enumNames, unionNames, ftm, fkm, jtm>>

(* TypeKind::Object (parser.rs:344-360): an object without @entity is      *)
(* skipped; an entity is recorded as parsed before its fields are walked.  *)
ReadObject(d) ==
  /\ d.kind = "object"
  /\ Reading(d)
  /\ phase' = IF d.entity /\ d.fields # <<>> THEN "object" ELSE "parse"
  /\ cur' = [name |-> d.name, virtualArg |-> d.virtualArg, fields |-> d.fields]
  /\ idx' = 1
  /\ IF d.entity
       THEN /\ objects' = objects @@ (d.name :> d.fields)
            /\ parsed' = parsed \cup {d.name}
       ELSE UNCHANGED <<objects, parsed>>
  /\ UNCHANGED <<cause, virtualNames, enumNames, unionNames, ftm, fkm, jtm>>

(* join_table_meta.entry(k).or_insert_with(Vec::new).push(e)               *)
PushMeta(m, k, e) ==
  IF k \in DOMAIN m THEN [m EXCEPT ![k] = Append(@, e)] ELSE m @@ (k :> <<e>>)

(* foreign_key_mappings: get_mut(table) then insert, or a new inner map.   *)
PutForeignKey(m, tbl, fname, v) ==
  IF tbl \in DOMAIN m THEN [m EXCEPT ![tbl] = (fname :> v) @@ @]
                      ELSE m @@ (tbl :> (fname :> v))

(* The virtual_type_names of parser.rs:381-390: any directive argument    *)
(* named "virtual" marks the object, re-inserted at every field.           *)
VirtualAfterField == IF cur.virtualArg # "absent"
                       THEN virtualNames \cup {cur.name} ELSE virtualNames

CurField == cur.fields[idx]

CurIsForeignKey ==
  IsPossibleForeignKey(CurField.base, parsed, VirtualAfterField)

(* Mutant: the field's qualified id never inserted into                    *)
(* field_type_mappings.                                                     *)
ObjectFieldNotIndexed ==
  LET f == CurField
      T == cur.name
  IN  /\ phase = "object"
      /\ CurIsForeignKey => JoinResolves(f)
      /\ virtualNames' = VirtualAfterField
      /\ jtm' = IF CurIsForeignKey /\ IsListType(f)
                  THEN PushMeta(jtm, T, JoinTableMeta(Lower[T], IdCol,
                                  Lower[f.base], RefColumn(f), idx - 1))
                  ELSE jtm
      /\ fkm' = IF CurIsForeignKey
                  THEN PutForeignKey(fkm, Lower[T], f.name,
                                     <<Lower[f.base], RefColumn(f)>>)
                  ELSE fkm
      /\ parsed' = parsed \cup {f.name}
      /\ idx' = idx + 1
      /\ phase' = IF idx = Len(cur.fields) THEN "parse" ELSE "object"
      /\ UNCHANGED <<cause, doc, cur, enumNames, unionNames, objects, ftm>>

(* One iteration of the field loop of parser.rs:363-459.  A foreign key    *)
(* whose @join column is resolved; a list one also gets join metadata      *)
(* under the object's own name, at the field's 0-based position.  The      *)
(* field's name is added to parsed_typedef_names (parser.rs:452).          *)
ObjectField ==
  LET f == CurField
      T == cur.name
  IN  /\ phase = "object"
      /\ CurIsForeignKey => JoinResolves(f)
      /\ virtualNames' = VirtualAfterField
      /\ jtm' = IF CurIsForeignKey /\ IsListType(f)
                  THEN PushMeta(jtm, T, JoinTableMeta(Lower[T], IdCol,
                                  Lower[f.base], RefColumn(f), idx - 1))
                  ELSE jtm
      /\ fkm' = IF CurIsForeignKey
                  THEN PutForeignKey(fkm, Lower[T], f.name,
                                     <<Lower[f.base], RefColumn(f)>>)
                  ELSE fkm
      /\ parsed' = parsed \cup {f.name}
      /\ ftm' = (<<T, f.name>> :> f.base) @@ ftm
      /\ idx' = idx + 1
      /\ phase' = IF idx = Len(cur.fields) THEN "parse" ELSE "object"
      /\ UNCHANGED <<cause, doc, cur, enumNames, unionNames, objects>>

(* The same iteration when the field's @join column is not yet indexed:    *)
(* the expect at mod.rs:136 aborts the process.                            *)
ObjectFieldAborts ==
  /\ phase = "object"
  /\ CurIsForeignKey
  /\ ~JoinResolves(CurField)
  /\ phase' = "panic"
  /\ cause' = "join_ref"
  /\ virtualNames' = VirtualAfterField
  /\ UNCHANGED <<doc, cur, idx, parsed, enumNames, unionNames, objects,
                 ftm, fkm, jtm>>

(* TypeKind::Enum (parser.rs:462-478): an enum is virtual.  Its values go *)
(* into field_type_mappings under the enum's name, where no foreign key   *)
(* lookup reaches them (enums fail is_possible_foreign_key).               *)
ReadEnum(d) ==
  /\ d.kind = "enum"
  /\ Reading(d)
  /\ virtualNames' = virtualNames \cup {d.name}
  /\ enumNames' = enumNames \cup {d.name}
  /\ UNCHANGED <<phase, cause, cur, idx, parsed, unionNames, objects,
                 ftm, fkm, jtm>>

(* Any other TypeKind (interface, input object, scalar): parser.rs:591.   *)
ReadUnsupported(d) ==
  /\ d.kind = "interface"
  /\ Reading(d)
  /\ phase' = "error"
  /\ cause' = "unsupported"
  /\ UNCHANGED <<cur, idx, parsed, virtualNames, enumNames, unionNames,
                 objects, ftm, fkm, jtm>>
(* The fields a union sees (parser.rs:502-529): its members' fields in     *)
(* member order, each field name kept at its first occurrence only.        *)
MergedFields(ms) ==
  FoldLeft(LAMBDA acc, f : IF \E k \in DOMAIN acc : acc[k].name = f.name
                            THEN acc ELSE Append(acc, f),
           <<>>, FlattenSeq([i \in DOMAIN ms |-> objects[ms[i]]]))

(* GraphQLSchemaValidator::check_derived_union_is_well_formed (validator  *)
(* code outside src/, modelled from the spec): a union of virtual members  *)
(* is itself virtual.  Its verdict on members that disagree is discarded:  *)
(* the call at parser.rs:488 has no `?`, so the pass goes on either way.   *)
VirtualMembers(ms) == {i \in DOMAIN ms : ms[i] \in virtualNames}
VirtualAfterUnion(u, ms) ==
  IF Cardinality(VirtualMembers(ms)) = Len(ms)
    THEN virtualNames \cup {u} ELSE virtualNames

(* objects.get(member).expect(..) at parser.rs:516 panics at the first     *)
(* member that is not a parsed entity object; the members before it are    *)
(* walked first.                                                           *)
FirstMissing(ms) ==
  IF \E i \in DOMAIN ms : ms[i] \notin DOMAIN objects
    THEN CHOOSE i \in DOMAIN ms : /\ ms[i] \notin DOMAIN objects
                                  /\ \A j \in 1..(i - 1) : ms[j] \in DOMAIN objects
    ELSE Len(ms) + 1

Walked(ms) == SubSeq(ms, 1, FirstMissing(ms) - 1)

(* Mutant: child_position advanced only when metadata is pushed.           *)
UnionJoinMetasCountingPushed(u, ms, parsedNow, virtualNow) ==
  LET mf == MergedFields(ms)
      ps == SelectSeq([p \in DOMAIN mf |-> p],
                      LAMBDA p : /\ IsPossibleForeignKey(mf[p].base, parsedNow, virtualNow)
                                 /\ IsListType(mf[p]))
  IN  [i \in DOMAIN ps |-> JoinTableMeta(Lower[u], IdCol, Lower[mf[ps[i]].base],
                                         RefColumn(mf[ps[i]]), i - 1)]

(* The join metadata of the union (parser.rs:531-558): a list foreign key  *)
(* among the merged fields, at its position in the merged order.           *)
UnionJoinMetas(u, ms, parsedNow, virtualNow) ==
  LET mf == MergedFields(ms)
      ps == SelectSeq([p \in DOMAIN mf |-> p],
                      LAMBDA p : /\ IsPossibleForeignKey(mf[p].base, parsedNow, virtualNow)
                                 /\ IsListType(mf[p]))
  IN  [i \in DOMAIN ps |-> JoinTableMeta(Lower[u], IdCol, Lower[mf[ps[i]].base],
                                         RefColumn(mf[ps[i]]), ps[i] - 1)]

(* A merged foreign key whose @join column is not indexed: mod.rs:136.    *)
UnionJoinFails(ms, parsedNow, virtualNow) ==
  LET mf == MergedFields(ms)
  IN  \E p \in DOMAIN mf : /\ IsPossibleForeignKey(mf[p].base, parsedNow, virtualNow)
                           /\ ~JoinResolves(mf[p])

(* The second member loop (parser.rs:564-589) caches every member field    *)
(* under the union's name; a later member's field overwrites an earlier    *)
(* one of the same name.                                                   *)
UnionFieldTypes(u, ms) ==
  LET fs == FlattenSeq([i \in DOMAIN ms |-> objects[ms[i]]])
      last(n) == fs[CHOOSE k \in DOMAIN fs :
                      fs[k].name = n /\ \A j \in DOMAIN fs : fs[j].name = n => j <= k]
  IN  [p \in {<<u, n>> : n \in FieldNamesOf(ToSet(fs))} |-> last(p[2]).base]

(* Mutant: members keep their own join metadata.                          *)
KeptJoinMetaNoRemoval(ms) == jtm

(* The members' own join metadata removed (parser.rs:508-512).             *)
KeptJoinMeta(ms) == [k \in DOMAIN jtm \ ToSet(ms) |-> jtm[k]]

(* TypeKind::Union (parser.rs:479-589).  Every member's own join metadata  *)
(* is removed and the union's is pushed under the union's name.            *)
ReadUnion(d) ==
  LET u  == d.name
      ms == d.members
      parsedNow  == parsed \cup {u}
      virtualNow == VirtualAfterUnion(u, ms)
      walked == Walked(ms)
      metas  == UnionJoinMetas(u, ms, parsedNow, virtualNow)
      kept   == KeptJoinMeta(ms)
  IN  /\ d.kind = "union"
      /\ Reading(d)
      /\ parsed' = parsedNow
      /\ unionNames' = unionNames \cup {u}
      /\ CASE UnionJoinFails(walked, parsedNow, virtualNow) ->
                 /\ phase' = "panic" /\ cause' = "join_ref"
                 /\ virtualNames' = virtualNow
                 /\ UNCHANGED <<ftm, jtm>>
            [] Len(walked) < Len(ms) ->
                 /\ phase' = "panic" /\ cause' = "union_member"
                 /\ virtualNames' = virtualNow
                 /\ UNCHANGED <<ftm, jtm>>
            [] OTHER ->
                 /\ virtualNames' = virtualNow
                 /\ jtm' = IF metas = <<>> THEN kept ELSE kept @@ (u :> metas)
                 /\ ftm' = UnionFieldTypes(u, ms) @@ ftm
                 /\ UNCHANGED <<phase, cause>>
      /\ UNCHANGED <<cur, idx, enumNames, objects, fkm>>

(* The end of the document (parser.rs:599-634): Ok(Self { .. }).          *)
Finish ==
  /\ phase = "parse"
  /\ phase' = "done"
  /\ UNCHANGED <<cause, doc, cur, idx, parsed, virtualNames, enumNames,
                 unionNames, objects, ftm, fkm, jtm>>

(* new() called with schema None (parser.rs:336 skips the whole pass):     *)
(* the empty model is built and schema.cloned().unwrap() at parser.rs:625 *)
(* panics.  The pass starts either way, so this is a choice at the start.  *)
NewWithoutSchema ==
  /\ phase = "parse" /\ doc = <<>>
  /\ phase' = "panic"
  /\ cause' = "no_schema"
  /\ UNCHANGED <<doc, cur, idx, parsed, virtualNames, enumNames, unionNames,
                 objects, ftm, fkm, jtm>>

Next ==
  \/ \E d \in Defs : ReadObject(d) \/ ReadEnum(d) \/ ReadUnion(d) \/ ReadUnsupported(d)
  \/ ObjectField
  \/ ObjectFieldAborts
  \/ Finish
  \/ NewWithoutSchema

Spec == Init /\ [][Next]_vars

-----------------------------------------------------------------------------
(***************************************************************************)
(* Properties of the model the pass returns.                               *)
(***************************************************************************)
Meta == [parent : [table : STRING, col : STRING, pos : Nat],
         child  : [table : STRING, col : STRING]]

TypeOK ==
  /\ phase \in {"parse", "object", "done", "error", "panic"}
  /\ cause \in {"none", "unsupported", "join_ref",
                 "union_member", "no_schema"}
  /\ doc \in Seq(Defs) /\ Len(doc) <= MaxDefs
  /\ parsed \subseteq TypeNames \cup FieldNamesOf(FieldShapes)
  /\ virtualNames \cup enumNames \cup unionNames \subseteq TypeNames
  /\ DOMAIN objects \subseteq TypeNames
  /\ \A k \in DOMAIN jtm : k \in TypeNames /\ jtm[k] \in Seq(Meta)
  /\ \A p \in DOMAIN ftm : ftm[p] \in TypeNames \cup Scalars

(* The definition the document gives to a declared name.                   *)
DefOf(n) == doc[CHOOSE i \in DOMAIN doc : doc[i].name = n]
DeclIndex(n) == CHOOSE i \in DOMAIN doc : doc[i].name = n
Members(u) == ToSet(DefOf(u).members)
InSomeUnion(t) == \E u \in unionNames : t \in Members(u)

(* The types that get a table (spec section 3): entity objects not        *)
(* declared @entity(virtual: true), and unions with a non-virtual member.  *)
TableTypes ==
  {t \in DOMAIN objects : DefOf(t).virtualArg # "true"}
  \cup {u \in unionNames : \E m \in Members(u) :
                             m \in DOMAIN objects /\ DefOf(m).virtualArg # "true"}

(* The ordered fields a join metadata key's positions refer to: an        *)
(* object's declared fields, or a union's merged fields.                   *)
Layout(k) == IF k \in unionNames THEN MergedFields(DefOf(k).members)
                                 ELSE objects[k]

AllMetas == UNION {ToSet(jtm[k]) : k \in DOMAIN jtm}

(* A union's relationships replace its members': once a union is built, no *)
(* member of it keeps join metadata of its own (parser.rs:510-512; spec    *)
(* section 8), so no relationship gets two join tables.                    *)
UnionSupersedesMembers ==
  phase = "done" => \A u \in unionNames : Members(u) \cap DOMAIN jtm = {}

(* Every join metadata entry points back at the field it was made from:    *)
(* its position is that of a list field, in the owner's declared order or  *)
(* the union's merged order, whose type is the child table and whose join  *)
(* column is the child column; entries are in strictly increasing          *)
(* position order, which downstream code uses to order join columns.       *)
JoinMetaLocatesListField ==
  phase = "done" =>
    \A k \in DOMAIN jtm :
      \A i \in DOMAIN jtm[k] :
        LET e == jtm[k][i]
            L == Layout(k)
            p == e.parent.pos + 1
        IN  /\ e.parent.table = Lower[k]
            /\ e.parent.col = IdCol
            /\ p \in DOMAIN L
            /\ IsListType(L[p])
            /\ e.child.table = Lower[L[p].base]
            /\ e.child.col = RefColumn(L[p])
            /\ i > 1 => jtm[k][i - 1].parent.pos < e.parent.pos

(* A join table only ever refers to a type that has a table of its own:   *)
(* the child of every join metadata entry is a non-virtual entity object   *)
(* or a non-virtual union (is_possible_foreign_key, spec section 3).       *)
ChildTablesExist ==
  phase = "done" =>
    \A e \in AllMetas : \E t \in TableTypes : Lower[t] = e.child.table

(* A list field of an object (outside any union) that refers to a table    *)
(* type declared no later than the object itself gets its join metadata,   *)
(* at the field's 0-based position.                                        *)
ListFieldHasJoinMeta(t, i) ==
  /\ t \in DOMAIN jtm
  /\ \E e \in ToSet(jtm[t]) : /\ e.parent.pos = i - 1
                               /\ e.child.table = Lower[objects[t][i].base]

JoinTableForEarlierListField ==
  phase = "done" =>
    \A t \in DOMAIN objects : ~InSomeUnion(t) =>
      \A i \in DOMAIN objects[t] :
        LET f == objects[t][i]
        IN  /\ IsListType(f)
            /\ f.base \in TableTypes
            /\ DeclIndex(f.base) <= DeclIndex(t)
            => ListFieldHasJoinMeta(t, i)

(* The spec's (section 8) unconditional form: every list field of an      *)
(* entity that refers to an entity gets its join metadata, whatever the   *)
(* order in which the two are declared.                                   *)
SpecJoinTableForListField ==
  phase = "done" =>
    \A t \in DOMAIN objects : ~InSomeUnion(t) =>
      \A i \in DOMAIN objects[t] :
        IsListType(objects[t][i]) /\ objects[t][i].base \in TableTypes
          => ListFieldHasJoinMeta(t, i)


(* No two join metadata entries name the same join table                   *)
(* (join_table_name of the parent and child tables), as the comment at     *)
(* parser.rs:493-494 requires: duplicate join tables give duplicate        *)
(* TypeIds when the SQL tables are created.                                *)
MetaIds == UNION {{<<k, i>> : i \in DOMAIN jtm[k]} : k \in DOMAIN jtm}
JoinTableName(e) == <<e.parent.table, e.child.table>>
JoinTableNamesUnique ==
  phase = "done" =>
    \A a, b \in MetaIds :
      a # b => JoinTableName(jtm[a[1]][a[2]]) # JoinTableName(jtm[b[1]][b[2]])

(* The columns the document declares before the field being walked: every *)
(* field of an entity walked earlier, the fields of the current object     *)
(* before this one, and the merged fields of a union built earlier.        *)
DeclaredBefore(b, c) ==
  \/ /\ b \in DOMAIN objects \ {cur.name}
     /\ c \in FieldNamesOf(ToSet(objects[b]))
  \/ /\ b = cur.name
     /\ \E j \in 1..(idx - 1) : cur.fields[j].name = c
  \/ /\ b \in unionNames
     /\ c \in FieldNamesOf(ToSet(MergedFields(DefOf(b).members)))

(* The expect of extract_foreign_key_info (mod.rs:136) aborts an object's  *)
(* field only when its @join(on: col) column has not been declared before  *)
(* the field in the document: a reference to a column declared earlier,    *)
(* in another entity or earlier in the same one, always resolves, so the   *)
(* abort is a matter of declaration order, never of a lost index entry.    *)
JoinAbortsOnlyOnForwardColumn ==
  /\ phase = "panic" /\ cause = "join_ref"
  /\ doc[Len(doc)].kind = "object"
  => ~DeclaredBefore(CurField.base, CurField.join)


(* The join tables the spec (section 8) asks for, computed from the whole  *)
(* document rather than step by step: for every entity object outside any *)
(* union, one per list field whose type has a table, at the field's       *)
(* 0-based declared position; for every union, one per such field of its  *)
(* merged view, at its merged position; members of a union have none.     *)
JoinTableRow(k, pos, f) ==
  [owner |-> k, parent |-> Lower[k], pcol |-> IdCol, pos |-> pos,
   child |-> Lower[f.base], ccol |-> RefColumn(f)]
SpecRows(k, L) ==
  {JoinTableRow(k, p - 1, L[p]) :
     p \in {q \in DOMAIN L : IsListType(L[q]) /\ L[q].base \in TableTypes}}
SpecJoinTables ==
  UNION {SpecRows(t, objects[t]) : t \in {o \in DOMAIN objects : ~InSomeUnion(o)}}
  \cup UNION {SpecRows(u, Layout(u)) : u \in unionNames}

(* The join metadata the pass built, one row per entry.                    *)
BuiltJoinTables ==
  UNION {{[owner |-> k, parent |-> e.parent.table, pcol |-> e.parent.col,
           pos |-> e.parent.pos, child |-> e.child.table, ccol |-> e.child.col]
          : e \in ToSet(jtm[k])} : k \in DOMAIN jtm}

(* Every list field refers to a type declared no later than the entity or *)
(* union that holds it (itself included).                                 *)
DeclaredNoLater(f, k) == f.base \in Declared /\ DeclIndex(f.base) <= DeclIndex(k)
InDependencyOrder ==
  \A k \in DOMAIN objects \cup unionNames :
    \A p \in DOMAIN Layout(k) : IsListType(Layout(k)[p]) => DeclaredNoLater(Layout(k)[p], k)

(* When the document declares every type before the list fields that refer *)
(* to it, the join metadata new() leaves is exactly the set of join tables *)
(* the spec derives from the document: none missing (a gate that read a    *)
(* stale parsed_typedef_names or virtual_type_names), none extra (a        *)
(* member's own entry left behind by the union), none with a wrong side,   *)
(* column or position (child_position in the union loop).                  *)
JoinTablesAsSpecified ==
  phase = "done" /\ InDependencyOrder => BuiltJoinTables = SpecJoinTables

(* Both sides of every join table are tables: a virtual entity, which    *)
(* never gets a table (spec section 3), owns no join metadata either, so  *)
(* no join table references a parent table that is never created.        *)
ParentTablesExist ==
  phase = "done" =>
    \A e \in AllMetas : \E t \in TableTypes : Lower[t] = e.parent.table

=============================================================================
