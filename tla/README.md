# TLA+ models of the fuel-indexer schema layer

These modules model `ParsedGraphQLSchema::new`, its query helpers, the
`GraphQLSchema` wrapper and join-table naming. The centre is `ParsedGraphQLSchema::new`
(`packages/fuel-indexer-lib/src/graphql/parser.rs`) and the foreign-key helpers
it calls (`graphql/mod.rs`). The constructor reads an indexer's GraphQL schema
and derives everything the indexer later uses to build SQL tables and
relationships:

- which types are objects, enums, unions and virtual types;
- the foreign-key mappings;
- the join-table metadata for many-to-many relationships.

## The system and its parts

| Part | Source | Role |
|---|---|---|
| Schema construction pass | `parser.rs` 304-635 | One forward walk over the document's type definitions. It fills `parsed_typedef_names`, `objects`, `virtual_typedefs`, `enum_names`, `union_names`, `field_type_mappings`, `foreign_key_mappings` and `join_table_meta`. |
| Foreign-key resolver | `mod.rs` 109-172 | `extract_foreign_key_info` resolves a field to (referenced table, referenced column). It reads `field_type_mappings` and panics (`expect`, line 136) when a `@join(on: col)` names a column not yet indexed. `is_list_type` counts brackets. |
| Join-table deriver | `parser.rs` 92-135, 400-418, 479-590 | For an object, one `JoinTableMeta` per list field whose type passes the foreign-key gate. For a union, metadata over the merged member fields, replacing the members' own metadata. |
| Union validator | `GraphQLSchemaValidator` (not under `src/`) | Checks that a union's members are all virtual or all non-virtual. It is modelled from the spec. Its result is discarded: the call at `parser.rs` 488-491 has no `?`. |
| Query helpers | `parser.rs` 637-829 | Read-only lookups over the built model. |
| Schema wrapper and version | `mod.rs` 21-107 | Injects `IndexMetadataEntity` and hashes the text to a version. |
| Naming helpers | `lib.rs` 39-66 | `type_id`, the namespace string, and join-table names. |
| Native handler | `fuel-indexer-macros/src/native.rs` | The generated `handle_events` sets a `static mut db` on first call, then runs the user's handler. Not modelled (see below). |
| Fuel types, e2e tests | `fuel-indexer-types`, `fuel-indexer-tests` | Data carriers, and tests against Postgres. These are not modelled (see below). |

How the parts interact:

- The construction pass is sequential, and the order of definitions in the document is its only source of "interleaving".
- The query helpers are called after it returns. The properties compare their answers with what the pass recorded while its model was half-built.
- Join tables are named by `join_table_name`. Consumers read the type names back with `join_table_typedefs_name`.
- The foreign-key gate at `parser.rs` 392-399 reads `parsed_typedef_names` *as built so far*. That set holds the entity types already walked and also every field name already walked.
- `extract_foreign_key_info` reads `field_type_mappings` as built so far.
- A union looks its members up in `objects` (an `expect` at line 516) and then removes their join metadata.

Most hazards come from this dependence on document order.

## Modules

### `SchemaParser.tla`: the construction pass

State (`VARIABLES`) and the code it corresponds to:

| Variable | Code |
|---|---|
| `phase` | Where the constructor is. `"parse"` and `"object"` are inside the loop. The terminal phases are `"done"` (returns `Ok`), `"error"` (returns `Err`) and `"panic"` (an `expect` fired). |
| `cause` | Which error or panic it was. |
| `doc` | The definitions read so far, in document order. |
| `cur`, `idx` | The object whose field loop is running, and the index of its next field. |
| `parsed` | `parsed_typedef_names` |
| `virtualNames`, `enumNames`, `unionNames` | `virtual_typedefs`, `enum_names`, `union_names` |
| `objects` | `objects`: entity name to its field sequence. |
| `ftm` | `field_type_mappings`: keyed by <<type, field>>, holding the base type name. |
| `fkm` | `foreign_key_mappings`: lowercased table to field to <<ref table, ref column>>. |
| `jtm` | `join_table_meta`: type name to a sequence of `JoinTableMeta` records. |

The document is not fixed in advance. `Reading(d)` chooses the next definition from `Defs`, the records a document can contain given the constants. So one run covers every document of up to `MaxDefs` definitions over the given names and field shapes. A field is abstracted to (name, base type, list depth, `@join` column). A GraphQL type string is abstracted to base name plus bracket depth, and `to_lowercase` to a constant function `Lower`.

| Action | Code |
|---|---|
| `ReadObject(d)` | `TypeKind::Object` arm, 344-362. Only `@entity` objects are recorded. |
| `ObjectField` | One iteration of the field loop, 363-460, including the whole `extract_foreign_key_info` call and the join push. |
| `ObjectFieldAborts` | The same iteration when the `@join` column is not indexed: the `expect` at `mod.rs` 136. |
| `ReadEnum(d)` | 462-478 |
| `ReadUnion(d)` | The whole union arm, 479-590, with its outcomes as CASE arms: join panic, missing-member panic, or success (the validator's verdict on mixed members is discarded, so it never ends the pass) with merged join metadata, member-metadata removal and field-type caching. |
| `ReadUnsupported(d)` | 591-593, for interface and other kinds. |
| `Finish` | End of the loop, 599-634. |
| `NewWithoutSchema` | `new` called with `schema: None`. Line 336 skips the whole pass, and `schema.cloned().unwrap()` at 625 panics. It is a choice the model makes at the start. |

**What the pass should produce.** `SpecJoinTables` is the set of join tables the spec (section 8) derives from the whole document, written as one set comprehension rather than step by step:

- for each entity object outside every union, one row per list field whose type has a table, at the field's declared position;
- for each union, one row per such field of its merged view, at the field's merged position.

`BuiltJoinTables` is the same rows read from `jtm`. `JoinTablesAsSpecified` states that the two are equal whenever the document is in dependency order, that is, every list field's type is declared no later than its owner. The `fwd_ref` finding shows why that precondition is needed.

`PROJECT.json` maps each definition to the lines it translates.

`MC_SchemaParser.tla` gives the constants:

- two entity names `A` and `B`, and a union name `U`;
- the scalar `ID`;
- the field names `f` and `g`;
- field shapes that include lists of both entities, a scalar, a one-to-one reference, and a list with `@join(on: f)`.

### `SchemaQueries.tla`: the query helpers

This module EXTENDS `SchemaParser` and states the read-only helpers of
`ParsedGraphQLSchema` (`parser.rs` 709-829) as operators over the pass's
state. The properties ask them questions only once `phase = "done"`, which is
when downstream code calls them.

| Operator | Code |
|---|---|
| `IsEnumTypedef`, `IsVirtualTypedef`, `IsPossibleForeignKeyQuery` | `is_enum_typedef`, `is_virtual_typedef`, `is_possible_foreign_key` (the method, 758-773) |
| `ListFieldTypes` | `list_field_types`, as filled by the field loop (373-379) |
| `RefColType` | the column type `extract_foreign_key_info` reports (`mod.rs` 132-149) |
| `ScalarTypeFor` | `scalar_type_for` (709-742). The `expect` on a missing `@join` column is `QueryAbort`. |
| `FieldType`, `TypedefType`, `GraphqlType` | `field_type`, `typedef_type`, `graphql_type` (598-606, 791-819). `TypedefType` returns a set because `typedef_names_to_types` is folded from a `HashMap`, so when two names lowercase alike, either one may be kept. |

`MC_SchemaParser.tla` EXTENDS `SchemaQueries`, so every MC run can check both
the pass's own properties and the query properties.

### `JoinTableNaming.tla`: join-table names (`lib.rs` 53-66)

- `JoinTableName(a, b)` is `format!("{}s_{}s", a, b)`, written as sequence concatenation.
- `TypedefsName(name)` is `join_table_typedefs_name`. It splits on `_` with the RECURSIVE `SplitOn`, which has `str::split` semantics: adjacent separators give empty pieces. It then takes two pieces and drops the last character of each.
- A missing second piece (the `unwrap`) or an empty piece (the slice `[0..len-1]` underflows) gives the model value `Panic`.

The variable `tables` is the sequence of join tables a schema creates.

| Action | Code |
|---|---|
| `CreateJoinTable(a, b)` | `JoinTableMeta::table_name`, `parser.rs` 116-119 |
| `RecoverTypedefs(i)` | a consumer calling `join_table_typedefs_name` on that name |

Names are every string of length up to `MaxLen` over `Chars`.

### `JoinTableRegistry.tla`: what join-table naming promises

This is the abstract specification. It is written from the spec (section 4.5),
which recommends storing the two type names with each join table.

- The variable `tables` holds `[parent, child, typedefs]` records.
- `Register(a, b)` adds a join table.
- `Lookup(i)` returns exactly `<<parent, child>>`.

`JoinTableNaming` instantiates it as `Registry == INSTANCE JoinTableRegistry WITH ...`. The refinement mapping keeps only the tables whose two names contain no `_` (`PlainTables`) and drops the generated name. The property `RefinesRegistry == Registry!Spec` says:

- creating or reading back a table with a `_` in a name is a stuttering step of the registry;
- on every other table, `join_table_typedefs_name` behaves as the registry's lookup.

### `SchemaVersion.tla`: the `GraphQLSchema` wrapper (`mod.rs` 21-107)

- Schema text is a sequence of tokens, and `Fragment` is the injected `IndexMetadataEntity` definition.
- SHA-256 is idealised as collision-free: `Digest(s)` is a record holding `s`. Any version collision the model finds therefore comes from what is hashed, not from the hash.
- The variable `made` is the set of wrappers built so far.

| Action | Code |
|---|---|
| `MakeNew(c)` | `GraphQLSchema::new` (80-86). It hashes the injected text. |
| `MakeFrom(c)` | `From<String>` (72-78). It injects, but hashes the text as given. |
| `Reload(w)` | `From<&GraphQLSchema> for Vec<u8>` (97-101), then `From<String>` on those bytes: a stored schema being read back. |

## Runs

| Run | Module | Expect | Checks |
|---|---|---|---|
| `object_pass` | MC_SchemaParser | pass | `TypeOK`; `JoinMetaLocatesListField` (every join meta sits at the position of a list field whose type and referenced column match); `ChildTablesExist` (join and foreign-key targets are tables); `JoinTableForEarlierListField` (a list field to an entity declared earlier always gets join metadata); `JoinAbortsOnlyOnForwardColumn` (the `expect` at `mod.rs` 136 aborts a field only when its `@join` column is not declared before it in the document, whether in an earlier entity, earlier in the same entity, or in an earlier union). |
| `union_pass` | MC_SchemaParser | pass | `UnionSupersedesMembers` (no union member keeps its own join metadata); `JoinMetaLocatesListField` over merged union positions; `ChildTablesExist`; `JoinTablesAsSpecified` (for documents in dependency order, the join metadata of objects and unions, with merged positions, is exactly the spec's set of join tables). |
| `fwd_ref` | MC_SchemaParser | violation | `SpecJoinTableForListField`: the spec says every list field to an entity gets a join table. The code drops it when the entity is declared later. |
| `dup_join_table` | MC_SchemaParser | violation | `JoinTableNamesUnique`: `A{f:[A], g:[A]}` yields two metas with the same join table name, contrary to the comment at `parser.rs` 493. |
| `field_name_type` | MC_SchemaParser | violation | `ChildTablesExist`: a field named `B` makes a later `[B]` field a relationship to a non-existent table. |
| `query_abort` | MC_SchemaParser | violation | `QueriesTotalAfterSuccess`: `B{g:[A] @join(on: f)}` followed by `A{g: ID}` builds `Ok`. Its foreign-key check was skipped because `A` came later, and `scalar_type_for` then panics on that field. |
| `union_field_type` | MC_SchemaParser | violation | `UnionFieldTypeMatchesJoinTable`: a union's field type is cached from the last member that has the field, while its join metadata comes from the first. |
| `naming_pass` | JoinTableNaming | pass | `RefinesRegistry`: on names without `_`, naming with `join_table_name` and reading back with `join_table_typedefs_name` implements `JoinTableRegistry`. |
| `naming_collision` | JoinTableNaming | violation | `JoinTableNamesDistinct`: `("xs_", "x")` and `("x", "s_x")` both name the join table `xs_s_xs`. |
| `version_reload` | SchemaVersion | violation | `VersionIdentifiesSchema`: reloading a `new()`-made schema keeps its version but injects the fragment a second time. |
| `fk_enum` | MC_SchemaParser | violation | `ForeignKeysRecognisedByQueries` (every foreign key `new()` recorded is typed by `scalar_type_for`, asked afterwards, as a reference to the mapped column): in `A{B: ID, f:[B]}` followed by `enum B`, the gate at `parser.rs` 394 took the field name `B` for a type, and `scalar_type_for` later types `A.f` as an enum column. |
| `virtual_owner` | MC_SchemaParser | violation | `ParentTablesExist`: in `A{f:[A]}` followed by `B @entity(virtual: true){f:[A]}`, `B` gets join metadata whose parent table `b` is never created (spec section 3). |

The findings in `PROJECT.json` give the file and line of each violation, and
the statement it contradicts. Each property of a passing run has a mutant in
`PROJECT.json`: a plausible bug in the mapped code under which TLC finds that
property violated.

### Bounds and why they suffice

**`object_pass`, `query_abort`, `virtual_owner`, `fk_enum` and `field_name_type`** use up to 2 definitions with up to 2 fields each.

- Every hazard of the object path needs at most two types: forward or backward reference, self reference, two lists to one type, a field named like a type, and a `@join` before or after its column.
- Every hazard also needs at most two fields: list position 0 versus 1, and a scalar before a list.

**`union_pass` and `union_field_type`** use 3 definitions with up to 2 members.

- Two objects followed by a union over them is the smallest case where merged positions, first-occurrence deduplication and member-metadata removal all matter.
- A union before its members is also reached.

**`naming_pass`** uses names of length up to 2 over `x`, `s` and `_`.

- This covers names ending in the plural `s`, and every name with a separator. The refinement maps these to stuttering steps, but the model still reads them back, including the panics.
- It checks two tables, so that a table with a `_` before a plain one shifts the plain one's index under the refinement mapping.

**`naming_collision`** needs length 3 and two tables. That is the shortest collision.

**`version_reload`** uses one token, texts of length up to 2, and 3 wrappers. Two steps reach the collision.

Larger bounds multiply states without adding new orderings.

## Fairness and termination

Every modelled part is sequential, terminating code (or a bounded number of
calls of it), so no fairness is assumed and no liveness property is stated.
The terminal states have no successor, which is why the cfgs say
`CHECK_DEADLOCK FALSE`.

## Not modelled, and why

- **`type_id` and the namespace string**: a hash truncated to an integer, and `format!`. Neither has control flow.
  - `fully_qualified_namespace` has the same `_` ambiguity that `naming_collision` shows for join tables. It is listed as a hazard.
  - The `as usize` cast of a type id in `fuel.rs` is also listed as a hazard.
- **`ExecutionSource`**: a plain enum.
- **Fuel data types**: plain conversions.
- **e2e tests**: they need Postgres and a Fuel node.
- **The native handler** (`fuel-indexer-macros/src/native.rs`): the generated `handle_events` tests and sets a `static mut db` and runs the user's handler. Nothing in this repository calls `handle_events`, so whether calls ever overlap depends on an executor outside it. Called one at a time, the test and the assignment have nothing to get wrong, and the rest of the macro only emits tokens.
- **`has_type`, the accessors, and indices nothing reads**: lookups with no control flow of interest.
- **Nested lists (`[[A]]`)**: `[[A]]` to an entity becomes a plain foreign key, and `scalar_type_for` types its column `[[A]]`. The spec leaves nested lists to the validator outside `src/`, so the runs keep list depth at 0 and 1 (see the hazard).
- **`schema: None`**: modelled as `NewWithoutSchema`. It always ends in the panic, so no property can tell a correct version of the code from a wrong one, and one unit test reaches it.
- **`virtual: false`, and a virtual entity without fields** (`parser.rs` 386): the first is marked virtual and the second is not. The passing runs use `virtual: true` with at least one field, so `JoinTablesAsSpecified` is checked only for those documents.
- **Non-type definitions** (`schema`, directive definitions): skipped silently at `parser.rs` 342. The spec would reject them, but only 12 runs are kept, so this is a hazard note.
- **`MAX_FOREIGN_KEY_LIST_FIELDS`**: declared but never read by the modelled code.
- **Type names that lowercase alike** (`typedef_type`, `parser.rs` 604): `TypedefType` returns every candidate, as `graphql_type` may get either, but no run asks for this yet.
- **Some earlier violation runs were dropped to keep the set of runs small.** Their hazards are listed with a note:
  - a union whose members each have a self-referential list field;
  - `virtual: false` treated as virtual;
  - a missing union member panicking instead of returning `UnionMemberNotFound`. `union_pass` reaches that panic; the spec's wish for an error instead is a hazard note.

## Plan for further work

1. **Union tables' foreign keys**: the union path writes no `foreign_key_mappings` entry under the union's table.
2. **A run over type names that lowercase alike**, through `GraphqlType(none, name)`.
3. **A missing union member as a reported error** rather than a panic, if a run slot frees up.
