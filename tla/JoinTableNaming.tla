-------------------------- MODULE JoinTableNaming --------------------------
(***************************************************************************)
(* The naming of many-to-many join tables (fuel-indexer-lib, lib.rs).      *)
(*                                                                         *)
(*   join_table_name(a, b)          = "{a}s_{b}s"                          *)
(*   join_table_typedefs_name(name) = split name on '_', take the first    *)
(*                                    two parts, drop the last byte of each *)
(*                                                                         *)
(* JoinTableMeta::table_name (parser.rs) calls join_table_name with the    *)
(* lowercased parent and child type names, so the arguments here are table *)
(* names.  A name is a sequence of characters drawn from Chars; the model  *)
(* records every join table a schema creates and, for each, what the      *)
(* inverse recovers from its name.  A slice a[0..a.len() - 1] of an empty  *)
(* part panics (usize underflow in debug builds, out-of-range slice in     *)
(* release builds), so both builds reach the same outcome, Panic.          *)
(***************************************************************************)
EXTENDS Naturals, Sequences, SequencesExt

CONSTANTS
    Chars,      \* the characters a table name is made of
    MaxLen,     \* longest table name considered
    MaxTables,  \* number of join tables a schema creates
    Pending,    \* model value: the name has not been read back yet
    Panic       \* model value: join_table_typedefs_name panicked

ASSUME MaxLen \in Nat \ {0} /\ MaxTables \in Nat \ {0}

VARIABLE tables   \* sequence of [parent, child, name, typedefs]

\* The two literal characters of the format string "{}s_{}s".
Sep == "_"
Plural == "s"

Names == UNION {[1..n -> Chars] : n \in 1..MaxLen}

HasSep(s) == \E i \in DOMAIN s : s[i] = Sep

\* str::split(c): the maximal pieces between occurrences of c, in order;
\* a string without c is one piece, and adjacent separators give "".
RECURSIVE SplitOn(_, _)
SplitOn(s, c) ==
    LET i == SelectInSeq(s, LAMBDA x : x = c)
    IN  IF i = 0 THEN <<s>>
        ELSE <<SubSeq(s, 1, i - 1)>> \o SplitOn(SubSeq(s, i + 1, Len(s)), c)

\* join_table_name: format!("{}s_{}s", a, b)
JoinTableName(a, b) == a \o <<Plural, Sep>> \o b \o <<Plural>>

TypedefsNameNoTrim(name) ==
    LET parts == SplitOn(name, Sep)
    IN  IF Len(parts) < 2 THEN Panic ELSE <<parts[1], parts[2]>>

\* join_table_typedefs_name: the second next().unwrap() panics on a name
\* without '_'; trimming the plural 's' panics on an empty part.
TypedefsName(name) ==
    LET parts == SplitOn(name, Sep)
    IN  IF Len(parts) < 2 \/ parts[1] = <<>> \/ parts[2] = <<>> THEN Panic
        ELSE <<Front(parts[1]), Front(parts[2])>>

Init == tables = <<>>

\* JoinTableMeta::table_name for one relationship of the schema.
CreateJoinTable(a, b) ==
    /\ Len(tables) < MaxTables
    /\ tables' = Append(tables, [parent |-> a, child |-> b,
                                 name |-> JoinTableName(a, b),
                                 typedefs |-> Pending])

\* A consumer recovering the two type names from a join table's name.
RecoverTypedefs(i) ==
    /\ tables[i].typedefs = Pending
    /\ tables' = [tables EXCEPT ![i].typedefs = TypedefsName(tables[i].name)]

Next ==
    \/ \E a, b \in Names : CreateJoinTable(a, b)
    \/ \E i \in DOMAIN tables : RecoverTypedefs(i)

Spec == Init /\ [][Next]_tables

-----------------------------------------------------------------------------

Plain(t) == ~HasSep(t.parent) /\ ~HasSep(t.child)

\* The join tables whose two names contain no '_', in creation order.
PlainTables == SelectSeq(tables, Plain)

Registry == INSTANCE JoinTableRegistry
    WITH Names  <- {n \in Names : ~HasSep(n)},
         tables <- [i \in DOMAIN PlainTables |->
                      [parent   |-> PlainTables[i].parent,
                       child    |-> PlainTables[i].child,
                       typedefs |-> PlainTables[i].typedefs]]

\* For tables whose names contain no '_', naming a join table with
\* join_table_name and reading it back with join_table_typedefs_name
\* implements the registry of JoinTableRegistry: every read returns exactly
\* the two names the table was created from.  Tables with a '_' in a name
\* are stuttering steps of the registry.
RefinesRegistry == Registry!Spec

\* join_table_name never gives two relationships between different pairs of
\* tables the same join table, whatever the names (GraphQL type names may
\* contain '_').
JoinTableNamesDistinct ==
    \A i, j \in DOMAIN tables :
        <<tables[i].parent, tables[i].child>> # <<tables[j].parent, tables[j].child>>
            => tables[i].name # tables[j].name

=============================================================================
