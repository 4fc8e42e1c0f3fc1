------------------------- MODULE JoinTableRegistry -------------------------
(***************************************************************************)
(* What the naming of join tables promises its consumers: every join      *)
(* table a schema creates is registered with the two type names it joins, *)
(* and reading a table's type names back returns exactly those two.  This *)
(* is the design the spec recommends (section 4.5: persist the two names  *)
(* alongside the table name); JoinTableNaming recovers them from the name *)
(* instead, and is checked to implement this registry on the names where  *)
(* that can work.                                                          *)
(***************************************************************************)
EXTENDS Naturals, Sequences

CONSTANTS
    Names,      \* the table names relationships may join
    MaxTables,  \* number of join tables a schema creates
    Pending     \* the type names have not been read back yet

VARIABLE tables   \* sequence of [parent, child, typedefs]

Init == tables = <<>>

\* A relationship between two tables gets its join table.
Register(a, b) ==
    /\ Len(tables) < MaxTables
    /\ tables' = Append(tables, [parent |-> a, child |-> b, typedefs |-> Pending])

\* A consumer asks which two tables a join table joins.
Lookup(i) ==
    /\ tables[i].typedefs = Pending
    /\ tables' = [tables EXCEPT ![i].typedefs = <<tables[i].parent, tables[i].child>>]

Next ==
    \/ \E a, b \in Names : Register(a, b)
    \/ \E i \in DOMAIN tables : Lookup(i)

Spec == Init /\ [][Next]_tables

=============================================================================
