------------------------------- MODULE Tables -------------------------------
(***************************************************************************)
(* SQLite tables as the specifications of this project use them: a table   *)
(* is a function from the primary keys that have a row to the rows.        *)
(*   SELECT ... WHERE key = k        k \in DOMAIN table, table[k]          *)
(*   INSERT / UPDATE of the row k    Put(table, k, row)                    *)
(*   DELETE ... WHERE Test(row)      Keep(table, LAMBDA row : ~Test(row))  *)
(* The schema is in src/portal/store.py, lines 13-47.                      *)
(***************************************************************************)
EXTENDS Functions

\* f is a table whose keys are drawn from Keys and whose rows are in Rows.
IsTable(f, Keys, Rows) ==
  /\ DOMAIN f \subseteq Keys
  /\ f \in [DOMAIN f -> Rows]

EmptyTable == [k \in {} |-> k]

Put(table, k, row) ==
  [x \in DOMAIN table \cup {k} |-> IF x = k THEN row ELSE table[x]]

\* Change(table, S, f): UPDATE of the rows whose key is in S. Keys of S that
\* have no row are ignored, as an UPDATE that matches nothing is no error.
Change(table, S, f(_)) ==
  [x \in DOMAIN table |-> IF x \in S THEN f(table[x]) ELSE table[x]]

Keep(table, Test(_)) == RestrictValues(table, Test)
=============================================================================
