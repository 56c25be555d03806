---------------------------- MODULE SchemaHistory ----------------------------
(***************************************************************************)
(* What the migrations of a database promise its users, without runners,   *)
(* transactions, statements or files: it is empty or has the schema of     *)
(* some image, and an upgrade takes it in one step to the schema of an     *)
(* image that continues its rows.                                          *)
(***************************************************************************)
CONSTANT Schemas    \* [rows, tables]: the schemas that the images describe

VARIABLE schema

Init == schema = [rows |-> <<>>, tables |-> {}]

\* Every row of `rows` is a row of `more`.
Continues(more, rows) == \A i \in DOMAIN rows : i \in DOMAIN more /\ more[i] = rows[i]

Upgrade ==
    \E image \in Schemas : Continues(image.rows, schema.rows) /\ schema' = image

Spec == Init /\ [][Upgrade]_schema
=============================================================================
