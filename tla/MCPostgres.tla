----------------------------- MODULE MCPostgres -----------------------------
(* Constants of the model-checked instances of Postgres.                   *)
EXTENDS Postgres

\* Two major versions; "stuck15" never gets scheduled.
ServerMajor == [i \in Images |-> IF i = "pg16" THEN 16 ELSE 15]
=============================================================================
