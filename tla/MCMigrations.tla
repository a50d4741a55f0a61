---------------------------- MODULE MCMigrations ----------------------------
(* The server and an account command, and a schema of three versions. *)
EXTENDS Migrations
=============================================================================
