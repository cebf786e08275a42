----------------------------- MODULE MCMigrations -----------------------------
(* Finite instance of Migrations for TLC. *)
EXTENDS Migrations
=============================================================================
