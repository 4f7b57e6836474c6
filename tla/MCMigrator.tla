----------------------------- MODULE MCMigrator -----------------------------
(***************************************************************************)
(* Two processes on one file, two tenants.                                 *)
(***************************************************************************)
EXTENDS Migrator

CONSTANTS p1, p2

MCProcess == {p1, p2}
MCTenant == {"default", "acme"}
=============================================================================
