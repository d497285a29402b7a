------------------------------ MODULE MCMigrate ------------------------------
(* The repository's five files: two no-transaction files of two statements *)
(* between files in a transaction.                                         *)
EXTENDS Migrate

MCStatements == <<2, 2, 2, 2, 1>>
=============================================================================
