---------------------------- MODULE MCAdminAuth ----------------------------
(* Instances of AdminAuth for TLC. *)
EXTENDS AdminAuth

\* A script of one statement and one of several, as in app/migrations.
MCStatements == <<1, 3, 2>>
=============================================================================
