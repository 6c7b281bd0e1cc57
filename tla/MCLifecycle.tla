---------------------------- MODULE MCLifecycle ----------------------------
(* Instances of Lifecycle for TLC. *)
EXTENDS Lifecycle

All == Collaborators

\* Every way to name the database, with a full set of collaborators and the
\* durable outbox; then deployments that leave something out.
AllDeployments ==
    [dsn : {"none", "env", "file", "both"}, urls : {All}, broker : {TRUE}, outbox : {TRUE}]
        \cup [dsn : {"file"}, urls : SUBSET All, broker : {FALSE}, outbox : {FALSE}]
        \cup [dsn : {"env"}, urls : {All}, broker : {TRUE}, outbox : {FALSE}]
=============================================================================
