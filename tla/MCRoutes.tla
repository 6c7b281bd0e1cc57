------------------------------ MODULE MCRoutes -----------------------------
(* The routes with every login method and flow, and one of each unknown. *)
EXTENDS Routes

MCLogins == DOMAIN permitted \cup {"none"}
MCFlows  == bodyFlows \cup UNION {permitted[l] : l \in DOMAIN permitted} \cup {"other"}
MCStatuses == {200, 201, 299, 300, 304, 400, 404, 409, 422, 500, 503, 504}
=============================================================================
