------------------------------ MODULE Binding ------------------------------
(***************************************************************************)
(* The binding gate (src/orchestrator/binding.go): which signing flows a   *)
(* session may use, by the login method it was authenticated with.         *)
(***************************************************************************)

\* The fixed table; a login method that is not in it permits nothing.
permitted ==
    [ webEid          |-> {"webEid", "cscEidPlugin"},
      legacyEid       |-> {"legacyEid", "cscEidPlugin"},
      eidScan         |-> {"eidScan", "cscEidScan"},
      eparakstsMobile |-> {"eparakstsMobile", "eparakstsMobileEseal"} ]

permittedFlows(loginMethod) ==
    IF loginMethod \in DOMAIN permitted THEN permitted[loginMethod] ELSE {}

\* The gate is open (checkBinding returns no error).
checkBinding(loginMethod, flow) == flow \in permittedFlows(loginMethod)
=============================================================================
