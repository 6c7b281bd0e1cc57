------------------------------- MODULE Routes ------------------------------
(***************************************************************************)
(* One request on its way through the routes (src/routes/signings.go,      *)
(* src/routes/types.go): scope, conductor, body, the conductor's call and  *)
(* the status its outcome is answered with.  What the calls change is in   *)
(* Conductor, Archive and ChainLock; here a call is the error it may end   *)
(* with, with the errors each one can return.                              *)
(***************************************************************************)
EXTENDS Naturals, Binding

CONSTANTS
    Logins,             \* login_method claims, one of them unknown to the gate
    Flows,              \* flows a body may name, one of them unknown
    UpstreamStatuses    \* statuses a collaborator may answer with

ASSUME RoutesAssumption == UpstreamStatuses \subseteq 200 .. 599

VARIABLES
    request,    \* the request
    pc,         \* the next check, "call", "mapErr", or "answered"
    error,      \* what the call met: <<"none", 0>>, an error, or an upstream status
    status      \* the answer; 0: not yet

rvars == <<request, pc, error, status>>

-----------------------------------------------------------------------------
(* The routes *)

scope ==
    [ createSigning |-> "create", signingStatus |-> "read", clientSignature |-> "write",
      abandonSigning |-> "write", chainFree |-> "read", validate |-> "read",
      validateDocument |-> "read", archiveTimestamp |-> "write" ]

Endpoints == DOMAIN scope

success ==
    [e \in Endpoints |-> CASE e = "createSigning" -> 201
                           [] e = "clientSignature" -> 202
                           [] e = "abandonSigning" -> 204
                           [] OTHER -> 200]

\* Variant: the flows of before the provider's CSC flows.
bodyFlows_NoCSC == {"webEid", "legacyEid", "eidScan", "eparakstsMobile", "eparakstsMobileEseal"}

bodyFlows ==
    {"webEid", "legacyEid", "eidScan", "eparakstsMobile", "eparakstsMobileEseal",
     "cscEidScan", "cscEidPlugin"}

bodyFormats      == {"PAdES", "XAdES"}
supportedFormats == {"PAdES", "XAdES"}
inBrowserFlows   == {"webEid", "legacyEid"}

\* Upstream(s) is the error of a collaborator's answer with status s.
Upstream(s) == <<"upstream", s>>
Failure(kind) == <<kind, 0>>

\* Variant: whatever is not a server error counts as an answer.
failed_ServerOnly(s) == s >= 500

\* doJSON: an answer outside 2xx is an error.
failed(s) == s < 200 \/ s >= 300

\* The calls that need nothing but the store, and those made in no user's name.
storeOnly   == {"abandonSigning", "chainFree"}
asService   == storeOnly \cup {"clientSignature"}

\* What a call to a collaborator meets (clients.go): an answer; none at all, as
\* the connection fails or the time is up; one whose body says nothing the
\* client reads; or, with no token to act on, not even an attempt.
collaboration(e) ==
    (IF e \in storeOnly THEN {}
     ELSE {Upstream(s) : s \in UpstreamStatuses} \cup {Failure("unreached"), Failure("undecodable")})
    \cup (IF e \in asService THEN {} ELSE {Failure("noToken")})

\* What a conductor's call meets: nothing, a failure of its own or its store's, a
\* collaborator's, or a sentinel.
results(e) ==
    {Failure("none"), Failure("internal")} \cup collaboration(e)
    \cup (IF e \in {"signingStatus", "clientSignature", "abandonSigning", "validate"}
          THEN {Failure("ErrNotFound"), Failure("ErrForbidden")} ELSE {})
    \cup CASE e = "createSigning"    -> {Failure("ErrSigningInProgress"), Failure("ErrDuplicate")}
           [] e = "signingStatus"    -> {Failure("ErrChainAdvanced"), Failure("ErrProviderState")}
           [] e = "validate"         -> {Failure("ErrProviderState")}
           [] e = "validateDocument" -> {Failure("ErrNothingToValidate")}
           [] e = "archiveTimestamp" -> {Failure("ErrNotArchivable")}
           [] OTHER                  -> {}

\* The gates of Begin come before anything it calls.
outcomes(q) ==
    IF q.endpoint # "createSigning" THEN results(q.endpoint)
    ELSE IF q.format \notin supportedFormats THEN {Failure("ErrUnsupportedFormat")}
    ELSE IF ~checkBinding(q.login, q.flow) THEN {Failure("ErrBindingMismatch")}
    ELSE results(q.endpoint)

\* The call returned no error.
fine(e) == e = Failure("none") \/ (e[1] = "upstream" /\ ~failed(e[2]))

-----------------------------------------------------------------------------
(* The answer *)

\* Variant: the collaborator's status is passed on as it is.
relay_Verbatim(s) == s

\* A collaborator's server error is a bad gateway here.
relay(s) == IF s >= 500 THEN 502 ELSE s

statusOf ==
    [ErrNotFound |-> 404, ErrNotArchivable |-> 422, ErrNothingToValidate |-> 422,
     ErrForbidden |-> 403, ErrBindingMismatch |-> 403, ErrUnsupportedFormat |-> 501,
     ErrSigningInProgress |-> 409, ErrChainAdvanced |-> 409]

\* Variant: an error no case names is the collaborators' fault.
mapErr_Gateway(e) ==
    IF e[1] \in DOMAIN statusOf THEN statusOf[e[1]]
    ELSE IF e[1] = "upstream" THEN relay(e[2]) ELSE 502

\* The sentinels first, then a collaborator's answer; everything else is 500, also
\* a collaborator that did not answer or not in a way the conductor could use.
mapErr(e) ==
    IF e[1] \in DOMAIN statusOf THEN statusOf[e[1]]
    ELSE IF e[1] = "upstream" THEN relay(e[2]) ELSE 500

-----------------------------------------------------------------------------
RequestType ==
    [endpoint : Endpoints, granted : SUBSET {"create", "read", "write"}, shaped : BOOLEAN,
     conductor : BOOLEAN, certificates : BOOLEAN,
     login : Logins, flow : Flows, format : {"PAdES", "XAdES", "CAdES"}]

Statuses == {0, 200, 201, 202, 204, 400, 403, 404, 409, 422, 500, 501, 502, 503}
            \cup {s \in UpstreamStatuses : 300 <= s /\ s < 500}

TypeOK ==
    /\ request \in RequestType
    /\ pc \in {"scope", "conductor", "body", "certificates", "call", "mapErr", "answered"}
    /\ status \in Statuses
    /\ status # 0 <=> pc = "answered"

Init ==
    /\ request \in RequestType
    /\ request.endpoint # "createSigning" =>
          /\ request.login = CHOOSE l \in Logins : TRUE
          /\ request.flow = CHOOSE f \in Flows : TRUE
          /\ request.format = "PAdES" /\ ~request.certificates
    /\ pc = "scope"
    /\ error = Failure("none")
    /\ status = 0

Answer(s) == pc' = "answered" /\ status' = s
GoTo(label) == pc' = label /\ UNCHANGED status

requireScope ==
    /\ pc = "scope"
    /\ IF scope[request.endpoint] \in request.granted THEN GoTo("conductor") ELSE Answer(403)
    /\ UNCHANGED <<request, error>>

conductor ==
    /\ pc = "conductor"
    /\ IF request.conductor THEN GoTo("body") ELSE Answer(503)
    /\ UNCHANGED <<request, error>>

\* A body that fails its validation is answered 422 by the framework; chainFree has
\* a query parameter instead, and answers itself when it is missing.
Validate ==
    /\ pc = "body"
    /\ IF \/ request.endpoint \in {"signingStatus", "abandonSigning"}
          \/ /\ request.shaped
             /\ request.endpoint = "createSigning" =>
                   request.flow \in bodyFlows /\ request.format \in bodyFormats
       THEN GoTo("certificates")
       ELSE Answer(IF request.endpoint = "chainFree" THEN 400 ELSE 422)
    /\ UNCHANGED <<request, error>>

\* An in-browser flow needs the card's certificates up front.
Certificates ==
    /\ pc = "certificates"
    /\ IF /\ request.endpoint = "createSigning"
          /\ request.flow \in inBrowserFlows
          /\ ~request.certificates
       THEN Answer(400) ELSE GoTo("call")
    /\ UNCHANGED <<request, error>>

Call ==
    /\ pc = "call"
    /\ error' \in outcomes(request)
    /\ IF fine(error') THEN Answer(success[request.endpoint]) ELSE GoTo("mapErr")
    /\ UNCHANGED request

Refuse ==
    /\ pc = "mapErr"
    /\ Answer(mapErr(error))
    /\ UNCHANGED <<request, error>>

Next == requireScope \/ conductor \/ Validate \/ Certificates \/ Call \/ Refuse

Spec == Init /\ [][Next]_rvars

-----------------------------------------------------------------------------
(* Properties *)

\* An answer of success stands for a call that was made and returned no error:
\* the scope was there, and what a collaborator answered, if anything, was 2xx.
SuccessMeansDone ==
    status \in 200 .. 299 =>
        /\ request.conductor /\ scope[request.endpoint] \in request.granted
        /\ error = Failure("none") \/ (error[1] = "upstream" /\ error[2] \in 200 .. 299)

\* A caller who may sign is never stopped by tables that disagree: a flow the
\* login method permits (binding.go) passes the body's list (types.go), the form
\* passes both the body's list and the conductor's, what the body lets through
\* ends at the gate and not at an unsupported form, and only the in-browser flows
\* (signings.go) are asked for certificates.
TablesAgree ==
    /\ status # 501
    /\ request.endpoint = "createSigning" /\ error = Failure("none") =>
          /\ status = 422 => \/ ~request.shaped
                             \/ request.format \notin supportedFormats
                             \/ ~checkBinding(request.login, request.flow)
          /\ status = 400 => request.flow \in inBrowserFlows /\ ~request.certificates

\* Whose failure an error is.
ByCollaborator(e) ==
    e[1] \in {"unreached", "undecodable", "ErrProviderState"} \/ (e[1] = "upstream" /\ e[2] >= 500)
ByService(e) == e[1] \in {"internal", "noToken", "ErrDuplicate"}

\* The answer blames no one who did not fail: 4xx, the caller's fault, is never
\* given for a failure of this service or of a collaborator, dead, slow or broken;
\* 502, a collaborator's fault, never for anything else, and always when one has
\* answered with a server error.  500 does not tell the two apart: a collaborator
\* that gave no usable answer ends there too (mapErr: "No downstream response").
BlameTruthful ==
    /\ status \in 400 .. 499 => ~ByService(error) /\ ~ByCollaborator(error)
    /\ status = 502 => ByCollaborator(error)
    /\ status = 500 => ByService(error) \/ ByCollaborator(error)
    /\ status # 0 /\ error[1] = "upstream" /\ error[2] >= 500 => status = 502
=============================================================================
