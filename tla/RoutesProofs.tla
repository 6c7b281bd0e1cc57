---------------------------- MODULE RoutesProofs ----------------------------
(***************************************************************************)
(* Proofs about Routes for any login methods and flows a request may name  *)
(* and any statuses the collaborators may answer with.                     *)
(***************************************************************************)
EXTENDS Routes, TLAPS

-----------------------------------------------------------------------------
(* The tables *)

\* A flow some login method permits is one the body's list knows.
LEMMA PermittedInBody ==
  ASSUME NEW l, NEW f, checkBinding(l, f)
  PROVE  f \in bodyFlows
<1>1. l \in {"webEid", "legacyEid", "eidScan", "eparakstsMobile"} /\ f \in permitted[l]
  BY DEF checkBinding, permittedFlows, permitted
<1>2. CASE l = "webEid"
  BY <1>1, <1>2 DEF permitted, bodyFlows
<1>3. CASE l = "legacyEid"
  BY <1>1, <1>3 DEF permitted, bodyFlows
<1>4. CASE l = "eidScan"
  BY <1>1, <1>4 DEF permitted, bodyFlows
<1>5. CASE l = "eparakstsMobile"
  BY <1>1, <1>5 DEF permitted, bodyFlows
<1> QED
  BY <1>1, <1>2, <1>3, <1>4, <1>5

\* The sentinels' statuses; only an unsupported form is 501.
LEMMA SentinelStatus ==
  ASSUME NEW k \in DOMAIN statusOf
  PROVE  /\ statusOf[k] \in {403, 404, 409, 422, 501}
         /\ statusOf[k] = 501 => k = "ErrUnsupportedFormat"
         /\ k \notin {"none", "internal", "upstream", "unreached", "undecodable", "noToken",
                       "ErrProviderState", "ErrDuplicate"}
  BY DEF statusOf

\* The statuses of success.
LEMMA SuccessStatus ==
  ASSUME NEW e \in Endpoints
  PROVE  success[e] \in {200, 201, 202, 204}
  BY DEF success

\* The errors that are not a collaborator's answer.
Kinds == {"none", "internal", "noToken", "unreached", "undecodable", "ErrProviderState",
          "ErrDuplicate"} \cup DOMAIN statusOf

\* A collaborator's answer is none of them.
LEMMA UpstreamNoKind == "upstream" \notin Kinds
  BY SentinelStatus DEF Kinds

\* A call meets a collaborator's answer or one of the errors; a form it does not
\* support is met only when one was asked for.
LEMMA OutcomeForm ==
  ASSUME NEW q \in RequestType, NEW e \in outcomes(q)
  PROVE  /\ \/ \E k \in Kinds : e = Failure(k)
            \/ \E s \in UpstreamStatuses : e = Upstream(s)
         /\ e[1] = "ErrUnsupportedFormat" => q.endpoint = "createSigning"
                                             /\ q.format \notin supportedFormats
<1>1. ASSUME NEW n \in Endpoints, e \in results(n)
      PROVE  /\ \/ \E k \in Kinds : e = Failure(k)
                \/ \E s \in UpstreamStatuses : e = Upstream(s)
             /\ e[1] # "ErrUnsupportedFormat"
  <2>1. \/ \E s \in UpstreamStatuses : e = Upstream(s)
        \/ e \in {Failure("none"), Failure("internal"), Failure("ErrNotFound"),
                  Failure("ErrForbidden")}
        \/ e \in {Failure("unreached"), Failure("undecodable"), Failure("noToken")}
        \/ e \in {Failure("ErrSigningInProgress"), Failure("ErrDuplicate"),
                  Failure("ErrChainAdvanced"), Failure("ErrProviderState"),
                  Failure("ErrNothingToValidate"), Failure("ErrNotArchivable")}
    BY <1>1 DEF results, collaboration
  <2> QED
    BY <2>1 DEF Failure, Upstream, Kinds, statusOf
<1>2. q.endpoint \in Endpoints
  BY DEF RequestType
<1>3. CASE e \in results(q.endpoint)
  BY <1>1, <1>2, <1>3
<1>4. CASE e = Failure("ErrBindingMismatch")
  BY <1>4 DEF Failure, Kinds, statusOf
<1>5. CASE e = Failure("ErrUnsupportedFormat") /\ q.endpoint = "createSigning"
           /\ q.format \notin supportedFormats
  BY <1>5 DEF Failure, Kinds, statusOf
<1> QED
  BY <1>3, <1>4, <1>5 DEF outcomes

\* What a failed call is answered with.
LEMMA RefusalStatus ==
  ASSUME NEW e, ~fine(e),
         \/ \E k \in Kinds : e = Failure(k)
         \/ \E s \in UpstreamStatuses : e = Upstream(s)
  PROVE  /\ mapErr(e) \in Statuses \ {0, 200, 201, 202, 204}
         /\ mapErr(e) \notin 200 .. 299
         /\ mapErr(e) = 501 => e[1] = "ErrUnsupportedFormat"
         /\ mapErr(e) \in 400 .. 499 => ~ByService(e) /\ ~ByCollaborator(e)
         /\ mapErr(e) = 502 => ByCollaborator(e)
         /\ mapErr(e) = 500 => ByService(e) \/ ByCollaborator(e)
         /\ e[1] = "upstream" /\ e[2] >= 500 => mapErr(e) = 502
<1>1. CASE e[1] \in DOMAIN statusOf
  <2>1. mapErr(e) = statusOf[e[1]]
    BY <1>1 DEF mapErr
  <2>2. ~ByService(e) /\ ~ByCollaborator(e) /\ e[1] # "upstream"
    BY <1>1, SentinelStatus DEF ByService, ByCollaborator
  <2> QED
    BY <1>1, <2>1, <2>2, SentinelStatus DEF Statuses
<1>2. ASSUME NEW k \in Kinds, e = Failure(k), e[1] \notin DOMAIN statusOf
      PROVE  mapErr(e) = 500 /\ e[1] # "upstream" /\ (ByService(e) \/ ByCollaborator(e))
  <2>1. e[1] = k /\ k \in {"internal", "noToken", "unreached", "undecodable",
                          "ErrProviderState", "ErrDuplicate"}
    BY <1>2 DEF Failure, Kinds, fine
  <2> QED
    BY <1>2, <2>1 DEF mapErr, ByService, ByCollaborator
<1>3. ASSUME NEW s \in UpstreamStatuses, e = Upstream(s)
      PROVE  /\ e[1] = "upstream" /\ e[2] = s /\ s \in 300 .. 599
             /\ mapErr(e) = IF s >= 500 THEN 502 ELSE s
             /\ ~ByService(e) /\ (ByCollaborator(e) <=> s >= 500)
  <2>1. e[1] = "upstream" /\ e[2] = s /\ s \in 200 .. 599
    BY <1>3, RoutesAssumption DEF Upstream
  <2>2. s >= 300
    BY <2>1 DEF fine, failed
  <2>3. e[1] \notin DOMAIN statusOf
    BY <2>1, SentinelStatus
  <2> QED
    BY <2>1, <2>2, <2>3 DEF mapErr, relay, ByService, ByCollaborator
<1>4. CASE e[1] \notin DOMAIN statusOf
  <2>1. CASE \E k \in Kinds : e = Failure(k)
    BY <1>2, <1>4, <2>1 DEF Statuses
  <2>2. CASE \E s \in UpstreamStatuses : e = Upstream(s)
    BY <1>3, <2>2 DEF Statuses
  <2> QED
    BY <2>1, <2>2
<1> QED
  BY <1>1, <1>4

-----------------------------------------------------------------------------
(* The inductive invariant: what each check leaves established *)

\* Why a createSigning is answered 422, and why 400.
BodyRefused ==
    ~request.shaped \/ request.flow \notin bodyFlows \/ request.format \notin bodyFormats
CardMissing == request.flow \in inBrowserFlows /\ ~request.certificates

\* Past its check, a request has passed it.
ChecksPassed ==
    /\ pc \in {"conductor", "body", "certificates", "call", "mapErr"} =>
          scope[request.endpoint] \in request.granted
    /\ pc \in {"body", "certificates", "call", "mapErr"} => request.conductor
    /\ pc \in {"certificates", "call", "mapErr"} /\ request.endpoint = "createSigning" =>
          request.format \in bodyFormats

\* An answer is a check's refusal, the route's success, or what the error of its
\* call maps to.
Explained ==
    \/ status \in {403, 503} /\ error = Failure("none")
    \/ status = 422 /\ error = Failure("none") /\ (request.endpoint = "createSigning" => BodyRefused)
    \/ status = 400 /\ error = Failure("none") /\ (request.endpoint = "createSigning" => CardMissing)
    \/ /\ status = success[request.endpoint]
       /\ request.conductor /\ scope[request.endpoint] \in request.granted
       /\ fine(error) /\ error \in outcomes(request)
    \/ /\ status = mapErr(error)
       /\ request.endpoint = "createSigning" => request.format \in bodyFormats
       /\ ~fine(error) /\ error \in outcomes(request)

RoutesInv ==
    /\ request \in RequestType
    /\ pc \in {"scope", "conductor", "body", "certificates", "call", "mapErr", "answered"}
    /\ pc \notin {"mapErr", "answered"} => error = Failure("none")
    /\ pc = "mapErr" => ~fine(error) /\ error \in outcomes(request)
    /\ IF pc = "answered" THEN Explained ELSE status = 0
    /\ ChecksPassed

\* A request that has come in has met nothing yet.
LEMMA InitInv == Init => RoutesInv
  BY DEF Init, RoutesInv, ChecksPassed

\* Every check establishes what the later ones and the answer rely on.
LEMMA NextInv ==
  ASSUME RoutesInv, [Next]_rvars
  PROVE  RoutesInv'
<1>1. CASE requireScope
  BY <1>1 DEF requireScope, GoTo, Answer, RoutesInv, ChecksPassed, Explained
<1>2. CASE conductor
  BY <1>2 DEF conductor, GoTo, Answer, RoutesInv, ChecksPassed, Explained
<1>3. CASE Validate
  BY <1>3 DEF Validate, GoTo, Answer, RoutesInv, ChecksPassed, Explained, BodyRefused
<1>4. CASE Certificates
  BY <1>4 DEF Certificates, GoTo, Answer, RoutesInv, ChecksPassed, Explained, CardMissing
<1>5. CASE Call
  BY <1>5 DEF Call, GoTo, Answer, RoutesInv, ChecksPassed, Explained
<1>6. CASE Refuse
  BY <1>6 DEF Refuse, Answer, RoutesInv, ChecksPassed, Explained
<1>7. CASE UNCHANGED rvars
  BY <1>7 DEF rvars, RoutesInv, ChecksPassed, Explained, BodyRefused, CardMissing
<1> QED
  BY <1>1, <1>2, <1>3, <1>4, <1>5, <1>6, <1>7 DEF Next

\* The invariant holds in every reachable state.
LEMMA InvHolds == Spec => []RoutesInv
  BY InitInv, NextInv, PTL DEF Spec

-----------------------------------------------------------------------------
(* The theorems *)

\* What an answer says, by the way it came about.
LEMMA AnswerForm ==
  ASSUME RoutesInv
  PROVE  \/ status = 0
         \/ status \in {400, 403, 422, 503} /\ error = Failure("none")
         \/ status \in {200, 201, 202, 204} /\ fine(error) /\ error \in outcomes(request)
         \/ status = mapErr(error) /\ ~fine(error) /\ error \in outcomes(request)
<1>1. request.endpoint \in Endpoints
  BY DEF RoutesInv, RequestType
<1> QED
  BY <1>1, SuccessStatus DEF RoutesInv, Explained

\* An answer has one of the routes' own statuses or a collaborator's refusal,
\* never a collaborator's success or server error as it came.
THEOREM TypeCorrect == Spec => []TypeOK
<1>1. RoutesInv => TypeOK
  <2> SUFFICES ASSUME RoutesInv PROVE TypeOK
    OBVIOUS
  <2>1. request \in RequestType
    BY DEF RoutesInv
  <2>2. \/ status = 0
        \/ status \in {400, 403, 422, 503, 200, 201, 202, 204}
        \/ status \in Statuses \ {0, 200, 201, 202, 204}
    BY <2>1, AnswerForm, OutcomeForm, RefusalStatus
  <2>3. pc = "answered" => status # 0
    <3> SUFFICES ASSUME pc = "answered" PROVE status # 0
      OBVIOUS
    <3>1. success[request.endpoint] # 0
      BY <2>1, SuccessStatus DEF RequestType
    <3>2. ~fine(error) /\ error \in outcomes(request) => mapErr(error) # 0
      BY <2>1, OutcomeForm, RefusalStatus
    <3> QED
      BY <3>1, <3>2 DEF RoutesInv, Explained
  <2> QED
    BY <2>1, <2>2, <2>3 DEF RoutesInv, TypeOK, Statuses
<1> QED
  BY <1>1, InvHolds, PTL

\* A success is answered only for a call that was admitted and went through,
\* whatever statuses the collaborators use.
THEOREM SuccessIsDone == Spec => []SuccessMeansDone
<1>1. RoutesInv => SuccessMeansDone
  <2> SUFFICES ASSUME RoutesInv, status \in 200 .. 299
               PROVE  /\ request.conductor /\ scope[request.endpoint] \in request.granted
                      /\ \/ error = Failure("none")
                         \/ error[1] = "upstream" /\ error[2] \in 200 .. 299
    BY DEF SuccessMeansDone
  <2>1. request \in RequestType
    BY DEF RoutesInv
  <2>2. ~fine(error) /\ error \in outcomes(request) => mapErr(error) \notin 200 .. 299
    BY <2>1, OutcomeForm, RefusalStatus
  <2>3. /\ request.conductor /\ scope[request.endpoint] \in request.granted
        /\ fine(error) /\ error \in outcomes(request)
    BY <2>2 DEF RoutesInv, Explained
  <2>4. CASE error = Failure("none")
    BY <2>3, <2>4
  <2>5. CASE error # Failure("none")
    <3>1. error[1] = "upstream" /\ ~failed(error[2])
      BY <2>3, <2>5 DEF fine
    <3>2. PICK s \in UpstreamStatuses : error = Upstream(s)
      BY <2>1, <2>3, <3>1, OutcomeForm, UpstreamNoKind DEF Failure
    <3>3. error[2] = s /\ s \in 200 .. 599
      BY <3>2, RoutesAssumption DEF Upstream
    <3> QED
      BY <2>3, <3>1, <3>3 DEF failed
  <2> QED
    BY <2>4, <2>5
<1> QED
  BY <1>1, InvHolds, PTL

\* The body's lists never stop a caller whom the gate would let through, and
\* never let through a form the conductor refuses, for any names in use.
THEOREM NoTableInTheWay == Spec => []TablesAgree
<1>1. RoutesInv => TablesAgree
  <2> SUFFICES ASSUME RoutesInv PROVE TablesAgree
    OBVIOUS
  <2>1. request \in RequestType
    BY DEF RoutesInv
  <2>2. status # 501
    <3> SUFFICES ASSUME status = 501 PROVE FALSE
      OBVIOUS
    <3>1. ~fine(error) /\ error \in outcomes(request) /\ mapErr(error) = 501
      BY AnswerForm
    <3>2. request.endpoint = "createSigning" /\ request.format \notin supportedFormats
      BY <2>1, <3>1, OutcomeForm, RefusalStatus
    <3>3. request.format \in bodyFormats
      BY <2>1, <3>2, SuccessStatus DEF RoutesInv, Explained, RequestType
    <3> QED
      BY <3>2, <3>3 DEF bodyFormats, supportedFormats
  <2>3. ASSUME request.endpoint = "createSigning", error = Failure("none")
        PROVE  /\ status = 422 => \/ ~request.shaped
                                 \/ request.format \notin supportedFormats
                                 \/ ~checkBinding(request.login, request.flow)
               /\ status = 400 => request.flow \in inBrowserFlows /\ ~request.certificates
    <3>1. fine(error)
      BY <2>3 DEF fine
    <3>2. success[request.endpoint] \notin {400, 422}
      BY <2>1, SuccessStatus DEF RequestType
    <3>3. (status = 422 => BodyRefused) /\ (status = 400 => CardMissing)
      BY <2>3, <3>1, <3>2 DEF RoutesInv, Explained
    <3> QED
      BY <3>3, PermittedInBody DEF BodyRefused, CardMissing, bodyFormats, supportedFormats
  <2> QED
    BY <2>2, <2>3 DEF TablesAgree
<1> QED
  BY <1>1, InvHolds, PTL

\* No answer blames the caller for what a collaborator or this service did, nor a
\* collaborator for anything else, whatever statuses the collaborators use.
THEOREM BlameRight == Spec => []BlameTruthful
<1>1. RoutesInv => BlameTruthful
  <2> SUFFICES ASSUME RoutesInv PROVE BlameTruthful
    OBVIOUS
  <2>1. request \in RequestType
    BY DEF RoutesInv
  <2>2. CASE status = mapErr(error) /\ ~fine(error) /\ error \in outcomes(request)
    BY <2>1, <2>2, OutcomeForm, RefusalStatus DEF BlameTruthful
  <2>3. CASE status \in {400, 403, 422, 503} /\ error = Failure("none")
    BY <2>3 DEF BlameTruthful, Failure, ByService, ByCollaborator
  <2>4. CASE status \in {200, 201, 202, 204} /\ fine(error) /\ error \in outcomes(request)
    <3>1. ASSUME error[1] = "upstream"
          PROVE  ~(error[2] >= 500)
      <4>1. PICK s \in UpstreamStatuses : error = Upstream(s)
        BY <2>1, <2>4, <3>1, OutcomeForm, UpstreamNoKind DEF Failure
      <4>2. error[2] = s /\ s \in 200 .. 599
        BY <4>1, RoutesAssumption DEF Upstream
      <4> QED
        BY <2>4, <3>1, <4>2 DEF fine, failed, Failure
    <3> QED
      BY <2>4, <3>1 DEF BlameTruthful
  <2>5. CASE status = 0
    BY <2>5 DEF BlameTruthful
  <2> QED
    BY <2>2, <2>3, <2>4, <2>5, AnswerForm
<1> QED
  BY <1>1, InvHolds, PTL
=============================================================================
