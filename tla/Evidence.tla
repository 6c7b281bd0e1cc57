------------------------------ MODULE Evidence -----------------------------
(***************************************************************************)
(* The evidence the routes emit around the conductor's calls               *)
(* (src/routes/signings.go, src/audit/audit.go): what became of the        *)
(* binding decision of a Begin, and every validation that was performed.   *)
(* An event goes out after the conductor's call has returned, so an        *)
(* instance that dies in between emits nothing, and a broker that refuses  *)
(* it is only logged.                                                      *)
(***************************************************************************)
EXTENDS Conductor

CONSTANTS
    EmitFails,  \* TRUE: an emission may fail, or no broker is configured
    Verdicts    \* what a validation may find: TRUE is PASSED

VARIABLES
    assurance,  \* assurance[a]: the assurance event emitted for attempt a
    answered,   \* attempts whose createSigning request is over
    verdict,    \* verdict[n]: stored validation result n says PASSED
    owed,       \* owed[r]: validation result request r returned and has yet
                \* to emit; 0: none
    events      \* the validation events emitted, in order

evars == <<vars, assurance, answered, verdict, owed, events>>

EventType == [sig : Nat, report : Nat, passed : Verdicts]    \* 0, 0: a document

EvidenceTypeOK ==
    /\ assurance \in [Attempts -> {"none", "bound", "rejected"}]
    /\ answered \subseteq Attempts
    /\ verdict \in Seq(Verdicts) /\ Len(verdict) = Len(reports)
    /\ owed \in [Requests -> 0 .. Len(reports)]
    /\ events \in Seq(EventType)

EvidenceInit ==
    /\ Init
    /\ assurance = [a \in Attempts |-> "none"]
    /\ answered = {}
    /\ verdict = <<>>
    /\ owed = [r \in Requests |-> 0]
    /\ events = <<>>

-----------------------------------------------------------------------------
(* createSigning *)

\* Variants: whatever became of an accepted Begin is passed on; a signing that
\* could not begin is reported as bound as well.
decision_Outcome(a) == IF Accepts(a) THEN att[a].pc ELSE "none"
decision_Passed(a) == IF Accepts(a) THEN "bound" ELSE "rejected"

\* What the event says: the gate's refusal, or that the job is bound.  Any other
\* end of Begin, an unsupported form included, emits nothing.
decision(a) ==
    CASE att[a].pc = "bound" -> "bound"
      [] att[a].pc = "rejected" /\ input[a].format \in Formats -> "rejected"
      [] OTHER -> "none"

Emitted == IF EmitFails THEN BOOLEAN ELSE {TRUE}

\* Begin has returned: the event, then the answer.
AnswerBegin(a) ==
    /\ att[a].pc \in BeginEnded
    /\ a \notin answered
    /\ answered' = answered \cup {a}
    /\ \E e \in Emitted :
          assurance' = IF e THEN [assurance EXCEPT ![a] = decision(a)] ELSE assurance
    /\ UNCHANGED <<vars, verdict, owed, events>>

\* The instance dies between the return of Begin and the event.
LoseAssurance(a) ==
    /\ "crash" \in Faults
    /\ att[a].pc \in BeginEnded
    /\ answered' = answered \cup {a}
    /\ UNCHANGED <<vars, assurance, verdict, owed, events>>

-----------------------------------------------------------------------------
(* signingStatus, validate, validateDocument *)

\* Variants: the newest stored result is taken for the one just obtained; only
\* an on-demand validation hands its result on.
resultOf_OnDemand(r) == IF req[r].op = "validate" THEN req[r].rep ELSE 0
resultOf_Newest(r) == Len(reports)

\* The validation result the handler of r returned.
resultOf(r) == req[r].rep

\* What a step of the conductor hands to the routes.  A stored result carries
\* the provider's verdict; a handler whose link of it succeeds returns it, and one
\* that saw the link fail, though it took effect, returns no result.
Returned ==
    /\ IF reports' = reports
       THEN verdict' = verdict
       ELSE \E v \in Verdicts : verdict' = Append(verdict, v)
    /\ \E lost \in BOOLEAN :
          /\ lost => "lostReply" \in Faults
          /\ owed' = [r \in Requests |->
                        IF req[r].pc = "link" /\ req'[r] # req[r] /\ sigs' # sigs /\ ~lost
                        THEN resultOf(r)
                        ELSE owed[r]]
    /\ UNCHANGED <<assurance, answered, events>>

ConductorStep == Next /\ Returned

\* The event tells of the result that was returned, whatever is linked by now.
eventOf(r) == [sig |-> reports[owed[r]], report |-> owed[r], passed |-> verdict[owed[r]]]

\* ValidationPerformed, for a signing that completed or on demand.
EmitValidation(r) ==
    /\ owed[r] # 0
    /\ owed' = [owed EXCEPT ![r] = 0]
    /\ \E e \in Emitted : events' = IF e THEN Append(events, eventOf(r)) ELSE events
    /\ UNCHANGED <<vars, assurance, answered, verdict>>

LoseValidation(r) ==
    /\ "crash" \in Faults
    /\ owed[r] # 0
    /\ owed' = [owed EXCEPT ![r] = 0]
    /\ UNCHANGED <<vars, assurance, answered, verdict, events>>

\* ValidateDocument answers without keeping anything; only the event is left.
ValidateDocument(r, v) ==
    /\ "validate" \in Ops
    /\ req[r].pc = "idle"
    /\ End(r)
    /\ \/ /\ chain[v].kind # "source"
          /\ \E e \in Emitted, p \in Verdicts :
                events' = IF e THEN Append(events, [sig |-> 0, report |-> 0, passed |-> p])
                               ELSE events
       \/ UNCHANGED events
    /\ UNCHANGED <<input, att, jobs, sigs, reports, lock, provider, chain, told, abandoned>>
    /\ UNCHANGED <<assurance, answered, verdict, owed>>

-----------------------------------------------------------------------------
EvidenceNext ==
    \/ ConductorStep
    \/ \E a \in Attempts : AnswerBegin(a) \/ LoseAssurance(a)
    \/ \E r \in Requests : EmitValidation(r) \/ LoseValidation(r)
    \/ \E r \in Requests, v \in 1 .. Latest : ValidateDocument(r, v)

EvidenceSpec == EvidenceInit /\ [][EvidenceNext]_evars

\* A handler that runs gets to its next call, since every call has a time limit,
\* and goes on to emit and answer.
EvidenceFairness ==
    /\ \A a \in Attempts : WF_evars((BeginStep(a) /\ Returned) \/ AnswerBegin(a))
    /\ \A r \in Requests : WF_evars((RequestStep(r) /\ Returned) \/ EmitValidation(r))

FairEvidence == EvidenceSpec /\ EvidenceFairness

-----------------------------------------------------------------------------
(* Properties *)

\* An assurance event keeps telling the truth: "rejected" stands for a login
\* that does not permit the flow and for which no provider work ever starts, and
\* "bound" for a stored job of a permitted one, also when Begin failed half way
\* or its instance died.
AssuranceTruthful ==
    \A a \in Attempts :
        /\ assurance[a] = "rejected" =>
              /\ ~checkBinding(input[a].login, input[a].flow)
              /\ provider[a] = "none" /\ jobs[a] = "none"
        /\ assurance[a] = "bound" =>
              /\ checkBinding(input[a].login, input[a].flow)
              /\ jobs[a] # "none"

\* A validation event names a stored result, produced for the very signature it
\* names, with that result's verdict, although validations of one signature
\* overlap and overwrite each other's link; no result is reported twice.
ValidationBacked ==
    \A j \in 1 .. Len(events) :
        events[j].report # 0 =>
            /\ events[j].report \in 1 .. Len(reports)
            /\ events[j].sig = reports[events[j].report]
            /\ events[j].passed = verdict[events[j].report]
            /\ \A k \in 1 .. Len(events) : events[k].report = events[j].report => j = k

\* A signature whose record links a validation result has an event, once the
\* broker takes events and no instance dies (a request inserts one record at
\* most, which bounds their number).
ValidationReported ==
    \A k \in 1 .. Cardinality(Requests) :
        k <= Len(sigs) /\ sigs[k].report # 0 ~> \E j \in 1 .. Len(events) : events[j].sig = k
=============================================================================
