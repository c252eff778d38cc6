---------------------------- MODULE PFCPMessages ----------------------------
(***************************************************************************)
(* The messages the control and the user plane exchange, as the            *)
(* constructors of pkg/protocol/messages.go build them, and the processes  *)
(* that send them.  A message body keeps what some code looks at: the      *)
(* type, the SEID of the header, whether there is a Cause IE and its       *)
(* value, and the rules (the PDRs and FARs) of an establishment.  The SEID *)
(* the user plane allocates travels in an F-SEID that no code reads.       *)
(***************************************************************************)
EXTENDS Transport, GoMap, FiniteSets

CONSTANTS
  UP,       \* the user plane nodes; also the goroutine each one sends from
  CP,       \* the control plane
  Worker,   \* the goroutines that serve gRPC calls at the control plane
  HB,       \* the goroutine of CPFunction.heartbeatLoop
  Rules,    \* what a client may ask a session to contain
  NoRules,  \* the rules of every other message
  MaxRequests  \* bound: MaxRequests[e] requests by e in one life

NoCause == 0
CauseRequestAccepted == 1

Body(type, seid, cause, rules) ==
  [type |-> type, seid |-> seid, cause |-> cause, rules |-> rules]

\* Mutants: requests that carry a Cause IE.
HeartbeatRequestWithCause ==
  Body("HeartbeatRequest", 0, CauseRequestAccepted, NoRules)
AssociationSetupRequestWithCause ==
  Body("AssociationSetupRequest", 0, CauseRequestAccepted, NoRules)

HeartbeatRequest == Body("HeartbeatRequest", 0, NoCause, NoRules)
HeartbeatResponse == Body("HeartbeatResponse", 0, NoCause, NoRules)

AssociationSetupRequest == Body("AssociationSetupRequest", 0, NoCause, NoRules)
AssociationSetupResponse(cause) ==
  Body("AssociationSetupResponse", 0, cause, NoRules)

AssociationReleaseRequest ==
  Body("AssociationReleaseRequest", 0, NoCause, NoRules)
AssociationReleaseResponse(cause) ==
  Body("AssociationReleaseResponse", 0, cause, NoRules)

SessionEstablishmentRequest(seid, rules) ==
  Body("SessionEstablishmentRequest", seid, NoCause, rules)
SessionEstablishmentResponse(seid, cause) ==
  Body("SessionEstablishmentResponse", seid, cause, NoRules)

SessionDeletionRequest(seid) ==
  Body("SessionDeletionRequest", seid, NoCause, NoRules)
SessionDeletionResponse(seid, cause) ==
  Body("SessionDeletionResponse", seid, cause, NoRules)

\* The SEIDs that can be in a header: 0, or one of the user plane's.
HeaderSEID == 0 .. MaxSeqNum

RequestBody ==
  {HeartbeatRequest, AssociationSetupRequest, AssociationReleaseRequest}
    \cup {SessionEstablishmentRequest(0, r) : r \in Rules}
    \cup {SessionDeletionRequest(s) : s \in HeaderSEID}

ResponseBody ==
  LET ok == CauseRequestAccepted IN
  {HeartbeatResponse, AssociationSetupResponse(ok),
   AssociationReleaseResponse(ok)}
    \cup {SessionEstablishmentResponse(s, ok) : s \in HeaderSEID}
    \cup {SessionDeletionResponse(s, ok) : s \in HeaderSEID}

\* The transports of the system: who sends, and what they carry.  A process
\* has finitely many goroutines at a time.
ASSUME PFCPAssumption ==
  /\ IsFiniteSet(Worker) /\ IsFiniteSet(UP)
  /\ Endpoint = {CP} \cup UP /\ CP \notin UP
  /\ Caller = Worker \cup {HB} \cup UP
  /\ HB \notin Worker \cup UP /\ Worker \cap UP = {}
  /\ Home = [c \in Caller |-> IF c \in UP THEN c ELSE CP]
  /\ Request = RequestBody
  /\ Response = ResponseBody
  /\ MaxRequests \in [Endpoint -> 1 .. MaxSeqNum - 1]

\* A call answered with a Cause IE that says accepted.
Accepted(c) ==
  /\ call[c].resp # <<>>
  /\ call[c].resp[1].body.cause = CauseRequestAccepted

\* handleMessage found no pending request and a handler for this type.
HandledAs(e, m, type) == m.dst = e /\ m.body.type = type
=============================================================================
