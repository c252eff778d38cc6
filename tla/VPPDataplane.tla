---------------------------- MODULE VPPDataplane ----------------------------
(***************************************************************************)
(* The VPP dataplane of pkg/dataplane/vpp under the calls the user plane's *)
(* handlers make: for an establishment every PDR is installed, then every  *)
(* FAR, errors ignored; for a deletion the session is deleted.  The        *)
(* handlers run on one goroutine.  Each SetPunt is a round trip to VPP,    *)
(* which may refuse it, and the process may die between two of them; what  *)
(* VPP registered stays.                                                   *)
(***************************************************************************)
EXTENDS Naturals, Sequences, FiniteSets, GoMap

CONSTANTS
  Establishment,  \* the establishment requests: [pdrs |-> seq, fars |-> seq]
  MaxPort,        \* 65535, the largest uint16
  MaxSessions,    \* bound: sessions at a time
  MaxCrashes      \* bound: crashes of the process

(***************************************************************************)
(* A PDR is [id, far, match].  A match is what configurePuntForPDR makes   *)
(* of the Application ID and the SDF filter: "l2" is a registered and      *)
(* "unknown" an unregistered Application ID, "none" neither of the two,    *)
(* "malformed" a filter parseSDFFilter rejects, and "sdf" one it accepts,  *)
(* with address family, protocol and port range; module Rules has the      *)
(* parser.  A FAR is [id, punt], punt being bit 0x02 of its ApplyAction.   *)
(***************************************************************************)
Ports == 0 .. MaxPort
Match == [kind: {"l2", "unknown", "none", "malformed", "sdf"},
          af: {4, 6}, proto: 0 .. 255, start: Ports, end: Ports]
PDR == [id: Nat, far: Nat, match: Match]
FAR == [id: Nat, punt: BOOLEAN]

ASSUME VPPAssumption ==
  /\ MaxPort \in Nat /\ MaxSessions \in Nat
  /\ \A r \in Establishment : r.pdrs \in Seq(PDR) /\ r.fars \in Seq(FAR)

VARIABLES
  upSEIDs,   \* the SEIDs in UPFunction.sessions
  sessions,  \* VPPDataplane.sessions: SEID -> sessionState
  job,       \* the request the receiving goroutine is working on
  punts,     \* what is registered in VPP
  crashes

vars == <<upSEIDs, sessions, job, punts, crashes>>

NoMatch == [kind |-> "none", af |-> 4, proto |-> 0, start |-> 0, end |-> 0]
NoPDR == [id |-> 0, far |-> 0, match |-> NoMatch]

IdleJob ==
  [pc |-> "idle", seid |-> 0,
   pdrs |-> <<>>, fars |-> <<>>, todo |-> {}, pdr |-> NoPDR, port |-> 0]

Init ==
  /\ upSEIDs = {}
  /\ sessions = EmptyMap
  /\ job = IdleJob
  /\ punts = {}
  /\ crashes = 0

-----------------------------------------------------------------------------
\* UPFunction.allocSEID.
AllocSEID ==
  CHOOSE s \in 1 .. Cardinality(upSEIDs) + 1 :
    s \notin upSEIDs /\ \A t \in 1 .. s - 1 : t \in upSEIDs

Establish(r) ==
  /\ job.pc = "idle"
  /\ Cardinality(upSEIDs) < MaxSessions
  /\ job' = [IdleJob EXCEPT !.pc = "pdrs", !.seid = AllocSEID,
                            !.pdrs = r.pdrs, !.fars = r.fars]
  /\ UNCHANGED <<upSEIDs, sessions, punts, crashes>>

NewSession == [pdrs |-> EmptyMap, fars |-> {}, puntReg |-> {}]

\* The sessionState InstallPDR works on.
SessionState ==
  IF job.seid \in DOMAIN sessions THEN sessions[job.seid] ELSE NewSession

WithPDR(st, i, p) == [st EXCEPT !.pdrs = Assign(st.pdrs, i, p)]

\* Mutant: the PDR is kept under the number of its FAR.
InstallPDRByFAR ==
  /\ job.pc = "pdrs"
  /\ job.pdrs # <<>>
  /\ LET p == Head(job.pdrs) IN
     sessions' = Assign(sessions, job.seid, WithPDR(SessionState, p.far, p))
  /\ job' = [job EXCEPT !.pdrs = Tail(@)]
  /\ UNCHANGED <<upSEIDs, punts, crashes>>

InstallPDR ==
  /\ job.pc = "pdrs"
  /\ job.pdrs # <<>>
  /\ LET p == Head(job.pdrs) IN
     sessions' = Assign(sessions, job.seid, WithPDR(SessionState, p.id, p))
  /\ job' = [job EXCEPT !.pdrs = Tail(@)]
  /\ UNCHANGED <<upSEIDs, punts, crashes>>

PDRsDone ==
  /\ job.pc = "pdrs"
  /\ job.pdrs = <<>>
  /\ job' = [job EXCEPT !.pc = "fars"]
  /\ UNCHANGED <<upSEIDs, sessions, punts, crashes>>

\* The PDRs of the session that InstallFAR configures a punt for.
PuntedBy(f) ==
  IF ~f.punt THEN {}
  ELSE {p \in Range(sessions[job.seid].pdrs) : p.far = f.id}

\* A session without PDRs is unknown here: an error, and the next FAR.
InstallFAR ==
  /\ job.pc = "fars"
  /\ job.fars # <<>>
  /\ LET f == Head(job.fars) IN
     IF job.seid \in DOMAIN sessions
     THEN /\ sessions' = [sessions EXCEPT ![job.seid].fars = @ \cup {f.id}]
          /\ job' = [job EXCEPT !.pc = "punt", !.fars = Tail(@),
                                !.todo = PuntedBy(f)]
     ELSE /\ job' = [job EXCEPT !.fars = Tail(@)]
          /\ UNCHANGED sessions
  /\ UNCHANGED <<upSEIDs, punts, crashes>>

\* Mutant: the handler gives up with the first FAR that fails.
FARReturnsForGood(j) ==
  [j EXCEPT !.pc = "fars", !.fars = <<>>, !.todo = {}, !.pdr = NoPDR,
            !.port = 0]

\* InstallFAR returns, with the first error or at the end of its loop.
FARReturns(j) ==
  [j EXCEPT !.pc = "fars", !.todo = {}, !.pdr = NoPDR, !.port = 0]

PuntsDone ==
  /\ job.pc = "punt"
  /\ job.todo = {}
  /\ job' = FARReturns(job)
  /\ UNCHANGED <<upSEIDs, sessions, punts, crashes>>

Registered(p) == p.id \in sessions[job.seid].puntReg
MarkRegistered(p) ==
  sessions' = [sessions EXCEPT ![job.seid].puntReg = @ \cup {p.id}]

\* TCP, UDP and SCTP, with a port other than 0.
HasPorts(m) == m.proto \in {6, 17, 132} /\ (m.start > 0 \/ m.end > 0)

\* An Application ID: no request to VPP yet, only the mark.
ConfigureL2Punt(p, rest) ==
  \/ p.match.kind = "l2" /\ job' = rest /\ MarkRegistered(p)
  \/ p.match.kind = "unknown" /\ job' = FARReturns(job) /\ UNCHANGED sessions

\* configurePuntForPDR, up to the first request to VPP; the loop of
\* InstallFAR takes the PDRs in any order.
ConfigurePunt(p) ==
  /\ job.pc = "punt"
  /\ p \in job.todo
  /\ LET rest == [job EXCEPT !.todo = @ \ {p}] IN
     \/ /\ Registered(p)
        /\ job' = rest /\ UNCHANGED sessions
     \/ ~Registered(p) /\ ConfigureL2Punt(p, rest)
     \/ /\ ~Registered(p) /\ p.match.kind \in {"none", "malformed"}
        /\ job' = FARReturns(job) /\ UNCHANGED sessions
     \/ /\ ~Registered(p) /\ p.match.kind = "sdf"
        /\ job' = [rest EXCEPT !.pdr = p, !.port = p.match.start,
                     !.pc = IF HasPorts(p.match) THEN "ports" ELSE "proto"]
        /\ UNCHANGED sessions
  /\ UNCHANGED <<upSEIDs, punts, crashes>>

PuntMarked(p) ==
  /\ MarkRegistered(p)
  /\ job' = [job EXCEPT !.pc = "punt", !.pdr = NoPDR, !.port = 0]

\* The registrations of one SetPunt: of a port, and of a protocol.
PortPunt == <<job.pdr.match.af, job.pdr.match.proto, job.port>>
ProtoPunt == <<job.pdr.match.af, job.pdr.match.proto>>

\* Mutant: after a refused port the range is tried again from its start.
RefusedStartsOver ==
  /\ \/ job.pc = "proto" /\ punts' \in {punts, punts \cup {ProtoPunt}}
     \/ /\ job.pc = "ports" /\ job.port <= job.pdr.match.end
        /\ punts' \in {punts, punts \cup {PortPunt}}
  /\ job' = IF job.pc = "proto" THEN FARReturns(job)
            ELSE [job EXCEPT !.port = job.pdr.match.start]
  /\ UNCHANGED <<upSEIDs, sessions, crashes>>

\* VPP refuses a registration, or the API call fails, before or after VPP
\* acted on it.
Refused ==
  /\ \/ job.pc = "proto" /\ punts' \in {punts, punts \cup {ProtoPunt}}
     \/ /\ job.pc = "ports" /\ job.port <= job.pdr.match.end
        /\ punts' \in {punts, punts \cup {PortPunt}}
  /\ job' = FARReturns(job)
  /\ UNCHANGED <<upSEIDs, sessions, crashes>>

\* One round of the loop over the ports; port is a uint16.
PuntPort ==
  /\ job.pc = "ports"
  /\ job.port <= job.pdr.match.end
  /\ punts' = punts \cup {PortPunt}
  /\ job' = [job EXCEPT !.port = (@ + 1) % (MaxPort + 1)]
  /\ UNCHANGED <<upSEIDs, sessions, crashes>>

\* Mutant: the last port of the range is left out.
PortsDoneEarly ==
  /\ job.pc = "ports"
  /\ job.port >= job.pdr.match.end
  /\ PuntMarked(job.pdr)
  /\ UNCHANGED <<upSEIDs, punts, crashes>>

PortsDone ==
  /\ job.pc = "ports"
  /\ job.port > job.pdr.match.end
  /\ PuntMarked(job.pdr)
  /\ UNCHANGED <<upSEIDs, punts, crashes>>

PuntProto ==
  /\ job.pc = "proto"
  /\ punts' = punts \cup {ProtoPunt}
  /\ PuntMarked(job.pdr)
  /\ UNCHANGED <<upSEIDs, crashes>>

\* The end of the handler: the session is kept and the answer is accepted.
Accept ==
  /\ job.pc = "fars"
  /\ job.fars = <<>>
  /\ upSEIDs' = upSEIDs \cup {job.seid}
  /\ job' = IdleJob
  /\ UNCHANGED <<sessions, punts, crashes>>

\* Mutant: the dataplane is not told.
DeleteSessionAtUPOnly(s) ==
  /\ job.pc = "idle"
  /\ upSEIDs' = upSEIDs \ {s}
  /\ UNCHANGED <<sessions, job, punts, crashes>>

\* handleSessionDeletionRequest with the DeleteSession it calls.
DeleteSession(s) ==
  /\ job.pc = "idle"
  /\ upSEIDs' = upSEIDs \ {s}
  /\ sessions' = Without(sessions, s)
  /\ UNCHANGED <<job, punts, crashes>>

Crash ==
  /\ crashes < MaxCrashes
  /\ crashes' = crashes + 1
  /\ upSEIDs' = {}
  /\ sessions' = EmptyMap
  /\ job' = IdleJob
  /\ UNCHANGED punts

HandlerStep ==
  \/ InstallPDR \/ PDRsDone \/ InstallFAR \/ PuntsDone \/ Refused
  \/ \E p \in job.todo : ConfigurePunt(p)
  \/ PuntPort \/ PortsDone \/ PuntProto \/ Accept

Next ==
  \/ HandlerStep
  \/ \E r \in Establishment : Establish(r)
  \/ \E s \in upSEIDs : DeleteSession(s)
  \/ Crash

Spec == Init /\ [][Next]_vars

\* The handler's goroutine runs, and VPP replies to every request.
FairSpec == Spec /\ WF_vars(HandlerStep)

-----------------------------------------------------------------------------
\* Type correctness of the dataplane and of the handler's progress.
TypeOK ==
  /\ upSEIDs \subseteq 1 .. MaxSessions
  /\ DOMAIN sessions \subseteq 1 .. MaxSessions
  /\ \A s \in DOMAIN sessions :
       /\ \A i \in DOMAIN sessions[s].pdrs :
            sessions[s].pdrs[i] \in PDR /\ sessions[s].pdrs[i].id = i
       /\ sessions[s].puntReg \subseteq DOMAIN sessions[s].pdrs
  /\ job.pc \in {"idle", "pdrs", "fars", "punt", "ports", "proto"}
  /\ job.pdr \in PDR /\ job.port \in Ports

\* What has to be registered in VPP for a match.
Needed(m) ==
  IF HasPorts(m) THEN {<<m.af, m.proto, q>> : q \in m.start .. m.end}
  ELSE {<<m.af, m.proto>>}

(***************************************************************************)
(* puntReg is what configurePuntForPDR trusts to skip a PDR: a PDR marked  *)
(* there, and matched by an SDF filter, has all of its ports, or its       *)
(* protocol, registered in VPP, whichever registrations VPP refused, in    *)
(* whatever order the PDRs came, and across reuse of SEIDs and crashes.    *)
(***************************************************************************)
PuntComplete ==
  \A s \in DOMAIN sessions : \A i \in sessions[s].puntReg :
    LET m == sessions[s].pdrs[i].match IN
    m.kind = "sdf" => Needed(m) \subseteq punts

(***************************************************************************)
(* allocSEID asks the user plane's sessions only.  The SEID it hands to a  *)
(* handler is nevertheless unused in the dataplane, so that no PDR and no  *)
(* puntReg of an earlier session leaks into a new one.                     *)
(***************************************************************************)
FreshSEID ==
  /\ DOMAIN sessions \subseteq upSEIDs \cup {job.seid}
  /\ job.pc # "idle" => job.seid \notin upSEIDs
  /\ job.pc = "idle" => job.seid \notin DOMAIN sessions

(***************************************************************************)
(* Seen by sessions the user plane holds, the dataplane is the atomic      *)
(* SessionTable: although the rules come one by one and VPP refuses some   *)
(* punts, the session has all the rules of one request and no other once   *)
(* the handler is done, and nobody sees it before.  PDRs under one ID are  *)
(* the last one; without a PDR the dataplane knows no session and drops    *)
(* the FARs.                                                               *)
(***************************************************************************)
LastByID(pdrs) ==
  [i \in {pdrs[k].id : k \in DOMAIN pdrs} |->
     pdrs[CHOOSE k \in DOMAIN pdrs :
            pdrs[k].id = i /\ \A l \in k + 1 .. Len(pdrs) : pdrs[l].id # i]]
RulesOf(r) ==
  [pdrs |-> LastByID(r.pdrs),
   fars |-> IF r.pdrs = <<>> THEN {} ELSE {r.fars[k].id : k \in DOMAIN r.fars}]
AllRules == {RulesOf(r) : r \in Establishment}
InstalledFor(s) ==
  IF s \in DOMAIN sessions
  THEN [pdrs |-> sessions[s].pdrs, fars |-> sessions[s].fars]
  ELSE [pdrs |-> NewSession.pdrs, fars |-> NewSession.fars]

Table == INSTANCE SessionTable WITH
  SEID <- 1 .. MaxSessions,
  RuleSets <- AllRules,
  table <- [s \in upSEIDs |-> InstalledFor(s)]

ImplementsSessionTable == Table!Spec

(***************************************************************************)
(* The handler, and with it the receiving goroutine of the user plane,     *)
(* finishes every establishment, as long as VPP replies.                   *)
(***************************************************************************)
HandlerEnds == job.pc # "idle" ~> job.pc = "idle"

(***************************************************************************)
(* test/docker/test-session.go:81 reports "PFCP session deleted", and      *)
(* DeleteSession logs "Cleaning up PDR": nothing stays registered in VPP   *)
(* for a session that is gone.  DeleteSession asks nothing of VPP.         *)
(***************************************************************************)
NoPuntWithoutSession ==
  \A q \in punts : \E s \in DOMAIN sessions :
    \E i \in DOMAIN sessions[s].pdrs : q \in Needed(sessions[s].pdrs[i].match)
=============================================================================
