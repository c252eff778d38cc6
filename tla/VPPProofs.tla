------------------------------ MODULE VPPProofs ------------------------------
(***************************************************************************)
(* Proofs about VPPDataplane, for every set of establishment requests, any *)
(* number of sessions and ports, and any number of refusals and crashes.   *)
(***************************************************************************)
EXTENDS VPPDataplane, FiniteSetTheorems, WellFoundedInduction, TLAPS

\* How long a prover may take for one step.
USE SMTT(30), ZenonT(30)

\* What the dataplane keeps of one session.
SessionOK(st) ==
  /\ st \in [pdrs: {st.pdrs}, fars: {st.fars}, puntReg: {st.puntReg}]
  /\ st.pdrs = [i \in DOMAIN st.pdrs |-> st.pdrs[i]]
  /\ \A i \in DOMAIN st.pdrs : st.pdrs[i] \in PDR /\ st.pdrs[i].id = i
  /\ st.puntReg \subseteq DOMAIN st.pdrs

JobRecord ==
  [pc: {"idle", "pdrs", "fars", "punt", "ports", "proto"},
   seid: 0 .. MaxSessions, pdrs: Seq(PDR), fars: Seq(FAR),
   todo: SUBSET PDR, pdr: PDR, port: Ports]

Types ==
  /\ upSEIDs \subseteq 1 .. MaxSessions
  /\ sessions = [s \in DOMAIN sessions |-> sessions[s]]
  /\ DOMAIN sessions \subseteq 1 .. MaxSessions
  /\ \A s \in DOMAIN sessions : SessionOK(sessions[s])
  /\ job \in JobRecord

\* p is a PDR of the session the handler works on.
Held(p) ==
  /\ job.seid \in DOMAIN sessions
  /\ p.id \in DOMAIN sessions[job.seid].pdrs
  /\ sessions[job.seid].pdrs[p.id] = p

(***************************************************************************)
(* Where the handler is.  No PDR is marked before the last one is in, so   *)
(* no marked PDR is ever replaced; and in the loop over the ports those    *)
(* below the counter are registered.                                       *)
(***************************************************************************)
HandlerOK ==
  /\ (job.pc = "idle") <=> (job.seid = 0)
  /\ job.pc = "pdrs" /\ job.seid \in DOMAIN sessions =>
       sessions[job.seid].puntReg = {}
  /\ job.pc \in {"punt", "ports", "proto"} =>
       job.seid \in DOMAIN sessions /\ \A p \in job.todo : Held(p)
  /\ job.pc \in {"ports", "proto"} => Held(job.pdr)
  /\ job.pc = "ports" =>
       /\ HasPorts(job.pdr.match)
       /\ \A q \in Ports : job.pdr.match.start <= q /\ q < job.port =>
            <<job.pdr.match.af, job.pdr.match.proto, q>> \in punts
  /\ job.pc = "proto" => ~HasPorts(job.pdr.match)

\* The inductive invariant.
VPPInv == Types /\ HandlerOK /\ FreshSEID /\ PuntComplete

-----------------------------------------------------------------------------
\* allocSEID finds a number: so many sessions cannot use one more than that.
LEMMA SEIDExists ==
  ASSUME IsFiniteSet(upSEIDs)
  PROVE  \E s \in 1 .. Cardinality(upSEIDs) + 1 : s \notin upSEIDs
<1> DEFINE n == Cardinality(upSEIDs)
           S == 1 .. n + 1
<1>0. n \in Nat
  BY FS_CardinalityType
<1>1. IsFiniteSet(S) /\ Cardinality(S) = n + 1
  BY <1>0, FS_Interval
<1>2. ASSUME S \subseteq upSEIDs PROVE FALSE
  <2>1. Cardinality(S) <= n
    BY <1>2, FS_Subset, Zenon
  <2> QED
    BY <1>0, <1>1, <2>1
<1> QED
  BY <1>2

\* The SEID it returns is the least one that is free.
LEMMA AllocSEIDFresh ==
  ASSUME upSEIDs \subseteq 1 .. MaxSessions, Cardinality(upSEIDs) < MaxSessions
  PROVE  /\ AllocSEID \in 1 .. MaxSessions /\ AllocSEID \notin upSEIDs
         /\ \A t \in 1 .. AllocSEID - 1 : t \in upSEIDs
<1> DEFINE n == Cardinality(upSEIDs)
           T == {s \in 1 .. n + 1 : s \notin upSEIDs}
<1>0. IsFiniteSet(upSEIDs) /\ n \in Nat
  <2>1. IsFiniteSet(1 .. MaxSessions)
    BY VPPAssumption, FS_Interval
  <2> QED
    BY <2>1, FS_Subset, FS_CardinalityType, Zenon
<1> HIDE DEF n
<1>1. PICK s \in T : \A t \in T : ~ (t < s)
  <2> DEFINE F == {1 .. t : t \in T}
  <2>1. T \subseteq Nat /\ T # {}
    BY <1>0, SEIDExists DEF n
  <2>2. F \subseteq FiniteSubsetsOf(Nat) /\ F # {}
    <3>1. ASSUME NEW t \in T PROVE IsFiniteSet(1 .. t) /\ 1 .. t \subseteq Nat
      BY <2>1, FS_Interval
    <3> QED
      BY <2>1, <3>1 DEF FiniteSubsetsOf
  <2>3. PICK X \in F : \A Y \in F : ~ (<<Y, X>> \in StrictSubsetOrdering(Nat))
    <3> HIDE DEF F
    <3> QED
      BY <2>2, FS_StrictSubsetOrderingWellFounded, WFMin
  <2>4. PICK s \in T : X = 1 .. s
    OBVIOUS
  <2>5. ASSUME NEW t \in T, t < s PROVE FALSE
    <3>1. 1 .. t \subseteq 1 .. s /\ s \in 1 .. s /\ s \notin 1 .. t
      BY <2>5, <1>0
    <3>2. <<1 .. t, 1 .. s>> \in StrictSubsetOrdering(Nat)
      BY <2>1, <3>1 DEF StrictSubsetOrdering
    <3> QED
      BY <2>3, <2>4, <3>2, Zenon
  <2> QED
    BY <2>5
<1>2. \A t \in 1 .. s - 1 : t \in upSEIDs
  BY <1>0, <1>1
<1>3. /\ AllocSEID \in 1 .. n + 1 /\ AllocSEID \notin upSEIDs
      /\ \A t \in 1 .. AllocSEID - 1 : t \in upSEIDs
  BY <1>1, <1>2 DEF AllocSEID, n
<1>4. n + 1 <= MaxSessions
  BY <1>0, VPPAssumption DEF n
<1> QED
  BY <1>0, <1>3, <1>4, VPPAssumption

\* A user plane begins with no session.
LEMMA VPPInit == Init => VPPInv
<1> SUFFICES ASSUME Init PROVE VPPInv
  OBVIOUS
<1>1. NoPDR \in PDR
  BY VPPAssumption DEF NoPDR, NoMatch, PDR, Match, Ports
<1>2. IdleJob \in JobRecord
  BY <1>1, VPPAssumption DEF IdleJob, JobRecord, Ports
<1>3. Types
  BY <1>2 DEF Init, Types, EmptyMap
<1>4. HandlerOK /\ FreshSEID /\ PuntComplete
  BY DEF Init, HandlerOK, FreshSEID, PuntComplete, IdleJob, EmptyMap
<1> QED
  BY <1>3, <1>4 DEF VPPInv

-----------------------------------------------------------------------------
\* What the steps of the handler do to its locals keeps their types.
LEMMA JobTypes ==
  ASSUME NEW j \in JobRecord
  PROVE  /\ \A pc \in {"idle", "pdrs", "fars", "punt", "ports", "proto"} :
              [j EXCEPT !.pc = pc] \in JobRecord
         /\ \A n \in 0 .. MaxSessions : [j EXCEPT !.seid = n] \in JobRecord
         /\ \A q \in Seq(PDR) : [j EXCEPT !.pdrs = q] \in JobRecord
         /\ \A q \in Seq(FAR) : [j EXCEPT !.fars = q] \in JobRecord
         /\ \A T \in SUBSET PDR : [j EXCEPT !.todo = T] \in JobRecord
         /\ \A p \in PDR : [j EXCEPT !.pdr = p] \in JobRecord
         /\ \A q \in Ports : [j EXCEPT !.port = q] \in JobRecord
BY DEF JobRecord

\* The locals of the handler have their types.
LEMMA JobFields ==
  ASSUME NEW j \in JobRecord
  PROVE  /\ j.pc \in {"idle", "pdrs", "fars", "punt", "ports", "proto"}
         /\ j.seid \in 0 .. MaxSessions /\ j.pdrs \in Seq(PDR)
         /\ j.fars \in Seq(FAR) /\ j.todo \subseteq PDR /\ j.pdr \in PDR
         /\ j.port \in Ports
BY DEF JobRecord

\* The empty PDR is one, 0 is a port, and no request is being worked on.
LEMMA NothingType == NoPDR \in PDR /\ 0 \in Ports /\ IdleJob \in JobRecord
<1>1. NoPDR \in PDR /\ 0 \in Ports
  BY VPPAssumption DEF NoPDR, NoMatch, PDR, Match, Ports
<1> QED
  BY <1>1, VPPAssumption DEF IdleJob, JobRecord

\* When InstallFAR returns, the handler is at the next FAR.
LEMMA FARReturnsEffect ==
  ASSUME NEW j \in JobRecord
  PROVE  /\ FARReturns(j) \in JobRecord
         /\ FARReturns(j).pc = "fars" /\ FARReturns(j).seid = j.seid
<1>1. FARReturns(j) \in JobRecord
  BY NothingType, JobTypes, Zenon DEF FARReturns
<1> QED
  BY <1>1 DEF FARReturns, JobRecord

\* A step that leaves the sessions alone is one of the handler's locals.
LEMMA SessionsSame ==
  ASSUME VPPInv, UNCHANGED <<upSEIDs, sessions>>, punts \subseteq punts',
         job' \in JobRecord, job'.seid = job.seid,
         job.pc # "idle", job'.pc # "idle"
  PROVE  /\ Types' /\ FreshSEID' /\ PuntComplete'
         /\ \A p : Held(p) => Held(p)'
<1>1. Types'
  BY DEF VPPInv, Types
<1>2. FreshSEID'
  BY DEF VPPInv, FreshSEID
<1>3. PuntComplete'
  BY DEF VPPInv, PuntComplete
<1>4. \A p : Held(p) => Held(p)'
  BY DEF Held
<1> QED
  BY <1>1, <1>2, <1>3, <1>4

\* Assignments to the fields of a sessionState.
LEMMA SessionFields ==
  ASSUME NEW st, SessionOK(st), NEW v
  PROVE  /\ [st EXCEPT !.pdrs = v] =
              [pdrs |-> v, fars |-> st.fars, puntReg |-> st.puntReg]
         /\ [st EXCEPT !.fars = v] =
              [pdrs |-> st.pdrs, fars |-> v, puntReg |-> st.puntReg]
         /\ [st EXCEPT !.puntReg = v] =
              [pdrs |-> st.pdrs, fars |-> st.fars, puntReg |-> v]
BY DEF SessionOK

\* A PDR is marked once everything it needs is registered.
LEMMA SessionMarked ==
  ASSUME VPPInv, NEW p \in PDR, Held(p), MarkRegistered(p),
         p.match.kind = "sdf" => Needed(p.match) \subseteq punts',
         UNCHANGED upSEIDs, punts \subseteq punts',
         job' \in JobRecord, job'.seid = job.seid,
         job.pc # "idle", job'.pc # "idle"
  PROVE  /\ Types' /\ FreshSEID' /\ PuntComplete'
         /\ \A q : Held(q) => Held(q)'
<1> DEFINE s == job.seid
           old == sessions[s]
           new == [old EXCEPT !.puntReg = old.puntReg \cup {p.id}]
<1>0. s \in DOMAIN sessions /\ SessionOK(old) /\ p.id \in DOMAIN old.pdrs
      /\ old.pdrs[p.id] = p
  BY DEF VPPInv, Types, Held
<1>1. sessions' = [sessions EXCEPT ![s] = new]
  BY DEF MarkRegistered
<1>2. new = [pdrs |-> old.pdrs, fars |-> old.fars,
             puntReg |-> old.puntReg \cup {p.id}]
  BY <1>0, SessionFields, Zenon
<1> HIDE DEF new
<1>3. /\ DOMAIN sessions' = DOMAIN sessions
      /\ sessions' = [t \in DOMAIN sessions' |-> sessions'[t]]
      /\ sessions'[s] = new
      /\ \A t \in DOMAIN sessions \ {s} : sessions'[t] = sessions[t]
  BY <1>0, <1>1, Zenon DEF VPPInv, Types
<1>4. SessionOK(new)
  BY <1>0, <1>2 DEF SessionOK
<1>5. Types'
  BY <1>3, <1>4 DEF VPPInv, Types
<1>6. FreshSEID'
  BY <1>3 DEF VPPInv, FreshSEID
<1>7. PuntComplete'
  BY <1>0, <1>2, <1>3 DEF VPPInv, PuntComplete
<1>8. \A q : Held(q) => Held(q)'
  BY <1>0, <1>2, <1>3 DEF Held
<1> QED
  BY <1>5, <1>6, <1>7, <1>8

-----------------------------------------------------------------------------
\* The first rule of a list and the list without it.
LEMMA HeadTail ==
  ASSUME NEW S, NEW q \in Seq(S), q # <<>>
  PROVE  Head(q) \in S /\ Tail(q) \in Seq(S)
OBVIOUS

\* A new session's SEID is unused in the dataplane as well.
LEMMA StepEstablish ==
  ASSUME VPPInv, NEW r \in Establishment, Establish(r)
  PROVE  VPPInv'
<1> DEFINE j == [IdleJob EXCEPT !.pc = "pdrs", !.seid = AllocSEID,
                                !.pdrs = r.pdrs, !.fars = r.fars]
<1>1. AllocSEID \in 1 .. MaxSessions /\ AllocSEID \notin upSEIDs
  BY AllocSEIDFresh DEF VPPInv, Types, Establish
<1>2. j \in JobRecord
  <2>1. AllocSEID \in 0 .. MaxSessions
    BY <1>1
  <2>2. r.pdrs \in Seq(PDR) /\ r.fars \in Seq(FAR)
    BY VPPAssumption
  <2> QED
    BY <2>1, <2>2, NothingType, JobTypes, Zenon
<1>3. j.pc = "pdrs" /\ j.seid = AllocSEID
  BY DEF IdleJob
<1> HIDE DEF j
<1>4. /\ job' = j /\ upSEIDs' = upSEIDs /\ sessions' = sessions
      /\ punts' = punts /\ job.pc = "idle"
  BY DEF Establish, j
<1>5. DOMAIN sessions \subseteq upSEIDs
  BY <1>4 DEF VPPInv, FreshSEID
<1>6. Types'
  BY <1>2, <1>4 DEF VPPInv, Types
<1>7. HandlerOK'
  BY <1>1, <1>3, <1>4, <1>5 DEF HandlerOK
<1>8. FreshSEID' /\ PuntComplete'
  BY <1>1, <1>3, <1>4, <1>5 DEF VPPInv, FreshSEID, PuntComplete
<1> QED
  BY <1>6, <1>7, <1>8 DEF VPPInv

\* A PDR replaces one of its number; no PDR of the session is marked yet.
LEMMA StepInstallPDR ==
  ASSUME VPPInv, InstallPDR
  PROVE  VPPInv'
<1> DEFINE p == Head(job.pdrs)
           s == job.seid
           old == SessionState
           map == Assign(old.pdrs, p.id, p)
           new == WithPDR(old, p.id, p)
           j == [job EXCEPT !.pdrs = Tail(job.pdrs)]
<1>0. /\ job \in JobRecord /\ job.pc = "pdrs" /\ job.pdrs # <<>>
      /\ sessions' = Assign(sessions, s, new) /\ job' = j
      /\ upSEIDs' = upSEIDs /\ punts' = punts
  BY DEF VPPInv, Types, InstallPDR
<1>1. p \in PDR /\ Tail(job.pdrs) \in Seq(PDR)
  BY <1>0, HeadTail, JobFields
<1>2. j \in JobRecord /\ j.pc = "pdrs" /\ j.seid = s
  <2>1. j \in JobRecord
    BY <1>0, <1>1, JobTypes, Zenon
  <2> QED
    BY <1>0, <2>1, Zenon DEF JobRecord
<1>3. SessionOK(old) /\ old.puntReg = {}
  <2>1. CASE s \in DOMAIN sessions
    BY <1>0, <2>1 DEF VPPInv, Types, HandlerOK, SessionState
  <2>2. CASE s \notin DOMAIN sessions
    BY <2>2 DEF SessionState, NewSession, SessionOK, EmptyMap
  <2> QED
    BY <2>1, <2>2
<1>4. new = [pdrs |-> map, fars |-> old.fars, puntReg |-> {}]
  BY <1>3, SessionFields, Zenon DEF WithPDR
<1>5. /\ map = [i \in DOMAIN map |-> map[i]]
      /\ \A i \in DOMAIN map : map[i] \in PDR /\ map[i].id = i
  <2>1. \A i \in DOMAIN old.pdrs : old.pdrs[i] \in PDR /\ old.pdrs[i].id = i
    BY <1>3 DEF SessionOK
  <2> HIDE DEF p, old
  <2> QED
    BY <1>1, <2>1 DEF Assign
<1> HIDE DEF map
<1>6. SessionOK(new) /\ new.puntReg = {}
  BY <1>4, <1>5 DEF SessionOK
<1> HIDE DEF new, j
<1>7. /\ DOMAIN sessions' = DOMAIN sessions \cup {s}
      /\ sessions' = [t \in DOMAIN sessions' |-> sessions'[t]]
      /\ sessions'[s] = new
      /\ \A t \in DOMAIN sessions \ {s} : sessions'[t] = sessions[t]
  BY <1>0 DEF Assign
<1>8. s \in 1 .. MaxSessions
  BY <1>0, JobFields, VPPAssumption DEF VPPInv, HandlerOK
<1>9. Types'
  BY <1>0, <1>2, <1>6, <1>7, <1>8 DEF VPPInv, Types
<1>10. HandlerOK'
  BY <1>0, <1>2, <1>6, <1>7, <1>8 DEF HandlerOK
<1>11. FreshSEID'
  BY <1>0, <1>2, <1>7 DEF VPPInv, FreshSEID
<1>12. PuntComplete'
  BY <1>0, <1>6, <1>7 DEF VPPInv, PuntComplete
<1> QED
  BY <1>9, <1>10, <1>11, <1>12 DEF VPPInv

\* The list of PDRs is done; the next rules are FARs.
LEMMA StepPDRsDone ==
  ASSUME VPPInv, PDRsDone
  PROVE  VPPInv'
<1> DEFINE j == [job EXCEPT !.pc = "fars"]
<1>0. /\ job \in JobRecord /\ job.pc = "pdrs" /\ job' = j
      /\ upSEIDs' = upSEIDs /\ punts' = punts /\ sessions' = sessions
  BY DEF VPPInv, Types, PDRsDone
<1>1. j \in JobRecord /\ j.pc = "fars" /\ j.seid = job.seid
  <2>1. j \in JobRecord
    BY <1>0, JobTypes, Zenon
  <2> QED
    BY <1>0, <2>1 DEF JobRecord
<1> HIDE DEF j
<1>2. Types' /\ FreshSEID' /\ PuntComplete'
  BY <1>0, <1>1, SessionsSame
<1>3. HandlerOK'
  BY <1>0, <1>1 DEF VPPInv, HandlerOK
<1> QED
  BY <1>2, <1>3 DEF VPPInv

\* A FAR of a session that has PDRs, and of one the dataplane does not know.
LEMMA StepInstallFAR ==
  ASSUME VPPInv, InstallFAR
  PROVE  VPPInv'
<1> DEFINE f == Head(job.fars)
           s == job.seid
           old == sessions[s]
           new == [old EXCEPT !.fars = old.fars \cup {f.id}]
           T == PuntedBy(f)
           j == [job EXCEPT !.pc = "punt", !.fars = Tail(job.fars), !.todo = T]
           k == [job EXCEPT !.fars = Tail(job.fars)]
<1>0. /\ job \in JobRecord /\ job.pc = "fars" /\ job.fars # <<>>
      /\ upSEIDs' = upSEIDs /\ punts' = punts
  BY DEF VPPInv, Types, InstallFAR
<1>1. f \in FAR /\ Tail(job.fars) \in Seq(FAR)
  BY <1>0, HeadTail, JobFields
<1>2. CASE s \in DOMAIN sessions
  <2>0. sessions' = [sessions EXCEPT ![s] = new] /\ job' = j
    BY <1>2 DEF InstallFAR
  <2>1. SessionOK(old)
    BY <1>2 DEF VPPInv, Types
  <2>2. T \subseteq PDR /\ \A p \in T : /\ p.id \in DOMAIN old.pdrs
                                       /\ old.pdrs[p.id] = p
    BY <2>1 DEF PuntedBy, SessionOK, Range
  <2>3. j \in JobRecord /\ j.pc = "punt" /\ j.seid = s /\ j.todo = T
    <3> HIDE DEF T
    <3>1. j \in JobRecord
      BY <1>0, <1>1, <2>2, JobTypes, Zenon
    <3> QED
      BY <1>0, <3>1 DEF JobRecord
  <2>4. new = [pdrs |-> old.pdrs, fars |-> old.fars \cup {f.id},
               puntReg |-> old.puntReg]
    BY <2>1, SessionFields, Zenon
  <2> HIDE DEF new, j, T, f
  <2>5. /\ DOMAIN sessions' = DOMAIN sessions
        /\ sessions' = [t \in DOMAIN sessions' |-> sessions'[t]]
        /\ sessions'[s] = new
        /\ \A t \in DOMAIN sessions \ {s} : sessions'[t] = sessions[t]
    BY <1>2, <2>0, Zenon DEF VPPInv, Types
  <2>6. SessionOK(new)
    BY <2>1, <2>4 DEF SessionOK
  <2>7. Types'
    BY <1>0, <2>0, <2>3, <2>5, <2>6 DEF VPPInv, Types
  <2>8. HandlerOK'
    BY <1>0, <1>2, <2>0, <2>2, <2>3, <2>4, <2>5 DEF VPPInv, HandlerOK, Held
  <2>9. FreshSEID'
    BY <1>0, <2>0, <2>3, <2>5 DEF VPPInv, FreshSEID
  <2>10. PuntComplete'
    BY <1>0, <1>2, <2>4, <2>5 DEF VPPInv, PuntComplete
  <2> QED
    BY <2>7, <2>8, <2>9, <2>10 DEF VPPInv
<1>3. CASE s \notin DOMAIN sessions
  <2>0. sessions' = sessions /\ job' = k
    BY <1>3 DEF InstallFAR
  <2>1. k \in JobRecord /\ k.pc = "fars" /\ k.seid = s
    <3>1. k \in JobRecord
      BY <1>0, <1>1, JobTypes, Zenon
    <3> QED
      BY <1>0, <3>1, Zenon DEF JobRecord
  <2> HIDE DEF k
  <2>2. Types' /\ FreshSEID' /\ PuntComplete'
    BY <1>0, <2>0, <2>1, SessionsSame
  <2>3. HandlerOK'
    BY <1>0, <2>0, <2>1 DEF VPPInv, HandlerOK
  <2> QED
    BY <2>2, <2>3 DEF VPPInv
<1> QED
  BY <1>2, <1>3

\* InstallFAR returns to the handler, whatever it has done.
LEMMA StepFARReturns ==
  ASSUME VPPInv, job.pc \in {"punt", "ports", "proto"}, job' = FARReturns(job),
         UNCHANGED <<upSEIDs, sessions>>, punts \subseteq punts'
  PROVE  VPPInv'
<1>0. job \in JobRecord
  BY DEF VPPInv, Types
<1>1. job' \in JobRecord /\ job'.pc = "fars" /\ job'.seid = job.seid
  BY <1>0, FARReturnsEffect
<1>2. Types' /\ FreshSEID' /\ PuntComplete'
  BY <1>1, SessionsSame
<1>3. HandlerOK'
  BY <1>1 DEF VPPInv, HandlerOK
<1> QED
  BY <1>2, <1>3 DEF VPPInv

\* One PDR of the FAR: skipped, refused, marked, or a request to VPP.
LEMMA StepConfigurePunt ==
  ASSUME VPPInv, NEW p \in job.todo, ConfigurePunt(p)
  PROVE  VPPInv'
<1> DEFINE rest == [job EXCEPT !.todo = job.todo \ {p}]
           pc == IF HasPorts(p.match) THEN "ports" ELSE "proto"
           j == [rest EXCEPT !.pdr = p, !.port = p.match.start, !.pc = pc]
<1>0. /\ job \in JobRecord /\ job.pc = "punt" /\ p \in PDR
      /\ job.todo \ {p} \subseteq PDR
      /\ upSEIDs' = upSEIDs /\ punts' = punts
  <2>1. job \in JobRecord /\ job.pc = "punt" /\ upSEIDs' = upSEIDs
        /\ punts' = punts
    BY DEF VPPInv, Types, ConfigurePunt
  <2> QED
    BY <2>1, JobFields
<1>1. Held(p) /\ \A q \in job.todo : Held(q)
  BY <1>0 DEF VPPInv, HandlerOK
<1>2. /\ rest \in JobRecord /\ rest.pc = "punt" /\ rest.seid = job.seid
      /\ rest.todo = job.todo \ {p}
  <2>1. rest \in JobRecord
    BY <1>0, JobTypes, Zenon
  <2> QED
    BY <1>0, <2>1 DEF JobRecord
<1> HIDE DEF rest
<1>3. CASE job' = rest /\ UNCHANGED sessions
  <2>1. Types' /\ FreshSEID' /\ PuntComplete' /\ \A q : Held(q) => Held(q)'
    BY <1>0, <1>2, <1>3, SessionsSame
  <2>2. HandlerOK'
    BY <1>0, <1>1, <1>2, <1>3, <2>1 DEF VPPInv, HandlerOK, Held
  <2> QED
    BY <2>1, <2>2 DEF VPPInv
<1>4. CASE p.match.kind = "l2" /\ job' = rest /\ MarkRegistered(p)
  <2>1. Types' /\ FreshSEID' /\ PuntComplete' /\ \A q : Held(q) => Held(q)'
    BY <1>0, <1>1, <1>2, <1>4, SessionMarked
  <2>2. HandlerOK'
    BY <1>0, <1>1, <1>2, <1>4, <2>1 DEF VPPInv, HandlerOK, Held
  <2> QED
    BY <2>1, <2>2 DEF VPPInv
<1>5. CASE job' = FARReturns(job) /\ UNCHANGED sessions
  BY <1>0, <1>5, StepFARReturns
<1>6. CASE job' = j /\ UNCHANGED sessions
  <2>1. /\ j \in JobRecord /\ j.pc = pc /\ j.seid = job.seid /\ j.pdr = p
        /\ j.todo = job.todo \ {p} /\ j.port = p.match.start
    <3>1. p.match.start \in Ports
      BY <1>0 DEF PDR, Match
    <3>2. j \in JobRecord
      BY <1>0, <1>2, <3>1, JobTypes, Zenon
    <3> QED
      BY <1>2, <3>2 DEF JobRecord
  <2>2. p.match.start \in Nat
    BY <1>0, VPPAssumption DEF PDR, Match, Ports
  <2> HIDE DEF j
  <2>3. Types' /\ FreshSEID' /\ PuntComplete' /\ \A q : Held(q) => Held(q)'
    BY <1>0, <1>6, <2>1, SessionsSame
  <2>4. HandlerOK'
    <3>1. job'.seid \in DOMAIN sessions' /\ job'.seid # 0
      BY <1>0, <1>1, <1>6, <2>1 DEF VPPInv, HandlerOK, Held
    <3>2. Held(p)' /\ \A q \in job'.todo : Held(q)'
      BY <1>1, <1>6, <2>1, <2>3
    <3>3. Held(job.pdr)'
      BY <1>6, <2>1, <3>2 DEF Held
    <3>4. \A q \in Ports : ~(job'.pdr.match.start <= q /\ q < job'.port)
      BY <1>6, <2>1, <2>2, VPPAssumption DEF Ports
    <3> QED
      BY <1>6, <2>1, <3>1, <3>2, <3>3, <3>4 DEF HandlerOK
  <2> QED
    BY <2>3, <2>4 DEF VPPInv
<1> QED
  BY <1>3, <1>4, <1>5, <1>6 DEF ConfigurePunt, ConfigureL2Punt, rest

\* A uint16 that does not overflow.
LEMMA ModuloSmall ==
  ASSUME NEW n \in Nat, NEW d \in Nat, n < d
  PROVE  n % d = n
OBVIOUS

\* The next port: those below the counter stay registered when it wraps.
LEMMA StepPuntPort ==
  ASSUME VPPInv, PuntPort
  PROVE  VPPInv'
<1> DEFINE next == (job.port + 1) % (MaxPort + 1)
           j == [job EXCEPT !.port = next]
           m == job.pdr.match
<1>0. /\ job \in JobRecord /\ job.pc = "ports" /\ job' = j
      /\ upSEIDs' = upSEIDs /\ sessions' = sessions
      /\ punts' = punts \cup {<<m.af, m.proto, job.port>>}
  BY DEF VPPInv, Types, PuntPort, PortPunt
<1>1. job.port \in Nat /\ job.port <= MaxPort /\ next \in Nat
      /\ (next = job.port + 1 \/ next = 0) /\ next <= MaxPort
  <2>1. job.port \in 0 .. MaxPort
    BY <1>0, JobFields DEF Ports
  <2>2. CASE job.port = MaxPort
    BY <2>1, <2>2, VPPAssumption
  <2>3. CASE job.port # MaxPort
    <3>1. job.port + 1 \in Nat /\ MaxPort + 1 \in Nat /\ job.port + 1 < MaxPort + 1
      BY <2>1, <2>3, VPPAssumption
    <3>2. next = job.port + 1
      BY <3>1, ModuloSmall
    <3> QED
      BY <2>1, <3>1, <3>2, VPPAssumption
  <2> QED
    BY <2>2, <2>3
<1> HIDE DEF next
<1>2. /\ j \in JobRecord /\ j.pc = "ports" /\ j.seid = job.seid
      /\ j.todo = job.todo /\ j.pdr = job.pdr /\ j.port = next
  <2>1. next \in Ports
    BY <1>1, VPPAssumption DEF Ports
  <2>2. j \in JobRecord
    BY <1>0, <2>1, JobTypes, Zenon
  <2> QED
    BY <1>0, <2>2 DEF JobRecord
<1> HIDE DEF j
<1>3. Types' /\ FreshSEID' /\ PuntComplete' /\ \A q : Held(q) => Held(q)'
  BY <1>0, <1>2, SessionsSame
<1>4. m.start \in Nat
  BY <1>0, JobFields, VPPAssumption DEF PDR, Match, Ports
<1>5. ASSUME NEW q \in Ports, m.start <= q, q < next
      PROVE  <<m.af, m.proto, q>> \in punts'
  <2>1. q \in Nat /\ (q < job.port \/ q = job.port)
    BY <1>1, <1>5, VPPAssumption DEF Ports
  <2>2. CASE q < job.port
    BY <1>0, <1>5, <2>2 DEF VPPInv, HandlerOK
  <2>3. CASE q = job.port
    BY <1>0, <2>3
  <2> QED
    BY <2>1, <2>2, <2>3
<1>6. HandlerOK'
  <2>1. /\ job.seid # 0 /\ job.seid \in DOMAIN sessions /\ Held(job.pdr)
        /\ HasPorts(m) /\ \A q \in job.todo : Held(q)
    BY <1>0 DEF VPPInv, HandlerOK
  <2>2. Held(job.pdr)' /\ \A q \in job'.todo : Held(q)'
    BY <1>0, <1>2, <2>1 DEF Held
  <2> QED
    BY <1>0, <1>2, <1>5, <2>1, <2>2 DEF HandlerOK
<1> QED
  BY <1>3, <1>6 DEF VPPInv

\* VPP has accepted the last request for a PDR.
LEMMA StepMarked ==
  ASSUME VPPInv, job.pc \in {"ports", "proto"}, PuntMarked(job.pdr),
         Needed(job.pdr.match) \subseteq punts', punts \subseteq punts',
         UNCHANGED upSEIDs
  PROVE  VPPInv'
<1> DEFINE j == [job EXCEPT !.pc = "punt", !.pdr = NoPDR, !.port = 0]
<1>0. job \in JobRecord /\ job' = j /\ MarkRegistered(job.pdr)
  BY DEF VPPInv, Types, PuntMarked
<1>1. /\ j \in JobRecord /\ j.pc = "punt" /\ j.seid = job.seid
      /\ j.todo = job.todo
  <2>1. j \in JobRecord
    BY <1>0, NothingType, JobTypes, Zenon
  <2> QED
    BY <1>0, <2>1 DEF JobRecord
<1> HIDE DEF j
<1>2. /\ job.seid # 0 /\ Held(job.pdr) /\ job.pdr \in PDR
      /\ \A q \in job.todo : Held(q)
  BY <1>0, JobFields DEF VPPInv, HandlerOK
<1>3. Types' /\ FreshSEID' /\ PuntComplete' /\ \A q : Held(q) => Held(q)'
  <2> DEFINE p == job.pdr
  <2>1. p \in PDR /\ Held(p) /\ MarkRegistered(p) /\ Needed(p.match) \subseteq punts'
    BY <1>0, <1>2
  <2> HIDE DEF p
  <2> QED
    BY <1>0, <1>1, <2>1, SessionMarked
<1>4. HandlerOK'
  BY <1>0, <1>1, <1>2, <1>3, Zenon DEF HandlerOK, Held, MarkRegistered
<1> QED
  BY <1>3, <1>4 DEF VPPInv

\* The loop over the ports was left behind the end of the range.
LEMMA StepPortsDone ==
  ASSUME VPPInv, PortsDone
  PROVE  VPPInv'
<1> DEFINE m == job.pdr.match
<1>0. /\ job \in JobRecord /\ job.pc = "ports" /\ job.port > m.end
      /\ PuntMarked(job.pdr) /\ upSEIDs' = upSEIDs /\ punts' = punts
  BY DEF VPPInv, Types, PortsDone
<1>1. m.start \in Ports /\ m.end \in Ports /\ job.port \in Ports
  BY <1>0, JobFields DEF PDR, Match
<1>2. ASSUME NEW q \in m.start .. m.end
      PROVE  <<m.af, m.proto, q>> \in punts
  <2>1. q \in Ports /\ m.start <= q /\ q < job.port
    BY <1>0, <1>1, VPPAssumption DEF Ports
  <2> QED
    BY <1>0, <2>1 DEF VPPInv, HandlerOK
<1>3. Needed(m) \subseteq punts'
  <2>1. HasPorts(m)
    BY <1>0 DEF VPPInv, HandlerOK
  <2> QED
    BY <1>0, <1>2, <2>1 DEF Needed
<1> QED
  BY <1>0, <1>3, StepMarked

\* The whole protocol is one request.
LEMMA StepPuntProto ==
  ASSUME VPPInv, PuntProto
  PROVE  VPPInv'
<1>0. /\ job.pc = "proto" /\ punts' = punts \cup {ProtoPunt}
      /\ PuntMarked(job.pdr) /\ upSEIDs' = upSEIDs
  BY DEF PuntProto
<1>1. ~HasPorts(job.pdr.match)
  BY <1>0 DEF VPPInv, HandlerOK
<1>2. Needed(job.pdr.match) \subseteq punts'
  BY <1>0, <1>1 DEF Needed, ProtoPunt
<1> QED
  BY <1>0, <1>2, StepMarked

\* The handler ends and the user plane keeps the session.
LEMMA StepAccept ==
  ASSUME VPPInv, Accept
  PROVE  VPPInv'
<1>0. /\ job.pc = "fars" /\ upSEIDs' = upSEIDs \cup {job.seid}
      /\ job' = IdleJob /\ sessions' = sessions /\ punts' = punts
      /\ job \in JobRecord
  BY DEF VPPInv, Types, Accept
<1>1. IdleJob \in JobRecord /\ IdleJob.pc = "idle" /\ IdleJob.seid = 0
  BY NothingType DEF IdleJob
<1>2. job.seid \in 1 .. MaxSessions
  BY <1>0, JobFields, VPPAssumption DEF VPPInv, HandlerOK
<1>3. 0 \notin 1 .. MaxSessions
  BY VPPAssumption
<1>4. Types'
  BY <1>0, <1>1, <1>2 DEF VPPInv, Types
<1>5. HandlerOK'
  BY <1>0, <1>1 DEF HandlerOK
<1>6. FreshSEID'
  BY <1>0, <1>1, <1>3 DEF VPPInv, Types, FreshSEID
<1>7. PuntComplete'
  BY <1>0 DEF VPPInv, PuntComplete
<1> QED
  BY <1>4, <1>5, <1>6, <1>7 DEF VPPInv

\* A deletion takes the session from both maps.
LEMMA StepDelete ==
  ASSUME VPPInv, NEW s \in upSEIDs, DeleteSession(s)
  PROVE  VPPInv'
<1> DEFINE D == DOMAIN sessions \ {s}
<1>0. /\ job.pc = "idle" /\ upSEIDs' = upSEIDs \ {s} /\ job' = job
      /\ sessions' = [t \in D |-> sessions[t]] /\ punts' = punts
  BY DEF DeleteSession, Without, Restrict
<1>1. DOMAIN sessions' = D /\ \A t \in D : sessions'[t] = sessions[t]
  BY <1>0
<1>2. Types'
  BY <1>0, <1>1 DEF VPPInv, Types
<1>3. HandlerOK'
  BY <1>0 DEF VPPInv, HandlerOK
<1>4. FreshSEID'
  BY <1>0, <1>1 DEF VPPInv, FreshSEID
<1>5. PuntComplete'
  BY <1>0, <1>1 DEF VPPInv, PuntComplete
<1> QED
  BY <1>2, <1>3, <1>4, <1>5 DEF VPPInv

\* After a crash the process knows nothing; VPP keeps what it registered.
LEMMA StepCrash ==
  ASSUME VPPInv, Crash
  PROVE  VPPInv'
<1>0. /\ upSEIDs' = {} /\ sessions' = [k \in {} |-> k] /\ job' = IdleJob
  BY DEF Crash, EmptyMap
<1>1. IdleJob \in JobRecord /\ IdleJob.pc = "idle" /\ IdleJob.seid = 0
  BY NothingType DEF IdleJob
<1>2. Types'
  BY <1>0, <1>1 DEF Types
<1>3. HandlerOK' /\ FreshSEID' /\ PuntComplete'
  BY <1>0, <1>1 DEF HandlerOK, FreshSEID, PuntComplete
<1> QED
  BY <1>2, <1>3 DEF VPPInv

\* Every step of the handlers keeps the invariant.
LEMMA VPPStep == VPPInv /\ [Next]_vars => VPPInv'
<1> SUFFICES ASSUME VPPInv, [Next]_vars PROVE VPPInv'
  OBVIOUS
<1>1. CASE HandlerStep
  <2>1. CASE InstallPDR
    BY <2>1, StepInstallPDR
  <2>2. CASE PDRsDone
    BY <2>2, StepPDRsDone
  <2>3. CASE InstallFAR
    BY <2>3, StepInstallFAR
  <2>4. CASE PuntsDone
    BY <2>4, StepFARReturns DEF PuntsDone
  <2>5. CASE Refused
    BY <2>5, StepFARReturns DEF Refused
  <2>6. ASSUME NEW p \in job.todo, ConfigurePunt(p) PROVE VPPInv'
    BY <2>6, StepConfigurePunt
  <2>7. CASE PuntPort
    BY <2>7, StepPuntPort
  <2>8. CASE PortsDone
    BY <2>8, StepPortsDone
  <2>9. CASE PuntProto
    BY <2>9, StepPuntProto
  <2>10. CASE Accept
    BY <2>10, StepAccept
  <2> QED
    BY <1>1, <2>1, <2>2, <2>3, <2>4, <2>5, <2>6, <2>7, <2>8, <2>9, <2>10
       DEF HandlerStep
<1>2. ASSUME NEW r \in Establishment, Establish(r) PROVE VPPInv'
  BY <1>2, StepEstablish
<1>3. ASSUME NEW s \in upSEIDs, DeleteSession(s) PROVE VPPInv'
  BY <1>3, StepDelete
<1>4. CASE Crash
  BY <1>4, StepCrash
<1>5. CASE UNCHANGED vars
  BY <1>5 DEF vars, VPPInv, Types, HandlerOK, FreshSEID, PuntComplete, Held
<1> QED
  BY <1>1, <1>2, <1>3, <1>4, <1>5 DEF Next

\* The inductive invariant holds in every reachable state.
THEOREM VPPInvariant == Spec => []VPPInv
BY VPPInit, VPPStep, PTL DEF Spec

(***************************************************************************)
(* A PDR in puntReg has everything it needs registered in VPP, for every   *)
(* set of rules, every port range, every order and every refusal.          *)
(***************************************************************************)
THEOREM PuntsAreComplete == Spec => []PuntComplete
<1>1. VPPInv => PuntComplete
  BY DEF VPPInv
<1> QED
  BY <1>1, VPPInvariant, PTL

(***************************************************************************)
(* The SEID allocSEID hands out is unused in the dataplane too, although   *)
(* it looks at the user plane's sessions only.                             *)
(***************************************************************************)
THEOREM SEIDsAreFresh == Spec => []FreshSEID
<1>1. VPPInv => FreshSEID
  BY DEF VPPInv
<1> QED
  BY <1>1, VPPInvariant, PTL

\* The dataplane's maps and the handler's locals keep their types.
THEOREM VPPTypeCorrect == Spec => []TypeOK
<1>1. VPPInv => TypeOK
  BY JobFields, Zenon DEF VPPInv, Types, SessionOK, TypeOK
<1> QED
  BY <1>1, VPPInvariant, PTL

-----------------------------------------------------------------------------
(***************************************************************************)
(* The dataplane implements SessionTable.  What VPPInv does not say is how *)
(* far the handler is with its request: of the PDRs it has installed the   *)
(* first n, of which those under one number are the last, and of the FARs  *)
(* the first k; the rest is still to come.                                 *)
(***************************************************************************)
StillToCome(rest, all, n) ==
  Len(rest) = Len(all) - n /\ \A i \in 1 .. Len(rest) : rest[i] = all[n + i]

LastIs(pdrs, n, i, p) ==
  \E j \in 1 .. n : /\ pdrs[j] = p /\ pdrs[j].id = i
                    /\ \A l \in j + 1 .. n : pdrs[l].id # i

IDs(rules, n) == {rules[i].id : i \in 1 .. n}

\* st is what the first n PDRs and the first k FARs of r make of a session.
Installed(st, r, n, k) ==
  /\ DOMAIN st.pdrs = IDs(r.pdrs, n)
  /\ \A i \in DOMAIN st.pdrs : LastIs(r.pdrs, n, i, st.pdrs[i])
  /\ st.fars = IDs(r.fars, k)

Progress(r, n, k) ==
  /\ StillToCome(job.pdrs, r.pdrs, n) /\ StillToCome(job.fars, r.fars, k)
  /\ IF job.pc = "pdrs" THEN k = 0 ELSE n = Len(r.pdrs)
  /\ job.seid \in DOMAIN sessions <=> n > 0
  /\ n > 0 => Installed(sessions[job.seid], r, n, k)

TableInv ==
  job.pc # "idle" =>
    /\ \A t \in 1 .. job.seid - 1 : t \in upSEIDs
    /\ \E r \in Establishment :
         \E n \in 0 .. Len(r.pdrs), k \in 0 .. Len(r.fars) : Progress(r, n, k)
\* One rule less is to come.
LEMMA OneLess ==
  ASSUME NEW S, NEW all \in Seq(S), NEW rest \in Seq(S), rest # <<>>,
         NEW n \in 0 .. Len(all), StillToCome(rest, all, n)
  PROVE  /\ n + 1 \in 0 .. Len(all)
         /\ Head(rest) = all[n + 1]
         /\ StillToCome(Tail(rest), all, n + 1)
<1>1. /\ Len(rest) \in Nat \ {0} /\ Len(all) \in Nat /\ n \in Nat
      /\ Len(rest) = Len(all) - n
  BY DEF StillToCome
<1>2. Head(rest) = rest[1] /\ rest[1] = all[n + 1]
  BY <1>1 DEF StillToCome
<1>3. Len(Tail(rest)) = Len(rest) - 1
  BY <1>1
<1>4. ASSUME NEW i \in 1 .. Len(rest) - 1
      PROVE  Tail(rest)[i] = all[(n + 1) + i]
  <2>1. Tail(rest)[i] = rest[i + 1]
    BY <1>1, <1>4
  <2>2. i + 1 \in 1 .. Len(rest)
    BY <1>1, <1>4
  <2>3. rest[i + 1] = all[n + (i + 1)]
    BY <2>2 DEF StillToCome
  <2>4. n + (i + 1) = (n + 1) + i
    BY <1>1, <1>4
  <2> QED
    BY <2>1, <2>3, <2>4
<1> QED
  BY <1>1, <1>2, <1>3, <1>4 DEF StillToCome

\* One rule more is in.
LEMMA OneIDMore ==
  ASSUME NEW rules, NEW n \in Nat
  PROVE  IDs(rules, n + 1) = IDs(rules, n) \cup {rules[n + 1].id}
<1>1. 1 .. n + 1 = (1 .. n) \cup {n + 1}
  OBVIOUS
<1> QED
  BY <1>1 DEF IDs

\* InstallPDR: the PDR replaces the one of its number, if there is one.
LEMMA PDRInstalled ==
  ASSUME NEW pdrs, NEW n \in Nat, NEW map,
         DOMAIN map = IDs(pdrs, n),
         \A i \in DOMAIN map : LastIs(pdrs, n, i, map[i])
  PROVE  LET p == pdrs[n + 1]
             new == Assign(map, p.id, p) IN
         /\ DOMAIN new = IDs(pdrs, n + 1)
         /\ \A i \in DOMAIN new : LastIs(pdrs, n + 1, i, new[i])
<1> DEFINE p == pdrs[n + 1]
           new == Assign(map, p.id, p)
<1>1. DOMAIN new = IDs(pdrs, n + 1)
  BY OneIDMore DEF Assign
<1>2. ASSUME NEW i \in DOMAIN new PROVE LastIs(pdrs, n + 1, i, new[i])
  <2>1. CASE i = p.id
    <3>1. new[i] = p
      BY <2>1 DEF Assign
    <3>2. n + 1 \in 1 .. n + 1 /\ (n + 1) + 1 .. n + 1 = {}
      OBVIOUS
    <3> QED
      BY <2>1, <3>1, <3>2 DEF LastIs
  <2>2. CASE i # p.id
    <3>1. i \in DOMAIN map /\ new[i] = map[i]
      BY <1>2, <2>2 DEF Assign
    <3>2. PICK j \in 1 .. n : /\ pdrs[j] = map[i] /\ pdrs[j].id = i
                              /\ \A l \in j + 1 .. n : pdrs[l].id # i
      BY <3>1 DEF LastIs
    <3>3. j \in 1 .. n + 1 /\ \A l \in j + 1 .. n + 1 : l \in j + 1 .. n \/ l = n + 1
      OBVIOUS
    <3>4. \A l \in j + 1 .. n + 1 : pdrs[l].id # i
      BY <2>2, <3>2, <3>3
    <3> QED
      BY <3>1, <3>2, <3>3, <3>4 DEF LastIs
  <2> QED
    BY <2>1, <2>2
<1> QED
  BY <1>1, <1>2

\* What all the rules of a request make is what RulesOf says.
LEMMA AllInstalled ==
  ASSUME NEW r \in Establishment, NEW st, SessionOK(st), r.pdrs # <<>>,
         Installed(st, r, Len(r.pdrs), Len(r.fars))
  PROVE  [pdrs |-> st.pdrs, fars |-> st.fars] = RulesOf(r)
<1>0. r.pdrs \in Seq(PDR) /\ r.fars \in Seq(FAR)
  BY VPPAssumption
<1>1. /\ DOMAIN r.pdrs = 1 .. Len(r.pdrs) /\ DOMAIN r.fars = 1 .. Len(r.fars)
      /\ Len(r.pdrs) \in Nat
  BY <1>0
<1>2. DOMAIN st.pdrs = {r.pdrs[k].id : k \in DOMAIN r.pdrs}
  BY <1>1 DEF Installed, IDs
<1>3. ASSUME NEW i \in DOMAIN st.pdrs
      PROVE  st.pdrs[i] =
               r.pdrs[CHOOSE k \in DOMAIN r.pdrs :
                        /\ r.pdrs[k].id = i
                        /\ \A l \in k + 1 .. Len(r.pdrs) : r.pdrs[l].id # i]
  <2> DEFINE Last(k) == /\ r.pdrs[k].id = i
                        /\ \A l \in k + 1 .. Len(r.pdrs) : r.pdrs[l].id # i
  <2>1. PICK j \in 1 .. Len(r.pdrs) : r.pdrs[j] = st.pdrs[i] /\ Last(j)
    BY <1>3 DEF Installed, LastIs
  <2>2. PICK c : c = CHOOSE k \in DOMAIN r.pdrs : Last(k)
    OBVIOUS
  <2>3. c \in 1 .. Len(r.pdrs) /\ Last(c)
    BY <1>1, <2>1, <2>2
  <2>4. c = j
    <3>1. CASE c < j
      <4>1. j \in c + 1 .. Len(r.pdrs)
        BY <1>1, <2>3, <3>1
      <4> QED
        BY <2>1, <2>3, <4>1
    <3>2. CASE j < c
      <4>1. c \in j + 1 .. Len(r.pdrs)
        BY <1>1, <2>3, <3>2
      <4> QED
        BY <2>1, <2>3, <4>1
    <3> QED
      BY <1>1, <2>3, <3>1, <3>2
  <2> QED
    BY <2>1, <2>2, <2>4, Zenon
<1>4. st.pdrs = LastByID(r.pdrs)
  <2>1. st.pdrs = [i \in DOMAIN st.pdrs |-> st.pdrs[i]]
    BY DEF SessionOK
  <2> QED
    BY <1>2, <1>3, <2>1, Zenon DEF LastByID
<1>5. st.fars = {r.fars[k].id : k \in DOMAIN r.fars}
  BY <1>1 DEF Installed, IDs
<1> QED
  BY <1>4, <1>5 DEF RulesOf
\* A handler begins with everything to come, under the lowest free SEID.
LEMMA TableEstablish ==
  ASSUME VPPInv, NEW r \in Establishment, Establish(r)
  PROVE  TableInv'
<1>1. /\ job' = [IdleJob EXCEPT !.pc = "pdrs", !.seid = AllocSEID,
                                !.pdrs = r.pdrs, !.fars = r.fars]
      /\ upSEIDs' = upSEIDs /\ sessions' = sessions /\ job.pc = "idle"
  BY DEF Establish
<1>2. /\ job'.pc = "pdrs" /\ job'.seid = AllocSEID
      /\ job'.pdrs = r.pdrs /\ job'.fars = r.fars
  BY <1>1 DEF IdleJob
<1>3. AllocSEID \notin upSEIDs /\ \A t \in 1 .. AllocSEID - 1 : t \in upSEIDs
  BY AllocSEIDFresh DEF VPPInv, Types, Establish
<1>4. AllocSEID \notin DOMAIN sessions
  BY <1>1, <1>3 DEF VPPInv, FreshSEID
<1>5. /\ Len(r.pdrs) \in Nat /\ Len(r.fars) \in Nat
      /\ StillToCome(r.pdrs, r.pdrs, 0) /\ StillToCome(r.fars, r.fars, 0)
  BY VPPAssumption DEF StillToCome
<1>6. Progress(r, 0, 0)'
  BY <1>1, <1>2, <1>4, <1>5 DEF Progress
<1>7. 0 \in 0 .. Len(r.pdrs) /\ 0 \in 0 .. Len(r.fars)
  BY <1>5
<1> QED
  BY <1>1, <1>2, <1>3, <1>6, <1>7 DEF TableInv

\* What the sessions of a user plane have installed.
SameTable ==
  /\ upSEIDs' = upSEIDs
  /\ \A s \in upSEIDs : InstalledFor(s)' = InstalledFor(s)

\* A handler works on its own session, which nobody sees.
LEMMA OthersStay ==
  ASSUME FreshSEID, job.pc # "idle", UNCHANGED upSEIDs,
         DOMAIN sessions' \subseteq DOMAIN sessions \cup {job.seid},
         \A s \in DOMAIN sessions \ {job.seid} :
           s \in DOMAIN sessions' /\ sessions'[s] = sessions[s]
  PROVE  SameTable
BY DEF FreshSEID, SameTable, InstalledFor

\* One PDR of the request.
LEMMA TableInstallPDR ==
  ASSUME VPPInv, TableInv, InstallPDR
  PROVE  TableInv' /\ SameTable
<1> DEFINE s == job.seid
           p == Head(job.pdrs)
<1>0. /\ job \in JobRecord /\ job.pc = "pdrs" /\ job.pdrs # <<>>
      /\ sessions' = Assign(sessions, s, WithPDR(SessionState, p.id, p))
      /\ job' = [job EXCEPT !.pdrs = Tail(job.pdrs)]
      /\ upSEIDs' = upSEIDs
  BY DEF VPPInv, Types, InstallPDR
<1>1. /\ DOMAIN sessions' = DOMAIN sessions \cup {s}
      /\ sessions'[s] = WithPDR(SessionState, p.id, p)
      /\ \A t \in DOMAIN sessions \ {s} : sessions'[t] = sessions[t]
  BY <1>0 DEF Assign
<1>2. SameTable
  BY <1>0, <1>1, OthersStay DEF VPPInv
<1>3. /\ job'.pc = "pdrs" /\ job'.seid = s /\ job'.pdrs = Tail(job.pdrs)
      /\ job'.fars = job.fars
  BY <1>0 DEF JobRecord
<1>4. PICK r \in Establishment :
        \E n \in 0 .. Len(r.pdrs), k \in 0 .. Len(r.fars) : Progress(r, n, k)
  BY <1>0 DEF TableInv
<1>5. PICK n \in 0 .. Len(r.pdrs), k \in 0 .. Len(r.fars) : Progress(r, n, k)
  BY <1>4
<1>6. /\ r.pdrs \in Seq(PDR) /\ job.pdrs \in Seq(PDR) /\ n \in Nat /\ k = 0
  BY <1>0, <1>5, VPPAssumption, JobFields DEF Progress
<1>7. /\ n + 1 \in 0 .. Len(r.pdrs) /\ p = r.pdrs[n + 1]
      /\ StillToCome(Tail(job.pdrs), r.pdrs, n + 1)
  BY <1>0, <1>5, <1>6, OneLess DEF Progress
<1>8. /\ SessionOK(SessionState)
      /\ Installed(SessionState, r, n, 0)
  <2>1. CASE s \in DOMAIN sessions
    <3>1. SessionState = sessions[s] /\ n > 0
      BY <1>5, <2>1 DEF SessionState, Progress
    <3> QED
      BY <1>5, <1>6, <2>1, <3>1 DEF VPPInv, Types, Progress
  <2>2. CASE s \notin DOMAIN sessions
    <3>1. SessionState = NewSession /\ n = 0
      BY <1>5, <1>6, <2>2 DEF SessionState, Progress
    <3>2. IDs(r.pdrs, 0) = {} /\ IDs(r.fars, 0) = {}
      BY DEF IDs
    <3> QED
      BY <3>1, <3>2 DEF NewSession, EmptyMap, SessionOK, Installed
  <2> QED
    BY <2>1, <2>2
<1>9. PICK st : st = SessionState
  OBVIOUS
<1>10. /\ sessions'[s].pdrs = Assign(st.pdrs, p.id, p)
       /\ sessions'[s].fars = st.fars
  BY <1>1, <1>8, <1>9, SessionFields DEF WithPDR
<1>11. Installed(sessions'[s], r, n + 1, 0)
  <2>1. /\ DOMAIN st.pdrs = IDs(r.pdrs, n) /\ st.fars = IDs(r.fars, 0)
        /\ \A i \in DOMAIN st.pdrs : LastIs(r.pdrs, n, i, st.pdrs[i])
    BY <1>8, <1>9 DEF Installed
  <2>2. sessions'[s].pdrs = Assign(st.pdrs, r.pdrs[n + 1].id, r.pdrs[n + 1])
    BY <1>7, <1>10
  <2>3. /\ DOMAIN sessions'[s].pdrs = IDs(r.pdrs, n + 1)
        /\ \A i \in DOMAIN sessions'[s].pdrs :
             LastIs(r.pdrs, n + 1, i, sessions'[s].pdrs[i])
    BY <1>6, <2>1, <2>2, PDRInstalled, Zenon
  <2> QED
    BY <1>10, <2>1, <2>3 DEF Installed
<1>12. Progress(r, n + 1, 0)'
  BY <1>1, <1>3, <1>5, <1>6, <1>7, <1>11 DEF Progress
<1>13. \A t \in 1 .. job'.seid - 1 : t \in upSEIDs'
  BY <1>0, <1>3 DEF TableInv
<1>14. n + 1 \in 0 .. Len(r.pdrs) /\ 0 \in 0 .. Len(r.fars)
  BY <1>5, <1>6, <1>7
<1>15. TableInv'
  BY <1>12, <1>13, <1>14 DEF TableInv
<1> QED
  BY <1>2, <1>15

\* One FAR of the request: with no PDR there is no session to put it in.
LEMMA TableInstallFAR ==
  ASSUME VPPInv, TableInv, InstallFAR
  PROVE  TableInv' /\ SameTable
<1> DEFINE s == job.seid
           f == Head(job.fars)
<1>0. /\ job \in JobRecord /\ job.pc = "fars" /\ job.fars # <<>>
      /\ upSEIDs' = upSEIDs
  BY DEF VPPInv, Types, InstallFAR
<1>1. /\ job'.pc \notin {"idle", "pdrs"} /\ job'.seid = s /\ job'.pdrs = job.pdrs
      /\ job'.fars = Tail(job.fars)
  BY <1>0, Zenon DEF InstallFAR, JobRecord
<1>2. /\ DOMAIN sessions' = DOMAIN sessions
      /\ \A t \in DOMAIN sessions \ {s} : sessions'[t] = sessions[t]
      /\ s \in DOMAIN sessions =>
           /\ sessions'[s].pdrs = sessions[s].pdrs
           /\ sessions'[s].fars = sessions[s].fars \cup {f.id}
  <2>1. CASE s \in DOMAIN sessions
    <3> DEFINE new == [sessions[s] EXCEPT !.fars = sessions[s].fars \cup {f.id}]
    <3>1. sessions' = [sessions EXCEPT ![s] = new]
      BY <2>1 DEF InstallFAR
    <3>2. new = [pdrs |-> sessions[s].pdrs, fars |-> sessions[s].fars \cup {f.id},
                 puntReg |-> sessions[s].puntReg]
      BY <2>1, SessionFields, Zenon DEF VPPInv, Types
    <3> HIDE DEF new
    <3> QED
      BY <2>1, <3>1, <3>2 DEF VPPInv, Types
  <2>2. CASE s \notin DOMAIN sessions
    BY <2>2 DEF InstallFAR
  <2> QED
    BY <2>1, <2>2
<1>3. SameTable
  BY <1>0, <1>2, OthersStay DEF VPPInv
<1>4. PICK r \in Establishment :
        \E n \in 0 .. Len(r.pdrs), k \in 0 .. Len(r.fars) : Progress(r, n, k)
  BY <1>0 DEF TableInv
<1>5. PICK n \in 0 .. Len(r.pdrs), k \in 0 .. Len(r.fars) : Progress(r, n, k)
  BY <1>4
<1>6. /\ r.fars \in Seq(FAR) /\ job.fars \in Seq(FAR) /\ k \in Nat
      /\ n = Len(r.pdrs)
  BY <1>0, <1>5, VPPAssumption, JobFields DEF Progress
<1>7. /\ k + 1 \in 0 .. Len(r.fars) /\ f = r.fars[k + 1]
      /\ StillToCome(Tail(job.fars), r.fars, k + 1)
  BY <1>0, <1>5, <1>6, OneLess DEF Progress
<1>8. ASSUME n > 0 PROVE Installed(sessions'[s], r, n, k + 1)
  <2>1. s \in DOMAIN sessions /\ Installed(sessions[s], r, n, k)
    BY <1>5, <1>8 DEF Progress
  <2>2. IDs(r.fars, k + 1) = IDs(r.fars, k) \cup {f.id}
    BY <1>6, <1>7, OneIDMore, Zenon
  <2> QED
    BY <1>2, <2>1, <2>2, Zenon DEF Installed
<1>9. Progress(r, n, k + 1)'
  BY <1>1, <1>2, <1>5, <1>6, <1>7, <1>8 DEF Progress
<1>10. \A t \in 1 .. job'.seid - 1 : t \in upSEIDs'
  BY <1>0, <1>1 DEF TableInv
<1>11. TableInv'
  BY <1>5, <1>7, <1>9, <1>10 DEF TableInv
<1> QED
  BY <1>3, <1>11
\* What configuring the punts of a FAR leaves alone.
PuntingStep ==
  /\ job.pc \notin {"idle", "pdrs"} /\ job'.pc \notin {"idle", "pdrs"}
  /\ job'.seid = job.seid /\ job'.pdrs = job.pdrs /\ job'.fars = job.fars
  /\ UNCHANGED upSEIDs
  /\ DOMAIN sessions' = DOMAIN sessions
  /\ \A s \in DOMAIN sessions : /\ sessions'[s].pdrs = sessions[s].pdrs
                                /\ sessions'[s].fars = sessions[s].fars

\* A mark in puntReg is nothing that SessionTable sees.
LEMMA MarkLeaves ==
  ASSUME VPPInv, NEW p, job.seid \in DOMAIN sessions, MarkRegistered(p)
  PROVE  /\ DOMAIN sessions' = DOMAIN sessions
         /\ \A s \in DOMAIN sessions : /\ sessions'[s].pdrs = sessions[s].pdrs
                                       /\ sessions'[s].fars = sessions[s].fars
<1> DEFINE old == sessions[job.seid]
           new == [old EXCEPT !.puntReg = old.puntReg \cup {p.id}]
<1>1. sessions' = [sessions EXCEPT ![job.seid] = new]
  BY DEF MarkRegistered
<1>2. new = [pdrs |-> old.pdrs, fars |-> old.fars,
             puntReg |-> old.puntReg \cup {p.id}]
  BY SessionFields, Zenon DEF VPPInv, Types
<1> HIDE DEF new
<1> QED
  BY <1>1, <1>2 DEF VPPInv, Types

\* The steps between one FAR and the next configure punts.
LEMMA PuntingSteps ==
  ASSUME VPPInv,
         \/ PuntsDone \/ Refused \/ PuntPort \/ PortsDone \/ PuntProto
         \/ \E p \in job.todo : ConfigurePunt(p)
  PROVE  PuntingStep
<1>0. job \in JobRecord
  BY DEF VPPInv, Types
<1>1. ASSUME job.pc \in {"punt", "ports", "proto"}, job' = FARReturns(job),
             UNCHANGED <<upSEIDs, sessions>>
      PROVE  PuntingStep
  BY <1>0, <1>1 DEF PuntingStep, FARReturns, JobRecord
<1>2. job.pc \in {"punt", "ports", "proto"} => job.seid \in DOMAIN sessions
  BY DEF VPPInv, HandlerOK
<1>3. ASSUME NEW p, MarkRegistered(p), UNCHANGED upSEIDs,
             job.pc \in {"punt", "ports", "proto"},
             /\ job'.seid = job.seid /\ job'.pdrs = job.pdrs
             /\ job'.fars = job.fars /\ job'.pc = "punt"
      PROVE  PuntingStep
  BY <1>2, <1>3, MarkLeaves DEF PuntingStep
<1>4. CASE PuntsDone \/ Refused
  BY <1>1, <1>4 DEF PuntsDone, Refused
<1>5. CASE PuntPort
  BY <1>0, <1>5 DEF PuntPort, PuntingStep, JobRecord
<1>6. CASE PortsDone \/ PuntProto
  <2>1. /\ PuntMarked(job.pdr) /\ upSEIDs' = upSEIDs
        /\ job.pc \in {"ports", "proto"}
    BY <1>6 DEF PortsDone, PuntProto
  <2>2. /\ job'.seid = job.seid /\ job'.pdrs = job.pdrs
        /\ job'.fars = job.fars /\ job'.pc = "punt"
    BY <1>0, <2>1 DEF PuntMarked, JobRecord
  <2> QED
    BY <1>3, <2>1, <2>2 DEF PuntMarked
<1>7. ASSUME NEW p \in job.todo, ConfigurePunt(p) PROVE PuntingStep
  <2> DEFINE rest == [job EXCEPT !.todo = job.todo \ {p}]
             j == [rest EXCEPT !.pdr = p, !.port = p.match.start,
                     !.pc = IF HasPorts(p.match) THEN "ports" ELSE "proto"]
  <2>0. job.pc = "punt" /\ upSEIDs' = upSEIDs
    BY <1>7 DEF ConfigurePunt
  <2>1. /\ rest.seid = job.seid /\ rest.pdrs = job.pdrs /\ rest.fars = job.fars
        /\ rest.pc = "punt"
    BY <1>0, <2>0 DEF JobRecord
  <2>2. /\ j.seid = job.seid /\ j.pdrs = job.pdrs /\ j.fars = job.fars
        /\ j.pc \in {"ports", "proto"}
    BY <1>0, <2>0 DEF JobRecord
  <2>3. \/ job' = rest /\ UNCHANGED sessions
        \/ job' = rest /\ MarkRegistered(p)
        \/ job' = FARReturns(job) /\ UNCHANGED sessions
        \/ job' = j /\ UNCHANGED sessions
    BY <1>7 DEF ConfigurePunt, ConfigureL2Punt
  <2> HIDE DEF rest, j
  <2>4. CASE (job' = rest \/ job' = j) /\ UNCHANGED sessions
    BY <2>0, <2>1, <2>2, <2>4 DEF PuntingStep
  <2>5. CASE job' = rest /\ MarkRegistered(p)
    BY <1>3, <2>0, <2>1, <2>5
  <2>6. CASE job' = FARReturns(job) /\ UNCHANGED sessions
    BY <1>1, <2>0, <2>6
  <2> QED
    BY <2>3, <2>4, <2>5, <2>6
<1> QED
  BY <1>4, <1>5, <1>6, <1>7

\* They change nothing of what is installed.
LEMMA TablePunting ==
  ASSUME TableInv, PuntingStep
  PROVE  TableInv' /\ SameTable
<1>1. SameTable
  BY DEF PuntingStep, SameTable, InstalledFor
<1>2. ASSUME NEW r, NEW n, NEW k, Progress(r, n, k) PROVE Progress(r, n, k)'
  <2>1. job.seid \in DOMAIN sessions => Installed(sessions'[job.seid], r, n, k)
    BY <1>2 DEF PuntingStep, Progress, Installed
  <2> QED
    BY <1>2, <2>1 DEF PuntingStep, Progress
<1>3. TableInv'
  BY <1>2 DEF TableInv, PuntingStep
<1> QED
  BY <1>1, <1>3

\* The PDRs are all in.
LEMMA TablePDRsDone ==
  ASSUME VPPInv, TableInv, PDRsDone
  PROVE  TableInv' /\ SameTable
<1>0. /\ job \in JobRecord /\ job.pc = "pdrs" /\ job.pdrs = <<>>
      /\ upSEIDs' = upSEIDs /\ sessions' = sessions
      /\ job' = [job EXCEPT !.pc = "fars"]
  BY DEF VPPInv, Types, PDRsDone
<1>1. /\ job'.pc = "fars" /\ job'.seid = job.seid /\ job'.pdrs = job.pdrs
      /\ job'.fars = job.fars
  BY <1>0 DEF JobRecord
<1>2. SameTable
  BY <1>0 DEF SameTable, InstalledFor
<1>3. PICK r \in Establishment :
        \E n \in 0 .. Len(r.pdrs), k \in 0 .. Len(r.fars) : Progress(r, n, k)
  BY <1>0 DEF TableInv
<1>4. PICK n \in 0 .. Len(r.pdrs), k \in 0 .. Len(r.fars) : Progress(r, n, k)
  BY <1>3
<1>5. n = Len(r.pdrs)
  <2>1. Len(r.pdrs) \in Nat /\ Len(job.pdrs) = 0
    BY <1>0, VPPAssumption
  <2> QED
    BY <1>4, <2>1 DEF Progress, StillToCome
<1>6. Progress(r, n, k)'
  BY <1>0, <1>1, <1>4, <1>5 DEF Progress
<1>7. TableInv'
  BY <1>0, <1>1, <1>4, <1>6 DEF TableInv
<1> QED
  BY <1>2, <1>7
\* When the handler is done, its session has the rules of one request.
LEMMA AcceptedRules ==
  ASSUME VPPInv, TableInv, Accept
  PROVE  InstalledFor(job.seid) \in AllRules
<1>0. job \in JobRecord /\ job.pc = "fars" /\ job.fars = <<>>
  BY DEF VPPInv, Types, Accept
<1>1. PICK r \in Establishment :
        \E n \in 0 .. Len(r.pdrs), k \in 0 .. Len(r.fars) : Progress(r, n, k)
  BY <1>0 DEF TableInv
<1>2. PICK n \in 0 .. Len(r.pdrs), k \in 0 .. Len(r.fars) : Progress(r, n, k)
  BY <1>1
<1>3. r.pdrs \in Seq(PDR) /\ r.fars \in Seq(FAR)
  BY VPPAssumption
<1>4. n = Len(r.pdrs) /\ k = Len(r.fars)
  <2>1. Len(r.fars) \in Nat /\ Len(job.fars) = 0
    BY <1>0, <1>3
  <2> QED
    BY <1>0, <1>2, <2>1 DEF Progress, StillToCome
<1>5. CASE r.pdrs = <<>>
  <2>1. job.seid \notin DOMAIN sessions
    BY <1>2, <1>4, <1>5 DEF Progress
  <2>2. LastByID(r.pdrs) = EmptyMap
    BY <1>5 DEF LastByID, EmptyMap
  <2>3. InstalledFor(job.seid) = RulesOf(r)
    BY <1>5, <2>1, <2>2, Zenon DEF InstalledFor, RulesOf, NewSession
  <2> QED
    BY <2>3 DEF AllRules
<1>6. CASE r.pdrs # <<>>
  <2>1. Len(r.pdrs) > 0
    BY <1>3, <1>6
  <2>2. /\ job.seid \in DOMAIN sessions
        /\ Installed(sessions[job.seid], r, Len(r.pdrs), Len(r.fars))
    BY <1>2, <1>4, <2>1 DEF Progress
  <2>3. SessionOK(sessions[job.seid])
    BY <2>2 DEF VPPInv, Types
  <2>4. InstalledFor(job.seid) = RulesOf(r)
    BY <1>6, <2>2, <2>3, AllInstalled DEF InstalledFor
  <2> QED
    BY <2>4 DEF AllRules
<1> QED
  BY <1>5, <1>6

\* The end of a handler establishes the session.
LEMMA TableAccept ==
  ASSUME VPPInv, TableInv, Accept
  PROVE  TableInv' /\ Table!Next
<1> DEFINE s == job.seid
<1>0. /\ job \in JobRecord /\ job.pc = "fars" /\ job' = IdleJob
      /\ upSEIDs' = upSEIDs \cup {s} /\ sessions' = sessions
  BY DEF VPPInv, Types, Accept
<1>1. TableInv'
  BY <1>0 DEF TableInv, IdleJob
<1>2. s \in 1 .. MaxSessions /\ s \notin upSEIDs
  BY <1>0, JobFields, VPPAssumption DEF VPPInv, HandlerOK, FreshSEID
<1>3. \A t \in 1 .. s - 1 : t \in upSEIDs
  BY <1>0 DEF TableInv
<1>4. PICK rules \in AllRules : rules = InstalledFor(s)
  BY AcceptedRules
<1>5. \A t : InstalledFor(t)' = InstalledFor(t)
  BY <1>0 DEF InstalledFor
<1>6. Table!Establish(s, rules)
  BY <1>0, <1>2, <1>3, <1>4, <1>5 DEF Table!Establish, Table!Assign
<1> QED
  BY <1>1, <1>2, <1>4, <1>6 DEF Table!Next

\* A deletion at the user plane is one in the table.
LEMMA TableDelete ==
  ASSUME VPPInv, NEW s \in upSEIDs, DeleteSession(s)
  PROVE  TableInv' /\ Table!Next
<1>0. /\ job.pc = "idle" /\ job' = job /\ upSEIDs' = upSEIDs \ {s}
      /\ sessions' = [t \in DOMAIN sessions \ {s} |-> sessions[t]]
  BY DEF DeleteSession, Without, Restrict
<1>1. TableInv'
  BY <1>0 DEF TableInv
<1>2. \A t \in upSEIDs \ {s} : InstalledFor(t)' = InstalledFor(t)
  BY <1>0 DEF InstalledFor
<1>3. Table!Delete(s)
  BY <1>0, <1>2 DEF Table!Delete, Table!Without, Table!Restrict
<1>4. s \in 1 .. MaxSessions
  BY DEF VPPInv, Types
<1> QED
  BY <1>1, <1>3, <1>4 DEF Table!Next

\* A crash empties the table.
LEMMA TableCrash ==
  ASSUME Crash
  PROVE  TableInv' /\ Table!Next
<1>1. upSEIDs' = {} /\ job' = IdleJob
  BY DEF Crash
<1>2. TableInv'
  BY <1>1 DEF TableInv, IdleJob
<1>3. Table!Crash
  BY <1>1 DEF Table!Crash, Table!EmptyMap
<1> QED
  BY <1>2, <1>3 DEF Table!Next

\* Every step of the handlers is one of the table, or none.
LEMMA TableStep ==
  VPPInv /\ TableInv /\ [Next]_vars =>
    TableInv' /\ [Table!Next]_([s \in upSEIDs |-> InstalledFor(s)])
<1> SUFFICES ASSUME VPPInv, TableInv, [Next]_vars
             PROVE  TableInv' /\ (Table!Next \/ SameTable)
  BY DEF SameTable
<1>1. CASE HandlerStep
  <2>1. CASE InstallPDR
    BY <2>1, TableInstallPDR
  <2>2. CASE PDRsDone
    BY <2>2, TablePDRsDone
  <2>3. CASE InstallFAR
    BY <2>3, TableInstallFAR
  <2>4. CASE Accept
    BY <2>4, TableAccept
  <2>5. CASE \/ PuntsDone \/ Refused \/ PuntPort \/ PortsDone \/ PuntProto
             \/ \E p \in job.todo : ConfigurePunt(p)
    BY <2>5, PuntingSteps, TablePunting
  <2> QED
    BY <1>1, <2>1, <2>2, <2>3, <2>4, <2>5 DEF HandlerStep
<1>2. ASSUME NEW r \in Establishment, Establish(r)
      PROVE  TableInv' /\ SameTable
  BY <1>2, TableEstablish DEF Establish, SameTable, InstalledFor
<1>3. ASSUME NEW s \in upSEIDs, DeleteSession(s) PROVE TableInv' /\ Table!Next
  BY <1>3, TableDelete
<1>4. CASE Crash
  BY <1>4, TableCrash
<1>5. CASE UNCHANGED vars
  BY <1>5 DEF vars, TableInv, Progress, SameTable, InstalledFor
<1> QED
  BY <1>1, <1>2, <1>3, <1>4, <1>5 DEF Next

\* The table is empty at first.
LEMMA TableInit == Init => TableInv /\ Table!Init
BY DEF Init, IdleJob, TableInv, Table!Init, Table!EmptyMap

(***************************************************************************)
(* Seen by the sessions a user plane holds, the dataplane is the atomic    *)
(* SessionTable, for every set of requests, however many rules they have,  *)
(* whatever VPP refuses and whenever the process dies: a handler installs  *)
(* the rules one by one, and a session has all of its request's, and no    *)
(* other, from the moment it is accepted.                                  *)
(***************************************************************************)
THEOREM VPPImplementsSessionTable == Spec => ImplementsSessionTable
BY VPPInvariant, TableInit, TableStep, PTL
   DEF Spec, ImplementsSessionTable, Table!Spec
=============================================================================
