------------------------------- MODULE Rules -------------------------------
(***************************************************************************)
(* The rules of a session on their way from the gRPC client to VPP: the    *)
(* conversion in pkg/cp/grpc.go, the IEs that pkg/cp/cp.go makes of them,  *)
(* what pkg/up/handlers.go reads from those, and the match the VPP         *)
(* dataplane derives with sdf_parser.go and l2_filters.go.                 *)
(*                                                                         *)
(* A word of a text is the sequence of its pieces between dashes, so that  *)
(* "67-68" is <<"67", "68">> and "udp" is <<"udp">>; names stand for their *)
(* spellings in either case.                                               *)
(***************************************************************************)
EXTENDS Codec

CONSTANTS
  IPv4,  \* texts of IPv4 addresses
  IPv6   \* texts of IPv6 addresses, the ones with a colon

Word(s) == <<s>>

\* constants.go.
TypeCreatePDR == 1
TypePDI == 2
TypeCreateFAR == 3
TypeForwardingParameters == 4
TypeCreateURR == 6
TypeCreateQER == 7
TypeCause == 19
TypeSourceInterface == 20
TypeNetworkInstance == 22
TypeSDFFilter == 23
TypeApplicationID == 24
TypePrecedence == 29
TypeDestinationInterface == 42
TypeApplyAction == 44
TypePDR_ID == 56
TypeNodeID == 60
TypeURR_ID == 81
TypeUE_IPAddress == 93
TypeRecoveryTimeStamp == 96
TypeFAR_ID == 108
TypeQER_ID == 109

-----------------------------------------------------------------------------
(***************************************************************************)
(* The control plane.  A client's PDR is [id, precedence, source, sdf,     *)
(* ueIP, app, far], its FAR [id, action, destination]; of QERs and URRs    *)
(* only the IDs go on.  The network instances are left out: marshalPDRs    *)
(* and marshalFARs do not send them.  Neither is a PDR's list of QERs and  *)
(* URRs, which no code fills.                                              *)
(***************************************************************************)

\* net.ParseIP: nil when the text is no address.
ParseIP(text) == IF text \in IPv4 \cup IPv6 THEN Some(text) ELSE None

\* Mutant: the ID is cut to one octet.
ConvertPDRNarrow(p) ==
  [id |-> Uint8(p.id), precedence |-> p.precedence, source |-> Uint8(p.source),
   sdf |-> p.sdf, ueIP |-> ParseIP(p.ueIP), app |-> p.app, far |-> p.far]

ConvertPDR(p) ==
  [id |-> Uint16(p.id), precedence |-> p.precedence,
   source |-> Uint8(p.source), sdf |-> p.sdf, ueIP |-> ParseIP(p.ueIP),
   app |-> p.app, far |-> p.far]

ConvertFAR(f) ==
  [id |-> f.id, action |-> Uint8(f.action),
   destination |-> Uint8(f.destination)]

\* GRPCServer.CreateSession, up to the call of CPFunction.CreateSession.
Convert(r) ==
  [pdrs |-> [i \in DOMAIN r.pdrs |-> ConvertPDR(r.pdrs[i])],
   fars |-> [i \in DOMAIN r.fars |-> ConvertFAR(r.fars[i])],
   qers |-> r.qers, urrs |-> r.urrs]

NewUE_IPAddressIE(ip) ==
  IE(TypeUE_IPAddress, <<IF ip \in IPv6 THEN 1 ELSE 2, Word(ip)>>)

NewSDFFilterIE(text) ==
  IE(TypeSDFFilter, <<1, 0>> \o BigEndian(Uint16(Len(text)), 2) \o text)

MarshalPDR(p) ==
  LET pdi == <<IE(TypeSourceInterface, <<p.source>>)>>
               \o (IF p.ueIP # None THEN <<NewUE_IPAddressIE(p.ueIP[1])>>
                   ELSE <<>>)
               \o (IF p.sdf # <<>> THEN <<NewSDFFilterIE(p.sdf)>> ELSE <<>>)
               \o (IF p.app # <<>> THEN <<IE(TypeApplicationID, p.app)>>
                   ELSE <<>>)
  IN NewGroupedIE(TypeCreatePDR,
       <<IE(TypePDR_ID, BigEndian(p.id, 2)),
         IE(TypePrecedence, BigEndian(p.precedence, 4)),
         NewGroupedIE(TypePDI, pdi),
         IE(TypeFAR_ID, BigEndian(p.far, 4))>>)

MarshalFAR(f) ==
  NewGroupedIE(TypeCreateFAR,
    <<IE(TypeFAR_ID, BigEndian(f.id, 4)),
      IE(TypeApplyAction, <<f.action>>),
      NewGroupedIE(TypeForwardingParameters,
        <<IE(TypeDestinationInterface, <<f.destination>>)>>)>>)

MarshalQER(id) ==
  NewGroupedIE(TypeCreateQER, <<IE(TypeQER_ID, BigEndian(id, 4))>>)
MarshalURR(id) ==
  NewGroupedIE(TypeCreateURR, <<IE(TypeURR_ID, BigEndian(id, 4))>>)

\* The marshal functions of cp.go and NewSessionEstablishmentRequest.
EstablishmentRequest(seq, c) ==
  SessionMessage(50, seq, 0,
       [i \in DOMAIN c.pdrs |-> MarshalPDR(c.pdrs[i])]
    \o [i \in DOMAIN c.fars |-> MarshalFAR(c.fars[i])]
    \o [i \in DOMAIN c.qers |-> MarshalQER(c.qers[i])]
    \o [i \in DOMAIN c.urrs |-> MarshalURR(c.urrs[i])])

-----------------------------------------------------------------------------
(***************************************************************************)
(* The other messages, which carry no rules.  A node ID is a text.         *)
(***************************************************************************)

NewNodeIDIE(node) == IE(TypeNodeID, <<0>> \o node)
NewCauseIE(cause) == IE(TypeCause, <<cause>>)
NewRecoveryTimeStampIE(ts) == IE(TypeRecoveryTimeStamp, BigEndian(ts, 4))

HeartbeatMessages(seq, ts) ==
  {NodeMessage(t, seq, <<NewRecoveryTimeStampIE(ts)>>) : t \in {1, 2}}

SetupRequestMessage(seq, node, ts) ==
  NodeMessage(5, seq, <<NewNodeIDIE(node), NewRecoveryTimeStampIE(ts)>>)
SetupResponseMessage(seq, node, cause, ts) ==
  NodeMessage(6, seq, <<NewNodeIDIE(node), NewCauseIE(cause),
                        NewRecoveryTimeStampIE(ts)>>)
ReleaseRequestMessage(seq, node) == NodeMessage(9, seq, <<NewNodeIDIE(node)>>)
ReleaseResponseMessage(seq, node, cause) ==
  NodeMessage(10, seq, <<NewNodeIDIE(node), NewCauseIE(cause)>>)

\* The F-SEID travels under the type of a PDI.
EstablishmentResponseMessage(seq, seid, cause, local) ==
  SessionMessage(51, seq, seid,
    <<NewCauseIE(cause), IE(TypePDI, <<2>> \o BigEndian(local, 8))>>)
DeletionRequestMessage(seq, seid) == SessionMessage(54, seq, seid, <<>>)
DeletionResponseMessage(seq, seid, cause) ==
  SessionMessage(55, seq, seid, <<NewCauseIE(cause)>>)

-----------------------------------------------------------------------------
(***************************************************************************)
(* The user plane: handleSessionEstablishmentRequest.  A repeated IE       *)
(* overwrites, an unknown one is skipped, and a grouped IE that cannot be  *)
(* parsed is skipped whole.                                                *)
(***************************************************************************)

GetPDR_ID(ie) ==
  IF Len(ie.value) < 2 THEN 0 ELSE FromBigEndian(Slice(ie.value, 0, 2))

\* Mutant: a FAR ID is read like a PDR ID.
GetFAR_IDShort(ie) ==
  IF Len(ie.value) < 4 THEN 0 ELSE FromBigEndian(Slice(ie.value, 0, 2))

GetFAR_ID(ie) ==
  IF Len(ie.value) < 4 THEN 0 ELSE FromBigEndian(Slice(ie.value, 0, 4))

EmptyPDI ==
  [source |-> 0, sdf |-> <<>>, ueIP |-> <<>>, instance |-> <<>>, app |-> <<>>]
EmptyPDR == [id |-> 0, precedence |-> 0, far |-> 0, pdi |-> EmptyPDI]

ReadPDI(pdi, ie) ==
  CASE ie.type = TypeSourceInterface /\ ie.value # <<>>
         -> [pdi EXCEPT !.source = ie.value[1]]
    [] ie.type = TypeSDFFilter -> [pdi EXCEPT !.sdf = ie.value]
    [] ie.type = TypeUE_IPAddress -> [pdi EXCEPT !.ueIP = ie.value]
    [] ie.type = TypeNetworkInstance -> [pdi EXCEPT !.instance = ie.value]
    [] ie.type = TypeApplicationID -> [pdi EXCEPT !.app = ie.value]
    [] OTHER -> pdi

ReadPDR(pdr, ie) ==
  CASE ie.type = TypePDR_ID -> [pdr EXCEPT !.id = GetPDR_ID(ie)]
    [] ie.type = TypePrecedence -> [pdr EXCEPT !.precedence = 0]
    [] ie.type = TypeFAR_ID -> [pdr EXCEPT !.far = GetFAR_ID(ie)]
    [] ie.type = TypePDI ->
         LET ies == ParseGroupedIE(ie.value) IN
         IF ies = None THEN pdr
         ELSE [pdr EXCEPT !.pdi = FoldLeft(ReadPDI, @, ies[1])]
    [] OTHER -> pdr

ReadFAR(far, ie) ==
  CASE ie.type = TypeFAR_ID -> [far EXCEPT !.id = GetFAR_ID(ie)]
    [] ie.type = TypeApplyAction /\ ie.value # <<>>
         -> [far EXCEPT !.action = ie.value[1]]
    [] OTHER -> far

\* The grouped IEs of a type, parsed; those that cannot be are skipped.
ParsedGroups(m, type) ==
  LET found == FindAllIEs(m, type)
      parsed == [i \in DOMAIN found |-> ParseGroupedIE(found[i].value)]
  IN SelectSeq(parsed, LAMBDA ies : ies # None)

\* The calls of InstallPDR and InstallFAR, in order.
ReadRules(m) ==
  LET pdrs == ParsedGroups(m, TypeCreatePDR)
      fars == ParsedGroups(m, TypeCreateFAR)
      empty == [id |-> 0, action |-> 0]
  IN [pdrs |-> [i \in DOMAIN pdrs |-> FoldLeft(ReadPDR, EmptyPDR, pdrs[i][1])],
      fars |-> [i \in DOMAIN fars |-> FoldLeft(ReadFAR, empty, fars[i][1])]]

-----------------------------------------------------------------------------
(***************************************************************************)
(* VPP: parseSDFFilter, the registry of L2 filters, and the choice that    *)
(* configurePuntForPDR makes between them.                                 *)
(***************************************************************************)

\* strconv.ParseUint in base 10, for numbers below a limit.
ParseUint(s, limit) ==
  LET n == {k \in 0 .. limit - 1 : ToString(k) = s} IN
  IF n = {} THEN None ELSE Some(CHOOSE k \in n : TRUE)

ProtocolNumber ==
  "tcp" :> 6 @@ "udp" :> 17 @@ "icmp" :> 1 @@ "icmpv6" :> 58 @@ "ip" :> 0

ParseProtocol(word) ==
  IF Len(word) = 1 /\ word[1] \in DOMAIN ProtocolNumber
  THEN Some(ProtocolNumber[word[1]])
  ELSE IF Len(word) = 1 THEN ParseUint(word[1], 256) ELSE None


ParsePortRange(word) ==
  LET n == [i \in DOMAIN word |-> ParseUint(word[i], Radix * Radix)] IN
  IF Len(word) > 2 \/ \E i \in DOMAIN n : n[i] = None THEN None
  ELSE Some([start |-> n[1][1], end |-> n[Len(n)][1]])

NoPorts == [start |-> 0, end |-> 0]

\* permit in <protocol> from <address> to <address> [<ports>]
ParseFlowDescription(text) ==
  IF Len(text) < 7 THEN None
  ELSE LET proto == ParseProtocol(text[3])
           ports == IF Len(text) > 7 THEN ParsePortRange(text[8])
                    ELSE Some(NoPorts)
       IN IF \/ proto = None \/ ports = None
             \/ text[4] # Word("from") \/ text[6] # Word("to") THEN None
          ELSE Some([proto |-> proto[1], src |-> text[5], dst |-> text[7],
                     af |-> IF text[5][1] \in IPv6 \/ text[7][1] \in IPv6
                            THEN 6 ELSE 4,
                     start |-> ports[1].start, end |-> ports[1].end])

\* The four optional fields that may follow change nothing but have to be
\* there; the control plane sends none of them.
ParseSDFFilter(value) ==
  IF Len(value) < 2 \/ (HasFlag(value[1], 1) /\ Len(value) < 4) THEN None
  ELSE LET fd == HasFlag(value[1], 1)
           end == IF fd THEN 4 + FromBigEndian(Slice(value, 2, 4)) ELSE 2
           more == Flag(HasFlag(value[1], 2), 2) + Flag(HasFlag(value[1], 4), 4)
                   + Flag(HasFlag(value[1], 8), 3)
                   + Flag(HasFlag(value[1], 16), 4)
       IN IF Len(value) < end + more THEN None
          ELSE IF fd THEN ParseFlowDescription(Slice(value, 4, end))
          ELSE Some([proto |-> 0, src |-> <<>>, dst |-> <<>>, af |-> 4,
                     start |-> 0, end |-> 0])

L2FilterRegistry ==
  {"ARP", "PPPOE_DISCOVERY", "PPPOE_SESSION", "LLDP", "DOT1Q", "IPV6"}
GetL2Filter(app) == \E name \in L2FilterRegistry : app = <<Word(name)>>

Unmatched(kind) == [kind |-> kind, af |-> 4, proto |-> 0, start |-> 0, end |-> 0]

\* The addresses of the filter are parsed, and nothing is made of them.
MatchOf(pdi) ==
  IF pdi.app # <<>>
  THEN Unmatched(IF GetL2Filter(pdi.app) THEN "l2" ELSE "unknown")
  ELSE IF pdi.sdf = <<>> THEN Unmatched("none")
  ELSE LET f == ParseSDFFilter(pdi.sdf) IN
       IF f = None THEN Unmatched("malformed")
       ELSE [kind |-> "sdf", af |-> f[1].af, proto |-> f[1].proto,
             start |-> f[1].start, end |-> f[1].end]

\* What a session's rules are to VPP; bit 0x02 of the action asks for punts.
ForVPP(rules) ==
  [pdrs |-> [i \in DOMAIN rules.pdrs |->
      [id |-> rules.pdrs[i].id, far |-> rules.pdrs[i].far,
       match |-> MatchOf(rules.pdrs[i].pdi)]],
   fars |-> [i \in DOMAIN rules.fars |->
      [id |-> rules.fars[i].id, punt |-> HasFlag(rules.fars[i].action, 2)]]]
=============================================================================
