------------------------------ MODULE RulePath ------------------------------
(***************************************************************************)
(* Messages on their way through two processes: a client's request is      *)
(* converted and marshalled at the control plane, travels in a datagram,   *)
(* is read into the receive buffer of the user plane and taken apart there *)
(* again.  The messages without rules take the same way.  The buffer of    *)
(* receiveLoop is used for every datagram, so that an earlier message lies *)
(* under a later and shorter one.                                          *)
(***************************************************************************)
EXTENDS Rules

CONSTANTS
  ClientRequest,  \* the CreateSessionRequests of the clients
  OtherMessage,   \* messages that carry no rules
  SeqNum,         \* sequence numbers SendRequest may have given out
  Packet,         \* packets of users: [src, dst, proto, port]
  MaxDatagram,    \* 65507, the most WriteToUDP sends
  MaxMessages     \* bound: messages sent one after the other

BufferLen == Radix * Radix - 1  \* 65535

ASSUME DatagramAssumption == MaxDatagram \in Nat /\ MaxDatagram < BufferLen

VARIABLES
  stage,      \* how far the message is
  request,    \* the client's request
  converted,  \* the arguments of CPFunction.CreateSession
  msg,        \* the message given to send
  wire,       \* the datagram
  buffer,     \* buf of receiveLoop
  got,        \* the message Unmarshal made of it
  installed,  \* the PDRs and FARs handed to the user plane's dataplane
  messages    \* how many messages there have been

vars == <<stage, request, converted, msg, wire, buffer, got, installed,
          messages>>

NoRules == [pdrs |-> <<>>, fars |-> <<>>, qers |-> <<>>, urrs |-> <<>>]

Init ==
  /\ stage = "idle"
  /\ request = NoRules
  /\ converted = NoRules
  /\ msg = None
  /\ wire = <<>>
  /\ buffer = [i \in 1 .. BufferLen |-> 0]
  /\ got = None
  /\ installed = NoRules
  /\ messages = 0

-----------------------------------------------------------------------------
\* The gRPC server turns the client's request into the arguments of
\* CPFunction.CreateSession.
CreateSession(r) ==
  /\ stage = "idle" /\ messages < MaxMessages
  /\ stage' = "converted"
  /\ request' = r
  /\ converted' = Convert(r)
  /\ messages' = messages + 1
  /\ UNCHANGED <<msg, wire, buffer, got, installed>>

\* CreateSession marshals the rules; SendRequest numbers the message.
Build(seq) ==
  /\ stage = "converted"
  /\ stage' = "built"
  /\ msg' = Some(EstablishmentRequest(seq, converted))
  /\ UNCHANGED <<request, converted, wire, buffer, got, installed, messages>>

BuildOther(m) ==
  /\ stage = "idle" /\ messages < MaxMessages
  /\ stage' = "built"
  /\ msg' = Some(m)
  /\ messages' = messages + 1
  /\ UNCHANGED <<request, converted, wire, buffer, got, installed>>

\* send: the socket takes what fits into a datagram ...
Send ==
  /\ stage = "built"
  /\ Len(Marshal(msg[1])) <= MaxDatagram
  /\ stage' = "sent"
  /\ wire' = Marshal(msg[1])
  /\ UNCHANGED <<request, converted, msg, buffer, got, installed, messages>>

Finish ==
  /\ stage' = "idle"
  /\ request' = NoRules
  /\ converted' = NoRules
  /\ msg' = None
  /\ wire' = <<>>
  /\ got' = None
  /\ installed' = NoRules
  /\ UNCHANGED <<buffer, messages>>

\* ... and refuses what does not, which ends the call with an error.
SendError ==
  /\ stage = "built"
  /\ Len(Marshal(msg[1])) > MaxDatagram
  /\ Finish

\* ReadFromUDP overwrites the front of the buffer.
Receive ==
  /\ stage = "sent"
  /\ stage' = "received"
  /\ buffer' = wire \o From(buffer, Len(wire))
  /\ got' = Unmarshal(buffer', Len(wire))
  /\ UNCHANGED <<request, converted, msg, wire, installed, messages>>

Establishment == got # None /\ got[1].header.type = 50

\* handleSessionEstablishmentRequest, up to the dataplane.
Handle ==
  /\ stage = "received"
  /\ Establishment
  /\ stage' = "installed"
  /\ installed' = ReadRules(got[1])
  /\ UNCHANGED <<request, converted, msg, wire, buffer, got, messages>>

\* The end of an establishment, and of a message without rules.
Done ==
  /\ \/ stage = "installed"
     \/ stage = "received" /\ ~Establishment
  /\ Finish

Next ==
  \/ \E r \in ClientRequest : CreateSession(r)
  \/ \E m \in OtherMessage : BuildOther(m)
  \/ \E seq \in SeqNum : Build(seq)
  \/ Send \/ SendError \/ Receive \/ Handle \/ Done

Spec == Init /\ [][Next]_vars

-----------------------------------------------------------------------------
(***************************************************************************)
(* What Unmarshal returns is the message that Marshal was given, with its  *)
(* length filled in: header, IEs and grouped IEs come back octet for       *)
(* octet, whatever an earlier datagram left in the buffer.  The lengths    *)
(* are cut to uint16 without a check; that a datagram is shorter than 2^16 *)
(* is what keeps them right.                                               *)
(***************************************************************************)
RoundTrip == stage = "received" => got = Some(WithLength(msg[1]))

\* The address the user plane keeps, in the encoding of the IE; an address
\* that does not parse is dropped without an error.
KeptIP(text) ==
  CASE text \in IPv4 -> <<2, Word(text)>>
    [] text \in IPv6 -> <<1, Word(text)>>
    [] OTHER -> <<>>

(***************************************************************************)
(* The dataplane is given the client's PDRs and FARs, all of them and in   *)
(* the client's order: the FAR, the interface, the Application ID and the  *)
(* address of each PDR, and the action of each FAR.  Lost on the way are   *)
(* the high bits of what is cut to uint8 and uint16, and what the handler  *)
(* does not read: the precedence, which is 0 as the output in README.md    *)
(* shows, the destination interface of a FAR, the QERs and the URRs.       *)
(***************************************************************************)
RulesDelivered ==
  stage = "installed" =>
    /\ Len(installed.pdrs) = Len(request.pdrs)
    /\ \A i \in DOMAIN request.pdrs :
         LET p == installed.pdrs[i]  asked == request.pdrs[i] IN
         /\ p.far = asked.far /\ p.precedence = 0
         /\ p.pdi.source = asked.source % Radix
         /\ p.pdi.ueIP = KeptIP(asked.ueIP)
         /\ p.pdi.app = asked.app /\ p.pdi.instance = <<>>
    /\ Len(installed.fars) = Len(request.fars)
    /\ \A i \in DOMAIN request.fars :
         installed.fars[i] = [id |-> request.fars[i].id,
                              action |-> request.fars[i].action % Radix]

\* Session.PDRs and Session.FARs, at either side: maps filled in order.
ByID(rules) == FoldLeft(LAMBDA m, r : r.id :> r @@ m, <<>>, rules)

(***************************************************************************)
(* Both processes key a session's PDRs by ID.  PDRs whose IDs in the API   *)
(* agree in the lower 16 bits become one, the last of them; all others are *)
(* kept apart; and the two processes keep the same ones.                   *)
(***************************************************************************)
PDRsKept ==
  stage = "installed" =>
    LET atCP == ByID(converted.pdrs)
        atUP == ByID(installed.pdrs)
        ID(i) == request.pdrs[i].id % (Radix * Radix)
        far(i) == request.pdrs[i].far
    IN /\ DOMAIN atCP = DOMAIN atUP
       /\ \A i \in DOMAIN request.pdrs :
            (\A j \in DOMAIN request.pdrs : j > i => ID(j) # ID(i)) =>
              /\ ID(i) \in DOMAIN atUP
              /\ atCP[ID(i)].far = far(i) /\ atUP[ID(i)].far = far(i)

\* The address family of a pair of addresses; "any" is no address.
Family(addresses) == IF addresses \cap IPv6 = {} THEN 4 ELSE 6

\* A packet is one that VPP punts for a match: by family and protocol, and of
\* TCP, UDP and SCTP by the range of ports, unless both its ends are 0.
Punted(match, p) ==
  /\ match.kind = "sdf"
  /\ match.af = Family({p.src, p.dst})
  /\ match.proto = p.proto
  /\ match.proto \in {6, 17, 132} /\ (match.start > 0 \/ match.end > 0) =>
       p.port \in match.start .. match.end

\* The filter names its protocol by a number or one of five names, and its
\* one or two ports are numbers of 16 bits.
Readable(filter) ==
  /\ \/ filter.name \in {"tcp", "udp", "icmp", "icmpv6", "ip"}
     \/ filter.name \in {ToString(n) : n \in 0 .. 255}
  /\ Len(filter.ports) <= 2
  /\ \A i \in DOMAIN filter.ports : filter.ports[i] < Radix * Radix

InPorts(filter, p) ==
  filter.ports # <<>> =>
    p.port \in filter.ports[1] .. filter.ports[Len(filter.ports)]

\* How far the client's filter decides over a packet: not by its addresses but
\* for their family, and by ports only where a port other than 0 is named.
Selects(filter, p) ==
  /\ filter.proto = p.proto
  /\ Family({filter.from, filter.to}) = Family({p.src, p.dst})
  /\ filter.proto \in {6, 17, 132} /\ (\E i \in DOMAIN filter.ports :
                                         filter.ports[i] > 0) =>
       InPorts(filter, p)


(***************************************************************************)
(* README.md:220 says of a PDR's SDF filter: "L3/L4 matching using flow    *)
(* descriptions (IP 5-tuple: src/dst IP, src/dst port, protocol)".  So a   *)
(* packet that VPP punts for the PDR has the addresses, the protocol and   *)
(* the port of its filter.                                                 *)
(***************************************************************************)
Matches(filter, p) ==
  /\ filter.proto = p.proto
  /\ filter.from \in {"any", p.src} /\ filter.to \in {"any", p.dst}
  /\ InPorts(filter, p)

FiveTupleMatched ==
  stage = "installed" =>
    \A i \in DOMAIN request.pdrs :
      LET match == ForVPP(installed).pdrs[i].match IN
      \A p \in Packet : Punted(match, p) => Matches(request.pdrs[i].filter, p)
=============================================================================
