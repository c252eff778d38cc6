--------------------------- MODULE ClientRequests ---------------------------
(***************************************************************************)
(* How the clients of the gRPC API write their requests, after the         *)
(* examples in README.md.  Next to the text of a filter a PDR keeps the    *)
(* parts it is written from.                                               *)
(***************************************************************************)
EXTENDS Rules

\* The parts of a filter: a spelling of its protocol and the protocol, two
\* addresses, the ports, and the number of further words behind them.
Filter(name, proto, from, to, ports, extra) ==
  [name |-> name, proto |-> proto, from |-> from, to |-> to, ports |-> ports,
   extra |-> extra]
Udp(ports) == Filter("udp", 17, "any", "any", ports, 0)
NoFilter == Filter("", 0, "", "", <<>>, 0)

\* How the filter is written; without ports nothing can follow them.
Written(f) ==
  IF f.name = "" THEN <<>>
  ELSE <<Word("permit"), Word("in"), Word(f.name), Word("from"), Word(f.from),
         Word("to"), Word(f.to)>>
       \o (IF f.ports = <<>> THEN <<>>
           ELSE <<[i \in DOMAIN f.ports |-> ToString(f.ports[i])]>>
                \o [i \in 1 .. f.extra |-> Word("established")])

ClientPDR(id, far, source, filter, ueIP, app) ==
  [id |-> id, precedence |-> 1000, source |-> source, filter |-> filter,
   sdf |-> Written(filter), ueIP |-> ueIP,
   app |-> IF app = "" THEN <<>> ELSE <<Word(app)>>, far |-> far]
ClientFAR(id, action) == [id |-> id, action |-> action, destination |-> 3]
Request(pdrs, fars, qers, urrs) ==
  [pdrs |-> pdrs, fars |-> fars, qers |-> qers, urrs |-> urrs]

One(pdr) == Request(<<pdr>>, <<ClientFAR(1, 2)>>, <<>>, <<>>)

\* What VPP is asked to install for a request, through all of Rules.
Delivered(r) ==
  LET octets == Marshal(EstablishmentRequest(1, Convert(r))) IN
  ForVPP(ReadRules(Unmarshal(octets, Len(octets))[1]))
=============================================================================
