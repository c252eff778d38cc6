----------------------------- MODULE MCRulePath -----------------------------
EXTENDS RulePath, ClientRequests

MCIPv4 == {"10.0.0.1", "10.0.0.2"}
MCIPv6 == {"2001:db8::1"}

Filters ==
  { Udp(<<67, 68>>), Udp(<<Radix * Radix - 1>>), Udp(<<0>>), Udp(<<5, 1>>),
    Udp(<<Radix * Radix>>), Udp(<<1, 2, 3>>), Udp(<<>>),
    Filter("132", 132, "any", "10.0.0.1", <<7>>, 0),
    Filter("47", 47, "2001:db8::1", "any", <<>>, 0),
    Filter("256", 256, "any", "any", <<>>, 0),
    \* the two names are those of README.md:233-234
    Filter("sctp", 132, "any", "any", <<7>>, 0),
    Filter("gre", 47, "any", "any", <<>>, 0),
    Filter("47", 47, "any", "any", <<7>>, 0),
    Filter("ip", 0, "any", "10.0.0.1", <<>>, 0),
    Filter("udp", 17, "10.0.0.1", "10.0.0.2", <<0, 5>>, 0),
    Filter("icmpv6", 58, "any", "2001:db8::1", <<>>, 0),
    Filter("tcp", 6, "any", "any", <<1, 2>>, 100),
    \* the longest text that fits, and the next; one that is too long for the
    \* length of the message, and one too long for that of the filter
    Filter("udp", 17, "any", "any", <<9>>, 134),
    Filter("udp", 17, "any", "any", <<9>>, 135),
    Filter("udp", 17, "any", "any", <<9>>, 180),
    Filter("udp", 17, "any", "any", <<9>>, 248) }

MCClientRequest ==
  {One(ClientPDR(1, 1, 0, f, "", "")) : f \in Filters}
    \cup {One(ClientPDR(Radix * Radix - 1, 1, Radix + 3, NoFilter, ip, app)) :
            ip \in {"", "10.0.0.1", "2001:db8::1", "no address"},
            app \in {"", "ARP", "NTP"}}
    \* an Application ID and a filter; a second PDR under the same cut ID
    \cup {Request(<<ClientPDR(1, 2, 0, Udp(<<1, 2>>), "", "ARP"),
                    ClientPDR(id, Radix * Radix + 1, 1, Udp(<<3>>), "10.0.0.1",
                              "")>>,
                  <<ClientFAR(Radix * Radix + 1, 2), ClientFAR(2, Radix + 1)>>,
                  <<1, 2>>, <<Radix * Radix>>) :
            id \in {1, 2, Radix + 1, Radix * Radix + 1}}
    \cup {Request(<<>>, <<ClientFAR(1, 2)>>, <<1>>, <<>>)}

\* One filter with addresses.
MCAddressed ==
  {One(ClientPDR(1, 1, 0,
         Filter("udp", 17, "10.0.0.1", "any", <<67, 68>>, 0), "", ""))}

\* Packets between users of one family; the ports are those of the filters
\* and their neighbours.
MCPacket ==
  UNION {[src: ips, dst: ips, proto: {0, 1, 6, 17, 47, 58, 132},
          port: UNION {0 .. 10, 66 .. 69, {Radix * Radix - k : k \in 1 .. 2}}] :
           ips \in {MCIPv4, MCIPv6}}

MCSeqNum == {1, Radix * Radix * Radix - 1}
SEID == {0, Radix * Radix * Radix + 1}
Node == <<Word("up"), Word("1")>>

MCOtherMessage ==
  UNION {
    HeartbeatMessages(1, Radix * Radix * Radix),
    { SetupRequestMessage(s, Node, 7) : s \in MCSeqNum },
    { SetupResponseMessage(1, Node, 1, 7), ReleaseRequestMessage(2, Node),
      ReleaseResponseMessage(2, Node, 1) },
    { EstablishmentResponseMessage(s, seid, 1, 5) :
        s \in MCSeqNum, seid \in SEID },
    { DeletionRequestMessage(s, seid) : s \in MCSeqNum, seid \in SEID },
    { DeletionResponseMessage(1, seid, 64) : seid \in SEID } }
=============================================================================
