--------------------------- MODULE MCVPPDataplane ---------------------------
EXTENDS VPPDataplane, ClientRequests

MCMaxPort == Radix * Radix - 1
MCIPv4 == {"10.0.0.1"}
MCIPv6 == {"2001:db8::1"}

P(id, far, filter) == ClientPDR(id, far, 0, filter, "", "")
L2(id, far, app) == ClientPDR(id, far, 0, NoFilter, "", app)
F(id, action) == ClientFAR(id, action)

Gre6 == Filter("47", 47, "2001:db8::1", "any", <<>>, 0)

\* The establishments are what becomes of requests of clients.
Asks(pdrs, fars) == Request(pdrs, fars, <<>>, <<>>)

MCEstablishment ==
  {Delivered(r) : r \in {
    \* two PDRs on one FAR, and a second FAR that finds them punted; the
    \* ports are next to the last one
    Asks(<<P(1, 1, Udp(<<MCMaxPort - 2, MCMaxPort - 1>>)), P(2, 1, Gre6)>>,
         <<F(1, 2), F(1, 2)>>),
    \* the second PDR replaces the first; its range is empty
    Asks(<<P(1, 1, Udp(<<1>>)), P(1, 1, Udp(<<2, 1>>))>>, <<F(1, 2)>>),
    \* one PDR is refused, the others may come before it or not at all
    Asks(<<L2(1, 1, "NTP"), P(2, 1, Udp(<<0>>)), L2(3, 1, "ARP")>>,
         <<F(1, 2), F(2, 1)>>),
    \* a filter that is no filter
    Asks(<<P(1, 1, Udp(<<1, 2, 3>>))>>, <<F(1, 2)>>),
    \* no PDR at all
    Asks(<<>>, <<F(1, 2)>>) }}

\* One PDR and its FAR, as in the README's example.
MCReadmeExample ==
  {Delivered(Asks(<<P(1, 1, Udp(<<67, 68>>))>>, <<F(1, 2)>>))}

\* A port range that ends at the last port.
MCLastPort ==
  {Delivered(
     Asks(<<P(1, 1, Udp(<<MCMaxPort - 1, MCMaxPort>>))>>, <<F(1, 2)>>))}

=============================================================================
