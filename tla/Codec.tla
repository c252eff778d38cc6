------------------------------- MODULE Codec -------------------------------
(***************************************************************************)
(* The wire format of pkg/protocol: headers, information elements (IEs),   *)
(* grouped IEs and messages, encoded to and decoded from sequences of      *)
(* octets.  Big-endian integers are written in base Radix, 256 in the      *)
(* code; a smaller one brings the widths of the length and ID fields, and  *)
(* what is cut off to fit them, within reach.  Flags, message types and    *)
(* causes are octets of their own and are kept as they are.  A text is a   *)
(* sequence of words, and a word takes the place of one octet.             *)
(***************************************************************************)
EXTENDS Naturals, Sequences, SequencesExt

CONSTANT Radix

ASSUME RadixAssumption == Radix \in Nat /\ Radix > 10

\* A value that may be missing: what a function returns besides an error.
None == <<>>
Some(x) == <<x>>

\* The conversions uint8(n), uint16(n), and binary.BigEndian of w octets.
Uint8(n) == n % Radix
Uint16(n) == n % (Radix * Radix)
BigEndian(n, w) == [i \in 1 .. w |-> (n \div Radix ^ (w - i)) % Radix]
FromBigEndian(octets) == FoldLeft(LAMBDA n, o : n * Radix + o, 0, octets)

\* data[from:to] and data[from:] of a Go slice.
Slice(data, from, to) == SubSeq(data, from + 1, to)
From(data, from) == SubSeq(data, from + 1, Len(data))

-----------------------------------------------------------------------------
(***************************************************************************)
(* MessageHeader.                                                          *)
(***************************************************************************)

Flag(b, mask) == IF b THEN mask ELSE 0
HasFlag(octet, mask) == (octet \div mask) % 2 = 1

HeaderLen(h) == IF h.seidPresent THEN 16 ELSE 8

MarshalHeader(h) ==
  <<h.version * 32 + Flag(h.followOn, 4) + Flag(h.priorityPresent, 2)
      + Flag(h.seidPresent, 1), h.type>>
    \o BigEndian(h.length, 2)
    \o (IF h.seidPresent THEN BigEndian(h.seid, 8) ELSE <<>>)
    \o BigEndian(h.seq, 3)
    \o <<Flag(h.priorityPresent, h.priority * 16)>>

UnmarshalHeader(data) ==
  IF Len(data) < 8 \/ (HasFlag(data[1], 1) /\ Len(data) < 16) THEN None
  ELSE LET s == HasFlag(data[1], 1)
           at == IF s THEN 12 ELSE 4
           p == HasFlag(data[1], 2)
       IN Some([version |-> data[1] \div 32,
                followOn |-> HasFlag(data[1], 4),
                priorityPresent |-> p,
                seidPresent |-> s,
                type |-> data[2],
                length |-> FromBigEndian(Slice(data, 2, 4)),
                seid |-> IF s THEN FromBigEndian(Slice(data, 4, 12)) ELSE 0,
                seq |-> FromBigEndian(Slice(data, at, at + 3)),
                priority |-> IF p THEN data[at + 4] \div 16 ELSE 0])

-----------------------------------------------------------------------------
(***************************************************************************)
(* IE, and the loops over IEs in Message.Unmarshal and ParseGroupedIE,     *)
(* which fail at the first IE that fails.                                  *)
(***************************************************************************)

IE(type, value) == [type |-> type, enterprise |-> 0, value |-> value]

\* Type >= 32768: the value is preceded by an enterprise ID.
HasEnterpriseID(type) == 2 * type >= Radix * Radix

MarshalIE(ie) ==
  LET body == (IF HasEnterpriseID(ie.type) THEN BigEndian(ie.enterprise, 2)
               ELSE <<>>) \o ie.value
  IN BigEndian(ie.type, 2) \o BigEndian(Uint16(Len(body)), 2) \o body

\* The IE and the number of octets it took.  4 + length is a uint16 in the
\* code, which cannot wrap around within a buffer of 65535 octets.
UnmarshalIE(data) ==
  LET type == FromBigEndian(Slice(data, 0, 2))
      length == FromBigEndian(Slice(data, 2, 4))
      skip == IF HasEnterpriseID(type) THEN 2 ELSE 0
  IN IF Len(data) < 4 THEN None
     ELSE IF Len(data) < 4 + length \/ length < skip THEN None
     ELSE Some([n |-> 4 + length,
                ie |-> [type |-> type,
                        enterprise |-> FromBigEndian(Slice(data, 4, 4 + skip)),
                        value |-> Slice(data, 4 + skip, 4 + length)]])

MarshalIEs(ies) == FlattenSeq([i \in DOMAIN ies |-> MarshalIE(ies[i])])

RECURSIVE ParseIEs(_)
ParseIEs(data) ==
  IF data = <<>> THEN Some(<<>>)
  ELSE LET first == UnmarshalIE(data)
           rest == ParseIEs(From(data, first[1].n))
       IN IF first = None \/ rest = None THEN None
          ELSE Some(<<first[1].ie>> \o rest[1])

NewGroupedIE(type, children) == IE(type, MarshalIEs(children))
ParseGroupedIE(data) == ParseIEs(data)

-----------------------------------------------------------------------------
(***************************************************************************)
(* Message.                                                                *)
(***************************************************************************)

Header(type, seq) ==
  [version |-> 1, followOn |-> FALSE, priorityPresent |-> FALSE,
   seidPresent |-> FALSE, type |-> type, length |-> 0, seid |-> 0,
   seq |-> seq, priority |-> 0]

NodeMessage(type, seq, ies) == [header |-> Header(type, seq), ies |-> ies]
SessionMessage(type, seq, seid, ies) ==
  [header |-> [Header(type, seq) EXCEPT !.seidPresent = TRUE, !.seid = seid],
   ies |-> ies]

\* Marshal fills in the length of the message it is called on.
WithLength(m) ==
  [m EXCEPT !.header.length = Uint16(Len(MarshalIEs(m.ies)))]

Marshal(m) == MarshalHeader(WithLength(m).header) \o MarshalIEs(m.ies)

\* Mutant: the length in the header is taken to count the header as well.
UnmarshalShort(buf, n) ==
  LET header == UnmarshalHeader(Slice(buf, 0, n))
      start == HeaderLen(header[1])
      end == header[1].length
      ies == ParseIEs(Slice(buf, start, end))
  IN IF header = None THEN None
     ELSE IF end > Len(buf) THEN None
     ELSE IF ies = None THEN None
     ELSE Some([header |-> header[1], ies |-> ies[1]])

(***************************************************************************)
(* Unmarshal of buf[:n].  The slice of the IEs ends where the header says, *)
(* which may be behind the n octets just received, among those of an       *)
(* earlier datagram.  Behind the end of the buffer the slicing panics;     *)
(* that too is None here.                                                  *)
(***************************************************************************)
Unmarshal(buf, n) ==
  LET header == UnmarshalHeader(Slice(buf, 0, n))
      start == HeaderLen(header[1])
      end == start + header[1].length
      ies == ParseIEs(Slice(buf, start, end))
  IN IF header = None THEN None
     ELSE IF end > Len(buf) THEN None
     ELSE IF ies = None THEN None
     ELSE Some([header |-> header[1], ies |-> ies[1]])

FindAllIEs(m, type) == SelectSeq(m.ies, LAMBDA ie : ie.type = type)
=============================================================================
