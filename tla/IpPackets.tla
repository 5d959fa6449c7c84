----------------------------- MODULE IpPackets -----------------------------
(* chapter11/iphdrinc/rawudp.cpp as sender: UDP packets with headers of    *)
(* its own, one for IPv4, cut into fragments for IPv6.  Data are offsets   *)
(* into the payload; the words a checksum covers are given.                *)
EXTENDS Integers, Sequences, SequencesExt, FiniteSets

CONSTANTS
  MtuSizes,             \* -t: gMtuSize
  SendSizes,            \* -z: gSendSize
  ChecksumWords,        \* bound of the model: 16-bit words a checksum is taken of
  MAX_PACKET_FRAGMENTS,
  RawSendCount          \* -n: gSendCount

IPV4_HDR == 20
IPV6_HDR == 40
UDP_HDR == 8
IPV6_FRAGMENT_HDR == 8
UShort == 65536

\* An MTU that leaves no room for data in a fragment never ends the loop.
ASSUME IpAssumption ==
  /\ SendSizes \subseteq 1 .. UShort - 1 - UDP_HDR
  /\ \A m \in MtuSizes : m > IPV6_HDR + IPV6_FRAGMENT_HDR + UDP_HDR
  /\ ChecksumWords \subseteq 0 .. UShort - 1
  /\ MAX_PACKET_FRAGMENTS \in Nat \ {0} /\ RawSendCount \in Nat

VARIABLES
  gAddressFamily,  \* 4 or 6
  gMtuSize, gSendSize,
  words,           \* the pseudo-header, the UDP header and the payload
  odd,             \* and their last byte, if its number is odd
  udpChecksum,
  payloadlen, offset, Packets,
  rmain,           \* "packetize", "send", "free", "end" or "overrun"
  round, packet,   \* i and j of the loops that send
  sentPackets      \* <<round, packet>> sent

ipVars == <<gAddressFamily, gMtuSize, gSendSize, words, odd, udpChecksum, payloadlen, offset,
            Packets, rmain, round, packet, sentPackets>>
givenVars == <<gAddressFamily, gMtuSize, gSendSize, words, odd>>

IpInit ==
  /\ gAddressFamily \in {4, 6}
  /\ gMtuSize \in MtuSizes /\ gSendSize \in SendSizes
  /\ words \in [1 .. 3 -> ChecksumWords] /\ odd \in {0, 255}
  /\ gAddressFamily = 6 => words = [k \in 1 .. 3 |-> 1] /\ odd = 0
  /\ gAddressFamily = 4 => gMtuSize = (CHOOSE m \in MtuSizes : TRUE) /\ gSendSize = (CHOOSE z \in SendSizes : TRUE)
  /\ udpChecksum = -1 /\ payloadlen = gSendSize /\ offset = 0 /\ Packets = <<>>
  /\ rmain = "packetize" /\ round = 0 /\ packet = 1 /\ sentPackets = {}
-----------------------------------------------------------------------------
\* The sum of the words, with the carries added twice, is inverted.
Carry(s) == (s \div UShort) + (s % UShort)
OnesSum(w, b) == FoldSeq(LAMBDA x, y : x + y, b, w)
FoldTwice(s) == Carry(s) + (Carry(s) \div UShort)

checksum(w, b) == UShort - 1 - (FoldTwice(OnesSum(w, b)) % UShort)

\* Both are taken of the pseudo-header, the UDP header and the payload.
ComputeUdpPseudoHeaderChecksumV4 == checksum(words, odd)
ComputeUdpPseudoHeaderChecksumV6 == checksum(words, odd)

\* The lengths the headers tell; ip_totallength leaves out the UDP header.
InitIpv4Header(len) == IPV4_HDR + len
InitIpv6Header(len) == len
InitUdpHeader(len) == UDP_HDR + len

PacketizeIpv4 ==
  /\ rmain = "packetize" /\ gAddressFamily = 4
  /\ Packets' = <<[len |-> IPV4_HDR + UDP_HDR + gSendSize, iplen |-> InitIpv4Header(gSendSize),
                   from |-> 0, data |-> gSendSize, frag |-> 0, field |-> 0, more |-> 0,
                   udplen |-> InitUdpHeader(gSendSize)]>>
  /\ udpChecksum' = ComputeUdpPseudoHeaderChecksumV4
  /\ rmain' = "send"
  /\ UNCHANGED <<givenVars, payloadlen, offset, round, packet, sentPackets>>

numpackets == Len(Packets)

\* The offset is that in the packet: the UDP header is in the first fragment.
PayloadOffset(o) == o                                          \* mutant: 353-354 are missing
FragmentOffset(o) == IF o # 0 THEN o + UDP_HDR ELSE o
InitIpv6FragmentHeader(o, lastfragment) ==
  [field |-> (8 * (FragmentOffset(o) \div 8)) % UShort, more |-> IF lastfragment THEN 0 ELSE 1]

\* One turn of the loop of PacketizeIpv6.  It fragments what is longer than
\* the MTU, without its headers; the array holds MAX_PACKET_FRAGMENTS and
\* nothing tests that.
PacketizeIpv6 ==
  /\ rmain = "packetize" /\ gAddressFamily = 6
  /\ LET toolong == payloadlen > gMtuSize
         first == numpackets = 0
         fragment == toolong \/ ~first
         udphdr == IF first THEN UDP_HDR ELSE 0
         plushdrs == udphdr + (IF fragment THEN IPV6_FRAGMENT_HDR ELSE 0)
         datalen == IF toolong THEN gMtuSize - IPV6_HDR - plushdrs ELSE payloadlen
         header == InitIpv6FragmentHeader(offset, ~toolong /\ ~first)
     IN
     /\ Packets' = Append(Packets,
          [len |-> IPV6_HDR + plushdrs + datalen, iplen |-> InitIpv6Header(datalen + plushdrs),
           from |-> offset, data |-> datalen, frag |-> IF fragment THEN 1 ELSE 0,
           field |-> IF fragment THEN header.field ELSE 0,
           more |-> IF fragment THEN header.more ELSE 0,
           udplen |-> IF first THEN InitUdpHeader(gSendSize) ELSE 0])
     /\ payloadlen' = payloadlen - datalen
     /\ offset' = offset + datalen
     /\ rmain' = IF numpackets + 1 >= MAX_PACKET_FRAGMENTS THEN "overrun"
                 ELSE IF payloadlen' > 0 THEN "packetize" ELSE "send"
  /\ udpChecksum' = IF numpackets = 0 THEN ComputeUdpPseudoHeaderChecksumV6 ELSE udpChecksum
  /\ UNCHANGED <<givenVars, round, packet, sentPackets>>

\* A send that fails ends the round.
SendPacket ==
  /\ rmain = "send" /\ round < RawSendCount
  /\ \/ /\ sentPackets' = sentPackets \cup {<<round, packet>>}
        /\ IF packet = numpackets THEN round' = round + 1 /\ packet' = 1
           ELSE packet' = packet + 1 /\ UNCHANGED round
     \/ round' = round + 1 /\ packet' = 1 /\ UNCHANGED sentPackets
  /\ UNCHANGED <<givenVars, udpChecksum, payloadlen, offset, Packets, rmain>>

FreePackets ==
  /\ rmain = "send" /\ round = RawSendCount
  /\ rmain' = "end"
  /\ UNCHANGED <<givenVars, udpChecksum, payloadlen, offset, Packets, round, packet, sentPackets>>

IpNext == PacketizeIpv4 \/ PacketizeIpv6 \/ SendPacket \/ FreePackets
-----------------------------------------------------------------------------
\* What a receiver of the fragments sees.
Position(k) == IF k = 1 THEN 0 ELSE UDP_HDR + Packets[k].from

\* With an MTU that is a multiple of 8 the fragments put together are the UDP
\* header and the payload: each begins where the one before ended, says where
\* it belongs and how long it is, and only the last says that no more follow.
\* All fit the MTU but the last, which does without its headers.
Reassembles ==
  /\ \A k \in 1 .. numpackets - 1 :
       /\ Packets[k].from + Packets[k].data = Packets[k + 1].from
       /\ Packets[k].more = 1 /\ Packets[k].len <= gMtuSize
  /\ Packets[numpackets].from + Packets[numpackets].data = gSendSize
  /\ Packets[numpackets].more = 0 /\ Packets[numpackets].data <= gMtuSize
  /\ Packets[1].udplen = UDP_HDR + gSendSize
  /\ \A k \in 1 .. numpackets :
       /\ Packets[k].iplen = Packets[k].len - IPV6_HDR
       /\ Packets[k].frag = 1 <=> numpackets > 1
       /\ gMtuSize % 8 = 0 => Packets[k].field = (IF numpackets > 1 THEN Position(k) ELSE 0)

\* A round sends the packets in order, from the first.
RoundsInOrder ==
  \A s \in sentPackets : \A k \in 1 .. s[2] : <<s[1], k>> \in sentPackets

\* The checksum is right: with it the words add up to all ones.
FragmentsRight ==
  /\ rmain \in {"send", "end"} => (gAddressFamily = 6 => Reassembles)
  /\ RoundsInOrder
  /\ udpChecksum >= 0 => (FoldTwice(OnesSum(words, odd + udpChecksum)) % UShort) = UShort - 1
=============================================================================
