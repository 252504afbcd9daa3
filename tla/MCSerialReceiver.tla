------------------------- MODULE MCSerialReceiver -------------------------
(* Packets for the TLC runs of SerialReceiver: bytes of two bits. *)
EXTENDS SerialReceiver, Folds, TLC

\* What the host puts on the line: address, command, size, payload, checksum.
Sum(s) == MapThenFoldSet(LAMBDA x, y : x + y, 0, LAMBDA i : s[i],
                         LAMBDA S : CHOOSE i \in S : TRUE, DOMAIN s)
Packet(addr, cmd, payload) ==
    LET body == <<addr, cmd, Len(payload) \div Base, Len(payload) % Base>> \o payload
    IN  Append(body, (Base - (Sum(body) % Base)) % Base)

\* Channel 0 was given address 0, which is refused; broadcasts go to 3.
Addresses == (0 :> 0) @@ (1 :> 2)
TwoPackets == {Packet(2, 2, <<>>), Packet(3, 1, <<3>>)}

ASSUME PacketsAssumption == ValidFrames
===========================================================================
