------------------------------- MODULE Handshake -------------------------------
(***************************************************************************)
(* The first packet of a Minecraft connection (internal/minecraft), as     *)
(* functions of sequences of bytes.  A byte carries a digit below Base and *)
(* says whether another follows; in the code Base is 128 and Groups is 5.  *)
(***************************************************************************)
EXTENDS Naturals, Sequences, SequencesExt, FiniteSetsExt

CONSTANTS
    Base,       \* what the low bits of a byte can tell apart
    Groups,     \* longest VarInt, in bytes
    Nul, Space, Dot,
    LowerOf     \* LowerOf[b]: what strings.ToLower makes of byte b

Byte == 0..(2 * Base - 1)

ASSUME ByteAssumption ==
    /\ Base \in Nat /\ Base >= 2 /\ Groups \in Nat /\ Groups >= 1
    /\ {Nul, Space, Dot} \subseteq Byte
    /\ LowerOf \in [Byte -> Byte]
    /\ \A b \in {Nul, Space, Dot} : LowerOf[b] = b

\* No continuation bit.
IsLast(b) == b < Base

ValueOf(bytes) ==
    LET from[k \in 1..(Len(bytes) + 1)] ==
          IF k > Len(bytes) THEN 0 ELSE (bytes[k] % Base) + Base * from[k + 1]
    IN  from[1]

(***************************************************************************)
(* NormalizeHostname.                                                      *)
(***************************************************************************)
\* Up to the first NUL: what modded clients append stands behind it.
CutAtNul(s) == SubSeq(s, 1, Min({k \in DOMAIN s : s[k] = Nul} \cup {Len(s) + 1}) - 1)

TrimSpace(s) ==
    LET text == {k \in DOMAIN s : s[k] # Space} IN
    IF text = {} THEN <<>> ELSE SubSeq(s, Min(text), Max(text))

TrimDot(s) == IF s # <<>> /\ Last(s) = Dot THEN Front(s) ELSE s

NormalizeHostname(s) ==
    LET host == TrimDot(TrimSpace(CutAtNul(s))) IN [k \in DOMAIN host |-> LowerOf[host[k]]]

(***************************************************************************)
(* parseVarInt, parseString and parseHandshake.  A parser gives the set of *)
(* what it makes of packet s from place c on: a value and the place behind *)
(* it, or nothing, which is an error.                                      *)
(***************************************************************************)
\* Mutant of VarInts: the last byte allowed is refused.
VarIntsShort(s, c) ==
    {[value |-> ValueOf(SubSeq(s, c, k)), next |-> k + 1] :
        k \in {k \in c..(c + Groups - 2) : /\ k <= Len(s) /\ IsLast(s[k])
                                          /\ \A j \in c..(k - 1) : ~IsLast(s[j])}}

VarInts(s, c) ==
    {[value |-> ValueOf(SubSeq(s, c, k)), next |-> k + 1] :
        k \in {k \in c..(c + Groups - 1) : /\ k <= Len(s) /\ IsLast(s[k])
                                          /\ \A j \in c..(k - 1) : ~IsLast(s[j])}}

Strings(s, c) ==
    {[value |-> SubSeq(s, n.next, n.next + n.value - 1), next |-> n.next + n.value] :
        n \in {n \in VarInts(s, c) : n.next + n.value - 1 <= Len(s)}}

\* Packet id 0, protocol version, hostname, two bytes of port, next state.
\* Bytes behind them are not looked at.
Hostnames(packet) ==
    LET ids == {id \in VarInts(packet, 1) : id.value = 0}
        versions == UNION {VarInts(packet, id.next) : id \in ids}
        hosts == UNION {Strings(packet, version.next) : version \in versions}
    IN  {NormalizeHostname(host.value) :
            host \in {h \in hosts : /\ h.next + 1 <= Len(packet)
                                   /\ VarInts(packet, h.next + 2) # {}}}

Fail == [ok |-> FALSE]

ParseHandshake(packet) ==
    IF Hostnames(packet) = {} THEN Fail
    ELSE [ok |-> TRUE, hostname |-> CHOOSE hostname \in Hostnames(packet) : TRUE]

(***************************************************************************)
(* What a client sends.                                                    *)
(***************************************************************************)
EncodeVarInt[n \in Nat] ==
    IF n < Base THEN <<n>> ELSE <<(n % Base) + Base>> \o EncodeVarInt[n \div Base]

Body(host, version) ==
    <<0>> \o EncodeVarInt[version] \o EncodeVarInt[Len(host)] \o host
      \o <<0, 1>> \o EncodeVarInt[2]

Encode(host, version) == EncodeVarInt[Len(Body(host, version))] \o Body(host, version)

=================================================================================
