-------------------------------- MODULE Ingress --------------------------------
(***************************************************************************)
(* The way of one connection through the router from its first byte to the *)
(* relay (New, readHandshake, resolveServer and handleConn of              *)
(* internal/router, ReadHandshakePacket, ProxyConfig.Validate).  Bytes     *)
(* arrive in pieces of any size and race the 5 s deadline.  Identities and *)
(* the NAT entry around it are those of ProxyConn.                         *)
(***************************************************************************)
EXTENDS Handshake, FiniteSets

CONSTANTS
    Config,     \* values of servers[] in the configuration file
    IP,         \* public addresses of the proxy
    None,       \* absent
    LiteralOf,  \* LiteralOf[h]: the address that normalized host h is a literal of
    Host,       \* hosts that clients put into a handshake
    Damaged,    \* those of them whose packet may be damaged
    Version,    \* protocol versions
    Rest        \* what clients send behind the handshake

ASSUME ConfigAssumption ==
    /\ None \notin IP
    /\ Config \subseteq Seq([ip : IP \cup {None}, hostnames : SUBSET Seq(Byte)])
    /\ Host \subseteq Seq(Byte) /\ Damaged \subseteq Host
    /\ Rest \subseteq Seq(Byte) /\ Version \subseteq Nat

\* In the code five groups of seven bits hold more than any length or version.
ASSUME LengthAssumption ==
    \A host \in Host, version \in Version :
        \A n \in {version, Len(host), 2, Len(Body(host, version))} :
            Len(EncodeVarInt[n]) <= Groups

\* What reading a handshake comes to.
Result == {Fail} \cup [ok : {TRUE}, hostname : Seq(Byte)]

ASSUME NoResultAssumption == None \notin Result

VARIABLES
    servers,    \* cfg.Servers
    originalIP, \* the address the client dialed
    message,    \* history: the host of an intact handshake, None of a damaged one
    stream,     \* the bytes the client sends, in the order of sending
    sent,       \* how many of them have arrived
    taken,      \* how many of them the router has read
    phase,      \* where handleConn is
    lengthBytes, packet,    \* what ReadHandshakePacket has read
    handshake,  \* its result: None before, Fail for an error
    backend,    \* index in servers of the server dialed
    out         \* bytes written to the backend

clientVars == <<message, stream, sent>>
readVars == <<lengthBytes, packet, handshake>>
vars == <<servers, originalIP, clientVars, taken, phase, readVars, backend, out>>

TypeOK ==
    /\ servers \in Config /\ originalIP \in IP
    /\ message \in Host \cup {None}
    /\ stream \in Seq(Byte)
    /\ sent \in 0..Len(stream) /\ taken \in 0..sent
    /\ phase \in {"load", "setup", "length", "body", "resolve", "dial", "write", "relay", "closed"}
    /\ lengthBytes \in Seq(Byte) /\ Len(lengthBytes) <= Groups
    /\ packet \in Seq(Byte) /\ Len(packet) <= ValueOf(lengthBytes)
    /\ handshake \in Result \cup {None}
    /\ backend \in DOMAIN servers \cup {None}
    /\ out \in Seq(Byte)

\* A damaged handshake has one byte with another digit or continuation bit.
Init ==
    /\ servers \in Config /\ originalIP \in IP
    /\ \E host \in Host, version \in Version, rest \in Rest :
         LET intact == Encode(host, version) IN
         \/ message = host /\ stream = intact \o rest
         \/ /\ message = None
            /\ host \in Damaged
            /\ \E k \in DOMAIN intact, b \in {1, Base} :
                 stream = [intact EXCEPT ![k] = (@ + b) % (2 * Base)] \o rest
    /\ sent = 0 /\ taken = 0
    /\ phase = "load"
    /\ lengthBytes = <<>> /\ packet = <<>> /\ handshake = None
    /\ backend = None /\ out = <<>>

(***************************************************************************)
(* Configuration and routes.                                               *)
(***************************************************************************)
Blank(hostname) == TrimSpace(hostname) = <<>>

\* Mutant of Validate: hostnames may be blank.
ValidateBlank(list) ==
    /\ list # <<>>
    /\ \A k \in DOMAIN list : list[k].ip # None \/ list[k].hostnames # {}
    /\ \E k \in DOMAIN list : list[k].ip # None

\* ProxyConfig.Validate, as far as the servers go.
Validate(list) ==
    /\ list # <<>>
    /\ \A k \in DOMAIN list :
          /\ list[k].ip # None \/ list[k].hostnames # {}
          /\ \A hostname \in list[k].hostnames : ~Blank(hostname)
    /\ \E k \in DOMAIN list : list[k].ip # None

\* The servers that New puts under a key of backendByHostname, where the last
\* one stays, and of backendByIP.
ByHostname(hostname) ==
    {k \in DOMAIN servers :
        hostname \in {NormalizeHostname(h) : h \in servers[k].hostnames}}

ByIP == {k \in DOMAIN servers : servers[k].ip = originalIP}

\* Mutant of ShouldFallbackToOriginalIP: any address will do.
FallbackAnyLiteral(hostname) == hostname \in {<<>>} \cup DOMAIN LiteralOf

\* No name, or the address that was dialed.
ShouldFallbackToOriginalIP(hostname) ==
    \/ hostname = <<>>
    \/ hostname \in DOMAIN LiteralOf /\ LiteralOf[hostname] = originalIP

\* The servers that resolveServer would have found, of which the last counts.
Candidates ==
    IF handshake.ok /\ ByHostname(handshake.hostname) # {}
    THEN ByHostname(handshake.hostname)
    ELSE {k \in ByIP : handshake.ok => ShouldFallbackToOriginalIP(handshake.hostname)}

(***************************************************************************)
(* The connection.                                                         *)
(***************************************************************************)
LoadProxy ==
    /\ phase = "load"
    /\ phase' = IF Validate(servers) THEN "setup" ELSE "closed"
    /\ UNCHANGED <<servers, originalIP, clientVars, taken, readVars, backend, out>>

\* main hands the addresses of all servers to filter.Ensure.  A server without
\* one puts an empty element into the list, which nft refuses: main panics.
EnsureAddresses ==
    /\ phase = "setup"
    /\ phase' = IF \A k \in DOMAIN servers : servers[k].ip # None THEN "length" ELSE "closed"
    /\ UNCHANGED <<servers, originalIP, clientVars, taken, readVars, backend, out>>

\* More of the stream arrives.
Arrive(n) ==
    /\ phase \notin {"load", "setup", "closed"}
    /\ sent < n /\ n <= Len(stream)
    /\ sent' = n
    /\ UNCHANGED <<servers, originalIP, message, stream, taken, phase, readVars, backend,
                   out>>

\* Mutant of ReadLengthByte: one byte more is read.
ReadLengthByteLong ==
    /\ phase = "length"
    /\ taken < sent
    /\ taken' = taken + 1
    /\ lengthBytes' = Append(lengthBytes, stream[taken'])
    /\ LET complete == IsLast(stream[taken'])
           bad == IF complete THEN ValueOf(lengthBytes') = 0 ELSE Len(lengthBytes') > Groups
       IN  /\ handshake' = IF bad THEN Fail ELSE handshake
           /\ phase' = CASE bad -> "resolve" [] complete /\ ~bad -> "body"
                         [] OTHER -> "length"
    /\ UNCHANGED <<servers, originalIP, clientVars, packet, backend, out>>

\* readVarInt reads byte by byte.
ReadLengthByte ==
    /\ phase = "length"
    /\ taken < sent
    /\ taken' = taken + 1
    /\ lengthBytes' = Append(lengthBytes, stream[taken'])
    /\ LET complete == IsLast(stream[taken'])
           bad == IF complete THEN ValueOf(lengthBytes') = 0 ELSE Len(lengthBytes') = Groups
       IN  /\ handshake' = IF bad THEN Fail ELSE handshake
           /\ phase' = CASE bad -> "resolve" [] complete /\ ~bad -> "body"
                         [] OTHER -> "length"
    /\ UNCHANGED <<servers, originalIP, clientVars, packet, backend, out>>

Missing == ValueOf(lengthBytes) - Len(packet)

\* What there is of the bytes that are missing.
Arrived == SubSeq(stream, taken + 1, Min({taken + Missing, sent}))

\* Mutant of ReadBody: a buffered reader takes all that has arrived.
ReadBodyBuffered ==
    /\ phase = "body"
    /\ taken < sent
    /\ taken' = sent
    /\ packet' = packet \o Arrived
    /\ IF Len(Arrived) < Missing THEN UNCHANGED <<phase, handshake>>
       ELSE phase' = "resolve" /\ handshake' = ParseHandshake(packet \o Arrived)
    /\ UNCHANGED <<servers, originalIP, clientVars, lengthBytes, backend, out>>

\* io.ReadFull takes what has arrived, up to the length, and no more.
ReadBody ==
    /\ phase = "body"
    /\ taken < sent
    /\ taken' = taken + Len(Arrived)
    /\ packet' = packet \o Arrived
    /\ IF Len(Arrived) < Missing THEN UNCHANGED <<phase, handshake>>
       ELSE phase' = "resolve" /\ handshake' = ParseHandshake(packet \o Arrived)
    /\ UNCHANGED <<servers, originalIP, clientVars, lengthBytes, backend, out>>

\* Mutant of ReadFails: no deadline, so that only the end of the stream is one.
ReadFailsAtEOF ==
    /\ phase \in {"length", "body"}
    /\ sent = Len(stream)
    /\ handshake' = Fail
    /\ phase' = "resolve"
    /\ UNCHANGED <<servers, originalIP, clientVars, taken, lengthBytes, packet, backend, out>>

\* The deadline passes, or the client closes or resets the connection.
ReadFails ==
    /\ phase \in {"length", "body"}
    /\ handshake' = Fail
    /\ phase' = "resolve"
    /\ UNCHANGED <<servers, originalIP, clientVars, taken, lengthBytes, packet, backend, out>>

ResolveServer ==
    /\ phase = "resolve"
    /\ IF Candidates = {} THEN phase' = "closed" /\ UNCHANGED backend
       ELSE phase' = "dial" /\ backend' = Max(Candidates)
    /\ UNCHANGED <<servers, originalIP, clientVars, taken, readVars, out>>

\* Dial, and an error of it.
Dial ==
    /\ phase = "dial"
    /\ phase' \in {"write", "closed"}
    /\ UNCHANGED <<servers, originalIP, clientVars, taken, readVars, backend, out>>

\* The bytes of a handshake that parsed go first; an error of the write closes.
WriteHandshake ==
    /\ phase = "write"
    /\ \/ /\ phase' = "relay"
          /\ out' = IF handshake.ok THEN lengthBytes \o packet ELSE <<>>
       \/ handshake.ok /\ phase' = "closed" /\ UNCHANGED out
    /\ UNCHANGED <<servers, originalIP, clientVars, taken, readVars, backend>>

\* forwarder.Proxy, from the client to the backend.
Relay ==
    /\ phase = "relay"
    /\ taken < sent
    /\ out' = out \o SubSeq(stream, taken + 1, sent)
    /\ taken' = sent
    /\ UNCHANGED <<servers, originalIP, clientVars, phase, readVars, backend>>

ReadHandshake == ReadLengthByte \/ ReadBody \/ ReadFails

Next ==
    \/ LoadProxy \/ EnsureAddresses
    \/ \E n \in DOMAIN stream : Arrive(n)
    \/ ReadHandshake \/ ResolveServer \/ Dial \/ WriteHandshake \/ Relay

Spec == Init /\ [][Next]_vars

\* A read of the handshake returns by the deadline and a connect times out; the
\* write of the handshake, which has no deadline, is assumed to fit into the
\* backend's socket buffer.  A client may stop sending whenever it likes.
FairSpec ==
    /\ Spec
    /\ WF_vars(\/ LoadProxy \/ EnsureAddresses \/ ReadHandshake
               \/ ResolveServer \/ Dial \/ WriteHandshake)

(***************************************************************************)
(* Properties.                                                             *)
(***************************************************************************)
Parsed == handshake # None /\ handshake.ok

\* A backend that is reached by a handshake gets the stream of its player from
\* the first byte and without a gap, in whatever pieces it came: the length,
\* the packet, and what the client sent behind it without waiting for an answer.
NothingLost ==
    phase = "relay" /\ Parsed => out = SubSeq(stream, 1, taken)

\* A well formed handshake is taken for what it says, whatever its length and
\* whatever arrives with it; it fails only if the deadline came before its end.
IntactIsUnderstood ==
    message # None /\ handshake # None =>
        \/ Parsed /\ handshake.hostname = NormalizeHostname(message)
        \/ ~Parsed /\ \E version \in Version :
              Len(lengthBytes) + Len(packet) < Len(Encode(message, version))

SameName(g, h) == NormalizeHostname(g) = NormalizeHostname(h)

\* An intact handshake that was read goes where its player means: to a server
\* that lists the name he typed, in any spelling; with no name, or the address he
\* dialed for one, to a server of that address; and with any other name, also the
\* address of another server, to none at all.
RoutedAsConfigured ==
    message # None /\ Parsed /\ phase # "resolve" =>
        LET name == NormalizeHostname(message)
            listing == {k \in DOMAIN servers :
                          \E h \in servers[k].hostnames : SameName(h, message)}
            dialed == {k \in DOMAIN servers : servers[k].ip = originalIP}
            meant == IF listing # {} THEN listing
                     ELSE {k \in dialed : \/ name = <<>>
                                           \/ /\ name \in DOMAIN LiteralOf
                                              /\ LiteralOf[name] = originalIP}
        IN  IF meant = {} THEN backend = None ELSE backend \in meant

\* Only a dot, or nothing but a dot or white space in front of a NUL.
NamesNothing(h) ==
    \/ TrimSpace(h) = <<Dot>>
    \/ \E j \in DOMAIN h : h[j] = Nul /\ TrimSpace(SubSeq(h, 1, j - 1)) \in {<<>>, <<Dot>>}

\* A client that names no host, or none that can be read, goes by the address it
\* dialed.  The exceptions are hostnames in the configuration that Validate lets
\* pass although they name nothing; those with a NUL further behind are none.
NamelessGoesByAddress ==
    /\ backend # None
    /\ ~Parsed \/ handshake.hostname = <<>>
    /\ \A k \in DOMAIN servers : \A h \in servers[k].hostnames : ~NamesNothing(h)
    => servers[backend].ip = originalIP

\* Every connection is routed or refused, however slowly its client sends.
Decided == <>(phase \in {"relay", "closed"})

=================================================================================
