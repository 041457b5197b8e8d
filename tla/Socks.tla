------------------------------- MODULE Socks --------------------------------
(***************************************************************************)
(* A UDP association of src/socks.rs: the handshake of udp_associate with  *)
(* a proxy that may answer, refuse, stall or close at any point, its bytes *)
(* arriving in pieces of any size; and the datagrams that session_task of  *)
(* src/udp.rs then encodes and decodes.                                    *)
(***************************************************************************)
EXTENDS Naturals, Sequences

CONSTANTS
  Credentials,  \* pairs <<username, password>> a configuration file may have
  ProxyIp,      \* the octets of the proxy's address
  Binds,        \* addresses at which the proxy may bind its relay
  Targets,      \* addresses of datagrams
  Payloads,     \* contents of datagrams
  None

Byte == 0 .. 255
Ips == {s \in Seq(Byte) : Len(s) \in {4, 16}}
Ports == {n \in Nat : n < 65536}

ASSUME SocksAssumption ==
  /\ \A c \in Credentials : c \in (Seq(Byte) \cup {None}) \X (Seq(Byte) \cup {None})
  /\ ProxyIp \in Ips
  /\ Binds \subseteq [ip : Ips, port : Ports]
  /\ Targets \subseteq [ip : Ips, port : Ports]
  /\ Payloads \subseteq Seq(Byte)
  /\ None \notin Binds /\ None \notin Seq(Byte)
  /\ None \notin [ip : Ips, port : Ports, payload : Seq(Byte)]

VARIABLES
  cred,       \* the credentials of the configuration
  pc,         \* where udp_associate or session_task is
  toProxy,    \* bytes sent and not yet read by the proxy
  fromProxy,  \* bytes of the proxy not yet read
  arrived,    \* how many of those have arrived
  closed,     \* the proxy has closed the connection
  server,     \* what the proxy expects, or how it has answered
  seen,       \* the credentials as the proxy has read them, or None
  bound,      \* where the proxy has bound a relay, or None
  ip,         \* octets of the reply's address
  relay,      \* where datagrams are sent, or None
  enc_buf,    \* the buffer that session_task encodes into
  asked,      \* the datagram encoded last, or None
  frame,      \* the frame received last, or None
  got         \* what it was decoded to

wireVars == <<toProxy, fromProxy, arrived, closed>>
proxyVars == <<server, seen, bound>>
dataVars == <<enc_buf, asked, frame, got>>
vars == <<cred, pc, wireVars, proxyVars, ip, relay, dataVars>>

u8(n) == n % 256
from_be_bytes(hi, lo) == 256 * hi + lo
to_be_bytes(n) == <<n \div 256, n % 256>>

-----------------------------------------------------------------------------
(* Mutant: the limit of a byte is off by one. *)
validate_off_by_one(c) ==
  \/ c = <<None, None>>
  \/ /\ c[1] # None /\ c[2] # None
     /\ Len(c[1]) \in 1 .. 256 /\ Len(c[2]) \in 1 .. 256

(* Config::validate, of the credentials. *)
validate(c) ==
  \/ c = <<None, None>>
  \/ /\ c[1] # None /\ c[2] # None
     /\ Len(c[1]) \in 1 .. 255 /\ Len(c[2]) \in 1 .. 255

Init ==
  /\ cred \in {c \in Credentials : validate(c)}
  /\ pc = "connect"
  /\ toProxy = <<>> /\ fromProxy = <<>> /\ arrived = 0 /\ closed = FALSE
  /\ server = "greeting" /\ seen = None /\ bound = None
  /\ ip = <<>> /\ relay = None
  /\ enc_buf = <<>> /\ asked = None /\ frame = None /\ got = None

-----------------------------------------------------------------------------
(* udp_associate *)

Handshake == {"connect", "method", "auth", "head", "ipv4", "ipv6", "domain",
              "port"}

Offer == IF cred[1] # None THEN <<5, 2, 0, 2>> ELSE <<5, 1, 0>>

(* A write to a connection that the proxy has closed may fail as well; the
   read that follows does then.                                            *)
Connected ==
  /\ pc = "connect"
  /\ toProxy' = Offer
  /\ pc' = "method"
  /\ UNCHANGED <<cred, fromProxy, arrived, closed, proxyVars, ip, relay,
                 dataVars>>

ConnectFails ==
  /\ pc = "connect"
  /\ pc' = "failed"
  /\ UNCHANGED <<cred, wireVars, proxyVars, ip, relay, dataVars>>

(* read_exact of n bytes. *)
Read(n) ==
  /\ arrived >= n
  /\ fromProxy' = SubSeq(fromProxy, n + 1, Len(fromProxy))
  /\ arrived' = arrived - n
  /\ UNCHANGED closed

Request == <<5, 3, 0, 1, 0, 0, 0, 0, 0, 0>>

SendRequest ==
  /\ toProxy' = toProxy \o Request
  /\ pc' = "head"

AuthMessage ==
  <<1, u8(Len(cred[1]))>> \o cred[1] \o <<u8(Len(cred[2]))>> \o cred[2]

(* negotiate_auth, up to the credentials. *)
ReadMethod ==
  /\ pc = "method"
  /\ Read(2)
  /\ LET version == fromProxy[1]
         method == fromProxy[2]
         authenticate == method = 2 /\ cred[1] # None /\ cred[2] # None
     IN  \/ version = 5 /\ method = 0 /\ SendRequest
         \/ /\ version = 5 /\ authenticate
            /\ toProxy' = toProxy \o AuthMessage
            /\ pc' = "auth"
         \/ /\ version # 5 \/ (method # 0 /\ ~authenticate)
            /\ pc' = "failed"
            /\ UNCHANGED toProxy
  /\ UNCHANGED <<cred, proxyVars, ip, relay, dataVars>>

ReadAuth ==
  /\ pc = "auth"
  /\ Read(2)
  /\ IF fromProxy[2] = 0 THEN SendRequest
                         ELSE pc' = "failed" /\ UNCHANGED toProxy
  /\ UNCHANGED <<cred, proxyVars, ip, relay, dataVars>>

(* read_bind_address, in the pieces it reads. *)
ReadHead ==
  /\ pc = "head"
  /\ Read(4)
  /\ LET next == [t \in {1, 3, 4} |-> CASE t = 1 -> "ipv4" [] t = 3 -> "domain"
                                        [] t = 4 -> "ipv6"]
     IN  pc' = IF /\ fromProxy[1] = 5 /\ fromProxy[2] = 0
                  /\ fromProxy[4] \in DOMAIN next
                 THEN next[fromProxy[4]] ELSE "failed"
  /\ UNCHANGED <<cred, toProxy, proxyVars, ip, relay, dataVars>>

ReadIp ==
  /\ pc \in {"ipv4", "ipv6"}
  /\ LET n == IF pc = "ipv4" THEN 4 ELSE 16 IN
       Read(n) /\ ip' = SubSeq(fromProxy, 1, n)
  /\ pc' = "port"
  /\ UNCHANGED <<cred, toProxy, proxyVars, relay, dataVars>>

(* Mutant: the name is taken for the octets of an address. *)
ReadDomainAsIp ==
  /\ pc = "domain"
  /\ arrived > 0
  /\ Read(1 + fromProxy[1])
  /\ ip' = SubSeq(fromProxy, 2, 1 + fromProxy[1])
  /\ pc' = "port"
  /\ UNCHANGED <<cred, toProxy, proxyVars, relay, dataVars>>

(* A relay named by its domain is read, and refused. *)
ReadDomain ==
  /\ pc = "domain"
  /\ arrived > 0
  /\ Read(1 + fromProxy[1])
  /\ pc' = "failed"
  /\ UNCHANGED <<cred, toProxy, proxyVars, ip, relay, dataVars>>

is_unspecified(octets) == \A i \in DOMAIN octets : octets[i] = 0

(* Mutant: a relay on all of the proxy's addresses is used as it is. *)
normalize_relay_as_is(reply) == reply

normalize_relay(reply) ==
  IF is_unspecified(reply.ip) THEN [ip |-> ProxyIp, port |-> reply.port] ELSE reply

(* Mutant: read in place of read_exact, which takes the bytes that are there. *)
ReadPortShort ==
  /\ pc = "port"
  /\ arrived > 0
  /\ LET n == IF arrived = 1 THEN 1 ELSE 2
         lo == IF n = 1 THEN 0 ELSE fromProxy[2]
     IN  /\ Read(n)
         /\ relay' = normalize_relay(
                       [ip |-> ip, port |-> from_be_bytes(fromProxy[1], lo)])
  /\ pc' = "relay"
  /\ UNCHANGED <<cred, toProxy, proxyVars, ip, dataVars>>

ReadPort ==
  /\ pc = "port"
  /\ Read(2)
  /\ relay' = normalize_relay(
                [ip |-> ip, port |-> from_be_bytes(fromProxy[1], fromProxy[2])])
  /\ pc' = "relay"
  /\ UNCHANGED <<cred, toProxy, proxyVars, ip, dataVars>>

AllArrived == arrived = Len(fromProxy)

(* The number of bytes that the read under way waits for. *)
Needed ==
  CASE pc \in {"method", "auth", "port"} -> 2
    [] pc \in {"head", "ipv4"} -> 4
    [] pc = "ipv6" -> 16
    [] pc = "domain" -> IF arrived = 0 THEN 1 ELSE 1 + fromProxy[1]

(* read_exact meets the end of the stream. *)
ReadFails ==
  /\ pc \in Handshake \ {"connect"}
  /\ closed /\ AllArrived /\ arrived < Needed
  /\ pc' = "failed"
  /\ UNCHANGED <<cred, wireVars, proxyVars, ip, relay, dataVars>>

(* connect_timeout, of the connect, of negotiate_auth or of the reply. *)
TimedOut ==
  /\ pc \in Handshake
  /\ pc' = "failed"
  /\ UNCHANGED <<cred, wireVars, proxyVars, ip, relay, dataVars>>

-----------------------------------------------------------------------------
(* session_task, with a relay *)

Family(octets) == IF Len(octets) = 4 THEN 1 ELSE 4

(* Mutant: out is not cleared. *)
encode_udp_appends(target, payload, out) ==
  out \o <<0, 0, 0, Family(target.ip)>> \o target.ip \o
  to_be_bytes(target.port) \o payload

encode_udp(target, payload, out) ==
  <<0, 0, 0, Family(target.ip)>> \o target.ip \o to_be_bytes(target.port)
  \o payload

decode_udp(buf) ==
  LET n == IF buf[4] = 1 THEN 4 ELSE 16 IN
    IF \/ Len(buf) < 4
       \/ buf[3] # 0
       \/ buf[4] \notin {1, 4}
       \/ Len(buf) < 6 + n
      THEN None
      ELSE [ip |-> SubSeq(buf, 5, 4 + n),
            port |-> from_be_bytes(buf[5 + n], buf[6 + n]),
            payload |-> SubSeq(buf, 7 + n, Len(buf))]

Datagram(target, payload) ==
  [ip |-> target.ip, port |-> target.port, payload |-> payload]

SendDatagram(target, payload) ==
  /\ pc = "relay"
  /\ enc_buf' = encode_udp(target, payload, enc_buf)
  /\ asked' = Datagram(target, payload)
  /\ UNCHANGED <<cred, pc, wireVars, proxyVars, ip, relay, frame, got>>

(* What is not decoded is dropped. *)
ReceiveDatagram(buf) ==
  /\ pc = "relay"
  /\ frame' = buf
  /\ got' = decode_udp(buf)
  /\ UNCHANGED <<cred, pc, wireVars, proxyVars, ip, relay, enc_buf, asked>>

(* The control connection is read to notice its end; data are ignored. *)
ControlData ==
  /\ pc = "relay"
  /\ arrived > 0
  /\ Read(arrived)
  /\ UNCHANGED <<cred, pc, toProxy, proxyVars, ip, relay, dataVars>>

(* Mutant: the end of the stream is taken for data. *)
ControlClosedIgnored ==
  /\ pc = "relay"
  /\ closed /\ fromProxy = <<>>
  /\ UNCHANGED vars

ControlClosed ==
  /\ pc = "relay"
  /\ closed /\ fromProxy = <<>>
  /\ pc' = "ended"
  /\ UNCHANGED <<cred, wireVars, proxyVars, ip, relay, dataVars>>

(* A socket fails, the session is idle, or nobody sends to it any more. *)
SessionEnds ==
  /\ pc = "relay"
  /\ pc' = "ended"
  /\ UNCHANGED <<cred, wireVars, proxyVars, ip, relay, dataVars>>

-----------------------------------------------------------------------------
(* The proxy, as RFC 1928 and RFC 1929 describe it or deviating in its replies *)

Answer(n, bytes, next) ==
  /\ ~closed
  /\ toProxy' = SubSeq(toProxy, n + 1, Len(toProxy))
  /\ fromProxy' = fromProxy \o bytes
  /\ server' = next
  /\ UNCHANGED <<cred, pc, arrived, closed, ip, relay, dataVars>>

MethodReplies == {<<5, 0>>, <<5, 1>>, <<5, 2>>, <<5, 255>>, <<4, 0>>}

ChooseMethod(reply) ==
  /\ server = "greeting"
  /\ Len(toProxy) > 1 /\ Len(toProxy) >= 2 + toProxy[2]
  /\ Answer(2 + toProxy[2], reply,
            CASE reply = <<5, 0>> -> "request"
              [] reply = <<5, 2>> -> "credentials"
              [] OTHER -> "refused")
  /\ UNCHANGED <<seen, bound>>

CheckCredentials(status) ==
  LET n == toProxy[2]
      m == toProxy[3 + n]
  IN  /\ server = "credentials"
      /\ Len(toProxy) > 2 /\ Len(toProxy) >= 3 + n /\ Len(toProxy) >= 3 + n + m
      /\ seen' = <<SubSeq(toProxy, 3, 2 + n), SubSeq(toProxy, 4 + n, 3 + n + m)>>
      /\ Answer(3 + n + m, <<1, status>>,
                IF status = 0 THEN "request" ELSE "refused")
      /\ UNCHANGED bound

BindRelay(a) ==
  /\ server = "request" /\ Len(toProxy) >= 10
  /\ Answer(10, <<5, 0, 0, Family(a.ip)>> \o a.ip \o to_be_bytes(a.port),
            "bound")
  /\ bound' = a
  /\ UNCHANGED seen

(* A failure, another version, a domain and an unknown kind of address. *)
Refusals == {<<5, 1, 0, 1, 0, 0, 0, 0, 0, 0>>, <<4, 0, 0, 1, 0, 0, 0, 0, 0, 0>>,
             <<5, 0, 0, 3, 1, 9, 0, 7>>, <<5, 0, 0, 2>>}

Refuse(reply) ==
  /\ server = "request" /\ Len(toProxy) >= 10
  /\ Answer(10, reply, "refused")
  /\ UNCHANGED <<seen, bound>>

(* Something after its reply, which no RFC foresees. *)
SaysMore ==
  /\ server = "bound"
  /\ Answer(0, <<0>>, "talkative")
  /\ UNCHANGED <<seen, bound>>

(* Bytes under way may be lost when the connection is reset. *)
ProxyCloses ==
  /\ ~closed
  /\ closed' = TRUE
  /\ \E n \in {arrived, Len(fromProxy)} : fromProxy' = SubSeq(fromProxy, 1, n)
  /\ UNCHANGED <<cred, pc, toProxy, arrived, proxyVars, ip, relay, dataVars>>

Arrive ==
  /\ arrived < Len(fromProxy)
  /\ arrived' = arrived + 1
  /\ UNCHANGED <<cred, pc, toProxy, fromProxy, closed, proxyVars, ip, relay,
                 dataVars>>

(* The format of a UDP request in RFC 1928, with its two reserved bytes and
   its fragment number.                                                    *)
Wire(rsv, fragment, kind, d) ==
  <<rsv, rsv, fragment, kind>> \o d.ip \o to_be_bytes(d.port) \o d.payload

(* The reserved bytes are to be 0; a relay may set them to something else. *)
Reserved == {0, 255}

Prefixes(s) == {SubSeq(s, 1, n) : n \in 0 .. Len(s)}

Datagrams == {Datagram(t, p) : t \in Targets, p \in Payloads}

(* Frames from the relay: whole or cut short, with any reserved bytes,
   fragments, and of a domain.                                             *)
Frames ==
  UNION {Prefixes(Wire(0, 0, Family(d.ip), d)) \cup
         {Wire(rsv, 0, Family(d.ip), d) : rsv \in Reserved} \cup
         {Wire(0, 1, Family(d.ip), d), Wire(0, 0, 3, d)} : d \in Datagrams}

-----------------------------------------------------------------------------
Proxy ==
  \/ \E reply \in MethodReplies : ChooseMethod(reply)
  \/ \E status \in {0, 1} : CheckCredentials(status)
  \/ \E a \in Binds : BindRelay(a)
  \/ \E reply \in Refusals : Refuse(reply)
  \/ SaysMore \/ ProxyCloses

Associate ==
  \/ Connected \/ ConnectFails \/ ReadMethod \/ ReadAuth \/ ReadHead
  \/ ReadIp \/ ReadDomain \/ ReadPort \/ ReadFails \/ TimedOut

Session ==
  \/ \E t \in Targets, p \in Payloads : SendDatagram(t, p)
  \/ \E buf \in Frames : ReceiveDatagram(buf)
  \/ ControlData \/ ControlClosed \/ SessionEnds

Next == Proxy \/ Arrive \/ Associate \/ Session

(* Timers elapse, and the select of session_task polls its arms in random
   order, so that the end of the control connection is noticed although
   datagrams keep coming. Nothing is assumed of the proxy.                 *)
Spec == Init /\ [][Next]_vars
FairSpec == Spec /\ WF_vars(TimedOut) /\ WF_vars(Arrive)
                 /\ WF_vars(ControlData) /\ WF_vars(ControlClosed)

-----------------------------------------------------------------------------
(* Properties *)

Addresses == [ip : {s \in {ip, ProxyIp} : Len(s) \in {4, 16}}, port : Ports]

(* The types of the variables; the relay is an address of one of the two
   families, whatever the proxy has replied.                               *)
TypeOK ==
  /\ cred \in Credentials /\ validate(cred)
  /\ pc \in Handshake \cup {"failed", "relay", "ended"}
  /\ toProxy \in Seq(Byte) /\ fromProxy \in Seq(Byte)
  /\ arrived \in 0 .. Len(fromProxy)
  /\ closed \in BOOLEAN
  /\ server \in {"greeting", "credentials", "request", "bound", "talkative", "refused"}
  /\ bound \in Binds \cup {None}
  /\ ip \in Seq(Byte)
  /\ relay \in Addresses \cup {None}
  /\ enc_buf \in Seq(Byte)

(* The proxy reads the credentials that are configured, whatever their
   lengths: the length bytes of negotiate_auth fit what validate lets pass. *)
CredentialsRead == seen # None => seen = cred

(* A session starts with both directions of the connection read to the end:
   no byte of the handshake is left to be taken for something else.        *)
HandshakeInStep ==
  /\ pc = "relay" => server \in {"bound", "talkative"} /\ toProxy = <<>>
  /\ pc = "relay" /\ server = "bound" => fromProxy = <<>>
  /\ server = "request" => toProxy \in {<<>>, Request}

(* The datagrams whose wire format, with one of these reserved bytes, a frame
   is; see Wire.                                                           *)
Meaning(reserved, buf) ==
  {d \in UNION {{Datagram(e, p) : p \in Prefixes(e.payload)} : e \in Datagrams} :
     \E rsv \in reserved : buf = Wire(rsv, 0, Family(d.ip), d)}

(* Of the frames a relay may send, decode_udp inverts those in the wire
   format, whatever their reserved bytes, and refuses those cut short, in
   fragments or of a domain; encode_udp yields the format with reserved
   bytes 0, although it writes into the buffer of the datagram before.     *)
DatagramsIntact ==
  /\ asked # None => Meaning({0}, enc_buf) = {asked}
  /\ frame # None =>
       Meaning(Reserved, frame) = (IF got = None THEN {} ELSE {got})

(* A session ends once the proxy has closed its control connection, also if
   datagrams keep coming.                                                  *)
ControlClosedEnds == (closed /\ pc = "relay") ~> pc = "ended"

(* udp_associate refines what its caller is promised: in time, it fails or
   yields where to reach what the proxy has bound.                         *)
Abstract == INSTANCE Association WITH
  status <- IF pc \in Handshake THEN "pending"
              ELSE IF pc = "relay" THEN "relay" ELSE "over"
ImplementsAssociation == Abstract!FairSpec

=============================================================================
