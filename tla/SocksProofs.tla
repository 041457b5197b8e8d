---------------------------- MODULE SocksProofs -----------------------------
(***************************************************************************)
(* Proofs about Socks, for any credentials, addresses and payloads: what   *)
(* each read of the handshake meets, however the proxy's bytes arrive and  *)
(* wherever a reset cuts them (IInv); that the handshake yields what       *)
(* Association promises; and that encode_udp and decode_udp are inverse.   *)
(***************************************************************************)
EXTENDS Socks, SequenceTheorems, TLAPS

(* What is left of a stream of the bytes full when a reset may have cut it. *)
Coming(s, reset, full) ==
  /\ Len(s) <= Len(full)
  /\ ~reset => Len(s) = Len(full)
  /\ \A i \in 1 .. Len(s) : s[i] = full[i]

InStream(full) == Coming(fromProxy, closed, full)

(* What the proxy has been sent and has not read. *)
Sent ==
  /\ server = "greeting" => toProxy \in {<<>>, Offer}
  /\ server = "credentials" =>
       toProxy = <<>> \/ (cred[1] # None /\ toProxy = AuthMessage)
  /\ server = "request" => toProxy \in {<<>>, Request}
  /\ server \in {"bound", "talkative", "refused"} => toProxy = <<>>

MethodNext(reply) ==
  CASE reply = <<5, 0>> -> "request"
    [] reply = <<5, 2>> -> "credentials"
    [] OTHER -> "refused"
StatusNext(status) == IF status = 0 THEN "request" ELSE "refused"

Bound == server \in {"bound", "talkative"}
PortAndMore ==
  to_be_bytes(bound.port) \o (IF server = "talkative" THEN <<0>> ELSE <<>>)
IpAndMore == bound.ip \o PortAndMore
Head4 == <<5, 0, 0, Family(bound.ip)>>

(* What is under way to each read of the handshake. *)
Received ==
  /\ pc = "connect" => server = "greeting" /\ toProxy = <<>> /\ InStream(<<>>)
  /\ pc = "method" =>
       \/ server = "greeting" /\ InStream(<<>>)
       \/ /\ toProxy = <<>>
          /\ \E reply \in MethodReplies : InStream(reply) /\ server = MethodNext(reply)
  /\ pc = "auth" =>
       \/ server = "credentials" /\ InStream(<<>>)
       \/ /\ toProxy = <<>>
          /\ \E status \in {0, 1} :
               InStream(<<1, status>>) /\ server = StatusNext(status)
  /\ pc = "head" =>
       \/ server = "request" /\ InStream(<<>>)
       \/ server = "refused" /\ \E reply \in Refusals : InStream(reply)
       \/ Bound /\ InStream(Head4 \o IpAndMore)
  /\ pc \in {"ipv4", "ipv6"} =>
       /\ Bound /\ InStream(IpAndMore)
       /\ Len(bound.ip) = IF pc = "ipv4" THEN 4 ELSE 16
  /\ pc = "port" => Bound /\ ip = bound.ip /\ InStream(PortAndMore)
  /\ pc = "relay" => Bound /\ (server = "bound" => InStream(<<>>))

Relay ==
  /\ Bound <=> bound # None
  /\ pc \in Handshake => relay = None

IInv == TypeOK /\ CredentialsRead /\ Sent /\ Received /\ Relay
-----------------------------------------------------------------------------
(* Sequences of bytes *)

LEMMA Messages ==
  /\ <<>> \in Seq(Byte) /\ <<0>> \in Seq(Byte)
  /\ <<5, 2, 0, 2>> \in Seq(Byte) /\ <<5, 1, 0>> \in Seq(Byte)
  /\ Request \in Seq(Byte)
  /\ MethodReplies \subseteq Seq(Byte) /\ Refusals \subseteq Seq(Byte)
BY DEF Byte, Request, MethodReplies, Refusals

LEMMA ConcatBytes ==
  ASSUME NEW s \in Seq(Byte), NEW t \in Seq(Byte)
  PROVE  /\ s \o t \in Seq(Byte)
         /\ Len(s \o t) = Len(s) + Len(t)
         /\ \A i \in 1 .. Len(s) : (s \o t)[i] = s[i]
         /\ \A i \in 1 .. Len(t) : (s \o t)[Len(s) + i] = t[i]
BY ConcatProperties

LEMMA AssocBytes ==
  ASSUME NEW s \in Seq(Byte), NEW t \in Seq(Byte), NEW u \in Seq(Byte)
  PROVE  (s \o t) \o u = s \o (t \o u)
BY ConcatAssociative

LEMMA SubBytes ==
  ASSUME NEW s \in Seq(Byte), NEW m \in Nat, NEW n \in Nat, m >= 1, n <= Len(s)
  PROVE  /\ SubSeq(s, m, n) \in Seq(Byte)
         /\ Len(SubSeq(s, m, n)) = IF m <= n THEN n - m + 1 ELSE 0
         /\ \A i \in 1 .. n - m + 1 : SubSeq(s, m, n)[i] = s[m + i - 1]
<1>1. \A i \in m .. n : s[i] \in Byte
      BY ElementOfSeq
<1> QED
    BY <1>1, SubSeqProperties

(* What follows the first part of a concatenation. *)
LEMMA Rest ==
  ASSUME NEW s \in Seq(Byte), NEW t \in Seq(Byte)
  PROVE  SubSeq(s \o t, Len(s) + 1, Len(s \o t)) = t
<1> DEFINE f == SubSeq(s \o t, Len(s) + 1, Len(s \o t))
<1>0. Len(s) \in Nat /\ Len(t) \in Nat /\ Len(s \o t) = Len(s) + Len(t)
      /\ s \o t \in Seq(Byte)
      BY ConcatBytes, LenProperties
<1>1. f \in Seq(Byte) /\ Len(f) = Len(t)
      BY <1>0, SubBytes
<1>2. \A i \in 1 .. Len(t) : f[i] = t[i]
      BY <1>0, ConcatBytes, SubBytes
<1> QED
    BY <1>1, <1>2, SeqEqual

(* read_exact takes the head of a stream that has at least its length. *)
LEMMA ReadStream ==
  ASSUME NEW s \in Seq(Byte), NEW head \in Seq(Byte), NEW rest \in Seq(Byte),
         NEW reset, Coming(s, reset, head \o rest), Len(head) <= Len(s)
  PROVE  /\ SubSeq(s, 1, Len(head)) = head
         /\ \A i \in 1 .. Len(head) : s[i] = head[i]
         /\ Coming(SubSeq(s, Len(head) + 1, Len(s)), reset, rest)
<1>0. Len(s) \in Nat /\ Len(head) \in Nat /\ Len(rest) \in Nat
      BY LenProperties
<1>1. \A i \in 1 .. Len(head) : s[i] = head[i]
      BY <1>0, ConcatBytes DEF Coming
<1>2. SubSeq(s, 1, Len(head)) = head
  <2>1. /\ SubSeq(s, 1, Len(head)) \in Seq(Byte)
        /\ Len(SubSeq(s, 1, Len(head))) = Len(head)
        /\ \A i \in 1 .. Len(head) : SubSeq(s, 1, Len(head))[i] = s[i]
        BY <1>0, SubBytes
  <2> QED
      BY <2>1, <1>1, SeqEqual
<1>3. Coming(SubSeq(s, Len(head) + 1, Len(s)), reset, rest)
  <2>1. /\ Len(SubSeq(s, Len(head) + 1, Len(s))) = Len(s) - Len(head)
        /\ \A i \in 1 .. Len(s) - Len(head) :
             SubSeq(s, Len(head) + 1, Len(s))[i] = s[Len(head) + i]
        BY <1>0, SubBytes
  <2>2. /\ Len(head \o rest) = Len(head) + Len(rest)
        /\ \A i \in 1 .. Len(rest) : (head \o rest)[Len(head) + i] = rest[i]
        BY ConcatBytes
  <2>3. ASSUME NEW i \in 1 .. Len(s) - Len(head)
        PROVE  s[Len(head) + i] = rest[i]
    <3>1. Len(head) + i \in 1 .. Len(s) /\ i \in 1 .. Len(rest)
          BY <1>0, <2>2 DEF Coming
    <3> QED
        BY <2>2, <3>1 DEF Coming
  <2> QED
      BY <1>0, <2>1, <2>2, <2>3 DEF Coming
<1> QED
    BY <1>1, <1>2, <1>3

(* A reset leaves a beginning of what was under way. *)
LEMMA CutStream ==
  ASSUME NEW s \in Seq(Byte), NEW full \in Seq(Byte), NEW reset,
         Coming(s, reset, full), NEW n \in 0 .. Len(s)
  PROVE  Coming(SubSeq(s, 1, n), TRUE, full)
<1>1. Len(s) \in Nat /\ Len(full) \in Nat
      BY LenProperties
<1>2. /\ Len(SubSeq(s, 1, n)) = n
      /\ \A i \in 1 .. n : SubSeq(s, 1, n)[i] = s[i]
      BY <1>1, SubBytes
<1> QED
    BY <1>1, <1>2 DEF Coming

(* What is written to a connection that is open comes last. *)
LEMMA ExtendStream ==
  ASSUME NEW s \in Seq(Byte), NEW full \in Seq(Byte), NEW more \in Seq(Byte),
         Coming(s, FALSE, full)
  PROVE  s = full /\ Coming(s \o more, FALSE, full \o more)
<1>1. Len(s) \in Nat /\ Len(full) \in Nat /\ Len(more) \in Nat
      BY LenProperties
<1>2. s = full
  <2>1. Len(s) = Len(full) /\ \A i \in 1 .. Len(s) : s[i] = full[i]
        BY Zenon DEF Coming
  <2> QED
      BY <2>1, SeqEqual, Zenon
<1> QED
    BY <1>1, <1>2, ConcatBytes DEF Coming

-----------------------------------------------------------------------------
(* The messages of the handshake *)

(* Config::validate leaves both credentials out, or lets in two that have a
   length of one byte.                                                     *)
LEMMA Configured ==
  ASSUME TypeOK, cred[1] # None
  PROVE  /\ cred[1] \in Seq(Byte) /\ cred[2] \in Seq(Byte)
         /\ Len(cred[1]) \in 1 .. 255 /\ Len(cred[2]) \in 1 .. 255
         /\ cred = <<cred[1], cred[2]>>
<1>1. cred \in (Seq(Byte) \cup {None}) \X (Seq(Byte) \cup {None})
      BY SocksAssumption, Zenon DEF TypeOK
<1>2. /\ cred[1] # None /\ cred[2] # None
      /\ Len(cred[1]) \in 1 .. 255 /\ Len(cred[2]) \in 1 .. 255
  <2>1. validate(cred)
        BY Zenon DEF TypeOK
  <2>2. cred # <<None, None>>
        OBVIOUS
  <2> QED
      BY <2>1, <2>2, Zenon DEF validate
<1>3. PICK u \in Seq(Byte) \cup {None}, p \in Seq(Byte) \cup {None} : cred = <<u, p>>
      BY <1>1
<1>4. u = cred[1] /\ p = cred[2]
      BY <1>3
<1> QED
    BY <1>2, <1>3, <1>4

(* A sequence of bytes that starts at a place of another. *)
At(w, k, s) == \A i \in 1 .. Len(s) : w[k + i] = s[i]

LEMMA AtConcat ==
  ASSUME NEW w \in Seq(Byte), NEW t \in Seq(Byte)
  PROVE  /\ At(w \o t, Len(w), t)
         /\ \A k \in Nat, s \in Seq(Byte) :
              k + Len(s) <= Len(w) /\ At(w, k, s) => At(w \o t, k, s)
<1>1. At(w \o t, Len(w), t)
      BY ConcatBytes DEF At
<1>2. ASSUME NEW k \in Nat, NEW s \in Seq(Byte), k + Len(s) <= Len(w),
             At(w, k, s), NEW i \in 1 .. Len(s)
      PROVE  (w \o t)[k + i] = s[i]
  <2>1. Len(s) \in Nat /\ Len(w) \in Nat
        BY LenProperties
  <2>2. k + i \in 1 .. Len(w)
        BY <1>2, <2>1
  <2> QED
      BY <1>2, <2>2, ConcatBytes DEF At
<1> QED
    BY <1>1, <1>2 DEF At

LEMMA SubAt ==
  ASSUME NEW w \in Seq(Byte), NEW k \in Nat, NEW s \in Seq(Byte), At(w, k, s),
         k + Len(s) <= Len(w)
  PROVE  SubSeq(w, k + 1, k + Len(s)) = s
<1>1. Len(s) \in Nat /\ Len(w) \in Nat
      BY LenProperties
<1> DEFINE f == SubSeq(w, k + 1, k + Len(s))
<1>2. /\ f \in Seq(Byte) /\ Len(f) = Len(s)
      /\ \A i \in 1 .. Len(s) : f[i] = w[k + i]
      BY <1>1, SubBytes
<1> HIDE DEF f
<1>3. f = s
      BY <1>2, SeqEqual, Zenon DEF At
<1> QED
    BY <1>3 DEF f

LEMMA SmallByte ==
  ASSUME NEW n \in 1 .. 255
  PROVE  u8(n) = n /\ n \in Byte /\ n \in Nat
BY DEF u8, Byte

(* The proxy reads back the credentials that are configured. *)
LEMMA AuthRead ==
  ASSUME TypeOK, cred[1] # None
  PROVE  LET n == AuthMessage[2]
             m == AuthMessage[3 + n]
         IN  /\ AuthMessage \in Seq(Byte)
             /\ Len(AuthMessage) = 3 + n + m
             /\ n \in Nat /\ m \in Nat
             /\ SubSeq(AuthMessage, 3, 2 + n) = cred[1]
             /\ SubSeq(AuthMessage, 4 + n, 3 + n + m) = cred[2]
<1>1. PICK u \in Seq(Byte), p \in Seq(Byte) : u = cred[1] /\ p = cred[2]
      BY Configured, Zenon
<1>2. PICK n \in 1 .. 255, m \in 1 .. 255 : n = Len(u) /\ m = Len(p)
      BY <1>1, Configured, Zenon
<1>3. PICK a, b : a = <<1, n>> /\ b = <<m>>
      OBVIOUS
<1>4. n \in Byte /\ m \in Byte
      BY SmallByte, Zenon
<1>5. /\ a \in Seq(Byte) /\ Len(a) >= 2 /\ Len(a) <= 2 /\ a[2] = n
      /\ b \in Seq(Byte) /\ Len(b) >= 1 /\ Len(b) <= 1 /\ b[1] = m
      BY <1>3, <1>4 DEF Byte
<1>6. AuthMessage = a \o u \o b \o p
      BY <1>1, <1>2, <1>3, SmallByte, Zenon DEF AuthMessage
<1>7. n \in Nat /\ m \in Nat
      BY SmallByte, Zenon
<1>8. Len(u) = n /\ Len(p) = m
      BY <1>2, Zenon
<1> USE <1>5, <1>7, <1>8
<1> DEFINE v == a \o u
<1>9. v \in Seq(Byte) /\ Len(v) = 2 + n /\ v[2] = n /\ At(v, 2, u)
      BY ConcatBytes, AtConcat
<1> HIDE DEF v
<1> DEFINE x == v \o b
<1>10. x \in Seq(Byte) /\ Len(x) = 3 + n
      BY <1>9, ConcatBytes
<1>11. x[2] = n
      BY <1>9, ConcatBytes
<1>12. x[3 + n] = m
  <2>1. At(x, 2 + n, b)
        BY <1>9, AtConcat
  <2>2. 1 \in 1 .. Len(b) /\ (2 + n) + 1 = 3 + n
        OBVIOUS
  <2> QED
      BY <2>1, <2>2, Zenon DEF At
<1>13. At(x, 2, u)
      BY <1>9, AtConcat
<1> HIDE DEF x
<1>14. AuthMessage = x \o p
      BY <1>6 DEF x, v
<1>15. AuthMessage \in Seq(Byte) /\ Len(AuthMessage) = 3 + n + m
  <2>1. AuthMessage \in Seq(Byte) /\ Len(AuthMessage) = Len(x) + Len(p)
        BY ONLY <1>10, <1>14, ConcatBytes, p \in Seq(Byte)
  <2> QED
      BY <1>10, <2>1
<1>16. AuthMessage[2] = n /\ AuthMessage[3 + n] = m
  <2>1. \A i \in 1 .. Len(x) : AuthMessage[i] = x[i]
        BY <1>10, <1>14, ConcatBytes
  <2> QED
      BY <1>10, <1>11, <1>12, <2>1
<1>17. At(AuthMessage, 2, u) /\ At(AuthMessage, 3 + n, p)
      BY <1>10, <1>13, <1>14, AtConcat
<1>18. SubSeq(AuthMessage, 3, 2 + n) = u
      BY <1>15, <1>17 DEF At
<1>19. SubSeq(AuthMessage, 4 + n, 3 + n + m) = p
      BY <1>15, <1>17 DEF At
<1> QED
    BY <1>1, <1>7, <1>15, <1>16, <1>18, <1>19, Zenon

LEMMA BigEndian ==
  ASSUME NEW n \in Ports
  PROVE  /\ to_be_bytes(n) \in Seq(Byte)
         /\ from_be_bytes(to_be_bytes(n)[1], to_be_bytes(n)[2]) = n
<1>1. n \div 256 \in Byte /\ n % 256 \in Byte
  <2>1. n \in Nat /\ n <= 65535
        BY DEF Ports
  <2>2. n \div 256 \in Nat /\ n \div 256 <= 255 /\ n % 256 \in 0 .. 255
        BY <2>1
  <2> QED
      BY <2>2 DEF Byte
<1>2. 256 * (n \div 256) + (n % 256) = n
      BY DEF Ports
<1> QED
    BY <1>1, <1>2 DEF to_be_bytes, from_be_bytes

(* The pieces of the proxy's reply to a request. *)
LEMMA ReplyPieces ==
  ASSUME TypeOK, Relay, Bound
  PROVE  /\ bound \in Binds /\ bound.ip \in Seq(Byte) /\ bound.ip \in Ips
         /\ bound.port \in Ports
         /\ Head4 \in Seq(Byte) /\ PortAndMore \in Seq(Byte)
         /\ IpAndMore \in Seq(Byte)
<1>1. /\ bound \in Binds /\ bound.ip \in Seq(Byte) /\ bound.ip \in Ips
      /\ bound.port \in Ports
      BY SocksAssumption DEF TypeOK, Relay, Ips
<1>2. to_be_bytes(bound.port) \in Seq(Byte)
      BY <1>1, BigEndian
<1>3. Head4 \in Seq(Byte)
      BY DEF Head4, Family, Byte
<1>4. PortAndMore \in Seq(Byte)
      BY <1>2, Messages, ConcatBytes DEF PortAndMore
<1> QED
    BY <1>1, <1>3, <1>4, ConcatBytes DEF IpAndMore

-----------------------------------------------------------------------------
(* Steps *)

LEMMA ReadTypes ==
  ASSUME TypeOK, NEW n \in Nat, Read(n)
  PROVE  /\ fromProxy' \in Seq(Byte) /\ arrived' \in 0 .. Len(fromProxy')
         /\ n <= Len(fromProxy) /\ closed' = closed
         /\ fromProxy' = SubSeq(fromProxy, n + 1, Len(fromProxy))
<1>1. /\ fromProxy \in Seq(Byte) /\ arrived \in 0 .. Len(fromProxy)
      /\ Len(fromProxy) \in Nat
      BY LenProperties DEF TypeOK
<1>2. n <= arrived /\ arrived' = arrived - n
      /\ fromProxy' = SubSeq(fromProxy, n + 1, Len(fromProxy))
      /\ closed' = closed
      BY DEF Read
<1>3. fromProxy' \in Seq(Byte) /\ Len(fromProxy') = Len(fromProxy) - n
      BY <1>1, <1>2, SubBytes
<1> QED
    BY <1>1, <1>2, <1>3

LEMMA NothingComes == InStream(<<>>) => Len(fromProxy) <= 0
<1>1. InStream(<<>>) => Len(fromProxy) <= Len(<<>>)
      BY Zenon DEF InStream, Coming
<1>2. Len(<<>>) = 0
      OBVIOUS
<1> QED
    BY <1>1, <1>2, Zenon

(* Types of what most steps leave as it is. *)
LEMMA SettledTypes ==
  ASSUME TypeOK, UNCHANGED <<cred, ip, relay>>
  PROVE  /\ (cred \in Credentials)' /\ validate(cred)' /\ (ip \in Seq(Byte))'
         /\ (relay \in Addresses \cup {None})'
<1>1. (cred \in Credentials)' /\ validate(cred)' /\ (ip \in Seq(Byte))'
      BY Zenon DEF TypeOK, validate
<1>2. Addresses' = Addresses
      BY Zenon DEF Addresses
<1>3. (relay \in Addresses \cup {None})'
      BY <1>2, Zenon DEF TypeOK
<1> QED
    BY <1>1, <1>3, Zenon

(* udp_associate fails, or the session ends, with what remains unread. *)
LEMMA GivingUp ==
  ASSUME IInv, pc' \in {"failed", "ended", "domain"},
         UNCHANGED <<cred, closed, toProxy, proxyVars, ip, relay, enc_buf>>,
         fromProxy' \in Seq(Byte), arrived' \in 0 .. Len(fromProxy'),
         pc' = "domain" => pc \in Handshake
  PROVE  IInv'
<1>1. TypeOK'
      BY SettledTypes, Zenon DEF IInv, TypeOK, proxyVars, Handshake
<1>2. Sent'
      BY Zenon DEF IInv, Sent, Offer, AuthMessage, proxyVars
<1>3. Received' 
      BY DEF Received
<1>4. Relay' /\ CredentialsRead'
      BY DEF IInv, Relay, Bound, CredentialsRead, proxyVars, Handshake
<1> QED
    BY <1>1, <1>2, <1>3, <1>4 DEF IInv

LEMMA ConnectedStep ==
  ASSUME IInv, Connected
  PROVE  IInv'
<1>1. server = "greeting" /\ InStream(<<>>)
      BY DEF IInv, Received, Connected
<1>2. toProxy' = Offer /\ Offer \in Seq(Byte) /\ Offer' = Offer
      BY Messages DEF Connected, Offer
<1>3. TypeOK'
      BY <1>2, SettledTypes, Zenon
      DEF IInv, TypeOK, Connected, proxyVars, dataVars, Handshake
<1>4. Sent'
      BY <1>1, <1>2 DEF IInv, Sent, Connected, proxyVars
<1>5. Received'
      BY <1>1 DEF Received, InStream, Connected, proxyVars
<1>6. Relay' /\ CredentialsRead'
      BY DEF IInv, Relay, Bound, CredentialsRead, Connected, proxyVars,
             Handshake
<1> QED
    BY <1>3, <1>4, <1>5, <1>6 DEF IInv

(* The read takes the last byte under way. *)
LEMMA AllRead ==
  ASSUME TypeOK, NEW n \in Nat, Read(n), Len(fromProxy) <= n
  PROVE  fromProxy' = <<>> /\ InStream(<<>>)'
<1>1. n <= Len(fromProxy) /\ fromProxy' = SubSeq(fromProxy, n + 1, Len(fromProxy))
      BY ReadTypes
<1>2. Len(fromProxy) \in Nat
      BY LenProperties DEF TypeOK
<1>3. fromProxy' = <<>>
      BY <1>1, <1>2, SubSeqEmpty
<1> QED
    BY <1>3 DEF InStream, Coming

LEMMA SendRequestStep ==
  ASSUME IInv, pc \in {"method", "auth"}, server = "request", toProxy = <<>>,
         Read(2), Len(fromProxy) <= 2, SendRequest,
         UNCHANGED <<cred, proxyVars, ip, relay, dataVars>>
  PROVE  IInv'
<1>1. /\ fromProxy' \in Seq(Byte) /\ arrived' \in 0 .. Len(fromProxy')
      /\ closed' = closed
      BY ReadTypes DEF IInv
<1>2. InStream(<<>>)'
      BY AllRead DEF IInv
<1>3. toProxy' = Request /\ pc' = "head"
      BY Messages, ConcatEmptySeq DEF SendRequest
<1>4. TypeOK'
      BY <1>1, <1>3, Messages, SettledTypes, Zenon DEF IInv, TypeOK, proxyVars,
         dataVars, Handshake
<1>5. Sent'
      BY <1>3 DEF Sent, proxyVars
<1>6. Received'
      BY <1>2, <1>3 DEF Received, proxyVars
<1>7. Relay' /\ CredentialsRead'
      BY <1>3 DEF IInv, Relay, Bound, CredentialsRead, proxyVars, Handshake
<1> QED
    BY <1>4, <1>5, <1>6, <1>7 DEF IInv

LEMMA MethodReplyFacts ==
  ASSUME NEW reply \in MethodReplies
  PROVE  /\ Len(reply) <= 2 /\ reply \in Seq(Byte)
         /\ reply[1] = 5 /\ reply[2] = 0 => MethodNext(reply) = "request"
         /\ reply[1] = 5 /\ reply[2] = 2 => MethodNext(reply) = "credentials"
<1>1. Len(reply) <= 2
  <2>1. \/ reply = <<5, 0>> \/ reply = <<5, 1>> \/ reply = <<5, 2>>
        \/ reply = <<5, 255>> \/ reply = <<4, 0>>
        BY Zenon DEF MethodReplies
  <2>2. /\ Len(<<5, 0>>) <= 2 /\ Len(<<5, 1>>) <= 2 /\ Len(<<5, 2>>) <= 2
        /\ Len(<<5, 255>>) <= 2 /\ Len(<<4, 0>>) <= 2
        OBVIOUS
  <2> QED
      BY <2>1, <2>2, Zenon
<1>2. reply[1] = 5 /\ reply[2] = 0 => reply = <<5, 0>>
      BY DEF MethodReplies
<1>3. reply[1] = 5 /\ reply[2] = 2 => reply = <<5, 2>>
      BY DEF MethodReplies
<1>4. MethodNext(<<5, 0>>) = "request" /\ MethodNext(<<5, 2>>) = "credentials"
      BY DEF MethodNext
<1> QED
    BY <1>1, <1>2, <1>3, <1>4, Messages

LEMMA ReadMethodStep ==
  ASSUME IInv, ReadMethod
  PROVE  IInv'
<1>1. /\ fromProxy' \in Seq(Byte) /\ arrived' \in 0 .. Len(fromProxy')
      /\ closed' = closed /\ 2 <= Len(fromProxy) /\ Len(fromProxy) \in Nat
      BY ReadTypes, LenProperties DEF IInv, ReadMethod, TypeOK
<1>2. ~InStream(<<>>)
      BY <1>1 DEF InStream, Coming
<1>3. PICK reply \in MethodReplies :
        toProxy = <<>> /\ InStream(reply) /\ server = MethodNext(reply)
      BY <1>2 DEF IInv, Received, ReadMethod
<1>4. fromProxy[1] = reply[1] /\ fromProxy[2] = reply[2]
      BY <1>1, <1>3 DEF InStream, Coming
<1>5. Len(fromProxy) <= 2
      BY <1>1, <1>3, MethodReplyFacts DEF InStream, Coming
<1>6. CASE fromProxy[1] = 5 /\ fromProxy[2] = 0 /\ SendRequest
  <2>1. server = "request"
        BY <1>3, <1>4, <1>6, MethodReplyFacts, Zenon
  <2> QED
      BY <1>3, <1>5, <1>6, <2>1, SendRequestStep DEF ReadMethod
<1>7. CASE /\ fromProxy[1] = 5 /\ fromProxy[2] = 2 /\ cred[1] # None
           /\ toProxy' = toProxy \o AuthMessage
           /\ pc' = "auth"
  <2>1. server = "credentials"
        BY <1>3, <1>4, <1>7, MethodReplyFacts
  <2>2. AuthMessage \in Seq(Byte)
        BY <1>7, AuthRead DEF IInv
  <2>3. toProxy' = AuthMessage
        BY <1>3, <1>7, <2>2, ConcatEmptySeq
  <2>4. InStream(<<>>)'
        BY <1>5, AllRead DEF IInv, ReadMethod
  <2>5. AuthMessage' = AuthMessage
        BY DEF AuthMessage, ReadMethod
  <2>6. TypeOK'
        BY <1>1, <1>7, <2>2, <2>3, SettledTypes, Zenon
        DEF IInv, TypeOK, ReadMethod, proxyVars, dataVars, Handshake
  <2>7. Sent'
        BY <1>7, <2>1, <2>3, <2>5 DEF Sent, ReadMethod, proxyVars
  <2>8. Received'
        BY <1>7, <2>1, <2>4 DEF Received, ReadMethod, proxyVars
  <2>9. Relay' /\ CredentialsRead'
        BY <1>7 DEF IInv, Relay, Bound, CredentialsRead, ReadMethod, proxyVars,
           Handshake
  <2> QED
      BY <2>6, <2>7, <2>8, <2>9 DEF IInv
<1>8. CASE pc' = "failed" /\ UNCHANGED toProxy
      BY <1>1, <1>8, GivingUp DEF ReadMethod, dataVars
<1> QED
    BY <1>6, <1>7, <1>8 DEF ReadMethod

LEMMA ReadAuthStep ==
  ASSUME IInv, ReadAuth
  PROVE  IInv'
<1>1. /\ fromProxy' \in Seq(Byte) /\ arrived' \in 0 .. Len(fromProxy')
      /\ closed' = closed /\ 2 <= Len(fromProxy) /\ Len(fromProxy) \in Nat
      BY ReadTypes, LenProperties DEF IInv, ReadAuth, TypeOK
<1>2. ~InStream(<<>>)
      BY <1>1, NothingComes
<1>3. PICK status \in {0, 1} :
        toProxy = <<>> /\ InStream(<<1, status>>) /\ server = StatusNext(status)
      BY <1>2 DEF IInv, Received, ReadAuth
<1>4. fromProxy[2] = status /\ Len(fromProxy) <= 2
      BY <1>1, <1>3 DEF InStream, Coming
<1>5. CASE fromProxy[2] = 0 /\ SendRequest
      BY <1>3, <1>4, <1>5, SendRequestStep DEF ReadAuth, StatusNext
<1>6. CASE pc' = "failed" /\ UNCHANGED toProxy
  <2>1. UNCHANGED <<cred, proxyVars, ip, relay, enc_buf>>
        BY DEF ReadAuth, dataVars
  <2>2. pc' \in {"failed", "ended", "domain"} /\ pc' # "domain"
        BY <1>6
  <2> QED
      BY <1>1, <1>6, <2>1, <2>2, GivingUp, Zenon
<1> QED
    BY <1>5, <1>6 DEF ReadAuth

(* The reads of a reply that binds a relay, from the head to the port. *)
LEMMA ReadHeadStep ==
  ASSUME IInv, ReadHead
  PROVE  IInv'
<1>1. /\ fromProxy' \in Seq(Byte) /\ arrived' \in 0 .. Len(fromProxy')
      /\ closed' = closed /\ 4 <= Len(fromProxy) /\ Len(fromProxy) \in Nat
      BY ReadTypes, LenProperties DEF IInv, ReadHead, TypeOK
<1>2. ~InStream(<<>>)
      BY <1>1, NothingComes
<1>3. CASE \E reply \in Refusals : InStream(reply)
  <2>1. PICK reply \in Refusals : InStream(reply)
        BY <1>3
  <2>2. /\ fromProxy[1] = reply[1] /\ fromProxy[2] = reply[2]
        /\ fromProxy[4] = reply[4]
        BY <1>1, <2>1 DEF InStream, Coming
  <2>3. reply[1] # 5 \/ reply[2] # 0 \/ reply[4] \in {2, 3}
        BY DEF Refusals
  <2>4. pc' \in {"failed", "domain"}
        BY <2>2, <2>3 DEF ReadHead
  <2> QED
      BY <1>1, <2>4, GivingUp DEF ReadHead, dataVars, Handshake
<1>4. CASE Bound /\ InStream(Head4 \o IpAndMore)
  <2>1. /\ bound.ip \in Ips /\ Head4 \in Seq(Byte) /\ IpAndMore \in Seq(Byte)
        BY <1>4, ReplyPieces DEF IInv
  <2>2. PICK n \in Nat : n = 4
        OBVIOUS
  <2>3. /\ \A i \in 1 .. 4 : fromProxy[i] = Head4[i]
        /\ Coming(fromProxy', closed', IpAndMore)
    <3>1. Len(Head4) = n
          BY <2>2 DEF Head4
    <3>2. Read(n) /\ n <= Len(fromProxy)
          BY <1>1, <2>2 DEF ReadHead
    <3>3. fromProxy' = SubSeq(fromProxy, Len(Head4) + 1, Len(fromProxy))
          BY <3>1, <3>2, Zenon DEF Read
    <3>4. /\ \A i \in 1 .. Len(Head4) : fromProxy[i] = Head4[i]
          /\ Coming(SubSeq(fromProxy, Len(Head4) + 1, Len(fromProxy)), closed, IpAndMore)
          BY <1>4, <2>1, <3>1, <3>2, ReadStream DEF IInv, TypeOK, InStream
    <3> QED
        BY <1>1, <2>2, <3>1, <3>3, <3>4, Zenon
  <2>4. fromProxy[1] = 5 /\ fromProxy[2] = 0 /\ fromProxy[4] = Family(bound.ip)
        BY <2>3 DEF Head4
  <2>5. /\ pc' \in {"ipv4", "ipv6"}
        /\ Len(bound.ip) = IF pc' = "ipv4" THEN 4 ELSE 16
    <3>1. Family(bound.ip) \in {1, 4}
          BY DEF Family
    <3>2. pc' = IF Family(bound.ip) = 1 THEN "ipv4" ELSE "ipv6"
          BY <2>4, <3>1 DEF ReadHead
    <3>3. Len(bound.ip) = 4 \/ Len(bound.ip) = 16
          BY <2>1, Zenon DEF Ips
    <3> QED
        BY <3>2, <3>3, Zenon DEF Family
  <2>6. bound' = bound /\ server' = server /\ IpAndMore' = IpAndMore
        BY DEF ReadHead, IpAndMore, PortAndMore, proxyVars
  <2>7. TypeOK'
        BY <1>1, <2>5, SettledTypes, Zenon
        DEF IInv, TypeOK, ReadHead, proxyVars, dataVars, Handshake
  <2>8. Sent'
        BY <2>6, Zenon DEF IInv, Sent, ReadHead, Offer, AuthMessage
  <2>9. Received'
        BY <1>1, <1>4, <2>3, <2>5, <2>6 DEF Received, Bound, InStream
  <2>10. Relay' /\ CredentialsRead'
        BY <2>5
        DEF IInv, Relay, Bound, CredentialsRead, ReadHead, proxyVars,
            Handshake
  <2> QED
      BY <2>7, <2>8, <2>9, <2>10 DEF IInv
<1> QED
    BY <1>2, <1>3, <1>4 DEF IInv, Received, ReadHead

LEMMA ReadIpStep ==
  ASSUME IInv, ReadIp
  PROVE  IInv'
<1> DEFINE n == IF pc = "ipv4" THEN 4 ELSE 16
<1>1. /\ Bound /\ InStream(bound.ip \o PortAndMore) /\ Len(bound.ip) = n
      BY DEF IInv, Received, ReadIp, IpAndMore
<1>2. n \in Nat /\ Read(n) /\ ip' = SubSeq(fromProxy, 1, n)
      BY DEF ReadIp
<1> HIDE DEF n
<1>3. /\ fromProxy' \in Seq(Byte) /\ arrived' \in 0 .. Len(fromProxy')
      /\ closed' = closed /\ n <= Len(fromProxy)
      /\ fromProxy' = SubSeq(fromProxy, n + 1, Len(fromProxy))
      BY <1>2, ReadTypes DEF IInv
<1>4. bound.ip \in Seq(Byte) /\ PortAndMore \in Seq(Byte) /\ fromProxy \in Seq(Byte)
      BY <1>1, ReplyPieces DEF IInv, TypeOK
<1>5. ip' = bound.ip /\ Coming(fromProxy', closed', PortAndMore)
      BY <1>1, <1>2, <1>3, <1>4, ReadStream, Zenon DEF InStream
<1>6. bound' = bound /\ server' = server /\ PortAndMore' = PortAndMore
      BY DEF ReadIp, PortAndMore, proxyVars
<1>7. TypeOK'
  <2>1. relay' = None
        BY DEF IInv, Relay, ReadIp, Handshake
  <2> QED
      BY <1>3, <1>4, <1>5, <2>1, Zenon
      DEF IInv, TypeOK, ReadIp, validate, proxyVars, dataVars, Handshake
<1>8. Sent'
      BY <1>6, Zenon DEF IInv, Sent, ReadIp, Offer, AuthMessage
<1>9. Received'
      BY <1>1, <1>5, <1>6 DEF Received, ReadIp, Bound, InStream
<1>10. Relay' /\ CredentialsRead'
      BY DEF IInv, Relay, Bound, CredentialsRead, ReadIp, proxyVars, Handshake
<1> QED
    BY <1>7, <1>8, <1>9, <1>10 DEF IInv

(* What read_bind_address has read is what the proxy has bound. *)
LEMMA PortRead ==
  ASSUME IInv, ReadPort
  PROVE  /\ Bound /\ relay' = normalize_relay(bound)
         /\ server = "bound" => InStream(<<>>)'
<1> DEFINE p == to_be_bytes(bound.port)
           more == IF server = "talkative" THEN <<0>> ELSE <<>>
<1>1. Bound /\ ip = bound.ip /\ InStream(p \o more)
      BY DEF IInv, Received, ReadPort, PortAndMore
<1>2. bound \in Binds /\ bound.port \in Ports
      BY <1>1, ReplyPieces DEF IInv
<1>3. p \in Seq(Byte) /\ from_be_bytes(p[1], p[2]) = bound.port
      BY <1>2, BigEndian
<1>4. more \in Seq(Byte) /\ (server = "bound" => more = <<>>)
      BY Messages
<1>5. PICK n \in Nat : n = 2
      OBVIOUS
<1>6. Len(p) = n
      BY <1>5 DEF to_be_bytes
<1> HIDE DEF p, more
<1>7. Read(n) /\ fromProxy \in Seq(Byte)
      BY <1>5 DEF ReadPort, IInv, TypeOK
<1>8. /\ n <= Len(fromProxy) /\ closed' = closed
      /\ fromProxy' = SubSeq(fromProxy, n + 1, Len(fromProxy))
      BY <1>7, ReadTypes DEF IInv
<1>9. /\ \A i \in 1 .. n : fromProxy[i] = p[i]
      /\ Coming(fromProxy', closed', more)
      BY <1>1, <1>3, <1>4, <1>6, <1>7, <1>8, ReadStream DEF InStream
<1>10. fromProxy[1] = p[1] /\ fromProxy[2] = p[2]
      BY <1>5, <1>9
<1>11. bound = [ip |-> bound.ip, port |-> bound.port]
      BY <1>2, SocksAssumption
<1>12. relay' = normalize_relay([ip |-> bound.ip, port |-> bound.port])
      BY <1>1, <1>3, <1>10, Zenon DEF ReadPort
<1> QED
    BY <1>1, <1>4, <1>9, <1>11, <1>12, Zenon DEF InStream

LEMMA ReadPortStep ==
  ASSUME IInv, ReadPort
  PROVE  IInv'
<1>1. /\ fromProxy' \in Seq(Byte) /\ arrived' \in 0 .. Len(fromProxy')
      /\ closed' = closed
      BY ReadTypes DEF IInv, ReadPort
<1>2. /\ Bound /\ relay' = normalize_relay(bound)
      /\ server = "bound" => InStream(<<>>)'
      BY PortRead
<1>3. /\ bound.ip = ip /\ bound.ip \in Ips /\ bound.port \in Ports
      /\ bound = [ip |-> bound.ip, port |-> bound.port]
      BY <1>2, ReplyPieces, SocksAssumption DEF IInv, Received, ReadPort
<1>4. relay' \in Addresses'
  <2>1. Len(ip) \in {4, 16} /\ Len(ProxyIp) \in {4, 16} /\ ip' = ip
        BY <1>3, SocksAssumption, Zenon DEF Ips, ReadPort
  <2>2. \/ relay' = [ip |-> ip, port |-> bound.port]
        \/ relay' = [ip |-> ProxyIp, port |-> bound.port]
        BY <1>2, <1>3, Zenon DEF normalize_relay
  <2>3. ip \in {x \in {ip, ProxyIp} : Len(x) \in {4, 16}}
        /\ ProxyIp \in {x \in {ip, ProxyIp} : Len(x) \in {4, 16}}
        BY <2>1, Zenon
  <2>4. relay' \in [ip : {x \in {ip, ProxyIp} : Len(x) \in {4, 16}}, port : Ports]
        BY <1>3, <2>2, <2>3
  <2> QED
      BY <2>1, <2>4, Zenon DEF Addresses
<1>5. TypeOK'
      BY <1>1, <1>4, Zenon
      DEF IInv, TypeOK, ReadPort, validate, proxyVars, dataVars
<1>6. Sent'
      BY Zenon DEF IInv, Sent, ReadPort, Offer, AuthMessage, proxyVars
<1>7. Received'
      BY <1>2 DEF Received, ReadPort, Bound, proxyVars
<1>8. Relay' /\ CredentialsRead'
      BY DEF IInv, Relay, Bound, CredentialsRead, ReadPort, proxyVars,
             Handshake
<1> QED
    BY <1>5, <1>6, <1>7, <1>8 DEF IInv

LEMMA ReadDomainStep ==
  ASSUME IInv, ReadDomain
  PROVE  IInv'
<1>1. 1 + fromProxy[1] \in Nat
  <2>1. fromProxy \in Seq(Byte) /\ arrived \in 0 .. Len(fromProxy) /\ arrived > 0
        /\ Len(fromProxy) \in Nat
        BY LenProperties DEF IInv, TypeOK, ReadDomain
  <2>2. fromProxy[1] \in Byte
        BY <2>1, ElementOfSeq
  <2> QED
      BY <2>2 DEF Byte
<1>2. /\ fromProxy' \in Seq(Byte) /\ arrived' \in 0 .. Len(fromProxy')
      /\ closed' = closed
      BY <1>1, ReadTypes DEF IInv, ReadDomain
<1> QED
    BY <1>2, GivingUp DEF ReadDomain, dataVars

(* A handshake that fails for another reason, and a session that ends. *)
LEMMA EndStep ==
  ASSUME IInv, pc' \in {"failed", "ended"},
         UNCHANGED <<cred, wireVars, proxyVars, ip, relay, dataVars>>
  PROVE  IInv'
BY GivingUp DEF IInv, TypeOK, wireVars, dataVars

(* Steps that leave the handshake as it is. *)
LEMMA SessionStep ==
  ASSUME IInv, UNCHANGED <<cred, pc, wireVars, proxyVars, ip, relay>>,
         enc_buf' \in Seq(Byte)
  PROVE  IInv'
<1>1. TypeOK'
      BY SettledTypes, Zenon DEF IInv, TypeOK, wireVars, proxyVars
<1>2. Sent'
      BY Zenon DEF IInv, Sent, Offer, AuthMessage, proxyVars, wireVars
<1>3. Received'
      BY DEF IInv, Received, InStream, Bound, IpAndMore, PortAndMore, Head4,
         proxyVars, wireVars
<1>4. Relay' /\ CredentialsRead'
      BY DEF IInv, Relay, Bound, CredentialsRead, proxyVars
<1> QED
    BY <1>1, <1>2, <1>3, <1>4 DEF IInv

LEMMA SendDatagramStep ==
  ASSUME IInv, NEW target \in Targets, NEW payload \in Payloads,
         SendDatagram(target, payload)
  PROVE  IInv'
<1>1. /\ target.ip \in Seq(Byte) /\ target.port \in Ports /\ payload \in Seq(Byte)
      BY SocksAssumption DEF Ips
<1>2. to_be_bytes(target.port) \in Seq(Byte)
      BY <1>1, BigEndian
<1>3. <<0, 0, 0, Family(target.ip)>> \in Seq(Byte)
      BY DEF Family, Byte
<1>4. encode_udp(target, payload, enc_buf) \in Seq(Byte)
      BY <1>1, <1>2, <1>3, ConcatBytes, Zenon DEF encode_udp
<1> QED
    BY <1>4, SessionStep DEF SendDatagram

LEMMA ControlDataStep ==
  ASSUME IInv, ControlData
  PROVE  IInv'
<1>1. arrived \in Nat /\ arrived > 0 /\ Read(arrived) /\ pc' = pc /\ pc = "relay"
      BY LenProperties DEF IInv, TypeOK, ControlData
<1>2. /\ fromProxy' \in Seq(Byte) /\ arrived' \in 0 .. Len(fromProxy')
      /\ closed' = closed /\ arrived <= Len(fromProxy)
      BY <1>1, ReadTypes DEF IInv
<1>3. Bound /\ server # "bound"
  <2>1. Len(fromProxy) \in Nat
        BY LenProperties DEF IInv, TypeOK
  <2>2. ~InStream(<<>>)
        BY <1>1, <1>2, <2>1 DEF InStream, Coming
  <2> QED
      BY <1>1, <2>2 DEF IInv, Received
<1>4. TypeOK'
      BY <1>2, SettledTypes, Zenon
      DEF IInv, TypeOK, ControlData, proxyVars, dataVars
<1>5. Sent'
      BY Zenon DEF IInv, Sent, ControlData, Offer, AuthMessage, proxyVars
<1>6. Received'
      BY <1>1, <1>3 DEF Received, ControlData, Bound, proxyVars
<1>7. Relay' /\ CredentialsRead'
      BY DEF IInv, Relay, Bound, CredentialsRead, ControlData, proxyVars
<1> QED
    BY <1>4, <1>5, <1>6, <1>7 DEF IInv

LEMMA ArriveStep ==
  ASSUME IInv, Arrive
  PROVE  IInv'
<1>1. arrived' \in 0 .. Len(fromProxy')
      BY LenProperties DEF IInv, TypeOK, Arrive
<1>2. TypeOK'
      BY <1>1, SettledTypes, Zenon
      DEF IInv, TypeOK, Arrive, proxyVars, dataVars
<1>3. Sent'
      BY Zenon DEF IInv, Sent, Arrive, Offer, AuthMessage, proxyVars
<1>4. Received'
      BY Zenon
      DEF IInv, Received, Arrive, InStream, Bound, IpAndMore, PortAndMore,
          Head4, proxyVars
<1>5. Relay' /\ CredentialsRead'
      BY DEF IInv, Relay, Bound, CredentialsRead, Arrive, proxyVars
<1> QED
    BY <1>2, <1>3, <1>4, <1>5 DEF IInv

LEMMA ProxyClosesStep ==
  ASSUME IInv, ProxyCloses
  PROVE  IInv'
<1>1. PICK n \in {arrived, Len(fromProxy)} : fromProxy' = SubSeq(fromProxy, 1, n)
      BY Zenon DEF ProxyCloses
<1>2. /\ fromProxy \in Seq(Byte) /\ Len(fromProxy) \in Nat
      /\ arrived \in 0 .. Len(fromProxy) /\ n \in 0 .. Len(fromProxy)
      BY LenProperties DEF IInv, TypeOK
<1>3. closed' = TRUE /\ arrived' = arrived /\ n >= arrived
      BY <1>2 DEF ProxyCloses
<1>4. fromProxy' \in Seq(Byte) /\ Len(fromProxy') = n
      BY <1>1, <1>2, SubBytes
<1>5. ASSUME NEW full \in Seq(Byte), InStream(full)
      PROVE  Coming(fromProxy', closed', full)
      BY <1>1, <1>2, <1>3, <1>5, CutStream DEF InStream
<1>6. TypeOK'
  <2>1. arrived' \in 0 .. Len(fromProxy')
        BY <1>2, <1>3, <1>4
  <2>2. closed' \in BOOLEAN
        BY <1>3, Zenon
  <2> QED
      BY <1>4, <2>1, <2>2, SettledTypes, Zenon DEF IInv, TypeOK, ProxyCloses,
         proxyVars, dataVars
<1>7. Sent'
      BY Zenon DEF IInv, Sent, ProxyCloses, Offer, AuthMessage, proxyVars
<1>8. Received'
  <2>1. /\ pc' = pc /\ server' = server /\ bound' = bound /\ ip' = ip
        /\ toProxy' = toProxy /\ IpAndMore' = IpAndMore
        /\ PortAndMore' = PortAndMore /\ Head4' = Head4
        BY DEF ProxyCloses, proxyVars, IpAndMore, PortAndMore, Head4
  <2>2. \A reply \in MethodReplies \cup Refusals \cup {<<>>} :
          InStream(reply) => Coming(fromProxy', closed', reply)
        BY <1>5, Messages, Zenon
  <2>3. \A status \in {0, 1} :
          InStream(<<1, status>>) => Coming(fromProxy', closed', <<1, status>>)
    <3>1. \A status \in {0, 1} : <<1, status>> \in Seq(Byte)
          BY DEF Byte
    <3> QED
        BY <1>5, <3>1, Zenon
  <2>4. Bound => /\ PortAndMore \in Seq(Byte) /\ IpAndMore \in Seq(Byte)
                 /\ Head4 \o IpAndMore \in Seq(Byte)
        BY ReplyPieces, ConcatBytes DEF IInv
  <2>5. Bound => \A full \in {PortAndMore, IpAndMore, Head4 \o IpAndMore} :
                   InStream(full) => Coming(fromProxy', closed', full)
        BY <1>5, <2>4, Zenon
  <2> QED
      BY <2>1, <2>2, <2>3, <2>5, Zenon DEF IInv, Received, Bound, InStream
<1>9. Relay' /\ CredentialsRead'
      BY DEF IInv, Relay, Bound, CredentialsRead, ProxyCloses, proxyVars
<1> QED
    BY <1>6, <1>7, <1>8, <1>9 DEF IInv

(* The proxy answers what it has read. *)
LEMMA AnswerTypes ==
  ASSUME TypeOK, NEW n \in Nat, NEW bytes \in Seq(Byte), NEW next, Answer(n, bytes, next)
  PROVE  /\ fromProxy' \in Seq(Byte) /\ arrived' \in 0 .. Len(fromProxy')
         /\ closed' = closed /\ server' = next /\ pc' = pc
         /\ toProxy' = SubSeq(toProxy, n + 1, Len(toProxy))
         /\ Len(toProxy) <= n => toProxy' = <<>>
         /\ \A full \in Seq(Byte) :
              InStream(full) => Coming(fromProxy', closed', full \o bytes)
         /\ InStream(<<>>) => Coming(fromProxy', closed', bytes)
<1>1. /\ fromProxy \in Seq(Byte) /\ Len(fromProxy) \in Nat
      /\ arrived \in 0 .. Len(fromProxy) /\ Len(toProxy) \in Nat
      BY LenProperties DEF TypeOK
<1>2. /\ ~closed /\ closed' = closed /\ server' = next /\ pc' = pc
      /\ fromProxy' = fromProxy \o bytes /\ arrived' = arrived
      /\ toProxy' = SubSeq(toProxy, n + 1, Len(toProxy))
      BY DEF Answer
<1>3. fromProxy' \in Seq(Byte) /\ Len(fromProxy') = Len(fromProxy) + Len(bytes)
      BY <1>1, <1>2, ConcatBytes
<1>4. arrived' \in 0 .. Len(fromProxy')
      BY <1>1, <1>2, <1>3, LenProperties
<1>5. Len(toProxy) <= n => toProxy' = <<>>
      BY <1>1, <1>2, SubSeqEmpty
<1>6. ASSUME NEW full \in Seq(Byte), InStream(full)
      PROVE  Coming(fromProxy', closed', full \o bytes)
  <2>1. Coming(fromProxy, FALSE, full)
        BY <1>2, <1>6, Zenon DEF InStream, Coming
  <2>2. Coming(fromProxy \o bytes, FALSE, full \o bytes)
        BY <1>1, <2>1, ExtendStream
  <2> QED
      BY <1>2, <2>2, Zenon DEF Coming
<1>7. <<>> \in Seq(Byte) /\ <<>> \o bytes = bytes
      BY Messages, ConcatEmptySeq
<1> QED
    BY <1>2, <1>3, <1>4, <1>5, <1>6, <1>7, Zenon

LEMMA AnsweredTypes ==
  ASSUME TypeOK, fromProxy' \in Seq(Byte), arrived' \in 0 .. Len(fromProxy'),
         toProxy' \in Seq(Byte), bound' \in Binds \cup {None},
         server' \in {"credentials", "request", "bound", "talkative", "refused"},
         UNCHANGED <<cred, pc, closed, ip, relay, enc_buf>>
  PROVE  TypeOK'
BY SettledTypes, Zenon DEF TypeOK

LEMMA OfferRead ==
  ASSUME IInv, server = "greeting", Len(toProxy) > 1
  PROVE  Len(toProxy) <= 2 + toProxy[2] /\ toProxy[2] \in Nat
<1>1. toProxy = <<5, 2, 0, 2>> \/ toProxy = <<5, 1, 0>>
  <2>1. toProxy = <<>> \/ toProxy = Offer
        BY Zenon DEF IInv, Sent
  <2>2. ~(Len(<<>>) > 1)
        OBVIOUS
  <2> QED
      BY <2>1, <2>2, Zenon DEF Offer
<1>2. /\ Len(<<5, 2, 0, 2>>) <= 2 + <<5, 2, 0, 2>>[2] /\ <<5, 2, 0, 2>>[2] \in Nat
      /\ Len(<<5, 1, 0>>) <= 2 + <<5, 1, 0>>[2] /\ <<5, 1, 0>>[2] \in Nat
      OBVIOUS
<1> QED
    BY <1>1, <1>2, Zenon

LEMMA ChooseMethodStep ==
  ASSUME IInv, NEW reply \in MethodReplies, ChooseMethod(reply)
  PROVE  IInv'
<1>1. /\ server = "greeting" /\ Len(toProxy) > 1
      /\ Answer(2 + toProxy[2], reply, MethodNext(reply))
      BY Zenon DEF ChooseMethod, MethodNext
<1>2. 2 + toProxy[2] \in Nat /\ Len(toProxy) <= 2 + toProxy[2] /\ reply \in Seq(Byte)
      BY <1>1, OfferRead, MethodReplyFacts
<1>3. /\ fromProxy' \in Seq(Byte) /\ arrived' \in 0 .. Len(fromProxy')
      /\ server' = MethodNext(reply) /\ toProxy' = <<>> /\ pc' = pc
      /\ closed' = closed
      /\ InStream(<<>>) => Coming(fromProxy', closed', reply)
      BY <1>1, <1>2, AnswerTypes, Zenon DEF IInv
<1>4. MethodNext(reply) \in {"request", "credentials", "refused"}
      BY DEF MethodNext
<1>5. UNCHANGED <<cred, seen, bound, ip, relay, enc_buf>>
      BY Zenon DEF ChooseMethod, Answer, dataVars
<1>6. TypeOK'
      BY <1>3, <1>4, <1>5, Messages, AnsweredTypes DEF IInv, TypeOK
<1>7. Sent'
      BY <1>3, <1>4 DEF Sent
<1>8. Received'
  <2>1. pc \notin {"connect", "auth", "head", "ipv4", "ipv6", "port", "relay"}
    <3>1. toProxy # <<>>
          BY <1>1
    <3> QED
        BY <1>1, <3>1 DEF IInv, Received, Bound, StatusNext
  <2>2. pc = "method" => InStream(<<>>)
    <3>1. toProxy # <<>>
          BY <1>1
    <3> QED
        BY <3>1 DEF IInv, Received
  <2>3. pc' = "method" => \E r \in MethodReplies :
                             Coming(fromProxy', closed', r) /\ server' = MethodNext(r)
        BY <1>3, <2>2, Zenon
  <2> QED
      BY <1>3, <2>1, <2>3 DEF Received, InStream
<1>9. Relay' /\ CredentialsRead'
      BY <1>1, <1>3, <1>4, <1>5 DEF IInv, Relay, Bound, CredentialsRead
<1> QED
    BY <1>6, <1>7, <1>8, <1>9 DEF IInv

LEMMA CheckCredentialsStep ==
  ASSUME IInv, NEW status \in {0, 1}, CheckCredentials(status)
  PROVE  IInv'
<1> DEFINE n == toProxy[2]
           m == toProxy[3 + n]
<1>1. /\ server = "credentials" /\ Len(toProxy) > 2
      /\ seen' = <<SubSeq(toProxy, 3, 2 + n), SubSeq(toProxy, 4 + n, 3 + n + m)>>
      /\ Answer(3 + n + m, <<1, status>>, StatusNext(status))
      /\ bound' = bound
      BY Zenon DEF CheckCredentials, StatusNext
<1>2. toProxy # <<>>
      BY <1>1
<1>3. cred[1] # None /\ toProxy = AuthMessage
      BY <1>1, <1>2 DEF IInv, Sent
<1>4. /\ Len(toProxy) = 3 + n + m /\ n \in Nat /\ m \in Nat
      /\ SubSeq(toProxy, 3, 2 + n) = cred[1]
      /\ SubSeq(toProxy, 4 + n, 3 + n + m) = cred[2]
      BY <1>3, AuthRead, Zenon DEF IInv
<1>5. seen' = cred
      BY <1>1, <1>3, <1>4, Configured, Zenon DEF IInv
<1> HIDE DEF n, m
<1>6. 3 + n + m \in Nat /\ Len(toProxy) <= 3 + n + m
      BY <1>4
<1>7. <<1, status>> \in Seq(Byte)
      BY DEF Byte
<1>8. /\ fromProxy' \in Seq(Byte) /\ arrived' \in 0 .. Len(fromProxy')
      /\ server' = StatusNext(status) /\ toProxy' = <<>> /\ pc' = pc
      /\ closed' = closed
      /\ InStream(<<>>) => Coming(fromProxy', closed', <<1, status>>)
      BY <1>1, <1>6, <1>7, AnswerTypes, Zenon DEF IInv
<1>9. StatusNext(status) \in {"request", "refused"}
      BY DEF StatusNext
<1>10. UNCHANGED <<cred, ip, relay, enc_buf>>
      BY DEF CheckCredentials, Answer, dataVars
<1>11. TypeOK'
      BY <1>1, <1>8, <1>9, <1>10, Messages, AnsweredTypes DEF IInv, TypeOK
<1>12. Sent'
      BY <1>8, <1>9 DEF Sent
<1>13. Received'
  <2>1. pc \notin {"connect", "method", "head", "ipv4", "ipv6", "port", "relay"}
        BY <1>1, <1>2 DEF IInv, Received, Bound
  <2>2. pc = "auth" => InStream(<<>>)
        BY <1>2 DEF IInv, Received
  <2>3. pc' = "auth" => \E t \in {0, 1} :
                           Coming(fromProxy', closed', <<1, t>>) /\ server' = StatusNext(t)
        BY <1>8, <2>2, Zenon
  <2> QED
      BY <1>8, <2>1, <2>3 DEF Received, InStream
<1>14. Relay' /\ CredentialsRead'
      BY <1>1, <1>5, <1>8, <1>9, <1>10 DEF IInv, Relay, Bound, CredentialsRead
<1> QED
    BY <1>11, <1>12, <1>13, <1>14 DEF IInv

(* The proxy answers the request. *)
LEMMA RequestAnswered ==
  ASSUME IInv, server = "request", Len(toProxy) >= 10,
         NEW bytes \in Seq(Byte), NEW next, Answer(10, bytes, next)
  PROVE  /\ fromProxy' \in Seq(Byte) /\ arrived' \in 0 .. Len(fromProxy')
         /\ server' = next /\ toProxy' = <<>> /\ pc' = pc /\ closed' = closed
         /\ pc = "head" => Coming(fromProxy', closed', bytes)
         /\ pc \notin {"connect", "method", "auth", "ipv4", "ipv6", "port", "relay"}
         /\ UNCHANGED <<cred, ip, relay, enc_buf>>
<1>1. toProxy # <<>>
      OBVIOUS
<1>2. Len(toProxy) <= 10
  <2>1. toProxy = Request
        BY <1>1 DEF IInv, Sent
  <2>2. Len(Request) <= 10
        BY DEF Request
  <2> QED
      BY <2>1, <2>2, Zenon
<1>3. pc \notin {"connect", "method", "auth", "ipv4", "ipv6", "port", "relay"}
      BY <1>1 DEF IInv, Received, Bound
<1>4. pc = "head" => InStream(<<>>)
      BY DEF IInv, Received, Bound
<1>5. 10 \in Nat
      OBVIOUS
<1>6. /\ fromProxy' \in Seq(Byte) /\ arrived' \in 0 .. Len(fromProxy')
      /\ server' = next /\ toProxy' = <<>> /\ pc' = pc /\ closed' = closed
      /\ InStream(<<>>) => Coming(fromProxy', closed', bytes)
      BY <1>2, <1>5, AnswerTypes, Zenon DEF IInv
<1>7. UNCHANGED <<cred, ip, relay, enc_buf>>
      BY DEF Answer, dataVars
<1> QED
    BY <1>3, <1>4, <1>6, <1>7, Zenon

LEMMA BindRelayStep ==
  ASSUME IInv, NEW a \in Binds, BindRelay(a)
  PROVE  IInv'
<1> DEFINE head == <<5, 0, 0, Family(a.ip)>>
           p == to_be_bytes(a.port)
<1>1. a.ip \in Seq(Byte) /\ a.port \in Ports /\ a # None
      BY SocksAssumption DEF Ips
<1>2. head \in Seq(Byte) /\ p \in Seq(Byte)
      BY <1>1, BigEndian DEF Family, Byte
<1>3. /\ server = "request" /\ Len(toProxy) >= 10
      /\ Answer(10, (head \o a.ip) \o p, "bound")
      /\ bound' = a /\ seen' = seen
      BY DEF BindRelay
<1> HIDE DEF head, p
<1>4. (head \o a.ip) \o p \in Seq(Byte)
      BY <1>1, <1>2, ConcatBytes, Zenon
<1>5. (head \o a.ip) \o p = head \o (a.ip \o (p \o <<>>))
  <2>1. p \o <<>> = p
        BY <1>2, ConcatEmptySeq
  <2>2. (head \o a.ip) \o p = head \o (a.ip \o p)
        BY <1>1, <1>2, AssocBytes, Zenon
  <2> QED
      BY <2>1, <2>2, Zenon
<1>6. /\ fromProxy' \in Seq(Byte) /\ arrived' \in 0 .. Len(fromProxy')
      /\ server' = "bound" /\ toProxy' = <<>> /\ pc' = pc /\ closed' = closed
      /\ pc = "head" => Coming(fromProxy', closed', (head \o a.ip) \o p)
      /\ pc \notin {"connect", "method", "auth", "ipv4", "ipv6", "port", "relay"}
      /\ UNCHANGED <<cred, ip, relay, enc_buf>>
      BY <1>3, <1>4, RequestAnswered, Zenon
<1>7. TypeOK'
      BY <1>3, <1>6, Messages, AnsweredTypes DEF IInv
<1>8. Sent'
      BY <1>6 DEF Sent
<1>9. Received'
  <2>1. (Head4 \o IpAndMore)' = head \o (a.ip \o (p \o <<>>))
        BY <1>3, <1>6, Zenon DEF Head4, IpAndMore, PortAndMore, head, p
  <2>2. pc' = "head" => InStream(Head4 \o IpAndMore)'
        BY <1>5, <1>6, <2>1, Zenon DEF InStream
  <2> QED
      BY <1>6, <2>2 DEF Received, Bound
<1>10. Relay' /\ CredentialsRead'
      BY <1>1, <1>3, <1>6 DEF IInv, Relay, Bound, CredentialsRead
<1> QED
    BY <1>7, <1>8, <1>9, <1>10 DEF IInv

LEMMA RefuseStep ==
  ASSUME IInv, NEW reply \in Refusals, Refuse(reply)
  PROVE  IInv'
<1>1. /\ server = "request" /\ Len(toProxy) >= 10 /\ Answer(10, reply, "refused")
      /\ bound' = bound /\ seen' = seen /\ reply \in Seq(Byte)
      BY Messages DEF Refuse
<1>2. /\ fromProxy' \in Seq(Byte) /\ arrived' \in 0 .. Len(fromProxy')
      /\ server' = "refused" /\ toProxy' = <<>> /\ pc' = pc /\ closed' = closed
      /\ pc = "head" => Coming(fromProxy', closed', reply)
      /\ pc \notin {"connect", "method", "auth", "ipv4", "ipv6", "port", "relay"}
      /\ UNCHANGED <<cred, ip, relay, enc_buf>>
      BY <1>1, RequestAnswered, Zenon
<1>3. TypeOK'
      BY <1>1, <1>2, Messages, AnsweredTypes DEF IInv, TypeOK
<1>4. Sent'
      BY <1>2 DEF Sent
<1>5. Received'
  <2>1. pc' = "head" => \E r \in Refusals : InStream(r)'
        BY <1>2, Zenon DEF InStream
  <2> QED
      BY <1>2, <2>1 DEF Received
<1>6. Relay' /\ CredentialsRead'
      BY <1>1, <1>2 DEF IInv, Relay, Bound, CredentialsRead
<1> QED
    BY <1>3, <1>4, <1>5, <1>6 DEF IInv

(* What the proxy says after its reply comes after the reply. *)
LEMMA SaysMoreStep ==
  ASSUME IInv, SaysMore
  PROVE  IInv'
<1> DEFINE p == to_be_bytes(bound.port)
<1>1. /\ server = "bound" /\ Answer(0, <<0>>, "talkative") /\ 0 \in Nat
      /\ UNCHANGED <<cred, seen, bound, ip, relay, enc_buf>>
      BY DEF SaysMore, Answer, dataVars
<1>2. toProxy = <<>> /\ Len(toProxy) <= 0
      BY <1>1 DEF IInv, Sent
<1>3. <<0>> \in Seq(Byte) /\ <<>> \in Seq(Byte)
      BY Messages
<1>4. /\ fromProxy' \in Seq(Byte) /\ arrived' \in 0 .. Len(fromProxy')
      /\ server' = "talkative" /\ toProxy' = <<>> /\ pc' = pc /\ closed' = closed
      /\ \A full \in Seq(Byte) :
           InStream(full) => Coming(fromProxy', closed', full \o <<0>>)
      BY <1>1, <1>2, <1>3, AnswerTypes, Zenon DEF IInv
<1>5. /\ bound.ip \in Seq(Byte) /\ p \in Seq(Byte) /\ Head4 \in Seq(Byte)
      /\ PortAndMore \in Seq(Byte) /\ IpAndMore \in Seq(Byte)
      /\ Head4 \o IpAndMore \in Seq(Byte)
  <2>1. Bound
        BY <1>1 DEF Bound
  <2> QED
      BY <2>1, ReplyPieces, BigEndian, ConcatBytes DEF IInv
<1>6. TypeOK'
      BY <1>1, <1>3, <1>4, AnsweredTypes DEF IInv, TypeOK
<1>7. Sent'
      BY <1>4, Zenon DEF Sent
<1>8. Received'
  <2> HIDE DEF p
  <2>0. PICK z \in Seq(Byte) : z = <<0>>
        BY <1>3, Zenon
  <2>1. PortAndMore = p /\ PortAndMore' = p \o <<0>>
    <3>1. p \o <<>> = p
          BY <1>5, ConcatEmptySeq
    <3> QED
        BY <1>1, <1>4, <3>1 DEF PortAndMore, p
  <2>2. IpAndMore' = IpAndMore \o <<0>>
    <3>1. IpAndMore = bound.ip \o p /\ IpAndMore' = bound.ip \o (p \o <<0>>)
          BY <1>1, <2>1, Zenon DEF IpAndMore
    <3>2. bound.ip \in Seq(Byte) /\ p \in Seq(Byte)
          BY <1>5
    <3>3. (bound.ip \o p) \o z = bound.ip \o (p \o z)
          BY <3>2, AssocBytes, Zenon
    <3> QED
        BY <2>0, <3>1, <3>3, Zenon
  <2>3. (Head4 \o IpAndMore)' = (Head4 \o IpAndMore) \o <<0>>
    <3>1. Head4' = Head4
          BY <1>1 DEF Head4
    <3>2. Head4 \in Seq(Byte) /\ IpAndMore \in Seq(Byte)
          BY <1>5
    <3>3. (Head4 \o IpAndMore) \o z = Head4 \o (IpAndMore \o z)
          BY <3>2, AssocBytes, Zenon
    <3> QED
        BY <2>0, <2>2, <3>1, <3>3, Zenon
  <2>4. /\ InStream(PortAndMore) => InStream(PortAndMore)'
        /\ InStream(IpAndMore) => InStream(IpAndMore)'
        /\ InStream(Head4 \o IpAndMore) => InStream(Head4 \o IpAndMore)'
        BY <1>4, <1>5, <2>1, <2>2, <2>3, Zenon DEF InStream
  <2>5. pc \notin {"connect", "method", "auth"}
    <3>1. \A reply \in MethodReplies : MethodNext(reply) # "bound"
          BY DEF MethodNext
    <3>2. \A status \in {0, 1} : StatusNext(status) # "bound"
          BY DEF StatusNext
    <3> QED
        BY <1>1, <3>1, <3>2, Zenon DEF IInv, Received
  <2>6. pc = "head" => InStream(Head4 \o IpAndMore)
        BY <1>1 DEF IInv, Received
  <2> QED
      BY <1>1, <1>4, <2>4, <2>5, <2>6 DEF IInv, Received, Bound
<1>9. Relay' /\ CredentialsRead'
      BY <1>1, <1>4 DEF IInv, Relay, Bound, CredentialsRead
<1> QED
    BY <1>6, <1>7, <1>8, <1>9 DEF IInv

-----------------------------------------------------------------------------
(* The handshake *)

LEMMA InitIInv == Init => IInv
<1> SUFFICES ASSUME Init PROVE IInv
    OBVIOUS
<1>1. <<>> \in Seq(Byte) /\ Len(<<>>) = 0
      BY Messages
<1>2. TypeOK
  <2>1. closed \in BOOLEAN
        BY Zenon DEF Init
  <2>2. arrived \in 0 .. Len(fromProxy)
        BY DEF Init
  <2> QED
      BY <1>1, <2>1, <2>2 DEF Init, TypeOK, Handshake
<1>3. Sent
      BY DEF Init, Sent
<1>4. InStream(<<>>)
      BY DEF Init, InStream, Coming
<1>5. Received
      BY <1>4 DEF Init, Received
<1>6. Relay /\ CredentialsRead
      BY DEF Init, Relay, Bound, CredentialsRead
<1> QED
    BY <1>2, <1>3, <1>5, <1>6 DEF IInv

LEMMA NextIInv == IInv /\ [Next]_vars => IInv'
<1> SUFFICES ASSUME IInv, [Next]_vars PROVE IInv'
    OBVIOUS
<1>1. ASSUME Proxy PROVE IInv'
      BY <1>1, ChooseMethodStep, CheckCredentialsStep, BindRelayStep,
         RefuseStep, SaysMoreStep, ProxyClosesStep, Zenon
      DEF Proxy
<1>2. CASE Arrive
      BY <1>2, ArriveStep
<1>3. CASE ConnectFails \/ ReadFails \/ TimedOut \/ ControlClosed \/ SessionEnds
      BY <1>3, EndStep
      DEF ConnectFails, ReadFails, TimedOut, ControlClosed, SessionEnds
<1>4. ASSUME Associate PROVE IInv'
      BY <1>3, <1>4, ConnectedStep, ReadMethodStep, ReadAuthStep, ReadHeadStep,
         ReadIpStep, ReadDomainStep, ReadPortStep, Zenon DEF Associate
<1>5. ASSUME NEW buf \in Frames, ReceiveDatagram(buf) PROVE IInv'
      BY <1>5, SessionStep DEF ReceiveDatagram, IInv, TypeOK
<1>6. ASSUME Session PROVE IInv'
      BY <1>3, <1>5, <1>6, SendDatagramStep, ControlDataStep, Zenon DEF Session
<1>7. CASE UNCHANGED vars
  <2>1. enc_buf' \in Seq(Byte)
        BY <1>7 DEF IInv, TypeOK, vars, dataVars
  <2> QED
      BY <1>7, <2>1, SessionStep DEF vars
<1> QED
    BY <1>1, <1>2, <1>4, <1>6, <1>7 DEF Next

LEMMA InductiveInvariant == Spec => []IInv
BY InitIInv, NextIInv, PTL DEF Spec

(* The types, for every proxy: whatever it replies, the session sends its
   datagrams to an address of one of the two families.                     *)
THEOREM TypeCorrect == Spec => []TypeOK
<1>1. IInv => TypeOK
      BY DEF IInv
<1> QED
    BY <1>1, InductiveInvariant, PTL

(* The length bytes of negotiate_auth carry every pair of credentials that
   Config::validate lets pass: the proxy reads those that are configured.  *)
THEOREM ProxyReadsCredentials == Spec => []CredentialsRead
<1>1. IInv => CredentialsRead
      BY DEF IInv
<1> QED
    BY <1>1, InductiveInvariant, PTL

(* The reads of udp_associate stay in step with the proxy's replies, however
   these arrive and wherever the connection is reset: no byte of the
   handshake is left when a session starts.                                *)
THEOREM HandshakeStaysInStep == Spec => []HandshakeInStep
<1>1. IInv => HandshakeInStep
  <2> SUFFICES ASSUME IInv PROVE HandshakeInStep
      OBVIOUS
  <2>1. pc = "relay" => Bound /\ toProxy = <<>>
        BY DEF IInv, Received, Sent, Bound
  <2>2. InStream(<<>>) => fromProxy = <<>>
        BY EmptySeq DEF IInv, TypeOK, InStream, Coming
  <2> QED
      BY <2>1, <2>2 DEF IInv, Received, Sent, Bound, HandshakeInStep
<1> QED
    BY <1>1, InductiveInvariant, PTL

-----------------------------------------------------------------------------
(* The refinement of Association *)

Status == IF pc \in Handshake THEN "pending"
            ELSE IF pc = "relay" THEN "relay" ELSE "over"

(* Steps that change nothing of what the caller is promised. *)
LEMMA Stutter ==
  ASSUME Status' = Status, bound' = bound, relay' = relay
  PROVE  UNCHANGED Abstract!vars
BY Zenon DEF Abstract!vars, Status

LEMMA FailRefines ==
  ASSUME pc \in Handshake, pc' = "failed", bound' = bound, relay' = relay
  PROVE  Abstract!Next
<1>1. Abstract!Fail
      BY DEF Abstract!Fail, Handshake
<1> QED
    BY <1>1 DEF Abstract!Next

LEMMA EndRefines ==
  ASSUME pc = "relay", pc' = "ended", bound' = bound, relay' = relay
  PROVE  Abstract!Next
<1>1. Abstract!End
      BY DEF Abstract!End, Handshake
<1> QED
    BY <1>1 DEF Abstract!Next

LEMMA PortRefines ==
  ASSUME IInv, ReadPort
  PROVE  Abstract!Next
<1>1. Bound /\ relay' = normalize_relay(bound) /\ bound # None
      BY PortRead DEF IInv, Relay
<1>2. normalize_relay(bound) = Abstract!Reachable(bound)
      BY Zenon DEF normalize_relay, is_unspecified, Abstract!Reachable
<1>3. pc = "port" /\ pc' = "relay" /\ bound' = bound
      BY DEF ReadPort, proxyVars
<1>4. Abstract!Establish
      BY <1>1, <1>2, <1>3 DEF Abstract!Establish, Handshake
<1> QED
    BY <1>4 DEF Abstract!Next

LEMMA BindRefines ==
  ASSUME IInv, NEW a \in Binds, BindRelay(a)
  PROVE  Abstract!Next
<1>1. server = "request" /\ bound' = a /\ pc' = pc /\ relay' = relay
      BY DEF BindRelay, Answer
<1>2. bound = None /\ pc # "relay"
      BY <1>1 DEF IInv, Relay, Received, Bound
<1>3. Abstract!Bind(a)
      BY <1>1, <1>2 DEF Abstract!Bind
<1> QED
    BY <1>3 DEF Abstract!Next

LEMMA StepRefines ==
  ASSUME IInv, [Next]_vars
  PROVE  [Abstract!Next]_Abstract!vars
<1> DEFINE Quiet == pc' = pc /\ bound' = bound /\ relay' = relay
<1>1. ASSUME Quiet PROVE UNCHANGED Abstract!vars
      BY <1>1, Stutter DEF Status
<1>2. ASSUME pc \in Handshake, pc' \in Handshake, bound' = bound, relay' = relay
      PROVE  UNCHANGED Abstract!vars
      BY <1>2, Stutter DEF Status
<1>3. ASSUME Proxy PROVE Abstract!Next \/ UNCHANGED Abstract!vars
  <2>1. ASSUME NEW reply, ChooseMethod(reply) \/ Refuse(reply) PROVE Quiet
        BY <2>1 DEF ChooseMethod, Refuse, Answer
  <2>2. ASSUME NEW status, CheckCredentials(status) PROVE Quiet
        BY <2>2 DEF CheckCredentials, Answer
  <2>3. ASSUME SaysMore \/ ProxyCloses PROVE Quiet
        BY <2>3 DEF SaysMore, ProxyCloses, Answer, proxyVars
  <2> HIDE DEF Quiet
  <2> QED
      BY <1>1, <1>3, <2>1, <2>2, <2>3, BindRefines, Zenon DEF Proxy
<1>4. ASSUME Arrive PROVE UNCHANGED Abstract!vars
      BY <1>1, <1>4 DEF Arrive, proxyVars
<1>5. ASSUME Associate PROVE Abstract!Next \/ UNCHANGED Abstract!vars
  <2>1. CASE Connected \/ ReadIp
        BY <1>2, <2>1 DEF Connected, ReadIp, Handshake, proxyVars
  <2>2. CASE ConnectFails \/ ReadDomain \/ ReadFails \/ TimedOut
    <3>1. pc \in Handshake /\ pc' = "failed" /\ bound' = bound /\ relay' = relay
          BY <2>2 DEF ConnectFails, ReadDomain, ReadFails, TimedOut, Handshake,
             proxyVars
    <3> QED
        BY <3>1, FailRefines
  <2>3. CASE ReadMethod \/ ReadAuth \/ ReadHead
    <3>1. /\ pc \in Handshake /\ pc' \in Handshake \cup {"failed"}
          /\ bound' = bound /\ relay' = relay
          BY <2>3
          DEF ReadMethod, ReadAuth, ReadHead, SendRequest, Handshake,
              proxyVars
    <3> QED
        BY <1>2, <3>1, FailRefines
  <2>4. CASE ReadPort
        BY <2>4, PortRefines
  <2> QED
      BY <1>5, <2>1, <2>2, <2>3, <2>4, Zenon DEF Associate
<1>6. ASSUME Session PROVE Abstract!Next \/ UNCHANGED Abstract!vars
  <2>1. ASSUME NEW target, NEW payload, SendDatagram(target, payload) PROVE Quiet
        BY <2>1 DEF SendDatagram, proxyVars
  <2>2. ASSUME NEW buf, ReceiveDatagram(buf) PROVE Quiet
        BY <2>2 DEF ReceiveDatagram, proxyVars
  <2>3. ASSUME ControlData PROVE Quiet
        BY <2>3 DEF ControlData, proxyVars
  <2>4. CASE ControlClosed \/ SessionEnds
        BY <2>4, EndRefines DEF ControlClosed, SessionEnds, proxyVars
  <2> HIDE DEF Quiet
  <2> QED
      BY <1>1, <1>6, <2>1, <2>2, <2>3, <2>4, Zenon DEF Session
<1>7. ASSUME UNCHANGED vars PROVE UNCHANGED Abstract!vars
      BY <1>1, <1>7 DEF vars, proxyVars
<1> QED
    BY <1>3, <1>4, <1>5, <1>6, <1>7 DEF Next

(* udp_associate implements what its caller is promised: it yields an address
   only after the proxy has bound a relay, and the one at which that relay is
   reached; the address never changes; a failure yields none.              *)
THEOREM RefinesAssociation == Spec => Abstract!Spec
<1>1. Init => Abstract!Init
      BY DEF Init, Abstract!Init, Handshake
<1>2. IInv /\ [Next]_vars => [Abstract!Next]_Abstract!vars
      BY StepRefines
<1> QED
    BY <1>1, <1>2, InductiveInvariant, PTL DEF Spec, Abstract!Spec

-----------------------------------------------------------------------------
(* The datagrams *)

AnyDatagram == [ip : Ips, port : Ports, payload : Seq(Byte)]

Header(rsv, fragment, kind, d) ==
  <<rsv, rsv, fragment, kind>> \o d.ip \o to_be_bytes(d.port)

(* Where the fields of a header are. *)
HasHeader(h, n, fragment, kind, d) ==
  /\ h \in Seq(Byte) /\ Len(h) = 6 + n
  /\ h[3] = fragment /\ h[4] = kind
  /\ At(h, 4, d.ip)
  /\ from_be_bytes(h[5 + n], h[6 + n]) = d.port

LEMMA HeaderFields ==
  ASSUME NEW d \in AnyDatagram, NEW rsv \in Byte, NEW fragment \in Byte,
         NEW kind \in Byte
  PROVE  HasHeader(Header(rsv, fragment, kind, d), Len(d.ip), fragment, kind, d)
<1>1. PICK h, n : h = Header(rsv, fragment, kind, d) /\ n = Len(d.ip) /\ n \in Nat
  <2>1. d.ip \in Seq(Byte)
        BY DEF AnyDatagram, Ips
  <2>2. Len(d.ip) \in Nat
        BY <2>1, LenProperties
  <2> QED
      BY <2>2, Zenon
<1>2. n \in Nat
      BY <1>1, Zenon
<1>3. PICK a \in Seq(Byte), u \in Seq(Byte), b \in Seq(Byte) :
        a = <<rsv, rsv, fragment, kind>> /\ u = d.ip /\ b = to_be_bytes(d.port)
  <2>1. <<rsv, rsv, fragment, kind>> \in Seq(Byte)
        BY DEF Byte
  <2>2. d.ip \in Seq(Byte) /\ d.port \in Ports
        BY DEF AnyDatagram, Ips
  <2> QED
      BY <2>1, <2>2, BigEndian, Zenon
<1>4. /\ Len(a) >= 4 /\ Len(a) <= 4 /\ a[3] = fragment /\ a[4] = kind
      /\ Len(b) >= 2 /\ Len(b) <= 2
      BY <1>3 DEF to_be_bytes
<1>5. from_be_bytes(b[1], b[2]) = d.port
      BY <1>3, BigEndian DEF AnyDatagram
<1>6. Len(u) = n /\ h = (a \o u) \o b
      BY <1>1, <1>3, Zenon DEF Header
<1> DEFINE v == a \o u
<1>7. /\ v \in Seq(Byte) /\ Len(v) = 4 + n /\ v[3] = fragment /\ v[4] = kind
      BY <1>2, <1>4, <1>6, ConcatBytes
<1>8. At(v, 4, u)
      BY <1>4, ConcatBytes DEF At
<1> HIDE DEF v
<1>9. h \in Seq(Byte) /\ Len(h) = 6 + n
  <2>1. h \in Seq(Byte) /\ Len(h) = Len(v) + Len(b)
        BY <1>6, <1>7, ConcatBytes DEF v
  <2> QED
      BY <1>2, <1>4, <1>7, <2>1
<1>10. h[3] = fragment /\ h[4] = kind
  <2>1. \A i \in 1 .. Len(v) : h[i] = v[i]
        BY <1>6, <1>7, ConcatBytes DEF v
  <2> QED
      BY <1>2, <1>7, <2>1
<1>11. At(h, 4, u)
  <2>1. h = v \o b
        BY <1>6 DEF v
  <2> QED
      BY <1>2, <1>6, <1>7, <1>8, <2>1, AtConcat
<1>12. h[5 + n] = b[1] /\ h[6 + n] = b[2]
  <2>1. At(h, 4 + n, b)
        BY <1>2, <1>6, <1>7, AtConcat, Zenon DEF v
  <2>2. /\ 1 \in 1 .. Len(b) /\ (4 + n) + 1 = 5 + n
        /\ 2 \in 1 .. Len(b) /\ (4 + n) + 2 = 6 + n
        BY <1>2, <1>4
  <2> QED
      BY <2>1, <2>2, Zenon DEF At
<1> QED
    BY <1>1, <1>3, <1>5, <1>9, <1>10, <1>11, <1>12, Zenon DEF HasHeader

(* decode_udp of a frame whose kind of address is known. *)
LEMMA Decoded ==
  ASSUME NEW buf \in Seq(Byte), Len(buf) >= 4, buf[3] = 0,
         NEW n \in Nat, (n = 4 /\ buf[4] = 1) \/ (n = 16 /\ buf[4] = 4)
  PROVE  decode_udp(buf) =
           IF Len(buf) < 6 + n THEN None
           ELSE [ip |-> SubSeq(buf, 5, 4 + n),
                 port |-> from_be_bytes(buf[5 + n], buf[6 + n]),
                 payload |-> SubSeq(buf, 7 + n, Len(buf))]
<1>1. /\ (IF buf[4] = 1 THEN 4 ELSE 16) = n
      /\ ~(Len(buf) < 4) /\ buf[4] \in {1, 4}
      BY LenProperties
<1> QED
    BY <1>1, Zenon DEF decode_udp

LEMMA Refused ==
  ASSUME NEW buf \in Seq(Byte),
         Len(buf) >= 4 => buf[3] # 0 \/ buf[4] \notin {1, 4}
  PROVE  decode_udp(buf) = None
<1>1. Len(buf) < 4 \/ Len(buf) >= 4
      BY LenProperties
<1> QED
    BY <1>1, Zenon DEF decode_udp

(* A beginning of a concatenation that has at least its first part. *)
LEMMA PrefixConcat ==
  ASSUME NEW h \in Seq(Byte), NEW s \in Seq(Byte),
         NEW k \in Nat, Len(h) <= k, k <= Len(h) + Len(s)
  PROVE  SubSeq(h \o s, 1, k) = h \o SubSeq(s, 1, k - Len(h))
<1> DEFINE f == SubSeq(h \o s, 1, k)
           t == SubSeq(s, 1, k - Len(h))
<1>1. Len(h) \in Nat /\ Len(s) \in Nat
      BY LenProperties
<1>2. h \o s \in Seq(Byte) /\ Len(h \o s) = Len(h) + Len(s)
      BY ConcatBytes
<1>3. /\ f \in Seq(Byte) /\ Len(f) = k
      /\ \A i \in 1 .. k : f[i] = (h \o s)[i]
      BY <1>1, <1>2, SubBytes
<1>4. /\ t \in Seq(Byte) /\ Len(t) = k - Len(h)
      /\ \A i \in 1 .. k - Len(h) : t[i] = s[i]
      BY <1>1, SubBytes
<1> HIDE DEF f, t
<1>5. /\ h \o t \in Seq(Byte) /\ Len(h \o t) = k
      BY <1>1, <1>4, ConcatBytes
<1>6. \A i \in 1 .. k : f[i] = (h \o t)[i]
  <2>1. \A i \in 1 .. Len(h) : (h \o s)[i] = h[i] /\ (h \o t)[i] = h[i]
        BY <1>4, ConcatBytes
  <2>2. \A i \in 1 .. Len(s) : (h \o s)[Len(h) + i] = s[i]
        BY ConcatBytes
  <2>3. \A i \in 1 .. Len(t) : (h \o t)[Len(h) + i] = t[i]
        BY <1>4, ConcatBytes
  <2>4. ASSUME NEW i \in 1 .. k, i > Len(h)
        PROVE  (h \o s)[i] = (h \o t)[i]
    <3>1. PICK j : j = i - Len(h)
          OBVIOUS
    <3>2. j \in 1 .. k - Len(h) /\ i = Len(h) + j
          BY <1>1, <2>4, <3>1
    <3>3. j \in 1 .. Len(s) /\ j \in 1 .. Len(t)
          BY <1>1, <1>4, <3>2
    <3> QED
        BY <1>4, <2>2, <2>3, <3>2, <3>3, Zenon
  <2>5. \A i \in 1 .. k : i \in 1 .. Len(h) \/ i > Len(h)
        BY <1>1
  <2> QED
      BY <1>3, <2>1, <2>4, <2>5, Zenon
<1>7. f = h \o t
      BY <1>3, <1>5, <1>6, SeqEqual, Zenon
<1> QED
    BY <1>7, Zenon DEF f, t

LEMMA FamilyOfIp ==
  ASSUME NEW octets \in Ips, NEW n, n = Len(octets)
  PROVE  /\ n \in Nat /\ Family(octets) \in Byte
         /\ (n = 4 /\ Family(octets) = 1) \/ (n = 16 /\ Family(octets) = 4)
<1>1. n = 4 \/ n = 16
      BY Zenon DEF Ips
<1>2. n = 4 => Family(octets) = 1
      BY Zenon DEF Family
<1>3. n = 16 => Family(octets) = 4
  <2>1. 16 # 4
        OBVIOUS
  <2> QED
      BY <2>1, Zenon DEF Family
<1>4. 4 \in Nat /\ 16 \in Nat /\ 1 \in Byte /\ 4 \in Byte
      BY DEF Byte
<1> QED
    BY <1>1, <1>2, <1>3, <1>4, Zenon

(* decode_udp inverts the wire format, for any payload. *)
LEMMA DecodeWire ==
  ASSUME NEW d \in AnyDatagram, NEW s \in Seq(Byte),
         NEW rsv \in Byte, NEW buf, buf = Header(rsv, 0, Family(d.ip), d) \o s
  PROVE  decode_udp(buf) = Datagram(d, s)
<1>1. PICK n : n = Len(d.ip)
      OBVIOUS
<1>2. PICK h : h = Header(rsv, 0, Family(d.ip), d)
      OBVIOUS
<1>3. d.ip \in Ips /\ d.ip \in Seq(Byte)
      BY DEF AnyDatagram, Ips
<1>4. /\ n \in Nat /\ Family(d.ip) \in Byte
      /\ (n = 4 /\ Family(d.ip) = 1) \/ (n = 16 /\ Family(d.ip) = 4)
      BY <1>1, <1>3, FamilyOfIp
<1>5. /\ h \in Seq(Byte) /\ Len(h) = 6 + n
      /\ h[3] = 0 /\ h[4] = Family(d.ip)
      /\ At(h, 4, d.ip)
      /\ from_be_bytes(h[5 + n], h[6 + n]) = d.port
  <2>1. 0 \in Byte
        BY DEF Byte
  <2>2. HasHeader(h, n, 0, Family(d.ip), d)
        BY <1>1, <1>2, <1>4, <2>1, HeaderFields, Zenon
  <2> QED
      BY <2>2, Zenon DEF HasHeader
<1>6. buf = h \o s
      BY <1>2
<1>7. /\ buf \in Seq(Byte) /\ Len(buf) = 6 + n + Len(s) /\ Len(s) \in Nat
  <2>1. buf \in Seq(Byte) /\ Len(buf) = Len(h) + Len(s) /\ Len(s) \in Nat
        BY <1>5, <1>6, ConcatBytes, LenProperties
  <2> QED
      BY <1>4, <1>5, <2>1, Zenon
<1>8. \A i \in 1 .. 6 + n : buf[i] = h[i]
      BY <1>5, <1>6, ConcatBytes
<1>9. buf[3] = 0 /\ buf[4] = Family(d.ip)
  <2>1. 3 \in 1 .. 6 + n /\ 4 \in 1 .. 6 + n
        BY <1>4
  <2> QED
      BY <1>5, <1>8, <2>1, Zenon
<1>10. from_be_bytes(buf[5 + n], buf[6 + n]) = d.port
  <2>1. 5 + n \in 1 .. 6 + n /\ 6 + n \in 1 .. 6 + n
        BY <1>4
  <2> QED
      BY <1>5, <1>8, <2>1, Zenon
<1>11. SubSeq(buf, 5, 4 + n) = d.ip
  <2>1. n \in Nat /\ Len(d.ip) = n
        BY <1>1, <1>4
  <2>2. At(buf, 4, d.ip)
    <3>1. \A i \in 1 .. n : 4 + i \in 1 .. 6 + n
          BY <2>1
    <3> QED
        BY <1>5, <1>8, <2>1, <3>1, Zenon DEF At
  <2>3. 4 \in Nat /\ 4 + Len(d.ip) <= Len(buf) /\ 4 + 1 = 5
        BY <1>7, <2>1
  <2>4. SubSeq(buf, 4 + 1, 4 + Len(d.ip)) = d.ip
        BY <1>3, <1>7, <2>2, <2>3, SubAt, Zenon
  <2> QED
      BY <2>1, <2>3, <2>4, Zenon
<1>12. SubSeq(buf, 7 + n, Len(buf)) = s
  <2>1. SubSeq(buf, Len(h) + 1, Len(buf)) = s
        BY <1>5, <1>6, Rest
  <2>2. Len(h) + 1 = 7 + n
        BY <1>4, <1>5
  <2> QED
      BY <2>1, <2>2, Zenon
<1>13. ~(Len(buf) < 6 + n) /\ Len(buf) >= 4
      BY <1>4, <1>7
<1>14. decode_udp(buf) =
         [ip |-> SubSeq(buf, 5, 4 + n),
          port |-> from_be_bytes(buf[5 + n], buf[6 + n]),
          payload |-> SubSeq(buf, 7 + n, Len(buf))]
  <2>1. (n = 4 /\ buf[4] = 1) \/ (n = 16 /\ buf[4] = 4)
        BY <1>4, <1>9, Zenon
  <2> QED
      BY <1>4, <1>7, <1>9, <1>13, <2>1, Decoded, Zenon
<1> QED
    BY <1>10, <1>11, <1>12, <1>14, Zenon DEF Datagram

(* A frame cut inside its header is refused ... *)
LEMMA DecodeShort ==
  ASSUME NEW d \in AnyDatagram, NEW rsv \in Byte,
         NEW h, h = Header(rsv, 0, Family(d.ip), d),
         NEW s \in Seq(Byte), NEW k \in Nat, k < Len(h),
         NEW buf, buf = SubSeq(h \o s, 1, k)
  PROVE  decode_udp(buf) = None
<1>1. PICK n : n = Len(d.ip)
      OBVIOUS
<1>2. /\ n \in Nat /\ Family(d.ip) \in Byte
      /\ (n = 4 /\ Family(d.ip) = 1) \/ (n = 16 /\ Family(d.ip) = 4)
      BY <1>1, FamilyOfIp DEF AnyDatagram
<1>3. /\ h \in Seq(Byte) /\ Len(h) = 6 + n /\ h[3] = 0 /\ h[4] = Family(d.ip)
  <2>1. 0 \in Byte
        BY DEF Byte
  <2>2. HasHeader(h, n, 0, Family(d.ip), d)
        BY <1>1, <1>2, <2>1, HeaderFields, Zenon
  <2> QED
      BY <2>2, Zenon DEF HasHeader
<1>4. /\ buf \in Seq(Byte) /\ Len(buf) = k
      /\ \A i \in 1 .. k : buf[i] = h[i]
  <2>1. /\ h \o s \in Seq(Byte) /\ Len(h \o s) = Len(h) + Len(s)
        /\ \A i \in 1 .. Len(h) : (h \o s)[i] = h[i]
        BY <1>3, ConcatBytes
  <2>2. Len(h) \in Nat /\ Len(s) \in Nat
        BY <1>3, LenProperties, Zenon
  <2>3. /\ buf \in Seq(Byte) /\ Len(buf) = k
        /\ \A i \in 1 .. k : buf[i] = (h \o s)[i]
        BY <2>1, <2>2, SubBytes
  <2>4. \A i \in 1 .. k : i \in 1 .. Len(h)
        BY <2>2
  <2> QED
      BY <2>1, <2>3, <2>4, Zenon
<1>5. CASE k < 4
  <2>1. ~(Len(buf) >= 4)
        BY <1>4, <1>5
  <2> QED
      BY <1>4, <2>1, Refused, Zenon
<1>6. CASE k >= 4
  <2>1. buf[3] = 0 /\ buf[4] = Family(d.ip)
        BY <1>3, <1>4, <1>6
  <2>2. Len(buf) < 6 + n /\ Len(buf) >= 4
        BY <1>2, <1>3, <1>4, <1>6
  <2>3. (n = 4 /\ buf[4] = 1) \/ (n = 16 /\ buf[4] = 4)
        BY <1>2, <2>1, Zenon
  <2> QED
      BY <1>2, <1>4, <2>1, <2>2, <2>3, Decoded, Zenon
<1> QED
    BY <1>5, <1>6

(* ... and so are fragments, and datagrams of a domain. *)
LEMMA DecodeOther ==
  ASSUME NEW d \in AnyDatagram, NEW rsv \in Byte, NEW fragment \in Byte,
         NEW kind \in Byte, fragment # 0 \/ kind \notin {1, 4}
  PROVE  decode_udp(Wire(rsv, fragment, kind, d)) = None
<1>1. PICK n \in Nat : n = Len(d.ip)
      BY FamilyOfIp DEF AnyDatagram
<1>2. PICK h : h = Header(rsv, fragment, kind, d)
      OBVIOUS
<1>3. h \in Seq(Byte) /\ Len(h) = 6 + n /\ h[3] = fragment /\ h[4] = kind
  <2>1. HasHeader(h, n, fragment, kind, d)
        BY <1>1, <1>2, HeaderFields, Zenon
  <2> QED
      BY <2>1, Zenon DEF HasHeader
<1>4. Wire(rsv, fragment, kind, d) = h \o d.payload /\ d.payload \in Seq(Byte)
      BY <1>2, Zenon DEF Wire, Header, AnyDatagram
<1>5. /\ h \o d.payload \in Seq(Byte)
      /\ (h \o d.payload)[3] = fragment /\ (h \o d.payload)[4] = kind
      BY <1>3, <1>4, ConcatBytes
<1> QED
    BY <1>4, <1>5, Refused, Zenon

(* The datagrams that Meaning chooses from. *)
Cuts == UNION {{Datagram(e, p) : p \in Prefixes(e.payload)} : e \in Datagrams}

LEMMA DatagramFields ==
  ASSUME NEW t, NEW p
  PROVE  /\ Datagram(t, p).ip = t.ip /\ Datagram(t, p).port = t.port
         /\ Datagram(t, p).payload = p
BY Zenon DEF Datagram

LEMMA DatagramsTyped == Datagrams \subseteq AnyDatagram
<1>1. SUFFICES ASSUME NEW t \in Targets, NEW p \in Payloads
               PROVE  Datagram(t, p) \in AnyDatagram
      BY DEF Datagrams
<1>2. t.ip \in Ips /\ t.port \in Ports /\ p \in Seq(Byte)
      BY SocksAssumption, Zenon
<1> QED
    BY <1>2 DEF Datagram, AnyDatagram

LEMMA Shortened ==
  ASSUME NEW d \in AnyDatagram, NEW p \in Prefixes(d.payload)
  PROVE  p \in Seq(Byte) /\ Datagram(d, p) \in AnyDatagram
<1>1. d.ip \in Ips /\ d.port \in Ports /\ d.payload \in Seq(Byte)
      BY DEF AnyDatagram
<1>2. PICK n \in 0 .. Len(d.payload) : p = SubSeq(d.payload, 1, n)
      BY Zenon DEF Prefixes
<1>3. p \in Seq(Byte)
      BY <1>1, <1>2, SubBytes, LenProperties
<1> QED
    BY <1>1, <1>3 DEF Datagram, AnyDatagram

LEMMA CutsTyped == Cuts \subseteq AnyDatagram
<1>1. SUFFICES ASSUME NEW d \in Cuts PROVE d \in AnyDatagram
      OBVIOUS
<1>2. PICK e \in Datagrams : \E p \in Prefixes(e.payload) : d = Datagram(e, p)
      BY Zenon DEF Cuts
<1>3. PICK p \in Prefixes(e.payload) : d = Datagram(e, p)
      BY <1>2, Zenon
<1> QED
    BY <1>3, DatagramsTyped, Shortened, Zenon

LEMMA CutOf ==
  ASSUME NEW e \in Datagrams, NEW p \in Prefixes(e.payload)
  PROVE  Datagram(e, p) \in Cuts
<1> DEFINE S(d) == {Datagram(d, q) : q \in Prefixes(d.payload)}
<1>1. Datagram(e, p) \in S(e)
      OBVIOUS
<1> HIDE DEF S
<1>2. Datagram(e, p) \in UNION {S(d) : d \in Datagrams}
      BY <1>1
<1> QED
    BY <1>2 DEF Cuts, S

LEMMA WireOf ==
  ASSUME NEW d, NEW p, NEW rsv
  PROVE  Wire(rsv, 0, Family(Datagram(d, p).ip), Datagram(d, p)) =
           Header(rsv, 0, Family(d.ip), d) \o p
BY DatagramFields, Zenon DEF Wire, Header

(* A frame means at most what it is decoded to. *)
LEMMA MeaningDecoded ==
  ASSUME NEW reserved \in SUBSET Byte, NEW buf, NEW d \in Meaning(reserved, buf)
  PROVE  d \in AnyDatagram /\ decode_udp(buf) = d
<1>1. PICK rsv \in Byte : d \in Cuts /\ buf = Wire(rsv, 0, Family(d.ip), d)
      BY Zenon DEF Meaning, Cuts
<1>2. d \in AnyDatagram
      BY <1>1, CutsTyped, Zenon
<1>3. d.payload \in Seq(Byte) /\ d = Datagram(d, d.payload)
      BY <1>2 DEF AnyDatagram, Datagram
<1>4. buf = Header(rsv, 0, Family(d.ip), d) \o d.payload
      BY <1>1, Zenon DEF Wire, Header
<1> QED
    BY <1>2, <1>3, <1>4, DecodeWire, Zenon

LEMMA ReservedBytes == Reserved \subseteq Byte
BY DEF Reserved, Byte

LEMMA WholePrefix ==
  ASSUME NEW s \in Seq(Byte)
  PROVE  s \in Prefixes(s)
<1>1. Len(s) \in 0 .. Len(s) /\ SubSeq(s, 1, Len(s)) = s
      BY LenProperties, SubSeqFull
<1> QED
    BY <1>1, Zenon DEF Prefixes

LEMMA WireBytes ==
  ASSUME NEW d \in AnyDatagram, NEW rsv \in Byte
  PROVE  Wire(rsv, 0, Family(d.ip), d) \in Seq(Byte)
<1>1. d.ip \in Ips /\ d.payload \in Seq(Byte) /\ 0 \in Byte
      BY DEF AnyDatagram, Byte
<1>2. PICK h : h = Header(rsv, 0, Family(d.ip), d)
      OBVIOUS
<1>3. h \in Seq(Byte)
  <2>1. HasHeader(h, Len(d.ip), 0, Family(d.ip), d)
        BY <1>1, <1>2, FamilyOfIp, HeaderFields, Zenon
  <2> QED
      BY <2>1, Zenon DEF HasHeader
<1>4. Wire(rsv, 0, Family(d.ip), d) = h \o d.payload
      BY <1>2, Zenon DEF Wire, Header
<1> QED
    BY <1>1, <1>3, <1>4, ConcatBytes

LEMMA FrameDecoded ==
  ASSUME NEW buf \in Frames, decode_udp(buf) # None
  PROVE  decode_udp(buf) \in Meaning(Reserved, buf)
<1>1. PICK d \in Datagrams :
        buf \in Prefixes(Wire(0, 0, Family(d.ip), d)) \cup
                {Wire(rsv, 0, Family(d.ip), d) : rsv \in Reserved} \cup
                {Wire(0, 1, Family(d.ip), d), Wire(0, 0, 3, d)}
      BY Zenon DEF Frames
<1>2. d \in AnyDatagram /\ d.ip \in Ips /\ d.payload \in Seq(Byte)
      BY DatagramsTyped DEF AnyDatagram
<1>3. Family(d.ip) \in Byte
      BY <1>2, FamilyOfIp, Zenon
<1>4. PICK rsv \in Reserved : buf \in Prefixes(Wire(rsv, 0, Family(d.ip), d))
  <2>1. /\ 0 \in Byte /\ 1 \in Byte /\ 3 \in Byte /\ 1 # 0
        /\ 3 \notin {1, 4} /\ 0 \in Reserved
        BY DEF Byte, Reserved
  <2>2. \/ buf \in Prefixes(Wire(0, 0, Family(d.ip), d))
        \/ \E rsv \in Reserved : buf = Wire(rsv, 0, Family(d.ip), d)
        BY <1>1, <1>2, <1>3, <2>1, DecodeOther, Zenon
  <2>3. ASSUME NEW rsv \in Reserved, buf = Wire(rsv, 0, Family(d.ip), d)
        PROVE  buf \in Prefixes(buf)
        BY <1>2, <1>3, <2>3, WireBytes, WholePrefix, ReservedBytes, Zenon
  <2> QED
      BY <2>1, <2>2, <2>3, Zenon
<1>5. PICK h : h = Header(rsv, 0, Family(d.ip), d)
      OBVIOUS
<1>6. h \in Seq(Byte) /\ Wire(rsv, 0, Family(d.ip), d) = h \o d.payload
  <2>1. 0 \in Byte /\ rsv \in Byte
        BY ReservedBytes DEF Byte
  <2>2. HasHeader(h, Len(d.ip), 0, Family(d.ip), d)
        BY <1>2, <1>3, <1>5, <2>1, HeaderFields, Zenon
  <2> QED
      BY <1>5, <2>2, Zenon DEF HasHeader, Wire, Header
<1>7. PICK k \in 0 .. Len(h \o d.payload) : buf = SubSeq(h \o d.payload, 1, k)
      BY <1>4, <1>6, Zenon DEF Prefixes
<1>8. /\ Len(h) \in Nat /\ Len(d.payload) \in Nat /\ k \in Nat
      /\ k <= Len(h) + Len(d.payload)
      BY <1>2, <1>6, <1>7, ConcatBytes, LenProperties
<1>9. Len(h) <= k
  <2>1. SUFFICES k < Len(h) => FALSE
        BY <1>8
  <2> QED
      BY <1>2, <1>5, <1>7, <1>8, ReservedBytes, DecodeShort, Zenon
<1>10. PICK p : p = SubSeq(d.payload, 1, k - Len(h))
      OBVIOUS
<1>11. p \in Prefixes(d.payload)
  <2>1. k - Len(h) \in 0 .. Len(d.payload)
        BY <1>8, <1>9
  <2> QED
      BY <1>10, <2>1, Zenon DEF Prefixes
<1>12. p \in Seq(Byte)
      BY <1>2, <1>11, Shortened, Zenon
<1>13. buf = h \o p
      BY <1>2, <1>6, <1>7, <1>8, <1>9, <1>10, PrefixConcat, Zenon
<1>14. decode_udp(buf) = Datagram(d, p)
      BY <1>2, <1>5, <1>12, <1>13, ReservedBytes, DecodeWire, Zenon
<1>15. buf = Wire(rsv, 0, Family(Datagram(d, p).ip), Datagram(d, p))
      BY <1>5, <1>13, WireOf, Zenon
<1>16. Datagram(d, p) \in Cuts
      BY <1>11, CutOf, Zenon
<1> QED
    BY <1>14, <1>15, <1>16, Zenon DEF Meaning, Cuts

LEMMA FrameMeaning ==
  ASSUME NEW buf \in Frames
  PROVE  Meaning(Reserved, buf) =
           IF decode_udp(buf) = None THEN {} ELSE {decode_udp(buf)}
<1>1. None \notin AnyDatagram
      BY SocksAssumption, Zenon DEF AnyDatagram
<1>2. CASE decode_udp(buf) = None
      BY <1>1, <1>2, ReservedBytes, MeaningDecoded, Zenon
<1>3. CASE decode_udp(buf) # None
      BY <1>3, ReservedBytes, MeaningDecoded, FrameDecoded, Zenon
<1> QED
    BY <1>2, <1>3, Zenon

LEMMA EncodedMeaning ==
  ASSUME NEW t \in Targets, NEW p \in Payloads, NEW out
  PROVE  Meaning({0}, encode_udp(t, p, out)) = {Datagram(t, p)}
<1>1. PICK buf : buf = encode_udp(t, p, out)
      OBVIOUS
<1>2. Datagram(t, p) \in Datagrams
      BY DEF Datagrams
<1>3. p \in Prefixes(p) /\ p \in Seq(Byte)
  <2>1. p \in Seq(Byte)
        BY SocksAssumption, Zenon
  <2> QED
      BY <2>1, WholePrefix, Zenon
<1>4. /\ Datagram(t, p).payload = p
      /\ Datagram(t, p) = Datagram(Datagram(t, p), p)
      BY DEF Datagram
<1>5. Datagram(t, p) \in Cuts
      BY <1>2, <1>3, <1>4, CutOf, Zenon
<1>6. buf = Wire(0, 0, Family(Datagram(t, p).ip), Datagram(t, p))
      BY <1>1, DatagramFields, Zenon DEF Wire, encode_udp
<1>7. Datagram(t, p) \in Meaning({0}, buf)
      BY <1>5, <1>6, Zenon DEF Meaning, Cuts
<1> QED
  <2>1. {0} \in SUBSET Byte
        BY DEF Byte
  <2>2. decode_udp(buf) = Datagram(t, p)
        BY <1>7, <2>1, MeaningDecoded, Zenon
  <2>3. \A d \in Meaning({0}, buf) : decode_udp(buf) = d
        BY <2>1, MeaningDecoded, Zenon
  <2> QED
      BY <1>1, <1>7, <2>2, <2>3, Zenon

(* What session_task encodes is in the wire format of RFC 1928 and of nothing
   but the datagram asked for, whatever its buffer held. Of the frames that
   Frames lists, for any datagrams, it decodes those in the format to what
   they say, whatever their reserved bytes, and drops those cut inside the
   header, fragments, and those of a domain.                               *)
THEOREM DatagramsStayIntact == Spec => []DatagramsIntact
<1>1. Init => DatagramsIntact
      BY DEF Init, DatagramsIntact
<1>2. ASSUME DatagramsIntact, [Next]_vars PROVE DatagramsIntact'
  <2>1. ASSUME UNCHANGED dataVars PROVE DatagramsIntact'
        BY <1>2, <2>1, Zenon DEF dataVars, DatagramsIntact, Meaning
  <2>2. ASSUME NEW t \in Targets, NEW p \in Payloads, SendDatagram(t, p)
        PROVE  DatagramsIntact'
    <3>1. /\ enc_buf' = encode_udp(t, p, enc_buf) /\ asked' = Datagram(t, p)
          /\ frame' = frame /\ got' = got
          BY <2>2 DEF SendDatagram
    <3>2. Meaning({0}, enc_buf)' = {asked'}
          BY <3>1, EncodedMeaning DEF Meaning
    <3> QED
        BY <1>2, <3>1, <3>2 DEF DatagramsIntact, Meaning
  <2>3. ASSUME NEW buf \in Frames, ReceiveDatagram(buf) PROVE DatagramsIntact'
    <3>1. /\ frame' = buf /\ got' = decode_udp(buf)
          /\ enc_buf' = enc_buf /\ asked' = asked
          BY <2>3, Zenon DEF ReceiveDatagram
    <3> QED
        BY <1>2, <3>1, FrameMeaning DEF DatagramsIntact, Meaning
  <2>4. ASSUME Proxy PROVE UNCHANGED dataVars
        BY <2>4, Zenon
        DEF Proxy, ChooseMethod, CheckCredentials, BindRelay, Refuse,
            SaysMore, ProxyCloses, Answer
  <2>5. ASSUME Arrive \/ Associate PROVE UNCHANGED dataVars
        BY <2>5 DEF Arrive, Associate, Connected, ConnectFails, ReadMethod,
                    ReadAuth, ReadHead, ReadIp, ReadDomain, ReadPort,
                    ReadFails, TimedOut
  <2>6. ASSUME ControlData \/ ControlClosed \/ SessionEnds
        PROVE  UNCHANGED dataVars
        BY <2>6 DEF ControlData, ControlClosed, SessionEnds
  <2>7. ASSUME UNCHANGED vars PROVE UNCHANGED dataVars
        BY <2>7 DEF vars
  <2> QED
      BY <1>2, <2>1, <2>2, <2>3, <2>4, <2>5, <2>6, <2>7, Zenon
      DEF Next, Session
<1> QED
    BY <1>1, <1>2, PTL DEF Spec

=============================================================================
