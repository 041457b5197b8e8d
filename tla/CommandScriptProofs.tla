------------------------ MODULE CommandScriptProofs -------------------------
(***************************************************************************)
(* Proofs about CommandRoutes: the commands of its scripts. A script is a  *)
(* value of the state, so what is needed of apply, reload and teardown is  *)
(* stated about the commands that are left of it: which ones they are, and *)
(* for a reload in which order they come. The invariant that rests on this *)
(* is defined here, and its conjuncts about types and commands are proved. *)
(***************************************************************************)
EXTENDS CommandRoutes, TLAPS

-----------------------------------------------------------------------------
(* Scripts *)

IsScript(s) == s \in Seq(Range(s))
IsDel(x) == x.op = "del" /\ x.dst \in Dsts /\ x.via \in {"gw", "tun"}

(* A script of no commands. *)
LEMMA EmptyScript == IsScript(<<>>) /\ Range(<<>>) = {}
BY DEF IsScript, Range

(* A script of one command. *)
LEMMA OneCommand ==
  ASSUME NEW x
  PROVE  IsScript(<<x>>) /\ Range(<<x>>) = {x}
BY DEF IsScript, Range

(* What is left of a script when its first command has run. *)
LEMMA ScriptTail ==
  ASSUME NEW s, IsScript(s), s # <<>>
  PROVE  /\ Head(s) = s[1] /\ s[1] \in Range(s) /\ 1 \in DOMAIN s
         /\ IsScript(Tail(s))
         /\ Range(s) = {s[1]} \cup Range(Tail(s))
         /\ \A i \in DOMAIN Tail(s) : i + 1 \in DOMAIN s /\ Tail(s)[i] = s[i + 1]
         /\ DOMAIN Tail(s) \subseteq Nat \ {0}
<1> DEFINE t == Tail(s)
<1>1. /\ Len(s) \in Nat \ {0} /\ DOMAIN s = 1 .. Len(s)
      /\ Head(s) = s[1]
      /\ t \in Seq(Range(s)) /\ Len(t) = Len(s) - 1 /\ DOMAIN t = 1 .. Len(t)
  BY DEF IsScript
<1>2. \A i \in DOMAIN t : i + 1 \in DOMAIN s /\ t[i] = s[i + 1]
  BY <1>1 DEF IsScript
<1> HIDE DEF t
<1>3. t \in Seq(Range(t))
  <2>1. \A i \in 1 .. Len(t) : t[i] \in Range(t)
    BY <1>1 DEF Range
  <2> QED
    BY <2>1, <1>1
<1>4. Range(s) = {s[1]} \cup Range(t)
  <2>1. ASSUME NEW i \in DOMAIN s PROVE s[i] = s[1] \/ \E j \in DOMAIN t : s[i] = t[j]
    <3>1. CASE i = 1
       BY <3>1
    <3>2. CASE i # 1
       <4>1. i - 1 \in DOMAIN t /\ t[i - 1] = s[i]
         BY <3>2, <1>1, <1>2
       <4> QED BY <4>1
    <3> QED BY <3>1, <3>2
  <2>2. s[1] \in Range(s)
    BY <1>1 DEF Range
  <2> QED
    BY <2>1, <2>2, <1>2 DEF Range
<1>5. s[1] \in Range(s) /\ 1 \in DOMAIN s /\ DOMAIN t \subseteq Nat \ {0}
  BY <1>1 DEF Range
<1> QED
  BY <1>1, <1>2, <1>3, <1>4, <1>5 DEF IsScript, t

(* Two scripts, one after the other. *)
LEMMA Joined ==
  ASSUME NEW s, NEW t, IsScript(s), IsScript(t)
  PROVE  /\ IsScript(s \o t)
         /\ Range(s \o t) = Range(s) \cup Range(t)
         /\ \A i \in DOMAIN (s \o t) :
              \/ i \in DOMAIN s /\ (s \o t)[i] = s[i]
              \/ i - Len(s) \in DOMAIN t /\ (s \o t)[i] = t[i - Len(s)]
         /\ \A i \in DOMAIN s : i \in DOMAIN (s \o t) /\ (s \o t)[i] = s[i]
         /\ s \o t = <<>> => s = <<>> /\ t = <<>>
<1> DEFINE u == s \o t
           R == Range(s) \cup Range(t)
<1>1. s \in Seq(R) /\ t \in Seq(R)
  BY DEF IsScript
<1>2. /\ u \in Seq(R) /\ DOMAIN u = 1 .. Len(s) + Len(t)
      /\ Len(s) \in Nat /\ Len(t) \in Nat
      /\ DOMAIN s = 1 .. Len(s) /\ DOMAIN t = 1 .. Len(t)
      /\ \A i \in DOMAIN u : u[i] = IF i <= Len(s) THEN s[i] ELSE t[i - Len(s)]
  BY <1>1
<1> HIDE DEF u
<1>3. \A i \in DOMAIN u : \/ i \in DOMAIN s /\ u[i] = s[i]
                          \/ i - Len(s) \in DOMAIN t /\ u[i] = t[i - Len(s)]
  <2> TAKE i \in DOMAIN u
  <2>1. CASE i <= Len(s)
    <3>1. i \in 1 .. Len(s)
      BY <1>2, <2>1
    <3>2. u[i] = s[i]
      BY <1>2, <2>1
    <3>3. i \in DOMAIN s
      BY <1>2, <3>1
    <3> QED
      BY <3>2, <3>3
  <2>2. CASE ~(i <= Len(s))
    <3>1. i - Len(s) \in 1 .. Len(t)
      BY <1>2, <2>2
    <3> QED
      BY <1>2, <2>2, <3>1
  <2> QED
    BY <2>1, <2>2
<1>4. \A i \in DOMAIN s : i \in DOMAIN u /\ u[i] = s[i]
  BY <1>2
<1>5. ASSUME NEW i \in DOMAIN t PROVE i + Len(s) \in DOMAIN u /\ u[i + Len(s)] = t[i]
  BY <1>2
<1>6. Range(u) = R
  BY <1>3, <1>4, <1>5 DEF Range
<1>7. u = <<>> => s = <<>> /\ t = <<>>
  BY <1>1, <1>2 DEF u
<1> QED
  BY <1>2, <1>3, <1>4, <1>6, <1>7 DEF IsScript, u

(* The commands of a loop that adds routes. *)
LEMMA AddsRange ==
  ASSUME NEW list \in Seq(Dsts), NEW where \in SUBSET Dsts, NEW via, NEW strict
  PROVE  /\ IsScript(Adds(list, where, via, strict))
         /\ \A x \in Range(Adds(list, where, via, strict)) :
              \/ x.op = "skip"
              \/ /\ x.op = "add" /\ x.dst \in Range(list) \cap where
                 /\ x.via = via /\ x.strict = strict
<1> DEFINE s == Adds(list, where, via, strict)
<1>1. /\ DOMAIN list = 1 .. Len(list) /\ Len(list) \in Nat
      /\ \A i \in DOMAIN list : list[i] \in Range(list)
  BY DEF Range
<1>2. /\ s = [i \in 1 .. Len(list) |-> s[i]]
      /\ \A i \in 1 .. Len(list) : s[i] =
         IF list[i] \in where THEN Add(list[i], via, strict) ELSE Op("skip")
  BY <1>1 DEF Adds
<1> HIDE DEF s
<1>3. \A i \in 1 .. Len(list) :
              \/ s[i].op = "skip"
              \/ /\ s[i].op = "add" /\ s[i].dst \in Range(list) \cap where
                 /\ s[i].via = via /\ s[i].strict = strict
  BY <1>1, <1>2 DEF Add, Op
<1>4. IsScript(s)
  <2>1. \A i \in 1 .. Len(list) : s[i] \in Range(s)
    BY <1>2 DEF Range
  <2>2. s \in [1 .. Len(list) -> Range(s)]
    BY <2>1, <1>2
  <2> QED
    BY <1>1, <2>2 DEF IsScript
<1>5. DOMAIN s = 1 .. Len(list)
  BY <1>2
<1> QED
  BY <1>3, <1>4, <1>5 DEF s, Range

(* The commands of a loop that deletes routes. *)
LEMMA DelsRange ==
  ASSUME NEW list \in Seq(Dsts), NEW where \in SUBSET Dsts, NEW via
  PROVE  /\ IsScript(Dels(list, where, via))
         /\ \A x \in Range(Dels(list, where, via)) :
              \/ x.op = "skip"
              \/ x.op = "del" /\ x.dst \in Range(list) \cap where /\ x.via = via
         /\ \A d \in Range(list) \cap where :
              \E x \in Range(Dels(list, where, via)) :
                x.op = "del" /\ x.dst = d /\ x.via = via
<1> DEFINE s == Dels(list, where, via)
<1>1. /\ DOMAIN list = 1 .. Len(list) /\ Len(list) \in Nat
      /\ \A i \in DOMAIN list : list[i] \in Range(list)
  BY DEF Range
<1>2. /\ s = [i \in 1 .. Len(list) |-> s[i]]
      /\ \A i \in 1 .. Len(list) : s[i] =
         IF list[i] \in where THEN Del(list[i], via) ELSE Op("skip")
  BY <1>1 DEF Dels
<1> HIDE DEF s
<1>3. \A i \in 1 .. Len(list) :
              \/ s[i].op = "skip"
              \/ s[i].op = "del" /\ s[i].dst \in Range(list) \cap where /\ s[i].via = via
  BY <1>1, <1>2 DEF Del, Op
<1>4. IsScript(s)
  <2>1. \A i \in 1 .. Len(list) : s[i] \in Range(s)
    BY <1>2 DEF Range
  <2>2. s \in [1 .. Len(list) -> Range(s)]
    BY <2>1, <1>2
  <2> QED
    BY <1>1, <2>2 DEF IsScript
<1>5. DOMAIN s = 1 .. Len(list)
  BY <1>2
<1>6. ASSUME NEW d \in Range(list) \cap where
      PROVE  \E x \in Range(s) : x.op = "del" /\ x.dst = d /\ x.via = via
  <2>1. PICK i \in 1 .. Len(list) : list[i] = d
    BY <1>1 DEF Range
  <2>2. s[i].op = "del" /\ s[i].dst = d /\ s[i].via = via
    BY <1>2, <2>1 DEF Del
  <2>3. s[i] \in Range(s)
    BY <1>5, <2>1 DEF Range
  <2> QED
    BY <2>2, <2>3
<1> QED
  BY <1>3, <1>4, <1>5, <1>6 DEF s, Range

(* The destinations of a configuration, and the split routes. *)
LEMMA ConfigTypes ==
  /\ \A c \in Configs : /\ c.proxy \in Dsts /\ c.bypass \in Seq(Dsts)
                        /\ Range(c.bypass) \subseteq Dsts
                        /\ c.dns # None => Family[c.dns] \in Families
  /\ V4_SPLIT \in Seq(Dsts) /\ V6_SPLIT \in Seq(Dsts)
BY CommandRoutesAssumption DEF Range

(* What a script does: apply() on each platform, and reload() on macOS. *)
AppliesOnMacos(s, c, g) ==
  /\ IsScript(s) /\ s # <<>>
  /\ \/ s[1].op = "bail"
     \/ s[1].op = "add" /\ s[1].dst = c.proxy /\ s[1].via = "gw" /\ s[1].strict
  /\ \E x \in Range(s) : x.op = "applied"
  /\ c.dns # None => \E x \in Range(s) : x.op = "set"
  /\ \A x \in Range(s) :
       \/ x.op \in {"skip", "bail", "applied"}
       \/ x.op = "set" /\ x.server = c.dns /\ c.dns # None
       \/ x.op = "add" /\ x.dst \in Named(c) \cap HasGateway(g) /\ x.via = "gw"
       \/ /\ x.op = "add" /\ x.dst \in Range(V4_SPLIT) \cup Range(V6_SPLIT)
          /\ x.via = "tun"

AppliesOnWindows(s, c, g) ==
  /\ IsScript(s)
  /\ "v4" \in g =>
       /\ s # <<>> /\ s[1].op = "add"
       /\ s[1].dst = c.proxy /\ s[1].via = "gw" /\ s[1].strict
  /\ \E x \in Range(s) : x.op = "applied"
  /\ c.dns # None => \E x \in Range(s) : x.op = "static"
  /\ \A x \in Range(s) :
       \/ x.op \in {"skip", "applied"}
       \/ x.op = "static" /\ x.server = c.dns /\ c.dns # None
       \/ x.op = "add" /\ x.dst \in Named(c) /\ x.via = "gw" /\ "v4" \in g
       \/ /\ x.op = "add" /\ x.dst \in Range(V4_SPLIT) \cup Range(V6_SPLIT)
          /\ x.via = "tun"

ReloadsOnMacos(s, old, new, g) ==
  /\ IsScript(s)
  /\ \A x \in Range(s) :
       \/ x.op \in {"skip", "bail"}
       \/ /\ x.op = "del" /\ x.via = "gw"
          /\ \/ x.dst \in Range(old.bypass)
             \/ x.dst = old.proxy /\ old.proxy # new.proxy
       \/ /\ x.op = "add" /\ x.via = "gw" /\ x.strict /\ x.dst \in HasGateway(g)
          /\ \/ x.dst \in Range(new.bypass)
             \/ x.dst = new.proxy /\ old.proxy # new.proxy
       \/ x.op = "proxy_ip" /\ x.dst = new.proxy /\ old.proxy # new.proxy
       \/ x.op = "bypass" /\ x.list = new.bypass
       \/ x.op = "change" /\ x.server = new.dns
  /\ \E x \in Range(s) : x.op = "bypass"
  /\ old.proxy # new.proxy => \E x \in Range(s) : x.op = "proxy_ip"
  /\ old.dns # new.dns => \E x \in Range(s) : x.op = "change"
  /\ \A d \in Range(old.bypass) \cap HasGateway(g) :
       \/ d \in Range(new.bypass)
       \/ \E x \in Range(s) : x.op = "del" /\ x.dst = d /\ x.via = "gw"
  /\ \A i \in DOMAIN s : s[i].op = "proxy_ip" =>
       /\ i = 3
       /\ \/ s[1].op = "skip" /\ old.proxy \notin HasGateway(g)
          \/ s[1].op = "del" /\ s[1].dst = old.proxy
       /\ \/ s[2].op = "bail"
          \/ s[2].op = "add" /\ s[2].dst = new.proxy
  /\ \A i, j \in DOMAIN s : i < j =>
       /\ s[i].op # "change"
       /\ s[i].op = "bypass" => s[j].op = "change"

(* The script of apply() on macOS. *)
LEMMA MacosApply ==
  ASSUME NEW c \in Configs, NEW g \in SUBSET Families, NEW v, NEW s,
         s = macos_apply(c, g, v)
  PROVE  AppliesOnMacos(s, c, g)
<1> DEFINE yes == TRUE
           x1 == Pin(g, c.proxy)
           s1 == <<x1>>
           s2 == Adds(c.bypass, HasGateway(g), "gw", yes)
           s3 == Adds(V4_SPLIT, Dsts, "tun", yes)
           a4 == Adds(V6_SPLIT, Dsts, "tun", yes)
           s4 == When(v /\ "v6" \in g \cup {Family[c.proxy]}, a4)
           x5 == SetServer("set", c.dns)
           s5 == When(c.dns # None, <<x5>>)
           x6 == Op("applied")
           s6 == <<x6>>
<1> HIDE DEF yes
<1>1. HasGateway(g) \in SUBSET Dsts
  BY DEF HasGateway
<1>2. /\ IsScript(s1) /\ IsScript(s2) /\ IsScript(s3) /\ IsScript(a4)
      /\ IsScript(<<x5>>) /\ IsScript(s6)
  BY <1>1, ConfigTypes, AddsRange, OneCommand, Zenon
<1>3. IsScript(s4) /\ Range(s4) \subseteq Range(a4)
  BY <1>2, EmptyScript DEF When
<1>4. IsScript(s5) /\ Range(s5) = IF c.dns # None THEN {x5} ELSE {}
  BY <1>2, EmptyScript, OneCommand, Zenon DEF When
<1>5. Range(s6) = {x6}
  BY OneCommand
<1>6. 1 \in DOMAIN s1 /\ s1[1] = x1 /\ Range(s1) = {x1}
  BY OneCommand
<1>7. \/ x1.op = "bail"
      \/ /\ x1.op = "add" /\ x1.dst = c.proxy /\ x1.via = "gw"
         /\ x1.strict /\ c.proxy \in HasGateway(g)
  BY ConfigTypes DEF Pin, Add, Op, HasGateway
<1>8. \A x \in Range(s2) : \/ x.op = "skip"
                           \/ /\ x.op = "add" /\ x.via = "gw"
                              /\ x.dst \in Range(c.bypass) \cap HasGateway(g)
  BY <1>1, ConfigTypes, AddsRange
<1>9. \A x \in Range(s3) : \/ x.op = "skip"
                           \/ /\ x.op = "add" /\ x.via = "tun"
                              /\ x.dst \in Range(V4_SPLIT)
  BY ConfigTypes, AddsRange
<1>10. \A x \in Range(a4) : \/ x.op = "skip"
                            \/ /\ x.op = "add" /\ x.via = "tun"
                               /\ x.dst \in Range(V6_SPLIT)
  BY ConfigTypes, AddsRange
<1>11. x5.op = "set" /\ x5.server = c.dns /\ x6.op = "applied"
  BY DEF SetServer, Op
<1>12. s = s1 \o s2 \o s3 \o s4 \o s5 \o s6
  BY DEF macos_apply, yes
<1> HIDE DEF x1, s1, s2, s3, a4, s4, x5, s5, x6, s6
<1>13. /\ IsScript(s1 \o s2) /\ Range(s1 \o s2) = Range(s1) \cup Range(s2)
       /\ 1 \in DOMAIN (s1 \o s2) /\ (s1 \o s2)[1] = x1
  BY <1>2, <1>6, Joined
<1>14. /\ IsScript(s1 \o s2 \o s3)
       /\ Range(s1 \o s2 \o s3) = Range(s1) \cup Range(s2) \cup Range(s3)
       /\ 1 \in DOMAIN (s1 \o s2 \o s3) /\ (s1 \o s2 \o s3)[1] = x1
  BY <1>2, <1>13, Joined
<1>15. /\ IsScript(s1 \o s2 \o s3 \o s4)
       /\ Range(s1 \o s2 \o s3 \o s4)
            = Range(s1) \cup Range(s2) \cup Range(s3) \cup Range(s4)
       /\ 1 \in DOMAIN (s1 \o s2 \o s3 \o s4) /\ (s1 \o s2 \o s3 \o s4)[1] = x1
  BY <1>3, <1>14, Joined
<1>16. /\ IsScript(s1 \o s2 \o s3 \o s4 \o s5)
       /\ Range(s1 \o s2 \o s3 \o s4 \o s5)
            = Range(s1) \cup Range(s2) \cup Range(s3) \cup Range(s4) \cup Range(s5)
       /\ 1 \in DOMAIN (s1 \o s2 \o s3 \o s4 \o s5)
       /\ (s1 \o s2 \o s3 \o s4 \o s5)[1] = x1
  BY <1>4, <1>15, Joined
<1>17. /\ IsScript(s) /\ 1 \in DOMAIN s /\ s[1] = x1
       /\ Range(s) = Range(s1) \cup Range(s2) \cup Range(s3) \cup Range(s4)
                       \cup Range(s5) \cup Range(s6)
  BY <1>2, <1>12, <1>16, Joined
<1>18. s # <<>>
  BY <1>17, EmptyScript, <1>6
<1>19. \A x \in Range(s) :
              \/ x.op \in {"skip", "bail", "applied"}
              \/ x.op = "set" /\ x.server = c.dns /\ c.dns # None
              \/ /\ x.op = "add" /\ x.dst \in Named(c) \cap HasGateway(g)
                 /\ x.via = "gw"
              \/ /\ x.op = "add" /\ x.dst \in Range(V4_SPLIT) \cup Range(V6_SPLIT)
                 /\ x.via = "tun"
  BY <1>3, <1>4, <1>5, <1>7, <1>8, <1>9, <1>10, <1>11, <1>6, <1>17 DEF Named
<1> QED
  BY <1>4, <1>5, <1>7, <1>11, <1>17, <1>18, <1>19 DEF AppliesOnMacos

(* The script of apply() on Windows. *)
LEMMA WindowsApply ==
  ASSUME NEW c \in Configs, NEW g \in SUBSET Families, NEW v \in BOOLEAN, NEW s,
         s = windows_apply(c, g, v)
  PROVE  AppliesOnWindows(s, c, g)
<1> DEFINE yes == TRUE
           no == FALSE
           x1 == Add(c.proxy, "gw", yes)
           a1 == Adds(c.bypass, Dsts, "gw", no)
           s1 == When("v4" \in g, <<x1>> \o a1)
           s2 == Adds(V4_SPLIT, Dsts, "tun", yes)
           a3 == Adds(V6_SPLIT, Dsts, "tun", no)
           s3 == When(v, a3)
           x4 == SetServer("static", c.dns)
           s4 == When(c.dns # None, <<x4>>)
           x5 == Op("applied")
           s5 == <<x5>>
<1> HIDE DEF yes, no
<1>1. /\ IsScript(<<x1>>) /\ IsScript(a1) /\ IsScript(s2) /\ IsScript(a3)
      /\ IsScript(<<x4>>) /\ IsScript(s5)
  BY ConfigTypes, AddsRange, OneCommand, Zenon
<1>2. /\ x1.op = "add" /\ x1.dst = c.proxy /\ x1.via = "gw" /\ x1.strict
      /\ x4.op = "static" /\ x4.server = c.dns /\ x5.op = "applied"
  BY DEF Add, SetServer, Op, yes
<1>3. \A x \in Range(a1) : \/ x.op = "skip"
                           \/ /\ x.op = "add" /\ x.via = "gw"
                              /\ x.dst \in Range(c.bypass)
  BY ConfigTypes, AddsRange
<1>4. \A x \in Range(s2) : \/ x.op = "skip"
                           \/ /\ x.op = "add" /\ x.via = "tun"
                              /\ x.dst \in Range(V4_SPLIT)
  BY ConfigTypes, AddsRange
<1>5. \A x \in Range(a3) : \/ x.op = "skip"
                           \/ /\ x.op = "add" /\ x.via = "tun"
                              /\ x.dst \in Range(V6_SPLIT)
  BY ConfigTypes, AddsRange
<1>6. s = s1 \o s2 \o s3 \o s4 \o s5
  BY DEF windows_apply, yes, no
<1>7. IsScript(s3) /\ Range(s3) \subseteq Range(a3)
  BY <1>1, EmptyScript DEF When
<1>8. IsScript(s4) /\ Range(s4) = IF c.dns # None THEN {x4} ELSE {}
  BY <1>1, EmptyScript, OneCommand, Zenon DEF When
<1>9. Range(s5) = {x5}
  BY OneCommand
<1>10. /\ IsScript(<<x1>> \o a1) /\ Range(<<x1>> \o a1) = {x1} \cup Range(a1)
       /\ 1 \in DOMAIN (<<x1>> \o a1) /\ (<<x1>> \o a1)[1] = x1
  <2>1. 1 \in DOMAIN <<x1>> /\ <<x1>>[1] = x1
    OBVIOUS
  <2> HIDE DEF x1, a1
  <2> QED
    BY <1>1, <2>1, Joined, OneCommand
<1>11. /\ IsScript(s1)
       /\ "v4" \in g => 1 \in DOMAIN s1 /\ s1[1] = x1 /\ Range(s1) = {x1} \cup Range(a1)
       /\ "v4" \notin g => Range(s1) = {}
  BY <1>10, EmptyScript DEF When
<1> HIDE DEF s1, x1, a1, s2, a3, s3, x4, s4, x5, s5
<1>12. /\ IsScript(s1 \o s2) /\ Range(s1 \o s2) = Range(s1) \cup Range(s2)
       /\ "v4" \in g => 1 \in DOMAIN (s1 \o s2) /\ (s1 \o s2)[1] = x1
  BY <1>1, <1>11, Joined
<1>13. /\ IsScript(s1 \o s2 \o s3)
       /\ Range(s1 \o s2 \o s3) = Range(s1) \cup Range(s2) \cup Range(s3)
       /\ "v4" \in g => 1 \in DOMAIN (s1 \o s2 \o s3) /\ (s1 \o s2 \o s3)[1] = x1
  BY <1>7, <1>12, Joined
<1>14. /\ IsScript(s1 \o s2 \o s3 \o s4)
       /\ Range(s1 \o s2 \o s3 \o s4)
            = Range(s1) \cup Range(s2) \cup Range(s3) \cup Range(s4)
       /\ "v4" \in g => /\ 1 \in DOMAIN (s1 \o s2 \o s3 \o s4)
                        /\ (s1 \o s2 \o s3 \o s4)[1] = x1
  BY <1>8, <1>13, Joined
<1>15. /\ IsScript(s)
       /\ Range(s) = Range(s1) \cup Range(s2) \cup Range(s3) \cup Range(s4) \cup Range(s5)
       /\ "v4" \in g => 1 \in DOMAIN s /\ s[1] = x1
  BY <1>1, <1>6, <1>14, Joined
<1>16. "v4" \in g => s # <<>>
  BY <1>15, EmptyScript, <1>11
<1>17. \A x \in Range(s) :
              \/ x.op \in {"skip", "applied"}
              \/ x.op = "static" /\ x.server = c.dns /\ c.dns # None
              \/ x.op = "add" /\ x.dst \in Named(c) /\ x.via = "gw" /\ "v4" \in g
              \/ /\ x.op = "add" /\ x.dst \in Range(V4_SPLIT) \cup Range(V6_SPLIT)
                 /\ x.via = "tun"
  BY <1>2, <1>3, <1>4, <1>5, <1>7, <1>8, <1>9, <1>11, <1>15 DEF Named
<1> QED
  BY <1>2, <1>8, <1>9, <1>15, <1>16, <1>17 DEF AppliesOnWindows

(* The scripts of teardown(). *)
LEMMA SplitsDeleted ==
  /\ IsScript(DelSplits)
  /\ \A x \in Range(DelSplits) : \/ x.op = "skip"
                                 \/ IsDel(x)
<1> DEFINE s1 == Dels(V4_SPLIT, Dsts, "tun")
           a2 == Dels(V6_SPLIT, Dsts, "tun")
           s2 == When(tuning.capture_ipv6, a2)
<1>1. IsScript(s1) /\ IsScript(a2)
  BY ConfigTypes, DelsRange, Zenon
<1>2. \A x \in Range(s1) \cup Range(a2) : \/ x.op = "skip"
                                          \/ IsDel(x)
  BY ConfigTypes, DelsRange DEF IsDel
<1>3. IsScript(s2) /\ Range(s2) \subseteq Range(a2)
  BY <1>1, EmptyScript DEF When
<1>4. DelSplits = s1 \o s2
  BY DEF DelSplits
<1> HIDE DEF s1, a2, s2
<1> QED
  BY <1>1, <1>2, <1>3, <1>4, Joined

(* The routes that a teardown goes through. *)
LEMMA OwnedList ==
  ASSUME rc \in Controllers
  PROVE  /\ <<rc.proxy_ip>> \o rc.bypass \in Seq(Dsts)
         /\ Range(<<rc.proxy_ip>> \o rc.bypass) = {rc.proxy_ip} \cup Range(rc.bypass)
<1> DEFINE p == rc.proxy_ip
           b == rc.bypass
<1>1. p \in Dsts /\ b \in Seq(Dsts)
  BY DEF Controllers
<1>2. b \in Seq(Range(b))
  <2>1. \A i \in 1 .. Len(b) : b[i] \in Range(b)
    BY <1>1 DEF Range
  <2> QED
    BY <1>1, <2>1
<1> HIDE DEF p, b
<1>3. IsScript(<<p>>) /\ Range(<<p>>) = {p} /\ IsScript(b)
  BY <1>2, OneCommand DEF IsScript
<1>4. Range(<<p>> \o b) = {p} \cup Range(b)
  BY <1>3, Joined
<1>5. <<p>> \o b \in Seq(Dsts)
  BY <1>1
<1> QED
  BY <1>4, <1>5 DEF p, b

(* macOS deletes every route of the controller that has a gateway. *)
LEMMA MacosTeardown ==
  ASSUME rc \in Controllers, NEW s, s = macos_teardown
  PROVE  /\ IsScript(s)
         /\ \A x \in Range(s) : \/ x.op \in {"skip", "restore"}
                                \/ IsDel(x)
         /\ \E x \in Range(s) : x.op = "restore"
         /\ \A d \in HasGateway(rc.gateways) :
              d = rc.proxy_ip \/ d \in Range(rc.bypass)
                => \E x \in Range(s) : x.op = "del" /\ x.dst = d /\ x.via = "gw"
<1> DEFINE list == <<rc.proxy_ip>> \o rc.bypass
           g == HasGateway(rc.gateways)
           s1 == Dels(list, g, "gw")
           s2 == DelSplits
           x3 == Op("restore")
           s3 == <<x3>>
<1>1. list \in Seq(Dsts) /\ Range(list) = {rc.proxy_ip} \cup Range(rc.bypass)
  BY OwnedList
<1>2. g \in SUBSET Dsts
  BY DEF HasGateway
<1>3. s = s1 \o s2 \o s3
  BY DEF macos_teardown
<1>4. IsScript(s2) /\ \A x \in Range(s2) : \/ x.op = "skip"
                                           \/ IsDel(x)
  BY SplitsDeleted
<1>5. IsScript(s3) /\ Range(s3) = {x3} /\ x3.op = "restore"
  BY OneCommand DEF Op
<1> HIDE DEF list, g, s2, x3, s3
<1>6. /\ IsScript(s1)
      /\ \A x \in Range(s1) : x.op = "skip" \/ IsDel(x)
      /\ \A d \in Range(list) \cap g :
           \E x \in Range(s1) : x.op = "del" /\ x.dst = d /\ x.via = "gw"
  BY <1>1, <1>2, DelsRange DEF IsDel
<1> HIDE DEF s1
<1>7. IsScript(s1 \o s2) /\ Range(s1 \o s2) = Range(s1) \cup Range(s2)
  BY <1>4, <1>6, Joined
<1>8. IsScript(s) /\ Range(s) = Range(s1) \cup Range(s2) \cup Range(s3)
  BY <1>3, <1>5, <1>7, Joined
<1> QED
  BY <1>1, <1>4, <1>5, <1>6, <1>8 DEF g

(* Windows deletes all of them, if it has an IPv4 gateway. *)
LEMMA WindowsTeardown ==
  ASSUME rc \in Controllers, NEW s, s = windows_teardown
  PROVE  /\ IsScript(s)
         /\ \A x \in Range(s) : \/ x.op = "skip"
                                \/ IsDel(x)
                                \/ x.op = "dhcp" /\ x.server \in Families
         /\ "v4" \in rc.gateways =>
              \A d \in {rc.proxy_ip} \cup Range(rc.bypass) :
                \E x \in Range(s) : x.op = "del" /\ x.dst = d /\ x.via = "gw"
<1> DEFINE list == <<rc.proxy_ip>> \o rc.bypass
           a1 == Dels(list, Dsts, "gw")
           s1 == When("v4" \in rc.gateways, a1)
           s2 == DelSplits
           x3 == SetServer("dhcp", "v4")
           x4 == SetServer("dhcp", "v6")
           s3 == When(dns.configured, <<x3, x4>>)
<1>1. list \in Seq(Dsts) /\ Range(list) = {rc.proxy_ip} \cup Range(rc.bypass)
  BY OwnedList
<1>2. s = s1 \o s2 \o s3
  BY DEF windows_teardown
<1>3. IsScript(s2) /\ \A x \in Range(s2) : \/ x.op = "skip"
                                           \/ IsDel(x)
  BY SplitsDeleted
<1>4. /\ x3.op = "dhcp" /\ x3.server \in Families
      /\ x4.op = "dhcp" /\ x4.server \in Families
  BY DEF SetServer, Families
<1> HIDE DEF list, s2, x3, x4
<1>5. IsScript(<<x3, x4>>) /\ Range(<<x3, x4>>) = {x3, x4}
  BY DEF IsScript, Range
<1>6. IsScript(s3) /\ Range(s3) \subseteq {x3, x4}
  BY <1>5, EmptyScript DEF When
<1>7. /\ IsScript(a1)
      /\ \A x \in Range(a1) : x.op = "skip" \/ IsDel(x)
      /\ \A d \in Range(list) :
           \E x \in Range(a1) : x.op = "del" /\ x.dst = d /\ x.via = "gw"
  <2>1. Range(list) \subseteq Dsts
    BY <1>1 DEF Range
  <2> QED
    BY <1>1, <2>1, DelsRange DEF IsDel
<1> HIDE DEF a1, s3
<1>8. /\ IsScript(s1) /\ Range(s1) \subseteq Range(a1)
      /\ "v4" \in rc.gateways => Range(s1) = Range(a1)
  BY <1>7, EmptyScript DEF When
<1> HIDE DEF s1
<1>9. IsScript(s1 \o s2) /\ Range(s1 \o s2) = Range(s1) \cup Range(s2)
  BY <1>3, <1>8, Joined
<1>10. IsScript(s) /\ Range(s) = Range(s1) \cup Range(s2) \cup Range(s3)
  BY <1>2, <1>6, <1>9, Joined
<1> QED
  BY <1>1, <1>3, <1>4, <1>6, <1>7, <1>8, <1>10

(* Without a change of the proxy, reload() on macOS deletes and adds bypass
   routes, sets the list of them, and then the DNS server.                 *)
LEMMA BypassReload ==
  ASSUME NEW l1 \in Seq(Dsts), NEW l2 \in Seq(Dsts), NEW g, NEW b1, NEW b2,
         NEW yes,
         b1 = Dels(l1, Without(g, l2), "gw"), b2 = Adds(l2, Without(g, l1), "gw", yes)
  PROVE  /\ IsScript(b1) /\ IsScript(b2) /\ IsScript(b1 \o b2)
         /\ \A x \in Range(b1 \o b2) :
              \/ x.op = "skip"
              \/ x.op = "del" /\ x.dst \in Range(l1) /\ x.via = "gw"
              \/ /\ x.op = "add" /\ x.dst \in Range(l2) \cap HasGateway(g)
                 /\ x.via = "gw" /\ x.strict = yes
         /\ \A d \in Range(l1) \cap HasGateway(g) :
              \/ d \in Range(l2)
              \/ \E x \in Range(b1 \o b2) : x.op = "del" /\ x.dst = d /\ x.via = "gw"
<1> DEFINE w1 == Without(g, l2)
           w2 == Without(g, l1)
<1>1. w1 = HasGateway(g) \ Range(l2) /\ w2 \subseteq HasGateway(g)
  BY DEF Without, HasGateway
<1>2. w1 \in SUBSET Dsts /\ w2 \in SUBSET Dsts
  BY DEF Without, HasGateway
<1>3. b1 = Dels(l1, w1, "gw") /\ b2 = Adds(l2, w2, "gw", yes)
  OBVIOUS
<1> HIDE DEF w1, w2
<1>4. IsScript(b1) /\ IsScript(b2)
  <2>1. IsScript(Dels(l1, w1, "gw"))
    BY <1>2, DelsRange
  <2>2. IsScript(Adds(l2, w2, "gw", yes))
    BY <1>2, AddsRange
  <2> QED
    BY <1>3, <2>1, <2>2
<1>5. \A x \in Range(b1) :
         \/ x.op = "skip"
         \/ x.op = "del" /\ x.dst \in Range(l1) \cap w1 /\ x.via = "gw"
  BY <1>2, <1>3, DelsRange
<1>6. \A d \in Range(l1) \cap w1 :
         \E x \in Range(b1) : x.op = "del" /\ x.dst = d /\ x.via = "gw"
  BY <1>2, <1>3, DelsRange
<1>7. \A x \in Range(b2) :
         \/ x.op = "skip"
         \/ /\ x.op = "add" /\ x.dst \in Range(l2) \cap w2
            /\ x.via = "gw" /\ x.strict = yes
  BY <1>2, <1>3, AddsRange
<1>8. IsScript(b1 \o b2) /\ Range(b1 \o b2) = Range(b1) \cup Range(b2)
  BY <1>4, Joined
<1> QED
  BY <1>1, <1>4, <1>5, <1>6, <1>7, <1>8

(* The script of reload() on macOS. *)
LEMMA MacosReload ==
  ASSUME NEW old \in Configs, NEW new \in Configs, NEW g, NEW s,
         s = macos_reload(old, new, g)
  PROVE  ReloadsOnMacos(s, old, new, g)
<1> DEFINE yes == TRUE
           b1 == Dels(old.bypass, Without(g, new.bypass), "gw")
           b2 == Adds(new.bypass, Without(g, old.bypass), "gw", yes)
           b == b1 \o b2
           x1 == Unpin(g, old.proxy)
           x2 == Pin(g, new.proxy)
           x3 == SetProxyIp(new.proxy)
           w0 == <<x1, x2, x3>>
           w == When(old.proxy # new.proxy, w0)
           x4 == SetBypass(new.bypass)
           x5 == SetServer("change", new.dns)
           s5 == When(old.dns # new.dns, <<x5>>)
           u == w \o b
           r == u \o <<x4>>
<1> HIDE DEF yes
<1>1. /\ IsScript(b1) /\ IsScript(b2) /\ IsScript(b)
      /\ \A x \in Range(b) :
           \/ x.op = "skip"
           \/ x.op = "del" /\ x.dst \in Range(old.bypass) /\ x.via = "gw"
           \/ /\ x.op = "add" /\ x.dst \in Range(new.bypass) \cap HasGateway(g)
              /\ x.via = "gw" /\ x.strict
      /\ \A d \in Range(old.bypass) \cap HasGateway(g) :
           \/ d \in Range(new.bypass)
           \/ \E x \in Range(b) : x.op = "del" /\ x.dst = d /\ x.via = "gw"
  <2> DEFINE l1 == old.bypass
             l2 == new.bypass
  <2>1. l1 \in Seq(Dsts) /\ l2 \in Seq(Dsts)
    BY ConfigTypes
  <2>2. b1 = Dels(l1, Without(g, l2), "gw") /\ b2 = Adds(l2, Without(g, l1), "gw", yes)
    OBVIOUS
  <2> HIDE DEF l1, l2, b1, b2
  <2>3. /\ IsScript(b1) /\ IsScript(b2) /\ IsScript(b)
        /\ \A x \in Range(b) :
             \/ x.op = "skip"
             \/ x.op = "del" /\ x.dst \in Range(l1) /\ x.via = "gw"
             \/ /\ x.op = "add" /\ x.dst \in Range(l2) \cap HasGateway(g)
                /\ x.via = "gw" /\ x.strict = yes
        /\ \A d \in Range(l1) \cap HasGateway(g) :
             \/ d \in Range(l2)
             \/ \E x \in Range(b) : x.op = "del" /\ x.dst = d /\ x.via = "gw"
    BY <2>1, <2>2, BypassReload
  <2> QED
    BY <2>3 DEF l1, l2, yes
<1>2. /\ IsScript(w0) /\ DOMAIN w0 = 1 .. 3 /\ Range(w0) = {x1, x2, x3}
      /\ w0[1] = x1 /\ w0[2] = x2 /\ w0[3] = x3
  <2> HIDE DEF x1, x2, x3
  <2>1. DOMAIN w0 = 1 .. 3 /\ w0[1] = x1 /\ w0[2] = x2 /\ w0[3] = x3
    OBVIOUS
  <2>2. Range(w0) = {x1, x2, x3}
    BY DEF Range
  <2> QED
    BY <2>1, <2>2 DEF IsScript
<1>20. /\ \/ x1.op = "skip" /\ old.proxy \notin HasGateway(g)
          \/ x1.op = "del" /\ x1.dst = old.proxy /\ x1.via = "gw"
       /\ \/ x2.op = "bail"
          \/ /\ x2.op = "add" /\ x2.dst = new.proxy /\ x2.via = "gw"
             /\ x2.strict /\ new.proxy \in HasGateway(g)
       /\ x3.op = "proxy_ip" /\ x3.dst = new.proxy
  BY ConfigTypes DEF Pin, Unpin, Add, Del, Op, HasGateway, SetProxyIp
<1>3. s = w \o b1 \o b2 \o <<x4>> \o s5
  BY DEF macos_reload, yes
<1>4. x4.op = "bypass" /\ x4.list = new.bypass /\ x5.op = "change" /\ x5.server = new.dns
  BY DEF SetBypass, SetServer
<1>5. IsScript(<<x4>>) /\ Range(<<x4>>) = {x4} /\ IsScript(<<x5>>) /\ Range(<<x5>>) = {x5}
  BY OneCommand
<1> HIDE DEF b1, b2, x1, x2, x3, w0, x4, x5
<1>7. /\ IsScript(w)
      /\ old.proxy # new.proxy => w = w0
      /\ old.proxy = new.proxy => w = <<>>
  BY <1>2, EmptyScript DEF When
<1>8. /\ IsScript(s5)
      /\ old.dns # new.dns => s5 = <<x5>>
      /\ old.dns = new.dns => s5 = <<>>
  BY <1>5, EmptyScript DEF When
<1> HIDE DEF w, s5
<1>9. s = r \o s5
  <2> DEFINE R == Range(w) \cup Range(b1) \cup Range(b2)
  <2>1. w \in Seq(R) /\ b1 \in Seq(R) /\ b2 \in Seq(R)
    BY <1>1, <1>7 DEF IsScript
  <2>2. w \o b1 \o b2 = w \o (b1 \o b2)
    BY <2>1
  <2> QED
    BY <1>3, <2>2
<1> HIDE DEF b
<1>10. /\ IsScript(u) /\ Range(u) = Range(w) \cup Range(b)
       /\ \A i \in DOMAIN u : \/ i \in DOMAIN w /\ u[i] = w[i]
                              \/ u[i] \in Range(b)
       /\ \A i \in DOMAIN w : i \in DOMAIN u /\ u[i] = w[i]
  <2>1. \A i \in DOMAIN b : b[i] \in Range(b)
    BY DEF Range
  <2>2. IsScript(b) /\ IsScript(w)
    BY <1>1, <1>7
  <2>3. /\ IsScript(u) /\ Range(u) = Range(w) \cup Range(b)
        /\ \A i \in DOMAIN u : \/ i \in DOMAIN w /\ u[i] = w[i]
                               \/ i - Len(w) \in DOMAIN b /\ u[i] = b[i - Len(w)]
        /\ \A i \in DOMAIN w : i \in DOMAIN u /\ u[i] = w[i]
    BY <2>2, Joined
  <2> QED
    BY <2>1, <2>3
<1> HIDE DEF u
<1>11. /\ IsScript(r) /\ Range(r) = Range(u) \cup {x4}
       /\ \A i \in DOMAIN r : \/ i \in DOMAIN u /\ r[i] = u[i]
                              \/ i = Len(u) + 1 /\ r[i] = x4
       /\ \A i \in DOMAIN u : i \in DOMAIN r /\ r[i] = u[i]
       /\ Len(u) \in Nat /\ DOMAIN u = 1 .. Len(u) /\ Len(r) = Len(u) + 1
  <2>1. DOMAIN <<x4>> = {1} /\ <<x4>>[1] = x4 /\ Len(<<x4>>) = 1
    OBVIOUS
  <2>2. Len(u) \in Nat /\ DOMAIN u = 1 .. Len(u)
    BY <1>10 DEF IsScript
  <2>3. Len(r) = Len(u) + 1
    <3> DEFINE Q == Range(u) \cup {x4}
    <3>1. u \in Seq(Q) /\ <<x4>> \in Seq(Q)
      BY <1>10 DEF IsScript
    <3> QED
      BY <2>1, <2>2, <3>1
  <2>4. IsScript(u) /\ IsScript(<<x4>>) /\ Range(<<x4>>) = {x4}
    BY <1>5, <1>10
  <2>5. /\ IsScript(r) /\ Range(r) = Range(u) \cup {x4}
        /\ \A i \in DOMAIN r : \/ i \in DOMAIN u /\ r[i] = u[i]
                               \/ /\ i - Len(u) \in DOMAIN <<x4>>
                                  /\ r[i] = <<x4>>[i - Len(u)]
        /\ \A i \in DOMAIN u : i \in DOMAIN r /\ r[i] = u[i]
    BY <2>4, Joined
  <2>6. DOMAIN r \subseteq Nat
    BY <2>5 DEF IsScript
  <2> QED
    BY <2>1, <2>2, <2>3, <2>5, <2>6
<1> HIDE DEF r
<1>12. /\ IsScript(s) /\ Range(s) = Range(r) \cup Range(s5)
       /\ \A i \in DOMAIN s : \/ i \in DOMAIN r /\ s[i] = r[i]
                              \/ i = Len(u) + 2 /\ s[i] = x5
       /\ \A i \in DOMAIN r : i \in DOMAIN s /\ s[i] = r[i]
  <2>1. \A i \in DOMAIN s5 : i = 1 /\ s5[i] = x5
    BY <1>8
  <2>2. /\ IsScript(s) /\ Range(s) = Range(r) \cup Range(s5)
        /\ \A i \in DOMAIN s : \/ i \in DOMAIN r /\ s[i] = r[i]
                               \/ i - Len(r) \in DOMAIN s5 /\ s[i] = s5[i - Len(r)]
        /\ \A i \in DOMAIN r : i \in DOMAIN s /\ s[i] = r[i]
    BY <1>8, <1>9, <1>11, Joined
  <2>3. DOMAIN s \subseteq Nat
    BY <2>2 DEF IsScript
  <2> QED
    BY <1>11, <2>1, <2>2, <2>3
<1>13. /\ Range(w) = IF old.proxy # new.proxy THEN {x1, x2, x3} ELSE {}
       /\ Range(s5) = IF old.dns # new.dns THEN {x5} ELSE {}
  BY <1>2, <1>5, <1>7, <1>8, EmptyScript
<1>14. Range(s) = Range(w) \cup Range(b) \cup {x4} \cup Range(s5)
  BY <1>10, <1>11, <1>12
<1>15. \A x \in Range(s) :
         \/ x.op \in {"skip", "bail"}
         \/ /\ x.op = "del" /\ x.via = "gw"
            /\ \/ x.dst \in Range(old.bypass)
               \/ x.dst = old.proxy /\ old.proxy # new.proxy
         \/ /\ x.op = "add" /\ x.via = "gw" /\ x.strict /\ x.dst \in HasGateway(g)
            /\ \/ x.dst \in Range(new.bypass)
               \/ x.dst = new.proxy /\ old.proxy # new.proxy
         \/ x.op = "proxy_ip" /\ x.dst = new.proxy /\ old.proxy # new.proxy
         \/ x.op = "bypass" /\ x.list = new.bypass
         \/ x.op = "change" /\ x.server = new.dns
  BY <1>1, <1>20, <1>4, <1>13, <1>14
<1>16. ASSUME NEW i \in DOMAIN s, s[i].op = "proxy_ip"
       PROVE  /\ i = 3
              /\ \/ s[1].op = "skip" /\ old.proxy \notin HasGateway(g)
                 \/ s[1].op = "del" /\ s[1].dst = old.proxy
              /\ \/ s[2].op = "bail"
                 \/ s[2].op = "add" /\ s[2].dst = new.proxy
  <2>1. i \in DOMAIN u /\ s[i] = u[i]
    BY <1>16, <1>4, <1>11, <1>12
  <2>2. i \in DOMAIN w /\ s[i] = w[i]
    BY <1>16, <2>1, <1>1, <1>10
  <2>3. w = w0
    BY <2>2, <1>7
  <2>4. i = 3
    BY <1>16, <2>2, <2>3, <1>2, <1>20
  <2>5. s[1] = x1 /\ s[2] = x2
    BY <2>3, <1>2, <1>10, <1>11, <1>12
  <2> QED
    BY <2>4, <2>5, <1>20
<1>17. ASSUME NEW i \in DOMAIN s, NEW j \in DOMAIN s, i < j
       PROVE  /\ s[i].op # "change"
              /\ s[i].op = "bypass" => s[j].op = "change"
  <2>1. ASSUME NEW k \in DOMAIN u PROVE s[k].op \notin {"change", "bypass"}
    <3>1. s[k] = u[k] /\ u[k] \in Range(w) \cup Range(b)
      BY <1>10, <1>11, <1>12 DEF Range
    <3> QED
      BY <3>1, <1>1, <1>20, <1>13
  <2>2. i \notin DOMAIN u => i = Len(u) + 1 /\ s[i] = x4 /\ j = Len(u) + 2 /\ s[j] = x5
    BY <1>11, <1>12, <1>17
  <2> QED
    BY <2>1, <2>2, <1>4
<1>18. /\ \E x \in Range(s) : x.op = "bypass"
       /\ old.proxy # new.proxy => \E x \in Range(s) : x.op = "proxy_ip"
       /\ old.dns # new.dns => \E x \in Range(s) : x.op = "change"
  BY <1>20, <1>4, <1>13, <1>14
<1>19. \A d \in Range(old.bypass) \cap HasGateway(g) :
         \/ d \in Range(new.bypass)
         \/ \E x \in Range(s) : x.op = "del" /\ x.dst = d /\ x.via = "gw"
  BY <1>1, <1>14
<1> QED
  BY <1>12, <1>15, <1>16, <1>17, <1>18, <1>19 DEF ReloadsOnMacos

-----------------------------------------------------------------------------
(* The invariant *)

(* The commands that are still to be run, and whether an operation is one. *)
Left == Range(script)
Has(op) == \E x \in Left : x.op = op
HasDel(d) == \E x \in Left : x.op = "del" /\ x.dst = d /\ x.via = "gw"

Servers == {System, Empty} \cup ({c.dns : c \in Configs} \ {None})

StateInv ==
  /\ TypeOK
  /\ platform \in {"macos", "windows"}
  /\ IsScript(script)
  /\ resolver \in [Slots -> Servers]
  /\ before \in [table : [Dsts -> {"absent", "gw", "tun"}],
                 resolver : [Slots -> Servers]]
  /\ phase # "off" => /\ cfg \in Configs /\ exit = "none"
                      /\ DOMAIN dns = {"current", "original", "configured"}
  /\ phase = "reload" => new_cfg \in Configs /\ platform = "macos"
  /\ pending \subseteq Configs
  /\ phase = "apply" => pending = {} /\ (rc.applied \/ Has("applied"))
  /\ platform = "windows" => pending = {}

(* A gateway that a route is made through, on either platform. *)
Reachable(d) == IF platform = "macos" THEN d \in HasGateway(rc.gateways)
                                      ELSE "v4" \in rc.gateways

(* What the commands of each script are. *)
ApplyCommand(x) ==
  /\ x.op \in {"add", "skip", "bail", "set", "static", "applied"}
  /\ x.op = "add" => /\ x.dst \in Dsts /\ x.via \in {"gw", "tun"}
                     /\ x.via = "gw" => x.dst \in Named(cfg) /\ Reachable(x.dst)
                     /\ x.via = "tun" => x.dst \in Range(V4_SPLIT) \cup Range(V6_SPLIT)
  /\ x.op = "set" => platform = "macos" /\ x.server = cfg.dns /\ cfg.dns # None
  /\ x.op = "static" => platform = "windows" /\ x.server = cfg.dns /\ cfg.dns # None

(* A destination that the reload makes a route for. *)
Added(d) == \/ d = new_cfg.proxy /\ new_cfg.proxy # cfg.proxy
            \/ d \in Range(new_cfg.bypass)

ReloadCommand(x) ==
  /\ x.op \in {"add", "del", "skip", "bail", "proxy_ip", "bypass", "change"}
  /\ x.op = "add" => /\ x.dst \in Dsts /\ x.via = "gw" /\ x.strict
                     /\ Added(x.dst) /\ Reachable(x.dst)
  /\ x.op = "del" => /\ x.dst \in Dsts /\ x.via = "gw"
                     /\ \/ x.dst \in Range(cfg.bypass)
                        \/ x.dst = cfg.proxy /\ cfg.proxy # new_cfg.proxy
  /\ x.op = "proxy_ip" => x.dst = new_cfg.proxy /\ cfg.proxy # new_cfg.proxy
  /\ x.op = "bypass" => x.list = new_cfg.bypass
  /\ x.op = "change" => x.server = new_cfg.dns

TeardownCommand(x) ==
  /\ x.op \in {"del", "skip", "restore", "dhcp"}
  /\ x.op = "del" => IsDel(x)
  /\ x.op = "restore" => platform = "macos"
  /\ x.op = "dhcp" => platform = "windows" /\ x.server \in Families

CommandsInv ==
  \A x \in Left : /\ phase = "apply" => ApplyCommand(x)
                  /\ phase = "reload" => ReloadCommand(x)
                  /\ phase = "teardown" => TeardownCommand(x)

(* The order of a reload: the proxy before the bypass routes, these before
   the list of them, and the DNS server last.                              *)
IsPin(x) == x.op = "bail" \/ (x.op = "add" /\ x.dst = new_cfg.proxy)
IsUnpin(x) == \/ x.op = "skip" /\ ~Reachable(cfg.proxy)
              \/ x.op = "del" /\ x.dst = cfg.proxy

OrderInv ==
  phase = "reload" =>
    /\ \A i \in DOMAIN script : script[i].op = "proxy_ip" =>
         /\ i <= 3
         /\ i = 2 => IsPin(script[1])
         /\ i = 3 => IsUnpin(script[1]) /\ IsPin(script[2])
    /\ \A i, j \in DOMAIN script : i < j =>
         /\ script[i].op # "change"
         /\ script[i].op = "bypass" => script[j].op = "change"

(* The controller has the proxy and the bypass list of the configuration, or
   of one whose reload failed.                                             *)
FollowsInv ==
  /\ phase # "off" =>
       /\ \/ rc.proxy_ip = cfg.proxy
          \/ \E c \in pending : c.proxy = rc.proxy_ip /\ c.proxy # cfg.proxy
          \/ phase = "reload" /\ rc.proxy_ip = new_cfg.proxy
       /\ \/ rc.bypass = cfg.bypass
          \/ \E c \in pending : c.bypass = rc.bypass
          \/ phase = "reload" /\ rc.bypass = new_cfg.bypass
  /\ phase = "reload" =>
       /\ cfg.proxy = new_cfg.proxy \/ rc.proxy_ip = new_cfg.proxy \/ Has("proxy_ip")
       /\ rc.bypass = new_cfg.bypass \/ Has("bypass")

Owned(d) == d = rc.proxy_ip \/ d \in Range(rc.bypass)
Claimed(d) ==
  \E c \in pending : \/ d \in Range(c.bypass)
                     \/ d = c.proxy /\ (phase \in {"running", "reload"} => d # cfg.proxy)

(* A route through a gateway was there before or there is a gateway for it. *)
ReachableInv ==
  phase \in {"apply", "running", "reload"} =>
    \A d \in Dsts : table[d] = "gw" => before.table[d] = "gw" \/ Reachable(d)

(* It was there before or is accounted for: a configuration whose reload
   failed names it, the controller has it, the reload under way makes it, or
   the teardown has still to delete it.                                    *)
RoutesInv ==
  ~leaked =>
    \A d \in Dsts : table[d] = "gw" =>
      \/ before.table[d] = "gw"
      \/ Claimed(d)
      \/ phase \in {"apply", "running", "reload"} /\ Owned(d)
      \/ phase = "reload" /\ Added(d)
      \/ phase = "teardown" /\ HasDel(d)
      \/ phase = "off" /\ exit # "clean"

(* Before the controller gets the new proxy, or list, the routes that are
   only in the old configuration are gone.                                 *)
DeletedInv ==
  phase = "reload" /\ ~leaked =>
    /\ \A i \in DOMAIN script : script[i].op = "proxy_ip" /\ i <= 2 =>
         table[cfg.proxy] # "gw" \/ before.table[cfg.proxy] = "gw"
    /\ \A d \in Range(cfg.bypass) :
         \/ table[d] # "gw" \/ before.table[d] = "gw"
         \/ HasDel(d) \/ Added(d)

(* The proxy's route. *)
Exempt == platform = "windows" /\ "v4" \notin rc.gateways
ProxyMoved == \E c \in pending : c.proxy # cfg.proxy
PinInv ==
  /\ \A d \in Dsts : table[d] = "tun" =>
       phase # "off" /\ d \in Range(V4_SPLIT) \cup Range(V6_SPLIT)
  /\ phase = "apply" =>
       \/ table[cfg.proxy] = "gw" \/ Exempt
       \/ /\ \A d \in Dsts : table[d] # "tun"
          /\ script # <<>>
          /\ \/ script[1].op = "bail"
             \/ script[1].op = "add" /\ script[1].dst = cfg.proxy
                  /\ script[1].via = "gw" /\ script[1].strict
  /\ DisjointConfigs /\ phase = "running" =>
       table[cfg.proxy] = "gw" \/ Exempt \/ ProxyMoved
  /\ DisjointConfigs /\ phase = "reload" =>
       /\ cfg.proxy = new_cfg.proxy => table[cfg.proxy] = "gw" \/ ProxyMoved
       /\ cfg.proxy # new_cfg.proxy =>
            table[new_cfg.proxy] = "gw" \/ Has("proxy_ip")
       /\ \A i \in DOMAIN script : script[i].op = "proxy_ip" /\ i = 1 =>
            table[new_cfg.proxy] = "gw"

AllSystem == [s \in Slots |-> System]

(* The DNS servers: macOS's controller knows the ones there were from the time
   it sets its own, ...                                                    *)
MacosDns ==
  /\ dns.current # None => /\ dns.original # None
                           /\ resolver["service"] = dns.current
  /\ dns.original \in Servers \cup {None}
  /\ \A s \in Families : resolver[s] = before.resolver[s]
  /\ ~leaked => /\ dns.original \in {None, before.resolver["service"]}
                /\ dns.current = None =>
                     resolver["service"] = before.resolver["service"]
  /\ phase = "apply" => dns.current = cfg.dns \/ Has("set")
  /\ phase = "running" => dns.current = cfg.dns
  /\ phase = "reload" =>
       \/ dns.current = cfg.dns /\ (Has("change") \/ cfg.dns = new_cfg.dns)
       \/ dns.current = new_cfg.dns /\ script = <<>>
  /\ phase = "teardown" => dns.current = None \/ Has("restore")

(* ... and those of a Windows interface go with it. *)
WindowsDns ==
  /\ before.resolver = AllSystem
  /\ phase = "off" => resolver = AllSystem
  /\ phase \in {"apply", "running"} =>
       IF cfg.dns = None THEN resolver = AllSystem
       ELSE \/ resolver[Family[cfg.dns]] = cfg.dns
            \/ phase = "apply" /\ Has("static")

DnsInv ==
  /\ DnsRestored
  /\ phase # "off" /\ platform = "macos" => MacosDns
  /\ platform = "windows" => WindowsDns

-----------------------------------------------------------------------------
(* What the steps of the process have in common. *)

(* A command that runs, and does not fail the script. *)
Going ==
  /\ script # <<>> /\ script' = Tail(script)
  /\ UNCHANGED <<platform, phase, cfg, new_cfg, tuning, exit, before, pending>>
  /\ leaked => leaked'

AddIgnored == Running("add") /\ ~Command.strict /\ UNCHANGED <<table, rc, leaked>>
RouteStep ==
  /\ Going /\ UNCHANGED <<resolver, dns>>
  /\ AddRoute \/ AddIgnored \/ DeleteRoute \/ Skip \/ Assign
DnsStep ==
  /\ Going /\ UNCHANGED <<table, rc>>
  /\ SetDns \/ UnsetDns \/ RestoreDns \/ SetStatic \/ SetDhcp

(* The end of a process. *)
Ends ==
  /\ phase # "off" /\ End(exit') /\ exit' # "none"
  /\ exit' = "clean" => phase = "teardown" /\ script = <<>>
  /\ UNCHANGED <<platform, before, pending>>
  /\ leaked => leaked'

(* The failure of a reload. *)
GivesUp ==
  /\ phase = "reload" /\ script # <<>>
  /\ phase' = "running" /\ script' = <<>>
  /\ pending' = pending \cup {new_cfg}
  /\ UNCHANGED <<platform, table, resolver, cfg, rc, tuning, exit, before>>
  /\ leaked => leaked'
  /\ DOMAIN dns' = DOMAIN dns /\ dns'.current = dns.current
  /\ \/ dns'.original = dns.original
     \/ dns.original = None /\ dns'.original = resolver["service"]
     \/ dns.original = None /\ dns'.original = Empty /\ leaked'

(* A command whose failure is not ignored ends apply() and the process,
   or the reload.                                                          *)
LEMMA GivenUp ==
  ASSUME NEW n, Abandon(n), phase # "off", script # <<>>, leaked => leaked',
         UNCHANGED <<platform, before>>,
         DOMAIN n = DOMAIN dns, n.current = dns.current,
         \/ n.original = dns.original
         \/ dns.original = None /\ n.original = resolver["service"]
         \/ dns.original = None /\ n.original = Empty /\ leaked'
  PROVE  Ends \/ GivesUp
<1>1. CASE phase = "apply" /\ End("error") /\ UNCHANGED pending
  <2>1. exit' = "error"
    BY <1>1 DEF End
  <2> QED
    BY <1>1, <2>1 DEF Ends
<1>2. CASE /\ phase = "reload"
           /\ phase' = "running" /\ script' = <<>>
           /\ pending' = pending \cup {new_cfg}
           /\ new_cfg' = None
           /\ dns' = n
           /\ UNCHANGED <<table, resolver, cfg, rc, tuning, exit>>
  BY <1>2 DEF GivesUp
<1> QED
  BY <1>1, <1>2 DEF Abandon

(* The kinds of steps: every action is one of them. *)
LEMMA Kinds ==
  ASSUME StateInv, CommandsInv, Next
  PROVE  \/ \E c \in Configs : Start(c) \/ Reload(c)
         \/ LeaveLoop \/ ApplyDone \/ ReloadDone
         \/ Ends \/ GivesUp \/ RouteStep \/ DnsStep
<1> DEFINE Kind == \/ \E c \in Configs : Start(c) \/ Reload(c)
                   \/ LeaveLoop \/ ApplyDone \/ ReloadDone
                   \/ Ends \/ GivesUp \/ RouteStep \/ DnsStep
<1>1. script # <<>> => phase # "off"
  BY DEF StateInv, TypeOK
<1>2. phase # "off" => DOMAIN dns = {"current", "original", "configured"}
  BY DEF StateInv
<1>3. CASE Kill
  BY <1>3 DEF Kill, Ends, End
<1>4. CASE TeardownDone
  BY <1>4 DEF TeardownDone, Ends, End
<1>5. CASE AddRoute
  BY <1>5 DEF AddRoute, RouteStep, Going, Running, Proceed, histVars
<1>6. CASE AddFails
  <2>1. CASE Command.strict
    BY <1>6, <2>1, <1>1, GivenUp DEF AddFails, Running
  <2>2. CASE ~Command.strict
    BY <1>6, <2>2 DEF AddFails, RouteStep, Going, Running, Proceed, AddIgnored
  <2> QED
    BY <2>1, <2>2
<1>7. CASE Bail
  BY <1>7, <1>1, GivenUp DEF Bail, Running
<1>8. CASE DeleteRoute
  BY <1>8 DEF DeleteRoute, RouteStep, Going, Running, Proceed
<1>9. CASE Skip
  BY <1>9 DEF Skip, RouteStep, Going, Running, Proceed, hostVars, histVars
<1>10. CASE Assign
  BY <1>10 DEF Assign, RouteStep, Going, Running, Proceed, hostVars, histVars
<1>11. CASE SetDns
  BY <1>11 DEF SetDns, DnsStep, Going, Running, Proceed
<1>12. CASE UnsetDns
  BY <1>12 DEF UnsetDns, DnsStep, Going, Running, Proceed, histVars
<1>13. CASE RestoreDns
  BY <1>13 DEF RestoreDns, DnsStep, Going, Running, Proceed
<1>14. CASE SetStatic
  BY <1>14 DEF SetStatic, DnsStep, Going, Running, Proceed, histVars
<1>15. CASE SetDhcp
  BY <1>15 DEF SetDhcp, DnsStep, Going, Running, Proceed
<1>16. CASE SetStaticFails
  BY <1>16, <1>1 DEF SetStaticFails, Running, Ends, End
<1>17. CASE SetDnsFails
  <2>1. script # <<>> /\ phase # "off" /\ UNCHANGED <<platform, before>>
    BY <1>17, <1>1 DEF SetDnsFails, Running
  <2> DEFINE n1 == [dns EXCEPT !.original = ensure_backup]
             n2 == [dns EXCEPT !.original = Empty]
  <2>2. /\ DOMAIN n1 = DOMAIN dns /\ n1.current = dns.current
        /\ n1.original = dns.original
           \/ (dns.original = None /\ n1.original = resolver["service"])
    BY <1>2, <2>1 DEF ensure_backup
  <2>3. DOMAIN n2 = DOMAIN dns /\ n2.current = dns.current /\ n2.original = Empty
    BY <1>2, <2>1
  <2> HIDE DEF n1, n2
  <2>4. \/ (Abandon(dns) \/ Abandon(n1)) /\ UNCHANGED leaked
        \/ dns.original = None /\ Abandon(n2) /\ leaked'
    BY <1>17 DEF SetDnsFails, n1, n2
  <2>5. CASE Abandon(dns) /\ UNCHANGED leaked
    BY <2>1, <2>5, GivenUp
  <2>6. CASE Abandon(n1) /\ UNCHANGED leaked
    BY <2>1, <2>2, <2>6, GivenUp
  <2>7. CASE dns.original = None /\ Abandon(n2) /\ leaked'
    BY <2>1, <2>3, <2>7, GivenUp
  <2> QED
    BY <2>4, <2>5, <2>6, <2>7
<1> QED
  BY <1>3, <1>4, <1>5, <1>6, <1>7, <1>8, <1>9, <1>10, <1>11, <1>12, <1>13, <1>14,
     <1>15, <1>16, <1>17, Zenon DEF Next

(* What is left after a command. *)
LEMMA Goes ==
  ASSUME IsScript(script), Going
  PROVE  /\ Command = script[1] /\ Command \in Left /\ 1 \in DOMAIN script
         /\ IsScript(script)' /\ Left = {Command} \cup Left'
         /\ \A i \in DOMAIN script' : i + 1 \in DOMAIN script /\ script'[i] = script[i + 1]
         /\ DOMAIN script' \subseteq Nat \ {0}
<1> DEFINE s == script
<1>1. IsScript(s) /\ s # <<>> /\ script' = Tail(s)
  BY DEF Going
<1> HIDE DEF s
<1>2. /\ Head(s) = s[1] /\ s[1] \in Range(s) /\ 1 \in DOMAIN s
      /\ IsScript(Tail(s))
      /\ Range(s) = {s[1]} \cup Range(Tail(s))
      /\ \A i \in DOMAIN Tail(s) : i + 1 \in DOMAIN s /\ Tail(s)[i] = s[i + 1]
      /\ DOMAIN Tail(s) \subseteq Nat \ {0}
  BY <1>1, ScriptTail
<1>3. IsScript(script)' /\ Left' = Range(Tail(s))
  BY <1>1, <1>2 DEF IsScript, Left
<1> QED
  BY <1>1, <1>2, <1>3 DEF s, Left, Command

(* The state that a process starts in. *)
LEMMA Starts ==
  ASSUME NEW c \in Configs, Start(c), platform \in {"macos", "windows"}
  PROVE  \E g \in SUBSET Families :
           /\ rc' = [proxy_ip |-> c.proxy, bypass |-> c.bypass,
                     gateways |-> g, applied |-> FALSE]
           /\ rc' \in Controllers
           /\ platform = "macos" => AppliesOnMacos(script', c, g)
           /\ platform = "windows" => AppliesOnWindows(script', c, g)
<1>1. PICK g \in HostGateways, v \in BOOLEAN :
        /\ rc' = [proxy_ip |-> c.proxy, bypass |-> c.bypass,
                  gateways |-> g, applied |-> FALSE]
        /\ script' = IF platform = "macos" THEN macos_apply(c, g, v)
                                           ELSE windows_apply(c, g, v)
  <2>1. PICK gateways \in HostGateways, has_v6 \in BOOLEAN, link_mtu \in LinkMtus,
             limit \in FdLimits, raised \in BOOLEAN :
       LET fds == IF platform = "macos"
                    THEN raise_and_read_fd_limit(limit, raised) ELSE None
           t == compute([link_mtu |-> link_mtu, has_ipv6_gateway |-> has_v6,
                         total_memory |-> None, fd_limit |-> fds])
       IN  /\ tuning' = [max_tcp |-> t.max_tcp, max_udp |-> t.max_udp, fds |-> fds,
                         capture_ipv6 |-> t.capture_ipv6]
           /\ rc' = [proxy_ip |-> c.proxy, bypass |-> c.bypass,
                     gateways |-> gateways, applied |-> FALSE]
           /\ script' = IF platform = "macos"
                          THEN macos_apply(c, gateways, t.capture_ipv6)
                          ELSE windows_apply(c, gateways, t.capture_ipv6)
    BY Zenon DEF Start
  <2>2. \A fds : compute([link_mtu |-> link_mtu, has_ipv6_gateway |-> has_v6,
                         total_memory |-> None, fd_limit |-> fds]).capture_ipv6 = has_v6
    BY DEF compute
  <2> QED
    BY <2>1, <2>2, Zenon
<1>2. g \in SUBSET Families
  BY CommandRoutesAssumption
<1>3. rc' \in Controllers
  BY <1>1, <1>2, ConfigTypes DEF Controllers
<1>4. platform = "macos" => AppliesOnMacos(script', c, g)
  BY <1>1, <1>2, MacosApply
<1>5. platform = "windows" => AppliesOnWindows(script', c, g)
  BY <1>1, <1>2, WindowsApply
<1> QED
  BY <1>1, <1>2, <1>3, <1>4, <1>5

-----------------------------------------------------------------------------
(* Types *)

(* The slots for DNS servers. *)
LEMMA SlotsAre == "service" \in Slots /\ "v4" \in Slots /\ "v6" \in Slots
BY DEF Slots, Families

(* The DNS servers that can be set. *)
LEMMA ServersAre ==
  /\ System \in Servers /\ Empty \in Servers /\ None \notin Servers
  /\ \A c \in Configs : c.dns # None => c.dns \in Servers
BY CommandRoutesAssumption DEF Servers

(* A controller is not None. *)
LEMMA NoController == \A r \in Controllers : r # None
BY CommandRoutesAssumption

(* The types hold initially. *)
LEMMA StateInit == Init => StateInv
BY EmptyScript, ServersAre DEF Init, StateInv, TypeOK

(* The scripts that a command is of. *)
LEMMA Commands ==
  ASSUME StateInv, CommandsInv, Going
  PROVE  /\ phase \in {"apply", "reload", "teardown"}
         /\ phase = "apply" => ApplyCommand(Command)
         /\ phase = "reload" => ReloadCommand(Command)
         /\ phase = "teardown" => TeardownCommand(Command)
         /\ Command.op \in {"set", "static", "applied"} => phase = "apply"
         /\ Command.op \in {"proxy_ip", "bypass", "change"} => phase = "reload"
         /\ Command.op \in {"restore", "dhcp"} => phase = "teardown"
         /\ Command.op = "add" => phase \in {"apply", "reload"}
         /\ Command.op = "del" => phase \in {"reload", "teardown"}
<1>1. phase \in {"apply", "reload", "teardown"}
  BY DEF Going, StateInv, TypeOK
<1>2. Command \in Left
  BY Goes DEF StateInv
<1>3. /\ phase = "apply" => ApplyCommand(Command)
      /\ phase = "reload" => ReloadCommand(Command)
      /\ phase = "teardown" => TeardownCommand(Command)
  BY <1>2, Zenon DEF CommandsInv
<1> QED
  BY <1>1, <1>3 DEF ApplyCommand, ReloadCommand, TeardownCommand

(* The servers that a step may set. *)
LEMMA ResolverNext ==
  ASSUME StateInv, CommandsInv, DnsInv, DnsStep
  PROVE  /\ resolver' \in [Slots -> Servers]
         /\ DOMAIN dns' = {"current", "original", "configured"}
<1>1. Going
  BY DEF DnsStep
<1>2. phase # "off"
  BY <1>1, Commands
<1>3. /\ DOMAIN dns = {"current", "original", "configured"}
      /\ resolver \in [Slots -> Servers]
      /\ cfg \in Configs /\ (phase = "reload" => new_cfg \in Configs)
  BY <1>2 DEF StateInv
<1>4. Command.op \in {"set", "static"} =>
         Command.server = cfg.dns /\ Command.server # None
  BY <1>1, Commands DEF ApplyCommand
<1>5. Command.op = "change" => Command.server = new_cfg.dns /\ phase = "reload"
  BY <1>1, Commands DEF ReloadCommand
<1>6. Command.op \in {"set", "static", "change"} /\ Command.server # None =>
         Command.server \in Servers /\ Family[Command.server] \in Slots
  BY <1>3, <1>4, <1>5, ServersAre, ConfigTypes DEF Slots
<1>7. Command.op = "dhcp" => Command.server \in Slots
  BY <1>1, Commands DEF TeardownCommand, Slots
<1>8. Command.op = "restore" => platform = "macos"
  BY <1>1, Commands DEF TeardownCommand
<1>9. Command.op = "change" => platform = "macos"
  BY <1>5 DEF StateInv
<1>10. platform = "macos" => /\ dns.original \in Servers \cup {None}
                             /\ dns.current # None => dns.original # None
  BY <1>2 DEF DnsInv, MacosDns
<1>11. CASE SetDns
  <2>1. Command.op \in {"set", "change"} /\ Command.server # None
    BY <1>4, <1>11 DEF SetDns, Running, Command
  <2> QED
    BY <1>3, <1>6, <1>11, <2>1, Zenon DEF SetDns
<1>12. CASE UnsetDns
  <2>1. Command.op = "change"
    BY <1>12 DEF UnsetDns, Running, Command
  <2> QED
    BY <1>3, <1>9, <1>10, <1>12, <2>1 DEF UnsetDns
<1>13. CASE RestoreDns
  <2>1. Command.op = "restore"
    BY <1>13 DEF RestoreDns, Running, Command
  <2> QED
    BY <1>3, <1>8, <1>10, <1>13, <2>1 DEF RestoreDns
<1>14. CASE SetStatic
  <2>1. Command.op = "static"
    BY <1>14 DEF SetStatic, Running, Command
  <2> QED
    BY <1>3, <1>4, <1>6, <1>14, <2>1 DEF SetStatic
<1>15. CASE SetDhcp
  <2>1. Command.op = "dhcp"
    BY <1>15 DEF SetDhcp, Running, Command
  <2> QED
    BY <1>3, <1>7, <1>15, <2>1, ServersAre DEF SetDhcp
<1> QED
  BY <1>11, <1>12, <1>13, <1>14, <1>15 DEF DnsStep

(* A step of a script keeps the types. *)
LEMMA StepState ==
  ASSUME StateInv, CommandsInv, DnsInv, RouteStep \/ DnsStep
  PROVE  StateInv'
<1>1. Going
  BY DEF RouteStep, DnsStep
<1>2. /\ IsScript(script)' /\ Left = {Command} \cup Left'
  BY <1>1, Goes DEF StateInv
<1>3. phase \in {"apply", "reload", "teardown"} /\ phase' = phase
  BY <1>1, Commands DEF Going
<1>4. rc \in Controllers /\ table \in [Dsts -> {"absent", "gw", "tun"}]
  BY <1>3 DEF StateInv, TypeOK
<1>5. table' \in [Dsts -> {"absent", "gw", "tun"}]
  <2>1. CASE AddRoute
    <3>1. Command.dst \in Dsts /\ Command.via \in {"gw", "tun"}
      BY <2>1, <1>1, Commands DEF AddRoute, Running, Command, ApplyCommand, ReloadCommand
    <3> QED
      BY <2>1, <3>1, <1>4, Zenon DEF AddRoute
  <2>2. CASE DeleteRoute
    BY <2>2, <1>4 DEF DeleteRoute
  <2>3. CASE ~AddRoute /\ ~DeleteRoute
    BY <2>3, <1>4 DEF RouteStep, DnsStep, AddIgnored, Skip, Assign, hostVars
  <2> QED
    BY <2>1, <2>2, <2>3
<1>6. /\ rc' \in Controllers
      /\ rc'.applied = (rc.applied \/ Command.op = "applied")
  <2>1. CASE Assign /\ Command.op = "proxy_ip"
    <3>1. Command.dst \in Dsts
      BY <2>1, <1>1, Commands, ConfigTypes, Zenon DEF ReloadCommand, StateInv
    <3> QED
      BY <2>1, <3>1, <1>4 DEF Assign, Running, Command, Controllers
  <2>2. CASE Assign /\ Command.op = "bypass"
    <3>1. Command.list \in Seq(Dsts)
      BY <2>2, <1>1, Commands, ConfigTypes DEF ReloadCommand, StateInv
    <3> QED
      BY <2>2, <3>1, <1>4, Zenon DEF Assign, Running, Command, Controllers
  <2>3. CASE Assign /\ Command.op = "applied"
    BY <2>3, <1>4 DEF Assign, Running, Command, Controllers
  <2>4. CASE ~Assign
    <3>1. rc' = rc
      BY <2>4, Zenon DEF RouteStep, DnsStep, AddRoute, DeleteRoute, AddIgnored, Skip
    <3>2. Command.op # "applied"
      BY <2>4, Zenon DEF RouteStep, DnsStep, AddRoute, DeleteRoute, AddIgnored, Skip, SetDns,
         UnsetDns, RestoreDns, SetStatic, SetDhcp, Running, Command
    <3> QED
      BY <3>1, <3>2, <1>4, Zenon DEF Controllers
  <2> QED
    BY <2>1, <2>2, <2>3, <2>4 DEF Assign, Running, Command
<1>7. /\ resolver' \in [Slots -> Servers]
      /\ DOMAIN dns' = {"current", "original", "configured"}
  <2>1. CASE RouteStep
    BY <2>1, <1>3 DEF RouteStep, StateInv
  <2>2. CASE DnsStep
    BY <2>2, ResolverNext
  <2> QED
    BY <2>1, <2>2
<1>8. phase = "apply" => (rc.applied \/ Has("applied"))' /\ pending' = {}
  BY <1>1, <1>2, <1>6, Zenon DEF StateInv, Has, Going
<1>9. phase = "reload" => rc'.applied
  BY <1>3, <1>6, Zenon DEF StateInv, TypeOK
<1>10. phase = "teardown" => ~rc'.applied
  <2>1. phase = "teardown" => Command.op # "applied"
    BY <1>1, Commands
  <2> QED
    BY <1>3, <1>6, <2>1 DEF StateInv, TypeOK
<1>11. TypeOK'
  BY <1>3, <1>5, <1>6, <1>7, <1>9, <1>10, NoController DEF TypeOK
<1> QED
  BY <1>1, <1>2, <1>3, <1>7, <1>8, <1>11 DEF StateInv, Going

(* Every step keeps the types. *)
LEMMA StateNext ==
  ASSUME StateInv, CommandsInv, DnsInv, Next
  PROVE  StateInv'
<1>1. ASSUME NEW c \in Configs, Start(c) PROVE StateInv'
  <2>1. PICK g \in SUBSET Families :
           /\ rc' = [proxy_ip |-> c.proxy, bypass |-> c.bypass,
                     gateways |-> g, applied |-> FALSE]
           /\ rc' \in Controllers
           /\ platform = "macos" => AppliesOnMacos(script', c, g)
           /\ platform = "windows" => AppliesOnWindows(script', c, g)
    BY <1>1, Starts, Zenon DEF StateInv
  <2>2. IsScript(script') /\ \E x \in Range(script') : x.op = "applied"
    BY <2>1 DEF AppliesOnMacos, AppliesOnWindows, StateInv
  <2>3. rc' # None
    BY <2>1, NoController, Zenon
  <2>4. TypeOK'
    BY <1>1, <2>1, <2>3, Zenon DEF Start, StateInv, TypeOK, hostVars
  <2> QED
    BY <1>1, <2>1, <2>2, <2>4, Zenon DEF Start, StateInv, TypeOK, hostVars, Has, Left, IsScript
<1>2. ASSUME NEW c \in Configs, Reload(c) PROVE StateInv'
  <2>1. IsScript(script')
    <3>1. ReloadsOnMacos(script', cfg, c, rc.gateways)
      BY <1>2, MacosReload, Zenon DEF Reload, StateInv
    <3> QED
      BY <3>1 DEF ReloadsOnMacos
  <2>2. TypeOK'
    BY <1>2 DEF Reload, StateInv, TypeOK, hostVars
  <2> QED
    BY <1>2, <2>1, <2>2, Zenon DEF Reload, StateInv, IsScript, hostVars
<1>3. CASE LeaveLoop
  <2>1. rc \in Controllers
    BY <1>3 DEF LeaveLoop, StateInv, TypeOK
  <2>2. IsScript(script')
    BY <1>3, <2>1, MacosTeardown, WindowsTeardown DEF LeaveLoop
  <2>3. rc' \in Controllers /\ rc'.applied = FALSE
    BY <1>3, <2>1, Zenon DEF LeaveLoop, Controllers
  <2>4. TypeOK'
    BY <1>3, <2>3, NoController, Zenon DEF LeaveLoop, StateInv, TypeOK, hostVars
  <2> QED
    BY <1>3, <2>2, <2>4 DEF LeaveLoop, StateInv, IsScript, hostVars, histVars
<1>4. CASE ApplyDone
  <2>1. rc.applied
    BY <1>4, EmptyScript DEF ApplyDone, StateInv, Has, Left
  <2> QED
    BY <1>4, <2>1 DEF ApplyDone, StateInv, IsScript, hostVars, histVars, TypeOK
<1>5. CASE ReloadDone
  BY <1>5 DEF ReloadDone, StateInv, IsScript, hostVars, TypeOK
<1>6. CASE Ends
  <2>1. TypeOK'
    BY <1>6, Zenon DEF Ends, End, StateInv, TypeOK
  <2> QED
    BY <1>6, <2>1, EmptyScript, ServersAre DEF Ends, End, StateInv, IsScript
<1>7. CASE GivesUp
  BY <1>7, EmptyScript DEF GivesUp, StateInv, IsScript, TypeOK
<1> QED
  BY <1>1, <1>2, <1>3, <1>4, <1>5, <1>6, <1>7, StepState, Kinds

-----------------------------------------------------------------------------
(* The commands of the scripts *)

(* No command is left at the end of a script. *)
LEMMA NoCommands == script' = <<>> => Left' = {}
BY EmptyScript DEF Left

(* The split routes are destinations. *)
LEMMA SplitDsts == Range(V4_SPLIT) \subseteq Dsts /\ Range(V6_SPLIT) \subseteq Dsts
BY ConfigTypes DEF Range

(* The commands of a script change at most the proxy's address and the bypass
   list of the controller, or its flag.                                    *)
LEMMA StepFrame ==
  ASSUME StateInv, CommandsInv, RouteStep \/ DnsStep
  PROVE  /\ rc'.gateways = rc.gateways
         /\ \A d : Reachable(d)' = Reachable(d)
         /\ Command.op # "proxy_ip" => rc'.proxy_ip = rc.proxy_ip
         /\ Command.op # "bypass" => rc'.bypass = rc.bypass
         /\ Command.op = "proxy_ip" => rc'.proxy_ip = Command.dst
         /\ Command.op = "bypass" => rc'.bypass = Command.list
<1>1. rc \in Controllers
  BY Commands, Zenon DEF RouteStep, DnsStep, StateInv, TypeOK
<1>2. /\ rc'.gateways = rc.gateways
      /\ Command.op # "proxy_ip" => rc'.proxy_ip = rc.proxy_ip
      /\ Command.op # "bypass" => rc'.bypass = rc.bypass
      /\ Command.op = "proxy_ip" => rc'.proxy_ip = Command.dst
      /\ Command.op = "bypass" => rc'.bypass = Command.list
  <2>1. CASE Assign
    BY <1>1, <2>1 DEF Assign, Running, Command, Controllers
  <2>2. CASE ~Assign
    <3>1. rc' = rc
      BY <2>2 DEF RouteStep, DnsStep, AddRoute, DeleteRoute, AddIgnored, Skip
    <3>2. Command.op \notin {"proxy_ip", "bypass"}
      BY <2>2 DEF RouteStep, DnsStep, AddRoute, DeleteRoute, AddIgnored, Skip, SetDns,
         UnsetDns, RestoreDns, SetStatic, SetDhcp, Running, Command
    <3> QED
      BY <3>1, <3>2, Zenon
  <2> QED
    BY <2>1, <2>2
<1>3. platform' = platform
  BY DEF RouteStep, DnsStep, Going
<1> QED
  BY <1>2, <1>3 DEF Reachable, HasGateway, gateway_for

(* There are no commands initially. *)
LEMMA CommandsInit == Init => CommandsInv
BY EmptyScript DEF Init, CommandsInv, Left

(* Every script has the commands of its kind: Start, Reload and LeaveLoop
   make it, and nothing else adds a command.                               *)
LEMMA CommandsNext ==
  ASSUME StateInv, CommandsInv, Next
  PROVE  CommandsInv'
<1>1. ASSUME NEW c \in Configs, Start(c) PROVE CommandsInv'
  <2>1. PICK g \in SUBSET Families :
           /\ rc' = [proxy_ip |-> c.proxy, bypass |-> c.bypass,
                     gateways |-> g, applied |-> FALSE]
           /\ rc' \in Controllers
           /\ platform = "macos" => AppliesOnMacos(script', c, g)
           /\ platform = "windows" => AppliesOnWindows(script', c, g)
    BY <1>1, Starts DEF StateInv
  <2>2. /\ phase' = "apply" /\ cfg' = c /\ platform' = platform
        /\ platform \in {"macos", "windows"} /\ rc'.gateways = g
    BY <1>1, <2>1, Zenon DEF Start, hostVars, StateInv
  <2>3. Named(c) \subseteq Dsts
    BY ConfigTypes DEF Named
  <2> SUFFICES ASSUME NEW x \in Left' PROVE ApplyCommand(x)'
    BY <2>2 DEF CommandsInv
  <2>4. x \in Range(script')
    BY Zenon DEF Left
  <2>5. CASE platform = "macos"
    <3>1. \/ x.op \in {"skip", "bail", "applied"}
          \/ x.op = "set" /\ x.server = c.dns /\ c.dns # None
          \/ x.op = "add" /\ x.dst \in Named(c) \cap HasGateway(g) /\ x.via = "gw"
          \/ /\ x.op = "add" /\ x.dst \in Range(V4_SPLIT) \cup Range(V6_SPLIT)
             /\ x.via = "tun"
      BY <2>1, <2>4, <2>5, Zenon DEF AppliesOnMacos
    <3> QED
      BY <3>1, <2>2, <2>3, <2>5, SplitDsts, Zenon DEF ApplyCommand, Reachable
  <2>6. CASE platform = "windows"
    <3>1. \/ x.op \in {"skip", "applied"}
          \/ x.op = "static" /\ x.server = c.dns /\ c.dns # None
          \/ x.op = "add" /\ x.dst \in Named(c) /\ x.via = "gw" /\ "v4" \in g
          \/ /\ x.op = "add" /\ x.dst \in Range(V4_SPLIT) \cup Range(V6_SPLIT)
             /\ x.via = "tun"
      BY <2>1, <2>4, <2>6 DEF AppliesOnWindows
    <3> QED
      BY <3>1, <2>2, <2>3, <2>6, SplitDsts DEF ApplyCommand, Reachable
  <2> QED
    BY <2>2, <2>5, <2>6
<1>2. ASSUME NEW c \in Configs, Reload(c) PROVE CommandsInv'
  <2>1. ReloadsOnMacos(script', cfg, c, rc.gateways)
    BY <1>2, MacosReload DEF Reload, StateInv
  <2>2. /\ phase' = "reload" /\ cfg' = cfg /\ new_cfg' = c /\ rc' = rc
        /\ platform' = "macos" /\ cfg \in Configs
    BY <1>2 DEF Reload, hostVars, StateInv
  <2> SUFFICES ASSUME NEW x \in Left' PROVE ReloadCommand(x)'
    BY <2>2 DEF CommandsInv
  <2>3. x \in Range(script')
    BY DEF Left
  <2>4. \/ x.op \in {"skip", "bail"}
        \/ /\ x.op = "del" /\ x.via = "gw"
           /\ \/ x.dst \in Range(cfg.bypass)
              \/ x.dst = cfg.proxy /\ cfg.proxy # c.proxy
        \/ /\ x.op = "add" /\ x.via = "gw" /\ x.strict /\ x.dst \in HasGateway(rc.gateways)
           /\ \/ x.dst \in Range(c.bypass)
              \/ x.dst = c.proxy /\ cfg.proxy # c.proxy
        \/ x.op = "proxy_ip" /\ x.dst = c.proxy /\ cfg.proxy # c.proxy
        \/ x.op = "bypass" /\ x.list = c.bypass
        \/ x.op = "change" /\ x.server = c.dns
    BY <2>1, <2>3 DEF ReloadsOnMacos
  <2> QED
    BY <2>2, <2>4, ConfigTypes DEF ReloadCommand, Reachable, Added
<1>3. CASE LeaveLoop
  <2>1. rc \in Controllers /\ platform \in {"macos", "windows"}
    BY <1>3 DEF LeaveLoop, StateInv, TypeOK
  <2>2. phase' = "teardown" /\ platform' = platform
    BY <1>3 DEF LeaveLoop, hostVars
  <2>3. CASE platform = "macos"
    <3>1. script' = macos_teardown
      BY <1>3, <2>3 DEF LeaveLoop
    <3>2. \A x \in Left' : \/ x.op \in {"skip", "restore"}
                           \/ IsDel(x)
      BY <2>1, <3>1, MacosTeardown, Zenon DEF Left
    <3> QED
      BY <2>2, <2>3, <3>2, Zenon DEF CommandsInv, TeardownCommand, IsDel
  <2>4. CASE platform = "windows"
    <3>1. script' = windows_teardown
      BY <1>3, <2>4 DEF LeaveLoop
    <3>2. \A x \in Left' : \/ x.op = "skip"
                           \/ IsDel(x)
                           \/ x.op = "dhcp" /\ x.server \in Families
      BY <2>1, <3>1, WindowsTeardown DEF Left
    <3> QED
      BY <2>2, <2>4, <3>2 DEF CommandsInv, TeardownCommand, IsDel
  <2> QED
    BY <2>1, <2>3, <2>4
<1>4. CASE script' = <<>>
  BY <1>4, NoCommands DEF CommandsInv
<1>5. CASE RouteStep \/ DnsStep
  <2>1. Going
    BY <1>5 DEF RouteStep, DnsStep
  <2>2. Left' \subseteq Left
    BY <2>1, Goes DEF StateInv
  <2>3. \A d : Reachable(d)' = Reachable(d)
    BY <1>5, StepFrame
  <2>4. UNCHANGED <<platform, phase, cfg, new_cfg>>
    BY <2>1 DEF Going
  <2> SUFFICES ASSUME NEW x \in Left'
               PROVE  /\ phase' = "apply" => ApplyCommand(x)'
                      /\ phase' = "reload" => ReloadCommand(x)'
                      /\ phase' = "teardown" => TeardownCommand(x)'
    BY DEF CommandsInv
  <2>5. /\ phase = "apply" => ApplyCommand(x)
        /\ phase = "reload" => ReloadCommand(x)
        /\ phase = "teardown" => TeardownCommand(x)
    BY <2>2, Zenon DEF CommandsInv
  <2> QED
    BY <2>3, <2>4, <2>5, Zenon DEF ApplyCommand, ReloadCommand, TeardownCommand, Added
<1> QED
  BY <1>1, <1>2, <1>3, <1>4, <1>5, Kinds DEF ApplyDone, ReloadDone, Ends, End, GivesUp

=============================================================================
