----------------------------- MODULE EgressPolicy ------------------------------
(***************************************************************************)
(* EgressPolicy: which answers of a name lookup may be connected to.       *)
(*                                                                         *)
(* An address is the sequence of its numbers: four octets, or eight groups *)
(* of sixteen bits.  How an address or a name is written is left out; a    *)
(* record of a lookup that is no address is the empty sequence; a name     *)
(* that is an address is its own only answer.                              *)
(***************************************************************************)
EXTENDS Integers, Sequences

Is(c) == [class |-> c, embedded |-> <<>>]

\* 240.0.0.0/4 is under "multicast", because it is asked first.
ClassifyIpv4(o) ==
  LET a == o[1]
      b == o[2]
      c == o[3] IN
  CASE a = 0 -> Is("unspecified")
    [] a = 10 \/ (a = 172 /\ b \in 16..31) \/ (a = 192 /\ b = 168) -> Is("private")
    [] a = 127 -> Is("loopback")
    [] a = 169 /\ b = 254 -> Is("link-local")
    [] a = 100 /\ b \in 64..127 -> Is("carrier-grade-nat")
    [] a >= 224 -> Is("multicast")
    [] \/ a = 192 /\ b = 0
       \/ a = 198 /\ b \in 18..19
       \/ <<a, b, c>> \in {<<198, 51, 100>>, <<203, 0, 113>>, <<192, 88, 99>>} -> Is("reserved")
    [] OTHER -> Is("public")

\* The groups with the given indices are all zero.
Zero(g, indices) == \A i \in indices : g[i] = 0
\* The whole address lies between the first one under each of two groups.
Within(g, first, last) == g[1] \in first..(last - 1) \/ (g[1] = last /\ Zero(g, 2..8))
Embedded(g) == <<g[7] \div 256, g[7] % 256, g[8] \div 256, g[8] % 256>>
AsEmbedded(g) == [class |-> ClassifyIpv4(Embedded(g)).class, embedded |-> Embedded(g)]

\* An IPv4 address in an IPv6 one is judged as that IPv4 address where it is
\* mapped or behind NAT64, else refused; ::1 is among those refused.
ClassifyIpv6(g) ==
  CASE Zero(g, 1..5) /\ g[6] = \hFFFF -> AsEmbedded(g)
    [] Zero(g, 1..6) /\ ~Zero(g, 7..8) -> [class |-> "embedded-translated", embedded |-> Embedded(g)]
    [] g[1] = \h64 /\ g[2] = \hFF9B /\ Zero(g, 3..6) -> AsEmbedded(g)
    [] Zero(g, 1..8) -> Is("unspecified")
    [] Within(g, \hFC00, \hFDFF) -> Is("private")
    [] Within(g, \hFE80, \hFEBF) -> Is("link-local")
    [] g[1] \div 256 = \hFF -> Is("multicast")
    [] g[1] = \h2002 \/ (g[1] = \h2001 /\ g[2] = 0) -> Is("embedded-translated")
    [] g[1] = \h2001 /\ g[2] = \hDB8 -> Is("reserved")
    [] OTHER -> Is("public")

ClassifyAddress(a) ==
  CASE Len(a) = 4 -> ClassifyIpv4(a)
    [] Len(a) = 8 -> ClassifyIpv6(a)
    [] OTHER -> Is("unknown")
Class(a) == ClassifyAddress(a).class

\* block is a network and the number of leading bits that count.
AddressInCidr(a, block) ==
  LET width == IF Len(a) = 4 THEN 8 ELSE 16
      Kept(i) == block.bits - width * (i - 1)        \* bits that count in number i
      Cut(n, i) == IF Kept(i) >= width THEN n
                   ELSE IF Kept(i) <= 0 THEN 0 ELSE n \div (2 ^ (width - Kept(i))) IN
  /\ Len(a) = Len(block.network)
  /\ \A i \in 1..Len(a) : Cut(a[i], i) = Cut(block.network[i], i)

ConnectionProtocols == {"ftp", "sftp"}
PrivateExceptionPurposes ==
  {"CREDENTIAL_CONNECTION_TEST", "PROVIDER_VALIDATION", "PROVIDER_HEALTH_CHECK"}

\* CONNECTION_TEST_PRIVATE_EXCEPTION: one endpoint for one purpose, and blocks
\* of addresses; policy.exceptions holds it or nothing.
PrivateExceptionMatches(policy, request, a) ==
  /\ policy.allowPrivateNetworks
  /\ request.purpose \in PrivateExceptionPurposes
  /\ request.protocol \in ConnectionProtocols
  /\ \E e \in policy.exceptions :
       /\ e.request = request
       /\ LET judged == ClassifyAddress(a)
              target == IF judged.embedded # <<>> THEN judged.embedded ELSE a IN
          \E block \in e.blocks : AddressInCidr(target, block)

IsAdmitted(policy, request, a) ==
  \/ Class(a) = "public"
  \/ Class(a) = "private" /\ PrivateExceptionMatches(policy, request, a)

Mixed(answers) ==
  \E i, j \in DOMAIN answers : Class(answers[i]) = "public" /\ Class(answers[j]) = "private"

\* One answer that is not admitted refuses them all.
Admitted(policy, request, answers) ==
  /\ answers # <<>> /\ ~Mixed(answers)
  /\ \A i \in DOMAIN answers : IsAdmitted(policy, request, answers[i])

=============================================================================
