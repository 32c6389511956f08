--------------------------- MODULE DecisionsProofs ---------------------------
(***************************************************************************)
(* What the decisions promise, for every list of exemptions, address,      *)
(* policy, connection, set of rules, reply and request.                    *)
(***************************************************************************)
EXTENDS Decisions, TLAPS, WellFoundedInduction, FiniteSetTheorems

(* Numbers *)

\* A non-empty set of numbers has a least one.
LEMMA LeastNumber ==
    ASSUME NEW T, T \subseteq Nat, T # {}
    PROVE  \E k \in T : \A j \in T : k <= j
  <1>1. PICK k \in T : \A j \in T : ~(<<j, k>> \in OpToRel(<, Nat))
    BY NatLessThanWellFounded, WFMin
  <1>2. ASSUME NEW j \in T PROVE k <= j
    <2>1. <<j, k>> \notin OpToRel(<, Nat) /\ k \in Nat /\ j \in Nat
      BY <1>1
    <2> QED BY <2>1 DEF OpToRel
  <1> QED BY <1>2

-----------------------------------------------------------------------------
(* Powers of two, as far as a group of an address has bits *)

\* The powers themselves.
LEMMA Powers ==
    /\ 2^0 = 1 /\ 2^1 = 2 /\ 2^2 = 4 /\ 2^3 = 8 /\ 2^4 = 16 /\ 2^5 = 32 /\ 2^6 = 64
    /\ 2^7 = 128 /\ 2^8 = 256 /\ 2^9 = 512 /\ 2^10 = 1024 /\ 2^11 = 2048 /\ 2^12 = 4096
    /\ 2^13 = 8192 /\ 2^14 = 16384 /\ 2^15 = 32768 /\ 2^16 = 65536
  OBVIOUS

\* One more bit doubles.
LEMMA Doubling ==
    ASSUME NEW k \in 0..15
    PROVE  2^k \in Nat \ {0} /\ 2^(k + 1) = 2 * 2^k /\ 2^(k + 1) \in Nat \ {0}
  <1>1. \/ k = 0 \/ k = 1 \/ k = 2 \/ k = 3 \/ k = 4 \/ k = 5 \/ k = 6 \/ k = 7
        \/ k = 8 \/ k = 9 \/ k = 10 \/ k = 11 \/ k = 12 \/ k = 13 \/ k = 14 \/ k = 15
    OBVIOUS
  <1>2. CASE k = 0
    BY <1>2, Powers
  <1>3. CASE k = 1
    BY <1>3, Powers
  <1>4. CASE k = 2
    BY <1>4, Powers
  <1>5. CASE k = 3
    BY <1>5, Powers
  <1>6. CASE k = 4
    BY <1>6, Powers
  <1>7. CASE k = 5
    BY <1>7, Powers
  <1>8. CASE k = 6
    BY <1>8, Powers
  <1>9. CASE k = 7
    BY <1>9, Powers
  <1>10. CASE k = 8
    BY <1>10, Powers
  <1>11. CASE k = 9
    BY <1>11, Powers
  <1>12. CASE k = 10
    BY <1>12, Powers
  <1>13. CASE k = 11
    BY <1>13, Powers
  <1>14. CASE k = 12
    BY <1>14, Powers
  <1>15. CASE k = 13
    BY <1>15, Powers
  <1>16. CASE k = 14
    BY <1>16, Powers
  <1>17. CASE k = 15
    BY <1>17, Powers
  <1> QED BY <1>1, <1>2, <1>3, <1>4, <1>5, <1>6, <1>7, <1>8, <1>9, <1>10, <1>11, <1>12, <1>13, <1>14, <1>15, <1>16, <1>17

\* A power is a multiple of every lower one.
Multiple(x, y) == \E m \in Nat \ {0} : x = y * m
LEMMA PowerMultiple ==
    ASSUME NEW l \in 0..16, NEW d \in 0..16, l + d <= 16
    PROVE  2^l \in Nat \ {0} /\ Multiple(2^(l + d), 2^l)
  <1>1. \A k \in 0..16 : 2^k \in Nat \ {0}
    <2> SUFFICES ASSUME NEW k \in 0..16 PROVE 2^k \in Nat \ {0}
      OBVIOUS
    <2>1. CASE k \in 0..15
      BY <2>1, Doubling
    <2>2. CASE k = 16
      BY <2>2, Powers
    <2> QED BY <2>1, <2>2
  <1>2. ASSUME NEW x \in Nat \ {0}, NEW y \in Nat \ {0}, Multiple(x, y) PROVE Multiple(2 * x, y)
    <2>1. PICK m \in Nat \ {0} : x = y * m
      BY <1>2 DEF Multiple
    <2>2. 2 * x = y * (2 * m) /\ 2 * m \in Nat \ {0}
      BY <2>1
    <2> QED BY <2>2 DEF Multiple
  <1> DEFINE Good(e) == l + e <= 16 => Multiple(2^(l + e), 2^l)
  <1>3. Good(0)
    <2>1. 2^l = 2^l * 1 /\ l + 0 = l
      BY <1>1
    <2> QED BY <2>1 DEF Multiple
  <1>4. ASSUME NEW e \in 0..15, Good(e) PROVE Good(e + 1)
    <2> SUFFICES ASSUME l + (e + 1) <= 16 PROVE Multiple(2^(l + (e + 1)), 2^l)
      OBVIOUS
    <2>1. l + e \in 0..15 /\ l + (e + 1) = (l + e) + 1 /\ l + e <= 16
      OBVIOUS
    <2>2. 2^(l + (e + 1)) = 2 * 2^(l + e) /\ 2^(l + e) \in Nat \ {0} /\ 2^l \in Nat \ {0}
      BY <1>1, <2>1, Doubling
    <2> QED BY <1>2, <1>4, <2>1, <2>2
  <1>5. Good(1) /\ Good(2) /\ Good(3) /\ Good(4)
    <2> HIDE DEF Good
    <2>1. Good(0 + 1) BY <1>3, <1>4
    <2>2. Good(1 + 1) BY <1>4, <2>1
    <2>3. Good(2 + 1) BY <1>4, <2>2
    <2>4. Good(3 + 1) BY <1>4, <2>3
    <2> QED BY <2>1, <2>2, <2>3, <2>4
  <1>6. Good(5) /\ Good(6) /\ Good(7) /\ Good(8)
    <2> HIDE DEF Good
    <2>1. Good(4 + 1) BY <1>5, <1>4
    <2>2. Good(5 + 1) BY <1>4, <2>1
    <2>3. Good(6 + 1) BY <1>4, <2>2
    <2>4. Good(7 + 1) BY <1>4, <2>3
    <2> QED BY <2>1, <2>2, <2>3, <2>4
  <1>7. Good(9) /\ Good(10) /\ Good(11) /\ Good(12)
    <2> HIDE DEF Good
    <2>1. Good(8 + 1) BY <1>6, <1>4
    <2>2. Good(9 + 1) BY <1>4, <2>1
    <2>3. Good(10 + 1) BY <1>4, <2>2
    <2>4. Good(11 + 1) BY <1>4, <2>3
    <2> QED BY <2>1, <2>2, <2>3, <2>4
  <1>8. Good(13) /\ Good(14) /\ Good(15) /\ Good(16)
    <2> HIDE DEF Good
    <2>1. Good(12 + 1) BY <1>7, <1>4
    <2>2. Good(13 + 1) BY <1>4, <2>1
    <2>3. Good(14 + 1) BY <1>4, <2>2
    <2>4. Good(15 + 1) BY <1>4, <2>3
    <2> QED BY <2>1, <2>2, <2>3, <2>4
  <1>9. Good(d)
    <2> HIDE DEF Good
    <2>1. \/ d = 0 \/ d = 1 \/ d = 2 \/ d = 3 \/ d = 4 \/ d = 5 \/ d = 6 \/ d = 7 \/ d = 8
          \/ d = 9 \/ d = 10 \/ d = 11 \/ d = 12 \/ d = 13 \/ d = 14 \/ d = 15 \/ d = 16
      OBVIOUS
    <2> QED BY <1>3, <1>5, <1>6, <1>7, <1>8, <2>1
  <1> QED BY <1>1, <1>9

\* Rounding down to a fine grid first does not change what rounding to a coarser
\* one gives.
LEMMA Coarser ==
    ASSUME NEW a \in Nat, NEW q \in Nat \ {0}, NEW m \in Nat \ {0}
    PROVE  ((a \div q) * q) \div (q * m) = a \div (q * m)
  OBVIOUS

-----------------------------------------------------------------------------
(* Prefixes *)

IsAddr(a) ==
    /\ a \in Seq(Nat) /\ Len(a) \in {2, 8}
    /\ \A i \in 1..Len(a) : a[i] \in Nat /\ a[i] <= 65535
IsPrefixOf(p) == p = Prefix(p.addr, p.bits) /\ IsAddr(p.addr) /\ p.bits \in Nat

\* Nine is neither two nor eight.
LEMMA TwoOrEight ==
    ASSUME NEW n, n = 2 \/ n = 8
    PROVE  n # 9 /\ (n >= 8 <=> n = 8)
  OBVIOUS

\* An IPv4 address has two groups, an IPv6 address eight; neither has a zone.
LEMMA Groups ==
    ASSUME NEW a, IsAddr(a)
    PROVE  /\ a \in Seq(Nat) /\ (Len(a) = 2 \/ Len(a) = 8)
           /\ Is6(a) <=> Len(a) = 8
           /\ WithoutZone(a) = a
  <1>1. a \in Seq(Nat)
    BY DEF IsAddr
  <1>2. Len(a) = 2 \/ Len(a) = 8
    BY DEF IsAddr
  <1>3. Len(a) # 9 /\ (Len(a) >= 8 <=> Len(a) = 8)
    BY <1>2, TwoOrEight, Zenon
  <1>4. WithoutZone(a) = a
    BY <1>3, Zenon DEF WithoutZone
  <1> QED BY <1>1, <1>2, <1>3, <1>4 DEF Is6

\* A group of an address is one of eight.
LEMMA GroupNumber ==
    ASSUME NEW n \in {2, 8}, NEW i \in 1..n
    PROVE  i \in 1..8
  <1>1. CASE n = 2
    BY <1>1
  <1>2. CASE n = 8
    BY <1>2
  <1> QED BY <1>1, <1>2

\* What a prefix leaves open of a group is a power of two, and what a longer one
\* leaves open divides it.
LEMMA OpenMultiple ==
    ASSUME NEW p, NEW q, IsPrefixOf(p), IsPrefixOf(q), p.bits <= q.bits, NEW i \in 1..8
    PROVE  Open(q, i) \in Nat \ {0} /\ Multiple(Open(p, i), Open(q, i))
  <1> DEFINE E(r) == LET fixed == r.bits - 16 * (i - 1) IN
                     IF fixed >= 16 THEN 0 ELSE IF fixed <= 0 THEN 16 ELSE 16 - fixed
  <1>1. p.bits \in Nat /\ q.bits \in Nat
    BY DEF IsPrefixOf
  <1>2. E(p) \in 0..16 /\ E(q) \in 0..16 /\ E(q) <= E(p)
    BY <1>1
  <1>3. Open(p, i) = 2^E(p) /\ Open(q, i) = 2^E(q)
    BY DEF Open
  <1> HIDE DEF E
  <1>4. E(p) - E(q) \in 0..16 /\ E(q) + (E(p) - E(q)) = E(p)
    BY <1>2
  <1>5. PICK l \in 0..16, d \in 0..16 : l = E(q) /\ l + d = E(p)
    BY <1>2, <1>4
  <1>6. 2^l \in Nat \ {0} /\ Multiple(2^(l + d), 2^l)
    <2>1. l + d <= 16
      BY <1>2, <1>5
    <2> QED BY <2>1, PowerMultiple
  <1> QED BY <1>3, <1>5, <1>6

\* The groups of a prefix that is masked.
LEMMA MaskedGroups ==
    ASSUME NEW p, IsPrefixOf(p)
    PROVE  /\ Masked(p).bits = p.bits /\ Len(Masked(p).addr) = Len(p.addr)
           /\ \A i \in 1..Len(p.addr) :
                 Masked(p).addr[i] = (p.addr[i] \div Open(p, i)) * Open(p, i)
           /\ \A i \in 1..8 : Open(Masked(p), i) = Open(p, i)
           /\ IsPrefixOf(Masked(p))
  <1> DEFINE g == [i \in 1..Len(p.addr) |-> (p.addr[i] \div Open(p, i)) * Open(p, i)]
  <1>1. p = [addr |-> p.addr, bits |-> p.bits] /\ IsAddr(p.addr) /\ p.bits \in Nat
    BY DEF IsPrefixOf, Prefix
  <1>2. Masked(p) = [p EXCEPT !.addr = g]
    BY DEF Masked
  <1> HIDE DEF g
  <1>3. Masked(p) = [addr |-> g, bits |-> p.bits]
    BY <1>1, <1>2
  <1>4. Len(p.addr) \in {2, 8} /\ \A i \in 1..Len(p.addr) : p.addr[i] \in Nat /\ p.addr[i] <= 65535
    BY <1>1 DEF IsAddr
  <1>5. ASSUME NEW i \in 1..Len(p.addr)
        PROVE  /\ g[i] = (p.addr[i] \div Open(p, i)) * Open(p, i) /\ g[i] \in Nat /\ g[i] <= 65535
    <2>1. i \in 1..8 /\ p.addr[i] \in Nat /\ p.addr[i] <= 65535
      <3>1. Len(p.addr) = 2 \/ Len(p.addr) = 8
        BY <1>4
      <3>2. p.addr[i] \in Nat /\ p.addr[i] <= 65535
        BY <1>4
      <3> QED BY <3>1, <3>2
    <2>2. Open(p, i) \in Nat \ {0}
      BY <1>1, <2>1, OpenMultiple
    <2>3. (p.addr[i] \div Open(p, i)) * Open(p, i) \in Nat /\ (p.addr[i] \div Open(p, i)) * Open(p, i) <= 65535
      BY <2>1, <2>2
    <2> QED BY <2>3 DEF g
  <1>6. g \in Seq(Nat) /\ Len(g) = Len(p.addr)
    <2>1. g = [i \in 1..Len(p.addr) |-> g[i]] /\ Len(p.addr) \in Nat
      BY <1>4 DEF g
    <2>2. \A i \in 1..Len(p.addr) : g[i] \in Nat
      BY <1>5
    <2> QED BY <2>1, <2>2
  <1>7. IsAddr(g)
    BY <1>4, <1>5, <1>6 DEF IsAddr
  <1>8. \A i \in 1..8 : Open(Masked(p), i) = Open(p, i)
    BY <1>3 DEF Open
  <1> QED BY <1>1, <1>3, <1>5, <1>6, <1>7, <1>8 DEF IsPrefixOf, Prefix

\* Masking does not change what is contained.
LEMMA MaskedContains ==
    ASSUME NEW p, IsPrefixOf(p), NEW a, IsAddr(a)
    PROVE  PrefixContains(Masked(p), a) <=> PrefixContains(p, a)
  <1>1. Len(a) \in {2, 8} /\ Len(p.addr) \in {2, 8}
    BY DEF IsAddr, IsPrefixOf
  <1>2. Len(Masked(p).addr) = Len(p.addr)
    BY MaskedGroups
  <1>3. ASSUME NEW i \in 1..Len(p.addr)
        PROVE  Masked(p).addr[i] \div Open(Masked(p), i) = p.addr[i] \div Open(p, i)
               /\ Open(Masked(p), i) = Open(p, i)
    <2>1. i \in 1..8
      BY <1>1, GroupNumber
    <2>2. p.addr[i] \in Nat
      BY DEF IsAddr, IsPrefixOf
    <2>3. /\ Masked(p).addr[i] = (p.addr[i] \div Open(p, i)) * Open(p, i)
          /\ Open(Masked(p), i) = Open(p, i)
      BY <2>1, MaskedGroups
    <2>4. Open(p, i) \in Nat \ {0}
      <3>1. p.bits <= p.bits
        BY DEF IsPrefixOf
      <3> QED BY <2>1, <3>1, OpenMultiple
    <2>5. ((p.addr[i] \div Open(p, i)) * Open(p, i)) \div (Open(p, i) * 1)
            = p.addr[i] \div (Open(p, i) * 1)
      BY <2>2, <2>4, Coarser
    <2>6. Open(p, i) * 1 = Open(p, i)
      BY <2>4
    <2> QED BY <2>3, <2>5, <2>6
  <1> QED BY <1>2, <1>3 DEF PrefixContains

\* Of two prefixes that contain an address the shorter contains the other.
LEMMA Nested ==
    ASSUME NEW p, NEW q, IsPrefixOf(p), IsPrefixOf(q), p.bits <= q.bits, NEW a, IsAddr(a),
           PrefixContains(p, a), PrefixContains(q, a)
    PROVE  PrefixContains(p, Masked(q).addr)
  <1>1. /\ Len(a) \in {2, 8} /\ Len(p.addr) = Len(a) /\ Len(q.addr) = Len(a)
        /\ Len(Masked(q).addr) = Len(a)
    BY MaskedGroups DEF IsAddr, PrefixContains
  <1>2. ASSUME NEW i \in 1..Len(a)
        PROVE  Masked(q).addr[i] \div Open(p, i) = p.addr[i] \div Open(p, i)
    <2>1. i \in 1..8
      BY <1>1, GroupNumber
    <2>7. a[i] \in Nat
      BY DEF IsAddr
    <2>2. /\ a[i] \div Open(p, i) = p.addr[i] \div Open(p, i)
          /\ a[i] \div Open(q, i) = q.addr[i] \div Open(q, i)
      BY DEF PrefixContains
    <2>3. Masked(q).addr[i] = (a[i] \div Open(q, i)) * Open(q, i)
      BY <1>1, <2>2, MaskedGroups
    <2>4. Open(q, i) \in Nat \ {0} /\ Multiple(Open(p, i), Open(q, i))
      BY <2>1, OpenMultiple
    <2>5. PICK m \in Nat \ {0} : Open(p, i) = Open(q, i) * m
      BY <2>4 DEF Multiple
    <2>6. ((a[i] \div Open(q, i)) * Open(q, i)) \div (Open(q, i) * m) = a[i] \div (Open(q, i) * m)
      BY <2>7, <2>4, Coarser
    <2> QED BY <2>2, <2>3, <2>5, <2>6
  <1> QED BY <1>1, <1>2 DEF PrefixContains

-----------------------------------------------------------------------------
(* Addresses *)

\* An IPv4 address.
LEMMA Addr4 ==
    ASSUME NEW x \in Nat, NEW y \in Nat, x <= 65535, y <= 65535
    PROVE  IsAddr(<<x, y>>)
  BY DEF IsAddr

\* An IPv6 address whose middle groups are zero.
LEMMA Addr6 ==
    ASSUME NEW x \in Nat, NEW y \in Nat, NEW z \in Nat, NEW l \in Nat,
           x <= 65535, y <= 65535, z <= 65535, l <= 65535
    PROVE  IsAddr(V6(x, y, z, l))
  BY DEF IsAddr, V6

\* A prefix of an address.
LEMMA PrefixOf ==
    ASSUME NEW a, IsAddr(a), NEW n \in Nat
    PROVE  IsPrefixOf(Prefix(a, n))
  BY DEF IsPrefixOf, Prefix

\* A part of a sequence.
LEMMA Slice ==
    ASSUME NEW S, NEW s \in Seq(S), NEW a \in 1..(Len(s) + 1), NEW b \in 0..Len(s), a <= b + 1
    PROVE  /\ SubSeq(s, a, b) \in Seq(S) /\ Len(SubSeq(s, a, b)) = b - a + 1
           /\ \A n \in 1..(b - a + 1) : SubSeq(s, a, b)[n] = s[a + n - 1]
  OBVIOUS

\* The IPv6 spelling of an IPv4 address is an address; it is unwrapped once and for all.
LEMMA Unmapped ==
    ASSUME NEW a, IsAddr(a)
    PROVE  IsAddr(Unmap(a)) /\ Unmap(Unmap(a)) = Unmap(a)
  <1>1. CASE Is6(a) /\ SubSeq(a, 1, 6) = <<0, 0, 0, 0, 0, 65535>>
    <2>1. Unmap(a) = SubSeq(a, 7, 8)
      BY <1>1 DEF Unmap
    <2>2. Len(a) = 8 /\ a \in Seq(Nat)
      BY <1>1, Groups
    <2>3. /\ SubSeq(a, 7, 8) \in Seq(Nat) /\ Len(SubSeq(a, 7, 8)) = 2
          /\ \A i \in 1..2 : SubSeq(a, 7, 8)[i] = a[i + 6]
      <3>1. 7 \in 1..(Len(a) + 1) /\ 8 \in 0..Len(a) /\ 7 <= 8 + 1
        BY <2>2
      <3>2. /\ SubSeq(a, 7, 8) \in Seq(Nat) /\ Len(SubSeq(a, 7, 8)) = 8 - 7 + 1
            /\ \A n \in 1..(8 - 7 + 1) : SubSeq(a, 7, 8)[n] = a[7 + n - 1]
        BY <2>2, <3>1, Slice
      <3>3. 8 - 7 + 1 = 2 /\ \A n \in 1..2 : 7 + n - 1 = n + 6
        OBVIOUS
      <3> QED BY <3>2, <3>3
    <2>4. \A i \in 1..2 : i + 6 \in 1..Len(a)
      BY <2>2
    <2>5. IsAddr(SubSeq(a, 7, 8))
      BY <2>3, <2>4 DEF IsAddr
    <2>6. ~Is6(SubSeq(a, 7, 8))
      BY <2>3 DEF Is6
    <2> QED BY <2>1, <2>5, <2>6 DEF Unmap
  <1>2. CASE ~(Is6(a) /\ SubSeq(a, 1, 6) = <<0, 0, 0, 0, 0, 65535>>)
    <2>1. Unmap(a) = a
      BY <1>2 DEF Unmap
    <2> QED BY <2>1
  <1> QED BY <1>1, <1>2

-----------------------------------------------------------------------------
(* The guard *)

\* The refused spaces by their number, each with a reason, and those that are asked
\* whatever the zone.
LEMMA Denials ==
    /\ Len(denials) = 8
    /\ denials[1].space = loopback /\ denials[2].space = multicast
    /\ denials[3].space = {Prefix(metadata6, 128)} /\ denials[4].space = linkLocal
    /\ denials[5].space = unspecified /\ denials[6].space = private
    /\ denials[7].space = {cgnat4} /\ denials[8].space = {nat64, nat64Local}
    /\ \A k \in {1, 2, 4, 6} : denials[k].anyZone = TRUE
    /\ \A k \in {3, 5, 7, 8} : denials[k].anyZone = FALSE
    /\ \A k \in 1..8 : denials[k].reason # "allowed"
  BY DEF denials

\* Of some numbers of spaces there is a first.
LEMMA FirstHit ==
    ASSUME NEW T, T \subseteq 1..8, T # {}
    PROVE  Min(T) \in T /\ Min(T) \in 1..8 /\ \A k \in T : Min(T) <= k
  <1>1. T \subseteq Nat
    OBVIOUS
  <1>2. PICK n \in T : \A k \in T : n <= k
    BY <1>1, LeastNumber
  <1>3. Min(T) \in T /\ \A k \in T : Min(T) <= k
    BY <1>2 DEF Min
  <1> QED BY <1>3

\* What Check lets through: an exemption, or what no case refuses.
LEMMA CheckAllowed ==
    ASSUME NEW g, NEW a
    PROVE  Check(g, a) = "allowed" <=>
               In(Unmap(a), g.permitted) \/ \A k \in 1..8 : ~Denies(denials[k], Unmap(a))
  <1> DEFINE hits == {k \in 1..Len(denials) : Denies(denials[k], Unmap(a))}
  <1>1. Check(g, a) = IF In(Unmap(a), g.permitted) \/ hits = {} THEN "allowed"
                      ELSE denials[Min(hits)].reason
    BY DEF Check
  <1>2. hits \subseteq 1..8 /\ (hits = {} <=> \A k \in 1..8 : ~Denies(denials[k], Unmap(a)))
    BY Denials
  <1> HIDE DEF hits
  <1>3. hits # {} => denials[Min(hits)].reason # "allowed"
    <2>1. hits # {} => Min(hits) \in 1..8
      BY <1>2, FirstHit
    <2> QED BY <2>1, Denials
  <1> QED BY <1>1, <1>2, <1>3

\* The network of the metadata service, and each part of it, is in the private IPv6
\* space.
LEMMA MetadataIsPrivate ==
    ASSUME NEW last \in Nat, NEW n \in Nat, n >= 16,
           NEW a, IsAddr(a), PrefixContains(Prefix(V6(64768, 3778, 0, last), n), a)
    PROVE  PrefixContains(Prefix(V6(64512, 0, 0, 0), 7), a)
  <1> DEFINE p == Prefix(V6(64768, 3778, 0, last), n)
             q == Prefix(V6(64512, 0, 0, 0), 7)
  <1>1. Open(p, 1) = 1 /\ Open(q, 1) = 512 /\ \A i \in 2..8 : Open(q, i) = 65536
    BY Powers DEF Open, Prefix
  <1>2. Len(a) = 8 /\ a[1] \div Open(p, 1) = p.addr[1] \div Open(p, 1)
    <2>1. Len(p.addr) = 8
      BY DEF Prefix, V6
    <2> HIDE DEF p
    <2>2. Len(p.addr) = Len(a) /\ \A i \in 1..Len(a) : a[i] \div Open(p, i) = p.addr[i] \div Open(p, i)
      BY DEF PrefixContains, p
    <2> QED BY <2>1, <2>2
  <1>3. a[1] = 64768
    <2>1. p.addr[1] = 64768
      BY DEF Prefix, V6
    <2>2. a[1] \in Nat
      BY <1>2 DEF IsAddr
    <2> HIDE DEF p
    <2> QED BY <1>1, <1>2, <2>1, <2>2
  <1>4. a[1] \div Open(q, 1) = q.addr[1] \div Open(q, 1)
    BY <1>1, <1>3 DEF Prefix, V6
  <1>5. ASSUME NEW i \in 2..8 PROVE a[i] \div Open(q, i) = q.addr[i] \div Open(q, i)
    <2>1. a[i] \in Nat /\ a[i] <= 65535
      BY <1>2, SMTT(30) DEF IsAddr
    <2>2. q.addr[i] = 0
      BY DEF Prefix, V6
    <2> QED BY <1>1, <2>1, <2>2
  <1>6. Len(q.addr) = 8 /\ \A i \in 1..8 : i = 1 \/ i \in 2..8
    BY DEF Prefix, V6
  <1> HIDE DEF q
  <1>7. \A i \in 1..Len(a) : a[i] \div Open(q, i) = q.addr[i] \div Open(q, i)
    BY <1>2, <1>4, <1>5, <1>6
  <1>8. PrefixContains(q, a)
    BY <1>2, <1>6, <1>7 DEF PrefixContains
  <1> QED BY <1>8 DEF q

\* A prefix and an address it holds agree in the first group, as far as it goes.
LEMMA FirstGroup ==
    ASSUME NEW p, NEW a, PrefixContains(p, a), Len(p.addr) \in {2, 8}
    PROVE  Len(a) = Len(p.addr) /\ a[1] \div Open(p, 1) = p.addr[1] \div Open(p, 1)
  <1>1. Len(p.addr) = Len(a) /\ \A i \in 1..Len(a) : a[i] \div Open(p, i) = p.addr[i] \div Open(p, i)
    BY DEF PrefixContains
  <1>2. 1 \in 1..Len(a)
    <2>1. Len(a) = 2 \/ Len(a) = 8
      BY <1>1
    <2>2. 1 \in 1..2 /\ 1 \in 1..8
      OBVIOUS
    <2> QED BY <2>1, <2>2
  <1> QED BY <1>1, <1>2

\* What an address of each space begins with, x being its first group.
Begun(a, x) ==
    /\ In(a, loopback) => (Len(a) = 2 /\ x \div 256 = 127) \/ (Len(a) = 8 /\ x = 0)
    /\ In(a, multicast) => (Len(a) = 2 /\ x \div 4096 = 14) \/ (Len(a) = 8 /\ x \div 256 = 255)
    /\ In(a, unspecified) => x = 0
    /\ In(a, {Prefix(<<43518, 0>>, 16)}) => Len(a) = 2 /\ x = 43518
    /\ In(a, {Prefix(V6(65152, 0, 0, 0), 10)}) => Len(a) = 8 /\ x \div 64 = 1018
    /\ In(a, {Prefix(metadata6, 128)}) => Len(a) = 8 /\ x = 64768
    /\ In(a, PrivateRanges4) =>
           Len(a) = 2 /\ (x \div 256 = 10 \/ x \div 16 = 2753 \/ x = 49320)
    /\ In(a, {Prefix(V6(64512, 0, 0, 0), 7)}) => Len(a) = 8 /\ x \div 512 = 126

\* Every address does.
LEMMA SpaceBegins ==
    ASSUME NEW a, IsAddr(a)
    PROVE  Begun(a, a[1])
  <1>1. a[1] \in Nat /\ a[1] <= 65535
    <2>1. Len(a) = 2 \/ Len(a) = 8
      BY DEF IsAddr
    <2>2. 1 \in 1..2 /\ 1 \in 1..8
      OBVIOUS
    <2>3. \A i \in 1..Len(a) : a[i] \in Nat /\ a[i] <= 65535
      BY DEF IsAddr
    <2> QED BY <2>1, <2>2, <2>3
  <1>2. ASSUME NEW x, NEW y, NEW n, PrefixContains(Prefix(<<x, y>>, n), a)
        PROVE  Len(a) = 2 /\ a[1] \div Open(Prefix(<<x, y>>, n), 1) = x \div Open(Prefix(<<x, y>>, n), 1)
    <2> DEFINE p == Prefix(<<x, y>>, n)
    <2>1. Len(p.addr) = 2 /\ p.addr[1] = x
      BY DEF Prefix
    <2> HIDE DEF p
    <2> QED BY <1>2, <2>1, FirstGroup DEF p
  <1>3. ASSUME NEW x, NEW y, NEW z, NEW l, NEW n, PrefixContains(Prefix(V6(x, y, z, l), n), a)
        PROVE  /\ Len(a) = 8
               /\ a[1] \div Open(Prefix(V6(x, y, z, l), n), 1)
                    = x \div Open(Prefix(V6(x, y, z, l), n), 1)
    <2> DEFINE p == Prefix(V6(x, y, z, l), n)
    <2>1. Len(p.addr) = 8 /\ p.addr[1] = x
      BY DEF Prefix, V6
    <2> HIDE DEF p
    <2> QED BY <1>3, <2>1, FirstGroup DEF p
  <1>4. \A b : /\ Open(Prefix(b, 4), 1) = 4096 /\ Open(Prefix(b, 7), 1) = 512
               /\ Open(Prefix(b, 8), 1) = 256 /\ Open(Prefix(b, 10), 1) = 64
               /\ Open(Prefix(b, 12), 1) = 16 /\ Open(Prefix(b, 16), 1) = 1
               /\ Open(Prefix(b, 32), 1) = 1 /\ Open(Prefix(b, 128), 1) = 1
    BY Powers DEF Open, Prefix
  <1>5. In(a, loopback) => (Len(a) = 2 /\ a[1] \div 256 = 127) \/ (Len(a) = 8 /\ a[1] = 0)
    <2> SUFFICES ASSUME NEW p \in loopback, PrefixContains(p, a)
                 PROVE (Len(a) = 2 /\ a[1] \div 256 = 127) \/ (Len(a) = 8 /\ a[1] = 0)
      BY DEF In
    <2>1. CASE p = Prefix(<<32512, 0>>, 8)
      <3>1. Len(a) = 2 /\ a[1] \div 256 = 32512 \div 256
        BY <1>2, <1>4, <2>1
      <3> QED BY <1>1, <3>1
    <2>2. CASE p = Prefix(V6(0, 0, 0, 1), 128)
      <3>1. Len(a) = 8 /\ a[1] \div 1 = 0 \div 1
        BY <1>3, <1>4, <2>2
      <3> QED BY <1>1, <3>1
    <2> QED BY <2>1, <2>2 DEF loopback
  <1>6. In(a, multicast) => (Len(a) = 2 /\ a[1] \div 4096 = 14) \/ (Len(a) = 8 /\ a[1] \div 256 = 255)
    <2> SUFFICES ASSUME NEW p \in multicast, PrefixContains(p, a)
                 PROVE (Len(a) = 2 /\ a[1] \div 4096 = 14) \/ (Len(a) = 8 /\ a[1] \div 256 = 255)
      BY DEF In
    <2>1. CASE p = Prefix(<<57344, 0>>, 4)
      <3>1. Len(a) = 2 /\ a[1] \div 4096 = 57344 \div 4096
        BY <1>2, <1>4, <2>1
      <3> QED BY <1>1, <3>1
    <2>2. CASE p = Prefix(V6(65280, 0, 0, 0), 8)
      <3>1. Len(a) = 8 /\ a[1] \div 256 = 65280 \div 256
        BY <1>3, <1>4, <2>2
      <3> QED BY <1>1, <3>1
    <2> QED BY <2>1, <2>2 DEF multicast
  <1>7. In(a, unspecified) => a[1] = 0
    <2> SUFFICES ASSUME NEW p \in unspecified, PrefixContains(p, a) PROVE a[1] = 0
      BY DEF In
    <2>1. CASE p = Prefix(<<0, 0>>, 32)
      <3>1. a[1] \div 1 = 0 \div 1
        BY <1>2, <1>4, <2>1
      <3> QED BY <1>1, <3>1
    <2>2. CASE p = Prefix(V6(0, 0, 0, 0), 128)
      <3>1. a[1] \div 1 = 0 \div 1
        BY <1>3, <1>4, <2>2
      <3> QED BY <1>1, <3>1
    <2> QED BY <2>1, <2>2 DEF unspecified
  <1>8. In(a, {Prefix(<<43518, 0>>, 16)}) => Len(a) = 2 /\ a[1] = 43518
    <2> SUFFICES ASSUME PrefixContains(Prefix(<<43518, 0>>, 16), a) PROVE Len(a) = 2 /\ a[1] = 43518
      BY DEF In
    <2>1. Len(a) = 2 /\ a[1] \div 1 = 43518 \div 1
      BY <1>2, <1>4
    <2> QED BY <1>1, <2>1
  <1>9. In(a, {Prefix(V6(65152, 0, 0, 0), 10)}) => Len(a) = 8 /\ a[1] \div 64 = 1018
    <2> SUFFICES ASSUME PrefixContains(Prefix(V6(65152, 0, 0, 0), 10), a)
                 PROVE Len(a) = 8 /\ a[1] \div 64 = 1018
      BY DEF In
    <2>1. Len(a) = 8 /\ a[1] \div 64 = 65152 \div 64
      BY <1>3, <1>4
    <2> QED BY <1>1, <2>1
  <1>10. In(a, {Prefix(metadata6, 128)}) => Len(a) = 8 /\ a[1] = 64768
    <2> SUFFICES ASSUME PrefixContains(Prefix(metadata6, 128), a) PROVE Len(a) = 8 /\ a[1] = 64768
      BY DEF In
    <2>1. Len(a) = 8 /\ a[1] \div 1 = 64768 \div 1
      BY <1>3, <1>4 DEF metadata6
    <2> QED BY <1>1, <2>1
  <1>11. In(a, PrivateRanges4) =>
            Len(a) = 2 /\ (a[1] \div 256 = 10 \/ a[1] \div 16 = 2753 \/ a[1] = 49320)
    <2> SUFFICES ASSUME NEW p \in PrivateRanges4, PrefixContains(p, a)
                 PROVE Len(a) = 2 /\ (a[1] \div 256 = 10 \/ a[1] \div 16 = 2753 \/ a[1] = 49320)
      BY DEF In
    <2>1. CASE p = Prefix(<<2560, 0>>, 8)
      <3>1. Len(a) = 2 /\ a[1] \div 256 = 2560 \div 256
        BY <1>2, <1>4, <2>1
      <3> QED BY <1>1, <3>1
    <2>2. CASE p = Prefix(<<44048, 0>>, 12)
      <3>1. Len(a) = 2 /\ a[1] \div 16 = 44048 \div 16
        BY <1>2, <1>4, <2>2
      <3> QED BY <1>1, <3>1
    <2>3. CASE p = Prefix(<<49320, 0>>, 16)
      <3>1. Len(a) = 2 /\ a[1] \div 1 = 49320 \div 1
        BY <1>2, <1>4, <2>3
      <3> QED BY <1>1, <3>1
    <2>4. p # Prefix(V6(64512, 0, 0, 0), 7)
      <3> DEFINE unique == Prefix(V6(64512, 0, 0, 0), 7)
      <3>1. ~Is6(p.addr)
        BY DEF PrivateRanges4
      <3>2. Len(unique.addr) = 8
        BY DEF Prefix, V6
      <3> HIDE DEF unique
      <3>3. Is6(unique.addr)
        BY <3>2 DEF Is6
      <3>4. p # unique
        BY <3>1, <3>3, Zenon
      <3> QED BY <3>4 DEF unique
    <2> QED BY <2>1, <2>2, <2>3, <2>4 DEF PrivateRanges4, private
  <1>12. In(a, {Prefix(V6(64512, 0, 0, 0), 7)}) => Len(a) = 8 /\ a[1] \div 512 = 126
    <2> SUFFICES ASSUME PrefixContains(Prefix(V6(64512, 0, 0, 0), 7), a)
                 PROVE Len(a) = 8 /\ a[1] \div 512 = 126
      BY DEF In
    <2>1. Len(a) = 8 /\ a[1] \div 512 = 64512 \div 512
      BY <1>3, <1>4
    <2> QED BY <1>1, <2>1
  <1> QED BY <1>5, <1>6, <1>7, <1>8, <1>9, <1>10, <1>11, <1>12 DEF Begun

\* The private space is that of the rules for it.
LEMMA PrivateParts ==
    ASSUME NEW a
    PROVE  /\ In(a, private) <=> In(a, PrivateRanges4) \/ In(a, {Prefix(V6(64512, 0, 0, 0), 7)})
           /\ In(a, linkLocal \cup {Prefix(metadata6, 128)})
                <=> \/ In(a, {Prefix(<<43518, 0>>, 16)}) \/ In(a, {Prefix(metadata6, 128)})
                    \/ In(a, {Prefix(V6(65152, 0, 0, 0), 10)})
  <1>1. private = PrivateRanges4 \cup {Prefix(V6(64512, 0, 0, 0), 7)}
    <2>1. /\ ~Is6(Prefix(<<2560, 0>>, 8).addr) /\ ~Is6(Prefix(<<44048, 0>>, 12).addr)
          /\ ~Is6(Prefix(<<49320, 0>>, 16).addr) /\ Is6(Prefix(V6(64512, 0, 0, 0), 7).addr)
      BY DEF Is6, Prefix, V6
    <2> QED BY <2>1 DEF PrivateRanges4, private
  <1>2. ASSUME NEW S, NEW T PROVE In(a, S \cup T) <=> In(a, S) \/ In(a, T)
    BY DEF In
  <1>3. linkLocal \cup {Prefix(metadata6, 128)} =
            {Prefix(<<43518, 0>>, 16)} \cup ({Prefix(metadata6, 128)} \cup {Prefix(V6(65152, 0, 0, 0), 10)})
    BY DEF linkLocal
  <1>4. In(a, private) <=> In(a, PrivateRanges4) \/ In(a, {Prefix(V6(64512, 0, 0, 0), 7)})
    BY <1>1, <1>2
  <1>5. In(a, linkLocal \cup {Prefix(metadata6, 128)})
           <=> \/ In(a, {Prefix(<<43518, 0>>, 16)}) \/ In(a, {Prefix(metadata6, 128)})
               \/ In(a, {Prefix(V6(65152, 0, 0, 0), 10)})
    <2>1. In(a, {Prefix(metadata6, 128)} \cup {Prefix(V6(65152, 0, 0, 0), 10)})
             <=> In(a, {Prefix(metadata6, 128)}) \/ In(a, {Prefix(V6(65152, 0, 0, 0), 10)})
      BY <1>2
    <2>2. In(a, {Prefix(<<43518, 0>>, 16)} \cup ({Prefix(metadata6, 128)} \cup {Prefix(V6(65152, 0, 0, 0), 10)}))
             <=> \/ In(a, {Prefix(<<43518, 0>>, 16)})
                 \/ In(a, {Prefix(metadata6, 128)} \cup {Prefix(V6(65152, 0, 0, 0), 10)})
      BY <1>2
    <2> QED BY <1>3, <2>1, <2>2
  <1> QED BY <1>4, <1>5

\* The cases that ask whole addresses and hold IPv6 ones the others do not.
LEMMA PartsOfSpaces ==
    ASSUME NEW a, IsAddr(a)
    PROVE  /\ In(a, denials[3].space) => In(a, denials[6].space)
           /\ In(a, denials[5].space) \/ In(a, denials[8].space) => In(a, ZoneMatters)
           /\ In(a, denials[7].space) => Len(a) = 2
  <1>1. Prefix(V6(64512, 0, 0, 0), 7) \in private
    BY DEF private
  <1>2. ASSUME In(a, denials[3].space) PROVE In(a, denials[6].space)
    <2>1. PrefixContains(Prefix(V6(64768, 3778, 0, 596), 128), a)
      BY <1>2, Denials DEF In, metadata6
    <2>2. PrefixContains(Prefix(V6(64512, 0, 0, 0), 7), a)
      <3>1. 596 \in Nat /\ 128 \in Nat /\ 128 >= 16
        BY SMT
      <3> QED BY <2>1, <3>1, MetadataIsPrivate
    <2> QED BY <1>1, <2>2, Denials DEF In
  <1>3. In(a, denials[5].space) \/ In(a, denials[8].space) => In(a, ZoneMatters)
    BY Denials DEF In, ZoneMatters
  <1>4. In(a, denials[7].space) => Len(a) = 2
    <2>1. Len(cgnat4.addr) = 2
      BY DEF cgnat4, Prefix
    <2> QED BY <2>1, Denials DEF In, PrefixContains
  <1> QED BY <1>2, <1>3, <1>4

\* What a zone takes out of the tests is in no case that does not look at the zone.
LEMMA ZoneMattersAlone ==
    ASSUME NEW a, IsAddr(a), Len(a) = 8, In(a, ZoneMatters)
    PROVE  \A k \in {1, 2, 4, 6} : ~In(a, denials[k].space)
  <1>1. a[1] = 0 \/ a[1] = 100
    <2>1. ASSUME PrefixContains(nat64, a) PROVE a[1] = 100
      <3>1. Len(nat64.addr) = 8 /\ nat64.addr[1] = 100 /\ Open(nat64, 1) = 1
        BY Powers DEF nat64, Prefix, V6, Open
      <3>2. a[1] \div 1 = 100 \div 1
        BY <2>1, <3>1, FirstGroup
      <3> QED BY <3>2, Groups DEF IsAddr
    <2>2. ASSUME PrefixContains(nat64Local, a) PROVE a[1] = 100
      <3>1. Len(nat64Local.addr) = 8 /\ nat64Local.addr[1] = 100 /\ Open(nat64Local, 1) = 1
        BY Powers DEF nat64Local, Prefix, V6, Open
      <3>2. a[1] \div 1 = 100 \div 1
        BY <2>2, <3>1, FirstGroup
      <3> QED BY <3>2, Groups DEF IsAddr
    <2>3. In(a, unspecified) => a[1] = 0
      BY SpaceBegins DEF Begun
    <2> QED BY <2>1, <2>2, <2>3 DEF In, ZoneMatters
  <1>2. Begun(a, a[1])
    BY SpaceBegins
  <1>3. ~In(a, multicast)
    BY <1>1, <1>2 DEF Begun
  <1>4. ~In(a, linkLocal)
    <2>1. ~In(a, {Prefix(<<43518, 0>>, 16)}) /\ ~In(a, {Prefix(V6(65152, 0, 0, 0), 10)})
      BY <1>1, <1>2 DEF Begun
    <2> QED BY <2>1 DEF In, linkLocal
  <1>5. ~In(a, private)
    <2>1. ~In(a, PrivateRanges4) /\ ~In(a, {Prefix(V6(64512, 0, 0, 0), 7)})
      BY <1>1, <1>2 DEF Begun
    <2> QED BY <2>1, PrivateParts
  <1>6. ~In(a, loopback)
    <2>1. ASSUME NEW last \in Nat, NEW p, p = Prefix(V6(0, 0, 0, last), 128), PrefixContains(p, a)
          PROVE  a[8] = last
      <3>1. Len(p.addr) = 8 /\ p.addr[8] = last /\ Open(p, 8) = 1
        BY <2>1, Powers DEF Prefix, V6, Open
      <3>2. a[8] \div 1 = last \div 1
        BY <2>1, <3>1 DEF PrefixContains
      <3>3. a[8] \in Nat
        BY DEF IsAddr
      <3> QED BY <3>2, <3>3
    <2>2. In(a, loopback) => a[1] = 0
      BY <1>2 DEF Begun
    <2>3. In(a, loopback) => a[8] = 1
      <3>1. ~PrefixContains(Prefix(<<32512, 0>>, 8), a)
        BY DEF PrefixContains, Prefix
      <3> QED BY <2>1, <3>1 DEF In, loopback
    <2>4. a[1] = 0 => a[8] = 0
      <3>1. ~PrefixContains(Prefix(<<0, 0>>, 32), a)
        BY DEF PrefixContains, Prefix
      <3>2. a[1] = 0 => ~PrefixContains(nat64, a) /\ ~PrefixContains(nat64Local, a)
        <4>1. /\ Len(nat64.addr) = 8 /\ nat64.addr[1] = 100 /\ Open(nat64, 1) = 1
              /\ Len(nat64Local.addr) = 8 /\ nat64Local.addr[1] = 100 /\ Open(nat64Local, 1) = 1
          BY Powers DEF nat64, nat64Local, Prefix, V6, Open
        <4> QED BY <4>1, FirstGroup
      <3> QED BY <2>1, <3>1, <3>2 DEF In, ZoneMatters, unspecified
    <2> QED BY <2>2, <2>3, <2>4
  <1> QED BY <1>3, <1>4, <1>5, <1>6, Denials

\* What can never be exempted is refused by some case.
LEMMA NeverExemptIsDenied ==
    ASSUME NEW a, IsAddr(a), In(a, neverExempt)
    PROVE  \E k \in 1..8 : In(a, denials[k].space)
  <1>1. PICK p \in neverExempt : PrefixContains(p, a)
    BY DEF In
  <1>2. CASE p \in linkLocal
    <2>1. In(a, denials[4].space)
      BY <1>1, <1>2, Denials DEF In
    <2> QED BY <2>1
  <1>3. CASE p \in multicast
    <2>1. In(a, denials[2].space)
      BY <1>1, <1>3, Denials DEF In
    <2> QED BY <2>1
  <1>4. CASE p = cgnat4
    <2>1. In(a, denials[7].space)
      BY <1>1, <1>4, Denials DEF In
    <2> QED BY <2>1
  <1>5. CASE p \in {nat64, nat64Local}
    <2>1. In(a, denials[8].space)
      BY <1>1, <1>5, Denials DEF In
    <2> QED BY <2>1
  <1>6. CASE p = Prefix(V6(64768, 3778, 0, 0), 64)
    <2>1. PrefixContains(Prefix(V6(64512, 0, 0, 0), 7), a)
      <3>1. 0 \in Nat /\ 64 \in Nat /\ 64 >= 16
        BY SMT
      <3> QED BY <1>1, <1>6, <3>1, MetadataIsPrivate
    <2>2. Prefix(V6(64512, 0, 0, 0), 7) \in private
      BY DEF private
    <2>3. In(a, denials[6].space)
      BY <2>1, <2>2, Denials DEF In
    <2> QED BY <2>3
  <1> QED BY <1>2, <1>3, <1>4, <1>5, <1>6 DEF neverExempt

\* The spaces that can never be exempted are prefixes.
LEMMA NeverExemptPrefixes ==
    ASSUME NEW p \in neverExempt
    PROVE  IsPrefixOf(p)
  <1>1. /\ IsPrefixOf(Prefix(<<43518, 0>>, 16)) /\ IsPrefixOf(Prefix(<<57344, 0>>, 4))
        /\ IsPrefixOf(Prefix(<<25664, 0>>, 10))
    BY Addr4, PrefixOf
  <1>2. /\ IsAddr(V6(65152, 0, 0, 0)) /\ IsAddr(V6(65280, 0, 0, 0))
        /\ IsAddr(V6(100, 65435, 0, 0)) /\ IsAddr(V6(100, 65435, 1, 0))
        /\ IsAddr(V6(64768, 3778, 0, 0))
    BY Addr6
  <1>3. /\ IsPrefixOf(Prefix(V6(65152, 0, 0, 0), 10)) /\ IsPrefixOf(Prefix(V6(65280, 0, 0, 0), 8))
        /\ IsPrefixOf(Prefix(V6(100, 65435, 0, 0), 96))
        /\ IsPrefixOf(Prefix(V6(100, 65435, 1, 0), 48))
        /\ IsPrefixOf(Prefix(V6(64768, 3778, 0, 0), 64))
    BY <1>2, PrefixOf
  <1> QED BY <1>1, <1>3 DEF neverExempt, linkLocal, multicast, cgnat4, nat64, nat64Local

\* So are those of the cases that compare whole addresses.
LEMMA WholePrefixes ==
    ASSUME NEW k \in {3, 5, 7, 8}, NEW p \in denials[k].space
    PROVE  IsPrefixOf(p)
  <1>1. CASE k = 3
    <2>1. IsPrefixOf(Prefix(V6(64768, 3778, 0, 596), 128))
      BY Addr6, PrefixOf
    <2> QED BY <1>1, <2>1, Denials DEF metadata6
  <1>2. CASE k = 5
    <2>1. IsPrefixOf(Prefix(<<0, 0>>, 32))
      BY Addr4, PrefixOf
    <2>2. IsPrefixOf(Prefix(V6(0, 0, 0, 0), 128))
      <3>1. IsAddr(V6(0, 0, 0, 0))
        BY Addr6
      <3> QED BY <3>1, PrefixOf
    <2> QED BY <1>2, <2>1, <2>2, Denials DEF unspecified
  <1>3. CASE k \in {7, 8}
    <2>1. {cgnat4, nat64, nat64Local} \subseteq neverExempt
      BY DEF neverExempt
    <2> QED BY <1>3, <2>1, Denials, NeverExemptPrefixes
  <1> QED BY <1>1, <1>2, <1>3

\* A guard that was made exempts nothing of the space that can never be exempted.
LEMMA NothingExempted ==
    ASSUME NEW permit, \A p \in permit : IsPrefixOf(p), NewGuard(permit) # None,
           NEW a, IsAddr(a), In(a, NewGuard(permit).permitted)
    PROVE  ~In(a, neverExempt)
  <1>1. /\ \A p \in permit : \A banned \in neverExempt : ~prefixesOverlap(Masked(p), banned)
        /\ NewGuard(permit).permitted = {Masked(p) : p \in permit}
    BY DEF NewGuard
  <1>2. PICK p \in permit : PrefixContains(Masked(p), a)
    BY <1>1 DEF In
  <1>3. SUFFICES ASSUME NEW banned \in neverExempt, PrefixContains(banned, a) PROVE FALSE
    BY DEF In
  <1>4. IsPrefixOf(Masked(p)) /\ IsPrefixOf(banned)
    BY MaskedGroups, NeverExemptPrefixes
  <1>5. Masked(p).bits \in Nat /\ banned.bits \in Nat
    BY <1>4 DEF IsPrefixOf
  <1>6. CASE Masked(p).bits <= banned.bits
    <2>1. PrefixContains(Masked(p), Masked(banned).addr)
      BY <1>2, <1>3, <1>4, <1>6, Nested
    <2> QED BY <1>1, <2>1 DEF prefixesOverlap
  <1>7. CASE banned.bits <= Masked(p).bits
    <2>1. PrefixContains(banned, Masked(Masked(p)).addr)
      BY <1>2, <1>3, <1>4, <1>7, Nested
    <2> QED BY <1>1, <2>1 DEF prefixesOverlap
  <1> QED BY <1>5, <1>6, <1>7

\* An address, with a zone or without.
IsZoned(a) == \E b : \E zone \in Nat : IsAddr(b) /\ Len(b) = 8 /\ a = WithZone(b, zone)
IsAnyAddr(a) == IsAddr(a) \/ IsZoned(a)

\* What is appended comes after what was there.
LEMMA AppendedAfter ==
    ASSUME NEW S, NEW s \in Seq(S), NEW x \in S
    PROVE  Len(Append(s, x)) = Len(s) + 1 /\ \A i \in 1..Len(s) : Append(s, x)[i] = s[i]
  OBVIOUS

\* A zone comes after the groups, which it leaves as they are.
LEMMA ZoneApart ==
    ASSUME NEW b, IsAddr(b), Len(b) = 8, NEW zone \in Nat
    PROVE  LET a == WithZone(b, zone) IN
           /\ a \in Seq(Nat) /\ Len(a) = 9 /\ \A i \in 1..8 : a[i] = b[i]
           /\ WithoutZone(a) = b
           /\ SubSeq(a, 1, 6) = SubSeq(b, 1, 6) /\ SubSeq(a, 7, 8) = SubSeq(b, 7, 8)
  <1> DEFINE a == WithZone(b, zone)
  <1>1. b \in Seq(Nat)
    BY DEF IsAddr
  <1>2. a \in Seq(Nat) /\ Len(a) = 9 /\ \A i \in 1..8 : a[i] = b[i]
    <2>1. a = Append(b, zone)
      BY DEF WithZone
    <2> HIDE DEF a
    <2>2. a \in Seq(Nat)
      BY <1>1, <2>1
    <2>3. Len(a) = 9
      <3>1. Len(Append(b, zone)) = Len(b) + 1
        BY <1>1, AppendedAfter, Zenon
      <3> QED BY <2>1, <3>1
    <2>4. ASSUME NEW i \in 1..8 PROVE a[i] = b[i]
      <3>1. i \in 1..Len(b)
        OBVIOUS
      <3>2. Append(b, zone)[i] = b[i]
        BY <1>1, <3>1, AppendedAfter, Zenon
      <3> QED BY <2>1, <3>2
    <2> QED BY <2>2, <2>3, <2>4
  <1> HIDE DEF a
  <1>3. ASSUME NEW m \in 1..8, NEW n \in m..8 PROVE SubSeq(a, m, n) = SubSeq(b, m, n)
    <2>1. /\ SubSeq(a, m, n) \in Seq(Nat) /\ Len(SubSeq(a, m, n)) = n - m + 1
          /\ \A k \in 1..(n - m + 1) : SubSeq(a, m, n)[k] = a[m + k - 1]
      <3>1. m \in 1..(Len(a) + 1) /\ n \in 0..Len(a) /\ m <= n + 1
        BY <1>2
      <3> QED BY <1>2, <3>1, Slice
    <2>2. /\ SubSeq(b, m, n) \in Seq(Nat) /\ Len(SubSeq(b, m, n)) = n - m + 1
          /\ \A k \in 1..(n - m + 1) : SubSeq(b, m, n)[k] = b[m + k - 1]
      <3>1. m \in 1..(Len(b) + 1) /\ n \in 0..Len(b) /\ m <= n + 1
        OBVIOUS
      <3> QED BY <1>1, <3>1, Slice
    <2>3. \A k \in 1..(n - m + 1) : m + k - 1 \in 1..8
      OBVIOUS
    <2> QED BY <1>2, <2>1, <2>2, <2>3
  <1>4. SubSeq(a, 1, 6) = SubSeq(b, 1, 6) /\ SubSeq(a, 7, 8) = SubSeq(b, 7, 8)
    BY <1>3
  <1>5. SubSeq(a, 1, 8) = b
    <2>1. SubSeq(a, 1, 8) = SubSeq(b, 1, 8)
      BY <1>3
    <2>2. SubSeq(b, 1, 8) = b
      BY <1>1
    <2> QED BY <2>1, <2>2
  <1> QED BY <1>2, <1>4, <1>5 DEF a, WithoutZone

\* Without the zone, and without the IPv6 spelling of an IPv4 address, it is an
\* address; no prefix holds what has a zone.
LEMMA Bare ==
    ASSUME NEW addr, IsAnyAddr(addr)
    PROVE  LET a == Unmap(addr)
               bare == WithoutZone(a)
           IN /\ IsAddr(bare) /\ Unmap(a) = a
              /\ a # bare => Len(bare) = 8 /\ \A p : IsPrefixOf(p) => ~PrefixContains(p, a)
  <1>1. ASSUME NEW a, IsAddr(a) PROVE WithoutZone(a) = a
    BY <1>1, Groups
  <1>2. CASE IsAddr(addr)
    BY <1>1, <1>2, Unmapped
  <1>3. CASE IsZoned(addr)
    <2>1. PICK b : \E zone \in Nat : IsAddr(b) /\ Len(b) = 8 /\ addr = WithZone(b, zone)
      BY <1>3 DEF IsZoned
    <2>7. PICK zone \in Nat : addr = WithZone(b, zone)
      BY <2>1
    <2>2. /\ Len(addr) = 9 /\ WithoutZone(addr) = b
          /\ SubSeq(addr, 1, 6) = SubSeq(b, 1, 6) /\ SubSeq(addr, 7, 8) = SubSeq(b, 7, 8)
      BY <2>1, <2>7, ZoneApart
    <2>3. Is6(addr) /\ Is6(b)
      BY <2>1, <2>2 DEF Is6
    <2>4. Unmap(addr) = addr \/ Unmap(addr) = Unmap(b)
      <3> DEFINE four == <<0, 0, 0, 0, 0, 65535>>
      <3>1. Unmap(addr) = IF Is6(addr) /\ SubSeq(addr, 1, 6) = four THEN SubSeq(addr, 7, 8) ELSE addr
        BY SMT DEF Unmap
      <3>2. Unmap(b) = IF Is6(b) /\ SubSeq(b, 1, 6) = four THEN SubSeq(b, 7, 8) ELSE b
        BY SMT DEF Unmap
      <3> HIDE DEF four
      <3>3. CASE SubSeq(b, 1, 6) = four
        BY <2>2, <2>3, <3>1, <3>2, <3>3
      <3>4. CASE SubSeq(b, 1, 6) # four
        BY <2>2, <3>1, <3>4
      <3> QED BY <3>3, <3>4
    <2>5. CASE Unmap(addr) = addr
      <3>1. ASSUME NEW p, IsPrefixOf(p) PROVE ~PrefixContains(p, addr)
        <4>1. IsAddr(p.addr)
          BY <3>1 DEF IsPrefixOf
        <4>2. Len(p.addr) # 9
          <5>1. Len(p.addr) = 2 \/ Len(p.addr) = 8
            BY <4>1, Groups, Zenon
          <5> QED BY <5>1
        <4> QED BY <2>2, <4>2 DEF PrefixContains
      <3> QED BY <2>1, <2>2, <2>5, <3>1
    <2>6. CASE Unmap(addr) = Unmap(b)
      BY <1>1, <2>1, <2>6, Unmapped
    <2> QED BY <2>4, <2>5, <2>6
  <1> QED BY <1>2, <1>3 DEF IsAnyAddr

\* Whatever exemptions NewGuard accepts: Check lets nothing through of the space that
\* can never be exempted, and of all refused space what was listed; an address with a
\* zone passes exactly if its groups are in no refused space or in the NAT64 ranges or
\* ::; and an IPv4 address is judged as its IPv6 spelling (internal/confine/guard.go).
THEOREM GuardSound ==
    ASSUME NEW permit, \A p \in permit : IsPrefixOf(p), NewGuard(permit) # None,
           NEW addr, IsAnyAddr(addr)
    PROVE  LET g == NewGuard(permit)
               a == Unmap(addr)
               bare == WithoutZone(a)
               passes == Check(g, addr) = "allowed"
               refused == \E k \in 1..8 : In(bare, denials[k].space)
           IN /\ a = bare /\ passes => ~In(a, neverExempt) /\ (refused => In(a, permit))
              /\ a # bare => (passes <=> (refused => In(bare, ZoneMatters)))
              /\ Check(g, addr) = Check(g, a)
  <1> DEFINE g == NewGuard(permit)
             a == Unmap(addr)
             bare == WithoutZone(a)
             passes == Check(g, addr) = "allowed"
  <1>1. /\ IsAddr(bare) /\ Unmap(a) = a
        /\ a # bare => Len(bare) = 8 /\ \A p : IsPrefixOf(p) => ~PrefixContains(p, a)
    BY Bare
  <1>2. Check(g, addr) = Check(g, a)
    BY <1>1 DEF Check
  <1>3. passes <=> In(a, g.permitted) \/ \A k \in 1..8 : ~Denies(denials[k], a)
    BY CheckAllowed
  <1>4. g.permitted = {Masked(p) : p \in permit}
    BY DEF NewGuard
  <1>5. CASE a = bare
    <2>1. IsAddr(a)
      BY <1>1, <1>5
    <2>2. \A k \in 1..8 : Denies(denials[k], a) <=> In(a, denials[k].space)
      BY <1>5 DEF Denies
    <2>3. In(a, neverExempt) => ~passes
      <3>1. In(a, neverExempt) => \E k \in 1..8 : In(a, denials[k].space)
        BY <2>1, NeverExemptIsDenied
      <3>2. In(a, neverExempt) => ~In(a, g.permitted)
        BY <2>1, NothingExempted
      <3> HIDE DEF a, g, passes
      <3> QED BY <1>3, <2>2, <3>1, <3>2
    <2>4. In(a, g.permitted) => In(a, permit)
      <3>1. \A p \in permit : PrefixContains(Masked(p), a) => PrefixContains(p, a)
        BY <2>1, MaskedContains
      <3> QED BY <1>4, <3>1 DEF In
    <2> HIDE DEF a, bare, g, passes
    <2> QED BY <1>2, <1>3, <1>5, <2>2, <2>3, <2>4 DEF a, bare, g, passes
  <1>6. CASE a # bare
    <2>1. ~In(a, g.permitted)
      <3>1. \A p \in permit : IsPrefixOf(Masked(p))
        BY MaskedGroups
      <3> HIDE DEF a
      <3> QED BY <1>1, <1>4, <1>6, <3>1 DEF In
    <2>2. \A k \in {1, 2, 4, 6} : Denies(denials[k], a) <=> In(bare, denials[k].space)
      BY Denials, Zenon DEF Denies
    <2>3. \A k \in {3, 5, 7, 8} : Denies(denials[k], a) <=> In(a, denials[k].space)
      BY Denials, Zenon DEF Denies
    <2> HIDE DEF a, bare, g, passes
    <2>4. \A k \in {3, 5, 7, 8} : ~Denies(denials[k], a)
      BY <1>1, <1>6, <2>3, WholePrefixes DEF In
    <2>5. passes <=> \A k \in {1, 2, 4, 6} : ~In(bare, denials[k].space)
      BY <1>3, <2>1, <2>2, <2>4
    <2>6. Len(bare) = 8 /\ IsAddr(bare)
      BY <1>1, <1>6
    <2>7. ASSUME passes, NEW k \in 1..8, In(bare, denials[k].space)
          PROVE  In(bare, ZoneMatters)
      <3>1. k \in {3, 5, 7, 8}
        BY <2>5, <2>7
      <3>2. k # 3 /\ k # 7
        BY <2>5, <2>6, <2>7, PartsOfSpaces
      <3> QED BY <2>6, <2>7, <3>1, <3>2, PartsOfSpaces
    <2>8. In(bare, ZoneMatters) => passes
      BY <2>5, <2>6, ZoneMattersAlone
    <2> QED BY <1>2, <1>6, <2>5, <2>7, <2>8 DEF a, bare, g, passes
  <1> QED BY <1>5, <1>6

-----------------------------------------------------------------------------
(* The questions that are asked *)

\* The addresses of the runs are addresses, and some of them have a zone.
LEMMA AddressesOK ==
    /\ \A a \in Addrs4 \cup Addrs6 \cup {Mapped(b) : b \in Addrs4} : IsAddr(a)
    /\ \A a \in Addrs : IsAnyAddr(a)
  <1>1. \A a \in Addrs4 : IsAddr(a)
    BY Addr4 DEF Addrs4
  <1>2. \A a \in Addrs6 : IsAddr(a)
    <2>1. IsAddr(V6(64768, 3778, 0, 596))
      BY Addr6
    <2> QED BY <2>1, Addr6 DEF Addrs6, metadata6
  <1>3. ASSUME NEW a \in Addrs4 PROVE IsAddr(Mapped(a))
    <2>1. PICK x \in Nat, y \in Nat : a = <<x, y>> /\ x <= 65535 /\ y <= 65535
      BY DEF Addrs4
    <2> QED BY <2>1 DEF IsAddr, Mapped
  <1>4. ASSUME NEW a \in Addrs6 PROVE IsZoned(WithZone(a, 1))
    <2>1. Len(a) = 8
      BY DEF Addrs6, V6, metadata6
    <2> QED BY <1>2, <2>1 DEF IsZoned
  <1> QED BY <1>1, <1>2, <1>3, <1>4 DEF Addrs, IsAnyAddr

\* The exemptions of the runs are prefixes.
LEMMA EntriesOK ==
    \A p \in PermitEntries : IsPrefixOf(p)
  BY AddressesOK, PrefixOf DEF PermitEntries

\* What was asked and answered, for the questions the theorems are about.
GuardAsked ==
    /\ \A p \in ask.permit : IsPrefixOf(p)
    /\ answer = NewGuard(ask.permit)
OneConnection(r, s, permit, h, port, scheme, w, how) ==
    /\ how = "short url" => port = UsualPort(scheme)
    /\ ask = AskConnection(PolicyOf(<<r, s>>, permit), Conn(h, port, scheme, w), how)
    /\ answer = Views(PolicyOf(<<r, s>>, permit), Conn(h, port, scheme, w), how)
ConnectionAsked ==
    \E r, s \in SomeRules, permit \in Exemptions, h \in SomeHosts, port \in SomePorts,
       scheme \in Schemes, w \in Agents, how \in Spellings :
        OneConnection(r, s, permit, h, port, scheme, w, how)
ActionAsked ==
    \E r \in Rules("one"), s \in Rules("two") :
        /\ ask = [kind |-> "action", rules |-> <<r, s>>]
        /\ answer = [req \in Requests |->
                        Authorize(LoadPolicyDir(<<Policy("t", <<r, s>>), Others>>, <<>>), req)]
OPAAsked ==
    \E reply \in Replies : ask = [kind |-> "opa", reply |-> reply] /\ answer = OPAAuthorize(reply)

Asked ==
    /\ ask.kind = "guard" => GuardAsked
    /\ ask.kind = "connection" => ConnectionAsked
    /\ ask.kind = "action" => ActionAsked
    /\ ask.kind = "opa" => OPAAsked

\* The kind of each question; those of four are in MoreKinds.
LEMMA Kinds ==
    /\ ReadLine => ask'.kind = "line"
    /\ HashTime => ask'.kind = "time"
    /\ HashFields => ask'.kind = "fields"
    /\ Draft => ask'.kind = "draft"
    /\ ExportAudit => ask'.kind = "export"
    /\ Receive => ask'.kind = "request"
    /\ ExportSpan => ask'.kind = "span"
    /\ Knock => ask'.kind = "door"
    /\ FollowLog => ask'.kind = "follow"
    /\ SendPacket => ask'.kind = "packet"
    /\ SendShared => ask'.kind = "shared packet"
    /\ StartWorkload => ask'.kind = "start"
    /\ Forget => ask'.kind = "idle"
  <1>1. ReadLine => ask'.kind = "line"
    BY DEF ReadLine
  <1>2. HashTime => ask'.kind = "time"
    <2> SUFFICES ASSUME HashTime PROVE ask'.kind = "time"
      OBVIOUS
    <2>1. PICK date \in Dates, clock \in Clocks, s \in Seconds, zone \in Zones,
               frac \in Fractions, strict \in BOOLEAN :
                  HashOne(Timestamp(date, clock, s, zone, frac, strict))
      BY Zenon DEF HashTime
    <2> QED BY <2>1 DEF HashOne
  <1>3. HashFields => ask'.kind = "fields"
    BY DEF HashFields
  <1>4. Draft => ask'.kind = "draft"
    BY DEF Draft
  <1>5. ASSUME ExportAudit PROVE ask'.kind = "export"
    <2>1. PICK n, key, verified, filtered, format, e, clock :
              ExportLog(format, filtered, key, verified, AuditLog(n, e, clock))
      BY <1>5, Zenon DEF ExportAudit
    <2> QED BY <2>1 DEF ExportLog
  <1>6. Receive => ask'.kind = "request"
    BY DEF Receive
  <1>7. ExportSpan => ask'.kind = "span"
    BY DEF ExportSpan, Export
  <1>8. ASSUME Knock PROVE ask'.kind = "door"
    <2>1. PICK cfg, auth, b :
             ask' = [kind |-> "door", cfg |-> cfg, auth |-> auth, body |-> b]
      BY <1>8, ZenonT(30) DEF Knock
    <2> QED BY <2>1
  <1>9. ASSUME FollowLog PROVE ask'.kind = "follow"
    <2>1. PICK x, y \in SomeLines, a, b, c \in Cuts, filter \in Filters, renamed \in BOOLEAN :
             Poll(x, y, a, b, c, filter, renamed)
      BY <1>9 DEF FollowLog
    <2> QED BY <2>1 DEF Poll
  <1>10. ASSUME SendPacket PROVE ask'.kind = "packet"
    <2>1. PICK from \in Sources, hook \in Hooks, a \in Addrs4 \cup Addrs6,
               proto \in Protocols, port \in {53, ProxyPort}, state \in States :
             Send(Pkt(from, hook, a, proto, port, state, 0, FALSE))
      BY <1>10, Zenon DEF SendPacket
    <2> QED BY <2>1 DEF Send
  <1>13. ASSUME SendShared PROVE ask'.kind = "shared packet"
    <2>1. PICK uid, proxyUID \in Users, lo \in BOOLEAN, proto \in Protocols,
               port \in SharedPorts, more \in MorePorts, state \in States :
             Leave(proto, port, state, uid, lo, proxyUID, more)
      BY <1>13, Zenon DEF SendShared
    <2>2. ask' = AskShared(SharedPkt(proto, port, state, uid, lo), Shared(proxyUID, more))
      BY <2>1 DEF Leave
    <2> QED BY <2>2 DEF AskShared
  <1>11. ASSUME StartWorkload PROVE ask'.kind = "start"
    <2>1. PICK host \in HostEnvs, flags \in EnvFlags, inherit \in BOOLEAN :
             \E a \in Subnets, bits \in Lengths, port \in {0, ProxyPort}, nameLen \in {0, 8, 9} :
                Start(host, flags, inherit, Prefix(a, bits), port, nameLen)
      BY <1>11 DEF StartWorkload
    <2>2. PICK a \in Subnets, bits \in Lengths, port \in {0, ProxyPort}, nameLen \in {0, 8, 9} :
             Start(host, flags, inherit, Prefix(a, bits), port, nameLen)
      BY <2>1, Zenon
    <2> QED BY <2>2 DEF Start
  <1>12. Forget => ask'.kind = "idle"
    BY DEF Forget, Idle
  <1> QED BY <1>1, <1>2, <1>3, <1>4, <1>5, <1>6, <1>7, <1>8, <1>9, <1>10, <1>11, <1>12, <1>13

\* The kinds of the others.
LEMMA MoreKinds ==
    /\ BuildGuard => ask'.kind = "guard"
    /\ Observe => ask'.kind = "connection"
    /\ AskPolicy => ask'.kind = "action"
    /\ AskOPA => ask'.kind = "opa"
  <1>1. BuildGuard => ask'.kind = "guard"
    BY DEF BuildGuard
  <1>2. ASSUME Observe PROVE ask'.kind = "connection"
    <2>1. PICK r, s \in SomeRules, permit \in Exemptions, h \in SomeHosts, port \in SomePorts,
               scheme \in Schemes, w \in Agents, how \in Spellings :
                  Connect(r, s, permit, h, port, scheme, w, how)
      BY <1>2 DEF Observe
    <2> QED BY <2>1 DEF Connect, AskConnection
  <1>3. ASSUME AskPolicy PROVE ask'.kind = "action"
    <2>1. PICK rules : ask' = [kind |-> "action", rules |-> rules]
      BY <1>3, Zenon DEF AskPolicy
    <2> QED BY <2>1
  <1>4. AskOPA => ask'.kind = "opa"
    BY DEF AskOPA
  <1> QED BY <1>1, <1>2, <1>3, <1>4

\* No other question has a kind of these.
LEMMA OtherKinds ==
    ASSUME Next
    PROVE  \/ BuildGuard \/ Observe \/ AskPolicy \/ AskOPA
           \/ ask'.kind \notin {"guard", "connection", "action", "opa"}
  BY Kinds DEF Next

\* The answer in hand is the code's answer to the question in hand.
THEOREM AnswersBelong == Spec => []Asked
  <1>1. Init => Asked
    BY DEF Init, Idle, Asked
  <1>2. Asked /\ [Next]_vars => Asked'
    <2> SUFFICES ASSUME Asked, [Next]_vars PROVE Asked'
      OBVIOUS
    <2>1. CASE BuildGuard
      <3>1. PICK S : /\ S \subseteq PermitEntries
                     /\ ask' = [kind |-> "guard", permit |-> S] /\ answer' = NewGuard(S)
        BY <2>1, SMT DEF BuildGuard
      <3>2. ask'.kind = "guard" /\ ask'.permit = S
        BY <3>1
      <3>3. GuardAsked'
        BY <3>1, <3>2, EntriesOK DEF GuardAsked
      <3> QED BY <3>2, <3>3 DEF Asked
    <2>2. CASE Observe
      <3>1. PICK r, s \in SomeRules, permit \in Exemptions, h \in SomeHosts, port \in SomePorts,
                 scheme \in Schemes, w \in Agents, how \in Spellings :
                    Connect(r, s, permit, h, port, scheme, w, how)
        BY <2>2 DEF Observe
      <3>2. OneConnection(r, s, permit, h, port, scheme, w, how)'
        BY <3>1 DEF Connect, OneConnection
      <3>3. ConnectionAsked'
        BY <3>2 DEF ConnectionAsked
      <3>4. ask'.kind = "connection"
        BY <3>1 DEF Connect, AskConnection
      <3> QED BY <3>3, <3>4 DEF Asked
    <2>3. CASE AskPolicy
      <3>1. ActionAsked'
        BY <2>3 DEF AskPolicy, ActionAsked
      <3>2. ask'.kind = "action"
        <4>1. PICK rules : ask' = [kind |-> "action", rules |-> rules]
          BY <2>3, Zenon DEF AskPolicy
        <4> QED BY <4>1
      <3> QED BY <3>1, <3>2 DEF Asked
    <2>4. CASE AskOPA
      <3>1. OPAAsked'
        BY <2>4 DEF AskOPA, OPAAsked
      <3>2. ask'.kind = "opa"
        BY <2>4 DEF AskOPA
      <3> QED BY <3>1, <3>2 DEF Asked
    <2>5. CASE ask'.kind \notin {"guard", "connection", "action", "opa"}
      BY <2>5 DEF Asked
    <2>6. CASE UNCHANGED vars
      <3>1. ask' = ask /\ answer' = answer
        BY <2>6 DEF vars
      <3>2. GuardAsked => GuardAsked'
        BY <3>1 DEF GuardAsked
      <3>3. ActionAsked => ActionAsked'
        BY <3>1, Zenon DEF ActionAsked
      <3>4. OPAAsked => OPAAsked'
        BY <3>1 DEF OPAAsked
      <3>5. ConnectionAsked => ConnectionAsked'
        <4> SUFFICES ASSUME ConnectionAsked PROVE ConnectionAsked'
          OBVIOUS
        <4>1. PICK r, s \in SomeRules, permit \in Exemptions, h \in SomeHosts, port \in SomePorts,
                   scheme \in Schemes, w \in Agents, how \in Spellings :
                      OneConnection(r, s, permit, h, port, scheme, w, how)
          BY DEF ConnectionAsked
        <4>2. OneConnection(r, s, permit, h, port, scheme, w, how)'
          BY <3>1, <4>1 DEF OneConnection
        <4> QED BY <4>2 DEF ConnectionAsked
      <3> QED BY <3>1, <3>2, <3>3, <3>4, <3>5 DEF Asked
    <2> QED BY <2>1, <2>2, <2>3, <2>4, <2>5, <2>6, OtherKinds
  <1> QED BY <1>1, <1>2, PTL DEF Spec

\* Whatever list of exemptions the guard accepts, Check lets refused space through only
\* where it was listed, and nothing of the space that cannot be exempted; of the
\* addresses with a zone it refuses what is in refused space, but for the NAT64 ranges
\* and :: (internal/confine/guard.go).
THEOREM GuardHoldsAlways == Spec => []GuardHolds
  <1>1. Asked => GuardHolds
    <2> SUFFICES ASSUME Asked, ask.kind = "guard", answer # None, NEW addr \in Addrs
                 PROVE  LET a == Unmap(addr)
                            bare == WithoutZone(a)
                            passes == Check(answer, addr) = "allowed"
                        IN /\ a = bare /\ passes =>
                                  ~In(a, neverExempt) /\ (In(a, Spaces) => In(a, ask.permit))
                           /\ a # bare => (passes <=> (In(bare, Spaces) => In(bare, ZoneMatters)))
                           /\ Check(answer, addr) = Check(answer, a)
      BY DEF GuardHolds
    <2>1. (\A p \in ask.permit : IsPrefixOf(p)) /\ answer = NewGuard(ask.permit)
      BY DEF Asked, GuardAsked
    <2>2. IsAnyAddr(addr)
      BY AddressesOK
    <2>3. \A x : In(x, Spaces) <=> \E k \in 1..8 : In(x, denials[k].space)
      BY Denials DEF In, Spaces
    <2> QED BY <2>1, <2>2, <2>3, GuardSound
  <1> QED BY <1>1, AnswersBelong, PTL

-----------------------------------------------------------------------------
(* Connections *)

\* A host with its five parts.
IsHost(h) ==
    /\ h = [part \in DOMAIN h |-> h[part]]
    /\ DOMAIN h = {"labels", "addr", "dot", "upper", "star"}

\* Writing a host in lower case changes neither the address it is the text of nor
\* what is left without its dot.
LEMMA LowerCase ==
    ASSUME NEW h, IsHost(h)
    PROVE  /\ ParseAddr(ToLower(h)) = ParseAddr(h)
           /\ ToLower(TrimDot(ToLower(h))) = ToLower(TrimDot(h))
  <1>1. ParseAddr(ToLower(h)) = ParseAddr(h)
    BY DEF IsHost, ToLower, ParseAddr
  <1>2. ToLower(TrimDot(ToLower(h))) = ToLower(TrimDot(h))
    BY DEF IsHost, ToLower, TrimDot
  <1> QED BY <1>1, <1>2

\* So the policy says the same of both.
LEMMA LowerCasePermits ==
    ASSUME NEW p, NEW w, NEW h, IsHost(h), NEW port
    PROVE  /\ Permits(p, w, ToLower(h), port) <=> Permits(p, w, h, port)
           /\ PermitsHost(p, w, ToLower(h)) <=> PermitsHost(p, w, h)
  BY LowerCase DEF Permits, PermitsHost

\* A permitted destination is a permitted host of a workload the policy has.
LEMMA PermitsNames ==
    ASSUME NEW p, NEW w, NEW h, NEW port, Permits(p, w, h, port)
    PROVE  PermitsHost(p, w, h) /\ HasWorkload(p, w)
  BY DEF Permits, PermitsHost, RulesOf, HasWorkload

\* What a connection may be: its address, if the host is one, passes the guard, and
\* the policy permits it.
Passes(g, h) == ParseAddr(h) = None \/ Check(g, ParseAddr(h)) = "allowed"
Allowed(p, g, w, h, port) == Passes(g, h) /\ Permits(p, w, h, port)

\* No reason of the guard is a verdict of another program.
LEMMA CheckReasons ==
    ASSUME NEW g, NEW a
    PROVE  Check(g, a) # "ALLOW"
  <1> DEFINE hits == {k \in 1..Len(denials) : Denies(denials[k], Unmap(a))}
  <1>1. Check(g, a) = IF In(Unmap(a), g.permitted) \/ hits = {} THEN "allowed"
                      ELSE denials[Min(hits)].reason
    BY DEF Check
  <1>2. hits \subseteq 1..8
    BY Denials
  <1> HIDE DEF hits
  <1>3. hits # {} => Min(hits) \in 1..8
    BY <1>2, FirstHit
  <1>4. \A k \in 1..8 : denials[k].reason # "ALLOW"
    BY DEF denials
  <1> QED BY <1>1, <1>3, <1>4

\* A public address is in no refused space.
LEMMA PublicPasses ==
    ASSUME NEW g
    PROVE  Check(g, <<2056, 2056>>) = "allowed" /\ Unmap(<<2056, 2056>>) = <<2056, 2056>>
  <1> DEFINE a == <<2056, 2056>>
  <1>1. Unmap(a) = a
    BY DEF Unmap, Is6
  <1>2. \A n \in Nat : \A x, y, z, l : ~PrefixContains(Prefix(V6(x, y, z, l), n), a)
    BY DEF PrefixContains, Prefix, V6
  <1>3. /\ Open(Prefix(<<32512, 0>>, 8), 1) = 256 /\ Open(Prefix(<<57344, 0>>, 4), 1) = 4096
        /\ Open(Prefix(<<43518, 0>>, 16), 1) = 1 /\ Open(Prefix(<<0, 0>>, 32), 1) = 1
        /\ Open(Prefix(<<2560, 0>>, 8), 1) = 256 /\ Open(Prefix(<<44048, 0>>, 12), 1) = 16
        /\ Open(Prefix(<<49320, 0>>, 16), 1) = 1 /\ Open(Prefix(<<25664, 0>>, 10), 1) = 64
    BY Powers DEF Open, Prefix
  <1>4. \A x, n : PrefixContains(Prefix(<<x, 0>>, n), a) =>
            2056 \div Open(Prefix(<<x, 0>>, n), 1) = x \div Open(Prefix(<<x, 0>>, n), 1)
    BY DEF PrefixContains, Prefix
  <1>5. /\ ~PrefixContains(Prefix(<<32512, 0>>, 8), a) /\ ~PrefixContains(Prefix(<<57344, 0>>, 4), a)
        /\ ~PrefixContains(Prefix(<<43518, 0>>, 16), a) /\ ~PrefixContains(Prefix(<<0, 0>>, 32), a)
        /\ ~PrefixContains(Prefix(<<2560, 0>>, 8), a) /\ ~PrefixContains(Prefix(<<44048, 0>>, 12), a)
        /\ ~PrefixContains(Prefix(<<49320, 0>>, 16), a) /\ ~PrefixContains(Prefix(<<25664, 0>>, 10), a)
    BY <1>3, <1>4
  <1>6. ASSUME NEW k \in 1..8 PROVE ~Denies(denials[k], a)
    <2>1. ~In(a, loopback) /\ ~In(a, multicast)
      BY <1>2, <1>5 DEF In, loopback, multicast
    <2>2. ~In(a, linkLocal) /\ ~In(a, {Prefix(metadata6, 128)}) /\ ~In(a, unspecified)
      BY <1>2, <1>5 DEF In, linkLocal, metadata6, unspecified
    <2>3. ~In(a, private)
      BY <1>2, <1>5 DEF In, private
    <2>4. ~In(a, {cgnat4}) /\ ~In(a, {nat64, nat64Local})
      BY <1>2, <1>5 DEF In, cgnat4, nat64, nat64Local
    <2>5. ~In(a, denials[k].space)
      BY <2>1, <2>2, <2>3, <2>4, Denials, SMTT(30)
    <2>6. WithoutZone(a) = a
      BY DEF WithoutZone
    <2> HIDE DEF a
    <2> QED BY <2>5, <2>6 DEF Denies
  <1> QED BY <1>1, <1>6, CheckAllowed

\* What the proxy does with a connection: it is refused unless it is allowed, and made
\* if the lookup gives a public address.
LEMMA ProxyDecides ==
    ASSUME NEW p, NEW g, NEW w, NEW h, IsHost(h), NEW port \in {80, 443, 8443}
    PROVE  /\ \A found : authorize(p, g, w, h, port, found) = "allowed" => Allowed(p, g, w, h, port)
           /\ authorize(p, g, w, h, port, {<<2056, 2056>>}) = "allowed" <=> Allowed(p, g, w, h, port)
  <1> DEFINE l == ToLower(h)
  <1>1. port \in 1..65535
    BY SMTT(60)
  <1>2. ParseAddr(l) = ParseAddr(h) /\ (Permits(p, w, l, port) <=> Permits(p, w, h, port))
    BY LowerCase, LowerCasePermits
  <1>3. ASSUME NEW found
        PROVE authorize(p, g, w, h, port, found) =
                IF ParseAddr(l) # None /\ Check(g, ParseAddr(l)) # "allowed"
                THEN Check(g, ParseAddr(l))
                ELSE IF ~Permits(p, w, l, port) THEN "not_in_allowlist"
                ELSE IF Resolve(g, l, found) = {} THEN "refused_address" ELSE "allowed"
    BY <1>1, SMTT(60) DEF authorize
  <1>4. ASSUME Passes(g, h) PROVE Resolve(g, l, {<<2056, 2056>>}) # {}
    <2>1. CASE ParseAddr(l) # None
      <3>1. Check(g, ParseAddr(l)) = "allowed"
        BY <1>2, <1>4, <2>1 DEF Passes
      <3>2. Resolve(g, l, {<<2056, 2056>>}) = {Unmap(ParseAddr(l))}
        BY <2>1, <3>1 DEF Resolve
      <3> QED BY <3>2
    <2>2. CASE ParseAddr(l) = None
      <3> DEFINE a == <<2056, 2056>>
      <3>1. Resolve(g, l, {a}) = IF \A b \in {a} : Check(g, b) = "allowed"
                                 THEN {Unmap(b) : b \in {a}} ELSE {}
        BY <2>2 DEF Resolve
      <3>2. Check(g, a) = "allowed" /\ Unmap(a) = a
        BY PublicPasses
      <3> HIDE DEF a
      <3>3. Resolve(g, l, {a}) # {}
        BY <3>1, <3>2
      <3> QED BY <3>3 DEF a
    <2> QED BY <2>1, <2>2
  <1> HIDE DEF l
  <1>6. ASSUME NEW found, authorize(p, g, w, h, port, found) = "allowed"
        PROVE Allowed(p, g, w, h, port)
    BY <1>2, <1>3, <1>6 DEF Allowed, Passes
  <1>7. Allowed(p, g, w, h, port) => authorize(p, g, w, h, port, {<<2056, 2056>>}) = "allowed"
    BY <1>2, <1>3, <1>4 DEF Allowed, Passes
  <1> QED BY <1>6, <1>7

\* What agw policy explain says of it.
LEMMA ExplainDecides ==
    ASSUME NEW p, NEW w, NEW h, IsHost(h), NEW port \in SomePorts, NEW scheme
    PROVE  explainEgress(p, w, Conn(h, port, scheme, w), 443) = "ALLOW"
             <=> Allowed(p, NewGuard(p.permitPrivate), w, h, port)
  <1> DEFINE conn == Conn(h, port, scheme, w)
             l == ToLower(h)
             g == NewGuard(p.permitPrivate)
  <1>1. /\ port \in 1..65535 /\ port # None
        /\ conn.host = h /\ conn.port = port
    BY NothingIsNothing, SMTT(60) DEF SomePorts, Conn
  <1> HIDE DEF conn
  <1>2. ParseAddr(l) = ParseAddr(h) /\ (Permits(p, w, l, port) <=> Permits(p, w, h, port))
    BY LowerCase, LowerCasePermits
  <1>3. explainEgress(p, w, conn, 443) =
            IF ParseAddr(l) # None /\ Check(g, ParseAddr(l)) # "allowed"
            THEN Check(g, ParseAddr(l))
            ELSE IF Permits(p, w, l, port) THEN "ALLOW" ELSE "not_in_allowlist"
    BY <1>1, SMTT(60) DEF explainEgress
  <1>4. Check(g, ParseAddr(l)) # "ALLOW"
    BY CheckReasons
  <1> HIDE DEF l, g
  <1>5. explainEgress(p, w, conn, 443) = "ALLOW" <=> Allowed(p, g, w, h, port)
    BY <1>2, <1>3, <1>4 DEF Allowed, Passes
  <1> QED BY <1>5 DEF g, conn

-----------------------------------------------------------------------------
(* Shadow evaluation *)

\* What a span's destination is judged.
LEMMA Evaluates ==
    ASSUME NEW p, NEW g, NEW h, IsHost(h), NEW port \in SomePorts, NEW obs,
           shadowDestination(obs) # None, shadowDestination(obs).host \in {h, ToLower(h)},
           shadowDestination(obs).port \in {port, AnyPort}
    PROVE  LET verdict == Evaluate(p, g, obs)[1]
               w == obs.agent
           IN /\ shadowDestination(obs).port = port =>
                     /\ verdict = "would_allow" <=> Allowed(p, g, w, h, port)
                     /\ verdict = "would_deny" <=> ~Allowed(p, g, w, h, port)
                     /\ verdict # "not_evaluable"
              /\ shadowDestination(obs).port = AnyPort =>
                     /\ verdict # "would_allow"
                     /\ verdict = "would_deny" => ~Allowed(p, g, w, h, port)
                     /\ verdict = "not_evaluable" => Passes(g, h) /\ PermitsHost(p, w, h)
  <1> DEFINE d == shadowDestination(obs)
             w == obs.agent
             literal == ParseAddr(d.host)
             verdict == Evaluate(p, g, obs)[1]
  <1>1. /\ literal = ParseAddr(h)
        /\ \A n : Permits(p, w, d.host, n) <=> Permits(p, w, h, n)
        /\ PermitsHost(p, w, d.host) <=> PermitsHost(p, w, h)
    BY LowerCase, LowerCasePermits
  <1>2. verdict = IF literal # None /\ Check(g, literal) # "allowed" THEN "would_deny"
                  ELSE IF ~HasWorkload(p, w) THEN "would_deny"
                  ELSE IF d.port = AnyPort
                  THEN IF PermitsHost(p, w, d.host) THEN "not_evaluable" ELSE "would_deny"
                  ELSE IF Permits(p, w, d.host, d.port) THEN "would_allow" ELSE "would_deny"
    BY DEF Evaluate
  <1>3. port # AnyPort
    BY NothingIsNothing
  <1>4. Permits(p, w, h, port) => PermitsHost(p, w, h) /\ HasWorkload(p, w)
    BY PermitsNames
  <1> HIDE DEF d, w, literal, verdict
  <1>5. d.port = port =>
            /\ verdict = "would_allow" <=> Allowed(p, g, w, h, port)
            /\ verdict = "would_deny" <=> ~Allowed(p, g, w, h, port)
            /\ verdict # "not_evaluable"
    BY <1>1, <1>2, <1>3, <1>4 DEF Allowed, Passes
  <1>6. d.port = AnyPort =>
            /\ verdict # "would_allow"
            /\ verdict = "would_deny" => ~Allowed(p, g, w, h, port)
            /\ verdict = "not_evaluable" => Passes(g, h) /\ PermitsHost(p, w, h)
    BY <1>1, <1>2, <1>4 DEF Allowed, Passes
  <1> QED BY <1>5, <1>6 DEF d, w, verdict

\* The hosts of the runs have their five parts.
LEMMA HostsOK ==
    \A h \in SomeHosts : IsHost(h)
  <1>1. \A labels, addr : IsHost(Host(labels, addr))
    BY DEF IsHost, Host
  <1>2. \A h : IsHost(h) => IsHost([h EXCEPT !.dot = TRUE])
    BY DEF IsHost
  <1>3. \A h : IsHost(h) => IsHost([h EXCEPT !.upper = TRUE])
    BY DEF IsHost
  <1>4. /\ IsHost(ex) /\ IsHost(api) /\ IsHost(public) /\ IsHost(public6) /\ IsHost(internal)
        /\ IsHost(instance) /\ IsHost(zoned)
    BY <1>1 DEF ex, api, public, public6, internal, instance, zoned
  <1>5. IsHost([api EXCEPT !.dot = TRUE]) /\ IsHost([ex EXCEPT !.upper = TRUE])
    BY <1>2, <1>3, <1>4
  <1> QED BY <1>4, <1>5 DEF SomeHosts

\* Where the spelling of a connection leads.
Leads(h, port, scheme, w) ==
    LET conn == Conn(h, port, scheme, w)
        to(how) == shadowDestination(Spelled(conn, how))
    IN /\ \A how \in Spellings : Spelled(conn, how).agent = w
       /\ to("url") = [host |-> h, port |-> port]
       /\ port = UsualPort(scheme) =>
              to("short url") \in {[host |-> h, port |-> port], [host |-> h, port |-> AnyPort]}
       /\ to("target") = [host |-> ToLower(h), port |-> port]
       /\ to("host") = [host |-> ToLower(h), port |-> AnyPort]
       /\ to("nothing") = None
LEMMA Spells ==
    ASSUME NEW h \in SomeHosts, NEW port \in SomePorts, NEW scheme \in Schemes, NEW w
    PROVE  Leads(h, port, scheme, w)
  <1> DEFINE conn == Conn(h, port, scheme, w)
             long == [host |-> h, port |-> port, scheme |-> scheme]
             short == [host |-> h, port |-> None, scheme |-> scheme]
  <1>1. conn.host = h /\ conn.port = port /\ conn.scheme = scheme /\ conn.agent = w
    BY DEF Conn
  <1>2. long # None /\ short # None /\ port # None
    BY NothingIsNothing
  <1>3. /\ Spelled(conn, "url").url = long /\ Spelled(conn, "url").agent = w
        /\ Spelled(conn, "short url").url = short /\ Spelled(conn, "short url").agent = w
    BY <1>1 DEF Spelled
  <1>10. /\ Spelled(conn, "target").url = None /\ Spelled(conn, "target").agent = w
         /\ Spelled(conn, "target").target = [host |-> h, port |-> port]
         /\ Spelled(conn, "host").url = None /\ Spelled(conn, "host").agent = w
         /\ Spelled(conn, "host").target = [host |-> h, port |-> None]
    BY <1>1 DEF Spelled
  <1>11. /\ Spelled(conn, "nothing").url = None /\ Spelled(conn, "nothing").target = None
         /\ Spelled(conn, "nothing").agent = w
    BY <1>1 DEF Spelled
  <1> HIDE DEF conn
  <1>4. \A how \in Spellings : Spelled(conn, how).agent = w
    BY <1>3, <1>10, <1>11 DEF Spellings
  <1>12. /\ long.host = h /\ long.port = port /\ short.host = h /\ short.port = None
         /\ short.scheme = scheme
    OBVIOUS
  <1> HIDE DEF long, short
  <1>5. shadowDestination(Spelled(conn, "url")) = [host |-> h, port |-> port]
    BY <1>2, <1>3, <1>12 DEF shadowDestination
  <1>6. ASSUME port = UsualPort(scheme)
        PROVE  shadowDestination(Spelled(conn, "short url"))
                 \in {[host |-> h, port |-> port], [host |-> h, port |-> AnyPort]}
    <2>1. shadowDestination(Spelled(conn, "short url")) =
            [host |-> h, port |-> IF scheme \in {"https", "wss"} THEN 443
                                  ELSE IF scheme \in {"http", "ws"} THEN 80 ELSE AnyPort]
      BY <1>2, <1>3, <1>12 DEF shadowDestination
    <2>2. CASE scheme = "https"
      <3>1. port = 443
        BY <1>6, <2>2 DEF UsualPort
      <3> QED BY <2>1, <2>2, <3>1
    <2>3. CASE scheme = "http"
      <3>1. port = 80
        BY <1>6, <2>3 DEF UsualPort
      <3> QED BY <2>1, <2>3, <3>1
    <2>4. CASE scheme = "tcp"
      BY <2>1, <2>4
    <2> QED BY <2>2, <2>3, <2>4 DEF Schemes
  <1>7. shadowDestination(Spelled(conn, "target")) = [host |-> ToLower(h), port |-> port]
    <2> DEFINE target == [host |-> h, port |-> port]
    <2>1. target # None /\ target.host = h /\ target.port = port
      BY NothingIsNothing
    <2>2. Spelled(conn, "target").target = target
      BY <1>10
    <2> HIDE DEF target
    <2> QED BY <1>2, <1>10, <2>1, <2>2 DEF shadowDestination
  <1>8. shadowDestination(Spelled(conn, "host")) = [host |-> ToLower(h), port |-> AnyPort]
    <2> DEFINE target == [host |-> h, port |-> None]
    <2>1. target # None /\ target.host = h /\ target.port = None
      BY NothingIsNothing
    <2>2. Spelled(conn, "host").target = target
      BY <1>10
    <2> HIDE DEF target
    <2> QED BY <1>10, <2>1, <2>2 DEF shadowDestination
  <1>9. shadowDestination(Spelled(conn, "nothing")) = None
    BY <1>11 DEF shadowDestination
  <1> QED BY <1>4, <1>5, <1>6, <1>7, <1>8, <1>9 DEF Leads, conn

\* A host that rules of the runs permit is permitted at some port.
LEMMA SomePortPermitted ==
    ASSUME NEW r \in SomeRules, NEW s \in SomeRules, NEW permit, NEW w, NEW h,
           PermitsHost(PolicyOf(<<r, s>>, permit), w, h)
    PROVE  \E port \in SomePorts : Permits(PolicyOf(<<r, s>>, permit), w, h, port)
  <1> DEFINE p == PolicyOf(<<r, s>>, permit)
  <1>1. PICK q \in RulesOf(p, w) : hostMatches(q.host, ToLower(TrimDot(h)))
    BY DEF PermitsHost
  <1>2. q.ports \in {{}, {443}, {8443}}
    <2>1. PICK i \in 1..Len(p.workloads) :
             q \in {[x EXCEPT !.host = ToLower(@)] : x \in ToSet(p.workloads[i].allow)}
      BY <1>1 DEF RulesOf
    <2>2. PICK x \in ToSet(p.workloads[i].allow) : q = [x EXCEPT !.host = ToLower(@)]
      BY <2>1
    <2>3. p.workloads[i].allow = <<r, s>>
      BY DEF PolicyOf
    <2>4. x \in SomeRules
      BY <2>2, <2>3 DEF ToSet
    <2> QED BY <2>2, <2>4 DEF SomeRules
  <1>3. PICK port \in SomePorts : portMatches(q.ports, port)
    BY <1>2 DEF portMatches, SomePorts
  <1>4. Permits(p, w, h, port)
    BY <1>1, <1>3 DEF Permits
  <1> QED BY <1>4

\* Shadow evaluation never says would_deny of a connection the proxy would make nor
\* would_allow of one it would not, and leaves a verdict open only where some port is
\* permitted; agw policy explain says ALLOW of what the proxy makes.
THEOREM ShadowAgreesHolds == Spec => []ShadowAgrees
  <1>1. ASSUME ConnectionAsked PROVE ShadowAgrees
    <2>1. PICK r, s \in SomeRules, permit \in Exemptions, h \in SomeHosts, port \in SomePorts,
               scheme \in Schemes, w \in Agents, how \in Spellings :
                  OneConnection(r, s, permit, h, port, scheme, w, how)
      BY <1>1 DEF ConnectionAsked
    <2> DEFINE p == PolicyOf(<<r, s>>, permit)
               conn == Conn(h, port, scheme, w)
               g == NewGuard(p.permitPrivate)
               obs == Spelled(conn, how)
               verdict == Evaluate(p, g, obs)[1]
               dest == shadowDestination(obs)
    <2>2. /\ ask.policy = p /\ ask.conn = conn /\ ask.how = how
          /\ answer.shadow = Evaluate(p, g, obs) /\ answer.explain = explainEgress(p, w, conn, 443)
          /\ conn.host = h /\ conn.port = port /\ conn.agent = w
          /\ how = "short url" => port = UsualPort(scheme)
      BY <2>1 DEF OneConnection, AskConnection, Views, Conn
    <2>3. IsHost(h) /\ port \in {80, 443, 8443} /\ port # None /\ port # AnyPort
      BY HostsOK, NothingIsNothing DEF SomePorts
    <2>4. /\ \A found : authorize(p, g, w, h, port, found) = "allowed" => Allowed(p, g, w, h, port)
          /\ authorize(p, g, w, h, port, {<<2056, 2056>>}) = "allowed" <=> Allowed(p, g, w, h, port)
      BY <2>3, ProxyDecides
    <2>13. answer.explain = "ALLOW" <=> Allowed(p, g, w, h, port)
      <3>1. explainEgress(p, w, conn, 443) = "ALLOW" <=> Allowed(p, g, w, h, port)
        BY <2>3, ExplainDecides
      <3> QED BY <2>2, <3>1
    <2>5. /\ obs.agent = w
          /\ how = "nothing" => dest = None
          /\ how # "nothing" => dest \in {[host |-> h, port |-> port], [host |-> h, port |-> AnyPort],
                 [host |-> ToLower(h), port |-> port], [host |-> ToLower(h), port |-> AnyPort]}
          /\ how \in {"url", "target"} => dest.port = port
      <3>0. Leads(h, port, scheme, w)
        BY Spells
      <3>1. /\ obs.agent = w
            /\ how = "url" => dest = [host |-> h, port |-> port]
            /\ how = "short url" =>
                   dest \in {[host |-> h, port |-> port], [host |-> h, port |-> AnyPort]}
            /\ how = "target" => dest = [host |-> ToLower(h), port |-> port]
            /\ how = "host" => dest = [host |-> ToLower(h), port |-> AnyPort]
            /\ how = "nothing" => dest = None
        BY <2>2, <3>0 DEF Leads
      <3> HIDE DEF dest, obs
      <3>2. CASE how = "url"
        BY <3>1, <3>2
      <3>3. CASE how = "short url"
        BY <3>1, <3>3
      <3>4. CASE how = "target"
        BY <3>1, <3>4
      <3>5. CASE how = "host"
        BY <3>1, <3>5
      <3>6. CASE how = "nothing"
        BY <3>1, <3>6
      <3> QED BY <3>2, <3>3, <3>4, <3>5, <3>6 DEF Spellings
    <2>6. how # "nothing" => dest # None /\ dest.host \in {h, ToLower(h)} /\ dest.port \in {port, AnyPort}
      BY <2>5, NothingIsNothing
    <2> HIDE DEF p, conn, g, obs
    <2>7. how # "nothing" =>
              /\ dest.port = port =>
                     /\ verdict = "would_allow" <=> Allowed(p, g, w, h, port)
                     /\ verdict = "would_deny" <=> ~Allowed(p, g, w, h, port)
                     /\ verdict # "not_evaluable"
              /\ dest.port = AnyPort =>
                     /\ verdict # "would_allow"
                     /\ verdict = "would_deny" => ~Allowed(p, g, w, h, port)
                     /\ verdict = "not_evaluable" => Passes(g, h) /\ PermitsHost(p, w, h)
      BY <2>3, <2>5, <2>6, Evaluates
    <2>8. how = "nothing" => verdict = "not_evaluable"
      BY <2>5 DEF Evaluate
    <2> HIDE DEF verdict, dest
    <2>9. ASSUME verdict = "not_evaluable", how # "nothing"
          PROVE  \E n \in SomePorts : authorize(p, g, w, h, n, {<<2056, 2056>>}) = "allowed"
      <3>1. Passes(g, h) /\ PermitsHost(p, w, h)
        BY <2>6, <2>7, <2>9
      <3>2. PICK n \in SomePorts : Permits(p, w, h, n)
        BY <3>1, SomePortPermitted DEF p
      <3>3. n \in {80, 443, 8443} /\ Allowed(p, g, w, h, n)
        BY <3>1, <3>2 DEF Allowed, SomePorts
      <3>4. authorize(p, g, w, h, n, {<<2056, 2056>>}) = "allowed"
        BY <2>3, <3>3, ProxyDecides
      <3> QED BY <3>4
    <2>10. verdict = "would_deny" => ~Allowed(p, g, w, h, port)
      BY <2>6, <2>7, <2>8
    <2>11. verdict = "would_allow" => Allowed(p, g, w, h, port)
      BY <2>6, <2>7, <2>8
    <2>12. how \in {"url", "target"} => (verdict = "would_allow" <=> Allowed(p, g, w, h, port))
      BY <2>5, <2>7
    <2>14. /\ ask.policy = p /\ ask.conn.agent = w /\ ask.conn.host = h /\ ask.conn.port = port
           /\ ask.how = how /\ answer.shadow[1] = verdict /\ g = NewGuard(ask.policy.permitPrivate)
      BY <2>2 DEF verdict, g
    <2>15. /\ verdict = "would_deny" =>
                 \A found \in Answers : ~(authorize(p, g, w, h, port, found) = "allowed")
           /\ verdict = "would_allow" => authorize(p, g, w, h, port, {<<2056, 2056>>}) = "allowed"
           /\ answer.explain = "ALLOW"
                 <=> authorize(p, g, w, h, port, {<<2056, 2056>>}) = "allowed"
           /\ how \in {"url", "target"} => (verdict = "would_allow" <=> answer.explain = "ALLOW")
      BY <2>4, <2>10, <2>11, <2>12, <2>13
    <2> QED BY <2>9, <2>14, <2>15 DEF ShadowAgrees
  <1>2. Asked => ShadowAgrees
    BY <1>1 DEF Asked, ShadowAgrees
  <1> QED BY <1>2, AnswersBelong, PTL

-----------------------------------------------------------------------------
(* Actions *)

\* One of the first n rules matches, and denies, or does not.
Hit(rules, req, n, denies) ==
    \E i \in 1..n : Matches(rules[i], req) /\ (rules[i].effect = "deny" <=> denies)

\* What the loop over the rules has come to after n of them, said without a loop.
Summary(rules, req) ==
    [n \in 0..Len(rules) |->
        IF Hit(rules, req, n, TRUE) THEN "deny"
        ELSE IF Hit(rules, req, n, FALSE) THEN "allow" ELSE "none"]

\* The body of the loop.
Considered(after, rules, req, n) ==
    IF n = 0 THEN "none"
    ELSE IF after[n - 1] = "deny" \/ ~Matches(rules[n], req) THEN after[n - 1]
    ELSE IF rules[n].effect = "deny" THEN "deny" ELSE "allow"

\* However many rules there are, the loop comes to that: of two functions that satisfy
\* its recursion there is no least n where they differ.
LEMMA LoopIs ==
    ASSUME NEW rules, Len(rules) \in Nat, NEW req
    PROVE  evaluate(rules, req) = Summary(rules, req)
  <1> DEFINE S == Summary(rules, req)
             Fits(f) == f = [n \in 0..Len(rules) |-> Considered(f, rules, req, n)]
  <1>1. Fits(S)
    <2>1. ASSUME NEW n \in 0..Len(rules) PROVE S[n] = Considered(S, rules, req, n)
      <3>1. CASE n = 0
        BY <3>1 DEF Summary, Considered, Hit
      <3>2. CASE n # 0
        <4>1. n - 1 \in 0..Len(rules) /\ n \in Nat
          BY <3>2
        <4>2. \A d \in BOOLEAN :
                  Hit(rules, req, n, d)
                      <=> \/ Hit(rules, req, n - 1, d)
                          \/ Matches(rules[n], req) /\ (rules[n].effect = "deny" <=> d)
          <5>1. 1..n = 1..(n - 1) \cup {n}
            BY <3>2, <4>1
          <5> QED BY <5>1 DEF Hit
        <4> QED BY <3>2, <4>1, <4>2 DEF Summary, Considered
      <3> QED BY <3>1, <3>2
    <2> HIDE DEF S
    <2>2. S = [n \in 0..Len(rules) |-> S[n]]
      BY DEF Summary, S
    <2> QED BY <2>1, <2>2
  <1>2. ASSUME NEW f, Fits(f) PROVE f = S
    <2> DEFINE T == {n \in 0..Len(rules) : f[n] # S[n]}
    <2>1. T = {}
      <3> SUFFICES ASSUME T # {} PROVE FALSE
        OBVIOUS
      <3>1. PICK n \in T : \A m \in T : n <= m
        <4>1. T \subseteq Nat
          OBVIOUS
        <4> HIDE DEF T
        <4> QED BY <4>1, LeastNumber
      <3>2. n \in 0..Len(rules) /\ f[n] # S[n]
        OBVIOUS
      <3>3. f[n] = Considered(f, rules, req, n) /\ S[n] = Considered(S, rules, req, n)
        BY <1>1, <1>2, <3>2
      <3>4. n # 0 => f[n - 1] = S[n - 1]
        <4> SUFFICES ASSUME n # 0, f[n - 1] # S[n - 1] PROVE FALSE
          OBVIOUS
        <4>1. n - 1 \in T
          BY <3>2
        <4>2. n <= n - 1
          BY <3>1, <4>1
        <4> QED BY <3>2, <4>2
      <3> HIDE DEF S, T
      <3> QED BY <3>2, <3>3, <3>4 DEF Considered
    <2>2. f = [n \in 0..Len(rules) |-> f[n]] /\ S = [n \in 0..Len(rules) |-> S[n]]
      BY <1>1, <1>2
    <2>3. \A n \in 0..Len(rules) : f[n] = S[n]
      BY <2>1
    <2> HIDE DEF S
    <2> QED BY <2>2, <2>3
  <1>3. evaluate(rules, req) = CHOOSE f : Fits(f)
    BY DEF evaluate, Considered
  <1> HIDE DEF Fits, S
  <1>4. Fits(CHOOSE f : Fits(f))
    BY <1>1
  <1>5. evaluate(rules, req) = S
    BY <1>2, <1>3, <1>4
  <1> QED BY <1>5 DEF S

\* What a set of rules decides of a request.
Verdict(rules, req) ==
    LET hits == {r \in rules : Matches(r, req)} IN
    IF \E r \in hits : r.effect = "deny" THEN deny("policy_denied")
    ELSE IF hits # {} THEN allow ELSE deny("policy_denied")

\* The engine decides by the rules of the one policy of the tenant, whatever other
\* policies are loaded and in whatever order its rules are.
LEMMA TenantDecides ==
    ASSUME NEW policies, NEW own \in ToSet(policies), NEW req, own.tenant = req.tenant,
           \A p \in ToSet(policies) : p.tenant = req.tenant => p = own,
           Len(own.rules) \in Nat
    PROVE  Authorize(policies, req) = Verdict(ToSet(own.rules), req)
  <1> DEFINE rules == own.rules
             n == Len(rules)
             denied == Hit(rules, req, n, TRUE)
             allowed == Hit(rules, req, n, FALSE)
  <1>1. {p \in ToSet(policies) : p.tenant = req.tenant} = {own}
    OBVIOUS
  <1>2. (CHOOSE p \in {own} : TRUE) = own
    OBVIOUS
  <1>3. Authorize(policies, req) =
            IF evaluate(rules, req)[n] = "allow" THEN allow ELSE deny("policy_denied")
    BY <1>1, <1>2 DEF Authorize
  <1>4. evaluate(rules, req)[n] =
            IF denied THEN "deny" ELSE IF allowed THEN "allow" ELSE "none"
    <2>1. evaluate(rules, req) = Summary(rules, req) /\ n \in 0..Len(rules)
      BY LoopIs
    <2> QED BY <2>1 DEF Summary
  <1>5. /\ denied <=> \E r \in ToSet(rules) : Matches(r, req) /\ r.effect = "deny"
        /\ allowed <=> \E r \in ToSet(rules) : Matches(r, req) /\ r.effect # "deny"
    BY DEF Hit, ToSet
  <1> HIDE DEF rules, n, denied, allowed
  <1>6. Verdict(ToSet(rules), req) =
            IF denied THEN deny("policy_denied")
            ELSE IF allowed THEN allow ELSE deny("policy_denied")
    <2> DEFINE hits == {r \in ToSet(rules) : Matches(r, req)}
    <2>1. /\ (\E r \in hits : r.effect = "deny") <=> denied
          /\ ~denied => (hits # {} <=> allowed)
      BY <1>5
    <2>2. Verdict(ToSet(rules), req) =
              IF \E r \in hits : r.effect = "deny" THEN deny("policy_denied")
              ELSE IF hits # {} THEN allow ELSE deny("policy_denied")
      BY DEF Verdict
    <2> HIDE DEF hits
    <2> QED BY <2>1, <2>2
  <1>7. Authorize(policies, req) = Verdict(ToSet(rules), req)
    BY <1>3, <1>4, <1>6
  <1> QED BY <1>7 DEF rules

\* Two requests that differ in nothing a rule looks at are decided alike.
LEMMA SameRequestSameVerdict ==
    ASSUME NEW rules, NEW x, NEW y, x.agent = y.agent, x.federated = y.federated,
           x.action = y.action, x.resource = y.resource, x.risk = y.risk, x.now = y.now
    PROVE  Verdict(rules, x) = Verdict(rules, y)
  <1>1. \A r : Matches(r, x) <=> Matches(r, y)
    BY DEF Matches, matchesAgent
  <1>2. {r \in rules : Matches(r, x)} = {r \in rules : Matches(r, y)}
    BY <1>1
  <1> QED BY <1>2 DEF Verdict

\* A verdict is allow or a refusal by the policy, whose statuses are 200 and 403.
LEMMA VerdictKinds ==
    ASSUME NEW rules, NEW req
    PROVE  /\ Verdict(rules, req) \in {allow, deny("policy_denied")}
           /\ Verdict(rules, req).outcome \in {"allow", "deny"}
           /\ HTTPStatus(Verdict(rules, req).reason) = 200
                 <=> Verdict(rules, req).outcome = "allow"
  <1>1. Verdict(rules, req) \in {allow, deny("policy_denied")}
    BY DEF Verdict
  <1>2. /\ allow.outcome = "allow" /\ allow.reason = "allowed"
        /\ deny("policy_denied").outcome = "deny"
        /\ deny("policy_denied").reason = "policy_denied"
    BY DEF allow, deny
  <1>3. HTTPStatus("allowed") = 200 /\ HTTPStatus("policy_denied") = 403
    BY DEF HTTPStatus
  <1> QED BY <1>1, <1>2, <1>3

\* When a set of rules allows: one of them matches, and none that matches denies; so
\* no rule more that denies turns a refusal into it.
LEMMA VerdictAllows ==
    ASSUME NEW rules, NEW req
    PROVE  /\ Verdict(rules, req).outcome = "allow"
                 <=> /\ \E r \in rules : Matches(r, req)
                     /\ \A r \in rules : Matches(r, req) => r.effect # "deny"
           /\ \A more : /\ \A s \in more : s.effect = "deny"
                        /\ Verdict(rules, req).outcome = "deny"
                        => Verdict(rules \cup more, req).outcome = "deny"
  <1>1. allow.outcome = "allow" /\ deny("policy_denied").outcome = "deny"
    BY DEF allow, deny
  <1>2. ASSUME NEW R
        PROVE  Verdict(R, req).outcome = "allow"
                 <=> /\ \E r \in R : Matches(r, req)
                     /\ \A r \in R : Matches(r, req) => r.effect # "deny"
    <2> DEFINE hits == {r \in R : Matches(r, req)}
    <2>1. Verdict(R, req) = IF \E r \in hits : r.effect = "deny" THEN deny("policy_denied")
                            ELSE IF hits # {} THEN allow ELSE deny("policy_denied")
      BY DEF Verdict
    <2>2. /\ (\E r \in hits : r.effect = "deny")
                <=> \E r \in R : Matches(r, req) /\ r.effect = "deny"
          /\ hits # {} <=> \E r \in R : Matches(r, req)
      OBVIOUS
    <2> HIDE DEF hits
    <2> QED BY <1>1, <2>1, <2>2
  <1>3. ASSUME NEW more, \A s \in more : s.effect = "deny", Verdict(rules, req).outcome = "deny"
        PROVE  Verdict(rules \cup more, req).outcome = "deny"
    <2>1. \/ ~\E r \in rules : Matches(r, req)
          \/ \E r \in rules : Matches(r, req) /\ r.effect = "deny"
      BY <1>2, <1>3
    <2>2. Verdict(rules \cup more, req).outcome # "allow"
      BY <1>2, <1>3, <2>1
    <2> QED BY <2>2, VerdictKinds
  <1> QED BY <1>2, <1>3

\* The policies an engine may have been given of which own is the tenant's.
OwnPolicy(policies, own, req) ==
    /\ own \in ToSet(policies) /\ own.tenant = req.tenant /\ Len(own.rules) \in Nat
    /\ \A p \in ToSet(policies) : p.tenant = req.tenant => p = own

\* What the engine's loop over any number of rules in any order comes to: it allows if
\* and only if a rule of the tenant's policy matches and none that matches denies; and
\* no policy that has the same rules in another order, or those and some that deny,
\* next to whatever policies of other tenants, allows what was refused
\* (pkg/authz/engine.go, NativeEngine.Authorize: "deny wins").
THEOREM DenyWins ==
    ASSUME NEW req, NEW policies, NEW own, OwnPolicy(policies, own, req)
    PROVE  /\ Authorize(policies, req).outcome = "allow"
                 <=> /\ \E i \in 1..Len(own.rules) : Matches(own.rules[i], req)
                     /\ \A i \in 1..Len(own.rules) :
                            Matches(own.rules[i], req) => own.rules[i].effect # "deny"
           /\ \A others, changed :
                 /\ OwnPolicy(others, changed, req)
                 /\ ToSet(own.rules) \subseteq ToSet(changed.rules)
                 /\ \A r \in ToSet(changed.rules) \ ToSet(own.rules) : r.effect = "deny"
                 => /\ Authorize(policies, req).outcome = "deny"
                           => Authorize(others, req).outcome = "deny"
                    /\ ToSet(changed.rules) = ToSet(own.rules)
                           => Authorize(others, req) = Authorize(policies, req)
  <1>1. Authorize(policies, req) = Verdict(ToSet(own.rules), req)
    BY TenantDecides DEF OwnPolicy
  <1>2. \A r : r \in ToSet(own.rules) <=> \E i \in 1..Len(own.rules) : r = own.rules[i]
    BY DEF ToSet
  <1>3. Verdict(ToSet(own.rules), req).outcome = "allow"
            <=> /\ \E i \in 1..Len(own.rules) : Matches(own.rules[i], req)
                /\ \A i \in 1..Len(own.rules) :
                       Matches(own.rules[i], req) => own.rules[i].effect # "deny"
    <2>1. Verdict(ToSet(own.rules), req).outcome = "allow"
              <=> /\ \E r \in ToSet(own.rules) : Matches(r, req)
                  /\ \A r \in ToSet(own.rules) : Matches(r, req) => r.effect # "deny"
      BY VerdictAllows
    <2>2. (\E r \in ToSet(own.rules) : Matches(r, req))
              <=> \E i \in 1..Len(own.rules) : Matches(own.rules[i], req)
      <3>1. ASSUME NEW i \in 1..Len(own.rules), Matches(own.rules[i], req)
            PROVE  \E r \in ToSet(own.rules) : Matches(r, req)
        <4>1. own.rules[i] \in ToSet(own.rules)
          BY <1>2, Zenon
        <4> QED BY <3>1, <4>1, Zenon
      <3>2. ASSUME NEW r \in ToSet(own.rules), Matches(r, req)
            PROVE  \E i \in 1..Len(own.rules) : Matches(own.rules[i], req)
        <4>1. PICK i \in 1..Len(own.rules) : r = own.rules[i]
          BY <1>2, Zenon
        <4> QED BY <3>2, <4>1, Zenon
      <3> QED BY <3>1, <3>2, Zenon
    <2>3. (\A r \in ToSet(own.rules) : Matches(r, req) => r.effect # "deny")
              <=> \A i \in 1..Len(own.rules) :
                      Matches(own.rules[i], req) => own.rules[i].effect # "deny"
      <3>1. ASSUME \A r \in ToSet(own.rules) : Matches(r, req) => r.effect # "deny",
                   NEW i \in 1..Len(own.rules)
            PROVE  Matches(own.rules[i], req) => own.rules[i].effect # "deny"
        <4>1. own.rules[i] \in ToSet(own.rules)
          BY <1>2, Zenon
        <4> QED BY <3>1, <4>1, Zenon
      <3>2. ASSUME \A i \in 1..Len(own.rules) :
                       Matches(own.rules[i], req) => own.rules[i].effect # "deny",
                   NEW r \in ToSet(own.rules)
            PROVE  Matches(r, req) => r.effect # "deny"
        <4>1. PICK i \in 1..Len(own.rules) : r = own.rules[i]
          BY <1>2, Zenon
        <4> QED BY <3>2, <4>1, Zenon
      <3> QED BY <3>1, <3>2, Zenon
    <2> QED BY <2>1, <2>2, <2>3, Zenon
  <1>4. ASSUME NEW others, NEW changed, OwnPolicy(others, changed, req),
               ToSet(own.rules) \subseteq ToSet(changed.rules),
               \A r \in ToSet(changed.rules) \ ToSet(own.rules) : r.effect = "deny"
        PROVE  /\ Authorize(policies, req).outcome = "deny"
                     => Authorize(others, req).outcome = "deny"
               /\ ToSet(changed.rules) = ToSet(own.rules)
                     => Authorize(others, req) = Authorize(policies, req)
    <2>1. Authorize(others, req) = Verdict(ToSet(changed.rules), req)
      BY <1>4, TenantDecides DEF OwnPolicy
    <2> DEFINE more == ToSet(changed.rules) \ ToSet(own.rules)
    <2>2. ToSet(changed.rules) = ToSet(own.rules) \cup more
      BY <1>4
    <2>3. \A s \in more : s.effect = "deny"
      BY <1>4
    <2> HIDE DEF more
    <2>4. Verdict(ToSet(own.rules), req).outcome = "deny"
              => Verdict(ToSet(changed.rules), req).outcome = "deny"
      BY <2>2, <2>3, VerdictAllows
    <2> QED BY <1>1, <2>1, <2>4
  <1> QED BY <1>1, <1>3, <1>4

\* The rules of the runs.
RuleOK(r, id) ==
    /\ r.id = id /\ r.effect \in {"allow", "deny"}
    /\ \E g \in AgentPatterns : r.agents = {g}
    /\ r.actions # {} /\ r.actions \subseteq ActionPatterns /\ r.resources = {}
    /\ r.maxRisk \in {"", "write"} /\ r.notBefore = NoTime
LEMMA RulesOK ==
    ASSUME NEW id, NEW r \in Rules(id)
    PROVE  RuleOK(r, id)
  <1>1. PICK e \in Effects, g \in AgentPatterns, x \in ActionPatterns, risk \in Caps,
             until \in Limits : r = Rule(id, e, g, x, risk, until)
    BY DEF Rules
  <1>2. /\ r.id = id /\ r.effect = e /\ r.agents = {g} /\ r.actions = {x}
        /\ r.resources = {} /\ r.maxRisk = risk /\ r.notBefore = NoTime
    BY <1>1 DEF Rule
  <1> QED BY <1>1, <1>2 DEF RuleOK, Effects, Caps

\* A policy of two of them loads.
LEMMA PolicyLoads ==
    ASSUME NEW r, NEW s, RuleOK(r, "one"), RuleOK(s, "two")
    PROVE  ValidatePolicy(Policy("t", <<r, s>>))
  <1> DEFINE p == Policy("t", <<r, s>>)
  <1>1. p.tenant = "t" /\ p.rules = <<r, s>> /\ p.rules # <<>> /\ Len(p.rules) = 2
    BY DEF Policy
  <1>2. ToSet(<<r, s>>) = {r, s}
    BY DEF ToSet
  <1>3. \A x \in ActionPatterns : validPattern(x)
    BY DEF ActionPatterns, validPattern, Star, Pattern
  <1>4. ASSUME NEW q \in {r, s}
        PROVE  /\ q.id # "" /\ q.effect \in {"allow", "deny"}
               /\ q.agents # {} /\ q.actions # {}
               /\ \A a \in q.actions \cup q.resources : validPattern(a)
               /\ q.maxRisk \in ToSet(risks) \cup {""}
               /\ q.notBefore # NoTime /\ q.notAfter # NoTime => q.notAfter >= q.notBefore
    <2>1. "write" \in ToSet(risks)
      BY DEF ToSet, risks
    <2>2. RuleOK(q, "one") \/ RuleOK(q, "two")
      BY <1>4
    <2> QED BY <1>3, <2>1, <2>2 DEF RuleOK
  <1> HIDE DEF p
  <1>5. p.rules[1] = r /\ p.rules[2] = s /\ r.id = "one" /\ s.id = "two"
    <2>1. r.id = "one" /\ s.id = "two"
      BY DEF RuleOK
    <2> QED BY <1>1, <2>1
  <1>6. "t" # ""
    OBVIOUS
  <1>7. \A i, j \in 1..Len(p.rules) : i # j => p.rules[i].id # p.rules[j].id
    <2> SUFFICES ASSUME NEW i \in {1, 2}, NEW j \in {1, 2}, i # j
                 PROVE  p.rules[i].id # p.rules[j].id
      BY <1>1
    <2> QED BY <1>5
  <1>8. ValidatePolicy(p)
    BY <1>1, <1>2, <1>4, <1>6, <1>7 DEF ValidatePolicy
  <1> QED BY <1>8 DEF p

\* And so does the directory.
LEMMA DirectoryLoads ==
    ASSUME NEW r, NEW s, RuleOK(r, "one"), RuleOK(s, "two")
    PROVE  LET files == <<Policy("t", <<r, s>>), Others>> IN LoadPolicyDir(files, <<>>) = files
  <1> DEFINE p == Policy("t", <<r, s>>)
             files == <<p, Others>>
             everyone == AllowAll("everyone")
  <1>1. ValidatePolicy(p)
    BY PolicyLoads
  <1>2. ValidatePolicy(Others)
    <2>1. /\ everyone.id = "everyone" /\ everyone.effect = "allow" /\ everyone.agents # {}
          /\ everyone.actions = {Star} /\ everyone.resources = {} /\ everyone.maxRisk = ""
          /\ everyone.notBefore = NoTime
      BY DEF AllowAll, Rule
    <2> HIDE DEF everyone
    <2>2. Others.tenant = "u" /\ Others.rules = <<everyone>> /\ Len(Others.rules) = 1
      BY DEF Others, Policy, everyone
    <2>3. ToSet(<<everyone>>) = {everyone}
      BY DEF ToSet
    <2>4. validPattern(Star)
      BY DEF validPattern, Star, Pattern
    <2>5. Others.rules # <<>> /\ \A i, j \in 1..Len(Others.rules) : i = j
      BY <2>2
    <2> QED BY <2>1, <2>2, <2>3, <2>4, <2>5 DEF ValidatePolicy
  <1>3. p.tenant = "t" /\ Others.tenant = "u"
    BY DEF Policy, Others
  <1> HIDE DEF p
  <1>4. Len(files) = 2 /\ files[1] = p /\ files[2] = Others /\ ToSet(files) = {p, Others}
    BY DEF ToSet
  <1> HIDE DEF files
  <1>5. LoadPolicyDir(files, <<>>) = files
    <2>1. \A q \in ToSet(files) : ValidatePolicy(q)
      BY <1>1, <1>2, <1>4
    <2>2. \A i, j \in 1..Len(files) : i # j => files[i].tenant # files[j].tenant
      BY <1>3, <1>4
    <2> QED BY <2>1, <2>2 DEF LoadPolicyDir
  <1> QED BY <1>5 DEF files, p

\* What the engine, loaded with that directory, answers; and with the rules in the
\* other order, or with the first of them alone.
EngineSays(r, s, req) ==
    /\ Authorize(LoadPolicyDir(<<Policy("t", <<r, s>>), Others>>, <<>>), req)
          = Verdict({r, s}, req)
    /\ Authorize(<<Policy("t", <<r, s>>)>>, req) = Verdict({r, s}, req)
    /\ Authorize(<<Policy("t", <<s, r>>)>>, req) = Verdict({r, s}, req)
    /\ Authorize(<<Alone(r)>>, req) = Verdict({r}, req)
LEMMA EngineAnswers ==
    ASSUME NEW r, NEW s, RuleOK(r, "one"), RuleOK(s, "two"), NEW req, req.tenant = "t"
    PROVE  EngineSays(r, s, req)
  <1>1. ASSUME NEW rules PROVE Policy("t", rules).tenant = "t" /\ Policy("t", rules).rules = rules
    BY DEF Policy
  <1>2. Others.tenant = "u"
    BY DEF Others, Policy
  <1>3. ASSUME NEW p, p.tenant = "t", NEW set, ToSet(p.rules) = set, Len(p.rules) \in Nat
        PROVE  /\ Authorize(<<p>>, req) = Verdict(set, req)
               /\ Authorize(<<p, Others>>, req) = Verdict(set, req)
    <2>1. ToSet(<<p>>) = {p} /\ ToSet(<<p, Others>>) = {p, Others}
      BY DEF ToSet
    <2> HIDE DEF Others
    <2>2. Authorize(<<p>>, req) = Verdict(ToSet(p.rules), req)
      BY <1>3, <2>1, TenantDecides
    <2>3. Authorize(<<p, Others>>, req) = Verdict(ToSet(p.rules), req)
      <3>1. p \in ToSet(<<p, Others>>) /\ p.tenant = req.tenant
        BY <1>3, <2>1
      <3>2. ASSUME NEW o \in ToSet(<<p, Others>>), o.tenant = req.tenant PROVE o = p
        BY <1>2, <2>1, <3>2
      <3> QED BY <1>3, <3>1, <3>2, TenantDecides, Zenon
    <2> QED BY <1>3, <2>2, <2>3
  <1>4. /\ ToSet(<<r, s>>) = {r, s} /\ ToSet(<<s, r>>) = {r, s} /\ ToSet(<<r>>) = {r}
        /\ Len(<<r, s>>) = 2 /\ Len(<<s, r>>) = 2 /\ Len(<<r>>) = 1
    BY DEF ToSet
  <1>5. LoadPolicyDir(<<Policy("t", <<r, s>>), Others>>, <<>>)
            = <<Policy("t", <<r, s>>), Others>>
    BY DirectoryLoads
  <1>6. /\ Authorize(<<Policy("t", <<r, s>>)>>, req) = Verdict({r, s}, req)
        /\ Authorize(<<Policy("t", <<r, s>>), Others>>, req) = Verdict({r, s}, req)
    <2> DEFINE p == Policy("t", <<r, s>>)
    <2>1. p.tenant = "t" /\ ToSet(p.rules) = {r, s} /\ Len(p.rules) \in Nat
      BY <1>1, <1>4
    <2> HIDE DEF p
    <2>2. Authorize(<<p>>, req) = Verdict({r, s}, req) /\ Authorize(<<p, Others>>, req) = Verdict({r, s}, req)
      BY <1>3, <2>1, Zenon
    <2> QED BY <2>2 DEF p
  <1>7. Authorize(<<Policy("t", <<s, r>>)>>, req) = Verdict({r, s}, req)
    <2> DEFINE p == Policy("t", <<s, r>>)
    <2>1. p.tenant = "t" /\ ToSet(p.rules) = {r, s} /\ Len(p.rules) \in Nat
      BY <1>1, <1>4
    <2> HIDE DEF p
    <2>2. Authorize(<<p>>, req) = Verdict({r, s}, req)
      BY <1>3, <2>1, Zenon
    <2> QED BY <2>2 DEF p
  <1>8. Authorize(<<Alone(r)>>, req) = Verdict({r}, req)
    <2> DEFINE p == Alone(r)
    <2>1. p.tenant = "t" /\ ToSet(p.rules) = {r} /\ Len(p.rules) \in Nat
      BY <1>1, <1>4 DEF Alone
    <2> HIDE DEF p
    <2>2. Authorize(<<p>>, req) = Verdict({r}, req)
      BY <1>3, <2>1, Zenon
    <2> QED BY <2>2 DEF p
  <1> QED BY <1>5, <1>6, <1>7, <1>8 DEF EngineSays

\* agw policy explain answers as the engine does.
LEMMA ExplainAnswers ==
    ASSUME NEW r, NEW s, RuleOK(r, "one"), RuleOK(s, "two"),
           NEW req, req.tenant = "t", req.federated = FALSE
    PROVE  explainAction(Policy("t", <<r, s>>), req.agent, req.action, req.resource, req.risk,
                         req.now) = Verdict({r, s}, req)
  <1> DEFINE p == Policy("t", <<r, s>>)
             x == [tenant |-> p.tenant, agent |-> req.agent, action |-> req.action,
                   resource |-> req.resource, risk |-> req.risk, now |-> req.now,
                   federated |-> FALSE]
  <1>1. ValidatePolicy(p)
    BY PolicyLoads
  <1>2. p.tenant = "t"
    BY DEF Policy
  <1>3. /\ x.tenant = "t" /\ x.agent = req.agent /\ x.action = req.action
        /\ x.resource = req.resource /\ x.risk = req.risk /\ x.now = req.now
        /\ x.federated = req.federated
    BY <1>2
  <1>4. explainAction(p, req.agent, req.action, req.resource, req.risk, req.now)
            = Authorize(<<p>>, x)
    BY <1>1 DEF explainAction
  <1> HIDE DEF x
  <1>5. Authorize(<<p>>, x) = Verdict({r, s}, x)
    <2>1. EngineSays(r, s, x)
      BY <1>3, EngineAnswers
    <2> QED BY <2>1, Zenon DEF EngineSays
  <1>6. Verdict({r, s}, x) = Verdict({r, s}, req)
    BY <1>3, SameRequestSameVerdict
  <1> QED BY <1>4, <1>5, <1>6

\* The built-in engine and OPA decide as the documentation of action policies says:
\* deny wins, the order of the rules and the other tenants' files do not matter, an
\* agent of another organization needs a rule that says so, agw policy explain
\* agrees with the engine, and nothing but a clear yes of OPA allows
\* (pkg/authz/engine.go, policy.go, opa.go).
THEOREM AuthzSoundHolds == Spec => []AuthzSound
  <1>1. OPAAsked =>
            /\ answer.outcome = "allow" => ask.reply = "true"
            /\ HTTPStatus(answer.reason) = 200 <=> answer.outcome = "allow"
    <2> SUFFICES ASSUME OPAAsked
                 PROVE  /\ answer.outcome = "allow" => ask.reply = "true"
                        /\ HTTPStatus(answer.reason) = 200 <=> answer.outcome = "allow"
      OBVIOUS
    <2>1. PICK reply \in Replies :
              ask = [kind |-> "opa", reply |-> reply] /\ answer = OPAAuthorize(reply)
      BY DEF OPAAsked
    <2>2. ask.reply = reply
      BY <2>1
    <2>3. /\ allow.outcome = "allow" /\ allow.reason = "allowed"
          /\ deny("policy_denied").outcome = "deny"
          /\ deny("policy_denied").reason = "policy_denied"
          /\ fail("dependency_unavailable").outcome = "error"
          /\ fail("dependency_unavailable").reason = "dependency_unavailable"
      BY DEF allow, deny, fail
    <2>4. /\ HTTPStatus("allowed") = 200 /\ HTTPStatus("policy_denied") = 403
          /\ HTTPStatus("dependency_unavailable") = 503
      BY DEF HTTPStatus
    <2>5. \/ reply = "true" /\ answer = allow
          \/ answer = deny("policy_denied")
          \/ answer = fail("dependency_unavailable")
      BY <2>1 DEF Replies, OPAAuthorize
    <2> QED BY <2>2, <2>3, <2>4, <2>5
  <1>2. ASSUME ActionAsked, NEW req \in Requests
        PROVE  LET r == ask.rules[1]
                   s == ask.rules[2]
                   got == answer[req].outcome
               IN /\ got = Authorize(<<Policy("t", <<s, r>>)>>, req).outcome
                  /\ s.effect = "deny" /\ Authorize(<<Alone(r)>>, req).outcome = "deny"
                         => got = "deny"
                  /\ got = "allow" => \E q \in {r, s} :
                         q.effect = "allow" /\ \A g \in q.agents : g.federated = req.federated
                  /\ ~req.federated =>
                         explainAction(Policy("t", <<r, s>>), req.agent, req.action,
                                       req.resource, req.risk, req.now).outcome = got
                  /\ HTTPStatus(answer[req].reason) = 200 <=> got = "allow"
    <2>1. PICK r \in Rules("one"), s \in Rules("two") :
              /\ ask = [kind |-> "action", rules |-> <<r, s>>]
              /\ answer = [q \in Requests |->
                     Authorize(LoadPolicyDir(<<Policy("t", <<r, s>>), Others>>, <<>>), q)]
      BY <1>2 DEF ActionAsked
    <2>2. ask.rules[1] = r /\ ask.rules[2] = s
      BY <2>1
    <2>3. RuleOK(r, "one") /\ RuleOK(s, "two")
      BY RulesOK
    <2>4. req.tenant = "t" /\ req.federated \in BOOLEAN
      BY DEF Requests
    <2>5. answer[req] = Authorize(LoadPolicyDir(<<Policy("t", <<r, s>>), Others>>, <<>>), req)
      BY <2>1
    <2>6. /\ answer[req] = Verdict({r, s}, req)
          /\ Authorize(<<Policy("t", <<s, r>>)>>, req) = Verdict({r, s}, req)
          /\ Authorize(<<Alone(r)>>, req) = Verdict({r}, req)
      <3>1. EngineSays(r, s, req)
        BY <2>3, <2>4, EngineAnswers
      <3> QED BY <2>5, <3>1, Zenon DEF EngineSays
    <2>7. s.effect = "deny" /\ Verdict({r}, req).outcome = "deny"
              => Verdict({r, s}, req).outcome = "deny"
      <3> SUFFICES ASSUME s.effect = "deny", Verdict({r}, req).outcome = "deny"
                   PROVE  Verdict({r, s}, req).outcome = "deny"
        OBVIOUS
      <3>1. {r} \cup {s} = {r, s} /\ \A x \in {s} : x.effect = "deny"
        OBVIOUS
      <3>2. Verdict({r} \cup {s}, req).outcome = "deny"
        BY <3>1, VerdictAllows
      <3> QED BY <3>1, <3>2
    <2>8. Verdict({r, s}, req).outcome = "allow" => \E q \in {r, s} :
              q.effect = "allow" /\ \A g \in q.agents : g.federated = req.federated
      <3> SUFFICES ASSUME Verdict({r, s}, req).outcome = "allow"
                   PROVE  \E q \in {r, s} : q.effect = "allow"
                              /\ \A g \in q.agents : g.federated = req.federated
        OBVIOUS
      <3>1. PICK q \in {r, s} : Matches(q, req) /\ q.effect = "allow"
        <4>1. PICK q \in {r, s} : Matches(q, req) /\ q.effect # "deny"
          BY VerdictAllows
        <4> QED BY <2>3, <4>1 DEF RuleOK
      <3>2. PICK p \in q.agents : p.federated = req.federated
        BY <3>1 DEF Matches, matchesAgent
      <3>3. PICK g : q.agents = {g}
        BY <2>3, <3>1 DEF RuleOK
      <3> QED BY <3>1, <3>2, <3>3
    <2>9. ~req.federated =>
              explainAction(Policy("t", <<r, s>>), req.agent, req.action, req.resource,
                            req.risk, req.now) = Verdict({r, s}, req)
      BY <2>3, <2>4, ExplainAnswers
    <2>10. HTTPStatus(answer[req].reason) = 200 <=> answer[req].outcome = "allow"
      BY <2>6, VerdictKinds
    <2> QED BY <2>2, <2>6, <2>7, <2>8, <2>9, <2>10
  <1>3. Asked => AuthzSound
    BY <1>1, <1>2 DEF Asked, AuthzSound
  <1> QED BY <1>3, AnswersBelong, PTL

-----------------------------------------------------------------------------
(* Lines *)

\* Where no name is spelled in another letter case, the last member of a name in any
\* case is the last of that very name.
LEMMA ExactReads ==
    ASSUME NEW ms, NEW defined, ExactNames(ms, defined), NEW n \in defined
    PROVE  /\ Lenient(ms, n) = Exact(ms, n)
           /\ (\E k \in Positions(ms) : ms[k].name = n) <=> n \in Names(ms)
  <1>1. {k \in Positions(ms) : ms[k].name = n} = {k \in Positions(ms) : ms[k].name = n /\ ms[k].exact}
    BY DEF ExactNames
  <1>2. Lenient(ms, n) = Exact(ms, n)
    BY <1>1 DEF Lenient, Exact
  <1>3. (\E k \in Positions(ms) : ms[k].name = n) <=> n \in Names(ms)
    BY DEF ExactNames, Names
  <1> QED BY <1>2, <1>3

\* Both readers of a checkpoint's members want the same of them.
LEMMA SameCheckpoints ==
    ASSUME NEW ms
    PROVE  parseCheckpoint(ms)
               <=> /\ checkpointMembers \subseteq Names(ms)
                   /\ ExactNames(ms, checkpointMembers)
                   /\ checkKinds(ms, checkpointKinds, TRUE)
  <1> SUFFICES ASSUME checkpointMembers \subseteq Names(ms)
               PROVE  checkKinds(ms, checkpointKinds, TRUE)
                        <=> /\ \A n \in {"v", "type", "hash", "issuedAt", "keyId", "signature"} :
                                   Exact(ms, n).t \in Strings
                            /\ \A n \in {"seq", "count"} : Exact(ms, n).t \in {"nat", "uint64"}
                            /\ Exact(ms, "issuedAt").t = "time"
    BY DEF parseCheckpoint
  <1> DEFINE T(n) == Exact(ms, n).t
  <1>1. Names(ms) \cap DOMAIN checkpointKinds = checkpointMembers
    BY DEF checkpointMembers, checkpointKinds
  <1>2. /\ checkpointKinds["v"] = "s" /\ checkpointKinds["type"] = "s"
        /\ checkpointKinds["seq"] = "u" /\ checkpointKinds["hash"] = "s"
        /\ checkpointKinds["count"] = "u" /\ checkpointKinds["issuedAt"] = "t"
        /\ checkpointKinds["keyId"] = "s" /\ checkpointKinds["signature"] = "s"
    BY DEF checkpointKinds
  <1>3. checkKinds(ms, checkpointKinds, TRUE)
            <=> \A n \in checkpointMembers :
                    T(n) # "null" /\ checkKind(T(n), checkpointKinds[n])
    BY <1>1 DEF checkKinds
  <1>4. \A t : /\ checkKind(t, "s") <=> t \in Strings
               /\ checkKind(t, "u") <=> t \in {"nat", "uint64"}
               /\ checkKind(t, "t") <=> t = "time"
    BY DEF checkKind
  <1>5. "null" \notin Strings /\ "time" \in Strings
    BY DEF Strings
  <1> HIDE DEF T
  <1>6. (\A n \in checkpointMembers : T(n) # "null" /\ checkKind(T(n), checkpointKinds[n]))
            <=> /\ \A n \in {"v", "type", "hash", "issuedAt", "keyId", "signature"} : T(n) \in Strings
                /\ \A n \in {"seq", "count"} : T(n) \in {"nat", "uint64"}
                /\ T("issuedAt") = "time"
    BY <1>2, <1>4, <1>5 DEF checkpointMembers
  <1> QED BY <1>3, <1>6 DEF T

\* And of a record's.
LEMMA SameEvents ==
    ASSUME NEW e
    PROVE  checkKinds(e, eventKinds, FALSE)
               <=> \A n \in eventMemberNames : eventValue(e, n, eventKinds[n])
  <1> DEFINE T(n) == Exact(e, n).t
  <1>1. DOMAIN eventKinds = eventMemberNames
    BY DEF eventKinds, eventMemberNames
  <1>2. \A n \in eventMemberNames : eventKinds[n] \in {"s", "i", "b", "t"}
    BY DEF eventKinds, eventMemberNames
  <1>3. \A n \in eventMemberNames :
            eventValue(e, n, eventKinds[n])
                <=> \/ n \notin Names(e) \/ T(n) = "null"
                    \/ checkKind(T(n), eventKinds[n])
    BY <1>2 DEF eventValue, checkKind
  <1>4. checkKinds(e, eventKinds, FALSE)
            <=> \A n \in Names(e) \cap eventMemberNames :
                    T(n) = "null" \/ checkKind(T(n), eventKinds[n])
    BY <1>1 DEF checkKinds
  <1> HIDE DEF T
  <1> QED BY <1>3, <1>4

LEMMA SameRecords ==
    ASSUME NEW ms
    PROVE  parseRecord(ms)
               <=> /\ recordMembers \subseteq Names(ms)
                   /\ ExactNames(ms, recordMembers \cup {"type"})
                   /\ Exact(ms, "event").t \in {"object", "null"}
                   /\ checkKinds(ms, recordKinds, TRUE)
                   /\ ExactNames(Exact(ms, "event").m, eventMemberNames)
                   /\ checkKinds(Exact(ms, "event").m, eventKinds, FALSE)
  <1> DEFINE T(n) == Exact(ms, n).t
             D(n, kind) == CASE kind = "s" -> T(n) \in Strings
                             [] kind = "n" -> T(n) \in {"nat", "neg", "frac", "uint64", "huge"}
                             [] kind = "o" -> T(n) = "object"
  <1> SUFFICES ASSUME ExactNames(ms, recordMembers \cup {"type"})
               PROVE  parseRecord(ms)
                        <=> /\ recordMembers \subseteq Names(ms)
                            /\ T("event") \in {"object", "null"}
                            /\ checkKinds(ms, recordKinds, TRUE)
                            /\ ExactNames(Exact(ms, "event").m, eventMemberNames)
                            /\ checkKinds(Exact(ms, "event").m, eventKinds, FALSE)
    BY DEF parseRecord
  <1>1. \A n \in recordMembers :
            /\ Lenient(ms, n) = Exact(ms, n)
            /\ (\E k \in Positions(ms) : ms[k].name = n) <=> n \in Names(ms)
    BY ExactReads
  <1>2. \A n \in recordMembers : \A kind \in {"s", "n", "o"} :
            decodes(ms, n, kind) <=> n \in Names(ms) /\ D(n, kind)
    BY <1>1 DEF decodes
  <1>3. /\ recordKinds["v"] = "s" /\ recordKinds["seq"] = "u" /\ recordKinds["eventName"] = "s"
        /\ recordKinds["timestamp"] = "t" /\ recordKinds["event"] = "o"
        /\ recordKinds["prevHash"] = "s" /\ recordKinds["hash"] = "s"
        /\ DOMAIN recordKinds = recordMembers
    BY DEF recordKinds, recordMembers
  <1>4. \A t : /\ checkKind(t, "s") <=> t \in Strings
               /\ checkKind(t, "u") <=> t \in {"nat", "uint64"}
               /\ checkKind(t, "t") <=> t = "time"
               /\ checkKind(t, "o") <=> t = "object"
    BY DEF checkKind
  <1>5. "null" \notin Strings /\ "time" \in Strings
    BY DEF Strings
  <1>6. checkKinds(ms, recordKinds, TRUE)
            <=> \A n \in Names(ms) \cap recordMembers :
                    T(n) # "null" /\ checkKind(T(n), recordKinds[n])
    BY <1>3 DEF checkKinds
  <1>7. /\ Lenient(ms, "event") = Exact(ms, "event")
        /\ Lenient(ms, "timestamp") = Exact(ms, "timestamp")
    BY <1>1 DEF recordMembers
  <1>8. parseRecord(ms)
            <=> /\ \A n \in {"v", "eventName", "timestamp", "prevHash", "hash"} :
                       n \in Names(ms) /\ D(n, "s")
                /\ "seq" \in Names(ms) /\ D("seq", "n")
                /\ "event" \in Names(ms) /\ D("event", "o")
                /\ ExactNames(Exact(ms, "event").m, eventMemberNames)
                /\ T("seq") \in {"nat", "uint64"} /\ T("timestamp") = "time"
                /\ checkKinds(Exact(ms, "event").m, eventKinds, FALSE)
    <2> HIDE DEF D
    <2>1. /\ \A n \in {"v", "eventName", "timestamp", "prevHash", "hash"} :
                 decodes(ms, n, "s") <=> n \in Names(ms) /\ D(n, "s")
          /\ decodes(ms, "seq", "n") <=> "seq" \in Names(ms) /\ D("seq", "n")
          /\ decodes(ms, "event", "o") <=> "event" \in Names(ms) /\ D("event", "o")
      BY <1>2 DEF recordMembers
    <2>2. checkKinds(Exact(ms, "event").m, eventKinds, FALSE)
              <=> \A n \in eventMemberNames : eventValue(Exact(ms, "event").m, n, eventKinds[n])
      BY SameEvents
    <2> HIDE DEF T
    <2>3. Exact(ms, "seq").t = T("seq") /\ Lenient(ms, "timestamp").t = T("timestamp")
      BY <1>7 DEF T
    <2> QED BY <1>7, <2>1, <2>2, <2>3 DEF parseRecord
  <1>9. \A n : /\ D(n, "s") <=> T(n) \in Strings
               /\ D(n, "n") <=> T(n) \in {"nat", "neg", "frac", "uint64", "huge"}
               /\ D(n, "o") <=> T(n) = "object"
    OBVIOUS
  <1> HIDE DEF T, D
  <1>10. checkKinds(ms, recordKinds, TRUE) /\ recordMembers \subseteq Names(ms)
            <=> /\ recordMembers \subseteq Names(ms)
                /\ \A n \in {"v", "eventName", "prevHash", "hash"} : T(n) \in Strings
                /\ T("seq") \in {"nat", "uint64"} /\ T("timestamp") = "time"
                /\ T("event") = "object"
    <2>1. recordMembers \subseteq Names(ms) => Names(ms) \cap recordMembers = recordMembers
      OBVIOUS
    <2>2. (\A n \in recordMembers : T(n) # "null" /\ checkKind(T(n), recordKinds[n]))
            <=> /\ \A n \in {"v", "eventName", "prevHash", "hash"} : T(n) \in Strings
                /\ T("seq") \in {"nat", "uint64"} /\ T("timestamp") = "time"
                /\ T("event") = "object"
      BY <1>3, <1>4, <1>5 DEF recordMembers
    <2> QED BY <1>6, <2>1, <2>2
  <1>11. parseRecord(ms)
            <=> /\ recordMembers \subseteq Names(ms)
                /\ \A n \in {"v", "eventName", "prevHash", "hash"} : T(n) \in Strings
                /\ T("seq") \in {"nat", "uint64"} /\ T("timestamp") = "time"
                /\ T("event") = "object"
                /\ ExactNames(Exact(ms, "event").m, eventMemberNames)
                /\ checkKinds(Exact(ms, "event").m, eventKinds, FALSE)
    <2>1. recordMembers \subseteq Names(ms)
            <=> /\ \A n \in {"v", "eventName", "timestamp", "prevHash", "hash"} : n \in Names(ms)
                /\ "seq" \in Names(ms) /\ "event" \in Names(ms)
      BY DEF recordMembers
    <2> QED BY <1>5, <1>8, <1>9, <2>1
  <1> QED BY <1>10, <1>11

\* No sequence of members is read differently by the two programs.
THEOREM SameReading ==
    ASSUME NEW l
    PROVE  decodeLine(l) = classifyLine(l)
  BY SameCheckpoints, SameRecords DEF decodeLine, classifyLine, NoDuplicates, noDuplicates

(* Times *)

\* One day more or less, where a multiple of k begins.
LEMMA Multiples ==
    ASSUME NEW n \in Nat, n > 0
    PROVE  /\ n \div 4 = ((n - 1) \div 4) + (IF n % 4 = 0 THEN 1 ELSE 0)
           /\ n \div 100 = ((n - 1) \div 100) + (IF n % 100 = 0 THEN 1 ELSE 0)
           /\ n \div 400 = ((n - 1) \div 400) + (IF n % 400 = 0 THEN 1 ELSE 0)
  OBVIOUS

\* A year is as long as its months: 365 days, 366 where it is a leap year.
LEMMA YearLength ==
    ASSUME NEW y \in Nat
    PROVE  /\ YearStart(y) \in Int
           /\ YearStart(y + 1) = YearStart(y) + 365 + (IF Leap(y) THEN 1 ELSE 0)
  <1>1. CASE y = 0
    BY <1>1 DEF YearStart, Leap
  <1>2. CASE y > 0
    <2> DEFINE a == (y - 1) \div 4
               b == (y - 1) \div 100
               c == (y - 1) \div 400
               u == IF y % 4 = 0 THEN 1 ELSE 0
               v == IF y % 100 = 0 THEN 1 ELSE 0
               w == IF y % 400 = 0 THEN 1 ELSE 0
    <2>1. a \in Int /\ b \in Int /\ c \in Int
      OBVIOUS
    <2>2. YearStart(y) = 366 + 365 * (y - 1) + a - b + c
      BY <1>2 DEF YearStart
    <2>3. YearStart(y + 1) = 366 + 365 * y + (a + u) - (b + v) + (c + w)
      BY <1>2, Multiples DEF YearStart
    <2>4. u - v + w = IF Leap(y) THEN 1 ELSE 0
      <3>1. (y % 400 = 0 => y % 100 = 0) /\ (y % 100 = 0 => y % 4 = 0)
        OBVIOUS
      <3> QED BY <3>1 DEF Leap
    <2>5. u \in Int /\ v \in Int /\ w \in Int
      OBVIOUS
    <2> HIDE DEF a, b, c, u, v, w
    <2> QED BY <2>1, <2>2, <2>3, <2>4, <2>5
  <1> QED BY <1>1, <1>2

\* The year before year 0 has 365 days.
LEMMA YearBeforeZero == YearStart(0) = YearStart(-1) + 365 /\ YearStart(-1) \in Int
  BY DEF YearStart

Starts == <<0, 31, 59, 90, 120, 151, 181, 212, 243, 273, 304, 334>>

\* A month begins where the one before it ends; after December comes a year.
LEMMA MonthLength ==
    ASSUME NEW y, NEW mo \in 1..12
    PROVE  /\ MonthStart(y, mo) \in Int /\ DaysIn(y, mo) \in 28..31
           /\ mo < 12 => MonthStart(y, mo + 1) = MonthStart(y, mo) + DaysIn(y, mo)
           /\ MonthStart(y, 1) = 0
           /\ MonthStart(y, 12) + DaysIn(y, 12) = 365 + (IF Leap(y) THEN 1 ELSE 0)
  <1> DEFINE leap == IF Leap(y) THEN 1 ELSE 0
  <1>1. \A m \in 1..12 : MonthStart(y, m) = Starts[m] + (IF m > 2 THEN leap ELSE 0)
    BY DEF MonthStart, Starts
  <1>2. /\ Starts[1] = 0 /\ Starts[2] = 31 /\ Starts[3] = 59 /\ Starts[4] = 90
        /\ Starts[5] = 120 /\ Starts[6] = 151 /\ Starts[7] = 181 /\ Starts[8] = 212
        /\ Starts[9] = 243 /\ Starts[10] = 273 /\ Starts[11] = 304 /\ Starts[12] = 334
    BY DEF Starts
  <1>3. \A m \in 1..12 : DaysIn(y, m) = IF m = 2 THEN 28 + leap
                                        ELSE IF m \in {4, 6, 9, 11} THEN 30 ELSE 31
    BY DEF DaysIn
  <1>4. leap \in {0, 1}
    OBVIOUS
  <1> HIDE DEF leap
  <1>5. \A m \in 1..12 : MonthStart(y, m) \in Int /\ DaysIn(y, m) \in 28..31
    BY <1>1, <1>2, <1>3, <1>4
  <1>6. \A m \in 1..11 : MonthStart(y, m + 1) = MonthStart(y, m) + DaysIn(y, m)
    <2> SUFFICES ASSUME NEW m \in 1..11
                 PROVE MonthStart(y, m + 1) = MonthStart(y, m) + DaysIn(y, m)
      OBVIOUS
    <2>1. /\ MonthStart(y, m) = Starts[m] + (IF m > 2 THEN leap ELSE 0)
          /\ MonthStart(y, m + 1) = Starts[m + 1] + (IF m + 1 > 2 THEN leap ELSE 0)
          /\ DaysIn(y, m) = IF m = 2 THEN 28 + leap
                            ELSE IF m \in {4, 6, 9, 11} THEN 30 ELSE 31
      BY <1>1, <1>3
    <2>2. \/ m = 1 \/ m = 2 \/ m = 3 \/ m = 4 \/ m = 5 \/ m = 6 \/ m = 7 \/ m = 8 \/ m = 9
          \/ m = 10 \/ m = 11
      OBVIOUS
    <2> QED BY <1>2, <1>4, <2>1, <2>2
  <1>7. MonthStart(y, 1) = 0 /\ MonthStart(y, 12) + DaysIn(y, 12) = 365 + leap
    BY <1>1, <1>2, <1>3, <1>4
  <1> QED BY <1>5, <1>6, <1>7 DEF leap

\* The number of a day, and the days before and after it.
DayNumber(date) == YearStart(date[1]) + MonthStart(date[1], date[2]) + date[3]
LEMMA NextDay ==
    ASSUME NEW y \in Nat, NEW mo \in 1..12, NEW d \in 1..DaysIn(y, mo)
    PROVE  /\ DayNumber(<<y, mo, d>>) \in Int
           /\ DayNumber(DayAfter(y, mo, d)) = DayNumber(<<y, mo, d>>) + 1
           /\ DayNumber(DayBefore(y, mo, d)) = DayNumber(<<y, mo, d>>) - 1
  <1>1. /\ YearStart(y) \in Int
        /\ YearStart(y + 1) = YearStart(y) + 365 + (IF Leap(y) THEN 1 ELSE 0)
    BY YearLength
  <1>2. /\ MonthStart(y, mo) \in Int /\ DaysIn(y, mo) \in 28..31
        /\ mo < 12 => MonthStart(y, mo + 1) = MonthStart(y, mo) + DaysIn(y, mo)
    BY MonthLength
  <1>3. \A z \in Int : \A m \in 1..12 : \A e \in Int :
            DayNumber(<<z, m, e>>) = YearStart(z) + MonthStart(z, m) + e
    BY DEF DayNumber
  <1>4. DayNumber(<<y, mo, d>>) = YearStart(y) + MonthStart(y, mo) + d
    BY <1>3
  <1>5. DayNumber(DayAfter(y, mo, d)) = DayNumber(<<y, mo, d>>) + 1
    <2>1. CASE d < DaysIn(y, mo)
      <3>1. DayAfter(y, mo, d) = <<y, mo, d + 1>>
        BY <2>1 DEF DayAfter
      <3>2. DayNumber(<<y, mo, d + 1>>) = YearStart(y) + MonthStart(y, mo) + (d + 1)
        BY <1>3
      <3> QED BY <1>1, <1>2, <1>4, <3>1, <3>2
    <2>2. CASE d = DaysIn(y, mo) /\ mo < 12
      <3>1. DayAfter(y, mo, d) = <<y, mo + 1, 1>>
        BY <1>2, <2>2 DEF DayAfter
      <3>2. DayNumber(<<y, mo + 1, 1>>) = YearStart(y) + MonthStart(y, mo + 1) + 1
        BY <1>3, <2>2
      <3> QED BY <1>1, <1>2, <1>4, <2>2, <3>1, <3>2
    <2>3. CASE d = DaysIn(y, mo) /\ mo = 12
      <3>1. DayAfter(y, mo, d) = <<y + 1, 1, 1>>
        BY <1>2, <2>3 DEF DayAfter
      <3>2. DayNumber(<<y + 1, 1, 1>>) = YearStart(y + 1) + MonthStart(y + 1, 1) + 1
        BY <1>3
      <3>3. /\ MonthStart(y + 1, 1) = 0
            /\ MonthStart(y, 12) + DaysIn(y, 12) = 365 + (IF Leap(y) THEN 1 ELSE 0)
        BY MonthLength
      <3> QED BY <1>1, <1>2, <1>4, <2>3, <3>1, <3>2, <3>3
    <2> QED BY <1>2, <2>1, <2>2, <2>3
  <1>6. DayNumber(DayBefore(y, mo, d)) = DayNumber(<<y, mo, d>>) - 1
    <2>1. CASE d > 1
      <3>1. DayBefore(y, mo, d) = <<y, mo, d - 1>>
        BY <2>1 DEF DayBefore
      <3>2. DayNumber(<<y, mo, d - 1>>) = YearStart(y) + MonthStart(y, mo) + (d - 1)
        BY <1>2, <1>3
      <3> QED BY <1>1, <1>2, <1>4, <3>1, <3>2
    <2>2. CASE d = 1 /\ mo > 1
      <3>1. DayBefore(y, mo, d) = <<y, mo - 1, DaysIn(y, mo - 1)>>
        BY <2>2 DEF DayBefore
      <3>2. /\ mo - 1 \in 1..12 /\ (mo - 1) + 1 = mo /\ mo - 1 < 12
        BY <2>2
      <3>3. /\ DaysIn(y, mo - 1) \in Int /\ MonthStart(y, mo - 1) \in Int
            /\ MonthStart(y, mo) = MonthStart(y, mo - 1) + DaysIn(y, mo - 1)
        BY <3>2, MonthLength
      <3>4. DayNumber(<<y, mo - 1, DaysIn(y, mo - 1)>>)
                = YearStart(y) + MonthStart(y, mo - 1) + DaysIn(y, mo - 1)
        BY <1>3, <3>2, <3>3
      <3> QED BY <1>1, <1>4, <2>2, <3>1, <3>3, <3>4
    <2>3. CASE d = 1 /\ mo = 1
      <3>1. DayBefore(y, mo, d) = <<y - 1, 12, 31>>
        BY <2>3 DEF DayBefore
      <3>2. DayNumber(<<y - 1, 12, 31>>) = YearStart(y - 1) + MonthStart(y - 1, 12) + 31
        BY <1>3
      <3>3. /\ MonthStart(y, 1) = 0 /\ MonthStart(y - 1, 12) \in Int
            /\ MonthStart(y - 1, 12) + DaysIn(y - 1, 12) = 365 + (IF Leap(y - 1) THEN 1 ELSE 0)
        BY MonthLength
      <3>4. DaysIn(y - 1, 12) = 31
        BY DEF DaysIn
      <3>5. /\ YearStart(y - 1) \in Int
            /\ YearStart(y) = YearStart(y - 1) + 365 + (IF Leap(y - 1) THEN 1 ELSE 0)
        <4>1. CASE y > 0
          <5>1. y - 1 \in Nat /\ (y - 1) + 1 = y
            BY <4>1
          <5> QED BY <5>1, YearLength
        <4>2. CASE y = 0
          <5>1. ~Leap(-1) /\ y - 1 = -1
            BY <4>2 DEF Leap
          <5> QED BY <4>2, <5>1, YearBeforeZero
        <4> QED BY <4>1, <4>2
      <3> QED BY <1>1, <1>4, <2>3, <3>1, <3>2, <3>3, <3>4, <3>5
    <2> QED BY <2>1, <2>2, <2>3
  <1> QED BY <1>1, <1>2, <1>4, <1>5, <1>6

\* A timestamp as the grammar has it: numbers without a sign, and an offset.
TimeOK(t) ==
    /\ t.y \in Nat /\ t.mo \in Int /\ t.d \in Int /\ t.h \in Nat /\ t.mi \in Nat
    /\ \/ t.zone = <<>>
       \/ t.zone # <<>> /\ t.zone[1] \in {-1, 1} /\ t.zone[2] \in Nat /\ t.zone[3] \in Nat

\* What both hash of a timestamp names the instant that was written.
LEMMA SameInstant ==
    ASSUME NEW t, TimeOK(t), ValidTimestamp(t)
    PROVE  LET u == UTC(t) IN
           /\ Instant(u.date[1], u.date[2], u.date[3], u.min)
                = Instant(t.y, t.mo, t.d, 60 * t.h + t.mi - Offset(t))
           /\ u.date[1] \in Int
  <1> DEFINE m == 60 * t.h + t.mi - Offset(t)
             date == IF m < 0 THEN DayBefore(t.y, t.mo, t.d)
                     ELSE IF m >= 1440 THEN DayAfter(t.y, t.mo, t.d) ELSE <<t.y, t.mo, t.d>>
             n == DayNumber(<<t.y, t.mo, t.d>>)
  <1>1. /\ t.y \in Nat /\ t.mo \in 1..12 /\ t.h \in Nat /\ t.h <= 23 /\ t.mi \in Nat
        /\ t.mi <= 59 /\ t.d \in 1..DaysIn(t.y, t.mo)
    <2>1. /\ t.mo \in 1..12 /\ t.d >= 1 /\ t.h <= 23 /\ t.mi <= 59 /\ t.d <= DaysIn(t.y, t.mo)
      BY DEF ValidTimestamp
    <2>2. t.y \in Nat /\ t.d \in Int /\ t.h \in Nat /\ t.mi \in Nat
      BY DEF TimeOK
    <2>3. DaysIn(t.y, t.mo) \in Int
      BY <2>1, MonthLength
    <2> QED BY <2>1, <2>2, <2>3
  <1>2. Offset(t) \in Int /\ -1439 <= Offset(t) /\ Offset(t) <= 1439
    <2>1. CASE t.zone = <<>>
      BY <2>1 DEF Offset
    <2>2. CASE t.zone # <<>>
      <3> DEFINE sign == t.zone[1]
                 h == t.zone[2]
                 mi == t.zone[3]
      <3>1. sign \in {-1, 1} /\ h \in Nat /\ mi \in Nat
        BY <2>2 DEF TimeOK
      <3>2. h <= 23 /\ mi <= 59
        BY <2>2 DEF ValidTimestamp
      <3>3. Offset(t) = sign * (60 * h + mi)
        BY <2>2 DEF Offset
      <3> HIDE DEF sign, h, mi
      <3>4. 60 * h + mi \in Nat /\ 60 * h + mi <= 1439
        BY <3>1, <3>2
      <3>5. CASE sign = 1
        BY <3>3, <3>4, <3>5
      <3>6. CASE sign = -1
        BY <3>3, <3>4, <3>6
      <3> QED BY <3>1, <3>5, <3>6
    <2> QED BY <2>1, <2>2
  <1>3. m \in Int /\ -1439 <= m /\ m <= 2878
    BY <1>1, <1>2
  <1>4. UTC(t).date = date /\ UTC(t).min = m % 1440
    BY DEF UTC
  <1>5. /\ n \in Int
        /\ DayNumber(DayAfter(t.y, t.mo, t.d)) = n + 1
        /\ DayNumber(DayBefore(t.y, t.mo, t.d)) = n - 1
    BY <1>1, NextDay
  <1> HIDE DEF m, n
  <1>6. DayNumber(date) = n + (m \div 1440)
    <2>1. CASE m < 0
      <3>1. m \div 1440 = -1
        BY <1>3, <2>1
      <3> QED BY <1>5, <2>1, <3>1
    <2>2. CASE m >= 1440
      <3>1. m \div 1440 = 1 /\ ~(m < 0)
        BY <1>3, <2>2
      <3> QED BY <1>5, <2>2, <3>1
    <2>3. CASE m >= 0 /\ m < 1440
      <3>1. m \div 1440 = 0 /\ ~(m < 0) /\ ~(m >= 1440)
        BY <1>3, <2>3
      <3> QED BY <1>5, <2>3, <3>1 DEF n
    <2> QED BY <1>3, <2>1, <2>2, <2>3
  <1>7. date[1] \in Int
    <2>1. /\ DayBefore(t.y, t.mo, t.d)[1] \in Int /\ DayAfter(t.y, t.mo, t.d)[1] \in Int
      BY <1>1 DEF DayBefore, DayAfter
    <2>2. <<t.y, t.mo, t.d>>[1] \in Int
      BY <1>1
    <2> QED BY <2>1, <2>2
  <1> HIDE DEF date
  <1>8. \A k \in Int : k % 1440 \in 0..1439 /\ (k % 1440) \div 1440 = 0 /\ (k % 1440) % 1440 = k % 1440
    OBVIOUS
  <1>9. m \in Int
    BY <1>3
  <1>10. Instant(date[1], date[2], date[3], m % 1440) = <<DayNumber(date) + 0, m % 1440>>
    BY <1>8, <1>9 DEF Instant, DayNumber
  <1>11. Instant(t.y, t.mo, t.d, m) = <<n + (m \div 1440), m % 1440>>
    BY DEF Instant, DayNumber, n
  <1>12. DayNumber(date) + 0 = DayNumber(date)
    BY <1>3, <1>5, <1>6
  <1>13. Instant(date[1], date[2], date[3], m % 1440) = Instant(t.y, t.mo, t.d, m)
    BY <1>6, <1>10, <1>11, <1>12
  <1> QED BY <1>4, <1>7, <1>13 DEF m

\* From year 0 on both write a year alike.
LEMMA SameYears ==
    ASSUME NEW y \in Int, y >= 0
    PROVE  formatYear(y) = sprintfYear(y)
  BY DEF formatYear, sprintfYear

\* The two programs refuse the same timestamps and hash the same text of the others,
\* which names the instant that was written.
TimesOf(t, sink, auditor) ==
    /\ sink.year = <<>> <=> auditor.year = <<>>
    /\ sink.year # <<>> =>
           /\ Instant(sink.date[1], sink.date[2], sink.date[3], sink.min)
                = Instant(t.y, t.mo, t.d, 60 * t.h + t.mi - Offset(t))
           /\ sink.date[1] >= 0 => sink = auditor
LEMMA SameTimes ==
    ASSUME NEW t, TimeOK(t)
    PROVE  TimesOf(t, hashedTime(t), ts(t))
  <1>1. CASE ~ValidTimestamp(t)
    <2>1. hashedTime(t) = [year |-> <<>>] /\ ts(t) = [year |-> <<>>]
      BY <1>1 DEF hashedTime, ts, ValidTimestamp
    <2> QED BY <2>1 DEF TimesOf
  <1>2. CASE ValidTimestamp(t)
    <2> DEFINE y == UTC(t).date[1]
    <2>1. hashedTime(t) = TimeText(t, formatYear(y)) /\ ts(t) = TimeText(t, sprintfYear(y))
      BY <1>2 DEF hashedTime, ts, ValidTimestamp
    <2>2. \A x : /\ TimeText(t, x).year = x /\ TimeText(t, x).date = UTC(t).date
                 /\ TimeText(t, x).min = UTC(t).min
      BY DEF TimeText
    <2>3. formatYear(y) # <<>> /\ sprintfYear(y) # <<>>
      BY DEF formatYear, sprintfYear
    <2>4. /\ Instant(UTC(t).date[1], UTC(t).date[2], UTC(t).date[3], UTC(t).min)
                = Instant(t.y, t.mo, t.d, 60 * t.h + t.mi - Offset(t))
          /\ y \in Int
      BY <1>2, SameInstant
    <2>5. y >= 0 => formatYear(y) = sprintfYear(y)
      BY <2>4, SameYears
    <2> DEFINE a == hashedTime(t)
               b == ts(t)
    <2>6. /\ a.year # <<>> /\ b.year # <<>> /\ a.date = UTC(t).date /\ a.min = UTC(t).min
          /\ y >= 0 => a = b
      BY <2>1, <2>2, <2>3, <2>5
    <2> HIDE DEF a, b
    <2>7. TimesOf(t, a, b)
      BY <2>4, <2>6 DEF TimesOf
    <2> QED BY <2>7 DEF a, b
  <1> QED BY <1>1, <1>2

(* Fields *)

\* A sequence is cut back to what it was before another was put behind it, and is all
\* of itself.
LEMMA FrontOf ==
    ASSUME NEW S, NEW s \in Seq(S), NEW r \in Seq(S)
    PROVE  SubSeq(s \o r, 1, Len(s)) = s /\ SubSeq(s \o r, 1, Len(s \o r)) = s \o r
  <1>1. s \o r \in Seq(S) /\ Len(s \o r) = Len(s) + Len(r) /\ \A k \in 1..Len(s) : (s \o r)[k] = s[k]
    OBVIOUS
  <1>2. Len(s) \in Nat /\ Len(r) \in Nat
    OBVIOUS
  <1>3. \A q \in Seq(S) : SubSeq(q, 1, Len(q)) = q
    OBVIOUS
  <1>4. SubSeq(s \o r, 1, Len(s)) = s
    <2> DEFINE q == SubSeq(s \o r, 1, Len(s))
    <2>1. q \in Seq(S) /\ Len(q) = Len(s) /\ \A k \in 1..Len(s) : q[k] = (s \o r)[k]
      BY <1>1, <1>2
    <2> HIDE DEF q
    <2>2. q = s
      BY <1>1, <2>1
    <2> QED BY <2>2 DEF q
  <1> QED BY <1>1, <1>3, <1>4

\* The list of the auditor's, cut for the first version, is the sink's.
LEMMA SameFields ==
    ASSUME NEW v \in {"v1", "v2"}
    PROVE  canonicalRecordInput(v) = hashInput(v) /\ canonicalCheckpointInput = signingInput
  <1> DEFINE base == <<"EventID", "TenantID", "AgentID", "KeyID", "DecisionID", "RequestID",
                       "TraceID", "RouteID", "Action", "ResourceType", "ResourceID", "BackendID",
                       "Decision", "ReasonCode", "HTTPStatus", "SourceIP", "UserAgent",
                       "StartedAt", "FinishedAt", "LatencyMS">>
             more == v2Fields
             First == {"EventID", "TenantID", "AgentID", "KeyID", "DecisionID", "RequestID",
                       "TraceID", "RouteID", "Action", "ResourceType", "ResourceID", "BackendID",
                       "Decision", "ReasonCode", "HTTPStatus", "SourceIP", "UserAgent",
                       "StartedAt", "FinishedAt", "LatencyMS"}
             Second == {"SourceTenant", "Federated", "TrustGrant", "Risk", "Producer"}
             Ahead == {"seq", "prevHash", "eventName", "timestamp"}
             S == First \cup Second \cup Ahead
  <1>1. base \in Seq(S) /\ Len(base) = 20
    <2>1. base \in Seq(First) /\ Len(base) = 20
      OBVIOUS
    <2> HIDE DEF base, First, Second, Ahead
    <2> QED BY <2>1
  <1>2. more \in Seq(S)
    <2>1. more \in Seq(Second)
      BY DEF v2Fields
    <2> HIDE DEF more, First, Second, Ahead
    <2> QED BY <2>1
  <1>3. envelope \in Seq(S)
    <2>1. envelope \in Seq(Ahead)
      BY DEF envelope
    <2> HIDE DEF First, Second, Ahead
    <2> QED BY <2>1
  <1>4. eventFields = base \o more
    BY DEF eventFields
  <1>5. canonicalRecordInput(v) = (envelope \o base) \o (IF v = "v1" THEN <<>> ELSE more)
    BY DEF canonicalRecordInput
  <1>6. hashInput(v) = envelope \o SubSeq(eventFields, 1, IF v = "v1" THEN 20 ELSE Len(eventFields))
    BY DEF hashInput, v1FieldCount
  <1>7. canonicalCheckpointInput = signingInput
    BY DEF canonicalCheckpointInput, signingInput
  <1> HIDE DEF base, more, S
  <1>8. SubSeq(base \o more, 1, 20) = base /\ SubSeq(base \o more, 1, Len(base \o more)) = base \o more
    BY <1>1, <1>2, FrontOf
  <1>9. (envelope \o base) \o <<>> = envelope \o base
    BY <1>1, <1>3
  <1>10. (envelope \o base) \o more = envelope \o (base \o more)
    BY <1>1, <1>2, <1>3
  <1> QED BY <1>4, <1>5, <1>6, <1>7, <1>8, <1>9, <1>10

\* What the readers were asked.
ReadingAsked ==
    /\ ask.kind = "line" =>
           answer = [sink |-> decodeLine(ask.line), auditor |-> classifyLine(ask.line)]
    /\ ask.kind = "time" =>
           TimeOK(ask.t) /\ answer = [sink |-> hashedTime(ask.t), auditor |-> ts(ask.t)]
    /\ ask.kind = "fields" => \E v \in {"v1", "v2"} :
           answer = [sink |-> <<canonicalRecordInput(v), canonicalCheckpointInput>>,
                     auditor |-> <<hashInput(v), signingInput>>]

\* The timestamps of the runs are of the grammar.
LEMMA TimestampsOK ==
    ASSUME NEW date \in Dates, NEW clock \in Clocks, NEW s, NEW zone \in Zones, NEW frac,
           NEW strict
    PROVE  TimeOK(Timestamp(date, clock, s, zone, frac, strict))
  <1> DEFINE t == Timestamp(date, clock, s, zone, frac, strict)
  <1>1. /\ t.y = date[1] /\ t.mo = date[2] /\ t.d = date[3] /\ t.h = clock[1]
        /\ t.mi = clock[2] /\ t.zone = zone
    BY DEF Timestamp
  <1>2. date[1] \in Nat /\ date[2] \in Int /\ date[3] \in Int
    BY DEF Dates
  <1>3. clock[1] \in Nat /\ clock[2] \in Nat
    BY DEF Clocks
  <1>4. \/ zone = <<>>
        \/ zone # <<>> /\ zone[1] \in {-1, 1} /\ zone[2] \in Nat /\ zone[3] \in Nat
    <2>1. CASE zone \in {-1, 1} \X {0, 1, 23, 24} \X {0, 59, 60}
      <3>1. PICK x \in {-1, 1}, h \in {0, 1, 23, 24}, n \in {0, 59, 60} : zone = <<x, h, n>>
        BY <2>1
      <3>2. zone # <<>> /\ zone[1] = x /\ zone[2] = h /\ zone[3] = n
        BY <3>1
      <3> QED BY <3>2
    <2> QED BY <2>1 DEF Zones
  <1> HIDE DEF t
  <1>5. TimeOK(t)
    BY <1>1, <1>2, <1>3, <1>4 DEF TimeOK
  <1> QED BY <1>5 DEF t

\* The readers are asked about the same line, timestamp and version.
LEMMA ReadingBelongs == Spec => []ReadingAsked
  <1>1. Init => ReadingAsked
    BY DEF Init, Idle, ReadingAsked
  <1>2. ReadingAsked /\ [Next]_vars => ReadingAsked'
    <2> SUFFICES ASSUME ReadingAsked, [Next]_vars PROVE ReadingAsked'
      OBVIOUS
    <2>1. CASE ReadLine
      <3>1. PICK l : /\ ask' = [kind |-> "line", line |-> l]
                     /\ answer' = [sink |-> decodeLine(l), auditor |-> classifyLine(l)]
        BY <2>1, Zenon DEF ReadLine
      <3>2. ask'.kind = "line" /\ ask'.line = l
        BY <3>1
      <3> QED BY <3>1, <3>2 DEF ReadingAsked
    <2>2. CASE HashTime
      <3>1. PICK date \in Dates, clock \in Clocks, s \in Seconds, zone \in Zones,
                 frac \in Fractions, strict \in BOOLEAN :
                    HashOne(Timestamp(date, clock, s, zone, frac, strict))
        BY <2>2, Zenon DEF HashTime
      <3> DEFINE t == Timestamp(date, clock, s, zone, frac, strict)
      <3>2. TimeOK(t)
        BY TimestampsOK
      <3> HIDE DEF t
      <3>3. ask' = [kind |-> "time", t |-> t] /\ answer' = [sink |-> hashedTime(t), auditor |-> ts(t)]
        BY <3>1, Zenon DEF HashOne, t
      <3>4. ask'.kind = "time" /\ ask'.t = t
        BY <3>3
      <3> QED BY <3>2, <3>3, <3>4 DEF ReadingAsked
    <2>3. CASE HashFields
      <3>1. PICK v \in {"v1", "v2"} :
              /\ ask' = [kind |-> "fields", v |-> v]
              /\ answer' = [sink |-> <<canonicalRecordInput(v), canonicalCheckpointInput>>,
                            auditor |-> <<hashInput(v), signingInput>>]
        BY <2>3 DEF HashFields
      <3>2. ask'.kind = "fields"
        BY <3>1
      <3> QED BY <3>1, <3>2 DEF ReadingAsked
    <2>4. CASE ask'.kind \notin {"line", "time", "fields"}
      BY <2>4 DEF ReadingAsked
    <2>5. CASE UNCHANGED vars
      BY <2>5 DEF vars, ReadingAsked
    <2>6. Next => ReadLine \/ HashTime \/ HashFields \/ ask'.kind \notin {"line", "time", "fields"}
      <3>1. /\ BuildGuard => ask'.kind = "guard"
            /\ Observe => ask'.kind = "connection"
            /\ AskPolicy => ask'.kind = "action"
            /\ AskOPA => ask'.kind = "opa"
        BY MoreKinds
      <3> QED BY Kinds, <3>1 DEF Next
    <2> QED BY <2>1, <2>2, <2>3, <2>4, <2>5, <2>6
  <1> QED BY <1>1, <1>2, PTL DEF Spec

\* No line is a record to one reader of a log and something else, or another record,
\* to the next, whatever its members; both hash the same fields, and of a timestamp
\* the same text, which names the instant that was written (pkg/evidence,
\* cmd/agw-verify).
THEOREM LinesAgreeHolds == Spec => []LinesAgree
  <1>1. ReadingAsked => SameKind
    BY SameReading DEF ReadingAsked, SameKind
  <1>2. ReadingAsked => ReadersAgree
    <2> SUFFICES ASSUME ReadingAsked, ask.kind = "line", answer.sink # "malformed"
                 PROVE  LET ms == ask.line.ms
                            defined == IF answer.sink = "record" THEN recordMembers
                                       ELSE checkpointMembers
                        IN /\ \A n \in defined : Lenient(ms, n) = Exact(ms, n)
                           /\ answer.sink = "record" =>
                                  LET e == Exact(ms, "event").m IN
                                  \A n \in eventMemberNames :
                                      (\E k \in Positions(e) : e[k].name = n)
                                          => n \in Names(e) /\ Lenient(e, n) = Exact(e, n)
      BY DEF ReadersAgree
    <2> DEFINE ms == ask.line.ms
               e == Exact(ms, "event").m
    <2>1. answer.sink = decodeLine(ask.line)
      BY DEF ReadingAsked
    <2>2. \/ answer.sink = "checkpoint" /\ ExactNames(ms, checkpointMembers)
          \/ /\ answer.sink = "record" /\ ExactNames(ms, recordMembers \cup {"type"})
             /\ ExactNames(e, eventMemberNames)
      BY <2>1 DEF decodeLine
    <2>3. answer.sink = "checkpoint" => \A n \in checkpointMembers : Lenient(ms, n) = Exact(ms, n)
      BY <2>2, ExactReads
    <2>4. answer.sink = "record" => \A n \in recordMembers : Lenient(ms, n) = Exact(ms, n)
      BY <2>2, ExactReads
    <2>5. answer.sink = "record" =>
              \A n \in eventMemberNames :
                  (\E k \in Positions(e) : e[k].name = n)
                      => n \in Names(e) /\ Lenient(e, n) = Exact(e, n)
      BY <2>2, ExactReads
    <2> QED BY <2>2, <2>3, <2>4, <2>5
  <1>3. ReadingAsked => TimesAgree
    <2> SUFFICES ASSUME ReadingAsked, ask.kind = "time" PROVE TimesAgree
      BY DEF TimesAgree
    <2>1. TimesOf(ask.t, answer.sink, answer.auditor)
      <3>1. /\ TimeOK(ask.t) /\ answer.sink = hashedTime(ask.t) /\ answer.auditor = ts(ask.t)
        BY DEF ReadingAsked
      <3> QED BY <3>1, SameTimes
    <2> QED BY <2>1 DEF TimesOf, TimesAgree
  <1>4. ReadingAsked => FieldsAgree
    BY SameFields DEF ReadingAsked, FieldsAgree
  <1> QED BY <1>1, <1>2, <1>3, <1>4, ReadingBelongs, PTL DEF LinesAgree

-----------------------------------------------------------------------------
(* The audit trail *)

\* Line k of an export, given the lines above it.
ConvertAt(records, g, k) ==
    IF k = 1 THEN genesis(records)
    ELSE Linked(g[k - 1], convertOne(records[k - 1], sessionOf(records)))

\* There are such lines for every log: a shortest log without them cannot be.
LEMMA ConvertDefined ==
    ASSUME NEW records, NEW N \in Nat
    PROVE  \E g : g = [k \in 1..N |-> ConvertAt(records, g, k)]
  <1> DEFINE T == {m \in Nat : ~\E g : g = [k \in 1..m |-> ConvertAt(records, g, k)]}
  <1> SUFFICES ASSUME N \in T PROVE FALSE
    OBVIOUS
  <1>1. T \subseteq Nat /\ T # {}
    OBVIOUS
  <1>2. PICK m \in T : \A o \in T : m <= o
    <2> HIDE DEF T
    <2> QED BY <1>1, LeastNumber
  <1>3. m # 0
    <2>1. SUFFICES ASSUME m = 0 PROVE FALSE
      OBVIOUS
    <2> DEFINE e == [k \in 1..0 |-> k]
    <2>2. \A k \in 1..0 : FALSE
      OBVIOUS
    <2>3. e = [k \in 1..m |-> ConvertAt(records, e, k)]
      BY <2>1, <2>2
    <2> QED BY <1>2, <2>3
  <1>4. m \in Nat /\ m - 1 \in Nat /\ m - 1 \notin T
    BY <1>2, <1>3, SMTT(30)
  <1>5. PICK g : g = [k \in 1..(m - 1) |-> ConvertAt(records, g, k)]
    BY <1>4
  <1> DEFINE h == [k \in 1..m |-> IF k < m THEN g[k] ELSE ConvertAt(records, g, k)]
  <1>6. \A k \in 1..(m - 1) : g[k] = h[k] /\ g[k] = ConvertAt(records, g, k)
    <2> HIDE DEF T
    <2>1. \A k \in 1..(m - 1) : k \in 1..m /\ k < m
      BY <1>4
    <2>2. \A k \in 1..(m - 1) : g[k] = ConvertAt(records, g, k)
      BY <1>5
    <2> QED BY <2>1, <2>2
  <1>7. ASSUME NEW k \in 1..m PROVE h[k] = ConvertAt(records, h, k)
    <2>1. h[k] = ConvertAt(records, g, k)
      <3>1. CASE k = m
        BY <1>4, <3>1
      <3>2. CASE k # m
        <4>1. k \in 1..(m - 1) /\ k < m
          BY <1>4, <3>2
        <4>2. g[k] = ConvertAt(records, g, k)
          BY <1>6, <4>1
        <4>3. h[k] = g[k]
          BY <4>1
        <4> QED BY <4>2, <4>3
      <3> QED BY <3>1, <3>2
    <2>2. k # 1 => g[k - 1] = h[k - 1]
      <3> HIDE DEF h, T
      <3> QED BY <1>4, <1>6
    <2>3. ConvertAt(records, g, k) = ConvertAt(records, h, k)
      <3> HIDE DEF h, T
      <3> QED BY <2>2 DEF ConvertAt
    <2> QED BY <2>1, <2>3
  <1>8. h = [k \in 1..m |-> h[k]]
    OBVIOUS
  <1>9. h = [k \in 1..m |-> ConvertAt(records, h, k)]
    <2> HIDE DEF h, T
    <2> QED BY <1>7, <1>8
  <1> HIDE DEF h
  <1> QED BY <1>2, <1>9

\* A record of a log: what is refused is not written when a connection closes.
AuditRecord(r) == r.timestamp \in Int /\ (r.decision = "deny" => r.event # "egress.closed")

\* A log: a sequence of them.
AuditRecords(records) ==
    /\ Len(records) \in Nat \ {0} /\ records # <<>>
    /\ \A k \in 1..Len(records) : AuditRecord(records[k])

\* What the export says of record r, below the line prev.
Says(line, prev, r, records) ==
    /\ line.timestamp = r.timestamp /\ line.session = sessionOf(records)
    /\ line.action = actionOf(r) /\ line.outcome = outcomeOf(r.decision)
    /\ line.phase = phaseOf(r) /\ line.source = r
    /\ line.parent = prev.id /\ line.prev = recordHash(prev)
Begins(line, records) ==
    /\ line.timestamp = records[1].timestamp /\ line.session = sessionOf(records)
    /\ line.action = "lifecycle" /\ line.detail = "session_start" /\ line.outcome = "success"
    /\ line.phase = "concurrent" /\ line.parent = Null /\ line.prev = Null

\* The lines of an export.
LEMMA ExportedLines ==
    ASSUME NEW records, AuditRecords(records)
    PROVE  /\ Len(Convert(records)) = Len(records) + 1
           /\ Begins(Convert(records)[1], records)
           /\ \A k \in 1..Len(records) :
                 Says(Convert(records)[k + 1], Convert(records)[k], records[k], records)
  <1> DEFINE out == Convert(records)
             n == Len(records) + 1
  <1>1. n \in Nat /\ Len(records) \in Nat
    BY DEF AuditRecords
  <1>2. out = CHOOSE g : g = [k \in 1..n |-> ConvertAt(records, g, k)]
    BY DEF Convert, ConvertAt
  <1>3. \E g : g = [k \in 1..n |-> ConvertAt(records, g, k)]
    BY <1>1, ConvertDefined
  <1> HIDE DEF out
  <1>4. out = [k \in 1..n |-> ConvertAt(records, out, k)]
    BY <1>2, <1>3
  <1>5. \A k \in 1..n : out[k] = ConvertAt(records, out, k)
    BY <1>4
  <1>6. Len(out) = n
    BY <1>1, <1>4
  <1>7. Begins(out[1], records)
    <2>1. out[1] = genesis(records)
      BY <1>1, <1>5 DEF ConvertAt
    <2> QED BY <2>1 DEF genesis, Begins
  <1>8. ASSUME NEW k \in 1..Len(records)
        PROVE  Says(out[k + 1], out[k], records[k], records)
    <2>1. k + 1 \in 1..n /\ k + 1 # 1 /\ (k + 1) - 1 = k
      BY <1>1
    <2>2. out[k + 1] = Linked(out[k], convertOne(records[k], sessionOf(records)))
      BY <1>5, <2>1 DEF ConvertAt
    <2> QED BY <2>2 DEF Linked, convertOne, Says
  <1> QED BY <1>6, <1>7, <1>8 DEF out

\* The draft's own checks find nothing wrong with an export exactly if the clock never
\* went back.
LEMMA ExportChecks ==
    ASSUME NEW records, AuditRecords(records)
    PROVE  CheckAat(Convert(records)) = {}
               <=> \A k \in 2..Len(records) : records[k].timestamp >= records[k - 1].timestamp
  <1> DEFINE out == Convert(records)
             N == Len(records)
             Wrong(k) ==
                LET rec == out[k] IN
                \/ rec.action \notin actionTypes \/ rec.outcome \notin outcomes \/ rec.phase \notin phases
                \/ /\ k = 1
                   /\ \/ rec.parent # Null \/ rec.prev # Null
                      \/ rec.action # "lifecycle" \/ rec.detail # "session_start"
                \/ /\ k > 1
                   /\ LET prev == out[k - 1] IN
                      \/ rec.prev # recordHash(prev) \/ rec.parent # prev.id
                      \/ rec.timestamp < prev.timestamp \/ rec.session # prev.session
                \/ rec.action = "decision" /\ rec.outcome = "denied" /\ rec.phase # "pre_execution"
  <1>1. CheckAat(out) = {k \in 1..Len(out) : Wrong(k)}
    BY DEF CheckAat
  <1>2. /\ Len(out) = N + 1 /\ Begins(out[1], records)
        /\ \A k \in 1..N : Says(out[k + 1], out[k], records[k], records)
    BY ExportedLines
  <1>3. N \in Nat \ {0} /\ \A k \in 1..N : AuditRecord(records[k])
    BY DEF AuditRecords
  <1> HIDE DEF out, N
  <1>4. ~Wrong(1)
    BY <1>2 DEF Begins, actionTypes, outcomes, phases
  <1>5. ASSUME NEW k \in 1..N
        PROVE  /\ out[k + 1].action \in actionTypes /\ out[k + 1].outcome \in outcomes
               /\ out[k + 1].phase \in phases
               /\ out[k + 1].action = "decision" /\ out[k + 1].outcome = "denied"
                     => out[k + 1].phase = "pre_execution"
    <2> DEFINE r == records[k]
               l == out[k + 1]
    <2>1. l.action = actionOf(r) /\ l.outcome = outcomeOf(r.decision) /\ l.phase = phaseOf(r)
      BY <1>2 DEF Says
    <2>2. r.decision = "deny" => r.event # "egress.closed"
      BY <1>3 DEF AuditRecord
    <2> HIDE DEF r, l
    <2>3. l.action \in actionTypes /\ l.outcome \in outcomes /\ l.phase \in phases
      BY <2>1 DEF actionOf, outcomeOf, phaseOf, actionTypes, outcomes, phases
    <2>4. outcomeOf(r.decision) = "denied" => r.decision = "deny"
      BY DEF outcomeOf
    <2>5. actionOf(r) = "decision" => ~Lifecycle(r) /\ r.producer # "recorder"
      BY DEF actionOf
    <2>6. l.action = "decision" /\ l.outcome = "denied" => l.phase = "pre_execution"
      BY <2>1, <2>2, <2>4, <2>5 DEF phaseOf
    <2> QED BY <2>3, <2>6 DEF l
  <1>6. ASSUME NEW k \in 1..N
        PROVE  Wrong(k + 1) <=> out[k + 1].timestamp < out[k].timestamp
    <2>1. (k + 1) - 1 = k /\ k + 1 > 1 /\ k + 1 # 1
      BY <1>3
    <2>2. Says(out[k + 1], out[k], records[k], records)
      BY <1>2
    <2>3. out[k].session = sessionOf(records)
      <3>1. CASE k = 1
        BY <1>2, <3>1 DEF Begins
      <3>2. CASE k # 1
        <4>1. k - 1 \in 1..N /\ (k - 1) + 1 = k
          BY <1>3, <3>2
        <4>2. Says(out[(k - 1) + 1], out[k - 1], records[k - 1], records)
          BY <1>2, <4>1
        <4> QED BY <4>1, <4>2 DEF Says
      <3> QED BY <3>1, <3>2
    <2>4. /\ out[k + 1].prev = recordHash(out[k]) /\ out[k + 1].parent = out[k].id
          /\ out[k + 1].session = out[k].session
      BY <2>2, <2>3 DEF Says
    <2> QED BY <1>5, <2>1, <2>4
  <1>7. out[2].timestamp = out[1].timestamp /\ out[2].timestamp \in Int
    <2>1. 1 \in 1..N /\ 1 + 1 = 2
      BY <1>3
    <2>2. Says(out[1 + 1], out[1], records[1], records)
      BY <1>2, <2>1
    <2>3. records[1].timestamp \in Int
      BY <1>3, <2>1 DEF AuditRecord
    <2> QED BY <1>2, <2>1, <2>2, <2>3 DEF Says, Begins
  <1>8. ASSUME NEW k \in 2..N
        PROVE  /\ out[k + 1].timestamp = records[k].timestamp
               /\ out[k].timestamp = records[k - 1].timestamp
               /\ records[k].timestamp \in Int /\ records[k - 1].timestamp \in Int
    <2>1. k \in 1..N /\ k - 1 \in 1..N /\ (k - 1) + 1 = k
      BY <1>3
    <2>2. Says(out[k + 1], out[k], records[k], records)
      BY <1>2, <2>1
    <2>3. Says(out[(k - 1) + 1], out[k - 1], records[k - 1], records)
      BY <1>2, <2>1
    <2>4. AuditRecord(records[k]) /\ AuditRecord(records[k - 1])
      BY <1>3, <2>1
    <2> QED BY <2>1, <2>2, <2>3, <2>4 DEF Says, AuditRecord
  <1> HIDE DEF Wrong
  <1>9. \A k \in 1..N + 1 : k = 1 \/ k = 2 \/ \E j \in 2..N : k = j + 1
    <2> SUFFICES ASSUME NEW k \in 1..N + 1, k # 1, k # 2 PROVE \E j \in 2..N : k = j + 1
      OBVIOUS
    <2>1. k - 1 \in 2..N /\ k = (k - 1) + 1
      BY <1>3
    <2> QED BY <2>1
  <1>10. ~Wrong(2)
    <2>1. 1 \in 1..N /\ 1 + 1 = 2
      BY <1>3
    <2>2. Wrong(1 + 1) <=> out[1 + 1].timestamp < out[1].timestamp
      BY <1>6, <2>1
    <2>3. ~(out[2].timestamp < out[1].timestamp)
      BY <1>7
    <2> QED BY <2>1, <2>2, <2>3
  <1>11. \A k \in 2..N : Wrong(k + 1) <=> ~(records[k].timestamp >= records[k - 1].timestamp)
    <2> SUFFICES ASSUME NEW k \in 2..N
                 PROVE  Wrong(k + 1) <=> ~(records[k].timestamp >= records[k - 1].timestamp)
      OBVIOUS
    <2>1. k \in 1..N
      BY <1>3
    <2>2. Wrong(k + 1) <=> out[k + 1].timestamp < out[k].timestamp
      BY <1>6, <2>1
    <2> QED BY <1>8, <2>2
  <1>12. \A k \in 2..N : k + 1 \in 1..N + 1
    BY <1>3
  <1>13. CheckAat(out) = {} <=> \A k \in 1..N + 1 : ~Wrong(k)
    BY <1>1, <1>2
  <1>14. (\A k \in 1..N + 1 : ~Wrong(k)) <=> \A k \in 2..N : ~Wrong(k + 1)
    BY <1>4, <1>9, <1>10, <1>12
  <1>15. CheckAat(out) = {} <=> \A k \in 2..N : records[k].timestamp >= records[k - 1].timestamp
    BY <1>11, <1>13, <1>14
  <1> QED BY <1>15 DEF out, N

\* What was exported, and what came of it.
ExportAsked ==
    ask.kind = "export" =>
        /\ ask.filtered \in BOOLEAN /\ ask.key \in BOOLEAN /\ ask.verified \in BOOLEAN
        /\ AuditRecords(ask.records)
        /\ answer = ExportCommand(ask.format, ask.filtered, ask.key, ask.verified, ask.records)

\* The logs of the runs are logs.
LEMMA AuditLogs ==
    ASSUME NEW n \in 1..3, NEW e \in [1..n -> Entries], NEW clock \in [1..n -> Readings]
    PROVE  AuditRecords(AuditLog(n, e, clock))
  <1> DEFINE s == AuditLog(n, e, clock)
  <1>1. s = [k \in 1..n |-> [seq |-> k, timestamp |-> clock[k], event |-> e[k].event,
                             producer |-> e[k].producer, decision |-> e[k].decision]]
    BY DEF AuditLog
  <1>2. \A x \in Entries : x.decision = "deny" => x.event # "egress.closed"
    BY DEF Entries, Entry
  <1>3. Len(s) = n /\ s # <<>>
    BY <1>1
  <1>4. ASSUME NEW k \in 1..n PROVE AuditRecord(s[k])
    <2>1. s[k].timestamp = clock[k] /\ s[k].event = e[k].event /\ s[k].decision = e[k].decision
      BY <1>1
    <2>2. e[k] \in Entries /\ clock[k] \in Int
      BY DEF Readings
    <2> HIDE DEF s
    <2> QED BY <1>2, <2>1, <2>2 DEF AuditRecord
  <1> HIDE DEF s
  <1>5. AuditRecords(s)
    BY <1>3, <1>4 DEF AuditRecords
  <1> QED BY <1>5 DEF s

\* The export in hand is of the log in hand.
LEMMA ExportBelongs == Spec => []ExportAsked
  <1>1. Init => ExportAsked
    BY DEF Init, Idle, ExportAsked
  <1>2. ExportAsked /\ [Next]_vars => ExportAsked'
    <2> SUFFICES ASSUME ExportAsked, [Next]_vars PROVE ExportAsked'
      OBVIOUS
    <2>1. CASE ExportAudit
      <3>1. PICK n \in 1..3, key \in BOOLEAN, verified \in BOOLEAN, filtered \in BOOLEAN,
                 format \in Formats :
               \E e \in [1..n -> Entries], clock \in [1..n -> Readings] :
                  ExportLog(format, filtered, key, verified, AuditLog(n, e, clock))
        BY <2>1, Zenon DEF ExportAudit
      <3>2. PICK e \in [1..n -> Entries], clock \in [1..n -> Readings] :
               ExportLog(format, filtered, key, verified, AuditLog(n, e, clock))
        BY <3>1
      <3> DEFINE s == AuditLog(n, e, clock)
      <3>3. AuditRecords(s)
        BY AuditLogs
      <3> HIDE DEF s
      <3>4. /\ ask' = [kind |-> "export", format |-> format, filtered |-> filtered, key |-> key,
                       verified |-> verified, records |-> s]
            /\ answer' = ExportCommand(format, filtered, key, verified, s)
        BY <3>2, Zenon DEF ExportLog, s
      <3>5. /\ ask'.format = format /\ ask'.filtered = filtered /\ ask'.key = key
            /\ ask'.verified = verified /\ ask'.records = s
        BY <3>4
      <3> QED BY <3>3, <3>4, <3>5 DEF ExportAsked
    <2>2. CASE ask'.kind # "export"
      BY <2>2 DEF ExportAsked
    <2>3. CASE UNCHANGED vars
      BY <2>3 DEF vars, ExportAsked
    <2>4. Next => ExportAudit \/ ask'.kind # "export"
      BY Kinds, MoreKinds DEF Next
    <2> QED BY <2>1, <2>2, <2>3, <2>4
  <1> QED BY <1>1, <1>2, PTL DEF Spec

\* An audit trail is written exactly if it was asked for of a whole chain that verified
\* under a key and whose clock never went back; it then holds every record in order and
\* calls denied what was refused (internal/aat, internal/cli/auditcli).
THEOREM AatExactHolds == Spec => []AatExact
  <1>1. ExportAsked => AatExact
    <2> SUFFICES ASSUME ExportAsked, ask.kind = "export" PROVE AatExact
      BY DEF AatExact
    <2> DEFINE recs == ask.records
               n == Len(recs)
               out == Convert(recs)
               Forward == \A k \in 2..n : recs[k].timestamp >= recs[k - 1].timestamp
    <2>1. /\ AuditRecords(recs)
          /\ answer = ExportCommand(ask.format, ask.filtered, ask.key, ask.verified, recs)
          /\ ask.filtered \in BOOLEAN /\ ask.key \in BOOLEAN /\ ask.verified \in BOOLEAN
      BY DEF ExportAsked
    <2>2. CheckAat(out) = {} <=> Forward
      BY <2>1, ExportChecks
    <2>3. /\ Len(out) = n + 1
          /\ \A k \in 1..n : Says(out[k + 1], out[k], recs[k], recs)
      BY <2>1, ExportedLines
    <2>4. recs # <<>>
      BY <2>1 DEF AuditRecords
    <2> HIDE DEF out, Forward, n
    <2>5. /\ exportAAT(ask.key, ask.verified, recs).err = "none"
                <=> ask.key /\ ask.verified /\ Forward
          /\ exportAAT(ask.key, ask.verified, recs).err = "none"
                => exportAAT(ask.key, ask.verified, recs).out = out
      BY <2>1, <2>2, <2>4 DEF exportAAT, out
    <2>6. /\ answer.err = "none"
                <=> /\ ask.format = "aat" /\ ~ask.filtered
                    /\ exportAAT(ask.key, ask.verified, recs).err = "none"
          /\ answer.err = "none" => answer = exportAAT(ask.key, ask.verified, recs)
      BY <2>1 DEF ExportCommand
    <2>7. \A k \in 1..n : /\ out[k + 1].source = recs[k]
                          /\ out[k + 1].outcome = "denied" <=> recs[k].decision = "deny"
      <3> SUFFICES ASSUME NEW k \in 1..n
                   PROVE  /\ out[k + 1].source = recs[k]
                          /\ out[k + 1].outcome = "denied" <=> recs[k].decision = "deny"
        OBVIOUS
      <3>1. Says(out[k + 1], out[k], recs[k], recs)
        BY <2>3
      <3>2. outcomeOf(recs[k].decision) = "denied" <=> recs[k].decision = "deny"
        BY DEF outcomeOf
      <3> QED BY <3>1, <3>2 DEF Says
    <2>8. answer.err = "none" <=> ask.format = "aat" /\ ~ask.filtered /\ ask.key /\ ask.verified /\ Forward
      BY <2>5, <2>6
    <2>9. answer.err = "none" => answer.out = out
      BY <2>5, <2>6
    <2>10. answer.err = "none" =>
              /\ Len(answer.out) = n + 1
              /\ \A k \in 1..n :
                     /\ answer.out[k + 1].source = recs[k]
                     /\ answer.out[k + 1].outcome = "denied" <=> recs[k].decision = "deny"
      BY <2>3, <2>7, <2>9
    <2> QED BY <2>8, <2>10 DEF AatExact, n, Forward
  <1> QED BY <1>1, ExportBelongs, PTL

-----------------------------------------------------------------------------
(* The boundary *)

\* A chain of n rules takes the first that matches.
LEMMA FirstRule ==
    ASSUME NEW rules, NEW policy, NEW p, NEW j \in 1..Len(rules), Len(rules) \in Nat,
           Matched(rules[j], p), \A k \in 1..(j - 1) : ~Matched(rules[k], p)
    PROVE  Filter(rules, policy, p) = [verdict |-> rules[j].verdict, counter |-> rules[j].counter]
  <1> DEFINE hits == {k \in 1..Len(rules) : Matched(rules[k], p)}
             First(x) == x \in hits /\ \A y \in hits : x <= y
  <1>1. First(j) /\ hits # {} /\ hits \subseteq Nat
    OBVIOUS
  <1>2. Filter(rules, policy, p) =
           [verdict |-> rules[Min(hits)].verdict, counter |-> rules[Min(hits)].counter]
    BY <1>1 DEF Filter
  <1> HIDE DEF hits
  <1>3. First(CHOOSE x \in hits : \A y \in hits : x <= y)
    BY <1>1
  <1>4. First(Min(hits))
    BY <1>3 DEF Min
  <1>5. Min(hits) = j
    <2>1. Min(hits) <= j /\ j <= Min(hits) /\ Min(hits) \in Nat
      BY <1>1, <1>4
    <2> QED BY <2>1
  <1> QED BY <1>2, <1>5

\* What no rule matches is left to the chain's policy.
LEMMA NoRule ==
    ASSUME NEW rules, NEW policy, NEW p, \A k \in 1..Len(rules) : ~Matched(rules[k], p)
    PROVE  Filter(rules, policy, p) = [verdict |-> policy, counter |-> None]
  BY DEF Filter

\* What a rule asks.
LEMMA Asks ==
    ASSUME NEW r, NEW p
    PROVE  Matched(r, p) <=>
              /\ r.from = Wild \/ r.from = p.from
              /\ r.hook = Wild \/ r.hook = p.hook
              /\ r.proto = Wild \/ r.proto = p.proto
              /\ r.uid = Wild \/ r.uid = p.uid
              /\ r.lo = Wild \/ r.lo = p.lo
              /\ r.daddr = Wild \/ In(p.daddr, r.daddr)
              /\ r.dport = Wild \/ p.dport \in r.dport
              /\ r.state = Wild \/ p.state \in r.state
  <1> DEFINE F(f) == r[f] = Wild \/ r[f] = p[f]
  <1>1. (\A f \in {"from", "hook", "proto", "uid", "lo"} : F(f))
           <=> F("from") /\ F("hook") /\ F("proto") /\ F("uid") /\ F("lo")
    <2> HIDE DEF F
    <2> QED OBVIOUS
  <1>2. Matched(r, p) <=>
           /\ \A f \in {"from", "hook", "proto", "uid", "lo"} : F(f)
           /\ r.daddr = Wild \/ In(p.daddr, r.daddr)
           /\ r.dport = Wild \/ p.dport \in r.dport
           /\ r.state = Wild \/ p.state \in r.state
    BY DEF Matched
  <1>3. /\ F("from") <=> (r.from = Wild \/ r.from = p.from)
        /\ F("hook") <=> (r.hook = Wild \/ r.hook = p.hook)
        /\ F("proto") <=> (r.proto = Wild \/ r.proto = p.proto)
        /\ F("uid") <=> (r.uid = Wild \/ r.uid = p.uid)
        /\ F("lo") <=> (r.lo = Wild \/ r.lo = p.lo)
    OBVIOUS
  <1> HIDE DEF F
  <1> QED BY <1>1, <1>2, <1>3, Zenon

\* A rule that refuses.
LEMMA RefusedAsks ==
    ASSUME NEW hook, NEW daddr, NEW counter, NEW p,
           hook \in {"forward", "input"}
    PROVE  /\ Refused(hook, daddr, counter).verdict = "drop"
           /\ Refused(hook, daddr, counter).counter = counter
           /\ Refused(hook, daddr, counter).daddr = daddr
           /\ Matched(Refused(hook, daddr, counter), p) <=>
                 p.from = "sandbox" /\ p.hook = hook /\ (daddr = Wild \/ In(p.daddr, daddr))
  <1> DEFINE r == Refused(hook, daddr, counter)
  <1>1. /\ r.from = "sandbox" /\ r.hook = hook /\ r.daddr = daddr /\ r.counter = counter
        /\ r.verdict = "drop" /\ r.proto = Wild /\ r.uid = Wild /\ r.lo = Wild
        /\ r.dport = Wild /\ r.state = Wild
    BY DEF Refused, AnyPacket
  <1>2. Wild # "sandbox" /\ Wild # hook
    BY WildAsksNothing
  <1> HIDE DEF r
  <1>3. Matched(r, p) <=> p.from = "sandbox" /\ p.hook = hook /\ (daddr = Wild \/ In(p.daddr, daddr))
    BY <1>1, <1>2, Asks
  <1> QED BY <1>1, <1>3 DEF r

\* Two sequences one after the other.
LEMMA Concat ==
    ASSUME NEW S, NEW s \in Seq(S), NEW t \in Seq(S)
    PROVE  /\ s \o t \in Seq(S) /\ Len(s \o t) = Len(s) + Len(t)
           /\ \A n \in 1..(Len(s) + Len(t)) :
                 (s \o t)[n] = IF n <= Len(s) THEN s[n] ELSE t[n - Len(s)]
  OBVIOUS

\* A chain of six rules and one of three in a row.
LEMMA InARow ==
    ASSUME NEW S, NEW s \in Seq(S), NEW t \in Seq(S), Len(s) = 6, Len(t) = 3
    PROVE  /\ Len(s \o t) = 9
           /\ \A k \in 1..6 : (s \o t)[k] = s[k]
           /\ \A k \in 7..9 : (s \o t)[k] = t[k - 6]
  <1> DEFINE u == s \o t
  <1>1. /\ Len(u) = Len(s) + Len(t)
        /\ \A n \in 1..(Len(s) + Len(t)) : u[n] = IF n <= Len(s) THEN s[n] ELSE t[n - Len(s)]
    BY Concat
  <1> HIDE DEF u
  <1>2. Len(u) = 9 /\ \A n \in 1..9 : u[n] = IF n <= 6 THEN s[n] ELSE t[n - 6]
    BY <1>1
  <1>3. (\A k \in 1..6 : k \in 1..9 /\ k <= 6) /\ (\A k \in 7..9 : k \in 1..9 /\ ~(k <= 6))
    OBVIOUS
  <1>4. Len(u) = 9 /\ (\A k \in 1..6 : u[k] = s[k]) /\ (\A k \in 7..9 : u[k] = t[k - 6])
    BY <1>2, <1>3
  <1> QED BY <1>4 DEF u

\* A sequence of six elements.
LEMMA Six ==
    ASSUME NEW S, NEW a \in S, NEW b \in S, NEW c \in S, NEW d \in S, NEW e \in S, NEW f \in S
    PROVE  <<a, b, c, d, e, f>> \in Seq(S) /\ Len(<<a, b, c, d, e, f>>) = 6
  OBVIOUS

\* A sequence of three.
LEMMA Three ==
    ASSUME NEW S, NEW a \in S, NEW b \in S, NEW c \in S
    PROVE  <<a, b, c>> \in Seq(S) /\ Len(<<a, b, c>>) = 3
  OBVIOUS

\* The nine rules of a table, and what each asks.
SentFrom(p, hook) == p.from = "sandbox" /\ p.hook = hook
TableSays(t, p) ==
    /\ Len(t) = 9
    /\ \A k \in 1..6 : t[k].verdict = "drop"
    /\ t[1].counter = "metadata_endpoint" /\ t[2].counter = "private_network"
    /\ t[3].counter = "metadata_endpoint" /\ t[4].counter = "metadata_endpoint"
    /\ t[5].counter = "private_network" /\ t[6].counter = "external"
    /\ t[7].verdict = "accept" /\ t[7].counter = None
    /\ t[8].verdict = "accept" /\ t[8].counter = None
    /\ t[9].verdict = "drop" /\ t[9].counter = "host_service"
    /\ Matched(t[1], p) <=> SentFrom(p, "forward") /\ In(p.daddr, {Prefix(<<43518, 0>>, 16)})
    /\ Matched(t[2], p) <=> SentFrom(p, "forward") /\ In(p.daddr, PrivateRanges4)
    /\ Matched(t[3], p) <=> SentFrom(p, "forward") /\ In(p.daddr, {Prefix(metadata6, 128)})
    /\ Matched(t[4], p) <=>
           SentFrom(p, "forward") /\ In(p.daddr, {Prefix(V6(65152, 0, 0, 0), 10)})
    /\ Matched(t[5], p) <=>
           SentFrom(p, "forward") /\ In(p.daddr, {Prefix(V6(64512, 0, 0, 0), 7)})
    /\ Matched(t[6], p) <=> SentFrom(p, "forward")
    /\ Matched(t[7], p) <=> SentFrom(p, "input") /\ p.proto = "tcp" /\ p.dport = ProxyPort
    /\ Matched(t[8], p) <=> SentFrom(p, "input") /\ p.state \in Ongoing
    /\ Matched(t[9], p) <=> SentFrom(p, "input")

\* They are those of applyRules.
LEMMA TableRules ==
    ASSUME NEW p
    PROVE  TableSays(forwardRules \o inputRules(ProxyPort), p)
  <1> DEFINE t == forwardRules \o inputRules(ProxyPort)
             f == forwardRules
             g == inputRules(ProxyPort)
             S == {f[1], f[2], f[3], f[4], f[5], f[6], g[1], g[2], g[3]}
  <1>1. /\ f[1] = Refused("forward", {Prefix(<<43518, 0>>, 16)}, "metadata_endpoint")
        /\ f[2] = Refused("forward", PrivateRanges4, "private_network")
        /\ f[3] = Refused("forward", {Prefix(metadata6, 128)}, "metadata_endpoint")
        /\ f[4] = Refused("forward", {Prefix(V6(65152, 0, 0, 0), 10)}, "metadata_endpoint")
        /\ f[5] = Refused("forward", {Prefix(V6(64512, 0, 0, 0), 7)}, "private_network")
        /\ f[6] = Refused("forward", Wild, "external")
        /\ f = <<f[1], f[2], f[3], f[4], f[5], f[6]>>
    BY DEF forwardRules
  <1>2. /\ g[1] = [AnyPacket EXCEPT !.from = "sandbox", !.hook = "input", !.proto = "tcp",
                                    !.dport = {ProxyPort}, !.verdict = "accept"]
        /\ g[2] = [AnyPacket EXCEPT !.from = "sandbox", !.hook = "input", !.state = Ongoing,
                                    !.verdict = "accept"]
        /\ g[3] = Refused("input", Wild, "host_service")
        /\ g = <<g[1], g[2], g[3]>>
    BY DEF inputRules
  <1>7. /\ Wild # f[1].daddr /\ Wild # f[2].daddr /\ Wild # f[3].daddr /\ Wild # f[4].daddr
        /\ Wild # f[5].daddr
    <2> DEFINE all == private \cup linkLocal \cup {Prefix(metadata6, 128)}
    <2>1. \A T \in SUBSET all : Wild # T
      BY WildAsksNothing
    <2>2. /\ PrivateRanges4 \subseteq all
          /\ {Prefix(<<43518, 0>>, 16)} \subseteq all
          /\ {Prefix(metadata6, 128)} \subseteq all
          /\ {Prefix(V6(65152, 0, 0, 0), 10)} \subseteq all
          /\ {Prefix(V6(64512, 0, 0, 0), 7)} \subseteq all
      BY DEF PrivateRanges4, private, linkLocal
    <2> HIDE DEF f
    <2>3. /\ f[1].daddr = {Prefix(<<43518, 0>>, 16)} /\ f[2].daddr = PrivateRanges4
          /\ f[3].daddr = {Prefix(metadata6, 128)}
          /\ f[4].daddr = {Prefix(V6(65152, 0, 0, 0), 10)}
          /\ f[5].daddr = {Prefix(V6(64512, 0, 0, 0), 7)}
      BY <1>1 DEF Refused, AnyPacket
    <2> HIDE DEF all
    <2> QED BY <2>1, <2>2, <2>3
  <1> HIDE DEF f, g
  <1>3. /\ f[1] \in S /\ f[2] \in S /\ f[3] \in S /\ f[4] \in S /\ f[5] \in S /\ f[6] \in S
        /\ g[1] \in S /\ g[2] \in S /\ g[3] \in S
    BY Zenon
  <1> HIDE DEF S
  <1>4. f \in Seq(S) /\ Len(f) = 6 /\ g \in Seq(S) /\ Len(g) = 3
    <2>1. <<f[1], f[2], f[3], f[4], f[5], f[6]>> \in Seq(S) /\ Len(<<f[1], f[2], f[3], f[4], f[5], f[6]>>) = 6
      BY <1>3, Six
    <2>2. <<g[1], g[2], g[3]>> \in Seq(S) /\ Len(<<g[1], g[2], g[3]>>) = 3
      BY <1>3, Three
    <2>3. f = <<f[1], f[2], f[3], f[4], f[5], f[6]>> /\ g = <<g[1], g[2], g[3]>>
      BY <1>1, <1>2
    <2> QED BY <2>1, <2>2, <2>3, Zenon
  <1>5. /\ Len(t) = 9
        /\ t[1] = f[1] /\ t[2] = f[2] /\ t[3] = f[3] /\ t[4] = f[4] /\ t[5] = f[5] /\ t[6] = f[6]
        /\ t[7] = g[1] /\ t[8] = g[2] /\ t[9] = g[3]
    <2>1. /\ Len(f \o g) = 9 /\ \A k \in 1..6 : (f \o g)[k] = f[k]
          /\ \A k \in 7..9 : (f \o g)[k] = g[k - 6]
      BY <1>4, InARow
    <2>2. t = f \o g
      BY DEF f, g
    <2> HIDE DEF t
    <2>3. /\ \A k \in 1..6 : t[k] = f[k]
          /\ \A k \in 7..9 : t[k] = g[k - 6]
      BY <2>1, <2>2
    <2> QED BY <2>1, <2>2, <2>3
  <1> HIDE DEF t
  <1>6. /\ \A k \in 1..6 : t[k].verdict = "drop"
        /\ t[1].counter = "metadata_endpoint" /\ t[2].counter = "private_network"
        /\ t[3].counter = "metadata_endpoint" /\ t[4].counter = "metadata_endpoint"
        /\ t[5].counter = "private_network" /\ t[6].counter = "external"
        /\ t[9].verdict = "drop" /\ t[9].counter = "host_service"
    <2>1. \A hook \in {"forward", "input"} : \A d, c :
              Refused(hook, d, c).verdict = "drop" /\ Refused(hook, d, c).counter = c
      BY DEF Refused, AnyPacket
    <2>2. /\ t[1].verdict = "drop" /\ t[2].verdict = "drop" /\ t[3].verdict = "drop"
          /\ t[4].verdict = "drop" /\ t[5].verdict = "drop" /\ t[6].verdict = "drop"
      BY <1>1, <1>5, <2>1
    <2>3. \A k \in 1..6 : k = 1 \/ k = 2 \/ k = 3 \/ k = 4 \/ k = 5 \/ k = 6
      OBVIOUS
    <2>4. \A k \in 1..6 : t[k].verdict = "drop"
      BY <2>2, <2>3
    <2> QED BY <1>1, <1>2, <1>5, <2>1, <2>4
  <1>8. /\ Matched(t[1], p) <=> SentFrom(p, "forward") /\ In(p.daddr, {Prefix(<<43518, 0>>, 16)})
        /\ Matched(t[2], p) <=> SentFrom(p, "forward") /\ In(p.daddr, PrivateRanges4)
        /\ Matched(t[3], p) <=> SentFrom(p, "forward") /\ In(p.daddr, {Prefix(metadata6, 128)})
        /\ Matched(t[4], p) <=>
               SentFrom(p, "forward") /\ In(p.daddr, {Prefix(V6(65152, 0, 0, 0), 10)})
        /\ Matched(t[5], p) <=>
               SentFrom(p, "forward") /\ In(p.daddr, {Prefix(V6(64512, 0, 0, 0), 7)})
        /\ Matched(t[6], p) <=> SentFrom(p, "forward")
        /\ Matched(t[9], p) <=> SentFrom(p, "input")
    <2>1. ASSUME NEW r, NEW d, NEW c, r = Refused("forward", d, c), Wild # r.daddr
          PROVE  Matched(r, p) <=> SentFrom(p, "forward") /\ In(p.daddr, d)
      BY <2>1, RefusedAsks DEF SentFrom
    <2>2. ASSUME NEW r, NEW c, NEW hook \in {"forward", "input"}, r = Refused(hook, Wild, c)
          PROVE  Matched(r, p) <=> SentFrom(p, hook)
      BY <2>2, RefusedAsks DEF SentFrom
    <2>3. Matched(t[1], p) <=> SentFrom(p, "forward") /\ In(p.daddr, {Prefix(<<43518, 0>>, 16)})
      BY <1>1, <1>5, <1>7, <2>1
    <2>4. Matched(t[2], p) <=> SentFrom(p, "forward") /\ In(p.daddr, PrivateRanges4)
      BY <1>1, <1>5, <1>7, <2>1
    <2>5. Matched(t[3], p) <=> SentFrom(p, "forward") /\ In(p.daddr, {Prefix(metadata6, 128)})
      BY <1>1, <1>5, <1>7, <2>1
    <2>6. Matched(t[4], p) <=>
              SentFrom(p, "forward") /\ In(p.daddr, {Prefix(V6(65152, 0, 0, 0), 10)})
      BY <1>1, <1>5, <1>7, <2>1
    <2>7. Matched(t[5], p) <=>
              SentFrom(p, "forward") /\ In(p.daddr, {Prefix(V6(64512, 0, 0, 0), 7)})
      BY <1>1, <1>5, <1>7, <2>1
    <2>8. (Matched(t[6], p) <=> SentFrom(p, "forward")) /\ (Matched(t[9], p) <=> SentFrom(p, "input"))
      BY <1>1, <1>2, <1>5, <2>2
    <2> QED BY <2>3, <2>4, <2>5, <2>6, <2>7, <2>8
  <1>9. /\ t[7].verdict = "accept" /\ t[7].counter = None
        /\ Matched(t[7], p) <=> SentFrom(p, "input") /\ p.proto = "tcp" /\ p.dport = ProxyPort
    <2>1. /\ t[7].from = "sandbox" /\ t[7].hook = "input" /\ t[7].proto = "tcp"
          /\ t[7].dport = {ProxyPort} /\ t[7].daddr = Wild /\ t[7].state = Wild /\ t[7].uid = Wild
          /\ t[7].lo = Wild /\ t[7].verdict = "accept" /\ t[7].counter = None
      BY <1>2, <1>5 DEF AnyPacket
    <2>2. Wild # {ProxyPort}
      <3>1. {} \in MorePorts /\ {ProxyPort} \cup {} = {ProxyPort}
        BY DEF MorePorts
      <3> QED BY <3>1, WildAsksNothing
    <2>3. Wild # "sandbox" /\ Wild # "input" /\ Wild # "tcp"
      BY WildAsksNothing
    <2> QED BY <2>1, <2>2, <2>3, Asks DEF SentFrom
  <1>10. /\ t[8].verdict = "accept" /\ t[8].counter = None
         /\ Matched(t[8], p) <=> SentFrom(p, "input") /\ p.state \in Ongoing
    <2>1. /\ t[8].from = "sandbox" /\ t[8].hook = "input" /\ t[8].proto = Wild
          /\ t[8].dport = Wild /\ t[8].daddr = Wild /\ t[8].state = Ongoing /\ t[8].uid = Wild
          /\ t[8].lo = Wild /\ t[8].verdict = "accept" /\ t[8].counter = None
      BY <1>2, <1>5 DEF AnyPacket
    <2>2. Wild # "sandbox" /\ Wild # "input" /\ Wild # Ongoing
      BY WildAsksNothing
    <2> QED BY <2>1, <2>2, Asks DEF SentFrom
  <1>11. TableSays(t, p)
    BY <1>5, <1>6, <1>8, <1>9, <1>10 DEF TableSays
  <1> QED BY <1>11 DEF t

\* No address is in two of the spaces the categories are about, and of those before
\* them, but the metadata service's, which is private.
LEMMA SpacesApart ==
    ASSUME NEW a, IsAddr(a)
    PROVE  /\ In(a, linkLocal \cup {Prefix(metadata6, 128)}) => ~In(a, loopback) /\ ~In(a, multicast)
           /\ In(a, private) => ~In(a, loopback) /\ ~In(a, multicast) /\ ~In(a, unspecified)
           /\ In(a, PrivateRanges4) => ~In(a, linkLocal \cup {Prefix(metadata6, 128)})
  <1>1. a[1] \in Nat /\ a[1] <= 65535
    <2>1. Len(a) = 2 \/ Len(a) = 8
      BY DEF IsAddr
    <2>2. 1 \in 1..2 /\ 1 \in 1..8
      OBVIOUS
    <2>3. \A i \in 1..Len(a) : a[i] \in Nat /\ a[i] <= 65535
      BY DEF IsAddr
    <2> QED BY <2>1, <2>2, <2>3
  <1> DEFINE x == a[1]
             meta == In(a, linkLocal \cup {Prefix(metadata6, 128)})
             lo == In(a, loopback)
             mu == In(a, multicast)
             no == In(a, unspecified)
             ll4 == In(a, {Prefix(<<43518, 0>>, 16)})
             m6 == In(a, {Prefix(metadata6, 128)})
             ll6 == In(a, {Prefix(V6(65152, 0, 0, 0), 10)})
             p4 == In(a, PrivateRanges4)
             p6 == In(a, {Prefix(V6(64512, 0, 0, 0), 7)})
             priv == In(a, private)
  <1>2. /\ meta <=> ll4 \/ m6 \/ ll6
        /\ priv <=> p4 \/ p6
    BY PrivateParts
  <1>3. Begun(a, x)
    BY SpaceBegins
  <1> HIDE DEF x
  <1>4. /\ lo => (Len(a) = 2 /\ x \div 256 = 127) \/ (Len(a) = 8 /\ x = 0)
        /\ mu => (Len(a) = 2 /\ x \div 4096 = 14) \/ (Len(a) = 8 /\ x \div 256 = 255)
        /\ no => x = 0
        /\ ll4 => Len(a) = 2 /\ x = 43518
        /\ ll6 => Len(a) = 8 /\ x \div 64 = 1018
        /\ m6 => Len(a) = 8 /\ x = 64768
        /\ p4 => Len(a) = 2 /\ (x \div 256 = 10 \/ x \div 16 = 2753 \/ x = 49320)
        /\ p6 => Len(a) = 8 /\ x \div 512 = 126
    BY <1>3 DEF Begun
  <1>5. x \in Nat /\ x <= 65535
    BY <1>1 DEF x
  <1> HIDE DEF meta, lo, mu, no, ll4, m6, ll6, p4, p6, priv
  <1>6. /\ ll4 => ~lo /\ ~mu
        /\ ll6 => ~lo /\ ~mu
        /\ m6 => ~lo /\ ~mu
        /\ p4 => ~lo /\ ~mu /\ ~no /\ ~ll4 /\ ~m6 /\ ~ll6
        /\ p6 => ~lo /\ ~mu /\ ~no
    BY <1>4, <1>5
  <1>7. /\ meta => ~lo /\ ~mu
        /\ priv => ~lo /\ ~mu /\ ~no
        /\ p4 => ~meta
    BY <1>2, <1>6, Zenon
  <1> QED BY <1>7 DEF meta, lo, mu, no, p4, priv

\* The firewall's categories are the guard's reasons, for every address but the IPv6
\* spelling of an IPv4 one, which the kernel does not unwrap.
LEMMA GuardReason ==
    ASSUME NEW a, IsAddr(a), Unmap(a) = a
    PROVE  /\ Check(Unguarded, a) = "metadata_endpoint" <=> In(a, linkLocal \cup {Prefix(metadata6, 128)})
           /\ Check(Unguarded, a) = "private_address_denied" <=>
                 In(a, private) /\ ~In(a, linkLocal \cup {Prefix(metadata6, 128)})
  <1> DEFINE hits == {k \in 1..Len(denials) : Denies(denials[k], a)}
             m == Min(hits)
             meta == In(a, linkLocal \cup {Prefix(metadata6, 128)})
  <1>0. \A k \in 1..8 : Denies(denials[k], a) <=> In(a, denials[k].space)
    <2>1. WithoutZone(a) = a
      BY Groups
    <2> QED BY <2>1 DEF Denies
  <1>1. /\ hits \subseteq 1..8
        /\ (1 \in hits) <=> In(a, loopback)
        /\ (2 \in hits) <=> In(a, multicast)
        /\ (3 \in hits \/ 4 \in hits) <=> meta
        /\ (5 \in hits) <=> In(a, unspecified)
        /\ (6 \in hits) <=> In(a, private)
    <2>1. meta <=> In(a, linkLocal) \/ In(a, {Prefix(metadata6, 128)})
      BY DEF In
    <2>2. hits \subseteq 1..8 /\ \A k \in 1..8 : k \in hits <=> In(a, denials[k].space)
      BY <1>0, Denials
    <2> HIDE DEF hits, meta
    <2> QED BY <2>1, <2>2, Denials
  <1>2. Check(Unguarded, a) = IF hits = {} THEN "allowed" ELSE denials[m].reason
    <2>1. Unguarded.permitted = {}
      BY DEF Unguarded, NewGuard
    <2>2. ~In(a, Unguarded.permitted)
      BY <2>1 DEF In
    <2> QED BY <2>2 DEF Check
  <1> HIDE DEF hits
  <1>3. hits # {} => m \in hits /\ m \in 1..8 /\ \A k \in hits : m <= k
    BY <1>1, FirstHit
  <1> HIDE DEF m
  <1>4. /\ denials[1].reason = "loopback_denied" /\ denials[2].reason = "multicast_denied"
        /\ denials[3].reason = "metadata_endpoint" /\ denials[4].reason = "metadata_endpoint"
        /\ denials[5].reason = "invalid_destination"
        /\ denials[6].reason = "private_address_denied"
        /\ denials[7].reason = "carrier_nat_denied" /\ denials[8].reason = "nat64_denied"
    BY DEF denials
  <1>5. \A k \in 1..8 : k = 1 \/ k = 2 \/ k = 3 \/ k = 4 \/ k = 5 \/ k = 6 \/ k = 7 \/ k = 8
    OBVIOUS
  <1>6. hits # {} => /\ (denials[m].reason = "metadata_endpoint") <=> (m = 3 \/ m = 4)
                     /\ (denials[m].reason = "private_address_denied") <=> (m = 6)
    BY <1>3, <1>4, <1>5
  <1>7. /\ meta => 1 \notin hits /\ 2 \notin hits
        /\ In(a, private) => 1 \notin hits /\ 2 \notin hits /\ 5 \notin hits
    BY <1>1, SpacesApart
  <1>8. (hits # {} /\ (m = 3 \/ m = 4)) <=> meta
    <2>1. ASSUME hits # {}, m = 3 \/ m = 4 PROVE meta
      BY <1>1, <1>3, <2>1
    <2>2. ASSUME meta PROVE hits # {} /\ (m = 3 \/ m = 4)
      <3>1. (3 \in hits \/ 4 \in hits) /\ 1 \notin hits /\ 2 \notin hits
        BY <1>1, <1>7, <2>2
      <3>2. m <= 4 /\ m # 1 /\ m # 2 /\ m \in 1..8
        BY <1>3, <3>1
      <3> QED BY <3>1, <3>2
    <2> QED BY <2>1, <2>2
  <1>9. (hits # {} /\ m = 6) <=> In(a, private) /\ ~meta
    <2>1. ASSUME hits # {}, m = 6 PROVE In(a, private) /\ ~meta
      <3>1. 6 \in hits /\ 3 \notin hits /\ 4 \notin hits
        BY <1>3, <2>1
      <3> QED BY <1>1, <3>1
    <2>2. ASSUME In(a, private), ~meta PROVE hits # {} /\ m = 6
      <3>1. 6 \in hits /\ \A k \in 1..5 : k \notin hits
        BY <1>1, <1>7, <2>2
      <3>2. m <= 6 /\ m \in 1..8 /\ m \notin 1..5
        BY <1>3, <3>1
      <3> QED BY <3>1, <3>2
    <2> QED BY <2>1, <2>2
  <1>10. (Check(Unguarded, a) = "metadata_endpoint") <=> meta
    BY <1>2, <1>6, <1>8
  <1>11. (Check(Unguarded, a) = "private_address_denied") <=> In(a, private) /\ ~meta
    BY <1>2, <1>6, <1>9
  <1> QED BY <1>10, <1>11

\* What the table does with a packet of the sandbox.
ForwardedTo(a, out) ==
    /\ out.verdict = "drop"
    /\ (out.counter = "metadata_endpoint") <=> (Check(Unguarded, a) = "metadata_endpoint")
    /\ (out.counter = "private_network") <=> (Check(Unguarded, a) = "private_address_denied")
    /\ out.counter \in {"metadata_endpoint", "private_network", "external"}

\* A packet through the host is counted under the category of its address.
LEMMA Forwarded ==
    ASSUME NEW p, p.from = "sandbox", p.hook = "forward", IsAddr(p.daddr),
           Unmap(p.daddr) = p.daddr
    PROVE  ForwardedTo(p.daddr, sandboxFilter(ProxyPort, p))
  <1> DEFINE t == forwardRules \o inputRules(ProxyPort)
             a == p.daddr
             out == sandboxFilter(ProxyPort, p)
             ll4 == In(a, {Prefix(<<43518, 0>>, 16)})
             m6 == In(a, {Prefix(metadata6, 128)})
             ll6 == In(a, {Prefix(V6(65152, 0, 0, 0), 10)})
             p4 == In(a, PrivateRanges4)
             p6 == In(a, {Prefix(V6(64512, 0, 0, 0), 7)})
  <1>0. TableSays(t, p)
    BY TableRules
  <1> HIDE DEF t
  <1>1. /\ Len(t) = 9 /\ \A k \in 1..6 : t[k].verdict = "drop"
        /\ t[1].counter = "metadata_endpoint" /\ t[2].counter = "private_network"
        /\ t[3].counter = "metadata_endpoint" /\ t[4].counter = "metadata_endpoint"
        /\ t[5].counter = "private_network" /\ t[6].counter = "external"
        /\ Matched(t[1], p) <=> ll4
        /\ Matched(t[2], p) <=> p4
        /\ Matched(t[3], p) <=> m6
        /\ Matched(t[4], p) <=> ll6
        /\ Matched(t[5], p) <=> p6
        /\ Matched(t[6], p)
    BY <1>0 DEF TableSays, SentFrom
  <1>2. /\ (Check(Unguarded, a) = "metadata_endpoint") <=> ll4 \/ m6 \/ ll6
        /\ (Check(Unguarded, a) = "private_address_denied") <=> (p4 \/ p6) /\ ~(ll4 \/ m6 \/ ll6)
        /\ p4 => ~(ll4 \/ m6 \/ ll6)
    BY GuardReason, PrivateParts, SpacesApart
  <1>3. out = Filter(t, "accept", p)
    BY DEF sandboxFilter, t
  <1> SUFFICES ForwardedTo(a, out)
    OBVIOUS
  <1> HIDE DEF out, ll4, m6, ll6, p4, p6
  <1>4. ASSUME NEW j \in 1..6, Matched(t[j], p), \A k \in 1..(j - 1) : ~Matched(t[k], p)
        PROVE  out.verdict = "drop" /\ out.counter = t[j].counter
    <2>1. j \in 1..Len(t) /\ Len(t) \in Nat
      BY <1>1
    <2>2. out = [verdict |-> t[j].verdict, counter |-> t[j].counter]
      BY <1>3, <1>4, <2>1, FirstRule
    <2> QED BY <1>1, <2>2
  <1>5. CASE ll4
    <2>1. \A k \in 1..(1 - 1) : FALSE
      OBVIOUS
    <2>2. out.verdict = "drop" /\ out.counter = "metadata_endpoint"
      BY <1>1, <1>4, <1>5, <2>1
    <2>3. Check(Unguarded, a) = "metadata_endpoint"
      BY <1>2, <1>5, Zenon
    <2> QED BY <2>2, <2>3 DEF ForwardedTo
  <1>6. CASE ~ll4 /\ p4
    <2>1. \A k \in 1..(2 - 1) : k = 1
      OBVIOUS
    <2>2. out.verdict = "drop" /\ out.counter = "private_network"
      BY <1>1, <1>4, <1>6, <2>1
    <2>3. Check(Unguarded, a) = "private_address_denied"
      BY <1>2, <1>6, Zenon
    <2> QED BY <2>2, <2>3 DEF ForwardedTo
  <1>7. CASE ~ll4 /\ ~p4 /\ m6
    <2>1. \A k \in 1..(3 - 1) : k = 1 \/ k = 2
      OBVIOUS
    <2>2. out.verdict = "drop" /\ out.counter = "metadata_endpoint"
      BY <1>1, <1>4, <1>7, <2>1
    <2>3. Check(Unguarded, a) = "metadata_endpoint"
      BY <1>2, <1>7, Zenon
    <2> QED BY <2>2, <2>3 DEF ForwardedTo
  <1>8. CASE ~ll4 /\ ~p4 /\ ~m6 /\ ll6
    <2>1. \A k \in 1..(4 - 1) : k = 1 \/ k = 2 \/ k = 3
      OBVIOUS
    <2>2. out.verdict = "drop" /\ out.counter = "metadata_endpoint"
      BY <1>1, <1>4, <1>8, <2>1
    <2>3. Check(Unguarded, a) = "metadata_endpoint"
      BY <1>2, <1>8, Zenon
    <2> QED BY <2>2, <2>3 DEF ForwardedTo
  <1>9. CASE ~ll4 /\ ~p4 /\ ~m6 /\ ~ll6 /\ p6
    <2>1. \A k \in 1..(5 - 1) : k = 1 \/ k = 2 \/ k = 3 \/ k = 4
      OBVIOUS
    <2>2. out.verdict = "drop" /\ out.counter = "private_network"
      BY <1>1, <1>4, <1>9, <2>1
    <2>3. Check(Unguarded, a) = "private_address_denied"
      BY <1>2, <1>9, Zenon
    <2> QED BY <2>2, <2>3 DEF ForwardedTo
  <1>10. CASE ~ll4 /\ ~p4 /\ ~m6 /\ ~ll6 /\ ~p6
    <2>1. \A k \in 1..(6 - 1) : k = 1 \/ k = 2 \/ k = 3 \/ k = 4 \/ k = 5
      OBVIOUS
    <2>2. out.verdict = "drop" /\ out.counter = "external"
      BY <1>1, <1>4, <1>10, <2>1
    <2>3. /\ Check(Unguarded, a) # "metadata_endpoint"
          /\ Check(Unguarded, a) # "private_address_denied"
      BY <1>2, <1>10, Zenon
    <2> QED BY <2>2, <2>3 DEF ForwardedTo
  <1> QED BY <1>5, <1>6, <1>7, <1>8, <1>9, <1>10, Zenon

\* A packet to the host gets through to the proxy or as an answer.
LEMMA Delivered ==
    ASSUME NEW p, p.from = "sandbox", p.hook = "input"
    PROVE  sandboxFilter(ProxyPort, p) =
              IF p.state \in Ongoing \/ (p.proto = "tcp" /\ p.dport = ProxyPort)
              THEN [verdict |-> "accept", counter |-> None]
              ELSE [verdict |-> "drop", counter |-> "host_service"]
  <1> DEFINE t == forwardRules \o inputRules(ProxyPort)
             out == sandboxFilter(ProxyPort, p)
             proxy == p.proto = "tcp" /\ p.dport = ProxyPort
             ongoing == p.state \in Ongoing
  <1>0. TableSays(t, p)
    BY TableRules
  <1> HIDE DEF t
  <1>1. /\ Len(t) = 9
        /\ t[7].verdict = "accept" /\ t[7].counter = None
        /\ t[8].verdict = "accept" /\ t[8].counter = None
        /\ t[9].verdict = "drop" /\ t[9].counter = "host_service"
        /\ ~Matched(t[1], p) /\ ~Matched(t[2], p) /\ ~Matched(t[3], p)
        /\ ~Matched(t[4], p) /\ ~Matched(t[5], p) /\ ~Matched(t[6], p)
        /\ Matched(t[7], p) <=> proxy
        /\ Matched(t[8], p) <=> ongoing
        /\ Matched(t[9], p)
    BY <1>0 DEF TableSays, SentFrom
  <1>2. out = Filter(t, "accept", p)
    BY DEF sandboxFilter, t
  <1>3. \A k \in 1..6 : k = 1 \/ k = 2 \/ k = 3 \/ k = 4 \/ k = 5 \/ k = 6
    OBVIOUS
  <1> HIDE DEF out, proxy, ongoing
  <1>4. \A k \in 1..6 : ~Matched(t[k], p)
    BY <1>1, <1>3
  <1>5. ASSUME NEW j \in 7..9, Matched(t[j], p), \A k \in 1..(j - 1) : ~Matched(t[k], p)
        PROVE  out = [verdict |-> t[j].verdict, counter |-> t[j].counter]
    <2>1. j \in 1..Len(t) /\ Len(t) \in Nat
      BY <1>1
    <2> QED BY <1>2, <1>5, <2>1, FirstRule
  <1>6. CASE proxy
    <2>1. \A k \in 1..(7 - 1) : ~Matched(t[k], p)
      BY <1>4
    <2> QED BY <1>1, <1>5, <1>6, <2>1 DEF proxy, out
  <1>7. CASE ~proxy /\ ongoing
    <2>1. \A k \in 1..(8 - 1) : ~Matched(t[k], p)
      <3>1. \A k \in 1..(8 - 1) : k \in 1..6 \/ k = 7
        OBVIOUS
      <3> QED BY <1>1, <1>4, <1>7, <3>1
    <2> QED BY <1>1, <1>5, <1>7, <2>1 DEF ongoing, out
  <1>8. CASE ~proxy /\ ~ongoing
    <2>1. \A k \in 1..(9 - 1) : ~Matched(t[k], p)
      <3>1. \A k \in 1..(9 - 1) : k \in 1..6 \/ k = 7 \/ k = 8
        OBVIOUS
      <3> QED BY <1>1, <1>4, <1>8, <3>1
    <2> QED BY <1>1, <1>5, <1>8, <2>1 DEF proxy, ongoing, out
  <1> QED BY <1>6, <1>7, <1>8

\* Packets of others match no rule.
LEMMA OthersPass ==
    ASSUME NEW p, p.from # "sandbox"
    PROVE  sandboxFilter(ProxyPort, p) = [verdict |-> "accept", counter |-> None]
  <1> DEFINE t == forwardRules \o inputRules(ProxyPort)
  <1>0. TableSays(t, p)
    BY TableRules
  <1> HIDE DEF t
  <1>1. /\ Len(t) = 9
        /\ ~Matched(t[1], p) /\ ~Matched(t[2], p) /\ ~Matched(t[3], p)
        /\ ~Matched(t[4], p) /\ ~Matched(t[5], p) /\ ~Matched(t[6], p)
        /\ ~Matched(t[7], p) /\ ~Matched(t[8], p) /\ ~Matched(t[9], p)
    BY <1>0 DEF TableSays, SentFrom
  <1>2. \A k \in 1..9 : \/ k = 1 \/ k = 2 \/ k = 3 \/ k = 4 \/ k = 5 \/ k = 6
                        \/ k = 7 \/ k = 8 \/ k = 9
    OBVIOUS
  <1>3. \A k \in 1..Len(t) : ~Matched(t[k], p)
    BY <1>1, <1>2
  <1>4. Filter(t, "accept", p) = [verdict |-> "accept", counter |-> None]
    BY <1>3, NoRule
  <1> QED BY <1>4 DEF sandboxFilter, t

\* The shared namespace: what is new leaves as the proxy's user, or for a listed port of
\* the loopback interface.
SharedOK(c, p) ==
    /\ sidecarRules(c) # None
    /\ c.proxyUID \in Users /\ c.proxyPort = ProxyPort /\ c.loopbackPorts \in MorePorts
    /\ p.lo \in BOOLEAN

\* What the four rules make of it.
OnlyListed(c, p, out) ==
    /\ c.proxyUID # 0
    /\ out = IF \/ p.uid = c.proxyUID
                \/ p.lo /\ p.proto = "tcp" /\ p.dport \in {ProxyPort} \cup c.loopbackPorts
             THEN [verdict |-> "accept", counter |-> None]
             ELSE [verdict |-> "drop", counter |-> "refused_direct"]
LEMMA SharedFilter ==
    ASSUME NEW c, NEW p, SharedOK(c, p), p.state = "new"
    PROVE  OnlyListed(c, p, sidecarFilter(c, p))
  <1> DEFINE t == sidecarRules(c)
             ports == {ProxyPort} \cup c.loopbackPorts
             out == sidecarFilter(c, p)
             proxy == p.uid = c.proxyUID
             listed == p.lo /\ p.proto = "tcp" /\ p.dport \in ports
  <1>1. validSidecar(c)
    BY DEF SharedOK, sidecarRules
  <1>2. c.proxyUID # 0
    <2>1. c.proxyUID > 0
      BY <1>1 DEF validSidecar
    <2> DEFINE u == c.proxyUID
    <2> HIDE DEF u
    <2>2. u > 0
      BY <2>1 DEF u
    <2>3. u # 0
      BY <2>2
    <2> QED BY <2>3 DEF u
  <1>3. /\ Len(t) = 4
        /\ t[1] = [AnyPacket EXCEPT !.state = Ongoing, !.verdict = "accept"]
        /\ t[2] = [AnyPacket EXCEPT !.uid = c.proxyUID, !.verdict = "accept"]
        /\ t[3] = [AnyPacket EXCEPT !.lo = TRUE, !.proto = "tcp", !.dport = ports,
                                    !.verdict = "accept"]
        /\ t[4] = [AnyPacket EXCEPT !.counter = "refused_direct"]
    BY <1>1 DEF sidecarRules, SharedOK
  <1>4. out = Filter(t, "drop", p)
    BY DEF sidecarFilter
  <1>5. /\ Wild # Ongoing /\ Wild # c.proxyUID /\ Wild # TRUE /\ Wild # "tcp" /\ Wild # ports
    <2>1. Wild # Ongoing /\ Wild \notin Users /\ Wild \notin BOOLEAN /\ Wild # "tcp"
      BY WildAsksNothing
    <2>2. Wild # ports
      BY WildAsksNothing DEF SharedOK
    <2>3. c.proxyUID \in Users
      BY DEF SharedOK
    <2> HIDE DEF t, ports, out, proxy, listed
    <2>4. Wild # c.proxyUID
      BY <2>1, <2>3
    <2>5. Wild # TRUE
      BY <2>1
    <2> QED BY <2>1, <2>2, <2>4, <2>5
  <1>6. p.state \notin Ongoing /\ p.lo \in BOOLEAN
    BY DEF Ongoing, SharedOK
  <1> SUFFICES out = IF proxy \/ listed THEN [verdict |-> "accept", counter |-> None]
                     ELSE [verdict |-> "drop", counter |-> "refused_direct"]
    BY <1>2 DEF OnlyListed
  <1> HIDE DEF t, ports, out
  <1>7. t[1].verdict = "accept" /\ t[1].counter = None /\ ~Matched(t[1], p)
    <2>1. t[1].state = Ongoing /\ t[1].verdict = "accept" /\ t[1].counter = None
      BY <1>3 DEF AnyPacket
    <2> QED BY <1>5, <1>6, <2>1, Asks
  <1>8. t[2].verdict = "accept" /\ t[2].counter = None /\ (Matched(t[2], p) <=> proxy)
    <2>1. /\ t[2].from = Wild /\ t[2].hook = Wild /\ t[2].proto = Wild /\ t[2].uid = c.proxyUID
          /\ t[2].lo = Wild /\ t[2].daddr = Wild /\ t[2].dport = Wild /\ t[2].state = Wild
          /\ t[2].verdict = "accept" /\ t[2].counter = None
      BY <1>3 DEF AnyPacket
    <2> QED BY <1>5, <2>1, Asks
  <1>9. t[3].verdict = "accept" /\ t[3].counter = None /\ (Matched(t[3], p) <=> listed)
    <2>1. /\ t[3].from = Wild /\ t[3].hook = Wild /\ t[3].proto = "tcp" /\ t[3].uid = Wild
          /\ t[3].lo = TRUE /\ t[3].daddr = Wild /\ t[3].dport = ports /\ t[3].state = Wild
          /\ t[3].verdict = "accept" /\ t[3].counter = None
      BY <1>3 DEF AnyPacket
    <2> QED BY <1>5, <1>6, <2>1, Asks
  <1>10. t[4].verdict = "drop" /\ t[4].counter = "refused_direct" /\ Matched(t[4], p)
    <2>1. /\ t[4].from = Wild /\ t[4].hook = Wild /\ t[4].proto = Wild /\ t[4].uid = Wild
          /\ t[4].lo = Wild /\ t[4].daddr = Wild /\ t[4].dport = Wild /\ t[4].state = Wild
          /\ t[4].verdict = "drop" /\ t[4].counter = "refused_direct"
      BY <1>3 DEF AnyPacket
    <2> QED BY <2>1, Asks
  <1> HIDE DEF proxy, listed
  <1>11. ASSUME NEW j \in 1..4, Matched(t[j], p), \A k \in 1..(j - 1) : ~Matched(t[k], p)
         PROVE  out = [verdict |-> t[j].verdict, counter |-> t[j].counter]
    <2>1. j \in 1..Len(t) /\ Len(t) \in Nat
      BY <1>3
    <2> QED BY <1>4, <1>11, <2>1, FirstRule
  <1>12. CASE proxy
    <2>1. \A k \in 1..(2 - 1) : k = 1
      OBVIOUS
    <2> QED BY <1>7, <1>8, <1>11, <1>12, <2>1
  <1>13. CASE ~proxy /\ listed
    <2>1. \A k \in 1..(3 - 1) : k = 1 \/ k = 2
      OBVIOUS
    <2> QED BY <1>7, <1>8, <1>9, <1>11, <1>13, <2>1
  <1>14. CASE ~proxy /\ ~listed
    <2>1. \A k \in 1..(4 - 1) : k = 1 \/ k = 2 \/ k = 3
      OBVIOUS
    <2> QED BY <1>7, <1>8, <1>9, <1>10, <1>11, <1>14, <2>1
  <1> QED BY <1>12, <1>13, <1>14

\* A sandbox's subnet is an IPv4 one of 256 addresses or less.
LEMMA ValidSubnet ==
    ASSUME NEW c, validSandbox(c)
    PROVE  c.subnet.bits >= 24 /\ ~Is6(c.subnet.addr)
  BY DEF validSandbox

\* The two ends of a sandbox's link.
LEMMA LinkEnds ==
    ASSUME NEW c, IsPrefixOf(c.subnet), sandboxAddrs(c) # None
    PROVE  /\ sandboxAddrs(c).host # sandboxAddrs(c).guest
           /\ PrefixContains(c.subnet, sandboxAddrs(c).host)
           /\ PrefixContains(c.subnet, sandboxAddrs(c).guest)
  <1> DEFINE p == c.subnet
             a == p.addr
             host == NextAddr(a)
             guest == NextAddr(host)
             o == Open(p, 2)
  <1>1. validSandbox(c) /\ PrefixContains(p, guest) /\ sandboxAddrs(c) = [host |-> host, guest |-> guest]
    BY DEF sandboxAddrs
  <1>2. IsAddr(a) /\ p.bits \in Nat /\ p.bits >= 24 /\ ~Is6(a)
    <2>1. IsAddr(a) /\ p.bits \in Nat
      BY DEF IsPrefixOf
    <2>2. p.bits >= 24
      BY <1>1, ValidSubnet
    <2>3. ~Is6(a)
      BY <1>1, ValidSubnet
    <2> QED BY <2>1, <2>2, <2>3
  <1>3. Len(a) = 2
    <2>1. Len(a) = 2 \/ Len(a) = 8
      BY <1>2 DEF IsAddr
    <2>2. Len(a) # 8
      BY <1>2, Groups
    <2> QED BY <2>1, <2>2
  <1>4. a[1] \in Nat /\ a[2] \in Nat /\ a[2] <= 65535
    BY <1>2, <1>3 DEF IsAddr
  <1>5. Open(p, 1) = 1 /\ o \in Nat \ {0}
    <2>1. Open(p, 1) = 1
      BY <1>2, Powers DEF Open
    <2>2. 2 \in 1..8 /\ p.bits <= p.bits
      BY <1>2
    <2>3. o \in Nat \ {0}
      BY <2>2, OpenMultiple
    <2> QED BY <2>1, <2>3
  <1>6. \A x, y : /\ Len(<<x, y>>) = 2
                  /\ PrefixContains(p, <<x, y>>) <=>
                        x \div Open(p, 1) = a[1] \div Open(p, 1) /\ y \div o = a[2] \div o
    <2> SUFFICES ASSUME NEW x, NEW y
                 PROVE PrefixContains(p, <<x, y>>) <=>
                        x \div Open(p, 1) = a[1] \div Open(p, 1) /\ y \div o = a[2] \div o
      OBVIOUS
    <2> DEFINE b == <<x, y>>
    <2>1. Len(b) = 2 /\ b[1] = x /\ b[2] = y /\ \A i \in 1..2 : i = 1 \/ i = 2
      OBVIOUS
    <2> HIDE DEF b
    <2>2. PrefixContains(p, b) <=> \A i \in 1..2 : b[i] \div Open(p, i) = a[i] \div Open(p, i)
      BY <1>3, <2>1 DEF PrefixContains
    <2>3. PrefixContains(p, b) <=>
              b[1] \div Open(p, 1) = a[1] \div Open(p, 1) /\ b[2] \div Open(p, 2) = a[2] \div Open(p, 2)
      BY <2>1, <2>2
    <2> QED BY <2>1, <2>3 DEF b
  <1> HIDE DEF p, a, o
  <1>7. a[2] # 65535 /\ a[2] + 1 # 65535
    <2>1. ASSUME a[2] = 65535 PROVE FALSE
      <3>1. guest = <<a[1] + 1, 1>>
        BY <2>1 DEF NextAddr
      <3>2. (a[1] + 1) \div 1 = a[1] \div 1
        BY <1>1, <1>5, <1>6, <3>1
      <3> QED BY <1>4, <3>2
    <2>2. ASSUME a[2] + 1 = 65535 PROVE FALSE
      <3>1. a[2] # 65535
        BY <1>4, <2>2
      <3>2. guest = <<a[1] + 1, 0>>
        BY <2>2, <3>1 DEF NextAddr
      <3>3. (a[1] + 1) \div 1 = a[1] \div 1
        BY <1>1, <1>5, <1>6, <3>2
      <3> QED BY <1>4, <3>3
    <2> QED BY <2>1, <2>2
  <1>8. host = <<a[1], a[2] + 1>> /\ guest = <<a[1], a[2] + 1 + 1>>
    BY <1>7 DEF NextAddr
  <1> HIDE DEF host, guest
  <1>9. (a[2] + 1 + 1) \div o = a[2] \div o
    BY <1>1, <1>6, <1>8
  <1>10. (a[2] + 1) \div o = a[2] \div o
    <2>1. \A x \in Nat, q \in Nat \ {0} : (x + 1 + 1) \div q = x \div q => (x + 1) \div q = x \div q
      OBVIOUS
    <2> QED BY <1>4, <1>5, <1>9, <2>1
  <1>11. PrefixContains(p, host)
    BY <1>6, <1>8, <1>10
  <1>12. host # guest
    BY <1>4, <1>8
  <1> QED BY <1>1, <1>11, <1>12 DEF p

\* Entry n of the recursion that keeps the harmless names, given the entries before it.
KeptAt(from, g, n) ==
    IF n = 0 THEN <<>>
    ELSE IF from[n][1] \in minimalEnvNames THEN Append(g[n - 1], from[n])
    ELSE g[n - 1]

\* There are such entries for every environment.
LEMMA KeptDefined ==
    ASSUME NEW from, NEW N \in Nat
    PROVE  \E g : g = [n \in 0..N |-> KeptAt(from, g, n)]
  <1> DEFINE T == {m \in Nat : ~\E g : g = [n \in 0..m |-> KeptAt(from, g, n)]}
  <1> SUFFICES ASSUME N \in T PROVE FALSE
    OBVIOUS
  <1>1. T \subseteq Nat /\ T # {}
    OBVIOUS
  <1>2. PICK m \in T : \A o \in T : m <= o
    <2> HIDE DEF T
    <2> QED BY <1>1, LeastNumber
  <1>3. m # 0
    <2>1. SUFFICES ASSUME m = 0 PROVE FALSE
      OBVIOUS
    <2> DEFINE e == [n \in 0..0 |-> <<>>]
    <2>2. ASSUME NEW n \in 0..0 PROVE KeptAt(from, e, n) = <<>>
      BY DEF KeptAt
    <2>3. e = [n \in 0..0 |-> KeptAt(from, e, n)]
      <3> HIDE DEF T
      <3>1. e = [n \in 0..0 |-> e[n]] /\ \A n \in 0..0 : e[n] = <<>>
        OBVIOUS
      <3> HIDE DEF e
      <3> QED BY <2>2, <3>1
    <2> HIDE DEF e
    <2>4. e = [n \in 0..m |-> KeptAt(from, e, n)]
      BY <2>1, <2>3
    <2> QED BY <1>2, <2>4
  <1>4. m \in Nat /\ m - 1 \in Nat /\ m - 1 \notin T
    BY <1>2, <1>3, SMTT(30)
  <1>5. PICK g : g = [n \in 0..(m - 1) |-> KeptAt(from, g, n)]
    BY <1>4
  <1> DEFINE h == [n \in 0..m |-> IF n < m THEN g[n] ELSE KeptAt(from, g, n)]
  <1>6. \A n \in 0..(m - 1) : g[n] = h[n] /\ g[n] = KeptAt(from, g, n)
    <2> HIDE DEF T
    <2>1. \A n \in 0..(m - 1) : n \in 0..m /\ n < m
      BY <1>4
    <2>2. \A n \in 0..(m - 1) : g[n] = KeptAt(from, g, n)
      BY <1>5
    <2> QED BY <2>1, <2>2
  <1>7. ASSUME NEW n \in 0..m PROVE h[n] = KeptAt(from, h, n)
    <2>1. h[n] = KeptAt(from, g, n)
      <3>1. CASE n = m
        BY <1>4, <3>1
      <3>2. CASE n # m
        <4>1. n \in 0..(m - 1) /\ n < m
          BY <1>4, <3>2
        <4>2. g[n] = KeptAt(from, g, n)
          BY <1>6, <4>1
        <4>3. h[n] = g[n]
          BY <4>1
        <4> QED BY <4>2, <4>3
      <3> QED BY <3>1, <3>2
    <2>2. n # 0 => g[n - 1] = h[n - 1]
      <3> HIDE DEF h, T
      <3> QED BY <1>4, <1>6
    <2>3. KeptAt(from, g, n) = KeptAt(from, h, n)
      <3> HIDE DEF h, T
      <3> QED BY <2>2 DEF KeptAt
    <2> QED BY <2>1, <2>3
  <1>8. h = [n \in 0..m |-> h[n]]
    OBVIOUS
  <1>9. h = [n \in 0..m |-> KeptAt(from, h, n)]
    <2> HIDE DEF h, T
    <2> QED BY <1>7, <1>8
  <1> HIDE DEF h
  <1> QED BY <1>2, <1>9

\* A part of an environment, all of it under harmless names.
Harmless(s, S) == s \in Seq(S) /\ \A k \in 1..Len(s) : s[k][1] \in minimalEnvNames

\* MinimalEnv returns a part of what it is given, and nothing under another name.
LEMMA MinimalKept ==
    ASSUME NEW S, NEW from \in Seq(S)
    PROVE  Harmless(MinimalEnv(from), S)
  <1> DEFINE N == Len(from)
             g == CHOOSE g : g = [n \in 0..N |-> KeptAt(from, g, n)]
             T == {m \in Nat : m <= N /\ ~Harmless(g[m], S)}
  <1>1. N \in Nat /\ \A n \in 1..N : from[n] \in S
    OBVIOUS
  <1>2. MinimalEnv(from) = g[N]
    BY DEF MinimalEnv, KeptAt
  <1>3. g = [n \in 0..N |-> KeptAt(from, g, n)]
    <2>1. \E e : e = [n \in 0..N |-> KeptAt(from, e, n)]
      BY <1>1, KeptDefined
    <2> QED BY <2>1
  <1> HIDE DEF g, N
  <1>4. \A n \in 0..N : g[n] = KeptAt(from, g, n)
    BY <1>3
  <1> SUFFICES ASSUME N \in T PROVE FALSE
    BY <1>1, <1>2
  <1>5. T \subseteq Nat /\ T # {}
    OBVIOUS
  <1>6. PICK m \in T : \A o \in T : m <= o
    <2> HIDE DEF T
    <2> QED BY <1>5, LeastNumber
  <1>7. m \in Nat /\ m <= N /\ ~Harmless(g[m], S)
    OBVIOUS
  <1>8. g[m] = KeptAt(from, g, m)
    <2> HIDE DEF T
    <2> QED BY <1>1, <1>4, <1>7
  <1>9. CASE m = 0
    <2>1. g[m] = <<>>
      BY <1>8, <1>9 DEF KeptAt
    <2>2. Harmless(<<>>, S)
      BY DEF Harmless
    <2> QED BY <1>7, <2>1, <2>2
  <1>10. CASE m # 0
    <2>1. m - 1 \in Nat /\ m - 1 <= N /\ m \in 1..N /\ m - 1 < m
      <3> HIDE DEF T
      <3> QED BY <1>1, <1>7, <1>10
    <2>2. Harmless(g[m - 1], S)
      <3>1. m - 1 \notin T
        <4> HIDE DEF T
        <4> QED BY <1>6, <1>7, <2>1
      <3> QED BY <2>1, <3>1
    <2> DEFINE s == g[m - 1]
               e == from[m]
    <2>3. s \in Seq(S) /\ Len(s) \in Nat /\ \A k \in 1..Len(s) : s[k][1] \in minimalEnvNames
      BY <2>2, SMTT(30) DEF Harmless
    <2>4. e \in S
      BY <1>1, <2>1
    <2>5. g[m] = IF e[1] \in minimalEnvNames THEN Append(s, e) ELSE s
      BY <1>8, <1>10 DEF KeptAt
    <2> HIDE DEF s, e, T
    <2>6. ASSUME e[1] \in minimalEnvNames PROVE Harmless(Append(s, e), S)
      <3> DEFINE a == Append(s, e)
      <3>1. a \in Seq(S) /\ Len(a) = Len(s) + 1 /\ a[Len(s) + 1] = e
            /\ \A k \in 1..Len(s) : a[k] = s[k]
        BY <2>3, <2>4
      <3> HIDE DEF a
      <3>2. \A k \in 1..Len(a) : k \in 1..Len(s) \/ k = Len(s) + 1
        BY <2>3, <3>1
      <3>3. \A k \in 1..Len(a) : a[k][1] \in minimalEnvNames
        BY <2>3, <2>6, <3>1, <3>2
      <3>4. Harmless(a, S)
        BY <3>1, <3>3 DEF Harmless
      <3> QED BY <3>4 DEF a
    <2>7. Harmless(g[m], S)
      BY <2>2, <2>5, <2>6 DEF s
    <2> QED BY <1>7, <2>7
  <1> QED BY <1>9, <1>10

\* The last of a name counts.
LEMMA LastNamed ==
    ASSUME NEW env, NEW name, Len(env) \in Nat, NEW j \in 1..Len(env), env[j][1] = name,
           \A k \in (j + 1)..Len(env) : env[k][1] # name
    PROVE  Value(env, name) = env[j][2]
  <1> DEFINE at == {k \in 1..Len(env) : env[k][1] = name}
             Latest(x) == x \in at /\ \A y \in at : x >= y
  <1>1. Latest(j) /\ at # {} /\ at \subseteq Nat
    OBVIOUS
  <1>2. Value(env, name) = env[Max(at)][2]
    BY <1>1 DEF Value
  <1> HIDE DEF at
  <1>3. Latest(CHOOSE x \in at : \A y \in at : x >= y)
    BY <1>1
  <1>4. Latest(Max(at))
    BY <1>3 DEF Max
  <1>5. Max(at) = j
    <2>1. Max(at) >= j /\ j >= Max(at) /\ Max(at) \in Nat
      BY <1>1, <1>4
    <2> QED BY <2>1
  <1> QED BY <1>2, <1>5

\* A sequence over a set is one over a larger set.
LEMMA Widen ==
    ASSUME NEW S, NEW U, S \subseteq U, NEW s \in Seq(S)
    PROVE  s \in Seq(U)
  OBVIOUS

\* An environment under whatever was passed on: what a confined process may see.
Seen(flags, kv) ==
    \/ kv[1] \in minimalEnvNames
    \/ kv \in ToSet(ProxyEnv("proxy"))
    \/ \E f \in ToSet(flags) : f.name = kv[1]

\* The variables of the proxy come last, and without --inherit-env the rest is harmless
\* or named in a flag.
LEMMA EnvHeld ==
    ASSUME NEW S, NEW host \in Seq(S), NEW F, NEW flags \in Seq(F), NEW inherit \in BOOLEAN,
           NEW env, env = workloadEnv(host, flags, inherit), env # None,
           NEW out, out = Command(env, host, "proxy")
    PROVE  /\ Value(out, "http_proxy") = "proxy" /\ Value(out, "NO_PROXY") = ""
           /\ ~inherit => \A kv \in ToSet(out) : Seen(flags, kv)
  <1> DEFINE n == Len(flags)
             Passed(f) == <<f.name, IF f.value = None THEN Value(host, f.name) ELSE f.value>>
             passed == [k \in 1..n |-> Passed(flags[k])]
             own == ProxyEnv("proxy")
             kept == MinimalEnv(host)
             base == IF env = <<>> THEN kept ELSE env
             U == S \cup {passed[k] : k \in 1..n} \cup {own[1], own[2], own[3], own[4]}
             m == Len(base)
  <1>1. env = IF inherit THEN host ELSE kept \o passed
    BY DEF workloadEnv
  <1>2. out = base \o own
    BY DEF Command
  <1>3. /\ Len(own) = 4 /\ DOMAIN own = 1..4
        /\ own[2][1] = "http_proxy" /\ own[2][2] = "proxy"
        /\ own[3][1] = "NO_PROXY" /\ own[3][2] = "" /\ own[4][1] = "no_proxy"
    BY DEF ProxyEnv
  <1>21. ASSUME NEW V, own[1] \in V, own[2] \in V, own[3] \in V, own[4] \in V
         PROVE  own \in Seq(V)
    <2>1. ASSUME NEW a \in V, NEW b \in V, NEW c \in V, NEW d \in V
          PROVE  <<a, b, c, d>> \in Seq(V)
      OBVIOUS
    <2>2. own = <<own[1], own[2], own[3], own[4]>>
      BY DEF ProxyEnv
    <2>3. <<own[1], own[2], own[3], own[4]>> \in Seq(V)
      <3> HIDE DEF own
      <3> QED BY <1>21, <2>1
    <2> HIDE DEF own
    <2> QED BY <2>2, <2>3, Zenon
  <1>4. n \in Nat /\ \A k \in 1..n : flags[k] \in F /\ flags[k] \in ToSet(flags)
    BY DEF ToSet
  <1>5. Harmless(kept, S)
    BY MinimalKept
  <1>6. /\ Len(passed) = n /\ \A k \in 1..n : passed[k] \in U /\ passed[k][1] = flags[k].name
    <2>1. Len(passed) = n
      BY <1>4
    <2>2. \A k \in 1..n : passed[k] = Passed(flags[k])
      OBVIOUS
    <2>3. \A k \in 1..n : passed[k] \in U
      <3> HIDE DEF passed, n, own
      <3> QED OBVIOUS
    <2>4. \A k \in 1..n : passed[k][1] = flags[k].name
      BY <2>2
    <2> QED BY <2>1, <2>3, <2>4
  <1>7. passed = [k \in 1..n |-> passed[k]]
    OBVIOUS
  <1>8. \A k \in 1..4 : own[k] \in ToSet(own)
    <2> HIDE DEF own
    <2> QED BY <1>3 DEF ToSet
  <1> HIDE DEF own, passed, n, kept
  <1>9. S \subseteq U
    OBVIOUS
  <1>10. own \in Seq(U)
    <2>1. own[1] \in U /\ own[2] \in U /\ own[3] \in U /\ own[4] \in U
      OBVIOUS
    <2> HIDE DEF U
    <2> QED BY <1>21, <2>1
  <1>11. passed \in Seq(U)
    <2> HIDE DEF U
    <2> QED BY <1>4, <1>6, <1>7, SMTT(30)
  <1>12. kept \in Seq(U) /\ host \in Seq(U)
    BY <1>5, <1>9, Widen DEF Harmless
  <1> HIDE DEF U
  <1>13. /\ kept \o passed \in Seq(U) /\ Len(kept \o passed) = Len(kept) + n
         /\ \A k \in 1..(Len(kept) + n) :
               (kept \o passed)[k] = IF k <= Len(kept) THEN kept[k] ELSE passed[k - Len(kept)]
    BY <1>6, <1>11, <1>12, Concat
  <1>14. base \in Seq(U) /\ m \in Nat
    BY <1>1, <1>12, <1>13
  <1>15. ASSUME ~inherit, NEW k \in 1..m PROVE Seen(flags, base[k])
    <2>1. ASSUME NEW j \in 1..Len(kept) PROVE Seen(flags, kept[j])
      BY <1>5, <2>1 DEF Harmless, Seen
    <2>2. CASE env = <<>>
      BY <2>1, <2>2
    <2>3. CASE env # <<>>
      <3> DEFINE s == kept \o passed
      <3>1. base = s
        BY <1>1, <1>15, <2>3
      <3> HIDE DEF s, base
      <3>2. Len(s) = Len(kept) + n /\ Len(kept) \in Nat
        BY <1>12, <1>13 DEF s
      <3>3. k \in 1..(Len(kept) + n)
        BY <1>15, <3>1, <3>2
      <3>4. CASE k <= Len(kept)
        <4>1. s[k] = kept[k] /\ k \in 1..Len(kept)
          BY <1>13, <3>2, <3>3, <3>4 DEF s
        <4> QED BY <2>1, <3>1, <4>1
      <3>5. CASE ~(k <= Len(kept))
        <4> DEFINE j == k - Len(kept)
        <4>1. s[k] = passed[j] /\ j \in 1..n
          BY <1>4, <1>13, <3>2, <3>3, <3>5 DEF s
        <4> HIDE DEF j
        <4>2. passed[j][1] = flags[j].name /\ flags[j] \in ToSet(flags)
          BY <1>4, <1>6, <4>1
        <4> QED BY <3>1, <4>1, <4>2 DEF Seen
      <3> QED BY <3>4, <3>5
    <2> QED BY <2>2, <2>3
  <1> HIDE DEF base, m
  <1>16. /\ Len(out) = m + 4
         /\ \A k \in 1..(m + 4) : out[k] = IF k <= m THEN base[k] ELSE own[k - m]
    <2>1. /\ Len(base \o own) = Len(base) + Len(own)
          /\ \A k \in 1..(Len(base) + Len(own)) :
                (base \o own)[k] = IF k <= Len(base) THEN base[k] ELSE own[k - Len(base)]
      BY <1>10, <1>14, Concat
    <2>2. Len(base) = m /\ Len(own) = 4
      BY <1>3 DEF m
    <2> QED BY <1>2, <2>1, <2>2
  <1>17. out[m + 2] = own[2] /\ out[m + 3] = own[3] /\ out[m + 4] = own[4]
    BY <1>14, <1>16
  <1>18. Value(out, "http_proxy") = "proxy"
    <2>1. m + 2 \in 1..Len(out) /\ Len(out) \in Nat
      BY <1>14, <1>16
    <2>2. \A k \in (m + 3)..Len(out) : k = m + 3 \/ k = m + 4
      BY <1>14, <1>16
    <2>3. \A k \in (m + 3)..Len(out) : out[k][1] # "http_proxy"
      BY <1>3, <1>17, <2>2
    <2>4. out[m + 2][1] = "http_proxy" /\ out[m + 2][2] = "proxy"
      BY <1>3, <1>17, Zenon
    <2>5. (m + 2) + 1 = m + 3
      BY <1>14
    <2>6. \A k \in ((m + 2) + 1)..Len(out) : out[k][1] # "http_proxy"
      BY <2>3, <2>5
    <2> DEFINE j == m + 2
    <2>7. /\ j \in 1..Len(out) /\ Len(out) \in Nat /\ out[j][1] = "http_proxy"
          /\ \A k \in (j + 1)..Len(out) : out[k][1] # "http_proxy"
      BY <2>1, <2>4, <2>6
    <2> HIDE DEF j
    <2>8. Value(out, "http_proxy") = out[j][2]
      BY <2>7, LastNamed
    <2> QED BY <2>4, <2>8 DEF j
  <1>19. Value(out, "NO_PROXY") = ""
    <2>1. m + 3 \in 1..Len(out) /\ Len(out) \in Nat
      BY <1>14, <1>16
    <2>2. \A k \in (m + 4)..Len(out) : k = m + 4
      BY <1>14, <1>16
    <2>3. \A k \in (m + 4)..Len(out) : out[k][1] # "NO_PROXY"
      BY <1>3, <1>17, <2>2
    <2>4. out[m + 3][1] = "NO_PROXY" /\ out[m + 3][2] = ""
      BY <1>3, <1>17, Zenon
    <2>5. (m + 3) + 1 = m + 4
      BY <1>14
    <2>6. \A k \in ((m + 3) + 1)..Len(out) : out[k][1] # "NO_PROXY"
      BY <2>3, <2>5
    <2> DEFINE j == m + 3
    <2>7. /\ j \in 1..Len(out) /\ Len(out) \in Nat /\ out[j][1] = "NO_PROXY"
          /\ \A k \in (j + 1)..Len(out) : out[k][1] # "NO_PROXY"
      BY <2>1, <2>4, <2>6
    <2> HIDE DEF j
    <2>8. Value(out, "NO_PROXY") = out[j][2]
      BY <2>7, LastNamed
    <2> QED BY <2>4, <2>8 DEF j
  <1>20. ASSUME ~inherit, NEW kv \in ToSet(out) PROVE Seen(flags, kv)
    <2>1. PICK k \in 1..(m + 4) : kv = out[k]
      <3>1. out \in Seq(U)
        BY <1>2, <1>10, <1>14, Concat
      <3> QED BY <1>16, <1>20, <3>1 DEF ToSet
    <2>2. CASE k <= m
      BY <1>14, <1>15, <1>16, <1>20, <2>1, <2>2
    <2>3. CASE ~(k <= m)
      <3>1. k - m \in 1..4 /\ kv = own[k - m]
        BY <1>14, <1>16, <2>1, <2>3
      <3> QED BY <1>8, <3>1 DEF Seen, own
    <2> QED BY <2>2, <2>3
  <1> QED BY <1>18, <1>19, <1>20

\* No address of the packets is the IPv6 spelling of an IPv4 one.
LEMMA NotMapped ==
    ASSUME NEW a \in Addrs4 \cup Addrs6
    PROVE  IsAddr(a) /\ Unmap(a) = a
  <1>1. IsAddr(a)
    BY AddressesOK
  <1>2. CASE a \in Addrs4
    <2>1. Len(a) = 2
      BY <1>2 DEF Addrs4
    <2> QED BY <1>1, <2>1 DEF Unmap, Is6
  <1>3. CASE a \in Addrs6
    <2>1. Len(a) = 8 /\ a[6] = 0
      BY <1>3 DEF Addrs6, V6, metadata6
    <2>2. a \in Seq(Nat)
      BY <1>1 DEF IsAddr
    <2>3. /\ 1 \in 1..(Len(a) + 1) /\ 6 \in 0..Len(a) /\ 1 <= 6 + 1
          /\ 6 \in 1..(6 - 1 + 1) /\ 1 + 6 - 1 = 6
      BY <2>1
    <2>4. \A n \in 1..(6 - 1 + 1) : SubSeq(a, 1, 6)[n] = a[1 + n - 1]
      BY <2>2, <2>3, Slice
    <2>5. SubSeq(a, 1, 6)[6] = 0
      BY <2>1, <2>3, <2>4
    <2>6. SubSeq(a, 1, 6) # <<0, 0, 0, 0, 0, 65535>>
      <3>1. <<0, 0, 0, 0, 0, 65535>>[6] = 65535
        OBVIOUS
      <3> DEFINE s == SubSeq(a, 1, 6)
                 m == <<0, 0, 0, 0, 0, 65535>>
      <3>2. s[6] = 0 /\ m[6] = 65535
        BY <2>5, <3>1
      <3> HIDE DEF s, m
      <3>3. s # m
        BY <3>2
      <3> QED BY <3>3 DEF s, m
    <2> QED BY <1>1, <2>6 DEF Unmap
  <1> QED BY <1>2, <1>3

\* What was asked and answered of the boundary.
PacketAsked(q, out) ==
    /\ q.p.hook \in Hooks /\ IsAddr(q.p.daddr) /\ Unmap(q.p.daddr) = q.p.daddr
    /\ out = sandboxFilter(ProxyPort, q.p)
SharedAsked(q, out) == SharedOK(q.cfg, q.p) /\ out = sidecarFilter(q.cfg, q.p)
StartAsked(q, out) ==
    LET env == workloadEnv(q.host, q.flags, q.inherit) IN
    /\ q.host \in HostEnvs /\ q.flags \in EnvFlags /\ q.inherit \in BOOLEAN
    /\ IsPrefixOf(q.subnet)
    /\ \E c : c.subnet = q.subnet /\ out.addrs = sandboxAddrs(c)
    /\ out.env = IF env = None THEN None ELSE Command(env, q.host, "proxy")
BoundaryAsked ==
    /\ ask.kind = "packet" => PacketAsked(ask, answer)
    /\ ask.kind = "shared packet" => SharedAsked(ask, answer)
    /\ ask.kind = "start" => StartAsked(ask, answer)

\* The answer in hand is the boundary's to the question in hand.
LEMMA BoundaryBelongs == Spec => []BoundaryAsked
  <1>1. Init => BoundaryAsked
    BY DEF Init, Idle, BoundaryAsked
  <1>2. BoundaryAsked /\ [Next]_vars => BoundaryAsked'
    <2> SUFFICES ASSUME BoundaryAsked, [Next]_vars PROVE BoundaryAsked'
      OBVIOUS
    <2>7. /\ ask'.kind = "packet" /\ PacketAsked(ask, answer)' => BoundaryAsked'
          /\ ask'.kind = "shared packet" /\ SharedAsked(ask, answer)' => BoundaryAsked'
          /\ ask'.kind = "start" /\ StartAsked(ask, answer)' => BoundaryAsked'
      BY DEF BoundaryAsked
    <2>1. CASE SendPacket
      <3>1. PICK from \in Sources, hook \in Hooks, a \in Addrs4 \cup Addrs6,
                 proto \in Protocols, port \in {53, ProxyPort}, state \in States :
               Send(Pkt(from, hook, a, proto, port, state, 0, FALSE))
        BY <2>1, Zenon DEF SendPacket
      <3> DEFINE p == Pkt(from, hook, a, proto, port, state, 0, FALSE)
      <3>2. p.hook \in Hooks /\ IsAddr(p.daddr) /\ Unmap(p.daddr) = p.daddr
        <4>1. p.hook = hook /\ p.daddr = a
          BY DEF Pkt
        <4> HIDE DEF p
        <4> QED BY <4>1, NotMapped
      <3> HIDE DEF p
      <3>3. ask' = [kind |-> "packet", p |-> p] /\ answer' = sandboxFilter(ProxyPort, p)
        BY <3>1 DEF Send, p
      <3>4. ask'.kind = "packet" /\ ask'.p = p
        BY <3>3
      <3>5. PacketAsked(ask, answer)'
        BY <3>2, <3>3, <3>4 DEF PacketAsked
      <3> QED BY <2>7, <3>4, <3>5
    <2>2. CASE SendShared
      <3>1. PICK uid, proxyUID \in Users, lo \in BOOLEAN, proto \in Protocols,
                 port \in SharedPorts, more \in MorePorts, state \in States :
               Leave(proto, port, state, uid, lo, proxyUID, more)
        BY <2>2, Zenon DEF SendShared
      <3> DEFINE p == SharedPkt(proto, port, state, uid, lo)
                 c == Shared(proxyUID, more)
      <3>2. /\ p.lo = lo /\ c.proxyUID = proxyUID /\ c.proxyPort = ProxyPort /\ c.loopbackPorts = more
        BY DEF SharedPkt, Pkt, Shared
      <3> HIDE DEF p, c
      <3>3. sidecarRules(c) # None /\ ask' = AskShared(p, c) /\ answer' = sidecarFilter(c, p)
        BY <3>1 DEF Leave, p, c
      <3>4. SharedOK(c, p)
        BY <3>2, <3>3 DEF SharedOK
      <3>5. ask'.kind = "shared packet" /\ ask'.p = p /\ ask'.cfg = c
        BY <3>3 DEF AskShared
      <3>6. SharedAsked(ask, answer)'
        BY <3>3, <3>4, <3>5 DEF SharedAsked
      <3> QED BY <2>7, <3>5, <3>6
    <2>3. CASE StartWorkload
      <3>1. PICK host \in HostEnvs, flags \in EnvFlags, inherit \in BOOLEAN :
               \E a \in Subnets, bits \in Lengths, port \in {0, ProxyPort}, nameLen \in {0, 8, 9} :
                  Start(host, flags, inherit, Prefix(a, bits), port, nameLen)
        BY <2>3 DEF StartWorkload
      <3>2. PICK a \in Subnets, bits \in Lengths, port \in {0, ProxyPort}, nameLen \in {0, 8, 9} :
               Start(host, flags, inherit, Prefix(a, bits), port, nameLen)
        BY <3>1, Zenon
      <3> DEFINE subnet == Prefix(a, bits)
                 env == workloadEnv(host, flags, inherit)
                 c == [nameLen |-> nameLen, subnet |-> subnet, proxyPort |-> port]
                 out == IF env = None THEN None ELSE Command(env, host, "proxy")
      <3>3. IsPrefixOf(subnet)
        <4>1. IsAddr(a)
          BY Addr4 DEF Subnets
        <4>2. bits \in Nat
          BY DEF Lengths
        <4> QED BY <4>1, <4>2, PrefixOf
      <3>4. c.subnet = subnet
        OBVIOUS
      <3> HIDE DEF subnet
      <3>5. /\ ask' = [kind |-> "start", host |-> host, flags |-> flags, inherit |-> inherit,
                       subnet |-> subnet]
            /\ answer' = [addrs |-> sandboxAddrs(c), env |-> out]
        BY <3>2 DEF Start, subnet
      <3> HIDE DEF c
      <3>6. /\ ask'.kind = "start" /\ ask'.host = host /\ ask'.flags = flags
            /\ ask'.inherit = inherit /\ ask'.subnet = subnet
            /\ answer'.addrs = sandboxAddrs(c) /\ answer'.env = out
        <4> HIDE DEF out
        <4> QED BY <3>5
      <3>7. \E x : x.subnet = ask'.subnet /\ answer'.addrs = sandboxAddrs(x)
        BY <3>4, <3>6
      <3>8. StartAsked(ask, answer)'
        BY <3>3, <3>6, <3>7 DEF StartAsked
      <3> HIDE DEF env, out
      <3> QED BY <2>7, <3>6, <3>8
    <2>4. CASE ask'.kind \notin {"packet", "shared packet", "start"}
      BY <2>4 DEF BoundaryAsked
    <2>5. CASE UNCHANGED vars
      <3>1. ask' = ask /\ answer' = answer
        BY <2>5 DEF vars
      <3> QED BY <3>1 DEF BoundaryAsked
    <2>6. Next => \/ SendPacket \/ SendShared \/ StartWorkload
                  \/ ask'.kind \notin {"packet", "shared packet", "start"}
      BY Kinds, MoreKinds DEF Next
    <2> QED BY <2>1, <2>2, <2>3, <2>4, <2>5, <2>6
  <1> QED BY <1>1, <1>2, PTL DEF Spec

\* The packets of a sandbox.
LEMMA PacketsOK ==
    ASSUME BoundaryAsked
    PROVE  PacketsHeld
  <1> SUFFICES ASSUME ask.kind = "packet" PROVE PacketsHeld
    BY DEF PacketsHeld
  <1> DEFINE p == ask.p
             reason == Check(Unguarded, p.daddr)
             let == p.state \in Ongoing \/ (p.proto = "tcp" /\ p.dport = ProxyPort)
  <1>1. /\ p.hook \in Hooks /\ IsAddr(p.daddr) /\ Unmap(p.daddr) = p.daddr
        /\ answer = sandboxFilter(ProxyPort, p)
    BY DEF BoundaryAsked, PacketAsked
  <1>2. /\ None # "metadata_endpoint" /\ None # "private_network" /\ None # "external"
        /\ None # "host_service"
    BY WildAsksNothing
  <1>6. ASSUME IF p.from # "sandbox" THEN answer = [verdict |-> "accept", counter |-> None]
               ELSE /\ answer.verdict = "accept" <=> p.hook = "input" /\ let
                    /\ answer.verdict = "drop" <=> answer.counter # None
                    /\ answer.verdict = "drop" /\ p.hook = "forward" =>
                           /\ answer.counter = "metadata_endpoint" <=> reason = "metadata_endpoint"
                           /\ answer.counter = "private_network" <=> reason = "private_address_denied"
        PROVE  PacketsHeld
    BY <1>6 DEF PacketsHeld
  <1> HIDE DEF p, reason, let
  <1>3. CASE p.from # "sandbox"
    <2>1. answer = [verdict |-> "accept", counter |-> None]
      BY <1>1, <1>3, OthersPass
    <2> QED BY <1>3, <1>6, <2>1
  <1>4. CASE p.from = "sandbox" /\ p.hook = "forward"
    <2>1. ForwardedTo(p.daddr, answer)
      BY <1>1, <1>4, Forwarded
    <2>2. /\ answer.verdict = "drop" /\ answer.counter # None
          /\ answer.counter = "metadata_endpoint" <=> reason = "metadata_endpoint"
          /\ answer.counter = "private_network" <=> reason = "private_address_denied"
      BY <1>2, <2>1 DEF ForwardedTo, reason
    <2>3. p.hook # "input" /\ answer.verdict # "accept"
      BY <1>4, <2>2
    <2> QED BY <1>4, <1>6, <2>2, <2>3
  <1>5. CASE p.from = "sandbox" /\ p.hook = "input"
    <2>1. answer = IF let THEN [verdict |-> "accept", counter |-> None]
                   ELSE [verdict |-> "drop", counter |-> "host_service"]
      BY <1>1, <1>5, Delivered DEF let
    <2>2. /\ let => answer.verdict = "accept" /\ answer.counter = None
          /\ ~let => answer.verdict = "drop" /\ answer.counter = "host_service"
      BY <2>1
    <2>3. "input" # "forward" /\ "accept" # "drop"
      OBVIOUS
    <2> QED BY <1>2, <1>5, <1>6, <2>2, <2>3
  <1> QED BY <1>1, <1>3, <1>4, <1>5 DEF Hooks

\* The packets of a shared namespace.
LEMMA SharedOnly ==
    ASSUME BoundaryAsked
    PROVE  SharedHeld
  <1> SUFFICES ASSUME ask.kind = "shared packet", ask.p.state = "new" PROVE SharedHeld
    BY Zenon DEF SharedHeld
  <1> DEFINE let == \/ ask.p.uid = ask.cfg.proxyUID
                    \/ ask.p.lo /\ ask.p.proto = "tcp"
                       /\ ask.p.dport \in {ProxyPort} \cup ask.cfg.loopbackPorts
  <1>1. SharedOK(ask.cfg, ask.p) /\ answer = sidecarFilter(ask.cfg, ask.p)
    BY DEF BoundaryAsked, SharedAsked
  <1>2. /\ ask.cfg.proxyUID # 0
        /\ answer = IF let THEN [verdict |-> "accept", counter |-> None]
                    ELSE [verdict |-> "drop", counter |-> "refused_direct"]
    <2>1. OnlyListed(ask.cfg, ask.p, answer)
      BY <1>1, SharedFilter
    <2> QED BY <2>1, Zenon DEF OnlyListed
  <1>3. None # "refused_direct"
    BY WildAsksNothing
  <1> HIDE DEF let
  <1>4. /\ answer.verdict = "accept" <=> let
        /\ answer.verdict = "drop" <=> answer.counter = "refused_direct"
    BY <1>2, <1>3
  <1> QED BY <1>2, <1>4, Zenon DEF let, SharedHeld

\* The starts.
LEMMA StartsOK ==
    ASSUME BoundaryAsked
    PROVE  StartsHeld
  <1> SUFFICES ASSUME ask.kind = "start" PROVE StartsHeld
    BY DEF StartsHeld
  <1> DEFINE env == workloadEnv(ask.host, ask.flags, ask.inherit)
             out == Command(env, ask.host, "proxy")
  <1>1. /\ ask.host \in HostEnvs /\ ask.flags \in EnvFlags /\ ask.inherit \in BOOLEAN
        /\ IsPrefixOf(ask.subnet)
        /\ \E c : c.subnet = ask.subnet /\ answer.addrs = sandboxAddrs(c)
        /\ answer.env = IF env = None THEN None ELSE out
    BY DEF BoundaryAsked, StartAsked
  <1>2. \E S : ask.host \in Seq(S)
    <2> DEFINE a == <<"HOME", "h">>
               b == <<"TOKEN", "s">>
               c == <<"http_proxy", "x">>
    <2>1. ask.host = <<>> \/ ask.host = <<a, b, c>>
      BY <1>1 DEF HostEnvs
    <2> HIDE DEF a, b, c
    <2> DEFINE S == {a, b, c}
    <2>2. a \in S /\ b \in S /\ c \in S
      OBVIOUS
    <2> HIDE DEF S
    <2>3. <<a, b, c>> \in Seq(S) /\ <<>> \in Seq(S)
      BY <2>2
    <2> QED BY <2>1, <2>3, Zenon
  <1>3. \E F : ask.flags \in Seq(F)
    <2> DEFINE F == [name : {"", "TOKEN", "NO_PROXY", "MODE"}, value : {None, "v"}]
    <2>1. EnvFlags = {<<>>} \cup {<<f, g>> : f, g \in F}
      BY DEF EnvFlags
    <2> HIDE DEF F
    <2>2. ask.flags = <<>> \/ \E f, g \in F : ask.flags = <<f, g>>
      BY <1>1, <2>1
    <2>3. <<>> \in Seq(F) /\ \A f, g \in F : <<f, g>> \in Seq(F)
      OBVIOUS
    <2> QED BY <2>2, <2>3, Zenon
  <1>4. ASSUME answer.env # None
        PROVE  /\ Value(answer.env, "http_proxy") = "proxy" /\ Value(answer.env, "NO_PROXY") = ""
               /\ ~ask.inherit => \A kv \in ToSet(answer.env) : Seen(ask.flags, kv)
    <2>1. env # None /\ answer.env = out
      BY <1>1, <1>4
    <2>2. PICK S : ask.host \in Seq(S)
      BY <1>2
    <2>3. PICK F : ask.flags \in Seq(F)
      BY <1>3
    <2>4. /\ Value(out, "http_proxy") = "proxy" /\ Value(out, "NO_PROXY") = ""
          /\ ~ask.inherit => \A kv \in ToSet(out) : Seen(ask.flags, kv)
      <3> DEFINE e == env
                 h == ask.host
                 f == ask.flags
                 i == ask.inherit
                 o == out
      <3>1. /\ h \in Seq(S) /\ f \in Seq(F) /\ i \in BOOLEAN
            /\ e = workloadEnv(h, f, i) /\ e # None /\ o = Command(e, h, "proxy")
        BY <1>1, <2>1, <2>2, <2>3
      <3> HIDE DEF e, h, f, i, o
      <3>2. /\ Value(o, "http_proxy") = "proxy" /\ Value(o, "NO_PROXY") = ""
            /\ ~i => \A kv \in ToSet(o) : Seen(f, kv)
        BY <3>1, EnvHeld, ZenonT(30)
      <3> QED BY <3>2 DEF e, h, f, i, o
    <2> QED BY <2>1, <2>4
  <1>5. ASSUME answer.addrs # None
        PROVE  /\ answer.addrs.host # answer.addrs.guest
               /\ \A x \in {"host", "guest"} : PrefixContains(ask.subnet, answer.addrs[x])
    <2>1. PICK c : c.subnet = ask.subnet /\ answer.addrs = sandboxAddrs(c)
      BY <1>1
    <2>2. /\ answer.addrs.host # answer.addrs.guest
          /\ PrefixContains(ask.subnet, answer.addrs.host)
          /\ PrefixContains(ask.subnet, answer.addrs.guest)
      BY <1>1, <1>5, <2>1, LinkEnds
    <2> QED BY <2>2
  <1> QED BY <1>4, <1>5, Zenon DEF StartsHeld, Seen

\* Whatever the packet, the operator's environment, the flags and the subnet: of a
\* sandbox's packets only those to the proxy's port, and answers, get through, each
\* refusal is counted once, under the name the proxy's guard has for the address; and a
\* workload starts with the proxy as its proxy, seeing nothing that is neither harmless
\* nor named in a flag (internal/confine/netns, internal/confine/sidecar, cmd/agw/run.go).
THEOREM BoundaryHoldsAlways == Spec => []BoundaryHolds
  <1>1. BoundaryAsked => BoundaryHolds
    BY PacketsOK, SharedOnly, StartsOK DEF BoundaryHolds
  <1> QED BY <1>1, BoundaryBelongs, PTL

-----------------------------------------------------------------------------
(* Spans in two encodings *)

\* An attribute's value: a number that is exported as one is small enough to stay what
\* it is in a float64.
ValueOK(v) ==
    /\ v.type \in {"string", "bool", "int", "double", "other"}
    /\ v.type = "int" => \E n \in 0..Whole, as \in {"string", "number"} :
                             v = [type |-> "int", int |-> Int64(n, as)]

\* Its text is the same in both.
LEMMA SameText ==
    ASSUME NEW v, ValueOK(v), v.type # "other"
    PROVE  str(IF v.type = "int" THEN [v EXCEPT !.int.as = "string"] ELSE v) = str(v)
  <1>1. CASE v.type # "int"
    BY <1>1
  <1>2. CASE v.type = "int"
    <2>1. PICK n \in 0..Whole, as \in {"string", "number"} :
             v = [type |-> "int", int |-> Int64(n, as)]
      BY <1>2 DEF ValueOK
    <2>2. [v EXCEPT !.int.as = "string"] = [type |-> "int", int |-> Int64(n, "string")]
      BY <2>1 DEF Int64
    <2>3. Float64(n) = n
      BY DEF Float64, Whole
    <2>4. \A b \in {"string", "number"} : anyToString(Int64(n, b)) = Numeral(n)
      BY <2>3 DEF anyToString, Int64
    <2>5. \A b \in {"string", "number"} :
             str([type |-> "int", int |-> Int64(n, b)]) = [text |-> Numeral(n), pad |-> FALSE]
      BY <2>4 DEF str
    <2> QED BY <1>2, <2>1, <2>2, <2>5
  <1> QED BY <1>1, <1>2

\* The attributes that are left say the same, and those that are left out say nothing.
Attrs(attrs) == \A key \in DOMAIN attrs : ValueOK(attrs[key])
LEMMA SameAttrs ==
    ASSUME NEW attrs, Attrs(attrs)
    PROVE  LET m == attrMap(attrs)
               q == attrMap(protoAttrs(attrs))
           IN /\ DOMAIN q \subseteq DOMAIN m
              /\ \A key \in DOMAIN q : q[key] = m[key]
              /\ \A key \in DOMAIN m \ DOMAIN q : m[key].text = NoText
  <1> DEFINE m == attrMap(attrs)
             q == attrMap(protoAttrs(attrs))
             kept == {k \in DOMAIN attrs : attrs[k].type # "other"}
             wire(key) == IF attrs[key].type = "int" THEN [attrs[key] EXCEPT !.int.as = "string"]
                          ELSE attrs[key]
  <1>1. protoAttrs(attrs) = [key \in kept |-> wire(key)]
    BY Zenon DEF protoAttrs
  <1> HIDE DEF wire
  <1>2. m = [key \in DOMAIN attrs \ {""} |-> str(attrs[key])]
    BY DEF attrMap
  <1>3. q = [key \in kept \ {""} |-> str(wire(key))]
    BY <1>1 DEF attrMap
  <1>4. \A key \in kept : str(wire(key)) = str(attrs[key])
    BY SameText DEF wire, Attrs
  <1>5. \A key \in DOMAIN attrs \ kept : str(attrs[key]).text = NoText
    BY DEF str
  <1> HIDE DEF m, q
  <1>6. \A key \in DOMAIN q : q[key] = m[key]
    BY <1>2, <1>3, <1>4
  <1> HIDE DEF kept
  <1>7. kept \subseteq DOMAIN attrs
    BY DEF kept
  <1>8. DOMAIN q \subseteq DOMAIN m /\ \A key \in DOMAIN m \ DOMAIN q : m[key].text = NoText
    BY <1>2, <1>3, <1>5, <1>7
  <1> QED BY <1>6, <1>8, Zenon DEF m, q

\* So whichever of them is the first with a text.
LEMMA SameFirst ==
    ASSUME NEW attrs, Attrs(attrs), NEW keys
    PROVE  firstOf(attrMap(protoAttrs(attrs)), keys) = firstOf(attrMap(attrs), keys)
  <1> DEFINE m == attrMap(attrs)
             q == attrMap(protoAttrs(attrs))
             set(x) == {k \in 1..Len(keys) : keys[k] \in DOMAIN x /\ x[keys[k]].text # NoText}
             named(x) == [k \in set(x) |-> x[keys[k]].text]
  <1>1. /\ DOMAIN q \subseteq DOMAIN m
        /\ \A key \in DOMAIN q : q[key] = m[key]
        /\ \A key \in DOMAIN m \ DOMAIN q : m[key].text = NoText
    BY SameAttrs
  <1> HIDE DEF m, q
  <1>2. set(q) = set(m)
    BY <1>1
  <1>3. CASE set(m) = {}
    BY <1>2, <1>3 DEF firstOf, m, q
  <1>4. CASE set(m) # {}
    <2>1. Min(set(m)) \in set(m)
      <3>1. set(m) \subseteq Nat
        OBVIOUS
      <3>2. \E k \in set(m) : \A j \in set(m) : k <= j
        BY <1>4, <3>1, LeastNumber
      <3> QED BY <3>2 DEF Min
    <2>2. q[keys[Min(set(m))]] = m[keys[Min(set(m))]]
      BY <1>1, <1>2, <2>1
    <2> QED BY <1>2, <1>4, <2>2 DEF firstOf, m, q
  <1> QED BY <1>3, <1>4

\* And what was done, to what.
LEMMA SameActivity ==
    ASSUME NEW attrs, Attrs(attrs), NEW span, NEW other, other.name = span.name
    PROVE  activity(other, attrMap(protoAttrs(attrs))) = activity(span, attrMap(attrs))
  <1> DEFINE m == attrMap(attrs)
             q == attrMap(protoAttrs(attrs))
  <1>1. \A keys : firstOf(q, keys) = firstOf(m, keys)
    BY SameFirst
  <1> HIDE DEF m, q
  <1>2. activity(other, q) = activity(span, m)
    BY <1>1 DEF activity
  <1> QED BY <1>2 DEF m, q

\* An id is spelled in one of three ways.
Spelt(id) == id.spelling \in {"hex", "HEX", "base64"}
SpanOK(span) ==
    /\ span = [name |-> span.name, attrs |-> span.attrs, traceId |-> span.traceId,
               spanId |-> span.spanId, start |-> span.start, end |-> span.end,
               status |-> span.status]
    /\ Attrs(span.attrs) /\ Spelt(span.traceId) /\ Spelt(span.spanId)
    /\ span.traceId = [bytes |-> span.traceId.bytes, spelling |-> span.traceId.spelling]
    /\ span.spanId = [bytes |-> span.spanId.bytes, spelling |-> span.spanId.spelling]
    /\ \E as \in {"string", "number", "absent"}, s, e \in Int :
          /\ span.start = Int64(s, as) /\ span.end = Int64(e, as)
          /\ as = "number" => s \in 0..MaxInt64 /\ e \in 0..MaxInt64
          /\ as = "absent" => s = 0 /\ e = 0

\* The span that the protobuf decoder's becomes.
LEMMA OtherSpan ==
    ASSUME NEW span, SpanOK(span)
    PROVE  LET o == fromProto(span) IN
           /\ o.name = span.name /\ o.status = span.status /\ o.attrs = protoAttrs(span.attrs)
           /\ decodeID(o.traceId) = decodeID(span.traceId)
           /\ decodeID(o.spanId) = decodeID(span.spanId)
           /\ \A n : \A as : span.start = Int64(n, as) => o.start = Int64(n, "string")
           /\ \A n : \A as : span.end = Int64(n, as) => o.end = Int64(n, "string")
  <1> DEFINE o == fromProto(span)
  <1>1. /\ o.name = span.name /\ o.status = span.status /\ o.attrs = protoAttrs(span.attrs)
        /\ o.traceId = [span.traceId EXCEPT !.spelling = "hex"]
        /\ o.spanId = [span.spanId EXCEPT !.spelling = "hex"]
        /\ o.start = [span.start EXCEPT !.as = "string"]
        /\ o.end = [span.end EXCEPT !.as = "string"]
    BY DEF SpanOK, fromProto
  <1>2. \A id : id = [bytes |-> id.bytes, spelling |-> id.spelling] /\ Spelt(id)
                  => decodeID([id EXCEPT !.spelling = "hex"]) = decodeID(id)
    BY DEF decodeID, Spelt
  <1>3. \A n : \A as : [Int64(n, as) EXCEPT !.as = "string"] = Int64(n, "string")
    BY DEF Int64
  <1> HIDE DEF o
  <1>4. decodeID(o.traceId) = decodeID(span.traceId) /\ decodeID(o.spanId) = decodeID(span.spanId)
    BY <1>1, <1>2, Zenon DEF SpanOK
  <1> QED BY <1>1, <1>3, <1>4 DEF o

\* 2^24, the largest time here, is a multiple of what the float64s are apart.
LEMMA Largest == \E top \in Nat : MaxInt64 = 256 * top
  <1>1. MaxInt64 = 256 * 65536
    BY SMT DEF MaxInt64
  <1> QED BY <1>1, SMT

\* A time that is rounded stays a time, half a step away at most.
LEMMA Rounded ==
    ASSUME NEW n \in 0..MaxInt64
    PROVE  /\ Float64(n) \in 0..MaxInt64 /\ Abs(Float64(n) - n) <= Step \div 2
           /\ Float64(n) = 0 <=> n = 0
  <1> DEFINE q == n \div 256
             low == q * 256
             rest == n - low
  <1> PICK top \in Nat : MaxInt64 = 256 * top
    BY Largest
  <1>1. n \in 0..(256 * top)
    OBVIOUS
  <1>2. q \in Int /\ 0 <= rest /\ rest < 256 /\ 0 <= q /\ q <= top
    BY <1>1
  <1>3. Float64(n) = IF n <= 1024 THEN n
                     ELSE IF 2 * rest > 256 \/ (2 * rest = 256 /\ (low \div 256) % 2 = 1)
                          THEN low + 256 ELSE low
    BY DEF Float64, Whole, Step
  <1>4. n > 1024 => q >= 4
    BY <1>1
  <1> DEFINE up == 2 * rest > 256 \/ (2 * rest = 256 /\ (low \div 256) % 2 = 1)
  <1>5. up => 2 * rest >= 256
    OBVIOUS
  <1>6. ~up => 2 * rest <= 256
    BY <1>1, <1>2
  <1> HIDE DEF up
  <1>7. /\ Float64(n) \in 0..(256 * top) /\ Float64(n) - n <= 128 /\ n - Float64(n) <= 128
        /\ Float64(n) = 0 <=> n = 0
    <2> DEFINE r == rest
    <2>1. r = n - 256 * q /\ low = 256 * q /\ n \in Int
      BY <1>1, <1>2
    <2> HIDE DEF q, r
    <2>2. CASE n <= 1024
      BY <1>1, <1>3, <2>2
    <2>3. CASE n > 1024 /\ up
      <3>1. Float64(n) = 256 * q + 256
        BY <1>1, <1>3, <2>1, <2>3 DEF up
      <3> QED BY <1>1, <1>2, <1>4, <1>5, <2>1, <2>3, <3>1
    <2>4. CASE n > 1024 /\ ~up
      <3>1. Float64(n) = 256 * q
        BY <1>1, <1>3, <2>1, <2>4 DEF up
      <3> QED BY <1>1, <1>2, <1>4, <1>6, <2>1, <2>4, <3>1
    <2> QED BY <1>1, <2>2, <2>3, <2>4
  <1>8. Step \div 2 = 128
    BY DEF Step
  <1> QED BY <1>1, <1>7, <1>8 DEF Abs

\* A moment as text and as the other encoding writes it.
LEMMA SameMoment ==
    ASSUME NEW n \in Int, NEW as \in {"string", "number", "absent"},
           as = "number" => n \in 0..MaxInt64, as = "absent" => n = 0
    PROVE  LET t == unixNano(Int64(n, as))
               u == unixNano(Int64(n, "string"))
           IN /\ as # "number" => t = u
              /\ t \in Int /\ u \in Int
              /\ Abs(t - u) <= Step \div 2 /\ (t = ZeroTime <=> u = ZeroTime)
  <1> DEFINE Read(m) == IF m > MaxInt64 \/ m <= 0 THEN ZeroTime ELSE m
  <1>1. /\ anyToString(Int64(n, "string")) = Numeral(n) /\ anyToString(Int64(n, "absent")) = NoText
        /\ anyToString(Int64(n, "number")) = Numeral(Float64(n))
    <2>1. \A b : Int64(n, b).as = b /\ Int64(n, b).n = n
      BY DEF Int64
    <2> QED BY <2>1 DEF anyToString
  <1>2. \A m : Numeral(m) # NoText /\ Numeral(m).n = m
    BY DEF Numeral, NoText
  <1>3. /\ unixNano(Int64(n, "string")) = Read(n) /\ unixNano(Int64(n, "absent")) = ZeroTime
        /\ unixNano(Int64(n, "number")) = Read(Float64(n))
    BY <1>1, <1>2 DEF unixNano
  <1>4. Step \div 2 = 128 /\ Step \div 2 \in Nat
    BY DEF Step
  <1>5. MaxInt64 \in Int /\ ZeroTime = 0
    BY Largest, SMT DEF ZeroTime
  <1>6. CASE as = "number"
    <2>1. /\ Float64(n) \in 0..MaxInt64 /\ Abs(Float64(n) - n) <= 128
          /\ Float64(n) = 0 <=> n = 0
      BY <1>4, <1>6, Rounded
    <2>2. Read(n) = n /\ Read(Float64(n)) = Float64(n)
      BY <1>5, <1>6, <2>1
    <2> QED BY <1>3, <1>4, <1>5, <1>6, <2>1, <2>2
  <1>7. CASE as # "number"
    <2>1. Read(n) \in Int /\ (n <= 0 => Read(n) = 0)
      BY <1>5
    <2>2. unixNano(Int64(n, as)) = Read(n)
      BY <1>3, <1>5, <1>7, <2>1
    <2>3. Abs(Read(n) - Read(n)) = 0
      BY <2>1 DEF Abs
    <2> QED BY <1>3, <1>4, <1>7, <2>1, <2>2, <2>3
  <1> QED BY <1>6, <1>7

\* Two durations a step apart are a millisecond apart at most.
LEMMA SameLatency ==
    ASSUME NEW d \in Int, NEW e \in Int, Abs(d - e) <= Step
    PROVE  /\ Milliseconds(d) \in Int /\ Milliseconds(e) \in Int
           /\ Abs(Milliseconds(d) - Milliseconds(e)) <= 1
  <1>1. d - e <= 256 /\ e - d <= 256
    BY DEF Abs, Step
  <1>2. ASSUME NEW x \in Int
        PROVE \E m \in Int : /\ Milliseconds(x) = m
                             /\ x >= 0 => 1000000 * m <= x /\ x < 1000000 * m + 1000000
                             /\ x < 0 => 1000000 * m >= x /\ x > 1000000 * m - 1000000
    <2>1. CASE x >= 0
      <3>1. Milliseconds(x) = x \div 1000000
        BY <2>1, SMT DEF Milliseconds
      <3> QED BY <2>1, <3>1, SMT
    <2>2. CASE x < 0
      <3>1. Milliseconds(x) = -((-x) \div 1000000)
        BY <2>2, SMT DEF Milliseconds
      <3> QED BY <2>2, <3>1, SMT
    <2> QED BY <2>1, <2>2, SMT
  <1>3. PICK m \in Int : /\ Milliseconds(d) = m
                         /\ d >= 0 => 1000000 * m <= d /\ d < 1000000 * m + 1000000
                         /\ d < 0 => 1000000 * m >= d /\ d > 1000000 * m - 1000000
    BY <1>2, SMT
  <1>4. PICK n \in Int : /\ Milliseconds(e) = n
                         /\ e >= 0 => 1000000 * n <= e /\ e < 1000000 * n + 1000000
                         /\ e < 0 => 1000000 * n >= e /\ e > 1000000 * n - 1000000
    BY <1>2, SMT
  <1>5. m - n <= 1 /\ n - m <= 1
    BY <1>1, <1>3, <1>4, SMT
  <1>6. Milliseconds(d) = m /\ Milliseconds(e) = n
    BY <1>3, <1>4, SMT
  <1> QED BY <1>5, <1>6 DEF Abs

\* What the two encodings of a span become.

LEMMA SameObservation ==
    ASSUME NEW span, SpanOK(span), NEW resource, Attrs(resource)
    PROVE  LET o == FromJSON(span, resource)
               q == FromProtobuf(span, resource)
           IN /\ o.agent = q.agent /\ o.tenant = q.tenant /\ o.action = q.action
              /\ o.resource = q.resource /\ o.target = q.target /\ o.provider = q.provider
              /\ o.outcome = q.outcome /\ o.reason = q.reason
              /\ o.traceId = q.traceId /\ o.spanId = q.spanId
  <1> DEFINE o == FromJSON(span, resource)
             q == FromProtobuf(span, resource)
             other == fromProto(span)
             m == attrMap(span.attrs)
             w == attrMap(protoAttrs(span.attrs))
             res == attrMap(resource)
             rew == attrMap(protoAttrs(resource))
  <1>1. Attrs(span.attrs)
    BY DEF SpanOK
  <1>2. \A keys : firstOf(w, keys) = firstOf(m, keys)
    BY <1>1, SameFirst
  <1>3. \A keys : firstOf(rew, keys) = firstOf(res, keys)
    BY SameFirst
  <1>4. /\ other.name = span.name /\ other.status = span.status
        /\ other.attrs = protoAttrs(span.attrs)
        /\ decodeID(other.traceId) = decodeID(span.traceId)
        /\ decodeID(other.spanId) = decodeID(span.spanId)
    BY OtherSpan
  <1>5. activity(other, w) = activity(span, m)
    BY <1>1, <1>4, SameActivity
  <1>6. /\ FromJSON(span, resource) = mapSpan(span, res)
        /\ FromProtobuf(span, resource) = mapSpan(other, rew)
        /\ attrMap(other.attrs) = w
    BY <1>4 DEF FromJSON, FromProtobuf
  <1> HIDE DEF other, m, w, res, rew
  <1>7. /\ o.agent = q.agent /\ o.tenant = q.tenant
    BY <1>2, <1>3, <1>6 DEF mapSpan, m
  <1>8. /\ o.action = q.action /\ o.resource = q.resource /\ o.target = q.target
        /\ o.provider = q.provider
    BY <1>5, <1>6 DEF mapSpan, m
  <1>9. /\ o.outcome = q.outcome /\ o.reason = q.reason
        /\ o.traceId = q.traceId /\ o.spanId = q.spanId
    BY <1>4, <1>6 DEF mapSpan
  <1> QED BY <1>7, <1>8, <1>9

\* Its times.
LEMMA SameSpanTimes ==
    ASSUME NEW span, SpanOK(span), NEW resource
    PROVE  LET o == FromJSON(span, resource)
               q == FromProtobuf(span, resource)
           IN /\ o.started \in Int /\ o.finished \in Int /\ q.started \in Int /\ q.finished \in Int
              /\ span.start.as # "number" => o.started = q.started /\ o.finished = q.finished
              /\ Abs(o.started - q.started) <= Step \div 2
              /\ Abs(o.finished - q.finished) <= Step \div 2
              /\ o.started = ZeroTime <=> q.started = ZeroTime
              /\ o.finished = ZeroTime <=> q.finished = ZeroTime
  <1> DEFINE other == fromProto(span)
  <1>1. PICK as \in {"string", "number", "absent"}, s \in Int, e \in Int :
          /\ span.start = Int64(s, as) /\ span.end = Int64(e, as)
          /\ as = "number" => s \in 0..MaxInt64 /\ e \in 0..MaxInt64
          /\ as = "absent" => s = 0 /\ e = 0
    BY Zenon DEF SpanOK
  <1>2. other.start = Int64(s, "string") /\ other.end = Int64(e, "string")
    BY <1>1, OtherSpan
  <1> HIDE DEF other
  <1>3. /\ FromJSON(span, resource).started = unixNano(Int64(s, as))
        /\ FromJSON(span, resource).finished = unixNano(Int64(e, as))
    BY <1>1 DEF FromJSON, mapSpan
  <1>4. /\ FromProtobuf(span, resource).started = unixNano(Int64(s, "string"))
        /\ FromProtobuf(span, resource).finished = unixNano(Int64(e, "string"))
    BY <1>2 DEF FromProtobuf, mapSpan, other
  <1>5. span.start.as = as
    BY <1>1 DEF Int64
  <1>6. LET t == unixNano(Int64(s, as))
            u == unixNano(Int64(s, "string"))
        IN /\ as # "number" => t = u
           /\ t \in Int /\ u \in Int
           /\ Abs(t - u) <= Step \div 2 /\ (t = ZeroTime <=> u = ZeroTime)
    BY <1>1, SameMoment
  <1>7. LET t == unixNano(Int64(e, as))
            u == unixNano(Int64(e, "string"))
        IN /\ as # "number" => t = u
           /\ t \in Int /\ u \in Int
           /\ Abs(t - u) <= Step \div 2 /\ (t = ZeroTime <=> u = ZeroTime)
    BY <1>1, SameMoment
  <1> QED BY <1>3, <1>4, <1>5, <1>6, <1>7, Zenon

\* An event without its times.
Timeless(e) == [e EXCEPT !.started = 0, !.finished = 0, !.latency = 0]

\* The events of one span, whose times a JSON exporter wrote as numbers or not.
Agreeing(numbers, j, p) ==
    IF ~numbers THEN j = p
    ELSE /\ Timeless(j) = Timeless(p)
         /\ Abs(j.started - p.started) <= Step \div 2
         /\ Abs(j.finished - p.finished) <= Step \div 2
         /\ Abs(j.latency - p.latency) <= 1

\* Two records that differ in those only are the same without them.
LEMMA TimesForgotten ==
    ASSUME NEW j, NEW p, DOMAIN j = DOMAIN p, j = [part \in DOMAIN j |-> j[part]],
           p = [part \in DOMAIN p |-> p[part]],
           \A part \in DOMAIN j \ {"started", "finished", "latency"} : j[part] = p[part]
    PROVE  Timeless(j) = Timeless(p)
  BY DEF Timeless

\* Whatever the span: it becomes the same event from either encoding, but for numbers
\* a JSON exporter wrote as such, which are the nearest float64s
\* (internal/recorder/otlp_proto.go, otlp.go, mapping.go).
THEOREM SameSpan ==
    ASSUME NEW span, SpanOK(span), NEW resource, Attrs(resource)
    PROVE  Agreeing(span.start.as = "number", toEvent(FromJSON(span, resource)),
                    toEvent(FromProtobuf(span, resource)))
  <1> DEFINE o == FromJSON(span, resource)
             q == FromProtobuf(span, resource)
             j == toEvent(o)
             p == toEvent(q)
             took(x) == IF x.started # ZeroTime /\ x.finished # ZeroTime
                        THEN Milliseconds(x.finished - x.started) ELSE 0
             event(x, s, f, l) ==
                 [tenant |-> x.tenant, agent |-> x.agent, action |-> x.action,
                  resourceType |-> "observed", resourceId |-> x.resource,
                  backendId |-> orElse(x.target, x.provider), routeId |-> "self-reported",
                  decision |-> x.outcome, reason |-> x.reason, traceId |-> x.traceId,
                  requestId |-> x.spanId, started |-> s, finished |-> f, latency |-> l]
  <1>1. /\ o.agent = q.agent /\ o.tenant = q.tenant /\ o.action = q.action
        /\ o.resource = q.resource /\ o.target = q.target /\ o.provider = q.provider
        /\ o.outcome = q.outcome /\ o.reason = q.reason
        /\ o.traceId = q.traceId /\ o.spanId = q.spanId
    BY SameObservation
  <1>2. /\ o.started \in Int /\ o.finished \in Int /\ q.started \in Int /\ q.finished \in Int
        /\ span.start.as # "number" => o.started = q.started /\ o.finished = q.finished
        /\ Abs(o.started - q.started) <= Step \div 2
        /\ Abs(o.finished - q.finished) <= Step \div 2
        /\ o.started = ZeroTime <=> q.started = ZeroTime
        /\ o.finished = ZeroTime <=> q.finished = ZeroTime
    BY SameSpanTimes
  <1> HIDE DEF o, q
  <1>3. \A x : toEvent(x) = event(x, x.started, x.finished, took(x))
    BY Zenon DEF toEvent
  <1>4. \A s, f, l : event(o, s, f, l) = event(q, s, f, l)
    BY <1>1
  <1>5. Abs(took(o) - took(q)) <= 1
    <2>1. CASE o.started # ZeroTime /\ o.finished # ZeroTime
      <3> DEFINE d == o.finished - o.started
                 e == q.finished - q.started
      <3>1. d \in Int /\ e \in Int /\ Abs(d - e) <= Step
        BY <1>2 DEF Abs, Step
      <3> HIDE DEF d, e
      <3>2. Abs(Milliseconds(d) - Milliseconds(e)) <= 1
        BY <3>1, SameLatency
      <3> QED BY <1>2, <2>1, <3>2, Zenon DEF d, e
    <2>2. CASE ~(o.started # ZeroTime /\ o.finished # ZeroTime)
      <3>1. took(o) = 0 /\ took(q) = 0
        BY <1>2, <2>2, Zenon
      <3> QED BY <3>1 DEF Abs
    <2> QED BY <2>1, <2>2
  <1> DEFINE a == event(o, o.started, o.finished, took(o))
             b == event(o, q.started, q.finished, took(q))
  <1>6. Timeless(a) = Timeless(b)
    <2> HIDE DEF took
    <2>1. /\ DOMAIN a = DOMAIN b /\ a = [part \in DOMAIN a |-> a[part]]
          /\ b = [part \in DOMAIN b |-> b[part]]
          /\ \A part \in DOMAIN a \ {"started", "finished", "latency"} : a[part] = b[part]
      OBVIOUS
    <2> HIDE DEF a, b
    <2> QED BY <2>1, TimesForgotten
  <1>7. \A x, s, f, l : /\ event(x, s, f, l).started = s /\ event(x, s, f, l).finished = f
                        /\ event(x, s, f, l).latency = l
    OBVIOUS
  <1>8. CASE span.start.as # "number"
    <2>1. o.started = q.started /\ o.finished = q.finished
      BY <1>2, <1>8
    <2>2. took(o) = took(q)
      BY <2>1
    <2> HIDE DEF event, took
    <2>3. j = p
      BY <1>3, <1>4, <2>1, <2>2
    <2> QED BY <1>8, <2>3 DEF Agreeing, o, q
  <1>9. CASE span.start.as = "number"
    <2> HIDE DEF event, took
    <2>1. Timeless(j) = Timeless(p)
      <3>1. p = event(o, q.started, q.finished, took(q))
        BY <1>3, <1>4
      <3>2. j = event(o, o.started, o.finished, took(o))
        BY <1>3
      <3>4. j = a /\ p = b
        BY <3>1, <3>2
      <3> HIDE DEF a, b, j, p
      <3> QED BY <1>6, <3>4
    <2>2. /\ j.started = o.started /\ j.finished = o.finished /\ j.latency = took(o)
          /\ p.started = q.started /\ p.finished = q.finished /\ p.latency = took(q)
      BY <1>3, <1>7
    <2> HIDE DEF j, p
    <2>3. /\ Abs(j.started - p.started) <= Step \div 2
          /\ Abs(j.finished - p.finished) <= Step \div 2
          /\ Abs(j.latency - p.latency) <= 1
      BY <1>2, <1>5, <2>2, Zenon
    <2>4. Agreeing(TRUE, j, p)
      BY <2>1, <2>3, Zenon DEF Agreeing
    <2> QED BY <1>9, <2>4 DEF j, p, o, q
  <1> QED BY <1>8, <1>9

-----------------------------------------------------------------------------
(* The receiver's door *)

\* A body's type decides nothing between JSON and protobuf; gRPC asks for the same
\* token; what is admitted is within the limit, packed and unpacked.
LEMMA SameDoor ==
    ASSUME NEW cfg, NEW auth, NEW b \in Bodied, cfg.allowUnauthenticated \in BOOLEAN
    PROVE  LET d == Doors(cfg, auth, b) IN
           /\ d.json = d.protobuf /\ d.json = d.untyped
           /\ d.grpc <=> d.json # 401
           /\ d.text # 200
           /\ d.json = 200 => b.wire <= 10 /\ (b.encoding = "gzip" => b.unpacked <= 10)
  <1> DEFINE status(type) == admitted(cfg, Posted(auth, b, type), 10)
             let == checkBearer(cfg, auth)
             read == readBody(b, 10)
             ct(type) == [type |-> type, upper |-> FALSE]
             known(type) == isProtobuf(ct(type)) \/ type = "" \/ isJSON(ct(type))
             json == "application/json"
             untyped == ""
             proto == "application/x-protobuf"
             text == "text/plain"
  <1>1. Doors(cfg, auth, b) =
            [json |-> status(json), untyped |-> status(untyped), protobuf |-> status(proto),
             text |-> status(text), grpc |-> let]
    BY Zenon DEF Doors
  <1>2. let \in BOOLEAN /\ b.parses \in BOOLEAN /\ b.gzip \in BOOLEAN
    BY DEF checkBearer, Bodied
  <1>3. known(json) /\ known(untyped) /\ known(proto) /\ ~known(text)
    <2>1. \A type : ct(type).type = type /\ ~ct(type).upper
      OBVIOUS
    <2> HIDE DEF ct
    <2> QED BY <2>1, Zenon DEF isJSON, isProtobuf
  <1> HIDE DEF json, untyped, proto, text
  <1>4. ASSUME NEW type
        PROVE  /\ ~let => status(type) = 401
               /\ let /\ read = "refused" => status(type) = 400
               /\ let /\ read # "refused" /\ known(type) /\ b.parses => status(type) = 200
               /\ let /\ read # "refused" /\ known(type) /\ ~b.parses => status(type) = 400
               /\ let /\ read # "refused" /\ ~known(type) => status(type) = 415
    <2> DEFINE q == Posted(auth, b, type)
               c == ct(type)
    <2>1. /\ q.authorization = auth /\ q.contentType = c /\ c.type = type
          /\ q.wire = b.wire /\ q.unpacked = b.unpacked /\ q.gzip = b.gzip
          /\ q.encoding = b.encoding /\ q.parses = b.parses
      BY DEF Posted
    <2> HIDE DEF q, c
    <2>2. readBody(q, 10) = read
      BY <2>1 DEF readBody
    <2> HIDE DEF let, read
    <2>3. known(type) <=> isProtobuf(c) \/ c.type = "" \/ isJSON(c)
      BY <2>1 DEF c
    <2> HIDE DEF known
    <2>5. ~let => admitted(cfg, q, 10) = 401
      BY <2>1 DEF admitted, let
    <2>6. let /\ read = "refused" => admitted(cfg, q, 10) = 400
      BY <2>1, <2>2 DEF admitted, let
    <2>4. ASSUME let, read # "refused", known(type)
          PROVE admitted(cfg, q, 10) = IF b.parses THEN 200 ELSE 400
      <3> DEFINE answered == IF q.parses THEN 200 ELSE 400
      <3>1. CASE isProtobuf(c)
        <4>1. admitted(cfg, q, 10) = answered
          BY <2>1, <2>2, <2>4, <3>1 DEF admitted, let
        <4> QED BY <2>1, <4>1
      <3>2. CASE ~isProtobuf(c) /\ (c.type = "" \/ isJSON(c))
        <4>1. admitted(cfg, q, 10) = answered
          BY <2>1, <2>2, <2>4, <3>2 DEF admitted, let
        <4> QED BY <2>1, <4>1
      <3> QED BY <2>3, <2>4, <3>1, <3>2
    <2>7. let /\ read # "refused" /\ known(type) /\ b.parses => admitted(cfg, q, 10) = 200
      BY <2>4
    <2>8. let /\ read # "refused" /\ known(type) /\ ~b.parses => admitted(cfg, q, 10) = 400
      BY <2>4
    <2>9. let /\ read # "refused" /\ ~known(type) => admitted(cfg, q, 10) = 415
      BY <2>1, <2>2, <2>3 DEF admitted, let
    <2> QED BY <2>5, <2>6, <2>7, <2>8, <2>9 DEF q
  <1>5. read # "refused" => b.wire <= 10 /\ (b.encoding = "gzip" => b.unpacked <= 10)
    <2>1. b.wire \in Int /\ b.unpacked \in Int
      <3>1. b.wire \in {10, 11} /\ b.unpacked \in {10, 11}
        BY DEF Bodied
      <3> QED BY <3>1
    <2>2. read # "refused" => ~(b.wire > 10)
      BY Zenon DEF readBody
    <2>3. read # "refused" /\ b.encoding = "gzip" => ~(b.unpacked > 10)
      <3>1. CASE b.encoding = "gzip"
        <4>1. (IF b.encoding = "gzip" THEN b.unpacked ELSE b.wire) = b.unpacked
          BY <3>1
        <4> QED BY <4>1, Zenon DEF readBody
      <3> QED BY <3>1, Zenon
    <2>4. \A n \in Int : ~(n > 10) => n <= 10
      OBVIOUS
    <2> QED BY <2>1, <2>2, <2>3, <2>4, Zenon
  <1> HIDE DEF let, read, status, known
  <1>6. /\ status(json) = status(proto) /\ status(json) = status(untyped)
        /\ let <=> status(json) # 401
        /\ status(text) # 200
        /\ status(json) = 200 => read # "refused"
    <2>1. CASE ~let
      BY <1>4, <2>1
    <2>2. CASE let /\ read = "refused"
      BY <1>4, <2>2
    <2>3. CASE let /\ read # "refused" /\ b.parses
      BY <1>3, <1>4, <2>3
    <2>4. CASE let /\ read # "refused" /\ ~b.parses
      BY <1>3, <1>4, <2>4
    <2> QED BY <1>2, <2>1, <2>2, <2>3, <2>4
  <1> QED BY <1>1, <1>5, <1>6

-----------------------------------------------------------------------------
(* What is asked of the recorder *)

\* A value that names a destination names a host without a dot at its end, and where a
\* URL or a path belongs there is no host and port.
places == {"url.full", "http.url", "url.path", "http.target"}
Ports == SomePorts \cup {None, 70000}
Reached(text) == text.host \in SomeHosts /\ ~text.host.dot /\ text.port \in Ports
PlaceOK(key, v) ==
    v.type = "string" =>
        /\ v.text.kind \in {"url", "host"} => Reached(v.text)
        /\ key \in places => v.text.kind # "host"
Places(attrs) == \A key \in DOMAIN attrs : PlaceOK(key, attrs[key])

LEMMA ValuesOK ==
    \A kv \in SomeAttrs : ValueOK(kv[2]) /\ PlaceOK(kv[1], kv[2])
  <1> DEFINE padded(text) == [Str(text) EXCEPT !.pad = TRUE]
  <1>1. \A text : ValueOK(Str(text)) /\ ValueOK(padded(text))
    BY DEF ValueOK, Str
  <1>2. ValueOK([type |-> "int", int |-> Int64(7, "number")])
    <2>1. 7 \in 0..Whole
      BY DEF Whole
    <2> DEFINE v == [type |-> "int", int |-> Int64(7, "number")]
    <2>2. v.type = "int"
      OBVIOUS
    <2>3. \E n \in 0..Whole, as \in {"string", "number"} : v = [type |-> "int", int |-> Int64(n, as)]
      BY <2>1, Zenon
    <2> HIDE DEF v
    <2>4. ValueOK(v)
      BY <2>2, <2>3, Zenon DEF ValueOK
    <2> QED BY <2>4 DEF v
  <1>3. /\ ValueOK([type |-> "other"]) /\ ValueOK([type |-> "bool", b |-> "true"])
        /\ ValueOK([type |-> "double", d |-> "1.5"])
    BY DEF ValueOK
  <1>4. ASSUME NEW key, NEW text, text.kind \notin {"url", "host"}
        PROVE PlaceOK(key, Str(text)) /\ PlaceOK(key, padded(text))
    BY <1>4 DEF PlaceOK, Str
  <1>5. \A w : Word(w).kind = "word"
    BY DEF Word
  <1>6. NoText.kind = "nothing" /\ PathOnly.kind = "path"
    BY DEF NoText, PathOnly
  <1>7. \A key, v : v.type # "string" => PlaceOK(key, v)
    BY DEF PlaceOK
  <1>8. {ex, api, internal, [ex EXCEPT !.upper = TRUE]} \subseteq SomeHosts
    BY DEF SomeHosts
  <1>9. ~ex.dot /\ ~api.dot /\ ~internal.dot /\ ~[ex EXCEPT !.upper = TRUE].dot
    BY DEF ex, api, internal, Host
  <1>10. ASSUME NEW h \in SomeHosts, ~h.dot, NEW port \in Ports, NEW scheme
         PROVE PlaceOK("url.full", Str(Url(h, port, scheme)))
    BY <1>10 DEF PlaceOK, Str, Url, Reached
  <1>11. ASSUME NEW h \in SomeHosts, ~h.dot, NEW port \in Ports, NEW key, key \notin places
         PROVE  /\ PlaceOK(key, Str(Destination(h, port)))
                /\ PlaceOK(key, padded(Destination(h, port)))
    BY <1>11 DEF PlaceOK, Str, Destination, Reached
  <1>12. "server.address" \notin places /\ "http.host" \notin places
    BY DEF places
  <1> DEFINE ex2 == [ex EXCEPT !.upper = TRUE]
  <1> HIDE DEF ex2, padded
  <1>14. ex2 \in SomeHosts /\ ~ex2.dot
    BY <1>8, <1>9 DEF ex2
  <1>13. {None, 443, 8443, 70000} \subseteq Ports
    BY SMT DEF Ports, SomePorts
  <1>15. /\ \A port \in Ports, scheme \in {"https", "http", "wss"} :
                /\ PlaceOK("url.full", Str(Url(ex, port, scheme)))
                /\ PlaceOK("url.full", Str(Url(api, port, scheme)))
                /\ PlaceOK("url.full", Str(Url(internal, port, scheme)))
                /\ PlaceOK("url.full", Str(Url(ex2, port, scheme)))
    BY <1>8, <1>9, <1>10, <1>14
  <1>16. /\ PlaceOK("server.address", Str(Destination(ex, None)))
         /\ PlaceOK("server.address", padded(Destination(api, 8443)))
         /\ PlaceOK("http.host", Str(Destination(ex2, 443)))
    BY <1>8, <1>9, <1>11, <1>12, <1>13, <1>14, SMT
  <1>17. \A key, w : PlaceOK(key, Str(Word(w))) /\ PlaceOK(key, padded(Word(w)))
    BY <1>4, <1>5
  <1>18. \A key : PlaceOK(key, padded(NoText)) /\ PlaceOK(key, Str(PathOnly))
    BY <1>4, <1>6
  <1>19. \A key : /\ PlaceOK(key, [type |-> "int", int |-> Int64(7, "number")])
                  /\ PlaceOK(key, [type |-> "other"]) /\ PlaceOK(key, [type |-> "bool", b |-> "true"])
                  /\ PlaceOK(key, [type |-> "double", d |-> "1.5"])
    BY <1>7
  <1> DEFINE ok(kv) == ValueOK(kv[2]) /\ PlaceOK(kv[1], kv[2])
  <1>20. \A key, v : ValueOK(v) /\ PlaceOK(key, v) => ok(<<key, v>>)
    OBVIOUS
  <1> HIDE DEF ok
  <1>21. \A key, w : ok(<<key, Str(Word(w))>>) /\ ok(<<key, padded(Word(w))>>)
    BY <1>1, <1>17, <1>20, Zenon
  <1>22. \A key : ok(<<key, padded(NoText)>>) /\ ok(<<key, Str(PathOnly)>>)
    BY <1>1, <1>18, <1>20, Zenon
  <1>23. \A key : /\ ok(<<key, [type |-> "int", int |-> Int64(7, "number")]>>)
                  /\ ok(<<key, [type |-> "other"]>>) /\ ok(<<key, [type |-> "bool", b |-> "true"]>>)
                  /\ ok(<<key, [type |-> "double", d |-> "1.5"]>>)
    BY <1>2, <1>3, <1>19, <1>20, Zenon
  <1>24. \A port \in Ports, scheme \in {"https", "http", "wss"} :
             /\ ok(<<"url.full", Str(Url(ex, port, scheme))>>)
             /\ ok(<<"url.full", Str(Url(api, port, scheme))>>)
             /\ ok(<<"url.full", Str(Url(internal, port, scheme))>>)
             /\ ok(<<"url.full", Str(Url(ex2, port, scheme))>>)
    BY <1>1, <1>15, <1>20, Zenon
  <1>25. /\ ok(<<"server.address", Str(Destination(ex, None))>>)
         /\ ok(<<"server.address", padded(Destination(api, 8443))>>)
         /\ ok(<<"http.host", Str(Destination(ex2, 443))>>)
    BY <1>1, <1>16, <1>20
  <1>26. ASSUME NEW kv \in SomeAttrs
         PROVE  \/ \E key, w : kv = <<key, Str(Word(w))>> \/ kv = <<key, padded(Word(w))>>
                \/ \E key : \/ kv = <<key, padded(NoText)>> \/ kv = <<key, Str(PathOnly)>>
                            \/ kv = <<key, [type |-> "int", int |-> Int64(7, "number")]>>
                            \/ kv = <<key, [type |-> "other"]>>
                            \/ kv = <<key, [type |-> "bool", b |-> "true"]>>
                            \/ kv = <<key, [type |-> "double", d |-> "1.5"]>>
                \/ \E port \in Ports, scheme \in {"https", "http", "wss"} :
                       \/ kv = <<"url.full", Str(Url(ex, port, scheme))>>
                       \/ kv = <<"url.full", Str(Url(api, port, scheme))>>
                       \/ kv = <<"url.full", Str(Url(internal, port, scheme))>>
                       \/ kv = <<"url.full", Str(Url(ex2, port, scheme))>>
                \/ kv = <<"server.address", Str(Destination(ex, None))>>
                \/ kv = <<"server.address", padded(Destination(api, 8443))>>
                \/ kv = <<"http.host", Str(Destination(ex2, 443))>>
    BY <1>13, SMTT(30) DEF SomeAttrs, padded, ex2
  <1>27. ASSUME NEW kv \in SomeAttrs PROVE ok(kv)
    <2>1. CASE \E key, w : kv = <<key, Str(Word(w))>> \/ kv = <<key, padded(Word(w))>>
      BY <1>21, <2>1
    <2>2. CASE \E key : \/ kv = <<key, padded(NoText)>> \/ kv = <<key, Str(PathOnly)>>
                        \/ kv = <<key, [type |-> "int", int |-> Int64(7, "number")]>>
                        \/ kv = <<key, [type |-> "other"]>>
                        \/ kv = <<key, [type |-> "bool", b |-> "true"]>>
                        \/ kv = <<key, [type |-> "double", d |-> "1.5"]>>
      BY <1>22, <1>23, <2>2
    <2>3. CASE \E port \in Ports, scheme \in {"https", "http", "wss"} :
                   \/ kv = <<"url.full", Str(Url(ex, port, scheme))>>
                   \/ kv = <<"url.full", Str(Url(api, port, scheme))>>
                   \/ kv = <<"url.full", Str(Url(internal, port, scheme))>>
                   \/ kv = <<"url.full", Str(Url(ex2, port, scheme))>>
      BY <1>24, <2>3
    <2> QED BY <1>25, <1>26, <2>1, <2>2, <2>3
  <1> QED BY <1>27 DEF ok

\* So has every span of the runs.
LEMMA AttrMapsOK ==
    \A attrs \in AttrMaps \cup OneAttr : Attrs(attrs) /\ Places(attrs)
  <1>1. ASSUME NEW attrs, \A key \in DOMAIN attrs : \E kv \in SomeAttrs : kv[1] = key /\ kv[2] = attrs[key]
        PROVE  Attrs(attrs) /\ Places(attrs)
    BY <1>1, ValuesOK DEF Attrs, Places
  <1>2. ASSUME NEW attrs \in AttrMaps PROVE Attrs(attrs) /\ Places(attrs)
    <2> DEFINE map(s) == [key \in {kv[1] : kv \in s} |-> (CHOOSE kv \in s : kv[1] = key)[2]]
               sets == {t \in kSubset(3, SomeAttrs) \cup kSubset(2, SomeAttrs) :
                          \A x, y \in t : x[1] = y[1] => x = y}
    <2>3. AttrMaps = {map(s) : s \in sets}
      BY Zenon DEF AttrMaps
    <2> HIDE DEF map
    <2>4. sets \subseteq SUBSET SomeAttrs
      BY DEF kSubset
    <2> HIDE DEF sets
    <2>5. PICK s \in SUBSET SomeAttrs : attrs = map(s)
      BY <1>2, <2>3, <2>4
    <2>1. attrs = [key \in {kv[1] : kv \in s} |-> (CHOOSE kv \in s : kv[1] = key)[2]]
      BY <2>5 DEF map
    <2>2. ASSUME NEW key \in DOMAIN attrs
          PROVE \E kv \in SomeAttrs : kv[1] = key /\ kv[2] = attrs[key]
      <3>1. \E kv \in s : kv[1] = key
        BY <2>1, <2>2
      <3> DEFINE kv == CHOOSE x \in s : x[1] = key
      <3>2. kv \in s /\ kv[1] = key
        BY <3>1
      <3>3. attrs[key] = kv[2]
        BY <2>1, <2>2
      <3> HIDE DEF kv
      <3> QED BY <3>2, <3>3
    <2> QED BY <1>1, <2>2
  <1>3. ASSUME NEW attrs \in OneAttr PROVE Attrs(attrs) /\ Places(attrs)
    <2>1. PICK kv \in SomeAttrs : attrs = [x \in {kv[1]} |-> kv[2]]
      BY <1>3, Zenon DEF OneAttr
    <2> QED BY <1>1, <2>1
  <1> QED BY <1>2, <1>3

\* The answer is what the recorder makes of the span, or of the request at its door.
SpanAsked(q, out) ==
    /\ SpanOK(q.span) /\ Places(q.span.attrs)
    /\ \E resource : /\ Attrs(resource)
                     /\ out = [obs |-> FromJSON(q.span, resource),
                               json |-> toEvent(FromJSON(q.span, resource)),
                               protobuf |-> toEvent(FromProtobuf(q.span, resource))]
DoorAsked(q, out) ==
    /\ q.body \in Bodied /\ q.cfg.allowUnauthenticated \in BOOLEAN
    /\ out = Doors(q.cfg, q.auth, q.body)
RecorderAsked ==
    /\ ask.kind = "span" => SpanAsked(ask, answer)
    /\ ask.kind = "door" => DoorAsked(ask, answer)

LEMMA SpansOK ==
    ASSUME NEW attrs \in AttrMaps \cup OneAttr, NEW id \in Ids, NEW s \in Times, NEW e \in Times,
           NEW as \in {"string", "number", "absent"}, NEW code,
           as = "number" => {s, e} \subseteq 0..MaxInt64, as = "absent" => s = 0 /\ e = 0
    PROVE  SpanOK(SpanOf(attrs, id, s, e, as, code)) /\ Places(SpanOf(attrs, id, s, e, as, code).attrs)
  <1> DEFINE span == SpanOf(attrs, id, s, e, as, code)
             other == [id EXCEPT !.bytes = "cd"]
  <1>1. /\ span = [name |-> span.name, attrs |-> span.attrs, traceId |-> span.traceId,
                   spanId |-> span.spanId, start |-> span.start, end |-> span.end,
                   status |-> span.status]
        /\ span.attrs = attrs /\ span.traceId = id /\ span.spanId = other
        /\ span.start = Int64(s, as) /\ span.end = Int64(e, as)
    BY DEF SpanOf
  <1>2. /\ Spelt(id) /\ Spelt(other) /\ id = [bytes |-> id.bytes, spelling |-> id.spelling]
        /\ other = [bytes |-> other.bytes, spelling |-> other.spelling]
    <2>1. Spelt(id) /\ id = [bytes |-> id.bytes, spelling |-> id.spelling]
      BY DEF Ids, Spelt
    <2>2. other = [bytes |-> "cd", spelling |-> id.spelling]
      BY <2>1
    <2> HIDE DEF other
    <2>3. Spelt(other) /\ other = [bytes |-> other.bytes, spelling |-> other.spelling]
      BY <2>1, <2>2 DEF Spelt
    <2> QED BY <2>1, <2>3
  <1>3. Attrs(attrs) /\ Places(attrs)
    BY AttrMapsOK
  <1>4. s \in Int /\ e \in Int
    BY Largest, SMT DEF Times
  <1> HIDE DEF span, other
  <1>5. \E t \in {"string", "number", "absent"}, a, b \in Int :
          /\ span.start = Int64(a, t) /\ span.end = Int64(b, t)
          /\ t = "number" => a \in 0..MaxInt64 /\ b \in 0..MaxInt64
          /\ t = "absent" => a = 0 /\ b = 0
    BY <1>1, <1>4
  <1>6. SpanOK(span)
    BY <1>1, <1>2, <1>3, <1>5, Zenon DEF SpanOK
  <1> QED BY <1>1, <1>3, <1>6 DEF span

\* So it stays.
LEMMA RecorderBelongs == Spec => []RecorderAsked
  <1>1. Init => RecorderAsked
    BY DEF Init, Idle, RecorderAsked
  <1>2. RecorderAsked /\ [Next]_vars => RecorderAsked'
    <2> SUFFICES ASSUME RecorderAsked, [Next]_vars PROVE RecorderAsked'
      OBVIOUS
    <2>7. /\ ask'.kind = "span" /\ SpanAsked(ask, answer)' => RecorderAsked'
          /\ ask'.kind = "door" /\ DoorAsked(ask, answer)' => RecorderAsked'
      BY DEF RecorderAsked
    <2>8. ASSUME NEW span, SpanOK(span), Places(span.attrs), NEW resource, Attrs(resource),
                 Export(span, resource)
          PROVE  RecorderAsked'
      <3>1. ask'.kind = "span" /\ ask'.span = span
        BY <2>8 DEF Export
      <3>2. answer' = [obs |-> FromJSON(span, resource), json |-> toEvent(FromJSON(span, resource)),
                       protobuf |-> toEvent(FromProtobuf(span, resource))]
        BY <2>8, Zenon DEF Export
      <3>3. SpanAsked(ask, answer)'
        BY <2>8, <3>1, <3>2 DEF SpanAsked
      <3> QED BY <2>7, <3>1, <3>3
    <2>9. \A resource \in Resources : Attrs(resource)
      <3>1. \A text : ValueOK(Str(text))
        BY DEF ValueOK, Str
      <3> HIDE DEF ValueOK
      <3>2. Attrs(<<>>)
        BY DEF Attrs
      <3>3. Attrs([x \in {"service.name"} |-> Str(Word("svc"))])
        BY <3>1 DEF Attrs
      <3>4. Attrs([x \in {"service.namespace", "agent.id"} |-> Str(Word("ns"))])
        BY <3>1 DEF Attrs
      <3> QED BY <3>2, <3>3, <3>4 DEF Resources
    <2>1. CASE ExportSpan
      <3>1. ASSUME NEW attrs \in AttrMaps, NEW resource \in Resources, NEW code \in {1, 2},
                   Export(SpanOf(attrs, [bytes |-> "ab", spelling |-> "hex"], 5000128, 6000200,
                                 "string", code), resource)
            PROVE  RecorderAsked'
        <4> DEFINE id == [bytes |-> "ab", spelling |-> "hex"]
                   span == SpanOf(attrs, id, 5000128, 6000200, "string", code)
        <4>1. id \in Ids
          BY DEF Ids
        <4>2. 5000128 \in Times /\ 6000200 \in Times
          BY SMT DEF Times
        <4> HIDE DEF id
        <4>3. SpanOK(span) /\ Places(span.attrs)
          BY <4>1, <4>2, SpansOK, SMT
        <4> HIDE DEF span
        <4>4. Export(span, resource)
          BY <3>1, SMT DEF span, id
        <4> QED BY <2>8, <2>9, <4>3, <4>4
      <3>2. ASSUME NEW attrs \in OneAttr, NEW id \in Ids, NEW s \in Times, NEW e \in Times,
                   NEW as \in {"string", "number", "absent"},
                   as = "number" => {s, e} \subseteq 0..MaxInt64,
                   as = "absent" => s = 0 /\ e = 0,
                   Export(SpanOf(attrs, id, s, e, as, 0), <<>>)
            PROVE  RecorderAsked'
        <4> DEFINE span == SpanOf(attrs, id, s, e, as, 0)
        <4>1. SpanOK(span) /\ Places(span.attrs)
          BY <3>2, SpansOK
        <4>2. <<>> \in Resources
          BY DEF Resources
        <4> HIDE DEF span
        <4> QED BY <2>8, <2>9, <3>2, <4>1, <4>2 DEF span
      <3> QED BY <2>1, <3>1, <3>2, SMT DEF ExportSpan
    <2>2. CASE Knock
      <3>1. PICK b \in Bodied, token \in {"", "s"}, open \in BOOLEAN,
                 auth \in {None} \cup [scheme : {"bearer", "basic"}, token : {"s", "t"}] :
               LET cfg == [token |-> token, allowUnauthenticated |-> open] IN
               /\ token # "" \/ open
               /\ ask' = [kind |-> "door", cfg |-> cfg, auth |-> auth, body |-> b]
               /\ answer' = Doors(cfg, auth, b)
        BY <2>2, ZenonT(30) DEF Knock
      <3> DEFINE cfg == [token |-> token, allowUnauthenticated |-> open]
      <3>2. cfg.allowUnauthenticated \in BOOLEAN
        OBVIOUS
      <3> HIDE DEF cfg
      <3>3. /\ ask' = [kind |-> "door", cfg |-> cfg, auth |-> auth, body |-> b]
            /\ answer' = Doors(cfg, auth, b)
        BY <3>1 DEF cfg
      <3>4. ask'.kind = "door" /\ ask'.cfg = cfg /\ ask'.auth = auth /\ ask'.body = b
        BY <3>3
      <3>5. DoorAsked(ask, answer)'
        BY <3>2, <3>3, <3>4 DEF DoorAsked
      <3> QED BY <2>7, <3>4, <3>5
    <2>4. CASE ask'.kind \notin {"span", "door"}
      BY <2>4 DEF RecorderAsked
    <2>5. CASE UNCHANGED vars
      <3>1. ask' = ask /\ answer' = answer
        BY <2>5 DEF vars
      <3> QED BY <3>1 DEF RecorderAsked
    <2>6. Next => ExportSpan \/ Knock \/ ask'.kind \notin {"span", "door"}
      BY Kinds, MoreKinds DEF Next
    <2> QED BY <2>1, <2>2, <2>4, <2>5, <2>6
  <1> QED BY <1>1, <1>2, PTL DEF Spec

\* Whatever the span, its resource and the request at the door: the two encodings become
\* the same event, up to the nearest float64, and every way in asks for the same
\* (internal/recorder: receiver.go, map.go, otlp.go, proto.go).
THEOREM EncodingsAgreeHolds == Spec => []EncodingsAgree
  <1>1. RecorderAsked => EncodingsAgree
    <2> SUFFICES ASSUME RecorderAsked PROVE EncodingsAgree
      OBVIOUS
    <2>1. ASSUME ask.kind = "span"
          PROVE Agreeing(ask.span.start.as = "number", answer.json, answer.protobuf)
      <3>1. SpanAsked(ask, answer)
        BY <2>1 DEF RecorderAsked
      <3>2. PICK resource : /\ Attrs(resource)
                            /\ answer = [obs |-> FromJSON(ask.span, resource),
                                         json |-> toEvent(FromJSON(ask.span, resource)),
                                         protobuf |-> toEvent(FromProtobuf(ask.span, resource))]
        BY <3>1, Zenon DEF SpanAsked
      <3>3. /\ answer.json = toEvent(FromJSON(ask.span, resource))
            /\ answer.protobuf = toEvent(FromProtobuf(ask.span, resource))
        BY <3>2
      <3>4. SpanOK(ask.span)
        BY <3>1 DEF SpanAsked
      <3> QED BY <3>2, <3>3, <3>4, SameSpan
    <2>2. ASSUME ask.kind = "door"
          PROVE  /\ answer.json = answer.protobuf /\ answer.json = answer.untyped
                 /\ answer.grpc <=> answer.json # 401
                 /\ answer.text # 200
                 /\ answer.json = 200 =>
                        ask.body.wire <= 10 /\ (ask.body.encoding = "gzip" => ask.body.unpacked <= 10)
      <3>1. /\ ask.body \in Bodied /\ ask.cfg.allowUnauthenticated \in BOOLEAN
            /\ answer = Doors(ask.cfg, ask.auth, ask.body)
        BY <2>2 DEF RecorderAsked, DoorAsked
      <3> QED BY <3>1, SameDoor
    <2> QED BY <2>1, <2>2, Zenon DEF EncodingsAgree, Agreeing, Timeless
  <1> QED BY <1>1, RecorderBelongs, PTL

=============================================================================
