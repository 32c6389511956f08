--------------------------- MODULE VerifierProofs ---------------------------
(***************************************************************************)
(* What the verifier, the independent verifier and the bundles promise,    *)
(* for every history, every sequence of edits and every set of events.     *)
(*                                                                         *)
(* The argument has three parts.  The lines a scan found nothing wrong     *)
(* with are a chain (JoinedTo); two chains with the same head hold the     *)
(* same records (SameHead), because a hash determines what it covers; and  *)
(* a checkpoint that verifies is one of the history's, because no edit can *)
(* sign.                                                                   *)
(***************************************************************************)
EXTENDS Bundle, TLAPS, WellFoundedInduction, FiniteSetTheorems

-----------------------------------------------------------------------------
(* Lines *)

\* A sequence is a sequence over its own elements.
LEMMA OwnLines ==
    ASSUME NEW S, NEW s \in Seq(S)
    PROVE  s \in Seq(LinesOf(s))
  BY DEF LinesOf

\* A non-empty set of line numbers has a largest one.
LEMMA LargestIndex ==
    ASSUME NEW n \in Nat, NEW T, T \subseteq 0..n, T # {}
    PROVE  \E k \in T : \A j \in T : j <= k
  <1> DEFINE U == {n - k : k \in T}
  <1>1. U \subseteq Nat /\ U # {}
    <2>1. \A k \in T : n - k \in Nat
      OBVIOUS
    <2>2. PICK k \in T : TRUE
      OBVIOUS
    <2>3. n - k \in U
      OBVIOUS
    <2> QED BY <2>1, <2>3
  <1>2. PICK x \in U : \A y \in U : ~(<<y, x>> \in OpToRel(<, Nat))
    <2> HIDE DEF U
    <2> QED BY <1>1, NatLessThanWellFounded, WFMin
  <1>3. \A y \in U : x <= y
    <2> SUFFICES ASSUME NEW y \in U PROVE ~(y < x)
      BY <1>1
    <2>1. <<y, x>> \notin OpToRel(<, Nat) /\ y \in Nat /\ x \in Nat
      BY <1>1, <1>2
    <2> QED BY <2>1 DEF OpToRel
  <1>4. PICK k \in T : x = n - k
    OBVIOUS
  <1>5. \A j \in T : n - k <= n - j
    BY <1>3, <1>4
  <1>6. ASSUME NEW j \in T PROVE j <= k
    <2>1. k \in Nat /\ j \in Nat
      OBVIOUS
    <2> QED BY <1>5, <2>1
  <1> HIDE DEF U
  <1> QED BY <1>6

\* The prefix a crash leaves.
LEMMA Prefix ==
    ASSUME NEW S, NEW s \in Seq(S), NEW n \in 0..Len(s)
    PROVE  /\ SubSeq(s, 1, n) \in Seq(S)
           /\ Len(SubSeq(s, 1, n)) = n
           /\ \A k \in 1..n : SubSeq(s, 1, n)[k] = s[k]
           /\ LinesOf(SubSeq(s, 1, n)) \subseteq LinesOf(s)
  <1>1. /\ SubSeq(s, 1, n) \in Seq(S)
        /\ Len(SubSeq(s, 1, n)) = n
        /\ \A k \in 1..n : SubSeq(s, 1, n)[k] = s[k]
    OBVIOUS
  <1> QED BY <1>1 DEF LinesOf

\* A non-empty set of numbers has a least one.
LEMMA LeastNumber ==
    ASSUME NEW T, T \subseteq Nat, T # {}
    PROVE  \E k \in T : \A j \in T : k <= j
  <1>1. PICK k \in T : \A j \in T : ~(<<j, k>> \in OpToRel(<, Nat))
    BY NatLessThanWellFounded, WFMin
  <1>2. ASSUME NEW j \in T PROVE k <= j
    <2>1. <<j, k>> \notin OpToRel(<, Nat) /\ k \in Nat /\ j \in Nat
      BY <1>1
    <2> QED BY <2>1 DEF OpToRel
  <1> QED BY <1>2

(* Lines and chains *)

\* A record line with its five fields.
RecordLine(l) ==
    /\ IsRec(l)
    /\ l = Line(l.v, [type |-> "record", seq |-> l.body.seq, ev |-> l.body.ev,
                      prevHash |-> l.body.prevHash, hash |-> l.body.hash])
    /\ l.body.seq \in Nat

CheckpointLine(l) == l = Line(l.v, l.body) /\ IsCp(l) /\ l.body.seq \in Nat

\* The head a reader has after n lines of a chain.
HeadSeq(s, n) == IF n = 0 THEN 0 ELSE s[n].body.seq
HeadHash(s, n) == IF n = 0 THEN GenesisHash ELSE s[n].body.hash

\* Line n continues the lines above it, in a version the verifiers know.
JoinsRecord(s, n) ==
    /\ RecordLine(s[n]) /\ s[n].v \in {"v1", "v2"}
    /\ s[n].body.seq = HeadSeq(s, n - 1) + 1
    /\ s[n].body.prevHash = HeadHash(s, n - 1)
    /\ s[n].body.hash = RecordHash(s[n])
JoinsCheckpoint(s, n) ==
    /\ CheckpointLine(s[n])
    /\ s[n].body.seq = HeadSeq(s, n - 1)
    /\ s[n].body.hash = HeadHash(s, n - 1)
JoinedTo(s, k) == \A n \in 1..k : JoinsRecord(s, n) \/ JoinsCheckpoint(s, n)

RecordsTo(s, k) == {s[n] : n \in {m \in 1..k : IsRec(s[m])}}

\* A line is a record or a checkpoint, not both.
LEMMA OneKind ==
    ASSUME NEW l
    PROVE  /\ RecordLine(l) => IsRec(l) /\ ~IsCp(l)
           /\ CheckpointLine(l) => IsCp(l) /\ ~IsRec(l)
  BY DEF RecordLine, CheckpointLine, IsRec, IsCp, Line

\* One line of a chain moves the head by one record or not at all.
LEMMA HeadStep ==
    ASSUME NEW s, NEW k \in Nat, JoinedTo(s, k), NEW n \in 1..k
    PROVE  /\ HeadSeq(s, n) \in Nat /\ HeadSeq(s, n - 1) \in Nat
           /\ IsRec(s[n]) \/ IsCp(s[n])
           /\ IsRec(s[n]) => /\ JoinsRecord(s, n)
                             /\ HeadSeq(s, n) = HeadSeq(s, n - 1) + 1
           /\ ~IsRec(s[n]) => /\ JoinsCheckpoint(s, n)
                              /\ HeadSeq(s, n) = HeadSeq(s, n - 1)
                              /\ HeadHash(s, n) = HeadHash(s, n - 1)
  <1>1. JoinsRecord(s, n) \/ JoinsCheckpoint(s, n)
    BY DEF JoinedTo
  <1>2. n > 1 => JoinsRecord(s, n - 1) \/ JoinsCheckpoint(s, n - 1)
    BY DEF JoinedTo
  <1>3. HeadSeq(s, n) \in Nat /\ HeadSeq(s, n - 1) \in Nat
    BY <1>1, <1>2 DEF HeadSeq, JoinsRecord, JoinsCheckpoint, RecordLine, CheckpointLine
  <1>4. CASE JoinsRecord(s, n)
    <2>1. IsRec(s[n])
      BY <1>4, OneKind DEF JoinsRecord
    <2>2. HeadSeq(s, n) = HeadSeq(s, n - 1) + 1
      BY <1>4 DEF JoinsRecord, HeadSeq
    <2> QED BY <1>3, <1>4, <2>1, <2>2
  <1>5. CASE JoinsCheckpoint(s, n)
    <2>1. IsCp(s[n]) /\ ~IsRec(s[n])
      BY <1>5, OneKind DEF JoinsCheckpoint
    <2>2. HeadSeq(s, n) = HeadSeq(s, n - 1) /\ HeadHash(s, n) = HeadHash(s, n - 1)
      BY <1>5 DEF JoinsCheckpoint, HeadSeq, HeadHash
    <2> QED BY <1>3, <1>5, <2>1, <2>2
  <1> QED BY <1>1, <1>4, <1>5

\* The head is a number at every line.
LEMMA HeadNat ==
    ASSUME NEW s, NEW k \in Nat, JoinedTo(s, k), NEW n \in 0..k
    PROVE  HeadSeq(s, n) \in Nat
  <1>1. CASE n = 0
    BY <1>1 DEF HeadSeq
  <1>2. CASE n # 0
    BY <1>2, HeadStep
  <1> QED BY <1>1, <1>2

\* Sequences never fall along a chain; where they stay, so does the hash.
LEMMA HeadGrows ==
    ASSUME NEW s, NEW k \in Nat, JoinedTo(s, k), NEW a \in 0..k, NEW b \in a..k
    PROVE  /\ HeadSeq(s, a) <= HeadSeq(s, b)
           /\ HeadSeq(s, a) = HeadSeq(s, b) => HeadHash(s, a) = HeadHash(s, b)
  <1> DEFINE Good(n) == /\ HeadSeq(s, a) <= HeadSeq(s, n)
                        /\ HeadSeq(s, a) = HeadSeq(s, n) => HeadHash(s, a) = HeadHash(s, n)
             T == {n \in a..k : ~Good(n)}
  <1> SUFFICES ASSUME T # {} PROVE FALSE
    OBVIOUS
  <1>1. T \subseteq Nat
    OBVIOUS
  <1>2. PICK n \in T : \A o \in T : n <= o
    <2> HIDE DEF T
    <2> QED BY <1>1, LeastNumber
  <1>3. n \in a..k /\ HeadSeq(s, a) \in Nat /\ HeadSeq(s, n) \in Nat
    BY HeadNat
  <1>4. n # a
    BY <1>2, <1>3
  <1>5. n - 1 \in a..k /\ n \in 1..k /\ n - 1 \notin T
    BY <1>2, <1>3, <1>4
  <1>6. Good(n - 1)
    BY <1>5
  <1>7. ~Good(n)
    BY <1>2
  <1>8. \/ HeadSeq(s, n) = HeadSeq(s, n - 1) + 1
        \/ HeadSeq(s, n) = HeadSeq(s, n - 1) /\ HeadHash(s, n) = HeadHash(s, n - 1)
    <2> HIDE DEF T, Good
    <2> QED BY <1>5, HeadStep
  <1>9. HeadSeq(s, n - 1) \in Nat
    <2> HIDE DEF T, Good
    <2> QED BY <1>5, HeadNat
  <1> QED BY <1>3, <1>6, <1>7, <1>8, <1>9

\* A record's sequence is higher than every line's above it.
LEMMA RecordsGrow ==
    ASSUME NEW s, NEW k \in Nat, JoinedTo(s, k), NEW a \in 0..k, NEW b \in 1..k, a < b,
           IsRec(s[b])
    PROVE  HeadSeq(s, a) < s[b].body.seq
  <1>1. HeadSeq(s, b) = HeadSeq(s, b - 1) + 1 /\ HeadSeq(s, b - 1) \in Nat
    BY HeadStep
  <1>2. HeadSeq(s, a) <= HeadSeq(s, b - 1) /\ HeadSeq(s, a) \in Nat
    BY HeadGrows, HeadNat
  <1>3. HeadSeq(s, b) = s[b].body.seq
    BY DEF HeadSeq
  <1> QED BY <1>1, <1>2, <1>3

\* Every number up to the head's is that of a record.
LEMMA ChainComplete ==
    ASSUME NEW s, NEW k \in Nat, JoinedTo(s, k), NEW a \in 0..k,
           NEW q \in 1..HeadSeq(s, a)
    PROVE  \E j \in 1..a : IsRec(s[j]) /\ s[j].body.seq = q
  <1> DEFINE T == {m \in 0..a : HeadSeq(s, m) >= q}
  <1>1. T \subseteq Nat /\ a \in T
    <2>1. HeadSeq(s, a) \in Nat
      BY HeadNat
    <2> QED BY <2>1
  <1>2. PICK m \in T : \A o \in T : m <= o
    <2> HIDE DEF T
    <2> QED BY <1>1, LeastNumber
  <1>3. m \in 0..a /\ HeadSeq(s, m) >= q /\ HeadSeq(s, m) \in Nat
    BY <1>2, HeadNat
  <1>4. m # 0
    BY <1>3 DEF HeadSeq
  <1>5. m - 1 \in 0..a /\ m \in 1..k /\ ~(m <= m - 1)
    BY <1>3, <1>4
  <1>6. m - 1 \notin T
    BY <1>2, <1>5
  <1>7. ~(HeadSeq(s, m - 1) >= q) /\ HeadSeq(s, m - 1) \in Nat
    <2>1. HeadSeq(s, m - 1) \in Nat
      <3> HIDE DEF T
      <3> QED BY <1>5, HeadNat
    <2> QED BY <1>5, <1>6, <2>1
  <1>8. /\ IsRec(s[m]) => HeadSeq(s, m) = HeadSeq(s, m - 1) + 1
        /\ ~IsRec(s[m]) => HeadSeq(s, m) = HeadSeq(s, m - 1)
    <2> HIDE DEF T
    <2> QED BY <1>5, HeadStep
  <1>9. IsRec(s[m]) /\ HeadSeq(s, m) = q
    BY <1>3, <1>7, <1>8
  <1>10. s[m].body.seq = q
    BY <1>4, <1>9 DEF HeadSeq
  <1> QED BY <1>3, <1>4, <1>9, <1>10

\* The records of a chain are in the order of their sequences.
LEMMA ChainInOrder ==
    ASSUME NEW s, Len(s) \in Nat, JoinedTo(s, Len(s))
    PROVE  InOrder(s)
  <1> SUFFICES ASSUME NEW m \in 1..Len(s), NEW n \in 1..Len(s), m < n, IsRec(s[m]), IsRec(s[n])
               PROVE  s[m].body.seq < s[n].body.seq
    BY DEF InOrder
  <1>1. HeadSeq(s, m) < s[n].body.seq
    BY RecordsGrow
  <1> QED BY <1>1 DEF HeadSeq

-----------------------------------------------------------------------------
(* A head determines the records below it *)

\* A record's hash is not the one a chain starts from.
LEMMA HashNotGenesis ==
    ASSUME NEW l
    PROVE  RecordHash(l) # GenesisHash
  BY DEF RecordHash, GenesisHash, ComputeHash

\* The hash of a v2 record determines it, against a record of any version.
LEMMA HashBinds ==
    ASSUME NEW l, NEW m, RecordLine(l), RecordLine(m), m.v = "v2",
           RecordHash(l) = RecordHash(m), l.body.hash = m.body.hash
    PROVE  l = m
  <1>1. RecordHash(m) = <<m.body.seq, m.body.prevHash, m.body.ev>>
    BY DEF RecordHash, ComputeHash
  <1>2. l.v = "v2"
    <2>1. CASE l.v = "v1"
      <3>1. RecordHash(l) = <<"v1", l.body.seq, l.body.prevHash, l.body.ev[1]>>
        BY <2>1 DEF RecordHash
      <3>2. 4 \in DOMAIN RecordHash(l) /\ 4 \notin DOMAIN RecordHash(m)
        BY <1>1, <3>1
      <3> QED BY <3>2
    <2>2. CASE l.v \notin {"v1", "v2"}
      <3>1. RecordHash(l) = <<l.v, ComputeHash(l.body.seq, l.body.prevHash, l.body.ev)>>
        BY <2>2 DEF RecordHash
      <3>2. 3 \notin DOMAIN RecordHash(l) /\ 3 \in DOMAIN RecordHash(m)
        BY <1>1, <3>1
      <3> QED BY <3>2
    <2> QED BY <2>1, <2>2
  <1>3. RecordHash(l) = <<l.body.seq, l.body.prevHash, l.body.ev>>
    BY <1>2 DEF RecordHash, ComputeHash
  <1>4. /\ l.body.seq = m.body.seq /\ l.body.prevHash = m.body.prevHash
        /\ l.body.ev = m.body.ev
    BY <1>1, <1>3
  <1> QED BY <1>2, <1>4 DEF RecordLine

\* One more line adds its record, if it is one.
LEMMA RecordsToStep ==
    ASSUME NEW s, NEW n \in Nat \ {0}
    PROVE  /\ IsRec(s[n]) => RecordsTo(s, n) = RecordsTo(s, n - 1) \cup {s[n]}
           /\ ~IsRec(s[n]) => RecordsTo(s, n) = RecordsTo(s, n - 1)
  <1>1. \A m : m \in 1..n <=> m \in 1..(n - 1) \/ m = n
    OBVIOUS
  <1> QED BY <1>1 DEF RecordsTo

\* Two chains with the same head have the same records below it: the hash commits
\* to the record, and the record to the hash before it.
LEMMA SameHead ==
    ASSUME NEW s, NEW t, NEW p \in Nat, NEW q \in Nat, JoinedTo(s, p), JoinedTo(t, q),
           \A n \in 1..q : t[n].v = "v2", HeadHash(s, p) = HeadHash(t, q)
    PROVE  RecordsTo(s, p) = RecordsTo(t, q) /\ HeadSeq(s, p) = HeadSeq(t, q)
  <1> DEFINE Bad(a, b) == /\ HeadHash(s, a) = HeadHash(t, b)
                          /\ ~(/\ RecordsTo(s, a) = RecordsTo(t, b)
                               /\ HeadSeq(s, a) = HeadSeq(t, b))
             T == {n \in Nat : \E a \in 0..p, b \in 0..q : n = a + b /\ Bad(a, b)}
  <1> SUFFICES ASSUME Bad(p, q) PROVE FALSE
    OBVIOUS
  <1>1. T \subseteq Nat /\ p + q \in T
    OBVIOUS
  <1>2. PICK n \in T : \A o \in T : n <= o
    <2> HIDE DEF T
    <2> QED BY <1>1, LeastNumber
  <1>3. PICK a \in 0..p, b \in 0..q : n = a + b /\ Bad(a, b)
    BY <1>2
  <1>4. ASSUME NEW c \in 0..p, NEW d \in 0..q, c + d < a + b PROVE ~Bad(c, d)
    <2>1. ASSUME Bad(c, d) PROVE FALSE
      <3>1. c + d \in T
        BY <2>1
      <3>2. n <= c + d /\ n = a + b
        BY <1>2, <1>3, <3>1
      <3> HIDE DEF T, Bad
      <3> QED BY <1>4, <3>2
    <2> QED BY <2>1
  <1> HIDE DEF T
  <1>5. ~(a > 0 /\ ~IsRec(s[a]))
    <2> SUFFICES ASSUME a > 0, ~IsRec(s[a]) PROVE FALSE
      OBVIOUS
    <2>1. HeadSeq(s, a) = HeadSeq(s, a - 1) /\ HeadHash(s, a) = HeadHash(s, a - 1)
      BY HeadStep
    <2>2. RecordsTo(s, a) = RecordsTo(s, a - 1)
      BY RecordsToStep
    <2>3. ~Bad(a - 1, b)
      <3> HIDE DEF Bad
      <3> QED BY <1>4
    <2> QED BY <1>3, <2>1, <2>2, <2>3
  <1>6. ~(b > 0 /\ ~IsRec(t[b]))
    <2> SUFFICES ASSUME b > 0, ~IsRec(t[b]) PROVE FALSE
      OBVIOUS
    <2>1. HeadSeq(t, b) = HeadSeq(t, b - 1) /\ HeadHash(t, b) = HeadHash(t, b - 1)
      BY HeadStep
    <2>2. RecordsTo(t, b) = RecordsTo(t, b - 1)
      BY RecordsToStep
    <2>3. ~Bad(a, b - 1)
      <3> HIDE DEF Bad
      <3> QED BY <1>4
    <2> QED BY <1>3, <2>1, <2>2, <2>3
  <1>7. a > 0 => JoinsRecord(s, a) /\ HeadHash(s, a) = RecordHash(s[a])
    BY <1>5, HeadStep DEF JoinsRecord, HeadHash
  <1>8. b > 0 => JoinsRecord(t, b) /\ HeadHash(t, b) = RecordHash(t[b])
    BY <1>6, HeadStep DEF JoinsRecord, HeadHash
  <1>9. HeadHash(s, a) = HeadHash(t, b)
    BY <1>3
  <1>10. a > 0 <=> b > 0
    <2>1. a = 0 => HeadHash(s, a) = GenesisHash
      BY DEF HeadHash
    <2>2. b = 0 => HeadHash(t, b) = GenesisHash
      BY DEF HeadHash
    <2> QED BY <1>7, <1>8, <1>9, <2>1, <2>2, HashNotGenesis
  <1>11. CASE a = 0
    <2>1. b = 0
      BY <1>10, <1>11
    <2>2. RecordsTo(s, a) = RecordsTo(t, b) /\ HeadSeq(s, a) = HeadSeq(t, b)
      BY <1>11, <2>1 DEF RecordsTo, HeadSeq
    <2> QED BY <1>3, <2>2
  <1>12. CASE a > 0
    <2>1. b > 0 /\ JoinsRecord(s, a) /\ JoinsRecord(t, b) /\ RecordHash(s[a]) = RecordHash(t[b])
      BY <1>7, <1>8, <1>9, <1>10, <1>12
    <2>2. t[b].v = "v2" /\ s[a].body.hash = t[b].body.hash /\ RecordLine(s[a]) /\ RecordLine(t[b])
      BY <2>1 DEF JoinsRecord
    <2>3. s[a] = t[b]
      BY <2>1, <2>2, HashBinds
    <2>4. HeadHash(s, a - 1) = HeadHash(t, b - 1)
      BY <2>1, <2>3 DEF JoinsRecord
    <2>5. ~Bad(a - 1, b - 1)
      <3> HIDE DEF Bad
      <3> QED BY <1>4, <1>12, <2>1
    <2>6. RecordsTo(s, a - 1) = RecordsTo(t, b - 1)
      BY <2>4, <2>5
    <2>7. RecordsTo(s, a) = RecordsTo(t, b)
      <3> HIDE DEF Bad
      <3>1. RecordsTo(s, a) = RecordsTo(s, a - 1) \cup {s[a]}
        BY <1>5, <1>12, RecordsToStep
      <3>2. RecordsTo(t, b) = RecordsTo(t, b - 1) \cup {t[b]}
        BY <1>6, <2>1, RecordsToStep
      <3> QED BY <2>3, <2>6, <3>1, <3>2
    <2>8. HeadSeq(s, a) = HeadSeq(t, b)
      BY <1>12, <2>1, <2>3 DEF HeadSeq
    <2> QED BY <1>3, <2>7, <2>8
  <1> QED BY <1>11, <1>12

\* In a chain the records up to the sequence at a line are those down to it.
LEMMA ThroughIsTo ==
    ASSUME NEW s, Len(s) \in Nat, JoinedTo(s, Len(s)), NEW a \in 0..Len(s)
    PROVE  RecordsThrough(s, HeadSeq(s, a)) = RecordsTo(s, a)
  <1>1. ASSUME NEW n \in 1..Len(s), IsRec(s[n])
        PROVE  s[n].body.seq <= HeadSeq(s, a) <=> n <= a
    <2>1. HeadSeq(s, n) = s[n].body.seq /\ HeadSeq(s, n) \in Nat /\ HeadSeq(s, a) \in Nat
      <3>1. HeadSeq(s, n) = s[n].body.seq
        BY DEF HeadSeq
      <3> QED BY <3>1, HeadNat
    <2>2. CASE n <= a
      <3>1. HeadSeq(s, n) <= HeadSeq(s, a)
        BY <2>2, HeadGrows
      <3> QED BY <2>1, <2>2, <3>1
    <2>3. CASE a < n
      <3>1. HeadSeq(s, a) < s[n].body.seq
        BY <1>1, <2>3, RecordsGrow
      <3> QED BY <2>1, <2>3, <3>1
    <2> QED BY <2>2, <2>3
  <1>2. RecordsThrough(s, HeadSeq(s, a)) \subseteq RecordsTo(s, a)
    BY <1>1 DEF RecordsThrough, LinesOf, RecordsTo
  <1>3. RecordsTo(s, a) \subseteq RecordsThrough(s, HeadSeq(s, a))
    BY <1>1 DEF RecordsThrough, LinesOf, RecordsTo
  <1> QED BY <1>2, <1>3

\* A log and a history that are chains and share the head of a line agree on all
\* records up to its sequence.
LEMMA SharedHead ==
    ASSUME NEW s, NEW t, Len(s) \in Nat, Len(t) \in Nat,
           JoinedTo(s, Len(s)), JoinedTo(t, Len(t)), \A n \in 1..Len(t) : t[n].v = "v2",
           NEW a \in 0..Len(s), NEW b \in 0..Len(t), HeadHash(s, a) = HeadHash(t, b)
    PROVE  /\ HeadSeq(s, a) = HeadSeq(t, b)
           /\ RecordsThrough(s, HeadSeq(s, a)) = RecordsThrough(t, HeadSeq(s, a))
  <1>1. JoinedTo(s, a) /\ JoinedTo(t, b) /\ a \in Nat /\ b \in Nat
    BY DEF JoinedTo
  <1>2. \A n \in 1..b : t[n].v = "v2"
    OBVIOUS
  <1>3. RecordsTo(s, a) = RecordsTo(t, b) /\ HeadSeq(s, a) = HeadSeq(t, b)
    BY <1>1, <1>2, SameHead
  <1> QED BY <1>3, ThroughIsTo

-----------------------------------------------------------------------------
(* The recursive functions of the model are defined *)

\* The largest of a set of line numbers.
LEMMA MaxIsLargest ==
    ASSUME NEW n \in Nat, NEW I, I \subseteq 0..n, I # {}
    PROVE  Max(I) \in I /\ \A m \in I : m <= Max(I)
  <1>1. \E m \in I : \A o \in I : m >= o
    <2>1. PICK m \in I : \A o \in I : o <= m
      BY LargestIndex
    <2>2. \A o \in I : o \in 0..n
      OBVIOUS
    <2> QED BY <2>1, <2>2
  <1>2. Max(I) \in I /\ \A o \in I : Max(I) >= o
    BY <1>1 DEF Max
  <1>3. \A o \in I : o \in 0..n
    OBVIOUS
  <1> QED BY <1>2, <1>3

\* Line j of a rewrite, given the lines above it.
RewriteAt(s, k, v, ev, g, j) ==
    IF j < k \/ ~IsRec(s[j]) THEN s[j]
    ELSE LET above == RecordsAbove(s, j)
             prev == IF above = {} THEN GenesisHash ELSE g[Max(above)].body.hash
         IN Relinked(IF j = k THEN v ELSE s[j].v,
                     IF j = k THEN ev ELSE s[j].body.ev, Cardinality(above) + 1, prev)

\* It looks at nothing but the lines above.
LEMMA RewriteLocal ==
    ASSUME NEW s, NEW k, NEW v, NEW ev, NEW g, NEW h, NEW j \in Nat \ {0},
           \A m \in 1..(j - 1) : g[m] = h[m]
    PROVE  RewriteAt(s, k, v, ev, g, j) = RewriteAt(s, k, v, ev, h, j)
  <1> DEFINE above == RecordsAbove(s, j)
  <1>1. above \subseteq 1..(j - 1)
    BY DEF RecordsAbove
  <1>2. above # {} => Max(above) \in 1..(j - 1)
    <2> HIDE DEF above
    <2>1. above \subseteq 0..j /\ j \in Nat
      BY <1>1
    <2> QED BY <1>1, <2>1, MaxIsLargest
  <1>3. above # {} => g[Max(above)] = h[Max(above)]
    BY <1>2
  <1> QED BY <1>3 DEF RewriteAt

\* g is a rewrite of the first N lines.
IsRewrite(s, k, v, ev, N, g) == g = [j \in 1..N |-> RewriteAt(s, k, v, ev, g, j)]

\* There is a rewrite of every length.
LEMMA RewriteDefined ==
    ASSUME NEW s, NEW k, NEW v, NEW ev, NEW N \in Nat
    PROVE  \E g : IsRewrite(s, k, v, ev, N, g)
  <1> DEFINE T == {n \in Nat : ~\E g : g = [j \in 1..n |-> RewriteAt(s, k, v, ev, g, j)]}
  <1> SUFFICES ASSUME N \in T PROVE FALSE
    BY DEF IsRewrite
  <1>1. T \subseteq Nat /\ T # {}
    OBVIOUS
  <1>2. PICK n \in T : \A o \in T : n <= o
    <2> HIDE DEF T
    <2> QED BY <1>1, LeastNumber
  <1>3. n # 0
    <2>1. SUFFICES ASSUME n = 0 PROVE FALSE
      OBVIOUS
    <2> DEFINE e == [j \in 1..0 |-> s]
    <2>2. e = [j \in 1..n |-> RewriteAt(s, k, v, ev, e, j)]
      BY <2>1
    <2> QED BY <1>2, <2>2
  <1>4. n \in Nat /\ n - 1 \in Nat /\ n - 1 \notin T
    BY <1>2, <1>3
  <1>5. PICK g : g = [j \in 1..(n - 1) |-> RewriteAt(s, k, v, ev, g, j)]
    BY <1>4
  <1> DEFINE h == [j \in 1..n |-> IF j < n THEN g[j] ELSE RewriteAt(s, k, v, ev, g, j)]
  <1>6. \A m \in 1..(n - 1) : g[m] = h[m] /\ g[m] = RewriteAt(s, k, v, ev, g, m)
    <2> HIDE DEF T
    <2>1. \A m \in 1..(n - 1) : m \in 1..n /\ m < n
      BY <1>4
    <2>2. \A m \in 1..(n - 1) : g[m] = RewriteAt(s, k, v, ev, g, m)
      BY <1>5
    <2> QED BY <2>1, <2>2
  <1>7. ASSUME NEW j \in 1..n PROVE h[j] = RewriteAt(s, k, v, ev, h, j)
    <2>1. h[j] = RewriteAt(s, k, v, ev, g, j)
      <3>1. CASE j = n
        BY <1>4, <3>1
      <3>2. CASE j # n
        <4>1. j \in 1..(n - 1) /\ j < n
          BY <1>4, <3>2
        <4>2. g[j] = RewriteAt(s, k, v, ev, g, j)
          BY <1>6, <4>1
        <4>3. h[j] = g[j]
          BY <4>1
        <4> QED BY <4>2, <4>3
      <3> QED BY <3>1, <3>2
    <2>2. j \in Nat \ {0} /\ \A m \in 1..(j - 1) : g[m] = h[m]
      <3> HIDE DEF h, T
      <3> QED BY <1>4, <1>6
    <2>3. RewriteAt(s, k, v, ev, g, j) = RewriteAt(s, k, v, ev, h, j)
      <3> HIDE DEF h, T
      <3> QED BY <2>2, RewriteLocal
    <2> QED BY <2>1, <2>3
  <1>8. h = [j \in 1..n |-> h[j]]
    OBVIOUS
  <1>9. h = [j \in 1..n |-> RewriteAt(s, k, v, ev, h, j)]
    <2> HIDE DEF h, T
    <2> QED BY <1>7, <1>8
  <1> HIDE DEF h
  <1> QED BY <1>2, <1>9

\* What a rewrite is, line by line.
LEMMA RewrittenLines ==
    ASSUME NEW s, NEW k, NEW v, NEW ev, Len(s) \in Nat
    PROVE  Rewritten(s, k, v, ev) =
             [j \in 1..Len(s) |-> RewriteAt(s, k, v, ev, Rewritten(s, k, v, ev), j)]
  <1>1. Rewritten(s, k, v, ev) =
          CHOOSE g : g = [j \in 1..Len(s) |-> RewriteAt(s, k, v, ev, g, j)]
    BY DEF Rewritten, RewriteAt
  <1>2. \E g : g = [j \in 1..Len(s) |-> RewriteAt(s, k, v, ev, g, j)]
    <2>1. \E g : IsRewrite(s, k, v, ev, Len(s), g)
      BY RewriteDefined
    <2> QED BY <2>1 DEF IsRewrite
  <1> QED BY <1>1, <1>2

\* Step n of the independent verifier's loop, given what it has gathered.
ScanAt(s, key, g, n) == IF n = 0 THEN Fresh ELSE classify(g[n - 1], s[n], key)

\* There is such a loop of every length.
LEMMA ScanDefined ==
    ASSUME NEW s, NEW key, NEW N \in Nat
    PROVE  \E g : g = [n \in 0..N |-> ScanAt(s, key, g, n)]
  <1> DEFINE T == {m \in Nat : ~\E g : g = [n \in 0..m |-> ScanAt(s, key, g, n)]}
  <1> SUFFICES ASSUME N \in T PROVE FALSE
    OBVIOUS
  <1>1. T \subseteq Nat /\ T # {}
    OBVIOUS
  <1>2. PICK m \in T : \A o \in T : m <= o
    <2> HIDE DEF T
    <2> QED BY <1>1, LeastNumber
  <1>3. m # 0
    <2>1. SUFFICES ASSUME m = 0 PROVE FALSE
      OBVIOUS
    <2> DEFINE e == [n \in 0..0 |-> Fresh]
    <2>2. \A n \in 0..0 : ScanAt(s, key, e, n) = Fresh
      BY DEF ScanAt
    <2>3. e = [n \in 0..m |-> ScanAt(s, key, e, n)]
      BY <2>1, <2>2
    <2> QED BY <1>2, <2>3
  <1>4. m \in Nat /\ m - 1 \in Nat /\ m - 1 \notin T
    BY <1>2, <1>3
  <1>5. PICK g : g = [n \in 0..(m - 1) |-> ScanAt(s, key, g, n)]
    BY <1>4
  <1> DEFINE h == [n \in 0..m |-> IF n < m THEN g[n] ELSE ScanAt(s, key, g, n)]
  <1>6. \A n \in 0..(m - 1) : g[n] = h[n] /\ g[n] = ScanAt(s, key, g, n)
    <2> HIDE DEF T
    <2>1. \A n \in 0..(m - 1) : n \in 0..m /\ n < m
      BY <1>4
    <2>2. \A n \in 0..(m - 1) : g[n] = ScanAt(s, key, g, n)
      BY <1>5
    <2> QED BY <2>1, <2>2
  <1>7. ASSUME NEW n \in 0..m PROVE h[n] = ScanAt(s, key, h, n)
    <2>1. h[n] = ScanAt(s, key, g, n)
      <3>1. CASE n = m
        BY <1>4, <3>1
      <3>2. CASE n # m
        <4>1. n \in 0..(m - 1) /\ n < m
          BY <1>4, <3>2
        <4>2. g[n] = ScanAt(s, key, g, n)
          BY <1>6, <4>1
        <4>3. h[n] = g[n]
          BY <4>1
        <4> QED BY <4>2, <4>3
      <3> QED BY <3>1, <3>2
    <2>2. n # 0 => g[n - 1] = h[n - 1]
      <3> HIDE DEF h, T
      <3> QED BY <1>4, <1>6
    <2>3. ScanAt(s, key, g, n) = ScanAt(s, key, h, n)
      <3> HIDE DEF h, T
      <3> QED BY <2>2 DEF ScanAt
    <2> QED BY <2>1, <2>3
  <1>8. h = [n \in 0..m |-> h[n]]
    OBVIOUS
  <1>9. h = [n \in 0..m |-> ScanAt(s, key, h, n)]
    <2> HIDE DEF h, T
    <2> QED BY <1>7, <1>8
  <1> HIDE DEF h
  <1> QED BY <1>2, <1>9

\* What the loop gathers, line by line.
LEMMA ScannedLines ==
    ASSUME NEW s, NEW key, Len(s) \in Nat
    PROVE  /\ scanned(s, key)[0] = Fresh
           /\ \A n \in 1..Len(s) : scanned(s, key)[n] = classify(scanned(s, key)[n - 1], s[n], key)
  <1>1. scanned(s, key) = CHOOSE g : g = [n \in 0..Len(s) |-> ScanAt(s, key, g, n)]
    BY DEF scanned, ScanAt
  <1>2. \E g : g = [n \in 0..Len(s) |-> ScanAt(s, key, g, n)]
    BY ScanDefined
  <1>3. scanned(s, key) = [n \in 0..Len(s) |-> ScanAt(s, key, scanned(s, key), n)]
    BY <1>1, <1>2
  <1>4. \A n \in 0..Len(s) : scanned(s, key)[n] = ScanAt(s, key, scanned(s, key), n)
    BY <1>3
  <1> QED BY <1>4 DEF ScanAt

-----------------------------------------------------------------------------
(* The log that is presented *)

\* The checkpoints of a log.
CheckpointsOf(s) == {s[n].body : n \in {m \in 1..Len(s) : IsCp(s[m])}}

\* A line somebody who cannot sign can put into the log, C being what was signed.
Presentable(l, C) ==
    \/ RecordLine(l)
    \/ CheckpointLine(l) /\ (VerifyCheckpoint(l.body) => l.body \in C)
    \/ l = Line(l.v, [type |-> "malformed"])

\* What each kind of presentable line is.
LEMMA PresentableKinds ==
    ASSUME NEW C, NEW l, Presentable(l, C)
    PROVE  /\ IsRec(l) => RecordLine(l)
           /\ IsCp(l) => CheckpointLine(l) /\ (VerifyCheckpoint(l.body) => l.body \in C)
           /\ l = Line(l.v, l.body)
           /\ l.body.type \in {"record", "checkpoint", "malformed"}
  <1>1. CASE RecordLine(l)
    BY <1>1, OneKind DEF RecordLine, IsRec, Line
  <1>2. CASE CheckpointLine(l) /\ (VerifyCheckpoint(l.body) => l.body \in C)
    BY <1>2, OneKind DEF CheckpointLine, IsCp
  <1>3. CASE l = Line(l.v, [type |-> "malformed"])
    BY <1>3 DEF Line, IsRec, IsCp
  <1> QED BY <1>1, <1>2, <1>3 DEF Presentable

PresentableLog(s, C) ==
    s \in Seq(LinesOf(s)) /\ \A n \in 1..Len(s) : Presentable(s[n], C)

\* A part of a sequence.
LEMMA Slice ==
    ASSUME NEW S, NEW s \in Seq(S), NEW a \in 1..(Len(s) + 1), NEW b \in 0..Len(s), a <= b + 1
    PROVE  /\ SubSeq(s, a, b) \in Seq(S) /\ Len(SubSeq(s, a, b)) = b - a + 1
           /\ \A n \in 1..(b - a + 1) : SubSeq(s, a, b)[n] = s[a + n - 1]
  OBVIOUS

\* Two sequences one after the other.
LEMMA Concat ==
    ASSUME NEW S, NEW s \in Seq(S), NEW t \in Seq(S)
    PROVE  /\ s \o t \in Seq(S) /\ Len(s \o t) = Len(s) + Len(t)
           /\ \A n \in 1..(Len(s) + Len(t)) :
                 (s \o t)[n] = IF n <= Len(s) THEN s[n] ELSE t[n - Len(s)]
  OBVIOUS

\* A line removed.
LEMMA RemovePresentable ==
    ASSUME NEW C, NEW s, PresentableLog(s, C), NEW k \in 1..Len(s)
    PROVE  PresentableLog(RemoveAt(s, k), C)
  <1> DEFINE t == RemoveAt(s, k)
  <1>1. s \in Seq(LinesOf(s)) /\ Len(s) \in Nat
    BY DEF PresentableLog
  <1> DEFINE x == SubSeq(s, 1, k - 1)
             y == SubSeq(s, k + 1, Len(s))
  <1>2. t = x \o y
    BY DEF RemoveAt
  <1>3. x \in Seq(LinesOf(s)) /\ Len(x) = k - 1 /\ \A n \in 1..(k - 1) : x[n] = s[n]
    BY <1>1, Slice
  <1>4. /\ y \in Seq(LinesOf(s)) /\ Len(y) = Len(s) - k
        /\ \A n \in 1..(Len(s) - k) : y[n] = s[k + n]
    <2>1. k + 1 \in 1..(Len(s) + 1) /\ Len(s) \in 0..Len(s) /\ k + 1 <= Len(s) + 1
      BY <1>1
    <2>2. /\ y \in Seq(LinesOf(s)) /\ Len(y) = Len(s) - (k + 1) + 1
          /\ \A n \in 1..(Len(s) - (k + 1) + 1) : y[n] = s[k + 1 + n - 1]
      BY <1>1, <2>1, Slice
    <2>3. Len(s) - (k + 1) + 1 = Len(s) - k
          /\ \A n \in 1..(Len(s) - k) : k + 1 + n - 1 = k + n
      BY <1>1
    <2> QED BY <2>2, <2>3
  <1> HIDE DEF x, y, t
  <1>5. t \in Seq(LinesOf(s)) /\ Len(t) = Len(s) - 1
    <2>1. x \o y \in Seq(LinesOf(s)) /\ Len(x \o y) = Len(x) + Len(y)
      BY <1>3, <1>4, Concat
    <2> QED BY <1>1, <1>2, <1>3, <1>4, <2>1
  <1>6. ASSUME NEW n \in 1..Len(t) PROVE t[n] = IF n < k THEN s[n] ELSE s[n + 1]
    <2>1. t[n] = IF n <= k - 1 THEN x[n] ELSE y[n - (k - 1)]
      BY <1>1, <1>5, <1>2, <1>3, <1>4, Concat
    <2>2. n >= k => n - (k - 1) \in 1..(Len(s) - k) /\ k + (n - (k - 1)) = n + 1
      BY <1>1, <1>5
    <2>3. CASE n < k
      <3>1. n \in 1..(k - 1) /\ n <= k - 1
        BY <1>1, <1>5, <2>3
      <3> QED BY <1>3, <2>1, <2>3, <3>1
    <2>4. CASE ~(n < k)
      <3>1. n >= k /\ ~(n <= k - 1)
        BY <1>1, <1>5, <2>4
      <3>2. y[n - (k - 1)] = s[k + (n - (k - 1))]
        BY <1>4, <2>2, <3>1
      <3> QED BY <2>1, <2>2, <2>4, <3>1, <3>2
    <2> QED BY <2>3, <2>4
  <1> HIDE DEF t
  <1>7. \A n \in 1..Len(t) : n \in 1..Len(s) /\ n + 1 \in 1..Len(s)
    BY <1>1, <1>5
  <1>8. \A n \in 1..Len(t) : Presentable(t[n], C)
    BY <1>6, <1>7 DEF PresentableLog
  <1> QED BY <1>5, <1>8, OwnLines DEF PresentableLog, t

\* The log cut.
LEMMA CutPresentable ==
    ASSUME NEW C, NEW s, PresentableLog(s, C), NEW k \in 0..Len(s)
    PROVE  PresentableLog(SubSeq(s, 1, k), C)
  <1> DEFINE t == SubSeq(s, 1, k)
  <1>1. s \in Seq(LinesOf(s))
    BY DEF PresentableLog
  <1>2. t \in Seq(LinesOf(s)) /\ Len(t) = k /\ \A n \in 1..k : t[n] = s[n]
    BY <1>1, Prefix
  <1> HIDE DEF t
  <1>3. \A n \in 1..Len(t) : Presentable(t[n], C)
    BY <1>1, <1>2 DEF PresentableLog
  <1> QED BY <1>2, <1>3, OwnLines DEF PresentableLog, t

\* A line inserted.
LEMMA InsertPresentable ==
    ASSUME NEW C, NEW s, PresentableLog(s, C), NEW k \in 1..(Len(s) + 1),
           NEW l, Presentable(l, C)
    PROVE  PresentableLog(InsertAt(s, k, l), C)
  <1> DEFINE t == InsertAt(s, k, l)
             S == LinesOf(s) \cup {l}
  <1>1. s \in Seq(LinesOf(s)) /\ Len(s) \in Nat
    BY DEF PresentableLog
  <1>2. s \in Seq(S) /\ l \in S
    BY <1>1
  <1> HIDE DEF S
  <1> DEFINE x == SubSeq(s, 1, k - 1)
             z == x \o <<l>>
             y == SubSeq(s, k, Len(s))
  <1>3. t = z \o y
    BY DEF InsertAt
  <1>4. x \in Seq(S) /\ Len(x) = k - 1 /\ \A n \in 1..(k - 1) : x[n] = s[n]
    BY <1>1, <1>2, Slice
  <1>5. /\ y \in Seq(S) /\ Len(y) = Len(s) - k + 1
        /\ \A n \in 1..(Len(s) - k + 1) : y[n] = s[k + n - 1]
    <2>1. k \in 1..(Len(s) + 1) /\ Len(s) \in 0..Len(s) /\ k <= Len(s) + 1
      BY <1>1
    <2> QED BY <1>1, <1>2, <2>1, Slice
  <1> HIDE DEF x, y
  <1>6. z \in Seq(S) /\ Len(z) = k /\ z[k] = l /\ \A n \in 1..(k - 1) : z[n] = s[n]
    BY <1>2, <1>4
  <1> HIDE DEF z, t
  <1>7. t \in Seq(S) /\ Len(t) = Len(s) + 1
    <2>1. z \o y \in Seq(S) /\ Len(z \o y) = Len(z) + Len(y)
      BY <1>5, <1>6, Concat
    <2> QED BY <1>1, <1>3, <1>5, <1>6, <2>1
  <1>8. ASSUME NEW n \in 1..Len(t)
        PROVE  t[n] = IF n < k THEN s[n] ELSE IF n = k THEN l ELSE s[n - 1]
    <2>1. t[n] = IF n <= k THEN z[n] ELSE y[n - k]
      BY <1>1, <1>7, <1>3, <1>5, <1>6, Concat
    <2>2. n > k => n - k \in 1..(Len(s) - k + 1) /\ k + (n - k) - 1 = n - 1
      BY <1>1, <1>7
    <2> QED BY <1>1, <1>7, <1>5, <1>6, <2>1, <2>2
  <1> HIDE DEF t
  <1>9. ASSUME NEW n \in 1..Len(t) PROVE Presentable(t[n], C)
    <2>1. CASE n < k
      <3>1. n \in 1..Len(s) /\ t[n] = s[n]
        BY <1>1, <1>7, <1>8, <2>1
      <3> QED BY <3>1 DEF PresentableLog
    <2>2. CASE n = k
      BY <1>8, <2>2
    <2>3. CASE n > k
      <3>1. n - 1 \in 1..Len(s) /\ t[n] = s[n - 1]
        BY <1>1, <1>7, <1>8, <2>3
      <3> QED BY <3>1 DEF PresentableLog
    <2> QED BY <1>1, <1>7, <2>1, <2>2, <2>3
  <1> QED BY <1>7, <1>9, OwnLines DEF PresentableLog, t

\* A line replaced.
LEMMA ReplacePresentable ==
    ASSUME NEW C, NEW s, PresentableLog(s, C), NEW k \in 1..Len(s),
           NEW l, Presentable(l, C)
    PROVE  PresentableLog([s EXCEPT ![k] = l], C)
  <1> DEFINE t == [s EXCEPT ![k] = l]
  <1>1. s \in Seq(LinesOf(s)) /\ Len(s) \in Nat
    BY DEF PresentableLog
  <1>2. s \in Seq(LinesOf(s) \cup {l})
    BY <1>1
  <1>3. t \in Seq(LinesOf(s) \cup {l}) /\ Len(t) = Len(s)
    BY <1>2
  <1>4. \A n \in 1..Len(s) : t[n] = IF n = k THEN l ELSE s[n]
    BY <1>1
  <1> HIDE DEF t
  <1>5. \A n \in 1..Len(t) : Presentable(t[n], C)
    BY <1>3, <1>4 DEF PresentableLog
  <1> QED BY <1>3, <1>5, OwnLines DEF PresentableLog, t

\* Two lines swapped.
LEMMA SwapPresentable ==
    ASSUME NEW C, NEW s, PresentableLog(s, C), NEW k \in 1..(Len(s) - 1)
    PROVE  PresentableLog([s EXCEPT ![k] = s[k + 1], ![k + 1] = s[k]], C)
  <1>1. s \in Seq(LinesOf(s)) /\ Len(s) \in Nat /\ k \in 1..Len(s) /\ k + 1 \in 1..Len(s)
    BY DEF PresentableLog
  <1> DEFINE t == [s EXCEPT ![k] = s[k + 1]]
  <1>2. PresentableLog(t, C)
    <2>1. Presentable(s[k + 1], C)
      BY <1>1 DEF PresentableLog
    <2> QED BY <1>1, <2>1, ReplacePresentable
  <1>3. Len(t) = Len(s)
    BY <1>1
  <1>4. Presentable(s[k], C)
    BY <1>1 DEF PresentableLog
  <1>5. PresentableLog([t EXCEPT ![k + 1] = s[k]], C)
    <2> HIDE DEF t
    <2> QED BY <1>1, <1>2, <1>3, <1>4, ReplacePresentable
  <1> QED BY <1>5

\* What a rewrite puts in the place of a record is a record.
LEMMA RelinkedRecord ==
    ASSUME NEW v, NEW ev, NEW seq \in Nat, NEW prev
    PROVE  RecordLine(Relinked(v, ev, seq, prev))
  <1>1. PICK h : h = RecordHash(Line(v, Link(ev, seq, prev)))
    OBVIOUS
  <1>2. Relinked(v, ev, seq, prev) = [Line(v, Link(ev, seq, prev)) EXCEPT !.body.hash = h]
    BY <1>1 DEF Relinked
  <1>3. [Line(v, Link(ev, seq, prev)) EXCEPT !.body.hash = h] =
          Line(v, [type |-> "record", seq |-> seq, ev |-> ev, prevHash |-> prev, hash |-> h])
    BY DEF Line, Link
  <1> QED BY <1>2, <1>3 DEF RecordLine, IsRec, Line

\* A rewrite from record k on.
LEMMA RewritePresentable ==
    ASSUME NEW C, NEW s, PresentableLog(s, C), NEW k, NEW v, NEW ev
    PROVE  PresentableLog(Rewritten(s, k, v, ev), C)
  <1> DEFINE t == Rewritten(s, k, v, ev)
  <1>1. Len(s) \in Nat
    BY DEF PresentableLog
  <1>2. t = [j \in 1..Len(s) |-> RewriteAt(s, k, v, ev, t, j)]
    BY <1>1, RewrittenLines
  <1> HIDE DEF t
  <1>3. ASSUME NEW j \in 1..Len(s) PROVE Presentable(t[j], C)
    <2>1. t[j] = RewriteAt(s, k, v, ev, t, j)
      BY <1>2
    <2>2. Presentable(s[j], C)
      BY DEF PresentableLog
    <2>3. CASE j < k \/ ~IsRec(s[j])
      <3>1. t[j] = s[j]
        BY <2>1, <2>3 DEF RewriteAt
      <3> QED BY <2>2, <3>1
    <2>4. CASE ~(j < k \/ ~IsRec(s[j]))
      <3>1. RecordLine(s[j])
        BY <2>2, <2>4, PresentableKinds
      <3>2. Cardinality(RecordsAbove(s, j)) + 1 \in Nat
        <4>1. IsFiniteSet(1..(j - 1)) /\ RecordsAbove(s, j) \subseteq 1..(j - 1)
          BY FS_Interval DEF RecordsAbove
        <4>2. Cardinality(RecordsAbove(s, j)) \in Nat
          BY <4>1, FS_Subset, FS_CardinalityType
        <4> QED BY <4>2
      <3>3. \E w, e, p : t[j] = Relinked(w, e, Cardinality(RecordsAbove(s, j)) + 1, p)
        BY <2>1, <2>4 DEF RewriteAt
      <3>4. RecordLine(t[j])
        BY <3>1, <3>2, <3>3, RelinkedRecord
      <3> QED BY <3>4 DEF Presentable
    <2> QED BY <2>3, <2>4
  <1>4. t \in Seq({t[j] : j \in 1..Len(s)}) /\ Len(t) = Len(s)
    BY <1>1, <1>2
  <1>5. t \in Seq(LinesOf(t))
    BY <1>4, OwnLines
  <1> QED BY <1>3, <1>4, <1>5 DEF PresentableLog, t

-----------------------------------------------------------------------------
(* The inductive invariant *)

\* The history is a chain of v2 lines whose checkpoints the sink signed.
HistoryOK ==
    /\ history \in Seq(LinesOf(history)) /\ JoinedTo(history, Len(history))
    /\ \A n \in 1..Len(history) :
          /\ history[n].v = "v2"
          /\ IsCp(history[n]) => VerifyCheckpoint(history[n].body)

\* The log is the history until somebody edits it; no edit can sign.
LogOK ==
    /\ PresentableLog(log, CheckpointsOf(history))
    /\ phase = "write" => log = <<>> /\ edits = 0
    /\ phase # "write" /\ edits = 0 => log = history

\* Nothing is read before the scan, and the anchor is a checkpoint.
StartOK ==
    /\ phase \in {"write", "edit"} =>
          /\ i = 0 /\ lastSeq = 0 /\ expected = GenesisHash /\ seen = {} /\ records = 0
          /\ checkpoints = 0 /\ signedThrough = 0 /\ unanchored = 0 /\ intact /\ problems = {}
    /\ anchor # None => anchor.seq \in Nat

\* While nothing is wrong the lines read are a chain and the state is its head.
HeadOK ==
    intact \/ edits = 0 =>
        JoinedTo(log, i) /\ lastSeq = HeadSeq(log, i) /\ expected = HeadHash(log, i)

\* What the signatures are said to reach is a checkpoint that verified.
SignedOK ==
    signedThrough # 0 =>
        \E c \in 1..i : /\ IsCp(log[c]) /\ VerifyCheckpoint(log[c].body)
                        /\ log[c].body.seq = signedThrough

\* The checkpoints noted are those read, and each sequence read is among them.
SeenOK ==
    /\ \A h \in seen : \E c \in 1..i :
          IsCp(log[c]) /\ h = <<log[c].body.seq, log[c].body.hash>>
    /\ \A c \in 1..i : IsCp(log[c]) =>
          checkpoints > 0 /\ \E h \in seen : h[1] = log[c].body.seq

\* The state of the loop as the independent verifier keeps it.
Gathered ==
    [intact |-> intact, problems |-> problems, records |-> records,
     checkpoints |-> checkpoints, signedThrough |-> signedThrough, lastSeq |-> lastSeq,
     expected |-> expected, seen |-> seen, unanchored |-> unanchored]

\* The two loops have gathered the same after the same lines.
AgreeOK == phase = "scan" => unanchored = 0 /\ scanned(log, pub)[i] = Gathered

\* Nothing is found in a log nobody edited.
HonestOK == phase = "scan" /\ edits = 0 => intact /\ problems = {}

\* At the end the anchor and the missing checkpoint have been looked at.
DoneOK ==
    phase = "done" =>
        /\ i = Len(log)
        /\ intact => AnchorProblem \cup Unanchored = {}
        /\ edits = 0 => /\ problems = AnchorProblem \cup Unanchored
                        /\ AnchorProblem \cup Unanchored = {} => intact
        /\ unanchored = IF pub /\ lastSeq > signedThrough THEN lastSeq - signedThrough ELSE 0

\* The inductive invariant of the verifiers.
IInv ==
    /\ TypeOK /\ HistoryOK /\ LogOK /\ StartOK /\ HeadOK /\ SignedOK /\ SeenOK
    /\ AgreeOK /\ HonestOK /\ DoneOK /\ ImplementationsAgree

-----------------------------------------------------------------------------
(* It holds initially, and while the history is written and edited *)

LEMMA InitIInv == Init => IInv
  <1> SUFFICES ASSUME Init PROVE IInv
    OBVIOUS
  <1> USE DEF Init
  <1>1. TypeOK
    <2>1. edits \in 0..MaxEdits /\ i \in 0..Len(log)
      BY VerifierAssumptions
    <2>2. pub \in BOOLEAN /\ intact \in BOOLEAN
      BY Zenon
    <2> QED BY <2>1, <2>2 DEF TypeOK
  <1>2. HistoryOK
    BY DEF HistoryOK, JoinedTo, LinesOf
  <1>3. LogOK
    BY DEF LogOK, PresentableLog, LinesOf
  <1>4. StartOK
    BY DEF StartOK
  <1>5. HeadOK
    BY DEF HeadOK, JoinedTo, HeadSeq, HeadHash
  <1>6. SignedOK /\ SeenOK
    BY DEF SignedOK, SeenOK
  <1>7. AgreeOK /\ HonestOK /\ DoneOK /\ ImplementationsAgree
    BY DEF AgreeOK, HonestOK, DoneOK, ImplementationsAgree, Done
  <1> QED BY <1>1, <1>2, <1>3, <1>4, <1>5, <1>6, <1>7 DEF IInv

\* A line that continues a chain makes a longer chain.
LEMMA AppendJoined ==
    ASSUME NEW S, NEW s \in Seq(S), JoinedTo(s, Len(s)), NEW l,
           JoinsRecord(Append(s, l), Len(s) + 1) \/ JoinsCheckpoint(Append(s, l), Len(s) + 1)
    PROVE  JoinedTo(Append(s, l), Len(Append(s, l)))
  <1> DEFINE t == Append(s, l)
  <1>1. Len(s) \in Nat /\ Len(t) = Len(s) + 1 /\ \A n \in 1..Len(s) : t[n] = s[n]
    OBVIOUS
  <1> HIDE DEF t
  <1>2. ASSUME NEW n \in 1..Len(s) PROVE JoinsRecord(t, n) \/ JoinsCheckpoint(t, n)
    <2>1. JoinsRecord(s, n) \/ JoinsCheckpoint(s, n)
      BY DEF JoinedTo
    <2>2. t[n] = s[n] /\ HeadSeq(t, n - 1) = HeadSeq(s, n - 1)
          /\ HeadHash(t, n - 1) = HeadHash(s, n - 1)
      BY <1>1 DEF HeadSeq, HeadHash
    <2> QED BY <2>1, <2>2 DEF JoinsRecord, JoinsCheckpoint
  <1>3. \A n \in 1..Len(t) : n \in 1..Len(s) \/ n = Len(s) + 1
    BY <1>1
  <1> QED BY <1>1, <1>2, <1>3 DEF JoinedTo, t

\* The sink's lines make the history a longer one.
LEMMA WriteKeeps ==
    ASSUME IInv, WriteRecord \/ WriteCheckpoint
    PROVE  IInv'
  <1> DEFINE n == Len(history)
             seq == SeqBefore(Bodies(history), n + 1)
             hash == HashBefore(Bodies(history), n + 1)
  <1>1. /\ history \in Seq(LinesOf(history)) /\ n \in Nat /\ JoinedTo(history, n)
        /\ \A m \in 1..n : /\ history[m].v = "v2"
                           /\ IsCp(history[m]) => VerifyCheckpoint(history[m].body)
    BY DEF IInv, HistoryOK
  <1>2. seq = HeadSeq(history, n) /\ hash = HeadHash(history, n)
    BY <1>1 DEF SeqBefore, HashBefore, HeadSeq, HeadHash, Bodies
  <1>3. HeadSeq(history, n) \in Nat
    BY <1>1, HeadNat
  <1>4. PICK b : /\ WriteLine(b)
                 /\ \/ \E ev : b = Link(ev, seq + 1, hash)
                    \/ b = SignCheckpointWith(Key, seq, hash)
    BY DEF WriteRecord, WriteCheckpoint
  <1>5. history' = Append(history, Line("v2", b))
    BY <1>4 DEF WriteLine
  <1>6. phase = "write" /\ phase' = phase /\ UNCHANGED <<log, edits, pub, anchor, i, lastSeq,
          expected, records, seen, checkpoints, signedThrough, unanchored, intact, problems>>
    BY <1>4 DEF WriteLine, chainState
  <1> DEFINE l == Line("v2", b)
             t == Append(history, l)
  <1>7. /\ t \in Seq(LinesOf(history) \cup {l}) /\ Len(t) = n + 1 /\ t[n + 1] = l
        /\ \A m \in 1..n : t[m] = history[m]
    BY <1>1
  <1> HIDE DEF n, seq, hash, t
  <1>8. HeadSeq(t, n) = seq /\ HeadHash(t, n) = hash
    BY <1>1, <1>2, <1>7 DEF HeadSeq, HeadHash
  <1>9. JoinsRecord(t, n + 1) \/ JoinsCheckpoint(t, n + 1)
    <2>0. HeadSeq(t, n + 1 - 1) = seq /\ HeadHash(t, n + 1 - 1) = hash
      <3>1. n + 1 - 1 = n
        BY <1>1
      <3> QED BY <1>8, <3>1
    <2>1. CASE \E ev : b = Link(ev, seq + 1, hash)
      <3>1. PICK ev : b = Link(ev, seq + 1, hash)
        BY <2>1
      <3>2. l = [v |-> "v2", body |-> [type |-> "record", seq |-> seq + 1, ev |-> ev,
                 prevHash |-> hash, hash |-> <<seq + 1, hash, ev>>]]
        BY <3>1 DEF Line, Link, ComputeHash
      <3>3. RecordLine(l) /\ l.v = "v2" /\ l.body.seq = seq + 1 /\ l.body.prevHash = hash
        BY <1>2, <1>3, <3>2 DEF RecordLine, Line, IsRec
      <3>4. l.body.hash = RecordHash(l)
        BY <3>2 DEF RecordHash, ComputeHash
      <3>5. JoinsRecord(t, n + 1)
        <4>1. t[n + 1] = l
          BY <1>7
        <4> HIDE DEF l
        <4> QED BY <1>1, <1>8, <2>0, <3>3, <3>4, <4>1 DEF JoinsRecord
      <3> QED BY <3>5
    <2>2. CASE b = SignCheckpointWith(Key, seq, hash)
      <3>1. CheckpointLine(l) /\ l.body.seq = seq /\ l.body.hash = hash
        BY <1>2, <1>3, <2>2 DEF CheckpointLine, Line, IsCp, SignCheckpointWith
      <3>2. JoinsCheckpoint(t, n + 1)
        <4>1. t[n + 1] = l
          BY <1>7
        <4> HIDE DEF l
        <4>2. n \in Nat
          BY <1>1
        <4> QED BY <1>8, <3>1, <4>1, <4>2 DEF JoinsCheckpoint
      <3> QED BY <3>2
    <2> QED BY <1>4, <2>1, <2>2
  <1>10. JoinedTo(t, Len(t))
    BY <1>1, <1>9, AppendJoined DEF n, t
  <1>11. l.v = "v2" /\ (IsCp(l) => VerifyCheckpoint(l.body))
    BY <1>4 DEF Line, IsCp, Link, VerifyCheckpoint, SignCheckpointWith
  <1>12. HistoryOK'
    <2>1. history' = t
      BY <1>5 DEF t
    <2>2. t \in Seq(LinesOf(t))
      BY <1>7, OwnLines
    <2>3. \A m \in 1..Len(t) : m \in 1..n \/ m = n + 1
      BY <1>1, <1>7
    <2>4. \A m \in 1..Len(t) : t[m].v = "v2" /\ (IsCp(t[m]) => VerifyCheckpoint(t[m].body))
      BY <1>1, <1>7, <1>11, <2>3
    <2> QED BY <1>10, <2>1, <2>2, <2>4 DEF HistoryOK
  <1>13. LogOK'
    BY <1>6 DEF IInv, LogOK, PresentableLog, LinesOf
  <1>14. TypeOK' /\ StartOK' /\ HeadOK' /\ SignedOK' /\ SeenOK'
    BY <1>6 DEF IInv, TypeOK, StartOK, HeadOK, SignedOK, SeenOK
  <1>15. AgreeOK' /\ HonestOK' /\ DoneOK' /\ ImplementationsAgree'
    BY <1>6 DEF AgreeOK, HonestOK, DoneOK, ImplementationsAgree, Done
  <1> QED BY <1>12, <1>13, <1>14, <1>15 DEF IInv

\* Every line of the history may be presented.
LEMMA HistoryPresentable ==
    ASSUME HistoryOK
    PROVE  PresentableLog(history, CheckpointsOf(history))
  <1>1. ASSUME NEW n \in 1..Len(history) PROVE Presentable(history[n], CheckpointsOf(history))
    <2>1. JoinsRecord(history, n) \/ JoinsCheckpoint(history, n)
      BY DEF HistoryOK, JoinedTo
    <2>2. CASE JoinsRecord(history, n)
      BY <2>2 DEF JoinsRecord, Presentable
    <2>3. CASE JoinsCheckpoint(history, n)
      <3>1. CheckpointLine(history[n]) /\ IsCp(history[n])
        BY <2>3, OneKind DEF JoinsCheckpoint
      <3>2. history[n].body \in CheckpointsOf(history)
        BY <3>1 DEF CheckpointsOf
      <3> QED BY <3>1, <3>2 DEF Presentable
    <2> QED BY <2>1, <2>2, <2>3
  <1> QED BY <1>1 DEF HistoryOK, PresentableLog

\* A log that is presented before the scan starts, edited or not.
LEMMA PresentedKeeps ==
    ASSUME IInv, phase \in {"write", "edit"}, phase' = "edit",
           UNCHANGED <<history, pub, anchor, i, chainState, seen, checkpoints,
                       signedThrough, unanchored, intact, problems>>,
           edits' \in 0..MaxEdits, edits' = 0 => log' = history,
           PresentableLog(log', CheckpointsOf(history))
    PROVE  IInv'
  <1>1. /\ i' = 0 /\ lastSeq' = 0 /\ expected' = GenesisHash /\ seen' = {} /\ records' = 0
        /\ checkpoints' = 0 /\ signedThrough' = 0 /\ unanchored' = 0 /\ intact' /\ problems' = {}
        /\ history' = history /\ anchor' = anchor /\ pub' = pub /\ intact' = intact
    BY DEF IInv, StartOK, chainState
  <1>2. Len(log') \in Nat
    BY DEF PresentableLog
  <1>3. TypeOK'
    BY <1>1, <1>2 DEF IInv, TypeOK
  <1>4. HistoryOK'
    BY <1>1 DEF IInv, HistoryOK
  <1>5. LogOK'
    BY <1>1 DEF LogOK
  <1>6. StartOK'
    BY <1>1 DEF IInv, StartOK
  <1>7. HeadOK'
    BY <1>1 DEF HeadOK, JoinedTo, HeadSeq, HeadHash
  <1>8. SignedOK' /\ SeenOK'
    BY <1>1 DEF SignedOK, SeenOK
  <1>9. AgreeOK' /\ HonestOK' /\ DoneOK' /\ ImplementationsAgree'
    BY DEF AgreeOK, HonestOK, DoneOK, ImplementationsAgree, Done
  <1> QED BY <1>3, <1>4, <1>5, <1>6, <1>7, <1>8, <1>9 DEF IInv

\* The log is handed over as it was written.
LEMMA PresentKeeps ==
    ASSUME IInv, Present
    PROVE  IInv'
  <1>1. PresentableLog(history, CheckpointsOf(history))
    BY HistoryPresentable DEF IInv
  <1>2. phase = "write" /\ phase' = "edit" /\ log' = history /\ edits' = edits
        /\ UNCHANGED <<history, pub, anchor, i, chainState, seen, checkpoints,
                       signedThrough, unanchored, intact, problems>>
    BY DEF Present
  <1>3. edits' \in 0..MaxEdits
    BY <1>2 DEF IInv, TypeOK
  <1> QED BY <1>1, <1>2, <1>3, PresentedKeeps

\* Every edit leaves a log that can be presented.
LEMMA EditKeeps ==
    ASSUME IInv, Edit
    PROVE  IInv'
  <1> DEFINE C == CheckpointsOf(history)
  <1>1. PresentableLog(log, C) /\ log \in Seq(LinesOf(log)) /\ Len(log) \in Nat
    BY DEF IInv, LogOK, PresentableLog
  <1>2. \A n \in 1..Len(log) : Presentable(log[n], C)
    BY <1>1 DEF PresentableLog
  <1> SUFFICES ASSUME NEW s, EditTo(s), PresentableLog(s, C) PROVE IInv'
    <2> HIDE DEF C
    <2>1. CASE RemoveLine
      BY <1>1, <2>1, RemovePresentable DEF RemoveLine
    <2>2. CASE Truncate
      <3>1. PICK k \in 0..(Len(log) - 1) : EditTo(SubSeq(log, 1, k))
        BY <2>2 DEF Truncate
      <3>2. k \in 0..Len(log)
        BY <1>1
      <3> QED BY <1>1, <3>1, <3>2, CutPresentable
    <2>3. CASE Repeat
      <3>1. PICK k \in 1..Len(log) : EditTo(InsertAt(log, k, log[k]))
        BY <2>3 DEF Repeat
      <3>2. k \in 1..(Len(log) + 1)
        BY <1>1
      <3> QED BY <1>1, <1>2, <3>1, <3>2, InsertPresentable
    <2>4. CASE Reorder
      BY <1>1, <2>4, SwapPresentable DEF Reorder
    <2>5. CASE Garble
      <3>1. Presentable(Garbage, C)
        BY DEF Presentable, Garbage, Line
      <3> QED BY <1>1, <2>5, <3>1, ReplacePresentable DEF Garble
    <2>6. CASE Relabel
      <3>1. PICK k \in 1..Len(log), v \in {"v1", "v3"} : EditTo([log EXCEPT ![k].v = v])
        BY <2>6 DEF Relabel
      <3> DEFINE l == log[k]
                 m == [l EXCEPT !.v = v]
      <3>2. Presentable(l, C)
        BY <1>2
      <3>3. l = Line(l.v, l.body)
        BY <3>2, PresentableKinds
      <3>4. m = Line(v, l.body)
        BY <3>3 DEF Line
      <3> HIDE DEF l, m
      <3>5. m.v = v /\ m.body = l.body
        BY <3>4 DEF Line
      <3>6. Presentable(m, C)
        BY <3>2, <3>3, <3>4, <3>5
           DEF Presentable, RecordLine, CheckpointLine, VerifyCheckpoint, IsRec, IsCp, Line
      <3>7. [log EXCEPT ![k].v = v] = [log EXCEPT ![k] = m]
        BY DEF m, l
      <3>8. PresentableLog([log EXCEPT ![k] = m], C)
        BY <1>1, <3>6, ReplacePresentable
      <3> QED BY <3>1, <3>7, <3>8
    <2>7. CASE Alter
      <3>1. PICK k \in 1..Len(log), ev \in Events :
                IsRec(log[k]) /\ EditTo([log EXCEPT ![k].body.ev = ev])
        BY <2>7 DEF Alter
      <3> DEFINE l == log[k]
                 m == [l EXCEPT !.body.ev = ev]
      <3>2. RecordLine(l)
        BY <1>2, <3>1, PresentableKinds
      <3>3. m = Line(l.v, [type |-> "record", seq |-> l.body.seq, ev |-> ev,
                           prevHash |-> l.body.prevHash, hash |-> l.body.hash])
        <4> HIDE DEF l
        <4> QED BY <3>2 DEF RecordLine, Line
      <3>4. RecordLine(m)
        <4> HIDE DEF l, m
        <4> QED BY <3>2, <3>3 DEF RecordLine, Line, IsRec
      <3>5. Presentable(m, C)
        BY <3>4 DEF Presentable
      <3>6. [log EXCEPT ![k].body.ev = ev] = [log EXCEPT ![k] = m]
        OBVIOUS
      <3>7. PresentableLog([log EXCEPT ![k] = m], C)
        <4> HIDE DEF m
        <4> QED BY <1>1, <3>5, ReplacePresentable
      <3> QED BY <3>1, <3>6, <3>7
    <2>8. CASE Rewrite
      BY <1>1, <2>8, RewritePresentable DEF Rewrite
    <2>9. CASE Counterfeit
      <3>1. PICK k \in 1..Len(log) :
              /\ IsRec(log[k])
              /\ EditTo(InsertAt(log, k + 1,
                   Line("v2", SignCheckpointWith(OtherKey, log[k].body.seq, log[k].body.hash))))
        BY <2>9 DEF Counterfeit
      <3>2. log[k].body.seq \in Nat
        BY <1>2, <3>1, PresentableKinds DEF RecordLine
      <3>3. ASSUME NEW x \in Nat, NEW y
            PROVE  Presentable(Line("v2", SignCheckpointWith(OtherKey, x, y)), C)
        BY VerifierAssumptions
           DEF Presentable, CheckpointLine, VerifyCheckpoint, IsCp, Line, SignCheckpointWith
      <3>4. k + 1 \in 1..(Len(log) + 1)
        BY <1>1
      <3> QED BY <1>1, <3>1, <3>2, <3>3, <3>4, InsertPresentable
    <2> QED BY <2>1, <2>2, <2>3, <2>4, <2>5, <2>6, <2>7, <2>8, <2>9 DEF Edit
  <1>3. /\ phase = "edit" /\ phase' = "edit" /\ edits < MaxEdits /\ edits' = edits + 1 /\ log' = s
        /\ UNCHANGED <<history, pub, anchor, i, chainState, seen, checkpoints,
                       signedThrough, unanchored, intact, problems>>
    BY DEF EditTo
  <1>4. edits' \in 0..MaxEdits /\ edits' # 0
    BY <1>3, VerifierAssumptions DEF IInv, TypeOK
  <1> QED BY <1>3, <1>4, PresentedKeeps

-----------------------------------------------------------------------------
(* It holds through the scan *)

\* A checkpoint that was kept is one of the history's.
LEMMA KeptSigned ==
    ASSUME HistoryOK, NEW c \in Kept
    PROVE  \E n \in 1..Len(history) :
             /\ c = history[n].body /\ IsCp(history[n])
             /\ VerifyCheckpoint(c) /\ c.seq \in Nat
  <1>1. PICK k \in 1..Len(history) : c = ReadAnchor(SubSeq(history, 1, k)) /\ c # None
    BY DEF Kept
  <1> DEFINE t == SubSeq(history, 1, k)
             cps == {n \in 1..Len(t) : IsCp(t[n])}
  <1>2. Len(t) = k /\ (\A n \in 1..k : t[n] = history[n]) /\ k \in Nat
    BY Prefix DEF HistoryOK
  <1> HIDE DEF t
  <1>3. cps # {} /\ c = t[Max(cps)].body
    BY <1>1 DEF ReadAnchor, t
  <1>4. Max(cps) \in cps
    <2>1. cps \subseteq 0..k
      BY <1>2
    <2> HIDE DEF cps
    <2> QED BY <1>2, <1>3, <2>1, MaxIsLargest
  <1>5. PICK n \in 1..k : n = Max(cps) /\ IsCp(t[n])
    BY <1>2, <1>4
  <1>6. n \in 1..Len(history) /\ c = history[n].body /\ IsCp(history[n])
    BY <1>2, <1>3, <1>5
  <1>7. c.seq \in Nat
    <2>1. JoinsRecord(history, n) \/ JoinsCheckpoint(history, n)
      BY <1>6 DEF HistoryOK, JoinedTo
    <2> QED BY <1>6, <2>1 DEF JoinsRecord, JoinsCheckpoint, RecordLine, CheckpointLine
  <1> QED BY <1>6, <1>7 DEF HistoryOK

\* The auditor starts with nothing gathered.
LEMMA BeginKeeps ==
    ASSUME IInv, Begin
    PROVE  IInv'
  <1>1. /\ phase = "edit" /\ phase' = "scan" /\ pub' \in BOOLEAN
        /\ anchor' \in {None, SignCheckpointWith(OtherKey, 1, GenesisHash)} \cup Kept
        /\ UNCHANGED <<history, log, edits, i, lastSeq, expected, records, seen, checkpoints,
                       signedThrough, unanchored, intact, problems>>
    BY DEF Begin, chainState
  <1>2. /\ i' = 0 /\ lastSeq' = 0 /\ expected' = GenesisHash /\ seen' = {} /\ records' = 0
        /\ checkpoints' = 0 /\ signedThrough' = 0 /\ unanchored' = 0 /\ intact' /\ problems' = {}
    BY <1>1 DEF IInv, StartOK
  <1>3. TypeOK'
    BY <1>1, <1>2 DEF IInv, TypeOK
  <1>4. HistoryOK' /\ LogOK'
    BY <1>1 DEF IInv, HistoryOK, LogOK
  <1>5. StartOK'
    <2>1. CASE anchor' = SignCheckpointWith(OtherKey, 1, GenesisHash)
      BY <1>1, <2>1 DEF StartOK, SignCheckpointWith
    <2>2. CASE anchor' \in Kept
      <3>1. anchor'.seq \in Nat
        BY <2>2, KeptSigned DEF IInv
      <3> QED BY <1>1, <3>1 DEF StartOK
    <2>3. CASE anchor' = None
      BY <1>1, <2>3 DEF StartOK
    <2> QED BY <1>1, <2>1, <2>2, <2>3
  <1>6. HeadOK' /\ SignedOK' /\ SeenOK' /\ HonestOK'
    BY <1>2 DEF HeadOK, JoinedTo, HeadSeq, HeadHash, SignedOK, SeenOK, HonestOK
  <1>7. AgreeOK'
    <2>1. Len(log) \in Nat
      BY DEF IInv, LogOK, PresentableLog
    <2>2. scanned(log', pub')[i'] = Fresh
      BY <1>1, <1>2, <2>1, ScannedLines
    <2>3. intact' = TRUE
      BY <1>2, <1>3 DEF TypeOK
    <2>4. Gathered' = Fresh
      BY <1>2, <2>3 DEF Gathered, Fresh
    <2> QED BY <1>2, <2>2, <2>4 DEF AgreeOK
  <1>8. DoneOK' /\ ImplementationsAgree'
    BY <1>1 DEF DoneOK, ImplementationsAgree, Done
  <1> QED BY <1>3, <1>4, <1>5, <1>6, <1>7, <1>8 DEF IInv

\* What a step that reads a line keeps whatever the line is.
LEMMA ReadKeeps ==
    ASSUME IInv, Scanning, i' = i + 1, UNCHANGED <<phase, inputVars, unanchored>>
    PROVE  /\ Len(log) \in Nat /\ i \in Nat /\ i + 1 \in 1..Len(log)
           /\ HistoryOK' /\ LogOK' /\ StartOK' /\ DoneOK' /\ ImplementationsAgree'
           /\ phase' = "scan" /\ log' = log /\ edits' = edits /\ pub' = pub
           /\ edits' \in 0..MaxEdits /\ i' \in 0..Len(log') /\ pub' \in BOOLEAN
           /\ unanchored' = 0
           /\ Presentable(line, CheckpointsOf(history))
           /\ edits = 0 => /\ JoinedTo(log, i + 1) /\ line.v = "v2"
                           /\ IsCp(line) => VerifyCheckpoint(line.body)
                           /\ intact /\ problems = {}
           /\ scanned(log, pub)[i + 1] = classify(Gathered, line, pub)
  <1>1. /\ phase = "scan" /\ phase' = "scan" /\ history' = history /\ log' = log
        /\ edits' = edits /\ pub' = pub /\ anchor' = anchor /\ unanchored' = unanchored
        /\ i < Len(log)
    BY DEF Scanning, inputVars
  <1>2. Len(log) \in Nat /\ i \in Nat /\ i + 1 \in 1..Len(log) /\ i + 1 \in 0..Len(log)
    BY <1>1 DEF IInv, TypeOK, LogOK, PresentableLog
  <1>3. HistoryOK' /\ LogOK' /\ StartOK'
    BY <1>1 DEF IInv, HistoryOK, LogOK, StartOK
  <1>4. DoneOK' /\ ImplementationsAgree'
    BY <1>1 DEF DoneOK, ImplementationsAgree, Done
  <1>5. edits' \in 0..MaxEdits /\ i' \in 0..Len(log') /\ pub' \in BOOLEAN
    BY <1>1, <1>2 DEF IInv, TypeOK
  <1>6. unanchored' = 0 /\ scanned(log, pub)[i] = Gathered
    BY <1>1 DEF IInv, AgreeOK
  <1>7. Presentable(line, CheckpointsOf(history))
    BY <1>2 DEF IInv, LogOK, PresentableLog, line
  <1>8. ASSUME edits = 0
        PROVE  /\ JoinedTo(log, i + 1) /\ line.v = "v2"
               /\ IsCp(line) => VerifyCheckpoint(line.body)
               /\ intact /\ problems = {}
    <2>1. log = history
      BY <1>1, <1>8 DEF IInv, LogOK
    <2>2. JoinedTo(log, i + 1)
      BY <1>2, <2>1 DEF IInv, HistoryOK, JoinedTo
    <2>3. line.v = "v2" /\ (IsCp(line) => VerifyCheckpoint(line.body))
      BY <1>2, <2>1 DEF IInv, HistoryOK, line
    <2> QED BY <1>1, <1>8, <2>2, <2>3 DEF IInv, HonestOK
  <1>9. scanned(log, pub)[i + 1] = classify(Gathered, line, pub)
    <2>1. i + 1 - 1 = i
      BY <1>2
    <2>2. scanned(log, pub)[i + 1] = classify(scanned(log, pub)[i + 1 - 1], log[i + 1], pub)
      BY <1>2, ScannedLines
    <2> QED BY <1>6, <2>1, <2>2 DEF line
  <1> QED BY <1>1, <1>2, <1>3, <1>4, <1>5, <1>6, <1>7, <1>8, <1>9

\* One more line of a chain.
LEMMA JoinedStep ==
    ASSUME NEW s, NEW k \in Nat, JoinedTo(s, k), JoinsRecord(s, k + 1) \/ JoinsCheckpoint(s, k + 1)
    PROVE  JoinedTo(s, k + 1)
  <1>1. \A n \in 1..(k + 1) : n \in 1..k \/ n = k + 1
    OBVIOUS
  <1> QED BY <1>1 DEF JoinedTo

\* A line that is neither read as a record nor noted as a checkpoint keeps what is
\* known of the ones that are.
LEMMA KeepsNoted ==
    ASSUME i \in Nat, i' = i + 1, log' = log,
           ~IsCp(line), SignedOK, SeenOK, UNCHANGED <<seen, checkpoints, signedThrough>>
    PROVE  SignedOK' /\ SeenOK'
  <1>1. \A c : c \in 1..i' => c \in 1..i \/ c = i + 1
    OBVIOUS
  <1>2. 1..i \subseteq 1..i'
    OBVIOUS
  <1>3. ~IsCp(log[i + 1])
    BY DEF line
  <1>4. SignedOK'
    BY <1>2 DEF SignedOK
  <1>5. ASSUME NEW h \in seen'
        PROVE  \E c \in 1..i' : IsCp(log'[c]) /\ h = <<log'[c].body.seq, log'[c].body.hash>>
    BY <1>2 DEF SeenOK
  <1>6. ASSUME NEW c \in 1..i', IsCp(log'[c])
        PROVE  checkpoints' > 0 /\ \E h \in seen' : h[1] = log'[c].body.seq
    <2>1. c \in 1..i /\ IsCp(log[c])
      BY <1>1, <1>3, <1>6
    <2> QED BY <2>1 DEF SeenOK
  <1> QED BY <1>4, <1>5, <1>6 DEF SeenOK

\* What an implementation has gathered, field by field.
Result(a, b, c, d, e, f, g, h, k) ==
    [intact |-> a, problems |-> b, records |-> c, checkpoints |-> d, signedThrough |-> e,
     lastSeq |-> f, expected |-> g, seen |-> h, unanchored |-> k]

NotedIn(st, x, y) == [st EXCEPT !.checkpoints = x, !.seen = y]
MovedTo(st, x, y) == [st EXCEPT !.records = @ + 1, !.lastSeq = x, !.expected = y]

\* A checkpoint is noted.
LEMMA NotedResult ==
    ASSUME NEW a, NEW b, NEW c, NEW d, NEW e, NEW f, NEW g, NEW h, NEW k, NEW x, NEW y
    PROVE  NotedIn(Result(a, b, c, d, e, f, g, h, k), x, y) = Result(a, b, c, x, e, f, g, y, k)
  <1>1. [Result(a, b, c, d, e, f, g, h, k) EXCEPT !.checkpoints = x] =
          Result(a, b, c, x, e, f, g, h, k)
    BY DEF Result
  <1>2. [Result(a, b, c, x, e, f, g, h, k) EXCEPT !.seen = y] =
          Result(a, b, c, x, e, f, g, y, k)
    BY DEF Result
  <1> QED BY <1>1, <1>2 DEF NotedIn

\* Problems are added.
LEMMA FailedResult ==
    ASSUME NEW a, NEW b, NEW c, NEW d, NEW e, NEW f, NEW g, NEW h, NEW k, NEW kinds
    PROVE  fail(Result(a, b, c, d, e, f, g, h, k), kinds) =
           Result(a /\ kinds \subseteq {"superseded_format"}, b \cup kinds,
                  c, d, e, f, g, h, k)
  <1> DEFINE st == Result(a, b, c, d, e, f, g, h, k)
             ok == (a /\ kinds \subseteq {"superseded_format"})
             all == b \cup kinds
  <1>1. st.problems = b /\ st.intact = a
    BY DEF Result
  <1> HIDE DEF ok, all
  <1>2. [st EXCEPT !.problems = all] = Result(a, all, c, d, e, f, g, h, k)
    BY DEF Result
  <1>3. [Result(a, all, c, d, e, f, g, h, k) EXCEPT !.intact = ok] =
          Result(ok, all, c, d, e, f, g, h, k)
    BY DEF Result
  <1>4. [st EXCEPT !.problems = all, !.intact = ok] = Result(ok, all, c, d, e, f, g, h, k)
    BY <1>2, <1>3
  <1>5. fail(st, kinds) = [st EXCEPT !.problems = all, !.intact = ok]
    <2> HIDE DEF st
    <2> QED BY <1>1 DEF fail, ok, all
  <1> QED BY <1>4, <1>5 DEF ok, all

\* The head moves to a record.
LEMMA MovedResult ==
    ASSUME NEW a, NEW b, NEW c, NEW d, NEW e, NEW f, NEW g, NEW h, NEW k, NEW x, NEW y
    PROVE  MovedTo(Result(a, b, c, d, e, f, g, h, k), x, y) =
           Result(a, b, c + 1, d, e, x, y, h, k)
  <1>1. [Result(a, b, c, d, e, f, g, h, k) EXCEPT !.records = @ + 1] =
          Result(a, b, c + 1, d, e, f, g, h, k)
    BY DEF Result
  <1>2. [Result(a, b, c + 1, d, e, f, g, h, k) EXCEPT !.lastSeq = x] =
          Result(a, b, c + 1, d, e, x, g, h, k)
    BY DEF Result
  <1>3. [Result(a, b, c + 1, d, e, x, g, h, k) EXCEPT !.expected = y] =
          Result(a, b, c + 1, d, e, x, y, h, k)
    BY DEF Result
  <1> QED BY <1>1, <1>2, <1>3 DEF MovedTo

\* The signatures reach a checkpoint.
LEMMA SignedResult ==
    ASSUME NEW a, NEW b, NEW c, NEW d, NEW e, NEW f, NEW g, NEW h, NEW k, NEW x
    PROVE  [Result(a, b, c, d, e, f, g, h, k) EXCEPT !.signedThrough = x] =
           Result(a, b, c, d, x, f, g, h, k)
  BY DEF Result

\* Problems are added to what has been gathered.
LEMMA FailedGathered ==
    ASSUME NEW kinds
    PROVE  fail(Gathered, kinds) =
           Result(intact /\ kinds \subseteq {"superseded_format"}, problems \cup kinds, records,
                  checkpoints, signedThrough, lastSeq, expected, seen, unanchored)
  <1>1. Gathered = Result(intact, problems, records, checkpoints, signedThrough, lastSeq,
                          expected, seen, unanchored)
    BY DEF Gathered, Result
  <1> QED BY <1>1, FailedResult

\* A line that is not understood, and is not the sink's.
LEMMA UnreadableKeeps ==
    ASSUME IInv, ScanMalformed \/ ScanUnknownVersion
    PROVE  IInv'
  <1>1. /\ Scanning /\ i' = i + 1 /\ intact' = FALSE
        /\ UNCHANGED <<phase, inputVars, lastSeq, expected, records, seen, checkpoints,
                       signedThrough, unanchored>>
    BY DEF ScanMalformed, ScanUnknownVersion, chainState
  <1>2. /\ Len(log) \in Nat /\ i \in Nat /\ i + 1 \in 1..Len(log)
        /\ HistoryOK' /\ LogOK' /\ StartOK' /\ DoneOK' /\ ImplementationsAgree'
        /\ phase' = "scan" /\ log' = log /\ edits' = edits /\ pub' = pub
        /\ edits' \in 0..MaxEdits /\ i' \in 0..Len(log') /\ pub' \in BOOLEAN
        /\ unanchored' = 0
        /\ edits = 0 => JoinedTo(log, i + 1) /\ line.v = "v2"
        /\ scanned(log, pub)[i + 1] = classify(Gathered, line, pub)
    BY <1>1, ReadKeeps
  <1>3. ~IsCp(line) /\ edits # 0
    <2>1. CASE ScanMalformed
      <3>1. ~IsCp(line) /\ ~IsRec(line)
        BY <2>1 DEF ScanMalformed, IsCp, IsRec
      <3>2. edits = 0 => IsRec(log[i + 1]) \/ IsCp(log[i + 1])
        <4>1. i + 1 \in Nat /\ i + 1 \in 1..(i + 1)
          BY <1>2
        <4> QED BY <1>2, <4>1, HeadStep
      <3> QED BY <3>1, <3>2 DEF line
    <2>2. CASE ScanUnknownVersion
      BY <1>2, <2>2 DEF ScanUnknownVersion, IsRec, IsCp
    <2> QED BY <2>1, <2>2
  <1>4. TypeOK'
    BY <1>1, <1>2 DEF IInv, TypeOK
  <1>5. HeadOK' /\ HonestOK'
    BY <1>1, <1>2, <1>3 DEF HeadOK, HonestOK
  <1>6. SignedOK' /\ SeenOK'
    BY <1>1, <1>2, <1>3, KeepsNoted DEF IInv
  <1>7. AgreeOK'
    <2>1. CASE ScanMalformed
      <3>1. ~IsCp(line) /\ ~IsRec(line)
        BY <2>1 DEF ScanMalformed, IsCp, IsRec
      <3>2. classify(Gathered, line, pub) = fail(Gathered, {"malformed"})
        BY <3>1 DEF classify
      <3>3. fail(Gathered, {"malformed"}) =
              [Gathered EXCEPT !.problems = problems \cup {"malformed"}, !.intact = FALSE]
        BY DEF fail, Gathered
      <3>4. problems' = problems \cup {"malformed"}
        BY <2>1 DEF ScanMalformed
      <3>5. Gathered' = fail(Gathered, {"malformed"})
        BY <1>1, <3>3, <3>4 DEF Gathered
      <3> QED BY <1>1, <1>2, <3>2, <3>5 DEF AgreeOK
    <2>2. CASE ScanUnknownVersion
      <3>1. ~IsCp(line) /\ IsRec(line) /\ line.v \notin {"v1", "v2"}
        BY <1>3, <2>2 DEF ScanUnknownVersion
      <3>2. classify(Gathered, line, pub) = fail(Gathered, {"version"})
        BY <3>1 DEF classify
      <3>3. fail(Gathered, {"version"}) =
              [Gathered EXCEPT !.problems = problems \cup {"version"}, !.intact = FALSE]
        BY DEF fail, Gathered
      <3>4. problems' = problems \cup {"version"}
        BY <2>2 DEF ScanUnknownVersion
      <3>5. Gathered' = fail(Gathered, {"version"})
        BY <1>1, <3>3, <3>4 DEF Gathered
      <3> QED BY <1>1, <1>2, <3>2, <3>5 DEF AgreeOK
    <2> QED BY <2>1, <2>2
  <1> QED BY <1>2, <1>4, <1>5, <1>6, <1>7 DEF IInv

\* A record: what breaks at it is what the other implementation finds, and when
\* nothing does it joins the chain.
LEMMA RecordKeeps ==
    ASSUME IInv, ScanRecord
    PROVE  IInv'
  <1>1. /\ Scanning /\ i' = i + 1 /\ IsRec(line) /\ line.v \in {"v1", "v2"}
        /\ intact' = (intact /\ Breaks(line) = {})
        /\ problems' = problems \cup Breaks(line)
                       \cup (IF line.v = "v1" THEN {"superseded_format"} ELSE {})
        /\ records' = records + 1 /\ lastSeq' = line.body.seq /\ expected' = line.body.hash
        /\ UNCHANGED <<phase, inputVars, seen, checkpoints, signedThrough, unanchored>>
    BY DEF ScanRecord
  <1>2. /\ Len(log) \in Nat /\ i \in Nat /\ i + 1 \in 1..Len(log)
        /\ HistoryOK' /\ LogOK' /\ StartOK' /\ DoneOK' /\ ImplementationsAgree'
        /\ phase' = "scan" /\ log' = log /\ edits' = edits /\ pub' = pub
        /\ edits' \in 0..MaxEdits /\ i' \in 0..Len(log') /\ pub' \in BOOLEAN
        /\ unanchored' = 0
        /\ Presentable(line, CheckpointsOf(history))
        /\ edits = 0 => /\ JoinedTo(log, i + 1) /\ line.v = "v2"
                        /\ intact /\ problems = {}
        /\ scanned(log, pub)[i + 1] = classify(Gathered, line, pub)
    BY <1>1, ReadKeeps
  <1>3. RecordLine(line) /\ ~IsCp(line) /\ line = log[i + 1] /\ line.body.seq \in Nat
    <2>1. RecordLine(line)
      BY <1>1, <1>2, PresentableKinds
    <2> QED BY <2>1, OneKind DEF RecordLine, line
  <1>4. TypeOK'
    <2>1. intact' \in BOOLEAN
      BY <1>1, Zenon
    <2> QED BY <1>1, <1>2, <1>3, <2>1 DEF IInv, TypeOK
  <1>5. HeadSeq(log, i + 1) = line.body.seq /\ HeadHash(log, i + 1) = line.body.hash
    BY <1>2, <1>3 DEF HeadSeq, HeadHash
  <1>6. intact \/ edits = 0 =>
          JoinedTo(log, i) /\ lastSeq = HeadSeq(log, i) /\ expected = HeadHash(log, i)
    BY DEF IInv, HeadOK
  <1>7. Breaks(line) = {} <=> /\ line.body.seq = lastSeq + 1 /\ line.body.prevHash = expected
                              /\ RecordHash(line) = line.body.hash
    BY DEF Breaks
  <1>8. /\ i \in Nat /\ HeadSeq(log, i + 1 - 1) = HeadSeq(log, i)
        /\ HeadHash(log, i + 1 - 1) = HeadHash(log, i)
    <2>1. i + 1 - 1 = i
      BY <1>2
    <2> QED BY <1>2, <2>1
  <1>9. HeadOK'
    <2>1. ASSUME intact' PROVE JoinedTo(log, i + 1)
      <3>1. intact /\ Breaks(line) = {}
        BY <1>1, <2>1
      <3>2. JoinsRecord(log, i + 1)
        BY <1>1, <1>3, <1>6, <1>7, <1>8, <3>1 DEF JoinsRecord
      <3> QED BY <1>2, <1>6, <3>1, <3>2, JoinedStep
    <2> QED BY <1>1, <1>2, <1>5, <2>1 DEF HeadOK
  <1>10. HonestOK'
    <2> SUFFICES ASSUME edits = 0 PROVE intact' /\ problems' = {}
      BY <1>2 DEF HonestOK
    <2>1. i + 1 \in Nat /\ i + 1 \in 1..(i + 1) /\ IsRec(log[i + 1])
      BY <1>1, <1>2, <1>3
    <2>2. JoinsRecord(log, i + 1)
      BY <1>2, <2>1, HeadStep
    <2>3. Breaks(line) = {}
      BY <1>3, <1>6, <1>7, <1>8, <2>2 DEF JoinsRecord
    <2>4. line.v # "v1" /\ intact /\ problems = {}
      BY <1>2
    <2> QED BY <1>1, <2>3, <2>4
  <1>11. SignedOK' /\ SeenOK'
    BY <1>1, <1>2, <1>3, KeepsNoted DEF IInv
  <1>12. AgreeOK'
    <2> DEFINE kinds == {k \in {"superseded_format", "sequence", "chain", "content"} :
                    \/ k = "superseded_format" /\ line.v = "v1"
                    \/ k = "sequence" /\ line.body.seq # lastSeq + 1
                    \/ k = "chain" /\ line.body.prevHash # expected
                    \/ k = "content" /\ RecordHash(line) # line.body.hash}
    <2>1. classify(Gathered, line, pub) = classifiedRecord(Gathered, line)
      BY <1>1, <1>3 DEF classify
    <2>2. Gathered.lastSeq = lastSeq /\ Gathered.expected = expected
      BY DEF Gathered
    <2>3. classifiedRecord(Gathered, line) =
            MovedTo(fail(Gathered, kinds), line.body.seq, line.body.hash)
      BY <2>2 DEF classifiedRecord, MovedTo
    <2>4. kinds = Breaks(line) \cup (IF line.v = "v1" THEN {"superseded_format"} ELSE {})
      BY DEF Breaks
    <2>5. kinds \subseteq {"superseded_format"} <=> Breaks(line) = {}
      BY DEF Breaks
    <2>6. intact \in BOOLEAN
      BY DEF IInv, TypeOK
    <2> HIDE DEF kinds
    <2>7. fail(Gathered, kinds) =
            Result(intact /\ kinds \subseteq {"superseded_format"}, problems \cup kinds, records,
                   checkpoints, signedThrough, lastSeq, expected, seen, unanchored)
      BY FailedGathered
    <2>8. /\ problems' = problems \cup kinds
          /\ intact' = (intact /\ kinds \subseteq {"superseded_format"})
      BY <1>1, <2>4, <2>5
    <2>9. Gathered' = classifiedRecord(Gathered, line)
      <3>1. classifiedRecord(Gathered, line) =
              Result(intact', problems', records', checkpoints', signedThrough', lastSeq',
                     expected', seen', unanchored')
        <4>1. MovedTo(Result(intact', problems', records, checkpoints, signedThrough, lastSeq,
                             expected, seen, unanchored), line.body.seq, line.body.hash)
              = Result(intact', problems', records + 1, checkpoints, signedThrough,
                       line.body.seq, line.body.hash, seen, unanchored)
          BY MovedResult
        <4>2. fail(Gathered, kinds) =
                Result(intact', problems', records, checkpoints, signedThrough, lastSeq,
                       expected, seen, unanchored)
          BY <2>7, <2>8
        <4> QED BY <1>1, <2>3, <4>1, <4>2
      <3> QED BY <3>1 DEF Gathered, Result
    <2> QED BY <1>1, <1>2, <2>1, <2>9 DEF AgreeOK
  <1> QED BY <1>2, <1>4, <1>9, <1>10, <1>11, <1>12 DEF IInv

\* A checkpoint: one that verifies commits to the head; under the key the
\* signatures are said to reach it.
LEMMA CheckpointKeeps ==
    ASSUME IInv, ScanCheckpoint
    PROVE  IInv'
  <1>1. /\ Scanning /\ i' = i + 1 /\ IsCp(line) /\ checkpoints' = checkpoints + 1
        /\ seen' = Noted(seen, line.body)
        /\ UNCHANGED <<phase, inputVars, lastSeq, expected, records, unanchored>>
    BY DEF ScanCheckpoint, chainState
  <1>2. /\ Len(log) \in Nat /\ i \in Nat /\ i + 1 \in 1..Len(log)
        /\ HistoryOK' /\ LogOK' /\ StartOK' /\ DoneOK' /\ ImplementationsAgree'
        /\ phase' = "scan" /\ log' = log /\ edits' = edits /\ pub' = pub
        /\ edits' \in 0..MaxEdits /\ i' \in 0..Len(log') /\ pub' \in BOOLEAN
        /\ unanchored' = 0
        /\ Presentable(line, CheckpointsOf(history))
        /\ edits = 0 => /\ JoinedTo(log, i + 1) /\ line.v = "v2"
                        /\ IsCp(line) => VerifyCheckpoint(line.body)
                        /\ intact /\ problems = {}
        /\ scanned(log, pub)[i + 1] = classify(Gathered, line, pub)
    BY <1>1, ReadKeeps
  <1>3. CheckpointLine(line) /\ ~IsRec(line) /\ line = log[i + 1] /\ line.body.seq \in Nat
    <2>1. CheckpointLine(line)
      BY <1>1, <1>2, PresentableKinds
    <2> QED BY <2>1, OneKind DEF CheckpointLine, line
  <1>4. /\ verifyCheckpointAgainst(line) =>
             /\ signedThrough' = IF pub THEN line.body.seq ELSE signedThrough
             /\ intact' = intact /\ problems' = problems
        /\ ~verifyCheckpointAgainst(line) =>
             /\ intact' = FALSE /\ problems' = problems \cup {"checkpoint"}
             /\ signedThrough' = signedThrough
    BY DEF ScanCheckpoint
  <1>5. /\ TypeOK /\ HeadOK /\ SignedOK /\ SeenOK
        /\ checkpoints \in Nat /\ signedThrough \in Nat /\ intact \in BOOLEAN /\ pub \in BOOLEAN
    BY DEF IInv, TypeOK
  <1>6. intact \/ edits = 0 =>
          JoinedTo(log, i) /\ lastSeq = HeadSeq(log, i) /\ expected = HeadHash(log, i)
    BY <1>5 DEF HeadOK
  <1>7. TypeOK'
    <2>1. signedThrough' \in Nat /\ intact' \in BOOLEAN
      BY <1>3, <1>4, <1>5
    <2> QED BY <1>1, <1>2, <1>5, <2>1 DEF TypeOK
  <1>8. HeadSeq(log, i + 1) = line.body.seq /\ HeadHash(log, i + 1) = line.body.hash
        /\ i \in Nat
    BY <1>2, <1>3 DEF HeadSeq, HeadHash
  <1>9. edits = 0 => verifyCheckpointAgainst(line)
    <2> SUFFICES ASSUME edits = 0 PROVE verifyCheckpointAgainst(line)
      OBVIOUS
    <2>1. i + 1 \in Nat /\ i + 1 \in 1..(i + 1) /\ ~IsRec(log[i + 1])
      BY <1>2, <1>3
    <2>2. JoinsCheckpoint(log, i + 1)
      BY <1>2, <2>1, HeadStep
    <2> QED BY <1>1, <1>2, <1>3, <1>6, <1>8, <2>2 DEF JoinsCheckpoint, verifyCheckpointAgainst
  <1>10. HeadOK'
    <2> SUFFICES ASSUME intact' \/ edits = 0
                 PROVE  /\ JoinedTo(log, i + 1) /\ lastSeq = HeadSeq(log, i + 1)
                        /\ expected = HeadHash(log, i + 1)
      BY <1>1, <1>2 DEF HeadOK
    <2>1. verifyCheckpointAgainst(line) /\ (intact \/ edits = 0)
      BY <1>4, <1>9
    <2>2. JoinsCheckpoint(log, i + 1)
      BY <1>3, <1>6, <1>8, <2>1 DEF JoinsCheckpoint, verifyCheckpointAgainst
    <2>3. JoinedTo(log, i + 1)
      BY <1>2, <1>6, <2>1, <2>2, JoinedStep
    <2> QED BY <1>6, <1>8, <2>1, <2>3 DEF verifyCheckpointAgainst
  <1>11. HonestOK'
    BY <1>2, <1>4, <1>9 DEF HonestOK
  <1>12. (\A c : c \in 1..i' => c \in 1..i \/ c = i + 1) /\ 1..i \subseteq 1..i' /\ i + 1 \in 1..i'
    BY <1>1, <1>2
  <1>13. SignedOK'
    <2> SUFFICES ASSUME signedThrough' # 0
                 PROVE  \E c \in 1..i' : /\ IsCp(log[c]) /\ VerifyCheckpoint(log[c].body)
                                         /\ log[c].body.seq = signedThrough'
      BY <1>2 DEF SignedOK
    <2>1. CASE signedThrough' = signedThrough
      BY <1>5, <1>12, <2>1 DEF SignedOK
    <2>2. CASE signedThrough' # signedThrough
      <3>1. verifyCheckpointAgainst(line) /\ pub /\ signedThrough' = line.body.seq
        BY <1>4, <2>2
      <3>2. VerifyCheckpoint(line.body)
        BY <3>1 DEF verifyCheckpointAgainst
      <3> QED BY <1>1, <1>3, <1>12, <3>1, <3>2
    <2> QED BY <2>1, <2>2
  <1>14. SeenOK'
    <2>1. \A h : h \in seen' <=> \/ h \in seen /\ h[1] # line.body.seq
                                 \/ h = <<line.body.seq, line.body.hash>>
      BY <1>1 DEF Noted
    <2>2. ASSUME NEW h \in seen'
          PROVE  \E c \in 1..i' : IsCp(log[c]) /\ h = <<log[c].body.seq, log[c].body.hash>>
      <3>1. CASE h \in seen
        BY <1>5, <1>12, <3>1 DEF SeenOK
      <3>2. CASE h \notin seen
        BY <1>1, <1>3, <1>12, <2>1, <3>2
      <3> QED BY <3>1, <3>2
    <2>3. <<line.body.seq, line.body.hash>>[1] = line.body.seq
      OBVIOUS
    <2>4. ASSUME NEW c \in 1..i', IsCp(log[c])
          PROVE  \E h \in seen' : h[1] = log[c].body.seq
      <3>1. CASE log[c].body.seq = line.body.seq
        <4>1. <<line.body.seq, line.body.hash>> \in seen'
          BY <2>1
        <4> QED BY <2>3, <3>1, <4>1
      <3>2. CASE log[c].body.seq # line.body.seq
        <4>1. c \in 1..i
          BY <1>3, <1>12, <3>2
        <4>2. PICK h \in seen : h[1] = log[c].body.seq
          BY <1>5, <2>4, <4>1 DEF SeenOK
        <4> QED BY <2>1, <3>2, <4>2
      <3> QED BY <3>1, <3>2
    <2>5. checkpoints' > 0
      BY <1>1, <1>5
    <2> QED BY <1>2, <2>2, <2>4, <2>5 DEF SeenOK
  <1>15. AgreeOK'
    <2> DEFINE read == Result(intact, problems, records, checkpoints', signedThrough, lastSeq,
                              expected, seen', unanchored)
    <2>1. classify(Gathered, line, pub) = classifiedCheckpoint(Gathered, line, pub)
      BY <1>1, <1>3 DEF classify
    <2>2. [Gathered EXCEPT !.checkpoints = @ + 1, !.seen = Noted(@, line.body)] = read
      <3>1. Gathered = Result(intact, problems, records, checkpoints, signedThrough, lastSeq,
                              expected, seen, unanchored)
        BY DEF Gathered, Result
      <3>2. NotedIn(Gathered, checkpoints', seen') = read
        BY <3>1, NotedResult
      <3>3. Gathered.checkpoints = checkpoints /\ Gathered.seen = seen
        BY DEF Gathered
      <3> HIDE DEF read
      <3> QED BY <1>1, <3>2, <3>3 DEF NotedIn
    <2>3. Gathered.lastSeq = lastSeq /\ Gathered.expected = expected
      BY DEF Gathered
    <2> HIDE DEF read
    <2>5. CASE ~verifyCheckpointAgainst(line)
      <3>1. classifiedCheckpoint(Gathered, line, pub) = fail(read, {"checkpoint"})
        BY <2>2, <2>3, <2>5
           DEF classifiedCheckpoint, verifyCheckpointAgainst, signatureValid
      <3>2. fail(read, {"checkpoint"}) =
              Result(intact /\ {"checkpoint"} \subseteq {"superseded_format"},
                     problems \cup {"checkpoint"}, records, checkpoints', signedThrough,
                     lastSeq, expected, seen', unanchored)
        BY FailedResult DEF read
      <3>3. /\ intact' = (intact /\ {"checkpoint"} \subseteq {"superseded_format"})
            /\ problems' = problems \cup {"checkpoint"} /\ signedThrough' = signedThrough
        BY <1>4, <2>5
      <3>4. Gathered' = fail(read, {"checkpoint"})
        BY <1>1, <3>2, <3>3 DEF Gathered, Result
      <3> QED BY <1>1, <1>2, <2>1, <3>1, <3>4 DEF AgreeOK
    <2>6. CASE verifyCheckpointAgainst(line)
      <3>1. classifiedCheckpoint(Gathered, line, pub) =
              IF pub THEN [read EXCEPT !.signedThrough = line.body.seq] ELSE read
        BY <2>2, <2>3, <2>6
           DEF classifiedCheckpoint, verifyCheckpointAgainst, signatureValid
      <3>2. intact' = intact /\ problems' = problems
            /\ signedThrough' = IF pub THEN line.body.seq ELSE signedThrough
        BY <1>4, <2>6
      <3>3. classifiedCheckpoint(Gathered, line, pub) =
              Result(intact, problems, records, checkpoints',
                     IF pub THEN line.body.seq ELSE signedThrough,
                     lastSeq, expected, seen', unanchored)
        <4>1. [read EXCEPT !.signedThrough = line.body.seq] =
                Result(intact, problems, records, checkpoints', line.body.seq, lastSeq,
                       expected, seen', unanchored)
          BY SignedResult DEF read
        <4> QED BY <3>1, <4>1 DEF read
      <3>4. Gathered' = classifiedCheckpoint(Gathered, line, pub)
        BY <1>1, <3>2, <3>3 DEF Gathered, Result
      <3> QED BY <1>1, <1>2, <2>1, <3>4 DEF AgreeOK
    <2> QED BY <2>5, <2>6
  <1> QED BY <1>2, <1>7, <1>10, <1>11, <1>13, <1>14, <1>15 DEF IInv

\* The problems of the end, of the anchor and of a log that has no checkpoint: the
\* same in both implementations.
LEMMA SameEnd ==
    ASSUME lastSeq \in Nat, anchor # None => anchor.seq \in Nat,
           unanchored = 0, scanned(log, pub)[Len(log)] = Gathered
    PROVE  LET kinds == AnchorProblem \cup Unanchored
               tail == IF pub /\ lastSeq > signedThrough THEN lastSeq - signedThrough ELSE 0
               res == agwVerify(log, pub, anchor)
           IN /\ res.intact = (intact /\ kinds = {}) /\ res.problems = problems \cup kinds
              /\ res.records = records /\ res.checkpoints = checkpoints
              /\ res.lastSeq = lastSeq /\ res.signedThrough = signedThrough
              /\ res.unanchored = tail
  <1> DEFINE kinds == AnchorProblem \cup Unanchored
             tail == IF pub /\ lastSeq > signedThrough THEN lastSeq - signedThrough ELSE 0
             usable == anchor # None /\ (pub => signatureValid(anchor))
             found == {k \in {"anchor_invalid", "rollback", "missing_anchor", "forked",
                              "unanchored"} :
                \/ k = "anchor_invalid" /\ anchor # None /\ ~usable
                \/ k = "rollback" /\ usable /\ lastSeq < anchor.seq
                \/ k = "missing_anchor" /\ usable /\ lastSeq >= anchor.seq
                   /\ \A h \in seen : h[1] # anchor.seq
                \/ k = "forked" /\ usable /\ lastSeq >= anchor.seq
                   /\ \E h \in seen : h[1] = anchor.seq
                   /\ <<anchor.seq, anchor.hash>> \notin seen
                \/ k = "unanchored" /\ pub /\ checkpoints = 0 /\ records > 0}
  <1>1. /\ Gathered.lastSeq = lastSeq /\ Gathered.seen = seen /\ Gathered.records = records
        /\ Gathered.checkpoints = checkpoints /\ Gathered.signedThrough = signedThrough
    BY DEF Gathered
  <1>2. agwVerify(log, pub, anchor) = [fail(Gathered, found) EXCEPT !.unanchored = tail]
    BY <1>1 DEF agwVerify
  <1>3. found = kinds
    <2>1. anchor = None => AnchorProblem = {}
      BY DEF AnchorProblem
    <2>2. anchor # None /\ ~usable => AnchorProblem = {"anchor_invalid"}
      BY DEF AnchorProblem, signatureValid
    <2>3. usable => anchor # None /\ ~(pub /\ ~VerifyCheckpoint(anchor))
      BY DEF signatureValid
    <2>4. usable => (lastSeq >= anchor.seq <=> ~(lastSeq < anchor.seq))
      OBVIOUS
    <2>5. usable /\ lastSeq < anchor.seq => AnchorProblem = {"rollback"}
      BY <2>3 DEF AnchorProblem
    <2>6. usable /\ lastSeq >= anchor.seq /\ (\A h \in seen : h[1] # anchor.seq)
            => AnchorProblem = {"missing_anchor"}
      BY <2>3, <2>4 DEF AnchorProblem
    <2>7. usable /\ lastSeq >= anchor.seq /\ (\E h \in seen : h[1] = anchor.seq)
            => AnchorProblem = IF <<anchor.seq, anchor.hash>> \notin seen THEN {"forked"} ELSE {}
      BY <2>3, <2>4 DEF AnchorProblem
    <2>8. Unanchored = IF pub /\ checkpoints = 0 /\ records > 0 THEN {"unanchored"} ELSE {}
      BY DEF Unanchored
    <2> QED BY <2>1, <2>2, <2>3, <2>4, <2>5, <2>6, <2>7, <2>8
  <1>4. found \subseteq {"superseded_format"} <=> found = {}
    <2>1. "superseded_format" \notin found
      OBVIOUS
    <2> HIDE DEF found
    <2> QED BY <2>1
  <1> HIDE DEF found, kinds, tail
  <1>5. fail(Gathered, found) =
          Result(intact /\ found \subseteq {"superseded_format"}, problems \cup found, records,
                 checkpoints, signedThrough, lastSeq, expected, seen, unanchored)
    BY FailedGathered
  <1>6. [fail(Gathered, found) EXCEPT !.unanchored = tail] =
          Result(intact /\ kinds = {}, problems \cup kinds, records, checkpoints,
                 signedThrough, lastSeq, expected, seen, tail)
    <2>1. PICK ok : ok = (intact /\ kinds = {})
      OBVIOUS
    <2>2. fail(Gathered, found) = Result(ok, problems \cup kinds, records, checkpoints,
                                         signedThrough, lastSeq, expected, seen, unanchored)
      BY <1>3, <1>4, <1>5, <2>1
    <2> QED BY <2>1, <2>2, SMTT(20) DEF Result
  <1> QED BY <1>2, <1>6 DEF Result, kinds, tail

\* The end of the scan.
LEMMA FinishKeeps ==
    ASSUME IInv, Finish
    PROVE  IInv'
  <1> DEFINE kinds == AnchorProblem \cup Unanchored
  <1>1. /\ phase = "scan" /\ i = Len(log) /\ phase' = "done"
        /\ unanchored' = IF pub /\ lastSeq > signedThrough THEN lastSeq - signedThrough ELSE 0
        /\ intact' = (intact /\ kinds = {})
        /\ problems' = problems \cup AnchorProblem \cup Unanchored
        /\ UNCHANGED <<history, log, edits, pub, anchor, i, lastSeq, expected, records, seen,
                       checkpoints, signedThrough>>
    BY DEF Finish, inputVars, chainState
  <1>2. AnchorProblem' = AnchorProblem /\ Unanchored' = Unanchored
    BY <1>1 DEF AnchorProblem, Unanchored
  <1>3. TypeOK /\ lastSeq \in Nat /\ signedThrough \in Nat /\ intact \in BOOLEAN
    BY DEF IInv, TypeOK
  <1>4. TypeOK'
    <2>1. unanchored' \in Nat
      BY <1>1, <1>3
    <2>2. intact' \in BOOLEAN
      BY <1>1, Zenon
    <2> QED BY <1>1, <1>3, <2>1, <2>2 DEF TypeOK
  <1>5. HistoryOK' /\ LogOK' /\ StartOK' /\ SignedOK' /\ SeenOK'
    BY <1>1 DEF IInv, HistoryOK, LogOK, StartOK, SignedOK, SeenOK
  <1>6. HeadOK'
    BY <1>1 DEF IInv, HeadOK
  <1>7. AgreeOK' /\ HonestOK'
    BY <1>1 DEF AgreeOK, HonestOK
  <1>8. DoneOK'
    <2>1. intact' => kinds' = {}
      BY <1>1, <1>2
    <2>2. edits = 0 => intact /\ problems = {}
      BY <1>1 DEF IInv, HonestOK
    <2>3. edits = 0 => problems' = kinds /\ (kinds = {} => intact')
      BY <1>1, <2>2
    <2> QED BY <1>1, <1>2, <2>1, <2>3 DEF DoneOK
  <1>9. ImplementationsAgree'
    <2>1. /\ anchor # None => anchor.seq \in Nat
          /\ unanchored = 0 /\ scanned(log, pub)[Len(log)] = Gathered
      BY <1>1 DEF IInv, StartOK, AgreeOK
    <2> DEFINE res == agwVerify(log, pub, anchor)
    <2>2. /\ res.intact = (intact /\ kinds = {}) /\ res.problems = problems \cup kinds
          /\ res.records = records /\ res.checkpoints = checkpoints
          /\ res.lastSeq = lastSeq /\ res.signedThrough = signedThrough
          /\ res.unanchored = IF pub /\ lastSeq > signedThrough
                              THEN lastSeq - signedThrough ELSE 0
      BY <1>3, <2>1, SameEnd
    <2>3. problems' = problems \cup kinds
      BY <1>1
    <2>4. agwVerify(log', pub', anchor') = res
      BY <1>1
    <2> HIDE DEF res, kinds
    <2>5. /\ res.intact = intact' /\ res.problems = problems'
          /\ res.records = records' /\ res.checkpoints = checkpoints'
          /\ res.lastSeq = lastSeq' /\ res.signedThrough = signedThrough'
          /\ res.unanchored = unanchored'
      BY <1>1, <2>2, <2>3
    <2> QED BY <2>4, <2>5 DEF ImplementationsAgree
  <1> QED BY <1>4, <1>5, <1>6, <1>7, <1>8, <1>9 DEF IInv

\* Every step keeps the invariant.
LEMMA NextKeeps == IInv /\ [Next]_vars => IInv'
  <1> SUFFICES ASSUME IInv, [Next]_vars PROVE IInv'
    OBVIOUS
  <1>1. CASE WriteRecord \/ WriteCheckpoint
    BY <1>1, WriteKeeps
  <1>2. CASE Present
    BY <1>2, PresentKeeps
  <1>3. CASE Edit
    BY <1>3, EditKeeps
  <1>4. CASE Begin
    BY <1>4, BeginKeeps
  <1>5. CASE ScanMalformed \/ ScanUnknownVersion
    BY <1>5, UnreadableKeeps
  <1>6. CASE ScanCheckpoint
    BY <1>6, CheckpointKeeps
  <1>7. CASE ScanRecord
    BY <1>7, RecordKeeps
  <1>8. CASE Finish
    BY <1>8, FinishKeeps
  <1>9. CASE UNCHANGED vars
    <2> USE <1>9 DEF vars, inputVars, chainState
    <2>1. TypeOK' /\ HistoryOK' /\ LogOK' /\ StartOK'
      BY DEF IInv, TypeOK, HistoryOK, LogOK, StartOK
    <2>2. HeadOK' /\ SignedOK' /\ SeenOK'
      BY DEF IInv, HeadOK, SignedOK, SeenOK
    <2>3. AgreeOK' /\ HonestOK'
      BY DEF IInv, AgreeOK, HonestOK, Gathered
    <2>4. DoneOK'
      BY DEF IInv, DoneOK, AnchorProblem, Unanchored
    <2>5. ImplementationsAgree'
      BY DEF IInv, ImplementationsAgree, Done
    <2> QED BY <2>1, <2>2, <2>3, <2>4, <2>5 DEF IInv
  <1> QED BY <1>1, <1>2, <1>3, <1>4, <1>5, <1>6, <1>7, <1>8, <1>9 DEF Next, Scan

\* The invariant holds in every reachable state.
THEOREM VerifierInvariant == Spec => []IInv
  <1>1. Init => IInv
    BY InitIInv
  <1>2. IInv /\ [Next]_vars => IInv'
    BY NextKeeps
  <1> QED BY <1>1, <1>2, PTL DEF Spec

\* The loop of pkg/evidence and the standalone auditor's tool agree on every log:
\* verdict, problems, counts and how far the signatures reach.
THEOREM ImplementationsAgreeHolds == Spec => []ImplementationsAgree
  <1>1. IInv => ImplementationsAgree
    BY DEF IInv
  <1> QED BY <1>1, VerifierInvariant, PTL

-----------------------------------------------------------------------------
(* What a log that verifies is *)

\* The log a verifier calls intact is a chain to its end.
LEMMA IntactIsChain ==
    ASSUME IInv, Done, intact \/ edits = 0
    PROVE  /\ Len(log) \in Nat /\ JoinedTo(log, Len(log)) /\ i = Len(log)
           /\ lastSeq = HeadSeq(log, Len(log)) /\ lastSeq \in Nat
  BY DEF IInv, Done, DoneOK, HeadOK, TypeOK, LogOK, PresentableLog

\* The history is a chain of v2 lines.
LEMMA HistoryIsChain ==
    ASSUME HistoryOK
    PROVE  /\ Len(history) \in Nat /\ JoinedTo(history, Len(history))
           /\ \A n \in 1..Len(history) : history[n].v = "v2"
  BY DEF HistoryOK

\* A chain and the history agree through a sequence if they share a line with that
\* sequence and hash.
LEMMA SharedLine ==
    ASSUME HistoryOK, Len(log) \in Nat, JoinedTo(log, Len(log)),
           NEW c \in 1..Len(log), NEW d \in 1..Len(history),
           log[c].body.hash = history[d].body.hash
    PROVE  RecordsThrough(log, log[c].body.seq) = RecordsThrough(history, log[c].body.seq)
  <1>1. HeadHash(log, c) = HeadHash(history, d) /\ HeadSeq(log, c) = log[c].body.seq
    BY DEF HeadHash, HeadSeq
  <1>2. c \in 0..Len(log) /\ d \in 0..Len(history)
    BY HistoryIsChain
  <1>3. /\ Len(history) \in Nat /\ JoinedTo(history, Len(history))
        /\ \A n \in 1..Len(history) : history[n].v = "v2"
    BY HistoryIsChain
  <1>4. RecordsThrough(log, HeadSeq(log, c)) = RecordsThrough(history, HeadSeq(log, c))
    BY <1>1, <1>2, <1>3, SharedHead
  <1> QED BY <1>1, <1>4

\* A checkpoint of the log that verifies under the key is in the history.
LEMMA VerifiedInHistory ==
    ASSUME LogOK, NEW c \in 1..Len(log), IsCp(log[c]), VerifyCheckpoint(log[c].body)
    PROVE  \E d \in 1..Len(history) : IsCp(history[d]) /\ history[d].body = log[c].body
  <1>1. Presentable(log[c], CheckpointsOf(history))
    BY DEF LogOK, PresentableLog
  <1>2. log[c].body \in CheckpointsOf(history)
    BY <1>1, PresentableKinds
  <1> QED BY <1>2 DEF CheckpointsOf

\* Under the key, everything the signatures reach is the sink's.
LEMMA IInvSigned == IInv => SignedHolds
  <1> SUFFICES ASSUME IInv, Done, pub, intact
               PROVE  /\ InOrder(log)
                      /\ RecordsThrough(log, signedThrough) = RecordsThrough(history, signedThrough)
    BY DEF SignedHolds
  <1>1. Len(log) \in Nat /\ JoinedTo(log, Len(log)) /\ i = Len(log)
    BY IntactIsChain
  <1>2. HistoryOK /\ LogOK /\ SignedOK
    BY DEF IInv
  <1>3. InOrder(log)
    BY <1>1, ChainInOrder
  <1>4. CASE signedThrough = 0
    <2>1. /\ HeadHash(log, 0) = HeadHash(history, 0) /\ HeadSeq(log, 0) = 0
          /\ 0 \in 0..Len(log) /\ 0 \in 0..Len(history)
      BY <1>1, <1>2, HistoryIsChain DEF HeadHash, HeadSeq
    <2>2. RecordsThrough(log, HeadSeq(log, 0)) = RecordsThrough(history, HeadSeq(log, 0))
      BY <1>1, <1>2, <2>1, HistoryIsChain, SharedHead
    <2> QED BY <1>3, <1>4, <2>1, <2>2
  <1>5. CASE signedThrough # 0
    <2>1. PICK c \in 1..Len(log) : /\ IsCp(log[c]) /\ VerifyCheckpoint(log[c].body)
                                   /\ log[c].body.seq = signedThrough
      BY <1>1, <1>2, <1>5 DEF SignedOK
    <2>2. PICK d \in 1..Len(history) : history[d].body = log[c].body
      BY <1>2, <2>1, VerifiedInHistory
    <2>3. RecordsThrough(log, log[c].body.seq) = RecordsThrough(history, log[c].body.seq)
      BY <1>1, <1>2, <2>2, SharedLine
    <2> QED BY <1>3, <2>1, <2>3
  <1> QED BY <1>4, <1>5

\* Against a checkpoint that was kept, everything it covers is the sink's.
LEMMA IInvAnchored == IInv => AnchorHolds
  <1> SUFFICES ASSUME IInv, Done, intact, anchor \in Kept
               PROVE  /\ InOrder(log) /\ lastSeq >= anchor.seq
                      /\ RecordsThrough(log, anchor.seq) = RecordsThrough(history, anchor.seq)
    BY DEF AnchorHolds
  <1>1. Len(log) \in Nat /\ JoinedTo(log, Len(log)) /\ i = Len(log) /\ lastSeq \in Nat
    BY IntactIsChain
  <1>2. HistoryOK /\ SeenOK
    BY DEF IInv
  <1>3. PICK d \in 1..Len(history) : anchor = history[d].body /\ anchor.seq \in Nat
    BY <1>2, KeptSigned
  <1>4. anchor # None /\ AnchorProblem = {}
    BY DEF Kept, IInv, DoneOK, Done
  <1>5. ~(lastSeq < anchor.seq) /\ <<anchor.seq, anchor.hash>> \in seen
    BY <1>4 DEF AnchorProblem
  <1>6. PICK c \in 1..Len(log) :
            <<anchor.seq, anchor.hash>> = <<log[c].body.seq, log[c].body.hash>>
    BY <1>1, <1>2, <1>5 DEF SeenOK
  <1>7. log[c].body.seq = anchor.seq /\ log[c].body.hash = history[d].body.hash
    BY <1>3, <1>6
  <1>8. RecordsThrough(log, anchor.seq) = RecordsThrough(history, anchor.seq)
    BY <1>1, <1>2, <1>7, SharedLine
  <1> QED BY <1>1, <1>3, <1>5, <1>8, ChainInOrder

\* A log that verifies is the sink's as far as the key or the anchor reaches, for
\* every history and any number of edits.
THEOREM TamperEvidentHolds == Spec => []TamperEvident
  <1>1. IInv => TamperEvident
    <2> SUFFICES ASSUME IInv PROVE TamperEvident
      OBVIOUS
    <2>1. InOrder(history)
      BY HistoryIsChain, ChainInOrder DEF IInv
    <2>2. TypeOK
      BY DEF IInv
    <2> QED BY <2>1, <2>2, IInvSigned, IInvAnchored DEF TamperEvident
  <1> QED BY <1>1, VerifierInvariant, PTL

-----------------------------------------------------------------------------
(* What the commands print *)

\* In a chain there is one record for each sequence number after n.
LEMMA RecordsAfterCount ==
    ASSUME NEW s, Len(s) \in Nat, JoinedTo(s, Len(s)), NEW n \in Nat,
           n <= HeadSeq(s, Len(s))
    PROVE  RecordsAfter(s, n) = HeadSeq(s, Len(s)) - n
  <1> DEFINE top == HeadSeq(s, Len(s))
             P == {p \in 1..Len(s) : IsRec(s[p]) /\ s[p].body.seq > n}
             f == [p \in P |-> s[p].body.seq]
  <1>1. top \in Nat
    BY HeadNat
  <1>2. ASSUME NEW p \in P
        PROVE  p \in 1..Len(s) /\ s[p].body.seq \in (n + 1)..top
    <2>1. HeadSeq(s, p) = s[p].body.seq /\ HeadSeq(s, p) \in Nat
      <3>1. HeadSeq(s, p) = s[p].body.seq
        BY DEF HeadSeq
      <3> QED BY <3>1, HeadNat
    <2>2. HeadSeq(s, p) <= top
      BY HeadGrows
    <2> QED BY <1>1, <2>1, <2>2
  <1>3. ASSUME NEW p \in P, NEW q \in P, s[p].body.seq = s[q].body.seq PROVE p = q
    <2>1. InOrder(s)
      BY ChainInOrder
    <2>2. s[p].body.seq \in Int /\ p \in 1..Len(s) /\ q \in 1..Len(s) /\ IsRec(s[p]) /\ IsRec(s[q])
      BY <1>1, <1>2
    <2> HIDE DEF P
    <2>3. ~(p < q) /\ ~(q < p)
      BY <1>3, <2>1, <2>2 DEF InOrder
    <2> QED BY <2>2, <2>3
  <1>4. ASSUME NEW q \in (n + 1)..top PROVE \E p \in P : s[p].body.seq = q
    <2>1. q \in 1..top /\ q > n
      BY <1>1
    <2>2. PICK p \in 1..Len(s) : IsRec(s[p]) /\ s[p].body.seq = q
      BY <2>1, ChainComplete
    <2> QED BY <2>1, <2>2
  <1>5. RecordsAfter(s, n) = Cardinality(P)
    BY DEF RecordsAfter
  <1> HIDE DEF P, top
  <1>6. f \in Bijection(P, (n + 1)..top)
    BY <1>2, <1>3, <1>4 DEF Bijection, Injection, Surjection, IsInjective
  <1>7. IsFiniteSet(P)
    <2>1. P \subseteq 1..Len(s)
      BY <1>2
    <2>2. IsFiniteSet(1..Len(s))
      BY FS_Interval
    <2> QED BY <2>1, <2>2, FS_Subset
  <1>8. Cardinality((n + 1)..top) = Cardinality(P)
    <2>1. ExistsBijection(P, (n + 1)..top)
      BY <1>6 DEF ExistsBijection
    <2> QED BY <1>7, <2>1, FS_Bijection
  <1>9. Cardinality((n + 1)..top) = top - n
    <2>1. n <= top
      BY DEF top
    <2>2. Cardinality((n + 1)..top) = IF n + 1 > top THEN 0 ELSE top - (n + 1) + 1
      BY <1>1, FS_Interval
    <2> QED BY <1>1, <2>1, <2>2
  <1> QED BY <1>5, <1>8, <1>9 DEF top

\* A checkpoint of the history is found in a log nobody edited.
LEMMA HonestAnchor ==
    ASSUME IInv, Done, edits = 0, anchor \in Kept \cup {None}
    PROVE  AnchorProblem = {}
  <1>1. CASE anchor = None
    BY <1>1 DEF AnchorProblem
  <1>2. CASE anchor # None
    <2>1. HistoryOK /\ SeenOK /\ log = history /\ anchor \in Kept
      BY <1>2 DEF IInv, LogOK, Done
    <2>2. /\ Len(log) \in Nat /\ JoinedTo(log, Len(log)) /\ i = Len(log)
          /\ lastSeq = HeadSeq(log, Len(log)) /\ lastSeq \in Nat
      BY IntactIsChain
    <2>3. PICK d \in 1..Len(log) : /\ anchor = log[d].body /\ IsCp(log[d])
                                   /\ VerifyCheckpoint(anchor) /\ anchor.seq \in Nat
      BY <2>1, KeptSigned
    <2>4. HeadSeq(log, d) = anchor.seq /\ HeadHash(log, d) = anchor.hash
      BY <2>3 DEF HeadSeq, HeadHash
    <2>5. HeadSeq(log, d) <= HeadSeq(log, Len(log))
      BY <2>2, HeadGrows
    <2>6. ~(lastSeq < anchor.seq)
      BY <2>2, <2>3, <2>4, <2>5
    <2>7. PICK h \in seen : h[1] = anchor.seq
      BY <2>1, <2>2, <2>3 DEF SeenOK
    <2>8. PICK c \in 1..Len(log) : IsCp(log[c]) /\ h = <<log[c].body.seq, log[c].body.hash>>
      BY <2>1, <2>2 DEF SeenOK
    <2>9. HeadSeq(log, c) = anchor.seq /\ HeadHash(log, c) = log[c].body.hash
      BY <2>7, <2>8 DEF HeadSeq, HeadHash
    <2>10. HeadHash(log, c) = HeadHash(log, d)
      <3>1. CASE c <= d
        BY <2>2, <2>4, <2>9, <3>1, HeadGrows
      <3>2. CASE d <= c
        BY <2>2, <2>4, <2>9, <3>2, HeadGrows
      <3> QED BY <3>1, <3>2
    <2>11. h = <<anchor.seq, anchor.hash>>
      BY <2>4, <2>7, <2>8, <2>9, <2>10
    <2> QED BY <2>3, <2>6, <2>7, <2>11 DEF AnchorProblem
  <1> QED BY <1>1, <1>2

\* A log nobody edited verifies.
LEMMA IInvHonest == IInv => HonestVerifies
  <1> SUFFICES ASSUME IInv, Done, edits = 0, anchor \in Kept \cup {None}, pub => Kept # {}
               PROVE  intact /\ problems = {}
    BY DEF HonestVerifies
  <1>1. AnchorProblem = {}
    BY HonestAnchor
  <1>2. Unanchored = {}
    <2> SUFFICES ASSUME pub PROVE checkpoints # 0
      BY DEF Unanchored
    <2>1. HistoryOK /\ SeenOK /\ log = history /\ i = Len(log) /\ checkpoints \in Nat
      BY DEF IInv, LogOK, DoneOK, Done, TypeOK
    <2>2. PICK c \in Kept : TRUE
      OBVIOUS
    <2>3. PICK d \in 1..Len(history) : IsCp(history[d])
      BY <2>1, KeptSigned
    <2>4. checkpoints > 0
      BY <2>1, <2>3 DEF SeenOK
    <2> QED BY <2>1, <2>4
  <1> QED BY <1>1, <1>2 DEF IInv, DoneOK, Done

\* What the commands print follows from the invariant.
LEMMA IInvVerdict == IInv => VerdictSound
  <1> SUFFICES ASSUME IInv, Done
               PROVE  LET res == agwVerify(log, pub, anchor) IN
                      /\ agwExitCode(res) = ExitCode
                      /\ ExitCode = 0 => agwVerdict(res, pub) = Verdict
                      /\ Verdict = "VERIFIED" =>
                            /\ RecordsAfter(log, lastSeq) = 0
                            /\ RecordsThrough(log, lastSeq) = RecordsThrough(history, lastSeq)
                      /\ Verdict = "VERIFIED THROUGH" =>
                            unanchored = RecordsAfter(log, signedThrough)
                      /\ edits = 0 /\ anchor \in Kept \cup {None} =>
                            Verdict # "TAMPERING DETECTED"
    BY IInvHonest DEF VerdictSound
  <1> DEFINE res == agwVerify(log, pub, anchor)
  <1>1. /\ res.intact = intact /\ res.problems = problems /\ res.records = records
        /\ res.unanchored = unanchored
    BY DEF IInv, ImplementationsAgree
  <1> HIDE DEF res
  <1>2. /\ records \in Nat /\ unanchored \in Nat /\ lastSeq \in Nat /\ signedThrough \in Nat
        /\ intact \in BOOLEAN /\ pub \in BOOLEAN
    BY DEF IInv, TypeOK
  <1>3. agwExitCode(res) = ExitCode
    BY <1>1 DEF agwExitCode, ExitCode
  <1>4. /\ intact /\ records = 0 => Verdict = "EMPTY"
        /\ intact /\ records # 0 /\ ~pub => Verdict = "VERIFIED (chain only)"
        /\ intact /\ records # 0 /\ pub /\ unanchored > 0 => Verdict = "VERIFIED THROUGH"
        /\ intact /\ records # 0 /\ pub /\ ~(unanchored > 0) => Verdict = "VERIFIED"
        /\ ~intact => Verdict = IF onlyUnanchored(problems) THEN "NOT VERIFIED"
                                ELSE "TAMPERING DETECTED"
    <2>1. (records > 0) <=> (records # 0)
      BY <1>2
    <2>2. CASE intact /\ records = 0
      BY <2>1, <2>2 DEF Verdict
    <2>3. CASE intact /\ records # 0 /\ ~pub
      BY <2>1, <2>3 DEF Verdict
    <2>4. CASE intact /\ records # 0 /\ pub
      BY <2>1, <2>4 DEF Verdict
    <2>5. CASE ~intact
      BY <2>1, <2>5 DEF Verdict
    <2> QED BY <2>2, <2>3, <2>4, <2>5
  <1>5. ExitCode = 0 => agwVerdict(res, pub) = Verdict
    <2> SUFFICES ASSUME intact PROVE agwVerdict(res, pub) = Verdict
      BY DEF ExitCode
    <2>1. CASE records = 0
      BY <1>1, <1>4, <2>1 DEF agwVerdict
    <2>2. CASE records # 0 /\ ~pub
      BY <1>1, <1>4, <2>2 DEF agwVerdict
    <2>3. CASE records # 0 /\ pub
      BY <1>1, <1>4, <2>3 DEF agwVerdict
    <2> QED BY <2>1, <2>2, <2>3
  <1>6. /\ Verdict = "VERIFIED" => intact /\ pub /\ ~(unanchored > 0)
        /\ Verdict = "VERIFIED THROUGH" => intact /\ pub /\ unanchored > 0
        /\ intact => Verdict # "TAMPERING DETECTED"
    <2>1. CASE ~intact
      BY <1>4, <2>1
    <2>2. CASE intact /\ records = 0
      BY <1>4, <2>2
    <2>3. CASE intact /\ records # 0 /\ ~pub
      BY <1>4, <2>3
    <2>4. CASE intact /\ records # 0 /\ pub /\ unanchored > 0
      BY <1>4, <2>4
    <2>5. CASE intact /\ records # 0 /\ pub /\ ~(unanchored > 0)
      BY <1>4, <2>5
    <2> QED BY <2>1, <2>2, <2>3, <2>4, <2>5
  <1>7. unanchored = IF pub /\ lastSeq > signedThrough THEN lastSeq - signedThrough ELSE 0
    BY DEF IInv, DoneOK, Done
  <1>8. ASSUME intact
        PROVE  /\ Len(log) \in Nat /\ JoinedTo(log, Len(log))
               /\ lastSeq = HeadSeq(log, Len(log)) /\ signedThrough <= lastSeq
    <2>1. /\ Len(log) \in Nat /\ JoinedTo(log, Len(log)) /\ i = Len(log)
          /\ lastSeq = HeadSeq(log, Len(log))
      BY <1>8, IntactIsChain
    <2>2. CASE signedThrough = 0
      BY <1>2, <2>1, <2>2
    <2>3. CASE signedThrough # 0
      <3>1. PICK c \in 1..Len(log) : log[c].body.seq = signedThrough
        BY <2>1, <2>3 DEF IInv, SignedOK
      <3>2. HeadSeq(log, c) = signedThrough
        BY <3>1 DEF HeadSeq
      <3>3. HeadSeq(log, c) <= HeadSeq(log, Len(log))
        BY <2>1, HeadGrows
      <3> QED BY <2>1, <3>2, <3>3
    <2> QED BY <2>2, <2>3
  <1>9. ASSUME Verdict = "VERIFIED"
        PROVE  /\ RecordsAfter(log, lastSeq) = 0
               /\ RecordsThrough(log, lastSeq) = RecordsThrough(history, lastSeq)
    <2>1. intact /\ pub /\ ~(unanchored > 0)
      BY <1>6, <1>9
    <2>2. lastSeq = signedThrough
      BY <1>2, <1>7, <1>8, <2>1
    <2>3. RecordsAfter(log, lastSeq) = lastSeq - lastSeq
      BY <1>2, <1>8, <2>1, RecordsAfterCount
    <2>4. RecordsThrough(log, signedThrough) = RecordsThrough(history, signedThrough)
      BY <2>1, IInvSigned DEF SignedHolds
    <2> QED BY <1>2, <2>2, <2>3, <2>4
  <1>10. ASSUME Verdict = "VERIFIED THROUGH"
         PROVE  unanchored = RecordsAfter(log, signedThrough)
    <2>1. intact /\ pub /\ unanchored > 0
      BY <1>6, <1>10
    <2>2. unanchored = lastSeq - signedThrough
      BY <1>2, <1>7, <2>1
    <2>3. RecordsAfter(log, signedThrough) = HeadSeq(log, Len(log)) - signedThrough
      BY <1>2, <1>8, <2>1, RecordsAfterCount
    <2> QED BY <1>8, <2>1, <2>2, <2>3
  <1>11. ASSUME edits = 0, anchor \in Kept \cup {None}
         PROVE  Verdict # "TAMPERING DETECTED"
    <2>1. CASE intact
      BY <1>6, <2>1
    <2>2. CASE ~intact
      <3>1. AnchorProblem = {}
        BY <1>11, HonestAnchor
      <3>2. /\ problems = AnchorProblem \cup Unanchored
            /\ AnchorProblem \cup Unanchored # {}
        BY <1>11, <2>2 DEF IInv, DoneOK, Done
      <3>3. problems = {"unanchored"}
        BY <3>1, <3>2 DEF Unanchored
      <3> QED BY <1>4, <2>2, <3>3 DEF onlyUnanchored
    <2> QED BY <2>1, <2>2
  <1> QED BY <1>3, <1>5, <1>9, <1>10, <1>11 DEF res

\* What the two commands print is true and the same, and nobody is accused over a
\* log nobody edited.
THEOREM VerdictSoundHolds == Spec => []VerdictSound
  <1>1. IInv => VerdictSound
    BY IInvVerdict
  <1> QED BY <1>1, VerifierInvariant, PTL

-----------------------------------------------------------------------------
(* What an export picks *)

\* t is the lines of s at the positions in I, e[n] being that of its line n.
IsPick(t, s, I, e) ==
    /\ t \in Seq({s[p] : p \in I}) /\ Len(t) \in Nat
    /\ e \in [1..Len(t) -> I]
    /\ \A p \in I : \E n \in 1..Len(t) : e[n] = p
    /\ \A m, n \in 1..Len(t) : m < n => e[m] < e[n]
    /\ \A n \in 1..Len(t) : t[n] = s[e[n]]

\* Picking takes each of the positions, in their order.
LEMMA PickedLines ==
    ASSUME NEW s, NEW N \in Nat, NEW I, I \subseteq 1..N
    PROVE  \E e : IsPick(Picked(s, I), s, I, e)
  <1> DEFINE Upto(p) == {q \in I : q <= p}
             R(p) == Cardinality(Upto(p))
             C == Cardinality(I)
             r == [p \in I |-> R(p)]
             e == [n \in 1..C |-> CHOOSE p \in I : R(p) = n]
             t == Picked(s, I)
  <1>1. IsFiniteSet(I)
    <2>1. IsFiniteSet(1..N)
      BY FS_Interval
    <2> QED BY <2>1, FS_Subset
  <1>2. C \in Nat
    BY <1>1, FS_CardinalityType
  <1>3. ASSUME NEW p \in I PROVE R(p) \in 1..C /\ IsFiniteSet(Upto(p))
    <2>1. Upto(p) \in SUBSET I
      OBVIOUS
    <2>2. p \in Upto(p)
      OBVIOUS
    <2> HIDE DEF Upto
    <2>3. IsFiniteSet(Upto(p)) /\ R(p) <= C
      BY <1>1, <2>1, FS_Subset
    <2>4. R(p) \in Nat /\ R(p) # 0
      BY <2>2, <2>3, FS_CardinalityType, FS_EmptySet
    <2> QED BY <1>2, <2>3, <2>4
  <1>4. ASSUME NEW p \in I, NEW q \in I, p < q PROVE R(p) < R(q)
    <2>1. Upto(p) \in SUBSET Upto(q)
      <3>1. p \in Nat /\ q \in Nat /\ \A o \in I : o \in Nat
        OBVIOUS
      <3>2. \A o \in I : o <= p => o <= q
        BY <1>4, <3>1
      <3> QED BY <3>2
    <2>2. q \in Upto(q) /\ q \notin Upto(p)
      BY <1>4
    <2>3. R(p) \in 1..C /\ R(q) \in 1..C /\ IsFiniteSet(Upto(q))
      BY <1>3
    <2> HIDE DEF Upto
    <2>4. R(p) <= R(q) /\ (R(q) = R(p) => Upto(q) = Upto(p))
      BY <2>1, <2>3, FS_Subset
    <2> QED BY <1>2, <2>2, <2>3, <2>4
  <1> HIDE DEF Upto, C
  <1>5. r \in Injection(I, 1..C)
    <2>1. \A p, q \in I : p # q => p < q \/ q < p
      OBVIOUS
    <2>2. \A p, q \in I : R(p) = R(q) => p = q
      <3> SUFFICES ASSUME NEW p \in I, NEW q \in I, R(p) = R(q), p # q PROVE FALSE
        OBVIOUS
      <3>1. R(p) \in Nat /\ R(q) \in Nat
        BY <1>2, <1>3
      <3> QED BY <1>4, <2>1, <3>1
    <2> HIDE DEF R
    <2> QED BY <1>3, <2>2 DEF Injection, IsInjective
  <1>6. r \in Surjection(I, 1..C)
    <2>1. IsFiniteSet(1..C) /\ Cardinality(1..C) = C
      BY <1>2, FS_Interval
    <2>2. Cardinality(I) = Cardinality(1..C)
      BY <2>1 DEF C
    <2> HIDE DEF r
    <2> QED BY <1>5, <2>1, <2>2, FS_Injection
  <1>7. \A n \in 1..C : \E p \in I : R(p) = n
    <2> HIDE DEF R
    <2> QED BY <1>6 DEF Surjection
  <1> HIDE DEF R
  <1>8. \A n \in 1..C : e[n] \in I /\ R(e[n]) = n
    BY <1>7
  <1>9. t = [n \in 1..C |-> s[e[n]]]
    BY DEF Picked, C, R, Upto
  <1> HIDE DEF e, r, t
  <1>10. t \in Seq({s[p] : p \in I}) /\ Len(t) = C
    BY <1>2, <1>8, <1>9
  <1>11. \A p \in I : \E n \in 1..C : e[n] = p
    <2> SUFFICES ASSUME NEW p \in I PROVE e[R(p)] = p /\ R(p) \in 1..C
      OBVIOUS
    <2>1. R(p) \in 1..C
      BY <1>3 DEF R
    <2>2. e[R(p)] \in I /\ R(e[R(p)]) = R(p)
      BY <1>8, <2>1
    <2>3. PICK q : q = e[R(p)]
      OBVIOUS
    <2>4. q \in I /\ R(q) = R(p) /\ R(p) \in Nat
      BY <1>2, <2>1, <2>2, <2>3
    <2>5. \A o \in I : o \in Nat
      OBVIOUS
    <2>6. q \in Nat /\ p \in Nat
      BY <2>4, <2>5
    <2>7. ~(q < p)
      <3>1. q < p => R(q) < R(p)
        BY <1>4, <2>4 DEF R
      <3> QED BY <2>4, <3>1
    <2>8. ~(p < q)
      <3>1. p < q => R(p) < R(q)
        BY <1>4, <2>4 DEF R
      <3> QED BY <2>4, <3>1
    <2> QED BY <2>1, <2>3, <2>6, <2>7, <2>8
  <1>12. \A m, n \in 1..C : m < n => e[m] < e[n]
    <2> SUFFICES ASSUME NEW m \in 1..C, NEW n \in 1..C, m < n, ~(e[m] < e[n]) PROVE FALSE
      OBVIOUS
    <2>1. e[m] \in I /\ e[n] \in I /\ R(e[m]) = m /\ R(e[n]) = n
      BY <1>8
    <2>2. e[m] \in Nat /\ e[n] \in Nat
      <3>1. \A o \in I : o \in Nat
        OBVIOUS
      <3> QED BY <2>1, <3>1
    <2>3. CASE e[m] = e[n]
      BY <1>2, <2>1, <2>3
    <2>4. CASE e[n] < e[m]
      <3>1. R(e[n]) < R(e[m])
        BY <1>4, <2>1, <2>4 DEF R
      <3> QED BY <1>2, <2>1, <3>1
    <2> QED BY <2>2, <2>3, <2>4
  <1>13. e \in [1..C -> I]
    BY <1>8 DEF e
  <1>14. \A n \in 1..C : t[n] = s[e[n]]
    BY <1>9
  <1> QED BY <1>2, <1>10, <1>11, <1>12, <1>13, <1>14 DEF IsPick, t

\* Numbers that follow one another are counted off.
LEMMA Counted ==
    ASSUME NEW L \in Nat, NEW a, \A n \in 1..L : a[n] \in Nat,
           \A n \in 2..L : a[n] = a[n - 1] + 1, NEW k \in 1..L
    PROVE  a[k] = a[1] + (k - 1)
  <1> DEFINE T == {n \in 1..L : a[n] # a[1] + (n - 1)}
  <1> SUFFICES ASSUME T # {} PROVE FALSE
    OBVIOUS
  <1>1. T \subseteq Nat
    OBVIOUS
  <1>2. PICK n \in T : \A o \in T : n <= o
    <2> HIDE DEF T
    <2> QED BY <1>1, LeastNumber
  <1>3. n \in 1..L /\ a[1] \in Nat /\ a[n] # a[1] + (n - 1)
    BY <1>2
  <1>4. n # 1
    BY <1>3
  <1>5. n \in 2..L /\ n - 1 \in 1..L /\ ~(n <= n - 1)
    BY <1>3, <1>4
  <1>6. n - 1 \notin T
    BY <1>2, <1>5
  <1>7. a[n - 1] = a[1] + (n - 1 - 1)
    BY <1>5, <1>6
  <1>8. a[n] = a[n - 1] + 1
    BY <1>5
  <1> QED BY <1>3, <1>5, <1>7, <1>8

\* Growing numbers follow one another when none between the first and the last is
\* missing, and only then.
LEMMA Contiguous ==
    ASSUME NEW L \in Nat \ {0}, NEW a, \A n \in 1..L : a[n] \in Nat,
           \A m, n \in 1..L : m < n => a[m] < a[n]
    PROVE  (\A n \in 2..L : a[n] = a[n - 1] + 1) <=> {a[n] : n \in 1..L} = a[1]..a[L]
  <1>1. 1 \in 1..L /\ L \in 1..L /\ a[1] \in Nat /\ a[L] \in Nat
    OBVIOUS
  <1>2. \A n \in 1..L : a[n] \in a[1]..a[L]
    <2> SUFFICES ASSUME NEW n \in 1..L PROVE a[n] \in a[1]..a[L]
      OBVIOUS
    <2>1. n = 1 \/ 1 < n
      OBVIOUS
    <2>2. n = L \/ n < L
      OBVIOUS
    <2>3. a[1] <= a[n]
      BY <1>1, <2>1
    <2>4. a[n] <= a[L]
      BY <1>1, <2>2
    <2> QED BY <1>1, <2>3, <2>4
  <1>3. ASSUME \A n \in 2..L : a[n] = a[n - 1] + 1
        PROVE  {a[n] : n \in 1..L} = a[1]..a[L]
    <2>1. \A k \in 1..L : a[k] = a[1] + (k - 1)
      BY <1>3, Counted
    <2>2. ASSUME NEW q \in a[1]..a[L] PROVE \E n \in 1..L : a[n] = q
      <3>1. a[L] = a[1] + (L - 1)
        BY <1>1, <2>1
      <3>2. q - a[1] + 1 \in 1..L
        BY <1>1, <3>1
      <3>3. a[q - a[1] + 1] = a[1] + (q - a[1] + 1 - 1)
        BY <2>1, <3>2
      <3>4. a[1] + (q - a[1] + 1 - 1) = q
        BY <1>1
      <3> QED BY <3>2, <3>3, <3>4
    <2> QED BY <1>2, <2>2
  <1>4. ASSUME {a[n] : n \in 1..L} = a[1]..a[L], NEW n \in 2..L
        PROVE  a[n] = a[n - 1] + 1
    <2>1. n \in 1..L /\ n - 1 \in 1..L /\ n - 1 < n
      OBVIOUS
    <2>2. a[n - 1] < a[n] /\ a[n - 1] \in a[1]..a[L] /\ a[n] \in a[1]..a[L]
      BY <1>2, <2>1
    <2>3. SUFFICES ASSUME a[n] # a[n - 1] + 1 PROVE FALSE
      OBVIOUS
    <2>4. a[n - 1] + 1 \in a[1]..a[L] /\ a[n - 1] + 1 < a[n]
      BY <1>1, <2>2, <2>3
    <2>5. PICK m \in 1..L : a[m] = a[n - 1] + 1
      BY <1>4, <2>4
    <2>6. a[n - 1] \in Nat /\ a[n] \in Nat /\ a[m] \in Nat
      BY <2>1
    <2>7. ~(m < n - 1) /\ m # n - 1 /\ ~(n < m) /\ m # n
      <3>1. ~(m < n - 1)
        <4>1. SUFFICES ASSUME m < n - 1 PROVE FALSE
          OBVIOUS
        <4>2. a[m] < a[n - 1]
          BY <2>1, <4>1
        <4> QED BY <2>5, <2>6, <4>2
      <3>2. ~(n < m)
        <4>1. SUFFICES ASSUME n < m PROVE FALSE
          OBVIOUS
        <4>2. a[n] < a[m]
          BY <2>1, <4>1
        <4> QED BY <2>4, <2>5, <2>6, <4>2
      <3> QED BY <2>4, <2>5, <2>6, <3>1, <3>2
    <2> QED BY <2>1, <2>7
  <1> QED BY <1>3, <1>4

\* The positions of the records a filter selects, and of the checkpoints.
Selected(s, f) == {n \in 1..Len(s) : IsRec(s[n]) /\ matchesFilter(s[n].body, f)}
SignedAt(s) == {n \in 1..Len(s) : IsCp(s[n])}

\* The checkpoints relevantCheckpoints takes.
Relevant(all, recs) ==
    {n \in 1..Len(all) :
        /\ all[n].body.seq > Last(recs).body.seq \/ all[n].body.seq + 1 >= recs[1].body.seq
        /\ \A m \in 1..(n - 1) : ~(all[m].body.seq > Last(recs).body.seq)}

\* What is in a bundle of a log without a malformed line.
LEMMA ExportFields ==
    ASSUME NEW s, NEW f, \A n \in 1..Len(s) : IsRec(s[n]) \/ IsCp(s[n])
    PROVE  LET b == Export(s, f) IN
           /\ b.records = Picked(s, Selected(s, f))
           /\ b.checkpoints = relevantCheckpoints(Picked(s, SignedAt(s)), b.records)
           /\ b.records # <<>> => b.prevHash = b.records[1].body.prevHash
           /\ b.complete <=> \A n \in 2..Len(b.records) :
                                b.records[n].body.seq = b.records[n - 1].body.seq + 1
  <1> DEFINE recs == Picked(s, Selected(s, f))
             cps == Picked(s, SignedAt(s))
             prev == IF recs = <<>> THEN None ELSE recs[1].body.prevHash
             whole == \A n \in 2..Len(recs) : recs[n].body.seq = recs[n - 1].body.seq + 1
             b == Export(s, f)
  <1>1. b = [records |-> recs, checkpoints |-> relevantCheckpoints(cps, recs),
             prevHash |-> prev, complete |-> whole]
    BY DEF Export, Selected, SignedAt
  <1> HIDE DEF recs, cps, prev, b
  <1>2. b.records = recs /\ b.checkpoints = relevantCheckpoints(cps, recs) /\ b.prevHash = prev
    BY <1>1
  <1>3. b.complete = whole
    <2> HIDE DEF whole
    <2> QED BY <1>1, Zenon
  <1> QED BY <1>2, <1>3 DEF recs, cps, prev, b

\* Those of the checkpoints that are relevant are picked.
LEMMA RelevantPicked ==
    ASSUME NEW all, NEW recs, recs # <<>>
    PROVE  relevantCheckpoints(all, recs) = Picked(all, Relevant(all, recs))
  <1>1. Relevant(all, recs) =
          {n \in 1..Len(all) :
             /\ \/ /\ ~(all[n].body.seq > Last(recs).body.seq)
                   /\ all[n].body.seq + 1 >= recs[1].body.seq
                \/ all[n].body.seq > Last(recs).body.seq
             /\ \A m \in 1..(n - 1) : ~(all[m].body.seq > Last(recs).body.seq)}
    BY DEF Relevant
  <1> QED BY <1>1 DEF relevantCheckpoints

\* Where the lines of a bundle stand in the log: e those of its records, d those of
\* the checkpoints, g which of the checkpoints.
Located(s, f, b, e, d, g) ==
    LET all == Picked(s, SignedAt(s)) IN
    /\ IsPick(b.records, s, Selected(s, f), e)
    /\ IsPick(all, s, SignedAt(s), d)
    /\ IsPick(b.checkpoints, all, Relevant(all, b.records), g)

\* A bundle with a record is made of lines of the log.
LEMMA BundleLines ==
    ASSUME NEW s, NEW f, Len(s) \in Nat, \A n \in 1..Len(s) : IsRec(s[n]) \/ IsCp(s[n]),
           Export(s, f).records # <<>>
    PROVE  \E e, d, g : Located(s, f, Export(s, f), e, d, g)
  <1> DEFINE b == Export(s, f)
             all == Picked(s, SignedAt(s))
  <1>1. b.records = Picked(s, Selected(s, f)) /\ b.checkpoints = relevantCheckpoints(all, b.records)
    BY ExportFields
  <1>2. Selected(s, f) \subseteq 1..Len(s) /\ SignedAt(s) \subseteq 1..Len(s)
    BY DEF Selected, SignedAt
  <1>3. PICK e : IsPick(b.records, s, Selected(s, f), e)
    BY <1>1, <1>2, PickedLines
  <1>4. PICK d : IsPick(all, s, SignedAt(s), d)
    BY <1>2, PickedLines
  <1> HIDE DEF b, all
  <1>5. Len(all) \in Nat /\ Relevant(all, b.records) \subseteq 1..Len(all)
    BY <1>4 DEF IsPick, Relevant
  <1>6. b.checkpoints = Picked(all, Relevant(all, b.records))
    BY <1>1, RelevantPicked DEF b
  <1>7. PICK g : IsPick(b.checkpoints, all, Relevant(all, b.records), g)
    BY <1>5, <1>6, PickedLines
  <1> QED BY <1>3, <1>4, <1>7 DEF Located, all, b

\* A record of the bundle is a record of the log, a checkpoint a checkpoint.
LEMMA BundleKinds ==
    ASSUME NEW s, NEW f, NEW b, NEW e, NEW d, NEW g, Located(s, f, b, e, d, g)
    PROVE  /\ Len(b.records) \in Nat /\ Len(b.checkpoints) \in Nat
           /\ \A n \in 1..Len(b.records) :
                 e[n] \in 1..Len(s) /\ b.records[n] = s[e[n]] /\ IsRec(s[e[n]])
           /\ \A n \in 1..Len(b.checkpoints) :
                 \E p \in 1..Len(s) : b.checkpoints[n] = s[p] /\ IsCp(s[p])
  <1> DEFINE all == Picked(s, SignedAt(s))
  <1>1. /\ IsPick(b.records, s, Selected(s, f), e) /\ IsPick(all, s, SignedAt(s), d)
        /\ IsPick(b.checkpoints, all, Relevant(all, b.records), g)
    BY DEF Located
  <1> HIDE DEF all
  <1>2. ASSUME NEW n \in 1..Len(b.records)
        PROVE  e[n] \in 1..Len(s) /\ b.records[n] = s[e[n]] /\ IsRec(s[e[n]])
    <2>1. e[n] \in Selected(s, f) /\ b.records[n] = s[e[n]]
      BY <1>1 DEF IsPick
    <2> QED BY <2>1 DEF Selected
  <1>3. ASSUME NEW n \in 1..Len(b.checkpoints)
        PROVE  \E p \in 1..Len(s) : b.checkpoints[n] = s[p] /\ IsCp(s[p])
    <2>1. g[n] \in 1..Len(all) /\ b.checkpoints[n] = all[g[n]]
      <3>1. g[n] \in Relevant(all, b.records) /\ b.checkpoints[n] = all[g[n]]
        BY <1>1 DEF IsPick
      <3> QED BY <3>1 DEF Relevant
    <2>2. d[g[n]] \in SignedAt(s) /\ all[g[n]] = s[d[g[n]]]
      BY <1>1, <2>1 DEF IsPick
    <2> QED BY <2>1, <2>2 DEF SignedAt
  <1>4. Len(b.records) \in Nat /\ Len(b.checkpoints) \in Nat
    BY <1>1 DEF IsPick
  <1> QED BY <1>2, <1>3, <1>4

-----------------------------------------------------------------------------
(* A bundle of a chain *)

\* The records of such a bundle are in the order of their sequences, each with the
\* hash its contents have and the hash that was the head above it.
LEMMA ChainBundle ==
    ASSUME NEW s, NEW f, NEW b, NEW e, NEW d, NEW g, Located(s, f, b, e, d, g),
           Len(s) \in Nat, JoinedTo(s, Len(s))
    PROVE  /\ \A n \in 1..Len(b.records) :
                 /\ b.records[n].body.seq \in Nat
                 /\ RecordHash(b.records[n]) = b.records[n].body.hash
           /\ \A m, n \in 1..Len(b.records) :
                 m < n => b.records[m].body.seq < b.records[n].body.seq
           /\ \A n \in 2..Len(b.records) :
                 b.records[n].body.seq = b.records[n - 1].body.seq + 1 =>
                     b.records[n].body.prevHash = b.records[n - 1].body.hash
  <1>1. /\ Len(b.records) \in Nat
        /\ \A n \in 1..Len(b.records) :
              e[n] \in 1..Len(s) /\ b.records[n] = s[e[n]] /\ IsRec(s[e[n]])
    BY BundleKinds
  <1>2. \A m, n \in 1..Len(b.records) : m < n => e[m] < e[n]
    BY DEF Located, IsPick
  <1>3. ASSUME NEW n \in 1..Len(b.records)
        PROVE  /\ JoinsRecord(s, e[n]) /\ HeadSeq(s, e[n]) = b.records[n].body.seq
               /\ HeadSeq(s, e[n]) \in Nat /\ HeadHash(s, e[n]) = b.records[n].body.hash
               /\ HeadSeq(s, e[n]) = HeadSeq(s, e[n] - 1) + 1
               /\ HeadSeq(s, e[n] - 1) \in Nat
    <2>1. e[n] \in 1..Len(s) /\ b.records[n] = s[e[n]] /\ IsRec(s[e[n]])
      BY <1>1
    <2>2. /\ HeadSeq(s, e[n]) \in Nat /\ JoinsRecord(s, e[n])
          /\ HeadSeq(s, e[n]) = HeadSeq(s, e[n] - 1) + 1 /\ HeadSeq(s, e[n] - 1) \in Nat
      BY <2>1, HeadStep
    <2>3. HeadSeq(s, e[n]) = s[e[n]].body.seq /\ HeadHash(s, e[n]) = s[e[n]].body.hash
      BY <2>1 DEF HeadSeq, HeadHash
    <2> QED BY <2>1, <2>2, <2>3
  <1>4. ASSUME NEW n \in 1..Len(b.records)
        PROVE  /\ b.records[n].body.seq \in Nat
               /\ RecordHash(b.records[n]) = b.records[n].body.hash
    BY <1>1, <1>3 DEF JoinsRecord
  <1>5. ASSUME NEW m \in 1..Len(b.records), NEW n \in 1..Len(b.records), m < n
        PROVE  b.records[m].body.seq < b.records[n].body.seq
    <2>1. e[m] \in 0..Len(s) /\ e[n] \in 1..Len(s) /\ e[m] < e[n] /\ IsRec(s[e[n]])
      BY <1>1, <1>2, <1>5
    <2>2. HeadSeq(s, e[m]) < s[e[n]].body.seq
      BY <2>1, RecordsGrow
    <2> QED BY <1>1, <1>3, <2>2
  <1>6. ASSUME NEW n \in 2..Len(b.records),
               b.records[n].body.seq = b.records[n - 1].body.seq + 1
        PROVE  b.records[n].body.prevHash = b.records[n - 1].body.hash
    <2>1. n \in 1..Len(b.records) /\ n - 1 \in 1..Len(b.records) /\ n - 1 < n
      BY <1>1
    <2>2. e[n - 1] \in 0..Len(s) /\ e[n] - 1 \in e[n - 1]..Len(s)
      <3>1. e[n - 1] \in 1..Len(s) /\ e[n] \in 1..Len(s) /\ e[n - 1] < e[n]
        BY <1>1, <1>2, <2>1
      <3> QED BY <3>1
    <2>3. HeadSeq(s, e[n - 1]) = HeadSeq(s, e[n] - 1)
      <3>1. /\ HeadSeq(s, e[n]) = b.records[n].body.seq
            /\ HeadSeq(s, e[n]) = HeadSeq(s, e[n] - 1) + 1 /\ HeadSeq(s, e[n] - 1) \in Nat
        BY <1>3, <2>1
      <3>2. HeadSeq(s, e[n - 1]) = b.records[n - 1].body.seq /\ HeadSeq(s, e[n - 1]) \in Nat
        BY <1>3, <2>1
      <3> QED BY <1>6, <3>1, <3>2
    <2>4. HeadHash(s, e[n - 1]) = HeadHash(s, e[n] - 1)
      BY <2>2, <2>3, HeadGrows
    <2>5. b.records[n].body.prevHash = HeadHash(s, e[n] - 1)
      BY <1>1, <1>3, <2>1 DEF JoinsRecord
    <2> QED BY <1>3, <2>1, <2>4, <2>5
  <1> QED BY <1>4, <1>5, <1>6

\* A checkpoint of the log with a sequence in the bundle's range is in the bundle,
\* and if any is at or after the bundle's last record, so is one of those.
LEMMA BundleCovers ==
    ASSUME NEW s, NEW f, NEW b, NEW e, NEW d, NEW g, Located(s, f, b, e, d, g),
           Len(s) \in Nat, JoinedTo(s, Len(s)), NEW first \in Nat, NEW last \in Nat,
           first <= last, b.records[1].body.seq = first, Last(b.records).body.seq = last,
           NEW p \in 1..Len(s), IsCp(s[p])
    PROVE  /\ s[p].body.seq >= last =>
                 \E n \in 1..Len(b.checkpoints) : b.checkpoints[n].body.seq >= last
           /\ s[p].body.seq \in first..last =>
                 \E n \in 1..Len(b.checkpoints) : b.checkpoints[n].body = s[p].body
  <1> DEFINE all == Picked(s, SignedAt(s))
             T == {n \in 1..Len(all) : all[n].body.seq >= last}
  <1>1. IsPick(all, s, SignedAt(s), d) /\ IsPick(b.checkpoints, all, Relevant(all, b.records), g)
    BY DEF Located
  <1> HIDE DEF all
  <1>2. Len(all) \in Nat /\ \A n \in 1..Len(all) : d[n] \in 1..Len(s) /\ all[n] = s[d[n]]
    BY <1>1 DEF IsPick, SignedAt
  <1>3. \A n \in 1..Len(all) : all[n].body.seq = HeadSeq(s, d[n]) /\ all[n].body.seq \in Nat
    <2> SUFFICES ASSUME NEW n \in 1..Len(all)
                 PROVE  all[n].body.seq = HeadSeq(s, d[n]) /\ all[n].body.seq \in Nat
      OBVIOUS
    <2>1. d[n] \in 1..Len(s) /\ all[n] = s[d[n]]
      BY <1>2
    <2>2. HeadSeq(s, d[n]) = s[d[n]].body.seq /\ HeadSeq(s, d[n]) \in Nat
      <3>1. HeadSeq(s, d[n]) \in Nat
        BY <2>1, HeadStep
      <3> QED BY <2>1, <3>1 DEF HeadSeq
    <2> QED BY <2>1, <2>2
  <1>4. PICK k \in 1..Len(all) : d[k] = p
    <2>1. p \in SignedAt(s)
      BY DEF SignedAt
    <2> QED BY <1>1, <2>1 DEF IsPick
  <1>5. all[k] = s[p]
    BY <1>2, <1>4
  <1>6. ASSUME NEW n \in 1..Len(all),
               all[n].body.seq > last \/ all[n].body.seq + 1 >= first,
               \A m \in 1..(n - 1) : ~(all[m].body.seq > last)
        PROVE  \E o \in 1..Len(b.checkpoints) : b.checkpoints[o] = all[n]
    <2>1. n \in Relevant(all, b.records)
      BY <1>6 DEF Relevant
    <2>2. PICK o \in 1..Len(b.checkpoints) : g[o] = n
      BY <1>1, <2>1 DEF IsPick
    <2>3. b.checkpoints[o] = all[g[o]]
      BY <1>1 DEF IsPick
    <2> QED BY <2>2, <2>3
  <1>7. ASSUME s[p].body.seq >= last
        PROVE  \E n \in 1..Len(b.checkpoints) : b.checkpoints[n].body.seq >= last
    <2>1. k \in T /\ T \subseteq Nat
      BY <1>5, <1>7
    <2>2. PICK n \in T : \A o \in T : n <= o
      <3> HIDE DEF T
      <3> QED BY <2>1, LeastNumber
    <2>3. n \in 1..Len(all) /\ all[n].body.seq >= last /\ all[n].body.seq \in Nat
      BY <1>3, <2>2
    <2>4. ASSUME NEW m \in 1..(n - 1), all[m].body.seq > last PROVE FALSE
      <3>1. m \in 1..Len(all) /\ ~(n <= m)
        BY <1>2, <2>3
      <3>2. all[m].body.seq \in Nat
        BY <1>3, <3>1
      <3>3. m \in T
        BY <2>4, <3>1, <3>2
      <3> QED BY <2>2, <3>1, <3>3
    <2>5. all[n].body.seq + 1 >= first
      BY <2>3
    <2>6. PICK o \in 1..Len(b.checkpoints) : b.checkpoints[o] = all[n]
      BY <1>6, <2>3, <2>4, <2>5
    <2> QED BY <2>3, <2>6
  <1>8. ASSUME s[p].body.seq \in first..last
        PROVE  \E n \in 1..Len(b.checkpoints) : b.checkpoints[n].body = s[p].body
    <2>1. ASSUME NEW m \in 1..(k - 1) PROVE ~(all[m].body.seq > last)
      <3>1. m \in 1..Len(all) /\ m < k
        BY <1>2
      <3>2. d[m] < d[k] /\ d[m] \in 1..Len(s)
        BY <1>1, <1>2, <3>1 DEF IsPick
      <3>3. d[m] \in 0..Len(s) /\ p \in d[m]..Len(s)
        BY <1>4, <3>2
      <3>4. HeadSeq(s, d[m]) <= HeadSeq(s, p)
        BY <3>3, HeadGrows
      <3>5. HeadSeq(s, p) = s[p].body.seq
        BY DEF HeadSeq
      <3>6. all[m].body.seq = HeadSeq(s, d[m]) /\ all[m].body.seq \in Nat
        BY <1>3, <3>1
      <3> QED BY <1>8, <3>4, <3>5, <3>6
    <2>2. all[k].body.seq + 1 >= first
      BY <1>5, <1>8
    <2>3. PICK o \in 1..Len(b.checkpoints) : b.checkpoints[o] = all[k]
      BY <1>6, <2>1, <2>2
    <2> QED BY <1>5, <2>3
  <1> QED BY <1>7, <1>8

\* What HonestBundle asks of a bundle.
GoodBundle(b) ==
    LET seqs == {b.records[n].body.seq : n \in 1..Len(b.records)}
        last == Last(b.records).body.seq
    IN b.records # <<>> =>
        /\ VerifyBundle(b, TRUE) = {}
        /\ b.complete <=> seqs = b.records[1].body.seq..last
        /\ (\E c \in Kept : c.seq >= last) =>
               \E n \in 1..Len(b.checkpoints) : b.checkpoints[n].body.seq >= last
        /\ \A c \in Kept : c.seq \in seqs =>
               \E n \in 1..Len(b.checkpoints) : b.checkpoints[n].body = c

\* A bundle of the history is good.
LEMMA HistoryBundle ==
    ASSUME HistoryOK, NEW f
    PROVE  GoodBundle(Export(history, f))
  <1> DEFINE b == Export(history, f)
             seqs == {b.records[n].body.seq : n \in 1..Len(b.records)}
             first == b.records[1].body.seq
             last == Last(b.records).body.seq
             L == Len(b.records)
             a == [n \in 1..L |-> b.records[n].body.seq]
  <1> SUFFICES ASSUME b.records # <<>>
               PROVE  /\ VerifyBundle(b, TRUE) = {}
                      /\ b.complete <=> seqs = first..last
                      /\ (\E c \in Kept : c.seq >= last) =>
                           \E n \in 1..Len(b.checkpoints) : b.checkpoints[n].body.seq >= last
                      /\ \A c \in Kept : c.seq \in seqs =>
                           \E n \in 1..Len(b.checkpoints) : b.checkpoints[n].body = c
    BY DEF GoodBundle
  <1>1. Len(history) \in Nat /\ JoinedTo(history, Len(history))
    BY HistoryIsChain
  <1>2. \A n \in 1..Len(history) : IsRec(history[n]) \/ IsCp(history[n])
    BY <1>1, HeadStep
  <1>3. PICK e, d, g : Located(history, f, b, e, d, g)
    BY <1>1, <1>2, BundleLines
  <1>4. /\ b.prevHash = b.records[1].body.prevHash
        /\ b.complete <=> \A n \in 2..L : b.records[n].body.seq = b.records[n - 1].body.seq + 1
    BY <1>2, ExportFields
  <1> HIDE DEF b
  <1>5. L \in Nat \ {0}
    <2>1. L \in Nat /\ b.records \in Seq({history[p] : p \in Selected(history, f)})
      BY <1>3 DEF Located, IsPick
    <2>2. L # 0
      BY <2>1
    <2> QED BY <2>1, <2>2
  <1>6. /\ \A n \in 1..L : /\ b.records[n].body.seq \in Nat
                           /\ RecordHash(b.records[n]) = b.records[n].body.hash
        /\ \A m, n \in 1..L : m < n => b.records[m].body.seq < b.records[n].body.seq
        /\ \A n \in 2..L : b.records[n].body.seq = b.records[n - 1].body.seq + 1 =>
              b.records[n].body.prevHash = b.records[n - 1].body.hash
    BY <1>1, <1>3, ChainBundle
  <1> HIDE DEF L
  <1>7. last = b.records[L].body.seq
    BY DEF Last, L
  <1>8. VerifyBundle(b, TRUE) = {}
    <2>1. ~\E n \in 1..L : RecordHash(b.records[n]) # b.records[n].body.hash
      BY <1>6
    <2>2. ASSUME b.complete, NEW n \in 1..L
          PROVE  b.records[n].body.prevHash =
                   IF n = 1 THEN b.prevHash ELSE b.records[n - 1].body.hash
      <3>1. CASE n = 1
        BY <1>4, <3>1
      <3>2. CASE n # 1
        <4>1. n \in 2..L
          BY <1>5, <3>2
        <4> QED BY <1>4, <1>6, <2>2, <3>2, <4>1
      <3> QED BY <3>1, <3>2
    <2>3. ASSUME NEW n \in 1..Len(b.checkpoints) PROVE VerifyCheckpoint(b.checkpoints[n].body)
      <3>1. PICK p \in 1..Len(history) : b.checkpoints[n] = history[p] /\ IsCp(history[p])
        BY <1>3, BundleKinds
      <3> QED BY <3>1 DEF HistoryOK
    <2> QED BY <2>1, <2>2, <2>3 DEF VerifyBundle, L
  <1>9. b.complete <=> seqs = first..last
    <2>1. \A n \in 1..L : a[n] = b.records[n].body.seq
      OBVIOUS
    <2>2. /\ \A n \in 1..L : a[n] \in Nat
          /\ \A m, n \in 1..L : m < n => a[m] < a[n]
      BY <1>6, <2>1
    <2>3. {a[n] : n \in 1..L} = seqs
      BY <2>1 DEF L
    <2>4. a[1] = first /\ a[L] = last
      BY <1>5, <1>7, <2>1
    <2>5. (\A n \in 2..L : a[n] = a[n - 1] + 1) <=> b.complete
      <3>1. \A n \in 2..L : n \in 1..L /\ n - 1 \in 1..L
        BY <1>5
      <3> QED BY <1>4, <2>1, <3>1
    <2> HIDE DEF a, seqs, first, last
    <2>6. (\A n \in 2..L : a[n] = a[n - 1] + 1) <=> {a[n] : n \in 1..L} = a[1]..a[L]
      BY <1>5, <2>2, Contiguous
    <2> QED BY <2>3, <2>4, <2>5, <2>6
  <1>10. first \in Nat /\ last \in Nat /\ first <= last /\ seqs \subseteq first..last
    <2>1. 1 \in 1..L /\ L \in 1..L
      BY <1>5
    <2>2. \A n \in 1..L : b.records[n].body.seq \in Nat
      BY <1>6
    <2>3. ASSUME NEW n \in 1..L PROVE b.records[n].body.seq \in first..last
      <3>1. n = 1 \/ 1 < n
        OBVIOUS
      <3>2. n = L \/ n < L
        BY <1>5
      <3>3. first <= b.records[n].body.seq
        BY <1>6, <2>1, <2>2, <3>1
      <3>4. b.records[n].body.seq <= last
        BY <1>6, <1>7, <2>1, <2>2, <3>2
      <3> QED BY <1>7, <2>1, <2>2, <3>3, <3>4
    <2>4. first \in Nat /\ last \in Nat
      BY <1>7, <2>1, <2>2
    <2>5. first \in first..last
      BY <2>1, <2>3
    <2>6. first <= last
      BY <2>4, <2>5
    <2>7. seqs \subseteq first..last
      BY <2>3 DEF L
    <2> QED BY <2>4, <2>6, <2>7
  <1> HIDE DEF first, last
  <1>11. ASSUME NEW c \in Kept
         PROVE  /\ c.seq >= last =>
                     \E n \in 1..Len(b.checkpoints) : b.checkpoints[n].body.seq >= last
                /\ c.seq \in seqs =>
                     \E n \in 1..Len(b.checkpoints) : b.checkpoints[n].body = c
    <2>1. PICK p \in 1..Len(history) : c = history[p].body /\ IsCp(history[p])
      BY KeptSigned
    <2>2. /\ history[p].body.seq >= last =>
                \E n \in 1..Len(b.checkpoints) : b.checkpoints[n].body.seq >= last
          /\ history[p].body.seq \in first..last =>
                \E n \in 1..Len(b.checkpoints) : b.checkpoints[n].body = history[p].body
      <3>1. b.records[1].body.seq = first /\ Last(b.records).body.seq = last
        BY DEF first, last
      <3> QED BY <1>1, <1>3, <1>10, <2>1, <3>1, BundleCovers
    <2> HIDE DEF seqs
    <2> QED BY <1>10, <2>1, <2>2
  <1> QED BY <1>8, <1>9, <1>11

\* A bundle of a log nobody edited verifies, says truthfully whether it is
\* contiguous and carries the checkpoints that pin it, for every filter.
THEOREM HonestBundleHolds == Spec => []HonestBundle
  <1>1. IInv => HonestBundle
    <2> SUFFICES ASSUME IInv, Presented, edits = 0, NEW f \in Filters
                 PROVE  GoodBundle(Export(log, f))
      BY DEF HonestBundle, GoodBundle
    <2>1. log = history /\ HistoryOK
      BY DEF IInv, LogOK, Presented
    <2> QED BY <2>1, HistoryBundle
  <1> QED BY <1>1, VerifierInvariant, PTL

-----------------------------------------------------------------------------
(* A bundle of any log *)

\* A head that is not the start of the chain is that of a record.
LEMMA RecordOfHead ==
    ASSUME NEW s, NEW k \in Nat, JoinedTo(s, k), NEW p \in 0..k, HeadHash(s, p) # GenesisHash
    PROVE  \E j \in 1..p : /\ JoinsRecord(s, j) /\ IsRec(s[j])
                           /\ s[j].body.hash = HeadHash(s, p)
  <1> DEFINE T == {j \in 0..p : HeadHash(s, j) = HeadHash(s, p)}
  <1>1. T \subseteq Nat /\ p \in T
    OBVIOUS
  <1>2. PICK j \in T : \A o \in T : j <= o
    <2> HIDE DEF T
    <2> QED BY <1>1, LeastNumber
  <1>3. j \in 0..p /\ HeadHash(s, j) = HeadHash(s, p)
    BY <1>2
  <1>4. j # 0
    BY <1>3 DEF HeadHash
  <1>5. j \in 1..k /\ j \in 1..p /\ j - 1 \in 0..p /\ ~(j <= j - 1)
    BY <1>3, <1>4
  <1>6. j - 1 \notin T
    BY <1>2, <1>5
  <1>7. HeadHash(s, j - 1) # HeadHash(s, j)
    BY <1>3, <1>5, <1>6
  <1> HIDE DEF T
  <1>8. IsRec(s[j]) /\ JoinsRecord(s, j)
    BY <1>5, <1>7, HeadStep
  <1>9. s[j].body.hash = HeadHash(s, p)
    BY <1>3, <1>4 DEF HeadHash
  <1> QED BY <1>5, <1>8, <1>9

\* A record that verifies and has the hash the history has after some line is the
\* history's.
LEMMA HistoryRecord ==
    ASSUME HistoryOK, NEW p \in 0..Len(history), NEW l, RecordLine(l),
           RecordHash(l) = l.body.hash, l.body.hash = HeadHash(history, p)
    PROVE  \E j \in 1..Len(history) : IsRec(history[j]) /\ history[j] = l
  <1>1. /\ Len(history) \in Nat /\ JoinedTo(history, Len(history))
        /\ \A n \in 1..Len(history) : history[n].v = "v2"
    BY HistoryIsChain
  <1>2. HeadHash(history, p) # GenesisHash
    BY HashNotGenesis
  <1>3. PICK j \in 1..p : /\ JoinsRecord(history, j) /\ IsRec(history[j])
                          /\ history[j].body.hash = HeadHash(history, p)
    BY <1>1, <1>2, RecordOfHead
  <1>4. j \in 1..Len(history)
    BY <1>1
  <1>5. /\ RecordLine(history[j]) /\ history[j].v = "v2"
        /\ RecordHash(history[j]) = history[j].body.hash
    BY <1>1, <1>3, <1>4 DEF JoinsRecord
  <1>6. l = history[j]
    BY <1>3, <1>5, HashBinds
  <1> QED BY <1>3, <1>4, <1>6

\* From a record of the history down, records that verify and are linked are the
\* history's.
LEMMA PinnedRecords ==
    ASSUME HistoryOK, NEW L \in Nat, NEW r,
           \A n \in 1..L : RecordLine(r[n]) /\ RecordHash(r[n]) = r[n].body.hash,
           \A n \in 2..L : r[n].body.prevHash = r[n - 1].body.hash,
           NEW n \in 1..L, \E j \in 1..Len(history) : IsRec(history[j]) /\ history[j] = r[n],
           NEW k \in 1..n
    PROVE  \E j \in 1..Len(history) : IsRec(history[j]) /\ history[j] = r[k]
  <1> DEFINE Ours(m) == \E j \in 1..Len(history) : IsRec(history[j]) /\ history[j] = r[m]
             T == {m \in 1..n : ~Ours(m)}
  <1> SUFFICES ASSUME T # {} PROVE FALSE
    OBVIOUS
  <1>1. T \subseteq 0..n /\ n \in Nat
    OBVIOUS
  <1>2. PICK m \in T : \A o \in T : o <= m
    <2> HIDE DEF T
    <2> QED BY <1>1, LargestIndex
  <1>3. m \in 1..n /\ ~Ours(m) /\ Ours(n)
    BY <1>2
  <1>4. m # n
    <2> HIDE DEF T, Ours
    <2> QED BY <1>3
  <1>5. m + 1 \in 1..n /\ m + 1 \in 2..L /\ m \in 1..L /\ ~(m + 1 <= m) /\ m + 1 - 1 = m
    BY <1>3, <1>4
  <1>6. Ours(m + 1)
    BY <1>2, <1>5
  <1>7. PICK j \in 1..Len(history) : IsRec(history[j]) /\ history[j] = r[m + 1]
    BY <1>6
  <1> HIDE DEF T
  <1>8. Len(history) \in Nat /\ JoinedTo(history, Len(history))
    BY HistoryIsChain
  <1>9. history[j].body.prevHash = HeadHash(history, j - 1)
    BY <1>7, <1>8, HeadStep DEF JoinsRecord
  <1>10. r[m].body.hash = HeadHash(history, j - 1)
    BY <1>5, <1>7, <1>9
  <1>11. j - 1 \in 0..Len(history) /\ RecordLine(r[m]) /\ RecordHash(r[m]) = r[m].body.hash
    BY <1>5, <1>8
  <1>12. Ours(m)
    BY <1>10, <1>11, HistoryRecord
  <1> QED BY <1>3, <1>12

\* The first n of the records r are the history's between the sequences of the two.
SinksTo(r, n) ==
    {r[k] : k \in 1..n} =
        {l \in LinesOf(history) : IsRec(l) /\ l.body.seq \in r[1].body.seq..r[n].body.seq}

\* So such records, if they follow one another, are exactly the history's between
\* the first and the one that is known.
LEMMA PinnedRange ==
    ASSUME HistoryOK, NEW L \in Nat, NEW r,
           \A n \in 1..L : RecordLine(r[n]) /\ RecordHash(r[n]) = r[n].body.hash,
           \A n \in 2..L : r[n].body.prevHash = r[n - 1].body.hash,
           \A n \in 2..L : r[n].body.seq = r[n - 1].body.seq + 1,
           NEW n \in 1..L, \E j \in 1..Len(history) : IsRec(history[j]) /\ history[j] = r[n]
    PROVE  SinksTo(r, n)
  <1> DEFINE a == [m \in 1..L |-> r[m].body.seq]
  <1>1. \A m \in 1..L : a[m] = r[m].body.seq /\ a[m] \in Nat
    BY DEF RecordLine
  <1>2. \A m \in 2..L : a[m] = a[m - 1] + 1
    <2>1. \A m \in 2..L : m \in 1..L /\ m - 1 \in 1..L
      OBVIOUS
    <2> QED BY <1>1, <2>1
  <1> HIDE DEF a
  <1>3. \A k \in 1..L : a[k] = a[1] + (k - 1)
    BY <1>1, <1>2, Counted
  <1>4. 1 \in 1..L /\ a[1] \in Nat /\ a[1] = r[1].body.seq /\ a[n] = r[n].body.seq
        /\ a[n] = a[1] + (n - 1)
    BY <1>1, <1>3
  <1>5. ASSUME NEW k \in 1..n
        PROVE  r[k] \in LinesOf(history) /\ IsRec(r[k]) /\ r[k].body.seq \in a[1]..a[n]
    <2>1. PICK j \in 1..Len(history) : IsRec(history[j]) /\ history[j] = r[k]
      BY PinnedRecords
    <2>2. k \in 1..L
      OBVIOUS
    <2>3. r[k].body.seq = a[1] + (k - 1)
      BY <1>1, <1>3, <2>2
    <2>4. r[k].body.seq \in a[1]..a[n]
      BY <1>4, <2>3
    <2> QED BY <2>1, <2>4 DEF LinesOf
  <1>6. ASSUME NEW l \in LinesOf(history), IsRec(l), l.body.seq \in a[1]..a[n]
        PROVE  \E k \in 1..n : l = r[k]
    <2>1. PICK k : k = l.body.seq - a[1] + 1
      OBVIOUS
    <2>2. k \in 1..n /\ a[1] + (k - 1) = l.body.seq
      BY <1>4, <1>6, <2>1
    <2>3. k \in 1..L /\ r[k].body.seq = l.body.seq
      <3>1. k \in 1..L
        BY <2>2
      <3> QED BY <1>1, <1>3, <2>2, <3>1
    <2>4. PICK j \in 1..Len(history) : IsRec(history[j]) /\ history[j] = r[k]
      BY <2>2, PinnedRecords
    <2>5. PICK i0 \in 1..Len(history) : l = history[i0]
      BY DEF LinesOf
    <2>6. InOrder(history) /\ Len(history) \in Nat
      BY HistoryIsChain, ChainInOrder
    <2>7. history[j].body.seq = history[i0].body.seq /\ history[j].body.seq \in Nat
      BY <1>1, <2>3, <2>4, <2>5
    <2>8. ~(j < i0) /\ ~(i0 < j)
      BY <1>6, <2>4, <2>5, <2>6, <2>7 DEF InOrder
    <2>9. j = i0
      BY <2>6, <2>8
    <2> QED BY <2>2, <2>4, <2>5, <2>9
  <1> QED BY <1>4, <1>5, <1>6 DEF SinksTo

\* A bundle that verifies and has a record is linked and its checkpoints are signed.
LEMMA VerifiedBundle ==
    ASSUME NEW b, VerifyBundle(b, TRUE) = {}, b.complete
    PROVE  /\ \A n \in 1..Len(b.records) : RecordHash(b.records[n]) = b.records[n].body.hash
           /\ \A n \in 2..Len(b.records) :
                 b.records[n].body.prevHash = b.records[n - 1].body.hash
           /\ \A n \in 1..Len(b.checkpoints) : VerifyCheckpoint(b.checkpoints[n].body)
  <1>1. \A n \in 1..Len(b.records) : RecordHash(b.records[n]) = b.records[n].body.hash
    <2>1. "content" \notin VerifyBundle(b, TRUE)
      OBVIOUS
    <2> QED BY <2>1 DEF VerifyBundle
  <1>2. \A n \in 1..Len(b.records) :
          b.records[n].body.prevHash = IF n = 1 THEN b.prevHash ELSE b.records[n - 1].body.hash
    <2>1. "chain" \notin VerifyBundle(b, TRUE)
      OBVIOUS
    <2> QED BY <2>1 DEF VerifyBundle
  <1>3. \A n \in 1..Len(b.checkpoints) : VerifyCheckpoint(b.checkpoints[n].body)
    <2>1. "checkpoint" \notin VerifyBundle(b, TRUE)
      OBVIOUS
    <2> QED BY <2>1 DEF VerifyBundle
  <1> HIDE DEF VerifyBundle
  <1>4. ASSUME NEW n \in 2..Len(b.records)
        PROVE  b.records[n].body.prevHash = b.records[n - 1].body.hash
    BY <1>2
  <1> QED BY <1>1, <1>3, <1>4

\* From whatever log it was extracted, a contiguous bundle that verifies is the sink's
\* as far as a checkpoint in it names the hash of one of its records: for every
\* history, any number of edits and every filter.
THEOREM BundlePinnedHolds == Spec => []BundlePinned
  <1>1. ASSUME IInv, Presented, NEW f,
               Export(log, f) # None, VerifyBundle(Export(log, f), TRUE) = {},
               Export(log, f).complete,
               NEW n \in 1..Len(Export(log, f).records),
               NEW m \in 1..Len(Export(log, f).checkpoints),
               Export(log, f).records[n].body.hash = Export(log, f).checkpoints[m].body.hash
        PROVE  SinksTo(Export(log, f).records, n)
    <2> DEFINE b == Export(log, f)
               L == Len(b.records)
    <2>1. HistoryOK /\ LogOK /\ PresentableLog(log, CheckpointsOf(history)) /\ Len(log) \in Nat
      BY <1>1 DEF IInv, LogOK, PresentableLog
    <2>2. \A p \in 1..Len(log) : IsRec(log[p]) \/ IsCp(log[p])
      BY <1>1 DEF Export
    <2>3. b.records # <<>>
      BY <1>1
    <2>4. PICK e, d, g : Located(log, f, b, e, d, g)
      BY <2>1, <2>2, <2>3, BundleLines
    <2>5. \A q \in 2..L : b.records[q].body.seq = b.records[q - 1].body.seq + 1
      BY <1>1, <2>2, ExportFields
    <2>6. /\ \A q \in 1..L : RecordHash(b.records[q]) = b.records[q].body.hash
          /\ \A q \in 2..L : b.records[q].body.prevHash = b.records[q - 1].body.hash
          /\ \A q \in 1..Len(b.checkpoints) : VerifyCheckpoint(b.checkpoints[q].body)
      BY <1>1, VerifiedBundle
    <2>7. n \in 1..L /\ m \in 1..Len(b.checkpoints)
          /\ b.records[n].body.hash = b.checkpoints[m].body.hash
      BY <1>1
    <2> HIDE DEF b
    <2>8. /\ L \in Nat
          /\ \A q \in 1..L : e[q] \in 1..Len(log) /\ b.records[q] = log[e[q]] /\ IsRec(log[e[q]])
          /\ \E p \in 1..Len(log) : b.checkpoints[m] = log[p] /\ IsCp(log[p])
      BY <2>4, <2>7, BundleKinds
    <2>9. \A q \in 1..L : RecordLine(b.records[q])
      <3> SUFFICES ASSUME NEW q \in 1..L PROVE RecordLine(log[e[q]])
        BY <2>8
      <3>1. e[q] \in 1..Len(log) /\ IsRec(log[e[q]])
        BY <2>8
      <3>2. Presentable(log[e[q]], CheckpointsOf(history))
        BY <2>1, <3>1 DEF PresentableLog
      <3> QED BY <3>1, <3>2, PresentableKinds
    <2>10. PICK p \in 1..Len(log) : b.checkpoints[m] = log[p] /\ IsCp(log[p])
      BY <2>8
    <2>11. PICK c \in 1..Len(history) : history[c].body = log[p].body
      BY <2>1, <2>6, <2>7, <2>10, VerifiedInHistory
    <2>12. c \in 0..Len(history) /\ b.records[n].body.hash = HeadHash(history, c)
      BY <2>7, <2>10, <2>11 DEF HeadHash
    <2>13. \E j \in 1..Len(history) : IsRec(history[j]) /\ history[j] = b.records[n]
      BY <2>1, <2>6, <2>7, <2>9, <2>12, HistoryRecord
    <2>14. PICK r : r = b.records
      OBVIOUS
    <2>15. SinksTo(r, n)
      <3> HIDE DEF L
      <3>1. /\ \A q \in 1..L : RecordLine(r[q]) /\ RecordHash(r[q]) = r[q].body.hash
            /\ \A q \in 2..L : r[q].body.prevHash = r[q - 1].body.hash
            /\ \A q \in 2..L : r[q].body.seq = r[q - 1].body.seq + 1
        BY <2>5, <2>6, <2>9, <2>14
      <3>2. L \in Nat /\ n \in 1..L
        BY <2>7, <2>8
      <3>3. \E j \in 1..Len(history) : IsRec(history[j]) /\ history[j] = r[n]
        BY <2>13, <2>14
      <3> QED BY <2>1, <3>1, <3>2, <3>3, PinnedRange
    <2> QED BY <2>14, <2>15 DEF b
  <1>2. IInv => BundlePinned
    BY <1>1 DEF BundlePinned, SinksTo
  <1> QED BY <1>2, VerifierInvariant, PTL
=============================================================================
