-------------------------- MODULE EvidenceSinkProofs --------------------------
(***************************************************************************)
(* Proofs about EvidenceSink for every number of writers, records and      *)
(* crashes, every set of faults and every way a crash may cut a line.      *)
(***************************************************************************)
EXTENDS EvidenceSink, TLAPS, WellFoundedInduction

-----------------------------------------------------------------------------
(* Chains of lines: how appending a line and cutting the log to a prefix keep *)
(* it well formed.                                                            *)

(* What the log operators do to a sequence. *)

\* A sequence is a sequence over its own elements.
LEMMA OwnLines ==
    ASSUME NEW S, NEW s \in Seq(S)
    PROVE  s \in Seq(LinesOf(s))
  BY DEF LinesOf

\* Appending one or two lines at once, as Write does.
LEMMA ConcatOne ==
    ASSUME NEW S, NEW s \in Seq(S), NEW e
    PROVE  s \o <<e>> = Append(s, e)
  OBVIOUS

\* Concatenating two lines is appending them one after the other.
LEMMA ConcatTwo ==
    ASSUME NEW S, NEW s \in Seq(S), NEW e, NEW f
    PROVE  s \o <<e, f>> = Append(Append(s, e), f)
  OBVIOUS

\* A non-empty set of line numbers has a largest one.
LEMMA LargestIndex ==
    ASSUME NEW n \in Nat, NEW T, T \subseteq 0..n, T # {}
    PROVE  \E i \in T : \A j \in T : j <= i
  <1> DEFINE U == {n - i : i \in T}
  <1>1. U \subseteq Nat /\ U # {}
    <2>1. \A i \in T : n - i \in Nat
      OBVIOUS
    <2>2. PICK i \in T : TRUE
      OBVIOUS
    <2>3. n - i \in U
      OBVIOUS
    <2> QED BY <2>1, <2>3
  <1>2. PICK x \in U : \A y \in U : ~(<<y, x>> \in OpToRel(<, Nat))
    <2> HIDE DEF U
    <2> QED BY <1>1, NatLessThanWellFounded, WFMin
  <1>3. \A y \in U : x <= y
    <2> SUFFICES ASSUME NEW y \in U PROVE ~(y < x)
      BY <1>1
    <2>1. <<y, x>> \notin OpToRel(<, Nat) /\ y \in Nat /\ x \in Nat
      BY <1>1, <1>2
    <2> QED BY <2>1 DEF OpToRel
  <1>4. PICK i \in T : x = n - i
    OBVIOUS
  <1>5. \A j \in T : n - i <= n - j
    BY <1>3, <1>4
  <1> QED BY <1>5

\* The prefix a crash leaves.
LEMMA Prefix ==
    ASSUME NEW S, NEW s \in Seq(S), NEW k \in 0..Len(s)
    PROVE  /\ SubSeq(s, 1, k) \in Seq(S)
           /\ Len(SubSeq(s, 1, k)) = k
           /\ \A i \in 1..k : SubSeq(s, 1, k)[i] = s[i]
           /\ LinesOf(SubSeq(s, 1, k)) \subseteq LinesOf(s)
  <1>1. /\ SubSeq(s, 1, k) \in Seq(S)
        /\ Len(SubSeq(s, 1, k)) = k
        /\ \A i \in 1..k : SubSeq(s, 1, k)[i] = s[i]
    OBVIOUS
  <1> QED BY <1>1 DEF LinesOf

-----------------------------------------------------------------------------
(* Chains *)

\* Whether line i is linked depends on it and on the line above it only.
LEMMA LinkedAtLocal ==
    ASSUME NEW s, NEW t, NEW i \in Nat \ {0}, s[i] = t[i],
           i > 1 => s[i - 1] = t[i - 1], LinkedAt(s, i)
    PROVE  LinkedAt(t, i)
  BY DEF LinkedAt, SeqBefore, HashBefore

\* A chain cut to a prefix is still a chain.
LEMMA PrefixWellFormed ==
    ASSUME NEW S, NEW s \in Seq(S), NEW k \in 0..Len(s), WellFormed(s)
    PROVE  WellFormed(SubSeq(s, 1, k))
  <1> DEFINE t == SubSeq(s, 1, k)
  <1>1. Len(t) = k /\ \A i \in 1..k : t[i] = s[i]
    OBVIOUS
  <1> HIDE DEF t
  <1>2. ASSUME NEW i \in 1..k PROVE LinkedAt(t, i)
    <2>1. LinkedAt(s, i)
      BY DEF WellFormed, ChainLinked
    <2> QED BY <1>1, <2>1, LinkedAtLocal
  <1>3. ASSUME NEW i \in 1..k, IsCheckpoint(t[i]) PROVE i > 1 /\ IsRecord(t[i - 1])
    BY <1>1, <1>3 DEF WellFormed, IsCheckpoint
  <1> QED BY <1>1, <1>2, <1>3 DEF WellFormed, ChainLinked, t

\* A chain extended by a line that continues it is a chain.
LEMMA AppendWellFormed ==
    ASSUME NEW S, NEW s \in Seq(S), WellFormed(s), NEW line, Continues(s, line)
    PROVE  /\ WellFormed(Append(s, line))
           /\ Len(Append(s, line)) = Len(s) + 1
           /\ Append(s, line)[Len(s) + 1] = line
           /\ Append(s, line) \in Seq(S \cup {line})
  <1> DEFINE t == Append(s, line)
             n == Len(s)
  <1>0. s \in Seq(S \cup {line}) /\ n \in Nat
    OBVIOUS
  <1>1. /\ Len(t) = n + 1 /\ t[n + 1] = line /\ \A i \in 1..n : t[i] = s[i]
        /\ t \in Seq(S \cup {line})
    BY <1>0
  <1> HIDE DEF t
  <1>2. ASSUME NEW i \in 1..n PROVE LinkedAt(t, i)
    <2>1. LinkedAt(s, i)
      BY DEF WellFormed, ChainLinked
    <2> QED BY <1>0, <1>1, <2>1, LinkedAtLocal
  <1>3. SeqBefore(t, n + 1) = SeqBefore(s, n + 1) /\ HashBefore(t, n + 1) = HashBefore(s, n + 1)
    BY <1>0, <1>1 DEF SeqBefore, HashBefore
  <1>4. LinkedAt(t, n + 1)
    BY <1>1, <1>3 DEF Continues, LinkedAt
  <1>5. IsCheckpoint(line) => n + 1 > 1 /\ IsRecord(s[n])
    BY <1>0 DEF Continues, IsRecord, IsCheckpoint
  <1>6. ASSUME NEW i \in 1..n, IsCheckpoint(t[i]) PROVE i > 1 /\ IsRecord(t[i - 1])
    BY <1>0, <1>1, <1>6 DEF WellFormed, IsCheckpoint
  <1>7. IsCheckpoint(t[n + 1]) => n + 1 > 1 /\ IsRecord(t[n + 1 - 1])
    BY <1>0, <1>1, <1>5
  <1>8. \A i \in 1..(n + 1) : i \in 1..n \/ i = n + 1
    BY <1>0
  <1>9. WellFormed(t)
    BY <1>1, <1>2, <1>4, <1>6, <1>7, <1>8 DEF WellFormed, ChainLinked
  <1> QED BY <1>1, <1>9 DEF t

-----------------------------------------------------------------------------
(* The records of a chain.  What follows by induction over the lines is shown  *)
(* on the least line at which it would fail.                                   *)

\* A non-empty set of numbers has a least one.
LEMMA LeastNumber ==
    ASSUME NEW T, T \subseteq Nat, T # {}
    PROVE  \E i \in T : \A j \in T : i <= j
  <1>1. PICK i \in T : \A j \in T : ~(<<j, i>> \in OpToRel(<, Nat))
    BY NatLessThanWellFounded, WFMin
  <1>2. ASSUME NEW j \in T PROVE i <= j
    <2>1. <<j, i>> \notin OpToRel(<, Nat) /\ i \in Nat /\ j \in Nat
      BY <1>1
    <2> QED BY <2>1 DEF OpToRel
  <1> QED BY <1>2

\* Lines of a file: records and checkpoints with their sequence numbers.
Lines(s) ==
    \A i \in 1..Len(s) : /\ IsRecord(s[i]) \/ IsCheckpoint(s[i])
                         /\ s[i].seq \in Nat

\* Each line of a chain against the one above it.
LEMMA LineAbove ==
    ASSUME NEW S, NEW s \in Seq(S), Lines(s), ChainLinked(s), NEW i \in 1..Len(s)
    PROVE  /\ SeqBefore(s, i) \in Nat
           /\ i > 1 => SeqBefore(s, i) = s[i - 1].seq
           /\ IsRecord(s[i]) => s[i].seq = SeqBefore(s, i) + 1
           /\ ~IsRecord(s[i]) => s[i].seq = SeqBefore(s, i)
  <1>1. LinkedAt(s, i)
    BY DEF ChainLinked
  <1>2. SeqBefore(s, i) \in Nat /\ (i > 1 => SeqBefore(s, i) = s[i - 1].seq)
    BY DEF SeqBefore, Lines
  <1>3. CASE IsRecord(s[i])
    <2>1. s[i] = Link(s[i].ev, SeqBefore(s, i) + 1, HashBefore(s, i))
      BY <1>1, <1>3 DEF LinkedAt
    <2>2. s[i].seq = SeqBefore(s, i) + 1
      BY <2>1 DEF Link
    <2> QED BY <1>2, <1>3, <2>2
  <1>4. CASE ~IsRecord(s[i])
    BY <1>1, <1>2, <1>4 DEF LinkedAt
  <1> QED BY <1>3, <1>4

\* Sequence numbers never fall, and a record's is higher than any above it.
LEMMA SequencesGrow ==
    ASSUME NEW S, NEW s \in Seq(S), Lines(s), ChainLinked(s),
           NEW i \in 1..Len(s), NEW j \in 1..Len(s), i < j
    PROVE  /\ s[i].seq <= s[j].seq
           /\ IsRecord(s[j]) => s[i].seq < s[j].seq
  <1>1. ASSUME NEW m \in i..Len(s) PROVE s[i].seq <= s[m].seq
    <2> DEFINE T == {n \in i..Len(s) : ~(s[i].seq <= s[n].seq)}
    <2> SUFFICES ASSUME T # {} PROVE FALSE
      OBVIOUS
    <2>1. T \subseteq Nat
      OBVIOUS
    <2>2. PICK n \in T : \A o \in T : n <= o
      <3> HIDE DEF T
      <3> QED BY <2>1, LeastNumber
    <2>3. n \in 1..Len(s) /\ s[i].seq \in Nat /\ s[n].seq \in Nat /\ n # i
      BY DEF Lines
    <2>4. n - 1 \in i..Len(s) /\ n - 1 \notin T /\ n > 1
      BY <2>2, <2>3, SMTT(30)
    <2>5. s[i].seq <= s[n - 1].seq
      BY <2>4
    <2>6. s[n - 1].seq <= s[n].seq /\ s[n - 1].seq \in Nat
      <3> HIDE DEF T
      <3>1. s[n].seq \in {s[n - 1].seq, s[n - 1].seq + 1} /\ s[n - 1].seq \in Nat
        BY <2>3, <2>4, LineAbove
      <3>2. \A a, b \in Nat : b \in {a, a + 1} => a <= b
        OBVIOUS
      <3> QED BY <2>3, <3>1, <3>2
    <2> QED BY <2>3, <2>5, <2>6
  <1>2. j - 1 \in i..Len(s) /\ j > 1 /\ j \in i..Len(s)
    OBVIOUS
  <1>3. s[i].seq \in Nat /\ s[j].seq \in Nat /\ s[j - 1].seq \in Nat
    BY <1>2 DEF Lines
  <1> QED BY <1>1, <1>2, <1>3, LineAbove, SMTT(30)

\* Every number up to a line's is that of a record no further down.
LEMMA SequencesComplete ==
    ASSUME NEW S, NEW s \in Seq(S), Lines(s), ChainLinked(s),
           NEW i \in 1..Len(s), NEW n \in 1..s[i].seq
    PROVE  \E j \in 1..i : IsRecord(s[j]) /\ s[j].seq = n
  <1> DEFINE T == {m \in 1..Len(s) : \E q \in 1..s[m].seq :
                      \A j \in 1..m : ~(IsRecord(s[j]) /\ s[j].seq = q)}
  <1> SUFFICES ASSUME T # {} PROVE FALSE
    OBVIOUS
  <1>1. T \subseteq Nat
    OBVIOUS
  <1>2. PICK m \in T : \A o \in T : m <= o
    <2> HIDE DEF T
    <2> QED BY <1>1, LeastNumber
  <1>3. PICK q \in 1..s[m].seq : \A j \in 1..m : ~(IsRecord(s[j]) /\ s[j].seq = q)
    BY <1>2
  <1>4. m \in 1..Len(s) /\ s[m].seq \in Nat /\ q \in Nat /\ q >= 1 /\ q <= s[m].seq
    BY DEF Lines
  <1>5. ~(IsRecord(s[m]) /\ s[m].seq = q)
    BY <1>3, <1>4
  <1>6. q <= SeqBefore(s, m) /\ SeqBefore(s, m) \in Nat
    BY <1>4, <1>5, LineAbove
  <1>7. m > 1 /\ SeqBefore(s, m) = s[m - 1].seq
    BY <1>4, <1>6 DEF SeqBefore
  <1>8. m - 1 \in T
    <2>1. m - 1 \in 1..Len(s) /\ q \in 1..s[m - 1].seq
      BY <1>4, <1>6, <1>7
    <2>2. \A j \in 1..(m - 1) : ~(IsRecord(s[j]) /\ s[j].seq = q)
      BY <1>3, <1>4
    <2> QED BY <2>1, <2>2
  <1>9. m <= m - 1
    BY <1>2, <1>8
  <1> QED BY <1>4, <1>9

\* The records of a chain are a sequence, and it has each of them at its number.
LEMMA RecordsAtTheirNumber ==
    ASSUME NEW S, NEW s \in Seq(S), Lines(s), ChainLinked(s)
    PROVE  /\ SeqBefore(s, Len(s) + 1) \in Nat
           /\ RecordsOf(s) \in Seq(LinesOf(s))
           /\ Len(RecordsOf(s)) = SeqBefore(s, Len(s) + 1)
           /\ \A i \in 1..Len(s) : IsRecord(s[i]) =>
                 /\ s[i].seq \in 1..SeqBefore(s, Len(s) + 1)
                 /\ RecordsOf(s)[s[i].seq] = s[i]
           /\ \A n \in 1..SeqBefore(s, Len(s) + 1) : \E i \in 1..Len(s) :
                 IsRecord(s[i]) /\ s[i].seq = n /\ RecordsOf(s)[n] = s[i]
  <1> DEFINE last == SeqBefore(s, Len(s) + 1)
             at(n) == CHOOSE r \in LinesOf(s) : IsRecord(r) /\ r.seq = n
  <1>1. Len(s) \in Nat /\ last \in Nat /\ (Len(s) > 0 => last = s[Len(s)].seq)
        /\ (Len(s) = 0 => last = 0)
    BY DEF SeqBefore, Lines
  <1>2. ASSUME NEW i \in 1..Len(s), IsRecord(s[i])
        PROVE  s[i].seq \in 1..last /\ at(s[i].seq) = s[i]
    <2>1. s[i].seq \in Nat /\ s[i].seq >= 1
      BY <1>2, LineAbove DEF Lines
    <2>2. s[i].seq <= last
      <3>1. CASE i = Len(s)
        BY <1>1, <2>1, <3>1
      <3>2. CASE i < Len(s)
        <4>1. s[i].seq <= s[Len(s)].seq
          BY <1>1, <3>2, SequencesGrow
        <4> QED BY <1>1, <4>1
      <3> QED BY <1>1, <3>1, <3>2
    <2>3. ASSUME NEW r \in LinesOf(s), IsRecord(r), r.seq = s[i].seq PROVE r = s[i]
      <3>1. PICK j \in 1..Len(s) : r = s[j]
        BY DEF LinesOf
      <3>2. s[j].seq \in Nat /\ IsRecord(s[j]) /\ s[j].seq = s[i].seq
        BY <2>1, <2>3, <3>1
      <3>3. ~(i < j)
        BY <2>1, <3>2, SequencesGrow
      <3>4. ~(j < i)
        BY <1>2, <2>1, <3>2, SequencesGrow
      <3> QED BY <3>1, <3>3, <3>4
    <2>4. s[i] \in LinesOf(s)
      BY DEF LinesOf
    <2>5. at(s[i].seq) = s[i]
      BY <1>2, <2>3, <2>4
    <2> QED BY <1>1, <2>1, <2>2, <2>5
  <1>3. ASSUME NEW n \in 1..last
        PROVE  \E i \in 1..Len(s) : IsRecord(s[i]) /\ s[i].seq = n /\ at(n) = s[i]
    <2>1. Len(s) > 0 /\ n \in 1..s[Len(s)].seq
      BY <1>1
    <2>2. PICK i \in 1..Len(s) : IsRecord(s[i]) /\ s[i].seq = n
      BY <1>1, <2>1, SequencesComplete
    <2> QED BY <1>2, <2>2
  <1> HIDE DEF at
  <1>4. RecordsOf(s) = [n \in 1..last |-> at(n)]
    BY DEF RecordsOf, at
  <1>5. \A n \in 1..last : at(n) \in LinesOf(s)
    BY <1>3 DEF LinesOf
  <1> HIDE DEF last
  <1>6. RecordsOf(s) \in Seq(LinesOf(s)) /\ Len(RecordsOf(s)) = last
    BY <1>1, <1>4, <1>5
  <1>7. \A n \in 1..last : RecordsOf(s)[n] = at(n)
    BY <1>4
  <1> QED BY <1>1, <1>2, <1>3, <1>6, <1>7 DEF last

\* Two sequences with the same elements at the same places are the same.
LEMMA SameSequence ==
    ASSUME NEW S, NEW T, NEW s \in Seq(S), NEW t \in Seq(T), Len(s) = Len(t),
           \A i \in 1..Len(s) : s[i] = t[i]
    PROVE  s = t
  OBVIOUS

\* A record at the end of the log is one more record at the end of the chain.
LEMMA RecordsAfterRecord ==
    ASSUME NEW S, NEW s \in Seq(S), Lines(s), WellFormed(s),
           NEW line, IsRecord(line), line.seq \in Nat, Continues(s, line)
    PROVE  /\ RecordsOf(Append(s, line)) = Append(RecordsOf(s), line)
           /\ line.seq = Len(RecordsOf(s)) + 1
  <1> DEFINE t == Append(s, line)
             n == Len(s)
             last == SeqBefore(s, n + 1)
  <1>1. /\ t \in Seq(S \cup {line}) /\ Len(t) = n + 1 /\ t[n + 1] = line
        /\ WellFormed(t) /\ n \in Nat
    BY AppendWellFormed
  <1>2. \A i \in 1..n : t[i] = s[i]
    OBVIOUS
  <1> HIDE DEF t
  <1>3. Lines(t) /\ ChainLinked(t) /\ ChainLinked(s)
    BY <1>1, <1>2 DEF Lines, WellFormed
  <1>4. line.seq = last + 1 /\ SeqBefore(t, Len(t) + 1) = line.seq
    <2>1. line = Link(line.ev, last + 1, HashBefore(s, n + 1))
      BY DEF Continues
    <2>2. line.seq = last + 1
      BY <2>1 DEF Link
    <2> QED BY <1>1, <2>2 DEF SeqBefore
  <1>5. /\ last \in Nat /\ RecordsOf(s) \in Seq(LinesOf(s)) /\ Len(RecordsOf(s)) = last
        /\ \A m \in 1..last : \E i \in 1..n :
              IsRecord(s[i]) /\ s[i].seq = m /\ RecordsOf(s)[m] = s[i]
    BY <1>3, RecordsAtTheirNumber
  <1>6. /\ RecordsOf(t) \in Seq(LinesOf(t)) /\ Len(RecordsOf(t)) = last + 1
        /\ \A i \in 1..(n + 1) : IsRecord(t[i]) => RecordsOf(t)[t[i].seq] = t[i]
    BY <1>1, <1>3, <1>4, RecordsAtTheirNumber, SMTT(30)
  <1> HIDE DEF n, last
  <1>7. RecordsOf(t)[last + 1] = line
    BY <1>1, <1>4, <1>6
  <1>8. ASSUME NEW m \in 1..last PROVE RecordsOf(t)[m] = RecordsOf(s)[m]
    <2>1. PICK i \in 1..n : IsRecord(s[i]) /\ s[i].seq = m /\ RecordsOf(s)[m] = s[i]
      BY <1>5
    <2>2. i \in 1..(n + 1) /\ t[i] = s[i]
      BY <1>1, <1>2
    <2> QED BY <1>6, <2>1, <2>2
  <1>9. /\ Append(RecordsOf(s), line) \in Seq(LinesOf(s) \cup {line})
        /\ Len(Append(RecordsOf(s), line)) = last + 1
        /\ Append(RecordsOf(s), line)[last + 1] = line
        /\ \A m \in 1..last : Append(RecordsOf(s), line)[m] = RecordsOf(s)[m]
    <2>1. RecordsOf(s) \in Seq(LinesOf(s) \cup {line})
      BY <1>5
    <2> QED BY <1>5, <2>1
  <1>10. \A m \in 1..(last + 1) : m \in 1..last \/ m = last + 1
    BY <1>5
  <1>11. \A m \in 1..(last + 1) : RecordsOf(t)[m] = Append(RecordsOf(s), line)[m]
    BY <1>7, <1>8, <1>9, <1>10
  <1>12. RecordsOf(t) = Append(RecordsOf(s), line)
    BY <1>6, <1>9, <1>11, SameSequence
  <1> QED BY <1>4, <1>5, <1>12 DEF t, n

\* A checkpoint at the end of the log changes nothing.
LEMMA RecordsAfterCheckpoint ==
    ASSUME NEW S, NEW s \in Seq(S), Lines(s), WellFormed(s),
           NEW line, ~IsRecord(line), line.seq \in Nat, Continues(s, line)
    PROVE  RecordsOf(Append(s, line)) = RecordsOf(s)
  <1> DEFINE t == Append(s, line)
             n == Len(s)
             last == SeqBefore(s, n + 1)
  <1>1. /\ t \in Seq(S \cup {line}) /\ Len(t) = n + 1 /\ t[n + 1] = line
        /\ WellFormed(t) /\ n \in Nat
    BY AppendWellFormed
  <1>2. \A i \in 1..n : t[i] = s[i]
    OBVIOUS
  <1> HIDE DEF t
  <1>3. Lines(t) /\ ChainLinked(t) /\ ChainLinked(s)
    BY <1>1, <1>2 DEF Lines, WellFormed, Continues
  <1>4. SeqBefore(t, Len(t) + 1) = last
    BY <1>1 DEF Continues, SeqBefore
  <1>5. /\ last \in Nat /\ RecordsOf(s) \in Seq(LinesOf(s)) /\ Len(RecordsOf(s)) = last
        /\ \A m \in 1..last : \E i \in 1..n :
              IsRecord(s[i]) /\ s[i].seq = m /\ RecordsOf(s)[m] = s[i]
    BY <1>3, RecordsAtTheirNumber
  <1> HIDE DEF n, last
  <1>6. /\ RecordsOf(t) \in Seq(LinesOf(t)) /\ Len(RecordsOf(t)) = last
        /\ \A i \in 1..(n + 1) : IsRecord(t[i]) => RecordsOf(t)[t[i].seq] = t[i]
    <2>1. /\ RecordsOf(t) \in Seq(LinesOf(t))
          /\ Len(RecordsOf(t)) = SeqBefore(t, Len(t) + 1)
          /\ \A i \in 1..Len(t) : IsRecord(t[i]) => RecordsOf(t)[t[i].seq] = t[i]
      BY <1>1, <1>3, RecordsAtTheirNumber
    <2> QED BY <1>1, <1>4, <2>1
  <1>7. ASSUME NEW m \in 1..last PROVE RecordsOf(t)[m] = RecordsOf(s)[m]
    <2>1. PICK i \in 1..n : IsRecord(s[i]) /\ s[i].seq = m /\ RecordsOf(s)[m] = s[i]
      BY <1>5
    <2>2. i \in 1..(n + 1) /\ t[i] = s[i]
      BY <1>1, <1>2
    <2> QED BY <1>6, <2>1, <2>2
  <1>8. RecordsOf(t) = RecordsOf(s)
    BY <1>5, <1>6, <1>7, SameSequence
  <1> QED BY <1>8 DEF t

\* A prefix of the log has a prefix of the records, all that its lines number.
LEMMA RecordsOfPrefix ==
    ASSUME NEW S, NEW s \in Seq(S), Lines(s), WellFormed(s), NEW k \in 0..Len(s)
    PROVE  /\ SeqBefore(s, k + 1) \in 0..Len(RecordsOf(s))
           /\ RecordsOf(SubSeq(s, 1, k)) = SubSeq(RecordsOf(s), 1, SeqBefore(s, k + 1))
           /\ \A i \in 1..k : IsRecord(s[i]) => s[i].seq <= SeqBefore(s, k + 1)
  <1> DEFINE t == SubSeq(s, 1, k)
             last == SeqBefore(s, k + 1)
             all == RecordsOf(s)
  <1>1. t \in Seq(S) /\ Len(t) = k /\ (\A i \in 1..k : t[i] = s[i]) /\ k \in Nat
    OBVIOUS
  <1>2. WellFormed(t)
    BY PrefixWellFormed
  <1> HIDE DEF t
  <1>3. Lines(t) /\ ChainLinked(t) /\ ChainLinked(s)
    BY <1>1, <1>2 DEF Lines, WellFormed
  <1>4. SeqBefore(t, Len(t) + 1) = last
    BY <1>1 DEF SeqBefore
  <1> HIDE DEF last
  <1>5. /\ last \in Nat /\ RecordsOf(t) \in Seq(LinesOf(t)) /\ Len(RecordsOf(t)) = last
        /\ \A m \in 1..last : \E i \in 1..k :
              IsRecord(t[i]) /\ t[i].seq = m /\ RecordsOf(t)[m] = t[i]
        /\ \A i \in 1..k : IsRecord(t[i]) => t[i].seq \in 1..last
    BY <1>1, <1>3, <1>4, RecordsAtTheirNumber
  <1>6. /\ all \in Seq(LinesOf(s)) /\ Len(all) \in Nat
        /\ Len(all) = SeqBefore(s, Len(s) + 1)
        /\ \A i \in 1..Len(s) : IsRecord(s[i]) => all[s[i].seq] = s[i]
    BY <1>3, RecordsAtTheirNumber
  <1>7. last <= Len(all)
    <2>1. CASE k = 0
      BY <1>6, <2>1 DEF SeqBefore, last
    <2>2. CASE k = Len(s)
      BY <1>5, <1>6, <2>2 DEF last
    <2>3. CASE k > 0 /\ k < Len(s)
      <3>1. s[k].seq <= s[Len(s)].seq
        BY <1>3, <2>3, SequencesGrow
      <3>2. last = s[k].seq /\ Len(all) = s[Len(s)].seq
        BY <1>6, <2>3 DEF SeqBefore, last
      <3> QED BY <3>1, <3>2
    <2> QED BY <1>1, <2>1, <2>2, <2>3
  <1> HIDE DEF all
  <1>8. ASSUME NEW m \in 1..last PROVE RecordsOf(t)[m] = all[m]
    <2>1. PICK i \in 1..k : IsRecord(t[i]) /\ t[i].seq = m /\ RecordsOf(t)[m] = t[i]
      BY <1>5
    <2>2. i \in 1..Len(s) /\ t[i] = s[i]
      BY <1>1
    <2> QED BY <1>6, <2>1, <2>2
  <1>9. /\ SubSeq(all, 1, last) \in Seq(LinesOf(s)) /\ Len(SubSeq(all, 1, last)) = last
        /\ \A m \in 1..last : SubSeq(all, 1, last)[m] = all[m]
    BY <1>5, <1>6, <1>7
  <1>10. RecordsOf(t) = SubSeq(all, 1, last)
    BY <1>5, <1>8, <1>9, SameSequence
  <1> QED BY <1>1, <1>5, <1>6, <1>7, <1>10 DEF t, last, all

\* The chain's head is the hash of its last record.
LEMMA HeadOfRecords ==
    ASSUME NEW S, NEW s \in Seq(S), Lines(s), WellFormed(s)
    PROVE  HashBefore(s, Len(s) + 1) =
             IF RecordsOf(s) = <<>> THEN GenesisHash
             ELSE RecordsOf(s)[Len(RecordsOf(s))].hash
  <1> DEFINE n == Len(s)
  <1>1. ChainLinked(s) /\ n \in Nat
    BY DEF WellFormed
  <1>2. /\ RecordsOf(s) \in Seq(LinesOf(s)) /\ Len(RecordsOf(s)) = SeqBefore(s, n + 1)
        /\ SeqBefore(s, n + 1) \in Nat
        /\ \A i \in 1..n : IsRecord(s[i]) =>
              s[i].seq \in 1..SeqBefore(s, n + 1) /\ RecordsOf(s)[s[i].seq] = s[i]
    BY <1>1, RecordsAtTheirNumber
  <1>3. CASE n = 0
    BY <1>2, <1>3 DEF SeqBefore, HashBefore
  <1>4. CASE n > 0
    <2>1. PICK i \in 1..n : IsRecord(s[i]) /\ s[i].seq = s[n].seq /\ s[i].hash = s[n].hash
      <3>1. CASE IsRecord(s[n])
        BY <1>1, <1>4, <3>1
      <3>2. CASE ~IsRecord(s[n])
        <4>1. n > 1 /\ IsRecord(s[n - 1])
          BY <1>1, <1>4, <3>2 DEF WellFormed, Lines
        <4>2. LinkedAt(s, n)
          BY <1>1, <1>4 DEF ChainLinked
        <4>3. s[n].seq = s[n - 1].seq /\ s[n].hash = s[n - 1].hash
          BY <1>1, <3>2, <4>1, <4>2 DEF LinkedAt, SeqBefore, HashBefore
        <4> QED BY <1>1, <4>1, <4>3
      <3> QED BY <3>1, <3>2
    <2>2. SeqBefore(s, n + 1) = s[n].seq /\ HashBefore(s, n + 1) = s[n].hash
      BY <1>1, <1>4 DEF SeqBefore, HashBefore
    <2>3. RecordsOf(s)[Len(RecordsOf(s))] = s[i] /\ Len(RecordsOf(s)) >= 1
      BY <1>2, <2>1, <2>2
    <2>4. RecordsOf(s) # <<>>
      BY <2>3
    <2> QED BY <2>1, <2>2, <2>3, <2>4
  <1> QED BY <1>1, <1>3, <1>4

-----------------------------------------------------------------------------
(* Durability *)

\* A step that appends lines whose records carry the next sequence, keeps
\* every older line and takes nothing back from the disk.
Appends ==
    /\ log' \in Seq(LinesOf(log'))
    /\ Len(log) <= Len(log')
    /\ \A i \in 1..Len(log) : log'[i] = log[i]
    /\ \A i \in 1..Len(log') :
          /\ log'[i].type \in {"record", "checkpoint"} /\ log'[i].seq \in Nat
          /\ IsRecord(log'[i]) => log'[i].seq > 0
          /\ i > Len(log) /\ IsRecord(log'[i]) => log'[i].seq = seq + 1
    /\ written' \in written..Len(log')
    /\ durable' = durable

\* What was covered stays covered when later sequences are appended.
LEMMA CoveredAppends ==
    ASSUME TypeOK, Appends, NEW n \in Nat, n <= seq,
           NEW k \in Nat, NEW m \in Nat, k <= m, Covered(n, k)
    PROVE  \A i \in 1..Len(log') : IsRecord(log'[i]) /\ log'[i].seq <= n => i <= m
  <1>1. Len(log) \in Nat /\ Len(log') \in Nat /\ seq \in Nat
    BY DEF TypeOK, Appends
  <1> SUFFICES ASSUME NEW i \in 1..Len(log'), IsRecord(log'[i]), log'[i].seq <= n
               PROVE  i <= m
    OBVIOUS
  <1>2. CASE i <= Len(log)
    BY <1>1, <1>2 DEF Appends, Covered, IsRecord
  <1>3. CASE i > Len(log)
    BY <1>1, <1>3 DEF Appends
  <1> QED BY <1>1, <1>2, <1>3

\* Every step that appends keeps what is synced or acknowledged durable.
LEMMA AppendsKeepsDurable ==
    ASSUME DurabilityInv, Appends, syncedSeq' = syncedSeq, acked' = acked
    PROVE  SyncedIsDurable' /\ AckedDurable'
  <1>1. SyncedIsDurable'
    <2>1. \A i \in 1..Len(log') :
             IsRecord(log'[i]) /\ log'[i].seq <= syncedSeq => i <= durable
      <3>1. syncedSeq \in Nat /\ durable \in Nat /\ syncedSeq <= seq
        BY DEF DurabilityInv, GroupCommit, TypeOK
      <3>2. TypeOK /\ Covered(syncedSeq, durable)
        BY DEF DurabilityInv, SyncedIsDurable
      <3> QED BY <3>1, <3>2, CoveredAppends
    <2> QED BY <2>1 DEF SyncedIsDurable, Covered, Appends, IsRecord
  <1>2. AckedDurable'
    <2>1. durable \in 0..Len(log) /\ Len(log) \in Nat
      BY DEF DurabilityInv, TypeOK
    <2>2. \A i \in 1..durable : log'[i] = log[i]
      BY <2>1 DEF Appends
    <2> QED BY <2>2 DEF DurabilityInv, AckedDurable, Appends
  <1> QED BY <1>1, <1>2

\* Write's four outcomes, and Checkpoint's two, append such lines.
LEMMA WriteAppends ==
    ASSUME DurabilityInv, NEW w \in Writers, NEW ev \in Events, Write(w, ev)
    PROVE  /\ Appends
           /\ Link(ev, seq + 1, head) \in LinesOf(log')
           /\ \A line \in failed' \ failed :
                line.type = "checkpoint" /\ line.seq \in Nat
           /\ unterminated' = unterminated /\ fragments' = fragments
  <1> DEFINE r == Link(ev, seq + 1, head)
             cp == SignCheckpointWith(Key, r.seq, r.hash)
             one == Append(log, r)
             two == Append(one, cp)
  <1>1. /\ r.type = "record" /\ r.seq = seq + 1
        /\ cp.type = "checkpoint" /\ cp.seq = seq + 1
    BY DEF Link, SignCheckpointWith
  <1>2. log \in Seq(LinesOf(log)) /\ seq \in Nat
    BY DEF DurabilityInv, TypeOK
  <1>3. log \o <<r>> = one /\ log \o <<r, cp>> = two
    BY <1>2, ConcatOne, ConcatTwo
  <1> HIDE DEF r, cp
  <1>4. /\ one \in Seq(LinesOf(log) \cup {r}) /\ Len(one) = Len(log) + 1
        /\ \A i \in 1..Len(log) : one[i] = log[i]
        /\ one[Len(log) + 1] = r
    <2>1. log \in Seq(LinesOf(log) \cup {r}) BY <1>2
    <2> QED BY <2>1
  <1> HIDE DEF one
  <1>5. /\ two \in Seq(LinesOf(log) \cup {r} \cup {cp}) /\ Len(two) = Len(one) + 1
        /\ \A i \in 1..Len(one) : two[i] = one[i]
        /\ two[Len(one) + 1] = cp
    <2>1. one \in Seq(LinesOf(log) \cup {r} \cup {cp}) BY <1>4
    <2> QED BY <2>1
  <1> HIDE DEF two
  <1>6. one \in Seq(LinesOf(one)) /\ two \in Seq(LinesOf(two))
    BY <1>4, <1>5, OwnLines
  <1>7. /\ log' = one \/ log' = two
        /\ written' \in written..Len(log') /\ durable' = durable
        /\ unterminated' = unterminated /\ fragments' = fragments
        /\ failed' = failed \/ failed' = {cp}
    <2>1. /\ written \in 0..Len(log) /\ Len(log) \in Nat
          /\ Len(<<r>>) = 1 /\ Len(<<r, cp>>) = 2
      BY <1>2 DEF DurabilityInv, TypeOK
    <2>2. \/ /\ log' = log \o <<r>> /\ failed' = failed
             /\ written' \in {written} \cup Len(log)..(Len(log) + 1)
          \/ /\ log' = log \o <<r, cp>> /\ failed' = failed
             /\ written' \in {written} \cup Len(log)..(Len(log) + 2)
          \/ log' = one /\ failed' = {cp} /\ written' \in written..Len(log')
      BY <2>1 DEF Write, Encode, FailWrite, r, cp, one
    <2>3. /\ durable' = durable
          /\ unterminated' = unterminated /\ fragments' = fragments
      BY DEF Write, Encode
    <2>4. log' = one \/ log' = two
      BY <2>2, <1>3
    <2>5. written' \in written..Len(log')
      BY <2>1, <2>2, <1>3, <1>4, <1>5
    <2> QED BY <2>2, <2>3, <2>4, <2>5
  <1>8. Appends
    <2>1. \A i \in 1..Len(log) : log[i] \in LinesOf(log)
      BY <1>2 DEF LinesOf
    <2>2. \A line \in LinesOf(log) :
            /\ line.type \in {"record", "checkpoint"} /\ line.seq \in Nat
            /\ line.type = "record" => line.seq > 0
      BY DEF DurabilityInv, TypeOK, IsRecord
    <2>3. \A i \in 1..Len(log) :
            /\ log[i].type \in {"record", "checkpoint"} /\ log[i].seq \in Nat
            /\ log[i].type = "record" => log[i].seq > 0
      BY <2>1, <2>2
    <2>4. Len(log) \in Nat
      BY <1>2
    <2>5. /\ log' \in Seq(LinesOf(log')) /\ Len(log) <= Len(log')
          /\ \A i \in 1..Len(log) : log'[i] = log[i]
      BY <1>4, <1>5, <1>6, <1>7, <2>4
    <2>6. \A i \in 1..Len(log') : i > Len(log) =>
            /\ log'[i].type \in {"record", "checkpoint"} /\ log'[i].seq = seq + 1
      BY <1>1, <1>4, <1>5, <1>7, <2>4
    <2>7. \A i \in 1..Len(log') :
            /\ log'[i].type \in {"record", "checkpoint"} /\ log'[i].seq \in Nat
            /\ log'[i].type = "record" => log'[i].seq > 0
      <3> SUFFICES ASSUME NEW i \in 1..Len(log')
                   PROVE  /\ log'[i].type \in {"record", "checkpoint"}
                          /\ log'[i].seq \in Nat
                          /\ log'[i].type = "record" => log'[i].seq > 0
        OBVIOUS
      <3>1. CASE i \in 1..Len(log)
        BY <3>1, <2>3, <2>5
      <3>2. CASE i > Len(log)
        BY <3>2, <2>6, <1>2
      <3> QED BY <3>1, <3>2, <2>4
    <2> QED BY <1>7, <2>5, <2>6, <2>7 DEF Appends, IsRecord
  <1>9. r \in LinesOf(log')
    BY <1>2, <1>4, <1>5, <1>7 DEF LinesOf
  <1> QED BY <1>1, <1>2, <1>7, <1>8, <1>9 DEF r
\* Checkpoint appends the checkpoint line, whether or not the flush succeeds.
LEMMA CheckpointAppends ==
    ASSUME DurabilityInv, NEW t \in Checkpointers,
           Checkpoint(t) \/ CheckpointFlushFails(t)
    PROVE  Appends /\ (Checkpoint(t) => written' = Len(log'))
  <1> DEFINE cp == SignCheckpointWith(Key, seq, head)
             one == Append(log, cp)
  <1>1. cp.type = "checkpoint" /\ cp.seq = seq
    BY DEF SignCheckpointWith
  <1>2. log \in Seq(LinesOf(log)) /\ seq \in Nat /\ written \in 0..Len(log)
    BY DEF DurabilityInv, TypeOK
  <1> HIDE DEF cp
  <1>3. /\ one \in Seq(LinesOf(log) \cup {cp}) /\ Len(one) = Len(log) + 1
        /\ \A i \in 1..Len(log) : one[i] = log[i]
        /\ one[Len(log) + 1] = cp
    <2>1. log \in Seq(LinesOf(log) \cup {cp}) BY <1>2
    <2> QED BY <2>1
  <1> HIDE DEF one
  <1>4. log' = one /\ durable' = durable
    BY DEF Checkpoint, CheckpointFlushFails, cp, one
  <1>5. /\ Checkpoint(t) => written' = Len(log')
        /\ CheckpointFlushFails(t) => written' \in written..Len(log')
    BY DEF Checkpoint, CheckpointFlushFails, FailWrite
  <1>6. one \in Seq(LinesOf(one))
    BY <1>3, OwnLines
  <1>7. \A i \in 1..Len(log) : log[i] \in LinesOf(log)
    BY <1>2 DEF LinesOf
  <1>8. \A line \in LinesOf(log) :
            /\ line.type \in {"record", "checkpoint"} /\ line.seq \in Nat
            /\ line.type = "record" => line.seq > 0
    BY DEF DurabilityInv, TypeOK, IsRecord
  <1> QED BY <1>1, <1>2, <1>3, <1>4, <1>5, <1>6, <1>7, <1>8 DEF Appends, IsRecord

\* What appending does to the type of the disk variables.
LEMMA AppendsType ==
    ASSUME TypeOK, Appends, unterminated' = unterminated, fragments' = fragments,
           \A line \in failed' \ failed : line.type = "checkpoint" /\ line.seq \in Nat
    PROVE  /\ log' \in Seq(LinesOf(log')) /\ LinesOf(log) \subseteq LinesOf(log')
           /\ \A line \in LinesOf(log') \cup failed' :
                /\ line.type \in {"record", "checkpoint"} /\ line.seq \in Nat
                /\ IsRecord(line) => line.seq > 0
           /\ written' \in 0..Len(log') /\ durable' \in 0..written'
           /\ unterminated' \subseteq 1..Len(log') /\ fragments' \subseteq 0..Len(log')
  <1>1. Len(log) \in Nat /\ Len(log') \in Nat /\ Len(log) <= Len(log')
    BY DEF TypeOK, Appends
  <1>2. LinesOf(log) \subseteq LinesOf(log')
    BY <1>1, SMTT(30) DEF LinesOf, Appends
  <1>3. \A line \in LinesOf(log') :
            /\ line.type \in {"record", "checkpoint"} /\ line.seq \in Nat
            /\ IsRecord(line) => line.seq > 0
    BY DEF LinesOf, Appends
  <1>4. \A line \in failed' :
            /\ line.type \in {"record", "checkpoint"} /\ line.seq \in Nat
            /\ IsRecord(line) => line.seq > 0
    BY DEF TypeOK, IsRecord
  <1>5. /\ written' \in 0..Len(log') /\ durable' \in 0..written'
        /\ unterminated' \subseteq 1..Len(log') /\ fragments' \subseteq 0..Len(log')
    BY <1>1 DEF TypeOK, Appends
  <1> QED BY <1>2, <1>3, <1>4, <1>5 DEF Appends

\* The targets other goroutines have read stay covered.
LEMMA AppendsKeepsTargets ==
    ASSUME DurabilityInv, Appends, NEW t \in Threads
    PROVE  /\ pc[t] = "fsync" =>
                \A i \in 1..Len(log') :
                  IsRecord(log'[i]) /\ log'[i].seq <= target[t] => i <= written'
           /\ pc[t] = "publish" =>
                \A i \in 1..Len(log') :
                  IsRecord(log'[i]) /\ log'[i].seq <= target[t] => i <= durable'
  <1>1. /\ TypeOK /\ target[t] \in Nat
        /\ written \in Nat /\ durable \in Nat
        /\ pc[t] \in {"fsync", "publish"} => target[t] <= seq
        /\ pc[t] = "fsync" => Covered(target[t], written)
        /\ pc[t] = "publish" => Covered(target[t], durable)
    BY DEF DurabilityInv, TypeOK, GroupCommit
  <1>2. written' \in Nat /\ written <= written' /\ durable' = durable
    BY <1>1 DEF Appends, TypeOK
  <1> QED BY <1>1, <1>2, CoveredAppends

\* Write chains a record that no fsync has covered yet: the writer is left
\* with work to do and nothing that was covered is disturbed.
LEMMA DurabilityWrite ==
    ASSUME DurabilityInv, FlagsOK', NEW w \in Writers, NEW ev \in Events, Write(w, ev)
    PROVE  DurabilityInv'
  <1> DEFINE r == Link(ev, seq + 1, head)
  <1>1. r.type = "record" /\ r.seq = seq + 1
    BY DEF Link
  <1>2. /\ Appends /\ r \in LinesOf(log')
        /\ unterminated' = unterminated /\ fragments' = fragments
        /\ \A line \in failed' \ failed :
              line.type = "checkpoint" /\ line.seq \in Nat
    BY WriteAppends
  <1>3. /\ pc' = [pc EXCEPT ![w] = "sync"] /\ rec' = [rec EXCEPT ![w] = r]
        /\ seq' = r.seq /\ target' = target /\ acked' = acked
        /\ syncedSeq' = syncedSeq /\ syncMu' = syncMu
        /\ status' = status /\ crashes' = crashes
    BY DEF Write
  <1>4. sinceLastCP' \in Nat /\ recordsAtCP' \in Nat
    BY <1>1 DEF Write, DurabilityInv, TypeOK
  <1> HIDE DEF r
  <1>5. TypeOK'
    <2>1. TypeOK BY DEF DurabilityInv
    <2>2. rec' \in [Writers -> LinesOf(log') \cup {NoRecord}]
      BY <2>1, <1>2, <1>3, AppendsType DEF TypeOK
    <2>3. seq' \in Nat
      BY <1>1, <1>3, <2>1 DEF TypeOK
    <2>4. pc' \in [Threads -> {"idle", "sync", "fsync", "publish", "stopping",
                              "checkpoint", "final", "done"}]
      BY <1>3, <2>1 DEF TypeOK
    <2> QED BY <2>1, <2>2, <2>3, <2>4, <1>2, <1>3, <1>4, AppendsType DEF TypeOK
  <1>6. SyncedIsDurable' /\ AckedDurable'
    BY <1>2, <1>3, AppendsKeepsDurable
  <1>7. GroupCommit'
    <2>1. /\ seq \in Nat /\ syncedSeq \in Nat /\ w \in Threads /\ Writers \subseteq Threads
          /\ pc \in [Threads -> {"idle", "sync", "fsync", "publish", "stopping",
                              "checkpoint", "final", "done"}]
          /\ target \in [Threads -> Nat] /\ DOMAIN rec = Writers
      BY DEF DurabilityInv, TypeOK, Threads
    <2>2. syncedSeq' <= seq'
      BY <1>1, <1>3, <2>1 DEF DurabilityInv, GroupCommit
    <2>3. ASSUME NEW v \in Writers, pc'[v] \in {"sync", "fsync"}
          PROVE  /\ IsRecord(rec'[v]) /\ rec'[v].seq <= seq'
                 /\ pc'[v] = "fsync" => rec'[v].seq <= target'[v]
      <3>1. CASE v = w
        BY <1>1, <1>3, <2>1, <3>1 DEF IsRecord
      <3>2. CASE v # w
        <4>1. /\ pc'[v] = pc[v] /\ rec'[v] = rec[v]
              /\ IsRecord(rec[v]) /\ rec[v].seq <= seq
              /\ pc[v] = "fsync" => rec[v].seq <= target[v]
          BY <1>3, <2>1, <2>3, <3>2 DEF DurabilityInv, GroupCommit
        <4>2. rec[v].seq \in Nat
          BY <4>1 DEF DurabilityInv, TypeOK, IsRecord, NoRecord
        <4> QED BY <1>1, <1>3, <2>1, <4>1, <4>2 DEF IsRecord
      <3> QED BY <3>1, <3>2
    <2>4. ASSUME NEW t \in Threads
          PROVE  /\ pc'[t] \in {"fsync", "publish"} => target'[t] <= seq'
                 /\ pc'[t] = "fsync" => Covered(target[t], written)'
                 /\ pc'[t] = "publish" => Covered(target[t], durable)'
      <3>1. CASE t = w
        BY <1>3, <2>1, <3>1
      <3>2. CASE t # w
        <4>1. pc'[t] = pc[t] /\ target'[t] = target[t]
          BY <1>3, <2>1, <3>2
        <4>2. pc[t] \in {"fsync", "publish"} => target[t] <= seq
          BY DEF DurabilityInv, GroupCommit
        <4>3. target[t] \in Nat
          BY <2>1
        <4> QED BY <1>1, <1>2, <1>3, <2>1, <4>1, <4>2, <4>3, AppendsKeepsTargets
                DEF Covered, IsRecord
      <3> QED BY <3>1, <3>2
    <2> QED BY <2>2, <2>3, <2>4 DEF GroupCommit
  <1> QED BY <1>5, <1>6, <1>7 DEF DurabilityInv
\* Checkpoint flushes everything up to the sequence it read under mu.
LEMMA DurabilityCheckpoint ==
    ASSUME DurabilityInv, FlagsOK', NEW t \in Checkpointers,
           Checkpoint(t) \/ CheckpointFlushFails(t)
    PROVE  DurabilityInv'
  <1>1. Appends /\ (Checkpoint(t) => written' = Len(log'))
    BY CheckpointAppends
  <1>2. /\ seq' = seq /\ acked' = acked /\ syncedSeq' = syncedSeq /\ syncMu' = syncMu
        /\ status' = status /\ crashes' = crashes /\ rec' = rec /\ failed' = failed
        /\ unterminated' = unterminated /\ fragments' = fragments
        /\ sinceLastCP' = 0 /\ recordsAtCP' = seq
        /\ \/ /\ Checkpoint(t) /\ pc' = [pc EXCEPT ![t] = "fsync"]
              /\ target' = [target EXCEPT ![t] = seq]
           \/ /\ pc' = [pc EXCEPT ![t] = AfterError(t)] /\ target' = target
    BY DEF Checkpoint, CheckpointFlushFails
  <1>3. /\ TypeOK /\ seq \in Nat /\ t \in Threads /\ t \notin Writers
        /\ Writers \subseteq Threads
        /\ pc \in [Threads -> {"idle", "sync", "fsync", "publish", "stopping",
                              "checkpoint", "final", "done"}]
        /\ target \in [Threads -> Nat]
        /\ AfterError(t) \in {"idle", "done"}
    BY SinkAssumptions DEF DurabilityInv, TypeOK, Threads, Checkpointers, AfterError
  <1>4. TypeOK'
    <2>1. /\ log' \in Seq(LinesOf(log')) /\ LinesOf(log) \subseteq LinesOf(log')
          /\ \A line \in LinesOf(log') \cup failed' :
                /\ line.type \in {"record", "checkpoint"} /\ line.seq \in Nat
                /\ IsRecord(line) => line.seq > 0
          /\ written' \in 0..Len(log') /\ durable' \in 0..written'
          /\ unterminated' \subseteq 1..Len(log') /\ fragments' \subseteq 0..Len(log')
      BY <1>1, <1>2, <1>3, AppendsType
    <2>2. /\ pc' \in [Threads -> {"idle", "sync", "fsync", "publish", "stopping",
                              "checkpoint", "final", "done"}]
          /\ target' \in [Threads -> Nat]
      BY <1>2, <1>3
    <2>3. rec' \in [Writers -> LinesOf(log') \cup {NoRecord}]
      BY <1>2, <1>3, <2>1 DEF TypeOK
    <2> QED BY <1>2, <1>3, <2>1, <2>2, <2>3 DEF TypeOK
  <1>5. SyncedIsDurable' /\ AckedDurable'
    BY <1>1, <1>2, AppendsKeepsDurable
  <1>6. GroupCommit'
    <2>1. /\ syncedSeq' <= seq'
          /\ \A w \in Writers :
               /\ pc'[w] \in {"sync", "fsync"} => IsRecord(rec'[w]) /\ rec'[w].seq <= seq'
               /\ pc'[w] = "fsync" => rec'[w].seq <= target'[w]
      BY <1>2, <1>3 DEF DurabilityInv, GroupCommit, IsRecord
    <2>2. ASSUME NEW u \in Threads
          PROVE  /\ pc'[u] \in {"fsync", "publish"} => target'[u] <= seq'
                 /\ pc'[u] = "fsync" => Covered(target[u], written)'
                 /\ pc'[u] = "publish" => Covered(target[u], durable)'
      <3>1. CASE u = t
        <4>1. Len(log') \in Nat BY <1>1 DEF Appends
        <4>2. pc'[t] # "publish" /\ (pc'[t] = "fsync" =>
                                      Checkpoint(t) /\ target'[t] = seq)
          BY <1>2, <1>3
        <4>3. pc'[t] = "fsync" => Covered(target[t], written)'
          BY <1>1, <4>1, <4>2 DEF Covered
        <4> QED BY <1>2, <1>3, <3>1, <4>2, <4>3
      <3>2. CASE u # t
        <4>1. pc'[u] = pc[u] /\ target'[u] = target[u]
          BY <1>2, <1>3, <3>2
        <4>2. pc[u] \in {"fsync", "publish"} => target[u] <= seq
          BY DEF DurabilityInv, GroupCommit
        <4> QED BY <1>1, <1>2, <4>1, <4>2, AppendsKeepsTargets DEF Covered, IsRecord
      <3> QED BY <3>1, <3>2
    <2> QED BY <2>1, <2>2 DEF GroupCommit
  <1> QED BY <1>4, <1>5, <1>6 DEF DurabilityInv

\* resumeChain finds a sequence number, whatever the log holds.
LEMMA ResumeType ==
    ASSUME TypeOK
    PROVE  resumeChain.seq \in Nat
  <1>1. CASE RecordIndices(log) = {}
    BY <1>1 DEF resumeChain
  <1>2. CASE RecordIndices(log) # {}
    <2>1. RecordIndices(log) \subseteq 1..Len(log) /\ Len(log) \in Nat
      BY DEF RecordIndices, TypeOK
    <2>2. \E i \in RecordIndices(log) : \A j \in RecordIndices(log) : j <= i
      BY <1>2, <2>1, LargestIndex, SMTT(30)
    <2>3. LastRecord(log) \in LinesOf(log)
      BY <2>1, <2>2 DEF LastRecord, LinesOf
    <2> QED BY <1>2, <2>3 DEF resumeChain, TypeOK
  <1> QED BY <1>1, <1>2
\* A restart forgets syncedSeq and every goroutine, and keeps the file.
LEMMA DurabilityNewEvidenceSink ==
    ASSUME DurabilityInv, FlagsOK', NewEvidenceSink
    PROVE  DurabilityInv'
  <1>1. seq' \in Nat /\ recordsAtCP' \in Nat
    BY ResumeType DEF NewEvidenceSink, DurabilityInv
  <1>2. pc' \in [Threads -> {"idle", "done"}]
    BY DEF NewEvidenceSink, Started
  <1>3. TypeOK'
    BY <1>1, <1>2 DEF NewEvidenceSink, DurabilityInv, TypeOK, diskVars
  <1>4. SyncedIsDurable'
    <2>1. \A i \in 1..Len(log) : IsRecord(log[i]) => log[i].seq \in Nat /\ log[i].seq > 0
      BY DEF DurabilityInv, TypeOK, LinesOf
    <2>2. log' = log /\ syncedSeq' = 0
      BY DEF NewEvidenceSink, diskVars
    <2> QED BY <2>1, <2>2 DEF SyncedIsDurable, Covered, IsRecord
  <1>5. AckedDurable'
    BY DEF NewEvidenceSink, DurabilityInv, AckedDurable, diskVars
  <1>6. GroupCommit'
    <2>1. \A t \in Threads : pc'[t] \notin {"sync", "fsync", "publish"}
      BY <1>2
    <2>2. syncedSeq' <= seq'
      BY <1>1 DEF NewEvidenceSink
    <2> QED BY <2>1, <2>2 DEF GroupCommit, Threads
  <1> QED BY <1>3, <1>4, <1>5, <1>6 DEF DurabilityInv

\* A crash keeps the durable lines; whatever else is left is a prefix of the
\* stream, with at most one cut line after it.
LEMMA CrashKeeps ==
    ASSUME TypeOK, NEW k \in durable..written, Crash(k)
    PROVE  /\ log' \in Seq(LinesOf(log')) /\ Len(log') \in {k, k + 1}
           /\ \A i \in 1..k : log'[i] = log[i]
           /\ LinesOf(log') \subseteq LinesOf(log) \cup failed
           /\ Len(log') = k + 1 => log'[k + 1] \in NextLine(k)
  <1> DEFINE kept == SubSeq(log, 1, k)
  <1>1. /\ k \in 0..Len(log) /\ k \in Nat /\ Len(log) \in Nat
        /\ log \in Seq(LinesOf(log))
    BY DEF TypeOK
  <1>2. /\ kept \in Seq(LinesOf(log)) /\ Len(kept) = k
        /\ \A i \in 1..k : kept[i] = log[i]
    BY <1>1
  <1> HIDE DEF kept
  <1>3. NextLine(k) \subseteq LinesOf(log) \cup failed
    BY <1>1 DEF NextLine, LinesOf
  <1>4. log' = kept \/ \E line \in NextLine(k) : log' = Append(kept, line)
    BY DEF Crash, kept
  <1>5. CASE log' = kept
    <2>1. log' \in Seq(LinesOf(log'))
      BY <1>2, <1>5, OwnLines
    <2>2. \A i \in 1..k : log'[i] \in LinesOf(log)
      BY <1>1, <1>2, <1>5 DEF LinesOf
    <2>3. LinesOf(log') \subseteq LinesOf(log)
      BY <1>2, <1>5, <2>2 DEF LinesOf
    <2> QED BY <1>1, <1>2, <1>5, <2>1, <2>3
  <1>6. ASSUME NEW line \in NextLine(k), log' = Append(kept, line)
        PROVE  /\ log' \in Seq(LinesOf(log')) /\ Len(log') = k + 1
               /\ \A i \in 1..k : log'[i] = log[i]
               /\ log'[k + 1] = line
               /\ LinesOf(log') \subseteq LinesOf(log) \cup failed
    <2>1. kept \in Seq(LinesOf(log) \cup {line})
      BY <1>2
    <2>2. /\ log' \in Seq(LinesOf(log) \cup {line}) /\ Len(log') = k + 1
          /\ \A i \in 1..k : log'[i] = kept[i]
          /\ log'[k + 1] = line
      BY <1>2, <1>6, <2>1
    <2>3. log' \in Seq(LinesOf(log'))
      BY <2>2, OwnLines
    <2>4. \A i \in 1..(k + 1) : log'[i] \in LinesOf(log) \cup failed
      <3>1. \A i \in 1..k : log[i] \in LinesOf(log)
        BY <1>1 DEF LinesOf
      <3> QED BY <1>1, <1>2, <1>3, <2>2, <3>1
    <2>5. LinesOf(log') \subseteq LinesOf(log) \cup failed
      BY <2>2, <2>4 DEF LinesOf
    <2> QED BY <1>1, <1>2, <2>2, <2>3, <2>5
  <1> QED BY <1>1, <1>2, <1>4, <1>5, <1>6

\* A crash keeps at least the durable lines.
LEMMA DurabilityCrash ==
    ASSUME DurabilityInv, FlagsOK', NEW k \in durable..written, Crash(k)
    PROVE  DurabilityInv'
  <1>1. /\ TypeOK /\ durable \in Nat /\ k \in Nat /\ Len(log) \in Nat
        /\ durable <= k /\ crashes \in Nat
    BY DEF DurabilityInv, TypeOK
  <1>2. /\ log' \in Seq(LinesOf(log')) /\ Len(log') \in {k, k + 1}
        /\ \A i \in 1..k : log'[i] = log[i]
        /\ LinesOf(log') \subseteq LinesOf(log) \cup failed
    BY <1>1, CrashKeeps
  <1>3. /\ durable' = durable /\ acked' = acked /\ written' = Len(log') /\ failed' = {}
        /\ seq' = 0 /\ sinceLastCP' = 0 /\ recordsAtCP' = 0 /\ syncedSeq' = 0
        /\ status' = "down" /\ syncMu' = "free" /\ crashes' = crashes + 1
        /\ pc' = [t \in Threads |-> "idle"] /\ target' = [t \in Threads |-> 0]
        /\ rec' = [w \in Writers |-> NoRecord]
    BY DEF Crash
  <1>4. unterminated' \subseteq 1..Len(log') /\ fragments' \subseteq 0..Len(log')
    <2>1. Len(SubSeq(log, 1, k)) = k /\ SubSeq(log, 1, k) \in Seq(LinesOf(log))
      BY <1>1, Prefix DEF TypeOK
    <2>2. \A line : Len(Append(SubSeq(log, 1, k), line)) = k + 1
      <3> TAKE line
      <3>1. SubSeq(log, 1, k) \in Seq(LinesOf(log) \cup {line})
        BY <2>1
      <3> QED BY <2>1, <3>1
    <2> QED BY <1>1, <2>1, <2>2 DEF Crash
  <1>5. \A line \in LinesOf(log') :
          /\ line.type \in {"record", "checkpoint"} /\ line.seq \in Nat
          /\ IsRecord(line) => line.seq > 0
    BY <1>1, <1>2 DEF TypeOK
  <1>6. TypeOK'
    BY <1>1, <1>2, <1>3, <1>4, <1>5 DEF TypeOK
  <1>7. SyncedIsDurable'
    BY <1>2, <1>3, <1>5 DEF SyncedIsDurable, Covered, LinesOf, IsRecord
  <1>8. AckedDurable'
    BY <1>1, <1>2, <1>3 DEF DurabilityInv, AckedDurable
  <1>9. GroupCommit'
    BY <1>3 DEF GroupCommit, Threads
  <1> QED BY <1>6, <1>7, <1>8, <1>9 DEF DurabilityInv
(* The Boolean fields, which every action leaves Boolean. *)
LEMMA FlagsStep ==
    ASSUME FlagsOK, [Next]_vars
    PROVE  FlagsOK'
  <1>1. ASSUME NewEvidenceSink PROVE FlagsOK'
    BY <1>1, Zenon DEF NewEvidenceSink, FlagsOK, diskVars, goVars, chainVars, cpVars
  <1>2. ASSUME NewEvidenceSinkRefuses PROVE FlagsOK'
    BY <1>2, Zenon DEF NewEvidenceSinkRefuses, FlagsOK, diskVars, goVars, chainVars, cpVars
  <1>3. ASSUME BackoffElapses PROVE FlagsOK'
    BY <1>3, Zenon DEF BackoffElapses, FlagsOK, diskVars, goVars, chainVars, cpVars
  <1>4. ASSUME NEW w \in Writers, NEW ev \in Events, Write(w, ev) PROVE FlagsOK'
    BY <1>4, Zenon DEF Write, FlagsOK, diskVars, goVars, chainVars, cpVars, Encode, FailWrite
  <1>5. ASSUME NEW w \in Writers, NEW ev \in Events, WriteEncodeFails(w, ev) PROVE FlagsOK'
    BY <1>5, Zenon DEF WriteEncodeFails, FlagsOK, diskVars, goVars, chainVars, cpVars, FailWrite
  <1>6. ASSUME NEW w \in Writers, SyncCovered(w) PROVE FlagsOK'
    BY <1>6, Zenon DEF SyncCovered, FlagsOK, diskVars, goVars, chainVars, cpVars
  <1>7. ASSUME NEW w \in Writers, SyncFlush(w) PROVE FlagsOK'
    BY <1>7, Zenon DEF SyncFlush, FlagsOK, diskVars, goVars, chainVars, cpVars
  <1>8. ASSUME NEW w \in Writers, SyncFlushFails(w) PROVE FlagsOK'
    BY <1>8, Zenon DEF SyncFlushFails, FlagsOK, diskVars, goVars, chainVars, cpVars, FailWrite
  <1>9. ASSUME NEW w \in Writers, SyncDone(w) PROVE FlagsOK'
    BY <1>9, Zenon DEF SyncDone, FlagsOK, diskVars, goVars, chainVars, cpVars
  <1>10. ASSUME NEW w \in Writers, SyncFails(w) PROVE FlagsOK'
    BY <1>10, Zenon DEF SyncFails, FlagsOK, diskVars, goVars, chainVars, cpVars
  <1>11. ASSUME NEW t \in Checkpointers, Checkpoint(t) PROVE FlagsOK'
    BY <1>11, Zenon DEF Checkpoint, FlagsOK, diskVars, goVars, chainVars, cpVars
  <1>12. ASSUME NEW t \in Checkpointers, CheckpointFlushFails(t) PROVE FlagsOK'
    BY <1>12, Zenon DEF CheckpointFlushFails, FlagsOK, diskVars, goVars, chainVars, cpVars, FailWrite
  <1>13. ASSUME NEW t \in Checkpointers, CheckpointFails(t) PROVE FlagsOK'
    BY <1>13, Zenon DEF CheckpointFails, FlagsOK, diskVars, goVars, chainVars, cpVars, FailWrite
  <1>14. ASSUME NEW t \in Checkpointers, CheckpointSynced(t) PROVE FlagsOK'
    BY <1>14, Zenon DEF CheckpointSynced, FlagsOK, diskVars, goVars, chainVars, cpVars
  <1>15. ASSUME NEW t \in Checkpointers, CheckpointSyncFails(t) PROVE FlagsOK'
    BY <1>15, Zenon DEF CheckpointSyncFails, FlagsOK, diskVars, goVars, chainVars, cpVars
  <1>16. ASSUME NEW t \in Checkpointers, CheckpointPublish(t) PROVE FlagsOK'
    BY <1>16, Zenon DEF CheckpointPublish, FlagsOK, diskVars, goVars, chainVars, cpVars
  <1>17. ASSUME Close PROVE FlagsOK'
    BY <1>17, Zenon DEF Close, FlagsOK, diskVars, goVars, chainVars, cpVars
  <1>18. ASSUME TickerDone PROVE FlagsOK'
    BY <1>18, Zenon DEF TickerDone, FlagsOK, diskVars, goVars, chainVars, cpVars
  <1>19. ASSUME CloseNoCheckpoint PROVE FlagsOK'
    BY <1>19, Zenon DEF CloseNoCheckpoint, FlagsOK, diskVars, goVars, chainVars, cpVars
  <1>20. ASSUME CloseFile PROVE FlagsOK'
    BY <1>20, Zenon DEF CloseFile, FlagsOK, diskVars, goVars, chainVars, cpVars
  <1>21. ASSUME CloseFileFails PROVE FlagsOK'
    BY <1>21, Zenon DEF CloseFileFails, FlagsOK, diskVars, goVars, chainVars, cpVars, FailWrite
  <1>22. ASSUME NEW k \in durable..written, Crash(k) PROVE FlagsOK'
    BY <1>22, Zenon DEF Crash, FlagsOK, diskVars, goVars, chainVars, cpVars
  <1>23. CASE UNCHANGED vars
    BY <1>23 DEF vars, FlagsOK, diskVars, goVars, chainVars, cpVars
  <1> QED
    BY <1>1, <1>2, <1>3, <1>4, <1>5, <1>6, <1>7, <1>8, <1>9, <1>10, <1>11, <1>12, <1>13, <1>14, <1>15, <1>16, <1>17, <1>18, <1>19, <1>20, <1>21, <1>22, <1>23
       DEF Next, WriterStep, CheckpointStep, CloseStep

\* An empty file before the first start.
LEMMA DurabilityInit == Init => DurabilityInv
  <1> SUFFICES ASSUME Init PROVE DurabilityInv
    OBVIOUS
  <1>1. FlagsOK
    BY Zenon DEF Init, FlagsOK
  <1>2. LinesOf(log) = {} /\ log \in Seq(LinesOf(log)) /\ Len(log) = 0
    BY DEF Init, LinesOf
  <1>3. TypeOK
    BY <1>1, <1>2 DEF Init, TypeOK, Threads, Checkpointers
  <1>4. SyncedIsDurable /\ AckedDurable /\ GroupCommit
    BY <1>2 DEF Init, SyncedIsDurable, AckedDurable, GroupCommit, Covered, Threads
  <1> QED BY <1>3, <1>4 DEF DurabilityInv

(* The inductive step, action by action. *)
LEMMA DurabilityStep ==
    ASSUME DurabilityInv, [Next]_vars
    PROVE  DurabilityInv'
  <1>0. FlagsOK'
    BY FlagsStep DEF DurabilityInv, TypeOK
  <1>1. ASSUME NewEvidenceSink PROVE DurabilityInv'
    BY <1>0, <1>1, DurabilityNewEvidenceSink
  <1>2. ASSUME NewEvidenceSinkRefuses PROVE DurabilityInv'
    <2>1. TypeOK'
      BY <1>0, <1>2, SinkAssumptions
         DEF NewEvidenceSinkRefuses, DurabilityInv, TypeOK, LinesOf, GroupCommit, Covered, Threads, Checkpointers, NoRecord, IsRecord, diskVars, goVars,
           chainVars, cpVars
    <2>2. SyncedIsDurable'
      BY <1>2, SinkAssumptions
         DEF NewEvidenceSinkRefuses, DurabilityInv, TypeOK, SyncedIsDurable, GroupCommit, Covered, Threads, Checkpointers, NoRecord, IsRecord, diskVars, goVars,
           chainVars, cpVars
    <2>3. AckedDurable'
      BY <1>2, SinkAssumptions
         DEF NewEvidenceSinkRefuses, DurabilityInv, TypeOK, SyncedIsDurable, GroupCommit, AckedDurable, LinesOf,
             Covered, Threads, Checkpointers, NoRecord, IsRecord, diskVars, goVars,
           chainVars, cpVars
    <2>4. GroupCommit'
      BY <1>2, SinkAssumptions
         DEF NewEvidenceSinkRefuses, DurabilityInv, TypeOK, SyncedIsDurable, GroupCommit, Covered, Threads, Checkpointers, NoRecord, IsRecord, diskVars, goVars,
           chainVars, cpVars
    <2> QED BY <2>1, <2>2, <2>3, <2>4 DEF DurabilityInv
  <1>3. ASSUME BackoffElapses PROVE DurabilityInv'
    <2>1. TypeOK'
      BY <1>0, <1>3, SinkAssumptions
         DEF BackoffElapses, DurabilityInv, TypeOK, LinesOf, GroupCommit, Covered, Threads, Checkpointers, NoRecord, IsRecord, diskVars, goVars,
           chainVars, cpVars
    <2>2. SyncedIsDurable'
      BY <1>3, SinkAssumptions
         DEF BackoffElapses, DurabilityInv, TypeOK, SyncedIsDurable, GroupCommit, Covered, Threads, Checkpointers, NoRecord, IsRecord, diskVars, goVars,
           chainVars, cpVars
    <2>3. AckedDurable'
      BY <1>3, SinkAssumptions
         DEF BackoffElapses, DurabilityInv, TypeOK, SyncedIsDurable, GroupCommit, AckedDurable, LinesOf,
             Covered, Threads, Checkpointers, NoRecord, IsRecord, diskVars, goVars,
           chainVars, cpVars
    <2>4. GroupCommit'
      BY <1>3, SinkAssumptions
         DEF BackoffElapses, DurabilityInv, TypeOK, SyncedIsDurable, GroupCommit, Covered, Threads, Checkpointers, NoRecord, IsRecord, diskVars, goVars,
           chainVars, cpVars
    <2> QED BY <2>1, <2>2, <2>3, <2>4 DEF DurabilityInv
  <1>4. ASSUME NEW w \in Writers, NEW ev \in Events, Write(w, ev) PROVE DurabilityInv'
    BY <1>0, <1>4, DurabilityWrite
  <1>5. ASSUME NEW w \in Writers, NEW ev \in Events, WriteEncodeFails(w, ev) PROVE DurabilityInv'
    <2>1. TypeOK'
      BY <1>0, <1>5, SinkAssumptions
         DEF WriteEncodeFails, DurabilityInv, TypeOK, LinesOf, GroupCommit, Covered, Threads, Checkpointers, NoRecord, IsRecord, diskVars, goVars,
           chainVars, cpVars, FailWrite, Link
    <2>2. SyncedIsDurable'
      BY <1>5, SinkAssumptions
         DEF WriteEncodeFails, DurabilityInv, TypeOK, SyncedIsDurable, GroupCommit, Covered, Threads, Checkpointers, NoRecord, IsRecord, diskVars, goVars,
           chainVars, cpVars, FailWrite, Link
    <2>3. AckedDurable'
      BY <1>5, SinkAssumptions
         DEF WriteEncodeFails, DurabilityInv, TypeOK, SyncedIsDurable, GroupCommit, AckedDurable, LinesOf,
             Covered, Threads, Checkpointers, NoRecord, IsRecord, diskVars, goVars,
           chainVars, cpVars, FailWrite, Link
    <2>4. GroupCommit'
      BY <1>5, SinkAssumptions
         DEF WriteEncodeFails, DurabilityInv, TypeOK, SyncedIsDurable, GroupCommit, Covered, Threads, Checkpointers, NoRecord, IsRecord, diskVars, goVars,
           chainVars, cpVars, FailWrite, Link
    <2> QED BY <2>1, <2>2, <2>3, <2>4 DEF DurabilityInv
  <1>6. ASSUME NEW w \in Writers, SyncCovered(w) PROVE DurabilityInv'
    <2>1. TypeOK'
      BY <1>0, <1>6, SinkAssumptions
         DEF SyncCovered, DurabilityInv, TypeOK, LinesOf, GroupCommit, Covered, Threads, Checkpointers, NoRecord, IsRecord, diskVars, goVars,
           chainVars, cpVars, Return
    <2>2. SyncedIsDurable'
      BY <1>6, SinkAssumptions
         DEF SyncCovered, DurabilityInv, TypeOK, SyncedIsDurable, GroupCommit, Covered, Threads, Checkpointers, NoRecord, IsRecord, diskVars, goVars,
           chainVars, cpVars, Return
    <2>3. AckedDurable'
      <3>1. acked' = acked \cup {rec[w]} /\ log' = log /\ durable' = durable
        BY <1>6 DEF SyncCovered, Return, diskVars
      <3>2. /\ IsRecord(rec[w]) /\ rec[w] \in LinesOf(log) /\ rec[w].seq <= syncedSeq
        BY <1>6 DEF SyncCovered, DurabilityInv, TypeOK, GroupCommit, IsRecord, NoRecord
      <3>3. PICK i \in 1..Len(log) : log[i] = rec[w]
        BY <3>2 DEF LinesOf
      <3>4. i <= durable
        BY <3>2, <3>3 DEF DurabilityInv, SyncedIsDurable, Covered
      <3>5. i \in 1..durable
        BY <3>4 DEF DurabilityInv, TypeOK
      <3> QED BY <3>1, <3>3, <3>5 DEF DurabilityInv, AckedDurable
    <2>4. GroupCommit'
      BY <1>6, SinkAssumptions
         DEF SyncCovered, DurabilityInv, TypeOK, SyncedIsDurable, GroupCommit, Covered, Threads, Checkpointers, NoRecord, IsRecord, diskVars, goVars,
           chainVars, cpVars, Return
    <2> QED BY <2>1, <2>2, <2>3, <2>4 DEF DurabilityInv
  <1>7. ASSUME NEW w \in Writers, SyncFlush(w) PROVE DurabilityInv'
    <2>1. TypeOK'
      BY <1>0, <1>7, SinkAssumptions
         DEF SyncFlush, DurabilityInv, TypeOK, LinesOf, GroupCommit, Covered, Threads, Checkpointers, NoRecord, IsRecord, diskVars, goVars,
           chainVars, cpVars
    <2>2. SyncedIsDurable'
      BY <1>7, SinkAssumptions
         DEF SyncFlush, DurabilityInv, TypeOK, SyncedIsDurable, GroupCommit, Covered, Threads, Checkpointers, NoRecord, IsRecord, diskVars, goVars,
           chainVars, cpVars
    <2>3. AckedDurable'
      BY <1>7, SinkAssumptions
         DEF SyncFlush, DurabilityInv, TypeOK, SyncedIsDurable, GroupCommit, AckedDurable, LinesOf,
             Covered, Threads, Checkpointers, NoRecord, IsRecord, diskVars, goVars,
           chainVars, cpVars
    <2>4. GroupCommit'
      BY <1>7, SinkAssumptions
         DEF SyncFlush, DurabilityInv, TypeOK, SyncedIsDurable, GroupCommit, Covered, Threads, Checkpointers, NoRecord, IsRecord, diskVars, goVars,
           chainVars, cpVars
    <2> QED BY <2>1, <2>2, <2>3, <2>4 DEF DurabilityInv
  <1>8. ASSUME NEW w \in Writers, SyncFlushFails(w) PROVE DurabilityInv'
    <2>1. TypeOK'
      BY <1>0, <1>8, SinkAssumptions
         DEF SyncFlushFails, DurabilityInv, TypeOK, LinesOf, GroupCommit, Covered, Threads, Checkpointers, NoRecord, IsRecord, diskVars, goVars,
           chainVars, cpVars, Return, FailWrite
    <2>2. SyncedIsDurable'
      BY <1>8, SinkAssumptions
         DEF SyncFlushFails, DurabilityInv, TypeOK, SyncedIsDurable, GroupCommit, Covered, Threads, Checkpointers, NoRecord, IsRecord, diskVars, goVars,
           chainVars, cpVars, Return, FailWrite
    <2>3. AckedDurable'
      BY <1>8, SinkAssumptions
         DEF SyncFlushFails, DurabilityInv, TypeOK, SyncedIsDurable, GroupCommit, AckedDurable, LinesOf,
             Covered, Threads, Checkpointers, NoRecord, IsRecord, diskVars, goVars,
           chainVars, cpVars, Return, FailWrite
    <2>4. GroupCommit'
      BY <1>8, SinkAssumptions
         DEF SyncFlushFails, DurabilityInv, TypeOK, SyncedIsDurable, GroupCommit, Covered, Threads, Checkpointers, NoRecord, IsRecord, diskVars, goVars,
           chainVars, cpVars, Return, FailWrite
    <2> QED BY <2>1, <2>2, <2>3, <2>4 DEF DurabilityInv
  <1>9. ASSUME NEW w \in Writers, SyncDone(w) PROVE DurabilityInv'
    <2>1. TypeOK'
      BY <1>0, <1>9, SinkAssumptions
         DEF SyncDone, DurabilityInv, TypeOK, LinesOf, GroupCommit, Covered, Threads, Checkpointers, NoRecord, IsRecord, diskVars, goVars,
           chainVars, cpVars, Return
    <2>2. SyncedIsDurable'
      BY <1>9, SinkAssumptions
         DEF SyncDone, DurabilityInv, TypeOK, SyncedIsDurable, GroupCommit, Covered, Threads, Checkpointers, NoRecord, IsRecord, diskVars, goVars,
           chainVars, cpVars, Return
    <2>3. AckedDurable'
      BY <1>9, SinkAssumptions
         DEF SyncDone, DurabilityInv, TypeOK, SyncedIsDurable, GroupCommit, AckedDurable, LinesOf,
             Covered, Threads, Checkpointers, NoRecord, IsRecord, diskVars, goVars,
           chainVars, cpVars, Return
    <2>4. GroupCommit'
      BY <1>9, SinkAssumptions
         DEF SyncDone, DurabilityInv, TypeOK, SyncedIsDurable, GroupCommit, Covered, Threads, Checkpointers, NoRecord, IsRecord, diskVars, goVars,
           chainVars, cpVars, Return
    <2> QED BY <2>1, <2>2, <2>3, <2>4 DEF DurabilityInv
  <1>10. ASSUME NEW w \in Writers, SyncFails(w) PROVE DurabilityInv'
    <2>1. TypeOK'
      BY <1>0, <1>10, SinkAssumptions
         DEF SyncFails, DurabilityInv, TypeOK, LinesOf, GroupCommit, Covered, Threads, Checkpointers, NoRecord, IsRecord, diskVars, goVars,
           chainVars, cpVars, Return
    <2>2. SyncedIsDurable'
      BY <1>10, SinkAssumptions
         DEF SyncFails, DurabilityInv, TypeOK, SyncedIsDurable, GroupCommit, Covered, Threads, Checkpointers, NoRecord, IsRecord, diskVars, goVars,
           chainVars, cpVars, Return
    <2>3. AckedDurable'
      BY <1>10, SinkAssumptions
         DEF SyncFails, DurabilityInv, TypeOK, SyncedIsDurable, GroupCommit, AckedDurable, LinesOf,
             Covered, Threads, Checkpointers, NoRecord, IsRecord, diskVars, goVars,
           chainVars, cpVars, Return
    <2>4. GroupCommit'
      BY <1>10, SinkAssumptions
         DEF SyncFails, DurabilityInv, TypeOK, SyncedIsDurable, GroupCommit, Covered, Threads, Checkpointers, NoRecord, IsRecord, diskVars, goVars,
           chainVars, cpVars, Return
    <2> QED BY <2>1, <2>2, <2>3, <2>4 DEF DurabilityInv
  <1>11. ASSUME NEW t \in Checkpointers, Checkpoint(t) PROVE DurabilityInv'
    BY <1>0, <1>11, DurabilityCheckpoint
  <1>12. ASSUME NEW t \in Checkpointers, CheckpointFlushFails(t) PROVE DurabilityInv'
    BY <1>0, <1>12, DurabilityCheckpoint
  <1>13. ASSUME NEW t \in Checkpointers, CheckpointFails(t) PROVE DurabilityInv'
    <2>1. TypeOK'
      BY <1>0, <1>13, SinkAssumptions
         DEF CheckpointFails, DurabilityInv, TypeOK, LinesOf, GroupCommit, Covered, Threads, Checkpointers, NoRecord, IsRecord, diskVars, goVars,
           chainVars, cpVars, AfterError, FailWrite, SignCheckpointWith
    <2>2. SyncedIsDurable'
      BY <1>13, SinkAssumptions
         DEF CheckpointFails, DurabilityInv, TypeOK, SyncedIsDurable, GroupCommit, Covered, Threads, Checkpointers, NoRecord, IsRecord, diskVars, goVars,
           chainVars, cpVars, AfterError, FailWrite, SignCheckpointWith
    <2>3. AckedDurable'
      BY <1>13, SinkAssumptions
         DEF CheckpointFails, DurabilityInv, TypeOK, SyncedIsDurable, GroupCommit, AckedDurable, LinesOf,
             Covered, Threads, Checkpointers, NoRecord, IsRecord, diskVars, goVars,
           chainVars, cpVars, AfterError, FailWrite, SignCheckpointWith
    <2>4. GroupCommit'
      BY <1>13, SinkAssumptions
         DEF CheckpointFails, DurabilityInv, TypeOK, SyncedIsDurable, GroupCommit, Covered, Threads, Checkpointers, NoRecord, IsRecord, diskVars, goVars,
           chainVars, cpVars, AfterError, FailWrite, SignCheckpointWith
    <2> QED BY <2>1, <2>2, <2>3, <2>4 DEF DurabilityInv
  <1>14. ASSUME NEW t \in Checkpointers, CheckpointSynced(t) PROVE DurabilityInv'
    <2>1. TypeOK'
      BY <1>0, <1>14, SinkAssumptions
         DEF CheckpointSynced, DurabilityInv, TypeOK, LinesOf, GroupCommit, Covered, Threads, Checkpointers, NoRecord, IsRecord, diskVars, goVars,
           chainVars, cpVars
    <2>2. SyncedIsDurable'
      BY <1>14, SinkAssumptions
         DEF CheckpointSynced, DurabilityInv, TypeOK, SyncedIsDurable, GroupCommit, Covered, Threads, Checkpointers, NoRecord, IsRecord, diskVars, goVars,
           chainVars, cpVars
    <2>3. AckedDurable'
      BY <1>14, SinkAssumptions
         DEF CheckpointSynced, DurabilityInv, TypeOK, SyncedIsDurable, GroupCommit, AckedDurable, LinesOf,
             Covered, Threads, Checkpointers, NoRecord, IsRecord, diskVars, goVars,
           chainVars, cpVars
    <2>4. GroupCommit'
      BY <1>14, SinkAssumptions
         DEF CheckpointSynced, DurabilityInv, TypeOK, SyncedIsDurable, GroupCommit, Covered, Threads, Checkpointers, NoRecord, IsRecord, diskVars, goVars,
           chainVars, cpVars
    <2> QED BY <2>1, <2>2, <2>3, <2>4 DEF DurabilityInv
  <1>15. ASSUME NEW t \in Checkpointers, CheckpointSyncFails(t) PROVE DurabilityInv'
    <2>1. TypeOK'
      BY <1>0, <1>15, SinkAssumptions
         DEF CheckpointSyncFails, DurabilityInv, TypeOK, LinesOf, GroupCommit, Covered, Threads, Checkpointers, NoRecord, IsRecord, diskVars, goVars,
           chainVars, cpVars, AfterError
    <2>2. SyncedIsDurable'
      BY <1>15, SinkAssumptions
         DEF CheckpointSyncFails, DurabilityInv, TypeOK, SyncedIsDurable, GroupCommit, Covered, Threads, Checkpointers, NoRecord, IsRecord, diskVars, goVars,
           chainVars, cpVars, AfterError
    <2>3. AckedDurable'
      BY <1>15, SinkAssumptions
         DEF CheckpointSyncFails, DurabilityInv, TypeOK, SyncedIsDurable, GroupCommit, AckedDurable, LinesOf,
             Covered, Threads, Checkpointers, NoRecord, IsRecord, diskVars, goVars,
           chainVars, cpVars, AfterError
    <2>4. GroupCommit'
      BY <1>15, SinkAssumptions
         DEF CheckpointSyncFails, DurabilityInv, TypeOK, SyncedIsDurable, GroupCommit, Covered, Threads, Checkpointers, NoRecord, IsRecord, diskVars, goVars,
           chainVars, cpVars, AfterError
    <2> QED BY <2>1, <2>2, <2>3, <2>4 DEF DurabilityInv
  <1>16. ASSUME NEW t \in Checkpointers, CheckpointPublish(t) PROVE DurabilityInv'
    <2>1. TypeOK'
      BY <1>0, <1>16, SinkAssumptions
         DEF CheckpointPublish, DurabilityInv, TypeOK, LinesOf, GroupCommit, Covered, Threads, Checkpointers, NoRecord, IsRecord, diskVars, goVars,
           chainVars, cpVars, AfterSuccess
    <2>2. SyncedIsDurable'
      BY <1>16, SinkAssumptions
         DEF CheckpointPublish, DurabilityInv, TypeOK, SyncedIsDurable, GroupCommit, Covered, Threads, Checkpointers, NoRecord, IsRecord, diskVars, goVars,
           chainVars, cpVars, AfterSuccess
    <2>3. AckedDurable'
      BY <1>16, SinkAssumptions
         DEF CheckpointPublish, DurabilityInv, TypeOK, SyncedIsDurable, GroupCommit, AckedDurable, LinesOf,
             Covered, Threads, Checkpointers, NoRecord, IsRecord, diskVars, goVars,
           chainVars, cpVars, AfterSuccess
    <2>4. GroupCommit'
      BY <1>16, SinkAssumptions
         DEF CheckpointPublish, DurabilityInv, TypeOK, SyncedIsDurable, GroupCommit, Covered, Threads, Checkpointers, NoRecord, IsRecord, diskVars, goVars,
           chainVars, cpVars, AfterSuccess
    <2> QED BY <2>1, <2>2, <2>3, <2>4 DEF DurabilityInv
  <1>17. ASSUME Close PROVE DurabilityInv'
    <2>1. TypeOK'
      BY <1>0, <1>17, SinkAssumptions
         DEF Close, DurabilityInv, TypeOK, LinesOf, GroupCommit, Covered, Threads, Checkpointers, NoRecord, IsRecord, diskVars, goVars,
           chainVars, cpVars
    <2>2. SyncedIsDurable'
      BY <1>17, SinkAssumptions
         DEF Close, DurabilityInv, TypeOK, SyncedIsDurable, GroupCommit, Covered, Threads, Checkpointers, NoRecord, IsRecord, diskVars, goVars,
           chainVars, cpVars
    <2>3. AckedDurable'
      BY <1>17, SinkAssumptions
         DEF Close, DurabilityInv, TypeOK, SyncedIsDurable, GroupCommit, AckedDurable, LinesOf,
             Covered, Threads, Checkpointers, NoRecord, IsRecord, diskVars, goVars,
           chainVars, cpVars
    <2>4. GroupCommit'
      BY <1>17, SinkAssumptions
         DEF Close, DurabilityInv, TypeOK, SyncedIsDurable, GroupCommit, Covered, Threads, Checkpointers, NoRecord, IsRecord, diskVars, goVars,
           chainVars, cpVars
    <2> QED BY <2>1, <2>2, <2>3, <2>4 DEF DurabilityInv
  <1>18. ASSUME TickerDone PROVE DurabilityInv'
    <2>1. TypeOK'
      BY <1>0, <1>18, SinkAssumptions
         DEF TickerDone, DurabilityInv, TypeOK, LinesOf, GroupCommit, Covered, Threads, Checkpointers, NoRecord, IsRecord, diskVars, goVars,
           chainVars, cpVars
    <2>2. SyncedIsDurable'
      BY <1>18, SinkAssumptions
         DEF TickerDone, DurabilityInv, TypeOK, SyncedIsDurable, GroupCommit, Covered, Threads, Checkpointers, NoRecord, IsRecord, diskVars, goVars,
           chainVars, cpVars
    <2>3. AckedDurable'
      BY <1>18, SinkAssumptions
         DEF TickerDone, DurabilityInv, TypeOK, SyncedIsDurable, GroupCommit, AckedDurable, LinesOf,
             Covered, Threads, Checkpointers, NoRecord, IsRecord, diskVars, goVars,
           chainVars, cpVars
    <2>4. GroupCommit'
      BY <1>18, SinkAssumptions
         DEF TickerDone, DurabilityInv, TypeOK, SyncedIsDurable, GroupCommit, Covered, Threads, Checkpointers, NoRecord, IsRecord, diskVars, goVars,
           chainVars, cpVars
    <2> QED BY <2>1, <2>2, <2>3, <2>4 DEF DurabilityInv
  <1>19. ASSUME CloseNoCheckpoint PROVE DurabilityInv'
    <2>1. TypeOK'
      BY <1>0, <1>19, SinkAssumptions
         DEF CloseNoCheckpoint, DurabilityInv, TypeOK, LinesOf, GroupCommit, Covered, Threads, Checkpointers, NoRecord, IsRecord, diskVars, goVars,
           chainVars, cpVars
    <2>2. SyncedIsDurable'
      BY <1>19, SinkAssumptions
         DEF CloseNoCheckpoint, DurabilityInv, TypeOK, SyncedIsDurable, GroupCommit, Covered, Threads, Checkpointers, NoRecord, IsRecord, diskVars, goVars,
           chainVars, cpVars
    <2>3. AckedDurable'
      BY <1>19, SinkAssumptions
         DEF CloseNoCheckpoint, DurabilityInv, TypeOK, SyncedIsDurable, GroupCommit, AckedDurable, LinesOf,
             Covered, Threads, Checkpointers, NoRecord, IsRecord, diskVars, goVars,
           chainVars, cpVars
    <2>4. GroupCommit'
      BY <1>19, SinkAssumptions
         DEF CloseNoCheckpoint, DurabilityInv, TypeOK, SyncedIsDurable, GroupCommit, Covered, Threads, Checkpointers, NoRecord, IsRecord, diskVars, goVars,
           chainVars, cpVars
    <2> QED BY <2>1, <2>2, <2>3, <2>4 DEF DurabilityInv
  <1>20. ASSUME CloseFile PROVE DurabilityInv'
    <2>1. TypeOK'
      BY <1>0, <1>20, SinkAssumptions
         DEF CloseFile, DurabilityInv, TypeOK, LinesOf, GroupCommit, Covered, Threads, Checkpointers, NoRecord, IsRecord, diskVars, goVars,
           chainVars, cpVars
    <2>2. SyncedIsDurable'
      BY <1>20, SinkAssumptions
         DEF CloseFile, DurabilityInv, TypeOK, SyncedIsDurable, GroupCommit, Covered, Threads, Checkpointers, NoRecord, IsRecord, diskVars, goVars,
           chainVars, cpVars
    <2>3. AckedDurable'
      BY <1>20, SinkAssumptions
         DEF CloseFile, DurabilityInv, TypeOK, SyncedIsDurable, GroupCommit, AckedDurable, LinesOf,
             Covered, Threads, Checkpointers, NoRecord, IsRecord, diskVars, goVars,
           chainVars, cpVars
    <2>4. GroupCommit'
      BY <1>20, SinkAssumptions
         DEF CloseFile, DurabilityInv, TypeOK, SyncedIsDurable, GroupCommit, Covered, Threads, Checkpointers, NoRecord, IsRecord, diskVars, goVars,
           chainVars, cpVars
    <2> QED BY <2>1, <2>2, <2>3, <2>4 DEF DurabilityInv
  <1>21. ASSUME CloseFileFails PROVE DurabilityInv'
    <2>1. TypeOK'
      BY <1>0, <1>21, SinkAssumptions
         DEF CloseFileFails, DurabilityInv, TypeOK, LinesOf, GroupCommit, Covered, Threads, Checkpointers, NoRecord, IsRecord, diskVars, goVars,
           chainVars, cpVars, FailWrite
    <2>2. SyncedIsDurable'
      BY <1>21, SinkAssumptions
         DEF CloseFileFails, DurabilityInv, TypeOK, SyncedIsDurable, GroupCommit, Covered, Threads, Checkpointers, NoRecord, IsRecord, diskVars, goVars,
           chainVars, cpVars, FailWrite
    <2>3. AckedDurable'
      BY <1>21, SinkAssumptions
         DEF CloseFileFails, DurabilityInv, TypeOK, SyncedIsDurable, GroupCommit, AckedDurable, LinesOf,
             Covered, Threads, Checkpointers, NoRecord, IsRecord, diskVars, goVars,
           chainVars, cpVars, FailWrite
    <2>4. GroupCommit'
      BY <1>21, SinkAssumptions
         DEF CloseFileFails, DurabilityInv, TypeOK, SyncedIsDurable, GroupCommit, Covered, Threads, Checkpointers, NoRecord, IsRecord, diskVars, goVars,
           chainVars, cpVars, FailWrite
    <2> QED BY <2>1, <2>2, <2>3, <2>4 DEF DurabilityInv
  <1>22. ASSUME NEW k \in durable..written, Crash(k) PROVE DurabilityInv'
    BY <1>0, <1>22, DurabilityCrash
  <1>23. CASE UNCHANGED vars
    BY <1>23 DEF vars, DurabilityInv, TypeOK, SyncedIsDurable, AckedDurable, GroupCommit,
           LinesOf, FlagsOK, Covered, Threads, Checkpointers, NoRecord, IsRecord, diskVars, goVars,
           chainVars, cpVars
  <1> QED
    BY <1>1, <1>2, <1>3, <1>4, <1>5, <1>6, <1>7, <1>8, <1>9, <1>10, <1>11, <1>12, <1>13, <1>14, <1>15, <1>16, <1>17, <1>18, <1>19, <1>20, <1>21, <1>22, <1>23
       DEF Next, WriterStep, CheckpointStep, CloseStep

\* Spec keeps the variables in their types, and a record whose Write returned
\* without an error is durable, whatever the interleaving of writers, ticker
\* and Close, whichever calls fail, and however often the process crashes.
THEOREM Durability == Spec => []DurabilityInv
  <1>1. DurabilityInv /\ [Next]_vars => DurabilityInv'
    BY DurabilityStep
  <1> QED BY <1>1, DurabilityInit, PTL DEF Spec

\* In particular the variables keep their types.
THEOREM TypeCorrect == Spec => []TypeOK
  <1>1. DurabilityInv => TypeOK
    BY DEF DurabilityInv
  <1> QED BY <1>1, Durability, PTL

\* In particular an acknowledged record is among the fsynced lines for ever.
THEOREM AcknowledgedIsDurable == Spec => []AckedDurable
  <1>1. DurabilityInv => AckedDurable
    BY DEF DurabilityInv
  <1> QED BY <1>1, Durability, PTL
-----------------------------------------------------------------------------
(* The chain *)

\* In a well-formed log the last record is the last line or the one above it,
\* so resumeChain recovers exactly the chain state at the end of the file.
LEMMA ResumeIsTail ==
    ASSUME TypeOK, WellFormed(log)
    PROVE  resumeChain = [seq |-> SeqBefore(log, Len(log) + 1),
                          hash |-> HashBefore(log, Len(log) + 1)]
  <1> DEFINE n == Len(log)
             I == RecordIndices(log)
  <1>1. n \in Nat /\ I = {i \in 1..n : IsRecord(log[i])}
    BY DEF TypeOK, RecordIndices
  <1>2. \A i \in 1..n : IsRecord(log[i]) \/ IsCheckpoint(log[i])
    BY DEF TypeOK, LinesOf, IsRecord, IsCheckpoint
  <1>3. CASE n = 0
    BY <1>1, <1>3 DEF resumeChain, SeqBefore, HashBefore
  <1>4. CASE n > 0
    <2>1. PICK m \in I : (\A j \in I : j <= m) /\ log[m].seq = log[n].seq /\ log[m].hash = log[n].hash
      <3>1. CASE IsRecord(log[n])
        BY <1>1, <1>4, <3>1
      <3>2. CASE IsCheckpoint(log[n])
        <4>1. n > 1 /\ IsRecord(log[n - 1])
          BY <1>1, <1>4, <3>2 DEF WellFormed
        <4>2. ~IsRecord(log[n])
          BY <3>2 DEF IsRecord, IsCheckpoint
        <4>3. log[n].seq = log[n - 1].seq /\ log[n].hash = log[n - 1].hash
          <5>1. LinkedAt(log, n)
            BY <1>1, <1>4 DEF WellFormed, ChainLinked
          <5> QED BY <1>1, <4>1, <4>2, <5>1 DEF LinkedAt, SeqBefore, HashBefore
        <4>4. n - 1 \in I /\ \A j \in I : j <= n - 1
          BY <1>1, <4>1, <4>2
        <4> QED BY <4>3, <4>4
      <3> QED BY <1>1, <1>2, <1>4, <3>1, <3>2
    <2>2. \A i \in I : (\A j \in I : j <= i) => i = m
      BY <1>1, <2>1
    <2>3. (CHOOSE i \in I : \A j \in I : j <= i) = m
      BY <2>1, <2>2
    <2>4. LastRecord(log) = log[m]
      BY <2>3 DEF LastRecord
    <2>5. resumeChain = [seq |-> log[m].seq, hash |-> log[m].hash]
      BY <2>1, <2>4 DEF resumeChain
    <2> QED BY <1>1, <1>4, <2>1, <2>5 DEF SeqBefore, HashBefore
  <1> QED BY <1>1, <1>3, <1>4

\* The record Write links and the checkpoint it or Checkpoint signs continue
\* the stream.
LEMMA NextRecordContinues ==
    ASSUME ChainInv, TypeOK, status = "running", NEW ev
    PROVE  Continues(log, Link(ev, seq + 1, head))
  BY DEF ChainInv, Continues, Link, IsRecord

\* A checkpoint may follow the record it signs.
LEMMA CheckpointContinues ==
    ASSUME NEW S, NEW s \in Seq(S), Len(s) > 0, IsRecord(s[Len(s)])
    PROVE  Continues(s, SignCheckpointWith(Key, s[Len(s)].seq, s[Len(s)].hash))
  BY DEF Continues, SignCheckpointWith, IsRecord, IsCheckpoint, SeqBefore, HashBefore

\* Write appends the record and, when it is due, the checkpoint over it.
LEMMA ChainWrite ==
    ASSUME ChainInv, TypeOK, NEW w \in Writers, NEW ev \in Events, Write(w, ev)
    PROVE  ChainInv'
  <1> DEFINE r == Link(ev, seq + 1, head)
             cp == SignCheckpointWith(Key, r.seq, r.hash)
             one == Append(log, r)
             two == Append(one, cp)
  <1>1. /\ r.type = "record" /\ r.seq = seq + 1
        /\ cp.type = "checkpoint" /\ cp.seq = r.seq /\ cp.hash = r.hash
    BY DEF Link, SignCheckpointWith
  <1>2. log \in Seq(LinesOf(log)) /\ Len(log) \in Nat /\ WellFormed(log)
        /\ status = "running" /\ ~broken /\ status' = status
    BY DEF TypeOK, ChainInv, Write
  <1>3. failed = {}
    BY <1>2 DEF ChainInv
  <1>4. /\ WellFormed(one) /\ Len(one) = Len(log) + 1 /\ one[Len(log) + 1] = r
        /\ one \in Seq(LinesOf(log) \cup {r})
    BY <1>2, NextRecordContinues, AppendWellFormed
  <1>5. log \o <<r>> = one /\ log \o <<r, cp>> = two
    BY <1>2, ConcatOne, ConcatTwo
  <1>6. Continues(one, cp)
    <2> HIDE DEF one, r
    <2>1. Len(one) > 0 /\ IsRecord(one[Len(one)]) /\ one[Len(one)] = r
      BY <1>1, <1>2, <1>4 DEF IsRecord
    <2> QED BY <1>4, <2>1, CheckpointContinues
  <1> HIDE DEF one, r, cp
  <1>7. WellFormed(two) /\ Len(two) = Len(one) + 1 /\ two[Len(one) + 1] = cp
    BY <1>4, <1>6, AppendWellFormed
  <1> HIDE DEF two
  <1>8. /\ seq' = r.seq /\ head' = r.hash
        /\ \/ log' = one /\ failed' = {}
           \/ log' = two /\ failed' = {} /\ sinceLastCP' = 0
           \/ log' = one /\ failed' = {cp} /\ broken' = TRUE
    BY <1>3, <1>5 DEF Write, Encode, FailWrite, r, cp, one
  <1>9. CASE log' = one
    <2>1. /\ seq' = SeqBefore(log', Len(log') + 1) /\ head' = HashBefore(log', Len(log') + 1)
          /\ Len(log') > 0 /\ IsRecord(log'[Len(log')])
      BY <1>1, <1>2, <1>4, <1>8, <1>9 DEF SeqBefore, HashBefore, IsRecord
    <2>2. \A line \in failed' : broken' /\ Continues(log', line)
      BY <1>6, <1>8, <1>9
    <2> QED BY <1>2, <1>4, <1>9, <2>1, <2>2 DEF ChainInv, IsRecord
  <1>10. CASE log' = two /\ failed' = {} /\ sinceLastCP' = 0
    <2>1. /\ seq' = SeqBefore(log', Len(log') + 1) /\ head' = HashBefore(log', Len(log') + 1)
      BY <1>1, <1>2, <1>4, <1>7, <1>8, <1>10 DEF SeqBefore, HashBefore
    <2> QED BY <1>2, <1>7, <1>10, <2>1 DEF ChainInv
  <1> QED BY <1>8, <1>9, <1>10

\* Checkpoint signs the head while the last line is the record it covers.
LEMMA ChainCheckpoint ==
    ASSUME ChainInv, TypeOK, NEW t \in Checkpointers,
           Checkpoint(t) \/ CheckpointFlushFails(t)
    PROVE  ChainInv'
  <1> DEFINE cp == SignCheckpointWith(Key, seq, head)
             n == Len(log)
             one == Append(log, cp)
  <1>1. cp.type = "checkpoint" /\ cp.seq = seq /\ cp.hash = head
    BY DEF SignCheckpointWith
  <1>2. /\ log \in Seq(LinesOf(log)) /\ n \in Nat /\ WellFormed(log)
        /\ status = "running" /\ status' = status /\ ~broken /\ sinceLastCP > 0
        /\ log' = one /\ seq' = seq /\ head' = head /\ sinceLastCP' = 0 /\ failed' = failed
    BY DEF TypeOK, ChainInv, Checkpoint, CheckpointFlushFails, FlushFails, AtCheckpoint
  <1>3. /\ failed = {} /\ n > 0 /\ IsRecord(log[n])
        /\ seq = log[n].seq /\ head = log[n].hash
    BY <1>2 DEF ChainInv, SeqBefore, HashBefore
  <1>4. Continues(log, cp)
    BY <1>2, <1>3, CheckpointContinues
  <1> HIDE DEF cp
  <1>5. WellFormed(one) /\ Len(one) = n + 1 /\ one[n + 1] = cp
    BY <1>2, <1>4, AppendWellFormed
  <1> HIDE DEF one
  <1>6. seq' = SeqBefore(log', Len(log') + 1) /\ head' = HashBefore(log', Len(log') + 1)
    BY <1>1, <1>2, <1>5 DEF SeqBefore, HashBefore
  <1> QED BY <1>2, <1>3, <1>5, <1>6 DEF ChainInv

\* A crash keeps a prefix and at most the line that would have followed it.
LEMMA ChainCrash ==
    ASSUME ChainInv, TypeOK, NEW k \in durable..written, Crash(k)
    PROVE  ChainInv'
  <1>1. /\ log \in Seq(LinesOf(log)) /\ Len(log) \in Nat /\ k \in 0..Len(log) /\ WellFormed(log)
        /\ failed' = {} /\ status' = "down"
    BY DEF TypeOK, ChainInv, Crash
  <1> DEFINE kept == SubSeq(log, 1, k)
  <1>2. /\ kept \in Seq(LinesOf(log)) /\ Len(kept) = k
        /\ \A i \in 1..k : kept[i] = log[i]
    BY <1>1
  <1>3. WellFormed(kept)
    BY <1>1, PrefixWellFormed
  <1>4. log' = kept \/ \E line \in NextLine(k) : log' = Append(kept, line)
    BY DEF Crash
  <1> HIDE DEF kept
  <1>5. ASSUME NEW line \in NextLine(k) PROVE Continues(kept, line)
    <2>1. CASE k < Len(log)
      <3>1. /\ line = log[k + 1] /\ LinkedAt(log, k + 1)
            /\ IsCheckpoint(line) => k + 1 > 1 /\ IsRecord(log[k])
        BY <1>1, <1>5, <2>1 DEF NextLine, WellFormed, ChainLinked
      <3>2. SeqBefore(kept, k + 1) = SeqBefore(log, k + 1) /\ HashBefore(kept, k + 1) = HashBefore(log, k + 1)
        BY <1>1, <1>2 DEF SeqBefore, HashBefore
      <3>3. k > 0 => kept[k] = log[k]
        BY <1>1, <1>2
      <3> QED BY <1>1, <1>2, <3>1, <3>2, <3>3 DEF Continues, LinkedAt, IsRecord, IsCheckpoint
    <2>2. CASE k = Len(log)
      <3>1. line \in failed /\ Continues(log, line)
        BY <1>1, <1>5, <2>2 DEF NextLine, ChainInv
      <3>2. kept = log
        BY <1>1, <2>2 DEF kept
      <3> QED BY <3>1, <3>2
    <2> QED BY <1>1, <2>1, <2>2
  <1>6. ASSUME NEW line \in NextLine(k), log' = Append(kept, line)
        PROVE  WellFormed(log')
    BY <1>2, <1>3, <1>5, <1>6, AppendWellFormed
  <1>7. WellFormed(log')
    BY <1>3, <1>4, <1>6
  <1> QED BY <1>1, <1>7 DEF ChainInv

\* Steps that leave the stream and the fields that describe it alone.
LEMMA ChainQuiet ==
    ASSUME ChainInv, log' = log, failed' = failed, status' = status,
           seq' = seq, head' = head, sinceLastCP' = sinceLastCP,
           broken' = broken \/ broken' = TRUE
    PROVE  ChainInv'
  <1>1. broken => broken'
    OBVIOUS
  <1>2. \A line \in failed' : broken' /\ status' = "running" /\ Continues(log', line)
    BY <1>1 DEF ChainInv
  <1> QED BY <1>2 DEF ChainInv

\* A line whose Encode failed would have continued the stream.
LEMMA ChainEncodeFails ==
    ASSUME ChainInv, TypeOK, status = "running", EncodeFails, NEW line,
           Continues(log, line), failed' = {line}, broken' = TRUE,
           log' = log, status' = status, seq' = seq, head' = head,
           sinceLastCP' = sinceLastCP
    PROVE  ChainInv'
  BY DEF ChainInv

\* The record whose Encode failed was the next one.
LEMMA ChainWriteEncodeFails ==
    ASSUME ChainInv, TypeOK, NEW w \in Writers, NEW ev \in Events,
           WriteEncodeFails(w, ev)
    PROVE  ChainInv'
  <1> DEFINE r == Link(ev, seq + 1, head)
  <1>1. status = "running" /\ Continues(log, r)
    BY NextRecordContinues DEF WriteEncodeFails
  <1> HIDE DEF r
  <1>2. /\ EncodeFails /\ failed' = {r} /\ broken' = TRUE /\ log' = log
        /\ status' = status /\ seq' = seq /\ head' = head
        /\ sinceLastCP' = sinceLastCP
    BY DEF WriteEncodeFails, FailWrite, chainVars, r
  <1> QED BY <1>1, <1>2, ChainEncodeFails

\* So was the checkpoint whose Encode failed.
LEMMA ChainCheckpointFails ==
    ASSUME ChainInv, TypeOK, NEW t \in Checkpointers, CheckpointFails(t)
    PROVE  ChainInv'
  <1> DEFINE cp == SignCheckpointWith(Key, seq, head)
  <1>1. /\ status = "running" /\ sinceLastCP > 0 /\ log' = log /\ status' = status
        /\ seq' = seq /\ head' = head /\ sinceLastCP' = sinceLastCP
    BY DEF CheckpointFails, AtCheckpoint, chainVars
  <1>2. /\ log \in Seq(LinesOf(log)) /\ Len(log) \in Nat
        /\ Len(log) > 0 /\ IsRecord(log[Len(log)])
        /\ seq = log[Len(log)].seq /\ head = log[Len(log)].hash
    BY <1>1 DEF TypeOK, ChainInv, SeqBefore, HashBefore
  <1>3. Continues(log, cp)
    BY <1>2, CheckpointContinues
  <1> HIDE DEF cp
  <1>4. CASE EncodeFails /\ failed' = {cp} /\ broken' = TRUE
    BY <1>1, <1>3, <1>4, ChainEncodeFails
  <1>5. CASE failed' = failed /\ broken' = broken
    BY <1>1, <1>5, ChainQuiet
  <1> QED BY <1>4, <1>5 DEF CheckpointFails, FailWrite, cp

\* The sink resumes at the end of what a crash left.
LEMMA ChainNewEvidenceSink ==
    ASSUME ChainInv, TypeOK, NewEvidenceSink
    PROVE  ChainInv'
  <1>1. /\ log' = log /\ failed' = failed /\ status = "down" /\ status' = "running"
        /\ seq' = resumeChain.seq /\ head' = resumeChain.hash /\ sinceLastCP' = 0
    BY DEF NewEvidenceSink, diskVars
  <1>2. failed = {}
    BY <1>1 DEF ChainInv
  <1>3. log \in Seq(LinesOf(log)) /\ WellFormed(log)
    BY DEF TypeOK, ChainInv
  <1>4. resumeChain = [seq |-> SeqBefore(log, Len(log) + 1),
                       hash |-> HashBefore(log, Len(log) + 1)]
    BY <1>3, ResumeIsTail DEF TypeOK
  <1>5. seq' = SeqBefore(log', Len(log') + 1) /\ head' = HashBefore(log', Len(log') + 1)
    BY <1>1, <1>4
  <1> QED BY <1>1, <1>2, <1>3, <1>5 DEF ChainInv

\* Every step keeps ChainInv.
LEMMA ChainStep ==
    ASSUME ChainInv, TypeOK, [Next]_vars
    PROVE  ChainInv'
  <1> DEFINE Quiet == /\ log' = log /\ failed' = failed /\ status' = status
                      /\ seq' = seq /\ head' = head
                      /\ sinceLastCP' = sinceLastCP
                      /\ broken' = broken \/ broken' = TRUE
  <1>1. CASE NewEvidenceSink
    BY <1>1, ChainNewEvidenceSink
  <1>2. CASE NewEvidenceSinkRefuses
    <2>1. failed = {}
      BY <1>2 DEF ChainInv, NewEvidenceSinkRefuses
    <2> QED BY <1>2, <2>1 DEF ChainInv, NewEvidenceSinkRefuses, diskVars, chainVars
  <1>3. ASSUME NEW w \in Writers, WriterStep(w)
        PROVE  ChainInv'
    <2>1. ASSUME NEW ev \in Events, Write(w, ev) PROVE ChainInv'
      BY <2>1, ChainWrite
    <2>2. ASSUME NEW ev \in Events, WriteEncodeFails(w, ev) PROVE ChainInv'
      BY <2>2, ChainWriteEncodeFails
    <2>3. CASE SyncCovered(w) \/ SyncFlush(w) \/ SyncFlushFails(w) \/ SyncDone(w) \/ SyncFails(w)
      <3>1. Quiet
        BY <2>3 DEF SyncCovered, SyncFlush, SyncFlushFails, SyncDone, SyncFails,
                    FailWrite, diskVars, chainVars
      <3> QED BY <3>1, ChainQuiet
    <2> QED BY <1>3, <2>1, <2>2, <2>3 DEF WriterStep
  <1>4. CASE BackoffElapses
    <2>1. Quiet
      BY <1>4 DEF BackoffElapses, diskVars, chainVars
    <2> QED BY <2>1, ChainQuiet
  <1>5. ASSUME NEW t \in Checkpointers, CheckpointStep(t)
        PROVE  ChainInv'
    <2>1. CASE Checkpoint(t) \/ CheckpointFlushFails(t)
      BY <2>1, ChainCheckpoint
    <2>2. CASE CheckpointFails(t)
      BY <2>2, ChainCheckpointFails
    <2>3. CASE CheckpointSynced(t) \/ CheckpointSyncFails(t) \/ CheckpointPublish(t)
      <3>1. Quiet
        BY <2>3 DEF CheckpointSynced, CheckpointSyncFails, CheckpointPublish,
                    diskVars, chainVars
      <3> QED BY <3>1, ChainQuiet
    <2> QED BY <1>5, <2>1, <2>2, <2>3 DEF CheckpointStep
  <1>6. CASE CloseStep
    <2>1. Quiet
      BY <1>6 DEF CloseStep, Close, TickerDone, CloseNoCheckpoint, CloseFile,
                  CloseFileFails, FailWrite, diskVars, chainVars
    <2> QED BY <2>1, ChainQuiet
  <1>7. ASSUME NEW k \in durable..written, Crash(k)
        PROVE  ChainInv'
    BY <1>7, ChainCrash
  <1>8. CASE UNCHANGED vars
    <2>1. Quiet
      BY <1>8 DEF vars, diskVars, chainVars
    <2> QED BY <2>1, ChainQuiet
  <1> QED BY <1>1, <1>2, <1>3, <1>4, <1>5, <1>6, <1>7, <1>8 DEF Next

\* The empty stream is well formed.
LEMMA ChainInit ==
    ASSUME Init
    PROVE  ChainInv
  BY DEF Init, ChainInv, WellFormed, ChainLinked

\* For every number of writers, every checkpoint interval and every fault: the
\* file is one hash chain across crashes and restarts, and a running sink
\* continues exactly where it ends.
THEOREM OneChain == Spec => []ChainIntact
  <1>1. ASSUME TypeOK, ChainInv PROVE ChainIntact
    <2>1. log \in Seq(LinesOf(log)) /\ WellFormed(log)
      BY <1>1 DEF TypeOK, ChainInv
    <2>2. resumeChain = [seq |-> SeqBefore(log, Len(log) + 1),
                         hash |-> HashBefore(log, Len(log) + 1)]
      BY <1>1, <2>1, ResumeIsTail DEF TypeOK
    <2> QED BY <1>1, <2>1, <2>2 DEF ChainIntact, ChainInv, WellFormed
  <1>2. Spec => []ChainInv
    BY ChainInit, ChainStep, TypeCorrect, PTL DEF Spec
  <1> QED BY <1>1, <1>2, TypeCorrect, PTL

-----------------------------------------------------------------------------
(* What a crash may and may not take *)

\* No step, a crash included, shortens or rewrites the durable lines: every
\* step appends, leaves the lines alone, or is a crash that keeps at least the
\* durable prefix.
THEOREM DurableLinesStay == Spec => DurablePrefixStable
  <1> DEFINE Stable == /\ durable' >= durable
                       /\ durable <= Len(log')
                       /\ \A i \in 1..durable : log'[i] = log[i]
  <1>1. ASSUME DurabilityInv, [Next]_vars
        PROVE  Stable
    <2>1. /\ TypeOK /\ Len(log) \in Nat /\ durable \in Nat /\ written \in Nat
          /\ durable <= written /\ written <= Len(log)
      BY <1>1 DEF DurabilityInv, TypeOK
    <2>2. ASSUME Appends PROVE Stable
      BY <2>1, <2>2 DEF Appends
    <2>3. ASSUME log' = log, durable' = durable \/ durable' \in {written, Len(log)}
          PROVE  Stable
      BY <2>1, <2>3
    <2>4. ASSUME NEW k \in durable..written, Crash(k)
          PROVE  Stable
      <3>1. /\ k \in Nat /\ durable <= k /\ Len(log') \in {k, k + 1}
            /\ \A i \in 1..k : log'[i] = log[i]
        BY <2>1, <2>4, CrashKeeps
      <3>2. durable' = durable
        BY <2>4 DEF Crash
      <3> QED BY <2>1, <3>1, <3>2
    <2>5. CASE NewEvidenceSink \/ NewEvidenceSinkRefuses \/ BackoffElapses
      BY <2>3, <2>5 DEF NewEvidenceSink, NewEvidenceSinkRefuses, BackoffElapses, diskVars
    <2>6. ASSUME NEW w \in Writers, WriterStep(w)
          PROVE  Stable
      <3>1. ASSUME NEW ev \in Events, Write(w, ev) PROVE Stable
        BY <1>1, <2>2, <3>1, WriteAppends
      <3>2. ASSUME NEW ev \in Events, WriteEncodeFails(w, ev) PROVE Stable
        BY <2>3, <3>2 DEF WriteEncodeFails
      <3>3. CASE SyncCovered(w) \/ SyncFlush(w) \/ SyncFlushFails(w) \/ SyncDone(w) \/ SyncFails(w)
        BY <2>3, <3>3 DEF SyncCovered, SyncFlush, SyncFlushFails, SyncDone,
                          SyncFails, diskVars
      <3> QED BY <2>6, <3>1, <3>2, <3>3 DEF WriterStep
    <2>7. ASSUME NEW t \in Checkpointers, CheckpointStep(t)
          PROVE  Stable
      <3>1. CASE Checkpoint(t) \/ CheckpointFlushFails(t)
        BY <1>1, <2>2, <3>1, CheckpointAppends
      <3>2. CASE CheckpointFails(t) \/ CheckpointSynced(t) \/ CheckpointSyncFails(t) \/ CheckpointPublish(t)
        BY <2>3, <3>2 DEF CheckpointFails, CheckpointSynced, CheckpointSyncFails,
                          CheckpointPublish, diskVars
      <3> QED BY <2>7, <3>1, <3>2 DEF CheckpointStep
    <2>8. CASE CloseStep
      BY <2>3, <2>8 DEF CloseStep, Close, TickerDone, CloseNoCheckpoint,
                        CloseFile, CloseFileFails, diskVars
    <2>9. CASE UNCHANGED vars
      BY <2>3, <2>9 DEF vars, diskVars
    <2> QED BY <1>1, <2>4, <2>5, <2>6, <2>7, <2>8, <2>9 DEF Next
  <1> QED BY <1>1, Durability, PTL DEF Spec, DurablePrefixStable

\* Why an acknowledged record stays readable while no crash cuts just a
\* newline: part of a line can only lie at the very end of the file, and a sink
\* that finds one refuses to run.
ReadInv ==
    /\ unterminated = {} /\ fragments \subseteq {Len(log)}
    /\ status = "running" => fragments = {}

\* Steps that add nothing to what crashes left in the file.
LEMMA ReadQuiet ==
    ASSUME ReadInv, status = "running", status' = status,
           unterminated' = unterminated, fragments' = fragments
    PROVE  ReadInv'
  BY DEF ReadInv

\* Every step keeps ReadInv while no crash cuts just a newline.
LEMMA ReadStep ==
    ASSUME "newline" \notin Tears, ReadInv, DurabilityInv, [Next]_vars
    PROVE  ReadInv'
  <1>1. CASE NewEvidenceSink
    BY <1>1 DEF NewEvidenceSink, Malformed, ReadInv, diskVars
  <1>2. CASE NewEvidenceSinkRefuses \/ UNCHANGED vars
    BY <1>2 DEF NewEvidenceSinkRefuses, ReadInv, vars, diskVars
  <1>3. ASSUME NEW k \in durable..written, Crash(k)
        PROVE  ReadInv'
    <2>1. /\ log \in Seq(LinesOf(log)) /\ k \in 0..Len(log) /\ Len(log) \in Nat
      BY <1>3 DEF DurabilityInv, TypeOK
    <2>2. Len(SubSeq(log, 1, k)) = k
      BY <2>1
    <2>3. fragments = {} /\ unterminated = {} /\ status' = "down"
      BY <1>3 DEF Crash, ReadInv
    <2> QED BY <1>3, <2>2, <2>3 DEF Crash, ReadInv
  <1>4. ASSUME NEW w \in Writers, WriterStep(w)
        PROVE  ReadInv'
    <2>1. ASSUME NEW ev \in Events, Write(w, ev) PROVE ReadInv'
      <3>1. status = "running" /\ status' = status
        BY <2>1 DEF Write
      <3>2. unterminated' = unterminated /\ fragments' = fragments
        BY <2>1, WriteAppends
      <3> QED BY <3>1, <3>2, ReadQuiet
    <2>2. ASSUME NEW ev \in Events, WriteEncodeFails(w, ev) PROVE ReadInv'
      BY <2>2, ReadQuiet DEF WriteEncodeFails
    <2>3. CASE SyncCovered(w) \/ SyncFlush(w) \/ SyncFlushFails(w) \/ SyncDone(w) \/ SyncFails(w)
      BY <2>3 DEF ReadInv, SyncCovered, SyncFlush, SyncFlushFails, SyncDone,
                  SyncFails, diskVars
    <2> QED BY <1>4, <2>1, <2>2, <2>3 DEF WriterStep
  <1>5. ASSUME NEW t \in Checkpointers, CheckpointStep(t)
        PROVE  ReadInv'
    <2>1. CASE Checkpoint(t) \/ CheckpointFlushFails(t)
      BY <2>1, ReadQuiet DEF Checkpoint, CheckpointFlushFails, AtCheckpoint
    <2>2. CASE CheckpointFails(t) \/ CheckpointSynced(t) \/ CheckpointSyncFails(t) \/ CheckpointPublish(t)
      BY <2>2 DEF ReadInv, CheckpointFails, CheckpointSynced, CheckpointSyncFails,
                  CheckpointPublish, diskVars
    <2> QED BY <1>5, <2>1, <2>2 DEF CheckpointStep
  <1>6. CASE BackoffElapses \/ CloseStep
    BY <1>6 DEF ReadInv, BackoffElapses, CloseStep, Close, TickerDone,
                CloseNoCheckpoint, CloseFile, CloseFileFails, diskVars
  <1> QED BY <1>1, <1>2, <1>3, <1>4, <1>5, <1>6 DEF Next

\* As long as a crash never keeps a record's body without its newline, an
\* acknowledged record can be read back for ever: it stands on a line of its
\* own.  (With such crashes it may not: EvidenceSinkTornNewline.cfg.)
THEOREM AcknowledgedIsReadable ==
    ASSUME "newline" \notin Tears
    PROVE  Spec => []AckedReadable
  <1>1. Init => ReadInv
    BY DEF Init, ReadInv
  <1>2. ReadInv /\ DurabilityInv /\ [Next]_vars => ReadInv'
    BY ReadStep
  <1>3. ReadInv /\ DurabilityInv => AckedReadable
    <2> SUFFICES ASSUME ReadInv, DurabilityInv, NEW r \in acked
                 PROVE  \E i \in 1..Len(log) : log[i] = r /\ OnOwnLine(i)
      BY DEF AckedReadable
    <2>1. durable \in 0..Len(log) /\ Len(log) \in Nat
      BY DEF DurabilityInv, TypeOK
    <2>2. PICK i \in 1..durable : log[i] = r
      BY DEF DurabilityInv, AckedDurable
    <2>3. i \in 1..Len(log) /\ OnOwnLine(i)
      BY <2>1 DEF OnOwnLine, ReadInv
    <2> QED BY <2>2, <2>3
  <1> QED BY <1>1, <1>2, <1>3, Durability, PTL DEF Spec

-----------------------------------------------------------------------------
(* The sink implements EvidenceLog *)

\* A record whose Encode failed, and may yet turn up after a crash, is one that a
\* caller asked for.
FailedAsked == \A line \in failed : IsRecord(line) => line.ev \in Events

\* What the lines of the stream are.
LEMMA StreamLines ==
    ASSUME TypeOK
    PROVE  log \in Seq(LinesOf(log)) /\ Lines(log) /\ Len(log) \in Nat
  BY DEF TypeOK, Lines, LinesOf, IsRecord, IsCheckpoint

\* The highest sequence of some lines among the first k of a chain.
LEMMA HighestSequence ==
    ASSUME NEW S, NEW s \in Seq(S), Lines(s), ChainLinked(s), NEW k \in 0..Len(s),
           NEW A, \A r \in A : \E i \in 1..k : s[i] = r
    PROVE  /\ Highest(A) \in 0..SeqBefore(s, k + 1)
           /\ Highest(A) = 0 \/ \E r \in A : Highest(A) = r.seq
           /\ \A r \in A : r.seq <= Highest(A)
  <1> DEFINE T == {0} \cup {r.seq : r \in A}
             n == SeqBefore(s, k + 1)
  <1>1. n \in Nat /\ (k > 0 => n = s[k].seq)
    BY DEF SeqBefore, Lines
  <1>2. ASSUME NEW r \in A PROVE r.seq \in 0..n
    <2>1. PICK i \in 1..k : s[i] = r
      OBVIOUS
    <2>2. s[i].seq \in Nat /\ s[k].seq \in Nat
      BY DEF Lines
    <2>3. s[i].seq <= s[k].seq
      <3>1. CASE i = k
        BY <2>2, <3>1
      <3>2. CASE i < k
        BY <3>2, SequencesGrow
      <3> QED BY <3>1, <3>2
    <2> QED BY <1>1, <2>1, <2>2, <2>3
  <1>3. T \subseteq 0..n /\ T # {}
    BY <1>1, <1>2
  <1> HIDE DEF n
  <1>4. PICK m \in T : \A j \in T : j <= m
    <2> HIDE DEF T
    <2> QED BY <1>1, <1>3, LargestIndex
  <1>5. m \in T /\ \A j \in T : m >= j
    BY <1>1, <1>3, <1>4
  <1>6. Max(T) \in T /\ \A j \in T : Max(T) >= j
    <2> HIDE DEF T
    <2> QED BY <1>5 DEF Max
  <1>7. \A r \in A : r.seq \in T
    OBVIOUS
  <1>8. Max(T) \in 0..n
    BY <1>3, <1>6
  <1>9. Highest(A) = Max(T)
    BY DEF Highest
  <1>10. Max(T) = 0 \/ \E r \in A : Max(T) = r.seq
    BY <1>6
  <1> HIDE DEF T
  <1> QED BY <1>1, <1>2, <1>6, <1>7, <1>8, <1>9, <1>10 DEF n

\* A step that touches neither the stream nor what was acknowledged.
LEMMA RefineQuiet ==
    ASSUME log' = log, acked' = acked
    PROVE  UNCHANGED <<RecordsOf(log), Promised>>
  BY DEF Promised

\* A Write that returns promises its record, unless a later one was before it.
LEMMA RefineReturn ==
    ASSUME DurabilityInv, ChainInv, DurabilityInv', log' = log,
           NEW r, acked' = acked \cup {r}
    PROVE  Abstract!Promise \/ UNCHANGED <<RecordsOf(log), Promised>>
  <1>1. /\ log \in Seq(LinesOf(log)) /\ Lines(log) /\ ChainLinked(log) /\ Len(log) \in Nat
        /\ Len(log) \in 0..Len(log)
    BY StreamLines DEF DurabilityInv, ChainInv, WellFormed
  <1>2. \A q \in acked' : \E i \in 1..Len(log) : log[i] = q
    <2>1. durable' \in 0..Len(log)
      BY <1>1 DEF DurabilityInv, TypeOK
    <2>2. \A q \in acked' : \E i \in 1..durable' : log[i] = q
      BY DEF DurabilityInv, AckedDurable
    <2> QED BY <1>1, <2>1, <2>2
  <1>3. \A q \in acked : \E i \in 1..Len(log) : log[i] = q
    BY <1>2
  <1> DEFINE n == SeqBefore(log, Len(log) + 1)
  <1>4. /\ Promised' \in 0..n /\ \A q \in acked' : q.seq <= Promised'
    BY <1>1, <1>2, HighestSequence DEF Promised
  <1>5. /\ Promised \in 0..n
        /\ Promised = 0 \/ \E q \in acked : Promised = q.seq
    BY <1>1, <1>3, HighestSequence DEF Promised
  <1>6. Len(RecordsOf(log)) = n /\ n \in Nat
    BY <1>1, RecordsAtTheirNumber
  <1> HIDE DEF n
  <1>7. Promised <= Promised'
    BY <1>4, <1>5, <1>6
  <1>8. Promised' = Promised \/ Promised' \in (Promised + 1)..Len(RecordsOf(log))
    BY <1>4, <1>5, <1>6, <1>7
  <1> QED BY <1>8 DEF Abstract!Promise

\* A record after the last line extends the abstract chain.
LEMMA RefineRecord ==
    ASSUME TypeOK, ChainInv, NEW line, IsRecord(line), line.ev \in Events,
           line.seq \in Nat, Continues(log, line), acked' = acked,
           RecordsOf(log)' = RecordsOf(Append(log, line))
    PROVE  Abstract!Extend
  <1>1. log \in Seq(LinesOf(log)) /\ Lines(log) /\ WellFormed(log)
    BY StreamLines DEF ChainInv
  <1>2. /\ RecordsOf(log)' = Append(RecordsOf(log), line)
        /\ line.seq = Len(RecordsOf(log)) + 1
    BY <1>1, RecordsAfterRecord
  <1>3. HashBefore(log, Len(log) + 1) = Abstract!HeadHash
    BY <1>1, HeadOfRecords DEF Abstract!HeadHash, Abstract!GenesisHash, GenesisHash
  <1>4. line = Link(line.ev, SeqBefore(log, Len(log) + 1) + 1, HashBefore(log, Len(log) + 1))
    BY DEF Continues
  <1>5. line.seq = SeqBefore(log, Len(log) + 1) + 1
    BY <1>4 DEF Link
  <1>6. line = Abstract!Link(line.ev, Len(RecordsOf(log)) + 1, Abstract!HeadHash)
    BY <1>2, <1>3, <1>4, <1>5 DEF Link, Abstract!Link, ComputeHash, Abstract!ComputeHash
  <1>7. Promised' = Promised
    BY DEF Promised
  <1> QED BY <1>2, <1>6, <1>7 DEF Abstract!Extend

\* Write extends the abstract chain by its record; the checkpoint that may follow
\* in the same section is not part of it.
LEMMA RefineWrite ==
    ASSUME TypeOK, ChainInv, NEW w \in Writers, NEW ev \in Events, Write(w, ev)
    PROVE  Abstract!Extend
  <1> DEFINE r == Link(ev, seq + 1, head)
             cp == SignCheckpointWith(Key, r.seq, r.hash)
             one == Append(log, r)
             two == Append(one, cp)
  <1>1. /\ r.type = "record" /\ r.seq = seq + 1 /\ r.ev = ev
        /\ cp.type = "checkpoint" /\ cp.seq = r.seq /\ cp.hash = r.hash
    BY DEF Link, SignCheckpointWith
  <1>2. /\ log \in Seq(LinesOf(log)) /\ Lines(log) /\ Len(log) \in Nat /\ WellFormed(log)
        /\ status = "running" /\ seq \in Nat /\ acked' = acked
    BY StreamLines DEF TypeOK, ChainInv, Write
  <1>3. Continues(log, r)
    BY <1>2, NextRecordContinues
  <1>4. log \o <<r>> = one /\ log \o <<r, cp>> = two
    BY <1>2, ConcatOne, ConcatTwo
  <1>5. log' = one \/ log' = two
    BY <1>4 DEF Write, Encode
  <1> HIDE DEF r, cp
  <1>6. /\ WellFormed(one) /\ Len(one) = Len(log) + 1 /\ one[Len(log) + 1] = r
        /\ one \in Seq(LinesOf(log) \cup {r})
    BY <1>2, <1>3, AppendWellFormed
  <1>7. \A i \in 1..Len(log) : one[i] = log[i]
    BY <1>2
  <1> HIDE DEF one
  <1>8. Lines(one)
    BY <1>1, <1>2, <1>6, <1>7 DEF Lines, IsRecord
  <1>9. Continues(one, cp)
    BY <1>1, <1>2, <1>6 DEF Continues, SeqBefore, HashBefore, IsRecord, IsCheckpoint
  <1>10. RecordsOf(two) = RecordsOf(one)
    BY <1>1, <1>2, <1>6, <1>8, <1>9, RecordsAfterCheckpoint DEF IsRecord
  <1>11. RecordsOf(log)' = RecordsOf(one)
    BY <1>5, <1>10
  <1>12. /\ IsRecord(r) /\ r.ev \in Events /\ r.seq \in Nat
         /\ RecordsOf(log)' = RecordsOf(Append(log, r))
    BY <1>1, <1>2, <1>11 DEF IsRecord, one
  <1> QED BY <1>2, <1>3, <1>12, RefineRecord

\* A checkpoint of the ticker or of Close is invisible in the abstract log.
LEMMA RefineCheckpoint ==
    ASSUME TypeOK, ChainInv, NEW t \in Checkpointers,
           Checkpoint(t) \/ CheckpointFlushFails(t)
    PROVE  UNCHANGED <<RecordsOf(log), Promised>>
  <1> DEFINE cp == SignCheckpointWith(Key, seq, head)
             n == Len(log)
  <1>1. /\ cp.type = "checkpoint" /\ cp.seq = seq
    BY DEF SignCheckpointWith
  <1>2. /\ log \in Seq(LinesOf(log)) /\ Lines(log) /\ n \in Nat /\ WellFormed(log)
        /\ seq \in Nat /\ sinceLastCP > 0 /\ status = "running"
        /\ log' = Append(log, cp) /\ acked' = acked
    BY StreamLines DEF TypeOK, ChainInv, Checkpoint, CheckpointFlushFails, AtCheckpoint
  <1>3. n > 0 /\ IsRecord(log[n]) /\ seq = log[n].seq /\ head = log[n].hash
    BY <1>2 DEF ChainInv, SeqBefore, HashBefore
  <1>4. Continues(log, cp)
    BY <1>2, <1>3, CheckpointContinues
  <1> HIDE DEF cp
  <1>5. RecordsOf(Append(log, cp)) = RecordsOf(log)
    BY <1>1, <1>2, <1>4, RecordsAfterCheckpoint DEF IsRecord
  <1> QED BY <1>2, <1>5 DEF Promised

\* A crash loses records that nobody was promised; when a line that was never
\* completed turns up whole but for its newline, it adds the record a caller asked
\* for and was told had failed.
LEMMA RefineCrash ==
    ASSUME DurabilityInv, ChainInv, FailedAsked, NEW k \in durable..written, Crash(k)
    PROVE  Abstract!Next \/ UNCHANGED <<RecordsOf(log), Promised>>
  <1>1. /\ TypeOK /\ log \in Seq(LinesOf(log)) /\ Lines(log) /\ Len(log) \in Nat
        /\ WellFormed(log) /\ ChainLinked(log) /\ k \in 0..Len(log) /\ durable \in 0..k
    BY StreamLines DEF DurabilityInv, TypeOK, ChainInv, WellFormed
  <1>2. acked' = acked /\ Promised' = Promised
    BY DEF Crash, Promised
  <1>3. ASSUME NEW m \in k..Len(log), log' = SubSeq(log, 1, m) PROVE Abstract!Lose
    <2>1. m \in 0..Len(log) /\ \A r \in acked : \E i \in 1..m : log[i] = r
      BY <1>1 DEF DurabilityInv, AckedDurable
    <2> DEFINE n == SeqBefore(log, m + 1)
    <2>2. Promised \in 0..n
      BY <1>1, <2>1, HighestSequence DEF Promised
    <2>3. n \in 0..Len(RecordsOf(log)) /\ RecordsOf(log)' = SubSeq(RecordsOf(log), 1, n)
      BY <1>1, <1>3, <2>1, RecordsOfPrefix
    <2>4. Len(RecordsOf(log)) \in Nat
      BY <1>1, RecordsAtTheirNumber
    <2> HIDE DEF n
    <2>5. n \in Promised..Len(RecordsOf(log))
      BY <2>2, <2>3, <2>4
    <2> QED BY <1>2, <2>3, <2>5 DEF Abstract!Lose
  <1>4. CASE log' = SubSeq(log, 1, k)
    BY <1>1, <1>3, <1>4 DEF Abstract!Next
  <1>5. ASSUME NEW line \in NextLine(k), log' = Append(SubSeq(log, 1, k), line)
        PROVE  Abstract!Next \/ UNCHANGED <<RecordsOf(log), Promised>>
    <2>1. CASE k < Len(log)
      <3>1. line = log[k + 1]
        BY <1>5, <2>1 DEF NextLine
      <3>2. Append(SubSeq(log, 1, k), line) = SubSeq(log, 1, k + 1)
        BY <1>1, <2>1, <3>1
      <3> QED BY <1>1, <1>3, <1>5, <2>1, <3>2 DEF Abstract!Next
    <2>2. CASE k = Len(log)
      <3>1. line \in failed /\ Continues(log, line)
        BY <1>1, <1>5, <2>2 DEF NextLine, ChainInv
      <3>2. SubSeq(log, 1, k) = log
        BY <1>1, <2>2
      <3>3. line.seq \in Nat
        BY <1>1, <3>1 DEF TypeOK
      <3>4. RecordsOf(log)' = RecordsOf(Append(log, line))
        BY <1>5, <3>2
      <3>5. CASE IsRecord(line)
        BY <1>1, <1>2, <3>1, <3>3, <3>4, <3>5, RefineRecord DEF FailedAsked, Abstract!Next
      <3>6. CASE ~IsRecord(line)
        BY <1>1, <1>2, <3>1, <3>3, <3>4, <3>6, RecordsAfterCheckpoint
      <3> QED BY <3>5, <3>6
    <2> QED BY <1>1, <2>1, <2>2
  <1> QED BY <1>4, <1>5 DEF Crash

\* Only Write has a record fail, the one it was given.
LEMMA FailedAskedStep ==
    ASSUME FailedAsked, [Next]_vars
    PROVE  FailedAsked'
  <1>1. ASSUME NEW w \in Writers, WriterStep(w)
        PROVE  FailedAsked'
    <2>1. ASSUME NEW ev \in Events, Write(w, ev) PROVE FailedAsked'
      <3>1. failed' = failed \/ \A line \in failed' : line.type = "checkpoint"
        BY <2>1 DEF Write, SignCheckpointWith
      <3> QED BY <3>1 DEF FailedAsked, IsRecord
    <2>2. ASSUME NEW ev \in Events, WriteEncodeFails(w, ev) PROVE FailedAsked'
      <3>1. failed' = {Link(ev, seq + 1, head)} /\ Link(ev, seq + 1, head).ev = ev
        BY <2>2 DEF WriteEncodeFails, Link
      <3> QED BY <3>1 DEF FailedAsked
    <2>3. CASE SyncCovered(w) \/ SyncFlush(w) \/ SyncFlushFails(w) \/ SyncDone(w) \/ SyncFails(w)
      BY <2>3 DEF FailedAsked, SyncCovered, SyncFlush, SyncFlushFails, SyncDone, SyncFails,
                  diskVars
    <2> QED BY <1>1, <2>1, <2>2, <2>3 DEF WriterStep
  <1>2. ASSUME NEW t \in Checkpointers, CheckpointStep(t)
        PROVE  FailedAsked'
    <2>1. failed' = failed \/ \A line \in failed' : line.type = "checkpoint"
      BY <1>2 DEF CheckpointStep, Checkpoint, CheckpointFlushFails, CheckpointFails,
                  CheckpointSynced, CheckpointSyncFails, CheckpointPublish,
                  SignCheckpointWith, diskVars
    <2> QED BY <2>1 DEF FailedAsked, IsRecord
  <1>3. ASSUME NEW k \in durable..written, Crash(k)
        PROVE  FailedAsked'
    BY <1>3 DEF Crash, FailedAsked
  <1>4. CASE NewEvidenceSink \/ NewEvidenceSinkRefuses \/ BackoffElapses \/ CloseStep
    BY <1>4 DEF FailedAsked, NewEvidenceSink, NewEvidenceSinkRefuses, BackoffElapses,
                CloseStep, Close, TickerDone, CloseNoCheckpoint, CloseFile,
                CloseFileFails, diskVars
  <1>5. CASE UNCHANGED vars
    BY <1>5 DEF vars, diskVars, FailedAsked
  <1> QED BY <1>1, <1>2, <1>3, <1>4, <1>5 DEF Next

\* Every step of the sink is a step of the abstract log or leaves it as it is.
LEMMA RefineStep ==
    ASSUME DurabilityInv, DurabilityInv', ChainInv, FailedAsked, [Next]_vars
    PROVE  Abstract!Next \/ UNCHANGED <<RecordsOf(log), Promised>>
  <1> DEFINE Refines == Abstract!Next \/ UNCHANGED <<RecordsOf(log), Promised>>
  <1>1. TypeOK
    BY DEF DurabilityInv
  <1>2. ASSUME NEW w \in Writers, WriterStep(w)
        PROVE  Refines
    <2>1. ASSUME NEW ev \in Events, Write(w, ev) PROVE Refines
      BY <1>1, <2>1, RefineWrite DEF Abstract!Next
    <2>2. ASSUME NEW ev \in Events, WriteEncodeFails(w, ev) PROVE Refines
      <3>1. log' = log /\ acked' = acked
        BY <2>2 DEF WriteEncodeFails
      <3> QED BY <3>1, RefineQuiet
    <2>3. CASE SyncCovered(w) \/ SyncDone(w)
      <3>1. log' = log /\ acked' = acked \cup {rec[w]}
        BY <2>3 DEF SyncCovered, SyncDone, Return, diskVars
      <3> QED BY <3>1, RefineReturn DEF Abstract!Next
    <2>4. CASE SyncFlush(w) \/ SyncFlushFails(w) \/ SyncFails(w)
      <3>1. log' = log /\ acked' = acked
        BY <2>4 DEF SyncFlush, SyncFlushFails, SyncFails, Return, diskVars
      <3> QED BY <3>1, RefineQuiet
    <2> QED BY <1>2, <2>1, <2>2, <2>3, <2>4 DEF WriterStep
  <1>3. ASSUME NEW t \in Checkpointers, CheckpointStep(t)
        PROVE  Refines
    <2>1. CASE Checkpoint(t) \/ CheckpointFlushFails(t)
      BY <1>1, <2>1, RefineCheckpoint
    <2>2. CASE CheckpointFails(t) \/ CheckpointSynced(t) \/ CheckpointSyncFails(t) \/ CheckpointPublish(t)
      <3>1. log' = log /\ acked' = acked
        BY <2>2 DEF CheckpointFails, CheckpointSynced, CheckpointSyncFails,
                    CheckpointPublish, diskVars
      <3> QED BY <3>1, RefineQuiet
    <2> QED BY <1>3, <2>1, <2>2 DEF CheckpointStep
  <1>4. ASSUME NEW k \in durable..written, Crash(k)
        PROVE  Refines
    BY <1>4, RefineCrash
  <1>5. CASE NewEvidenceSink \/ NewEvidenceSinkRefuses \/ BackoffElapses \/ CloseStep
    <2>1. log' = log /\ acked' = acked
      BY <1>5 DEF NewEvidenceSink, NewEvidenceSinkRefuses, BackoffElapses, CloseStep, Close,
                  TickerDone, CloseNoCheckpoint, CloseFile, CloseFileFails, diskVars
    <2> QED BY <2>1, RefineQuiet
  <1>6. CASE UNCHANGED vars
    <2>1. log' = log /\ acked' = acked
      BY <1>6 DEF vars, diskVars
    <2> QED BY <2>1, RefineQuiet
  <1> QED BY <1>2, <1>3, <1>4, <1>5, <1>6 DEF Next

\* The empty sink is the empty log.
LEMMA RefineInit ==
    ASSUME Init
    PROVE  Abstract!Init
  <1>1. log = <<>> /\ acked = {}
    BY DEF Init
  <1>2. Lines(log) /\ ChainLinked(log) /\ log \in Seq({})
    BY <1>1 DEF Lines, ChainLinked
  <1>3. /\ RecordsOf(log) \in Seq(LinesOf(log))
        /\ Len(RecordsOf(log)) = SeqBefore(log, Len(log) + 1)
    BY <1>2, RecordsAtTheirNumber
  <1>4. SeqBefore(log, Len(log) + 1) = 0
    BY <1>1 DEF SeqBefore
  <1>5. RecordsOf(log) = <<>>
    BY <1>3, <1>4
  <1>6. Promised = 0
    <2>1. 0 \in 0..Len(log) /\ \A r \in acked : \E i \in 1..0 : log[i] = r
      BY <1>1
    <2>2. Highest(acked) = 0 \/ \E r \in acked : Highest(acked) = r.seq
      BY <1>2, <2>1, HighestSequence
    <2> QED BY <1>1, <2>2 DEF Promised
  <1> QED BY <1>5, <1>6 DEF Abstract!Init

\* The sink with its buffer, locks, checkpoints, faulty disk, crashes and restarts
\* implements the log of EvidenceLog: records are chained one after the other, and
\* no failure takes away one whose Write has returned (sink.go).
THEOREM SinkImplementsLog == Spec => ImplementsEvidenceLog
  <1>1. Spec => []ChainInv
    BY ChainInit, ChainStep, TypeCorrect, PTL DEF Spec
  <1>2. Init => FailedAsked
    BY DEF Init, FailedAsked
  <1>3. Spec => []FailedAsked
    BY <1>2, FailedAskedStep, PTL DEF Spec
  <1>4. DurabilityInv /\ DurabilityInv' /\ ChainInv /\ FailedAsked /\ [Next]_vars
          => [Abstract!Next]_<<RecordsOf(log), Promised>>
    BY RefineStep
  <1> QED BY <1>1, <1>3, <1>4, RefineInit, Durability, PTL
          DEF Spec, ImplementsEvidenceLog, Abstract!Spec
=============================================================================
