----------------------------- MODULE AuditProofs -----------------------------
(***************************************************************************)
(* Proofs about the audit chain and its file, for any keys, contents and    *)
(* number of entries and chains.                                           *)
(*                                                                         *)
(* That a list which verifies is the beginning of one chain looks like a    *)
(* claim to be proved by induction on the list. Here the induction is that  *)
(* of the specification: the file grows by one entry at a time, so the      *)
(* claim about a shorter file is the property before the step. What the     *)
(* step needs besides is HashFixesPrefix.                                   *)
(***************************************************************************)
EXTENDS AuditTrail, SequenceTheorems, TLAPS

IsSeq(s) == s \in Seq(Range(s))

\* s is the beginning of c, element by element.
Begins(s, c) == Len(s) <= Len(c) /\ \A j \in 1..Len(s) : s[j] = c[j]

\* What the entry at place j of a chain is linked to.
Link(c, j) == IF j = 1 THEN GENESIS_HASH ELSE c[j - 1].hash

\* A chain as a logger issues it, under whatever keys.
WellLinked(c) ==
  /\ IsSeq(c)
  /\ \A j \in 1..Len(c) :
       \E k \in Keys \cup {ZeroKey}, v \in Contents :
         c[j] = [seq |-> j - 1, content |-> v, prev_hash |-> Link(c, j),
                 hash |-> Mac(k, j - 1, v, Link(c, j))]

Signed(c, from, to, k) ==
  \A j \in from..to : c[j].hash = Mac(k, c[j].seq, c[j].content, c[j].prev_hash)

IssuedIn(cs, e) == \E i \in 1..Len(cs) : \E j \in 1..Len(cs[i]) : e = cs[i][j]

ChainsLinked ==
  /\ IsSeq(chains) /\ Len(chains) >= 1
  /\ \A i \in 1..Len(chains) : WellLinked(chains[i])

LoggerIsCurrent ==
  /\ key \in Keys \cup {ZeroKey}
  /\ nextSeq = Len(current)
  /\ prevHash = Link(current, Len(current) + 1)

\* A keyed hash covers the one before it, so two chains that share a hash share
\* all the entries up to it.
HashFixesPrefix ==
  \A i, m \in 1..Len(chains) : \A n \in 1..Len(chains[i]) :
    n <= Len(chains[m]) /\ chains[i][n].hash = chains[m][n].hash =>
      \A j \in 1..n : chains[i][j] = chains[m][j]

FileIsIssued ==
  /\ IsSeq(file) /\ IsSeq(pending) /\ Len(pending) <= 1
  /\ \A i \in 1..Len(file) : IssuedIn(chains, file[i])
  /\ \A i \in 1..Len(pending) : IssuedIn(chains, pending[i])

VerifiedBegins ==
  \A k \in Keys \cup {ZeroKey} :
    VerifyChain(k, file) => \E i \in 1..Len(chains) : Begins(file, chains[i])

\* Which key signed the present chain.
KeyHistory ==
  /\ wipedAt = NotWiped => key \in Keys /\ Signed(current, 1, Len(current), key)
  /\ wipedAt # NotWiped =>
       /\ key = ZeroKey /\ wipedAt \in 0..Len(current)
       /\ \E k \in Keys : Signed(current, 1, wipedAt, k)
       /\ Signed(current, wipedAt + 1, Len(current), ZeroKey)

TrailInvariant ==
  /\ ChainsLinked /\ LoggerIsCurrent /\ HashFixesPrefix
  /\ FileIsIssued /\ VerifiedBegins /\ KeyHistory

------------------------------------------------------------------------------
(***************************************************************************)
(* Lemmas about the keyed hash and about sequences.                        *)
(***************************************************************************)
LEMMA MacInjective ==
  ASSUME NEW k, NEW n, NEW v, NEW p, NEW k2, NEW n2, NEW v2, NEW p2,
         Mac(k, n, v, p) = Mac(k2, n2, v2, p2)
  PROVE  k = k2 /\ n = n2 /\ v = v2 /\ p = p2
BY DEF Mac

LEMMA IsSeqIntro ==
  ASSUME NEW S, NEW s \in Seq(S)
  PROVE  IsSeq(s)
<1>1. Len(s) \in Nat /\ DOMAIN s = 1..Len(s) /\ s \in [1..Len(s) -> S]
  BY LenProperties
<1>2. s \in [1..Len(s) -> Range(s)]
  BY <1>1 DEF Range
<1> QED BY <1>1, <1>2, SeqDef DEF IsSeq

LEMMA IsSeqFacts ==
  ASSUME NEW s, IsSeq(s)
  PROVE  Len(s) \in Nat /\ DOMAIN s = 1..Len(s)
BY LenProperties DEF IsSeq

LEMMA AppendFacts ==
  ASSUME NEW s, IsSeq(s), NEW e
  PROVE  /\ IsSeq(Append(s, e)) /\ Len(Append(s, e)) = Len(s) + 1
         /\ \A j \in 1..Len(s) : Append(s, e)[j] = s[j]
         /\ Append(s, e)[Len(s) + 1] = e
<1> DEFINE S == Range(s) \cup {e}
<1>1. s \in Seq(S)
  BY SeqMonotonic DEF IsSeq
<1>2. e \in S
  OBVIOUS
<1> HIDE DEF S
<1>3. /\ Append(s, e) \in Seq(S) /\ Len(Append(s, e)) = Len(s) + 1
      /\ \A j \in 1..Len(s) : Append(s, e)[j] = s[j]
      /\ Append(s, e)[Len(s) + 1] = e
  BY <1>1, <1>2
<1> QED BY <1>3, IsSeqIntro

LEMMA EmptyFacts == IsSeq(<<>>) /\ Len(<<>>) = 0
BY EmptySeq, IsSeqIntro

LEMMA SingletonFacts ==
  ASSUME NEW e
  PROVE  IsSeq(<<e>>) /\ Len(<<e>>) = 1 /\ <<e>>[1] = e
<1>1. <<e>> \in Seq({e}) /\ Len(<<e>>) = 1 /\ <<e>>[1] = e
  OBVIOUS
<1> QED BY <1>1, IsSeqIntro

\* A beginning in the sense above is a prefix in that of the library.
LEMMA BeginsIsPrefix ==
  ASSUME NEW s, NEW c, IsSeq(s), IsSeq(c), Begins(s, c)
  PROVE  IsPrefix(s, c)
<1> DEFINE S == Range(s) \cup Range(c)
           a == SubSeq(s, 1, Len(s))
           b == SubSeq(c, 1, Len(s))
<1>1. Len(s) \in Nat /\ Len(c) \in Nat /\ s \in Seq(S) /\ c \in Seq(S)
  BY IsSeqFacts, SeqMonotonic DEF IsSeq
<1>2. \A j \in 1..Len(s) : s[j] \in S /\ c[j] \in S
  BY <1>1, ElementOfSeq DEF Begins
<1> HIDE DEF S
<1>3. /\ a \in Seq(S) /\ Len(a) = Len(s) /\ \A j \in 1..Len(s) : a[j] = s[j]
      /\ b \in Seq(S) /\ Len(b) = Len(s) /\ \A j \in 1..Len(s) : b[j] = c[j]
  <2>1. 1 \in Int /\ Len(s) \in Int
    BY <1>1
  <2> QED BY <1>1, <1>2, <2>1, SubSeqProperties
<1>4. \A j \in 1..Len(a) : a[j] = b[j]
  BY <1>3 DEF Begins
<1> HIDE DEF a, b
<1>5. a = b
  BY <1>3, <1>4, SeqEqual
<1> QED BY <1>5 DEF IsPrefix, Begins, a, b

------------------------------------------------------------------------------
(***************************************************************************)
(* Steps in which the chains grow: what is issued stays issued, and the     *)
(* file, if the step leaves it alone, stays the beginning of its chain.     *)
(***************************************************************************)
ChainsGrow ==
  /\ Len(chains) <= Len(chains')
  /\ \A i \in 1..Len(chains) : Begins(chains[i], chains'[i])

LEMMA GrowthKeepsIssued ==
  ASSUME ChainsLinked, ChainsLinked', ChainsGrow, NEW e, IssuedIn(chains, e)
  PROVE  IssuedIn(chains', e)
<1>1. PICK i \in 1..Len(chains) : \E j \in 1..Len(chains[i]) : e = chains[i][j]
  BY DEF IssuedIn
<1>2. PICK j \in 1..Len(chains[i]) : e = chains[i][j]
  BY <1>1
<1>3. /\ Len(chains) \in Nat /\ Len(chains') \in Nat
      /\ i \in 1..Len(chains')
  BY IsSeqFacts DEF ChainsLinked, ChainsGrow
<1>4. Len(chains[i]) \in Nat /\ Len(chains'[i]) \in Nat
  BY <1>3, IsSeqFacts DEF ChainsLinked, WellLinked
<1>5. j \in 1..Len(chains'[i]) /\ chains'[i][j] = chains[i][j]
  BY <1>4 DEF ChainsGrow, Begins
<1> QED BY <1>2, <1>3, <1>5 DEF IssuedIn

LEMMA GrowthKeepsFile ==
  ASSUME ChainsLinked, ChainsLinked', ChainsGrow, VerifiedBegins,
         IsSeq(file), UNCHANGED file
  PROVE  VerifiedBegins'
<1> SUFFICES ASSUME NEW k \in Keys \cup {ZeroKey}, VerifyChain(k, file)
             PROVE  \E i \in 1..Len(chains') : Begins(file, chains'[i])
  BY DEF VerifiedBegins
<1>1. PICK i \in 1..Len(chains) : Begins(file, chains[i])
  BY DEF VerifiedBegins
<1>2. Len(chains) \in Nat /\ Len(chains') \in Nat /\ i \in 1..Len(chains')
  BY IsSeqFacts DEF ChainsLinked, ChainsGrow
<1>3. Len(chains[i]) \in Nat /\ Len(chains'[i]) \in Nat /\ Len(file) \in Nat
  BY <1>2, IsSeqFacts DEF ChainsLinked, WellLinked
<1>4. Begins(chains[i], chains'[i])
  BY DEF ChainsGrow
<1>5. Begins(file, chains'[i])
  BY <1>1, <1>3, <1>4 DEF Begins
<1> QED BY <1>2, <1>5

------------------------------------------------------------------------------
(***************************************************************************)
(* append(): the present chain gets one entry more.                        *)
(***************************************************************************)
LEMMA IssueFacts ==
  ASSUME TrailInvariant, Issue
  PROVE  \E v \in Contents :
           /\ nextSeq' = nextSeq + 1 /\ prevHash' = Entry(v).hash
           /\ pending' = <<Entry(v)>>
           /\ UNCHANGED <<key, file, wipedAt>>
           /\ IsSeq(chains') /\ Len(chains') = Len(chains)
           /\ chains'[Len(chains)] = Append(current, Entry(v))
           /\ \A i \in 1..Len(chains) : i # Len(chains) => chains'[i] = chains[i]
<1>1. PICK v \in Contents :
        /\ AppendEntry(v)
        /\ pending' = <<Entry(v)>>
        /\ chains' = [chains EXCEPT ![Len(chains)] = Append(@, Entry(v))]
  BY DEF Issue
<1> DEFINE n == Len(chains)
           c == Append(current, Entry(v))
           S == Range(chains) \cup {c}
<1>2. n \in Nat /\ n \in 1..n /\ chains \in Seq(S) /\ c \in S
  BY IsSeqFacts, SeqMonotonic DEF TrailInvariant, ChainsLinked, IsSeq
<1>3. chains' = [chains EXCEPT ![n] = c]
  BY <1>1 DEF current, Last
<1> HIDE DEF S, c
<1>4. /\ chains' \in Seq(S) /\ Len(chains') = n
      /\ \A i \in 1..n : chains'[i] = IF i = n THEN c ELSE chains[i]
  BY <1>2, <1>3, ExceptSeq
<1>5. IsSeq(chains') /\ chains'[n] = c /\ \A i \in 1..n : i # n => chains'[i] = chains[i]
  BY <1>2, <1>4, IsSeqIntro
<1>6. chains'[n] = Append(current, Entry(v))
  BY <1>5 DEF c
<1>7. /\ nextSeq' = nextSeq + 1 /\ prevHash' = Entry(v).hash
      /\ UNCHANGED <<key, file, wipedAt>>
  BY <1>1 DEF Issue, AppendEntry
<1> QED BY <1>1, <1>4, <1>5, <1>6, <1>7

LEMMA IssueStep == ASSUME TrailInvariant, Issue PROVE TrailInvariant'
<1> DEFINE n == Len(chains)
           c == chains[n]
           d == chains'[n]
           l == Len(c)
<1>1. PICK v \in Contents :
           /\ nextSeq' = nextSeq + 1 /\ prevHash' = Entry(v).hash
           /\ pending' = <<Entry(v)>>
           /\ UNCHANGED <<key, file, wipedAt>>
           /\ IsSeq(chains') /\ Len(chains') = Len(chains)
           /\ chains'[Len(chains)] = Append(current, Entry(v))
           /\ \A i \in 1..Len(chains) : i # Len(chains) => chains'[i] = chains[i]
  BY IssueFacts
<1> DEFINE e == Entry(v)
<1>2. n \in Nat /\ n \in 1..n /\ WellLinked(c) /\ IsSeq(c) /\ l \in Nat /\ current = c
      /\ IsSeq(chains)
  <2>1. IsSeq(chains) /\ n \in Nat /\ n \in 1..n
    BY IsSeqFacts DEF TrailInvariant, ChainsLinked
  <2>2. WellLinked(c)
    BY <2>1 DEF TrailInvariant, ChainsLinked
  <2> QED BY <2>1, <2>2, IsSeqFacts DEF WellLinked, current, Last
<1>3. /\ IsSeq(d) /\ Len(d) = l + 1 /\ \A j \in 1..l : d[j] = c[j]
      /\ d[l + 1] = e /\ current' = d
  BY <1>1, <1>2, AppendFacts DEF current, Last
<1>4. /\ e.seq = l /\ e.content = v /\ e.prev_hash = Link(d, l + 1)
      /\ e.hash = Mac(key, l, v, Link(d, l + 1)) /\ key \in Keys \cup {ZeroKey}
      /\ e = [seq |-> l, content |-> v, prev_hash |-> Link(d, l + 1),
              hash |-> Mac(key, l, v, Link(d, l + 1))]
  <2>1. Link(c, l + 1) = Link(d, l + 1)
    BY <1>2, <1>3 DEF Link
  <2>2. nextSeq = l /\ prevHash = Link(d, l + 1) /\ key \in Keys \cup {ZeroKey}
    BY <1>2, <2>1 DEF TrailInvariant, LoggerIsCurrent
  <2> QED BY <2>2 DEF Entry
<1>5. \A j \in 1..l : Link(d, j) = Link(c, j)
  BY <1>2, <1>3 DEF Link
<1> HIDE DEF c, d, e, l
<1>6. WellLinked(d)
  <2> SUFFICES ASSUME NEW j \in 1..(l + 1)
               PROVE  \E k \in Keys \cup {ZeroKey}, w \in Contents :
                        d[j] = [seq |-> j - 1, content |-> w, prev_hash |-> Link(d, j),
                                hash |-> Mac(k, j - 1, w, Link(d, j))]
    BY <1>3 DEF WellLinked
  <2>1. CASE j = l + 1
    <3>1. j - 1 = l
      BY <1>2, <2>1
    <3> QED BY <1>3, <1>4, <2>1, <3>1
  <2>2. CASE j \in 1..l
    <3>1. PICK k \in Keys \cup {ZeroKey}, w \in Contents :
            c[j] = [seq |-> j - 1, content |-> w, prev_hash |-> Link(c, j),
                    hash |-> Mac(k, j - 1, w, Link(c, j))]
      BY <1>2, <2>2 DEF WellLinked, l
    <3>2. Link(d, j) = Link(c, j) /\ d[j] = c[j]
      BY <1>3, <1>5, <2>2
    <3> QED BY <3>1, <3>2
  <2>3. j = l + 1 \/ j \in 1..l
    BY <1>2
  <2> QED BY <2>1, <2>2, <2>3
<1>7. ChainsLinked'
  <2>1. ASSUME NEW i \in 1..n PROVE WellLinked(chains'[i])
    <3>1. CASE i = n
      BY <1>6, <3>1 DEF d
    <3>2. CASE i # n
      BY <1>1, <3>2 DEF TrailInvariant, ChainsLinked
    <3> QED BY <3>1, <3>2
  <2> QED BY <1>1, <2>1 DEF TrailInvariant, ChainsLinked
<1>8. ChainsGrow
  <2>1. ASSUME NEW i \in 1..n PROVE Begins(chains[i], chains'[i])
    <3>1. CASE i = n
      <4>1. Begins(c, d)
        BY <1>2, <1>3 DEF Begins, l
      <4> QED BY <3>1, <4>1 DEF c, d
    <3>2. CASE i # n
      <4>1. chains'[i] = chains[i] /\ Len(chains[i]) \in Nat
        BY <1>1, <3>2, IsSeqFacts DEF TrailInvariant, ChainsLinked, WellLinked
      <4> QED BY <4>1 DEF Begins
    <3> QED BY <3>1, <3>2
  <2> QED BY <1>1, <1>2, <2>1 DEF ChainsGrow
<1>9. LoggerIsCurrent'
  <2>1. Link(d, l + 2) = e.hash
    BY <1>2, <1>3 DEF Link
  <2> QED BY <1>1, <1>2, <1>3, <1>4, <2>1 DEF TrailInvariant, LoggerIsCurrent, e, l
\* Two chains that share the hash at m share their entries up to m; one of the two
\* may be the chain that was appended to.
<1>10. HashFixesPrefix'
  <2>1. ASSUME NEW i \in 1..n, i # n, l + 1 <= Len(chains[i]),
               chains[i][l + 1].hash = e.hash
        PROVE  \A j \in 1..(l + 1) : chains[i][j] = d[j]
    <3>1. Len(chains[i]) \in Nat /\ l + 1 \in 1..Len(chains[i])
      BY <1>2, <2>1, IsSeqFacts DEF TrailInvariant, ChainsLinked, WellLinked
    <3>2. PICK k \in Keys \cup {ZeroKey}, w \in Contents :
            chains[i][l + 1] =
              [seq |-> (l + 1) - 1, content |-> w, prev_hash |-> Link(chains[i], l + 1),
               hash |-> Mac(k, (l + 1) - 1, w, Link(chains[i], l + 1))]
      BY <3>1 DEF TrailInvariant, ChainsLinked, WellLinked
    <3>3. (l + 1) - 1 = l
      BY <1>2
    <3>4. Mac(k, l, w, Link(chains[i], l + 1)) = Mac(key, l, v, Link(d, l + 1))
      BY <1>4, <2>1, <3>2, <3>3
    <3>5. k = key /\ w = v /\ Link(chains[i], l + 1) = Link(d, l + 1)
      BY <3>4, MacInjective
    <3>6. chains[i][l + 1] = d[l + 1]
      BY <1>3, <1>4, <3>2, <3>3, <3>5
    <3>7. ASSUME NEW j \in 1..l PROVE chains[i][j] = d[j]
      <4>1. l # 0 /\ l \in 1..Len(chains[i]) /\ l \in 1..l
        BY <1>2, <3>1
      <4>2. chains[i][l].hash = c[l].hash
        <5>1. Link(chains[i], l + 1) = chains[i][l].hash /\ Link(d, l + 1) = d[l].hash
          BY <1>2, <4>1 DEF Link
        <5> QED BY <1>3, <3>5, <4>1, <5>1
      <4>3. chains[i][j] = c[j]
        <5>1. l <= Len(chains[n]) /\ chains[i][l].hash = chains[n][l].hash
          BY <1>2, <4>2 DEF c, l
        <5> QED BY <1>2, <4>1, <5>1 DEF TrailInvariant, HashFixesPrefix, c
      <4> QED BY <1>3, <4>3
    <3> QED BY <1>2, <3>6, <3>7
  <2>2. ASSUME NEW i \in 1..n, NEW m \in 1..n, NEW x \in 1..Len(chains'[i]),
               x <= Len(chains'[m]), chains'[i][x].hash = chains'[m][x].hash,
               NEW j \in 1..x
        PROVE  chains'[i][j] = chains'[m][j]
    <3>0. Len(chains'[i]) \in Nat /\ Len(chains'[m]) \in Nat /\ x \in Nat /\ Len(c) = l
      BY <1>1, <1>7, IsSeqFacts DEF ChainsLinked, WellLinked, l
    <3>1. CASE i # n /\ m # n
      <4>1. chains'[i] = chains[i] /\ chains'[m] = chains[m]
        BY <1>1, <3>1
      <4> QED BY <2>2, <4>1 DEF TrailInvariant, HashFixesPrefix
    <3>2. CASE i = n /\ m = n
      BY <3>2
    <3>3. CASE i # n /\ m = n
      <4>1. chains'[i] = chains[i] /\ chains'[m] = d
        BY <1>1, <3>3 DEF d
      <4>2. CASE x = l + 1
        BY <1>3, <2>1, <2>2, <3>3, <4>1, <4>2
      <4>3. CASE x <= l
        <5>1. x \in 1..l /\ j \in 1..l
          BY <1>2, <3>0, <4>3
        <5>2. d[x] = c[x] /\ d[j] = c[j]
          BY <1>3, <5>1
        <5>3. x <= Len(chains[n]) /\ chains[i][x].hash = chains[n][x].hash
          BY <2>2, <4>1, <4>3, <5>2 DEF c, l
        <5>4. chains[i][j] = chains[n][j]
          BY <1>2, <2>2, <4>1, <5>3 DEF TrailInvariant, HashFixesPrefix
        <5> QED BY <4>1, <5>2, <5>4 DEF c
      <4> QED BY <1>2, <1>3, <2>2, <3>0, <4>1, <4>2, <4>3
    <3>4. CASE i = n /\ m # n
      <4>1. chains'[i] = d /\ chains'[m] = chains[m]
        BY <1>1, <3>4 DEF d
      <4>2. CASE x = l + 1
        BY <1>3, <2>1, <2>2, <3>4, <4>1, <4>2
      <4>3. CASE x <= l
        <5>1. x \in 1..l /\ j \in 1..l
          BY <1>2, <3>0, <4>3
        <5>2. d[x] = c[x] /\ d[j] = c[j]
          BY <1>3, <5>1
        <5>3. x \in 1..Len(chains[m]) /\ x <= Len(chains[n])
              /\ chains[m][x].hash = chains[n][x].hash
          BY <2>2, <3>0, <4>1, <4>3, <5>2 DEF c, l
        <5>4. chains[m][j] = chains[n][j]
          BY <1>2, <2>2, <5>3 DEF TrailInvariant, HashFixesPrefix
        <5> QED BY <4>1, <5>2, <5>4 DEF c
      <4> QED BY <1>2, <1>3, <2>2, <3>0, <4>1, <4>2, <4>3
    <3> QED BY <3>1, <3>2, <3>3, <3>4
  <2> QED BY <1>1, <2>2 DEF HashFixesPrefix
<1>11. FileIsIssued'
  <2>1. IsSeq(pending') /\ Len(pending') = 1 /\ pending'[1] = e
    <3>1. pending' = <<e>>
      BY <1>1 DEF e
    <3> QED BY <3>1, SingletonFacts
  <2>2. IssuedIn(chains', e)
    <3>1. l + 1 \in 1..Len(d) /\ e = d[l + 1]
      BY <1>2, <1>3
    <3> QED BY <1>1, <1>2, <3>1 DEF IssuedIn, d
  <2>3. \A i \in 1..Len(file) : IssuedIn(chains', file[i])
    BY <1>7, <1>8, GrowthKeepsIssued DEF TrailInvariant, FileIsIssued
  <2>4. UNCHANGED file
    BY <1>1
  <2>5. \A i \in 1..Len(file') : IssuedIn(chains', file'[i])
    BY <2>3, <2>4 DEF IssuedIn
  <2>6. \A i \in 1..Len(pending') : IssuedIn(chains', pending'[i])
    BY <2>1, <2>2 DEF IssuedIn
  <2> QED BY <2>1, <2>4, <2>5, <2>6 DEF TrailInvariant, FileIsIssued
<1>12. VerifiedBegins'
  BY <1>1, <1>7, <1>8, GrowthKeepsFile DEF TrailInvariant, FileIsIssued
<1>13. KeyHistory'
  <2>1. \A k : \A a, b \in Int : 1 <= a /\ b <= l /\ Signed(c, a, b, k) => Signed(d, a, b, k)
    BY <1>2, <1>3 DEF Signed
  <2>2. e.hash = Mac(key, e.seq, e.content, e.prev_hash)
    BY <1>4
  <2>3. CASE wipedAt = NotWiped
    <3>1. key \in Keys /\ Signed(c, 1, l, key)
      BY <1>2, <2>3 DEF TrailInvariant, KeyHistory, c, l
    <3>2. Signed(d, 1, l + 1, key)
      BY <1>2, <1>3, <2>2, <3>1 DEF Signed
    <3> QED BY <1>1, <1>3, <2>3, <3>1, <3>2 DEF KeyHistory
  <2>4. CASE wipedAt # NotWiped
    <3>1. /\ key = ZeroKey /\ wipedAt \in 0..l
          /\ \E k \in Keys : Signed(c, 1, wipedAt, k)
          /\ Signed(c, wipedAt + 1, l, ZeroKey)
      BY <1>2, <2>4 DEF TrailInvariant, KeyHistory, c, l
    <3>2. wipedAt \in 0..(l + 1) /\ \E k \in Keys : Signed(d, 1, wipedAt, k)
      BY <1>2, <2>1, <3>1
    <3>3. Signed(d, wipedAt + 1, l + 1, ZeroKey)
      BY <1>2, <1>3, <2>2, <3>1 DEF Signed
    <3> QED BY <1>1, <1>3, <2>4, <3>1, <3>2, <3>3 DEF KeyHistory
  <2> QED BY <2>3, <2>4
<1> QED BY <1>7, <1>9, <1>10, <1>11, <1>12, <1>13 DEF TrailInvariant

------------------------------------------------------------------------------
(***************************************************************************)
(* The loop writes the entry, or drops it.                                 *)
(***************************************************************************)

\* An entry that an accepted file may be continued with comes from a chain that
\* agrees with the whole file.
LEMMA WrittenBegins ==
  ASSUME TrailInvariant, NEW p, IssuedIn(chains, p),
         NEW k \in Keys \cup {ZeroKey}, NEW g, IsSeq(g), Len(g) = Len(file) + 1,
         \A j \in 1..Len(file) : g[j] = file[j], g[Len(file) + 1] = p,
         VerifyChain(k, g)
  PROVE  \E i \in 1..Len(chains) : Begins(g, chains[i])
<1> DEFINE n == Len(file)
<1>1. n \in Nat
  BY IsSeqFacts DEF TrailInvariant, FileIsIssued
<1>2. PICK m \in 1..Len(chains) : \E j \in 1..Len(chains[m]) : p = chains[m][j]
  BY DEF IssuedIn
<1>3. PICK j \in 1..Len(chains[m]) : p = chains[m][j]
  BY <1>2
<1> DEFINE c == chains[m]
<1>4. WellLinked(c) /\ Len(c) \in Nat
  BY IsSeqFacts DEF TrailInvariant, ChainsLinked, WellLinked
<1>5. p.seq = j - 1 /\ p.prev_hash = Link(c, j)
  <2>1. \E k2 \in Keys \cup {ZeroKey}, v \in Contents :
          c[j] = [seq |-> j - 1, content |-> v, prev_hash |-> Link(c, j),
                  hash |-> Mac(k2, j - 1, v, Link(c, j))]
    BY <1>3, <1>4 DEF WellLinked
  <2> QED BY <1>3, <2>1
<1>6. /\ p.seq = (n + 1) - 1
      /\ p.prev_hash = IF n + 1 = 1 THEN GENESIS_HASH ELSE g[(n + 1) - 1].hash
  <2>1. n + 1 \in 1..Len(g)
    BY <1>1
  <2> QED BY <2>1 DEF VerifyChain
<1>7. j = n + 1 /\ n + 1 <= Len(c)
  BY <1>1, <1>4, <1>5, <1>6
<1>8. \A x \in 1..n : g[x] = c[x]
  <2>1. CASE n = 0
    BY <2>1
  <2>2. CASE n # 0
    <3>1. VerifyChain(k, file)
      <4> SUFFICES ASSUME NEW x \in 1..n
                   PROVE  LET e == file[x]
                              prev == IF x = 1 THEN GENESIS_HASH ELSE file[x - 1].hash
                          IN /\ e.seq = x - 1
                             /\ e.prev_hash = prev
                             /\ e.hash = Mac(k, e.seq, e.content, e.prev_hash)
        BY DEF VerifyChain
      <4>1. x \in 1..Len(g) /\ g[x] = file[x] /\ (x # 1 => g[x - 1] = file[x - 1])
        BY <1>1
      <4> QED BY <4>1 DEF VerifyChain
    <3>2. PICK i \in 1..Len(chains) : Begins(file, chains[i])
      BY <3>1 DEF TrailInvariant, VerifiedBegins
    <3>3. Len(chains[i]) \in Nat
      BY IsSeqFacts DEF TrailInvariant, ChainsLinked, WellLinked
    <3>4. n \in 1..n /\ n \in 1..Len(chains[i]) /\ n <= Len(chains[m])
      BY <1>1, <1>4, <1>7, <2>2, <3>2, <3>3 DEF Begins
    <3>5. chains[i][n].hash = chains[m][n].hash
      <4>1. p.prev_hash = chains[m][n].hash
        BY <1>1, <1>5, <1>7, <2>2 DEF Link
      <4>2. p.prev_hash = file[n].hash
        BY <1>1, <1>6, <2>2
      <4> QED BY <3>2, <3>4, <4>1, <4>2 DEF Begins
    <3>6. \A x \in 1..n : chains[i][x] = chains[m][x]
      BY <3>4, <3>5 DEF TrailInvariant, HashFixesPrefix
    <3> QED BY <3>2, <3>6 DEF Begins
  <2> QED BY <2>1, <2>2
<1>9. Begins(g, c)
  <2>1. g[n + 1] = c[n + 1]
    BY <1>3, <1>7
  <2> QED BY <1>1, <1>7, <1>8, <2>1 DEF Begins
<1> QED BY <1>9

LEMMA WriteStep == ASSUME TrailInvariant, Write PROVE TrailInvariant'
<1> DEFINE n == Len(file)
           p == pending[1]
           g == file \o pending
<1>1. /\ pending # <<>> /\ file' = g /\ pending' = <<>>
      /\ UNCHANGED <<key, nextSeq, prevHash, chains, wipedAt>>
  BY DEF Write, logger
<1>2. n \in Nat /\ Len(pending) = 1
  <2>1. n \in Nat /\ Len(pending) \in Nat
    BY IsSeqFacts DEF TrailInvariant, FileIsIssued
  <2>2. Len(pending) # 0
    <3>1. pending \in Seq(Range(pending))
      BY DEF TrailInvariant, FileIsIssued, IsSeq
    <3> QED BY <1>1, <3>1, EmptySeq
  <2>3. Len(pending) <= 1
    BY DEF TrailInvariant, FileIsIssued
  <2>4. \A x \in Nat : x # 0 /\ x <= 1 => x = 1
    OBVIOUS
  <2> QED BY <2>1, <2>2, <2>3, <2>4
<1>3. /\ IsSeq(g) /\ Len(g) = n + 1 /\ g[n + 1] = p
      /\ \A j \in 1..n : g[j] = file[j]
  <2> DEFINE S == Range(file) \cup Range(pending)
  <2>1. file \in Seq(S) /\ pending \in Seq(S)
    BY SeqMonotonic DEF TrailInvariant, FileIsIssued, IsSeq
  <2> HIDE DEF S
  <2>2. /\ g \in Seq(S) /\ Len(g) = n + Len(pending)
        /\ \A j \in 1..n + Len(pending) :
             g[j] = IF j <= n THEN file[j] ELSE pending[j - n]
    BY <2>1, ConcatProperties
  <2> HIDE DEF g
  <2> QED BY <1>2, <2>2, IsSeqIntro
<1>4. IssuedIn(chains, p)
  BY <1>2 DEF TrailInvariant, FileIsIssued
<1> HIDE DEF g, p
<1>5. VerifiedBegins'
  <2> SUFFICES ASSUME NEW k \in Keys \cup {ZeroKey}, VerifyChain(k, g)
               PROVE  \E i \in 1..Len(chains) : Begins(g, chains[i])
    BY <1>1 DEF VerifiedBegins
  <2> QED BY <1>3, <1>4, WrittenBegins
<1>6. FileIsIssued'
  <2>1. ASSUME NEW i \in 1..(n + 1) PROVE IssuedIn(chains, g[i])
    <3>1. CASE i \in 1..n
      BY <1>3, <3>1 DEF TrailInvariant, FileIsIssued
    <3>2. CASE i = n + 1
      BY <1>3, <1>4, <3>2
    <3> QED BY <1>2, <3>1, <3>2
  <2> QED BY <1>1, <1>3, <2>1, EmptyFacts DEF FileIsIssued
<1> QED BY <1>1, <1>5, <1>6
       DEF TrailInvariant, ChainsLinked, LoggerIsCurrent, HashFixesPrefix, KeyHistory,
           current, Last

LEMMA DropStep == ASSUME TrailInvariant, Drop PROVE TrailInvariant'
<1>1. pending' = <<>> /\ UNCHANGED <<key, nextSeq, prevHash, file, chains, wipedAt>>
  BY DEF Drop, logger
<1>2. FileIsIssued'
  BY <1>1, EmptyFacts DEF TrailInvariant, FileIsIssued
<1> QED BY <1>1, <1>2
       DEF TrailInvariant, ChainsLinked, LoggerIsCurrent, HashFixesPrefix, VerifiedBegins,
           KeyHistory, current, Last

------------------------------------------------------------------------------
(***************************************************************************)
(* A wipe, and a new chain.                                                *)
(***************************************************************************)
LEMMA WipeStep == ASSUME TrailInvariant, Wipe PROVE TrailInvariant'
<1>1. /\ key' = ZeroKey /\ UNCHANGED <<nextSeq, prevHash, pending, file, chains>>
      /\ wipedAt' = IF wipedAt = NotWiped THEN Len(current) ELSE wipedAt
  BY DEF Wipe, WipeSecret
<1>2. Len(current) \in Nat /\ current' = current
  <2>1. Len(chains) \in 1..Len(chains)
    BY IsSeqFacts DEF TrailInvariant, ChainsLinked
  <2> QED BY <1>1, <2>1, IsSeqFacts DEF TrailInvariant, ChainsLinked, WellLinked, current, Last
<1>3. KeyHistory'
  <2>1. CASE wipedAt = NotWiped
    <3>1. key \in Keys /\ Signed(current, 1, Len(current), key)
      BY <2>1 DEF TrailInvariant, KeyHistory
    <3>2. Signed(current, Len(current) + 1, Len(current), ZeroKey)
      BY <1>2 DEF Signed
    <3>3. Len(current) # NotWiped
      BY <1>2 DEF NotWiped
    <3> QED BY <1>1, <1>2, <2>1, <3>1, <3>2, <3>3 DEF KeyHistory
  <2>2. CASE wipedAt # NotWiped
    BY <1>1, <1>2, <2>2 DEF TrailInvariant, KeyHistory
  <2> QED BY <2>1, <2>2
<1>4. LoggerIsCurrent'
  BY <1>1, <1>2 DEF TrailInvariant, LoggerIsCurrent
<1> QED BY <1>1, <1>3, <1>4
       DEF TrailInvariant, ChainsLinked, HashFixesPrefix, VerifiedBegins, FileIsIssued

\* A new logger: an empty chain under a configured key.
LEMMA NewChainStep ==
  ASSUME TrailInvariant, NewChain, NEW k \in Keys, StartLogger(k), UNCHANGED file,
         pending' = pending \/ pending' = <<>>
  PROVE  TrailInvariant'
<1> DEFINE n == Len(chains)
<1>1. /\ chains' = Append(chains, <<>>) /\ wipedAt' = NotWiped
      /\ key' = k /\ nextSeq' = 0 /\ prevHash' = GENESIS_HASH
  BY DEF NewChain, StartLogger
<1>2. n \in Nat /\ n >= 1 /\ IsSeq(chains)
  BY IsSeqFacts DEF TrailInvariant, ChainsLinked
<1>3. /\ IsSeq(chains') /\ Len(chains') = n + 1 /\ chains'[n + 1] = <<>>
      /\ \A i \in 1..n : chains'[i] = chains[i]
  BY <1>1, <1>2, AppendFacts
<1>4. \A i \in 1..(n + 1) : i \in 1..n \/ i = n + 1
  BY <1>2
<1>5. current' = <<>> /\ Len(<<>>) = 0
  BY <1>3, EmptyFacts DEF current, Last
<1>6. ChainsLinked'
  <2>1. WellLinked(<<>>)
    BY EmptyFacts DEF WellLinked
  <2>2. ASSUME NEW i \in 1..(n + 1) PROVE WellLinked(chains'[i])
    <3>1. CASE i \in 1..n
      BY <1>3, <3>1 DEF TrailInvariant, ChainsLinked
    <3>2. CASE i = n + 1
      BY <1>3, <2>1, <3>2
    <3> QED BY <1>4, <3>1, <3>2
  <2> QED BY <1>2, <1>3, <2>2 DEF ChainsLinked
<1>7. ChainsGrow
  <2>1. ASSUME NEW i \in 1..n PROVE Begins(chains[i], chains'[i])
    <3>1. Len(chains[i]) \in Nat /\ chains'[i] = chains[i]
      BY <1>3, IsSeqFacts DEF TrailInvariant, ChainsLinked, WellLinked
    <3> QED BY <3>1 DEF Begins
  <2> QED BY <1>2, <1>3, <2>1 DEF ChainsGrow
<1>8. LoggerIsCurrent'
  BY <1>1, <1>5 DEF LoggerIsCurrent, Link
<1>9. HashFixesPrefix'
  <2> SUFFICES ASSUME NEW i \in 1..(n + 1), NEW m \in 1..(n + 1),
                      NEW x \in 1..Len(chains'[i]), x <= Len(chains'[m]),
                      chains'[i][x].hash = chains'[m][x].hash
               PROVE  \A j \in 1..x : chains'[i][j] = chains'[m][j]
    BY <1>3 DEF HashFixesPrefix
  <2>1. i # n + 1 /\ m # n + 1
    BY <1>3, <1>5
  <2>2. i \in 1..n /\ m \in 1..n
    BY <1>4, <2>1
  <2>3. chains'[i] = chains[i] /\ chains'[m] = chains[m]
    BY <1>3, <2>2
  <2> QED BY <2>2, <2>3 DEF TrailInvariant, HashFixesPrefix
<1>10. FileIsIssued'
  <2>1. \A e : IssuedIn(chains, e) => IssuedIn(chains', e)
    BY <1>6, <1>7, GrowthKeepsIssued DEF TrailInvariant
  <2>2. \A i \in 1..Len(file) : IssuedIn(chains', file[i])
    BY <2>1 DEF TrailInvariant, FileIsIssued
  <2>3. CASE pending' = pending
    <3>1. \A i \in 1..Len(pending) : IssuedIn(chains', pending[i])
      BY <2>1 DEF TrailInvariant, FileIsIssued
    <3> QED BY <2>2, <2>3, <3>1 DEF TrailInvariant, FileIsIssued
  <2>4. CASE pending' = <<>>
    BY <2>2, <2>4, EmptyFacts DEF TrailInvariant, FileIsIssued
  <2> QED BY <2>3, <2>4
<1>11. VerifiedBegins'
  BY <1>6, <1>7, GrowthKeepsFile DEF TrailInvariant, FileIsIssued
<1>12. KeyHistory'
  BY <1>1, <1>5 DEF KeyHistory, Signed
<1> QED BY <1>6, <1>8, <1>9, <1>10, <1>11, <1>12 DEF TrailInvariant

LEMMA RotateStep == ASSUME TrailInvariant, Rotate PROVE TrailInvariant'
<1>1. PICK k \in Keys : RotateSecret(Production, k)
  BY DEF Rotate
<1>2. NewChain /\ StartLogger(k) /\ UNCHANGED <<pending, file>>
  BY <1>1 DEF Rotate, RotateSecret
<1> QED BY <1>2, NewChainStep

LEMMA RestartStep == ASSUME TrailInvariant, RestartProcess PROVE TrailInvariant'
<1>1. PICK k \in Keys : StartLogger(k)
  BY DEF RestartProcess
<1>2. NewChain /\ pending' = <<>> /\ UNCHANGED file
  BY DEF RestartProcess
<1> QED BY <1>1, <1>2, NewChainStep

------------------------------------------------------------------------------
LEMMA TrailStart == ASSUME TrailInit PROVE TrailInvariant
<1>1. /\ chains = << <<>> >> /\ file = <<>> /\ pending = <<>> /\ wipedAt = NotWiped
      /\ key \in Keys /\ nextSeq = 0 /\ prevHash = GENESIS_HASH
  BY DEF TrailInit
<1>2. IsSeq(chains) /\ Len(chains) = 1 /\ chains[1] = <<>>
  BY <1>1, SingletonFacts
<1>3. current = <<>> /\ Len(<<>>) = 0 /\ IsSeq(<<>>)
  BY <1>2, EmptyFacts DEF current, Last
<1>4. ChainsLinked
  <2>1. WellLinked(<<>>)
    BY <1>3 DEF WellLinked
  <2> QED BY <1>2, <2>1 DEF ChainsLinked
<1>5. LoggerIsCurrent
  BY <1>1, <1>3 DEF LoggerIsCurrent, Link
<1>6. HashFixesPrefix
  BY <1>2, <1>3 DEF HashFixesPrefix
<1>7. FileIsIssued
  BY <1>1, <1>3 DEF FileIsIssued
<1>8. VerifiedBegins
  <2>1. Begins(file, chains[1])
    BY <1>1, <1>2, <1>3 DEF Begins
  <2> QED BY <1>2, <2>1 DEF VerifiedBegins
<1>9. KeyHistory
  BY <1>1, <1>3 DEF KeyHistory, Signed
<1> QED BY <1>4, <1>5, <1>6, <1>7, <1>8, <1>9 DEF TrailInvariant

LEMMA TrailStep == TrailInvariant /\ [TrailNext]_trailVars => TrailInvariant'
<1> SUFFICES ASSUME TrailInvariant, [TrailNext]_trailVars PROVE TrailInvariant'
  OBVIOUS
<1>1. CASE Issue
  BY <1>1, IssueStep
<1>2. CASE Write
  BY <1>2, WriteStep
<1>3. CASE Drop
  BY <1>3, DropStep
<1>4. CASE Wipe
  BY <1>4, WipeStep
<1>5. CASE Rotate
  BY <1>5, RotateStep
<1>6. CASE RestartProcess
  BY <1>6, RestartStep
<1>7. CASE UNCHANGED trailVars
  <2>1. UNCHANGED <<key, nextSeq, prevHash, pending, file, chains, wipedAt>>
    BY <1>7 DEF trailVars, logger
  <2> QED BY <2>1
         DEF TrailInvariant, ChainsLinked, LoggerIsCurrent, HashFixesPrefix, FileIsIssued,
             VerifiedBegins, KeyHistory, current, Last
<1> QED BY <1>1, <1>2, <1>3, <1>4, <1>5, <1>6, <1>7 DEF TrailNext

LEMMA TrailSafe == TrailSpec => []TrailInvariant
<1>1. TrailInit => TrailInvariant
  BY TrailStart
<1> QED BY <1>1, TrailStep, PTL DEF TrailSpec

\* The present chain, whose entries carry what the logger put there.
LEMMA CurrentFacts ==
  ASSUME TrailInvariant
  PROVE  /\ IsSeq(current) /\ Len(current) \in Nat
         /\ \A j \in 1..Len(current) :
              current[j].seq = j - 1 /\ current[j].prev_hash = Link(current, j)
<1>1. WellLinked(current)
  <2>1. Len(chains) \in 1..Len(chains)
    BY IsSeqFacts DEF TrailInvariant, ChainsLinked
  <2> QED BY <2>1 DEF TrailInvariant, ChainsLinked, current, Last
<1>2. ASSUME NEW j \in 1..Len(current)
      PROVE  current[j].seq = j - 1 /\ current[j].prev_hash = Link(current, j)
  <2>1. \E k \in Keys \cup {ZeroKey}, v \in Contents :
          current[j] = [seq |-> j - 1, content |-> v, prev_hash |-> Link(current, j),
                        hash |-> Mac(k, j - 1, v, Link(current, j))]
    BY <1>1 DEF WellLinked
  <2> QED BY <2>1
<1> QED BY <1>1, <1>2, IsSeqFacts DEF WellLinked

\* What one key signed from its beginning verifies under it.
LEMMA SignedVerifies ==
  ASSUME TrailInvariant, NEW k, NEW n \in 0..Len(current), NEW s,
         Len(s) = n, \A j \in 1..n : s[j] = current[j], Signed(current, 1, n, k)
  PROVE  VerifyChain(k, s)
<1> SUFFICES ASSUME NEW j \in 1..n
             PROVE  LET e == s[j]
                        prev == IF j = 1 THEN GENESIS_HASH ELSE s[j - 1].hash
                    IN /\ e.seq = j - 1
                       /\ e.prev_hash = prev
                       /\ e.hash = Mac(k, e.seq, e.content, e.prev_hash)
  BY DEF VerifyChain
<1>1. Len(current) \in Nat /\ j \in 1..Len(current) /\ s[j] = current[j]
      /\ (j # 1 => s[j - 1] = current[j - 1])
  BY CurrentFacts
<1>2. current[j].seq = j - 1 /\ current[j].prev_hash = Link(current, j)
  BY <1>1, CurrentFacts
<1> QED BY <1>1, <1>2 DEF Signed, Link

------------------------------------------------------------------------------
(***************************************************************************)
(* Types: what was issued bounds the numbers of the present chain.         *)
(***************************************************************************)
IssuedBounded ==
  /\ issued \in 0..MaxIssued /\ nextSeq \in 0..issued
  /\ Len(chains) \in 1..MaxChains

LEMMA BoundedStep ==
  ASSUME TrailInvariant, IssuedBounded, [TrailNext]_trailVars
  PROVE  IssuedBounded'
<1> USE TrailBounds DEF IssuedBounded
<1>1. CASE Issue
  <2>1. issued < MaxIssued /\ issued' = issued + 1 /\ nextSeq' = nextSeq + 1
    BY <1>1, IssueFacts DEF Issue
  <2>2. Len(chains') = Len(chains)
    BY <1>1, IssueFacts
  <2> QED BY <2>1, <2>2
<1>2. CASE Write \/ Drop \/ UNCHANGED trailVars
  BY <1>2 DEF Write, Drop, trailVars, logger
<1>3. CASE Wipe
  BY <1>3 DEF Wipe, WipeSecret
<1>4. CASE Rotate \/ RestartProcess
  <2>1. NewChain /\ nextSeq' = 0
    BY <1>4 DEF Rotate, RestartProcess, RotateSecret, StartLogger
  <2>2. IsSeq(chains) /\ Len(chains) \in Nat
    BY IsSeqFacts DEF TrailInvariant, ChainsLinked
  <2>3. Len(chains') = Len(chains) + 1 /\ Len(chains) < MaxChains /\ issued' = issued
    BY <2>1, <2>2, AppendFacts DEF NewChain
  <2> QED BY <2>1, <2>2, <2>3
<1> QED BY <1>1, <1>2, <1>3, <1>4 DEF TrailNext

LEMMA BoundedStart == ASSUME TrailInit PROVE IssuedBounded
<1>1. chains = << <<>> >> /\ Len(chains) = 1
  BY SingletonFacts DEF TrailInit
<1> QED BY <1>1, TrailBounds DEF TrailInit, IssuedBounded

\* What is in the file, or about to be, was issued in one of the chains.
LEMMA FileInChains ==
  ASSUME TrailInvariant
  PROVE  Range(file \o pending) \subseteq UNION {Range(c) : c \in Range(chains)}
<1> DEFINE g == file \o pending
           n == Len(file)
           S == Range(file) \cup Range(pending)
<1>1. file \in Seq(S) /\ pending \in Seq(S) /\ n \in Nat /\ Len(pending) \in Nat
  BY SeqMonotonic, IsSeqFacts DEF TrailInvariant, FileIsIssued, IsSeq
<1> HIDE DEF S
<1>2. /\ g \in Seq(S) /\ Len(g) = n + Len(pending)
      /\ \A j \in 1..n + Len(pending) :
           g[j] = IF j <= n THEN file[j] ELSE pending[j - n]
  BY <1>1, ConcatProperties
<1>3. DOMAIN g = 1..n + Len(pending)
  BY <1>2, LenProperties
<1> HIDE DEF g
<1>4. ASSUME NEW j \in 1..n + Len(pending) PROVE IssuedIn(chains, g[j])
  <2>1. CASE j <= n
    BY <1>1, <1>2, <2>1 DEF TrailInvariant, FileIsIssued
  <2>2. CASE ~(j <= n)
    <3>1. j - n \in 1..Len(pending) /\ g[j] = pending[j - n]
      BY <1>1, <1>2, <2>2
    <3> QED BY <3>1 DEF TrailInvariant, FileIsIssued
  <2> QED BY <2>1, <2>2
<1>5. ASSUME NEW e, IssuedIn(chains, e)
      PROVE  e \in UNION {Range(c) : c \in Range(chains)}
  <2>1. PICK i \in 1..Len(chains) : \E j \in 1..Len(chains[i]) : e = chains[i][j]
    BY <1>5 DEF IssuedIn
  <2>2. chains[i] \in Range(chains) /\ DOMAIN chains[i] = 1..Len(chains[i])
    BY IsSeqFacts DEF TrailInvariant, ChainsLinked, WellLinked, Range
  <2>3. e \in Range(chains[i])
    BY <2>1, <2>2 DEF Range
  <2> QED BY <2>2, <2>3
<1> QED BY <1>3, <1>4, <1>5 DEF Range, g

(***************************************************************************)
(* TrailTypeOK, for any keys, contents and bounds: the numbers of a chain    *)
(* are those of its entries, and nothing gets into the file but what a       *)
(* logger issued.                                                          *)
(***************************************************************************)
THEOREM TrailTypes == TrailSpec => []TrailTypeOK
<1>1. TrailInvariant /\ IssuedBounded => TrailTypeOK
  <2> SUFFICES ASSUME TrailInvariant, IssuedBounded PROVE TrailTypeOK
    OBVIOUS
  <2>1. wipedAt \in {NotWiped} \cup 0..nextSeq /\ key \in Keys \cup {ZeroKey}
    BY DEF TrailInvariant, LoggerIsCurrent, KeyHistory
  <2>2. Len(pending) <= 1
    BY DEF TrailInvariant, FileIsIssued
  <2> QED BY <2>1, <2>2, FileInChains DEF TrailTypeOK, IssuedBounded
<1>2. TrailInit => IssuedBounded
  BY BoundedStart
<1>3. TrailInvariant /\ IssuedBounded /\ [TrailNext]_trailVars => IssuedBounded'
  BY BoundedStep
<1> QED BY <1>1, <1>2, <1>3, TrailSafe, PTL DEF TrailSpec

------------------------------------------------------------------------------
\* A file that verify_chain accepts, under any key, is the beginning of one chain
\* that one logger issued: nothing is missing, moved or taken over.
THEOREM VerifiedIsComplete == TrailSpec => []VerifiedMeansComplete
<1>1. TrailInvariant => VerifiedMeansComplete
  <2> SUFFICES ASSUME TrailInvariant, NEW k \in Keys \cup {ZeroKey}, VerifyChain(k, file)
               PROVE  \E i \in 1..Len(chains) : IsPrefix(file, chains[i])
    BY DEF VerifiedMeansComplete
  <2>1. PICK i \in 1..Len(chains) : Begins(file, chains[i])
    BY DEF TrailInvariant, VerifiedBegins
  <2>2. IsSeq(file) /\ IsSeq(chains[i])
    BY DEF TrailInvariant, FileIsIssued, ChainsLinked, WellLinked
  <2> QED BY <2>1, <2>2, BeginsIsPrefix
<1> QED BY <1>1, TrailSafe, PTL

\* Whatever rotations and restarts came before, an issued chain verifies under
\* the logger's own key until wipe_secret.
THEOREM IssuedVerifies == TrailSpec => []IssuedChainVerifies
<1>1. TrailInvariant => IssuedChainVerifies
  <2> SUFFICES ASSUME TrailInvariant, wipedAt = NotWiped PROVE VerifyChain(key, current)
    BY DEF IssuedChainVerifies
  <2>1. Signed(current, 1, Len(current), key)
    BY DEF TrailInvariant, KeyHistory
  <2>2. Len(current) \in 0..Len(current)
    BY CurrentFacts
  <2> QED BY <2>1, <2>2, SignedVerifies
<1> QED BY <1>1, TrailSafe, PTL

\* wipe_secret cuts the chain: the part before it verifies under the operator's
\* key, the whole under none.
THEOREM WipeCuts == TrailSpec => []WipeCutsTheChain
<1>1. TrailInvariant => WipeCutsTheChain
  <2> SUFFICES ASSUME TrailInvariant, wipedAt # NotWiped
               PROVE  /\ \E k \in Keys : VerifyChain(k, SubSeq(current, 1, wipedAt))
                      /\ wipedAt \in 1..(Len(current) - 1) =>
                           ~\E k \in Keys \cup {ZeroKey} : VerifyChain(k, current)
    BY DEF WipeCutsTheChain
  <2>1. /\ wipedAt \in 0..Len(current) /\ Signed(current, wipedAt + 1, Len(current), ZeroKey)
    BY DEF TrailInvariant, KeyHistory
  <2>2. PICK k \in Keys : Signed(current, 1, wipedAt, k)
    BY DEF TrailInvariant, KeyHistory
  <2>3. Len(current) \in Nat /\ IsSeq(current)
    BY CurrentFacts
  <2>4. VerifyChain(k, SubSeq(current, 1, wipedAt))
    <3> DEFINE s == SubSeq(current, 1, wipedAt)
               S == Range(current)
    <3>1. \A j \in 1..wipedAt : current[j] \in S
      BY <2>1, <2>3, ElementOfSeq DEF IsSeq
    <3> HIDE DEF S
    <3>2. Len(s) = wipedAt /\ \A j \in 1..wipedAt : s[j] = current[j]
      <4>1. 1 \in Int /\ wipedAt \in Int
        BY <2>1
      <4> QED BY <2>1, <3>1, <4>1, SubSeqProperties
    <3> HIDE DEF s
    <3>3. VerifyChain(k, s)
      BY <2>1, <2>2, <3>2, SignedVerifies
    <3> QED BY <3>3 DEF s
  <2>5. ASSUME wipedAt \in 1..(Len(current) - 1),
               NEW k2 \in Keys \cup {ZeroKey}, VerifyChain(k2, current)
        PROVE  FALSE
    <3> DEFINE first == current[1]
               last == current[Len(current)]
    <3>1. 1 \in 1..Len(current) /\ Len(current) \in 1..Len(current)
      BY <2>3, <2>5
    <3>2. /\ first.hash = Mac(k2, first.seq, first.content, first.prev_hash)
          /\ last.hash = Mac(k2, last.seq, last.content, last.prev_hash)
      BY <2>5, <3>1 DEF VerifyChain
    <3>3. /\ first.hash = Mac(k, first.seq, first.content, first.prev_hash)
          /\ last.hash = Mac(ZeroKey, last.seq, last.content, last.prev_hash)
      BY <2>1, <2>2, <2>3, <2>5 DEF Signed
    <3> HIDE DEF first, last
    <3>4. k2 = k
      <4>1. Mac(k2, first.seq, first.content, first.prev_hash)
            = Mac(k, first.seq, first.content, first.prev_hash)
        BY <3>2, <3>3
      <4> QED BY <4>1, MacInjective
    <3>5. k2 = ZeroKey
      <4>1. Mac(k2, last.seq, last.content, last.prev_hash)
            = Mac(ZeroKey, last.seq, last.content, last.prev_hash)
        BY <3>2, <3>3
      <4> QED BY <4>1, MacInjective
    <3> QED BY <3>4, <3>5, KeyAssumption
  <2> QED BY <2>4, <2>5
<1> QED BY <1>1, TrailSafe, PTL
==============================================================================
