---------------------------- MODULE TdbLogProofs ----------------------------
(***************************************************************************)
(* What TLAPS proves of TdbLog for every set of ids and payloads and every *)
(* bound, as long as compaction is not run concurrently with appends; and, *)
(* if it is never run, of sequence numbers.                                *)
(***************************************************************************)
EXTENDS TdbLog, WellFoundedInduction, SequenceTheorems, TLAPS

-----------------------------------------------------------------------------
(* Replaying lines.                                                          *)

\* A nonempty set of positions of a sequence has a greatest element.
LEMMA MaxExists ==
  ASSUME NEW n \in Nat, NEW S, S \subseteq 1 .. n, S # {}
  PROVE  \E i \in S : \A j \in S : j <= i
<1> DEFINE T == {n - i : i \in S}
<1>1. T \subseteq Nat /\ T # {}
  <2>1. \A i \in S : n - i \in Nat
    OBVIOUS
  <2>2. \E i \in S : n - i \in T
    OBVIOUS
  <2> QED
    BY <2>1, <2>2
<1>2. PICK t \in T : \A u \in T : ~(<<u, t>> \in OpToRel(<, Nat))
  BY <1>1, NatLessThanWellFounded, WFMin
<1>3. \A u \in T : t <= u
  <2> SUFFICES ASSUME NEW u \in T, ~(t <= u) PROVE FALSE
    OBVIOUS
  <2>1. u \in Nat /\ t \in Nat
    BY <1>1
  <2>2. u < t
    BY <2>1
  <2>3. <<u, t>> \in OpToRel(<, Nat)
    BY <2>1, <2>2 DEF OpToRel
  <2> QED
    BY <1>2, <2>3
<1>4. PICK i \in S : t = n - i
  BY <1>2
<1>5. \A j \in S : n - i <= n - j
  BY <1>3, <1>4
<1> QED
  BY <1>5

\* Every id a sequence of lines names has a last line that names it.
LEMMA LastExists ==
  ASSUME NEW f \in Seq(Lines), NEW id, \E i \in DOMAIN f : f[i].id = id
  PROVE  /\ \E i \in DOMAIN f : IsLast(f, id, i)
         /\ IsLast(f, id, CHOOSE i \in DOMAIN f : IsLast(f, id, i))
<1> DEFINE S == {i \in DOMAIN f : f[i].id = id}
<1>1. S \subseteq 1 .. Len(f) /\ S # {} /\ Len(f) \in Nat
  BY LenProperties
<1>2. PICK i \in S : \A j \in S : j <= i
  BY <1>1, MaxExists
<1> QED
  BY <1>2 DEF IsLast

\* There is only one such line.
LEMMA LastUnique ==
  ASSUME NEW f \in Seq(Lines), NEW id, NEW i, NEW k, IsLast(f, id, i), IsLast(f, id, k)
  PROVE  i = k
  BY LenProperties DEF IsLast

\* What Apply gives for an id, by its last line.
LEMMA ApplyNamed ==
  ASSUME NEW m, NEW f \in Seq(Lines), NEW id \in Ids, NEW i, IsLast(f, id, i)
  PROVE  Apply(m, f)[id] = f[i].val
<1>1. \E k \in DOMAIN f : f[k].id = id
  BY DEF IsLast
<1>2. IsLast(f, id, CHOOSE k \in DOMAIN f : IsLast(f, id, k))
  BY <1>1, LastExists
<1>3. i = CHOOSE k \in DOMAIN f : IsLast(f, id, k)
  BY <1>2, LastUnique
<1> QED
  BY <1>1, <1>3 DEF Apply

LEMMA ApplyUnnamed ==
  ASSUME NEW m, NEW f, NEW id \in Ids, ~\E i \in DOMAIN f : f[i].id = id
  PROVE  Apply(m, f)[id] = m[id]
  BY DEF Apply

\* Payloads of lines are payloads.
LEMMA LineVal ==
  ASSUME NEW l \in Lines
  PROVE  l.val \in Vals \cup {NoVal}
  BY DEF Lines, Envelopes, Puts, Deletes, Bad, Skipped

LEMMA ApplyType ==
  ASSUME NEW m \in Maps, NEW f \in Seq(Lines)
  PROVE  Apply(m, f) \in Maps
<1>1. Apply(m, f) = [id \in Ids |-> Apply(m, f)[id]]
  BY DEF Apply
<1>2. ASSUME NEW id \in Ids
      PROVE  Apply(m, f)[id] \in Vals \cup {NoVal}
  <2>1. CASE \E i \in DOMAIN f : f[i].id = id
    <3>1. PICK i \in DOMAIN f : IsLast(f, id, i)
      BY <2>1, LastExists
    <3>2. f[i] \in Lines
      BY ElementOfSeq, LenProperties
    <3> QED
      BY <3>1, <3>2, ApplyNamed, LineVal
  <2>2. CASE ~\E i \in DOMAIN f : f[i].id = id
    BY <2>2, ApplyUnnamed DEF Maps
  <2> QED
    BY <2>1, <2>2
<1> QED
  BY <1>1, <1>2 DEF Maps

\* Replaying f and then g is replaying their concatenation.
LEMMA ApplyConcat ==
  ASSUME NEW m \in Maps, NEW f \in Seq(Lines), NEW g \in Seq(Lines)
  PROVE  Apply(m, f \o g) = Apply(Apply(m, f), g)
<1> DEFINE h == f \o g
<1>1. /\ h \in Seq(Lines)
      /\ Len(h) = Len(f) + Len(g)
      /\ \A i \in 1 .. Len(h) : h[i] = IF i <= Len(f) THEN f[i] ELSE g[i - Len(f)]
  BY ConcatProperties
<1>2. /\ Len(f) \in Nat /\ Len(g) \in Nat
      /\ DOMAIN f = 1 .. Len(f) /\ DOMAIN g = 1 .. Len(g) /\ DOMAIN h = 1 .. Len(h)
  BY <1>1, LenProperties
<1> HIDE DEF h
<1>3. ASSUME NEW id \in Ids
      PROVE  Apply(m, h)[id] = Apply(Apply(m, f), g)[id]
  <2>1. CASE \E i \in DOMAIN g : g[i].id = id
    <3>1. PICK i \in DOMAIN g : IsLast(g, id, i)
      BY <2>1, LastExists
    <3>2. IsLast(h, id, Len(f) + i)
      BY <1>1, <1>2, <3>1 DEF IsLast, h
    <3>3. h[Len(f) + i] = g[i]
      BY <1>1, <1>2
    <3>4. Apply(m, h)[id] = h[Len(f) + i].val
      BY <1>1, <3>2, ApplyNamed
    <3>5. Apply(Apply(m, f), g)[id] = g[i].val
      BY <3>1, ApplyNamed
    <3> QED
      BY <3>3, <3>4, <3>5
  <2>2. CASE ~\E i \in DOMAIN g : g[i].id = id
    <3>1. Apply(Apply(m, f), g)[id] = Apply(m, f)[id]
      BY <2>2, ApplyUnnamed
    <3>2. CASE \E i \in DOMAIN f : f[i].id = id
      <4>1. PICK i \in DOMAIN f : IsLast(f, id, i)
        BY <3>2, LastExists
      <4>2. IsLast(h, id, i)
        BY <1>1, <1>2, <2>2, <4>1 DEF IsLast, h
      <4>3. h[i] = f[i]
        BY <1>1, <1>2
      <4>4. Apply(m, h)[id] = h[i].val
        BY <1>1, <4>2, ApplyNamed
      <4>5. Apply(m, f)[id] = f[i].val
        BY <4>1, ApplyNamed
      <4> QED
        BY <3>1, <4>3, <4>4, <4>5
    <3>3. CASE ~\E i \in DOMAIN f : f[i].id = id
      <4>1. ~\E i \in DOMAIN h : h[i].id = id
        BY <1>1, <1>2, <2>2, <3>3 DEF h
      <4>2. Apply(m, h)[id] = m[id]
        BY <4>1, ApplyUnnamed
      <4>3. Apply(m, f)[id] = m[id]
        BY <3>3, ApplyUnnamed
      <4> QED
        BY <3>1, <4>2, <4>3
    <3> QED
      BY <3>2, <3>3
  <2> QED
    BY <2>1, <2>2
<1>4. /\ Apply(m, h) = [id \in Ids |-> Apply(m, h)[id]]
      /\ Apply(Apply(m, f), g) = [id \in Ids |-> Apply(Apply(m, f), g)[id]]
  BY DEF Apply
<1>5. Apply(m, h) = Apply(Apply(m, f), g)
  BY <1>3, <1>4
<1> QED
  BY <1>5 DEF h

LEMMA EmptyType == Empty \in Maps
  BY DEF Empty, Maps

LEMMA LatestType ==
  ASSUME NEW f \in Seq(Lines)
  PROVE  Latest(f) \in Maps
  BY EmptyType, ApplyType DEF Latest

LEMMA LatestConcat ==
  ASSUME NEW f \in Seq(Lines), NEW g \in Seq(Lines)
  PROVE  Latest(f \o g) = Apply(Latest(f), g)
  BY EmptyType, ApplyConcat DEF Latest

LEMMA LatestNone == Latest(<<>>) = Empty
<1>1. DOMAIN <<>> = {}
  OBVIOUS
<1> QED
  BY <1>1 DEF Latest, Apply, Empty

-----------------------------------------------------------------------------
(* Compaction.                                                               *)

LEMMA LineWithId ==
  ASSUME NEW l \in Lines, l.id \in Ids
  PROVE  l \in Envelopes /\ (l.op = "put" \/ l.val = NoVal)
  BY LogConstants DEF Lines, Envelopes, Puts, Deletes, Bad, Skipped

LEMMA PutLine ==
  ASSUME NEW l \in Lines, l.op = "put"
  PROVE  l \in Puts
  BY DEF Lines, Envelopes, Puts, Deletes, Bad, Skipped

LEMMA SurvivorsArePuts ==
  ASSUME NEW f \in Seq(Lines)
  PROVE  Survivors(f) \subseteq Puts
<1>1. \A k \in DOMAIN f : f[k] \in Lines
  BY ElementOfSeq, LenProperties
<1> QED
  BY <1>1, PutLine DEF Survivors

LEMMA HeaderLineEffect ==
  ASSUME NEW f \in Seq(Lines)
  PROVE  HeaderLine(f) \in Seq(Lines) /\ Latest(HeaderLine(f)) = Empty
<1>1. HeaderLine(f) = <<>> \/ HeaderLine(f) = <<Skipped>>
  BY DEF HeaderLine
<1>2. CASE HeaderLine(f) = <<>>
  BY <1>2, LatestNone
<1>3. CASE HeaderLine(f) = <<Skipped>>
  <2>1. Skipped \in Lines /\ Skipped.id \notin Ids
    BY LogConstants DEF Lines, Skipped
  <2>2. \A id \in Ids : ~\E i \in DOMAIN <<Skipped>> : <<Skipped>>[i].id = id
    BY <2>1
  <2>3. \A id \in Ids : Apply(Empty, <<Skipped>>)[id] = NoVal
    <3> SUFFICES ASSUME NEW id \in Ids PROVE Apply(Empty, <<Skipped>>)[id] = NoVal
      OBVIOUS
    <3>1. Apply(Empty, <<Skipped>>)[id] = Empty[id]
      BY <2>2, ApplyUnnamed
    <3> QED
      BY <3>1 DEF Empty
  <2>4. Apply(Empty, <<Skipped>>) = [id \in Ids |-> Apply(Empty, <<Skipped>>)[id]]
    BY DEF Apply
  <2> QED
    BY <1>3, <2>1, <2>3, <2>4 DEF Latest, Empty
<1> QED
  BY <1>1, <1>2, <1>3

\* The survivors of f in id order replay to what f replays to.
LEMMA CompactedLatest ==
  ASSUME NEW f \in Seq(Lines), NEW n \in Nat, NEW s \in [1 .. n -> Survivors(f)],
         Compacted(f, s)
  PROVE  /\ HeaderLine(f) \o s \in Seq(Lines)
         /\ Latest(HeaderLine(f) \o s) = Latest(f)
<1>1. \A k \in DOMAIN f : f[k] \in Lines
  BY ElementOfSeq, LenProperties
<1>2. s \in Seq(Lines) /\ DOMAIN s = 1 .. n /\ \A i \in 1 .. n : s[i] \in Puts
  <2>1. Survivors(f) \subseteq Puts /\ Puts \subseteq Lines
    BY SurvivorsArePuts DEF Lines, Envelopes
  <2>2. s \in [1 .. n -> Lines] /\ s \in [1 .. n -> Puts]
    BY <2>1
  <2> QED
    BY <2>2, IsASeq
<1>3. HeaderLine(f) \o s \in Seq(Lines)
  BY <1>2, HeaderLineEffect, ConcatProperties
<1>4. Latest(HeaderLine(f) \o s) = Latest(s)
  BY <1>2, HeaderLineEffect, LatestConcat DEF Latest
<1>5. ASSUME NEW id \in Ids
      PROVE  Latest(s)[id] = Latest(f)[id]
  <2>1. CASE \E p \in Survivors(f) : p.id = id
    <3>1. PICK p \in Survivors(f) : p.id = id
      BY <2>1
    <3>2. PICK k \in DOMAIN f : f[k] = p /\ IsLast(f, id, k)
      BY <3>1 DEF Survivors
    <3>3. PICK i \in 1 .. n : s[i] = p
      BY <1>2 DEF Compacted
    <3>4. IsLast(s, id, i)
      <4> SUFFICES ASSUME NEW j \in 1 .. n, s[j].id = id
                   PROVE  j <= i
        BY <1>2, <3>1, <3>3 DEF IsLast
      <4>1. i < j => id < id
        BY <1>2, <3>1, <3>3 DEF Compacted, SortedById
      <4>2. id \in Nat
        BY LogConstants
      <4> QED
        BY <4>1, <4>2
    <3>5. Latest(s)[id] = s[i].val
      BY <1>2, <3>4, ApplyNamed DEF Latest
    <3>6. Latest(f)[id] = f[k].val
      BY <3>2, ApplyNamed DEF Latest
    <3> QED
      BY <3>2, <3>3, <3>5, <3>6
  <2>2. CASE ~\E p \in Survivors(f) : p.id = id
    <3>1. Latest(s)[id] = NoVal
      <4>1. ~\E i \in DOMAIN s : s[i].id = id
        BY <1>2, <2>2
      <4> QED
        BY <4>1, ApplyUnnamed DEF Latest, Empty
    <3>2. Latest(f)[id] = NoVal
      <4>1. CASE \E i \in DOMAIN f : f[i].id = id
        <5>1. PICK k \in DOMAIN f : IsLast(f, id, k)
          BY <4>1, LastExists
        <5>2. f[k].id = id
          BY <5>1 DEF IsLast
        <5>3. f[k].op # "put"
          BY <2>2, <5>1, <5>2 DEF Survivors
        <5>4. f[k].val = NoVal
          BY <1>1, <5>2, <5>3, LineWithId
        <5> QED
          BY <5>1, <5>4, ApplyNamed DEF Latest
      <4>2. CASE ~\E i \in DOMAIN f : f[i].id = id
        BY <4>2, ApplyUnnamed DEF Latest, Empty
      <4> QED
        BY <4>1, <4>2
    <3> QED
      BY <3>1, <3>2
  <2> QED
    BY <2>1, <2>2
<1>6. Latest(s) = [id \in Ids |-> Latest(s)[id]] /\ Latest(f) = [id \in Ids |-> Latest(f)[id]]
  BY DEF Latest, Apply
<1>7. Latest(s) = Latest(f)
  BY <1>5, <1>6
<1> QED
  BY <1>3, <1>4, <1>7

-----------------------------------------------------------------------------
(* Writing at the end of a file.                                             *)

Sound(f) == \A i \in DOMAIN f : f[i] # Bad /\ f[i] # Skipped
Unskipped(f) == \A i \in DOMAIN f : f[i] # Skipped
SkippedFirst(f) == \A i \in DOMAIN f : f[i] = Skipped => i = 1

\* The lines of w = a \o <<g>> \o b.
GlueFacts(a, g, b, w) ==
    /\ w \in Seq(Lines)
    /\ Len(a) + 1 \in DOMAIN w /\ w[Len(a) + 1] = g
    /\ \A i \in DOMAIN a : i \in DOMAIN w /\ w[i] = a[i]
    /\ \A i \in DOMAIN w : \/ i \in DOMAIN a
                          \/ i = Len(a) + 1
                          \/ \E j \in DOMAIN b : w[i] = b[j]

LEMMA GlueProperties ==
  ASSUME NEW a \in Seq(Lines), NEW g \in Lines, NEW b \in Seq(Lines),
         NEW w, w = a \o <<g>> \o b
  PROVE  GlueFacts(a, g, b, w)
<1> DEFINE c == a \o <<g>>
<1>1. <<g>> \in Seq(Lines) /\ Len(<<g>>) = 1 /\ <<g>>[1] = g
  OBVIOUS
<1>2. /\ c \in Seq(Lines) /\ Len(c) = Len(a) + 1
      /\ \A i \in 1 .. Len(c) : c[i] = IF i <= Len(a) THEN a[i] ELSE <<g>>[i - Len(a)]
  BY <1>1, ConcatProperties
<1>3. Len(a) \in Nat /\ DOMAIN a = 1 .. Len(a)
  BY LenProperties
<1>4. c[Len(a) + 1] = g /\ \A i \in DOMAIN a : c[i] = a[i]
  BY <1>1, <1>2, <1>3
<1> HIDE DEF c
<1>5. /\ c \o b \in Seq(Lines) /\ Len(c \o b) = Len(c) + Len(b) /\ Len(b) \in Nat
      /\ \A i \in 1 .. Len(c \o b) : (c \o b)[i] = IF i <= Len(c) THEN c[i] ELSE b[i - Len(c)]
      /\ DOMAIN (c \o b) = 1 .. Len(c \o b)
  <2>1. c \o b \in Seq(Lines)
    BY <1>2, ConcatProperties
  <2>2. DOMAIN (c \o b) = 1 .. Len(c \o b)
    BY <2>1, LenProperties
  <2>3. Len(c \o b) = Len(c) + Len(b) /\ Len(b) \in Nat
    <3>1. Len(b) \in Nat
      BY LenProperties
    <3>2. c \in Seq(Lines)
      BY <1>2
    <3>3. Len(c \o b) = Len(c) + Len(b)
      BY <3>2, ConcatProperties
    <3> QED
      BY <3>1, <3>3
  <2>4. \A i \in 1 .. Len(c \o b) : (c \o b)[i] = IF i <= Len(c) THEN c[i] ELSE b[i - Len(c)]
    <3>1. c \in Seq(Lines)
      BY <1>2
    <3> QED
      BY <3>1, ConcatProperties
  <2> QED
    BY <2>1, <2>2, <2>3, <2>4
<1>6. /\ Len(a) + 1 \in DOMAIN (c \o b) /\ (c \o b)[Len(a) + 1] = g
      /\ \A i \in DOMAIN a : i \in DOMAIN (c \o b) /\ (c \o b)[i] = a[i]
  BY <1>2, <1>3, <1>4, <1>5
<1>7. ASSUME NEW i \in DOMAIN (c \o b), i \notin DOMAIN a, i # Len(a) + 1
      PROVE  \E j \in DOMAIN b : (c \o b)[i] = b[j]
  <2>1. i > Len(c) /\ i - Len(c) \in 1 .. Len(b)
    BY <1>2, <1>3, <1>5, <1>7
  <2>2. (c \o b)[i] = b[i - Len(c)] /\ DOMAIN b = 1 .. Len(b)
    BY <1>2, <1>3, <1>5, <2>1, LenProperties
  <2> QED
    BY <2>1, <2>2
<1> QED
  BY <1>5, <1>6, <1>7 DEF c, GlueFacts

LEMMA WrittenProperties ==
  ASSUME NEW f \in Seq(Lines), NEW t \in Tails, NEW ls \in Seq(Envelopes), ls # <<>>
  PROVE  LET w == Written(f, t, ls) IN
         /\ w \in Seq(Lines)
         /\ Unskipped(w) => Unskipped(f)
         /\ Sound(w) => Sound(f) /\ t # "partial" /\ w = f \o ls
         /\ SkippedFirst(f) /\ (t = "header" => f = <<>>) => SkippedFirst(w)
<1>1. ls \in Seq(Lines) /\ Tail(ls) \in Seq(Lines)
  <2>1. ls \in Seq(Lines)
    BY SeqMonotonic DEF Lines
  <2> QED
    BY <2>1, HeadTailProperties
<1>2. Bad \in Lines /\ Skipped \in Lines /\ Glued(f, t) \in {Bad, Skipped}
  BY DEF Lines, Glued
<1>0. \A j \in DOMAIN ls : ls[j] # Skipped
  <2>1. \A j \in DOMAIN ls : ls[j] \in Envelopes
    BY ElementOfSeq, LenProperties
  <2>2. Skipped \notin Envelopes
    BY DEF Envelopes, Puts, Deletes, Skipped
  <2> QED
    BY <2>1, <2>2
<1>00. \A j \in DOMAIN Tail(ls) : Tail(ls)[j] # Skipped
  <2>1. \A j \in DOMAIN Tail(ls) : j + 1 \in DOMAIN ls /\ Tail(ls)[j] = ls[j + 1]
    OBVIOUS
  <2> QED
    BY <1>0, <2>1
<1>3. CASE t = "open"
  <2> DEFINE a == SubSeq(f, 1, Len(f) - 1)
             w == a \o <<Glued(f, t)>> \o Tail(ls)
  <2>1. Written(f, t, ls) = w
    BY <1>3 DEF Written
  <2>2. /\ Len(f) \in Nat /\ DOMAIN f = 1 .. Len(f)
        /\ a \in Seq(Lines)
        /\ Len(a) \in Nat
        /\ Len(a) = IF Len(f) = 0 THEN 0 ELSE Len(f) - 1
        /\ DOMAIN a = 1 .. Len(a)
        /\ \A i \in DOMAIN a : a[i] = f[i]
    OBVIOUS
  <2> HIDE DEF a
  <2>3. /\ w \in Seq(Lines)
        /\ Len(a) + 1 \in DOMAIN w /\ w[Len(a) + 1] = Glued(f, t)
        /\ \A i \in DOMAIN a : i \in DOMAIN w /\ w[i] = a[i]
        /\ \A i \in DOMAIN w : \/ i \in DOMAIN a
                              \/ i = Len(a) + 1
                              \/ \E j \in DOMAIN Tail(ls) : w[i] = Tail(ls)[j]
    <3>1. Glued(f, t) \in Lines /\ a \in Seq(Lines)
      BY <1>2, <2>2
    <3>2. w = a \o <<Glued(f, t)>> \o Tail(ls)
      OBVIOUS
    <3> HIDE DEF w
    <3>3. GlueFacts(a, Glued(f, t), Tail(ls), w)
      BY <1>1, <3>1, <3>2, GlueProperties
    <3> QED
      BY <3>3 DEF GlueFacts
  <2> HIDE DEF w
  <2>4. ~Sound(w)
    BY <1>2, <2>3 DEF Sound
  <2>5. ASSUME Unskipped(w), NEW i \in DOMAIN f
        PROVE  f[i] # Skipped
    <3>1. Glued(f, t) # Skipped
      BY <2>3, <2>5 DEF Unskipped
    <3>2. f[Len(f)] # Skipped
      BY <1>3, <3>1 DEF Glued
    <3>3. CASE i = Len(f)
      BY <3>2, <3>3
    <3>4. CASE i # Len(f)
      <4>1. i \in DOMAIN a
        <5>1. i \in 1 .. Len(f) /\ Len(f) \in Nat
          BY <2>2
        <5>2. Len(f) # 0 /\ i <= Len(f) - 1
          BY <5>1, <3>4
        <5>3. DOMAIN a = 1 .. (Len(f) - 1)
          BY <2>2, <5>2
        <5> QED
          BY <5>1, <5>2, <5>3
      <4> QED
        BY <4>1, <2>2, <2>3, <2>5 DEF Unskipped
    <3> QED
      BY <3>3, <3>4
  <2>6. ASSUME SkippedFirst(f), NEW i \in DOMAIN w, w[i] = Skipped
        PROVE  i = 1
    <3>1. CASE i \in DOMAIN a
      <4>1. i \in DOMAIN f
        <5>1. i \in 1 .. Len(a)
          BY <2>2, <3>1
        <5>2. /\ Len(f) \in Nat /\ Len(a) \in Nat
              /\ Len(a) = IF Len(f) = 0 THEN 0 ELSE Len(f) - 1
          BY <2>2
        <5>3. i \in 1 .. Len(f)
          BY <5>1, <5>2
        <5> QED
          BY <2>2, <5>3
      <4> QED
        BY <2>2, <2>3, <2>6, <3>1, <4>1 DEF SkippedFirst
    <3>2. CASE i = Len(a) + 1
      <4>1. f[Len(f)] = Skipped
        BY <1>3, <2>3, <2>6, <3>2 DEF Glued, Bad, Skipped
      <4>2. CASE Len(f) = 0
        BY <2>2, <3>2, <4>2
      <4>3. CASE Len(f) # 0
        <5>1. Len(f) \in DOMAIN f
          BY <2>2, <4>3
        <5>2. Len(f) = 1
          BY <2>6, <4>1, <5>1 DEF SkippedFirst
        <5> QED
          BY <2>2, <3>2, <5>2
      <4> QED
        BY <4>2, <4>3
    <3> QED
      BY <1>00, <2>3, <2>6, <3>1, <3>2
  <2> QED
    BY <2>1, <2>3, <2>4, <2>5, <2>6 DEF Unskipped, SkippedFirst
<1>4. CASE t \in {"header", "partial"}
  <2> DEFINE w == f \o <<Glued(f, t)>> \o Tail(ls)
  <2>1. Written(f, t, ls) = w
    BY <1>4 DEF Written
  <2>2. /\ w \in Seq(Lines)
        /\ Len(f) + 1 \in DOMAIN w /\ w[Len(f) + 1] = Glued(f, t)
        /\ \A i \in DOMAIN f : i \in DOMAIN w /\ w[i] = f[i]
        /\ \A i \in DOMAIN w : \/ i \in DOMAIN f
                              \/ i = Len(f) + 1
                              \/ \E j \in DOMAIN Tail(ls) : w[i] = Tail(ls)[j]
    <3>1. Glued(f, t) \in Lines
      BY <1>2
    <3>2. w = f \o <<Glued(f, t)>> \o Tail(ls)
      OBVIOUS
    <3> HIDE DEF w
    <3>3. GlueFacts(f, Glued(f, t), Tail(ls), w)
      BY <1>1, <3>1, <3>2, GlueProperties
    <3> QED
      BY <3>3 DEF GlueFacts
  <2> HIDE DEF w
  <2>3. ASSUME SkippedFirst(f), t = "header" => f = <<>>, NEW i \in DOMAIN w, w[i] = Skipped
        PROVE  i = 1
    <3>1. CASE i \in DOMAIN f
      BY <2>2, <2>3, <3>1 DEF SkippedFirst
    <3>2. CASE i = Len(f) + 1
      <4>1. t = "header"
        BY <1>4, <2>2, <2>3, <3>2 DEF Glued, Bad, Skipped
      <4> QED
        BY <2>3, <3>2, <4>1
    <3> QED
      BY <1>00, <2>2, <2>3, <3>1, <3>2
  <2>4. ~Sound(w)
    BY <1>2, <2>2 DEF Sound
  <2>5. Unskipped(w) => Unskipped(f)
    BY <2>2 DEF Unskipped
  <2>6. SkippedFirst(f) /\ (t = "header" => f = <<>>) => SkippedFirst(w)
    BY <2>3 DEF SkippedFirst
  <2> QED
    BY <2>1, <2>2, <2>4, <2>5, <2>6
<1>5. CASE t \in {"none", "newline"}
  <2> DEFINE w == f \o ls
  <2>1. Written(f, t, ls) = w
    BY <1>5 DEF Written
  <2>2. /\ w \in Seq(Lines)
        /\ \A i \in DOMAIN f : i \in DOMAIN w /\ w[i] = f[i]
        /\ \A i \in DOMAIN w : \/ i \in DOMAIN f
                              \/ \E j \in DOMAIN ls : w[i] = ls[j]
    <3>1. /\ w \in Seq(Lines) /\ Len(w) = Len(f) + Len(ls)
          /\ \A i \in 1 .. Len(f) + Len(ls) : w[i] = IF i <= Len(f) THEN f[i] ELSE ls[i - Len(f)]
      BY <1>1, ConcatProperties
    <3>2. /\ Len(f) \in Nat /\ DOMAIN f = 1 .. Len(f)
          /\ Len(ls) \in Nat /\ DOMAIN ls = 1 .. Len(ls)
      BY LenProperties
    <3>3. DOMAIN w = 1 .. Len(w)
      BY <3>1, LenProperties
    <3> HIDE DEF w
    <3>4. \A i \in DOMAIN f : i \in DOMAIN w /\ w[i] = f[i]
      BY <3>1, <3>2, <3>3
    <3>5. ASSUME NEW i \in DOMAIN w, i \notin DOMAIN f
          PROVE  \E j \in DOMAIN ls : w[i] = ls[j]
      <4>1. i - Len(f) \in DOMAIN ls /\ w[i] = ls[i - Len(f)]
        BY <3>1, <3>2, <3>3, <3>5
      <4> QED
        BY <4>1
    <3> QED
      BY <3>1, <3>4, <3>5
  <2> HIDE DEF w
  <2>3. Sound(w) => Sound(f)
    BY <2>2 DEF Sound
  <2>4. Unskipped(w) => Unskipped(f)
    BY <2>2 DEF Unskipped
  <2>5. SkippedFirst(f) => SkippedFirst(w)
    BY <1>0, <2>2 DEF SkippedFirst
  <2> QED
    BY <1>5, <2>1, <2>2, <2>3, <2>4, <2>5 DEF w
<1> QED
  BY <1>3, <1>4, <1>5 DEF Tails

-----------------------------------------------------------------------------
(***************************************************************************)
(* The inductive invariant.  What a reader may rely on (AckedSurvives,     *)
(* ReadersSeeAcked) says nothing of an append or a compaction under way;   *)
(* it is carried through them by what the writer still has to acknowledge  *)
(* and by what the compaction has read.                                    *)
(***************************************************************************)

\* An append that holds the mutex has lines, an index and the file at the path.
WriterInv ==
    writer.pc # "idle" =>
        /\ writer.lines # <<>>
        /\ writer.attached
        /\ index.cached
        /\ compact.pc = "idle"
        /\ ~AuditLog => writer.indexed
        /\ writer.pc = "written" => tail # "partial"

\* Only the first line can be read as part of the header.
SkippedInv == SkippedFirst(file) /\ (tail \in {"none", "header"} => file = <<>>)

\* An undamaged file replays to the acknowledged values, or to them and the
\* lines of the append that has written but not returned.
AckedInv ==
    Sound(file) /\ tail # "partial" =>
        Latest(file) = IF writer.pc = "written" THEN Apply(acked, writer.lines) ELSE acked

\* The cached index holds the acknowledged values.
IndexInv ==
    ~AuditLog /\ Unskipped(file) /\ index.cached => index.latest = acked

\* What a compaction is about to rename over the log replays to the same map.
CompactInv ==
    compact.pc = "read" =>
        /\ Compaction # "never"
        /\ writer.pc = "idle"
        /\ Latest(compact.out) = Latest(file)
        /\ Unskipped(compact.out) => Sound(file) /\ tail # "partial"
        /\ SkippedFirst(compact.out)

IInv == TypeOK /\ WriterInv /\ SkippedInv /\ AckedInv /\ IndexInv /\ CompactInv

LEMMA InitIInv == Init => IInv
<1> SUFFICES ASSUME Init PROVE IInv
  OBVIOUS
<1>1. TypeOK
  BY LogConstants, EmptyType DEF Init, TypeOK, Tails, NoIndex, NoWriter, NoCompaction
<1>2. WriterInv
  BY DEF Init, WriterInv, NoWriter
<1>6. SkippedInv
  BY DEF Init, SkippedInv, SkippedFirst
<1>3. AckedInv
  BY LatestNone DEF Init, AckedInv, NoWriter
<1>4. IndexInv
  BY DEF Init, IndexInv, NoIndex
<1>5. CompactInv
  BY DEF Init, CompactInv, NoCompaction
<1> QED
  BY <1>1, <1>2, <1>3, <1>4, <1>5, <1>6 DEF IInv

LEMMA IndexForAppend ==
  ASSUME IInv, writer.pc = "idle", IndexAvailable
  PROVE  /\ EnsureIndex \in [cached : BOOLEAN, next : Nat, latest : Maps]
         /\ EnsureIndex.cached
         /\ EnsureIndex.next \in Nat
         /\ ~AuditLog /\ Unskipped(file) => EnsureIndex.latest = acked
<1>1. CASE index.cached
  BY <1>1 DEF EnsureIndex, IInv, IndexInv, TypeOK
<1>2. CASE ~index.cached
  <2> DEFINE e == [cached |-> TRUE, next |-> NextSeq(file), latest |-> Latest(file)]
  <2>1. EnsureIndex = e
    BY <1>2 DEF EnsureIndex
  <2>2. Latest(file) \in Maps
    BY LatestType DEF IInv, TypeOK
  <2>3. NextSeq(file) \in Nat
    <3>1. file \in Seq(Lines) /\ \A l \in Lines : l.seq \in Nat
      BY DEF IInv, TypeOK, Lines, Envelopes, Puts, Deletes, Bad, Skipped
    <3>2. file # <<>> => file[Len(file)] \in Lines
      BY <3>1
    <3> QED
      BY <3>1, <3>2 DEF NextSeq
  <2>4. Unskipped(file) => Latest(file) = acked
    <3>1. Readable(file, tail)
      BY <1>2 DEF IndexAvailable
    <3>2. Unskipped(file) => Sound(file) /\ tail # "partial"
      BY <3>1 DEF Readable, Unskipped, Sound
    <3> QED
      BY <3>2 DEF IInv, AckedInv
  <2> HIDE DEF e
  <2>5. e \in [cached : BOOLEAN, next : Nat, latest : Maps] /\ e.cached /\ e.latest = Latest(file)
    BY <2>2, <2>3 DEF e
  <2> QED
    BY <2>1, <2>4, <2>5
<1> QED
  BY <1>1, <1>2

LEMMA EnsuredTailProperties ==
  ASSUME tail \in Tails
  PROVE  /\ EnsuredTail \in Tails
         /\ EnsuredTail = "partial" <=> tail = "partial"
         /\ EnsuredTail = "header" <=> tail = "header"
         /\ EnsuredTail # "none"
  BY DEF EnsuredTail, Tails

LEMMA WarmLogStep == IInv /\ WarmLog => IInv'
<1> SUFFICES ASSUME IInv, WarmLog PROVE IInv'
  OBVIOUS
<1>1. /\ writer.pc = "idle" /\ IndexAvailable
      /\ tail' = EnsuredTail /\ index' = EnsureIndex
      /\ UNCHANGED <<file, writer, compact, acked, crashes>>
  BY DEF WarmLog
<1>2. /\ EnsureIndex \in [cached : BOOLEAN, next : Nat, latest : Maps]
      /\ ~AuditLog /\ Unskipped(file) => EnsureIndex.latest = acked
  BY <1>1, IndexForAppend
<1>3. /\ EnsuredTail \in Tails
      /\ EnsuredTail = "partial" <=> tail = "partial"
      /\ EnsuredTail = "header" <=> tail = "header"
      /\ EnsuredTail # "none"
  BY EnsuredTailProperties DEF IInv, TypeOK
<1>4. TypeOK'
  BY <1>1, <1>2, <1>3 DEF IInv, TypeOK
<1>5. WriterInv'
  BY <1>1 DEF WriterInv
<1>6. SkippedInv'
  BY <1>1, <1>3 DEF IInv, SkippedInv
<1>7. AckedInv'
  BY <1>1, <1>3 DEF IInv, AckedInv
<1>8. IndexInv'
  BY <1>1, <1>2 DEF IndexInv
<1>9. CompactInv'
  BY <1>1, <1>3 DEF IInv, CompactInv
<1> QED
  BY <1>4, <1>5, <1>6, <1>7, <1>8, <1>9 DEF IInv

LEMMA OpenLogStep ==
  ASSUME Compaction # "concurrent", IInv,
         NEW ls, NEW indexed \in BOOLEAN, OpenLog(ls, indexed),
         writer.pc = "idle" /\ IndexAvailable => ls \in Seq(Envelopes) /\ ls # <<>>,
         ~AuditLog => indexed
  PROVE  IInv'
<1>1. /\ writer.pc = "idle" /\ IndexAvailable
      /\ Compaction = "quiescent" => compact.pc = "idle"
      /\ tail' = EnsuredTail /\ index' = EnsureIndex
      /\ writer' = [pc |-> "opened", lines |-> ls, indexed |-> indexed, attached |-> TRUE]
      /\ UNCHANGED <<file, compact, acked, crashes>>
  BY DEF OpenLog
<1>2. /\ EnsureIndex \in [cached : BOOLEAN, next : Nat, latest : Maps]
      /\ EnsureIndex.cached
      /\ ~AuditLog /\ Unskipped(file) => EnsureIndex.latest = acked
  BY <1>1, IndexForAppend
<1>3. /\ EnsuredTail \in Tails
      /\ EnsuredTail = "partial" <=> tail = "partial"
      /\ EnsuredTail = "header" <=> tail = "header"
      /\ EnsuredTail # "none"
  BY EnsuredTailProperties DEF IInv, TypeOK
<1>4. TypeOK'
  BY <1>1, <1>2, <1>3 DEF IInv, TypeOK
<1>5. compact.pc = "idle"
  BY <1>1, LogConstants DEF IInv, TypeOK, CompactInv
<1>6. WriterInv'
  BY <1>1, <1>2, <1>5 DEF WriterInv
<1>7. SkippedInv'
  BY <1>1, <1>3 DEF IInv, SkippedInv
<1>8. AckedInv'
  BY <1>1, <1>3 DEF IInv, AckedInv
<1>9. IndexInv'
  BY <1>1, <1>2 DEF IndexInv
<1>10. CompactInv'
  BY <1>1, <1>5 DEF CompactInv
<1> QED
  BY <1>4, <1>6, <1>7, <1>8, <1>9, <1>10 DEF IInv

LEMMA StartAppendStep ==
  ASSUME Compaction # "concurrent", IInv, StartAppend
  PROVE  IInv'
<1>1. writer.pc = "idle" /\ IndexAvailable => EnsureIndex.next \in Nat
  BY IndexForAppend
<1>2. ASSUME NEW id \in Ids, NEW v \in Vals, AppendRecord(id, v)
      PROVE  IInv'
  <2> DEFINE ls == <<Put(EnsureIndex.next, id, v)>>
  <2>1. OpenLog(ls, TRUE)
    BY <1>2 DEF AppendRecord
  <2>2. EnsureIndex.next \in Nat => Put(EnsureIndex.next, id, v) \in Envelopes
    BY DEF Put, Envelopes, Puts
  <2>3. writer.pc = "idle" /\ IndexAvailable => ls \in Seq(Envelopes) /\ ls # <<>>
    BY <1>1, <2>2
  <2> HIDE DEF ls
  <2> QED
    BY <2>1, <2>3, OpenLogStep
<1>3. ASSUME NEW id \in Ids, AppendDelete(id)
      PROVE  IInv'
  <2> DEFINE ls == <<Delete(EnsureIndex.next, id)>>
  <2>1. ~AuditLog /\ OpenLog(ls, TRUE)
    BY <1>3 DEF AppendDelete
  <2>2. EnsureIndex.next \in Nat => Delete(EnsureIndex.next, id) \in Envelopes
    BY DEF Delete, Envelopes, Deletes
  <2>3. writer.pc = "idle" /\ IndexAvailable => ls \in Seq(Envelopes) /\ ls # <<>>
    BY <1>1, <2>2
  <2> HIDE DEF ls
  <2> QED
    BY <2>1, <2>3, OpenLogStep
<1>4. ASSUME NEW recs \in Batches, NEW first \in Nat
      PROVE  PutLines(first, recs) \in Seq(Envelopes) /\ PutLines(first, recs) # <<>>
  <2>1. PICK n \in 1 .. MaxBatch : recs \in [1 .. n -> [id : Ids, val : Vals]]
    BY DEF Batches
  <2>2. n \in Nat /\ n >= 1 /\ DOMAIN recs = 1 .. n
    BY <2>1, LogConstants
  <2>3. \A i \in 1 .. n : Put(first + i - 1, recs[i].id, recs[i].val) \in Envelopes
    BY <2>1, <2>2 DEF Put, Envelopes, Puts
  <2>4. PutLines(first, recs) = [i \in 1 .. n |-> Put(first + i - 1, recs[i].id, recs[i].val)]
    BY <2>2 DEF PutLines
  <2>5. PutLines(first, recs) \in [1 .. n -> Envelopes]
    BY <2>3, <2>4
  <2>6. PutLines(first, recs) \in Seq(Envelopes) /\ Len(PutLines(first, recs)) = n
    BY <2>2, <2>5
  <2> QED
    BY <2>2, <2>6
<1>5. ASSUME NEW recs \in Batches, AppendRecords(recs)
      PROVE  IInv'
  <2> DEFINE ls == PutLines(EnsureIndex.next, recs)
  <2>1. OpenLog(ls, TRUE)
    BY <1>5 DEF AppendRecords
  <2>2. writer.pc = "idle" /\ IndexAvailable => ls \in Seq(Envelopes) /\ ls # <<>>
    BY <1>1, <1>4
  <2> HIDE DEF ls
  <2> QED
    BY <2>1, <2>2, OpenLogStep
<1>6. ASSUME NEW recs \in Batches, AppendRecordsUnindexed(recs)
      PROVE  IInv'
  <2> DEFINE ls == PutLines(EnsureIndex.next, recs)
  <2>1. AuditLog /\ OpenLog(ls, FALSE)
    BY <1>6 DEF AppendRecordsUnindexed
  <2>2. writer.pc = "idle" /\ IndexAvailable => ls \in Seq(Envelopes) /\ ls # <<>>
    BY <1>1, <1>4
  <2> HIDE DEF ls
  <2> QED
    BY <2>1, <2>2, OpenLogStep
<1> QED
  BY <1>2, <1>3, <1>5, <1>6 DEF StartAppend

LEMMA EnvelopesAreLines ==
  ASSUME NEW ls \in Seq(Envelopes)
  PROVE  ls \in Seq(Lines)
  BY SeqMonotonic DEF Lines

\* Bytes of a write reach the file.
LEMMA LinesWritten ==
  ASSUME IInv, writer.pc = "opened", NEW ls \in Seq(Envelopes), ls # <<>>,
         NEW w, w = Written(file, tail, ls)
  PROVE  /\ w \in Seq(Lines)
         /\ Unskipped(w) => Unskipped(file)
         /\ SkippedFirst(w)
         /\ Sound(w) => Latest(w) = Apply(acked, ls)
<1>1. file \in Seq(Lines) /\ tail \in Tails
  BY DEF IInv, TypeOK
<1>2. /\ w \in Seq(Lines)
      /\ Unskipped(w) => Unskipped(file)
      /\ Sound(w) => Sound(file) /\ tail # "partial" /\ w = file \o ls
      /\ SkippedFirst(file) /\ (tail = "header" => file = <<>>) => SkippedFirst(w)
  BY <1>1, WrittenProperties
<1>3. SkippedFirst(w)
  BY <1>2 DEF IInv, SkippedInv
<1>4. ASSUME Sound(w) PROVE Latest(w) = Apply(acked, ls)
  <2>1. Latest(file) = acked
    BY <1>2, <1>4 DEF IInv, AckedInv
  <2>2. w = file \o ls
    BY <1>2, <1>4
  <2> QED
    BY <1>1, <2>1, <2>2, LatestConcat, EnvelopesAreLines
<1> QED
  BY <1>2, <1>3, <1>4

LEMMA WriteLinesStep == IInv /\ WriteLines => IInv'
<1> SUFFICES ASSUME IInv, WriteLines PROVE IInv'
  OBVIOUS
<1>1. /\ writer.pc = "opened"
      /\ writer' = [writer EXCEPT !.pc = "written"]
      /\ UNCHANGED <<index, compact, acked, crashes>>
  BY DEF WriteLines
<1>2. /\ writer.attached /\ writer.lines # <<>> /\ index.cached /\ compact.pc = "idle"
      /\ ~AuditLog => writer.indexed
      /\ writer.lines \in Seq(Envelopes)
  BY <1>1 DEF IInv, WriterInv, TypeOK
<1>3. file' = Written(file, tail, writer.lines) /\ tail' \in {"open", "newline"}
  BY <1>2 DEF WriteLines
<1>4. /\ file' \in Seq(Lines)
      /\ Unskipped(file') => Unskipped(file)
      /\ SkippedFirst(file')
      /\ Sound(file') => Latest(file') = Apply(acked, writer.lines)
  BY <1>1, <1>2, <1>3, LinesWritten
<1>5. /\ writer'.pc = "written" /\ writer'.lines = writer.lines
      /\ writer'.indexed = writer.indexed /\ writer'.attached = writer.attached
      /\ writer' \in [pc : {"idle", "opened", "written"}, lines : Seq(Envelopes),
                      indexed : BOOLEAN, attached : BOOLEAN]
  BY <1>1 DEF IInv, TypeOK
<1>6. TypeOK'
  BY <1>1, <1>3, <1>4, <1>5 DEF IInv, TypeOK, Tails
<1>7. WriterInv'
  BY <1>1, <1>2, <1>3, <1>5 DEF WriterInv
<1>8. SkippedInv'
  BY <1>3, <1>4 DEF SkippedInv
<1>9. AckedInv'
  BY <1>1, <1>4, <1>5 DEF AckedInv
<1>10. IndexInv'
  BY <1>1, <1>4 DEF IInv, IndexInv
<1>11. CompactInv'
  BY <1>1, <1>2 DEF CompactInv
<1> QED
  BY <1>6, <1>7, <1>8, <1>9, <1>10, <1>11 DEF IInv

LEMMA FinishAppendStep == IInv /\ FinishAppend => IInv'
<1> SUFFICES ASSUME IInv, FinishAppend PROVE IInv'
  OBVIOUS
<1>1. /\ writer.pc = "written"
      /\ acked' = Apply(acked, writer.lines)
      /\ writer' = NoWriter
      /\ UNCHANGED <<file, compact, crashes>>
  BY DEF FinishAppend
<1>2. /\ writer.attached /\ writer.lines # <<>> /\ index.cached /\ compact.pc = "idle"
      /\ ~AuditLog => writer.indexed
      /\ writer.lines \in Seq(Envelopes) /\ writer.lines \in Seq(Lines)
  BY <1>1, EnvelopesAreLines DEF IInv, WriterInv, TypeOK
<1>3. tail' = "newline"
  BY <1>2 DEF FinishAppend
<1>4. Apply(acked, writer.lines) \in Maps /\ Apply(index.latest, writer.lines) \in Maps
  BY <1>2, ApplyType DEF IInv, TypeOK
<1>5. writer.lines[Len(writer.lines)].seq + 1 \in Nat
  <2>1. writer.lines[Len(writer.lines)] \in Envelopes
    BY <1>2
  <2> QED
    BY <2>1 DEF Envelopes, Puts, Deletes
<1>6. /\ index' \in [cached : BOOLEAN, next : Nat, latest : Maps]
      /\ ~AuditLog => index'.latest = Apply(index.latest, writer.lines)
  BY <1>2, <1>4, <1>5 DEF FinishAppend, IInv, TypeOK
<1>7. TypeOK'
  BY <1>1, <1>3, <1>4, <1>6 DEF IInv, TypeOK, Tails, NoWriter
<1>8. WriterInv'
  BY <1>1 DEF WriterInv, NoWriter
<1>9. SkippedInv'
  BY <1>1, <1>3 DEF IInv, SkippedInv
<1>10. AckedInv'
  <2> SUFFICES ASSUME Sound(file) PROVE Latest(file) = Apply(acked, writer.lines)
    BY <1>1 DEF AckedInv, NoWriter
  <2>1. CASE tail = "partial"
    BY <1>1, <2>1 DEF IInv, WriterInv
  <2>2. CASE tail # "partial"
    BY <1>1, <2>2 DEF IInv, AckedInv
  <2> QED
    BY <2>1, <2>2
<1>11. IndexInv'
  BY <1>1, <1>2, <1>6 DEF IInv, IndexInv
<1>12. CompactInv'
  BY <1>1, <1>2 DEF CompactInv
<1> QED
  BY <1>7, <1>8, <1>9, <1>10, <1>11, <1>12 DEF IInv

LEMMA CompactReadStep ==
  ASSUME Compaction # "concurrent", IInv, CompactRead
  PROVE  IInv'
<1>1. /\ Compaction = "quiescent" /\ writer.pc = "idle"
      /\ Readable(file, tail)
      /\ UNCHANGED <<file, tail, index, writer, acked, crashes>>
  BY LogConstants DEF CompactRead
<1>0. PICK n \in 0 .. Len(file) : \E s \in [1 .. n -> Survivors(file)] :
         /\ Compacted(file, s)
         /\ compact' = [pc |-> "read", out |-> HeaderLine(file) \o s]
  BY DEF CompactRead
<1>2. PICK s \in [1 .. n -> Survivors(file)] :
         /\ Compacted(file, s)
         /\ compact' = [pc |-> "read", out |-> HeaderLine(file) \o s]
  BY <1>0
<1> DEFINE o == HeaderLine(file) \o s
<1>3. file \in Seq(Lines) /\ n \in Nat
  BY DEF IInv, TypeOK
<1>4. o \in Seq(Lines) /\ Latest(o) = Latest(file)
  BY <1>2, <1>3, CompactedLatest
<1>5. ASSUME Unskipped(o)
      PROVE  Sound(file) /\ tail # "partial"
  <2>1. ASSUME file # <<>>, file[1] = Skipped
        PROVE  FALSE
    <3>1. HeaderLine(file) = <<Skipped>>
      BY <2>1 DEF HeaderLine
    <3>2. s \in Seq(Survivors(file))
      BY <1>2, <1>3
    <3>3. 1 \in DOMAIN o /\ o[1] = Skipped
      BY <3>1, <3>2
    <3> QED
      BY <1>5, <3>3 DEF Unskipped
  <2>2. \A i \in DOMAIN file : file[i] # Skipped
    <3> SUFFICES ASSUME NEW i \in DOMAIN file, file[i] = Skipped PROVE FALSE
      OBVIOUS
    <3>1. i = 1
      BY DEF IInv, SkippedInv, SkippedFirst
    <3>2. file # <<>>
      BY <1>3
    <3> QED
      BY <2>1, <3>1, <3>2
  <2> QED
    BY <1>1, <2>2 DEF Sound, Readable
<1>6. compact'.pc = "read" /\ compact'.out = o
  BY <1>2
<1>10. SkippedFirst(o)
  <2>1. s \in Seq(Survivors(file)) /\ DOMAIN s = 1 .. n
    BY <1>2, <1>3
  <2>2. \A i \in DOMAIN s : s[i] # Skipped
    BY <1>2, <1>3, SurvivorsArePuts DEF Puts, Skipped
  <2>3. CASE HeaderLine(file) = <<>>
    <3>1. o = s
      BY <2>1, <2>3
    <3> QED
      BY <2>2, <3>1 DEF SkippedFirst
  <2>4. CASE HeaderLine(file) = <<Skipped>>
    <3>1. \A i \in DOMAIN o : i = 1 \/ (i - 1 \in DOMAIN s /\ o[i] = s[i - 1])
      BY <2>1, <2>4
    <3> QED
      BY <2>2, <3>1 DEF SkippedFirst
  <2> QED
    BY <2>3, <2>4 DEF HeaderLine
<1> HIDE DEF o
<1>7. TypeOK'
  BY <1>1, <1>2, <1>4 DEF IInv, TypeOK, o
<1>8. WriterInv' /\ SkippedInv' /\ AckedInv' /\ IndexInv'
  BY <1>1 DEF IInv, WriterInv, SkippedInv, AckedInv, IndexInv
<1>9. CompactInv'
  BY <1>1, <1>4, <1>5, <1>6, <1>10 DEF CompactInv
<1> QED
  BY <1>7, <1>8, <1>9 DEF IInv

LEMMA CompactRenameStep == IInv /\ CompactRename => IInv'
<1> SUFFICES ASSUME IInv, CompactRename PROVE IInv'
  OBVIOUS
<1>1. /\ compact.pc = "read"
      /\ file' = compact.out /\ tail' = "newline"
      /\ index' = [index EXCEPT !.cached = FALSE]
      /\ writer' = [writer EXCEPT !.attached = FALSE]
      /\ compact' = NoCompaction
      /\ UNCHANGED <<acked, crashes>>
  BY DEF CompactRename
<1>2. /\ writer.pc = "idle"
      /\ Latest(compact.out) = Latest(file)
      /\ Unskipped(compact.out) => Sound(file) /\ tail # "partial"
      /\ SkippedFirst(compact.out)
  BY <1>1 DEF IInv, CompactInv
<1>3. TypeOK'
  <2>1. index' \in [cached : BOOLEAN, next : Nat, latest : Maps]
    BY <1>1 DEF IInv, TypeOK
  <2>2. writer' \in [pc : {"idle", "opened", "written"}, lines : Seq(Envelopes),
                    indexed : BOOLEAN, attached : BOOLEAN]
    BY <1>1 DEF IInv, TypeOK
  <2>3. compact' \in [pc : {"idle", "read"}, out : Seq(Lines)]
    BY <1>1 DEF NoCompaction
  <2> QED
    BY <1>1, <2>1, <2>2, <2>3 DEF IInv, TypeOK, Tails
<1>4. writer'.pc = "idle" /\ ~index'.cached
  BY <1>1, <1>2 DEF IInv, TypeOK
<1>5. WriterInv'
  BY <1>4 DEF WriterInv
<1>6. SkippedInv'
  BY <1>1, <1>2 DEF SkippedInv
<1>7. AckedInv'
  <2>1. Sound(compact.out) => Unskipped(compact.out)
    BY DEF Sound, Unskipped
  <2>2. Sound(compact.out) => Latest(compact.out) = acked
    BY <1>2, <2>1 DEF IInv, AckedInv
  <2> QED
    BY <1>1, <1>4, <2>2 DEF AckedInv
<1>8. IndexInv'
  BY <1>4 DEF IndexInv
<1>9. CompactInv'
  BY <1>1 DEF CompactInv, NoCompaction
<1> QED
  BY <1>3, <1>5, <1>6, <1>7, <1>8, <1>9 DEF IInv

\* What every crash leaves to show.
LEMMA RestartStep ==
  ASSUME IInv, Restart,
         file' \in Seq(Lines), tail' \in Tails, acked' \in Maps,
         SkippedFirst(file'), (tail' \in {"none", "header"} => file' = <<>>),
         Sound(file') /\ tail' # "partial" => Latest(file') = acked'
  PROVE  IInv'
<1>1. /\ index' = NoIndex /\ writer' = NoWriter /\ compact' = NoCompaction
      /\ crashes' \in 0 .. MaxCrashes
  BY LogConstants DEF Restart, IInv, TypeOK
<1>2. TypeOK'
  BY <1>1, EmptyType DEF TypeOK, NoIndex, NoWriter, NoCompaction
<1>3. WriterInv' /\ SkippedInv' /\ AckedInv' /\ IndexInv' /\ CompactInv'
  BY <1>1 DEF WriterInv, SkippedInv, AckedInv, IndexInv, CompactInv,
              NoIndex, NoWriter, NoCompaction
<1> QED
  BY <1>2, <1>3 DEF IInv

LEMMA CrashStep == IInv /\ Crash => IInv'
<1> SUFFICES ASSUME IInv, Crash PROVE IInv'
  OBVIOUS
<1>1. /\ Restart /\ writer.pc # "opened"
      /\ acked' = IF writer.pc = "written" /\ writer.attached
                  THEN Apply(acked, writer.lines) ELSE acked
      /\ UNCHANGED <<file, tail>>
  BY DEF Crash
<1>2. CASE writer.pc = "written"
  <2>1. acked' = Apply(acked, writer.lines) /\ writer.lines \in Seq(Lines)
    BY <1>1, <1>2, EnvelopesAreLines DEF IInv, WriterInv, TypeOK
  <2>2. acked' \in Maps
    BY <2>1, ApplyType DEF IInv, TypeOK
  <2> QED
    BY <1>1, <1>2, <2>1, <2>2, RestartStep DEF IInv, TypeOK, SkippedInv, AckedInv
<1>3. CASE writer.pc # "written"
  BY <1>1, <1>3, RestartStep DEF IInv, TypeOK, SkippedInv, AckedInv
<1> QED
  BY <1>2, <1>3

LEMMA CrashInWriteStep == IInv /\ CrashInWrite => IInv'
<1> SUFFICES ASSUME IInv, CrashInWrite PROVE IInv'
  OBVIOUS
<1>1. Restart /\ writer.pc = "opened" /\ writer.lines \in Seq(Envelopes)
  BY DEF CrashInWrite, IInv, TypeOK
<1>2. ASSUME NEW k \in 1 .. Len(writer.lines), NEW t \in {"newline", "open", "partial"},
             file' = Written(file, tail, SubSeq(writer.lines, 1, k)),
             tail' = t,
             acked' = Apply(acked, SubSeq(writer.lines, 1, k))
      PROVE  IInv'
  <2> DEFINE ls == SubSeq(writer.lines, 1, k)
  <2>1. ls \in Seq(Envelopes) /\ ls # <<>>
    BY <1>1
  <2> HIDE DEF ls
  <2>2. /\ file' \in Seq(Lines)
        /\ SkippedFirst(file')
        /\ Sound(file') => Latest(file') = Apply(acked, ls)
    BY <1>1, <1>2, <2>1, LinesWritten DEF ls
  <2>3. acked' = Apply(acked, ls) /\ acked' \in Maps
    BY <1>2, <2>1, EnvelopesAreLines, ApplyType DEF IInv, TypeOK, ls
  <2>4. tail' \in Tails /\ tail' \notin {"none", "header"}
    BY <1>2 DEF Tails
  <2> QED
    BY <1>1, <2>2, <2>3, <2>4, RestartStep
<1>3. ASSUME tail' = tail \/ tail' = "partial", UNCHANGED <<file, acked>>
      PROVE  IInv'
  <2>1. tail' \in Tails
    BY <1>3 DEF IInv, TypeOK, Tails
  <2>2. Sound(file) /\ tail # "partial" => Latest(file) = acked
    BY <1>1 DEF IInv, AckedInv
  <2> QED
    BY <1>1, <1>3, <2>1, <2>2, RestartStep DEF IInv, TypeOK, SkippedInv
<1> QED
  BY <1>2, <1>3 DEF CrashInWrite

LEMMA CrashBeforeWriteStep == IInv /\ CrashBeforeWrite => IInv'
<1> SUFFICES ASSUME IInv, CrashBeforeWrite PROVE IInv'
  OBVIOUS
<1>1. Restart /\ writer.pc = "opened" /\ UNCHANGED <<file, tail, acked>>
  BY DEF CrashBeforeWrite
<1> QED
  BY <1>1, RestartStep DEF IInv, TypeOK, SkippedInv, AckedInv

LEMMA CrashInHeaderStep == IInv /\ CrashInHeader => IInv'
<1> SUFFICES ASSUME IInv, CrashInHeader PROVE IInv'
  OBVIOUS
<1>1. Restart /\ tail = "none" /\ writer.pc = "idle" /\ UNCHANGED <<file, acked>>
  BY DEF CrashInHeader
<1>2. tail' \in Tails
  BY DEF CrashInHeader, Tails
<1>3. file = <<>>
  BY <1>1 DEF IInv, SkippedInv
<1>4. Sound(file) => Latest(file) = acked
  BY <1>1 DEF IInv, AckedInv
<1> QED
  BY <1>1, <1>2, <1>3, <1>4, RestartStep DEF IInv, TypeOK, SkippedInv

LEMMA NextIInv ==
  ASSUME Compaction # "concurrent"
  PROVE  IInv /\ [Next]_vars => IInv'
<1> SUFFICES ASSUME IInv, [Next]_vars PROVE IInv'
  OBVIOUS
<1>1. CASE WarmLog
  BY <1>1, WarmLogStep
<1>2. CASE ReturnError \/ UNCHANGED vars
  BY <1>2 DEF ReturnError, vars, IInv, TypeOK, WriterInv, SkippedInv, AckedInv, IndexInv, CompactInv
<1>3. CASE StartAppend
  BY <1>3, StartAppendStep
<1>4. CASE WriteLines
  BY <1>4, WriteLinesStep
<1>5. CASE FinishAppend
  BY <1>5, FinishAppendStep
<1>6. CASE CompactRead
  BY <1>6, CompactReadStep
<1>7. CASE CompactRename
  BY <1>7, CompactRenameStep
<1>8. CASE Crash
  BY <1>8, CrashStep
<1>9. CASE CrashInWrite
  BY <1>9, CrashInWriteStep
<1>10. CASE CrashBeforeWrite
  BY <1>10, CrashBeforeWriteStep
<1>11. CASE CrashInHeader
  BY <1>11, CrashInHeaderStep
<1> QED
  BY <1>1, <1>2, <1>3, <1>4, <1>5, <1>6, <1>7, <1>8, <1>9, <1>10, <1>11 DEF Next

-----------------------------------------------------------------------------
(* The theorems.                                                             *)

LEMMA SoundIsIntact == Intact <=> Sound(file) /\ tail # "partial"
  BY DEF Intact, Readable, HeaderIntact, Sound

\* The inductive invariant holds of every behaviour in which no append runs
\* during a compaction.
LEMMA SpecIInv ==
  ASSUME Compaction # "concurrent"
  PROVE  Spec => []IInv
<1>1. Init => IInv
  BY InitIInv
<1>2. IInv /\ [Next]_vars => IInv'
  BY NextIInv
<1> QED
  BY <1>1, <1>2, PTL DEF Spec

\* Every variable of the log keeps its type.
THEOREM TypeCorrect ==
  ASSUME Compaction # "concurrent"
  PROVE  Spec => []TypeOK
<1>1. IInv => TypeOK
  BY DEF IInv
<1> QED
  BY <1>1, SpecIInv, PTL

\* Crash recovery of append_record, append_delete, append_records and compact_one:
\* an undamaged log replays to exactly the acknowledged values.
THEOREM AckedSurvivesCrashes ==
  ASSUME Compaction # "concurrent"
  PROVE  Spec => []AckedSurvives
<1>1. IInv => AckedSurvives
  BY SoundIsIntact DEF IInv, AckedInv, AckedSurvives
<1> QED
  BY <1>1, SpecIInv, PTL

\* The index that ensure_index_unlocked accepts is never behind an acknowledged
\* append, even when the file has been damaged in the meantime.
THEOREM IndexServesAcked ==
  ASSUME Compaction # "concurrent"
  PROVE  Spec => []ReadersSeeAcked
<1>1. IInv => ReadersSeeAcked
  BY DEF IInv, IndexInv, ReadersSeeAcked, HeaderIntact, Unskipped
<1> QED
  BY <1>1, SpecIInv, PTL

\* compact_one's rename leaves what a replay returns as it was, when it is run in
\* the absence of appends.
THEOREM CompactionIsTransparent ==
  ASSUME Compaction # "concurrent"
  PROVE  Spec => CompactionPreservesLatest
<1>1. IInv => [CompactRename /\ writer.pc = "idle" => Latest(file') = Latest(file)]_vars
  BY DEF IInv, CompactInv, CompactRename
<1> QED
  BY <1>1, SpecIInv, PTL DEF Spec, CompactionPreservesLatest

-----------------------------------------------------------------------------
(***************************************************************************)
(* Sequence numbers of a log that is never compacted.  The number of the   *)
(* next append comes from the cached index or from the last line of the    *)
(* file; SeqInv says why it is above every number of an undamaged file,    *)
(* and what a writer still holds of that.                                  *)
(***************************************************************************)
Increasing(f) == \A i, j \in DOMAIN f : i < j => f[i].seq < f[j].seq
Below(f, n) == \A i \in DOMAIN f : f[i].seq < n
AllBelow(f, g) == \A i \in DOMAIN f : \A j \in DOMAIN g : f[i].seq < g[j].seq

SeqInv ==
    Sound(file) =>
        /\ Increasing(file)
        /\ writer.pc = "idle" /\ index.cached => Below(file, index.next)
        /\ writer.pc = "opened" => Increasing(writer.lines) /\ AllBelow(file, writer.lines)
        /\ writer.pc = "written" => Below(file, writer.lines[Len(writer.lines)].seq + 1)

\* The numbers of lines are naturals.
LEMMA LineSeqs ==
  ASSUME NEW f \in Seq(Lines)
  PROVE  /\ Len(f) \in Nat /\ DOMAIN f = 1 .. Len(f)
         /\ \A i \in DOMAIN f : f[i].seq \in Nat
<1>1. \A l \in Lines : l.seq \in Nat
  BY DEF Lines, Envelopes, Puts, Deletes, Bad, Skipped
<1>2. Len(f) \in Nat /\ DOMAIN f = 1 .. Len(f) /\ \A i \in DOMAIN f : f[i] \in Lines
  BY ElementOfSeq, LenProperties
<1> QED
  BY <1>1, <1>2

\* An increasing file ends in its greatest number.
LEMMA LastIsGreatest ==
  ASSUME NEW f \in Seq(Lines), Increasing(f), f # <<>>
  PROVE  Len(f) \in DOMAIN f /\ Below(f, f[Len(f)].seq + 1)
<1>1. Len(f) \in Nat /\ DOMAIN f = 1 .. Len(f) /\ \A i \in DOMAIN f : f[i].seq \in Nat
  BY LineSeqs
<1>2. Len(f) \in DOMAIN f
  BY <1>1, EmptySeq
<1>3. ASSUME NEW i \in DOMAIN f
      PROVE  f[i].seq < f[Len(f)].seq + 1
  <2>1. CASE i = Len(f)
    BY <1>1, <1>2, <2>1
  <2>2. CASE i < Len(f)
    <3>1. f[i].seq < f[Len(f)].seq
      BY <1>2, <2>2 DEF Increasing
    <3> QED
      BY <1>1, <1>2, <3>1
  <2> QED
    BY <1>1, <2>1, <2>2
<1> QED
  BY <1>2, <1>3 DEF Below

\* Greater numbers at the end of an increasing file.
LEMMA AppendedIncreasing ==
  ASSUME NEW f \in Seq(Lines), NEW ls \in Seq(Lines),
         Increasing(f), Increasing(ls), AllBelow(f, ls)
  PROVE  /\ Increasing(f \o ls)
         /\ ls # <<>> => Below(f \o ls, ls[Len(ls)].seq + 1)
<1>1. /\ Len(f) \in Nat /\ DOMAIN f = 1 .. Len(f) /\ \A i \in DOMAIN f : f[i].seq \in Nat
      /\ Len(ls) \in Nat /\ DOMAIN ls = 1 .. Len(ls) /\ \A i \in DOMAIN ls : ls[i].seq \in Nat
  BY LineSeqs
<1> DEFINE h == f \o ls
<1>2. /\ h \in Seq(Lines) /\ Len(h) = Len(f) + Len(ls) /\ DOMAIN h = 1 .. Len(f) + Len(ls)
      /\ \A i \in DOMAIN f : h[i] = f[i]
      /\ \A i \in DOMAIN h : i > Len(f) => i - Len(f) \in DOMAIN ls /\ h[i] = ls[i - Len(f)]
  BY <1>1, ConcatProperties, LenProperties
<1> HIDE DEF h
<1>3. ASSUME NEW i \in DOMAIN h, NEW j \in DOMAIN h, i < j
      PROVE  h[i].seq < h[j].seq
  <2>1. CASE j <= Len(f)
    <3>1. i \in DOMAIN f /\ j \in DOMAIN f
      BY <1>1, <1>2, <1>3, <2>1
    <3> QED
      BY <1>2, <1>3, <3>1 DEF Increasing
  <2>2. CASE j > Len(f)
    <3>1. PICK n \in DOMAIN ls : n = j - Len(f) /\ h[j] = ls[n]
      BY <1>2, <2>2
    <3>2. CASE i <= Len(f)
      <4>1. i \in DOMAIN f /\ h[i] = f[i]
        BY <1>1, <1>2, <3>2
      <4> QED
        BY <3>1, <4>1 DEF AllBelow
    <3>3. CASE i > Len(f)
      <4>1. PICK k \in DOMAIN ls : k = i - Len(f) /\ h[i] = ls[k]
        BY <1>2, <3>3
      <4>2. k < n
        BY <1>1, <1>2, <1>3, <3>1, <4>1
      <4> QED
        BY <3>1, <4>1, <4>2 DEF Increasing
    <3> QED
      BY <1>1, <1>2, <3>2, <3>3
  <2> QED
    BY <1>1, <1>2, <2>1, <2>2
<1>4. Increasing(h)
  BY <1>3 DEF Increasing
<1>5. ASSUME ls # <<>>
      PROVE  Below(h, ls[Len(ls)].seq + 1)
  <2>1. Len(ls) \in DOMAIN ls
    BY <1>1, <1>5, EmptySeq
  <2>2. Len(h) - Len(f) = Len(ls) /\ Len(h) > Len(f) /\ Len(h) \in DOMAIN h
    BY <1>1, <1>2, <2>1
  <2>3. h[Len(h)] = ls[Len(ls)] /\ h # <<>>
    BY <1>2, <2>2
  <2> QED
    BY <1>2, <1>4, <2>3, LastIsGreatest
<1> QED
  BY <1>4, <1>5 DEF h

\* The number that an append starts from is above those of the file.
LEMMA NextIsAbove ==
  ASSUME IInv, SeqInv, Sound(file), writer.pc = "idle", IndexAvailable
  PROVE  EnsureIndex.next \in Nat /\ Below(file, EnsureIndex.next)
<1>1. EnsureIndex.next \in Nat
  BY IndexForAppend
<1>2. CASE index.cached
  BY <1>1, <1>2 DEF SeqInv, EnsureIndex
<1>3. CASE ~index.cached
  <2>1. EnsureIndex.next = NextSeq(file)
    BY <1>3 DEF EnsureIndex
  <2>2. CASE file = <<>>
    BY <1>1, <2>2 DEF Below
  <2>3. CASE file # <<>>
    <3>1. file \in Seq(Lines) /\ Increasing(file)
      BY DEF IInv, TypeOK, SeqInv
    <3> QED
      BY <1>1, <2>1, <2>3, <3>1, LastIsGreatest DEF NextSeq
  <2> QED
    BY <2>2, <2>3
<1> QED
  BY <1>2, <1>3

\* An append of lines numbered from there.
LEMMA OpenLogSeq ==
  ASSUME IInv, SeqInv, NEW ls \in Seq(Envelopes), NEW indexed, OpenLog(ls, indexed),
         Increasing(ls), \A j \in DOMAIN ls : ls[j].seq >= EnsureIndex.next
  PROVE  SeqInv'
<1>1. /\ writer.pc = "idle" /\ IndexAvailable
      /\ writer' = [pc |-> "opened", lines |-> ls, indexed |-> indexed, attached |-> TRUE]
      /\ file' = file
  BY DEF OpenLog
<1>2. /\ \A j \in DOMAIN ls : ls[j].seq \in Nat
      /\ \A i \in DOMAIN file : file[i].seq \in Nat
  BY LineSeqs, EnvelopesAreLines DEF IInv, TypeOK
<1>3. Sound(file) => AllBelow(file, ls)
  <2> SUFFICES ASSUME Sound(file), NEW i \in DOMAIN file, NEW j \in DOMAIN ls
               PROVE  file[i].seq < ls[j].seq
    BY DEF AllBelow
  <2>1. EnsureIndex.next \in Nat /\ file[i].seq < EnsureIndex.next
    BY <1>1, NextIsAbove DEF Below
  <2> QED
    BY <1>2, <2>1
<1> QED
  BY <1>1, <1>3 DEF SeqInv

\* A batch has consecutive numbers.
LEMMA BatchSeqs ==
  ASSUME NEW recs \in Batches, NEW first \in Nat
  PROVE  LET ls == PutLines(first, recs) IN
         /\ ls \in Seq(Envelopes) /\ Increasing(ls)
         /\ \A j \in DOMAIN ls : ls[j].seq >= first
<1>1. PICK n \in 1 .. MaxBatch : recs \in [1 .. n -> [id : Ids, val : Vals]]
  BY DEF Batches
<1>2. n \in Nat /\ DOMAIN recs = 1 .. n
  BY <1>1, LogConstants
<1> DEFINE ls == PutLines(first, recs)
<1>3. ls = [i \in 1 .. n |-> Put(first + i - 1, recs[i].id, recs[i].val)]
  BY <1>2 DEF PutLines
<1>4. \A i \in 1 .. n : Put(first + i - 1, recs[i].id, recs[i].val) \in Envelopes
  BY <1>1, <1>2 DEF Put, Envelopes, Puts
<1>5. ls \in Seq(Envelopes)
  <2>1. ls \in [1 .. n -> Envelopes]
    BY <1>3, <1>4
  <2> QED
    BY <1>2, <2>1, IsASeq
<1>6. DOMAIN ls = 1 .. n /\ \A i \in 1 .. n : ls[i].seq = first + i - 1
  BY <1>3 DEF Put
<1> HIDE DEF ls
<1>7. Increasing(ls) /\ \A j \in DOMAIN ls : ls[j].seq >= first
  BY <1>2, <1>6 DEF Increasing
<1> QED
  BY <1>5, <1>7 DEF ls

\* Every append starts from a number that is above those of the file.
LEMMA StartAppendSeq ==
  ASSUME IInv, SeqInv, StartAppend
  PROVE  SeqInv'
<1>1. writer.pc = "idle" /\ IndexAvailable /\ EnsureIndex.next \in Nat
  <2>1. writer.pc = "idle" /\ IndexAvailable
    BY DEF StartAppend, AppendRecord, AppendDelete, AppendRecords, AppendRecordsUnindexed, OpenLog
  <2> QED
    BY <2>1, IndexForAppend
<1>2. PICK first \in Nat : first = EnsureIndex.next
  BY <1>1
<1>3. ASSUME NEW l \in Envelopes, l.seq = first, OpenLog(<<l>>, TRUE)
      PROVE  SeqInv'
  <2>1. <<l>> \in Seq(Envelopes) /\ DOMAIN <<l>> = 1 .. 1 /\ <<l>>[1] = l
    OBVIOUS
  <2>2. Increasing(<<l>>)
    BY <2>1 DEF Increasing
  <2>3. \A j \in DOMAIN <<l>> : <<l>>[j].seq >= EnsureIndex.next
    BY <1>2, <1>3, <2>1
  <2> QED
    BY <1>3, <2>1, <2>2, <2>3, OpenLogSeq
<1>4. ASSUME NEW id \in Ids, NEW v \in Vals, AppendRecord(id, v)
      PROVE  SeqInv'
  <2>1. Put(first, id, v) \in Envelopes /\ Put(first, id, v).seq = first
    BY DEF Put, Envelopes, Puts
  <2> QED
    BY <1>2, <1>3, <1>4, <2>1 DEF AppendRecord
<1>5. ASSUME NEW id \in Ids, AppendDelete(id)
      PROVE  SeqInv'
  <2>1. Delete(first, id) \in Envelopes /\ Delete(first, id).seq = first
    BY DEF Delete, Envelopes, Deletes
  <2> QED
    BY <1>2, <1>3, <1>5, <2>1 DEF AppendDelete
<1>6. ASSUME NEW recs \in Batches, AppendRecords(recs) \/ AppendRecordsUnindexed(recs)
      PROVE  SeqInv'
  <2>1. PICK indexed \in BOOLEAN : OpenLog(PutLines(first, recs), indexed)
    BY <1>2, <1>6 DEF AppendRecords, AppendRecordsUnindexed
  <2>2. /\ PutLines(first, recs) \in Seq(Envelopes) /\ Increasing(PutLines(first, recs))
        /\ \A j \in DOMAIN PutLines(first, recs) : PutLines(first, recs)[j].seq >= EnsureIndex.next
    BY <1>2, BatchSeqs
  <2> QED
    BY <2>1, <2>2, OpenLogSeq
<1> QED
  BY <1>4, <1>5, <1>6 DEF StartAppend

\* The bytes of a write, or of a part of it that ends with a whole line.
LEMMA WrittenSeq ==
  ASSUME IInv, SeqInv, writer.pc = "opened", NEW k \in 1 .. Len(writer.lines),
         NEW ls, ls = SubSeq(writer.lines, 1, k),
         file' = Written(file, tail, ls), Sound(file')
  PROVE  Increasing(file)' /\ Below(file', ls[Len(ls)].seq + 1)
<1>1. writer.lines \in Seq(Envelopes) /\ file \in Seq(Lines) /\ tail \in Tails
  BY DEF IInv, TypeOK
<1>2. /\ ls \in Seq(Envelopes) /\ ls # <<>> /\ DOMAIN ls = 1 .. k
      /\ DOMAIN writer.lines = 1 .. Len(writer.lines) /\ Len(writer.lines) \in Nat
      /\ \A i \in 1 .. k : ls[i] = writer.lines[i]
  BY <1>1
<1>3. Sound(file) /\ file' = file \o ls
  BY <1>1, <1>2, WrittenProperties
<1>4. Increasing(file) /\ Increasing(writer.lines) /\ AllBelow(file, writer.lines)
  BY <1>3 DEF SeqInv
<1>5. \A i \in DOMAIN ls : i \in DOMAIN writer.lines /\ ls[i] = writer.lines[i]
  BY <1>2
<1>6. Increasing(ls)
  BY <1>4, <1>5 DEF Increasing
<1>7. AllBelow(file, ls)
  BY <1>4, <1>5 DEF AllBelow
<1> QED
  BY <1>1, <1>2, <1>3, <1>4, <1>6, <1>7, EnvelopesAreLines, AppendedIncreasing DEF Increasing

\* Every step of a log that is never compacted preserves SeqInv.
LEMMA SeqStep ==
  ASSUME Compaction = "never", IInv, SeqInv, [Next]_vars
  PROVE  SeqInv'
<1>1. CASE WarmLog
  <2>1. /\ writer.pc = "idle" /\ IndexAvailable /\ index' = EnsureIndex
        /\ UNCHANGED <<file, writer>>
    BY <1>1 DEF WarmLog
  <2> QED
    BY <2>1, NextIsAbove DEF SeqInv
<1>2. CASE ReturnError \/ UNCHANGED vars
  BY <1>2 DEF ReturnError, vars, SeqInv
<1>3. CASE StartAppend
  BY <1>3, StartAppendSeq
<1>4. CASE WriteLines
  <2>1. /\ writer.pc = "opened" /\ writer'.pc = "written" /\ writer'.lines = writer.lines
        /\ writer.lines \in Seq(Envelopes) /\ writer.lines # <<>>
        /\ file' = Written(file, tail, writer.lines)
    BY <1>4 DEF WriteLines, IInv, WriterInv, TypeOK
  <2>2. Len(writer.lines) \in 1 .. Len(writer.lines)
    BY <2>1
  <2>3. SubSeq(writer.lines, 1, Len(writer.lines)) = writer.lines
    BY <2>1
  <2> QED
    BY <2>1, <2>2, <2>3, WrittenSeq DEF SeqInv
<1>5. CASE FinishAppend
  <2>1. /\ writer.pc = "written" /\ writer'.pc = "idle" /\ file' = file
        /\ index'.next = writer.lines[Len(writer.lines)].seq + 1
    BY <1>5 DEF FinishAppend, NoWriter
  <2> QED
    BY <2>1 DEF SeqInv
<1>6. CASE CompactRead \/ CompactRename
  BY <1>6 DEF CompactRead, CompactRename, IInv, CompactInv
<1>7. CASE CrashInWrite
  <2>1. writer.pc = "opened" /\ ~index'.cached /\ writer'.pc = "idle"
    BY <1>7 DEF CrashInWrite, Restart, NoIndex, NoWriter
  <2>2. CASE file' = file
    BY <2>1, <2>2 DEF SeqInv
  <2>3. CASE \E k \in 1 .. Len(writer.lines) :
               file' = Written(file, tail, SubSeq(writer.lines, 1, k))
    BY <2>1, <2>3, WrittenSeq DEF SeqInv
  <2> QED
    BY <1>7, <2>2, <2>3 DEF CrashInWrite
<1>8. CASE Crash \/ CrashBeforeWrite \/ CrashInHeader
  <2>1. file' = file /\ ~index'.cached /\ writer'.pc = "idle"
    BY <1>8 DEF Crash, CrashBeforeWrite, CrashInHeader, Restart, NoIndex, NoWriter
  <2> QED
    BY <2>1 DEF SeqInv
<1> QED
  BY <1>1, <1>2, <1>3, <1>4, <1>5, <1>6, <1>7, <1>8 DEF Next

\* README.md's "monotonic seq": along an undamaged log that is never compacted, as the
\* audit log, numbers increase strictly, whatever batches leave the index of and wherever
\* the process stops.
THEOREM SeqsIncrease ==
  ASSUME Compaction = "never"
  PROVE  Spec => []SeqIncreasing
<1>1. Init => SeqInv
  BY DEF Init, SeqInv, Increasing, NoIndex, NoWriter
<1>2. IInv /\ SeqInv /\ [Next]_vars => SeqInv'
  BY SeqStep
<1>3. SeqInv => SeqIncreasing
  BY SoundIsIntact DEF SeqInv, SeqIncreasing, Increasing
<1>4. Spec => []IInv
  BY SpecIInv
<1> QED
  BY <1>1, <1>2, <1>3, <1>4, PTL DEF Spec
=============================================================================
