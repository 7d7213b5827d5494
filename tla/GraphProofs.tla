---------------------------- MODULE GraphProofs ----------------------------
(***************************************************************************)
(* Theorems about GroupClosure, GraphIndex and GraphQuery, for all groups, *)
(* documents and requests that IndexInputs and QueryRequests allow.        *)
(*                                                                         *)
(* FlowInv says that an index is BuiltIndex, made of complete closures;    *)
(* what holds of it follows from lemmas about the operators it is built    *)
(* from.  ScoreInv is the invariant of the expansion: breadth first from   *)
(* each seed, one seed after the other.  AnswerInv is what holds of an     *)
(* answer and its pack once they are given.                                *)
(*                                                                         *)
(* The loops of the code are recursive functions on the natural numbers.   *)
(* For each of them a lemma (...IsDefined) shows that there is such a      *)
(* function, and the next ones what it computes.  The provers take no      *)
(* induction rule with an operator for a parameter: SetInduction is one    *)
(* with a set.                                                             *)
(***************************************************************************)
EXTENDS GraphQuery, FiniteSetTheorems, SequenceTheorems, TLAPS

\* What the search of one origin may rely on: it stays within what can be reached,
\* everything visited and no longer queued has its parents visited, and the warning
\* was given if one of those leads back.
SearchInv ==
    origin \in Groups =>
        /\ origin \in visited
        /\ visited \subseteq Reachable(origin)
        /\ \A h \in visited \ queue : parents[h] \subseteq visited
        /\ origin \in cyclic <=> \E h \in visited \ queue : origin \in parents[h]

\* Nothing is under way between two searches, and warnings are about searches made.
IdleInv ==
    /\ origin = NoGroup => queue = {}
    /\ origin \notin DOMAIN closure
    /\ cyclic \subseteq DOMAIN closure \cup {origin}

\* The invariant of the searches.
GroupInv ==
    /\ GroupTypeOK
    /\ IdleInv
    /\ SearchInv
    /\ ClosureIsReachable
    /\ CyclesAreWarned

-----------------------------------------------------------------------------
\* A group reaches itself.
LEMMA ReachesItself == \A g \in Groups : g \in Reachable(g)
BY DEF Reachable

\* What can be reached has its parents among what can be reached.
LEMMA ReachesParents ==
    ASSUME NEW g \in Groups, NEW h \in Reachable(g),
           parents \in [Groups -> SUBSET Groups]
    PROVE  parents[h] \subseteq Reachable(g)
<1>1. SUFFICES ASSUME NEW k \in parents[h], NEW s \in SUBSET Groups, g \in s, Closed(s)
               PROVE  k \in s
  BY DEF Reachable
<1>2. h \in s
  BY <1>1 DEF Reachable
<1> QED
  BY <1>1, <1>2 DEF Closed

\* A set of groups that holds g and all parents of its members holds what g reaches.
LEMMA ClosedHoldsReachable ==
    ASSUME NEW g \in Groups, NEW s \in SUBSET Groups, g \in s, Closed(s)
    PROVE  Reachable(g) \subseteq s
BY DEF Reachable

-----------------------------------------------------------------------------
\* GroupInv at the start.
LEMMA GroupInitInv ==
    parents \in [Groups -> SUBSET Groups] /\ GroupInit => GroupInv
BY GroupConstants
   DEF GroupInit, GroupInv, GroupTypeOK, IdleInv, SearchInv, ClosureIsReachable,
       CyclesAreWarned

\* A search starts from its origin alone; of an earlier one no warning is left.
LEMMA StartKeeps ==
    ASSUME GroupInv, NEW g \in Groups, StartOrigin(g)
    PROVE  GroupInv'
<1> USE DEF GroupInv
<1>1. GroupTypeOK'
  BY DEF GroupTypeOK, StartOrigin
<1>2. IdleInv'
  BY GroupConstants DEF IdleInv, GroupTypeOK, StartOrigin
<1>3. Reachable(g)' = Reachable(g)
  BY DEF StartOrigin, Reachable, Closed
<1>4. g \notin cyclic
  BY GroupConstants DEF IdleInv, GroupTypeOK, StartOrigin
<1>5. SearchInv'
  BY <1>3, <1>4, ReachesItself DEF SearchInv, StartOrigin
<1>6. ClosureIsReachable' /\ CyclesAreWarned'
  BY DEF ClosureIsReachable, CyclesAreWarned, StartOrigin, Reachable, Closed
<1> QED
  BY <1>1, <1>2, <1>5, <1>6

\* A turn of the loop keeps to what can be reached and leaves one group less to do.
LEMMA VisitKeeps ==
    ASSUME GroupInv, NEW g \in Groups, VisitParents(g)
    PROVE  GroupInv'
<1> USE DEF GroupInv
<1>1. origin \in Groups /\ g \in visited /\ parents[g] \subseteq Groups
  BY DEF GroupTypeOK, IdleInv, VisitParents
<1>2. GroupTypeOK'
  BY <1>1 DEF GroupTypeOK, VisitParents
<1>3. IdleInv'
  BY <1>1, GroupConstants DEF IdleInv, VisitParents
<1>4. Reachable(origin)' = Reachable(origin) /\ origin' = origin /\ parents' = parents
  BY DEF VisitParents, Reachable, Closed
<1>5. SearchInv'
  <2>1. origin \in visited' /\ visited' \subseteq Reachable(origin)
    BY <1>1, ReachesParents DEF SearchInv, GroupTypeOK, VisitParents
  <2>2. visited' \ queue' = (visited \ queue) \cup {g}
    BY <1>1 DEF GroupTypeOK, VisitParents
  <2>3. \A h \in visited' \ queue' : parents[h] \subseteq visited'
    BY <1>1, <2>2 DEF SearchInv, VisitParents
  <2>4. origin \in cyclic' <=> \E h \in visited' \ queue' : origin \in parents[h]
    BY <1>1, <2>2 DEF SearchInv, VisitParents
  <2> QED
    BY <1>4, <2>1, <2>3, <2>4 DEF SearchInv
<1>6. \A h \in DOMAIN closure : h # origin /\ (h \in cyclic' <=> h \in cyclic)
  BY <1>1 DEF IdleInv, VisitParents
<1>7. ClosureIsReachable' /\ CyclesAreWarned'
  BY <1>6 DEF ClosureIsReachable, CyclesAreWarned, VisitParents, Reachable, Closed
<1> QED
  BY <1>2, <1>3, <1>5, <1>7

\* With an empty queue everything visited has its parents visited: that is all.
LEMMA FinishKeeps ==
    ASSUME GroupInv, FinishOrigin
    PROVE  GroupInv'
<1> USE DEF GroupInv
<1>1. origin \in Groups /\ origin \in visited /\ visited \in SUBSET Groups
  BY DEF GroupTypeOK, SearchInv, FinishOrigin
<1>2. Closed(visited)
  BY <1>1 DEF SearchInv, FinishOrigin, Closed
<1>3. visited = Reachable(origin)
  BY <1>1, <1>2, ClosedHoldsReachable DEF SearchInv
<1>4. origin \in cyclic <=> \E h \in Reachable(origin) : origin \in parents[h]
  BY <1>1, <1>3 DEF SearchInv, FinishOrigin
<1>5. /\ DOMAIN closure' = DOMAIN closure \cup {origin}
      /\ \A h \in DOMAIN closure' : closure'[h] = IF h = origin THEN visited ELSE closure[h]
      /\ origin' = NoGroup /\ queue' = {} /\ visited' = {} /\ cyclic' = cyclic /\ parents' = parents
  BY DEF FinishOrigin
<1>6. \A h : Reachable(h)' = Reachable(h)
  BY <1>5 DEF Reachable, Closed
<1>7. GroupTypeOK'
  BY <1>1, <1>5 DEF GroupTypeOK
<1>8. IdleInv' /\ SearchInv'
  BY <1>1, <1>5, GroupConstants DEF IdleInv, SearchInv, GroupTypeOK
<1>9. ClosureIsReachable'
  BY <1>3, <1>5, <1>6 DEF ClosureIsReachable
<1>10. CyclesAreWarned'
  BY <1>4, <1>5, <1>6 DEF CyclesAreWarned
<1> QED
  BY <1>7, <1>8, <1>9, <1>10

\* GroupInv is the invariant of the searches on their own.
LEMMA GroupInvariant == GroupSpec => []GroupInv
<1>1. GroupInv /\ UNCHANGED groupVars => GroupInv'
  BY DEF groupVars, GroupInv, GroupTypeOK, IdleInv, SearchInv, ClosureIsReachable,
         CyclesAreWarned, Reachable, Closed
<1>2. GroupInv /\ [GroupNext]_groupVars => GroupInv'
  BY <1>1, StartKeeps, VisitKeeps, FinishKeeps DEF GroupNext
<1> QED
  BY <1>2, GroupInitInv, PTL DEF GroupSpec

-----------------------------------------------------------------------------
\* apply_group_hierarchy: for any relations between any groups, a search ends with
\* exactly the groups its origin's membership propagates to.
THEOREM InheritedGroupsExact == GroupSpec => []ClosureIsReachable
BY GroupInvariant, PTL DEF GroupInv

\* A cycle warning is given exactly for the groups that lie on a cycle.
THEOREM CycleWarningsExact == GroupSpec => []CyclesAreWarned
BY GroupInvariant, PTL DEF GroupInv

-----------------------------------------------------------------------------
(* Induction, over sets of numbers.                                          *)

\* A nonempty set of numbers has a least element.
LEMMA LeastExists ==
    ASSUME NEW S, S \subseteq Nat, S # {}
    PROVE  \E m \in S : \A n \in S : n >= m
<1>1. PICK m \in S : \A n \in S : ~(<<n, m>> \in OpToRel(<, Nat))
  BY NatLessThanWellFounded, WFMin
<1>2. ASSUME NEW n \in S PROVE n >= m
  <2>1. SUFFICES ASSUME n < m PROVE FALSE
    OBVIOUS
  <2> QED
    BY <1>1, <2>1 DEF OpToRel
<1> QED
  BY <1>2

\* Induction on the natural numbers, for a set of them.
LEMMA SetInduction ==
    ASSUME NEW P, 0 \in P, \A n \in Nat : n \in P => n + 1 \in P
    PROVE  \A n \in Nat : n \in P
<1> DEFINE Q == {n \in Nat : n \notin P}
<1>1. SUFFICES ASSUME Q # {} PROVE FALSE
  OBVIOUS
<1>2. PICK m \in Q : \A n \in Q : n >= m
  <2>1. Q \subseteq Nat
    OBVIOUS
  <2> HIDE DEF Q
  <2> QED
    BY <1>1, <2>1, LeastExists
<1>3. m # 0 /\ m - 1 \in Nat /\ m - 1 \notin Q
  BY <1>2
<1> QED
  BY <1>3

\* A nonempty set of numbers up to n has a greatest and a least element.
LEMMA Extremes ==
    ASSUME NEW n \in Nat, NEW S, S \subseteq 0 .. n, S # {}
    PROVE  /\ \E k \in S : \A j \in S : j <= k
           /\ \E k \in S : \A j \in S : k <= j
<1> DEFINE P == {m \in Nat : m > n \/ \A T \in SUBSET (0 .. m) : T # {} =>
                    /\ \E k \in T : \A j \in T : j <= k
                    /\ \E k \in T : \A j \in T : k <= j}
<1>1. 0 \in P
  <2>1. SUFFICES ASSUME NEW T \in SUBSET (0 .. 0), T # {}
                 PROVE  /\ \E k \in T : \A j \in T : j <= k
                        /\ \E k \in T : \A j \in T : k <= j
    OBVIOUS
  <2>2. T = {0}
    <3>1. \A j \in T : j = 0
      OBVIOUS
    <3> QED
      BY <2>1, <3>1
  <2> QED
    BY <2>2
<1>2. ASSUME NEW m \in Nat, m \in P PROVE m + 1 \in P
  <2>1. SUFFICES ASSUME m + 1 <= n, NEW T \in SUBSET (0 .. m + 1), T # {}
                 PROVE  /\ \E k \in T : \A j \in T : j <= k
                        /\ \E k \in T : \A j \in T : k <= j
    OBVIOUS
  <2> DEFINE U == T \ {m + 1}
  <2>2. U \in SUBSET (0 .. m)
    OBVIOUS
  <2>3. CASE U = {}
    <3>1. T = {m + 1}
      BY <2>1, <2>3
    <3> QED
      BY <3>1
  <2>4. CASE U # {}
    <3>0. /\ \E k \in U : \A j \in U : j <= k
          /\ \E k \in U : \A j \in U : k <= j
      <4>1. ~(m > n)
        BY <2>1
      <4>2. \A V \in SUBSET (0 .. m) : V # {} =>
              /\ \E k \in V : \A j \in V : j <= k
              /\ \E k \in V : \A j \in V : k <= j
        BY <1>2, <4>1
      <4> HIDE DEF U
      <4> QED
        BY <2>2, <2>4, <4>2
    <3>1. PICK a \in U : \A j \in U : j <= a
      BY <3>0
    <3>2. PICK b \in U : \A j \in U : b <= j
      BY <3>0
    <3>3. a \in 0 .. m /\ b \in 0 .. m
      BY <2>2
    <3>4. CASE m + 1 \in T
      <4>1. \A j \in T : j <= m + 1 /\ b <= j
        BY <3>2, <3>3
      <4> QED
        BY <3>4, <4>1
    <3>5. CASE m + 1 \notin T
      BY <3>1, <3>2, <3>5
    <3> QED
      BY <3>4, <3>5
  <2> QED
    BY <2>3, <2>4
<1> HIDE DEF P
<1>3. n \in P
  BY <1>1, <1>2, SetInduction
<1> QED
  BY <1>3 DEF P

\* A finite nonempty set has an element with the greatest key.
LEMMA MaxByKey ==
    ASSUME NEW S, IsFiniteSet(S), S # {}, NEW key, \A x \in S : key[x] \in Int
    PROVE  \E x \in S : \A y \in S : key[x] >= key[y]
<1> DEFINE P == {n \in Nat : \A T \in SUBSET S :
                    IsFiniteSet(T) /\ Cardinality(T) = n /\ T # {} =>
                      \E x \in T : \A y \in T : key[x] >= key[y]}
<1>1. 0 \in P
  BY FS_EmptySet
<1>2. ASSUME NEW n \in Nat, n \in P PROVE n + 1 \in P
  <2>1. SUFFICES ASSUME NEW T \in SUBSET S, IsFiniteSet(T), Cardinality(T) = n + 1, T # {}
                 PROVE  \E x \in T : \A y \in T : key[x] >= key[y]
    OBVIOUS
  <2>2. PICK z : z \in T
    BY <2>1
  <2>3. IsFiniteSet(T \ {z}) /\ Cardinality(T \ {z}) = n
    <3>1. /\ IsFiniteSet(T \ {z})
          /\ Cardinality(T \ {z}) = IF z \in T THEN Cardinality(T) - 1 ELSE Cardinality(T)
      BY <2>1, FS_RemoveElement
    <3> QED
      BY <2>1, <2>2, <3>1
  <2>4. CASE T \ {z} = {}
    <3>1. T = {z}
      BY <2>2, <2>4
    <3> QED
      BY <3>1
  <2>5. CASE T \ {z} # {}
    <3>1. PICK x \in T \ {z} : \A y \in T \ {z} : key[x] >= key[y]
      BY <1>2, <2>1, <2>3, <2>5
    <3>2. key[x] \in Int /\ key[z] \in Int /\ \A y \in T : key[y] \in Int
      BY <2>2
    <3>3. CASE key[x] >= key[z]
      BY <3>1, <3>3
    <3>4. CASE ~(key[x] >= key[z])
      <4>1. \A y \in T : key[z] >= key[y]
        BY <3>1, <3>2, <3>4
      <4> QED
        BY <2>2, <4>1
    <3> QED
      BY <3>3, <3>4
  <2> QED
    BY <2>4, <2>5
<1> HIDE DEF P
<1>3. Cardinality(S) \in P
  BY <1>1, <1>2, SetInduction, FS_CardinalityType
<1> QED
  BY <1>3 DEF P

\* What a function makes of a finite set is finite.
LEMMA FiniteImage ==
    ASSUME NEW S, IsFiniteSet(S), NEW f, DOMAIN f = S, f = [x \in S |-> f[x]]
    PROVE  IsFiniteSet({f[x] : x \in S})
<1> DEFINE T == {f[x] : x \in S}
<1>1. f \in [S -> T]
  OBVIOUS
<1>2. \A y \in T : \E x \in S : f[x] = y
  OBVIOUS
<1> HIDE DEF T
<1>3. f \in Surjection(S, T)
  BY <1>1, <1>2 DEF Surjection
<1>4. ASSUME NEW U, f \in Surjection(S, U) PROVE IsFiniteSet(U)
  BY <1>4, FS_Surjection
<1> QED
  BY <1>3, <1>4 DEF T

-----------------------------------------------------------------------------
(* Lists of the elements of a set.                                           *)

\* The recursive function in Listed is one: it takes a value for every n.
LEMMA ListIsDefined ==
    ASSUME NEW S, NEW key, NEW N \in Nat
    PROVE  \E f : f = [n \in 0 .. N |-> IF n = 0 THEN <<>> ELSE Continued(S, key, f[n - 1])]
<1> DEFINE Next1(s) == Continued(S, key, s)
           P == {m \in Nat : \E f : f = [n \in 0 .. m |-> IF n = 0 THEN <<>> ELSE Next1(f[n - 1])]}
<1> HIDE DEF Next1
<1>1. 0 \in P
  <2> DEFINE f == [n \in 0 .. 0 |-> <<>>]
  <2>1. f = [n \in 0 .. 0 |-> IF n = 0 THEN <<>> ELSE Next1(f[n - 1])]
    <3>1. \A n \in 0 .. 0 : n = 0
      OBVIOUS
    <3> QED
      BY <3>1
  <2> HIDE DEF f
  <2> QED
    BY <2>1
<1>2. ASSUME NEW m \in Nat, m \in P PROVE m + 1 \in P
  <2>1. PICK f : f = [n \in 0 .. m |-> IF n = 0 THEN <<>> ELSE Next1(f[n - 1])]
    BY <1>2
  <2> DEFINE g == [n \in 0 .. m + 1 |-> IF n <= m THEN f[n] ELSE Next1(f[m])]
  <2>2. \A n \in 0 .. m + 1 : g[n] = IF n = 0 THEN <<>> ELSE Next1(g[n - 1])
    <3>1. ASSUME NEW n \in 0 .. m + 1 PROVE g[n] = IF n = 0 THEN <<>> ELSE Next1(g[n - 1])
      <4>1. CASE n = 0
        <5>1. f[0] = <<>>
          BY <2>1
        <5> QED
          BY <4>1, <5>1
      <4>2. CASE n # 0 /\ n <= m
        <5>1. f[n] = Next1(f[n - 1])
          BY <2>1, <4>2
        <5>2. g[n] = f[n] /\ g[n - 1] = f[n - 1]
          BY <4>2
        <5> QED
          BY <4>2, <5>1, <5>2
      <4>3. CASE n = m + 1
        <5>1. g[n] = Next1(f[m]) /\ g[n - 1] = f[m] /\ n # 0
          BY <4>3
        <5> QED
          BY <5>1
      <4> QED
        BY <4>1, <4>2, <4>3
    <3> QED
      BY <3>1
  <2>3. g = [n \in 0 .. m + 1 |-> IF n = 0 THEN <<>> ELSE Next1(g[n - 1])]
    <3>1. g = [n \in 0 .. m + 1 |-> g[n]]
      OBVIOUS
    <3> HIDE DEF g
    <3> QED
      BY <2>2, <3>1
  <2> HIDE DEF g
  <2> QED
    BY <2>3
<1> HIDE DEF P
<1>3. N \in P
  BY <1>1, <1>2, SetInduction
<1> QED
  BY <1>3 DEF P, Next1

\* Listed lists every element once, by falling key.
LEMMA ListedLists ==
    ASSUME NEW S, IsFiniteSet(S), NEW key, \A x \in S : key[x] \in Int
    PROVE  /\ Listed(S, key) \in Seq(S)
           /\ Len(Listed(S, key)) = Cardinality(S)
           /\ {Listed(S, key)[i] : i \in DOMAIN Listed(S, key)} = S
           /\ \A i, j \in 1 .. Cardinality(S) :
                /\ Listed(S, key)[i] = Listed(S, key)[j] => i = j
                /\ i <= j => key[Listed(S, key)[i]] >= key[Listed(S, key)[j]]
<1> DEFINE N == Cardinality(S)
           f == CHOOSE f : f = [n \in 0 .. N |->
                                   IF n = 0 THEN <<>> ELSE Continued(S, key, f[n - 1])]
           Done(s) == {s[i] : i \in DOMAIN s}
           P == {n \in Nat : n <= N =>
                   /\ f[n] \in Seq(S) /\ Len(f[n]) = n
                   /\ Cardinality(Done(f[n])) = n
                   /\ \A i, j \in 1 .. n : f[n][i] = f[n][j] => i = j
                   /\ \A i, j \in 1 .. n : i <= j => key[f[n][i]] >= key[f[n][j]]
                   /\ \A i \in 1 .. n : \A y \in S \ Done(f[n]) : key[f[n][i]] >= key[y]}
<1>1. N \in Nat
  BY FS_CardinalityType
<1>2. f = [n \in 0 .. N |-> IF n = 0 THEN <<>> ELSE Continued(S, key, f[n - 1])]
  BY <1>1, ListIsDefined
<1>3. Listed(S, key) = f[N]
  BY DEF Listed
<1> HIDE DEF N, f
<1>4. 0 \in P
  <2>1. f[0] = <<>>
    BY <1>1, <1>2
  <2>2. Done(f[0]) = {} /\ Len(f[0]) = 0 /\ f[0] \in Seq(S)
    BY <2>1
  <2>3. Cardinality(Done(f[0])) = 0
    BY <2>2, FS_EmptySet
  <2>4. \A i \in 1 .. 0 : FALSE
    OBVIOUS
  <2> HIDE DEF Done
  <2> QED
    BY <2>2, <2>3, <2>4
<1>5. ASSUME NEW n \in Nat, n \in P PROVE n + 1 \in P
  <2>1. SUFFICES ASSUME n + 1 <= N
                 PROVE  /\ f[n + 1] \in Seq(S) /\ Len(f[n + 1]) = n + 1
                        /\ Cardinality(Done(f[n + 1])) = n + 1
                        /\ \A i, j \in 1 .. n + 1 : f[n + 1][i] = f[n + 1][j] => i = j
                        /\ \A i, j \in 1 .. n + 1 : i <= j => key[f[n + 1][i]] >= key[f[n + 1][j]]
                        /\ \A i \in 1 .. n + 1 : \A y \in S \ Done(f[n + 1]) :
                             key[f[n + 1][i]] >= key[y]
    OBVIOUS
  <2> DEFINE s == f[n]
             x == CHOOSE x \in S \ Done(s) : \A y \in S \ Done(s) : key[x] >= key[y]
  <2>2. /\ s \in Seq(S) /\ Len(s) = n
        /\ Cardinality(Done(s)) = n
        /\ \A i, j \in 1 .. n : s[i] = s[j] => i = j
        /\ \A i, j \in 1 .. n : i <= j => key[s[i]] >= key[s[j]]
        /\ \A i \in 1 .. n : \A y \in S \ Done(s) : key[s[i]] >= key[y]
    BY <1>1, <1>5, <2>1
  <2>3. f[n + 1] = Append(s, x)
    <3>1. f[n + 1] = Continued(S, key, s)
      BY <1>1, <1>2, <2>1
    <3> QED
      BY <3>1 DEF Continued, SE!ToSet
  <2> HIDE DEF s, P
  <2>4. DOMAIN s = 1 .. n /\ \A i \in 1 .. n : s[i] \in S
    BY <2>2, LenProperties
  <2>5. Done(s) \subseteq S /\ IsFiniteSet(Done(s)) /\ Done(s) # S
    <3>1. Done(s) \in SUBSET S
      BY <2>4
    <3> HIDE DEF Done
    <3> QED
      BY <1>1, <2>1, <2>2, <3>1, FS_Subset DEF N
  <2>6. x \in S \ Done(s) /\ \A y \in S \ Done(s) : key[x] >= key[y]
    <3>1. IsFiniteSet(S \ Done(s)) /\ S \ Done(s) # {}
      BY <2>5, FS_Difference
    <3>2. \E z \in S \ Done(s) : \A y \in S \ Done(s) : key[z] >= key[y]
      BY <3>1, MaxByKey
    <3> QED
      BY <3>2
  <2> HIDE DEF x
  <2>7. /\ f[n + 1] \in Seq(S) /\ Len(f[n + 1]) = n + 1
        /\ \A i \in 1 .. n : f[n + 1][i] = s[i]
        /\ f[n + 1][n + 1] = x
    BY <2>2, <2>3, <2>6, AppendProperties
  <2>8. DOMAIN f[n + 1] = 1 .. n + 1
    BY <2>7, LenProperties
  <2>9. Done(f[n + 1]) = Done(s) \cup {x}
    <3>1. ASSUME NEW y \in Done(f[n + 1]) PROVE y \in Done(s) \cup {x}
      <4>1. PICK i \in 1 .. n + 1 : y = f[n + 1][i]
        BY <2>8
      <4>2. CASE i \in 1 .. n
        BY <2>4, <2>7, <4>1, <4>2
      <4>3. CASE i = n + 1
        BY <2>7, <4>1, <4>3
      <4> QED
        BY <4>1, <4>2, <4>3
    <3>2. ASSUME NEW y \in Done(s) PROVE y \in Done(f[n + 1])
      <4>1. PICK i \in 1 .. n : y = s[i]
        BY <2>4
      <4>2. y = f[n + 1][i] /\ i \in DOMAIN f[n + 1]
        BY <2>7, <2>8, <4>1
      <4> QED
        BY <4>2
    <3>3. x \in Done(f[n + 1])
      <4>1. n + 1 \in DOMAIN f[n + 1]
        BY <2>8
      <4> QED
        BY <2>7, <4>1
    <3> HIDE DEF Done
    <3> QED
      BY <3>1, <3>2, <3>3
  <2>10. Cardinality(Done(f[n + 1])) = n + 1
    <3> HIDE DEF Done
    <3> QED
      BY <2>2, <2>5, <2>6, <2>9, FS_AddElement
  <2>11. \A i \in 1 .. n : s[i] \in Done(s)
    BY <2>4
  <2>12. \A i, j \in 1 .. n + 1 : f[n + 1][i] = f[n + 1][j] => i = j
    <3>1. \A i \in 1 .. n + 1 : i \in 1 .. n \/ i = n + 1
      OBVIOUS
    <3> HIDE DEF Done
    <3> QED
      BY <2>2, <2>6, <2>7, <2>11, <3>1
  <2>13. key[x] \in Int /\ \A y \in S : key[y] \in Int
    BY <2>6
  <2>14. \A i, j \in 1 .. n + 1 : i <= j => key[f[n + 1][i]] >= key[f[n + 1][j]]
    <3>1. SUFFICES ASSUME NEW i \in 1 .. n + 1, NEW j \in 1 .. n + 1, i <= j
                   PROVE  key[f[n + 1][i]] >= key[f[n + 1][j]]
      OBVIOUS
    <3> HIDE DEF Done
    <3>2. CASE j \in 1 .. n
      <4>1. i \in 1 .. n
        BY <3>1, <3>2
      <4> QED
        BY <2>2, <2>7, <3>1, <3>2, <4>1
    <3>3. CASE i \in 1 .. n /\ j = n + 1
      BY <2>2, <2>6, <2>7, <3>3
    <3>4. CASE i = n + 1
      <4>1. j = n + 1
        BY <3>1, <3>4
      <4> QED
        BY <2>7, <2>13, <3>4, <4>1
    <3> QED
      BY <3>1, <3>2, <3>3, <3>4
  <2>15. \A i \in 1 .. n + 1 : \A y \in S \ Done(f[n + 1]) : key[f[n + 1][i]] >= key[y]
    <3>1. SUFFICES ASSUME NEW i \in 1 .. n + 1, NEW y \in S \ Done(f[n + 1])
                   PROVE  key[f[n + 1][i]] >= key[y]
      OBVIOUS
    <3> HIDE DEF Done
    <3>2. y \in S \ Done(s)
      BY <2>9
    <3>3. CASE i \in 1 .. n
      BY <2>2, <2>7, <3>2, <3>3
    <3>4. CASE i = n + 1
      BY <2>6, <2>7, <3>2, <3>4
    <3> QED
      BY <3>3, <3>4
  <2> QED
    BY <2>7, <2>10, <2>12, <2>14, <2>15
<1> HIDE DEF P
<1>6. N \in P
  BY <1>1, <1>4, <1>5, SetInduction
<1>7. /\ f[N] \in Seq(S) /\ Len(f[N]) = N
      /\ Cardinality(Done(f[N])) = N
      /\ \A i, j \in 1 .. N : f[N][i] = f[N][j] => i = j
      /\ \A i, j \in 1 .. N : i <= j => key[f[N][i]] >= key[f[N][j]]
  BY <1>1, <1>6 DEF P
<1>8. Done(f[N]) = S
  <2>1. Done(f[N]) \in SUBSET S
    BY <1>7, LenProperties
  <2> HIDE DEF Done
  <2> QED
    BY <1>7, <2>1, FS_Subset DEF N
<1> QED
  BY <1>3, <1>7, <1>8 DEF N

\* The same for a list in no particular order.
LEMMA AsSeqLists ==
    ASSUME NEW S, IsFiniteSet(S)
    PROVE  /\ AsSeq(S) \in Seq(S)
           /\ {AsSeq(S)[i] : i \in DOMAIN AsSeq(S)} = S
<1> DEFINE key == [x \in S |-> 0]
<1>1. \A x \in S : key[x] \in Int
  OBVIOUS
<1>2. AsSeq(S) = Listed(S, key)
  BY DEF AsSeq
<1> HIDE DEF key
<1> QED
  BY <1>1, <1>2, ListedLists

\* The same for elements by falling score.
LEMMA RankedLists ==
    ASSUME NEW S, IsFiniteSet(S), \A e \in S : e.score \in Int
    PROVE  /\ Ranked(S) \in Seq(S)
           /\ Len(Ranked(S)) = Cardinality(S)
           /\ {Ranked(S)[i] : i \in DOMAIN Ranked(S)} = S
           /\ \A i, j \in 1 .. Cardinality(S) :
                /\ Ranked(S)[i] = Ranked(S)[j] => i = j
                /\ i <= j => Ranked(S)[i].score >= Ranked(S)[j].score
<1> DEFINE key == [e \in S |-> e.score]
<1>1. \A x \in S : key[x] \in Int /\ key[x] = x.score
  OBVIOUS
<1> HIDE DEF key
<1>2. /\ Listed(S, key) \in Seq(S)
      /\ Len(Listed(S, key)) = Cardinality(S)
      /\ {Listed(S, key)[i] : i \in DOMAIN Listed(S, key)} = S
      /\ \A i, j \in 1 .. Cardinality(S) :
           /\ Listed(S, key)[i] = Listed(S, key)[j] => i = j
           /\ i <= j => key[Listed(S, key)[i]] >= key[Listed(S, key)[j]]
  BY <1>1, ListedLists
<1>3. Ranked(S) = Listed(S, key)
  BY DEF Ranked, key
<1>4. \A i \in 1 .. Cardinality(S) : Ranked(S)[i] \in S
  BY <1>2, <1>3, LenProperties
<1> QED
  BY <1>1, <1>2, <1>3, <1>4

-----------------------------------------------------------------------------
(* Sequences of any elements.                                                *)

\* Length, domain and emptiness of a sequence.
LEMMA SeqFacts ==
    ASSUME NEW s, IsSeq(s)
    PROVE  /\ Len(s) \in Nat
           /\ DOMAIN s = 1 .. Len(s)
           /\ s = <<>> <=> Len(s) = 0
<1> DEFINE S == {s[i] : i \in DOMAIN s}
<1>1. s \in Seq(S)
  BY DEF IsSeq
<1> HIDE DEF S
<1>2. Len(s) \in Nat /\ DOMAIN s = 1 .. Len(s)
  BY <1>1, LenProperties
<1>3. s # <<>> => Len(s) # 0
  BY <1>1, <1>2, EmptySeq
<1>4. s = <<>> => Len(s) = 0
  OBVIOUS
<1> QED
  BY <1>2, <1>3, <1>4

\* A sequence over a set is one over its own elements.
LEMMA IsSeqFrom ==
    ASSUME NEW S, NEW s \in Seq(S)
    PROVE  IsSeq(s)
<1> DEFINE T == {s[i] : i \in DOMAIN s}
<1>1. Len(s) \in Nat /\ DOMAIN s = 1 .. Len(s) /\ s = [i \in 1 .. Len(s) |-> s[i]]
  BY LenProperties
<1>2. \A i \in 1 .. Len(s) : s[i] \in T
  BY <1>1
<1> HIDE DEF T
<1>3. s \in [1 .. Len(s) -> T]
  BY <1>1, <1>2
<1>4. s \in Seq(T)
  BY <1>1, <1>3, SeqDef
<1> QED
  BY <1>4 DEF IsSeq, T

\* The empty sequence.
LEMMA EmptyIsSeq == IsSeq(<<>>)
<1>1. <<>> \in Seq({})
  OBVIOUS
<1> QED
  BY <1>1, IsSeqFrom

\* Append, whatever the element is.
LEMMA AppendAny ==
    ASSUME NEW s, IsSeq(s), NEW e
    PROVE  /\ IsSeq(Append(s, e))
           /\ Len(Append(s, e)) = Len(s) + 1
           /\ \A i \in 1 .. Len(s) : Append(s, e)[i] = s[i]
           /\ Append(s, e)[Len(s) + 1] = e
<1> DEFINE S == {s[i] : i \in DOMAIN s}
           T == S \cup {e}
<1>1. s \in Seq(S) /\ S \subseteq T /\ e \in T
  BY DEF IsSeq
<1> HIDE DEF S, T
<1>2. s \in Seq(T)
  BY <1>1, SeqMonotonic
<1>3. Append(s, e) \in Seq(T)
  BY <1>1, <1>2, AppendProperties
<1>4. /\ Len(Append(s, e)) = Len(s) + 1
      /\ \A i \in 1 .. Len(s) : Append(s, e)[i] = s[i]
      /\ Append(s, e)[Len(s) + 1] = e
  BY <1>1, <1>2, AppendProperties
<1> QED
  BY <1>3, <1>4, IsSeqFrom

\* A prefix has the first elements.
LEMMA PrefixAny ==
    ASSUME NEW s, IsSeq(s), NEW n \in 0 .. Len(s)
    PROVE  /\ IsSeq(SubSeq(s, 1, n))
           /\ Len(SubSeq(s, 1, n)) = n
           /\ \A i \in 1 .. n : SubSeq(s, 1, n)[i] = s[i]
<1> DEFINE S == {s[i] : i \in DOMAIN s}
<1>1. Len(s) \in Nat /\ DOMAIN s = 1 .. Len(s)
  BY SeqFacts
<1>2. n \in Int /\ 1 \in Int /\ n - 1 + 1 = n
  BY <1>1
<1>3. \A i \in 1 .. n : s[i] \in S
  BY <1>1
<1> HIDE DEF S
<1>4. /\ SubSeq(s, 1, n) \in Seq(S)
      /\ Len(SubSeq(s, 1, n)) = IF 1 <= n THEN n - 1 + 1 ELSE 0
      /\ \A i \in 1 .. n - 1 + 1 : SubSeq(s, 1, n)[i] = s[1 + i - 1]
  BY <1>2, <1>3, SubSeqProperties
<1>5. IsSeq(SubSeq(s, 1, n))
  BY <1>4, IsSeqFrom
<1>6. Len(SubSeq(s, 1, n)) = n
  BY <1>1, <1>4
<1>7. \A i \in 1 .. n : 1 + i - 1 = i
  BY <1>1
<1>8. \A i \in 1 .. n : SubSeq(s, 1, n)[i] = s[i]
  BY <1>2, <1>4, <1>7
<1> QED
  BY <1>5, <1>6, <1>8

-----------------------------------------------------------------------------
(* Where sections end.                                                       *)

\* Headings as a parser gives them.
Headings(hs) == IsSeq(hs) /\ \A i \in DOMAIN hs : hs[i].level \in Nat

\* A section ends after its heading, holds only deeper headings, and ends at one that
\* is not deeper, if there is one.
LEMMA EndOfSection ==
    ASSUME NEW hs, Headings(hs), NEW i \in 1 .. Len(hs)
    PROVE  /\ SectionEnd(hs, i) \in i + 1 .. Len(hs) + 1
           /\ \A k \in i + 1 .. Len(hs) : k < SectionEnd(hs, i) => hs[k].level > hs[i].level
           /\ SectionEnd(hs, i) <= Len(hs) => hs[SectionEnd(hs, i)].level <= hs[i].level
<1> DEFINE N == Len(hs)
           later == {j \in i + 1 .. N : hs[j].level <= hs[i].level}
<1>1. N \in Nat /\ DOMAIN hs = 1 .. N /\ \A k \in 1 .. N : hs[k].level \in Nat
  BY SeqFacts DEF Headings
<1>2. SectionEnd(hs, i) = IF later = {} THEN N + 1 ELSE CHOOSE j \in later : \A k \in later : j <= k
  BY DEF SectionEnd
<1>3. CASE later = {}
  BY <1>1, <1>2, <1>3
<1>4. CASE later # {}
  <2>1. later \subseteq 0 .. N
    BY <1>1
  <2> HIDE DEF later
  <2>2. \E j \in later : \A k \in later : j <= k
    BY <1>1, <1>4, <2>1, Extremes
  <2>3. SectionEnd(hs, i) \in later /\ \A k \in later : SectionEnd(hs, i) <= k
    BY <1>2, <1>4, <2>2
  <2> QED
    BY <1>1, <2>3 DEF later
<1> QED
  BY <1>3, <1>4

\* A section that reaches a heading ends no earlier than that heading's section.
LEMMA SectionsDoNotCross ==
    ASSUME NEW hs, Headings(hs), NEW i \in 1 .. Len(hs), NEW j \in 1 .. Len(hs), i < j
    PROVE  SectionEnd(hs, i) > j <=> SectionEnd(hs, j) <= SectionEnd(hs, i)
<1>1. Len(hs) \in Nat /\ DOMAIN hs = 1 .. Len(hs) /\ \A k \in 1 .. Len(hs) : hs[k].level \in Nat
  BY SeqFacts DEF Headings
<1> DEFINE a == SectionEnd(hs, i)
           b == SectionEnd(hs, j)
<1>2. /\ a \in i + 1 .. Len(hs) + 1
      /\ \A k \in i + 1 .. Len(hs) : k < a => hs[k].level > hs[i].level
      /\ a <= Len(hs) => hs[a].level <= hs[i].level
  BY EndOfSection
<1>3. /\ b \in j + 1 .. Len(hs) + 1
      /\ \A k \in j + 1 .. Len(hs) : k < b => hs[k].level > hs[j].level
      /\ b <= Len(hs) => hs[b].level <= hs[j].level
  BY EndOfSection
<1> HIDE DEF a, b
<1>4. ASSUME a > j PROVE b <= a
  <2>1. SUFFICES ASSUME b > a PROVE FALSE
    BY <1>2, <1>3
  <2>2. a \in j + 1 .. Len(hs)
    BY <1>1, <1>2, <1>3, <1>4, <2>1
  <2>3. hs[a].level > hs[j].level
    BY <1>3, <2>1, <2>2
  <2>4. hs[j].level > hs[i].level
    BY <1>1, <1>2, <1>4
  <2>5. hs[a].level <= hs[i].level
    BY <1>2, <2>2
  <2>6. a \in 1 .. Len(hs)
    BY <2>2
  <2> QED
    BY <1>1, <2>3, <2>4, <2>5, <2>6
<1>5. b <= a => a > j
  BY <1>1, <1>2, <1>3
<1> QED
  BY <1>4, <1>5 DEF a, b

-----------------------------------------------------------------------------
(* The sections of a document.                                               *)

\* The headings whose sections hold heading i.
Enclosing(hs, i) == {j \in 1 .. i - 1 : SectionEnd(hs, j) > i}

\* The sections ss of the first n headings: ranges, ids told apart by ordinals, and as
\* parent the innermost of the sections that hold the heading.
SectionsRight(d, n, ss) ==
    /\ IsSeq(ss)
    /\ Len(ss) = n
    /\ \A i \in 1 .. n :
         /\ ss[i].range = <<i, SectionEnd(d.headings, i)>>
         /\ ss[i].id = SectionId(d.path, ss[i].headingPath,
                          Cardinality({k \in 1 .. i - 1 : ss[k].headingPath = ss[i].headingPath}))
         /\ ss[i].previous = IF i = 1 THEN ss[i].id ELSE ss[i - 1].id
         /\ Enclosing(d.headings, i) = {} => ss[i].parent = <<>>
         /\ \A j \in Enclosing(d.headings, i) :
              (\A k \in Enclosing(d.headings, i) : k <= j) => ss[i].parent = ss[j].id

\* p gives the headings on the stack: those whose sections are open after heading n.
Stacked(hs, n, stack, ss, p) ==
    /\ p \in [1 .. Len(stack) -> 1 .. n]
    /\ \A a, b \in 1 .. Len(stack) : a < b => p[a] < p[b]
    /\ \A j \in 1 .. n : SectionEnd(hs, j) > n <=> \E a \in 1 .. Len(stack) : p[a] = j
    /\ \A a \in 1 .. Len(stack) : stack[a].level = hs[p[a]].level /\ stack[a].id = ss[p[a]].id

\* The stack holds the open sections.
StackRight(hs, n, stack, ss) == IsSeq(stack) /\ \E p : Stacked(hs, n, stack, ss, p)

\* K is the last entry of the stack that is above the level, 0 if there is none.
LastAbove(stack, level, K) ==
    /\ K \in 0 .. Len(stack)
    /\ K > 0 => stack[K].level < level
    /\ \A a \in K + 1 .. Len(stack) : ~(stack[a].level < level)

\* Pop keeps the entries up to the last one above the level.
LEMMA PopKeeps ==
    ASSUME NEW stack, IsSeq(stack), NEW level
    PROVE  \E K \in 0 .. Len(stack) :
             /\ IsSeq(Pop(stack, level)) /\ Len(Pop(stack, level)) = K
             /\ \A a \in 1 .. K : Pop(stack, level)[a] = stack[a]
             /\ LastAbove(stack, level, K)
<1> DEFINE open == {k \in DOMAIN stack : stack[k].level < level}
<1>1. Len(stack) \in Nat /\ DOMAIN stack = 1 .. Len(stack)
  BY SeqFacts
<1>2. CASE open = {}
  <2>1. Pop(stack, level) = <<>>
    BY <1>2 DEF Pop
  <2>2. IsSeq(Pop(stack, level)) /\ Len(Pop(stack, level)) = 0
    BY <2>1, EmptyIsSeq
  <2>3. \A a \in 1 .. Len(stack) : ~(stack[a].level < level)
    BY <1>1, <1>2
  <2>4. LastAbove(stack, level, 0)
    BY <1>1, <2>3 DEF LastAbove
  <2> QED
    BY <1>1, <2>2, <2>4
<1>3. CASE open # {}
  <2> DEFINE K == CHOOSE k \in open : \A j \in open : j <= k
  <2>1. Pop(stack, level) = SubSeq(stack, 1, K)
    BY <1>3 DEF Pop
  <2>2. open \subseteq 0 .. Len(stack)
    BY <1>1
  <2>3. K \in open /\ \A j \in open : j <= K
    <3> HIDE DEF open
    <3>1. \E k \in open : \A j \in open : j <= k
      BY <1>1, <1>3, <2>2, Extremes
    <3> QED
      BY <3>1
  <2> HIDE DEF K
  <2>4. K \in 1 .. Len(stack) /\ stack[K].level < level
    BY <1>1, <2>3
  <2>5. K \in 0 .. Len(stack)
    BY <1>1, <2>4
  <2>6. /\ IsSeq(SubSeq(stack, 1, K)) /\ Len(SubSeq(stack, 1, K)) = K
        /\ \A a \in 1 .. K : SubSeq(stack, 1, K)[a] = stack[a]
    BY <2>5, PrefixAny
  <2>7. ASSUME NEW a \in K + 1 .. Len(stack), stack[a].level < level PROVE FALSE
    <3>1. a \in open
      BY <1>1, <2>4, <2>7
    <3> QED
      BY <1>1, <2>3, <2>4, <2>7, <3>1
  <2>8. LastAbove(stack, level, K)
    BY <2>4, <2>5, <2>7 DEF LastAbove
  <2> QED
    BY <2>1, <2>5, <2>6, <2>8
<1> QED
  BY <1>2, <1>3

\* A heading is in a section if that section was open and is above it.
LEMMA StaysOpen ==
    ASSUME NEW hs, Headings(hs), NEW n \in Nat, n + 1 <= Len(hs), NEW j \in 1 .. n
    PROVE  SectionEnd(hs, j) > n + 1 <=>
             SectionEnd(hs, j) > n /\ hs[j].level < hs[n + 1].level
<1>1. Len(hs) \in Nat /\ DOMAIN hs = 1 .. Len(hs) /\ \A k \in 1 .. Len(hs) : hs[k].level \in Nat
  BY SeqFacts DEF Headings
<1>2. j \in 1 .. Len(hs)
  BY <1>1
<1> DEFINE e == SectionEnd(hs, j)
<1>3. /\ e \in j + 1 .. Len(hs) + 1
      /\ \A k \in j + 1 .. Len(hs) : k < e => hs[k].level > hs[j].level
      /\ e <= Len(hs) => hs[e].level <= hs[j].level
  BY <1>2, EndOfSection
<1> HIDE DEF e
<1>4. n + 1 \in j + 1 .. Len(hs) /\ hs[j].level \in Nat /\ hs[n + 1].level \in Nat
  BY <1>1
<1>5. e > n + 1 => hs[n + 1].level > hs[j].level
  BY <1>3, <1>4
<1>6. e = n + 1 => hs[n + 1].level <= hs[j].level
  BY <1>1, <1>3
<1> QED
  BY <1>3, <1>4, <1>5, <1>6 DEF e

\* What Pop leaves of a right stack holds the next heading, innermost last.
LEMMA PopEnclosing ==
    ASSUME NEW hs, Headings(hs), NEW n \in Nat, n + 1 <= Len(hs),
           NEW stack, IsSeq(stack), NEW ss, NEW p, Stacked(hs, n, stack, ss, p),
           NEW K, LastAbove(stack, hs[n + 1].level, K)
    PROVE  /\ \A a \in 1 .. K : p[a] \in Enclosing(hs, n + 1)
           /\ \A j \in Enclosing(hs, n + 1) : \E a \in 1 .. K : p[a] = j
<1>1. Len(hs) \in Nat /\ DOMAIN hs = 1 .. Len(hs) /\ \A k \in 1 .. Len(hs) : hs[k].level \in Nat
  BY SeqFacts DEF Headings
<1>2. /\ Len(stack) \in Nat /\ K \in 0 .. Len(stack)
      /\ K > 0 => stack[K].level < hs[n + 1].level
      /\ \A a \in K + 1 .. Len(stack) : ~(stack[a].level < hs[n + 1].level)
  BY SeqFacts DEF LastAbove
<1>3. \A a \in 1 .. Len(stack) : /\ p[a] \in 1 .. n
                                 /\ SectionEnd(hs, p[a]) > n
                                 /\ stack[a].level = hs[p[a]].level
  BY DEF Stacked
<1>4. ASSUME NEW a \in 1 .. K PROVE p[a] \in Enclosing(hs, n + 1)
  <2>1. a \in 1 .. Len(stack) /\ K \in 1 .. Len(stack) /\ K > 0
    BY <1>2
  <2>2. p[a] \in 1 .. Len(hs) /\ p[K] \in 1 .. Len(hs) /\ p[a] \in 1 .. n /\ p[K] \in 1 .. n
    BY <1>1, <1>3, <2>1
  <2>3. hs[p[K]].level < hs[n + 1].level
    BY <1>2, <1>3, <2>1
  <2>4. hs[p[a]].level <= hs[p[K]].level
    <3>1. CASE a = K
      BY <1>1, <2>2, <3>1
    <3>2. CASE a < K
      <4>1. p[a] < p[K]
        BY <2>1, <3>2 DEF Stacked
      <4>2. p[K] \in p[a] + 1 .. Len(hs) /\ p[K] < SectionEnd(hs, p[a])
        <5>1. SectionEnd(hs, p[a]) \in p[a] + 1 .. Len(hs) + 1
          BY <2>2, EndOfSection
        <5> QED
          BY <1>1, <1>3, <2>1, <2>2, <4>1, <5>1
      <4>3. hs[p[K]].level > hs[p[a]].level
        BY <2>2, <4>2, EndOfSection
      <4> QED
        BY <1>1, <2>2, <4>3
    <3> QED
      BY <2>1, <3>1, <3>2
  <2>5. hs[p[a]].level < hs[n + 1].level
    <3>1. hs[p[a]].level \in Nat /\ hs[p[K]].level \in Nat /\ hs[n + 1].level \in Nat
      BY <1>1, <2>2
    <3> QED
      BY <2>3, <2>4, <3>1
  <2>6. SectionEnd(hs, p[a]) > n + 1
    BY <1>3, <2>1, <2>2, <2>5, StaysOpen
  <2> QED
    BY <2>2, <2>6 DEF Enclosing
<1>5. ASSUME NEW j \in Enclosing(hs, n + 1) PROVE \E a \in 1 .. K : p[a] = j
  <2>1. j \in 1 .. n /\ SectionEnd(hs, j) > n + 1
    BY DEF Enclosing
  <2>2. SectionEnd(hs, j) > n /\ hs[j].level < hs[n + 1].level
    BY <2>1, StaysOpen
  <2>3. PICK a \in 1 .. Len(stack) : p[a] = j
    BY <2>1, <2>2 DEF Stacked
  <2>4. stack[a].level < hs[n + 1].level
    BY <1>3, <2>2, <2>3
  <2>5. ~(a \in K + 1 .. Len(stack))
    BY <1>2, <2>4
  <2>6. a \in 1 .. K
    BY <1>2, <2>5
  <2> QED
    BY <2>3, <2>6
<1> QED
  BY <1>4, <1>5

\* What holds after n turns of the loop over the headings.
LoopRight(d, n, acc) ==
    SectionsRight(d, n, acc.sections) /\ StackRight(d.headings, n, acc.stack, acc.sections)

\* Before the first heading.
LEMMA NoSectionsRight ==
    ASSUME NEW d
    PROVE  LoopRight(d, 0, [stack |-> <<>>, sections |-> <<>>])
<1>1. SectionsRight(d, 0, <<>>)
  BY EmptyIsSeq DEF SectionsRight
<1>2. Stacked(d.headings, 0, <<>>, <<>>, <<>>)
  <2>1. 1 .. Len(<<>>) = {} /\ 1 .. 0 = {}
    OBVIOUS
  <2>2. <<>> \in [{} -> {}]
    OBVIOUS
  <2> QED
    BY <2>1, <2>2 DEF Stacked
<1>3. StackRight(d.headings, 0, <<>>, <<>>)
  BY <1>2, EmptyIsSeq DEF StackRight
<1> QED
  BY <1>1, <1>3 DEF LoopRight

\* One heading more.
LEMMA AddSectionRight ==
    ASSUME NEW d, Headings(d.headings), NEW n \in Nat, n + 1 <= Len(d.headings),
           NEW acc, LoopRight(d, n, acc)
    PROVE  LoopRight(d, n + 1, AddSection(d, n + 1, acc))
<1> DEFINE hs == d.headings
           m == n + 1
           ss == acc.sections
           popped == Pop(acc.stack, hs[m].level)
           parent == IF popped = <<>> THEN <<>> ELSE popped[Len(popped)].id
           headingPath == <<parent, hs[m].slug>>
           id == SectionId(d.path, headingPath, Ordinal(ss, headingPath))
           new == [id |-> id, headingPath |-> headingPath, parent |-> parent,
                   previous |-> IF m = 1 THEN id ELSE ss[m - 1].id,
                   range |-> <<m, SectionEnd(hs, m)>>]
           top == [level |-> hs[m].level, id |-> id]
           after == AddSection(d, m, acc)
<1>1. after = [stack |-> Append(popped, top), sections |-> Append(ss, new)]
  BY DEF AddSection
<1>3. /\ new.id = id /\ new.headingPath = headingPath /\ new.parent = parent
      /\ new.previous = IF m = 1 THEN id ELSE ss[m - 1].id
      /\ new.range = <<m, SectionEnd(hs, m)>>
      /\ top.level = hs[m].level /\ top.id = id
  OBVIOUS
<1> HIDE DEF popped, id, new, top, after, headingPath
<1>2. after.stack = Append(popped, top) /\ after.sections = Append(ss, new)
  BY <1>1
<1>4. Len(hs) \in Nat /\ m \in 1 .. Len(hs) /\ m \in Nat /\ m - 1 = n
  BY SeqFacts DEF Headings
<1>5. SectionsRight(d, n, ss) /\ IsSeq(acc.stack)
  BY DEF LoopRight, StackRight
<1>6. PICK p : Stacked(hs, n, acc.stack, ss, p)
  BY DEF LoopRight, StackRight
<1>7. PICK K \in 0 .. Len(acc.stack) :
             /\ IsSeq(popped) /\ Len(popped) = K
             /\ \A a \in 1 .. K : popped[a] = acc.stack[a]
             /\ LastAbove(acc.stack, hs[m].level, K)
  BY <1>5, PopKeeps DEF popped
<1>8. /\ \A a \in 1 .. K : p[a] \in Enclosing(hs, m)
      /\ \A j \in Enclosing(hs, m) : \E a \in 1 .. K : p[a] = j
  BY <1>5, <1>6, <1>7, PopEnclosing
<1>9. Len(acc.stack) \in Nat /\ K \in Nat
  BY <1>5, SeqFacts
<1>a. popped = <<>> <=> K = 0
  BY <1>7, SeqFacts
<1>10. /\ IsSeq(Append(ss, new)) /\ Len(Append(ss, new)) = m
       /\ \A i \in 1 .. n : Append(ss, new)[i] = ss[i]
       /\ Append(ss, new)[m] = new
  BY <1>5, AppendAny DEF SectionsRight
<1>11. /\ IsSeq(Append(popped, top)) /\ Len(Append(popped, top)) = K + 1
       /\ \A a \in 1 .. K : Append(popped, top)[a] = popped[a]
       /\ Append(popped, top)[K + 1] = top
  BY <1>7, AppendAny
<1> DEFINE ss2 == after.sections
           stack2 == after.stack
<1>12. /\ IsSeq(ss2) /\ Len(ss2) = m
       /\ \A i \in 1 .. n : ss2[i] = ss[i]
       /\ ss2[m] = new
       /\ IsSeq(stack2) /\ Len(stack2) = K + 1
       /\ \A a \in 1 .. K : stack2[a] = acc.stack[a]
       /\ stack2[K + 1] = top
  BY <1>2, <1>7, <1>10, <1>11
<1> HIDE DEF ss2, stack2
\* The parent of the new section.
<1>13. K = 0 => parent = <<>> /\ Enclosing(hs, m) = {}
  BY <1>a, <1>8
<1>14. K > 0 => /\ parent = ss[p[K]].id
                /\ p[K] \in 1 .. n
                /\ \A j \in Enclosing(hs, m) : j <= p[K]
  <2>1. SUFFICES ASSUME K > 0
                 PROVE  /\ parent = ss[p[K]].id
                        /\ p[K] \in 1 .. n
                        /\ \A j \in Enclosing(hs, m) : j <= p[K]
    OBVIOUS
  <2>2. K \in 1 .. K /\ K \in 1 .. Len(acc.stack)
    BY <1>9, <2>1
  <2>3. parent = ss[p[K]].id
    BY <1>a, <1>6, <1>7, <2>1, <2>2 DEF Stacked
  <2>4. p[K] \in 1 .. n
    BY <1>6, <2>2 DEF Stacked
  <2>5. ASSUME NEW a \in 1 .. K PROVE p[a] <= p[K]
    <3>3. a \in 1 .. Len(acc.stack)
      BY <1>9
    <3>4. \A b \in 1 .. Len(acc.stack) : p[b] \in 1 .. n
      BY <1>6 DEF Stacked
    <3>1. a \in 1 .. Len(acc.stack) /\ p[a] \in 1 .. n
      BY <3>3, <3>4
    <3>2. a < K => p[a] < p[K]
      BY <1>6, <2>2, <3>1 DEF Stacked
    <3> QED
      BY <2>4, <3>1, <3>2
  <2> QED
    BY <1>8, <2>3, <2>4, <2>5
<1>15. SectionsRight(d, m, ss2)
  <2>1. ASSUME NEW i \in 1 .. m
        PROVE  /\ ss2[i].range = <<i, SectionEnd(hs, i)>>
               /\ ss2[i].id = SectionId(d.path, ss2[i].headingPath,
                    Cardinality({k \in 1 .. i - 1 : ss2[k].headingPath = ss2[i].headingPath}))
               /\ ss2[i].previous = IF i = 1 THEN ss2[i].id ELSE ss2[i - 1].id
               /\ Enclosing(hs, i) = {} => ss2[i].parent = <<>>
               /\ \A j \in Enclosing(hs, i) :
                    (\A k \in Enclosing(hs, i) : k <= j) => ss2[i].parent = ss2[j].id
    <3>1. CASE i \in 1 .. n
      <4>1. /\ ss[i].range = <<i, SectionEnd(hs, i)>>
            /\ ss[i].id = SectionId(d.path, ss[i].headingPath,
                 Cardinality({k \in 1 .. i - 1 : ss[k].headingPath = ss[i].headingPath}))
            /\ ss[i].previous = IF i = 1 THEN ss[i].id ELSE ss[i - 1].id
            /\ Enclosing(hs, i) = {} => ss[i].parent = <<>>
            /\ \A j \in Enclosing(hs, i) :
                 (\A k \in Enclosing(hs, i) : k <= j) => ss[i].parent = ss[j].id
        BY <1>5, <3>1 DEF SectionsRight
      <4>2. ss2[i] = ss[i] /\ \A k \in 1 .. i - 1 : ss2[k] = ss[k]
        <5>1. \A k \in 1 .. i - 1 : k \in 1 .. n
          BY <3>1
        <5> QED
          BY <1>12, <3>1, <5>1
      <4>3. {k \in 1 .. i - 1 : ss2[k].headingPath = ss2[i].headingPath}
              = {k \in 1 .. i - 1 : ss[k].headingPath = ss[i].headingPath}
        BY <4>2
      <4>4. \A j \in Enclosing(hs, i) : j \in 1 .. i - 1
        BY DEF Enclosing
      <4>5. i # 1 => ss2[i - 1] = ss[i - 1]
        BY <3>1, <4>2
      <4>6. ss2[i].id = SectionId(d.path, ss2[i].headingPath,
                 Cardinality({k \in 1 .. i - 1 : ss2[k].headingPath = ss2[i].headingPath}))
        BY <4>1, <4>2, <4>3
      <4> QED
        BY <4>1, <4>2, <4>4, <4>5, <4>6
    <3>2. CASE i = m
      <4>1. ss2[i] = new /\ \A k \in 1 .. n : ss2[k] = ss[k]
        BY <1>12, <3>2
      <4>2. Ordinal(ss, headingPath) =
              Cardinality({k \in 1 .. i - 1 : ss2[k].headingPath = headingPath})
        <5>1. DOMAIN ss = 1 .. n
          BY <1>5, SeqFacts DEF SectionsRight
        <5>2. i - 1 = n
          BY <1>4, <3>2
        <5>3. {k \in 1 .. i - 1 : ss2[k].headingPath = headingPath}
                = {k \in DOMAIN ss : ss[k].headingPath = headingPath}
          BY <4>1, <5>1, <5>2
        <5> QED
          BY <5>3 DEF Ordinal
      <4>3. ss2[i].id = SectionId(d.path, ss2[i].headingPath,
                 Cardinality({k \in 1 .. i - 1 : ss2[k].headingPath = ss2[i].headingPath}))
        BY <1>3, <4>1, <4>2 DEF id
      <4>4. ss2[i].previous = IF i = 1 THEN ss2[i].id ELSE ss2[i - 1].id
        <5>1. m # 1 => m - 1 \in 1 .. n
          BY <1>4
        <5> QED
          BY <1>3, <3>2, <4>1, <5>1
      <4>5. ss2[i].range = <<i, SectionEnd(hs, i)>> /\ ss2[i].parent = parent
        BY <1>3, <3>2, <4>1
      <4>6. Enclosing(hs, i) = {} => ss2[i].parent = <<>>
        <5>1. SUFFICES ASSUME Enclosing(hs, i) = {} PROVE K = 0
          BY <1>13, <4>5
        <5>2. K > 0 => 1 \in 1 .. K
          BY <1>9
        <5> QED
          BY <1>8, <1>9, <3>2, <5>1, <5>2
      <4>7. ASSUME NEW j \in Enclosing(hs, i), \A k \in Enclosing(hs, i) : k <= j
            PROVE  ss2[i].parent = ss2[j].id
        <5>1. K > 0
          BY <1>8, <1>9, <3>2
        <5>2. K \in 1 .. K
          BY <1>9, <5>1
        <5>3. p[K] \in Enclosing(hs, i) /\ p[K] \in 1 .. n /\ j <= p[K]
          BY <1>8, <1>14, <3>2, <5>1, <5>2
        <5>4. p[K] <= j /\ j \in 1 .. i - 1
          BY <4>7, <5>3 DEF Enclosing
        <5>5. p[K] = j
          BY <1>4, <3>2, <5>3, <5>4
        <5> QED
          BY <1>14, <4>1, <4>5, <5>1, <5>3, <5>5
      <4> QED
        BY <4>3, <4>4, <4>5, <4>6, <4>7
    <3> QED
      BY <1>4, <3>1, <3>2
  <2> QED
    BY <1>12, <2>1 DEF SectionsRight
<1>16. StackRight(hs, m, stack2, ss2)
  <2> DEFINE q == [a \in 1 .. K + 1 |-> IF a <= K THEN p[a] ELSE m]
  <2>1. /\ \A a \in 1 .. K : q[a] = p[a] /\ p[a] \in 1 .. n /\ a \in 1 .. Len(acc.stack)
        /\ q[K + 1] = m
    <3>1. \A a \in 1 .. K : a \in 1 .. Len(acc.stack)
      BY <1>9
    <3>2. \A a \in 1 .. K : p[a] \in 1 .. n
      BY <1>6, <3>1 DEF Stacked
    <3> QED
      BY <1>9, <3>1, <3>2
  <2>2. \A a \in 1 .. K + 1 : a \in 1 .. K \/ a = K + 1
    BY <1>9
  <2>3. q \in [1 .. K + 1 -> 1 .. m]
    <3>1. \A a \in 1 .. K + 1 : q[a] \in 1 .. m
      <4> HIDE DEF q
      <4> QED
        BY <1>4, <2>1, <2>2
    <3>2. q = [a \in 1 .. K + 1 |-> q[a]]
      OBVIOUS
    <3> HIDE DEF q
    <3> QED
      BY <3>1, <3>2
  <2> HIDE DEF q
  <2>4. \A a, b \in 1 .. K + 1 : a < b => q[a] < q[b]
    <3>1. SUFFICES ASSUME NEW a \in 1 .. K + 1, NEW b \in 1 .. K + 1, a < b
                   PROVE  q[a] < q[b]
      OBVIOUS
    <3>2. a \in 1 .. K
      BY <1>9, <3>1
    <3>3. CASE b \in 1 .. K
      BY <1>6, <2>1, <3>1, <3>2, <3>3 DEF Stacked
    <3>4. CASE b = K + 1
      <4>1. q[a] \in 1 .. n /\ q[b] = m
        BY <2>1, <3>2, <3>4
      <4> QED
        BY <4>1
    <3> QED
      BY <2>2, <3>3, <3>4
  <2>5. ASSUME NEW j \in 1 .. m PROVE SectionEnd(hs, j) > m <=> \E a \in 1 .. K + 1 : q[a] = j
    <3>1. CASE j = m
      <4>1. SectionEnd(hs, m) \in m + 1 .. Len(hs) + 1
        BY <1>4, EndOfSection
      <4>2. SectionEnd(hs, j) > m
        BY <1>4, <3>1, <4>1
      <4>3. K + 1 \in 1 .. K + 1 /\ q[K + 1] = j
        BY <1>9, <2>1, <3>1
      <4> QED
        BY <4>2, <4>3
    <3>2. CASE j \in 1 .. n
      <4>1. SectionEnd(hs, j) > m <=> j \in Enclosing(hs, m)
        BY <1>4, <3>2 DEF Enclosing
      <4>2. j \in Enclosing(hs, m) => \E a \in 1 .. K + 1 : q[a] = j
        <5>1. SUFFICES ASSUME j \in Enclosing(hs, m) PROVE \E a \in 1 .. K + 1 : q[a] = j
          OBVIOUS
        <5>2. PICK a \in 1 .. K : p[a] = j
          BY <1>8, <5>1
        <5>3. a \in 1 .. K + 1 /\ q[a] = j
          BY <1>9, <2>1, <5>2
        <5> QED
          BY <5>3
      <4>3. ASSUME NEW a \in 1 .. K + 1, q[a] = j PROVE j \in Enclosing(hs, m)
        <5>1. a # K + 1
          BY <1>4, <2>1, <3>2, <4>3
        <5>2. a \in 1 .. K
          BY <2>2, <5>1
        <5> QED
          BY <1>8, <2>1, <4>3, <5>2
      <4> QED
        BY <4>1, <4>2, <4>3
    <3> QED
      BY <1>4, <3>1, <3>2
  <2>6. ASSUME NEW a \in 1 .. K + 1
        PROVE  stack2[a].level = hs[q[a]].level /\ stack2[a].id = ss2[q[a]].id
    <3>1. CASE a \in 1 .. K
      <4>1. stack2[a] = acc.stack[a] /\ q[a] = p[a] /\ p[a] \in 1 .. n
        BY <1>12, <2>1, <3>1
      <4>2. acc.stack[a].level = hs[p[a]].level /\ acc.stack[a].id = ss[p[a]].id
        BY <1>6, <2>1, <3>1 DEF Stacked
      <4>3. ss2[p[a]] = ss[p[a]]
        BY <1>12, <4>1
      <4> QED
        BY <4>1, <4>2, <4>3
    <3>2. CASE a = K + 1
      <4>1. stack2[a] = top /\ q[a] = m /\ ss2[m] = new
        BY <1>12, <2>1, <3>2
      <4> QED
        BY <1>3, <4>1
    <3> QED
      BY <2>2, <3>1, <3>2
  <2>7. Stacked(hs, m, stack2, ss2, q)
    BY <1>12, <2>3, <2>4, <2>5, <2>6 DEF Stacked
  <2> QED
    BY <1>12, <2>7 DEF StackRight
<1> QED
  BY <1>15, <1>16 DEF LoopRight, ss2, stack2, after

\* The recursive function in HeadingSections is one.
LEMMA SectionLoopIsDefined ==
    ASSUME NEW d, NEW N \in Nat
    PROVE  \E f : f = [n \in 0 .. N |-> IF n = 0 THEN [stack |-> <<>>, sections |-> <<>>]
                                                 ELSE AddSection(d, n, f[n - 1])]
<1> DEFINE none == [stack |-> <<>>, sections |-> <<>>]
           Next1(n, acc) == AddSection(d, n, acc)
           P == {m \in Nat : \E f : f = [n \in 0 .. m |-> IF n = 0 THEN none ELSE Next1(n, f[n - 1])]}
<1> HIDE DEF Next1, none
<1>1. 0 \in P
  <2> DEFINE f == [n \in 0 .. 0 |-> none]
  <2>1. f = [n \in 0 .. 0 |-> IF n = 0 THEN none ELSE Next1(n, f[n - 1])]
    <3>1. \A n \in 0 .. 0 : n = 0
      OBVIOUS
    <3> QED
      BY <3>1
  <2> HIDE DEF f
  <2> QED
    BY <2>1
<1>2. ASSUME NEW m \in Nat, m \in P PROVE m + 1 \in P
  <2>1. PICK f : f = [n \in 0 .. m |-> IF n = 0 THEN none ELSE Next1(n, f[n - 1])]
    BY <1>2
  <2> DEFINE g == [n \in 0 .. m + 1 |-> IF n <= m THEN f[n] ELSE Next1(n, f[m])]
  <2>2. ASSUME NEW n \in 0 .. m + 1 PROVE g[n] = IF n = 0 THEN none ELSE Next1(n, g[n - 1])
    <3>1. CASE n = 0
      <4>1. f[0] = none
        BY <2>1
      <4> QED
        BY <3>1, <4>1
    <3>2. CASE n # 0 /\ n <= m
      <4>1. f[n] = Next1(n, f[n - 1])
        BY <2>1, <3>2
      <4>2. g[n] = f[n] /\ g[n - 1] = f[n - 1]
        BY <3>2
      <4> QED
        BY <3>2, <4>1, <4>2
    <3>3. CASE n = m + 1
      <4>1. g[n] = Next1(n, f[m]) /\ g[n - 1] = f[m] /\ n # 0
        BY <3>3
      <4> QED
        BY <4>1
    <3> QED
      BY <3>1, <3>2, <3>3
  <2>3. g = [n \in 0 .. m + 1 |-> IF n = 0 THEN none ELSE Next1(n, g[n - 1])]
    <3>1. g = [n \in 0 .. m + 1 |-> g[n]]
      OBVIOUS
    <3> HIDE DEF g
    <3> QED
      BY <2>2, <3>1
  <2> HIDE DEF g
  <2> QED
    BY <2>3
<1> HIDE DEF P
<1>3. N \in P
  BY <1>1, <1>2, SetInduction
<1> QED
  BY <1>3 DEF P, Next1, none

\* The loop over the headings leaves a section for each, with its parent right.
LEMMA HeadingSectionsRight ==
    ASSUME NEW d, Headings(d.headings)
    PROVE  SectionsRight(d, Len(d.headings), HeadingSections(d))
<1> DEFINE N == Len(d.headings)
           f == CHOOSE f : f = [n \in 0 .. N |-> IF n = 0 THEN [stack |-> <<>>, sections |-> <<>>]
                                                 ELSE AddSection(d, n, f[n - 1])]
           P == {n \in Nat : n <= N => LoopRight(d, n, f[n])}
<1>1. N \in Nat
  BY SeqFacts DEF Headings
<1>2. f = [n \in 0 .. N |-> IF n = 0 THEN [stack |-> <<>>, sections |-> <<>>]
                            ELSE AddSection(d, n, f[n - 1])]
  BY <1>1, SectionLoopIsDefined
<1>3. HeadingSections(d) = f[N].sections
  BY DEF HeadingSections
<1> HIDE DEF f
<1>4. 0 \in P
  <2>1. f[0] = [stack |-> <<>>, sections |-> <<>>]
    BY <1>1, <1>2
  <2> QED
    BY <2>1, NoSectionsRight
<1>5. ASSUME NEW n \in Nat, n \in P PROVE n + 1 \in P
  <2>1. SUFFICES ASSUME n + 1 <= N PROVE LoopRight(d, n + 1, f[n + 1])
    OBVIOUS
  <2>2. LoopRight(d, n, f[n])
    BY <1>1, <1>5, <2>1
  <2>3. f[n + 1] = AddSection(d, n + 1, f[n])
    BY <1>1, <1>2, <2>1
  <2> QED
    BY <2>1, <2>2, <2>3, AddSectionRight
<1> HIDE DEF P
<1>6. N \in P
  BY <1>1, <1>4, <1>5, SetInduction
<1>7. LoopRight(d, N, f[N])
  BY <1>1, <1>6 DEF P
<1> QED
  BY <1>3, <1>7 DEF LoopRight

\* Ordinals tell sections with the same heading path apart.
LEMMA SectionIdsDiffer ==
    ASSUME NEW d, NEW n \in Nat, NEW ss, SectionsRight(d, n, ss)
    PROVE  \A i, j \in 1 .. n : ss[i].id = ss[j].id => i = j
<1> DEFINE Same(i) == {k \in 1 .. i - 1 : ss[k].headingPath = ss[i].headingPath}
<1>1. \A i \in 1 .. n : ss[i].id = SectionId(d.path, ss[i].headingPath, Cardinality(Same(i)))
  BY DEF SectionsRight
<1>2. ASSUME NEW i \in 1 .. n, NEW j \in 1 .. n, i < j, ss[i].id = ss[j].id PROVE FALSE
  <2> HIDE DEF Same
  <2>1. ss[i].headingPath = ss[j].headingPath /\ Cardinality(Same(i)) = Cardinality(Same(j))
    BY <1>1, <1>2 DEF SectionId
  <2>2. Same(i) \subseteq Same(j) /\ i \in Same(j) /\ i \notin Same(i) /\ Same(j) \subseteq 1 .. j - 1
    BY <1>2, <2>1 DEF Same
  <2>3. IsFiniteSet(1 .. j - 1)
    <3>1. 1 \in Int /\ j - 1 \in Int
      OBVIOUS
    <3> QED
      BY <3>1, FS_Interval
  <2>4. IsFiniteSet(Same(j))
    BY <2>2, <2>3, FS_Subset
  <2>5. Same(i) = Same(j)
    BY <2>1, <2>2, <2>4, FS_Subset
  <2> QED
    BY <2>2, <2>5
<1>3. SUFFICES ASSUME NEW i \in 1 .. n, NEW j \in 1 .. n, ss[i].id = ss[j].id, i # j PROVE FALSE
  OBVIOUS
<1>4. i < j \/ j < i
  BY <1>3
<1> QED
  BY <1>2, <1>3, <1>4

\* A section's id is not the empty one that stands for no parent.
LEMMA SectionIdNotEmpty == \A p, a, b : SectionId(p, a, b) # <<>>
<1>1. SUFFICES ASSUME NEW p, NEW a, NEW b PROVE SectionId(p, a, b) # <<>>
  OBVIOUS
<1>2. Len(SectionId(p, a, b)) = 4 /\ Len(<<>>) = 0
  BY DEF SectionId
<1> QED
  BY <1>2

\* A document's sections, with headings or without.
LEMMA SectionsFacts ==
    ASSUME NEW d, Headings(d.headings)
    PROVE  LET ss == Sections(d) IN
           /\ d.headings # <<>> => SectionsRight(d, Len(d.headings), ss)
           /\ IsSeq(ss) /\ DOMAIN ss = 1 .. Len(ss) /\ Len(ss) \in Nat
           /\ \A i, j \in 1 .. Len(ss) : ss[i].id = ss[j].id => i = j
           /\ \A i \in 1 .. Len(ss) : ss[i].id # <<>>
           /\ \A i \in 1 .. Len(ss) : ss[i].id[1] = "section" /\ ss[i].id[2] = d.path
           /\ d.headings = <<>> =>
                /\ \A i \in 1 .. Len(ss) : ss[i].parent = <<>> /\ ss[i].previous = <<>>
                                           /\ ss[i].range = <<0, 1>>
                /\ Len(ss) \in 0 .. 1
<1> DEFINE ss == Sections(d)
           path == <<<<>>, "__intro">>
           intro == [id |-> SectionId(d.path, path, 0), headingPath |-> path,
                     parent |-> <<>>, previous |-> <<>>, range |-> <<0, 1>>]
<1>1. CASE d.headings # <<>>
  <2>1. ss = HeadingSections(d)
    BY <1>1 DEF Sections
  <2>2. SectionsRight(d, Len(d.headings), ss) /\ Len(d.headings) \in Nat
    BY <2>1, HeadingSectionsRight, SeqFacts DEF Headings
  <2> HIDE DEF ss
  <2>3. IsSeq(ss) /\ Len(ss) = Len(d.headings)
    BY <2>2 DEF SectionsRight
  <2>4. DOMAIN ss = 1 .. Len(ss) /\ Len(ss) \in Nat
    BY <2>3, SeqFacts
  <2>5. \A i, j \in 1 .. Len(ss) : ss[i].id = ss[j].id => i = j
    BY <2>2, <2>3, SectionIdsDiffer
  <2>6. ASSUME NEW i \in 1 .. Len(ss)
        PROVE  ss[i].id # <<>> /\ ss[i].id[1] = "section" /\ ss[i].id[2] = d.path
    <3> DEFINE c == Cardinality({k \in 1 .. i - 1 : ss[k].headingPath = ss[i].headingPath})
    <3>1. ss[i].id = SectionId(d.path, ss[i].headingPath, c)
      BY <2>2, <2>3 DEF SectionsRight
    <3> HIDE DEF c
    <3>2. ss[i].id = <<"section", d.path, ss[i].headingPath, c>>
      BY <3>1 DEF SectionId
    <3> QED
      BY <3>1, <3>2, SectionIdNotEmpty
  <2> QED
    BY <1>1, <2>2, <2>3, <2>4, <2>5, <2>6 DEF ss
<1>2. CASE d.headings = <<>> /\ d.words = {}
  <2>1. ss = <<>>
    BY <1>2 DEF Sections
  <2> HIDE DEF ss
  <2>2. IsSeq(ss) /\ Len(ss) = 0 /\ DOMAIN ss = 1 .. 0
    BY <2>1, EmptyIsSeq, SeqFacts
  <2> QED
    BY <1>2, <2>2 DEF ss
<1>3. CASE d.headings = <<>> /\ d.words # {}
  <2>1. ss = <<intro>>
    BY <1>3 DEF Sections
  <2>2. /\ intro.id # <<>> /\ intro.parent = <<>> /\ intro.previous = <<>> /\ intro.range = <<0, 1>>
        /\ intro.id[1] = "section" /\ intro.id[2] = d.path
    BY DEF SectionId
  <2> HIDE DEF ss, intro
  <2>3. ss \in Seq({intro}) /\ Len(ss) = 1 /\ ss[1] = intro
    BY <2>1
  <2>4. IsSeq(ss) /\ DOMAIN ss = 1 .. 1
    BY <2>3, IsSeqFrom, SeqFacts
  <2>5. \A i \in 1 .. 1 : i = 1
    OBVIOUS
  <2> QED
    BY <1>3, <2>2, <2>3, <2>4, <2>5 DEF ss
<1> QED
  BY <1>1, <1>2, <1>3

-----------------------------------------------------------------------------
(* The nodes of an index.                                                    *)

\* A record with the fields of a node, and no others.
IsNode(n) ==
    n = [id |-> n.id, type |-> n.type, entity |-> n.entity, owner |-> n.owner,
         path |-> n.path, groups |-> n.groups, effective |-> n.effective,
         title |-> n.title, text |-> n.text, range |-> n.range]

\* A node that belongs to no document and no heading.
IsEntity(n) == n.type \in {"Reference", "Group", "Series"} /\ n.path = NoPath /\ n.text = {}

\* The fields of an entity.
LEMMA EntityIsNode ==
    ASSUME NEW id, NEW type, NEW entity, NEW owner
    PROVE  LET n == Entity(id, type, entity, owner) IN
           /\ IsNode(n)
           /\ n.id = id /\ n.type = type /\ n.entity = entity /\ n.owner = owner
           /\ n.path = NoPath /\ n.text = {} /\ n.range = <<0, 0>>
BY DEF Entity, IsNode

\* The fields of a file's node.
LEMMA FileIsNode ==
    ASSUME NEW d
    PROVE  LET n == FileNode(d) IN
           /\ IsNode(n)
           /\ n.id = FileId(d.path) /\ n.type = "File" /\ n.owner = d.path /\ n.path = d.path
           /\ n.text = TextOf(d, 0, Len(d.headings) + 1)
BY DEF FileNode, IsNode

\* The fields of a section's node.
LEMMA SectionIsNode ==
    ASSUME NEW d, NEW id, NEW range
    PROVE  LET n == SectionNode(d, id, range) IN
           /\ IsNode(n)
           /\ n.id = id /\ n.type = "Section" /\ n.owner = d.path /\ n.path = d.path
           /\ n.text = TextOf(d, range[1], range[2]) /\ n.range = range
BY DEF SectionNode, IsNode

\* Effective groups are all that WithEffective adds.
LEMMA EffectiveIsNode ==
    ASSUME NEW m, IsNode(m)
    PROVE  LET n == WithEffective(m) IN
           /\ IsNode(n)
           /\ n.id = m.id /\ n.type = m.type /\ n.entity = m.entity /\ n.owner = m.owner
           /\ n.path = m.path /\ n.text = m.text /\ n.range = m.range
<1> DEFINE n == WithEffective(m)
           e == UNION {closure[g] : g \in DirectGroups(m)}
<1>1. n = [m EXCEPT !.effective = e]
  BY DEF WithEffective
<1> HIDE DEF n, e
<1>2. n = [id |-> m.id, type |-> m.type, entity |-> m.entity, owner |-> m.owner,
           path |-> m.path, groups |-> m.groups, effective |-> e,
           title |-> m.title, text |-> m.text, range |-> m.range]
  BY <1>1 DEF IsNode
<1> QED
  <2>1. IsNode(n)
    BY <1>2 DEF IsNode
  <2>2. /\ n.id = m.id /\ n.type = m.type /\ n.entity = m.entity /\ n.owner = m.owner
        /\ n.path = m.path /\ n.text = m.text /\ n.range = m.range
    BY <1>2
  <2> QED
    BY <2>1, <2>2 DEF n

\* The nodes before effective groups are added.
ReadNodes ==
    {Entity(CommitId, "Reference", "Commit", NoOwner),
     Entity(RefId, "Reference", "GitRef", NoOwner)}
    \cup UNION {DocumentNodes(d) : d \in Documents}

\* The nodes of a built index.
LEMMA BuiltNodes ==
    ASSUME index = BuiltIndex
    PROVE  index.nodes = {WithEffective(n) : n \in ReadNodes} \cup Unresolved
BY DEF BuiltIndex, ReadNodes

\* The edges of a built index.
LEMMA BuiltEdges ==
    ASSUME index = BuiltIndex
    PROVE  \A x : x \in index.edges <=> \/ \E e \in Documents : x \in DocumentEdges(e)
                                        \/ x \in RelationEdges
                                        \/ x \in EffectiveEdges
                                        \/ x \in LinkEdges
<1>1. index.edges = (UNION {DocumentEdges(d) : d \in Documents})
                    \cup RelationEdges \cup EffectiveEdges \cup LinkEdges
  BY DEF BuiltIndex
<1> QED
  BY <1>1

\* A node read of a document is a file's, a section's, or an entity.
LEMMA ReadNodesAre ==
    ASSUME NEW n \in ReadNodes
    PROVE  /\ IsNode(n)
           /\ \/ IsEntity(n)
              \/ \E d \in Documents : n = FileNode(d)
              \/ \E d \in Documents : \E i \in DOMAIN Sections(d) :
                   n = SectionNode(d, Sections(d)[i].id, Sections(d)[i].range)
<1>1. CASE n \in {Entity(CommitId, "Reference", "Commit", NoOwner),
                  Entity(RefId, "Reference", "GitRef", NoOwner)}
  BY <1>1, EntityIsNode DEF IsEntity
<1>2. CASE \E d \in Documents : n \in DocumentNodes(d)
  <2>1. PICK d \in Documents : n \in DocumentNodes(d)
    BY <1>2
  <2>2. CASE n \in DependencyNodes(d)
    BY <2>2, EntityIsNode DEF IsEntity, DependencyNodes
  <2>3. CASE \/ n \in {Entity(GroupId(g), "Group", "Group", NoOwner) : g \in NamedGroups(d)}
             \/ n \in {Entity(SeriesId(s), "Series", "Series", NoOwner) : s \in Meta(d).series}
             \/ n = Entity(DirectoryId(d.path), "Reference", "Directory", NoOwner)
    BY <2>3, EntityIsNode DEF IsEntity
  <2>4. CASE n = FileNode(d)
    BY <2>4, FileIsNode
  <2>5. CASE \E i \in DOMAIN Sections(d) :
               n = SectionNode(d, Sections(d)[i].id, Sections(d)[i].range)
    BY <2>5, SectionIsNode
  <2> QED
    BY <2>1, <2>2, <2>3, <2>4, <2>5 DEF DocumentNodes
<1> QED
  BY <1>1, <1>2 DEF ReadNodes

\* The node of an unresolved link.
LEMMA UnresolvedAre ==
    ASSUME NEW n \in Unresolved
    PROVE  /\ IsNode(n) /\ n.type = "Reference" /\ n.path = NoPath /\ n.text = {}
           /\ \E i \in DOMAIN input.docs : \E t \in input.docs[i].links :
                n.id = ReferenceId(t)
BY EntityIsNode DEF Unresolved, Dangling

\* What a build assumes of its documents.
LEMMA DocumentFacts ==
    ASSUME input \in Inputs
    PROVE  /\ IsSeq(input.docs)
           /\ \A d \in Documents : WellFormed(d) /\ Headings(d.headings)
           /\ \A d, e \in Documents : d.path = e.path => d = e
<1>1. /\ IsSeq(input.docs)
      /\ \A i, j \in DOMAIN input.docs : input.docs[i].path = input.docs[j].path => i = j
      /\ \A i \in DOMAIN input.docs : WellFormed(input.docs[i])
  BY IndexInputs
<1>2. \A d \in Documents : WellFormed(d)
  BY <1>1 DEF Documents
<1>3. \A d \in Documents : Headings(d.headings)
  BY <1>2 DEF WellFormed, Headings
<1>4. \A d, e \in Documents : d.path = e.path => d = e
  BY <1>1 DEF Documents
<1> QED
  BY <1>1, <1>2, <1>3, <1>4

-----------------------------------------------------------------------------
(* The sections of an index.                                                 *)

\* The node of a document's i-th section.
SectionAt(d, i) == WithEffective(SectionNode(d, Sections(d)[i].id, Sections(d)[i].range))

\* The fields of the node of the i-th section.
LEMMA SectionAtIs ==
    ASSUME NEW d, NEW i
    PROVE  /\ SectionAt(d, i).id = Sections(d)[i].id
           /\ SectionAt(d, i).type = "Section"
           /\ SectionAt(d, i).owner = d.path
           /\ SectionAt(d, i).range = Sections(d)[i].range
<1> DEFINE m == SectionNode(d, Sections(d)[i].id, Sections(d)[i].range)
<1>1. /\ IsNode(m) /\ m.id = Sections(d)[i].id /\ m.type = "Section" /\ m.owner = d.path
      /\ m.range = Sections(d)[i].range
  BY SectionIsNode
<1>2. SectionAt(d, i) = WithEffective(m)
  BY DEF SectionAt
<1> HIDE DEF m
<1> QED
  BY <1>1, <1>2, EffectiveIsNode

\* The section nodes of a document are those of its sections.
LEMMA SectionsOfIs ==
    ASSUME input \in Inputs, index = BuiltIndex, NEW d \in Documents
    PROVE  SectionsOf(d) = {SectionAt(d, i) : i \in DOMAIN Sections(d)}
<1>1. ASSUME NEW i \in DOMAIN Sections(d) PROVE SectionAt(d, i) \in SectionsOf(d)
  <2>1. SectionNode(d, Sections(d)[i].id, Sections(d)[i].range) \in ReadNodes
    BY <1>1 DEF ReadNodes, DocumentNodes
  <2>2. SectionAt(d, i) \in index.nodes
    BY <2>1, BuiltNodes DEF SectionAt
  <2> QED
    BY <2>2, SectionAtIs DEF SectionsOf
<1>2. ASSUME NEW n \in SectionsOf(d) PROVE \E i \in DOMAIN Sections(d) : n = SectionAt(d, i)
  <2>1. n.type = "Section" /\ n.owner = d.path /\ n \in index.nodes
    BY <1>2 DEF SectionsOf
  <2>2. n \notin Unresolved
    BY <2>1, UnresolvedAre
  <2>3. PICK m \in ReadNodes : n = WithEffective(m)
    BY <2>1, <2>2, BuiltNodes
  <2>4. IsNode(m) /\ m.type = "Section" /\ m.owner = d.path
    BY <2>1, <2>3, ReadNodesAre, EffectiveIsNode
  <2>5. ~IsEntity(m) /\ ~\E e \in Documents : m = FileNode(e)
    BY <2>4, FileIsNode DEF IsEntity
  <2>6. PICK e \in Documents : \E i \in DOMAIN Sections(e) :
               m = SectionNode(e, Sections(e)[i].id, Sections(e)[i].range)
    BY <2>5, ReadNodesAre
  <2>7. e.path = d.path
    BY <2>4, <2>6, SectionIsNode
  <2>8. e = d
    BY <2>7, DocumentFacts
  <2> QED
    BY <2>3, <2>6, <2>8 DEF SectionAt
<1> QED
  BY <1>1, <1>2

\* Edges to a parent are between the sections of a document.
LEMMA ParentEdges ==
    ASSUME input \in Inputs, index = BuiltIndex, NEW d \in Documents, NEW a, NEW b
    PROVE  Edge(a, "PARENT_SECTION", b, d.path) \in index.edges
             <=> \E i \in DOMAIN Sections(d) : /\ Sections(d)[i].parent # <<>>
                                               /\ Sections(d)[i].id = a
                                               /\ Sections(d)[i].parent = b
<1> DEFINE edge == Edge(a, "PARENT_SECTION", b, d.path)
<1>1. edge.type = "PARENT_SECTION" /\ edge.owner = d.path /\ edge.source = a /\ edge.target = b
  BY DEF Edge
<1> HIDE DEF edge
<1>2. edge \notin RelationEdges /\ edge \notin EffectiveEdges /\ edge \notin LinkEdges
  BY <1>1 DEF RelationEdges, EffectiveEdges, LinkEdges, Edge
<1>3. ASSUME NEW e \in Documents
      PROVE  edge \in DocumentEdges(e) <=> edge \in SectionEdges(e)
  <2>1. edge \notin DependencyEdges(e)
    BY <1>1 DEF DependencyEdges, Edge
  <2>2. edge \notin {Edge(FileId(e.path), "DEFINED_BY", CommitId, e.path),
                    Edge(RefId, "DEFINES", FileId(e.path), e.path),
                    Edge(FileId(e.path), "BELONGS_TO", DirectoryId(e.path), e.path)}
    BY <1>1 DEF Edge
  <2>3. edge \notin {Edge(FileId(e.path), "HAS_GROUP", GroupId(g), e.path) : g \in Meta(e).groups}
    BY <1>1 DEF Edge
  <2>4. edge \notin {Edge(FileId(e.path), "IN_SERIES", SeriesId(s), e.path) : s \in Meta(e).series}
    BY <1>1 DEF Edge
  <2> QED
    BY <2>1, <2>2, <2>3, <2>4 DEF DocumentEdges
<1>4. edge \in index.edges <=> \E e \in Documents : edge \in SectionEdges(e)
  BY <1>2, <1>3, BuiltEdges
<1>5. ASSUME NEW e \in Documents
      PROVE  edge \in SectionEdges(e)
               <=> \E i \in DOMAIN Sections(e) : /\ Sections(e)[i].parent # <<>>
                                                 /\ edge = Edge(Sections(e)[i].id, "PARENT_SECTION",
                                                                Sections(e)[i].parent, e.path)
  <2>1. ASSUME NEW s
        PROVE  edge \in {Edge(FileId(e.path), "HAS_SECTION", s.id, e.path),
                         Edge(s.id, "BELONGS_TO_FILE", FileId(e.path), e.path)}
                        \cup (IF s.parent = <<>> THEN {}
                              ELSE {Edge(s.id, "PARENT_SECTION", s.parent, e.path),
                                    Edge(s.parent, "CHILD_SECTION", s.id, e.path)})
                        \cup (IF s.previous = <<>> THEN {}
                              ELSE {Edge(s.previous, "NEXT_SECTION", s.id, e.path),
                                    Edge(s.id, "PREV_SECTION", s.previous, e.path)})
                 <=> s.parent # <<>> /\ edge = Edge(s.id, "PARENT_SECTION", s.parent, e.path)
    BY <1>1 DEF Edge
  <2> QED
    BY <2>1 DEF SectionEdges
<1>6. ASSUME NEW e \in Documents, edge \in SectionEdges(e) PROVE e = d
  <2>1. e.path = d.path
    BY <1>1, <1>5, <1>6 DEF Edge
  <2> QED
    BY <2>1, DocumentFacts
<1>7. edge \in index.edges <=> edge \in SectionEdges(d)
  BY <1>4, <1>6
<1>8. ASSUME NEW s PROVE edge = Edge(s.id, "PARENT_SECTION", s.parent, d.path)
                           <=> s.id = a /\ s.parent = b
  BY DEF Edge, edge
<1>9. edge \in SectionEdges(d)
        <=> \E i \in DOMAIN Sections(d) : /\ Sections(d)[i].parent # <<>>
                                          /\ Sections(d)[i].id = a
                                          /\ Sections(d)[i].parent = b
  BY <1>5, <1>8
<1> QED
  BY <1>7, <1>9 DEF edge

\* A document's sections, one node each.
LEMMA SectionsCount ==
    ASSUME input \in Inputs, index = BuiltIndex, NEW d \in Documents
    PROVE  Cardinality(SectionsOf(d)) = Len(Sections(d))
<1> DEFINE N == Len(Sections(d))
           f == [i \in 1 .. N |-> SectionAt(d, i)]
<1>1. Headings(d.headings)
  BY DocumentFacts
<1>2. N \in Nat /\ DOMAIN Sections(d) = 1 .. N
      /\ \A i, j \in 1 .. N : Sections(d)[i].id = Sections(d)[j].id => i = j
  BY <1>1, SectionsFacts
<1> HIDE DEF N
<1>3. SectionsOf(d) = {SectionAt(d, i) : i \in 1 .. N}
  BY <1>2, SectionsOfIs
<1>4. \A i, j \in 1 .. N : SectionAt(d, i) = SectionAt(d, j) => i = j
  BY <1>2, SectionAtIs
<1>5. f \in [1 .. N -> SectionsOf(d)]
  BY <1>3
<1>6. \A n \in SectionsOf(d) : \E i \in 1 .. N : f[i] = n
  BY <1>3
<1>7. \A i, j \in 1 .. N : f[i] = f[j] => i = j
  BY <1>4
<1> HIDE DEF f
<1>8. f \in Bijection(1 .. N, SectionsOf(d))
  BY <1>5, <1>6, <1>7 DEF Bijection, Injection, Surjection, IsInjective
<1>9. ExistsBijection(1 .. N, SectionsOf(d))
  BY <1>8 DEF ExistsBijection
<1> QED
  BY <1>2, <1>9, FS_CountingElements DEF N

\* The parent is the innermost section that holds a heading.
LEMMA ParentIsInnermost ==
    ASSUME NEW d, Headings(d.headings), d.headings # <<>>,
           NEW i \in 1 .. Len(d.headings), NEW j \in 1 .. Len(d.headings)
    PROVE  Sections(d)[i].parent = Sections(d)[j].id
             <=> /\ j \in Enclosing(d.headings, i)
                 /\ \A k \in Enclosing(d.headings, i) : k <= j
<1> DEFINE ss == Sections(d)
           E == Enclosing(d.headings, i)
           N == Len(d.headings)
<1>1. /\ SectionsRight(d, N, ss) /\ Len(ss) = N /\ N \in Nat
      /\ \A a, b \in 1 .. N : ss[a].id = ss[b].id => a = b
      /\ \A a \in 1 .. N : ss[a].id # <<>>
  <2>1. SectionsRight(d, N, ss) /\ Len(ss) \in Nat
    BY SectionsFacts
  <2>2. Len(ss) = N
    BY <2>1 DEF SectionsRight
  <2> QED
    BY <2>1, <2>2, SectionsFacts
<1>2. E \subseteq 0 .. N /\ E \subseteq 1 .. N
  BY <1>1 DEF Enclosing
<1>3. E = {} => ss[i].parent = <<>>
  BY <1>1 DEF SectionsRight
<1>4. \A k \in E : (\A l \in E : l <= k) => ss[i].parent = ss[k].id
  BY <1>1 DEF SectionsRight
<1> HIDE DEF ss, E
<1>5. ASSUME ss[i].parent = ss[j].id PROVE j \in E /\ \A k \in E : k <= j
  <2>1. E # {}
    BY <1>1, <1>3, <1>5
  <2>2. PICK k \in E : \A l \in E : l <= k
    BY <1>1, <1>2, <2>1, Extremes
  <2>3. ss[k].id = ss[j].id
    BY <1>4, <1>5, <2>2
  <2>4. k = j
    BY <1>1, <1>2, <2>3
  <2> QED
    BY <2>2, <2>4
<1>6. ASSUME j \in E, \A k \in E : k <= j PROVE ss[i].parent = ss[j].id
  BY <1>4, <1>6
<1> QED
  BY <1>5, <1>6 DEF ss, E

\* Without headings there is one section at most, and it has no parent.
LEMMA IntroHasNoParent ==
    ASSUME NEW d, d.headings = <<>>, Headings(d.headings), NEW i \in DOMAIN Sections(d)
    PROVE  Sections(d)[i].parent = <<>> /\ Sections(d)[i].range = <<0, 1>>
BY SectionsFacts

\* SectionsNest in a built index: a node for each heading, nested as their ranges are.
LEMMA SectionsDoNest ==
    ASSUME input \in Inputs, index = BuiltIndex
    PROVE  SectionsNest
<1> SUFFICES ASSUME NEW d \in Documents
             PROVE  /\ d.headings # <<>> => Cardinality(SectionsOf(d)) = Len(d.headings)
                    /\ \A s, t \in SectionsOf(d) :
                         LET below == s.range[1] < t.range[1] /\ t.range[2] <= s.range[2]
                             between == {u \in SectionsOf(d) : /\ s.range[1] < u.range[1]
                                                               /\ u.range[1] < t.range[1]
                                                               /\ t.range[2] <= u.range[2]}
                         IN  Edge(t.id, "PARENT_SECTION", s.id, d.path) \in index.edges
                               <=> below /\ between = {}
  BY DEF SectionsNest
<1> DEFINE hs == d.headings
           ss == Sections(d)
           N == Len(hs)
<1>1. Headings(hs)
  BY DocumentFacts
<1>2. N \in Nat
  BY <1>1, SeqFacts DEF Headings
<1>3. /\ DOMAIN ss = 1 .. Len(ss) /\ Len(ss) \in Nat
      /\ \A i, j \in DOMAIN ss : ss[i].id = ss[j].id => i = j
      /\ \A i \in DOMAIN ss : ss[i].id # <<>>
      /\ hs # <<>> => SectionsRight(d, N, ss)
  BY <1>1, SectionsFacts
<1>4. hs # <<>> => Len(ss) = N /\ DOMAIN ss = 1 .. N
  BY <1>3 DEF SectionsRight
<1>5. hs # <<>> => Cardinality(SectionsOf(d)) = N
  BY <1>4, SectionsCount
<1>6. ASSUME NEW s \in SectionsOf(d), NEW t \in SectionsOf(d)
      PROVE  Edge(t.id, "PARENT_SECTION", s.id, d.path) \in index.edges
               <=> /\ s.range[1] < t.range[1] /\ t.range[2] <= s.range[2]
                   /\ ~\E u \in SectionsOf(d) : /\ s.range[1] < u.range[1]
                                                /\ u.range[1] < t.range[1]
                                                /\ t.range[2] <= u.range[2]
  <2>1. SectionsOf(d) = {SectionAt(d, i) : i \in DOMAIN ss}
    BY SectionsOfIs
  <2>2. PICK j \in DOMAIN ss : s = SectionAt(d, j)
    BY <2>1
  <2>3. PICK i \in DOMAIN ss : t = SectionAt(d, i)
    BY <2>1
  <2>4. s.id = ss[j].id /\ s.range = ss[j].range /\ t.id = ss[i].id /\ t.range = ss[i].range
    BY <2>2, <2>3, SectionAtIs
  <2>5. Edge(t.id, "PARENT_SECTION", s.id, d.path) \in index.edges
          <=> ss[i].parent = ss[j].id
    <3>1. Edge(ss[i].id, "PARENT_SECTION", ss[j].id, d.path) \in index.edges
            <=> \E k \in DOMAIN ss : ss[k].parent # <<>> /\ ss[k].id = ss[i].id
                                     /\ ss[k].parent = ss[j].id
      BY ParentEdges
    <3> HIDE DEF ss
    <3> QED
      BY <1>3, <2>4, <3>1
  <2>6. (\E u \in SectionsOf(d) : /\ s.range[1] < u.range[1] /\ u.range[1] < t.range[1]
                                  /\ t.range[2] <= u.range[2])
          <=> \E k \in DOMAIN ss : /\ ss[j].range[1] < ss[k].range[1]
                                   /\ ss[k].range[1] < ss[i].range[1]
                                   /\ ss[i].range[2] <= ss[k].range[2]
    BY <2>1, <2>4, SectionAtIs
  <2>7. CASE hs = <<>>
    <3>1. ss[i].parent = <<>> /\ ss[i].range = <<0, 1>> /\ ss[j].range = <<0, 1>>
      BY <1>1, <2>7, IntroHasNoParent
    <3>2. ~(ss[j].range[1] < ss[i].range[1])
      BY <3>1
    <3> QED
      BY <1>3, <2>4, <2>5, <3>1, <3>2
  <2>8. CASE hs # <<>>
    <3> DEFINE E == Enclosing(hs, i)
               End(k) == SectionEnd(hs, k)
    <3>1. \A k \in 1 .. N : ss[k].range[1] = k /\ ss[k].range[2] = End(k)
      <4>1. \A k \in 1 .. N : ss[k].range = <<k, SectionEnd(hs, k)>>
        BY <1>3, <2>8 DEF SectionsRight
      <4> HIDE DEF ss, hs, N
      <4> QED
        BY <4>1
    <3>2. i \in 1 .. N /\ j \in 1 .. N
      BY <1>4, <2>8
    <3>3. \A k \in 1 .. N : k \in E <=> k < i /\ End(i) <= End(k)
      <4>1. ASSUME NEW k \in 1 .. N, k < i PROVE End(k) > i <=> End(i) <= End(k)
        BY <1>1, <3>2, <4>1, SectionsDoNotCross
      <4>2. \A k \in 1 .. N : k \in E <=> k < i /\ End(k) > i
        BY <1>2, <3>2 DEF Enclosing
      <4> QED
        BY <4>1, <4>2
    <3>4. ss[i].parent = ss[j].id <=> j \in E /\ \A k \in E : k <= j
      BY <1>1, <2>8, <3>2, ParentIsInnermost
    <3>5. E \subseteq 1 .. N
      BY <1>2, <3>2 DEF Enclosing
    <3> HIDE DEF E, End
    <3>6. (\A k \in E : k <= j) <=> ~\E k \in 1 .. N : j < k /\ k < i /\ End(i) <= End(k)
      BY <1>2, <3>2, <3>3, <3>5
    <3>7. (\E k \in DOMAIN ss : /\ ss[j].range[1] < ss[k].range[1]
                                /\ ss[k].range[1] < ss[i].range[1]
                                /\ ss[i].range[2] <= ss[k].range[2])
            <=> \E k \in 1 .. N : j < k /\ k < i /\ End(i) <= End(k)
      BY <1>4, <2>8, <3>1, <3>2
    <3>8. s.range[1] < t.range[1] /\ t.range[2] <= s.range[2] <=> j \in E
      BY <2>4, <3>1, <3>2, <3>3
    <3> QED
      BY <2>5, <2>6, <3>4, <3>6, <3>7, <3>8
  <2> QED
    BY <2>7, <2>8
<1> QED
  BY <1>5, <1>6

-----------------------------------------------------------------------------
(* Where links lead.                                                         *)

\* A link leads to at most one path.
LEMMA ResolvedIsPath ==
    ASSUME NEW from, NEW t
    PROVE  \A p, q \in ResolveLinkPath(from, t) : p = q
BY DEF ResolveLinkPath

\* The documents under a path, exact or stripped, and the last of them.
Under(p) == {i \in DOMAIN input.docs : p \in {input.docs[i].path, Stripped(input.docs[i].path)}}

\* Of the documents under a path, the last one is found.
LEMMA FilesAtIsLast ==
    ASSUME input \in Inputs, NEW p
    PROVE  /\ FilesAt(p) \subseteq Under(p)
           /\ Under(p) # {} => FilesAt(p) # {}
           /\ \A i \in Under(p) :
                (\A j \in i + 1 .. Len(input.docs) : j \notin Under(p)) => FilesAt(p) = {i}
<1> DEFINE N == Len(input.docs)
           U == Under(p)
<1>1. DOMAIN input.docs = 1 .. N /\ N \in Nat
  BY DocumentFacts, SeqFacts
<1>2. \A i \in 1 .. N : i \in U <=> p \in {input.docs[i].path, Stripped(input.docs[i].path)}
  BY <1>1 DEF Under
<1>3. U \subseteq 1 .. N
  BY <1>1 DEF Under
<1>4. FilesAt(p) = {i \in U : \A j \in i + 1 .. N : j \notin U}
  <2>1. \A i \in 1 .. N : i \in FilesAt(p) <=> i \in U /\ \A j \in i + 1 .. N : j \notin U
    BY <1>1, <1>2 DEF FilesAt
  <2>2. FilesAt(p) \subseteq 1 .. N
    BY <1>1 DEF FilesAt
  <2> HIDE DEF U
  <2> QED
    BY <1>3, <2>1, <2>2
<1> HIDE DEF N, U
<1>5. ASSUME U # {} PROVE FilesAt(p) # {}
  <2>1. U \subseteq 0 .. N
    BY <1>1, <1>3
  <2>2. PICK i \in U : \A j \in U : j <= i
    BY <1>1, <1>5, <2>1, Extremes
  <2> QED
    BY <1>1, <1>3, <1>4, <2>2
<1>6. ASSUME NEW i \in U, \A j \in i + 1 .. N : j \notin U PROVE FilesAt(p) = {i}
  <2>1. i \in FilesAt(p)
    BY <1>4, <1>6
  <2>2. ASSUME NEW j \in FilesAt(p) PROVE j = i
    <3>1. j \in U /\ \A k \in j + 1 .. N : k \notin U
      BY <1>4
    <3>2. j \in 1 .. N /\ i \in 1 .. N /\ N \in Nat
      BY <1>1, <1>3, <3>1
    <3>3. ~(i < j)
      BY <1>6, <3>1, <3>2
    <3>4. ~(j < i)
      BY <3>1, <3>2
    <3> QED
      BY <3>2, <3>3, <3>4
  <2> QED
    BY <2>1, <2>2
<1> QED
  BY <1>4, <1>5, <1>6 DEF U, N

\* A document at exactly the path is the one a link leads to, if no later one is
\* stripped to it.
LEMMA ExactTarget ==
    ASSUME input \in Inputs, NEW d, NEW t,
           NEW p, ResolveLinkPath(d.path, t) = {p},
           NEW i \in DOMAIN input.docs, input.docs[i].path = p,
           \A j \in i + 1 .. Len(input.docs) : Stripped(input.docs[j].path) # p
    PROVE  LinkTarget(d, t) = FileId(p)
<1>1. DOMAIN input.docs = 1 .. Len(input.docs) /\ Len(input.docs) \in Nat
  BY DocumentFacts, SeqFacts
<1>2. \A j \in DOMAIN input.docs : input.docs[j].path = p => j = i
  BY IndexInputs
<1>3. i \in Under(p)
  BY DEF Under
<1>4. ASSUME NEW j \in i + 1 .. Len(input.docs) PROVE j \notin Under(p)
  <2>1. j \in DOMAIN input.docs /\ j # i
    BY <1>1
  <2>2. input.docs[j].path # p
    BY <1>2, <2>1
  <2> QED
    BY <2>2 DEF Under
<1>5. FilesAt(p) = {i}
  BY <1>3, <1>4, FilesAtIsLast
<1>6. LinkTargets(d.path, t) = {i}
  BY <1>5 DEF LinkTargets
<1> QED
  BY <1>6 DEF LinkTarget

\* Whether a document is under a path or under what it is stripped to.
IsNear(e, p) == {e.path, Stripped(e.path)} \cap {p, Stripped(p)} # {}

\* A link leads to a document near its path, if there is one.
LEMMA NearTarget ==
    ASSUME input \in Inputs, NEW d, NEW t,
           NEW p, ResolveLinkPath(d.path, t) = {p}
    PROVE  \/ \E e \in Documents : IsNear(e, p) /\ LinkTarget(d, t) = FileId(e.path)
           \/ /\ \A e \in Documents : ~IsNear(e, p)
              /\ LinkTarget(d, t) = ReferenceId(t)
<1> DEFINE found == LinkTargets(d.path, t)
<1>1. found = IF FilesAt(p) # {} THEN FilesAt(p) ELSE FilesAt(Stripped(p))
  BY DEF LinkTargets
<1> HIDE DEF found
<1>2. \A i \in DOMAIN input.docs :
        IsNear(input.docs[i], p) <=> i \in Under(p) \cup Under(Stripped(p))
  BY DEF IsNear, Under
<1>3. CASE found # {}
  <2>1. PICK i \in found : LinkTarget(d, t) = FileId(input.docs[i].path)
    BY <1>3 DEF LinkTarget, found
  <2>2. i \in Under(p) \cup Under(Stripped(p))
    BY <1>1, FilesAtIsLast
  <2>3. i \in DOMAIN input.docs
    BY <2>2 DEF Under
  <2> QED
    BY <1>2, <2>1, <2>2, <2>3 DEF Documents
<1>4. CASE found = {}
  <2>1. LinkTarget(d, t) = ReferenceId(t)
    BY <1>4 DEF LinkTarget, found
  <2>2. Under(p) = {} /\ Under(Stripped(p)) = {}
    BY <1>1, <1>4, FilesAtIsLast
  <2>3. \A e \in Documents : ~IsNear(e, p)
    BY <1>2, <2>2 DEF Documents
  <2> QED
    BY <2>1, <2>3
<1> QED
  BY <1>3, <1>4

-----------------------------------------------------------------------------
(* Where edges end.                                                          *)

\* What ReadDocuments makes of the relations.
RelationParents ==
    [g \in Groups |-> {r.to : r \in {q \in Relations : q.from = g /\ q.propagates}}]

\* What holds of an index that is built.
IndexRight ==
    /\ input \in Inputs
    /\ index = BuiltIndex
    /\ GroupInv
    /\ parents = RelationParents
    /\ \A d \in Documents : Meta(d).groups \subseteq DOMAIN closure

\* What is read of the documents is in the index.
LEMMA ReadIsIn ==
    ASSUME index = BuiltIndex, NEW m \in ReadNodes
    PROVE  m.id \in NodeIds
<1>1. WithEffective(m) \in index.nodes
  BY BuiltNodes
<1>2. WithEffective(m).id = m.id
  BY ReadNodesAre, EffectiveIsNode
<1> QED
  BY <1>1, <1>2 DEF NodeIds

\* The ids that a document's edges name are in the index.
LEMMA IdsOfDocument ==
    ASSUME index = BuiltIndex, NEW d \in Documents
    PROVE  /\ {CommitId, RefId, FileId(d.path), DirectoryId(d.path)} \subseteq NodeIds
           /\ \A g \in NamedGroups(d) : GroupId(g) \in NodeIds
           /\ \A s \in Meta(d).series : SeriesId(s) \in NodeIds
           /\ \A l \in Meta(d).depends : {EntityId(d.path, l.from), EntityId(d.path, l.to)} \subseteq NodeIds
           /\ \A i \in DOMAIN Sections(d) : Sections(d)[i].id \in NodeIds
<1>1. /\ Entity(CommitId, "Reference", "Commit", NoOwner) \in ReadNodes
      /\ Entity(RefId, "Reference", "GitRef", NoOwner) \in ReadNodes
  BY DEF ReadNodes
<1>2. \A n \in DocumentNodes(d) : n \in ReadNodes
  BY DEF ReadNodes
<1>3. /\ FileNode(d) \in ReadNodes
      /\ Entity(DirectoryId(d.path), "Reference", "Directory", NoOwner) \in ReadNodes
      /\ \A g \in NamedGroups(d) : Entity(GroupId(g), "Group", "Group", NoOwner) \in ReadNodes
      /\ \A s \in Meta(d).series : Entity(SeriesId(s), "Series", "Series", NoOwner) \in ReadNodes
      /\ \A i \in DOMAIN Sections(d) :
           SectionNode(d, Sections(d)[i].id, Sections(d)[i].range) \in ReadNodes
  BY <1>2 DEF DocumentNodes
<1>4. ASSUME NEW l \in Meta(d).depends, NEW end \in {l.from, l.to}
      PROVE  Entity(EntityId(d.path, end), "Reference", "ExactEntityReference", d.path) \in ReadNodes
  <2>1. Entity(EntityId(d.path, end), "Reference", "ExactEntityReference", d.path)
          \in DependencyNodes(d)
    BY <1>4 DEF DependencyNodes
  <2> QED
    BY <1>2, <2>1 DEF DocumentNodes
<1>5. {CommitId, RefId, FileId(d.path), DirectoryId(d.path)} \subseteq NodeIds
  <2>1. CommitId \in NodeIds /\ RefId \in NodeIds
    BY <1>1, EntityIsNode, ReadIsIn
  <2>2. DirectoryId(d.path) \in NodeIds
    BY <1>3, EntityIsNode, ReadIsIn
  <2>3. FileId(d.path) \in NodeIds
    BY <1>3, FileIsNode, ReadIsIn
  <2> QED
    BY <2>1, <2>2, <2>3
<1>6. \A g \in NamedGroups(d) : GroupId(g) \in NodeIds
  BY <1>3, EntityIsNode, ReadIsIn
<1>7. \A s \in Meta(d).series : SeriesId(s) \in NodeIds
  BY <1>3, EntityIsNode, ReadIsIn
<1>8. \A l \in Meta(d).depends : \A end \in {l.from, l.to} : EntityId(d.path, end) \in NodeIds
  BY <1>4, EntityIsNode, ReadIsIn
<1>9. \A i \in DOMAIN Sections(d) : Sections(d)[i].id \in NodeIds
  BY <1>3, SectionIsNode, ReadIsIn
<1> QED
  BY <1>5, <1>6, <1>7, <1>8, <1>9

\* A section's parent and the one before it are sections.
LEMMA SectionEnds ==
    ASSUME NEW d, Headings(d.headings), NEW i \in DOMAIN Sections(d)
    PROVE  LET ids == {Sections(d)[j].id : j \in DOMAIN Sections(d)} IN
           {Sections(d)[i].parent, Sections(d)[i].previous} \subseteq ids \cup {<<>>}
<1> DEFINE ss == Sections(d)
           N == Len(d.headings)
           ids == {ss[j].id : j \in DOMAIN ss}
<1>1. CASE d.headings = <<>>
  BY <1>1, SectionsFacts
<1>2. CASE d.headings # <<>>
  <2>1. SectionsRight(d, N, ss) /\ DOMAIN ss = 1 .. Len(ss)
    BY <1>2, SectionsFacts
  <2>2. DOMAIN ss = 1 .. N /\ N \in Nat
    BY <2>1, SeqFacts DEF SectionsRight, Headings
  <2> HIDE DEF ss, N
  <2>3. ss[i].previous = IF i = 1 THEN ss[i].id ELSE ss[i - 1].id
    BY <2>1, <2>2 DEF SectionsRight, ss
  <2>4. ss[i].previous \in ids
    <3>1. CASE i = 1
      BY <2>3, <3>1 DEF ss
    <3>2. CASE i # 1
      <4>1. i - 1 \in DOMAIN ss
        BY <2>2, <3>2 DEF ss
      <4> QED
        BY <2>3, <3>2, <4>1
    <3> QED
      BY <3>1, <3>2
  <2>5. ss[i].parent \in ids \cup {<<>>}
    <3> DEFINE E == Enclosing(d.headings, i)
    <3>1. E = {} => ss[i].parent = <<>>
      BY <2>1, <2>2 DEF SectionsRight, ss
    <3>2. \A j \in E : (\A k \in E : k <= j) => ss[i].parent = ss[j].id
      BY <2>1, <2>2 DEF SectionsRight, ss
    <3>3. E \subseteq DOMAIN ss /\ E \subseteq 0 .. N
      BY <2>2 DEF Enclosing, ss
    <3> HIDE DEF E
    <3>4. E # {} => \E j \in E : \A k \in E : k <= j
      BY <2>2, <3>3, Extremes
    <3> QED
      BY <3>1, <3>2, <3>3, <3>4
  <2> QED
    BY <2>4, <2>5 DEF ss
<1> QED
  BY <1>1, <1>2

\* Whatever is inherited is a group some document names.
LEMMA InheritedIsNamed ==
    ASSUME IndexRight, NEW d \in Documents, NEW h \in Meta(d).groups, NEW g \in closure[h]
    PROVE  \E e \in Documents : g \in NamedGroups(e)
<1> DEFINE named == UNION {NamedGroups(e) : e \in Documents}
<1>1. \A e \in Documents : NamedGroups(e) \subseteq Groups
  <2>1. \A e \in Documents : WellFormed(e)
    BY DocumentFacts DEF IndexRight
  <2> QED
    BY <2>1 DEF WellFormed, NamedGroups
<1>2. named \in SUBSET Groups
  BY <1>1
<1>3. h \in named
  BY DEF NamedGroups
<1>4. ASSUME NEW k \in named, NEW l \in parents[k] PROVE l \in named
  <2>1. k \in Groups
    BY <1>2
  <2>2. PICK r \in Relations : l = r.to
    BY <2>1 DEF IndexRight, RelationParents
  <2>3. PICK e \in Documents : r = Meta(e).relation /\ Meta(e).relation # NoRelation
    BY DEF Relations
  <2>4. l \in NamedGroups(e)
    BY <2>2, <2>3 DEF NamedGroups
  <2> QED
    BY <2>4
<1>5. \A x : x \in named <=> \E e \in Documents : x \in NamedGroups(e)
  OBVIOUS
<1> HIDE DEF named
<1>6. Closed(named)
  BY <1>4 DEF Closed
<1>7. h \in Groups /\ h \in DOMAIN closure
  BY <1>2, <1>3 DEF IndexRight
<1>8. closure[h] = Reachable(h)
  BY <1>7 DEF IndexRight, GroupInv, ClosureIsReachable
<1>9. Reachable(h) \subseteq named
  BY <1>2, <1>3, <1>6, <1>7, ClosedHoldsReachable
<1> QED
  BY <1>5, <1>8, <1>9

\* The fields of an edge.
LEMMA EdgeFields ==
    ASSUME NEW s, NEW type, NEW t, NEW o
    PROVE  LET e == Edge(s, type, t, o) IN
           e.source = s /\ e.type = type /\ e.target = t /\ e.owner = o
BY DEF Edge

\* An unresolved link has its node, whichever document holds it first.
LEMMA UnresolvedIn ==
    ASSUME IndexRight, NEW d \in Documents, NEW t \in d.links, LinkTargets(d.path, t) = {}
    PROVE  ReferenceId(t) \in NodeIds
<1> DEFINE N == Len(input.docs)
           Holds == {j \in 1 .. N : t \in input.docs[j].links
                                    /\ LinkTargets(input.docs[j].path, t) = {}}
<1>1. DOMAIN input.docs = 1 .. N /\ N \in Nat
  BY DocumentFacts, SeqFacts DEF IndexRight
<1>2. PICK k \in 1 .. N : d = input.docs[k]
  BY <1>1 DEF Documents
<1>3. k \in Holds /\ Holds \subseteq Nat /\ Holds \subseteq 1 .. N
  BY <1>1, <1>2
<1>4. \A j \in 1 .. N : j \in Holds <=> t \in input.docs[j].links
                                        /\ LinkTargets(input.docs[j].path, t) = {}
  OBVIOUS
<1> HIDE DEF Holds, N
<1>5. PICK i \in Holds : \A j \in Holds : j >= i
  BY <1>3, LeastExists
<1> DEFINE node == Entity(ReferenceId(t), "Reference", "Reference", input.docs[i].path)
<1>6. \A j \in 1 .. i - 1 : ~(t \in input.docs[j].links /\ LinkTargets(input.docs[j].path, t) = {})
  BY <1>1, <1>3, <1>4, <1>5
<1>7. node \in Unresolved
  <2>1. i \in DOMAIN input.docs
    BY <1>1, <1>3
  <2>2. t \in input.docs[i].links /\ LinkTargets(input.docs[i].path, t) = {}
    BY <1>3, <1>4
  <2> QED
    BY <1>6, <2>1, <2>2 DEF Unresolved, Dangling
<1>8. node \in index.nodes
  BY <1>7, BuiltNodes DEF IndexRight
<1>9. node.id = ReferenceId(t)
  BY EntityIsNode
<1> QED
  BY <1>8, <1>9 DEF NodeIds

\* A link's target is in the index, found or not.
LEMMA LinkTargetIn ==
    ASSUME IndexRight, NEW d \in Documents, NEW t \in d.links
    PROVE  LinkTarget(d, t) \in NodeIds
<1> DEFINE found == LinkTargets(d.path, t)
<1>1. CASE found = {}
  BY <1>1, UnresolvedIn DEF LinkTarget
<1>2. CASE found # {}
  <2>1. \A p : FilesAt(p) \subseteq DOMAIN input.docs
    BY DEF FilesAt
  <2>2. found \subseteq DOMAIN input.docs
    BY <2>1 DEF LinkTargets
  <2> HIDE DEF found
  <2>3. PICK i \in found : LinkTarget(d, t) = FileId(input.docs[i].path)
    BY <1>2 DEF LinkTarget, found
  <2>4. input.docs[i] \in Documents
    BY <2>2, <2>3 DEF Documents
  <2> QED
    BY <2>3, <2>4, IdsOfDocument DEF IndexRight
<1> QED
  BY <1>1, <1>2

\* Edges of sections end in the index.
LEMMA SectionEdgeEnds ==
    ASSUME IndexRight, NEW d \in Documents, NEW x \in SectionEdges(d)
    PROVE  x.source \in NodeIds /\ x.target \in NodeIds
<1> DEFINE ss == Sections(d)
<1>1. FileId(d.path) \in NodeIds /\ \A j \in DOMAIN ss : ss[j].id \in NodeIds
  BY IdsOfDocument DEF IndexRight
<1>2. \A j \in DOMAIN ss : {ss[j].parent, ss[j].previous} \subseteq NodeIds \cup {<<>>}
  <2>1. Headings(d.headings)
    BY DocumentFacts DEF IndexRight
  <2> QED
    BY <1>1, <2>1, SectionEnds
<1>3. PICK i \in DOMAIN ss :
        x \in {Edge(FileId(d.path), "HAS_SECTION", ss[i].id, d.path),
               Edge(ss[i].id, "BELONGS_TO_FILE", FileId(d.path), d.path)}
              \cup (IF ss[i].parent = <<>> THEN {}
                    ELSE {Edge(ss[i].id, "PARENT_SECTION", ss[i].parent, d.path),
                          Edge(ss[i].parent, "CHILD_SECTION", ss[i].id, d.path)})
              \cup (IF ss[i].previous = <<>> THEN {}
                    ELSE {Edge(ss[i].previous, "NEXT_SECTION", ss[i].id, d.path),
                          Edge(ss[i].id, "PREV_SECTION", ss[i].previous, d.path)})
  BY DEF SectionEdges
<1> HIDE DEF ss
<1>4. ss[i].id \in NodeIds
  BY <1>1
<1>5. ss[i].parent # <<>> => ss[i].parent \in NodeIds
  BY <1>2
<1>6. ss[i].previous # <<>> => ss[i].previous \in NodeIds
  BY <1>2
<1> QED
  BY <1>1, <1>3, <1>4, <1>5, <1>6, EdgeFields

\* Edges of a document end in the index.
LEMMA DocumentEdgeEnds ==
    ASSUME IndexRight, NEW d \in Documents, NEW x \in DocumentEdges(d)
    PROVE  x.source \in NodeIds /\ x.target \in NodeIds
<1>1. /\ {CommitId, RefId, FileId(d.path), DirectoryId(d.path)} \subseteq NodeIds
      /\ \A g \in NamedGroups(d) : GroupId(g) \in NodeIds
      /\ \A s \in Meta(d).series : SeriesId(s) \in NodeIds
      /\ \A l \in Meta(d).depends : {EntityId(d.path, l.from), EntityId(d.path, l.to)} \subseteq NodeIds
  BY IdsOfDocument DEF IndexRight
<1>2. CASE x \in DependencyEdges(d)
  BY <1>1, <1>2, EdgeFields DEF DependencyEdges
<1>3. CASE x \in {Edge(FileId(d.path), "DEFINED_BY", CommitId, d.path),
                  Edge(RefId, "DEFINES", FileId(d.path), d.path),
                  Edge(FileId(d.path), "BELONGS_TO", DirectoryId(d.path), d.path)}
  BY <1>1, <1>3, EdgeFields
<1>4. CASE x \in {Edge(FileId(d.path), "HAS_GROUP", GroupId(g), d.path) : g \in Meta(d).groups}
  <2>1. Meta(d).groups \subseteq NamedGroups(d)
    BY DEF NamedGroups
  <2> QED
    BY <1>1, <1>4, <2>1, EdgeFields
<1>5. CASE x \in {Edge(FileId(d.path), "IN_SERIES", SeriesId(s), d.path) : s \in Meta(d).series}
  BY <1>1, <1>5, EdgeFields
<1>6. CASE x \in SectionEdges(d)
  BY <1>6, SectionEdgeEnds
<1> QED
  BY <1>2, <1>3, <1>4, <1>5, <1>6 DEF DocumentEdges

\* No edge ends at a node that is not in the index.
LEMMA EdgeEnds ==
    ASSUME IndexRight, NEW x \in index.edges
    PROVE  x.source \in NodeIds /\ x.target \in NodeIds
<1>1. CASE \E d \in Documents : x \in DocumentEdges(d)
  BY <1>1, DocumentEdgeEnds
<1>2. CASE x \in RelationEdges
  <2>1. PICK d \in Documents :
          /\ Meta(d).relation # NoRelation
          /\ x = Edge(GroupId(Meta(d).relation.from), "GROUP_RELATION",
                      GroupId(Meta(d).relation.to), d.path)
    BY <1>2 DEF RelationEdges
  <2>2. {Meta(d).relation.from, Meta(d).relation.to} \subseteq NamedGroups(d)
    BY <2>1 DEF NamedGroups
  <2> QED
    BY <2>1, <2>2, IdsOfDocument, EdgeFields DEF IndexRight
<1>3. CASE x \in EffectiveEdges
  <2>1. PICK d \in Documents :
          \E h \in Meta(d).groups : \E g \in closure[h] :
            x = Edge(FileId(d.path), "EFFECTIVE_GROUP", GroupId(g), d.path)
    BY <1>3 DEF EffectiveEdges
  <2>2. PICK h \in Meta(d).groups :
          \E g \in closure[h] : x = Edge(FileId(d.path), "EFFECTIVE_GROUP", GroupId(g), d.path)
    BY <2>1
  <2>3. PICK g \in closure[h] : x = Edge(FileId(d.path), "EFFECTIVE_GROUP", GroupId(g), d.path)
    BY <2>2
  <2>4. FileId(d.path) \in NodeIds
    BY IdsOfDocument DEF IndexRight
  <2>5. GroupId(g) \in NodeIds
    BY InheritedIsNamed, IdsOfDocument DEF IndexRight
  <2> QED
    BY <2>3, <2>4, <2>5, EdgeFields
<1>4. CASE x \in LinkEdges
  <2>1. PICK d \in Documents :
          \E t \in d.links : x = Edge(FileId(d.path), "LINKS_TO", LinkTarget(d, t), d.path)
    BY <1>4 DEF LinkEdges
  <2>2. FileId(d.path) \in NodeIds
    BY IdsOfDocument DEF IndexRight
  <2> QED
    BY <2>1, <2>2, LinkTargetIn, EdgeFields
<1> QED
  BY <1>1, <1>2, <1>3, <1>4, BuiltEdges DEF IndexRight

\* LinksLeadHome in a built index.
LEMMA LinksDoLeadHome ==
    ASSUME IndexRight
    PROVE  LinksLeadHome
<1>1. ASSUME NEW e \in index.edges PROVE {e.source, e.target} \subseteq {n.id : n \in index.nodes}
  BY EdgeEnds DEF NodeIds
<1>2. ASSUME NEW d \in Documents, NEW t \in d.links, NEW at \in ResolveLinkPath(d.path, t)
      PROVE  LET near == {e \in Documents :
                            {e.path, Stripped(e.path)} \cap {at, Stripped(at)} # {}}
                 taken(i) == \E j \in i + 1 .. Len(input.docs) :
                               Stripped(input.docs[j].path) = at
                 ends == {e.target : e \in {f \in index.edges :
                                              f.type = "LINKS_TO" /\ f.owner = d.path}}
             IN  /\ \A i \in DOMAIN input.docs :
                      input.docs[i].path = at /\ ~taken(i) => FileId(at) \in ends
                 /\ IF near = {} THEN ReferenceId(t) \in ends
                    ELSE \E e \in near : FileId(e.path) \in ends
  <2> DEFINE near == {e \in Documents : {e.path, Stripped(e.path)} \cap {at, Stripped(at)} # {}}
             taken(i) == \E j \in i + 1 .. Len(input.docs) : Stripped(input.docs[j].path) = at
             ends == {e.target : e \in {f \in index.edges :
                                          f.type = "LINKS_TO" /\ f.owner = d.path}}
  <2>1. LinkTarget(d, t) \in ends
    <3> DEFINE link == Edge(FileId(d.path), "LINKS_TO", LinkTarget(d, t), d.path)
    <3>1. link \in LinkEdges
      BY DEF LinkEdges
    <3>2. link \in index.edges
      BY <3>1, BuiltEdges DEF IndexRight
    <3>3. link.type = "LINKS_TO" /\ link.owner = d.path /\ link.target = LinkTarget(d, t)
      BY EdgeFields
    <3> HIDE DEF link
    <3> QED
      BY <3>2, <3>3
  <2>2. ResolveLinkPath(d.path, t) = {at} /\ input \in Inputs
    BY <1>2, ResolvedIsPath DEF IndexRight
  <2>3. near = {e \in Documents : IsNear(e, at)}
    BY DEF IsNear
  <2> HIDE DEF ends, near
  <2>4. ASSUME NEW i \in DOMAIN input.docs, input.docs[i].path = at, ~taken(i)
        PROVE  FileId(at) \in ends
    BY <2>1, <2>2, <2>4, ExactTarget
  <2>5. IF near = {} THEN ReferenceId(t) \in ends
        ELSE \E e \in near : FileId(e.path) \in ends
    BY <2>1, <2>2, <2>3, NearTarget
  <2> QED
    BY <2>4, <2>5 DEF near, ends
<1> QED
  BY <1>1, <1>2 DEF LinksLeadHome

-----------------------------------------------------------------------------
(* A build, step by step.                                                    *)

\* The index depends on the documents and the closures alone.
LEMMA SameIndex ==
    ASSUME input' = input, closure' = closure
    PROVE  BuiltIndex' = BuiltIndex /\ Documents' = Documents /\ RelationParents' = RelationParents
<1>1. Documents' = Documents
  BY DEF Documents
<1>2. RelationEdges' = RelationEdges
  BY <1>1 DEF RelationEdges
<1>3. Relations' = Relations
  BY <1>1 DEF Relations
<1>4. RelationParents' = RelationParents
  BY <1>3 DEF RelationParents
<1>5. \A n : WithEffective(n)' = WithEffective(n)
  <2>1. \A n : DirectGroups(n)' = DirectGroups(n)
    BY <1>1 DEF DirectGroups
  <2> QED
    BY <2>1 DEF WithEffective
<1>6. EffectiveEdges' = EffectiveEdges
  BY <1>1 DEF EffectiveEdges
<1>7. \A p : FilesAt(p)' = FilesAt(p)
  BY DEF FilesAt
<1>8. \A f, t : LinkTargets(f, t)' = LinkTargets(f, t)
  BY <1>7 DEF LinkTargets
<1>9. \A d, t : LinkTarget(d, t)' = LinkTarget(d, t)
  <2> TAKE d, t
  <2>1. LinkTargets(d.path, t)' = LinkTargets(d.path, t)
    BY <1>8
  <2> QED
    BY <2>1 DEF LinkTarget
<1>10. LinkEdges' = LinkEdges
  BY <1>1, <1>9 DEF LinkEdges
<1>11. Unresolved' = Unresolved
  <2>1. \A d : Dangling(d)' = Dangling(d)
    BY <1>8 DEF Dangling
  <2> QED
    BY <2>1 DEF Unresolved
<1>12. ReadNodes' = ReadNodes
  BY <1>1 DEF ReadNodes
<1>13. BuiltIndex' = BuiltIndex
  BY <1>1, <1>2, <1>5, <1>6, <1>10, <1>11 DEF BuiltIndex
<1> QED
  BY <1>1, <1>4, <1>13

\* The phases in which there is an index.
AfterBuild == {"built", "expanding", "answered"}

\* A search runs after the documents are read; the index is made of the documents and
\* of closures that are complete.
FlowInv ==
    /\ input \in Inputs
    /\ ask \in Requests(input)
    /\ GroupInv
    /\ phase \in {"documents", "groups"} \cup AfterBuild
    /\ phase = "documents" => origin = NoGroup /\ visited = {} /\ DOMAIN closure = {} /\ cyclic = {}
    /\ phase # "documents" => parents = RelationParents
    /\ phase \in AfterBuild => IndexRight

\* FlowInv at the start.
LEMMA FlowInit == QueryInit => FlowInv
<1> SUFFICES ASSUME QueryInit PROVE FlowInv
  OBVIOUS
<1>1. input \in Inputs /\ ask \in Requests(input) /\ phase = "documents" /\ GroupInit
  BY DEF QueryInit, IndexInit
<1>2. parents \in [Groups -> SUBSET Groups]
  BY DEF QueryInit, IndexInit
<1>3. GroupInv
  BY <1>1, <1>2, GroupInitInv
<1> QED
  BY <1>1, <1>3 DEF FlowInv, GroupInit, AfterBuild

\* Relations give every group a set of parents.
LEMMA RelationParentsType ==
    ASSUME input \in Inputs
    PROVE  RelationParents \in [Groups -> SUBSET Groups]
<1>1. \A d \in Documents : WellFormed(d)
  BY DocumentFacts
<1>2. \A r \in Relations : r.to \in Groups
  BY <1>1 DEF Relations, WellFormed
<1> QED
  BY <1>2 DEF RelationParents

\* Reading the documents keeps FlowInv: searches start on the relations.
LEMMA ReadDocumentsKeeps ==
    ASSUME FlowInv, ReadDocuments, UNCHANGED ask
    PROVE  FlowInv'
<1>1. /\ input' = input /\ origin' = origin /\ queue' = queue /\ visited' = visited
      /\ closure' = closure /\ cyclic' = cyclic /\ ask' = ask
      /\ phase = "documents" /\ phase' = "groups"
  BY DEF ReadDocuments
<1>2. parents' = RelationParents
  BY DEF ReadDocuments, RelationParents
<1>3. parents' = RelationParents'
  BY <1>1, <1>2, SameIndex
<1>4. parents' \in [Groups -> SUBSET Groups]
  BY <1>2, RelationParentsType DEF FlowInv
<1>5. /\ origin = NoGroup /\ visited = {} /\ DOMAIN closure = {} /\ cyclic = {}
      /\ GroupTypeOK
  BY <1>1 DEF FlowInv, GroupInv
<1>6. queue = {}
  BY <1>5 DEF GroupTypeOK
<1>7. GroupInv'
  <2>1. GroupTypeOK'
    BY <1>1, <1>4, <1>5, <1>6 DEF GroupTypeOK
  <2>2. IdleInv' /\ SearchInv'
    BY <1>1, <1>5, <1>6, GroupConstants DEF IdleInv, SearchInv
  <2>3. ClosureIsReachable' /\ CyclesAreWarned'
    BY <1>1, <1>5 DEF ClosureIsReachable, CyclesAreWarned
  <2> QED
    BY <2>1, <2>2, <2>3 DEF GroupInv
<1> QED
  BY <1>1, <1>3, <1>7 DEF FlowInv, AfterBuild

\* A step of a search keeps FlowInv.
LEMMA SearchGroupsKeeps ==
    ASSUME FlowInv, SearchGroups, UNCHANGED ask
    PROVE  FlowInv'
<1>1. phase = "groups" /\ phase' = phase /\ input' = input /\ ask' = ask
  BY DEF SearchGroups, indexVars
<1>2. \A d \in Documents : Meta(d).groups \subseteq Groups
  <2>1. \A d \in Documents : WellFormed(d)
    BY DocumentFacts DEF FlowInv
  <2> QED
    BY <2>1 DEF WellFormed
<1>3. \/ \E g \in Groups : StartOrigin(g)
      \/ \E g \in Groups : VisitParents(g)
      \/ FinishOrigin
  BY <1>2 DEF SearchGroups
<1>4. GroupInv' /\ parents' = parents
  <2>1. GroupInv'
    BY <1>3, StartKeeps, VisitKeeps, FinishKeeps DEF FlowInv
  <2>2. parents' = parents
    BY <1>3 DEF StartOrigin, VisitParents, FinishOrigin
  <2> QED
    BY <2>1, <2>2
<1>5. RelationParents' = RelationParents
  <2>1. Documents' = Documents
    BY <1>1 DEF Documents
  <2>2. Relations' = Relations
    BY <2>1 DEF Relations
  <2> QED
    BY <2>2 DEF RelationParents
<1> QED
  BY <1>1, <1>4, <1>5 DEF FlowInv, AfterBuild

\* Finishing the index makes it BuiltIndex, of complete closures.
LEMMA FinishIndexKeeps ==
    ASSUME FlowInv, FinishIndex, UNCHANGED ask
    PROVE  FlowInv'
<1>1. /\ phase = "groups" /\ phase' = "built" /\ input' = input /\ ask' = ask
      /\ parents' = parents /\ origin' = origin /\ queue' = queue /\ visited' = visited
      /\ closure' = closure /\ cyclic' = cyclic /\ index' = BuiltIndex
  BY DEF FinishIndex, groupVars
<1>2. /\ index' = BuiltIndex' /\ Documents' = Documents /\ RelationParents' = RelationParents
  BY <1>1, SameIndex
<1>3. \A d \in Documents : Meta(d).groups \subseteq DOMAIN closure
  BY DEF FinishIndex
<1>4. GroupInv'
  BY <1>1 DEF FlowInv, GroupInv, GroupTypeOK, IdleInv, SearchInv, ClosureIsReachable,
              CyclesAreWarned, Reachable, Closed
<1>5. parents = RelationParents
  BY <1>1 DEF FlowInv
<1> QED
  BY <1>1, <1>2, <1>3, <1>4, <1>5 DEF FlowInv, AfterBuild, IndexRight

\* What leaves the index alone keeps FlowInv.
LEMMA QueryKeepsFlow ==
    ASSUME FlowInv, UNCHANGED <<input, index, groupVars, ask>>,
           \/ phase' = phase
           \/ phase \in AfterBuild /\ phase' \in AfterBuild
    PROVE  FlowInv'
<1>1. /\ input' = input /\ ask' = ask
      /\ parents' = parents /\ origin' = origin /\ queue' = queue /\ visited' = visited
      /\ closure' = closure /\ cyclic' = cyclic /\ index' = index
  BY DEF groupVars
<1>2. BuiltIndex' = BuiltIndex /\ Documents' = Documents /\ RelationParents' = RelationParents
  BY <1>1, SameIndex
<1>3. GroupInv'
  BY <1>1 DEF FlowInv, GroupInv, GroupTypeOK, IdleInv, SearchInv, ClosureIsReachable,
              CyclesAreWarned, Reachable, Closed
<1>4. IndexRight => IndexRight'
  BY <1>1, <1>2, <1>3 DEF IndexRight
<1> QED
  BY <1>1, <1>2, <1>3, <1>4 DEF FlowInv, AfterBuild

\* Every step keeps FlowInv.
LEMMA FlowStep == FlowInv /\ [QueryNext]_<<indexVars, groupVars, queryVars>> => FlowInv'
<1> SUFFICES ASSUME FlowInv, [QueryNext]_<<indexVars, groupVars, queryVars>> PROVE FlowInv'
  OBVIOUS
<1>1. CASE IndexNext /\ UNCHANGED queryVars
  <2>1. UNCHANGED ask
    BY <1>1 DEF queryVars
  <2> QED
    BY <1>1, <2>1, ReadDocumentsKeeps, SearchGroupsKeeps, FinishIndexKeeps DEF IndexNext
<1>2. CASE QueryGraph
  <2>1. UNCHANGED <<input, index, groupVars, ask>> /\ phase \in AfterBuild /\ phase' \in AfterBuild
    BY <1>2 DEF QueryGraph, AfterBuild
  <2> QED
    BY <2>1, QueryKeepsFlow
<1>3. CASE TakeSeed \/ Expand
  <2>1. UNCHANGED <<input, index, groupVars, ask>> /\ phase' = phase
    BY <1>3 DEF TakeSeed, Expand, indexVars
  <2> QED
    BY <2>1, QueryKeepsFlow
<1>4. CASE FinishQuery
  <2>1. UNCHANGED <<input, index, groupVars, ask>> /\ phase \in AfterBuild /\ phase' \in AfterBuild
    BY <1>4 DEF FinishQuery, AfterBuild
  <2> QED
    BY <2>1, QueryKeepsFlow
<1>5. CASE UNCHANGED <<indexVars, groupVars, queryVars>>
  <2>1. UNCHANGED <<input, index, groupVars, ask>> /\ phase' = phase
    BY <1>5 DEF indexVars, queryVars
  <2> QED
    BY <2>1, QueryKeepsFlow
<1> QED
  BY <1>1, <1>2, <1>3, <1>4, <1>5 DEF QueryNext

\* A build inherits groups along the stated relations exactly, and warns of exactly the
\* cyclic ones: the groups of index/groups.rs as index/mod.rs runs them.
THEOREM GroupsOfIndexExact == QuerySpec => [](ClosureIsReachable /\ CyclesAreWarned)
<1>1. FlowInv => ClosureIsReachable /\ CyclesAreWarned
  BY DEF FlowInv, GroupInv
<1> QED
  BY <1>1, FlowInit, FlowStep, PTL DEF QuerySpec

\* In every index built of well-formed documents the sections of a document nest as their
\* headings do, and the innermost enclosing section is the parent.
THEOREM SectionsNestInIndex == QuerySpec => []SectionsNest
<1>1. FlowInv => SectionsNest
  <2>1. FlowInv /\ Built => SectionsNest
    BY SectionsDoNest DEF FlowInv, IndexRight, Built, AfterBuild
  <2> QED
    BY <2>1 DEF SectionsNest
<1> QED
  BY <1>1, FlowInit, FlowStep, PTL DEF QuerySpec

\* In every index built of well-formed documents an edge ends at a node of the index, and a
\* link to the path of a document ends at that document, unless a later one is stripped to
\* that path.
THEOREM LinksLeadHomeInIndex == QuerySpec => []LinksLeadHome
<1>1. FlowInv => LinksLeadHome
  <2>1. FlowInv /\ Built => LinksLeadHome
    BY LinksDoLeadHome DEF FlowInv, Built, AfterBuild
  <2> QED
    BY <2>1 DEF LinksLeadHome
<1> QED
  BY <1>1, FlowInit, FlowStep, PTL DEF QuerySpec

-----------------------------------------------------------------------------
(* An index is finite.                                                       *)

\* What a function on a finite set covers is finite.
LEMMA CoveredIsFinite ==
    ASSUME NEW S, IsFiniteSet(S), NEW f, DOMAIN f = S, f = [x \in S |-> f[x]],
           NEW T, \A y \in T : \E x \in S : y = f[x]
    PROVE  IsFiniteSet(T)
<1> DEFINE U == {f[x] : x \in S}
<1>1. IsFiniteSet(U)
  BY FiniteImage
<1>2. T \in SUBSET U
  OBVIOUS
<1> HIDE DEF U
<1> QED
  BY <1>1, <1>2, FS_Subset

\* A sequence has finitely many positions.
LEMMA IndicesFinite ==
    ASSUME NEW s, IsSeq(s)
    PROVE  IsFiniteSet(DOMAIN s)
<1>1. DOMAIN s = 1 .. Len(s) /\ 1 \in Int /\ Len(s) \in Int
  BY SeqFacts
<1> QED
  BY <1>1, FS_Interval

\* A build has finitely many documents.
LEMMA DocumentsFinite ==
    ASSUME input \in Inputs
    PROVE  IsFiniteSet(DOMAIN input.docs) /\ IsFiniteSet(Documents)
<1> DEFINE S == DOMAIN input.docs
           f == [i \in S |-> input.docs[i]]
<1>1. IsFiniteSet(S)
  BY DocumentFacts, IndicesFinite
<1>2. \A d \in Documents : \E i \in S : d = f[i]
  BY DEF Documents
<1>3. DOMAIN f = S /\ f = [x \in S |-> f[x]]
  OBVIOUS
<1> HIDE DEF f, S
<1>4. IsFiniteSet(Documents)
  BY <1>1, <1>2, <1>3, CoveredIsFinite
<1> QED
  BY <1>1, <1>4 DEF S

\* A pair is finite.
LEMMA PairIsFinite == \A a, b : IsFiniteSet({a, b})
<1>1. SUFFICES ASSUME NEW a, NEW b PROVE IsFiniteSet({a, b})
  OBVIOUS
<1>2. IsFiniteSet({a}) /\ IsFiniteSet({b})
  BY FS_Singleton
<1>3. {a} \cup {b} = {a, b}
  OBVIOUS
<1> QED
  BY <1>2, <1>3, FS_Union

\* A document names finitely many groups.
LEMMA NamedGroupsFinite ==
    ASSUME NEW d, WellFormed(d)
    PROVE  IsFiniteSet(NamedGroups(d))
<1> DEFINE r == IF Meta(d).relation = NoRelation THEN {}
                ELSE {Meta(d).relation.from, Meta(d).relation.to}
<1>1. IsFiniteSet(Meta(d)["declares"]) /\ IsFiniteSet(Meta(d)["groups"])
  BY DEF WellFormed
<1>2. IsFiniteSet(r)
  BY PairIsFinite, FS_EmptySet
<1>3. NamedGroups(d) = (Meta(d)["declares"] \cup Meta(d)["groups"]) \cup r
  BY DEF NamedGroups
<1> HIDE DEF r
<1>4. IsFiniteSet(Meta(d)["declares"] \cup Meta(d)["groups"])
  BY <1>1, FS_Union
<1> QED
  BY <1>2, <1>3, <1>4, FS_Union

\* A document states finitely many dependencies.
LEMMA DependencyNodesFinite ==
    ASSUME NEW d, WellFormed(d)
    PROVE  IsFiniteSet(DependencyNodes(d))
<1> DEFINE D == Meta(d)["depends"]
           pair == [l \in D |-> {l.from, l.to}]
           pairs == {pair[l] : l \in D}
           ends == UNION pairs
           f == [end \in ends |->
                  Entity(EntityId(d.path, end), "Reference", "ExactEntityReference", d.path)]
<1>1. IsFiniteSet(D)
  BY DEF WellFormed
<1>2. IsFiniteSet(pairs)
  <2>1. DOMAIN pair = D /\ pair = [l \in D |-> pair[l]]
    OBVIOUS
  <2> HIDE DEF pair, D
  <2> QED
    BY <1>1, <2>1, FiniteImage
<1>3. \A p \in pairs : IsFiniteSet(p)
  <2>1. SUFFICES ASSUME NEW p \in pairs PROVE IsFiniteSet(p)
    OBVIOUS
  <2>2. PICK l \in D : p = pair[l]
    OBVIOUS
  <2>3. \A x : x \in p <=> x = l.from \/ x = l.to
    BY <2>2
  <2>4. p = {l.from} \cup {l.to}
    BY <2>3
  <2>5. IsFiniteSet({l.from}) /\ IsFiniteSet({l.to})
    BY FS_Singleton
  <2> HIDE DEF pair, pairs
  <2> QED
    BY <2>4, <2>5, FS_Union
<1>4. DependencyNodes(d) = {f[end] : end \in ends}
  BY DEF DependencyNodes
<1>5. DOMAIN f = ends /\ f = [x \in ends |-> f[x]]
  OBVIOUS
<1> HIDE DEF pairs
<1>6. IsFiniteSet(ends)
  BY <1>2, <1>3, FS_UNION
<1> HIDE DEF ends, f
<1> QED
  BY <1>4, <1>5, <1>6, FiniteImage

\* A document has finitely many nodes.
LEMMA DocumentNodesFinite ==
    ASSUME NEW d, WellFormed(d), Headings(d.headings)
    PROVE  IsFiniteSet(DocumentNodes(d))
<1> DEFINE G == NamedGroups(d)
           R == Meta(d)["series"]
           S == DOMAIN Sections(d)
           g == [x \in G |-> Entity(GroupId(x), "Group", "Group", NoOwner)]
           r == [x \in R |-> Entity(SeriesId(x), "Series", "Series", NoOwner)]
           s == [i \in S |-> SectionNode(d, Sections(d)[i].id, Sections(d)[i].range)]
           gs == {g[x] : x \in G}
           rs == {r[x] : x \in R}
           ss == {s[x] : x \in S}
           two == {FileNode(d), Entity(DirectoryId(d.path), "Reference", "Directory", NoOwner)}
<1>1. DocumentNodes(d) = (((DependencyNodes(d) \cup gs) \cup rs) \cup two) \cup ss
  BY DEF DocumentNodes
<1>2. IsFiniteSet(gs)
  <2>1. DOMAIN g = G /\ g = [x \in G |-> g[x]]
    OBVIOUS
  <2>2. IsFiniteSet(G)
    BY NamedGroupsFinite
  <2> HIDE DEF g, G
  <2> QED
    BY <2>1, <2>2, FiniteImage
<1>3. IsFiniteSet(rs)
  <2>1. DOMAIN r = R /\ r = [x \in R |-> r[x]]
    OBVIOUS
  <2>2. IsFiniteSet(R)
    BY DEF WellFormed
  <2> HIDE DEF r, R
  <2> QED
    BY <2>1, <2>2, FiniteImage
<1>4. IsFiniteSet(ss)
  <2>1. DOMAIN s = S /\ s = [x \in S |-> s[x]]
    OBVIOUS
  <2>2. IsFiniteSet(S)
    BY SectionsFacts, IndicesFinite
  <2> HIDE DEF s, S
  <2> QED
    BY <2>1, <2>2, FiniteImage
<1>5. IsFiniteSet(two)
  BY PairIsFinite
<1>6. IsFiniteSet(DependencyNodes(d))
  BY DependencyNodesFinite
<1> HIDE DEF gs, rs, ss, two
<1>7. IsFiniteSet(DependencyNodes(d) \cup gs)
  BY <1>2, <1>6, FS_Union
<1>8. IsFiniteSet((DependencyNodes(d) \cup gs) \cup rs)
  BY <1>3, <1>7, FS_Union
<1>9. IsFiniteSet(((DependencyNodes(d) \cup gs) \cup rs) \cup two)
  BY <1>5, <1>8, FS_Union
<1> QED
  BY <1>1, <1>4, <1>9, FS_Union

\* All documents have finitely many nodes.
LEMMA ReadNodesFinite ==
    ASSUME input \in Inputs
    PROVE  IsFiniteSet(ReadNodes)
<1> DEFINE f == [d \in Documents |-> DocumentNodes(d)]
           all == {f[d] : d \in Documents}
           two == {Entity(CommitId, "Reference", "Commit", NoOwner),
                   Entity(RefId, "Reference", "GitRef", NoOwner)}
<1>1. ReadNodes = two \cup (UNION all)
  BY DEF ReadNodes
<1>2. IsFiniteSet(two)
  BY PairIsFinite
<1>3. IsFiniteSet(all)
  <2>1. DOMAIN f = Documents /\ f = [d \in Documents |-> f[d]]
    OBVIOUS
  <2> HIDE DEF f
  <2> QED
    BY <2>1, DocumentsFinite, FiniteImage
<1>4. \A T \in all : IsFiniteSet(T)
  BY DocumentFacts, DocumentNodesFinite
<1> HIDE DEF all, two
<1>5. IsFiniteSet(UNION all)
  BY <1>3, <1>4, FS_UNION
<1> QED
  BY <1>1, <1>2, <1>5, FS_Union

\* There are finitely many unresolved links.
LEMMA UnresolvedFinite ==
    ASSUME input \in Inputs
    PROVE  IsFiniteSet(Unresolved)
<1> DEFINE I == DOMAIN input.docs
           First(i) == {u \in Dangling(input.docs[i]) :
                          \A j \in 1 .. i - 1 : u \notin Dangling(input.docs[j])}
           Of(i) == {Entity(ReferenceId(t), "Reference", "Reference", input.docs[i].path) :
                       t \in First(i)}
           f == [i \in I |-> Of(i)]
           all == {f[i] : i \in I}
<1>1. Unresolved = UNION all
  BY DEF Unresolved
<1>2. ASSUME NEW i \in I PROVE IsFiniteSet(Of(i))
  <2> DEFINE F == First(i)
             g == [t \in F |-> Entity(ReferenceId(t), "Reference", "Reference", input.docs[i].path)]
  <2>1. F \in SUBSET input.docs[i].links
    BY DEF Dangling
  <2>2. IsFiniteSet(input.docs[i].links)
    BY DocumentFacts DEF Documents, WellFormed
  <2>3. Of(i) = {g[t] : t \in F}
    OBVIOUS
  <2>4. DOMAIN g = F /\ g = [t \in F |-> g[t]]
    OBVIOUS
  <2> HIDE DEF F, g, Of
  <2>5. IsFiniteSet(F)
    BY <2>1, <2>2, FS_Subset
  <2> QED
    BY <2>3, <2>4, <2>5, FiniteImage
<1>3. IsFiniteSet(all)
  <2>1. DOMAIN f = I /\ f = [i \in I |-> f[i]]
    OBVIOUS
  <2> HIDE DEF f, I
  <2>2. IsFiniteSet(I)
    BY DocumentsFinite DEF I
  <2> QED
    BY <2>1, <2>2, FiniteImage
<1>4. \A T \in all : IsFiniteSet(T)
  <2> HIDE DEF Of
  <2> QED
    BY <1>2
<1> HIDE DEF all
<1> QED
  BY <1>1, <1>3, <1>4, FS_UNION

\* An index has finitely many nodes.
LEMMA NodesFinite ==
    ASSUME IndexRight
    PROVE  IsFiniteSet(index.nodes) /\ IsFiniteSet(NodeIds)
<1> DEFINE f == [n \in ReadNodes |-> WithEffective(n)]
           W == {f[n] : n \in ReadNodes}
           g == [n \in index.nodes |-> n.id]
<1>1. index.nodes = W \cup Unresolved
  BY BuiltNodes DEF IndexRight
<1>2. IsFiniteSet(W)
  <2>1. DOMAIN f = ReadNodes /\ f = [n \in ReadNodes |-> f[n]]
    OBVIOUS
  <2>2. IsFiniteSet(ReadNodes)
    BY ReadNodesFinite DEF IndexRight
  <2> HIDE DEF f
  <2> QED
    BY <2>1, <2>2, FiniteImage
<1>3. IsFiniteSet(Unresolved)
  BY UnresolvedFinite DEF IndexRight
<1> HIDE DEF W
<1>4. IsFiniteSet(index.nodes)
  BY <1>1, <1>2, <1>3, FS_Union
<1>5. \A y \in NodeIds : \E n \in index.nodes : y = g[n]
  BY DEF NodeIds
<1>6. DOMAIN g = index.nodes /\ g = [n \in index.nodes |-> g[n]]
  OBVIOUS
<1> HIDE DEF g
<1> QED
  BY <1>4, <1>5, <1>6, CoveredIsFinite

-----------------------------------------------------------------------------
(* Balls.                                                                    *)

\* The recursive function in Ball is one.
LEMMA BallIsDefined ==
    ASSUME NEW r, NEW s
    PROVE  \E f : f = [k \in 0 .. 3 |-> IF k = 0 THEN {s} ELSE Wider(r, f[k - 1])]
<1> DEFINE b0 == {s}
           b1 == Wider(r, b0)
           b2 == Wider(r, b1)
           b3 == Wider(r, b2)
           g == [k \in 0 .. 3 |-> IF k = 0 THEN b0 ELSE IF k = 1 THEN b1 ELSE IF k = 2 THEN b2 ELSE b3]
<1>1. b0 = {s} /\ b1 = Wider(r, b0) /\ b2 = Wider(r, b1) /\ b3 = Wider(r, b2)
  OBVIOUS
<1> HIDE DEF b0, b1, b2, b3
<1>2. ASSUME NEW k \in 0 .. 3 PROVE g[k] = IF k = 0 THEN {s} ELSE Wider(r, g[k - 1])
  <2>1. k = 0 \/ k = 1 \/ k = 2 \/ k = 3
    OBVIOUS
  <2> QED
    BY <1>1, <2>1
<1>3. g = [k \in 0 .. 3 |-> IF k = 0 THEN {s} ELSE Wider(r, g[k - 1])]
  <2>1. g = [k \in 0 .. 3 |-> g[k]]
    OBVIOUS
  <2> HIDE DEF g
  <2> QED
    BY <1>2, <2>1
<1> HIDE DEF g
<1> QED
  BY <1>3

\* A ball is its centre, and a larger one that with its neighbours.
LEMMA BallIs ==
    ASSUME NEW r, NEW s
    PROVE  LET b == Ball(r, s) IN
           /\ b[0] = {s}
           /\ \A k \in 0 .. 2 : \A x :
                x \in b[k + 1] <=> x \in b[k] \/ \E n \in b[k] : x \in Neighbours(r, n)
<1> DEFINE f == CHOOSE f : f = [k \in 0 .. 3 |-> IF k = 0 THEN {s} ELSE Wider(r, f[k - 1])]
<1>1. f = [k \in 0 .. 3 |-> IF k = 0 THEN {s} ELSE Wider(r, f[k - 1])]
  BY BallIsDefined
<1>2. Ball(r, s) = f
  BY DEF Ball
<1> HIDE DEF f
<1>3. f[0] = {s}
  BY <1>1
<1>4. ASSUME NEW k \in 0 .. 2
      PROVE  f[k + 1] = Wider(r, f[k])
  <2>1. k + 1 \in 0 .. 3 /\ k + 1 # 0 /\ (k + 1) - 1 = k
    OBVIOUS
  <2> QED
    BY <1>1, <2>1
<1>5. ASSUME NEW k \in 0 .. 2, NEW x
      PROVE  x \in f[k + 1] <=> x \in f[k] \/ \E n \in f[k] : x \in Neighbours(r, n)
  BY <1>4 DEF Wider
<1> QED
  BY <1>2, <1>3, <1>5

\* A ball holds the smaller ones.
LEMMA BallGrows ==
    ASSUME NEW r, NEW s, NEW k \in 0 .. 3, NEW l \in 0 .. 3, k <= l
    PROVE  Ball(r, s)[k] \subseteq Ball(r, s)[l]
<1> DEFINE b == Ball(r, s)
<1>1. \A m \in 0 .. 2 : b[m] \subseteq b[m + 1]
  BY BallIs
<1> HIDE DEF b
<1>2. b[0] \subseteq b[1] /\ b[1] \subseteq b[2] /\ b[2] \subseteq b[3]
  <2>1. 0 \in 0 .. 2 /\ 1 \in 0 .. 2 /\ 2 \in 0 .. 2 /\ 0 + 1 = 1 /\ 1 + 1 = 2 /\ 2 + 1 = 3
    OBVIOUS
  <2>2. b[0] \subseteq b[0 + 1] /\ b[1] \subseteq b[1 + 1] /\ b[2] \subseteq b[2 + 1]
    BY <1>1, <2>1
  <2> QED
    BY <2>1, <2>2
<1>3. k \in {0, 1, 2, 3} /\ l \in {0, 1, 2, 3}
  OBVIOUS
<1>4. b[k] \subseteq b[l]
  BY <1>2, <1>3
<1> QED
  BY <1>4 DEF b

\* A ball that did not grow does not grow again.
LEMMA BallStops ==
    ASSUME NEW r, NEW s, NEW k \in 0 .. 3, NEW l \in 0 .. 3, k < l,
           Ball(r, s)[k + 1] \subseteq Ball(r, s)[k]
    PROVE  Ball(r, s)[l] = Ball(r, s)[k]
<1> DEFINE b == Ball(r, s)
<1>1. \A m \in 0 .. 2 : \A x : x \in b[m + 1] <=> x \in b[m] \/ \E n \in b[m] : x \in Neighbours(r, n)
  BY BallIs
<1>2. b[k + 1] \subseteq b[k]
  OBVIOUS
<1> HIDE DEF b
<1>3. b[k + 1] = b[k]
  <2>1. k \in 0 .. 2
    OBVIOUS
  <2> QED
    BY <1>1, <1>2, <2>1
<1>4. ASSUME NEW m \in 0 .. 2, k <= m, b[m] = b[k] PROVE b[m + 1] = b[k]
  <2>1. k \in 0 .. 2
    OBVIOUS
  <2>2. \A x : x \in b[m + 1] <=> x \in b[k + 1]
    BY <1>1, <1>4, <2>1
  <2> QED
    BY <1>3, <2>2
<1>5. k \in {0, 1, 2} /\ l \in {1, 2, 3}
  OBVIOUS
<1>6. CASE k = 2
  BY <1>3, <1>5, <1>6 DEF b
<1>7. CASE k = 1
  <2>1. b[2] = b[1]
    BY <1>3, <1>7
  <2>2. b[3] = b[1]
    <3>1. b[2 + 1] = b[k]
      BY <1>4, <1>7, <2>1
    <3> QED
      BY <1>7, <3>1
  <2> QED
    BY <1>5, <1>7, <2>1, <2>2 DEF b
<1>8. CASE k = 0
  <2>1. b[1] = b[0]
    BY <1>3, <1>8
  <2>2. b[2] = b[0]
    <3>1. b[1 + 1] = b[k]
      BY <1>4, <1>8, <2>1
    <3> QED
      BY <1>8, <3>1
  <2>3. b[3] = b[0]
    <3>1. b[2 + 1] = b[k]
      BY <1>4, <1>8, <2>2
    <3> QED
      BY <1>8, <3>1
  <2> QED
    BY <1>5, <1>8, <2>1, <2>2, <2>3 DEF b
<1> QED
  BY <1>5, <1>6, <1>7, <1>8

\* Neighbours are in the index.
LEMMA NeighboursIn ==
    ASSUME IndexRight, NEW r, NEW id
    PROVE  Neighbours(r, id) \subseteq NodeIds
BY EdgeEnds DEF Neighbours, Followed

\* The depth of a request is clamped.
LEMMA DepthRange ==
    ASSUME input \in Inputs, NEW r \in Requests(input)
    PROVE  Depth(r) \in 0 .. 3
<1>1. r.depth \in Int
  BY QueryRequests
<1> QED
  BY <1>1 DEF Depth, Clamped, None

-----------------------------------------------------------------------------
(* Queues.                                                                   *)

\* What follows the first entry, and then t.
LEMMA TailAndMore ==
    ASSUME NEW q, IsSeq(q), q # <<>>, NEW t, IsSeq(t)
    PROVE  LET w == Tail(q) \o t
               n == Len(q) - 1
           IN  /\ IsSeq(w) /\ Len(w) = n + Len(t) /\ DOMAIN w = 1 .. Len(w)
               /\ n \in Nat
               /\ \A j \in 1 .. n : w[j] = q[j + 1]
               /\ \A j \in 1 .. Len(t) : w[n + j] = t[j]
<1> DEFINE S == {q[i] : i \in DOMAIN q}
           T == {t[i] : i \in DOMAIN t}
           U == S \cup T
           n == Len(q) - 1
           w == Tail(q) \o t
<1>1. q \in Seq(S) /\ t \in Seq(T)
  BY DEF IsSeq
<1> HIDE DEF S, T
<1>2. q \in Seq(U) /\ t \in Seq(U)
  BY <1>1, SeqMonotonic
<1> HIDE DEF U
<1>3. /\ Len(q) \in Nat /\ Len(t) \in Nat /\ Len(q) # 0
  BY SeqFacts
<1>4. /\ Tail(q) \in Seq(U) /\ Len(Tail(q)) = n
      /\ \A j \in 1 .. n : Tail(q)[j] = q[j + 1]
  BY <1>2, <1>3, HeadTailProperties
<1>5. /\ w \in Seq(U) /\ Len(w) = n + Len(t)
      /\ \A i \in 1 .. n + Len(t) : w[i] = IF i <= n THEN Tail(q)[i] ELSE t[i - n]
  BY <1>2, <1>4, ConcatProperties
<1>6. IsSeq(w)
  BY <1>5, IsSeqFrom
<1>7. n \in Nat
  BY <1>3
<1> HIDE DEF w, n
<1>8. \A j \in 1 .. n : w[j] = q[j + 1]
  BY <1>3, <1>4, <1>5, <1>7
<1>9. \A j \in 1 .. Len(t) : w[n + j] = t[j]
  BY <1>3, <1>5, <1>7
<1>10. DOMAIN w = 1 .. Len(w)
  BY <1>6, SeqFacts
<1> QED
  BY <1>5, <1>6, <1>7, <1>8, <1>9, <1>10 DEF w, n

-----------------------------------------------------------------------------
(* The expansion of one seed.                                                *)

\* x is at k followed edges from s, and not nearer.
AtDistance(r, s, x, k) ==
    /\ k \in 0 .. 3
    /\ x \in Ball(r, s)[k]
    /\ \A l \in 0 .. k - 1 : x \notin Ball(r, s)[l]

\* x is in the queue with depth k.
Queued(q, x, k) == \E j \in DOMAIN q : q[j].id = x /\ q[j].depth = k

\* The queue holds nodes at distance h and then nodes at h + 1, all of those seen; a
\* node within h that is not queued has all its neighbours seen.
Level(r, s, q, sn, h) ==
    /\ h \in 0 .. Depth(r)
    /\ \A j \in DOMAIN q : /\ q[j].depth \in {h, h + 1} /\ q[j].depth <= Depth(r)
                           /\ AtDistance(r, s, q[j].id, q[j].depth)
    /\ \A i, j \in DOMAIN q : i < j => q[i].depth <= q[j].depth
    /\ Ball(r, s)[h] \subseteq sn
    /\ \A x \in sn \ Ball(r, s)[h] :
         h < Depth(r) /\ x \in Ball(r, s)[h + 1] /\ Queued(q, x, h + 1)
    /\ \A x \in Ball(r, s)[h] :
         Queued(q, x, h) \/ h = Depth(r) \/ Neighbours(r, x) \subseteq sn

\* The seed alone.
LEMMA FirstLevel ==
    ASSUME NEW r, NEW s, Depth(r) \in 0 .. 3
    PROVE  Level(r, s, <<[id |-> s, depth |-> 0]>>, {s}, 0)
<1> DEFINE q == <<[id |-> s, depth |-> 0]>>
<1>1. DOMAIN q = {1} /\ q[1].id = s /\ q[1].depth = 0
  OBVIOUS
<1> HIDE DEF q
<1>2. Ball(r, s)[0] = {s}
  BY BallIs
<1>3. AtDistance(r, s, s, 0)
  BY <1>2 DEF AtDistance
<1>4. Queued(q, s, 0)
  BY <1>1 DEF Queued
<1>5. Level(r, s, q, {s}, 0)
  BY <1>1, <1>2, <1>3, <1>4 DEF Level
<1> QED
  BY <1>5 DEF q

\* Without an entry at h the next level is complete.
LEMMA NextLevel ==
    ASSUME NEW r, NEW s, NEW q, NEW sn, NEW h, Level(r, s, q, sn, h), Depth(r) \in 0 .. 3,
           IsSeq(q), q # <<>>, q[1].depth # h
    PROVE  Level(r, s, q, sn, h + 1) /\ q[1].depth = h + 1
<1> DEFINE b == Ball(r, s)
           D == Depth(r)
<1>1. 1 \in DOMAIN q
  BY SeqFacts
<1>2. \A j \in DOMAIN q : j \in 1 .. Len(q) /\ Len(q) \in Nat
  BY SeqFacts
<1>3. q[1].depth = h + 1 /\ h + 1 <= D /\ h \in 0 .. 2
  BY <1>1 DEF Level
<1>4. \A j \in DOMAIN q : q[j].depth = h + 1
  <2>1. SUFFICES ASSUME NEW j \in DOMAIN q PROVE q[j].depth = h + 1
    OBVIOUS
  <2>2. q[j].depth \in {h, h + 1} /\ h \in Int
    BY DEF Level
  <2>3. 1 < j => q[1].depth <= q[j].depth
    BY <1>1 DEF Level
  <2> QED
    BY <1>2, <1>3, <2>2, <2>3
<1>5. \A x : ~Queued(q, x, h)
  BY <1>3, <1>4 DEF Queued
<1>6. /\ b[h] \subseteq sn
      /\ \A x \in sn \ b[h] : x \in b[h + 1] /\ Queued(q, x, h + 1)
      /\ \A x \in b[h] : Neighbours(r, x) \subseteq sn
  BY <1>3, <1>5 DEF Level
<1>7. /\ \A x : x \in b[h + 1] <=> x \in b[h] \/ \E n \in b[h] : x \in Neighbours(r, n)
  BY <1>3, BallIs
<1>8. \A j \in DOMAIN q : AtDistance(r, s, q[j].id, q[j].depth)
  BY DEF Level
<1> HIDE DEF b
<1>9. sn = b[h + 1]
  BY <1>6, <1>7
<1>10. \A x \in b[h + 1] : Queued(q, x, h + 1) \/ Neighbours(r, x) \subseteq sn
  BY <1>6, <1>9
<1>11. \A i, j \in DOMAIN q : i < j => q[i].depth <= q[j].depth
  BY <1>3, <1>4
<1>12. Level(r, s, q, sn, h + 1)
  BY <1>3, <1>4, <1>8, <1>9, <1>10, <1>11 DEF Level, b
<1> QED
  BY <1>3, <1>12

\* A neighbour that was not seen is one edge further.
LEMMA NewIsFurther ==
    ASSUME NEW r, NEW s, NEW q, NEW sn, NEW h, Level(r, s, q, sn, h), Depth(r) \in 0 .. 3,
           h < Depth(r), NEW id \in Ball(r, s)[h], NEW x \in Neighbours(r, id) \ sn
    PROVE  AtDistance(r, s, x, h + 1)
<1>1. h \in 0 .. 2 /\ h + 1 \in 0 .. 3
  BY DEF Level
<1>2. x \in Ball(r, s)[h + 1]
  BY <1>1, BallIs
<1>3. x \notin Ball(r, s)[h]
  BY DEF Level
<1>4. ASSUME NEW l \in 0 .. h PROVE x \notin Ball(r, s)[l]
  <2>1. l \in 0 .. 3 /\ h \in 0 .. 3 /\ l <= h
    BY <1>1
  <2> QED
    BY <1>3, <2>1, BallGrows
<1> QED
  BY <1>1, <1>2, <1>4 DEF AtDistance

\* One turn of the while loop.
LEMMA ExpandLevel ==
    ASSUME NEW r, NEW s, NEW q, NEW sn, NEW h, Level(r, s, q, sn, h), Depth(r) \in 0 .. 3,
           IsSeq(q), q # <<>>, q[1].depth = h,
           NEW next, next = IF h >= Depth(r) THEN {} ELSE Neighbours(r, q[1].id) \ sn,
           NEW t, IsSeq(t),
           \A j \in DOMAIN t : t[j].id \in next /\ t[j].depth = h + 1,
           \A x \in next : \E j \in DOMAIN t : t[j].id = x
    PROVE  Level(r, s, Tail(q) \o t, sn \cup next, h)
<1> DEFINE b == Ball(r, s)
           D == Depth(r)
           n == Len(q) - 1
           w == Tail(q) \o t
<1>1. /\ IsSeq(w) /\ Len(w) = n + Len(t) /\ DOMAIN w = 1 .. Len(w)
      /\ n \in Nat
      /\ \A j \in 1 .. n : w[j] = q[j + 1]
      /\ \A j \in 1 .. Len(t) : w[n + j] = t[j]
  BY TailAndMore
<1>2. /\ Len(q) = n + 1 /\ DOMAIN q = 1 .. n + 1 /\ 1 \in DOMAIN q
      /\ Len(t) \in Nat /\ DOMAIN t = 1 .. Len(t)
  BY SeqFacts
<1>3. h \in 0 .. D /\ D \in 0 .. 3 /\ h \in 0 .. 3
  BY DEF Level
<1>4. q[1].id \in b[h]
  BY <1>2 DEF Level, AtDistance
<1>5. \A x \in next : h < D /\ x \in Neighbours(r, q[1].id) \ sn
  BY <1>3
<1>6. \A x \in next : AtDistance(r, s, x, h + 1)
  BY <1>4, <1>5, NewIsFurther
<1>15. /\ \A j \in DOMAIN q : /\ q[j].depth \in {h, h + 1} /\ q[j].depth <= D
                              /\ AtDistance(r, s, q[j].id, q[j].depth)
       /\ \A i, j \in DOMAIN q : i < j => q[i].depth <= q[j].depth
       /\ b[h] \subseteq sn
       /\ \A x \in sn \ b[h] : h < D /\ x \in b[h + 1] /\ Queued(q, x, h + 1)
       /\ \A x \in b[h] : Queued(q, x, h) \/ h = D \/ Neighbours(r, x) \subseteq sn
  BY DEF Level
<1>16. h # D => Neighbours(r, q[1].id) \subseteq sn \cup next
  BY <1>3
<1> HIDE DEF w, b, D, n
<1>7. \A j \in 1 .. n + Len(t) :
         \/ j \in 1 .. n /\ j + 1 \in DOMAIN q /\ w[j] = q[j + 1]
         \/ \E k \in 1 .. Len(t) : j = n + k /\ w[j] = t[k]
  <2>1. SUFFICES ASSUME NEW j \in 1 .. n + Len(t)
                 PROVE  \/ j \in 1 .. n /\ j + 1 \in DOMAIN q /\ w[j] = q[j + 1]
                        \/ \E k \in 1 .. Len(t) : j = n + k /\ w[j] = t[k]
    OBVIOUS
  <2>2. CASE j <= n
    <3>1. j \in 1 .. n /\ j + 1 \in 1 .. n + 1
      BY <1>1, <1>2, <2>2
    <3> QED
      BY <1>1, <1>2, <3>1
  <2>3. CASE j > n
    <3>1. j - n \in 1 .. Len(t) /\ j = n + (j - n)
      BY <1>1, <1>2, <2>3
    <3>2. w[n + (j - n)] = t[j - n]
      BY <1>1, <3>1
    <3> QED
      BY <3>1, <3>2
  <2> QED
    BY <1>1, <1>2, <2>2, <2>3
<1>8. \A j \in DOMAIN w : /\ w[j].depth \in {h, h + 1} /\ w[j].depth <= D
                          /\ AtDistance(r, s, w[j].id, w[j].depth)
  <2>1. \A k \in 1 .. Len(t) : /\ t[k].depth = h + 1 /\ h + 1 <= D
                               /\ AtDistance(r, s, t[k].id, t[k].depth)
    BY <1>2, <1>3, <1>5, <1>6
  <2> QED
    BY <1>1, <1>7, <1>15, <2>1
<1>9. ASSUME NEW i \in DOMAIN w, NEW j \in DOMAIN w, i < j PROVE w[i].depth <= w[j].depth
  <2>1. i \in 1 .. n + Len(t) /\ j \in 1 .. n + Len(t)
    BY <1>1
  <2>2. CASE \E k \in 1 .. Len(t) : j = n + k /\ w[j] = t[k]
    <3>1. w[j].depth = h + 1
      BY <1>2, <2>2
    <3>2. w[i].depth \in {h, h + 1}
      BY <1>8
    <3> QED
      BY <1>3, <3>1, <3>2
  <2>3. CASE j \in 1 .. n /\ j + 1 \in DOMAIN q /\ w[j] = q[j + 1]
    <3>1. i \in 1 .. n /\ i + 1 \in DOMAIN q /\ i + 1 < j + 1
      BY <1>1, <1>2, <1>9, <2>1, <2>3
    <3>2. w[i] = q[i + 1]
      BY <1>1, <3>1
    <3> QED
      BY <1>15, <2>3, <3>1, <3>2
  <2> QED
    BY <1>7, <2>1, <2>2, <2>3
<1>10. b[h] \subseteq sn \cup next
  BY <1>15
<1>11. ASSUME NEW x, NEW k, Queued(q, x, k), x # q[1].id \/ k # h PROVE Queued(w, x, k)
  <2>1. PICK j \in DOMAIN q : q[j].id = x /\ q[j].depth = k
    BY <1>11 DEF Queued
  <2>2. j # 1
    BY <1>11, <2>1
  <2>3. j - 1 \in 1 .. n /\ (j - 1) + 1 = j /\ j - 1 \in DOMAIN w
    BY <1>1, <1>2, <2>2
  <2>4. w[j - 1] = q[(j - 1) + 1]
    BY <1>1, <2>3
  <2> QED
    BY <2>1, <2>3, <2>4 DEF Queued
<1>12. ASSUME NEW x \in next PROVE Queued(w, x, h + 1)
  <2>1. PICK j \in DOMAIN t : t[j].id = x /\ t[j].depth = h + 1
    OBVIOUS
  <2>2. n + j \in DOMAIN w /\ w[n + j] = t[j]
    BY <1>1, <1>2
  <2> QED
    BY <2>1, <2>2 DEF Queued
<1>13. ASSUME NEW x \in (sn \cup next) \ b[h]
       PROVE  h < D /\ x \in b[h + 1] /\ Queued(w, x, h + 1)
  <2>1. CASE x \in next
    BY <1>5, <1>6, <1>12, <2>1 DEF AtDistance, b
  <2>2. CASE x \in sn
    <3>1. h < D /\ x \in b[h + 1] /\ Queued(q, x, h + 1)
      BY <1>13, <1>15, <2>2
    <3>2. h + 1 # h
      BY <1>3
    <3> QED
      BY <1>11, <3>1, <3>2
  <2> QED
    BY <1>13, <2>1, <2>2
<1>14. ASSUME NEW x \in b[h]
       PROVE  Queued(w, x, h) \/ h = D \/ Neighbours(r, x) \subseteq sn \cup next
  <2>1. CASE x = q[1].id
    BY <1>16, <2>1
  <2>2. CASE x # q[1].id
    BY <1>11, <1>14, <1>15, <2>2
  <2> QED
    BY <2>1, <2>2
<1> QED
  BY <1>3, <1>8, <1>9, <1>10, <1>13, <1>14 DEF Level, w, b, D

\* With nothing queued, all within the depth was seen.
LEMMA LevelDone ==
    ASSUME NEW r, NEW s, NEW sn, NEW h, Level(r, s, <<>>, sn, h), Depth(r) \in 0 .. 3
    PROVE  sn = Ball(r, s)[Depth(r)]
<1> DEFINE b == Ball(r, s)
           D == Depth(r)
<1>1. \A x, k : ~Queued(<<>>, x, k)
  BY DEF Queued
<1>2. h \in 0 .. D /\ h \in 0 .. 3 /\ D \in 0 .. 3
  BY DEF Level
<1>3. sn = b[h]
  BY <1>1 DEF Level
<1>4. CASE h = D
  BY <1>3, <1>4
<1>5. CASE h # D
  <2>1. \A x \in b[h] : Neighbours(r, x) \subseteq b[h]
    BY <1>1, <1>3, <1>5 DEF Level
  <2>2. h \in 0 .. 2 /\ h < D
    BY <1>2, <1>5
  <2>3. b[h + 1] \subseteq b[h]
    BY <2>1, <2>2, BallIs
  <2>4. b[D] = b[h]
    BY <1>2, <2>2, <2>3, BallStops
  <2> QED
    BY <1>3, <2>4
<1> QED
  BY <1>4, <1>5

-----------------------------------------------------------------------------
(* The expansion of all seeds.                                               *)

\* Node x has its score from the i-th seed, at k followed edges.
FirstAt(r, sq, x, i, k) ==
    /\ x \in Ball(r, sq[i])[Depth(r)]
    /\ \A j \in 1 .. i - 1 : x \notin Ball(r, sq[j])[Depth(r)]
    /\ AtDistance(r, sq[i], x, k)

\* The score at k followed edges.
ScoreAt(k) == [score |-> 200 \div 2 ^ k, depth |-> k]

\* The scores with a seed's entry overwritten.
WithSeed(sc, s) ==
    [x \in DOMAIN sc \cup {s} |-> IF x = s THEN [score |-> 200, depth |-> 0] ELSE sc[x]]

\* The scores with those of the ids found k edges away.
Expanded(sc, next, k) ==
    [x \in DOMAIN sc \cup next |-> IF x \in DOMAIN sc THEN sc[x] ELSE ScoreAt(k)]

\* What a turn finds at the head of the queue, and in t what it queues.
Turn(r, q, sn, next, t) ==
    /\ next = IF q[1].depth >= Depth(r) THEN {} ELSE Neighbours(r, q[1].id) \ sn
    /\ next \subseteq NodeIds
    /\ IsSeq(t)
    /\ \A j \in DOMAIN t : t[j].id \in next /\ t[j].depth = q[1].depth + 1
    /\ \A x \in next : \E j \in DOMAIN t : t[j].id = x

\* The nodes with a score: seeds with theirs, others with that of the first seed that
\* reaches them.
ScoresOK(r, sq, sc) ==
    /\ \A i \in DOMAIN sq : sq[i] \in DOMAIN sc /\ sc[sq[i]] = [score |-> 200, depth |-> 0]
    /\ \A x \in DOMAIN sc :
         (\A i \in DOMAIN sq : sq[i] # x) =>
            \E i \in DOMAIN sq : \E k \in 0 .. 3 :
               FirstAt(r, sq, x, i, k) /\ sc[x] = ScoreAt(k)

\* The expansion of the seeds taken so far: the last one's queue q and seen set sn are
\* those of its search, and a node has a score exactly if an earlier seed reaches it or
\* the last one has seen it.
ExpandOK(r, sq, q, sn, sc) ==
    /\ IsSeq(sq) /\ IsSeq(q) /\ sn \subseteq NodeIds
    /\ \A i \in DOMAIN sq : sq[i] \in NodeIds
    /\ sq = <<>> => q = <<>> /\ sn = {}
    /\ sq # <<>> => \E h : Level(r, sq[Len(sq)], q, sn, h)
    /\ \A x : x \in DOMAIN sc
                <=> x \in sn \/ \E i \in 1 .. Len(sq) - 1 : x \in Ball(r, sq[i])[Depth(r)]
    /\ ScoresOK(r, sq, sc)

\* ExpandOK depends on the index and its arguments alone.
LEMMA SameExpand ==
    ASSUME index' = index
    PROVE  \A r, sq, q, sn, sc : ExpandOK(r, sq, q, sn, sc)' <=> ExpandOK(r, sq, q, sn, sc)
<1>1. \A r, s : Ball(r, s)' = Ball(r, s)
  BY DEF Ball, Wider, Neighbours, Followed
<1>2. \A r, id : Neighbours(r, id)' = Neighbours(r, id)
  BY DEF Neighbours, Followed
<1>3. NodeIds' = NodeIds
  BY DEF NodeIds
<1>4. \A r, s, x, k : AtDistance(r, s, x, k)' <=> AtDistance(r, s, x, k)
  BY <1>1 DEF AtDistance
<1>5. \A r, s, q, sn, h : Level(r, s, q, sn, h)' <=> Level(r, s, q, sn, h)
  BY <1>1, <1>2, <1>4 DEF Level
<1>6. \A r, sq, x, i, k : FirstAt(r, sq, x, i, k)' <=> FirstAt(r, sq, x, i, k)
  BY <1>1, <1>4 DEF FirstAt
<1>7. \A r, sq, sc : ScoresOK(r, sq, sc)' <=> ScoresOK(r, sq, sc)
  BY <1>6 DEF ScoresOK
<1> QED
  BY <1>1, <1>3, <1>5, <1>7 DEF ExpandOK

\* Once the queue of a seed is empty, all it reaches has a score.
LEMMA SeedDone ==
    ASSUME NEW r, Depth(r) \in 0 .. 3, NEW sq, NEW sn, NEW sc, ExpandOK(r, sq, <<>>, sn, sc)
    PROVE  \A x : x \in DOMAIN sc <=> \E i \in DOMAIN sq : x \in Ball(r, sq[i])[Depth(r)]
<1> DEFINE Reached(i) == Ball(r, sq[i])[Depth(r)]
           N == Len(sq)
<1>1. DOMAIN sq = 1 .. N /\ N \in Nat /\ (sq = <<>> <=> N = 0)
  BY SeqFacts DEF ExpandOK
<1>2. sq # <<>> => sn = Reached(N)
  BY LevelDone DEF ExpandOK
<1>3. sq = <<>> => sn = {}
  BY DEF ExpandOK
<1>4. \A x : x \in DOMAIN sc <=> x \in sn \/ \E i \in 1 .. N - 1 : x \in Reached(i)
  BY DEF ExpandOK
<1> HIDE DEF Reached, N
<1>5. \A x : x \in DOMAIN sc <=> \E i \in 1 .. N : x \in Reached(i)
  BY <1>1, <1>2, <1>3, <1>4
<1> QED
  BY <1>1, <1>5 DEF Reached

\* The next seed: what has no score yet gets none but the seed.
LEMMA TakeSeedOK ==
    ASSUME NEW r, Depth(r) \in 0 .. 3, NEW sq, NEW sn, NEW sc, ExpandOK(r, sq, <<>>, sn, sc),
           NEW s \in NodeIds
    PROVE  ExpandOK(r, Append(sq, s), <<[id |-> s, depth |-> 0]>>, {s}, WithSeed(sc, s))
<1> DEFINE sc2 == WithSeed(sc, s)
<1>16. sc2 = [x \in DOMAIN sc \cup {s} |->
                IF x = s THEN [score |-> 200, depth |-> 0] ELSE sc[x]]
  BY DEF WithSeed
<1> HIDE DEF sc2
<1> DEFINE N == Len(sq)
           tq == Append(sq, s)
           q == <<[id |-> s, depth |-> 0]>>
           D == Depth(r)
<1>1. IsSeq(sq) /\ DOMAIN sq = 1 .. N /\ N \in Nat
  BY SeqFacts DEF ExpandOK
<1>2. /\ IsSeq(tq) /\ Len(tq) = N + 1
      /\ \A i \in 1 .. N : tq[i] = sq[i]
      /\ tq[N + 1] = s
  BY <1>1, AppendAny
<1>3. DOMAIN tq = 1 .. N + 1 /\ tq # <<>>
  BY <1>1, <1>2, SeqFacts
<1>4. IsSeq(q)
  <2>1. q \in Seq({[id |-> s, depth |-> 0]})
    OBVIOUS
  <2> HIDE DEF q
  <2> QED
    BY <2>1, IsSeqFrom
<1>5. Level(r, s, q, {s}, 0)
  BY FirstLevel
<1> HIDE DEF tq, q, N, D
<1>6. \A i \in DOMAIN tq : tq[i] \in NodeIds
  BY <1>1, <1>2, <1>3 DEF ExpandOK
<1>7. DOMAIN sc2 = DOMAIN sc \cup {s}
  BY <1>16
<1>8. \A x : x \in DOMAIN sc2
               <=> x \in {s} \/ \E i \in 1 .. Len(tq) - 1 : x \in Ball(r, tq[i])[D]
  <2>1. \A x : x \in DOMAIN sc <=> \E i \in 1 .. N : x \in Ball(r, sq[i])[D]
    BY <1>1, SeedDone DEF D
  <2>2. Len(tq) - 1 = N
    BY <1>1, <1>2
  <2> QED
    BY <1>2, <1>7, <2>1, <2>2
<1>9. \A i \in DOMAIN tq : tq[i] \in DOMAIN sc2 /\ sc2[tq[i]] = [score |-> 200, depth |-> 0]
  <2>1. SUFFICES ASSUME NEW i \in DOMAIN tq
                 PROVE  tq[i] \in DOMAIN sc2 /\ sc2[tq[i]] = [score |-> 200, depth |-> 0]
    OBVIOUS
  <2>2. CASE tq[i] = s
    BY <1>7, <1>16, <2>2
  <2>3. CASE tq[i] # s
    <3>1. i \in DOMAIN sq /\ tq[i] = sq[i]
      BY <1>1, <1>2, <1>3, <2>3
    <3>2. sq[i] \in DOMAIN sc /\ sc[sq[i]] = [score |-> 200, depth |-> 0]
      BY <3>1 DEF ExpandOK, ScoresOK
    <3> QED
      BY <1>7, <1>16, <2>3, <3>1, <3>2
  <2> QED
    BY <2>2, <2>3
<1>10. ASSUME NEW x \in DOMAIN sc2, \A i \in DOMAIN tq : tq[i] # x
       PROVE  \E i \in DOMAIN tq : \E k \in 0 .. 3 :
                FirstAt(r, tq, x, i, k) /\ sc2[x] = ScoreAt(k)
  <2>1. x # s
    BY <1>1, <1>2, <1>3, <1>10
  <2>2. x \in DOMAIN sc /\ sc2[x] = sc[x]
    BY <1>7, <1>16, <2>1
  <2>3. \A i \in DOMAIN sq : sq[i] # x
    BY <1>1, <1>2, <1>3, <1>10
  <2>4. PICK i \in DOMAIN sq : \E k \in 0 .. 3 :
          FirstAt(r, sq, x, i, k) /\ sc[x] = ScoreAt(k)
    BY <2>2, <2>3 DEF ExpandOK, ScoresOK
  <2>5. PICK k \in 0 .. 3 :
          FirstAt(r, sq, x, i, k) /\ sc[x] = ScoreAt(k)
    BY <2>4
  <2>6. i \in DOMAIN tq /\ tq[i] = sq[i] /\ \A j \in 1 .. i - 1 : tq[j] = sq[j]
    BY <1>1, <1>2, <1>3
  <2>7. FirstAt(r, tq, x, i, k)
    BY <2>5, <2>6 DEF FirstAt
  <2> QED
    BY <2>2, <2>5, <2>6, <2>7
<1>11. ScoresOK(r, tq, sc2)
  BY <1>9, <1>10 DEF ScoresOK
<1>12. tq[Len(tq)] = s
  BY <1>1, <1>2
<1>13. \E h : Level(r, tq[Len(tq)], q, {s}, h)
  BY <1>5, <1>12
<1> QED
  BY <1>2, <1>3, <1>4, <1>6, <1>8, <1>11, <1>13 DEF ExpandOK, D, tq, q, sc2

\* A turn of the while loop of expand.
LEMMA ExpandTurnOK ==
    ASSUME NEW r, Depth(r) \in 0 .. 3, NEW sq, NEW q, NEW sn, NEW sc, ExpandOK(r, sq, q, sn, sc),
           q # <<>>,
           NEW next, NEW t, Turn(r, q, sn, next, t)
    PROVE  ExpandOK(r, sq, Tail(q) \o t, sn \cup next, Expanded(sc, next, q[1].depth + 1))
<1> DEFINE sc2 == Expanded(sc, next, q[1].depth + 1)
<1>16. sc2 = [x \in DOMAIN sc \cup next |->
                IF x \in DOMAIN sc THEN sc[x] ELSE ScoreAt(q[1].depth + 1)]
  BY DEF Expanded
<1>17. /\ next = IF q[1].depth >= Depth(r) THEN {} ELSE Neighbours(r, q[1].id) \ sn
       /\ next \subseteq NodeIds
       /\ IsSeq(t)
       /\ \A j \in DOMAIN t : t[j].id \in next /\ t[j].depth = q[1].depth + 1
       /\ \A x \in next : \E j \in DOMAIN t : t[j].id = x
  BY DEF Turn
<1> HIDE DEF sc2
<1> DEFINE N == Len(sq)
           s == sq[N]
           D == Depth(r)
<1>1. IsSeq(sq) /\ DOMAIN sq = 1 .. N /\ N \in Nat /\ sq # <<>> /\ IsSeq(q)
  BY SeqFacts DEF ExpandOK
<1>2. N \in DOMAIN sq
  BY <1>1, SeqFacts
<1>3. PICK h : Level(r, s, q, sn, h) /\ q[1].depth = h
  <2>1. PICK g : Level(r, s, q, sn, g)
    BY <1>1 DEF ExpandOK
  <2>2. CASE q[1].depth = g
    BY <2>1, <2>2
  <2>3. CASE q[1].depth # g
    BY <1>1, <2>1, <2>3, NextLevel
  <2> QED
    BY <2>2, <2>3
<1>4. Level(r, s, Tail(q) \o t, sn \cup next, h)
  BY <1>1, <1>3, <1>17, ExpandLevel
<1>5. IsSeq(Tail(q) \o t)
  BY <1>1, <1>17, TailAndMore
<1>6. \A x : x \in DOMAIN sc <=> x \in sn \/ \E i \in 1 .. N - 1 : x \in Ball(r, sq[i])[D]
  BY DEF ExpandOK
<1>7. DOMAIN sc2 = DOMAIN sc \cup next
  BY <1>16
<1>8. h \in 0 .. D /\ h \in 0 .. 3
  BY <1>3 DEF Level
<1>9. ASSUME NEW x \in next PROVE h < D /\ AtDistance(r, s, x, h + 1) /\ x \in Ball(r, s)[D]
  <2>1. h < D /\ x \in Neighbours(r, q[1].id) \ sn
    BY <1>3, <1>8, <1>17
  <2>2. 1 \in DOMAIN q
    BY <1>1, SeqFacts
  <2>3. q[1].id \in Ball(r, s)[h]
    BY <1>3, <2>2 DEF Level, AtDistance
  <2>4. AtDistance(r, s, x, h + 1)
    BY <1>3, <2>1, <2>3, NewIsFurther
  <2>5. x \in Ball(r, s)[D]
    <3>1. x \in Ball(r, s)[h + 1] /\ h + 1 \in 0 .. 3 /\ h + 1 <= D
      BY <1>8, <2>1, <2>4 DEF AtDistance
    <3> QED
      BY <3>1, BallGrows
  <2> QED
    BY <2>1, <2>4, <2>5
<1> HIDE DEF s, D, N
<1>10. \A x : x \in DOMAIN sc2
                <=> x \in sn \cup next \/ \E i \in 1 .. N - 1 : x \in Ball(r, sq[i])[D]
  BY <1>6, <1>7
<1>11. \A i \in DOMAIN sq : sq[i] \in DOMAIN sc2 /\ sc2[sq[i]] = [score |-> 200, depth |-> 0]
  BY <1>7, <1>16 DEF ExpandOK, ScoresOK
<1>12. ASSUME NEW x \in DOMAIN sc2, \A i \in DOMAIN sq : sq[i] # x
       PROVE  \E i \in DOMAIN sq : \E k \in 0 .. 3 :
                FirstAt(r, sq, x, i, k) /\ sc2[x] = ScoreAt(k)
  <2>1. CASE x \in DOMAIN sc
    <3>1. sc2[x] = sc[x]
      BY <1>7, <1>16, <2>1
    <3>2. \E i \in DOMAIN sq : \E k \in 0 .. 3 :
            FirstAt(r, sq, x, i, k) /\ sc[x] = ScoreAt(k)
      BY <1>12, <2>1 DEF ExpandOK, ScoresOK
    <3> QED
      BY <3>1, <3>2
  <2>2. CASE x \notin DOMAIN sc
    <3>1. x \in next
      BY <1>7, <1>12, <2>2
    <3>2. h < D /\ AtDistance(r, s, x, h + 1) /\ x \in Ball(r, s)[D]
      BY <1>9, <3>1
    <3>3. \A j \in 1 .. N - 1 : x \notin Ball(r, sq[j])[D]
      BY <1>6, <2>2
    <3>4. FirstAt(r, sq, x, N, h + 1)
      BY <3>2, <3>3 DEF FirstAt, s, D
    <3>5. sc2[x] = ScoreAt(h + 1)
      BY <1>3, <1>7, <1>12, <1>16, <2>2
    <3>6. h + 1 \in 0 .. 3
      BY <3>2 DEF AtDistance
    <3> QED
      BY <1>2, <3>4, <3>5, <3>6
  <2> QED
    BY <2>1, <2>2
<1>13. ScoresOK(r, sq, sc2)
  BY <1>11, <1>12 DEF ScoresOK
<1>14. \E g : Level(r, sq[Len(sq)], Tail(q) \o t, sn \cup next, g)
  BY <1>4 DEF s, N
<1>15. sn \cup next \subseteq NodeIds /\ \A i \in DOMAIN sq : sq[i] \in NodeIds
  BY <1>17 DEF ExpandOK
<1> QED
  BY <1>1, <1>5, <1>10, <1>13, <1>14, <1>15 DEF ExpandOK, N, D, sc2

\* The expansion is right so far, and there is none before a query.
ScoreInv ==
    /\ ExpandOK(ask, seeds, queue2, seen, scores)
    /\ phase \notin {"expanding", "answered"} => seeds = <<>>
    /\ phase = "answered" => queue2 = <<>>

\* Without a seed nothing is expanded.
LEMMA NothingExpanded ==
    ASSUME ScoreInv, seeds = <<>>
    PROVE  queue2 = <<>> /\ seen = {} /\ DOMAIN scores = {}
<1>1. queue2 = <<>> /\ seen = {}
  BY DEF ScoreInv, ExpandOK
<1>2. Len(seeds) = 0
  OBVIOUS
<1>3. \A x : x \notin DOMAIN scores
  <2>1. \A x : x \in DOMAIN scores
                 <=> x \in seen \/ \E i \in 1 .. Len(seeds) - 1 : x \in Ball(ask, seeds[i])[Depth(ask)]
    BY DEF ScoreInv, ExpandOK
  <2> QED
    BY <1>1, <1>2, <2>1
<1> QED
  BY <1>1, <1>3

\* ScoreInv at the start.
LEMMA ScoreInit == QueryInit => ScoreInv
<1> SUFFICES ASSUME QueryInit PROVE ScoreInv
  OBVIOUS
<1>1. seeds = <<>> /\ queue2 = <<>> /\ seen = {} /\ DOMAIN scores = {} /\ phase = "documents"
  BY DEF QueryInit, IndexInit
<1>2. Len(seeds) = 0 /\ DOMAIN seeds = {}
  BY <1>1
<1>3. ExpandOK(ask, seeds, queue2, seen, scores)
  BY <1>1, <1>2, EmptyIsSeq DEF ExpandOK, ScoresOK
<1> QED
  BY <1>1, <1>3 DEF ScoreInv

\* A build keeps ScoreInv: no seed is taken yet.
LEMMA ScoreIndexStep ==
    ASSUME ScoreInv, IndexNext, UNCHANGED queryVars
    PROVE  ScoreInv'
<1>1. seeds = <<>> /\ phase' \notin {"expanding", "answered"}
  BY DEF ScoreInv, IndexNext, ReadDocuments, SearchGroups, FinishIndex, indexVars
<1>2. seeds' = <<>> /\ queue2' = <<>> /\ seen' = {} /\ DOMAIN scores' = {} /\ scores' = scores
  BY <1>1, NothingExpanded DEF queryVars
<1>3. Len(seeds') = 0 /\ DOMAIN seeds' = {}
  BY <1>2
<1>4. ExpandOK(ask, seeds, queue2, seen, scores)'
  BY <1>2, <1>3, EmptyIsSeq DEF ExpandOK, ScoresOK
<1> QED
  BY <1>1, <1>2, <1>4 DEF ScoreInv

\* Taking a seed keeps ScoreInv.
LEMMA ScoreTakeSeed ==
    ASSUME FlowInv, ScoreInv, TakeSeed
    PROVE  ScoreInv'
<1>1. /\ index' = index /\ ask' = ask /\ phase = "expanding" /\ phase' = phase /\ queue2 = <<>>
  BY DEF TakeSeed, indexVars
<1>2. Depth(ask) \in 0 .. 3
  BY DepthRange DEF FlowInv
<1>3. CASE Head(todo) \in NodeIds
  <2> DEFINE s == Head(todo)
  <2>1. /\ seeds' = Append(seeds, s) /\ queue2' = <<[id |-> s, depth |-> 0]>> /\ seen' = {s}
        /\ scores' = [x \in DOMAIN scores \cup {s} |->
                        IF x = s THEN [score |-> 200, depth |-> 0] ELSE scores[x]]
    BY <1>3 DEF TakeSeed
  <2> HIDE DEF s
  <2>5. ExpandOK(ask, seeds, <<>>, seen, scores)
    BY <1>1 DEF ScoreInv
  <2>6. s \in NodeIds /\ scores' = WithSeed(scores, s)
    BY <1>3, <2>1 DEF s, WithSeed
  <2>2. ExpandOK(ask, Append(seeds, s), <<[id |-> s, depth |-> 0]>>, {s}, scores')
    BY <1>2, <2>5, <2>6, TakeSeedOK
  <2>3. ExpandOK(ask', seeds', queue2', seen', scores')
    BY <1>1, <2>1, <2>2
  <2>4. ExpandOK(ask, seeds, queue2, seen, scores)'
    BY <1>1, <2>3, SameExpand
  <2> QED
    BY <1>1, <2>4 DEF ScoreInv
<1>4. CASE Head(todo) \notin NodeIds
  <2>1. seeds' = seeds /\ queue2' = queue2 /\ seen' = seen /\ scores' = scores
    BY <1>4 DEF TakeSeed
  <2>2. ExpandOK(ask', seeds', queue2', seen', scores')
    BY <1>1, <2>1 DEF ScoreInv
  <2>3. ExpandOK(ask, seeds, queue2, seen, scores)'
    BY <1>1, <2>2, SameExpand
  <2> QED
    BY <1>1, <2>3 DEF ScoreInv
<1> QED
  BY <1>3, <1>4

\* A turn of the expansion keeps ScoreInv.
LEMMA ScoreExpand ==
    ASSUME FlowInv, ScoreInv, Expand
    PROVE  ScoreInv'
<1>1. /\ index' = index /\ ask' = ask /\ phase = "expanding" /\ phase' = phase /\ queue2 # <<>>
      /\ seeds' = seeds
  BY DEF Expand, indexVars
<1>2. Depth(ask) \in 0 .. 3
  BY DepthRange DEF FlowInv
<1>3. IndexRight
  BY <1>1 DEF FlowInv, AfterBuild
<1> DEFINE at == Head(queue2)
           next == IF DepthReached(at.depth, ask) THEN {} ELSE Neighbours(ask, at.id) \ seen
           entry == [score |-> 200 \div 2 ^ (at.depth + 1), depth |-> at.depth + 1]
           S == {[id |-> n, depth |-> at.depth + 1] : n \in next}
           t == AsSeq(S)
<1>4. /\ queue2' = Tail(queue2) \o t
      /\ seen' = seen \cup next
      /\ scores' = [n \in DOMAIN scores \cup next |-> IF n \in DOMAIN scores THEN scores[n] ELSE entry]
  BY DEF Expand
<1>5. at = queue2[1]
  OBVIOUS
<1>6. next = IF queue2[1].depth >= Depth(ask) THEN {} ELSE Neighbours(ask, queue2[1].id) \ seen
  BY <1>5 DEF DepthReached
<1>7. next \subseteq NodeIds
  BY <1>3, NeighboursIn
<1>8. /\ IsSeq(t)
      /\ \A j \in DOMAIN t : t[j].id \in next /\ t[j].depth = queue2[1].depth + 1
      /\ \A x \in next : \E j \in DOMAIN t : t[j].id = x
  <2> DEFINE f == [n \in next |-> [id |-> n, depth |-> at.depth + 1]]
  <2>1. S = {f[n] : n \in next} /\ DOMAIN f = next /\ f = [n \in next |-> f[n]]
    OBVIOUS
  <2>2. IsFiniteSet(next)
    <3>1. next \in SUBSET NodeIds /\ IsFiniteSet(NodeIds)
      BY <1>3, <1>7, NodesFinite
    <3> HIDE DEF next
    <3> QED
      BY <3>1, FS_Subset
  <2>3. \A e \in S : e.id \in next /\ e.depth = at.depth + 1
    OBVIOUS
  <2>4. \A x \in next : \E e \in S : e.id = x
    <3>1. SUFFICES ASSUME NEW x \in next PROVE \E e \in S : e.id = x
      OBVIOUS
    <3>2. [id |-> x, depth |-> at.depth + 1] \in S
      BY <3>1
    <3>3. [id |-> x, depth |-> at.depth + 1].id = x
      OBVIOUS
    <3> HIDE DEF S, next
    <3> QED
      BY <3>2, <3>3
  <2> HIDE DEF f, next, S, t, at
  <2>5. IsFiniteSet(S)
    BY <2>1, <2>2, FiniteImage
  <2>6. t \in Seq(S) /\ {t[i] : i \in DOMAIN t} = S
    BY <2>5, AsSeqLists DEF t
  <2>7. IsSeq(t)
    BY <2>6, IsSeqFrom
  <2>8. \A j \in DOMAIN t : t[j] \in S
    BY <2>6
  <2>9. \A e \in S : \E j \in DOMAIN t : t[j] = e
    BY <2>6
  <2> QED
    BY <1>5, <2>3, <2>4, <2>7, <2>8, <2>9
<1>9. scores' = Expanded(scores, next, queue2[1].depth + 1)
  BY <1>4, <1>5 DEF Expanded, ScoreAt
<1> HIDE DEF at, next, entry, S, t
<1>10. ExpandOK(ask, seeds, queue2, seen, scores)
  BY DEF ScoreInv
<1>14. Turn(ask, queue2, seen, next, t)
  BY <1>6, <1>7, <1>8 DEF Turn
<1>11. ExpandOK(ask, seeds, Tail(queue2) \o t, seen \cup next, scores')
  BY <1>1, <1>2, <1>9, <1>10, <1>14, ExpandTurnOK
<1>12. ExpandOK(ask', seeds', queue2', seen', scores')
  BY <1>1, <1>4, <1>11
<1>13. ExpandOK(ask, seeds, queue2, seen, scores)'
  BY <1>1, <1>12, SameExpand
<1> QED
  BY <1>1, <1>13 DEF ScoreInv

\* What leaves the expansion alone keeps ScoreInv.
LEMMA ScoreOther ==
    ASSUME ScoreInv, UNCHANGED <<index, ask, seeds, queue2, seen, scores>>,
           \/ phase' = phase
           \/ phase = "built" /\ phase' = "expanding"
           \/ phase' = "answered" /\ queue2 = <<>> /\ phase = "expanding"
    PROVE  ScoreInv'
<1>1. ExpandOK(ask', seeds', queue2', seen', scores')
  BY DEF ScoreInv
<1>2. ExpandOK(ask, seeds, queue2, seen, scores)'
  BY <1>1, SameExpand
<1> QED
  BY <1>2 DEF ScoreInv

\* Every step keeps ScoreInv.
LEMMA ScoreStep ==
    FlowInv /\ ScoreInv /\ [QueryNext]_<<indexVars, groupVars, queryVars>> => ScoreInv'
<1> SUFFICES ASSUME FlowInv, ScoreInv, [QueryNext]_<<indexVars, groupVars, queryVars>>
             PROVE  ScoreInv'
  OBVIOUS
<1>1. CASE QueryGraph \/ FinishQuery \/ UNCHANGED <<indexVars, groupVars, queryVars>>
  <2>1. /\ UNCHANGED <<index, ask, seeds, queue2, seen, scores>>
        /\ \/ phase' = phase
           \/ phase = "built" /\ phase' = "expanding"
           \/ phase' = "answered" /\ queue2 = <<>> /\ phase = "expanding"
    BY <1>1 DEF QueryGraph, FinishQuery, indexVars, queryVars
  <2> QED
    BY <2>1, ScoreOther
<1> QED
  BY <1>1, ScoreIndexStep, ScoreTakeSeed, ScoreExpand DEF QueryNext

-----------------------------------------------------------------------------
\* Halving k times and doubling k times, for the depths there are.
LEMMA Halves == \A k \in 0 .. 3 : (200 \div 2 ^ k) * 2 ^ k = 200
<1>1. SUFFICES ASSUME NEW k \in 0 .. 3 PROVE (200 \div 2 ^ k) * 2 ^ k = 200
  OBVIOUS
<1>2. 2 ^ 0 = 1 /\ 2 ^ 1 = 2 /\ 2 ^ 2 = 4 /\ 2 ^ 3 = 8
  OBVIOUS
<1>3. CASE k = 0
  BY <1>2, <1>3
<1>4. CASE k = 1
  BY <1>2, <1>4
<1>5. CASE k = 2
  BY <1>2, <1>5
<1>6. CASE k = 3
  BY <1>2, <1>6
<1> QED
  BY <1>3, <1>4, <1>5, <1>6

\* Once all seeds are expanded, scores are distances.
LEMMA AnsweredScores ==
    ASSUME FlowInv, ScoreInv, phase = "answered"
    PROVE  ScoresAreDistances
<1> DEFINE Reached(i) == Ball(ask, seeds[i])[Depth(ask)]
           First(n) == CHOOSE i \in DOMAIN seeds :
                         n \in Reached(i) /\ \A j \in 1 .. i - 1 : n \notin Reached(j)
           Distance(n) == CHOOSE k \in 0 .. 3 :
                            /\ n \in Ball(ask, seeds[First(n)])[k]
                            /\ \A l \in 0 .. k - 1 : n \notin Ball(ask, seeds[First(n)])[l]
<1>1. Depth(ask) \in 0 .. 3
  BY DepthRange DEF FlowInv
<1>2. ExpandOK(ask, seeds, <<>>, seen, scores)
  BY DEF ScoreInv
<1>3. DOMAIN seeds = 1 .. Len(seeds) /\ Len(seeds) \in Nat
  BY <1>2, SeqFacts DEF ExpandOK
<1>4. DOMAIN scores = UNION {Reached(i) : i \in DOMAIN seeds}
  <2>1. \A x : x \in DOMAIN scores <=> \E i \in DOMAIN seeds : x \in Reached(i)
    BY <1>1, <1>2, SeedDone
  <2> HIDE DEF Reached
  <2>2. \A x : x \in UNION {Reached(i) : i \in DOMAIN seeds}
                 <=> \E i \in DOMAIN seeds : x \in Reached(i)
    OBVIOUS
  <2> QED
    BY <2>1, <2>2
<1>5. ASSUME NEW n \in DOMAIN scores
      PROVE  /\ scores[n].depth = IF n \in SE!ToSet(seeds) THEN 0 ELSE Distance(n)
             /\ scores[n].score * 2 ^ scores[n].depth = 200
  <2> HIDE DEF First, Distance
  <2>1. n \in SE!ToSet(seeds) <=> \E i \in DOMAIN seeds : seeds[i] = n
    BY DEF SE!ToSet
  <2>2. CASE n \in SE!ToSet(seeds)
    <3>1. scores[n] = [score |-> 200, depth |-> 0]
      BY <1>2, <2>1, <2>2 DEF ExpandOK, ScoresOK
    <3>2. scores[n].score = 200 /\ scores[n].depth = 0 /\ 2 ^ 0 = 1
      BY <3>1
    <3> QED
      BY <2>2, <3>2
  <2>3. CASE n \notin SE!ToSet(seeds)
    <3>1. \A i \in DOMAIN seeds : seeds[i] # n
      BY <2>1, <2>3
    <3>2. PICK i \in DOMAIN seeds : \E k \in 0 .. 3 :
            FirstAt(ask, seeds, n, i, k) /\ scores[n] = ScoreAt(k)
      BY <1>2, <3>1 DEF ExpandOK, ScoresOK
    <3>3. PICK k \in 0 .. 3 : FirstAt(ask, seeds, n, i, k) /\ scores[n] = ScoreAt(k)
      BY <3>2
    <3>4. n \in Reached(i) /\ \A j \in 1 .. i - 1 : n \notin Reached(j)
      BY <3>3 DEF FirstAt
    <3> HIDE DEF Reached
    <3>5. /\ First(n) \in DOMAIN seeds
          /\ n \in Reached(First(n)) /\ \A j \in 1 .. First(n) - 1 : n \notin Reached(j)
      BY <3>4 DEF First
    <3>6. First(n) = i
      <4> DEFINE f == First(n)
      <4>1. f \in 1 .. Len(seeds) /\ i \in 1 .. Len(seeds)
        BY <1>3, <3>5
      <4>2. n \in Reached(f) /\ \A j \in 1 .. f - 1 : n \notin Reached(j)
        BY <3>5
      <4> HIDE DEF f
      <4>3. ~(f < i) /\ ~(i < f)
        BY <1>3, <3>4, <4>1, <4>2
      <4>4. f = i
        BY <1>3, <4>1, <4>3
      <4> QED
        BY <4>4 DEF f
    <3>7. AtDistance(ask, seeds[i], n, k)
      BY <3>3 DEF FirstAt
    <3>8. Distance(n) = CHOOSE m \in 0 .. 3 :
                          /\ n \in Ball(ask, seeds[i])[m]
                          /\ \A l \in 0 .. m - 1 : n \notin Ball(ask, seeds[i])[l]
      BY <3>6 DEF Distance
    <3>9. Distance(n) \in 0 .. 3 /\ AtDistance(ask, seeds[i], n, Distance(n))
      BY <3>7, <3>8 DEF AtDistance
    <3>10. Distance(n) = k
      <4> DEFINE d == Distance(n)
      <4>1. d \in 0 .. 3 /\ AtDistance(ask, seeds[i], n, d)
        BY <3>9
      <4> HIDE DEF d
      <4>2. ~(d < k) /\ ~(k < d)
        BY <3>7, <4>1 DEF AtDistance
      <4>3. d = k
        BY <4>1, <4>2
      <4> QED
        BY <4>3 DEF d
    <3>11. scores[n].score = 200 \div 2 ^ k /\ scores[n].depth = k
      BY <3>3 DEF ScoreAt
    <3>12. (200 \div 2 ^ k) * 2 ^ k = 200
      BY Halves
    <3>13. scores[n].score * 2 ^ scores[n].depth = 200
      BY <3>11, <3>12
    <3>14. scores[n].depth = Distance(n)
      BY <3>10, <3>11
    <3> QED
      BY <2>3, <3>13, <3>14
  <2> QED
    BY <2>2, <2>3
<1> HIDE DEF Reached, First, Distance
<1>6. /\ DOMAIN scores = UNION {Reached(i) : i \in DOMAIN seeds}
      /\ \A n \in DOMAIN scores :
           /\ scores[n].depth = IF n \in SE!ToSet(seeds) THEN 0 ELSE Distance(n)
           /\ scores[n].score * 2 ^ scores[n].depth = 200
  BY <1>4, <1>5
<1> QED
  BY <1>6 DEF ScoresAreDistances, Answered, Reached, First, Distance

\* For every index and request, a node has a score exactly if it is within the requested
\* depth of a seed, and its depth is its distance from the first seed that reaches it.
THEOREM ScoresAreDistancesInIndex == QuerySpec => []ScoresAreDistances
<1>1. FlowInv /\ ScoreInv => ScoresAreDistances
  <2>1. FlowInv /\ ScoreInv /\ phase = "answered" => ScoresAreDistances
    BY AnsweredScores
  <2> QED
    BY <2>1 DEF ScoresAreDistances, Answered
<1> QED
  BY <1>1, FlowInit, FlowStep, ScoreInit, ScoreStep, PTL DEF QuerySpec

-----------------------------------------------------------------------------
(* Scored nodes and their ranking.                                           *)

\* The best n of a ranked finite set, of which each element has a whole score.
LEMMA BestOf ==
    ASSUME NEW S, IsFiniteSet(S), \A e \in S : e.score \in Int, NEW n \in Nat
    PROVE  LET b == Truncated(Ranked(S), n) IN
           /\ IsSeq(b) /\ Len(b) <= n
           /\ \A i \in DOMAIN b : b[i] \in S
           /\ DOMAIN b = 1 .. Len(b) /\ \A i, j \in DOMAIN b : b[i] = b[j] => i = j
           /\ \A e \in S : \/ \E i \in DOMAIN b : b[i] = e
                           \/ Len(b) = n /\ \A i \in DOMAIN b : b[i].score >= e.score
<1> DEFINE R == Ranked(S)
           N == Cardinality(S)
           k == IF N < n THEN N ELSE n
           b == Truncated(R, n)
<1>1. /\ R \in Seq(S) /\ Len(R) = N
      /\ {R[i] : i \in DOMAIN R} = S
      /\ \A i, j \in 1 .. N : /\ R[i] = R[j] => i = j
                              /\ i <= j => R[i].score >= R[j].score
  BY RankedLists
<1>2. N \in Nat /\ k \in Nat /\ k <= N /\ k <= n /\ (k = N \/ k = n)
  BY FS_CardinalityType
<1> HIDE DEF R, N
<1>3. DOMAIN R = 1 .. N /\ \A i \in 1 .. N : R[i] \in S
  BY <1>1, LenProperties
<1>4. b = SubSeq(R, 1, k)
  BY <1>1 DEF Truncated
<1> HIDE DEF b, k
<1>5. \A i \in 1 .. k : R[i] \in S
  BY <1>2, <1>3
<1>6. /\ SubSeq(R, 1, k) \in Seq(S)
      /\ Len(SubSeq(R, 1, k)) = IF 1 <= k THEN k - 1 + 1 ELSE 0
      /\ \A i \in 1 .. k - 1 + 1 : SubSeq(R, 1, k)[i] = R[1 + i - 1]
  <2>1. 1 \in Int /\ k \in Int
    BY <1>2
  <2> QED
    BY <1>5, <2>1, SubSeqProperties
<1>7. b \in Seq(S) /\ Len(b) = k /\ \A i \in 1 .. k : b[i] = R[i]
  BY <1>2, <1>4, <1>6
<1>8. IsSeq(b) /\ DOMAIN b = 1 .. k
  BY <1>7, IsSeqFrom, LenProperties
<1>9. ASSUME NEW e \in S, \A i \in DOMAIN b : b[i] # e
      PROVE  Len(b) = n /\ \A i \in DOMAIN b : b[i].score >= e.score
  <2>1. PICK p \in 1 .. N : R[p] = e
    BY <1>1, <1>3
  <2>2. ~(p <= k)
    BY <1>2, <1>7, <1>8, <1>9, <2>1
  <2>3. k = n
    BY <1>2, <2>1, <2>2
  <2>4. \A i \in 1 .. k : i \in 1 .. N /\ i <= p
    BY <1>2, <2>1, <2>2
  <2> QED
    BY <1>1, <1>7, <1>8, <2>1, <2>3, <2>4
<1>10. /\ Len(b) <= n
       /\ \A i \in DOMAIN b : b[i] \in S
       /\ DOMAIN b = 1 .. Len(b) /\ \A i, j \in DOMAIN b : b[i] = b[j] => i = j
  <2>1. \A i \in 1 .. k : i \in 1 .. N
    BY <1>2
  <2> QED
    BY <1>1, <1>2, <1>5, <1>7, <1>8, <2>1
<1>11. \A e \in S : \/ \E i \in DOMAIN b : b[i] = e
                    \/ Len(b) = n /\ \A i \in DOMAIN b : b[i].score >= e.score
  BY <1>9
<1> QED
  BY <1>8, <1>10, <1>11 DEF b, R

\* Limits are clamped.
LEMMA LimitRange ==
    ASSUME NEW v \in Int
    PROVE  Limit(v) \in 1 .. 50
BY DEF Limit, Clamped, None

\* The limits of a request.
LEMMA RequestFacts ==
    ASSUME input \in Inputs, NEW r \in Requests(input)
    PROVE  /\ MaxNodes(r) \in 1 .. 50 /\ Limit(r.limit) \in 1 .. 50
           /\ MaxPacked(r) \in 1 .. 50
           /\ MaxTokens(r) \in Nat
<1>1. /\ r.limit \in Int /\ r.maxNodes \in Int /\ r.packNodes \in Int
      /\ r.maxTokens \in Nat \cup {None}
  BY QueryRequests
<1>2. MaxNodes(r) \in 1 .. 50 /\ Limit(r.limit) \in 1 .. 50
  BY <1>1, LimitRange DEF MaxNodes
<1>3. MaxPacked(r) \in 1 .. 50
  BY <1>1 DEF MaxPacked, Clamped, None
<1>4. MaxTokens(r) \in Nat
  BY <1>1 DEF MaxTokens, None
<1> QED
  BY <1>2, <1>3, <1>4

\* A lexical score is whole.
LEMMA LexicalScoreNat == \A n, w : LexicalScore(n, w) \in Nat
BY DEF LexicalScore

\* What the kind in a node's id says of a node read of a document.
LEMMA ReadNodeKinds ==
    ASSUME input \in Inputs, NEW n \in ReadNodes
    PROVE  \/ n.id[1] = "commit" /\ n = Entity(n.id, "Reference", "Commit", NoOwner)
           \/ n.id[1] = "ref" /\ n = Entity(n.id, "Reference", "GitRef", NoOwner)
           \/ n.id[1] = "entity" /\ n = Entity(n.id, "Reference", "ExactEntityReference", n.id[2])
           \/ n.id[1] = "group" /\ n = Entity(n.id, "Group", "Group", NoOwner)
           \/ n.id[1] = "series" /\ n = Entity(n.id, "Series", "Series", NoOwner)
           \/ n.id[1] = "directory" /\ n = Entity(n.id, "Reference", "Directory", NoOwner)
           \/ n.id[1] = "file" /\ \E d \in Documents : n = FileNode(d) /\ n.id[2] = d.path
           \/ n.id[1] = "section" /\ \E d \in Documents : \E i \in 1 .. Len(Sections(d)) :
                /\ n = SectionNode(d, Sections(d)[i].id, Sections(d)[i].range)
                /\ n.id = Sections(d)[i].id /\ n.id[2] = d.path
<1>1. CASE n = Entity(CommitId, "Reference", "Commit", NoOwner)
  <2>1. n.id = <<"commit">>
    BY <1>1, EntityIsNode DEF CommitId
  <2> QED
    BY <1>1, <2>1 DEF CommitId
<1>2. CASE n = Entity(RefId, "Reference", "GitRef", NoOwner)
  <2>1. n.id = <<"ref">>
    BY <1>2, EntityIsNode DEF RefId
  <2> QED
    BY <1>2, <2>1 DEF RefId
<1>3. CASE \E d \in Documents : n \in DocumentNodes(d)
  <2>1. PICK d \in Documents : n \in DocumentNodes(d)
    BY <1>3
  <2>2. CASE n \in DependencyNodes(d)
    <3>1. PICK end : n = Entity(EntityId(d.path, end), "Reference", "ExactEntityReference", d.path)
      BY <2>2 DEF DependencyNodes
    <3>2. n.id = <<"entity", d.path, end>>
      BY <3>1, EntityIsNode DEF EntityId
    <3> QED
      BY <3>1, <3>2 DEF EntityId
  <2>3. CASE n \in {Entity(GroupId(g), "Group", "Group", NoOwner) : g \in NamedGroups(d)}
    <3>1. PICK g : n = Entity(GroupId(g), "Group", "Group", NoOwner)
      BY <2>3
    <3>2. n.id = <<"group", g>>
      BY <3>1, EntityIsNode DEF GroupId
    <3> QED
      BY <3>1, <3>2 DEF GroupId
  <2>4. CASE n \in {Entity(SeriesId(s), "Series", "Series", NoOwner) : s \in Meta(d).series}
    <3>1. PICK s : n = Entity(SeriesId(s), "Series", "Series", NoOwner)
      BY <2>4
    <3>2. n.id = <<"series", s>>
      BY <3>1, EntityIsNode DEF SeriesId
    <3> QED
      BY <3>1, <3>2 DEF SeriesId
  <2>5. CASE n = Entity(DirectoryId(d.path), "Reference", "Directory", NoOwner)
    <3>1. n.id = <<"directory", d.path.dirs>>
      BY <2>5, EntityIsNode DEF DirectoryId
    <3> QED
      BY <2>5, <3>1 DEF DirectoryId
  <2>6. CASE n = FileNode(d)
    <3>1. n.id = <<"file", d.path>>
      BY <2>6, FileIsNode DEF FileId
    <3> QED
      BY <2>1, <2>6, <3>1
  <2>7. CASE \E i \in DOMAIN Sections(d) :
               n = SectionNode(d, Sections(d)[i].id, Sections(d)[i].range)
    <3>1. PICK i \in DOMAIN Sections(d) :
            n = SectionNode(d, Sections(d)[i].id, Sections(d)[i].range)
      BY <2>7
    <3>2. n.id = Sections(d)[i].id
      BY <3>1, SectionIsNode
    <3>3. Headings(d.headings)
      BY <2>1, DocumentFacts
    <3>4. i \in 1 .. Len(Sections(d)) /\ n.id[1] = "section" /\ n.id[2] = d.path
      BY <3>2, <3>3, SectionsFacts
    <3> QED
      BY <2>1, <3>1, <3>2, <3>4
  <2> QED
    BY <2>1, <2>2, <2>3, <2>4, <2>5, <2>6, <2>7 DEF DocumentNodes
<1> QED
  BY <1>1, <1>2, <1>3 DEF ReadNodes

\* An id stands for one node read of the documents.
LEMMA ReadIdsDiffer ==
    ASSUME input \in Inputs, NEW m \in ReadNodes, NEW n \in ReadNodes, m.id = n.id
    PROVE  m = n
<1>1. CASE n.id[1] \notin {"file", "section"}
  BY <1>1, ReadNodeKinds
<1>2. CASE n.id[1] = "file"
  <2>1. PICK d \in Documents : m = FileNode(d) /\ m.id[2] = d.path
    BY <1>2, ReadNodeKinds
  <2>2. PICK e \in Documents : n = FileNode(e) /\ n.id[2] = e.path
    BY <1>2, ReadNodeKinds
  <2>3. d = e
    BY <2>1, <2>2, DocumentFacts
  <2> QED
    BY <2>1, <2>2, <2>3
<1>3. CASE n.id[1] = "section"
  <2>1. PICK d \in Documents : \E i \in 1 .. Len(Sections(d)) :
          /\ m = SectionNode(d, Sections(d)[i].id, Sections(d)[i].range)
          /\ m.id = Sections(d)[i].id /\ m.id[2] = d.path
    BY <1>3, ReadNodeKinds
  <2>2. PICK e \in Documents : \E i \in 1 .. Len(Sections(e)) :
          /\ n = SectionNode(e, Sections(e)[i].id, Sections(e)[i].range)
          /\ n.id = Sections(e)[i].id /\ n.id[2] = e.path
    BY <1>3, ReadNodeKinds
  <2>3. d = e /\ Headings(d.headings)
    BY <2>1, <2>2, DocumentFacts
  <2>4. \A i, j \in 1 .. Len(Sections(d)) : Sections(d)[i].id = Sections(d)[j].id => i = j
    BY <2>3, SectionsFacts
  <2> QED
    BY <2>1, <2>2, <2>3, <2>4
<1> QED
  BY <1>1, <1>2, <1>3

\* An id stands for one unresolved link, whichever documents hold it.
LEMMA UnresolvedIdsDiffer ==
    ASSUME input \in Inputs, NEW m \in Unresolved, NEW n \in Unresolved, m.id = n.id
    PROVE  m = n
<1>1. DOMAIN input.docs = 1 .. Len(input.docs) /\ Len(input.docs) \in Nat
  BY DocumentFacts, SeqFacts
<1>2. PICK i \in DOMAIN input.docs : \E t \in Dangling(input.docs[i]) :
        /\ \A k \in 1 .. i - 1 : t \notin Dangling(input.docs[k])
        /\ m = Entity(ReferenceId(t), "Reference", "Reference", input.docs[i].path)
  BY DEF Unresolved
<1>3. PICK j \in DOMAIN input.docs : \E u \in Dangling(input.docs[j]) :
        /\ \A k \in 1 .. j - 1 : u \notin Dangling(input.docs[k])
        /\ n = Entity(ReferenceId(u), "Reference", "Reference", input.docs[j].path)
  BY DEF Unresolved
<1>4. PICK t \in Dangling(input.docs[i]) :
        /\ \A k \in 1 .. i - 1 : t \notin Dangling(input.docs[k])
        /\ m = Entity(ReferenceId(t), "Reference", "Reference", input.docs[i].path)
  BY <1>2
<1>5. PICK u \in Dangling(input.docs[j]) :
        /\ \A k \in 1 .. j - 1 : u \notin Dangling(input.docs[k])
        /\ n = Entity(ReferenceId(u), "Reference", "Reference", input.docs[j].path)
  BY <1>3
<1>6. t = u
  <2>1. m.id = <<"reference", t>> /\ n.id = <<"reference", u>>
    BY <1>4, <1>5, EntityIsNode DEF ReferenceId
  <2>2. <<"reference", t>> = <<"reference", u>>
    BY <2>1
  <2> QED
    BY <2>2
<1>7. i = j
  <2>1. i \in 1 .. Len(input.docs) /\ j \in 1 .. Len(input.docs)
    BY <1>1
  <2>2. ~(i < j) /\ ~(j < i)
    BY <1>1, <1>4, <1>5, <1>6, <2>1
  <2> QED
    BY <1>1, <2>1, <2>2
<1> QED
  BY <1>4, <1>5, <1>6, <1>7

\* An id stands for one node of an index.
LEMMA NodeIdsDiffer ==
    ASSUME IndexRight, NEW m \in index.nodes, NEW n \in index.nodes, m.id = n.id
    PROVE  m = n
<1>1. input \in Inputs /\ index = BuiltIndex
  BY DEF IndexRight
<1>2. \A r \in ReadNodes : WithEffective(r).id = r.id /\ r.id[1] # "reference"
  BY <1>1, ReadNodesAre, EffectiveIsNode, ReadNodeKinds
<1>3. \A u \in Unresolved : u.id[1] = "reference"
  <2>1. \A t : ReferenceId(t)[1] = "reference"
    BY DEF ReferenceId
  <2> QED
    BY <2>1, UnresolvedAre
<1>4. CASE m \in Unresolved /\ n \in Unresolved
  BY <1>1, <1>4, UnresolvedIdsDiffer
<1>5. CASE ~(m \in Unresolved /\ n \in Unresolved)
  <2>1. PICK r \in ReadNodes : m = WithEffective(r)
    BY <1>1, <1>2, <1>3, <1>5, BuiltNodes
  <2>2. PICK s \in ReadNodes : n = WithEffective(s)
    BY <1>1, <1>2, <1>3, <1>5, BuiltNodes
  <2>3. r = s
    BY <1>1, <1>2, <2>1, <2>2, ReadIdsDiffer
  <2> QED
    BY <2>1, <2>2, <2>3
<1> QED
  BY <1>4, <1>5

\* What a search finds, each with a whole score.
LEMMA HitsFacts ==
    ASSUME IndexRight, NEW r
    PROVE  /\ IsFiniteSet(Hits(r))
           /\ \A h \in Hits(r) : h.id \in NodeIds /\ h.score \in Nat
           /\ \A g, h \in Hits(r) : g.id = h.id => g = h
           /\ \A n \in index.nodes, h \in Hits(r) :
                h.id = n.id => h.score = LexicalScore(n, r.word)
<1> DEFINE f == [n \in index.nodes |-> [id |-> n.id, score |-> LexicalScore(n, r.word)]]
           I == {f[n] : n \in index.nodes}
<1>1. DOMAIN f = index.nodes /\ f = [n \in index.nodes |-> f[n]]
  OBVIOUS
<1>2. \A h \in Hits(r) : \E m \in index.nodes :
        h = f[m] /\ h.id = m.id /\ h.score = LexicalScore(m, r.word)
  <2>1. ASSUME NEW h \in Hits(r)
        PROVE  \E m \in index.nodes : h = [id |-> m.id, score |-> LexicalScore(m, r.word)]
    BY DEF Hits
  <2>2. \A m \in index.nodes : f[m] = [id |-> m.id, score |-> LexicalScore(m, r.word)]
    OBVIOUS
  <2> HIDE DEF f
  <2> QED
    BY <2>1, <2>2
<1> HIDE DEF f
<1>3. IsFiniteSet(I)
  BY <1>1, NodesFinite, FiniteImage
<1>4. Hits(r) \in SUBSET I
  BY <1>2
<1> HIDE DEF I
<1>5. IsFiniteSet(Hits(r))
  BY <1>3, <1>4, FS_Subset
<1>6. \A h \in Hits(r) : h.id \in NodeIds /\ h.score \in Nat
  BY <1>2, LexicalScoreNat DEF NodeIds
<1>7. \A g, h \in Hits(r) : g.id = h.id => g = h
  BY <1>2, NodeIdsDiffer
<1>8. \A n \in index.nodes, h \in Hits(r) : h.id = n.id => h.score = LexicalScore(n, r.word)
  BY <1>2, NodeIdsDiffer
<1> QED
  BY <1>5, <1>6, <1>7, <1>8

\* A search returns some of what it finds, and all that fewer than its limit outdo.
LEMMA SearchFinds ==
    ASSUME IndexRight, NEW r, Limit(r.limit) \in 1 .. 50
    PROVE  /\ SE!ToSet(SearchGraph(r)) \subseteq Hits(r)
           /\ \A h \in Hits(r) :
                r.word # NoWord
                /\ Cardinality({o \in Hits(r) \ {h} : o.score >= h.score}) < Limit(r.limit)
                   => h \in SE!ToSet(SearchGraph(r))
<1> DEFINE H == Hits(r)
           L == Limit(r.limit)
           b == Truncated(Ranked(H), L)
<1>1. SearchGraph(r) = IF r.word = NoWord THEN <<>> ELSE b
  BY DEF SearchGraph
<1>2. IsFiniteSet(H) /\ \A h \in H : h.score \in Int
  BY HitsFacts
<1>3. L \in Nat
  OBVIOUS
<1> HIDE DEF H, L
<1>4. /\ \A i \in DOMAIN b : b[i] \in H
      /\ DOMAIN b = 1 .. Len(b) /\ \A i, j \in DOMAIN b : b[i] = b[j] => i = j
      /\ \A e \in H : \/ \E i \in DOMAIN b : b[i] = e
                      \/ Len(b) = L /\ \A i \in DOMAIN b : b[i].score >= e.score
  BY <1>2, <1>3, BestOf
<1> HIDE DEF b
<1>5. SE!ToSet(SearchGraph(r)) \subseteq H
  <2>1. CASE r.word = NoWord
    <3>1. DOMAIN SearchGraph(r) = {}
      BY <1>1, <2>1
    <3> QED
      BY <3>1 DEF SE!ToSet
  <2>2. CASE r.word # NoWord
    BY <1>1, <1>4, <2>2 DEF SE!ToSet
  <2> QED
    BY <2>1, <2>2
<1>6. ASSUME NEW h \in H, r.word # NoWord, h \notin SE!ToSet(SearchGraph(r)),
             Cardinality({o \in H \ {h} : o.score >= h.score}) < L
      PROVE  FALSE
  <2> DEFINE T == {o \in H \ {h} : o.score >= h.score}
  <2>1. \A i \in DOMAIN b : b[i] # h
    BY <1>1, <1>6 DEF SE!ToSet
  <2>2. Len(b) = L /\ \A i \in DOMAIN b : b[i] \in T
    BY <1>4, <2>1
  <2>3. T \in SUBSET H
    OBVIOUS
  <2> HIDE DEF T
  <2>4. IsFiniteSet(T)
    BY <1>2, <2>3, FS_Subset
  <2>5. [i \in 1 .. L |-> b[i]] \in Injection(1 .. L, T)
    BY <1>4, <2>2 DEF Injection, IsInjective
  <2>6. Cardinality(1 .. L) <= Cardinality(T)
    BY <2>4, <2>5, FS_Injection
  <2>7. Cardinality(1 .. L) = L
    <3>1. 1 \in Int /\ L \in Int
      BY <1>3
    <3> QED
      BY <1>3, <3>1, FS_Interval
  <2>8. Cardinality(T) \in Nat
    BY <2>4, FS_CardinalityType
  <2> QED
    BY <1>3, <1>6, <2>6, <2>7, <2>8 DEF T
<1> QED
  BY <1>5, <1>6 DEF H, L

\* A ball around a node of the index stays in the index.
LEMMA BallIn ==
    ASSUME IndexRight, NEW r, NEW s \in NodeIds, NEW k \in 0 .. 3
    PROVE  Ball(r, s)[k] \subseteq NodeIds
<1> DEFINE b == Ball(r, s)
<1>1. /\ b[0] = {s}
      /\ \A m \in 0 .. 2 : \A x :
           x \in b[m + 1] <=> x \in b[m] \/ \E n \in b[m] : x \in Neighbours(r, n)
  BY BallIs
<1> HIDE DEF b
<1>2. \A m \in 0 .. 2 : b[m] \subseteq NodeIds => b[m + 1] \subseteq NodeIds
  BY <1>1, NeighboursIn
<1>3. 0 \in 0 .. 2 /\ 1 \in 0 .. 2 /\ 2 \in 0 .. 2 /\ 0 + 1 = 1 /\ 1 + 1 = 2 /\ 2 + 1 = 3
  OBVIOUS
<1>4. b[0] \subseteq NodeIds
  BY <1>1
<1>5. b[1] \subseteq NodeIds
  BY <1>2, <1>3, <1>4
<1>6. b[2] \subseteq NodeIds
  BY <1>2, <1>3, <1>5
<1>7. b[3] \subseteq NodeIds
  BY <1>2, <1>3, <1>6
<1>8. k \in {0, 1, 2, 3}
  OBVIOUS
<1> QED
  BY <1>4, <1>5, <1>6, <1>7, <1>8 DEF b

\* Halved scores are whole.
LEMMA ScoreAtNat == \A k \in 0 .. 3 : ScoreAt(k).score \in Nat
<1>1. SUFFICES ASSUME NEW k \in 0 .. 3 PROVE 200 \div 2 ^ k \in Nat
  BY DEF ScoreAt
<1>2. 2 ^ 0 = 1 /\ 2 ^ 1 = 2 /\ 2 ^ 2 = 4 /\ 2 ^ 3 = 8
  OBVIOUS
<1>3. CASE k = 0
  BY <1>2, <1>3
<1>4. CASE k = 1
  BY <1>2, <1>4
<1>5. CASE k = 2
  BY <1>2, <1>5
<1>6. CASE k = 3
  BY <1>2, <1>6
<1> QED
  BY <1>3, <1>4, <1>5, <1>6

\* Scores are whole, and of nodes of the index.
LEMMA ScoresFinite ==
    ASSUME FlowInv, ScoreInv, IndexRight
    PROVE  DOMAIN scores \subseteq NodeIds /\ \A x \in DOMAIN scores : scores[x].score \in Nat
<1>1. Depth(ask) \in 0 .. 3
  BY DepthRange DEF FlowInv
<1>2. ExpandOK(ask, seeds, queue2, seen, scores)
  BY DEF ScoreInv
<1>3. ASSUME NEW x \in DOMAIN scores PROVE x \in NodeIds
  <2>1. IsSeq(seeds) /\ DOMAIN seeds = 1 .. Len(seeds) /\ Len(seeds) \in Nat
    BY <1>2, SeqFacts DEF ExpandOK
  <2>2. CASE x \in seen
    BY <1>2, <2>2 DEF ExpandOK
  <2>3. CASE \E i \in 1 .. Len(seeds) - 1 : x \in Ball(ask, seeds[i])[Depth(ask)]
    <3>1. PICK i \in 1 .. Len(seeds) - 1 : x \in Ball(ask, seeds[i])[Depth(ask)]
      BY <2>3
    <3>2. seeds[i] \in NodeIds
      BY <1>2, <2>1 DEF ExpandOK
    <3> QED
      BY <1>1, <3>1, <3>2, BallIn
  <2> QED
    BY <1>2, <2>2, <2>3 DEF ExpandOK
<1>4. ASSUME NEW x \in DOMAIN scores PROVE scores[x].score \in Nat
  <2>1. CASE \E i \in DOMAIN seeds : seeds[i] = x
    <3>1. scores[x] = [score |-> 200, depth |-> 0]
      BY <1>2, <2>1 DEF ExpandOK, ScoresOK
    <3> QED
      BY <3>1
  <2>2. CASE \A i \in DOMAIN seeds : seeds[i] # x
    <3>1. PICK k \in 0 .. 3 : scores[x] = ScoreAt(k)
      BY <1>2, <2>2 DEF ExpandOK, ScoresOK
    <3> QED
      BY <3>1, ScoreAtNat
  <2> QED
    BY <2>1, <2>2
<1> QED
  BY <1>3, <1>4

\* With those of the search added, scores are whole, and every node has its credit.
LEMMA ScoredFacts ==
    ASSUME FlowInv, ScoreInv, IndexRight
    PROVE  /\ IsFiniteSet(Scored(ask))
           /\ \A e \in Scored(ask) : e.score \in Int /\ e.id \in NodeIds
           /\ \A id \in NodeIds : Credit(ask, Node(id)) \in Nat
           /\ \A id \in NodeIds : Credit(ask, Node(id)) > 0 =>
                \E e \in Scored(ask) : e.id = id /\ e.score >= Credit(ask, Node(id))
<1> DEFINE hits == SE!ToSet(SearchGraph(ask))
           Base(id) == IF id \in DOMAIN scores THEN scores[id] ELSE [score |-> 0, depth |-> 0]
           Found(id) == IF \E h \in hits : h.id = id
                        THEN (CHOOSE h \in hits : h.id = id).score ELSE 0
           X == DOMAIN scores \cup {h.id : h \in hits}
           f == [id \in X |-> [id |-> id, depth |-> Base(id).depth,
                               score |-> Base(id).score + Found(id)]]
<1>1. Scored(ask) = {f[id] : id \in X} /\ DOMAIN f = X /\ f = [id \in X |-> f[id]]
  BY DEF Scored
<1>2. /\ \A h \in hits : h.id \in NodeIds /\ h.score \in Nat /\ h \in Hits(ask)
      /\ \A h \in Hits(ask) :
           ask.word # NoWord
           /\ Cardinality({o \in Hits(ask) \ {h} : o.score >= h.score}) < Limit(ask.limit)
              => h \in hits
  BY SearchFinds, HitsFacts, RequestFacts DEF FlowInv
<1>3. DOMAIN scores \subseteq NodeIds /\ \A x \in DOMAIN scores : scores[x].score \in Nat
  BY ScoresFinite
<1> HIDE DEF hits
<1>4. X \in SUBSET NodeIds
  BY <1>2, <1>3
<1>5. \A id : Found(id) \in Nat
  BY <1>2
<1>6. \A id : Base(id).score \in Nat
  BY <1>3
<1>7. /\ \A id \in DOMAIN scores : Base(id) = scores[id]
      /\ \A id : id \notin DOMAIN scores => Base(id).score = 0
  OBVIOUS
<1>13. \A h \in hits : Found(h.id) = h.score
  BY <1>2, HitsFacts
<1> HIDE DEF Base, Found
<1>8. \A id \in X : f[id].id = id /\ f[id].score = Base(id).score + Found(id)
  OBVIOUS
<1>9. DOMAIN scores \subseteq X /\ \A h \in hits : h.id \in X
  OBVIOUS
<1> HIDE DEF X, f
<1>10. IsFiniteSet(Scored(ask))
  BY <1>1, <1>4, NodesFinite, FS_Subset, FiniteImage
<1>11. ASSUME NEW e \in Scored(ask) PROVE e.score \in Int /\ e.id \in NodeIds
  <2>1. PICK id \in X : e = f[id]
    BY <1>1
  <2>2. e.id = id /\ e.score = Base(id).score + Found(id)
    BY <1>8, <2>1
  <2>3. Base(id).score \in Nat /\ Found(id) \in Nat
    BY <1>5, <1>6
  <2> QED
    BY <1>4, <2>2, <2>3
<1>12. ASSUME NEW id \in NodeIds
       PROVE  /\ Credit(ask, Node(id)) \in Nat
              /\ Credit(ask, Node(id)) > 0 =>
                   \E e \in Scored(ask) : e.id = id /\ e.score >= Credit(ask, Node(id))
  <2> DEFINE n == Node(id)
             Rivals(h) == {o \in Hits(ask) \ {h} : o.score >= h.score}
             kept == /\ ask.word # NoWord
                     /\ \E h \in {g \in Hits(ask) : g.id = n.id} :
                          Cardinality(Rivals(h)) < Limit(ask.limit)
             word == IF kept THEN LexicalScore(n, ask.word) ELSE 0
  <2>1. n \in index.nodes /\ n.id = id
    BY DEF Node, NodeIds
  <2> HIDE DEF n
  <2>2. Credit(ask, n) = (IF n.id \in DOMAIN scores THEN scores[n.id].score ELSE 0) + word
    BY DEF Credit
  <2>3. ASSUME kept
        PROVE  \E h \in hits : h.id = id /\ h.score = LexicalScore(n, ask.word)
    <3>1. PICK h \in Hits(ask) : h.id = n.id /\ Cardinality(Rivals(h)) < Limit(ask.limit)
      BY <2>3
    <3>2. h \in hits
      BY <1>2, <2>3, <3>1
    <3>3. h.score = LexicalScore(n, ask.word)
      BY <2>1, <3>1, HitsFacts
    <3> QED
      BY <2>1, <3>1, <3>2, <3>3
  <2> HIDE DEF kept
  <2>4. word \in Nat /\ word <= Found(id)
    <3>1. CASE kept
      <4>1. PICK h \in hits : h.id = id /\ h.score = LexicalScore(n, ask.word)
        BY <2>3, <3>1
      <4>2. Found(id) = word
        BY <1>13, <3>1, <4>1
      <4> QED
        BY <1>5, <4>2
    <3>2. CASE ~kept
      BY <1>5, <3>2
    <3> QED
      BY <3>1, <3>2
  <2>5. Credit(ask, n) = Base(id).score + word
    BY <1>7, <2>1, <2>2
  <2>6. Credit(ask, n) \in Nat
    BY <1>6, <2>4, <2>5
  <2>7. ASSUME Credit(ask, n) > 0 PROVE id \in X
    <3>1. CASE id \in DOMAIN scores
      BY <1>9, <3>1
    <3>2. CASE id \notin DOMAIN scores
      <4>1. word > 0
        BY <1>7, <2>4, <2>5, <2>7, <3>2
      <4>2. kept
        BY <4>1
      <4> QED
        BY <1>9, <2>3, <4>2
    <3> QED
      BY <3>1, <3>2
  <2> HIDE DEF word
  <2>8. ASSUME Credit(ask, n) > 0
        PROVE  \E e \in Scored(ask) : e.id = id /\ e.score >= Credit(ask, n)
    <3>1. f[id] \in Scored(ask) /\ f[id].id = id /\ f[id].score = Base(id).score + Found(id)
      BY <1>1, <1>8, <2>7, <2>8
    <3>2. f[id].score >= Credit(ask, n)
      BY <1>5, <1>6, <2>4, <2>5, <3>1
    <3> QED
      BY <3>1, <3>2
  <2> QED
    BY <2>6, <2>8 DEF n
<1> QED
  BY <1>10, <1>11, <1>12

\* The entries of an answer.
LEMMA EntriesFacts ==
    ASSUME FlowInv, ScoreInv, IndexRight
    PROVE  LET s == Entries(ask) IN
           /\ IsSeq(s)
           /\ \A i \in DOMAIN s : Matches(Node(s[i].id), ask) /\ s[i].id \in NodeIds
           /\ \A id \in NodeIds :
                Matches(Node(id), ask) /\ Credit(ask, Node(id)) > 0 =>
                   \/ \E i \in DOMAIN s : s[i].id = id
                   \/ Len(s) = MaxNodes(ask)
                      /\ \A i \in DOMAIN s : s[i].score >= Credit(ask, Node(id))
<1> DEFINE s == Entries(ask)
           A == Scored(ask)
           E == {e \in A : Matches(Node(e.id), ask)}
<1>1. s = Truncated(Ranked(E), MaxNodes(ask))
  BY DEF Entries
<1>2. /\ IsFiniteSet(A)
      /\ \A e \in A : e.score \in Int /\ e.id \in NodeIds
      /\ \A id \in NodeIds : Credit(ask, Node(id)) \in Nat
      /\ \A id \in NodeIds : Credit(ask, Node(id)) > 0 =>
           \E e \in A : e.id = id /\ e.score >= Credit(ask, Node(id))
  BY ScoredFacts
<1>3. MaxNodes(ask) \in Nat
  <2>1. input \in Inputs /\ ask \in Requests(input)
    BY DEF FlowInv
  <2>2. MaxNodes(ask) \in 1 .. 50
    BY <2>1, RequestFacts
  <2> QED
    BY <2>2
<1> HIDE DEF s, A
<1>4. IsFiniteSet(E)
  <2>1. E \in SUBSET A
    OBVIOUS
  <2> HIDE DEF E
  <2> QED
    BY <1>2, <2>1, FS_Subset
<1>5. \A e \in E : e \in A /\ e.score \in Int /\ Matches(Node(e.id), ask)
  BY <1>2
<1>6. \A e \in A : Matches(Node(e.id), ask) => e \in E
  OBVIOUS
<1> HIDE DEF E
<1>7. /\ IsSeq(s) /\ Len(s) <= MaxNodes(ask)
      /\ \A i \in DOMAIN s : s[i] \in E
      /\ \A e \in E : \/ \E i \in DOMAIN s : s[i] = e
                      \/ Len(s) = MaxNodes(ask) /\ \A i \in DOMAIN s : s[i].score >= e.score
  BY <1>1, <1>3, <1>4, <1>5, BestOf
<1>8. \A i \in DOMAIN s : Matches(Node(s[i].id), ask) /\ s[i].id \in NodeIds
  BY <1>2, <1>5, <1>7
<1>9. ASSUME NEW id \in NodeIds, Matches(Node(id), ask), Credit(ask, Node(id)) > 0,
             \A i \in DOMAIN s : s[i].id # id
      PROVE  Len(s) = MaxNodes(ask) /\ \A i \in DOMAIN s : s[i].score >= Credit(ask, Node(id))
  <2>1. PICK e \in A : e.id = id /\ e.score >= Credit(ask, Node(id))
    BY <1>2, <1>9
  <2>2. e \in E /\ \A i \in DOMAIN s : s[i] # e
    BY <1>6, <1>9, <2>1
  <2>3. Len(s) = MaxNodes(ask) /\ \A i \in DOMAIN s : s[i].score >= e.score
    BY <1>7, <2>2
  <2>4. Credit(ask, Node(id)) \in Int /\ e.score \in Int
    BY <1>2
  <2>5. \A i \in DOMAIN s : s[i].score \in Int
    BY <1>5, <1>7
  <2> QED
    BY <2>1, <2>3, <2>4, <2>5
<1> QED
  BY <1>7, <1>8, <1>9 DEF s

\* A credit depends on the index, the request and the scores alone.
LEMMA SameCredit ==
    ASSUME index' = index, ask' = ask, scores' = scores
    PROVE  \A id : Credit(ask, Node(id))' = Credit(ask, Node(id))
<1>1. \A id : Node(id)' = Node(id)
  BY DEF Node
<1>2. Hits(ask)' = Hits(ask)
  BY DEF Hits
<1> QED
  BY <1>1, <1>2 DEF Credit

\* The answer is the best there is in scope when it is given.
LEMMA FinishedAnswer ==
    ASSUME FlowInv, ScoreInv, FinishQuery
    PROVE  AnswerIsBestInScope'
<1> DEFINE s == Entries(ask)
           ids == {s[i].id : i \in DOMAIN s}
<1>1. /\ answer'.entries = s /\ answer'.edges = EdgesAmong(ask, ids)
      /\ index' = index /\ ask' = ask /\ scores' = scores
  BY DEF FinishQuery, Answer
<1>2. \A id : Node(id)' = Node(id)
  BY <1>1 DEF Node
<1>3. IndexRight
  BY DEF FlowInv, FinishQuery, AfterBuild
<1>4. /\ \A i \in DOMAIN s : Matches(Node(s[i].id), ask)
      /\ \A id \in NodeIds :
           Matches(Node(id), ask) /\ Credit(ask, Node(id)) > 0 =>
              \/ \E i \in DOMAIN s : s[i].id = id
              \/ Len(s) = MaxNodes(ask)
                 /\ \A i \in DOMAIN s : s[i].score >= Credit(ask, Node(id))
  BY <1>3, EntriesFacts
<1>5. \A e \in answer'.edges : {e.source, e.target} \subseteq ids
  BY <1>1 DEF EdgesAmong
<1> HIDE DEF s
<1>6. \A id \in ids : Matches(Node(id)', ask')
  BY <1>1, <1>2, <1>4
<1>7. \A id \in NodeIds' \ ids :
        Matches(Node(id)', ask') /\ Credit(ask, Node(id))' > 0 =>
           /\ Len(answer'.entries) = MaxNodes(ask')
           /\ \A i \in DOMAIN answer'.entries : answer'.entries[i].score >= Credit(ask, Node(id))'
  <2>1. NodeIds' = NodeIds
    BY <1>1 DEF NodeIds
  <2>2. \A id : Credit(ask, Node(id))' = Credit(ask, Node(id))
    BY <1>1, SameCredit
  <2> QED
    BY <1>1, <1>2, <1>4, <2>1, <2>2
<1>8. ids = {answer'.entries[i].id : i \in DOMAIN answer'.entries}
  BY <1>1
<1> QED
  BY <1>5, <1>6, <1>7, <1>8 DEF AnswerIsBestInScope

-----------------------------------------------------------------------------
(* Texts.                                                                    *)

\* A finite set of words, each with its length.
IsText(text) == IsFiniteSet(text) /\ text \subseteq DOMAIN Bytes

\* The words of a document, from one position to another, are a text.
LEMMA TextsAreTexts ==
    ASSUME input \in Inputs, NEW d \in Documents, NEW i, NEW j
    PROVE  IsText(TextOf(d, i, j))
<1> DEFINE D == DOMAIN d.headings
           f == [k \in D |-> d.headings[k].words]
           all == {f[k] : k \in D}
<1>1. WellFormed(d)
  BY DocumentFacts
<1>2. d.words \subseteq DOMAIN Bytes /\ \A k \in D : d.headings[k].words \subseteq DOMAIN Bytes
  BY QueryRequests DEF Documents
<1>3. IsFiniteSet(d.words) /\ \A k \in D : IsFiniteSet(f[k])
  BY <1>1 DEF WellFormed
<1>4. IsFiniteSet(D)
  BY <1>1, IndicesFinite DEF WellFormed
<1>5. DOMAIN f = D /\ f = [k \in D |-> f[k]]
  OBVIOUS
<1>6. TextOf(d, i, j) \subseteq d.words \cup UNION all
  BY DEF TextOf
<1>7. TextOf(d, i, j) \subseteq DOMAIN Bytes
  BY <1>2 DEF TextOf
<1>8. IsFiniteSet(UNION all)
  <2>1. \A p \in all : IsFiniteSet(p)
    BY <1>3
  <2> HIDE DEF f
  <2>2. IsFiniteSet(all)
    BY <1>4, <1>5, FiniteImage
  <2> HIDE DEF all
  <2> QED
    BY <2>1, <2>2, FS_UNION
<1> HIDE DEF all
<1>9. IsFiniteSet(d.words \cup UNION all)
  BY <1>3, <1>8, FS_Union
<1>10. TextOf(d, i, j) \in SUBSET (d.words \cup UNION all)
  BY <1>6
<1>11. IsFiniteSet(TextOf(d, i, j))
  BY <1>9, <1>10, FS_Subset
<1> QED
  BY <1>7, <1>11 DEF IsText

\* The empty text.
LEMMA NoTextIsText == IsText({})
BY FS_EmptySet DEF IsText

\* A node's text is one.
LEMMA NodesHaveTexts ==
    ASSUME IndexRight, NEW n \in index.nodes
    PROVE  IsText(n.text)
<1>2. CASE n \in Unresolved
  <2>1. n.text = {}
    BY <1>2, UnresolvedAre
  <2> QED
    BY <2>1, NoTextIsText
<1>3. CASE n \notin Unresolved
  <2>1. PICK m \in ReadNodes : n = WithEffective(m)
    BY <1>3, BuiltNodes DEF IndexRight
  <2>2. n.text = m.text
    BY <2>1, ReadNodesAre, EffectiveIsNode
  <2>3. IsText(m.text)
    <3>1. CASE IsEntity(m)
      BY <3>1, NoTextIsText DEF IsEntity
    <3>2. CASE \E d \in Documents : m = FileNode(d)
      BY <3>2, FileIsNode, TextsAreTexts DEF IndexRight
    <3>3. CASE \E d \in Documents : \E i \in DOMAIN Sections(d) :
                 m = SectionNode(d, Sections(d)[i].id, Sections(d)[i].range)
      <4>1. PICK d \in Documents : \E i \in DOMAIN Sections(d) :
                   m = SectionNode(d, Sections(d)[i].id, Sections(d)[i].range)
        BY <3>3
      <4>2. PICK i \in DOMAIN Sections(d) :
                   m = SectionNode(d, Sections(d)[i].id, Sections(d)[i].range)
        BY <4>1
      <4> DEFINE a == Sections(d)[i].range
      <4>3. m = SectionNode(d, Sections(d)[i].id, a)
        BY <4>2
      <4> HIDE DEF a
      <4>4. m.text = TextOf(d, a[1], a[2])
        BY <4>3, SectionIsNode
      <4> QED
        BY <4>4, TextsAreTexts DEF IndexRight
    <3> QED
      BY <3>1, <3>2, <3>3, ReadNodesAre
  <2> QED
    BY <2>2, <2>3
<1> QED
  BY <1>2, <1>3

\* The same for the node of an id.
LEMMA NodeTexts ==
    ASSUME IndexRight, NEW id \in NodeIds
    PROVE  IsText(Node(id).text)
<1>1. Node(id) \in index.nodes
  BY DEF Node, NodeIds
<1> QED
  BY <1>1, NodesHaveTexts

\* The recursive function in TextBytes is one.
LEMMA BytesAreDefined ==
    ASSUME NEW s, NEW N \in Nat
    PROVE  \E f : f = [n \in 0 .. N |-> IF n = 0 THEN 0 ELSE f[n - 1] + Bytes[s[n]]]
<1> DEFINE Next1(n, v) == v + Bytes[s[n]]
           P == {m \in Nat : \E f : f = [n \in 0 .. m |-> IF n = 0 THEN 0 ELSE Next1(n, f[n - 1])]}
<1> HIDE DEF Next1
<1>1. 0 \in P
  <2> DEFINE f == [n \in 0 .. 0 |-> 0]
  <2>1. f = [n \in 0 .. 0 |-> IF n = 0 THEN 0 ELSE Next1(n, f[n - 1])]
    <3>1. \A n \in 0 .. 0 : n = 0
      OBVIOUS
    <3> QED
      BY <3>1
  <2> HIDE DEF f
  <2> QED
    BY <2>1
<1>2. ASSUME NEW m \in Nat, m \in P PROVE m + 1 \in P
  <2>1. PICK f : f = [n \in 0 .. m |-> IF n = 0 THEN 0 ELSE Next1(n, f[n - 1])]
    BY <1>2
  <2> DEFINE g == [n \in 0 .. m + 1 |-> IF n <= m THEN f[n] ELSE Next1(m + 1, f[m])]
  <2>2. \A n \in 0 .. m + 1 : g[n] = IF n = 0 THEN 0 ELSE Next1(n, g[n - 1])
    <3>1. ASSUME NEW n \in 0 .. m + 1 PROVE g[n] = IF n = 0 THEN 0 ELSE Next1(n, g[n - 1])
      <4>1. CASE n = 0
        <5>1. f[0] = 0
          BY <2>1
        <5> QED
          BY <4>1, <5>1
      <4>2. CASE n # 0 /\ n <= m
        <5>1. f[n] = Next1(n, f[n - 1])
          BY <2>1, <4>2
        <5>2. g[n] = f[n] /\ g[n - 1] = f[n - 1]
          BY <4>2
        <5> QED
          BY <4>2, <5>1, <5>2
      <4>3. CASE n = m + 1
        <5>1. g[n] = Next1(m + 1, f[m]) /\ g[n - 1] = f[m] /\ n # 0
          BY <4>3
        <5> QED
          BY <4>3, <5>1
      <4> QED
        BY <4>1, <4>2, <4>3
    <3> QED
      BY <3>1
  <2>3. g = [n \in 0 .. m + 1 |-> IF n = 0 THEN 0 ELSE Next1(n, g[n - 1])]
    <3>1. g = [n \in 0 .. m + 1 |-> g[n]]
      OBVIOUS
    <3> HIDE DEF g
    <3> QED
      BY <2>2, <3>1
  <2> HIDE DEF g
  <2> QED
    BY <2>3
<1> HIDE DEF P
<1>3. N \in P
  BY <1>1, <1>2, SetInduction
<1> QED
  BY <1>3 DEF P, Next1

\* The length of a text is whole.
LEMMA TextBytesNat ==
    ASSUME NEW text, IsText(text)
    PROVE  TextBytes(text) \in Nat
<1> DEFINE s == AsSeq(text)
           N == Len(s)
           f == CHOOSE f : f = [n \in 0 .. N |-> IF n = 0 THEN 0 ELSE f[n - 1] + Bytes[s[n]]]
           P == {n \in Nat : n <= N => f[n] \in Nat}
<1>1. s \in Seq(text)
  BY AsSeqLists DEF IsText
<1>2. TextBytes(text) = f[N]
  BY DEF TextBytes
<1> HIDE DEF s
<1>3. N \in Nat /\ DOMAIN s = 1 .. N /\ \A n \in 1 .. N : s[n] \in text
  BY <1>1, LenProperties
<1> HIDE DEF N
<1>4. f = [n \in 0 .. N |-> IF n = 0 THEN 0 ELSE f[n - 1] + Bytes[s[n]]]
  BY <1>3, BytesAreDefined
<1> HIDE DEF f
<1>5. \A n \in 1 .. N : Bytes[s[n]] \in Nat
  BY <1>3, QueryRequests DEF IsText
<1>6. 0 \in P
  BY <1>3, <1>4
<1>7. ASSUME NEW n \in Nat, n \in P PROVE n + 1 \in P
  <2>1. SUFFICES ASSUME n + 1 <= N PROVE f[n + 1] \in Nat
    OBVIOUS
  <2>2. n + 1 \in 0 .. N /\ n + 1 \in 1 .. N /\ n + 1 # 0 /\ (n + 1) - 1 = n
    BY <1>3, <2>1
  <2>3. f[n] \in Nat
    BY <1>3, <1>7, <2>1
  <2>4. f[n + 1] = f[n] + Bytes[s[n + 1]]
    BY <1>4, <2>2
  <2> QED
    BY <1>5, <2>2, <2>3, <2>4
<1> HIDE DEF P
<1>8. N \in P
  BY <1>3, <1>6, <1>7, SetInduction
<1> QED
  BY <1>2, <1>3, <1>8 DEF P

-----------------------------------------------------------------------------
(* The context pack.                                                         *)

\* The usable ones of the first n entries.
UsableUpTo(r, s, n) == {j \in Usable(r, s) : j <= n}

\* What a pack holds after n entries: it lacks one only if a limit is reached.
PackOK(r, s, n, acc) ==
    LET number == Cardinality(UsableUpTo(r, s, n)) IN
    /\ acc.total \in 0 .. MaxTokens(r)
    /\ IsSeq(acc.nodes) /\ Len(acc.nodes) <= MaxPacked(r) /\ Len(acc.nodes) <= number
    /\ \/ Len(acc.nodes) = number
       \/ acc.total = MaxTokens(r)
       \/ Len(acc.nodes) = MaxPacked(r)
    /\ \A i \in UsableUpTo(r, s, n) :
         LET place == Cardinality(UsableUpTo(r, s, i)) IN
         place <= Len(acc.nodes) => acc.nodes[place].id = s[i].id

\* Usable entries are counted one by one.
LEMMA UsableFacts ==
    ASSUME NEW r, NEW s, IsSeq(s)
    PROVE  /\ \A n \in Nat : /\ IsFiniteSet(UsableUpTo(r, s, n))
                             /\ Cardinality(UsableUpTo(r, s, n)) \in Nat
           /\ \A n \in Nat : \A m \in Nat : m <= n =>
                Cardinality(UsableUpTo(r, s, m)) <= Cardinality(UsableUpTo(r, s, n))
           /\ \A n \in Nat :
                /\ n + 1 \notin Usable(r, s) => UsableUpTo(r, s, n + 1) = UsableUpTo(r, s, n)
                /\ n + 1 \in Usable(r, s) =>
                     /\ UsableUpTo(r, s, n + 1) = UsableUpTo(r, s, n) \cup {n + 1}
                     /\ Cardinality(UsableUpTo(r, s, n + 1)) = Cardinality(UsableUpTo(r, s, n)) + 1
           /\ UsableUpTo(r, s, 0) = {}
           /\ UsableUpTo(r, s, Len(s)) = Usable(r, s)
           /\ Usable(r, s) \subseteq 1 .. Len(s)
<1>1. DOMAIN s = 1 .. Len(s) /\ Len(s) \in Nat /\ IsFiniteSet(DOMAIN s)
  BY SeqFacts, IndicesFinite
<1>2. Usable(r, s) \subseteq 1 .. Len(s)
  BY <1>1 DEF Usable
<1>3. ASSUME NEW n \in Nat
      PROVE  IsFiniteSet(UsableUpTo(r, s, n)) /\ Cardinality(UsableUpTo(r, s, n)) \in Nat
  <2>1. UsableUpTo(r, s, n) \in SUBSET (DOMAIN s)
    BY <1>1, <1>2 DEF UsableUpTo
  <2> QED
    BY <1>1, <2>1, FS_Subset, FS_CardinalityType
<1>4. ASSUME NEW n \in Nat, NEW m \in Nat, m <= n
      PROVE  Cardinality(UsableUpTo(r, s, m)) <= Cardinality(UsableUpTo(r, s, n))
  <2>1. UsableUpTo(r, s, m) \in SUBSET UsableUpTo(r, s, n)
    BY <1>1, <1>2, <1>4 DEF UsableUpTo
  <2> QED
    BY <1>3, <2>1, FS_Subset
<1>5. ASSUME NEW n \in Nat, n + 1 \notin Usable(r, s)
      PROVE  UsableUpTo(r, s, n + 1) = UsableUpTo(r, s, n)
  BY <1>1, <1>2, <1>5 DEF UsableUpTo
<1>6. ASSUME NEW n \in Nat, n + 1 \in Usable(r, s)
      PROVE  /\ UsableUpTo(r, s, n + 1) = UsableUpTo(r, s, n) \cup {n + 1}
             /\ Cardinality(UsableUpTo(r, s, n + 1)) = Cardinality(UsableUpTo(r, s, n)) + 1
  <2>1. UsableUpTo(r, s, n + 1) = UsableUpTo(r, s, n) \cup {n + 1}
    BY <1>1, <1>2, <1>6 DEF UsableUpTo
  <2>2. n + 1 \notin UsableUpTo(r, s, n)
    BY DEF UsableUpTo
  <2> QED
    BY <1>3, <2>1, <2>2, FS_AddElement
<1>7. UsableUpTo(r, s, 0) = {}
  BY <1>2 DEF UsableUpTo
<1>8. UsableUpTo(r, s, Len(s)) = Usable(r, s)
  BY <1>1, <1>2 DEF UsableUpTo
<1> QED
  BY <1>2, <1>3, <1>4, <1>5, <1>6, <1>7, <1>8

\* A usable entry is counted.
LEMMA UsableNext ==
    ASSUME NEW r, NEW s, IsSeq(s), NEW n \in Nat, n + 1 \in Usable(r, s)
    PROVE  /\ UsableUpTo(r, s, n + 1) = UsableUpTo(r, s, n) \cup {n + 1}
           /\ Cardinality(UsableUpTo(r, s, n + 1)) = Cardinality(UsableUpTo(r, s, n)) + 1
BY UsableFacts

\* An estimate is no more than what remains of the budget.
LEMMA EstimateRange ==
    ASSUME NEW n, IsText(n.text), NEW remaining \in Nat
    PROVE  TokenEstimate(n, remaining) \in 0 .. remaining
<1>1. TextBytes(n.text) \in Nat
  BY TextBytesNat
<1>2. (TextBytes(n.text) + 3) \div 4 \in Nat
  BY <1>1
<1> QED
  BY <1>2 DEF TokenEstimate

\* One entry keeps PackOK.
LEMMA AddKeepsPack ==
    ASSUME NEW r, MaxTokens(r) \in Nat, MaxPacked(r) \in 1 .. 50,
           NEW s, IsSeq(s), \A i \in DOMAIN s : IsText(Node(s[i].id).text),
           NEW n \in Nat, n + 1 <= Len(s), NEW acc, PackOK(r, s, n, acc)
    PROVE  PackOK(r, s, n + 1, AddToPack(r, s[n + 1], acc))
<1> DEFINE node == Node(s[n + 1].id)
           remaining == MaxTokens(r) - acc.total
           estimate == TokenEstimate(node, remaining)
           new == AddToPack(r, s[n + 1], acc)
           L == Len(acc.nodes)
           C == Cardinality(UsableUpTo(r, s, n))
           Full == L >= MaxPacked(r) \/ remaining = 0
           B == MaxTokens(r)
           M == MaxPacked(r)
<1>1. n + 1 \in DOMAIN s
  BY SeqFacts
<1>2. n + 1 \in Usable(r, s) <=> IncludedByMode(node, r.mode) /\ node.text # {}
  BY <1>1 DEF Usable
<1>3. /\ acc.total \in 0 .. B /\ IsSeq(acc.nodes) /\ L <= M /\ L <= C
      /\ L = C \/ acc.total = B \/ L = M
      /\ \A i \in UsableUpTo(r, s, n) :
           Cardinality(UsableUpTo(r, s, i)) <= L =>
              acc.nodes[Cardinality(UsableUpTo(r, s, i))].id = s[i].id
  BY DEF PackOK
<1>4. L \in Nat /\ C \in Nat /\ B \in Nat /\ M \in 1 .. 50
  BY <1>3, SeqFacts, UsableFacts
<1>5. remaining \in Nat /\ remaining = B - acc.total
  BY <1>3, <1>4
<1>6. estimate \in 0 .. remaining
  BY <1>1, <1>5, EstimateRange
<1>7. new = IF Full \/ n + 1 \notin Usable(r, s) THEN acc
            ELSE [total |-> acc.total + estimate,
                  nodes |-> Append(acc.nodes, [id |-> s[n + 1].id, tokens |-> estimate])]
  BY <1>2 DEF AddToPack
<1>11. n + 1 \in Usable(r, s) =>
          /\ UsableUpTo(r, s, n + 1) = UsableUpTo(r, s, n) \cup {n + 1}
          /\ Cardinality(UsableUpTo(r, s, n + 1)) = C + 1
  BY UsableNext
<1>13. /\ acc.total \in 0 .. B /\ L <= M
       /\ L = C \/ acc.total = B \/ L = M
  BY <1>3
<1>12. Full <=> L >= M \/ B - acc.total = 0
  OBVIOUS
<1> HIDE DEF node, estimate, new, remaining, L, C, B, M, Full
<1>8. CASE n + 1 \notin Usable(r, s)
  <2>1. new = acc /\ UsableUpTo(r, s, n + 1) = UsableUpTo(r, s, n)
    BY <1>7, <1>8, UsableFacts
  <2>2. PackOK(r, s, n + 1, new)
    BY <2>1 DEF PackOK
  <2> QED
    BY <2>2 DEF new
<1>9. CASE n + 1 \in Usable(r, s) /\ Full
  <2>1. /\ new = acc
        /\ UsableUpTo(r, s, n + 1) = UsableUpTo(r, s, n) \cup {n + 1}
        /\ Cardinality(UsableUpTo(r, s, n + 1)) = C + 1
    BY <1>7, <1>9, <1>11
  <2>2. L = M \/ acc.total = B
    BY <1>4, <1>9, <1>12, <1>13
  <2>3. ~(C + 1 <= L)
    BY <1>3, <1>4
  <2>4. L <= C + 1
    BY <1>3, <1>4
  <2>5. \A i \in UsableUpTo(r, s, n + 1) :
           Cardinality(UsableUpTo(r, s, i)) <= L =>
              acc.nodes[Cardinality(UsableUpTo(r, s, i))].id = s[i].id
    BY <1>3, <2>1, <2>3
  <2>6. PackOK(r, s, n + 1, new)
    BY <1>3, <2>1, <2>2, <2>4, <2>5 DEF PackOK, L, C, B, M
  <2> QED
    BY <2>6 DEF new
<1>10. CASE n + 1 \in Usable(r, s) /\ ~Full
  <2> DEFINE e == [id |-> s[n + 1].id, tokens |-> estimate]
             t == Append(acc.nodes, e)
  <2>1. /\ new.total = acc.total + estimate /\ new.nodes = t
        /\ UsableUpTo(r, s, n + 1) = UsableUpTo(r, s, n) \cup {n + 1}
        /\ Cardinality(UsableUpTo(r, s, n + 1)) = C + 1
    BY <1>7, <1>10, <1>11 DEF t, e
  <2>2. L = C /\ L < M
    BY <1>4, <1>10, <1>12, <1>13
  <2>3. e.id = s[n + 1].id
    OBVIOUS
  <2> HIDE DEF e
  <2>4. /\ IsSeq(t) /\ Len(t) = L + 1
        /\ \A i \in 1 .. L : t[i] = acc.nodes[i]
        /\ t[L + 1] = e
    BY <1>3, AppendAny DEF L, t
  <2> HIDE DEF t
  <2>5. new.total \in 0 .. B
    BY <1>3, <1>4, <1>5, <1>6, <2>1
  <2>6. ASSUME NEW i \in UsableUpTo(r, s, n + 1)
        PROVE  Cardinality(UsableUpTo(r, s, i)) <= L + 1 =>
                  t[Cardinality(UsableUpTo(r, s, i))].id = s[i].id
    <3>1. CASE i = n + 1
      BY <2>1, <2>2, <2>3, <2>4, <3>1
    <3>2. CASE i \in UsableUpTo(r, s, n)
      <4> DEFINE p == Cardinality(UsableUpTo(r, s, i))
      <4>1. i \in Nat /\ i <= n /\ i \in Usable(r, s) /\ i - 1 \in Nat
        BY <3>2, UsableFacts DEF UsableUpTo
      <4>2. p <= L /\ p \in Nat
        BY <2>2, <4>1, UsableFacts DEF C
      <4>3. p >= 1
        <5>1. p = Cardinality(UsableUpTo(r, s, i - 1)) + 1 /\ Cardinality(UsableUpTo(r, s, i - 1)) \in Nat
          <6>1. (i - 1) + 1 = i
            BY <4>1
          <6>2. (i - 1) + 1 \in Usable(r, s)
            BY <4>1, <6>1
          <6>3. Cardinality(UsableUpTo(r, s, (i - 1) + 1)) = Cardinality(UsableUpTo(r, s, i - 1)) + 1
            BY <4>1, <6>2, UsableFacts
          <6> QED
            BY <4>1, <6>1, <6>3, UsableFacts
        <5> HIDE DEF p
        <5> QED
          BY <5>1
      <4>4. acc.nodes[p].id = s[i].id
        BY <1>3, <3>2, <4>2
      <4> HIDE DEF p
      <4>5. t[p].id = s[i].id
        BY <1>4, <2>4, <4>2, <4>3, <4>4
      <4> QED
        BY <4>5 DEF p
    <3> QED
      BY <2>1, <3>1, <3>2
  <2>7. L + 1 <= M /\ L + 1 = C + 1
    BY <1>4, <2>2
  <2>8. PackOK(r, s, n + 1, new)
    BY <2>1, <2>4, <2>5, <2>6, <2>7 DEF PackOK, L, C, B, M
  <2> QED
    BY <2>8 DEF new
<1> QED
  BY <1>8, <1>9, <1>10

\* The recursive function in BuildContextPack is one.
LEMMA PackIsDefined ==
    ASSUME NEW r, NEW s, NEW N \in Nat
    PROVE  \E f : f = [n \in 0 .. N |-> IF n = 0 THEN NoPack ELSE AddToPack(r, s[n], f[n - 1])]
<1> DEFINE Next1(n, v) == AddToPack(r, s[n], v)
           P == {m \in Nat :
                   \E f : f = [n \in 0 .. m |-> IF n = 0 THEN NoPack ELSE Next1(n, f[n - 1])]}
<1> HIDE DEF Next1
<1>1. 0 \in P
  <2> DEFINE f == [n \in 0 .. 0 |-> NoPack]
  <2>1. f = [n \in 0 .. 0 |-> IF n = 0 THEN NoPack ELSE Next1(n, f[n - 1])]
    <3>1. \A n \in 0 .. 0 : n = 0
      OBVIOUS
    <3> QED
      BY <3>1
  <2> HIDE DEF f
  <2> QED
    BY <2>1
<1>2. ASSUME NEW m \in Nat, m \in P PROVE m + 1 \in P
  <2>1. PICK f : f = [n \in 0 .. m |-> IF n = 0 THEN NoPack ELSE Next1(n, f[n - 1])]
    BY <1>2
  <2> DEFINE g == [n \in 0 .. m + 1 |-> IF n <= m THEN f[n] ELSE Next1(m + 1, f[m])]
  <2>2. \A n \in 0 .. m + 1 : g[n] = IF n = 0 THEN NoPack ELSE Next1(n, g[n - 1])
    <3>1. ASSUME NEW n \in 0 .. m + 1
          PROVE  g[n] = IF n = 0 THEN NoPack ELSE Next1(n, g[n - 1])
      <4>1. CASE n = 0
        <5>1. f[0] = NoPack
          BY <2>1
        <5> QED
          BY <4>1, <5>1
      <4>2. CASE n # 0 /\ n <= m
        <5>1. f[n] = Next1(n, f[n - 1])
          BY <2>1, <4>2
        <5>2. g[n] = f[n] /\ g[n - 1] = f[n - 1]
          BY <4>2
        <5> QED
          BY <4>2, <5>1, <5>2
      <4>3. CASE n = m + 1
        <5>1. g[n] = Next1(m + 1, f[m]) /\ g[n - 1] = f[m] /\ n # 0
          BY <4>3
        <5> QED
          BY <4>3, <5>1
      <4> QED
        BY <4>1, <4>2, <4>3
    <3> QED
      BY <3>1
  <2>3. g = [n \in 0 .. m + 1 |-> IF n = 0 THEN NoPack ELSE Next1(n, g[n - 1])]
    <3>1. g = [n \in 0 .. m + 1 |-> g[n]]
      OBVIOUS
    <3> HIDE DEF g
    <3> QED
      BY <2>2, <3>1
  <2> HIDE DEF g
  <2> QED
    BY <2>3
<1> HIDE DEF P
<1>3. N \in P
  BY <1>1, <1>2, SetInduction
<1> QED
  BY <1>3 DEF P, Next1

\* The loop over the entries keeps PackOK.
LEMMA PackOfEntries ==
    ASSUME NEW r, MaxTokens(r) \in Nat, MaxPacked(r) \in 1 .. 50,
           NEW s, IsSeq(s), \A i \in DOMAIN s : IsText(Node(s[i].id).text)
    PROVE  PackOK(r, s, Len(s), BuildContextPack(r, s))
<1> DEFINE N == Len(s)
           f == CHOOSE f : f = [n \in 0 .. N |-> IF n = 0 THEN NoPack
                                                 ELSE AddToPack(r, s[n], f[n - 1])]
           P == {n \in Nat : n <= N => PackOK(r, s, n, f[n])}
<1>1. N \in Nat
  BY SeqFacts
<1>2. BuildContextPack(r, s) = f[N]
  BY DEF BuildContextPack
<1>3. f = [n \in 0 .. N |-> IF n = 0 THEN NoPack ELSE AddToPack(r, s[n], f[n - 1])]
  BY <1>1, PackIsDefined
<1> HIDE DEF f
<1>4. 0 \in P
  <2>1. f[0] = NoPack
    BY <1>1, <1>3
  <2>2. NoPack.total = 0 /\ Len(NoPack.nodes) = 0 /\ IsSeq(NoPack.nodes)
    BY EmptyIsSeq DEF NoPack
  <2>3. UsableUpTo(r, s, 0) = {} /\ Cardinality(UsableUpTo(r, s, 0)) = 0
    BY UsableFacts, FS_EmptySet
  <2>4. PackOK(r, s, 0, NoPack)
    <3> DEFINE acc == NoPack
               U(n) == UsableUpTo(r, s, n)
    <3>1. /\ acc.total \in 0 .. MaxTokens(r) /\ IsSeq(acc.nodes)
          /\ Len(acc.nodes) <= MaxPacked(r) /\ Len(acc.nodes) = Cardinality(U(0))
          /\ Len(acc.nodes) <= Cardinality(U(0))
      <4>1. acc.total = 0 /\ Len(acc.nodes) = 0 /\ IsSeq(acc.nodes) /\ Cardinality(U(0)) = 0
        BY <2>2, <2>3
      <4>2. 0 \in 0 .. MaxTokens(r) /\ 0 <= MaxPacked(r)
        OBVIOUS
      <4> HIDE DEF acc, U
      <4> QED
        BY <4>1, <4>2
    <3>2. \A i \in U(0) : acc.nodes[Cardinality(U(i))].id = s[i].id
      BY <2>3
    <3> HIDE DEF acc, U
    <3>3. /\ acc.total \in 0 .. MaxTokens(r)
          /\ IsSeq(acc.nodes) /\ Len(acc.nodes) <= MaxPacked(r)
          /\ Len(acc.nodes) <= Cardinality(U(0))
          /\ \/ Len(acc.nodes) = Cardinality(U(0))
             \/ acc.total = MaxTokens(r)
             \/ Len(acc.nodes) = MaxPacked(r)
          /\ \A i \in U(0) : Cardinality(U(i)) <= Len(acc.nodes) =>
                acc.nodes[Cardinality(U(i))].id = s[i].id
      BY <3>1, <3>2
    <3> QED
      BY <3>3 DEF PackOK, acc, U
  <2> QED
    BY <2>1, <2>4
<1>5. ASSUME NEW n \in Nat, n \in P PROVE n + 1 \in P
  <2>1. SUFFICES ASSUME n + 1 <= N PROVE PackOK(r, s, n + 1, f[n + 1])
    OBVIOUS
  <2>2. n + 1 \in 0 .. N /\ n + 1 # 0 /\ (n + 1) - 1 = n /\ n <= N
    BY <1>1, <2>1
  <2>3. PackOK(r, s, n, f[n])
    BY <1>5, <2>2
  <2>4. f[n + 1] = AddToPack(r, s[n + 1], f[n])
    BY <1>3, <2>2
  <2>5. PackOK(r, s, n + 1, AddToPack(r, s[n + 1], f[n]))
    BY <2>1, <2>3, AddKeepsPack
  <2> QED
    BY <2>4, <2>5
<1> HIDE DEF P
<1>6. N \in P
  BY <1>1, <1>4, <1>5, SetInduction
<1>7. PackOK(r, s, N, f[N])
  BY <1>1, <1>6 DEF P
<1> QED
  BY <1>2, <1>7

\* The pack is within its budget when it is made.
LEMMA FinishedPack ==
    ASSUME FlowInv, ScoreInv, FinishQuery
    PROVE  PackWithinBudget'
<1> DEFINE s == Entries(ask)
           p == BuildContextPack(ask, s)
           usable == Usable(ask, s)
           Place(i) == Cardinality({j \in usable : j <= i})
<1>1. answer'.entries = s /\ pack' = p /\ index' = index /\ ask' = ask
  BY DEF FinishQuery, Answer
<1>2. \A id : Node(id)' = Node(id)
  BY <1>1 DEF Node
<1>3. IndexRight /\ input \in Inputs /\ ask \in Requests(input)
  BY DEF FlowInv, FinishQuery, AfterBuild
<1>4. IsSeq(s) /\ \A i \in DOMAIN s : s[i].id \in NodeIds
  BY <1>3, EntriesFacts
<1>5. \A i \in DOMAIN s : IsText(Node(s[i].id).text)
  BY <1>3, <1>4, NodeTexts
<1>6. MaxTokens(ask) \in Nat /\ MaxPacked(ask) \in 1 .. 50
  BY <1>3, RequestFacts
<1> HIDE DEF s
<1>7. PackOK(ask, s, Len(s), p)
  BY <1>4, <1>5, <1>6, PackOfEntries
<1>8. \A i : {j \in usable : j <= i} = UsableUpTo(ask, s, i)
  BY DEF UsableUpTo
<1> HIDE DEF usable, p
<1>9. UsableUpTo(ask, s, Len(s)) = usable /\ usable \subseteq 1 .. Len(s) /\ Len(s) \in Nat
  BY <1>4, <1>8, UsableFacts, SeqFacts DEF usable
<1>10. \A i : Place(i) = Cardinality(UsableUpTo(ask, s, i))
  BY <1>8
<1> HIDE DEF Place
<1>11. /\ p.total \in 0 .. MaxTokens(ask)
       /\ IsSeq(p.nodes) /\ Len(p.nodes) <= MaxPacked(ask) /\ Len(p.nodes) <= Cardinality(usable)
       /\ \/ Len(p.nodes) = Cardinality(usable)
          \/ p.total = MaxTokens(ask)
          \/ Len(p.nodes) = MaxPacked(ask)
       /\ \A i \in usable : Place(i) <= Len(p.nodes) => p.nodes[Place(i)].id = s[i].id
  BY <1>7, <1>9, <1>10 DEF PackOK
<1>12. \A i \in usable : Place(i) <= Cardinality(usable)
  <2>1. SUFFICES ASSUME NEW i \in usable PROVE Place(i) <= Cardinality(usable)
    OBVIOUS
  <2>2. i \in Nat /\ i <= Len(s)
    BY <1>9
  <2>3. Cardinality(UsableUpTo(ask, s, i)) <= Cardinality(UsableUpTo(ask, s, Len(s)))
    BY <1>4, <1>9, <2>2, UsableFacts
  <2> QED
    BY <1>9, <1>10, <2>3
<1>13. \A i \in usable :
         IF Place(i) <= Len(p.nodes)
         THEN p.nodes[Place(i)].id = s[i].id
         ELSE p.total = MaxTokens(ask) \/ Len(p.nodes) = MaxPacked(ask)
  BY <1>11, <1>12
<1>14. p.total <= MaxTokens(ask)
  BY <1>6, <1>11
<1>15. /\ p.total <= MaxTokens(ask)
       /\ Len(p.nodes) <= MaxPacked(ask) /\ Len(p.nodes) <= Cardinality(usable)
  BY <1>11, <1>14
<1>16. Usable(ask, answer.entries)' = usable
  <2>1. \A r, e : Usable(r, e)' = Usable(r, e)
    BY <1>2 DEF Usable
  <2>2. Usable(ask, answer.entries)' = Usable(ask', answer'.entries)
    BY <1>1, <2>1
  <2> QED
    BY <1>1, <2>2 DEF usable
<1>17. \A i : Place(i) = Cardinality({j \in usable : j <= i})
  BY DEF Place
<1> QED
  BY <1>1, <1>13, <1>15, <1>16, <1>17 DEF PackWithinBudget

\* An answer and its pack are given once.
LEMMA AnswerStays ==
    ASSUME [QueryNext]_<<indexVars, groupVars, queryVars>>, ~FinishQuery, phase' = "answered"
    PROVE  phase = "answered" /\ UNCHANGED <<index, ask, scores, answer, pack>>
BY DEF QueryNext, IndexNext, ReadDocuments, SearchGroups, FinishIndex, QueryGraph, TakeSeed,
       Expand, indexVars, queryVars

\* What holds of an answer once it is given.
AnswerInv == AnswerIsBestInScope /\ PackWithinBudget

\* AnswerInv at the start.
LEMMA AnswerInit == QueryInit => AnswerInv
BY DEF QueryInit, IndexInit, AnswerInv, AnswerIsBestInScope, PackWithinBudget, Answered

\* Every step keeps AnswerInv.
LEMMA AnswerStep ==
    FlowInv /\ ScoreInv /\ AnswerInv /\ [QueryNext]_<<indexVars, groupVars, queryVars>>
        => AnswerInv'
<1> SUFFICES ASSUME FlowInv, ScoreInv, AnswerInv,
                    [QueryNext]_<<indexVars, groupVars, queryVars>>
             PROVE  AnswerInv'
  OBVIOUS
<1>1. CASE FinishQuery
  BY <1>1, FinishedAnswer, FinishedPack DEF AnswerInv
<1>2. CASE ~FinishQuery /\ phase' # "answered"
  BY <1>2 DEF AnswerInv, AnswerIsBestInScope, PackWithinBudget, Answered
<1>3. CASE ~FinishQuery /\ phase' = "answered"
  <2>1. phase = "answered" /\ UNCHANGED <<index, ask, scores, answer, pack>>
    BY <1>3, AnswerStays
  <2>2. \A id : Node(id)' = Node(id)
    BY <2>1 DEF Node
  <2>3. AnswerIsBestInScope'
    <3>1. \A id : Credit(ask, Node(id))' = Credit(ask, Node(id))
      BY <2>1, SameCredit
    <3>2. NodeIds' = NodeIds
      BY <2>1 DEF NodeIds
    <3> QED
      BY <2>1, <2>2, <3>1, <3>2 DEF AnswerInv, AnswerIsBestInScope, Answered
  <2>4. PackWithinBudget'
    <3>1. \A r, e : Usable(r, e)' = Usable(r, e)
      BY <2>2 DEF Usable
    <3>2. Usable(ask, answer.entries)' = Usable(ask, answer.entries)
      BY <2>1, <3>1
    <3> QED
      BY <2>1, <3>2 DEF AnswerInv, PackWithinBudget, Answered
  <2> QED
    BY <2>3, <2>4 DEF AnswerInv
<1> QED
  BY <1>1, <1>2, <1>3

\* For every index and request the answer holds only what the request's filters pass, and
\* a node that passes them is left out only for nodes that score at least its credit.
THEOREM AnswersBestInScope == QuerySpec => []AnswerIsBestInScope
<1>1. AnswerInv => AnswerIsBestInScope
  BY DEF AnswerInv
<1> QED
  BY <1>1, FlowInit, FlowStep, ScoreInit, ScoreStep, AnswerInit, AnswerStep, PTL DEF QuerySpec

\* For every answer the context pack keeps to its token budget and number of nodes, and
\* takes the best entries in their order until a limit is reached.
THEOREM PacksWithinBudget == QuerySpec => []PackWithinBudget
<1>1. AnswerInv => PackWithinBudget
  BY DEF AnswerInv
<1> QED
  BY <1>1, FlowInit, FlowStep, ScoreInit, ScoreStep, AnswerInit, AnswerStep, PTL DEF QuerySpec
=============================================================================
