------------------------- MODULE ConnectivityProofs -------------------------
(***************************************************************************)
(* The connectivity policy for any finite project, any contents of its     *)
(* files and any number of edits: the discovered closure is what the       *)
(* project reaches, what the audit accepts was reviewed, a refresh is      *)
(* always possible, and drafts that stand together belong together.        *)
(***************************************************************************)
EXTENDS Connectivity, FiniteSetTheorems, SequenceTheorems, WellFoundedInduction, TLAPS

-----------------------------------------------------------------------------
\* Induction and recursion over the numbers, for sets and functions

\* Every set of numbers that is not empty has a least member.
LEMMA Least ==
    ASSUME NEW T, T \subseteq Nat, T # {}
    PROVE  \E n \in T : \A i \in T : n <= i
  <1>1. PICK n \in T : \A i \in T : ~(<<i, n>> \in OpToRel(<, Nat))
    BY NatLessThanWellFounded, WFMin
  <1> SUFFICES ASSUME NEW i \in T, ~(n <= i) PROVE FALSE
    OBVIOUS
  <1>2. i \in Nat /\ n \in Nat /\ i < n
    OBVIOUS
  <1>3. <<i, n>> \in OpToRel(<, Nat)
    BY <1>2 DEF OpToRel
  <1> QED BY <1>1, <1>3

\* A set of numbers with 0 and every successor is all of them.
LEMMA Induction ==
    ASSUME NEW T, 0 \in T, \A n \in T : n \in Nat => n + 1 \in T
    PROVE  Nat \subseteq T
  <1> SUFFICES ASSUME Nat \ T # {} PROVE FALSE
    OBVIOUS
  <1> DEFINE U == Nat \ T
  <1>1. PICK n \in U : \A i \in U : n <= i
    <2>1. U \subseteq Nat /\ U # {}
      OBVIOUS
    <2> HIDE DEF U
    <2> QED BY <2>1, Least
  <1>2. n \in Nat /\ n # 0
    BY <1>1
  <1>3. n - 1 \in Nat /\ n - 1 \notin U
    BY <1>1, <1>2
  <1>4. n - 1 \in T
    BY <1>3
  <1>5. (n - 1) + 1 \in T
    BY <1>3, <1>4
  <1>6. (n - 1) + 1 = n
    BY <1>2
  <1> QED BY <1>1, <1>5, <1>6

Recurse(S, a, step) ==
  CHOOSE f \in [Nat -> S] : f[0] = a /\ \A n \in Nat : f[n + 1] = step[n + 1][f[n]]

\* A step for every number, and a first value, determine a function.
LEMMA Recursion ==
    ASSUME NEW S, NEW a \in S, NEW step \in [Nat -> [S -> S]]
    PROVE  /\ Recurse(S, a, step) \in [Nat -> S]
           /\ Recurse(S, a, step)[0] = a
           /\ \A n \in Nat : Recurse(S, a, step)[n + 1] = step[n + 1][Recurse(S, a, step)[n]]
  <1> DEFINE Up(m, g) == g \in [0 .. m -> S] /\ g[0] = a /\ \A n \in 0 .. m - 1 : g[n + 1] = step[n + 1][g[n]]
             T == {m \in Nat : \E g : Up(m, g)}
  <1>1. 0 \in T
    <2>1. Up(0, [i \in 0 .. 0 |-> a])
      OBVIOUS
    <2> QED BY <2>1
  <1>2. \A n \in T : n \in Nat => n + 1 \in T
    <2> SUFFICES ASSUME NEW n \in Nat, n \in T PROVE n + 1 \in T
      OBVIOUS
    <2>0. PICK g : Up(n, g)
      OBVIOUS
    <2> DEFINE h == [i \in 0 .. n + 1 |-> IF i = n + 1 THEN step[n + 1][g[n]] ELSE g[i]]
    <2>1. g[n] \in S /\ step[n + 1][g[n]] \in S
      BY <2>0
    <2>2. h \in [0 .. n + 1 -> S] /\ h[0] = a
      BY <2>0, <2>1
    <2>3. \A i \in 0 .. (n + 1) - 1 : h[i + 1] = step[i + 1][h[i]]
      <3> SUFFICES ASSUME NEW i \in 0 .. (n + 1) - 1 PROVE h[i + 1] = step[i + 1][h[i]]
        OBVIOUS
      <3>0. i \in 0 .. n
        OBVIOUS
      <3>1. CASE i = n
        BY <3>1
      <3>2. CASE i # n
        <4>1. i \in 0 .. n - 1 /\ i + 1 # n + 1 /\ i # n + 1 /\ i + 1 \in 0 .. n + 1 /\ i \in 0 .. n + 1
          BY <3>0, <3>2
        <4> QED BY <2>0, <4>1
      <3> QED BY <3>1, <3>2
    <2>4. Up(n + 1, h)
      BY <2>2, <2>3
    <2> HIDE DEF h
    <2> QED BY <2>4
  <1>3. \A m \in Nat : \E g : Up(m, g)
    <2>1. Nat \subseteq T
      <3> HIDE DEF T
      <3> QED BY <1>1, <1>2, Induction
    <2> QED BY <2>1
  <1> DEFINE G == [m \in Nat |-> CHOOSE g : Up(m, g)]
  <1>4. \A m \in Nat : Up(m, G[m])
    BY <1>3
  <1>5. \A m \in Nat : G[m + 1][m] = G[m][m]
    <2> SUFFICES ASSUME NEW m \in Nat PROVE G[m + 1][m] = G[m][m]
      OBVIOUS
    <2> DEFINE V == {i \in Nat : i <= m => G[m + 1][i] = G[m][i]}
    <2> HIDE DEF G
    <2>1. 0 \in V
      BY <1>4
    <2>2. \A n \in V : n \in Nat => n + 1 \in V
      <3> SUFFICES ASSUME NEW n \in Nat, n \in V PROVE n + 1 \in V
        OBVIOUS
      <3>1. ASSUME n + 1 <= m PROVE G[m + 1][n + 1] = G[m][n + 1]
        <4>0. G[m + 1][n] = G[m][n]
          BY <3>1
        <4>1. n \in 0 .. m - 1 /\ n \in 0 .. (m + 1) - 1 /\ m + 1 \in Nat
          BY <3>1
        <4>2. G[m][n + 1] = step[n + 1][G[m][n]]
          BY <4>1, <1>4
        <4>3. PICK k \in Nat : k = m + 1
          BY <4>1
        <4>4. n \in 0 .. k - 1 /\ Up(k, G[k])
          BY <4>1, <4>3, <1>4
        <4>5. G[k][n + 1] = step[n + 1][G[k][n]]
          BY <4>4
        <4> QED BY <4>0, <4>2, <4>3, <4>5
      <3> QED BY <3>1
    <2>3. Nat \subseteq V
      <3> HIDE DEF V
      <3> QED BY <2>1, <2>2, Induction
    <2> QED BY <2>3
  <1> DEFINE f == [m \in Nat |-> G[m][m]]
  <1>6. f \in [Nat -> S] /\ f[0] = a
    <2> HIDE DEF G
    <2> QED BY <1>4
  <1>7. \A n \in Nat : f[n + 1] = step[n + 1][f[n]]
    <2> SUFFICES ASSUME NEW n \in Nat PROVE f[n + 1] = step[n + 1][f[n]]
      OBVIOUS
    <2> HIDE DEF G
    <2>1. PICK k \in Nat : k = n + 1
      OBVIOUS
    <2>2. Up(k, G[k]) /\ n \in 0 .. k - 1
      BY <1>4, <2>1
    <2>3. G[k][n + 1] = step[n + 1][G[k][n]]
      BY <2>2
    <2>4. f[k] = G[k][k] /\ f[n] = G[n][n]
      OBVIOUS
    <2> QED BY <2>1, <2>3, <2>4, <1>5
  <1> HIDE DEF f
  <1>8. \E g \in [Nat -> S] : g[0] = a /\ \A n \in Nat : g[n + 1] = step[n + 1][g[n]]
    BY <1>6, <1>7
  <1> QED BY <1>8 DEF Recurse

-----------------------------------------------------------------------------
\* The worklist

\* The files a present file names are paths of the project.
LEMMA NamesPaths ==
    ASSUME NEW t \in Trees, NEW f \in Paths, t[f] # Absent
    PROVE  /\ Named(t, f) \subseteq Paths
           /\ Kind[f] = "hdl" => Named(t, f) = {}
           /\ Kind[f] = "sdc" => \A g \in Named(t, f) : Kind[g] = "sdc"
  <1>1. t[f] \in Contents[f] \ {Absent}
    BY DEF Trees
  <1> QED
    BY <1>1, ProjectAssumption DEF Named, _sdc_dependencies, _read_assignments

\* A round only adds files of the kind followed that a readable one names.
LEMMA RoundAdds ==
    ASSUME NEW t \in Trees, NEW kind, NEW R \in SUBSET Paths
    PROVE  Round(t, kind, R) \in SUBSET Paths /\ R \subseteq Round(t, kind, R)
  <1>1. \A f \in {g \in R : Readable(t, g)} : Queued(t, f, kind) \subseteq Paths
    BY NamesPaths DEF Queued, Readable
  <1> QED
    BY <1>1 DEF Round

\* What a walk has read, round by round.
Rounds(t, kind, first) ==
  CHOOSE g : g = [n \in Nat |-> IF n = 0 THEN first ELSE Round(t, kind, g[n - 1])]

LEMMA WalkRounds ==
    ASSUME NEW t \in Trees, NEW kind, NEW first \in SUBSET Paths
    PROVE  /\ Rounds(t, kind, first)[0] = first
           /\ \A n \in Nat : Rounds(t, kind, first)[n] \in SUBSET Paths
           /\ \A n \in Nat : Rounds(t, kind, first)[n + 1]
                               = Round(t, kind, Rounds(t, kind, first)[n])
           /\ Walk(t, kind, first) = Rounds(t, kind, first)[Cardinality(Paths)]
  <1> DEFINE Is(g) == g = [n \in Nat |-> IF n = 0 THEN first ELSE Round(t, kind, g[n - 1])]
  <1>1. PICK step : step = [n \in Nat |-> [R \in SUBSET Paths |-> Round(t, kind, R)]]
    OBVIOUS
  <1>2. step \in [Nat -> [SUBSET Paths -> SUBSET Paths]]
    BY <1>1, RoundAdds
  <1>3. PICK f : /\ f \in [Nat -> SUBSET Paths]
                 /\ f[0] = first
                 /\ \A n \in Nat : f[n + 1] = step[n + 1][f[n]]
    <2>1. PICK S : S = SUBSET Paths
      OBVIOUS
    <2>2. first \in S /\ step \in [Nat -> [S -> S]]
      BY <1>2, <2>1
    <2>3. PICK f : f = Recurse(S, first, step)
      OBVIOUS
    <2>4. f \in [Nat -> S] /\ f[0] = first /\ \A n \in Nat : f[n + 1] = step[n + 1][f[n]]
      BY <2>2, <2>3, Recursion
    <2> QED BY <2>1, <2>4
  <1>4. \A n \in Nat : f[n + 1] = Round(t, kind, f[n])
    <2> SUFFICES ASSUME NEW n \in Nat PROVE f[n + 1] = Round(t, kind, f[n])
      OBVIOUS
    <2>1. step[n + 1] = [R \in SUBSET Paths |-> Round(t, kind, R)]
      BY <1>1
    <2> QED BY <1>3, <2>1
  <1>5. Is(f)
    <2>1. \A n \in Nat : f[n] = IF n = 0 THEN first ELSE Round(t, kind, f[n - 1])
      <3> SUFFICES ASSUME NEW n \in Nat, n # 0 PROVE f[n] = Round(t, kind, f[n - 1])
        BY <1>3
      <3>1. n - 1 \in Nat /\ (n - 1) + 1 = n
        OBVIOUS
      <3> QED BY <1>4, <3>1
    <2> QED BY <1>3, <2>1
  <1>6. Is(CHOOSE g : Is(g))
    <2> HIDE DEF Is
    <2> QED BY <1>5
  <1>7. PICK h : h = Rounds(t, kind, first)
    OBVIOUS
  <1>8. Is(h)
    BY <1>6, <1>7 DEF Rounds
  <1>9. Walk(t, kind, first) = h[Cardinality(Paths)]
    BY <1>7 DEF Walk, Rounds
  <1>10. \A n \in Nat : h[n] = IF n = 0 THEN first ELSE Round(t, kind, h[n - 1])
    <2>1. PICK F : F = [n \in Nat |-> IF n = 0 THEN first ELSE Round(t, kind, h[n - 1])]
      OBVIOUS
    <2>2. \A n \in Nat : F[n] = IF n = 0 THEN first ELSE Round(t, kind, h[n - 1])
      BY <2>1
    <2> QED BY <1>8, <2>1, <2>2
  <1>11. \A n \in Nat : h[n + 1] = Round(t, kind, h[n])
    <2> SUFFICES ASSUME NEW n \in Nat PROVE h[n + 1] = Round(t, kind, h[n])
      OBVIOUS
    <2>1. n + 1 \in Nat /\ n + 1 # 0 /\ (n + 1) - 1 = n
      OBVIOUS
    <2> QED BY <1>10, <2>1
  <1>12. \A n \in Nat : h[n] \in SUBSET Paths
    <2> DEFINE T == {n \in Nat : h[n] \in SUBSET Paths}
    <2>1. 0 \in T
      BY <1>10
    <2>2. \A n \in T : n \in Nat => n + 1 \in T
      BY <1>11, RoundAdds
    <2>3. Nat \subseteq T
      <3> HIDE DEF T
      <3> QED BY <2>1, <2>2, Induction
    <2> QED BY <2>3
  <1> QED
    BY <1>7, <1>9, <1>10, <1>11, <1>12

\* The walk reads the first files and every file of the kind that a readable
\* one it has read names, and nothing else; |Paths| rounds are enough, for a
\* round that adds nothing is the last.
LEMMA WalkReads ==
    ASSUME NEW t \in Trees, NEW kind, NEW first \in SUBSET Paths
    PROVE  LET W == Walk(t, kind, first)
           IN /\ first \subseteq W /\ W \subseteq Paths
              /\ \A f \in W : Readable(t, f) => Queued(t, f, kind) \subseteq W
              /\ \A S \in SUBSET Paths :
                   first \subseteq S /\ (\A f \in S : Readable(t, f) => Queued(t, f, kind) \subseteq S)
                     => W \subseteq S
  <1>0. PICK h : h = Rounds(t, kind, first)
    OBVIOUS
  <1>1. /\ h[0] = first
        /\ \A n \in Nat : h[n] \in SUBSET Paths
        /\ \A n \in Nat : h[n + 1] = Round(t, kind, h[n])
        /\ Walk(t, kind, first) = h[Cardinality(Paths)]
    BY <1>0, WalkRounds
  <1> DEFINE N == Cardinality(Paths)
             Full(n) == \A f \in h[n] : Readable(t, f) => Queued(t, f, kind) \subseteq h[n]
  <1>2. IsFiniteSet(Paths) /\ N \in Nat
    BY ProjectAssumption, FS_CardinalityType
  <1>3. \A n \in Nat : h[n] \subseteq Paths /\ IsFiniteSet(h[n]) /\ Cardinality(h[n]) \in Nat
    BY <1>1, <1>2, FS_Subset, FS_CardinalityType
  <1>4. \A n \in Nat : /\ h[n] \subseteq h[n + 1]
                       /\ Full(n) => h[n + 1] = h[n]
                       /\ h[n + 1] = h[n] => Full(n)
    <2> SUFFICES ASSUME NEW n \in Nat
                 PROVE  /\ h[n] \subseteq h[n + 1]
                        /\ Full(n) => h[n + 1] = h[n]
                        /\ h[n + 1] = h[n] => Full(n)
      OBVIOUS
    <2>1. h[n + 1] = h[n] \cup UNION {Queued(t, f, kind) : f \in {g \in h[n] : Readable(t, g)}}
      BY <1>1 DEF Round
    <2> QED BY <2>1
  <1>5. \A n \in Nat : first \subseteq h[n] /\ (Full(n) \/ Cardinality(h[n]) >= n)
    <2> DEFINE T == {n \in Nat : first \subseteq h[n] /\ (Full(n) \/ Cardinality(h[n]) >= n)}
    <2>1. 0 \in T
      BY <1>1, <1>3
    <2>2. \A n \in T : n \in Nat => n + 1 \in T
      <3> SUFFICES ASSUME NEW n \in Nat, n \in T PROVE n + 1 \in T
        OBVIOUS
      <3>0. first \subseteq h[n] /\ (Full(n) \/ Cardinality(h[n]) >= n)
        OBVIOUS
      <3> HIDE DEF Full
      <3>1. first \subseteq h[n + 1] /\ n + 1 \in Nat
        BY <1>4, <3>0
      <3>2. CASE h[n + 1] = h[n]
        <4>1. Full(n)
          BY <1>4, <3>2
        <4>2. Full(n + 1)
          BY <3>2, <4>1 DEF Full
        <4> QED BY <3>1, <4>2
      <3>3. CASE h[n + 1] # h[n]
        <4>1. ~Full(n)
          BY <1>4, <3>3
        <4>2. Cardinality(h[n]) >= n
          BY <3>0, <4>1
        <4>3. Cardinality(h[n]) < Cardinality(h[n + 1])
          <5>1. h[n] \in SUBSET h[n + 1] /\ IsFiniteSet(h[n + 1])
            BY <1>3, <1>4, <3>1
          <5>2. /\ Cardinality(h[n]) <= Cardinality(h[n + 1])
                /\ Cardinality(h[n + 1]) = Cardinality(h[n]) => h[n + 1] = h[n]
            BY <5>1, FS_Subset
          <5>3. Cardinality(h[n]) \in Nat /\ Cardinality(h[n + 1]) \in Nat
            BY <1>3, <3>1
          <5> QED BY <5>2, <5>3, <3>3
        <4>4. Cardinality(h[n + 1]) >= n + 1
          BY <1>3, <3>1, <4>2, <4>3
        <4> QED BY <3>1, <4>4
      <3> QED BY <3>2, <3>3
    <2>3. Nat \subseteq T
      <3> HIDE DEF T
      <3> QED BY <2>1, <2>2, Induction
    <2> QED BY <2>3
  <1>6. Full(N)
    <2>1. CASE Cardinality(h[N]) >= N
      <3>1. h[N] = Paths
        <4>1. h[N] \subseteq Paths /\ Cardinality(h[N]) <= N /\ Cardinality(h[N]) \in Nat
          BY <1>2, <1>3, FS_Subset
        <4>2. Cardinality(h[N]) = N
          BY <1>2, <2>1, <4>1
        <4> QED BY <1>2, <4>1, <4>2, FS_Subset
      <3>2. h[N + 1] = h[N]
        <4>1. N + 1 \in Nat
          BY <1>2
        <4> QED BY <1>2, <1>3, <1>4, <3>1, <4>1
      <3> QED BY <1>2, <1>4, <3>2
    <2> QED BY <1>2, <1>5, <2>1
  <1>7. ASSUME NEW S \in SUBSET Paths, first \subseteq S,
               \A f \in S : Readable(t, f) => Queued(t, f, kind) \subseteq S
        PROVE  h[N] \subseteq S
    <2> DEFINE T == {n \in Nat : h[n] \subseteq S}
    <2>1. 0 \in T
      BY <1>1, <1>7
    <2>2. \A n \in T : n \in Nat => n + 1 \in T
      BY <1>1, <1>7 DEF Round
    <2>3. Nat \subseteq T
      <3> HIDE DEF T
      <3> QED BY <2>1, <2>2, Induction
    <2> QED BY <1>2, <2>3
  <1>8. first \subseteq h[N] /\ h[N] \subseteq Paths
    BY <1>2, <1>3, <1>5
  <1>9. PICK W : W = Walk(t, kind, first) /\ W = h[N]
    BY <1>1
  <1> HIDE DEF N
  <1> QED
    BY <1>6, <1>7, <1>8, <1>9

-----------------------------------------------------------------------------
\* The closure

\* Reaches is the least set that holds the settings files and whatever a
\* present member names: the meet of all such sets is one.
LEMMA ReachesLeast ==
    ASSUME NEW t \in Trees
    PROVE  /\ Reaches(t) \subseteq Paths
           /\ Closed(t, Reaches(t))
           /\ \A S \in SUBSET Paths : Closed(t, S) => Reaches(t) \subseteq S
  <1> DEFINE Meet(S) == Closed(t, S) /\ \A R \in SUBSET Paths : Closed(t, R) => S \subseteq R
  <1>1. PICK M : M = {f \in Paths : \A S \in SUBSET Paths : Closed(t, S) => f \in S}
    OBVIOUS
  <1>2. M \in SUBSET Paths /\ \A S \in SUBSET Paths : Closed(t, S) => M \subseteq S
    BY <1>1
  <1>3. Closed(t, M)
    <2>1. PROJECT_FILES \subseteq M
      BY <1>1 DEF Closed, PROJECT_FILES
    <2>2. ASSUME NEW f \in M, t[f] # Absent PROVE Named(t, f) \subseteq M
      <3>1. Named(t, f) \subseteq Paths
        BY <1>2, <2>2, NamesPaths
      <3>2. ASSUME NEW g \in Named(t, f), NEW S \in SUBSET Paths, Closed(t, S) PROVE g \in S
        <4>1. f \in S
          BY <1>2, <3>2
        <4> QED BY <2>2, <3>2, <4>1 DEF Closed
      <3> QED BY <1>1, <3>1, <3>2
    <2> QED BY <2>1, <2>2 DEF Closed
  <1>4. Meet(M)
    BY <1>2, <1>3
  <1>5. \E S \in SUBSET Paths : Meet(S)
    BY <1>2, <1>4
  <1>6. Reaches(t) = CHOOSE S \in SUBSET Paths : Meet(S)
    BY DEF Reaches
  <1>7. Reaches(t) \in SUBSET Paths /\ Meet(Reaches(t))
    <2> HIDE DEF Meet
    <2> QED BY <1>5, <1>6
  <1> QED BY <1>7

\* Two trees that agree on what one of them reaches reach the same files: the
\* digests of a closure's files pin the closure itself.
LEMMA AgreeingReach ==
    ASSUME NEW t \in Trees, NEW u \in Trees, \A p \in Reaches(t) : u[p] = t[p]
    PROVE  Reaches(u) = Reaches(t) /\ RowsOf(u) = RowsOf(t)
  <1>1. \A p \in Reaches(t) : Named(u, p) = Named(t, p)
    BY DEF Named, _sdc_dependencies, _read_assignments
  <1>2. Closed(u, Reaches(t))
    BY <1>1, ReachesLeast DEF Closed
  <1>3. Reaches(u) \subseteq Reaches(t)
    BY <1>2, ReachesLeast
  <1>4. Closed(t, Reaches(u))
    <2>1. Closed(u, Reaches(u))
      BY ReachesLeast
    <2> QED BY <1>1, <1>3, <2>1 DEF Closed
  <1>5. Reaches(t) \subseteq Reaches(u)
    BY <1>3, <1>4, ReachesLeast
  <1>6. Reaches(u) = Reaches(t)
    BY <1>3, <1>5
  <1>7. \A p \in Reaches(t) : t[p] = u[p]
    OBVIOUS
  <1> QED BY <1>6, <1>7 DEF RowsOf

\* The two worklists: what each has read, and the files found.
Parsed(t) == Walk(t, "qip", PROJECT_FILES)
Assigned(t) == PROJECT_FILES \cup Discovered(t, Parsed(t))
ParsedSdc(t) == Walk(t, "sdc", {f \in Assigned(t) : Kind[f] = "sdc"})
Found(t) == Assigned(t) \cup Discovered(t, ParsedSdc(t))

LEMMA GraphIs ==
    ASSUME NEW t, NEW tracked
    PROVE  /\ _discover_source_graph(t, tracked).paths = Found(t)
           /\ _discover_source_graph(t, tracked).ok
                <=> /\ \A f \in Parsed(t) \cup ParsedSdc(t) : Readable(t, f)
                    /\ _validate_indirect_hdl_inputs(t, Found(t))
                    /\ \A f \in Found(t) : t[f] # Absent /\ f \in tracked
  BY DEF _discover_source_graph, Found, ParsedSdc, Assigned, Parsed

\* Whatever a closed set holds, the worklists stay within.
LEMMA WorklistsWithin ==
    ASSUME NEW t \in Trees
    PROVE  /\ Parsed(t) \cup ParsedSdc(t) \cup Found(t) \subseteq Reaches(t)
           /\ PROJECT_FILES \subseteq Parsed(t)
           /\ \A f \in Parsed(t) : Readable(t, f) => Queued(t, f, "qip") \subseteq Parsed(t)
           /\ {f \in Assigned(t) : Kind[f] = "sdc"} \subseteq ParsedSdc(t)
           /\ \A f \in ParsedSdc(t) : Readable(t, f) => Queued(t, f, "sdc") \subseteq ParsedSdc(t)
           /\ \A f \in ParsedSdc(t) : Kind[f] = "sdc"
  <1> DEFINE R == Reaches(t)
             First == {f \in Assigned(t) : Kind[f] = "sdc"}
  <1>1. R \in SUBSET Paths /\ PROJECT_FILES \subseteq R
        /\ \A f \in R : Readable(t, f) => Named(t, f) \subseteq R
    BY ReachesLeast DEF Closed, Readable
  <1>2. \A f \in R : Readable(t, f) => Queued(t, f, "qip") \cup Queued(t, f, "sdc") \subseteq R
    BY <1>1 DEF Queued
  <1>3. PROJECT_FILES \in SUBSET Paths
    BY DEF PROJECT_FILES
  <1>4. /\ PROJECT_FILES \subseteq Parsed(t) /\ Parsed(t) \subseteq R
        /\ \A f \in Parsed(t) : Readable(t, f) => Queued(t, f, "qip") \subseteq Parsed(t)
    <2> HIDE DEF R
    <2> QED BY <1>1, <1>2, <1>3, WalkReads DEF Parsed
  <1>5. Assigned(t) \subseteq R
    BY <1>1, <1>4 DEF Assigned, Discovered
  <1>6. First \in SUBSET Paths /\ First \subseteq R
    BY <1>1, <1>5
  <1>7. /\ First \subseteq ParsedSdc(t) /\ ParsedSdc(t) \subseteq R
        /\ \A f \in ParsedSdc(t) : Readable(t, f) => Queued(t, f, "sdc") \subseteq ParsedSdc(t)
    <2>1. ParsedSdc(t) = Walk(t, "sdc", First)
      BY DEF ParsedSdc
    <2> HIDE DEF R, First
    <2> QED BY <1>1, <1>2, <1>6, <2>1, WalkReads
  <1>8. \A f \in ParsedSdc(t) : Kind[f] = "sdc"
    <2>1. PICK S : S = {f \in Paths : Kind[f] = "sdc"}
      OBVIOUS
    <2>2. First \subseteq S /\ S \in SUBSET Paths
      BY <1>6, <2>1
    <2>3. \A f \in S : Readable(t, f) => Queued(t, f, "sdc") \subseteq S
      BY <2>1, NamesPaths DEF Queued, Readable
    <2>4. ParsedSdc(t) = Walk(t, "sdc", First)
      BY DEF ParsedSdc
    <2>5. ParsedSdc(t) \subseteq S
      <3> HIDE DEF First
      <3> QED BY <1>6, <2>2, <2>3, <2>4, WalkReads
    <2> QED BY <2>1, <2>5
  <1>9. Found(t) \subseteq R
    BY <1>1, <1>5, <1>7 DEF Found, Discovered
  <1> QED BY <1>4, <1>7, <1>8, <1>9

\* quartus_connectivity_source_closure.py:757-828: when the discovery
\* succeeds, what it returns is exactly what the project reaches: the worklists
\* miss nothing, add nothing, and every file of it is there.
THEOREM ClosureExact ==
    ASSUME NEW t \in Trees, NEW tracked, _discover_source_graph(t, tracked).ok
    PROVE  /\ _discover_source_graph(t, tracked).paths = Reaches(t)
           /\ \A p \in Reaches(t) : t[p] # Absent
  <1>1. /\ \A f \in Parsed(t) \cup ParsedSdc(t) : Readable(t, f)
        /\ \A f \in Found(t) : t[f] # Absent
    BY GraphIs
  <1>2. Found(t) \in SUBSET Paths /\ Parsed(t) \subseteq Paths /\ ParsedSdc(t) \subseteq Paths
    BY WorklistsWithin, ReachesLeast
  <1>3. \A f \in Parsed(t) : Named(t, f) \subseteq Assigned(t)
    BY <1>1 DEF Assigned, Discovered
  <1>4. \A f \in ParsedSdc(t) : Named(t, f) \subseteq Found(t)
    BY <1>1 DEF Found, Discovered
  <1>5. Closed(t, Found(t))
    <2>1. PROJECT_FILES \subseteq Found(t) /\ Assigned(t) \subseteq Found(t)
      BY DEF Found, Assigned
    <2>2. ASSUME NEW f \in Found(t) PROVE Named(t, f) \subseteq Found(t)
      <3>0. f \in Paths /\ t[f] # Absent
        BY <1>1, <1>2
      <3>1. CASE Kind[f] = "qsf"
        BY <3>0, <3>1, <1>3, <2>1, WorklistsWithin DEF PROJECT_FILES
      <3>2. CASE Kind[f] = "hdl"
        BY <3>0, <3>2, NamesPaths
      <3>3. CASE Kind[f] = "sdc"
        <4>1. f \in ParsedSdc(t)
          <5>1. CASE f \in Assigned(t)
            BY <5>1, <3>3, WorklistsWithin
          <5>2. CASE f \notin Assigned(t)
            <6>1. PICK g \in ParsedSdc(t) : Readable(t, g) /\ f \in Named(t, g)
              BY <5>2 DEF Found, Discovered
            <6>2. f \in Queued(t, g, "sdc")
              BY <6>1, <3>3 DEF Queued
            <6> QED BY <6>1, <6>2, WorklistsWithin
          <5> QED BY <5>1, <5>2
        <4> QED BY <4>1, <1>4
      <3>4. CASE Kind[f] = "qip"
        <4>1. f \in Assigned(t)
          <5> SUFFICES ASSUME f \notin Assigned(t) PROVE FALSE
            OBVIOUS
          <5>1. PICK g \in ParsedSdc(t) : Readable(t, g) /\ f \in Named(t, g)
            BY DEF Found, Discovered
          <5>2. g \in Paths /\ Kind[g] = "sdc" /\ t[g] # Absent
            BY <5>1, <1>2, WorklistsWithin DEF Readable
          <5>3. Kind[f] = "sdc"
            BY <5>1, <5>2, NamesPaths
          <5> QED BY <5>3, <3>4
        <4>2. PICK g \in Parsed(t) : Readable(t, g) /\ f \in Named(t, g)
          BY <4>1, <3>4 DEF Assigned, Discovered, PROJECT_FILES
        <4>3. f \in Queued(t, g, "qip")
          BY <4>2, <3>4 DEF Queued
        <4>4. f \in Parsed(t)
          BY <4>2, <4>3, WorklistsWithin
        <4> QED BY <4>4, <1>3, <2>1
      <3> QED BY <3>0, <3>1, <3>2, <3>3, <3>4, ProjectAssumption
    <2> QED BY <2>1, <2>2 DEF Closed
  <1>6. Found(t) = Reaches(t)
    BY <1>2, <1>5, WorklistsWithin, ReachesLeast
  <1> QED BY <1>1, <1>6, GraphIs

\* And it succeeds on a tree the build can compile: every file reached can be
\* read and is tracked.
LEMMA SoundTreeCloses ==
    ASSUME NEW t \in Trees, NEW tracked,
           \A p \in Reaches(t) : Readable(t, p) /\ p \in tracked
    PROVE  _discover_source_graph(t, tracked).ok
  <1>1. \A f \in Parsed(t) \cup ParsedSdc(t) \cup Found(t) :
          Readable(t, f) /\ t[f] # Absent /\ f \in tracked
    BY WorklistsWithin DEF Readable
  <1> QED BY <1>1, GraphIs DEF _validate_indirect_hdl_inputs

-----------------------------------------------------------------------------
\* The invariant

\* A V2 policy records its commit: the closure with every file's contents
\* there, and the rows the commit's build reports.
Recorded(pol) ==
  pol.magic = "V2" =>
    /\ pol.commit \in Trees
    /\ pol.rows = RowsOf(pol.commit)
    /\ DOMAIN pol.bindings = pol.closure
    /\ \A p \in pol.closure : pol.bindings[p] = pol.commit[p]

\* A report is that of a commit that could be built.
Reported ==
  report # Nothing =>
    /\ report.commit \in Trees
    /\ report.rows = RowsOf(report.commit)
    /\ \A p \in Reaches(report.commit) : Readable(report.commit, p)

\* Every policy there is: installed, drafted, being written.
PoliciesRecorded ==
  /\ Recorded(policy)
  /\ draft.policy.kind = "draft" => Recorded(draft.policy.of)
  /\ writing # Nothing => Recorded(writing.policy)

\* Every allowlist there is has been reviewed, row by row.
AllowlistsReviewed ==
  /\ DOMAIN allow \subseteq seen
  /\ draft.allow.kind = "draft" => DOMAIN draft.allow.of \subseteq seen
  /\ writing # Nothing => DOMAIN writing.allow \subseteq seen

\* How far a proposal has been written out: the allowlist stands complete
\* before the policy is begun.
Untouched(k) == draft[k].kind \in {"nothing", "foreign"}
Written ==
  writing # Nothing =>
    /\ DOMAIN writing = {"kind", "allow", "policy", "created"}
    /\ DOMAIN writing.allow = writing.policy.rows
    /\ \/ writing.kind = "proposal" /\ writing.created = << >> /\ Untouched("policy")
       \/ writing.kind = "proposal" /\ writing.created = << "allow" >> /\ Untouched("policy")
          /\ draft.allow.kind = "draft" /\ draft.allow.of = writing.allow
       \/ /\ writing.kind = "failing"
          /\ writing.created \in {<< "allow" >>, << "allow", "policy" >>, << "policy" >>}

ConnectivityTypes ==
  /\ tree \in Trees /\ head \in Trees
  /\ DOMAIN draft = {"allow", "policy"}

ConnectivityInv ==
  /\ ConnectivityTypes
  /\ Reported
  /\ PoliciesRecorded
  /\ AllowlistsReviewed
  /\ Written
  /\ DraftsPaired

LEMMA InvInit == Init => ConnectivityInv
  <1> SUFFICES ASSUME Init PROVE ConnectivityInv
    OBVIOUS
  <1>1. FirstTree \in Trees
    BY ProjectAssumption
  <1>2. Recorded(LegacyPolicy)
    BY DEF Recorded, LegacyPolicy
  <1>3. Recorded(CurrentPolicy)
    <2>1. PICK c : c = _discover_source_graph(FirstTree, {p \in Paths : FirstTree[p] # Absent})
      OBVIOUS
    <2>2. CurrentPolicy = [kind |-> "policy", magic |-> "V2", commit |-> FirstTree,
                           rows |-> RowsOf(FirstTree), closure |-> c.paths,
                           bindings |-> [p \in c.paths |-> FirstTree[p]]]
      BY <2>1 DEF CurrentPolicy
    <2> QED BY <1>1, <2>2 DEF Recorded
  <1>4. /\ draft.allow.kind = "nothing" /\ draft.policy.kind = "nothing"
        /\ DOMAIN draft = {"allow", "policy"}
        /\ DOMAIN allow = seen
        /\ report = Nothing /\ writing = Nothing
        /\ tree \in Trees /\ head \in Trees
    BY <1>1 DEF Init, Nothing
  <1>5. Recorded(policy)
    BY <1>2, <1>3 DEF Init
  <1> QED
    BY <1>4, <1>5 DEF ConnectivityInv, ConnectivityTypes, Reported, PoliciesRecorded,
       AllowlistsReviewed, Written, DraftsPaired, Own

\* Reading the commit's closure and the working tree's: if HEAD is clean they
\* are one, so the refreshed policy records the commit.
LEMMA RefreshedRecords ==
    ASSUME NEW prop, Reported, head \in Trees, report # Nothing, report.commit = head,
           DOMAIN prop.rows = report.rows
    PROVE  /\ Recorded(Refreshed(report, prop))
           /\ Refreshed(report, prop).rows = report.rows
  <1>1. PICK r : r = Refreshed(report, prop)
    OBVIOUS
  <1>2. /\ r.commit = report.commit /\ r.rows = report.rows /\ r.closure = Closure(head).paths
        /\ r.bindings = [p \in Closure(head).paths |-> head[p]]
    BY <1>1 DEF Refreshed, Bindings
  <1>3. report.rows = RowsOf(report.commit)
    BY DEF Reported
  <1> QED BY <1>1, <1>2, <1>3 DEF Recorded

LEMMA RefreshKeeps ==
    ConnectivityInv /\ Refresh => ConnectivityInv'
  <1> SUFFICES ASSUME ConnectivityInv, Refresh PROVE ConnectivityInv'
    OBVIOUS
  <1>1. PICK given \in BOOLEAN, rows \in SUBSET (report.rows \ _load_allowlist) :
          LET additions == [given |-> given, rows |-> IF given THEN rows ELSE {}]
              prop == prepare_refresh(report, additions)
          IN /\ ~given => rows = {}
             /\ prop.ok
             /\ draft.allow = Nothing /\ draft.policy = Nothing
             /\ writing' = [kind |-> "proposal", allow |-> prop.rows,
                            policy |-> Refreshed(report, prop), created |-> << >>]
             /\ seen' = seen \cup additions.rows
    BY DEF Refresh
  <1>2. PICK additions : additions = [given |-> given, rows |-> IF given THEN rows ELSE {}]
    OBVIOUS
  <1>3. PICK prop : prop = prepare_refresh(report, additions)
    OBVIOUS
  <1>4. /\ prop.ok /\ draft.allow = Nothing /\ draft.policy = Nothing
        /\ writing' = [kind |-> "proposal", allow |-> prop.rows,
                       policy |-> Refreshed(report, prop), created |-> << >>]
        /\ seen' = seen \cup additions.rows
    BY <1>1, <1>2, <1>3
  <1>5. PICK added : added = report.rows \ DOMAIN allow
    OBVIOUS
  <1>6. /\ prop.ok <=> /\ _read_policy /\ policy = report.baseline
                       /\ _require_clean_checkout(report.commit)
                       /\ Approved(added, additions)
                       /\ added = {} \/ additions.given
        /\ prop.rows = [q \in report.rows |-> IF q \in added THEN "new" ELSE allow[q]]
    BY <1>3, <1>5 DEF prepare_refresh, extract_warning_rows, _load_allowlist
  <1>7. report.commit = head
    BY <1>4, <1>6 DEF _require_clean_checkout
  <1>8. additions.rows = added
    BY <1>2, <1>4, <1>6 DEF Approved
  <1>9. DOMAIN prop.rows = report.rows
    BY <1>6
  <1>10. /\ UNCHANGED <<tree, head, policy, allow, report, draft, stranded>>
         /\ report # Nothing
    BY DEF Refresh
  <1>11. PICK refreshed : refreshed = Refreshed(report, prop)
    OBVIOUS
  <1>12. Recorded(refreshed) /\ refreshed.rows = report.rows
    BY <1>7, <1>9, <1>10, <1>11, RefreshedRecords DEF ConnectivityInv, ConnectivityTypes
  <1>13. writing' = [kind |-> "proposal", allow |-> prop.rows, policy |-> refreshed,
                     created |-> << >>]
    BY <1>4, <1>11
  <1>14. DOMAIN writing.allow' \subseteq seen' /\ seen \subseteq seen'
    <2>1. writing.allow' = prop.rows
      BY <1>13
    <2> QED BY <2>1, <1>4, <1>5, <1>8, <1>9 DEF ConnectivityInv, AllowlistsReviewed
  <1>15. ConnectivityTypes' /\ Reported'
    BY <1>10 DEF ConnectivityInv, ConnectivityTypes, Reported
  <1>16. draft.allow.kind = "nothing" /\ draft.policy.kind = "nothing"
    BY <1>4 DEF Nothing
  <1>17. PoliciesRecorded'
    BY <1>10, <1>12, <1>13, <1>16 DEF ConnectivityInv, PoliciesRecorded
  <1>18. AllowlistsReviewed'
    BY <1>10, <1>14, <1>16 DEF ConnectivityInv, AllowlistsReviewed
  <1>19. Written'
    BY <1>9, <1>10, <1>12, <1>13, <1>16 DEF Written, Untouched
  <1>20. DraftsPaired'
    BY <1>10, <1>16 DEF DraftsPaired, Own
  <1> QED
    BY <1>15, <1>17, <1>18, <1>19, <1>20 DEF ConnectivityInv

\* The lists of created files that occur, one file longer or shorter.
LEMMA CreatedLists ==
    /\ Append(<< >>, "allow") = << "allow" >>
    /\ Append(<< "allow" >>, "policy") = << "allow", "policy" >>
    /\ << "allow" >> # << >> /\ << "policy" >> # << >> /\ << "allow", "policy" >> # << >>
    /\ Head(<< "allow" >>) = "allow" /\ Tail(<< "allow" >>) = << >>
    /\ Head(<< "policy" >>) = "policy" /\ Tail(<< "policy" >>) = << >>
    /\ Head(<< "allow", "policy" >>) = "allow"
    /\ Tail(<< "allow", "policy" >>) = << "policy" >>
  <1> DEFINE S == {"allow", "policy"}
  <1>1. /\ << >> \in Seq(S) /\ Len(<< >>) = 0
        /\ << "allow" >> \in Seq(S) /\ Len(<< "allow" >>) = 1 /\ << "allow" >>[1] = "allow"
        /\ << "policy" >> \in Seq(S) /\ Len(<< "policy" >>) = 1 /\ << "policy" >>[1] = "policy"
        /\ << "allow", "policy" >> \in Seq(S) /\ Len(<< "allow", "policy" >>) = 2
        /\ << "allow", "policy" >>[1] = "allow" /\ << "allow", "policy" >>[2] = "policy"
    OBVIOUS
  <1>2. Append(<< >>, "allow") = << "allow" >>
    OBVIOUS
  <1>3. Append(<< "allow" >>, "policy") = << "allow", "policy" >>
    <2>1. PICK s : s = Append(<< "allow" >>, "policy")
      OBVIOUS
    <2>2. s \in Seq(S) /\ Len(s) = 2 /\ s[1] = "allow" /\ s[2] = "policy"
      BY <1>1, <2>1
    <2>3. s = << "allow", "policy" >>
      BY <2>2
    <2> QED BY <2>1, <2>3
  <1>4. << "allow" >> # << >> /\ << "policy" >> # << >> /\ << "allow", "policy" >> # << >>
    BY <1>1
  <1>5. /\ Head(<< "allow" >>) = "allow" /\ Head(<< "policy" >>) = "policy"
        /\ Head(<< "allow", "policy" >>) = "allow"
    BY <1>1
  <1>6. Tail(<< "allow" >>) = << >> /\ Tail(<< "policy" >>) = << >>
    BY <1>1, EmptySeq
  <1>7. Tail(<< "allow", "policy" >>) = << "policy" >>
    <2>1. PICK s : s = Tail(<< "allow", "policy" >>)
      OBVIOUS
    <2>2. s \in Seq(S) /\ Len(s) = 1 /\ s[1] = "policy"
      BY <1>1, <2>1
    <2>3. s = << "policy" >>
      BY <2>2
    <2> QED BY <2>1, <2>3
  <1> QED BY <1>2, <1>3, <1>4, <1>5, <1>6, <1>7

\* What is still to be taken back keeps the shape of a proposal.
LEMMA TakeBackShape ==
    ASSUME NEW files, Written, writing # Nothing,
           files \in {<< >>, << "allow" >>, << "allow", "policy" >>, << "policy" >>}
    PROVE  TakeBack(files) # Nothing =>
             /\ DOMAIN TakeBack(files) = {"kind", "allow", "policy", "created"}
             /\ TakeBack(files).allow = writing.allow
             /\ TakeBack(files).policy = writing.policy
             /\ TakeBack(files).kind = "failing"
             /\ TakeBack(files).created
                  \in {<< "allow" >>, << "allow", "policy" >>, << "policy" >>}
  <1>1. DOMAIN writing = {"kind", "allow", "policy", "created"}
    BY DEF Written
  <1> QED BY <1>1 DEF TakeBack

\* A draft is written: cut short or complete, the allowlist before the policy.
LEMMA WriteKeeps ==
    ConnectivityInv /\ write_proposal => ConnectivityInv'
  <1> SUFFICES ASSUME ConnectivityInv, write_proposal PROVE ConnectivityInv'
    OBVIOUS
  <1>0. writing # Nothing
    BY DEF write_proposal, Nothing
  <1>1. /\ UNCHANGED <<tree, head, policy, allow, report, seen, stranded>>
        /\ writing.kind = "proposal"
    BY DEF write_proposal
  <1>2. /\ DOMAIN writing = {"kind", "allow", "policy", "created"}
        /\ DOMAIN writing.allow = writing.policy.rows
        /\ Untouched("policy")
        /\ \/ writing.created = << >>
           \/ /\ writing.created = << "allow" >>
              /\ draft.allow.kind = "draft" /\ draft.allow.of = writing.allow
    BY <1>0, <1>1 DEF ConnectivityInv, Written
  <1>3. /\ Recorded(writing.policy)
        /\ DOMAIN writing.allow \subseteq seen
        /\ DOMAIN draft = {"allow", "policy"}
    BY <1>0 DEF ConnectivityInv, ConnectivityTypes, PoliciesRecorded, AllowlistsReviewed
  <1>4. /\ Target \in {"allow", "policy"}
        /\ Target = "allow" <=> writing.created = << >>
        /\ Append(writing.created, Target) \in {<< "allow" >>, << "allow", "policy" >>}
    BY <1>2, CreatedLists DEF Target
  <1>5. PICK t : t = Target
    OBVIOUS
  <1>6. PICK back : back = TakeBack(writing.created)
    OBVIOUS
  <1>7. PICK back2 : back2 = TakeBack(Append(writing.created, Target))
    OBVIOUS
  <1>8. ASSUME NEW w, w \in {back, back2}
        PROVE  w # Nothing =>
                 /\ DOMAIN w = {"kind", "allow", "policy", "created"}
                 /\ w.allow = writing.allow /\ w.policy = writing.policy
                 /\ w.kind = "failing"
                 /\ w.created \in {<< "allow" >>, << "allow", "policy" >>, << "policy" >>}
    BY <1>0, <1>2, <1>4, <1>6, <1>7, <1>8, TakeBackShape DEF ConnectivityInv
  <1>9. Onward # Nothing =>
          /\ DOMAIN Onward = {"kind", "allow", "policy", "created"}
          /\ Onward.allow = writing.allow /\ Onward.policy = writing.policy
          /\ Onward.kind = "proposal" /\ Onward.created = << "allow" >>
          /\ writing.created = << >>
    BY <1>1, <1>2, <1>4 DEF Onward
  <1>10. PICK onward : onward = Onward
    OBVIOUS
  <1>11. CASE draft[Target] # Nothing /\ writing' = back /\ draft' = draft
    <2>1. ConnectivityTypes' /\ Reported'
      BY <1>1, <1>11 DEF ConnectivityInv, ConnectivityTypes, Reported
    <2>2. Written'
      BY <1>2, <1>8, <1>11 DEF Written
    <2>3. PoliciesRecorded' /\ AllowlistsReviewed'
      BY <1>1, <1>3, <1>8, <1>11 DEF ConnectivityInv, PoliciesRecorded, AllowlistsReviewed
    <2>4. DraftsPaired'
      BY <1>1, <1>11 DEF ConnectivityInv, DraftsPaired, Own
    <2> QED BY <2>1, <2>2, <2>3, <2>4 DEF ConnectivityInv
  <1>12. CASE /\ draft[Target] = Nothing
              /\ draft' = [draft EXCEPT ![Target] = [kind |-> "draft", of |-> writing[Target]]]
              /\ writing' \in {onward, back2}
    <2>1. /\ DOMAIN draft' = {"allow", "policy"}
          /\ draft'[t] = [kind |-> "draft", of |-> writing[t]]
          /\ \A k \in {"allow", "policy"} \ {t} : draft'[k] = draft[k]
      BY <1>3, <1>4, <1>5, <1>12
    <2>2. ConnectivityTypes' /\ Reported'
      BY <1>1, <2>1 DEF ConnectivityInv, ConnectivityTypes, Reported
    <2>3. CASE t = "allow"
      <3>1. /\ draft'["allow"].kind = "draft" /\ draft'["allow"].of = writing.allow
            /\ draft'["policy"] = draft["policy"]
        BY <2>1, <2>3
      <3>2. Written'
        BY <1>2, <1>8, <1>9, <1>10, <1>12, <3>1 DEF Written, Untouched
      <3>3. PoliciesRecorded' /\ AllowlistsReviewed'
        BY <1>1, <1>3, <1>8, <1>9, <1>10, <1>12, <3>1
           DEF ConnectivityInv, PoliciesRecorded, AllowlistsReviewed
      <3>4. DraftsPaired'
        BY <1>1, <1>2, <3>1 DEF DraftsPaired, Own, Untouched
      <3> QED BY <2>2, <3>2, <3>3, <3>4 DEF ConnectivityInv
    <2>4. CASE t = "policy"
      <3>1. /\ draft'["policy"].kind = "draft" /\ draft'["policy"].of = writing.policy
            /\ draft'["allow"] = draft["allow"]
            /\ draft.allow.kind = "draft" /\ draft.allow.of = writing.allow
            /\ writing.created # << >>
        BY <1>2, <1>4, <1>5, <2>1, <2>4
      <3>2. Written'
        BY <1>2, <1>8, <1>9, <1>10, <1>12, <3>1 DEF Written
      <3>3. PoliciesRecorded' /\ AllowlistsReviewed'
        BY <1>1, <1>3, <1>8, <1>9, <1>10, <1>12, <3>1
           DEF ConnectivityInv, PoliciesRecorded, AllowlistsReviewed
      <3>4. DraftsPaired'
        BY <1>1, <1>2, <3>1 DEF DraftsPaired, Own
      <3> QED BY <2>2, <3>2, <3>3, <3>4 DEF ConnectivityInv
    <2> QED BY <1>4, <1>5, <2>3, <2>4
  <1>13. CASE /\ draft[Target] = Nothing
              /\ draft' = [draft EXCEPT ![Target] = [kind |-> "partial"]]
              /\ writing' \in {back, back2}
    <2>1. /\ DOMAIN draft' = {"allow", "policy"}
          /\ draft'[t].kind = "partial"
          /\ \A k \in {"allow", "policy"} \ {t} : draft'[k] = draft[k]
      BY <1>3, <1>4, <1>5, <1>13
    <2>2. ConnectivityTypes' /\ Reported'
      BY <1>1, <2>1 DEF ConnectivityInv, ConnectivityTypes, Reported
    <2>3. Written'
      BY <1>2, <1>8, <1>13 DEF Written
    <2>4. CASE t = "allow"
      <3>1. draft'["allow"].kind = "partial" /\ draft'["policy"] = draft["policy"]
        BY <2>1, <2>4
      <3>2. PoliciesRecorded' /\ AllowlistsReviewed'
        BY <1>1, <1>3, <1>8, <1>13, <3>1
           DEF ConnectivityInv, PoliciesRecorded, AllowlistsReviewed
      <3>3. DraftsPaired'
        BY <1>1, <1>2, <3>1 DEF DraftsPaired, Own, Untouched
      <3> QED BY <2>2, <2>3, <3>2, <3>3 DEF ConnectivityInv
    <2>5. CASE t = "policy"
      <3>1. /\ draft'["policy"].kind = "partial" /\ draft'["allow"] = draft["allow"]
            /\ draft.allow.kind = "draft"
        BY <1>2, <1>4, <1>5, <2>1, <2>5
      <3>2. PoliciesRecorded' /\ AllowlistsReviewed'
        BY <1>1, <1>3, <1>8, <1>13, <3>1
           DEF ConnectivityInv, PoliciesRecorded, AllowlistsReviewed
      <3>3. DraftsPaired'
        BY <1>1, <3>1 DEF DraftsPaired, Own
      <3> QED BY <2>2, <2>3, <3>2, <3>3 DEF ConnectivityInv
    <2> QED BY <1>4, <1>5, <2>4, <2>5
  <1> QED BY <1>6, <1>7, <1>10, <1>11, <1>12, <1>13 DEF write_proposal

\* One file of a failed refresh is taken back; when it is the allowlist and the
\* policy draft stands, the policy draft is stranded until it goes too.
LEMMA UndoKeeps ==
    ConnectivityInv /\ Undo => ConnectivityInv'
  <1> SUFFICES ASSUME ConnectivityInv, Undo PROVE ConnectivityInv'
    OBVIOUS
  <1>0. writing # Nothing
    BY DEF Undo, Nothing
  <1>1. PICK w : w = TakeBack(Tail(writing.created))
    OBVIOUS
  <1>2. /\ UNCHANGED <<tree, head, policy, allow, report, seen>>
        /\ draft' = [draft EXCEPT ![Head(writing.created)] = Nothing]
        /\ writing' = w
        /\ stranded' = (Head(writing.created) = "allow" /\ Own("policy"))
        /\ writing.created \in {<< "allow" >>, << "allow", "policy" >>, << "policy" >>}
    BY <1>0, <1>1 DEF Undo, ConnectivityInv, Written
  <1>3. w # Nothing =>
          /\ DOMAIN w = {"kind", "allow", "policy", "created"}
          /\ w.allow = writing.allow /\ w.policy = writing.policy
          /\ w.kind = "failing"
          /\ w.created \in {<< "allow" >>, << "allow", "policy" >>, << "policy" >>}
    <2>1. Tail(writing.created) \in {<< >>, << "policy" >>}
      BY <1>2, CreatedLists
    <2> QED BY <1>0, <1>1, <2>1, TakeBackShape DEF ConnectivityInv
  <1>4. PICK k : k = Head(writing.created)
    OBVIOUS
  <1>5. k \in {"allow", "policy"}
    BY <1>2, <1>4, CreatedLists
  <1>6. /\ DOMAIN draft' = {"allow", "policy"}
        /\ draft'[k].kind = "nothing"
        /\ \A j \in {"allow", "policy"} \ {k} : draft'[j] = draft[j]
    BY <1>2, <1>4, <1>5 DEF ConnectivityInv, ConnectivityTypes, Nothing
  <1>7. ConnectivityTypes' /\ Reported'
    BY <1>2, <1>6 DEF ConnectivityInv, ConnectivityTypes, Reported
  <1>8. Written'
    <2>1. w # Nothing => DOMAIN writing.allow = writing.policy.rows
      BY <1>0 DEF ConnectivityInv, Written
    <2> QED BY <1>2, <1>3, <2>1 DEF Written
  <1>9. PoliciesRecorded' /\ AllowlistsReviewed'
    BY <1>0, <1>2, <1>3, <1>5, <1>6
       DEF ConnectivityInv, PoliciesRecorded, AllowlistsReviewed
  <1>10. DraftsPaired'
    <2>1. CASE k = "policy"
      BY <1>6, <2>1 DEF DraftsPaired, Own
    <2>2. CASE k = "allow"
      <3>1. draft'["allow"].kind = "nothing" /\ draft'["policy"] = draft["policy"]
        BY <1>6, <2>2
      <3>2. Own("policy") => stranded'
        BY <1>2, <1>4, <2>2
      <3> QED BY <3>1, <3>2 DEF DraftsPaired, Own
    <2> QED BY <1>5, <2>1, <2>2
  <1> QED BY <1>7, <1>8, <1>9, <1>10 DEF ConnectivityInv

\* A file somebody else leaves where a draft would be, beside a refresh or not.
LEMMA ForeignKeeps ==
    ASSUME NEW k \in {"allow", "policy"}, ConnectivityInv, Foreign(k)
    PROVE  ConnectivityInv'
  <1>1. /\ UNCHANGED <<tree, head, policy, allow, report, writing, seen, stranded>>
        /\ draft[k] = Nothing /\ draft' = [draft EXCEPT ![k] = [kind |-> "foreign"]]
    BY DEF Foreign
  <1>2. DOMAIN draft = {"allow", "policy"}
    BY DEF ConnectivityInv, ConnectivityTypes
  <1>3. draft[k].kind = "nothing"
    BY <1>1 DEF Nothing
  <1>4. /\ DOMAIN draft' = {"allow", "policy"}
        /\ draft'[k].kind = "foreign"
        /\ \A j \in {"allow", "policy"} : j # k => draft'[j] = draft[j]
    BY <1>1, <1>2
  <1>5. ConnectivityTypes' /\ Reported'
    BY <1>1, <1>4 DEF ConnectivityInv, ConnectivityTypes, Reported
  <1>6. CASE k = "allow"
    <2>1. /\ draft.allow.kind = "nothing" /\ draft'["allow"].kind = "foreign"
          /\ draft'["policy"] = draft["policy"]
      BY <1>3, <1>4, <1>6
    <2>2. PoliciesRecorded' /\ AllowlistsReviewed' /\ DraftsPaired'
      BY <1>1, <2>1 DEF ConnectivityInv, PoliciesRecorded, AllowlistsReviewed, DraftsPaired, Own
    <2>3. Written'
      BY <1>1, <2>1 DEF ConnectivityInv, Written, Untouched
    <2> QED BY <1>5, <2>2, <2>3 DEF ConnectivityInv
  <1>7. CASE k = "policy"
    <2>1. /\ draft.policy.kind = "nothing" /\ draft'["policy"].kind = "foreign"
          /\ draft'["allow"] = draft["allow"]
      BY <1>3, <1>4, <1>7
    <2>2. PoliciesRecorded' /\ AllowlistsReviewed' /\ DraftsPaired'
      BY <1>1, <2>1 DEF ConnectivityInv, PoliciesRecorded, AllowlistsReviewed, DraftsPaired, Own
    <2>3. Written'
      BY <1>1, <2>1 DEF ConnectivityInv, Written, Untouched
    <2> QED BY <1>5, <2>2, <2>3 DEF ConnectivityInv
  <1> QED BY <1>6, <1>7

LEMMA InvNext == ConnectivityInv /\ [Next]_vars => ConnectivityInv'
  <1> SUFFICES ASSUME ConnectivityInv, [Next]_vars PROVE ConnectivityInv'
    OBVIOUS
  <1> USE DEF ConnectivityInv, ConnectivityTypes, Reported, PoliciesRecorded,
              AllowlistsReviewed, Written, DraftsPaired, Untouched, Own
  <1>1. ASSUME NEW p \in Paths, Edit(p) PROVE ConnectivityInv'
    <2>1. PICK c \in Contents[p] : tree' = [tree EXCEPT ![p] = c]
      BY <1>1 DEF Edit
    <2>2. tree' \in Trees
      BY <2>1 DEF Trees
    <2> QED BY <1>1, <2>2 DEF Edit
  <1>2. CASE Commit
    BY <1>2 DEF Commit
  <1>3. CASE Build
    <2>1. PICK clean \in BOOLEAN :
            report' = [kind |-> "report", commit |-> head, rows |-> RowsOf(head),
                       clean |-> clean, baseline |-> policy]
      BY <1>3 DEF Build
    <2>2. Reported'
      BY <1>3, <2>1 DEF Build
    <2> QED BY <1>3, <2>2 DEF Build
  <1>4. CASE Crash
    BY <1>4 DEF Crash
  <1>5. CASE Clear
    <2>1. draft' = [k \in {"allow", "policy"} |-> Nothing]
      BY <1>5 DEF Clear
    <2>2. /\ DOMAIN draft' = {"allow", "policy"}
          /\ draft'["allow"].kind = "nothing" /\ draft'["policy"].kind = "nothing"
      BY <2>1 DEF Nothing
    <2> QED BY <1>5, <2>2 DEF Clear
  <1>6. CASE InstallPolicy
    BY <1>6 DEF InstallPolicy
  <1>7. CASE InstallAllowlist
    BY <1>7 DEF InstallAllowlist
  <1>8. CASE UNCHANGED vars
    BY <1>8 DEF vars
  <1> QED
    BY <1>1, <1>2, <1>3, <1>4, <1>5, <1>6, <1>7, <1>8, RefreshKeeps, WriteKeeps, UndoKeeps,
       ForeignKeeps DEF Next

\* quartus_connectivity_policy_refresh.py:write_proposal: two drafts are of one
\* proposal, and a policy draft, whole or cut short, stands without the complete
\* allowlist only if the taking back of a failed call was stopped half-way.
THEOREM DraftsStayPaired == Spec => []DraftsPaired
  <1>1. ConnectivityInv => DraftsPaired
    BY DEF ConnectivityInv
  <1> QED BY <1>1, InvInit, InvNext, PTL DEF Spec

-----------------------------------------------------------------------------
\* What the audit accepts, and the way out

\* A policy that matches the working tree exactly pins it: every file reached
\* is what it was in the commit the policy records.
LEMMA BindingsPin ==
    ASSUME NEW pol, tree \in Trees, Recorded(pol), pol.magic = "V2",
           _validate_source_bindings(pol)
    PROVE  /\ Reaches(tree) = Reaches(pol.commit)
           /\ RowsOf(tree) = RowsOf(pol.commit)
           /\ \A p \in Reaches(tree) : tree[p] = pol.commit[p]
  <1>1. Closure(tree).ok /\ pol.closure = Closure(tree).paths /\ pol.bindings = Bindings(tree)
    BY DEF _validate_source_bindings
  <1>2. Closure(tree).paths = Reaches(tree)
    BY <1>1, ClosureExact DEF Closure
  <1>3. \A p \in Reaches(tree) : pol.bindings[p] = tree[p]
    BY <1>1, <1>2 DEF Bindings
  <1>4. \A p \in Reaches(tree) : tree[p] = pol.commit[p]
    BY <1>1, <1>2, <1>3 DEF Recorded
  <1>5. pol.commit \in Trees
    BY DEF Recorded
  <1>6. Reaches(pol.commit) = Reaches(tree) /\ RowsOf(pol.commit) = RowsOf(tree)
    BY <1>4, <1>5, AgreeingReach
  <1> QED BY <1>4, <1>6

\* quartus_connectivity_policy.py:review_report: every row the audit lets
\* through has been reviewed, and under a V2 policy so has the source of it.
THEOREM AcceptedIsReviewed == Spec => []AcceptedWasReviewed
  <1>1. ConnectivityInv => AcceptedWasReviewed
    <2> SUFFICES ASSUME ConnectivityInv PROVE AcceptedWasReviewed
      OBVIOUS
    <2>1. ASSUME AuditAccepts(report) PROVE report.rows \subseteq seen
      BY <2>1 DEF AuditAccepts, extract_warning_rows, review_report, _load_allowlist,
                  ConnectivityInv, AllowlistsReviewed
    <2>2. ASSUME policy.magic = "V2", review_report(report)
          PROVE  /\ Reaches(tree) = Reaches(policy.commit)
                 /\ \A p \in Reaches(tree) : tree[p] = policy.commit[p]
      <3>1. _validate_source_bindings(policy) /\ tree \in Trees /\ Recorded(policy)
        BY <2>2 DEF review_report, ConnectivityInv, ConnectivityTypes, PoliciesRecorded
      <3> QED BY <2>2, <3>1, BindingsPin
    <2> QED BY <2>1, <2>2 DEF AcceptedWasReviewed
  <1> QED BY <1>1, InvInit, InvNext, PTL DEF Spec

\* quartus_connectivity_refresh_gate.py, quartus_connectivity_policy_refresh.py:
\* a sound committed tree never gets stuck between an audit that rejects it and
\* a gate that refuses to refresh the policy.
THEOREM RefreshStaysOpen == Spec => []RefreshOpen
  <1>1. ConnectivityInv => RefreshOpen
    <2> SUFFICES ASSUME ConnectivityInv,
                        report # Nothing, policy.magic = "V2", _read_policy, tree = head,
                        report.commit = head, report.clean, report.baseline = policy,
                        ~AuditAccepts(report)
                 PROVE  /\ audit_refresh(report)
                        /\ LET added == extract_warning_rows(report) \ _load_allowlist
                           IN prepare_refresh(report, [given |-> added # {}, rows |-> added]).ok
      BY DEF RefreshOpen
    <2>1. /\ tree \in Trees /\ Recorded(policy)
          /\ report.rows = RowsOf(head)
          /\ \A p \in Reaches(head) : Readable(head, p)
      BY DEF ConnectivityInv, ConnectivityTypes, PoliciesRecorded, Reported
    <2>2. Closure(head).ok
      <3>1. \A p \in Reaches(head) : Readable(head, p) /\ p \in _index_entries
        BY <2>1, ReachesLeast DEF _index_entries, Readable
      <3> QED BY <2>1, <3>1, SoundTreeCloses DEF Closure
    <2>3. \A p \in Closure(head).paths : head[p] # Absent
      BY <2>1, <2>2, ClosureExact DEF Closure
    <2>4. ~_validate_source_bindings(policy)
      <3> SUFFICES ASSUME _validate_source_bindings(policy) PROVE FALSE
        OBVIOUS
      <3>1. report.rows = policy.rows
        BY <2>1, BindingsPin DEF Recorded
      <3>2. report.rows = DOMAIN allow
        BY <3>1 DEF _read_policy
      <3> QED BY <3>2 DEF AuditAccepts, review_report, extract_warning_rows, _load_allowlist
    <2>5. _require_exact_source_drift(policy) \cap {"current", "refused"} = {}
      <3>1. CASE Changed(policy) \cup Removed(policy) # {}
        <4>1. \A p \in Changed(policy) \cup Removed(policy) :
                p \in Changed(policy) \/ (Closure(tree).ok /\ p \notin Closure(tree).paths)
          BY <2>2, <2>3 DEF Removed
        <4>2. _require_exact_source_drift(policy) \subseteq
                {"bound_source_changed", "bound_source_removed"}
          BY <2>4, <3>1, <4>1 DEF _require_exact_source_drift
        <4> QED BY <4>2
      <3>2. CASE Changed(policy) \cup Removed(policy) = {}
        BY <2>2, <2>4, <3>2 DEF _require_exact_source_drift
      <3> QED BY <3>1, <3>2
    <2>6. extract_warning_rows(report) # {}
      BY DEF AuditAccepts
    <2>7. audit_refresh(report)
      BY <2>5, <2>6 DEF audit_refresh
    <2>8. _require_clean_checkout(report.commit)
      BY <2>2 DEF _require_clean_checkout, committed_bindings
    <2>9. PICK added : added = extract_warning_rows(report) \ _load_allowlist
      OBVIOUS
    <2>10. prepare_refresh(report, [given |-> added # {}, rows |-> added]).ok
      BY <2>8, <2>9 DEF prepare_refresh, Approved
    <2> QED BY <2>7, <2>9, <2>10
  <1> QED BY <1>1, InvInit, InvNext, PTL DEF Spec
=============================================================================
