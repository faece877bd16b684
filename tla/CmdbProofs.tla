----------------------------- MODULE CmdbProofs -----------------------------
(***************************************************************************)
(* Theorems about the relationships and suggestions, the template versions  *)
(* and the technical inventory, for any customer and any number of requests. *)
(***************************************************************************)
EXTENDS Cmdb, FiniteSetTheorems, SequenceTheorems, WellFoundedInduction, TLAPS

----------------------------------------------------------------------------
(* Induction, in a form that the provers can use: over sets *)

\* Every set of natural numbers that is not empty has a least member.
LEMMA LeastNumber ==
    ASSUME NEW M \in SUBSET Nat, M # {}
    PROVE  \E m \in M : \A k \in M : m <= k
  <1> DEFINE F == {1..n : n \in M}
  <1>1. F \subseteq FiniteSubsetsOf(Nat) /\ F # {}
    <2>1. \A n \in M : 1..n \subseteq Nat /\ IsFiniteSet(1..n)
      BY FS_Interval
    <2> QED
      BY <2>1 DEF FiniteSubsetsOf
  <1>2. IsWellFoundedOn(StrictSubsetOrdering(Nat), FiniteSubsetsOf(Nat))
    BY FS_StrictSubsetOrderingWellFounded
  <1>3. PICK x \in F : \A y \in F : ~ (<<y, x>> \in StrictSubsetOrdering(Nat))
    <2> HIDE DEF F
    <2> QED
      BY <1>1, <1>2, WFMin
  <1>4. PICK m \in M : x = 1..m
    BY <1>3
  <1>5. ASSUME NEW k \in M, k < m PROVE FALSE
    <2>1. 1..k \in F /\ 1..k \subseteq 1..m /\ 1..k # 1..m /\ 1..m \subseteq Nat /\ 1..k \subseteq Nat
      BY <1>5
    <2>2. <<1..k, 1..m>> \in StrictSubsetOrdering(Nat)
      BY <2>1 DEF StrictSubsetOrdering
    <2> QED
      BY <2>1, <2>2, <1>3, <1>4
  <1> QED
    BY <1>5

LEMMA NumberInduction ==
    ASSUME NEW P, 0 \in P, \A n \in Nat : n \in P => n + 1 \in P
    PROVE  Nat \subseteq P
  <1> SUFFICES ASSUME Nat \ P # {} PROVE FALSE
    OBVIOUS
  <1>1. PICK m \in Nat \ P : \A k \in Nat \ P : m <= k
    BY LeastNumber
  <1>2. m # 0
    OBVIOUS
  <1>3. m - 1 \in Nat /\ m - 1 \in P
    BY <1>1, <1>2
  <1>4. (m - 1) + 1 \in P
    BY <1>3
  <1> QED
    BY <1>1, <1>4

Iterated(f, N, base, step) ==
    \A n \in 0..N : f[n] = IF n = 0 THEN base ELSE step[f[n - 1]]

\* A set that starts as base and is mapped by step again and again is there.
LEMMA Iteration ==
    ASSUME NEW S, NEW base \in S, NEW step \in [S -> S], NEW N \in Nat
    PROVE  \E f \in [0..N -> S] : Iterated(f, N, base, step)
  <1> DEFINE P == {m \in Nat : \E f \in [0..m -> S] : Iterated(f, m, base, step)}
  <1>1. 0 \in P
    <2> DEFINE f == [n \in 0..0 |-> base]
    <2>1. f \in [0..0 -> S] /\ Iterated(f, 0, base, step)
      BY DEF Iterated
    <2> QED
      BY <2>1
  <1>2. ASSUME NEW m \in Nat, m \in P PROVE m + 1 \in P
    <2>1. PICK f \in [0..m -> S] : Iterated(f, m, base, step)
      BY <1>2
    <2> DEFINE g == [n \in 0..(m + 1) |-> IF n = m + 1 THEN step[f[m]] ELSE f[n]]
    <2>2. g \in [0..(m + 1) -> S]
      OBVIOUS
    <2>3. ASSUME NEW n \in 0..(m + 1)
          PROVE  g[n] = IF n = 0 THEN base ELSE step[g[n - 1]]
      <3>1. CASE n = m + 1
        BY <3>1
      <3>2. CASE n = 0
        BY <2>1, <3>2 DEF Iterated
      <3>3. CASE n \in 1..m
        BY <2>1, <3>3 DEF Iterated
      <3> QED
        BY <3>1, <3>2, <3>3
    <2>4. Iterated(g, m + 1, base, step)
      BY <2>3 DEF Iterated
    <2> HIDE DEF g
    <2> QED
      BY <2>2, <2>4
  <1> HIDE DEF P
  <1>3. N \in P
    BY <1>1, <1>2, NumberInduction
  <1> QED
    BY <1>3 DEF P

----------------------------------------------------------------------------
(* Dependencies *)

LEMMA GraphBounds ==
    /\ IsFiniteSet(CIs)
    /\ \A e \in Edges : e = <<e[1], e[2], e[3]>> /\ e[1] \in CIs /\ e[2] \in CIs \ {e[1]}
    /\ Suggested \subseteq Edges /\ Automatic \subseteq Suggested
    /\ \A e \in Suggested : e[3] \notin Symmetric \cup {"depends_on"}
    /\ MinObservations \in Nat \ {0} /\ AutoGenerations \subseteq 1..MaxGeneration
    /\ MaxTime \in Nat /\ MaxGeneration \in Nat \ {0} /\ MaxRevision \in Nat
  BY CmdbAssumption DEF R!GraphAssumption, R!IsFiniteSet, IsFiniteSet

\* What X's members depend on directly is in X.
Closed(X, live) == \A f \in live : f[3] = "depends_on" /\ f[1] \in X => f[2] \in X

LEMMA GraphCardinality == \A S : R!Cardinality(S) = Cardinality(S)
  BY DEF R!Cardinality, Cardinality

Further(live, X) == X \cup {d[2] : d \in {f \in live : f[3] = "depends_on" /\ f[1] \in X}}

LEMMA ReachRecursion ==
    ASSUME NEW live \in SUBSET Edges, NEW from \in CIs
    PROVE  \E reach \in [0..Cardinality(CIs) -> SUBSET CIs] :
              /\ R!DependenciesOf(live, from) = reach[Cardinality(CIs)]
              /\ \A n \in 0..Cardinality(CIs) :
                    reach[n] = IF n = 0 THEN {from} ELSE Further(live, reach[n - 1])
  <1> DEFINE N == Cardinality(CIs)
             step == [X \in SUBSET CIs |-> Further(live, X)]
             Good(f) == f = [n \in 0..N |-> IF n = 0 THEN {from} ELSE Further(live, f[n - 1])]
  <1>1. N \in Nat
    BY GraphBounds, FS_CardinalityType
  <1>2. step \in [SUBSET CIs -> SUBSET CIs]
    BY GraphBounds DEF Further
  <1>3. PICK h \in [0..N -> SUBSET CIs] :
           \A n \in 0..N : h[n] = IF n = 0 THEN {from} ELSE step[h[n - 1]]
    <2>1. {from} \in SUBSET CIs
      OBVIOUS
    <2>2. N \in Nat /\ step \in [SUBSET CIs -> SUBSET CIs]
      BY <1>1, <1>2
    <2> HIDE DEF N, step
    <2>3. \E h \in [0..N -> SUBSET CIs] : Iterated(h, N, {from}, step)
      BY <2>1, <2>2, Iteration
    <2> QED
      BY <2>3 DEF Iterated
  <1>4. Good(h)
    <2>1. ASSUME NEW n \in 0..N
          PROVE  h[n] = IF n = 0 THEN {from} ELSE Further(live, h[n - 1])
      <3>1. n # 0 => h[n - 1] \in SUBSET CIs
        BY <1>1 
      <3> HIDE DEF N
      <3> QED
        BY <1>1, <1>3, <3>1
    <2> HIDE DEF N
    <2> QED
      BY <1>3, <2>1
  <1> DEFINE reach == CHOOSE g : Good(g)
  <1>5. Good(reach)
    <2> HIDE DEF Good
    <2> QED
      BY <1>4
  <1>6. R!DependenciesOf(live, from) = reach[N]
    BY GraphCardinality DEF R!DependenciesOf, Further
  <1>7. \A n \in 0..N : reach[n] = IF n = 0 THEN {from} ELSE Further(live, reach[n - 1])
    <2> HIDE DEF reach, N
    <2> QED
      BY <1>5
  <1>8. reach \in [0..N -> SUBSET CIs]
    <2> DEFINE P == {n \in Nat : n <= N => reach[n] \in SUBSET CIs}
    <2> HIDE DEF reach, N
    <2>1. 0 \in P
      BY <1>1, <1>7
    <2>2. ASSUME NEW n \in Nat, n \in P PROVE n + 1 \in P
      <3>1. CASE n + 1 <= N
        <4>1. reach[n] \in SUBSET CIs /\ n + 1 \in 0..N /\ n + 1 # 0 /\ (n + 1) - 1 = n
          BY <1>1, <2>2, <3>1
        <4>2. reach[n + 1] = Further(live, reach[n])
          BY <1>7, <4>1
        <4> QED
          BY <4>1, <4>2, GraphBounds DEF Further
      <3> QED
        BY <3>1
    <2> HIDE DEF P
    <2>3. Nat \subseteq P
      BY <2>1, <2>2, NumberInduction
    <2>4. \A n \in 0..N : reach[n] \in SUBSET CIs
      BY <1>1, <2>3 DEF P
    <2> QED
      BY <1>5, <2>4
  <1> QED
    BY <1>6, <1>7, <1>8

\* What an item depends on, in any number of steps, is the least set that holds it and is
\* closed.  As many steps as there are items are enough: each adds an item or is the last.
LEMMA Dependencies ==
    ASSUME NEW live \in SUBSET Edges, NEW from \in CIs
    PROVE  /\ from \in R!DependenciesOf(live, from)
           /\ Closed(R!DependenciesOf(live, from), live)
           /\ \A X : from \in X /\ Closed(X, live) => R!DependenciesOf(live, from) \subseteq X
  <1> DEFINE N == Cardinality(CIs)
  <1>1. N \in Nat
    BY GraphBounds, FS_CardinalityType
  <1>2. PICK reach \in [0..N -> SUBSET CIs] :
           /\ R!DependenciesOf(live, from) = reach[N]
           /\ \A n \in 0..N : reach[n] = IF n = 0 THEN {from} ELSE Further(live, reach[n - 1])
    BY ReachRecursion
  <1> HIDE DEF N
  <1>3. ASSUME NEW n \in Nat, n + 1 <= N
        PROVE  n \in 0..N /\ reach[n] \in SUBSET CIs /\ reach[n + 1] = Further(live, reach[n])
    <2>1. n \in 0..N /\ n + 1 \in 0..N /\ n + 1 # 0 /\ (n + 1) - 1 = n
      BY <1>1, <1>3
    <2> QED
      BY <1>2, <2>1
  <1>4. from \in reach[N]
    <2> DEFINE P == {n \in Nat : n <= N => from \in reach[n]}
    <2>1. 0 \in P
      BY <1>1, <1>2
    <2>2. ASSUME NEW n \in Nat, n \in P PROVE n + 1 \in P
      BY <1>1, <1>3, <2>2 DEF Further
    <2> HIDE DEF P
    <2>3. N \in P
      BY <1>1, <2>1, <2>2, NumberInduction
    <2> QED
      BY <1>1, <2>3 DEF P
  <1>5. ASSUME NEW X, from \in X, Closed(X, live) PROVE reach[N] \subseteq X
    <2> DEFINE P == {n \in Nat : n <= N => reach[n] \subseteq X}
    <2>1. 0 \in P
      BY <1>1, <1>2, <1>5
    <2>2. ASSUME NEW n \in Nat, n \in P PROVE n + 1 \in P
      <3> SUFFICES ASSUME n + 1 <= N PROVE reach[n + 1] \subseteq X
        OBVIOUS
      <3>1. reach[n] \subseteq X /\ reach[n + 1] = Further(live, reach[n])
        BY <1>1, <1>3, <2>2
      <3> QED
        BY <1>5, <3>1 DEF Further, Closed
    <2> HIDE DEF P
    <2>3. N \in P
      BY <1>1, <2>1, <2>2, NumberInduction
    <2> QED
      BY <1>1, <2>3 DEF P
  <1>6. Closed(reach[N], live)
    <2> DEFINE P == {n \in Nat : n <= N => Closed(reach[n], live) \/ Cardinality(reach[n]) > n}
    <2>1. 0 \in P
      <3>1. reach[0] = {from}
        BY <1>1, <1>2
      <3>2. Cardinality({from}) = 1
        BY FS_Singleton
      <3>3. Cardinality(reach[0]) > 0
        BY <3>1, <3>2
      <3> QED
        BY <3>3
    <2>2. ASSUME NEW n \in Nat, n \in P PROVE n + 1 \in P
      <3> SUFFICES ASSUME n + 1 <= N
                   PROVE  Closed(reach[n + 1], live) \/ Cardinality(reach[n + 1]) > n + 1
        OBVIOUS
      <3>1. n <= N /\ reach[n] \in SUBSET CIs /\ reach[n + 1] = Further(live, reach[n])
        BY <1>1, <1>3
      <3>2. CASE Closed(reach[n], live)
        <4>1. reach[n + 1] = reach[n]
          BY <3>1, <3>2 DEF Closed, Further
        <4> QED
          BY <3>2, <4>1
      <3>3. CASE ~Closed(reach[n], live)
        <4>1. Cardinality(reach[n]) > n
          BY <2>2, <3>1, <3>3
        <4>2. PICK f \in live : f[3] = "depends_on" /\ f[1] \in reach[n] /\ f[2] \notin reach[n]
          BY <3>3 DEF Closed
        <4>3. PICK x \in CIs : x = f[2]
          BY GraphBounds
        <4>4. reach[n] \cup {x} \subseteq reach[n + 1] /\ reach[n + 1] \subseteq CIs
          BY <3>1, <4>2, <4>3, GraphBounds DEF Further
        <4>5. IsFiniteSet(reach[n]) /\ IsFiniteSet(reach[n + 1])
          <5>1. reach[n] \subseteq CIs /\ reach[n + 1] \subseteq CIs
            BY <3>1, <4>4
          <5> QED
            BY <5>1, GraphBounds, FS_Subset
        <4>6. Cardinality(reach[n] \cup {x}) = Cardinality(reach[n]) + 1
          <5>1. x \notin reach[n]
            BY <4>2, <4>3
          <5> QED
            BY <4>5, <5>1, FS_AddElement
        <4>7. /\ Cardinality(reach[n]) \in Nat /\ Cardinality(reach[n + 1]) \in Nat
              /\ Cardinality(reach[n] \cup {x}) <= Cardinality(reach[n + 1])
          BY <4>4, <4>5, FS_CardinalityType, FS_Subset
        <4> QED
          BY <4>1, <4>6, <4>7
      <3> QED
        BY <3>2, <3>3
    <2> HIDE DEF P
    <2>3. N \in P
      BY <1>1, <2>1, <2>2, NumberInduction
    <2>4. N \in 0..N /\ reach[N] \subseteq CIs
      BY <1>1, <1>2
    <2>5. Cardinality(reach[N]) \in Nat /\ Cardinality(reach[N]) <= N
      <3>1. IsFiniteSet(reach[N]) /\ Cardinality(reach[N]) <= Cardinality(CIs)
        BY <2>4, GraphBounds, FS_Subset
      <3> QED
        BY <3>1, FS_CardinalityType DEF N
    <2> QED
      BY <1>1, <2>3, <2>5 DEF P
  <1> QED
    BY <1>2, <1>4, <1>5, <1>6

SoundSet(S) == \A e \in S : ~R!ClosesCycle(S \ {e}, e) /\ R!Matching(S, e) = {e}

\* An edge that closes no cycle is held apart by a closed set.
LEMMA NoCycle ==
    ASSUME NEW live \in SUBSET Edges, NEW e \in Edges
    PROVE  ~R!ClosesCycle(live, e) <=>
             (e[3] = "depends_on" => \E X : e[2] \in X /\ e[1] \notin X /\ Closed(X, live))
  <1>1. e[1] \in CIs /\ e[2] \in CIs
    BY GraphBounds
  <1> QED
    BY <1>1, Dependencies DEF R!ClosesCycle

LEMMA SoundShrinks ==
    ASSUME NEW S \in SUBSET Edges, SoundSet(S), NEW U \in SUBSET S
    PROVE  SoundSet(U)
  <1> SUFFICES ASSUME NEW e \in U
               PROVE  ~R!ClosesCycle(U \ {e}, e) /\ R!Matching(U, e) = {e}
    BY DEF SoundSet
  <1>1. ~R!ClosesCycle(S \ {e}, e) /\ R!Matching(S, e) = {e}
    BY DEF SoundSet
  <1>2. S \ {e} \in SUBSET Edges /\ U \ {e} \in SUBSET Edges /\ e \in Edges
    OBVIOUS
  <1>3. ~R!ClosesCycle(U \ {e}, e)
    <2> SUFFICES ASSUME e[3] = "depends_on"
                 PROVE  \E X : e[2] \in X /\ e[1] \notin X /\ Closed(X, U \ {e})
      BY <1>2, NoCycle
    <2>1. PICK X : e[2] \in X /\ e[1] \notin X /\ Closed(X, S \ {e})
      BY <1>1, <1>2, NoCycle
    <2>2. Closed(X, U \ {e})
      BY <2>1 DEF Closed
    <2> QED
      BY <2>1, <2>2
  <1>4. R!Matching(U, e) = {e}
    BY <1>1 DEF R!Matching
  <1> QED
    BY <1>3, <1>4

\* An edge that was checked against all the live ones keeps the sound ones sound.  Of the
\* closed set X that holds another edge apart and the closed set Y that holds the new one
\* apart, X, the union or the intersection holds the other edge apart from then on.
LEMMA SoundGrows ==
    ASSUME NEW live \in SUBSET Edges, NEW S \in SUBSET live, SoundSet(S), NEW g \in Edges,
           R!Matching(live, g) = {}, ~R!ClosesCycle(live, g)
    PROVE  SoundSet(S \cup {g})
  <1> DEFINE U == S \cup {g}
  <1> SUFFICES ASSUME NEW e \in U
               PROVE  ~R!ClosesCycle(U \ {e}, e) /\ R!Matching(U, e) = {e}
    BY DEF SoundSet
  <1>1. /\ U \ {e} \in SUBSET Edges /\ S \ {e} \in SUBSET Edges /\ e \in Edges
        /\ S \subseteq Edges /\ g \notin live
    BY DEF R!Matching
  <1>2. R!Matching(U, e) = {e}
    <2>1. CASE e = g
      BY <2>1 DEF R!Matching
    <2>2. CASE e \in S
      <3>1. R!Matching(S, e) = {e}
        BY <2>2 DEF SoundSet
      <3>2. ASSUME e[3] \in Symmetric, R!Reverse(e) = g PROVE FALSE
        <4>1. e = <<e[1], e[2], e[3]>> /\ g = <<e[2], e[1], e[3]>>
          BY <1>1, <3>2, GraphBounds DEF R!Reverse
        <4>2. R!Reverse(g) = e /\ g[3] = e[3]
          BY <4>1 DEF R!Reverse
        <4> QED
          BY <2>2, <3>2, <4>2 DEF R!Matching
      <3> QED
        BY <2>2, <3>1, <3>2 DEF R!Matching
    <2> QED
      BY <2>1, <2>2
  <1>3. ~R!ClosesCycle(U \ {e}, e)
    <2> SUFFICES ASSUME e[3] = "depends_on"
                 PROVE  \E X : e[2] \in X /\ e[1] \notin X /\ Closed(X, U \ {e})
      BY <1>1, NoCycle
    <2>1. CASE e = g
      <3>1. PICK Y : g[2] \in Y /\ g[1] \notin Y /\ Closed(Y, live)
        BY <2>1, NoCycle
      <3>2. Closed(Y, U \ {e})
        BY <2>1, <3>1 DEF Closed
      <3> QED
        BY <2>1, <3>1, <3>2
    <2>2. CASE e \in S /\ e # g
      <3>1. PICK X : e[2] \in X /\ e[1] \notin X /\ Closed(X, S \ {e})
        <4>1. ~R!ClosesCycle(S \ {e}, e)
          BY <2>2 DEF SoundSet
        <4> QED
          BY <1>1, <4>1, NoCycle
      <3>2. CASE g[3] # "depends_on" \/ g[1] \notin X
        <4>1. Closed(X, U \ {e})
          BY <3>1, <3>2 DEF Closed
        <4> QED
          BY <3>1, <4>1
      <3>3. CASE g[3] = "depends_on" /\ g[1] \in X
        <4>1. PICK Y : g[2] \in Y /\ g[1] \notin Y /\ Closed(Y, live)
          BY <3>3, NoCycle
        <4>2. CASE e[1] \notin Y
          <5>1. Closed(X \cup Y, U \ {e})
            BY <3>1, <4>1 DEF Closed
          <5> QED
            BY <3>1, <4>2, <5>1
        <4>3. CASE e[1] \in Y
          <5>1. e[2] \in Y
            BY <2>2, <4>1, <4>3 DEF Closed
          <5>2. Closed(X \cap Y, U \ {e})
            BY <3>1, <4>1 DEF Closed
          <5> QED
            BY <3>1, <5>1, <5>2
        <4> QED
          BY <4>2, <4>3
      <3> QED
        BY <3>2, <3>3
    <2> QED
      BY <2>1, <2>2
  <1> QED
    BY <1>2, <1>3

----------------------------------------------------------------------------
(* Relationships and suggestions *)

EdgeRow == [live : BOOLEAN, owner : {"none", "manual", "provider"}]
Candidate == [state : R!States, retired : BOOLEAN, seen : 0..MaxTime, print : Prints \cup {"none"},
              context : Nat, revision : 0..MaxRevision, observations : Nat]
Create == [kind : {"create"}, edge : Edges, read : SUBSET Edges]
Decide == [kind : {"decide"}, key : Suggested, read : Candidate]
Found == [kind : {"store"}, print : UNION {[S -> Prints] : S \in SUBSET Suggested},
          time : 1..MaxTime, generation : 1..MaxGeneration]
Stored == [kind : {"list"}, generation : 1..MaxGeneration]
Listed == [kind : {"approve"}, generation : 1..MaxGeneration,
           read : UNION {[S -> Candidate] : S \in SUBSET Suggested}]
RequestRow == {R!Idle} \cup Create \cup Decide
PassRow == {R!Idle} \cup Found \cup Stored \cup Listed

EdgeTypes == edges \in [Edges -> EdgeRow] /\ stale \subseteq Edges
CandidateTypes == /\ candidates \in [Suggested -> Candidate]
                  /\ retired \subseteq CIs /\ generation \in 1..MaxGeneration /\ ready \in BOOLEAN
                  /\ request \in [Requests -> RequestRow] /\ pass \in [Passes -> PassRow]

\* What a request or a preview has read is still so, or the revision tells.
AsRead(all, k, row) == /\ row.revision <= all[k].revision
                       /\ row.revision = all[k].revision => row = all[k]

RequestRead(row, all) ==
    /\ row.kind = "decide" => AsRead(all, row.key, row.read)
    /\ row.kind = "create" => /\ R!Matching(row.read, row.edge) = {}
                              /\ ~R!ClosesCycle(row.read, row.edge)

\* Nothing is approved under a policy without automation.
PassRead(row, all) ==
    row.kind = "approve" => \A k \in DOMAIN row.read :
                               AsRead(all, k, row.read[k]) /\ row.generation \in AutoGenerations

RequestsRead == \A q \in Requests : RequestRead(request[q], candidates)
PassesRead == \A p \in Passes : PassRead(pass[p], candidates)

GraphInv == EdgeTypes /\ CandidateTypes /\ RequestsRead /\ PassesRead /\ SoundSet(R!Live \ stale)

\* Suggestions change with their revision.
Revised == /\ candidates' \in [Suggested -> Candidate]
           /\ \A k \in Suggested : \/ candidates'[k] = candidates[k]
                                   \/ candidates'[k].revision > candidates[k].revision

LEMMA IdleGraph == R!Idle.kind = "idle" /\ R!Idle \in RequestRow /\ R!Idle \in PassRow
  BY DEF R!Idle, RequestRow, PassRow

LEMMA KindOfRequest ==
    ASSUME NEW row \in RequestRow
    PROVE  /\ row.kind \in {"idle", "create", "decide"}
           /\ row.kind = "idle" => row = R!Idle
           /\ row.kind = "create" => row \in Create
           /\ row.kind = "decide" => row \in Decide
  BY DEF RequestRow, Create, Decide, R!Idle

LEMMA KindOfPass ==
    ASSUME NEW row \in PassRow
    PROVE  /\ row.kind \in {"idle", "store", "list", "approve"}
           /\ row.kind = "idle" => row = R!Idle
           /\ row.kind = "store" => row \in Found
           /\ row.kind = "list" => row \in Stored
           /\ row.kind = "approve" => row \in Listed
  BY DEF PassRow, Found, Stored, Listed, R!Idle

LEMMA ListedRows ==
    ASSUME NEW row \in Listed, NEW k \in DOMAIN row.read
    PROVE  k \in Suggested /\ row.read[k] \in Candidate
  BY DEF Listed

LEMMA StillAsRead ==
    ASSUME CandidateTypes, Revised, NEW k \in Suggested, NEW row \in Candidate,
           AsRead(candidates, k, row)
    PROVE  AsRead(candidates', k, row)
  <1>1. /\ row.revision \in 0..MaxRevision /\ candidates[k].revision \in 0..MaxRevision
        /\ candidates'[k].revision \in 0..MaxRevision
    BY DEF CandidateTypes, Revised, Candidate
  <1> QED
    BY <1>1, GraphBounds DEF AsRead, Revised

LEMMA RequestStill ==
    ASSUME CandidateTypes, Revised, NEW row \in RequestRow, RequestRead(row, candidates)
    PROVE  RequestRead(row, candidates')
  <1>1. ASSUME row.kind = "decide" PROVE AsRead(candidates', row.key, row.read)
    <2>1. row.key \in Suggested /\ row.read \in Candidate
      BY <1>1, KindOfRequest DEF Decide
    <2> QED
      BY <1>1, <2>1, StillAsRead DEF RequestRead
  <1> QED
    BY <1>1 DEF RequestRead

LEMMA PassStill ==
    ASSUME CandidateTypes, Revised, NEW row \in PassRow, PassRead(row, candidates)
    PROVE  PassRead(row, candidates')
  <1> SUFFICES ASSUME row.kind = "approve", NEW k \in DOMAIN row.read
               PROVE  AsRead(candidates', k, row.read[k]) /\ row.generation \in AutoGenerations
    BY DEF PassRead
  <1>1. k \in Suggested /\ row.read[k] \in Candidate
    BY KindOfPass, ListedRows
  <1> QED
    BY <1>1, StillAsRead DEF PassRead

LEMMA IdleReads == \A all : RequestRead(R!Idle, all) /\ PassRead(R!Idle, all)
  BY IdleGraph DEF RequestRead, PassRead

\* One request or one preview goes on, the others stay as they are.
LEMMA RequestsStill ==
    ASSUME CandidateTypes, RequestsRead, Revised, NEW q \in Requests, NEW row \in RequestRow,
           request' = [request EXCEPT ![q] = row], RequestRead(row, candidates')
    PROVE  request' \in [Requests -> RequestRow] /\ RequestsRead'
  <1>1. request' \in [Requests -> RequestRow]
    BY DEF CandidateTypes
  <1>2. ASSUME NEW o \in Requests PROVE RequestRead(request'[o], candidates')
    <2>1. CASE o = q
      BY <2>1 DEF CandidateTypes
    <2>2. CASE o # q
      <3>1. request'[o] = request[o] /\ request[o] \in RequestRow
        BY <2>2 DEF CandidateTypes
      <3> QED
        BY <3>1, RequestStill DEF RequestsRead
    <2> QED
      BY <2>1, <2>2
  <1> QED
    BY <1>1, <1>2 DEF RequestsRead

LEMMA PassesStill ==
    ASSUME CandidateTypes, PassesRead, Revised, NEW p \in Passes, NEW row \in PassRow,
           pass' = [pass EXCEPT ![p] = row], PassRead(row, candidates')
    PROVE  pass' \in [Passes -> PassRow] /\ PassesRead'
  <1>1. pass' \in [Passes -> PassRow]
    BY DEF CandidateTypes
  <1>2. ASSUME NEW o \in Passes PROVE PassRead(pass'[o], candidates')
    <2>1. CASE o = p
      BY <2>1 DEF CandidateTypes
    <2>2. CASE o # p
      <3>1. pass'[o] = pass[o] /\ pass[o] \in PassRow
        BY <2>2 DEF CandidateTypes
      <3> QED
        BY <3>1, PassStill DEF PassesRead
    <2> QED
      BY <2>1, <2>2
  <1> QED
    BY <1>1, <1>2 DEF PassesRead

LEMMA NobodyReads ==
    ASSUME CandidateTypes, RequestsRead, PassesRead, Revised
    PROVE  /\ request' = request => RequestsRead'
           /\ pass' = pass => PassesRead'
  BY RequestStill, PassStill DEF CandidateTypes, RequestsRead, PassesRead

LEMMA Unrevised == CandidateTypes /\ candidates' = candidates => Revised
  BY DEF CandidateTypes, Revised

\* The edges of a step that changes none of them.
LEMMA SameEdges ==
    ASSUME EdgeTypes, SoundSet(R!Live \ stale), UNCHANGED <<edges, stale>>
    PROVE  EdgeTypes' /\ SoundSet(R!Live \ stale)'
  <1>1. R!Live' = R!Live
    BY DEF R!Live
  <1> QED
    BY <1>1 DEF EdgeTypes

LEMMA LiveEdges == R!Live \subseteq Edges /\ R!Live' \subseteq Edges
  BY DEF R!Live

LEMMA EdgeAdded ==
    ASSUME EdgeTypes, NEW e \in Edges, NEW owner \in {"manual", "provider"},
           edges' = R!Inserted(e, owner)
    PROVE  edges' \in [Edges -> EdgeRow] /\ R!Live' = R!Live \cup {e}
  <1>1. /\ edges' \in [Edges -> EdgeRow] /\ edges'[e].live
        /\ \A f \in Edges \ {e} : edges'[f] = edges[f]
    BY DEF EdgeTypes, EdgeRow, R!Inserted
  <1> QED
    BY <1>1 DEF R!Live

\* A decision changes the state and the revision of a suggestion.
LEMMA Decided ==
    ASSUME CandidateTypes, NEW k \in Suggested, NEW state \in R!States,
           candidates[k].revision < MaxRevision,
           candidates' = [candidates EXCEPT ![k].state = state, ![k].revision = @ + 1]
    PROVE  Revised
  <1>1. candidates[k] \in Candidate
    BY DEF CandidateTypes
  <1>2. PICK row : row = [candidates[k] EXCEPT !.state = state, !.revision = @ + 1]
    OBVIOUS
  <1>3. row \in Candidate /\ row.revision > candidates[k].revision
    <2>1. candidates[k].revision + 1 \in 0..MaxRevision
      BY <1>1, GraphBounds DEF Candidate
    <2>2. PICK old \in Candidate : old = candidates[k]
      BY <1>1
    <2>3. old.revision \in Int /\ row = [old EXCEPT !.state = state, !.revision = @ + 1]
      BY <1>2, <2>2 DEF Candidate
    <2>4. [old EXCEPT !.state = state].revision = old.revision
      BY DEF Candidate
    <2>5. PICK next \in 0..MaxRevision : next = old.revision + 1
      BY <2>1, <2>2
    <2>6. row = [old EXCEPT !.state = state, !.revision = next]
      BY <2>3, <2>4, <2>5
    <2>7. row.revision = next /\ row \in Candidate
      BY <2>6 DEF Candidate
    <2> QED
      BY <2>2, <2>3, <2>5, <2>7
  <1>4. candidates' = [candidates EXCEPT ![k] = row]
    BY <1>2 DEF CandidateTypes
  <1> QED
    BY <1>3, <1>4 DEF CandidateTypes, Revised

LEMMA ApprovedKeeps ==
    ASSUME EdgeTypes, CandidateTypes, SoundSet(R!Live \ stale), NEW k \in Suggested, R!Approved(k)
    PROVE  EdgeTypes' /\ SoundSet(R!Live \ stale)' /\ Revised
  <1>1. candidates' = [candidates EXCEPT ![k].state = "approved", ![k].revision = @ + 1]
    BY DEF R!Approved
  <1>2. Revised
    BY <1>1, Decided DEF R!Approved, R!States
  <1>3. CASE R!Matching(R!Live, k) = {}
    <2>1. k \in Edges /\ edges' = R!Inserted(k, "provider") /\ stale' = stale
      BY <1>3, GraphBounds DEF R!Approved
    <2>2. edges' \in [Edges -> EdgeRow] /\ R!Live' = R!Live \cup {k}
      BY <2>1, EdgeAdded
    <2>3. ~R!ClosesCycle(R!Live, k)
      BY GraphBounds DEF R!ClosesCycle
    <2>4. SoundSet((R!Live \ stale) \cup {k})
      BY <1>3, <2>1, <2>3, LiveEdges, SoundGrows
    <2>5. R!Live' \ stale \subseteq (R!Live \ stale) \cup {k} /\ (R!Live \ stale) \cup {k} \subseteq Edges
      BY <2>1, <2>2, LiveEdges
    <2>6. SoundSet(R!Live' \ stale)
      BY <2>4, <2>5, SoundShrinks
    <2> QED
      BY <1>2, <2>1, <2>2, <2>6 DEF EdgeTypes
  <1>4. CASE R!Matching(R!Live, k) # {}
    BY <1>2, <1>4, SameEdges DEF R!Approved
  <1> QED
    BY <1>3, <1>4

LEMMA BeginCreateKeeps ==
    ASSUME GraphInv, NEW q \in Requests, NEW e \in Edges, R!BeginCreate(q, e)
    PROVE  GraphInv'
  <1>1. PICK row : row = [kind |-> "create", edge |-> e, read |-> R!Live]
    OBVIOUS
  <1>2. row \in RequestRow /\ request' = [request EXCEPT ![q] = row] /\ UNCHANGED candidates
    BY <1>1, LiveEdges DEF R!BeginCreate, RequestRow, Create
  <1>3. RequestRead(row, candidates')
    BY <1>1 DEF R!BeginCreate, RequestRead
  <1>4. Revised
    BY <1>2, Unrevised DEF GraphInv
  <1>5. request' \in [Requests -> RequestRow] /\ RequestsRead'
    BY <1>2, <1>3, <1>4, RequestsStill DEF GraphInv
  <1>6. EdgeTypes' /\ SoundSet(R!Live \ stale)' /\ PassesRead'
    BY <1>4, SameEdges, NobodyReads DEF R!BeginCreate, GraphInv
  <1> QED
    BY <1>5, <1>6 DEF GraphInv, CandidateTypes, R!BeginCreate

\* A request ends: whatever it did kept the edges sound.
LEMMA RequestEnds ==
    ASSUME GraphInv, Revised, EdgeTypes', SoundSet(R!Live \ stale)', NEW q \in Requests,
           request' = [request EXCEPT ![q] = R!Idle], UNCHANGED <<retired, generation, ready, pass>>
    PROVE  GraphInv'
  <1>1. request' \in [Requests -> RequestRow] /\ RequestsRead'
    BY IdleGraph, IdleReads, RequestsStill DEF GraphInv
  <1>2. PassesRead'
    BY NobodyReads DEF GraphInv
  <1> QED
    BY <1>1, <1>2 DEF GraphInv, CandidateTypes, Revised

LEMMA FinishCreateKeeps ==
    ASSUME GraphInv, NEW q \in Requests, R!FinishCreate(q)
    PROVE  GraphInv'
  <1>1. Revised
    BY Unrevised DEF GraphInv, R!FinishCreate
  <1>2. PICK e : e = request[q].edge
    OBVIOUS
  <1>3. request[q] \in Create /\ e \in Edges /\ request[q].read \in SUBSET Edges
    BY <1>2, KindOfRequest DEF GraphInv, CandidateTypes, R!FinishCreate, Create
  <1>4. CASE ~R!Active(e)
    <2>1. UNCHANGED <<edges, stale>>
      BY <1>2, <1>4 DEF R!FinishCreate
    <2> QED
      BY <1>1, <2>1, SameEdges, RequestEnds DEF GraphInv, R!FinishCreate
  <1>5. CASE R!Active(e)
    <2>1. /\ edges' = R!Inserted(e, "manual")
          /\ stale' = IF request[q].read = R!Live THEN stale \ {e} ELSE stale \cup {e}
      BY <1>2, <1>5 DEF R!FinishCreate
    <2>2. EdgeTypes' /\ R!Live' = R!Live \cup {e}
      BY <1>3, <2>1, EdgeAdded DEF GraphInv, EdgeTypes
    <2>3. SoundSet(R!Live' \ stale')
      <3>1. CASE request[q].read = R!Live
        <4>1. R!Matching(R!Live, e) = {} /\ ~R!ClosesCycle(R!Live, e)
          BY <1>2, <3>1 DEF GraphInv, RequestsRead, RequestRead, R!FinishCreate
        <4>2. SoundSet((R!Live \ stale) \cup {e})
          BY <1>3, <4>1, LiveEdges, SoundGrows DEF GraphInv
        <4>3. R!Live' \ stale' = (R!Live \ stale) \cup {e}
          BY <2>1, <2>2, <3>1
        <4> QED
          BY <4>2, <4>3
      <3>2. CASE request[q].read # R!Live
        <4>1. R!Live' \ stale' \subseteq R!Live \ stale /\ R!Live \ stale \subseteq Edges
          BY <2>1, <2>2, <3>2, LiveEdges
        <4> QED
          BY <4>1, SoundShrinks DEF GraphInv
      <3> QED
        BY <3>1, <3>2
    <2> QED
      BY <1>1, <2>2, <2>3, RequestEnds DEF R!FinishCreate
  <1> QED
    BY <1>4, <1>5

LEMMA DeleteKeeps ==
    ASSUME GraphInv, NEW e \in Edges, R!DeleteRelationship(e)
    PROVE  GraphInv'
  <1>1. Revised
    BY Unrevised DEF GraphInv, R!DeleteRelationship
  <1>2. EdgeTypes' /\ R!Live' = R!Live \ {e}
    <2>1. /\ edges' \in [Edges -> EdgeRow] /\ ~edges'[e].live
          /\ \A f \in Edges \ {e} : edges'[f] = edges[f]
      BY DEF GraphInv, EdgeTypes, EdgeRow, R!DeleteRelationship
    <2> QED
      BY <2>1 DEF R!Live, GraphInv, EdgeTypes, R!DeleteRelationship
  <1>3. SoundSet(R!Live' \ stale')
    <2>1. R!Live' \ stale' \subseteq R!Live \ stale /\ R!Live \ stale \subseteq Edges
      BY <1>2, LiveEdges DEF R!DeleteRelationship
    <2> QED
      BY <2>1, SoundShrinks DEF GraphInv
  <1> QED
    BY <1>1, <1>2, <1>3, NobodyReads DEF GraphInv, CandidateTypes, R!DeleteRelationship

\* A step that leaves the edges, the suggestions and the previews alone.
LEMMA OpenCandidateKeeps ==
    ASSUME GraphInv, NEW q \in Requests, NEW k \in Suggested, R!OpenCandidate(q, k)
    PROVE  GraphInv'
  <1>1. PICK row : row = [kind |-> "decide", key |-> k, read |-> candidates[k]]
    OBVIOUS
  <1>2. row \in RequestRow /\ request' = [request EXCEPT ![q] = row] /\ UNCHANGED candidates
    BY <1>1 DEF R!OpenCandidate, RequestRow, Decide, GraphInv, CandidateTypes
  <1>3. RequestRead(row, candidates')
    <2>1. candidates[k].revision <= candidates[k].revision
      BY DEF GraphInv, CandidateTypes, Candidate
    <2> QED
      BY <1>1, <1>2, <2>1 DEF RequestRead, AsRead
  <1>4. Revised
    BY <1>2, Unrevised DEF GraphInv
  <1>5. request' \in [Requests -> RequestRow] /\ RequestsRead'
    BY <1>2, <1>3, <1>4, RequestsStill DEF GraphInv
  <1>6. EdgeTypes' /\ SoundSet(R!Live \ stale)' /\ PassesRead'
    BY <1>4, SameEdges, NobodyReads DEF R!OpenCandidate, GraphInv
  <1> QED
    BY <1>5, <1>6 DEF GraphInv, CandidateTypes, R!OpenCandidate

LEMMA SettingsKeep ==
    ASSUME GraphInv, R!ChangeProvider \/ \E c \in CIs : R!RetireItem(c)
    PROVE  GraphInv'
  <1>1. UNCHANGED <<edges, candidates, request, pass, stale>>
    BY DEF R!ChangeProvider, R!RetireItem
  <1>2. Revised
    BY <1>1, Unrevised DEF GraphInv
  <1>3. retired' \subseteq CIs /\ generation' \in 1..MaxGeneration /\ ready' \in BOOLEAN
    <2>1. retired \subseteq CIs /\ generation \in 1..MaxGeneration /\ ready \in BOOLEAN
      BY DEF GraphInv, CandidateTypes
    <2>2. CASE R!ChangeProvider
      <3>1. retired' = retired /\ ready' \in BOOLEAN
        BY <2>2 DEF R!ChangeProvider
      <3>2. generation' = generation \/ (generation < MaxGeneration /\ generation' = generation + 1)
        BY <2>2 DEF R!ChangeProvider
      <3> QED
        BY <2>1, <3>1, <3>2, GraphBounds
    <2>3. CASE \E c \in CIs : R!RetireItem(c)
      BY <2>1, <2>3 DEF R!RetireItem
    <2> QED
      BY <2>2, <2>3
  <1>4. EdgeTypes' /\ SoundSet(R!Live \ stale)' /\ RequestsRead' /\ PassesRead'
    BY <1>1, <1>2, SameEdges, NobodyReads DEF GraphInv
  <1> QED
    BY <1>1, <1>3, <1>4 DEF GraphInv, CandidateTypes

\* What the request decides on is a suggestion.
LEMMA DecideRow ==
    ASSUME GraphInv, NEW q \in Requests, request[q].kind = "decide"
    PROVE  /\ request[q].key \in Suggested /\ request[q].read \in Candidate
           /\ AsRead(candidates, request[q].key, request[q].read)
  BY KindOfRequest DEF GraphInv, CandidateTypes, RequestsRead, RequestRead, Decide

LEMMA CloseKeeps ==
    ASSUME GraphInv, NEW q \in Requests, NEW state \in {"rejected", "ignored"}, R!Close(q, state)
    PROVE  GraphInv'
  <1>1. EdgeTypes' /\ SoundSet(R!Live \ stale)'
    BY SameEdges DEF GraphInv, R!Close
  <1>2. PICK k \in Suggested : k = request[q].key
    BY DecideRow DEF R!Close
  <1>3. Revised
    <2>1. CASE R!Unchanged(k, request[q].read)
      <3>1. /\ candidates[k].revision < MaxRevision /\ state \in R!States
            /\ candidates' = [candidates EXCEPT ![k].state = state, ![k].revision = @ + 1]
        BY <1>2, <2>1 DEF R!Close, R!States
      <3> QED
        BY <3>1, Decided DEF GraphInv
    <2>2. CASE ~R!Unchanged(k, request[q].read)
      BY <1>2, <2>2, Unrevised DEF R!Close, GraphInv
    <2> QED
      BY <2>1, <2>2
  <1> QED
    BY <1>1, <1>3, RequestEnds DEF R!Close

LEMMA ApproveKeeps ==
    ASSUME GraphInv, NEW q \in Requests, R!Approve(q)
    PROVE  GraphInv'
  <1>1. PICK k \in Suggested : k = request[q].key
    BY DecideRow DEF R!Approve
  <1>2. EdgeTypes' /\ SoundSet(R!Live \ stale)' /\ Revised
    <2>1. CASE R!Approved(k)
      BY <2>1, ApprovedKeeps DEF GraphInv
    <2>2. CASE UNCHANGED <<edges, candidates, stale>>
      BY <2>2, SameEdges, Unrevised DEF GraphInv
    <2> QED
      BY <1>1, <2>1, <2>2 DEF R!Approve
  <1> QED
    BY <1>2, RequestEnds DEF R!Approve

-----------------------------------------------------------------------------
\* A preview goes on: whatever it did kept the edges sound.
LEMMA PassGoesOn ==
    ASSUME GraphInv, Revised, EdgeTypes', SoundSet(R!Live \ stale)', NEW p \in Passes,
           NEW row \in PassRow, pass' = [pass EXCEPT ![p] = row], PassRead(row, candidates'),
           UNCHANGED <<retired, generation, ready, request>>
    PROVE  GraphInv'
  <1>1. pass' \in [Passes -> PassRow] /\ PassesRead'
    BY PassesStill DEF GraphInv
  <1>2. RequestsRead'
    BY NobodyReads DEF GraphInv
  <1> QED
    BY <1>1, <1>2 DEF GraphInv, CandidateTypes, Revised

LEMMA BeginPassKeeps ==
    ASSUME GraphInv, NEW p \in Passes, R!BeginPass(p)
    PROVE  GraphInv'
  <1>1. PICK found \in SUBSET Suggested, time \in 1..MaxTime :
           \E print \in [found -> Prints] :
              pass' = [pass EXCEPT ![p] = [kind |-> "store", print |-> print, time |-> time,
                                           generation |-> generation]]
    BY DEF R!BeginPass
  <1>2. PICK print \in [found -> Prints] :
           pass' = [pass EXCEPT ![p] = [kind |-> "store", print |-> print, time |-> time,
                                        generation |-> generation]]
    BY <1>1
  <1>3. PICK row : row = [kind |-> "store", print |-> print, time |-> time,
                          generation |-> generation]
    OBVIOUS
  <1>4. row \in PassRow /\ PassRead(row, candidates')
    BY <1>3 DEF PassRow, Found, PassRead, GraphInv, CandidateTypes
  <1> QED
    BY <1>2, <1>3, <1>4, SameEdges, Unrevised, PassGoesOn DEF R!BeginPass, GraphInv

LEMMA FinishPassKeeps ==
    ASSUME GraphInv, NEW p \in Passes, R!FinishPass(p)
    PROVE  GraphInv'
  BY IdleGraph, IdleReads, SameEdges, Unrevised, PassGoesOn DEF R!FinishPass, R!EndPass, GraphInv

LEMMA FoundRow ==
    ASSUME GraphInv, NEW p \in Passes, pass[p].kind = "store"
    PROVE  /\ pass[p] \in Found /\ pass[p].time \in 1..MaxTime
           /\ pass[p].generation \in 1..MaxGeneration
           /\ DOMAIN pass[p].print \subseteq Suggested
           /\ \A k \in DOMAIN pass[p].print : pass[p].print[k] \in Prints
  BY KindOfPass DEF GraphInv, CandidateTypes, Found

LEMMA ObservedRow ==
    ASSUME NEW row \in Candidate, row.revision < MaxRevision, NEW print \in Prints,
           NEW time \in 1..MaxTime, NEW context \in 1..MaxGeneration
    PROVE  LET next == R!Observed(row, print, time, context)
           IN next \in Candidate /\ (next = row \/ next.revision > row.revision)
  <1> DEFINE next == R!Observed(row, print, time, context)
  <1>1. CASE time < row.seen
    BY <1>1 DEF R!Observed
  <1>2. CASE ~(time < row.seen)
    <2>1. next = [state |-> R!NextState(row, print), retired |-> FALSE, seen |-> time,
                  print |-> print, context |-> context, revision |-> row.revision + 1,
                  observations |-> row.observations + 1]
      BY <1>2 DEF R!Observed
    <2>2. R!NextState(row, print) \in R!States
      BY DEF R!NextState, R!States, Candidate
    <2>3. PICK n \in 0..MaxRevision : n = row.revision + 1 /\ n > row.revision
      BY GraphBounds DEF Candidate
    <2>4. PICK m \in Nat : m = row.observations + 1
      BY DEF Candidate
    <2>5. context \in Nat /\ time \in 0..MaxTime
      BY GraphBounds
    <2>6. next = [state |-> R!NextState(row, print), retired |-> FALSE, seen |-> time,
                  print |-> print, context |-> context, revision |-> n, observations |-> m]
      BY <2>1, <2>3, <2>4
    <2> HIDE DEF next
    <2>7. next \in Candidate /\ next.revision = n
      BY <2>2, <2>5, <2>6 DEF Candidate
    <2> QED
      BY <2>3, <2>7 DEF next
  <1> QED
    BY <1>1, <1>2

LEMMA UnseenRow ==
    ASSUME NEW row \in Candidate, row.revision < MaxRevision, NEW time \in 1..MaxTime
    PROVE  LET next == R!Unseen(row, time)
           IN next \in Candidate /\ (next = row \/ next.revision > row.revision)
  <1> DEFINE next == R!Unseen(row, time)
  <1>1. CASE next = row
    BY <1>1
  <1>2. CASE next = [row EXCEPT !.retired = TRUE, !.revision = @ + 1]
    <2>1. [row EXCEPT !.retired = TRUE].revision = row.revision
      BY DEF Candidate
    <2>2. PICK n \in 0..MaxRevision : n = row.revision + 1 /\ n > row.revision
      BY GraphBounds DEF Candidate
    <2>3. next = [row EXCEPT !.retired = TRUE, !.revision = n]
      BY <1>2, <2>1, <2>2
    <2> HIDE DEF next
    <2>4. next.revision = n /\ next \in Candidate
      BY <2>3 DEF Candidate
    <2> QED
      BY <2>2, <2>4 DEF next
  <1> QED
    BY <1>1, <1>2 DEF R!Unseen

LEMMA StoreKeeps ==
    ASSUME GraphInv, NEW p \in Passes, R!StoreCandidates(p)
    PROVE  GraphInv'
  <1> DEFINE w == pass[p]
             stores == R!ContextIsCurrent(w.generation) /\ \A k \in DOMAIN w.print : R!Active(k)
  <1>1. EdgeTypes' /\ SoundSet(R!Live \ stale)' /\ w.kind = "store"
    BY SameEdges DEF GraphInv, R!StoreCandidates
  <1>2. CASE ~stores
    <2>1. pass' = [pass EXCEPT ![p] = R!Idle] /\ UNCHANGED candidates
      BY <1>2 DEF R!StoreCandidates, R!EndPass
    <2> QED
      BY <1>1, <2>1, IdleGraph, IdleReads, Unrevised, PassGoesOn DEF R!StoreCandidates, GraphInv
  <1>3. CASE stores
    <2>1. /\ \A k \in Suggested : candidates[k].revision < MaxRevision
          /\ candidates' = [k \in Suggested |->
                     IF k \in DOMAIN w.print
                     THEN R!Observed(candidates[k], w.print[k], w.time, w.generation)
                     ELSE R!Unseen(candidates[k], w.time)]
          /\ pass' = [pass EXCEPT ![p] = [kind |-> "list", generation |-> w.generation]]
      BY <1>3 DEF R!StoreCandidates
    <2>2. ASSUME NEW k \in Suggested
          PROVE  /\ candidates'[k] \in Candidate
                 /\ candidates'[k] = candidates[k] \/ candidates'[k].revision > candidates[k].revision
      <3>1. candidates[k] \in Candidate /\ candidates[k].revision < MaxRevision
        BY <2>1 DEF GraphInv, CandidateTypes
      <3>2. CASE k \in DOMAIN w.print
        <4>1. candidates'[k] = R!Observed(candidates[k], w.print[k], w.time, w.generation)
          BY <2>1, <3>2
        <4> QED
          BY <1>1, <3>1, <3>2, <4>1, FoundRow, ObservedRow
      <3>3. CASE k \notin DOMAIN w.print
        <4>1. candidates'[k] = R!Unseen(candidates[k], w.time)
          BY <2>1, <3>3
        <4> QED
          BY <1>1, <3>1, <4>1, FoundRow, UnseenRow
      <3> QED
        BY <3>2, <3>3
    <2>3. Revised
      <3>1. \E f : candidates' = [k \in Suggested |-> f[k]]
        BY <2>1
      <3> QED
        BY <2>2, <3>1 DEF Revised
    <2>4. PICK row : row = [kind |-> "list", generation |-> w.generation]
      OBVIOUS
    <2>5. row \in PassRow /\ PassRead(row, candidates')
      BY <1>1, <2>4, FoundRow DEF PassRow, Stored, PassRead
    <2>6. pass' = [pass EXCEPT ![p] = row] /\ UNCHANGED <<retired, generation, ready, request>>
      BY <2>1, <2>4 DEF R!StoreCandidates
    <2> QED
      BY <1>1, <2>3, <2>5, <2>6, PassGoesOn
  <1> QED
    BY <1>2, <1>3

LEMMA ListKeeps ==
    ASSUME GraphInv, NEW p \in Passes, R!ListPending(p)
    PROVE  GraphInv'
  <1> DEFINE todo == {k \in Suggested : ready /\ R!AutoEligible(k, pass[p].generation)}
  <1>1. PICK row : row = [kind |-> "approve", generation |-> pass[p].generation,
                          read |-> R!Restrict(candidates, todo)]
    OBVIOUS
  <1>2. pass[p].generation \in 1..MaxGeneration
    BY KindOfPass DEF GraphInv, CandidateTypes, R!ListPending, Stored
  <1>3. R!Restrict(candidates, todo) \in [todo -> Candidate] /\ todo \in SUBSET Suggested
    BY DEF R!Restrict, GraphInv, CandidateTypes
  <1>4. row \in PassRow
    <2> HIDE DEF todo
    <2> QED
      BY <1>1, <1>2, <1>3 DEF PassRow, Listed
  <1>5. UNCHANGED candidates /\ pass' = [pass EXCEPT ![p] = row]
    BY <1>1 DEF R!ListPending, GraphInv, CandidateTypes
  <1>6. PassRead(row, candidates')
    <2> SUFFICES ASSUME NEW k \in DOMAIN row.read
                 PROVE  AsRead(candidates, k, row.read[k]) /\ row.generation \in AutoGenerations
      BY <1>5 DEF PassRead
    <2>1. k \in todo /\ row.read[k] = candidates[k] /\ candidates[k] \in Candidate
      BY <1>1 DEF R!Restrict, GraphInv, CandidateTypes
    <2>2. candidates[k].revision <= candidates[k].revision
      BY <2>1 DEF Candidate
    <2>3. pass[p].generation \in AutoGenerations
      BY <2>1 DEF R!AutoEligible
    <2> QED
      BY <1>1, <2>1, <2>2, <2>3 DEF AsRead
  <1> QED
    BY <1>4, <1>5, <1>6, SameEdges, Unrevised, PassGoesOn DEF R!ListPending, GraphInv

LEMMA AutoApproveKeeps ==
    ASSUME GraphInv, NEW p \in Passes, R!AutoApprove(p)
    PROVE  GraphInv'
  <1>1. pass[p] \in Listed /\ pass[p].kind = "approve"
    BY KindOfPass DEF GraphInv, CandidateTypes, R!AutoApprove
  <1>2. PICK k \in DOMAIN pass[p].read :
           /\ R!Approved(k) \/ UNCHANGED <<edges, candidates, stale>>
           /\ \/ pass' = [pass EXCEPT ![p].read = R!Restrict(@, DOMAIN @ \ {k})]
              \/ pass' = [pass EXCEPT ![p] = R!Idle]
    BY DEF R!AutoApprove, R!EndPass
  <1>3. k \in Suggested
    BY <1>1, ListedRows
  <1>4. EdgeTypes' /\ SoundSet(R!Live \ stale)' /\ Revised
    BY <1>2, <1>3, ApprovedKeeps, SameEdges, Unrevised DEF GraphInv
  <1>5. UNCHANGED <<retired, generation, ready, request>>
    BY DEF R!AutoApprove
  <1>6. CASE pass' = [pass EXCEPT ![p] = R!Idle]
    BY <1>4, <1>5, <1>6, IdleGraph, IdleReads, PassGoesOn
  <1>7. CASE pass' = [pass EXCEPT ![p].read = R!Restrict(@, DOMAIN @ \ {k})]
    <2>1. PICK rest : rest = R!Restrict(pass[p].read, DOMAIN pass[p].read \ {k})
      OBVIOUS
    <2>2. PICK row : row = [pass[p] EXCEPT !.read = rest]
      OBVIOUS
    <2>3. /\ DOMAIN rest = DOMAIN pass[p].read \ {k}
          /\ \A o \in DOMAIN rest : rest[o] = pass[p].read[o]
          /\ rest \in [DOMAIN rest -> Candidate] /\ DOMAIN rest \subseteq Suggested
      BY <1>1, <2>1, ListedRows DEF R!Restrict
    <2>4. row \in Listed /\ row.read = rest /\ row.generation = pass[p].generation
      BY <1>1, <2>2, <2>3 DEF Listed
    <2>5. pass' = [pass EXCEPT ![p] = row]
      BY <1>7, <2>1, <2>2 DEF GraphInv, CandidateTypes
    <2>6. PassRead(row, candidates)
      BY <1>1, <2>3, <2>4 DEF PassRead, GraphInv, PassesRead
    <2>7. row \in PassRow
      BY <2>4 DEF PassRow
    <2>8. PassRead(row, candidates')
      BY <1>4, <2>6, <2>7, PassStill DEF GraphInv
    <2> QED
      BY <1>4, <1>5, <2>5, <2>7, <2>8, PassGoesOn
  <1> QED
    BY <1>2, <1>6, <1>7

LEMMA GraphInit == R!Init => GraphInv
  <1> SUFFICES ASSUME R!Init PROVE GraphInv
    OBVIOUS
  <1>1. R!NoEdge \in EdgeRow /\ ~R!NoEdge.live
    BY DEF R!NoEdge, EdgeRow
  <1>2. R!NoCandidate \in Candidate
    BY GraphBounds DEF R!NoCandidate, Candidate, R!States
  <1>3. EdgeTypes /\ CandidateTypes
    BY <1>1, <1>2, IdleGraph, GraphBounds DEF R!Init, EdgeTypes, CandidateTypes
  <1>4. SoundSet(R!Live \ stale)
    BY <1>1 DEF R!Init, R!Live, SoundSet
  <1> QED
    BY <1>3, <1>4, IdleReads DEF GraphInv, RequestsRead, PassesRead, R!Init

LEMMA GraphNext == GraphInv /\ [R!Next]_(R!vars) => GraphInv'
  <1> SUFFICES ASSUME GraphInv, [R!Next]_(R!vars) PROVE GraphInv'
    OBVIOUS
  <1>1. CASE UNCHANGED R!vars
    BY <1>1, SameEdges, Unrevised, NobodyReads DEF R!vars, GraphInv, CandidateTypes
  <1>2. CASE R!EditNext(Edges)
    BY <1>2, BeginCreateKeeps, FinishCreateKeeps, DeleteKeeps DEF R!EditNext
  <1>3. CASE R!CandidateNext
    BY <1>3, SettingsKeep, OpenCandidateKeeps, ApproveKeeps, CloseKeeps, BeginPassKeeps,
       StoreKeeps, ListKeeps, AutoApproveKeeps, FinishPassKeeps DEF R!CandidateNext
  <1> QED
    BY <1>1, <1>2, <1>3 DEF R!Next

\* Who approves, and what: the suggestion is still as it was read.
LEMMA ApprovedRow ==
    ASSUME GraphInv, NEW k \in Suggested, NEW row \in Candidate, AsRead(candidates, k, row),
           R!MayApprove(k, row)
    PROVE  row = candidates[k]
  BY DEF R!MayApprove, R!Unchanged, AsRead

LEMMA OnlyApproved ==
    ASSUME GraphInv, NEW k \in Suggested, NEW o \in Suggested, R!Approved(k),
           candidates'[o] # candidates[o]
    PROVE  o = k
  BY DEF R!Approved, GraphInv, CandidateTypes

LEMMA OnlyClosed ==
    ASSUME GraphInv, NEW q \in Requests, NEW state \in {"rejected", "ignored"}, R!Close(q, state),
           NEW k \in Suggested, candidates'[k].state = "approved"
    PROVE  candidates[k].state = "approved"
  <1>1. PICK o \in Suggested : o = request[q].key
    BY DecideRow DEF R!Close
  <1>2. candidates[k] \in Candidate /\ candidates[o] \in Candidate
    BY DEF GraphInv, CandidateTypes
  <1>3. CASE k = o /\ candidates' # candidates
    <2>1. candidates' = [candidates EXCEPT ![k].state = state, ![k].revision = @ + 1]
      BY <1>1, <1>3 DEF R!Close
    <2>2. candidates'[k].state = state
      BY <1>2, <2>1 DEF GraphInv, CandidateTypes, Candidate
    <2> QED
      BY <2>2
  <1>4. CASE k # o \/ candidates' = candidates
    BY <1>1, <1>4 DEF R!Close, GraphInv, CandidateTypes
  <1> QED
    BY <1>3, <1>4

LEMMA StoredState ==
    ASSUME GraphInv, NEW p \in Passes, R!StoreCandidates(p), NEW k \in Suggested,
           candidates'[k].state = "approved"
    PROVE  candidates[k].state = "approved"
  <1>1. candidates[k] \in Candidate
    BY DEF GraphInv, CandidateTypes
  <1>2. CASE candidates' = candidates
    BY <1>2
  <1>3. CASE candidates'[k] = R!Unseen(candidates[k], pass[p].time)
    BY <1>1, <1>3 DEF R!Unseen, Candidate
  <1>4. CASE candidates'[k] = R!Observed(candidates[k], pass[p].print[k], pass[p].time,
                                         pass[p].generation)
    BY <1>4 DEF R!Observed, R!NextState
  <1>5. candidates' = candidates \/ candidates'[k] = R!Unseen(candidates[k], pass[p].time)
        \/ candidates'[k] = R!Observed(candidates[k], pass[p].print[k], pass[p].time,
                                       pass[p].generation)
    BY DEF R!StoreCandidates
  <1> QED
    BY <1>2, <1>3, <1>4, <1>5

LEMMA AutoStep ==
    ASSUME GraphInv, NEW p \in Passes, R!AutoApprove(p), candidates' # candidates
    PROVE  \E k \in DOMAIN pass[p].read :
              /\ k \in Suggested /\ R!Approved(k) /\ R!MayApprove(k, pass[p].read[k])
              /\ candidates[k].context = pass[p].generation
              /\ pass[p].read[k] = candidates[k] /\ pass'[p] # pass[p]
              /\ pass[p].generation \in AutoGenerations
  <1>1. pass[p] \in Listed /\ pass[p].kind = "approve"
    BY KindOfPass DEF GraphInv, CandidateTypes, R!AutoApprove
  <1>2. PICK k \in DOMAIN pass[p].read :
           /\ R!MayApprove(k, pass[p].read[k]) /\ candidates[k].context = pass[p].generation
           /\ R!Approved(k)
           /\ \/ pass' = [pass EXCEPT ![p].read = R!Restrict(@, DOMAIN @ \ {k})]
              \/ pass' = [pass EXCEPT ![p] = R!Idle]
    BY DEF R!AutoApprove, R!EndPass
  <1>3. k \in Suggested /\ pass[p].read[k] \in Candidate
    BY <1>1, ListedRows
  <1>4. AsRead(candidates, k, pass[p].read[k]) /\ pass[p].generation \in AutoGenerations
    BY <1>1 DEF GraphInv, PassesRead, PassRead
  <1>5. pass[p].read[k] = candidates[k]
    BY <1>2, <1>3, <1>4, ApprovedRow
  <1>6. pass'[p] # pass[p]
    <2>1. CASE pass' = [pass EXCEPT ![p] = R!Idle]
      BY <1>1, <2>1, IdleGraph DEF GraphInv, CandidateTypes
    <2>2. CASE pass' = [pass EXCEPT ![p].read = R!Restrict(@, DOMAIN @ \ {k})]
      <3>1. PICK rest : rest = R!Restrict(pass[p].read, DOMAIN pass[p].read \ {k})
        OBVIOUS
      <3>2. k \notin DOMAIN rest
        BY <3>1 DEF R!Restrict
      <3>3. pass'[p].read = rest
        BY <1>1, <2>2, <3>1 DEF GraphInv, CandidateTypes, Listed
      <3> QED
        BY <3>2, <3>3
    <2> QED
      BY <1>2, <2>1, <2>2
  <1> QED
    BY <1>2, <1>3, <1>4, <1>5, <1>6

LEMMA ApprovingStep ==
    ASSUME GraphInv, R!Next, NEW k \in Suggested, candidates[k].state # "approved",
           candidates'[k].state = "approved"
    PROVE  R!ReadBy(k, candidates[k])
  <1>1. ASSUME NEW q \in Requests, R!Approve(q) PROVE R!ReadBy(k, candidates[k])
    <2>1. PICK o \in Suggested : o = request[q].key
      BY <1>1, DecideRow DEF R!Approve
    <2>2. R!MayApprove(o, request[q].read) /\ R!Approved(o) /\ request[q].kind = "decide"
      BY <1>1, <2>1 DEF R!Approve
    <2>3. o = k
      BY <2>2, OnlyApproved
    <2>4. request[q].read = candidates[k]
      BY <2>1, <2>2, <2>3, DecideRow, ApprovedRow
    <2>5. request'[q] = R!Idle
      BY <1>1 DEF R!Approve, GraphInv, CandidateTypes
    <2> QED
      BY <2>1, <2>2, <2>3, <2>4, <2>5 DEF R!ReadBy
  <1>2. ASSUME NEW p \in Passes, R!AutoApprove(p) PROVE R!ReadBy(k, candidates[k])
    <2>1. PICK o \in DOMAIN pass[p].read :
             /\ o \in Suggested /\ R!Approved(o)
             /\ pass[p].read[o] = candidates[o] /\ pass'[p] # pass[p]
      BY <1>2, AutoStep
    <2>2. o = k
      BY <2>1, OnlyApproved
    <2>3. pass[p].kind = "approve"
      BY <1>2 DEF R!AutoApprove
    <2> QED
      BY <2>1, <2>2, <2>3 DEF R!ReadBy
  <1>3. candidates' # candidates
    OBVIOUS
  <1>4. CASE R!EditNext(Edges)
    BY <1>3, <1>4 DEF R!EditNext, R!BeginCreate, R!FinishCreate, R!DeleteRelationship
  <1>5. CASE R!CandidateNext
    BY <1>1, <1>2, <1>3, <1>5, OnlyClosed, StoredState
    DEF R!CandidateNext, R!RetireItem, R!ChangeProvider, R!OpenCandidate, R!BeginPass,
        R!ListPending, R!FinishPass
  <1> QED
    BY <1>4, <1>5 DEF R!Next

\* Only its own step moves a preview on.
LEMMA PassMoves ==
    ASSUME GraphInv, R!Next, NEW p \in Passes, pass'[p] # pass[p]
    PROVE  \/ R!BeginPass(p) \/ R!StoreCandidates(p) \/ R!ListPending(p)
           \/ R!AutoApprove(p) \/ R!FinishPass(p)
  <1>1. ASSUME NEW o \in Passes,
               R!BeginPass(o) \/ R!StoreCandidates(o) \/ R!ListPending(o)
               \/ R!AutoApprove(o) \/ R!FinishPass(o)
        PROVE  o = p
    <2>1. \A r \in Passes : r # o => pass'[r] = pass[r]
      BY <1>1 DEF GraphInv, CandidateTypes, R!BeginPass, R!StoreCandidates, R!ListPending,
                  R!AutoApprove, R!FinishPass, R!EndPass
    <2> QED
      BY <2>1
  <1>2. CASE R!EditNext(Edges)
    BY <1>2 DEF R!EditNext, R!BeginCreate, R!FinishCreate, R!DeleteRelationship
  <1>3. CASE R!CandidateNext
    BY <1>1, <1>3
    DEF R!CandidateNext, R!RetireItem, R!ChangeProvider, R!OpenCandidate, R!Approve, R!Close
  <1> QED
    BY <1>2, <1>3 DEF R!Next

LEMMA NewerStands ==
    ASSUME GraphInv, R!Next, NEW p \in Passes, NEW k \in Suggested, pass[p].kind = "store",
           pass'[p] # pass[p], pass[p].time < candidates[k].seen
    PROVE  candidates'[k] = candidates[k]
  <1>1. R!StoreCandidates(p)
    BY PassMoves, IdleGraph DEF R!BeginPass, R!ListPending, R!AutoApprove, R!FinishPass
  <1>2. pass[p].time \in Int /\ candidates[k].seen \in Int
    BY FoundRow DEF GraphInv, CandidateTypes, Candidate
  <1>3. candidates[k].seen > pass[p].time
    BY <1>2
  <1> QED
    BY <1>1, <1>2, <1>3 DEF R!StoreCandidates, R!Observed, R!Unseen

LEMMA PolicyFollowed ==
    ASSUME GraphInv, R!Next, NEW p \in Passes, pass[p].kind = "approve", pass'[p] # pass[p],
           candidates' # candidates
    PROVE  ready /\ generation \in AutoGenerations
  <1>1. R!AutoApprove(p)
    BY PassMoves, IdleGraph DEF R!BeginPass, R!ListPending, R!StoreCandidates, R!FinishPass
  <1> QED
    BY <1>1, AutoStep DEF R!MayApprove, R!ContextIsCurrent

LEMMA GraphTyped == GraphInv => R!TypeOK
  <1> SUFFICES ASSUME GraphInv PROVE R!TypeOK
    OBVIOUS
  <1>1. \A k \in Suggested : /\ candidates[k].state \in R!States
                             /\ candidates[k].seen \in 0..MaxTime
                             /\ candidates[k].revision \in 0..MaxRevision
    BY DEF GraphInv, CandidateTypes, Candidate
  <1>2. \A q \in Requests : request[q].kind \in {"idle", "create", "decide"}
    BY KindOfRequest DEF GraphInv, CandidateTypes
  <1>3. \A p \in Passes : pass[p].kind \in {"idle", "store", "list", "approve"}
    BY KindOfPass DEF GraphInv, CandidateTypes
  <1> QED
    BY <1>1, <1>2, <1>3 DEF R!TypeOK, GraphInv, EdgeTypes, CandidateTypes, EdgeRow

----------------------------------------------------------------------------
(* Template versions and the closure of a change *)

LEMMA TemplateBounds ==
    /\ Nobody \notin Editors \cup Seeders /\ Editors \cap Seeders = {}
    /\ MaxVersion \in Nat \ {0}
  BY CmdbAssumption DEF T!TemplateAssumption

Statuses == {"draft", "published"}
EditorRow == {T!Idle} \cup [pc : {"save", "insert", "point"}, expected : 1..(MaxVersion - 1),
                            content : T!Contents, status : Statuses]
SeederRow == {T!Idle} \cup [pc : {"insert", "point"}, next : 2..MaxVersion]
VersionRow == [content : T!Contents, writer : T!Processes \cup {Nobody}]

LibraryTypes ==
    /\ template \in [current : 1..MaxVersion, status : Statuses]
    /\ DOMAIN versions \subseteq 1..MaxVersion
    /\ \A v \in DOMAIN versions : versions[v] \in VersionRow
    /\ lock \in Editors \cup {Nobody}
    /\ proc \in [T!Processes -> EditorRow \cup SeederRow]
    /\ \A e \in Editors : proc[e] \in EditorRow
    /\ \A s \in Seeders : proc[s] \in SeederRow

\* Where a process is, it holds the row it locked and the version it wrote.
Stands(e) == /\ proc[e].pc \in {"insert", "point"} =>
                   lock = e /\ proc[e].expected = template.current
             /\ proc[e].pc = "point" =>
                   /\ proc[e].expected + 1 \in DOMAIN versions
                   /\ versions[proc[e].expected + 1].writer = e

Seeded(s) == proc[s].pc = "point" => /\ proc[s].next \in DOMAIN versions
                                     /\ versions[proc[s].next].writer \in {s, Nobody}

LibraryInv == /\ LibraryTypes
              /\ T!Committed(template.current)
              /\ \A e \in Editors : Stands(e)
              /\ \A s \in Seeders : Seeded(s)

Kept == \A v \in DOMAIN versions : T!Committed(v) =>
           v \in DOMAIN versions' /\ versions'[v] = versions[v]

Grows == /\ template'.current >= template.current
         /\ template'.current \in DOMAIN versions' /\ versions'[template'.current].writer = Nobody
         /\ Kept

LEMMA IdleProcess == T!Idle.pc = "idle" /\ T!Idle \in EditorRow /\ T!Idle \in SeederRow
  BY DEF T!Idle, EditorRow, SeederRow

\* The rows of the versions after a transaction of p has committed, after it has been
\* undone, and after one more has been inserted.
LEMMA CommitVersions ==
    ASSUME LibraryTypes, NEW p \in T!Processes, versions' = T!CommittedBy(p)
    PROVE  /\ DOMAIN versions' = DOMAIN versions
           /\ \A v \in DOMAIN versions :
                 /\ versions'[v] \in VersionRow
                 /\ versions[v].writer # p => versions'[v] = versions[v]
                 /\ versions[v].writer = p => versions'[v].writer = Nobody
  BY DEF T!CommittedBy, LibraryTypes, VersionRow

LEMMA AbortVersions ==
    ASSUME LibraryTypes, NEW p \in T!Processes, T!Abort(p)
    PROVE  /\ DOMAIN versions' \subseteq DOMAIN versions
           /\ \A v \in DOMAIN versions : versions[v].writer # p => v \in DOMAIN versions'
           /\ \A v \in DOMAIN versions' : versions'[v] = versions[v]
  BY DEF T!Abort, T!Restrict

LEMMA AddVersion ==
    ASSUME NEW v, NEW row, versions' = T!WithVersion(v, row)
    PROVE  /\ DOMAIN versions' = DOMAIN versions \cup {v}
           /\ versions'[v] = row
           /\ \A w \in DOMAIN versions \ {v} : versions'[w] = versions[w]
  BY DEF T!WithVersion

\* One process goes on; what the others hold and wrote is as it was.
LEMMA LibraryStill ==
    ASSUME LibraryInv, NEW p \in T!Processes, NEW row,
           p \in Editors => row \in EditorRow, p \in Seeders => row \in SeederRow,
           proc' = [proc EXCEPT ![p] = row],
           template' \in [current : 1..MaxVersion, status : Statuses],
           lock' \in Editors \cup {Nobody},
           DOMAIN versions' \subseteq 1..MaxVersion,
           \A v \in DOMAIN versions' : versions'[v] \in VersionRow,
           \A e \in Editors \ {p} : proc[e].pc \in {"insert", "point"} =>
                                       lock' = lock /\ template'.current = template.current,
           \A v \in DOMAIN versions : versions[v].writer \in T!Processes \ {p} =>
                 v \in DOMAIN versions' /\ versions'[v] = versions[v],
           Kept,
           T!Committed(template.current)',
           p \in Editors => Stands(p)', p \in Seeders => Seeded(p)'
    PROVE  LibraryInv'
  <1>1. /\ proc' \in [T!Processes -> EditorRow \cup SeederRow]
        /\ proc'[p] = row /\ \A o \in T!Processes \ {p} : proc'[o] = proc[o]
    BY DEF LibraryInv, LibraryTypes, T!Processes
  <1>2. LibraryTypes'
    BY <1>1 DEF LibraryInv, LibraryTypes, T!Processes
  <1>3. ASSUME NEW e \in Editors \ {p} PROVE Stands(e)'
    <2>1. e \in T!Processes /\ proc'[e] = proc[e] /\ Stands(e)
      BY <1>1 DEF LibraryInv, T!Processes
    <2> QED
      BY <2>1 DEF Stands
  <1>4. ASSUME NEW s \in Seeders \ {p} PROVE Seeded(s)'
    <2>1. s \in T!Processes /\ proc'[s] = proc[s] /\ Seeded(s)
      BY <1>1 DEF LibraryInv, T!Processes
    <2>2. ASSUME proc[s].pc = "point"
          PROVE  proc[s].next \in DOMAIN versions' /\ versions'[proc[s].next].writer \in {s, Nobody}
      <3>1. CASE versions[proc[s].next].writer = s
        BY <2>1, <2>2, <3>1 DEF Seeded
      <3>2. CASE versions[proc[s].next].writer = Nobody
        BY <2>1, <2>2, <3>2 DEF Seeded, Kept, T!Committed
      <3> QED
        BY <2>1, <2>2, <3>1, <3>2 DEF Seeded
    <2> QED
      BY <2>1, <2>2 DEF Seeded
  <1> QED
    BY <1>2, <1>3, <1>4 DEF LibraryInv

\* A step that leaves the template and the versions alone.
LEMMA SameLibrary ==
    ASSUME LibraryInv, UNCHANGED <<template, versions>>
    PROVE  /\ Kept /\ Grows /\ T!Committed(template.current)'
           /\ template' \in [current : 1..MaxVersion, status : Statuses]
           /\ DOMAIN versions' \subseteq 1..MaxVersion
           /\ \A v \in DOMAIN versions' : versions'[v] \in VersionRow
  BY DEF LibraryInv, LibraryTypes, Kept, Grows, T!Committed

LEMMA EditorKind ==
    ASSUME LibraryInv, NEW e \in Editors, proc[e].pc \in {"save", "insert", "point"}
    PROVE  /\ proc[e].expected \in 1..(MaxVersion - 1) /\ proc[e].expected + 1 \in 1..MaxVersion
           /\ proc[e].content \in T!Contents /\ proc[e].status \in Statuses
           /\ proc[e] \in EditorRow /\ e \notin Seeders /\ e \in T!Processes /\ e # Nobody
           /\ \A pc \in {"insert", "point"} :
                 LET row == [proc[e] EXCEPT !.pc = pc]
                 IN  /\ row \in EditorRow /\ row.pc = pc /\ row.expected = proc[e].expected
                     /\ [proc EXCEPT ![e].pc = pc] = [proc EXCEPT ![e] = row]
  <1>1. proc[e] \in [pc : {"save", "insert", "point"}, expected : 1..(MaxVersion - 1),
                     content : T!Contents, status : Statuses]
    BY IdleProcess DEF LibraryInv, LibraryTypes, EditorRow
  <1>2. e \notin Seeders /\ e \in T!Processes /\ e # Nobody
    BY TemplateBounds DEF T!Processes
  <1>3. \A pc \in {"insert", "point"} :
           LET row == [proc[e] EXCEPT !.pc = pc]
           IN row \in EditorRow /\ row.pc = pc /\ row.expected = proc[e].expected
    BY <1>1 DEF EditorRow
  <1>4. \A pc : [proc EXCEPT ![e].pc = pc] = [proc EXCEPT ![e] = [proc[e] EXCEPT !.pc = pc]]
    BY <1>2 DEF LibraryInv, LibraryTypes
  <1> QED
    BY <1>1, <1>2, <1>3, <1>4, TemplateBounds DEF EditorRow

LEMMA SeederKind ==
    ASSUME LibraryInv, NEW s \in Seeders, proc[s].pc \in {"insert", "point"}
    PROVE  /\ proc[s].next \in 2..MaxVersion
           /\ s \notin Editors /\ s \in T!Processes /\ s # Nobody
           /\ LET row == [proc[s] EXCEPT !.pc = "point"]
              IN  /\ row \in SeederRow /\ row.pc = "point" /\ row.next = proc[s].next
                  /\ [proc EXCEPT ![s].pc = "point"] = [proc EXCEPT ![s] = row]
  <1>1. proc[s] \in [pc : {"insert", "point"}, next : 2..MaxVersion]
    BY IdleProcess DEF LibraryInv, LibraryTypes, SeederRow
  <1>2. s \notin Editors /\ s \in T!Processes /\ s # Nobody
    BY TemplateBounds DEF T!Processes
  <1>3. LET row == [proc[s] EXCEPT !.pc = "point"]
        IN row \in SeederRow /\ row.pc = "point" /\ row.next = proc[s].next
    BY <1>1 DEF SeederRow
  <1> QED
    BY <1>1, <1>2, <1>3 DEF LibraryInv, LibraryTypes

LEMMA BeginUpdateKeeps ==
    ASSUME LibraryInv, NEW e \in Editors, NEW content \in T!Contents, NEW status \in Statuses,
           T!BeginUpdate(e, content, status)
    PROVE  LibraryInv' /\ Grows
  <1>1. PICK row : row = [pc |-> "save", expected |-> template.current, content |-> content,
                          status |-> status]
    OBVIOUS
  <1>2. template.current \in 1..(MaxVersion - 1)
    BY TemplateBounds DEF T!BeginUpdate, LibraryInv, LibraryTypes
  <1>3. row \in EditorRow /\ row.pc = "save"
    BY <1>1, <1>2 DEF EditorRow
  <1>4. /\ proc' = [proc EXCEPT ![e] = row] /\ UNCHANGED <<template, versions, lock>>
        /\ e \in T!Processes /\ e \notin Seeders
    BY <1>1, TemplateBounds DEF T!BeginUpdate, T!Processes
  <1>5. proc'[e] = row
    BY <1>4 DEF LibraryInv, LibraryTypes
  <1>6. Stands(e)'
    BY <1>3, <1>5 DEF Stands
  <1>7. lock' \in Editors \cup {Nobody}
    BY <1>4 DEF LibraryInv, LibraryTypes
  <1> QED
    BY <1>3, <1>4, <1>6, <1>7, SameLibrary, LibraryStill

LEMMA LockTemplateKeeps ==
    ASSUME LibraryInv, NEW e \in Editors, T!LockTemplate(e)
    PROVE  LibraryInv' /\ Grows
  <1>1. /\ proc[e].pc = "save" /\ lock = Nobody /\ UNCHANGED <<template, versions>>
        /\ e \in T!Processes /\ e \notin Seeders
    BY TemplateBounds DEF T!LockTemplate, T!Processes
  <1>2. \A o \in Editors : proc[o].pc \notin {"insert", "point"}
    BY <1>1, TemplateBounds DEF LibraryInv, Stands
  <1>3. CASE template.current = proc[e].expected
    <2>1. lock' = e /\ proc' = [proc EXCEPT ![e].pc = "insert"]
      BY <1>3 DEF T!LockTemplate
    <2>2. PICK row : row = [proc[e] EXCEPT !.pc = "insert"]
      OBVIOUS
    <2>3. /\ row \in EditorRow /\ row.pc = "insert" /\ row.expected = proc[e].expected
          /\ proc' = [proc EXCEPT ![e] = row]
      BY <1>1, <2>1, <2>2, EditorKind
    <2>4. proc'[e] = row
      BY <1>1, <2>3 DEF LibraryInv, LibraryTypes
    <2>5. Stands(e)'
      BY <1>1, <1>3, <2>1, <2>3, <2>4 DEF Stands
    <2> QED
      BY <1>1, <1>2, <2>1, <2>3, <2>5, SameLibrary, LibraryStill
  <1>4. CASE template.current # proc[e].expected
    <2>1. lock' = lock /\ proc' = [proc EXCEPT ![e] = T!Idle]
      BY <1>4 DEF T!LockTemplate
    <2>2. proc'[e] = T!Idle
      BY <1>1, <2>1 DEF LibraryInv, LibraryTypes
    <2>3. Stands(e)'
      BY <2>2, IdleProcess DEF Stands
    <2> QED
      BY <1>1, <2>1, <2>3, IdleProcess, SameLibrary, LibraryStill
  <1> QED
    BY <1>3, <1>4

\* A transaction that is undone takes along only what it wrote itself.
LEMMA AbortKeeps ==
    ASSUME LibraryInv, NEW p \in T!Processes, T!Abort(p), template' = template
    PROVE  LibraryInv' /\ Grows
  <1>1. p # Nobody /\ (p \in Editors => p \notin Seeders)
    BY TemplateBounds DEF T!Processes
  <1>2. /\ DOMAIN versions' \subseteq DOMAIN versions
        /\ \A v \in DOMAIN versions : versions[v].writer # p => v \in DOMAIN versions'
        /\ \A v \in DOMAIN versions' : versions'[v] = versions[v]
    BY AbortVersions DEF LibraryInv
  <1>3. proc' = [proc EXCEPT ![p] = T!Idle] /\ lock' = IF lock = p THEN Nobody ELSE lock
    BY DEF T!Abort
  <1>4. Kept
    BY <1>1, <1>2 DEF Kept, T!Committed
  <1>5. T!Committed(template.current)' /\ Grows
    BY <1>4 DEF LibraryInv, LibraryTypes, Kept, Grows, T!Committed
  <1>6. proc'[p] = T!Idle
    BY <1>3 DEF LibraryInv, LibraryTypes
  <1>7. Stands(p)' /\ Seeded(p)'
    BY <1>6, IdleProcess DEF Stands, Seeded
  <1>8. \A e \in Editors \ {p} : proc[e].pc \in {"insert", "point"} => lock' = lock
    BY <1>3 DEF LibraryInv, Stands
  <1>9. /\ template' \in [current : 1..MaxVersion, status : Statuses]
        /\ lock' \in Editors \cup {Nobody} /\ DOMAIN versions' \subseteq 1..MaxVersion
        /\ \A v \in DOMAIN versions' : versions'[v] \in VersionRow
    BY <1>2, <1>3 DEF LibraryInv, LibraryTypes
  <1>10. LibraryInv'
    BY <1>2, <1>3, <1>4, <1>5, <1>7, <1>8, <1>9, IdleProcess, LibraryStill
  <1> QED
    BY <1>5, <1>10

LEMMA InsertVersionKeeps ==
    ASSUME LibraryInv, NEW e \in Editors, T!InsertVersion(e)
    PROVE  LibraryInv' /\ Grows
  <1>1. proc[e].pc = "insert" /\ e \in T!Processes /\ template' = template
    BY DEF T!InsertVersion, T!Processes
  <1>2. PICK next \in 1..MaxVersion : next = proc[e].expected + 1
    BY <1>1, EditorKind
  <1>3. CASE T!Committed(next)
    BY <1>1, <1>2, <1>3, AbortKeeps DEF T!InsertVersion
  <1>4. CASE ~T!Committed(next)
    <2>1. PICK new : new = [content |-> proc[e].content, writer |-> e]
      OBVIOUS
    <2>2. /\ versions' = T!WithVersion(next, new) /\ next \notin DOMAIN versions
          /\ proc' = [proc EXCEPT ![e].pc = "point"] /\ lock' = lock
      BY <1>2, <1>4, <2>1 DEF T!InsertVersion, T!Committed, T!Uncommitted
    <2>3. PICK row : row = [proc[e] EXCEPT !.pc = "point"]
      OBVIOUS
    <2>4. /\ row \in EditorRow /\ row.pc = "point" /\ row.expected = proc[e].expected
          /\ proc' = [proc EXCEPT ![e] = row]
      BY <1>1, <2>2, <2>3, EditorKind
    <2>5. /\ DOMAIN versions' = DOMAIN versions \cup {next} /\ versions'[next] = new
          /\ \A v \in DOMAIN versions : versions'[v] = versions[v]
      BY <2>2, AddVersion
    <2>6. new \in VersionRow /\ new.writer = e
      BY <1>1, <2>1, EditorKind DEF VersionRow
    <2>7. Kept /\ T!Committed(template.current)' /\ Grows
      BY <1>1, <2>5 DEF LibraryInv, LibraryTypes, Kept, Grows, T!Committed
    <2>8. proc'[e] = row
      BY <1>1, <2>4 DEF LibraryInv, LibraryTypes
    <2>9. Stands(e)'
      <3>1. lock = e /\ proc[e].expected = template.current
        BY <1>1 DEF LibraryInv, Stands
      <3> QED
        BY <1>1, <1>2, <2>2, <2>4, <2>5, <2>6, <2>8, <3>1 DEF Stands
    <2>10. /\ template' \in [current : 1..MaxVersion, status : Statuses]
           /\ lock' \in Editors \cup {Nobody} /\ DOMAIN versions' \subseteq 1..MaxVersion
           /\ \A v \in DOMAIN versions' : versions'[v] \in VersionRow
      BY <1>1, <2>2, <2>5, <2>6 DEF LibraryInv, LibraryTypes
    <2>11. e \notin Seeders
      BY TemplateBounds
    <2>12. LibraryInv'
      BY <1>1, <2>2, <2>4, <2>5, <2>7, <2>9, <2>10, <2>11, LibraryStill
    <2> QED
      BY <2>7, <2>12
  <1> QED
    BY <1>3, <1>4

LEMMA CommitUpdateKeeps ==
    ASSUME LibraryInv, NEW e \in Editors, T!CommitUpdate(e)
    PROVE  LibraryInv' /\ Grows
  <1>1. /\ proc[e].pc = "point" /\ e \in T!Processes /\ e \notin Seeders /\ e # Nobody
        /\ template' = [current |-> proc[e].expected + 1, status |-> proc[e].status]
        /\ versions' = T!CommittedBy(e) /\ lock' = Nobody
        /\ proc' = [proc EXCEPT ![e] = T!Idle]
    BY TemplateBounds DEF T!CommitUpdate, T!Processes
  <1>2. /\ lock = e /\ proc[e].expected = template.current
        /\ proc[e].expected + 1 \in DOMAIN versions
        /\ versions[proc[e].expected + 1].writer = e
    BY <1>1 DEF LibraryInv, Stands
  <1>3. /\ DOMAIN versions' = DOMAIN versions
        /\ \A v \in DOMAIN versions :
              /\ versions'[v] \in VersionRow
              /\ versions[v].writer # e => versions'[v] = versions[v]
              /\ versions[v].writer = e => versions'[v].writer = Nobody
    BY <1>1, CommitVersions DEF LibraryInv
  <1>4. proc[e].expected \in 1..(MaxVersion - 1) /\ proc[e].status \in Statuses
        /\ proc[e].expected + 1 \in 1..MaxVersion
    BY <1>1, EditorKind
  <1>5. template'.current = proc[e].expected + 1 /\ T!Committed(template.current)'
    BY <1>1, <1>2, <1>3 DEF T!Committed
  <1>6. Kept
    BY <1>1, <1>3 DEF Kept, T!Committed
  <1>7. Grows
    BY <1>2, <1>4, <1>5, <1>6 DEF Grows, T!Committed
  <1>8. \A o \in Editors \ {e} : proc[o].pc \notin {"insert", "point"}
    BY <1>2 DEF LibraryInv, Stands
  <1>9. proc'[e] = T!Idle
    BY <1>1 DEF LibraryInv, LibraryTypes
  <1>10. Stands(e)'
    BY <1>9, IdleProcess DEF Stands
  <1>11. /\ template' \in [current : 1..MaxVersion, status : Statuses]
         /\ lock' \in Editors \cup {Nobody} /\ DOMAIN versions' \subseteq 1..MaxVersion
         /\ \A v \in DOMAIN versions' : versions'[v] \in VersionRow
    BY <1>1, <1>3, <1>4 DEF LibraryInv, LibraryTypes
  <1>12. LibraryInv'
    BY <1>1, <1>3, <1>5, <1>6, <1>8, <1>10, <1>11, IdleProcess, LibraryStill
  <1> QED
    BY <1>7, <1>12

LEMMA SeedReadKeeps ==
    ASSUME LibraryInv, NEW s \in Seeders, T!SeedRead(s)
    PROVE  LibraryInv' /\ Grows
  <1>1. PICK row : row = [pc |-> "insert", next |-> template.current + 1]
    OBVIOUS
  <1>2. template.current + 1 \in 2..MaxVersion
    BY TemplateBounds DEF T!SeedRead, LibraryInv, LibraryTypes
  <1>3. row \in SeederRow /\ row.pc = "insert"
    BY <1>1, <1>2 DEF SeederRow
  <1>4. /\ proc' = [proc EXCEPT ![s] = row] /\ UNCHANGED <<template, versions, lock>>
        /\ s \in T!Processes /\ s \notin Editors
    BY <1>1, TemplateBounds DEF T!SeedRead, T!Processes
  <1>5. proc'[s] = row
    BY <1>4 DEF LibraryInv, LibraryTypes
  <1>6. Seeded(s)'
    BY <1>3, <1>5 DEF Seeded
  <1>7. lock' \in Editors \cup {Nobody}
    BY <1>4 DEF LibraryInv, LibraryTypes
  <1> QED
    BY <1>3, <1>4, <1>6, <1>7, SameLibrary, LibraryStill

LEMMA SeedInsertKeeps ==
    ASSUME LibraryInv, NEW s \in Seeders, T!SeedInsert(s)
    PROVE  LibraryInv' /\ Grows
  <1>1. /\ proc[s].pc = "insert" /\ s \in T!Processes /\ s \notin Editors
        /\ UNCHANGED <<template, lock>> /\ proc' = [proc EXCEPT ![s].pc = "point"]
    BY TemplateBounds DEF T!SeedInsert, T!Processes
  <1>2. PICK next \in 2..MaxVersion : next = proc[s].next
    BY <1>1, SeederKind
  <1>3. PICK row : row = [proc[s] EXCEPT !.pc = "point"]
    OBVIOUS
  <1>4. /\ row \in SeederRow /\ row.pc = "point" /\ row.next = next
        /\ proc' = [proc EXCEPT ![s] = row]
    BY <1>1, <1>2, <1>3, SeederKind
  <1>5. proc'[s] = row
    BY <1>1, <1>4 DEF LibraryInv, LibraryTypes
  <1>6. lock' \in Editors \cup {Nobody}
    BY <1>1 DEF LibraryInv, LibraryTypes
  <1>7. CASE T!Committed(next)
    <2>1. versions' = versions
      BY <1>2, <1>7 DEF T!SeedInsert
    <2>2. Seeded(s)'
      BY <1>4, <1>5, <1>7, <2>1 DEF Seeded, T!Committed
    <2> QED
      BY <1>1, <1>4, <1>6, <2>1, <2>2, SameLibrary, LibraryStill
  <1>8. CASE ~T!Committed(next)
    <2>1. PICK new : new = [content |-> "test", writer |-> s]
      OBVIOUS
    <2>2. versions' = T!WithVersion(next, new) /\ next \notin DOMAIN versions
      BY <1>2, <1>8, <2>1 DEF T!SeedInsert, T!Committed, T!Uncommitted
    <2>3. /\ DOMAIN versions' = DOMAIN versions \cup {next} /\ versions'[next] = new
          /\ \A v \in DOMAIN versions : versions'[v] = versions[v]
      BY <2>2, AddVersion
    <2>4. new \in VersionRow /\ new.writer = s
      BY <1>1, <2>1 DEF VersionRow, T!Contents
    <2>5. Kept /\ T!Committed(template.current)' /\ Grows
      BY <1>1, <2>3 DEF LibraryInv, LibraryTypes, Kept, Grows, T!Committed
    <2>6. Seeded(s)'
      BY <1>4, <1>5, <2>3, <2>4 DEF Seeded
    <2>7. /\ template' \in [current : 1..MaxVersion, status : Statuses]
          /\ DOMAIN versions' \subseteq 1..MaxVersion
          /\ \A v \in DOMAIN versions' : versions'[v] \in VersionRow
      <3>1. next \in 1..MaxVersion
        OBVIOUS
      <3> QED
        BY <1>1, <2>3, <2>4, <3>1 DEF LibraryInv, LibraryTypes
    <2>8. LibraryInv'
      BY <1>1, <1>4, <1>6, <2>3, <2>5, <2>6, <2>7, LibraryStill
    <2> QED
      BY <2>5, <2>8
  <1> QED
    BY <1>7, <1>8

LEMMA SeedPointKeeps ==
    ASSUME LibraryInv, NEW s \in Seeders, T!SeedPoint(s)
    PROVE  LibraryInv' /\ Grows
  <1>1. /\ proc[s].pc = "point" /\ s \in T!Processes /\ s \notin Editors /\ s # Nobody
        /\ lock = Nobody /\ lock' = lock
        /\ versions' = T!CommittedBy(s) /\ proc' = [proc EXCEPT ![s] = T!Idle]
    BY TemplateBounds DEF T!SeedPoint, T!Processes
  <1>2. PICK next \in 2..MaxVersion : next = proc[s].next
    BY <1>1, SeederKind
  <1>3. PICK current \in 1..MaxVersion :
           current = IF template.current < next THEN next ELSE template.current
    BY DEF LibraryInv, LibraryTypes
  <1>4. /\ template' = [template EXCEPT !.current = current]
        /\ template' \in [current : 1..MaxVersion, status : Statuses] /\ template'.current = current
    BY <1>2, <1>3 DEF T!SeedPoint, LibraryInv, LibraryTypes
  <1>5. /\ DOMAIN versions' = DOMAIN versions
        /\ \A v \in DOMAIN versions :
              /\ versions'[v] \in VersionRow
              /\ versions[v].writer # s => versions'[v] = versions[v]
              /\ versions[v].writer = s => versions'[v].writer = Nobody
    BY <1>1, CommitVersions DEF LibraryInv
  <1>6. next \in DOMAIN versions /\ versions'[next].writer = Nobody
    BY <1>1, <1>2, <1>5 DEF LibraryInv, Seeded
  <1>7. Kept
    BY <1>1, <1>5 DEF Kept, T!Committed
  <1>8. T!Committed(template.current)'
    <2>1. template.current \in DOMAIN versions' /\ versions'[template.current].writer = Nobody
      BY <1>1, <1>5 DEF LibraryInv, T!Committed
    <2> QED
      BY <1>3, <1>4, <1>5, <1>6, <2>1 DEF T!Committed
  <1>9. Grows
    <2>1. template.current \in 1..MaxVersion
      BY DEF LibraryInv, LibraryTypes
    <2> QED
      BY <1>3, <1>4, <1>7, <1>8, <2>1 DEF Grows, T!Committed
  <1>10. proc'[s] = T!Idle
    BY <1>1 DEF LibraryInv, LibraryTypes
  <1>11. Seeded(s)'
    BY <1>10, IdleProcess DEF Seeded
  <1>12. \A e \in Editors : proc[e].pc \notin {"insert", "point"}
    BY <1>1, TemplateBounds DEF LibraryInv, Stands
  <1>13. /\ lock' \in Editors \cup {Nobody} /\ DOMAIN versions' \subseteq 1..MaxVersion
         /\ \A v \in DOMAIN versions' : versions'[v] \in VersionRow
    BY <1>1, <1>5 DEF LibraryInv, LibraryTypes
  <1>14. LibraryInv'
    BY <1>1, <1>4, <1>5, <1>7, <1>8, <1>11, <1>12, <1>13, IdleProcess, LibraryStill
  <1> QED
    BY <1>9, <1>14

LEMMA LibraryNext == LibraryInv /\ T!LibraryNext => LibraryInv' /\ Grows
  <1> SUFFICES ASSUME LibraryInv, T!LibraryNext PROVE LibraryInv' /\ Grows
    OBVIOUS
  <1>1. ASSUME NEW e \in Editors, NEW s \in Seeders, T!Deadlock(e, s) PROVE LibraryInv' /\ Grows
    BY <1>1, AbortKeeps DEF T!Deadlock, T!Processes
  <1>2. ASSUME NEW e \in Editors,
               \E c \in T!Contents, status \in {"draft", "published"} : T!BeginUpdate(e, c, status)
        PROVE  LibraryInv' /\ Grows
    BY <1>2, BeginUpdateKeeps DEF Statuses
  <1>3. ASSUME NEW e \in Editors, T!LockTemplate(e) \/ T!InsertVersion(e) \/ T!CommitUpdate(e)
        PROVE  LibraryInv' /\ Grows
    BY <1>3, LockTemplateKeeps, InsertVersionKeeps, CommitUpdateKeeps
  <1>4. ASSUME NEW s \in Seeders, T!SeedRead(s) \/ T!SeedInsert(s) \/ T!SeedPoint(s)
        PROVE  LibraryInv' /\ Grows
    BY <1>4, SeedReadKeeps, SeedInsertKeeps, SeedPointKeeps
  <1> QED
    BY <1>1, <1>2, <1>3, <1>4 DEF T!LibraryNext

-----------------------------------------------------------------------------
\* What the assessment a shows of a change of this content and with this rollback.
TermsMet(a, content, rollback) ==
    LET tests == {t \in a.tests :
                     t.key = IF content = "no_tests" THEN "validation_plan" ELSE "pinned"}
        failed == {t \in a.tests : t.result = "failed"}
    IN /\ \A t \in tests : /\ t.result \in {"passed", "failed"}
                           /\ content = "test_with_evidence" => t.evidence
       /\ tests # {}
       /\ a.result = "successful" => tests \cap failed = {}
       /\ failed # {} \/ rollback => a.reviewed

ChangeRow == [version : 0..MaxVersion, content : T!Contents, type : {"normal", "emergency"},
              risk : {"low", "high"}, systems : BOOLEAN, rollback : BOOLEAN]

\* The change keeps the content of its version, which is committed and stays.
ChangeInv ==
    /\ change \in ChangeRow
    /\ change # T!NoChange =>
          T!Committed(change.version) /\ change.content = versions[change.version].content
    /\ closed # Nobody => change # T!NoChange /\ TermsMet(closed, change.content, change.rollback)

TemplateInv == LibraryInv /\ ChangeInv

LEMMA TemplateInit == T!Init => TemplateInv
  <1> SUFFICES ASSUME T!Init PROVE TemplateInv
    OBVIOUS
  <1>1. template.current = 1 /\ template \in [current : 1..MaxVersion, status : Statuses]
    BY TemplateBounds DEF T!Init, Statuses
  <1>2. DOMAIN versions = {1} /\ versions[1] \in VersionRow /\ versions[1].writer = Nobody
    BY DEF T!Init, VersionRow, T!Contents
  <1>3. proc = [p \in T!Processes |-> T!Idle] /\ lock = Nobody /\ closed = Nobody
        /\ change = T!NoChange
    BY DEF T!Init
  <1>4. LibraryTypes
    BY <1>1, <1>2, <1>3, IdleProcess, TemplateBounds DEF LibraryTypes, T!Processes
  <1>5. change \in ChangeRow
    BY <1>3, TemplateBounds DEF T!NoChange, ChangeRow, T!Contents
  <1> QED
    BY <1>1, <1>2, <1>3, <1>4, <1>5, IdleProcess
    DEF TemplateInv, LibraryInv, ChangeInv, Stands, Seeded, T!Committed, T!Processes

LEMMA AcceptedTerms ==
    ASSUME change \in ChangeRow, NEW a \in T!Assessments, T!Accepts(change, a)
    PROVE  TermsMet(a, change.content, change.rollback)
  <1>1. /\ a.tests \subseteq T!Tests({"pinned", "validation_plan", "extra"})
        /\ \A t \in a.tests : t.result \in T!TestResults
    BY DEF T!Assessments, T!Tests
  <1>2. T!PinnedKey(change) = IF change.content = "no_tests" THEN "validation_plan" ELSE "pinned"
    BY DEF T!PinnedKey
  <1>3. \A t \in a.tests : t.key = T!PinnedKey(change) =>
           /\ t.result \in {"passed", "failed"}
           /\ change.content = "test_with_evidence" => t.evidence
           /\ a.result = "successful" => t.result = "passed"
    BY <1>1 DEF T!Accepts, T!Complete, T!Required, T!EvidenceRequired, T!TestResults
  <1>4. \E t \in a.tests : t.key = T!PinnedKey(change)
    BY DEF T!Accepts
  <1>5. (\E t \in a.tests : t.result = "failed") \/ change.rollback => a.reviewed
    BY DEF T!Accepts, T!RequiresReview
  <1> QED
    BY <1>2, <1>3, <1>4, <1>5 DEF TermsMet

LEMMA TemplateNext ==
    ASSUME TemplateInv, [T!Next]_(T!vars)
    PROVE  TemplateInv' /\ (T!Next => Grows)
  <1>1. CASE UNCHANGED T!vars
    <2>1. UNCHANGED <<template, versions, lock, proc, change, closed>>
      BY <1>1 DEF T!vars
    <2>2. TemplateInv'
      BY <2>1 DEF TemplateInv, LibraryInv, LibraryTypes, ChangeInv, Stands, Seeded, T!Committed
    <2> QED
      BY <2>1, <2>2, SameLibrary DEF TemplateInv
  <1>2. CASE T!LibraryNext
    <2>1. LibraryInv' /\ Grows
      BY <1>2, LibraryNext DEF TemplateInv
    <2>2. UNCHANGED <<change, closed>>
      BY <1>2 DEF T!LibraryNext, T!BeginUpdate, T!LockTemplate, T!InsertVersion, T!CommitUpdate,
                  T!SeedRead, T!SeedInsert, T!SeedPoint, T!Deadlock
    <2>3. ChangeInv'
      BY <2>1, <2>2 DEF TemplateInv, ChangeInv, Grows, Kept, T!Committed
    <2> QED
      BY <2>1, <2>3 DEF TemplateInv
  <1>3. CASE T!CreateNext \/ T!CloseNext
    <2>1. UNCHANGED <<template, versions, lock, proc>>
      BY <1>3 DEF T!CreateNext, T!CloseNext, T!CreateChange, T!BackOut, T!CloseChange
    <2>2. LibraryInv' /\ Grows
      BY <2>1, SameLibrary
      DEF TemplateInv, LibraryInv, LibraryTypes, Stands, Seeded, T!Committed
    <2>3. CASE T!CreateNext
      <3>1. PICK v \in 1..MaxVersion, type \in {"normal", "emergency"}, risk \in {"low", "high"},
                 systems \in BOOLEAN : T!CreateChange(v, type, risk, systems)
        BY <2>3 DEF T!CreateNext
      <3>2. /\ change = T!NoChange /\ T!Committed(v) /\ closed' = closed
            /\ change' = [version |-> v, content |-> versions[v].content, type |-> type,
                          risk |-> risk, systems |-> systems, rollback |-> FALSE]
        BY <3>1 DEF T!CreateChange
      <3>3. versions[v].content \in T!Contents
        BY <3>2 DEF TemplateInv, LibraryInv, LibraryTypes, VersionRow, T!Committed
      <3>4. change' \in ChangeRow /\ closed = Nobody
        BY <3>2, <3>3, TemplateBounds DEF ChangeRow, TemplateInv, ChangeInv
      <3>5. ChangeInv'
        BY <2>1, <3>2, <3>4 DEF ChangeInv, T!Committed
      <3> QED
        BY <2>2, <3>5 DEF TemplateInv
    <2>4. CASE T!BackOut
      <3>1. /\ change # T!NoChange /\ closed = Nobody /\ closed' = closed
            /\ change' = [change EXCEPT !.rollback = TRUE]
        BY <2>4 DEF T!BackOut
      <3>2. /\ change' \in ChangeRow /\ change'.version = change.version
            /\ change'.content = change.content
        BY <3>1 DEF TemplateInv, ChangeInv, ChangeRow
      <3>3. ChangeInv'
        BY <2>1, <3>1, <3>2 DEF TemplateInv, ChangeInv, T!Committed
      <3> QED
        BY <2>2, <3>3 DEF TemplateInv
    <2>5. ASSUME NEW a \in T!Assessments, T!CloseChange(a) PROVE TemplateInv'
      <3>1. change # T!NoChange /\ T!Accepts(change, a) /\ closed' = a /\ change' = change
        BY <2>5 DEF T!CloseChange
      <3>2. TermsMet(a, change.content, change.rollback)
        BY <3>1, AcceptedTerms DEF TemplateInv, ChangeInv
      <3>3. ChangeInv'
        BY <2>1, <3>1, <3>2 DEF TemplateInv, ChangeInv, T!Committed
      <3> QED
        BY <2>2, <3>3 DEF TemplateInv
    <2> QED
      BY <1>3, <2>2, <2>3, <2>4, <2>5 DEF T!CloseNext
  <1> QED
    BY <1>1, <1>2, <1>3 DEF T!Next

LEMMA TermsHold == TemplateInv => T!ClosedOnPinnedTerms
  BY DEF TemplateInv, ChangeInv, TermsMet, T!ClosedOnPinnedTerms

LEMMA TemplateTyped == TemplateInv => T!TypeOK
  <1> SUFFICES ASSUME TemplateInv PROVE T!TypeOK
    OBVIOUS
  <1>1. \A p \in T!Processes : proc[p].pc \in {"idle", "save", "insert", "point"}
    BY IdleProcess DEF TemplateInv, LibraryInv, LibraryTypes, EditorRow, SeederRow
  <1>2. \A v \in DOMAIN versions : versions[v].content \in T!Contents
    BY DEF TemplateInv, LibraryInv, LibraryTypes, VersionRow
  <1> QED
    BY <1>1, <1>2 DEF TemplateInv, LibraryInv, LibraryTypes, T!TypeOK, Statuses

----------------------------------------------------------------------------
(* The technical inventory *)

Universe(c) == UNION Sections[c]
Values == {item.value : item \in Universe(V!Nics)}

Snapshot(c, now) == [content : SUBSET Universe(c), last : 1..now, current : BOOLEAN, ci : Holders]
NicRow == [value : Values \cup {V!None}, last : 0..MaxClock, active : BOOLEAN, ci : Holders \cup {V!None}]
Observation(c) == [time : 0..MaxClock, content : SUBSET Universe(c), ci : Holders \cup {V!None}]

\* Some sections of the device, each of them with items that it may have.
Sectioned(s) == DOMAIN s \subseteq V!Collections /\ \A c \in DOMAIN s : s[c] \subseteq Universe(c)

\* A worker holds a record with a time that is over, for a CI when it is linked.
Held(row, now) ==
    /\ row.pc \in {"idle", "read", "linked"}
    /\ row.pc # "idle" => row.time \in 0..now /\ Sectioned(row.sections)
    /\ row.pc = "linked" => row.ci \in Holders

\* Row r is the current one of these and says what the newest observation b says; no other
\* is as new as the clock of b.
Shows(all, r, b) ==
    /\ r.current /\ \A s \in all : s.current => s = r
    /\ r.last = b.time /\ r.content = b.content /\ r.ci = b.ci
    /\ \A s \in all : s.last <= b.time

Newest(all, b) == (all = {} /\ b = V!NoBest) \/ \E r \in all : Shows(all, r, b)

\* The rows of the interfaces are those of the newest list.
Follows(rows, b) ==
    \A k \in V!Keys :
       /\ rows[k].last <= b.time
       /\ rows[k].active => [key |-> k, value |-> rows[k].value] \in b.content /\ rows[k].ci = b.ci
       /\ (\E item \in b.content : item.key = k) => rows[k].active

SnapshotsOK(c, all, b, now) ==
    /\ all \subseteq Snapshot(c, now) /\ IsFiniteSet(all) /\ Cardinality(all) <= Retention
    /\ Newest(all, b)

InventoryTypes ==
    /\ clock \in 1..MaxClock
    /\ source.time \in 1..clock
    /\ source = [time |-> source.time, sections |-> source.sections]
    /\ source.sections = [c \in V!Collections |-> source.sections[c]]
    /\ \A c \in V!Collections : source.sections[c] \in Sections[c] \cup {{}}
    /\ Sectioned(enriched)
    /\ linked \in [ci : Holders \cup {V!None}, active : BOOLEAN]
    /\ outOfService \subseteq Holders
    /\ import = [w \in Workers |-> import[w]] /\ \A w \in Workers : Held(import[w], clock)
    /\ snapshots = [c \in V!Collections |-> snapshots[c]]
    /\ nics \in [V!Keys -> NicRow]
    /\ best = [c \in V!Collections |-> best[c]] /\ \A c \in V!Collections : best[c] \in Observation(c)

InventoryInv ==
    /\ InventoryTypes
    /\ \A c \in V!Collections : SnapshotsOK(c, snapshots[c], best[c], clock)
    /\ Follows(nics, best[V!Nics])

LEMMA InventoryBounds ==
    /\ V!Nics \in V!Collections /\ V!None \notin Holders
    /\ \A c \in V!Collections : \A item \in Universe(c) :
          item = [key |-> item.key, value |-> item.value]
    /\ Retention \in Nat \ {0} /\ MaxClock \in Nat \ {0}
    /\ \A S : V!Cardinality(S) = Cardinality(S)
  <1>1. \A c \in V!Collections : Sections[c] \in V!Range(Sections)
    BY DEF V!Collections, V!Range
  <1>2. \A c \in V!Collections : \A item \in Universe(c) : item \in UNION UNION V!Range(Sections)
    BY <1>1 DEF Universe
  <1>3. \A S : V!Cardinality(S) = Cardinality(S)
    BY DEF V!Cardinality, Cardinality
  <1> QED
    BY <1>2, <1>3, CmdbAssumption DEF V!InventoryAssumption

LEMMA KeysOfNics == \A item \in Universe(V!Nics) : item.key \in V!Keys /\ item.value \in Values
  BY DEF V!Keys, Universe, Values

LEMMA GreatestNumber ==
    ASSUME NEW N \in Nat, NEW S \in SUBSET (0..N), S # {}
    PROVE  \E m \in S : \A x \in S : x <= m
  <1> DEFINE M == {N - x : x \in S}
  <1>1. M \in SUBSET Nat /\ M # {}
    <2>1. \A x \in S : x \in 0..N /\ N - x \in Nat
      OBVIOUS
    <2>2. PICK x \in S : TRUE
      OBVIOUS
    <2>3. N - x \in M
      OBVIOUS
    <2> QED
      BY <2>1, <2>3
  <1>2. PICK n \in M : \A k \in M : n <= k
    BY <1>1, LeastNumber
  <1>3. PICK m \in S : n = N - m
    BY <1>2
  <1>4. ASSUME NEW x \in S PROVE x <= m
    <2>1. N - x \in M
      OBVIOUS
    <2>2. N - m <= N - x
      BY <2>1, <1>2, <1>3
    <2>3. x \in 0..N /\ m \in 0..N
      OBVIOUS
    <2> QED
      BY <2>2, <2>3
  <1> QED
    BY <1>4

LEMMA GreatestIs ==
    ASSUME NEW N \in Nat, NEW S \in SUBSET (0..N), S # {}
    PROVE  V!Max(S) \in S /\ \A x \in S : x <= V!Max(S)
  <1>1. PICK m \in S : \A x \in S : x <= m
    BY GreatestNumber
  <1>2. \A x \in S : m >= x
    BY <1>1
  <1>3. V!Max(S) \in S /\ \A y \in S : V!Max(S) >= y
    BY <1>2 DEF V!Max
  <1> QED
    BY <1>3

LEMMA SmallerOf == \A x, y \in Nat : V!Min({x, y}) = IF x <= y THEN x ELSE y
  BY DEF V!Min

LEMMA LaterOf == \A x, y \in Nat : V!Max({x, y}) = IF x <= y THEN y ELSE x
  BY DEF V!Max

LEMMA HeldStill ==
    ASSUME NEW now \in Nat, NEW later \in Nat, now <= later, NEW row, Held(row, now)
    PROVE  Held(row, later)
  BY DEF Held

LEMMA SnapshotsStill ==
    ASSUME NEW now \in Nat, NEW later \in Nat, now <= later, NEW c, NEW all, NEW b,
           SnapshotsOK(c, all, b, now)
    PROVE  SnapshotsOK(c, all, b, later)
  <1>1. Snapshot(c, now) \subseteq Snapshot(c, later)
    <2>1. 1..now \subseteq 1..later
      OBVIOUS
    <2> QED
      BY <2>1 DEF Snapshot
  <1> QED
    BY <1>1 DEF SnapshotsOK

LEMMA InventoryInit == V!Init => InventoryInv
  <1> SUFFICES ASSUME V!Init PROVE InventoryInv
    OBVIOUS
  <1> USE InventoryBounds DEF V!Init
  <1>1. clock \in 1..MaxClock /\ source.time \in 1..clock
    OBVIOUS
  <1>2. /\ source = [time |-> source.time, sections |-> source.sections]
        /\ source.sections = [c \in V!Collections |-> source.sections[c]]
        /\ \A c \in V!Collections : source.sections[c] \in Sections[c] \cup {{}}
    OBVIOUS
  <1>3. Sectioned(enriched)
    BY DEF V!NoSections, Sectioned
  <1>4. linked \in [ci : Holders \cup {V!None}, active : BOOLEAN] /\ outOfService \subseteq Holders
    OBVIOUS
  <1>5. import = [w \in Workers |-> import[w]] /\ \A w \in Workers : Held(import[w], clock)
    BY DEF V!Idle, Held
  <1>6. snapshots = [c \in V!Collections |-> snapshots[c]]
    OBVIOUS
  <1>7. nics \in [V!Keys -> NicRow]
    BY DEF V!NoNic, NicRow
  <1>8. /\ best = [c \in V!Collections |-> best[c]]
        /\ \A c \in V!Collections : best[c] \in Observation(c)
    BY DEF V!NoBest, Observation
  <1>9. ASSUME NEW c \in V!Collections PROVE SnapshotsOK(c, snapshots[c], best[c], clock)
    BY FS_EmptySet DEF SnapshotsOK, Newest
  <1>10. Follows(nics, best[V!Nics])
    BY DEF Follows, V!NoNic, V!NoBest
  <1> QED
    BY <1>1, <1>2, <1>3, <1>4, <1>5, <1>6, <1>7, <1>8, <1>9, <1>10 DEF InventoryInv, InventoryTypes

LEMMA FiniteImage ==
    ASSUME NEW S, IsFiniteSet(S), NEW f
    PROVE  IsFiniteSet({f[x] : x \in S})
  <1> DEFINE g == [x \in S |-> f[x]]
             Image == {f[x] : x \in S}
  <1>1. g \in Surjection(S, Image)
    BY DEF Surjection
  <1> QED
    BY <1>1, FS_Surjection, Zenon

\* An observation is too old when it is older than the newest.
LEMMA StaleIs ==
    ASSUME NEW c \in V!Collections, NEW b, NEW now \in Nat, SnapshotsOK(c, snapshots[c], b, now),
           NEW t \in Nat \ {0}
    PROVE  V!Stale(c, t) <=> t < b.time
  <1>1. CASE snapshots[c] = {} /\ b = V!NoBest
    BY <1>1 DEF V!Stale, V!Current, V!NoBest
  <1>2. CASE \E r \in snapshots[c] : Shows(snapshots[c], r, b)
    BY <1>2 DEF V!Stale, V!Current, Shows
  <1> QED
    BY <1>1, <1>2 DEF SnapshotsOK, Newest

Latest(all, content, t) == V!Max({t} \cup {s.last : s \in {r \in all : r.content = content}})

\* The time of a snapshot that is seen again is the latest of its rows and of the observation.
LEMMA LatestIs ==
    ASSUME NEW c, NEW now \in Nat, NEW all \in SUBSET Snapshot(c, now), NEW t \in 1..now, NEW content
    PROVE  /\ Latest(all, content, t) \in 1..now
           /\ t <= Latest(all, content, t)
           /\ \A r \in all : r.content = content => r.last <= Latest(all, content, t)
           /\ \A n \in Nat : t <= n /\ (\A r \in all : r.last <= n) => Latest(all, content, t) <= n
  <1> DEFINE S == {t} \cup {s.last : s \in {r \in all : r.content = content}}
  <1>1. \A r \in all : r.last \in 1..now
    BY DEF Snapshot
  <1>2. S \in SUBSET (0..now) /\ S # {} /\ \A x \in S : x \in 1..now
    BY <1>1
  <1>3. V!Max(S) \in S /\ \A x \in S : x <= V!Max(S)
    <2> HIDE DEF S
    <2> QED
      BY <1>2, GreatestIs
  <1>4. Latest(all, content, t) = V!Max(S)
    BY DEF Latest
  <1>5. \A n \in Nat : t <= n /\ (\A r \in all : r.last <= n) => \A x \in S : x <= n
    OBVIOUS
  <1>6. \A r \in all : r.content = content => r.last \in S
    OBVIOUS
  <1> HIDE DEF S
  <1>7. t \in S
    BY DEF S
  <1> QED
    BY <1>2, <1>3, <1>4, <1>5, <1>6, <1>7

LEMMA SeenAgain ==
    ASSUME NEW c, NEW now, NEW r \in Snapshot(c, now), NEW n \in 1..now
    PROVE  [r EXCEPT !.last = n] =
              [content |-> r.content, last |-> n, current |-> r.current, ci |-> r.ci]
  BY DEF Snapshot

LEMMA Superseded ==
    ASSUME NEW c, NEW now, NEW r \in Snapshot(c, now)
    PROVE  [r EXCEPT !.current = FALSE] =
              [content |-> r.content, last |-> r.last, current |-> FALSE, ci |-> r.ci]
  <1>1. PICK f \in BOOLEAN : f = FALSE
    OBVIOUS
  <1>2. [r EXCEPT !.current = f] \in Snapshot(c, now)
    BY DEF Snapshot
  <1>3. [content |-> r.content, last |-> r.last, current |-> f, ci |-> r.ci] \in Snapshot(c, now)
    BY DEF Snapshot
  <1>4. [r EXCEPT !.current = f].content = r.content /\ [r EXCEPT !.current = f].last = r.last
        /\ [r EXCEPT !.current = f].current = f /\ [r EXCEPT !.current = f].ci = r.ci
    BY DEF Snapshot
  <1>5. [r EXCEPT !.current = f] =
           [content |-> r.content, last |-> r.last, current |-> f, ci |-> r.ci]
    BY <1>2, <1>3, <1>4 DEF Snapshot
  <1> QED
    BY <1>1, <1>5

\* After an observation the current row is that of the newest one.
LEMMA AfterNewest ==
    ASSUME NEW c \in V!Collections, NEW b \in Observation(c), NEW now \in Nat, NEW later \in Nat,
           now <= later, SnapshotsOK(c, snapshots[c], b, now),
           NEW content \in SUBSET Universe(c), NEW t \in 1..later, NEW ci \in Holders
    PROVE  /\ V!After(c, content, t, ci) \subseteq Snapshot(c, later)
           /\ IsFiniteSet(V!After(c, content, t, ci))
           /\ \E r \in V!After(c, content, t, ci) :
                 Shows(V!After(c, content, t, ci), r, V!Newer(b, t, content, ci))
  <1> DEFINE all == snapshots[c]
             same == {r \in all : r.content = content}
             last == Latest(all, content, t)
             fresh == [content |-> content, last |-> last, current |-> TRUE, ci |-> ci]
             old == [content |-> content, last |-> t, current |-> FALSE, ci |-> ci]
             moved == {[r EXCEPT !.last = last] : r \in same}
             past == {[r EXCEPT !.current = FALSE] : r \in all \ same}
  <1>1. SnapshotsOK(c, all, b, later)
    BY SnapshotsStill
  <1>2. all \in SUBSET Snapshot(c, later) /\ IsFiniteSet(all) /\ Newest(all, b)
    BY <1>1 DEF SnapshotsOK
  <1>3. /\ last \in 1..later /\ t <= last
        /\ \A r \in all : r.content = content => r.last <= last
        /\ \A n \in Nat : t <= n /\ (\A r \in all : r.last <= n) => last <= n
    BY <1>2, LatestIs
  <1>4. V!Stale(c, t) <=> t < b.time
    BY StaleIs, t \in Nat \ {0}
  <1>5. V!After(c, content, t, ci) =
           IF V!Stale(c, t) THEN IF same = {} THEN all \cup {old} ELSE (all \ same) \cup moved
           ELSE past \cup {fresh}
    BY DEF V!After, Latest
  <1>6. same \subseteq all /\ all \ same \subseteq all /\ IsFiniteSet(same) /\ IsFiniteSet(all \ same)
    BY <1>2, FS_Subset
  <1>7. IsFiniteSet(moved) /\ IsFiniteSet(past)
    <2> DEFINE f == [r \in same |-> [r EXCEPT !.last = last]]
               g == [r \in all \ same |-> [r EXCEPT !.current = FALSE]]
    <2>1. moved = {f[r] : r \in same} /\ past = {g[r] : r \in all \ same}
      OBVIOUS
    <2> HIDE DEF f, g, same, all
    <2>2. IsFiniteSet({f[r] : r \in same})
      BY <1>6, FiniteImage
    <2>3. IsFiniteSet({g[r] : r \in all \ same})
      BY <1>6, FiniteImage
    <2> QED
      BY <2>1, <2>2, <2>3
  <1>8. old \in Snapshot(c, later) /\ fresh \in Snapshot(c, later)
    BY <1>3 DEF Snapshot
  <1>9. \A r \in all : /\ r = [content |-> r.content, last |-> r.last, current |-> r.current, ci |-> r.ci]
                       /\ r.content \in SUBSET Universe(c) /\ r.last \in 1..later
                       /\ r.current \in BOOLEAN /\ r.ci \in Holders
    BY <1>2 DEF Snapshot
  <1>10. ASSUME NEW r \in all
         PROVE  /\ [r EXCEPT !.last = last] =
                      [content |-> r.content, last |-> last, current |-> r.current, ci |-> r.ci]
                /\ [r EXCEPT !.current = FALSE] =
                      [content |-> r.content, last |-> r.last, current |-> FALSE, ci |-> r.ci]
    <2>1. r \in Snapshot(c, later)
      BY <1>2
    <2> QED
      BY <2>1, <1>3, SeenAgain, Superseded
  <1>11. moved \subseteq Snapshot(c, later) /\ past \subseteq Snapshot(c, later)
    <2>1. ASSUME NEW r \in same PROVE [r EXCEPT !.last = last] \in Snapshot(c, later)
      <3>1. r \in all /\ last \in 1..later
        BY <1>3
      <3>2. [content |-> r.content, last |-> last, current |-> r.current, ci |-> r.ci]
              \in Snapshot(c, later)
        BY <1>9, <3>1 DEF Snapshot
      <3> QED
        BY <1>10, <3>1, <3>2
    <2>2. ASSUME NEW r \in all \ same PROVE [r EXCEPT !.current = FALSE] \in Snapshot(c, later)
      <3>1. [content |-> r.content, last |-> r.last, current |-> FALSE, ci |-> r.ci]
              \in Snapshot(c, later)
        BY <1>9 DEF Snapshot
      <3> QED
        BY <1>10, <3>1
    <2> QED
      BY <2>1, <2>2
  <1>12. b.time \in Nat
    BY DEF Observation
  <1> HIDE DEF all, last
  <1>13. CASE ~V!Stale(c, t)
    <2>1. V!After(c, content, t, ci) = past \cup {fresh}
      BY <1>5, <1>13
    <2>2. \A r \in all : r.last <= b.time
      BY <1>2 DEF Newest, Shows
    <2>3. \A r \in all : r.last <= t
      BY <2>2, <1>4, <1>9, <1>12, <1>13
    <2>4. last = t
      BY <2>3, <1>3
    <2>5. V!Newer(b, t, content, ci) = [time |-> t, content |-> content, ci |-> ci]
      BY <1>4, <1>13 DEF V!Newer
    <2>6. ASSUME NEW r \in past PROVE ~r.current /\ r.last <= t
      <3>1. PICK x \in all \ same : r = [x EXCEPT !.current = FALSE]
        OBVIOUS
      <3>2. r = [content |-> x.content, last |-> x.last, current |-> FALSE, ci |-> x.ci]
        BY <1>10, <3>1
      <3> QED
        BY <2>3, <3>2
    <2>7. Shows(past \cup {fresh}, fresh, [time |-> t, content |-> content, ci |-> ci])
      BY <2>4, <2>6 DEF Shows
    <2>8. IsFiniteSet(past \cup {fresh})
      BY <1>7, FS_AddElement
    <2> QED
      BY <2>1, <2>5, <2>7, <2>8, <1>8, <1>11
  <1>14. CASE V!Stale(c, t)
    <2>1. all # {} /\ V!Newer(b, t, content, ci) = b /\ t <= b.time
      BY <1>4, <1>12, <1>14 DEF V!Newer, V!Stale, V!Current, all
    <2>2. PICK r \in all : Shows(all, r, b)
      BY <1>2, <2>1 DEF Newest
    <2>3. \A s \in all : s.last <= b.time
      BY <2>2 DEF Shows
    <2>4. last <= b.time
      BY <2>1, <2>3, <1>3, <1>12
    <2>5. CASE same = {}
      <3>1. V!After(c, content, t, ci) = all \cup {old}
        BY <1>5, <1>14, <2>5
      <3>2. Shows(all \cup {old}, r, b)
        BY <2>1, <2>2 DEF Shows
      <3>3. IsFiniteSet(all \cup {old})
        BY <1>2, FS_AddElement
      <3> QED
        BY <3>1, <3>2, <3>3, <2>1, <1>2, <1>8
    <2>6. CASE same # {}
      <3>1. V!After(c, content, t, ci) = (all \ same) \cup moved
        BY <1>5, <1>14, <2>6
      <3>2. r \in (all \ same) \cup moved
        <4>1. CASE r \in same
          <5>1. r.last <= last /\ r.last = b.time
            BY <1>3, <2>2, <4>1 DEF Shows
          <5>2. r.last = last
            BY <5>1, <2>4, <1>3, <1>12
          <5>3. [r EXCEPT !.last = last] = r
            BY <5>2, <1>9, <1>10
          <5> QED
            BY <5>3, <4>1
        <4> QED
          BY <4>1
      <3>3. ASSUME NEW s \in (all \ same) \cup moved PROVE s.last <= b.time
        <4>1. CASE s \in all \ same
          BY <4>1, <2>3
        <4>2. CASE s \in moved
          <5>1. PICK x \in same : s = [x EXCEPT !.last = last]
            BY <4>2
          <5>2. s = [content |-> x.content, last |-> last, current |-> x.current, ci |-> x.ci]
            BY <5>1, <1>10
          <5> QED
            BY <5>2, <2>4
        <4> QED
          BY <4>1, <4>2
      <3>4. ASSUME NEW s \in (all \ same) \cup moved, s.current PROVE s = r
        <4>1. CASE s \in all \ same
          BY <4>1, <3>4, <2>2 DEF Shows
        <4>2. CASE s \in moved
          <5>1. PICK x \in same : s = [x EXCEPT !.last = last]
            BY <4>2
          <5>2. x.current
            BY <5>1, <3>4, <1>10
          <5>3. x = r
            BY <5>2, <2>2 DEF Shows
          <5>4. r.last = last
            BY <5>3, <1>3, <2>2, <2>4, <1>12 DEF Shows
          <5> QED
            BY <5>1, <5>3, <5>4, <1>9, <1>10
        <4> QED
          BY <4>1, <4>2
      <3>5. Shows((all \ same) \cup moved, r, b)
        BY <3>3, <3>4, <2>2 DEF Shows
      <3>6. IsFiniteSet((all \ same) \cup moved)
        BY <1>6, <1>7, FS_Union
      <3> QED
        BY <3>1, <3>2, <3>5, <3>6, <2>1, <1>2, <1>11
    <2> QED
      BY <2>5, <2>6
  <1> QED
    BY <1>13, <1>14

\* Retention keeps the current row.
LEMMA RetainedNewest ==
    ASSUME NEW c \in V!Collections, NEW now \in Nat, NEW all \in SUBSET Snapshot(c, now),
           IsFiniteSet(all), NEW b, NEW r \in all, Shows(all, r, b), NEW kept \in V!Retained(all)
    PROVE  SnapshotsOK(c, kept, b, now)
  <1> USE InventoryBounds
  <1>1. kept \in SUBSET all
    BY DEF V!Retained
  <1>2. IsFiniteSet(kept) /\ Cardinality(kept) \in Nat /\ Cardinality(all) \in Nat
    BY <1>1, FS_Subset, FS_CardinalityType
  <1>3. Cardinality(kept) = V!Min({Cardinality(all), Retention})
    BY DEF V!Retained
  <1>4. Cardinality(all) # 0
    BY FS_EmptySet
  <1>5. Cardinality(kept) <= Retention /\ Cardinality(kept) # 0
    BY <1>2, <1>3, <1>4, SmallerOf
  <1>6. PICK k \in kept : TRUE
    BY <1>2, <1>5, FS_EmptySet
  <1>7. \A x \in kept, s \in all \ kept : V!Before(x, s)
    BY DEF V!Retained
  <1>8. r \in kept
    <2>1. CASE r \notin kept
      <3>1. k.current \/ ~r.current
        BY <1>6, <1>7, <2>1 DEF V!Before
      <3>2. k = r
        BY <3>1, <1>1, <1>6 DEF Shows
      <3> QED
        BY <3>2, <1>6
    <2> QED
      BY <2>1
  <1>9. Shows(kept, r, b)
    BY <1>1 DEF Shows
  <1> QED
    BY <1>1, <1>2, <1>5, <1>8, <1>9 DEF SnapshotsOK, Newest

\* The interfaces follow a list that is at least as new as the one they follow.
LEMMA NicsFollow ==
    ASSUME NEW b, b.time \in Nat, Follows(nics, b), nics \in [V!Keys -> NicRow],
           NEW t \in 1..MaxClock, b.time <= t, NEW content \in SUBSET Universe(V!Nics),
           NEW ci \in Holders, NEW after,
           \A k \in V!Keys : after[k] \in V!NicAfter(k, content, t, ci)
    PROVE  /\ \A k \in V!Keys : after[k] \in NicRow
           /\ Follows(after, [time |-> t, content |-> content, ci |-> ci])
  <1> SUFFICES ASSUME NEW k \in V!Keys
               PROVE  /\ after[k] \in NicRow /\ after[k].last <= t
                      /\ after[k].active => /\ [key |-> k, value |-> after[k].value] \in content
                                            /\ after[k].ci = ci
                      /\ (\E item \in content : item.key = k) => after[k].active
    BY DEF Follows
  <1>1. nics[k] \in NicRow /\ nics[k].last \in 0..MaxClock /\ nics[k].last <= b.time
    BY DEF Follows, NicRow
  <1>2. ~(t < nics[k].last) /\ nics[k].last <= t
    BY <1>1
  <1>3. CASE \E item \in content : item.key = k
    <2>1. PICK item \in content : item.key = k /\
             after[k] = [value |-> item.value, last |-> t, active |-> TRUE, ci |-> ci]
      BY <1>2, <1>3 DEF V!NicAfter
    <2>2. item \in Universe(V!Nics) /\ item = [key |-> k, value |-> item.value]
      BY <2>1, InventoryBounds
    <2>3. item.value \in Values
      BY <2>2, KeysOfNics
    <2>4. after[k] \in NicRow
      BY <2>1, <2>3 DEF NicRow
    <2> QED
      BY <2>1, <2>2, <2>4
  <1>4. CASE ~ \E item \in content : item.key = k
    <2>1. after[k] = [nics[k] EXCEPT !.active = FALSE]
      <3>1. {item \in content : item.key = k} = {}
        BY <1>4
      <3>2. after[k] \in {[nics[k] EXCEPT !.active = FALSE]}
        BY <1>2, <3>1 DEF V!NicAfter
      <3> QED
        BY <3>2
    <2>2. PICK f \in BOOLEAN : f = FALSE
      OBVIOUS
    <2>3. PICK n \in NicRow : n = nics[k]
      BY <1>1
    <2>4. [n EXCEPT !.active = f] \in NicRow /\ [n EXCEPT !.active = f].last = n.last
          /\ [n EXCEPT !.active = f].active = f
      BY DEF NicRow
    <2>5. after[k] = [n EXCEPT !.active = f]
      BY <2>1, <2>2, <2>3
    <2>6. after[k] \in NicRow /\ after[k].last = nics[k].last /\ after[k].active = FALSE
      BY <2>2, <2>3, <2>4, <2>5
    <2> QED
      BY <2>6, <1>2, <1>4
  <1> QED
    BY <1>3, <1>4

----------------------------------------------------------------------------
(* Every step of the inventory keeps its invariant *)

\* What is stored is the same, and the clock did not go back.
Unstored == clock' \in 1..MaxClock /\ clock <= clock' /\ UNCHANGED <<snapshots, nics, best>>

LEMMA UnstoredStands ==
    ASSUME InventoryInv, Unstored
    PROVE  /\ \A c \in V!Collections : SnapshotsOK(c, snapshots[c], best[c], clock)'
           /\ Follows(nics, best[V!Nics])'
           /\ (snapshots = [c \in V!Collections |-> snapshots[c]])'
           /\ (nics \in [V!Keys -> NicRow])'
           /\ (best = [c \in V!Collections |-> best[c]])'
           /\ \A c \in V!Collections : (best[c] \in Observation(c))'
  <1>1. clock \in Nat /\ clock' \in Nat /\ clock <= clock'
    BY DEF InventoryInv, InventoryTypes, Unstored
  <1>2. ASSUME NEW c \in V!Collections PROVE SnapshotsOK(c, snapshots'[c], best'[c], clock')
    <2>1. SnapshotsOK(c, snapshots[c], best[c], clock)
      BY DEF InventoryInv
    <2>2. SnapshotsOK(c, snapshots[c], best[c], clock')
      BY <1>1, <2>1, SnapshotsStill
    <2> QED
      BY <2>2 DEF Unstored
  <1> QED
    BY <1>2 DEF InventoryInv, InventoryTypes, Unstored

LEMMA TasksStill ==
    ASSUME InventoryTypes, clock' \in Nat, clock <= clock', import' = import
    PROVE  (import = [w \in Workers |-> import[w]])' /\ \A w \in Workers : Held(import[w], clock)'
  <1>1. \A w \in Workers : Held(import[w], clock) /\ clock \in Nat
    BY DEF InventoryTypes
  <1>2. \A w \in Workers : Held(import[w], clock')
    BY <1>1, HeldStill
  <1> QED
    BY <1>2 DEF InventoryTypes

LEMMA ReportKeeps ==
    ASSUME InventoryInv, NEW c \in V!Collections, NEW content \in Sections[c],
           NEW checkIn \in BOOLEAN, V!Report(c, content, checkIn)
    PROVE  InventoryInv'
  <1> USE DEF V!Report
  <1>1. clock \in 1..MaxClock /\ source.time \in 1..clock /\ MaxClock \in Nat
    BY InventoryBounds DEF InventoryInv, InventoryTypes
  <1>2. clock' \in 1..MaxClock /\ clock <= clock'
    BY <1>1
  <1>3. /\ source'.time \in 1..clock'
        /\ source'.sections = [source.sections EXCEPT ![c] = content]
        /\ source' = [time |-> source'.time, sections |-> source'.sections]
    BY <1>1, <1>2
  <1>4. /\ source'.sections = [d \in V!Collections |-> source'.sections[d]]
        /\ \A d \in V!Collections : source'.sections[d] \in Sections[d] \cup {{}}
    <2>1. /\ source.sections = [d \in V!Collections |-> source.sections[d]]
          /\ \A d \in V!Collections : source.sections[d] \in Sections[d] \cup {{}}
      BY DEF InventoryInv, InventoryTypes
    <2>2. PICK f : f = source.sections
      OBVIOUS
    <2>3. \A d \in V!Collections : [f EXCEPT ![c] = content][d] = IF d = c THEN content ELSE f[d]
      BY <2>1, <2>2
    <2>4. [f EXCEPT ![c] = content] =
             [d \in V!Collections |-> [f EXCEPT ![c] = content][d]]
      BY <2>1, <2>2
    <2> QED
      BY <1>3, <2>1, <2>2, <2>3, <2>4
  <1>5. Unstored
    BY <1>2 DEF Unstored
  <1>6. (import = [w \in Workers |-> import[w]])' /\ \A w \in Workers : Held(import[w], clock)'
    BY <1>1, <1>2, TasksStill DEF InventoryInv
  <1> QED
    BY <1>2, <1>3, <1>4, <1>5, <1>6, UnstoredStands DEF InventoryInv, InventoryTypes

LEMMA SameTimes ==
    ASSUME InventoryInv, UNCHANGED <<clock, snapshots, nics, best>>
    PROVE  Unstored
  BY InventoryBounds DEF InventoryInv, InventoryTypes, Unstored

LEMMA PublishKeeps ==
    ASSUME InventoryInv, NEW sections \in SUBSET V!Collections, V!Publish(sections)
    PROVE  InventoryInv'
  <1> USE DEF V!Publish
  <1>1. Unstored
    BY SameTimes
  <1>2. Sectioned(enriched)'
    <2>1. \A c \in V!Collections : source.sections[c] \in Sections[c] \cup {{}}
      BY DEF InventoryInv, InventoryTypes
    <2>2. \A c \in V!Collections : source.sections[c] \subseteq Universe(c)
      BY <2>1 DEF Universe
    <2> DEFINE some == [c \in sections |-> source.sections[c]]
               S == {c \in sections : some[c] # {}}
    <2>3. enriched' = [c \in {d \in DOMAIN some : some[d] # {}} |-> some[c]]
      BY DEF V!RestrictValues, V!Restrict
    <2>4. S \in SUBSET sections /\ enriched' = [c \in S |-> source.sections[c]]
      BY <2>3
    <2> QED
      BY <2>2, <2>4 DEF Sectioned
  <1> QED
    BY <1>1, <1>2, UnstoredStands DEF InventoryInv, InventoryTypes

LEMMA ReadKeeps ==
    ASSUME InventoryInv, NEW w \in Workers, NEW sections \in SUBSET V!Collections,
           NEW stamped \in BOOLEAN, V!Read(w, sections, stamped)
    PROVE  InventoryInv'
  <1> USE DEF V!Read
  <1>1. Unstored
    BY SameTimes
  <1>2. PICK s : s = V!Enriched(V!Restrict(source.sections, sections), enriched)
    OBVIOUS
  <1>3. \A c \in V!Collections : source.sections[c] \subseteq Universe(c)
    <2>1. \A c \in V!Collections : source.sections[c] \in Sections[c] \cup {{}}
      BY DEF InventoryInv, InventoryTypes
    <2> QED
      BY <2>1 DEF Universe
  <1>4. Sectioned(s)
    <2>1. Sectioned(enriched)
      BY DEF InventoryInv, InventoryTypes
    <2>2. PICK rest : rest = V!Restrict(source.sections, sections)
      OBVIOUS
    <2>3. DOMAIN rest = sections /\ \A c \in sections : rest[c] \subseteq Universe(c)
      BY <1>3, <2>2 DEF V!Restrict
    <2>4. DOMAIN s = sections \cup DOMAIN enriched
      BY <1>2, <2>2, <2>3 DEF V!Enriched
    <2>5. ASSUME NEW c \in DOMAIN s PROVE s[c] \subseteq Universe(c)
      <3>1. s[c] = IF c \notin DOMAIN enriched THEN rest[c]
                   ELSE V!Merged(c, IF c \in sections THEN rest[c] ELSE {}, enriched[c])
        BY <1>2, <2>2, <2>3, <2>4, <2>5 DEF V!Enriched
      <3>2. c \in DOMAIN enriched => enriched[c] \subseteq Universe(c)
        BY <2>1 DEF Sectioned
      <3>3. \A X, Y : V!Merged(c, X, Y) \subseteq X \cup Y
        BY DEF V!Merged
      <3> QED
        BY <3>1, <3>2, <3>3, <2>3, <2>4, <2>5
    <2> QED
      BY <2>1, <2>4, <2>5 DEF Sectioned
  <1>5. PICK t : t = IF stamped THEN source.time ELSE 0
    OBVIOUS
  <1>6. t \in 0..clock
    BY <1>5 DEF InventoryInv, InventoryTypes
  <1>7. import' = [import EXCEPT ![w] = [pc |-> "read", time |-> t, sections |-> s]]
    BY <1>2, <1>5
  <1>8. Held([pc |-> "read", time |-> t, sections |-> s], clock)
    BY <1>4, <1>6 DEF Held
  <1>9. (import = [v \in Workers |-> import[v]])' /\ \A v \in Workers : Held(import[v], clock)'
    <2>1. import = [v \in Workers |-> import[v]] /\ \A v \in Workers : Held(import[v], clock)
      BY DEF InventoryInv, InventoryTypes
    <2> QED
      BY <2>1, <1>7, <1>8
  <1> QED
    BY <1>1, <1>9, UnstoredStands DEF InventoryInv, InventoryTypes

LEMMA IdleHeld == \A now : Held(V!Idle, now)
  BY DEF Held, V!Idle

\* The worker w comes to hold the row.
LEMMA TaskSet ==
    ASSUME InventoryTypes, NEW w \in Workers, NEW row, clock' \in Nat, clock <= clock',
           Held(row, clock'), import' = [import EXCEPT ![w] = row]
    PROVE  (import = [v \in Workers |-> import[v]])' /\ \A v \in Workers : Held(import[v], clock)'
  <1>1. import = [v \in Workers |-> import[v]] /\ clock \in Nat
        /\ \A v \in Workers : Held(import[v], clock)
    BY DEF InventoryTypes
  <1>2. \A v \in Workers : Held(import[v], clock')
    BY <1>1, HeldStill
  <1> QED
    BY <1>1, <1>2

LEMMA LinkKeeps ==
    ASSUME InventoryInv, NEW w \in Workers, NEW ci \in Holders, V!Link(w, ci)
    PROVE  InventoryInv'
  <1> USE DEF V!Link
  <1>1. Unstored
    BY SameTimes
  <1>2. InventoryTypes /\ Held(import[w], clock) /\ clock \in Nat
    BY DEF InventoryInv, InventoryTypes
  <1>3. PICK row : row = import[w]
    OBVIOUS
  <1>4. row.time \in 0..clock /\ Sectioned(row.sections)
    BY <1>2, <1>3 DEF Held
  <1>5. Held([pc |-> "linked", time |-> row.time, sections |-> row.sections, ci |-> ci], clock)
    BY <1>4 DEF Held
  <1>6. PICK after : /\ import' = [import EXCEPT ![w] = after] /\ Held(after, clock)
    <2>1. import = [v \in Workers |-> import[v]]
      BY <1>2 DEF InventoryTypes
    <2>2. import' = [import EXCEPT ![w] =
             IF row.sections = V!NoSections THEN V!Idle
             ELSE [pc |-> "linked", time |-> row.time, sections |-> row.sections, ci |-> ci]]
      BY <1>3, <2>1
    <2> QED
      BY <2>2, <1>5, IdleHeld
  <1>7. (import = [v \in Workers |-> import[v]])' /\ \A v \in Workers : Held(import[v], clock)'
    <2>1. clock' \in Nat /\ clock <= clock' /\ Held(after, clock')
      BY <1>2, <1>6
    <2> QED
      BY <1>2, <1>6, <2>1, TaskSet
  <1>8. linked' \in [ci : Holders \cup {V!None}, active : BOOLEAN]
    OBVIOUS
  <1> QED
    BY <1>1, <1>7, <1>8, UnstoredStands DEF InventoryInv, InventoryTypes

LEMMA RefuseKeeps ==
    ASSUME InventoryInv, NEW w \in Workers, V!Refuse(w)
    PROVE  InventoryInv'
  <1> USE DEF V!Refuse
  <1>1. Unstored
    BY SameTimes
  <1>2. InventoryTypes /\ clock \in Nat
    BY DEF InventoryInv, InventoryTypes
  <1>3. (import = [v \in Workers |-> import[v]])' /\ \A v \in Workers : Held(import[v], clock)'
    <2>1. clock' \in Nat /\ clock <= clock' /\ Held(V!Idle, clock')
      BY <1>2, IdleHeld
    <2> QED
      BY <1>2, <2>1, TaskSet
  <1> QED
    BY <1>1, <1>3, UnstoredStands DEF InventoryInv, InventoryTypes

LEMMA SetActiveKeeps ==
    ASSUME InventoryInv, NEW active \in BOOLEAN, V!SetActive(active)
    PROVE  InventoryInv'
  <1> USE DEF V!SetActive
  <1>1. Unstored
    BY SameTimes
  <1>2. linked' \in [ci : Holders \cup {V!None}, active : BOOLEAN]
    BY DEF InventoryInv, InventoryTypes
  <1> QED
    BY <1>1, <1>2, UnstoredStands DEF InventoryInv, InventoryTypes

LEMMA RetireCiKeeps ==
    ASSUME InventoryInv, NEW ci \in Holders, V!RetireCi(ci)
    PROVE  InventoryInv'
  <1> USE DEF V!RetireCi
  <1>1. Unstored
    BY SameTimes
  <1> QED
    BY <1>1, UnstoredStands DEF InventoryInv, InventoryTypes

\* A collection that is stored shows the newest observation.
LEMMA StoredNewest ==
    ASSUME InventoryInv, clock' \in 1..MaxClock, clock <= clock', NEW c \in V!Collections,
           NEW content \in SUBSET Universe(c), NEW t \in 1..clock', NEW ci \in Holders,
           NEW kept \in V!Retained(V!After(c, content, t, ci))
    PROVE  /\ SnapshotsOK(c, kept, V!Newer(best[c], t, content, ci), clock')
           /\ V!Newer(best[c], t, content, ci) \in Observation(c)
  <1>1. PICK b : b = best[c]
    OBVIOUS
  <1>2. PICK later : later = clock'
    OBVIOUS
  <1>3. PICK now : now = clock
    OBVIOUS
  <1>4. b \in Observation(c) /\ now \in Nat /\ SnapshotsOK(c, snapshots[c], b, now)
    BY <1>1, <1>3 DEF InventoryInv, InventoryTypes
  <1>5. later \in Nat /\ now <= later /\ later <= MaxClock /\ t \in 1..later
    BY <1>2, <1>3, InventoryBounds
  <1>6. PICK all : all = V!After(c, content, t, ci)
    OBVIOUS
  <1>7. /\ all \in SUBSET Snapshot(c, later) /\ IsFiniteSet(all)
        /\ \E r \in all : Shows(all, r, V!Newer(b, t, content, ci))
    BY <1>4, <1>5, <1>6, AfterNewest
  <1>8. PICK r \in all : Shows(all, r, V!Newer(b, t, content, ci))
    BY <1>7
  <1>9. kept \in V!Retained(all)
    BY <1>6
  <1>10. SnapshotsOK(c, kept, V!Newer(b, t, content, ci), later)
    BY <1>5, <1>7, <1>8, <1>9, RetainedNewest
  <1>11. V!Newer(b, t, content, ci) \in Observation(c)
    <2>1. t \in 0..MaxClock
      BY <1>5, InventoryBounds
    <2> QED
      BY <1>4, <2>1 DEF V!Newer, Observation
  <1> QED
    BY <1>1, <1>2, <1>10, <1>11

\* The interfaces stay those of the newest list of interfaces.
LEMMA StoredNics ==
    ASSUME InventoryInv, NEW t \in 1..MaxClock, NEW content \in SUBSET Universe(V!Nics),
           NEW ci \in Holders, nics' = [k \in V!Keys |-> nics'[k]],
           V!Stale(V!Nics, t) => nics' = nics,
           ~V!Stale(V!Nics, t) => \A k \in V!Keys : nics'[k] \in V!NicAfter(k, content, t, ci)
    PROVE  /\ nics' \in [V!Keys -> NicRow]
           /\ Follows(nics', V!Newer(best[V!Nics], t, content, ci))
  <1>1. V!Nics \in V!Collections /\ MaxClock \in Nat
    BY InventoryBounds
  <1>2. PICK b : b = best[V!Nics]
    OBVIOUS
  <1>3. PICK now : now = clock
    OBVIOUS
  <1>4. /\ b \in Observation(V!Nics) /\ now \in Nat
        /\ SnapshotsOK(V!Nics, snapshots[V!Nics], b, now)
        /\ Follows(nics, b) /\ nics \in [V!Keys -> NicRow]
    BY <1>1, <1>2, <1>3 DEF InventoryInv, InventoryTypes
  <1>5. b.time \in Nat /\ t \in Nat \ {0}
    BY <1>1, <1>4 DEF Observation
  <1>6. V!Stale(V!Nics, t) <=> t < b.time
    BY <1>1, <1>4, <1>5, StaleIs
  <1>7. CASE V!Stale(V!Nics, t)
    BY <1>2, <1>4, <1>6, <1>7 DEF V!Newer
  <1>8. CASE ~V!Stale(V!Nics, t)
    <2>1. b.time <= t /\ V!Newer(b, t, content, ci) = [time |-> t, content |-> content, ci |-> ci]
      BY <1>5, <1>6, <1>8 DEF V!Newer
    <2>2. PICK after : after = nics'
      OBVIOUS
    <2>3. \A k \in V!Keys : after[k] \in V!NicAfter(k, content, t, ci)
      BY <1>8, <2>2
    <2>4. /\ \A k \in V!Keys : after[k] \in NicRow
          /\ Follows(after, [time |-> t, content |-> content, ci |-> ci])
      BY <1>4, <1>5, <2>1, <2>3, NicsFollow
    <2>5. after \in [V!Keys -> NicRow]
      BY <2>2, <2>4
    <2> QED
      BY <1>2, <2>1, <2>2, <2>4, <2>5
  <1> QED
    BY <1>7, <1>8

LEMMA ImportStoreKeeps ==
    ASSUME InventoryInv, NEW w \in Workers, V!Store(w)
    PROVE  InventoryInv'
  <1>1. PICK row : row = import[w]
    OBVIOUS
  <1>2. PICK t : t = IF row.time # 0 THEN row.time ELSE clock + 1
    OBVIOUS
  <1> DEFINE ci == row.ci
             stored == DOMAIN row.sections
             accepted == V!Available(ci) /\ ~V!Refused(row.sections)
  <1>3. /\ row.pc = "linked" /\ import' = [import EXCEPT ![w] = V!Idle]
        /\ UNCHANGED <<source, enriched, linked, outOfService>>
        /\ ~accepted => UNCHANGED <<clock, snapshots, nics, best>>
    BY <1>1 DEF V!Store
  <1>4. /\ InventoryTypes /\ clock \in 1..MaxClock /\ MaxClock \in Nat /\ Held(row, clock)
        /\ V!Nics \in V!Collections
    BY <1>1, InventoryBounds DEF InventoryInv, InventoryTypes
  <1>5. ci \in Holders /\ row.time \in 0..clock /\ Sectioned(row.sections)
    BY <1>3, <1>4 DEF Held
  <1>6. stored \subseteq V!Collections /\ \A c \in stored : row.sections[c] \in SUBSET Universe(c)
    BY <1>5 DEF Sectioned
  <1>7. CASE ~accepted
    <2>1. Unstored
      BY <1>3, <1>7, SameTimes
    <2>2. clock' \in Nat /\ clock <= clock' /\ Held(V!Idle, clock')
      BY <1>3, <1>4, <1>7, IdleHeld
    <2>3. (import = [v \in Workers |-> import[v]])' /\ \A v \in Workers : Held(import[v], clock)'
      BY <1>3, <1>4, <2>2, TaskSet
    <2> QED
      BY <1>3, <1>4, <1>7, <2>1, <2>3, UnstoredStands DEF InventoryInv, InventoryTypes
  <1>8. CASE accepted
    <2>1. /\ t <= MaxClock /\ clock' = V!Max({clock, t})
          /\ \E kept \in [stored -> UNION {V!Retained(V!After(c, row.sections[c], t, ci)) : c \in stored}] :
                /\ \A c \in stored : kept[c] \in V!Retained(V!After(c, row.sections[c], t, ci))
                /\ snapshots' = [c \in V!Collections |-> IF c \in stored THEN kept[c] ELSE snapshots[c]]
      BY <1>1, <1>2, <1>8 DEF V!Store
    <2>2. IF V!Nics \in stored /\ ~V!Stale(V!Nics, t)
          THEN \E after \in [V!Keys -> UNION {V!NicAfter(k, row.sections[V!Nics], t, ci) : k \in V!Keys}] :
                  /\ \A k \in V!Keys : after[k] \in V!NicAfter(k, row.sections[V!Nics], t, ci)
                  /\ nics' = after
          ELSE UNCHANGED nics
      BY <1>1, <1>2, <1>8 DEF V!Store
    <2>3. best' = [c \in V!Collections |->
                     IF c \in stored THEN V!Newer(best[c], t, row.sections[c], ci) ELSE best[c]]
      BY <1>1, <1>2, <1>8 DEF V!Store
    <2>4. t \in 1..MaxClock
      BY <1>2, <1>4, <1>5, <2>1
    <2>5. clock' \in 1..MaxClock /\ clock <= clock' /\ t \in 1..clock'
      BY <1>4, <2>1, <2>4, LaterOf
    <2>6. (import = [v \in Workers |-> import[v]])' /\ \A v \in Workers : Held(import[v], clock)'
      <3>1. clock' \in Nat /\ Held(V!Idle, clock')
        BY <2>5, IdleHeld
      <3> QED
        BY <1>3, <1>4, <2>5, <3>1, TaskSet
    <2>7. PICK kept : /\ \A c \in stored : kept[c] \in V!Retained(V!After(c, row.sections[c], t, ci))
                      /\ snapshots' = [c \in V!Collections |-> IF c \in stored THEN kept[c] ELSE snapshots[c]]
      BY <2>1
    <2>8. ASSUME NEW c \in V!Collections
          PROVE  SnapshotsOK(c, snapshots'[c], best'[c], clock') /\ best'[c] \in Observation(c)
      <3>1. CASE c \in stored
        <4>1. PICK content : content = row.sections[c]
          OBVIOUS
        <4>2. content \in SUBSET Universe(c)
          BY <1>6, <3>1, <4>1
        <4>3. kept[c] \in V!Retained(V!After(c, content, t, ci))
          BY <2>7, <3>1, <4>1
        <4>4. /\ SnapshotsOK(c, kept[c], V!Newer(best[c], t, content, ci), clock')
              /\ V!Newer(best[c], t, content, ci) \in Observation(c)
          BY <1>5, <2>5, <4>2, <4>3, StoredNewest
        <4>5. snapshots'[c] = kept[c] /\ best'[c] = V!Newer(best[c], t, content, ci)
          BY <2>3, <2>7, <3>1, <4>1
        <4> QED
          BY <4>4, <4>5
      <3>2. CASE c \notin stored
        <4>1. snapshots'[c] = snapshots[c] /\ best'[c] = best[c]
          BY <2>3, <2>7, <3>2
        <4>2. SnapshotsOK(c, snapshots[c], best[c], clock) /\ best[c] \in Observation(c)
          BY DEF InventoryInv, InventoryTypes
        <4>3. clock \in Nat /\ clock' \in Nat
          BY <1>4, <2>5
        <4>4. SnapshotsOK(c, snapshots[c], best[c], clock')
          BY <2>5, <4>2, <4>3, SnapshotsStill
        <4> QED
          BY <4>1, <4>2, <4>4
      <3> QED
        BY <3>1, <3>2
    <2>9. nics' \in [V!Keys -> NicRow] /\ Follows(nics', best'[V!Nics])
      <3>1. nics \in [V!Keys -> NicRow] /\ Follows(nics, best[V!Nics])
        BY DEF InventoryInv, InventoryTypes
      <3>2. CASE V!Nics \in stored
        <4>1. PICK content : content = row.sections[V!Nics]
          OBVIOUS
        <4>2. content \in SUBSET Universe(V!Nics)
          BY <1>6, <3>2, <4>1
        <4>3. nics' = [k \in V!Keys |-> nics'[k]]
          BY <2>2, <3>1
        <4>4. V!Stale(V!Nics, t) => nics' = nics
          BY <2>2
        <4>5. ~V!Stale(V!Nics, t) => \A k \in V!Keys : nics'[k] \in V!NicAfter(k, content, t, ci)
          BY <2>2, <3>2, <4>1
        <4>6. /\ nics' \in [V!Keys -> NicRow]
              /\ Follows(nics', V!Newer(best[V!Nics], t, content, ci))
          BY <1>5, <2>4, <4>2, <4>3, <4>4, <4>5, StoredNics
        <4>7. best'[V!Nics] = V!Newer(best[V!Nics], t, content, ci)
          BY <1>4, <2>3, <3>2, <4>1
        <4> QED
          BY <4>6, <4>7
      <3>3. CASE V!Nics \notin stored
        BY <1>4, <2>2, <2>3, <3>1, <3>3
      <3> QED
        BY <3>2, <3>3
    <2>10. source'.time \in 1..clock'
      BY <1>3, <1>4, <2>5 DEF InventoryTypes
    <2>11. (snapshots = [c \in V!Collections |-> snapshots[c]])' /\ (best = [c \in V!Collections |-> best[c]])'
      BY <2>3, <2>7
    <2> QED
      BY <1>3, <1>4, <2>5, <2>6, <2>8, <2>9, <2>10, <2>11 DEF InventoryInv, InventoryTypes
  <1> QED
    BY <1>7, <1>8

LEMMA InventoryStep == InventoryInv /\ V!Next => InventoryInv'
  <1> SUFFICES ASSUME InventoryInv, V!Next PROVE InventoryInv'
    OBVIOUS
  <1>1. CASE \E c \in V!Collections, checkIn \in BOOLEAN :
                \E content \in Sections[c] : V!Report(c, content, checkIn)
    BY <1>1, ReportKeeps
  <1>2. CASE \E sections \in SUBSET V!Collections : V!Publish(sections)
    BY <1>2, PublishKeeps
  <1>3. CASE \E w \in Workers, sections \in SUBSET V!Collections, stamped \in BOOLEAN :
                V!Read(w, sections, stamped)
    BY <1>3, ReadKeeps
  <1>4. CASE \E w \in Workers, ci \in Holders : V!Link(w, ci)
    BY <1>4, LinkKeeps
  <1>5. CASE \E w \in Workers : V!Refuse(w)
    BY <1>5, RefuseKeeps
  <1>6. CASE \E w \in Workers : V!Store(w)
    BY <1>6, ImportStoreKeeps
  <1>7. CASE \E active \in BOOLEAN : V!SetActive(active)
    BY <1>7, SetActiveKeeps
  <1>8. CASE \E ci \in Holders : V!RetireCi(ci)
    BY <1>8, RetireCiKeeps
  <1> QED
    BY <1>1, <1>2, <1>3, <1>4, <1>5, <1>6, <1>7, <1>8 DEF V!Next

LEMMA InventoryNext == InventoryInv /\ [V!Next]_(V!vars) => InventoryInv'
  <1>1. InventoryInv /\ UNCHANGED V!vars => InventoryInv'
    BY DEF V!vars, InventoryInv, InventoryTypes
  <1> QED
    BY <1>1, InventoryStep

----------------------------------------------------------------------------
(* What follows from it *)

LEMMA InventoryTyped == InventoryInv => V!TypeOK
  <1> SUFFICES ASSUME InventoryInv PROVE V!TypeOK
    OBVIOUS
  <1>1. ASSUME NEW c \in V!Collections
        PROVE  /\ V!Cardinality(snapshots[c]) <= Retention
               /\ snapshots[c] \subseteq [content : SUBSET UNION Sections[c], last : 1..clock,
                                          current : BOOLEAN, ci : Holders]
    BY InventoryBounds DEF InventoryInv, SnapshotsOK, Snapshot, Universe
  <1>2. \A w \in Workers : import[w].pc \in {"idle", "read", "linked"}
    BY DEF InventoryInv, InventoryTypes, Held
  <1> QED
    BY <1>1, <1>2 DEF V!TypeOK, InventoryInv, InventoryTypes

\* What a collection shows of a CI is the newest observation of it, if that is of the CI.
LEMMA ShownIs ==
    ASSUME InventoryInv, NEW c \in V!Collections, NEW ci \in Holders
    PROVE  {s.content : s \in {r \in V!Current(c) : r.ci = ci}} =
              IF best[c].ci = ci THEN {best[c].content} ELSE {}
  <1>1. Newest(snapshots[c], best[c])
    BY DEF InventoryInv, SnapshotsOK
  <1>2. CASE snapshots[c] = {} /\ best[c] = V!NoBest
    BY <1>2, InventoryBounds DEF V!Current, V!NoBest
  <1>3. CASE \E r \in snapshots[c] : Shows(snapshots[c], r, best[c])
    <2>1. PICK r \in snapshots[c] : Shows(snapshots[c], r, best[c])
      BY <1>3
    <2>2. V!Current(c) = {r}
      BY <2>1 DEF V!Current, Shows
    <2> QED
      BY <2>1, <2>2 DEF Shows
  <1> QED
    BY <1>1, <1>2, <1>3 DEF Newest

LEMMA NewestShown == InventoryInv => V!NewestObservationStands
  <1> SUFFICES ASSUME InventoryInv, NEW ci \in Holders \ outOfService
               PROVE  V!Shown(ci).collections =
                         {<<c, best[c].content>> : c \in {d \in V!Collections : best[d].ci = ci}}
    BY DEF V!NewestObservationStands
  <1>1. V!Shown(ci).collections =
           UNION {{<<c, r.content>> : r \in {s \in V!Current(c) : s.ci = ci}} : c \in V!Collections}
    BY DEF V!Shown
  <1>2. ASSUME NEW c \in V!Collections
        PROVE  {<<c, r.content>> : r \in {s \in V!Current(c) : s.ci = ci}} =
                  IF best[c].ci = ci THEN {<<c, best[c].content>>} ELSE {}
    <2>1. {s.content : s \in {r \in V!Current(c) : r.ci = ci}} =
             IF best[c].ci = ci THEN {best[c].content} ELSE {}
      BY ShownIs
    <2> QED
      BY <2>1, Zenon
  <1> QED
    BY <1>1, <1>2

LEMMA InterfacesShown == InventoryInv => V!InterfacesFollowSnapshot
  <1> SUFFICES ASSUME InventoryInv, NEW ci \in Holders
               PROVE  LET items == UNION {shown[2] : shown \in {x \in V!Shown(ci).collections : x[1] = V!Nics}}
                      IN  /\ V!Shown(ci).nics \subseteq items
                          /\ {nic.key : nic \in V!Shown(ci).nics} = {item.key : item \in items}
    BY DEF V!InterfacesFollowSnapshot
  <1> DEFINE items == UNION {shown[2] : shown \in {x \in V!Shown(ci).collections : x[1] = V!Nics}}
  <1>1. CASE ci \in outOfService
    <2>1. V!Shown(ci).collections = {} /\ V!Shown(ci).nics = {}
      BY <1>1 DEF V!Shown
    <2> QED
      BY <2>1
  <1>2. CASE ci \notin outOfService
    <2>1. V!Nics \in V!Collections
      BY InventoryBounds
    <2>2. items = IF best[V!Nics].ci = ci THEN best[V!Nics].content ELSE {}
      <3>1. V!Shown(ci).collections =
               {<<c, best[c].content>> : c \in {d \in V!Collections : best[d].ci = ci}}
        BY <1>2, NewestShown DEF V!NewestObservationStands
      <3>2. {x \in V!Shown(ci).collections : x[1] = V!Nics} =
               IF best[V!Nics].ci = ci THEN {<<V!Nics, best[V!Nics].content>>} ELSE {}
        BY <2>1, <3>1
      <3>3. PICK content : content = best[V!Nics].content
        OBVIOUS
      <3>4. CASE best[V!Nics].ci = ci
        <4>1. {shown[2] : shown \in {<<V!Nics, content>>}} = {content}
          OBVIOUS
        <4>2. items = UNION {content}
          BY <3>2, <3>3, <3>4, <4>1
        <4> QED
          BY <3>3, <3>4, <4>2
      <3>5. CASE best[V!Nics].ci # ci
        <4>1. items = UNION {shown[2] : shown \in {}}
          BY <3>2, <3>5
        <4> QED
          BY <3>5, <4>1
      <3> QED
        BY <3>4, <3>5
    <2>3. V!Shown(ci).nics = {[key |-> k, value |-> nics[k].value] :
                                 k \in {n \in V!Keys : nics[n].active /\ nics[n].ci = ci}}
      BY <1>2 DEF V!Shown
    <2>4. Follows(nics, best[V!Nics])
      BY DEF InventoryInv
    <2>5. best[V!Nics].content \subseteq Universe(V!Nics)
      BY <2>1 DEF InventoryInv, InventoryTypes, Observation
    <2>6. \A item \in best[V!Nics].content : item.key \in V!Keys
      BY <2>5, KeysOfNics
    <2> HIDE DEF items
    <2>7. V!Shown(ci).nics \subseteq items
      BY <2>2, <2>3, <2>4 DEF Follows
    <2>8. ASSUME NEW item \in items PROVE \E nic \in V!Shown(ci).nics : nic.key = item.key
      <3>1. item \in best[V!Nics].content /\ best[V!Nics].ci = ci /\ item.key \in V!Keys
        BY <2>2, <2>6
      <3>2. nics[item.key].active /\ nics[item.key].ci = ci
        BY <2>4, <3>1 DEF Follows
      <3>3. [key |-> item.key, value |-> nics[item.key].value] \in V!Shown(ci).nics
        BY <2>3, <3>1, <3>2
      <3> QED
        BY <3>3
    <2> QED
      BY <2>7, <2>8 DEF items
  <1> QED
    BY <1>1, <1>2

----------------------------------------------------------------------------
(* The impact of a change *)

\* What is found of the first k relationships, starting from base.
Folded(F, base, current) ==
    /\ F[0] = base
    /\ \A k \in DOMAIN I!relations : F[k] = I!Reach(F[k - 1], current, I!relations[k])

LEMMA LargestIs ==
    ASSUME NEW n \in Nat, NEW s \in SUBSET (1..n), n \in s
    PROVE  I!Max(s) = n
  <1>1. \A x \in s : x \in 1..n /\ n >= x
    OBVIOUS
  <1>2. I!Max(s) \in s /\ \A x \in s : I!Max(s) >= x
    BY <1>1 DEF I!Max
  <1>3. I!Max(s) \in 1..n /\ I!Max(s) >= n
    BY <1>2
  <1> QED
    BY <1>3

\* The search takes the relationships one by one in their order.
LEMMA FoldReach ==
    ASSUME NEW n \in Nat, DOMAIN I!relations = 1..n, I!Visit
    PROVE  \E F : /\ Folded(F, [paths |-> paths, queue |-> Tail(queue)], Head(queue))
                  /\ paths' = F[n].paths /\ queue' = F[n].queue
  <1> DEFINE base == [paths |-> paths, queue |-> Tail(queue)]
             current == Head(queue)
             S == 1..n
             Def(g, s) == IF s = {} THEN base
                          ELSE I!Reach(g[s \ {I!Max(s)}], current, I!relations[I!Max(s)])
             Good(g) == g = [s \in SUBSET S |-> Def(g, s)]
             GoodTo(g, m) == \A s \in SUBSET (1..m) : g[s] = Def(g, s)
             Known(m) == \E g : GoodTo(g, m)
             P == {m \in Nat : m <= n => Known(m)}
  <1>1. 0 \in P
    <2> DEFINE g == [s \in {{}} |-> base]
    <2>1. GoodTo(g, 0)
      <3>1. 1..0 = {}
        OBVIOUS
      <3> QED
        BY <3>1
    <2>2. Known(0)
      <3> HIDE DEF GoodTo, g
      <3> QED
        BY <2>1
    <2> HIDE DEF Known
    <2> QED
      BY <2>2
  <1>2. ASSUME NEW m \in Nat, m \in P PROVE m + 1 \in P
    <2> SUFFICES ASSUME m + 1 <= n, Known(m) PROVE Known(m + 1)
      <3> HIDE DEF Known
      <3> QED
        BY <1>2
    <2>1. PICK g : GoodTo(g, m)
      <3> HIDE DEF GoodTo
      <3> QED
        OBVIOUS
    <2> DEFINE h == [s \in SUBSET (1..(m + 1)) |->
                       IF m + 1 \in s THEN I!Reach(g[s \ {m + 1}], current, I!relations[m + 1])
                       ELSE g[s]]
    <2>2. ASSUME NEW s \in SUBSET (1..(m + 1)), m + 1 \notin s PROVE s \in SUBSET (1..m) /\ h[s] = g[s]
      BY <2>2
    <2>3. ASSUME NEW s \in SUBSET (1..(m + 1)) PROVE h[s] = Def(h, s)
      <3>1. CASE m + 1 \in s
        <4>1. I!Max(s) = m + 1 /\ s # {}
          <5>1. m + 1 \in Nat /\ s \in SUBSET (1..(m + 1))
            OBVIOUS
          <5> QED
            BY <3>1, <5>1, LargestIs
        <4>2. s \ {m + 1} \in SUBSET (1..(m + 1)) /\ m + 1 \notin s \ {m + 1}
          OBVIOUS
        <4>3. h[s \ {m + 1}] = g[s \ {m + 1}]
          BY <2>2, <4>2
        <4>4. h[s] = I!Reach(g[s \ {m + 1}], current, I!relations[m + 1])
          BY <3>1
        <4> HIDE DEF h
        <4> QED
          BY <4>1, <4>3, <4>4
      <3>2. CASE m + 1 \notin s
        <4>1. s \in SUBSET (1..m) /\ h[s] = g[s]
          BY <2>2, <3>2
        <4>2. s \ {I!Max(s)} \in SUBSET (1..(m + 1)) /\ m + 1 \notin s \ {I!Max(s)}
          BY <3>2
        <4>3. h[s \ {I!Max(s)}] = g[s \ {I!Max(s)}]
          BY <2>2, <4>2
        <4>4. g[s] = Def(g, s)
          BY <2>1, <4>1
        <4> HIDE DEF h
        <4> QED
          BY <4>1, <4>3, <4>4
      <3> QED
        BY <3>1, <3>2
    <2>4. GoodTo(h, m + 1)
      <3> HIDE DEF h, Def
      <3> QED
        BY <2>3
    <2> HIDE DEF GoodTo
    <2> QED
      BY <2>4
  <1>3. \E g : Good(g)
    <2>1. n \in P
      <3> HIDE DEF P
      <3> QED
        BY <1>1, <1>2, NumberInduction
    <2>2. Known(n)
      <3> HIDE DEF Known
      <3> QED
        BY <2>1
    <2>3. PICK g : GoodTo(g, n)
      <3> HIDE DEF GoodTo
      <3> QED
        BY <2>2
    <2> DEFINE h == [s \in SUBSET S |-> g[s]]
    <2>4. ASSUME NEW s \in SUBSET S PROVE h[s] = Def(h, s)
      <3>1. g[s] = Def(g, s)
        BY <2>3
      <3>2. h[s] = g[s] /\ s \ {I!Max(s)} \in SUBSET S
        OBVIOUS
      <3>3. h[s \ {I!Max(s)}] = g[s \ {I!Max(s)}]
        BY <3>2
      <3> HIDE DEF h
      <3> QED
        BY <3>1, <3>2, <3>3
    <2>5. Good(h)
      <3> HIDE DEF Def
      <3> QED
        BY <2>4
    <2> QED
      BY <2>5
  <1> DEFINE iter == CHOOSE g : Good(g)
  <1>4. Good(iter)
    <2> HIDE DEF Good
    <2> QED
      BY <1>3
  <1>5. paths' = iter[S].paths /\ queue' = iter[S].queue
    BY DEF I!Visit, I!FoldLeft, I!MapThenFoldSet
  <1> HIDE DEF iter
  <1> DEFINE F == [k \in 0..n |-> iter[1..k]]
  <1>6. F[0] = base
    <2>1. F[0] = iter[{}]
      <3>1. 1..0 = {} /\ 0 \in 0..n
        OBVIOUS
      <3> QED
        BY <3>1
    <2>2. iter[{}] = Def(iter, {})
      BY <1>4
    <2> QED
      BY <2>1, <2>2
  <1>7. ASSUME NEW k \in 1..n PROVE F[k] = I!Reach(F[k - 1], current, I!relations[k])
    <2>1. I!Max(1..k) = k
      BY LargestIs
    <2>2. (1..k) \ {k} = 1..(k - 1) /\ 1..k # {} /\ 1..k \in SUBSET S
      OBVIOUS
    <2>3. iter[1..k] = Def(iter, 1..k)
      <3> HIDE DEF Def
      <3> QED
        BY <1>4, <2>2
    <2>4. iter[1..k] = I!Reach(iter[1..(k - 1)], current, I!relations[k])
      BY <2>1, <2>2, <2>3
    <2>5. F[k] = iter[1..k] /\ F[k - 1] = iter[1..(k - 1)]
      OBVIOUS
    <2> HIDE DEF F
    <2> QED
      BY <2>4, <2>5
  <1>8. F[n] = iter[S]
    OBVIOUS
  <1> HIDE DEF F
  <1> QED
    BY <1>5, <1>6, <1>7, <1>8 DEF Folded

LEMMA ImpactBounds ==
    /\ IsFiniteSet(Items)
    /\ \A e \in Estates : /\ e.relations \in Seq(I!ToSet(e.relations)) /\ e.scope \subseteq Items
                          /\ \A r \in I!ToSet(e.relations) : r.from \in Items /\ r.to \in Items
    /\ \A S : I!Cardinality(S) = Cardinality(S)
  <1>1. \A S : I!Cardinality(S) = Cardinality(S)
    BY DEF I!Cardinality, Cardinality
  <1> QED
    BY <1>1, CmdbAssumption DEF I!ImpactAssumption, I!IsFiniteSet, IsFiniteSet

\* What is affected next when x is.
Out(x) == {I!Affected(r) : r \in {e \in I!ToSet(I!relations) : I!Propagates(e) /\ I!Supporting(e) = x}}

\* The items in the queue are known and wait in the order of their depths, none of which is
\* far from the first one's.
QueueOK ==
    /\ queue \in Seq(DOMAIN paths)
    /\ \A i, j \in DOMAIN queue : i <= j => paths[queue[i]].depth <= paths[queue[j]].depth
    /\ queue # <<>> => \A x \in DOMAIN paths : paths[x].depth <= paths[Head(queue)].depth + 1

\* What follows on an item that was visited is known, and one step further at most.
Visited(x) ==
    \A y \in Out(x) : y \in DOMAIN paths /\ paths[y].depth <= paths[x].depth + 1

\* An item that is not in scope was reached by one a step nearer.
Reached(x) ==
    /\ paths[x].depth = 0 <=> x \in I!scope
    /\ paths[x].depth > 0 =>
          \E y \in DOMAIN paths : x \in Out(y) /\ paths[x].depth = paths[y].depth + 1

ImpactInv ==
    /\ estate \in Estates
    /\ DOMAIN paths \subseteq Items /\ I!scope \subseteq DOMAIN paths
    /\ \A x \in DOMAIN paths : paths[x].depth \in Nat /\ Reached(x)
    /\ QueueOK
    /\ \A x \in DOMAIN paths \ {queue[i] : i \in DOMAIN queue} : Visited(x)

LEMMA RelationsAre ==
    ASSUME estate \in Estates
    PROVE  /\ Len(I!relations) \in Nat /\ DOMAIN I!relations = 1..Len(I!relations)
           /\ \A k \in DOMAIN I!relations :
                 /\ I!relations[k] \in I!ToSet(I!relations)
                 /\ I!Affected(I!relations[k]) \in Items
           /\ \A r \in I!ToSet(I!relations) : \E k \in DOMAIN I!relations : r = I!relations[k]
           /\ I!scope \subseteq Items
  <1>1. PICK s : s = I!relations
    OBVIOUS
  <1>2. s \in Seq(I!ToSet(s)) /\ I!scope \subseteq Items
        /\ \A r \in I!ToSet(s) : r.from \in Items /\ r.to \in Items
    BY <1>1, ImpactBounds DEF I!relations, I!scope
  <1>3. Len(s) \in Nat /\ DOMAIN s = 1..Len(s)
    BY <1>2, LenProperties
  <1>4. /\ \A k \in DOMAIN s : s[k] \in I!ToSet(s)
        /\ \A r \in I!ToSet(s) : \E k \in DOMAIN s : r = s[k]
    BY DEF I!ToSet
  <1> QED
    BY <1>1, <1>2, <1>3, <1>4 DEF I!Affected

\* The items in scope are queued first.
LEMMA ImpactInit == I!Init => ImpactInv
  <1> SUFFICES ASSUME I!Init PROVE ImpactInv
    OBVIOUS
  <1> DEFINE X == I!scope
  <1>1. estate \in Estates /\ queue = I!SetToSeq(X) /\ paths = [x \in X |-> [depth |-> 0, policies |-> {}]]
    BY DEF I!Init, I!scope
  <1>2. X \subseteq Items /\ IsFiniteSet(X)
    BY <1>1, ImpactBounds, RelationsAre, FS_Subset
  <1>3. queue \in Seq(X) /\ X = {queue[i] : i \in DOMAIN queue}
    <2> DEFINE N == Cardinality(X)
    <2>1. N \in Nat /\ ExistsBijection(1..N, X)
      BY <1>2, FS_CardinalityType
    <2>2. PICK f \in Bijection(1..N, X) : TRUE
      BY <2>1 DEF ExistsBijection
    <2>3. f \in [1..N -> X] /\ I!IsInjective(f)
      BY <2>2 DEF Bijection, Injection, IsInjective, I!IsInjective
    <2>4. queue \in [1..N -> X] /\ I!IsInjective(queue)
      BY <1>1, <2>3, ImpactBounds DEF I!SetToSeq
    <2> HIDE DEF X
    <2>5. queue \in Injection(1..N, X)
      BY <2>4 DEF Injection, IsInjective, I!IsInjective
    <2>6. Cardinality(1..N) = N /\ IsFiniteSet(1..N)
      BY <2>1, FS_Interval
    <2>7. queue \in Surjection(1..N, X)
      BY <1>2, <2>5, <2>6, FS_Injection
    <2>8. queue \in Seq(X)
      BY <2>1, <2>4
    <2> QED
      BY <2>4, <2>7, <2>8 DEF Surjection
  <1>4. \A x \in DOMAIN paths : paths[x].depth = 0
    BY <1>1
  <1>5. DOMAIN paths = X
    BY <1>1
  <1>6. \A i \in DOMAIN queue : queue[i] \in DOMAIN paths
    BY <1>3, <1>5
  <1>7. queue # <<>> => Head(queue) \in DOMAIN paths
    BY <1>3, <1>5
  <1>8. QueueOK
    <2>1. queue \in Seq(DOMAIN paths)
      BY <1>3, <1>5
    <2>2. \A i, j \in DOMAIN queue : paths[queue[i]].depth = 0 /\ paths[queue[j]].depth = 0
      BY <1>4, <1>6
    <2> HIDE DEF X
    <2> QED
      BY <1>4, <1>7, <2>1, <2>2 DEF QueueOK
  <1>9. \A x \in DOMAIN paths : paths[x].depth \in Nat /\ Reached(x)
    BY <1>4, <1>5 DEF Reached
  <1>10. DOMAIN paths \ {queue[i] : i \in DOMAIN queue} = {}
    BY <1>3, <1>5
  <1> QED
    BY <1>1, <1>2, <1>5, <1>8, <1>9, <1>10 DEF ImpactInv

\* After k relationships at item h, found holds what was known, in the same place, and
\* what follows h by one of them, a step further and queued behind the rest.
Grown(found, k, h, rest) ==
    /\ DOMAIN paths \subseteq DOMAIN found.paths /\ DOMAIN found.paths \subseteq Items
    /\ \A x \in DOMAIN paths : found.paths[x] = paths[x]
    /\ \A x \in DOMAIN found.paths \ DOMAIN paths :
          /\ found.paths[x].depth = paths[h].depth + 1 /\ x \in Out(h)
          /\ \E i \in DOMAIN found.queue : found.queue[i] = x
    /\ found.queue \in Seq(DOMAIN found.paths) /\ Len(rest) <= Len(found.queue)
    /\ \A i \in 1..Len(rest) : found.queue[i] = rest[i]
    /\ \A i \in DOMAIN found.queue : i > Len(rest) => found.queue[i] \notin DOMAIN paths
    /\ \A j \in 1..k : I!Propagates(I!relations[j]) /\ I!Supporting(I!relations[j]) = h =>
                          I!Affected(I!relations[j]) \in DOMAIN found.paths

LEMMA ReachGrows ==
    ASSUME ImpactInv, NEW h \in DOMAIN paths, NEW rest \in Seq(DOMAIN paths), NEW found,
           NEW k \in DOMAIN I!relations, Grown(found, k - 1, h, rest)
    PROVE  Grown(I!Reach(found, h, I!relations[k]), k, h, rest)
  <1>1. PICK r : r = I!relations[k]
    OBVIOUS
  <1>2. k \in Nat \ {0} /\ r \in I!ToSet(I!relations) /\ I!Affected(r) \in Items
    BY <1>1, RelationsAre DEF ImpactInv
  <1>3. CASE ~I!Extends(found, h, r)
    <2>1. I!Reach(found, h, r) = found
      BY <1>3 DEF I!Reach
    <2>2. \A j \in 1..k : j \in 1..(k - 1) \/ j = k
      BY <1>2
    <2>3. I!Propagates(r) /\ I!Supporting(r) = h => I!Affected(r) \in DOMAIN found.paths
      BY <1>3 DEF I!Extends
    <2> QED
      BY <1>1, <2>1, <2>2, <2>3 DEF Grown
  <1>4. CASE I!Extends(found, h, r)
    <2>1. PICK a : a = I!Affected(r)
      OBVIOUS
    <2>2. PICK old, q : old = found.paths /\ q = found.queue
      OBVIOUS
    <2>3. PICK policies : policies = old[h].policies \cup {I!VirtualizationPolicy(r)}
      OBVIOUS
    <2>4. a \notin DOMAIN old /\ I!Propagates(r) /\ I!Supporting(r) = h
      BY <1>4, <2>1, <2>2 DEF I!Extends
    <2>5. PICK new : new = [x \in DOMAIN old \cup {a} |->
                              IF x \in DOMAIN old THEN old[x]
                              ELSE [depth |-> old[h].depth + 1, policies |-> policies]]
      OBVIOUS
    <2>6. I!Reach(found, h, r) = [paths |-> new, queue |-> Append(q, a)]
      BY <1>4, <2>1, <2>2, <2>3, <2>5 DEF I!Reach, I!Found
    <2>7. /\ DOMAIN paths \subseteq DOMAIN old /\ DOMAIN old \subseteq Items
          /\ \A x \in DOMAIN paths : old[x] = paths[x]
          /\ \A x \in DOMAIN old \ DOMAIN paths :
                /\ old[x].depth = paths[h].depth + 1 /\ x \in Out(h)
                /\ \E i \in DOMAIN q : q[i] = x
          /\ q \in Seq(DOMAIN old) /\ Len(rest) <= Len(q)
          /\ \A i \in 1..Len(rest) : q[i] = rest[i]
          /\ \A i \in DOMAIN q : i > Len(rest) => q[i] \notin DOMAIN paths
          /\ \A j \in 1..(k - 1) : I!Propagates(I!relations[j]) /\ I!Supporting(I!relations[j]) = h =>
                                      I!Affected(I!relations[j]) \in DOMAIN old
      BY <2>2 DEF Grown
    <2>8. /\ DOMAIN new = DOMAIN old \cup {a} /\ \A x \in DOMAIN old : new[x] = old[x]
          /\ new[a].depth = paths[h].depth + 1
      BY <2>4, <2>5, <2>7
    <2>9. a \in Out(h) /\ a \in Items
      BY <1>2, <2>1, <2>4 DEF Out
    <2>10. PICK s : s = Append(q, a)
      OBVIOUS
    <2>11. Len(q) \in Nat /\ DOMAIN q = 1..Len(q) /\ Len(rest) \in Nat
      BY <2>7, LenProperties
    <2>12. /\ s \in Seq(DOMAIN new) /\ Len(s) = Len(q) + 1 /\ DOMAIN s = 1..(Len(q) + 1)
           /\ s[Len(q) + 1] = a /\ \A i \in 1..Len(q) : s[i] = q[i]
      <3>1. q \in Seq(DOMAIN new) /\ a \in DOMAIN new
        BY <2>7, <2>8
      <3> QED
        BY <2>10, <2>11, <3>1, AppendProperties, LenProperties
    <2>13. ASSUME NEW x \in DOMAIN new \ DOMAIN paths
           PROVE  /\ new[x].depth = paths[h].depth + 1 /\ x \in Out(h)
                  /\ \E i \in DOMAIN s : s[i] = x
      <3>1. CASE x = a
        <4>1. Len(q) + 1 \in DOMAIN s
          BY <2>11, <2>12
        <4> QED
          BY <2>8, <2>9, <2>12, <3>1, <4>1
      <3>2. CASE x # a
        <4>1. x \in DOMAIN old \ DOMAIN paths /\ new[x] = old[x]
          BY <2>8, <3>2
        <4>2. PICK i \in DOMAIN q : q[i] = x
          BY <2>7, <4>1
        <4>3. i \in DOMAIN s /\ s[i] = x
          BY <2>11, <2>12, <4>2
        <4> QED
          BY <2>7, <4>1, <4>3
      <3> QED
        BY <3>1, <3>2
    <2>14. \A i \in 1..Len(rest) : s[i] = rest[i]
      BY <2>7, <2>11, <2>12
    <2>15. ASSUME NEW i \in DOMAIN s, i > Len(rest) PROVE s[i] \notin DOMAIN paths
      <3>1. CASE i \in DOMAIN q
        BY <2>7, <2>11, <2>12, <2>15, <3>1
      <3>2. CASE i \notin DOMAIN q
        <4>1. i = Len(q) + 1
          BY <2>11, <2>12, <3>2
        <4> QED
          BY <2>4, <2>7, <2>12, <4>1
      <3> QED
        BY <3>1, <3>2
    <2>16. ASSUME NEW j \in 1..k, I!Propagates(I!relations[j]), I!Supporting(I!relations[j]) = h
           PROVE  I!Affected(I!relations[j]) \in DOMAIN new
      <3>1. CASE j = k
        BY <1>1, <2>1, <2>8, <3>1
      <3>2. CASE j # k
        <4>1. j \in 1..(k - 1)
          BY <1>2, <3>2
        <4> QED
          BY <2>7, <2>8, <2>16, <4>1
      <3> QED
        BY <3>1, <3>2
    <2>17. DOMAIN paths \subseteq DOMAIN new /\ DOMAIN new \subseteq Items
           /\ \A x \in DOMAIN paths : new[x] = paths[x]
      BY <2>7, <2>8, <2>9
    <2>18. Len(rest) <= Len(s)
      BY <2>7, <2>11, <2>12
    <2>19. Grown([paths |-> new, queue |-> s], k, h, rest)
      BY <2>12, <2>13, <2>14, <2>15, <2>16, <2>17, <2>18 DEF Grown
    <2> QED
      BY <1>1, <2>6, <2>10, <2>19
  <1> QED
    BY <1>3, <1>4

\* The visit of the first item of the queue finds all that follows it.
LEMMA VisitGrows ==
    ASSUME ImpactInv, I!Visit
    PROVE  /\ Head(queue) \in DOMAIN paths /\ Tail(queue) \in Seq(DOMAIN paths)
           /\ \E found : /\ Grown(found, Len(I!relations), Head(queue), Tail(queue))
                         /\ paths' = found.paths /\ queue' = found.queue
  <1>1. queue \in Seq(DOMAIN paths) /\ queue # <<>> /\ estate \in Estates
    BY DEF ImpactInv, QueueOK, I!Visit
  <1>2. Head(queue) \in DOMAIN paths /\ Tail(queue) \in Seq(DOMAIN paths)
    BY <1>1
  <1>3. PICK n : n = Len(I!relations)
    OBVIOUS
  <1>4. n \in Nat /\ DOMAIN I!relations = 1..n
    BY <1>1, <1>3, RelationsAre
  <1> DEFINE base == [paths |-> paths, queue |-> Tail(queue)]
  <1>5. PICK F : /\ Folded(F, base, Head(queue))
                 /\ paths' = F[n].paths /\ queue' = F[n].queue
    BY <1>4, FoldReach
  <1>6. paths' = F[n].paths /\ queue' = F[n].queue
    BY <1>5
  <1>7. PICK h, rest : h = Head(queue) /\ rest = Tail(queue)
    OBVIOUS
  <1>8. h \in DOMAIN paths /\ rest \in Seq(DOMAIN paths)
    BY <1>2, <1>7
  <1>9. Grown(base, 0, h, rest)
    <2>1. Len(rest) \in Nat /\ DOMAIN rest = 1..Len(rest)
      BY <1>8, LenProperties
    <2>2. DOMAIN paths \subseteq Items
      BY DEF ImpactInv
    <2>3. 1..0 = {}
      OBVIOUS
    <2> QED
      BY <1>7, <1>8, <2>1, <2>2, <2>3 DEF Grown
  <1> DEFINE P == {k \in Nat : k <= n => Grown(F[k], k, h, rest)}
  <1>10. 0 \in P
    BY <1>5, <1>9 DEF Folded
  <1>11. ASSUME NEW k \in Nat, k \in P PROVE k + 1 \in P
    <2> SUFFICES ASSUME k + 1 <= n PROVE Grown(F[k + 1], k + 1, h, rest)
      OBVIOUS
    <2>1. PICK m : m = k + 1
      OBVIOUS
    <2>2. m \in DOMAIN I!relations /\ m - 1 = k /\ k <= n
      BY <1>4, <2>1
    <2>3. F[m] = I!Reach(F[m - 1], h, I!relations[m])
      BY <1>5, <1>7, <2>2 DEF Folded
    <2>4. Grown(F[m - 1], m - 1, h, rest)
      BY <1>11, <2>2
    <2>5. Grown(I!Reach(F[m - 1], h, I!relations[m]), m, h, rest)
      BY <1>8, <2>2, <2>4, ReachGrows
    <2> QED
      BY <2>1, <2>3, <2>5
  <1> HIDE DEF P
  <1>12. n \in P
    BY <1>4, <1>10, <1>11, NumberInduction
  <1>13. Grown(F[n], n, h, rest)
    BY <1>4, <1>12 DEF P
  <1> QED
    BY <1>2, <1>3, <1>6, <1>7, <1>13

LEMMA VisitKeeps ==
    ASSUME ImpactInv, I!Visit
    PROVE  ImpactInv'
  <1>1. PICK h, rest, D : h = Head(queue) /\ rest = Tail(queue) /\ D = DOMAIN paths
    OBVIOUS
  <1>2. PICK found : /\ h \in D /\ rest \in Seq(D)
                     /\ Grown(found, Len(I!relations), h, rest)
                     /\ paths' = found.paths /\ queue' = found.queue
    BY <1>1, VisitGrows
  <1>3. PICK new, q : new = found.paths /\ q = found.queue
    OBVIOUS
  <1>4. PICK old, d : old = paths /\ d = paths[h].depth
    OBVIOUS
  <1>5. /\ D \subseteq DOMAIN new /\ DOMAIN new \subseteq Items /\ \A x \in D : new[x] = old[x]
        /\ \A x \in DOMAIN new \ D : /\ new[x].depth = d + 1 /\ x \in Out(h)
                                     /\ \E i \in DOMAIN q : q[i] = x
        /\ q \in Seq(DOMAIN new) /\ Len(rest) <= Len(q)
        /\ \A i \in 1..Len(rest) : q[i] = rest[i]
        /\ \A i \in DOMAIN q : i > Len(rest) => q[i] \notin D
        /\ \A j \in 1..Len(I!relations) :
              I!Propagates(I!relations[j]) /\ I!Supporting(I!relations[j]) = h =>
              I!Affected(I!relations[j]) \in DOMAIN new
    BY <1>1, <1>2, <1>3, <1>4 DEF Grown
  <1>6. /\ queue \in Seq(D) /\ queue # <<>> /\ \A x \in D : old[x].depth \in Nat /\ Reached(x)
        /\ \A i, j \in DOMAIN queue : i <= j => old[queue[i]].depth <= old[queue[j]].depth
        /\ \A x \in D : old[x].depth <= d + 1
    BY <1>1, <1>4 DEF ImpactInv, QueueOK, I!Visit
  <1>7. /\ Len(queue) \in Nat \ {0} /\ Len(rest) = Len(queue) - 1 /\ h = queue[1]
        /\ DOMAIN queue = 1..Len(queue) /\ DOMAIN rest = 1..Len(rest)
        /\ Len(q) \in Nat /\ DOMAIN q = 1..Len(q)
        /\ \A i \in 1..Len(rest) : rest[i] = queue[i + 1]
    BY <1>1, <1>5, <1>6, HeadTailProperties, LenProperties, EmptySeq
  <1>8. d \in Nat /\ d = old[queue[1]].depth
    BY <1>2, <1>4, <1>6, <1>7
  <1>9. estate' = estate /\ paths' = new /\ queue' = q
    BY <1>2, <1>3 DEF I!Visit
  <1>10. /\ I!relations' = I!relations /\ I!scope' = I!scope
         /\ \A x : Out(x)' = Out(x)
    BY <1>9 DEF I!relations, I!scope, Out
  \* The rest of the queue is not nearer than its first item.
  <1>11. ASSUME NEW i \in 1..Len(rest)
         PROVE  q[i] \in D /\ q[i] = queue[i + 1] /\ new[q[i]] = old[queue[i + 1]] /\ d <= new[q[i]].depth
    <2>1. i + 1 \in DOMAIN queue /\ 1 \in DOMAIN queue /\ 1 <= i + 1 /\ i \in 1..Len(rest)
      BY <1>7
    <2>2. q[i] = queue[i + 1]
      BY <1>5, <1>7
    <2>3. queue[i + 1] \in D
      BY <1>6, <2>1
    <2>4. old[queue[1]].depth <= old[queue[i + 1]].depth
      BY <1>6, <2>1
    <2> QED
      BY <1>5, <1>8, <2>2, <2>3, <2>4
  <1>12. ASSUME NEW i \in DOMAIN q PROVE q[i] \in DOMAIN new /\ d <= new[q[i]].depth
                                         /\ (i > Len(rest) => new[q[i]].depth = d + 1)
    <2>1. q[i] \in DOMAIN new
      BY <1>5
    <2>2. CASE i > Len(rest)
      <3>1. new[q[i]].depth = d + 1
        BY <1>5, <2>1, <2>2
      <3> QED
        BY <1>8, <2>1, <3>1
    <2>3. CASE ~(i > Len(rest))
      <3>1. i \in 1..Len(rest)
        BY <1>7, <2>3
      <3> QED
        BY <1>11, <2>1, <2>3, <3>1
    <2> QED
      BY <2>2, <2>3
  <1>13. ASSUME NEW x \in DOMAIN new PROVE new[x].depth \in Nat /\ new[x].depth <= d + 1
    <2>1. CASE x \in D
      <3>1. new[x] = old[x] /\ old[x].depth \in Nat /\ old[x].depth <= d + 1
        BY <1>5, <1>6, <2>1
      <3> QED
        BY <3>1
    <2>2. CASE x \notin D
      <3>1. new[x].depth = d + 1
        BY <1>5, <2>2
      <3> QED
        BY <1>8, <3>1
    <2> QED
      BY <2>1, <2>2
  <1>14. QueueOK'
    <2>1. ASSUME NEW i \in DOMAIN q, NEW j \in DOMAIN q, i <= j
          PROVE  new[q[i]].depth <= new[q[j]].depth
      <3>1. CASE j > Len(rest)
        BY <1>8, <1>12, <1>13, <3>1
      <3>2. CASE ~(j > Len(rest))
        <4>1. i \in 1..Len(rest) /\ j \in 1..Len(rest)
          BY <1>7, <2>1, <3>2
        <4>2. i + 1 \in DOMAIN queue /\ j + 1 \in DOMAIN queue /\ i + 1 <= j + 1
          BY <1>7, <2>1, <4>1
        <4>3. old[queue[i + 1]].depth <= old[queue[j + 1]].depth
          BY <1>6, <4>2
        <4> QED
          BY <1>11, <4>1, <4>3
      <3> QED
        BY <3>1, <3>2
    <2>2. ASSUME q # <<>>, NEW x \in DOMAIN new PROVE new[x].depth <= new[Head(q)].depth + 1
      <3>1. 1 \in DOMAIN q /\ Head(q) = q[1]
        BY <1>5, <1>7, <2>2, HeadTailProperties, EmptySeq
      <3>2. d <= new[Head(q)].depth /\ new[Head(q)].depth \in Nat
        BY <1>12, <1>13, <3>1
      <3> QED
        BY <1>8, <1>13, <3>2
    <2> QED
      BY <1>5, <1>9, <2>1, <2>2 DEF QueueOK
  <1>15. ASSUME NEW x \in DOMAIN new PROVE Reached(x)'
    <2>1. CASE x \in D
      <3>1. Reached(x) /\ new[x] = old[x]
        BY <1>5, <1>6, <2>1
      <3>2. /\ old[x].depth = 0 <=> x \in I!scope
            /\ old[x].depth > 0 =>
                  \E y \in D : x \in Out(y) /\ old[x].depth = old[y].depth + 1
        BY <1>1, <1>4, <3>1 DEF Reached
      <3>3. \A y \in D : y \in DOMAIN new /\ new[y] = old[y]
        BY <1>5
      <3> QED
        BY <1>9, <1>10, <3>1, <3>2, <3>3 DEF Reached
    <2>2. CASE x \notin D
      <3>1. new[x].depth = d + 1 /\ x \in Out(h)
        BY <1>5, <2>2
      <3>2. h \in DOMAIN new /\ new[h].depth = d
        BY <1>2, <1>4, <1>5
      <3>3. x \notin I!scope
        BY <1>1, <2>2 DEF ImpactInv
      <3> QED
        BY <1>8, <1>9, <1>10, <3>1, <3>2, <3>3 DEF Reached
    <2> QED
      BY <2>1, <2>2
  <1>16. ASSUME NEW x \in DOMAIN new \ {q[i] : i \in DOMAIN q} PROVE Visited(x)'
    <2>1. x \in D /\ new[x] = old[x]
      BY <1>5
    <2>2. CASE x = h
      <3>1. ASSUME NEW y \in Out(h) PROVE y \in DOMAIN new
        <4>1. PICK r \in I!ToSet(I!relations) :
                 I!Propagates(r) /\ I!Supporting(r) = h /\ y = I!Affected(r)
          BY <3>1 DEF Out
        <4>2. PICK k \in 1..Len(I!relations) : r = I!relations[k]
          BY RelationsAre DEF ImpactInv
        <4> QED
          BY <1>5, <4>1, <4>2
      <3>2. new[h].depth = d
        BY <1>2, <1>4, <1>5
      <3>3. \A y \in Out(h) : new[y].depth <= new[h].depth + 1
        BY <1>13, <3>1, <3>2
      <3> QED
        BY <1>9, <1>10, <2>2, <3>1, <3>3 DEF Visited
    <2>3. CASE x # h
      <3>1. x \notin {queue[i] : i \in DOMAIN queue}
        <4> SUFFICES ASSUME NEW i \in DOMAIN queue, x = queue[i] PROVE FALSE
          OBVIOUS
        <4>1. i # 1
          BY <1>7, <2>3
        <4>2. PICK j \in 1..Len(rest) : j + 1 = i
          <5>1. i - 1 \in 1..Len(rest) /\ (i - 1) + 1 = i
            BY <1>7, <4>1
          <5> QED
            BY <5>1
        <4>3. q[j] = x /\ j \in DOMAIN q
          BY <1>5, <1>7, <1>11, <4>2
        <4> QED
          BY <4>3
      <3>2. Visited(x)
        BY <1>1, <2>1, <3>1 DEF ImpactInv
      <3>3. \A y \in Out(x) : y \in D /\ old[y].depth <= old[x].depth + 1
        BY <1>1, <1>4, <3>2 DEF Visited
      <3>4. \A y \in Out(x) : y \in DOMAIN new /\ new[y].depth <= new[x].depth + 1
        BY <1>5, <2>1, <3>3
      <3> QED
        BY <1>9, <1>10, <3>4 DEF Visited
    <2> QED
      BY <2>2, <2>3
  <1>17. estate' \in Estates /\ I!scope \subseteq DOMAIN new
    BY <1>1, <1>5, <1>9 DEF ImpactInv
  <1>18. /\ (DOMAIN paths \subseteq Items /\ I!scope \subseteq DOMAIN paths)'
         /\ \A x \in DOMAIN new : (paths[x].depth \in Nat /\ Reached(x))'
         /\ \A x \in DOMAIN new \ {q[i] : i \in DOMAIN q} : Visited(x)'
    BY <1>5, <1>9, <1>10, <1>13, <1>15, <1>16, <1>17
  <1> QED
    BY <1>9, <1>14, <1>17, <1>18 DEF ImpactInv

LEMMA ImpactNext == ImpactInv /\ [I!Next]_(I!vars) => ImpactInv'
  <1>1. ASSUME ImpactInv, UNCHANGED I!vars PROVE ImpactInv'
    <2>1. UNCHANGED <<estate, queue, paths>>
      BY <1>1 DEF I!vars
    <2> QED
      BY <1>1, <2>1 DEF ImpactInv, QueueOK, Reached, Visited, Out, I!relations, I!scope
  <1> QED
    BY <1>1, VisitKeeps DEF I!Next

\* The levels of the search: what can be reached in so many steps.
LEMMA WithinRecursion ==
    ASSUME estate \in Estates
    PROVE  \A n \in 0..Cardinality(Items) :
              I!Within[n] = IF n = 0 THEN I!scope ELSE I!Successors(I!Within[n - 1])
  <1> DEFINE N == Cardinality(Items)
             step == [X \in SUBSET Items |-> I!Successors(X)]
             Good(f) == f = [n \in 0..N |-> IF n = 0 THEN I!scope ELSE I!Successors(f[n - 1])]
  <1>1. N \in Nat /\ I!scope \in SUBSET Items
    BY ImpactBounds, RelationsAre, FS_CardinalityType
  <1>2. step \in [SUBSET Items -> SUBSET Items]
    <2>1. ASSUME NEW X \in SUBSET Items PROVE I!Successors(X) \in SUBSET Items
      <3>1. \A r \in I!ToSet(I!relations) : I!Affected(r) \in Items
        BY RelationsAre
      <3> QED
        BY <3>1 DEF I!Successors
    <2> QED
      BY <2>1
  <1>3. PICK h \in [0..N -> SUBSET Items] :
           \A n \in 0..N : h[n] = IF n = 0 THEN I!scope ELSE step[h[n - 1]]
    <2> HIDE DEF N, step
    <2>1. \E h \in [0..N -> SUBSET Items] : Iterated(h, N, I!scope, step)
      BY <1>1, <1>2, Iteration
    <2> QED
      BY <2>1 DEF Iterated
  <1>4. Good(h)
    <2>1. ASSUME NEW n \in 0..N
          PROVE  h[n] = IF n = 0 THEN I!scope ELSE I!Successors(h[n - 1])
      <3>1. n # 0 => h[n - 1] \in SUBSET Items
        BY <1>1
      <3> HIDE DEF N
      <3> QED
        BY <1>1, <1>3, <3>1
    <2> HIDE DEF N
    <2> QED
      BY <1>3, <2>1
  <1> DEFINE reach == CHOOSE g : Good(g)
  <1>5. Good(reach)
    <2> HIDE DEF Good
    <2> QED
      BY <1>4
  <1>6. I!Within = reach
    BY ImpactBounds DEF I!Within
  <1> HIDE DEF reach, N
  <1> QED
    BY <1>5, <1>6 DEF N

\* Every depth up to that of an item is that of another one, so that there are fewer
\* steps to it than items.
LEMMA DepthBound ==
    ASSUME ImpactInv, NEW x \in DOMAIN paths
    PROVE  paths[x].depth \in 0..Cardinality(Items)
  <1> DEFINE D == DOMAIN paths
             depth == [y \in D |-> paths[y].depth]
             Depths == {depth[y] : y \in D}
             d == depth[x]
             P == {k \in Nat : k <= d => d - k \in Depths}
  <1>1. /\ D \subseteq Items /\ \A y \in D : depth[y] \in Nat
        /\ \A y \in D : depth[y] > 0 => \E z \in D : depth[y] = depth[z] + 1
    BY DEF ImpactInv, Reached
  <1> HIDE DEF D, depth
  <1>2. d \in Nat /\ x \in D
    BY <1>1 DEF D
  <1>3. 0 \in P
    BY <1>2
  <1>4. ASSUME NEW k \in Nat, k \in P PROVE k + 1 \in P
    <2> SUFFICES ASSUME k + 1 <= d PROVE d - (k + 1) \in Depths
      OBVIOUS
    <2>1. d - k \in Depths /\ d - k > 0
      BY <1>2, <1>4
    <2>2. PICK y \in D : depth[y] = d - k
      BY <2>1
    <2>3. PICK z \in D : depth[y] = depth[z] + 1
      BY <1>1, <2>1, <2>2
    <2>4. depth[z] = d - (k + 1)
      BY <1>1, <1>2, <2>2, <2>3
    <2> QED
      BY <2>4
  <1> HIDE DEF P
  <1>5. Nat \subseteq P
    BY <1>3, <1>4, NumberInduction
  <1>6. 0..d \subseteq Depths
    <2> SUFFICES ASSUME NEW n \in 0..d PROVE n \in Depths
      OBVIOUS
    <2>1. d - n \in Nat /\ d - n <= d /\ d - (d - n) = n
      BY <1>2
    <2>2. d - n \in P
      BY <1>5, <2>1
    <2> QED
      BY <2>1, <2>2 DEF P
  <1>7. IsFiniteSet(D) /\ Cardinality(D) <= Cardinality(Items) /\ Cardinality(Items) \in Nat
    BY <1>1, ImpactBounds, FS_Subset, FS_CardinalityType
  <1>8. depth \in Surjection(D, Depths)
    <2>1. depth \in [D -> Depths]
      BY DEF depth
    <2> QED
      BY <2>1 DEF Surjection
  <1> HIDE DEF Depths, d
  <1>9. IsFiniteSet(Depths) /\ Cardinality(Depths) <= Cardinality(D)
    BY <1>7, <1>8, FS_Surjection
  <1>10. Cardinality(0..d) <= Cardinality(Depths)
    BY <1>6, <1>9, FS_Subset
  <1>11. Cardinality(0..d) = d + 1
    BY <1>2, FS_Interval
  <1>12. Cardinality(Depths) \in Nat /\ Cardinality(D) \in Nat
    BY <1>7, <1>9, FS_CardinalityType
  <1>13. d \in 0..Cardinality(Items)
    BY <1>2, <1>7, <1>9, <1>10, <1>11, <1>12
  <1> QED
    BY <1>2, <1>13 DEF d, depth

\* When the queue is empty, what is known at a depth is what is reached in so many steps.
LEMMA LevelsExact ==
    ASSUME ImpactInv, queue = <<>>
    PROVE  \A n \in 0..Cardinality(Items) :
              \A x : x \in I!Within[n] <=> x \in DOMAIN paths /\ paths[x].depth <= n
  <1> DEFINE N == Cardinality(Items)
             D == DOMAIN paths
             Level(n) == \A x : x \in I!Within[n] <=> x \in D /\ paths[x].depth <= n
             P == {n \in Nat : n <= N => Level(n)}
  <1>1. N \in Nat
    BY ImpactBounds, FS_CardinalityType
  <1>2. /\ estate \in Estates /\ I!scope \subseteq D
        /\ \A x \in D : paths[x].depth \in Nat /\ Reached(x) /\ Visited(x)
    <2>1. {queue[i] : i \in DOMAIN queue} = {}
      OBVIOUS
    <2> QED
      BY <2>1 DEF ImpactInv
  <1>3. \A n \in 0..N : I!Within[n] = IF n = 0 THEN I!scope ELSE I!Successors(I!Within[n - 1])
    BY <1>2, WithinRecursion
  <1> HIDE DEF N
  <1>4. Level(0)
    <2>1. I!Within[0] = I!scope
      BY <1>1, <1>3
    <2>2. \A x \in D : paths[x].depth <= 0 <=> x \in I!scope
      BY <1>2 DEF Reached
    <2> QED
      BY <1>2, <2>1, <2>2
  <1>5. ASSUME NEW n \in Nat, n + 1 <= N, Level(n) PROVE Level(n + 1)
    <2>1. I!Within[n + 1] = I!Successors(I!Within[n])
      <3>1. n + 1 \in 0..N /\ n + 1 # 0 /\ (n + 1) - 1 = n
        BY <1>1, <1>5
      <3> QED
        BY <1>3, <3>1
    <2>2. \A S, x : x \in I!Successors(S) <=> x \in S \/ \E y \in S : x \in Out(y)
      BY DEF I!Successors, Out
    <2>3. ASSUME NEW x \in I!Within[n + 1] PROVE x \in D /\ paths[x].depth <= n + 1
      <3>1. CASE x \in I!Within[n]
        BY <1>2, <1>5, <3>1
      <3>2. CASE \E y \in I!Within[n] : x \in Out(y)
        <4>1. PICK y \in I!Within[n] : x \in Out(y)
          BY <3>2
        <4>2. y \in D /\ paths[y].depth <= n /\ Visited(y)
          BY <1>2, <1>5, <4>1
        <4>3. x \in D /\ paths[x].depth <= paths[y].depth + 1
          BY <4>1, <4>2 DEF Visited
        <4> QED
          BY <1>2, <4>2, <4>3
      <3> QED
        BY <2>1, <2>2, <2>3, <3>1, <3>2
    <2>4. ASSUME NEW x \in D, paths[x].depth <= n + 1 PROVE x \in I!Within[n + 1]
      <3>1. CASE paths[x].depth <= n
        BY <1>5, <2>1, <2>2, <3>1
      <3>2. CASE ~(paths[x].depth <= n)
        <4>1. paths[x].depth = n + 1
          BY <1>2, <2>4, <3>2
        <4>2. PICK y \in D : x \in Out(y) /\ paths[x].depth = paths[y].depth + 1
          BY <1>2, <4>1 DEF Reached
        <4>3. paths[y].depth <= n
          BY <1>2, <4>1, <4>2
        <4>4. y \in I!Within[n]
          BY <1>5, <4>3
        <4> QED
          BY <2>1, <2>2, <4>2, <4>4
      <3> QED
        BY <3>1, <3>2
    <2> QED
      BY <2>3, <2>4
  <1>6. 0 \in P
    <2> HIDE DEF Level
    <2> QED
      BY <1>4
  <1>7. ASSUME NEW n \in Nat, n \in P PROVE n + 1 \in P
    <2> HIDE DEF Level
    <2>1. n + 1 <= N => n <= N
      BY <1>1
    <2> QED
      BY <1>5, <1>7, <2>1
  <1>8. Nat \subseteq P
    <2> HIDE DEF P
    <2> QED
      BY <1>6, <1>7, NumberInduction
  <1>9. \A n \in 0..N : Level(n)
    <2> HIDE DEF Level
    <2> QED
      BY <1>8
  <1> QED
    BY <1>9 DEF N

LEMMA Exact == ImpactInv => I!ImpactIsExact
  <1> SUFFICES ASSUME ImpactInv, queue = <<>>
               PROVE  /\ DOMAIN paths = I!Within[Cardinality(Items)]
                      /\ \A x \in DOMAIN paths :
                            /\ x \in I!Within[paths[x].depth]
                            /\ paths[x].depth > 0 => x \notin I!Within[paths[x].depth - 1]
    BY ImpactBounds DEF I!ImpactIsExact
  <1>1. PICK N : N = Cardinality(Items)
    OBVIOUS
  <1>2. N \in Nat /\ N \in 0..N
    BY <1>1, ImpactBounds, FS_CardinalityType
  <1>3. \A n \in 0..N : \A x : x \in I!Within[n] <=> x \in DOMAIN paths /\ paths[x].depth <= n
    BY <1>1, LevelsExact
  <1>4. \A x \in DOMAIN paths : paths[x].depth \in 0..N
    BY <1>1, DepthBound
  <1>5. DOMAIN paths = I!Within[N]
    <2>1. \A x : x \in I!Within[N] <=> x \in DOMAIN paths /\ paths[x].depth <= N
      BY <1>2, <1>3
    <2>2. \A x \in DOMAIN paths : paths[x].depth <= N
      BY <1>2, <1>4
    <2>3. \A x : x \in I!Within[N] <=> x \in DOMAIN paths
      BY <2>1, <2>2
    <2>4. PICK reached, known : reached = I!Within[N] /\ known = DOMAIN paths
      OBVIOUS
    <2> QED
      BY <2>3, <2>4
  <1>6. ASSUME NEW x \in DOMAIN paths
        PROVE  /\ x \in I!Within[paths[x].depth]
               /\ paths[x].depth > 0 => x \notin I!Within[paths[x].depth - 1]
    <2>1. PICK d \in 0..N : d = paths[x].depth
      BY <1>4
    <2>2. x \in I!Within[d]
      BY <1>3, <2>1
    <2>3. d > 0 => d - 1 \in 0..N /\ ~(d <= d - 1)
      BY <1>2
    <2> QED
      BY <1>3, <2>1, <2>2, <2>3
  <1> QED
    BY <1>1, <1>5, <1>6

LEMMA ImpactTyped == ImpactInv => I!TypeOK
  <1> SUFFICES ASSUME ImpactInv PROVE I!TypeOK
    OBVIOUS
  <1>1. \A x \in DOMAIN paths : paths[x].depth \in 0..I!Cardinality(Items)
    BY DepthBound, ImpactBounds
  <1>2. I!ToSet(queue) \subseteq DOMAIN paths
    <2>1. queue \in Seq(DOMAIN paths)
      BY DEF ImpactInv, QueueOK
    <2> QED
      BY <2>1 DEF I!ToSet
  <1> QED
    BY <1>1, <1>2 DEF I!TypeOK, ImpactInv

\* An outage of a critical item rates at least medium, and each business system has its
\* sign-off or is reported.
LEMMA ReviewSees == ImpactInv => I!ReviewSeesImpact
  <1> SUFFICES ASSUME ImpactInv, queue = <<>> PROVE I!ReviewSeesImpact
    BY DEF I!ReviewSeesImpact
  <1>1. \A S \in SUBSET Items : I!Cardinality(S) \in Nat
    BY ImpactBounds, FS_Subset, FS_CardinalityType
  <1>2. ASSUME NEW x \in DOMAIN paths, estate.facts[x].critical,
               I!Impact(x) \in {"scope", "outage"}
        PROVE  I!Level # "low"
    <2>1. x \in I!Active
      BY <1>2 DEF I!Active, I!Counts
    <2>2. PICK down, serious :
             /\ down = I!Cardinality(I!Downstream)
             /\ serious = I!Cardinality({y \in I!Systems : I!Counts(y) /\ I!facts[y].critical})
      OBVIOUS
    <2>3. down \in Nat /\ serious \in Nat
      <3>1. I!Downstream \in SUBSET Items /\ I!Systems \in SUBSET Items
        BY DEF I!Downstream, I!Systems, ImpactInv
      <3>2. {y \in I!Systems : I!Counts(y) /\ I!facts[y].critical} \in SUBSET Items
        BY <3>1
      <3> QED
        BY <1>1, <2>2, <3>1, <3>2
    <2>4. PICK m : m = I!Least(4, 1 + down \div 4)
      OBVIOUS
    <2>5. m \in Nat
      BY <2>3, <2>4 DEF I!Least
    <2>6. PICK s : s = I!Least(3, serious)
      OBVIOUS
    <2>7. s \in Nat
      BY <2>3, <2>6 DEF I!Least
    <2>8. PICK b, c \in Nat : I!Score = 4 + b + c + s
      <3>1. \E y \in I!Active : I!facts[y].critical
        BY <1>2, <2>1 DEF I!facts
      <3> DEFINE b == IF I!Downstream = {} THEN 0 ELSE m
                 c == IF \E y \in I!Systems : I!Counts(y) /\ I!facts[y].owner = "none" THEN 2 ELSE 0
      <3>2. I!Score = 4 + b + c + s
        BY <2>2, <2>4, <2>6, <3>1 DEF I!Score
      <3>3. b \in Nat /\ c \in Nat
        BY <2>5
      <3> QED
        BY <3>2, <3>3
    <2>9. I!Score >= 4
      BY <2>7, <2>8
    <2> QED
      BY <2>9 DEF I!Level
  <1>3. ASSUME NEW x \in I!Within[Cardinality(Items)], Kind[x] = "system",
               estate.facts[x].owner # "exempt"
        PROVE  x \in I!Missing \/ \E a \in I!Approvers : a.system = x
    <2>1. x \in DOMAIN paths
      BY Exact, ImpactBounds, <1>3 DEF I!ImpactIsExact
    <2>2. x \in I!SignOff
      BY <1>3, <2>1 DEF I!SignOff, I!Systems, I!facts
    <2> QED
      BY <2>2 DEF I!Missing
  <1> QED
    BY <1>2, <1>3, ImpactBounds DEF I!ReviewSeesImpact, I!facts

----------------------------------------------------------------------------
(* The four of them side by side *)

CmdbInv == GraphInv /\ TemplateInv /\ ImpactInv /\ InventoryInv

\* A step of a part is a step of its module and leaves the others alone.
LEMMA PartStep ==
    ASSUME [Next]_vars
    PROVE  /\ [R!Next]_(R!vars) /\ [T!Next]_(T!vars) /\ [I!Next]_(I!vars)
           /\ [V!Next]_(V!vars)
  <1> USE DEF graph, templates, impact, inventory, R!vars, T!vars, I!vars, V!vars
  <1>1. CASE UNCHANGED vars
    BY <1>1 DEF vars
  <1>2. CASE R!Next /\ UNCHANGED <<templates, impact, inventory>>
    BY <1>2
  <1>3. CASE T!Next /\ UNCHANGED <<graph, impact, inventory>>
    BY <1>3
  <1>4. CASE I!Next /\ UNCHANGED <<graph, templates, inventory>>
    BY <1>4
  <1>5. CASE V!Next /\ UNCHANGED <<graph, templates, impact>>
    BY <1>5
  <1> QED
    BY <1>1, <1>2, <1>3, <1>4, <1>5 DEF Next

LEMMA CmdbInvariant == Spec => []CmdbInv
  <1>1. Init => CmdbInv
    BY GraphInit, TemplateInit, ImpactInit, InventoryInit DEF Init, CmdbInv
  <1>2. CmdbInv /\ [Next]_vars => CmdbInv'
    <2> SUFFICES ASSUME CmdbInv, [Next]_vars PROVE CmdbInv'
      OBVIOUS
    <2>1. GraphInv' /\ ImpactInv' /\ InventoryInv'
      BY PartStep, GraphNext, ImpactNext, InventoryNext DEF CmdbInv
    <2>2. TemplateInv'
      BY PartStep, TemplateNext DEF CmdbInv
    <2> QED
      BY <2>1, <2>2 DEF CmdbInv
  <1> QED
    BY <1>1, <1>2, PTL DEF Spec

\* The variables of every part have their types, for any customer.
THEOREM TypeCorrect == Spec => []TypeOK
  <1>1. CmdbInv => TypeOK
    BY GraphTyped, TemplateTyped, ImpactTyped, InventoryTyped DEF CmdbInv, TypeOK
  <1> QED
    BY <1>1, CmdbInvariant, PTL

\* No cycle of dependencies and no relationship twice among the relationships that were
\* not let in by a stale check (create_relationship, _matching_relationship), for any
\* relationships, any number of overlapping requests and previews.
THEOREM GraphIsSound == Spec => []SoundButForStaleChecks
  <1>1. CmdbInv => SoundButForStaleChecks
    BY DEF CmdbInv, GraphInv, SoundSet, SoundButForStaleChecks, R!SoundButForStaleChecks
  <1> QED
    BY <1>1, CmdbInvariant, PTL

\* Who approves a suggestion approves the evidence that was read, by hand or by a policy
\* (approve_relationship_candidate, _observe_ncentral_relationships).
THEOREM ApprovalsAreAsRead == Spec => ApprovedAsRead
  <1> DEFINE AsWasRead ==
                \A k \in Suggested :
                   candidates[k].state # "approved" /\ candidates'[k].state = "approved"
                   => R!ReadBy(k, candidates[k])
  <1>1. CmdbInv /\ [Next]_vars => [AsWasRead]_(R!vars)
    BY PartStep, ApprovingStep DEF CmdbInv
  <1> QED
    BY <1>1, CmdbInvariant, PTL DEF Spec, ApprovedAsRead, R!ApprovedAsRead

\* A preview that is overtaken leaves the newer evidence alone
\* (upsert_relationship_candidates).
THEOREM EvidenceStands == Spec => NewestEvidenceStands
  <1> DEFINE NewerKept ==
                \A p \in Passes, k \in Suggested :
                   pass[p].kind = "store" /\ pass'[p] # pass[p] /\ pass[p].time < candidates[k].seen
                   => candidates'[k] = candidates[k]
  <1>1. CmdbInv /\ [Next]_vars => [NewerKept]_(R!vars)
    BY PartStep, NewerStands DEF CmdbInv
  <1> QED
    BY <1>1, CmdbInvariant, PTL DEF Spec, NewestEvidenceStands, R!NewestEvidenceStands

\* Automation approves only while the policy that allows it is in force
\* (_observe_ncentral_relationships).
THEOREM AutomationIsAllowed == Spec => AutomationFollowsPolicy
  <1> DEFINE Allowed ==
                \A p \in Passes :
                   pass[p].kind = "approve" /\ pass'[p] # pass[p] /\ candidates' # candidates
                   => ready /\ generation \in AutoGenerations
  <1>1. CmdbInv /\ [Next]_vars => [Allowed]_(R!vars)
    BY PartStep, PolicyFollowed DEF CmdbInv
  <1> QED
    BY <1>1, CmdbInvariant, PTL DEF Spec, AutomationFollowsPolicy, R!AutomationFollowsPolicy

\* A change is closed on the terms it was created with, and no editor or seed takes a
\* version of a template back, so that the version it names is always there
\* (update_change_template, _ensure_default_change_templates, transition_change_record).
THEOREM TermsAreKept == Spec => TermsStay
  <1> DEFINE History ==
                /\ template'.current >= template.current
                /\ template'.current \in DOMAIN versions'
                /\ versions'[template'.current].writer = Nobody
                /\ \A v \in DOMAIN versions : T!Committed(v) =>
                      v \in DOMAIN versions' /\ versions'[v] = versions[v]
  <1>1. CmdbInv /\ [Next]_vars => [History]_(T!vars)
    BY PartStep, TemplateNext DEF CmdbInv, Grows, Kept
  <1>2. CmdbInv => T!Committed(template.current) /\ T!ClosedOnPinnedTerms
    BY TermsHold DEF CmdbInv, TemplateInv, LibraryInv
  <1> QED
    BY <1>1, <1>2, CmdbInvariant, PTL DEF Spec, TermsStay, T!HistoryGrows

\* The snapshot of a change holds every item that its scope can take down, at its distance,
\* whatever cycles the relationships have and in whatever order they are stored, and the
\* review sees it (build_impact_snapshot, calculate_risk, derive_change_approvers).
THEOREM ImpactIsShown == Spec => []ImpactIsSeen
  <1>1. CmdbInv => ImpactIsSeen
    BY Exact, ReviewSees DEF CmdbInv, ImpactIsSeen
  <1> QED
    BY <1>1, CmdbInvariant, PTL

\* What a CI shows of its device is the newest record stored, in the snapshots and in the
\* interfaces, however the imports and links overlap and whatever retention deletes
\* (replace_ci_inventory, get_ci_inventory).
THEOREM InventoryStands == Spec => []InventoryIsNewest
  <1>1. CmdbInv => InventoryIsNewest
    BY NewestShown, InterfacesShown DEF CmdbInv, InventoryIsNewest
  <1> QED
    BY <1>1, CmdbInvariant, PTL
=============================================================================
