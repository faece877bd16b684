-------------------------- MODULE ProvidersProofs --------------------------
(***************************************************************************)
(* Proofs about Providers: the pool that reads details, the customers, the  *)
(* connection, the order in which details are read and the cache.           *)
(***************************************************************************)
EXTENDS Providers, FiniteSetTheorems, WellFoundedInduction, TLAPS

----------------------------------------------------------------------------
(* Induction, in a form that the provers can use: over sets *)

\* Every set of natural numbers that is not empty has a least member.
LEMMA LeastNumber ==
    ASSUME NEW M \in SUBSET Nat, M # {}
    PROVE  \E m \in M : \A k \in M : m <= k
  <1> DEFINE F == {1..n : n \in M}
  <1>1. F \subseteq FiniteSubsetsOf(Nat) /\ F # {}
    <2>1. \A n \in M : 1..n \subseteq Nat /\ IsFiniteSet(1..n)
      BY FS_Interval
    <2> QED
      BY <2>1 DEF FiniteSubsetsOf
  <1>2. IsWellFoundedOn(StrictSubsetOrdering(Nat), FiniteSubsetsOf(Nat))
    BY FS_StrictSubsetOrderingWellFounded
  <1>3. PICK x \in F : \A y \in F : ~ (<<y, x>> \in StrictSubsetOrdering(Nat))
    <2> HIDE DEF F
    <2> QED
      BY <1>1, <1>2, WFMin
  <1>4. PICK m \in M : x = 1..m
    BY <1>3
  <1>5. ASSUME NEW k \in M, k < m PROVE FALSE
    <2>1. 1..k \in F /\ 1..k \subseteq 1..m /\ 1..k # 1..m /\ 1..m \subseteq Nat /\ 1..k \subseteq Nat
      BY <1>5
    <2>2. <<1..k, 1..m>> \in StrictSubsetOrdering(Nat)
      BY <2>1 DEF StrictSubsetOrdering
    <2> QED
      BY <2>1, <2>2, <1>3, <1>4
  <1> QED
    BY <1>5

----------------------------------------------------------------------------
(* The readers of details *)

ReaderRow == [device : 0..Devices, of : {"assets"} \cup D!Optional, at : D!Places, mine : Nat,
              tries : 0..(Attempts - 1)]

Requesting == {"token", "send", "renew", "replay"}
Holds(r) == r.of = "lifecycle" /\ r.at \in Requesting
OnTheWay(r, s) == r.of = s /\ r.at \in Requesting \cup {"gate"}

\* The requests that a reader has sent for the section it is reading.
Sent(r) == IF r.at = "send" THEN r.tries
           ELSE IF r.at = "renew" THEN Attempts
           ELSE IF r.at = "replay" THEN Attempts + r.tries
           ELSE 0

\* One reader holds the gate of the lifecycle calls.
OneHolds(readers) == \A v, w \in Readers : Holds(readers[v]) /\ Holds(readers[w]) => v = w

\* Nobody sets out for an endpoint that is known to be unavailable, so whoever sends it a
\* request is in the one read that it had begun before.
AtMost(r, s) == IF OnTheWay(r, s) THEN Sent(r) ELSE 2 * Attempts
FewLate(readers, known, sent) ==
    \A w \in Readers, s \in D!Optional :
        /\ s \notin known => sent[<<w, s>>] = 0
        /\ sent[<<w, s>>] <= AtMost(readers[w], s)

\* Who asks for another token holds one that is not accepted any more.
RejectedAsk(readers, accepted) ==
    \A w \in Readers : readers[w].at = "renew" => readers[w].mine < accepted

\* The present token has to be exchanged before a request can succeed.
Spent(present, over, accepted) == present = 0 \/ over \/ present < accepted

Exchanges(exchanged, dropped, spent) ==
    exchanged <= 1 + dropped /\ (spent => exchanged <= dropped)

ReadersOK(readers, known, sent, accepted) ==
    /\ readers \in [Readers -> ReaderRow] /\ known \subseteq D!Optional
    /\ sent \in [Readers \X D!Optional -> Nat]
    /\ OneHolds(readers) /\ FewLate(readers, known, sent) /\ RejectedAsk(readers, accepted)

ReadTypes ==
    /\ D!TypeOK
    /\ full \in BOOLEAN /\ cancel \in BOOLEAN /\ expired \in BOOLEAN
    /\ issued \in Nat /\ renewals \in Nat

ReadInv ==
    /\ ReadTypes
    /\ ReadersOK(worker, unavailable, late, live)
    /\ Exchanges(issued, renewals, Spent(token, expired, live))

LEMMA ReadBounds == Devices \in Nat /\ Attempts \in Nat /\ Attempts > 0
  BY ProviderAssumption DEF D!ReadAssumption

LEMMA ReadInit == D!Init => ReadInv
  <1> SUFFICES ASSUME D!Init PROVE ReadInv
    OBVIOUS
  <1> USE DEF D!Init, D!Idle
  <1>1. ReadTypes
    <2>1. full \in BOOLEAN /\ cancel \in BOOLEAN /\ expired \in BOOLEAN
      OBVIOUS
    <2>2. D!TypeOK
      BY ReadBounds DEF D!TypeOK, D!Optional, D!Places
    <2> QED
      BY <2>1, <2>2 DEF ReadTypes
  <1>2. OneHolds(worker) /\ RejectedAsk(worker, live)
    BY DEF OneHolds, Holds, RejectedAsk
  <1>3. FewLate(worker, unavailable, late)
    <2> SUFFICES ASSUME NEW w \in Readers, NEW s \in D!Optional
                 PROVE  late[<<w, s>>] = 0 /\ 0 <= AtMost(worker[w], s)
      BY DEF FewLate
    <2> QED
      BY ReadBounds DEF AtMost, Sent
  <1>4. Exchanges(issued, renewals, Spent(token, expired, live))
    BY DEF Exchanges, Spent
  <1> QED
    BY <1>1, <1>2, <1>3, <1>4 DEF ReadInv, ReadersOK, ReadTypes, D!TypeOK, ReaderRow

\* One reader goes on to row r: it does not take the gate from another, it does not set
\* out for an endpoint that is known to be unavailable, and it asks for a token only when
\* its own was rejected.
LEMMA ReaderMoves ==
    ASSUME ReadersOK(worker, unavailable, late, live),
           NEW w \in Readers, NEW r \in ReaderRow, worker' = [worker EXCEPT ![w] = r],
           unavailable \subseteq unavailable', unavailable' \subseteq D!Optional,
           late' \in [Readers \X D!Optional -> Nat],
           \A v \in Readers, s \in D!Optional : v # w => late'[<<v, s>>] = late[<<v, s>>],
           \A s \in D!Optional : /\ s \notin unavailable' => late'[<<w, s>>] = 0
                                 /\ late'[<<w, s>>] <= AtMost(r, s),
           live' = live,
           Holds(r) => Holds(worker[w]) \/ \A v \in Readers : ~Holds(worker[v]),
           r.at = "renew" => r.mine < live
    PROVE  ReadersOK(worker', unavailable', late', live')
  <1> USE DEF ReadersOK
  <1>1. worker' \in [Readers -> ReaderRow]
    OBVIOUS
  <1>2. OneHolds(worker')
    BY DEF OneHolds
  <1>3. RejectedAsk(worker', live')
    BY DEF RejectedAsk
  <1>4. ASSUME NEW v \in Readers, NEW s \in D!Optional
        PROVE  /\ s \notin unavailable' => late'[<<v, s>>] = 0
               /\ late'[<<v, s>>] <= AtMost(worker'[v], s)
    <2>1. CASE v = w
      BY <2>1
    <2>2. CASE v # w
      <3>1. worker'[v] = worker[v] /\ late'[<<v, s>>] = late[<<v, s>>]
        BY <2>2
      <3> QED
        BY <3>1 DEF FewLate
    <2> QED
      BY <2>1, <2>2
  <1>5. FewLate(worker', unavailable', late')
    BY <1>4 DEF FewLate
  <1> QED
    BY <1>1, <1>2, <1>3, <1>5

\* What a reader has sent for a section is never more than its attempts, before and after
\* a rejected token.
LEMMA SentBounds ==
    ASSUME NEW r \in ReaderRow
    PROVE  /\ Sent(r) \in Nat /\ Sent(r) <= 2 * Attempts
           /\ \A s \in D!Optional : AtMost(r, s) \in Nat /\ AtMost(r, s) <= 2 * Attempts
           /\ r.at \in {"send", "replay"} => Sent(r) + 1 <= 2 * Attempts
           /\ r.at = "send" => Sent(r) + 1 <= Attempts
  <1>1. r.tries \in 0..(Attempts - 1)
    BY DEF ReaderRow
  <1>2. Sent(r) \in Nat /\ Sent(r) <= 2 * Attempts
    BY <1>1, ReadBounds DEF Sent
  <1>3. r.at = "send" => Sent(r) + 1 <= Attempts
    BY <1>1, ReadBounds DEF Sent
  <1>4. r.at = "replay" => Sent(r) + 1 <= 2 * Attempts
    BY <1>1, ReadBounds DEF Sent
  <1> QED
    BY <1>2, <1>3, <1>4, ReadBounds DEF AtMost

\* A reader that sends nothing and keeps to its section, or gives it up.
LEMMA SendsNothing ==
    ASSUME ReadersOK(worker, unavailable, late, live),
           NEW w \in Readers, NEW r \in ReaderRow, worker' = [worker EXCEPT ![w] = r],
           unavailable \subseteq unavailable', unavailable' \subseteq D!Optional,
           UNCHANGED <<late, live>>,
           Holds(r) => Holds(worker[w]) \/ \A v \in Readers : ~Holds(worker[v]),
           \A s \in D!Optional : OnTheWay(r, s) =>
               \/ OnTheWay(worker[w], s) /\ Sent(worker[w]) <= Sent(r)
               \/ s \notin unavailable,
           r.at = "renew" => r.mine < live
    PROVE  ReadersOK(worker', unavailable', late', live')
  <1> USE DEF ReadersOK
  <1>1. worker[w] \in ReaderRow
    OBVIOUS
  <1>2. ASSUME NEW s \in D!Optional
        PROVE  /\ s \notin unavailable' => late'[<<w, s>>] = 0
               /\ late'[<<w, s>>] <= AtMost(r, s)
    <2>0. /\ late[<<w, s>>] \in Nat /\ late'[<<w, s>>] = late[<<w, s>>]
          /\ s \notin unavailable => late[<<w, s>>] = 0
          /\ late[<<w, s>>] <= AtMost(worker[w], s)
      BY DEF FewLate
    <2>1. /\ AtMost(worker[w], s) \in Nat /\ AtMost(worker[w], s) <= 2 * Attempts
          /\ Sent(r) \in Nat /\ Sent(worker[w]) \in Nat
      BY <1>1, SentBounds
    <2>2. CASE ~OnTheWay(r, s)
      BY <2>0, <2>1, <2>2, ReadBounds DEF AtMost
    <2>3. CASE OnTheWay(r, s) /\ s \notin unavailable
      BY <2>0, <2>1, <2>3 DEF AtMost
    <2>4. CASE OnTheWay(r, s) /\ OnTheWay(worker[w], s) /\ Sent(worker[w]) <= Sent(r)
      BY <2>0, <2>1, <2>4 DEF AtMost
    <2> QED
      BY <2>0, <2>2, <2>3, <2>4
  <1>3. late' \in [Readers \X D!Optional -> Nat]
    OBVIOUS
  <1>4. \A v \in Readers, s \in D!Optional : v # w => late'[<<v, s>>] = late[<<v, s>>]
    OBVIOUS
  <1> QED
    BY <1>2, <1>3, <1>4, ReaderMoves

\* A request counts for the reader that sends it, in the read that it has begun.
LEMMA RequestCounts ==
    ASSUME ReadersOK(worker, unavailable, late, live),
           NEW w \in Readers, worker[w].at \in {"send", "replay"}, D!Counted(w)
    PROVE  /\ late' \in [Readers \X D!Optional -> Nat]
           /\ \A v \in Readers, s \in D!Optional : v # w => late'[<<v, s>>] = late[<<v, s>>]
           /\ \A s \in D!Optional :
                 /\ s \notin unavailable => late'[<<w, s>>] = 0
                 /\ late'[<<w, s>>] <= 2 * Attempts
                 /\ OnTheWay(worker[w], s) => late'[<<w, s>>] <= Sent(worker[w]) + 1
  <1> USE DEF ReadersOK
  <1>0. worker[w] \in ReaderRow
    OBVIOUS
  <1>1. CASE worker[w].of \in unavailable
    <2>1. PICK e \in D!Optional : e = worker[w].of /\ e \in unavailable
      BY <1>1
    <2>2. late' = [late EXCEPT ![<<w, e>>] = @ + 1]
      BY <2>1 DEF D!Counted
    <2>3. late[<<w, e>>] \in Nat /\ <<w, e>> \in Readers \X D!Optional
      OBVIOUS
    <2>4. late' \in [Readers \X D!Optional -> Nat] /\ late'[<<w, e>>] = late[<<w, e>>] + 1
      BY <2>2, <2>3
    <2>5. ASSUME NEW v \in Readers, NEW s \in D!Optional, v # w \/ s # e
          PROVE  late'[<<v, s>>] = late[<<v, s>>]
      BY <2>2, <2>5
    <2>6. OnTheWay(worker[w], e)
      BY <2>1 DEF OnTheWay, Requesting
    <2>7. late'[<<w, e>>] <= Sent(worker[w]) + 1 /\ late'[<<w, e>>] <= 2 * Attempts
      <3>1. late[<<w, e>>] <= Sent(worker[w])
        BY <2>6 DEF FewLate, AtMost
      <3> QED
        BY <1>0, <2>3, <2>4, <3>1, SentBounds, ReadBounds
    <2>8. ASSUME NEW s \in D!Optional, s # e
          PROVE  /\ s \notin unavailable => late'[<<w, s>>] = 0
                 /\ late'[<<w, s>>] <= 2 * Attempts
                 /\ ~OnTheWay(worker[w], s)
      <3>1. late'[<<w, s>>] = late[<<w, s>>] /\ ~OnTheWay(worker[w], s)
        BY <2>1, <2>5, <2>8 DEF OnTheWay
      <3> QED
        BY <3>1 DEF FewLate, AtMost
    <2> QED
      BY <2>1, <2>4, <2>5, <2>7, <2>8
  <1>2. CASE worker[w].of \notin unavailable
    <2>1. late' = late
      BY <1>2 DEF D!Counted
    <2>2. ASSUME NEW s \in D!Optional
          PROVE  /\ s \notin unavailable => late[<<w, s>>] = 0
                 /\ late[<<w, s>>] <= 2 * Attempts
                 /\ OnTheWay(worker[w], s) => late[<<w, s>>] <= Sent(worker[w]) + 1
      <3>1. /\ s \notin unavailable => late[<<w, s>>] = 0
            /\ late[<<w, s>>] <= AtMost(worker[w], s) /\ late[<<w, s>>] \in Nat
        BY DEF FewLate
      <3>2. OnTheWay(worker[w], s) => late[<<w, s>>] = 0
        BY <1>2, <3>1 DEF OnTheWay
      <3> QED
        BY <1>0, <3>1, <3>2, SentBounds, ReadBounds
    <2> QED
      BY <2>1, <2>2
  <1> QED
    BY <1>1, <1>2

LEMMA ReadingStops ==
    ASSUME ReadInv, ReadTypes', UNCHANGED <<worker, unavailable, late, D!tokenVars>>
    PROVE  ReadInv'
  BY DEF ReadInv, D!tokenVars

\* What the main thread and the operator do.
LEMMA PoolStep ==
    ASSUME ReadInv,
           D!Submit \/ D!Stop \/ D!Done \/ D!RequestCancel \/ \E d \in 1..Devices : D!Collect(d)
    PROVE  ReadInv'
  <1> USE DEF ReadInv, ReadTypes, D!TypeOK, D!tokenVars
  <1>1. CASE D!Submit
    <2>1. ReadTypes'
      BY <1>1, ReadBounds DEF D!Submit
    <2> QED
      BY <1>1, <2>1, ReadingStops DEF D!Submit
  <1>2. CASE D!Stop
    BY <1>2, ReadingStops DEF D!Stop
  <1>3. CASE D!Done
    BY <1>3, ReadingStops DEF D!Done
  <1>4. CASE D!RequestCancel
    BY <1>4, ReadingStops DEF D!RequestCancel
  <1>5. ASSUME NEW d \in 1..Devices, D!Collect(d) PROVE ReadInv'
    <2>1. ReadTypes'
      BY <1>5 DEF D!Collect, D!control
    <2> QED
      BY <1>5, <2>1, ReadingStops DEF D!Collect
  <1> QED
    BY <1>1, <1>2, <1>3, <1>4, <1>5

\* What the provider does: the token that was accepted is so no longer.
LEMMA DropStep == ASSUME ReadInv, D!Drop PROVE ReadInv'
  <1>1. live \in Nat /\ live' \in Nat /\ live <= live' /\ live' \in 1..(issued + 1)
    BY DEF D!Drop, ReadInv, ReadTypes, D!TypeOK
  <1>2. ReadTypes'
    <2>1. expired' \in BOOLEAN
      BY DEF D!Drop, ReadInv, ReadTypes
    <2> QED
      BY <1>1, <2>1 DEF D!Drop, ReadInv, ReadTypes, D!TypeOK, D!control
  <1>3. ReadersOK(worker, unavailable, late, live')
    BY <1>1 DEF ReadInv, ReadersOK, RejectedAsk, ReaderRow
  <1>4. Exchanges(issued, renewals', Spent(token, expired', live'))
    BY <1>1 DEF D!Drop, ReadInv, ReadTypes, D!TypeOK, Exchanges, Spent
  <1> QED
    BY <1>2, <1>3, <1>4 DEF D!Drop, ReadInv

----------------------------------------------------------------------------
(* One reader *)

\* The reader is done with its section: with the device, or it looks at the next.
LEMMA Advances ==
    ASSUME ReadTypes, NEW w \in Readers, D!Advance(w)
    PROVE  /\ \E r \in ReaderRow : worker' = [worker EXCEPT ![w] = r] /\ r.at \in {"idle", "check"}
           /\ detail' \in [1..Devices -> {"waiting", "answered", "failing", "read", "failed"}]
  <1> USE DEF ReadTypes, D!TypeOK
  <1>1. worker[w] \in ReaderRow
    BY DEF ReaderRow
  <1>2. worker[w].of \in {"assets", "lifecycle", "status", "maintenance"}
    BY DEF D!Optional
  <1>3. D!Idle \in ReaderRow /\ D!Idle.at = "idle"
    BY ReadBounds DEF D!Idle, ReaderRow, D!Places
  <1>4. CASE worker' = [worker EXCEPT ![w] = D!Idle]
    BY <1>3, <1>4 DEF D!Advance
  <1>5. CASE worker' # [worker EXCEPT ![w] = D!Idle]
    <2>1. PICK s \in {"lifecycle", "status", "maintenance"} :
              worker' = [worker EXCEPT ![w] = [@ EXCEPT !.of = s, !.at = "check", !.mine = 0, !.tries = 0]]
      BY <1>2, <1>5 DEF D!Advance, D!Following
    <2> DEFINE r == [worker[w] EXCEPT !.of = s, !.at = "check", !.mine = 0, !.tries = 0]
    <2>0. 0 \in 0..(Attempts - 1)
      BY ReadBounds
    <2>2. r \in ReaderRow /\ r.at = "check"
      BY <1>1, <2>0 DEF ReaderRow, D!Optional, D!Places
    <2>3. worker' = [worker EXCEPT ![w] = r]
      BY <2>1
    <2>4. detail' = detail
      BY <1>5 DEF D!Advance
    <2> QED
      BY <2>2, <2>3, <2>4
  <1> QED
    BY <1>4, <1>5

\* The read of a section ends: what is left of the reader, and of the endpoint.
LEMMA Ends ==
    ASSUME ReadInv, NEW w \in Readers,
           \/ D!Advance(w) /\ UNCHANGED unavailable
           \/ \E refused \in BOOLEAN : D!Failed(w, refused)
    PROVE  /\ \E r \in ReaderRow : worker' = [worker EXCEPT ![w] = r] /\ r.at \in {"idle", "check"}
           /\ unavailable \subseteq unavailable' /\ unavailable' \subseteq D!Optional
           /\ detail' \in [1..Devices -> {"waiting", "answered", "failing", "read", "failed"}]
  <1>1. ReadTypes /\ unavailable \subseteq D!Optional
    BY DEF ReadInv, ReadersOK
  <1>2. CASE D!Advance(w) /\ UNCHANGED unavailable
    BY <1>1, <1>2, Advances
  <1>3. ASSUME NEW refused \in BOOLEAN, D!Failed(w, refused), worker[w].of = "assets"
        PROVE  /\ worker' = [worker EXCEPT ![w] = D!Idle] /\ UNCHANGED unavailable
               /\ D!Idle \in ReaderRow /\ D!Idle.at = "idle"
               /\ detail' \in [1..Devices -> {"waiting", "answered", "failing", "read", "failed"}]
    <2>1. D!Idle \in ReaderRow /\ D!Idle.at = "idle"
      BY ReadBounds DEF D!Idle, ReaderRow, D!Places
    <2> QED
      BY <1>1, <1>3, <2>1 DEF D!Failed, ReadTypes, D!TypeOK
  <1>4. ASSUME NEW refused \in BOOLEAN, D!Failed(w, refused), worker[w].of # "assets"
        PROVE  /\ D!Advance(w) /\ unavailable \subseteq unavailable'
               /\ unavailable' \subseteq D!Optional
    <2>1. worker[w].of \in D!Optional
      BY <1>1, <1>4 DEF ReadTypes, D!TypeOK
    <2> QED
      BY <1>1, <1>4, <2>1 DEF D!Failed
  <1>5. ASSUME NEW refused \in BOOLEAN, D!Failed(w, refused), worker[w].of # "assets"
        PROVE  /\ \E r \in ReaderRow : worker' = [worker EXCEPT ![w] = r] /\ r.at \in {"idle", "check"}
               /\ unavailable \subseteq unavailable' /\ unavailable' \subseteq D!Optional
               /\ detail' \in [1..Devices -> {"waiting", "answered", "failing", "read", "failed"}]
    BY <1>1, <1>4, <1>5, Advances
  <1> QED
    BY <1>1, <1>2, <1>3, <1>5

\* A read that ends without a request, or with one.
LEMMA EndsUnasked ==
    ASSUME ReadInv, NEW w \in Readers, UNCHANGED <<late, live>>,
           \/ D!Advance(w) /\ UNCHANGED unavailable
           \/ \E refused \in BOOLEAN : D!Failed(w, refused)
    PROVE  /\ ReadersOK(worker', unavailable', late', live')
           /\ detail' \in [1..Devices -> {"waiting", "answered", "failing", "read", "failed"}]
  <1>1. /\ unavailable \subseteq unavailable' /\ unavailable' \subseteq D!Optional
        /\ detail' \in [1..Devices -> {"waiting", "answered", "failing", "read", "failed"}]
    BY Ends
  <1>2. PICK r \in ReaderRow : worker' = [worker EXCEPT ![w] = r] /\ r.at \in {"idle", "check"}
    BY Ends
  <1>3. ~Holds(r) /\ r.at # "renew" /\ \A s \in D!Optional : ~OnTheWay(r, s)
    BY <1>2 DEF Holds, OnTheWay, Requesting
  <1> QED
    BY <1>1, <1>2, <1>3, SendsNothing DEF ReadInv

LEMMA EndsAnswered ==
    ASSUME ReadInv, NEW w \in Readers, worker[w].at \in {"send", "replay"}, D!Counted(w),
           live' = live,
           \/ D!Advance(w) /\ UNCHANGED unavailable
           \/ \E refused \in BOOLEAN : D!Failed(w, refused)
    PROVE  /\ ReadersOK(worker', unavailable', late', live')
           /\ detail' \in [1..Devices -> {"waiting", "answered", "failing", "read", "failed"}]
  <1>1. /\ unavailable \subseteq unavailable' /\ unavailable' \subseteq D!Optional
        /\ detail' \in [1..Devices -> {"waiting", "answered", "failing", "read", "failed"}]
    BY Ends
  <1>2. PICK r \in ReaderRow : worker' = [worker EXCEPT ![w] = r] /\ r.at \in {"idle", "check"}
    BY Ends
  <1>3. ~Holds(r) /\ r.at # "renew" /\ \A s \in D!Optional : ~OnTheWay(r, s)
    BY <1>2 DEF Holds, OnTheWay, Requesting
  <1>4. ReadersOK(worker, unavailable, late, live)
    BY DEF ReadInv
  <1>5. /\ late' \in [Readers \X D!Optional -> Nat]
        /\ \A v \in Readers, s \in D!Optional : v # w => late'[<<v, s>>] = late[<<v, s>>]
    BY <1>4, RequestCounts
  <1>6. \A s \in D!Optional : /\ s \notin unavailable' => late'[<<w, s>>] = 0
                              /\ late'[<<w, s>>] <= AtMost(r, s)
    <2>1. \A s \in D!Optional : /\ s \notin unavailable => late'[<<w, s>>] = 0
                                /\ late'[<<w, s>>] <= 2 * Attempts
      BY <1>4, RequestCounts
    <2> QED
      BY <1>1, <1>3, <2>1 DEF AtMost
  <1> QED
    BY <1>1, <1>2, <1>3, <1>4, <1>5, <1>6, ReaderMoves

\* A reader goes on without a word from the provider.
LEMMA ReaderStep ==
    ASSUME ReadInv, NEW w \in Readers, D!Take(w) \/ D!Check(w) \/ D!PassGate(w)
    PROVE  ReadInv'
  <1> USE DEF ReadInv, ReadTypes, D!TypeOK, D!tokenVars, D!control
  <1>0. worker[w] \in ReaderRow
    BY DEF ReaderRow
  <1>1. CASE D!Take(w)
    <2>1. PICK d \in 1..Devices : worker' = [worker EXCEPT ![w] =
              [device |-> d, of |-> "assets", at |-> "token", mine |-> 0,
               tries |-> 0]]
      <3> DEFINE free == {d \in 1..submitted : /\ detail[d] = "waiting"
                                               /\ \A v \in Readers : worker[v].device # d}
      <3>1. free # {} /\ free \subseteq 1..submitted /\ submitted \in Nat
        BY <1>1, ReadBounds DEF D!Take
      <3>2. PICK m \in free : \A e \in free : m <= e
        <4> HIDE DEF free
        <4> QED
          BY <3>1, LeastNumber
      <3>3. (CHOOSE d \in free : \A e \in free : d <= e) \in 1..Devices
        <4>1. (CHOOSE d \in free : \A e \in free : d <= e) \in free
          BY <3>2
        <4> QED
          BY <3>1, <4>1, ReadBounds
      <3> QED
        BY <1>1, <3>3 DEF D!Take
    <2> DEFINE r == [device |-> d, of |-> "assets", at |-> "token", mine |-> 0,
               tries |-> 0]
    <2>2. r \in ReaderRow /\ ~Holds(r) /\ r.at # "renew"
      BY <2>1, ReadBounds DEF ReaderRow, Holds, D!Optional, D!Places
    <2>3. \A s \in D!Optional : ~OnTheWay(r, s)
      BY DEF OnTheWay, D!Optional
    <2>4. UNCHANGED <<full, detail, unavailable, D!tokenVars, late, submitted, cancel, outcome>>
      BY <1>1 DEF D!Take
    <2>5. ReadersOK(worker', unavailable', late', live')
      BY <2>1, <2>2, <2>3, <2>4, SendsNothing
    <2>6. ReadTypes'
      BY <2>4, <2>5 DEF ReadersOK, ReaderRow
    <2> QED
      BY <2>4, <2>5, <2>6
  <1>2. CASE D!Check(w) /\ worker[w].of \in unavailable
    <2>1. D!Advance(w) /\ UNCHANGED <<full, unavailable, D!tokenVars, late, submitted, cancel, outcome>>
      BY <1>2 DEF D!Check, D!IsUnavailable
    <2>2. PICK r \in ReaderRow : worker' = [worker EXCEPT ![w] = r] /\ r.at \in {"idle", "check"}
      BY <2>1, Advances
    <2>3. ~Holds(r) /\ r.at # "renew" /\ \A s \in D!Optional : ~OnTheWay(r, s)
      BY <2>2 DEF Holds, OnTheWay, Requesting
    <2>4. ReadersOK(worker', unavailable', late', live')
      BY <2>1, <2>2, <2>3, SendsNothing
    <2>5. ReadTypes'
      BY <2>1, <2>4, Advances DEF ReadersOK, ReaderRow
    <2> QED
      BY <2>1, <2>4, <2>5
  <1>3. CASE D!Check(w) /\ worker[w].of \notin unavailable
    <2>1. UNCHANGED <<full, detail, unavailable, D!tokenVars, late, submitted, cancel, outcome>>
      BY <1>3 DEF D!Check, D!IsUnavailable
    <2>2. PICK place \in {"gate", "token"} :
              /\ worker' = [worker EXCEPT ![w].at = place]
              /\ worker[w].of = "lifecycle" => place = "gate"
      BY <1>3 DEF D!Check, D!IsUnavailable, D!At
    <2> DEFINE r == [worker[w] EXCEPT !.at = place]
    <2>3. r \in ReaderRow /\ r.at = place /\ r.of = worker[w].of
      BY <1>0 DEF ReaderRow, D!Places
    <2>4. ~Holds(r) /\ r.at # "renew"
      BY <2>2, <2>3 DEF Holds, Requesting
    <2>5. \A s \in D!Optional : OnTheWay(r, s) => s \notin unavailable
      BY <1>3, <2>3 DEF OnTheWay
    <2>6. ReadersOK(worker', unavailable', late', live')
      BY <2>1, <2>2, <2>3, <2>4, <2>5, SendsNothing
    <2>7. ReadTypes'
      BY <2>1, <2>6 DEF ReadersOK, ReaderRow
    <2> QED
      BY <2>1, <2>6, <2>7
  <1>4. CASE D!PassGate(w)
    <2>1. UNCHANGED <<full, detail, unavailable, D!tokenVars, late, submitted, cancel, outcome>>
      BY <1>4 DEF D!PassGate
    <2> DEFINE r == [worker[w] EXCEPT !.at = "token"]
    <2>2. worker' = [worker EXCEPT ![w] = r]
      BY <1>4 DEF D!PassGate, D!At
    <2>3. r \in ReaderRow /\ r.at = "token" /\ r.of = worker[w].of
      BY <1>0 DEF ReaderRow, D!Places
    <2>4. \A v \in Readers : ~Holds(worker[v])
      BY <1>4 DEF D!PassGate, D!HoldsGate, Holds, Requesting
    <2>5. \A s \in D!Optional : OnTheWay(r, s) =>
              OnTheWay(worker[w], s) /\ Sent(worker[w]) <= Sent(r)
      BY <1>4, <2>3 DEF OnTheWay, Sent, D!PassGate
    <2>6. ReadersOK(worker', unavailable', late', live')
      BY <2>1, <2>2, <2>3, <2>4, <2>5, SendsNothing
    <2>7. ReadTypes'
      BY <2>1, <2>6 DEF ReadersOK, ReaderRow
    <2> QED
      BY <2>1, <2>6, <2>7
  <1> QED
    BY <1>1, <1>2, <1>3, <1>4 DEF D!Check

\* A reader stays with its section, at another place and with another token.
LEMMA Stays ==
    ASSUME ReadInv, NEW w \in Readers,
           NEW place \in Requesting, place # "renew", NEW t \in Nat,
           \/ worker[w].at = "token" /\ place = "send"
           \/ worker[w].at = "renew" /\ place = "replay",
           worker' = [worker EXCEPT ![w].at = place, ![w].mine = t],
           UNCHANGED <<unavailable, late, live>>
    PROVE  ReadersOK(worker', unavailable', late', live')
  <1> DEFINE r == [worker[w] EXCEPT !.at = place, !.mine = t]
  <1>1. worker[w] \in ReaderRow /\ worker \in [Readers -> ReaderRow]
    BY DEF ReadInv, ReadersOK
  <1>2. r \in ReaderRow /\ r.at = place /\ r.of = worker[w].of /\ r.tries = worker[w].tries
    BY <1>1 DEF ReaderRow, Requesting, D!Places
  <1>3. worker' = [worker EXCEPT ![w] = r]
    BY <1>1
  <1>4. Holds(r) => Holds(worker[w])
    BY <1>2 DEF Holds, Requesting
  <1>5. Sent(worker[w]) <= Sent(r)
    <2>1. r.tries \in 0..(Attempts - 1)
      BY <1>2 DEF ReaderRow
    <2> HIDE DEF r
    <2> QED
      BY <1>2, <2>1, ReadBounds DEF Sent
  <1>6. \A s \in D!Optional : OnTheWay(r, s) => OnTheWay(worker[w], s)
    BY <1>2 DEF OnTheWay, Requesting
  <1>7. ReadersOK(worker, unavailable, late, live) /\ unavailable \subseteq D!Optional
    BY DEF ReadInv, ReadersOK
  <1> HIDE DEF r
  <1> QED
    BY <1>2, <1>3, <1>4, <1>5, <1>6, <1>7, SendsNothing

\* A request after which the reader stays with its section: the next attempt, or a token.
LEMMA StaysAnswered ==
    ASSUME ReadInv, NEW w \in Readers, worker[w].at \in {"send", "replay"}, D!Counted(w),
           NEW r \in ReaderRow, worker' = [worker EXCEPT ![w] = r],
           r.of = worker[w].of, r.at \in Requesting, Sent(worker[w]) + 1 <= Sent(r),
           r.at = "renew" => r.mine < live,
           UNCHANGED <<unavailable, live>>
    PROVE  ReadersOK(worker', unavailable', late', live')
  <1>1. ReadersOK(worker, unavailable, late, live) /\ unavailable \subseteq D!Optional
        /\ worker[w] \in ReaderRow
    BY DEF ReadInv, ReadersOK
  <1>2. /\ late' \in [Readers \X D!Optional -> Nat]
        /\ \A v \in Readers, s \in D!Optional : v # w => late'[<<v, s>>] = late[<<v, s>>]
    BY <1>1, RequestCounts
  <1>3. Holds(r) => Holds(worker[w])
    BY DEF Holds, Requesting
  <1>4. ASSUME NEW s \in D!Optional
        PROVE  /\ s \notin unavailable' => late'[<<w, s>>] = 0
               /\ late'[<<w, s>>] <= AtMost(r, s)
    <2>1. /\ s \notin unavailable => late'[<<w, s>>] = 0
          /\ late'[<<w, s>>] <= 2 * Attempts
          /\ OnTheWay(worker[w], s) => late'[<<w, s>>] <= Sent(worker[w]) + 1
      BY <1>1, RequestCounts
    <2>2. OnTheWay(r, s) => OnTheWay(worker[w], s)
      BY DEF OnTheWay, Requesting
    <2>3. late'[<<w, s>>] \in Nat /\ Sent(r) \in Nat /\ Sent(worker[w]) \in Nat
      BY <1>1, <1>2, SentBounds
    <2> QED
      BY <2>1, <2>2, <2>3, ReadBounds DEF AtMost
  <1> QED
    BY <1>1, <1>2, <1>3, <1>4, ReaderMoves

\* The rest of the invariant, when the readers are as they should be.
LEMMA ReadersLeave ==
    ASSUME ReadInv, ReadersOK(worker', unavailable', late', live'),
           detail' \in [1..Devices -> {"waiting", "answered", "failing", "read", "failed"}],
           token' \in 0..issued', live' \in 1..(issued' + 1), issued' \in Nat, renewals' \in Nat,
           expired' \in BOOLEAN, Exchanges(issued', renewals', Spent(token', expired', live')),
           UNCHANGED <<full, D!control>>
    PROVE  ReadInv'
  <1>1. D!TypeOK'
    BY DEF ReadInv, ReadTypes, D!TypeOK, D!control, ReadersOK, ReaderRow
  <1>2. full' \in BOOLEAN /\ cancel' \in BOOLEAN
    BY DEF ReadInv, ReadTypes, D!control
  <1> QED
    BY <1>1, <1>2 DEF ReadInv, ReadTypes

LEMMA TokenStep ==
    ASSUME ReadInv, NEW w \in Readers, D!TakeToken(w)
    PROVE  ReadInv'
  <1>0. /\ token \in 0..issued /\ live \in 1..(issued + 1) /\ issued \in Nat /\ renewals \in Nat
        /\ expired \in BOOLEAN /\ Exchanges(issued, renewals, Spent(token, expired, live))
        /\ detail \in [1..Devices -> {"waiting", "answered", "failing", "read", "failed"}]
        /\ worker[w] \in ReaderRow /\ worker \in [Readers -> ReaderRow]
    BY DEF ReadInv, ReadTypes, D!TypeOK, ReaderRow
  <1>1. ASSUME worker[w].at = "token", UNCHANGED <<full, late, D!control>>, token # 0, ~expired,
               worker' = [worker EXCEPT ![w].at = "send", ![w].mine = token],
               UNCHANGED <<detail, unavailable, D!tokenVars>>
        PROVE  ReadInv'
    <2>0. /\ token \in Nat /\ "send" \in Requesting
          /\ UNCHANGED <<unavailable, late, live>>
      BY <1>0, <1>1 DEF Requesting, D!tokenVars
    <2>1. ReadersOK(worker', unavailable', late', live')
      BY <1>1, <2>0, Stays
    <2> QED
      BY <1>0, <1>1, <2>1, ReadersLeave DEF D!tokenVars
  <1>2. ASSUME worker[w].at = "token", UNCHANGED <<full, late, D!control>>, token = 0 \/ expired,
               D!Exchanged, worker' = [worker EXCEPT ![w].at = "send", ![w].mine = issued + 1],
               UNCHANGED <<detail, unavailable, live, renewals>>
        PROVE  ReadInv'
    <2>1. issued + 1 \in Nat
      BY <1>0
    <2>2. ReadersOK(worker', unavailable', late', live')
      BY <1>0, <1>2, <2>1, Stays DEF Requesting
    <2>3. Exchanges(issued', renewals', Spent(token', expired', live'))
      BY <1>0, <1>2 DEF D!Exchanged, Exchanges, Spent
    <2>4. token' \in 0..issued' /\ live' \in 1..(issued' + 1) /\ issued' \in Nat
      BY <1>0, <1>2 DEF D!Exchanged
    <2>5. expired' \in BOOLEAN
      BY <1>2 DEF D!Exchanged
    <2> QED
      BY <1>0, <1>2, <2>2, <2>3, <2>4, <2>5, ReadersLeave
  <1>3. ASSUME UNCHANGED <<full, late, D!control, D!tokenVars>>,
               \E refused \in BOOLEAN : D!Failed(w, refused)
        PROVE  ReadInv'
    <2>1. live' = live
      BY <1>3 DEF D!tokenVars
    <2>2. /\ ReadersOK(worker', unavailable', late', live')
          /\ detail' \in [1..Devices -> {"waiting", "answered", "failing", "read", "failed"}]
      BY <1>3, <2>1, EndsUnasked
    <2> QED
      BY <1>0, <1>3, <2>2, ReadersLeave DEF D!tokenVars
  <1> QED
    BY <1>1, <1>2, <1>3 DEF D!TakeToken

LEMMA RequestStep ==
    ASSUME ReadInv, NEW w \in Readers, D!Send(w) \/ D!Replay(w)
    PROVE  ReadInv'
  <1>0. /\ token \in 0..issued /\ live \in 1..(issued + 1) /\ issued \in Nat /\ renewals \in Nat
        /\ expired \in BOOLEAN /\ Exchanges(issued, renewals, Spent(token, expired, live))
        /\ detail \in [1..Devices -> {"waiting", "answered", "failing", "read", "failed"}]
        /\ worker[w] \in ReaderRow /\ worker \in [Readers -> ReaderRow]
    BY DEF ReadInv, ReadTypes, D!TypeOK, ReaderRow
  <1>1. /\ worker[w].at \in {"send", "replay"} /\ D!Counted(w)
        /\ UNCHANGED <<full, D!tokenVars, D!control>> /\ live' = live
    BY DEF D!Send, D!Replay, D!tokenVars
  <1>2. ASSUME D!Answer(w) PROVE ReadInv'
    <2>1. \/ D!Advance(w) /\ UNCHANGED unavailable
          \/ \E refused \in BOOLEAN : D!Failed(w, refused)
      BY <1>2 DEF D!Answer
    <2>2. /\ ReadersOK(worker', unavailable', late', live')
          /\ detail' \in [1..Devices -> {"waiting", "answered", "failing", "read", "failed"}]
      BY <1>1, <2>1, EndsAnswered
    <2> QED
      BY <1>0, <1>1, <2>2, ReadersLeave DEF D!tokenVars
  <1>3. ASSUME D!Retry(w) PROVE ReadInv'
    <2> DEFINE r == [worker[w] EXCEPT !.tries = @ + 1]
    <2>1. worker' = [worker EXCEPT ![w] = r] /\ UNCHANGED <<detail, unavailable>>
      BY <1>0, <1>3 DEF D!Retry
    <2>2. worker[w].tries \in 0..(Attempts - 1) /\ worker[w].tries + 1 < Attempts
      BY <1>0, <1>3 DEF D!Retry, ReaderRow
    <2>3. worker[w].tries + 1 \in 0..(Attempts - 1)
      BY <2>2, ReadBounds
    <2>4. /\ r \in ReaderRow /\ r.of = worker[w].of /\ r.at = worker[w].at
          /\ r.tries = worker[w].tries + 1
      BY <1>0, <2>3 DEF ReaderRow
    <2>5. Sent(worker[w]) + 1 <= Sent(r)
      <3> HIDE DEF r
      <3> QED
        BY <1>1, <2>2, <2>4, ReadBounds DEF Sent
    <2>6. r.at \in Requesting /\ r.at # "renew"
      BY <1>1, <2>4 DEF Requesting
    <2>7. ReadersOK(worker', unavailable', late', live')
      <3> HIDE DEF r
      <3> QED
        BY <1>1, <2>1, <2>4, <2>5, <2>6, StaysAnswered
    <2> QED
      BY <1>0, <1>1, <2>1, <2>7, ReadersLeave DEF D!tokenVars
  <1>4. ASSUME D!Send(w), ~D!Accepted(w), UNCHANGED <<detail, unavailable>>,
               worker' = [worker EXCEPT ![w].at = "renew", ![w].tries = 0]
        PROVE  ReadInv'
    <2> DEFINE r == [worker[w] EXCEPT !.at = "renew", !.tries = 0]
    <2>0. 0 \in 0..(Attempts - 1)
      BY ReadBounds
    <2>1. worker' = [worker EXCEPT ![w] = r]
      BY <1>0, <1>4
    <2>2. r \in ReaderRow /\ r.at = "renew" /\ r.mine = worker[w].mine /\ r.of = worker[w].of
      BY <1>0, <2>0 DEF ReaderRow, D!Places
    <2>3. r.mine < live
      BY <1>0, <1>4, <2>2 DEF ReaderRow, D!Accepted
    <2>4. Sent(worker[w]) + 1 <= Sent(r)
      <3>1. worker[w].at = "send"
        BY <1>4 DEF D!Send
      <3>2. Sent(worker[w]) + 1 <= Attempts
        BY <1>0, <3>1, SentBounds
      <3> QED
        BY <2>2, <3>2 DEF Sent
    <2>5. r.at \in Requesting
      BY <2>2 DEF Requesting
    <2>6. ReadersOK(worker', unavailable', late', live')
      <3> HIDE DEF r
      <3> QED
        BY <1>1, <1>4, <2>1, <2>2, <2>3, <2>4, <2>5, StaysAnswered
    <2> QED
      BY <1>0, <1>1, <1>4, <2>6, ReadersLeave DEF D!tokenVars
  <1> QED
    BY <1>2, <1>3, <1>4 DEF D!Send, D!Replay

LEMMA RenewStep == ASSUME ReadInv, NEW w \in Readers, D!Renew(w) PROVE ReadInv'
  <1>0. /\ token \in 0..issued /\ live \in 1..(issued + 1) /\ issued \in Nat /\ renewals \in Nat
        /\ expired \in BOOLEAN /\ Exchanges(issued, renewals, Spent(token, expired, live))
        /\ detail \in [1..Devices -> {"waiting", "answered", "failing", "read", "failed"}]
        /\ worker[w] \in ReaderRow
    BY DEF ReadInv, ReadTypes, D!TypeOK, ReaderRow
  <1>1. worker[w].at = "renew" /\ worker[w].mine < live /\ UNCHANGED <<full, late, D!control>>
    BY DEF D!Renew, ReadInv, ReadersOK, RejectedAsk
  <1>2. ASSUME worker' = [worker EXCEPT ![w].at = "replay", ![w].mine = token],
               UNCHANGED <<detail, unavailable, D!tokenVars>>
        PROVE  ReadInv'
    <2>0. /\ token \in Nat /\ "replay" \in Requesting
          /\ UNCHANGED <<unavailable, late, live>>
      BY <1>0, <1>1, <1>2 DEF Requesting, D!tokenVars
    <2>1. ReadersOK(worker', unavailable', late', live')
      BY <1>1, <1>2, <2>0, Stays
    <2> QED
      BY <1>0, <1>1, <1>2, <2>1, ReadersLeave DEF D!tokenVars
  <1>3. ASSUME D!MayRenew(w), D!Exchanged,
               worker' = [worker EXCEPT ![w].at = "replay", ![w].mine = issued + 1],
               UNCHANGED <<detail, unavailable, live, renewals>>
        PROVE  ReadInv'
    <2>1. issued + 1 \in Nat /\ Spent(token, expired, live)
      BY <1>0, <1>1, <1>3 DEF D!MayRenew, Spent
    <2>2. ReadersOK(worker', unavailable', late', live')
      BY <1>0, <1>1, <1>3, <2>1, Stays DEF Requesting
    <2>3. Exchanges(issued', renewals', Spent(token', expired', live'))
      BY <1>0, <1>3, <2>1 DEF D!Exchanged, Exchanges, Spent
    <2>4. token' \in 0..issued' /\ live' \in 1..(issued' + 1) /\ issued' \in Nat
      BY <1>0, <1>3 DEF D!Exchanged
    <2>5. expired' \in BOOLEAN
      BY <1>3 DEF D!Exchanged
    <2> QED
      BY <1>0, <1>1, <1>3, <2>2, <2>3, <2>4, <2>5, ReadersLeave
  <1>4. ASSUME D!MayRenew(w), token' = 0, expired' = TRUE,
               \E refused \in BOOLEAN : D!Failed(w, refused), UNCHANGED <<issued, live, renewals>>
        PROVE  ReadInv'
    <2>1. Spent(token, expired, live)
      BY <1>0, <1>1, <1>4 DEF D!MayRenew, Spent
    <2>2. /\ ReadersOK(worker', unavailable', late', live')
          /\ detail' \in [1..Devices -> {"waiting", "answered", "failing", "read", "failed"}]
      BY <1>1, <1>4, EndsUnasked
    <2>3. Exchanges(issued', renewals', Spent(token', expired', live'))
      BY <1>0, <1>4, <2>1 DEF Exchanges
    <2>4. token' \in 0..issued' /\ expired' \in BOOLEAN
      BY <1>0, <1>4
    <2> QED
      BY <1>0, <1>1, <1>4, <2>2, <2>3, <2>4, ReadersLeave
  <1> QED
    BY <1>2, <1>3, <1>4 DEF D!Renew

LEMMA ReadNext == ASSUME ReadInv, [D!Next]_(D!vars) PROVE ReadInv'
  <1>1. CASE UNCHANGED D!vars
    BY <1>1 DEF ReadInv, ReadTypes, D!TypeOK, D!vars
  <1>2. CASE D!Next
    BY <1>2, PoolStep, DropStep, ReaderStep, TokenStep, RequestStep, RenewStep DEF D!Next
  <1> QED
    BY <1>1, <1>2

LEMMA Spared == ASSUME ReadInv PROVE ProviderIsSpared
  <1>1. /\ \A w \in Readers : D!HoldsGate(w) <=> Holds(worker[w])
        /\ \A S : D!Cardinality(S) = Cardinality(S)
    BY DEF D!HoldsGate, Holds, Requesting, D!Cardinality, Cardinality
  <1>2. Cardinality({w \in Readers : D!HoldsGate(w)}) <= 1
    <2> DEFINE holders == {w \in Readers : D!HoldsGate(w)}
    <2>1. CASE holders = {}
      BY <2>1, FS_EmptySet
    <2>2. CASE holders # {}
      <3>1. PICK w \in holders : TRUE
        BY <2>2
      <3>2. holders = {w}
        BY <1>1, <3>1 DEF ReadInv, ReadersOK, OneHolds
      <3>3. Cardinality({w}) = 1
        BY FS_Singleton
      <3> QED
        BY <3>2, <3>3
    <2> QED
      BY <2>1, <2>2
  <1>3. ASSUME NEW w \in Readers, NEW s \in D!Optional PROVE late[<<w, s>>] <= 2 * Attempts
    <2>1. /\ worker[w] \in ReaderRow /\ late[<<w, s>>] \in Nat
          /\ late[<<w, s>>] <= AtMost(worker[w], s)
      BY DEF ReadInv, ReadersOK, FewLate
    <2> QED
      BY <2>1, SentBounds, ReadBounds
  <1> QED
    BY <1>1, <1>2, <1>3 DEF ReadInv, Exchanges, ProviderIsSpared, D!ProviderIsSpared

----------------------------------------------------------------------------
(* The customers a provider lists *)

Locking == {"upsert", "sweep", "map", "unmap"}

TaskRow ==
    {C!Idle}
    \cup [pc : {"found"}, run : 1..MaxRuns, found : SUBSET Companies]
    \cup [pc : {"filtered"}, run : 1..MaxRuns, items : SUBSET Companies]
    \cup [pc : {"upsert"}, run : 1..MaxRuns, items : SUBSET Companies, left : SUBSET Companies,
          swept : SUBSET Companies]
    \cup [pc : {"sweep"}, run : 1..MaxRuns, items : SUBSET Companies, left : SUBSET Companies,
          swept : SUBSET Companies, targets : SUBSET Companies, late : SUBSET Companies]
    \cup [pc : {"map"}, company : Companies, to : Customers]
    \cup [pc : {"unmap"}, company : Companies, read : Customers, raced : BOOLEAN]

KnownIn(observed) == {c \in Companies : observed[c].run # 0}

\* Whoever works under the lock of its replica holds it, and nobody else does.
LockFollows(locks, tasks) ==
    /\ \A w \in Workers : tasks[w].pc \in Locking => locks[Home[w]] = w
    /\ \A r \in Replicas : locks[r] # C!None =>
          locks[r] \in Workers /\ Home[locks[r]] = r /\ tasks[locks[r]].pc \in Locking

\* A sweep takes every row that was there when it began, and the history holds the others.
SweepSees(observed, t) ==
    t.pc = "sweep" =>
        /\ t.targets \cup t.swept \subseteq KnownIn(observed) \ t.items
        /\ t.late \cap (t.targets \cup t.swept) = {}
        /\ KnownIn(observed) \ t.items \subseteq t.targets \cup t.swept \cup t.late

ActiveIsKnown(observed) == \A c \in Companies : observed[c].active => observed[c].run # 0

\* The mapping that is removed is the one that was read; but for another replica.
ReadStands(mapped, t) ==
    t.pc = "unmap" => t.raced \/ t.read = mapped[t.company] \/ mapped[t.company] = C!None

CompanyTypes ==
    /\ offered \subseteq Companies /\ excluded \subseteq Companies
    /\ rows \in [Companies -> [run : 0..MaxRuns, active : BOOLEAN]]
    /\ mapping \in [Companies -> Customers \cup {C!None}]
    /\ lock \in [Replicas -> Workers \cup {C!None}]
    /\ task \in [Workers -> TaskRow]
    /\ runs \in 0..MaxRuns /\ edits \in 0..MaxEdits

CompanyInv ==
    /\ CompanyTypes
    /\ LockFollows(lock, task)
    /\ ActiveIsKnown(rows)
    /\ \A w \in Workers : SweepSees(rows, task[w]) /\ ReadStands(mapping, task[w])

LEMMA CompanyBounds ==
    /\ C!None \notin Workers /\ C!None \notin Customers /\ Home \in [Workers -> Replicas]
    /\ MaxRuns \in Nat /\ MaxEdits \in Nat
  BY ProviderAssumption DEF C!CompanyAssumption

\* What the rows of a task are, by its place.
LEMMA TaskShape ==
    ASSUME NEW t \in TaskRow
    PROVE  /\ t.pc \in {"idle", "found", "filtered"} \cup Locking
           /\ t.pc = "idle" <=> t = C!Idle
           /\ t.pc = "found" => t.run \in 1..MaxRuns /\ t.found \subseteq Companies
           /\ t.pc \in {"filtered", "upsert", "sweep"} => t.run \in 1..MaxRuns /\ t.items \subseteq Companies
           /\ t.pc \in {"upsert", "sweep"} => t.left \subseteq Companies /\ t.swept \subseteq Companies
           /\ t.pc = "sweep" => t.targets \subseteq Companies /\ t.late \subseteq Companies
           /\ t.pc = "map" => t.company \in Companies /\ t.to \in Customers
           /\ t.pc = "unmap" => t.company \in Companies /\ t.read \in Customers /\ t.raced \in BOOLEAN
  BY DEF TaskRow, C!Idle, Locking

LEMMA CompanyInit == C!Init => CompanyInv
  <1> SUFFICES ASSUME C!Init PROVE CompanyInv
    OBVIOUS
  <1> USE CompanyBounds DEF C!Init
  <1>1. CompanyTypes
    BY DEF CompanyTypes, TaskRow
  <1>2. LockFollows(lock, task) /\ ActiveIsKnown(rows)
    BY DEF LockFollows, ActiveIsKnown, Locking, C!Idle
  <1>3. ASSUME NEW w \in Workers PROVE SweepSees(rows, task[w]) /\ ReadStands(mapping, task[w])
    BY DEF SweepSees, ReadStands, C!Idle
  <1> QED
    BY <1>1, <1>2, <1>3 DEF CompanyInv

\* One task goes on to row t, and neither rows nor mappings change.
LEMMA TaskMoves ==
    ASSUME CompanyInv, NEW w \in Workers, NEW t \in TaskRow, task' = [task EXCEPT ![w] = t],
           UNCHANGED <<rows, mapping>>, CompanyTypes',
           \/ lock' = lock /\ (t.pc \in Locking <=> task[w].pc \in Locking)
           \/ lock[Home[w]] = C!None /\ lock' = [lock EXCEPT ![Home[w]] = w] /\ t.pc \in Locking
           \/ /\ task[w].pc \in Locking /\ lock' = [lock EXCEPT ![Home[w]] = C!None]
              /\ t.pc \notin Locking,
           SweepSees(rows, t), ReadStands(mapping, t)
    PROVE  CompanyInv'
  <1>1. task \in [Workers -> TaskRow] /\ lock \in [Replicas -> Workers \cup {C!None}]
        /\ Home[w] \in Replicas
    BY CompanyBounds DEF CompanyInv, CompanyTypes
  <1>2. LockFollows(lock', task')
    BY <1>1, CompanyBounds DEF CompanyInv, LockFollows
  <1>3. ASSUME NEW v \in Workers PROVE SweepSees(rows', task'[v]) /\ ReadStands(mapping', task'[v])
    BY <1>1 DEF CompanyInv
  <1>4. ActiveIsKnown(rows')
    BY DEF CompanyInv
  <1> QED
    BY <1>2, <1>3, <1>4 DEF CompanyInv

LEMMA DiscoveryStep ==
    ASSUME CompanyInv, NEW w \in Workers,
           C!BeginDiscovery(w) \/ C!ApplyFilters(w) \/ C!BeginStore(w) \/ C!BeginSweep(w)
           \/ C!RollBack(w) \/ \E c \in Companies : C!Upsert(w, c) \/ C!Sweep(w, c)
    PROVE  CompanyInv'
  <1>0. CompanyTypes /\ task[w] \in TaskRow /\ Home[w] \in Replicas
    BY CompanyBounds DEF CompanyInv, CompanyTypes
  <1> USE DEF CompanyTypes
  <1>1. CASE C!BeginDiscovery(w)
    <2> DEFINE t == [pc |-> "found", run |-> runs + 1, found |-> offered]
    <2>1. t \in TaskRow /\ runs' \in 0..MaxRuns
      BY <1>0, <1>1, CompanyBounds DEF C!BeginDiscovery, TaskRow
    <2>2. task' = [task EXCEPT ![w] = t] /\ task[w].pc = "idle"
          /\ UNCHANGED <<offered, excluded, rows, mapping, lock, edits>>
      BY <1>1 DEF C!BeginDiscovery, C!Idle
    <2>3. SweepSees(rows, t) /\ ReadStands(mapping, t)
      BY DEF SweepSees, ReadStands
    <2>4. CompanyTypes'
      BY <1>0, <2>1, <2>2
    <2> QED
      BY <2>1, <2>2, <2>3, <2>4, TaskMoves DEF Locking
  <1>2. CASE C!ApplyFilters(w)
    <2> DEFINE t == [pc |-> "filtered", run |-> task[w].run, items |-> task[w].found \ excluded]
    <2>1. t \in TaskRow
      BY <1>0, <1>2, TaskShape DEF C!ApplyFilters, TaskRow
    <2>2. task' = [task EXCEPT ![w] = t] /\ task[w].pc = "found"
          /\ UNCHANGED <<offered, excluded, rows, mapping, lock, runs, edits>>
      BY <1>2 DEF C!ApplyFilters
    <2>3. SweepSees(rows, t) /\ ReadStands(mapping, t)
      BY DEF SweepSees, ReadStands
    <2>4. CompanyTypes'
      BY <1>0, <2>1, <2>2
    <2> QED
      BY <2>1, <2>2, <2>3, <2>4, TaskMoves DEF Locking
  <1>3. CASE C!BeginStore(w)
    <2> DEFINE t == [pc |-> "upsert", run |-> task[w].run, items |-> task[w].items,
                     left |-> task[w].items, swept |-> {}]
    <2>1. t \in TaskRow
      BY <1>0, <1>3, TaskShape DEF C!BeginStore, TaskRow
    <2>2. task' = [task EXCEPT ![w] = t] /\ task[w].pc = "filtered"
          /\ UNCHANGED <<offered, excluded, rows, mapping, runs, edits>>
      BY <1>3 DEF C!BeginStore
    <2>3. SweepSees(rows, t) /\ ReadStands(mapping, t)
      BY DEF SweepSees, ReadStands
    <2>4. lock[Home[w]] = C!None /\ lock' = [lock EXCEPT ![Home[w]] = w] /\ t.pc \in Locking
      BY <1>3 DEF C!BeginStore, Locking
    <2>5. CompanyTypes'
      BY <1>0, <2>1, <2>2, <2>4
    <2> QED
      BY <2>1, <2>2, <2>3, <2>4, <2>5, TaskMoves
  <1>4. CASE C!BeginSweep(w)
    <2> DEFINE t == [pc |-> "sweep", run |-> task[w].run, items |-> task[w].items, left |-> {},
                     swept |-> {}, targets |-> C!Swept(w), late |-> {}]
    <2>0. C!Swept(w) = KnownIn(rows) \ task[w].items
      BY DEF C!Swept, C!Known, KnownIn
    <2>1. t \in TaskRow
      BY <1>0, <1>4, <2>0, TaskShape DEF C!BeginSweep, TaskRow, KnownIn
    <2>2. task' = [task EXCEPT ![w] = t] /\ task[w].pc = "upsert"
          /\ UNCHANGED <<offered, excluded, rows, mapping, lock, runs, edits>>
      BY <1>4 DEF C!BeginSweep
    <2>3. SweepSees(rows, t) /\ ReadStands(mapping, t)
      BY <2>0 DEF SweepSees, ReadStands
    <2>4. CompanyTypes'
      BY <1>0, <2>1, <2>2
    <2> QED
      BY <2>1, <2>2, <2>3, <2>4, TaskMoves DEF Locking
  <1>5. CASE C!RollBack(w)
    <2>1. C!Idle \in TaskRow /\ C!Idle.pc = "idle"
      BY DEF TaskRow, C!Idle
    <2>2. task' = [task EXCEPT ![w] = C!Idle] /\ task[w].pc \in Locking
          /\ lock' = [lock EXCEPT ![Home[w]] = C!None]
          /\ UNCHANGED <<offered, excluded, rows, mapping, runs, edits>>
      BY <1>5 DEF C!RollBack, C!Storing, Locking
    <2>3. SweepSees(rows, C!Idle) /\ ReadStands(mapping, C!Idle)
      BY <2>1 DEF SweepSees, ReadStands
    <2>4. CompanyTypes'
      BY <1>0, <2>1, <2>2
    <2> QED
      BY <2>1, <2>2, <2>3, <2>4, TaskMoves DEF Locking
  <1>6. ASSUME NEW c \in Companies, C!Upsert(w, c) PROVE CompanyInv'
    <2> DEFINE t == [task[w] EXCEPT !.left = @ \ {c}]
    <2>0. task[w].pc = "upsert"
      BY <1>6 DEF C!Upsert
    <2>1. t \in TaskRow /\ t.pc = "upsert"
      BY <1>0, <2>0 DEF TaskRow, C!Idle
    <2>2. task' = [task EXCEPT ![w] = t]
          /\ UNCHANGED <<offered, excluded, rows, mapping, lock, runs, edits>>
      BY <1>6 DEF C!Upsert
    <2>3. SweepSees(rows, t) /\ ReadStands(mapping, t)
      BY <2>1 DEF SweepSees, ReadStands
    <2>4. CompanyTypes'
      BY <1>0, <2>1, <2>2
    <2> QED
      BY <2>0, <2>1, <2>2, <2>3, <2>4, TaskMoves DEF Locking
  <1>7. ASSUME NEW c \in Companies, C!Sweep(w, c) PROVE CompanyInv'
    <2> DEFINE t == [task[w] EXCEPT !.targets = @ \ {c}, !.swept = @ \cup {c}]
    <2>0. task[w].pc = "sweep" /\ c \in task[w].targets
      BY <1>7 DEF C!Sweep
    <2>1. /\ t \in TaskRow /\ t.pc = "sweep" /\ t.items = task[w].items /\ t.late = task[w].late
          /\ t.targets = task[w].targets \ {c} /\ t.swept = task[w].swept \cup {c}
      <3> DEFINE rest == task[w].targets \ {c}
                 more == task[w].swept \cup {c}
                 Row == [pc : {"sweep"}, run : 1..MaxRuns, items : SUBSET Companies,
                         left : SUBSET Companies, swept : SUBSET Companies,
                         targets : SUBSET Companies, late : SUBSET Companies]
      <3>1. task[w] \in Row
        BY <1>0, <2>0 DEF TaskRow, C!Idle
      <3>2. rest \in SUBSET Companies /\ more \in SUBSET Companies
        BY <3>1
      <3>3. t = [task[w] EXCEPT !.targets = rest, !.swept = more]
        OBVIOUS
      <3> HIDE DEF rest, more, t
      <3>4. /\ t \in Row /\ t.items = task[w].items /\ t.late = task[w].late
            /\ t.targets = rest /\ t.swept = more
        BY <3>1, <3>2, <3>3
      <3> QED
        BY <3>4 DEF rest, more, TaskRow
    <2>2. task' = [task EXCEPT ![w] = t]
          /\ UNCHANGED <<offered, excluded, rows, mapping, lock, runs, edits>>
      BY <1>7 DEF C!Sweep
    <2>3. SweepSees(rows, t) /\ ReadStands(mapping, t)
      <3>1. SweepSees(rows, task[w])
        BY DEF CompanyInv
      <3> HIDE DEF t
      <3> QED
        BY <2>0, <2>1, <3>1 DEF SweepSees, ReadStands
    <2>4. CompanyTypes'
      BY <1>0, <2>1, <2>2
    <2> QED
      BY <2>0, <2>1, <2>2, <2>3, <2>4, TaskMoves DEF Locking
  <1> QED
    BY <1>1, <1>2, <1>3, <1>4, <1>5, <1>6, <1>7

\* A worker that is done leaves its replica's lock, and the others hold theirs.
LEMMA LockReleased ==
    ASSUME CompanyInv, NEW w \in Workers, task[w].pc \in Locking,
           lock' = [lock EXCEPT ![Home[w]] = C!None],
           task'[w].pc \notin Locking, \A v \in Workers \ {w} : task'[v].pc = task[v].pc
    PROVE  LockFollows(lock', task')
  <1>1. /\ LockFollows(lock, task) /\ lock \in [Replicas -> Workers \cup {C!None}]
        /\ lock[Home[w]] = w /\ Home[w] \in Replicas
    BY CompanyBounds DEF CompanyInv, CompanyTypes, LockFollows
  <1>2. ASSUME NEW v \in Workers, task'[v].pc \in Locking PROVE lock'[Home[v]] = v
    <2>1. v # w /\ task[v].pc \in Locking
      BY <1>2
    <2>2. lock[Home[v]] = v /\ Home[v] \in Replicas
      BY <1>1, <2>1, CompanyBounds DEF LockFollows
    <2> QED
      BY <1>1, <2>1, <2>2
  <1>3. ASSUME NEW r \in Replicas, lock'[r] # C!None
        PROVE  lock'[r] \in Workers /\ Home[lock'[r]] = r /\ task'[lock'[r]].pc \in Locking
    <2>1. r # Home[w] /\ lock'[r] = lock[r]
      BY <1>1, <1>3
    <2>2. lock[r] \in Workers /\ Home[lock[r]] = r /\ task[lock[r]].pc \in Locking
      BY <1>1, <1>3, <2>1 DEF LockFollows
    <2> QED
      BY <1>1, <2>1, <2>2
  <1> QED
    BY <1>2, <1>3 DEF LockFollows

LEMMA CommitStoreStep == ASSUME CompanyInv, NEW w \in Workers, C!CommitStore(w) PROVE CompanyInv'
  <1>0. CompanyTypes /\ task[w] \in TaskRow /\ Home[w] \in Replicas
    BY CompanyBounds DEF CompanyInv, CompanyTypes
  <1> DEFINE new == {c \in task[w].items : ~C!Known(c)}
             Later(v) == [task[v] EXCEPT !.late = @ \cup new]
  <1>1. /\ task[w].pc = "sweep" /\ task[w].run \in 1..MaxRuns
        /\ task[w].items \subseteq Companies /\ new \subseteq Companies
        /\ new \subseteq task[w].items /\ new \cap KnownIn(rows) = {}
    BY <1>0, TaskShape DEF C!CommitStore, C!Known, KnownIn
  <1>2. \A c \in Companies : rows'[c] = C!Stored(w, c)
    BY DEF C!CommitStore
  <1>3. ASSUME NEW c \in Companies
        PROVE  /\ C!Stored(w, c) \in [run : 0..MaxRuns, active : BOOLEAN]
               /\ C!Stored(w, c).run # 0 <=> c \in task[w].items \/ rows[c].run # 0
               /\ C!Stored(w, c).active => C!Stored(w, c).run # 0
    <2>1. rows[c] \in [run : 0..MaxRuns, active : BOOLEAN] /\ (rows[c].active => rows[c].run # 0)
      BY <1>0 DEF CompanyTypes, CompanyInv, ActiveIsKnown
    <2>2. CASE c \in task[w].items
      <3>1. C!Stored(w, c) = [run |-> task[w].run, active |-> TRUE]
        BY <2>2 DEF C!Stored
      <3> QED
        BY <1>1, <2>2, <3>1, CompanyBounds
    <2>3. CASE c \notin task[w].items /\ c \in task[w].swept
      <3>1. C!Stored(w, c) = [rows[c] EXCEPT !.active = FALSE]
        BY <2>3 DEF C!Stored
      <3> QED
        BY <2>1, <2>3, <3>1
    <2>4. CASE c \notin task[w].items /\ c \notin task[w].swept
      <3>1. C!Stored(w, c) = rows[c]
        BY <2>4 DEF C!Stored
      <3> QED
        BY <2>1, <2>4, <3>1
    <2> QED
      BY <2>2, <2>3, <2>4
  <1>4. KnownIn(rows') = KnownIn(rows) \cup task[w].items
    BY <1>1, <1>2, <1>3 DEF KnownIn
  <1>5. ActiveIsKnown(rows')
    BY <1>2, <1>3 DEF ActiveIsKnown
  <1>6. ASSUME NEW v \in Workers
        PROVE  /\ task'[v] \in TaskRow
               /\ v # w => task'[v].pc = task[v].pc
               /\ v = w => task'[v].pc = "idle"
               /\ SweepSees(rows', task'[v]) /\ ReadStands(mapping', task'[v])
    <2>1. task[v] \in TaskRow /\ SweepSees(rows, task[v]) /\ ReadStands(mapping, task[v])
      BY DEF CompanyInv, CompanyTypes
    <2>2. CASE v = w
      <3>1. task'[v] = C!Idle
        BY <2>2 DEF C!CommitStore
      <3> QED
        BY <2>2, <3>1 DEF TaskRow, SweepSees, ReadStands, C!Idle
    <2>3. CASE v # w /\ task[v].pc = "sweep"
      <3>1. task'[v] = Later(v)
        BY <2>3 DEF C!CommitStore
      <3>2. /\ Later(v) \in TaskRow /\ Later(v).pc = "sweep" /\ Later(v).late = task[v].late \cup new
            /\ Later(v).items = task[v].items /\ Later(v).targets = task[v].targets
            /\ Later(v).swept = task[v].swept
        <4> HIDE DEF new
        <4> QED
          BY <1>1, <2>1, <2>3 DEF TaskRow, C!Idle
      <3> HIDE DEF Later
      <3>3. /\ task[v].targets \cup task[v].swept \subseteq KnownIn(rows) \ task[v].items
            /\ task[v].late \cap (task[v].targets \cup task[v].swept) = {}
            /\ KnownIn(rows) \ task[v].items \subseteq
                  task[v].targets \cup task[v].swept \cup task[v].late
        BY <2>1, <2>3 DEF SweepSees
      <3>4. KnownIn(rows') = KnownIn(rows) \cup new
        BY <1>1, <1>4 DEF KnownIn, C!Known
      <3>5. SweepSees(rows', Later(v))
        <4> HIDE DEF new
        <4> QED
          BY <1>1, <3>2, <3>3, <3>4 DEF SweepSees
      <3> QED
        BY <2>3, <3>1, <3>2, <3>5 DEF ReadStands
    <2>4. CASE v # w /\ task[v].pc # "sweep"
      <3>1. task'[v] = task[v] /\ mapping' = mapping
        BY <2>4 DEF C!CommitStore
      <3> QED
        BY <2>1, <2>4, <3>1 DEF SweepSees
    <2> QED
      BY <2>2, <2>3, <2>4
  <1>7. task' \in [Workers -> TaskRow]
    <2> DEFINE After(v) == IF v = w THEN C!Idle
                           ELSE IF task[v].pc = "sweep" THEN Later(v)
                           ELSE task[v]
    <2>1. task' = [v \in Workers |-> After(v)]
      BY DEF C!CommitStore
    <2> HIDE DEF After
    <2> QED
      BY <1>6, <2>1
  <1>8. CompanyTypes'
    BY <1>0, <1>2, <1>3, <1>7 DEF CompanyTypes, C!CommitStore
  <1>9. LockFollows(lock', task')
    <2>1. task[w].pc \in Locking /\ lock' = [lock EXCEPT ![Home[w]] = C!None]
      BY <1>1 DEF Locking, C!CommitStore
    <2>2. task'[w].pc \notin Locking
      BY <1>6 DEF Locking
    <2>3. \A v \in Workers \ {w} : task'[v].pc = task[v].pc
      BY <1>6
    <2> QED
      BY <2>1, <2>2, <2>3, LockReleased
  <1> QED
    BY <1>5, <1>6, <1>8, <1>9 DEF CompanyInv

LEMMA MappingStep ==
    ASSUME CompanyInv, NEW w \in Workers,
           \/ \E c \in Companies, customer \in Customers : C!BeginMap(w, c, customer)
           \/ \E c \in Companies : C!BeginUnmap(w, c)
           \/ C!CommitMap(w) \/ C!CommitUnmap(w)
    PROVE  CompanyInv'
  <1>0. CompanyTypes /\ task[w] \in TaskRow /\ Home[w] \in Replicas
    BY CompanyBounds DEF CompanyInv, CompanyTypes
  <1> USE DEF CompanyTypes
  <1>1. ASSUME NEW c \in Companies, NEW customer \in Customers, C!BeginMap(w, c, customer)
        PROVE  CompanyInv'
    <2> DEFINE t == [pc |-> "map", company |-> c, to |-> customer]
    <2>1. t \in TaskRow /\ edits' \in 0..MaxEdits
      BY <1>0, <1>1, CompanyBounds DEF C!BeginMap, TaskRow
    <2>2. task' = [task EXCEPT ![w] = t] /\ UNCHANGED <<offered, excluded, rows, mapping, runs>>
      BY <1>1 DEF C!BeginMap
    <2>3. SweepSees(rows, t) /\ ReadStands(mapping, t)
      BY DEF SweepSees, ReadStands
    <2>4. lock[Home[w]] = C!None /\ lock' = [lock EXCEPT ![Home[w]] = w] /\ t.pc \in Locking
      BY <1>1 DEF C!BeginMap, C!Enters, Locking
    <2>5. CompanyTypes'
      BY <1>0, <2>1, <2>2, <2>4
    <2> QED
      BY <2>1, <2>2, <2>3, <2>4, <2>5, TaskMoves
  <1>2. ASSUME NEW c \in Companies, C!BeginUnmap(w, c) PROVE CompanyInv'
    <2> DEFINE t == [pc |-> "unmap", company |-> c, read |-> mapping[c], raced |-> FALSE]
    <2>1. mapping[c] \in Customers
      BY <1>0, <1>2 DEF C!BeginUnmap
    <2>2. t \in TaskRow /\ edits' \in 0..MaxEdits
      BY <1>0, <1>2, <2>1, CompanyBounds DEF C!BeginUnmap, TaskRow
    <2>3. task' = [task EXCEPT ![w] = t] /\ UNCHANGED <<offered, excluded, rows, mapping, runs>>
      BY <1>2 DEF C!BeginUnmap
    <2>4. SweepSees(rows, t) /\ ReadStands(mapping, t)
      BY DEF SweepSees, ReadStands
    <2>5. lock[Home[w]] = C!None /\ lock' = [lock EXCEPT ![Home[w]] = w] /\ t.pc \in Locking
      BY <1>2 DEF C!BeginUnmap, C!Enters, Locking
    <2>6. CompanyTypes'
      BY <1>0, <2>2, <2>3, <2>5
    <2> QED
      BY <2>2, <2>3, <2>4, <2>5, <2>6, TaskMoves
  <1>3. ASSUME C!CommitMap(w) \/ C!CommitUnmap(w) PROVE CompanyInv'
    <2>1. /\ task[w].pc \in {"map", "unmap"} /\ task[w].pc \in Locking
          /\ task[w].company \in Companies
      BY <1>0, <1>3, TaskShape DEF C!CommitMap, C!CommitUnmap, Locking
    <2>2. PICK customer \in Customers \cup {C!None} :
              /\ mapping' = [mapping EXCEPT ![task[w].company] = customer]
              /\ C!CommitUnmap(w) => customer = C!None
      BY <1>0, <1>3, TaskShape DEF C!CommitMap, C!CommitUnmap
    <2>3. lock[Home[w]] = w
      BY <2>1 DEF CompanyInv, LockFollows
    <2>4. lock' = [lock EXCEPT ![Home[w]] = C!None]
          /\ UNCHANGED <<offered, excluded, rows, runs, edits>>
      BY <1>0, <1>3, <2>3 DEF C!CommitMap, C!CommitUnmap, C!Leaves
    <2>5. task'[w] = C!Idle /\ task'[w].pc = "idle" /\ task'[w] \in TaskRow
      BY <1>0, <1>3 DEF C!CommitMap, C!CommitUnmap, C!Idle, TaskRow
    <2>6. ASSUME NEW v \in Workers \ {w}
          PROVE  /\ task'[v] \in TaskRow /\ task'[v].pc = task[v].pc
                 /\ SweepSees(rows', task'[v]) /\ ReadStands(mapping', task'[v])
      <3>1. task[v] \in TaskRow /\ SweepSees(rows, task[v]) /\ ReadStands(mapping, task[v])
            /\ mapping \in [Companies -> Customers \cup {C!None}]
        BY DEF CompanyInv
      <3>2. CASE C!CommitMap(w) /\ task[v].pc = "unmap" /\ Home[v] # Home[w]
        <4>1. task'[v] = [task[v] EXCEPT !.raced = TRUE]
          BY <3>2 DEF C!CommitMap
        <4>2. task'[v] \in TaskRow /\ task'[v].pc = "unmap" /\ task'[v].raced
          <5> DEFINE Row == [pc : {"unmap"}, company : Companies, read : Customers, raced : BOOLEAN]
          <5>1. task[v] \in Row
            BY <3>1, <3>2 DEF TaskRow, C!Idle
          <5>2. task'[v] \in Row /\ task'[v].raced = TRUE
            BY <4>1, <5>1
          <5> QED
            BY <5>2 DEF TaskRow
        <4> QED
          BY <3>2, <4>2 DEF SweepSees, ReadStands
      <3>3. CASE C!CommitMap(w) /\ ~(task[v].pc = "unmap" /\ Home[v] # Home[w])
        <4>1. task'[v] = task[v]
          BY <3>3 DEF C!CommitMap
        <4>2. task[v].pc # "unmap"
          <5>1. SUFFICES ASSUME task[v].pc = "unmap" PROVE FALSE
            OBVIOUS
          <5>2. lock[Home[v]] = v
            BY <5>1 DEF CompanyInv, LockFollows, Locking
          <5> QED
            BY <2>3, <3>3, <5>1, <5>2
        <4> QED
          BY <2>4, <3>1, <4>1, <4>2 DEF ReadStands
      <3>4. CASE C!CommitUnmap(w)
        <4>1. task'[v] = task[v]
          BY <1>0, <3>4 DEF C!CommitUnmap
        <4>2. task[v].pc = "unmap" => task[v].company \in Companies
          BY <3>1, TaskShape
        <4>3. \A c \in Companies : mapping'[c] = mapping[c] \/ mapping'[c] = C!None
          BY <2>2, <3>1, <3>4
        <4>4. SweepSees(rows', task'[v])
          BY <2>4, <3>1, <4>1
        <4>5. ReadStands(mapping', task'[v])
          BY <3>1, <4>1, <4>2, <4>3 DEF ReadStands
        <4> QED
          BY <3>1, <4>1, <4>4, <4>5
      <3> QED
        BY <1>3, <3>2, <3>3, <3>4
    <2>7. task' \in [Workers -> TaskRow]
      <3>1. task' = [v \in Workers |-> task'[v]]
        BY <1>0, <1>3 DEF C!CommitMap, C!CommitUnmap
      <3> QED
        BY <2>5, <2>6, <3>1
    <2>8. mapping' \in [Companies -> Customers \cup {C!None}]
      BY <1>0, <2>2
    <2>9. lock' \in [Replicas -> Workers \cup {C!None}]
      BY <1>0, <2>4
    <2>10. CompanyTypes'
      BY <1>0, <2>4, <2>7, <2>8, <2>9
    <2>11. LockFollows(lock', task')
      <3>1. task'[w].pc \notin Locking
        BY <2>5 DEF Locking
      <3>2. \A v \in Workers \ {w} : task'[v].pc = task[v].pc
        BY <2>6
      <3> QED
        BY <2>1, <2>4, <3>1, <3>2, LockReleased
    <2>12. ActiveIsKnown(rows')
      BY <2>4 DEF CompanyInv
    <2>13. SweepSees(rows', task'[w]) /\ ReadStands(mapping', task'[w])
      BY <2>5 DEF SweepSees, ReadStands
    <2> QED
      BY <2>6, <2>10, <2>11, <2>12, <2>13 DEF CompanyInv
  <1> QED
    BY <1>1, <1>2, <1>3

LEMMA CompanyNext == ASSUME CompanyInv, [C!Next]_(C!vars) PROVE CompanyInv'
  <1>1. ASSUME NEW w \in Workers,
               C!BeginDiscovery(w) \/ C!ApplyFilters(w) \/ C!BeginStore(w) \/ C!BeginSweep(w)
               \/ C!RollBack(w) \/ \E c \in Companies : C!Upsert(w, c) \/ C!Sweep(w, c)
        PROVE  CompanyInv'
    BY <1>1, DiscoveryStep
  <1>2. ASSUME NEW w \in Workers, C!CommitStore(w) PROVE CompanyInv'
    BY <1>2, CommitStoreStep
  <1>3. ASSUME NEW w \in Workers,
               \/ \E c \in Companies, customer \in Customers : C!BeginMap(w, c, customer)
               \/ \E c \in Companies : C!BeginUnmap(w, c)
               \/ C!CommitMap(w) \/ C!CommitUnmap(w)
        PROVE  CompanyInv'
    BY <1>3, MappingStep
  <1>4. ASSUME NEW c \in Companies, C!ProviderChanges(c) \/ C!SaveExclusion(c) PROVE CompanyInv'
    <2>1. UNCHANGED <<rows, mapping, lock, task, runs>>
      BY <1>4 DEF C!ProviderChanges, C!SaveExclusion
    <2>2. CompanyTypes'
      BY <1>4, CompanyBounds DEF CompanyInv, CompanyTypes, C!ProviderChanges, C!SaveExclusion
    <2> QED
      BY <2>1, <2>2 DEF CompanyInv
  <1>5. CASE UNCHANGED C!vars
    BY <1>5 DEF C!vars, CompanyInv, CompanyTypes
  <1> QED
    BY <1>1, <1>2, <1>3, <1>4, <1>5 DEF C!Next

\* Every type of the module follows from the invariant.
LEMMA CompanyTypeOK == CompanyInv => C!TypeOK
  <1> SUFFICES ASSUME CompanyInv PROVE C!TypeOK
    OBVIOUS
  <1>1. ASSUME NEW v \in C!Range(lock) \ {C!None} PROVE lock[Home[v]] = v /\ task[v] # C!Idle
    <2>1. PICK r \in Replicas : lock[r] = v
      BY DEF C!Range, CompanyInv, CompanyTypes
    <2>2. v \in Workers /\ Home[v] = r /\ task[v].pc \in Locking
      BY <2>1 DEF CompanyInv, LockFollows
    <2> QED
      BY <2>1, <2>2 DEF C!Idle, Locking
  <1> QED
    BY <1>1 DEF C!TypeOK, CompanyInv, CompanyTypes

\* The two promises of the module, of every step.
DiscoveryStands ==
    \A w \in Workers :
        task[w].pc = "sweep" /\ rows' # rows /\ task'[w] = C!Idle
        => C!Active' = task[w].items \cup (task[w].late \cap C!Active)

RemovedAsRead ==
    \A c \in Companies : mapping[c] # C!None /\ mapping'[c] = C!None =>
        \E w \in Workers : /\ task[w].pc = "unmap" /\ task[w].company = c
                           /\ task[w].read = mapping[c] \/ task[w].raced

\* Only a commit changes the rows, and only its own worker is idle afterwards.
LEMMA DiscoveryStandsStep == ASSUME CompanyInv, [C!Next]_(C!vars) PROVE DiscoveryStands
  <1> SUFFICES ASSUME NEW w \in Workers, task[w].pc = "sweep", rows' # rows, task'[w] = C!Idle
               PROVE  C!Active' = task[w].items \cup (task[w].late \cap C!Active)
    BY DEF DiscoveryStands
  <1>1. PICK v \in Workers : C!CommitStore(v)
    BY DEF C!Next, C!vars, C!BeginDiscovery, C!ApplyFilters, C!BeginStore, C!Upsert, C!Sweep,
           C!BeginSweep, C!RollBack, C!BeginMap, C!CommitMap, C!BeginUnmap, C!CommitUnmap,
           C!ProviderChanges, C!SaveExclusion
  <1>2. task[w] \in TaskRow /\ rows \in [Companies -> [run : 0..MaxRuns, active : BOOLEAN]]
    BY DEF CompanyInv, CompanyTypes
  <1>3. v = w
    <2>1. SUFFICES ASSUME v # w PROVE FALSE
      OBVIOUS
    <2> DEFINE new == {c \in task[v].items : ~C!Known(c)}
               t == [task[w] EXCEPT !.late = @ \cup new]
    <2>2. task'[w] = t
      BY <1>1, <2>1 DEF C!CommitStore
    <2>3. t.pc = "sweep"
      BY <1>2 DEF TaskRow, C!Idle
    <2> QED
      BY <2>2, <2>3 DEF C!Idle
  <1>4. task[w].targets = {} /\ task[w].items \subseteq Companies
        /\ \A c \in Companies : rows'[c] = C!Stored(w, c)
    BY <1>1, <1>2, <1>3, TaskShape DEF C!CommitStore
  <1>5. ASSUME NEW c \in Companies
        PROVE  C!Stored(w, c).active <=> \/ c \in task[w].items
                                         \/ c \notin task[w].swept /\ rows[c].active
    BY <1>2 DEF C!Stored
  <1>6. SweepSees(rows, task[w]) /\ ActiveIsKnown(rows)
    BY DEF CompanyInv
  <1>7. ASSUME NEW c \in Companies, c \notin task[w].items, rows[c].active
        PROVE  c \notin task[w].swept <=> c \in task[w].late
    BY <1>4, <1>6, <1>7 DEF SweepSees, ActiveIsKnown, KnownIn
  <1>8. C!Active' = {c \in Companies : rows'[c].active} /\ C!Active = {c \in Companies : rows[c].active}
    BY DEF C!Active
  <1> QED
    BY <1>4, <1>5, <1>7, <1>8

\* Only a removal's commit clears a mapping: it has read what is there, or was raced.
LEMMA RemovedAsReadStep == ASSUME CompanyInv, [C!Next]_(C!vars) PROVE RemovedAsRead
  <1> SUFFICES ASSUME NEW c \in Companies, mapping[c] # C!None, mapping'[c] = C!None
               PROVE  \E w \in Workers : /\ task[w].pc = "unmap" /\ task[w].company = c
                                         /\ task[w].read = mapping[c] \/ task[w].raced
    BY DEF RemovedAsRead
  <1>1. PICK w \in Workers : C!CommitMap(w) \/ C!CommitUnmap(w)
    BY DEF C!Next, C!vars, C!BeginDiscovery, C!ApplyFilters, C!BeginStore, C!Upsert, C!Sweep,
           C!BeginSweep, C!CommitStore, C!RollBack, C!BeginMap, C!BeginUnmap,
           C!ProviderChanges, C!SaveExclusion
  <1>2. task[w] \in TaskRow /\ mapping \in [Companies -> Customers \cup {C!None}]
        /\ ReadStands(mapping, task[w])
    BY DEF CompanyInv, CompanyTypes
  <1>3. ~C!CommitMap(w)
    BY <1>2, CompanyBounds, TaskShape DEF C!CommitMap
  <1>4. task[w].pc = "unmap" /\ task[w].company = c
    BY <1>1, <1>2, <1>3 DEF C!CommitUnmap
  <1>5. task[w].raced \/ task[w].read = mapping[c]
    BY <1>2, <1>4 DEF ReadStands
  <1> QED
    BY <1>4, <1>5

----------------------------------------------------------------------------
(* The connection of a provider *)

Lifecycles == {"active", "paused", "disabled", "removed"}

ConnRow == [installed : BOOLEAN, revision : 1..MaxRevision, lifecycle : Lifecycles, on : BOOLEAN,
            rest : 0..MaxRevision, graph : 0..MaxRevision,
            graphql : {"unset", "off", "on", "bound"},
            status : {"not_configured", "configured", "verified", "error"}]

FormRequest ==
    {P!Idle}
    \cup [pc : {"opened"}, form : P!Forms, expected : 0..MaxRevision]
    \cup [pc : {"read"}, form : P!Forms, expected : 0..MaxRevision, before : ConnRow]

TestRow ==
    {P!Idle}
    \cup [pc : {"called", "marking"}, what : P!Tests, used : 0..MaxRevision,
          status : {"supported", "error"}]
    \cup [pc : {"labelled", "marking"}, what : P!Tests, used : 0..MaxRevision,
          status : {"supported", "error"}, label : 1..MaxRevision]

Snapshot ==
    [status : {"none"}]
    \cup [status : {"supported", "error"}, label : 1..MaxRevision, expired : BOOLEAN,
          used : 0..MaxRevision, raced : BOOLEAN]

ConnTypes ==
    /\ environment \subseteq P!Settings
    /\ conn \in ConnRow
    /\ capability \in [P!Tests -> Snapshot]
    /\ request \in [Users -> FormRequest]
    /\ test \in [Testers -> TestRow]
    /\ latest \in [rest : 0..MaxRevision, graph : 0..MaxRevision]
    /\ loose \in BOOLEAN
    /\ raced \subseteq Testers

\* At one revision a row differs only in its status and in being installed.
Agree(a, b) == /\ a.revision <= b.revision
               /\ a.revision = b.revision =>
                     /\ a.rest = b.rest /\ a.graph = b.graph /\ a.lifecycle = b.lifecycle
                     /\ a.on = b.on /\ a.graphql = b.graphql

\* What the handler has made sure of in the row it read.
Accepted(container, form, before) ==
    /\ form.op = "save" => form.token \/ before.rest # 0
    /\ form.op \in {"pause", "resume", "disable", "reenable", "restore", "remove"} =>
          /\ P!Target(before.lifecycle, form.op) # "none"
          /\ P!Target(before.lifecycle, form.op) = "active" =>
                "rest" \in container \/ before.rest # 0

RequestStands(container, c, q) ==
    /\ q.pc = "opened" => q.expected <= c.revision
    /\ q.pc = "read" => /\ q.expected <= q.before.revision
                        /\ Agree(q.before, c)
                        /\ Accepted(container, q.form, q.before)

\* The token a test uses.
TokenOf(container, c, what) ==
    IF what \in container THEN 0 ELSE IF what = "rest" THEN c.rest ELSE c.graph

\* A test that no write has overtaken used the token that is saved.
TestStands(container, c, overtaken, t, s) ==
    /\ s.pc \in {"called", "labelled"} /\ t \notin overtaken => s.used = TokenOf(container, c, s.what)
    /\ s.pc = "labelled" => s.label <= c.revision

SnapshotStands(container, c, what, found) ==
    found.status # "none" =>
        /\ found.label <= c.revision
        /\ found.label = c.revision => found.raced \/ found.used = TokenOf(container, c, what)

NewestStand(container, c, last) ==
    /\ c.rest = last.rest /\ c.graph = last.graph
    /\ c.on => c.lifecycle = "active" /\ ("rest" \in container \/ c.rest # 0)

ConnInv ==
    /\ ConnTypes
    /\ loose \/ NewestStand(environment, conn, latest)
    /\ \A u \in Users : RequestStands(environment, conn, request[u])
    /\ \A t \in Testers : TestStands(environment, conn, raced, t, test[t])
    /\ \A what \in P!Tests : SnapshotStands(environment, conn, what, capability[what])

LEMMA RevisionBound == MaxRevision \in Nat \ {0}
  BY ProviderAssumption DEF P!ConnectionAssumption

LEMMA RequestShape ==
    ASSUME NEW q \in FormRequest
    PROVE  /\ q.pc \in {"idle", "opened", "read"}
           /\ q.pc \in {"opened", "read"} => q.form \in P!Forms /\ q.expected \in 0..MaxRevision
           /\ q.pc = "read" => q.before \in ConnRow
  BY DEF FormRequest, P!Idle

LEMMA TestShape ==
    ASSUME NEW s \in TestRow
    PROVE  /\ s.pc \in {"idle", "called", "labelled", "marking"}
           /\ s.pc # "idle" => /\ s.what \in P!Tests /\ s.used \in 0..MaxRevision
                               /\ s.status \in {"supported", "error"}
           /\ s.pc = "labelled" => s.label \in 1..MaxRevision
  BY DEF TestRow, P!Idle

LEMMA ConnInit == P!Init => ConnInv
  <1> SUFFICES ASSUME P!Init PROVE ConnInv
    OBVIOUS
  <1> USE RevisionBound
  <1>1. environment \subseteq P!Settings
    BY DEF P!Init, P!Settings, P!Tests
  <1>2. conn \in ConnRow /\ conn.rest = 0 /\ conn.graph = 0 /\ conn.on = FALSE /\ conn.revision = 1
    <2> DEFINE row(here) == [installed |-> here, revision |-> 1, lifecycle |-> "active", on |-> FALSE,
                             rest |-> 0, graph |-> 0, graphql |-> "unset", status |-> "not_configured"]
    <2>1. conn = row(FALSE) \/ conn = row(TRUE)
      BY DEF P!Init, P!NoConnection
    <2>2. ASSUME NEW here \in BOOLEAN
          PROVE  /\ row(here) \in ConnRow /\ row(here).rest = 0 /\ row(here).graph = 0
                 /\ row(here).on = FALSE /\ row(here).revision = 1
      BY DEF ConnRow, Lifecycles
    <2> HIDE DEF row
    <2> QED
      BY <2>1, <2>2
  <1>3. /\ capability \in [P!Tests -> Snapshot] /\ request \in [Users -> FormRequest]
        /\ test \in [Testers -> TestRow]
    BY DEF P!Init, Snapshot, FormRequest, TestRow
  <1>4. /\ latest \in [rest : 0..MaxRevision, graph : 0..MaxRevision]
        /\ loose \in BOOLEAN /\ raced \subseteq Testers
    <2>1. latest = [rest |-> 0, graph |-> 0] /\ loose = FALSE /\ raced = {}
      BY DEF P!Init
    <2>2. latest \in [rest : 0..MaxRevision, graph : 0..MaxRevision]
      BY <2>1
    <2>3. loose \in BOOLEAN
      BY <2>1
    <2> QED
      BY <2>1, <2>2, <2>3
  <1>5. NewestStand(environment, conn, latest)
    BY <1>2 DEF P!Init, NewestStand
  <1>6. \A u \in Users : RequestStands(environment, conn, request[u])
    BY DEF P!Init, P!Idle, RequestStands
  <1>7. \A t \in Testers : TestStands(environment, conn, raced, t, test[t])
    BY DEF P!Init, P!Idle, TestStands
  <1>8. \A what \in P!Tests : SnapshotStands(environment, conn, what, capability[what])
    BY DEF P!Init, SnapshotStands
  <1> QED
    BY <1>1, <1>2, <1>3, <1>4, <1>5, <1>6, <1>7, <1>8 DEF ConnInv, ConnTypes

\* A row of the connection, by its fields.
Row(here, revision, lifecycle, on, rest, graph, graphql, status) ==
    [installed |-> here, revision |-> revision, lifecycle |-> lifecycle, on |-> on,
     rest |-> rest, graph |-> graph, graphql |-> graphql, status |-> status]

LEMMA RowFields ==
    ASSUME NEW here, NEW rev, NEW life, NEW switch, NEW a, NEW b, NEW g, NEW s
    PROVE  LET c == Row(here, rev, life, switch, a, b, g, s)
           IN /\ c.installed = here /\ c.revision = rev /\ c.lifecycle = life /\ c.on = switch
              /\ c.rest = a /\ c.graph = b /\ c.graphql = g /\ c.status = s
  BY DEF Row

LEMMA RowIsRow ==
    ASSUME NEW c \in ConnRow
    PROVE  /\ c = Row(c.installed, c.revision, c.lifecycle, c.on, c.rest, c.graph, c.graphql, c.status)
           /\ c.installed \in BOOLEAN /\ c.revision \in 1..MaxRevision /\ c.lifecycle \in Lifecycles
           /\ c.on \in BOOLEAN /\ c.rest \in 0..MaxRevision /\ c.graph \in 0..MaxRevision
           /\ c.graphql \in {"unset", "off", "on", "bound"}
           /\ c.status \in {"not_configured", "configured", "verified", "error"}
  BY DEF Row, ConnRow

LEMMA RowInRows ==
    ASSUME NEW here \in BOOLEAN, NEW rev \in 1..MaxRevision, NEW life \in Lifecycles,
           NEW switch \in BOOLEAN, NEW a \in 0..MaxRevision, NEW b \in 0..MaxRevision,
           NEW g \in {"unset", "off", "on", "bound"},
           NEW s \in {"not_configured", "configured", "verified", "error"}
    PROVE  Row(here, rev, life, switch, a, b, g, s) \in ConnRow
  BY DEF Row, ConnRow

\* What every write makes of the row, field by field.
AfterRow(form, before, rev) ==
    CASE form.op = "save" ->
           LET life == IF before.lifecycle = "removed" THEN "active" ELSE before.lifecycle
               tokens == P!Bundle(before, "rest", form.token)
           IN Row(conn.installed, rev, life, form.on /\ life = "active", tokens.rest, tokens.graph,
                  P!Setting(before), "configured")
      [] form.op = "graphql" ->
           LET tokens == P!Bundle(before, "graph", form.token)
           IN Row(conn.installed, rev, conn.lifecycle, conn.on /\ conn.lifecycle = "active",
                  tokens.rest, tokens.graph, form.to, "configured")
      [] form.op = "policy" ->
           IF kind = "ncentral"
           THEN Row(conn.installed, rev, conn.lifecycle, conn.on /\ conn.lifecycle = "active",
                    conn.rest, conn.graph, conn.graphql, "configured")
           ELSE Row(conn.installed, rev, conn.lifecycle, before.on /\ conn.lifecycle = "active",
                    conn.rest, conn.graph, conn.graphql, before.status)
      [] OTHER ->
           IF form.op = "remove"
           THEN Row(conn.installed, rev, "removed", FALSE, 0, 0, "unset", "not_configured")
           ELSE LET target == P!Target(before.lifecycle, form.op)
                IN Row(conn.installed, rev, target, target = "active", conn.rest, conn.graph,
                       conn.graphql, conn.status)

LEMMA TargetIsLifecycle ==
    ASSUME NEW life, NEW op PROVE P!Target(life, op) \in Lifecycles \cup {"none"}
  BY DEF P!Target, Lifecycles

LEMMA BundleTypes ==
    ASSUME conn \in ConnRow, NEW before \in ConnRow, NEW field, NEW given \in BOOLEAN,
           conn.revision < MaxRevision
    PROVE  /\ P!Bundle(before, field, given).rest \in 0..MaxRevision
           /\ P!Bundle(before, field, given).graph \in 0..MaxRevision
  <1> DEFINE fresh == conn.revision + 1
             base == IF before.rest = 0 /\ before.graph = 0 THEN conn ELSE before
  <1>1. fresh \in 0..MaxRevision /\ base \in ConnRow
    BY RevisionBound, RowIsRow
  <1>2. base.rest \in 0..MaxRevision /\ base.graph \in 0..MaxRevision
        /\ before.rest \in 0..MaxRevision /\ before.graph \in 0..MaxRevision
    BY <1>1, RowIsRow
  <1>3. P!Bundle(before, field, given) =
            IF ~given THEN [rest |-> base.rest, graph |-> base.graph]
            ELSE [rest |-> IF field = "rest" THEN fresh ELSE before.rest,
                  graph |-> IF field = "graph" THEN fresh ELSE before.graph]
    BY DEF P!Bundle
  <1> HIDE DEF fresh, base
  <1> QED
    BY <1>1, <1>2, <1>3

LEMMA FormShape ==
    ASSUME NEW form \in P!Forms
    PROVE  /\ form.op \in {"save", "graphql", "policy", "pause", "resume", "disable", "reenable",
                            "restore", "remove"}
           /\ form.op = "save" => form.token \in BOOLEAN /\ form.on \in BOOLEAN
           /\ form.op = "graphql" => form.token \in BOOLEAN /\ form.to \in {"off", "on", "bound"}
  BY DEF P!Forms

LEMMA AfterIsRow ==
    ASSUME conn \in ConnRow, NEW form \in P!Forms, NEW before \in ConnRow,
           NEW rev \in 1..MaxRevision, conn.revision < MaxRevision,
           Accepted(environment, form, before)
    PROVE  /\ [P!After(form, before) EXCEPT !.revision = rev] = AfterRow(form, before, rev)
           /\ AfterRow(form, before, rev) \in ConnRow
  <1>1. /\ conn.installed \in BOOLEAN /\ conn.lifecycle \in Lifecycles /\ conn.on \in BOOLEAN
        /\ conn.rest \in 0..MaxRevision /\ conn.graph \in 0..MaxRevision
        /\ conn.graphql \in {"unset", "off", "on", "bound"}
        /\ conn.status \in {"not_configured", "configured", "verified", "error"}
    BY RowIsRow
  <1>2. /\ before.lifecycle \in Lifecycles /\ before.on \in BOOLEAN
        /\ before.graphql \in {"unset", "off", "on", "bound"}
        /\ before.status \in {"not_configured", "configured", "verified", "error"}
    BY RowIsRow
  <1>3. ASSUME NEW c \in ConnRow, NEW life, NEW switch, NEW a, NEW b, NEW g, NEW s,
               c.installed = conn.installed, c.revision = rev, c.lifecycle = life,
               c.on = switch, c.rest = a, c.graph = b, c.graphql = g, c.status = s
        PROVE  c = Row(conn.installed, rev, life, switch, a, b, g, s)
    BY <1>3, RowIsRow
  <1>4. CASE form.op = "save"
    <2> DEFINE life == IF before.lifecycle = "removed" THEN "active" ELSE before.lifecycle
               a == P!Bundle(before, "rest", form.token).rest
               b == P!Bundle(before, "rest", form.token).graph
               switch == form.on /\ life = "active"
               g == P!Setting(before)
    <2>1. life \in Lifecycles /\ g \in {"unset", "off", "on", "bound"}
      BY <1>1, <1>2 DEF P!Setting, Lifecycles
    <2>2. a \in 0..MaxRevision /\ b \in 0..MaxRevision
      BY <1>4, BundleTypes, FormShape
    <2>3. switch \in BOOLEAN
      OBVIOUS
    <2>4. P!After(form, before) = [conn EXCEPT !.rest = a, !.graph = b, !.lifecycle = life, !.on = switch,
                             !.graphql = g, !.status = "configured"]
      BY <1>4 DEF P!After, P!Saved
    <2>5. AfterRow(form, before, rev) = Row(conn.installed, rev, life, switch, a, b, g, "configured")
      BY <1>4 DEF AfterRow
    <2> HIDE DEF life, a, b, switch, g
    <2> DEFINE c == [[conn EXCEPT !.rest = a, !.graph = b, !.lifecycle = life, !.on = switch,
                             !.graphql = g, !.status = "configured"] EXCEPT !.revision = rev]
    <2>6. /\ c \in ConnRow /\ c.installed = conn.installed /\ c.revision = rev
          /\ c.lifecycle = life /\ c.on = switch /\ c.rest = a /\ c.graph = b
          /\ c.graphql = g /\ c.status = "configured"
      BY <1>1, <2>1, <2>2, <2>3 DEF ConnRow
    <2> HIDE DEF c
    <2>7. c = Row(conn.installed, rev, life, switch, a, b, g, "configured")
      BY <1>3, <2>6
    <2>8. [P!After(form, before) EXCEPT !.revision = rev] = c
      BY <2>4 DEF c
    <2> QED
      BY <2>5, <2>6, <2>7, <2>8
  <1>5. CASE form.op = "graphql"
    <2> DEFINE a == P!Bundle(before, "graph", form.token).rest
               b == P!Bundle(before, "graph", form.token).graph
               switch == conn.on /\ conn.lifecycle = "active"
               g == form.to
    <2>1. g \in {"unset", "off", "on", "bound"}
      BY <1>5, FormShape
    <2>2. a \in 0..MaxRevision /\ b \in 0..MaxRevision
      BY <1>5, BundleTypes, FormShape
    <2>3. switch \in BOOLEAN
      OBVIOUS
    <2>4. P!After(form, before) = [conn EXCEPT !.rest = a, !.graph = b, !.graphql = g,
                             !.on = switch, !.status = "configured"]
      BY <1>5 DEF P!After, P!SavedGraphql
    <2>5. AfterRow(form, before, rev) = Row(conn.installed, rev, conn.lifecycle, switch, a, b, g, "configured")
      BY <1>5 DEF AfterRow
    <2> HIDE DEF a, b, switch, g
    <2> DEFINE c == [[conn EXCEPT !.rest = a, !.graph = b, !.graphql = g,
                             !.on = switch, !.status = "configured"] EXCEPT !.revision = rev]
    <2>6. /\ c \in ConnRow /\ c.installed = conn.installed /\ c.revision = rev
          /\ c.lifecycle = conn.lifecycle /\ c.on = switch /\ c.rest = a /\ c.graph = b
          /\ c.graphql = g /\ c.status = "configured"
      BY <1>1, <2>1, <2>2, <2>3 DEF ConnRow
    <2> HIDE DEF c
    <2>7. c = Row(conn.installed, rev, conn.lifecycle, switch, a, b, g, "configured")
      BY <1>3, <2>6
    <2>8. [P!After(form, before) EXCEPT !.revision = rev] = c
      BY <2>4 DEF c
    <2> QED
      BY <2>5, <2>6, <2>7, <2>8
  <1>6. CASE form.op = "policy" /\ kind = "ncentral"
    <2> DEFINE switch == conn.on /\ conn.lifecycle = "active"
    <2>1. switch \in BOOLEAN
      OBVIOUS
    <2>2. P!After(form, before) = [conn EXCEPT !.on = switch, !.status = "configured"]
      BY <1>6 DEF P!After, P!SavedPolicy
    <2>3. AfterRow(form, before, rev) = Row(conn.installed, rev, conn.lifecycle, switch, conn.rest, conn.graph,
                                            conn.graphql, "configured")
      BY <1>6 DEF AfterRow
    <2> HIDE DEF switch
    <2> DEFINE c == [[conn EXCEPT !.on = switch, !.status = "configured"] EXCEPT !.revision = rev]
    <2>4. /\ c \in ConnRow /\ c.installed = conn.installed /\ c.revision = rev
          /\ c.lifecycle = conn.lifecycle /\ c.on = switch /\ c.rest = conn.rest /\ c.graph = conn.graph
          /\ c.graphql = conn.graphql /\ c.status = "configured"
      BY <1>1, <2>1 DEF ConnRow
    <2> HIDE DEF c
    <2>5. c = Row(conn.installed, rev, conn.lifecycle, switch, conn.rest, conn.graph,
                                            conn.graphql, "configured")
      BY <1>3, <2>4
    <2>6. [P!After(form, before) EXCEPT !.revision = rev] = c
      BY <2>2 DEF c
    <2> QED
      BY <2>3, <2>4, <2>5, <2>6
  <1>7. CASE form.op = "policy" /\ kind # "ncentral"
    <2> DEFINE switch == before.on /\ conn.lifecycle = "active"
               s == before.status
    <2>1. s \in {"not_configured", "configured", "verified", "error"}
      BY <1>2
    <2>2. switch \in BOOLEAN
      OBVIOUS
    <2>3. P!After(form, before) = [conn EXCEPT !.on = switch, !.status = s]
      BY <1>7 DEF P!After, P!SavedPolicy
    <2>4. AfterRow(form, before, rev) = Row(conn.installed, rev, conn.lifecycle, switch, conn.rest, conn.graph,
                                            conn.graphql, s)
      BY <1>7 DEF AfterRow
    <2> HIDE DEF switch, s
    <2> DEFINE c == [[conn EXCEPT !.on = switch, !.status = s] EXCEPT !.revision = rev]
    <2>5. /\ c \in ConnRow /\ c.installed = conn.installed /\ c.revision = rev
          /\ c.lifecycle = conn.lifecycle /\ c.on = switch /\ c.rest = conn.rest /\ c.graph = conn.graph
          /\ c.graphql = conn.graphql /\ c.status = s
      BY <1>1, <2>1, <2>2 DEF ConnRow
    <2> HIDE DEF c
    <2>6. c = Row(conn.installed, rev, conn.lifecycle, switch, conn.rest, conn.graph,
                                            conn.graphql, s)
      BY <1>3, <2>5
    <2>7. [P!After(form, before) EXCEPT !.revision = rev] = c
      BY <2>3 DEF c
    <2> QED
      BY <2>4, <2>5, <2>6, <2>7
  <1>8. CASE form.op = "remove"
    <2> DEFINE life == "removed"
               switch == FALSE
               none == 0
               g == "unset"
               s == "not_configured"
    <2>1. /\ life \in Lifecycles /\ switch \in BOOLEAN /\ none \in 0..MaxRevision
          /\ g \in {"unset", "off", "on", "bound"}
          /\ s \in {"not_configured", "configured", "verified", "error"}
      BY RevisionBound DEF Lifecycles
    <2>2. P!After(form, before) = [conn EXCEPT !.lifecycle = life, !.on = switch, !.rest = none,
                                              !.graph = none, !.graphql = g, !.status = s]
      BY <1>8 DEF P!After, P!ChangedLifecycle, P!Removed
    <2>3. AfterRow(form, before, rev) = Row(conn.installed, rev, life, switch, none, none, g, s)
      BY <1>8 DEF AfterRow
    <2> HIDE DEF life, switch, none, g, s
    <2> DEFINE c == [[conn EXCEPT !.lifecycle = life, !.on = switch, !.rest = none, !.graph = none,
                                  !.graphql = g, !.status = s] EXCEPT !.revision = rev]
    <2>4. /\ c \in ConnRow /\ c.installed = conn.installed /\ c.revision = rev
          /\ c.lifecycle = life /\ c.on = switch /\ c.rest = none /\ c.graph = none
          /\ c.graphql = g /\ c.status = s
      BY <1>1, <2>1 DEF ConnRow
    <2> HIDE DEF c
    <2>5. c = Row(conn.installed, rev, life, switch, none, none, g, s)
      BY <1>3, <2>4
    <2>6. [P!After(form, before) EXCEPT !.revision = rev] = c
      BY <2>2 DEF c
    <2> QED
      BY <2>3, <2>4, <2>5, <2>6
  <1>9. CASE form.op \notin {"save", "graphql", "policy", "remove"}
    <2> DEFINE life == P!Target(before.lifecycle, form.op)
               switch == life = "active"
    <2>1. life \in Lifecycles
      BY <1>9, TargetIsLifecycle, FormShape DEF Accepted
    <2>2. switch \in BOOLEAN
      OBVIOUS
    <2>3. P!After(form, before) = [conn EXCEPT !.lifecycle = life, !.on = switch]
      BY <1>9 DEF P!After, P!ChangedLifecycle
    <2>4. AfterRow(form, before, rev) = Row(conn.installed, rev, life, switch, conn.rest, conn.graph,
                                            conn.graphql, conn.status)
      BY <1>9 DEF AfterRow
    <2> HIDE DEF life, switch
    <2> DEFINE c == [[conn EXCEPT !.lifecycle = life, !.on = switch] EXCEPT !.revision = rev]
    <2>5. /\ c \in ConnRow /\ c.installed = conn.installed /\ c.revision = rev
          /\ c.lifecycle = life /\ c.on = switch /\ c.rest = conn.rest /\ c.graph = conn.graph
          /\ c.graphql = conn.graphql /\ c.status = conn.status
      BY <1>1, <2>1, <2>2 DEF ConnRow
    <2> HIDE DEF c
    <2>6. c = Row(conn.installed, rev, life, switch, conn.rest, conn.graph,
                                            conn.graphql, conn.status)
      BY <1>3, <2>5
    <2>7. [P!After(form, before) EXCEPT !.revision = rev] = c
      BY <2>3 DEF c
    <2> QED
      BY <2>4, <2>5, <2>6, <2>7
  <1> QED
    BY <1>4, <1>5, <1>6, <1>7, <1>8, <1>9, FormShape

\* Whoever opened the form at the row's revision writes the newest tokens, and
\* switches on only a connection that has its credentials.
LEMMA NewestWritten ==
    ASSUME conn \in ConnRow, NEW form \in P!Forms, NEW before \in ConnRow,
           conn.revision < MaxRevision,
           conn.rest = latest.rest, conn.graph = latest.graph,
           latest \in [rest : 0..MaxRevision, graph : 0..MaxRevision],
           conn.on => conn.lifecycle = "active" /\ ("rest" \in environment \/ conn.rest # 0),
           Accepted(environment, form, before),
           \/ form.op = "policy" /\ kind = "ncentral"
           \/ /\ before.rest = conn.rest /\ before.graph = conn.graph
              /\ before.lifecycle = conn.lifecycle /\ before.on = conn.on
              /\ before.graphql = conn.graphql
    PROVE  NewestStand(environment, AfterRow(form, before, conn.revision + 1),
                       CASE form.op = "remove" -> [rest |-> 0, graph |-> 0]
                         [] form.op = "save" /\ form.token ->
                               [latest EXCEPT !.rest = conn.revision + 1]
                         [] form.op = "graphql" /\ form.token ->
                               [latest EXCEPT !.graph = conn.revision + 1]
                         [] OTHER -> latest)
  <1> DEFINE fresh == conn.revision + 1
             c == AfterRow(form, before, fresh)
             newest == CASE form.op = "remove" -> [rest |-> 0, graph |-> 0]
                         [] form.op = "save" /\ form.token -> [latest EXCEPT !.rest = fresh]
                         [] form.op = "graphql" /\ form.token -> [latest EXCEPT !.graph = fresh]
                         [] OTHER -> latest
  <1>1. fresh # 0 /\ conn.on \in BOOLEAN
    BY RevisionBound, RowIsRow
  <1> HIDE DEF fresh
  <1>2. /\ [latest EXCEPT !.rest = fresh].rest = fresh
        /\ [latest EXCEPT !.rest = fresh].graph = latest.graph
        /\ [latest EXCEPT !.graph = fresh].graph = fresh
        /\ [latest EXCEPT !.graph = fresh].rest = latest.rest
    OBVIOUS
  <1>3. CASE form.op = "save"
    <2> DEFINE a == P!Bundle(before, "rest", form.token).rest
               b == P!Bundle(before, "rest", form.token).graph
               life == IF before.lifecycle = "removed" THEN "active" ELSE before.lifecycle
               switch == form.on /\ life = "active"
    <2>1. /\ a = IF form.token THEN fresh ELSE conn.rest
          /\ b = conn.graph
      <3>1. form.token \in BOOLEAN
        BY <1>3, FormShape
      <3> QED
        BY <1>3, <3>1 DEF P!Bundle, fresh
    <2>2. c = Row(conn.installed, fresh, life, switch, a, b,
                  P!Setting(before), "configured")
      BY <1>3 DEF AfterRow
    <2> HIDE DEF a, b, life, c
    <2>3. c.rest = a /\ c.graph = b /\ c.lifecycle = life /\ (c.on => life = "active")
      <3> HIDE DEF switch
      <3>1. c.rest = a /\ c.graph = b /\ c.lifecycle = life /\ c.on = switch
        BY <2>2 DEF Row
      <3>2. switch => life = "active"
        BY DEF switch
      <3> QED
        BY <3>1, <3>2
    <2>4. form.token \/ conn.rest # 0
      BY <1>3 DEF Accepted
    <2>5. /\ form.token => newest.rest = fresh /\ newest.graph = conn.graph
          /\ ~form.token => newest = latest
      BY <1>2, <1>3
    <2> HIDE DEF c, newest
    <2>6. NewestStand(environment, c, newest)
      BY <1>1, <2>1, <2>3, <2>4, <2>5 DEF NewestStand
    <2> QED
      BY <2>6 DEF c, newest, fresh
  <1>4. CASE form.op = "graphql"
    <2> DEFINE a == P!Bundle(before, "graph", form.token).rest
               b == P!Bundle(before, "graph", form.token).graph
               switch == conn.on /\ conn.lifecycle = "active"
    <2>1. /\ a = conn.rest
          /\ b = IF form.token THEN fresh ELSE conn.graph
      <3>1. form.token \in BOOLEAN
        BY <1>4, FormShape
      <3> QED
        BY <1>4, <3>1 DEF P!Bundle, fresh
    <2>2. c = Row(conn.installed, fresh, conn.lifecycle, switch, a, b,
                  form.to, "configured")
      BY <1>4 DEF AfterRow
    <2> HIDE DEF a, b, c
    <2>3. c.rest = a /\ c.graph = b /\ c.lifecycle = conn.lifecycle /\ (c.on => conn.on)
      <3> HIDE DEF switch
      <3>1. c.rest = a /\ c.graph = b /\ c.lifecycle = conn.lifecycle /\ c.on = switch
        BY <2>2 DEF Row
      <3>2. switch => conn.on
        BY DEF switch
      <3> QED
        BY <3>1, <3>2
    <2>4. /\ form.token => newest.graph = fresh /\ newest.rest = conn.rest
          /\ ~form.token => newest = latest
      BY <1>2, <1>4
    <2> HIDE DEF c, newest
    <2>5. NewestStand(environment, c, newest)
      BY <2>1, <2>3, <2>4 DEF NewestStand
    <2> QED
      BY <2>5 DEF c, newest, fresh
  <1>5. CASE form.op = "policy"
    <2>1. c.rest = conn.rest /\ c.graph = conn.graph /\ c.lifecycle = conn.lifecycle /\ (c.on => conn.on)
      BY <1>5 DEF AfterRow, Row
    <2>2. newest = latest
      BY <1>5
    <2> HIDE DEF c, newest
    <2>3. NewestStand(environment, c, newest)
      BY <2>1, <2>2 DEF NewestStand
    <2> QED
      BY <2>3 DEF c, newest, fresh
  <1>6. CASE form.op = "remove"
    <2>1. c.rest = 0 /\ c.graph = 0 /\ c.on = FALSE /\ newest = [rest |-> 0, graph |-> 0]
      BY <1>6 DEF AfterRow, Row
    <2> HIDE DEF c, newest
    <2>2. NewestStand(environment, c, newest)
      BY <2>1 DEF NewestStand
    <2> QED
      BY <2>2 DEF c, newest, fresh
  <1>7. CASE form.op \notin {"save", "graphql", "policy", "remove"}
    <2> DEFINE target == P!Target(before.lifecycle, form.op)
               switch == target = "active"
    <2>1. c = Row(conn.installed, fresh, target, switch, conn.rest, conn.graph,
                  conn.graphql, conn.status)
      BY <1>7 DEF AfterRow
    <2>2. target = "active" => "rest" \in environment \/ conn.rest # 0
      BY <1>7, FormShape DEF Accepted
    <2> HIDE DEF target, c
    <2>3. c.rest = conn.rest /\ c.graph = conn.graph /\ c.lifecycle = target /\ (c.on => target = "active")
      <3> HIDE DEF switch
      <3>1. c.rest = conn.rest /\ c.graph = conn.graph /\ c.lifecycle = target /\ c.on = switch
        BY <2>1 DEF Row
      <3>2. switch => target = "active"
        BY DEF switch
      <3> QED
        BY <3>1, <3>2
    <2>4. newest = latest
      BY <1>7
    <2> HIDE DEF c, newest
    <2>5. NewestStand(environment, c, newest)
      BY <2>2, <2>3, <2>4 DEF NewestStand
    <2> QED
      BY <2>5 DEF c, newest, fresh
  <1> QED
    BY <1>3, <1>4, <1>5, <1>6, <1>7, FormShape

LEMMA WriteStep == ASSUME ConnInv, NEW u \in Users, P!Write(u) PROVE ConnInv'
  <1> DEFINE q == request[u]
             form == q.form
             before == q.before
             fresh == conn.revision + 1
             newest == CASE form.op = "remove" -> [rest |-> 0, graph |-> 0]
                         [] form.op = "save" /\ form.token -> [latest EXCEPT !.rest = fresh]
                         [] form.op = "graphql" /\ form.token -> [latest EXCEPT !.graph = fresh]
                         [] OTHER -> latest
             unversioned == q.expected = 0 /\ ~(form.op = "policy" /\ kind = "ncentral")
  <1>1. ConnTypes /\ conn \in ConnRow /\ q \in FormRequest /\ RequestStands(environment, conn, q)
    BY DEF ConnInv, ConnTypes
  <1>2. /\ q.pc = "read" /\ form \in P!Forms /\ before \in ConnRow /\ q.expected \in 0..MaxRevision
        /\ q.expected <= before.revision /\ Agree(before, conn)
        /\ Accepted(environment, form, before)
    BY <1>1, RequestShape DEF P!Write, RequestStands
  <1>3. request' = [request EXCEPT ![u] = P!Idle] /\ P!Idle \in FormRequest
        /\ UNCHANGED <<kind, environment, capability, test, situation>>
    BY DEF P!Write, FormRequest
  <1>4. CASE UNCHANGED <<conn, latest, loose, raced>>
    <2>1. ConnTypes'
      BY <1>1, <1>3, <1>4 DEF ConnTypes
    <2>2. \A v \in Users : RequestStands(environment', conn', request'[v])
      BY <1>1, <1>3, <1>4 DEF ConnInv, ConnTypes, RequestStands, P!Idle
    <2>3. loose' \/ NewestStand(environment', conn', latest')
      BY <1>3, <1>4 DEF ConnInv
    <2>4. \A t \in Testers : TestStands(environment', conn', raced', t, test'[t])
      BY <1>3, <1>4 DEF ConnInv
    <2>5. \A what \in P!Tests : SnapshotStands(environment', conn', what, capability'[what])
      BY <1>3, <1>4 DEF ConnInv
    <2> QED
      BY <2>1, <2>2, <2>3, <2>4, <2>5 DEF ConnInv
  <1>5. CASE /\ P!SameRevision(q) /\ conn.revision < MaxRevision
             /\ conn' = [P!After(form, before) EXCEPT !.revision = P!NextRevision(form)]
             /\ latest' = newest
             /\ loose' = (loose \/ unversioned)
             /\ raced' = raced \cup {t \in Testers : test[t].pc \in {"called", "labelled"}}
    <2>1. fresh \in 1..MaxRevision /\ conn.revision \in 1..MaxRevision /\ conn.revision < fresh
      BY <1>1, <1>5, RevisionBound, RowIsRow
    <2>2. conn' = AfterRow(form, before, fresh) /\ conn' \in ConnRow
      <3>1. P!NextRevision(form) = fresh
        BY DEF P!NextRevision
      <3> QED
        BY <1>1, <1>2, <1>5, <2>1, <3>1, AfterIsRow
    <2>3. conn'.revision = fresh
      BY <2>2 DEF AfterRow, Row
    <2>4. newest \in [rest : 0..MaxRevision, graph : 0..MaxRevision]
      <3>1. fresh \in 0..MaxRevision /\ latest \in [rest : 0..MaxRevision, graph : 0..MaxRevision]
        BY <1>1, <2>1 DEF ConnTypes
      <3> HIDE DEF fresh
      <3>2. /\ [latest EXCEPT !.rest = fresh] \in [rest : 0..MaxRevision, graph : 0..MaxRevision]
            /\ [latest EXCEPT !.graph = fresh] \in [rest : 0..MaxRevision, graph : 0..MaxRevision]
            /\ [rest |-> 0, graph |-> 0] \in [rest : 0..MaxRevision, graph : 0..MaxRevision]
        BY <3>1, RevisionBound
      <3> QED
        BY <3>1, <3>2
    <2> HIDE DEF newest
    <2>5. loose' \in BOOLEAN
      BY <1>5
    <2>6. request' \in [Users -> FormRequest]
      BY <1>1, <1>3 DEF ConnTypes
    <2>7. raced' \subseteq Testers
      BY <1>1, <1>5 DEF ConnTypes
    <2>8. ConnTypes'
      BY <1>1, <1>3, <1>5, <2>2, <2>4, <2>5, <2>6, <2>7 DEF ConnTypes
    <2>9. loose' \/ NewestStand(environment', conn', latest')
      <3>1. SUFFICES ASSUME ~loose, ~unversioned PROVE NewestStand(environment, conn', newest)
        BY <1>3, <1>5
      <3>2. NewestStand(environment, conn, latest)
        BY <3>1 DEF ConnInv
      <3>3. \/ form.op = "policy" /\ kind = "ncentral"
            \/ /\ before.rest = conn.rest /\ before.graph = conn.graph
               /\ before.lifecycle = conn.lifecycle /\ before.on = conn.on
               /\ before.graphql = conn.graphql
        <4>1. CASE q.expected = conn.revision
          <5>1. before.revision \in 1..MaxRevision
            BY <1>2, RowIsRow
          <5>2. before.revision = conn.revision
            BY <1>2, <2>1, <4>1, <5>1, RevisionBound DEF Agree
          <5> QED
            BY <1>2, <5>2 DEF Agree
        <4>2. CASE q.expected = 0
          BY <3>1, <4>2
        <4> QED
          BY <1>5, <4>1, <4>2 DEF P!SameRevision
      <3>4. /\ conn.rest = latest.rest /\ conn.graph = latest.graph
            /\ conn.on => conn.lifecycle = "active" /\ ("rest" \in environment \/ conn.rest # 0)
        BY <3>2 DEF NewestStand
      <3>5. latest \in [rest : 0..MaxRevision, graph : 0..MaxRevision]
        BY <1>1 DEF ConnTypes
      <3>6. /\ conn \in ConnRow /\ form \in P!Forms /\ before \in ConnRow
            /\ conn.revision < MaxRevision
        BY <1>1, <1>2, <1>5
      <3>7. NewestStand(environment, AfterRow(form, before, conn.revision + 1), newest)
        BY <1>2, <3>3, <3>4, <3>5, <3>6, NewestWritten DEF newest
      <3> QED
        BY <1>5, <2>2, <3>7
    <2>10. ASSUME NEW v \in Users PROVE RequestStands(environment', conn', request'[v])
      <3>1. CASE v = u
        BY <1>1, <1>3, <3>1 DEF ConnTypes, RequestStands, P!Idle
      <3>2. CASE v # u
        <4>1. request'[v] = request[v] /\ request[v] \in FormRequest
              /\ RequestStands(environment, conn, request[v])
          BY <1>1, <1>3, <3>2 DEF ConnInv, ConnTypes
        <4>2. request[v].pc \in {"opened", "read"} => request[v].expected \in 0..MaxRevision
          BY <4>1, RequestShape
        <4>3. request[v].pc = "read" => request[v].before.revision \in 1..MaxRevision
          BY <4>1, RequestShape, RowIsRow
        <4> QED
          BY <1>3, <2>1, <2>3, <4>1, <4>2, <4>3, RevisionBound DEF RequestStands, Agree
      <3> QED
        BY <3>1, <3>2
    <2>11. ASSUME NEW t \in Testers PROVE TestStands(environment', conn', raced', t, test'[t])
      <3>1. test'[t] = test[t] /\ test[t] \in TestRow /\ TestStands(environment, conn, raced, t, test[t])
        BY <1>1, <1>3 DEF ConnInv, ConnTypes
      <3>2. test[t].pc \in {"called", "labelled"} => t \in raced'
        BY <1>5
      <3>3. test[t].pc = "labelled" => test[t].label \in 1..MaxRevision
        BY <3>1, TestShape
      <3> QED
        BY <2>1, <2>3, <3>1, <3>2, <3>3, RevisionBound DEF TestStands
    <2>12. ASSUME NEW what \in P!Tests
           PROVE  SnapshotStands(environment', conn', what, capability'[what])
      <3>1. capability'[what] = capability[what] /\ capability[what] \in Snapshot
            /\ SnapshotStands(environment, conn, what, capability[what])
        BY <1>1, <1>3 DEF ConnInv, ConnTypes
      <3>2. capability[what].status # "none" => capability[what].label \in 1..MaxRevision
        BY <3>1 DEF Snapshot
      <3> QED
        BY <2>1, <2>3, <3>1, <3>2, RevisionBound DEF SnapshotStands
    <2> QED
      BY <2>8, <2>9, <2>10, <2>11, <2>12 DEF ConnInv
  <1> QED
    BY <1>4, <1>5 DEF P!Write

\* Of the row only what no form saves changes.
LEMMA RowTouched ==
    ASSUME NEW c, NEW d, NEW container,
           d.revision = c.revision, d.lifecycle = c.lifecycle, d.on = c.on, d.rest = c.rest,
           d.graph = c.graph, d.graphql = c.graphql
    PROVE  /\ \A q : RequestStands(container, c, q) => RequestStands(container, d, q)
           /\ \A overtaken, t, s : TestStands(container, c, overtaken, t, s)
                                   => TestStands(container, d, overtaken, t, s)
           /\ \A what, found : SnapshotStands(container, c, what, found)
                               => SnapshotStands(container, d, what, found)
           /\ \A last : NewestStand(container, c, last) => NewestStand(container, d, last)
  BY DEF RequestStands, Agree, TestStands, TokenOf, SnapshotStands, NewestStand

LEMMA FormStep ==
    ASSUME ConnInv, NEW u \in Users,
           (\E form \in P!Forms, versioned \in BOOLEAN : P!Open(u, form, versioned)) \/ P!ReadRow(u)
    PROVE  ConnInv'
  <1>0. ConnTypes /\ conn \in ConnRow /\ conn.revision \in 1..MaxRevision /\ request[u] \in FormRequest
        /\ MaxRevision \in Nat \ {0}
    BY RevisionBound, RowIsRow DEF ConnInv, ConnTypes
  <1>1. ASSUME NEW form \in P!Forms, NEW versioned \in BOOLEAN, P!Open(u, form, versioned)
        PROVE  ConnInv'
    <2> DEFINE q == [pc |-> "opened", form |-> form,
                     expected |-> IF versioned THEN conn.revision ELSE 0]
    <2>1. q \in FormRequest /\ q.pc = "opened" /\ q.expected <= conn.revision
      BY <1>0 DEF FormRequest
    <2>2. request' = [request EXCEPT ![u] = q]
          /\ UNCHANGED <<kind, environment, conn, capability, test, situation, latest, loose, raced>>
      BY <1>1 DEF P!Open
    <2> HIDE DEF q
    <2>3. ConnTypes'
      BY <1>0, <2>1, <2>2 DEF ConnTypes
    <2>4. RequestStands(environment, conn, q)
      BY <2>1 DEF RequestStands
    <2>5. \A v \in Users : RequestStands(environment', conn', request'[v])
      BY <1>0, <2>2, <2>4 DEF ConnInv, ConnTypes
    <2> QED
      BY <2>2, <2>3, <2>5 DEF ConnInv
  <1>2. CASE P!ReadRow(u)
    <2>1. /\ request[u].pc = "opened" /\ request[u].form \in P!Forms
          /\ request[u].expected \in 0..MaxRevision /\ request[u].expected <= conn.revision
      BY <1>0, <1>2, RequestShape DEF P!ReadRow, ConnInv, RequestStands
    <2>2. /\ conn' \in ConnRow /\ conn'.revision = conn.revision /\ conn'.lifecycle = conn.lifecycle
          /\ conn'.on = conn.on /\ conn'.rest = conn.rest /\ conn'.graph = conn.graph
          /\ conn'.graphql = conn.graphql
      <3>1. conn' = [conn EXCEPT !.installed = TRUE]
        BY <1>2 DEF P!ReadRow
      <3> QED
        BY <1>0, <3>1 DEF ConnRow
    <2> DEFINE read == [pc |-> "read", form |-> request[u].form, expected |-> request[u].expected,
                        before |-> conn]
    <2>3. PICK q \in {read, P!Idle} :
              /\ request' = [request EXCEPT ![u] = q]
              /\ q = read => P!Accepts(request[u].form, conn)
      BY <1>0, <1>2 DEF P!ReadRow, ConnTypes, P!Idle
    <2>4. q \in FormRequest
      BY <1>0, <2>1, <2>3 DEF FormRequest
    <2>5. RequestStands(environment, conn, q)
      <3>1. CASE q = P!Idle
        BY <3>1 DEF RequestStands, P!Idle
      <3>2. CASE q = read
        <4>1. Accepted(environment, request[u].form, conn)
          BY <2>1, <2>3, <3>2, FormShape DEF Accepted, P!Accepts, P!RestConfigured
        <4>2. Agree(conn, conn)
          BY <1>0 DEF Agree
        <4> QED
          BY <2>1, <3>2, <4>1, <4>2 DEF RequestStands
      <3> QED
        BY <2>3, <3>1, <3>2
    <2> HIDE DEF read
    <2>6. UNCHANGED <<kind, environment, capability, test, situation, latest, loose, raced>>
      BY <1>2 DEF P!ReadRow
    <2>7. ConnTypes'
      BY <1>0, <2>2, <2>3, <2>4, <2>6 DEF ConnTypes
    <2>8. \A v \in Users : RequestStands(environment, conn, request'[v])
      BY <1>0, <2>3, <2>5 DEF ConnInv, ConnTypes
    <2>9. \A v \in Users : RequestStands(environment', conn', request'[v])
      BY <2>2, <2>6, <2>8, RowTouched
    <2>10. loose' \/ NewestStand(environment', conn', latest')
      BY <2>2, <2>6, RowTouched DEF ConnInv
    <2>11. \A t \in Testers : TestStands(environment', conn', raced', t, test'[t])
      BY <2>2, <2>6, RowTouched DEF ConnInv
    <2>12. \A what \in P!Tests : SnapshotStands(environment', conn', what, capability'[what])
      BY <2>2, <2>6, RowTouched DEF ConnInv
    <2> QED
      BY <2>7, <2>9, <2>10, <2>11, <2>12 DEF ConnInv
  <1> QED
    BY <1>1, <1>2

\* One test goes on to row s, and nothing it relies on changes.
LEMMA TestMoves ==
    ASSUME ConnInv, NEW t \in Testers, NEW s \in TestRow, test' = [test EXCEPT ![t] = s],
           NEW over \in SUBSET Testers, raced' = over, over \ {t} = raced \ {t},
           TestStands(environment, conn, over, t, s),
           UNCHANGED <<environment, conn, request, latest, loose>>
    PROVE  /\ capability' \in [P!Tests -> Snapshot]
              /\ (\A what \in P!Tests : SnapshotStands(environment, conn, what, capability'[what]))
              => ConnInv'
           /\ capability' = capability => ConnInv'
  <1>1. \A v \in Testers : TestStands(environment', conn', raced', v, test'[v])
    <2>1. test \in [Testers -> TestRow]
      BY DEF ConnInv, ConnTypes
    <2>2. TestStands(environment', conn', raced', t, test'[t])
      BY <2>1
    <2>3. ASSUME NEW v \in Testers \ {t} PROVE TestStands(environment', conn', raced', v, test'[v])
      <3>1. test'[v] = test[v] /\ (v \in over <=> v \in raced)
        BY <2>1
      <3> QED
        BY <3>1 DEF ConnInv, TestStands
    <2> QED
      BY <2>2, <2>3
  <1>2. ASSUME capability' \in [P!Tests -> Snapshot] PROVE ConnTypes'
    BY <1>2 DEF ConnInv, ConnTypes
  <1>3. /\ loose' \/ NewestStand(environment', conn', latest')
        /\ \A u \in Users : RequestStands(environment', conn', request'[u])
    BY DEF ConnInv
  <1>4. /\ capability \in [P!Tests -> Snapshot]
        /\ \A what \in P!Tests : SnapshotStands(environment, conn, what, capability[what])
    BY DEF ConnInv, ConnTypes
  <1> QED
    BY <1>1, <1>2, <1>3, <1>4 DEF ConnInv

LEMMA TestStep ==
    ASSUME ConnInv, NEW t \in Testers,
           \/ \E what \in P!Tests, works \in BOOLEAN : P!BeginTest(t, what, works)
           \/ P!LabelTest(t) \/ P!StoreCapability(t)
    PROVE  ConnInv'
  <1>0. /\ ConnTypes /\ conn \in ConnRow /\ conn.revision \in 1..MaxRevision
        /\ conn.rest \in 0..MaxRevision /\ conn.graph \in 0..MaxRevision
        /\ test[t] \in TestRow /\ raced \in SUBSET Testers /\ MaxRevision \in Nat \ {0}
        /\ TestStands(environment, conn, raced, t, test[t])
    BY RevisionBound, RowIsRow DEF ConnInv, ConnTypes
  <1>1. ASSUME NEW what \in P!Tests, NEW works \in BOOLEAN, P!BeginTest(t, what, works)
        PROVE  ConnInv'
    <2> DEFINE used == IF what \in environment THEN 0
                        ELSE IF what = "rest" THEN conn.rest ELSE conn.graph
    <2>1. used \in 0..MaxRevision /\ used = TokenOf(environment, conn, what)
      BY <1>0 DEF TokenOf
    <2>2. PICK pc \in {"called", "marking"}, status \in {"supported", "error"} :
              test' = [test EXCEPT ![t] = [pc |-> pc, what |-> what, used |-> used,
                                           status |-> status]]
      BY <1>1 DEF P!BeginTest
    <2> HIDE DEF used
    <2> DEFINE s == [pc |-> pc, what |-> what, used |-> used, status |-> status]
    <2>3. s \in TestRow
      BY <2>1 DEF TestRow
    <2>4. raced' = raced \ {t} /\ raced \ {t} \in SUBSET Testers /\ (raced \ {t}) \ {t} = raced \ {t}
          /\ UNCHANGED <<environment, conn, request, latest, loose, capability>>
      BY <1>0, <1>1 DEF P!BeginTest
    <2>5. TestStands(environment, conn, raced \ {t}, t, s)
      BY <2>1 DEF TestStands
    <2>6. test' = [test EXCEPT ![t] = s]
      BY <2>2
    <2> HIDE DEF s
    <2> QED
      BY <2>3, <2>4, <2>5, <2>6, TestMoves
  <1>2. CASE P!LabelTest(t)
    <2> DEFINE s == [pc |-> "labelled", what |-> test[t].what, used |-> test[t].used,
                     status |-> test[t].status, label |-> conn.revision]
    <2>1. test[t].pc = "called" /\ test[t].what \in P!Tests /\ test[t].used \in 0..MaxRevision
          /\ test[t].status \in {"supported", "error"}
      BY <1>0, <1>2, TestShape DEF P!LabelTest
    <2>2. s \in TestRow
      BY <1>0, <2>1 DEF TestRow
    <2>3. TestStands(environment, conn, raced, t, s)
      BY <1>0, <2>1 DEF TestStands
    <2>4. test' = [test EXCEPT ![t] = s]
          /\ UNCHANGED <<environment, conn, request, latest, loose, capability, raced>>
      BY <1>2 DEF P!LabelTest
    <2> HIDE DEF s
    <2> QED
      BY <1>0, <2>2, <2>3, <2>4, TestMoves
  <1>3. CASE P!StoreCapability(t)
    <2>1. /\ test[t].pc = "labelled" /\ test[t].what \in P!Tests /\ test[t].used \in 0..MaxRevision
          /\ test[t].status \in {"supported", "error"} /\ test[t].label \in 1..MaxRevision
          /\ test[t].label <= conn.revision
          /\ t \notin raced => test[t].used = TokenOf(environment, conn, test[t].what)
      BY <1>0, <1>3, TestShape DEF P!StoreCapability, TestStands
    <2> DEFINE overtaken == t \in raced
               found == [status |-> test[t].status, label |-> test[t].label, expired |-> FALSE,
                         used |-> test[t].used, raced |-> overtaken]
               s == IF test[t].what = "rest" THEN [test[t] EXCEPT !.pc = "marking"] ELSE P!Idle
    <2>2. /\ capability' = [capability EXCEPT ![test[t].what] = found]
          /\ test' = [test EXCEPT ![t] = s]
          /\ UNCHANGED <<environment, conn, request, latest, loose, raced>>
      BY <1>3 DEF P!StoreCapability
    <2>3. overtaken \in BOOLEAN
      OBVIOUS
    <2>4. found \in Snapshot /\ SnapshotStands(environment, conn, test[t].what, found)
      <3>1. ~overtaken => test[t].used = TokenOf(environment, conn, test[t].what)
        BY <2>1
      <3> HIDE DEF overtaken
      <3>2. found \in Snapshot
        BY <2>1, <2>3 DEF Snapshot
      <3>3. SnapshotStands(environment, conn, test[t].what, found)
        BY <2>1, <3>1 DEF SnapshotStands
      <3> QED
        BY <3>2, <3>3
    <2>5. s \in TestRow /\ s.pc \in {"idle", "marking"}
      <3> DEFINE LabelledRow == [pc : {"labelled", "marking"}, what : P!Tests, used : 0..MaxRevision,
                                 status : {"supported", "error"}, label : 1..MaxRevision]
      <3>1. test[t] \in LabelledRow
        BY <1>0, <2>1 DEF TestRow, P!Idle
      <3>2. [test[t] EXCEPT !.pc = "marking"] \in LabelledRow
            /\ [test[t] EXCEPT !.pc = "marking"].pc = "marking"
        BY <3>1
      <3>3. P!Idle \in TestRow /\ P!Idle.pc = "idle"
        BY DEF TestRow, P!Idle
      <3> QED
        BY <3>2, <3>3 DEF TestRow
    <2>6. TestStands(environment, conn, raced, t, s)
      BY <2>5 DEF TestStands
    <2> HIDE DEF s, found
    <2>7. /\ capability' \in [P!Tests -> Snapshot]
          /\ \A what \in P!Tests : SnapshotStands(environment, conn, what, capability'[what])
      BY <2>1, <2>2, <2>4 DEF ConnInv, ConnTypes
    <2> QED
      BY <1>0, <2>2, <2>5, <2>6, <2>7, TestMoves
  <1> QED
    BY <1>1, <1>2, <1>3

LEMMA MarkStep ==
    ASSUME ConnInv,
           (\E t \in Testers : P!MarkTest(t)) \/ (\E what \in P!Tests : P!Expire(what))
    PROVE  ConnInv'
  <1>0. ConnTypes /\ conn \in ConnRow /\ capability \in [P!Tests -> Snapshot]
    BY DEF ConnInv, ConnTypes
  <1>1. ASSUME NEW t \in Testers, P!MarkTest(t) PROVE ConnInv'
    <2>1. PICK status \in {"verified", "error"} : conn' = [conn EXCEPT !.status = status]
      BY <1>1 DEF P!MarkTest
    <2>2. /\ conn' \in ConnRow /\ conn'.revision = conn.revision /\ conn'.lifecycle = conn.lifecycle
          /\ conn'.on = conn.on /\ conn'.rest = conn.rest /\ conn'.graph = conn.graph
          /\ conn'.graphql = conn.graphql
      BY <1>0, <2>1 DEF ConnRow
    <2>3. test' = [test EXCEPT ![t] = P!Idle] /\ P!Idle \in TestRow
          /\ UNCHANGED <<environment, capability, request, latest, loose, raced>>
      BY <1>1 DEF P!MarkTest, TestRow
    <2>4. ConnTypes'
      BY <1>0, <2>2, <2>3 DEF ConnTypes
    <2>5. \A u \in Users : RequestStands(environment', conn', request'[u])
      BY <2>2, <2>3, RowTouched DEF ConnInv
    <2>6. loose' \/ NewestStand(environment', conn', latest')
      BY <2>2, <2>3, RowTouched DEF ConnInv
    <2>7. ASSUME NEW v \in Testers PROVE TestStands(environment, conn, raced, v, test'[v])
      <3>1. test'[v] = IF v = t THEN P!Idle ELSE test[v]
        BY <1>0, <2>3 DEF ConnTypes
      <3>2. TestStands(environment, conn, raced, v, P!Idle)
        BY DEF TestStands, P!Idle
      <3> QED
        BY <3>1, <3>2 DEF ConnInv
    <2>8. \A v \in Testers : TestStands(environment', conn', raced', v, test'[v])
      BY <2>2, <2>3, <2>7, RowTouched
    <2>9. \A what \in P!Tests : SnapshotStands(environment', conn', what, capability'[what])
      BY <2>2, <2>3, RowTouched DEF ConnInv
    <2> QED
      BY <2>4, <2>5, <2>6, <2>8, <2>9 DEF ConnInv
  <1>2. ASSUME NEW what \in P!Tests, P!Expire(what) PROVE ConnInv'
    <2> DEFINE found == [capability[what] EXCEPT !.expired = TRUE]
               TriedRow == [status : {"supported", "error"}, label : 1..MaxRevision,
                            expired : BOOLEAN, used : 0..MaxRevision, raced : BOOLEAN]
    <2>1. capability[what] \in TriedRow /\ capability[what].status # "none"
      BY <1>0, <1>2 DEF P!Expire, Snapshot
    <2>2. /\ found \in TriedRow /\ found.label = capability[what].label
          /\ found.raced = capability[what].raced /\ found.used = capability[what].used
      BY <2>1
    <2>3. capability' = [capability EXCEPT ![what] = found]
          /\ UNCHANGED <<environment, conn, request, test, latest, loose, raced>>
      BY <1>2 DEF P!Expire
    <2>4. SnapshotStands(environment, conn, what, found)
      <3>1. SnapshotStands(environment, conn, what, capability[what])
        BY DEF ConnInv
      <3> HIDE DEF found
      <3> QED
        BY <2>1, <2>2, <3>1 DEF SnapshotStands
    <2>5. found \in Snapshot
      BY <2>2 DEF Snapshot
    <2> HIDE DEF found
    <2>6. /\ capability' \in [P!Tests -> Snapshot]
          /\ \A which \in P!Tests : SnapshotStands(environment', conn', which, capability'[which])
      BY <1>0, <2>3, <2>4, <2>5 DEF ConnInv
    <2>7. ConnTypes'
      BY <1>0, <2>3, <2>6 DEF ConnTypes
    <2> QED
      BY <2>3, <2>6, <2>7 DEF ConnInv
  <1> QED
    BY <1>1, <1>2

LEMMA ConnNext == ASSUME ConnInv, [P!Next]_(P!vars) PROVE ConnInv'
  <1>1. ASSUME NEW u \in Users,
               (\E form \in P!Forms, versioned \in BOOLEAN : P!Open(u, form, versioned)) \/ P!ReadRow(u)
        PROVE  ConnInv'
    BY <1>1, FormStep
  <1>2. ASSUME NEW u \in Users, P!Write(u) PROVE ConnInv'
    BY <1>2, WriteStep
  <1>3. ASSUME NEW t \in Testers,
               \/ \E what \in P!Tests, works \in BOOLEAN : P!BeginTest(t, what, works)
               \/ P!LabelTest(t) \/ P!StoreCapability(t)
        PROVE  ConnInv'
    BY <1>3, TestStep
  <1>4. ASSUME (\E t \in Testers : P!MarkTest(t)) \/ (\E what \in P!Tests : P!Expire(what))
        PROVE  ConnInv'
    BY <1>4, MarkStep
  <1>5. CASE UNCHANGED P!vars
    BY <1>5 DEF P!vars, ConnInv, ConnTypes
  <1> QED
    BY <1>1, <1>2, <1>3, <1>4, <1>5 DEF P!Next

LEMMA ConnTypeOK == ConnInv => P!TypeOK
  <1> SUFFICES ASSUME ConnInv PROVE P!TypeOK
    OBVIOUS
  <1>1. \A u \in Users : request[u].pc \in {"idle", "opened", "read"}
    BY RequestShape DEF ConnInv, ConnTypes
  <1>2. \A t \in Testers : test[t].pc \in {"idle", "called", "labelled", "marking"}
    BY TestShape DEF ConnInv, ConnTypes
  <1> QED
    BY <1>1, <1>2 DEF P!TypeOK, ConnInv, ConnTypes, ConnRow, Lifecycles

LEMMA NewestTokens == ConnInv => P!NewestTokensStand
  BY DEF ConnInv, P!NewestTokensStand, NewestStand, P!RestConfigured

LEMMA TestGates ==
    ASSUME NEW found, NEW revision
    PROVE  LET state == P!CapabilityState(found, revision)
           IN P!TestGate(state) # "blocked" => found.status = "supported" /\ found.label = revision
  <1> DEFINE state == P!CapabilityState(found, revision)
  <1>1. state \in {"current", "expired"} => found.status = "supported" /\ found.label = revision
    BY DEF P!CapabilityState
  <1>2. P!TestGate(state) # "blocked" => state \in {"current", "expired"}
    BY DEF P!TestGate, P!Gate
  <1> QED
    BY <1>1, <1>2

\* A test that is current was made with the token of now, or overtaken.
LEMMA TestPassed ==
    ASSUME ConnInv, NEW what \in P!Tests,
           P!TestGate(P!CapabilityState(capability[what], conn.revision)) # "blocked"
    PROVE  P!Passed(what)
  <1>1. capability[what].status = "supported" /\ capability[what].label = conn.revision
    BY TestGates
  <1>2. SnapshotStands(environment, conn, what, capability[what])
    BY DEF ConnInv
  <1> QED
    BY <1>1, <1>2 DEF SnapshotStands, TokenOf, P!Passed, P!TestedAt

LEMMA ReadyIsUsable == ConnInv => P!ReadyMeansUsable
  <1> SUFFICES ASSUME ConnInv PROVE P!ReadyMeansUsable
    OBVIOUS
  <1> DEFINE gates == P!ConnectionGates(conn) \cup P!CustomerGates \cup P!GraphqlGates(conn)
                          \cup P!CacheGates(conn) \cup P!WorkerGates
             rest == P!CapabilityState(capability["rest"], conn.revision)
             graph == P!CapabilityState(capability["graphql"], conn.revision)
  <1>1. /\ P!Overall(conn) # "blocked" => \A g \in gates : g[2] # "blocked"
        /\ P!Overall(conn) = "ready" => \A g \in gates : g[2] \notin {"blocked", "warning"}
    BY DEF P!Overall
  <1>2. /\ <<"connection_installed", P!Gate(~conn.installed, FALSE)>> \in gates
        /\ <<"connection_active", P!Gate(~conn.installed \/ conn.lifecycle # "active", FALSE)>> \in gates
        /\ <<"connection_enabled", P!Gate(~(conn.on /\ conn.lifecycle = "active"), FALSE)>> \in gates
        /\ <<"rest_credentials", P!Gate(~P!RestConfigured(conn), FALSE)>> \in gates
        /\ <<"rest_connection_test", P!TestGate(rest)>> \in gates
    BY DEF P!ConnectionGates
  <1>3. /\ <<"customer_mapping", P!Gate(P!Mapped = {}, P!Mapped # P!Listed)>> \in gates
        /\ <<"device_policies", P!Gate(\E x \in P!Mapped : x.policy = "none",
                                       \E x \in P!Mapped : x.failing)>> \in gates
    BY DEF P!CustomerGates
  <1>4. P!Continuous # {} => <<"continuous_worker", P!Gate(~situation.worker, FALSE)>> \in gates
    BY DEF P!WorkerGates
  <1>5. P!GraphEnabled(conn) =>
            /\ <<"graphql_configuration", P!Gate(~P!GraphConfigured(conn), FALSE)>> \in gates
            /\ <<"graphql_capability", P!TestGate(graph)>> \in gates
            /\ <<"graphql_server_binding", P!Gate(~P!ServerBound(conn), FALSE)>> \in gates
            /\ <<"graphql_customer_scope", P!Gate(FALSE, P!Scoped # P!Mapped)>> \in gates
    BY DEF P!GraphqlGates
  <1>6. P!GraphEnabled(conn) /\ P!Scoped # {} =>
            <<"graphql_cache",
              P!Gate(FALSE, \/ ~(P!ServerBound(conn) /\ P!RequireActive(conn))
                            \/ \E x \in P!Scoped : x.cache # "complete")>> \in gates
    BY DEF P!CacheGates
  <1> HIDE DEF gates, rest, graph
  <1>7. ASSUME P!Overall(conn) # "blocked"
        PROVE  /\ P!RequireActive(conn) /\ P!RestConfigured(conn) /\ P!Passed("rest")
               /\ P!Mapped # {}
               /\ \A x \in P!Mapped : /\ x.policy # "none"
                                      /\ x.policy = "continuous" => situation.worker
    <2>1. \A name, s : <<name, s>> \in gates => s # "blocked"
      BY <1>1, <1>7
    <2>2. /\ conn.installed /\ conn.lifecycle = "active" /\ conn.on /\ P!RestConfigured(conn)
      BY <1>2, <2>1 DEF P!Gate
    <2>3. P!Passed("rest")
      BY <1>2, <2>1, TestPassed DEF rest, P!Tests
    <2>4. P!Mapped # {} /\ ~\E x \in P!Mapped : x.policy = "none"
      BY <1>3, <2>1 DEF P!Gate
    <2>5. ASSUME NEW x \in P!Mapped, x.policy = "continuous" PROVE situation.worker
      <3>1. P!Continuous # {}
        BY <2>5 DEF P!Continuous
      <3> QED
        BY <1>4, <2>1, <3>1 DEF P!Gate
    <2> QED
      BY <2>2, <2>3, <2>4, <2>5 DEF P!RequireActive
  <1>8. ASSUME P!Overall(conn) = "ready", P!GraphEnabled(conn)
        PROVE  /\ P!GraphConfigured(conn) /\ P!ServerBound(conn) /\ P!Passed("graphql")
               /\ \A x \in P!Mapped : x.scoped /\ x.cache = "complete"
    <2>1. \A name, s : <<name, s>> \in gates => s \notin {"blocked", "warning"}
      BY <1>1, <1>8
    <2>2. P!GraphConfigured(conn) /\ P!ServerBound(conn)
      BY <1>5, <1>8, <2>1 DEF P!Gate
    <2>3. P!Passed("graphql")
      BY <1>5, <1>8, <2>1, TestPassed DEF graph, P!Tests
    <2>4. P!Scoped = P!Mapped
      BY <1>5, <1>8, <2>1 DEF P!Gate
    <2>5. P!Mapped # {} => \A x \in P!Scoped : x.cache = "complete"
      <3>1. SUFFICES ASSUME P!Mapped # {} PROVE ~\E x \in P!Scoped : x.cache # "complete"
        OBVIOUS
      <3> QED
        BY <1>6, <1>8, <2>1, <2>4, <3>1 DEF P!Gate
    <2>6. \A x \in P!Mapped : x.scoped
      BY <2>4 DEF P!Scoped
    <2> QED
      BY <2>2, <2>3, <2>4, <2>5, <2>6
  <1> QED
    BY <1>7, <1>8 DEF P!ReadyMeansUsable

----------------------------------------------------------------------------
(* The order in which details are read *)

LEMMA RotationBounds ==
    /\ \A S \in Estates : S \subseteq Int /\ IsFiniteSet(S)
    /\ Limit \in [R!Modes -> Nat] /\ "fast" \in R!Modes
    /\ MaxListed \in Nat /\ MaxPreviews \in Nat
  BY ProviderAssumption DEF R!RotationAssumption, IsFiniteSet, R!IsFiniteSet

\* A number determines its quotient and its remainder.
LEMMA Quotient ==
    ASSUME NEW a \in Nat, NEW n \in Nat \ {0}
    PROVE  a = n * (a \div n) + (a % n) /\ a % n \in 0..(n - 1) /\ a \div n \in Int
  <1>1. a = n * (a \div n) + (a % n)
    BY SMTT(30)
  <1> QED
    BY <1>1

LEMMA Unique ==
    ASSUME NEW n \in Nat \ {0}, NEW p \in Int, NEW q \in Int, NEW r \in 0..(n - 1),
           NEW s \in 0..(n - 1), n * p + r = n * q + s
    PROVE  r = s
  <1>1. n * (p - q) = s - r
    OBVIOUS
  <1>2. CASE p - q >= 1
    <2>1. n * (p - q) >= n * 1
      BY <1>2
    <2> QED
      BY <1>1, <2>1
  <1>3. CASE p - q <= -1
    <2>1. n * (p - q) <= n * (-1)
      BY <1>3
    <2> QED
      BY <1>1, <2>1
  <1> QED
    BY <1>1, <1>2, <1>3

LEMMA RemainderOfSum ==
    ASSUME NEW c \in Nat, NEW m \in Nat, NEW n \in Nat \ {0}
    PROVE  ((c % n) + m) % n = (c + m) % n
  <1> DEFINE r == c % n
  <1>1. c = n * (c \div n) + r /\ r \in 0..(n - 1) /\ c \div n \in Int
    BY Quotient
  <1> HIDE DEF r
  <1>2. /\ r + m = n * ((r + m) \div n) + ((r + m) % n)
        /\ (r + m) % n \in 0..(n - 1) /\ (r + m) \div n \in Int
    BY <1>1, Quotient
  <1>3. /\ c + m = n * ((c + m) \div n) + ((c + m) % n)
        /\ (c + m) % n \in 0..(n - 1) /\ (c + m) \div n \in Int
    BY Quotient
  <1> DEFINE p == c \div n + (r + m) \div n
             q == (c + m) \div n
             s == (r + m) % n
             t == (c + m) % n
  <1>4. n * p + s = n * q + t
    <2>1. n * p = n * (c \div n) + n * ((r + m) \div n)
      BY <1>1, <1>2
    <2> QED
      BY <1>1, <1>2, <1>3, <2>1
  <1>5. p \in Int /\ q \in Int /\ s \in 0..(n - 1) /\ t \in 0..(n - 1)
    BY <1>1, <1>2, <1>3
  <1> HIDE DEF p, q, s, t
  <1>6. s = t
    BY <1>4, <1>5, Unique
  <1> QED
    BY <1>6 DEF s, t, r

LEMMA RemainderReached ==
    ASSUME NEW c \in Nat, NEW n \in Nat \ {0}, NEW r \in 0..(n - 1)
    PROVE  \E m \in 0..(n - 1) : (c + m) % n = r
  <1> DEFINE s == c % n
  <1>1. s \in 0..(n - 1)
    BY Quotient
  <1> DEFINE m == IF s <= r THEN r - s ELSE n + r - s
  <1>2. m \in 0..(n - 1) /\ m \in Nat /\ s + m \in Nat /\ (s + m = r \/ s + m = n + r)
    <2> HIDE DEF s
    <2> QED
      BY <1>1
  <1> HIDE DEF m
  <1>3. (c + m) % n = (s + m) % n
    BY <1>2, RemainderOfSum
  <1> HIDE DEF s
  <1>4. (s + m) % n = r
    <2>1. /\ s + m = n * ((s + m) \div n) + ((s + m) % n)
          /\ (s + m) % n \in 0..(n - 1) /\ (s + m) \div n \in Int
      BY <1>2, Quotient
    <2>2. n * 0 = 0 /\ n * 1 = n
      OBVIOUS
    <2>3. PICK q \in {0, 1} : s + m = n * q + r
      BY <1>2, <2>2
    <2> DEFINE p == (s + m) \div n
               t == (s + m) % n
    <2>4. p \in Int /\ t \in 0..(n - 1) /\ q \in Int /\ n * p + t = n * q + r
      BY <2>1, <2>3
    <2> HIDE DEF p, t
    <2>5. t = r
      BY <2>4, Unique
    <2> QED
      BY <2>5 DEF t
  <1> QED
    BY <1>2, <1>3, <1>4

\* No two devices of an estate have one place.
LEMMA Places ==
    ASSUME NEW S \in Estates
    PROVE  /\ Cardinality(S) \in Nat
           /\ \A d \in S : R!Place(S, d) \in 0..(Cardinality(S) - 1)
           /\ \A d, e \in S : R!Place(S, d) = R!Place(S, e) => d = e
  <1> DEFINE Below(d) == {x \in S : x < d}
  <1>1. S \subseteq Int /\ IsFiniteSet(S)
    BY RotationBounds
  <1>2. \A d : R!Place(S, d) = Cardinality(Below(d))
    BY DEF R!Place, R!Cardinality, Cardinality
  <1>3. Cardinality(S) \in Nat
    BY <1>1, FS_CardinalityType
  <1>4. ASSUME NEW d \in S
        PROVE  IsFiniteSet(Below(d)) /\ Cardinality(Below(d)) \in 0..(Cardinality(S) - 1)
    <2>1. Below(d) \in SUBSET S /\ Below(d) # S
      <3>1. d \notin Below(d)
        BY <1>1
      <3> QED
        BY <3>1
    <2> HIDE DEF Below
    <2>2. /\ IsFiniteSet(Below(d)) /\ Cardinality(Below(d)) <= Cardinality(S)
          /\ Cardinality(S) = Cardinality(Below(d)) => S = Below(d)
      BY <1>1, <2>1, FS_Subset
    <2>3. Cardinality(Below(d)) \in Nat
      BY <2>2, FS_CardinalityType
    <2> QED
      BY <1>3, <2>1, <2>2, <2>3
  <1>5. ASSUME NEW d \in S, NEW e \in S, d < e
        PROVE  Cardinality(Below(d)) # Cardinality(Below(e))
    <2>1. Below(d) \in SUBSET Below(e) /\ d \in Below(e) /\ d \notin Below(d)
      <3>1. \A x \in S : x < d => x < e
        BY <1>1, <1>5
      <3>2. ~(d < d)
        BY <1>1
      <3> QED
        BY <1>5, <3>1, <3>2
    <2>2. IsFiniteSet(Below(e))
      BY <1>4
    <2> HIDE DEF Below
    <2>3. Cardinality(Below(e)) = Cardinality(Below(d)) => Below(e) = Below(d)
      BY <2>1, <2>2, FS_Subset
    <2> QED
      BY <2>1, <2>3
  <1>6. ASSUME NEW d \in S, NEW e \in S, R!Place(S, d) = R!Place(S, e) PROVE d = e
    <2>1. ~(d < e) /\ ~(e < d)
      BY <1>2, <1>5, <1>6
    <2> QED
      BY <1>1, <2>1
  <1> QED
    BY <1>2, <1>3, <1>4, <1>6

\* Device d is m places from cursor c on.
Distant(S, c, d, m) == m \in 0..(Cardinality(S) - 1) /\ (c + m) % Cardinality(S) = R!Place(S, d)

\* It is reached before it has waited too long.
Within(S, c, limit, d, rounds) ==
    \E m \in 0..(Cardinality(S) - 1) :
        Distant(S, c, d, m) /\ rounds * limit + m <= Cardinality(S) - 1

LEMMA WithinAtFirst ==
    ASSUME NEW S \in Estates, NEW c \in Nat, NEW limit \in Nat, NEW d \in S
    PROVE  Within(S, c, limit, d, 0)
  <1>1. R!Place(S, d) \in 0..(Cardinality(S) - 1) /\ Cardinality(S) \in Nat \ {0}
    BY Places
  <1>2. PICK m \in 0..(Cardinality(S) - 1) : (c + m) % Cardinality(S) = R!Place(S, d)
    BY <1>1, RemainderReached
  <1>3. 0 * limit + m <= Cardinality(S) - 1
    BY <1>1
  <1> QED
    BY <1>2, <1>3 DEF Within, Distant

\* A round brings every device it does not read nearer by its limit.
LEMMA RoundComesNearer ==
    ASSUME NEW S \in Estates, NEW c \in Nat, NEW limit \in Nat, limit > 0, NEW d \in S, NEW rounds \in Nat,
           Within(S, c, limit, d, rounds), d \notin R!Window(S, c, limit)
    PROVE  Within(S, R!NextOffset(c, S, limit), limit, d, rounds + 1)
  <1> DEFINE n == Cardinality(S)
             nextc == R!NextOffset(c, S, limit)
  <1>1. n \in Nat \ {0} /\ n = R!Cardinality(S)
    <2>1. n \in Nat /\ R!Place(S, d) \in 0..(n - 1)
      BY Places
    <2>2. n = R!Cardinality(S)
      BY DEF R!Cardinality, Cardinality
    <2> QED
      BY <2>1, <2>2
  <1>2. PICK m \in 0..(n - 1) : (c + m) % n = R!Place(S, d) /\ rounds * limit + m <= n - 1
    BY DEF Within, Distant
  <1>3. m >= limit
    <2>1. SUFFICES ASSUME m < limit PROVE FALSE
      BY <1>1
    <2>2. m \in 0..(limit - 1)
      BY <1>1, <2>1
    <2>3. d \in R!Window(S, c, limit)
      BY <1>1, <1>2, <2>2 DEF R!Window
    <2> QED
      BY <2>3
  <1>4. nextc = (c + limit) % n
    BY <1>1 DEF R!NextOffset
  <1> HIDE DEF n, nextc
  <1> DEFINE k == m - limit
  <1>5. k \in 0..(n - 1) /\ k \in Nat /\ c + limit \in Nat /\ (c + limit) + k = c + m
    BY <1>1, <1>2, <1>3
  <1>6. (nextc + k) % n = R!Place(S, d)
    <2>1. PICK a \in Nat : a = c + limit
      BY <1>5
    <2>2. ((a % n) + k) % n = (a + k) % n
      BY <1>1, <1>5, RemainderOfSum
    <2> QED
      BY <1>2, <1>4, <1>5, <2>1, <2>2
  <1>7. (rounds + 1) * limit + k <= n - 1
    <2>1. (rounds + 1) * limit = rounds * limit + limit
      OBVIOUS
    <2> QED
      BY <1>1, <1>2, <2>1
  <1> QED
    BY <1>5, <1>6, <1>7 DEF Within, Distant, n, nextc

LEMMA OffsetIsNumber ==
    ASSUME NEW S \in Estates, NEW c \in Nat, NEW limit \in Nat
    PROVE  R!NextOffset(c, S, limit) \in Nat
  <1>1. CASE S = {} \/ limit = 0
    BY <1>1 DEF R!NextOffset
  <1>2. CASE S # {} /\ limit # 0
    <2>1. Cardinality(S) \in Nat \ {0}
      <3>1. PICK d \in S : TRUE
        BY <1>2
      <3>2. Cardinality(S) \in Nat /\ R!Place(S, d) \in 0..(Cardinality(S) - 1)
        BY <3>1, Places
      <3> QED
        BY <3>2
    <2>2. (c + limit) % Cardinality(S) \in 0..(Cardinality(S) - 1)
      BY <2>1, Quotient
    <2> QED
      BY <1>2, <2>1, <2>2 DEF R!NextOffset, R!Cardinality, Cardinality
  <1> QED
    BY <1>1, <1>2

\* A window holds no more devices than its limit.
LEMMA WindowSize ==
    ASSUME NEW S \in Estates, NEW c \in Nat, NEW limit \in Nat
    PROVE  R!Window(S, c, limit) \subseteq S /\ Cardinality(R!Window(S, c, limit)) <= limit
  <1> DEFINE W == R!Window(S, c, limit)
             n == Cardinality(S)
             At(d) == CHOOSE k \in 0..(limit - 1) : R!Place(S, d) = (c + k) % n
             f == [d \in W |-> At(d)]
  <1>1. W \subseteq S /\ \A d \in W : \E k \in 0..(limit - 1) : R!Place(S, d) = (c + k) % n
    BY DEF R!Window, R!Cardinality, Cardinality
  <1>2. \A d \in W : At(d) \in 0..(limit - 1) /\ R!Place(S, d) = (c + At(d)) % n
    BY <1>1
  <1> HIDE DEF W, At, n
  <1>3. f \in Injection(W, 0..(limit - 1))
    <2>1. \A d, e \in W : f[d] = f[e] => d = e
      BY <1>1, <1>2, Places
    <2> QED
      BY <1>2, <2>1 DEF Injection, IsInjective
  <1>4. IsFiniteSet(0..(limit - 1)) /\ Cardinality(0..(limit - 1)) = limit
    BY FS_Interval
  <1> HIDE DEF f
  <1>5. Cardinality(W) <= limit
    BY <1>3, <1>4, FS_Injection
  <1> QED
    BY <1>1, <1>5 DEF W

RunRow == [org : Orgs, status : {"active", "success", "failed"}, durable : BOOLEAN, next : Nat]

PreviewRow == [step : R!Steps, durable : BOOLEAN, mode : R!Modes, offset : Nat,
               rows : Estates \cup {{}}, window : SUBSET UNION Estates]

RotationTypes ==
    /\ estate \in [Orgs -> Estates] /\ mode \in [Orgs -> R!Modes]
    /\ listed \in Seq(RunRow) /\ Len(listed) <= MaxListed
    /\ preview \in [Orgs -> PreviewRow]
    /\ waited \in [Orgs -> [UNION Estates -> Nat]]
    /\ begun \in Nat

\* The window of a preview is the one its cursor and its devices give.
WindowFollows(p) ==
    IF p.step = "read"
    THEN p.rows \in Estates /\ p.window = R!Window(p.rows, p.offset, Limit[p.mode])
    ELSE p.window = {} /\ (p.step = "none" => ~p.durable)

\* The row of a durable preview that runs is the last of its organization, and if it is
\* not listed any more, none of the organization's rows is.
ActiveIsLast(s, previews) ==
    \A i \in DOMAIN s : s[i].status = "active" =>
        /\ previews[s[i].org].step # "none" /\ previews[s[i].org].durable
        /\ \A j \in DOMAIN s : j > i => s[j].org # s[i].org

DurableIsListed(s, previews) ==
    \A o \in Orgs : previews[o].durable =>
        \A i \in DOMAIN s : s[i].org = o =>
            \E j \in DOMAIN s : j >= i /\ s[j].org = o /\ s[j].status = "active"

IsCursor(row, o) == row.org = o /\ row.status = "success" /\ row.durable

LastCursor(s, o, i) ==
    /\ i \in DOMAIN s /\ IsCursor(s[i], o)
    /\ \A j \in DOMAIN s : j > i => ~IsCursor(s[j], o)

\* No device waits too long, seen from the cursor that the next preview will find, and
\* from the one that the preview under way has found.
Turns(S, limit, rounds) ==
    \A d \in UNION Estates : rounds[d] > 0 =>
        d \in S /\ limit > 0 /\ rounds[d] * limit < Cardinality(S)

CursorStands(S, limit, rounds, s, o) ==
    \A i \in DOMAIN s : LastCursor(s, o, i) =>
        \A d \in S : Within(S, s[i].next, limit, d, rounds[d])

PreviewStands(S, m, rounds, p) ==
    p.step \in {"listing", "read"} /\ p.durable /\ p.mode = m =>
        \A d \in S : Within(S, p.offset, Limit[m], d, rounds[d])

OrgStands(S, m, rounds, s, p, o) ==
    /\ Turns(S, Limit[m], rounds) /\ CursorStands(S, Limit[m], rounds, s, o)
    /\ PreviewStands(S, m, rounds, p)

RotationInv ==
    /\ RotationTypes
    /\ \A o \in Orgs : WindowFollows(preview[o])
    /\ ActiveIsLast(listed, preview)
    /\ DurableIsListed(listed, preview)
    /\ \A o \in Orgs : OrgStands(estate[o], mode[o], waited[o], listed, preview[o], o)

----------------------------------------------------------------------------
(* The rows of the previews *)

LEMMA LargerOf ==
    ASSUME NEW a \in Int PROVE R!Max({1, a}) = IF a >= 1 THEN a ELSE 1
  BY DEF R!Max

\* Row i was row i + k, or is the new one.
Shifted(s, row, t, k) ==
    /\ k \in Nat /\ Len(t) = Len(s) + 1 - k
    /\ \A i \in 1..Len(t) : /\ i + k \in 1..(Len(s) + 1)
                            /\ i + k <= Len(s) => t[i] = s[i + k]
                            /\ i + k = Len(s) + 1 => t[i] = row

\* A row that is appended may push the oldest out.
LEMMA Appended ==
    ASSUME NEW s \in Seq(RunRow), Len(s) <= MaxListed, NEW row \in RunRow,
           NEW t, t = R!Recent(Append(s, row))
    PROVE  /\ t \in Seq(RunRow) /\ Len(t) <= MaxListed
           /\ \E k \in Nat : Shifted(s, row, t, k)
  <1> DEFINE all == Append(s, row)
             first == IF Len(s) + 1 - MaxListed + 1 >= 1 THEN Len(s) + 1 - MaxListed + 1 ELSE 1
  <1>1. /\ all \in Seq(RunRow) /\ Len(all) = Len(s) + 1
        /\ \A i \in 1..Len(s) : all[i] = s[i]
        /\ all[Len(s) + 1] = row
    OBVIOUS
  <1>2. first \in 1..(Len(s) + 2) /\ first >= Len(s) + 2 - MaxListed
    BY RotationBounds
  <1>3. t = SubSeq(all, first, Len(s) + 1)
    <2>1. t = SubSeq(all, R!Max({1, Len(all) - MaxListed + 1}), Len(all))
      BY DEF R!Recent
    <2> HIDE DEF all
    <2>2. Len(all) - MaxListed + 1 = Len(s) + 1 - MaxListed + 1 /\ Len(s) + 1 - MaxListed + 1 \in Int
      BY <1>1, RotationBounds
    <2>3. R!Max({1, Len(s) + 1 - MaxListed + 1}) = first
      BY <2>2, LargerOf
    <2>4. t = SubSeq(all, R!Max({1, Len(s) + 1 - MaxListed + 1}), Len(s) + 1)
      BY <1>1, <2>1, <2>2
    <2> QED
      BY <2>3, <2>4
  <1>4. first = 1 \/ first = Len(s) + 2 - MaxListed
    BY RotationBounds
  <1> HIDE DEF all, first
  <1>5. /\ t \in Seq(RunRow) /\ Len(t) = Len(s) + 1 - first + 1
        /\ \A i \in 1..Len(t) : t[i] = all[first + i - 1]
    BY <1>1, <1>2, <1>3
  <1>6. Len(t) <= MaxListed
    BY <1>2, <1>5, RotationBounds
  <1> DEFINE k == first - 1
  <1>7. k \in Nat /\ Len(t) = Len(s) + 1 - k
    BY <1>2, <1>5
  <1>8. ASSUME NEW i \in 1..Len(t)
        PROVE  /\ i + k \in 1..(Len(s) + 1)
               /\ i + k <= Len(s) => t[i] = s[i + k]
               /\ i + k = Len(s) + 1 => t[i] = row
    <2>1. first + i - 1 = i + k /\ i + k \in 1..(Len(s) + 1)
      BY <1>2, <1>5, <1>7
    <2>2. t[i] = all[i + k]
      BY <1>5, <2>1
    <2> HIDE DEF k
    <2> QED
      BY <1>1, <2>1, <2>2
  <1> HIDE DEF k
  <1>9. Shifted(s, row, t, k)
    BY <1>7, <1>8 DEF Shifted
  <1> QED
    BY <1>5, <1>6, <1>7, <1>9

\* The three ways in which the rows change, and what each keeps.
LEMMA RowAppended ==
    ASSUME NEW s \in Seq(RunRow), Len(s) <= MaxListed, NEW row \in RunRow,
           NEW t, t = R!Recent(Append(s, row)),
           NEW previews \in [Orgs -> PreviewRow], NEW p \in PreviewRow,
           ActiveIsLast(s, previews), DurableIsListed(s, previews),
           ~previews[row.org].durable,
           IF row.status = "active" THEN p.durable /\ p.step # "none" ELSE ~p.durable,
           ~(row.status = "success" /\ row.durable)
    PROVE  /\ ActiveIsLast(t, [previews EXCEPT ![row.org] = p])
           /\ DurableIsListed(t, [previews EXCEPT ![row.org] = p])
           /\ \A o \in Orgs : \A S, limit, rounds :
                 CursorStands(S, limit, rounds, s, o) => CursorStands(S, limit, rounds, t, o)
  <1> DEFINE after == [previews EXCEPT ![row.org] = p]
  <1>0. t \in Seq(RunRow) /\ \E k \in Nat : Shifted(s, row, t, k)
    BY Appended
  <1>1. PICK k \in Nat :
            /\ Len(t) = Len(s) + 1 - k
            /\ \A i \in 1..Len(t) : /\ i + k \in 1..(Len(s) + 1)
                                    /\ i + k <= Len(s) => t[i] = s[i + k]
                                    /\ i + k = Len(s) + 1 => t[i] = row
    BY <1>0 DEF Shifted
  <1>2. /\ t \in Seq(RunRow) /\ DOMAIN t = 1..Len(t) /\ DOMAIN s = 1..Len(s) /\ row.org \in Orgs
        /\ Len(t) \in Nat /\ Len(s) \in Nat
    <2>1. row.org \in Orgs
      BY DEF RunRow
    <2> QED
      BY <1>0, <2>1
  <1>3. /\ after[row.org] = p
        /\ \A o \in Orgs \ {row.org} : after[o] = previews[o]
    BY <1>2
  <1>4. \A i \in DOMAIN s : s[i].org \in Orgs
    <2>1. \A i \in DOMAIN s : s[i] \in RunRow
      BY <1>2
    <2> QED
      BY <2>1 DEF RunRow
  <1> HIDE DEF after
  <1>5. ASSUME NEW i \in DOMAIN t, t[i].status = "active"
        PROVE  /\ after[t[i].org].step # "none" /\ after[t[i].org].durable
               /\ \A j \in DOMAIN t : j > i => t[j].org # t[i].org
    <2>1. CASE i + k <= Len(s)
      <3>1. i + k \in DOMAIN s /\ t[i] = s[i + k]
        BY <1>1, <1>2, <2>1
      <3>2. /\ previews[s[i + k].org].step # "none" /\ previews[s[i + k].org].durable
            /\ \A j \in DOMAIN s : j > i + k => s[j].org # s[i + k].org
        BY <1>5, <3>1 DEF ActiveIsLast
      <3>3. t[i].org # row.org /\ t[i].org \in Orgs
        BY <1>4, <3>1, <3>2
      <3>4. ASSUME NEW j \in DOMAIN t, j > i PROVE t[j].org # t[i].org
        <4>1. CASE j + k <= Len(s)
          <5>1. j + k \in DOMAIN s /\ t[j] = s[j + k] /\ j + k > i + k
            BY <1>1, <1>2, <3>4, <4>1
          <5> QED
            BY <3>1, <3>2, <5>1
        <4>2. CASE ~(j + k <= Len(s))
          <5>1. t[j] = row
            BY <1>1, <1>2, <4>2
          <5> QED
            BY <3>3, <5>1
        <4> QED
          BY <4>1, <4>2
      <3> QED
        BY <1>3, <3>1, <3>2, <3>3, <3>4
    <2>2. CASE ~(i + k <= Len(s))
      <3>1. t[i] = row /\ i = Len(t)
        BY <1>1, <1>2, <2>2
      <3>2. \A j \in DOMAIN t : ~(j > i)
        BY <1>2, <3>1
      <3> QED
        BY <1>3, <1>5, <3>1, <3>2
    <2> QED
      BY <2>1, <2>2
  <1>6. ASSUME NEW o \in Orgs, after[o].durable, NEW i \in DOMAIN t, t[i].org = o
        PROVE  \E j \in DOMAIN t : j >= i /\ t[j].org = o /\ t[j].status = "active"
    <2>1. CASE o = row.org
      <3>1. row.status = "active"
        BY <1>3, <1>6, <2>1
      <3>2. Len(t) \in DOMAIN t /\ Len(t) >= i /\ t[Len(t)] = row
        BY <1>1, <1>2
      <3> QED
        BY <2>1, <3>1, <3>2
    <2>2. CASE o # row.org
      <3>1. i + k \in DOMAIN s /\ t[i] = s[i + k]
        BY <1>1, <1>2, <1>6, <2>2
      <3>2. PICK j \in DOMAIN s : j >= i + k /\ s[j].org = o /\ s[j].status = "active"
        BY <1>3, <1>6, <2>2, <3>1 DEF DurableIsListed
      <3>3. j - k \in DOMAIN t /\ j - k >= i /\ t[j - k] = s[j]
        BY <1>1, <1>2, <3>1, <3>2
      <3> QED
        BY <3>2, <3>3
    <2> QED
      BY <2>1, <2>2
  <1>7. ASSUME NEW o \in Orgs, NEW S, NEW limit, NEW rounds, CursorStands(S, limit, rounds, s, o)
        PROVE  CursorStands(S, limit, rounds, t, o)
    <2> SUFFICES ASSUME NEW i \in DOMAIN t, LastCursor(t, o, i)
                 PROVE  \A d \in S : Within(S, t[i].next, limit, d, rounds[d])
      BY DEF CursorStands
    <2>1. IsCursor(t[i], o) /\ t[i] # row
      BY DEF LastCursor, IsCursor
    <2>2. i + k \in DOMAIN s /\ t[i] = s[i + k]
      BY <1>1, <1>2, <2>1
    <2>3. ASSUME NEW j \in DOMAIN s, j > i + k PROVE ~IsCursor(s[j], o)
      <3>1. j - k \in DOMAIN t /\ j - k > i /\ t[j - k] = s[j]
        BY <1>1, <1>2, <2>2, <2>3
      <3> QED
        BY <3>1 DEF LastCursor
    <2>4. LastCursor(s, o, i + k)
      BY <2>1, <2>2, <2>3 DEF LastCursor
    <2> QED
      BY <1>7, <2>2, <2>4 DEF CursorStands
  <1> QED
    BY <1>5, <1>6, <1>7 DEF ActiveIsLast, DurableIsListed, after

IsEnded(s, row, t) ==
    t = [i \in DOMAIN s |-> IF s[i].org = row.org /\ s[i].status = "active" THEN row ELSE s[i]]

LEMMA RowEnded ==
    ASSUME NEW s \in Seq(RunRow), NEW row \in RunRow, row.status # "active",
           NEW t, IsEnded(s, row, t),
           NEW previews \in [Orgs -> PreviewRow], NEW p \in PreviewRow, ~p.durable,
           ActiveIsLast(s, previews), DurableIsListed(s, previews), previews[row.org].durable
    PROVE  /\ t \in Seq(RunRow) /\ Len(t) = Len(s)
           /\ ActiveIsLast(t, [previews EXCEPT ![row.org] = p])
           /\ DurableIsListed(t, [previews EXCEPT ![row.org] = p])
           /\ \A o \in Orgs : \A S, limit, rounds :
                 o # row.org \/ row.status # "success" =>
                    (CursorStands(S, limit, rounds, s, o) => CursorStands(S, limit, rounds, t, o))
           /\ \A i \in DOMAIN t : LastCursor(t, row.org, i) /\ row.status = "success" /\ row.durable
                                  => t[i] = row
  <1> DEFINE after == [previews EXCEPT ![row.org] = p]
  <1>1. t \in Seq(RunRow) /\ Len(t) = Len(s) /\ DOMAIN t = DOMAIN s /\ DOMAIN s = 1..Len(s)
        /\ Len(s) \in Nat
    <2>1. Len(s) \in Nat /\ DOMAIN s = 1..Len(s) /\ \A i \in DOMAIN s : s[i] \in RunRow
      OBVIOUS
    <2>2. DOMAIN t = 1..Len(s) /\ \A i \in 1..Len(s) : t[i] \in RunRow
      BY <2>1 DEF IsEnded
    <2>3. t = [i \in 1..Len(s) |-> t[i]]
      BY <2>1 DEF IsEnded
    <2> QED
      BY <2>1, <2>2, <2>3
  <1>2. row.org \in Orgs /\ \A i \in DOMAIN s : s[i].org \in Orgs
    <2>1. \A i \in DOMAIN s : s[i] \in RunRow
      OBVIOUS
    <2> QED
      BY <2>1 DEF RunRow
  <1>3. /\ after[row.org] = p
        /\ \A o \in Orgs \ {row.org} : after[o] = previews[o]
    BY <1>2
  <1> HIDE DEF after
  <1>4. \A i \in DOMAIN s : t[i].org = s[i].org
    BY DEF IsEnded
  <1>5. \A i \in DOMAIN s : t[i].status = "active" \/ t[i].org # row.org => t[i] = s[i]
    BY DEF IsEnded
  <1>6. ASSUME NEW i \in DOMAIN t, t[i].status = "active"
        PROVE  /\ after[t[i].org].step # "none" /\ after[t[i].org].durable
               /\ \A j \in DOMAIN t : j > i => t[j].org # t[i].org
    <2>1. t[i] = s[i] /\ s[i].org # row.org
      BY <1>1, <1>6 DEF IsEnded
    <2> QED
      BY <1>1, <1>2, <1>3, <1>4, <1>6, <2>1 DEF ActiveIsLast
  <1>7. ASSUME NEW o \in Orgs, after[o].durable, NEW i \in DOMAIN t, t[i].org = o
        PROVE  \E j \in DOMAIN t : j >= i /\ t[j].org = o /\ t[j].status = "active"
    <2>1. o # row.org
      BY <1>3, <1>7
    <2>2. PICK j \in DOMAIN s : j >= i /\ s[j].org = o /\ s[j].status = "active"
      BY <1>1, <1>3, <1>4, <1>7, <2>1 DEF DurableIsListed
    <2>3. j \in DOMAIN t
      BY <1>1, <2>2
    <2>4. t[j] = s[j]
      BY <1>4, <1>5, <2>1, <2>2
    <2> QED
      BY <2>2, <2>3, <2>4
  <1>8. ASSUME NEW o \in Orgs, NEW S, NEW limit, NEW rounds,
               o # row.org \/ row.status # "success", CursorStands(S, limit, rounds, s, o)
        PROVE  CursorStands(S, limit, rounds, t, o)
    <2>1. ASSUME NEW i \in DOMAIN s
          PROVE  /\ IsCursor(t[i], o) <=> IsCursor(s[i], o)
                 /\ IsCursor(t[i], o) => t[i] = s[i]
      BY <1>1, <1>8 DEF IsCursor, IsEnded
    <2> QED
      BY <1>1, <1>8, <2>1 DEF CursorStands, LastCursor
  <1>9. ASSUME NEW i \in DOMAIN t, LastCursor(t, row.org, i), row.status = "success", row.durable
        PROVE  t[i] = row
    <2>1. t[i].org = row.org
      BY <1>9 DEF LastCursor, IsCursor
    <2>2. PICK j \in DOMAIN s : j >= i /\ s[j].org = row.org /\ s[j].status = "active"
      <3>1. i \in DOMAIN s /\ s[i].org = row.org /\ row.org \in Orgs
        BY <1>1, <1>2, <1>4, <2>1
      <3> QED
        BY <3>1 DEF DurableIsListed
    <2>3. t[j] = row /\ IsCursor(t[j], row.org)
      BY <1>9, <2>2 DEF IsCursor, IsEnded
    <2>4. ~(j > i)
      BY <1>1, <1>9, <2>3 DEF LastCursor
    <2>5. i = j
      BY <1>1, <2>2, <2>4
    <2> QED
      BY <2>3, <2>5
  <1> QED
    BY <1>1, <1>6, <1>7, <1>8, <1>9 DEF ActiveIsLast, DurableIsListed, after

LEMMA RowsKept ==
    ASSUME NEW s, NEW previews \in [Orgs -> PreviewRow], NEW o \in Orgs, NEW p,
           p.durable = previews[o].durable, previews[o].durable => p.step # "none",
           ActiveIsLast(s, previews), DurableIsListed(s, previews),
           \A i \in DOMAIN s : s[i].org \in Orgs
    PROVE  /\ ActiveIsLast(s, [previews EXCEPT ![o] = p])
           /\ DurableIsListed(s, [previews EXCEPT ![o] = p])
  BY DEF ActiveIsLast, DurableIsListed

----------------------------------------------------------------------------
(* Every device has its turn *)

LEMMA PreviewShape ==
    ASSUME NEW p \in PreviewRow
    PROVE  /\ p.step \in R!Steps /\ p.durable \in BOOLEAN /\ p.mode \in R!Modes /\ p.offset \in Nat
           /\ p.rows \in Estates \cup {{}} /\ p.window \in SUBSET UNION Estates
  BY DEF PreviewRow

LEMMA NoneIsPreview ==
    /\ R!None \in PreviewRow /\ R!None.step = "none" /\ ~R!None.durable
    /\ WindowFollows(R!None)
  BY RotationBounds DEF R!None, PreviewRow, R!Steps, WindowFollows

\* A preview that begins.
LEMMA ClaimedIsPreview ==
    ASSUME NEW p \in PreviewRow, p.step = "claimed", p.window = {}
    PROVE  /\ WindowFollows(p)
           /\ \A S, m, rounds : PreviewStands(S, m, rounds, p)
  BY DEF WindowFollows, PreviewStands

\* Where nobody has waited yet, nobody has waited too long.
LEMMA NobodyWaits ==
    ASSUME NEW S \in Estates, NEW m \in R!Modes, NEW s \in Seq(RunRow), NEW p \in PreviewRow, NEW o,
           NEW rounds, \A d \in UNION Estates : rounds[d] = 0
    PROVE  OrgStands(S, m, rounds, s, p, o)
  <1>1. Limit[m] \in Nat /\ S \subseteq UNION Estates
    BY RotationBounds
  <1>2. Turns(S, Limit[m], rounds)
    BY DEF Turns
  <1>3. ASSUME NEW c \in Nat, NEW d \in S PROVE Within(S, c, Limit[m], d, rounds[d])
    <2>1. rounds[d] = 0
      BY <1>1
    <2> QED
      BY <1>1, <2>1, WithinAtFirst
  <1>4. CursorStands(S, Limit[m], rounds, s, o)
    <2>1. \A i \in DOMAIN s : s[i] \in RunRow
      OBVIOUS
    <2>2. \A i \in DOMAIN s : s[i].next \in Nat
      BY <2>1 DEF RunRow
    <2> QED
      BY <1>3, <2>2 DEF CursorStands
  <1>5. PreviewStands(S, m, rounds, p)
    BY <1>3, PreviewShape DEF PreviewStands
  <1> QED
    BY <1>2, <1>4, <1>5 DEF OrgStands

\* The cursor that is found is the one of the last row that shows one.
LEMMA CursorFound ==
    ASSUME RotationTypes, NEW o \in Orgs
    PROVE  /\ R!CursorRows(o) # {} =>
                 \E i \in DOMAIN listed : LastCursor(listed, o, i) /\ R!SavedOffset(o) = listed[i].next
           /\ R!SavedOffset(o) \in Nat
  <1> DEFINE M == R!CursorRows(o)
  <1>1. DOMAIN listed = 1..Len(listed) /\ Len(listed) \in Nat
    BY DEF RotationTypes
  <1>2. \A i \in DOMAIN listed : listed[i] \in RunRow
    BY DEF RotationTypes
  <1>3. \A i \in DOMAIN listed : listed[i].next \in Nat
    BY <1>2 DEF RunRow
  <1>4. \A i : i \in M <=> i \in DOMAIN listed /\ IsCursor(listed[i], o)
    BY DEF R!CursorRows, IsCursor
  <1>5. R!SavedOffset(o) = IF M = {} THEN 0 ELSE listed[R!Max(M)].next
    BY DEF R!SavedOffset
  <1> HIDE DEF M
  <1>6. ASSUME M # {} PROVE \E i \in M : \A j \in M : i >= j
    <2> DEFINE K == {Len(listed) - i : i \in M}
    <2>1. K \in SUBSET Nat /\ K # {}
      BY <1>1, <1>4, <1>6
    <2>2. PICK k \in K : \A l \in K : k <= l
      BY <2>1, LeastNumber
    <2>3. PICK i \in M : k = Len(listed) - i
      BY <2>2
    <2>4. \A j \in M : Len(listed) - j \in K
      OBVIOUS
    <2>5. \A j \in M : i >= j
      <3>1. ASSUME NEW j \in M PROVE i >= j
        <4>1. Len(listed) - i <= Len(listed) - j
          BY <2>2, <2>3, <2>4
        <4> QED
          BY <1>1, <1>4, <4>1
      <3> QED
        BY <3>1
    <2> QED
      BY <2>5
  <1>7. ASSUME M # {}
        PROVE  \E i \in DOMAIN listed : LastCursor(listed, o, i) /\ R!SavedOffset(o) = listed[i].next
    <2> DEFINE i == R!Max(M)
    <2>1. i \in M /\ \A j \in M : i >= j
      BY <1>6, <1>7 DEF R!Max
    <2>2. R!SavedOffset(o) = listed[i].next
      BY <1>5, <1>7
    <2> HIDE DEF i
    <2>3. LastCursor(listed, o, i)
      <3>1. ASSUME NEW j \in DOMAIN listed, j > i PROVE ~IsCursor(listed[j], o)
        BY <1>1, <1>4, <2>1, <3>1
      <3> QED
        BY <1>4, <2>1, <3>1 DEF LastCursor
    <2> QED
      BY <1>4, <2>1, <2>2, <2>3
  <1>8. R!SavedOffset(o) \in Nat
    BY <1>3, <1>5, <1>7
  <1> QED
    BY <1>7, <1>8 DEF M

\* What one organization does leaves the others alone.
LEMMA RotationStep ==
    ASSUME RotationInv, NEW o \in Orgs, RotationTypes',
           \A b \in Orgs \ {o} : /\ estate'[b] = estate[b] /\ mode'[b] = mode[b]
                                 /\ waited'[b] = waited[b] /\ preview'[b] = preview[b],
           \A b \in Orgs \ {o} : \A S, limit, rounds :
              CursorStands(S, limit, rounds, listed, b) => CursorStands(S, limit, rounds, listed', b),
           WindowFollows(preview'[o]),
           ActiveIsLast(listed', preview'), DurableIsListed(listed', preview'),
           OrgStands(estate'[o], mode'[o], waited'[o], listed', preview'[o], o)
    PROVE  RotationInv'
  <1>1. \A b \in Orgs : WindowFollows(preview'[b])
    BY DEF RotationInv
  <1>2. \A b \in Orgs : OrgStands(estate'[b], mode'[b], waited'[b], listed', preview'[b], b)
    <2>1. ASSUME NEW b \in Orgs, b # o
          PROVE  OrgStands(estate'[b], mode'[b], waited'[b], listed', preview'[b], b)
      <3>1. OrgStands(estate[b], mode[b], waited[b], listed, preview[b], b)
        BY DEF RotationInv
      <3> QED
        BY <2>1, <3>1 DEF OrgStands
    <2> QED
      BY <2>1
  <1> QED
    BY <1>1, <1>2 DEF RotationInv

\* A preview that goes on in another way, without a row.
LEMMA PreviewGoesOn ==
    ASSUME RotationInv, NEW o \in Orgs, NEW p \in PreviewRow, preview' = [preview EXCEPT ![o] = p],
           UNCHANGED <<estate, mode, listed>>, begun' \in Nat,
           waited' \in [Orgs -> [UNION Estates -> Nat]], \A b \in Orgs \ {o} : waited'[b] = waited[b],
           p.durable = preview[o].durable, preview[o].durable => p.step # "none",
           WindowFollows(p),
           OrgStands(estate[o], mode[o], waited'[o], listed, p, o)
    PROVE  RotationInv'
  <1>1. RotationTypes /\ ActiveIsLast(listed, preview) /\ DurableIsListed(listed, preview)
    BY DEF RotationInv
  <1>2. preview \in [Orgs -> PreviewRow] /\ \A i \in DOMAIN listed : listed[i].org \in Orgs
    <2>1. \A i \in DOMAIN listed : listed[i] \in RunRow
      BY <1>1 DEF RotationTypes
    <2> QED
      BY <1>1, <2>1 DEF RotationTypes, RunRow
  <1>3. /\ preview' \in [Orgs -> PreviewRow] /\ preview'[o] = p
        /\ \A b \in Orgs \ {o} : preview'[b] = preview[b]
    BY <1>2
  <1>4. RotationTypes'
    BY <1>1, <1>3 DEF RotationTypes
  <1>5. ActiveIsLast(listed', preview') /\ DurableIsListed(listed', preview')
    BY <1>1, <1>2, RowsKept
  <1> QED
    BY <1>3, <1>4, <1>5, RotationStep

\* What RotationInv says of one organization and its preview.
LEMMA OrgFacts ==
    ASSUME RotationInv, NEW o \in Orgs
    PROVE  /\ estate[o] \in Estates /\ mode[o] \in R!Modes /\ Limit[mode[o]] \in Nat
           /\ listed \in Seq(RunRow) /\ Len(listed) <= MaxListed
           /\ preview \in [Orgs -> PreviewRow] /\ preview[o] \in PreviewRow
           /\ waited \in [Orgs -> [UNION Estates -> Nat]] /\ waited[o] \in [UNION Estates -> Nat]
           /\ begun \in Nat
           /\ WindowFollows(preview[o])
           /\ ActiveIsLast(listed, preview) /\ DurableIsListed(listed, preview)
           /\ OrgStands(estate[o], mode[o], waited[o], listed, preview[o], o)
  BY RotationBounds DEF RotationInv, RotationTypes

LEMMA PreviewRequested == ASSUME RotationInv, NEW o \in Orgs, R!Request(o) PROVE RotationInv'
  <1> DEFINE row == [org |-> o, status |-> "active", durable |-> TRUE, next |-> 0]
             p == [R!None EXCEPT !.step = "claimed", !.durable = TRUE, !.mode = mode[o]]
             t == R!Recent(Append(listed, row))
  <1>1. /\ preview[o].step = "none" /\ begun' = begun + 1 /\ listed' = t
        /\ preview' = [preview EXCEPT ![o] = p] /\ UNCHANGED <<estate, mode, waited>>
    BY DEF R!Request
  <1>2. row \in RunRow /\ row.org = o /\ row.status = "active" /\ row.durable
    BY DEF RunRow
  <1>3. p \in PreviewRow /\ p.step = "claimed" /\ p.durable /\ p.window = {}
    BY OrgFacts, RotationBounds DEF R!None, PreviewRow, R!Steps
  <1> HIDE DEF row, p, t
  <1>4. ~preview[o].durable
    BY <1>1, OrgFacts DEF WindowFollows
  <1>5. listed \in Seq(RunRow) /\ Len(listed) <= MaxListed /\ preview \in [Orgs -> PreviewRow]
        /\ ActiveIsLast(listed, preview) /\ DurableIsListed(listed, preview)
    BY OrgFacts
  <1>6. t \in Seq(RunRow) /\ Len(t) <= MaxListed
    BY <1>2, <1>5, Appended DEF t
  <1>7. /\ ActiveIsLast(t, [preview EXCEPT ![o] = p]) /\ DurableIsListed(t, [preview EXCEPT ![o] = p])
        /\ \A b \in Orgs : \A S, limit, rounds :
              CursorStands(S, limit, rounds, listed, b) => CursorStands(S, limit, rounds, t, b)
    <2>1. t = R!Recent(Append(listed, row))
      BY DEF t
    <2>2. /\ ActiveIsLast(t, [preview EXCEPT ![row.org] = p])
          /\ DurableIsListed(t, [preview EXCEPT ![row.org] = p])
          /\ \A b \in Orgs : \A S, limit, rounds :
                CursorStands(S, limit, rounds, listed, b) => CursorStands(S, limit, rounds, t, b)
      BY <1>2, <1>3, <1>4, <1>5, <2>1, RowAppended
    <2> QED
      BY <1>2, <2>2
  <1>8. /\ preview' \in [Orgs -> PreviewRow] /\ preview'[o] = p
        /\ \A b \in Orgs \ {o} : preview'[b] = preview[b]
    BY <1>1, <1>3, <1>5
  <1>9. RotationTypes'
    <2>1. begun \in Nat
      BY OrgFacts
    <2>2. begun' = begun + 1
      BY <1>1
    <2>3. begun' \in Nat
      BY <2>1, <2>2
    <2> QED
      BY <1>1, <1>6, <1>8, <2>3 DEF RotationInv, RotationTypes
  <1>10. OrgStands(estate[o], mode[o], waited[o], t, p, o)
    BY <1>3, <1>7, OrgFacts, ClaimedIsPreview DEF OrgStands
  <1> QED
    BY <1>1, <1>3, <1>7, <1>8, <1>9, <1>10, RotationStep, ClaimedIsPreview

LEMMA ClaimStep == ASSUME RotationInv, NEW o \in Orgs, R!Claim(o) PROVE RotationInv'
  <1> DEFINE p == [R!None EXCEPT !.step = "claimed"]
  <1>1. /\ preview[o].step = "none" /\ begun' = begun + 1
        /\ preview' = [preview EXCEPT ![o] = p] /\ UNCHANGED <<estate, mode, listed, waited>>
    BY DEF R!Claim
  <1>2. p \in PreviewRow /\ p.step = "claimed" /\ p.durable = FALSE /\ p.window = {}
    BY RotationBounds DEF R!None, PreviewRow, R!Steps
  <1> HIDE DEF p
  <1>3. preview[o].durable = FALSE
    BY <1>1, OrgFacts, PreviewShape DEF WindowFollows
  <1>4. OrgStands(estate[o], mode[o], waited[o], listed, p, o)
    BY <1>2, OrgFacts, ClaimedIsPreview DEF OrgStands
  <1>5. WindowFollows(p)
    BY <1>2, ClaimedIsPreview
  <1>6. begun' \in Nat /\ waited' \in [Orgs -> [UNION Estates -> Nat]]
    <2>1. begun \in Nat /\ waited \in [Orgs -> [UNION Estates -> Nat]]
      BY OrgFacts
    <2>2. begun' = begun + 1 /\ waited' = waited
      BY <1>1
    <2>3. begun' \in Nat
      BY <2>1, <2>2
    <2> QED
      BY <2>1, <2>2, <2>3
  <1> QED
    BY <1>1, <1>2, <1>3, <1>4, <1>5, <1>6, PreviewGoesOn

LEMMA StartStep == ASSUME RotationInv, NEW o \in Orgs, R!Start(o) PROVE RotationInv'
  <1> DEFINE old == preview[o]
             m == IF old.durable THEN old.mode ELSE mode[o]
             c == IF Limit[m] = 0 THEN 0 ELSE R!SavedOffset(o)
             p == [old EXCEPT !.step = "listing", !.mode = m, !.offset = c]
  <1>1. /\ old.step = "claimed" /\ UNCHANGED <<estate, mode, listed, begun>>
        /\ preview' = [preview EXCEPT ![o].step = "listing", ![o].mode = m, ![o].offset = c]
        /\ waited' = IF R!CursorRows(o) = {} THEN [waited EXCEPT ![o] = [d \in DOMAIN @ |-> 0]]
                                             ELSE waited
    BY DEF R!Start
  <1>2. /\ old \in PreviewRow /\ old.durable \in BOOLEAN /\ m \in R!Modes /\ Limit[m] \in Nat
        /\ c \in Nat
    <2>1. old \in PreviewRow /\ mode[o] \in R!Modes
      BY OrgFacts
    <2>2. old.durable \in BOOLEAN /\ old.mode \in R!Modes
      BY <2>1, PreviewShape
    <2>3. R!SavedOffset(o) \in Nat
      BY CursorFound DEF RotationInv
    <2> QED
      BY <2>1, <2>2, <2>3, RotationBounds
  <1>3. preview' = [preview EXCEPT ![o] = p]
    BY <1>1
  <1>4. old.durable => m = old.mode
    OBVIOUS
  <1>5. Limit[m] # 0 => c = R!SavedOffset(o)
    OBVIOUS
  <1> HIDE DEF m, c
  <1>6. /\ p \in PreviewRow /\ p.step = "listing" /\ p.durable = old.durable /\ p.mode = m
        /\ p.offset = c /\ p.window = old.window
    BY <1>2 DEF PreviewRow, R!Steps
  <1> HIDE DEF p
  <1>7. WindowFollows(p)
    BY <1>1, <1>6, OrgFacts DEF WindowFollows
  <1>8. /\ waited' \in [Orgs -> [UNION Estates -> Nat]]
        /\ \A b \in Orgs \ {o} : waited'[b] = waited[b]
        /\ R!CursorRows(o) = {} => \A d \in UNION Estates : waited'[o][d] = 0
        /\ R!CursorRows(o) # {} => waited' = waited
    BY <1>1, OrgFacts
  <1>9. OrgStands(estate[o], mode[o], waited'[o], listed, p, o)
    <2>1. CASE R!CursorRows(o) = {}
      BY <1>6, <1>8, <2>1, OrgFacts, NobodyWaits
    <2>2. CASE R!CursorRows(o) # {}
      <3>1. PICK i \in DOMAIN listed : LastCursor(listed, o, i) /\ R!SavedOffset(o) = listed[i].next
        BY <2>2, CursorFound DEF RotationInv
      <3>2. Turns(estate[o], Limit[mode[o]], waited[o])
            /\ CursorStands(estate[o], Limit[mode[o]], waited[o], listed, o)
        BY OrgFacts DEF OrgStands
      <3>3. ASSUME m = mode[o], NEW d \in estate[o]
            PROVE  Within(estate[o], c, Limit[m], d, waited[o][d])
        <4>1. CASE Limit[m] = 0
          <5>1. estate[o] \in Estates /\ waited[o][d] \in Nat
            BY OrgFacts
          <5>2. Within(estate[o], c, 0, d, 0)
            BY <1>2, <5>1, WithinAtFirst
          <5>3. waited[o][d] * 0 = 0 /\ 0 * 0 = 0
            BY <5>1
          <5> QED
            BY <4>1, <5>2, <5>3 DEF Within
        <4>2. CASE Limit[m] # 0
          BY <1>5, <3>1, <3>2, <3>3, <4>2 DEF CursorStands
        <4> QED
          BY <4>1, <4>2
      <3>4. PreviewStands(estate[o], mode[o], waited[o], p)
        BY <1>6, <3>3 DEF PreviewStands
      <3> QED
        BY <1>8, <2>2, <3>2, <3>4 DEF OrgStands
    <2> QED
      BY <2>1, <2>2
  <1>10. begun' \in Nat
    BY <1>1, OrgFacts
  <1> QED
    BY <1>1, <1>3, <1>6, <1>7, <1>8, <1>9, <1>10, PreviewGoesOn

LEMMA ReadStep == ASSUME RotationInv, NEW o \in Orgs, R!Read(o) PROVE RotationInv'
  <1> DEFINE old == preview[o]
             w == R!Window(estate[o], old.offset, Limit[old.mode])
             p == [old EXCEPT !.step = "read", !.rows = estate[o], !.window = w]
  <1>1. /\ old.step = "listing" /\ UNCHANGED <<estate, mode, listed, waited, begun>>
        /\ preview' = [preview EXCEPT ![o].step = "read", ![o].rows = estate[o], ![o].window = w]
    BY DEF R!Read
  <1>2. preview' = [preview EXCEPT ![o] = p]
    BY <1>1
  <1>3. /\ old \in PreviewRow /\ old.offset \in Nat /\ old.mode \in R!Modes /\ old.durable \in BOOLEAN
        /\ estate[o] \in Estates /\ Limit[old.mode] \in Nat
    BY OrgFacts, PreviewShape, RotationBounds
  <1>4. w \in SUBSET UNION Estates
    BY <1>3, WindowSize
  <1>5. w = R!Window(estate[o], old.offset, Limit[old.mode])
    OBVIOUS
  <1> HIDE DEF w
  <1>6. /\ p \in PreviewRow /\ p.step = "read" /\ p.durable = old.durable /\ p.mode = old.mode
        /\ p.offset = old.offset /\ p.rows = estate[o] /\ p.window = w
    BY <1>3, <1>4 DEF PreviewRow, R!Steps
  <1> HIDE DEF p
  <1>7. WindowFollows(p)
    BY <1>3, <1>5, <1>6 DEF WindowFollows
  <1>8. OrgStands(estate[o], mode[o], waited[o], listed, p, o)
    BY <1>1, <1>6, OrgFacts DEF OrgStands, PreviewStands
  <1>9. begun' \in Nat /\ waited' \in [Orgs -> [UNION Estates -> Nat]]
    BY <1>1, OrgFacts
  <1> QED
    BY <1>1, <1>2, <1>6, <1>7, <1>8, <1>9, PreviewGoesOn

LEMMA LoseStep == ASSUME RotationInv, NEW o \in Orgs, R!Lose(o) PROVE RotationInv'
  <1> DEFINE old == preview[o]
             again == [R!None EXCEPT !.step = "claimed", !.durable = TRUE, !.mode = old.mode]
             p == IF old.durable THEN again ELSE R!None
  <1>1. /\ old.step \in {"listing", "read"} /\ preview' = [preview EXCEPT ![o] = p]
        /\ UNCHANGED <<estate, mode, listed, waited, begun>>
    BY DEF R!Lose
  <1>2. old \in PreviewRow /\ old.mode \in R!Modes /\ old.durable \in BOOLEAN
    BY OrgFacts, PreviewShape
  <1>3. again \in PreviewRow /\ again.step = "claimed" /\ again.durable = TRUE /\ again.window = {}
    BY <1>2, RotationBounds DEF R!None, PreviewRow, R!Steps
  <1>4. R!None \in PreviewRow /\ R!None.step = "none" /\ R!None.durable = FALSE
    BY NoneIsPreview, PreviewShape
  <1> HIDE DEF again
  <1>5. /\ p \in PreviewRow /\ p.durable = old.durable /\ (old.durable => p.step # "none")
        /\ p.step \in {"claimed", "none"} /\ WindowFollows(p)
    BY <1>2, <1>3, <1>4, NoneIsPreview, ClaimedIsPreview
  <1> HIDE DEF p
  <1>6. OrgStands(estate[o], mode[o], waited[o], listed, p, o)
    BY <1>5, OrgFacts DEF OrgStands, PreviewStands
  <1>7. begun' \in Nat /\ waited' \in [Orgs -> [UNION Estates -> Nat]]
    BY <1>1, OrgFacts
  <1> QED
    BY <1>1, <1>5, <1>6, <1>7, PreviewGoesOn

\* A preview that ends: what its row and the rows before it say of the other organizations,
\* and of its own where the row shows no cursor.
LEMMA PreviewEnds ==
    ASSUME RotationInv, NEW o \in Orgs, NEW status \in {"success", "failed"}, NEW next \in Nat,
           R!Ended(o, status, next), preview' = [preview EXCEPT ![o] = R!None],
           UNCHANGED <<estate, mode, begun>>,
           waited' \in [Orgs -> [UNION Estates -> Nat]], \A b \in Orgs \ {o} : waited'[b] = waited[b],
           status = "success" /\ preview[o].durable =>
              \A i \in DOMAIN listed' : listed'[i].next = next =>
                 \A d \in estate[o] : Within(estate[o], next, Limit[mode[o]], d, waited'[o][d]),
           Turns(estate[o], Limit[mode[o]], waited'[o]),
           ~(status = "success" /\ preview[o].durable) => waited' = waited
    PROVE  RotationInv'
  <1> DEFINE old == preview[o]
             row == [org |-> o, status |-> status, durable |-> old.durable, next |-> next]
             S == estate[o]
             limit == Limit[mode[o]]
  <1>1. /\ listed \in Seq(RunRow) /\ Len(listed) <= MaxListed /\ preview \in [Orgs -> PreviewRow]
        /\ ActiveIsLast(listed, preview) /\ DurableIsListed(listed, preview)
        /\ old.durable \in BOOLEAN
        /\ OrgStands(estate[o], mode[o], waited[o], listed, old, o)
    BY OrgFacts, PreviewShape
  <1>2. /\ row \in RunRow /\ row.org = o /\ row.status = status /\ row.durable = old.durable
        /\ row.next = next
    BY <1>1 DEF RunRow
  <1>3. /\ old.durable => listed' = [i \in DOMAIN listed |->
                                        IF listed[i].org = o /\ listed[i].status = "active"
                                        THEN row ELSE listed[i]]
        /\ ~old.durable => listed' = R!Recent(Append(listed, row))
    BY DEF R!Ended
  <1> HIDE DEF row
  <1>4. R!None \in PreviewRow /\ R!None.durable = FALSE /\ R!None.step = "none"
        /\ WindowFollows(R!None)
    BY NoneIsPreview, PreviewShape
  <1>5. /\ preview' \in [Orgs -> PreviewRow] /\ preview'[o] = R!None
        /\ \A b \in Orgs \ {o} : preview'[b] = preview[b]
    BY <1>1, <1>4
  <1> HIDE DEF old
  <1>6. /\ listed' \in Seq(RunRow) /\ Len(listed') <= MaxListed
        /\ ActiveIsLast(listed', preview') /\ DurableIsListed(listed', preview')
        /\ \A b \in Orgs : b # o \/ ~(status = "success" /\ old.durable) =>
              \A Sx, limitx, rounds : CursorStands(Sx, limitx, rounds, listed, b)
                                      => CursorStands(Sx, limitx, rounds, listed', b)
        /\ status = "success" /\ old.durable =>
              \A i \in DOMAIN listed' : LastCursor(listed', o, i) => listed'[i] = row
    <2>1. CASE old.durable
      <3>1. IsEnded(listed, row, listed')
        BY <1>2, <1>3, <2>1 DEF IsEnded
      <3>2. row.status # "active" /\ preview[row.org].durable /\ ~R!None.durable
        BY <1>2, <1>4, <2>1 DEF old
      <3>3. /\ listed' \in Seq(RunRow) /\ Len(listed') = Len(listed)
            /\ ActiveIsLast(listed', [preview EXCEPT ![row.org] = R!None])
            /\ DurableIsListed(listed', [preview EXCEPT ![row.org] = R!None])
            /\ \A b \in Orgs : \A Sx, limitx, rounds :
                  b # row.org \/ row.status # "success" =>
                     (CursorStands(Sx, limitx, rounds, listed, b)
                         => CursorStands(Sx, limitx, rounds, listed', b))
            /\ \A i \in DOMAIN listed' :
                  LastCursor(listed', row.org, i) /\ row.status = "success" /\ row.durable
                     => listed'[i] = row
        BY <1>1, <1>2, <1>4, <3>1, <3>2, RowEnded
      <3> QED
        BY <1>1, <1>2, <2>1, <3>3
    <2>2. CASE ~old.durable
      <3>1. listed' = R!Recent(Append(listed, row))
        BY <1>3, <2>2
      <3>2. listed' \in Seq(RunRow) /\ Len(listed') <= MaxListed
        BY <1>1, <1>2, <3>1, Appended
      <3>3. /\ ~preview[row.org].durable /\ row.status # "active"
            /\ ~(row.status = "success" /\ row.durable)
        BY <1>2, <2>2 DEF old
      <3>4. IF row.status = "active" THEN R!None.durable /\ R!None.step # "none" ELSE ~R!None.durable
        BY <1>4, <3>3
      <3>5. /\ ActiveIsLast(listed', [preview EXCEPT ![row.org] = R!None])
            /\ DurableIsListed(listed', [preview EXCEPT ![row.org] = R!None])
            /\ \A b \in Orgs : \A Sx, limitx, rounds :
                  CursorStands(Sx, limitx, rounds, listed, b)
                     => CursorStands(Sx, limitx, rounds, listed', b)
        BY <1>1, <1>2, <1>4, <3>1, <3>3, <3>4, RowAppended
      <3> QED
        BY <1>2, <2>2, <3>2, <3>5
    <2> QED
      BY <2>1, <2>2
  <1>7. RotationTypes'
    BY <1>5, <1>6 DEF RotationInv, RotationTypes
  <1>8. CursorStands(S, limit, waited'[o], listed', o)
    <2>1. CASE status = "success" /\ old.durable
      <3>1. ASSUME NEW i \in DOMAIN listed', LastCursor(listed', o, i)
            PROVE  \A d \in S : Within(S, listed'[i].next, limit, d, waited'[o][d])
        <4>1. listed'[i].next = next
          BY <1>2, <1>6, <2>1, <3>1
        <4> QED
          BY <2>1, <4>1 DEF old
      <3> QED
        BY <3>1 DEF CursorStands
    <2>2. CASE ~(status = "success" /\ old.durable)
      <3>1. waited' = waited
        BY <2>2 DEF old
      <3>2. CursorStands(S, limit, waited[o], listed, o)
        BY <1>1 DEF OrgStands
      <3> QED
        BY <1>6, <2>2, <3>1, <3>2
    <2> QED
      BY <2>1, <2>2
  <1>9. OrgStands(estate'[o], mode'[o], waited'[o], listed', preview'[o], o)
    BY <1>4, <1>5, <1>8 DEF OrgStands, PreviewStands
  <1>10. \A b \in Orgs \ {o} : \A Sx, limitx, rounds :
              CursorStands(Sx, limitx, rounds, listed, b) => CursorStands(Sx, limitx, rounds, listed', b)
    BY <1>6
  <1> QED
    BY <1>4, <1>5, <1>6, <1>7, <1>9, <1>10, RotationStep

LEMMA PublishStep == ASSUME RotationInv, NEW o \in Orgs, R!Publish(o) PROVE RotationInv'
  <1> DEFINE old == preview[o]
             S == estate[o]
             limit == Limit[mode[o]]
             c == R!NextOffset(old.offset, old.rows, Limit[old.mode])
  <1>1. /\ old.step = "read" /\ R!Ended(o, "success", c)
        /\ preview' = [preview EXCEPT ![o] = R!None] /\ UNCHANGED <<estate, mode, begun>>
        /\ waited' = IF old.durable
                     THEN [waited EXCEPT ![o] = [d \in DOMAIN @ |->
                             IF R!IsRound(o) /\ d \in old.rows \ old.window THEN @[d] + 1 ELSE 0]]
                     ELSE waited
    BY DEF R!Publish
  <1>2. /\ old \in PreviewRow /\ old.offset \in Nat /\ old.mode \in R!Modes /\ old.durable \in BOOLEAN
        /\ Limit[old.mode] \in Nat /\ S \in Estates /\ limit \in Nat
        /\ waited \in [Orgs -> [UNION Estates -> Nat]]
    BY OrgFacts, PreviewShape, RotationBounds
  <1>3. old.rows \in Estates /\ old.window = R!Window(old.rows, old.offset, Limit[old.mode])
    BY <1>1, OrgFacts DEF WindowFollows
  <1>4. c \in Nat
    BY <1>2, <1>3, OffsetIsNumber
  <1>5. Turns(S, limit, waited[o]) /\ PreviewStands(S, mode[o], waited[o], old)
    BY OrgFacts DEF OrgStands
  <1>6. R!IsRound(o) => old.rows = S /\ old.mode = mode[o] /\ limit > 0
    BY DEF R!IsRound
  <1>7. c = R!NextOffset(old.offset, old.rows, Limit[old.mode])
    OBVIOUS
  <1> HIDE DEF c
  <1>8. CASE old.durable
    <2> DEFINE rounds == [d \in UNION Estates |->
                             IF R!IsRound(o) /\ d \in old.rows \ old.window THEN waited[o][d] + 1 ELSE 0]
    <2>1. waited' = [waited EXCEPT ![o] = rounds]
      BY <1>1, <1>2, <1>8
    <2>2. rounds \in [UNION Estates -> Nat]
      BY <1>2
    <2>3. ASSUME NEW d \in UNION Estates, rounds[d] > 0
          PROVE  R!IsRound(o) /\ d \in S \ old.window /\ rounds[d] = waited[o][d] + 1
      BY <1>6, <2>3
    <2> HIDE DEF rounds
    <2>4. /\ waited' \in [Orgs -> [UNION Estates -> Nat]] /\ waited'[o] = rounds
          /\ \A b \in Orgs \ {o} : waited'[b] = waited[b]
      BY <1>2, <2>1, <2>2
    <2>5. ASSUME NEW d \in UNION Estates, rounds[d] > 0
          PROVE  old.rows = S /\ limit > 0 /\ d \in S /\ Within(S, c, limit, d, rounds[d])
      <3>1. /\ old.rows = S /\ old.mode = mode[o] /\ limit > 0 /\ d \in S /\ d \notin old.window
            /\ rounds[d] = waited[o][d] + 1 /\ waited[o][d] \in Nat
        BY <1>2, <1>6, <2>3, <2>5
      <3>2. Within(S, old.offset, limit, d, waited[o][d])
        BY <1>1, <1>5, <1>8, <3>1 DEF PreviewStands
      <3>3. d \notin R!Window(S, old.offset, limit)
        BY <1>3, <3>1
      <3>4. Within(S, R!NextOffset(old.offset, S, limit), limit, d, waited[o][d] + 1)
        BY <1>2, <3>1, <3>2, <3>3, RoundComesNearer
      <3> QED
        BY <1>7, <3>1, <3>4
    <2>6. Turns(S, limit, rounds)
      <3>1. ASSUME NEW d \in UNION Estates, rounds[d] > 0
            PROVE  d \in S /\ limit > 0 /\ rounds[d] * limit < Cardinality(S)
        <4>1. d \in S /\ limit > 0 /\ Within(S, c, limit, d, rounds[d])
          BY <2>5, <3>1
        <4>2. PICK m \in 0..(Cardinality(S) - 1) : rounds[d] * limit + m <= Cardinality(S) - 1
          BY <4>1 DEF Within
        <4>3. Cardinality(S) \in Nat
          BY <1>2, FS_CardinalityType, RotationBounds
        <4>4. rounds[d] * limit \in Nat
          BY <1>2, <2>2
        <4>5. rounds[d] * limit < Cardinality(S)
          BY <4>2, <4>3, <4>4
        <4> QED
          BY <4>1, <4>5
      <3> QED
        BY <3>1 DEF Turns
    <2>7. ASSUME NEW d \in S PROVE Within(S, c, limit, d, rounds[d])
      <3>1. d \in UNION Estates /\ rounds[d] \in Nat
        BY <1>2, <2>2
      <3>2. CASE rounds[d] = 0
        BY <1>2, <1>4, <3>2, WithinAtFirst
      <3> QED
        BY <2>5, <3>1, <3>2
    <2> QED
      BY <1>1, <1>4, <1>8, <2>4, <2>6, <2>7, PreviewEnds
  <1>9. CASE ~old.durable
    <2>1. waited' = waited
      BY <1>1, <1>9
    <2> QED
      BY <1>1, <1>2, <1>4, <1>5, <1>9, <2>1, PreviewEnds
  <1> QED
    BY <1>8, <1>9

LEMMA FailStep == ASSUME RotationInv, NEW o \in Orgs, R!Fail(o) PROVE RotationInv'
  <1>1. /\ R!Ended(o, "failed", 0) /\ preview' = [preview EXCEPT ![o] = R!None]
        /\ UNCHANGED <<estate, mode, waited, begun>>
    BY DEF R!Fail
  <1>2. /\ waited \in [Orgs -> [UNION Estates -> Nat]]
        /\ Turns(estate[o], Limit[mode[o]], waited[o])
    BY OrgFacts DEF OrgStands
  <1> QED
    BY <1>1, <1>2, PreviewEnds

\* The devices of an organization change, or its policy does.
LEMMA SettingsStep ==
    ASSUME RotationInv, NEW o \in Orgs, R!ChangeEstate(o) \/ R!SavePolicy(o)
    PROVE  RotationInv'
  <1>1. /\ waited' = [waited EXCEPT ![o] = [d \in DOMAIN @ |-> 0]]
        /\ UNCHANGED <<listed, preview, begun>>
    BY DEF R!ChangeEstate, R!SavePolicy
  <1>2. /\ estate \in [Orgs -> Estates] /\ mode \in [Orgs -> R!Modes]
        /\ waited \in [Orgs -> [UNION Estates -> Nat]]
    BY DEF RotationInv, RotationTypes
  <1>3. /\ estate' \in [Orgs -> Estates] /\ mode' \in [Orgs -> R!Modes]
        /\ \A b \in Orgs \ {o} : estate'[b] = estate[b] /\ mode'[b] = mode[b]
    BY <1>2 DEF R!ChangeEstate, R!SavePolicy
  <1>4. /\ waited' \in [Orgs -> [UNION Estates -> Nat]]
        /\ \A b \in Orgs \ {o} : waited'[b] = waited[b]
        /\ \A d \in UNION Estates : waited'[o][d] = 0
    BY <1>1, <1>2
  <1>5. RotationTypes'
    BY <1>1, <1>3, <1>4 DEF RotationInv, RotationTypes
  <1>6. OrgStands(estate'[o], mode'[o], waited'[o], listed, preview[o], o)
    BY <1>3, <1>4, OrgFacts, NobodyWaits
  <1> QED
    BY <1>1, <1>3, <1>4, <1>5, <1>6, OrgFacts, RotationStep

LEMMA RotationNext == ASSUME RotationInv, [R!Next]_(R!vars) PROVE RotationInv'
  <1>1. CASE R!Next
    <2>1. PICK o \in Orgs : \/ R!Request(o) \/ R!Claim(o) \/ R!Start(o) \/ R!Read(o) \/ R!Publish(o)
                            \/ R!Fail(o) \/ R!Lose(o) \/ R!ChangeEstate(o) \/ R!SavePolicy(o)
      BY <1>1 DEF R!Next
    <2> QED
      BY <2>1, PreviewRequested, ClaimStep, StartStep, ReadStep, PublishStep, FailStep, LoseStep,
         SettingsStep
  <1>2. CASE UNCHANGED R!vars
    BY <1>2 DEF R!vars, RotationInv, RotationTypes
  <1> QED
    BY <1>1, <1>2

LEMMA RotationInit == ASSUME R!Init PROVE RotationInv
  <1>1. /\ estate \in [Orgs -> Estates] /\ mode \in [Orgs -> R!Modes] /\ listed = <<>>
        /\ preview = [o \in Orgs |-> R!None] /\ begun = 0
        /\ waited = [o \in Orgs |-> [d \in UNION Estates |-> 0]]
    BY DEF R!Init
  <1>2. listed \in Seq(RunRow) /\ Len(listed) = 0 /\ DOMAIN listed = {}
    BY <1>1
  <1>3. preview \in [Orgs -> PreviewRow] /\ \A o \in Orgs : ~preview[o].durable
    BY <1>1, NoneIsPreview
  <1>4. waited \in [Orgs -> [UNION Estates -> Nat]]
    BY <1>1
  <1>5. RotationTypes
    BY <1>1, <1>2, <1>3, <1>4, RotationBounds DEF RotationTypes
  <1>6. \A o \in Orgs : WindowFollows(preview[o])
    BY <1>1, NoneIsPreview
  <1>7. ActiveIsLast(listed, preview) /\ DurableIsListed(listed, preview)
    BY <1>2 DEF ActiveIsLast, DurableIsListed
  <1>8. ASSUME NEW o \in Orgs
        PROVE  OrgStands(estate[o], mode[o], waited[o], listed, preview[o], o)
    <2>1. \A d \in UNION Estates : waited[o][d] = 0
      BY <1>1
    <2>2. estate[o] \in Estates /\ mode[o] \in R!Modes /\ preview[o] \in PreviewRow
      BY <1>1, <1>3
    <2> QED
      BY <1>2, <2>1, <2>2, NobodyWaits
  <1> QED
    BY <1>5, <1>6, <1>7, <1>8 DEF RotationInv

LEMMA TurnsAreTaken == RotationInv => R!EveryDeviceHasItsTurn
  <1> SUFFICES ASSUME RotationInv, NEW o \in Orgs, NEW d \in UNION Estates,
                      Limit[mode[o]] > 0, waited[o][d] > 0
               PROVE  waited[o][d] * Limit[mode[o]] < R!Cardinality(estate[o])
    BY DEF R!EveryDeviceHasItsTurn
  <1>1. Turns(estate[o], Limit[mode[o]], waited[o])
    BY OrgFacts DEF OrgStands
  <1>2. waited[o][d] * Limit[mode[o]] < Cardinality(estate[o])
    BY <1>1 DEF Turns
  <1> QED
    BY <1>2 DEF R!Cardinality, Cardinality

LEMMA RotationTypeOK == RotationInv => R!TypeOK
  <1> SUFFICES ASSUME RotationInv PROVE R!TypeOK
    OBVIOUS
  <1>1. /\ estate \in [Orgs -> Estates] /\ mode \in [Orgs -> R!Modes]
        /\ listed \in Seq([org : Orgs, status : {"active", "success", "failed"},
                           durable : BOOLEAN, next : Nat])
        /\ Len(listed) <= MaxListed
        /\ waited \in [Orgs -> [UNION Estates -> Nat]]
    BY DEF RotationInv, RotationTypes, RunRow
  <1>2. ASSUME NEW o \in Orgs
        PROVE  /\ preview[o].step \in R!Steps /\ preview[o].mode \in R!Modes
               /\ preview[o].window \subseteq preview[o].rows
               /\ R!Cardinality(preview[o].window) <= Limit[preview[o].mode]
    <2>1. /\ preview[o].step \in R!Steps /\ preview[o].mode \in R!Modes
          /\ preview[o].offset \in Nat /\ Limit[preview[o].mode] \in Nat
      BY OrgFacts, PreviewShape, RotationBounds
    <2>2. /\ preview[o].window \subseteq preview[o].rows
          /\ Cardinality(preview[o].window) <= Limit[preview[o].mode]
      <3>1. CASE preview[o].step = "read"
        BY <2>1, <3>1, OrgFacts, WindowSize DEF WindowFollows
      <3>2. CASE preview[o].step # "read"
        <4>1. preview[o].window = {}
          BY <3>2, OrgFacts DEF WindowFollows
        <4>2. Cardinality({}) = 0
          BY FS_EmptySet
        <4> QED
          BY <2>1, <4>1, <4>2
      <3> QED
        BY <3>1, <3>2
    <2> QED
      BY <2>1, <2>2 DEF R!Cardinality, Cardinality
  <1> QED
    BY <1>1, <1>2 DEF R!TypeOK

----------------------------------------------------------------------------
(* The cache of enrichment *)

CacheRow == [at : Nat, gen : E!Generations \cup {0}, key : E!Assets \cup {E!Marker}]

KeysIn(rs, g) == {r.key : r \in E!RowsIn(rs, g)}

\* A generation with a marker holds all that its refresh prepared.
Whole(rs) == \A g \in E!Generations :
                (\E r \in E!RowsIn(rs, g) : r.key = E!Marker)
                => KeysIn(rs, g) = meta[g].items \cup {E!Marker}

RowsStand(rs) == /\ rs \subseteq CacheRow /\ IsFiniteSet(rs)
                 /\ \E n \in Nat : \A r \in rs : r.at <= n
                 /\ Whole(rs)

\* What is held for a scope and a server is all that one refresh prepared for them.
Prepared(assets, scope, server, cut) ==
    ~cut /\ assets # {} => \E g \in E!Generations : /\ meta[g].items = assets
                                                    /\ meta[g].scope = scope
                                                    /\ meta[g].server = server

UnderLock == {"locked", "staging", "marked"}
Staging == {"staging", "marked"}

EvidenceStands(t) ==
    /\ t.pc = "assets" => Prepared(t.assets, t.scope, t.server, t.cut)
    /\ t.pc = "again" => t.scope # {}
    /\ t.pc \in {"read"} \cup UnderLock /\ t.job.kind = "preview" =>
          t.job.scope # {} /\ Prepared(t.job.before, t.job.scope, t.job.server, t.job.cut)

LockStands(t, p) == t.pc \in UnderLock => held[t.locked] = p

\* The generation a task stages is the newest of its server, and the rows of it are
\* those that were stored.
StageStands(t) ==
    t.pc \in Staging =>
       /\ t.gen \in E!Generations /\ meta[t.gen].server = t.locked
       /\ t.left \subseteq meta[t.gen].items
       /\ \A h \in E!Generations : meta[h].server = t.locked => h <= t.gen
       /\ t.pc = "marked" => KeysIn(cache, t.gen) = meta[t.gen].items \cup {E!Marker}
       /\ t.pc = "staging" => /\ KeysIn(cache, t.gen) \subseteq meta[t.gen].items \ t.left
                              /\ \/ t.failed = TRUE
                                 \/ KeysIn(cache, t.gen) = meta[t.gen].items \ t.left

MetaStands == \A g \in E!Generations : \A x \in meta[g].items :
                 E!Valid(x, meta[g].scope, meta[g].server)

CacheInv ==
    /\ E!TypeOK /\ RowsStand(cache) /\ MetaStands
    /\ \A p \in Tasks : /\ EvidenceStands(work[p]) /\ LockStands(work[p], p)
                        /\ StageStands(work[p])

LEMMA CacheBounds ==
    /\ E!None \notin Servers /\ E!None \notin Tasks /\ Servers # {}
    /\ Len(Inventory) \in Nat \ {0} /\ DOMAIN Inventory = 1..Len(Inventory)
    /\ \A x \in E!Assets : x.server \in Servers \cup {E!None}
    /\ IsFiniteSet(Legacy) /\ MaxAssets \in Nat /\ ListLimit \in Nat
    /\ \A d \in DOMAIN Inventory : IsFiniteSet(Inventory[d])
  <1>1. \A S : E!IsFiniteSet(S) <=> IsFiniteSet(S)
    BY DEF IsFiniteSet, E!IsFiniteSet
  <1> QED
    BY <1>1, ProviderAssumption DEF E!CacheAssumption

\* There is a newest row.
LEMMA NewestRow ==
    ASSUME NEW rs, rs # {}, \A r \in rs : r.at \in Nat, NEW n \in Nat, \A r \in rs : r.at <= n
    PROVE  E!Newest(rs) \in rs /\ \A q \in rs : q.at <= E!Newest(rs).at
  <1> DEFINE Bounds == {m \in Nat : \A r \in rs : r.at <= m}
  <1>1. PICK m \in Bounds : \A k \in Bounds : m <= k
    <2>1. Bounds \in SUBSET Nat /\ Bounds # {}
      OBVIOUS
    <2> HIDE DEF Bounds
    <2> QED
      BY <2>1, LeastNumber
  <1>2. PICK r \in rs : r.at = m
    <2> SUFFICES ASSUME \A r \in rs : r.at # m PROVE FALSE
      OBVIOUS
    <2>1. \A r \in rs : r.at <= m - 1
      BY <1>1
    <2>2. m - 1 \in Nat
      BY <1>1, <2>1
    <2>3. m - 1 \in Bounds
      BY <2>1, <2>2
    <2> QED
      BY <1>1, <2>2, <2>3
  <1>3. \A q \in rs : q.at <= r.at
    BY <1>1, <1>2
  <1> QED
    BY <1>3 DEF E!Newest

\* A list that is not cut holds every row of the server.
LEMMA ListedWhole ==
    ASSUME NEW rs, IsFiniteSet(rs), \A r \in rs : r.at \in Nat, NEW server,
           ~E!IsCut(rs, server)
    PROVE  E!Listed(rs, server) = E!RowsOf(rs, server)
  <1> DEFINE own == E!RowsOf(rs, server)
  <1>1. own \subseteq rs /\ IsFiniteSet(own) /\ Cardinality(own) \in Nat
    <2>1. own \subseteq rs
      BY DEF E!RowsOf
    <2> QED
      BY <2>1, FS_Subset, FS_CardinalityType
  <1>2. Cardinality(own) <= ListLimit
    BY <1>1, CacheBounds DEF E!IsCut, E!Cardinality, Cardinality
  <1>3. ASSUME NEW r \in own PROVE Cardinality({q \in own : q.at > r.at}) < ListLimit
    <2> DEFINE newer == {q \in own : q.at > r.at}
    <2>1. newer \in SUBSET own /\ newer # own
      BY <1>1, <1>3
    <2>2. Cardinality(newer) <= Cardinality(own) /\ Cardinality(newer) # Cardinality(own)
          /\ IsFiniteSet(newer)
      <3> HIDE DEF newer
      <3> QED
        BY <1>1, <2>1, FS_Subset
    <2>3. Cardinality(newer) \in Nat
      BY <2>2, FS_CardinalityType
    <2> QED
      BY <1>1, <1>2, <2>2, <2>3, CacheBounds
  <1> QED
    BY <1>3 DEF E!Listed, E!Cardinality, Cardinality

\* What a read returns is the rows of one generation, which has its marker, or has none
\* because the rows have no generation.
LEMMA OneGeneration ==
    ASSUME NEW list, \A r \in list : r.at \in Nat /\ r.gen \in Nat,
           NEW n \in Nat, \A r \in list : r.at <= n
    PROVE  \E g \in Nat : /\ E!GenerationRows(list) = E!RowsIn(list, g)
                          /\ g # 0 => \E r \in E!RowsIn(list, g) : r.key = E!Marker
  <1> DEFINE marked == {r.gen : r \in {x \in list : x.key = E!Marker}}
             published == {r \in list : r.gen \in marked}
             g == IF published = {} THEN 0 ELSE E!Newest(published).gen
  <1>1. E!GenerationRows(list) = E!RowsIn(list, g)
    BY DEF E!GenerationRows, E!RowsIn
  <1>2. published # {} => E!Newest(published) \in published
    BY NewestRow
  <1>3. g \in Nat /\ (g # 0 => \E r \in E!RowsIn(list, g) : r.key = E!Marker)
    <2>1. CASE published = {}
      BY <2>1
    <2>2. CASE published # {}
      <3>1. g = E!Newest(published).gen /\ E!Newest(published) \in list /\ g \in marked
        BY <1>2, <2>2
      <3>2. PICK r \in list : r.key = E!Marker /\ r.gen = g
        BY <3>1
      <3> QED
        BY <3>1, <3>2 DEF E!RowsIn
    <2> QED
      BY <2>1, <2>2
  <1> QED
    BY <1>1, <1>3

PreviewJob == [kind : {"preview"}, scope : SUBSET Organizations, server : Servers,
               before : SUBSET E!Assets, cut : BOOLEAN]
ReadTask == [pc : {"read"}, job : E!Jobs, result : E!Replies]
LockedTask == [pc : {"locked"}, job : E!Jobs, result : E!Replies, locked : Servers]
StagingTask == [pc : Staging, job : E!Jobs, locked : Servers, gen : E!Generations,
                left : SUBSET E!Assets, failed : BOOLEAN]
ServedTask == [pc : {"assets"}, kind : {"preview", "link"}, scope : SUBSET Organizations,
               server : Servers \cup {E!None}, assets : SUBSET E!Assets, cut : BOOLEAN]
AgainTask == [pc : {"again"}, scope : SUBSET Organizations, server : Servers]
LinkingTask == [pc : {"linking"}, scope : SUBSET Organizations, server : Servers \cup {E!None},
                evidence : SUBSET E!Assets]
MetaRow == [items : SUBSET E!Assets, scope : SUBSET Organizations, server : Servers,
            gaps : BOOLEAN, expired : BOOLEAN]
SavedRow == [scope : SUBSET Organizations, server : Servers \cup {E!None}, on : BOOLEAN, saves : Nat]

\* A task has the fields of the place it is at.
LEMMA WorkShape ==
    ASSUME NEW t \in E!TaskRows
    PROVE  /\ t.pc = "policy" => t.scope \in SUBSET Organizations
           /\ t.pc = "read" => t \in ReadTask
           /\ t.pc = "locked" => t \in LockedTask
           /\ t.pc \in Staging => t \in StagingTask
           /\ t.pc = "assets" => t \in ServedTask
           /\ t.pc = "again" => t \in AgainTask
           /\ t.pc = "reviewed" =>
                 t.server \in Servers \cup {E!None} /\ t.evidence \in SUBSET E!Assets
           /\ t.pc = "linking" => t \in LinkingTask
  BY DEF E!TaskRows, E!Idle, Staging, ReadTask, LockedTask, StagingTask, AgainTask, ServedTask,
         LinkingTask

LEMMA JobShape ==
    ASSUME NEW job \in E!Jobs
    PROVE  job.kind # "refresh" => job.kind = "preview" /\ job \in PreviewJob
  BY DEF E!Jobs, PreviewJob

LEMMA MetaTypes ==
    ASSUME E!TypeOK, NEW g \in E!Generations
    PROVE  g \in Nat \ {0} /\ meta[g] \in MetaRow /\ E!MetaOf(g) = meta[g]
  <1>1. meta \in Seq(MetaRow)
    BY DEF E!TypeOK, MetaRow
  <1>2. g \in Nat \ {0} /\ meta[g] \in MetaRow
    BY <1>1 DEF E!Generations
  <1> QED
    BY <1>2 DEF E!MetaOf

LEMMA RowTypes ==
    ASSUME E!TypeOK, NEW rs, rs \subseteq CacheRow, NEW r \in rs
    PROVE  /\ r.at \in Nat /\ r.gen \in Nat /\ r.gen \in E!Generations \cup {0}
           /\ r.key \in E!Assets \cup {E!Marker}
  BY MetaTypes DEF CacheRow

LEMMA MarkerIsNone == E!Marker.asset = E!None
  BY DEF E!Marker

\* The rows that a read of a server returns, and what is selected of them.
LEMMA SelectedWhole ==
    ASSUME E!TypeOK, MetaStands, NEW rs, RowsStand(rs), NEW server \in Servers,
           NEW scope \in SUBSET Organizations, scope # {}
    PROVE  Prepared(E!FromCache(rs, scope, server), scope, server, E!IsCut(rs, server))
  <1> DEFINE list == E!GenerationRows(E!Listed(rs, server))
  <1> SUFFICES ASSUME ~E!IsCut(rs, server), E!FromCache(rs, scope, server) # {}
               PROVE  \E g \in E!Generations :
                         /\ meta[g].items = E!FromCache(rs, scope, server)
                         /\ meta[g].scope = scope /\ meta[g].server = server
    BY DEF Prepared
  <1>1. \A r \in rs : r.at \in Nat /\ r.gen \in Nat /\ r.gen \in E!Generations \cup {0}
    BY RowTypes DEF RowsStand
  <1>2. E!Listed(rs, server) = E!RowsOf(rs, server)
    BY <1>1, ListedWhole DEF RowsStand
  <1>3. E!RowsOf(rs, server) \subseteq rs
    BY DEF E!RowsOf
  <1>4. PICK n \in Nat : \A r \in rs : r.at <= n
    BY DEF RowsStand
  <1>5. PICK g \in Nat : /\ list = E!RowsIn(E!RowsOf(rs, server), g)
                         /\ g # 0 => \E r \in E!RowsIn(E!RowsOf(rs, server), g) : r.key = E!Marker
    BY <1>1, <1>2, <1>3, <1>4, OneGeneration
  <1>6. /\ E!FromCache(rs, scope, server) = E!AssetsOf(list, scope, server)
        /\ ~E!Stale(list) /\ E!ScopeOf(list) = scope
    BY DEF E!FromCache, E!Selected
  <1>7. list # {} /\ \A r \in list : r.gen = g /\ r \in rs
    BY <1>3, <1>5, <1>6 DEF E!ScopeOf, E!RowsIn
  <1>8. E!MetaOf(g).scope = scope
    BY <1>6, <1>7 DEF E!ScopeOf
  <1>9. g \in E!Generations
    <2>1. g # 0
      BY <1>8 DEF E!MetaOf, E!LegacyMeta
    <2> QED
      BY <1>1, <1>7, <2>1
  <1>10. meta[g] \in MetaRow /\ E!MetaOf(g) = meta[g]
    BY <1>9, MetaTypes
  <1>11. PICK r \in E!RowsIn(E!RowsOf(rs, server), g) : r.key = E!Marker
    BY <1>5, <1>9, MetaTypes
  <1>12. meta[g].server = server
    <2>1. r.gen = g /\ server \in {E!None, E!MetaOf(r.gen).server}
      BY <1>11 DEF E!RowsIn, E!RowsOf
    <2> QED
      BY <1>10, <2>1, CacheBounds
  <1>13. list = E!RowsIn(rs, g)
    <2>1. \A x \in rs : x.gen = g => x \in E!RowsOf(rs, server)
      BY <1>10, <1>12 DEF E!RowsOf
    <2> QED
      BY <1>3, <1>5, <2>1 DEF E!RowsIn
  <1>14. KeysIn(rs, g) = meta[g].items \cup {E!Marker}
    BY <1>5, <1>9, <1>11, <1>13 DEF RowsStand, Whole
  <1>15. \A x \in meta[g].items : E!Valid(x, scope, server) /\ x # E!Marker
    <2>1. \A x \in meta[g].items : E!Valid(x, meta[g].scope, meta[g].server)
      BY <1>9 DEF MetaStands
    <2> QED
      BY <1>8, <1>10, <1>12, <2>1, MarkerIsNone DEF E!Valid
  <1>16. E!AssetsOf(list, scope, server) = meta[g].items
    <2>1. {r2.key : r2 \in {y \in list : y.key # E!Marker}} = meta[g].items
      BY <1>13, <1>14, <1>15 DEF KeysIn
    <2> QED
      BY <1>15, <2>1 DEF E!AssetsOf
  <1> QED
    BY <1>6, <1>8, <1>9, <1>10, <1>12, <1>16

\* What is shown is rows of one generation: that of the rows of an older version, which
\* has no scope, or one that a refresh prepared.
LEMMA ShownRows ==
    ASSUME CacheInv
    PROVE  \E g \in Nat :
              /\ \A r \in E!Shown : r.gen = g /\ r \in cache
              /\ E!Shown # {} =>
                    \/ E!MetaOf(g).scope = {}
                    \/ /\ g \in E!Generations
                       /\ \A r \in E!Shown : r.key # E!Marker => r.key \in meta[g].items
  <1> DEFINE some == E!Listed(cache, saved.server)
  <1>1. some \subseteq cache
    BY DEF E!Listed, E!RowsOf
  <1>2. \A r \in cache : r.at \in Nat /\ r.gen \in Nat /\ r.gen \in E!Generations \cup {0}
    BY RowTypes DEF CacheInv, RowsStand
  <1>3. PICK n \in Nat : \A r \in cache : r.at <= n
    BY DEF CacheInv, RowsStand
  <1>4. PICK g \in Nat : /\ E!GenerationRows(some) = E!RowsIn(some, g)
                         /\ g # 0 => \E r \in E!RowsIn(some, g) : r.key = E!Marker
    BY <1>1, <1>2, <1>3, OneGeneration
  <1>5. \A r \in E!Shown : r.gen = g /\ r \in cache
    BY <1>1, <1>4 DEF E!Shown, E!RowsIn
  <1>6. ASSUME E!Shown # {}, g # 0
        PROVE  /\ g \in E!Generations
               /\ \A r \in E!Shown : r.key # E!Marker => r.key \in meta[g].items
    <2>1. g \in E!Generations
      BY <1>2, <1>5, <1>6
    <2>2. \E r \in E!RowsIn(cache, g) : r.key = E!Marker
      BY <1>1, <1>4, <1>6 DEF E!RowsIn
    <2>3. KeysIn(cache, g) = meta[g].items \cup {E!Marker}
      BY <2>1, <2>2 DEF CacheInv, RowsStand, Whole
    <2>4. \A r \in E!Shown : r.key \in KeysIn(cache, g)
      BY <1>5 DEF KeysIn, E!RowsIn
    <2> QED
      BY <2>1, <2>3, <2>4
  <1>7. E!MetaOf(0).scope = {}
    BY DEF E!MetaOf, E!LegacyMeta
  <1> QED
    BY <1>5, <1>6, <1>7

\* The cached read, the diagnostics and the previews agree.
LEMMA ViewsHold == CacheInv => E!ViewsAgree
  <1> SUFFICES ASSUME CacheInv PROVE E!ViewsAgree
    OBVIOUS
  <1> DEFINE list == E!Shown
             found == {r.key : r \in {y \in list : y.key # E!Marker}}
             own == E!AssetsOf(list, saved.scope, saved.server)
             merged == E!WouldMerge(list)
  <1>1. PICK g \in Nat :
           /\ \A r \in list : r.gen = g /\ r \in cache
           /\ list # {} => \/ E!MetaOf(g).scope = {}
                           \/ /\ g \in E!Generations
                              /\ \A r \in list : r.key # E!Marker => r.key \in meta[g].items
    BY ShownRows
  <1>2. own = {x \in found : E!Valid(x, saved.scope, saved.server)}
    BY DEF E!AssetsOf
  <1>3. list # {} => E!ScopeOf(list) = E!MetaOf(g).scope
    BY <1>1 DEF E!ScopeOf
  <1>4. E!Complete(list, saved.scope, saved.server) =>
           own = found /\ \A x, y \in own : x # y => x.device # y.device
    BY <1>2 DEF E!Complete
  <1>5. \A x \in own : x.server = saved.server /\ x.org \in saved.scope
    BY <1>2 DEF E!Valid
  <1>6. ASSUME own # {}, E!ScopeMatches(list) PROVE saved.scope # {} /\ saved.server # E!None
    <2>1. PICK r \in list : r.key # E!Marker /\ r.key \in own
      BY <1>2, <1>6
    <2>2. saved.scope # {} /\ r.key.server = saved.server
      BY <1>5, <2>1
    <2>3. g \in E!Generations /\ r.key \in meta[g].items
      BY <1>1, <1>3, <1>6, <2>1, <2>2 DEF E!ScopeMatches
    <2>4. meta[g] \in MetaRow /\ r.key.server = meta[g].server
      BY <2>3, MetaTypes DEF CacheInv, MetaStands, E!Valid
    <2>5. meta[g].server \in Servers
      BY <2>4 DEF MetaRow
    <2> QED
      BY <2>2, <2>4, <2>5, CacheBounds
  <1>7. ASSUME merged # {}
        PROVE  /\ saved.on /\ saved.scope # {} /\ saved.server # E!None
               /\ list # {} /\ ~E!Stale(list) /\ E!ScopeMatches(list)
               /\ merged = E!Merged(own, saved.server) /\ own # {}
    <2>1. saved.on /\ saved.scope # {} /\ saved.server # E!None
      BY <1>7 DEF E!WouldMerge
    <2>2. merged = E!Merged(E!Selected(list, saved.scope, saved.server), saved.server)
      BY <2>1 DEF E!WouldMerge
    <2>3. E!Selected(list, saved.scope, saved.server) # {}
      BY <1>7, <2>2 DEF E!Merged
    <2>4. ~E!Stale(list) /\ E!ScopeOf(list) = saved.scope
          /\ E!Selected(list, saved.scope, saved.server) = own
      BY <2>3 DEF E!Selected
    <2>5. list # {}
      BY <2>3, <2>4, <1>2
    <2> QED
      BY <2>1, <2>2, <2>3, <2>4, <2>5 DEF E!ScopeMatches
  <1>8. ASSUME E!Current(list), saved.on, own # {} PROVE merged = own
    <2>1. /\ E!ScopeMatches(list) /\ ~E!Stale(list)
          /\ E!Complete(list, saved.scope, saved.server)
      BY <1>8 DEF E!Current
    <2>2. saved.scope # {} /\ saved.server # E!None
      BY <1>6, <1>8, <2>1
    <2>3. E!Selected(list, saved.scope, saved.server) = own
      BY <2>1 DEF E!Selected, E!ScopeMatches
    <2>4. E!Merged(own, saved.server) = own
      BY <1>4, <1>5, <2>1 DEF E!Merged
    <2> QED
      BY <1>8, <2>2, <2>3, <2>4 DEF E!WouldMerge
  <1>9. ASSUME NEW device, NEW known \in {"mapped", "unknown"},
               E!Reason(list, device, known) \in {"enriched", "graphql_only"}
        PROVE  \E x \in merged : x.device = device
    <2> DEFINE asset == \E x \in own : x.device = device
    <2>1. saved.on /\ E!Current(list) /\ asset
      BY <1>9 DEF E!Reason
    <2> QED
      BY <1>8, <2>1
  <1>10. ASSUME NEW device, NEW known \in {"mapped", "unknown"}, NEW x \in merged,
                x.device = device
         PROVE  \/ E!Reason(list, device, known) = "stale_cache_evidence"
                \/ E!Reason(list, device, known) =
                      IF known = "mapped" THEN "enriched" ELSE "graphql_only"
    <2>1. x \in own /\ \E r \in list : r.key.device = device
      <3>1. x \in own
        BY <1>7, <1>10 DEF E!Merged
      <3> QED
        BY <1>2, <1>10, <3>1
    <2>2. saved.on /\ saved.scope # {} /\ saved.server # E!None
          /\ list # {} /\ ~E!Stale(list) /\ E!ScopeMatches(list)
      BY <1>7, <1>10
    <2>3. CASE E!Current(list)
      BY <1>10, <2>1, <2>2, <2>3 DEF E!Reason
    <2>4. CASE ~E!Current(list)
      <3>1. E!Freshness(list) = "incomplete"
        BY <2>2, <2>4 DEF E!Freshness, E!Current
      <3> QED
        BY <1>10, <2>1, <2>2, <2>4, <3>1 DEF E!Reason
    <2> QED
      BY <2>3, <2>4
  <1>11. ASSUME E!Current(list), saved.on PROVE E!CachedItems(list) = merged
    <2>1. CASE own = {}
      <3>1. E!CachedItems(list) = {}
        BY <2>1 DEF E!CachedItems
      <3>2. merged = {}
        BY <1>7, <2>1
      <3> QED
        BY <3>1, <3>2
    <2>2. CASE own # {}
      <3>1. E!ScopeMatches(list)
        BY <1>11 DEF E!Current
      <3>2. E!CachedItems(list) = own
        BY <1>6, <2>2, <3>1 DEF E!CachedItems
      <3> QED
        BY <1>8, <1>11, <2>2, <3>2
    <2> QED
      BY <2>1, <2>2
  <1>12. ASSUME merged # {} PROVE E!CachedStatus(list) = "fresh"
    <2>1. E!CachedItems(list) = own /\ own # {}
      BY <1>7, <1>12 DEF E!CachedItems
    <2> QED
      BY <1>7, <1>12, <2>1 DEF E!CachedStatus
  <1> HIDE DEF own, found, merged
  <1>13. ASSUME NEW device, NEW known \in {"mapped", "unknown"}
         PROVE  LET reason == E!Reason(list, device, known)
                IN /\ reason \in {"enriched", "graphql_only"} =>
                         device \in {x.device : x \in merged}
                   /\ device \in {x.device : x \in merged} =>
                         \/ reason = "stale_cache_evidence"
                         \/ reason = IF known = "mapped" THEN "enriched" ELSE "graphql_only"
    BY <1>9, <1>10
  <1>14. /\ E!Current(list) /\ saved.on => E!CachedItems(list) = merged
         /\ merged # {} => E!CachedStatus(list) = "fresh"
    BY <1>11, <1>12
  <1> QED
    BY <1>13, <1>14 DEF E!ViewsAgree, merged

----------------------------------------------------------------------------
(* The steps of the cache *)

LEMMA CacheInit == E!Init => CacheInv
  <1> SUFFICES ASSUME E!Init PROVE CacheInv
    OBVIOUS
  <1>1. /\ meta = <<>> /\ E!Generations = {} /\ work = [p \in Tasks |-> E!Idle]
        /\ data = 1 /\ held = [s \in Servers |-> E!None]
        /\ saved \in [scope : {{}, Organizations}, server : {E!None}, on : {TRUE}, saves : {0}]
    <2>1. /\ meta = <<>> /\ work = [p \in Tasks |-> E!Idle]
          /\ data = 1 /\ held = [s \in Servers |-> E!None]
          /\ saved \in [scope : {{}, Organizations}, server : {E!None}, on : {TRUE}, saves : {0}]
      BY DEF E!Init
    <2>2. DOMAIN meta = {}
      BY <2>1
    <2> QED
      BY <2>1, <2>2 DEF E!Generations
  <1>2. PICK order \in [Legacy -> 1..E!Cardinality(Legacy)] : cache \in {{}, E!LegacyRows(order)}
    BY DEF E!Init
  <1>3. Cardinality(Legacy) \in Nat /\ E!Cardinality(Legacy) = Cardinality(Legacy)
    BY CacheBounds, FS_CardinalityType DEF E!Cardinality, Cardinality
  <1>4. IsFiniteSet(cache)
    <2>1. CASE cache = {}
      BY <2>1, FS_EmptySet
    <2>2. CASE cache = E!LegacyRows(order)
      <3> DEFINE row == [x \in Legacy |-> [at |-> order[x], gen |-> 0, key |-> x]]
      <3>1. row \in Surjection(Legacy, cache)
        BY <2>2 DEF E!LegacyRows, Surjection
      <3> QED
        BY <3>1, CacheBounds, FS_Surjection
    <2> QED
      BY <1>2, <2>1, <2>2
  <1>5. \A r \in cache : /\ r \in CacheRow /\ r.at <= Cardinality(Legacy)
    <2>1. \A x \in Legacy : order[x] \in 1..Cardinality(Legacy) /\ x \in E!Assets
      BY <1>2, <1>3 DEF E!Assets
    <2>2. SUFFICES ASSUME NEW x \in Legacy, NEW r, r = [at |-> order[x], gen |-> 0, key |-> x]
                   PROVE  r \in CacheRow /\ r.at <= Cardinality(Legacy)
      BY <1>2 DEF E!LegacyRows
    <2> QED
      BY <1>3, <2>1, <2>2 DEF CacheRow
  <1>6. RowsStand(cache)
    BY <1>1, <1>3, <1>4, <1>5 DEF RowsStand, Whole
  <1>7. E!TypeOK
    <2>1. data \in DOMAIN Inventory /\ saved \in SavedRow
      <3>1. data \in DOMAIN Inventory
        <4>1. PICK n \in Nat \ {0} : DOMAIN Inventory = 1..n
          BY CacheBounds
        <4> QED
          BY <1>1, <4>1
      <3>2. saved \in SavedRow
        <4>1. PICK scope \in {{}, Organizations} :
                 saved = [scope |-> scope, server |-> E!None, on |-> TRUE, saves |-> 0]
          BY <1>1
        <4> QED
          BY <4>1 DEF SavedRow
      <3> QED
        BY <3>1, <3>2
    <2>2. meta \in Seq(MetaRow) /\ held \in [Servers -> Tasks \cup {E!None}]
      BY <1>1
    <2>3. work \in [Tasks -> E!TaskRows]
      BY <1>1 DEF E!TaskRows
    <2>4. cache \subseteq CacheRow
      BY <1>5
    <2> QED
      BY <2>1, <2>2, <2>3, <2>4 DEF E!TypeOK, SavedRow, MetaRow, CacheRow
  <1>8. MetaStands
    BY <1>1 DEF MetaStands
  <1>9. \A p \in Tasks : EvidenceStands(work[p]) /\ LockStands(work[p], p) /\ StageStands(work[p])
    BY <1>1 DEF E!Idle, EvidenceStands, LockStands, StageStands, UnderLock, Staging
  <1> QED
    BY <1>6, <1>7, <1>8, <1>9 DEF CacheInv

\* Generations are added, and what a refresh prepared stays.
MetaGrows == /\ meta' \in Seq(MetaRow)
             /\ \A g \in E!Generations :
                   /\ g \in DOMAIN meta' /\ meta'[g].items = meta[g].items
                   /\ meta'[g].scope = meta[g].scope /\ meta'[g].server = meta[g].server

LEMMA PreparedStays ==
    ASSUME MetaGrows, NEW assets, NEW scope, NEW server, NEW cut,
           Prepared(assets, scope, server, cut)
    PROVE  Prepared(assets, scope, server, cut)'
  BY DEF MetaGrows, Prepared, E!Generations

LEMMA EvidenceStays ==
    ASSUME MetaGrows, NEW t, EvidenceStands(t) PROVE EvidenceStands(t)'
  BY PreparedStays DEF EvidenceStands

\* The tasks that stage rows do so for servers of their own.
LEMMA OneHolder ==
    ASSUME CacheInv, NEW p \in Tasks, NEW q \in Tasks, work[p].pc \in UnderLock,
           work[q].pc \in UnderLock, work[p].locked = work[q].locked
    PROVE  p = q
  BY DEF CacheInv, LockStands

LEMMA HolderShape ==
    ASSUME E!TypeOK, NEW p \in Tasks, work[p].pc \in UnderLock
    PROVE  /\ work[p].locked \in Servers /\ work[p].job \in E!Jobs
           /\ held[work[p].locked] \in Tasks \cup {E!None}
  <1>1. work[p] \in E!TaskRows /\ held \in [Servers -> Tasks \cup {E!None}]
    BY DEF E!TypeOK
  <1>2. work[p].locked \in Servers /\ work[p].job \in E!Jobs
    BY <1>1, WorkShape DEF UnderLock, Staging, LockedTask, StagingTask
  <1> QED
    BY <1>1, <1>2

\* A task stages rows of the newest generation of its server, and two tasks never stage
\* rows of one generation.
LEMMA StageFacts ==
    ASSUME CacheInv, NEW p \in Tasks, work[p].pc \in Staging
    PROVE  /\ work[p] \in StagingTask /\ work[p].gen \in E!Generations
           /\ meta[work[p].gen].server = work[p].locked
           /\ work[p].left \subseteq meta[work[p].gen].items
           /\ held[work[p].locked] = p
           /\ \A q \in Tasks \ {p} : work[q].pc \in UnderLock => work[q].locked # work[p].locked
           /\ \A q \in Tasks \ {p} : work[q].pc \in Staging => work[q].gen # work[p].gen
  <1>1. work[p] \in StagingTask /\ StageStands(work[p]) /\ LockStands(work[p], p)
    BY WorkShape DEF CacheInv, E!TypeOK
  <1>2. \A q \in Tasks \ {p} : work[q].pc \in UnderLock => work[q].locked # work[p].locked
    BY OneHolder DEF UnderLock, Staging
  <1>3. \A q \in Tasks : work[q].pc \in Staging => meta[work[q].gen].server = work[q].locked
    BY DEF CacheInv, StageStands
  <1> QED
    BY <1>1, <1>2, <1>3 DEF StageStands, LockStands, UnderLock, Staging

\* A step of one task that stores nothing, takes no lock and adds no generation.
LEMMA TaskStep ==
    ASSUME CacheInv, NEW p \in Tasks, NEW t \in E!TaskRows, work' = [work EXCEPT ![p] = t],
           UNCHANGED <<data, saved, cache, meta, held>>, EvidenceStands(t), t.pc \notin UnderLock
    PROVE  CacheInv'
  <1>1. work \in [Tasks -> E!TaskRows]
    BY DEF CacheInv, E!TypeOK
  <1>2. work'[p] = t /\ \A q \in Tasks \ {p} : work'[q] = work[q]
    BY <1>1
  <1>3. work' \in [Tasks -> E!TaskRows]
    BY <1>1
  <1>4. E!TypeOK'
    BY <1>3 DEF CacheInv, E!TypeOK, E!TaskRows, E!Generations
  <1>5. RowsStand(cache)' /\ MetaStands'
    BY DEF CacheInv, RowsStand, Whole, CacheRow, MetaStands, KeysIn, E!Generations
  <1>6. EvidenceStands(t)' /\ LockStands(t, p)' /\ StageStands(t)'
    BY DEF EvidenceStands, Prepared, LockStands, StageStands, UnderLock, Staging, E!Generations
  <1>7. ASSUME NEW q \in Tasks \ {p}
        PROVE  EvidenceStands(work[q])' /\ LockStands(work[q], q)' /\ StageStands(work[q])'
    <2>1. EvidenceStands(work[q]) /\ LockStands(work[q], q) /\ StageStands(work[q])
      BY DEF CacheInv
    <2> QED
      BY <1>2, <2>1 DEF EvidenceStands, Prepared, LockStands, StageStands, KeysIn, E!Generations
  <1> QED
    BY <1>2, <1>4, <1>5, <1>6, <1>7 DEF CacheInv

\* A step of the settings or of the provider.
LEMMA OnlySettings ==
    ASSUME CacheInv, data' \in DOMAIN Inventory, saved' \in SavedRow,
           UNCHANGED <<cache, meta, held, work>>
    PROVE  CacheInv'
  <1>1. E!TypeOK'
    BY DEF CacheInv, E!TypeOK, E!TaskRows, E!Generations, SavedRow
  <1>2. RowsStand(cache)' /\ MetaStands'
    BY DEF CacheInv, RowsStand, Whole, CacheRow, MetaStands, KeysIn, E!Generations
  <1>3. ASSUME NEW q \in Tasks
        PROVE  EvidenceStands(work[q])' /\ LockStands(work[q], q)' /\ StageStands(work[q])'
    <2>1. EvidenceStands(work[q]) /\ LockStands(work[q], q) /\ StageStands(work[q])
      BY DEF CacheInv
    <2> QED
      BY <2>1 DEF EvidenceStands, Prepared, LockStands, StageStands, KeysIn, E!Generations
  <1> QED
    BY <1>1, <1>2, <1>3 DEF CacheInv

\* Rows are added to a generation that is staged, or taken from generations that nobody
\* stages, whole ones only with their marker.
KeepsRows(rs, g) == E!RowsIn(rs, g) = E!RowsIn(cache, g)

LEMMA StageKept ==
    ASSUME NEW t, StageStands(t), t.pc \in Staging => KeepsRows(cache', t.gen), meta' = meta
    PROVE  StageStands(t)'
  <1>1. t.pc \in Staging => KeysIn(cache, t.gen)' = KeysIn(cache, t.gen)
    BY DEF KeepsRows, KeysIn, E!RowsIn
  <1> QED
    BY <1>1 DEF StageStands, E!Generations, KeysIn

\* The end of a refresh: the lock is free, the task goes on or is done, and of the rows
\* only whole generations have gone.
LEMMA ReleaseStep ==
    ASSUME CacheInv, NEW p \in Tasks, work[p].pc \in UnderLock, NEW t \in E!TaskRows,
           work' = [work EXCEPT ![p] = t], t.pc \notin {"read"} \cup UnderLock, EvidenceStands(t),
           held' = [held EXCEPT ![work[p].locked] = E!None],
           UNCHANGED <<data, saved, meta>>, cache' \subseteq cache,
           \A q \in Tasks \ {p} : work[q].pc \in Staging => KeepsRows(cache', work[q].gen),
           \A g \in E!Generations : KeepsRows(cache', g) \/ E!RowsIn(cache', g) = {}
    PROVE  CacheInv'
  <1>1. work \in [Tasks -> E!TaskRows] /\ held \in [Servers -> Tasks \cup {E!None}]
    BY DEF CacheInv, E!TypeOK
  <1>2. work'[p] = t /\ \A q \in Tasks \ {p} : work'[q] = work[q]
    BY <1>1
  <1>3. work' \in [Tasks -> E!TaskRows] /\ held' \in [Servers -> Tasks \cup {E!None}]
    BY <1>1
  <1>4. E!TypeOK'
    BY <1>3 DEF CacheInv, E!TypeOK, E!TaskRows, E!Generations
  <1>5. MetaStands'
    BY DEF CacheInv, MetaStands, E!Generations
  <1>6. RowsStand(cache)'
    <2>1. IsFiniteSet(cache') /\ cache' \subseteq CacheRow' /\ \E n \in Nat : \A r \in cache' : r.at <= n
      <3>1. IsFiniteSet(cache') /\ cache' \subseteq CacheRow
        BY FS_Subset DEF CacheInv, RowsStand
      <3> QED
        BY <3>1 DEF CacheInv, RowsStand, CacheRow, E!Generations
    <2>2. \A g \in E!Generations : (\E r \in E!RowsIn(cache', g) : r.key = E!Marker)
                => KeysIn(cache', g) = meta[g].items \cup {E!Marker}
      BY DEF CacheInv, RowsStand, Whole, KeepsRows, KeysIn
    <2> QED
      BY <2>1, <2>2 DEF RowsStand, Whole, E!Generations, KeysIn, E!RowsIn
  <1>7. EvidenceStands(t)' /\ LockStands(t, p)' /\ StageStands(t)'
    BY DEF EvidenceStands, Prepared, LockStands, StageStands, UnderLock, Staging, E!Generations
  <1>8. ASSUME NEW q \in Tasks \ {p}
        PROVE  EvidenceStands(work[q])' /\ LockStands(work[q], q)' /\ StageStands(work[q])'
    <2>1. EvidenceStands(work[q]) /\ LockStands(work[q], q) /\ StageStands(work[q])
      BY DEF CacheInv
    <2>2. EvidenceStands(work[q])'
      BY <1>2, <2>1 DEF EvidenceStands, Prepared, E!Generations
    <2>3. LockStands(work[q], q)'
      <3>1. work[q].pc \in UnderLock => work[q].locked # work[p].locked
        BY OneHolder
      <3>2. work[q].pc \in UnderLock => work[q].locked \in Servers
        BY HolderShape DEF CacheInv
      <3>3. work[q].pc \in UnderLock => held'[work[q].locked] = held[work[q].locked]
        BY <1>1, <3>1, <3>2
      <3> QED
        BY <1>2, <2>1, <3>3 DEF LockStands
    <2>4. StageStands(work[q])'
      <3> DEFINE u == work[q]
      <3>1. StageStands(u) /\ (u.pc \in Staging => KeepsRows(cache', u.gen)) /\ work'[q] = u
        BY <1>2, <2>1
      <3>2. \A v : StageStands(v) /\ (v.pc \in Staging => KeepsRows(cache', v.gen))
                   => StageStands(v)'
        BY StageKept
      <3> QED
        BY <3>1, <3>2 DEF StageStands
    <2> QED
      BY <2>2, <2>3, <2>4
  <1> QED
    BY <1>2, <1>4, <1>5, <1>6, <1>7, <1>8 DEF CacheInv

LEMMA TakeLockStep ==
    ASSUME CacheInv, NEW p \in Tasks, E!TakeLock(p) PROVE CacheInv'
  <1>1. /\ work[p].pc = "read" /\ saved.server # E!None /\ held[saved.server] = E!None
        /\ held' = [held EXCEPT ![saved.server] = p]
        /\ work' = [work EXCEPT ![p] = [pc |-> "locked", job |-> @.job, result |-> @.result,
                                        locked |-> saved.server]]
        /\ UNCHANGED <<data, saved, cache, meta>>
    BY DEF E!TakeLock
  <1>2. /\ work \in [Tasks -> E!TaskRows] /\ held \in [Servers -> Tasks \cup {E!None}]
        /\ saved.server \in Servers
    BY <1>1 DEF CacheInv, E!TypeOK
  <1> PICK t : t = [pc |-> "locked", job |-> work[p].job, result |-> work[p].result,
                    locked |-> saved.server]
    OBVIOUS
  <1>3. t \in LockedTask /\ t \in E!TaskRows
    <2>1. work[p] \in ReadTask
      BY <1>1, <1>2, WorkShape
    <2>2. t \in LockedTask
      BY <1>2, <2>1 DEF ReadTask, LockedTask
    <2> QED
      BY <2>2 DEF LockedTask, E!TaskRows
  <1>4. work'[p] = t /\ \A q \in Tasks \ {p} : work'[q] = work[q]
    BY <1>1, <1>2
  <1>5. work' \in [Tasks -> E!TaskRows] /\ held' \in [Servers -> Tasks \cup {E!None}]
    BY <1>1, <1>2, <1>3
  <1>6. E!TypeOK'
    BY <1>1, <1>5 DEF CacheInv, E!TypeOK, E!TaskRows, E!Generations
  <1>7. RowsStand(cache)' /\ MetaStands'
    BY <1>1 DEF CacheInv, RowsStand, Whole, CacheRow, MetaStands, KeysIn, E!Generations
  <1>8. EvidenceStands(t)' /\ LockStands(t, p)' /\ StageStands(t)'
    <2>1. EvidenceStands(work[p])
      BY DEF CacheInv
    <2>2. EvidenceStands(t)'
      BY <1>1, <2>1 DEF EvidenceStands, Prepared, UnderLock, E!Generations
    <2>3. held'[saved.server] = p
      BY <1>1, <1>2
    <2> QED
      BY <2>2, <2>3 DEF LockStands, StageStands, Staging
  <1>9. ASSUME NEW q \in Tasks \ {p}
        PROVE  EvidenceStands(work[q])' /\ LockStands(work[q], q)' /\ StageStands(work[q])'
    <2>1. EvidenceStands(work[q]) /\ LockStands(work[q], q) /\ StageStands(work[q])
      BY DEF CacheInv
    <2>2. work[q].pc \in UnderLock => held'[work[q].locked] = q
      <3>1. work[q].pc \in UnderLock => work[q].locked \in Servers /\ work[q].locked # saved.server
        BY <1>1, <2>1, HolderShape, CacheBounds DEF CacheInv, LockStands
      <3> QED
        BY <1>1, <1>2, <2>1, <3>1 DEF LockStands
    <2> QED
      BY <1>1, <1>4, <2>1, <2>2
      DEF EvidenceStands, Prepared, LockStands, StageStands, KeysIn, E!Generations
  <1> QED
    BY <1>4, <1>6, <1>7, <1>8, <1>9 DEF CacheInv

LEMMA PrepareStep ==
    ASSUME CacheInv, NEW p \in Tasks, E!Prepare(p) PROVE CacheInv'
  <1> DEFINE items == E!Eligible(work[p].result.items, saved.scope, saved.server)
             row == [items |-> items, scope |-> saved.scope, server |-> saved.server,
                     expired |-> FALSE, gaps |-> items # work[p].result.items]
             n == Len(meta) + 1
  <1> PICK t : t = [pc |-> "staging", job |-> work[p].job, locked |-> work[p].locked,
                    gen |-> n, left |-> items, failed |-> FALSE]
    OBVIOUS
  <1>1. /\ work[p].pc = "locked" /\ saved.server = work[p].locked
        /\ meta' = Append(meta, row) /\ work' = [work EXCEPT ![p] = t]
        /\ UNCHANGED <<data, saved, cache, held>>
    BY DEF E!Prepare, E!Refused
  <1>2. /\ work \in [Tasks -> E!TaskRows] /\ meta \in Seq(MetaRow) /\ saved \in SavedRow
        /\ work[p] \in LockedTask
    BY <1>1, WorkShape DEF CacheInv, E!TypeOK, MetaRow, SavedRow
  <1>3. items \subseteq E!Assets
    BY <1>2 DEF E!Eligible, LockedTask, E!Replies
  <1>4. \A x \in items : E!Valid(x, saved.scope, saved.server)
    BY DEF E!Eligible
  <1>5. row \in MetaRow
    <2> HIDE DEF items
    <2> QED
      BY <1>1, <1>2, <1>3 DEF MetaRow, SavedRow, LockedTask
  <1> HIDE DEF row
  <1>6. /\ meta' \in Seq(MetaRow) /\ Len(meta') = n /\ n \in Nat \ {0} /\ meta'[n] = row
        /\ \A g \in E!Generations : g \in 1..n /\ meta'[g] = meta[g]
        /\ E!Generations = 1..(n - 1) /\ E!Generations' = 1..n
    BY <1>1, <1>2, <1>5 DEF E!Generations
  <1> HIDE DEF n
  <1>7. MetaGrows
    BY <1>6 DEF MetaGrows, E!Generations
  <1>8. row.items = items /\ row.scope = saved.scope /\ row.server = saved.server
    BY DEF row
  <1> HIDE DEF items
  <1>9. t \in StagingTask' /\ t \in E!TaskRows'
    <2>1. t \in StagingTask'
      BY <1>2, <1>3, <1>6 DEF StagingTask, Staging, LockedTask
    <2> QED
      BY <2>1 DEF StagingTask, Staging, E!TaskRows
  <1>10. work'[p] = t /\ \A q \in Tasks \ {p} : work'[q] = work[q]
    BY <1>1, <1>2
  <1>11. E!TypeOK'
    <2>1. E!Generations \subseteq E!Generations'
      BY <1>6
    <2>2. E!TaskRows \subseteq E!TaskRows'
      BY <2>1 DEF E!TaskRows
    <2>3. work' \in [Tasks -> E!TaskRows']
      BY <1>1, <1>2, <1>9, <2>2
    <2>4. cache' \subseteq CacheRow'
      BY <1>1, <2>1 DEF CacheInv, RowsStand, CacheRow
    <2> QED
      BY <1>1, <1>6, <2>3, <2>4 DEF CacheInv, E!TypeOK, MetaRow, CacheRow
  <1>12. \A r \in cache : r.gen # n
    <2>1. \A r \in cache : r.gen \in E!Generations \cup {0}
      BY RowTypes DEF CacheInv, RowsStand
    <2> QED
      BY <1>6, <2>1
  <1>13. MetaStands'
    <2> SUFFICES ASSUME NEW g \in E!Generations', NEW x \in meta'[g].items
                 PROVE  E!Valid(x, meta'[g].scope, meta'[g].server)
      BY DEF MetaStands, E!Valid
    <2>1. CASE g = n
      BY <1>4, <1>6, <1>8, <2>1
    <2>2. CASE g # n
      <3>1. g \in E!Generations /\ meta'[g] = meta[g]
        BY <1>6, <2>2
      <3> QED
        BY <3>1 DEF CacheInv, MetaStands
    <2> QED
      BY <2>1, <2>2
  <1>14. RowsStand(cache)'
    <2>1. cache' \subseteq CacheRow'
      BY <1>11 DEF E!TypeOK, CacheRow
    <2>2. Whole(cache)'
      <3> SUFFICES ASSUME NEW g \in E!Generations',
                          \E r \in E!RowsIn(cache, g) : r.key = E!Marker
                   PROVE  KeysIn(cache, g) = meta'[g].items \cup {E!Marker}
        BY <1>1 DEF Whole, KeysIn, E!RowsIn
      <3>1. g # n
        BY <1>12 DEF E!RowsIn
      <3>2. g \in E!Generations /\ meta'[g] = meta[g]
        BY <1>6, <3>1
      <3> QED
        BY <3>2 DEF CacheInv, RowsStand, Whole
    <2> QED
      BY <1>1, <2>1, <2>2 DEF CacheInv, RowsStand
  <1>15. EvidenceStands(t)' /\ LockStands(t, p)' /\ StageStands(t)'
    <2>1. EvidenceStands(work[p]) /\ LockStands(work[p], p)
      BY DEF CacheInv
    <2>3. EvidenceStands(t)
      BY <1>1, <2>1 DEF EvidenceStands, UnderLock
    <2>4. EvidenceStands(t)'
      BY <1>7, <2>3, EvidenceStays
    <2>5. LockStands(t, p)'
      BY <1>1, <2>1 DEF LockStands, UnderLock
    <2>6. KeysIn(cache, t.gen)' = {}
      BY <1>1, <1>12 DEF KeysIn, E!RowsIn
    <2>7. \A h \in E!Generations' : h <= n
      BY <1>6
    <2>8. /\ t.pc = "staging" /\ t.gen = n /\ t.left = meta'[n].items
          /\ t.locked = meta'[n].server /\ n \in E!Generations'
      BY <1>1, <1>6, <1>8
    <2>9. StageStands(t)'
      BY <2>6, <2>7, <2>8 DEF StageStands
    <2> QED
      BY <2>4, <2>5, <2>9
  <1>16. ASSUME NEW q \in Tasks \ {p}
         PROVE  EvidenceStands(work[q])' /\ LockStands(work[q], q)' /\ StageStands(work[q])'
    <2> DEFINE u == work[q]
    <2>1. EvidenceStands(u) /\ LockStands(u, q) /\ StageStands(u)
      BY DEF CacheInv
    <2>2. EvidenceStands(work[q])' /\ LockStands(work[q], q)'
      <3>1. \A v : EvidenceStands(v) => EvidenceStands(v)'
        BY <1>7, EvidenceStays
      <3>2. EvidenceStands(u)'
        BY <1>1, <1>7, <1>10, <2>1, <3>1 DEF EvidenceStands
      <3> QED
        BY <1>1, <1>10, <2>1, <3>2 DEF LockStands, EvidenceStands
    <2>3. ASSUME u.pc \in Staging
          PROVE  /\ u.gen \in E!Generations' /\ meta'[u.gen] = meta[u.gen]
                 /\ \A h \in E!Generations' : meta'[h].server = u.locked => h <= u.gen
      <3>1. u.gen \in E!Generations /\ \A h \in E!Generations : meta[h].server = u.locked => h <= u.gen
        BY <2>1, <2>3 DEF StageStands
      <3>2. u.locked # work[p].locked
        BY <1>1, <2>3, OneHolder DEF UnderLock, Staging
      <3>3. meta'[n].server # u.locked
        BY <1>1, <1>6, <1>8, <3>2
      <3> QED
        BY <1>6, <3>1, <3>3
    <2>4. StageStands(work[q])'
      BY <1>1, <1>10, <2>1, <2>3 DEF StageStands, KeysIn, E!RowsIn
    <2> QED
      BY <2>2, <2>4
  <1> QED
    BY <1>10, <1>11, <1>13, <1>14, <1>15, <1>16 DEF CacheInv

\* A row more, after all that are there.
LEMMA RowStored ==
    ASSUME CacheInv, NEW g \in E!Generations, NEW key \in E!Assets \cup {E!Marker},
           cache' = E!Stored(g, key)
    PROVE  /\ cache' \subseteq CacheRow /\ IsFiniteSet(cache')
           /\ \E n \in Nat : \A r \in cache' : r.at <= n
           /\ \A h \in E!Generations \ {g} : KeepsRows(cache', h)
           /\ KeysIn(cache', g) = KeysIn(cache, g) \cup {key}
           /\ \A r \in E!RowsIn(cache', g) : r \in E!RowsIn(cache, g) \/ r.key = key
  <1> DEFINE at == IF cache = {} THEN 1 ELSE E!Newest(cache).at + 1
             row == [at |-> at, gen |-> g, key |-> key]
  <1>1. cache' = cache \cup {row}
    BY DEF E!Stored
  <1>2. \A r \in cache : r.at \in Nat
    BY RowTypes DEF CacheInv, RowsStand
  <1>3. PICK n \in Nat : \A r \in cache : r.at <= n
    BY DEF CacheInv, RowsStand
  <1>4. cache # {} => E!Newest(cache) \in cache
    BY <1>2, <1>3, NewestRow
  <1>5. at \in Nat
    <2>1. CASE cache = {}
      BY <2>1
    <2>2. CASE cache # {}
      <3>1. E!Newest(cache).at \in Nat
        BY <1>2, <1>4, <2>2
      <3> QED
        BY <2>2, <3>1
    <2> QED
      BY <2>1, <2>2
  <1> HIDE DEF at
  <1>6. row \in CacheRow /\ row.at = at /\ row.gen = g /\ row.key = key
    BY <1>5 DEF CacheRow
  <1> HIDE DEF row
  <1>7. cache' \subseteq CacheRow /\ IsFiniteSet(cache')
    BY <1>1, <1>6, FS_AddElement DEF CacheInv, RowsStand
  <1>8. \E m \in Nat : \A r \in cache' : r.at <= m
    <2>1. n + at \in Nat /\ \A r \in cache : r.at <= n + at
      BY <1>2, <1>3, <1>5
    <2>2. row.at <= n + at
      BY <1>5, <1>6
    <2> QED
      BY <1>1, <2>1, <2>2
  <1>9. /\ \A h \in E!Generations \ {g} : KeepsRows(cache', h)
        /\ E!RowsIn(cache', g) = E!RowsIn(cache, g) \cup {row}
    BY <1>1, <1>6 DEF KeepsRows, E!RowsIn
  <1>10. KeysIn(cache', g) = KeysIn(cache, g) \cup {key}
    BY <1>6, <1>9 DEF KeysIn
  <1> QED
    BY <1>6, <1>7, <1>8, <1>9, <1>10

\* A step of a task that stages its rows: other tasks and other generations do not see it.
LEMMA StagingStep ==
    ASSUME CacheInv, NEW p \in Tasks, work[p].pc = "staging", NEW t \in StagingTask,
           work' = [work EXCEPT ![p] = t],
           t.job = work[p].job, t.locked = work[p].locked, t.gen = work[p].gen,
           UNCHANGED <<data, saved, meta, held>>,
           cache' \subseteq CacheRow, IsFiniteSet(cache'), \E n \in Nat : \A r \in cache' : r.at <= n,
           \A h \in E!Generations \ {t.gen} : KeepsRows(cache', h),
           (\E r \in E!RowsIn(cache', t.gen) : r.key = E!Marker) => t.pc = "marked",
           StageStands(t)'
    PROVE  CacheInv'
  <1>1. work \in [Tasks -> E!TaskRows] /\ t \in E!TaskRows
    BY DEF CacheInv, E!TypeOK, E!TaskRows, StagingTask, Staging
  <1>2. work'[p] = t /\ \A q \in Tasks \ {p} : work'[q] = work[q]
    BY <1>1
  <1>3. work' \in [Tasks -> E!TaskRows]
    BY <1>1
  <1>4. E!TypeOK'
    BY <1>3 DEF CacheInv, E!TypeOK, E!TaskRows, E!Generations, CacheRow
  <1>5. MetaStands'
    BY DEF CacheInv, MetaStands, E!Generations
  <1>6. work[p].gen \in E!Generations /\ held[work[p].locked] = p
        /\ \A q \in Tasks \ {p} : work[q].pc \in Staging => work[q].gen # t.gen
    BY StageFacts DEF Staging
  <1>7. Whole(cache)'
    <2> SUFFICES ASSUME NEW g \in E!Generations, \E r \in E!RowsIn(cache', g) : r.key = E!Marker
                 PROVE  KeysIn(cache', g) = meta[g].items \cup {E!Marker}
      BY DEF Whole, E!Generations, KeysIn, E!RowsIn
    <2>1. CASE g = t.gen
      <3>1. t.pc = "marked"
        BY <2>1
      <3>2. KeysIn(cache, t.gen)' = meta'[t.gen].items \cup {E!Marker}
        BY <3>1 DEF StageStands, Staging
      <3> QED
        BY <2>1, <3>2 DEF KeysIn, E!RowsIn
    <2>2. CASE g # t.gen
      <3>1. KeepsRows(cache', g)
        BY <2>2
      <3> QED
        BY <3>1 DEF CacheInv, RowsStand, Whole, KeepsRows, KeysIn
    <2> QED
      BY <2>1, <2>2
  <1>8. RowsStand(cache)'
    BY <1>7 DEF RowsStand, CacheRow, E!Generations
  <1>9. EvidenceStands(t)' /\ LockStands(t, p)'
    <2>1. EvidenceStands(work[p])
      BY DEF CacheInv
    <2>2. EvidenceStands(t)
      BY <2>1 DEF EvidenceStands, StagingTask, Staging, UnderLock
    <2> QED
      BY <1>6, <2>2 DEF EvidenceStands, Prepared, E!Generations, LockStands
  <1>10. ASSUME NEW q \in Tasks \ {p}
         PROVE  EvidenceStands(work[q])' /\ LockStands(work[q], q)' /\ StageStands(work[q])'
    <2>1. EvidenceStands(work[q]) /\ LockStands(work[q], q) /\ StageStands(work[q])
      BY DEF CacheInv
    <2>2. work[q].pc \in Staging => KeepsRows(cache', work[q].gen)
      BY <1>6, <2>1 DEF StageStands
    <2>3. \A v : StageStands(v) /\ (v.pc \in Staging => KeepsRows(cache', v.gen))
                 => StageStands(v)'
      BY StageKept
    <2>4. StageStands(work[q])'
      BY <1>2, <2>1, <2>2, <2>3 DEF StageStands
    <2> QED
      BY <1>2, <2>1, <2>4 DEF EvidenceStands, Prepared, LockStands, E!Generations
  <1> QED
    BY <1>2, <1>4, <1>5, <1>8, <1>9, <1>10 DEF CacheInv

LEMMA StageStep ==
    ASSUME CacheInv, NEW p \in Tasks, NEW stored \in BOOLEAN, E!Stage(p, stored) PROVE CacheInv'
  <1> DEFINE x == CHOOSE y \in work[p].left : TRUE
             g == work[p].gen
  <1>1. /\ work[p].pc = "staging" /\ work[p].left # {}
        /\ cache' = IF stored THEN E!Stored(g, x) ELSE cache
        /\ work' = [work EXCEPT ![p].left = @ \ {x}, ![p].failed = @ \/ ~stored]
        /\ UNCHANGED <<data, saved, meta, held>>
    BY DEF E!Stage
  <1>2. /\ work[p] \in StagingTask /\ g \in E!Generations /\ work[p].left \subseteq meta[g].items
        /\ StageStands(work[p]) /\ x \in work[p].left
    BY <1>1, StageFacts DEF Staging, CacheInv
  <1>3. PICK t : t = [work[p] EXCEPT !.left = work[p].left \ {x}, !.failed = work[p].failed \/ ~stored]
    OBVIOUS
  <1>4. work' = [work EXCEPT ![p] = t]
    BY <1>1, <1>3
  <1>5. meta[g] \in MetaRow /\ \A y \in meta[g].items : y \in E!Assets /\ y # E!Marker
    <2>1. meta[g] \in MetaRow
      BY <1>2, MetaTypes DEF CacheInv
    <2>2. \A y \in meta[g].items : y.asset # E!None
      BY <1>2 DEF CacheInv, MetaStands, E!Valid
    <2> QED
      BY <2>1, <2>2, MarkerIsNone DEF MetaRow
  <1> HIDE DEF x, g
  <1>6. t \in StagingTask
    <2>1. (work[p].failed \/ ~stored) \in BOOLEAN /\ work[p].left \ {x} \in SUBSET E!Assets
      BY <1>2, <1>5
    <2> QED
      BY <1>2, <1>3, <2>1 DEF StagingTask
  <1>7. /\ t.pc = "staging" /\ t.job = work[p].job /\ t.locked = work[p].locked /\ t.gen = g
        /\ t.left = work[p].left \ {x}
        /\ t.failed = (work[p].failed \/ ~stored)
    BY <1>1, <1>2, <1>3 DEF StagingTask, g
  <1>8. /\ cache' \subseteq CacheRow /\ IsFiniteSet(cache')
        /\ \E n \in Nat : \A r \in cache' : r.at <= n
        /\ \A h \in E!Generations \ {g} : KeepsRows(cache', h)
        /\ KeysIn(cache', g) = KeysIn(cache, g) \cup (IF stored THEN {x} ELSE {})
    <2>1. CASE stored
      <3>1. cache' = E!Stored(g, x) /\ x \in E!Assets \cup {E!Marker}
        BY <1>1, <1>2, <1>5, <2>1
      <3> QED
        BY <1>2, <2>1, <3>1, RowStored
    <2>2. CASE ~stored
      BY <1>1, <2>2 DEF CacheInv, RowsStand, KeepsRows
    <2> QED
      BY <2>1, <2>2
  <1>9. KeysIn(cache, g) \subseteq meta[g].items \ work[p].left
        /\ (work[p].failed \/ KeysIn(cache, g) = meta[g].items \ work[p].left)
    BY <1>1, <1>2 DEF StageStands, Staging, g
  <1>10. /\ KeysIn(cache', g) \subseteq meta[g].items \ t.left
         /\ \/ t.failed = TRUE
            \/ KeysIn(cache', g) = meta[g].items \ t.left
    BY <1>2, <1>7, <1>8, <1>9
  <1>11. ~ \E r \in E!RowsIn(cache', g) : r.key = E!Marker
    BY <1>5, <1>10 DEF KeysIn
  <1>12. StageStands(t)'
    <2>1. KeysIn(cache, t.gen)' = KeysIn(cache', g)
      BY <1>7 DEF KeysIn, E!RowsIn
    <2>2. /\ g \in E!Generations /\ meta[g].server = work[p].locked /\ t.left \subseteq meta[g].items
          /\ \A h \in E!Generations : meta[h].server = t.locked => h <= g
      BY <1>1, <1>2, <1>7 DEF StageStands, Staging, g
    <2> QED
      BY <1>1, <1>7, <1>10, <2>1, <2>2 DEF StageStands, E!Generations
  <1> QED
    BY <1>1, <1>4, <1>6, <1>7, <1>8, <1>11, <1>12, StagingStep DEF g

LEMMA MarkerStep ==
    ASSUME CacheInv, NEW p \in Tasks, E!Mark(p) PROVE CacheInv'
  <1> DEFINE g == work[p].gen
  <1>1. /\ work[p].pc = "staging" /\ work[p].left = {} /\ ~work[p].failed
        /\ cache' = E!Stored(g, E!Marker)
        /\ work' = [work EXCEPT ![p].pc = "marked"]
        /\ UNCHANGED <<data, saved, meta, held>>
    BY DEF E!Mark
  <1>2. /\ work[p] \in StagingTask /\ g \in E!Generations /\ StageStands(work[p])
    BY <1>1, StageFacts DEF Staging, CacheInv
  <1>3. PICK t : t = [work[p] EXCEPT !.pc = "marked"]
    OBVIOUS
  <1>4. work' = [work EXCEPT ![p] = t]
    BY <1>1, <1>3
  <1> HIDE DEF g
  <1>5. t \in StagingTask
    BY <1>2, <1>3 DEF StagingTask, Staging
  <1>6. /\ t.pc = "marked" /\ t.job = work[p].job /\ t.locked = work[p].locked /\ t.gen = g
        /\ t.left = {}
    BY <1>1, <1>2, <1>3 DEF StagingTask, g
  <1>7. /\ cache' \subseteq CacheRow /\ IsFiniteSet(cache')
        /\ \E n \in Nat : \A r \in cache' : r.at <= n
        /\ \A h \in E!Generations \ {g} : KeepsRows(cache', h)
        /\ KeysIn(cache', g) = KeysIn(cache, g) \cup {E!Marker}
    BY <1>1, <1>2, RowStored
  <1>8. KeysIn(cache, g) = meta[g].items
    <2>1. work[p].failed = FALSE
      BY <1>1, <1>2 DEF StagingTask
    <2> QED
      BY <1>1, <1>2, <2>1 DEF StageStands, Staging, g
  <1>9. StageStands(t)'
    <2>1. KeysIn(cache, t.gen)' = meta[g].items \cup {E!Marker}
      BY <1>6, <1>7, <1>8 DEF KeysIn, E!RowsIn
    <2>2. /\ g \in E!Generations /\ meta[g].server = work[p].locked
          /\ \A h \in E!Generations : meta[h].server = t.locked => h <= g
      BY <1>1, <1>2, <1>6 DEF StageStands, Staging, g
    <2> QED
      BY <1>1, <1>6, <2>1, <2>2 DEF StageStands, E!Generations
  <1> QED
    BY <1>1, <1>4, <1>5, <1>6, <1>7, <1>9, StagingStep DEF g

LEMMA ExpireStep ==
    ASSUME CacheInv, NEW g \in DOMAIN meta, E!Expire(g) PROVE CacheInv'
  <1>1. /\ meta' = [meta EXCEPT ![g].expired = TRUE]
        /\ UNCHANGED <<data, saved, cache, held, work>>
    BY DEF E!Expire
  <1>2. meta \in Seq(MetaRow) /\ work \in [Tasks -> E!TaskRows] /\ meta[g] \in MetaRow
    BY MetaTypes DEF CacheInv, E!TypeOK, MetaRow, E!Generations
  <1>3. PICK row : row = [meta[g] EXCEPT !.expired = TRUE]
    OBVIOUS
  <1>4. /\ row \in MetaRow /\ row.items = meta[g].items /\ row.scope = meta[g].scope
        /\ row.server = meta[g].server
    BY <1>2, <1>3 DEF MetaRow
  <1>5. meta' = [meta EXCEPT ![g] = row]
    BY <1>1, <1>3
  <1>6. /\ meta' \in Seq(MetaRow) /\ E!Generations' = E!Generations
        /\ \A h \in E!Generations : meta'[h] = IF h = g THEN row ELSE meta[h]
    BY <1>2, <1>4, <1>5 DEF E!Generations
  <1>7. \A h \in E!Generations : /\ meta'[h].items = meta[h].items
                                 /\ meta'[h].scope = meta[h].scope
                                 /\ meta'[h].server = meta[h].server
    BY <1>4, <1>6
  <1>8. E!TypeOK'
    BY <1>1, <1>6 DEF CacheInv, E!TypeOK, E!TaskRows, MetaRow
  <1>9. RowsStand(cache)' /\ MetaStands'
    BY <1>1, <1>6, <1>7
    DEF CacheInv, RowsStand, Whole, CacheRow, MetaStands, KeysIn, E!RowsIn, E!Valid
  <1>10. ASSUME NEW q \in Tasks
         PROVE  EvidenceStands(work[q])' /\ LockStands(work[q], q)' /\ StageStands(work[q])'
    <2>1. EvidenceStands(work[q]) /\ LockStands(work[q], q) /\ StageStands(work[q])
      BY DEF CacheInv
    <2>2. EvidenceStands(work[q])'
      BY <1>1, <1>6, <1>7, <2>1 DEF EvidenceStands, Prepared
    <2>3. StageStands(work[q])'
      BY <1>1, <1>6, <1>7, <2>1 DEF StageStands, KeysIn, E!RowsIn
    <2> QED
      BY <1>1, <2>1, <2>2, <2>3 DEF LockStands
  <1> QED
    BY <1>8, <1>9, <1>10 DEF CacheInv

\* What a task is given has its type.
LEMMA IdleTask == E!Idle \in E!TaskRows /\ EvidenceStands(E!Idle) /\ E!Idle.pc = "idle"
  BY DEF E!Idle, E!TaskRows, EvidenceStands, UnderLock

Served(by, scope, assets, server, cut) ==
    [pc |-> "assets", kind |-> by, scope |-> scope, server |-> server, assets |-> assets,
     cut |-> cut]

LEMMA ServedIsTyped ==
    ASSUME NEW by \in {"preview", "link"}, NEW scope \in SUBSET Organizations,
           NEW assets \in SUBSET E!Assets, NEW server \in Servers \cup {E!None},
           NEW cut \in BOOLEAN, Prepared(assets, scope, server, cut)
    PROVE  LET t == Served(by, scope, assets, server, cut)
           IN t \in E!TaskRows /\ EvidenceStands(t) /\ t.pc = "assets"
  BY DEF Served, E!TaskRows, EvidenceStands, UnderLock

LEMMA NothingPrepared ==
    ASSUME NEW scope, NEW server, NEW cut PROVE Prepared({}, scope, server, cut)
  BY DEF Prepared

LEMMA FromCacheTyped ==
    ASSUME E!TypeOK, NEW rs, rs \subseteq CacheRow, NEW scope, NEW server
    PROVE  E!FromCache(rs, scope, server) \in SUBSET E!Assets /\ E!IsCut(rs, server) \in BOOLEAN
  <1> DEFINE list == E!GenerationRows(E!Listed(rs, server))
  <1>1. list \subseteq rs
    BY DEF E!GenerationRows, E!Listed, E!RowsOf
  <1>2. E!AssetsOf(list, scope, server) \subseteq E!Assets
    BY <1>1, RowTypes DEF E!AssetsOf
  <1> QED
    BY <1>2 DEF E!FromCache, E!Selected, E!IsCut

\* A maximum of assets can be chosen of more.
LEMMA SomeOfMore ==
    ASSUME NEW S, IsFiniteSet(S), Cardinality(S) > MaxAssets
    PROVE  \E T \in SUBSET S : Cardinality(T) = MaxAssets
  <1> DEFINE Sizes == {n \in Nat : n >= MaxAssets /\ \E T \in SUBSET S : Cardinality(T) = n}
  <1>1. Cardinality(S) \in Nat
    BY FS_CardinalityType
  <1>2. PICK n \in Sizes : \A k \in Sizes : n <= k
    <2>1. Sizes \in SUBSET Nat /\ Cardinality(S) \in Sizes
      BY <1>1, CacheBounds
    <2> HIDE DEF Sizes
    <2> QED
      BY <2>1, LeastNumber
  <1>3. PICK T \in SUBSET S : Cardinality(T) = n
    BY <1>2
  <1>4. IsFiniteSet(T)
    BY <1>3, FS_Subset
  <1>5. ASSUME n > MaxAssets PROVE FALSE
    <2>1. T # {}
      <3>1. Cardinality(T) # 0
        BY <1>2, <1>3, <1>5, CacheBounds
      <3> QED
        BY <3>1, FS_EmptySet
    <2>2. PICK x \in T : TRUE
      BY <2>1
    <2>3. Cardinality(T \ {x}) = n - 1 /\ T \ {x} \in SUBSET S
      BY <1>3, <1>4, <2>2, FS_RemoveElement
    <2>4. n - 1 \in Sizes
      BY <1>2, <1>5, <2>3, CacheBounds
    <2> QED
      BY <1>2, <2>4
  <1> QED
    BY <1>2, <1>3, <1>5, CacheBounds

LEMMA ReplyTyped ==
    ASSUME E!TypeOK, NEW scope \in SUBSET Organizations
    PROVE  E!ReadInventory(scope) \in E!Replies
  <1> DEFINE found == {x \in Inventory[data] : x.org \in scope}
             few == CHOOSE s \in SUBSET found : E!Cardinality(s) = MaxAssets
  <1>1. data \in DOMAIN Inventory /\ found \subseteq E!Assets /\ IsFiniteSet(found)
    <2>1. data \in DOMAIN Inventory /\ IsFiniteSet(Inventory[data])
      BY CacheBounds DEF E!TypeOK
    <2>2. found \subseteq Inventory[data] /\ Inventory[data] \subseteq E!Assets
      BY <2>1 DEF E!Assets
    <2> QED
      BY <2>1, <2>2, FS_Subset
  <1>2. ASSUME E!Cardinality(found) > MaxAssets PROVE few \in SUBSET found
    <2> HIDE DEF found
    <2>1. Cardinality(found) > MaxAssets
      BY <1>2 DEF E!Cardinality, Cardinality
    <2>2. PICK T \in SUBSET found : Cardinality(T) = MaxAssets
      BY <1>1, <2>1, SomeOfMore
    <2>3. E!Cardinality(T) = MaxAssets
      BY <2>2 DEF E!Cardinality, Cardinality
    <2> QED
      BY <2>3
  <1> HIDE DEF few
  <1>3. CASE E!Cardinality(found) > MaxAssets
    <2>1. E!ReadInventory(scope) = [items |-> few, scope |-> scope, truncated |-> TRUE]
      BY <1>3 DEF E!ReadInventory, few
    <2> QED
      BY <1>1, <1>2, <1>3, <2>1 DEF E!Replies
  <1>4. CASE ~(E!Cardinality(found) > MaxAssets)
    <2>1. E!ReadInventory(scope) = [items |-> found, scope |-> scope, truncated |-> FALSE]
      BY <1>4 DEF E!ReadInventory
    <2> QED
      BY <1>1, <2>1 DEF E!Replies
  <1> QED
    BY <1>3, <1>4

\* The steps of a task.
LEMMA BeginSteps ==
    ASSUME CacheInv, NEW p \in Tasks, E!BeginRefresh(p) \/ E!BeginPreview(p) PROVE CacheInv'
  <1>1. E!TypeOK /\ saved.scope \in SUBSET Organizations
    BY DEF CacheInv, E!TypeOK
  <1>2. CASE E!BeginRefresh(p)
    <2>1. PICK t : t = [pc |-> "read", job |-> [kind |-> "refresh"],
                        result |-> E!ReadInventory(saved.scope)]
      OBVIOUS
    <2>2. work' = [work EXCEPT ![p] = t] /\ UNCHANGED <<data, saved, cache, meta, held>>
      BY <1>2, <2>1 DEF E!BeginRefresh
    <2>3. t \in ReadTask /\ t.job.kind = "refresh" /\ t.pc = "read"
      BY <1>1, <2>1, ReplyTyped DEF ReadTask, E!Jobs
    <2>4. t \in E!TaskRows
      BY <2>3 DEF ReadTask, E!TaskRows
    <2>5. EvidenceStands(t) /\ t.pc \notin UnderLock
      BY <2>3 DEF EvidenceStands, UnderLock
    <2> QED
      BY <2>2, <2>4, <2>5, TaskStep
  <1>3. CASE E!BeginPreview(p)
    <2>1. PICK t : t = [pc |-> "policy", scope |-> saved.scope]
      OBVIOUS
    <2>2. work' = [work EXCEPT ![p] = t] /\ UNCHANGED <<data, saved, cache, meta, held>>
      BY <1>3, <2>1 DEF E!BeginPreview
    <2>3. t \in E!TaskRows
      BY <1>1, <2>1 DEF E!TaskRows
    <2>4. EvidenceStands(t) /\ t.pc \notin UnderLock
      BY <2>1 DEF EvidenceStands, UnderLock
    <2> QED
      BY <2>2, <2>3, <2>4, TaskStep
  <1> QED
    BY <1>2, <1>3

\* A step in which a task is served, without a lock.
LEMMA ServeStep ==
    ASSUME CacheInv, NEW p \in Tasks, NEW by \in {"preview", "link"},
           NEW scope \in SUBSET Organizations, NEW assets \in SUBSET E!Assets,
           NEW server \in Servers \cup {E!None}, NEW cut \in BOOLEAN,
           Prepared(assets, scope, server, cut), E!Serve(p, by, scope, assets, server, cut),
           UNCHANGED <<data, saved, cache, meta, held>>
    PROVE  CacheInv'
  <1>1. PICK t : t = Served(by, scope, assets, server, cut)
    OBVIOUS
  <1>2. work' = [work EXCEPT ![p] = t]
    BY <1>1 DEF E!Serve, Served
  <1>3. t \in E!TaskRows /\ EvidenceStands(t) /\ t.pc \notin UnderLock
    BY <1>1, ServedIsTyped DEF UnderLock
  <1> QED
    BY <1>2, <1>3, TaskStep

LEMMA PolicySteps ==
    ASSUME CacheInv, NEW p \in Tasks,
           E!SkipCache(p) \/ E!UseCache(p) \/ E!RefreshFirst(p)
    PROVE  CacheInv'
  <1>1. /\ E!TypeOK /\ MetaStands /\ RowsStand(cache) /\ cache \subseteq CacheRow
        /\ work[p] \in E!TaskRows /\ saved.scope \in SUBSET Organizations
        /\ saved.server \in Servers \cup {E!None}
    BY DEF CacheInv, E!TypeOK, RowsStand
  <1>2. work[p].pc = "policy" /\ UNCHANGED <<data, saved, cache, meta, held>>
    BY DEF E!SkipCache, E!UseCache, E!RefreshFirst
  <1>3. PICK scope \in SUBSET Organizations : scope = work[p].scope
    BY <1>1, <1>2, WorkShape
  <1>4. PICK server : server = saved.server
    OBVIOUS
  <1>5. CASE E!SkipCache(p)
    <2>1. E!Serve(p, "preview", scope, {}, E!None, FALSE)
      BY <1>3, <1>5 DEF E!SkipCache
    <2> QED
      BY <1>2, <2>1, NothingPrepared, ServeStep
  <1>6. ASSUME scope # {}, server # E!None
        PROVE  /\ server \in Servers
               /\ E!FromCache(cache, scope, server) \in SUBSET E!Assets
               /\ E!IsCut(cache, server) \in BOOLEAN
               /\ Prepared(E!FromCache(cache, scope, server), scope, server,
                           E!IsCut(cache, server))
    <2>1. server \in Servers
      BY <1>1, <1>4, <1>6
    <2> QED
      BY <1>1, <1>6, <2>1, FromCacheTyped, SelectedWhole
  <1>7. CASE E!UseCache(p)
    <2>1. /\ scope # {} /\ server # E!None
          /\ E!Serve(p, "preview", scope, E!FromCache(cache, scope, server), server,
                     E!IsCut(cache, server))
      BY <1>3, <1>4, <1>7 DEF E!UseCache
    <2> QED
      BY <1>2, <1>6, <2>1, ServeStep
  <1>8. CASE E!RefreshFirst(p)
    <2>1. PICK job : job = [kind |-> "preview", scope |-> scope, server |-> server,
                            before |-> E!FromCache(cache, scope, server),
                            cut |-> E!IsCut(cache, server)]
      OBVIOUS
    <2>2. PICK t : t = [pc |-> "read", result |-> E!ReadInventory(saved.scope), job |-> job]
      OBVIOUS
    <2>3. scope # {} /\ server # E!None /\ work' = [work EXCEPT ![p] = t]
      BY <1>3, <1>4, <1>8, <2>1, <2>2 DEF E!RefreshFirst
    <2>4. /\ job \in PreviewJob /\ job \in E!Jobs
          /\ job.scope # {} /\ Prepared(job.before, job.scope, job.server, job.cut)
      <3>1. job \in PreviewJob
        BY <1>6, <2>1, <2>3 DEF PreviewJob
      <3> QED
        BY <1>6, <2>1, <2>3, <3>1 DEF PreviewJob, E!Jobs
    <2>5. t \in ReadTask /\ t.job = job /\ t.pc = "read"
      BY <1>1, <2>2, <2>4, ReplyTyped DEF ReadTask
    <2>6. t \in E!TaskRows
      BY <2>5 DEF ReadTask, E!TaskRows
    <2>7. EvidenceStands(t) /\ t.pc \notin UnderLock
      BY <2>4, <2>5 DEF EvidenceStands, UnderLock
    <2> QED
      BY <1>2, <2>3, <2>6, <2>7, TaskStep
  <1> QED
    BY <1>5, <1>7, <1>8

LEMMA NewTask ==
    ASSUME CacheInv, NEW p \in Tasks, work[p].pc \in {"read"} \cup UnderLock
    PROVE  /\ work[p].job \in E!Jobs
           /\ work[p].job.kind # "refresh" =>
                 /\ work[p].job \in PreviewJob /\ work[p].job.scope # {}
                 /\ Prepared(work[p].job.before, work[p].job.scope, work[p].job.server,
                             work[p].job.cut)
  <1>1. work[p].job \in E!Jobs
    <2>1. work[p] \in E!TaskRows
      BY DEF CacheInv, E!TypeOK
    <2>2. CASE work[p].pc = "read"
      BY <2>1, <2>2, WorkShape DEF ReadTask
    <2>3. CASE work[p].pc \in UnderLock
      BY <2>3, HolderShape DEF CacheInv
    <2> QED
      BY <2>2, <2>3
  <1>2. EvidenceStands(work[p])
    BY DEF CacheInv
  <1> QED
    BY <1>1, <1>2, JobShape DEF EvidenceStands

\* The task that gives up is done, or is served what it had.
LEMMA GivenUp ==
    ASSUME CacheInv, NEW p \in Tasks, work[p].pc \in {"read"} \cup UnderLock, E!GiveUp(p)
    PROVE  \E t \in E!TaskRows : /\ work' = [work EXCEPT ![p] = t]
                                 /\ t.pc \notin {"read"} \cup UnderLock /\ EvidenceStands(t)
  <1>1. PICK job : job = work[p].job
    OBVIOUS
  <1>2. CASE job.kind = "refresh"
    BY <1>1, <1>2, IdleTask DEF E!GiveUp, UnderLock
  <1>3. CASE job.kind # "refresh"
    <2>1. E!Serve(p, "preview", job.scope, job.before, job.server, job.cut)
      BY <1>1, <1>3 DEF E!GiveUp
    <2>2. job \in PreviewJob /\ Prepared(job.before, job.scope, job.server, job.cut)
      BY <1>1, <1>3, NewTask
    <2>3. /\ job.scope \in SUBSET Organizations /\ job.server \in Servers \cup {E!None}
          /\ job.before \in SUBSET E!Assets /\ job.cut \in BOOLEAN
      BY <2>2 DEF PreviewJob
    <2>4. PICK t : t = Served("preview", job.scope, job.before, job.server, job.cut)
      OBVIOUS
    <2>5. t \in E!TaskRows /\ EvidenceStands(t) /\ t.pc = "assets"
      BY <2>2, <2>3, <2>4, ServedIsTyped
    <2>6. work' = [work EXCEPT ![p] = t]
      BY <2>1, <2>4 DEF E!Serve, Served
    <2> QED
      BY <2>5, <2>6 DEF UnderLock
  <1> QED
    BY <1>2, <1>3

\* The rows after the lock is given back.
LEMMA AllKept == \A g : KeepsRows(cache, g)
  BY DEF KeepsRows

LEMMA GiveUpSteps ==
    ASSUME CacheInv, NEW p \in Tasks,
           E!NoServerLeft(p) \/ E!Refuse(p) \/ E!Crash(p) \/ E!Discard(p)
    PROVE  CacheInv'
  <1>1. CASE E!NoServerLeft(p)
    <2>1. work[p].pc = "read" /\ UNCHANGED <<data, saved, cache, meta, held>> /\ E!GiveUp(p)
      BY <1>1 DEF E!NoServerLeft
    <2> QED
      BY <2>1, GivenUp, TaskStep
  <1>2. CASE E!Refuse(p)
    <2>1. /\ work[p].pc \in UnderLock /\ held' = [held EXCEPT ![work[p].locked] = E!None]
          /\ UNCHANGED <<data, saved, cache, meta>> /\ E!GiveUp(p)
      BY <1>2 DEF E!Refuse, UnderLock
    <2>2. PICK t \in E!TaskRows : /\ work' = [work EXCEPT ![p] = t]
                                  /\ t.pc \notin {"read"} \cup UnderLock /\ EvidenceStands(t)
      BY <2>1, GivenUp
    <2>3. cache' = cache
      BY <2>1
    <2> QED
      BY <2>1, <2>2, <2>3, AllKept, ReleaseStep
  <1>3. CASE E!Crash(p)
    <2>1. /\ work[p].pc \in UnderLock /\ held' = [held EXCEPT ![work[p].locked] = E!None]
          /\ UNCHANGED <<data, saved, cache, meta>> /\ work' = [work EXCEPT ![p] = E!Idle]
      BY <1>3 DEF E!Crash, UnderLock
    <2>2. cache' = cache /\ E!Idle.pc \notin {"read"} \cup UnderLock
      BY <2>1, IdleTask DEF UnderLock
    <2> QED
      BY <2>1, <2>2, AllKept, IdleTask, ReleaseStep
  <1>4. CASE E!Discard(p)
    <2>1. /\ work[p].pc = "staging" /\ held' = [held EXCEPT ![work[p].locked] = E!None]
          /\ cache' = {r \in cache : r.gen # work[p].gen}
          /\ UNCHANGED <<data, saved, meta>> /\ E!GiveUp(p)
      BY <1>4 DEF E!Discard
    <2>2. work[p].pc \in UnderLock /\ work[p].pc \in Staging
      BY <2>1 DEF UnderLock, Staging
    <2>3. PICK t \in E!TaskRows : /\ work' = [work EXCEPT ![p] = t]
                                  /\ t.pc \notin {"read"} \cup UnderLock /\ EvidenceStands(t)
      BY <2>1, <2>2, GivenUp
    <2>4. \A g : g # work[p].gen => KeepsRows(cache', g)
      BY <2>1 DEF KeepsRows, E!RowsIn
    <2>5. E!RowsIn(cache', work[p].gen) = {} /\ cache' \subseteq cache
      BY <2>1 DEF E!RowsIn
    <2>6. \A q \in Tasks \ {p} : work[q].pc \in Staging => KeepsRows(cache', work[q].gen)
      BY <2>2, <2>4, StageFacts
    <2>7. \A g \in E!Generations : KeepsRows(cache', g) \/ E!RowsIn(cache', g) = {}
      BY <2>4, <2>5
    <2> QED
      BY <2>1, <2>2, <2>3, <2>5, <2>6, <2>7, ReleaseStep
  <1> QED
    BY <1>1, <1>2, <1>3, <1>4

\* What Publish does to the rows.
LEMMA PublishedRows ==
    ASSUME CacheInv, NEW p \in Tasks, E!Publish(p)
    PROVE  /\ work[p].pc = "marked" /\ work[p].pc \in UnderLock /\ work[p].pc \in Staging
           /\ cache' \subseteq cache /\ RowsStand(cache') /\ meta' = meta
           /\ \A q \in Tasks \ {p} : work[q].pc \in Staging => KeepsRows(cache', work[q].gen)
           /\ KeepsRows(cache', work[p].gen)
           /\ \A g \in E!Generations :
                 /\ meta[g].server # work[p].locked => KeepsRows(cache', g)
                 /\ KeepsRows(cache', g) \/ E!RowsIn(cache', g) = {}
  <1>1. /\ work[p].pc = "marked" /\ meta' = meta
        /\ cache' = {r \in cache : r.gen = work[p].gen \/ E!MetaOf(r.gen).server # work[p].locked}
    BY DEF E!Publish
  <1>2. work[p].pc \in UnderLock /\ work[p].pc \in Staging
    BY <1>1 DEF UnderLock, Staging
  <1>3. \A g \in E!Generations : E!MetaOf(g) = meta[g]
    BY MetaTypes DEF CacheInv
  <1>4. \A g \in E!Generations :
           /\ meta[g].server # work[p].locked => KeepsRows(cache', g)
           /\ KeepsRows(cache', g) \/ E!RowsIn(cache', g) = {}
    BY <1>1, <1>3 DEF KeepsRows, E!RowsIn
  <1>5. KeepsRows(cache', work[p].gen)
    BY <1>1 DEF KeepsRows, E!RowsIn
  <1>6. \A q \in Tasks \ {p} : work[q].pc \in Staging => KeepsRows(cache', work[q].gen)
    <2> SUFFICES ASSUME NEW q \in Tasks \ {p}, work[q].pc \in Staging
                 PROVE  KeepsRows(cache', work[q].gen)
      OBVIOUS
    <2>1. work[q].gen \in E!Generations /\ meta[work[q].gen].server = work[q].locked
      BY StageFacts
    <2>2. work[q].locked # work[p].locked
      BY <1>2, StageFacts DEF UnderLock, Staging
    <2> QED
      BY <1>4, <2>1, <2>2
  <1>7. cache' \subseteq cache
    BY <1>1
  <1>8. RowsStand(cache')
    <2>1. IsFiniteSet(cache') /\ cache' \subseteq CacheRow /\ \E n \in Nat : \A r \in cache' : r.at <= n
      BY <1>7, FS_Subset DEF CacheInv, RowsStand
    <2>2. Whole(cache')
      BY <1>4 DEF CacheInv, RowsStand, Whole, KeepsRows, KeysIn
    <2> QED
      BY <2>1, <2>2 DEF RowsStand
  <1> QED
    BY <1>1, <1>2, <1>4, <1>5, <1>6, <1>7, <1>8

LEMMA PublicationStep ==
    ASSUME CacheInv, NEW p \in Tasks, E!Publish(p) PROVE CacheInv'
  <1>1. /\ held' = [held EXCEPT ![work[p].locked] = E!None] /\ UNCHANGED <<data, saved, meta>>
        /\ E!Refreshed(p)
    BY DEF E!Publish
  <1>2. PICK job : job = work[p].job
    OBVIOUS
  <1>3. work[p].pc \in UnderLock /\ RowsStand(cache') /\ cache' \subseteq CacheRow
    BY PublishedRows DEF RowsStand
  <1>4. \E t \in E!TaskRows : /\ work' = [work EXCEPT ![p] = t]
                              /\ t.pc \notin {"read"} \cup UnderLock /\ EvidenceStands(t)
    <2>1. CASE job.kind = "refresh"
      BY <1>1, <1>2, <2>1, IdleTask DEF E!Refreshed, UnderLock
    <2>2. CASE job.kind # "refresh"
      <3>1. job \in PreviewJob /\ job.scope # {}
        BY <1>2, <1>3, <2>2, NewTask
      <3>2. /\ job.scope \in SUBSET Organizations /\ job.server \in Servers
            /\ job.server \in Servers \cup {E!None}
        BY <3>1 DEF PreviewJob
      <3>3. CASE meta[work[p].gen].items = {}
        <4>1. PICK t : t = Served("preview", job.scope, {}, job.server, FALSE)
          OBVIOUS
        <4>2. t \in E!TaskRows /\ EvidenceStands(t) /\ t.pc = "assets"
          <5>1. {} \in SUBSET E!Assets /\ FALSE \in BOOLEAN
            OBVIOUS
          <5> QED
            BY <3>2, <4>1, <5>1, NothingPrepared, ServedIsTyped
        <4>3. work' = [work EXCEPT ![p] = t]
          BY <1>1, <1>2, <2>2, <3>3, <4>1 DEF E!Refreshed, E!Serve, Served
        <4> QED
          BY <4>2, <4>3 DEF UnderLock
      <3>4. CASE meta[work[p].gen].items # {}
        <4>1. PICK t : t = [pc |-> "again", scope |-> job.scope, server |-> job.server]
          OBVIOUS
        <4>2. t \in E!TaskRows
          BY <3>2, <4>1 DEF E!TaskRows
        <4>3. EvidenceStands(t) /\ t.pc = "again"
          BY <3>1, <4>1 DEF EvidenceStands, UnderLock
        <4>4. work' = [work EXCEPT ![p] = t]
          BY <1>1, <1>2, <2>2, <3>4, <4>1 DEF E!Refreshed
        <4> QED
          BY <4>2, <4>3, <4>4 DEF UnderLock
      <3> QED
        BY <3>3, <3>4
    <2> QED
      BY <2>1, <2>2
  <1> QED
    BY <1>1, <1>3, <1>4, PublishedRows, ReleaseStep

\* The preview that has refreshed the cache is served what is there by now.
LEMMA ReadAgainStep ==
    ASSUME CacheInv, NEW p \in Tasks, E!ReadAgain(p) PROVE CacheInv'
  <1>1. /\ E!TypeOK /\ MetaStands /\ RowsStand(cache) /\ cache \subseteq CacheRow
        /\ work[p] \in E!TaskRows /\ EvidenceStands(work[p])
    BY DEF CacheInv, E!TypeOK, RowsStand
  <1>2. work[p].pc = "again" /\ UNCHANGED <<data, saved, cache, meta, held>>
    BY DEF E!ReadAgain
  <1>3. PICK scope \in SUBSET Organizations, server \in Servers :
           scope = work[p].scope /\ server = work[p].server
    BY <1>1, <1>2, WorkShape DEF AgainTask
  <1>4. scope # {}
    BY <1>1, <1>2, <1>3 DEF EvidenceStands
  <1>5. E!Serve(p, "preview", scope, E!FromCache(cache, scope, server), server,
                E!IsCut(cache, server))
    BY <1>3 DEF E!ReadAgain
  <1>6. /\ E!FromCache(cache, scope, server) \in SUBSET E!Assets
        /\ E!IsCut(cache, server) \in BOOLEAN
        /\ Prepared(E!FromCache(cache, scope, server), scope, server, E!IsCut(cache, server))
    BY <1>1, <1>4, FromCacheTyped, SelectedWhole
  <1> QED
    BY <1>2, <1>5, <1>6, ServeStep

\* The steps of a preview that has been served, and of a link.
LEMMA ServedSteps ==
    ASSUME CacheInv, NEW p \in Tasks, E!Merge(p) \/ E!BeginLink(p) \/ E!Link(p) \/ E!Linked(p)
    PROVE  CacheInv'
  <1>1. /\ E!TypeOK /\ MetaStands /\ RowsStand(cache) /\ cache \subseteq CacheRow
        /\ work[p] \in E!TaskRows /\ saved.scope \in SUBSET Organizations
        /\ saved.server \in Servers \cup {E!None}
    BY DEF CacheInv, E!TypeOK, RowsStand
  <1>2. UNCHANGED <<data, saved, cache, meta, held>>
    BY DEF E!Merge, E!BeginLink, E!Link, E!Linked
  <1>3. ASSUME work' = [work EXCEPT ![p] = E!Idle] PROVE CacheInv'
    BY <1>2, <1>3, IdleTask, TaskStep DEF UnderLock
  <1>4. CASE E!Merge(p)
    <2>1. PICK merged : merged = IF saved.server = E!None THEN {}
                                 ELSE E!Merged(work[p].assets, saved.server)
      OBVIOUS
    <2>2. PICK evidence : evidence = IF merged = {} THEN {} ELSE {CHOOSE x \in merged : TRUE}
      OBVIOUS
    <2>3. work[p].pc = "assets"
      BY <1>4 DEF E!Merge
    <2>4. merged \subseteq E!Assets
      BY <1>1, <2>1, <2>3, WorkShape DEF E!Merged, ServedTask
    <2>5. evidence \in SUBSET E!Assets
      BY <2>2, <2>4
    <2>6. PICK t : t = [pc |-> "reviewed", server |-> saved.server, evidence |-> evidence]
      OBVIOUS
    <2>7. work' = [work EXCEPT ![p] = E!Idle] \/ work' = [work EXCEPT ![p] = t]
      BY <1>4, <2>1, <2>2, <2>6 DEF E!Merge
    <2>8. t \in E!TaskRows
      BY <1>1, <2>5, <2>6 DEF E!TaskRows
    <2>9. EvidenceStands(t) /\ t.pc \notin UnderLock
      BY <2>6 DEF EvidenceStands, UnderLock
    <2> QED
      BY <1>2, <1>3, <2>7, <2>8, <2>9, TaskStep
  <1>5. CASE E!BeginLink(p)
    <2>1. PICK t : t = [pc |-> "linking", scope |-> saved.scope, evidence |-> work[p].evidence,
                        server |-> work[p].server]
      OBVIOUS
    <2>2. work' = [work EXCEPT ![p] = t] /\ work[p].pc = "reviewed"
      BY <1>5, <2>1 DEF E!BeginLink
    <2>3. t \in E!TaskRows
      <3>1. work[p].server \in Servers \cup {E!None} /\ work[p].evidence \in SUBSET E!Assets
        BY <1>1, <2>2, WorkShape
      <3> QED
        BY <1>1, <2>1, <3>1 DEF E!TaskRows
    <2>4. EvidenceStands(t) /\ t.pc \notin UnderLock
      BY <2>1 DEF EvidenceStands, UnderLock
    <2> QED
      BY <1>2, <2>2, <2>3, <2>4, TaskStep
  <1>6. CASE E!Link(p)
    <2>1. PICK scope \in SUBSET Organizations : scope = work[p].scope
      <3>1. work[p].pc = "linking"
        BY <1>6 DEF E!Link
      <3> QED
        BY <1>1, <3>1, WorkShape DEF LinkingTask
    <2>2. PICK server \in Servers \cup {E!None} : server = saved.server
      BY <1>1
    <2>3. PICK assets : assets = IF ~saved.on \/ scope = {} \/ server = E!None THEN {}
                                 ELSE E!FromCache(cache, scope, server)
      OBVIOUS
    <2>4. \/ work' = [work EXCEPT ![p] = E!Idle]
          \/ E!Serve(p, "link", scope, assets, server, E!IsCut(cache, server))
      BY <1>6, <2>1, <2>2, <2>3 DEF E!Link
    <2>5. assets \in SUBSET E!Assets /\ E!IsCut(cache, server) \in BOOLEAN
      BY <1>1, <2>3, FromCacheTyped
    <2>6. Prepared(assets, scope, server, E!IsCut(cache, server))
      <3>1. CASE ~saved.on \/ scope = {} \/ server = E!None
        BY <2>3, <3>1, NothingPrepared
      <3>2. CASE ~(~saved.on \/ scope = {} \/ server = E!None)
        BY <1>1, <2>3, <3>2, SelectedWhole
      <3> QED
        BY <3>1, <3>2
    <2> QED
      BY <1>2, <1>3, <2>4, <2>5, <2>6, ServeStep
  <1>7. CASE E!Linked(p)
    BY <1>3, <1>7 DEF E!Linked
  <1> QED
    BY <1>4, <1>5, <1>6, <1>7

\* The steps of the administrator and of the provider.
LEMMA SettingSteps ==
    ASSUME CacheInv,
           \/ \E scope \in SUBSET Organizations : E!SaveScope(scope)
           \/ \E s \in Servers \cup {E!None}, on \in BOOLEAN : E!SaveConnection(s, on)
           \/ E!DetectServer
           \/ E!ProviderChanges
    PROVE  CacheInv'
  <1>1. saved \in SavedRow /\ data \in DOMAIN Inventory
    BY DEF CacheInv, E!TypeOK, SavedRow
  <1>2. ASSUME NEW scope \in SUBSET Organizations, NEW s \in Servers \cup {E!None},
               NEW on \in BOOLEAN, NEW changed,
               changed = [saved EXCEPT !.scope = scope, !.server = s, !.on = on],
               E!Save(changed)
        PROVE  CacheInv'
    <2>1. changed \in SavedRow /\ saved.saves + 1 \in Nat
      <3>1. saved.saves + 1 \in Nat
        BY <1>1 DEF SavedRow
      <3>2. changed \in SavedRow
        BY <1>1, <1>2 DEF SavedRow
      <3> QED
        BY <3>1, <3>2
    <2>2. saved' = [changed EXCEPT !.saves = saved.saves + 1]
          /\ UNCHANGED <<data, cache, meta, held, work>>
      BY <1>2 DEF E!Save
    <2>3. saved' \in SavedRow
      BY <2>1, <2>2 DEF SavedRow
    <2> QED
      BY <1>1, <2>2, <2>3, OnlySettings
  <1>3. ASSUME NEW s \in Servers \cup {E!None}, NEW on \in BOOLEAN, E!SaveConnection(s, on)
        PROVE  CacheInv'
    <2>1. PICK changed : changed = [saved EXCEPT !.server = s, !.on = on]
      OBVIOUS
    <2>2. changed = [saved EXCEPT !.scope = saved.scope, !.server = s, !.on = on]
      BY <1>1, <2>1 DEF SavedRow
    <2>3. E!Save(changed)
      BY <1>3, <2>1 DEF E!SaveConnection
    <2> QED
      BY <1>1, <1>2, <2>2, <2>3 DEF SavedRow
  <1>4. ASSUME NEW scope \in SUBSET Organizations, E!SaveScope(scope) PROVE CacheInv'
    <2>1. PICK changed : changed = [saved EXCEPT !.scope = scope]
      OBVIOUS
    <2>2. changed = [saved EXCEPT !.scope = scope, !.server = saved.server, !.on = saved.on]
      BY <1>1, <2>1 DEF SavedRow
    <2>3. E!Save(changed)
      BY <1>4, <2>1 DEF E!SaveScope
    <2> QED
      BY <1>1, <1>2, <2>2, <2>3 DEF SavedRow
  <1>5. CASE E!DetectServer
    <2>1. PICK s : s = E!Recommended(saved.scope)
      OBVIOUS
    <2>2. s # E!None /\ E!SaveConnection(s, saved.on)
      BY <1>5, <2>1 DEF E!DetectServer
    <2>3. E!ReadInventory(saved.scope).items \subseteq E!Assets
      BY <1>1, ReplyTyped DEF CacheInv, SavedRow, E!Replies
    <2>4. s \in Servers \cup {E!None}
      <3> DEFINE found == {x \in E!ReadInventory(saved.scope).items : x.device # E!None}
                 seen == {x.server : x \in found}
      <3>1. s = CHOOSE r \in seen : TRUE
        BY <2>1, <2>2 DEF E!Recommended
      <3>2. \E x \in found : TRUE
        BY <2>1, <2>2 DEF E!Recommended
      <3>3. s \in seen
        BY <3>1, <3>2
      <3> QED
        BY <2>3, <3>3, CacheBounds
    <2>5. saved.on \in BOOLEAN
      BY <1>1 DEF SavedRow
    <2> QED
      BY <1>3, <2>2, <2>4, <2>5
  <1>6. CASE E!ProviderChanges
    <2>1. /\ data < Len(Inventory) /\ data' = data + 1
          /\ UNCHANGED <<saved, cache, meta, held, work>>
      BY <1>6 DEF E!ProviderChanges
    <2>2. data' \in DOMAIN Inventory
      <3>1. PICK n \in Nat : n = Len(Inventory) /\ DOMAIN Inventory = 1..n
        BY CacheBounds
      <3> QED
        BY <1>1, <2>1, <3>1
    <2> QED
      BY <1>1, <2>1, <2>2, OnlySettings
  <1> QED
    BY <1>3, <1>4, <1>5, <1>6

LEMMA CacheNext == CacheInv /\ [E!Next]_(E!vars) => CacheInv'
  <1> SUFFICES ASSUME CacheInv, [E!Next]_(E!vars) PROVE CacheInv'
    OBVIOUS
  <1>1. CASE UNCHANGED E!vars
    <2>1. UNCHANGED <<cache, meta, held, work>> /\ data' = data /\ saved' = saved
      BY <1>1 DEF E!vars
    <2>2. saved \in SavedRow /\ data \in DOMAIN Inventory
      BY DEF CacheInv, E!TypeOK, SavedRow
    <2> QED
      BY <2>1, <2>2, OnlySettings
  <1>2. ASSUME NEW p \in Tasks, NEW stored \in BOOLEAN,
               \/ E!BeginRefresh(p) \/ E!BeginPreview(p)
               \/ E!SkipCache(p) \/ E!UseCache(p) \/ E!RefreshFirst(p)
               \/ E!TakeLock(p) \/ E!NoServerLeft(p) \/ E!Refuse(p) \/ E!Prepare(p)
               \/ E!Stage(p, stored) \/ E!Mark(p) \/ E!Publish(p) \/ E!ReadAgain(p)
               \/ E!Discard(p) \/ E!Crash(p)
               \/ E!Merge(p) \/ E!BeginLink(p) \/ E!Link(p) \/ E!Linked(p)
        PROVE  CacheInv'
    <2>1. CASE E!BeginRefresh(p) \/ E!BeginPreview(p)
      BY <2>1, BeginSteps
    <2>2. CASE E!SkipCache(p) \/ E!UseCache(p) \/ E!RefreshFirst(p)
      BY <2>2, PolicySteps
    <2>3. CASE E!NoServerLeft(p) \/ E!Refuse(p) \/ E!Crash(p) \/ E!Discard(p)
      BY <2>3, GiveUpSteps
    <2>4. CASE E!Merge(p) \/ E!BeginLink(p) \/ E!Link(p) \/ E!Linked(p)
      BY <2>4, ServedSteps
    <2> QED
      BY <1>2, <2>1, <2>2, <2>3, <2>4, TakeLockStep, PrepareStep, StageStep, MarkerStep,
         PublicationStep, ReadAgainStep
  <1>3. CASE \/ \E scope \in SUBSET Organizations : E!SaveScope(scope)
             \/ \E s \in Servers \cup {E!None}, on \in BOOLEAN : E!SaveConnection(s, on)
             \/ E!DetectServer
             \/ E!ProviderChanges
    BY <1>3, SettingSteps
  <1>4. CASE \E g \in DOMAIN meta : E!Expire(g)
    BY <1>4, ExpireStep
  <1>5. E!Next =>
           \/ \E p \in Tasks, stored \in BOOLEAN :
                 \/ E!BeginRefresh(p) \/ E!BeginPreview(p)
                 \/ E!SkipCache(p) \/ E!UseCache(p) \/ E!RefreshFirst(p)
                 \/ E!TakeLock(p) \/ E!NoServerLeft(p) \/ E!Refuse(p) \/ E!Prepare(p)
                 \/ E!Stage(p, stored) \/ E!Mark(p) \/ E!Publish(p) \/ E!ReadAgain(p)
                 \/ E!Discard(p) \/ E!Crash(p)
                 \/ E!Merge(p) \/ E!BeginLink(p) \/ E!Link(p) \/ E!Linked(p)
           \/ \E scope \in SUBSET Organizations : E!SaveScope(scope)
           \/ \E s \in Servers \cup {E!None}, on \in BOOLEAN : E!SaveConnection(s, on)
           \/ E!DetectServer
           \/ E!ProviderChanges
           \/ \E g \in DOMAIN meta : E!Expire(g)
    BY DEF E!Next
  <1> QED
    BY <1>1, <1>2, <1>3, <1>4, <1>5

LEMMA ServedWhole == CacheInv => E!OneWholeGeneration
  BY DEF CacheInv, EvidenceStands, Prepared, E!OneWholeGeneration

\* The rows of a published generation are changed by the publication of a newer one of
\* the same server only.
PublishedStand ==
    \A g \in E!Generations :
       /\ E!Published(g)
       /\ E!RowsIn(cache, g) # E!RowsIn(cache', g)
       => \E h \in E!Generations : h > g /\ E!Published(h)' /\ meta[h].server = meta[g].server

LEMMA UnpublishedStage ==
    ASSUME CacheInv, NEW p \in Tasks, work[p].pc = "staging"
    PROVE  work[p].gen \in E!Generations /\ ~E!Published(work[p].gen)
  <1> DEFINE g == work[p].gen
  <1>1. g \in E!Generations /\ KeysIn(cache, g) \subseteq meta[g].items
    BY StageFacts DEF CacheInv, StageStands, Staging
  <1>2. E!Marker \notin meta[g].items
    BY <1>1, MarkerIsNone DEF CacheInv, MetaStands, E!Valid
  <1> QED
    BY <1>1, <1>2 DEF KeysIn, E!Published

LEMMA PublishedStandStep == CacheInv /\ [E!Next]_(E!vars) => PublishedStand
  <1> SUFFICES ASSUME CacheInv, [E!Next]_(E!vars), NEW g \in E!Generations, E!Published(g),
                      E!RowsIn(cache, g) # E!RowsIn(cache', g)
               PROVE  \E h \in E!Generations :
                         h > g /\ E!Published(h)' /\ meta[h].server = meta[g].server
    BY DEF PublishedStand
  <1>1. cache' # cache
    OBVIOUS
  <1>2. PICK p \in Tasks : \/ \E stored \in BOOLEAN : E!Stage(p, stored)
                           \/ E!Mark(p) \/ E!Publish(p) \/ E!Discard(p)
    BY <1>1 DEF E!Next, E!vars, E!BeginRefresh, E!BeginPreview, E!SkipCache, E!UseCache,
                E!ReadAgain, E!RefreshFirst, E!TakeLock, E!NoServerLeft, E!Refuse, E!Prepare, E!Crash, E!Merge,
                E!BeginLink, E!Link, E!Linked, E!SaveScope, E!SaveConnection, E!DetectServer,
                E!Save, E!ProviderChanges, E!Expire
  <1>3. CASE \/ \E stored \in BOOLEAN : E!Stage(p, stored)
             \/ E!Mark(p) \/ E!Discard(p)
    <2>1. work[p].pc = "staging"
      BY <1>3 DEF E!Stage, E!Mark, E!Discard
    <2>2. work[p].gen \in E!Generations /\ work[p].gen # g
      BY <2>1, UnpublishedStage
    <2>3. E!RowsIn(cache', g) = E!RowsIn(cache, g)
      BY <1>3, <2>2 DEF E!Stage, E!Mark, E!Discard, E!Stored, E!RowsIn
    <2> QED
      BY <2>3
  <1>4. CASE E!Publish(p)
    <2> PICK h : h = work[p].gen
      OBVIOUS
    <2>1. /\ work[p].pc = "marked" /\ work[p].pc \in Staging
          /\ KeepsRows(cache', h) /\ (meta[g].server # work[p].locked => KeepsRows(cache', g))
      BY <1>4, PublishedRows
    <2>2. h # g /\ meta[g].server = work[p].locked
      BY <2>1 DEF KeepsRows
    <2>3. /\ h \in E!Generations /\ meta[h].server = work[p].locked /\ g <= h
          /\ KeysIn(cache, h) = meta[h].items \cup {E!Marker}
      BY <2>1, <2>2 DEF CacheInv, StageStands
    <2>4. h > g
      BY <2>2, <2>3, MetaTypes DEF CacheInv
    <2>5. E!Published(h)'
      <3>1. \E r \in E!RowsIn(cache', h) : r.key = E!Marker
        BY <2>1, <2>3 DEF KeepsRows, KeysIn
      <3> QED
        BY <3>1 DEF E!Published, E!RowsIn
    <2> QED
      BY <2>2, <2>3, <2>4, <2>5
  <1> QED
    BY <1>2, <1>3, <1>4

----------------------------------------------------------------------------
(* The parts side by side *)

ProvidersInv == ReadInv /\ CompanyInv /\ ConnInv /\ RotationInv /\ CacheInv

\* A step of a part is a step of its module and leaves the others alone.
LEMMA PartStep ==
    ASSUME [Next]_vars
    PROVE  /\ [P!Next]_(P!vars) /\ [C!Next]_(C!vars) /\ [R!Next]_(R!vars) /\ [D!Next]_(D!vars)
           /\ [E!Next]_(E!vars)
  <1> USE DEF cacheVars, connVars, companyVars, rotationVars, readVars,
              E!vars, P!vars, C!vars, R!vars, D!vars
  <1>1. CASE UNCHANGED vars
    BY <1>1 DEF vars
  <1>2. CASE E!Next /\ UNCHANGED <<connVars, companyVars, rotationVars, readVars>>
    BY <1>2
  <1>3. CASE P!Next /\ UNCHANGED <<cacheVars, companyVars, rotationVars, readVars>>
    BY <1>3
  <1>4. CASE C!Next /\ UNCHANGED <<cacheVars, connVars, rotationVars, readVars>>
    BY <1>4
  <1>5. CASE R!Next /\ UNCHANGED <<cacheVars, connVars, companyVars, readVars>>
    BY <1>5
  <1>6. CASE D!Next /\ UNCHANGED <<cacheVars, connVars, companyVars, rotationVars>>
    BY <1>6
  <1> QED
    BY <1>1, <1>2, <1>3, <1>4, <1>5, <1>6 DEF Next

LEMMA ProvidersInvariant == Spec => []ProvidersInv
  <1>1. Init => ProvidersInv
    BY ReadInit, CompanyInit, ConnInit, RotationInit, CacheInit DEF Init, ProvidersInv
  <1>2. ProvidersInv /\ [Next]_vars => ProvidersInv'
    <2> SUFFICES ASSUME ProvidersInv, [Next]_vars PROVE ProvidersInv'
      OBVIOUS
    <2>1. ReadInv' /\ CompanyInv'
      BY PartStep, ReadNext, CompanyNext DEF ProvidersInv
    <2>2. ConnInv' /\ RotationInv'
      BY PartStep, ConnNext, RotationNext DEF ProvidersInv
    <2>3. CacheInv'
      BY PartStep, CacheNext DEF ProvidersInv
    <2> QED
      BY <2>1, <2>2, <2>3 DEF ProvidersInv
  <1> QED
    BY <1>1, <1>2, PTL DEF Spec

\* However many threads read details, one at a time reads the lifecycle data, and each sends
\* an optional endpoint that is known to be unavailable no more than the attempts of one
\* read, before and after a rejected token. One exchange succeeds for each token that was
\* dropped or expired (discover_devices, _get, _open_json, _token).
THEOREM ProviderSpared == Spec => []ProviderIsSpared
  <1>1. ProvidersInv => ProviderIsSpared
    BY Spared DEF ProvidersInv
  <1> QED
    BY <1>1, ProvidersInvariant, PTL

\* The variables of every part have their types.
THEOREM PartsAreTyped == Spec => []TypeOK
  <1>1. ProvidersInv => E!TypeOK /\ P!TypeOK /\ C!TypeOK /\ R!TypeOK /\ D!TypeOK
    BY ConnTypeOK, CompanyTypeOK, RotationTypeOK DEF ProvidersInv, ReadInv, ReadTypes, CacheInv
  <1>2. ProvidersInv => TypeOK
    BY <1>1 DEF TypeOK
  <1> QED
    BY <1>2, ProvidersInvariant, PTL

\* Previews and links are served one whole generation, the views of the cache agree, and a
\* published generation stays until a newer one of its server is published, whatever
\* refreshes, crashes and saves happen (_ncentral_graphql_generation_rows,
\* _cache_ncentral_graphql_assets_locked, _ncentral_enrichment_diagnostics).
THEOREM CacheHolds == Spec => CacheStands
  <1> DEFINE Lasts ==
                \A g \in E!Generations :
                   /\ E!Published(g)
                   /\ E!RowsIn(cache, g) # E!RowsIn(cache', g)
                   => \E h \in E!Generations : h > g /\ E!Published(h)' /\ meta[h].server = meta[g].server
  <1>1. ProvidersInv => E!OneWholeGeneration /\ E!ViewsAgree
    BY ServedWhole, ViewsHold DEF ProvidersInv
  <1>2. ProvidersInv /\ [Next]_vars => [Lasts]_(E!vars)
    BY PartStep, PublishedStandStep DEF ProvidersInv, PublishedStand
  <1> QED
    BY <1>1, <1>2, ProvidersInvariant, PTL DEF Spec, CacheStands, E!PublishedStays

\* The newest tokens are kept whatever forms are saved, and a connection that is called
\* ready can be used (update_integration_connection, test_ncentral_connection,
\* _ncentral_setup_status).
THEOREM ConnectionTrue == Spec => []ConnectionIsTrue
  <1>1. ProvidersInv => ConnectionIsTrue
    BY NewestTokens, ReadyIsUsable DEF ProvidersInv, ConnectionIsTrue
  <1> QED
    BY <1>1, ProvidersInvariant, PTL

\* A discovery leaves its own list and a mapping is removed as it was read, for any number
\* of workers and replicas (record_company_discovery, unmap_ncentral_organization).
THEOREM CompaniesHold == Spec => CompaniesStand
  <1> DEFINE Stands ==
                \A w \in Workers :
                   task[w].pc = "sweep" /\ rows' # rows /\ task'[w] = C!Idle
                   => C!Active' = task[w].items \cup (task[w].late \cap C!Active)
             AsRead ==
                \A c \in Companies : mapping[c] # C!None /\ mapping'[c] = C!None =>
                   \E w \in Workers : /\ task[w].pc = "unmap" /\ task[w].company = c
                                      /\ task[w].read = mapping[c] \/ task[w].raced
  <1>1. ProvidersInv /\ [Next]_vars => [Stands]_(C!vars)
    BY PartStep, DiscoveryStandsStep DEF ProvidersInv, DiscoveryStands
  <1>2. ProvidersInv /\ [Next]_vars => [AsRead]_(C!vars)
    BY PartStep, RemovedAsReadStep DEF ProvidersInv, RemovedAsRead
  <1> QED
    BY <1>1, <1>2, ProvidersInvariant, PTL
    DEF Spec, CompaniesStand, C!OneDiscoveryStands, C!MappingsAreRemovedAsRead

\* The details of every device are read in turn, whatever other previews fail, are executed
\* again or push rows out of the list (_ncentral_saved_enrichment_offset, discover_devices).
THEOREM DevicesHaveTheirTurn == Spec => []EveryDeviceHasItsTurn
  <1>1. ProvidersInv => EveryDeviceHasItsTurn
    BY TurnsAreTaken DEF ProvidersInv, EveryDeviceHasItsTurn
  <1> QED
    BY <1>1, ProvidersInvariant, PTL
=============================================================================
