------------------------- MODULE BlockRecord_proofs -------------------------
(***************************************************************************)
(* Where the two seed heights differ, exactly.                             *)
(*                                                                         *)
(* What one tool records the next one accepts, for every chain, endpoint   *)
(* and seed height, whatever a hash is: the checks that the later tools    *)
(* make of fewer values follow from those of the tool before.              *)
(*                                                                         *)
(* The difficulty test is exact, and the ID of a block binds the records   *)
(* of all blocks below it; the tree of their transactions has the shape    *)
(* CryptoNote fixes.                                                       *)
(***************************************************************************)
EXTENDS BlockRecord, TLAPS, SequenceTheorems, WellFoundedInduction

-----------------------------------------------------------------------------
(* Where the two computations of the seed height differ, for every epoch,  *)
(* lag and height.                                                         *)

\* What a quotient and a remainder are.
LEMMA Division ==
    ASSUME NEW n \in Nat, NEW d \in Nat \ {0}
    PROVE  n \div d \in Nat /\ n % d \in 0 .. d - 1 /\ n = (d * (n \div d)) + (n % d)
  BY Z3

\* They are the only ones.
LEMMA DivisionUnique ==
    ASSUME NEW d \in Nat \ {0}, NEW q \in Int, NEW s \in 0 .. d - 1
    PROVE  ((d * q) + s) \div d = q /\ ((d * q) + s) % d = s
  BY Z3

\* A product is at least its first factor.
LEMMA AtLeastFactor ==
    ASSUME NEW d \in Nat, NEW c \in Nat, c >= 1
    PROVE  d * c >= d
  BY Z3

\* A number less than Epoch above a multiple of Epoch has its quotient.
LEMMA QuotientForm ==
    ASSUME NEW n \in Int, NEW q \in Int, NEW s \in Int, 0 <= s, s < Epoch,
           n = (Epoch * q) + s
    PROVE  Quotient(n) = q /\ n % Epoch = s
  <1>1. Epoch \in Nat \ {0} /\ s \in 0 .. Epoch - 1
    BY SeedAssumption
  <1> QED
    BY <1>1, DivisionUnique DEF Quotient

\* Every height lies in an epoch, at an offset into it.
LEMMA HeightForm ==
    ASSUME NEW h \in Nat
    PROVE  \E k \in Nat, s \in Nat : h = (Epoch * k) + s /\ s < Epoch
  <1>1. Epoch \in Nat \ {0}
    BY SeedAssumption
  <1>2. PICK k \in Nat, s \in 0 .. Epoch - 1 : k = h \div Epoch /\ s = h % Epoch
    BY ONLY <1>1, Division, h \in Nat
  <1>3. h = (Epoch * k) + s
    BY ONLY <1>1, <1>2, Division, h \in Nat
  <1>4. s \in Nat /\ s < Epoch
    BY <1>1
  <1> QED
    BY <1>3, <1>4

\* In the epoch k, at the offset s, both have the key of the epoch before while s
\* is below the lag and the key of the epoch when s is above it; at the lag the
\* requester has the new key and the audit crate the old one.
LEMMA InEpoch ==
    ASSUME NEW k \in Nat, NEW s \in Nat, s < Epoch, NEW h \in Nat, h = (Epoch * k) + s
    PROVE  /\ s < Lag => ProverSeedHeight(h) = AuditSeedHeight(h)
           /\ s > Lag => ProverSeedHeight(h) = AuditSeedHeight(h)
           /\ s = Lag => (ProverSeedHeight(h) = AuditSeedHeight(h) <=> k = 0)
  <1>0. Epoch \in Nat \ {0} /\ Lag \in Nat /\ Lag < Epoch
    BY SeedAssumption
  <1>1. ASSUME NEW q \in Nat, q >= 1 PROVE Epoch * q >= Epoch
    BY AtLeastFactor, <1>0, <1>1
  <1>2. Epoch * 0 = 0 /\ Epoch * 1 = Epoch
    BY <1>0
  <1>3. CASE k = 0
    <2>1. h = s
      BY <1>0, <1>2, <1>3
    <2>2. ASSUME NEW n \in Nat, n < Epoch PROVE Quotient(n) * Epoch = 0
      BY QuotientForm, <1>0, <1>2, <2>2
    <2> QED
      BY <2>1, <2>2, <1>0, <1>3 DEF ProverSeedHeight, AuditSeedHeight
  <1>4. CASE k >= 1
    <2>1. PICK j \in Nat : k = j + 1
      BY <1>4
    <2>2. Epoch * k = (Epoch * j) + Epoch
      BY <2>1, <1>0
    <2>3. PICK x \in Nat, y \in Nat : x = Epoch * k /\ y = Epoch * j
      BY <1>0
    <2>4. x = y + Epoch /\ h = x + s /\ x >= Epoch /\ h >= Lag
      BY <2>2, <2>3, <1>0, <1>1, <1>4
    <2>5. ProverSeedHeight(h) = Quotient(h - Lag) * Epoch
      BY <2>4, <1>0 DEF ProverSeedHeight
    <2>6. j = 0 => y = 0
      BY <2>3, <1>2
    <2>7. j >= 1 => y >= Epoch
      BY <2>3, <1>1
    <2>8. CASE s < Lag
      <3>1. Quotient(h - Lag) = j
        <4>1. PICK n \in Int, t \in Int : n = h - Lag /\ t = Epoch + s - Lag
          BY <1>0
        <4>2. 0 <= t /\ t < Epoch /\ n = (Epoch * j) + t
          BY <4>1, <2>3, <2>4, <1>0, <2>8
        <4>3. Quotient(n) = j
          BY <4>2, QuotientForm
        <4> QED
          BY <4>1, <4>3
      <3>2. Quotient(h - Lag - 1) = j
        <4>1. PICK n \in Int, t \in Int : n = h - Lag - 1 /\ t = Epoch + s - Lag - 1
          BY <1>0
        <4>2. 0 <= t /\ t < Epoch /\ n = (Epoch * j) + t
          BY <4>1, <2>3, <2>4, <1>0, <2>8
        <4>3. Quotient(n) = j
          BY <4>2, QuotientForm
        <4> QED
          BY <4>1, <4>3
      <3>3. j = 0 => ProverSeedHeight(h) = 0 /\ AuditSeedHeight(h) = 0
        BY <3>1, <2>4, <2>5, <2>6, <2>8, <1>0 DEF AuditSeedHeight
      <3>4. j >= 1 => AuditSeedHeight(h) = Quotient(h - Lag - 1) * Epoch
                      \/ h <= Epoch + Lag
        BY DEF AuditSeedHeight
      <3>5. j >= 1 => h > Epoch + Lag
        BY <2>4, <2>7, <1>0
      <3> QED
        BY <3>1, <3>2, <3>3, <3>4, <3>5, <2>5, <2>8, <1>0
    <2>9. CASE s > Lag
      <3>1. Quotient(h - Lag) = k
        <4>1. PICK n \in Int, t \in Int : n = h - Lag /\ t = s - Lag
          BY <1>0
        <4>2. 0 <= t /\ t < Epoch /\ n = (Epoch * k) + t
          BY <4>1, <2>3, <2>4, <1>0, <2>9
        <4>3. Quotient(n) = k
          BY <4>2, QuotientForm
        <4> QED
          BY <4>1, <4>3
      <3>2. Quotient(h - Lag - 1) = k
        <4>1. PICK n \in Int, t \in Int : n = h - Lag - 1 /\ t = s - Lag - 1
          BY <1>0
        <4>2. 0 <= t /\ t < Epoch /\ n = (Epoch * k) + t
          BY <4>1, <2>3, <2>4, <1>0, <2>9
        <4>3. Quotient(n) = k
          BY <4>2, QuotientForm
        <4> QED
          BY <4>1, <4>3
      <3>3. h > Epoch + Lag
        BY <2>4, <2>9, <1>0
      <3> QED
        BY <3>1, <3>2, <3>3, <2>5, <2>9, <1>0 DEF AuditSeedHeight
    <2>10. CASE s = Lag
      <3>1. Quotient(h - Lag) = k
        <4>1. PICK n \in Int, t \in Int : n = h - Lag /\ t = 0
          BY <1>0
        <4>2. 0 <= t /\ t < Epoch /\ n = (Epoch * k) + t
          BY <4>1, <2>3, <2>4, <2>10, <1>0
        <4>3. Quotient(n) = k
          BY <4>2, QuotientForm
        <4> QED
          BY <4>1, <4>3
      <3>2. Quotient(h - Lag - 1) = j
        <4>1. PICK n \in Int, t \in Int : n = h - Lag - 1 /\ t = Epoch - 1
          BY <1>0
        <4>2. 0 <= t /\ t < Epoch /\ n = (Epoch * j) + t
          BY <4>1, <2>3, <2>4, <2>10, <1>0
        <4>3. Quotient(n) = j
          BY <4>2, QuotientForm
        <4> QED
          BY <4>1, <4>3
      <3>3. ProverSeedHeight(h) = x
        <4>1. k * Epoch = Epoch * k
          BY <1>0
        <4> QED
          BY <3>1, <4>1, <2>3, <2>5
      <3>4. AuditSeedHeight(h) \in {0, y}
        <4>1. j * Epoch = Epoch * j
          BY <1>0
        <4> QED
          BY <3>2, <4>1, <2>3 DEF AuditSeedHeight
      <3> QED
        BY <3>3, <3>4, <2>4, <2>10, <1>0, <1>4
    <2> QED
      BY <2>8, <2>9, <2>10, <1>0
  <1> QED
    BY <1>3, <1>4

\* The two functions differ exactly at the heights Lag blocks into an epoch, from
\* the first one that has a predecessor on.
THEOREM DifferExactlyAtBoundary ==
    \A h \in Nat : ProverSeedHeight(h) # AuditSeedHeight(h)
                      <=> h >= Epoch /\ h % Epoch = Lag
  <1>0. Epoch \in Nat \ {0} /\ Lag \in Nat /\ Lag < Epoch
    BY SeedAssumption
  <1> TAKE h \in Nat
  <1>1. PICK k \in Nat, s \in Nat : h = (Epoch * k) + s /\ s < Epoch
    BY HeightForm
  <1>2. h % Epoch = s
    BY <1>1, QuotientForm
  <1>3. k = 0 <=> h < Epoch
    <2>2. k >= 1 => Epoch * k >= Epoch
      BY AtLeastFactor, <1>0
    <2>3. k = 0 => Epoch * k = 0
      BY <1>0
    <2>4. Epoch * k \in Nat
      BY <1>0
    <2> QED
      BY <1>0, <1>1, <2>2, <2>3, <2>4
  <1>4. /\ s < Lag => ProverSeedHeight(h) = AuditSeedHeight(h)
        /\ s > Lag => ProverSeedHeight(h) = AuditSeedHeight(h)
        /\ s = Lag => (ProverSeedHeight(h) = AuditSeedHeight(h) <=> k = 0)
    BY <1>1, InEpoch
  <1> QED
    BY <1>0, <1>2, <1>3, <1>4

Computed ==
    /\ height \in Nat
    /\ prover = ProverSeedHeight(height)
    /\ audit = AuditSeedHeight(height)

\* The variables hold what the two functions compute for the height.
THEOREM AlwaysComputed == Spec => []Computed
  <1>1. Init => Computed
    BY DEF Init, Computed
  <1>2. Computed /\ [NewBlock]_vars => Computed'
    BY DEF Computed, NewBlock, vars
  <1> QED
    BY <1>1, <1>2, PTL DEF Spec

\* On every chain the requester and the audit crate agree off the boundary.
THEOREM AlwaysAgreeOffBoundary == Spec => []AgreeOffBoundary
  <1>1. Computed => AgreeOffBoundary
    BY DifferExactlyAtBoundary DEF Computed, AgreeOffBoundary
  <1> QED
    BY <1>1, AlwaysComputed, PTL

\* On every chain the audit crate only ever switches to the key the requester
\* already has.
THEOREM AuditAlwaysFollows == Spec => AuditFollows
  <1>1. Computed /\ [NewBlock]_vars => [audit' # audit => audit' = prover]_vars
    <2>1. SUFFICES ASSUME Computed, NewBlock PROVE audit' # audit => audit' = prover
      BY DEF vars
    <2>2. CASE height + 1 <= Epoch + Lag
      BY <2>1, <2>2, SeedAssumption DEF Computed, NewBlock, AuditSeedHeight
    <2>3. CASE height + 1 > Epoch + Lag
      <3>1. audit' = Quotient(height + 1 - Lag - 1) * Epoch
        BY <2>1, <2>3, SeedAssumption DEF Computed, NewBlock, AuditSeedHeight
      <3>2. height + 1 - Lag - 1 = height - Lag /\ height >= Lag
        BY <2>1, <2>3, SeedAssumption DEF Computed
      <3>3. prover = Quotient(height - Lag) * Epoch
        BY <2>1, <3>2, SeedAssumption DEF Computed, ProverSeedHeight
      <3> QED
        BY <3>1, <3>2, <3>3
    <2> QED
      BY <2>1, <2>2, <2>3, SeedAssumption DEF Computed
  <1> QED
    BY <1>1, AlwaysComputed, PTL DEF Spec, AuditFollows

-----------------------------------------------------------------------------
(* Induction and recursion along an interval: the property is a set, the   *)
(* step of the recursion a function.                                       *)

LEMMA LeastNat ==
    ASSUME NEW S \in SUBSET Nat, S # {}
    PROVE  \E x \in S : \A y \in S : x <= y
  <1> DEFINE Less == {ss \in Nat \X Nat : ss[1] < ss[2]}
  <1>1. IsWellFoundedOn(Less, Nat)
    BY NatLessThanWellFounded DEF OpToRel
  <1> HIDE DEF Less
  <1>2. PICK x \in S : \A y \in S : ~(<<y, x>> \in Less)
    BY <1>1, WFMin
  <1>3. ASSUME NEW y \in S PROVE x <= y
    <2>1. x \in Nat /\ y \in Nat
      OBVIOUS
    <2>2. y < x => <<y, x>> \in Less
      BY <2>1 DEF Less
    <2> QED
      BY <1>2, <2>1, <2>2
  <1> QED
    BY <1>3

LEMMA Upward ==
    ASSUME NEW n \in Nat, NEW P, 0 \in P, \A i \in 1 .. n : i - 1 \in P => i \in P
    PROVE  \A i \in 0 .. n : i \in P
  <1> DEFINE Q == (0 .. n) \ P
  <1> SUFFICES ASSUME Q # {} PROVE FALSE
    OBVIOUS
  <1>1. Q \in SUBSET Nat
    OBVIOUS
  <1>2. PICK x \in Q : \A y \in Q : x <= y
    <2> HIDE DEF Q
    <2> QED
      BY <1>1, LeastNat
  <1>3. x \in 1 .. n /\ x \notin P /\ x - 1 \in 0 .. n
    OBVIOUS
  <1>4. x - 1 \in P
    BY <1>2, <1>3
  <1> QED
    BY <1>3, <1>4

Iterates(f, n, S, a, step) ==
    f \in [0 .. n -> S] /\ f[0] = a /\ \A j \in 1 .. n : f[j] = step[j][f[j - 1]]

LEMMA Iterated ==
    ASSUME NEW n \in Nat, NEW S, NEW a \in S, NEW step \in [1 .. n -> [S -> S]]
    PROVE  \E f : Iterates(f, n, S, a, step)
  <1> DEFINE Ends(k) == \E f \in [0 .. k -> S] : f[0] = a /\ \A j \in 1 .. k : f[j] = step[j][f[j - 1]]
             P == {k \in 0 .. n : Ends(k)}
  <1>1. 0 \in P
    <2>1. [k \in 0 .. 0 |-> a] \in [0 .. 0 -> S] /\ 1 .. 0 = {} /\ 0 \in 0 .. 0
      OBVIOUS
    <2>2. Ends(0)
      BY <2>1
    <2> QED
      BY <2>2
  <1>2. ASSUME NEW i \in 1 .. n, i - 1 \in P PROVE i \in P
    <2>1. PICK f \in [0 .. i - 1 -> S] : f[0] = a /\ \A j \in 1 .. i - 1 : f[j] = step[j][f[j - 1]]
      BY <1>2
    <2> DEFINE g == [k \in 0 .. i |-> IF k = i THEN step[i][f[i - 1]] ELSE f[k]]
    <2>2. i - 1 \in 0 .. i - 1 /\ i \in 0 .. n /\ 0 # i /\ 0 \in 0 .. i
          /\ \A k \in 0 .. i : k # i => k \in 0 .. i - 1
      OBVIOUS
    <2>3. step[i][f[i - 1]] \in S
      BY <2>2
    <2>4. g \in [0 .. i -> S]
      BY <2>2, <2>3
    <2>5. g[0] = a
      BY <2>1, <2>2
    <2>6. ASSUME NEW j \in 1 .. i PROVE g[j] = step[j][g[j - 1]]
      <3>1. j - 1 \in 0 .. i /\ j - 1 # i /\ j \in 0 .. i /\ (j # i => j \in 1 .. i - 1)
        OBVIOUS
      <3>2. g[j - 1] = f[j - 1]
        BY <3>1
      <3>3. CASE j = i
        BY <3>1, <3>2, <3>3
      <3>4. CASE j # i
        BY <2>1, <3>1, <3>2, <3>4
      <3> QED
        BY <3>3, <3>4
    <2> HIDE DEF g
    <2>7. Ends(i)
      BY <2>4, <2>5, <2>6
    <2> QED
      BY <2>2, <2>7
  <1> HIDE DEF P
  <1>3. \A i \in 0 .. n : i \in P
    BY <1>1, <1>2, Upward
  <1>4. n \in P
    BY <1>3
  <1> QED
    BY <1>4 DEF P, Iterates

\* f is defined by recursion on D: an index in G through the one that from
\* names, the others at once.
Recurses(f, D, G, from, S, base, step) ==
    /\ f \in [D -> S]
    /\ \A v \in D : f[v] = IF v \in G THEN step[v][f[from[v]]] ELSE base[v]

\* It may be, when from goes down by some measure.
LEMMA Recursion ==
    ASSUME NEW n \in Nat, NEW D, NEW mu \in [D -> 0 .. n], NEW G \in SUBSET D, NEW from \in [G -> D],
           \A v \in G : mu[from[v]] < mu[v],
           NEW S, NEW base \in [D -> S], NEW step \in [G -> [S -> S]]
    PROVE  \E f : Recurses(f, D, G, from, S, base, step)
  <1> DEFINE Upto(k) == {v \in D : mu[v] <= k}
             Def(f, v) == f[v] = IF v \in G THEN step[v][f[from[v]]] ELSE base[v]
             P == {k \in 0 .. n : \E f \in [Upto(k) -> S] : \A v \in Upto(k) : Def(f, v)}
  <1>0. \A v \in D : mu[v] \in Nat /\ mu[v] <= n
    OBVIOUS
  <1>1. 0 \in P
    <2> DEFINE f == [v \in Upto(0) |-> base[v]]
    <2>1. f \in [Upto(0) -> S]
      OBVIOUS
    <2>2. ASSUME NEW v \in Upto(0) PROVE Def(f, v)
      <3>1. v \notin G
        BY <1>0
      <3> QED
        BY <3>1
    <2> HIDE DEF f, Upto, Def
    <2>3. 0 \in 0 .. n
      OBVIOUS
    <2> QED
      BY <2>1, <2>2, <2>3
  <1>2. ASSUME NEW i \in 1 .. n, i - 1 \in P PROVE i \in P
    <2>1. PICK f \in [Upto(i - 1) -> S] : \A v \in Upto(i - 1) : Def(f, v)
      <3> HIDE DEF Upto, Def
      <3> QED
        BY <1>2
    <2> DEFINE New(v) == IF v \in G THEN step[v][f[from[v]]] ELSE base[v]
               g == [v \in Upto(i) |-> IF mu[v] = i THEN New(v) ELSE f[v]]
    <2>2. ASSUME NEW v \in D, mu[v] <= i
          PROVE  /\ mu[v] # i => v \in Upto(i - 1)
                 /\ v \in G => from[v] \in Upto(i - 1) /\ from[v] \in Upto(i) /\ mu[from[v]] # i
      <3>1. mu[v] \in Nat
        BY <1>0
      <3>2. mu[v] # i => mu[v] <= i - 1
        BY <2>2, <3>1
      <3>3. v \in G => from[v] \in D /\ mu[from[v]] \in Nat /\ mu[from[v]] < mu[v]
        BY <1>0
      <3>4. v \in G => from[v] \in D /\ mu[from[v]] <= i - 1 /\ mu[from[v]] <= i /\ mu[from[v]] # i
        BY <2>2, <3>1, <3>3
      <3> QED
        BY <3>2, <3>4
    <2>3. g \in [Upto(i) -> S]
      <3> SUFFICES ASSUME NEW v \in Upto(i) PROVE (IF mu[v] = i THEN New(v) ELSE f[v]) \in S
        OBVIOUS
      <3>1. v \in D /\ mu[v] <= i
        OBVIOUS
      <3>2. CASE mu[v] # i
        <4>1. v \in Upto(i - 1)
          BY <2>2, <3>1, <3>2
        <4> HIDE DEF Upto
        <4> QED
          BY <3>2, <4>1
      <3>3. CASE v \in G
        <4>1. from[v] \in Upto(i - 1)
          BY <2>2, <3>1, <3>3
        <4>2. f[from[v]] \in S
          <5> HIDE DEF Upto
          <5> QED
            BY <4>1
        <4>3. step[v][f[from[v]]] \in S
          BY <3>3, <4>2
        <4> QED
          BY <3>2, <3>3, <4>3
      <3>4. CASE v \notin G /\ mu[v] = i
        BY <3>1, <3>4
      <3> QED
        BY <3>2, <3>3, <3>4
    <2>4. ASSUME NEW v \in Upto(i) PROVE Def(g, v)
      <3>1. v \in D /\ mu[v] <= i
        OBVIOUS
      <3>2. v \in G => g[from[v]] = f[from[v]]
        BY <2>2, <3>1
      <3>3. g[v] = IF mu[v] = i THEN New(v) ELSE f[v]
        OBVIOUS
      <3>4. mu[v] # i => Def(f, v)
        BY <2>1, <2>2, <3>1
      <3> HIDE DEF g
      <3> QED
        BY <3>2, <3>3, <3>4
    <2> HIDE DEF g, Upto, Def
    <2>5. i \in 0 .. n
      OBVIOUS
    <2> QED
      BY <2>3, <2>4, <2>5
  <1> HIDE DEF P
  <1>3. \A k \in 0 .. n : k \in P
    BY <1>1, <1>2, Upward
  <1>4. n \in P
    BY <1>3
  <1>5. PICK f \in [Upto(n) -> S] : \A v \in Upto(n) : Def(f, v)
    <2> HIDE DEF Upto, Def
    <2> QED
      BY <1>4 DEF P
  <1>6. Upto(n) = D
    BY <1>0
  <1>7. f \in [D -> S] /\ \A v \in D : Def(f, v)
    <2> HIDE DEF Upto, Def
    <2> QED
      BY <1>5, <1>6
  <1>8. Recurses(f, D, G, from, S, base, step)
    BY <1>7 DEF Recurses
  <1> QED
    BY <1>8

-----------------------------------------------------------------------------
(* The difficulty test.                                                    *)

LEMMA QuotientNat ==
    ASSUME NEW x \in Nat, NEW y \in Nat, NEW z \in Nat, NEW b \in Nat \ {0}
    PROVE  (x * y + z) \div b \in Nat
  <1>1. PICK w \in Nat : w = x * y + z
    OBVIOUS
  <1>2. w \div b \in Nat
    OBVIOUS
  <1> QED
    BY <1>1, <1>2

LEMMA CarriesDefined ==
    ASSUME NEW p \in Hashes, NEW d \in Nat
    PROVE  LET c == carries(p, d)
           IN  /\ c \in [0 .. Limbs -> Nat] /\ c[0] = 0
               /\ \A i \in 1 .. Limbs : c[i] = (p[i] * d + c[i - 1]) \div LimbBase
  <1> DEFINE step == [i \in 1 .. Limbs |-> [c \in Nat |-> (p[i] * d + c) \div LimbBase]]
  <1>1. Limbs \in Nat /\ LimbBase \in Nat \ {0} /\ \A i \in 1 .. Limbs : p[i] \in Nat
    BY RecordAssumption DEF Hashes
  <1>2. step \in [1 .. Limbs -> [Nat -> Nat]]
    <2>1. ASSUME NEW i \in 1 .. Limbs, NEW c \in Nat PROVE (p[i] * d + c) \div LimbBase \in Nat
      BY <1>1, QuotientNat
    <2> QED
      BY <2>1
  <1>3. PICK f \in [0 .. Limbs -> Nat] : f[0] = 0 /\ \A j \in 1 .. Limbs : f[j] = step[j][f[j - 1]]
    <2> HIDE DEF step
    <2>1. 0 \in Nat
      OBVIOUS
    <2>2. \E f : Iterates(f, Limbs, Nat, 0, step)
      BY <1>1, <1>2, <2>1, Iterated, Zenon
    <2> QED
      BY <2>2 DEF Iterates
  <1>4. \A j \in 1 .. Limbs : f[j] = (p[j] * d + f[j - 1]) \div LimbBase
    <2> SUFFICES ASSUME NEW j \in 1 .. Limbs PROVE f[j] = (p[j] * d + f[j - 1]) \div LimbBase
      OBVIOUS
    <2>1. f[j - 1] \in Nat
      BY <1>1
    <2> QED
      BY <1>3, <2>1
  <1>5. f = [i \in 0 .. Limbs |-> IF i = 0 THEN 0 ELSE (p[i] * d + f[i - 1]) \div LimbBase]
    BY <1>1, <1>3, <1>4
  <1> DEFINE c == carries(p, d)
  <1>6. c = [i \in 0 .. Limbs |-> IF i = 0 THEN 0 ELSE (p[i] * d + c[i - 1]) \div LimbBase]
    BY <1>5, Zenon DEF carries
  <1> HIDE DEF c
  <1>7. c[0] = 0 /\ \A i \in 1 .. Limbs : c[i] = (p[i] * d + c[i - 1]) \div LimbBase
    BY <1>1, <1>6
  <1>8. \A i \in 0 .. Limbs : c[i] \in Nat
    <2> DEFINE P == {i \in 0 .. Limbs : c[i] \in Nat}
    <2>1. 0 \in P
      BY <1>1, <1>7
    <2>2. ASSUME NEW i \in 1 .. Limbs, i - 1 \in P PROVE i \in P
      <3>1. c[i - 1] \in Nat /\ i \in 0 .. Limbs
        BY <1>1, <2>2
      <3>2. (p[i] * d + c[i - 1]) \div LimbBase \in Nat
        BY <1>1, <3>1, QuotientNat
      <3>3. c[i] \in Nat
        BY <1>7, <3>2
      <3> QED
        BY <3>1, <3>3
    <2> HIDE DEF P
    <2>3. \A i \in 0 .. Limbs : i \in P
      BY <1>1, <2>1, <2>2, Upward
    <2> QED
      BY <2>3 DEF P
  <1>9. c \in [0 .. Limbs -> Nat]
    BY <1>6, <1>8
  <1> QED
    BY <1>7, <1>9 DEF c

LEMMA PlaceDefined ==
    /\ Place \in [0 .. Limbs -> Nat] /\ Place[0] = 1
    /\ \A i \in 1 .. Limbs : Place[i] = LimbBase * Place[i - 1]
    /\ \A i \in 0 .. Limbs : Place[i] > 0
  <1> DEFINE step == [i \in 1 .. Limbs |-> [w \in Nat |-> LimbBase * w]]
  <1>1. Limbs \in Nat /\ LimbBase \in Nat \ {0}
    BY RecordAssumption
  <1>2. step \in [1 .. Limbs -> [Nat -> Nat]]
    BY <1>1
  <1>3. PICK f \in [0 .. Limbs -> Nat] : f[0] = 1 /\ \A j \in 1 .. Limbs : f[j] = step[j][f[j - 1]]
    <2> HIDE DEF step
    <2>1. 1 \in Nat
      OBVIOUS
    <2>2. \E f : Iterates(f, Limbs, Nat, 1, step)
      BY <1>1, <1>2, <2>1, Iterated, Zenon
    <2> QED
      BY <2>2 DEF Iterates
  <1>4. \A j \in 1 .. Limbs : f[j] = LimbBase * f[j - 1]
    <2> SUFFICES ASSUME NEW j \in 1 .. Limbs PROVE f[j] = LimbBase * f[j - 1]
      OBVIOUS
    <2>1. f[j - 1] \in Nat
      BY <1>1
    <2> QED
      BY <1>3, <2>1
  <1>5. f = [i \in 0 .. Limbs |-> IF i = 0 THEN 1 ELSE LimbBase * f[i - 1]]
    BY <1>1, <1>3, <1>4
  <1>6. Place = [i \in 0 .. Limbs |-> IF i = 0 THEN 1 ELSE LimbBase * Place[i - 1]]
    BY <1>5, Zenon DEF Place
  <1>7. Place[0] = 1 /\ \A i \in 1 .. Limbs : Place[i] = LimbBase * Place[i - 1]
    BY <1>1, <1>6
  <1>8. \A i \in 0 .. Limbs : Place[i] \in Nat \ {0}
    <2> DEFINE P == {i \in 0 .. Limbs : Place[i] \in Nat \ {0}}
    <2>1. 0 \in P
      BY <1>1, <1>7
    <2>2. ASSUME NEW i \in 1 .. Limbs, i - 1 \in P PROVE i \in P
      <3>1. Place[i - 1] \in Nat \ {0} /\ i \in 0 .. Limbs
        BY <1>1, <2>2
      <3>2. LimbBase * Place[i - 1] \in Nat \ {0}
        BY <1>1, <3>1
      <3> QED
        BY <1>7, <3>1, <3>2
    <2> HIDE DEF P
    <2>3. \A i \in 0 .. Limbs : i \in P
      BY <1>1, <2>1, <2>2, Upward
    <2> QED
      BY <2>3 DEF P
  <1>9. Place \in [0 .. Limbs -> Nat]
    BY <1>6, <1>8
  <1> QED
    BY <1>7, <1>8, <1>9

LEMMA ValueDefined ==
    ASSUME NEW p \in Hashes
    PROVE  LET v == Value(p)
           IN  /\ v \in [0 .. Limbs -> Nat] /\ v[0] = 0
               /\ \A i \in 1 .. Limbs : v[i] = v[i - 1] + p[i] * Place[i - 1]
  <1> DEFINE step == [i \in 1 .. Limbs |-> [w \in Nat |-> w + p[i] * Place[i - 1]]]
  <1>1. /\ Limbs \in Nat /\ \A i \in 1 .. Limbs : p[i] \in Nat
        /\ \A i \in 1 .. Limbs : Place[i - 1] \in Nat
    BY RecordAssumption, PlaceDefined DEF Hashes
  <1>a. ASSUME NEW i \in 1 .. Limbs, NEW w \in Nat PROVE w + p[i] * Place[i - 1] \in Nat
    BY <1>1
  <1>2. step \in [1 .. Limbs -> [Nat -> Nat]]
    BY <1>a
  <1>3. PICK f \in [0 .. Limbs -> Nat] : f[0] = 0 /\ \A j \in 1 .. Limbs : f[j] = step[j][f[j - 1]]
    <2> HIDE DEF step
    <2>1. 0 \in Nat
      OBVIOUS
    <2>2. \E f : Iterates(f, Limbs, Nat, 0, step)
      BY <1>1, <1>2, <2>1, Iterated, Zenon
    <2> QED
      BY <2>2 DEF Iterates
  <1>4. \A j \in 1 .. Limbs : f[j] = f[j - 1] + p[j] * Place[j - 1]
    <2> SUFFICES ASSUME NEW j \in 1 .. Limbs PROVE f[j] = f[j - 1] + p[j] * Place[j - 1]
      OBVIOUS
    <2>1. f[j - 1] \in Nat
      BY <1>1
    <2> QED
      BY <1>3, <2>1
  <1>5. f = [i \in 0 .. Limbs |-> IF i = 0 THEN 0 ELSE f[i - 1] + p[i] * Place[i - 1]]
    BY <1>1, <1>3, <1>4
  <1> DEFINE v == Value(p)
  <1>6. v = [i \in 0 .. Limbs |-> IF i = 0 THEN 0 ELSE v[i - 1] + p[i] * Place[i - 1]]
    BY <1>5, Zenon DEF Value
  <1> HIDE DEF v
  <1>7. v[0] = 0 /\ \A i \in 1 .. Limbs : v[i] = v[i - 1] + p[i] * Place[i - 1]
    BY <1>1, <1>6
  <1>8. \A i \in 0 .. Limbs : v[i] \in Nat
    <2> DEFINE P == {i \in 0 .. Limbs : v[i] \in Nat}
    <2>1. 0 \in P
      BY <1>1, <1>7
    <2>2. ASSUME NEW i \in 1 .. Limbs, i - 1 \in P PROVE i \in P
      <3>1. v[i - 1] \in Nat /\ i \in 0 .. Limbs
        BY <1>1, <2>2
      <3>2. v[i - 1] + p[i] * Place[i - 1] \in Nat
        BY <1>a, <3>1
      <3>3. v[i] \in Nat
        BY <1>7, <3>2
      <3> QED
        BY <3>1, <3>3
    <2> HIDE DEF P
    <2>3. \A i \in 0 .. Limbs : i \in P
      BY <1>1, <2>1, <2>2, Upward
    <2> QED
      BY <2>3 DEF P
  <1>9. v \in [0 .. Limbs -> Nat]
    BY <1>6, <1>8
  <1> QED
    BY <1>7, <1>9 DEF v

\* c counts the whole weights w in n.
Counts(c, w, n) == \E s \in Nat : s < w /\ n = c * w + s

\* One limb.
LEMMA CarryStep ==
    ASSUME NEW low \in Nat, NEW x \in Nat, NEW d \in Nat, NEW w \in Nat, NEW c \in Nat,
           NEW b \in Nat \ {0}, Counts(c, w, low * d)
    PROVE  Counts((x * d + c) \div b, b * w, (low + x * w) * d)
  <1>0. PICK r \in Nat : r < w /\ low * d = c * w + r
    BY DEF Counts
  <1>1. PICK t \in Nat : t = x * d + c
    OBVIOUS
  <1>2. PICK q \in Nat, m \in Nat : q = t \div b /\ m < b /\ t = q * b + m
    <2>1. t \div b \in Nat /\ t % b \in Nat
      OBVIOUS
    <2>2. t % b < b
      OBVIOUS
    <2>3. t = (t \div b) * b + (t % b)
      OBVIOUS
    <2> QED
      BY <2>1, <2>2, <2>3
  <1> DEFINE s == m * w + r
  <1>3. s \in Nat
    OBVIOUS
  <1>4. s < b * w
    <2>1. m + 1 <= b
      BY <1>2
    <2>2. (m + 1) * w <= b * w
      BY <2>1
    <2>3. (m + 1) * w = m * w + w
      OBVIOUS
    <2> QED
      BY <1>0, <2>2, <2>3
  <1>5. (low + x * w) * d = q * (b * w) + s
    <2>1. (low + x * w) * d = low * d + (x * d) * w
      OBVIOUS
    <2>2. t * w = (x * d) * w + c * w
      BY <1>1
    <2>3. t * w = q * (b * w) + m * w
      <3>1. (q * b + m) * w = q * (b * w) + m * w
        OBVIOUS
      <3> QED
        BY <1>2, <3>1
    <2> QED
      BY <1>0, <2>1, <2>2, <2>3
  <1> HIDE DEF s
  <1> QED
    BY <1>1, <1>2, <1>3, <1>4, <1>5 DEF Counts

\* The number that the first limbs are, times the difficulty, is the carry at
\* their weight and something below it.
LEMMA CarryExact ==
    ASSUME NEW p \in Hashes, NEW d \in Nat, NEW i \in 0 .. Limbs
    PROVE  Counts(carries(p, d)[i], Place[i], Value(p)[i] * d)
  <1> DEFINE c == carries(p, d)
             v == Value(p)
             P == {k \in 0 .. Limbs : Counts(c[k], Place[k], v[k] * d)}
  <1>1. /\ Limbs \in Nat /\ LimbBase \in Nat \ {0}
        /\ \A k \in 1 .. Limbs : p[k] \in Nat
    BY RecordAssumption DEF Hashes
  <1>2. /\ c \in [0 .. Limbs -> Nat] /\ c[0] = 0
        /\ \A k \in 1 .. Limbs : c[k] = (p[k] * d + c[k - 1]) \div LimbBase
    BY CarriesDefined
  <1>3. /\ v \in [0 .. Limbs -> Nat] /\ v[0] = 0
        /\ \A k \in 1 .. Limbs : v[k] = v[k - 1] + p[k] * Place[k - 1]
    BY ValueDefined
  <1> HIDE DEF c, v
  <1>4. 0 \in P
    <2>1. 0 \in 0 .. Limbs /\ 0 < Place[0] /\ v[0] * d = c[0] * Place[0] + 0
      BY <1>1, <1>2, <1>3, PlaceDefined
    <2>2. Counts(c[0], Place[0], v[0] * d)
      BY <2>1 DEF Counts
    <2> QED
      BY <2>1, <2>2
  <1>5. ASSUME NEW k \in 1 .. Limbs, k - 1 \in P PROVE k \in P
    <2>1. k - 1 \in 0 .. Limbs /\ k \in 0 .. Limbs
      BY <1>1
    <2>2. Counts(c[k - 1], Place[k - 1], v[k - 1] * d)
      BY <1>5
    <2>3. /\ v[k - 1] \in Nat /\ c[k - 1] \in Nat /\ Place[k - 1] \in Nat
          /\ Place[k] = LimbBase * Place[k - 1] /\ v[k] = v[k - 1] + p[k] * Place[k - 1]
          /\ c[k] = (p[k] * d + c[k - 1]) \div LimbBase
      BY <1>2, <1>3, <2>1, PlaceDefined
    <2> DEFINE low == v[k - 1]
               x == p[k]
               w == Place[k - 1]
               e == c[k - 1]
    <2>4. Counts((x * d + e) \div LimbBase, LimbBase * w, (low + x * w) * d)
      <3>1. /\ low \in Nat /\ x \in Nat /\ w \in Nat /\ e \in Nat
            /\ Counts(e, w, low * d)
        BY <1>1, <2>2, <2>3
      <3> HIDE DEF low, x, w, e
      <3> QED
        BY <1>1, <3>1, CarryStep
    <2>5. Counts(c[k], Place[k], v[k] * d)
      BY <2>3, <2>4
    <2> QED
      BY <2>1, <2>5
  <1> HIDE DEF P
  <1>6. \A k \in 0 .. Limbs : k \in P
    BY <1>1, <1>4, <1>5, Upward
  <1>7. i \in P
    BY <1>6
  <1> QED
    BY <1>7 DEF P, c, v

\* meets_difficulty multiplies the hash and the difficulty exactly.
LEMMA MeetsExactly ==
    ASSUME NEW p \in Hashes, NEW d \in Nat
    PROVE  meets_difficulty(p, d) <=> Value(p)[Limbs] * d < Place[Limbs]
  <1> DEFINE c == carries(p, d)[Limbs]
             w == Place[Limbs]
             n == Value(p)[Limbs] * d
  <1>1. Limbs \in 0 .. Limbs
    BY RecordAssumption
  <1>2. c \in Nat /\ w \in Nat
    BY <1>1, CarriesDefined, PlaceDefined
  <1>3. Counts(c, w, n)
    BY <1>1, CarryExact
  <1>4. meets_difficulty(p, d) <=> c = 0
    BY DEF meets_difficulty
  <1> HIDE DEF c, w, n
  <1>5. PICK s \in Nat : s < w /\ n = c * w + s
    BY <1>3 DEF Counts
  <1>6. c = 0 => c * w = 0
    BY <1>2
  <1>7. c # 0 => c * w >= w
    BY <1>2
  <1>8. c * w \in Nat
    BY <1>2
  <1>9. c = 0 <=> n < w
    BY <1>2, <1>5, <1>6, <1>7, <1>8
  <1> QED
    BY <1>4, <1>9 DEF w, n

\* No product leaves the double width.
LEMMA ProductFits ==
    ASSUME NEW p \in Hashes, NEW d \in 0 .. LimbBase - 1, NEW i \in 1 .. Limbs
    PROVE  p[i] * d + carries(p, d)[i - 1] < LimbBase * LimbBase
  <1> DEFINE c == carries(p, d)
             b == LimbBase
             P == {k \in 0 .. Limbs : c[k] < b}
  <1>1. /\ Limbs \in Nat /\ b \in Nat \ {0} /\ d \in Nat
        /\ \A k \in 1 .. Limbs : p[k] \in Nat /\ p[k] < b
    BY RecordAssumption DEF Hashes
  <1>2. /\ c \in [0 .. Limbs -> Nat] /\ c[0] = 0
        /\ \A k \in 1 .. Limbs : c[k] = (p[k] * d + c[k - 1]) \div b
    BY <1>1, CarriesDefined
  <1>3. d < b
    BY <1>1
  <1> HIDE DEF c, b
  <1>4. ASSUME NEW x \in Nat, NEW e \in Nat, x < b, e < b
        PROVE  x * d + e < b * b /\ (x * d + e) \div b < b
    <2>1. x * d <= (b - 1) * (b - 1)
      <3>1. x * d <= (b - 1) * d
        BY <1>1, <1>4
      <3>2. (b - 1) * d <= (b - 1) * (b - 1)
        BY <1>1, <1>3
      <3>3. x * d \in Int /\ (b - 1) * d \in Int /\ (b - 1) * (b - 1) \in Int
        BY <1>1
      <3> QED
        BY <3>1, <3>2, <3>3
    <2>2. (b - 1) * (b - 1) = b * b - 2 * b + 1
      BY <1>1
    <2>3. PICK t \in Nat : t = x * d + e
      BY <1>1
    <2>4. b * b \in Nat /\ x * d \in Nat
      BY <1>1
    <2>5. t < b * b
      BY <1>1, <1>4, <2>1, <2>2, <2>3, <2>4
    <2>6. t \div b < b
      <3>1. t \div b \in Nat /\ t % b \in Nat
        BY <1>1
      <3>2. t = (t \div b) * b + (t % b)
        BY <1>1
      <3>3. PICK q \in Nat : q = t \div b
        BY <3>1
      <3>4. q >= b => q * b >= b * b
        BY <1>1
      <3>5. q * b \in Nat
        BY <1>1
      <3> QED
        BY <1>1, <2>4, <2>5, <3>1, <3>2, <3>3, <3>4, <3>5
    <2> QED
      BY <2>3, <2>5, <2>6
  <1>5. 0 \in P
    BY <1>1, <1>2
  <1>6. ASSUME NEW k \in 1 .. Limbs, k - 1 \in P PROVE k \in P
    <2>1. c[k - 1] \in Nat /\ c[k - 1] < b /\ k \in 0 .. Limbs
      BY <1>1, <1>2, <1>6
    <2>2. c[k] < b
      BY <1>1, <1>2, <1>4, <2>1
    <2> QED
      BY <2>1, <2>2
  <1> HIDE DEF P
  <1>7. \A k \in 0 .. Limbs : k \in P
    BY <1>1, <1>5, <1>6, Upward
  <1>8. c[i - 1] < b /\ c[i - 1] \in Nat
    <2>1. i - 1 \in 0 .. Limbs
      BY <1>1
    <2> QED
      BY <1>2, <1>7, <2>1 DEF P
  <1>9. p[i] * d + c[i - 1] < b * b
    BY <1>1, <1>4, <1>8
  <1> QED
    BY <1>9 DEF c, b
-----------------------------------------------------------------------------
(* Varints and the levels of the tree.                                     *)

VarintBytes == {"byte"} \X Nat

LEMMA Shifted ==
    ASSUME NEW v \in Nat, NEW b \in Nat \ {0, 1}, v >= b
    PROVE  v \div b \in Nat /\ v \div b < v
  <1>1. v \div b \in Nat /\ v % b \in Nat /\ v = (v \div b) * b + (v % b)
    OBVIOUS
  <1>2. PICK q \in Nat : q = v \div b
    BY <1>1
  <1>3. q * b >= q * 2 /\ q * b \in Nat
    OBVIOUS
  <1> QED
    BY <1>1, <1>2, <1>3

VarintLast(v)    == <<<<"byte", v>>>>
VarintMore(v, s) == <<<<"byte", (v % VarintBase) + VarintBase>>>> \o s

\* What the loop of append_varint appends when value is v.
VarintLoop(rest, value) ==
    rest = [v \in 0 .. value |->
               IF v >= VarintBase THEN VarintMore(v, rest[v \div VarintBase]) ELSE VarintLast(v)]

LEMMA VarintLoops ==
    ASSUME NEW value \in Nat
    PROVE  \E rest : VarintLoop(rest, value) /\ append_varint(value) = rest[value]
  <1> DEFINE D == 0 .. value
             S == Seq(VarintBytes)
             G == {v \in D : v >= VarintBase}
             mu == [v \in D |-> v]
             from == [v \in G |-> v \div VarintBase]
             base == [v \in D |-> VarintLast(v)]
             step == [v \in G |-> [s \in S |-> VarintMore(v, s)]]
  <1>1. VarintBase \in Nat \ {0, 1}
    BY RecordAssumption
  <1>2. ASSUME NEW v \in G PROVE v \div VarintBase \in D /\ v \div VarintBase < v
    BY <1>1, Shifted
  <1>3. ASSUME NEW v \in D PROVE VarintLast(v) \in S
    BY DEF VarintBytes, VarintLast
  <1>4. ASSUME NEW v \in D, NEW s \in S PROVE VarintMore(v, s) \in S
    <2>1. (v % VarintBase) + VarintBase \in Nat
      BY <1>1
    <2>2. <<<<"byte", (v % VarintBase) + VarintBase>>>> \in S
      BY <2>1 DEF VarintBytes
    <2> QED
      BY <2>2, ConcatProperties DEF VarintMore
  <1> HIDE DEF S
  <1>5. /\ mu \in [D -> 0 .. value] /\ G \in SUBSET D /\ from \in [G -> D]
        /\ base \in [D -> S] /\ step \in [G -> [S -> S]]
        /\ \A v \in G : mu[from[v]] < mu[v]
    BY <1>2, <1>3, <1>4
  <1>6. PICK f : Recurses(f, D, G, from, S, base, step)
    <2> HIDE DEF D, G, mu, from, base, step
    <2> QED
      BY <1>5, Recursion
  <1>7. f = [v \in D |-> IF v >= VarintBase THEN VarintMore(v, f[v \div VarintBase]) ELSE VarintLast(v)]
    <2>1. f \in [D -> S]
      BY <1>6 DEF Recurses
    <2>2. ASSUME NEW v \in D
          PROVE  f[v] = IF v >= VarintBase THEN VarintMore(v, f[v \div VarintBase]) ELSE VarintLast(v)
      <3>1. f[v] = IF v \in G THEN step[v][f[from[v]]] ELSE base[v]
        BY <1>6 DEF Recurses
      <3>2. CASE v \in G
        <4>1. from[v] = v \div VarintBase /\ f[v \div VarintBase] \in S
          BY <1>2, <2>1, <3>2
        <4> QED
          BY <3>1, <3>2, <4>1
      <3>3. CASE v \notin G
        BY <3>1, <3>3
      <3> QED
        BY <3>2, <3>3
    <2> QED
      BY <2>1, <2>2
  <1> DEFINE rest == CHOOSE r : r = [v \in D |-> IF v >= VarintBase THEN VarintMore(v, r[v \div VarintBase])
                                                ELSE VarintLast(v)]
  <1>8. append_varint(value) = rest[value]
    BY DEF append_varint, VarintMore, VarintLast
  <1>9. rest = [v \in D |-> IF v >= VarintBase THEN VarintMore(v, rest[v \div VarintBase]) ELSE VarintLast(v)]
    BY <1>7, Zenon
  <1> HIDE DEF rest
  <1> QED
    BY <1>8, <1>9 DEF VarintLoop

LEMMA Strong ==
    ASSUME NEW P, \A v \in Nat : (\A w \in 0 .. v - 1 : w \in P) => v \in P
    PROVE  \A v \in Nat : v \in P
  <1> DEFINE Q == Nat \ P
  <1> SUFFICES ASSUME Q # {} PROVE FALSE
    OBVIOUS
  <1>1. Q \in SUBSET Nat
    OBVIOUS
  <1>2. PICK x \in Q : \A y \in Q : x <= y
    <2> HIDE DEF Q
    <2> QED
      BY <1>1, LeastNat
  <1>3. x \in Nat /\ x \notin P
    OBVIOUS
  <1>4. \A w \in 0 .. x - 1 : w \in P
    BY <1>2, <1>3
  <1> QED
    BY <1>3, <1>4

\* The loop does not remember the value it began with.
LEMMA VarintLoopValue ==
    \A v \in Nat : \A value \in Nat : \A rest :
        v <= value /\ VarintLoop(rest, value) => rest[v] = append_varint(v)
  <1> DEFINE Holds(v) == \A value \in Nat : \A rest :
                            v <= value /\ VarintLoop(rest, value) => rest[v] = append_varint(v)
             P == {v \in Nat : Holds(v)}
  <1>1. ASSUME NEW v \in Nat, \A w \in 0 .. v - 1 : w \in P PROVE v \in P
    <2> SUFFICES ASSUME NEW value \in Nat, NEW rest, v <= value, VarintLoop(rest, value)
                 PROVE  rest[v] = append_varint(v)
      OBVIOUS
    <2>1. PICK own : VarintLoop(own, v) /\ append_varint(v) = own[v]
      BY VarintLoops
    <2>2. v \in 0 .. value /\ v \in 0 .. v
      OBVIOUS
    <2>3. /\ rest[v] = IF v >= VarintBase THEN VarintMore(v, rest[v \div VarintBase]) ELSE VarintLast(v)
          /\ own[v] = IF v >= VarintBase THEN VarintMore(v, own[v \div VarintBase]) ELSE VarintLast(v)
      BY <2>1, <2>2 DEF VarintLoop
    <2>4. v >= VarintBase => rest[v \div VarintBase] = own[v \div VarintBase]
      <3> SUFFICES ASSUME v >= VarintBase PROVE rest[v \div VarintBase] = own[v \div VarintBase]
        OBVIOUS
      <3>1. PICK q \in Nat : q = v \div VarintBase /\ q < v
        BY Shifted, RecordAssumption
      <3>2. Holds(q) /\ q <= value /\ q <= v
        BY <1>1, <3>1
      <3>3. rest[q] = append_varint(q) /\ own[q] = append_varint(q)
        BY <2>1, <3>2
      <3> QED
        BY <3>1, <3>3
    <2> QED
      BY <2>1, <2>3, <2>4
  <1> HIDE DEF P
  <1>2. \A v \in Nat : v \in P
    BY <1>1, Strong
  <1> QED
    BY <1>2 DEF P

LEMMA VarintStep ==
    ASSUME NEW v \in Nat
    PROVE  append_varint(v) = IF v >= VarintBase THEN VarintMore(v, append_varint(v \div VarintBase))
                              ELSE VarintLast(v)
  <1>1. PICK rest : VarintLoop(rest, v) /\ append_varint(v) = rest[v]
    BY VarintLoops
  <1>2. rest[v] = IF v >= VarintBase THEN VarintMore(v, rest[v \div VarintBase]) ELSE VarintLast(v)
    BY <1>1 DEF VarintLoop
  <1>3. v >= VarintBase => rest[v \div VarintBase] = append_varint(v \div VarintBase)
    <2> SUFFICES ASSUME v >= VarintBase PROVE rest[v \div VarintBase] = append_varint(v \div VarintBase)
      OBVIOUS
    <2>1. PICK q \in Nat : q = v \div VarintBase /\ q < v
      BY Shifted, RecordAssumption
    <2>2. rest[q] = append_varint(q)
      BY <1>1, <2>1, VarintLoopValue
    <2> QED
      BY <2>1, <2>2
  <1> QED
    BY <1>1, <1>2, <1>3

LEMMA VarintSeq ==
    ASSUME NEW value \in Nat
    PROVE  append_varint(value) \in Seq(VarintBytes)
  <1> DEFINE S == Seq(VarintBytes)
             P == {v \in Nat : append_varint(v) \in S}
  <1>1. ASSUME NEW v \in Nat, \A w \in 0 .. v - 1 : w \in P PROVE v \in P
    <2>1. VarintBase \in Nat \ {0, 1}
      BY RecordAssumption
    <2>2. CASE v >= VarintBase
      <3>1. PICK q \in Nat : q = v \div VarintBase /\ q < v
        BY <2>1, <2>2, Shifted
      <3>2. append_varint(q) \in S
        BY <1>1, <3>1
      <3>3. (v % VarintBase) + VarintBase \in Nat
        BY <2>1
      <3>4. <<<<"byte", (v % VarintBase) + VarintBase>>>> \in S
        BY <3>3 DEF VarintBytes
      <3>5. VarintMore(v, append_varint(q)) \in S
        BY <3>2, <3>4, ConcatProperties DEF VarintMore
      <3>6. append_varint(v) \in S
        BY <2>2, <3>1, <3>5, VarintStep
      <3> QED
        BY <3>6
    <2>3. CASE ~(v >= VarintBase)
      <3>1. VarintLast(v) \in S
        BY DEF VarintBytes, VarintLast
      <3>2. append_varint(v) \in S
        BY <2>3, <3>1, VarintStep
      <3> QED
        BY <3>2
    <2> QED
      BY <2>2, <2>3
  <1> HIDE DEF P
  <1>2. \A v \in Nat : v \in P
    BY <1>1, Strong
  <1> QED
    BY <1>2 DEF P

\* Sequences and their concatenation, as names the provers do not expand.
Over(S)      == Seq(S)
Joined(s, t) == s \o t
Associates(s, t, u) == Joined(Joined(s, t), u) = Joined(s, Joined(t, u))

LEMMA JoinedOver ==
    ASSUME NEW S, NEW s \in Over(S), NEW t \in Over(S)
    PROVE  Joined(s, t) \in Over(S)
  BY ConcatProperties DEF Joined, Over

LEMMA JoinedAssociative ==
    ASSUME NEW S, NEW s \in Over(S), NEW t \in Over(S), NEW u \in Over(S)
    PROVE  Associates(s, t, u)
  BY ConcatAssociative DEF Joined, Over, Associates

LEMMA ConsOver ==
    ASSUME NEW S, NEW x \in S, NEW s \in Over(S)
    PROVE  <<x>> \in Over(S) /\ Cons(x, s) = Joined(<<x>>, s) /\ Cons(x, s) \in Over(S)
  <1>1. <<x>> \in Over(S)
    BY DEF Over
  <1>2. Cons(x, s) = Joined(<<x>>, s)
    BY DEF Cons, Joined
  <1> QED
    BY <1>1, <1>2, JoinedOver

LEMMA HeadAndRest ==
    ASSUME NEW S, NEW x \in S, NEW y \in S, NEW s \in Over(S), NEW t \in Over(S), Cons(x, s) = Cons(y, t)
    PROVE  x = y /\ s = t
  <1> USE DEF Over
  <1>1. <<x>> \in Seq(S) /\ <<y>> \in Seq(S) /\ Len(<<x>>) = 1 /\ Len(<<y>>) = 1
    OBVIOUS
  <1>2. Len(s) \in Nat /\ Len(t) \in Nat
    BY LenProperties
  <1>3. (<<x>> \o s)[1] = x /\ (<<y>> \o t)[1] = y
    <2>1. /\ \A i \in 1 .. Len(<<x>>) + Len(s) : (<<x>> \o s)[i] = IF i <= Len(<<x>>) THEN <<x>>[i] ELSE s[i - Len(<<x>>)]
          /\ \A i \in 1 .. Len(<<y>>) + Len(t) : (<<y>> \o t)[i] = IF i <= Len(<<y>>) THEN <<y>>[i] ELSE t[i - Len(<<y>>)]
      BY <1>1, ConcatProperties
    <2> QED
      BY <1>1, <1>2, <2>1
  <1>4. <<x>> \o s = <<y>> \o t
    BY DEF Cons
  <1>5. x = y
    BY <1>3, <1>4
  <1>6. <<x>> \o s = <<x>> \o t
    BY <1>4, <1>5
  <1>7. s = t
    BY <1>1, <1>6, ConcatSimplifications
  <1> QED
    BY <1>5, <1>7

LEMMA VarintOver ==
    ASSUME NEW S, VarintBytes \subseteq S, NEW v \in Nat
    PROVE  append_varint(v) \in Over(S)
  <1>1. PICK s \in Seq(VarintBytes) : s = append_varint(v)
    BY VarintSeq
  <1>2. s \in Seq(S)
    BY SeqMonotonic
  <1> QED
    BY <1>1, <1>2 DEF Over

\* The first byte of a varint, and what follows it.
HeadByte(v)    == <<"byte", IF v >= VarintBase THEN (v % VarintBase) + VarintBase ELSE v>>
AfterByte(v, x) == IF v >= VarintBase THEN Joined(append_varint(v \div VarintBase), x) ELSE x

LEMMA VarintHead ==
    ASSUME NEW S, VarintBytes \subseteq S, NEW v \in Nat, NEW x \in Over(S)
    PROVE  /\ HeadByte(v) \in S /\ AfterByte(v, x) \in Over(S)
           /\ Joined(append_varint(v), x) = Cons(HeadByte(v), AfterByte(v, x))
  <1> DEFINE h == HeadByte(v)
             n == IF v >= VarintBase THEN (v % VarintBase) + VarintBase ELSE v
  <1>1. VarintBase \in Nat \ {0, 1}
    BY RecordAssumption
  <1>2. n \in Nat
    BY <1>1
  <1>3. <<"byte", n>> \in S
    BY <1>2 DEF VarintBytes
  <1>4. h \in S
    BY <1>3 DEF HeadByte
  <1>5. h = <<"byte", n>>
    BY DEF HeadByte
  <1> HIDE DEF h
  <1>6. CASE v >= VarintBase
    <2> DEFINE u == append_varint(v \div VarintBase)
    <2>1. v \div VarintBase \in Nat
      BY <1>1, <1>6, Shifted
    <2>2. u \in Over(S)
      BY <2>1, VarintOver
    <2>3. append_varint(v) = Joined(<<h>>, u)
      <3>1. append_varint(v) = VarintMore(v, u)
        BY <1>6, VarintStep
      <3> QED
        BY <1>5, <1>6, <3>1 DEF VarintMore, Joined
    <2>4. AfterByte(v, x) = Joined(u, x)
      BY <1>6 DEF AfterByte
    <2> HIDE DEF u
    <2>5. Joined(u, x) \in Over(S)
      BY <2>2, JoinedOver
    <2>6. <<h>> \in Over(S) /\ Cons(h, Joined(u, x)) = Joined(<<h>>, Joined(u, x))
      BY <1>4, <2>5, ConsOver
    <2>7. Associates(<<h>>, u, x)
      BY <2>2, <2>6, JoinedAssociative
    <2> QED
      BY <1>4, <2>3, <2>4, <2>5, <2>6, <2>7 DEF h, Associates
  <1>7. CASE ~(v >= VarintBase)
    <2>1. append_varint(v) = VarintLast(v)
      BY <1>7, VarintStep
    <2>2. append_varint(v) = <<h>>
      BY <1>5, <1>7, <2>1 DEF VarintLast
    <2>3. AfterByte(v, x) = x
      BY <1>7 DEF AfterByte
    <2> QED
      BY <1>4, <2>2, <2>3 DEF h, Cons, Joined
  <1> QED
    BY <1>6, <1>7

LEMMA SameHead ==
    ASSUME NEW v \in Nat, NEW w \in Nat, HeadByte(v) = HeadByte(w)
    PROVE  /\ v >= VarintBase <=> w >= VarintBase
           /\ v >= VarintBase => v % VarintBase = w % VarintBase
           /\ ~(v >= VarintBase) => v = w
  <1>1. VarintBase \in Nat \ {0, 1}
    BY RecordAssumption
  <1>2. PICK m \in Nat : m = v % VarintBase /\ m < VarintBase
    BY <1>1
  <1>3. PICK n \in Nat : n = w % VarintBase /\ n < VarintBase
    BY <1>1
  <1>4. (IF v >= VarintBase THEN m + VarintBase ELSE v) = IF w >= VarintBase THEN n + VarintBase ELSE w
    BY <1>2, <1>3 DEF HeadByte
  <1>5. (v >= VarintBase <=> w >= VarintBase) /\ (v >= VarintBase => m = n) /\ (~(v >= VarintBase) => v = w)
    BY <1>1, <1>2, <1>3, <1>4
  <1> QED
    BY <1>2, <1>3, <1>5

\* No varint is the beginning of another one.
LEMMA VarintPrefix ==
    ASSUME NEW S, VarintBytes \subseteq S, NEW a \in Nat, NEW b \in Nat, NEW s \in Over(S), NEW t \in Over(S),
           Joined(append_varint(a), s) = Joined(append_varint(b), t)
    PROVE  a = b /\ s = t
  <1> DEFINE Holds(v) == \A w \in Nat : \A x, y \in Over(S) :
                            Joined(append_varint(v), x) = Joined(append_varint(w), y) => v = w /\ x = y
             P == {v \in Nat : Holds(v)}
  <1>1. VarintBase \in Nat \ {0, 1}
    BY RecordAssumption
  <1>2. ASSUME NEW v \in Nat, \A w \in 0 .. v - 1 : w \in P PROVE v \in P
    <2> SUFFICES ASSUME NEW w \in Nat, NEW x \in Over(S), NEW y \in Over(S),
                        Joined(append_varint(v), x) = Joined(append_varint(w), y)
                 PROVE  v = w /\ x = y
      OBVIOUS
    <2>1. HeadByte(v) \in S /\ AfterByte(v, x) \in Over(S) /\ Joined(append_varint(v), x) = Cons(HeadByte(v), AfterByte(v, x))
      BY VarintHead
    <2>2. HeadByte(w) \in S /\ AfterByte(w, y) \in Over(S) /\ Joined(append_varint(w), y) = Cons(HeadByte(w), AfterByte(w, y))
      BY VarintHead
    <2>3. Cons(HeadByte(v), AfterByte(v, x)) = Cons(HeadByte(w), AfterByte(w, y))
      BY <2>1, <2>2
    <2>4. HeadByte(v) = HeadByte(w) /\ AfterByte(v, x) = AfterByte(w, y)
      BY <2>1, <2>2, <2>3, HeadAndRest
    <2>5. /\ v >= VarintBase <=> w >= VarintBase
          /\ v >= VarintBase => v % VarintBase = w % VarintBase
          /\ ~(v >= VarintBase) => v = w
      BY <2>4, SameHead
    <2>6. CASE v >= VarintBase
      <3>1. Joined(append_varint(v \div VarintBase), x) = Joined(append_varint(w \div VarintBase), y)
        BY <2>4, <2>5, <2>6 DEF AfterByte
      <3>2. PICK p \in Nat : p = v \div VarintBase /\ p < v
        BY <1>1, <2>6, Shifted
      <3>3. PICK q \in Nat : q = w \div VarintBase
        BY <1>1, <2>5, <2>6, Shifted
      <3>4. Holds(p)
        <4>1. p \in 0 .. v - 1
          BY <3>2
        <4>2. p \in P
          <5> HIDE DEF P
          <5> QED
            BY <1>2, <4>1
        <4> QED
          BY <4>2, Zenon
      <3>5. p = q /\ x = y
        <4>1. Joined(append_varint(p), x) = Joined(append_varint(q), y)
          BY <3>1, <3>2, <3>3, Zenon
        <4> QED
          BY <3>4, <4>1, Zenon
      <3>6. v = p * VarintBase + (v % VarintBase) /\ w = q * VarintBase + (w % VarintBase)
        BY <1>1, <3>2, <3>3
      <3> QED
        BY <2>5, <2>6, <3>5, <3>6
    <2>7. CASE ~(v >= VarintBase)
      BY <2>4, <2>5, <2>7 DEF AfterByte
    <2> QED
      BY <2>6, <2>7
  <1> HIDE DEF P
  <1>3. \A v \in Nat : v \in P
    BY <1>2, Strong
  <1>4. Holds(a)
    BY <1>3 DEF P
  <1> QED
    BY <1>4

-----------------------------------------------------------------------------
(* The tree of the transactions.                                           *)

Doubles(grown, count) == grown = [n \in 1 .. count |-> IF n * 2 < count THEN grown[n * 2] ELSE n]

LEMMA LevelGrown ==
    ASSUME NEW count \in Nat \ {0}
    PROVE  \E grown : /\ Doubles(grown, count) /\ LevelLen(count) = grown[1]
                      /\ \A n \in 1 .. count : /\ grown[n] \in n .. count /\ 2 * grown[n] >= count
                                               /\ n < count => grown[n] < count
  <1> DEFINE D == 1 .. count
             G == {n \in D : n * 2 < count}
             mu == [n \in D |-> count - n]
             from == [n \in G |-> n * 2]
             base == [n \in D |-> n]
             step == [n \in G |-> [s \in D |-> s]]
  <1>1. /\ mu \in [D -> 0 .. count] /\ G \in SUBSET D /\ from \in [G -> D]
        /\ base \in [D -> D] /\ step \in [G -> [D -> D]]
        /\ \A n \in G : mu[from[n]] < mu[n]
    OBVIOUS
  <1>2. PICK f : Recurses(f, D, G, from, D, base, step)
    <2> HIDE DEF D, G, mu, from, base, step
    <2> QED
      BY <1>1, Recursion
  <1>3. f = [n \in D |-> IF n * 2 < count THEN f[n * 2] ELSE n]
    <2>1. f \in [D -> D]
      BY <1>2 DEF Recurses
    <2>2. ASSUME NEW n \in D PROVE f[n] = IF n * 2 < count THEN f[n * 2] ELSE n
      <3>1. f[n] = IF n \in G THEN step[n][f[from[n]]] ELSE base[n]
        BY <1>2 DEF Recurses
      <3>2. CASE n \in G
        <4>1. from[n] = n * 2 /\ n * 2 \in D
          BY <3>2
        <4>2. f[n * 2] \in D
          BY <2>1, <4>1
        <4> QED
          BY <3>1, <3>2, <4>1, <4>2
      <3>3. CASE n \notin G
        BY <3>1, <3>3
      <3> QED
        BY <3>2, <3>3
    <2> QED
      BY <2>1, <2>2
  <1> DEFINE grown == CHOOSE g : g = [n \in D |-> IF n * 2 < count THEN g[n * 2] ELSE n]
  <1>4. LevelLen(count) = grown[1]
    BY DEF LevelLen
  <1>5. grown = [n \in D |-> IF n * 2 < count THEN grown[n * 2] ELSE n]
    BY <1>3, Zenon
  <1> HIDE DEF grown
  <1> DEFINE Good(n) == grown[n] \in n .. count /\ 2 * grown[n] >= count /\ (n < count => grown[n] < count)
             P == {k \in 0 .. count : \A n \in D : count - n <= k => Good(n)}
  <1>6. 0 \in P
    <2> SUFFICES ASSUME NEW n \in D, count - n <= 0 PROVE Good(n)
      OBVIOUS
    <2>1. n = count /\ ~(n * 2 < count)
      OBVIOUS
    <2>2. grown[n] = n
      BY <1>5, <2>1
    <2> QED
      BY <2>1, <2>2
  <1>7. ASSUME NEW k \in 1 .. count, k - 1 \in P PROVE k \in P
    <2> SUFFICES ASSUME NEW n \in D, count - n <= k PROVE Good(n)
      OBVIOUS
    <2>1. CASE n * 2 < count
      <3>1. n * 2 \in D /\ count - n * 2 <= k - 1
        BY <2>1
      <3>2. Good(n * 2)
        BY <1>7, <3>1
      <3>3. grown[n] = grown[n * 2]
        BY <1>5, <2>1
      <3>4. PICK g \in Nat : g = grown[n] /\ g >= n * 2 /\ g <= count /\ 2 * g >= count /\ g < count
        BY <2>1, <3>2, <3>3
      <3> QED
        BY <3>4
    <2>2. CASE ~(n * 2 < count)
      <3>1. grown[n] = n
        BY <1>5, <2>2
      <3> QED
        BY <2>2, <3>1
    <2> QED
      BY <2>1, <2>2
  <1>8. \A k \in 0 .. count : k \in P
    <2> HIDE DEF P
    <2> QED
      BY <1>6, <1>7, Upward
  <1>9. ASSUME NEW n \in D PROVE Good(n)
    <2>1. count \in 0 .. count /\ count - n <= count
      OBVIOUS
    <2>2. count \in P
      BY <1>8, <2>1
    <2> QED
      BY <2>1, <2>2
  <1> QED
    BY <1>4, <1>5, <1>9 DEF Doubles

\* The lengths level_len takes on its way up to the lowest level.
LEMMA LevelDoubles ==
    ASSUME NEW count \in Nat \ {0}
    PROVE  /\ LevelLen(count) \in 1 .. count /\ 2 * LevelLen(count) >= count
           /\ count >= 2 => LevelLen(count) < count
           /\ count >= 3 =>
                \E K \in SUBSET (1 .. LevelLen(count)) :
                   2 \in K /\ \A n \in K : n = LevelLen(count) \/ 2 * n \in K
  <1> DEFINE L == LevelLen(count)
  <1>1. PICK grown : /\ Doubles(grown, count) /\ L = grown[1]
                     /\ \A n \in 1 .. count : /\ grown[n] \in n .. count /\ 2 * grown[n] >= count
                                              /\ n < count => grown[n] < count
    BY LevelGrown
  <1> HIDE DEF L
  <1>2. L \in 1 .. count /\ 2 * L >= count /\ (count >= 2 => L < count)
    BY <1>1
  <1> DEFINE K == {n \in 1 .. L : grown[n] = L}
  <1>3. ASSUME count >= 3 PROVE 2 \in K
    <2>1. grown[1] = grown[2] /\ 2 \in 1 .. count
      BY <1>1, <1>3 DEF Doubles
    <2>2. grown[2] = L /\ 2 \in 1 .. L
      BY <1>1, <1>2, <2>1
    <2> QED
      BY <2>2
  <1>4. ASSUME NEW n \in K, n # L PROVE 2 * n \in K
    <2>1. n \in 1 .. count /\ n \in 1 .. L /\ grown[n] = L
      BY <1>2
    <2>2. grown[n] = IF n * 2 < count THEN grown[n * 2] ELSE n
      BY <1>1, <2>1 DEF Doubles
    <2>3. n * 2 < count /\ grown[n * 2] = L /\ n * 2 \in 1 .. count
      BY <1>4, <2>1, <2>2
    <2>4. n * 2 \in 1 .. L
      BY <1>1, <1>2, <2>3
    <2>5. n * 2 = 2 * n
      BY <2>1
    <2>6. n * 2 \in K
      BY <2>3, <2>4
    <2> QED
      BY <2>5, <2>6
  <1>5. K \in SUBSET (1 .. L)
    OBVIOUS
  <1> HIDE DEF K
  <1> QED
    BY <1>2, <1>3, <1>4, <1>5 DEF L

Shaped(u, m)       == u = [i \in 1 .. m |-> u[i]]
Paired(u, half, m) == [i \in 1 .. m |-> IF i <= half THEN hash_pair(u[2 * i - 1], u[2 * i]) ELSE u[i]]

\* Overwriting a level from its first place on pairs what was there: place d
\* is written after it was read.
LEMMA HalvedPairs ==
    ASSUME NEW half \in Nat, NEW m \in Nat, 2 * half <= m, NEW u, Shaped(u, m)
    PROVE  halved(u, half) = Paired(u, half, m)
  <1> DEFINE pair(i) == hash_pair(u[2 * i - 1], u[2 * i])
             D == 0 .. half
             A(d) == [i \in 1 .. m |-> IF i <= d THEN pair(i) ELSE u[i]]
             next(done, d) == [done EXCEPT ![d] = hash_pair(done[2 * d - 1], done[2 * d])]
             G(f) == [d \in D |-> IF d = 0 THEN u ELSE next(f[d - 1], d)]
             steps == CHOOSE f : f = G(f)
             f0 == [d \in D |-> A(d)]
  <1>1. A(0) = u
    BY DEF Shaped
  <1>2. ASSUME NEW d \in 1 .. half PROVE next(A(d - 1), d) = A(d)
    <2>1. d - 1 \in D /\ d \in 1 .. m /\ 2 * d - 1 \in 1 .. m /\ 2 * d \in 1 .. m
      OBVIOUS
    <2>2. ~(2 * d - 1 <= d - 1) /\ ~(2 * d <= d - 1)
      OBVIOUS
    <2>3. A(d - 1)[2 * d - 1] = u[2 * d - 1] /\ A(d - 1)[2 * d] = u[2 * d]
      BY <2>1, <2>2
    <2>4. next(A(d - 1), d) = [i \in 1 .. m |-> IF i = d THEN pair(d) ELSE A(d - 1)[i]]
      BY <2>1, <2>3
    <2>5. ASSUME NEW i \in 1 .. m
          PROVE  (IF i = d THEN pair(d) ELSE A(d - 1)[i]) = (IF i <= d THEN pair(i) ELSE u[i])
      <3>1. A(d - 1)[i] = IF i <= d - 1 THEN pair(i) ELSE u[i]
        OBVIOUS
      <3> HIDE DEF pair, A
      <3> QED
        BY <3>1
    <2> HIDE DEF next, pair
    <2> QED
      BY <2>4, <2>5
  <1> HIDE DEF A, next
  <1>3. f0 = G(f0)
    <2> SUFFICES ASSUME NEW d \in D PROVE A(d) = IF d = 0 THEN u ELSE next(f0[d - 1], d)
      OBVIOUS
    <2>1. CASE d = 0
      BY <1>1, <2>1
    <2>2. CASE d # 0
      <3>1. d \in 1 .. half /\ d - 1 \in D
        BY <2>2
      <3> QED
        BY <1>2, <2>2, <3>1
    <2> QED
      BY <2>1, <2>2
  <1>4. steps = G(steps)
    <2> HIDE DEF f0, G
    <2> QED
      BY <1>3, Zenon
  <1>5. halved(u, half) = steps[half]
    BY DEF halved, next
  <1> HIDE DEF steps
  <1> DEFINE P == {d \in D : steps[d] = A(d)}
  <1>6. 0 \in P
    BY <1>1, <1>4
  <1>7. ASSUME NEW d \in 1 .. half, d - 1 \in P PROVE d \in P
    <2>1. d \in D /\ d # 0 /\ steps[d - 1] = A(d - 1)
      BY <1>7
    <2>2. steps[d] = next(steps[d - 1], d)
      BY <1>4, <2>1
    <2> QED
      BY <1>2, <2>1, <2>2
  <1> HIDE DEF P
  <1>8. \A d \in 0 .. half : d \in P
    BY <1>6, <1>7, Upward
  <1>9. steps[half] = A(half)
    BY <1>8 DEF P
  <1> QED
    BY <1>5, <1>9 DEF A, Paired

\* The arrays of tree_hash, by the number of hashes left.
Halves(upper, first, level) ==
    upper = [n \in 1 .. level |-> IF 2 * n > level THEN first ELSE halved(upper[2 * n], n)]

LEMMA HalvesExist ==
    ASSUME NEW level \in Nat, NEW first
    PROVE  \E upper : Halves(upper, first, level)
  <1> DEFINE D(k) == level - k + 1 .. level
             Next1(f, n) == IF 2 * n > level THEN first ELSE halved(f[2 * n], n)
             Def(f, k) == f = [n \in D(k) |-> Next1(f, n)]
             P == {k \in 0 .. level : \E f : Def(f, k)}
  <1>1. 0 \in P
    <2> DEFINE f == [n \in D(0) |-> first]
    <2>1. \A n \in D(0) : FALSE
      OBVIOUS
    <2>2. Def(f, 0)
      BY <2>1
    <2> QED
      BY <2>2
  <1>2. ASSUME NEW k \in 1 .. level, k - 1 \in P PROVE k \in P
    <2>1. PICK f : Def(f, k - 1)
      BY <1>2
    <2> DEFINE m == level - k + 1
               g == [n \in D(k) |-> IF n = m THEN Next1(f, n) ELSE f[n]]
    <2>2. ASSUME NEW n \in D(k) PROVE g[n] = Next1(g, n)
      <3>1. n \in Nat \ {0} /\ n >= m
        OBVIOUS
      <3>2. Next1(g, n) = Next1(f, n)
        <4>1. CASE 2 * n > level
          BY <4>1
        <4>2. CASE ~(2 * n > level)
          <5>1. 2 * n \in D(k) /\ 2 * n # m
            BY <3>1, <4>2
          <5>2. g[2 * n] = f[2 * n]
            BY <5>1
          <5> HIDE DEF g
          <5> QED
            BY <4>2, <5>2
        <4> QED
          BY <4>1, <4>2
      <3>3. CASE n = m
        <4> HIDE DEF Next1
        <4> QED
          BY <3>2, <3>3
      <3>4. CASE n # m
        <4>1. n \in D(k - 1)
          BY <3>1, <3>4
        <4>2. f[n] = Next1(f, n)
          <5> HIDE DEF Next1, D
          <5> QED
            BY <2>1, <4>1
        <4> HIDE DEF Next1
        <4> QED
          BY <3>2, <3>4, <4>2
      <3> QED
        BY <3>3, <3>4
    <2>3. Def(g, k)
      <3>1. g = [n \in D(k) |-> g[n]]
        OBVIOUS
      <3> HIDE DEF g, Next1, D
      <3> QED
        BY <2>2, <3>1
    <2> HIDE DEF g, Def
    <2> QED
      BY <2>3
  <1>3. level \in P
    <2> HIDE DEF P
    <2>1. \A k \in 0 .. level : k \in P
      BY <1>1, <1>2, Upward
    <2> QED
      BY <2>1
  <1>4. PICK f : Def(f, level)
    BY <1>3
  <1>5. D(level) = 1 .. level
    OBVIOUS
  <1> QED
    BY <1>4, <1>5 DEF Halves

LEMMA HalvesShaped ==
    ASSUME NEW level \in Nat, NEW first, Shaped(first, level), NEW upper, Halves(upper, first, level),
           NEW n \in 1 .. level
    PROVE  Shaped(upper[n], level)
  <1> DEFINE P == {k \in 0 .. level : \A m \in 1 .. level : level - m <= k => Shaped(upper[m], level)}
  <1>1. \A m \in 1 .. level : upper[m] = IF 2 * m > level THEN first ELSE halved(upper[2 * m], m)
    BY DEF Halves
  <1>2. 0 \in P
    <2> SUFFICES ASSUME NEW m \in 1 .. level, level - m <= 0 PROVE Shaped(upper[m], level)
      OBVIOUS
    <2>1. 2 * m > level
      OBVIOUS
    <2> QED
      BY <1>1, <2>1
  <1>3. ASSUME NEW k \in 1 .. level, k - 1 \in P PROVE k \in P
    <2> SUFFICES ASSUME NEW m \in 1 .. level, level - m <= k PROVE Shaped(upper[m], level)
      OBVIOUS
    <2>1. CASE 2 * m > level
      BY <1>1, <2>1
    <2>2. CASE ~(2 * m > level)
      <3>1. 2 * m \in 1 .. level /\ level - 2 * m <= k - 1 /\ m \in Nat /\ 2 * m <= level
        BY <2>2
      <3>2. Shaped(upper[2 * m], level)
        BY <1>3, <3>1
      <3>3. PICK u : u = upper[2 * m] /\ Shaped(u, level)
        BY <3>2
      <3>4. halved(u, m) = Paired(u, m, level)
        BY <3>1, <3>3, HalvedPairs
      <3>5. Shaped(halved(u, m), level)
        BY <3>4 DEF Shaped, Paired
      <3> QED
        BY <1>1, <2>2, <3>3, <3>5
    <2> QED
      BY <2>1, <2>2
  <1>4. level \in P
    <2> HIDE DEF P
    <2>1. \A k \in 0 .. level : k \in P
      BY <1>2, <1>3, Upward
    <2> QED
      BY <2>1
  <1> QED
    BY <1>4

\* Each array holds the pairs of the one below it.
LEMMA HalvesPairs ==
    ASSUME NEW level \in Nat, NEW first, Shaped(first, level), NEW upper, Halves(upper, first, level),
           NEW n \in 1 .. level, 2 * n <= level, NEW i \in 1 .. n
    PROVE  upper[n][i] = hash_pair(upper[2 * n][2 * i - 1], upper[2 * n][2 * i])
  <1>1. 2 * n \in 1 .. level /\ n \in Nat /\ ~(2 * n > level) /\ i \in 1 .. level /\ i <= n
    OBVIOUS
  <1>2. Shaped(upper[2 * n], level)
    BY <1>1, HalvesShaped
  <1>3. PICK u : u = upper[2 * n] /\ Shaped(u, level)
    BY <1>2
  <1>4. halved(u, n) = Paired(u, n, level)
    BY <1>1, <1>3, HalvedPairs
  <1>5. upper[n] = halved(u, n)
    BY <1>1, <1>3 DEF Halves
  <1> QED
    BY <1>1, <1>3, <1>4, <1>5 DEF Paired

LEMMA FirstLevelShaped ==
    ASSUME NEW hashes, NonEmpty(hashes)
    PROVE  Shaped(FirstLevel(hashes), LevelLen(Len(hashes)))
  BY DEF FirstLevel, Shaped

\* The lowest level keeps the hashes apart: no two of them share a place.
LEMMA FirstLevelBinds ==
    ASSUME NEW a, NEW b, NonEmpty(a), NonEmpty(b), Len(a) = Len(b),
           \A i \in 1 .. LevelLen(Len(a)) : FirstLevel(a)[i] = FirstLevel(b)[i]
    PROVE  a = b
  <1> DEFINE c == Len(a)
             L == LevelLen(c)
             direct == 2 * L - c
             At1(s, i) == IF i <= direct THEN s[i] ELSE hash_pair(s[2 * i - direct - 1], s[2 * i - direct])
  <1>1. c \in Nat \ {0} /\ a = [i \in 1 .. c |-> a[i]] /\ b = [i \in 1 .. c |-> b[i]]
    BY DEF NonEmpty
  <1>2. L \in 1 .. c /\ 2 * L >= c
    BY <1>1, LevelDoubles
  <1>3. ASSUME NEW i \in 1 .. L PROVE At1(a, i) = At1(b, i)
    <2>1. FirstLevel(a)[i] = At1(a, i) /\ FirstLevel(b)[i] = At1(b, i)
      BY DEF FirstLevel
    <2> QED
      BY <2>1
  <1> HIDE DEF c, L
  <1>4. L \in Nat /\ c \in Nat /\ direct \in 0 .. L
    BY <1>1, <1>2
  <1>5. PICK d \in 0 .. L : d = direct
    BY <1>4
  <1>6. ASSUME NEW j \in 1 .. c PROVE a[j] = b[j]
    <2>1. CASE j <= d
      <3>1. j \in 1 .. L
        BY <1>4, <2>1
      <3> QED
        BY <1>3, <1>5, <2>1, <3>1
    <2>2. CASE j > d
      <3>1. PICK m \in Nat \ {0} : j = d + 2 * m - 1 \/ j = d + 2 * m
        <4>1. PICK k \in Nat : k = j - d /\ k >= 1
          BY <1>4, <2>2
        <4>2. PICK h \in Nat : k = 2 * h \/ k = 2 * h + 1
          <5>1. k \div 2 \in Nat /\ (k % 2 = 0 \/ k % 2 = 1) /\ k = 2 * (k \div 2) + (k % 2)
            BY <4>1
          <5> QED
            BY <5>1
        <4>3. CASE k = 2 * h
          <5>1. h \in Nat \ {0} /\ j = d + 2 * h
            BY <1>4, <4>1, <4>3
          <5> QED
            BY <5>1
        <4>4. CASE k = 2 * h + 1
          <5>1. h + 1 \in Nat \ {0} /\ j = d + 2 * (h + 1) - 1
            BY <1>4, <4>1, <4>4
          <5> QED
            BY <5>1
        <4> QED
          BY <4>2, <4>3, <4>4
      <3>2. PICK i \in 1 .. L : i = d + m /\ ~(i <= d)
        BY <1>4, <1>5, <3>1
      <3>3. 2 * i - direct = d + 2 * m /\ 2 * i - direct - 1 = d + 2 * m - 1
        BY <1>4, <1>5, <3>1, <3>2
      <3>4. hash_pair(a[d + 2 * m - 1], a[d + 2 * m]) = hash_pair(b[d + 2 * m - 1], b[d + 2 * m])
        <4>1. At1(a, i) = At1(b, i)
          BY <1>3
        <4> HIDE DEF direct
        <4> QED
          BY <1>5, <3>2, <3>3, <4>1
      <3>5. a[d + 2 * m - 1] = b[d + 2 * m - 1] /\ a[d + 2 * m] = b[d + 2 * m]
        BY <3>4 DEF hash_pair
      <3> QED
        BY <3>1, <3>5
    <2> QED
      BY <1>4, <2>1, <2>2
  <1> QED
    BY <1>1, <1>6

\* tree_hash by the number of hashes.
LEMMA TreeCases ==
    ASSUME NEW hashes, NonEmpty(hashes)
    PROVE  /\ Len(hashes) = 1 => tree_hash(hashes) = hashes[1]
           /\ Len(hashes) = 2 => tree_hash(hashes) = hash_pair(hashes[1], hashes[2])
           /\ Len(hashes) >= 3 =>
                 \E upper : /\ Halves(upper, FirstLevel(hashes), LevelLen(Len(hashes)))
                            /\ tree_hash(hashes) = hash_pair(upper[2][1], upper[2][2])
  <1> DEFINE count == Len(hashes)
             level == LevelLen(count)
             first == FirstLevel(hashes)
             upper == CHOOSE f : f = [n \in 1 .. level |-> IF 2 * n > level THEN first ELSE halved(f[2 * n], n)]
  <1>1. count \in Nat \ {0} /\ level \in Nat
    BY LevelDoubles DEF NonEmpty
  <1>2. PICK f : Halves(f, first, level)
    <2> HIDE DEF level, first
    <2> QED
      BY <1>1, HalvesExist
  <1>3. f = [n \in 1 .. level |-> IF 2 * n > level THEN first ELSE halved(f[2 * n], n)]
    BY <1>2 DEF Halves
  <1>4. tree_hash(hashes) = CASE count = 1 -> hashes[1]
                              [] count = 2 -> hash_pair(hashes[1], hashes[2])
                              [] OTHER -> hash_pair(upper[2][1], upper[2][2])
    BY DEF tree_hash
  <1> HIDE DEF count, level, first
  <1>5. upper = [n \in 1 .. level |-> IF 2 * n > level THEN first ELSE halved(upper[2 * n], n)]
    BY <1>3, Zenon
  <1> HIDE DEF upper
  <1>6. Halves(upper, first, level)
    BY <1>5 DEF Halves
  <1>7. count = 1 => tree_hash(hashes) = hashes[1]
    BY <1>4
  <1>8. count = 2 => tree_hash(hashes) = hash_pair(hashes[1], hashes[2])
    BY <1>4
  <1>9. count >= 3 => tree_hash(hashes) = hash_pair(upper[2][1], upper[2][2])
    BY <1>1, <1>4
  <1> QED
    BY <1>6, <1>7, <1>8, <1>9 DEF count, level, first

\* The tree hash of a number of hashes holds each of them, in its place.
LEMMA TreeBinds ==
    ASSUME NEW a, NEW b, NonEmpty(a), NonEmpty(b), Len(a) = Len(b), tree_hash(a) = tree_hash(b)
    PROVE  a = b
  <1> DEFINE c == Len(a)
             L == LevelLen(c)
  <1>1. c \in Nat \ {0} /\ a = [i \in 1 .. c |-> a[i]] /\ b = [i \in 1 .. c |-> b[i]]
    BY DEF NonEmpty
  <1>2. CASE c = 1
    <2>1. tree_hash(a) = a[1] /\ tree_hash(b) = b[1]
      BY <1>2, TreeCases
    <2>2. \A i \in 1 .. c : a[i] = b[i]
      <3>1. a[1] = b[1]
        BY <2>1
      <3> HIDE DEF c
      <3> QED
        BY <1>2, <3>1
    <2> QED
      BY <1>1, <2>2
  <1>3. CASE c = 2
    <2>1. tree_hash(a) = hash_pair(a[1], a[2]) /\ tree_hash(b) = hash_pair(b[1], b[2])
      BY <1>3, TreeCases
    <2>2. hash_pair(a[1], a[2]) = hash_pair(b[1], b[2])
      BY <2>1
    <2>3. a[1] = b[1] /\ a[2] = b[2]
      BY <2>2 DEF hash_pair
    <2>4. \A i \in 1 .. c : a[i] = b[i]
      BY <1>3, <2>3
    <2> QED
      BY <1>1, <2>4
  <1>4. CASE c >= 3
    <2> DEFINE fa == FirstLevel(a)
               fb == FirstLevel(b)
    <2>1. PICK ua : Halves(ua, fa, L) /\ tree_hash(a) = hash_pair(ua[2][1], ua[2][2])
      BY <1>4, TreeCases
    <2>2. PICK ub : Halves(ub, fb, L) /\ tree_hash(b) = hash_pair(ub[2][1], ub[2][2])
      BY <1>4, TreeCases
    <2>3. Shaped(fa, L) /\ Shaped(fb, L)
      BY FirstLevelShaped
    <2>4. L \in Nat
      BY <1>1, LevelDoubles
    <2>5. PICK K \in SUBSET (1 .. L) : 2 \in K /\ \A n \in K : n = L \/ 2 * n \in K
      BY <1>1, <1>4, LevelDoubles
    <2> HIDE DEF c, L, fa, fb
    <2> DEFINE Agree(n) == \A i \in 1 .. n : ua[n][i] = ub[n][i]
               M == {L - n : n \in {k \in K : Agree(k)}}
    <2>6. Agree(2)
      <3>1. hash_pair(ua[2][1], ua[2][2]) = hash_pair(ub[2][1], ub[2][2])
        BY <2>1, <2>2
      <3>2. ua[2][1] = ub[2][1] /\ ua[2][2] = ub[2][2]
        BY <3>1 DEF hash_pair
      <3> QED
        BY <3>2
    <2>7. ASSUME NEW n \in K, Agree(n), n # L PROVE 2 * n \in K /\ Agree(2 * n)
      <3>1. 2 * n \in K /\ n \in 1 .. L /\ 2 * n \in 1 .. L /\ 2 * n <= L
        BY <2>4, <2>5, <2>7
      <3>2. ASSUME NEW i \in 1 .. n
            PROVE  ua[2 * n][2 * i - 1] = ub[2 * n][2 * i - 1] /\ ua[2 * n][2 * i] = ub[2 * n][2 * i]
        <4>1. ua[n][i] = hash_pair(ua[2 * n][2 * i - 1], ua[2 * n][2 * i])
          BY <2>1, <2>3, <2>4, <3>1, HalvesPairs
        <4>2. ub[n][i] = hash_pair(ub[2 * n][2 * i - 1], ub[2 * n][2 * i])
          BY <2>2, <2>3, <2>4, <3>1, HalvesPairs
        <4>3. ua[n][i] = ub[n][i]
          BY <2>7
        <4>4. hash_pair(ua[2 * n][2 * i - 1], ua[2 * n][2 * i]) = hash_pair(ub[2 * n][2 * i - 1], ub[2 * n][2 * i])
          BY <4>1, <4>2, <4>3
        <4> QED
          BY <4>4 DEF hash_pair
      <3>3. ASSUME NEW j \in 1 .. 2 * n PROVE ua[2 * n][j] = ub[2 * n][j]
        <4>1. j \in Nat /\ n \in Nat /\ j \div 2 \in Nat /\ (j % 2 = 0 \/ j % 2 = 1) /\ j = 2 * (j \div 2) + (j % 2)
          BY <2>4, <3>1
        <4>2. PICK h \in Nat : j = 2 * h \/ j = 2 * h + 1
          BY <4>1
        <4>3. CASE j = 2 * h
          <5>1. h \in 1 .. n
            BY <4>1, <4>3
          <5> QED
            BY <3>2, <4>3, <5>1
        <4>4. CASE j = 2 * h + 1
          <5>1. PICK i \in 1 .. n : j = 2 * i - 1
            <6>1. h + 1 \in 1 .. n /\ j = 2 * (h + 1) - 1
              BY <4>1, <4>4
            <6> QED
              BY <6>1
          <5> QED
            BY <3>2, <5>1
        <4> QED
          BY <4>2, <4>3, <4>4
      <3> QED
        BY <3>1, <3>3
    <2>8. M \in SUBSET Nat /\ L - 2 \in M
      BY <2>4, <2>5, <2>6
    <2>9. PICK x \in M : \A y \in M : x <= y
      <3> HIDE DEF M
      <3>1. M # {}
        BY <2>8
      <3> QED
        BY <2>8, <3>1, LeastNat
    <2>10. PICK n \in K : Agree(n) /\ x = L - n
      OBVIOUS
    <2>11. n = L
      <3> SUFFICES ASSUME n # L PROVE FALSE
        OBVIOUS
      <3>1. 2 * n \in K /\ Agree(2 * n)
        BY <2>7, <2>10
      <3>2. L - 2 * n \in M
        BY <3>1
      <3>3. x <= L - 2 * n /\ n \in 1 .. L
        BY <2>9, <3>2
      <3> QED
        BY <2>4, <2>10, <3>3
    <2>12. ua[L] = fa /\ ub[L] = fb
      <3>1. L \in 1 .. L /\ 2 * L > L
        BY <2>4, <2>5, <2>11
      <3> QED
        BY <2>1, <2>2, <3>1 DEF Halves
    <2>13. \A i \in 1 .. L : fa[i] = fb[i]
      BY <2>10, <2>11, <2>12
    <2> QED
      BY <2>13, FirstLevelBinds DEF fa, fb, L, c
  <1>5. c = 1 \/ c = 2 \/ c >= 3
    <2> HIDE DEF c
    <2> QED
      BY <1>1
  <1> QED
    BY <1>2, <1>3, <1>4, <1>5

-----------------------------------------------------------------------------
(* The shape of that tree.                                                 *)

\* The nodes on the way to a place, by the leaves they have room for.
Descends(at, tree, width, place) ==
    at = [w \in 1 .. width |-> IF 2 * w > width THEN tree ELSE at[2 * w][2 + ((place \div w) % 2)]]

\* There is such a way.
LEMMA DescentExists ==
    ASSUME NEW width \in Nat, NEW tree, NEW place
    PROVE  \E at : Descends(at, tree, width, place)
  <1> DEFINE D(k) == width - k + 1 .. width
             c(n) == 2 + ((place \div n) % 2)
             Next1(f, n) == IF 2 * n > width THEN tree ELSE f[2 * n][c(n)]
             Def(f, k) == f = [n \in D(k) |-> Next1(f, n)]
             P == {k \in 0 .. width : \E f : Def(f, k)}
  <1> HIDE DEF c
  <1>1. 0 \in P
    <2> DEFINE f == [n \in D(0) |-> tree]
    <2>1. \A n \in D(0) : FALSE
      OBVIOUS
    <2>2. Def(f, 0)
      BY <2>1
    <2> QED
      BY <2>2
  <1>2. ASSUME NEW k \in 1 .. width, k - 1 \in P PROVE k \in P
    <2>1. PICK f : Def(f, k - 1)
      BY <1>2
    <2> DEFINE m == width - k + 1
               g == [n \in D(k) |-> IF n = m THEN Next1(f, n) ELSE f[n]]
    <2>2. ASSUME NEW n \in D(k) PROVE g[n] = Next1(g, n)
      <3>1. n \in Nat \ {0} /\ n >= m
        OBVIOUS
      <3>2. Next1(g, n) = Next1(f, n)
        <4>1. CASE 2 * n > width
          BY <4>1
        <4>2. CASE ~(2 * n > width)
          <5>1. 2 * n \in D(k) /\ 2 * n # m
            BY <3>1, <4>2
          <5>2. g[2 * n] = f[2 * n]
            BY <5>1
          <5> HIDE DEF g
          <5> QED
            BY <4>2, <5>2
        <4> QED
          BY <4>1, <4>2
      <3>3. CASE n = m
        <4> HIDE DEF Next1
        <4> QED
          BY <3>2, <3>3
      <3>4. CASE n # m
        <4>1. n \in D(k - 1)
          BY <3>1, <3>4
        <4>2. f[n] = Next1(f, n)
          <5> HIDE DEF Next1, D
          <5> QED
            BY <2>1, <4>1
        <4> HIDE DEF Next1
        <4> QED
          BY <3>2, <3>4, <4>2
      <3> QED
        BY <3>3, <3>4
    <2>3. Def(g, k)
      <3>1. g = [n \in D(k) |-> g[n]]
        OBVIOUS
      <3> HIDE DEF g, Next1, D
      <3> QED
        BY <2>2, <3>1
    <2> HIDE DEF g, Def
    <2> QED
      BY <2>3
  <1>3. width \in P
    <2> HIDE DEF P
    <2>1. \A k \in 0 .. width : k \in P
      BY <1>1, <1>2, Upward
    <2> QED
      BY <2>1
  <1>4. PICK f : Def(f, width)
    BY <1>3
  <1>5. D(width) = 1 .. width
    OBVIOUS
  <1> QED
    BY <1>4, <1>5 DEF Descends, c

\* NodeAt is its end.
LEMMA NodeDescends ==
    ASSUME NEW width \in Nat, NEW tree, NEW place
    PROVE  \E at : Descends(at, tree, width, place) /\ NodeAt(tree, width, place) = at[1]
  <1> DEFINE at == CHOOSE f : f = [w \in 1 .. width |->
                                     IF 2 * w > width THEN tree ELSE f[2 * w][2 + ((place \div w) % 2)]]
  <1>1. PICK f : f = [w \in 1 .. width |-> IF 2 * w > width THEN tree ELSE f[2 * w][2 + ((place \div w) % 2)]]
    <2>1. \E f : Descends(f, tree, width, place)
      BY DescentExists
    <2> QED
      BY <2>1, Zenon DEF Descends
  <1>2. NodeAt(tree, width, place) = at[1]
    BY DEF NodeAt
  <1>3. at = [w \in 1 .. width |-> IF 2 * w > width THEN tree ELSE at[2 * w][2 + ((place \div w) % 2)]]
    BY <1>1, Zenon
  <1> HIDE DEF at
  <1> QED
    BY <1>2, <1>3, Zenon DEF Descends

\* Halving a quotient is dividing by twice as much.
LEMMA HalfQuotient ==
    ASSUME NEW q \in Nat, NEW z \in Nat \ {0}
    PROVE  /\ q \div z \in Nat /\ q \div (2 * z) \in Nat /\ (q \div z) % 2 \in 0 .. 1
           /\ q \div z = 2 * (q \div (2 * z)) + ((q \div z) % 2)
  <1>1. PICK a \in Nat, r \in 0 .. z - 1 : a = q \div z /\ q = (z * a) + r
    BY Division
  <1>2. PICK h \in Nat, b \in 0 .. 1 : h = a \div 2 /\ b = a % 2 /\ a = (2 * h) + b
    OBVIOUS
  <1>3. PICK s \in 0 .. 2 * z - 1 : s = (z * b) + r
    <2>1. b = 0 \/ b = 1
      OBVIOUS
    <2> QED
      BY <2>1
  <1>4. q = ((2 * z) * h) + s
    <2>1. z * a = (2 * z) * h + z * b
      BY <1>2
    <2> QED
      BY <1>1, <1>3, <2>1
  <1>5. 2 * z \in Nat \ {0} /\ h \in Int
    OBVIOUS
  <1>6. q \div (2 * z) = h
    BY <1>4, <1>5, DivisionUnique
  <1> QED
    BY <1>1, <1>2, <1>6

\* The length of the lowest level, from which the lengths above are halves.
LEMMA PowerDoubles ==
    ASSUME NEW n \in Nat \ {0}, PowerOf2(n)
    PROVE  PowerOf2(2 * n)
  <1> SUFFICES ASSUME NEW d \in 2 .. 2 * n, (2 * n) % d = 0, d % 2 # 0 PROVE FALSE
    BY DEF PowerOf2
  <1>1. PICK a \in Nat : d = 2 * a + 1 /\ d \in Nat \ {0}
    OBVIOUS
  <1>2. PICK e \in Nat : 2 * n = d * e
    <2>1. PICK m \in Nat : m = 2 * n
      OBVIOUS
    <2>2. m % d = 0
      BY <2>1
    <2>3. PICK e \in Nat : m = (d * e) + (m % d)
      BY <1>1, Division
    <2>4. d * e \in Nat
      BY <1>1
    <2> QED
      BY <2>1, <2>2, <2>3, <2>4
  <1>3. d * e = 2 * (a * e) + e /\ a * e \in Nat
    BY <1>1
  <1>4. PICK h \in Int : h = n - (a * e) /\ e = 2 * h
    BY <1>2, <1>3
  <1>5. h \in Nat
    BY <1>4
  <1>6. d * e = 2 * (d * h) /\ d * h \in Int
    BY <1>1, <1>4
  <1>7. n = (d * h) + 0
    BY <1>2, <1>6
  <1>8. n % d = 0
    <2>1. 0 \in 0 .. d - 1
      BY <1>1
    <2> QED
      BY <1>1, <1>4, <1>7, <2>1, DivisionUnique
  <1>9. h # 0
    BY <1>1, <1>7
  <1>10. d * h >= d
    BY <1>1, <1>5, <1>9, AtLeastFactor
  <1>11. d \in 2 .. n
    BY <1>7, <1>10
  <1> QED
    BY <1>8, <1>11 DEF PowerOf2

\* What holds of 2 and is kept by doubling holds of the lowest level.
LEMMA ReachesLevel ==
    ASSUME NEW L \in Nat, NEW K \in SUBSET (1 .. L), 2 \in K, \A n \in K : n = L \/ 2 * n \in K,
           NEW Q, 2 \in Q, \A n \in K \cap Q : n # L => 2 * n \in Q
    PROVE  L \in Q /\ L \in K
  <1> DEFINE M == {L - n : n \in K \cap Q}
  <1>1. M \in SUBSET Nat /\ L - 2 \in M
    OBVIOUS
  <1>2. PICK x \in M : \A y \in M : x <= y
    <2> HIDE DEF M
    <2>1. M # {}
      BY <1>1
    <2> QED
      BY <1>1, <2>1, LeastNat
  <1>3. PICK n \in K \cap Q : x = L - n
    OBVIOUS
  <1>4. n = L
    <2> SUFFICES ASSUME n # L PROVE FALSE
      OBVIOUS
    <2>1. 2 * n \in K \cap Q
      OBVIOUS
    <2>2. L - 2 * n \in M
      BY <2>1
    <2>3. x <= L - 2 * n /\ n \in 1 .. L
      BY <1>2, <2>2
    <2> QED
      BY <1>3, <2>3
  <1> QED
    BY <1>3, <1>4

\* A quotient is below what bounds the number.
LEMMA QuotientBelow ==
    ASSUME NEW q \in Nat, NEW d \in Nat \ {0}, NEW n \in Nat, q < d * n
    PROVE  q \div d < n
  <1>1. PICK a \in Nat, r \in 0 .. d - 1 : a = q \div d /\ q = (d * a) + r
    BY Division
  <1>2. SUFFICES ASSUME a >= n PROVE FALSE
    BY <1>1
  <1>3. PICK e \in Nat : a = n + e
    BY <1>2
  <1>4. d * a = d * n + d * e
    BY <1>3
  <1>5. PICK x \in Nat, y \in Nat, v \in Nat : x = d * n /\ y = d * e /\ v = d * a
    OBVIOUS
  <1>6. q < x /\ v = x + y /\ q = v + r
    BY <1>1, <1>4, <1>5
  <1> QED
    BY <1>6

\* The first n entries of u pair those of v.
PairsOf(u, v, n) == \A i \in 1 .. n : u[i] = hash_pair(v[2 * i - 1], v[2 * i])

\* One step of the way down: from the node of the array of length n to the one
\* of the array of twice that length.
LEMMA DescentStep ==
    ASSUME NEW at, NEW width \in Nat, NEW tree, NEW q \in Nat, Descends(at, tree, width, q),
           NEW n \in Nat \ {0}, NEW z \in Nat \ {0}, NEW y \in Nat, y = 2 * z, y <= width,
           q < y * n, NEW u, NEW v, PairsOf(u, v, n), at[y] = u[1 + (q \div y)]
    PROVE  at[z] = v[1 + (q \div z)]
  <1>1. PICK a \in Nat, h \in Nat, b \in 0 .. 1 :
            a = q \div z /\ h = q \div y /\ b = a % 2 /\ a = 2 * h + b
    <2>1. /\ q \div z \in Nat /\ q \div (2 * z) \in Nat /\ (q \div z) % 2 \in 0 .. 1
          /\ q \div z = 2 * (q \div (2 * z)) + ((q \div z) % 2)
      BY HalfQuotient
    <2>2. q \div (2 * z) = q \div y
      OBVIOUS
    <2> QED
      BY <2>1, <2>2
  <1>2. z \in 1 .. width /\ ~(2 * z > width)
    OBVIOUS
  <1>3. at[z] = at[y][2 + b]
    BY <1>1, <1>2 DEF Descends
  <1>4. h < n
    <2>1. y \in Nat \ {0} /\ n \in Nat
      OBVIOUS
    <2> QED
      BY <1>1, <2>1, QuotientBelow
  <1>5. PICK i \in 1 .. n : i = 1 + h
    BY <1>4
  <1>6. at[y] = hash_pair(v[2 * i - 1], v[2 * i])
    BY <1>1, <1>5 DEF PairsOf
  <1>7. CASE b = 0
    <2>1. at[z] = at[y][2]
      BY <1>3, <1>7
    <2>2. at[z] = v[2 * i - 1]
      BY <1>6, <2>1 DEF hash_pair
    <2>3. 2 * i - 1 = 1 + a
      <3>1. a = 2 * h + b /\ i = 1 + h /\ i \in Nat
        BY <1>1, <1>5
      <3> QED
        BY ONLY <1>7, <3>1, a \in Nat, h \in Nat
    <2> QED
      BY <1>1, <2>2, <2>3
  <1>8. CASE b = 1
    <2>1. at[z] = at[y][3]
      BY <1>3, <1>8
    <2>2. at[z] = v[2 * i]
      BY <1>6, <2>1 DEF hash_pair
    <2>3. 2 * i = 1 + a
      <3>1. a = 2 * h + b /\ i = 1 + h /\ i \in Nat
        BY <1>1, <1>5
      <3> QED
        BY ONLY <1>8, <3>1, a \in Nat, h \in Nat
    <2> QED
      BY <1>1, <2>2, <2>3
  <1> QED
    BY <1>7, <1>8

\* The way down the tree of the arrays: at the level that has room for as many
\* as the lowest array has, the node of a place is the entry of that place; c is
\* 2 where the way goes on by one more level.
LEMMA DescentReaches ==
    ASSUME NEW L \in Nat \ {0}, NEW first, Shaped(first, L), NEW upper, Halves(upper, first, L),
           NEW K \in SUBSET (1 .. L), 2 \in K, \A n \in K : n = L \/ 2 * n \in K,
           NEW c \in 1 .. 2, NEW q \in Nat, q < c * L,
           NEW tree, tree = hash_pair(upper[2][1], upper[2][2]),
           NEW width \in Nat, width = c * L, NEW at, Descends(at, tree, width, q)
    PROVE  at[c] = first[1 + (q \div c)]
  <1> DEFINE Claim(n) == \A w \in Nat : n * w = L => at[c * w] = upper[n][1 + (q \div (c * w))]
             Q == {n \in 1 .. L : Claim(n)}
  <1>1. c * L \in Nat
    OBVIOUS
  <1>2. 2 \in 1 .. L
    OBVIOUS
  <1>3. Claim(2)
    <2> SUFFICES ASSUME NEW w \in Nat, 2 * w = L PROVE at[c * w] = upper[2][1 + (q \div (c * w))]
      OBVIOUS
    <2>1. PICK z \in Nat \ {0} : z = c * w /\ 2 * z = c * L
      OBVIOUS
    <2>2. 2 * z \in 1 .. c * L /\ 2 * (2 * z) > c * L /\ 2 * z <= c * L /\ 1 \in 1 .. L
      BY <2>1
    <2>3. at[2 * z] = tree
      BY <2>2 DEF Descends
    <2>4. PICK u : u = [i \in 1 .. 1 |-> tree]
      OBVIOUS
    <2>5. \A i \in 1 .. 1 : u[i] = hash_pair(upper[2][2 * i - 1], upper[2][2 * i])
      BY <2>4
    <2>6. q < (2 * z) * 1 /\ 2 * z \in Nat \ {0}
      BY <2>1
    <2>7. q \div (2 * z) < 1 /\ q \div (2 * z) \in Nat
      BY <2>1, <2>6, QuotientBelow, HalfQuotient
    <2>8. at[2 * z] = u[1 + (q \div (2 * z))]
      BY <2>3, <2>4, <2>7
    <2>9. at[z] = upper[2][1 + (q \div z)]
      <3>2. PICK v : v = upper[2]
        OBVIOUS
      <3>3. PICK m \in 1 .. L : m = 1
        BY <2>2
      <3>4. PICK y \in Nat : y = 2 * z
        BY <1>1
      <3>5. q < y * m /\ y <= width /\ PairsOf(u, v, m) /\ m \in Nat \ {0}
        BY <2>2, <2>5, <2>6, <3>2, <3>3, <3>4 DEF PairsOf
      <3>6. at[y] = u[1 + (q \div y)]
        BY <2>8, <3>4
      <3>7. at[z] = v[1 + (q \div z)]
        BY <3>4, <3>5, <3>6, DescentStep
      <3> QED
        BY <3>2, <3>7
    <2> QED
      BY <2>1, <2>9
  <1>4. ASSUME NEW n \in K \cap Q, n # L PROVE 2 * n \in Q
    <2>1. n \in 1 .. L /\ Claim(n) /\ 2 * n \in 1 .. L /\ 2 * n <= L
      BY <1>4
    <2> SUFFICES ASSUME NEW w \in Nat, (2 * n) * w = L
                 PROVE  at[c * w] = upper[2 * n][1 + (q \div (c * w))]
      BY <2>1
    <2>2. w # 0
      BY <2>1
    <2>3. PICK z \in Nat \ {0} : z = c * w
      BY <2>2
    <2>4. n * (2 * w) = L /\ 2 * w \in Nat /\ c * (2 * w) = 2 * z
      BY <2>1, <2>3
    <2>5. c * L = (2 * z) * n
      BY <2>1, <2>3
    <2>6. 2 * z <= c * L
      <3>1. 2 * z \in Nat /\ n \in Nat /\ n >= 1
        BY <2>1
      <3> QED
        BY <2>5, AtLeastFactor
    <2>7. at[c * (2 * w)] = upper[n][1 + (q \div (c * (2 * w)))]
      BY <2>1, <2>4
    <2>8. at[2 * z] = upper[n][1 + (q \div (2 * z))]
      BY <2>4, <2>7
    <2>9. \A i \in 1 .. n : upper[n][i] = hash_pair(upper[2 * n][2 * i - 1], upper[2 * n][2 * i])
      BY <2>1, HalvesPairs
    <2>10. q < (2 * z) * n
      BY <2>5
    <2>11. at[z] = upper[2 * n][1 + (q \div z)]
      <3>2. PICK v : v = upper[2 * n]
        OBVIOUS
      <3>3. PICK u : u = upper[n]
        OBVIOUS
      <3>4. PICK y \in Nat : y = 2 * z
        BY <1>1
      <3>5. PairsOf(u, v, n)
        BY <2>9, <3>2, <3>3 DEF PairsOf
      <3>6. at[y] = u[1 + (q \div y)]
        BY <2>8, <3>3, <3>4
      <3>7. q < y * n /\ y <= width /\ n \in Nat \ {0}
        BY <2>1, <2>6, <2>10, <3>4
      <3>8. at[z] = v[1 + (q \div z)]
        BY <3>4, <3>5, <3>6, <3>7, DescentStep
      <3> QED
        BY <3>2, <3>8
    <2> QED
      BY <2>3, <2>11
  <1>5. L \in Q
    <2>1. 2 \in Q
      BY <1>2, <1>3
    <2> HIDE DEF Q
    <2> QED
      BY <1>4, <2>1, ReachesLevel
  <1>6. at[c * 1] = upper[L][1 + (q \div (c * 1))]
    BY <1>5
  <1>7. upper[L] = first
    <2>1. L \in 1 .. L /\ 2 * L > L
      OBVIOUS
    <2> QED
      BY <2>1 DEF Halves
  <1>8. c * 1 = c
    OBVIOUS
  <1> QED
    BY <1>6, <1>7, <1>8

\* The lowest level of the tree, and the room the tree has.
LEMMA LevelPower ==
    ASSUME NEW L \in Nat, NEW K \in SUBSET (1 .. L), 2 \in K, \A n \in K : n = L \/ 2 * n \in K
    PROVE  PowerOf2(L) /\ PowerOf2(2 * L) /\ L \in Nat \ {0}
  <1> DEFINE Q == {n \in 1 .. L : PowerOf2(n)}
  <1>1. PowerOf2(2)
    <2>1. ASSUME NEW d \in 2 .. 2 PROVE d % 2 = 0
      OBVIOUS
    <2> QED
      BY <2>1 DEF PowerOf2
  <1>2. 2 \in Q
    BY <1>1
  <1>3. ASSUME NEW n \in K \cap Q, n # L PROVE 2 * n \in Q
    <2>1. n \in Nat \ {0} /\ PowerOf2(n) /\ 2 * n \in 1 .. L
      BY <1>3
    <2>2. PowerOf2(2 * n)
      BY <2>1, PowerDoubles
    <2> QED
      BY <2>1, <2>2
  <1>4. L \in Q
    <2> HIDE DEF Q
    <2> QED
      BY <1>2, <1>3, ReachesLevel
  <1>5. L \in Nat \ {0} /\ PowerOf2(L)
    BY <1>4
  <1>6. PowerOf2(2 * L)
    BY <1>5, PowerDoubles
  <1> QED
    BY <1>5, <1>6

\* The tree of one or two hashes.
LEMMA SmallTreeShaped ==
    ASSUME NEW hashes, NonEmpty(hashes), Len(hashes) \in 1 .. 2
    PROVE  /\ PowerOf2(Len(hashes))
           /\ \A i \in 1 .. Len(hashes) : hashes[i] = NodeAt(tree_hash(hashes), Len(hashes), i - 1)
  <1>1. PICK c \in 1 .. 2 : c = Len(hashes)
    OBVIOUS
  <1>2. PICK t : t = tree_hash(hashes)
    OBVIOUS
  <1>3. CASE c = 1
    <2>1. t = hashes[1]
      BY <1>1, <1>2, <1>3, TreeCases
    <2>2. PICK at : Descends(at, t, 1, 0) /\ NodeAt(t, 1, 0) = at[1]
      BY NodeDescends
    <2>3. at[1] = t
      BY <2>2 DEF Descends
    <2>4. PowerOf2(1)
      BY DEF PowerOf2
    <2>5. ASSUME NEW i \in 1 .. 1 PROVE hashes[i] = NodeAt(t, 1, i - 1)
      <3>1. i = 1 /\ i - 1 = 0
        OBVIOUS
      <3> QED
        BY <2>1, <2>2, <2>3, <3>1
    <2> QED
      BY <1>1, <1>2, <1>3, <2>4, <2>5
  <1>4. CASE c = 2
    <2>1. t = hash_pair(hashes[1], hashes[2])
      BY <1>1, <1>2, <1>4, TreeCases
    <2>2. PowerOf2(2)
      <3>1. ASSUME NEW d \in 2 .. 2 PROVE d % 2 = 0
        OBVIOUS
      <3> QED
        BY <3>1 DEF PowerOf2
    <2>3. ASSUME NEW i \in 1 .. 2 PROVE hashes[i] = NodeAt(t, 2, i - 1)
      <3>1. PICK p \in 0 .. 1 : p = i - 1
        OBVIOUS
      <3>2. PICK at : Descends(at, t, 2, p) /\ NodeAt(t, 2, p) = at[1]
        BY NodeDescends
      <3>3. at[2] = t
        BY <3>2 DEF Descends
      <3>4. at[1] = at[2][2 + ((p \div 1) % 2)]
        BY <3>2 DEF Descends
      <3>5. (p \div 1) % 2 = p
        OBVIOUS
      <3>6. at[1] = t[2 + p]
        BY <3>3, <3>4, <3>5
      <3>7. t[2 + p] = hashes[1 + p]
        <4>1. p = 0 \/ p = 1
          OBVIOUS
        <4>2. t[2] = hashes[1] /\ t[3] = hashes[2]
          BY <2>1 DEF hash_pair
        <4> QED
          BY <4>1, <4>2
      <3>8. 1 + p = i
        BY <3>1
      <3> QED
        BY <3>1, <3>2, <3>6, <3>7, <3>8
    <2> QED
      BY <1>1, <1>2, <1>4, <2>2, <2>3
  <1> QED
    BY <1>3, <1>4

\* The tree of three hashes or more: the first ones are at the level above the
\* lowest, the others in pairs below it.
LEMMA LargeTreeShaped ==
    ASSUME NEW hashes, NonEmpty(hashes), Len(hashes) >= 3
    PROVE  \E L \in Nat \ {0} :
              /\ L < Len(hashes) /\ 2 * L >= Len(hashes) /\ PowerOf2(2 * L)
              /\ \A i \in 1 .. Len(hashes) :
                    hashes[i] = IF i <= 2 * L - Len(hashes) THEN NodeAt(tree_hash(hashes), L, i - 1)
                                ELSE NodeAt(tree_hash(hashes), 2 * L, 2 * L - Len(hashes) + i - 1)
  <1> DEFINE count == Len(hashes)
             first == FirstLevel(hashes)
             tree == tree_hash(hashes)
  <1>1. count \in Nat \ {0} /\ count >= 3
    BY DEF NonEmpty
  <1>2. PICK L \in 1 .. count : L = LevelLen(count)
    BY <1>1, LevelDoubles
  <1>3. 2 * L >= count /\ L < count
    BY <1>1, <1>2, LevelDoubles
  <1>4. PICK K \in SUBSET (1 .. L) : 2 \in K /\ \A n \in K : n = L \/ 2 * n \in K
    BY <1>1, <1>2, LevelDoubles
  <1>5. PICK upper : Halves(upper, first, L) /\ tree = hash_pair(upper[2][1], upper[2][2])
    BY <1>2, TreeCases
  <1>6. Shaped(first, L)
    BY <1>2, FirstLevelShaped
  <1>7. ASSUME NEW j \in 1 .. L
        PROVE  first[j] = IF j <= 2 * L - count THEN hashes[j]
                          ELSE hash_pair(hashes[2 * j - (2 * L - count) - 1], hashes[2 * j - (2 * L - count)])
    BY <1>2 DEF FirstLevel
  <1> HIDE DEF count, first, tree
  <1>8. L \in Nat \ {0} /\ PowerOf2(2 * L)
    BY <1>4, LevelPower
  <1>9. PICK d \in 0 .. L : d = 2 * L - count
    <2>1. PICK m \in Nat : m = count
      BY <1>1
    <2>2. L \in Nat /\ 2 * L >= m /\ L < m
      BY <1>3, <1>8, <2>1
    <2>3. 2 * L - m \in 0 .. L
      BY <2>2
    <2> QED
      BY <2>1, <2>3
  <1>10. ASSUME NEW c \in 1 .. 2, NEW q \in Nat, q < c * L
         PROVE  \E at : /\ Descends(at, tree, c * L, q) /\ NodeAt(tree, c * L, q) = at[1]
                        /\ at[c] = first[1 + (q \div c)]
    <2>1. c * L \in Nat
      OBVIOUS
    <2>2. PICK at : Descends(at, tree, c * L, q) /\ NodeAt(tree, c * L, q) = at[1]
      BY <2>1, NodeDescends
    <2>3. PICK width \in Nat : width = c * L
      BY <2>1
    <2>4. Descends(at, tree, width, q)
      BY <2>2, <2>3
    <2>5. at[c] = first[1 + (q \div c)]
      BY <1>4, <1>5, <1>6, <1>8, <1>10, <2>3, <2>4, DescentReaches
    <2> QED
      BY <2>2, <2>5
  <1>11. ASSUME NEW i \in 1 .. count, i <= d PROVE hashes[i] = NodeAt(tree, L, i - 1)
    <2>1. PICK q \in Nat : q = i - 1 /\ q < L /\ 1 + q = i
      BY <1>11
    <2>2. 1 * L = L /\ q \div 1 = q /\ 1 \in 1 .. 2 /\ q < 1 * L
      BY <2>1
    <2>3. PICK at : NodeAt(tree, 1 * L, q) = at[1] /\ at[1] = first[1 + (q \div 1)]
      BY <1>10, <2>2
    <2>4. NodeAt(tree, L, q) = first[i]
      BY <2>1, <2>2, <2>3
    <2>5. first[i] = hashes[i]
      BY <1>7, <1>9, <1>11
    <2> QED
      BY <2>1, <2>4, <2>5
  <1>12. ASSUME NEW i \in 1 .. count, ~(i <= d) PROVE hashes[i] = NodeAt(tree, 2 * L, d + i - 1)
    <2>1. PICK q \in Nat : q = d + i - 1 /\ q < 2 * L
      BY <1>1, <1>9
    <2>2. PICK at : /\ Descends(at, tree, 2 * L, q) /\ NodeAt(tree, 2 * L, q) = at[1]
                    /\ at[2] = first[1 + (q \div 2)]
      <3>1. PICK c \in 1 .. 2 : c = 2
        OBVIOUS
      <3>2. q < c * L
        BY <2>1, <3>1
      <3>3. PICK at : /\ Descends(at, tree, c * L, q) /\ NodeAt(tree, c * L, q) = at[1]
                      /\ at[c] = first[1 + (q \div c)]
        BY <1>10, <3>2
      <3> QED
        BY <3>1, <3>3
    <2>3. PICK h \in Nat, b \in 0 .. 1 : h = q \div 2 /\ b = q % 2 /\ q = 2 * h + b
      OBVIOUS
    <2>4. PICK j \in 1 .. L : j = 1 + h /\ ~(j <= d)
      <3>1. L \in Nat /\ d \in Nat /\ i \in Nat /\ i >= d + 1
        BY <1>1, <1>8, <1>12
      <3>2. h >= d /\ h < L
        BY <2>1, <2>3, <3>1
      <3> QED
        BY <3>1, <3>2
    <2>5. PICK m \in Int : m = 2 * j - d /\ m - 1 + b = i
      BY <2>1, <2>3, <2>4
    <2>6. at[2] = hash_pair(hashes[m - 1], hashes[m])
      <3>1. first[j] = hash_pair(hashes[2 * j - (2 * L - count) - 1], hashes[2 * j - (2 * L - count)])
        BY <1>7, <1>9, <2>4
      <3>2. 2 * j - (2 * L - count) = m /\ 2 * j - (2 * L - count) - 1 = m - 1
        BY <1>1, <1>9, <2>5
      <3> QED
        BY <2>2, <2>3, <2>4, <3>1, <3>2
    <2>7. at[1] = at[2][2 + ((q \div 1) % 2)]
      <3>1. 1 \in 1 .. 2 * L /\ ~(2 * 1 > 2 * L) /\ 2 * 1 = 2
        BY <1>8
      <3> QED
        BY <2>2, <3>1 DEF Descends
    <2>8. (q \div 1) % 2 = b
      BY <2>3
    <2>9. at[1] = at[2][2 + b]
      BY <2>7, <2>8
    <2>10. at[2][2 + b] = hashes[m - 1 + b]
      <3>1. at[2][2] = hashes[m - 1] /\ at[2][3] = hashes[m]
        BY <2>6 DEF hash_pair
      <3>2. CASE b = 0
        <4>1. 2 + b = 2 /\ m - 1 + b = m - 1
          BY <3>2
        <4> QED
          BY <3>1, <4>1
      <3>3. CASE b = 1
        <4>1. 2 + b = 3 /\ m - 1 + b = m
          BY <3>3
        <4> QED
          BY <3>1, <4>1
      <3> QED
        BY <3>2, <3>3
    <2> QED
      BY <2>1, <2>2, <2>5, <2>9, <2>10
  <1>13. ASSUME NEW i \in 1 .. count
         PROVE  hashes[i] = IF i <= 2 * L - count THEN NodeAt(tree, L, i - 1)
                            ELSE NodeAt(tree, 2 * L, 2 * L - count + i - 1)
    <2>1. CASE i <= d
      BY <1>9, <1>11, <2>1
    <2>2. CASE ~(i <= d)
      BY <1>9, <1>12, <2>2
    <2> QED
      BY <2>1, <2>2
  <1> QED
    BY <1>3, <1>8, <1>13 DEF count, tree

\* The tree of any number of hashes has the shape CryptoNote fixes.
LEMMA TreeShaped ==
    ASSUME NEW hashes, NonEmpty(hashes)
    PROVE  \E width \in Len(hashes) .. 2 * Len(hashes) - 1 :
              /\ PowerOf2(width)
              /\ \A i \in 1 .. Len(hashes) :
                    hashes[i] = IF i <= width - Len(hashes)
                                THEN NodeAt(tree_hash(hashes), width \div 2, i - 1)
                                ELSE NodeAt(tree_hash(hashes), width, width - Len(hashes) + i - 1)
  <1>1. PICK count \in Nat \ {0} : count = Len(hashes)
    BY DEF NonEmpty
  <1>2. PICK t : t = tree_hash(hashes)
    OBVIOUS
  <1> DEFINE Fits(width) ==
               /\ width \in count .. 2 * count - 1 /\ PowerOf2(width)
               /\ \A i \in 1 .. count :
                     hashes[i] = IF i <= width - count THEN NodeAt(t, width \div 2, i - 1)
                                 ELSE NodeAt(t, width, width - count + i - 1)
  <1>3. CASE count \in 1 .. 2
    <2>1. PowerOf2(count) /\ \A i \in 1 .. count : hashes[i] = NodeAt(t, count, i - 1)
      BY <1>1, <1>2, <1>3, SmallTreeShaped
    <2>2. ASSUME NEW i \in 1 .. count
          PROVE  ~(i <= count - count) /\ count - count + i - 1 = i - 1
      OBVIOUS
    <2>3. count \in count .. 2 * count - 1
      OBVIOUS
    <2>4. Fits(count)
      BY <2>1, <2>2, <2>3
    <2> QED
      BY <1>1, <1>2, <2>4
  <1>4. CASE count >= 3
    <2>1. PICK L \in Nat \ {0} :
              /\ L < count /\ 2 * L >= count /\ PowerOf2(2 * L)
              /\ \A i \in 1 .. count :
                    hashes[i] = IF i <= 2 * L - count THEN NodeAt(t, L, i - 1)
                                ELSE NodeAt(t, 2 * L, 2 * L - count + i - 1)
      BY <1>1, <1>2, <1>4, LargeTreeShaped
    <2>2. (2 * L) \div 2 = L /\ 2 * L \in count .. 2 * count - 1
      BY <2>1
    <2>3. Fits(2 * L)
      BY <2>1, <2>2
    <2> QED
      BY <1>1, <1>2, <2>3
  <1> QED
    BY <1>3, <1>4

-----------------------------------------------------------------------------
(* The records.                                                            *)

LEMMA FieldAltered ==
    ASSUME NEW r, IsRecord(r), NEW f \in RecordFields, NEW e, Proper(f, e)
    PROVE  IsRecord([r EXCEPT ![f] = e])
  <1> DEFINE a == [r EXCEPT ![f] = e]
  <1>1. r = [g \in RecordFields |-> r[g]]
    BY DEF IsRecord
  <1>2. \A g \in RecordFields : a[g] = IF g = f THEN e ELSE r[g]
    BY <1>1
  <1>3. a = [g \in RecordFields |-> a[g]]
    BY <1>1
  <1>4. \A g \in RecordFields : Proper(g, a[g])
    BY <1>2 DEF IsRecord
  <1> QED
    BY <1>3, <1>4 DEF IsRecord

LEMMA IdentifiedIsRecord ==
    ASSUME NEW r, IsRecord(r)
    PROVE  IsRecord(Identified(r))
  <1> DEFINE e == blob_object_hash(hashing_blob(r))
  <1>1. "block_id" \in RecordFields /\ Proper("block_id", e)
    BY DEF RecordFields, Proper
  <1> HIDE DEF e
  <1>2. IsRecord([r EXCEPT !["block_id"] = e])
    BY <1>1, FieldAltered
  <1> QED
    BY <1>2 DEF Identified, e

LEMMA BlockIsRecord ==
    ASSUME NEW h \in Nat, NEW prev
    PROVE  /\ IsRecord(BlockAt(h, prev))
           /\ BlockAt(h, prev).txs = [i \in 1 .. h + 1 |-> <<"tx", h, i>>]
  <1> DEFINE txs == [i \in 1 .. h + 1 |-> <<"tx", h, i>>]
             r == [height |-> h, major |-> 1 + (h % 2), minor |-> h % 2, timestamp |-> h % Timestamps,
                   prev_hash |-> prev, nonce |-> h % 2, txs |-> txs, block_id |-> Genesis,
                   wide_difficulty |-> 0]
  <1>1. 1 + (h % 2) \in Nat /\ h % 2 \in Nat /\ h % Timestamps \in Nat /\ 0 \in 0 .. LimbBase - 1
    BY RecordAssumption
  <1>2. NonEmpty(txs)
    <2>1. txs \in Seq({"tx"} \X Nat \X Nat) /\ Len(txs) = h + 1
      OBVIOUS
    <2> HIDE DEF txs
    <2> QED
      BY <2>1, LenProperties DEF NonEmpty
  <1> HIDE DEF txs
  <1>3. r = [f \in RecordFields |-> r[f]]
    BY DEF RecordFields
  <1>4. \A f \in RecordFields : Proper(f, r[f])
    BY <1>1, <1>2 DEF RecordFields, Proper
  <1>5. IsRecord(r) /\ r.txs = txs
    BY <1>3, <1>4 DEF IsRecord
  <1> HIDE DEF r
  <1>6. IsRecord(Identified(r)) /\ Identified(r).txs = txs
    BY <1>5, IdentifiedIsRecord DEF Identified, IsRecord, RecordFields
  <1> QED
    BY <1>6 DEF BlockAt, r, txs

\* The blob of a record is a sequence, and has some hash.
LEMMA BlobSeq ==
    ASSUME NEW r, IsRecord(r)
    PROVE  Len(hashing_blob(r)) \in Nat /\ pow_hash(hashing_blob(r)) \in Hashes
  <1> DEFINE tail == <<r.prev_hash, <<"nonce", r.nonce>>, tree_hash(r.txs)>>
             T == {r.prev_hash, <<"nonce", r.nonce>>, tree_hash(r.txs)}
             S == VarintBytes \union T
             blob == hashing_blob(r)
  <1>1. /\ r["major"] \in Nat /\ r["minor"] \in Nat /\ r["timestamp"] \in Nat
        /\ Len(r["txs"]) \in Nat
    BY DEF IsRecord, RecordFields, Proper, NonEmpty
  <1>2. /\ append_varint(r.major) \in Seq(S) /\ append_varint(r.minor) \in Seq(S)
        /\ append_varint(r.timestamp) \in Seq(S) /\ append_varint(Len(r.txs)) \in Seq(S)
    <2> HIDE DEF T
    <2>1. VarintBytes \subseteq S
      OBVIOUS
    <2> HIDE DEF S
    <2>2. \A s \in Seq(VarintBytes) : s \in Seq(S)
      BY <2>1, SeqMonotonic
    <2> QED
      BY <1>1, <2>2, VarintSeq
  <1>3. tail \in Seq(S)
    OBVIOUS
  <1> HIDE DEF tail, S
  <1>4. blob \in Seq(S)
    <2>1. blob = append_varint(r.major) \o append_varint(r.minor) \o append_varint(r.timestamp)
                   \o tail \o append_varint(Len(r.txs))
      BY DEF hashing_blob, tail
    <2> HIDE DEF blob
    <2> QED
      BY <1>2, <1>3, <2>1, ConcatProperties
  <1> HIDE DEF blob
  <1>5. Len(blob) \in Nat
    BY <1>4, LenProperties
  <1>6. ASSUME NEW i \in 1 .. Limbs
        PROVE  (IF i = Limbs THEN Len(blob) % 2 ELSE (Len(blob) + i) % LimbBase) \in 0 .. LimbBase - 1
    <2>1. Len(blob) % 2 \in 0 .. 1
      BY <1>5
    <2>2. PICK t \in Nat : t = Len(blob) + i
      BY <1>5
    <2>3. t % LimbBase \in 0 .. LimbBase - 1
      BY RecordAssumption
    <2> QED
      BY <2>1, <2>2, <2>3, RecordAssumption
  <1>7. pow_hash(blob) \in Hashes
    BY <1>6 DEF pow_hash, Hashes
  <1> QED
    BY <1>5, <1>7 DEF blob

-----------------------------------------------------------------------------
(* What the ID of a record binds.                                         *)

LEMMA Triple ==
    ASSUME NEW S, NEW x \in S, NEW y \in S, NEW z \in S
    PROVE  <<x, y, z>> \in Seq(S) /\ <<x, y, z>> = <<x>> \o (<<y>> \o <<z>>)
  <1> DEFINE t == <<x, y, z>>
             v == <<y>> \o <<z>>
             u == <<x>> \o v
  <1>1. t \in Seq(S) /\ Len(t) = 3 /\ t[1] = x /\ t[2] = y /\ t[3] = z
    OBVIOUS
  <1>2. <<x>> \in Seq(S) /\ <<y>> \in Seq(S) /\ <<z>> \in Seq(S)
    OBVIOUS
  <1>3. Len(<<x>>) = 1 /\ Len(<<y>>) = 1 /\ Len(<<z>>) = 1 /\ <<x>>[1] = x /\ <<y>>[1] = y /\ <<z>>[1] = z
    OBVIOUS
  <1>4. v \in Seq(S) /\ Len(v) = 2 /\ v[1] = y /\ v[2] = z
    BY <1>2, <1>3, ConcatProperties
  <1> HIDE DEF v
  <1>5. u \in Seq(S) /\ Len(u) = 3 /\ u[1] = x /\ u[2] = y /\ u[3] = z
    <2>1. u \in Seq(S) /\ Len(u) = 3 /\ \A i \in 1 .. 3 : u[i] = IF i <= 1 THEN <<x>>[i] ELSE v[i - 1]
      <3>1. PICK s \in Seq(S) : s = <<x>> /\ Len(s) = 1
        BY <1>2, <1>3
      <3>2. s \o v \in Seq(S) /\ Len(s \o v) = 3
        BY <1>4, <3>1, ConcatProperties
      <3>3. \A i \in 1 .. Len(s) + Len(v) : (s \o v)[i] = IF i <= Len(s) THEN s[i] ELSE v[i - Len(s)]
        BY <1>4, ConcatProperties
      <3>4. \A i \in 1 .. 3 : (s \o v)[i] = IF i <= 1 THEN s[i] ELSE v[i - 1]
        BY <1>4, <3>1, <3>3
      <3> QED
        BY <3>1, <3>2, <3>4
    <2> HIDE DEF u
    <2> QED
      BY <1>3, <1>4, <2>1
  <1> HIDE DEF t, u
  <1>6. t = u
    <2>1. \A i \in 1 .. 3 : t[i] = u[i]
      BY <1>1, <1>5
    <2> QED
      BY <1>1, <1>5, <2>1, SeqEqual
  <1> QED
    BY <1>1, <1>6 DEF t, u, v

Nests(a, b, c, x, y, z, e) ==
    a \o b \o c \o <<x, y, z>> \o e = Joined(a, Joined(b, Joined(c, Cons(x, Cons(y, Cons(z, e))))))

LEMMA Nested ==
    ASSUME NEW S, NEW a \in Over(S), NEW b \in Over(S), NEW c \in Over(S), NEW e \in Over(S),
           NEW x \in S, NEW y \in S, NEW z \in S
    PROVE  Nests(a, b, c, x, y, z, e)
  <1>1. PICK p \in Over(S) : p = <<x>>
    BY ConsOver
  <1>2. PICK q \in Over(S) : q = <<y>>
    BY ConsOver
  <1>3. PICK r \in Over(S) : r = <<z>>
    BY ConsOver
  <1>4. PICK t \in Over(S) : t = <<x, y, z>>
    BY Triple DEF Over
  <1>5. t = Joined(p, Joined(q, r))
    <2>1. <<x, y, z>> = <<x>> \o (<<y>> \o <<z>>)
      BY Triple
    <2> QED
      BY <1>1, <1>2, <1>3, <1>4, <2>1, Zenon DEF Joined
  <1>6. Joined(t, e) = Joined(p, Joined(q, Joined(r, e)))
    <2>1. Joined(q, r) \in Over(S)
      BY JoinedOver
    <2>2. Associates(p, Joined(q, r), e)
      BY <2>1, JoinedAssociative
    <2>3. Associates(q, r, e)
      BY JoinedAssociative
    <2> QED
      BY <1>5, <2>2, <2>3, Zenon DEF Associates
  <1>7. Joined(t, e) = Cons(x, Cons(y, Cons(z, e)))
    BY <1>1, <1>2, <1>3, <1>6, Zenon DEF Joined, Cons
  <1>8. Joined(Joined(Joined(Joined(a, b), c), t), e) = Joined(a, Joined(b, Joined(c, Joined(t, e))))
    <2>1. Joined(a, b) \in Over(S) /\ Joined(t, e) \in Over(S)
      BY JoinedOver
    <2>2. Joined(Joined(a, b), c) \in Over(S) /\ Joined(c, Joined(t, e)) \in Over(S)
      BY <2>1, JoinedOver
    <2>3. Associates(Joined(Joined(a, b), c), t, e)
      BY <2>2, JoinedAssociative
    <2>4. Associates(Joined(a, b), c, Joined(t, e))
      BY <2>1, JoinedAssociative
    <2>5. Associates(a, b, Joined(c, Joined(t, e)))
      BY <2>2, JoinedAssociative
    <2> QED
      BY <2>3, <2>4, <2>5, Zenon DEF Associates
  <1>9. a \o b \o c \o <<x, y, z>> \o e = Joined(Joined(Joined(Joined(a, b), c), t), e)
    BY <1>4, Zenon DEF Joined
  <1> QED
    BY <1>7, <1>8, <1>9, Zenon DEF Nests

\* What the hashing blob of a record is made of, from its end to its start.
Parts(x)  == {x.prev_hash, <<"nonce", x.nonce>>, tree_hash(x.txs)}
Counted(x) == append_varint(Len(x.txs))
Rooted(x)  == Cons(tree_hash(x.txs), Counted(x))
Nonced(x)  == Cons(<<"nonce", x.nonce>>, Rooted(x))
Hashed(x)  == Cons(x.prev_hash, Nonced(x))
Timed(x)   == Joined(append_varint(x.timestamp), Hashed(x))
Minored(x) == Joined(append_varint(x.minor), Timed(x))

LEMMA BlobParts ==
    ASSUME NEW S, NEW x, IsRecord(x), VarintBytes \subseteq S, Parts(x) \subseteq S
    PROVE  /\ x.major \in Nat /\ x.minor \in Nat /\ x.timestamp \in Nat /\ Len(x.txs) \in Nat
           /\ hashing_blob(x) = Joined(append_varint(x.major), Minored(x))
           /\ hashing_blob(x) \in Over(S) /\ Minored(x) \in Over(S) /\ Timed(x) \in Over(S)
           /\ Hashed(x) \in Over(S) /\ Nonced(x) \in Over(S) /\ Rooted(x) \in Over(S) /\ Counted(x) \in Over(S)
  <1>1. x["major"] \in Nat /\ x["minor"] \in Nat /\ x["timestamp"] \in Nat /\ Len(x["txs"]) \in Nat
    BY DEF IsRecord, RecordFields, Proper, NonEmpty
  <1>2. PICK a \in Over(S) : a = append_varint(x.major)
    BY <1>1, VarintOver
  <1>3. PICK b \in Over(S) : b = append_varint(x.minor)
    BY <1>1, VarintOver
  <1>4. PICK c \in Over(S) : c = append_varint(x.timestamp)
    BY <1>1, VarintOver
  <1>5. PICK e \in Over(S) : e = append_varint(Len(x.txs))
    BY <1>1, VarintOver
  <1>6. PICK p \in S : p = x.prev_hash
    BY DEF Parts
  <1>7. PICK n \in S : n = <<"nonce", x.nonce>>
    BY DEF Parts
  <1>8. PICK t \in S : t = tree_hash(x.txs)
    BY DEF Parts
  <1>9. hashing_blob(x) = a \o b \o c \o <<p, n, t>> \o e
    BY <1>2, <1>3, <1>4, <1>5, <1>6, <1>7, <1>8 DEF hashing_blob
  <1>10. hashing_blob(x) = Joined(a, Joined(b, Joined(c, Cons(p, Cons(n, Cons(t, e))))))
    <2>1. Nests(a, b, c, p, n, t, e)
      BY Nested
    <2> QED
      BY <1>9, <2>1, Zenon DEF Nests
  <1>11. Counted(x) = e /\ Rooted(x) = Cons(t, e) /\ Nonced(x) = Cons(n, Cons(t, e))
         /\ Hashed(x) = Cons(p, Cons(n, Cons(t, e)))
    BY <1>5, <1>6, <1>7, <1>8, Zenon DEF Counted, Rooted, Nonced, Hashed
  <1>12. Timed(x) = Joined(c, Hashed(x)) /\ Minored(x) = Joined(b, Timed(x))
    BY <1>3, <1>4, Zenon DEF Timed, Minored
  <1>13. hashing_blob(x) = Joined(a, Minored(x))
    BY <1>10, <1>11, <1>12, Zenon
  <1>14. Counted(x) \in Over(S) /\ Rooted(x) \in Over(S) /\ Nonced(x) \in Over(S) /\ Hashed(x) \in Over(S)
    <2>1. Cons(t, e) \in Over(S)
      BY ConsOver
    <2>2. Cons(n, Cons(t, e)) \in Over(S)
      BY <2>1, ConsOver
    <2>3. Cons(p, Cons(n, Cons(t, e))) \in Over(S)
      BY <2>2, ConsOver
    <2> QED
      BY <1>11, <2>1, <2>2, <2>3
  <1>15. Timed(x) \in Over(S)
    BY <1>12, <1>14, JoinedOver
  <1>16. Minored(x) \in Over(S)
    BY <1>12, <1>15, JoinedOver
  <1>17. hashing_blob(x) \in Over(S)
    BY <1>13, <1>16, JoinedOver
  <1> QED
    BY <1>1, <1>2, <1>13, <1>14, <1>15, <1>16, <1>17

\* The hashing blob of a record is read back in only one way.
LEMMA BlobBinds ==
    ASSUME NEW q, NEW r, IsRecord(q), IsRecord(r), hashing_blob(q) = hashing_blob(r)
    PROVE  /\ q.major = r.major /\ q.minor = r.minor /\ q.timestamp = r.timestamp
           /\ q.prev_hash = r.prev_hash /\ q.nonce = r.nonce
           /\ tree_hash(q.txs) = tree_hash(r.txs) /\ Len(q.txs) = Len(r.txs)
  <1> DEFINE S == VarintBytes \union Parts(q) \union Parts(r)
  <1>1. VarintBytes \subseteq S /\ Parts(q) \subseteq S /\ Parts(r) \subseteq S
    OBVIOUS
  <1> HIDE DEF S
  <1>2. /\ q.major \in Nat /\ q.minor \in Nat /\ q.timestamp \in Nat /\ Len(q.txs) \in Nat
        /\ hashing_blob(q) = Joined(append_varint(q.major), Minored(q))
        /\ Minored(q) \in Over(S) /\ Timed(q) \in Over(S)
        /\ Hashed(q) \in Over(S) /\ Nonced(q) \in Over(S) /\ Rooted(q) \in Over(S) /\ Counted(q) \in Over(S)
    BY <1>1, BlobParts
  <1>3. /\ r.major \in Nat /\ r.minor \in Nat /\ r.timestamp \in Nat /\ Len(r.txs) \in Nat
        /\ hashing_blob(r) = Joined(append_varint(r.major), Minored(r))
        /\ Minored(r) \in Over(S) /\ Timed(r) \in Over(S)
        /\ Hashed(r) \in Over(S) /\ Nonced(r) \in Over(S) /\ Rooted(r) \in Over(S) /\ Counted(r) \in Over(S)
    BY <1>1, BlobParts
  <1>4. q.major = r.major /\ Minored(q) = Minored(r)
    <2>1. Joined(append_varint(q.major), Minored(q)) = Joined(append_varint(r.major), Minored(r))
      BY <1>2, <1>3
    <2> QED
      BY <1>1, <1>2, <1>3, <2>1, VarintPrefix
  <1>5. q.minor = r.minor /\ Timed(q) = Timed(r)
    <2>1. Joined(append_varint(q.minor), Timed(q)) = Joined(append_varint(r.minor), Timed(r))
      BY <1>4 DEF Minored
    <2> QED
      BY <1>1, <1>2, <1>3, <2>1, VarintPrefix
  <1>6. q.timestamp = r.timestamp /\ Hashed(q) = Hashed(r)
    <2>1. Joined(append_varint(q.timestamp), Hashed(q)) = Joined(append_varint(r.timestamp), Hashed(r))
      BY <1>5 DEF Timed
    <2> QED
      BY <1>1, <1>2, <1>3, <2>1, VarintPrefix
  <1>7. q.prev_hash = r.prev_hash /\ Nonced(q) = Nonced(r)
    <2>1. Cons(q.prev_hash, Nonced(q)) = Cons(r.prev_hash, Nonced(r))
      BY <1>6 DEF Hashed
    <2>2. q.prev_hash \in S /\ r.prev_hash \in S
      BY <1>1 DEF Parts
    <2> QED
      BY <1>2, <1>3, <2>1, <2>2, HeadAndRest
  <1>8. q.nonce = r.nonce /\ Rooted(q) = Rooted(r)
    <2> DEFINE nq == <<"nonce", q.nonce>>
               nr == <<"nonce", r.nonce>>
    <2>1. Cons(nq, Rooted(q)) = Cons(nr, Rooted(r))
      BY <1>7 DEF Nonced
    <2>2. nq \in S /\ nr \in S
      BY <1>1 DEF Parts
    <2>3. nq = nr => q.nonce = r.nonce
      OBVIOUS
    <2> HIDE DEF nq, nr
    <2> QED
      BY <1>2, <1>3, <2>1, <2>2, <2>3, HeadAndRest
  <1>9. tree_hash(q.txs) = tree_hash(r.txs) /\ Counted(q) = Counted(r)
    <2>1. Cons(tree_hash(q.txs), Counted(q)) = Cons(tree_hash(r.txs), Counted(r))
      BY <1>8 DEF Rooted
    <2>2. tree_hash(q.txs) \in S /\ tree_hash(r.txs) \in S
      BY <1>1 DEF Parts
    <2> QED
      BY <1>2, <1>3, <2>1, <2>2, HeadAndRest
  <1>10. Len(q.txs) = Len(r.txs)
    <2>1. <<>> \in Over(S)
      BY EmptySeq DEF Over
    <2>2. Joined(append_varint(Len(q.txs)), <<>>) = Joined(append_varint(Len(r.txs)), <<>>)
      BY <1>9 DEF Counted
    <2> QED
      BY <1>1, <1>2, <1>3, <2>1, <2>2, VarintPrefix
  <1> QED
    BY <1>4, <1>5, <1>6, <1>7, <1>8, <1>9, <1>10

\* Two records with one ID have one blob.
LEMMA IdBinds ==
    ASSUME NEW q, NEW r, IsRecord(q), IsRecord(r),
           blob_object_hash(hashing_blob(q)) = blob_object_hash(hashing_blob(r))
    PROVE  hashing_blob(q) = hashing_blob(r)
  <1> DEFINE bq == hashing_blob(q)
             br == hashing_blob(r)
             S == VarintBytes \union Parts(q) \union Parts(r)
  <1>1. VarintBytes \subseteq S /\ Parts(q) \subseteq S /\ Parts(r) \subseteq S
    OBVIOUS
  <1> HIDE DEF S
  <1>2. bq \in Over(S) /\ br \in Over(S)
    BY <1>1, BlobParts
  <1>3. Len(bq) \in Nat /\ Len(br) \in Nat
    BY BlobSeq
  <1>4. Joined(append_varint(Len(bq)), bq) = Joined(append_varint(Len(br)), br)
    BY DEF blob_object_hash, Joined
  <1> HIDE DEF bq, br
  <1>5. bq = br
    BY <1>1, <1>2, <1>3, <1>4, VarintPrefix
  <1> QED
    BY <1>5 DEF bq, br

LEMMA ChainIds ==
    ASSUME NEW h \in 0 .. MaxHeight
    PROVE  ChainId[h] = BlockAt(h, IF h = 0 THEN Genesis ELSE ChainId[h - 1]).block_id
  <1> DEFINE D(k) == 0 .. k
             Id(f, n) == BlockAt(n, IF n = 0 THEN Genesis ELSE f[n - 1]).block_id
             Def(f, k) == f = [n \in D(k) |-> Id(f, n)]
             P == {k \in 0 .. MaxHeight : \E f : Def(f, k)}
  <1>1. MaxHeight \in Nat
    BY SeedAssumption
  <1>2. ASSUME NEW k \in 0 .. MaxHeight, NEW f, NEW e, NEW g,
               g = [n \in D(k) |-> IF n = k THEN e ELSE f[n]], NEW n \in D(k)
        PROVE  Id(g, n) = Id(f, n)
    <2>1. CASE n = 0
      BY <2>1
    <2>2. CASE n # 0
      <3>1. n - 1 \in D(k) /\ n - 1 # k
        BY <1>1, <2>2
      <3>2. g[n - 1] = f[n - 1]
        BY <1>2, <3>1
      <3> QED
        BY <2>2, <3>2
    <2> QED
      BY <2>1, <2>2
  <1> HIDE DEF Id
  <1>3. 0 \in P
    <2> DEFINE f == [n \in D(0) |-> n]
               g == [n \in D(0) |-> IF n = 0 THEN Id(f, 0) ELSE f[n]]
    <2>1. \A n \in D(0) : n = 0
      OBVIOUS
    <2>2. Id(g, 0) = Id(f, 0)
      BY DEF Id
    <2>3. Def(g, 0)
      BY <2>1, <2>2
    <2> HIDE DEF g, Def
    <2> QED
      BY <1>1, <2>3
  <1>4. ASSUME NEW k \in 1 .. MaxHeight, k - 1 \in P PROVE k \in P
    <2>1. PICK f : Def(f, k - 1)
      BY <1>4
    <2> DEFINE g == [n \in D(k) |-> IF n = k THEN Id(f, k) ELSE f[n]]
    <2>2. ASSUME NEW n \in D(k) PROVE g[n] = Id(g, n)
      <3>1. Id(g, n) = Id(f, n)
        <4>1. PICK e : e = Id(f, k)
          OBVIOUS
        <4>2. g = [m \in D(k) |-> IF m = k THEN e ELSE f[m]] /\ k \in 0 .. MaxHeight
          BY <4>1
        <4> HIDE DEF g, D
        <4> QED
          BY <1>2, <4>2
      <3>2. CASE n = k
        BY <3>1, <3>2
      <3>3. CASE n # k
        <4>1. n \in D(k - 1)
          BY <3>3
        <4>2. f[n] = Id(f, n)
          <5> HIDE DEF D
          <5> QED
            BY <2>1, <4>1
        <4>3. g[n] = f[n]
          BY <3>3
        <4> QED
          BY <3>1, <4>2, <4>3
      <3> QED
        BY <3>2, <3>3
    <2>3. Def(g, k)
      <3>1. g = [n \in D(k) |-> g[n]]
        OBVIOUS
      <3> HIDE DEF g, D
      <3> QED
        BY <2>2, <3>1
    <2> HIDE DEF g, Def
    <2> QED
      BY <2>3
  <1>5. MaxHeight \in P
    <2> HIDE DEF P
    <2>1. \A k \in 0 .. MaxHeight : k \in P
      BY <1>1, <1>3, <1>4, Upward
    <2> QED
      BY <1>1, <2>1
  <1>6. PICK f : f = [n \in 0 .. MaxHeight |-> Id(f, n)]
    BY <1>5
  <1>7. ChainId = CHOOSE c : c = [n \in 0 .. MaxHeight |-> Id(c, n)]
    BY DEF ChainId, Id
  <1>8. ChainId = [n \in 0 .. MaxHeight |-> Id(ChainId, n)]
    BY <1>6, <1>7, Zenon
  <1>9. ChainId[h] = Id(ChainId, h)
    BY <1>8
  <1> QED
    BY <1>9 DEF Id

LEMMA BlockFields ==
    ASSUME NEW h \in Nat, NEW prev
    PROVE  /\ BlockAt(h, prev).prev_hash = prev
           /\ BlockAt(h, prev).block_id = blob_object_hash(hashing_blob(BlockAt(h, prev)))
  <1> DEFINE r == [height |-> h, major |-> 1 + (h % 2), minor |-> h % 2, timestamp |-> h % Timestamps,
                   prev_hash |-> prev, nonce |-> h % 2,
                   txs |-> [i \in 1 .. h + 1 |-> <<"tx", h, i>>], block_id |-> Genesis, wide_difficulty |-> 0]
             e == blob_object_hash(hashing_blob(r))
             b == [r EXCEPT !.block_id = e]
  <1>1. BlockAt(h, prev) = b
    BY DEF BlockAt, Identified
  <1> HIDE DEF e
  <1>2. /\ b.prev_hash = prev /\ b.block_id = e /\ b.major = r.major /\ b.minor = r.minor
        /\ b.timestamp = r.timestamp /\ b.prev_hash = r.prev_hash /\ b.nonce = r.nonce /\ b.txs = r.txs
    OBVIOUS
  <1> HIDE DEF b, r
  <1>3. hashing_blob(b) = hashing_blob(r)
    BY <1>2, Zenon DEF hashing_blob
  <1> QED
    BY <1>1, <1>2, <1>3 DEF e

\* Each block of the chain has its ID, and the block before it as its previous one.
LEMMA ChainLinked ==
    ASSUME NEW h \in 0 .. MaxHeight
    PROVE  /\ IsRecord(ChainBlock[h])
           /\ ChainBlock[h].block_id = blob_object_hash(hashing_blob(ChainBlock[h]))
           /\ ChainBlock[h].prev_hash = IF h = 0 THEN Genesis ELSE ChainBlock[h - 1].block_id
  <1> DEFINE prev(n) == IF n = 0 THEN Genesis ELSE ChainId[n - 1]
  <1>1. MaxHeight \in Nat /\ h \in Nat
    BY SeedAssumption
  <1>2. ASSUME NEW n \in 0 .. MaxHeight PROVE ChainBlock[n] = BlockAt(n, prev(n))
    BY DEF ChainBlock
  <1>3. ASSUME NEW n \in 0 .. MaxHeight PROVE ChainId[n] = ChainBlock[n].block_id
    BY <1>2, ChainIds
  <1>4. h # 0 => h - 1 \in 0 .. MaxHeight
    BY <1>1
  <1> HIDE DEF prev
  <1>5. /\ IsRecord(ChainBlock[h]) /\ ChainBlock[h].prev_hash = prev(h)
        /\ ChainBlock[h].block_id = blob_object_hash(hashing_blob(ChainBlock[h]))
    <2>1. PICK p : p = prev(h)
      OBVIOUS
    <2>2. ChainBlock[h] = BlockAt(h, p)
      BY <1>2, <2>1
    <2>3. IsRecord(BlockAt(h, p))
      BY <1>1, BlockIsRecord
    <2>4. /\ BlockAt(h, p).prev_hash = p
          /\ BlockAt(h, p).block_id = blob_object_hash(hashing_blob(BlockAt(h, p)))
      BY <1>1, BlockFields
    <2> QED
      BY <2>1, <2>2, <2>3, <2>4, Zenon
  <1> QED
    BY <1>3, <1>4, <1>5 DEF prev

\* A record is never the one before the first block.
LEMMA IdNotGenesis ==
    ASSUME NEW r, IsRecord(r)
    PROVE  blob_object_hash(hashing_blob(r)) # Genesis
  <1> DEFINE b == hashing_blob(r)
             S == VarintBytes \union Parts(r)
             n == Len(b)
  <1>1. VarintBytes \subseteq S /\ Parts(r) \subseteq S
    OBVIOUS
  <1> HIDE DEF S
  <1>2. b \in Over(S)
    BY <1>1, BlobParts
  <1>3. n \in Nat
    BY BlobSeq
  <1>4. blob_object_hash(b) = <<"id", Joined(append_varint(n), b)>>
    BY DEF blob_object_hash, Joined
  <1> HIDE DEF b, n
  <1>5. /\ HeadByte(n) \in S /\ AfterByte(n, b) \in Over(S)
        /\ Joined(append_varint(n), b) = Cons(HeadByte(n), AfterByte(n, b))
    BY <1>1, <1>2, <1>3, VarintHead
  <1>6. Cons(HeadByte(n), AfterByte(n, b)) # <<>>
    <2>1. PICK x \in S, s \in Seq(S) : x = HeadByte(n) /\ s = AfterByte(n, b)
      BY <1>5 DEF Over
    <2>2. <<x>> \in Seq(S) /\ Len(<<x>>) = 1 /\ Len(s) \in Nat
      BY LenProperties
    <2>3. Len(<<x>> \o s) = 1 + Len(s)
      BY <2>2, ConcatProperties
    <2>4. <<x>> \o s # <<>>
      BY <2>2, <2>3, EmptySeq
    <2> QED
      BY <2>1, <2>4 DEF Cons
  <1> QED
    BY <1>4, <1>5, <1>6 DEF Genesis, b

\* The fields of a record that its ID binds.
BoundFields == RecordFields \ {"height", "wide_difficulty"}
Same(q, r)  == \A f \in BoundFields : q[f] = r[f]

LEMMA IdBindsFields ==
    ASSUME NEW q, NEW r, IsRecord(q), IsRecord(r), q.block_id = r.block_id,
           q.block_id = blob_object_hash(hashing_blob(q)), r.block_id = blob_object_hash(hashing_blob(r))
    PROVE  Same(q, r)
  <1>1. hashing_blob(q) = hashing_blob(r)
    BY IdBinds
  <1>2. /\ q.major = r.major /\ q.minor = r.minor /\ q.timestamp = r.timestamp
        /\ q.prev_hash = r.prev_hash /\ q.nonce = r.nonce
        /\ tree_hash(q.txs) = tree_hash(r.txs) /\ Len(q.txs) = Len(r.txs)
    BY <1>1, BlobBinds
  <1>3. NonEmpty(q.txs) /\ NonEmpty(r.txs)
    BY DEF IsRecord, RecordFields, Proper
  <1>4. q.txs = r.txs
    BY <1>2, <1>3, TreeBinds
  <1> QED
    BY <1>2, <1>4 DEF Same, BoundFields, RecordFields

-----------------------------------------------------------------------------
(* The inductive invariant.                                                *)

AnyRecord  == UNION {Served[h] : h \in 0 .. MaxHeight}
AnyFixture == {Fixture(r) : r \in AnyRecord}

Statuses == {"idle", "building", "built", "recorded", "failed", "valid", "accepted", "refused"}

\* Entry i of a sequence of records or fixtures is linked to those before it.
Linked(s, i) ==
    i > 1 => s[i].height = s[1].height + i - 1 /\ s[i].prev_hash = s[i - 1].block_id

\* The checks that the tools make of one record.
Checked(r) ==
    LET blob == hashing_blob(r)
    IN  /\ AuditSeedHeight(r.height) = seed_height
        /\ blob_object_hash(blob) = r.block_id
        /\ meets_difficulty(pow_hash(blob), r.wide_difficulty)

\* Every record kept has passed the builder's checks under the seed height of
\* the run, and its fixture is kept beside it.
Kept ==
    /\ records \in Seq(AnyRecord) /\ blocks \in Seq(AnyFixture) /\ Len(blocks) = Len(records)
    /\ \A i \in 1 .. Len(records) :
          /\ blocks[i] = Fixture(records[i])
          /\ Linked(records, i)
          /\ Checked(records[i])
    /\ status = "idle" => records = <<>>
    /\ status = "built" => Len(blocks) = FixtureBlocks

\* The block recorded for the requester has passed the recorder's checks.
InputKept ==
    IF status \in {"recorded", "accepted", "refused"}
    THEN \E r \in AnyRecord : input = Fixture(r) /\ Checked(r)
    ELSE input = NoInput

IInv ==
    /\ height \in 0 .. MaxHeight /\ status \in Statuses
    /\ Kept /\ InputKept /\ RecordedValidates

-----------------------------------------------------------------------------
(* The steps of the tools preserve the invariant.                          *)

LEMMA AnyRecordTyped ==
    ASSUME NEW r \in AnyRecord
    PROVE  /\ r.height \in Nat /\ r.wide_difficulty \in 0 .. LimbBase - 1
           /\ pow_hash(hashing_blob(r)) \in Hashes
  <1>1. PICK h \in 0 .. MaxHeight : r \in Served[h]
    BY DEF AnyRecord
  <1>2. IsRecord(r)
    BY <1>1, ServedAssumption
  <1>3. r["height"] \in Nat /\ r["wide_difficulty"] \in 0 .. LimbBase - 1
    BY <1>2 DEF IsRecord, RecordFields, Proper
  <1> QED
    BY <1>2, <1>3, BlobSeq

LEMMA FixtureFields ==
    ASSUME NEW r
    PROVE  /\ Fixture(r).height = r.height /\ Fixture(r).block_id = r.block_id
           /\ Fixture(r).prev_hash = r.prev_hash /\ Fixture(r).wide_difficulty = r.wide_difficulty
           /\ Fixture(r).hashing_blob = hashing_blob(r)
           /\ Fixture(r).pow_hash = pow_hash(hashing_blob(r))
  BY DEF Fixture

\* The tools that leave what was kept alone.
LEMMA KeptSame ==
    ASSUME Kept, UNCHANGED <<seed_height, records, blocks>>,
           status' # "idle" \/ status = "idle", status' # "built" \/ status = "built"
    PROVE  Kept'
  BY DEF Kept, Checked, Linked

LEMMA GrowIInv ==
    ASSUME IInv, Grow
    PROVE  IInv'
  <1>1. UNCHANGED toolVars /\ height' \in 0 .. MaxHeight
    BY SeedAssumption DEF Grow, NewBlock, IInv
  <1> QED
    BY <1>1, KeptSame DEF IInv, toolVars, InputKept, RecordedValidates, Checked

LEMMA StartIInv ==
    ASSUME IInv, NEW seed, Start(seed)
    PROVE  IInv'
  <1>1. /\ status = "idle" /\ status' = "building" /\ records = <<>>
        /\ UNCHANGED <<height, records, blocks, input>>
    BY DEF Start, IInv, Kept
  <1>2. 1 .. Len(records') = {} /\ records' = <<>>
    BY <1>1
  <1>3. Kept'
    BY <1>1, <1>2 DEF IInv, Kept
  <1> QED
    BY <1>1, <1>3 DEF IInv, Statuses, InputKept, RecordedValidates

LEMMA BuildFixtureIInv ==
    ASSUME IInv, NEW h \in 0 .. height, NEW r \in Served[h], build_fixture(r)
    PROVE  IInv'
  <1>1. /\ status = "building"
        /\ UNCHANGED <<height, seed_height, input>>
    BY DEF build_fixture
  <1>2. r \in AnyRecord /\ Fixture(r) \in AnyFixture
    BY SeedAssumption DEF IInv, AnyRecord, AnyFixture
  <1>3. CASE ~ builder_accepts(r)
    <2>1. status' = "failed" /\ UNCHANGED <<records, blocks>>
      BY <1>3 DEF build_fixture
    <2>2. Kept'
      BY <1>1, <2>1, KeptSame DEF IInv
    <2> QED
      BY <1>1, <2>1, <2>2 DEF IInv, Statuses, InputKept, RecordedValidates
  <1>4. CASE builder_accepts(r)
    <2>1. /\ records' = Append(records, r) /\ blocks' = Append(blocks, Fixture(r))
          /\ status' = IF Len(blocks') = FixtureBlocks THEN "built" ELSE "building"
      BY <1>4 DEF build_fixture
    <2> DEFINE n == Len(records)
               b == Fixture(r)
    <2>2. n \in Nat /\ Len(blocks) = n /\ records \in Seq(AnyRecord) /\ blocks \in Seq(AnyFixture)
      BY LenProperties DEF IInv, Kept
    <2>3. /\ records' \in Seq(AnyRecord) /\ Len(records') = n + 1
          /\ records'[n + 1] = r /\ \A i \in 1 .. n : records'[i] = records[i]
      BY <1>2, <2>1, <2>2, AppendProperties
    <2>4. /\ blocks' \in Seq(AnyFixture) /\ Len(blocks') = n + 1
          /\ blocks'[n + 1] = b /\ \A i \in 1 .. n : blocks'[i] = blocks[i]
      <3> HIDE DEF b
      <3>1. b \in AnyFixture
        BY <1>2 DEF b
      <3>2. blocks' = Append(blocks, b)
        BY <2>1 DEF b
      <3> QED
        BY <2>2, <3>1, <3>2, AppendProperties
    <2> HIDE DEF n, b
    <2>5. \A q : Checked(q)' <=> Checked(q)
      BY <1>1 DEF Checked
    <2>6. ASSUME NEW i \in 1 .. n
          PROVE  /\ blocks'[i] = Fixture(records'[i])
                 /\ Linked(records', i)
                 /\ Checked(records'[i])
      <3>1. /\ blocks[i] = Fixture(records[i]) /\ Linked(records, i)
            /\ Checked(records[i])
        BY DEF IInv, Kept, n
      <3>2. i > 1 => 1 \in 1 .. n /\ i - 1 \in 1 .. n
        BY <2>2
      <3> QED
        BY <2>3, <2>4, <3>1, <3>2 DEF Linked
    <2>7. Linked(records', n + 1)
      <3> SUFFICES ASSUME n + 1 > 1
                   PROVE  /\ records'[n + 1].height = records'[1].height + n
                          /\ records'[n + 1].prev_hash = records'[n].block_id
        BY <2>2 DEF Linked
      <3>1. 1 \in 1 .. n /\ n \in 1 .. n /\ records # <<>>
        BY <2>2 DEF n
      <3>2. r.height = records[1].height + n /\ r.prev_hash = records[n].block_id
        BY <1>4, <3>1 DEF builder_accepts, Last, n
      <3> QED
        BY <2>3, <3>1, <3>2
    <2>8. 1 .. Len(records') = (1 .. n) \cup {n + 1}
      BY <2>2, <2>3
    <2>11. Checked(r)
      BY <1>4 DEF builder_accepts, Checked
    <2>9. \A i \in 1 .. Len(records') :
             /\ blocks'[i] = Fixture(records'[i])
             /\ Linked(records', i)
             /\ Checked(records'[i])
      BY <2>3, <2>4, <2>6, <2>7, <2>8, <2>11 DEF b
    <2>10. Kept'
      <3>1. \A i \in 1 .. Len(records') :
              /\ blocks'[i] = Fixture(records'[i])
              /\ Linked(records, i)'
              /\ Checked(records[i])'
        BY <2>5, <2>9 DEF Linked, Checked
      <3> QED
        BY <2>1, <2>3, <2>4, <3>1 DEF Kept
    <2> QED
      BY <1>1, <2>1, <2>10 DEF IInv, Statuses, InputKept, RecordedValidates
  <1> QED
    BY <1>3, <1>4

\* The fixtures alone are enough to repeat every check.
LEMMA ValidateFixturesIInv ==
    ASSUME IInv, validate_recent_mainnet_blocks
    PROVE  IInv'
  <1>1. status = "built" /\ UNCHANGED <<height, prover, audit, seed_height, records, blocks, input>>
    BY DEF validate_recent_mainnet_blocks
  <1>2. Kept /\ Len(blocks) = FixtureBlocks /\ blocks \in Seq(AnyFixture) /\ DOMAIN blocks = 1 .. Len(blocks)
    BY <1>1, LenProperties DEF IInv, Kept
  <1>3. ASSUME NEW i \in DOMAIN blocks
        PROVE  validator_accepts(i)
    <2> DEFINE r == records[i]
    <2>1. i \in 1 .. Len(blocks) /\ i \in 1 .. Len(records) /\ Len(blocks) \in Nat
      BY <1>2, LenProperties DEF Kept
    <2>2. blocks[i] = Fixture(r) /\ Linked(records, i) /\ Checked(r)
      BY <1>2, <2>1 DEF Kept
    <2>3. /\ AuditSeedHeight(blocks[i].height) = seed_height
          /\ blob_object_hash(blocks[i].hashing_blob) = blocks[i].block_id
          /\ meets_difficulty(blocks[i].pow_hash, blocks[i].wide_difficulty)
      BY <2>2, FixtureFields DEF Checked
    <2>4. pow_hash(blocks[i].hashing_blob) = blocks[i].pow_hash
      BY <2>2, FixtureFields
    <2>5. Linked(blocks, i)
      <3> SUFFICES ASSUME i > 1
                   PROVE  /\ blocks[i].height = blocks[1].height + i - 1
                          /\ blocks[i].prev_hash = blocks[i - 1].block_id
        BY DEF Linked
      <3>1. 1 \in 1 .. Len(records) /\ i - 1 \in 1 .. Len(records)
        BY <1>2, <2>1 DEF Kept
      <3>2. blocks[1] = Fixture(records[1]) /\ blocks[i - 1] = Fixture(records[i - 1])
        BY <1>2, <3>1 DEF Kept
      <3> QED
        BY <2>2, <3>2, FixtureFields DEF Linked
    <2>6. blocks[i].height = blocks[1].height + (i - 1)
      <3>1. CASE i > 1
        <4>1. 1 \in 1 .. Len(records)
          BY <1>2, <2>1 DEF Kept
        <4>2. blocks[1] = Fixture(records[1]) /\ records[1] \in AnyRecord
          BY <1>2, <4>1, ElementOfSeq DEF Kept
        <4>3. PICK n \in Nat : n = blocks[1].height
          BY <4>2, FixtureFields, AnyRecordTyped
        <4>4. i \in Nat /\ n + i - 1 = n + (i - 1)
          BY <2>1
        <4>5. blocks[i].height = n + i - 1
          BY <2>5, <3>1, <4>3 DEF Linked
        <4> QED
          BY <4>3, <4>4, <4>5
      <3>2. CASE i = 1
        <4>1. records[i] \in AnyRecord
          BY <1>2, <2>1, ElementOfSeq DEF Kept
        <4>2. PICK n \in Nat : n = blocks[i].height
          BY <2>2, <4>1, FixtureFields, AnyRecordTyped
        <4>3. n = n + (i - 1)
          BY <3>2
        <4> QED
          BY <3>2, <4>2, <4>3
      <3> QED
        BY <2>1, <3>1, <3>2
    <2> QED
      BY <2>3, <2>4, <2>5, <2>6 DEF validator_accepts, Linked
  <1>4. status' = "valid"
    BY <1>2, <1>3 DEF validate_recent_mainnet_blocks
  <1>5. Kept'
    BY <1>1, <1>2, <1>4, KeptSame
  <1> QED
    BY <1>1, <1>4, <1>5 DEF IInv, Statuses, InputKept, RecordedValidates

LEMMA MoneroBlockInputIInv ==
    ASSUME IInv, NEW h \in 0 .. height, NEW r \in Served[h], NEW seed, monero_block_input(r, seed)
    PROVE  IInv'
  <1>1. /\ status = "idle" /\ records = <<>> /\ UNCHANGED <<height, records, blocks>>
        /\ status' \in {"recorded", "failed"}
    BY DEF monero_block_input, IInv, Kept
  <1>2. r \in AnyRecord
    BY SeedAssumption DEF IInv, AnyRecord
  <1>3. 1 .. Len(records') = {} /\ records' = <<>>
    BY <1>1
  <1>4. Kept'
    BY <1>1, <1>3 DEF IInv, Kept
  <1>5. /\ status' = "recorded" => Checked(r)' /\ input' = Fixture(r)
        /\ status' = "failed" => input' = NoInput
    BY <1>1 DEF monero_block_input, recorder_accepts, Checked, IInv, InputKept
  <1>6. InputKept'
    <2>1. CASE status' = "recorded"
      BY <1>2, <1>5, <2>1 DEF InputKept
    <2>2. CASE status' = "failed"
      BY <1>5, <2>2 DEF InputKept
    <2> QED
      BY <1>1, <2>1, <2>2
  <1> QED
    BY <1>1, <1>4, <1>6 DEF IInv, Statuses, RecordedValidates

\* The requester's copies compute what the audit crate's functions do.
LEMMA CopiesAgree ==
    ASSUME NEW v, NEW p, NEW d
    PROVE  /\ requester_append_varint(v) = append_varint(v)
           /\ requester_meets_difficulty(p, d) = meets_difficulty(p, d)
  BY DEF requester_append_varint, append_varint, requester_meets_difficulty, meets_difficulty, carries

\* The requester repeats the recorder's checks with its own functions.
LEMMA ValidateInputIInv ==
    ASSUME IInv, validate_input
    PROVE  IInv'
  <1>1. status = "recorded" /\ UNCHANGED <<height, seed_height, records, blocks, input>>
    BY DEF validate_input
  <1>2. PICK r \in AnyRecord : input = Fixture(r) /\ Checked(r)
    BY <1>1 DEF IInv, InputKept
  <1>3. status' \in {"accepted", "refused"}
    BY DEF validate_input
  <1>4. /\ input.height \in Nat /\ AuditSeedHeight(input.height) = seed_height
        /\ blob_object_hash(input.hashing_blob) = input.block_id
        /\ meets_difficulty(input.pow_hash, input.wide_difficulty)
    BY <1>2, FixtureFields, AnyRecordTyped DEF Checked
  <1>5. status' = "refused" =>
           \/ Len(input.hashing_blob) # SelectedLength
           \/ seed_height # ProverSeedHeight(input.height)
    BY <1>4, CopiesAgree DEF validate_input, requester_accepts, blob_object_hash
  <1>6. RecordedValidates'
    BY <1>1, <1>3, <1>4, <1>5 DEF RecordedValidates
  <1>7. Kept'
    BY <1>1, <1>3, KeptSame DEF IInv
  <1>8. InputKept'
    BY <1>1, <1>2, <1>3 DEF InputKept, Checked
  <1> QED
    BY <1>1, <1>3, <1>6, <1>7, <1>8 DEF IInv, Statuses

LEMMA EndIInv ==
    ASSUME IInv, End
    PROVE  IInv'
  <1>1. status' = "idle" /\ records' = <<>> /\ blocks' = <<>> /\ input' = NoInput /\ UNCHANGED height
    BY DEF End
  <1>2. Kept'
    BY <1>1, EmptySeq DEF Kept
  <1> QED
    BY <1>1, <1>2 DEF IInv, Statuses, InputKept, RecordedValidates

-----------------------------------------------------------------------------
(* The theorem.                                                            *)

LEMMA RecordInitIInv == RecordInit => IInv
  <1> SUFFICES ASSUME RecordInit PROVE IInv
    OBVIOUS
  <1>1. /\ height \in 0 .. MaxHeight /\ status = "idle" /\ records = <<>> /\ blocks = <<>>
        /\ input = NoInput
    BY SeedAssumption DEF RecordInit, Init
  <1>2. Kept
    BY <1>1, EmptySeq DEF Kept
  <1> QED
    BY <1>1, <1>2 DEF IInv, Statuses, InputKept, RecordedValidates

LEMMA RecordNextIInv ==
    ASSUME IInv, [RecordNext]_recordVars
    PROVE  IInv'
  <1>1. CASE UNCHANGED recordVars
    <2>1. Kept'
      BY <1>1, KeptSame DEF recordVars, IInv
    <2> QED
      BY <1>1, <2>1 DEF recordVars, IInv, InputKept, RecordedValidates, Checked
  <1>2. CASE RecordNext
    BY <1>2, GrowIInv, StartIInv, BuildFixtureIInv, ValidateFixturesIInv, MoneroBlockInputIInv,
       ValidateInputIInv, EndIInv DEF RecordNext
  <1> QED
    BY <1>1, <1>2

\* Whatever records the endpoint serves and whatever seed height the operator
\* gives, the four programs' own checks and own copies of the helpers agree:
\* validate_recent_mainnet_blocks accepts every set of fixtures that
\* network_fixture_builder wrote, and validate_input refuses a block that
\* monero_block_input recorded only for the length of its blob or because the two
\* randomx_seed_height functions differ at its height.
THEOREM RecordedAlwaysValidates == RecordSpec => []RecordedValidates
  <1>1. RecordInit => IInv
    BY RecordInitIInv
  <1>2. IInv /\ [RecordNext]_recordVars => IInv'
    BY RecordNextIInv
  <1>3. IInv => RecordedValidates
    BY DEF IInv
  <1> QED
    BY <1>1, <1>2, <1>3, PTL DEF RecordSpec

\* A hash of a block is multiplied with its difficulty exactly: the carry that
\* meets_difficulty ends with is zero just when the product of the two numbers
\* fits the width of a hash, for every hash, every width and every difficulty
\* of a limb, and no intermediate product overflows two limbs; so whatever the
\* tools have kept has the work it declares.
THEOREM DifficultyAlwaysExact == RecordSpec => []DifficultyExact
  <1>1. IInv => DifficultyExact
    <2> DEFINE held == ToSet(blocks) \cup ({input} \ {NoInput})
    <2> SUFFICES ASSUME IInv, NEW b \in held
                 PROVE  /\ Value(b.pow_hash)[Limbs] * b.wide_difficulty < Place[Limbs]
                        /\ \A p \in Hashes :
                              /\ meets_difficulty(p, b.wide_difficulty)
                                   <=> Value(p)[Limbs] * b.wide_difficulty < Place[Limbs]
                              /\ \A i \in 1 .. Limbs :
                                    p[i] * b.wide_difficulty + carries(p, b.wide_difficulty)[i - 1]
                                        < LimbBase * LimbBase
      BY DEF DifficultyExact
    <2>1. PICK r \in AnyRecord : b = Fixture(r) /\ Checked(r)
      <3>1. CASE b \in ToSet(blocks)
        <4>1. PICK i \in DOMAIN blocks : b = blocks[i]
          BY <3>1 DEF ToSet
        <4>2. i \in 1 .. Len(records) /\ records[i] \in AnyRecord
          BY LenProperties, ElementOfSeq DEF IInv, Kept
        <4> QED
          BY <4>1, <4>2 DEF IInv, Kept
      <3>2. CASE b = input /\ b # NoInput
        BY <3>2 DEF IInv, InputKept
      <3> QED
        BY <3>1, <3>2
    <2> DEFINE d == b.wide_difficulty
               x == b.pow_hash
    <2>2. d \in 0 .. LimbBase - 1 /\ d \in Nat /\ x \in Hashes /\ meets_difficulty(x, d)
      BY <2>1, AnyRecordTyped, FixtureFields, RecordAssumption DEF Checked
    <2> HIDE DEF d, x
    <2>3. Value(x)[Limbs] * d < Place[Limbs]
      BY <2>2, MeetsExactly
    <2>4. \A p \in Hashes : /\ meets_difficulty(p, d) <=> Value(p)[Limbs] * d < Place[Limbs]
                           /\ \A i \in 1 .. Limbs : p[i] * d + carries(p, d)[i - 1] < LimbBase * LimbBase
      BY <2>2, MeetsExactly, ProductFits
    <2> QED
      BY <2>3, <2>4 DEF d, x
  <1>2. RecordInit => IInv
    BY RecordInitIInv
  <1>3. IInv /\ [RecordNext]_recordVars => IInv'
    BY RecordNextIInv
  <1> QED
    BY <1>1, <1>2, <1>3, PTL DEF RecordSpec

LEMMA KeptBound == IInv => TipBindsRecords
  <1> SUFFICES ASSUME IInv, NEW h \in 0 .. height, records # <<>>,
                      Last(records).block_id = ChainBlock[h].block_id
               PROVE  \A i \in DOMAIN records :
                          LET n == h - Len(records) + i
                          IN  /\ n >= 0
                              /\ \A f \in DOMAIN ChainBlock[n] \ {"height", "wide_difficulty"} :
                                    records[i][f] = ChainBlock[n][f]
    BY DEF TipBindsRecords
  <1> DEFINE N == Len(records)
             Bound(k) == h - k >= 0 /\ Same(records[N - k], ChainBlock[h - k])
             P == {k \in 0 .. N - 1 : Bound(k)}
  <1>1. /\ records \in Seq(AnyRecord)
        /\ \A i \in 1 .. N : Linked(records, i) /\ Checked(records[i])
    BY DEF IInv, Kept
  <1>2. N \in Nat \ {0} /\ DOMAIN records = 1 .. N /\ Last(records) = records[N]
    <2>1. N \in Nat /\ DOMAIN records = 1 .. N
      BY <1>1, LenProperties
    <2>2. N # 0
      BY <1>1, EmptySeq
    <2> QED
      BY <2>1, <2>2 DEF Last
  <1>3. h \in Nat /\ h \in 0 .. MaxHeight /\ MaxHeight \in Nat
    BY SeedAssumption DEF IInv
  <1>4. ASSUME NEW i \in 1 .. N
        PROVE  IsRecord(records[i]) /\ records[i].block_id = blob_object_hash(hashing_blob(records[i]))
    <2>1. records[i] \in AnyRecord
      BY <1>1, ElementOfSeq
    <2>2. PICK m \in 0 .. MaxHeight : records[i] \in Served[m]
      BY <2>1 DEF AnyRecord
    <2> QED
      BY <1>1, <2>2, ServedAssumption DEF Checked
  <1> HIDE DEF N
  <1>5. ASSUME NEW i \in 1 .. N, NEW n \in 0 .. MaxHeight, records[i].block_id = ChainBlock[n].block_id
        PROVE  Same(records[i], ChainBlock[n])
    BY <1>4, <1>5, ChainLinked, IdBindsFields
  <1>6. 0 \in P
    <2>1. N \in 1 .. N /\ N - 0 = N /\ h - 0 = h /\ 0 \in 0 .. N - 1 /\ h >= 0
      BY <1>2, <1>3
    <2>2. Same(records[N], ChainBlock[h])
      BY <1>2, <1>3, <1>5, <2>1
    <2> QED
      BY <2>1, <2>2
  <1>7. ASSUME NEW k \in 1 .. N - 1, k - 1 \in P PROVE k \in P
    <2>1. PICK i \in 2 .. N : i = N - (k - 1) /\ i - 1 = N - k /\ i - 1 \in 1 .. N
      BY <1>2
    <2>2. PICK n \in 0 .. MaxHeight : n = h - (k - 1) /\ n - 1 = h - k
      BY <1>2, <1>3, <1>7
    <2>3. Same(records[i], ChainBlock[n])
      BY <1>7, <2>1, <2>2
    <2>4. records[i].prev_hash = ChainBlock[n].prev_hash
      BY <2>3 DEF Same, BoundFields, RecordFields
    <2>5. records[i].prev_hash = records[i - 1].block_id
      BY <1>1, <1>2, <2>1 DEF Linked, N
    <2>6. records[i - 1].block_id # Genesis
      BY <1>4, <2>1, IdNotGenesis
    <2>7. n # 0 /\ ChainBlock[n].prev_hash = ChainBlock[n - 1].block_id
      BY <2>4, <2>5, <2>6, ChainLinked
    <2>8. n - 1 \in 0 .. MaxHeight
      BY <1>3, <2>7
    <2>9. Same(records[i - 1], ChainBlock[n - 1])
      BY <1>5, <2>1, <2>4, <2>5, <2>7, <2>8
    <2>10. k \in 0 .. N - 1 /\ h - k >= 0
      BY <1>2, <2>2, <2>8
    <2>11. Bound(k)
      BY <2>1, <2>2, <2>9, <2>10
    <2> QED
      BY <2>10, <2>11
  <1>8. ASSUME NEW i \in 1 .. N PROVE Bound(N - i)
    <2> HIDE DEF P
    <2>1. N - 1 \in Nat /\ N - i \in 0 .. N - 1
      BY <1>2
    <2>2. \A k \in 0 .. N - 1 : k \in P
      BY <1>6, <1>7, <2>1, Upward
    <2> QED
      BY <2>1, <2>2 DEF P
  <1>9. ASSUME NEW i \in 1 .. N
        PROVE  /\ h - N + i >= 0
               /\ \A f \in DOMAIN ChainBlock[h - N + i] \ {"height", "wide_difficulty"} :
                     records[i][f] = ChainBlock[h - N + i][f]
    <2>1. h - (N - i) = h - N + i /\ N - (N - i) = i
      BY <1>2, <1>3
    <2>2. h - N + i >= 0 /\ Same(records[i], ChainBlock[h - N + i])
      BY <1>8, <2>1
    <2>3. h - N + i \in 0 .. MaxHeight
      BY <1>2, <1>3, <2>2
    <2>4. DOMAIN ChainBlock[h - N + i] = RecordFields
      BY <2>3, ChainLinked DEF IsRecord
    <2> QED
      BY <2>2, <2>4 DEF Same, BoundFields
  <1> QED
    BY <1>2, <1>9 DEF N

\* What the builder keeps is bound by the ID of the last block it kept.
THEOREM TipAlwaysBindsRecords == RecordSpec => []TipBindsRecords
  <1>1. RecordInit => IInv
    BY RecordInitIInv
  <1>2. IInv /\ [RecordNext]_recordVars => IInv'
    BY RecordNextIInv
  <1> QED
    BY <1>1, <1>2, KeptBound, PTL DEF RecordSpec

\* The transactions of every block of the chain are hashed in the shape that
\* CryptoNote fixes, however many there are.
THEOREM TreeAlwaysCanonical == RecordSpec => []TreeCanonical
  <1>1. IInv => TreeCanonical
    <2> SUFFICES ASSUME IInv PROVE TreeCanonical
      OBVIOUS
    <2>1. height \in 0 .. MaxHeight
      BY DEF IInv
    <2>2. IsRecord(ChainBlock[height])
      BY <2>1, ChainLinked
    <2>3. PICK txs : txs = ChainBlock[height].txs
      OBVIOUS
    <2>4. NonEmpty(txs)
      BY <2>2, <2>3 DEF IsRecord, RecordFields, Proper
    <2>5. \E width \in Len(txs) .. 2 * Len(txs) - 1 :
              /\ PowerOf2(width)
              /\ \A i \in 1 .. Len(txs) :
                    txs[i] = IF i <= width - Len(txs)
                             THEN NodeAt(tree_hash(txs), width \div 2, i - 1)
                             ELSE NodeAt(tree_hash(txs), width, width - Len(txs) + i - 1)
      BY <2>4, TreeShaped
    <2> QED
      BY <2>3, <2>5, Zenon DEF TreeCanonical
  <1>2. RecordInit => IInv
    BY RecordInitIInv
  <1>3. IInv /\ [RecordNext]_recordVars => IInv'
    BY RecordNextIInv
  <1> QED
    BY <1>1, <1>2, <1>3, PTL DEF RecordSpec
=============================================================================
