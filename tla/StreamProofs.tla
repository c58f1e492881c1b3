----------------------------- MODULE StreamProofs -----------------------------
(***************************************************************************)
(* Proofs about the bytes of Framing's chain, for any number of relays and *)
(* of cut reads: the stream is kept but for zeroes, and relays whose       *)
(* buffers hold nothing stale act on setups that the client has sent.      *)
(*                                                                         *)
(* Every stretch of a link, and every read that a relay built its path     *)
(* from, is a part of what was written with zeroes strewn in (Spread).     *)
(* The positions where the parts begin are the inductive invariant; where  *)
(* a text stands in what was written follows from how setups begin, if the *)
(* client's memory holds no such beginning.                                *)
(***************************************************************************)
EXTENDS FramingProofs, FiniteSetTheorems

\* A number that a set closed under successor leaves out would make the set of
\* the smaller ones left out, which is finite, as large as a part of itself.
LEMMA Induct ==
    ASSUME NEW S, 0 \in S, \A n \in Nat : n \in S => n + 1 \in S
    PROVE  Nat \subseteq S
  <1> SUFFICES ASSUME NEW n \in Nat, n \notin S PROVE FALSE
    OBVIOUS
  <1> DEFINE D == {m \in 0..n : m \notin S}
             E == D \ {n}
             f == [m \in D |-> m - 1]
  <1>1. IsFiniteSet(D) /\ Cardinality(D) \in Nat /\ n \in D
    <2>1. D \in SUBSET Nat /\ \A m \in D : m <= n
      OBVIOUS
    <2>2. n \in D
      OBVIOUS
    <2> HIDE DEF D
    <2> QED BY <2>1, <2>2, FS_BoundedSetOfNaturals, FS_CardinalityType
  <1>2. IsFiniteSet(E) /\ Cardinality(E) < Cardinality(D)
    <2> HIDE DEF D
    <2>1. /\ IsFiniteSet(D \ {n})
          /\ Cardinality(D \ {n}) = (IF n \in D THEN Cardinality(D) - 1 ELSE Cardinality(D))
      BY <1>1, FS_RemoveElement, Zenon
    <2>2. Cardinality(E) = Cardinality(D) - 1
      BY <1>1, <2>1
    <2> QED BY <1>1, <2>1, <2>2
  <1>3. f \in [D -> E]
    <2> SUFFICES ASSUME NEW m \in D PROVE m - 1 \in E
      OBVIOUS
    <2>1. m # 0 /\ m - 1 \in Nat /\ m = (m - 1) + 1
      OBVIOUS
    <2> QED BY <2>1
  <1>4. \A x, y \in D : f[x] = f[y] => x = y
    OBVIOUS
  <1> HIDE DEF D, E, f
  <1>5. \E x, y \in D : x # y /\ f[x] = f[y]
    BY <1>1, <1>2, <1>3, FS_PigeonHole, Zenon
  <1> QED BY <1>4, <1>5

\* g goes from e through N values of T, from each to the next by a step.
Steps(g, N, T, e, step) ==
    g \in [0..N -> T] /\ g[0] = e /\ \A i \in 1..N : g[i] = step[i][g[i - 1]]

\* A function can be given by its first value and its steps.
LEMMA Recursion ==
    ASSUME NEW T, NEW e \in T, NEW N \in Nat, NEW step \in [1..N -> [T -> T]]
    PROVE  \E g : Steps(g, N, T, e, step)
  <1> DEFINE Good(n) == \E g \in [0..n -> T] : g[0] = e /\ \A i \in 1..n : g[i] = step[i][g[i - 1]]
             S == {n \in Nat : n <= N => Good(n)}
  <1>1. 0 \in S
    <2>1. [i \in 0..0 |-> e] \in [0..0 -> T] /\ [i \in 0..0 |-> e][0] = e /\ 1..0 = {}
      OBVIOUS
    <2>2. Good(0)
      BY <2>1
    <2> HIDE DEF Good
    <2> QED BY <2>2
  <1>2. ASSUME NEW n \in Nat, n \in S PROVE n + 1 \in S
    <2> SUFFICES ASSUME n + 1 <= N PROVE Good(n + 1)
      <3> HIDE DEF Good
      <3> QED OBVIOUS
    <2>1. Good(n)
      <3> HIDE DEF Good
      <3> QED BY <1>2
    <2>2. PICK g \in [0..n -> T] : g[0] = e /\ \A i \in 1..n : g[i] = step[i][g[i - 1]]
      BY <2>1
    <2> DEFINE k == [i \in 0..n + 1 |-> IF i = n + 1 THEN step[n + 1][g[n]] ELSE g[i]]
    <2>3. step[n + 1] \in [T -> T] /\ g[n] \in T
      <3>1. n + 1 \in 1..N /\ n \in 0..n
        OBVIOUS
      <3> QED BY <3>1
    <2>4. k \in [0..n + 1 -> T]
      BY <2>3
    <2>5. k[0] = e
      BY <2>2
    <2>6. ASSUME NEW i \in 1..n + 1 PROVE k[i] = step[i][k[i - 1]]
      <3>1. CASE i = n + 1
        <4>1. i - 1 = n /\ i - 1 # n + 1 /\ i - 1 \in 0..n + 1 /\ i \in 0..n + 1
          BY <3>1
        <4> QED BY <3>1, <4>1
      <3>2. CASE i # n + 1
        <4>1. i \in 1..n /\ i - 1 \in 0..n /\ i - 1 # n + 1 /\ i - 1 \in 0..n + 1 /\ i \in 0..n + 1
          BY <3>2
        <4> QED BY <2>2, <3>2, <4>1
      <3> QED BY <3>1, <3>2
    <2> HIDE DEF k
    <2> QED BY <2>4, <2>5, <2>6
  <1>3. N \in S
    <2> HIDE DEF S
    <2> QED BY <1>1, <1>2, Induct
  <1> HIDE DEF Good
  <1>4. Good(N)
    BY <1>3
  <1> QED BY <1>4 DEF Good, Steps

\* So goes every function that has that first value and takes those steps.
LEMMA Taken ==
    ASSUME NEW T, NEW e \in T, NEW N \in Nat, NEW step \in [1..N -> [T -> T]],
           NEW f, f = [i \in 0..N |-> f[i]], f[0] = e,
           \A i \in 1..N : f[i - 1] \in T => f[i] = step[i][f[i - 1]]
    PROVE  Steps(f, N, T, e, step)
  <1> DEFINE S == {n \in Nat : n <= N => f[n] \in T}
  <1>1. 0 \in S
    OBVIOUS
  <1>2. ASSUME NEW n \in Nat, n \in S PROVE n + 1 \in S
    <2> SUFFICES ASSUME n + 1 <= N PROVE f[n + 1] \in T
      OBVIOUS
    <2>1. n + 1 \in 1..N /\ (n + 1) - 1 = n /\ f[n] \in T
      BY <1>2
    <2>2. f[n + 1] = step[n + 1][f[n]]
      BY <2>1
    <2> QED BY <2>1, <2>2
  <1>3. Nat \subseteq S
    <2> HIDE DEF S
    <2> QED BY <1>1, <1>2, Induct
  <1>4. \A i \in 0..N : f[i] \in T
    BY <1>3
  <1>5. \A i \in 1..N : i - 1 \in 0..N
    OBVIOUS
  <1>6. f \in [0..N -> T]
    BY <1>4
  <1>7. \A i \in 1..N : f[i] = step[i][f[i - 1]]
    BY <1>4, <1>5
  <1> QED BY <1>6, <1>7 DEF Steps

\* What NonZero's loop makes of s, byte by byte.
LEMMA NonZeroMakes ==
    ASSUME NEW s \in Seq(Byte)
    PROVE  \E g \in [0..Len(s) -> Seq(Byte)] :
              /\ g[0] = <<>> /\ g[Len(s)] = NonZero(s)
              /\ \A i \in 1..Len(s) : g[i] = IF s[i] = 0 THEN g[i - 1] ELSE Append(g[i - 1], s[i])
  <1> DEFINE N == Len(s)
             T == Seq(Byte)
             e == <<>>
             step == [i \in 1..N |-> [r \in T |-> IF s[i] = 0 THEN r ELSE Append(r, s[i])]]
             Kept(F) == F = [i \in 0..N |-> IF i = 0 THEN <<>>
                                            ELSE IF s[i] = 0 THEN F[i - 1] ELSE Append(F[i - 1], s[i])]
             F == CHOOSE G : Kept(G)
  <1>1. N \in Nat /\ e \in T /\ step \in [1..N -> [T -> T]]
    <2>1. \A i \in 1..N : s[i] \in Byte
      OBVIOUS
    <2>2. ASSUME NEW i \in 1..N, NEW r \in T PROVE (IF s[i] = 0 THEN r ELSE Append(r, s[i])) \in T
      BY <2>1
    <2> QED BY <2>2
  <1>2. ASSUME NEW i \in 1..N, NEW r \in T
        PROVE  step[i][r] = IF s[i] = 0 THEN r ELSE Append(r, s[i])
    OBVIOUS
  <1>3. \E g : Kept(g)
    <2>1. PICK g : Steps(g, N, T, e, step)
      <3> HIDE DEF N, T, step, e, Kept
      <3> QED BY <1>1, Recursion, Zenon
    <2>2. /\ g = [i \in 0..N |-> g[i]] /\ g[0] = <<>>
          /\ \A i \in 1..N : g[i - 1] \in T /\ g[i] = step[i][g[i - 1]]
      <3>1. \A i \in 1..N : i - 1 \in 0..N
        BY <1>1
      <3> HIDE DEF step, T
      <3> QED BY <2>1, <3>1 DEF Steps
    <2>3. ASSUME NEW i \in 0..N
          PROVE  g[i] = IF i = 0 THEN <<>>
                        ELSE IF s[i] = 0 THEN g[i - 1] ELSE Append(g[i - 1], s[i])
      <3>1. i = 0 \/ i \in 1..N
        BY <1>1
      <3> HIDE DEF step, T
      <3> QED BY <1>2, <2>2, <3>1
    <2>4. Kept(g)
      <3> HIDE DEF step, T
      <3> QED BY <2>2, <2>3
    <2> QED BY <2>4
  <1>4. Kept(F)
    <2> HIDE DEF Kept
    <2> QED BY <1>3
  <1>5. F = [i \in 0..N |-> F[i]] /\ F[0] = <<>>
        /\ \A i \in 1..N : F[i] = IF s[i] = 0 THEN F[i - 1] ELSE Append(F[i - 1], s[i])
    <2>1. 0 \in 0..N /\ \A i \in 1..N : i \in 0..N /\ i # 0
      BY <1>1
    <2> HIDE DEF F
    <2> QED BY <1>4, <2>1
  <1>6. Steps(F, N, T, e, step)
    <2>1. \A i \in 1..N : F[i - 1] \in T => F[i] = step[i][F[i - 1]]
      <3> HIDE DEF F, T, step
      <3> QED BY <1>2, <1>5
    <2>2. F[0] = e
      BY <1>5
    <2> HIDE DEF F, T, step, e, N, Kept
    <2>3. F = [i \in 0..N |-> F[i]]
      BY <1>5
    <2> QED BY <1>1, <2>1, <2>2, <2>3, Taken, Zenon
  <1>7. F \in [0..N -> T] /\ F[N] = NonZero(s)
    <2>1. F[N] = NonZero(s)
      BY DEF NonZero
    <2> HIDE DEF F, T, step
    <2> QED BY <1>6, <2>1 DEF Steps
  <1> HIDE DEF F
  <1> QED BY <1>5, <1>7

\* What the relays have built their paths from, relay by relay.
LEMMA FlatMakes ==
    ASSUME Types
    PROVE  /\ Flat \in [0..Hops -> Seq(Byte)] /\ Flat[0] = <<>>
           /\ \A i \in 1..Hops : Flat[i] = Flat[i - 1] \o eaten[i]
  <1> DEFINE N == Hops
             T == Seq(Byte)
             e == <<>>
             step == [i \in 1..N |-> [r \in T |-> r \o eaten[i]]]
             Kept(F) == F = [i \in 0..Hops |-> IF i = 0 THEN <<>> ELSE F[i - 1] \o eaten[i]]
  <1>1. N \in Nat /\ e \in T /\ step \in [1..N -> [T -> T]]
    <2>1. \A i \in 1..N : eaten[i] \in T
      BY DEF Types, Relays
    <2>2. ASSUME NEW i \in 1..N, NEW r \in T PROVE r \o eaten[i] \in T
      BY <2>1
    <2>3. N \in Nat
      BY SizesAssumption
    <2> QED BY <2>2, <2>3
  <1>2. ASSUME NEW i \in 1..N, NEW r \in T PROVE step[i][r] = r \o eaten[i]
    OBVIOUS
  <1>3. \E g : Kept(g)
    <2>1. PICK g : Steps(g, N, T, e, step)
      <3> HIDE DEF N, T, step, e, Kept
      <3> QED BY <1>1, Recursion, Zenon
    <2>2. /\ g = [i \in 0..N |-> g[i]] /\ g[0] = <<>>
          /\ \A i \in 1..N : g[i - 1] \in T /\ g[i] = step[i][g[i - 1]]
      <3>1. \A i \in 1..N : i - 1 \in 0..N
        BY <1>1
      <3> HIDE DEF step, T
      <3> QED BY <2>1, <3>1 DEF Steps
    <2>3. ASSUME NEW i \in 0..N PROVE g[i] = IF i = 0 THEN <<>> ELSE g[i - 1] \o eaten[i]
      <3>1. i = 0 \/ i \in 1..N
        BY <1>1
      <3> HIDE DEF step, T
      <3> QED BY <1>2, <2>2, <3>1
    <2>4. Kept(g)
      <3> HIDE DEF step, T
      <3> QED BY <2>2, <2>3
    <2> QED BY <2>4
  <1>4. Kept(Flat)
    <2>1. Flat = CHOOSE F : Kept(F)
      BY DEF Flat
    <2> HIDE DEF Kept
    <2> QED BY <1>3, <2>1
  <1>5. Flat = [i \in 0..N |-> Flat[i]] /\ Flat[0] = <<>>
        /\ \A i \in 1..N : Flat[i] = Flat[i - 1] \o eaten[i]
    <2>1. 0 \in 0..N /\ \A i \in 1..N : i \in 0..N /\ i # 0
      BY <1>1
    <2> QED BY <1>4, <2>1
  <1>6. Steps(Flat, N, T, e, step)
    <2>1. \A i \in 1..N : Flat[i - 1] \in T => Flat[i] = step[i][Flat[i - 1]]
      <3> HIDE DEF T, step
      <3> QED BY <1>2, <1>5
    <2>2. Flat[0] = e
      BY <1>5
    <2> HIDE DEF T, step, e, N, Kept
    <2>3. Flat = [i \in 0..N |-> Flat[i]]
      BY <1>5
    <2> QED BY <1>1, <2>1, <2>2, <2>3, Taken, Zenon
  <1>7. Flat \in [0..N -> T]
    <2> HIDE DEF T, step
    <2> QED BY <1>6 DEF Steps
  <1> QED BY <1>5, <1>7

\* What is on its way, link by link.
LEMMA PendingMakes ==
    ASSUME Types
    PROVE  /\ Pending \in [0..Hops + 1 -> Seq(Byte)] /\ Pending[0] = <<>>
           /\ \A i \in 1..Hops + 1 : Pending[i] = link[i] \o Pending[i - 1]
  <1> DEFINE N == Hops + 1
             T == Seq(Byte)
             e == <<>>
             step == [i \in 1..N |-> [r \in T |-> link[i] \o r]]
             Kept(F) == F = [i \in 0..Hops + 1 |-> IF i = 0 THEN <<>> ELSE link[i] \o F[i - 1]]
  <1>1. N \in Nat /\ e \in T /\ step \in [1..N -> [T -> T]]
    <2>1. \A i \in 1..N : link[i] \in T
      BY DEF Types, Relays
    <2>2. ASSUME NEW i \in 1..N, NEW r \in T PROVE link[i] \o r \in T
      BY <2>1
    <2>3. N \in Nat
      BY SizesAssumption
    <2> QED BY <2>2, <2>3
  <1>2. ASSUME NEW i \in 1..N, NEW r \in T PROVE step[i][r] = link[i] \o r
    OBVIOUS
  <1>3. \E g : Kept(g)
    <2>1. PICK g : Steps(g, N, T, e, step)
      <3> HIDE DEF N, T, step, e, Kept
      <3> QED BY <1>1, Recursion, Zenon
    <2>2. /\ g = [i \in 0..N |-> g[i]] /\ g[0] = <<>>
          /\ \A i \in 1..N : g[i - 1] \in T /\ g[i] = step[i][g[i - 1]]
      <3>1. \A i \in 1..N : i - 1 \in 0..N
        BY <1>1
      <3> HIDE DEF step, T
      <3> QED BY <2>1, <3>1 DEF Steps
    <2>3. ASSUME NEW i \in 0..N PROVE g[i] = IF i = 0 THEN <<>> ELSE link[i] \o g[i - 1]
      <3>1. i = 0 \/ i \in 1..N
        BY <1>1
      <3> HIDE DEF step, T
      <3> QED BY <1>2, <2>2, <3>1
    <2>4. Kept(g)
      <3> HIDE DEF step, T
      <3> QED BY <2>2, <2>3
    <2> QED BY <2>4
  <1>4. Kept(Pending)
    <2>1. Pending = CHOOSE F : Kept(F)
      BY DEF Pending
    <2> HIDE DEF Kept
    <2> QED BY <1>3, <2>1
  <1>5. Pending = [i \in 0..N |-> Pending[i]] /\ Pending[0] = <<>>
        /\ \A i \in 1..N : Pending[i] = link[i] \o Pending[i - 1]
    <2>1. 0 \in 0..N /\ \A i \in 1..N : i \in 0..N /\ i # 0
      BY <1>1
    <2> QED BY <1>4, <2>1
  <1>6. Steps(Pending, N, T, e, step)
    <2>1. \A i \in 1..N : Pending[i - 1] \in T => Pending[i] = step[i][Pending[i - 1]]
      <3> HIDE DEF T, step
      <3> QED BY <1>2, <1>5
    <2>2. Pending[0] = e
      BY <1>5
    <2> HIDE DEF T, step, e, N, Kept
    <2>3. Pending = [i \in 0..N |-> Pending[i]]
      BY <1>5
    <2> QED BY <1>1, <2>1, <2>2, <2>3, Taken, Zenon
  <1>7. Pending \in [0..N -> T]
    <2> HIDE DEF T, step
    <2> QED BY <1>6 DEF Steps
  <1> QED BY <1>5, <1>7
------------------------------------------------------------------------------
(* A stretch of bytes with zeroes strewn in.                               *)

\* Of the first i bytes of x, c[i] are y's first, in order, and the others are zero.
Counts(c, x, y) ==
    /\ c \in [0..Len(x) -> Nat] /\ c[0] = 0 /\ c[Len(x)] = Len(y)
    /\ \A i \in 1..Len(x) : \/ c[i] = c[i - 1] /\ x[i] = 0
                            \/ c[i] = c[i - 1] + 1 /\ x[i] = y[c[i]]

Spread(x, y) == \E c : Counts(c, x, y)

\* Counts grow, and by no more than one a byte.
LEMMA CountsGrow ==
    ASSUME NEW x \in Seq(Byte), NEW y \in Seq(Byte), NEW c, Counts(c, x, y)
    PROVE  /\ \A i, j \in 0..Len(x) : i <= j => c[i] <= c[j] /\ c[j] <= c[i] + (j - i)
           /\ \A i \in 0..Len(x) : c[i] \in 0..Len(y) /\ c[i] <= i
  <1>1. /\ c \in [0..Len(x) -> Nat] /\ c[0] = 0 /\ c[Len(x)] = Len(y) /\ Len(x) \in Nat
        /\ \A i \in 1..Len(x) : i - 1 \in 0..Len(x) /\ (c[i] = c[i - 1] \/ c[i] = c[i - 1] + 1)
    BY DEF Counts
  <1>2. ASSUME NEW i \in 0..Len(x), NEW j \in 0..Len(x), i <= j
        PROVE  c[i] <= c[j] /\ c[j] <= c[i] + (j - i)
    <2> DEFINE S == {d \in Nat : i + d <= Len(x) => c[i] <= c[i + d] /\ c[i + d] <= c[i] + d}
    <2>1. 0 \in S
      BY <1>1
    <2>2. ASSUME NEW d \in Nat, d \in S PROVE d + 1 \in S
      <3> SUFFICES ASSUME i + (d + 1) <= Len(x)
                   PROVE  c[i] <= c[i + (d + 1)] /\ c[i + (d + 1)] <= c[i] + (d + 1)
        OBVIOUS
      <3> DEFINE k == i + (d + 1)
      <3>1. k \in 1..Len(x) /\ k - 1 = i + d /\ i + d <= Len(x)
        BY <1>1
      <3>2. c[i] <= c[i + d] /\ c[i + d] <= c[i] + d /\ i + d \in 0..Len(x)
        BY <1>1, <2>2, <3>1
      <3>3. c[k] = c[i + d] \/ c[k] = c[i + d] + 1
        BY <1>1, <3>1
      <3> HIDE DEF k
      <3>4. c[k] \in Nat /\ c[i] \in Nat /\ c[i + d] \in Nat
        <4>1. k \in 0..Len(x)
          BY <1>1, <3>1
        <4> QED BY <1>1, <3>2, <4>1
      <3>5. c[i] <= c[k] /\ c[k] <= c[i] + (d + 1)
        BY SMTT(30), <3>2, <3>3, <3>4
      <3> QED BY <3>5 DEF k
    <2>3. j - i \in S
      <3>1. j - i \in Nat
        BY <1>1, <1>2
      <3> HIDE DEF S
      <3> QED BY <2>1, <2>2, <3>1, Induct
    <2>4. i + (j - i) = j
      BY <1>1
    <2> QED BY <1>1, <2>3, <2>4
  <1>3. ASSUME NEW i \in 0..Len(x) PROVE c[i] \in 0..Len(y) /\ c[i] <= i
    <2>1. 0 \in 0..Len(x) /\ Len(x) \in 0..Len(x) /\ 0 <= i /\ i <= Len(x) /\ i - 0 = i
      BY <1>1
    <2>2. c[0] <= c[i] /\ c[i] <= c[0] + (i - 0) /\ c[i] <= c[Len(x)]
      BY <1>2, <2>1
    <2> QED BY <1>1, <2>1, <2>2
  <1> QED BY <1>2, <1>3

\* Strewing in zeroes changes nothing else.
LEMMA SpreadNonZero ==
    ASSUME NEW x \in Seq(Byte), NEW y \in Seq(Byte), Spread(x, y)
    PROVE  NonZero(x) = NonZero(y)
  <1>1. PICK c : Counts(c, x, y)
    BY DEF Spread
  <1>2. PICK f \in [0..Len(x) -> Seq(Byte)] :
              /\ f[0] = <<>> /\ f[Len(x)] = NonZero(x)
              /\ \A i \in 1..Len(x) : f[i] = IF x[i] = 0 THEN f[i - 1] ELSE Append(f[i - 1], x[i])
    BY NonZeroMakes
  <1>3. PICK g \in [0..Len(y) -> Seq(Byte)] :
              /\ g[0] = <<>> /\ g[Len(y)] = NonZero(y)
              /\ \A i \in 1..Len(y) : g[i] = IF y[i] = 0 THEN g[i - 1] ELSE Append(g[i - 1], y[i])
    BY NonZeroMakes
  <1> DEFINE S == {n \in Nat : n <= Len(x) => f[n] = g[c[n]]}
  <1>4. 0 \in S
    BY <1>1, <1>2, <1>3 DEF Counts
  <1>5. ASSUME NEW n \in Nat, n \in S PROVE n + 1 \in S
    <2> SUFFICES ASSUME n + 1 <= Len(x) PROVE f[n + 1] = g[c[n + 1]]
      OBVIOUS
    <2>1. n + 1 \in 1..Len(x) /\ (n + 1) - 1 = n /\ n \in 0..Len(x) /\ n + 1 \in 0..Len(x)
      OBVIOUS
    <2>2. f[n] = g[c[n]]
      BY <1>5, <2>1
    <2>3. f[n + 1] = IF x[n + 1] = 0 THEN f[n] ELSE Append(f[n], x[n + 1])
      BY <1>2, <2>1
    <2>4. CASE c[n + 1] = c[n] /\ x[n + 1] = 0
      BY <2>2, <2>3, <2>4
    <2>5. CASE c[n + 1] = c[n] + 1 /\ x[n + 1] = y[c[n + 1]]
      <3>1. c[n + 1] \in 0..Len(y) /\ c[n] \in 0..Len(y)
        BY <1>1, <2>1, CountsGrow
      <3>2. c[n + 1] \in 1..Len(y) /\ c[n + 1] - 1 = c[n]
        BY <2>5, <3>1
      <3>3. g[c[n + 1]] = IF y[c[n + 1]] = 0 THEN g[c[n]] ELSE Append(g[c[n]], y[c[n + 1]])
        BY <1>3, <3>2
      <3> QED BY <2>2, <2>3, <2>5, <3>3
    <2> QED BY <1>1, <2>1, <2>4, <2>5 DEF Counts
  <1>6. Len(x) \in S
    <2>1. Len(x) \in Nat
      OBVIOUS
    <2> HIDE DEF S
    <2> QED BY <1>4, <1>5, <2>1, Induct
  <1>7. f[Len(x)] = g[c[Len(x)]] /\ c[Len(x)] = Len(y)
    BY <1>1, <1>6 DEF Counts
  <1> QED BY <1>2, <1>3, <1>7

LEMMA SpreadSame == ASSUME NEW y \in Seq(Byte) PROVE Spread(y, y)
  <1> DEFINE c == [i \in 0..Len(y) |-> i]
  <1>1. Counts(c, y, y)
    BY DEF Counts
  <1> QED BY <1>1 DEF Spread

\* Zeroes alone are nothing.
LEMMA SpreadZeros ==
    ASSUME NEW x \in Seq(Byte), \A i \in 1..Len(x) : x[i] = 0
    PROVE  Spread(x, <<>>)
  <1> DEFINE c == [i \in 0..Len(x) |-> 0]
  <1>1. Counts(c, x, <<>>)
    BY DEF Counts
  <1> QED BY <1>1 DEF Spread

LEMMA SpreadJoin ==
    ASSUME NEW x \in Seq(Byte), NEW y \in Seq(Byte), NEW u \in Seq(Byte), NEW v \in Seq(Byte),
           Spread(x, y), Spread(u, v)
    PROVE  Spread(x \o u, y \o v)
  <1>1. PICK c : Counts(c, x, y)
    BY DEF Spread
  <1>2. PICK d : Counts(d, u, v)
    BY DEF Spread
  <1> DEFINE M == Len(x)
             N == Len(u)
             b == x \o u
             w == y \o v
             e == [i \in 0..M + N |-> IF i <= M THEN c[i] ELSE Len(y) + d[i - M]]
  <1>3. /\ M \in Nat /\ N \in Nat /\ Len(y) \in Nat /\ Len(v) \in Nat
        /\ Len(b) = M + N /\ Len(w) = Len(y) + Len(v)
    BY Behind
  <1>4. /\ \A i \in 1..M : b[i] = x[i]
        /\ \A i \in 1..N : b[M + i] = u[i]
        /\ \A i \in 1..Len(y) : w[i] = y[i]
        /\ \A i \in 1..Len(v) : w[Len(y) + i] = v[i]
    BY Behind, Zenon
  <1>5. /\ c \in [0..M -> Nat] /\ c[0] = 0 /\ c[M] = Len(y)
        /\ d \in [0..N -> Nat] /\ d[0] = 0 /\ d[N] = Len(v)
        /\ \A i \in 0..M : c[i] \in 0..Len(y)
        /\ \A i \in 0..N : d[i] \in 0..Len(v)
    BY <1>1, <1>2, CountsGrow DEF Counts
  <1>6. e \in [0..M + N -> Nat]
    <2>1. ASSUME NEW i \in 0..M + N PROVE (IF i <= M THEN c[i] ELSE Len(y) + d[i - M]) \in Nat
      <3>1. CASE i <= M
        <4>1. i \in 0..M
          BY <1>3, <3>1
        <4> QED BY <1>5, <3>1, <4>1
      <3>2. CASE ~ (i <= M)
        <4>1. i - M \in 0..N
          BY <1>3, <3>2
        <4>2. d[i - M] \in Nat
          BY <1>5, <4>1
        <4> QED BY <1>3, <3>2, <4>2
      <3> QED BY <3>1, <3>2
    <2> QED BY <2>1
  <1>7. /\ \A i \in 0..M : e[i] = c[i]
        /\ \A i \in 0..N : e[M + i] = Len(y) + d[i]
    <2>1. ASSUME NEW i \in 0..M PROVE e[i] = c[i]
      <3>1. i \in 0..M + N /\ i <= M
        BY <1>3
      <3> QED BY <3>1
    <2>2. ASSUME NEW i \in 0..N PROVE e[M + i] = Len(y) + d[i]
      <3>1. M + i \in 0..M + N /\ (M + i) - M = i
        BY <1>3
      <3>2. CASE i = 0
        BY <1>3, <1>5, <3>1, <3>2
      <3>3. CASE i # 0
        <4>1. ~ (M + i <= M)
          BY <1>3, <3>3
        <4> QED BY <3>1, <4>1
      <3> QED BY <3>2, <3>3
    <2> QED BY <2>1, <2>2
  <1> HIDE DEF e, b, w
  <1>8. e[0] = 0 /\ e[M + N] = Len(w)
    <2>1. 0 \in 0..M /\ N \in 0..N
      BY <1>3
    <2> QED BY <1>3, <1>5, <1>7, <2>1
  <1>9. ASSUME NEW i \in 1..M + N
        PROVE  \/ e[i] = e[i - 1] /\ b[i] = 0
               \/ e[i] = e[i - 1] + 1 /\ b[i] = w[e[i]]
    <2>1. CASE i <= M
      <3>1. i \in 1..M /\ i \in 0..M /\ i - 1 \in 0..M
        BY <1>3, <2>1
      <3>2. e[i] = c[i] /\ e[i - 1] = c[i - 1] /\ b[i] = x[i]
        BY <1>4, <1>7, <3>1
      <3>3. \/ c[i] = c[i - 1] /\ x[i] = 0
            \/ c[i] = c[i - 1] + 1 /\ x[i] = y[c[i]]
        BY <1>1, <3>1 DEF Counts
      <3>4. c[i] = c[i - 1] + 1 => w[c[i]] = y[c[i]]
        <4>1. c[i] \in 0..Len(y) /\ c[i - 1] \in 0..Len(y)
          BY <1>5, <3>1
        <4>2. c[i] = c[i - 1] + 1 => c[i] \in 1..Len(y)
          BY <4>1
        <4> QED BY <1>4, <4>2
      <3> QED BY <3>2, <3>3, <3>4
    <2>2. CASE i > M
      <3> DEFINE j == i - M
      <3>1. j \in 1..N /\ j \in 0..N /\ j - 1 \in 0..N /\ M + j = i /\ M + (j - 1) = i - 1
        BY <1>3, <2>2
      <3> HIDE DEF j
      <3>2. e[i] = Len(y) + d[j] /\ e[i - 1] = Len(y) + d[j - 1] /\ b[i] = u[j]
        BY <1>4, <1>7, <3>1
      <3>3. \/ d[j] = d[j - 1] /\ u[j] = 0
            \/ d[j] = d[j - 1] + 1 /\ u[j] = v[d[j]]
        BY <1>2, <3>1 DEF Counts
      <3>4. d[j] \in Nat /\ d[j - 1] \in Nat
        BY <1>5, <3>1
      <3>5. d[j] = d[j - 1] + 1 => w[Len(y) + d[j]] = v[d[j]]
        <4>1. d[j] \in 0..Len(v)
          BY <1>5, <3>1
        <4>2. d[j] = d[j - 1] + 1 => d[j] \in 1..Len(v)
          BY <3>4, <4>1
        <4> QED BY <1>4, <4>2
      <3> QED BY SMTT(30), <1>3, <3>2, <3>3, <3>4, <3>5
    <2> QED BY <1>3, <2>1, <2>2
  <1>10. Counts(e, b, w)
    BY <1>3, <1>6, <1>8, <1>9 DEF Counts
  <1> QED BY <1>10 DEF Spread, b, w

\* A cut through the bytes cuts what they come from.
LEMMA SpreadCut ==
    ASSUME NEW x \in Seq(Byte), NEW y \in Seq(Byte), NEW c, Counts(c, x, y),
           NEW n \in 0..Len(x)
    PROVE  /\ Spread(First(x, n), First(y, c[n]))
           /\ Spread(Rest(x, n), Rest(y, c[n]))
  <1>1. /\ c \in [0..Len(x) -> Nat] /\ c[0] = 0 /\ c[Len(x)] = Len(y)
        /\ Len(x) \in Nat /\ Len(y) \in Nat
        /\ \A i \in 1..Len(x) : \/ c[i] = c[i - 1] /\ x[i] = 0
                                \/ c[i] = c[i - 1] + 1 /\ x[i] = y[c[i]]
    BY DEF Counts
  <1>2. /\ \A i, j \in 0..Len(x) : i <= j => c[i] <= c[j]
        /\ \A i \in 0..Len(x) : c[i] \in 0..Len(y)
    BY CountsGrow
  <1> DEFINE m == c[n]
  <1>3. m \in 0..Len(y) /\ m \in Nat /\ n \in Nat
    BY <1>1, <1>2
  <1> HIDE DEF m
  <1>4. Spread(First(x, n), First(y, m))
    <2> DEFINE u == First(x, n)
               v == First(y, m)
               e == [i \in 0..n |-> c[i]]
    <2>1. /\ u \in Seq(Byte) /\ Len(u) = n /\ \A i \in 1..n : u[i] = x[i]
          /\ v \in Seq(Byte) /\ Len(v) = m /\ \A i \in 1..m : v[i] = y[i]
      BY <1>1, <1>3 DEF First
    <2>2. \A i \in 0..n : i \in 0..Len(x) /\ c[i] \in Nat /\ c[i] <= m
      BY <1>1, <1>2 DEF m
    <2>3. e \in [0..n -> Nat] /\ e[0] = 0 /\ e[n] = m
      BY <1>1, <1>3, <2>2 DEF m
    <2>4. ASSUME NEW i \in 1..n
          PROVE  \/ e[i] = e[i - 1] /\ u[i] = 0
                 \/ e[i] = e[i - 1] + 1 /\ u[i] = v[e[i]]
      <3>1. i \in 1..Len(x) /\ i \in 0..n /\ i - 1 \in 0..n
        BY <1>1, <1>3
      <3>2. e[i] = c[i] /\ e[i - 1] = c[i - 1] /\ u[i] = x[i]
        BY <2>1, <3>1
      <3>3. c[i] = c[i - 1] + 1 => v[c[i]] = y[c[i]]
        <4>1. c[i] \in Nat /\ c[i - 1] \in Nat /\ c[i] <= m
          BY <2>2, <3>1
        <4>2. c[i] = c[i - 1] + 1 => c[i] \in 1..m
          BY <1>3, <4>1
        <4> HIDE DEF v
        <4> QED BY <2>1, <4>2
      <3> HIDE DEF e, u, v
      <3> QED BY <1>1, <3>1, <3>2, <3>3
    <2> HIDE DEF e, u, v
    <2>5. Counts(e, u, v)
      BY <2>1, <2>3, <2>4 DEF Counts
    <2> QED BY <2>5 DEF Spread, u, v
  <1>5. Spread(Rest(x, n), Rest(y, m))
    <2> DEFINE u == Rest(x, n)
               v == Rest(y, m)
               M == Len(x) - n
               N == Len(y) - m
               e == [i \in 0..M |-> c[n + i] - m]
    <2>1. /\ u \in Seq(Byte) /\ Len(u) = M /\ \A i \in 1..M : u[i] = x[n + i]
          /\ v \in Seq(Byte) /\ Len(v) = N /\ \A i \in 1..N : v[i] = y[m + i]
          /\ M \in Nat /\ N \in Nat
      BY <1>1, <1>3 DEF Rest
    <2>2. ASSUME NEW i \in 0..M PROVE n + i \in 0..Len(x) /\ c[n + i] \in Nat /\ c[n + i] - m \in 0..N
      <3>1. n + i \in 0..Len(x) /\ n <= n + i
        BY <1>1, <1>3
      <3>2. c[n + i] \in 0..Len(y) /\ m <= c[n + i]
        BY <1>2, <3>1 DEF m
      <3> QED BY <1>1, <1>3, <3>1, <3>2
    <2>3. e \in [0..M -> Nat] /\ e[0] = 0 /\ e[M] = N
      <3>1. e \in [0..M -> Nat]
        <4>0. \A z \in 0..N : z \in Nat
          BY <2>1
        <4>1. \A i \in 0..M : c[n + i] - m \in Nat
          <5> HIDE DEF M, N
          <5> QED BY <2>2, <4>0, Zenon
        <4> HIDE DEF m, M
        <4> QED BY <4>1
      <3>2. n + 0 = n /\ n + M = Len(x) /\ 0 \in 0..M /\ M \in 0..M
        BY <1>1, <1>3, <2>1
      <3>3. e[0] = c[n] - m /\ e[M] = c[Len(x)] - m
        BY <3>2
      <3>4. c[n] = m /\ c[Len(x)] = Len(y)
        BY <1>1 DEF m
      <3> HIDE DEF e
      <3> QED BY <1>1, <1>3, <3>1, <3>3, <3>4
    <2>4. ASSUME NEW i \in 1..M
          PROVE  \/ e[i] = e[i - 1] /\ u[i] = 0
                 \/ e[i] = e[i - 1] + 1 /\ u[i] = v[e[i]]
      <3>1. /\ i \in 0..M /\ i - 1 \in 0..M /\ n + i \in 1..Len(x)
            /\ (n + i) - 1 = n + (i - 1)
        BY <1>1, <1>3, <2>1
      <3>2. e[i] = c[n + i] - m /\ e[i - 1] = c[n + (i - 1)] - m /\ u[i] = x[n + i]
        BY <2>1, <3>1
      <3>3. \/ c[n + i] = c[n + (i - 1)] /\ x[n + i] = 0
            \/ c[n + i] = c[n + (i - 1)] + 1 /\ x[n + i] = y[c[n + i]]
        <4>1. \/ c[n + i] = c[(n + i) - 1] /\ x[n + i] = 0
              \/ c[n + i] = c[(n + i) - 1] + 1 /\ x[n + i] = y[c[n + i]]
          BY <1>1, <3>1
        <4> QED BY <3>1, <4>1
      <3>4. c[n + i] \in Nat /\ c[n + (i - 1)] \in Nat /\ c[n + i] - m \in 0..N /\ c[n + (i - 1)] - m \in 0..N
        BY <2>2, <3>1
      <3>5. c[n + i] = c[n + (i - 1)] + 1 => v[c[n + i] - m] = y[c[n + i]]
        <4>1. c[n + i] = c[n + (i - 1)] + 1 => c[n + i] - m \in 1..N /\ m + (c[n + i] - m) = c[n + i]
          <5> DEFINE p == c[n + i]
                     q == c[n + (i - 1)]
          <5>1. p \in Nat /\ q \in Nat /\ p - m \in 0..N /\ q - m \in 0..N /\ m \in Nat /\ N \in Nat
            BY <1>3, <2>1, <3>4
          <5> HIDE DEF p, q, N
          <5>2. p = q + 1 => p - m \in 1..N /\ m + (p - m) = p
            BY <5>1
          <5> QED BY <5>2 DEF p, q
        <4> HIDE DEF v
        <4> QED BY <2>1, <4>1
      <3> DEFINE p == c[n + i]
                 q == c[n + (i - 1)]
      <3>6. /\ p \in Nat /\ q \in Nat /\ m \in Nat /\ e[i] = p - m /\ e[i - 1] = q - m
            /\ (p = q /\ u[i] = 0) \/ (p = q + 1 /\ u[i] = y[p])
            /\ p = q + 1 => v[p - m] = y[p]
        BY <1>3, <3>2, <3>3, <3>4, <3>5
      <3> HIDE DEF e, u, v, p, q
      <3> QED BY <3>6
    <2> HIDE DEF e, u, v, M, N
    <2>5. Counts(e, u, v)
      BY <2>1, <2>3, <2>4 DEF Counts
    <2> QED BY <2>5 DEF Spread, u, v
  <1> QED BY <1>4, <1>5 DEF m

\* The k bytes behind the first a are not zero.
Run(x, a, k) == a + k <= Len(x) /\ \A i \in 1..k : x[a + i] # 0

\* They come from bytes that also stand one behind the other.
RunKept(c, x, y, a, k) ==
    /\ \A i \in 0..k : c[a + i] = c[a] + i
    /\ \A i \in 1..k : x[a + i] = y[c[a] + i]

LEMMA SpreadRun ==
    ASSUME NEW x \in Seq(Byte), NEW y \in Seq(Byte), NEW c, Counts(c, x, y),
           NEW a \in Nat, NEW k \in Nat, Run(x, a, k)
    PROVE  RunKept(c, x, y, a, k)
  <1>0. a + k <= Len(x) /\ \A i \in 1..k : x[a + i] # 0
    BY DEF Run
  <1>1. /\ c \in [0..Len(x) -> Nat] /\ Len(x) \in Nat
        /\ \A i \in 1..Len(x) : \/ c[i] = c[i - 1] /\ x[i] = 0
                                \/ c[i] = c[i - 1] + 1 /\ x[i] = y[c[i]]
    BY DEF Counts
  <1>2. ASSUME NEW i \in 1..k
        PROVE  c[a + i] = c[a + (i - 1)] + 1 /\ x[a + i] = y[c[a + i]]
    <2>1. a + i \in 1..Len(x) /\ (a + i) - 1 = a + (i - 1)
      BY <1>0, <1>1
    <2>0. x[a + i] # 0
      BY <1>0
    <2>2. \/ c[a + i] = c[(a + i) - 1] /\ x[a + i] = 0
          \/ c[a + i] = c[(a + i) - 1] + 1 /\ x[a + i] = y[c[a + i]]
      BY <1>1, <2>1
    <2> QED BY <2>0, <2>1, <2>2
  <1> DEFINE S == {d \in Nat : d <= k => c[a + d] = c[a] + d}
  <1>3. 0 \in S
    <2>1. a \in 0..Len(x) /\ a + 0 = a
      BY <1>0, <1>1
    <2>2. c[a] \in Nat
      BY <1>1, <2>1
    <2> QED BY <2>1, <2>2
  <1>4. ASSUME NEW d \in Nat, d \in S PROVE d + 1 \in S
    <2> SUFFICES ASSUME d + 1 <= k PROVE c[a + (d + 1)] = c[a] + (d + 1)
      OBVIOUS
    <2>1. d + 1 \in 1..k /\ (d + 1) - 1 = d /\ a \in 0..Len(x)
      BY <1>0, <1>1
    <2>2. c[a + d] = c[a] + d
      BY <1>4, <2>1
    <2>3. c[a] \in Nat
      BY <1>1, <2>1
    <2>4. c[a + (d + 1)] = c[a + ((d + 1) - 1)] + 1
      BY <1>2, <2>1, Zenon
    <2>5. c[a + (d + 1)] = c[a + d] + 1
      BY <2>1, <2>4
    <2> DEFINE p == c[a + (d + 1)]
               r == c[a]
    <2>6. p = (r + d) + 1 /\ r \in Nat
      BY <2>2, <2>3, <2>5
    <2> HIDE DEF p, r
    <2>7. p = r + (d + 1)
      BY <2>6
    <2> QED BY <2>7 DEF p, r
  <1>5. \A i \in 0..k : c[a + i] = c[a] + i
    <2>1. Nat \subseteq S
      <3> HIDE DEF S
      <3> QED BY <1>3, <1>4, Induct
    <2> QED BY <2>1
  <1>6. ASSUME NEW i \in 1..k PROVE x[a + i] = y[c[a] + i]
    <2>1. i \in 0..k
      OBVIOUS
    <2> QED BY <1>2, <1>5, <2>1
  <1> QED BY <1>5, <1>6 DEF RunKept
------------------------------------------------------------------------------
(* The parts of what was written that links and reads come from.           *)

\* Hop h has passed on, or built its path from, the first low[h] bytes of what
\* was written; hop 0 is the client.  What is on its way to h comes from the
\* bytes up to low[h - 1], and its own read came from those behind at[h].
Streams(low, at) ==
    /\ low \in [0..Hops + 1 -> Nat] /\ at \in [1..Hops + 1 -> Nat]
    /\ low[0] = Len(written) /\ at[1] = 0 /\ at[Hops + 1] = low[Hops + 1]
    /\ \A h \in 1..Hops + 1 :
          /\ low[h] <= low[h - 1] /\ low[h - 1] <= low[0]
          /\ Spread(link[h], Part(written, low[h], low[h - 1]))
          /\ at[h] <= Start(h - 1) /\ at[h] <= low[0]
    /\ \A h \in Relays :
          /\ at[h] <= at[h + 1]
          /\ Spread(eaten[h], Part(written, at[h], at[h + 1]))
          /\ hop[h] = Waiting =>
                /\ \A j \in h..Hops + 1 : low[j] = low[h] /\ at[j] = low[h]
                /\ \A j \in h..Hops : eaten[j] = <<>>
                /\ \A j \in h + 1..Hops + 1 : link[j] = <<>>
          /\ hop[h] = Dead => link[h + 1] = <<>>

LEMMA Indices ==
    /\ Hops \in Nat /\ Hops > 0 /\ 0 \in 0..Hops + 1 /\ 1 \in 1..Hops + 1 /\ Hops + 1 \in 1..Hops + 1
    /\ \A h \in 1..Hops + 1 : h \in Nat /\ h \in 0..Hops + 1 /\ h - 1 \in 0..Hops + 1 /\ h - 1 \in Nat
    /\ \A h \in Relays : /\ h \in 1..Hops + 1 /\ h + 1 \in 1..Hops + 1 /\ (h + 1) - 1 = h
                         /\ h # h + 1 /\ h # Hops + 1 /\ h \in Nat
  BY SizesAssumption DEF Relays

\* The numbers of Streams, and the sequences between them.
LEMMA StreamsFacts ==
    ASSUME Types, NEW low, NEW at, Streams(low, at)
    PROVE  /\ written \in Seq(Byte) /\ Len(written) \in Nat
           /\ \A h \in 1..Hops + 1 :
                 /\ low[h] \in Nat /\ low[h - 1] \in Nat /\ at[h] \in Nat
                 /\ low[h] <= low[h - 1] /\ low[h - 1] <= Len(written) /\ low[h] <= Len(written)
                 /\ at[h] <= Len(written)
                 /\ link[h] \in Seq(Byte)
           /\ \A h \in Relays : eaten[h] \in Seq(Byte) /\ at[h + 1] \in Nat /\ at[h] \in Nat
  <1>1. written \in Seq(Byte) /\ Len(written) \in Nat
    BY DEF Types, Blocks
  <1>2. ASSUME NEW h \in 1..Hops + 1
        PROVE  /\ low[h] \in Nat /\ low[h - 1] \in Nat /\ at[h] \in Nat
               /\ low[h] <= low[h - 1] /\ low[h - 1] <= Len(written) /\ low[h] <= Len(written)
               /\ at[h] <= Len(written)
               /\ link[h] \in Seq(Byte)
    <2>1. low[h] \in Nat /\ low[h - 1] \in Nat /\ at[h] \in Nat
      BY Indices DEF Streams
    <2>2. low[h] <= low[h - 1] /\ low[h - 1] <= Len(written) /\ at[h] <= Len(written)
      BY DEF Streams
    <2>3. link[h] \in Seq(Byte)
      BY DEF Types
    <2> QED BY <1>1, <2>1, <2>2, <2>3
  <1>3. ASSUME NEW h \in Relays PROVE eaten[h] \in Seq(Byte) /\ at[h + 1] \in Nat /\ at[h] \in Nat
    <2>1. h \in 1..Hops + 1 /\ h + 1 \in 1..Hops + 1
      BY Indices
    <2> QED BY <1>2, <2>1 DEF Types
  <1> QED BY <1>1, <1>2, <1>3

LEMMA PartsMeet ==
    ASSUME NEW s \in Seq(Byte), NEW a \in Nat, NEW m \in Nat, NEW z \in Nat,
           a <= m, m <= z, z <= Len(s)
    PROVE  /\ Part(s, a, m) \in Seq(Byte) /\ Part(s, m, z) \in Seq(Byte)
           /\ Part(s, a, m) \o Part(s, m, z) = Part(s, a, z)
  <1>1. m <= Len(s)
    OBVIOUS
  <1>2. Part(s, a, m) \in Seq(Byte)
    BY <1>1, PartFacts, Zenon
  <1>3. Part(s, m, z) \in Seq(Byte)
    BY PartFacts, Zenon
  <1>4. Part(s, a, m) \o Part(s, m, z) = Part(s, a, z)
    BY PartJoin, Zenon
  <1> QED BY <1>2, <1>3, <1>4

\* Read by read and link by link, the parts make all that was written.
LEMMA StreamsKeep ==
    ASSUME Types, NEW low, NEW at, Streams(low, at)
    PROVE  StreamKept
  <1>1. /\ Flat \in [0..Hops -> Seq(Byte)] /\ Flat[0] = <<>>
        /\ \A i \in 1..Hops : Flat[i] = Flat[i - 1] \o eaten[i]
    BY FlatMakes
  <1>2. /\ Pending \in [0..Hops + 1 -> Seq(Byte)] /\ Pending[0] = <<>>
        /\ \A i \in 1..Hops + 1 : Pending[i] = link[i] \o Pending[i - 1]
    BY PendingMakes
  <1>3. written \in Seq(Byte) /\ Len(written) \in Nat /\ Hops \in Nat /\ <<>> \in Seq(Byte)
    BY StreamsFacts, Indices
  <1> DEFINE S == {i \in Nat : i <= Hops => Spread(Flat[i], Part(written, 0, at[i + 1]))}
             U == {i \in Nat : i <= Hops + 1 => Spread(Pending[i], Part(written, low[i], low[0]))}
  <1>4. Hops \in S
    <2>1. 0 \in S
      <3>1. at[0 + 1] = 0 /\ Part(written, 0, 0) = <<>>
        BY <1>3, PartFacts DEF Streams
      <3>2. Spread(<<>>, <<>>)
        BY <1>3, SpreadSame
      <3>3. Spread(Flat[0], Part(written, 0, at[0 + 1]))
        BY <1>1, <3>1, <3>2
      <3> QED BY <3>3
    <2>2. ASSUME NEW i \in Nat, i \in S PROVE i + 1 \in S
      <3> SUFFICES ASSUME i + 1 <= Hops PROVE Spread(Flat[i + 1], Part(written, 0, at[(i + 1) + 1]))
        OBVIOUS
      <3> DEFINE h == i + 1
      <3>1. h \in Relays /\ h \in 1..Hops /\ h - 1 = i /\ i \in 0..Hops /\ h \in 1..Hops + 1 /\ h + 1 \in 1..Hops + 1
        BY <1>3, Indices DEF Relays
      <3>2. Spread(Flat[i], Part(written, 0, at[h]))
        BY <1>3, <2>2, <3>1
      <3> HIDE DEF h
      <3>3. Spread(eaten[h], Part(written, at[h], at[h + 1])) /\ at[h] <= at[h + 1]
        BY <3>1 DEF Streams
      <3>4. /\ at[h] \in Nat /\ at[h + 1] \in Nat /\ at[h + 1] <= Len(written) /\ at[h] <= Len(written)
            /\ 0 <= at[h] /\ 0 \in Nat /\ eaten[h] \in Seq(Byte) /\ Flat[i] \in Seq(Byte)
        <4>1. at[h] \in Nat /\ at[h + 1] \in Nat /\ at[h + 1] <= Len(written) /\ at[h] <= Len(written)
          BY <3>1, StreamsFacts
        <4>2. eaten[h] \in Seq(Byte) /\ Flat[i] \in Seq(Byte)
          BY <1>1, <3>1, StreamsFacts
        <4> QED BY <4>1, <4>2
      <3>5. /\ Part(written, 0, at[h]) \in Seq(Byte) /\ Part(written, at[h], at[h + 1]) \in Seq(Byte)
            /\ Part(written, 0, at[h]) \o Part(written, at[h], at[h + 1]) = Part(written, 0, at[h + 1])
        BY <1>3, <3>3, <3>4, PartsMeet, ZenonT(40)
      <3>6. Spread(Flat[i] \o eaten[h], Part(written, 0, at[h + 1]))
        <4>1. Spread(Flat[i] \o eaten[h], Part(written, 0, at[h]) \o Part(written, at[h], at[h + 1]))
          BY <3>2, <3>3, <3>4, <3>5, SpreadJoin, Zenon
        <4> QED BY <3>5, <4>1
      <3>7. Flat[h] = Flat[i] \o eaten[h]
        BY <1>1, <3>1
      <3> QED BY <3>6, <3>7 DEF h
    <2> HIDE DEF S
    <2> QED BY <1>3, <2>1, <2>2, Induct
  <1>5. Hops + 1 \in U
    <2>1. 0 \in U
      <3>1. Part(written, low[0], low[0]) = <<>>
        <4>1. low[0] \in Nat /\ low[0] <= Len(written) /\ low[0] <= low[0]
          BY <1>3 DEF Streams
        <4> QED BY <1>3, <4>1, PartFacts
      <3>2. Spread(<<>>, <<>>)
        BY <1>3, SpreadSame
      <3>3. Spread(Pending[0], Part(written, low[0], low[0]))
        BY <1>2, <3>1, <3>2
      <3> QED BY <3>3
    <2>2. ASSUME NEW i \in Nat, i \in U PROVE i + 1 \in U
      <3> SUFFICES ASSUME i + 1 <= Hops + 1 PROVE Spread(Pending[i + 1], Part(written, low[i + 1], low[0]))
        OBVIOUS
      <3> DEFINE h == i + 1
      <3>1. h \in 1..Hops + 1 /\ h - 1 = i /\ i \in 0..Hops + 1
        BY <1>3
      <3>2. Spread(Pending[i], Part(written, low[i], low[0]))
        BY <1>3, <2>2, <3>1
      <3> HIDE DEF h
      <3>3. Spread(link[h], Part(written, low[h], low[i]))
        BY <3>1 DEF Streams
      <3>4. /\ low[h] \in Nat /\ low[i] \in Nat /\ low[0] \in Nat /\ low[h] <= low[i]
            /\ low[i] <= low[0] /\ low[0] <= Len(written) /\ low[i] <= Len(written)
        <4>1. low[h] \in Nat /\ low[h - 1] \in Nat /\ low[h] <= low[h - 1] /\ low[h - 1] <= Len(written)
          BY <3>1, StreamsFacts
        <4>2. low[0] = Len(written) /\ Len(written) \in Nat
          BY <1>3 DEF Streams
        <4> QED BY <3>1, <4>1, <4>2
      <3>5. /\ Part(written, low[h], low[i]) \in Seq(Byte) /\ Part(written, low[i], low[0]) \in Seq(Byte)
            /\ Part(written, low[h], low[i]) \o Part(written, low[i], low[0]) = Part(written, low[h], low[0])
        BY <1>3, <3>4, PartsMeet, ZenonT(40)
      <3>6. link[h] \in Seq(Byte) /\ Pending[i] \in Seq(Byte)
        BY <1>2, <3>1 DEF Types
      <3>7. Spread(link[h] \o Pending[i], Part(written, low[h], low[0]))
        <4>1. Spread(link[h] \o Pending[i], Part(written, low[h], low[i]) \o Part(written, low[i], low[0]))
          BY <3>2, <3>3, <3>5, <3>6, SpreadJoin, Zenon
        <4> QED BY <3>5, <4>1
      <3>8. Pending[h] = link[h] \o Pending[i]
        BY <1>2, <3>1
      <3> QED BY <3>7, <3>8 DEF h
    <2>3. Hops + 1 \in Nat
      BY <1>3
    <2> HIDE DEF U
    <2> QED BY <2>1, <2>2, <2>3, Induct
  <1>6. /\ Spread(Flat[Hops], Part(written, 0, at[Hops + 1]))
        /\ Spread(Pending[Hops + 1], Part(written, low[Hops + 1], Len(written)))
    <2>1. Spread(Pending[Hops + 1], Part(written, low[Hops + 1], low[0])) /\ low[0] = Len(written)
      BY <1>3, <1>5 DEF Streams
    <2> QED BY <1>3, <1>4, <2>1
  <1> DEFINE z == at[Hops + 1]
  <1>7. low[Hops + 1] = z /\ z \in Nat /\ z <= Len(written) /\ 0 <= z /\ 0 \in Nat /\ Len(written) <= Len(written)
    <2>1. at[Hops + 1] \in Nat /\ at[Hops + 1] <= Len(written) /\ at[Hops + 1] = low[Hops + 1]
      BY Indices, StreamsFacts DEF Streams
    <2> QED BY <1>3, <2>1
  <1> HIDE DEF z
  <1>8. /\ Part(written, 0, z) \in Seq(Byte) /\ Part(written, z, Len(written)) \in Seq(Byte)
        /\ Part(written, 0, z) \o Part(written, z, Len(written)) = Part(written, 0, Len(written))
    BY <1>3, <1>7, PartsMeet, ZenonT(40)
  <1>9. Part(written, 0, Len(written)) = written
    BY <1>3 DEF Part
  <1>10. Flat[Hops] \in Seq(Byte) /\ Pending[Hops + 1] \in Seq(Byte)
    BY <1>1, <1>2, <1>3
  <1>11. Spread(Flat[Hops], Part(written, 0, z)) /\ Spread(Pending[Hops + 1], Part(written, z, Len(written)))
    BY <1>6, <1>7 DEF z
  <1>12. Spread(Flat[Hops] \o Pending[Hops + 1], written)
    <2>1. Spread(Flat[Hops] \o Pending[Hops + 1], Part(written, 0, z) \o Part(written, z, Len(written)))
      BY <1>8, <1>10, <1>11, SpreadJoin, Zenon
    <2> QED BY <1>8, <1>9, <2>1
  <1>13. Flat[Hops] \o Pending[Hops + 1] \in Seq(Byte)
    BY <1>10, Behind, Zenon
  <1> QED BY <1>3, <1>12, <1>13, SpreadNonZero DEF StreamKept

\* Of nothing, nothing is on its way.
LEMMA SpreadNothing == ASSUME NEW s \in Seq(Byte), NEW a \in Nat, a <= Len(s) PROVE Spread(<<>>, Part(s, a, a))
  <1>1. <<>> \in Seq(Byte) /\ Part(s, a, a) = <<>>
    BY PartFacts
  <1> QED BY <1>1, SpreadSame

LEMMA StreamsInit ==
    ASSUME Init
    PROVE  Streams([h \in 0..Hops + 1 |-> 0], [h \in 1..Hops + 1 |-> 0])
  <1> DEFINE low == [h \in 0..Hops + 1 |-> 0]
             at == [h \in 1..Hops + 1 |-> 0]
  <1>1. low \in [0..Hops + 1 -> Nat] /\ at \in [1..Hops + 1 -> Nat]
    OBVIOUS
  <1>2. (\A h \in 0..Hops + 1 : low[h] = 0) /\ (\A h \in 1..Hops + 1 : at[h] = 0)
    OBVIOUS
  <1> HIDE DEF low, at
  <1>3. /\ written = <<>> /\ \A h \in 1..Hops + 1 : link[h] = <<>>
        /\ \A h \in Relays : hop[h] = Waiting /\ eaten[h] = <<>>
    BY DEF Init
  <1>4. low[0] = Len(written) /\ at[1] = 0 /\ at[Hops + 1] = low[Hops + 1]
    BY <1>2, <1>3, Indices
  <1>5. Spread(<<>>, Part(written, 0, 0))
    <2>1. <<>> \in Seq(Byte) /\ 0 \in Nat /\ 0 <= Len(<<>>)
      OBVIOUS
    <2> QED BY <1>3, <2>1, SpreadNothing
  <1>6. ASSUME NEW h \in 1..Hops + 1
        PROVE  /\ low[h] <= low[h - 1] /\ low[h - 1] <= low[0]
               /\ Spread(link[h], Part(written, low[h], low[h - 1]))
               /\ at[h] <= Start(h - 1) /\ at[h] <= low[0]
    <2>1. low[h] = 0 /\ low[h - 1] = 0 /\ at[h] = 0 /\ low[0] = 0 /\ h - 1 \in Nat
      BY <1>2, Indices
    <2>2. Start(h - 1) \in Nat
      BY <2>1, StartFacts
    <2> QED BY <1>3, <1>5, <2>1, <2>2
  <1>7. ASSUME NEW h \in Relays
        PROVE  /\ at[h] <= at[h + 1]
               /\ Spread(eaten[h], Part(written, at[h], at[h + 1]))
               /\ hop[h] = Waiting =>
                     /\ \A j \in h..Hops + 1 : low[j] = low[h] /\ at[j] = low[h]
                     /\ \A j \in h..Hops : eaten[j] = <<>>
                     /\ \A j \in h + 1..Hops + 1 : link[j] = <<>>
               /\ hop[h] = Dead => link[h + 1] = <<>>
    <2>1. /\ h \in 1..Hops + 1 /\ h + 1 \in 1..Hops + 1 /\ h \in 0..Hops + 1
          /\ \A j \in h..Hops + 1 : j \in 0..Hops + 1 /\ j \in 1..Hops + 1
          /\ \A j \in h..Hops : j \in Relays
          /\ \A j \in h + 1..Hops + 1 : j \in 1..Hops + 1
      BY Indices DEF Relays
    <2>2. at[h] = 0 /\ at[h + 1] = 0 /\ low[h] = 0
      BY <1>2, <2>1
    <2> QED BY <1>2, <1>3, <1>5, <2>1, <2>2
  <1> QED BY <1>1, <1>4, <1>6, <1>7 DEF Streams, low, at

\* What a client sends lengthens what was written and the first link.
LEMMA StreamsSend ==
    ASSUME Types, Types', NEW low, NEW at, Streams(low, at), Send, NEW m, m = Len(written')
    PROVE  Streams([low EXCEPT ![0] = m], at)'
  <1> DEFINE new == [low EXCEPT ![0] = m]
  <1>1. PICK b \in Seq(Byte) : written' = written \o b /\ link' = [link EXCEPT ![1] = @ \o b]
    BY SendSends
  <1>2. UNCHANGED <<plan, hop, eaten, stale, cuts>>
    BY DEF Send
  <1>3. /\ written \in Seq(Byte) /\ written' \in Seq(Byte) /\ Len(written) \in Nat /\ Len(b) \in Nat
        /\ Len(written') = Len(written) + Len(b) /\ Len(written') \in Nat /\ Len(written) <= Len(written')
    <2>1. written \in Seq(Byte) /\ written' \in Seq(Byte)
      BY DEF Types, Blocks
    <2>2. Len(written \o b) = Len(written) + Len(b)
      BY <2>1, Behind, Zenon
    <2> QED BY <1>1, <2>1, <2>2
  <1>4. \A a, z \in Nat : a <= z /\ z <= Len(written) => Part(written', a, z) = Part(written, a, z)
    <2>1. \A a, z \in Nat : a <= z /\ z <= Len(written) => Part(written \o b, a, z) = Part(written, a, z)
      BY <1>3, PartAppended, Zenon
    <2> QED BY <1>1, <2>1, Zenon
  <1>5. Part(written', Len(written), Len(written')) = b
    <2>1. Part(written \o b, Len(written), Len(written) + Len(b)) = b
      BY <1>3, PartAppended, Zenon
    <2> QED BY <1>1, <1>3, <2>1
  <1>6. /\ new \in [0..Hops + 1 -> Nat] /\ new[0] = Len(written')
        /\ \A h \in 1..Hops + 1 : new[h] = low[h]
        /\ \A h \in 1..Hops + 1 : h # 1 => new[h - 1] = low[h - 1]
    <2>1. low \in [0..Hops + 1 -> Nat] /\ 0 \in 0..Hops + 1
      BY Indices DEF Streams
    <2>2. \A h \in 1..Hops + 1 : h \in 0..Hops + 1 /\ h # 0 /\ h - 1 \in 0..Hops + 1 /\ (h # 1 => h - 1 # 0)
      BY Indices
    <2> QED BY <1>3, <2>1, <2>2
  <1> HIDE DEF new
  <1>7. ASSUME NEW h \in 1..Hops + 1
        PROVE  /\ new[h] <= new[h - 1] /\ new[h - 1] <= new[0]
               /\ Spread(link'[h], Part(written', new[h], new[h - 1]))
               /\ at[h] <= Start(h - 1) /\ at[h] <= new[0]
    <2>1. /\ low[h] \in Nat /\ low[h - 1] \in Nat /\ at[h] \in Nat
          /\ low[h] <= low[h - 1] /\ low[h - 1] <= Len(written) /\ low[h] <= Len(written)
          /\ at[h] <= Len(written) /\ link[h] \in Seq(Byte)
      BY StreamsFacts
    <2>2. Spread(link[h], Part(written, low[h], low[h - 1])) /\ at[h] <= Start(h - 1)
      BY DEF Streams
    <2>3. at[h] <= new[0]
      BY <1>3, <1>6, <2>1
    <2>4. CASE h = 1
      <3>1. low[h - 1] = Len(written) /\ new[h - 1] = Len(written') /\ new[h] = low[h]
        BY <1>6, <2>4 DEF Streams
      <3>2. link'[h] = link[h] \o b
        BY <1>1, <2>4 DEF Types
      <3>3. Part(written', low[h], Len(written)) = Part(written, low[h], Len(written))
        BY <1>3, <1>4, <2>1
      <3>4. /\ Part(written', low[h], Len(written)) \in Seq(Byte)
            /\ Part(written', low[h], Len(written)) \o Part(written', Len(written), Len(written'))
                 = Part(written', low[h], Len(written'))
        <4>1. /\ low[h] \in Nat /\ Len(written) \in Nat /\ Len(written') \in Nat
              /\ low[h] <= Len(written) /\ Len(written) <= Len(written') /\ Len(written') <= Len(written')
          BY <1>3, <2>1
        <4> QED BY <1>3, <4>1, PartsMeet, Zenon
      <3>5. Spread(link[h] \o b, Part(written', low[h], Len(written)) \o b)
        <4>1. Spread(b, b)
          BY SpreadSame
        <4>2. Spread(link[h], Part(written', low[h], Len(written)))
          BY <2>2, <3>1, <3>3
        <4> QED BY <2>1, <3>4, <4>1, <4>2, SpreadJoin, Zenon
      <3>6. Spread(link'[h], Part(written', new[h], new[h - 1]))
        BY <1>5, <3>1, <3>2, <3>4, <3>5
      <3>7. new[h] <= new[h - 1] /\ new[h - 1] <= new[0]
        BY <1>3, <1>6, <2>1, <3>1
      <3> QED BY <2>2, <2>3, <3>6, <3>7
    <2>5. CASE h # 1
      <3>1. new[h] = low[h] /\ new[h - 1] = low[h - 1]
        BY <1>6, <2>5
      <3>2. link'[h] = link[h]
        BY <1>1, <2>5 DEF Types
      <3>3. Part(written', low[h], low[h - 1]) = Part(written, low[h], low[h - 1])
        BY <1>4, <2>1
      <3>4. Spread(link'[h], Part(written', new[h], new[h - 1]))
        BY <2>2, <3>1, <3>2, <3>3
      <3>5. new[h] <= new[h - 1] /\ new[h - 1] <= new[0]
        BY <1>3, <1>6, <2>1, <3>1
      <3> QED BY <2>2, <2>3, <3>4, <3>5
    <2> QED BY <2>4, <2>5
  <1>8. ASSUME NEW h \in Relays
        PROVE  /\ at[h] <= at[h + 1]
               /\ Spread(eaten'[h], Part(written', at[h], at[h + 1]))
               /\ hop'[h] = Waiting =>
                     /\ \A j \in h..Hops + 1 : new[j] = new[h] /\ at[j] = new[h]
                     /\ \A j \in h..Hops : eaten'[j] = <<>>
                     /\ \A j \in h + 1..Hops + 1 : link'[j] = <<>>
               /\ hop'[h] = Dead => link'[h + 1] = <<>>
    <2>1. /\ at[h] <= at[h + 1] /\ Spread(eaten[h], Part(written, at[h], at[h + 1]))
          /\ hop[h] = Waiting =>
                     /\ \A j \in h..Hops + 1 : low[j] = low[h] /\ at[j] = low[h]
                     /\ \A j \in h..Hops : eaten[j] = <<>>
                     /\ \A j \in h + 1..Hops + 1 : link[j] = <<>>
          /\ hop[h] = Dead => link[h + 1] = <<>>
      BY DEF Streams
    <2>2. /\ h \in 1..Hops + 1 /\ h + 1 \in 1..Hops + 1 /\ h + 1 # 1
          /\ \A j \in h..Hops + 1 : j \in 1..Hops + 1
          /\ \A j \in h + 1..Hops + 1 : j \in 1..Hops + 1 /\ j # 1
      BY Indices DEF Relays
    <2>3. Part(written', at[h], at[h + 1]) = Part(written, at[h], at[h + 1])
      <3>1. at[h] \in Nat /\ at[h + 1] \in Nat /\ at[h + 1] <= Len(written)
        BY <2>2, StreamsFacts
      <3> QED BY <1>4, <2>1, <3>1
    <2>4. \A j \in 1..Hops + 1 : j # 1 => link'[j] = link[j]
      BY <1>1 DEF Types
    <2>5. \A j \in h..Hops + 1 : new[j] = low[j]
      BY <1>6, <2>2
    <2>6. new[h] = low[h]
      BY <1>6, <2>2
    <2> QED BY <1>2, <2>1, <2>2, <2>3, <2>4, <2>5, <2>6
  <1>9. at \in [1..Hops + 1 -> Nat] /\ at[1] = 0 /\ at[Hops + 1] = new[Hops + 1]
    BY <1>6, Indices DEF Streams
  <1>10. Streams(new, at)'
    BY <1>6, <1>7, <1>8, <1>9 DEF Streams
  <1> QED BY <1>10 DEF new

\* What a read takes and what it leaves come from two parts that meet at q; and
\* it takes something only if the hop before has acted on a text.
LEMMA StreamsRead ==
    ASSUME Types, NEW low, NEW at, Streams(low, at),
           NEW h \in Relays, NEW n \in 1..BlockSize, Read(h, n),
           NEW c, Counts(c, link[h], Part(written, low[h], low[h - 1])),
           NEW q, q = low[h] + c[n]
    PROVE  /\ q \in Nat /\ low[h] <= q /\ q <= low[h - 1] /\ q <= low[h] + n
           /\ n \in Nat /\ n <= BlockSize /\ n <= Len(link[h])
           /\ Spread(First(link[h], n), Part(written, low[h], q))
           /\ Spread(Rest(link[h], n), Part(written, q, low[h - 1]))
           /\ \A g \in Relays : g < h => hop[g] # Waiting /\ (g + 1 = h => hop[g] # Dead)
  <1>1. n \in 0..Len(link[h]) /\ n \in Nat /\ n <= BlockSize
    BY ReadTakes
  <1>2. h \in 1..Hops + 1
    BY Indices
  <1>3. /\ written \in Seq(Byte) /\ Len(written) \in Nat /\ link[h] \in Seq(Byte)
        /\ low[h] \in Nat /\ low[h - 1] \in Nat /\ low[h] <= low[h - 1] /\ low[h - 1] <= Len(written)
    BY <1>2, StreamsFacts
  <1> DEFINE x == link[h]
             y == Part(written, low[h], low[h - 1])
  <1>4. y \in Seq(Byte) /\ Len(y) = low[h - 1] - low[h]
    BY <1>3, PartFacts, Zenon
  <1>5. c[n] \in 0..Len(y) /\ c[n] <= n
    <2> HIDE DEF y
    <2>1. Counts(c, link[h], y)
      BY DEF y
    <2> QED BY <1>1, <1>3, <1>4, <2>1, CountsGrow
  <1>6. Spread(First(x, n), First(y, c[n])) /\ Spread(Rest(x, n), Rest(y, c[n]))
    <2> HIDE DEF x, y
    <2>1. Counts(c, x, y) /\ x \in Seq(Byte) /\ n \in 0..Len(x)
      BY <1>1, <1>3 DEF x, y
    <2> QED BY <1>4, <2>1, SpreadCut, Zenon
  <1>7. q \in Nat /\ low[h] <= q /\ q <= low[h - 1] /\ q - low[h] = c[n] /\ q <= low[h] + n
    <2> DEFINE p == c[n]
    <2>1. p \in 0..low[h - 1] - low[h] /\ p <= n /\ q = low[h] + p
      BY <1>4, <1>5
    <2> HIDE DEF p, y
    <2>2. q \in Nat /\ low[h] <= q /\ q <= low[h - 1] /\ q - low[h] = p /\ q <= low[h] + n
      BY SMTT(30), <1>1, <1>3, <2>1
    <2> QED BY <2>2 DEF p
  <1>8. /\ First(y, q - low[h]) = Part(written, low[h], q)
        /\ Rest(y, q - low[h]) = Part(written, q, low[h - 1])
    <2> DEFINE a == low[h]
               z == low[h - 1]
    <2>1. /\ written \in Seq(Byte) /\ a \in Nat /\ q \in Nat /\ z \in Nat
          /\ a <= q /\ q <= z /\ z <= Len(written)
      BY <1>3, <1>7
    <2> HIDE DEF a, z
    <2>2. /\ First(Part(written, a, z), q - a) = Part(written, a, q)
          /\ Rest(Part(written, a, z), q - a) = Part(written, q, z)
      BY ONLY <2>1, PartSplit, ZenonT(40)
    <2> QED BY <2>2 DEF a, z
  <1>9. ASSUME NEW g \in Relays, g < h PROVE hop[g] # Waiting /\ (g + 1 = h => hop[g] # Dead)
    <2>1. h \in g + 1..Hops + 1
      BY <1>2, <1>9, Indices
    <2>2. link[h] # <<>>
      <3>1. link[h] = <<>> => Len(link[h]) = 0
        OBVIOUS
      <3> QED BY <1>1, <3>1
    <2> QED BY <2>1, <2>2 DEF Streams
  <1>10. /\ Spread(First(link[h], n), Part(written, low[h], q))
         /\ Spread(Rest(link[h], n), Part(written, q, low[h - 1]))
    <2> HIDE DEF y
    <2>1. c[n] = q - low[h]
      BY <1>7
    <2> QED BY <1>6, <1>8, <2>1 DEF x
  <1>11. n <= Len(link[h])
    BY <1>1
  <1> QED BY <1>1, <1>7, <1>9, <1>10, <1>11

LowFrom(new, low, h, q) == new = [j \in 0..Hops + 1 |-> IF j >= h THEN q ELSE low[j]]
AtBehind(on, at, h, q) == on = [j \in 1..Hops + 1 |-> IF j > h THEN q ELSE at[j]]

\* What a relay builds its path from it does not pass on: the parts behind it
\* begin where its read ended.
LEMMA StreamsBuildPath ==
    ASSUME Types, NEW low, NEW at, Streams(low, at), NEW h \in Relays, BuildPath(h),
           NEW n \in 1..BlockSize, Read(h, n),
           link' = [link EXCEPT ![h] = Rest(@, n)],
           eaten' = [eaten EXCEPT ![h] = First(link[h], n)],
           NEW c, Counts(c, link[h], Part(written, low[h], low[h - 1])),
           NEW q, q = low[h] + c[n],
           NEW new, LowFrom(new, low, h, q),
           NEW on, AtBehind(on, at, h, q)
    PROVE  Streams(new, on)'
  <1>1. /\ q \in Nat /\ low[h] <= q /\ q <= low[h - 1] /\ q <= low[h] + n
        /\ n \in Nat /\ n <= BlockSize
        /\ Spread(First(link[h], n), Part(written, low[h], q))
        /\ Spread(Rest(link[h], n), Part(written, q, low[h - 1]))
        /\ \A g \in Relays : g < h => hop[g] # Waiting /\ (g + 1 = h => hop[g] # Dead)
    BY StreamsRead
  <1>2. /\ h \in Nat /\ h >= 1 /\ h <= Hops /\ Hops \in Nat /\ h \in 1..Hops + 1 /\ h + 1 \in 1..Hops + 1
        /\ h \in 0..Hops + 1 /\ h - 1 \in 0..Hops + 1
    BY Indices DEF Relays
  <1>3. UNCHANGED <<plan, written, stale>> /\ hop[h] = Waiting
    BY DEF BuildPath
  <1>4. \A g \in Relays : g # h => hop'[g] = hop[g]
    BY DEF BuildPath, Types
  <1>5. hop'[h] # Waiting
    <2>1. \E t \in Texts \cup {Dead} : hop' = [hop EXCEPT ![h] = t]
      BY DEF BuildPath, Parsed
    <2>2. \E t \in Texts \cup {Dead} : hop'[h] = t
      BY <2>1 DEF Types
    <2> QED BY <2>2, TextsAssumption
  <1>6. /\ \A j \in h..Hops + 1 : low[j] = low[h] /\ at[j] = low[h]
        /\ \A j \in h..Hops : eaten[j] = <<>>
        /\ \A j \in h + 1..Hops + 1 : link[j] = <<>>
    BY <1>3 DEF Streams
  <1>7. /\ low \in [0..Hops + 1 -> Nat] /\ at \in [1..Hops + 1 -> Nat] /\ low[h] \in Nat /\ at[h] = low[h]
        /\ low[0] = Len(written) /\ low[h - 1] <= low[0] /\ low[0] \in Nat /\ low[h - 1] \in Nat
    <2>1. h \in h..Hops + 1
      BY <1>2
    <2> QED BY <1>2, <1>6, <2>1, Indices DEF Streams
  <1>8. new \in [0..Hops + 1 -> Nat] /\ on \in [1..Hops + 1 -> Nat]
    BY <1>1, <1>7 DEF LowFrom, AtBehind
  <1>9. /\ \A j \in 0..Hops + 1 : new[j] = IF j >= h THEN q ELSE low[j]
        /\ \A j \in 1..Hops + 1 : on[j] = IF j > h THEN q ELSE at[j]
    BY DEF LowFrom, AtBehind
  <1>10. /\ \A j \in 1..Hops + 1 : j # h => link'[j] = link[j]
         /\ link'[h] = Rest(link[h], n)
         /\ \A j \in Relays : j # h => eaten'[j] = eaten[j]
         /\ eaten'[h] = First(link[h], n)
    BY <1>2 DEF Types
  <1>11. new[0] = Len(written') /\ on[1] = 0 /\ on[Hops + 1] = new[Hops + 1]
    <2>1. ~ (0 >= h) /\ ~ (1 > h) /\ Hops + 1 > h /\ Hops + 1 >= h
      BY <1>2
    <2> QED BY <1>3, <1>7, <1>9, <2>1, Indices DEF Streams
  <1>12. q <= new[0] /\ new[0] = low[0]
    <2>1. q <= low[0]
      BY <1>1, <1>7
    <2> QED BY <1>3, <1>7, <1>11, <2>1
  <1>13. written \in Seq(Byte) /\ Spread(<<>>, Part(written, q, q))
    <2>1. written \in Seq(Byte) /\ q <= Len(written)
      BY <1>7, <1>12, StreamsFacts
    <2> QED BY <1>1, <2>1, SpreadNothing
  <1>14. ASSUME NEW j \in 1..Hops + 1
         PROVE  /\ new[j] <= new[j - 1] /\ new[j - 1] <= new[0]
                /\ Spread(link'[j], Part(written', new[j], new[j - 1]))
                /\ on[j] <= Start(j - 1) /\ on[j] <= new[0]
    <2>1. /\ j \in 0..Hops + 1 /\ j - 1 \in 0..Hops + 1 /\ j \in Nat /\ j - 1 \in Nat
          /\ low[j] \in Nat /\ low[j - 1] \in Nat /\ low[j] <= low[j - 1] /\ low[j - 1] <= low[0]
          /\ at[j] <= Start(j - 1) /\ at[j] <= low[0]
          /\ Spread(link[j], Part(written, low[j], low[j - 1]))
      BY Indices, StreamsFacts DEF Streams
    <2>2. CASE j < h
      <3>1. new[j] = low[j] /\ new[j - 1] = low[j - 1] /\ on[j] = at[j] /\ link'[j] = link[j]
        <4>1. ~ (j >= h) /\ ~ (j - 1 >= h) /\ ~ (j > h) /\ j # h
          BY <1>2, <2>1, <2>2
        <4> QED BY <1>9, <1>10, <2>1, <4>1
      <3> QED BY <1>3, <1>12, <2>1, <3>1
    <2>3. CASE j = h
      <3>1. new[j] = q /\ new[j - 1] = low[j - 1] /\ on[j] = at[j] /\ link'[j] = Rest(link[h], n)
        <4>1. j >= h /\ ~ (j - 1 >= h) /\ ~ (j > h)
          BY <1>2, <2>1, <2>3
        <4> QED BY <1>9, <1>10, <2>1, <2>3, <4>1
      <3> QED BY <1>1, <1>3, <1>12, <2>1, <2>3, <3>1
    <2>4. CASE j > h
      <3>1. new[j] = q /\ new[j - 1] = q /\ on[j] = q /\ link'[j] = <<>>
        <4>1. j >= h /\ j - 1 >= h /\ j # h /\ j \in h + 1..Hops + 1
          BY <1>2, <2>1, <2>4
        <4> QED BY <1>6, <1>9, <1>10, <2>1, <2>4, <4>1
      <3>2. q <= Start(j - 1)
        <4>1. at[h] <= Start(h - 1) /\ h - 1 \in Nat /\ (h - 1) + 1 = h
          BY <1>2, Indices DEF Streams
        <4>2. Start(h) = Start(h - 1) + BlockSize /\ Start(h - 1) \in Nat
          BY <4>1, StartFacts
        <4>3. h <= j - 1
          BY <1>2, <2>1, <2>4
        <4>4. Start(h) <= Start(j - 1) /\ Start(j - 1) \in Nat
          BY <1>2, <2>1, <4>3, StartFacts
        <4> DEFINE a == Start(h - 1)
                   z == Start(j - 1)
                   l == low[h]
        <4>5. /\ a \in Nat /\ z \in Nat /\ l \in Nat /\ BlockSize \in Nat
              /\ l <= a /\ a + BlockSize <= z /\ q <= l + n /\ n <= BlockSize
          BY <1>1, <1>7, <4>1, <4>2, <4>4, SizesAssumption
        <4> HIDE DEF a, z, l
        <4>6. q <= z
          BY <1>1, <4>5
        <4> QED BY <4>6 DEF z
      <3> QED BY <1>1, <1>3, <1>12, <1>13, <3>1, <3>2
    <2> QED BY <1>2, <2>1, <2>2, <2>3, <2>4
  <1>15. ASSUME NEW g \in Relays
         PROVE  /\ on[g] <= on[g + 1]
                /\ Spread(eaten'[g], Part(written', on[g], on[g + 1]))
                /\ hop'[g] = Waiting =>
                      /\ \A j \in g..Hops + 1 : new[j] = new[g] /\ on[j] = new[g]
                      /\ \A j \in g..Hops : eaten'[j] = <<>>
                      /\ \A j \in g + 1..Hops + 1 : link'[j] = <<>>
                /\ hop'[g] = Dead => link'[g + 1] = <<>>
    <2>1. /\ g \in Nat /\ g \in 1..Hops + 1 /\ g + 1 \in 1..Hops + 1 /\ g \in 0..Hops + 1
          /\ on[g] \in Nat /\ g <= Hops
      BY <1>8, Indices DEF Relays
    <2>2. CASE g < h
      <3>1. on[g] = at[g] /\ on[g + 1] = at[g + 1] /\ eaten'[g] = eaten[g] /\ hop'[g] = hop[g]
        <4>1. ~ (g > h) /\ ~ (g + 1 > h) /\ g # h
          BY <1>2, <2>1, <2>2
        <4> QED BY <1>4, <1>9, <1>10, <2>1, <4>1
      <3>2. hop[g] # Waiting /\ (hop[g] = Dead => link[g + 1] = <<>>) /\ (g + 1 = h => hop[g] # Dead)
        BY <1>1, <2>2 DEF Streams
      <3>3. hop'[g] = Dead => link'[g + 1] = <<>>
        BY <1>10, <2>1, <3>1, <3>2
      <3> QED BY <1>3, <3>1, <3>2, <3>3 DEF Streams
    <2>3. CASE g = h
      <3>1. on[g] = low[h] /\ on[g + 1] = q /\ eaten'[g] = First(link[h], n)
        <4>1. ~ (g > h) /\ g + 1 > h
          BY <1>2, <2>3
        <4> QED BY <1>7, <1>9, <1>10, <2>1, <2>3, <4>1
      <3>2. link'[g + 1] = <<>>
        <4>1. g + 1 # h /\ g + 1 \in h + 1..Hops + 1
          BY <1>2, <2>1, <2>3
        <4> QED BY <1>6, <1>10, <2>1, <4>1
      <3> QED BY <1>1, <1>3, <1>5, <2>3, <3>1, <3>2
    <2>4. CASE g > h
      <3>1. g # h /\ g + 1 > h /\ g + 1 # h /\ g \in h..Hops /\ g + 1 \in h + 1..Hops + 1 /\ g >= h
        BY <1>2, <2>1, <2>4
      <3>2. on[g] = q /\ on[g + 1] = q /\ new[g] = q /\ eaten'[g] = <<>> /\ link'[g + 1] = <<>>
        BY <1>6, <1>9, <1>10, <2>1, <2>4, <3>1
      <3>3. \A j \in g..Hops + 1 : new[j] = q /\ on[j] = q
        <4>1. \A j \in g..Hops + 1 : j > h /\ j >= h /\ j \in 0..Hops + 1 /\ j \in 1..Hops + 1
          BY <1>2, <2>1, <2>4
        <4> QED BY <1>9, <4>1
      <3>4. \A j \in g..Hops : eaten'[j] = <<>>
        <4>1. \A j \in g..Hops : j # h /\ j \in h..Hops /\ j \in Relays
          BY <1>2, <2>1, <2>4 DEF Relays
        <4> QED BY <1>6, <1>10, <4>1
      <3>5. \A j \in g + 1..Hops + 1 : link'[j] = <<>>
        <4>1. \A j \in g + 1..Hops + 1 : j # h /\ j \in h + 1..Hops + 1 /\ j \in 1..Hops + 1
          BY <1>2, <2>1, <2>4
        <4> QED BY <1>6, <1>10, <4>1
      <3>6. q <= q
        BY <1>1
      <3> QED BY <1>3, <1>13, <3>2, <3>3, <3>4, <3>5, <3>6
    <2>5. g < h \/ g = h \/ g > h
      BY <1>2, <2>1
    <2> QED BY ONLY <2>2, <2>3, <2>4, <2>5
  <1> QED BY <1>8, <1>11, <1>14, <1>15 DEF Streams

\* What a relay passes on moves from one link to the next, with zeroes behind it.
LEMMA StreamsHandleRequest ==
    ASSUME Types, NEW low, NEW at, Streams(low, at), NEW h \in Relays, HandleRequest(h),
           NEW n \in 1..BlockSize, Read(h, n),
           link' = [link EXCEPT ![h] = Rest(@, n),
                                ![h + 1] = @ \o First(link[h], n) \o Rest(Zeros, n)],
           NEW c, Counts(c, link[h], Part(written, low[h], low[h - 1])),
           NEW q, q = low[h] + c[n]
    PROVE  Streams([low EXCEPT ![h] = q], at)'
  <1> DEFINE new == [low EXCEPT ![h] = q]
  <1>1. /\ q \in Nat /\ low[h] <= q /\ q <= low[h - 1]
        /\ n \in Nat /\ n <= BlockSize /\ n <= Len(link[h])
        /\ Spread(First(link[h], n), Part(written, low[h], q))
        /\ Spread(Rest(link[h], n), Part(written, q, low[h - 1]))
        /\ \A g \in Relays : g < h => hop[g] # Waiting /\ (g + 1 = h => hop[g] # Dead)
    BY StreamsRead
  <1>2. /\ h \in Nat /\ h >= 1 /\ h <= Hops /\ Hops \in Nat /\ h \in 1..Hops + 1 /\ h + 1 \in 1..Hops + 1
        /\ h \in 0..Hops + 1 /\ h - 1 \in 0..Hops + 1 /\ h # h + 1 /\ h # Hops + 1 /\ h # 0
        /\ (h + 1) - 1 = h
    BY Indices DEF Relays
  <1>3. UNCHANGED <<plan, written, hop, eaten, stale>> /\ hop[h] # Waiting /\ hop[h] # Dead
    BY TextsAssumption DEF HandleRequest
  <1>4. /\ low \in [0..Hops + 1 -> Nat] /\ at \in [1..Hops + 1 -> Nat] /\ low[h] \in Nat
        /\ low[0] = Len(written) /\ low[h - 1] <= low[0] /\ low[0] \in Nat /\ low[h - 1] \in Nat
        /\ at[1] = 0 /\ at[Hops + 1] = low[Hops + 1]
    BY <1>2, Indices DEF Streams
  <1>5. /\ new \in [0..Hops + 1 -> Nat] /\ new[h] = q
        /\ \A j \in 0..Hops + 1 : j # h => new[j] = low[j]
    BY <1>1, <1>2, <1>4
  <1> HIDE DEF new
  <1>6. new[0] = Len(written') /\ new[0] = low[0] /\ at[Hops + 1] = new[Hops + 1]
    BY <1>2, <1>3, <1>4, <1>5, Indices
  <1> DEFINE f == First(link[h], n)
             z == Rest(Zeros, n)
  <1>7. /\ \A j \in 1..Hops + 1 : j # h /\ j # h + 1 => link'[j] = link[j]
        /\ link'[h] = Rest(link[h], n)
        /\ link'[h + 1] = (link[h + 1] \o f) \o z
    BY <1>2 DEF Types
  <1>8. /\ written \in Seq(Byte) /\ Len(written) \in Nat /\ link[h] \in Seq(Byte) /\ link[h + 1] \in Seq(Byte)
        /\ low[h + 1] \in Nat /\ low[h + 1] <= low[h] /\ low[h] <= Len(written)
        /\ low[h - 1] <= Len(written)
        /\ Spread(link[h + 1], Part(written, low[h + 1], low[h]))
    <2>1. /\ link[h + 1] \in Seq(Byte) /\ low[h + 1] \in Nat /\ low[h + 1] <= low[(h + 1) - 1]
          /\ Spread(link[h + 1], Part(written, low[h + 1], low[(h + 1) - 1]))
      <3> DEFINE j == h + 1
      <3>1. j \in 1..Hops + 1
        BY <1>2
      <3> HIDE DEF j
      <3>2. /\ link[j] \in Seq(Byte) /\ low[j] \in Nat /\ low[j] <= low[j - 1]
            /\ Spread(link[j], Part(written, low[j], low[j - 1]))
        <4>1. link[j] \in Seq(Byte) /\ low[j] \in Nat /\ low[j] <= low[j - 1]
          BY <3>1, StreamsFacts
        <4>2. Spread(link[j], Part(written, low[j], low[j - 1]))
          BY <3>1 DEF Streams
        <4> QED BY <4>1, <4>2
      <3> QED BY <3>2 DEF j
    <2> QED BY <1>2, <2>1, StreamsFacts
  <1>9. f \in Seq(Byte)
    <2>1. n \in 0..Len(link[h])
      BY <1>1
    <2> QED BY <1>8, <2>1, Parts, Zenon
  <1>10. z \in Seq(Byte) /\ Spread(z, <<>>)
    <2>1. z \in Seq(Byte) /\ \A i \in 1..Len(z) : z[i] = 0
      <3>1. /\ Zeros \in Seq(Byte) /\ Len(Zeros) = BlockSize
            /\ \A i \in 1..BlockSize : Zeros[i] = 0
        BY SizesAssumption DEF Zeros, Byte
      <3>2. /\ z \in Seq(Byte) /\ Len(z) = BlockSize - n
            /\ \A i \in 1..BlockSize - n : z[i] = Zeros[n + i]
        <4> HIDE DEF f
        <4> QED BY <1>1, <3>1, SizesAssumption DEF Rest
      <3>3. \A i \in 1..BlockSize - n : n + i \in 1..BlockSize
        BY <1>1, SizesAssumption
      <3> HIDE DEF z
      <3> QED BY <3>1, <3>2, <3>3
    <2> HIDE DEF z
    <2> QED BY <2>1, SpreadZeros
  <1> HIDE DEF f, z
  <1>11. Spread(link'[h + 1], Part(written, low[h + 1], q))
    <2> DEFINE a == low[h + 1]
               m == low[h]
               x == link[h + 1]
    <2>1. /\ written \in Seq(Byte) /\ a \in Nat /\ m \in Nat /\ q \in Nat
          /\ a <= m /\ m <= q /\ q <= Len(written)
      BY <1>1, <1>4, <1>8
    <2>2. x \in Seq(Byte) /\ Spread(x, Part(written, a, m)) /\ Spread(f, Part(written, m, q))
      BY <1>1, <1>8 DEF f
    <2> HIDE DEF a, m, x
    <2>3. /\ Part(written, a, m) \in Seq(Byte) /\ Part(written, m, q) \in Seq(Byte)
          /\ Part(written, a, m) \o Part(written, m, q) = Part(written, a, q)
      BY <2>1, PartsMeet, ZenonT(40)
    <2>4. Part(written, a, q) \in Seq(Byte)
      <3>1. Part(written, a, m) \o Part(written, m, q) \in Seq(Byte)
        BY <2>3, Behind, Zenon
      <3> QED BY <2>3, <3>1
    <2>5. Spread(x \o f, Part(written, a, q)) /\ x \o f \in Seq(Byte)
      <3>1. Spread(x \o f, Part(written, a, m) \o Part(written, m, q))
        BY <1>9, <2>2, <2>3, SpreadJoin, Zenon
      <3>2. x \o f \in Seq(Byte)
        BY <1>9, <2>2, Behind, Zenon
      <3> QED BY <2>3, <3>1, <3>2
    <2>6. Spread((x \o f) \o z, Part(written, a, q) \o <<>>)
      <3>1. <<>> \in Seq(Byte)
        OBVIOUS
      <3> QED BY <1>10, <2>4, <2>5, <3>1, SpreadJoin, Zenon
    <2>7. Part(written, a, q) \o <<>> = Part(written, a, q)
      BY <2>4
    <2>8. link'[h + 1] = (x \o f) \o z
      BY <1>7 DEF x
    <2> QED BY <2>6, <2>7, <2>8 DEF a
  <1>12. ASSUME NEW j \in 1..Hops + 1
         PROVE  /\ new[j] <= new[j - 1] /\ new[j - 1] <= new[0]
                /\ Spread(link'[j], Part(written', new[j], new[j - 1]))
                /\ at[j] <= Start(j - 1) /\ at[j] <= new[0]
    <2>1. /\ j \in 0..Hops + 1 /\ j - 1 \in 0..Hops + 1 /\ j \in Nat /\ j - 1 \in Nat
          /\ low[j] \in Nat /\ low[j - 1] \in Nat /\ low[j] <= low[j - 1] /\ low[j - 1] <= low[0]
          /\ at[j] <= Start(j - 1) /\ at[j] <= low[0]
          /\ Spread(link[j], Part(written, low[j], low[j - 1]))
      BY Indices, StreamsFacts DEF Streams
    <2>2. CASE j = h
      <3>1. new[j] = q /\ new[j - 1] = low[j - 1] /\ link'[j] = Rest(link[h], n)
        <4>1. j - 1 # h
          BY <2>1, <2>2
        <4> QED BY <1>5, <1>7, <2>1, <2>2, <4>1
      <3> QED BY <1>1, <1>3, <1>6, <2>1, <2>2, <3>1
    <2>3. CASE j = h + 1
      <3>1. new[j] = low[h + 1] /\ new[j - 1] = q /\ link'[j] = link'[h + 1]
        BY <1>2, <1>5, <2>1, <2>3
      <3>2. low[h + 1] <= q /\ q <= low[0]
        BY SMTT(30), <1>1, <1>4, <1>8
      <3> QED BY <1>3, <1>6, <1>11, <2>1, <3>1, <3>2
    <2>4. CASE j # h /\ j # h + 1
      <3>1. new[j] = low[j] /\ new[j - 1] = low[j - 1] /\ link'[j] = link[j]
        <4>1. j - 1 # h
          BY <1>2, <2>1, <2>4
        <4> QED BY <1>5, <1>7, <2>1, <2>4, <4>1
      <3> QED BY <1>3, <1>6, <2>1, <3>1
    <2> QED BY <2>2, <2>3, <2>4
  <1>13. ASSUME NEW g \in Relays
         PROVE  /\ at[g] <= at[g + 1]
                /\ Spread(eaten'[g], Part(written', at[g], at[g + 1]))
                /\ hop'[g] = Waiting =>
                      /\ \A j \in g..Hops + 1 : new[j] = new[g] /\ at[j] = new[g]
                      /\ \A j \in g..Hops : eaten'[j] = <<>>
                      /\ \A j \in g + 1..Hops + 1 : link'[j] = <<>>
                /\ hop'[g] = Dead => link'[g + 1] = <<>>
    <2>1. g \in Nat /\ g \in 1..Hops + 1 /\ g + 1 \in 1..Hops + 1 /\ g \in 0..Hops + 1 /\ g <= Hops
      BY Indices DEF Relays
    <2>2. at[g] <= at[g + 1] /\ Spread(eaten'[g], Part(written', at[g], at[g + 1]))
      BY <1>3 DEF Streams
    <2>3. ASSUME hop'[g] = Waiting
          PROVE  /\ \A j \in g..Hops + 1 : new[j] = new[g] /\ at[j] = new[g]
                 /\ \A j \in g..Hops : eaten'[j] = <<>>
                 /\ \A j \in g + 1..Hops + 1 : link'[j] = <<>>
      <3>1. hop[g] = Waiting /\ g # h
        BY <1>3, <2>3
      <3>2. g > h
        BY <1>1, <1>2, <2>1, <3>1
      <3>3. /\ \A j \in g..Hops + 1 : j # h /\ j \in 0..Hops + 1
            /\ \A j \in g + 1..Hops + 1 : j # h /\ j # h + 1 /\ j \in 1..Hops + 1
        BY <1>2, <2>1, <3>2
      <3>4. /\ \A j \in g..Hops + 1 : low[j] = low[g] /\ at[j] = low[g]
            /\ \A j \in g..Hops : eaten[j] = <<>>
            /\ \A j \in g + 1..Hops + 1 : link[j] = <<>>
        BY <3>1 DEF Streams
      <3> QED BY <1>3, <1>5, <1>7, <2>1, <3>1, <3>3, <3>4
    <2>4. ASSUME hop'[g] = Dead PROVE link'[g + 1] = <<>>
      <3>1. hop[g] = Dead /\ g # h
        BY <1>3, <2>4
      <3>2. g + 1 # h
        BY <1>1, <1>2, <2>1, <3>1
      <3>3. g + 1 # h + 1
        BY <1>2, <2>1, <3>1
      <3>4. link[g + 1] = <<>>
        BY <3>1 DEF Streams
      <3> QED BY <1>7, <2>1, <3>2, <3>3, <3>4
    <2> QED BY <2>2, <2>3, <2>4
  <1>14. Streams(new, at)'
    BY <1>4, <1>5, <1>6, <1>12, <1>13 DEF Streams
  <1> QED BY <1>14 DEF new
------------------------------------------------------------------------------
(* Where texts stand in what was written.                                  *)

\* The client has sent k blocks.
Sent(k) ==
    /\ k \in 0..Hops + 1 /\ Len(written) = Start(k)
    /\ \A i \in 1..k :
          \A p \in 1..5 + Len(plan[i]) : written[Start(i - 1) + p] = Request(0, plan[i])[p]

LEMMA ZeroOpensNothing == 0 \notin Openings
  <1> SUFFICES ASSUME NEW s \in Texts, s[1] = 0 PROVE FALSE
    BY DEF Openings
  <1>1. s \in Seq(Byte \ {0}) /\ s # <<>>
    BY TextsAssumption
  <1>2. s[1] \in Byte \ {0}
    BY <1>1
  <1> QED BY <1>2

\* The bytes of a request.
LEMMA RequestBytes ==
    ASSUME NEW t \in Setups
    PROVE  /\ t \in Texts /\ t \in Seq(Byte) /\ Len(t) \in Nat /\ Len(t) > 1 /\ 5 + Len(t) <= BlockSize
           /\ Request(0, t) \in Seq(Byte) /\ Len(Request(0, t)) = 5 + Len(t)
           /\ Request(0, t)[1] = 0
           /\ \A i \in 1..4 : Request(0, t)[1 + i] = Digits(Len(t))[i]
           /\ \A i \in 1..Len(t) : Request(0, t)[5 + i] = t[i]
  <1> DEFINE d == Digits(Len(t))
             o == <<0>>
             r == Request(0, t)
  <1>1. /\ t \in Texts /\ t \in Seq(Byte) /\ Len(t) \in Nat /\ Len(t) < Half /\ Len(t) + 5 <= BlockSize
        /\ BlockSize \in Nat
    BY SetupsAssumption, TextIsBytes, SizesAssumption
  <1>2. Len(t) > 1
    BY <1>1, OpeningAssumption DEF OpeningsDiffer
  <1>3. o \in Seq(Byte) /\ Len(o) = 1 /\ o[1] = 0
    BY SizesAssumption DEF Byte
  <1>4. d \in Seq(Byte) /\ Len(d) = 4
    BY <1>1, DigitsMakeLength
  <1>5. r = (o \o d) \o t
    BY DEF Request
  <1> HIDE DEF d, o, r
  <1>6. /\ o \o d \in Seq(Byte) /\ Len(o \o d) = 5
        /\ (o \o d)[1] = 0 /\ \A i \in 1..4 : (o \o d)[1 + i] = d[i]
    <2>1. /\ o \o d \in Seq(Byte) /\ Len(o \o d) = Len(o) + Len(d)
          /\ \A i \in 1..Len(o) : (o \o d)[i] = o[i]
          /\ \A i \in 1..Len(d) : (o \o d)[Len(o) + i] = d[i]
      BY <1>3, <1>4, Behind, Zenon
    <2> QED BY <1>3, <1>4, <2>1
  <1>7. /\ r \in Seq(Byte) /\ Len(r) = 5 + Len(t)
        /\ \A i \in 1..5 : r[i] = (o \o d)[i]
        /\ \A i \in 1..Len(t) : r[5 + i] = t[i]
    <2> DEFINE h == o \o d
    <2>0. h \in Seq(Byte) /\ Len(h) = 5
      BY <1>6
    <2> HIDE DEF h
    <2>1. /\ h \o t \in Seq(Byte) /\ Len(h \o t) = Len(h) + Len(t)
          /\ \A i \in 1..Len(h) : (h \o t)[i] = h[i]
          /\ \A i \in 1..Len(t) : (h \o t)[Len(h) + i] = t[i]
      BY <1>1, <2>0, Behind, Zenon
    <2>2. r = h \o t
      BY <1>5 DEF h
    <2>3. /\ r \in Seq(Byte) /\ Len(r) = 5 + Len(t)
          /\ \A i \in 1..5 : r[i] = h[i]
          /\ \A i \in 1..Len(t) : r[5 + i] = t[i]
      BY <2>0, <2>1, <2>2
    <2> QED BY <2>3 DEF h
  <1>8. r[1] = 0 /\ \A i \in 1..4 : r[1 + i] = d[i]
    <2>1. 1 \in 1..5 /\ \A i \in 1..4 : 1 + i \in 1..5
      OBVIOUS
    <2> QED BY <1>6, <1>7, <2>1
  <1> QED BY <1>1, <1>2, <1>7, <1>8 DEF d, r

LEMMA SentSend ==
    ASSUME Types, NEW k, Sent(k), Send
    PROVE  Sent(k + 1)'
  <1> DEFINE i == Len(written) \div BlockSize + 1
             t == plan[i]
             r == Request(0, t)
  <1>1. k \in Nat /\ k + 1 \in Nat /\ Len(written) = Start(k) /\ i = k + 1 /\ written \in Seq(Byte)
    <2>1. k \in Nat /\ Len(written) = Start(k)
      BY Indices DEF Sent
    <2>2. written \in Seq(Byte)
      BY DEF Types, Blocks
    <2> QED BY <2>1, <2>2, StartDivides
  <1>2. PICK m \in Memory \cup {Rest(written, Len(written) - BlockSize) : j \in {i} \ {1}} :
              written' = (written \o r) \o Rest(m, Len(r))
    BY DEF Send
  <1>3. i <= Hops + 1 /\ UNCHANGED plan
    BY DEF Send
  <1> HIDE DEF i
  <1>4. t \in Setups
    <2>1. i \in 1..Hops + 1
      BY <1>1, <1>3, Indices
    <2> QED BY <2>1 DEF Types
  <1> HIDE DEF t
  <1>5. /\ Len(t) \in Nat /\ Len(t) > 1 /\ 5 + Len(t) <= BlockSize /\ BlockSize \in Nat
        /\ r \in Seq(Byte) /\ Len(r) = 5 + Len(t)
    BY <1>4, RequestBytes, SizesAssumption
  <1> HIDE DEF r
  <1>6. Start(k) \in Nat /\ Start(k + 1) = Start(k) + BlockSize
    BY <1>1, StartFacts
  \* Behind the request lies anything, or the end of the block before.
  <1>7. m \in Seq(Byte) /\ Len(m) = BlockSize
    <2>1. CASE m \in Memory
      BY <2>1, MemoryAssumption
    <2>2. CASE i # 1 /\ m = Rest(written, Len(written) - BlockSize)
      <3>1. k - 1 \in Nat /\ (k - 1) + 1 = k
        BY <1>1, <2>2
      <3>2. Start(k) = Start(k - 1) + BlockSize /\ Start(k - 1) \in Nat
        BY <3>1, StartFacts
      <3> DEFINE n == Len(written) - BlockSize
      <3>3. n \in 0..Len(written) /\ Len(written) - n = BlockSize
        BY <1>1, <1>5, <3>2
      <3> HIDE DEF n
      <3>4. m = Rest(written, n)
        BY <2>2 DEF n
      <3> QED BY <1>1, <3>3, <3>4, Parts, Zenon
    <2> QED BY <1>2, <2>1, <2>2
  <1> DEFINE x == Rest(m, Len(r))
  <1>8. /\ x \in Seq(Byte) /\ Len(x) = BlockSize - Len(r)
        /\ \A j \in 1..BlockSize - Len(r) : x[j] = m[Len(r) + j]
    BY <1>5, <1>7 DEF Rest
  <1> HIDE DEF x
  <1> DEFINE b == r \o x
  <1>9. /\ b \in Seq(Byte) /\ Len(b) = BlockSize
        /\ \A p \in 1..5 + Len(t) : b[p] = r[p]
    <2>1. /\ b \in Seq(Byte) /\ Len(b) = Len(r) + Len(x)
          /\ \A p \in 1..Len(r) : b[p] = r[p]
      BY <1>5, <1>8, Behind, Zenon
    <2> HIDE DEF b
    <2> QED BY <1>5, <1>8, <2>1
  <1>10. /\ written' = written \o b
         /\ Len(written') = Start(k + 1)
         /\ \A q \in 1..Start(k) : written'[q] = written[q]
         /\ \A p \in 1..BlockSize : written'[Start(k) + p] = b[p]
    <2>1. (written \o r) \o x = written \o b
      BY <1>1, <1>5, <1>8, Associative, Zenon
    <2>2. written' = written \o b
      BY <1>2, <2>1 DEF x
    <2> HIDE DEF b
    <2>3. /\ Len(written \o b) = Len(written) + Len(b)
          /\ \A q \in 1..Len(written) : (written \o b)[q] = written[q]
          /\ \A p \in 1..Len(b) : (written \o b)[Len(written) + p] = b[p]
      BY <1>1, <1>9, Behind, Zenon
    <2> QED BY <1>1, <1>6, <1>9, <2>2, <2>3
  <1> HIDE DEF b
  <1>11. ASSUME NEW j \in 1..k + 1
         PROVE  \A p \in 1..5 + Len(plan'[j]) : written'[Start(j - 1) + p] = Request(0, plan'[j])[p]
    <2>1. CASE j = k + 1
      <3>1. j - 1 = k /\ plan'[j] = t
        BY <1>1, <1>3, <2>1 DEF t
      <3>2. \A p \in 1..5 + Len(t) : p \in 1..BlockSize
        BY <1>5
      <3> QED BY <1>9, <1>10, <3>1, <3>2 DEF r
    <2>2. CASE j <= k
      <3>1. j \in 1..k /\ j - 1 \in Nat /\ j \in Nat /\ (j - 1) + 1 = j
        BY <1>1, <2>2
      <3>2. Start(j - 1) \in Nat /\ Start(j) = Start(j - 1) + BlockSize /\ Start(j) <= Start(k)
        BY <1>1, <2>2, <3>1, StartFacts
      <3>3. \A p \in 1..BlockSize : Start(j - 1) + p \in 1..Start(k)
        BY <1>5, <1>6, <3>2
      <3>4. 5 + Len(plan[j]) <= BlockSize /\ Len(plan[j]) \in Nat
        <4>1. j \in 1..Hops + 1
          BY <1>1, <1>3, <3>1, Indices
        <4> QED BY <4>1, RequestBytes DEF Types
      <3>5. \A p \in 1..5 + Len(plan[j]) : p \in 1..BlockSize
        BY <1>5, <3>4
      <3>6. \A p \in 1..BlockSize : written'[Start(j - 1) + p] = written[Start(j - 1) + p]
        BY <1>10, <3>3
      <3> QED BY <1>3, <3>1, <3>5, <3>6 DEF Sent
    <2> QED BY <1>1, <2>1, <2>2
  <1>12. k + 1 \in 0..Hops + 1
    BY <1>1, <1>3, Indices
  <1> QED BY <1>10, <1>11, <1>12 DEF Sent

\* If the client's memory held nothing that opens a text, no byte of its blocks
\* does but the one that opens the setup.
LEMMA QuietBlocks ==
    ASSUME NEW k, Sent(k), Quiet, NEW j \in 1..k
    PROVE  \A p \in 7..BlockSize : written[Start(j - 1) + p] \notin Openings
  <1>1. k \in Nat /\ Len(written) = Start(k) /\ j \in Nat /\ j - 1 \in Nat /\ (j - 1) + 1 = j /\ j <= k
    BY Indices DEF Sent
  <1>2. /\ j \in 1..Hops + 1 /\ Start(j - 1) \in Nat /\ Start(k) \in Nat
        /\ Start(j - 1) + BlockSize <= Start(k) /\ Start(j - 1) = (j - 1) * BlockSize
    <2>1. Start(j) = Start(j - 1) + BlockSize /\ Start(j) <= Start(k)
      BY <1>1, StartFacts
    <2>2. j \in 1..Hops + 1
      BY <1>1, Indices DEF Sent
    <2> QED BY <1>1, <2>1, <2>2, StartFacts DEF Start
  <1> TAKE p \in 7..BlockSize
  <1>3. Start(j - 1) + p <= Len(written)
    BY <1>1, <1>2, SizesAssumption
  <1>4. (j - 1) * BlockSize + p <= Len(written) => written[(j - 1) * BlockSize + p] \notin Openings
    BY <1>2 DEF Quiet
  <1> QED BY <1>2, <1>3, <1>4

\* What has been written stays.
LEMMA QuietSend ==
    ASSUME Types, Send, Quiet'
    PROVE  Quiet
  <1>1. PICK b \in Seq(Byte) : written' = written \o b
    BY SendSends
  <1>2. written \in Seq(Byte)
    BY DEF Types, Blocks
  <1>3. /\ Len(written') = Len(written) + Len(b)
        /\ \A q \in 1..Len(written) : written'[q] = written[q]
    BY <1>1, <1>2, Behind, Zenon
  <1> SUFFICES ASSUME NEW i \in 1..Hops + 1, NEW p \in 7..BlockSize,
                      (i - 1) * BlockSize + p <= Len(written)
               PROVE  written[(i - 1) * BlockSize + p] \notin Openings
    BY DEF Quiet
  <1>4. i - 1 \in Nat /\ (i - 1) * BlockSize \in Nat
    <2>1. i - 1 \in Nat
      BY Indices
    <2> QED BY <2>1, StartFacts DEF Start
  <1> DEFINE q == (i - 1) * BlockSize + p
  <1>5. q \in 1..Len(written) /\ q <= Len(written) + Len(b)
    BY <1>2, <1>4, SizesAssumption
  <1>6. q <= Len(written') => written'[q] \notin Openings
    BY DEF Quiet
  <1> QED BY <1>3, <1>5, <1>6

\* A text stands in what was written only where a setup of the client does.
LEMMA Occurrence ==
    ASSUME Types, Quiet, NEW k, Sent(k), NEW s \in Texts, NEW a \in Nat, a + Len(s) <= Len(written),
           \A i \in 1..Len(s) : written[a + i] = s[i]
    PROVE  \E j \in 1..k : a = Start(j - 1) + 5 /\ s = plan[j]
  <1>1. s \in Seq(Byte) /\ Len(s) \in Nat /\ Len(s) > 1 /\ s[1] # 0 /\ s[1] \in Openings
    <2>1. s \in Seq(Byte) /\ Len(s) \in Nat
      BY TextIsBytes
    <2>2. Len(s) > 1
      BY OpeningAssumption DEF OpeningsDiffer
    <2>3. s[1] \in Openings
      BY DEF Openings
    <2> QED BY <2>1, <2>2, <2>3, ZeroOpensNothing
  <1>2. k \in Nat /\ k <= Hops + 1 /\ Len(written) = Start(k)
    BY Indices DEF Sent
  <1>3. a < Start(k) /\ Start(k) \in Nat
    <2>1. Start(k) \in Nat
      BY <1>2, StartFacts
    <2> QED BY <1>1, <1>2, <2>1
  \* The block it begins in, and where.
  <1>4. PICK j \in 1..k : Start(j - 1) <= a /\ a < Start(j)
    <2> DEFINE S == {i \in Nat : i <= k /\ a < Start(i) => \E j \in 1..i : Start(j - 1) <= a /\ a < Start(j)}
    <2>1. 0 \in S
      BY StartFacts
    <2>2. ASSUME NEW i \in Nat, i \in S PROVE i + 1 \in S
      <3> SUFFICES ASSUME i + 1 <= k, a < Start(i + 1)
                   PROVE  \E j \in 1..i + 1 : Start(j - 1) <= a /\ a < Start(j)
        OBVIOUS
      <3>1. Start(i) \in Nat
        BY StartFacts
      <3>2. CASE a < Start(i)
        <4>1. PICK j \in 1..i : Start(j - 1) <= a /\ a < Start(j)
          BY <1>2, <2>2, <3>2
        <4>2. j \in 1..i + 1
          OBVIOUS
        <4> QED BY <4>1, <4>2
      <3>3. CASE ~ (a < Start(i))
        <4>1. i + 1 \in 1..i + 1 /\ (i + 1) - 1 = i /\ Start(i) <= a
          BY <3>1, <3>3
        <4>2. Start((i + 1) - 1) <= a /\ a < Start(i + 1)
          BY <4>1
        <4> QED BY <4>1, <4>2, Zenon
      <3> QED BY <3>2, <3>3
    <2>3. k \in S
      <3> HIDE DEF S
      <3> QED BY <1>2, <2>1, <2>2, Induct
    <2> QED BY <1>2, <1>3, <2>3
  <1> DEFINE o == Start(j - 1)
             t == plan[j]
             r == Request(0, t)
             p == a - o
  <1>5. /\ j \in 1..Hops + 1 /\ j \in Nat /\ j - 1 \in Nat /\ (j - 1) + 1 = j
    BY <1>2, Indices
  <1>6. o \in Nat /\ BlockSize \in Nat /\ p \in 0..BlockSize - 1 /\ o + p = a
    <2>1. Start(j) = o + BlockSize /\ o \in Nat
      BY <1>5, StartFacts
    <2>2. BlockSize \in Nat /\ o <= a /\ a < Start(j)
      BY <1>4, SizesAssumption
    <2> HIDE DEF o
    <2> QED BY <2>1, <2>2
  <1>7. t \in Setups
    BY <1>5 DEF Types
  <1>8. /\ t \in Texts /\ t \in Seq(Byte) /\ Len(t) \in Nat /\ Len(t) > 1 /\ 5 + Len(t) <= BlockSize
        /\ r[1] = 0
        /\ \A i \in 1..4 : r[1 + i] = Digits(Len(t))[i]
        /\ \A i \in 1..Len(t) : r[5 + i] = t[i]
    BY <1>7, RequestBytes
  <1>9. /\ \A i \in 1..5 + Len(t) : written[o + i] = r[i]
        /\ \A i \in 7..BlockSize : written[o + i] \notin Openings
    BY <1>4, QuietBlocks DEF Sent
  <1> HIDE DEF o, t, r, p
  <1>10. ASSUME NEW i \in 1..Len(s) PROVE s[i] = written[o + (p + i)]
    <2>1. o \in Nat /\ p \in Nat /\ i \in Nat /\ a = o + p
      BY <1>6
    <2>2. a + i = o + (p + i)
      BY ONLY <2>1
    <2> QED BY <2>2
  <1>11. p # 0
    <2> SUFFICES ASSUME p = 0 PROVE FALSE
      OBVIOUS
    <2>1. 1 \in 1..Len(s) /\ p + 1 = 1 /\ 1 \in 1..5 + Len(t)
      BY <1>1, <1>8
    <2>2. s[1] = r[1]
      BY <1>9, <1>10, <2>1
    <2> QED BY <1>1, <1>8, <2>2
  <1>12. ~ (p \in 1..4)
    <2> SUFFICES ASSUME p \in 1..4 PROVE FALSE
      OBVIOUS
    <2> DEFINE d == Digits(Len(t))
               head == d \o t
    <2>1. d \in Seq(Byte) /\ Len(d) = 4
      BY <1>8, TextIsBytes, DigitsMakeLength
    <2> HIDE DEF d
    <2>2. /\ \A i \in 1..Len(d) : head[i] = d[i]
          /\ \A i \in 1..Len(t) : head[Len(d) + i] = t[i]
      BY <1>8, <2>1, Behind, Zenon
    <2> HIDE DEF head
    <2>3. \A i \in 1..4 : head[i] = r[1 + i]
      BY <1>8, <2>1, <2>2 DEF d
    <2>4. head[5] = r[6]
      <3>1. 1 \in 1..Len(t)
        BY <1>8
      <3>2. head[4 + 1] = t[1] /\ r[5 + 1] = t[1]
        BY <1>8, <2>1, <2>2, <3>1
      <3> QED BY <3>2
    <2>5. \A i \in 1..5 : head[i] = r[1 + i]
      <3>1. \A i \in 1..5 : i \in 1..4 \/ i = 5
        OBVIOUS
      <3> QED BY <2>3, <2>4, <3>1
    <2>6. /\ 1 \in 1..Len(s) /\ 2 \in 1..Len(s) /\ p \in 1..5 /\ p + 1 \in 1..5
          /\ p + 1 \in 1..5 + Len(t) /\ p + 2 \in 1..5 + Len(t) /\ 1 + p = p + 1 /\ 1 + (p + 1) = p + 2
      BY SMTT(30), <1>1, <1>8
    <2>7. s[1] = r[p + 1] /\ s[2] = r[p + 2]
      BY <1>9, <1>10, <2>6
    <2>8. head[p] = s[1] /\ head[p + 1] = s[2]
      BY <2>5, <2>6, <2>7
    <2>9. ~ (head[p] = s[1] /\ head[p + 1] = s[2])
      BY <1>7, OpeningAssumption DEF OpeningsDiffer, head, d
    <2> QED BY <2>8, <2>9
  <1>13. p <= 5
    <2> SUFFICES ASSUME p > 5 PROVE FALSE
      BY <1>6
    <2>1. 1 \in 1..Len(s) /\ p + 1 \in 7..BlockSize
      BY <1>1, <1>6
    <2>2. s[1] \notin Openings
      BY <1>9, <1>10, <2>1
    <2> QED BY <1>1, <2>2
  <1>14. p = 5
    BY <1>6, <1>11, <1>12, <1>13
  \* There both begin, and neither is longer than the other.
  <1>15. \A i \in 1..Len(s) : i <= Len(t) => s[i] = t[i]
    <2> TAKE i \in 1..Len(s)
    <2> HAVE i <= Len(t)
    <2>1. i \in 1..Len(t) /\ 5 + i \in 1..5 + Len(t)
      BY <1>1, <1>8
    <2>2. s[i] = written[o + (5 + i)]
      BY <1>10, <1>14
    <2> QED BY <1>8, <1>9, <2>1, <2>2
  <1>16. s = t
    <2>1. CASE Len(s) <= Len(t)
      <3> DEFINE u == SubSeq(t, 1, Len(s))
      <3>1. u \in Seq(Byte) /\ Len(u) = Len(s) /\ \A i \in 1..Len(s) : u[i] = t[i]
        BY <1>1, <1>8, <2>1
      <3>2. \A i \in 1..Len(s) : u[i] = s[i]
        BY <1>1, <1>8, <1>15, <2>1, <3>1
      <3> HIDE DEF u
      <3>3. u = s
        BY <1>1, <3>1, <3>2, SameSequence
      <3> QED BY <1>8, <2>1, <3>3, TextsAssumption DEF u
    <2>2. CASE Len(t) <= Len(s)
      <3> DEFINE u == SubSeq(s, 1, Len(t))
      <3>1. u \in Seq(Byte) /\ Len(u) = Len(t) /\ \A i \in 1..Len(t) : u[i] = s[i]
        BY <1>1, <1>8, <2>2
      <3>2. \A i \in 1..Len(t) : u[i] = t[i]
        <4>1. \A i \in 1..Len(t) : i \in 1..Len(s) /\ i <= Len(t)
          BY <1>1, <1>8, <2>2
        <4> QED BY <1>15, <3>1, <4>1
      <3> HIDE DEF u
      <3>3. u = t
        BY <1>8, <3>1, <3>2, SameSequence
      <3> QED BY <1>8, <2>2, <3>3, TextsAssumption DEF u
    <2> QED BY <1>1, <1>8, <2>1, <2>2
  <1>17. a = Start(j - 1) + 5
    BY <1>6, <1>14 DEF o
  <1> QED BY <1>16, <1>17 DEF t

\* What a relay parses of a buffer that was cleared lies within what it has read.
LEMMA CleanRead ==
    ASSUME NEW s \in Seq(Byte), NEW n \in 1..BlockSize, n <= Len(s),
           NEW t \in Parsed(ReadRequest(First(s, n) \o Rest(Zeros, n)))
    PROVE  t \in Texts /\ 5 + Len(t) <= n /\ \A i \in 1..Len(t) : t[i] = s[5 + i] /\ t[i] # 0
  <1> DEFINE x == First(s, n)
             y == Rest(Zeros, n)
             b == x \o y
             c == ReadRequest(b)
  <1>1. n \in Nat /\ BlockSize \in Nat /\ BlockSize > 5 /\ n <= BlockSize /\ n >= 1
    BY SizesAssumption
  <1>2. x \in Seq(Byte) /\ Len(x) = n /\ \A i \in 1..n : x[i] = s[i]
    BY <1>1 DEF First
  <1>3. y \in Seq(Byte) /\ Len(y) = BlockSize - n /\ \A i \in 1..BlockSize - n : y[i] = 0
    <2>1. /\ Zeros \in Seq(Byte) /\ Len(Zeros) = BlockSize
          /\ \A i \in 1..BlockSize : Zeros[i] = 0
      BY SizesAssumption DEF Zeros, Byte
    <2> QED BY <1>1, <2>1 DEF Rest
  <1> HIDE DEF x, y
  <1>4. /\ b \in Seq(Byte) /\ Len(b) = BlockSize
        /\ \A i \in 1..n : b[i] = s[i]
        /\ \A i \in 1..BlockSize : i > n => b[i] = 0
    <2>1. /\ b \in Seq(Byte) /\ Len(b) = Len(x) + Len(y)
          /\ \A i \in 1..Len(x) : b[i] = x[i]
          /\ \A i \in 1..Len(y) : b[Len(x) + i] = y[i]
      BY <1>2, <1>3, Behind, Zenon
    <2> HIDE DEF b
    <2>2. ASSUME NEW i \in 1..BlockSize, i > n PROVE b[i] = 0
      <3> DEFINE j == i - n
      <3>1. j \in 1..BlockSize - n /\ n + j = i
        BY <1>1, <2>2
      <3> HIDE DEF j
      <3> QED BY <1>2, <1>3, <2>1, <3>1
    <2> QED BY <1>1, <1>2, <1>3, <2>1, <2>2
  <1> HIDE DEF b
  <1>5. c \in Seq(Byte) /\ \A i \in 1..Len(c) : 5 + i <= BlockSize /\ c[i] = b[5 + i]
    <2>1. LengthAt(b, 2) \in Nat
      BY <1>1, <1>4, LengthIsNat
    <2>2. \A i \in 1..Len(c) : 5 + i <= BlockSize /\ c[i] = b[5 + i]
      BY SMTT(30), <1>1, <1>4, <2>1, CopiedPart DEF ReadRequest
    <2>3. c \in Seq(Byte)
      BY <1>4, <2>1 DEF ReadRequest, Copied
    <2> QED BY <2>2, <2>3
  <1> HIDE DEF c
  <1>6. t \in Texts /\ Len(t) <= Len(c) /\ First(c, Len(t)) = t
    <2>1. t \in Parsed(c)
      BY DEF c, b, x, y
    <2> QED BY <2>1 DEF Parsed
  <1>7. t \in Seq(Byte) /\ Len(t) \in Nat /\ Len(t) > 0 /\ \A i \in 1..Len(t) : t[i] # 0
    <2>1. t \in Seq(Byte \ {0}) /\ t # <<>>
      BY <1>6, TextsAssumption
    <2> QED BY <1>6, <2>1, TextIsBytes
  <1>8. \A i \in 1..Len(t) : t[i] = c[i] /\ i \in 1..Len(c)
    <2>1. \A i \in 1..Len(t) : First(c, Len(t))[i] = c[i] /\ i \in 1..Len(c)
      BY <1>5, <1>6, <1>7 DEF First
    <2> QED BY <1>6, <2>1
  <1>9. ASSUME NEW i \in 1..Len(t) PROVE 5 + i <= n /\ t[i] = s[5 + i]
    <2>1. 5 + i \in 1..BlockSize /\ t[i] = b[5 + i] /\ t[i] # 0
      BY <1>1, <1>5, <1>7, <1>8
    <2> QED BY <1>1, <1>4, <2>1
  <1>10. 5 + Len(t) <= n
    <2>1. Len(t) \in 1..Len(t)
      BY <1>7
    <2> QED BY <1>9, <2>1
  <1> QED BY <1>6, <1>7, <1>9, <1>10

OnSetups ==
    \A h \in Relays : Clean(h) => hop[h] \in {Waiting, Dead} \cup {plan[j] : j \in 1..h}

\* A relay whose buffer was clean has acted on a setup of its own or of a hop
\* before it; if no relay up to it had a stale buffer, on its own, and its read
\* ended behind where that begins.
Own(at) ==
    /\ OnSetups
    /\ \A h \in Relays : hop[h] \in Texts /\ (\A g \in 1..h : Clean(g)) =>
          hop[h] = plan[h] /\ at[h + 1] > Start(h - 1) + 5

LEMMA OwnBuildPath ==
    ASSUME Types, Quiet, NEW low, NEW at, Streams(low, at), Own(at), NEW k, Sent(k),
           NEW h \in Relays, BuildPath(h), NEW n \in 1..BlockSize, Read(h, n),
           hop' = [hop EXCEPT ![h] = Dead]
              \/ \E t \in Parsed(ReadRequest(First(link[h], n) \o Rest(stale[h], n))) :
                    hop' = [hop EXCEPT ![h] = t],
           NEW c, Counts(c, link[h], Part(written, low[h], low[h - 1])),
           NEW q, q = low[h] + c[n]
    PROVE  Own([j \in 1..Hops + 1 |-> IF j > h THEN q ELSE at[j]])'
  <1> DEFINE on == [j \in 1..Hops + 1 |-> IF j > h THEN q ELSE at[j]]
  <1>1. /\ q \in Nat /\ low[h] <= q /\ q <= low[h - 1]
        /\ n \in Nat /\ n <= BlockSize /\ n <= Len(link[h])
        /\ \A g \in Relays : g < h => hop[g] # Waiting /\ (g + 1 = h => hop[g] # Dead)
    BY StreamsRead
  <1>2. /\ h \in Nat /\ h >= 1 /\ h <= Hops /\ Hops \in Nat /\ h \in 1..Hops + 1 /\ h + 1 \in 1..Hops + 1
        /\ h - 1 \in Nat
    BY Indices DEF Relays
  <1>3. /\ written \in Seq(Byte) /\ Len(written) \in Nat /\ link[h] \in Seq(Byte)
        /\ low[h] \in Nat /\ low[h - 1] \in Nat /\ low[h] <= low[h - 1] /\ low[h - 1] <= Len(written)
    BY <1>2, StreamsFacts
  <1>4. UNCHANGED <<plan, written, stale>> /\ hop[h] = Waiting
    BY DEF BuildPath
  <1>5. /\ \A j \in h..Hops + 1 : low[j] = low[h] /\ at[j] = low[h]
        /\ at[h] = low[h] /\ low[h] <= Start(h - 1)
    <2>1. \A j \in h..Hops + 1 : low[j] = low[h] /\ at[j] = low[h]
      BY <1>4 DEF Streams
    <2>2. h \in h..Hops + 1
      BY <1>2
    <2>3. at[h] <= Start(h - 1)
      BY <1>2 DEF Streams
    <2> QED BY <2>1, <2>2, <2>3
  <1>6. \A j \in 1..Hops + 1 : on[j] = IF j > h THEN q ELSE at[j]
    OBVIOUS
  <1> HIDE DEF on
  <1>7. /\ \A g \in Relays : g # h => hop'[g] = hop[g]
        /\ \A g \in Relays : Clean(g)' <=> Clean(g)
    BY <1>4 DEF BuildPath, Types, Clean
  \* What h acts on, if nothing stale was in its buffer.
  <1>8. ASSUME Clean(h), hop'[h] # Dead
        PROVE  \E j \in 1..k : /\ hop'[h] = plan[j]
                               /\ low[h] <= Start(j - 1) + 5 /\ Start(j - 1) <= low[h]
                               /\ q > Start(j - 1) + 5
    <2>1. PICK t \in Parsed(ReadRequest(First(link[h], n) \o Rest(stale[h], n))) :
                    hop' = [hop EXCEPT ![h] = t]
      BY <1>8 DEF Types
    <2>2. hop'[h] = t
      BY <2>1 DEF Types
    <2>3. t \in Texts /\ 5 + Len(t) <= n /\ \A i \in 1..Len(t) : t[i] = link[h][5 + i] /\ t[i] # 0
      <3>1. t \in Parsed(ReadRequest(First(link[h], n) \o Rest(Zeros, n)))
        BY <1>8 DEF Clean
      <3> QED BY <1>1, <1>3, <3>1, CleanRead
    <2>4. Len(t) \in Nat /\ Len(t) > 1
      BY <2>3, TextIsBytes, OpeningAssumption DEF OpeningsDiffer
    <2> DEFINE x == link[h]
               y == Part(written, low[h], low[h - 1])
    <2>5. /\ x \in Seq(Byte) /\ Len(x) \in Nat /\ Counts(c, x, y)
          /\ y \in Seq(Byte) /\ Len(y) = low[h - 1] - low[h] /\ Len(y) \in Nat
          /\ \A i \in 1..Len(y) : y[i] = written[low[h] + i]
      <3>1. /\ y \in Seq(Byte) /\ Len(y) = low[h - 1] - low[h]
            /\ \A i \in 1..low[h - 1] - low[h] : y[i] = written[low[h] + i]
        BY <1>3, PartFacts, ZenonT(40)
      <3> HIDE DEF y
      <3>2. Len(y) \in Nat
        BY <1>3, <3>1
      <3>3. \A i \in 1..Len(y) : y[i] = written[low[h] + i]
        BY <3>1
      <3> QED BY <1>3, <3>1, <3>2, <3>3 DEF y
    <2> HIDE DEF y
    <2>6. /\ c[5] \in 0..Len(y) /\ c[5] <= 5 /\ c[5 + Len(t)] \in 0..Len(y)
          /\ c[5 + Len(t)] <= c[n]
      <3>1. 5 \in 0..Len(x) /\ 5 + Len(t) \in 0..Len(x) /\ n \in 0..Len(x) /\ 5 + Len(t) <= n
        BY <1>1, <2>3, <2>4, <2>5
      <3>2. /\ \A i, j \in 0..Len(x) : i <= j => c[i] <= c[j]
            /\ \A i \in 0..Len(x) : c[i] \in 0..Len(y) /\ c[i] <= i
        <4> HIDE DEF x
        <4> QED BY <2>5, CountsGrow
      <3> QED BY <3>1, <3>2
    <2>7. /\ \A i \in 0..Len(t) : c[5 + i] = c[5] + i
          /\ \A i \in 1..Len(t) : x[5 + i] = y[c[5] + i]
      <3>1. 5 + Len(t) <= Len(x) /\ 5 \in Nat
        BY <1>1, <2>3, <2>4, <2>5
      <3>2. \A i \in 1..Len(t) : x[5 + i] # 0
        BY <2>3
      <3>3. Len(t) \in Nat
        BY <2>4
      <3>4. Run(x, 5, Len(t))
        BY <3>1, <3>2 DEF Run
      <3> HIDE DEF x
      <3>5. RunKept(c, x, y, 5, Len(t))
        BY <2>5, <3>1, <3>3, <3>4, SpreadRun
      <3> QED BY <3>5 DEF RunKept
    <2> DEFINE m == c[5]
               a == low[h] + m
    <2>8. /\ m \in Nat /\ m <= 5 /\ a \in Nat /\ m + Len(t) <= Len(y) /\ a + Len(t) <= q
          /\ a + Len(t) <= Len(written)
      <3> DEFINE e == c[5 + Len(t)]
      <3>1. e = m + Len(t) /\ e \in 0..Len(y) /\ e <= c[n] /\ m \in Nat /\ m <= 5
        <4>1. Len(t) \in 0..Len(t)
          BY <2>4
        <4> QED BY <2>4, <2>5, <2>6, <2>7, <4>1
      <3>2. c[n] = q - low[h] /\ c[n] \in Nat
        <4>1. n \in 0..Len(x)
          BY <1>1, <2>5
        <4>2. c[n] \in Nat
          BY <2>5, <4>1 DEF Counts
        <4> QED BY <1>3, <4>2
      <3> DEFINE l == low[h]
                 z == low[h - 1]
      <3>3. /\ e = m + Len(t) /\ e \in Nat /\ e <= z - l /\ e <= q - l /\ m \in Nat /\ m <= 5
            /\ l \in Nat /\ z \in Nat /\ l <= z /\ z <= Len(written) /\ q \in Nat
            /\ Len(y) = z - l /\ a = l + m /\ Len(t) \in Nat /\ Len(written) \in Nat
        <4> HIDE DEF e, m
        <4> QED BY <1>1, <1>3, <2>4, <2>5, <3>1, <3>2
      <3> HIDE DEF e, m, l, z, a, y
      <3> QED BY <3>3
    <2>9. \A i \in 1..Len(t) : written[a + i] = t[i]
      <3> TAKE i \in 1..Len(t)
      <3>1. m + i \in 1..Len(y) /\ low[h] + (m + i) = a + i
        <4> DEFINE l == low[h]
        <4>1. i \in Nat /\ i >= 1 /\ i <= Len(t) /\ Len(t) \in Nat
          BY <2>4
        <4> HIDE DEF m
        <4>2. l \in Nat /\ a = l + m /\ m \in Nat /\ Len(y) \in Nat /\ m + Len(t) <= Len(y)
          BY <1>3, <2>5, <2>8
        <4> HIDE DEF l, a
        <4>3. m + i \in 1..Len(y) /\ l + (m + i) = a + i
          BY ONLY <4>1, <4>2
        <4> QED BY <4>3 DEF l
      <3>2. x[5 + i] = y[m + i]
        BY <2>7
      <3>3. y[m + i] = written[low[h] + (m + i)]
        BY <2>5, <3>1
      <3> QED BY <2>3, <3>1, <3>2, <3>3
    <2> HIDE DEF m
    <2>10. PICK j \in 1..k : a = Start(j - 1) + 5 /\ t = plan[j]
      <3>1. a \in Nat /\ a + Len(t) <= Len(written) /\ t \in Texts
        BY <2>3, <2>8
      <3>2. Types /\ Quiet /\ Sent(k)
        OBVIOUS
      <3> HIDE DEF a
      <3> QED BY ONLY <2>9, <3>1, <3>2, Occurrence, Zenon
    <2>11. Start(j - 1) \in Nat
      <3>1. j - 1 \in Nat
        BY Indices DEF Sent
      <3> QED BY <3>1, StartFacts
    <2>12. low[h] <= Start(j - 1) + 5 /\ Start(j - 1) <= low[h] /\ q > Start(j - 1) + 5
      <3> DEFINE b == Start(j - 1)
                 l == low[h]
      <3>1. /\ b \in Nat /\ l \in Nat /\ m \in Nat /\ m <= 5 /\ q \in Nat /\ Len(t) \in Nat /\ Len(t) > 1
            /\ l + m = b + 5 /\ (l + m) + Len(t) <= q
        BY <1>1, <1>3, <2>4, <2>8, <2>10, <2>11
      <3> HIDE DEF b, l
      <3>2. l <= b + 5 /\ b <= l /\ q > b + 5
        BY <3>1
      <3> QED BY <3>2 DEF b, l
    <2> QED BY <2>2, <2>10, <2>12
  <1>9. ASSUME NEW j \in 1..k, Start(j - 1) <= low[h] PROVE j <= h
    <2>1. j - 1 \in Nat /\ j \in Nat
      BY Indices DEF Sent
    <2>2. ASSUME h < j PROVE FALSE
      <3>1. h - 1 < j - 1
        BY <1>2, <2>1, <2>2
      <3>2. Start(h - 1) + BlockSize <= Start(j - 1) /\ Start(h - 1) \in Nat /\ Start(j - 1) \in Nat
        BY <1>2, <2>1, <3>1, StartFacts
      <3> QED BY <1>3, <1>5, <1>9, <3>2, SizesAssumption
    <2> QED BY <1>2, <2>1, <2>2
  <1>10. ASSUME Clean(h) PROVE hop'[h] \in {Waiting, Dead} \cup {plan[j] : j \in 1..h}
    <2>1. CASE hop'[h] # Dead
      <3>1. PICK j \in 1..k : hop'[h] = plan[j] /\ Start(j - 1) <= low[h]
        BY <1>8, <1>10, <2>1
      <3>2. j \in 1..h
        BY <1>2, <1>9, <3>1, Indices DEF Sent
      <3> QED BY <3>1, <3>2
    <2> QED BY <2>1
  <1>11. OnSetups'
    <2> SUFFICES ASSUME NEW g \in Relays, Clean(g)'
                 PROVE  hop'[g] \in {Waiting, Dead} \cup {plan'[j] : j \in 1..g}
      BY DEF OnSetups
    <2>1. CASE g = h
      BY <1>4, <1>7, <1>10, <2>1
    <2>2. CASE g # h
      BY <1>4, <1>7, <2>2 DEF Own, OnSetups
    <2> QED BY <2>1, <2>2
  <1>12. ASSUME \A g \in 1..h : Clean(g), hop'[h] # Dead
         PROVE  hop'[h] = plan[h] /\ q > Start(h - 1) + 5
    <2>1. h \in 1..h
      BY <1>2
    <2>2. PICK j \in 1..k : /\ hop'[h] = plan[j]
                            /\ low[h] <= Start(j - 1) + 5 /\ Start(j - 1) <= low[h]
                            /\ q > Start(j - 1) + 5
      BY <1>8, <1>12, <2>1
    <2>3. j <= h /\ j \in Nat /\ j - 1 \in Nat /\ j >= 1
      BY <1>9, <2>2, Indices DEF Sent
    <2>4. ~ (j < h)
      <3> SUFFICES ASSUME j < h PROVE FALSE
        OBVIOUS
      <3> DEFINE g == h - 1
      <3>1. g \in Relays /\ g < h /\ g + 1 = h /\ g - 1 \in Nat /\ j - 1 <= g - 1
            /\ \A i \in 1..g : i \in 1..h
        BY <1>2, <2>3 DEF Relays
      <3> HIDE DEF g
      <3>2. hop[g] \in Texts
        BY <1>1, <3>1 DEF Types
      <3>3. at[g + 1] > Start(g - 1) + 5
        BY <1>12, <3>1, <3>2 DEF Own
      <3>4. Start(j - 1) <= Start(g - 1) /\ Start(j - 1) \in Nat /\ Start(g - 1) \in Nat
        BY <2>3, <3>1, StartFacts
      <3>5. low[h] > Start(g - 1) + 5
        BY <1>5, <3>1, <3>3
      <3> QED BY <1>3, <2>2, <3>4, <3>5
    <2>5. j = h
      BY <1>2, <2>3, <2>4
    <2> QED BY <2>2, <2>5
  <1>13. ASSUME NEW g \in Relays, hop'[g] \in Texts, \A i \in 1..g : Clean(i)'
         PROVE  hop'[g] = plan'[g] /\ on[g + 1] > Start(g - 1) + 5
    <2>1. g \in Nat /\ g \in 1..Hops + 1 /\ g + 1 \in 1..Hops + 1 /\ g - 1 \in Nat /\ g <= Hops
      BY Indices DEF Relays
    <2>2. \A i \in 1..g : Clean(i)
      <3>1. \A i \in 1..g : i \in Relays
        BY <1>2, <2>1 DEF Relays
      <3> QED BY <1>7, <1>13, <3>1
    <2>3. CASE g = h
      <3>1. hop'[h] # Dead /\ g + 1 > h
        BY <1>13, <2>1, <2>3, TextsAssumption
      <3> QED BY <1>4, <1>6, <1>12, <2>1, <2>2, <2>3, <3>1
    <2>4. CASE g # h
      <3>1. hop[g] \in Texts /\ hop'[g] = hop[g]
        BY <1>7, <1>13, <2>4
      <3>2. hop[g] = plan[g] /\ at[g + 1] > Start(g - 1) + 5
        BY <2>2, <3>1 DEF Own
      <3>3. CASE g + 1 > h
        <4>1. on[g + 1] = q /\ at[g + 1] = low[h]
          <5>1. g + 1 \in h..Hops + 1
            BY <1>2, <2>1, <3>3
          <5> QED BY <1>5, <1>6, <2>1, <3>3, <5>1
        <4>2. Start(g - 1) \in Nat
          BY <2>1, StartFacts
        <4> QED BY <1>1, <1>3, <1>4, <3>1, <3>2, <4>1, <4>2
      <3>4. CASE ~ (g + 1 > h)
        <4>1. on[g + 1] = at[g + 1]
          BY <1>6, <2>1, <3>4
        <4> QED BY <1>4, <3>1, <3>2, <4>1
      <3> QED BY <3>3, <3>4
    <2> QED BY <2>3, <2>4
  <1>14. Own(on)'
    BY <1>11, <1>13 DEF Own
  <1> QED BY <1>14 DEF on
------------------------------------------------------------------------------
(* The invariants.                                                         *)

StreamInv == \E low, at, k : Streams(low, at) /\ (Quiet => Own(at)) /\ Sent(k)

LEMMA StreamInvInit == Init => StreamInv
  <1> SUFFICES ASSUME Init PROVE StreamInv
    OBVIOUS
  <1>1. Streams([h \in 0..Hops + 1 |-> 0], [h \in 1..Hops + 1 |-> 0])
    BY StreamsInit
  <1>2. \A h \in Relays : hop[h] = Waiting
    BY DEF Init
  <1>3. ASSUME NEW at PROVE Own(at)
    BY <1>2, TextsAssumption DEF Own, OnSetups
  <1>4. Sent(0)
    <2>1. Start(0) = 0 /\ 0 \in 0..Hops + 1 /\ Len(written) = 0
      BY StartFacts, Indices DEF Init
    <2>2. \A i \in 1..0 : FALSE
      OBVIOUS
    <2> QED BY <2>1, <2>2 DEF Sent
  <1> QED BY <1>1, <1>3, <1>4 DEF StreamInv

LEMMA StreamInvStep == Types /\ Types' /\ StreamInv /\ [Next]_vars => StreamInv'
  <1> SUFFICES ASSUME Types, Types', StreamInv, [Next]_vars PROVE StreamInv'
    OBVIOUS
  <1>1. PICK low, at, k : Streams(low, at) /\ (Quiet => Own(at)) /\ Sent(k)
    BY DEF StreamInv
  <1>2. CASE Send
    <2>1. UNCHANGED <<plan, hop, stale>>
      BY <1>2 DEF Send
    <2>2. ASSUME Quiet' PROVE Own(at)'
      BY <1>1, <1>2, <2>1, <2>2, QuietSend DEF Own, OnSetups, Clean
    <2>3. PICK m : m = Len(written')
      OBVIOUS
    <2>4. Streams([low EXCEPT ![0] = m], at)'
      BY <1>1, <1>2, <2>3, StreamsSend
    <2>5. Sent(k + 1)'
      BY <1>1, <1>2, SentSend
    <2> QED BY <2>2, <2>4, <2>5 DEF StreamInv
  <1>3. ASSUME NEW h \in Relays, BuildPath(h) PROVE StreamInv'
    <2>1. PICK n \in 1..BlockSize :
             /\ Read(h, n)
             /\ eaten' = [eaten EXCEPT ![h] = First(link[h], n)]
             /\ link' = [link EXCEPT ![h] = Rest(@, n)]
             /\ \/ hop' = [hop EXCEPT ![h] = Dead]
                \/ \E t \in Parsed(ReadRequest(First(link[h], n) \o Rest(stale[h], n))) :
                      hop' = [hop EXCEPT ![h] = t]
      BY <1>3 DEF BuildPath
    <2>2. PICK c : Counts(c, link[h], Part(written, low[h], low[h - 1]))
      BY <1>1, Indices DEF Streams, Spread
    <2>3. PICK q : q = low[h] + c[n]
      OBVIOUS
    <2>4. PICK new : new = [j \in 0..Hops + 1 |-> IF j >= h THEN q ELSE low[j]]
      OBVIOUS
    <2>5. PICK on : on = [j \in 1..Hops + 1 |-> IF j > h THEN q ELSE at[j]]
      OBVIOUS
    <2>6. Streams(new, on)'
      <3>1. /\ Types /\ Streams(low, at) /\ h \in Relays /\ BuildPath(h)
            /\ n \in 1..BlockSize /\ Read(h, n)
            /\ link' = [link EXCEPT ![h] = Rest(@, n)]
            /\ eaten' = [eaten EXCEPT ![h] = First(link[h], n)]
            /\ Counts(c, link[h], Part(written, low[h], low[h - 1]))
            /\ q = low[h] + c[n]
            /\ LowFrom(new, low, h, q)
            /\ AtBehind(on, at, h, q)
        BY <1>1, <1>3, <2>1, <2>2, <2>3, <2>4, <2>5 DEF LowFrom, AtBehind
      <3> QED BY ONLY <3>1, StreamsBuildPath
    <2>7. ASSUME Quiet' PROVE Own([j \in 1..Hops + 1 |-> IF j > h THEN q ELSE at[j]])'
      <3>1. Quiet
        BY <1>3, <2>7 DEF Quiet, BuildPath
      <3> QED BY <1>1, <1>3, <2>1, <2>2, <2>3, <3>1, OwnBuildPath
    <2>8. Sent(k)'
      BY <1>1, <1>3 DEF Sent, BuildPath
    <2> QED BY <2>5, <2>6, <2>7, <2>8 DEF StreamInv
  <1>4. ASSUME NEW h \in Relays, HandleRequest(h) PROVE StreamInv'
    <2>1. PICK n \in 1..BlockSize :
             /\ Read(h, n)
             /\ link' = [link EXCEPT ![h] = Rest(@, n),
                                     ![h + 1] = @ \o First(link[h], n) \o Rest(Zeros, n)]
      BY <1>4 DEF HandleRequest
    <2>2. PICK c : Counts(c, link[h], Part(written, low[h], low[h - 1]))
      BY <1>1, Indices DEF Streams, Spread
    <2>3. PICK q : q = low[h] + c[n]
      OBVIOUS
    <2>4. Streams([low EXCEPT ![h] = q], at)'
      BY <1>1, <1>4, <2>1, <2>2, <2>3, StreamsHandleRequest
    <2>5. UNCHANGED <<plan, written, hop, stale>>
      BY <1>4 DEF HandleRequest
    <2>6. (Quiet => Own(at))' /\ Sent(k)'
      BY <1>1, <2>5 DEF Quiet, Own, OnSetups, Clean, Sent
    <2> QED BY <2>4, <2>6 DEF StreamInv
  <1>5. CASE UNCHANGED vars
    <2>1. Streams(low, at)'
      BY <1>1, <1>5 DEF vars, Streams, Spread, Counts
    <2>2. (Quiet => Own(at))' /\ Sent(k)'
      BY <1>1, <1>5 DEF vars, Quiet, Own, OnSetups, Clean, Sent
    <2> QED BY <2>1, <2>2 DEF StreamInv
  <1> QED BY <1>2, <1>3, <1>4, <1>5 DEF Next

LEMMA StreamInvariant == Spec => [](Types /\ StreamInv)
  <1>1. Init => Types /\ StreamInv
    BY TypesInit, StreamInvInit
  <1>2. Types /\ StreamInv /\ [Next]_vars => (Types /\ StreamInv)'
    BY TypesStep, StreamInvStep
  <1> QED BY <1>1, <1>2, PTL DEF Spec

\* Whatever the number of relays and wherever reads are cut, what the relays
\* have read and what is on its way is, zeroes apart, what the client has sent,
\* in order (Node/Server.cpp:212-260).
THEOREM StreamKeptCorrect == Spec => []StreamKept
  <1>1. Types /\ StreamInv => StreamKept
    BY StreamsKeep DEF StreamInv
  <1> QED BY <1>1, StreamInvariant, PTL

\* Whatever the number of relays and wherever reads are cut, a relay whose
\* buffer held nothing stale acts on a setup that the client has sent, its own
\* or that of a hop before it, unless the client's memory looked like one
\* (Node/Server.cpp:207-260, 316-332).
THEOREM SetupsCorrect == Spec => []HopsActOnSetups
  <1>1. Types /\ StreamInv => HopsActOnSetups
    BY DEF StreamInv, Own, OnSetups, HopsActOnSetups
  <1> QED BY <1>1, StreamInvariant, PTL

\* If no relay up to it has a stale buffer either, it acts, unless the client's
\* memory looked like a setup, on its own setup or on none (Node/Server.cpp:207-260, 321-324).
THEOREM TheirOwnCorrect == Spec => []HopsActOnTheirOwn
  <1>1. Types /\ StreamInv => HopsActOnTheirOwn
    BY DEF StreamInv, Own, Types, HopsActOnTheirOwn
  <1> QED BY <1>1, StreamInvariant, PTL
=============================================================================
