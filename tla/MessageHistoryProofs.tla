------------------------- MODULE MessageHistoryProofs -------------------------
(***************************************************************************)
(* Proofs about MessageHistory: every prompt of the executor follows the   *)
(* provider's protocol, and shows the whole round of tools called last.    *)
(***************************************************************************)
EXTENDS MessageHistory, FiniteSetTheorems, SequenceTheorems, TLAPS

-----------------------------------------------------------------------------
\* Induction on numbers, and what is defined by it.

\* A set of numbers has a least one.
LEMMA LeastOf ==
  ASSUME NEW T, T \subseteq Nat, T # {}
  PROVE  \E m \in T : \A y \in T : m <= y
<1> DEFINE U == {0 .. n-1 : n \in T}
<1>1. \A n \in T : IsFiniteSet(0..n-1) /\ 0..n-1 \in SUBSET Nat
  BY FS_Interval
<1>2. U \subseteq FiniteSubsetsOf(Nat) /\ U # {}
  BY <1>1 DEF FiniteSubsetsOf
<1> HIDE DEF U
<1>3. \E x \in U : \A y \in U : ~ (<<y, x>> \in StrictSubsetOrdering(Nat))
  <2>1. IsWellFoundedOn(StrictSubsetOrdering(Nat), FiniteSubsetsOf(Nat))
    BY FS_StrictSubsetOrderingWellFounded
  <2>2. QED
    BY <1>2, <2>1, WFMin
<1>4. PICK m \in T : \A y \in T : ~ (<<0..y-1, 0..m-1>> \in StrictSubsetOrdering(Nat))
  BY <1>3 DEF U
<1>5. ASSUME NEW y \in T, y < m PROVE <<0..y-1, 0..m-1>> \in StrictSubsetOrdering(Nat)
  <2>1. y \in 0..m-1 /\ y \notin 0..y-1 /\ 0..y-1 \subseteq 0..m-1 /\ 0..m-1 \subseteq Nat
    BY <1>5
  <2>2. QED
    BY <2>1 DEF StrictSubsetOrdering
<1>6. \A y \in T : m <= y
  <2>1. \A y \in T : ~(y < m)
    BY <1>4, <1>5
  <2>2. QED
    BY <2>1
<1>7. QED
  BY <1>6

LEMMA ByInduction ==
  ASSUME NEW P, 0 \in P, \A n \in Nat : n \in P => n + 1 \in P
  PROVE  Nat \subseteq P
<1>1. SUFFICES ASSUME Nat \ P # {} PROVE FALSE
  OBVIOUS
<1>2. PICK m \in Nat \ P : \A y \in Nat \ P : m <= y
  BY <1>1, LeastOf
<1>3. m - 1 \in Nat /\ m - 1 \in P
  BY <1>2
<1>4. QED
  BY <1>2, <1>3

\* A set of numbers below a bound has a greatest one.
LEMMA LargestOf ==
  ASSUME NEW L \in Nat, NEW T, T \subseteq 0 .. L, T # {}
  PROVE  Max(T) \in T /\ \A y \in T : y <= Max(T)
<1> DEFINE U == {L - t : t \in T}
<1>1. U \subseteq Nat /\ U # {}
  <2>1. \A t \in T : L - t \in Nat
    OBVIOUS
  <2>2. QED
    BY <2>1
<1>2. PICK m \in U : \A y \in U : m <= y
  BY <1>1, LeastOf
<1>3. PICK t \in T : m = L - t
  BY <1>2
<1>4. \A y \in T : t >= y
  BY <1>2, <1>3
<1>5. QED
  BY <1>4 DEF Max

\* f starts with b and goes on by the functions F.
Recurs(f, b, n, F) == f[0] = b /\ \A i \in 1 .. n : f[i] = F[i][f[i - 1]]

\* A recursion over the first n numbers has a solution, when each of its
\* steps stays in a set.
LEMMA Recursion ==
  ASSUME NEW A, NEW b \in A, NEW n \in Nat, NEW F \in [1 .. n -> [A -> A]]
  PROVE  \E f \in [0 .. n -> A] : Recurs(f, b, n, F)
<1> DEFINE Solves(f, k) == f[0] = b /\ \A i \in 1 .. k : f[i] = F[i][f[i - 1]]
           P == {k \in Nat : k <= n => \E f \in [0 .. k -> A] : Solves(f, k)}
<1>1. 0 \in P
  <2>1. [i \in 0 .. 0 |-> b] \in [0 .. 0 -> A] /\ Solves([i \in 0 .. 0 |-> b], 0)
    OBVIOUS
  <2>2. QED
    BY <2>1
<1>2. ASSUME NEW k \in Nat, k \in P PROVE k + 1 \in P
  <2>1. SUFFICES ASSUME k + 1 <= n PROVE \E f \in [0 .. k + 1 -> A] : Solves(f, k + 1)
    OBVIOUS
  <2>2. PICK f \in [0 .. k -> A] : Solves(f, k)
    BY <1>2, <2>1
  <2> DEFINE g == [i \in 0 .. k + 1 |-> IF i <= k THEN f[i] ELSE F[k + 1][f[k]]]
  <2>3. g \in [0 .. k + 1 -> A]
    <3>1. f[k] \in A /\ k + 1 \in 1 .. n
      BY <2>1
    <3>2. F[k + 1][f[k]] \in A
      BY <3>1
    <3>3. QED
      BY <3>2
  <2>4. Solves(g, k + 1)
    <3>1. g[0] = b
      BY <2>2
    <3>2. ASSUME NEW i \in 1 .. k PROVE g[i] = F[i][g[i - 1]]
      <4>1. g[i] = f[i] /\ g[i - 1] = f[i - 1]
        OBVIOUS
      <4>2. QED
        BY <2>2, <4>1
    <3>3. g[k + 1] = F[k + 1][g[k]]
      <4>1. ~(k + 1 <= k) /\ k + 1 \in 0 .. k + 1 /\ k \in 0 .. k + 1
        OBVIOUS
      <4>2. QED
        BY <4>1
    <3>4. \A i \in 1 .. k + 1 : i \in 1 .. k \/ i = k + 1
      OBVIOUS
    <3> HIDE DEF g
    <3>5. ASSUME NEW i \in 1 .. k + 1 PROVE g[i] = F[i][g[i - 1]]
      <4>1. CASE i \in 1 .. k
        BY <3>2, <4>1
      <4>2. CASE i = k + 1
        <5>1. i - 1 = k
          BY <4>2
        <5>2. QED
          BY <3>3, <4>2, <5>1
      <4>3. QED
        BY <3>4, <4>1, <4>2
    <3>6. QED
      BY <3>1, <3>5
  <2>5. QED
    BY <2>3, <2>4
<1> HIDE DEF P
<1>3. n \in P
  BY <1>1, <1>2, ByInduction
<1>4. QED
  BY <1>3 DEF P, Recurs

\* What a step of a recursion keeps, all of its values have.
LEMMA RecursionStays ==
  ASSUME NEW A, NEW n \in Nat, NEW f, f[0] \in A,
         \A i \in 1 .. n : f[i - 1] \in A => f[i] \in A
  PROVE  \A i \in 0 .. n : f[i] \in A
<1> DEFINE P == {k \in Nat : k <= n => f[k] \in A}
<1>1. 0 \in P
  OBVIOUS
<1>2. ASSUME NEW k \in Nat, k \in P PROVE k + 1 \in P
  <2>1. SUFFICES ASSUME k + 1 <= n PROVE f[k + 1] \in A
    OBVIOUS
  <2>2. f[k] \in A /\ k + 1 \in 1 .. n /\ (k + 1) - 1 = k
    BY <1>2, <2>1
  <2>3. QED
    BY <2>2
<1> HIDE DEF P
<1>3. Nat \subseteq P
  BY <1>1, <1>2, ByInduction
<1>4. QED
  BY <1>3 DEF P

-----------------------------------------------------------------------------
\* Sizes.

\* The running sums of the sizes of a sequence.
Sums(s, f) == f[0] = 0 /\ \A i \in 1 .. Len(s) : f[i] = f[i - 1] + s[i].size

Sized(S) == \A x \in S : x.size \in Nat

LEMMA SumsOnce ==
  ASSUME NEW S, Sized(S), NEW s \in Seq(S), NEW f, NEW g, Sums(s, f), Sums(s, g)
  PROVE  \A i \in 0 .. Len(s) : f[i] = g[i] /\ f[i] \in Nat
<1> DEFINE P == {k \in Nat : k <= Len(s) => f[k] = g[k] /\ f[k] \in Nat}
<1>1. 0 \in P
  BY DEF Sums
<1>2. ASSUME NEW k \in Nat, k \in P PROVE k + 1 \in P
  <2>1. SUFFICES ASSUME k + 1 <= Len(s) PROVE f[k + 1] = g[k + 1] /\ f[k + 1] \in Nat
    OBVIOUS
  <2>2. k + 1 \in 1 .. Len(s) /\ (k + 1) - 1 = k /\ f[k] = g[k] /\ f[k] \in Nat
    BY <1>2, <2>1
  <2>3. s[k + 1].size \in Nat
    <3>1. s[k + 1] \in S
      BY <2>2
    <3>2. QED
      BY <3>1 DEF Sized
  <2>4. f[k + 1] = f[k] + s[k + 1].size /\ g[k + 1] = g[k] + s[k + 1].size
    BY <2>2 DEF Sums
  <2>5. QED
    BY <2>2, <2>3, <2>4
<1> HIDE DEF P
<1>3. Nat \subseteq P
  BY <1>1, <1>2, ByInduction
<1>4. QED
  BY <1>3 DEF P

LEMMA SumsExist ==
  ASSUME NEW S, Sized(S), NEW s \in Seq(S)
  PROVE  \E f \in [0 .. Len(s) -> Nat] : Sums(s, f) /\ SizeOf(s) = f[Len(s)]
<1> DEFINE n == Len(s)
           F == [i \in 1 .. n |-> [x \in Nat |-> x + s[i].size]]
           Solves(f) == f = [i \in 0 .. n |-> IF i = 0 THEN 0 ELSE f[i - 1] + s[i].size]
           sum == CHOOSE f : Solves(f)
<1>0. \A i \in 1 .. n : s[i].size \in Nat
  <2>1. \A i \in 1 .. n : s[i] \in S
    OBVIOUS
  <2>2. QED
    BY <2>1 DEF Sized
<1>1. PICK f \in [0 .. n -> Nat] : Recurs(f, 0, n, F)
  <2>1. F \in [1 .. n -> [Nat -> Nat]]
    BY <1>0
  <2>2. 0 \in Nat /\ n \in Nat
    OBVIOUS
  <2> HIDE DEF F
  <2>3. QED
    BY <2>1, <2>2, Recursion
<1>2. \A i \in 1 .. n : f[i] = f[i - 1] + s[i].size
  <2>1. ASSUME NEW i \in 1 .. n PROVE f[i] = f[i - 1] + s[i].size
    <3>1. f[i - 1] \in Nat
      OBVIOUS
    <3>2. F[i][f[i - 1]] = f[i - 1] + s[i].size
      BY <3>1
    <3>3. QED
      BY <1>1, <3>2 DEF Recurs
  <2>2. QED
    BY <2>1
<1>3. Solves(f)
  <2>1. \A i \in 0 .. n : i = 0 \/ i \in 1 .. n
    OBVIOUS
  <2>2. QED
    BY <1>1, <1>2, <2>1 DEF Recurs
<1>4. Solves(sum)
  BY <1>3
<1>5. Sums(s, sum)
  <2>1. DOMAIN sum = 0 .. n /\ \A i \in 0 .. n : sum[i] = IF i = 0 THEN 0 ELSE sum[i - 1] + s[i].size
    BY <1>4
  <2> HIDE DEF sum
  <2>2. QED
    BY <2>1 DEF Sums
<1>6. sum[n] = f[n]
  <2>1. Sums(s, f)
    BY <1>1, <1>2 DEF Sums, Recurs
  <2> HIDE DEF sum
  <2>2. QED
    BY <1>5, <2>1, SumsOnce
<1>7. SizeOf(s) = sum[n]
  BY DEF SizeOf
<1>8. QED
  BY <1>1, <1>2, <1>6, <1>7 DEF Sums, Recurs

\* One more element adds its size.
LEMMA SizeAppend ==
  ASSUME NEW S, Sized(S), NEW s \in Seq(S), NEW x \in S
  PROVE  /\ SizeOf(s) \in Nat
         /\ SizeOf(Append(s, x)) = SizeOf(s) + x.size
<1>1. PICK f \in [0 .. Len(s) -> Nat] : Sums(s, f) /\ SizeOf(s) = f[Len(s)]
  BY SumsExist
<1> DEFINE t == Append(s, x)
<1>2. t \in Seq(S) /\ Len(t) = Len(s) + 1 /\ t[Len(t)] = x /\ \A i \in 1 .. Len(s) : t[i] = s[i]
  OBVIOUS
<1> HIDE DEF t
<1>3. PICK g \in [0 .. Len(t) -> Nat] : Sums(t, g) /\ SizeOf(t) = g[Len(t)]
  BY <1>2, SumsExist
<1>4. Sums(s, g)
  BY <1>2, <1>3 DEF Sums
<1>5. g[Len(s)] = f[Len(s)]
  BY <1>1, <1>4, SumsOnce
<1>6. g[Len(t)] = g[Len(s)] + x.size
  <2>1. Len(t) \in 1 .. Len(t) /\ Len(t) - 1 = Len(s)
    BY <1>2
  <2>2. g[Len(t)] = g[Len(t) - 1] + t[Len(t)].size
    BY <1>3, <2>1 DEF Sums
  <2>3. QED
    BY <1>2, <2>1, <2>2
<1>7. QED
  BY <1>1, <1>3, <1>5, <1>6 DEF t

LEMMA SizeOfNone == SizeOf(<<>>) = 0
<1>1. Sized({}) /\ <<>> \in Seq({}) /\ Len(<<>>) = 0
  BY DEF Sized
<1>2. PICK f \in [0 .. 0 -> Nat] : Sums(<<>>, f) /\ SizeOf(<<>>) = f[0]
  BY <1>1, SumsExist
<1>3. QED
  BY <1>2 DEF Sums

LEMMA NextMultiple ==
  ASSUME NEW k \in Nat, NEW B \in Nat
  PROVE  k * B \in Nat /\ (k + 1) * B = k * B + B
OBVIOUS

\* A first element of size a and n others of size at most B.
LEMMA SizeBound ==
  ASSUME NEW S, Sized(S), NEW s \in Seq(S), NEW n \in Nat, NEW B \in Nat, Len(s) = n + 1,
         \A i \in 2 .. Len(s) : s[i].size <= B
  PROVE  SizeOf(s) \in Nat /\ SizeOf(s) <= s[1].size + n * B
<1>1. PICK f \in [0 .. Len(s) -> Nat] : Sums(s, f) /\ SizeOf(s) = f[Len(s)]
  BY SumsExist
<1>0. \A i \in 1 .. Len(s) : s[i].size \in Nat
  <2>1. \A i \in 1 .. Len(s) : s[i] \in S
    OBVIOUS
  <2>2. QED
    BY <2>1 DEF Sized
<1> DEFINE P == {k \in Nat : k <= n => f[k + 1] <= s[1].size + k * B}
<1>2. 0 \in P
  <2>1. 1 \in 1 .. Len(s) /\ 1 - 1 = 0 /\ 0 * B = 0
    OBVIOUS
  <2>2. f[1] = f[0] + s[1].size /\ f[0] = 0
    BY <1>1, <2>1 DEF Sums
  <2>3. QED
    BY <1>0, <2>1, <2>2
<1>3. ASSUME NEW k \in Nat, k \in P PROVE k + 1 \in P
  <2>1. SUFFICES ASSUME k + 1 <= n PROVE f[(k + 1) + 1] <= s[1].size + (k + 1) * B
    OBVIOUS
  <2>2. (k + 1) + 1 \in 2 .. Len(s) /\ ((k + 1) + 1) - 1 = k + 1
    BY <2>1
  <2>3. f[(k + 1) + 1] = f[k + 1] + s[(k + 1) + 1].size
    BY <1>1, <2>2 DEF Sums
  <2>4. f[k + 1] <= s[1].size + k * B /\ f[k + 1] \in Nat
    BY <1>3, <2>1
  <2> DEFINE z == s[(k + 1) + 1].size
             a == s[1].size
  <2>5. z \in Nat /\ z <= B /\ a \in Nat
    BY <1>0, <2>2
  <2>6. k * B \in Nat /\ (k + 1) * B = k * B + B
    BY NextMultiple
  <2> HIDE DEF z, a
  <2>7. f[(k + 1) + 1] = f[k + 1] + z /\ f[k + 1] <= a + k * B
    BY <2>3, <2>4 DEF z, a
  <2> DEFINE kB == k * B
  <2>8. kB \in Nat /\ (k + 1) * B = kB + B /\ f[k + 1] <= a + kB
    BY <2>6, <2>7
  <2> HIDE DEF kB
  <2>9. f[(k + 1) + 1] <= a + (kB + B)
    BY <2>4, <2>5, <2>7, <2>8
  <2>10. QED
    BY <2>8, <2>9 DEF a
<1> HIDE DEF P
<1>4. Nat \subseteq P
  BY <1>2, <1>3, ByInduction
<1>5. QED
  BY <1>1, <1>4 DEF P


-----------------------------------------------------------------------------
\* A search keeps its budget.

Snippets == [of : Nat, size : Nat]
Chunks == [source : Nat, fact : Nat, size : Nat]

LEMMA ChunksSized == Sized(Chunks)
BY DEF Chunks, Sized

LEMMA SnippetsTyped ==
  ASSUME NEW results \in Seq(Results)
  PROVE  compressed_snippets(results) \in Seq(Snippets)
<1> DEFINE n == Len(results)
           A == Seq(Snippets)
           E(i) == [of |-> results[i].source, size |-> results[i].brief]
           F == [i \in 1 .. n |-> [x \in A |-> IF results[i].long THEN Append(x, E(i)) ELSE x]]
           Solves(f) == f = [i \in 0 .. n |->
             IF i = 0 THEN <<>>
             ELSE IF results[i].long THEN Append(f[i - 1], E(i)) ELSE f[i - 1]]
           tasks == CHOOSE f : Solves(f)
<1>1. n \in Nat /\ <<>> \in A
  OBVIOUS
<1>2. \A i \in 1 .. n : E(i) \in Snippets
  <2>1. \A i \in 1 .. n : results[i] \in Results
    OBVIOUS
  <2>2. QED
    BY <2>1 DEF Results, Snippets
<1>3. \A i \in 1 .. n : \A x \in A : Append(x, E(i)) \in A
  BY <1>2
<1>4. PICK f \in [0 .. n -> A] : Recurs(f, <<>>, n, F)
  <2>1. F \in [1 .. n -> [A -> A]]
    <3> HIDE DEF A, E
    <3>1. QED
      BY <1>3
  <2> HIDE DEF F, A
  <2>2. QED
    BY <1>1, <2>1, Recursion
<1> HIDE DEF A, E
<1>5. Solves(f)
  <2>1. ASSUME NEW i \in 1 .. n
        PROVE  f[i] = IF results[i].long THEN Append(f[i - 1], E(i)) ELSE f[i - 1]
    <3>1. f[i - 1] \in A
      OBVIOUS
    <3>2. f[i] = F[i][f[i - 1]]
      BY <1>4 DEF Recurs
    <3>3. QED
      BY <3>1, <3>2
  <2>2. \A i \in 0 .. n : i = 0 \/ i \in 1 .. n
    OBVIOUS
  <2>3. f[0] = <<>>
    BY <1>4 DEF Recurs
  <2>4. QED
    BY <2>1, <2>2, <2>3
<1>6. Solves(tasks)
  BY <1>5
<1>7. \A i \in 0 .. n : tasks[i] = IF i = 0 THEN <<>>
                                ELSE IF results[i].long THEN Append(tasks[i - 1], E(i)) ELSE tasks[i - 1]
  BY <1>6
<1>8. compressed_snippets(results) = tasks[n]
  BY DEF compressed_snippets, E
<1> HIDE DEF tasks
<1>9. \A i \in 0 .. n : tasks[i] \in A
  <2>1. tasks[0] \in A
    BY <1>1, <1>7
  <2>2. \A i \in 1 .. n : tasks[i - 1] \in A => tasks[i] \in A
    BY <1>3, <1>7
  <2>3. QED
    BY <1>1, <2>1, <2>2, RecursionStays
<1>10. QED
  BY <1>8, <1>9 DEF A

LEMMA ChunkTyped ==
  ASSUME NEW results \in Seq(Results), NEW idx \in 1 .. Len(results)
  PROVE  formatted_chunk(results, idx) \in Chunks
<1>1. results[idx] \in Results
  OBVIOUS
<1>2. fact_body(results, idx) \in Snippets
  <2> DEFINE brief == compressed_snippets(results)
  <2>1. brief \in Seq(Snippets)
    BY SnippetsTyped
  <2> HIDE DEF brief
  <2>2. CASE idx <= Len(brief)
    <3>1. brief[idx] \in Snippets
      BY <2>1, <2>2
    <3>2. QED
      BY <2>2, <3>1 DEF fact_body, brief
  <2>3. CASE ~(idx <= Len(brief))
    <3>1. [of |-> results[idx].source, size |-> results[idx].raw] \in Snippets
      BY <1>1 DEF Results, Snippets
    <3>2. QED
      BY <2>3, <3>1 DEF fact_body, brief
  <2>4. QED
    BY <2>2, <2>3
<1>3. PICK fact \in Snippets : fact = fact_body(results, idx)
  BY <1>2
<1>4. fact.of \in Nat /\ fact.size \in Nat /\ results[idx].source \in Nat
  BY <1>1 DEF Snippets, Results
<1>5. Header + fact.size \in Nat
  BY <1>4, SearchAssumption
<1>6. formatted_chunk(results, idx)
        = [source |-> results[idx].source, fact |-> fact.of, size |-> Header + fact.size]
  BY <1>3 DEF formatted_chunk
<1>7. QED
  BY <1>4, <1>5, <1>6 DEF Chunks

\* What is compiled so far.
Compiled ==
  {acc \in [chunks : Seq(Chunks), tokens : Nat, full : BOOLEAN] :
     /\ acc.tokens <= Budget
     /\ SizeOf(acc.chunks) <= Budget + Marker
     /\ ~acc.full => SizeOf(acc.chunks) = acc.tokens}

LEMMA CompileStays ==
  ASSUME NEW acc \in Compiled, NEW chunk \in Chunks
  PROVE  Compile(acc, chunk) \in Compiled
<1> DEFINE c == acc.chunks
           t == acc.tokens
           rest == Budget - t
           cut == [chunk EXCEPT !.size = rest + Marker]
<1>1. /\ acc \in [chunks : Seq(Chunks), tokens : Nat, full : BOOLEAN]
      /\ c \in Seq(Chunks) /\ t \in Nat /\ acc.full \in BOOLEAN
      /\ t <= Budget /\ SizeOf(c) <= Budget + Marker
      /\ ~acc.full => SizeOf(c) = t
  BY DEF Compiled
<1>2. chunk.size \in Nat /\ Budget \in Nat /\ Marker \in Nat /\ MinRest \in Nat
  BY SearchAssumption DEF Chunks
<1>3. CASE acc.full
  BY <1>3 DEF Compile
<1>4. CASE ~acc.full /\ chunk.size <= rest
  <2> DEFINE r == [acc EXCEPT !.chunks = Append(@, chunk), !.tokens = @ + chunk.size]
  <2>1. Compile(acc, chunk) = r
    BY <1>4 DEF Compile
  <2>2. Append(c, chunk) \in Seq(Chunks) /\ t + chunk.size \in Nat /\ t + chunk.size <= Budget
    BY <1>1, <1>2, <1>4
  <2>3. /\ r.chunks = Append(c, chunk) /\ r.tokens = t + chunk.size /\ r.full = FALSE
        /\ r \in [chunks : Seq(Chunks), tokens : Nat, full : BOOLEAN]
    BY <1>1, <1>4, <2>2
  <2>4. SizeOf(Append(c, chunk)) = t + chunk.size
    BY <1>1, <1>4, ChunksSized, SizeAppend
  <2>5. r.tokens <= Budget /\ SizeOf(r.chunks) = r.tokens
    BY <2>2, <2>3, <2>4
  <2>6. r.tokens <= Budget + Marker
    <3>1. r.tokens \in Nat
      BY <2>2, <2>3
    <3> HIDE DEF r
    <3>2. QED
      BY <1>2, <2>5, <3>1
  <2> HIDE DEF r
  <2>7. QED
    BY <2>1, <2>3, <2>5, <2>6 DEF Compiled
<1>5. CASE ~acc.full /\ ~(chunk.size <= rest) /\ rest > MinRest
  <2> DEFINE r == [acc EXCEPT !.full = TRUE, !.chunks = Append(@, cut)]
  <2>1. Compile(acc, chunk) = r
    BY <1>5 DEF Compile
  <2>2. rest + Marker \in Nat /\ cut \in Chunks /\ cut.size = rest + Marker
    <3>1. rest + Marker \in Nat
      BY <1>1, <1>2
    <3> HIDE DEF rest
    <3>2. QED
      BY <3>1 DEF Chunks
  <2> HIDE DEF cut
  <2>3. Append(c, cut) \in Seq(Chunks)
    BY <1>1, <2>2
  <2>4. /\ r.chunks = Append(c, cut) /\ r.tokens = t /\ r.full = TRUE
        /\ r \in [chunks : Seq(Chunks), tokens : Nat, full : BOOLEAN]
    BY <1>1, <2>3
  <2>5. SizeOf(Append(c, cut)) = t + (rest + Marker)
    BY <1>1, <1>5, <2>2, ChunksSized, SizeAppend
  <2>6. t + (rest + Marker) = Budget + Marker
    BY <1>1, <1>2
  <2> HIDE DEF r
  <2>7. r.tokens <= Budget /\ SizeOf(r.chunks) = Budget + Marker /\ r.full
    BY <1>1, <2>4, <2>5, <2>6
  <2>8. SizeOf(r.chunks) <= Budget + Marker
    BY <1>2, <2>7
  <2>9. QED
    BY <2>1, <2>4, <2>7, <2>8 DEF Compiled
<1>6. CASE ~acc.full /\ ~(chunk.size <= rest) /\ ~(rest > MinRest)
  <2> DEFINE r == [acc EXCEPT !.full = TRUE, !.chunks = @]
  <2>1. Compile(acc, chunk) = r
    BY <1>6 DEF Compile
  <2>2. /\ r.chunks = c /\ r.tokens = t /\ r.full = TRUE
        /\ r \in [chunks : Seq(Chunks), tokens : Nat, full : BOOLEAN]
    BY <1>1
  <2> HIDE DEF r
  <2>3. QED
    BY <1>1, <2>1, <2>2 DEF Compiled
<1>7. QED
  BY <1>1, <1>3, <1>4, <1>5, <1>6

\* An answer is at most the budget and the marker of a cut.
LEMMA SearchKeepsBudget ==
  ASSUME NEW results \in Seq(Results)
  PROVE  /\ search_web(results) \in Seq(Chunks)
         /\ SizeOf(search_web(results)) \in Nat
         /\ SizeOf(search_web(results)) <= Budget + Marker
<1> DEFINE n == Len(results)
           none == [chunks |-> <<>>, tokens |-> 0, full |-> FALSE]
           E(i) == formatted_chunk(results, i)
           F == [i \in 1 .. n |-> [x \in Compiled |-> Compile(x, E(i))]]
           Solves(f) == f = [i \in 0 .. n |-> IF i = 0 THEN none ELSE Compile(f[i - 1], E(i))]
           compiled == CHOOSE f : Solves(f)
<1>1. n \in Nat /\ none \in Compiled
  <2>1. <<>> \in Seq(Chunks) /\ Budget \in Nat /\ Marker \in Nat
    BY SearchAssumption
  <2>2. QED
    BY <2>1, SizeOfNone DEF Compiled
<1>2. \A i \in 1 .. n : E(i) \in Chunks
  BY ChunkTyped
<1> HIDE DEF none, E
<1>3. \A i \in 1 .. n : \A x \in Compiled : Compile(x, E(i)) \in Compiled
  BY <1>2, CompileStays
<1>4. PICK f \in [0 .. n -> Compiled] : Recurs(f, none, n, F)
  <2>1. F \in [1 .. n -> [Compiled -> Compiled]]
    BY <1>3
  <2> HIDE DEF F
  <2>2. QED
    BY <1>1, <2>1, Recursion
<1>5. Solves(f)
  <2>1. ASSUME NEW i \in 1 .. n PROVE f[i] = Compile(f[i - 1], E(i))
    <3>1. f[i - 1] \in Compiled
      OBVIOUS
    <3>2. f[i] = F[i][f[i - 1]]
      BY <1>4 DEF Recurs
    <3>3. QED
      BY <3>1, <3>2
  <2>2. \A i \in 0 .. n : i = 0 \/ i \in 1 .. n
    OBVIOUS
  <2>3. f[0] = none
    BY <1>4 DEF Recurs
  <2>4. QED
    BY <2>1, <2>2, <2>3
<1>6. Solves(compiled)
  BY <1>5
<1>7. \A i \in 0 .. n : compiled[i] = IF i = 0 THEN none ELSE Compile(compiled[i - 1], E(i))
  BY <1>6
<1>8. search_web(results) = compiled[n].chunks
  BY DEF search_web, E, none
<1> HIDE DEF compiled
<1>9. \A i \in 0 .. n : compiled[i] \in Compiled
  <2>1. compiled[0] \in Compiled
    BY <1>1, <1>7
  <2>2. \A i \in 1 .. n : compiled[i - 1] \in Compiled => compiled[i] \in Compiled
    BY <1>3, <1>7
  <2>3. QED
    BY <1>1, <2>1, <2>2, RecursionStays
<1>10. compiled[n] \in Compiled
  BY <1>9
<1>11. /\ search_web(results) \in Seq(Chunks)
       /\ SizeOf(search_web(results)) <= Budget + Marker
  BY <1>8, <1>10 DEF Compiled
<1>12. PICK f2 \in [0 .. Len(search_web(results)) -> Nat] : SizeOf(search_web(results)) = f2[Len(search_web(results))]
  BY <1>11, ChunksSized, SumsExist
<1>13. QED
  BY <1>11, <1>12


-----------------------------------------------------------------------------
\* What is kept of a sequence, in its order.

\* e counts how many of the first elements are kept: p is the pieces of q, of
\* at most one element each, one after another.
Places(p, q, e) ==
  /\ e[0] = 0 /\ e[Len(q)] = Len(p)
  /\ \A k \in 1 .. Len(q) : e[k] = e[k - 1] + Len(q[k])
  /\ \A k \in 1 .. Len(q) : Len(q[k]) = 1 => e[k] \in 1 .. Len(p) /\ p[e[k]] = q[k][1]
  /\ \A m \in 1 .. Len(p) : \E k \in 1 .. Len(q) : Len(q[k]) = 1 /\ e[k] = m

\* The concatenations of the first pieces.
LEMMA Concatenations ==
  ASSUME NEW S, NEW q \in Seq(Seq(S)), Len(q) # 0
  PROVE  \E h \in [0 .. Len(q) -> Seq(S)] :
           /\ h[0] = <<>> /\ \A i \in 1 .. Len(q) : h[i] = h[i - 1] \o q[i]
           /\ FlattenSeq(q) = h[Len(q)]
<1> DEFINE n == Len(q)
           A == Seq(S)
           F == [i \in 1 .. n |-> [x \in A |-> x \o q[i]]]
           Solves(f) == f = [i \in 1 .. n |-> IF i = 1 THEN q[i] ELSE f[i - 1] \o q[i]]
           flatten == CHOOSE f : Solves(f)
<1>1. n \in Nat /\ n # 0 /\ <<>> \in A /\ \A i \in 1 .. n : q[i] \in A
  OBVIOUS
<1>2. \A i \in 1 .. n : \A x \in A : x \o q[i] \in A
  BY <1>1
<1>3. \A x \in A : <<>> \o x = x
  OBVIOUS
<1> HIDE DEF A
<1>4. PICK g \in [0 .. n -> A] : Recurs(g, <<>>, n, F)
  <2>1. F \in [1 .. n -> [A -> A]]
    BY <1>2
  <2> HIDE DEF F
  <2>2. QED
    BY <1>1, <2>1, Recursion
<1>5. \A i \in 1 .. n : g[i] = g[i - 1] \o q[i]
  <2>1. ASSUME NEW i \in 1 .. n PROVE g[i] = g[i - 1] \o q[i]
    <3>1. g[i - 1] \in A
      <4>1. i - 1 \in 0 .. n
        BY <1>1
      <4>2. QED
        BY <1>4, <4>1
    <3>2. g[i] = F[i][g[i - 1]]
      BY <1>4 DEF Recurs
    <3>3. QED
      BY <3>1, <3>2
  <2>2. QED
    BY <2>1
<1>6. g[0] = <<>>
  BY <1>4 DEF Recurs
<1>7. Solves([i \in 1 .. n |-> g[i]])
  <2>1. ASSUME NEW i \in 1 .. n PROVE g[i] = IF i = 1 THEN q[i] ELSE g[i - 1] \o q[i]
    <3>1. CASE i = 1
      <4>1. i - 1 = 0 /\ q[i] \in A
        BY <1>1, <3>1
      <4>2. g[i] = <<>> \o q[i]
        BY <1>5, <1>6, <4>1
      <4>3. QED
        BY <1>3, <3>1, <4>1, <4>2
    <3>2. CASE i # 1
      BY <1>5, <3>2
    <3>3. QED
      BY <3>1, <3>2
  <2>2. \A i \in 1 .. n : i # 1 => i - 1 \in 1 .. n
    OBVIOUS
  <2>3. QED
    BY <2>1, <2>2
<1>8. Solves(flatten)
  BY <1>7
<1>9. \A i \in 1 .. n : flatten[i] = IF i = 1 THEN q[i] ELSE flatten[i - 1] \o q[i]
  BY <1>8
<1>10. FlattenSeq(q) = flatten[n]
  BY <1>1 DEF FlattenSeq
<1> HIDE DEF flatten
<1> DEFINE h == [i \in 0 .. n |-> IF i = 0 THEN <<>> ELSE flatten[i]]
<1>11. h[0] = <<>> /\ \A i \in 1 .. n : h[i] = flatten[i]
  OBVIOUS
<1>12. DOMAIN h = 0 .. n /\ h = [i \in 0 .. n |-> h[i]]
  OBVIOUS
<1> HIDE DEF h
<1>13. ASSUME NEW i \in 1 .. n PROVE h[i] = h[i - 1] \o q[i]
  <2>1. CASE i = 1
    <3>1. i - 1 = 0 /\ q[i] \in A
      BY <1>1, <2>1
    <3>2. h[i] = q[i] /\ h[i - 1] = <<>>
      BY <1>9, <1>11, <2>1, <3>1
    <3>3. QED
      BY <1>3, <3>1, <3>2
  <2>2. CASE i # 1
    <3>1. i - 1 \in 1 .. n
      BY <2>2
    <3>2. h[i] = flatten[i - 1] \o q[i] /\ h[i - 1] = flatten[i - 1]
      BY <1>9, <1>11, <2>2, <3>1
    <3>3. QED
      BY <3>2
  <2>3. QED
    BY <2>1, <2>2
<1>14. \A i \in 0 .. n : h[i] \in A
  <2>1. h[0] \in A
    BY <1>1, <1>11
  <2>2. \A i \in 1 .. n : h[i - 1] \in A => h[i] \in A
    BY <1>2, <1>13
  <2>3. QED
    BY <1>1, <2>1, <2>2, RecursionStays
<1>15. h \in [0 .. n -> A]
  BY <1>12, <1>14
<1>16. FlattenSeq(q) = h[n]
  <2>1. n \in 1 .. n
    BY <1>1
  <2>2. QED
    BY <1>10, <1>11, <2>1
<1>17. QED
  BY <1>11, <1>13, <1>15, <1>16 DEF A

LEMMA FlattenPlaces ==
  ASSUME NEW S, NEW q \in Seq(Seq(S)), \A k \in 1 .. Len(q) : Len(q[k]) <= 1
  PROVE  /\ FlattenSeq(q) \in Seq(S)
         /\ \E e \in [0 .. Len(q) -> Nat] : Places(FlattenSeq(q), q, e)
<1>1. CASE Len(q) = 0
  <2> DEFINE e == [i \in 0 .. 0 |-> 0]
  <2>1. FlattenSeq(q) = q /\ q \in Seq(S) /\ e \in [0 .. Len(q) -> Nat] /\ e[0] = 0
    BY <1>1 DEF FlattenSeq
  <2> HIDE DEF e
  <2>2. Places(q, q, e)
    BY <1>1, <2>1 DEF Places
  <2>3. QED
    BY <2>1, <2>2
<1>2. CASE Len(q) # 0
  <2> DEFINE n == Len(q)
  <2>1. n \in Nat /\ n \in 0 .. n /\ \A k \in 1 .. n : q[k] \in Seq(S) /\ Len(q[k]) \in {0, 1}
    <3>1. \A k \in 1 .. n : q[k] \in Seq(S)
      OBVIOUS
    <3>2. \A k \in 1 .. n : Len(q[k]) \in Nat
      BY <3>1
    <3>3. \A k \in 1 .. n : Len(q[k]) \in {0, 1}
      <4>1. \A x \in Nat : x <= 1 => x \in {0, 1}
        OBVIOUS
      <4>2. QED
        BY <3>2, <4>1
    <3>4. n \in Nat /\ n \in 0 .. n
      OBVIOUS
    <3>5. QED
      BY <3>1, <3>3, <3>4
  <2>2. PICK h \in [0 .. n -> Seq(S)] :
          /\ h[0] = <<>> /\ \A i \in 1 .. n : h[i] = h[i - 1] \o q[i]
          /\ FlattenSeq(q) = h[n]
    BY <1>2, Concatenations
  <2> DEFINE e == [i \in 0 .. n |-> Len(h[i])]
  <2>3. e \in [0 .. n -> Nat] /\ \A i \in 0 .. n : e[i] = Len(h[i]) /\ h[i] \in Seq(S)
    <3>1. \A i \in 0 .. n : h[i] \in Seq(S)
      BY <2>2
    <3>2. \A i \in 0 .. n : Len(h[i]) \in Nat
      BY <3>1
    <3>3. e \in [0 .. n -> Nat]
      BY <3>2
    <3>4. \A i \in 0 .. n : e[i] = Len(h[i])
      OBVIOUS
    <3>5. QED
      BY <3>1, <3>3, <3>4
  <2> HIDE DEF e
  <2>4. e[0] = 0
    BY <2>1, <2>2, <2>3
  <2>5. ASSUME NEW k \in 1 .. n
        PROVE  /\ e[k] = e[k - 1] + Len(q[k])
               /\ \A m \in 1 .. e[k - 1] : h[k][m] = h[k - 1][m]
               /\ Len(q[k]) = 1 => h[k][e[k]] = q[k][1]
    <3>1. k \in 0 .. n /\ k - 1 \in 0 .. n
      BY <2>1
    <3>2. h[k - 1] \in Seq(S) /\ q[k] \in Seq(S) /\ h[k] = h[k - 1] \o q[k]
      BY <2>1, <2>2, <2>3, <3>1
    <3>3. e[k] = Len(h[k]) /\ e[k - 1] = Len(h[k - 1])
      BY <2>3, <3>1
    <3> DEFINE u == h[k - 1]
               v == q[k]
    <3>4. /\ Len(u \o v) = Len(u) + Len(v)
          /\ \A m \in 1 .. Len(u) : (u \o v)[m] = u[m]
          /\ Len(v) = 1 => (u \o v)[Len(u) + 1] = v[1]
      <4>1. u \in Seq(S) /\ v \in Seq(S)
        BY <3>2
      <4> HIDE DEF u, v
      <4>2. QED
        BY <4>1
    <3>5. QED
      BY <3>2, <3>3, <3>4
  <2> DEFINE Q(k) ==
               /\ \A j \in 1 .. k : Len(q[j]) = 1 => e[j] \in 1 .. e[k] /\ h[k][e[j]] = q[j][1]
               /\ \A m \in 1 .. e[k] : \E j \in 1 .. k : Len(q[j]) = 1 /\ e[j] = m
             P == {k \in Nat : k <= n => Q(k)}
  <2>6. 0 \in P
    BY <2>4
  <2>7. ASSUME NEW k \in Nat, k \in P PROVE k + 1 \in P
    <3>1. SUFFICES ASSUME k + 1 <= n
          PROVE  /\ \A j \in 1 .. k + 1 :
                      Len(q[j]) = 1 => e[j] \in 1 .. e[k + 1] /\ h[k + 1][e[j]] = q[j][1]
                 /\ \A m \in 1 .. e[k + 1] : \E j \in 1 .. k + 1 : Len(q[j]) = 1 /\ e[j] = m
      OBVIOUS
    <3>2. k + 1 \in 1 .. n /\ (k + 1) - 1 = k /\ k \in 0 .. n /\ k + 1 \in 0 .. n
      BY <2>1, <3>1
    <3>3. /\ \A j \in 1 .. k : Len(q[j]) = 1 => e[j] \in 1 .. e[k] /\ h[k][e[j]] = q[j][1]
          /\ \A m \in 1 .. e[k] : \E j \in 1 .. k : Len(q[j]) = 1 /\ e[j] = m
      BY <2>7, <3>1, <2>1
    <3> HIDE DEF P
    <3>4. /\ e[k + 1] = e[k] + Len(q[k + 1])
          /\ \A m \in 1 .. e[k] : h[k + 1][m] = h[k][m]
          /\ Len(q[k + 1]) = 1 => h[k + 1][e[k + 1]] = q[k + 1][1]
      BY <2>5, <3>2
    <3>5. e[k] \in Nat /\ e[k + 1] \in Nat /\ Len(q[k + 1]) \in {0, 1}
      BY <2>1, <2>3, <3>2
    <3>6. \A j \in 1 .. k + 1 : j \in 1 .. k \/ j = k + 1
      OBVIOUS
    <3>10. /\ \A x \in 1 .. e[k] : x \in 1 .. e[k + 1]
           /\ Len(q[k + 1]) = 1 => e[k + 1] \in 1 .. e[k + 1]
           /\ \A m \in 1 .. e[k + 1] : m \in 1 .. e[k] \/ (Len(q[k + 1]) = 1 /\ m = e[k + 1])
      <4>1. PICK l : l = Len(q[k + 1])
        OBVIOUS
      <4>2. l \in {0, 1} /\ e[k + 1] = e[k] + l
        BY <3>4, <3>5, <4>1
      <4>3. PICK a \in Nat, b \in Nat : a = e[k] /\ b = e[k + 1] /\ b = a + l
        BY <3>5, <4>2
      <4>4. /\ \A x \in 1 .. a : x \in 1 .. b
            /\ l = 1 => b \in 1 .. b
            /\ \A m \in 1 .. b : m \in 1 .. a \/ (l = 1 /\ m = b)
        BY <4>2, <4>3
      <4>5. QED
        BY <4>1, <4>3, <4>4
    <3>7. ASSUME NEW j \in 1 .. k + 1, Len(q[j]) = 1
          PROVE  e[j] \in 1 .. e[k + 1] /\ h[k + 1][e[j]] = q[j][1]
      <4>1. CASE j \in 1 .. k
        <5>1. e[j] \in 1 .. e[k] /\ h[k][e[j]] = q[j][1]
          BY <3>3, <3>7, <4>1
        <5>2. QED
          BY <3>4, <3>10, <5>1
      <4>2. CASE j = k + 1
        BY <3>4, <3>7, <3>10, <4>2
      <4>3. QED
        BY <3>6, <4>1, <4>2
    <3>8. ASSUME NEW m \in 1 .. e[k + 1] PROVE \E j \in 1 .. k + 1 : Len(q[j]) = 1 /\ e[j] = m
      <4>1. CASE m \in 1 .. e[k]
        <5>1. PICK j \in 1 .. k : Len(q[j]) = 1 /\ e[j] = m
          BY <3>3, <4>1
        <5>2. j \in 1 .. k + 1
          OBVIOUS
        <5>3. QED
          BY <5>1, <5>2
      <4>2. CASE m \notin 1 .. e[k]
        <5>1. Len(q[k + 1]) = 1 /\ m = e[k + 1]
          BY <3>10, <4>2
        <5>2. k + 1 \in 1 .. k + 1
          OBVIOUS
        <5>3. QED
          BY <5>1, <5>2
      <4>3. QED
        BY <4>1, <4>2
    <3>9. QED
      BY <3>7, <3>8
  <2> HIDE DEF P
  <2>8. n \in P
    BY <2>1, <2>6, <2>7, ByInduction
  <2>9. /\ \A j \in 1 .. n : Len(q[j]) = 1 => e[j] \in 1 .. e[n] /\ h[n][e[j]] = q[j][1]
        /\ \A m \in 1 .. e[n] : \E j \in 1 .. n : Len(q[j]) = 1 /\ e[j] = m
    <3> HIDE DEF Q
    <3>1. n <= n
      BY <2>1
    <3>2. Q(n)
      BY <2>8, <3>1 DEF P
    <3>3. QED
      BY <3>2 DEF Q
  <2>10. e[n] = Len(FlattenSeq(q)) /\ FlattenSeq(q) \in Seq(S)
    BY <2>1, <2>2, <2>3
  <2>11. Places(FlattenSeq(q), q, e)
    BY <2>2, <2>4, <2>5, <2>9, <2>10 DEF Places
  <2>12. QED
    BY <2>3, <2>10, <2>11
<1>3. QED
  BY <1>1, <1>2


\* The i-th piece and the c pieces after it.
AllKept(q, i, c) == i + c <= Len(q) /\ \A j \in i .. i + c : Len(q[j]) = 1

Together(p, q, e, i, c) ==
  \A t \in 0 .. c : /\ e[i + t] = e[i] + t /\ e[i] + t \in 1 .. Len(p)
                    /\ p[e[i] + t] = q[i + t][1]

\* Pieces kept one after another lie one after another.
LEMMA PlacesRun ==
  ASSUME NEW p, NEW q, Len(q) \in Nat, NEW e \in [0 .. Len(q) -> Nat], Places(p, q, e),
         NEW i \in 1 .. Len(q), NEW c \in Nat, AllKept(q, i, c)
  PROVE  Together(p, q, e, i, c)
<1>0. i + c <= Len(q) /\ \A j \in i .. i + c : Len(q[j]) = 1
  BY DEF AllKept
<1> DEFINE P == {t \in Nat : t <= c => e[i + t] = e[i] + t}
<1>1. 0 \in P
  OBVIOUS
<1>2. ASSUME NEW t \in Nat, t \in P PROVE t + 1 \in P
  <2>1. SUFFICES ASSUME t + 1 <= c PROVE e[i + (t + 1)] = e[i] + (t + 1)
    OBVIOUS
  <2>2. i + (t + 1) \in 1 .. Len(q) /\ (i + (t + 1)) - 1 = i + t /\ i + (t + 1) \in i .. i + c
    BY <1>0, <2>1
  <2>3. e[i + (t + 1)] = e[i + t] + 1
    BY <1>0, <2>2 DEF Places
  <2>4. e[i + t] = e[i] + t
    BY <1>2, <2>1
  <2>5. PICK x \in Nat : x = e[i]
    <3>1. i \in 0 .. Len(q)
      OBVIOUS
    <3>2. QED
      BY <3>1
  <2>6. (x + t) + 1 = x + (t + 1)
    BY <1>2
  <2>7. QED
    BY <2>3, <2>4, <2>5, <2>6
<1> HIDE DEF P
<1>3. \A t \in 0 .. c : e[i + t] = e[i] + t
  <2>1. Nat \subseteq P
    BY <1>1, <1>2, ByInduction
  <2>2. QED
    BY <2>1 DEF P
<1>4. ASSUME NEW t \in 0 .. c
      PROVE  e[i] + t \in 1 .. Len(p) /\ p[e[i] + t] = q[i + t][1]
  <2>1. i + t \in 1 .. Len(q) /\ i + t \in i .. i + c
    BY <1>0
  <2>2. e[i + t] \in 1 .. Len(p) /\ p[e[i + t]] = q[i + t][1]
    BY <1>0, <2>1 DEF Places
  <2>3. QED
    BY <1>3, <2>2
<1>5. QED
  BY <1>3, <1>4 DEF Together

ToolsFor(C, z) == {Tool(c, z[c]) : c \in C}

\* The answers of a round, in whatever order: one for each call.
LEMMA OneForEach ==
  ASSUME NEW C, IsFiniteSet(C), NEW z, NEW S, S = ToolsFor(C, z), NEW t, t = SetToSeq(S)
  PROVE  /\ Cardinality(C) \in Nat
         /\ t \in [1 .. Cardinality(C) -> S] /\ t \in Seq(S)
         /\ Len(t) = Cardinality(C)
         /\ {t[j].call : j \in 1 .. Len(t)} = C
<1> DEFINE g == [c \in C |-> Tool(c, z[c])]
           n == Cardinality(S)
<1>1. \A c \in C : Tool(c, z[c]).call = c
  BY DEF Tool, Msg
<1>0. S = {Tool(c, z[c]) : c \in C}
  BY DEF ToolsFor
<1>2. g \in Bijection(C, S)
  <2>1. g \in [C -> S] /\ \A c \in C : g[c] = Tool(c, z[c])
    BY <1>0
  <2> HIDE DEF g
  <2>2. g \in Injection(C, S)
    BY <1>1, <2>1 DEF Injection, IsInjective
  <2>3. g \in Surjection(C, S)
    <3>1. \A x \in S : \E c \in C : g[c] = x
      BY <1>0, <2>1
    <3>2. QED
      BY <2>1, <3>1 DEF Surjection
  <2>4. QED
    BY <2>2, <2>3 DEF Bijection
<1>3. IsFiniteSet(S) /\ n = Cardinality(C)
  <2>1. ExistsBijection(C, S)
    BY <1>2 DEF ExistsBijection
  <2>2. QED
    BY <2>1, FS_Bijection
<1>4. n \in Nat /\ ExistsBijection(1 .. n, S)
  BY <1>3, FS_CardinalityType
<1>5. t \in [1 .. n -> S] /\ IsInjective(t)
  <2>1. \E f \in [1 .. n -> S] : IsInjective(f)
    BY <1>4 DEF ExistsBijection, Bijection, Injection
  <2>2. t = CHOOSE f \in [1 .. n -> S] : IsInjective(f)
    BY DEF SetToSeq
  <2>3. QED
    BY <2>1, <2>2
<1>6. t \in Surjection(1 .. n, S)
  <2>1. t \in Injection(1 .. n, S)
    BY <1>5 DEF Injection
  <2>2. IsFiniteSet(1 .. n) /\ Cardinality(1 .. n) = n
    BY <1>4, FS_Interval
  <2>3. QED
    BY <1>3, <2>1, <2>2, FS_Injection
<1>7. Len(t) = n /\ t \in Seq(S)
  <2>1. \A m \in Nat : \A f \in [1 .. m -> S] : f \in Seq(S) /\ Len(f) = m
    OBVIOUS
  <2> HIDE DEF n
  <2>2. QED
    BY <1>4, <1>5, <2>1
<1>8. {t[j].call : j \in 1 .. n} = C
  <2>1. \A j \in 1 .. n : t[j] \in S
    BY <1>5
  <2>2. \A j \in 1 .. n : t[j].call \in C
    BY <1>0, <1>1, <2>1
  <2>3. ASSUME NEW c \in C PROVE \E j \in 1 .. n : t[j].call = c
    <3>1. Tool(c, z[c]) \in S
      BY <1>0
    <3>2. PICK j \in 1 .. n : t[j] = Tool(c, z[c])
      BY <1>6, <3>1 DEF Surjection
    <3>3. QED
      BY <1>1, <3>2
  <2>4. QED
    BY <2>2, <2>3
<1>9. QED
  BY <1>3, <1>4, <1>5, <1>7, <1>8


-----------------------------------------------------------------------------
\* The messages between two steps.

Message == [type : {"system", "human", "ai", "tool"}, calls : SUBSET Nat,
            call : Nat, size : Nat]

LEMMA MessagesSized == Sized(Message)
BY DEF Message, Sized

\* Where the answers of a message belong, and that they are there.
Round(ms, i) == i + 1 .. i + Cardinality(ms[i].calls)

Answered(ms, i) ==
  /\ i + Cardinality(ms[i].calls) <= Len(ms)
  /\ \A j \in Round(ms, i) : ms[j].type = "tool"
  /\ {ms[j].call : j \in Round(ms, i)} = ms[i].calls

Unanswered(ms, i) == \A j \in 1 .. Len(ms) : ms[j].call \notin ms[i].calls

\* The calls are those of the first m numbers; each belongs to one message,
\* whose calls are all answered, right after it, or all not; an answer belongs
\* to such a message, and keeps its limit.
MessagesTyped(ms, m) ==
  /\ ms \in Seq(Message)
  /\ \A i \in 1 .. Len(ms) :
       /\ ms[i].calls \subseteq 1 .. m /\ ms[i].call \in 0 .. m
       /\ ms[i].type # "tool" => ms[i].call = 0
       /\ ms[i].type = "tool" => ms[i].size <= AnswerLimit
       /\ ms[i].calls # {} => ms[i].type = "ai"

OneCaller(ms) ==
  \A i, j \in 1 .. Len(ms) : i # j => ms[i].calls \cap ms[j].calls = {}

AllOrNone(ms) ==
  \A i \in 1 .. Len(ms) : ms[i].calls # {} => Answered(ms, i) \/ Unanswered(ms, i)

AnswersHaveCalls(ms) ==
  \A j \in 1 .. Len(ms) : ms[j].type = "tool" =>
    \E i \in 1 .. j - 1 : ms[i].calls # {} /\ Answered(ms, i) /\ j \in Round(ms, i)

Protocol(ms, m) ==
  /\ m \in Nat /\ MessagesTyped(ms, m) /\ OneCaller(ms) /\ AllOrNone(ms)
  /\ AnswersHaveCalls(ms)

\* The inductive invariant.
HistoryInv ==
  /\ messages \in Seq(Message)
  /\ Protocol(<<System>> \o messages, made)
  /\ node = "evaluate_tool_hooks" => messages # <<>> /\ Last(messages).calls # {}


\* What has calls has no more than finitely many.
LEMMA CallsFinite ==
  ASSUME NEW ms, NEW m, Protocol(ms, m), NEW i \in 1 .. Len(ms)
  PROVE  /\ ms[i] \in Message /\ ms[i].calls \subseteq 1 .. m
         /\ IsFiniteSet(ms[i].calls) /\ Cardinality(ms[i].calls) \in Nat
         /\ ms[i].calls # {} => Cardinality(ms[i].calls) # 0
<1>1. ms[i] \in Message /\ ms[i].calls \subseteq 1 .. m /\ m \in Nat
  BY DEF Protocol, MessagesTyped
<1>2. IsFiniteSet(1 .. m)
  BY <1>1, FS_Interval
<1>3. IsFiniteSet(ms[i].calls)
  BY <1>1, <1>2, FS_Subset
<1>4. QED
  BY <1>1, <1>3, FS_CardinalityType, FS_EmptySet

LEMMA SameCalls ==
  ASSUME NEW A, NEW B, NEW a, NEW b,
         \A l \in A : \E j \in B : b[j].call = a[l].call,
         \A j \in B : \E l \in A : b[j].call = a[l].call
  PROVE  {b[j].call : j \in B} = {a[l].call : l \in A}
<1>1. \A x \in {b[j].call : j \in B} : x \in {a[l].call : l \in A}
  OBVIOUS
<1>2. \A x \in {a[l].call : l \in A} : x \in {b[j].call : j \in B}
  OBVIOUS
<1>3. QED
  BY <1>1, <1>2

\* An answered message stays answered where its round stays.
LEMMA AnsweredKept ==
  ASSUME NEW a, NEW b, NEW i \in Nat, NEW k \in Nat, Answered(a, i),
         Cardinality(a[i].calls) \in Nat,
         k + Cardinality(a[i].calls) <= Len(b),
         \A t \in 0 .. Cardinality(a[i].calls) : b[k + t] = a[i + t]
  PROVE  b[k] = a[i] /\ Answered(b, k)
<1> DEFINE c == Cardinality(a[i].calls)
<1>1. b[k] = a[i]
  <2>1. 0 \in 0 .. c /\ k + 0 = k /\ i + 0 = i
    OBVIOUS
  <2>2. QED
    BY <2>1
<1>2. Round(a, i) = i + 1 .. i + c /\ Round(b, k) = k + 1 .. k + c
  BY <1>1 DEF Round
<1>3. ASSUME NEW j \in k + 1 .. k + c
      PROVE  j - k + i \in i + 1 .. i + c /\ b[j] = a[j - k + i]
  <2> HIDE DEF c
  <2>1. PICK d \in Nat : d = c
    BY DEF c
  <2>2. j - k \in 0 .. d /\ j - k + i \in i + 1 .. i + d /\ k + (j - k) = j /\ i + (j - k) = j - k + i
    BY <2>1
  <2>3. b[k + (j - k)] = a[i + (j - k)]
    BY <2>1, <2>2 DEF c
  <2>4. QED
    BY <2>1, <2>2, <2>3
<1>4. ASSUME NEW j \in i + 1 .. i + c
      PROVE  j - i + k \in k + 1 .. k + c /\ b[j - i + k] = a[j]
  <2> HIDE DEF c
  <2>1. PICK d \in Nat : d = c
    BY DEF c
  <2>2. j - i \in 0 .. d /\ j - i + k \in k + 1 .. k + d /\ i + (j - i) = j /\ k + (j - i) = j - i + k
    BY <2>1
  <2>3. b[k + (j - i)] = a[i + (j - i)]
    BY <2>1, <2>2 DEF c
  <2>4. QED
    BY <2>1, <2>2, <2>3
<1>5. /\ \A j \in i + 1 .. i + c : a[j].type = "tool"
      /\ {a[j].call : j \in i + 1 .. i + c} = a[i].calls
  BY <1>2 DEF Answered
<1>6. \A j \in Round(b, k) : b[j].type = "tool"
  BY <1>2, <1>3, <1>5
<1>7. {b[j].call : j \in Round(b, k)} = {a[j].call : j \in i + 1 .. i + c}
  <2> HIDE DEF c
  <2>1. \A j \in k + 1 .. k + c : \E l \in i + 1 .. i + c : b[j].call = a[l].call
    BY <1>3
  <2>2. \A l \in i + 1 .. i + c : \E j \in k + 1 .. k + c : b[j].call = a[l].call
    BY <1>4
  <2>3. {b[j].call : j \in k + 1 .. k + c} = {a[l].call : l \in i + 1 .. i + c}
    <3>1. PICK A, B : A = i + 1 .. i + c /\ B = k + 1 .. k + c
      OBVIOUS
    <3>2. /\ \A l \in A : \E j \in B : b[j].call = a[l].call
          /\ \A j \in B : \E l \in A : b[j].call = a[l].call
      BY <2>1, <2>2, <3>1
    <3>3. {b[j].call : j \in B} = {a[l].call : l \in A}
      BY <3>2, SameCalls
    <3>4. QED
      BY <3>1, <3>3
  <2>4. QED
    BY <1>2, <2>3
<1>8. QED
  BY <1>1, <1>5, <1>6, <1>7 DEF Answered

-----------------------------------------------------------------------------
\* The prompt before it is cut.

\* What a prompt without orphans is.
Clean(u) ==
  /\ u \in Seq(Message)
  /\ \A i \in 1 .. Len(u) :
       /\ Cardinality(u[i].calls) \in Nat
       /\ u[i].calls # {} => Answered(u, i)
  /\ \A j \in 1 .. Len(u) : u[j].type = "tool" =>
       \E i \in 1 .. j - 1 : u[i].calls # {} /\ j \in Round(u, i)

\* What remains of one message.
Piece(ms, i) ==
  IF orphaned(ms, i) = {} THEN <<ms[i]>>
  ELSE IF ms[i].size > 0 THEN <<Ai({}, ms[i].size)>>
  ELSE <<>>

LEMMA Pieces ==
  ASSUME NEW ms, NEW m, Protocol(ms, m),
         NEW q, q = [i \in DOMAIN ms |-> Piece(ms, i)]
  PROVE  /\ q \in Seq(Seq(Message)) /\ Len(q) = Len(ms) /\ Len(ms) \in Nat
         /\ _sanitize_orphaned_tool_calls(ms) = FlattenSeq(q)
         /\ \A i \in 1 .. Len(ms) :
              /\ Len(q[i]) <= 1
              /\ orphaned(ms, i) = {} => Len(q[i]) = 1 /\ q[i][1] = ms[i]
              /\ orphaned(ms, i) # {} /\ Len(q[i]) = 1 =>
                   q[i][1].type = "ai" /\ q[i][1].calls = {}
<1>1. ms \in Seq(Message) /\ DOMAIN ms = 1 .. Len(ms) /\ Len(ms) \in Nat
  BY DEF Protocol, MessagesTyped
<1>2. ASSUME NEW i \in 1 .. Len(ms)
      PROVE  /\ Piece(ms, i) \in Seq(Message) /\ Len(Piece(ms, i)) <= 1
             /\ orphaned(ms, i) = {} => Len(Piece(ms, i)) = 1 /\ Piece(ms, i)[1] = ms[i]
             /\ orphaned(ms, i) # {} /\ Len(Piece(ms, i)) = 1 =>
                  Piece(ms, i)[1].type = "ai" /\ Piece(ms, i)[1].calls = {}
  <2>1. ms[i] \in Message
    BY <1>1
  <2>2. Ai({}, ms[i].size) \in Message /\ Ai({}, ms[i].size).type = "ai" /\ Ai({}, ms[i].size).calls = {}
    <3>1. ms[i].size \in Nat
      BY <2>1 DEF Message
    <3>2. QED
      BY <3>1 DEF Ai, Msg, Message
  <2>3. CASE orphaned(ms, i) = {}
    <3>1. Piece(ms, i) = <<ms[i]>>
      BY <2>3 DEF Piece
    <3>2. QED
      BY <2>1, <2>3, <3>1
  <2>4. CASE orphaned(ms, i) # {} /\ ms[i].size > 0
    <3>1. Piece(ms, i) = <<Ai({}, ms[i].size)>>
      BY <2>4 DEF Piece
    <3>2. QED
      BY <2>2, <2>4, <3>1
  <2>5. CASE orphaned(ms, i) # {} /\ ~(ms[i].size > 0)
    <3>1. Piece(ms, i) = <<>>
      BY <2>5 DEF Piece
    <3>2. QED
      BY <2>5, <3>1
  <2>6. QED
    BY <2>3, <2>4, <2>5
<1>3. \A i \in 1 .. Len(ms) : q[i] = Piece(ms, i)
  BY <1>1
<1>4. q \in Seq(Seq(Message)) /\ Len(q) = Len(ms)
  <2>1. q \in [1 .. Len(ms) -> Seq(Message)]
    BY <1>1, <1>2
  <2>2. QED
    BY <1>1, <2>1
<1>5. _sanitize_orphaned_tool_calls(ms) = FlattenSeq(q)
  BY DEF _sanitize_orphaned_tool_calls, Piece
<1>6. QED
  BY <1>1, <1>2, <1>3, <1>4, <1>5

\* Only the answered messages keep their calls, with their whole round.
LEMMA NoOrphans ==
  ASSUME NEW ms, NEW m, Protocol(ms, m), NEW i \in 1 .. Len(ms)
  PROVE  /\ ms[i].calls = {} => orphaned(ms, i) = {}
         /\ Answered(ms, i) => orphaned(ms, i) = {}
         /\ ms[i].calls # {} /\ orphaned(ms, i) = {} => Answered(ms, i)
         /\ \A j \in Round(ms, i) : j \in 1 .. Len(ms) /\ ms[j].type = "tool" => ms[j].calls = {}
<1>0. ms \in Seq(Message) /\ Len(ms) \in Nat
  BY DEF Protocol, MessagesTyped
<1> DEFINE c == Cardinality(ms[i].calls)
<1>1. c \in Nat
  BY CallsFinite
<1>2. ASSUME Answered(ms, i) PROVE orphaned(ms, i) = {}
  <2>1. Round(ms, i) \subseteq i + 1 .. Len(ms)
    <3>1. i + c <= Len(ms)
      BY <1>2 DEF Answered
    <3> HIDE DEF c
    <3>2. i + 1 .. i + c \subseteq i + 1 .. Len(ms)
      BY <1>0, <1>1, <3>1
    <3>3. QED
      BY <3>2 DEF Round, c
  <2>2. \A x \in ms[i].calls : \E j \in Round(ms, i) : ms[j].call = x
    BY <1>2 DEF Answered
  <2>3. QED
    BY <2>1, <2>2 DEF orphaned
<1>3. ASSUME ms[i].calls # {}, orphaned(ms, i) = {} PROVE Answered(ms, i)
  <2>1. PICK x \in ms[i].calls : TRUE
    BY <1>3
  <2>2. PICK j \in i + 1 .. Len(ms) : ms[j].call = x
    BY <1>3, <2>1 DEF orphaned
  <2>3. j \in 1 .. Len(ms)
    BY <1>0
  <2>4. ~Unanswered(ms, i)
    BY <2>1, <2>2, <2>3 DEF Unanswered
  <2>5. QED
    BY <1>3, <2>4 DEF Protocol, AllOrNone
<1>4. \A j \in 1 .. Len(ms) : ms[j].type = "tool" => ms[j].calls = {}
  BY DEF Protocol, MessagesTyped
<1>5. QED
  BY <1>2, <1>3, <1>4 DEF orphaned


\* u is assembled from ms: q holds what remains of each message, e its place.
Assembled(ms, m, q, u, e) ==
  /\ Protocol(ms, m) /\ Len(ms) \in Nat
  /\ q \in Seq(Seq(Message)) /\ Len(q) = Len(ms)
  /\ u \in Seq(Message) /\ e \in [0 .. Len(ms) -> Nat] /\ Places(u, q, e)
  /\ \A i \in 1 .. Len(ms) :
       /\ orphaned(ms, i) = {} => Len(q[i]) = 1 /\ q[i][1] = ms[i]
       /\ orphaned(ms, i) # {} /\ Len(q[i]) = 1 => q[i][1].type = "ai" /\ q[i][1].calls = {}

LEMMA Assembly ==
  ASSUME NEW ms, NEW m, Protocol(ms, m)
  PROVE  \E q, e : Assembled(ms, m, q, _sanitize_orphaned_tool_calls(ms), e)
<1>1. PICK q : q = [i \in DOMAIN ms |-> Piece(ms, i)]
  OBVIOUS
<1>2. /\ q \in Seq(Seq(Message)) /\ Len(q) = Len(ms) /\ Len(ms) \in Nat
      /\ _sanitize_orphaned_tool_calls(ms) = FlattenSeq(q)
      /\ \A i \in 1 .. Len(ms) :
           /\ Len(q[i]) <= 1
           /\ orphaned(ms, i) = {} => Len(q[i]) = 1 /\ q[i][1] = ms[i]
           /\ orphaned(ms, i) # {} /\ Len(q[i]) = 1 => q[i][1].type = "ai" /\ q[i][1].calls = {}
  BY <1>1, Pieces
<1>3. /\ FlattenSeq(q) \in Seq(Message)
      /\ \E e \in [0 .. Len(q) -> Nat] : Places(FlattenSeq(q), q, e)
  <2>1. \A k \in 1 .. Len(q) : Len(q[k]) <= 1
    BY <1>2
  <2>2. QED
    BY <1>2, <2>1, FlattenPlaces
<1>4. PICK e \in [0 .. Len(q) -> Nat] : Places(FlattenSeq(q), q, e)
  BY <1>3
<1>5. Assembled(ms, m, q, _sanitize_orphaned_tool_calls(ms), e)
  BY <1>2, <1>3, <1>4 DEF Assembled
<1>6. QED
  BY <1>5

\* An answered message stays, and its round after it.
LEMMA RoundStays ==
  ASSUME NEW ms, NEW m, NEW q, NEW u, NEW e, Assembled(ms, m, q, u, e),
         NEW i \in 1 .. Len(ms), Answered(ms, i)
  PROVE  /\ e[i] \in 1 .. Len(u) /\ u[e[i]] = ms[i] /\ Answered(u, e[i])
         /\ i + Cardinality(ms[i].calls) <= Len(ms)
         /\ \A t \in 0 .. Cardinality(ms[i].calls) :
              e[i + t] = e[i] + t /\ u[e[i] + t] = ms[i + t] /\ e[i] + t \in 1 .. Len(u)
<1>0. /\ Protocol(ms, m) /\ u \in Seq(Message)
      /\ e \in [0 .. Len(ms) -> Nat] /\ Places(u, q, e)
  BY DEF Assembled
<1> DEFINE c == Cardinality(ms[i].calls)
<1>1. c \in Nat /\ i \in Nat
  BY <1>0, CallsFinite
<1>2. i + c <= Len(ms)
  BY DEF Answered
<1>3. /\ q \in Seq(Seq(Message)) /\ Len(q) = Len(ms) /\ Len(ms) \in Nat
      /\ \A j \in 1 .. Len(ms) : orphaned(ms, j) = {} => Len(q[j]) = 1 /\ q[j][1] = ms[j]
  BY DEF Assembled
<1>4. ASSUME NEW j \in i .. i + c PROVE j \in 1 .. Len(ms) /\ Len(q[j]) = 1 /\ q[j][1] = ms[j]
  <2>1. j \in 1 .. Len(ms)
    <3>1. PICK d \in Nat : d = c
      BY <1>1
    <3>2. QED
      BY <1>1, <1>2, <1>3, <3>1
  <2>2. orphaned(ms, j) = {}
    <3>1. CASE j = i
      BY <1>0, <3>1, NoOrphans
    <3>2. CASE j # i
      <4>1. j \in i + 1 .. i + c
        <5>1. PICK d \in Nat : d = c
          BY <1>1
        <5>2. QED
          BY <1>1, <3>2, <5>1
      <4>2. ms[j].type = "tool"
        BY <4>1 DEF Answered, Round
      <4>3. ms[j].calls = {}
        BY <1>0, <2>1, <4>2 DEF Protocol, MessagesTyped
      <4>4. QED
        BY <1>0, <2>1, <4>3, NoOrphans
    <3>3. QED
      BY <3>1, <3>2
  <2>3. QED
    BY <1>3, <2>1, <2>2
<1>5. \A t \in 0 .. c : i + t \in i .. i + c
  <2>1. PICK d \in Nat : d = c
    BY <1>1
  <2>2. QED
    BY <1>1, <2>1
<1>6. \A t \in 0 .. c : /\ e[i + t] = e[i] + t /\ e[i] + t \in 1 .. Len(u)
                        /\ u[e[i] + t] = q[i + t][1]
  <2> HIDE DEF c
  <2>1. i \in 1 .. Len(q) /\ Len(q) \in Nat /\ AllKept(q, i, c)
    BY <1>2, <1>3, <1>4 DEF c, AllKept
  <2>2. c \in Nat
    BY <1>1 DEF c
  <2>3. e \in [0 .. Len(q) -> Nat] /\ Places(u, q, e)
    BY <1>0, <1>3
  <2>4. Together(u, q, e, i, c)
    BY <2>1, <2>2, <2>3, PlacesRun
  <2>5. QED
    BY <2>4 DEF Together
<1>7. \A t \in 0 .. c : u[e[i] + t] = ms[i + t]
  BY <1>4, <1>5, <1>6
<1>8. e[i] \in 1 .. Len(u) /\ e[i] + c \in 1 .. Len(u) /\ e[i] \in Nat
  <2>1. PICK d \in Nat : d = c
    BY <1>1
  <2>2. 0 \in 0 .. d /\ d \in 0 .. d
    OBVIOUS
  <2>3. e[i] + 0 \in 1 .. Len(u) /\ e[i] + c \in 1 .. Len(u)
    BY <1>6, <2>1, <2>2
  <2>4. e[i] \in Nat
    <3>1. i \in 0 .. Len(ms)
      BY <1>3
    <3>2. QED
      BY <1>0, <3>1
  <2>5. QED
    BY <2>3, <2>4
<1>9. u[e[i]] = ms[i] /\ Answered(u, e[i])
  <2>1. e[i] + c <= Len(u)
    BY <1>8
  <2>2. QED
    BY <1>1, <1>7, <1>8, <2>1, AnsweredKept
<1>10. QED
  BY <1>2, <1>6, <1>7, <1>8, <1>9

LEMMA UncutClean ==
  ASSUME NEW ms, NEW m, NEW q, NEW u, NEW e, Assembled(ms, m, q, u, e)
  PROVE  Clean(u)
<1>0. /\ Protocol(ms, m) /\ u \in Seq(Message)
      /\ e \in [0 .. Len(ms) -> Nat] /\ Places(u, q, e)
  BY DEF Assembled
<1>1. /\ q \in Seq(Seq(Message)) /\ Len(q) = Len(ms) /\ Len(ms) \in Nat
      /\ \A i \in 1 .. Len(ms) :
           /\ orphaned(ms, i) = {} => Len(q[i]) = 1 /\ q[i][1] = ms[i]
           /\ orphaned(ms, i) # {} /\ Len(q[i]) = 1 => q[i][1].type = "ai" /\ q[i][1].calls = {}
  BY DEF Assembled
<1>2. ASSUME NEW n \in 1 .. Len(u)
      PROVE  \E k \in 1 .. Len(ms) :
               /\ e[k] = n
               /\ \/ orphaned(ms, k) = {} /\ u[n] = ms[k]
                  \/ u[n].type = "ai" /\ u[n].calls = {}
  <2>1. PICK k \in 1 .. Len(q) : Len(q[k]) = 1 /\ e[k] = n
    BY <1>0 DEF Places
  <2>2. u[n] = q[k][1]
    BY <1>0, <2>1 DEF Places
  <2>3. k \in 1 .. Len(ms)
    BY <1>1
  <2>4. CASE orphaned(ms, k) = {}
    <3>1. u[n] = ms[k]
      BY <1>1, <2>1, <2>2, <2>3, <2>4
    <3>2. QED
      BY <2>1, <2>3, <2>4, <3>1
  <2>5. CASE orphaned(ms, k) # {}
    <3>1. u[n].type = "ai" /\ u[n].calls = {}
      BY <1>1, <2>1, <2>2, <2>3, <2>5
    <3>2. QED
      BY <2>1, <2>3, <3>1
  <2>6. QED
    BY <2>4, <2>5
<1>3. ASSUME NEW n \in 1 .. Len(u)
      PROVE  Cardinality(u[n].calls) \in Nat /\ (u[n].calls # {} => Answered(u, n))
  <2>1. PICK k \in 1 .. Len(ms) : /\ e[k] = n
                                  /\ \/ orphaned(ms, k) = {} /\ u[n] = ms[k]
                                     \/ u[n].type = "ai" /\ u[n].calls = {}
    BY <1>2
  <2>2. CASE u[n].calls = {}
    BY <2>2, FS_EmptySet
  <2>3. CASE u[n].calls # {}
    <3>1. orphaned(ms, k) = {} /\ u[n] = ms[k]
      BY <2>1, <2>3
    <3>2. Answered(ms, k)
      BY <1>0, <2>3, <3>1, NoOrphans
    <3>3. Answered(u, e[k])
      BY <3>2, RoundStays
    <3>4. Cardinality(ms[k].calls) \in Nat
      BY <1>0, CallsFinite
    <3>5. QED
      BY <2>1, <3>1, <3>3, <3>4
  <2>4. QED
    BY <2>2, <2>3
<1>4. ASSUME NEW n \in 1 .. Len(u), u[n].type = "tool"
      PROVE  \E i \in 1 .. n - 1 : u[i].calls # {} /\ n \in Round(u, i)
  <2>1. PICK k \in 1 .. Len(ms) : e[k] = n /\ u[n] = ms[k]
    BY <1>2, <1>4
  <2>2. PICK i \in 1 .. k - 1 : ms[i].calls # {} /\ Answered(ms, i) /\ k \in Round(ms, i)
    BY <1>0, <1>4, <2>1 DEF Protocol, AnswersHaveCalls
  <2>3. i \in 1 .. Len(ms)
    BY <1>1
  <2> DEFINE c == Cardinality(ms[i].calls)
  <2>4. /\ e[i] \in 1 .. Len(u) /\ u[e[i]] = ms[i]
        /\ \A t \in 0 .. c : e[i + t] = e[i] + t
    BY <2>2, <2>3, RoundStays
  <2>5. c \in Nat
    BY <1>0, <2>3, CallsFinite
  <2> HIDE DEF c
  <2>6. k - i \in 1 .. c /\ i + (k - i) = k /\ k - i \in 0 .. c
    BY <2>2, <2>5 DEF Round, c
  <2>7. e[k] = e[i] + (k - i)
    BY <2>4, <2>6
  <2>8. e[i] \in 1 .. n - 1 /\ n \in e[i] + 1 .. e[i] + c
    BY <2>1, <2>4, <2>5, <2>6, <2>7
  <2>9. Round(u, e[i]) = e[i] + 1 .. e[i] + c
    BY <2>4 DEF Round, c
  <2>10. QED
    BY <2>2, <2>4, <2>8, <2>9
<1>5. QED
  BY <1>0, <1>3, <1>4 DEF Clean


-----------------------------------------------------------------------------
\* The prompt, cut to the window.

LEMMA SuffixIs ==
  ASSUME NEW S, NEW u \in Seq(S), NEW n \in 0 .. Len(u)
  PROVE  /\ Suffix(u, n) \in Seq(S) /\ Len(Suffix(u, n)) = n
         /\ \A i \in 1 .. n : Suffix(u, n)[i] = u[Len(u) - n + i]
BY DEF Suffix

LEMMA CutToWindow ==
  ASSUME NEW u \in Seq(Message), NEW n, n = Max({k \in 0 .. Len(u) : SizeOf(Suffix(u, k)) <= MaxContext})
  PROVE  /\ n \in 0 .. Len(u) /\ prune_messages_by_token_limit(u) = Suffix(u, n)
         /\ \A k \in 0 .. Len(u) : SizeOf(Suffix(u, k)) <= MaxContext => k <= n
<1> DEFINE T == {k \in 0 .. Len(u) : SizeOf(Suffix(u, k)) <= MaxContext}
<1>1. Suffix(u, 0) = <<>>
  BY DEF Suffix
<1>2. 0 \in T /\ T \subseteq 0 .. Len(u) /\ Len(u) \in Nat
  BY <1>1, SizeOfNone, HistoryAssumption
<1>3. Max(T) \in T /\ \A k \in T : k <= Max(T)
  <2> HIDE DEF T
  <2>1. QED
    BY <1>2, LargestOf
<1>4. QED
  BY <1>3 DEF prune_messages_by_token_limit

\* A prompt without orphans, cut at its front.
LEMMA CutFollows ==
  ASSUME NEW u, Clean(u), NEW n \in 0 .. Len(u), NEW p, p = Suffix(u, n)
  PROVE  /\ \A i \in DOMAIN p : p[i].calls # {} =>
              /\ i + Cardinality(p[i].calls) <= Len(p)
              /\ {p[j].call : j \in i + 1 .. i + Cardinality(p[i].calls)} = p[i].calls
         /\ \A j \in DOMAIN p : p[j].type = "tool" =>
              \/ \E i \in 1 .. j - 1 : p[j].call \in p[i].calls
              \/ p # u /\ \A k \in 1 .. j : p[k].type = "tool"
<1>1. u \in Seq(Message) /\ Len(u) \in Nat /\ n \in Nat
  BY DEF Clean
<1>2. p \in Seq(Message) /\ Len(p) = n /\ DOMAIN p = 1 .. n /\ \A i \in 1 .. n : p[i] = u[Len(u) - n + i]
  BY <1>1, SuffixIs
<1> DEFINE off == Len(u) - n
<1>3. off \in Nat /\ off + n = Len(u)
  BY <1>1
<1> HIDE DEF off
<1>4. \A i \in 1 .. n : p[i] = u[off + i] /\ off + i \in 1 .. Len(u)
  BY <1>1, <1>2, <1>3 DEF off
<1>5. ASSUME NEW i \in 1 .. n, p[i].calls # {} PROVE Answered(p, i)
  <2>1. Answered(u, off + i) /\ Cardinality(u[off + i].calls) \in Nat
    BY <1>4, <1>5 DEF Clean
  <2>2. PICK c \in Nat : c = Cardinality(u[off + i].calls)
    BY <2>1
  <2>3. (off + i) + c <= Len(u)
    BY <2>1, <2>2 DEF Answered
  <2>4. i + c <= Len(p)
    BY <1>1, <1>2, <1>3, <2>2, <2>3
  <2>5. ASSUME NEW t \in 0 .. c PROVE p[i + t] = u[(off + i) + t]
    <3>1. i + t \in 1 .. n /\ off + (i + t) = (off + i) + t
      BY <1>1, <1>2, <1>3, <2>2, <2>4
    <3>2. QED
      BY <1>4, <3>1
  <2>6. off + i \in Nat /\ i \in Nat
    BY <1>3
  <2>7. QED
    BY <2>1, <2>2, <2>4, <2>5, <2>6, AnsweredKept
<1>6. ASSUME NEW j \in 1 .. n, p[j].type = "tool"
      PROVE  \/ \E i \in 1 .. j - 1 : p[j].call \in p[i].calls
             \/ p # u /\ \A k \in 1 .. j : p[k].type = "tool"
  <2>1. PICK k \in 1 .. (off + j) - 1 : u[k].calls # {} /\ off + j \in Round(u, k)
    BY <1>4, <1>6 DEF Clean
  <2>2. k \in 1 .. Len(u)
    BY <1>1, <1>3, <2>1
  <2>3. Answered(u, k) /\ Cardinality(u[k].calls) \in Nat
    BY <2>1, <2>2 DEF Clean
  <2>4. u[off + j].call \in u[k].calls
    BY <2>1, <2>3 DEF Answered
  <2>5. CASE k > off
    <3>1. k - off \in 1 .. j - 1 /\ k - off \in 1 .. n /\ off + (k - off) = k
      BY <1>1, <1>3, <2>1, <2>5
    <3>2. p[k - off] = u[k]
      BY <1>4, <3>1
    <3>3. QED
      BY <1>4, <2>4, <3>1, <3>2
  <2>6. CASE ~(k > off)
    <3>1. off # 0 /\ Len(p) # Len(u)
      BY <1>1, <1>2, <1>3, <2>1, <2>6
    <3>2. ASSUME NEW x \in 1 .. j PROVE p[x].type = "tool"
      <4>1. PICK c \in Nat : c = Cardinality(u[k].calls)
        BY <2>3
      <4>2. off + j \in k + 1 .. k + c
        BY <2>1, <4>1 DEF Round
      <4>3. off + x \in k + 1 .. k + c /\ x \in 1 .. n
        BY <1>1, <1>3, <2>1, <2>6, <4>2
      <4>4. u[off + x].type = "tool"
        BY <2>3, <4>1, <4>3 DEF Answered, Round
      <4>5. QED
        BY <1>4, <4>3, <4>4
    <3>3. QED
      BY <3>1, <3>2
  <2>7. QED
    BY <2>5, <2>6
<1>7. ASSUME NEW i \in 1 .. n, p[i].calls # {}
      PROVE  /\ i + Cardinality(p[i].calls) <= Len(p)
             /\ {p[j].call : j \in i + 1 .. i + Cardinality(p[i].calls)} = p[i].calls
  BY <1>5, <1>7 DEF Answered, Round
<1>8. QED
  BY <1>2, <1>6, <1>7

\* What is kept of the prompt makes finitely many calls in each message.
LEMMA CutCounts ==
  ASSUME NEW u, Clean(u), NEW n \in 0 .. Len(u), NEW p, p = Suffix(u, n), NEW i \in DOMAIN p,
         p[i].calls # {}
  PROVE  Cardinality(p[i].calls) \in Nat
<1>1. u \in Seq(Message) /\ Len(u) \in Nat /\ n \in Nat
  BY DEF Clean
<1>0. DOMAIN p = 1 .. n /\ \A k \in 1 .. n : p[k] = u[Len(u) - n + k]
  BY <1>1, SuffixIs
<1>2. i \in 1 .. n /\ p[i] = u[Len(u) - n + i]
  BY <1>0
<1>3. Len(u) - n + i \in 1 .. Len(u)
  BY <1>1, <1>2
<1>4. QED
  BY <1>2, <1>3 DEF Clean

\* Every prompt follows the provider's protocol.
LEMMA PromptFollows == HistoryInv => PromptFollowsProtocol
<1>1. SUFFICES ASSUME HistoryInv PROVE PromptFollowsProtocol
  OBVIOUS
<1> DEFINE ms == <<System>> \o messages
<1>2. Protocol(ms, made)
  BY <1>1 DEF HistoryInv
<1> HIDE DEF ms
<1>3. PICK u : u = _sanitize_orphaned_tool_calls(ms)
  OBVIOUS
<1>4. PICK q, e : Assembled(ms, made, q, u, e)
  BY <1>2, <1>3, Assembly
<1>5. Clean(u)
  BY <1>4, UncutClean
<1>6. u \in Seq(Message)
  BY <1>5 DEF Clean
<1>7. PICK n : n = Max({k \in 0 .. Len(u) : SizeOf(Suffix(u, k)) <= MaxContext})
  OBVIOUS
<1>8. n \in 0 .. Len(u) /\ prune_messages_by_token_limit(u) = Suffix(u, n)
  BY <1>6, <1>7, CutToWindow
<1>9. u = uncut_prompt /\ kept_messages = Suffix(u, n)
  BY <1>3, <1>8 DEF uncut_prompt, kept_messages, ms
<1>10. PICK p : p = kept_messages
  OBVIOUS
<1>11. /\ \A i \in DOMAIN p : p[i].calls # {} =>
            /\ i + Cardinality(p[i].calls) <= Len(p)
            /\ {p[j].call : j \in i + 1 .. i + Cardinality(p[i].calls)} = p[i].calls
       /\ \A j \in DOMAIN p : p[j].type = "tool" =>
            \/ \E i \in 1 .. j - 1 : p[j].call \in p[i].calls
            \/ p # uncut_prompt /\ \A k \in 1 .. j : p[k].type = "tool"
  BY <1>5, <1>8, <1>9, <1>10, CutFollows
<1>12. CASE compiled_messages = p
  BY <1>10, <1>11, <1>12 DEF PromptFollowsProtocol
<1>13. CASE compiled_messages = Append(p, Reminder)
  <2>1. PICK N \in Nat : N = Len(p)
    BY <1>6, <1>8, <1>9, <1>10, SuffixIs
  <2>2. p \in Seq(Message) /\ DOMAIN p = 1 .. N
    BY <1>6, <1>8, <1>9, <1>10, <2>1, SuffixIs
  <2>3. PICK x : x = Append(p, Reminder)
    OBVIOUS
  <2>4. /\ Len(x) = N + 1 /\ DOMAIN x = 1 .. N + 1 /\ x[N + 1] = Reminder
        /\ \A i \in 1 .. N : x[i] = p[i]
    BY <2>1, <2>2, <2>3
  <2>5. Reminder.calls = {} /\ Reminder.type = "system"
    BY DEF Reminder, Msg
  <2>6. ASSUME NEW i \in 1 .. N + 1, x[i].calls # {}
        PROVE  /\ i + Cardinality(x[i].calls) <= Len(x)
               /\ {x[j].call : j \in i + 1 .. i + Cardinality(x[i].calls)} = x[i].calls
    <3>1. i \in 1 .. N /\ x[i] = p[i]
      BY <2>4, <2>5, <2>6
    <3>2. PICK c : c = Cardinality(p[i].calls)
      OBVIOUS
    <3>3. i + c <= N /\ {p[j].call : j \in i + 1 .. i + c} = p[i].calls
      BY <1>11, <2>1, <2>2, <2>6, <3>1, <3>2
    <3>4. c \in Nat
      BY <1>5, <1>8, <1>9, <1>10, <2>2, <2>6, <3>1, <3>2, CutCounts
    <3>5. \A j \in i + 1 .. i + c : j \in 1 .. N /\ x[j] = p[j]
      BY <2>1, <2>4, <3>3, <3>4
    <3>6. {x[j].call : j \in i + 1 .. i + c} = {p[j].call : j \in i + 1 .. i + c}
      BY <3>5
    <3>7. QED
      BY <2>1, <2>4, <3>1, <3>2, <3>3, <3>4, <3>6
  <2>7. ASSUME NEW j \in 1 .. N + 1, x[j].type = "tool"
        PROVE  \/ \E i \in 1 .. j - 1 : x[j].call \in x[i].calls
               \/ p # uncut_prompt /\ \A k \in 1 .. j : x[k].type = "tool"
    <3>1. j \in 1 .. N /\ \A k \in 1 .. j : k \in 1 .. N /\ x[k] = p[k]
      BY <2>1, <2>4, <2>5, <2>7
    <3>2. \/ \E i \in 1 .. j - 1 : p[j].call \in p[i].calls
          \/ p # uncut_prompt /\ \A k \in 1 .. j : p[k].type = "tool"
      BY <1>11, <2>2, <2>7, <3>1
    <3>3. \A k \in 1 .. j - 1 : k \in 1 .. j
      BY <2>1, <3>1
    <3>4. QED
      BY <3>1, <3>2, <3>3
  <2>8. /\ \A i \in DOMAIN x : x[i].calls # {} =>
              /\ i + Cardinality(x[i].calls) <= Len(x)
              /\ {x[j].call : j \in i + 1 .. i + Cardinality(x[i].calls)} = x[i].calls
        /\ \A j \in DOMAIN x : x[j].type = "tool" =>
              \/ \E i \in 1 .. j - 1 : x[j].call \in x[i].calls
              \/ kept_messages # uncut_prompt /\ \A k \in 1 .. j : x[k].type = "tool"
    BY <1>10, <2>4, <2>6, <2>7
  <2>9. x = compiled_messages
    BY <1>13, <2>3
  <2>10. QED
    BY <2>8, <2>9 DEF PromptFollowsProtocol
<1>14. QED
  BY <1>10, <1>12, <1>13 DEF compiled_messages


-----------------------------------------------------------------------------
\* The latest round.

LEMMA LimitOfAnswers ==
  /\ AnswerLimit \in Nat /\ Budget + Marker <= AnswerLimit /\ TextSize <= AnswerLimit
<1> DEFINE T == {Budget + Marker, TextSize}
           L == (Budget + Marker) + TextSize
<1>1. Budget + Marker \in Nat /\ TextSize \in Nat
  BY SearchAssumption, HistoryAssumption
<1>2. L \in Nat /\ T \subseteq 0 .. L /\ T # {}
  <2>1. \A a, b \in Nat : a + b \in Nat /\ a \in 0 .. a + b /\ b \in 0 .. a + b
    OBVIOUS
  <2>2. QED
    BY <1>1, <2>1
<1>3. Max(T) \in T /\ \A y \in T : y <= Max(T)
  <2> HIDE DEF T, L
  <2>1. QED
    BY <1>2, LargestOf
<1>4. QED
  BY <1>1, <1>3 DEF AnswerLimit

LEMMA SuffixOfLonger ==
  ASSUME NEW S, NEW u \in Seq(S), NEW n \in 0 .. Len(u), NEW k \in 0 .. n
  PROVE  IsSuffix(Suffix(u, k), Suffix(u, n))
<1>1. PICK s, p : s = Suffix(u, k) /\ p = Suffix(u, n)
  OBVIOUS
<1>2. k \in 0 .. Len(u) /\ Len(u) \in Nat
  OBVIOUS
<1>3. /\ s \in Seq(S) /\ Len(s) = k /\ \A i \in 1 .. k : s[i] = u[Len(u) - k + i]
      /\ p \in Seq(S) /\ Len(p) = n /\ \A i \in 1 .. n : p[i] = u[Len(u) - n + i]
  BY <1>1, <1>2, SuffixIs
<1>4. \A i \in 1 .. k : s[(k - i) + 1] = p[(n - i) + 1]
  <2>1. ASSUME NEW i \in 1 .. k PROVE s[(k - i) + 1] = p[(n - i) + 1]
    <3>1. (k - i) + 1 \in 1 .. k /\ (n - i) + 1 \in 1 .. n
      BY <1>2
    <3>2. Len(u) - k + ((k - i) + 1) = Len(u) - n + ((n - i) + 1)
      BY <1>2
    <3>3. PICK a \in 1 .. k, b \in 1 .. n : a = (k - i) + 1 /\ b = (n - i) + 1
      BY <3>1
    <3>4. s[a] = u[Len(u) - k + a] /\ p[b] = u[Len(u) - n + b]
      BY <1>3
    <3>5. Len(u) - k + a = Len(u) - n + b
      BY <3>2, <3>3
    <3>6. s[a] = p[b]
      BY <3>4, <3>5
    <3>7. QED
      BY <3>3, <3>6
  <2>2. QED
    BY <2>1
<1>5. PICK rs, rp : rs = Reverse(s) /\ rp = Reverse(p)
  OBVIOUS
<1>6. /\ rs \in Seq(S) /\ Len(rs) = k /\ rp \in Seq(S) /\ Len(rp) = n
      /\ \A i \in 1 .. k : rs[i] = rp[i]
  <2>1. rs = [i \in 1 .. k |-> s[(k - i) + 1]] /\ rp = [i \in 1 .. n |-> p[(n - i) + 1]]
    BY <1>3, <1>5 DEF Reverse
  <2>2. \A i \in 1 .. k : s[(k - i) + 1] \in S
    BY <1>2, <1>3
  <2>3. \A i \in 1 .. n : p[(n - i) + 1] \in S
    BY <1>2, <1>3
  <2>4. rs \in [1 .. k -> S] /\ rp \in [1 .. n -> S]
    BY <2>1, <2>2, <2>3
  <2>5. k \in Nat /\ n \in Nat /\ \A i \in 1 .. k : i \in 1 .. n
    OBVIOUS
  <2>6. rs \in Seq(S) /\ Len(rs) = k /\ rp \in Seq(S) /\ Len(rp) = n
    <3>1. \A m \in Nat : \A f \in [1 .. m -> S] : f \in Seq(S) /\ Len(f) = m
      OBVIOUS
    <3>2. QED
      BY <2>4, <2>5, <3>1
  <2>7. \A i \in 1 .. k : rs[i] = rp[i]
    BY <1>4, <2>1, <2>5
  <2>8. QED
    BY <2>6, <2>7
<1>7. SubSeq(rs, 1, k) = SubSeq(rp, 1, k)
  <2>1. SubSeq(rs, 1, k) = [i \in 1 .. k |-> rs[i]] /\ SubSeq(rp, 1, k) = [i \in 1 .. k |-> rp[i]]
    <3>1. k \in Nat /\ n \in Nat /\ k <= n
      OBVIOUS
    <3>2. QED
      BY <1>6, <3>1
  <2>2. QED
    BY <1>6, <2>1
<1>8. QED
  BY <1>1, <1>5, <1>6, <1>7 DEF IsSuffix, IsPrefix

LEMMA LatestKept == HistoryInv => LatestRoundKept
<1>1. SUFFICES ASSUME HistoryInv, messages # <<>>, Last(messages).type = "tool",
                      NEW first, first = Max({i \in DOMAIN messages : messages[i].calls # {}}),
                      messages[first].size + Cardinality(messages[first].calls) * AnswerLimit <= MaxContext
               PROVE  IsSuffix(SubSeq(messages, first, Len(messages)), kept_messages)
  BY DEF LatestRoundKept
<1> DEFINE L == Len(messages)
<1>2. messages \in Seq(Message) /\ L \in Nat /\ L # 0 /\ DOMAIN messages = 1 .. L
  BY <1>1 DEF HistoryInv
<1>3. PICK ms : ms = <<System>> \o messages
  OBVIOUS
<1>4. Protocol(ms, made)
  BY <1>1, <1>3 DEF HistoryInv
<1>5. Len(ms) = L + 1 /\ ms[1] = System /\ \A i \in 1 .. L : ms[i + 1] = messages[i]
  BY <1>2, <1>3
<1> HIDE DEF L
<1>6. ms[L + 1].type = "tool" /\ L + 1 \in 1 .. Len(ms)
  <2>1. messages[L].type = "tool" /\ L \in 1 .. L
    BY <1>1, <1>2 DEF Last, L
  <2>2. QED
    BY <1>2, <1>5, <2>1
<1>7. PICK i \in 1 .. (L + 1) - 1 : ms[i].calls # {} /\ Answered(ms, i) /\ L + 1 \in Round(ms, i)
  BY <1>4, <1>6 DEF Protocol, AnswersHaveCalls
<1>8. i \in 1 .. Len(ms) /\ i \in 1 .. L /\ i # 1
  <2>1. System.calls = {}
    BY DEF System, Msg
  <2>2. QED
    BY <1>2, <1>5, <1>7, <2>1
<1>9. Cardinality(ms[i].calls) \in Nat
  BY <1>4, <1>8, CallsFinite
<1>10. PICK c \in Nat : c = Cardinality(ms[i].calls)
  BY <1>9
<1>11. i + c = L + 1
  <2>1. i + c <= L + 1
    BY <1>5, <1>7, <1>10 DEF Answered
  <2>2. L + 1 <= i + c
    BY <1>7, <1>10 DEF Round
  <2>3. QED
    BY <1>2, <1>8, <1>10, <2>1, <2>2
<1>12. \A j \in i + 1 .. i + c : ms[j].type = "tool" /\ ms[j].calls = {}
  <2>1. ASSUME NEW j \in i + 1 .. i + c PROVE ms[j].type = "tool" /\ ms[j].calls = {}
    <3>1. ms[j].type = "tool"
      BY <1>7, <1>10 DEF Answered, Round
    <3>2. j \in 1 .. Len(ms)
      BY <1>2, <1>5, <1>8, <1>10, <1>11
    <3>3. QED
      BY <1>4, <3>1, <3>2 DEF Protocol, MessagesTyped
  <2>2. QED
    BY <2>1
<1>13. first = i - 1
  <2> DEFINE T == {k \in 1 .. L : messages[k].calls # {}}
  <2>1. i - 1 \in 1 .. L /\ (i - 1) + 1 = i
    BY <1>2, <1>8
  <2>2. i - 1 \in T
    BY <1>5, <1>7, <2>1
  <2>3. first = Max(T)
    BY <1>1, <1>2
  <2>4. \A k \in T : k <= i - 1
    <3>1. ASSUME NEW k \in T, k > i - 1 PROVE FALSE
      <4>1. k + 1 \in i + 1 .. i + c
        BY <1>2, <1>8, <1>11, <3>1
      <4>2. ms[k + 1].calls = messages[k].calls
        BY <1>5
      <4>3. QED
        BY <1>12, <4>1, <4>2
    <3>2. \A k \in T : k \in Nat
      BY <1>2
    <3>3. i - 1 \in Nat
      BY <2>1
    <3>4. QED
      BY <3>1, <3>2, <3>3
  <2>5. Max(T) \in T /\ \A k \in T : k <= Max(T)
    <3>1. T \subseteq 0 .. L /\ T # {}
      BY <1>2, <2>2
    <3> HIDE DEF T
    <3>2. QED
      BY <1>2, <3>1, LargestOf
  <2>6. Max(T) \in Nat /\ i - 1 \in Nat
    BY <1>2, <2>1, <2>5
  <2>7. Max(T) <= i - 1 /\ i - 1 <= Max(T)
    BY <2>2, <2>4, <2>5
  <2> HIDE DEF T
  <2>8. QED
    BY <2>3, <2>6, <2>7
<1>14. PICK u : u = _sanitize_orphaned_tool_calls(ms)
  OBVIOUS
<1>15. PICK q, e : Assembled(ms, made, q, u, e)
  BY <1>4, <1>14, Assembly
<1>16. /\ u \in Seq(Message) /\ Len(u) \in Nat /\ e[L + 1] = Len(u)
  BY <1>5, <1>15 DEF Assembled, Places
<1>17. /\ e[i] \in 1 .. Len(u)
       /\ \A t \in 0 .. c : e[i + t] = e[i] + t /\ u[e[i] + t] = ms[i + t]
  BY <1>7, <1>8, <1>10, <1>15, RoundStays
<1>18. e[i] + c = Len(u)
  <2>1. c \in 0 .. c
    OBVIOUS
  <2>2. QED
    BY <1>11, <1>16, <1>17, <2>1
<1>19. c + 1 \in 0 .. Len(u)
  BY <1>16, <1>17, <1>18
<1>20. PICK s : s = Suffix(u, c + 1)
  OBVIOUS
<1>21. /\ s \in Seq(Message) /\ Len(s) = c + 1
       /\ \A t \in 0 .. c : s[t + 1] = ms[i + t]
  <2>1. /\ s \in Seq(Message) /\ Len(s) = c + 1
        /\ \A x \in 1 .. c + 1 : s[x] = u[Len(u) - (c + 1) + x]
    <3>1. PICK d \in 0 .. Len(u) : d = c + 1
      BY <1>19
    <3>2. /\ s \in Seq(Message) /\ Len(s) = d
          /\ \A x \in 1 .. d : s[x] = u[Len(u) - d + x]
      <4>1. u \in Seq(Message)
        BY <1>16
      <4>2. /\ Suffix(u, d) \in Seq(Message) /\ Len(Suffix(u, d)) = d
            /\ \A x \in 1 .. d : Suffix(u, d)[x] = u[Len(u) - d + x]
        BY <4>1, SuffixIs, Zenon
      <4>3. s = Suffix(u, d)
        BY <1>20, <3>1, Zenon
      <4>4. QED
        BY <4>2, <4>3, Zenon
    <3>3. s \in Seq(Message) /\ Len(s) = c + 1
      BY <3>1, <3>2
    <3>4. ASSUME NEW x \in 1 .. c + 1 PROVE s[x] = u[Len(u) - (c + 1) + x]
      <4>1. x \in 1 .. d
        BY <3>1
      <4>2. s[x] = u[Len(u) - d + x]
        BY <3>2, <4>1
      <4>3. QED
        BY <3>1, <4>2, Zenon
    <3>5. QED
      BY <3>3, <3>4
  <2>2. ASSUME NEW t \in 0 .. c PROVE s[t + 1] = ms[i + t]
    <3>1. t + 1 \in 1 .. c + 1 /\ Len(u) - (c + 1) + (t + 1) = e[i] + t
      <4>1. PICK x \in Nat, y \in Nat : x = e[i] /\ y = Len(u) /\ x + c = y
        BY <1>16, <1>17, <1>18
      <4>2. t + 1 \in 1 .. c + 1 /\ y - (c + 1) + (t + 1) = x + t
        BY <1>10, <4>1
      <4>3. QED
        BY <4>1, <4>2
    <3>2. QED
      BY <1>17, <2>1, <3>1
  <2>3. QED
    BY <2>1, <2>2
<1>22. s = SubSeq(messages, first, Len(messages))
  <2>1. first \in 1 .. L /\ (L - first) + 1 = c + 1
    BY <1>2, <1>8, <1>10, <1>11, <1>13
  <2>2. PICK r : r = SubSeq(messages, first, L)
    OBVIOUS
  <2>3. r = [x \in 1 .. c + 1 |-> messages[(first + x) - 1]]
    BY <1>2, <2>1, <2>2
  <2>4. s = [x \in 1 .. c + 1 |-> s[x]]
    BY <1>21
  <2>5. ASSUME NEW x \in 1 .. c + 1 PROVE s[x] = messages[(first + x) - 1]
    <3>1. x - 1 \in 0 .. c /\ (x - 1) + 1 = x
      OBVIOUS
    <3>2. s[x] = ms[i + (x - 1)]
      BY <1>21, <3>1
    <3>3. (first + x) - 1 \in 1 .. L /\ ((first + x) - 1) + 1 = i + (x - 1)
      BY <1>2, <1>8, <1>13, <2>1
    <3>4. QED
      BY <1>5, <3>2, <3>3
  <2>6. s = r
    BY <2>3, <2>4, <2>5
  <2>7. QED
    BY <2>2, <2>6 DEF L
<1>23. SizeOf(s) <= MaxContext
  <2>1. s[1] = ms[i] /\ ms[i] = messages[first]
    <3>1. 0 \in 0 .. c /\ 0 + 1 = 1 /\ i + 0 = i
      BY <1>8
    <3>2. first + 1 = i /\ first \in 1 .. L
      BY <1>2, <1>8, <1>13
    <3>3. QED
      BY <1>5, <1>21, <3>1, <3>2
  <2>2. ASSUME NEW x \in 2 .. Len(s) PROVE s[x].size <= AnswerLimit
    <3>1. x - 1 \in 0 .. c /\ (x - 1) + 1 = x /\ i + (x - 1) \in i + 1 .. i + c
      BY <1>8, <1>21
    <3>2. s[x] = ms[i + (x - 1)] /\ ms[i + (x - 1)].type = "tool"
      BY <1>12, <1>21, <3>1
    <3>3. i + (x - 1) \in 1 .. Len(ms)
      BY <1>2, <1>5, <1>8, <1>10, <1>11, <3>1
    <3>4. QED
      BY <1>4, <3>2, <3>3 DEF Protocol, MessagesTyped
  <2>3. SizeOf(s) \in Nat /\ SizeOf(s) <= s[1].size + c * AnswerLimit
    BY <1>10, <1>21, <2>2, MessagesSized, LimitOfAnswers, SizeBound
  <2>4. PICK b : b = s[1].size + c * AnswerLimit
    OBVIOUS
  <2>5. b <= MaxContext
    BY <1>1, <1>10, <2>1, <2>4
  <2>6. b \in Int
    <3>1. c * AnswerLimit \in Nat
      BY LimitOfAnswers, NextMultiple
    <3>2. s[1] \in Message
      BY <1>21
    <3>3. s[1].size \in Nat
      BY <3>2 DEF Message
    <3>4. QED
      BY <2>4, <3>1, <3>3
  <2>7. QED
    BY <2>3, <2>4, <2>5, <2>6, HistoryAssumption
<1>24. PICK n : n = Max({k \in 0 .. Len(u) : SizeOf(Suffix(u, k)) <= MaxContext})
  OBVIOUS
<1>25. n \in 0 .. Len(u) /\ prune_messages_by_token_limit(u) = Suffix(u, n) /\ c + 1 <= n
  BY <1>16, <1>19, <1>20, <1>23, <1>24, CutToWindow
<1>26. kept_messages = Suffix(u, n)
  BY <1>3, <1>14, <1>25 DEF kept_messages, uncut_prompt
<1>27. IsSuffix(s, Suffix(u, n))
  <2>1. c + 1 \in 0 .. n
    BY <1>25
  <2>2. QED
    BY <1>16, <1>20, <1>25, <2>1, SuffixOfLonger
<1>28. QED
  BY <1>22, <1>26, <1>27


-----------------------------------------------------------------------------
\* The steps.

Extends(ns, ms) ==
  Len(ns) \in Nat /\ Len(ms) <= Len(ns) /\ \A i \in 1 .. Len(ms) : ns[i] = ms[i]

\* An answered message of a prefix is answered in the whole.
LEMMA AnsweredInLonger ==
  ASSUME NEW ms, NEW m, Protocol(ms, m), NEW ns, Extends(ns, ms), NEW i \in 1 .. Len(ms), Answered(ms, i)
  PROVE  Answered(ns, i) /\ Round(ns, i) = Round(ms, i)
<1>0. Len(ns) \in Nat /\ Len(ms) <= Len(ns) /\ \A j \in 1 .. Len(ms) : ns[j] = ms[j]
  BY DEF Extends
<1>1. Len(ms) \in Nat
  BY DEF Protocol, MessagesTyped
<1>2. PICK c \in Nat : c = Cardinality(ms[i].calls)
  BY CallsFinite
<1>3. i + c <= Len(ms) /\ i \in Nat
  BY <1>1, <1>2 DEF Answered
<1>4. i + c <= Len(ns)
  BY <1>0, <1>1, <1>2, <1>3
<1>5. \A t \in 0 .. c : ns[i + t] = ms[i + t]
  <2>1. \A t \in 0 .. c : i + t \in 1 .. Len(ms)
    BY <1>1, <1>2, <1>3
  <2>2. QED
    BY <1>0, <2>1
<1>6. Answered(ns, i)
  BY <1>2, <1>3, <1>4, <1>5, AnsweredKept
<1>7. QED
  BY <1>0, <1>6 DEF Round

\* A message that is no answer, with calls of its own.
LEMMA AddMessage ==
  ASSUME NEW ms, NEW m, Protocol(ms, m), NEW n \in Nat, NEW x \in Message,
         x.type # "tool", x.call = 0, x.calls = m + 1 .. m + n,
         x.calls # {} => x.type = "ai", NEW ns, ns = ms \o <<x>>
  PROVE  Protocol(ns, m + n)
<1>1. ms \in Seq(Message) /\ Len(ms) \in Nat /\ m \in Nat
  BY DEF Protocol, MessagesTyped
<1> DEFINE L == Len(ms)
<1>2. /\ ns \in Seq(Message) /\ Len(ns) = L + 1 /\ ns[L + 1] = x
      /\ \A i \in 1 .. L : ns[i] = ms[i]
  BY <1>1
<1>3. \A i \in 1 .. Len(ns) : i \in 1 .. L \/ i = L + 1
  BY <1>1, <1>2
<1>4. \A i \in 1 .. L : /\ ms[i].calls \subseteq 1 .. m /\ ms[i].call \in 0 .. m
                        /\ ms[i].type # "tool" => ms[i].call = 0
                        /\ ms[i].type = "tool" => ms[i].size <= AnswerLimit
                        /\ ms[i].calls # {} => ms[i].type = "ai"
  BY DEF Protocol, MessagesTyped
<1>5. /\ \A y \in 1 .. m : y \in 1 .. m + n /\ y \notin m + 1 .. m + n
      /\ \A y \in 0 .. m : y \in 0 .. m + n /\ y \notin m + 1 .. m + n
      /\ \A y \in m + 1 .. m + n : y \in 1 .. m + n
      /\ 0 \in 0 .. m + n /\ 0 \notin 1 .. m /\ m + n \in Nat
  BY <1>1
<1> HIDE DEF L
<1>6. MessagesTyped(ns, m + n)
  <2>1. ASSUME NEW i \in 1 .. Len(ns)
        PROVE  /\ ns[i].calls \subseteq 1 .. m + n /\ ns[i].call \in 0 .. m + n
               /\ ns[i].type # "tool" => ns[i].call = 0
               /\ ns[i].type = "tool" => ns[i].size <= AnswerLimit
               /\ ns[i].calls # {} => ns[i].type = "ai"
    <3>1. CASE i \in 1 .. L
      BY <1>2, <1>4, <1>5, <3>1
    <3>2. CASE i = L + 1
      <4>1. ns[i] = x
        BY <1>2, <3>2
      <4>2. x.calls \subseteq 1 .. m + n
        BY <1>5
      <4>3. x.call \in 0 .. m + n
        BY <1>5
      <4>4. QED
        <5>1. x.type # "tool" /\ x.call = 0
          OBVIOUS
        <5>2. x.calls # {} => x.type = "ai"
          OBVIOUS
        <5>3. PICK cs : cs = x.calls
          OBVIOUS
        <5>4. /\ cs \subseteq 1 .. m + n
              /\ cs # {} => x.type = "ai"
              /\ ns[i].calls = cs
          BY <4>1, <4>2, <5>2, <5>3
        <5>5. ns[i].type # "tool" /\ ns[i].call = 0 /\ ns[i].type = x.type
          BY <4>1, <5>1
        <5>6. 0 \in 0 .. m + n
          BY <1>5
        <5>7. QED
          BY <5>4, <5>5, <5>6
    <3>3. QED
      BY <1>3, <3>1, <3>2
  <2>2. QED
    BY <1>2, <2>1 DEF MessagesTyped
<1>7. OneCaller(ns)
  <2>1. ASSUME NEW i \in 1 .. L PROVE ns[i].calls \cap ns[L + 1].calls = {}
    BY <1>2, <1>4, <1>5
  <2>2. ASSUME NEW i \in 1 .. L, NEW j \in 1 .. L, i # j PROVE ns[i].calls \cap ns[j].calls = {}
    <3>1. ms[i].calls \cap ms[j].calls = {}
      BY <2>2 DEF Protocol, OneCaller, L
    <3>2. QED
      BY <1>2, <3>1
  <2>3. ASSUME NEW i \in 1 .. Len(ns), NEW j \in 1 .. Len(ns), i # j
        PROVE  ns[i].calls \cap ns[j].calls = {}
    <3>1. (i \in 1 .. L \/ i = L + 1) /\ (j \in 1 .. L \/ j = L + 1)
      BY <1>3
    <3>2. CASE i \in 1 .. L /\ j \in 1 .. L
      BY <2>2, <2>3, <3>2, Zenon
    <3>3. CASE i \in 1 .. L /\ j = L + 1
      BY <2>1, <3>3, Zenon
    <3>4. CASE i = L + 1 /\ j \in 1 .. L
      <4>1. ns[j].calls \cap ns[i].calls = {}
        BY <2>1, <3>4, Zenon
      <4>2. QED
        BY <4>1
    <3>5. QED
      BY <2>3, <3>1, <3>2, <3>3, <3>4
  <2>4. QED
    BY <2>3 DEF OneCaller
<1>8. ASSUME NEW i \in 1 .. L, Answered(ms, i) PROVE Answered(ns, i) /\ Round(ns, i) = Round(ms, i)
  <2>1. Extends(ns, ms)
    BY <1>1, <1>2 DEF L, Extends
  <2>2. i \in 1 .. Len(ms)
    BY DEF L
  <2>3. QED
    BY <1>8, <2>1, <2>2, AnsweredInLonger
<1>9. AllOrNone(ns)
  <2>1. ASSUME NEW i \in 1 .. L, ms[i].calls # {} PROVE Answered(ns, i) \/ Unanswered(ns, i)
    <3>1. CASE Answered(ms, i)
      BY <1>8, <3>1
    <3>2. CASE Unanswered(ms, i)
      <4>1. ASSUME NEW j \in 1 .. L PROVE ns[j].call \notin ns[i].calls
        BY <1>2, <3>2 DEF Unanswered, L
      <4>2. ns[L + 1].call \notin ns[i].calls
        BY <1>2, <1>4, <1>5
      <4>3. QED
        BY <1>3, <4>1, <4>2 DEF Unanswered
    <3>3. QED
      BY <2>1, <3>1, <3>2 DEF Protocol, AllOrNone, L
  <2>2. Unanswered(ns, L + 1)
    <3>1. ASSUME NEW j \in 1 .. L PROVE ns[j].call \notin ns[L + 1].calls
      BY <1>2, <1>4, <1>5
    <3>2. ns[L + 1].call \notin ns[L + 1].calls
      BY <1>1, <1>2
    <3>3. QED
      BY <1>3, <3>1, <3>2 DEF Unanswered
  <2>3. QED
    BY <1>2, <1>3, <2>1, <2>2 DEF AllOrNone
<1>10. AnswersHaveCalls(ns)
  <2>1. ASSUME NEW j \in 1 .. Len(ns), ns[j].type = "tool"
        PROVE  \E i \in 1 .. j - 1 : ns[i].calls # {} /\ Answered(ns, i) /\ j \in Round(ns, i)
    <3>1. j \in 1 .. L /\ ms[j].type = "tool"
      BY <1>2, <1>3, <2>1
    <3>2. PICK i \in 1 .. j - 1 : ms[i].calls # {} /\ Answered(ms, i) /\ j \in Round(ms, i)
      BY <3>1 DEF Protocol, AnswersHaveCalls, L
    <3>3. i \in 1 .. L
      BY <1>1, <3>1 DEF L
    <3>4. QED
      BY <1>2, <1>8, <3>2, <3>3
  <2>2. QED
    BY <2>1 DEF AnswersHaveCalls
<1>11. QED
  BY <1>5, <1>6, <1>7, <1>9, <1>10 DEF Protocol

LEMMA OneAfterAnother ==
  ASSUME NEW a \in Seq(Message), NEW b \in Seq(Message), NEW c, c = a \o b
  PROVE  /\ c \in Seq(Message) /\ Len(c) = Len(a) + Len(b)
         /\ \A i \in 1 .. Len(a) : c[i] = a[i]
         /\ \A j \in 1 .. Len(b) : c[Len(a) + j] = b[j]
OBVIOUS

AnswersOf(t, calls) ==
  /\ Len(t) = Cardinality(calls)
  /\ {t[j].call : j \in 1 .. Len(t)} = calls
  /\ \A j \in 1 .. Len(t) : t[j].type = "tool" /\ t[j].calls = {} /\ t[j].size <= AnswerLimit

\* The answers of the last message.
LEMMA AddAnswers ==
  ASSUME NEW ms, NEW m, Protocol(ms, m), ms # <<>>, ms[Len(ms)].calls # {},
         NEW t \in Seq(Message), AnswersOf(t, ms[Len(ms)].calls),
         NEW ns, ns = ms \o t
  PROVE  Protocol(ns, m)
<1>1. ms \in Seq(Message) /\ Len(ms) \in Nat /\ Len(ms) # 0 /\ m \in Nat
  BY DEF Protocol, MessagesTyped
<1> DEFINE L == Len(ms)
<1>2. PICK c \in Nat : c = Len(t)
  OBVIOUS
<1>3. /\ ns \in Seq(Message) /\ Len(ns) = L + c
      /\ \A i \in 1 .. L : ns[i] = ms[i]
      /\ \A j \in 1 .. c : ns[L + j] = t[j]
  <2>1. t \in Seq(Message) /\ ms \in Seq(Message) /\ ns = ms \o t
    BY <1>1
  <2>2. /\ ns \in Seq(Message) /\ Len(ns) = Len(ms) + Len(t)
        /\ \A i \in 1 .. Len(ms) : ns[i] = ms[i]
        /\ \A j \in 1 .. Len(t) : ns[Len(ms) + j] = t[j]
    BY <2>1, OneAfterAnother
  <2>3. QED
    BY <1>2, <2>2
<1> HIDE DEF L
<1>4. \A i \in 1 .. Len(ns) : i \in 1 .. L \/ \E j \in 1 .. c : i = L + j
  <2>1. ASSUME NEW i \in 1 .. L + c, i \notin 1 .. L PROVE i - L \in 1 .. c /\ i = L + (i - L)
    BY <1>1, <1>2, <2>1 DEF L
  <2>2. QED
    BY <1>3, <2>1
<1>5. L \in 1 .. L
  BY <1>1 DEF L
<1>6. \A i \in 1 .. L : /\ ms[i].calls \subseteq 1 .. m /\ ms[i].call \in 0 .. m
                        /\ ms[i].type # "tool" => ms[i].call = 0
                        /\ ms[i].type = "tool" => ms[i].size <= AnswerLimit
                        /\ ms[i].calls # {} => ms[i].type = "ai"
  BY DEF Protocol, MessagesTyped, L
<1>7. ASSUME NEW j \in 1 .. c
      PROVE  /\ ns[L + j] = t[j] /\ t[j].call \in ms[L].calls /\ t[j].call \in 0 .. m
             /\ t[j].type = "tool" /\ t[j].calls = {} /\ t[j].size <= AnswerLimit
  <2>1. j \in 1 .. Len(t)
    BY <1>2
  <2>2. t[j].call \in {t[k].call : k \in 1 .. Len(t)}
    BY <2>1
  <2>3. t[j].call \in ms[L].calls
    BY <2>2 DEF L, AnswersOf
  <2>4. t[j].call \in 1 .. m
    BY <1>5, <1>6, <2>3
  <2>5. t[j].call \in 0 .. m
    BY <1>1, <2>4
  <2>6. QED
    BY <1>3, <2>1, <2>3, <2>5 DEF AnswersOf
<1>8. MessagesTyped(ns, m)
  <2>1. ASSUME NEW i \in 1 .. Len(ns)
        PROVE  /\ ns[i].calls \subseteq 1 .. m /\ ns[i].call \in 0 .. m
               /\ ns[i].type # "tool" => ns[i].call = 0
               /\ ns[i].type = "tool" => ns[i].size <= AnswerLimit
               /\ ns[i].calls # {} => ns[i].type = "ai"
    <3>1. CASE i \in 1 .. L
      BY <1>3, <1>6, <3>1
    <3>2. CASE \E j \in 1 .. c : i = L + j
      BY <1>7, <3>2
    <3>3. QED
      BY <1>4, <3>1, <3>2
  <2>2. QED
    BY <1>3, <2>1 DEF MessagesTyped
<1>9. OneCaller(ns)
  <2>1. ASSUME NEW i \in 1 .. Len(ns), i \notin 1 .. L PROVE ns[i].calls = {}
    BY <1>4, <1>7, <2>1
  <2>2. ASSUME NEW i \in 1 .. L, NEW j \in 1 .. L, i # j PROVE ns[i].calls \cap ns[j].calls = {}
    <3>1. ms[i].calls \cap ms[j].calls = {}
      BY <2>2 DEF Protocol, OneCaller, L
    <3>2. QED
      BY <1>3, <3>1
  <2>3. QED
    BY <2>1, <2>2 DEF OneCaller
<1>10. ASSUME NEW i \in 1 .. L, Answered(ms, i) PROVE Answered(ns, i) /\ Round(ns, i) = Round(ms, i)
  <2>1. Extends(ns, ms)
    BY <1>1, <1>2, <1>3 DEF L, Extends
  <2>2. i \in 1 .. Len(ms)
    BY DEF L
  <2>3. QED
    BY <1>10, <2>1, <2>2, AnsweredInLonger
<1>11. Answered(ns, L) /\ Round(ns, L) = L + 1 .. L + c
  <2>1. ns[L] = ms[L] /\ Cardinality(ns[L].calls) = c
    BY <1>2, <1>3, <1>5 DEF L, AnswersOf
  <2>2. Round(ns, L) = L + 1 .. L + c
    BY <2>1 DEF Round
  <2>3. \A j \in L + 1 .. L + c : j - L \in 1 .. c /\ j = L + (j - L)
    BY <1>1, <1>2 DEF L
  <2>4. \A j \in L + 1 .. L + c : ns[j].type = "tool" /\ ns[j].call \in ms[L].calls
    <3>1. ASSUME NEW j \in L + 1 .. L + c
          PROVE  ns[j].type = "tool" /\ ns[j].call \in ms[L].calls
      <4>1. PICK k \in 1 .. c : j = L + k
        BY <2>3
      <4>2. QED
        BY <1>7, <4>1
    <3>2. QED
      BY <3>1
  <2>5. \A y \in ms[L].calls : \E j \in L + 1 .. L + c : ns[j].call = y
    <3>1. ASSUME NEW y \in ms[L].calls PROVE \E j \in L + 1 .. L + c : ns[j].call = y
      <4>1. y \in {t[j].call : j \in 1 .. c}
        BY <1>2 DEF L, AnswersOf
      <4>2. PICK j \in 1 .. c : t[j].call = y
        BY <4>1
      <4>3. L + j \in L + 1 .. L + c
        BY <1>1, <1>2 DEF L
      <4>4. QED
        BY <1>7, <4>2, <4>3
    <3>2. QED
      BY <3>1
  <2>6. {ns[j].call : j \in L + 1 .. L + c} = ms[L].calls
    <3>1. PICK R : R = L + 1 .. L + c
      OBVIOUS
    <3>2. /\ \A j \in R : ns[j].call \in ms[L].calls
          /\ \A y \in ms[L].calls : \E j \in R : ns[j].call = y
      BY <2>4, <2>5, <3>1
    <3>3. {ns[j].call : j \in R} = ms[L].calls
      <4>1. \A y \in {ns[j].call : j \in R} : y \in ms[L].calls
        BY <3>2
      <4>2. \A y \in ms[L].calls : y \in {ns[j].call : j \in R}
        BY <3>2
      <4>3. QED
        BY <4>1, <4>2
    <3>4. QED
      BY <3>1, <3>3
  <2>7. L + c <= Len(ns)
    BY <1>1, <1>2, <1>3 DEF L
  <2>8. QED
    BY <2>1, <2>2, <2>4, <2>6, <2>7 DEF Answered
<1>12. AllOrNone(ns)
  <2>1. ASSUME NEW i \in 1 .. L, ms[i].calls # {} PROVE Answered(ns, i) \/ Unanswered(ns, i)
    <3>1. CASE Answered(ms, i)
      BY <1>10, <3>1
    <3>2. CASE i = L
      BY <1>11, <3>2
    <3>3. CASE Unanswered(ms, i) /\ i # L
      <4>1. ASSUME NEW j \in 1 .. L PROVE ns[j].call \notin ns[i].calls
        BY <1>3, <3>3 DEF Unanswered, L
      <4>2. ms[i].calls \cap ms[L].calls = {}
        BY <1>5, <3>3 DEF Protocol, OneCaller, L
      <4>3. ASSUME NEW j \in 1 .. c PROVE ns[L + j].call \notin ns[i].calls
        BY <1>3, <1>7, <4>2
      <4>4. QED
        BY <1>4, <4>1, <4>3 DEF Unanswered
    <3>4. QED
      BY <2>1, <3>1, <3>2, <3>3 DEF Protocol, AllOrNone, L
  <2>2. ASSUME NEW i \in 1 .. Len(ns), ns[i].calls # {} PROVE Answered(ns, i) \/ Unanswered(ns, i)
    <3>1. i \in 1 .. L
      BY <1>4, <1>7, <2>2
    <3>2. QED
      BY <1>3, <2>1, <2>2, <3>1
  <2>3. QED
    BY <2>2 DEF AllOrNone
<1>13. AnswersHaveCalls(ns)
  <2>1. ASSUME NEW j \in 1 .. L, ns[j].type = "tool"
        PROVE  \E i \in 1 .. j - 1 : ns[i].calls # {} /\ Answered(ns, i) /\ j \in Round(ns, i)
    <3>1. ms[j].type = "tool"
      BY <1>3, <2>1
    <3>2. PICK i \in 1 .. j - 1 : ms[i].calls # {} /\ Answered(ms, i) /\ j \in Round(ms, i)
      BY <3>1 DEF Protocol, AnswersHaveCalls, L
    <3>3. i \in 1 .. L
      BY <1>1 DEF L
    <3>4. QED
      BY <1>3, <1>10, <3>2, <3>3
  <2>2. ASSUME NEW k \in 1 .. c
        PROVE  \E i \in 1 .. (L + k) - 1 : ns[i].calls # {} /\ Answered(ns, i) /\ L + k \in Round(ns, i)
    <3>1. L \in 1 .. (L + k) - 1 /\ L + k \in L + 1 .. L + c
      BY <1>1, <1>2 DEF L
    <3>2. ns[L].calls # {}
      BY <1>3, <1>5 DEF L
    <3>3. QED
      BY <1>11, <3>1, <3>2
  <2>3. QED
    BY <1>4, <2>1, <2>2 DEF AnswersHaveCalls
<1>14. QED
  BY <1>1, <1>8, <1>9, <1>12, <1>13 DEF Protocol

\* The history up to a message that neither calls nor answers.
LEMMA CutHistory ==
  ASSUME NEW ms, NEW m, Protocol(ms, m), NEW h \in 1 .. Len(ms),
         ms[h].calls = {}, ms[h].type # "tool", NEW ns, ns = SubSeq(ms, 1, h)
  PROVE  Protocol(ns, m)
<1>1. ms \in Seq(Message) /\ Len(ms) \in Nat /\ m \in Nat
  BY DEF Protocol, MessagesTyped
<1>2. ns \in Seq(Message) /\ Len(ns) = h /\ \A i \in 1 .. h : ns[i] = ms[i] /\ i \in 1 .. Len(ms)
  BY <1>1
<1>3. MessagesTyped(ns, m) /\ OneCaller(ns)
  BY <1>2 DEF Protocol, MessagesTyped, OneCaller
<1>4. ASSUME NEW i \in 1 .. h, Answered(ms, i), ms[i].calls # {}
      PROVE  Answered(ns, i) /\ Round(ns, i) = Round(ms, i)
  <2>1. PICK c \in Nat : c = Cardinality(ms[i].calls)
    BY <1>2, CallsFinite
  <2>2. h \notin i + 1 .. i + c
    BY <1>4, <2>1 DEF Answered, Round
  <2>3. i # h
    BY <1>4
  <2>4. i + c <= h
    BY <1>1, <2>1, <2>2, <2>3
  <2>5. \A t \in 0 .. c : ns[i + t] = ms[i + t]
    <3>1. \A t \in 0 .. c : i + t \in 1 .. h
      BY <1>1, <2>1, <2>4
    <3>2. QED
      BY <1>2, <3>1
  <2>6. i \in Nat
    BY <1>1
  <2>7. Answered(ns, i)
    <3>1. i + c <= Len(ns)
      BY <1>2, <2>4
    <3>2. QED
      BY <1>4, <2>1, <2>5, <2>6, <3>1, AnsweredKept
  <2>8. QED
    BY <1>2, <2>7 DEF Round
<1>5. AllOrNone(ns)
  <2>1. ASSUME NEW i \in 1 .. h, ms[i].calls # {} PROVE Answered(ns, i) \/ Unanswered(ns, i)
    <3>1. CASE Answered(ms, i)
      BY <1>4, <2>1, <3>1
    <3>2. CASE Unanswered(ms, i)
      BY <1>2, <3>2 DEF Unanswered
    <3>3. QED
      BY <1>2, <2>1, <3>1, <3>2 DEF Protocol, AllOrNone
  <2>2. QED
    BY <1>2, <2>1 DEF AllOrNone
<1>6. AnswersHaveCalls(ns)
  <2>1. ASSUME NEW j \in 1 .. h, ms[j].type = "tool"
        PROVE  \E i \in 1 .. j - 1 : ns[i].calls # {} /\ Answered(ns, i) /\ j \in Round(ns, i)
    <3>1. PICK i \in 1 .. j - 1 : ms[i].calls # {} /\ Answered(ms, i) /\ j \in Round(ms, i)
      BY <1>2, <2>1 DEF Protocol, AnswersHaveCalls
    <3>2. i \in 1 .. h
      BY <1>1
    <3>3. QED
      BY <1>2, <1>4, <3>1, <3>2
  <2>2. QED
    BY <1>2, <2>1 DEF AnswersHaveCalls
<1>7. QED
  BY <1>1, <1>3, <1>5, <1>6 DEF Protocol


LEMMA MessagesOfSteps ==
  /\ System \in Message /\ Human \in Message /\ Ai({}, TextSize) \in Message
  /\ System.type = "system" /\ System.calls = {} /\ System.call = 0
  /\ Human.type = "human" /\ Human.calls = {} /\ Human.call = 0
  /\ \A calls \in SUBSET Nat, size \in Nat :
       /\ Ai(calls, size) \in Message /\ Ai(calls, size).type = "ai"
       /\ Ai(calls, size).calls = calls /\ Ai(calls, size).call = 0
  /\ \A c \in Nat, z \in Nat :
       /\ Tool(c, z) \in Message /\ Tool(c, z).type = "tool" /\ Tool(c, z).calls = {}
       /\ Tool(c, z).size = z
<1>1. SystemSize \in Nat /\ TextSize \in Nat
  BY HistoryAssumption
<1>2. QED
  BY <1>1 DEF System, Human, Ai, Tool, Msg, Message

LEMMA SystemFirst ==
  ASSUME NEW a \in Seq(Message), NEW t \in Seq(Message)
  PROVE  /\ a \o t \in Seq(Message)
         /\ <<System>> \o (a \o t) = (<<System>> \o a) \o t
<1>1. <<System>> \in Seq(Message)
  BY MessagesOfSteps
<1>2. QED
  BY <1>1

\* The invariant after a message without calls.
LEMMA PlainAdded ==
  ASSUME NEW a \in Seq(Message), NEW m, Protocol(<<System>> \o a, m), NEW x \in Message,
         x.type \in {"human", "ai"}, x.calls = {}, x.call = 0
  PROVE  a \o <<x>> \in Seq(Message) /\ Protocol(<<System>> \o (a \o <<x>>), m)
<1>1. m \in Nat
  BY DEF Protocol
<1>2. x.calls = m + 1 .. m + 0 /\ 0 \in Nat /\ m + 0 = m
  BY <1>1
<1>3. PICK ns : ns = (<<System>> \o a) \o <<x>>
  OBVIOUS
<1>4. Protocol(ns, m + 0)
  BY <1>2, <1>3, AddMessage
<1>5. <<x>> \in Seq(Message)
  OBVIOUS
<1>6. QED
  BY <1>2, <1>3, <1>4, <1>5, SystemFirst

LEMMA HistoryStart == Init => HistoryInv
<1>1. SUFFICES ASSUME Init PROVE HistoryInv
  OBVIOUS
<1>2. messages = <<>> /\ made = 0 /\ node = "END"
  BY <1>1 DEF Init
<1>3. PICK ms : ms = <<System>> \o <<>>
  OBVIOUS
<1>4. ms \in Seq(Message) /\ Len(ms) = 1 /\ ms[1] = System
  BY <1>3, MessagesOfSteps
<1>5. Protocol(ms, 0)
  <2>1. \A i \in 1 .. Len(ms) : i = 1
    BY <1>4
  <2>2. MessagesTyped(ms, 0)
    <3>1. 0 \in 0 .. 0
      OBVIOUS
    <3>2. QED
      BY <1>4, <2>1, <3>1, MessagesOfSteps DEF MessagesTyped
  <2>3. OneCaller(ms)
    BY <2>1 DEF OneCaller
  <2>4. AllOrNone(ms) /\ AnswersHaveCalls(ms)
    BY <1>4, <2>1, MessagesOfSteps DEF AllOrNone, AnswersHaveCalls
  <2>5. QED
    BY <2>2, <2>3, <2>4 DEF Protocol
<1>6. QED
  BY <1>2, <1>3, <1>5 DEF HistoryInv

LEMMA HistoryStep == HistoryInv /\ [Next]_vars => HistoryInv'
<1> SUFFICES ASSUME HistoryInv, [Next]_vars PROVE HistoryInv'
  OBVIOUS
<1>0. /\ messages \in Seq(Message) /\ Protocol(<<System>> \o messages, made) /\ made \in Nat
      /\ node = "evaluate_tool_hooks" => messages # <<>> /\ Last(messages).calls # {}
  BY DEF HistoryInv, Protocol
<1>1. CASE UNCHANGED <<messages, made>> /\ (UNCHANGED node \/ node' # "evaluate_tool_hooks")
  BY <1>0, <1>1 DEF HistoryInv
<1>2. CASE Ask
  <2>1. messages' = messages \o <<Human>> /\ made' = made /\ node' # "evaluate_tool_hooks"
    BY <1>2 DEF Ask, Add
  <2>2. messages \o <<Human>> \in Seq(Message) /\ Protocol(<<System>> \o (messages \o <<Human>>), made)
    BY <1>0, MessagesOfSteps, PlainAdded
  <2>3. QED
    BY <2>1, <2>2 DEF HistoryInv
<1>3. CASE Reply
  <2>1. messages' = messages \o <<Human, Ai({}, TextSize)>> /\ made' = made /\ node' # "evaluate_tool_hooks"
    BY <1>3 DEF Reply, Add
  <2>2. PICK x : x = Ai({}, TextSize)
    OBVIOUS
  <2>3. x \in Message /\ x.type = "ai" /\ x.calls = {} /\ x.call = 0
    BY <2>2, HistoryAssumption, MessagesOfSteps
  <2>4. PICK a : a = messages \o <<Human>>
    OBVIOUS
  <2>5. a \in Seq(Message) /\ Protocol(<<System>> \o a, made)
    BY <1>0, <2>4, MessagesOfSteps, PlainAdded
  <2>6. a \o <<x>> \in Seq(Message) /\ Protocol(<<System>> \o (a \o <<x>>), made)
    BY <2>3, <2>5, PlainAdded
  <2>7. messages' = a \o <<x>>
    <3>1. <<Human, x>> = <<Human>> \o <<x>>
      OBVIOUS
    <3>2. Human \in Message
      BY MessagesOfSteps
    <3>3. messages \o (<<Human>> \o <<x>>) = (messages \o <<Human>>) \o <<x>>
      BY <1>0, <2>3, <3>2
    <3>4. QED
      BY <2>1, <2>2, <2>4, <3>1, <3>3
  <2>8. QED
    BY <2>1, <2>6, <2>7 DEF HistoryInv
<1>4. CASE node_travel_react_agent
  <2>1. PICK n \in 0 .. MaxBatch, size \in {0, TextSize} :
          /\ messages' = messages \o <<Ai(made + 1 .. made + n, size)>>
          /\ made' = made + n
          /\ node' = IF n = 0 THEN "review" ELSE "evaluate_tool_hooks"
    BY <1>4 DEF node_travel_react_agent, Add
  <2>2. n \in Nat /\ size \in Nat /\ made + 1 .. made + n \in SUBSET Nat
    BY <1>0, HistoryAssumption
  <2>3. PICK x : x = Ai(made + 1 .. made + n, size)
    OBVIOUS
  <2>4. x \in Message /\ x.type = "ai" /\ x.calls = made + 1 .. made + n /\ x.call = 0
    <3>1. PICK calls \in SUBSET Nat : calls = made + 1 .. made + n
      BY <2>2
    <3>2. x = Ai(calls, size)
      BY <2>3, <3>1
    <3>3. x \in Message /\ x.type = "ai" /\ x.calls = calls /\ x.call = 0
      BY <2>2, <3>2, MessagesOfSteps
    <3>4. QED
      BY <3>1, <3>3
  <2>5. PICK ns : ns = (<<System>> \o messages) \o <<x>>
    OBVIOUS
  <2>6. Protocol(ns, made + n)
    BY <1>0, <2>2, <2>4, <2>5, AddMessage
  <2>7. messages' = messages \o <<x>> /\ messages' \in Seq(Message) /\ ns = <<System>> \o messages'
    <3>1. <<x>> \in Seq(Message)
      BY <2>4
    <3>2. QED
      BY <1>0, <2>1, <2>3, <2>5, <3>1, SystemFirst
  <2>8. n # 0 => messages' # <<>> /\ Last(messages').calls # {}
    <3>1. Len(messages \o <<x>>) = Len(messages) + 1 /\ (messages \o <<x>>)[Len(messages) + 1] = x
      BY <1>0, <2>4
    <3>2. Last(messages') = x /\ Len(messages') # 0
      BY <1>0, <2>7, <3>1 DEF Last
    <3>3. n # 0 => made + 1 \in made + 1 .. made + n
      BY <1>0, <2>2
    <3>4. Len(<<>>) = 0
      OBVIOUS
    <3>5. QED
      BY <2>4, <3>2, <3>3, <3>4
  <2>9. QED
    BY <2>1, <2>6, <2>7, <2>8 DEF HistoryInv
<1>5. CASE tools
  <2>4. PICK C : C = Last(messages).calls
    OBVIOUS
  <2>1. PICK results \in [C -> Searches] :
          /\ messages' = messages \o SetToSeq({Tool(c, AnswerSize(results[c])) : c \in C})
          /\ node = "evaluate_tool_hooks" /\ node' = "travel_react_agent" /\ made' = made
    BY <1>5, <2>4 DEF tools, Add
  <2>2. PICK z : z = [c \in C |-> AnswerSize(results[c])]
    OBVIOUS
  <2>3. \A c \in C : z[c] \in Nat /\ z[c] <= AnswerLimit
    <3> SUFFICES ASSUME NEW c \in C PROVE z[c] \in Nat /\ z[c] <= AnswerLimit
      OBVIOUS
    <3>1. PICK found_c \in Seq(Results) : found_c = results[c]
      BY HistoryAssumption
    <3>2. SizeOf(search_web(found_c)) \in Nat /\ SizeOf(search_web(found_c)) <= Budget + Marker
      BY <3>1, SearchKeepsBudget
    <3>3. TextSize \in Nat /\ Budget + Marker \in Nat
      BY HistoryAssumption, SearchAssumption
    <3>4. z[c] = AnswerSize(found_c)
      BY <2>2, <3>1
    <3>5. CASE found_c = <<>>
      BY <3>3, <3>4, <3>5, LimitOfAnswers DEF AnswerSize
    <3>6. CASE found_c # <<>>
      BY <3>2, <3>3, <3>4, <3>6, LimitOfAnswers DEF AnswerSize
    <3>7. QED
      BY <3>5, <3>6
  <2>5. PICK ms : ms = <<System>> \o messages
    OBVIOUS
  <2>6. messages # <<>> /\ C # {}
    BY <1>0, <2>1, <2>4
  <2>7. /\ ms \in Seq(Message) /\ Len(ms) = Len(messages) + 1 /\ Len(messages) \in Nat
        /\ Len(messages) # 0 /\ ms[Len(ms)] = Last(messages)
    <3>1. Len(messages) \in Nat /\ Len(messages) # 0
      BY <1>0, <2>6
    <3>2. /\ ms \in Seq(Message) /\ Len(ms) = Len(messages) + 1
          /\ \A i \in 1 .. Len(messages) : ms[i + 1] = messages[i]
      BY <1>0, <2>5, MessagesOfSteps
    <3>3. Len(messages) \in 1 .. Len(messages)
      BY <3>1
    <3>4. QED
      BY <3>1, <3>2, <3>3 DEF Last
  <2>8. Protocol(ms, made) /\ ms # <<>>
    <3>1. Len(ms) # 0 /\ Len(<<>>) = 0
      BY <2>7
    <3>2. QED
      BY <1>0, <2>5, <3>1
  <2>9. IsFiniteSet(C) /\ C \subseteq 1 .. made
    <3>1. Len(ms) \in 1 .. Len(ms)
      BY <2>7
    <3>2. QED
      BY <2>4, <2>7, <2>8, <3>1, CallsFinite
  <2>10. PICK S : S = ToolsFor(C, z)
    OBVIOUS
  <2>11. PICK t : t = SetToSeq(S)
    OBVIOUS
  <2>12. /\ Cardinality(C) \in Nat /\ t \in Seq(S) /\ Len(t) = Cardinality(C)
         /\ {t[j].call : j \in 1 .. Len(t)} = C
    BY <2>9, <2>10, <2>11, OneForEach
  <2>13. \A x \in S : x \in Message /\ x.type = "tool" /\ x.calls = {} /\ x.size <= AnswerLimit
    <3>1. \A c \in C : c \in Nat
      BY <1>0, <2>9
    <3>2. ASSUME NEW x \in S
          PROVE  x \in Message /\ x.type = "tool" /\ x.calls = {} /\ x.size <= AnswerLimit
      <4>1. PICK c \in C : x = Tool(c, z[c])
        BY <2>10 DEF ToolsFor
      <4>2. QED
        BY <2>3, <3>1, <4>1, MessagesOfSteps
    <3>3. QED
      BY <3>2
  <2>14. t \in Seq(Message) /\ AnswersOf(t, C)
    <3>1. \A j \in 1 .. Len(t) : t[j] \in S
      BY <2>12
    <3>2. t \in Seq(Message)
      <4>1. S \subseteq Message
        BY <2>13
      <4>2. QED
        BY <2>12, <4>1
    <3>3. QED
      BY <2>12, <2>13, <3>1, <3>2 DEF AnswersOf
  <2>15. PICK ns : ns = ms \o t
    OBVIOUS
  <2>16. Protocol(ns, made)
    <3>1. ms[Len(ms)].calls # {} /\ AnswersOf(t, ms[Len(ms)].calls)
      BY <2>4, <2>6, <2>7, <2>14
    <3>2. QED
      BY <2>8, <2>14, <2>15, <3>1, AddAnswers
  <2>17. messages' = messages \o t
    <3>1. {Tool(c, AnswerSize(results[c])) : c \in C} = {Tool(c, z[c]) : c \in C}
      BY <2>2
    <3>2. QED
      BY <2>1, <2>10, <2>11, <3>1 DEF ToolsFor
  <2>18. messages' \in Seq(Message) /\ ns = <<System>> \o messages'
    BY <1>0, <2>5, <2>14, <2>15, <2>17, SystemFirst
  <2>19. QED
    BY <2>1, <2>16, <2>18 DEF HistoryInv
<1>6. CASE NextTask
  <2>1. PICK h : h = last_human_idx
    OBVIOUS
  <2>2. messages' = SubSeq(messages, 1, h) /\ made' = made /\ node' # "evaluate_tool_hooks"
    BY <1>6, <2>1 DEF NextTask
  <2>3. PICK L \in Nat : L = Len(messages)
    BY <1>0
  <2>4. PICK I : I = {i \in 1 .. L : messages[i].type = "human"}
    OBVIOUS
  <2>5. h = IF I # {} THEN Max(I) ELSE 0
    BY <2>1, <2>3, <2>4 DEF last_human_idx, SelectLastInSeq
  <2>6. h \in 0 .. L /\ (h # 0 => messages[h].type = "human")
    <3>1. CASE I = {}
      BY <2>3, <2>5, <3>1
    <3>2. CASE I # {}
      <4>1. I \subseteq 0 .. L
        BY <2>4
      <4>2. Max(I) \in I
        BY <3>2, <4>1, LargestOf
      <4>3. QED
        BY <2>4, <2>5, <3>2, <4>2
    <3>3. QED
      BY <3>1, <3>2
  <2>7. PICK ms : ms = <<System>> \o messages
    OBVIOUS
  <2>8. /\ ms \in Seq(Message) /\ Len(ms) = L + 1 /\ ms[1] = System
        /\ \A i \in 1 .. L : ms[i + 1] = messages[i]
    BY <1>0, <2>3, <2>7, MessagesOfSteps
  <2>9. PICK g : g = h + 1
    OBVIOUS
  <2>10. g \in 1 .. Len(ms)
    BY <2>3, <2>6, <2>8, <2>9
  <2>11. ms[g].calls = {} /\ ms[g].type # "tool"
    <3>1. CASE h = 0
      BY <2>8, <2>9, <3>1, MessagesOfSteps
    <3>2. CASE h # 0
      <4>1. h \in 1 .. L /\ ms[g].type = "human"
        BY <2>3, <2>6, <2>8, <2>9, <3>2
      <4>2. ms[g].calls = {}
        BY <1>0, <2>7, <2>10, <4>1 DEF Protocol, MessagesTyped
      <4>3. QED
        BY <4>1, <4>2
    <3>3. QED
      BY <3>1, <3>2
  <2>12. PICK ns : ns = SubSeq(ms, 1, g)
    OBVIOUS
  <2>13. Protocol(ns, made)
    BY <1>0, <2>7, <2>10, <2>11, <2>12, CutHistory
  <2>14. messages' \in Seq(Message) /\ ns = <<System>> \o messages'
    <3>1. PICK s : s = SubSeq(messages, 1, h)
      OBVIOUS
    <3>2. s \in Seq(Message) /\ Len(s) = h /\ \A i \in 1 .. h : s[i] = messages[i]
      BY <1>0, <2>3, <2>6, <3>1
    <3>3. ns \in Seq(Message) /\ Len(ns) = h + 1 /\ \A i \in 1 .. h + 1 : ns[i] = ms[i]
      BY <2>8, <2>9, <2>10, <2>12
    <3>4. PICK r : r = <<System>> \o s
      OBVIOUS
    <3>5. /\ r \in Seq(Message) /\ Len(r) = h + 1 /\ r[1] = System
          /\ \A i \in 1 .. h : r[i + 1] = s[i]
      BY <2>6, <3>2, <3>4, MessagesOfSteps
    <3>6. ASSUME NEW i \in 1 .. h + 1 PROVE ns[i] = r[i]
      <4>1. CASE i = 1
        BY <2>8, <3>3, <3>5, <4>1
      <4>2. CASE i # 1
        <5>1. PICK k \in 1 .. h : i = k + 1
          <6>1. i - 1 \in 1 .. h /\ i = (i - 1) + 1
            BY <2>6, <4>2
          <6>2. QED
            BY <6>1
        <5>2. k \in 1 .. L
          BY <2>3, <2>6
        <5>3. ns[i] = messages[k] /\ r[i] = messages[k]
          BY <2>8, <3>2, <3>3, <3>5, <5>1, <5>2
        <5>4. QED
          BY <5>3
      <4>3. QED
        BY <4>1, <4>2
    <3>7. ns = r
      <4>1. ns = [i \in 1 .. h + 1 |-> ns[i]] /\ r = [i \in 1 .. h + 1 |-> r[i]]
        BY <3>3, <3>5
      <4>2. QED
        BY <3>6, <4>1
    <3>8. QED
      BY <2>2, <3>1, <3>2, <3>4, <3>7
  <2>15. QED
    BY <2>2, <2>13, <2>14 DEF HistoryInv
<1>7. CASE node_final_synthesizer
  <2>1. messages' = messages \o <<Ai({}, TextSize)>> /\ made' = made /\ node' # "evaluate_tool_hooks"
    BY <1>7 DEF node_final_synthesizer, Add
  <2>2. PICK x : x = Ai({}, TextSize)
    OBVIOUS
  <2>3. x \in Message /\ x.type = "ai" /\ x.calls = {} /\ x.call = 0
    BY <2>2, HistoryAssumption, MessagesOfSteps
  <2>4. messages \o <<x>> \in Seq(Message) /\ Protocol(<<System>> \o (messages \o <<x>>), made)
    BY <1>0, <2>3, PlainAdded
  <2>5. QED
    BY <2>1, <2>2, <2>4 DEF HistoryInv
<1>8. UNCHANGED vars \/ Blocked \/ Rework \/ GraphFails =>
        UNCHANGED <<messages, made>> /\ (UNCHANGED node \/ node' # "evaluate_tool_hooks")
  BY DEF vars, Blocked, Rework, GraphFails
<1>9. QED
  BY <1>1, <1>2, <1>3, <1>4, <1>5, <1>6, <1>7, <1>8 DEF Next

\* However turns end and whatever a node leaves behind, the calls of a message
\* are all answered right after it or not at all.
THEOREM HistoryKept == Spec => []HistoryInv
BY HistoryStart, HistoryStep, PTL DEF Spec

\* Every prompt the executor sends answers its calls right after them: what
\* sanitising and pruning are for, for every window, batch and search.
THEOREM PromptsFollowProtocol == Spec => []PromptFollowsProtocol
BY HistoryKept, PromptFollows, PTL

\* The executor sees the whole round of tools it has just called for, if the
\* budgets of its calls fit the window.
THEOREM LatestRoundIsKept == Spec => []LatestRoundKept
BY HistoryKept, LatestKept, PTL


=============================================================================
