--------------------------- MODULE TSkipListChains ---------------------------
(***************************************************************************)
(* Lemmas about sorted chains of nodes, which the proofs about the order   *)
(* of the list rest on: how a chain that is built from next pointers       *)
(* relates to a set of nodes, what linking and cutting off a node makes of *)
(* one, and how two transactions that start from the same chain and write  *)
(* to different nodes combine.                                             *)
(***************************************************************************)
EXTENDS TSkipListProofs, WellFoundedInduction

\* By the keys K, the pointers N run through the nodes of V in ascending order:
\* each leads to the node of V with the next larger key.
Sorted(V, N, K) ==
    /\ HeadNode \in V
    /\ \A n \in V : K[n] \in Int /\ K[HeadNode] <= K[n]
    /\ \A n, m \in V : K[n] = K[m] => n = m
    /\ \A n \in V : N[n] # NULL => N[n] \in V /\ K[n] < K[N[n]]
    /\ \A n, m \in V : K[n] < K[m] => N[n] # NULL /\ K[N[n]] <= K[m]

\* Of the nodes of V with a key below k, p has the largest.
Before(p, k, V, K) == p \in V /\ K[p] < k /\ \A m \in V : K[m] < k => K[m] <= K[p]

-----------------------------------------------------------------------------
\* Induction over the numbers, for a set in the place of a predicate.
LEMMA LeastOf ==
  ASSUME NEW T, T \subseteq Nat, T # {}
  PROVE  \E x \in T : \A y \in T : x <= y
<1> DEFINE R == {ss \in Nat \X Nat : ss[1] < ss[2]}
<1>1. IsWellFoundedOn(R, Nat)
  BY NatLessThanWellFounded, Zenon DEF OpToRel
<1>2. \A x, y \in Nat : y < x => <<y, x>> \in R
  OBVIOUS
<1> HIDE DEF R
<1>3. PICK x \in T : \A y \in T : ~ (<<y, x>> \in R)
  BY <1>1, WFMin, Zenon
<1>4. \A y \in T : x \in Nat /\ y \in Nat /\ ~(y < x)
  BY <1>2, <1>3
<1> QED  BY <1>4

LEMMA SetInduction ==
  ASSUME NEW S, 0 \in S, \A n \in Nat : n \in S => n + 1 \in S
  PROVE  Nat \subseteq S
<1> DEFINE T == Nat \ S
<1> SUFFICES ASSUME T # {} PROVE FALSE
  OBVIOUS
<1>1. PICK x \in T : \A y \in T : x <= y
  <2> HIDE DEF T
  <2>1. T \subseteq Nat
    BY DEF T
  <2> QED  BY <2>1, LeastOf, Zenon
<1>2. x # 0 /\ x - 1 \in Nat /\ x - 1 \in S
  BY <1>1
<1> QED  BY <1>1, <1>2

\* Below any key above that of the head there is a node with the largest key.
LEMMA BeforeExists ==
  ASSUME NEW V, NEW K, NEW k \in Int, \A n \in V : K[n] \in Int, NEW h \in V, K[h] < k
  PROVE  \E p : Before(p, k, V, K)
<1> DEFINE T == {d \in Nat : \E n \in V : K[n] < k /\ d = k - K[n]}
<1>1. k - K[h] \in T
  OBVIOUS
<1>2. PICK x \in T : \A y \in T : x <= y
  <2> HIDE DEF T
  <2>1. T \subseteq Nat
    BY DEF T
  <2> QED  BY <1>1, <2>1, LeastOf
<1>3. PICK p \in V : K[p] < k /\ x = k - K[p]
  BY <1>2
<1>4. ASSUME NEW m \in V, K[m] < k PROVE K[m] <= K[p]
  <2>1. k - K[m] \in T
    BY <1>4
  <2> QED  BY <1>2, <1>3, <2>1
<1> QED  BY <1>3, <1>4 DEF Before

-----------------------------------------------------------------------------
\* The pointers M and the keys J are N and K with a new node e in the place of the link
\* that leads on from p, and its key is between that of p and that of what follows it.
Links(V, N, K, p, e, M, J) ==
    /\ p \in V /\ e \notin V /\ e # NULL /\ (\A n \in V : J[n] = K[n]) /\ J[e] \in Int /\ J[p] < J[e]
    /\ (N[p] # NULL => J[e] < K[N[p]]) /\ M[p] = e /\ M[e] = N[p] /\ \A n \in V \ {p} : M[n] = N[n]

LEMMA LinkSorted ==
  ASSUME NEW V, NEW N, NEW K, NEW p, NEW e, NEW M, NEW J, NEW W, W = V \cup {e}, Sorted(V, N, K), Links(V, N, K, p, e, M, J)
  PROVE  Sorted(W, M, J)
<1> USE DEF Sorted, Links
<1>1. HeadNode \in W /\ \A n \in W : J[n] \in Int /\ J[HeadNode] <= J[n]
  OBVIOUS
<1>2. \A n \in V : J[n] <= J[p] \/ J[e] < J[n]
  OBVIOUS
<1>3. \A n, m \in W : J[n] = J[m] => n = m
  <2>1. \A n \in V : J[n] # J[e]
    BY <1>1, <1>2
  <2> QED  BY <2>1
<1>4. ASSUME NEW n \in W, M[n] # NULL PROVE M[n] \in W /\ J[n] < J[M[n]]
  <2>1. CASE n = p
    BY <2>1
  <2>2. CASE n = e
    BY <1>4, <2>2
  <2>3. CASE n \in V \ {p}
    BY <1>4, <2>3
  <2> QED  BY <2>1, <2>2, <2>3
<1>5. ASSUME NEW n \in W, NEW m \in W, J[n] < J[m] PROVE M[n] # NULL /\ J[M[n]] <= J[m]
  <2>1. CASE n = p
    <3>1. m = e \/ J[e] < J[m]
      BY <1>1, <1>2, <1>5, <2>1
    <3> QED  BY <1>1, <2>1, <3>1
  <2>2. CASE n = e
    <3>1. m \in V /\ K[p] < K[m]
      BY <1>1, <1>5, <2>2
    <3> QED  BY <2>2, <3>1
  <2>3. CASE n \in V \ {p} /\ m = e
    <3>1. K[n] <= K[p] /\ K[n] # K[p] /\ K[n] \in Int /\ K[p] \in Int
      BY <1>1, <1>2, <1>5, <2>3
    <3>2. K[n] < K[p]
      BY <3>1
    <3>3. N[n] # NULL /\ K[N[n]] <= K[p] /\ N[n] \in V
      BY <2>3, <3>2
    <3> QED  BY <2>3, <3>3
  <2>4. CASE n \in V \ {p} /\ m \in V
    BY <1>5, <2>4
  <2> QED  BY <2>1, <2>2, <2>3, <2>4
<1> QED  BY <1>1, <1>3, <1>4, <1>5

\* The node d after p is cut off, and p leads to what followed it.
LEMMA CutSorted ==
  ASSUME NEW V, NEW N, NEW K, Sorted(V, N, K), NEW W, NEW M, NEW p \in V, NEW d,
         N[p] = d, d # NULL, W = V \ {d}, M[p] = N[d], \A n \in W \ {p} : M[n] = N[n]
  PROVE  Sorted(W, M, K)
<1> USE DEF Sorted
<1>1. d \in V /\ K[p] < K[d] /\ p \in W /\ d # HeadNode
  OBVIOUS
<1>2. HeadNode \in W /\ \A n \in W : K[n] \in Int /\ K[HeadNode] <= K[n]
  BY <1>1
<1>3. ASSUME NEW n \in W, M[n] # NULL PROVE M[n] \in W /\ K[n] < K[M[n]]
  <2>1. CASE n = p
    BY <1>1, <1>3, <2>1
  <2>2. CASE n # p
    <3>1. M[n] = N[n] /\ N[n] \in V /\ K[n] < K[N[n]]
      BY <1>3, <2>2
    <3>2. ASSUME N[n] = d PROVE FALSE
      <4>1. K[n] < K[p] \/ K[p] < K[n]
        BY <2>2
      <4>2. K[n] < K[p] => K[N[n]] <= K[p]
        OBVIOUS
      <4>3. K[p] < K[n] => K[d] <= K[n]
        OBVIOUS
      <4> QED  BY <1>1, <3>1, <3>2, <4>1, <4>2, <4>3
    <3> QED  BY <3>1, <3>2
  <2> QED  BY <2>1, <2>2
<1>4. ASSUME NEW n \in W, NEW m \in W, K[n] < K[m] PROVE M[n] # NULL /\ K[M[n]] <= K[m]
  <2>1. CASE n = p
    <3>1. K[d] <= K[m] /\ K[d] # K[m]
      BY <1>1, <1>4, <2>1
    <3>2. K[d] < K[m]
      BY <1>1, <3>1
    <3> QED  BY <1>1, <2>1, <3>2
  <2>2. CASE n # p
    BY <1>4, <2>2
  <2> QED  BY <2>1, <2>2
<1> QED  BY <1>2, <1>3, <1>4

-----------------------------------------------------------------------------
\* Outside of the nodes of W, the chain V by the pointers N is what S was by P.
SameBut(W, V, N, S, P) == \A n : n \notin W => (n \in V <=> n \in S) /\ (n \in S => N[n] = P[n])

\* Where the node before a key was not written, nothing with that key came or went.
LEMMA Untouched ==
  ASSUME NEW S, NEW P, NEW K, Sorted(S, P, K), NEW V, NEW N, Sorted(V, N, K), NEW W, SameBut(W, V, N, S, P),
         NEW k \in Int, NEW p, Before(p, k, S, K), p \notin W
  PROVE  /\ p \in V /\ N[p] = P[p]
         /\ \A m : m \in V \cup S => (K[m] = k => m \in V /\ m \in S)
<1>1. p \in S /\ p \in V /\ N[p] = P[p] /\ K[p] < k
  BY DEF Before, SameBut
<1>2. ASSUME NEW m \in V, K[m] = k PROVE m \in S
  <2>1. P[p] # NULL /\ K[P[p]] <= k /\ P[p] \in V /\ P[p] \in S /\ K[p] < K[P[p]]
    BY <1>1, <1>2 DEF Sorted
  <2>2. K[P[p]] = k
    BY <2>1 DEF Before, Sorted
  <2> QED  BY <1>2, <2>1, <2>2 DEF Sorted
<1>3. ASSUME NEW m \in S, K[m] = k PROVE m \in V
  <2>1. P[p] # NULL /\ K[P[p]] <= k /\ P[p] \in V /\ P[p] \in S /\ K[p] < K[P[p]]
    BY <1>1, <1>3 DEF Sorted
  <2>2. K[P[p]] = k
    BY <2>1 DEF Before, Sorted
  <2> QED  BY <1>3, <2>1, <2>2 DEF Sorted
<1> QED  BY <1>1, <1>2, <1>3

\* Two chains that come from the chain S, written at the nodes of A and of B.
Rivals(S, P, V, N, A, U, O, B, K) ==
    /\ Sorted(S, P, K) /\ Sorted(V, N, K) /\ Sorted(U, O, K)
    /\ SameBut(A, V, N, S, P) /\ SameBut(B, U, O, S, P) /\ A \cap B = {}

\* U with what was done to the nodes of A to make V.
Merged(V, U, A) == (U \ A) \cup (V \cap A)

\* At each key only one of the two made a difference, and it is there in the merged chain.
LEMMA OneAtAKey ==
  ASSUME NEW S, NEW P, NEW V, NEW N, NEW A, NEW U, NEW O, NEW B, NEW K, Rivals(S, P, V, N, A, U, O, B, K),
         NEW k \in Int, K[HeadNode] < k
  PROVE  \E p : /\ Before(p, k, S, K)
                /\ \/ /\ p \notin B
                      /\ \A m : K[m] = k => (m \in U <=> m \in S) /\ (m \in Merged(V, U, A) <=> m \in V)
                   \/ /\ p \notin A
                      /\ \A m : K[m] = k => (m \in V <=> m \in S) /\ (m \in Merged(V, U, A) <=> m \in U)
<1>1. PICK p : Before(p, k, S, K)
  <2>1. HeadNode \in S /\ \A n \in S : K[n] \in Int
    BY DEF Rivals, Sorted
  <2> QED  BY <2>1, BeforeExists
<1>2. CASE p \notin B
  <2>1. \A m : K[m] = k => (m \in U <=> m \in S)
    BY <1>1, <1>2, Untouched DEF Rivals
  <2>2. ASSUME NEW m, K[m] = k PROVE m \in Merged(V, U, A) <=> m \in V
    BY <2>1, <2>2 DEF Merged, Rivals, SameBut
  <2> QED  BY <1>1, <1>2, <2>1, <2>2
<1>3. CASE p \notin A
  <2>1. \A m : K[m] = k => (m \in V <=> m \in S)
    BY <1>1, <1>3, Untouched DEF Rivals
  <2>2. ASSUME NEW m, K[m] = k PROVE m \in Merged(V, U, A) <=> m \in U
    BY <2>1, <2>2 DEF Merged, Rivals, SameBut
  <2> QED  BY <1>1, <1>3, <2>1, <2>2
<1> QED  BY <1>1, <1>2, <1>3 DEF Rivals

\* A node of V that the others did not write has its place in the merged chain.
LEMMA MergedAt ==
  ASSUME NEW S, NEW P, NEW V, NEW N, NEW A, NEW U, NEW O, NEW B, NEW K, Rivals(S, P, V, N, A, U, O, B, K),
         NEW n \in V, n \notin B
  PROVE  /\ N[n] # NULL => N[n] \in Merged(V, U, A) /\ K[n] < K[N[n]]
         /\ \A m \in Merged(V, U, A) : K[n] < K[m] => N[n] # NULL /\ K[N[n]] <= K[m]
<1>0. Sorted(S, P, K) /\ Sorted(V, N, K) /\ Sorted(U, O, K)
  BY DEF Rivals
<1>1. ASSUME N[n] # NULL PROVE N[n] \in Merged(V, U, A) /\ K[n] < K[N[n]]
  <2> DEFINE q == N[n]
  <2>1. q \in V /\ K[n] < K[q] /\ K[q] \in Int /\ K[n] \in Int /\ K[HeadNode] <= K[n] /\ K[HeadNode] \in Int
    BY <1>0, <1>1 DEF Sorted
  <2>2. K[HeadNode] < K[q]
    BY <2>1
  <2> HIDE DEF q
  <2>3. PICK p : /\ Before(p, K[q], S, K)
                 /\ \/ /\ p \notin B
                       /\ \A m : K[m] = K[q] => (m \in U <=> m \in S) /\ (m \in Merged(V, U, A) <=> m \in V)
                    \/ /\ p \notin A
                       /\ \A m : K[m] = K[q] => (m \in V <=> m \in S) /\ (m \in Merged(V, U, A) <=> m \in U)
    BY <2>1, <2>2, OneAtAKey
  <2>4. CASE p \notin B
    <3>1. \A m \in U \cup S : K[m] = K[q] => m \in U
      BY <1>0, <2>1, <2>3, <2>4, Untouched DEF Rivals
    <3>2. q \in Merged(V, U, A)
      BY <2>1, <2>3, <3>1
    <3> QED  BY <2>1, <3>2 DEF q
  <2>5. CASE p \in B
    <3>1. p \notin A /\ q \in S
      BY <2>1, <2>3, <2>5
    <3>2. p \in V /\ N[p] = P[p] /\ p \in S /\ K[p] < K[q] /\ K[p] \in Int
      BY <1>0, <2>3, <3>1 DEF Rivals, SameBut, Before, Sorted
    <3>3. P[p] # NULL /\ K[P[p]] <= K[q] /\ P[p] \in S /\ K[p] < K[P[p]] /\ K[P[p]] \in Int
      BY <1>0, <3>1, <3>2 DEF Sorted
    <3>4. K[P[p]] = K[q]
      BY <2>1, <2>3, <3>2, <3>3 DEF Before
    <3>5. n # p
      BY <2>5
    <3>6. K[n] < K[p] \/ K[p] < K[n]
      BY <1>0, <2>1, <3>2, <3>5 DEF Sorted
    <3>7. CASE K[n] < K[p]
      <4>1. K[q] <= K[p]
        BY <1>0, <3>2, <3>7 DEF Sorted, q
      <4> QED  BY <2>1, <3>2, <4>1
    <3>8. CASE K[p] < K[n]
      <4>1. K[P[p]] <= K[n]
        BY <1>0, <3>2, <3>8 DEF Sorted
      <4> QED  BY <2>1, <3>4, <4>1
    <3> QED  BY <3>6, <3>7, <3>8
  <2> QED  BY <2>4, <2>5
<1>2. ASSUME NEW m \in Merged(V, U, A), K[n] < K[m] PROVE N[n] # NULL /\ K[N[n]] <= K[m]
  <2>1. CASE m \in V
    BY <1>0, <1>2, <2>1 DEF Sorted
  <2>2. CASE m \notin V
    <3>1. m \in U /\ K[m] \in Int /\ K[n] \in Int /\ K[HeadNode] <= K[n] /\ K[HeadNode] \in Int
      BY <1>0, <2>2 DEF Merged, Sorted
    <3>2. K[HeadNode] < K[m]
      BY <1>2, <3>1
    <3>3. PICK p : /\ Before(p, K[m], S, K)
                   /\ \/ /\ p \notin B
                         /\ \A e : K[e] = K[m] => (e \in U <=> e \in S) /\ (e \in Merged(V, U, A) <=> e \in V)
                      \/ /\ p \notin A
                         /\ \A e : K[e] = K[m] => (e \in V <=> e \in S) /\ (e \in Merged(V, U, A) <=> e \in U)
      BY <3>1, <3>2, OneAtAKey
    <3>4. p \notin A /\ p \in S /\ K[p] < K[m] /\ m \notin S
      BY <2>2, <3>3 DEF Before
    <3>5. p \in V /\ N[p] = P[p] /\ K[p] \in Int
      BY <1>0, <3>4 DEF Rivals, SameBut, Sorted
    <3>6. p \in B
      BY <2>2, <3>1, <3>3, Untouched DEF Rivals
    <3>7. K[n] < K[p] \/ K[p] < K[n]
      BY <1>0, <3>1, <3>5, <3>6 DEF Sorted
    <3>8. CASE K[n] < K[p]
      <4>1. N[n] # NULL /\ K[N[n]] <= K[p] /\ N[n] \in V /\ K[N[n]] \in Int
        BY <1>0, <3>5, <3>8 DEF Sorted
      <4> QED  BY <3>1, <3>4, <3>5, <4>1
    <3>9. CASE K[p] < K[n]
      <4>1. P[p] # NULL /\ K[P[p]] <= K[n] /\ P[p] \in S /\ K[p] < K[P[p]] /\ K[P[p]] \in Int
        BY <1>0, <3>4, <3>5, <3>9 DEF Sorted
      <4> QED  BY <1>2, <3>1, <3>3, <3>5, <4>1 DEF Before
    <3> QED  BY <3>7, <3>8, <3>9
  <2> QED  BY <2>1, <2>2
<1> QED  BY <1>1, <1>2

\* The merged chain is sorted.
LEMMA MergedSorted ==
  ASSUME NEW S, NEW P, NEW V, NEW N, NEW A, NEW U, NEW O, NEW B, NEW K, Rivals(S, P, V, N, A, U, O, B, K),
         NEW M, \A n \in Merged(V, U, A) : M[n] = IF n \in A THEN N[n] ELSE O[n]
  PROVE  Sorted(Merged(V, U, A), M, K)
<1> DEFINE W == Merged(V, U, A)
<1>1. Rivals(S, P, U, O, B, V, N, A, K)
  BY DEF Rivals
<1>2. W = Merged(U, V, B)
  <2> SUFFICES ASSUME NEW n PROVE n \in W <=> n \in Merged(U, V, B)
    OBVIOUS
  <2> QED  BY DEF Merged, Rivals, SameBut
<1>3. ASSUME NEW n \in W
      PROVE  (n \in V /\ n \notin B /\ M[n] = N[n]) \/ (n \in U /\ n \notin A /\ M[n] = O[n])
  BY DEF Merged, Rivals, SameBut
<1>4. HeadNode \in W /\ \A n \in W : K[n] \in Int /\ K[HeadNode] <= K[n]
  BY DEF Merged, Rivals, Sorted
<1>5. ASSUME NEW n \in W, NEW m \in W, K[n] = K[m] PROVE n = m
  <2>1. CASE K[n] = K[HeadNode]
    BY <1>5, <2>1 DEF Merged, Rivals, Sorted
  <2>2. CASE K[HeadNode] < K[n]
    <3>1. \/ \A e : K[e] = K[n] => (e \in W <=> e \in V)
          \/ \A e : K[e] = K[n] => (e \in W <=> e \in U)
      BY <1>4, <2>2, OneAtAKey
    <3> QED  BY <1>5, <3>1 DEF Rivals, Sorted
  <2> QED  BY <1>4, <2>1, <2>2
<1>6. ASSUME NEW n \in W
      PROVE  /\ M[n] # NULL => M[n] \in W /\ K[n] < K[M[n]]
             /\ \A m \in W : K[n] < K[m] => M[n] # NULL /\ K[M[n]] <= K[m]
  <2>1. CASE n \in V /\ n \notin B /\ M[n] = N[n]
    BY <2>1, MergedAt
  <2>2. CASE n \in U /\ n \notin A /\ M[n] = O[n]
    BY <1>1, <1>2, <2>2, MergedAt
  <2> QED  BY <1>3, <2>1, <2>2
<1> QED  BY <1>4, <1>5, <1>6 DEF Sorted

-----------------------------------------------------------------------------
\* What the walk from the head by the pointers N reaches in up to L steps.
WalkBy(f, N, L) == [i \in 0..L |-> IF i = 0 THEN HeadNode
                                   ELSE IF f[i - 1] = NULL THEN NULL ELSE N[f[i - 1]]]

\* The walk that ChainOf defines by recursion exists.
LEMMA WalkExists == ASSUME NEW N, NEW L \in Nat PROVE \E f : f = WalkBy(f, N, L)
<1> DEFINE S == {m \in Nat : \E f : f = WalkBy(f, N, m)}
<1>1. 0 \in S
  <2> DEFINE g == [i \in 0..0 |-> HeadNode]
  <2>1. g = WalkBy(g, N, 0)
    BY DEF WalkBy
  <2> QED  BY <2>1
<1>2. ASSUME NEW n \in Nat, n \in S PROVE n + 1 \in S
  <2>1. PICK f : f = WalkBy(f, N, n)
    BY <1>2
  <2> DEFINE g == [i \in 0..(n + 1) |-> IF i <= n THEN f[i] ELSE IF f[n] = NULL THEN NULL ELSE N[f[n]]]
  <2>2. ASSUME NEW i \in 0..(n + 1) PROVE g[i] = WalkBy(g, N, n + 1)[i]
    <3>1. CASE i <= n
      <4>1. g[i] = f[i] /\ (i # 0 => g[i - 1] = f[i - 1]) /\ i \in 0..n
        BY <3>1
      <4>2. f[i] = WalkBy(f, N, n)[i]
        BY <2>1
      <4> QED  BY <4>1, <4>2 DEF WalkBy
    <3>2. CASE i = n + 1
      <4>1. g[i - 1] = f[n]
        BY <3>2
      <4> QED  BY <3>2, <4>1 DEF WalkBy
    <3> QED  BY <3>1, <3>2
  <2>3. g = WalkBy(g, N, n + 1)
    BY <2>2 DEF WalkBy
  <2> QED  BY <2>3
<1>3. L \in S
  <2> HIDE DEF S
  <2> QED  BY <1>1, <1>2, SetInduction
<1> QED  BY <1>3

LEMMA ChainWalk ==
  ASSUME NEW N, Len(heap) \in Nat
  PROVE  \E f : /\ f = WalkBy(f, N, Len(heap))
                /\ ChainOf(N) = {n \in Allocated : \E i \in 1..Len(heap) : f[i] = n}
<1> DEFINE nth[i \in 0..Len(heap)] ==
             IF i = 0 THEN HeadNode
             ELSE LET p == nth[i - 1] IN IF p = NULL THEN NULL ELSE N[p]
<1>1. ChainOf(N) = Allocated \cap {nth[i] : i \in 1..Len(heap)}
  BY Zenon DEF ChainOf
<1>2. nth = WalkBy(nth, N, Len(heap))
  <2>1. nth = CHOOSE f : f = WalkBy(f, N, Len(heap))
    BY DEF WalkBy
  <2> HIDE DEF nth
  <2> QED  BY <2>1, WalkExists, Zenon
<1> HIDE DEF nth
<1>3. ChainOf(N) = {n \in Allocated : \E i \in 1..Len(heap) : nth[i] = n}
  BY <1>1
<1> QED  BY <1>2, <1>3

\* A walk whose pointers lead into F from nodes of F only never comes to F.
LEMMA ChainAvoids ==
  ASSUME NEW N, NEW F, Len(heap) \in Nat, HeadNode \in Allocated, HeadNode \notin F, NULL \notin Allocated,
         \A n \in Allocated \ F : N[n] \in (Allocated \ F) \cup {NULL}
  PROVE  ChainOf(N) \cap F = {}
<1>1. PICK L \in Nat : L = Len(heap)
  OBVIOUS
<1>2. PICK f : f = WalkBy(f, N, L) /\ ChainOf(N) = {n \in Allocated : \E i \in 1..L : f[i] = n}
  BY <1>1, ChainWalk
<1>3. \A i \in 0..L : f[i] = IF i = 0 THEN HeadNode ELSE IF f[i - 1] = NULL THEN NULL ELSE N[f[i - 1]]
  <2>1. \A i \in 0..L : WalkBy(f, N, L)[i] = IF i = 0 THEN HeadNode
                                   ELSE IF f[i - 1] = NULL THEN NULL ELSE N[f[i - 1]]
    BY DEF WalkBy
  <2> QED  BY <1>2, <2>1
<1> DEFINE S == {i \in Nat : i <= L => f[i] \in (Allocated \ F) \cup {NULL}}
<1>4. 0 \in S
  BY <1>3
<1>5. ASSUME NEW i \in Nat, i \in S PROVE i + 1 \in S
  <2>1. CASE i + 1 <= L
    <3>1. f[i] \in (Allocated \ F) \cup {NULL} /\ f[i + 1] = IF f[i] = NULL THEN NULL ELSE N[f[i]]
      <4>1. i + 1 # 0 /\ (i + 1) - 1 = i /\ i + 1 \in 0..L /\ i <= L
        BY <2>1
      <4>2. f[i + 1] = IF f[i] = NULL THEN NULL ELSE N[f[i]]
        BY <1>3, <4>1
      <4> QED  BY <1>5, <4>1, <4>2
    <3>2. f[i + 1] \in (Allocated \ F) \cup {NULL}
      BY <3>1
    <3> QED  BY <3>2
  <2> QED  BY <2>1
<1>6. Nat \subseteq S
  <2> HIDE DEF S
  <2> QED  BY <1>4, <1>5, SetInduction
<1>7. \A i \in 1..L : f[i] \in (Allocated \ F) \cup {NULL}
  BY <1>6
<1> QED  BY <1>2, <1>7

\* A walk by pointers that run through V in order stays in V, ...
LEMMA WalkStays ==
  ASSUME NEW V, NEW N, NEW K, Sorted(V, N, K), NEW L \in Nat, NULL \notin V, NEW f, f = WalkBy(f, N, L)
  PROVE  /\ f[0] = HeadNode
         /\ \A i \in 0..L : i + 1 \in 0..L => f[i + 1] = IF f[i] = NULL THEN NULL ELSE N[f[i]]
         /\ \A i \in 0..L : f[i] = NULL \/ (f[i] \in V /\ (i # 0 => f[i] # HeadNode))
<1>1. \A i \in 0..L : f[i] = IF i = 0 THEN HeadNode
                             ELSE IF f[i - 1] = NULL THEN NULL ELSE N[f[i - 1]]
  <2>1. \A i \in 0..L : WalkBy(f, N, L)[i] = IF i = 0 THEN HeadNode
                                   ELSE IF f[i - 1] = NULL THEN NULL ELSE N[f[i - 1]]
    BY DEF WalkBy
  <2> QED  BY <2>1
<1>2. f[0] = HeadNode
  BY <1>1
<1>3. ASSUME NEW i \in 0..L, i + 1 \in 0..L PROVE f[i + 1] = IF f[i] = NULL THEN NULL ELSE N[f[i]]
  <2>1. i + 1 # 0 /\ (i + 1) - 1 = i
    OBVIOUS
  <2> QED  BY <1>1, <1>3, <2>1
<1>4. \A n \in V : N[n] = NULL \/ (N[n] \in V /\ N[n] # HeadNode)
  BY DEF Sorted
<1> DEFINE P(i) == f[i] = NULL \/ (f[i] \in V /\ (i # 0 => f[i] # HeadNode))
           S == {i \in Nat : i <= L => P(i)}
<1>5. 0 \in S
  BY <1>2 DEF Sorted
<1>6. ASSUME NEW i \in Nat, i \in S PROVE i + 1 \in S
  <2>1. CASE i + 1 <= L
    <3>1. P(i) /\ f[i + 1] = IF f[i] = NULL THEN NULL ELSE N[f[i]]
      BY <1>3, <1>6, <2>1
    <3>2. P(i + 1)
      BY <1>4, <3>1
    <3> QED  BY <3>2
  <2> QED  BY <2>1
<1>7. Nat \subseteq S
  <2> HIDE DEF S
  <2> QED  BY <1>5, <1>6, SetInduction
<1>8. \A i \in 0..L : P(i)
  BY <1>7
<1> QED  BY <1>2, <1>3, <1>8

\* ... and, if it never comes by node m, climbs on below m all the way.
LEMMA WalkClimbs ==
  ASSUME NEW V, NEW N, NEW K, Sorted(V, N, K), NEW L \in Nat, NULL \notin V, NEW f, f = WalkBy(f, N, L),
         NEW m \in V \ {HeadNode}, \A i \in 1..L : f[i] # m
  PROVE  \A i, j \in 0..L : f[i] \in V /\ (j < i => K[f[j]] < K[f[i]])
<1>1. /\ f[0] = HeadNode
      /\ \A i \in 0..L : i + 1 \in 0..L => f[i + 1] = IF f[i] = NULL THEN NULL ELSE N[f[i]]
  BY WalkStays
<1>2. HeadNode \in V /\ K[HeadNode] < K[m]
  BY DEF Sorted
<1> DEFINE P(i) == f[i] \in V /\ K[f[i]] < K[m] /\ \A j \in 0..i : j < i => f[j] \in V /\ K[f[j]] < K[f[i]]
           S == {i \in Nat : i <= L => P(i)}
<1>3. 0 \in S
  <2>1. P(0)
    BY <1>1, <1>2
  <2> QED  BY <2>1
<1>4. ASSUME NEW i \in Nat, i \in S PROVE i + 1 \in S
  <2>1. CASE i + 1 <= L
    <3>1. P(i) /\ i \in 0..L /\ i + 1 \in 0..L /\ i + 1 \in 1..L
      BY <1>4, <2>1
    <3>2. f[i + 1] = N[f[i]]
      BY <1>1, <3>1
    <3>3. N[f[i]] # NULL /\ K[N[f[i]]] <= K[m] /\ N[f[i]] \in V /\ K[f[i]] < K[N[f[i]]]
      BY <3>1 DEF Sorted
    <3>4. f[i + 1] \in V /\ K[f[i + 1]] < K[m] /\ K[f[i]] < K[f[i + 1]]
      <4>1. f[i + 1] # m
        BY <3>1
      <4> QED  BY <3>2, <3>3, <4>1 DEF Sorted
    <3>5. ASSUME NEW j \in 0..(i + 1), j < i + 1 PROVE f[j] \in V /\ K[f[j]] < K[f[i + 1]]
      <4>1. CASE j = i
        BY <3>1, <3>4, <4>1
      <4>2. CASE j # i
        <5>1. j \in 0..i /\ j < i
          BY <3>5, <4>2
        <5>2. f[j] \in V /\ K[f[j]] < K[f[i]] /\ f[i] \in V
          BY <3>1, <5>1
        <5> QED  BY <3>4, <5>2 DEF Sorted
      <4> QED  BY <4>1, <4>2
    <3>6. P(i + 1)
      BY <3>4, <3>5
    <3> QED  BY <3>6
  <2> QED  BY <2>1
<1>5. Nat \subseteq S
  <2> HIDE DEF S
  <2> QED  BY <1>3, <1>4, SetInduction
<1>6. \A i \in 0..L : P(i)
  BY <1>5
<1> QED  BY <1>6

\* The chain by pointers that run through V in order is V without the head.
LEMMA ChainIs ==
  ASSUME NEW V, NEW N, NEW K, Sorted(V, N, K), V \subseteq Allocated,
         Len(heap) \in Nat, Allocated = 1..Len(heap)
  PROVE  ChainOf(N) = V \ {HeadNode}
<1>1. PICK L \in Nat : L = Len(heap)
  OBVIOUS
<1>2. PICK f : /\ f = WalkBy(f, N, L)
               /\ ChainOf(N) = {n \in Allocated : \E i \in 1..L : f[i] = n}
  BY <1>1, ChainWalk
<1>3. V \subseteq 1..L /\ Allocated = 1..L /\ NULL \notin V /\ NULL \notin Allocated
  BY <1>1 DEF NULL
<1>4. \A i \in 0..L : f[i] = NULL \/ (f[i] \in V /\ (i # 0 => f[i] # HeadNode))
  BY <1>2, <1>3, WalkStays
<1>5. ASSUME NEW m \in V \ {HeadNode}, \A i \in 1..L : f[i] # m PROVE FALSE
  <2>1. \A i, j \in 0..L : f[i] \in V /\ (j < i => K[f[j]] < K[f[i]])
    BY <1>2, <1>3, <1>5, WalkClimbs
  <2>2. \A i, j \in 0..L : i # j => f[i] # f[j]
    <3> SUFFICES ASSUME NEW i \in 0..L, NEW j \in 0..L, j < i PROVE f[i] # f[j]
      OBVIOUS
    <3>1. K[f[j]] < K[f[i]] /\ K[f[j]] \in Int /\ K[f[i]] \in Int
      BY <2>1 DEF Sorted
    <3> QED  BY <3>1
  <2> DEFINE g == [i \in 0..L |-> f[i]]
  <2>3. g \in [0..L -> 1..L] /\ \A i, j \in 0..L : i # j => g[i] # g[j]
    BY <1>3, <2>1, <2>2
  <2>4. IsFiniteSet(0..L) /\ IsFiniteSet(1..L) /\ Cardinality(1..L) < Cardinality(0..L)
    <3>1. 0 \in Int /\ 1 \in Int /\ L \in Int
      OBVIOUS
    <3>2. IsFiniteSet(0..L) /\ Cardinality(0..L) = IF 0 > L THEN 0 ELSE L - 0 + 1
      BY <3>1, FS_Interval, Zenon
    <3>3. IsFiniteSet(1..L) /\ Cardinality(1..L) = IF 1 > L THEN 0 ELSE L - 1 + 1
      BY <3>1, FS_Interval, Zenon
    <3> QED  BY <3>2, <3>3
  <2> DEFINE A == 0..L
             B == 1..L
  <2>5. g \in [A -> B] /\ IsFiniteSet(A) /\ IsFiniteSet(B) /\ Cardinality(B) < Cardinality(A)
    BY <2>3, <2>4
  <2> HIDE DEF g, A, B
  <2>6. \E i, j \in A : i # j /\ g[i] = g[j]
    BY <2>5, FS_PigeonHole
  <2> QED  BY <2>3, <2>6 DEF A
<1>6. ASSUME NEW n PROVE n \in ChainOf(N) <=> n \in V \ {HeadNode}
  <2>1. CASE n \in ChainOf(N)
    <3>1. n \in 1..L /\ \E i \in 1..L : f[i] = n
      BY <1>2, <1>3, <2>1
    <3>2. n # NULL
      BY <1>3, <3>1
    <3> QED  BY <1>4, <2>1, <3>1, <3>2
  <2>2. CASE n \in V \ {HeadNode}
    BY <1>2, <1>3, <1>5, <2>2
  <2> QED  BY <2>1, <2>2
<1> QED  BY <1>6
-----------------------------------------------------------------------------
\* The pointers N of R's nodes show whether S has key k: one of them leads across k.
Spanned(S, N, K, R, k) == \E q \in S \cap R : N[q] # NULL /\ K[q] < k /\ k <= K[N[q]]

LEMMA SpannedSame ==
  ASSUME NEW S, NEW N, NEW K, NEW R, NEW k, NEW M, NEW J, NEW Q, Sorted(S, N, K), Spanned(S, N, K, R, k),
         R \subseteq Q, \A n \in S : M[n] = N[n] /\ J[n] = K[n]
  PROVE  Spanned(S, M, J, Q, k)
<1>1. PICK q \in S \cap R : N[q] # NULL /\ K[q] < k /\ k <= K[N[q]]
  BY DEF Spanned
<1>2. N[q] \in S /\ M[q] = N[q] /\ J[q] = K[q]
  BY <1>1 DEF Sorted
<1>3. J[N[q]] = K[N[q]]
  BY <1>2
<1>4. q \in S \cap Q /\ M[q] # NULL /\ J[q] < k /\ k <= J[M[q]]
  BY <1>1, <1>2, <1>3
<1> QED  BY <1>4 DEF Spanned

\* V has been made of S by nodes of F, which were put where the pointers of R led across
\* their keys, and without nodes of R.  Whoever stops at p in V knows whether S has k.
Derived(S, N, V, F, K, R) ==
    /\ S \cap F = {} /\ V \subseteq S \cup F /\ \A n \in S : n \in V \/ n \in R
    /\ \A n \in F : Spanned(S, N, K, R, K[n])

LEMMA StopSpanned ==
  ASSUME NEW S, NEW N, NEW V, NEW M, NEW K, NEW F, NEW R, NEW k \in Int, NEW p \in V, NEW z \in S,
         Sorted(S, N, K), Sorted(V, M, K), Derived(S, N, V, F, K, R), K[HeadNode] < k, k <= K[z],
         p \in R, K[p] < k, M[p] # NULL, k <= K[M[p]]
  PROVE  Spanned(S, N, K, R, k)
<1>1. PICK q : Before(q, k, S, K)
  BY BeforeExists DEF Sorted
<1>2. /\ q \in S /\ K[q] \in Int /\ K[q] < k /\ \A m \in S : K[m] < k => K[m] <= K[q]
      /\ \A n \in S \cup V : K[n] \in Int
  BY <1>1 DEF Before, Sorted
<1>3. N[q] # NULL /\ k <= K[N[q]]
  <2>1. K[q] < K[z]
    BY <1>2
  <2>2. N[q] # NULL
    BY <1>2, <2>1 DEF Sorted
  <2>3. N[q] \in S /\ K[q] < K[N[q]]
    BY <1>2, <2>2 DEF Sorted
  <2>4. K[N[q]] \in Int
    BY <1>2, <2>3
  <2> QED  BY <1>2, <2>2, <2>3, <2>4
<1>4. q \in R
  <2>1. CASE q \notin V
    BY <1>2, <2>1 DEF Derived
  <2>2. CASE q \in V
    <3>1. K[q] <= K[p]
      <4> SUFFICES ASSUME K[p] < K[q] PROVE FALSE
        BY <1>2
      <4>1. K[M[p]] <= K[q] /\ M[p] \in V
        BY <2>2 DEF Sorted
      <4> QED  BY <1>2, <4>1
    <3>2. CASE p \in S
      <4>1. K[p] = K[q]
        BY <1>2, <3>1, <3>2
      <4>2. p = q
        BY <1>2, <3>2, <4>1 DEF Sorted
      <4> QED  BY <4>2
    <3>3. CASE p \notin S
      <4>1. p \in F /\ q # p
        BY <1>2, <3>3 DEF Derived
      <4>2. K[q] < K[p]
        <5>1. K[q] # K[p]
          BY <2>2, <4>1 DEF Sorted
        <5> QED  BY <1>2, <3>1, <5>1
      <4>3. PICK r \in S \cap R : N[r] # NULL /\ K[r] < K[p] /\ K[p] <= K[N[r]]
        BY <4>1 DEF Derived, Spanned
      <4>4. K[r] <= K[q] /\ K[r] \in Int
        BY <1>2, <4>3
      <4>5. ~(K[r] < K[q])
        <5> SUFFICES ASSUME K[r] < K[q] PROVE FALSE
          OBVIOUS
        <5>1. K[N[r]] <= K[q] /\ N[r] \in S
          BY <1>2, <4>3 DEF Sorted
        <5> QED  BY <1>2, <4>2, <4>3, <5>1
      <4>6. r = q
        BY <1>2, <4>3, <4>4, <4>5 DEF Sorted
      <4> QED  BY <4>3, <4>6
    <3> QED  BY <3>2, <3>3
  <2> QED  BY <2>1, <2>2
<1> QED  BY <1>2, <1>3, <1>4 DEF Spanned

\* Where a pointer of R's nodes led across k and is as it was, another list has k just
\* when this one has it.
LEMMA SpannedAgree ==
  ASSUME NEW S, NEW N, NEW U, NEW O, NEW K, NEW R, NEW k \in Int, Sorted(S, N, K), Sorted(U, O, K),
         Spanned(S, N, K, R, k), \A n \in S \cap R : n \in U /\ O[n] = N[n]
  PROVE  \A m : K[m] = k => (m \in S <=> m \in U)
<1>1. PICK q \in S \cap R : N[q] # NULL /\ K[q] < k /\ k <= K[N[q]]
  BY DEF Spanned
<1>2. q \in S /\ q \in U /\ O[q] = N[q] /\ N[q] \in S /\ N[q] \in U /\ K[N[q]] \in Int
  BY <1>1 DEF Sorted
<1>3. ASSUME NEW W, NEW P, Sorted(W, P, K), q \in W, P[q] = N[q], NEW m \in W, K[m] = k PROVE m = N[q]
  <2>1. K[N[q]] <= K[m] /\ N[q] \in W
    BY <1>1, <1>3 DEF Sorted
  <2>2. K[N[q]] = K[m]
    BY <1>1, <1>2, <1>3, <2>1
  <2> QED  BY <1>3, <2>1, <2>2 DEF Sorted
<1> TAKE m
<1> HAVE K[m] = k
<1>4. m \in S => m = N[q]
  BY <1>2, <1>3
<1>5. m \in U => m = N[q]
  BY <1>2, <1>3
<1> QED  BY <1>2, <1>4, <1>5
=============================================================================
