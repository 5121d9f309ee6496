------------------------- MODULE MemoryAllocatorProofs -------------------------
(***************************************************************************)
(* Proofs about MemoryAllocator, for words of any width, any heap and any  *)
(* lengths that do not wrap: its list of headers stays in order under all  *)
(* of its loops and the recursion of free_by_parent, and it implements     *)
(* DosHeap, whose invariants (DosHeapProofs) are used in turn.             *)
(***************************************************************************)
EXTENDS MemoryAllocator, FiniteSetTheorems, TLAPS

HP == INSTANCE DosHeapProofs WITH blocks <- HeapBlocks, ret <- HeapRet

(* What callers must not do: ask for lengths near the end of the words     *)
(* (allocator_wrap shows what comes of it).                                *)
NoWrap ==
  \A len \in Lengths : /\ len + HeaderSize < W
                       /\ \A p \in Pointers : p + len < W

(* Words.                                                                  *)
LEMMA Words ==
  /\ W \in Nat /\ W >= 16 /\ W % 16 = 0
  /\ Root \in Nat /\ Root > 0 /\ Root % 16 = 0
  /\ Limit \in Nat /\ Limit % 16 = 0 /\ Root + 16 <= Limit /\ Limit + 16 <= W
  /\ Pointers \subseteq 0 .. W - 1 /\ Lengths \subseteq 0 .. W - 1
<1> USE AllocatorAssumption
<1>1. W \in Nat /\ W > 1 /\ W % 16 = 0 /\ Address \in Nat /\ Lim \in Nat /\ Lim < W
  BY DEF HeaderSize
<1>2. Limit \in Nat /\ Limit % 16 = 0 /\ Limit <= Lim
  BY <1>1 DEF Limit, AlignDown, HeaderSize
<1>3. Root \in Nat /\ Root % 16 = 0
  <2>1. Plus(Address, 15) \in 0 .. W - 1
    BY <1>1 DEF Plus
  <2>2. QED BY <2>1 DEF Root, AlignUp, HeaderSize
<1>4. Limit + 16 <= W
  BY <1>1, <1>2
<1>5. QED BY <1>1, <1>2, <1>3, <1>4 DEF HeaderSize

(* Sums and differences that stay among the words.                         *)
LEMMA NoWrapping ==
  ASSUME NEW a \in Nat, NEW b \in Nat
  PROVE  /\ a + b < W => Plus(a, b) = a + b
         /\ a < W /\ b <= a => Minus(a, b) = a - b
         /\ Plus(a, b) \in 0 .. W - 1 /\ Minus(a, b) \in 0 .. W - 1
BY Words DEF Plus, Minus

(* DosHeap's constants are the same, and its assumption follows.           *)
LEMMA HeapAssumed ==
  /\ Address \in Nat \ {0} /\ Lim \in Nat /\ HP!Root + HP!HeaderSize <= HP!Limit
  /\ Lengths \subseteq Nat /\ Pointers \subseteq Nat
  /\ HP!Root = Root /\ HP!Limit = Limit /\ HP!HeaderSize = 16 /\ HeaderSize = 16
<1> USE AllocatorAssumption
<1>1. Limit = HP!Limit
  BY DEF Limit, AlignDown, HeaderSize, HP!Limit, HP!AlignDown, HP!HeaderSize
<1>2. Address + 15 < W
  <2>1. SUFFICES ASSUME Address + 15 >= W PROVE FALSE
    BY Words
  <2>2. Plus(Address, 15) = Address + 15 - W
    BY <2>1, Words DEF Plus
  <2>3. Root = 0
    BY <2>1, <2>2, Words DEF Root, AlignUp, HeaderSize
  <2>4. QED BY <2>3
<1>3. Plus(Address, 15) = Address + 15
  BY <1>2, NoWrapping
<1>4. Root = HP!Root
  BY <1>3 DEF Root, AlignUp, HeaderSize, HP!Root, HP!AlignUp, HP!HeaderSize
<1>5. QED BY <1>1, <1>4, Words DEF HeaderSize, HP!HeaderSize

(* Induction: a set with 0 and the successor of each of its elements has   *)
(* every natural number.                                                   *)
LEMMA SetInduction ==
  ASSUME NEW S, 0 \in S, \A n \in S \cap Nat : n + 1 \in S
  PROVE  Nat \subseteq S
<1>1. SUFFICES ASSUME Nat \ S # {}
               PROVE  FALSE
  OBVIOUS
<1>2. PICK n \in Nat \ S : \A m \in Nat \ S : n <= m
  BY <1>1, HeapAssumed, HP!LeastNumber
<1>3. n # 0 /\ n - 1 \in Nat /\ ~ (n <= n - 1)
  BY <1>2
<1>4. n - 1 \in S \cap Nat
  BY <1>2, <1>3
<1>5. (n - 1) + 1 \in S
  BY <1>4
<1>6. QED
  BY <1>5, (n - 1) + 1 = n

(* A function can be applied any number of times.                          *)
Iterates(f, X, x, F) == f \in [Nat -> X] /\ f[0] = x /\ \A n \in Nat : f[n + 1] = F[f[n]]

LEMMA Iteration ==
  ASSUME NEW X, NEW x \in X, NEW F \in [X -> X]
  PROVE  \E f : Iterates(f, X, x, F)
<1> DEFINE Prefix(k, g) ==
             g \in [0 .. k -> X] /\ g[0] = x /\ \A n \in 0 .. k : n # k => g[n + 1] = F[g[n]]
           S == {k \in Nat : \E g : Prefix(k, g)}
<1>1. 0 \in S
  <2>1. Prefix(0, [n \in 0 .. 0 |-> x])
    OBVIOUS
  <2>2. QED BY <2>1, Zenon
<1>2. ASSUME NEW k \in S \cap Nat
      PROVE  k + 1 \in S
  <2>1. PICK g : Prefix(k, g)
    BY Zenon
  <2> DEFINE h == [n \in 0 .. k + 1 |-> IF n = k + 1 THEN F[g[k]] ELSE g[n]]
  <2>2. g[k] \in X /\ F[g[k]] \in X
    BY <2>1
  <2>3. h \in [0 .. k + 1 -> X]
    BY <2>1, <2>2
  <2>4. h[0] = x
    BY <2>1
  <2>5. ASSUME NEW n \in 0 .. k + 1, n # k + 1 PROVE h[n + 1] = F[h[n]]
    <3>1. CASE n = k
      BY <3>1
    <3>2. CASE n # k
      <4>1. n \in 0 .. k /\ n + 1 \in 0 .. k + 1 /\ n + 1 # k + 1
        BY <2>5, <3>2
      <4>2. QED BY <4>1, <3>2, <2>1
    <3>3. QED BY <3>1, <3>2
  <2> HIDE DEF h
  <2>6. Prefix(k + 1, h)
    BY <2>3, <2>4, <2>5
  <2>7. \E g1 : Prefix(k + 1, g1)
    <3> HIDE DEF Prefix
    <3> QED BY <2>6, Zenon
  <2>8. k + 1 \in Nat
    OBVIOUS
  <2>9. QED BY <2>7, <2>8, Zenon
<1>3. Nat \subseteq S
  <2> HIDE DEF S
  <2> QED BY <1>1, <1>2, SetInduction
<1>4. ASSUME NEW k \in Nat, NEW j \in Nat, k <= j, NEW g, Prefix(k, g), NEW h, Prefix(j, h)
      PROVE  \A n \in 0 .. k : g[n] = h[n]
  <2> DEFINE T == {n \in Nat : n <= k => g[n] = h[n]}
  <2>1. 0 \in T
    BY <1>4
  <2>2. ASSUME NEW n \in T \cap Nat
        PROVE  n + 1 \in T
    <3>1. SUFFICES ASSUME n + 1 <= k PROVE g[n + 1] = h[n + 1]
      OBVIOUS
    <3>2. n \in 0 .. k /\ n \in 0 .. j /\ n # k /\ n # j
      BY <1>4, <3>1
    <3>3. QED BY <1>4, <3>2
  <2>3. Nat \subseteq T
    <3> HIDE DEF T
    <3> QED BY <2>1, <2>2, SetInduction
  <2>4. QED BY <2>3
<1> DEFINE G(k) == CHOOSE g : Prefix(k, g)
           f == [k \in Nat |-> G(k)[k]]
<1>5. \A k \in Nat : Prefix(k, G(k))
  BY <1>3, Zenon
<1> HIDE DEF G
<1>6. f \in [Nat -> X]
  <2>1. ASSUME NEW k \in Nat PROVE G(k)[k] \in X
    <3>1. G(k) \in [0 .. k -> X] /\ k \in 0 .. k
      BY <1>5
    <3>2. QED BY <3>1
  <2>2. QED BY <2>1
<1>7. f[0] = x
  BY <1>5
<1>8. ASSUME NEW n \in Nat PROVE f[n + 1] = F[f[n]]
  <2>1. Prefix(n + 1, G(n + 1)) /\ Prefix(n, G(n)) /\ n + 1 \in Nat /\ n <= n + 1 /\ n \in 0 .. n
    BY <1>5
  <2>2. G(n)[n] = G(n + 1)[n]
    <3> HIDE DEF Prefix
    <3> QED BY <1>4, <2>1
  <2>3. G(n + 1)[n + 1] = F[G(n + 1)[n]]
    BY <2>1
  <2>4. QED BY <2>2, <2>3
<1>9. Iterates(f, X, x, F)
  <2> HIDE DEF f
  <2> QED BY <1>6, <1>7, <1>8 DEF Iterates
<1>10. QED BY <1>9, Zenon
-----------------------------------------------------------------------------
(* The headers linked from l in m, as Linked has them for mem and last.    *)
Farther(m, T) == T \cup ({m[b].prev : b \in T} \cap DOMAIN m)

Reach(m, l) ==
  LET within[n \in Nat] ==
        IF n = 0 THEN {l}
        ELSE LET nearer == within[n - 1] IN
             nearer \cup ({m[b].prev : b \in nearer} \cap DOMAIN m)
  IN within[Cardinality(DOMAIN m)]

LEMMA ReachSteps ==
  ASSUME NEW m, NEW l, Cardinality(DOMAIN m) \in Nat
  PROVE  \E f \in [Nat -> SUBSET (DOMAIN m \cup {l})] :
           /\ f[0] = {l}
           /\ \A n \in Nat : f[n + 1] = Farther(m, f[n])
           /\ Reach(m, l) = f[Cardinality(DOMAIN m)]
<1> DEFINE X == SUBSET (DOMAIN m \cup {l})
           F == [T \in X |-> Farther(m, T)]
           w == CHOOSE within : within =
                  [n \in Nat |-> IF n = 0 THEN {l}
                                 ELSE LET nearer == within[n - 1] IN
                                      nearer \cup ({m[b].prev : b \in nearer} \cap DOMAIN m)]
<1>1. F \in [X -> X] /\ {l} \in X
  BY DEF Farther
<1>2. PICK f : Iterates(f, X, {l}, F)
  <2> HIDE DEF X, F
  <2> QED BY <1>1, Iteration, Zenon
<1>3. f[0] = {l} /\ f \in [Nat -> X] /\ \A n \in Nat : f[n + 1] = Farther(m, f[n])
  BY <1>2 DEF Iterates
<1>4. f = [n \in Nat |-> IF n = 0 THEN {l}
                         ELSE LET nearer == f[n - 1] IN
                              nearer \cup ({m[b].prev : b \in nearer} \cap DOMAIN m)]
  <2>1. ASSUME NEW n \in Nat, n # 0
        PROVE  f[n] = f[n - 1] \cup ({m[b].prev : b \in f[n - 1]} \cap DOMAIN m)
    <3>1. n - 1 \in Nat /\ (n - 1) + 1 = n
      BY <2>1
    <3>2. f[n] = Farther(m, f[n - 1])
      BY <1>3, <3>1
    <3>3. QED BY <3>2 DEF Farther
  <2>2. QED BY <1>3, <2>1
<1>5. w = [n \in Nat |-> IF n = 0 THEN {l}
                         ELSE LET nearer == w[n - 1] IN
                              nearer \cup ({m[b].prev : b \in nearer} \cap DOMAIN m)]
  BY <1>4, Zenon
<1>6. Reach(m, l) = w[Cardinality(DOMAIN m)]
  BY DEF Reach
<1> HIDE DEF w
<1>7. w[0] = {l} /\ \A n \in Nat : w[n + 1] = Farther(m, w[n])
  <2>1. w[0] = {l}
    BY <1>5
  <2>2. ASSUME NEW n \in Nat PROVE w[n + 1] = Farther(m, w[n])
    <3>1. n + 1 \in Nat /\ n + 1 # 0 /\ (n + 1) - 1 = n
      OBVIOUS
    <3>2. w[n + 1] = w[n] \cup ({m[b].prev : b \in w[n]} \cap DOMAIN m)
      BY <1>5, <3>1
    <3>3. QED BY <3>2 DEF Farther
  <2>3. QED BY <2>1, <2>2
<1>8. w \in [Nat -> X]
  <2> DEFINE T == {n \in Nat : w[n] \in X}
  <2>1. 0 \in T
    BY <1>1, <1>7
  <2>2. ASSUME NEW n \in T \cap Nat PROVE n + 1 \in T
    BY <1>7 DEF Farther
  <2>3. Nat \subseteq T
    <3> HIDE DEF T
    <3> QED BY <2>1, <2>2, SetInduction
  <2>4. w = [n \in Nat |-> w[n]]
    BY <1>5
  <2>5. QED BY <2>3, <2>4
<1>9. QED BY <1>6, <1>7, <1>8

LEMMA LinkedIsReach == Linked = Reach(mem, last)
BY DEF Linked, Reach
-----------------------------------------------------------------------------
(* A list of the headers S of m, in the order of their addresses, from the *)
(* root to l: each prev is the greatest header below, each next the least  *)
(* above.                                                                  *)
Typed(m) == m \in [DOMAIN m -> [prev : Nat, parent : Nat, end : Nat, next : Nat]]

IsList(m, l, S) ==
  /\ IsFiniteSet(DOMAIN m) /\ DOMAIN m \subseteq Nat \ {0} /\ S \subseteq DOMAIN m
  /\ Root \in S /\ m[Root].prev = 0
  /\ l \in S /\ m[l].next = 0
  /\ \A b \in S : Root <= b /\ b <= l
  /\ \A b \in S \ {Root} :
       m[b].prev \in S /\ m[b].prev < b /\ \A c \in S : c < b => c <= m[b].prev
  /\ \A b \in S \ {l} :
       m[b].next \in S /\ b < m[b].next /\ \A c \in S : b < c => m[b].next <= c

(* The links from l reach exactly the headers of the list.                 *)
LEMMA ListReached ==
  ASSUME NEW m, NEW l, NEW S, IsList(m, l, S)
  PROVE  Reach(m, l) = S
<1> DEFINE N == Cardinality(DOMAIN m)
           Above(b) == {c \in S : b < c}
<1>1. /\ S \subseteq Nat \ {0} /\ S \subseteq DOMAIN m /\ l \in S /\ N \in Nat
      /\ IsFiniteSet(S) /\ Cardinality(S) \in Nat /\ Cardinality(S) <= N
      /\ 0 \notin DOMAIN m
  BY FS_CardinalityType, FS_Subset DEF IsList
<1>2. PICK f \in [Nat -> SUBSET (DOMAIN m \cup {l})] :
         /\ f[0] = {l}
         /\ \A n \in Nat : f[n + 1] = Farther(m, f[n])
         /\ Reach(m, l) = f[N]
  BY <1>1, ReachSteps
<1> HIDE DEF N
<1>3. \A n \in Nat : f[n] \subseteq S
  <2> DEFINE T == {n \in Nat : f[n] \subseteq S}
  <2>1. 0 \in T
    BY <1>1, <1>2
  <2>2. ASSUME NEW n \in T \cap Nat PROVE n + 1 \in T
    <3>1. f[n + 1] = f[n] \cup ({m[b].prev : b \in f[n]} \cap DOMAIN m)
      BY <1>2 DEF Farther
    <3>2. \A b \in S : m[b].prev \in S \cup {0}
      BY DEF IsList
    <3>3. f[n] \subseteq S
      OBVIOUS
    <3>4. f[n + 1] \subseteq S
      BY <3>1, <3>2, <3>3, <1>1
    <3>5. QED BY <3>4
  <2>3. Nat \subseteq T
    <3> HIDE DEF T
    <3> QED BY <2>1, <2>2, SetInduction
  <2>4. QED BY <2>3
<1>4. ASSUME NEW n \in Nat PROVE f[n] \subseteq f[n + 1]
  BY <1>2 DEF Farther
(* The headers with n above them are reached in n steps.                   *)
<1>5. \A n \in Nat : \A b \in S : Cardinality(Above(b)) <= n => b \in f[n]
  <2> DEFINE T == {n \in Nat : \A b \in S : Cardinality(Above(b)) <= n => b \in f[n]}
  <2>above. \A b \in S : IsFiniteSet(Above(b)) /\ Cardinality(Above(b)) \in Nat
    <3>1. \A b \in S : Above(b) \subseteq S
      OBVIOUS
    <3> HIDE DEF Above
    <3> QED BY <3>1, <1>1, FS_Subset, FS_CardinalityType
  <2>1. 0 \in T
    <3>1. ASSUME NEW b \in S, Cardinality(Above(b)) <= 0 PROVE b \in f[0]
      <4>1. Above(b) = {}
        <5> HIDE DEF Above
        <5> QED BY <2>above, <3>1, FS_EmptySet
      <4>2. ~ (b < l)
        BY <4>1, <1>1
      <4>3. b <= l
        BY DEF IsList
      <4>4. QED BY <4>2, <4>3, <1>1, <1>2
    <3>2. QED BY <3>1
  <2>2. ASSUME NEW n \in T \cap Nat PROVE n + 1 \in T
    <3>1. ASSUME NEW b \in S, Cardinality(Above(b)) <= n + 1 PROVE b \in f[n + 1]
      <4>1. CASE b = l
        <5>1. Above(l) = {}
          BY <1>1 DEF IsList
        <5>2. Cardinality(Above(b)) <= n
          <6> HIDE DEF Above
          <6> QED BY <4>1, <5>1, FS_EmptySet
        <5>3. b \in f[n]
          BY <5>2
        <5>4. QED BY <5>3, <1>4
      <4>2. CASE b # l
        <5> DEFINE c == m[b].next
        <5>1. c \in S /\ b < c /\ \A d \in S : b < d => c <= d
          BY <4>2 DEF IsList
        <5>2. c # Root
          BY <5>1, <1>1, Words DEF IsList
        <5>3. m[c].prev = b
          <6>1. m[c].prev \in S /\ m[c].prev < c /\ b <= m[c].prev
            BY <5>1, <5>2 DEF IsList
          <6>2. b < m[c].prev => c <= m[c].prev
            BY <5>1, <6>1
          <6> HIDE DEF c
          <6>3. b \in Nat /\ c \in Nat /\ m[c].prev \in Nat
            BY <5>1, <6>1, <1>1
          <6>4. QED BY <6>1, <6>2, <6>3
        <5> HIDE DEF c
        <5>4. Above(c) = Above(b) \ {c} /\ c \in Above(b)
          <6>1. \A d \in S : c < d <=> b < d /\ d # c
            BY <5>1, <1>1
          <6>2. QED BY <6>1, <5>1
        <5>5. Cardinality(Above(c)) <= n
          <6> HIDE DEF Above
          <6>1. Cardinality(Above(c)) = Cardinality(Above(b)) - 1
            BY <5>4, <2>above, FS_RemoveElement
          <6>2. QED BY <6>1, <3>1, <2>above
        <5>6. c \in f[n]
          BY <5>1, <5>5
        <5>7. b \in {m[d].prev : d \in f[n]} \cap DOMAIN m
          BY <5>3, <5>6, <1>1
        <5>8. QED BY <5>7, <1>2 DEF Farther
      <4>3. QED BY <4>1, <4>2
    <3> HIDE DEF Above
    <3>2. QED BY <3>1
  <2>3. Nat \subseteq T
    <3> HIDE DEF T
    <3> QED BY <2>1, <2>2, SetInduction
  <2>4. QED BY <2>3
<1>6. ASSUME NEW b \in S PROVE b \in f[N]
  <2>1. Above(b) \subseteq S
    OBVIOUS
  <2> HIDE DEF Above
  <2>2. Cardinality(Above(b)) <= N
    <3>1. Cardinality(Above(b)) <= Cardinality(S)
      BY <2>1, <1>1, FS_Subset
    <3>2. Cardinality(Above(b)) \in Nat
      BY <2>1, <1>1, FS_Subset, FS_CardinalityType
    <3>3. QED BY <3>1, <3>2, <1>1
  <2>3. QED BY <2>2, <1>1, <1>5
<1>7. QED BY <1>1, <1>2, <1>3, <1>6
(* Only the links matter, and only those of the listed headers.            *)
LEMMA SameLinks ==
  ASSUME NEW m, NEW l, NEW S, IsList(m, l, S),
         NEW n, DOMAIN n \subseteq DOMAIN m, S \subseteq DOMAIN n,
         \A b \in S : n[b].prev = m[b].prev /\ n[b].next = m[b].next
  PROVE  IsList(n, l, S)
<1>1. IsFiniteSet(DOMAIN n)
  BY FS_Subset DEF IsList
<1>2. QED BY <1>1 DEF IsList

(* make_block in the gap between a header and the next.                    *)
LEMMA MakeBlockList ==
  ASSUME Typed(mem), IsList(mem, last, Linked),
         NEW p \in Linked, NEW new \in Nat, NEW len \in Nat, NEW parent \in Nat,
         p < new, new \notin DOMAIN mem, \A c \in Linked : p < c => new < c,
         MakeBlock(new, len, p, parent)
  PROVE  /\ IsList(mem', last', Linked \cup {new})
         /\ DOMAIN mem' = DOMAIN mem \cup {new}
         /\ Typed(mem')
         /\ mem'[new].end = Plus(new, len) /\ mem'[new].parent = parent
         /\ \A b \in DOMAIN mem : mem'[b].end = mem[b].end /\ mem'[b].parent = mem[b].parent
         /\ last' \in {last, new}
         /\ \A b \in DOMAIN mem' :
              mem'[b].prev \in {p, new} \cup {mem[c].prev : c \in DOMAIN mem} /\
              mem'[b].next \in {new} \cup {mem[c].next : c \in DOMAIN mem}
<1> DEFINE n == mem[p].next
           D == DOMAIN mem
<1>1. /\ Linked \subseteq D /\ D \subseteq Nat \ {0} /\ p \in D /\ p # new /\ IsFiniteSet(D)
      /\ \A b \in D : mem[b] \in [prev : Nat, parent : Nat, end : Nat, next : Nat]
  BY DEF IsList, Typed
<1>2. n # 0 => n \in Linked /\ p < n /\ n # new /\ p # last /\ new < n
  BY <1>1 DEF IsList
<1>3. n = 0 => p = last
  BY <1>1 DEF IsList
<1>4. Plus(new, len) \in Nat
  BY NoWrapping
<1>5. /\ DOMAIN mem' = D \cup {new}
      /\ mem'[new] = [prev |-> p, parent |-> parent, end |-> Plus(new, len), next |-> n]
      /\ mem'[p] = [mem[p] EXCEPT !.next = new]
      /\ n # 0 => mem'[n] = [mem[n] EXCEPT !.prev = new] /\ last' = last
      /\ n = 0 => last' = new
      /\ \A b \in D \ {p, n} : mem'[b] = mem[b]
  <2>1. CASE n # 0
    <3>1. /\ mem' = [[[b \in DOMAIN mem \cup {new} |->
                   IF b = new THEN Header(p, parent, Plus(new, len), n)
                                ELSE mem[b]] EXCEPT ![p].next = new] EXCEPT ![n].prev = new]
          /\ last' = last
      BY <2>1 DEF MakeBlock
    <3>2. n \in D /\ n # p /\ n # new
      BY <1>1, <1>2, <2>1
    <3> HIDE DEF n
    <3>3. QED BY <3>1, <3>2, <1>1, <2>1 DEF Header
  <2>2. CASE n = 0
    <3>1. /\ mem' = [[b \in DOMAIN mem \cup {new} |->
                   IF b = new THEN Header(p, parent, Plus(new, len), n)
                                ELSE mem[b]] EXCEPT ![p].next = new]
          /\ last' = new
      BY <2>2 DEF MakeBlock
    <3> HIDE DEF n
    <3>3. QED BY <3>1, <1>1, <2>2 DEF Header
  <2>3. QED BY <2>1, <2>2
<1>6. n \in Nat
  BY <1>1
<1>7. n # 0 => n \in D
  BY <1>1, <1>2
<1> HIDE DEF n
<1>8. \A b \in D : /\ mem'[b].end = mem[b].end /\ mem'[b].parent = mem[b].parent
                   /\ mem'[b] \in [prev : Nat, parent : Nat, end : Nat, next : Nat]
                   /\ mem'[b].prev = IF b = n THEN new ELSE mem[b].prev
                   /\ mem'[b].next = IF b = p THEN new ELSE mem[b].next
  <2>1. SUFFICES ASSUME NEW b \in D
                 PROVE  /\ mem'[b].end = mem[b].end /\ mem'[b].parent = mem[b].parent
                        /\ mem'[b] \in [prev : Nat, parent : Nat, end : Nat, next : Nat]
                        /\ mem'[b].prev = IF b = n THEN new ELSE mem[b].prev
                        /\ mem'[b].next = IF b = p THEN new ELSE mem[b].next
    OBVIOUS
  <2>2. CASE b = p
    BY <2>2, <1>1, <1>2, <1>5
  <2>3. CASE b = n
    BY <2>3, <1>1, <1>2, <1>5
  <2>4. CASE b # p /\ b # n
    BY <2>4, <1>1, <1>5
  <2>5. QED BY <2>2, <2>3, <2>4
<1>9. Typed(mem')
  <2>1. \A b \in DOMAIN mem' : mem'[b] \in [prev : Nat, parent : Nat, end : Nat, next : Nat]
    BY <1>1, <1>4, <1>5, <1>6, <1>8
  <2>2. mem' = [b \in DOMAIN mem' |-> mem'[b]]
    BY DEF MakeBlock
  <2>3. QED BY <2>1, <2>2 DEF Typed
<1>10. IsList(mem', last', Linked \cup {new})
  <2> DEFINE S == Linked \cup {new}
  <2>1. /\ Linked \subseteq Nat /\ Root \in Linked /\ last \in Linked
        /\ mem[Root].prev = 0 /\ mem[last].next = 0 /\ Root \in Nat /\ last \in Nat
        /\ \A b \in Linked : Root <= b /\ b <= last
    BY <1>1 DEF IsList
  <2>2. IsFiniteSet(DOMAIN mem') /\ DOMAIN mem' \subseteq Nat \ {0} /\ S \subseteq DOMAIN mem'
    <3>1. new # 0
      BY <1>1
    <3>2. IsFiniteSet(D \cup {new})
      BY <1>1, FS_AddElement
    <3>3. QED BY <3>1, <3>2, <1>1, <1>5
  <2>3. Root \in S /\ mem'[Root].prev = 0 /\ Root < new
    <3>1. Root # n
      BY <1>2, <1>1, <2>1
    <3>2. Root < new
      BY <1>1, <2>1
    <3>3. QED BY <3>1, <3>2, <1>1, <1>8, <2>1
  <2>4. last' \in S /\ mem'[last'].next = 0 /\ \A b \in S : Root <= b /\ b <= last'
    <3>1. CASE n # 0
      <4>1. last' = last /\ last # p /\ new < last
        BY <3>1, <1>1, <1>2, <1>5, <2>1
      <4>2. QED BY <4>1, <1>1, <1>8, <2>1, <2>3
    <3>2. CASE n = 0
      <4>1. last' = new /\ p = last
        BY <3>2, <1>3, <1>5
      <4>2. QED BY <4>1, <3>2, <1>1, <1>5, <2>1, <2>3
    <3>3. QED BY <3>1, <3>2
  <2>5. ASSUME NEW b \in S \ {Root}
        PROVE  mem'[b].prev \in S /\ mem'[b].prev < b /\ \A c \in S : c < b => c <= mem'[b].prev
    <3>1. CASE b = new
      <4>1. \A c \in Linked : c < new => c <= p
        BY <1>1, <2>1
      <4>2. QED BY <3>1, <4>1, <1>5, <1>1
    <3>2. CASE b \in Linked /\ b = n
      <4>1. \A c \in Linked : c < n => c <= p
        <5>1. \A c \in Linked : p < c => n <= c
          BY <3>2, <1>2, <1>1 DEF IsList, n
        <5>2. QED BY <5>1, <1>1, <3>2
      <4>2. QED BY <3>2, <4>1, <1>8, <1>1, <1>2
    <3>3. CASE b \in Linked /\ b # n
      <4>1. mem'[b].prev = mem[b].prev
        BY <3>3, <1>1, <1>8
      <4>2. /\ mem[b].prev \in Linked /\ mem[b].prev < b
            /\ \A c \in Linked : c < b => c <= mem[b].prev
        BY <3>3 DEF IsList
      <4>3. new < b => new <= mem[b].prev
        <5>1. SUFFICES ASSUME new < b PROVE new <= mem[b].prev
          OBVIOUS
        <5>2. p < b
          BY <5>1, <1>1, <3>3
        <5>3. p # last
          BY <5>2, <2>1, <3>3, <1>1
        <5>4. n \in Linked /\ n <= b
          BY <5>2, <5>3, <3>3 DEF IsList, n
        <5>5. n < b
          BY <5>4, <3>3, <1>1
        <5>6. n <= mem[b].prev
          BY <5>4, <5>5, <4>2
        <5>7. new < n
          BY <5>4, <1>1, <1>2
        <5>8. QED BY <5>4, <5>6, <5>7, <4>2, <1>1
      <4>4. QED BY <4>1, <4>2, <4>3
    <3>4. QED BY <3>1, <3>2, <3>3
  <2>6. ASSUME NEW b \in S \ {last'}
        PROVE  mem'[b].next \in S /\ b < mem'[b].next /\ \A c \in S : b < c => mem'[b].next <= c
    <3>1. CASE b = new
      <4>1. n # 0
        BY <3>1, <1>5
      <4>2. \A c \in Linked : p < c => n <= c
        BY <4>1, <1>2, <1>1 DEF IsList, n
      <4>3. \A c \in Linked : new < c => n <= c
        BY <4>2, <1>1
      <4>4. QED BY <3>1, <4>1, <4>3, <1>5, <1>2, <1>1
    <3>2. CASE b = p
      BY <3>2, <1>8, <1>1
    <3>3. CASE b \in Linked /\ b # p
      <4>1. mem'[b].next = mem[b].next
        BY <3>3, <1>1, <1>8
      <4>2. b # last
        <5>1. n # 0 => last' = last
          BY <1>5
        <5>2. n = 0 => p = last
          BY <1>3
        <5>3. QED BY <5>1, <5>2, <3>3
      <4>3. /\ mem[b].next \in Linked /\ b < mem[b].next
            /\ \A c \in Linked : b < c => mem[b].next <= c
        BY <3>3, <4>2 DEF IsList
      <4>4. b < new => mem[b].next <= new
        <5>1. SUFFICES ASSUME b < new PROVE mem[b].next <= new
          OBVIOUS
        <5>2. b < p
          BY <5>1, <3>3, <1>1
        <5>3. mem[b].next <= p
          BY <5>2, <4>3
        <5>4. QED BY <5>3, <4>3, <1>1
      <4>5. QED BY <4>1, <4>3, <4>4
    <3>4. QED BY <3>1, <3>2, <3>3
  <2>7. QED BY <2>2, <2>3, <2>4, <2>5, <2>6 DEF IsList
<1>11. last' \in {last, new}
  BY <1>5
<1>12. \A b \in DOMAIN mem' :
              mem'[b].prev \in {p, new} \cup {mem[c].prev : c \in DOMAIN mem} /\
              mem'[b].next \in {new} \cup {mem[c].next : c \in DOMAIN mem}
  <2>1. n \in {mem[c].next : c \in DOMAIN mem}
    BY <1>1 DEF n
  <2>2. QED BY <2>1, <1>5, <1>8
<1>13. QED BY <1>5, <1>8, <1>9, <1>10, <1>11, <1>12
(* remove_block, of any block but the root.                                *)
LEMMA RemoveBlockList ==
  ASSUME Typed(mem), IsList(mem, last, Linked), NEW b \in Linked \ {Root}
  PROVE  /\ IsList(Unlinked(b), LastWithout(b), Linked \ {b})
         /\ DOMAIN Unlinked(b) = DOMAIN mem
         /\ Typed(Unlinked(b))
         /\ Unlinked(b)[b] = mem[b]
         /\ \A c \in DOMAIN mem :
              Unlinked(b)[c].end = mem[c].end /\ Unlinked(b)[c].parent = mem[c].parent
         /\ \A c \in DOMAIN mem :
              Unlinked(b)[c].prev \in {mem[d].prev : d \in DOMAIN mem} /\
              Unlinked(b)[c].next \in {mem[d].next : d \in DOMAIN mem}
<1> DEFINE p == mem[b].prev
           n == mem[b].next
           u == Unlinked(b)
           x == LastWithout(b)
           D == DOMAIN mem
           S == Linked \ {b}
<1>1. /\ Linked \subseteq D /\ D \subseteq Nat \ {0} /\ b \in D /\ IsFiniteSet(D)
      /\ \A c \in D : mem[c] \in [prev : Nat, parent : Nat, end : Nat, next : Nat]
      /\ b \in Nat /\ b # 0
  BY DEF IsList, Typed
<1>2. p \in Linked /\ p < b /\ p # b /\ \A c \in Linked : c < b => c <= p
  BY <1>1 DEF IsList
<1>3. n # 0 => n \in Linked /\ b < n /\ n # b /\ n # p /\ b # last
                /\ \A c \in Linked : b < c => n <= c
  <2>1. ASSUME n # 0
        PROVE  n \in Linked /\ b < n /\ b # last /\ \A c \in Linked : b < c => n <= c
    BY <2>1, <1>1 DEF IsList
  <2>2. ASSUME n # 0 PROVE n # b /\ n # p
    <3>1. n \in Nat /\ p \in Nat /\ b < n /\ p < b
      BY <1>1, <1>2, <2>1, <2>2
    <3> HIDE DEF n, p
    <3>2. QED BY <3>1, <1>1
  <2>3. QED BY <2>1, <2>2
<1>4. n = 0 => b = last
  BY <1>1 DEF IsList
<1>5. /\ DOMAIN u = D
      /\ u[p] = [mem[p] EXCEPT !.next = n]
      /\ n # 0 => u[n] = [mem[n] EXCEPT !.prev = p] /\ x = last
      /\ n = 0 => x = p
      /\ \A c \in D \ {p, n} : u[c] = mem[c]
      /\ u = [c \in D |-> u[c]]
  <2>1. u = IF n # 0 THEN [[mem EXCEPT ![p].next = n] EXCEPT ![n].prev = p]
                     ELSE [mem EXCEPT ![p].next = n]
    BY DEF Unlinked
  <2>2. x = IF n # 0 THEN last ELSE p
    BY DEF LastWithout
  <2>3. mem = [c \in D |-> mem[c]]
    BY DEF Typed
  <2>4. p \in D /\ (n # 0 => n \in D /\ n # p)
    BY <1>1, <1>2, <1>3
  <2> HIDE DEF u, n, p, x
  <2>5. QED BY <2>1, <2>2, <2>3, <2>4
<1>6. p \in D /\ p \in Nat /\ n \in Nat /\ (n # 0 => n \in D)
  BY <1>1, <1>2, <1>3
<1> HIDE DEF u, n, p, x
<1>7. \A c \in D : /\ u[c].end = mem[c].end /\ u[c].parent = mem[c].parent
                   /\ u[c] \in [prev : Nat, parent : Nat, end : Nat, next : Nat]
                   /\ u[c].prev = IF c = n THEN p ELSE mem[c].prev
                   /\ u[c].next = IF c = p THEN n ELSE mem[c].next
  <2>1. SUFFICES ASSUME NEW c \in D
                 PROVE  /\ u[c].end = mem[c].end /\ u[c].parent = mem[c].parent
                        /\ u[c] \in [prev : Nat, parent : Nat, end : Nat, next : Nat]
                        /\ u[c].prev = IF c = n THEN p ELSE mem[c].prev
                        /\ u[c].next = IF c = p THEN n ELSE mem[c].next
    OBVIOUS
  <2>2. CASE c = p
    BY <2>2, <1>1, <1>3, <1>5, <1>6
  <2>3. CASE c = n
    BY <2>3, <1>1, <1>3, <1>5, <1>6
  <2>4. CASE c # p /\ c # n
    BY <2>4, <1>1, <1>5
  <2>5. QED BY <2>2, <2>3, <2>4
<1>8. Typed(u)
  BY <1>5, <1>7 DEF Typed
<1>9. u[b] = mem[b]
  BY <1>1, <1>2, <1>3, <1>5
<1>10. IsList(u, x, S)
  <2>1. /\ Linked \subseteq Nat /\ Root \in Linked /\ last \in Linked
        /\ mem[Root].prev = 0 /\ mem[last].next = 0 /\ Root \in Nat /\ last \in Nat
        /\ \A c \in Linked : Root <= c /\ c <= last
    BY <1>1 DEF IsList
  <2>2. IsFiniteSet(DOMAIN u) /\ DOMAIN u \subseteq Nat \ {0} /\ S \subseteq DOMAIN u
    BY <1>1, <1>5
  <2>3. Root \in S /\ u[Root].prev = 0
    <3>1. Root # n
      BY <1>3, <1>1, <2>1, Words
    <3>2. QED BY <3>1, <1>1, <1>7, <2>1
  <2>4. x \in S /\ u[x].next = 0 /\ \A c \in S : Root <= c /\ c <= x
    <3>1. CASE n # 0
      <4>1. x = last /\ last # p /\ last # b
        BY <3>1, <1>1, <1>2, <1>3, <1>5, <2>1
      <4>2. QED BY <4>1, <1>1, <1>7, <2>1
    <3>2. CASE n = 0
      <4>1. x = p /\ b = last
        BY <3>2, <1>4, <1>5
      <4>2. \A c \in S : c < b
        BY <4>1, <2>1, <1>1
      <4>3. QED BY <4>1, <4>2, <3>2, <1>1, <1>2, <1>7, <2>1
    <3>3. QED BY <3>1, <3>2
  <2>5. ASSUME NEW c \in S \ {Root}
        PROVE  u[c].prev \in S /\ u[c].prev < c /\ \A d \in S : d < c => d <= u[c].prev
    <3>1. CASE c = n
      <4>1. n # 0 /\ c \in Nat
        BY <3>1, <1>1
      <4>2. \A d \in S : d < n => d < b
        <5>1. \A d \in Linked : b < d => n <= d
          BY <4>1, <1>3
        <5>2. QED BY <5>1, <2>1, <1>1, <4>1, <3>1
      <4>3. \A d \in S : d < n => d <= p
        BY <4>2, <1>2
      <4>4. p \in S /\ p < n
        BY <4>1, <1>2, <1>3, <1>1, <1>6
      <4>5. u[c].prev = p
        BY <3>1, <1>1, <1>7
      <4>6. QED BY <3>1, <4>3, <4>4, <4>5
    <3>2. CASE c # n
      <4>1. u[c].prev = mem[c].prev
        BY <3>2, <1>1, <1>7
      <4>2. /\ mem[c].prev \in Linked /\ mem[c].prev < c
            /\ \A d \in Linked : d < c => d <= mem[c].prev
        BY DEF IsList
      <4>3. mem[c].prev # b
        <5>1. SUFFICES ASSUME mem[c].prev = b PROVE FALSE
          OBVIOUS
        <5>2. b < c
          BY <5>1, <4>2
        <5>3. n # 0
          <6>1. b # last
            BY <5>2, <2>1, <1>1
          <6>2. QED BY <6>1, <1>4
        <5>4. n \in Linked /\ b < n /\ n <= c
          BY <5>2, <5>3, <1>3
        <5>5. n < c
          BY <5>4, <3>2, <2>1
        <5>6. n <= b
          BY <5>1, <5>4, <5>5, <4>2
        <5>7. QED BY <5>4, <5>6, <1>1, <1>6
      <4>4. QED BY <4>1, <4>2, <4>3
    <3>3. QED BY <3>1, <3>2
  <2>6. ASSUME NEW c \in S \ {x}
        PROVE  u[c].next \in S /\ c < u[c].next /\ \A d \in S : c < d => u[c].next <= d
    <3>1. CASE c = p
      <4>1. n # 0
        BY <3>1, <1>5
      <4>2. \A d \in S : p < d => b < d
        BY <1>2, <2>1, <1>1
      <4>3. \A d \in S : p < d => n <= d
        BY <4>1, <4>2, <1>3
      <4>4. n \in S /\ p < n
        BY <4>1, <1>2, <1>3, <1>1, <1>6
      <4>5. u[c].next = n
        BY <3>1, <1>1, <1>7
      <4>6. QED BY <3>1, <4>3, <4>4, <4>5
    <3>2. CASE c # p
      <4>1. u[c].next = mem[c].next
        BY <3>2, <1>1, <1>7
      <4>2. c # last
        BY <1>4, <1>5
      <4>3. /\ mem[c].next \in Linked /\ c < mem[c].next
            /\ \A d \in Linked : c < d => mem[c].next <= d
        BY <4>2 DEF IsList
      <4>4. mem[c].next # b
        <5>1. SUFFICES ASSUME mem[c].next = b PROVE FALSE
          OBVIOUS
        <5>2. c < b
          BY <5>1, <4>3
        <5>3. c <= p
          BY <5>2, <1>2
        <5>4. c < p
          BY <5>3, <3>2, <1>6, <1>1
        <5>5. b <= p
          BY <5>1, <5>4, <1>2, <4>3
        <5>6. QED BY <5>5, <1>1, <1>2, <1>6
      <4>5. QED BY <4>1, <4>3, <4>4
    <3>3. QED BY <3>1, <3>2
  <2>7. QED BY <2>2, <2>3, <2>4, <2>5, <2>6 DEF IsList
<1>11. \A c \in D :
              u[c].prev \in {mem[d].prev : d \in D} /\ u[c].next \in {mem[d].next : d \in D}
  <2>1. p \in {mem[d].prev : d \in D} /\ n \in {mem[d].next : d \in D}
    BY <1>1 DEF p, n
  <2>2. QED BY <2>1, <1>7
<1>12. QED BY <1>5, <1>7, <1>8, <1>9, <1>10, <1>11 DEF u, x

(* An ordered list is what the run checks of it.                           *)
LEMMA ListIsInOrder == IsList(mem, last, Linked) => ListInOrder
<1> SUFFICES ASSUME IsList(mem, last, Linked) PROVE ListInOrder
  OBVIOUS
<1>1. Linked \subseteq Nat /\ \A b \in Linked : Root <= b /\ b <= last
  BY DEF IsList
<1>2. ASSUME NEW b \in Linked \ {Root}
      PROVE  mem[b].prev \in Linked /\ mem[b].prev < b /\ mem[mem[b].prev].next = b
  <2> DEFINE p == mem[b].prev
  <2>1. p \in Linked /\ p < b /\ \A c \in Linked : c < b => c <= p
    BY DEF IsList
  <2> HIDE DEF p
  <2>2. p # last
    BY <2>1, <1>1
  <2>3. mem[p].next \in Linked /\ p < mem[p].next /\ mem[p].next <= b
    BY <2>1, <2>2 DEF IsList
  <2>4. ~ (mem[p].next < b)
    BY <2>1, <2>3, <1>1
  <2>5. QED BY <2>1, <2>3, <2>4, <1>1 DEF p
<1>3. ASSUME NEW b \in Linked \ {last}
      PROVE  mem[b].next \in Linked /\ mem[mem[b].next].prev = b
  <2> DEFINE n == mem[b].next
  <2>1. n \in Linked /\ b < n /\ \A c \in Linked : b < c => n <= c
    BY DEF IsList
  <2> HIDE DEF n
  <2>2. n # Root
    BY <2>1, <1>1
  <2>3. mem[n].prev \in Linked /\ mem[n].prev < n /\ b <= mem[n].prev
    BY <2>1, <2>2 DEF IsList
  <2>4. b < mem[n].prev => n <= mem[n].prev
    BY <2>1, <2>3
  <2>5. b \in Nat /\ n \in Nat /\ mem[n].prev \in Nat
    BY <2>1, <2>3, <1>1
  <2>6. mem[n].prev = b
    BY <2>3, <2>4, <2>5
  <2>7. QED BY <2>1, <2>6 DEF n
<1>4. QED BY <1>2, <1>3 DEF ListInOrder, IsList
-----------------------------------------------------------------------------
(* The tree of owners among the headers S: every header but the root's is  *)
(* owned by another, and by the root, directly or not.                     *)
ClosedIn(m, S, T) == \A c \in S : m[c].parent \in T => c \in T

IsTree(m, S) ==
  /\ m[Root].parent = 0
  /\ \A b \in S \ {Root} : m[b].parent \in S
  /\ \A T \in SUBSET S : Root \in T /\ ClosedIn(m, S, T) => T = S

OwnedBy(m, S, b) == {c \in S : \A T \in SUBSET S : b \in T /\ ClosedIn(m, S, T) => c \in T}

LEMMA OwnedIsOwnedBy == \A b : Owned(b) = OwnedBy(mem, Linked, b)
BY DEF Owned, OwnedBy, ClosedIn

LEMMA OwnedByProperties ==
  ASSUME NEW m, NEW S, NEW b
  PROVE  /\ OwnedBy(m, S, b) \subseteq S
         /\ b \in S => b \in OwnedBy(m, S, b)
         /\ ClosedIn(m, S, OwnedBy(m, S, b))
         /\ \A T \in SUBSET S : b \in T /\ ClosedIn(m, S, T) => OwnedBy(m, S, b) \subseteq T
BY DEF OwnedBy, ClosedIn

(* No headers own one another in a circle.                                 *)
LEMMA NoCycle ==
  ASSUME NEW m, NEW S, Root \in S, 0 \notin S, IsTree(m, S),
         NEW C \in SUBSET S, C # {}, \A b \in C : m[b].parent \in C
  PROVE  FALSE
<1>1. Root \notin C
  BY DEF IsTree
<1>2. ClosedIn(m, S, S \ C)
  BY DEF ClosedIn
<1>3. S \ C = S
  BY <1>1, <1>2 DEF IsTree
<1>4. QED BY <1>3

(* A header that owns none can go.                                         *)
IsLeaf(m, S, c) == c \in S /\ c # Root /\ \A d \in S : m[d].parent # c

SameOwners(n, m, S) == \A d \in S : n[d].parent = m[d].parent

LEMMA RemoveLeaf ==
  ASSUME NEW m, NEW S, Root \in S, IsTree(m, S),
         NEW c, IsLeaf(m, S, c),
         NEW n, SameOwners(n, m, S \ {c})
  PROVE  /\ IsTree(n, S \ {c})
         /\ \A b \in S \ {c} : OwnedBy(n, S \ {c}, b) = OwnedBy(m, S, b) \ {c}
<1> DEFINE R == S \ {c}
<1> USE DEF IsLeaf, SameOwners
<1>1. n[Root].parent = 0 /\ \A b \in R \ {Root} : n[b].parent \in R
  BY DEF IsTree
<1>2. \A T \in SUBSET R : ClosedIn(n, R, T) => ClosedIn(m, S, T \cup {c})
  BY DEF ClosedIn
<1>3. \A T \in SUBSET S : ClosedIn(m, S, T) => ClosedIn(n, R, T \ {c})
  BY DEF ClosedIn
<1>4. ASSUME NEW T \in SUBSET R, Root \in T, ClosedIn(n, R, T)
      PROVE  T = R
  <2>1. T \cup {c} \in SUBSET S /\ Root \in T \cup {c} /\ ClosedIn(m, S, T \cup {c})
    BY <1>2, <1>4
  <2>2. T \cup {c} = S
    BY <2>1 DEF IsTree
  <2>3. QED BY <2>2
<1>5. ASSUME NEW b \in R
      PROVE  OwnedBy(n, R, b) = OwnedBy(m, S, b) \ {c}
  <2>1. OwnedBy(n, R, b) \subseteq OwnedBy(m, S, b) \ {c}
    <3>1. /\ OwnedBy(m, S, b) \subseteq S /\ b \in OwnedBy(m, S, b)
          /\ ClosedIn(m, S, OwnedBy(m, S, b))
      BY OwnedByProperties
    <3>2. ClosedIn(n, R, OwnedBy(m, S, b) \ {c})
      BY <1>3, <3>1
    <3>3. QED BY <3>1, <3>2, OwnedByProperties
  <2>2. OwnedBy(m, S, b) \subseteq OwnedBy(n, R, b) \cup {c}
    <3>1. /\ OwnedBy(n, R, b) \subseteq R /\ b \in OwnedBy(n, R, b)
          /\ ClosedIn(n, R, OwnedBy(n, R, b))
      BY OwnedByProperties
    <3>2. ClosedIn(m, S, OwnedBy(n, R, b) \cup {c})
      BY <1>2, <3>1
    <3>3. OwnedBy(n, R, b) \cup {c} \in SUBSET S /\ b \in OwnedBy(n, R, b) \cup {c}
      BY <3>1
    <3> DEFINE Q == OwnedBy(n, R, b) \cup {c}
    <3>4. Q \in SUBSET S /\ b \in Q /\ ClosedIn(m, S, Q)
      BY <3>2, <3>3
    <3>5. OwnedBy(m, S, b) \subseteq Q
      <4> HIDE DEF Q, R
      <4> QED BY <3>4, OwnedByProperties
    <3>6. QED BY <3>5
  <2>3. c \notin OwnedBy(n, R, b)
    BY OwnedByProperties
  <2>4. QED BY <2>1, <2>2, <2>3
<1>6. QED BY <1>1, <1>4, <1>5 DEF IsTree
-----------------------------------------------------------------------------
(* While free_by_parent is not at work, the heap that the callers see is   *)
(* the list.                                                               *)
LEMMA HeapIsList ==
  ASSUME frames = <<>>
  PROVE  /\ HeapBlocks = [b \in Linked |-> [end |-> mem[b].end, parent |-> mem[b].parent]]
         /\ HeapRet = ret
         /\ HP!Live = Linked
         /\ \A b : HP!Above(b) = {c \in Linked : c > b} \cup {Limit}
         /\ \A b \in Linked : HP!GapStart(b) = HP!AlignUp(mem[b].end)
         /\ \A b : HP!Subtree(b) = Owned(b)
         /\ HP!ParentsLive /\ HP!Rooted /\ Root \in Linked => IsTree(mem, Linked)
<1>1. HeapBlocks = [b \in Linked |-> [end |-> mem[b].end, parent |-> mem[b].parent]]
  BY DEF HeapBlocks, Doomed
<1>2. HeapRet = ret
  BY DEF HeapRet
<1>3. HP!Live = Linked
  BY <1>1 DEF HP!Live
<1>4. \A b : HP!Above(b) = {c \in Linked : c > b} \cup {Limit}
  BY <1>3, HeapAssumed DEF HP!Above
<1>5. \A b \in Linked : HP!GapStart(b) = HP!AlignUp(mem[b].end)
  BY <1>1 DEF HP!GapStart
<1>6. \A T : HP!ClosedUnderChildren(T) <=> ClosedIn(mem, Linked, T)
  BY <1>1, <1>3 DEF HP!ClosedUnderChildren, ClosedIn
<1>7. \A b : HP!Subtree(b) = Owned(b)
  BY <1>3, <1>6, OwnedIsOwnedBy DEF HP!Subtree, OwnedBy
<1>8. ASSUME HP!ParentsLive, HP!Rooted, Root \in Linked PROVE IsTree(mem, Linked)
  <2>1. HeapBlocks[Root].parent = 0 /\ \A b \in Linked \ {Root} : HeapBlocks[b].parent \in Linked
    BY <1>3, <1>8, HeapAssumed DEF HP!ParentsLive
  <2>2. Owned(Root) = Linked
    BY <1>3, <1>7, <1>8, HeapAssumed DEF HP!Rooted
  <2>3. ASSUME NEW T \in SUBSET Linked, Root \in T, ClosedIn(mem, Linked, T) PROVE T = Linked
    <3>1. Owned(Root) \subseteq T
      BY <2>3, OwnedIsOwnedBy, OwnedByProperties
    <3>2. QED BY <2>2, <3>1
  <2>4. mem[Root].parent = 0 /\ \A b \in Linked \ {Root} : mem[b].parent \in Linked
    BY <1>1, <1>8, <2>1
  <2>5. QED BY <2>3, <2>4 DEF IsTree
<1>9. QED BY <1>1, <1>2, <1>3, <1>4, <1>5, <1>7, <1>8

(* What the walks compute with words is what DosHeap has as numbers.       *)
LEMMA GapWords ==
  ASSUME frames = <<>>, HP!HeapInv, NEW b \in Linked
  PROVE  /\ AlignUp(mem[b].end) = HP!GapStart(b)
         /\ Minus(HP!NextOf(b), AlignUp(mem[b].end)) = HP!FreeLen(b)
         /\ Plus(b, 16) = b + 16 /\ b + 16 <= HP!NextOf(b)
         /\ b \in Nat /\ Root <= b /\ b + 16 <= Limit
         /\ HP!NextOf(b) \in Nat /\ HP!NextOf(b) <= Limit
         /\ HP!GapStart(b) \in Nat /\ b < HP!GapStart(b)
         /\ HP!FreeLen(b) \in Nat /\ HP!GapStart(b) + HP!FreeLen(b) = HP!NextOf(b)
         /\ \A c \in Linked : b < c => HP!NextOf(b) <= c
         /\ b + 16 <= mem[b].end /\ mem[b].end <= HP!NextOf(b)
<1>1. b \in HP!Live /\ HeapBlocks[b].end = mem[b].end /\ HP!TypeOK /\ HP!Layout
  BY HeapIsList DEF HP!HeapInv
<1>2. /\ HP!NextOf(b) \in HP!Above(b) /\ \A c \in HP!Above(b) : HP!NextOf(b) <= c
      /\ HP!NextOf(b) \in Nat /\ HP!NextOf(b) <= HP!Limit
      /\ HeapBlocks[b].end \in Nat /\ HeapBlocks[b].end <= HP!NextOf(b)
      /\ HP!GapStart(b) \in Nat /\ b + HP!HeaderSize <= HP!GapStart(b)
      /\ HP!GapStart(b) <= HP!NextOf(b)
      /\ HP!FreeLen(b) \in Nat
  BY <1>1, HeapAssumed, HP!NextOfProperties
<1>3. /\ b \in Nat /\ Root <= b
      /\ b + 16 <= mem[b].end /\ mem[b].end <= Limit /\ mem[b].end \in Nat
  BY <1>1, <1>2, HeapAssumed DEF HP!TypeOK, HP!Layout
<1>4. Plus(mem[b].end, 15) = mem[b].end + 15 /\ Plus(b, 16) = b + 16
  <2>1. mem[b].end + 15 < W /\ b + 16 < W
    BY <1>3, Words
  <2>2. QED BY <2>1, <1>3, NoWrapping
<1>5. AlignUp(mem[b].end) = HP!GapStart(b)
  BY <1>1, <1>4, HeapAssumed DEF AlignUp, HP!AlignUp, HP!GapStart
<1>6. HP!FreeLen(b) = HP!NextOf(b) - HP!GapStart(b)
  BY DEF HP!FreeLen
<1>7. HP!NextOf(b) < W
  BY <1>2, Words, HeapAssumed
<1>8. Minus(HP!NextOf(b), AlignUp(mem[b].end)) = HP!FreeLen(b)
  BY <1>2, <1>5, <1>6, <1>7, NoWrapping
<1>9. b + 16 <= HP!NextOf(b) /\ b + 16 <= Limit
  BY <1>1, <1>2, <1>3, Words
<1>10. \A c \in Linked : b < c => HP!NextOf(b) <= c
  <2>1. HP!Live \subseteq Nat
    BY <1>1 DEF HP!TypeOK
  <2>2. \A c \in Linked : b < c => c \in HP!Above(b)
    BY <2>1, <1>3, HeapIsList
  <2>3. QED BY <1>2, <2>2
<1>11. HP!GapStart(b) + HP!FreeLen(b) = HP!NextOf(b) /\ b < HP!GapStart(b)
  BY <1>2, <1>3, <1>6, HeapAssumed
<1>12. mem[b].end <= HP!NextOf(b) /\ HP!NextOf(b) <= Limit
  BY <1>1, <1>2, HeapAssumed
<1>13. QED BY <1>2, <1>3, <1>4, <1>5, <1>8, <1>9, <1>10, <1>11, <1>12

(* One step down the list: its end is the block it comes from.             *)
LEMMA StepDown ==
  ASSUME frames = <<>>, HP!HeapInv, IsList(mem, last, Linked), NEW b \in Linked
  PROVE  /\ mem[b].prev \in Linked \cup {0}
         /\ {c \in Linked : c > mem[b].prev} = {c \in Linked : c > b} \cup {b}
         /\ mem[b].prev # 0 => HP!NextOf(mem[b].prev) = b
<1>1. /\ Linked \subseteq Nat \ {0} /\ b \in Nat /\ b < Limit
      /\ \A c \in Linked : Root <= c
  <2>1. b \in Nat /\ b + 16 <= Limit
    BY GapWords
  <2>2. b < Limit
    BY <2>1, Words
  <2>3. QED BY <2>1, <2>2 DEF IsList
<1>2. CASE b = Root
  BY <1>1, <1>2, Words DEF IsList
<1>3. CASE b # Root
  <2> DEFINE p == mem[b].prev
  <2>1. p \in Linked /\ p < b /\ \A c \in Linked : c < b => c <= p
    BY <1>3 DEF IsList
  <2> HIDE DEF p
  <2>2. {c \in Linked : c > p} = {c \in Linked : c > b} \cup {b}
    <3>1. \A c \in Linked : c > p <=> c > b \/ c = b
      BY <2>1, <1>1
    <3>2. QED BY <3>1
  <2>3. HP!NextOf(p) = b
    <3>1. HP!NextOf(p) \in HP!Above(p) /\ \A c \in HP!Above(p) : HP!NextOf(p) <= c
      BY <2>1, HeapAssumed, HeapIsList, HP!NextOfProperties DEF HP!HeapInv
    <3>2. b \in HP!Above(p) /\ \A c \in HP!Above(p) : b <= c /\ c \in Nat
      <4>1. HP!Above(p) = {c \in Linked : c > b} \cup {b, Limit}
        BY <2>2, HeapIsList
      <4>2. \A c \in {c \in Linked : c > b} : b <= c /\ c \in Nat
        BY <1>1
      <4>3. b <= Limit /\ b <= b /\ Limit \in Nat
        BY <1>1, Words
      <4>4. QED BY <4>1, <4>2, <4>3, <1>1
    <3>3. HP!NextOf(p) <= b /\ b <= HP!NextOf(p) /\ HP!NextOf(p) \in Nat
      BY <3>1, <3>2
    <3>4. QED BY <3>3, <1>1
  <2>4. QED BY <2>1, <2>2, <2>3 DEF p
<1>4. QED BY <1>2, <1>3

(* The walk starts with nothing above.                                     *)
LEMMA StepIn ==
  ASSUME frames = <<>>, HP!HeapInv, IsList(mem, last, Linked)
  PROVE  {c \in Linked : c > last} = {} /\ HP!NextOf(last) = Limit /\ last # 0 /\ last \in Linked
<1>1. last \in Linked /\ Linked \subseteq Nat \ {0} /\ \A c \in Linked : c <= last
  BY DEF IsList
<1>2. {c \in Linked : c > last} = {}
  <2>1. \A c \in Linked : ~ (c > last)
    BY <1>1
  <2>2. QED BY <2>1
<1>3. HP!Above(last) = {Limit}
  BY <1>2, HeapIsList
<1>4. HP!NextOf(last) \in HP!Above(last)
  BY <1>1, HeapAssumed, HeapIsList, HP!NextOfProperties DEF HP!HeapInv
<1>5. QED BY <1>1, <1>2, <1>3, <1>4
-----------------------------------------------------------------------------
(* The inductive invariant: the list and the tree of owners in memory; the *)
(* heap as the callers see it; and what each walk knows of the blocks it   *)
(* has passed.                                                             *)
CallInv ==
  /\ call.name = "none" <=> call = Idle
  /\ call = Idle => frames = <<>>
  /\ call # Idle => call.ptr \in Pointers
  /\ call.name \in {"alloc", "resize"} => call.len \in Lengths
  /\ call.name \in {"alloc", "largest"} => BlockOf(call.ptr) \in Linked
  /\ call.name = "free" => BlockOf(call.ptr) # Root
  /\ call.name = "byparent" => frames # <<>>
  /\ frames = <<>> => DOMAIN mem = Linked

Passed == {b \in Linked : b > scan.block}

AllocInv ==
  /\ \A b \in Passed : HP!FreeLen(b) < Needed /\ HP!FreeLen(b) <= scan.room
  /\ scan.room \in {16} \cup {HP!FreeLen(b) : b \in Passed}
  /\ scan.room >= 16

LargestInv ==
  /\ \A b \in Passed : HP!FreeLen(b) <= scan.room
  /\ scan.room >= 16
  /\ scan.room # 16 =>
       /\ scan.best \in Passed
       /\ scan.room = HP!FreeLen(scan.best)
       /\ scan.candidate = HP!GapStart(scan.best)
       /\ \A b \in Passed : b > scan.best => HP!FreeLen(b) < scan.room

ScanInv ==
  frames = <<>> /\ call # Idle =>
    /\ scan.block \in Linked \cup {0}
    /\ scan.block # 0 =>
         scan.next = IF call.name = "free" THEN Limit ELSE HP!NextOf(scan.block)
    /\ call.name = "alloc" => AllocInv
    /\ call.name = "largest" => LargestInv
    /\ call.name \in {"resize", "free"} => BlockOf(call.ptr) \notin Passed

(* While free_by_parent is at work: the activations are a path of owners   *)
(* down the tree, each at the block that the next one frees for, and above *)
(* that block none is left that it owns.                                   *)
FreeInv ==
  frames # <<>> =>
    /\ call.name \in {"free", "byparent"}
    /\ frames[1].owner = BlockOf(call.ptr)
    /\ \A i \in 1 .. Depth :
         /\ frames[i].owner \in Owned(frames[1].owner)
         /\ frames[i].block \in Linked \cup {0}
         /\ \A b \in Linked : b > frames[i].block => mem[b].parent # frames[i].owner
         /\ \A j \in 1 .. i - 1 : frames[i].owner # frames[j].owner
    /\ \A i \in 1 .. Depth - 1 :
         /\ frames[i].block = frames[i + 1].owner
         /\ mem[frames[i].block].parent = frames[i].owner

MemInv == IsList(mem, last, Linked) /\ IsTree(mem, Linked)

Inv == TypeOK /\ MemInv /\ HP!HeapInv /\ CallInv /\ ScanInv /\ FreeInv

LEMMA TypedMem == TypeOK => Typed(mem)
BY Words DEF TypeOK, Typed

(* Before the first call the list is the root block alone.                 *)
LEMMA InitList ==
  ASSUME Init
  PROVE  /\ mem = [b \in {Root} |-> [prev |-> 0, parent |-> 0, end |-> Root + 16, next |-> 0]]
         /\ last = Root /\ IsList(mem, last, {Root}) /\ Linked = {Root}
         /\ call = Idle /\ scan = ScanFrom(0) /\ frames = <<>> /\ ret = Success(0)
         /\ Root + 16 \in 0 .. W - 1
<1>1. /\ mem = [b \in {Root} |-> Header(0, 0, Plus(Root, 16), 0)] /\ last = Root
      /\ call = Idle /\ scan = ScanFrom(0) /\ frames = <<>> /\ ret = Success(0)
  BY HeapAssumed DEF Init
<1>2. Plus(Root, 16) = Root + 16 /\ Root + 16 \in 0 .. W - 1
  <2>1. Root + 16 < W /\ Root \in Nat
    BY Words
  <2>2. QED BY <2>1, NoWrapping
<1>3. DOMAIN mem = {Root} /\ mem[Root] = [prev |-> 0, parent |-> 0, end |-> Root + 16, next |-> 0]
  BY <1>1, <1>2 DEF Header
<1>4. IsList(mem, last, {Root})
  <2>1. IsFiniteSet(DOMAIN mem)
    BY <1>3, FS_Singleton
  <2>2. Root \in Nat \ {0} /\ Root <= Root
    BY Words
  <2>3. QED BY <2>1, <2>2, <1>1, <1>3 DEF IsList
<1>5. Linked = {Root}
  BY <1>4, ListReached, LinkedIsReach
<1>6. QED BY <1>1, <1>2, <1>4, <1>5 DEF Header

LEMMA InitHeap == Init => HP!Init
<1> SUFFICES ASSUME Init PROVE HP!Init
  OBVIOUS
<1>1. HeapBlocks = [b \in {Root} |-> [end |-> mem[b].end, parent |-> mem[b].parent]]
      /\ HeapRet = ret
  BY InitList, HeapIsList
<1>2. QED BY <1>1, InitList, HeapAssumed DEF HP!Init, HP!Block, HP!Success, Success

LEMMA InitInv == Init => Inv
<1> SUFFICES ASSUME Init PROVE Inv
  OBVIOUS
<1>1. TypeOK
  <2>1. DOMAIN mem = {Root} /\ mem[Root].end = Root + 16
    BY InitList
  <2>2. mem \in [DOMAIN mem -> [prev : 0 .. W - 1, parent : 0 .. W - 1,
                                end : 0 .. W - 1, next : 0 .. W - 1]]
    BY InitList, Words
  <2>3. /\ DOMAIN mem \subseteq 0 .. W - 1 /\ last \in DOMAIN mem
        /\ 0 \in 0 .. W - 1 /\ 16 \in 0 .. W - 1 /\ Limit \in 0 .. W - 1
    BY <2>1, InitList, Words
  <2>4. QED BY <2>2, <2>3, InitList, HeapAssumed DEF TypeOK, Idle, ScanFrom, Success
<1>2. HP!HeapInv
  BY InitHeap, HeapAssumed, HP!InitHeapInv
<1>3. IsTree(mem, Linked)
  BY <1>2, InitList, HeapIsList DEF HP!HeapInv
<1>4. CallInv
  BY InitList DEF CallInv, Idle
<1>5. QED BY <1>1, <1>2, <1>3, <1>4, InitList DEF Inv, MemInv, ScanInv, FreeInv

(* What does not touch the list changes nothing that is said of it.        *)
LEMMA SameList ==
  ASSUME UNCHANGED <<mem, last>>
  PROVE  Linked' = Linked /\ \A b : Owned(b)' = Owned(b)
BY DEF Linked, Owned

LEMMA QuietStep ==
  ASSUME UNCHANGED <<mem, last, frames, ret>>, frames = <<>>
  PROVE  /\ UNCHANGED <<HeapBlocks, HeapRet>> /\ Linked' = Linked
         /\ \A b : /\ HP!NextOf(b)' = HP!NextOf(b) /\ HP!FreeLen(b)' = HP!FreeLen(b)
                   /\ HP!GapStart(b)' = HP!GapStart(b)
         /\ HP!HeapInv => HP!HeapInv'
<1>1. Linked' = Linked
  BY SameList
<1>2. HeapBlocks' = HeapBlocks
  BY <1>1 DEF HeapBlocks, Doomed
<1>3. HeapRet' = HeapRet
  BY DEF HeapRet
<1>4. \A b : HP!NextOf(b)' = HP!NextOf(b)
  BY <1>2 DEF HP!NextOf, HP!Above, HP!Live
<1>5. \A b : HP!GapStart(b)' = HP!GapStart(b)
  BY <1>2 DEF HP!GapStart
<1>6. \A b : HP!FreeLen(b)' = HP!FreeLen(b)
  BY <1>4, <1>5 DEF HP!FreeLen
<1>7. HP!HeapInv => HP!HeapInv'
  BY <1>2, <1>3, HeapAssumed, HP!NextKeepsHeapInv DEF HP!vars
<1>8. QED BY <1>1, <1>2, <1>3, <1>4, <1>5, <1>6, <1>7

(* A step of a walk: only its local variables change.                      *)
LEMMA MemInvKept ==
  ASSUME Inv, UNCHANGED <<mem, last>>
  PROVE  MemInv'
<1>1. Linked' = Linked
  BY SameList
<1>2. QED BY <1>1 DEF Inv, MemInv, IsList, IsTree, ClosedIn

LEMMA ListTree ==
  frames = <<>> /\ HP!ParentsLive /\ HP!Rooted /\ Root \in Linked => IsTree(mem, Linked)
BY HeapIsList

(* A call that returns with the heap in order.                             *)
LEMMA Returns ==
  ASSUME NEW v, Return(v), TypeOK', IsList(mem', last', Linked'), DOMAIN mem' = Linked',
         HP!HeapInv'
  PROVE  Inv'
<1>1. call' = Idle /\ frames' = <<>>
  BY DEF Return
<1>2. CallInv'
  BY <1>1 DEF CallInv, Idle
<1>3. ScanInv' /\ FreeInv'
  BY <1>1 DEF ScanInv, FreeInv
<1>4. IsTree(mem, Linked)'
  <2>1. Root \in Linked'
    BY DEF IsList
  <2>2. (frames = <<>> /\ HP!ParentsLive /\ HP!Rooted /\ Root \in Linked => IsTree(mem, Linked))'
    BY ListTree, PTL
  <2>3. QED BY <1>1, <2>1, <2>2 DEF HP!HeapInv
<1>5. MemInv'
  BY <1>4 DEF MemInv
<1>6. QED BY <1>2, <1>3, <1>5 DEF Inv
-----------------------------------------------------------------------------
(* The calls begin at the top of the list, with no block passed.           *)
LEMMA BeginKeepsInv ==
  ASSUME Inv, NEW name \in {"alloc", "largest", "resize", "free"},
         NEW ptr \in Pointers, NEW len \in Lengths \cup {0}, Begin(name, ptr, len),
         name \in {"alloc", "resize"} => len \in Lengths,
         name \in {"alloc", "largest"} => BlockOf(ptr) \in Linked,
         name = "free" => BlockOf(ptr) # Root
  PROVE  Inv' /\ UNCHANGED HP!vars
<1>1. /\ call = Idle /\ frames = <<>> /\ frames' = <<>>
      /\ call' = [name |-> name, ptr |-> ptr, len |-> len]
      /\ scan' = [block |-> last, next |-> Limit, room |-> 16, best |-> 0, candidate |-> 0]
      /\ UNCHANGED <<mem, last, frames, ret>>
  BY HeapAssumed DEF Begin, Inv, CallInv, Call, ScanFrom
<1>2. /\ Linked' = Linked /\ HP!HeapInv' /\ UNCHANGED HP!vars
      /\ HP!NextOf(last)' = HP!NextOf(last)
  BY <1>1, QuietStep DEF Inv, HP!vars
<1>3. {c \in Linked : c > last} = {} /\ HP!NextOf(last) = Limit /\ last # 0 /\ last \in Linked
  BY <1>1, StepIn DEF Inv, MemInv
<1>4. MemInv'
  BY <1>1, MemInvKept
<1>5. TypeOK'
  <2>1. ptr \in 0 .. W - 1 /\ len \in 0 .. W - 1 /\ 0 \in 0 .. W - 1 /\ 16 \in 0 .. W - 1
        /\ Limit \in 0 .. W - 1 /\ last \in 0 .. W - 1
    <3>1. 0 \in 0 .. W - 1 /\ 16 \in 0 .. W - 1 /\ Limit \in 0 .. W - 1
      BY Words
    <3>2. last \in 0 .. W - 1
      BY DEF Inv, TypeOK
    <3>3. ptr \in 0 .. W - 1 /\ len \in 0 .. W - 1
      BY <3>1, Words
    <3>4. QED BY <3>1, <3>2, <3>3
  <2>2. QED BY <2>1, <1>1 DEF Inv, TypeOK
<1>6. CallInv'
  BY <1>1, <1>2 DEF Inv, CallInv, Idle
<1>7. Passed' = {}
  BY <1>1, <1>2, <1>3 DEF Passed
<1>8. ScanInv'
  <2>1. scan'.block \in Linked' \cup {0}
        /\ (scan'.block # 0 =>
         scan'.next = IF call'.name = "free" THEN Limit ELSE HP!NextOf(scan.block)')
    <3>1. scan'.block = last /\ scan'.next = Limit
      BY <1>1
    <3>2. HP!NextOf(scan.block)' = Limit
      <4>1. last' = scan'.block
        BY <1>1
      <4>2. HP!NextOf(scan.block)' = HP!NextOf(last)'
        BY <4>1 DEF HP!NextOf, HP!Above
      <4>3. QED BY <4>2, <1>2, <1>3
    <3>3. QED BY <3>1, <3>2, <1>2, <1>3
  <2>2. AllocInv' /\ LargestInv'
    BY <1>1, <1>7 DEF AllocInv, LargestInv
  <2>3. QED BY <2>1, <2>2, <1>7 DEF ScanInv
<1>9. FreeInv'
  BY <1>1 DEF FreeInv
<1>10. QED BY <1>2, <1>4, <1>5, <1>6, <1>8, <1>9 DEF Inv

(* Where a walk stands.                                                    *)
LEMMA AtHand ==
  ASSUME Inv, frames = <<>>, call # Idle, scan.block # 0
  PROVE  /\ scan.block \in Linked /\ ~OutOfOrder
         /\ Candidate = HP!GapStart(scan.block)
         /\ call.name # "free" => FreeLen = HP!FreeLen(scan.block)
         /\ mem[scan.block].prev \in Linked \cup {0}
         /\ {c \in Linked : c > mem[scan.block].prev} = Passed \cup {scan.block}
         /\ mem[scan.block].prev # 0 => HP!NextOf(mem[scan.block].prev) = scan.block
<1>1. scan.block \in Linked /\ HP!HeapInv /\ IsList(mem, last, Linked)
  BY DEF Inv, MemInv, ScanInv
<1>2. scan.next = IF call.name = "free" THEN Limit ELSE HP!NextOf(scan.block)
  BY DEF Inv, ScanInv
<1>3. /\ AlignUp(mem[scan.block].end) = HP!GapStart(scan.block)
      /\ Minus(HP!NextOf(scan.block), AlignUp(mem[scan.block].end)) = HP!FreeLen(scan.block)
      /\ Plus(scan.block, 16) = scan.block + 16
      /\ scan.block + 16 <= HP!NextOf(scan.block) /\ scan.block + 16 <= Limit
      /\ scan.block \in Nat /\ HP!NextOf(scan.block) \in Nat
  BY <1>1, GapWords
<1>4. ~OutOfOrder
  BY <1>2, <1>3, HeapAssumed, Words DEF OutOfOrder
<1>5. Candidate = HP!GapStart(scan.block)
  BY <1>3 DEF Candidate
<1>6. call.name # "free" => FreeLen = HP!FreeLen(scan.block)
  BY <1>2, <1>3 DEF FreeLen, Candidate
<1>7. QED BY <1>1, <1>4, <1>5, <1>6, StepDown DEF Passed
(* A walk moves on to the previous block: the block at hand joins those    *)
(* that it has passed.                                                     *)
LEMMA WalkOn ==
  ASSUME Inv, frames = <<>>, call # Idle, scan.block # 0,
         UNCHANGED <<mem, last, call, frames, ret>>,
         scan' \in [block : 0 .. W - 1, next : 0 .. W - 1, room : 0 .. W - 1,
                    best : 0 .. W - 1, candidate : 0 .. W - 1],
         scan'.block = mem[scan.block].prev,
         scan'.next = IF call.name = "free" THEN Limit ELSE scan.block,
         call.name \in {"resize", "free"} => scan.block # BlockOf(call.ptr)
  PROVE  /\ UNCHANGED HP!vars /\ Passed' = Passed \cup {scan.block}
         /\ \A b : HP!FreeLen(b)' = HP!FreeLen(b) /\ HP!GapStart(b)' = HP!GapStart(b)
         /\ (call.name = "alloc" => AllocInv') /\ (call.name = "largest" => LargestInv') => Inv'
<1>1. /\ Linked' = Linked /\ HP!HeapInv' /\ UNCHANGED HP!vars
      /\ \A b : /\ HP!NextOf(b)' = HP!NextOf(b) /\ HP!FreeLen(b)' = HP!FreeLen(b)
                /\ HP!GapStart(b)' = HP!GapStart(b)
  BY QuietStep DEF Inv, HP!vars
<1>2. MemInv' /\ TypeOK'
  BY MemInvKept DEF Inv, TypeOK
<1>3. CallInv'
  BY <1>1 DEF Inv, CallInv
<1>4. /\ scan.block \in Linked
      /\ mem[scan.block].prev \in Linked \cup {0}
      /\ {c \in Linked : c > mem[scan.block].prev} = Passed \cup {scan.block}
      /\ mem[scan.block].prev # 0 => HP!NextOf(mem[scan.block].prev) = scan.block
  BY AtHand
<1>5. Passed' = Passed \cup {scan.block}
  BY <1>1, <1>4 DEF Passed
<1>6. ASSUME call.name = "alloc" => AllocInv', call.name = "largest" => LargestInv'
      PROVE  ScanInv'
  <2>1. scan'.block \in Linked' \cup {0}
    BY <1>1, <1>4
  <2>2. scan'.block # 0 =>
          scan'.next = IF call'.name = "free" THEN Limit ELSE HP!NextOf(scan.block)'
    <3>1. SUFFICES ASSUME scan'.block # 0
                   PROVE  HP!NextOf(scan.block)' = scan.block
      OBVIOUS
    <3>2. PICK x : x = mem[scan.block].prev
      OBVIOUS
    <3>3. HP!NextOf(scan.block)' = HP!NextOf(x)'
      BY <3>2 DEF HP!NextOf, HP!Above
    <3>4. HP!NextOf(x)' = HP!NextOf(x)
      BY <1>1
    <3>5. HP!NextOf(x) = scan.block
      BY <3>1, <3>2, <1>4
    <3>6. QED BY <3>3, <3>4, <3>5
  <2>3. call.name \in {"resize", "free"} => BlockOf(call'.ptr) \notin Passed'
    BY <1>5 DEF Inv, ScanInv
  <2>4. QED BY <1>6, <2>1, <2>2, <2>3 DEF ScanInv
<1>7. FreeInv'
  BY DEF FreeInv
<1>8. QED BY <1>1, <1>2, <1>3, <1>5, <1>6, <1>7 DEF Inv

(* What a walk computes of the block at hand are words.                    *)
LEMMA WordsAtHand ==
  ASSUME Inv, frames = <<>>, call # Idle, scan.block # 0
  PROVE  /\ mem[scan.block].prev \in 0 .. W - 1 /\ scan.block \in 0 .. W - 1
         /\ Limit \in 0 .. W - 1
         /\ HP!FreeLen(scan.block) \in 0 .. W - 1 /\ HP!GapStart(scan.block) \in 0 .. W - 1
<1>1. scan.block \in Linked /\ HP!HeapInv /\ IsList(mem, last, Linked)
  BY AtHand DEF Inv, MemInv
<1>2. scan.block \in DOMAIN mem
  BY <1>1 DEF IsList
<1>3. mem[scan.block].prev \in 0 .. W - 1 /\ scan.block \in 0 .. W - 1
  BY <1>2 DEF Inv, TypeOK
<1>4. /\ HP!GapStart(scan.block) \in Nat /\ HP!FreeLen(scan.block) \in Nat
      /\ HP!NextOf(scan.block) \in Nat /\ HP!NextOf(scan.block) <= Limit
      /\ HP!GapStart(scan.block) + HP!FreeLen(scan.block) = HP!NextOf(scan.block)
  BY <1>1, GapWords
<1>5. Limit \in 0 .. W - 1 /\ Limit < W
  BY Words
<1>6. HP!GapStart(scan.block) <= Limit /\ HP!FreeLen(scan.block) <= Limit
  BY <1>4, <1>5
<1>7. QED BY <1>3, <1>4, <1>5, <1>6, Words

LEMMA AllocNextKeepsInv ==
  ASSUME Inv, AllocNext
  PROVE  Inv' /\ UNCHANGED HP!vars
<1> DEFINE n == HP!FreeLen(scan.block)
<1>1. /\ call.name = "alloc" /\ frames = <<>> /\ scan.block # 0 /\ FreeLen < Needed
      /\ UNCHANGED <<mem, last, call, frames, ret>>
      /\ scan' = [scan EXCEPT !.room = IF FreeLen > @ THEN FreeLen ELSE @,
                          !.next = scan.block,
                          !.block = mem[scan.block].prev]
  BY DEF AllocNext, AtBlock, Scanning, Exhausted
<1>2. call # Idle
  BY <1>1 DEF Idle
<1>3. FreeLen = n
  BY <1>1, <1>2, AtHand
<1>4. /\ mem[scan.block].prev \in 0 .. W - 1 /\ scan.block \in 0 .. W - 1
      /\ n \in 0 .. W - 1
  BY <1>1, <1>2, WordsAtHand
<1> HIDE DEF n
<1>5. /\ scan' \in [block : 0 .. W - 1, next : 0 .. W - 1, room : 0 .. W - 1,
                    best : 0 .. W - 1, candidate : 0 .. W - 1]
      /\ scan'.block = mem[scan.block].prev
      /\ scan'.next = scan.block
      /\ scan'.room = IF n > scan.room THEN n ELSE scan.room
  BY <1>1, <1>3, <1>4 DEF Inv, TypeOK
<1>6. /\ UNCHANGED HP!vars /\ Passed' = Passed \cup {scan.block}
      /\ \A b : HP!FreeLen(b)' = HP!FreeLen(b)
      /\ (call.name = "alloc" => AllocInv') /\ (call.name = "largest" => LargestInv') => Inv'
  BY <1>1, <1>2, <1>5, WalkOn
<1>7. AllocInv
  BY <1>1, <1>2 DEF Inv, ScanInv
<1>8. AllocInv'
  <2>1. Needed' = Needed
    BY <1>1 DEF Needed
  <2>2. /\ \A b \in Passed : HP!FreeLen(b) < Needed /\ HP!FreeLen(b) <= scan.room
        /\ n < Needed /\ n \in Nat /\ scan.room \in Nat /\ scan.room >= 16
        /\ scan.room \in {16} \cup {HP!FreeLen(b) : b \in Passed}
    BY <1>1, <1>3, <1>4, <1>7 DEF AllocInv, Inv, TypeOK
  <2>3. \A b \in Passed : HP!FreeLen(b) \in Nat
    <3>1. Passed \subseteq Linked
      BY DEF Passed
    <3>2. QED BY <3>1, <1>1, GapWords DEF Inv
  <2>4. \A b \in Passed' : HP!FreeLen(b) < Needed /\ HP!FreeLen(b) <= scan'.room
    BY <1>5, <1>6, <2>2, <2>3 DEF n
  <2>5. scan'.room \in {16} \cup {HP!FreeLen(b) : b \in Passed'} /\ scan'.room >= 16
    BY <1>5, <1>6, <2>2 DEF n
  <2>6. QED BY <2>1, <2>4, <2>5, <1>6 DEF AllocInv
<1>9. QED BY <1>1, <1>6, <1>8

LEMMA LargestNextKeepsInv ==
  ASSUME Inv, LargestNext
  PROVE  Inv' /\ UNCHANGED HP!vars
<1> DEFINE n == HP!FreeLen(scan.block)
           g == HP!GapStart(scan.block)
<1>1. /\ call.name = "largest" /\ frames = <<>> /\ scan.block # 0
      /\ UNCHANGED <<mem, last, call, frames, ret>>
      /\ scan' = [block |-> mem[scan.block].prev,
                  next |-> scan.block,
                  room |-> IF FreeLen > scan.room THEN FreeLen ELSE scan.room,
                  best |-> IF FreeLen > scan.room THEN scan.block ELSE scan.best,
                  candidate |-> IF FreeLen > scan.room THEN Candidate ELSE scan.candidate]
  BY DEF LargestNext, AtBlock, Scanning, Exhausted
<1>2. call # Idle
  BY <1>1 DEF Idle
<1>3. FreeLen = n /\ Candidate = g
  BY <1>1, <1>2, AtHand
<1>4. /\ mem[scan.block].prev \in 0 .. W - 1 /\ scan.block \in 0 .. W - 1
      /\ n \in 0 .. W - 1 /\ g \in 0 .. W - 1
  BY <1>1, <1>2, WordsAtHand
<1> HIDE DEF n, g
<1>5. /\ scan' \in [block : 0 .. W - 1, next : 0 .. W - 1, room : 0 .. W - 1,
                    best : 0 .. W - 1, candidate : 0 .. W - 1]
      /\ scan'.block = mem[scan.block].prev
      /\ scan'.next = scan.block
      /\ n > scan.room => scan'.room = n /\ scan'.best = scan.block /\ scan'.candidate = g
      /\ ~ (n > scan.room) => /\ scan'.room = scan.room /\ scan'.best = scan.best
                              /\ scan'.candidate = scan.candidate
  BY <1>1, <1>3, <1>4 DEF Inv, TypeOK
<1>6. /\ UNCHANGED HP!vars /\ Passed' = Passed \cup {scan.block}
      /\ \A b : HP!FreeLen(b)' = HP!FreeLen(b) /\ HP!GapStart(b)' = HP!GapStart(b)
      /\ (call.name = "alloc" => AllocInv') /\ (call.name = "largest" => LargestInv') => Inv'
  BY <1>1, <1>2, <1>5, WalkOn
<1>7. LargestInv
  BY <1>1, <1>2 DEF Inv, ScanInv
<1>8. LargestInv'
  <2>1. /\ \A b \in Passed : HP!FreeLen(b) <= scan.room
        /\ n \in Nat /\ scan.room \in Nat /\ scan.room >= 16
    BY <1>1, <1>3, <1>4, <1>7 DEF LargestInv, Inv, TypeOK
  <2>2. \A b \in Passed : HP!FreeLen(b) \in Nat /\ b > scan.block
    <3>1. Passed \subseteq Linked
      BY DEF Passed
    <3>2. \A b \in Passed : HP!FreeLen(b) \in Nat
      BY <3>1, <1>1, GapWords DEF Inv
    <3>3. QED BY <3>2 DEF Passed
  <2>3. PICK x : x = scan'.best
    OBVIOUS
  <2>4. /\ HP!FreeLen(scan.best)' = HP!FreeLen(x)
        /\ HP!GapStart(scan.best)' = HP!GapStart(x)
    <3>1. HP!FreeLen(scan.best)' = HP!FreeLen(x)' /\ HP!GapStart(scan.best)' = HP!GapStart(x)'
      BY <2>3 DEF HP!FreeLen, HP!NextOf, HP!Above, HP!GapStart
    <3>2. QED BY <3>1, <1>6
  <2>5. CASE n > scan.room
    <3>1. scan'.room = n /\ x = scan.block /\ scan'.candidate = g
      BY <1>5, <2>3, <2>5
    <3>2. \A b \in Passed' : HP!FreeLen(b) <= n
      BY <1>6, <2>1, <2>2, <2>5 DEF n
    <3>3. \A b \in Passed' : b > x => HP!FreeLen(b) < n
      <4>1. ~ (x > x)
        BY <3>1, <1>4
      <4>2. QED BY <3>1, <4>1, <1>6, <2>1, <2>2, <2>5
    <3>4. n >= 16 /\ x \in Passed' /\ n = HP!FreeLen(x) /\ g = HP!GapStart(x)
      BY <3>1, <1>6, <2>1, <2>5 DEF n, g
    <3>5. QED BY <3>1, <3>2, <3>3, <3>4, <2>3, <2>4, <1>6 DEF LargestInv
  <2>6. CASE ~ (n > scan.room)
    <3>1. scan'.room = scan.room /\ x = scan.best /\ scan'.candidate = scan.candidate
      BY <1>5, <2>3, <2>6
    <3>2. \A b \in Passed' : HP!FreeLen(b) <= scan.room
      BY <1>6, <2>1, <2>2, <2>6 DEF n
    <3>3. scan.room # 16 =>
            /\ x \in Passed' /\ scan.room = HP!FreeLen(x) /\ scan.candidate = HP!GapStart(x)
            /\ \A b \in Passed' : b > x => HP!FreeLen(b) < scan.room
      <4>1. SUFFICES ASSUME scan.room # 16
                     PROVE  /\ x \in Passed' /\ scan.room = HP!FreeLen(x)
                            /\ scan.candidate = HP!GapStart(x)
                            /\ \A b \in Passed' : b > x => HP!FreeLen(b) < scan.room
        OBVIOUS
      <4>2. /\ x \in Passed /\ scan.room = HP!FreeLen(x) /\ scan.candidate = HP!GapStart(x)
            /\ \A b \in Passed : b > x => HP!FreeLen(b) < scan.room
        BY <3>1, <4>1, <1>7 DEF LargestInv
      <4>3. ~ (scan.block > x)
        <5>1. x \in Linked /\ Linked \subseteq Nat /\ x > scan.block
          BY <4>2 DEF Passed, Inv, MemInv, IsList
        <5>2. x \in Nat /\ scan.block \in Nat
          BY <5>1, <1>4
        <5>3. QED BY <5>1, <5>2
      <4>4. QED BY <4>2, <4>3, <1>6
    <3>4. QED BY <3>1, <3>2, <3>3, <2>1, <2>3, <2>4, <1>6 DEF LargestInv
  <2>7. QED BY <2>5, <2>6
<1>9. QED BY <1>1, <1>6, <1>8

LEMMA ResizeFreeNextKeepsInv ==
  ASSUME Inv, ResizeNext \/ FreeNext
  PROVE  Inv' /\ UNCHANGED HP!vars
<1>1. /\ call.name \in {"resize", "free"} /\ frames = <<>> /\ scan.block # 0
      /\ scan.block # BlockOf(call.ptr)
      /\ UNCHANGED <<mem, last, call, frames, ret>>
      /\ scan' = [scan EXCEPT !.next = IF call.name = "free" THEN Limit ELSE scan.block,
                              !.block = mem[scan.block].prev]
  BY DEF ResizeNext, FreeNext, AtBlock, Scanning, Exhausted
<1>2. call # Idle
  BY <1>1 DEF Idle
<1>3. /\ mem[scan.block].prev \in 0 .. W - 1 /\ scan.block \in 0 .. W - 1
      /\ Limit \in 0 .. W - 1
  BY <1>1, <1>2, WordsAtHand
<1>4. /\ scan' \in [block : 0 .. W - 1, next : 0 .. W - 1, room : 0 .. W - 1,
                    best : 0 .. W - 1, candidate : 0 .. W - 1]
      /\ scan'.block = mem[scan.block].prev
      /\ scan'.next = IF call.name = "free" THEN Limit ELSE scan.block
  BY <1>1, <1>3 DEF Inv, TypeOK
<1>5. QED BY <1>1, <1>2, <1>4, WalkOn
-----------------------------------------------------------------------------
(* The block that a memory pointer stands for is the same with words and   *)
(* with numbers, if there is such a block.                                 *)
LEMMA SameBlockOf ==
  ASSUME Inv, frames = <<>>, NEW p \in Pointers, NEW b \in Linked
  PROVE  BlockOf(p) = b <=> HP!BlockOf(p) = b
<1>1. b \in Nat /\ b + 16 <= Limit
  BY GapWords DEF Inv
<1>2. p \in Nat /\ p < W /\ Limit + 16 <= W /\ Limit \in Nat /\ W \in Nat /\ W >= 16
  BY Words
<1>3. HP!BlockOf(p) = p - 16
  BY HeapAssumed DEF HP!BlockOf
<1>4. CASE 16 <= p
  <2>1. Minus(p, 16) = p - 16
    BY <1>2, <1>4, NoWrapping
  <2>2. QED BY <2>1, <1>3, HeapAssumed DEF BlockOf
<1>5. CASE p < 16
  <2>1. (p - 16) % W = p - 16 + W
    BY <1>2, <1>5
  <2>2. BlockOf(p) = p - 16 + W
    BY <2>1, HeapAssumed DEF BlockOf, Minus
  <2>3. BlockOf(p) > b /\ HP!BlockOf(p) < b
    BY <2>2, <1>1, <1>2, <1>3, <1>5
  <2>4. b \in Int /\ BlockOf(p) \in Int /\ HP!BlockOf(p) \in Int
    BY <2>2, <1>1, <1>2, <1>3
  <2>5. QED BY <2>3, <2>4
<1>6. QED BY <1>2, <1>4, <1>5

(* A block made in a gap: in memory and as the callers see it.             *)
LEMMA Placed ==
  ASSUME Inv, frames = <<>>, frames' = <<>>, NEW b \in Linked,
         NEW g, g = HP!GapStart(b), NEW len \in Nat, NEW parent \in Linked,
         16 <= len, len <= HP!FreeLen(b), DOMAIN mem = Linked,
         MakeBlock(g, len, b, parent)
  PROVE  /\ HP!MakeBlock(g, len, parent) /\ mem'[g].end - MemPtr(g) = len - 16
         /\ MemPtr(g) = HP!MemPtr(g) /\ HP!MemPtr(g) \in 0 .. W - 1
         /\ IsList(mem', last', Linked') /\ DOMAIN mem' = Linked'
         /\ DOMAIN mem' \subseteq 0 .. W - 1 /\ last' \in DOMAIN mem'
         /\ mem' \in [DOMAIN mem' -> [prev : 0 .. W - 1, parent : 0 .. W - 1,
                                      end : 0 .. W - 1, next : 0 .. W - 1]]
<1>1. /\ b \in Nat /\ g \in Nat /\ b < g
      /\ HP!NextOf(b) \in Nat /\ HP!NextOf(b) <= Limit
      /\ HP!FreeLen(b) \in Nat /\ g + HP!FreeLen(b) = HP!NextOf(b)
      /\ \A c \in Linked : b < c => HP!NextOf(b) <= c
  BY GapWords DEF Inv
<1>2. /\ Linked \subseteq Nat /\ Linked \subseteq 0 .. W - 1 /\ parent \in Nat
      /\ Limit \in Nat /\ Limit + 16 <= W /\ W \in Nat
  <2>1. Linked \subseteq 0 .. W - 1
    BY DEF Inv, TypeOK
  <2>2. QED BY <2>1, Words
<1>3. g + len <= HP!NextOf(b) /\ g + len < W /\ g + 16 < W /\ g < W
  BY <1>1, <1>2
<1>4. Plus(g, len) = g + len /\ Plus(g, 16) = g + 16
  BY <1>1, <1>2, <1>3, NoWrapping
<1>5. \A c \in Linked : b < c => g < c
  BY <1>1, <1>2, <1>3
<1>6. g \notin Linked
  <2>1. SUFFICES ASSUME g \in Linked PROVE FALSE
    OBVIOUS
  <2>2. g < g
    BY <2>1, <1>1, <1>5
  <2>3. QED BY <2>2, <1>1
<1>7. Typed(mem) /\ IsList(mem, last, Linked)
  BY TypedMem DEF Inv, MemInv
<1>8. /\ IsList(mem', last', Linked \cup {g})
      /\ DOMAIN mem' = DOMAIN mem \cup {g}
      /\ Typed(mem')
      /\ mem'[g].end = Plus(g, len) /\ mem'[g].parent = parent
      /\ \A c \in DOMAIN mem : mem'[c].end = mem[c].end /\ mem'[c].parent = mem[c].parent
      /\ last' \in {last, g}
      /\ \A c \in DOMAIN mem' :
           mem'[c].prev \in {b, g} \cup {mem[d].prev : d \in DOMAIN mem} /\
           mem'[c].next \in {g} \cup {mem[d].next : d \in DOMAIN mem}
  BY <1>1, <1>2, <1>5, <1>6, <1>7, MakeBlockList
<1>9. Linked' = Linked \cup {g}
  <2>1. Reach(mem', last') = Linked \cup {g}
    BY <1>8, ListReached
  <2>2. Linked' = Reach(mem', last')
    BY DEF Linked, Reach
  <2>3. QED BY <2>1, <2>2
<1>10. HP!MakeBlock(g, len, parent)
  <2>1. HeapBlocks = [c \in Linked |-> [end |-> mem[c].end, parent |-> mem[c].parent]]
    BY HeapIsList
  <2>2. HP!Live = Linked
    BY HeapIsList
  <2>3. HeapBlocks' = [c \in Linked' |-> [end |-> mem'[c].end, parent |-> mem'[c].parent]]
    BY DEF HeapBlocks, Doomed
  <2>4. HeapBlocks' = [c \in Linked \cup {g} |->
                         IF c = g THEN [end |-> g + len, parent |-> parent] ELSE HeapBlocks[c]]
    BY <2>1, <2>3, <1>4, <1>6, <1>8, <1>9
  <2>5. QED BY <2>2, <2>4 DEF HP!MakeBlock, HP!Block
<1>11. DOMAIN mem' \subseteq 0 .. W - 1 /\ last' \in DOMAIN mem'
  <2>1. g \in 0 .. W - 1
    BY <1>1, <1>2, <1>3
  <2>2. last \in Linked
    BY <1>7 DEF IsList
  <2>3. QED BY <2>1, <2>2, <1>2, <1>8
<1>12. mem' \in [DOMAIN mem' -> [prev : 0 .. W - 1, parent : 0 .. W - 1,
                                 end : 0 .. W - 1, next : 0 .. W - 1]]
  <2>1. \A d \in DOMAIN mem : /\ mem[d].prev \in 0 .. W - 1 /\ mem[d].next \in 0 .. W - 1
                              /\ mem[d].parent \in 0 .. W - 1 /\ mem[d].end \in 0 .. W - 1
    BY DEF Inv, TypeOK
  <2>2. g \in 0 .. W - 1 /\ b \in 0 .. W - 1 /\ parent \in 0 .. W - 1
    BY <1>1, <1>2, <1>3
  <2>3. g + len \in 0 .. W - 1
    BY <1>1, <1>2, <1>3
  <2>4. \A c \in DOMAIN mem' :
          /\ mem'[c].prev \in 0 .. W - 1 /\ mem'[c].next \in 0 .. W - 1
          /\ mem'[c].parent \in 0 .. W - 1 /\ mem'[c].end \in 0 .. W - 1
    BY <2>1, <2>2, <2>3, <1>4, <1>8
  <2>5. QED BY <2>4, <1>8 DEF Typed
<1>13. MemPtr(g) = HP!MemPtr(g) /\ HP!MemPtr(g) \in 0 .. W - 1
  <2>1. g + 16 \in 0 .. W - 1
    BY <1>1, <1>2, <1>3
  <2>2. MemPtr(g) = g + 16 /\ HP!MemPtr(g) = g + 16
    BY <1>4, HeapAssumed DEF MemPtr, HP!MemPtr
  <2>3. QED BY <2>1, <2>2
<1>14. mem'[g].end - MemPtr(g) = len - 16
  <2>1. mem'[g].end = g + len /\ MemPtr(g) = g + 16
    BY <1>4, <1>8, HeapAssumed DEF MemPtr
  <2>2. QED BY <2>1, <1>1
<1>15. QED BY <1>8, <1>9, <1>10, <1>11, <1>12, <1>13, <1>14

(* Results: the two modules' agree.                                        *)
LEMMA SameResults ==
  /\ \A v : Success(v) = HP!Success(v)
  /\ NoMemory = HP!NoMemory /\ NoMatch = HP!NoMatch
  /\ \A room \in 16 .. W - 1 :
       Refusal(room) = HP!Refusal(room) /\ Refusal(room).value \in 0 .. W - 1
<1>1. ASSUME NEW room \in 16 .. W - 1
      PROVE  Refusal(room) = HP!Refusal(room) /\ Refusal(room).value \in 0 .. W - 1
  <2>1. Minus(room, 16) = room - 16 /\ room - 16 \in 0 .. W - 1 /\ 0 \in 0 .. W - 1
    BY Words, NoWrapping
  <2>2. QED BY <2>1, HeapAssumed
          DEF Refusal, HP!Refusal, NoMemory, HP!NoMemory, Shortage, HP!Shortage
<1>2. QED BY <1>1 DEF Success, HP!Success, NoMemory, HP!NoMemory, NoMatch, HP!NoMatch

(* A call that returns is a step of the heap.                              *)
LEMMA ReturnTypes ==
  ASSUME NEW v, Return(v), v.value \in 0 .. W - 1,
         DOMAIN mem' \subseteq 0 .. W - 1, last' \in DOMAIN mem',
         mem' \in [DOMAIN mem' -> [prev : 0 .. W - 1, parent : 0 .. W - 1,
                                   end : 0 .. W - 1, next : 0 .. W - 1]]
  PROVE  TypeOK' /\ HeapRet' = v
<1>1. 0 \in 0 .. W - 1 /\ 16 \in 0 .. W - 1 /\ Limit \in 0 .. W - 1
  BY Words
<1>2. QED BY <1>1, HeapAssumed DEF Return, TypeOK, Idle, ScanFrom, HeapRet
(* At its end a walk has passed every block.                               *)
LEMMA AllPassed ==
  ASSUME Inv, scan.block = 0
  PROVE  Passed = Linked
<1>1. Linked \subseteq Nat \ {0}
  BY DEF Inv, MemInv, IsList
<1>2. \A b \in Linked : b > scan.block
  BY <1>1
<1>3. QED BY <1>2 DEF Passed

LEMMA AllocHereKeepsInv ==
  ASSUME Inv, NoWrap, AllocHere
  PROVE  /\ Inv' /\ HP!Malloc(call.len, call.ptr)
         /\ call.len \in Lengths /\ call.ptr \in Pointers
         /\ mem'[Candidate].end - MemPtr(Candidate) = call.len
<1> DEFINE b == scan.block
           g == HP!GapStart(b)
           q == BlockOf(call.ptr)
<1>1. /\ call.name = "alloc" /\ frames = <<>> /\ b # 0 /\ FreeLen >= Needed
      /\ MakeBlock(Candidate, Needed, b, q)
      /\ Return(Success(MemPtr(Candidate))) /\ frames' = <<>>
  BY DEF AllocHere, AtBlock, Scanning, Exhausted, Return
<1>2. call # Idle
  BY <1>1 DEF Idle
<1>3. b \in Linked /\ FreeLen = HP!FreeLen(b) /\ Candidate = g
  BY <1>1, <1>2, AtHand
<1>4. call.len \in Lengths /\ call.ptr \in Pointers /\ q \in Linked /\ DOMAIN mem = Linked
  BY <1>1, <1>2 DEF Inv, CallInv
<1>5. call.len \in Nat /\ Needed = call.len + 16
  <2>1. call.len + 16 < W /\ call.len \in Nat
    BY <1>4, Words, HeapAssumed DEF NoWrap
  <2>2. QED BY <2>1, NoWrapping, HeapAssumed DEF Needed
<1>6. HP!FreeLen(b) \in Nat
  BY <1>1, <1>3, GapWords DEF Inv
<1>7. Needed \in Nat /\ 16 <= Needed /\ Needed <= HP!FreeLen(b)
  BY <1>1, <1>3, <1>5, <1>6
<1>8. PICK x : x = g
  OBVIOUS
<1> HIDE DEF g
<1>9. /\ HP!MakeBlock(x, Needed, q) /\ mem'[x].end - MemPtr(x) = Needed - 16
      /\ MemPtr(x) = HP!MemPtr(x) /\ HP!MemPtr(x) \in 0 .. W - 1
      /\ IsList(mem', last', Linked') /\ DOMAIN mem' = Linked'
      /\ DOMAIN mem' \subseteq 0 .. W - 1 /\ last' \in DOMAIN mem'
      /\ mem' \in [DOMAIN mem' -> [prev : 0 .. W - 1, parent : 0 .. W - 1,
                                   end : 0 .. W - 1, next : 0 .. W - 1]]
  <2>1. x = HP!GapStart(b)
    BY <1>8 DEF g
  <2>2. MakeBlock(x, Needed, b, q)
    BY <1>1, <1>3, <1>8
  <2> HIDE DEF b, q
  <2>3. QED BY <2>1, <2>2, <1>1, <1>3, <1>4, <1>7, Placed
<1>10. Return(Success(HP!MemPtr(x)))
  BY <1>1, <1>3, <1>8, <1>9
<1>11. TypeOK' /\ HeapRet' = HP!Success(HP!MemPtr(x))
  BY <1>9, <1>10, ReturnTypes, SameResults DEF Success
<1>12. HP!BlockOf(call.ptr) = q
  BY <1>1, <1>4, SameBlockOf
<1>13. HP!Malloc(call.len, call.ptr)
  <2>1. AllocInv /\ HP!Live = Linked
    BY <1>1, <1>2, HeapIsList DEF Inv, ScanInv
  <2>2. \A c \in HP!Live : c > b => HP!FreeLen(c) < Needed
    BY <2>1 DEF AllocInv, Passed
  <2>3. HP!FreeLen(b) >= Needed
    BY <1>1, <1>3
  <2>4. Needed = call.len + HP!HeaderSize
    BY <1>5, HeapAssumed
  <2>5. HP!MakeBlock(HP!GapStart(b), Needed, q) /\ HeapRet' = HP!Success(HP!MemPtr(HP!GapStart(b)))
    BY <1>8, <1>9, <1>11 DEF g
  <2> HIDE DEF b, q
  <2>6. QED BY <2>1, <2>2, <2>3, <2>4, <2>5, <1>3, <1>4, <1>12 DEF HP!Malloc
<1>14. HP!HeapInv'
  BY <1>4, <1>13, HeapAssumed, Words, HP!MallocKeepsInv DEF Inv
<1>15. mem'[Candidate].end - MemPtr(Candidate) = call.len
  <2>1. mem'[x].end - MemPtr(x) = call.len
    BY <1>5, <1>9
  <2>2. QED BY <2>1, <1>3, <1>8
<1>16. QED BY <1>4, <1>9, <1>10, <1>11, <1>13, <1>14, <1>15, Returns

LEMMA LargestEndKeepsInv ==
  ASSUME Inv, LargestEnd
  PROVE  Inv' /\ HP!MallocLargest(call.ptr) /\ call.ptr \in Pointers
<1> DEFINE b == scan.best
           g == HP!GapStart(b)
           q == BlockOf(call.ptr)
<1>1. call.name = "largest" /\ frames = <<>> /\ scan.block = 0
  BY DEF LargestEnd, Scanning, Exhausted
<1>2. call # Idle
  BY <1>1 DEF Idle
<1>3. call.ptr \in Pointers /\ q \in Linked /\ DOMAIN mem = Linked
  BY <1>1, <1>2 DEF Inv, CallInv
<1>4. HP!BlockOf(call.ptr) = q /\ HP!Live = Linked
  BY <1>1, <1>3, SameBlockOf, HeapIsList
<1>5. Passed = Linked
  BY <1>1, AllPassed
<1>6. LargestInv
  BY <1>1, <1>2 DEF Inv, ScanInv
<1>7. CASE scan.room = 16
  <2>1. Return(NoMemory) /\ UNCHANGED <<mem, last, frames>>
    BY <1>1, <1>7, HeapAssumed DEF LargestEnd, Return
  <2>2. TypeOK' /\ HeapRet' = HP!NoMemory
    <3>1. TypeOK /\ NoMemory.value \in 0 .. W - 1
      BY Words DEF NoMemory, Inv
    <3>2. QED BY <2>1, <3>1, ReturnTypes, SameResults DEF TypeOK
  <2>3. Linked' = Linked /\ HeapBlocks' = HeapBlocks
    BY <2>1, <1>1, SameList DEF HeapBlocks, Doomed
  <2>4. HP!MallocLargest(call.ptr)
    BY <1>3, <1>4, <1>5, <1>6, <1>7, <2>2, <2>3, HeapAssumed DEF HP!MallocLargest, LargestInv
  <2>5. IsList(mem', last', Linked') /\ DOMAIN mem' = Linked'
    BY <2>1, <2>3, <1>3 DEF Inv, MemInv
  <2>6. HP!HeapInv'
    BY <2>4, <1>3, HeapAssumed, Words, HP!MallocLargestKeepsInv DEF Inv
  <2>7. QED BY <1>3, <2>1, <2>2, <2>4, <2>5, <2>6, Returns
<1>8. CASE scan.room # 16
  <2>1. /\ b \in Linked /\ scan.room >= 16 /\ scan.room = HP!FreeLen(b) /\ scan.candidate = g
        /\ \A c \in Linked : HP!FreeLen(c) <= HP!FreeLen(b)
        /\ \A c \in Linked : c > b => HP!FreeLen(c) < HP!FreeLen(b)
    BY <1>5, <1>6, <1>8 DEF LargestInv
  <2>2. HP!FreeLen(b) \in Nat
    BY <2>1, <1>1, GapWords DEF Inv
  <2>3. PICK x : x = g
    OBVIOUS
  <2>4. PICK n : n = HP!FreeLen(b)
    OBVIOUS
  <2>5. MakeBlock(x, n, b, q) /\ Return(Success(MemPtr(x))) /\ frames' = <<>>
    BY <1>8, <2>1, <2>3, <2>4, HeapAssumed DEF LargestEnd, Return
  <2>6. /\ HP!MakeBlock(x, n, q)
        /\ MemPtr(x) = HP!MemPtr(x) /\ HP!MemPtr(x) \in 0 .. W - 1
        /\ IsList(mem', last', Linked') /\ DOMAIN mem' = Linked'
        /\ DOMAIN mem' \subseteq 0 .. W - 1 /\ last' \in DOMAIN mem'
        /\ mem' \in [DOMAIN mem' -> [prev : 0 .. W - 1, parent : 0 .. W - 1,
                                     end : 0 .. W - 1, next : 0 .. W - 1]]
    <3>1. n \in Nat /\ 16 <= n /\ n <= n /\ n = HP!FreeLen(b) /\ x = HP!GapStart(b)
      BY <2>1, <2>2, <2>3, <2>4
    <3> HIDE DEF b, q, g
    <3>2. QED BY <3>1, <2>1, <2>5, <1>1, <1>3, Placed
  <2>7. TypeOK' /\ HeapRet' = HP!Success(HP!MemPtr(x))
    BY <2>5, <2>6, ReturnTypes, SameResults DEF Success
  <2>8. HP!MallocLargest(call.ptr)
    <3>1. HP!FreeLen(b) > HP!HeaderSize
      BY <1>8, <2>1, <2>2, HeapAssumed
    <3>2. HP!MakeBlock(HP!GapStart(b), HP!FreeLen(b), q)
          /\ HeapRet' = HP!Success(HP!MemPtr(HP!GapStart(b)))
      BY <2>3, <2>4, <2>6, <2>7
    <3> HIDE DEF b, q, g
    <3>3. QED BY <3>1, <3>2, <2>1, <1>3, <1>4 DEF HP!MallocLargest, g
  <2>9. HP!HeapInv'
    BY <2>8, <1>3, HeapAssumed, Words, HP!MallocLargestKeepsInv DEF Inv
  <2>10. QED BY <1>3, <2>5, <2>6, <2>7, <2>8, <2>9, Returns
<1>9. QED BY <1>7, <1>8
LEMMA ResizeHereKeepsInv ==
  ASSUME Inv, NoWrap, ResizeHere
  PROVE  /\ Inv' /\ HP!SetBlock(call.ptr, call.len)
         /\ call.len \in Lengths /\ call.ptr \in Pointers
         /\ ret'.status = "success" => mem'[scan.block].end - MemPtr(scan.block) = call.len
<1> DEFINE b == scan.block
           e == call.ptr + call.len
<1>1. /\ call.name = "resize" /\ frames = <<>> /\ b # 0 /\ b = BlockOf(call.ptr)
      /\ \/ /\ scan.next < NewBrk
            /\ Return(Refusal(Minus(scan.next, b)))
            /\ UNCHANGED <<mem, last>>
         \/ /\ ~ (scan.next < NewBrk)
            /\ mem' = [mem EXCEPT ![b].end = NewBrk]
            /\ Return(Success(0))
            /\ UNCHANGED last
  BY DEF ResizeHere, AtBlock, Scanning, Exhausted
<1>2. call # Idle
  BY <1>1 DEF Idle
<1>3. b \in Linked
  BY <1>1, <1>2, AtHand
<1>4. call.len \in Lengths /\ call.ptr \in Pointers /\ DOMAIN mem = Linked
  BY <1>1, <1>2 DEF Inv, CallInv
<1>5. HP!BlockOf(call.ptr) = b /\ HP!Live = Linked
  BY <1>1, <1>3, <1>4, SameBlockOf, HeapIsList
<1>6. /\ e \in Nat /\ NewBrk = e /\ e < W /\ call.len \in Nat /\ call.ptr \in Nat
  <2>1. e < W
    BY <1>4 DEF NoWrap
  <2>2. call.len \in Nat /\ call.ptr \in Nat
    BY <1>4, HeapAssumed
  <2>3. Plus(call.ptr, call.len) = e
    BY <2>1, <2>2, NoWrapping
  <2>4. QED BY <2>1, <2>2, <2>3 DEF NewBrk
<1>7. scan.next = HP!NextOf(b)
  BY <1>1, <1>2 DEF Inv, ScanInv
<1>8. /\ b \in Nat /\ b + 16 <= HP!NextOf(b) /\ HP!NextOf(b) \in Nat /\ HP!NextOf(b) <= Limit
      /\ Limit < W /\ Limit \in Nat /\ W \in Nat
  BY <1>1, <1>3, GapWords, Words DEF Inv
<1>9. /\ DOMAIN mem \subseteq 0 .. W - 1 /\ last \in DOMAIN mem
      /\ mem \in [DOMAIN mem -> [prev : 0 .. W - 1, parent : 0 .. W - 1,
                                 end : 0 .. W - 1, next : 0 .. W - 1]]
      /\ IsList(mem, last, Linked)
  BY DEF Inv, TypeOK, MemInv
<1>10. frames' = <<>>
  BY <1>1 DEF Return
<1>11. HeapBlocks = [c \in Linked |-> [end |-> mem[c].end, parent |-> mem[c].parent]]
  BY <1>1, HeapIsList
<1>12. CASE /\ scan.next < NewBrk
            /\ Return(Refusal(Minus(scan.next, b)))
            /\ UNCHANGED <<mem, last>>
  <2>1. Minus(scan.next, b) = HP!NextOf(b) - b /\ HP!NextOf(b) - b \in 16 .. W - 1
    <3>1. HP!NextOf(b) < W /\ b <= HP!NextOf(b)
      BY <1>8
    <3>2. Minus(HP!NextOf(b), b) = HP!NextOf(b) - b
      BY <3>1, <1>8, NoWrapping
    <3>3. QED BY <3>2, <1>7, <1>8
  <2>2. PICK n : n = HP!NextOf(b) - b
    OBVIOUS
  <2>3. Return(HP!Refusal(n)) /\ HP!Refusal(n).value \in 0 .. W - 1
    BY <2>1, <2>2, <1>12, SameResults
  <2>4. TypeOK' /\ HeapRet' = HP!Refusal(HP!NextOf(b) - b)
    BY <2>2, <2>3, <1>9, <1>12, ReturnTypes
  <2>5. Linked' = Linked /\ HeapBlocks' = HeapBlocks
    BY <1>12, <1>1, <1>10, SameList DEF HeapBlocks, Doomed
  <2>6. HP!SetBlock(call.ptr, call.len)
    <3>1. call.ptr + call.len > HP!NextOf(b)
      BY <1>6, <1>7, <1>8, <1>12
    <3> HIDE DEF b
    <3>2. QED BY <3>1, <2>4, <2>5, <1>3, <1>5 DEF HP!SetBlock
  <2>7. IsList(mem', last', Linked') /\ DOMAIN mem' = Linked'
    BY <2>5, <1>4, <1>9, <1>12
  <2>8. HP!HeapInv'
    BY <2>6, <1>6, HeapAssumed, HP!SetBlockKeepsInv DEF Inv
  <2>9. ret'.status # "success"
    <3>1. ret' = HP!Refusal(n)
      BY <2>3 DEF Return
    <3>2. QED BY <3>1 DEF HP!Refusal, HP!NoMemory, HP!Shortage
  <2>10. QED BY <1>4, <2>3, <2>4, <2>6, <2>7, <2>8, <2>9, Returns
<1>13. CASE /\ ~ (scan.next < NewBrk)
            /\ mem' = [mem EXCEPT ![b].end = NewBrk]
            /\ Return(Success(0))
            /\ UNCHANGED last
  <2> HIDE DEF b, e
  <2>1. /\ DOMAIN mem' = DOMAIN mem
        /\ mem'[b] = [mem[b] EXCEPT !.end = e]
        /\ \A c \in DOMAIN mem \ {b} : mem'[c] = mem[c]
        /\ mem[b] \in [prev : 0 .. W - 1, parent : 0 .. W - 1, end : 0 .. W - 1, next : 0 .. W - 1]
    BY <1>3, <1>4, <1>6, <1>9, <1>13
  <2>2. /\ \A c \in DOMAIN mem : mem'[c].prev = mem[c].prev /\ mem'[c].next = mem[c].next
                                 /\ mem'[c].parent = mem[c].parent
                                 /\ mem'[c].end = IF c = b THEN e ELSE mem[c].end
    BY <2>1
  <2>3. IsList(mem', last', Linked)
    <3>1. Linked \subseteq DOMAIN mem' /\ DOMAIN mem' \subseteq DOMAIN mem
      BY <2>1, <1>4
    <3>2. QED BY <3>1, <2>2, <1>4, <1>9, <1>13, SameLinks
  <2>4. Linked' = Linked
    <3>1. Reach(mem', last') = Linked
      BY <2>3, ListReached
    <3>2. Linked' = Reach(mem', last')
      BY DEF Linked, Reach
    <3>3. QED BY <3>1, <3>2
  <2>5. e \in 0 .. W - 1 /\ 0 \in 0 .. W - 1
    BY <1>6, <1>8
  <2>6. mem' \in [DOMAIN mem' -> [prev : 0 .. W - 1, parent : 0 .. W - 1,
                                  end : 0 .. W - 1, next : 0 .. W - 1]]
    <3>1. \A c \in DOMAIN mem' : mem'[c] \in [prev : 0 .. W - 1, parent : 0 .. W - 1,
                                  end : 0 .. W - 1, next : 0 .. W - 1]
      BY <2>1, <2>5, <1>9
    <3>2. mem' = [c \in DOMAIN mem' |-> mem'[c]]
      BY <1>9, <1>13
    <3>3. QED BY <3>1, <3>2
  <2>7. TypeOK' /\ HeapRet' = HP!Success(0)
    <3>1. Success(0).value \in 0 .. W - 1
      BY <2>5 DEF Success
    <3>2. QED BY <3>1, <2>1, <2>6, <1>9, <1>13, ReturnTypes, SameResults
  <2>8. HP!SetBlock(call.ptr, call.len)
    <3>1. call.ptr + call.len <= HP!NextOf(b)
      BY <1>6, <1>7, <1>8, <1>13 DEF e
    <3>2. HeapBlocks' = [c \in Linked' |-> [end |-> mem'[c].end, parent |-> mem'[c].parent]]
      BY <1>10 DEF HeapBlocks, Doomed
    <3>3. HeapBlocks' = [HeapBlocks EXCEPT ![b].end = e]
      BY <3>2, <2>2, <2>4, <1>3, <1>4, <1>11
    <3>4. QED BY <3>1, <3>3, <2>7, <1>3, <1>5 DEF HP!SetBlock, e
  <2>9. HP!HeapInv'
    BY <2>8, <1>6, HeapAssumed, HP!SetBlockKeepsInv DEF Inv
  <2>10. mem'[b].end - MemPtr(b) = call.len
    <3>1. b = call.ptr - 16
      BY <1>5, HeapAssumed DEF HP!BlockOf
    <3>2. b + 16 < W
      BY <1>8
    <3>3. MemPtr(b) = b + 16
      BY <3>2, <1>8, NoWrapping, HeapAssumed DEF MemPtr
    <3>4. mem'[b].end = call.ptr + call.len
      BY <2>2, <1>3, <1>4 DEF e
    <3>5. QED BY <3>1, <3>3, <3>4, <1>6
  <2>11. QED BY <1>4, <1>13, <2>1, <2>3, <2>4, <2>7, <2>8, <2>9, <2>10, Returns DEF b
<1>14. QED BY <1>1, <1>12, <1>13

(* A call that is refused, or finds no block to match.                     *)
LEMMA GiveUpKeepsInv ==
  ASSUME Inv, NoWrap, GiveUp
  PROVE  Inv' /\ HP!Next
<1>1. /\ frames = <<>> /\ call # Idle /\ UNCHANGED <<mem, last>>
      /\ IF Exhausted THEN call.name # "largest" ELSE OutOfOrder
      /\ Return(IF ~Exhausted THEN Corrupt
                ELSE IF call.name = "alloc" THEN Refusal(scan.room) ELSE NoMatch)
  BY DEF GiveUp
<1>2. scan.block = 0
  BY <1>1, AtHand DEF Exhausted
<1>3. /\ call.name \in {"alloc", "resize", "free"}
      /\ Return(IF call.name = "alloc" THEN Refusal(scan.room) ELSE NoMatch)
  <2>1. call.name # "byparent" /\ call.name # "none"
    BY <1>1 DEF Inv, CallInv
  <2>2. QED BY <2>1, <1>1, <1>2 DEF Exhausted, Inv, TypeOK
<1>4. Passed = Linked
  BY <1>2, AllPassed
<1>5. call.ptr \in Pointers /\ DOMAIN mem = Linked
  BY <1>1 DEF Inv, CallInv
<1>6. HP!Live = Linked
  BY <1>1, HeapIsList
<1>7. frames' = <<>> /\ Linked' = Linked /\ HeapBlocks' = HeapBlocks
  <2>1. frames' = <<>>
    BY <1>3 DEF Return
  <2>2. QED BY <2>1, <1>1, SameList DEF HeapBlocks, Doomed
<1>8. IsList(mem', last', Linked') /\ DOMAIN mem' = Linked'
  BY <1>1, <1>5, <1>7 DEF Inv, MemInv
<1>9. /\ DOMAIN mem' \subseteq 0 .. W - 1 /\ last' \in DOMAIN mem'
      /\ mem' \in [DOMAIN mem' -> [prev : 0 .. W - 1, parent : 0 .. W - 1,
                                 end : 0 .. W - 1, next : 0 .. W - 1]]
  BY <1>1 DEF Inv, TypeOK
<1>10. CASE call.name = "alloc"
  <2>1. AllocInv /\ call.len \in Lengths /\ BlockOf(call.ptr) \in Linked
    BY <1>1, <1>10 DEF Inv, ScanInv, CallInv
  <2>2. Needed = call.len + 16
    <3>1. call.len + 16 < W /\ call.len \in Nat
      BY <2>1, Words, HeapAssumed DEF NoWrap
    <3>2. QED BY <3>1, NoWrapping, HeapAssumed DEF Needed
  <2>3. scan.room \in 16 .. W - 1
    <3>1. scan.room \in 0 .. W - 1 /\ scan.room >= 16
      BY <2>1 DEF AllocInv, Inv, TypeOK
    <3>2. QED BY <3>1, Words
  <2>4. PICK n : n = scan.room
    OBVIOUS
  <2>5. Return(HP!Refusal(n)) /\ HP!Refusal(n).value \in 0 .. W - 1
    BY <2>3, <2>4, <1>3, <1>10, SameResults
  <2>6. TypeOK' /\ HeapRet' = HP!Refusal(n)
    BY <2>5, <1>9, ReturnTypes
  <2>7. HP!Malloc(call.len, call.ptr)
    <3>1. HP!BlockOf(call.ptr) = BlockOf(call.ptr)
      BY <2>1, <1>1, <1>5, SameBlockOf
    <3>2. \A c \in HP!Live : HP!FreeLen(c) < call.len + HP!HeaderSize
      BY <2>1, <2>2, <1>4, <1>6, HeapAssumed DEF AllocInv
    <3>3. n \in {HP!HeaderSize} \cup {HP!FreeLen(c) : c \in HP!Live} /\ HP!IsMaxFreeLen(n)
      BY <2>1, <2>4, <1>4, <1>6, HeapAssumed DEF AllocInv, HP!IsMaxFreeLen
    <3>4. QED BY <3>1, <3>2, <3>3, <2>1, <2>6, <1>6, <1>7 DEF HP!Malloc
  <2>8. HP!Next
    BY <2>1, <2>7, <1>5 DEF HP!Next
  <2>9. HP!HeapInv'
    BY <2>8, HeapAssumed, HP!NextKeepsHeapInv DEF Inv
  <2>10. QED BY <2>5, <2>6, <2>8, <2>9, <1>8, Returns
<1>11. CASE call.name \in {"resize", "free"}
  <2>1. Return(NoMatch) /\ NoMatch.value \in 0 .. W - 1
    BY <1>3, <1>11, Words DEF NoMatch
  <2>2. TypeOK' /\ HeapRet' = HP!NoMatch
    BY <2>1, <1>9, ReturnTypes, SameResults
  <2>3. BlockOf(call.ptr) \notin Linked
    BY <1>1, <1>4, <1>11 DEF Inv, ScanInv
  <2>4. HP!BlockOf(call.ptr) \notin HP!Live
    BY <2>3, <1>1, <1>5, <1>6, SameBlockOf
  <2>5. Root \in Linked
    BY DEF Inv, MemInv, IsList
  <2>6. HP!Next
    <3>1. CASE call.name = "resize"
      <4>1. call.len \in Lengths
        BY <3>1 DEF Inv, CallInv
      <4>2. HP!SetBlock(call.ptr, call.len)
        BY <2>2, <2>4, <1>7 DEF HP!SetBlock
      <4>3. QED BY <4>1, <4>2, <1>5 DEF HP!Next
    <3>2. CASE call.name = "free"
      <4>1. HP!MFree(call.ptr)
        BY <2>2, <2>4, <2>5, <1>6, <1>7, HeapAssumed DEF HP!MFree
      <4>2. QED BY <4>1, <1>5 DEF HP!Next
    <3>3. QED BY <3>1, <3>2, <1>11
  <2>7. HP!HeapInv'
    BY <2>6, HeapAssumed, HP!NextKeepsHeapInv DEF Inv
  <2>8. QED BY <2>1, <2>2, <2>6, <2>7, <1>8, Returns
<1>12. QED BY <1>3, <1>10, <1>11
-----------------------------------------------------------------------------
(* free_by_parent starts with nothing passed, for the block of the call.   *)
LEMMA FreeBegins ==
  ASSUME Inv, frames = <<>>, NEW b \in Linked, frames' = <<Frame(b, last)>>,
         UNCHANGED <<mem, last, scan, ret>>,
         call'.name \in {"free", "byparent"}, call'.ptr \in Pointers, BlockOf(call'.ptr) = b,
         call' \in [name : {"none", "alloc", "largest", "resize", "free", "byparent"},
                    ptr : 0 .. W - 1, len : 0 .. W - 1],
         call'.name = "free" => b # Root
  PROVE  /\ HP!HeapInv' => Inv'
         /\ HeapRet' = HP!Success(0)
         /\ HP!RemoveBlocks(IF call'.name = "free" THEN HP!Subtree(b) ELSE HP!Subtree(b) \ {b})
<1>1. /\ frames' = <<[owner |-> b, block |-> last]>> /\ Linked' = Linked
      /\ Owned(b)' = Owned(b)
  BY SameList DEF Frame
<1>2. frames' # <<>> /\ Len(frames') = 1 /\ frames'[1] = [owner |-> b, block |-> last]
  BY <1>1
<1>3. Doomed' = IF call'.name = "free" THEN Owned(b) ELSE Owned(b) \ {b}
  <2>1. frames'[1].owner = b
    BY <1>2
  <2>2. Owned(frames[1].owner)' = Owned(b)
    BY <2>1, <1>1 DEF Owned
  <2>3. QED BY <2>1, <2>2, <1>2 DEF Doomed
<1>4. HeapRet' = HP!Success(0)
  BY <1>2 DEF HeapRet, Success, HP!Success
<1>5. HP!RemoveBlocks(IF call'.name = "free" THEN HP!Subtree(b) ELSE HP!Subtree(b) \ {b})
  <2>1. /\ HeapBlocks = [c \in Linked |-> [end |-> mem[c].end, parent |-> mem[c].parent]]
        /\ HP!Live = Linked /\ HP!Subtree(b) = Owned(b)
    BY HeapIsList
  <2>2. HeapBlocks' = [c \in Linked \ Doomed' |-> [end |-> mem[c].end, parent |-> mem[c].parent]]
    BY <1>1 DEF HeapBlocks
  <2>3. QED BY <2>1, <2>2, <1>3 DEF HP!RemoveBlocks
<1>6. ASSUME HP!HeapInv' PROVE Inv'
  <2>1. MemInv'
    BY MemInvKept
  <2>2. TypeOK'
    <3>1. b \in 0 .. W - 1 /\ last \in 0 .. W - 1
      BY DEF Inv, TypeOK, MemInv, IsList
    <3>2. [owner |-> b, block |-> last] \in [owner : 0 .. W - 1, block : 0 .. W - 1]
      BY <3>1
    <3>3. frames' \in Seq([owner : 0 .. W - 1, block : 0 .. W - 1])
      BY <3>2, <1>1
    <3>4. QED BY <3>3 DEF Inv, TypeOK
  <2>3. CallInv'
    BY <1>1, <1>2 DEF Inv, CallInv, Idle
  <2>4. ScanInv'
    BY <1>2 DEF ScanInv
  <2>5. FreeInv'
    <3>1. b \in Owned(b) /\ last \in Linked /\ \A c \in Linked : ~ (c > last)
      <4>1. b \in Owned(b)
        BY OwnedIsOwnedBy, OwnedByProperties
      <4>2. {c \in Linked : c > last} = {} /\ last \in Linked
        BY StepIn DEF Inv, MemInv
      <4>3. QED BY <4>1, <4>2
    <3>2. Owned(frames[1].owner)' = Owned(b)
      BY <1>1, <1>2 DEF Owned
    <3>3. ASSUME NEW i \in 1 .. Depth'
          PROVE  i = 1 /\ frames'[i] = [owner |-> b, block |-> last]
      BY <1>2 DEF Depth
    <3>4. 1 .. Depth' - 1 = {}
      BY <1>2 DEF Depth
    <3>5. QED BY <3>1, <3>2, <3>3, <3>4, <1>1, <1>2 DEF FreeInv
  <2>6. QED BY <2>1, <2>2, <2>3, <2>4, <2>5, <1>6 DEF Inv
<1>7. QED BY <1>4, <1>5, <1>6

LEMMA FreeHereKeepsInv ==
  ASSUME Inv, FreeHere
  PROVE  Inv' /\ HP!MFree(call.ptr) /\ call.ptr \in Pointers
<1> DEFINE b == scan.block
<1>1. /\ call.name = "free" /\ frames = <<>> /\ b # 0 /\ b = BlockOf(call.ptr)
      /\ frames' = <<Frame(b, last)>> /\ UNCHANGED <<mem, last, call, scan, ret>>
  BY DEF FreeHere, AtBlock, Scanning, Exhausted
<1>2. call # Idle
  BY <1>1 DEF Idle
<1>3. b \in Linked
  BY <1>1, <1>2, AtHand
<1>4. call.ptr \in Pointers /\ b # Root
  BY <1>1, <1>2 DEF Inv, CallInv
<1>5. HP!BlockOf(call.ptr) = b /\ HP!Live = Linked
  BY <1>1, <1>3, <1>4, SameBlockOf, HeapIsList
<1>6. call' \in [name : {"none", "alloc", "largest", "resize", "free", "byparent"},
                 ptr : 0 .. W - 1, len : 0 .. W - 1]
  BY <1>1 DEF Inv, TypeOK
<1> HIDE DEF b
<1>7. /\ HP!HeapInv' => Inv'
      /\ HeapRet' = HP!Success(0)
      /\ HP!RemoveBlocks(IF call'.name = "free" THEN HP!Subtree(b) ELSE HP!Subtree(b) \ {b})
  BY <1>1, <1>3, <1>4, <1>6, FreeBegins
<1>8. HP!MFree(call.ptr)
  BY <1>1, <1>3, <1>4, <1>5, <1>7, HeapAssumed DEF HP!MFree
<1>9. HP!HeapInv'
  BY <1>4, <1>8, HeapAssumed, Words, HP!MFreeKeepsInv DEF Inv
<1>10. QED BY <1>4, <1>7, <1>8, <1>9

LEMMA BeginFreeByParentKeepsInv ==
  ASSUME Inv, NEW p \in Pointers, BeginFreeByParent(p)
  PROVE  Inv' /\ HP!FreeByParent(p)
<1> DEFINE b == BlockOf(p)
<1>1. /\ b \in Linked /\ call = Idle /\ frames' = <<Frame(b, last)>>
      /\ call' = [name |-> "byparent", ptr |-> p, len |-> 0]
      /\ UNCHANGED <<mem, last, scan, ret>>
  BY DEF BeginFreeByParent, Live, Call
<1>2. frames = <<>>
  BY <1>1 DEF Inv, CallInv
<1>3. HP!BlockOf(p) = b /\ HP!Live = Linked
  BY <1>1, <1>2, SameBlockOf, HeapIsList
<1>4. call' \in [name : {"none", "alloc", "largest", "resize", "free", "byparent"},
                 ptr : 0 .. W - 1, len : 0 .. W - 1]
  <2>1. p \in 0 .. W - 1 /\ 0 \in 0 .. W - 1
    BY Words
  <2>2. QED BY <2>1, <1>1
<1>5. /\ call'.name = "byparent" /\ call'.ptr = p /\ BlockOf(call'.ptr) = b
  BY <1>1
<1> HIDE DEF b
<1>6. /\ HP!HeapInv' => Inv'
      /\ HeapRet' = HP!Success(0)
      /\ HP!RemoveBlocks(IF call'.name = "free" THEN HP!Subtree(b) ELSE HP!Subtree(b) \ {b})
  BY <1>1, <1>2, <1>4, <1>5, FreeBegins
<1>7. HP!FreeByParent(p)
  BY <1>1, <1>3, <1>5, <1>6 DEF HP!FreeByParent
<1>8. HP!HeapInv'
  BY <1>7, HeapAssumed, Words, HP!FreeByParentKeepsInv DEF Inv
<1>9. QED BY <1>6, <1>7, <1>8
-----------------------------------------------------------------------------
(* The activations, as a sequence.                                         *)
LEMMA Activations ==
  ASSUME Inv, frames # <<>>
  PROVE  /\ Depth \in Nat /\ Depth >= 1
         /\ DOMAIN frames = 1 .. Depth
         /\ \A i \in 1 .. Depth :
              /\ frames[i] \in [owner : 0 .. W - 1, block : 0 .. W - 1]
              /\ frames[i].owner \in Linked
         /\ Linked \subseteq Nat \ {0} /\ Linked \subseteq DOMAIN mem
         /\ frames[1].owner \in Linked /\ HeapRet = Success(0)
<1>1. frames \in Seq([owner : 0 .. W - 1, block : 0 .. W - 1])
  BY DEF Inv, TypeOK
<1>2. /\ Depth \in Nat /\ Depth >= 1 /\ DOMAIN frames = 1 .. Depth
      /\ \A i \in 1 .. Depth : frames[i] \in [owner : 0 .. W - 1, block : 0 .. W - 1]
  <2> DEFINE R == [owner : 0 .. W - 1, block : 0 .. W - 1]
  <2> HIDE DEF R
  <2>1. frames \in Seq(R)
    BY <1>1 DEF R
  <2>2. Len(frames) \in Nat /\ DOMAIN frames = 1 .. Len(frames) /\ Len(frames) # 0
    BY <2>1
  <2>3. \A i \in 1 .. Len(frames) : frames[i] \in R
    BY <2>1
  <2>4. QED BY <2>2, <2>3 DEF Depth, R
<1>3. \A i \in 1 .. Depth : frames[i].owner \in Linked
  <2>1. \A i \in 1 .. Depth : frames[i].owner \in Owned(frames[1].owner)
    BY DEF Inv, FreeInv
  <2>2. Owned(frames[1].owner) \subseteq Linked
    BY DEF Owned
  <2>3. QED BY <2>1, <2>2
<1>4. Linked \subseteq Nat \ {0} /\ Linked \subseteq DOMAIN mem
  BY DEF Inv, MemInv, IsList
<1>5. 1 \in 1 .. Depth
  BY <1>2
<1>6. QED BY <1>2, <1>3, <1>4, <1>5 DEF HeapRet

LEMMA PreviousOf ==
  ASSUME NEW m, NEW l, NEW S, IsList(m, l, S), NEW b \in S
  PROVE  /\ m[b].prev \in S \cup {0}
         /\ \A c \in S : c > m[b].prev => c > b \/ c = b
<1>1. S \subseteq Nat \ {0} /\ \A c \in S : Root <= c
  BY DEF IsList
<1>2. CASE b = Root
  BY <1>1, <1>2, Words DEF IsList
<1>3. CASE b # Root
  <2> DEFINE p == m[b].prev
  <2>1. p \in S /\ p < b /\ \A c \in S : c < b => c <= p
    BY <1>3 DEF IsList
  <2> HIDE DEF p
  <2>2. \A c \in S : c > p => c > b \/ c = b
    BY <2>1, <1>1
  <2>3. QED BY <2>1, <2>2 DEF p
<1>4. QED BY <1>2, <1>3

(* A step of free_by_parent that unlinks nothing.                          *)
LEMMA WalkToFree ==
  ASSUME Inv, frames # <<>>, frames' # <<>>, frames'[1].owner = frames[1].owner,
         frames' \in Seq([owner : 0 .. W - 1, block : 0 .. W - 1]),
         UNCHANGED <<mem, last, call, scan, ret>>
  PROVE  /\ UNCHANGED HP!vars /\ Linked' = Linked
         /\ Owned(frames[1].owner)' = Owned(frames[1].owner)
         /\ FreeInv' => Inv'
<1>1. Linked' = Linked /\ \A b : Owned(b)' = Owned(b)
  BY SameList
<1>2. Owned(frames[1].owner)' = Owned(frames[1].owner)
  BY <1>1 DEF Owned
<1>3. HeapBlocks' = HeapBlocks
  BY <1>1, <1>2 DEF HeapBlocks, Doomed
<1>4. HeapRet' = HeapRet
  BY DEF HeapRet
<1>5. HP!HeapInv'
  BY <1>3, <1>4, HeapAssumed, HP!NextKeepsHeapInv DEF HP!vars, Inv
<1>6. MemInv' /\ TypeOK'
  BY MemInvKept DEF Inv, TypeOK
<1>7. CallInv'
  BY <1>1 DEF Inv, CallInv
<1>8. ScanInv'
  BY DEF ScanInv
<1>9. QED BY <1>1, <1>2, <1>3, <1>4, <1>5, <1>6, <1>7, <1>8 DEF Inv, HP!vars

LEMMA AdvanceKeepsInv ==
  ASSUME Inv, Advance
  PROVE  Inv' /\ UNCHANGED HP!vars
<1> DEFINE c == Top.block
           o == Top.owner
<1>1. /\ frames # <<>> /\ c # 0 /\ mem[c].parent # o
      /\ frames' = [frames EXCEPT ![Depth].block = mem[c].prev]
      /\ UNCHANGED <<mem, last, call, scan, ret>>
  BY DEF Advance, OwnedHere
<1>2. /\ Depth \in Nat /\ Depth >= 1 /\ DOMAIN frames = 1 .. Depth
      /\ \A i \in 1 .. Depth : frames[i] \in [owner : 0 .. W - 1, block : 0 .. W - 1]
      /\ frames \in Seq([owner : 0 .. W - 1, block : 0 .. W - 1])
  BY <1>1, Activations DEF Inv, TypeOK
<1>3. Depth \in 1 .. Depth /\ 1 \in 1 .. Depth
  BY <1>2
<1>4. c \in Linked
  BY <1>1, <1>3 DEF Inv, FreeInv, Top
<1>5. /\ mem[c].prev \in Linked \cup {0}
      /\ \A b \in Linked : b > mem[c].prev => b > c \/ b = c
  BY <1>4, PreviousOf DEF Inv, MemInv
<1>6. mem[c].prev \in 0 .. W - 1
  BY <1>4, <1>1, Activations DEF Inv, TypeOK
<1> DEFINE p == mem[c].prev
<1> HIDE DEF p
<1>7. /\ frames' \in Seq([owner : 0 .. W - 1, block : 0 .. W - 1])
      /\ Len(frames') = Depth /\ frames' # <<>>
      /\ \A i \in 1 .. Depth : frames'[i].owner = frames[i].owner
      /\ \A i \in 1 .. Depth - 1 : frames'[i] = frames[i]
      /\ frames'[Depth].block = p
  BY <1>1, <1>2, <1>3, <1>6 DEF p, Depth
<1>8. /\ UNCHANGED HP!vars /\ Linked' = Linked
      /\ Owned(frames[1].owner)' = Owned(frames[1].owner)
      /\ FreeInv' => Inv'
  BY <1>1, <1>3, <1>7, WalkToFree
<1>9. FreeInv'
  <2>1. Depth' = Depth
    BY <1>7 DEF Depth
  <2>2. /\ call.name \in {"free", "byparent"} /\ frames'[1].owner = BlockOf(call.ptr)
    BY <1>1, <1>3, <1>7 DEF Inv, FreeInv
  <2>3. ASSUME NEW i \in 1 .. Depth
        PROVE  /\ frames'[i].owner \in Owned(frames[1].owner)
               /\ frames'[i].block \in Linked \cup {0}
               /\ \A b \in Linked : b > frames'[i].block => mem[b].parent # frames'[i].owner
               /\ \A j \in 1 .. i - 1 : frames'[i].owner # frames'[j].owner
    <3>1. /\ frames[i].owner \in Owned(frames[1].owner)
          /\ frames[i].block \in Linked \cup {0}
          /\ \A b \in Linked : b > frames[i].block => mem[b].parent # frames[i].owner
          /\ \A j \in 1 .. i - 1 : frames[i].owner # frames[j].owner
      BY <1>1 DEF Inv, FreeInv
    <3>2. \A j \in 1 .. i - 1 : j \in 1 .. Depth
      BY <1>2
    <3>3. CASE i = Depth
      <4>1. frames[i].block = c /\ frames[i].owner = o
        BY <3>3 DEF Top
      <4>2. \A b \in Linked : b > p => mem[b].parent # o
        BY <4>1, <3>1, <1>1, <1>5 DEF p
      <4>3. QED BY <3>1, <3>2, <3>3, <4>1, <4>2, <1>5, <1>7 DEF p
    <3>4. CASE i # Depth
      <4>1. i \in 1 .. Depth - 1
        BY <3>4, <1>2
      <4>2. QED BY <3>1, <3>2, <4>1, <1>7
    <3>5. QED BY <3>3, <3>4
  <2>4. ASSUME NEW i \in 1 .. Depth - 1
        PROVE  frames'[i].block = frames'[i + 1].owner /\ mem[frames'[i].block].parent = frames'[i].owner
    <3>1. frames[i].block = frames[i + 1].owner /\ mem[frames[i].block].parent = frames[i].owner
      BY <1>1 DEF Inv, FreeInv
    <3>2. i + 1 \in 1 .. Depth
      BY <1>2
    <3>3. QED BY <3>1, <3>2, <1>7
  <2>5. QED BY <2>1, <2>2, <2>3, <2>4, <1>1, <1>8 DEF FreeInv
<1>10. QED BY <1>8, <1>9
LEMMA DescendKeepsInv ==
  ASSUME Inv, Descend
  PROVE  Inv' /\ UNCHANGED HP!vars
<1> DEFINE c == Top.block
           o == Top.owner
           f == Frame(c, last)
<1>1. /\ frames # <<>> /\ c # 0 /\ mem[c].parent = o
      /\ frames' = Append(frames, f)
      /\ UNCHANGED <<mem, last, call, scan, ret>>
  BY DEF Descend, OwnedHere
<1>2. /\ Depth \in Nat /\ Depth >= 1 /\ DOMAIN frames = 1 .. Depth
      /\ \A i \in 1 .. Depth : frames[i] \in [owner : 0 .. W - 1, block : 0 .. W - 1]
      /\ \A i \in 1 .. Depth : frames[i].owner \in Linked
      /\ frames \in Seq([owner : 0 .. W - 1, block : 0 .. W - 1])
  BY <1>1, Activations DEF Inv, TypeOK
<1>3. Depth \in 1 .. Depth /\ 1 \in 1 .. Depth
  BY <1>2
<1>4. c \in Linked /\ o \in Linked /\ o = frames[Depth].owner
  BY <1>1, <1>2, <1>3 DEF Inv, FreeInv, Top
<1>5. /\ last \in Linked /\ \A b \in Linked : ~ (b > last)
      /\ c \in 0 .. W - 1 /\ last \in 0 .. W - 1
  <2>1. last \in Linked /\ Linked \subseteq Nat /\ (\A b \in Linked : b <= last) /\ c \in DOMAIN mem
    BY <1>4 DEF Inv, MemInv, IsList
  <2>2. c \in 0 .. W - 1 /\ last \in 0 .. W - 1
    BY <2>1 DEF Inv, TypeOK
  <2>3. QED BY <2>1, <2>2
<1>6. f \in [owner : 0 .. W - 1, block : 0 .. W - 1] /\ f.owner = c /\ f.block = last
  BY <1>5 DEF Frame
<1> HIDE DEF f, c, o
<1>7. /\ frames' \in Seq([owner : 0 .. W - 1, block : 0 .. W - 1])
      /\ Len(frames') = Depth + 1 /\ frames' # <<>>
      /\ \A i \in 1 .. Depth : frames'[i] = frames[i]
      /\ frames'[Depth + 1] = f
  <2> DEFINE R == [owner : 0 .. W - 1, block : 0 .. W - 1]
  <2> HIDE DEF R
  <2>1. frames \in Seq(R) /\ f \in R
    BY <1>2, <1>6 DEF R
  <2>2. frames' \in Seq(R) /\ Len(frames') = Depth + 1
    BY <2>1, <1>1 DEF Depth
  <2>3. (\A i \in 1 .. Depth : frames'[i] = frames[i]) /\ frames'[Depth + 1] = f
    BY <2>1, <1>1 DEF Depth
  <2>4. frames' # <<>>
    BY <2>2, <1>2
  <2>5. QED BY <2>2, <2>3, <2>4 DEF R
<1>8. /\ UNCHANGED HP!vars /\ Linked' = Linked
      /\ Owned(frames[1].owner)' = Owned(frames[1].owner)
      /\ FreeInv' => Inv'
  BY <1>1, <1>3, <1>7, WalkToFree
(* The block at hand owns none of those that are being freed for.          *)
<1>9. \A j \in 1 .. Depth : c # frames[j].owner
  <2>1. SUFFICES ASSUME NEW j \in 1 .. Depth, c = frames[j].owner PROVE FALSE
    OBVIOUS
  <2> DEFINE C == {frames[i].owner : i \in j .. Depth}
  <2>2. C \in SUBSET Linked /\ C # {}
    BY <1>2, <2>1
  <2>3. ASSUME NEW i \in j .. Depth PROVE mem[frames[i].owner].parent \in C
    <3>1. CASE i = j
      <4>1. o \in C
        BY <1>2, <1>4, <2>1
      <4>2. QED BY <3>1, <4>1, <2>1, <1>1
    <3>2. CASE i # j
      <4>1. i - 1 \in 1 .. Depth - 1 /\ i - 1 \in j .. Depth /\ (i - 1) + 1 = i
        BY <3>2, <2>1, <1>2
      <4>2. frames[i - 1].block = frames[i].owner /\ mem[frames[i - 1].block].parent = frames[i - 1].owner
        BY <4>1, <1>1 DEF Inv, FreeInv
      <4>3. frames[i - 1].owner \in C
        BY <4>1
      <4>4. QED BY <4>2, <4>3
    <3>3. QED BY <3>1, <3>2
  <2>4. \A b \in C : mem[b].parent \in C
    BY <2>3
  <2>5. Root \in Linked /\ 0 \notin Linked /\ IsTree(mem, Linked)
    BY DEF Inv, MemInv, IsList
  <2> HIDE DEF C
  <2>6. QED BY <2>2, <2>4, <2>5, NoCycle
<1>10. c \in Owned(frames[1].owner)
  <2>1. o \in Owned(frames[1].owner)
    BY <1>1, <1>3, <1>4 DEF Inv, FreeInv
  <2>2. ClosedIn(mem, Linked, Owned(frames[1].owner))
    BY OwnedIsOwnedBy, OwnedByProperties
  <2>3. QED BY <2>1, <2>2, <1>1, <1>4 DEF ClosedIn
<1>11. FreeInv'
  <2>1. Depth' = Depth + 1
    BY <1>7 DEF Depth
  <2>2. /\ call.name \in {"free", "byparent"} /\ frames'[1].owner = BlockOf(call.ptr)
    BY <1>1, <1>3, <1>7 DEF Inv, FreeInv
  <2>3. ASSUME NEW i \in 1 .. Depth + 1
        PROVE  /\ frames'[i].owner \in Owned(frames[1].owner)
               /\ frames'[i].block \in Linked \cup {0}
               /\ \A b \in Linked : b > frames'[i].block => mem[b].parent # frames'[i].owner
               /\ \A j \in 1 .. i - 1 : frames'[i].owner # frames'[j].owner
    <3>1. CASE i \in 1 .. Depth
      <4>1. /\ frames[i].owner \in Owned(frames[1].owner)
            /\ frames[i].block \in Linked \cup {0}
            /\ \A b \in Linked : b > frames[i].block => mem[b].parent # frames[i].owner
            /\ \A j \in 1 .. i - 1 : frames[i].owner # frames[j].owner
        BY <1>1, <3>1 DEF Inv, FreeInv
      <4>2. \A j \in 1 .. i - 1 : j \in 1 .. Depth
        BY <1>2, <3>1
      <4>3. QED BY <4>1, <4>2, <3>1, <1>7
    <3>2. CASE i = Depth + 1
      <4>1. frames'[i] = f /\ i - 1 = Depth
        BY <3>2, <1>2, <1>7
      <4>2. \A j \in 1 .. Depth : frames'[i].owner # frames'[j].owner
        BY <4>1, <1>6, <1>7, <1>9
      <4>3. QED BY <4>1, <4>2, <1>5, <1>6, <1>10
    <3>3. QED BY <3>1, <3>2, <1>2
  <2>4. ASSUME NEW i \in 1 .. Depth
        PROVE  frames'[i].block = frames'[i + 1].owner /\ mem[frames'[i].block].parent = frames'[i].owner
    <3>1. CASE i = Depth
      BY <3>1, <1>1, <1>2, <1>3, <1>4, <1>6, <1>7 DEF Top, c
    <3>2. CASE i # Depth
      <4>1. i \in 1 .. Depth - 1 /\ i + 1 \in 1 .. Depth
        BY <3>2, <1>2
      <4>2. frames[i].block = frames[i + 1].owner /\ mem[frames[i].block].parent = frames[i].owner
        BY <4>1, <1>1 DEF Inv, FreeInv
      <4>3. QED BY <4>1, <4>2, <1>7
    <3>3. QED BY <3>1, <3>2
  <2>5. \A i \in 1 .. Depth' - 1 : i \in 1 .. Depth
    BY <2>1, <1>2
  <2>6. QED BY <2>1, <2>2, <2>3, <2>4, <2>5, <1>1, <1>8 DEF FreeInv
<1>12. QED BY <1>8, <1>11
(* Headers stay headers when one is unlinked.                              *)
LEMMA UnlinkedWords ==
  ASSUME Inv, NEW c \in Linked \ {Root}
  PROVE  /\ IsList(Unlinked(c), LastWithout(c), Linked \ {c})
         /\ DOMAIN Unlinked(c) = DOMAIN mem /\ Linked \subseteq DOMAIN mem
         /\ \A b \in DOMAIN mem :
              Unlinked(c)[b].end = mem[b].end /\ Unlinked(c)[b].parent = mem[b].parent
         /\ Unlinked(c)[c] = mem[c]
         /\ Unlinked(c) \in [DOMAIN mem -> [prev : 0 .. W - 1, parent : 0 .. W - 1,
                                            end : 0 .. W - 1, next : 0 .. W - 1]]
<1>1. /\ IsList(Unlinked(c), LastWithout(c), Linked \ {c})
      /\ DOMAIN Unlinked(c) = DOMAIN mem
      /\ Typed(Unlinked(c))
      /\ Unlinked(c)[c] = mem[c]
      /\ \A b \in DOMAIN mem :
           Unlinked(c)[b].end = mem[b].end /\ Unlinked(c)[b].parent = mem[b].parent
      /\ \A b \in DOMAIN mem :
           Unlinked(c)[b].prev \in {mem[d].prev : d \in DOMAIN mem} /\
           Unlinked(c)[b].next \in {mem[d].next : d \in DOMAIN mem}
  BY TypedMem, RemoveBlockList DEF Inv, MemInv
<1>2. \A d \in DOMAIN mem :
        /\ mem[d].prev \in 0 .. W - 1 /\ mem[d].next \in 0 .. W - 1
        /\ mem[d].parent \in 0 .. W - 1 /\ mem[d].end \in 0 .. W - 1
  BY DEF Inv, TypeOK
<1> DEFINE u == Unlinked(c)
<1> HIDE DEF u
<1>3. \A b \in DOMAIN mem :
        /\ u[b].prev \in 0 .. W - 1 /\ u[b].next \in 0 .. W - 1
        /\ u[b].parent \in 0 .. W - 1 /\ u[b].end \in 0 .. W - 1
  BY <1>1, <1>2 DEF u
<1>4. u \in [DOMAIN mem -> [prev : 0 .. W - 1, parent : 0 .. W - 1,
                            end : 0 .. W - 1, next : 0 .. W - 1]]
  BY <1>1, <1>3 DEF u, Typed
<1>5. Linked \subseteq DOMAIN mem
  BY DEF Inv, MemInv, IsList
<1>6. QED BY <1>1, <1>4, <1>5 DEF u

LEMMA AscendKeepsInv ==
  ASSUME Inv, Ascend
  PROVE  Inv' /\ UNCHANGED HP!vars
<1> DEFINE d == Depth - 1
           c == frames[d].block
           o == frames[1].owner
<1>1. /\ Depth > 1 /\ frames # <<>> /\ Top.block = 0
      /\ mem' = Unlinked(c) /\ last' = LastWithout(c)
      /\ frames' = [i \in 1 .. d |->
                     IF i < d THEN frames[i] ELSE [frames[d] EXCEPT !.block = mem'[c].prev]]
      /\ UNCHANGED <<call, scan, ret>>
  BY DEF Ascend, RemoveBlock, Depth
<1>2. /\ Depth \in Nat /\ d \in Nat /\ d >= 1 /\ d + 1 = Depth
      /\ \A i \in 1 .. Depth : frames[i] \in [owner : 0 .. W - 1, block : 0 .. W - 1]
      /\ \A i \in 1 .. Depth : frames[i].owner \in Linked
      /\ Linked \subseteq Nat \ {0} /\ Linked \subseteq DOMAIN mem
      /\ frames \in Seq([owner : 0 .. W - 1, block : 0 .. W - 1])
  <2>1. /\ Depth \in Nat
        /\ \A i \in 1 .. Depth : frames[i] \in [owner : 0 .. W - 1, block : 0 .. W - 1]
        /\ \A i \in 1 .. Depth : frames[i].owner \in Linked
        /\ Linked \subseteq Nat \ {0} /\ Linked \subseteq DOMAIN mem
    BY <1>1, Activations
  <2>2. d \in Nat /\ d >= 1 /\ d + 1 = Depth
    BY <2>1, <1>1
  <2>3. frames \in Seq([owner : 0 .. W - 1, block : 0 .. W - 1])
    BY DEF Inv, TypeOK
  <2>4. QED BY <2>1, <2>2, <2>3
<1>3. /\ Depth \in 1 .. Depth /\ 1 \in 1 .. d /\ d \in 1 .. d /\ d \in 1 .. Depth
      /\ 1 \in 1 .. Depth /\ \A i \in 1 .. d : i \in 1 .. Depth
  BY <1>2
<1> HIDE DEF d
<1>4. /\ c = frames[Depth].owner /\ c \in Linked /\ mem[c].parent = frames[d].owner
      /\ frames[d].owner \in Linked
  <2>1. c = frames[d + 1].owner /\ mem[c].parent = frames[d].owner
    BY <1>1, <1>3 DEF Inv, FreeInv, d
  <2>2. QED BY <2>1, <1>2, <1>3
<1>5. c # Root
  BY <1>2, <1>4 DEF Inv, MemInv, IsTree
<1>6. \A b \in Linked : mem[b].parent # c
  <2>1. \A b \in Linked : b > frames[Depth].block => mem[b].parent # frames[Depth].owner
    BY <1>1, <1>3 DEF Inv, FreeInv
  <2>2. \A b \in Linked : b > 0
    BY <1>2
  <2>3. QED BY <2>1, <2>2, <1>1, <1>4 DEF Top
<1>7. \A i \in 1 .. d : frames[i].owner # c
  <2>1. \A i \in 1 .. Depth - 1 : frames[Depth].owner # frames[i].owner
    BY <1>1, <1>3 DEF Inv, FreeInv
  <2>2. QED BY <2>1, <1>4 DEF d
<1>8. c \in Owned(o)
  BY <1>1, <1>3, <1>4 DEF Inv, FreeInv
<1> HIDE DEF c, o
<1>9. /\ IsList(mem', last', Linked \ {c})
      /\ DOMAIN mem' = DOMAIN mem
      /\ \A b \in DOMAIN mem : mem'[b].end = mem[b].end /\ mem'[b].parent = mem[b].parent
      /\ mem'[c] = mem[c]
      /\ mem' \in [DOMAIN mem' -> [prev : 0 .. W - 1, parent : 0 .. W - 1,
                                   end : 0 .. W - 1, next : 0 .. W - 1]]
  <2>1. c \in Linked \ {Root}
    BY <1>4, <1>5
  <2>2. QED BY <2>1, <1>1, UnlinkedWords
<1>10. Linked' = Linked \ {c}
  <2>1. Reach(mem', last') = Linked \ {c}
    BY <1>9, ListReached
  <2>2. Linked' = Reach(mem', last')
    BY DEF Linked, Reach
  <2>3. QED BY <2>1, <2>2
<1>11. /\ IsTree(mem', Linked')
       /\ \A b \in Linked' : OwnedBy(mem', Linked', b) = OwnedBy(mem, Linked, b) \ {c}
  <2>1. Root \in Linked /\ IsTree(mem, Linked)
    BY DEF Inv, MemInv, IsList
  <2>2. \A b \in Linked \ {c} : mem'[b].parent = mem[b].parent
    BY <1>2, <1>9
  <2>3. IsLeaf(mem, Linked, c) /\ SameOwners(mem', mem, Linked \ {c})
    BY <2>2, <1>4, <1>5, <1>6 DEF IsLeaf, SameOwners
  <2>4. /\ IsTree(mem', Linked \ {c})
        /\ \A b \in Linked \ {c} :
             OwnedBy(mem', Linked \ {c}, b) = OwnedBy(mem, Linked, b) \ {c}
    BY <2>1, <2>3, RemoveLeaf
  <2>5. QED BY <2>4, <1>10
<1> DEFINE p == mem[c].prev
<1>12. /\ p \in Linked' \cup {0} /\ p \in 0 .. W - 1
       /\ \A b \in Linked : b > p => b > c \/ b = c
  <2>1. p \in Linked \cup {0} /\ \A b \in Linked : b > p => b > c \/ b = c
    BY <1>4, PreviousOf DEF Inv, MemInv
  <2>2. p # c
    <3>1. p < c
      BY <1>4, <1>5 DEF Inv, MemInv, IsList
    <3>2. c \in Nat
      BY <1>2, <1>4
    <3> HIDE DEF p
    <3>3. QED BY <3>1, <3>2
  <2>3. p \in 0 .. W - 1
    BY <1>2, <1>4 DEF Inv, TypeOK
  <2>4. QED BY <2>1, <2>2, <2>3, <1>10
<1> HIDE DEF p
<1>13. /\ frames' \in Seq([owner : 0 .. W - 1, block : 0 .. W - 1])
       /\ Len(frames') = d /\ frames' # <<>>
       /\ \A i \in 1 .. d : frames'[i].owner = frames[i].owner
       /\ \A i \in 1 .. d - 1 : frames'[i] = frames[i]
       /\ frames'[d].block = p
  <2> DEFINE R == [owner : 0 .. W - 1, block : 0 .. W - 1]
  <2>1. [frames[d] EXCEPT !.block = mem'[c].prev] \in R
        /\ [frames[d] EXCEPT !.block = mem'[c].prev].owner = frames[d].owner
        /\ [frames[d] EXCEPT !.block = mem'[c].prev].block = p
    BY <1>2, <1>3, <1>9, <1>12 DEF p
  <2>2. PICK e \in R : e = [frames[d] EXCEPT !.block = mem'[c].prev]
    BY <2>1
  <2>3. \A i \in 1 .. d : frames[i] \in R
    BY <1>2, <1>3
  <2> HIDE DEF R
  <2>4. frames' = [i \in 1 .. d |-> IF i < d THEN frames[i] ELSE e]
    BY <2>2, <1>1 DEF c
  <2>5. frames' \in [1 .. d -> R]
    BY <2>2, <2>3, <2>4
  <2>6. frames' \in Seq(R) /\ Len(frames') = d
    BY <2>5, <1>2
  <2>7. frames' # <<>>
    BY <2>6, <1>2
  <2>8. frames'[d] = e /\ \A i \in 1 .. d - 1 : frames'[i] = frames[i]
    BY <2>4, <1>2
  <2>9. \A i \in 1 .. d : frames'[i].owner = frames[i].owner
    BY <2>1, <2>2, <2>4, <1>2
  <2>10. QED BY <2>1, <2>2, <2>6, <2>7, <2>8, <2>9 DEF R
<1>14. /\ frames'[1].owner = o /\ o \in Linked' /\ o # c
       /\ Owned(frames[1].owner)' = Owned(o) \ {c}
  <2>1. frames'[1].owner = o
    BY <1>3, <1>13 DEF o
  <2>2. o \in Linked /\ o # c
    BY <1>2, <1>3, <1>7 DEF o
  <2>3. Owned(frames[1].owner)' = OwnedBy(mem', Linked', o)
    BY <2>1 DEF Owned, OwnedBy, ClosedIn
  <2>4. Owned(o) = OwnedBy(mem, Linked, o)
    BY OwnedIsOwnedBy
  <2>5. QED BY <2>1, <2>2, <2>3, <2>4, <1>10, <1>11
<1>15. HeapBlocks' = HeapBlocks
  <2>1. Doomed = IF call.name = "free" THEN Owned(o) ELSE Owned(o) \ {o}
    BY <1>1 DEF Doomed, o
  <2>2. Doomed' = IF call.name = "free" THEN Owned(o) \ {c} ELSE (Owned(o) \ {c}) \ {o}
    BY <1>1, <1>13, <1>14 DEF Doomed
  <2>3. Linked' \ Doomed' = Linked \ Doomed
    BY <2>1, <2>2, <1>8, <1>10, <1>14
  <2>4. \A b \in Linked' : mem'[b].end = mem[b].end /\ mem'[b].parent = mem[b].parent
    BY <1>2, <1>9, <1>10
  <2>5. HeapBlocks' = [b \in Linked' \ Doomed' |-> [end |-> mem'[b].end, parent |-> mem'[b].parent]]
    BY DEF HeapBlocks
  <2>6. QED BY <2>3, <2>4, <2>5 DEF HeapBlocks
<1>16. UNCHANGED HP!vars /\ HP!HeapInv'
  <2>1. HeapRet' = HeapRet
    BY <1>1, <1>13 DEF HeapRet
  <2>2. QED BY <2>1, <1>15, HeapAssumed, HP!NextKeepsHeapInv DEF HP!vars, Inv
<1>17. MemInv'
  BY <1>9, <1>10, <1>11 DEF MemInv
<1>18. TypeOK'
  <2>1. last' \in DOMAIN mem'
    BY <1>9 DEF IsList
  <2>2. DOMAIN mem' \subseteq 0 .. W - 1
    BY <1>9 DEF Inv, TypeOK
  <2>3. QED BY <2>1, <2>2, <1>1, <1>9, <1>13 DEF Inv, TypeOK
<1>19. CallInv'
  BY <1>1, <1>13 DEF Inv, CallInv, FreeInv
<1>20. ScanInv'
  BY <1>13 DEF ScanInv
<1>21. FreeInv'
  <2>1. Depth' = d
    BY <1>13 DEF Depth
  <2>2. call.name \in {"free", "byparent"} /\ frames'[1].owner = BlockOf(call.ptr)
    BY <1>1, <1>14 DEF Inv, FreeInv, o
  <2>3. ASSUME NEW i \in 1 .. d - 1
        PROVE  /\ i \in 1 .. d /\ i + 1 \in 1 .. d
               /\ frames[i].block = frames[i + 1].owner
               /\ mem[frames[i].block].parent = frames[i].owner
    <3>1. i \in 1 .. d /\ i + 1 \in 1 .. d /\ i \in 1 .. Depth - 1
      BY <1>2
    <3>2. QED BY <3>1, <1>1 DEF Inv, FreeInv
  <2>4. ASSUME NEW i \in 1 .. d
        PROVE  /\ frames'[i].owner \in Owned(o) \ {c}
               /\ frames'[i].block \in Linked' \cup {0}
               /\ \A b \in Linked' : b > frames'[i].block => mem'[b].parent # frames'[i].owner
               /\ \A j \in 1 .. i - 1 : frames'[i].owner # frames'[j].owner
    <3>1. /\ frames[i].owner \in Owned(o)
          /\ frames[i].block \in Linked \cup {0}
          /\ \A b \in Linked : b > frames[i].block => mem[b].parent # frames[i].owner
          /\ \A j \in 1 .. i - 1 : frames[i].owner # frames[j].owner
      BY <1>1, <1>3 DEF Inv, FreeInv, o
    <3>2. \A j \in 1 .. i - 1 : j \in 1 .. d
      BY <1>2
    <3>3. /\ frames'[i].owner = frames[i].owner /\ frames[i].owner # c
          /\ \A j \in 1 .. i - 1 : frames'[j].owner = frames[j].owner
      BY <3>2, <1>7, <1>13
    <3>4. \A b \in Linked' : b \in Linked /\ b # c /\ mem'[b].parent = mem[b].parent
      BY <1>2, <1>9, <1>10
    <3>5. CASE i = d
      <4>1. frames[i].block = c
        BY <3>5 DEF c
      <4>2. frames'[i].block = p
        BY <3>5, <1>13
      <4>3. \A b \in Linked' : b > p => mem'[b].parent # frames'[i].owner
        BY <4>1, <3>1, <3>3, <3>4, <1>12
      <4>4. QED BY <4>2, <4>3, <3>1, <3>3, <1>12
    <3>6. CASE i # d
      <4>1. i \in 1 .. d - 1
        BY <3>6, <1>2
      <4>2. frames'[i] = frames[i]
        BY <4>1, <1>13
      <4>3. frames[i].block \in Linked'
        <5>1. frames[i].block = frames[i + 1].owner /\ i + 1 \in 1 .. d
          BY <4>1, <2>3
        <5>2. frames[i].block \in Linked /\ frames[i].block # c
          BY <5>1, <1>2, <1>3, <1>7
        <5>3. QED BY <5>2, <1>10
      <4>4. QED BY <4>2, <4>3, <3>1, <3>3, <3>4
    <3>7. QED BY <3>5, <3>6
  <2>5. ASSUME NEW i \in 1 .. d - 1
        PROVE  frames'[i].block = frames'[i + 1].owner /\ mem'[frames'[i].block].parent = frames'[i].owner
    <3>1. /\ i \in 1 .. d /\ i + 1 \in 1 .. d
          /\ frames[i].block = frames[i + 1].owner
          /\ mem[frames[i].block].parent = frames[i].owner
      BY <2>3
    <3>2. frames'[i] = frames[i] /\ frames'[i + 1].owner = frames[i + 1].owner
      BY <3>1, <1>13
    <3>3. frames[i].block \in DOMAIN mem
      BY <3>1, <1>2, <1>3
    <3>4. QED BY <3>1, <3>2, <3>3, <1>9
  <2>6. QED BY <2>1, <2>2, <2>4, <2>5, <1>1, <1>14 DEF FreeInv
<1>22. QED BY <1>16, <1>17, <1>18, <1>19, <1>20, <1>21 DEF Inv
(* The outermost activation returns: nothing is left that the block owns.  *)
LEMMA FreeEndKeepsInv ==
  ASSUME Inv, FreeEnd
  PROVE  Inv' /\ UNCHANGED HP!vars
<1> DEFINE o == frames[1].owner
<1>1. Depth = 1 /\ frames # <<>> /\ frames[1].block = 0 /\ Return(Success(0))
  BY DEF FreeEnd, Top, Depth
<1>2. /\ o \in Linked /\ Linked \subseteq Nat \ {0} /\ Linked \subseteq DOMAIN mem
      /\ HeapRet = Success(0)
  BY <1>1, Activations
<1>3. \A b \in Linked : mem[b].parent # o
  <2>1. 1 \in 1 .. Depth
    BY <1>1
  <2>2. \A b \in Linked : b > frames[1].block => mem[b].parent # o
    BY <2>1, <1>1 DEF Inv, FreeInv
  <2>3. \A b \in Linked : b > 0
    BY <1>2
  <2>4. QED BY <2>2, <2>3, <1>1
<1>4. Owned(o) = {o}
  <2>1. ClosedIn(mem, Linked, {o})
    BY <1>3 DEF ClosedIn
  <2>2. Owned(o) \subseteq {o} /\ o \in Owned(o)
    BY <2>1, <1>2, OwnedIsOwnedBy, OwnedByProperties
  <2>3. QED BY <2>2
<1>5. /\ call.name \in {"free", "byparent"} /\ o = BlockOf(call.ptr)
      /\ call.name = "free" => o # Root
  BY <1>1 DEF Inv, FreeInv, CallInv
<1>6. Doomed = IF call.name = "free" THEN {o} ELSE {}
  BY <1>1, <1>4 DEF Doomed
<1>7. /\ \A b \in DOMAIN mem : mem[b].end = mem[b].end
      /\ DOMAIN mem \subseteq 0 .. W - 1
      /\ mem \in [DOMAIN mem -> [prev : 0 .. W - 1, parent : 0 .. W - 1,
                                 end : 0 .. W - 1, next : 0 .. W - 1]]
      /\ IsList(mem, last, Linked)
  BY DEF Inv, TypeOK, MemInv
<1> HIDE DEF o
<1>8. \E u, S :
        /\ S = Linked \ Doomed /\ mem' = [b \in S |-> u[b]]
        /\ IsList(u, last', S) /\ S \subseteq DOMAIN u
        /\ u \in [DOMAIN mem -> [prev : 0 .. W - 1, parent : 0 .. W - 1,
                                 end : 0 .. W - 1, next : 0 .. W - 1]]
        /\ \A b \in S : u[b].end = mem[b].end /\ u[b].parent = mem[b].parent
  <2>1. CASE call.name = "free"
    <3>1. /\ mem' = [b \in Linked \ {o} |-> Unlinked(o)[b]]
          /\ last' = LastWithout(o)
      BY <2>1, <1>1 DEF FreeEnd, Top, o
    <3>2. o \in Linked \ {Root}
      BY <2>1, <1>2, <1>5
    <3>3. /\ IsList(Unlinked(o), LastWithout(o), Linked \ {o})
          /\ DOMAIN Unlinked(o) = DOMAIN mem
          /\ \A b \in DOMAIN mem :
               Unlinked(o)[b].end = mem[b].end /\ Unlinked(o)[b].parent = mem[b].parent
          /\ Unlinked(o) \in [DOMAIN mem -> [prev : 0 .. W - 1, parent : 0 .. W - 1,
                                             end : 0 .. W - 1, next : 0 .. W - 1]]
      BY <3>2, UnlinkedWords
    <3>4. Linked \ Doomed = Linked \ {o}
      BY <2>1, <1>6
    <3>5. PICK u : u = Unlinked(o)
      OBVIOUS
    <3>6. /\ mem' = [b \in Linked \ {o} |-> u[b]]
          /\ IsList(u, last', Linked \ {o}) /\ Linked \ {o} \subseteq DOMAIN u
          /\ u \in [DOMAIN mem -> [prev : 0 .. W - 1, parent : 0 .. W - 1,
                                 end : 0 .. W - 1, next : 0 .. W - 1]]
          /\ \A b \in Linked \ {o} : u[b].end = mem[b].end /\ u[b].parent = mem[b].parent
      BY <3>1, <3>3, <3>5, <1>2
    <3>7. QED BY <3>4, <3>6
  <2>2. CASE call.name # "free"
    <3>1. mem' = [b \in Linked |-> mem[b]] /\ last' = last
      BY <2>2, <1>1 DEF FreeEnd
    <3>2. Linked \ Doomed = Linked
      BY <2>2, <1>6
    <3>3. QED BY <3>1, <3>2, <1>2, <1>7
  <2>3. QED BY <2>1, <2>2
<1>9. PICK u, S :
        /\ S = Linked \ Doomed /\ mem' = [b \in S |-> u[b]]
        /\ IsList(u, last', S) /\ S \subseteq DOMAIN u
        /\ u \in [DOMAIN mem -> [prev : 0 .. W - 1, parent : 0 .. W - 1,
                                 end : 0 .. W - 1, next : 0 .. W - 1]]
        /\ \A b \in S : u[b].end = mem[b].end /\ u[b].parent = mem[b].parent
  BY <1>8
<1>10. DOMAIN mem' = S /\ \A b \in S : mem'[b] = u[b]
  BY <1>9
<1>11. IsList(mem', last', S)
  BY <1>9, <1>10, SameLinks
<1>12. Linked' = S
  <2>1. Reach(mem', last') = S
    BY <1>11, ListReached
  <2>2. Linked' = Reach(mem', last')
    BY DEF Linked, Reach
  <2>3. QED BY <2>1, <2>2
<1>13. frames' = <<>>
  BY <1>1 DEF Return
<1>14. HeapBlocks' = HeapBlocks
  <2>1. HeapBlocks' = [b \in S |-> [end |-> mem'[b].end, parent |-> mem'[b].parent]]
    BY <1>12, <1>13 DEF HeapBlocks, Doomed
  <2>2. HeapBlocks = [b \in S |-> [end |-> mem[b].end, parent |-> mem[b].parent]]
    BY <1>9 DEF HeapBlocks
  <2>3. QED BY <2>1, <2>2, <1>9, <1>10
<1>15. TypeOK' /\ HeapRet' = Success(0)
  <2>1. S \subseteq 0 .. W - 1 /\ last' \in S
    BY <1>2, <1>7, <1>9 DEF IsList
  <2>2. mem' \in [DOMAIN mem' -> [prev : 0 .. W - 1, parent : 0 .. W - 1,
                                  end : 0 .. W - 1, next : 0 .. W - 1]]
    BY <1>9, <1>10
  <2>3. Success(0).value \in 0 .. W - 1
    BY Words DEF Success
  <2>4. QED BY <2>1, <2>2, <2>3, <1>1, <1>10, ReturnTypes
<1>16. UNCHANGED HP!vars /\ HP!HeapInv'
  BY <1>2, <1>14, <1>15, HeapAssumed, HP!NextKeepsHeapInv DEF HP!vars, Inv
<1>17. QED BY <1>1, <1>10, <1>11, <1>12, <1>15, <1>16, Returns
-----------------------------------------------------------------------------
(* Every step keeps the invariant, and is a call of the heap or none.      *)
LEMMA NextKeepsInv ==
  ASSUME NoWrap, Inv, [Next]_vars
  PROVE  Inv' /\ [HP!Next]_(HP!vars)
<1>1. CASE Begins
  <2>1. PICK p \in Pointers :
          \/ \E len \in Lengths : BeginAlloc(len, p) \/ BeginResize(p, len)
          \/ BeginLargest(p) \/ BeginFree(p) \/ BeginFreeByParent(p)
    BY <1>1 DEF Begins
  <2>2. CASE \E len \in Lengths : BeginAlloc(len, p)
    BY <2>2, BeginKeepsInv DEF BeginAlloc, Live
  <2>3. CASE \E len \in Lengths : BeginResize(p, len)
    BY <2>3, BeginKeepsInv DEF BeginResize
  <2>4. CASE BeginLargest(p)
    BY <2>4, BeginKeepsInv DEF BeginLargest, Live
  <2>5. CASE BeginFree(p)
    BY <2>5, BeginKeepsInv DEF BeginFree
  <2>6. CASE BeginFreeByParent(p)
    <3>1. Inv' /\ HP!FreeByParent(p)
      BY <2>6, BeginFreeByParentKeepsInv
    <3>2. QED BY <3>1 DEF HP!Next
  <2>7. QED BY <2>1, <2>2, <2>3, <2>4, <2>5, <2>6
<1>2. CASE AllocHere
  <2>1. Inv' /\ HP!Malloc(call.len, call.ptr) /\ call.len \in Lengths /\ call.ptr \in Pointers
    BY <1>2, AllocHereKeepsInv
  <2>2. QED BY <2>1 DEF HP!Next
<1>3. CASE LargestEnd
  <2>1. Inv' /\ HP!MallocLargest(call.ptr) /\ call.ptr \in Pointers
    BY <1>3, LargestEndKeepsInv
  <2>2. QED BY <2>1 DEF HP!Next
<1>4. CASE ResizeHere
  <2>1. /\ Inv' /\ HP!SetBlock(call.ptr, call.len)
        /\ call.len \in Lengths /\ call.ptr \in Pointers
    BY <1>4, ResizeHereKeepsInv
  <2>2. QED BY <2>1 DEF HP!Next
<1>5. CASE FreeHere
  <2>1. Inv' /\ HP!MFree(call.ptr) /\ call.ptr \in Pointers
    BY <1>5, FreeHereKeepsInv
  <2>2. QED BY <2>1 DEF HP!Next
<1>6. CASE GiveUp
  BY <1>6, GiveUpKeepsInv
<1>7. CASE AllocNext
  BY <1>7, AllocNextKeepsInv
<1>8. CASE LargestNext
  BY <1>8, LargestNextKeepsInv
<1>9. CASE ResizeNext \/ FreeNext
  BY <1>9, ResizeFreeNextKeepsInv
<1>10. CASE Descend
  BY <1>10, DescendKeepsInv
<1>11. CASE Advance
  BY <1>11, AdvanceKeepsInv
<1>12. CASE Ascend
  BY <1>12, AscendKeepsInv
<1>13. CASE FreeEnd
  BY <1>13, FreeEndKeepsInv
<1>14. CASE UNCHANGED vars
  <2>1. UNCHANGED <<mem, last, call, scan, frames, ret>>
    BY <1>14 DEF vars
  <2>2. Linked' = Linked /\ \A b : Owned(b)' = Owned(b)
    BY <2>1, SameList
  <2>3. Owned(frames[1].owner)' = Owned(frames[1].owner)
    BY <2>1, <2>2 DEF Owned
  <2>4. HeapBlocks' = HeapBlocks /\ HeapRet' = HeapRet
    BY <2>1, <2>2, <2>3 DEF HeapBlocks, Doomed, HeapRet
  <2>5. UNCHANGED HP!vars
    BY <2>4 DEF HP!vars
  <2>6. HP!HeapInv'
    BY <2>5, HeapAssumed, HP!NextKeepsHeapInv DEF Inv
  <2>7. MemInv' /\ TypeOK' /\ CallInv'
    BY <2>1, <2>2, MemInvKept DEF Inv, TypeOK, CallInv
  <2>8. ScanInv'
    <3>1. /\ HP!NextOf(scan.block)' = HP!NextOf(scan.block)
          /\ \A b : HP!FreeLen(b)' = HP!FreeLen(b)
          /\ HP!FreeLen(scan.best)' = HP!FreeLen(scan.best)
          /\ HP!GapStart(scan.best)' = HP!GapStart(scan.best)
      BY <2>1, <2>4 DEF HP!FreeLen, HP!GapStart, HP!NextOf, HP!Above, HP!Live
    <3>2. Passed' = Passed /\ Needed' = Needed
      BY <2>1, <2>2 DEF Passed, Needed
    <3>3. AllocInv => AllocInv'
      BY <2>1, <3>1, <3>2 DEF AllocInv
    <3>4. LargestInv => LargestInv'
      BY <2>1, <3>1, <3>2 DEF LargestInv
    <3>5. QED BY <2>1, <2>2, <3>1, <3>2, <3>3, <3>4 DEF Inv, ScanInv
  <2>9. FreeInv'
    BY <2>1, <2>2, <2>3 DEF Inv, FreeInv, Depth
  <2>10. QED BY <2>5, <2>6, <2>7, <2>8, <2>9 DEF Inv
<1>15. QED
  BY <1>1, <1>2, <1>3, <1>4, <1>5, <1>6, <1>7, <1>8, <1>9, <1>10, <1>11, <1>12, <1>13, <1>14
  DEF Next, Step
-----------------------------------------------------------------------------
LEMMA InvIsInvariant ==
  ASSUME NoWrap
  PROVE  Spec => []Inv
<1>1. Inv /\ [Next]_vars => Inv'
  BY NextKeepsInv
<1>2. QED BY <1>1, InitInv, PTL DEF Spec

(* Whatever is called, with lengths that do not wrap, memory holds headers *)
(* and the variables words; the call at hand is one that was made.         *)
THEOREM AllocatorTypeCorrect ==
  ASSUME NoWrap
  PROVE  Spec => []TypeOK
<1>1. Inv => TypeOK
  BY DEF Inv
<1>2. QED BY <1>1, InvIsInvariant, PTL

(* make_block and remove_block keep the list strictly ascending from the   *)
(* root to last_block, prev and next mirroring each other, after every     *)
(* turn of every loop, and at every depth of free_by_parent's recursion.   *)
THEOREM AllocatorListInOrder ==
  ASSUME NoWrap
  PROVE  Spec => []ListInOrder
<1>1. Inv => ListInOrder
  BY ListIsInOrder DEF Inv, MemInv
<1>2. QED BY <1>1, InvIsInvariant, PTL

(* However deep free_by_parent recurs, none of its activations ever stands *)
(* on a block that an inner one has unlinked, and no two of them free for  *)
(* the same block.                                                         *)
THEOREM AllocatorWalksStayLinked ==
  ASSUME NoWrap
  PROVE  Spec => []WalksStayLinked
<1>1. Inv => WalksStayLinked
  <2>1. ASSUME Inv PROVE WalksStayLinked
    <3>1. ASSUME NEW i \in 1 .. Depth
          PROVE  /\ frames[i].owner \in Linked /\ frames[i].block \in Linked \cup {0}
                 /\ \A j \in 1 .. i - 1 : frames[i].owner # frames[j].owner
      <4>1. frames # <<>>
        BY <3>1 DEF Depth
      <4>2. frames[i].owner \in Linked
        BY <2>1, <3>1, <4>1, Activations
      <4>3. QED BY <2>1, <3>1, <4>1, <4>2 DEF Inv, FreeInv
    <3>2. QED BY <3>1 DEF WalksStayLinked
  <2>2. QED BY <2>1
<1>2. QED BY <1>1, InvIsInvariant, PTL

(* alloc and resize give exactly the length that was asked for, as long as *)
(* lengths do not wrap; allocator_wrap is what they do otherwise.          *)
THEOREM AllocatorGivesLength ==
  ASSUME NoWrap
  PROVE  Spec => SuccessMeansLength
<1>1. ASSUME Inv
      PROVE  /\ ResizeHere /\ ret'.status = "success" =>
                  mem'[scan.block].end - MemPtr(scan.block) = call.len
             /\ AllocHere => mem'[Candidate].end - MemPtr(Candidate) = call.len
  BY <1>1, ResizeHereKeepsInv, AllocHereKeepsInv
<1>2. QED BY <1>1, InvIsInvariant, PTL DEF SuccessMeansLength

(* The heap that Heap instantiates and the one of HP, whose theorems these *)
(* proofs use, are the same.                                               *)
LEMMA SameMalloc ==
  ASSUME NEW len, NEW p
  PROVE  Heap!Malloc(len, p) <=> HP!Malloc(len, p)
BY Zenon DEF Heap!Malloc, HP!Malloc, Heap!FreeLen, HP!FreeLen, Heap!NextOf,
       HP!NextOf, Heap!Above, HP!Above, Heap!GapStart, HP!GapStart,
       Heap!IsMaxFreeLen, HP!IsMaxFreeLen, Heap!Refusal, HP!Refusal,
       Heap!NoMemory, HP!NoMemory, Heap!Shortage, HP!Shortage, Heap!MakeBlock,
       HP!MakeBlock, Heap!Root, HP!Root, Heap!Live, HP!Live, Heap!Limit,
       HP!Limit, Heap!AlignDown, HP!AlignDown, Heap!AlignUp, HP!AlignUp,
       Heap!HeaderSize, HP!HeaderSize, Heap!BlockOf, HP!BlockOf, Heap!MemPtr,
       HP!MemPtr, Heap!Block, HP!Block, Heap!Success, HP!Success

LEMMA SameMallocLargest ==
  ASSUME NEW p
  PROVE  Heap!MallocLargest(p) <=> HP!MallocLargest(p)
BY Zenon DEF Heap!MallocLargest, HP!MallocLargest, Heap!FreeLen, HP!FreeLen,
       Heap!NextOf, HP!NextOf, Heap!Above, HP!Above, Heap!GapStart,
       HP!GapStart, Heap!NoMemory, HP!NoMemory, Heap!MakeBlock, HP!MakeBlock,
       Heap!Live, HP!Live, Heap!Limit, HP!Limit, Heap!AlignDown, HP!AlignDown,
       Heap!AlignUp, HP!AlignUp, Heap!HeaderSize, HP!HeaderSize, Heap!BlockOf,
       HP!BlockOf, Heap!MemPtr, HP!MemPtr, Heap!Block, HP!Block, Heap!Success,
       HP!Success

LEMMA SameSetBlock ==
  ASSUME NEW p, NEW len
  PROVE  Heap!SetBlock(p, len) <=> HP!SetBlock(p, len)
BY Zenon DEF Heap!SetBlock, HP!SetBlock, Heap!NextOf, HP!NextOf, Heap!Above,
       HP!Above, Heap!Refusal, HP!Refusal, Heap!NoMemory, HP!NoMemory,
       Heap!Shortage, HP!Shortage, Heap!NoMatch, HP!NoMatch, Heap!Live,
       HP!Live, Heap!Limit, HP!Limit, Heap!AlignDown, HP!AlignDown,
       Heap!HeaderSize, HP!HeaderSize, Heap!BlockOf, HP!BlockOf, Heap!Success,
       HP!Success

LEMMA SameMFree ==
  ASSUME NEW p
  PROVE  Heap!MFree(p) <=> HP!MFree(p)
BY Zenon DEF Heap!MFree, HP!MFree, Heap!BlockOf, HP!BlockOf, Heap!HeaderSize,
       HP!HeaderSize, Heap!Root, HP!Root, Heap!AlignUp, HP!AlignUp, Heap!Live,
       HP!Live, Heap!RemoveBlocks, HP!RemoveBlocks, Heap!Subtree, HP!Subtree,
       Heap!ClosedUnderChildren, HP!ClosedUnderChildren, Heap!Success,
       HP!Success, Heap!NoMatch, HP!NoMatch

LEMMA SameFreeByParent ==
  ASSUME NEW p
  PROVE  Heap!FreeByParent(p) <=> HP!FreeByParent(p)
BY Zenon DEF Heap!FreeByParent, HP!FreeByParent, Heap!BlockOf, HP!BlockOf,
       Heap!HeaderSize, HP!HeaderSize, Heap!Live, HP!Live, Heap!RemoveBlocks,
       HP!RemoveBlocks, Heap!Subtree, HP!Subtree, Heap!ClosedUnderChildren,
       HP!ClosedUnderChildren, Heap!Success, HP!Success

LEMMA SameHeap ==
  /\ Heap!Init <=> HP!Init
  /\ Heap!Next <=> HP!Next
  /\ Heap!vars = HP!vars
<1>1. Heap!Init <=> HP!Init
  BY DEF Heap!Init, HP!Init, Heap!Root, HP!Root, Heap!AlignUp, HP!AlignUp, Heap!HeaderSize,
         HP!HeaderSize, Heap!Block, HP!Block, Heap!Success, HP!Success
<1>2. Heap!Next <=> HP!Next
  BY SameMalloc, SameMallocLargest, SameSetBlock, SameMFree, SameFreeByParent, Zenon
     DEF Heap!Next, HP!Next
<1>3. Heap!vars = HP!vars
  BY DEF Heap!vars, HP!vars
<1>4. QED BY <1>1, <1>2, <1>3

(* The linked list in guest memory is the map of blocks that DosHeap says  *)
(* it is: each call of memory_allocator takes effect in one step, with the *)
(* result DosHeap gives it, and all else it does is invisible.  With it,   *)
(* what DosHeapProofs shows of DosHeap holds of the code's list.           *)
THEOREM AllocatorImplementsHeap ==
  ASSUME NoWrap
  PROVE  Spec => ImplementsHeap
<1>1. Init => Heap!Init
  BY InitHeap, SameHeap
<1>2. Inv /\ [Next]_vars => [Heap!Next]_(Heap!vars)
  <2>1. ASSUME Inv, [Next]_vars PROVE [HP!Next]_(HP!vars)
    BY <2>1, NextKeepsInv
  <2>2. ASSUME Inv, [Next]_vars PROVE Heap!Next \/ Heap!vars' = Heap!vars
    <3>1. CASE HP!Next
      BY <3>1, SameHeap
    <3>2. CASE HP!vars' = HP!vars
      BY <3>2 DEF HP!vars, Heap!vars
    <3>3. QED BY <2>1, <2>2, <3>1, <3>2
  <2>3. QED BY <2>2
<1>3. QED BY <1>1, <1>2, InvIsInvariant, PTL DEF ImplementsHeap, Heap!Spec, Spec
===============================================================================
