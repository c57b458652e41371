--------------------------- MODULE CompactionProofs ---------------------------
(***************************************************************************)
(* What Compaction computes, whatever the sizes and the budget: a request  *)
(* never has half of a pair of call and result, has the newest block and   *)
(* fits unless that block alone does not; and a cut that keeps everything  *)
(* from its message on moves only when the room it left is used up.        *)
(***************************************************************************)
EXTENDS Compaction, RecursionFacts, FiniteSetTheorems, SequenceTheorems

-----------------------------------------------------------------------------
(* Sums of sizes.                                                          *)

Kinds == {"user", "text", "call", "result", "summary"}

PartSet == [id : Nat, message : Nat, call : Nat, size : Nat, kind : Kinds]

Histories == Seq(PartSet)

LEMMA HistoryFacts ==
  ASSUME NEW h \in Histories
  PROVE  /\ Len(h) \in Nat /\ DOMAIN h = 1..Len(h) /\ h \in [1..Len(h) -> PartSet]
         /\ \A i \in 1..Len(h) : /\ h[i] \in PartSet
                                /\ h[i].id \in Nat /\ h[i].message \in Nat /\ h[i].call \in Nat
                                /\ h[i].size \in Nat /\ h[i].kind \in Kinds
<1>1. Len(h) \in Nat /\ DOMAIN h = 1..Len(h) /\ \A i \in 1..Len(h) : h[i] \in PartSet
  BY DEF Histories
<1>2. h \in [1..Len(h) -> PartSet]
  BY DEF Histories
<1>3. \A x \in PartSet : /\ x.id \in Nat /\ x.message \in Nat /\ x.call \in Nat
                        /\ x.size \in Nat /\ x.kind \in Kinds
  BY DEF PartSet
<1> QED
  BY <1>1, <1>2, <1>3

\* f adds the sizes of the parts at some positions up.
Sums(f, h, at) ==
    /\ f \in [0..Len(h) -> Nat] /\ f[0] = 0
    /\ \A i \in 1..Len(h) : f[i] = f[i - 1] + (IF i \in at THEN h[i].size ELSE 0)

LEMMA TotalIsSum ==
  ASSUME NEW h \in Histories, NEW at
  PROVE  \E f : Sums(f, h, at) /\ Total(h, at) = f[Len(h)]
<1>1. PICK n : n \in Nat /\ n = Len(h)
  BY HistoryFacts
<1>2. \A i \in 1..n : h[i].size \in Nat
  BY <1>1, HistoryFacts
<1> DEFINE More(i) == IF i \in at THEN h[i].size ELSE 0
           Is(f) == f = [i \in 0..n |-> IF i = 0 THEN 0 ELSE f[i - 1] + (IF i \in at THEN h[i].size ELSE 0)]
<1>3. \A i \in 1..n : More(i) \in Nat
  BY <1>2
<1>4. PICK step : step = [i \in 1..n |-> [v \in Nat |-> v + More(i)]]
  OBVIOUS
<1>5. step \in Steps(n, Nat) /\ \A i \in 1..n, v \in Nat : step[i][v] = v + More(i)
  <2> HIDE DEF More
  <2>1. \A i \in 1..n, v \in Nat : v + More(i) \in Nat
    BY <1>3
  <2> QED
    BY <1>4, <2>1 DEF Steps
<1>6. PICK g : Follows(g, n, Nat, 0, step)
  BY <1>1, <1>5, Recursion
<1>7. \E f : Is(f)
  <2>1. g \in [0..n -> Nat] /\ g[0] = 0 /\ \A i \in 1..n : g[i] = step[i][g[i - 1]]
    BY <1>6 DEF Follows
  <2>2. \A i \in 1..n : g[i] = g[i - 1] + More(i)
    <3>1. \A i \in 1..n : i - 1 \in 0..n
      BY <1>1
    <3> HIDE DEF More
    <3> QED
      BY <1>5, <2>1, <3>1
  <2>3. \A i \in 0..n : g[i] = IF i = 0 THEN 0 ELSE g[i - 1] + More(i)
    <3>1. \A i \in 0..n : i = 0 \/ i \in 1..n
      BY <1>1
    <3> HIDE DEF More
    <3> QED
      BY <2>1, <2>2, <3>1
  <2>4. Is(g)
    BY <2>1, <2>3
  <2> HIDE DEF Is
  <2> QED
    BY <2>4
<1>8. PICK f : Is(f) /\ Total(h, at) = f[n]
  BY <1>1, <1>7 DEF Total
<1>9. DOMAIN f = 0..n /\ f[0] = 0 /\ \A i \in 1..n : f[i] = f[i - 1] + More(i)
  <2>1. \A i \in 1..n : i \in 0..n /\ i # 0
    BY <1>1
  <2> QED
    BY <1>1, <1>8, <2>1
<1> HIDE DEF More, Is
<1>10. \A i \in 0..n : f[i] \in Nat
  <2> DEFINE T == {i \in 0..n : f[i] \in Nat}
  <2>1. 0 \in T
    BY <1>1, <1>9
  <2>2. \A i \in 1..n : i - 1 \in T => i \in T
    BY <1>1, <1>3, <1>9
  <2> HIDE DEF T
  <2>3. 0..n \subseteq T
    BY <1>1, <2>1, <2>2, Induction
  <2> QED
    BY <2>3 DEF T
<1>11. f \in [0..n -> Nat]
  <2>1. f = [i \in 0..n |-> f[i]]
    BY <1>8, <1>9 DEF Is
  <2> QED
    BY <1>10, <2>1
<1> QED
  BY <1>1, <1>8, <1>9, <1>11 DEF Sums, More

LEMMA TotalType ==
  ASSUME NEW h \in Histories, NEW at
  PROVE  Total(h, at) \in Nat
<1>1. Len(h) \in 0..Len(h)
  BY DEF Histories
<1> QED
  BY <1>1, TotalIsSum DEF Sums

\* What is in neither of two sets adds nothing.
LEMMA TotalOfUnion ==
  ASSUME NEW h \in Histories, NEW at, NEW some, NEW others, at \cap DOMAIN h \subseteq some \cup others
  PROVE  Total(h, at) <= Total(h, some) + Total(h, others)
<1>1. PICK n : n \in Nat /\ n = Len(h) /\ DOMAIN h = 1..n
  BY HistoryFacts
<1>2. \A i \in 1..n : h[i].size \in Nat
  BY <1>1, HistoryFacts
<1>3. PICK f : Sums(f, h, at) /\ Total(h, at) = f[n]
  BY <1>1, TotalIsSum
<1>4. PICK g : Sums(g, h, some) /\ Total(h, some) = g[n]
  BY <1>1, TotalIsSum
<1>5. PICK k : Sums(k, h, others) /\ Total(h, others) = k[n]
  BY <1>1, TotalIsSum
<1> DEFINE T == {i \in 0..n : f[i] <= g[i] + k[i]}
<1>6. 0 \in T
  BY <1>1, <1>3, <1>4, <1>5 DEF Sums
<1>7. ASSUME NEW i \in 1..n, i - 1 \in T PROVE i \in T
  <2>1. i \in 0..n /\ i - 1 \in 0..n
    BY <1>1
  <2>2. /\ f[i - 1] \in Nat /\ g[i - 1] \in Nat /\ k[i - 1] \in Nat
        /\ f[i] = f[i - 1] + (IF i \in at THEN h[i].size ELSE 0)
        /\ g[i] = g[i - 1] + (IF i \in some THEN h[i].size ELSE 0)
        /\ k[i] = k[i - 1] + (IF i \in others THEN h[i].size ELSE 0)
    BY <1>1, <1>3, <1>4, <1>5, <2>1 DEF Sums
  <2>3. f[i - 1] <= g[i - 1] + k[i - 1] /\ h[i].size \in Nat
    BY <1>2, <1>7
  <2>4. i \in at => i \in some \/ i \in others
    BY <1>1
  <2> QED
    BY <2>1, <2>2, <2>3, <2>4
<1> HIDE DEF T
<1>8. 0..n \subseteq T
  BY <1>1, <1>6, <1>7, Induction
<1>9. n \in T
  BY <1>1, <1>8
<1> QED
  BY <1>3, <1>4, <1>5, <1>9 DEF T

LEMMA TotalOfNone ==
  ASSUME NEW h \in Histories
  PROVE  Total(h, {}) = 0
<1>1. PICK n : n \in Nat /\ n = Len(h)
  BY DEF Histories
<1>2. PICK f : Sums(f, h, {}) /\ Total(h, {}) = f[n]
  BY <1>1, TotalIsSum
<1> DEFINE T == {i \in 0..n : f[i] = 0}
<1>3. 0 \in T /\ \A i \in 1..n : i - 1 \in T => i \in T
  BY <1>1, <1>2 DEF Sums
<1> HIDE DEF T
<1>4. 0..n \subseteq T
  BY <1>1, <1>3, Induction
<1> QED
  BY <1>1, <1>2, <1>4 DEF T

\* h begins the history longer.
Begins(h, longer) ==
    Len(h) <= Len(longer) /\ \A i \in 1..Len(h) : longer[i] = h[i]

\* What comes later does not change what earlier positions have.
LEMMA TotalOfLonger ==
  ASSUME NEW h \in Histories, NEW longer \in Histories, Begins(h, longer), NEW at, at \subseteq DOMAIN h
  PROVE  Total(longer, at) = Total(h, at)
<1>1. PICK n : n \in Nat /\ n = Len(h) /\ DOMAIN h = 1..n
  BY HistoryFacts
<1>2. PICK m : m \in Nat /\ m = Len(longer) /\ n <= m
  BY <1>1, HistoryFacts DEF Begins
<1>3. PICK f : Sums(f, h, at) /\ Total(h, at) = f[n]
  BY <1>1, TotalIsSum
<1>4. PICK g : Sums(g, longer, at) /\ Total(longer, at) = g[m]
  BY <1>2, TotalIsSum
<1> DEFINE T == {i \in 0..m : g[i] = IF i <= n THEN f[i] ELSE f[n]}
<1>5. 0 \in T
  BY <1>1, <1>2, <1>3, <1>4 DEF Sums
<1>6. ASSUME NEW i \in 1..m, i - 1 \in T PROVE i \in T
  <2>1. i \in 0..m /\ i - 1 \in 0..m /\ g[i] = g[i - 1] + (IF i \in at THEN longer[i].size ELSE 0)
    BY <1>2, <1>4 DEF Sums
  <2>2. CASE i <= n
    <3>1. i \in 1..n /\ i - 1 <= n /\ longer[i] = h[i]
      BY <1>1, <2>2 DEF Begins
    <3>2. f[i] = f[i - 1] + (IF i \in at THEN h[i].size ELSE 0)
      BY <1>1, <1>3, <3>1 DEF Sums
    <3> QED
      BY <1>6, <2>1, <2>2, <3>1, <3>2
  <2>3. CASE ~(i <= n)
    <3>1. i \notin at
      BY <1>1, <2>3
    <3>2. g[i - 1] = f[n]
      <4>1. i - 1 = n \/ ~(i - 1 <= n)
        BY <1>1, <2>3
      <4> QED
        BY <1>6, <4>1
    <3>3. f[n] \in Nat
      BY <1>1, <1>3 DEF Sums
    <3> QED
      BY <2>1, <2>3, <3>1, <3>2, <3>3
  <2> QED
    BY <2>2, <2>3
<1> HIDE DEF T
<1>7. 0..m \subseteq T
  BY <1>2, <1>5, <1>6, Induction
<1>8. m \in T
  BY <1>2, <1>7
<1>9. g[m] = f[n]
  <2>1. m = n \/ ~(m <= n)
    BY <1>1, <1>2
  <2> QED
    BY <1>8, <2>1 DEF T
<1> QED
  BY <1>3, <1>4, <1>9

-----------------------------------------------------------------------------
(* Least and greatest positions.                                           *)

LEMMA MinFacts ==
  ASSUME NEW T, T \subseteq Nat, T # {}
  PROVE  Min(T) \in T /\ \A x \in T : Min(T) <= x
BY LeastMember DEF Min

LEMMA MaxFacts ==
  ASSUME NEW n \in Nat, NEW T, T \subseteq 0..n, T # {}
  PROVE  Max(T) \in T /\ \A x \in T : x <= Max(T)
<1>1. {n - x : x \in T} \subseteq Nat /\ {n - x : x \in T} # {}
  <2>1. \A x \in T : n - x \in Nat
    OBVIOUS
  <2>2. PICK x \in T : TRUE
    OBVIOUS
  <2>3. n - x \in {n - z : z \in T}
    OBVIOUS
  <2> QED
    BY <2>1, <2>3
<1>2. PICK y \in {n - x : x \in T} : \A z \in {n - x : x \in T} : y <= z
  BY <1>1, LeastMember
<1>3. PICK m \in T : y = n - m
  BY <1>2
<1>4. m \in Nat /\ \A x \in T : x \in Nat
  BY <1>3
<1>5. \A x \in T : x <= m
  <2> TAKE x \in T
  <2>1. n - x \in {n - z : z \in T}
    OBVIOUS
  <2>2. n - m <= n - x
    BY <1>2, <1>3, <2>1
  <2> QED
    BY <1>4, <2>2
<1>6. \E k \in T : \A x \in T : k >= x
  BY <1>4, <1>5
<1>7. Max(T) \in T /\ \A x \in T : Max(T) >= x
  BY <1>6 DEF Max
<1> QED
  BY <1>4, <1>7

-----------------------------------------------------------------------------
(* What is selected.                                                       *)

LEMMA SelectedFacts ==
  ASSUME NEW h \in Histories, NEW limit, AlwaysKept(h) \subseteq Blocks(h)
  PROVE  /\ AlwaysKept(h) \subseteq Selected(h, limit) /\ Selected(h, limit) \subseteq Blocks(h)
         /\ Selected(h, limit) = AlwaysKept(h) \/ Cost(h, Selected(h, limit)) <= limit
<1>1. PICK n : n \in Nat /\ n = Len(h)
  BY HistoryFacts
<1>2. PICK V : V = SUBSET Blocks(h)
  OBVIOUS
<1>3. PICK first : first = AlwaysKept(h)
  OBVIOUS
<1> DEFINE With(some, i) ==
             IF i \in Blocks(h) /\ Cost(h, some \cup {i}) <= limit THEN some \cup {i} ELSE some
           Is(f) == f = [i \in 0..n |-> IF i = 0 THEN AlwaysKept(h) ELSE With(f[i - 1], n + 1 - i)]
<1>4. \A some \in V : \A i : With(some, i) \in V
  BY <1>2
<1>5. PICK step : step = [i \in 1..n |-> [some \in V |-> With(some, n + 1 - i)]]
  OBVIOUS
<1>6. step \in Steps(n, V) /\ \A i \in 1..n, some \in V : step[i][some] = With(some, n + 1 - i)
  <2> HIDE DEF With
  <2> QED
    BY <1>4, <1>5 DEF Steps
<1>7. PICK g : Follows(g, n, V, first, step)
  BY <1>1, <1>2, <1>3, <1>6, Recursion
<1>8. \E f : Is(f)
  <2>1. g \in [0..n -> V] /\ g[0] = first /\ \A i \in 1..n : g[i] = step[i][g[i - 1]]
    BY <1>7 DEF Follows
  <2>2. \A i \in 1..n : g[i] = With(g[i - 1], n + 1 - i)
    <3>1. \A i \in 1..n : i - 1 \in 0..n
      BY <1>1
    <3> HIDE DEF With
    <3> QED
      BY <1>6, <2>1, <3>1
  <2>3. \A i \in 0..n : g[i] = IF i = 0 THEN AlwaysKept(h) ELSE With(g[i - 1], n + 1 - i)
    <3>1. \A i \in 0..n : i = 0 \/ i \in 1..n
      BY <1>1
    <3> HIDE DEF With
    <3> QED
      BY <1>3, <2>1, <2>2, <3>1
  <2>4. Is(g)
    <3> HIDE DEF With
    <3> QED
      BY <2>1, <2>3
  <2> HIDE DEF Is
  <2> QED
    BY <2>4
<1>9. PICK f : Is(f) /\ Selected(h, limit) = f[n]
  BY <1>1, <1>8 DEF Selected
<1>10. f[0] = AlwaysKept(h) /\ \A i \in 1..n : f[i] = With(f[i - 1], n + 1 - i)
  <2>1. \A i \in 1..n : i \in 0..n /\ i # 0
    BY <1>1
  <2> HIDE DEF With
  <2> QED
    BY SMTT(40), <1>1, <1>9, <2>1
<1> HIDE DEF Is
<1> DEFINE Good(set) == /\ AlwaysKept(h) \subseteq set /\ set \subseteq Blocks(h)
                        /\ set = AlwaysKept(h) \/ Cost(h, set) <= limit
           T == {i \in 0..n : Good(f[i])}
<1>11. 0 \in T
  BY <1>1, <1>10
<1>12. ASSUME NEW i \in 1..n, i - 1 \in T PROVE i \in T
  <2>1. i \in 0..n /\ Good(f[i - 1]) /\ f[i] = With(f[i - 1], n + 1 - i)
    BY <1>1, <1>10, <1>12
  <2> DEFINE some == f[i - 1]
             b == n + 1 - i
  <2>2. f[i] = some \/ (b \in Blocks(h) /\ Cost(h, some \cup {b}) <= limit /\ f[i] = some \cup {b})
    <3> HIDE DEF some, b
    <3>1. With(some, b) = some \/ (b \in Blocks(h) /\ Cost(h, some \cup {b}) <= limit /\ With(some, b) = some \cup {b})
      OBVIOUS
    <3> HIDE DEF With
    <3> QED
      BY <2>1, <3>1 DEF some, b
  <2> HIDE DEF b
  <2>3. Good(f[i])
    BY <2>1, <2>2
  <2> QED
    BY <2>1, <2>3
<1> HIDE DEF T
<1>13. 0..n \subseteq T
  BY <1>1, <1>11, <1>12, Induction
<1>14. n \in T
  BY <1>1, <1>13
<1> QED
  BY <1>9, <1>14 DEF T

-----------------------------------------------------------------------------
(* Blocks.                                                                 *)

\* Calls have numbers of their own, a result comes after its call, of which it is the only
\* one, and the parts of a message are of one kind.
SaneHistory(h) ==
    /\ \A i \in DOMAIN h :
         /\ h[i].kind = "call" => h[i].call = h[i].id
         /\ h[i].kind = "result" =>
              \E j \in DOMAIN h : j < i /\ h[j].kind = "call" /\ h[j].call = h[i].call
         /\ h[i].kind \notin {"call", "result"} => h[i].call = 0
         /\ h[i].id # 0
    /\ \A i, j \in DOMAIN h :
         h[i].kind = "result" /\ h[j].kind = "result" /\ h[i].call = h[j].call => i = j
    /\ \A i, j \in DOMAIN h :
         /\ h[i].id = h[j].id => i = j
         /\ h[i].message = h[j].message => h[i].kind = h[j].kind

LEMMA BlockFacts ==
  ASSUME NEW h, NEW i \in DOMAIN h
  PROVE  /\ i \in BlockOf(h, i) /\ BlockOf(h, i) \subseteq DOMAIN h
         /\ \A j \in BlockOf(h, i) : BlockOf(h, j) = BlockOf(h, i)
BY DEF BlockOf

\* A part that is no result begins a block.
LEMMA BeginsBlock ==
  ASSUME NEW h \in Histories, SaneHistory(h), NEW i \in DOMAIN h, h[i].kind # "result"
  PROVE  i \in Blocks(h)
<1> SUFFICES ASSUME NEW j \in DOMAIN h, h[i].call # 0, h[j].call = h[i].call PROVE i <= j
  BY HistoryFacts DEF Blocks, BlockOf
<1>1. i \in Nat /\ j \in Nat
  BY HistoryFacts
<1>2. h[i].kind = "call" /\ h[i].call = h[i].id
  BY DEF SaneHistory
<1>3. CASE h[j].kind = "call"
  BY <1>1, <1>2, <1>3 DEF SaneHistory
<1>4. CASE h[j].kind = "result"
  <2>1. PICK k \in DOMAIN h : k < j /\ h[k].kind = "call" /\ h[k].call = h[j].call
    BY <1>4 DEF SaneHistory
  <2>2. k = i
    BY <1>2, <2>1 DEF SaneHistory
  <2> QED
    BY <1>1, <2>1, <2>2
<1>5. h[j].kind \in {"call", "result"}
  BY DEF SaneHistory
<1> QED
  BY <1>3, <1>4, <1>5

\* A history that is not empty has a newest block.
LEMMA NewestBlock ==
  ASSUME NEW h \in Histories, h # <<>>
  PROVE  /\ Blocks(h) \subseteq 1..Len(h) /\ 1 \in Blocks(h)
         /\ Max(Blocks(h)) \in Blocks(h) /\ \A i \in Blocks(h) : i <= Max(Blocks(h))
<1>1. PICK n : n \in Nat /\ n = Len(h) /\ DOMAIN h = 1..n
  BY HistoryFacts
<1>2. n # 0
  BY <1>1 DEF Histories
<1>3. Blocks(h) \subseteq 1..n /\ 1 \in Blocks(h)
  <2>1. 1 \in DOMAIN h /\ \A j \in BlockOf(h, 1) : 1 <= j
    BY <1>1, <1>2 DEF BlockOf
  <2> QED
    BY <1>1, <2>1 DEF Blocks
<1>4. Blocks(h) \subseteq 0..n /\ Blocks(h) # {}
  BY <1>1, <1>3
<1>5. Max(Blocks(h)) \in Blocks(h) /\ \A i \in Blocks(h) : i <= Max(Blocks(h))
  BY <1>1, <1>4, MaxFacts
<1> QED
  BY <1>1, <1>3, <1>5

\* A block has a first part, which names it.
LEMMA FirstOfBlock ==
  ASSUME NEW h \in Histories, NEW i \in DOMAIN h
  PROVE  \E b \in Blocks(h) : /\ i \in BlockOf(h, b) /\ BlockOf(h, b) = BlockOf(h, i)
                              /\ \A j \in BlockOf(h, i) : b <= j
<1>1. BlockOf(h, i) \subseteq Nat /\ BlockOf(h, i) # {}
  BY HistoryFacts, BlockFacts
<1>2. PICK b \in BlockOf(h, i) : \A j \in BlockOf(h, i) : b <= j
  BY <1>1, LeastMember
<1>3. b \in DOMAIN h /\ BlockOf(h, b) = BlockOf(h, i) /\ i \in BlockOf(h, b)
  BY BlockFacts
<1>4. b \in Blocks(h)
  BY <1>2, <1>3 DEF Blocks
<1> QED
  BY <1>2, <1>3, <1>4

\* A part of some blocks that begins a block is one of them.
LEMMA FirstsOfBlocks ==
  ASSUME NEW h \in Histories, NEW K, K \subseteq Blocks(h)
  PROVE  /\ PartsOf(h, K) \subseteq DOMAIN h /\ PartsOf(h, K) \cap Blocks(h) = K
         /\ \A i \in DOMAIN h : \A j \in BlockOf(h, i) : i \in PartsOf(h, K) <=> j \in PartsOf(h, K)
<1>1. \A b \in K : b \in DOMAIN h /\ b \in Nat
  BY HistoryFacts DEF Blocks
<1>2. PartsOf(h, K) \subseteq DOMAIN h /\ K \subseteq PartsOf(h, K)
  BY <1>1, BlockFacts DEF PartsOf
<1>3. ASSUME NEW i \in Blocks(h), NEW b \in K, i \in BlockOf(h, b) PROVE i = b
  <2>1. i \in DOMAIN h /\ i \in Nat /\ b \in Nat /\ b \in DOMAIN h
    BY <1>1, HistoryFacts DEF Blocks
  <2>2. BlockOf(h, i) = BlockOf(h, b) /\ b \in BlockOf(h, b) /\ i \in BlockOf(h, i)
    BY <1>3, <2>1, BlockFacts
  <2>3. i <= b /\ b <= i
    BY <1>3, <2>2 DEF Blocks
  <2> QED
    BY <2>1, <2>3
<1>4. ASSUME NEW i \in DOMAIN h, NEW j \in BlockOf(h, i) PROVE i \in PartsOf(h, K) <=> j \in PartsOf(h, K)
  <2>1. j \in DOMAIN h /\ BlockOf(h, j) = BlockOf(h, i) /\ i \in BlockOf(h, i) /\ j \in BlockOf(h, j)
    BY BlockFacts
  <2>2. \A b \in K : i \in BlockOf(h, b) <=> j \in BlockOf(h, b)
    <3> TAKE b \in K
    <3>1. \A k \in BlockOf(h, b) : BlockOf(h, k) = BlockOf(h, b)
      BY <1>1, BlockFacts
    <3> QED
      BY <2>1, <3>1
  <2> QED
    BY <2>2 DEF PartsOf
<1> QED
  BY <1>2, <1>3, <1>4 DEF PartsOf

\* Nothing pending, every call has its result in its block.
LEMMA PairsAreBlocks ==
  ASSUME NEW h \in Histories, SaneHistory(h), Pending(h) = {}, NEW i \in DOMAIN h, h[i].call # 0
  PROVE  \E j \in BlockOf(h, i) : j # i
<1>1. CASE h[i].kind = "call"
  <2>1. PICK j \in DOMAIN h : h[j].kind = "result" /\ h[j].call = h[i].call
    BY <1>1 DEF Pending
  <2>2. j # i
    BY <1>1, <2>1
  <2> QED
    BY <2>1, <2>2 DEF BlockOf
<1>2. CASE h[i].kind = "result"
  <2>1. PICK j \in DOMAIN h : j < i /\ h[j].call = h[i].call
    BY <1>2 DEF SaneHistory
  <2>2. j # i
    BY <2>1, HistoryFacts
  <2> QED
    BY <2>1, <2>2 DEF BlockOf
<1>3. h[i].kind \in {"call", "result"}
  BY DEF SaneHistory
<1> QED
  BY <1>1, <1>2, <1>3

-----------------------------------------------------------------------------
(* What a request carries.                                                 *)

\* RequestIsSound, of a request r made of the history h.
Sound(h, r) ==
    LET kept == {i \in DOMAIN h : h[i].id \in r.kept}
        blocks == kept \cap Blocks(h)
    IN /\ \A i \in {p \in DOMAIN h : h[p].call # 0} :
            \E j \in BlockOf(h, i) : j # i /\ (i \in kept <=> j \in kept)
       /\ Max(Blocks(h)) \in kept
       /\ Cost(h, blocks) <= r.limit \/ blocks = {Max(Blocks(h))}

\* Blocks that include the newest and fit, unless it is alone, make a request that is sound.
LEMMA BlocksMakeSound ==
  ASSUME NEW h \in Histories, SaneHistory(h), h # <<>>, Pending(h) = {},
         NEW K, K \subseteq Blocks(h), Max(Blocks(h)) \in K, NEW limit,
         Cost(h, K) <= limit \/ K = {Max(Blocks(h))}
  PROVE  Sound(h, [kept |-> {h[i].id : i \in PartsOf(h, K)}, limit |-> limit])
<1> DEFINE r == [kept |-> {h[i].id : i \in PartsOf(h, K)}, limit |-> limit]
           kept == {i \in DOMAIN h : h[i].id \in r.kept}
<1>1. PartsOf(h, K) \subseteq DOMAIN h /\ PartsOf(h, K) \cap Blocks(h) = K
  BY FirstsOfBlocks
<1>2. kept = PartsOf(h, K)
  <2>1. \A i, j \in DOMAIN h : h[i].id = h[j].id => i = j
    BY DEF SaneHistory
  <2> QED
    BY <1>1, <2>1
<1>3. r.limit = limit
  OBVIOUS
<1> HIDE DEF r, kept
<1>4. kept \cap Blocks(h) = K /\ Max(Blocks(h)) \in kept
  BY <1>1, <1>2
<1>5. \A i \in DOMAIN h : \A j \in BlockOf(h, i) : i \in kept <=> j \in kept
  BY <1>2, FirstsOfBlocks
<1>6. \A i \in {p \in DOMAIN h : h[p].call # 0} :
          \E j \in BlockOf(h, i) : j # i /\ (i \in kept <=> j \in kept)
  BY <1>5, PairsAreBlocks
<1>7. Cost(h, kept \cap Blocks(h)) <= r.limit \/ kept \cap Blocks(h) = {Max(Blocks(h))}
  BY <1>3, <1>4
<1>8. Sound(h, r)
  BY <1>4, <1>6, <1>7 DEF Sound, kept
<1> QED
  BY <1>8 DEF r

LEMMA TargetFacts ==
  ASSUME NEW limit \in Nat \ {0}
  PROVE  /\ Target(limit) \in Nat \ {0} /\ Target(limit) <= limit
         /\ Target(limit) = Max({1, (limit * 6) \div 10})
         /\ \A less \in Nat \ {0} : less <= limit => Target(less) <= Target(limit)
<1>1. \A k \in Nat : (k * 6) \div 10 \in Nat /\ (k * 6) \div 10 <= k
  BY Z3
<1>2. \A k, m \in Nat : k <= m => (k * 6) \div 10 <= (m * 6) \div 10
  BY Z3
<1>3. ASSUME NEW k \in Nat
      PROVE  /\ Max({1, (k * 6) \div 10}) \in {1, (k * 6) \div 10}
             /\ 1 <= Max({1, (k * 6) \div 10}) /\ (k * 6) \div 10 <= Max({1, (k * 6) \div 10})
  <2> DEFINE m == (k * 6) \div 10
             T == {1, m}
  <2>1. m \in Nat /\ m <= k
    BY <1>1
  <2> HIDE DEF m
  <2>2. PICK n : n \in Nat /\ n = k + 1
    OBVIOUS
  <2>3. T \subseteq 0..n /\ T # {}
    BY <2>1, <2>2
  <2>4. Max(T) \in T /\ \A x \in T : x <= Max(T)
    <3> HIDE DEF T
    <3> QED
      BY <2>2, <2>3, MaxFacts
  <2> QED
    BY <2>4 DEF m
<1> QED
  BY <1>1, <1>2, <1>3 DEF Target

-----------------------------------------------------------------------------
(* The inductive invariant.                                                *)

\* A cut is at a message whose parts begin blocks.
CutsBeginBlocks ==
    \A i \in DOMAIN parts : parts[i].message \in {memory, saved} => parts[i].kind # "result"

\* A run has a history, a request that is being answered was made when nothing was pending,
\* and a runtime whose cut is not dirty has the one that was saved.
RunsKnow ==
    /\ pc # "idle" => parts # <<>>
    /\ pc = "asked" => Pending(parts) = {}
    /\ dirty \/ memory = saved

\* Of the parts there were when a cut was made, those that it keeps.
KeptOf(h, message, last) ==
    {i \in DOMAIN h : h[i].id <= last /\ \A j \in BlockOf(h, i) : Min(Positions(h, message)) <= j}

\* A cut that stands left room, which only what came later can have used up.
RoomIsLeft ==
    cut # 0 =>
        /\ Positions(parts, memory) # {}
        /\ \A i \in Pending(parts) : parts[i].id > cut
        /\ ContextSize + Total(parts, KeptOf(parts, memory, cut)) + SummarySize <= Target(Budget)

Owing(h) == {h[i].call : i \in Pending(h)}

CompactionInv ==
    /\ TypeOK /\ SaneHistory(parts) /\ owed = Owing(parts)
    /\ CutsBeginBlocks /\ RunsKnow /\ RoomIsLeft
    /\ pc = "asked" => Sound(parts, sent)

LEMMA InvIsEnough == CompactionInv => RequestIsSound
BY DEF CompactionInv, RequestIsSound, Sound, Owing

\* What the types say of the history.
LEMMA PartsTyped ==
  ASSUME CompactionAssumption, TypeOK
  PROVE  /\ parts \in Histories /\ ids \in Nat
         /\ \A i \in DOMAIN parts : /\ parts[i].id \in 1..ids /\ parts[i].message \in 1..ids
                                    /\ parts[i].call \in 0..ids
<1>1. PICK S : S = [id : 1..ids, message : 1..ids, call : 0..ids, size : Nat,
                    kind : {"user", "text", "call", "result", "summary"}]
  OBVIOUS
<1>2. ids \in Nat /\ parts \in Seq(S)
  BY <1>1 DEF TypeOK, CompactionAssumption
<1>3. \A p \in S : p \in PartSet /\ p.id \in 1..ids /\ p.message \in 1..ids /\ p.call \in 0..ids
  BY <1>1, <1>2 DEF PartSet, Kinds
<1>4. parts \in Histories
  BY <1>2, <1>3 DEF Histories
<1>5. \A i \in DOMAIN parts : parts[i] \in S
  BY <1>2
<1> QED
  BY <1>2, <1>3, <1>4, <1>5

\* And back.
LEMMA TypedParts ==
  ASSUME NEW h \in Histories, NEW n \in Nat,
         \A i \in DOMAIN h : h[i].id \in 1..n /\ h[i].message \in 1..n /\ h[i].call \in 0..n
  PROVE  h \in Seq([id : 1..n, message : 1..n, call : 0..n, size : Nat,
                    kind : {"user", "text", "call", "result", "summary"}])
<1>1. PICK S : S = [id : 1..n, message : 1..n, call : 0..n, size : Nat,
                    kind : {"user", "text", "call", "result", "summary"}]
  OBVIOUS
<1>2. \A p \in PartSet : p.id \in 1..n /\ p.message \in 1..n /\ p.call \in 0..n => p \in S
  BY <1>1 DEF PartSet, Kinds
<1>3. \A i \in 1..Len(h) : h[i] \in S
  BY <1>2, HistoryFacts
<1>4. h \in [1..Len(h) -> S] /\ Len(h) \in Nat
  BY <1>3, HistoryFacts
<1>5. h \in Seq(S)
  BY <1>4
<1> QED
  BY <1>1, <1>5

\* The history grows by parts that are new.
Grows(h, n, longer, m) ==
    /\ longer \in Histories /\ Begins(h, longer)
    /\ m \in Nat /\ n <= m
    /\ \A i \in DOMAIN longer \ DOMAIN h : /\ longer[i].id \in (n + 1)..m
                                           /\ longer[i].message \in (n + 1)..m
                                           /\ longer[i].call \in 0..m
    /\ \A i, j \in DOMAIN longer \ DOMAIN h : longer[i].id = longer[j].id => i = j

\* A step that is neither a request nor a compaction: the cut stays, in memory and in the
\* session, or is forgotten.
CutKept ==
    /\ {memory', saved'} \subseteq {memory, saved} /\ dirty' \in BOOLEAN
    /\ dirty' \/ memory' = saved'
    /\ cut' = 0 \/ (cut' = cut /\ memory' = memory)

LEMMA GrowthKeeps ==
  ASSUME CompactionAssumption, CompactionInv, Grows(parts, ids, parts', ids'), ids' <= MaxParts, CutKept
  PROVE  /\ parts' \in Seq([id : 1..ids', message : 1..ids', call : 0..ids', size : Nat,
                            kind : {"user", "text", "call", "result", "summary"}])
         /\ ids' \in 0..MaxParts /\ {memory', saved', cut'} \subseteq 0..ids'
         /\ \A i, j \in DOMAIN parts' : parts'[i].id = parts'[j].id => i = j
         /\ \A i \in DOMAIN parts' : parts'[i].message \in {memory', saved'} =>
              i \in DOMAIN parts /\ parts'[i].kind # "result"
         /\ RoomIsLeft'
<1>1. /\ parts \in Histories /\ ids \in Nat /\ MaxParts \in Nat
      /\ \A i \in DOMAIN parts : /\ parts[i].id \in 1..ids /\ parts[i].message \in 1..ids
                                 /\ parts[i].call \in 0..ids
  BY PartsTyped DEF CompactionInv, CompactionAssumption
<1>2. PICK n, m : n \in Nat /\ n = Len(parts) /\ m \in Nat /\ m = Len(parts') /\ n <= m
  BY <1>1, HistoryFacts DEF Grows, Begins
<1>3. DOMAIN parts = 1..n /\ DOMAIN parts' = 1..m /\ \A i \in 1..n : parts'[i] = parts[i]
  BY <1>1, <1>2, HistoryFacts DEF Grows, Begins
<1>4. parts' \in Histories /\ ids' \in Nat /\ ids <= ids'
  BY DEF Grows
<1>5. \A i \in 1..m : i \in 1..n \/ (i \in DOMAIN parts' \ DOMAIN parts)
  BY <1>3
<1>6. \A i \in 1..m : i \notin 1..n =>
         parts'[i].id \in (ids + 1)..ids' /\ parts'[i].message \in (ids + 1)..ids' /\ parts'[i].call \in 0..ids'
  BY <1>5 DEF Grows
<1>7. \A i \in 1..m : parts'[i].id \in 1..ids' /\ parts'[i].message \in 1..ids' /\ parts'[i].call \in 0..ids'
  BY <1>1, <1>3, <1>4, <1>6
<1>8. parts' \in Seq([id : 1..ids', message : 1..ids', call : 0..ids', size : Nat,
                      kind : {"user", "text", "call", "result", "summary"}])
  BY <1>3, <1>4, <1>7, TypedParts
<1>9. {memory, saved, cut} \subseteq 0..ids
  BY DEF CompactionInv, TypeOK
<1>10. {memory', saved', cut'} \subseteq 0..ids /\ ids' \in 0..MaxParts /\ {memory', saved', cut'} \subseteq 0..ids'
  BY <1>1, <1>4, <1>9 DEF CutKept
<1>11. ASSUME NEW i \in 1..m, NEW j \in 1..m, parts'[i].id = parts'[j].id PROVE i = j
  <2>1. \A k \in 1..n : parts'[k].id <= ids
    BY <1>1, <1>3
  <2>2. \A k \in 1..m : k \notin 1..n => ~(parts'[k].id <= ids)
    BY <1>1, <1>4, <1>6
  <2>3. CASE i \in 1..n /\ j \in 1..n
    BY <1>3, <1>11, <2>3 DEF CompactionInv, SaneHistory
  <2>4. CASE i \notin 1..n /\ j \notin 1..n
    BY <1>5, <1>11, <2>4 DEF Grows
  <2> QED
    BY <1>11, <2>1, <2>2, <2>3, <2>4
<1>12. ASSUME NEW i \in 1..m, parts'[i].message \in {memory', saved'}
       PROVE  i \in 1..n /\ parts'[i].kind # "result"
  <2>1. parts'[i].message \in 0..ids
    BY <1>10, <1>12
  <2>2. i \in 1..n
    BY <1>1, <1>4, <1>6, <2>1
  <2>3. parts[i].message \in {memory, saved}
    BY <1>3, <1>12, <2>2 DEF CutKept
  <2> QED
    BY <1>3, <2>2, <2>3 DEF CompactionInv, CutsBeginBlocks
<1>13. ASSUME cut' # 0 PROVE /\ Positions(parts', memory') # {}
                             /\ \A i \in Pending(parts') : parts'[i].id > cut'
                             /\ ContextSize + Total(parts', KeptOf(parts', memory', cut')) + SummarySize <= Target(Budget)
  <2>1. cut' = cut /\ memory' = memory /\ cut # 0
    BY <1>13 DEF CutKept
  <2>2. /\ Positions(parts, memory) # {}
        /\ \A i \in Pending(parts) : parts[i].id > cut
        /\ ContextSize + Total(parts, KeptOf(parts, memory, cut)) + SummarySize <= Target(Budget)
    BY <2>1 DEF CompactionInv, RoomIsLeft
  <2>3. Positions(parts', memory) = Positions(parts, memory)
    <3>1. \A i \in 1..m : parts'[i].message = memory => i \in 1..n
      BY <1>12, <2>1
    <3> QED
      BY <1>2, <1>3, <3>1 DEF Positions
  <2>4. ASSUME NEW i \in Pending(parts') PROVE parts'[i].id > cut
    <3>1. CASE i \in 1..n
      <4>1. i \in Pending(parts)
        <5>1. parts[i].kind = "call" /\ \A j \in 1..n : parts[j].kind = "result" => parts[j].call # parts[i].call
          <6>1. \A j \in 1..n : j \in 1..m
            BY <1>2
          <6> QED
            BY <1>3, <2>4, <3>1, <6>1 DEF Pending
        <5> QED
          BY <1>3, <3>1, <5>1 DEF Pending
      <4> QED
        BY <1>3, <2>2, <3>1, <4>1
    <3>2. CASE i \notin 1..n
      <4>1. i \in 1..m
        BY <1>3 DEF Pending
      <4>2. parts'[i].id \in (ids + 1)..ids' /\ cut \in 0..ids
        BY <1>6, <1>9, <3>2, <4>1
      <4> QED
        BY <1>1, <1>4, <4>2
    <3> QED
      BY <3>1, <3>2
  <2>5. KeptOf(parts', memory, cut) \subseteq KeptOf(parts, memory, cut)
    <3> SUFFICES ASSUME NEW i \in KeptOf(parts', memory, cut) PROVE i \in KeptOf(parts, memory, cut)
      OBVIOUS
    <3>1. /\ i \in 1..m /\ parts'[i].id <= cut
          /\ \A j \in BlockOf(parts', i) : Min(Positions(parts, memory)) <= j
      BY <1>3, <2>3 DEF KeptOf
    <3>2. i \in 1..n
      BY <1>1, <1>4, <1>6, <1>9, <3>1
    <3>3. BlockOf(parts, i) \subseteq BlockOf(parts', i)
      <4>1. \A j \in 1..n : j \in 1..m
        BY <1>2
      <4> QED
        BY <1>3, <3>2, <4>1 DEF BlockOf
    <3> QED
      BY <1>3, <3>1, <3>2, <3>3 DEF KeptOf
  <2>6. Total(parts', KeptOf(parts', memory, cut)) <= Total(parts, KeptOf(parts, memory, cut))
    <3> DEFINE old == KeptOf(parts, memory, cut)
               new == KeptOf(parts', memory, cut)
    <3>1. old \subseteq DOMAIN parts /\ new \subseteq old
      BY <2>5 DEF KeptOf
    <3>2. Begins(parts, parts')
      BY DEF Grows
    <3> HIDE DEF old, new
    <3>3. Total(parts', new) = Total(parts, new)
      BY <1>1, <1>4, <3>1, <3>2, TotalOfLonger
    <3>4. Total(parts, new) <= Total(parts, old) + Total(parts, {}) /\ Total(parts, {}) = 0
      BY <1>1, <3>1, TotalOfUnion, TotalOfNone
    <3> QED
      BY <1>1, <3>3, <3>4, TotalType DEF old, new
  <2>7. /\ Total(parts', KeptOf(parts', memory, cut)) \in Nat /\ Total(parts, KeptOf(parts, memory, cut)) \in Nat
        /\ ContextSize \in Nat /\ SummarySize \in Nat /\ Target(Budget) \in Nat
    BY <1>1, <1>4, TotalType, TargetFacts DEF CompactionAssumption
  <2> QED
    BY <2>1, <2>2, <2>3, <2>4, <2>6, <2>7
<1>14. RoomIsLeft'
  BY <1>13 DEF RoomIsLeft
<1> QED
  BY <1>3, <1>8, <1>10, <1>11, <1>12, <1>14

-----------------------------------------------------------------------------
(* What is written.                                                        *)

\* The ids and messages of a history are numbers up to n.
Numbered(h, n) ==
    \A i \in DOMAIN h : h[i].id \in 1..n /\ h[i].message \in 1..n /\ h[i].call \in 0..n

LEMMA Appended ==
  ASSUME NEW h \in Histories, NEW p \in PartSet, NEW k \in Nat, k = Len(h)
  PROVE  /\ Append(h, p) \in Histories /\ Len(Append(h, p)) = k + 1
         /\ DOMAIN Append(h, p) = 1..(k + 1)
         /\ Append(h, p)[k + 1] = p /\ \A i \in 1..k : Append(h, p)[i] = h[i]
BY DEF Histories

\* A part that is no call and no result.
LEMMA PlainPart ==
  ASSUME NEW n \in Nat, NEW h \in Histories, Numbered(h, n), SaneHistory(h), NEW p \in PartSet,
         p.id = n + 1, p.message = n + 1, p.call = 0, p.kind \in {"user", "text"}
  PROVE  /\ Grows(h, n, Append(h, p), n + 1) /\ Append(h, p) # <<>>
         /\ SaneHistory(Append(h, p)) /\ Owing(Append(h, p)) = Owing(h)
<1> DEFINE longer == Append(h, p)
<1>1. PICK k : k \in Nat /\ k = Len(h) /\ DOMAIN h = 1..k
  BY HistoryFacts
<1>2. /\ longer \in Histories /\ Len(longer) = k + 1 /\ DOMAIN longer = 1..(k + 1)
      /\ longer[k + 1] = p /\ \A i \in 1..k : longer[i] = h[i]
  BY <1>1, Appended
<1> HIDE DEF longer
<1>3. longer # <<>>
  BY <1>1, <1>2
<1>4. \A i \in 1..(k + 1) : i \in 1..k \/ (i = k + 1 /\ i \notin 1..k)
  BY <1>1
<1>5. Grows(h, n, longer, n + 1)
  BY <1>1, <1>2, <1>4 DEF Grows, Begins
<1>6. \A i \in 1..k : h[i].id \in 1..n /\ h[i].message \in 1..n /\ h[i].call \in 0..n
  BY <1>1 DEF Numbered
<1>7. SaneHistory(longer)
  <2>1. ASSUME NEW i \in 1..(k + 1)
        PROVE  /\ longer[i].kind = "call" => longer[i].call = longer[i].id
               /\ longer[i].kind = "result" =>
                    \E j \in 1..(k + 1) : j < i /\ longer[j].kind = "call" /\ longer[j].call = longer[i].call
               /\ longer[i].kind \notin {"call", "result"} => longer[i].call = 0
               /\ longer[i].id # 0
    <3>1. CASE i = k + 1
      BY <1>2, <3>1
    <3>2. CASE i \in 1..k
      <4>1. \A j \in 1..k : j \in 1..(k + 1)
        BY <1>1
      <4> QED
        BY <1>1, <1>2, <3>2, <4>1 DEF SaneHistory
    <3> QED
      BY <1>4, <3>1, <3>2
  <2>2. ASSUME NEW i \in 1..(k + 1), NEW j \in 1..(k + 1)
        PROVE  /\ longer[i].kind = "result" /\ longer[j].kind = "result" /\ longer[i].call = longer[j].call => i = j
               /\ longer[i].id = longer[j].id => i = j
               /\ longer[i].message = longer[j].message => longer[i].kind = longer[j].kind
    <3>1. CASE i \in 1..k /\ j \in 1..k
      BY <1>1, <1>2, <3>1 DEF SaneHistory
    <3>2. CASE i = k + 1 /\ j \in 1..k
      BY <1>2, <1>6, <3>2
    <3>3. CASE i \in 1..k /\ j = k + 1
      BY <1>2, <1>6, <3>3
    <3> QED
      BY <1>4, <3>1, <3>2, <3>3
  <2> QED
    BY <1>2, <2>1, <2>2 DEF SaneHistory
<1>8. Owing(longer) = Owing(h)
  <2>1. Pending(longer) = Pending(h)
    <3>1. \A j \in 1..(k + 1) : longer[j].kind = "result" => j \in 1..k
      BY <1>2, <1>4
    <3>2. \A j \in 1..(k + 1) : longer[j].kind = "call" => j \in 1..k
      BY <1>2, <1>4
    <3>3. \A j \in 1..k : j \in 1..(k + 1)
      BY <1>1
    <3> QED
      BY <1>1, <1>2, <3>1, <3>2, <3>3 DEF Pending
  <2>2. Pending(h) \subseteq 1..k
    BY <1>1 DEF Pending
  <2> QED
    BY <1>2, <2>1, <2>2 DEF Owing
<1> QED
  BY <1>3, <1>5, <1>7, <1>8 DEF longer

\* The result of a pending call.
LEMMA ResultPart ==
  ASSUME NEW n \in Nat, NEW h \in Histories, Numbered(h, n), SaneHistory(h),
         NEW o \in Pending(h), NEW p \in PartSet,
         p.id = n + 1, p.message = n + 1, p.call = h[o].call, p.kind = "result"
  PROVE  /\ Grows(h, n, Append(h, p), n + 1) /\ Append(h, p) # <<>>
         /\ SaneHistory(Append(h, p)) /\ Owing(Append(h, p)) = Owing(h) \ {h[o].call}
<1> DEFINE longer == Append(h, p)
<1>1. PICK k : k \in Nat /\ k = Len(h) /\ DOMAIN h = 1..k
  BY HistoryFacts
<1>2. /\ longer \in Histories /\ Len(longer) = k + 1 /\ DOMAIN longer = 1..(k + 1)
      /\ longer[k + 1] = p /\ \A i \in 1..k : longer[i] = h[i]
  BY <1>1, Appended
<1> HIDE DEF longer
<1>3. longer # <<>>
  BY <1>1, <1>2
<1>4. \A i \in 1..(k + 1) : i \in 1..k \/ (i = k + 1 /\ i \notin 1..k)
  BY <1>1
<1>5. \A i \in 1..k : h[i].id \in 1..n /\ h[i].message \in 1..n /\ h[i].call \in 0..n
  BY <1>1 DEF Numbered
<1>6. /\ o \in 1..k /\ h[o].kind = "call" /\ h[o].call = h[o].id
      /\ \A j \in 1..k : h[j].kind = "result" => h[j].call # h[o].call
  BY <1>1 DEF Pending, SaneHistory
<1>7. Grows(h, n, longer, n + 1)
  <2>1. p.call \in 0..(n + 1)
    BY <1>5, <1>6
  <2> QED
    BY <1>1, <1>2, <1>4, <2>1 DEF Grows, Begins
<1>8. SaneHistory(longer)
  <2>1. ASSUME NEW i \in 1..(k + 1)
        PROVE  /\ longer[i].kind = "call" => longer[i].call = longer[i].id
               /\ longer[i].kind = "result" =>
                    \E j \in 1..(k + 1) : j < i /\ longer[j].kind = "call" /\ longer[j].call = longer[i].call
               /\ longer[i].kind \notin {"call", "result"} => longer[i].call = 0
               /\ longer[i].id # 0
    <3>1. CASE i = k + 1
      <4>1. o \in 1..(k + 1) /\ o < k + 1
        BY <1>1, <1>6
      <4> QED
        BY <1>2, <1>6, <3>1, <4>1
    <3>2. CASE i \in 1..k
      <4>1. \A j \in 1..k : j \in 1..(k + 1)
        BY <1>1
      <4> QED
        BY <1>1, <1>2, <3>2, <4>1 DEF SaneHistory
    <3> QED
      BY <1>4, <3>1, <3>2
  <2>2. ASSUME NEW i \in 1..(k + 1), NEW j \in 1..(k + 1)
        PROVE  /\ longer[i].kind = "result" /\ longer[j].kind = "result" /\ longer[i].call = longer[j].call => i = j
               /\ longer[i].id = longer[j].id => i = j
               /\ longer[i].message = longer[j].message => longer[i].kind = longer[j].kind
    <3>1. CASE i \in 1..k /\ j \in 1..k
      BY <1>1, <1>2, <3>1 DEF SaneHistory
    <3>2. CASE i = k + 1 /\ j \in 1..k
      BY <1>2, <1>5, <1>6, <3>2
    <3>3. CASE i \in 1..k /\ j = k + 1
      BY <1>2, <1>5, <1>6, <3>3
    <3> QED
      BY <1>4, <3>1, <3>2, <3>3
  <2> QED
    BY <1>2, <2>1, <2>2 DEF SaneHistory
<1>9. Owing(longer) = Owing(h) \ {h[o].call}
  <2>1. Pending(longer) = Pending(h) \ {o}
    <3>1. \A j \in 1..(k + 1) : longer[j].kind = "call" => j \in 1..k
      BY <1>2, <1>4
    <3>2. \A j \in 1..k : j \in 1..(k + 1)
      BY <1>1
    <3>3. ASSUME NEW j \in 1..k, h[j].kind = "call", j # o PROVE h[j].call # p.call
      BY <1>1, <1>6, <3>3 DEF SaneHistory
    <3>4. ASSUME NEW j \in Pending(longer) PROVE j \in Pending(h) \ {o}
      <4>1. j \in 1..k /\ h[j].kind = "call" /\ \A l \in 1..k : h[l].kind = "result" => h[l].call # h[j].call
        BY <1>2, <3>1, <3>2 DEF Pending
      <4>2. k + 1 \in 1..(k + 1)
        BY <1>1
      <4>3. j # o
        BY <1>2, <3>4, <4>1, <4>2 DEF Pending
      <4> QED
        BY <1>1, <4>1, <4>3 DEF Pending
    <3>5. ASSUME NEW j \in Pending(h) \ {o} PROVE j \in Pending(longer)
      <4>1. j \in 1..k /\ h[j].kind = "call" /\ \A l \in 1..k : h[l].kind = "result" => h[l].call # h[j].call
        BY <1>1 DEF Pending
      <4>2. h[j].call # p.call
        BY <3>3, <4>1
      <4>3. \A l \in 1..(k + 1) : longer[l].kind = "result" => longer[l].call # longer[j].call
        BY <1>2, <1>4, <4>1, <4>2
      <4> QED
        BY <1>2, <3>2, <4>1, <4>3 DEF Pending
    <3> QED
      BY <3>4, <3>5
  <2>2. Pending(h) \subseteq 1..k /\ \A j \in Pending(h) : h[j].call = h[o].call => j = o
    BY <1>1, <1>6 DEF Pending, SaneHistory
  <2> QED
    BY <1>2, <2>1, <2>2 DEF Owing
<1> QED
  BY <1>3, <1>7, <1>8, <1>9 DEF longer

\* Calls, all in one message.
LEMMA CallParts ==
  ASSUME NEW n \in Nat, NEW h \in Histories, Numbered(h, n), SaneHistory(h),
         NEW many \in Nat \ {0}, NEW calls \in Histories, Len(calls) = many,
         \A j \in 1..many : /\ calls[j].id = n + j /\ calls[j].message = n + 1
                            /\ calls[j].kind = "call" /\ calls[j].call = n + j
  PROVE  /\ Grows(h, n, h \o calls, n + many)
         /\ SaneHistory(h \o calls) /\ Owing(h \o calls) = Owing(h) \cup (n + 1)..(n + many)
<1> DEFINE longer == h \o calls
<1>1. PICK k : k \in Nat /\ k = Len(h) /\ DOMAIN h = 1..k
  BY HistoryFacts
<1>2. /\ longer \in Histories /\ DOMAIN longer = 1..(k + many) /\ Len(longer) = k + many
      /\ \A i \in 1..k : longer[i] = h[i]
      /\ \A j \in 1..many : longer[k + j] = calls[j]
  <2>1. h \in Seq(PartSet) /\ calls \in Seq(PartSet)
    BY DEF Histories
  <2>2. /\ longer \in Seq(PartSet) /\ Len(longer) = k + many
        /\ \A i \in 1..(k + many) : longer[i] = IF i <= k THEN h[i] ELSE calls[i - k]
    BY ZenonT(60), <1>1, <2>1, ConcatProperties
  <2> HIDE DEF longer
  <2>3. DOMAIN longer = 1..(k + many)
    BY <2>2
  <2>4. \A i \in 1..k : i \in 1..(k + many) /\ i <= k
    BY <1>1
  <2>5. \A j \in 1..many : k + j \in 1..(k + many) /\ ~(k + j <= k) /\ k + j - k = j
    BY <1>1
  <2>6. ASSUME NEW i \in 1..k PROVE longer[i] = h[i]
    BY <2>2, <2>4
  <2>7. ASSUME NEW j \in 1..many PROVE longer[k + j] = calls[j]
    <3>1. PICK i \in 1..(k + many) : i = k + j /\ ~(i <= k) /\ i - k = j
      BY <1>1, <2>5
    <3>2. longer[i] = calls[i - k]
      BY <2>2, <3>1
    <3> QED
      BY <3>1, <3>2
  <2> QED
    BY <2>2, <2>3, <2>6, <2>7 DEF Histories
<1>3. \A j \in 1..many : /\ longer[k + j].id = n + j /\ longer[k + j].message = n + 1
                         /\ longer[k + j].kind = "call" /\ longer[k + j].call = n + j
  BY <1>2
<1> HIDE DEF longer
<1>4. \A i \in 1..(k + many) : i \in 1..k \/ (i \notin 1..k /\ \E j \in 1..many : i = k + j)
  <2> TAKE i \in 1..(k + many)
  <2>1. i \in 1..k \/ (i \notin 1..k /\ i - k \in 1..many /\ i = k + (i - k))
    BY <1>1
  <2> QED
    BY <2>1
<1>5. \A i \in 1..k : h[i].id \in 1..n /\ h[i].message \in 1..n /\ h[i].call \in 0..n
  BY <1>1 DEF Numbered
<1>6. \A i \in 1..(k + many) : i \notin 1..k =>
         \E j \in 1..many : /\ i = k + j /\ longer[i].id = n + j /\ longer[i].message = n + 1
                            /\ longer[i].kind = "call" /\ longer[i].call = n + j
  BY <1>3, <1>4
<1>10. ASSUME NEW i \in 1..(k + many), i \notin 1..k
       PROVE  longer[i].kind = "call" /\ longer[i].id \notin 1..n /\ longer[i].message \notin 1..n
  <2>1. PICK j \in 1..many : longer[i].id = n + j /\ longer[i].message = n + 1 /\ longer[i].kind = "call"
    BY <1>6, <1>10
  <2>2. n + j \notin 1..n /\ n + 1 \notin 1..n
    BY <1>1, <2>1
  <2> QED
    BY <2>1, <2>2
<1>7. Grows(h, n, longer, n + many)
  <2>1. ASSUME NEW i \in 1..(k + many), i \notin 1..k
        PROVE  /\ longer[i].id \in (n + 1)..(n + many) /\ longer[i].message \in (n + 1)..(n + many)
               /\ longer[i].call \in 0..(n + many)
    BY <1>6, <2>1
  <2>2. ASSUME NEW i \in 1..(k + many), NEW j \in 1..(k + many), i \notin 1..k, j \notin 1..k,
               longer[i].id = longer[j].id
        PROVE  i = j
    BY <1>6, <2>2
  <2>3. Begins(h, longer) /\ n + many \in Nat /\ n <= n + many
    BY <1>1, <1>2 DEF Begins
  <2> QED
    BY <1>1, <1>2, <2>1, <2>2, <2>3 DEF Grows
<1>8. SaneHistory(longer)
  <2>1. ASSUME NEW i \in 1..(k + many)
        PROVE  /\ longer[i].kind = "call" => longer[i].call = longer[i].id
               /\ longer[i].kind = "result" =>
                    \E j \in 1..(k + many) : j < i /\ longer[j].kind = "call" /\ longer[j].call = longer[i].call
               /\ longer[i].kind \notin {"call", "result"} => longer[i].call = 0
               /\ longer[i].id # 0
    <3>1. CASE i \notin 1..k
      BY <1>6, <3>1
    <3>2. CASE i \in 1..k
      <4>1. \A j \in 1..k : j \in 1..(k + many)
        BY <1>1
      <4> QED
        BY SMTT(40), <1>1, <1>2, <3>2, <4>1 DEF SaneHistory
    <3> QED
      BY <3>1, <3>2
  <2>2. ASSUME NEW i \in 1..(k + many), NEW j \in 1..(k + many)
        PROVE  /\ longer[i].kind = "result" /\ longer[j].kind = "result" /\ longer[i].call = longer[j].call => i = j
               /\ longer[i].id = longer[j].id => i = j
               /\ longer[i].message = longer[j].message => longer[i].kind = longer[j].kind
    <3>1. CASE i \in 1..k /\ j \in 1..k
      BY SMTT(40), <1>1, <1>2, <3>1 DEF SaneHistory
    <3>2. CASE i \notin 1..k /\ j \notin 1..k
      BY <1>6, <3>2
    <3>3. CASE i \notin 1..k /\ j \in 1..k
      <4>1. longer[i].kind = "call" /\ longer[i].id \notin 1..n /\ longer[i].message \notin 1..n
        BY <1>10, <3>3
      <4>2. longer[j] = h[j]
        BY <1>2, <3>3
      <4>3. longer[j].id \in 1..n /\ longer[j].message \in 1..n
        BY <1>5, <3>3, <4>2
      <4> QED
        BY <4>1, <4>3
    <3>4. CASE i \in 1..k /\ j \notin 1..k
      <4>1. longer[j].kind = "call" /\ longer[j].id \notin 1..n /\ longer[j].message \notin 1..n
        BY <1>10, <3>4
      <4>2. longer[i] = h[i]
        BY <1>2, <3>4
      <4>3. longer[i].id \in 1..n /\ longer[i].message \in 1..n
        BY <1>5, <3>4, <4>2
      <4> QED
        BY <4>1, <4>3
    <3> QED
      BY <3>1, <3>2, <3>3, <3>4
  <2> QED
    BY SMTT(40), <1>2, <2>1, <2>2 DEF SaneHistory
<1>9. Owing(longer) = Owing(h) \cup (n + 1)..(n + many)
  <2>1. ASSUME NEW i \in 1..k PROVE i \in Pending(longer) <=> i \in Pending(h)
    <3>1. \A j \in 1..k : j \in 1..(k + many)
      BY <1>1
    <3>2. \A j \in 1..(k + many) : longer[j].kind = "result" => j \in 1..k
      BY <1>6
    <3> QED
      BY <1>1, <1>2, <3>1, <3>2 DEF Pending
  <2>2. ASSUME NEW i \in 1..(k + many), i \notin 1..k PROVE i \in Pending(longer)
    <3>1. longer[i].kind = "call" /\ longer[i].call \notin 0..n
      BY <1>6, <2>2
    <3>2. \A j \in 1..(k + many) : longer[j].kind = "result" => longer[j].call \in 0..n
      BY <1>2, <1>5, <1>6
    <3> QED
      BY <1>2, <3>1, <3>2 DEF Pending
  <2>3. Pending(h) \subseteq 1..k /\ Pending(longer) \subseteq 1..(k + many)
    BY <1>1, <1>2 DEF Pending
  <2>4. ASSUME NEW c \in Owing(longer) PROVE c \in Owing(h) \cup (n + 1)..(n + many)
    <3>1. PICK i \in Pending(longer) : c = longer[i].call
      BY DEF Owing
    <3> QED
      BY SMTT(40), <1>2, <1>6, <2>1, <2>3, <3>1 DEF Owing
  <2>5. ASSUME NEW c \in Owing(h) PROVE c \in Owing(longer)
    <3>1. PICK i \in Pending(h) : c = h[i].call
      BY DEF Owing
    <3> QED
      BY <1>2, <2>1, <2>3, <3>1 DEF Owing
  <2>6. ASSUME NEW c \in (n + 1)..(n + many) PROVE c \in Owing(longer)
    <3>1. c - n \in 1..many /\ c = n + (c - n) /\ k + (c - n) \in 1..(k + many) /\ k + (c - n) \notin 1..k
      BY <1>1
    <3>2. k + (c - n) \in Pending(longer) /\ longer[k + (c - n)].call = c
      BY <1>3, <2>2, <3>1
    <3> QED
      BY <3>2 DEF Owing
  <2> QED
    BY <2>4, <2>5, <2>6
<1> QED
  BY <1>7, <1>8, <1>9 DEF longer

-----------------------------------------------------------------------------
(* The steps that are neither a request nor a compaction.                  *)

LEMMA LoadKeeps ==
  ASSUME CompactionAssumption, CompactionInv, Load, UNCHANGED saved
  PROVE  CutKept
<1>1. dirty \in BOOLEAN /\ (dirty \/ memory = saved)
  BY DEF CompactionInv, TypeOK, RunsKnow
<1>2. cut # 0 => memory # 0
  <2> SUFFICES ASSUME cut # 0 PROVE memory # 0
    OBVIOUS
  <2>1. PICK i \in DOMAIN parts : parts[i].message = memory
    BY DEF CompactionInv, RoomIsLeft, Positions
  <2> QED
    BY <2>1, PartsTyped DEF CompactionInv
<1>3. CASE memory' = (IF memory = 0 THEN saved ELSE memory) /\ UNCHANGED <<dirty, cut>>
  BY <1>1, <1>2, <1>3 DEF CutKept
<1>4. CASE memory' = saved /\ dirty' = FALSE /\ cut' = (IF dirty THEN 0 ELSE cut)
  BY <1>1, <1>4 DEF CutKept
<1> QED
  BY <1>3, <1>4 DEF Load

LEMMA SaveKeeps ==
  ASSUME CompactionInv, Save, UNCHANGED <<memory, cut>>
  PROVE  CutKept
BY DEF CompactionInv, TypeOK, RunsKnow, Save, CutKept

LEMMA NoGrowth ==
  ASSUME CompactionAssumption, CompactionInv, UNCHANGED <<parts, ids>>
  PROVE  Grows(parts, ids, parts', ids')
<1>1. parts \in Histories /\ ids \in Nat
  BY PartsTyped DEF CompactionInv
<1> QED
  BY <1>1, HistoryFacts DEF Grows, Begins

LEMMA GrowthStep ==
  ASSUME CompactionAssumption, CompactionInv, Grows(parts, ids, parts', ids'), ids' <= MaxParts, CutKept,
         SaneHistory(parts'), owed' = Owing(parts'),
         pc' \in {"idle", "ready"}, pc' = "ready" => parts' # <<>>, sent' \in {sent, NoRequest}
  PROVE  CompactionInv'
<1>1. /\ parts' \in Seq([id : 1..ids', message : 1..ids', call : 0..ids', size : Nat,
                         kind : {"user", "text", "call", "result", "summary"}])
      /\ ids' \in 0..MaxParts /\ {memory', saved', cut'} \subseteq 0..ids'
      /\ \A i, j \in DOMAIN parts' : parts'[i].id = parts'[j].id => i = j
      /\ \A i \in DOMAIN parts' : parts'[i].message \in {memory', saved'} => parts'[i].kind # "result"
      /\ RoomIsLeft'
  BY GrowthKeeps
<1>2. ids \in Nat /\ ids' \in Nat /\ ids <= ids'
  BY PartsTyped DEF CompactionInv, Grows
<1>3. owed' \subseteq 1..ids'
  <2> SUFFICES ASSUME NEW i \in Pending(parts') PROVE parts'[i].call \in 1..ids'
    BY DEF Owing
  <2>1. i \in DOMAIN parts' /\ parts'[i].kind = "call"
    BY DEF Pending
  <2>2. parts'[i].call = parts'[i].id /\ parts'[i].id # 0
    BY <2>1 DEF SaneHistory
  <2>3. parts'[i].call \in 0..ids'
    <3>1. \A k \in DOMAIN parts : parts[k].call \in 0..ids
      BY PartsTyped DEF CompactionInv
    <3>2. parts \in Histories /\ parts' \in Histories /\ Begins(parts, parts')
      BY PartsTyped DEF CompactionInv, Grows
    <3>3. DOMAIN parts = 1..Len(parts) /\ Len(parts) \in Nat
      BY <3>2, HistoryFacts
    <3>4. CASE i \in DOMAIN parts
      BY <1>2, <3>1, <3>2, <3>3, <3>4 DEF Begins
    <3>5. CASE i \notin DOMAIN parts
      BY <2>1, <3>5 DEF Grows
    <3> QED
      BY <3>4, <3>5
  <2> QED
    BY <1>2, <2>2, <2>3
<1>4. sent' \in [kept : SUBSET (1..ids'), limit : 0..Budget]
  <2>1. sent \in [kept : SUBSET (1..ids'), limit : 0..Budget]
    <3>1. 1..ids \subseteq 1..ids'
      BY <1>2
    <3> QED
      BY <3>1 DEF CompactionInv, TypeOK
  <2>2. NoRequest \in [kept : SUBSET (1..ids'), limit : 0..Budget]
    BY DEF NoRequest, CompactionAssumption
  <2> QED
    BY <2>1, <2>2
<1>5. TypeOK'
  BY <1>1, <1>3, <1>4 DEF TypeOK, CutKept
<1>6. CutsBeginBlocks'
  BY <1>1 DEF CutsBeginBlocks
<1>7. RunsKnow'
  BY DEF RunsKnow, CutKept
<1> QED
  BY <1>1, <1>5, <1>6, <1>7 DEF CompactionInv

LEMMA Known ==
  ASSUME CompactionAssumption, CompactionInv
  PROVE  parts \in Histories /\ ids \in Nat /\ MaxParts \in Nat /\ Numbered(parts, ids) /\ SaneHistory(parts)
BY PartsTyped DEF CompactionInv, Numbered, CompactionAssumption

LEMMA BeginKeeps ==
  ASSUME CompactionAssumption, CompactionInv, Begin
  PROVE  CompactionInv'
<1> DEFINE p == Part(ids + 1, ids + 1, "user", 0, 1)
<1>1. ids' = ids + 1 /\ parts' = Append(parts, p) /\ ids < MaxParts
  BY DEF Begin, Write
<1>2. /\ p \in PartSet /\ p.id = ids + 1 /\ p.message = ids + 1 /\ p.call = 0
      /\ p.kind \in {"user", "text"}
  BY Known DEF Part, PartSet, Kinds
<1> HIDE DEF p
<1>3. /\ Grows(parts, ids, parts', ids') /\ parts' # <<>>
      /\ SaneHistory(parts') /\ Owing(parts') = Owing(parts)
  BY <1>1, <1>2, Known, PlainPart
<1>4. CutKept
  BY LoadKeeps DEF Begin
<1>5. ids' <= MaxParts /\ owed' = Owing(parts')
  BY <1>1, <1>3, Known DEF Begin, CompactionInv
<1> QED
  BY <1>3, <1>4, <1>5, GrowthStep DEF Begin

LEMMA ReplyKeeps ==
  ASSUME CompactionAssumption, CompactionInv, Reply
  PROVE  CompactionInv'
<1> DEFINE p == Part(ids + 1, ids + 1, "text", 0, 1)
<1>1. ids' = ids + 1 /\ parts' = Append(parts, p) /\ ids < MaxParts
  BY DEF Reply, Write
<1>2. /\ p \in PartSet /\ p.id = ids + 1 /\ p.message = ids + 1 /\ p.call = 0
      /\ p.kind \in {"user", "text"}
  BY Known DEF Part, PartSet, Kinds
<1> HIDE DEF p
<1>3. /\ Grows(parts, ids, parts', ids') /\ parts' # <<>>
      /\ SaneHistory(parts') /\ Owing(parts') = Owing(parts)
  BY <1>1, <1>2, Known, PlainPart
<1>4. CutKept
  BY SaveKeeps DEF Reply
<1>5. ids' <= MaxParts /\ owed' = Owing(parts')
  BY <1>1, <1>3, Known DEF Reply, CompactionInv
<1> QED
  BY <1>3, <1>4, <1>5, GrowthStep DEF Reply

LEMMA ReturnKeeps ==
  ASSUME CompactionAssumption, CompactionInv, NEW o \in DOMAIN parts, NEW size \in Sizes, Return(o, size)
  PROVE  CompactionInv'
<1> DEFINE p == Part(ids + 1, ids + 1, "result", parts[o].call, size)
<1>1. ids' = ids + 1 /\ parts' = Append(parts, p) /\ ids < MaxParts /\ o \in Pending(parts)
  BY DEF Return
<1>2. /\ p \in PartSet /\ p.id = ids + 1 /\ p.message = ids + 1 /\ p.call = parts[o].call
      /\ p.kind = "result"
  <2>1. size \in Nat
    BY DEF CompactionAssumption
  <2>2. parts[o].call \in Nat
    BY Known, HistoryFacts
  <2> QED
    BY <2>1, <2>2, Known DEF Part, PartSet, Kinds
<1> HIDE DEF p
<1>3. /\ Grows(parts, ids, parts', ids') /\ parts' # <<>>
      /\ SaneHistory(parts') /\ Owing(parts') = Owing(parts) \ {parts[o].call}
  BY <1>1, <1>2, Known, ResultPart
<1>4. CutKept
  BY DEF Return, CutKept, CompactionInv, RunsKnow, TypeOK
<1>5. ids' <= MaxParts /\ owed' = Owing(parts')
  BY <1>1, <1>3, Known DEF Return, CompactionInv
<1> QED
  BY <1>3, <1>4, <1>5, GrowthStep DEF Return

LEMMA CallKeeps ==
  ASSUME CompactionAssumption, CompactionInv, NEW many \in {1, 2}, Call(many)
  PROVE  CompactionInv'
<1> DEFINE calls == [k \in 1..many |-> Part(ids + k, ids + 1, "call", ids + k, 1)]
<1>1. ids' = ids + many /\ parts' = parts \o calls /\ ids + many <= MaxParts
  BY DEF Call
<1>2. many \in Nat \ {0} /\ ids \in Nat /\ MaxParts \in Nat
  BY Known
<1>3. \A k \in 1..many : /\ calls[k] \in PartSet
                         /\ calls[k].id = ids + k /\ calls[k].message = ids + 1
                         /\ calls[k].kind = "call" /\ calls[k].call = ids + k
  BY <1>2 DEF Part, PartSet, Kinds
<1>4. calls \in Histories /\ Len(calls) = many
  <2>1. calls \in [1..many -> PartSet]
    BY <1>3
  <2>2. calls \in Seq(PartSet) /\ Len(calls) = many
    BY <1>2, <2>1
  <2> QED
    BY <2>2 DEF Histories
<1> HIDE DEF calls
<1>5. /\ Grows(parts, ids, parts', ids')
      /\ SaneHistory(parts') /\ Owing(parts') = Owing(parts) \cup (ids + 1)..(ids + many)
  <2>1. /\ Grows(parts, ids, parts \o calls, ids + many) /\ SaneHistory(parts \o calls)
        /\ Owing(parts \o calls) = Owing(parts) \cup (ids + 1)..(ids + many)
    <3>1. /\ parts \in Histories /\ ids \in Nat /\ Numbered(parts, ids) /\ SaneHistory(parts)
          /\ many \in Nat \ {0} /\ calls \in Histories /\ Len(calls) = many
      BY <1>2, <1>4, Known
    <3>2. \A k \in 1..many : /\ calls[k].id = ids + k /\ calls[k].message = ids + 1
                             /\ calls[k].kind = "call" /\ calls[k].call = ids + k
      BY <1>3
    <3> QED
      BY SMTT(40), <3>1, <3>2, CallParts
  <2> QED
    BY <1>1, <2>1
<1>6. CutKept
  BY DEF Call, CutKept, CompactionInv, RunsKnow, TypeOK
<1>7. ids' <= MaxParts /\ owed' = Owing(parts')
  BY <1>1, <1>2, <1>5 DEF Call, CompactionInv
<1>8. parts' # <<>>
  <2>1. parts' \in Histories /\ Begins(parts, parts') /\ parts # <<>> /\ parts \in Histories
    BY <1>5, Known DEF Grows, CompactionInv, RunsKnow, Call
  <2>2. Len(parts) \in Nat /\ Len(parts) # 0
    BY <2>1 DEF Histories
  <2> QED
    BY <2>1, <2>2 DEF Begins
<1> QED
  BY <1>5, <1>6, <1>7, <1>8, GrowthStep DEF Call

LEMMA QuietKeeps ==
  ASSUME CompactionAssumption, CompactionInv, Resume \/ Stop \/ Fail
  PROVE  CompactionInv'
<1>1. UNCHANGED <<parts, ids, owed>> /\ sent' \in {sent, NoRequest} /\ pc' \in {"idle", "ready"}
  BY DEF Resume, Stop, Fail
<1>2. CutKept
  <2>1. CASE Resume
    BY <2>1, LoadKeeps DEF Resume
  <2>2. CASE Stop
    BY <2>2, SaveKeeps DEF Stop
  <2>3. CASE Fail
    BY <2>3 DEF Fail, CutKept, CompactionInv, RunsKnow, TypeOK
  <2> QED
    BY <2>1, <2>2, <2>3
<1>3. pc' = "ready" => parts' # <<>>
  <2>1. Pending(parts) # {} => parts # <<>>
    BY DEF Pending
  <2> QED
    BY <1>1, <2>1 DEF Resume, Stop, Fail
<1>4. Grows(parts, ids, parts', ids') /\ SaneHistory(parts') /\ owed' = Owing(parts') /\ ids' <= MaxParts
  BY <1>1, NoGrowth, Known DEF CompactionInv, TypeOK
<1> QED
  BY <1>1, <1>2, <1>3, <1>4, GrowthStep

-----------------------------------------------------------------------------
(* Requests.                                                               *)

\* What a cut keeps are blocks, the newest among them.
LEMMA StandingFacts ==
  ASSUME CompactionAssumption, CompactionInv, parts # <<>>, Pending(parts) = {}
  PROVE  KeptFrom(parts, memory) \subseteq Blocks(parts) /\ Max(Blocks(parts)) \in KeptFrom(parts, memory)
<1> DEFINE P == Positions(parts, memory)
<1>1. Max(Blocks(parts)) \in Blocks(parts) /\ \A i \in Blocks(parts) : i <= Max(Blocks(parts))
  BY Known, NewestBlock
<1>2. CASE P = {}
  BY <1>1, <1>2 DEF KeptFrom
<1>3. CASE P # {}
  <2>1. P \subseteq Nat /\ P \subseteq DOMAIN parts
    BY Known, HistoryFacts DEF Positions
  <2>2. Min(P) \in P
    <3> HIDE DEF P
    <3> QED
      BY <1>3, <2>1, MinFacts
  <2>3. Min(P) \in DOMAIN parts /\ parts[Min(P)].kind # "result"
    BY <2>1, <2>2 DEF Positions, CompactionInv, CutsBeginBlocks
  <2>4. Min(P) \in Blocks(parts)
    BY <2>3, Known, BeginsBlock
  <2>5. Max(Blocks(parts)) >= Min(P)
    BY <1>1, <2>1, <2>2, <2>4, Known, NewestBlock
  <2> QED
    BY <1>1, <1>3, <2>5 DEF KeptFrom
<1> QED
  BY <1>2, <1>3

LEMMA AlwaysNewest ==
  ASSUME NEW h \in Histories, h # <<>>, Pending(h) = {}
  PROVE  AlwaysKept(h) = {Max(Blocks(h))}
<1>1. 1 \in Blocks(h) /\ Blocks(h) \ {} = Blocks(h)
  BY NewestBlock
<1> QED
  BY <1>1 DEF AlwaysKept

\* The blocks of a request, and where its cut is.
LEMMA SendFacts ==
  ASSUME CompactionAssumption, CompactionInv, parts # <<>>, Pending(parts) = {},
         NEW limit \in Nat \ {0}, NEW K,
         K = IF Cost(parts, KeptFrom(parts, memory)) <= limit THEN KeptFrom(parts, memory)
             ELSE Selected(parts, Target(limit))
  PROVE  /\ K \subseteq Blocks(parts) /\ Max(Blocks(parts)) \in K
         /\ Cost(parts, K) <= limit \/ K = {Max(Blocks(parts))}
<1> DEFINE standing == KeptFrom(parts, memory)
           chosen == Selected(parts, Target(limit))
           newest == Max(Blocks(parts))
<1>1. standing \subseteq Blocks(parts) /\ newest \in standing
  BY StandingFacts
<1>2. AlwaysKept(parts) = {newest} /\ newest \in Blocks(parts)
  BY Known, AlwaysNewest, NewestBlock
<1>3. /\ newest \in chosen /\ chosen \subseteq Blocks(parts)
      /\ chosen = {newest} \/ Cost(parts, chosen) <= Target(limit)
  BY <1>2, Known, SelectedFacts
<1>4. Target(limit) \in Nat /\ Target(limit) <= limit
  BY TargetFacts
<1>5. Cost(parts, chosen) \in Nat
  <2>1. Total(parts, PartsOf(parts, chosen)) \in Nat /\ ContextSize \in Nat /\ SummarySize \in Nat
    BY Known, TotalType DEF CompactionAssumption
  <2> QED
    BY <2>1 DEF Cost
<1> HIDE DEF standing, chosen, newest
<1>6. K = IF Cost(parts, standing) <= limit THEN standing ELSE chosen
  BY DEF standing, chosen
<1>7. K \subseteq Blocks(parts) /\ newest \in K /\ (Cost(parts, K) <= limit \/ K = {newest})
  BY <1>1, <1>3, <1>4, <1>5, <1>6
<1> QED
  BY <1>7 DEF newest

\* The cut of some blocks is at the message of the first of them, of which no part is a
\* result.
LEMMA BoundaryFacts ==
  ASSUME CompactionAssumption, CompactionInv, Pending(parts) = {},
         NEW K, K \subseteq Blocks(parts), K # {}
  PROVE  /\ Boundary(parts, K) = parts[Min(K)].message /\ Min(K) \in DOMAIN parts
         /\ Boundary(parts, K) \in 1..ids
         /\ \A i \in DOMAIN parts : parts[i].message = Boundary(parts, K) => parts[i].kind # "result"
<1>1. K \subseteq DOMAIN parts /\ K \subseteq Nat
  BY Known, HistoryFacts DEF Blocks
<1>2. Min(K) \in K
  BY <1>1, MinFacts
<1>3. Boundary(parts, K) = parts[Min(K)].message
  <2>1. ~(K \subseteq {}) /\ K \ {} = K
    OBVIOUS
  <2> QED
    BY <2>1 DEF Boundary
<1>4. parts[Min(K)].kind # "result"
  <2> SUFFICES ASSUME parts[Min(K)].kind = "result" PROVE FALSE
    OBVIOUS
  <2>1. PICK j \in DOMAIN parts : j < Min(K) /\ parts[j].kind = "call" /\ parts[j].call = parts[Min(K)].call
    BY <1>1, <1>2, Known DEF SaneHistory
  <2>2. parts[j].call = parts[j].id /\ parts[j].id # 0 /\ parts[Min(K)].call # 0
    BY <2>1, Known DEF SaneHistory
  <2>3. j \in BlockOf(parts, Min(K))
    BY <2>1, <2>2 DEF BlockOf
  <2>4. Min(K) <= j
    BY <1>2, <2>3 DEF Blocks
  <2>5. j \in Nat /\ Min(K) \in Nat
    BY <1>1, <1>2, Known, HistoryFacts
  <2> QED
    BY <2>1, <2>4, <2>5
<1>5. \A i \in DOMAIN parts : parts[i].message = parts[Min(K)].message => parts[i].kind # "result"
  BY <1>1, <1>2, <1>4, Known DEF SaneHistory
<1> QED
  BY <1>1, <1>2, <1>3, <1>5, Known DEF Numbered

\* A cut that stands leaves room when it is made.
LEMMA NewCutLeavesRoom ==
  ASSUME CompactionAssumption, CompactionInv, Pending(parts) = {}, NEW limit \in Nat \ {0}, limit <= Budget,
         NEW K, K \subseteq Blocks(parts), K # {}, Stands(K, limit)
  PROVE  LET message == Boundary(parts, K)
         IN /\ Positions(parts, message) # {}
            /\ ContextSize + Total(parts, KeptOf(parts, message, ids)) + SummarySize <= Target(Budget)
<1> DEFINE message == Boundary(parts, K)
           P == Positions(parts, message)
<1>1. Min(K) \in P /\ P \subseteq Nat /\ P # {}
  <2>1. message = parts[Min(K)].message /\ Min(K) \in DOMAIN parts
    BY BoundaryFacts
  <2>2. DOMAIN parts \subseteq Nat
    BY Known, HistoryFacts
  <2> HIDE DEF message
  <2> QED
    BY <2>1, <2>2 DEF Positions
<1>2. Min(P) \in P
  <2> HIDE DEF P
  <2> QED
    BY <1>1, MinFacts
<1>3. /\ K # Blocks(parts) /\ Cost(parts, K) <= Target(limit)
      /\ K = {i \in Blocks(parts) : i >= Min(P)}
  BY <1>1 DEF Stands, KeptFrom
<1>4. KeptOf(parts, message, ids) \subseteq PartsOf(parts, K)
  <2> SUFFICES ASSUME NEW i \in KeptOf(parts, message, ids) PROVE i \in PartsOf(parts, K)
    OBVIOUS
  <2>1. i \in DOMAIN parts /\ \A j \in BlockOf(parts, i) : Min(P) <= j
    BY DEF KeptOf
  <2>2. PICK b \in Blocks(parts) : /\ i \in BlockOf(parts, b) /\ BlockOf(parts, b) = BlockOf(parts, i)
                                   /\ \A j \in BlockOf(parts, i) : b <= j
    BY <2>1, Known, FirstOfBlock
  <2>3. b \in DOMAIN parts /\ b \in BlockOf(parts, b) /\ b \in Nat
    BY Known, HistoryFacts, BlockFacts DEF Blocks
  <2>4. b >= Min(P)
    BY <1>1, <1>2, <2>1, <2>2, <2>3
  <2> QED
    BY <1>3, <2>2, <2>4 DEF PartsOf
<1>5. Total(parts, KeptOf(parts, message, ids)) <= Total(parts, PartsOf(parts, K))
  <2> DEFINE some == KeptOf(parts, message, ids)
             all == PartsOf(parts, K)
  <2> HIDE DEF some, all
  <2>1. some \subseteq all
    BY <1>4 DEF some, all
  <2>2. Total(parts, some) <= Total(parts, all) + Total(parts, {}) /\ Total(parts, {}) = 0
    BY <2>1, Known, TotalOfUnion, TotalOfNone
  <2>3. Total(parts, some) <= Total(parts, all)
    BY <2>2, Known, TotalType
  <2> QED
    BY <2>3 DEF some, all
<1>6. /\ ContextSize \in Nat /\ SummarySize \in Nat /\ Target(limit) \in Nat /\ Target(Budget) \in Nat
      /\ Target(limit) <= Target(Budget)
  BY TargetFacts DEF CompactionAssumption
<1>7. Cost(parts, K) = ContextSize + Total(parts, PartsOf(parts, K)) + SummarySize
  BY <1>3 DEF Cost
<1>8. Total(parts, KeptOf(parts, message, ids)) \in Nat /\ Total(parts, PartsOf(parts, K)) \in Nat
  BY Known, TotalType
<1>9. ContextSize + Total(parts, KeptOf(parts, message, ids)) + SummarySize <= Target(Budget)
  BY <1>3, <1>5, <1>6, <1>7, <1>8
<1> QED
  BY <1>1, <1>9

LEMMA SendKeeps ==
  ASSUME CompactionAssumption, CompactionInv, parts # <<>>, Pending(parts) = {},
         NEW limit \in Nat \ {0}, limit <= Budget, Send(limit)
  PROVE  CompactionInv'
<1> DEFINE standing == KeptFrom(parts, memory)
           K == IF Cost(parts, standing) <= limit THEN standing ELSE Selected(parts, Target(limit))
<1>1. /\ K \subseteq Blocks(parts) /\ Max(Blocks(parts)) \in K
      /\ Cost(parts, K) <= limit \/ K = {Max(Blocks(parts))}
  BY SendFacts
<1>2. /\ sent' = [kept |-> {parts[i].id : i \in PartsOf(parts, K)}, limit |-> limit]
      /\ pc' = "asked"
      /\ IF K = standing
         THEN UNCHANGED <<memory, dirty, cut>>
         ELSE /\ memory' = Remembered(K)
              /\ dirty' = (dirty \/ memory' # memory)
              /\ cut' = IF Stands(K, limit) THEN ids ELSE 0
      /\ UNCHANGED <<parts, ids, saved, owed>>
  BY DEF Send
<1> HIDE DEF K, standing
<1>3. K # {}
  BY <1>1
<1>4. /\ memory' = memory \/ memory' = Boundary(parts, K)
      /\ dirty' \in BOOLEAN /\ (dirty' \/ memory' = saved')
      /\ cut' = 0 \/ (cut' = cut /\ memory' = memory)
         \/ (Stands(K, limit) /\ cut' = ids /\ memory' = Boundary(parts, K))
  <2>1. dirty \in BOOLEAN /\ (dirty \/ memory = saved)
    BY DEF CompactionInv, TypeOK, RunsKnow
  <2>2. Stands(K, limit) => K # Blocks(parts)
    BY DEF Stands
  <2> QED
    BY <1>2, <2>1, <2>2 DEF Remembered
<1>5. Sound(parts, sent')
  <2>1. Sound(parts, [kept |-> {parts[i].id : i \in PartsOf(parts, K)}, limit |-> limit])
    BY <1>1, Known, BlocksMakeSound
  <2> QED
    BY <1>2, <2>1
<1>6. TypeOK'
  <2>1. PartsOf(parts, K) \subseteq DOMAIN parts
    BY <1>1, Known, FirstsOfBlocks
  <2>2. {parts[i].id : i \in PartsOf(parts, K)} \subseteq 1..ids
    BY <2>1, Known DEF Numbered
  <2>3. limit \in 0..Budget
    BY DEF CompactionAssumption
  <2>4. sent' \in [kept : SUBSET (1..ids'), limit : 0..Budget]
    BY <1>2, <2>2, <2>3
  <2>5. {memory', saved', cut'} \subseteq 0..ids'
    <3>1. {memory, saved, cut} \subseteq 0..ids /\ ids \in 0..ids
      BY Known DEF CompactionInv, TypeOK
    <3>2. Boundary(parts, K) \in 0..ids
      BY <1>1, <1>3, Known, BoundaryFacts
    <3> QED
      BY <1>2, <1>4, <3>1, <3>2
  <2> QED
    BY <1>2, <1>4, <2>4, <2>5 DEF CompactionInv, TypeOK
<1>7. CutsBeginBlocks'
  <2> SUFFICES ASSUME NEW i \in DOMAIN parts, parts[i].message \in {memory', saved} PROVE parts[i].kind # "result"
    BY <1>2 DEF CutsBeginBlocks
  <2>1. parts[i].message \in {memory, saved, Boundary(parts, K)}
    BY <1>4
  <2> QED
    BY <1>1, <1>3, <2>1, BoundaryFacts DEF CompactionInv, CutsBeginBlocks
<1>8. RunsKnow'
  BY <1>2, <1>4 DEF RunsKnow, Pending
<1>9. RoomIsLeft'
  <2>1. CASE cut' = 0
    BY <2>1 DEF RoomIsLeft
  <2>2. CASE cut' = cut /\ memory' = memory
    BY <1>2, <2>2 DEF RoomIsLeft, CompactionInv, Positions, Pending, KeptOf, BlockOf, Total
  <2>3. CASE Stands(K, limit) /\ cut' = ids /\ memory' = Boundary(parts, K)
    <3>1. /\ Positions(parts, Boundary(parts, K)) # {}
          /\ ContextSize + Total(parts, KeptOf(parts, Boundary(parts, K), ids)) + SummarySize <= Target(Budget)
      BY <1>1, <1>3, <2>3, NewCutLeavesRoom
    <3>2. /\ Positions(parts', memory') # {}
          /\ \A i \in Pending(parts') : parts'[i].id > cut'
          /\ ContextSize + Total(parts', KeptOf(parts', memory', cut')) + SummarySize <= Target(Budget)
      BY <1>2, <2>3, <3>1
    <3> QED
      BY <3>2 DEF RoomIsLeft
  <2> QED
    BY <1>4, <2>1, <2>2, <2>3
<1>10. SaneHistory(parts') /\ owed' = Owing(parts')
  BY <1>2 DEF CompactionInv
<1>11. pc' = "asked" => Sound(parts', sent')
  BY <1>2, <1>5
<1> QED
  BY <1>6, <1>7, <1>8, <1>9, <1>10, <1>11 DEF CompactionInv

LEMMA AskKeeps ==
  ASSUME CompactionAssumption, CompactionInv, Request \/ Overflow
  PROVE  CompactionInv'
<1>1. parts # <<>> /\ Pending(parts) = {}
  BY DEF Request, Overflow, CompactionInv, RunsKnow
<1>2. Budget \in Nat \ {0}
  BY DEF CompactionAssumption
<1>3. CASE Request
  BY <1>1, <1>2, <1>3, SendKeeps DEF Request
<1>4. CASE Overflow
  <2> DEFINE half == Max({1, Budget \div 2})
  <2>1. half \in Nat \ {0} /\ half <= Budget
    <3> DEFINE T == {1, Budget \div 2}
    <3>1. Budget \div 2 \in Nat /\ Budget \div 2 <= Budget /\ Budget \in Nat /\ 1 <= Budget
      BY <1>2
    <3>2. T \subseteq 0..Budget /\ T # {} /\ 1 \in T
      BY <3>1
    <3> HIDE DEF T
    <3>3. Max(T) \in T /\ 1 <= Max(T)
      BY <3>1, <3>2, MaxFacts
    <3> QED
      BY <3>1, <3>2, <3>3 DEF T
  <2> HIDE DEF half
  <2>2. Send(half)
    BY <1>4 DEF Overflow, half
  <2> QED
    BY <1>1, <2>1, <2>2, SendKeeps
<1> QED
  BY <1>3, <1>4

\* A cut that a request moves has its room used up.
LEMMA MovesWhenFull ==
  ASSUME CompactionAssumption, CompactionInv, Request, cut # 0, cut' # cut
  PROVE  Written(cut) > Budget - Max({1, (Budget * 6) \div 10})
<1> DEFINE standing == KeptFrom(parts, memory)
           P == Positions(parts, memory)
           later == {i \in DOMAIN parts : parts[i].id > cut}
           kept == KeptOf(parts, memory, cut)
<1>1. parts # <<>> /\ Pending(parts) = {}
  BY DEF Request, CompactionInv, RunsKnow
<1>2. ~(Cost(parts, standing) <= Budget)
  BY DEF Request, Send
<1>3. P # {} /\ ContextSize + Total(parts, kept) + SummarySize <= Target(Budget)
  BY DEF CompactionInv, RoomIsLeft
<1>4. standing = {i \in Blocks(parts) : i >= Min(P)}
  BY <1>1, <1>3 DEF KeptFrom
<1>5. PartsOf(parts, standing) \subseteq kept \cup later
  <2> SUFFICES ASSUME NEW b \in standing, NEW i \in BlockOf(parts, b), i \notin later PROVE i \in kept
    BY DEF PartsOf
  <2>1. b \in Blocks(parts) /\ b \in DOMAIN parts /\ b >= Min(P)
    BY <1>4 DEF Blocks
  <2>2. i \in DOMAIN parts /\ BlockOf(parts, i) = BlockOf(parts, b) /\ \A j \in BlockOf(parts, b) : b <= j /\ j \in DOMAIN parts
    BY <2>1, BlockFacts DEF Blocks
  <2>3. parts[i].id <= cut
    <3>1. parts[i].id \in Nat /\ cut \in Nat
      <4>1. parts[i].id \in Nat
        BY <2>2, Known, HistoryFacts
      <4>2. cut \in 0..ids /\ ids \in Nat
        BY Known DEF CompactionInv, TypeOK
      <4> QED
        BY <4>1, <4>2
    <3> QED
      BY <2>2, <3>1
  <2>4. P \subseteq Nat /\ DOMAIN parts \subseteq Nat
    BY Known, HistoryFacts DEF Positions
  <2>5. Min(P) \in Nat
    <3> HIDE DEF P
    <3> QED
      BY <1>3, <2>4, MinFacts
  <2>6. \A j \in BlockOf(parts, i) : Min(P) <= j
    <3> HIDE DEF P, standing
    <3> QED
      BY <2>1, <2>2, <2>4, <2>5
  <2> QED
    BY <2>2, <2>3, <2>6 DEF KeptOf
<1>6. Written(cut) = Total(parts, later)
  BY DEF Written
<1> HIDE DEF later, kept, standing
<1>7. Total(parts, PartsOf(parts, standing)) <= Total(parts, kept) + Total(parts, later)
  BY <1>5, Known, TotalOfUnion
<1>8. Cost(parts, standing) <= ContextSize + Total(parts, PartsOf(parts, standing)) + SummarySize
  <2>1. ContextSize \in Nat /\ SummarySize \in Nat /\ Total(parts, PartsOf(parts, standing)) \in Nat
    BY Known, TotalType DEF CompactionAssumption
  <2> QED
    BY <2>1 DEF Cost
<1>9. Cost(parts, standing) \in Nat
  <2>1. ContextSize \in Nat /\ SummarySize \in Nat /\ Total(parts, PartsOf(parts, standing)) \in Nat
    BY Known, TotalType DEF CompactionAssumption
  <2> QED
    BY <2>1 DEF Cost
<1>10. /\ Total(parts, kept) \in Nat /\ Total(parts, later) \in Nat /\ Total(parts, PartsOf(parts, standing)) \in Nat
       /\ ContextSize \in Nat /\ SummarySize \in Nat /\ Budget \in Nat
       /\ Target(Budget) \in Nat /\ Target(Budget) = Max({1, (Budget * 6) \div 10})
  BY Known, TotalType, TargetFacts DEF CompactionAssumption
<1>11. Total(parts, later) > Budget - Target(Budget)
  BY <1>2, <1>3, <1>7, <1>8, <1>9, <1>10
<1> QED
  BY <1>6, <1>10, <1>11

-----------------------------------------------------------------------------
(* The compaction the user asks for.                                       *)

\* A list of the positions up to i, in their order.
Lists(list, at, i) ==
    /\ list \in Seq(Nat)
    /\ \A k \in DOMAIN list : list[k] \in at /\ list[k] \in 1..i
    /\ \A j \in 1..i : j \in at => \E k \in DOMAIN list : list[k] = j
    /\ \A k, l \in DOMAIN list : k < l => list[k] < list[l]

LEMMA ListsNext ==
  ASSUME NEW i \in Nat \ {0}, NEW at, NEW list, Lists(list, at, i - 1)
  PROVE  Lists(IF i \in at THEN Append(list, i) ELSE list, at, i)
<1>1. PICK n : n \in Nat /\ n = Len(list) /\ DOMAIN list = 1..n /\ list \in Seq(Nat)
  BY DEF Lists
<1>2. \A j \in 1..i : j = i \/ j \in 1..(i - 1)
  OBVIOUS
<1>3. \A j \in 1..(i - 1) : j \in 1..i /\ j < i
  OBVIOUS
<1>4. CASE i \notin at
  BY <1>1, <1>2, <1>3, <1>4 DEF Lists
<1>5. CASE i \in at
  <2> DEFINE longer == Append(list, i)
  <2>1. /\ longer \in Seq(Nat) /\ Len(longer) = n + 1 /\ DOMAIN longer = 1..(n + 1)
        /\ longer[n + 1] = i /\ \A k \in 1..n : longer[k] = list[k]
    BY <1>1
  <2> HIDE DEF longer
  <2>2. \A k \in 1..(n + 1) : k = n + 1 \/ k \in 1..n
    BY <1>1
  <2>3. \A k \in 1..n : k \in 1..(n + 1)
    BY <1>1
  <2>4. ASSUME NEW k \in 1..(n + 1) PROVE longer[k] \in at /\ longer[k] \in 1..i
    <3>1. CASE k = n + 1
      BY <1>5, <2>1, <3>1
    <3>2. CASE k \in 1..n
      <4>1. list[k] \in at /\ list[k] \in 1..(i - 1)
        BY <1>1, <3>2 DEF Lists
      <4> QED
        BY <1>3, <2>1, <3>2, <4>1
    <3> QED
      BY <2>2, <3>1, <3>2
  <2>5. \A j \in 1..i : j \in at => \E k \in 1..(n + 1) : longer[k] = j
    <3> SUFFICES ASSUME NEW j \in 1..i, j \in at PROVE \E k \in 1..(n + 1) : longer[k] = j
      OBVIOUS
    <3>1. CASE j = i
      <4>1. n + 1 \in 1..(n + 1)
        BY <1>1
      <4> QED
        BY <2>1, <3>1, <4>1
    <3>2. CASE j \in 1..(i - 1)
      <4>1. PICK k \in 1..n : list[k] = j
        BY <1>1, <3>2 DEF Lists
      <4> QED
        BY <2>1, <2>3, <4>1
    <3> QED
      BY <1>2, <3>1, <3>2
  <2>6. ASSUME NEW k \in 1..(n + 1), NEW l \in 1..(n + 1), k < l PROVE longer[k] < longer[l]
    <3>1. k \in 1..n
      BY <1>1, <2>6
    <3>2. list[k] \in 1..(i - 1)
      BY <1>1, <3>1 DEF Lists
    <3>3. CASE l = n + 1
      BY <1>3, <2>1, <3>1, <3>2, <3>3
    <3>4. CASE l \in 1..n
      BY <1>1, <2>1, <2>6, <3>1, <3>4 DEF Lists
    <3> QED
      BY <2>2, <3>3, <3>4
  <2>7. Lists(longer, at, i)
    BY <2>1, <2>4, <2>5, <2>6 DEF Lists
  <2> QED
    BY <1>5, <2>7 DEF longer
<1> QED
  BY <1>4, <1>5

LEMMA InOrderLists ==
  ASSUME parts \in Histories, NEW at
  PROVE  Lists(InOrder(at), at, Len(parts))
<1>1. PICK n : n \in Nat /\ n = Len(parts)
  BY HistoryFacts
<1>2. PICK V : V = Seq(Nat)
  OBVIOUS
<1> DEFINE More(list, i) == IF i \in at THEN Append(list, i) ELSE list
           Is(f) == f = [i \in 0..n |-> IF i = 0 THEN <<>> ELSE More(f[i - 1], i)]
<1>3. \A i \in 1..n, list \in V : More(list, i) \in V
  BY <1>1, <1>2
<1>4. PICK step : step = [i \in 1..n |-> [list \in V |-> More(list, i)]]
  OBVIOUS
<1>5. step \in Steps(n, V) /\ \A i \in 1..n, list \in V : step[i][list] = More(list, i)
  <2> HIDE DEF More
  <2> QED
    BY <1>3, <1>4 DEF Steps
<1>6. <<>> \in V
  BY <1>2
<1>7. PICK g : Follows(g, n, V, <<>>, step)
  BY <1>1, <1>5, <1>6, Recursion
<1>8. \E f : Is(f)
  <2>1. g \in [0..n -> V] /\ g[0] = <<>> /\ \A i \in 1..n : g[i] = step[i][g[i - 1]]
    BY <1>7 DEF Follows
  <2>2. \A i \in 1..n : g[i] = More(g[i - 1], i)
    <3>1. \A i \in 1..n : i - 1 \in 0..n
      BY <1>1
    <3> HIDE DEF More
    <3> QED
      BY <1>5, <2>1, <3>1
  <2>3. \A i \in 0..n : g[i] = IF i = 0 THEN <<>> ELSE More(g[i - 1], i)
    <3>1. \A i \in 0..n : i = 0 \/ i \in 1..n
      BY <1>1
    <3> HIDE DEF More
    <3> QED
      BY <2>1, <2>2, <3>1
  <2>4. Is(g)
    <3> HIDE DEF More
    <3> QED
      BY <2>1, <2>3
  <2> HIDE DEF Is
  <2> QED
    BY <2>4
<1>9. PICK f : Is(f) /\ InOrder(at) = f[n]
  BY <1>1, <1>8 DEF InOrder
<1>10. f[0] = <<>> /\ \A i \in 1..n : f[i] = More(f[i - 1], i)
  <2>1. \A i \in 1..n : i \in 0..n /\ i # 0
    BY <1>1
  <2> HIDE DEF More
  <2> QED
    BY <1>1, <1>9, <2>1
<1> HIDE DEF Is
<1> DEFINE T == {i \in 0..n : Lists(f[i], at, i)}
<1>11. 0 \in T
  <2>1. Lists(<<>>, at, 0)
    BY DEF Lists
  <2> QED
    BY <1>1, <1>10, <2>1
<1>12. ASSUME NEW i \in 1..n, i - 1 \in T PROVE i \in T
  <2>1. Lists(More(f[i - 1], i), at, i)
    BY <1>12, ListsNext
  <2> QED
    BY <1>1, <1>10, <2>1
<1> HIDE DEF T, More
<1>13. 0..n \subseteq T
  BY <1>1, <1>11, <1>12, Induction
<1>14. n \in T
  BY <1>1, <1>13
<1> QED
  BY <1>1, <1>9, <1>14 DEF T

\* The order of a history whose gone parts are replaced by a summary, which is at 0: every
\* part that is kept, in the order they had.
Weaves(order, kept) ==
    /\ order \in Seq(Nat)
    /\ \A k \in DOMAIN order : order[k] = 0 \/ order[k] \in kept
    /\ \A i \in kept : \E k \in DOMAIN order : order[k] = i
    /\ \A k, l \in DOMAIN order : k < l /\ order[k] # 0 /\ order[l] # 0 => order[k] < order[l]
    /\ \A k, l \in DOMAIN order : order[k] = 0 /\ order[l] = 0 => k = l

LEMMA OrderWeaves ==
  ASSUME NEW n \in Nat, NEW m \in Nat, NEW kept \in SUBSET (1..n), NEW A, NEW B,
         Lists(A, {i \in kept : i < m}, n), Lists(B, kept \ {i \in kept : i < m}, n)
  PROVE  Weaves(A \o <<0>> \o B, kept)
<1>1. PICK a, b : /\ a \in Nat /\ a = Len(A) /\ DOMAIN A = 1..a /\ A \in Seq(Nat)
                  /\ b \in Nat /\ b = Len(B) /\ DOMAIN B = 1..b /\ B \in Seq(Nat)
  <2>1. A \in Seq(Nat) /\ B \in Seq(Nat)
    BY DEF Lists
  <2>2. /\ Len(A) \in Nat /\ DOMAIN A = 1..Len(A)
        /\ Len(B) \in Nat /\ DOMAIN B = 1..Len(B)
    BY <2>1
  <2> QED
    BY <2>1, <2>2
<1> DEFINE order == A \o <<0>> \o B
<1>2. /\ order \in Seq(Nat) /\ DOMAIN order = 1..(a + 1 + b)
      /\ \A k \in 1..a : order[k] = A[k]
      /\ order[a + 1] = 0
      /\ \A k \in 1..b : order[a + 1 + k] = B[k]
  <2> DEFINE front == A \o <<0>>
  <2>1. <<0>> \in Seq(Nat) /\ Len(<<0>>) = 1 /\ <<0>>[1] = 0
    OBVIOUS
  <2>2. /\ front \in Seq(Nat) /\ Len(front) = a + 1
        /\ \A k \in 1..(a + 1) : front[k] = IF k <= a THEN A[k] ELSE <<0>>[k - a]
    BY <1>1, <2>1, ConcatProperties
  <2>3. front[a + 1] = 0 /\ \A k \in 1..a : front[k] = A[k]
    <3>1. a + 1 \in 1..(a + 1) /\ ~(a + 1 <= a) /\ a + 1 - a = 1
      BY <1>1
    <3>2. \A k \in 1..a : k \in 1..(a + 1) /\ k <= a
      BY <1>1
    <3> HIDE DEF front
    <3>3. front[a + 1] = <<0>>[1]
      <4>1. PICK i \in 1..(a + 1) : i = a + 1 /\ ~(i <= a) /\ i - a = 1
        BY <1>1, <3>1
      <4>2. front[i] = <<0>>[i - a]
        BY <2>2, <4>1
      <4> QED
        BY <4>1, <4>2
    <3>4. \A k \in 1..a : front[k] = A[k]
      BY <2>2, <3>2
    <3> QED
      BY <2>1, <3>1, <3>3, <3>4
  <2> HIDE DEF front
  <2>4. order = front \o B
    BY DEF front
  <2> HIDE DEF order
  <2>5. /\ order \in Seq(Nat) /\ Len(order) = a + 1 + b
        /\ \A k \in 1..(a + 1 + b) : order[k] = IF k <= a + 1 THEN front[k] ELSE B[k - (a + 1)]
    <3>1. front \in Seq(Nat) /\ B \in Seq(Nat) /\ Len(front) = a + 1 /\ Len(B) = b
      BY <1>1, <2>2
    <3>2. /\ front \o B \in Seq(Nat) /\ Len(front \o B) = Len(front) + Len(B)
          /\ \A k \in 1..(Len(front) + Len(B)) :
               (front \o B)[k] = IF k <= Len(front) THEN front[k] ELSE B[k - Len(front)]
      BY <3>1, ConcatProperties
    <3> QED
      BY <2>4, <3>1, <3>2
  <2>6. DOMAIN order = 1..(a + 1 + b)
    BY <2>5
  <2>7. \A k \in 1..(a + 1) : k \in 1..(a + 1 + b) /\ k <= a + 1
    BY <1>1
  <2>8. \A k \in 1..(a + 1) : order[k] = front[k]
    BY <2>5, <2>7
  <2>9. \A k \in 1..a : k \in 1..(a + 1)
    BY <1>1
  <2>10. a + 1 \in 1..(a + 1)
    BY <1>1
  <2>11. ASSUME NEW k \in 1..b PROVE order[a + 1 + k] = B[k]
    <3>1. PICK l \in 1..(a + 1 + b) : l = a + 1 + k /\ ~(l <= a + 1) /\ l - (a + 1) = k
      BY <1>1
    <3>2. order[l] = B[l - (a + 1)]
      BY <2>5, <3>1
    <3> QED
      BY <3>1, <3>2
  <2> QED
    BY <2>3, <2>5, <2>6, <2>8, <2>9, <2>10, <2>11
<1> HIDE DEF order
<1>3. \A k \in 1..a : A[k] \in kept /\ A[k] \in 1..n /\ A[k] < m
  BY <1>1 DEF Lists
<1>4. \A k \in 1..b : B[k] \in kept /\ B[k] \in 1..n /\ m <= B[k]
  <2>1. \A k \in 1..b : B[k] \in kept \ {i \in kept : i < m} /\ B[k] \in 1..n
    BY <1>1 DEF Lists
  <2>2. \A i \in 1..n : m <= i \/ i < m
    OBVIOUS
  <2> QED
    BY <2>1, <2>2
<1>5. ASSUME NEW k \in 1..(a + 1 + b)
      PROVE  \/ k \in 1..a /\ order[k] = A[k]
             \/ k = a + 1 /\ order[k] = 0
             \/ \E l \in 1..b : k = a + 1 + l /\ order[k] = B[l]
  <2>1. k \in 1..a \/ k = a + 1 \/ (k - (a + 1) \in 1..b /\ k = a + 1 + (k - (a + 1)))
    BY <1>1
  <2> QED
    BY <1>2, <2>1
<1>6. \A k \in 1..(a + 1 + b) : order[k] = 0 \/ order[k] \in kept
  BY <1>3, <1>4, <1>5
<1>7. ASSUME NEW i \in kept PROVE \E k \in 1..(a + 1 + b) : order[k] = i
  <2>1. i \in 1..n
    OBVIOUS
  <2>2. CASE i < m
    <3>1. PICK k \in 1..a : A[k] = i
      BY <1>1, <2>1, <2>2 DEF Lists
    <3>2. k \in 1..(a + 1 + b)
      BY <1>1
    <3> QED
      BY <1>2, <3>1, <3>2
  <2>3. CASE ~(i < m)
    <3>1. PICK k \in 1..b : B[k] = i
      BY <1>1, <2>1, <2>3 DEF Lists
    <3>2. a + 1 + k \in 1..(a + 1 + b)
      BY <1>1
    <3> QED
      BY <1>2, <3>1, <3>2
  <2> QED
    BY <2>2, <2>3
<1>8. ASSUME NEW k \in 1..(a + 1 + b), NEW l \in 1..(a + 1 + b), k < l, order[k] # 0, order[l] # 0
      PROVE  order[k] < order[l]
  <2>1. CASE k \in 1..a /\ l \in 1..a
    BY <1>1, <1>2, <1>8, <2>1 DEF Lists
  <2>2. CASE k \in 1..a /\ \E j \in 1..b : l = a + 1 + j /\ order[l] = B[j]
    BY <1>2, <1>3, <1>4, <2>2
  <2>3. CASE \E i, j \in 1..b : k = a + 1 + i /\ order[k] = B[i] /\ l = a + 1 + j /\ order[l] = B[j]
    <3>1. PICK i, j \in 1..b : k = a + 1 + i /\ order[k] = B[i] /\ l = a + 1 + j /\ order[l] = B[j]
      BY <2>3
    <3>2. i < j
      BY <1>1, <1>8, <3>1
    <3> QED
      BY <1>1, <3>1, <3>2 DEF Lists
  <2>4. CASE l \in 1..a /\ k \notin 1..a
    BY <1>1, <1>8, <2>4
  <2> QED
    BY <1>5, <1>8, <2>1, <2>2, <2>3, <2>4
<1>9. \A k \in 1..(a + 1 + b) : order[k] = 0 => k = a + 1
  BY <1>3, <1>4, <1>5
<1>10. Weaves(order, kept)
  BY <1>2, <1>6, <1>7, <1>8, <1>9 DEF Weaves
<1> QED
  BY <1>10 DEF order

\* What always stays are blocks, all that is pending among them.
LEMMA AlwaysBlocks ==
  ASSUME NEW h \in Histories, SaneHistory(h), h # <<>>
  PROVE  AlwaysKept(h) \subseteq Blocks(h) /\ Pending(h) \subseteq AlwaysKept(h)
<1>1. Pending(h) \subseteq Blocks(h)
  <2> SUFFICES ASSUME NEW i \in Pending(h) PROVE i \in Blocks(h)
    OBVIOUS
  <2>1. i \in DOMAIN h /\ h[i].kind # "result"
    BY DEF Pending
  <2> QED
    BY <2>1, BeginsBlock
<1> DEFINE Others == Blocks(h) \ Pending(h)
<1>2. ASSUME ~(Blocks(h) \subseteq Pending(h)) PROVE Max(Others) \in Others
  <2>1. PICK n : n \in Nat /\ n = Len(h)
    BY HistoryFacts
  <2>2. Others \subseteq 0..n /\ Others # {}
    BY <1>2, <2>1, NewestBlock
  <2> HIDE DEF Others
  <2> QED
    BY <2>1, <2>2, MaxFacts
<1> QED
  BY <1>1, <1>2 DEF AlwaysKept

\* Blocks that have what is pending, in their order, and a summary.
LEMMA CompactedHistory ==
  ASSUME NEW n \in Nat, NEW h \in Histories, Numbered(h, n), SaneHistory(h),
         NEW kept \in SUBSET (DOMAIN h), Pending(h) \subseteq kept,
         \A i \in DOMAIN h : \A j \in BlockOf(h, i) : i \in kept <=> j \in kept,
         NEW order, Weaves(order, kept),
         NEW p \in PartSet, p.id = n + 1, p.message = n + 1, p.call = 0, p.kind = "summary",
         NEW new, new = [k \in DOMAIN order |-> IF order[k] = 0 THEN p ELSE h[order[k]]]
  PROVE  /\ new \in Histories /\ Numbered(new, n + 1) /\ SaneHistory(new) /\ Owing(new) = Owing(h)
         /\ \A k \in DOMAIN new : new[k] = p \/ \E i \in DOMAIN h : new[k] = h[i]
<1>1. PICK m : m \in Nat /\ m = Len(order) /\ DOMAIN order = 1..m
  BY SMTT(40) DEF Weaves
<1>2. DOMAIN h \subseteq Nat \ {0}
  BY HistoryFacts
<1>3. /\ DOMAIN new = 1..m
      /\ \A k \in 1..m : (order[k] = 0 /\ new[k] = p)
                          \/ (order[k] # 0 /\ order[k] \in kept /\ order[k] \in DOMAIN h /\ new[k] = h[order[k]])
  <2>1. DOMAIN new = 1..m /\ \A k \in 1..m : new[k] = IF order[k] = 0 THEN p ELSE h[order[k]]
    BY <1>1
  <2> QED
    BY <1>1, <2>1 DEF Weaves
<1>4. /\ \A i \in kept : \E k \in 1..m : order[k] = i
      /\ \A k, l \in 1..m : k < l /\ order[k] # 0 /\ order[l] # 0 => order[k] < order[l]
      /\ \A k, l \in 1..m : order[k] = 0 /\ order[l] = 0 => k = l
  BY <1>1 DEF Weaves
<1>5. \A i \in DOMAIN h : /\ h[i] \in PartSet
                          /\ h[i].id \in 1..n /\ h[i].message \in 1..n /\ h[i].call \in 0..n
  BY HistoryFacts DEF Numbered
<1>6. \A k, l \in 1..m : order[k] = order[l] => k = l
  <2> SUFFICES ASSUME NEW k \in 1..m, NEW l \in 1..m, order[k] = order[l], order[k] # 0, k # l PROVE FALSE
    BY <1>4
  <2>1. order[k] \in Nat
    BY <1>2, <1>3
  <2>2. k < l \/ l < k
    BY <1>1
  <2> QED
    BY <1>4, <2>1, <2>2
<1>7. new \in Histories
  <2>1. \A k \in 1..m : new[k] \in PartSet
    BY <1>3, <1>5
  <2>2. new = [k \in 1..m |-> new[k]]
    BY <1>3
  <2>3. new \in [1..m -> PartSet]
    BY <2>1, <2>2
  <2>4. new \in Seq(PartSet)
    BY <1>1, <2>3
  <2> QED
    BY <2>4 DEF Histories
<1>8. Numbered(new, n + 1)
  <2> SUFFICES ASSUME NEW k \in 1..m
               PROVE  new[k].id \in 1..(n + 1) /\ new[k].message \in 1..(n + 1) /\ new[k].call \in 0..(n + 1)
    BY <1>3 DEF Numbered
  <2> QED
    BY <1>3, <1>5
<1>9. \A k \in 1..m : new[k] = p \/ \E i \in DOMAIN h : new[k] = h[i]
  BY <1>3
<1>10. SaneHistory(new)
  <2>1. ASSUME NEW k \in 1..m
        PROVE  /\ new[k].kind = "call" => new[k].call = new[k].id
               /\ new[k].kind \notin {"call", "result"} => new[k].call = 0
               /\ new[k].id # 0
    BY <1>3 DEF SaneHistory
  <2>2. ASSUME NEW k \in 1..m, new[k].kind = "result"
        PROVE  \E l \in 1..m : l < k /\ new[l].kind = "call" /\ new[l].call = new[k].call
    <3>1. order[k] # 0 /\ order[k] \in kept /\ order[k] \in DOMAIN h /\ new[k] = h[order[k]]
      BY <1>3, <2>2
    <3>2. PICK j \in DOMAIN h : j < order[k] /\ h[j].kind = "call" /\ h[j].call = h[order[k]].call
      BY <2>2, <3>1 DEF SaneHistory
    <3>3. h[order[k]].call # 0
      BY <1>5, <3>2 DEF SaneHistory
    <3>4. j \in BlockOf(h, order[k])
      BY <3>2, <3>3 DEF BlockOf
    <3>5. j \in kept
      BY <3>1, <3>4
    <3>6. PICK l \in 1..m : order[l] = j
      BY <1>4, <3>5
    <3>7. new[l] = h[j]
      BY <1>2, <1>3, <3>6
    <3>8. l < k
      <4>1. j \in Nat /\ j # 0 /\ order[k] \in Nat
        BY <1>2, <3>1
      <4>2. ~(k < l) /\ k # l
        BY <1>4, <3>1, <3>2, <3>6, <4>1
      <4> QED
        BY <1>1, <4>2
    <3> QED
      BY <3>1, <3>2, <3>7, <3>8
  <2>3. ASSUME NEW k \in 1..m, NEW l \in 1..m
        PROVE  /\ new[k].kind = "result" /\ new[l].kind = "result" /\ new[k].call = new[l].call => k = l
               /\ new[k].id = new[l].id => k = l
               /\ new[k].message = new[l].message => new[k].kind = new[l].kind
    <3>1. CASE order[k] = 0 /\ order[l] = 0
      BY <1>4, <3>1
    <3>2. CASE order[k] # 0 /\ order[l] # 0
      <4>1. /\ order[k] \in DOMAIN h /\ new[k] = h[order[k]]
            /\ order[l] \in DOMAIN h /\ new[l] = h[order[l]]
        BY <1>3, <3>2
      <4> QED
        BY <1>6, <4>1 DEF SaneHistory
    <3>3. CASE order[k] = 0 /\ order[l] # 0
      <4>1. new[k] = p /\ order[l] \in DOMAIN h /\ new[l] = h[order[l]]
        BY <1>3, <3>3
      <4> QED
        BY <1>5, <4>1
    <3>4. CASE order[k] # 0 /\ order[l] = 0
      <4>1. new[l] = p /\ order[k] \in DOMAIN h /\ new[k] = h[order[k]]
        BY <1>3, <3>4
      <4> QED
        BY <1>5, <4>1
    <3> QED
      BY <3>1, <3>2, <3>3, <3>4
  <2> QED
    BY <1>3, <2>1, <2>2, <2>3 DEF SaneHistory
<1>11. Owing(new) = Owing(h)
  <2>1. ASSUME NEW k \in Pending(new) PROVE order[k] \in Pending(h) /\ new[k] = h[order[k]]
    <3>1. k \in 1..m /\ new[k].kind = "call"
      BY <1>3 DEF Pending
    <3>2. order[k] \in kept /\ order[k] \in DOMAIN h /\ new[k] = h[order[k]]
      BY <1>3, <3>1
    <3>3. ASSUME NEW j \in DOMAIN h, h[j].kind = "result" PROVE h[j].call # h[order[k]].call
      <4> SUFFICES ASSUME h[j].call = h[order[k]].call PROVE FALSE
        OBVIOUS
      <4>1. h[order[k]].call # 0
        BY <3>1, <3>2 DEF SaneHistory
      <4>2. j \in BlockOf(h, order[k])
        BY <3>3, <4>1 DEF BlockOf
      <4>3. j \in kept
        BY <3>2, <4>2
      <4>4. PICK l \in 1..m : order[l] = j
        BY <1>4, <4>3
      <4>5. new[l] = h[j]
        BY <1>2, <1>3, <4>4
      <4> QED
        BY <1>3, <3>2, <3>3, <4>5 DEF Pending
    <3> QED
      BY <3>1, <3>2, <3>3 DEF Pending
  <2>2. ASSUME NEW i \in Pending(h) PROVE \E k \in Pending(new) : new[k] = h[i]
    <3>1. i \in kept /\ i \in DOMAIN h /\ h[i].kind = "call"
          /\ \A j \in DOMAIN h : h[j].kind = "result" => h[j].call # h[i].call
      BY DEF Pending
    <3>2. PICK k \in 1..m : order[k] = i
      BY <1>4, <3>1
    <3>3. new[k] = h[i]
      BY <1>2, <1>3, <3>1, <3>2
    <3>4. \A l \in 1..m : new[l].kind = "result" => new[l].call # new[k].call
      BY <1>3, <3>1, <3>3
    <3>5. k \in Pending(new)
      BY <1>3, <3>1, <3>3, <3>4 DEF Pending
    <3> QED
      BY <3>3, <3>5
  <2> QED
    BY <2>1, <2>2 DEF Owing
<1> QED
  BY <1>3, <1>7, <1>8, <1>9, <1>10, <1>11

LEMMA CompactKeeps ==
  ASSUME CompactionAssumption, CompactionInv, Compact
  PROVE  CompactionInv'
<1> DEFINE kept == PartsOf(parts, AlwaysKept(parts))
           gone == DOMAIN parts \ kept
           least == Min(Positions(parts, parts[Min(gone)].message))
           before == {i \in kept : i < least}
           order == InOrder(before) \o <<0>> \o InOrder(kept \ before)
           p == Part(ids + 1, ids + 1, "summary", 0, SummarySize)
<1>1. /\ gone # {} /\ pc = "idle" /\ ids < MaxParts /\ ids' = ids + 1
      /\ parts' = [k \in DOMAIN order |-> IF order[k] = 0 THEN p ELSE parts[order[k]]]
      /\ cut' = 0 /\ UNCHANGED <<memory, dirty, saved, pc, sent, owed>>
  BY DEF Compact
<1>2. PICK n : n \in Nat /\ n = Len(parts) /\ DOMAIN parts = 1..n
  BY SMTT(40), Known, HistoryFacts
<1>3. parts # <<>>
  BY <1>1
<1>4. /\ AlwaysKept(parts) \subseteq Blocks(parts) /\ Pending(parts) \subseteq AlwaysKept(parts)
  BY <1>3, Known, AlwaysBlocks
<1>5. /\ kept \subseteq 1..n
      /\ \A i \in DOMAIN parts : \A j \in BlockOf(parts, i) : i \in kept <=> j \in kept
      /\ Pending(parts) \subseteq kept
  <2>1. /\ kept \subseteq DOMAIN parts /\ kept \cap Blocks(parts) = AlwaysKept(parts)
        /\ \A i \in DOMAIN parts : \A j \in BlockOf(parts, i) : i \in kept <=> j \in kept
    BY <1>4, Known, FirstsOfBlocks
  <2> HIDE DEF kept
  <2> QED
    BY <1>2, <1>4, <2>1
<1>6. least \in Nat
  <2> DEFINE first == Min(gone)
             P == Positions(parts, parts[first].message)
  <2>1. gone \subseteq Nat /\ gone \subseteq DOMAIN parts
    BY <1>2
  <2>2. first \in gone
    <3> HIDE DEF gone
    <3> QED
      BY <1>1, <2>1, MinFacts
  <2> HIDE DEF first
  <2>3. first \in P /\ P \subseteq Nat
    BY <1>2, <2>1, <2>2 DEF Positions
  <2>4. Min(P) \in P
    <3> HIDE DEF P
    <3> QED
      BY <2>3, MinFacts
  <2>5. Min(P) \in Nat
    BY <2>3, <2>4
  <2> QED
    BY <2>5 DEF first
<1>7. Weaves(order, kept)
  <2> HIDE DEF kept, least
  <2>1. Lists(InOrder(before), before, n) /\ Lists(InOrder(kept \ before), kept \ before, n)
    BY <1>2, Known, InOrderLists
  <2> QED
    BY <1>2, <1>5, <1>6, <2>1, OrderWeaves
<1>8. p \in PartSet /\ p.id = ids + 1 /\ p.message = ids + 1 /\ p.call = 0 /\ p.kind = "summary"
  BY Known DEF Part, PartSet, Kinds, CompactionAssumption
<1> HIDE DEF order, p, kept, gone
<1> DEFINE new == [k \in DOMAIN order |-> IF order[k] = 0 THEN p ELSE parts[order[k]]]
<1>9. /\ new \in Histories /\ Numbered(new, ids + 1) /\ SaneHistory(new) /\ Owing(new) = Owing(parts)
      /\ \A k \in DOMAIN new : new[k] = p \/ \E i \in DOMAIN parts : new[k] = parts[i]
  <2>1. kept \in SUBSET (DOMAIN parts) /\ new = [k \in DOMAIN order |-> IF order[k] = 0 THEN p ELSE parts[order[k]]]
    BY <1>2, <1>5
  <2>2. ids \in Nat /\ parts \in Histories /\ Numbered(parts, ids) /\ SaneHistory(parts)
    BY Known
  <2> HIDE DEF new
  <2> QED
    BY <1>5, <1>7, <1>8, <2>1, <2>2, CompactedHistory
<1>10. parts' = new
  BY <1>1
<1> HIDE DEF new
<1>11. ids \in Nat /\ MaxParts \in Nat /\ ids' = ids + 1 /\ ids' <= MaxParts
  BY <1>1, Known
<1>12. TypeOK'
  <2>1. new \in Seq([id : 1..(ids + 1), message : 1..(ids + 1), call : 0..(ids + 1), size : Nat,
                     kind : {"user", "text", "call", "result", "summary"}])
    BY SMTT(40), <1>9, <1>11, TypedParts DEF Numbered
  <2>2. {memory', saved', cut'} \subseteq 0..ids' /\ owed' \subseteq 1..ids'
    BY <1>1, <1>11 DEF CompactionInv, TypeOK
  <2>3. sent' \in [kept : SUBSET (1..ids'), limit : 0..Budget]
    <3>1. 1..ids \subseteq 1..ids' /\ sent' = sent
      BY <1>1, <1>11
    <3>2. sent \in [kept : SUBSET (1..ids), limit : 0..Budget]
      BY DEF CompactionInv, TypeOK
    <3> QED
      BY <3>1, <3>2
  <2>4. \A i, j \in DOMAIN new : new[i].id = new[j].id => i = j
    BY <1>9 DEF SaneHistory
  <2>5. ids' \in 0..MaxParts /\ dirty' \in BOOLEAN /\ pc' \in {"idle", "ready", "asked"}
    BY <1>1, <1>11 DEF CompactionInv, TypeOK
  <2> QED
    BY <1>10, <1>11, <2>1, <2>2, <2>3, <2>4, <2>5 DEF TypeOK
<1>13. CutsBeginBlocks'
  <2> SUFFICES ASSUME NEW k \in DOMAIN new, new[k].message \in {memory, saved} PROVE new[k].kind # "result"
    BY <1>1, <1>10 DEF CutsBeginBlocks
  <2>1. CASE new[k] = p
    BY <1>8, <2>1
  <2>2. CASE \E i \in DOMAIN parts : new[k] = parts[i]
    BY <2>2 DEF CompactionInv, CutsBeginBlocks
  <2> QED
    BY <1>9, <2>1, <2>2
<1>14. RunsKnow' /\ RoomIsLeft'
  BY <1>1 DEF RunsKnow, RoomIsLeft, CompactionInv
<1>15. SaneHistory(parts') /\ owed' = Owing(parts') /\ pc' # "asked"
  BY <1>1, <1>9, <1>10 DEF CompactionInv
<1> QED
  BY SMTT(40), <1>12, <1>13, <1>14, <1>15 DEF CompactionInv

-----------------------------------------------------------------------------
(* The theorems.                                                           *)

LEMMA InitInv ==
  ASSUME CompactionAssumption, Init
  PROVE  CompactionInv
<1>1. TypeOK
  <2>1. parts \in Seq([id : 1..ids, message : 1..ids, call : 0..ids, size : Nat,
                       kind : {"user", "text", "call", "result", "summary"}])
    BY DEF Init
  <2>2. sent \in [kept : SUBSET (1..ids), limit : 0..Budget] /\ ids \in 0..MaxParts
    BY DEF Init, NoRequest, CompactionAssumption
  <2>3. {memory, saved, cut} \subseteq 0..ids /\ owed \subseteq 1..ids /\ dirty \in BOOLEAN
        /\ pc \in {"idle", "ready", "asked"}
    <3>1. memory \in 0..ids /\ saved \in 0..ids /\ cut \in 0..ids
      BY DEF Init
    <3>2. owed \subseteq 1..ids /\ dirty \in BOOLEAN
      BY DEF Init
    <3>3. pc \in {"idle", "ready", "asked"}
      BY DEF Init
    <3> QED
      BY <3>1, <3>2, <3>3
  <2>4. \A i, j \in DOMAIN parts : parts[i].id = parts[j].id => i = j
    BY DEF Init
  <2> QED
    BY <2>1, <2>2, <2>3, <2>4 DEF TypeOK
<1>2. SaneHistory(parts) /\ owed = Owing(parts)
  BY DEF Init, SaneHistory, Owing, Pending
<1>3. CutsBeginBlocks /\ RunsKnow /\ RoomIsLeft
  BY DEF Init, CutsBeginBlocks, RunsKnow, RoomIsLeft
<1> QED
  BY <1>1, <1>2, <1>3 DEF CompactionInv, Init

LEMMA NextKeeps ==
  ASSUME CompactionAssumption, CompactionInv, [Next]_vars
  PROVE  CompactionInv'
<1>1. ASSUME NEW i \in DOMAIN parts, NEW size \in Sizes, Return(i, size) PROVE CompactionInv'
  BY <1>1, ReturnKeeps
<1>2. ASSUME NEW many \in {1, 2}, Call(many) PROVE CompactionInv'
  BY <1>2, CallKeeps
<1>3. CASE Begin
  BY <1>3, BeginKeeps
<1>4. CASE Resume \/ Stop \/ Fail
  BY <1>4, QuietKeeps
<1>5. CASE Request \/ Overflow
  BY <1>5, AskKeeps
<1>6. CASE Reply
  BY <1>6, ReplyKeeps
<1>7. CASE Compact
  BY <1>7, CompactKeeps
<1>8. CASE UNCHANGED vars
  BY SMTT(40), <1>8 DEF vars, CompactionInv, TypeOK, SaneHistory, Owing, Pending, CutsBeginBlocks, RunsKnow, RoomIsLeft,
       Positions, KeptOf, BlockOf
<1> QED
  BY <1>1, <1>2, <1>3, <1>4, <1>5, <1>6, <1>7, <1>8 DEF Next

\* The history has its types, and ids are not used twice, whenever it is compacted.
THEOREM CompactionTyped == ASSUME CompactionAssumption PROVE Init /\ [][Next]_vars => []TypeOK
<1>1. CompactionInv => TypeOK
  BY DEF CompactionInv
<1> QED
  BY <1>1, InitInv, NextKeeps, PTL

\* A request has both of a call and its result or none, has the newest block, and fits
\* unless that block alone does not; and no compaction loses a call that waits.
THEOREM RequestsAreSound == ASSUME CompactionAssumption PROVE Init /\ [][Next]_vars => []RequestIsSound
BY InvIsEnough, InitInv, NextKeeps, PTL

\* A cut stays until the room it left is used up.
THEOREM CutsStayPut == ASSUME CompactionAssumption PROVE Init /\ [][Next]_vars => CutStaysPut
<1>1. CompactionInv /\ [Next]_vars =>
        [Request /\ cut # 0 /\ cut' # cut => Written(cut) > Budget - Max({1, (Budget * 6) \div 10})]_vars
  BY MovesWhenFull
<1> QED
  BY <1>1, InitInv, NextKeeps, PTL DEF CutStaysPut
=============================================================================
