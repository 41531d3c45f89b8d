-------------------------- MODULE MessageQueueProofs --------------------------
(***************************************************************************)
(* Proofs about MessageQueue: its types, who owns the memory of a message, *)
(* and that the linked list implements MessageChannel.                     *)
(*                                                                         *)
(* Queue follows the links with a recursive function.  The first part      *)
(* shows that whatever sequence the links lead through is its value, so    *)
(* that the steps can be reasoned about as operations on a sequence.       *)
(***************************************************************************)
EXTENDS MessageQueue, DataLemmas, FiniteSetTheorems, SequenceTheorems

-----------------------------------------------------------------------------
(* Linked lists                                                            *)

NextType == [Messages -> Messages \cup {NULL}]

Distinct(q) == \A i, j \in 1 .. Len(q) : q[i] = q[j] => i = j

\* The links lead through q and end with it.
Links(q, nxt) ==
  \A i \in 1 .. Len(q) : /\ i < Len(q) => nxt[q[i]] = q[i + 1]
                         /\ i = Len(q) => nxt[q[i]] = NULL

\* q is the list that begins at `first`.
Chained(q, first, nxt) ==
  /\ Distinct(q)
  /\ q = << >> => first = NULL
  /\ q # << >> => first = q[1]
  /\ Links(q, nxt)

IsChain(q) == Chained(q, firstMessage, next)

\* What ToSet, Head and Last have to do with each other.
LEMMA InSet ==
  ASSUME NEW S, NEW q \in Seq(S)
  PROVE  /\ Len(q) \in Nat
         /\ \A i \in 1 .. Len(q) : q[i] \in ToSet(q)
         /\ \A x \in ToSet(q) : \E i \in 1 .. Len(q) : x = q[i]
         /\ ToSet(q) \subseteq S
         /\ q = << >> <=> ToSet(q) = {}
         /\ q # << >> => Len(q) > 0 /\ Last(q) \in ToSet(q) /\ Head(q) = q[1] /\ q[1] \in ToSet(q)
  BY DEF ToSet, Last

\* The elements of a concatenation.
LEMMA ConcatSet ==
  ASSUME NEW S, NEW q \in Seq(S), NEW l \in Seq(S)
  PROVE  ToSet(q \o l) = ToSet(q) \cup ToSet(l)
<1>1. /\ q \o l \in Seq(S)
      /\ Len(q \o l) = Len(q) + Len(l)
      /\ \A i \in 1 .. Len(q) + Len(l) : (q \o l)[i] =
               IF i <= Len(q) THEN q[i] ELSE l[i - Len(q)]
  BY ConcatProperties
<1> DEFINE c == q \o l
<1>2. c \in Seq(S) /\ Len(c) = Len(q) + Len(l) /\ Len(q) \in Nat /\ Len(l) \in Nat
  BY <1>1
<1>3. \A i \in 1 .. Len(c) : c[i] = IF i <= Len(q) THEN q[i] ELSE l[i - Len(q)]
  BY <1>1
<1> HIDE DEF c
<1>4. ASSUME NEW x \in ToSet(c)
      PROVE  x \in ToSet(q) \cup ToSet(l)
  <2>1. PICK i \in 1 .. Len(c) : x = c[i]
    BY <1>2, InSet
  <2>2. CASE i <= Len(q)
    BY <1>2, <1>3, <2>1, <2>2, InSet
  <2>3. CASE i > Len(q)
    <3>1. i - Len(q) \in 1 .. Len(l)
      BY <1>2, <2>3
    <3>2. x = l[i - Len(q)]
      BY <1>2, <1>3, <2>1, <2>3
    <3> QED
      BY <3>1, <3>2, InSet
  <2> QED
    BY <1>2, <2>2, <2>3
<1>5. ASSUME NEW x \in ToSet(q)
      PROVE  x \in ToSet(c)
  <2>1. PICK i \in 1 .. Len(q) : x = q[i]
    BY InSet
  <2>2. i \in 1 .. Len(c) /\ c[i] = x
    BY <1>2, <1>3, <2>1
  <2> QED
    BY <1>2, <2>2, InSet
<1>6. ASSUME NEW x \in ToSet(l)
      PROVE  x \in ToSet(c)
  <2>1. PICK i \in 1 .. Len(l) : x = l[i]
    BY InSet
  <2>2. i + Len(q) \in 1 .. Len(c) /\ ~(i + Len(q) <= Len(q)) /\ i + Len(q) - Len(q) = i
    BY <1>2
  <2>3. c[i + Len(q)] = x
    BY <1>3, <2>1, <2>2
  <2> QED
    BY <1>2, <2>2, <2>3, InSet
<1> QED
  BY <1>4, <1>5, <1>6 DEF c

\* Links that begin elsewhere do not matter.
LEMMA OtherLinks ==
  ASSUME NEW q \in Seq(Messages), NEW nxt, NEW nxt2, Links(q, nxt),
         \A m \in ToSet(q) : nxt2[m] = nxt[m]
  PROVE  Links(q, nxt2)
<1>1. \A i \in 1 .. Len(q) : nxt2[q[i]] = nxt[q[i]]
  BY InSet
<1> QED
  BY <1>1 DEF Links

\* What waitForMessage leaves when it takes the first message of the list.
LEMMA ChainedTail ==
  ASSUME NEW q \in Seq(Messages), q # << >>, NEW first, NEW nxt, Chained(q, first, nxt)
  PROVE  /\ Tail(q) \in Seq(Messages)
         /\ Chained(Tail(q), nxt[first], nxt)
         /\ first = Head(q) /\ first \in ToSet(q)
         /\ ToSet(Tail(q)) = ToSet(q) \ {first}
         /\ IF Tail(q) = << >> THEN Last(q) = first ELSE Last(Tail(q)) = Last(q)
<1> DEFINE N == Len(q)
           t == Tail(q)
<1>1. /\ N \in Nat /\ N > 0 /\ Head(q) = q[1] /\ q[1] \in ToSet(q)
      /\ t \in Seq(Messages) /\ Len(t) = N - 1
      /\ \A i \in 1 .. N - 1 : t[i] = q[i + 1]
  BY InSet
<1>2. /\ first = q[1] /\ Distinct(q) /\ Links(q, nxt)
  BY DEF Chained
<1>3. t = << >> <=> N = 1
  BY <1>1
<1> HIDE DEF t
<1>4. Distinct(t)
  <2> SUFFICES ASSUME NEW i \in 1 .. N - 1, NEW j \in 1 .. N - 1, t[i] = t[j]
               PROVE  i = j
    BY <1>1 DEF Distinct
  <2>1. i + 1 \in 1 .. N /\ j + 1 \in 1 .. N /\ q[i + 1] = q[j + 1]
    BY <1>1
  <2>2. i + 1 = j + 1
    BY <1>2, <2>1 DEF Distinct
  <2> QED
    BY <2>2
<1>5. Links(t, nxt)
  <2> SUFFICES ASSUME NEW i \in 1 .. N - 1
               PROVE  /\ i < N - 1 => nxt[t[i]] = t[i + 1]
                      /\ i = N - 1 => nxt[t[i]] = NULL
    BY <1>1 DEF Links
  <2>1. i + 1 \in 1 .. N /\ t[i] = q[i + 1]
    BY <1>1
  <2>2. i < N - 1 => i + 1 \in 1 .. N - 1 /\ t[i + 1] = q[i + 1 + 1]
    BY <1>1
  <2>3. /\ i + 1 < N => nxt[q[i + 1]] = q[i + 1 + 1]
        /\ i + 1 = N => nxt[q[i + 1]] = NULL
    BY <1>2, <2>1 DEF Links
  <2> QED
    BY <1>1, <2>1, <2>2, <2>3
<1>6. /\ N = 1 => nxt[first] = NULL
      /\ N > 1 => nxt[first] = t[1]
  BY <1>1, <1>2 DEF Links
<1>7. Chained(t, nxt[first], nxt)
  BY <1>1, <1>3, <1>4, <1>5, <1>6 DEF Chained
<1>8. ToSet(t) = ToSet(q) \ {first}
  <2>1. ASSUME NEW x \in ToSet(t)
        PROVE  x \in ToSet(q) \ {first}
    <3>1. PICK i \in 1 .. N - 1 : x = t[i]
      BY <1>1, InSet
    <3>2. x = q[i + 1] /\ i + 1 \in 1 .. N /\ i + 1 # 1 /\ 1 \in 1 .. N
      BY <1>1, <3>1
    <3>3. x # q[1]
      BY <1>2, <3>2 DEF Distinct
    <3> QED
      BY <1>2, <3>2, <3>3, InSet
  <2>2. ASSUME NEW x \in ToSet(q), x # first
        PROVE  x \in ToSet(t)
    <3>1. PICK i \in 1 .. N : x = q[i]
      BY InSet
    <3>2. i # 1 /\ i - 1 \in 1 .. N - 1 /\ i - 1 + 1 = i
      BY <1>1, <1>2, <2>2, <3>1
    <3>3. t[i - 1] = x
      BY <1>1, <3>1, <3>2
    <3> QED
      BY <1>1, <3>2, <3>3, InSet
  <2> QED
    BY <2>1, <2>2
<1>9. IF t = << >> THEN Last(q) = first ELSE Last(t) = Last(q)
  <2>1. N > 1 => N - 1 \in 1 .. N - 1 /\ N - 1 + 1 = N
    BY <1>1
  <2> QED
    BY <1>1, <1>2, <1>3, <2>1 DEF Last
<1> QED
  BY <1>1, <1>2, <1>7, <1>8, <1>9 DEF t

\* The link that ends q, or `first` when q is empty, is set to the list l.
LEMMA ChainedConcat ==
  ASSUME NEW q \in Seq(Messages), NEW l \in Seq(Messages), l # << >>,
         ToSet(q) \cap ToSet(l) = {},
         NEW first, NEW nxt \in NextType, Chained(q, first, nxt),
         Distinct(l), Links(l, nxt),
         NEW first2, NEW nxt2,
         q = << >> => first2 = Head(l) /\ nxt2 = nxt,
         q # << >> => first2 = first /\ nxt2 = [nxt EXCEPT ![Last(q)] = Head(l)]
  PROVE  /\ q \o l \in Seq(Messages)
         /\ Chained(q \o l, first2, nxt2)
         /\ Last(q \o l) = Last(l)
<1> DEFINE N == Len(q)
           M == Len(l)
           c == q \o l
<1>1. /\ N \in Nat /\ M \in Nat /\ M > 0 /\ Head(l) = l[1] /\ Head(l) \in Messages
      /\ \A i \in 1 .. N : q[i] \in ToSet(q) /\ q[i] \in Messages
      /\ \A i \in 1 .. M : l[i] \in ToSet(l) /\ l[i] \in Messages
      /\ N = 0 <=> q = << >>
  BY InSet
<1>2. /\ c \in Seq(Messages) /\ Len(c) = N + M
      /\ \A i \in 1 .. N + M : c[i] = IF i <= N THEN q[i] ELSE l[i - N]
  BY ConcatProperties
<1> HIDE DEF c
<1>3. \A i \in 1 .. N + M : i > N => i - N \in 1 .. M /\ c[i] = l[i - N]
  BY <1>1, <1>2
<1>4. \A i \in 1 .. N : i \in 1 .. N + M /\ c[i] = q[i]
  BY <1>1, <1>2
<1>5. Distinct(c)
  <2> SUFFICES ASSUME NEW i \in 1 .. N + M, NEW j \in 1 .. N + M, c[i] = c[j]
               PROVE  i = j
    BY <1>2 DEF Distinct
  <2> HIDE DEF N, M
  <2>1. CASE i <= N /\ j <= N
    <3>1. i \in 1 .. N /\ j \in 1 .. N
      BY <1>1, <2>1
    <3> QED
      BY <1>4, <3>1 DEF Chained, Distinct, N
  <2>2. CASE i > N /\ j > N
    <3>1. i - N \in 1 .. M /\ j - N \in 1 .. M /\ l[i - N] = l[j - N]
      BY <1>3, <2>2
    <3>2. i - N = j - N
      BY <3>1 DEF Distinct, M
    <3> QED
      BY <1>1, <3>2
  <2>3. ASSUME NEW a \in 1 .. N + M, NEW b \in 1 .. N + M, a <= N, b > N
        PROVE  c[a] # c[b]
    <3>1. a \in 1 .. N
      BY <1>1, <2>3
    <3>2. c[a] \in ToSet(q) /\ c[b] \in ToSet(l)
      BY <1>1, <1>3, <1>4, <2>3, <3>1
    <3> QED
      BY <3>2
  <2> QED
    BY <1>1, <2>1, <2>2, <2>3
<1>6. \A i \in 1 .. M : nxt2[l[i]] = nxt[l[i]]
  <2>1. q # << >> => Last(q) \in ToSet(q)
    BY InSet
  <2> QED
    BY <1>1, <2>1 DEF NextType
<1>7. \A i \in 1 .. N : i < N => nxt2[q[i]] = nxt[q[i]]
  <2>1. q # << >> => Last(q) = q[N] /\ N \in 1 .. N
    BY <1>1 DEF Last
  <2> QED
    BY <1>1, <2>1 DEF NextType, Chained, Distinct
<1>8. N > 0 => nxt2[q[N]] = l[1]
  BY <1>1 DEF NextType, Last
<1>9. Links(c, nxt2)
  <2> SUFFICES ASSUME NEW i \in 1 .. N + M
               PROVE  /\ i < N + M => nxt2[c[i]] = c[i + 1]
                      /\ i = N + M => nxt2[c[i]] = NULL
    BY <1>2 DEF Links
  <2> HIDE DEF N, M
  <2>1. CASE i < N
    <3>1. i \in 1 .. N /\ i + 1 \in 1 .. N /\ c[i] = q[i] /\ c[i + 1] = q[i + 1]
      BY <1>1, <1>4, <2>1
    <3>2. nxt[q[i]] = q[i + 1]
      BY <2>1, <3>1 DEF Chained, Links, N
    <3> QED
      BY <1>1, <1>7, <2>1, <3>1, <3>2
  <2>2. CASE i = N
    <3>1. i \in 1 .. N /\ N > 0 /\ c[i] = q[N]
      BY <1>1, <1>4, <2>2
    <3>2. i + 1 \in 1 .. N + M /\ i + 1 > N /\ i + 1 - N = 1
      BY <1>1, <2>2
    <3>3. c[i + 1] = l[1]
      <4>1. c[i + 1] = l[i + 1 - N]
        BY <1>1, <1>3, <3>2
      <4> QED
        BY <3>2, <4>1
    <3> QED
      BY <1>1, <1>8, <2>2, <3>1, <3>3
  <2>3. CASE i > N
    <3>1. i - N \in 1 .. M /\ c[i] = l[i - N]
      BY <1>3, <2>3
    <3>2. /\ i - N < M => nxt[l[i - N]] = l[i - N + 1]
          /\ i - N = M => nxt[l[i - N]] = NULL
      BY <3>1 DEF Links, M
    <3>3. i < N + M => i + 1 \in 1 .. N + M /\ i + 1 > N /\ i + 1 - N = i - N + 1 /\ i - N < M
      BY <1>1, <2>3
    <3>4. i < N + M => c[i + 1] = l[i - N + 1]
      <4>1. i < N + M => c[i + 1] = l[i + 1 - N]
        BY <1>1, <1>3, <3>3
      <4> QED
        BY <3>3, <4>1
    <3>5. i = N + M => i - N = M
      BY <1>1
    <3> QED
      BY <1>6, <3>1, <3>2, <3>3, <3>4, <3>5
  <2> QED
    BY <1>1, <2>1, <2>2, <2>3
<1>10. c # << >> /\ first2 = c[1]
  <2>1. CASE N = 0
    BY <1>1, <1>2, <2>1
  <2>2. CASE N > 0
    BY <1>1, <1>2, <2>2 DEF Chained
  <2> QED
    BY <1>1, <2>1, <2>2
<1>11. Chained(c, first2, nxt2)
  BY <1>5, <1>9, <1>10 DEF Chained
<1>12. Last(c) = Last(l)
  <2>1. N + M \in 1 .. N + M /\ N + M > N /\ N + M - N = M
    BY <1>1
  <2>2. c[N + M] = l[M]
    BY <1>3, <2>1
  <2> QED
    BY <1>2, <2>2 DEF Last
<1> QED
  BY <1>2, <1>11, <1>12 DEF c

\* No more messages wait than there is memory for.
LEMMA ChainFits ==
  ASSUME NEW q \in Seq(Messages), IsChain(q)
  PROVE  /\ Cardinality(Messages) \in Nat
         /\ Len(q) <= Cardinality(Messages)
<1>1. q \in Injection(1 .. Len(q), Messages)
  BY DEF Injection, IsInjective, IsChain, Chained, Distinct
<1>2. IsFiniteSet(1 .. Len(q)) /\ Cardinality(1 .. Len(q)) = Len(q)
  <2>1. Len(q) \in Nat
    OBVIOUS
  <2>2. /\ IsFiniteSet(1 .. Len(q))
        /\ Cardinality(1 .. Len(q)) = IF 1 > Len(q) THEN 0 ELSE Len(q) - 1 + 1
    BY <2>1, FS_Interval
  <2> QED
    BY <2>1, <2>2
<1>3. IsFiniteSet(Messages)
  BY QueueAssumption DEF QueueAssumption
<1>4. Cardinality(1 .. Len(q)) <= Cardinality(Messages)
  BY <1>1, <1>3, FS_Injection
<1> QED
  BY <1>2, <1>3, <1>4, FS_CardinalityType

\* The operator Queue finds the list: its recursive function agrees with q at every
\* position, or there would be a first one where it does not.
LEMMA QueueIsChain ==
  ASSUME NEW q \in Seq(Messages), IsChain(q)
  PROVE  Queue = q
<1> DEFINE n == Cardinality(Messages)
           N == Len(q)
           at[i \in 1 .. n + 1] ==
             IF i = 1 THEN firstMessage
             ELSE IF at[i - 1] = NULL THEN NULL ELSE next[at[i - 1]]
           f == [i \in 1 .. n + 1 |-> IF i <= N THEN q[i] ELSE NULL]
           Step(g) == [i \in 1 .. n + 1 |->
                        IF i = 1 THEN firstMessage
                        ELSE IF g[i - 1] = NULL THEN NULL ELSE next[g[i - 1]]]
<1>1. n \in Nat /\ N \in Nat /\ N <= n /\ \A i \in 1 .. N : q[i] \in Messages
  BY ChainFits
<1>2. f = Step(f)
  <2>1. NULL \notin Messages
    BY QueueAssumption DEF QueueAssumption
  <2>2. \A i \in 1 .. n + 1 : f[i] = IF i <= N THEN q[i] ELSE NULL
    OBVIOUS
  <2>3. ASSUME NEW i \in 1 .. n + 1
        PROVE  f[i] = IF i = 1 THEN firstMessage
                      ELSE IF f[i - 1] = NULL THEN NULL ELSE next[f[i - 1]]
    <3> HIDE DEF f
    <3>1. CASE i = 1
      BY <1>1, <2>2, <3>1 DEF IsChain, Chained
    <3>2. CASE i # 1 /\ i - 1 <= N
      <4>1. i - 1 \in 1 .. N /\ i - 1 \in 1 .. n + 1
        BY <1>1, <3>2
      <4>2. f[i - 1] = q[i - 1] /\ f[i - 1] # NULL
        BY <1>1, <2>1, <2>2, <4>1
      <4>3. next[q[i - 1]] = f[i]
        BY <1>1, <2>2, <4>1 DEF IsChain, Chained, Links
      <4> QED
        BY <3>2, <4>2, <4>3
    <3>3. CASE i # 1 /\ i - 1 > N
      <4>1. i - 1 \in 1 .. n + 1
        BY <1>1, <3>3
      <4> QED
        BY <1>1, <2>2, <3>3, <4>1
    <3> QED
      BY <1>1, <3>1, <3>2, <3>3
  <2> QED
    BY <2>3
<1>3. at = Step(at)
  BY <1>2
<1>4. \A i \in 1 .. n + 1 : at[i] = f[i]
  <2> DEFINE wrong == {i \in 1 .. n + 1 : at[i] # f[i]}
  <2> SUFFICES ASSUME wrong # {}
               PROVE  FALSE
    OBVIOUS
  <2>1. wrong \in SUBSET Nat
    BY <1>1
  <2>2. PICK k \in wrong : \A e \in wrong : k <= e
    <3> HIDE DEF wrong
    <3> QED
      BY <2>1, LeastExists
  <2>3. k \in 1 .. n + 1 /\ at[k] # f[k]
    OBVIOUS
  <2>4. k # 1 => k - 1 \in 1 .. n + 1 /\ k - 1 \notin wrong
    <3> HIDE DEF wrong
    <3> QED
      BY <1>1, <2>2, <2>3
  <2>5. k # 1 => at[k - 1] = f[k - 1]
    BY <2>4
  <2> HIDE DEF at, f, wrong
  <2>6. /\ at[k] = IF k = 1 THEN firstMessage
                   ELSE IF at[k - 1] = NULL THEN NULL ELSE next[at[k - 1]]
        /\ f[k] = IF k = 1 THEN firstMessage
                  ELSE IF f[k - 1] = NULL THEN NULL ELSE next[f[k - 1]]
    BY <1>2, <1>3, <2>3
  <2> QED
    BY <2>3, <2>5, <2>6
<1>5. Queue = [i \in 1 .. Cardinality({j \in 1 .. n : at[j] # NULL}) |-> at[i]]
  BY DEF Queue
<1> HIDE DEF at
<1>6. Cardinality({j \in 1 .. n : at[j] # NULL}) = N
  <2>1. NULL \notin Messages
    BY QueueAssumption DEF QueueAssumption
  <2> DEFINE inUse == {j \in 1 .. n : at[j] # NULL}
  <2>2. inUse = 1 .. N
    BY <1>1, <1>4, <2>1
  <2> HIDE DEF N
  <2>3. Cardinality(1 .. N) = IF 1 > N THEN 0 ELSE N - 1 + 1
    BY <1>1, FS_Interval
  <2>4. IF 1 > N THEN N = 0 ELSE N - 1 + 1 = N
    BY <1>1
  <2> HIDE DEF inUse
  <2>5. Cardinality(inUse) = N
    BY <2>2, <2>3, <2>4
  <2> QED
    BY <2>5 DEF inUse
<1>7. Queue = [i \in 1 .. N |-> at[i]]
  BY <1>5, <1>6
<1>8. \A i \in 1 .. N : at[i] = q[i]
  BY <1>1, <1>4
<1>9. q = [i \in 1 .. N |-> q[i]]
  OBVIOUS
<1> QED
  BY <1>7, <1>8, <1>9

-----------------------------------------------------------------------------
(* The inductive invariant                                                 *)

OthersTypeOK ==
  /\ allocated \subseteq Messages
  /\ list \in [Producers -> Seq(Messages)]
  /\ data \in Messages \cup {NULL}
  /\ held \in Messages \cup {NULL}
  /\ timerEvent \in {0, 1}
  /\ ticks \in 0 .. MAX_TICKS
  /\ stopped \in BOOLEAN /\ stopDecoder \in BOOLEAN /\ stopPollster \in BOOLEAN
  /\ stopMessageReader \in BOOLEAN /\ isEnabled \in BOOLEAN
  /\ pollsterLock \in Threads \cup {NONE}
  /\ messageQueueLock \in Threads \cup {NONE}

MainLabels == {"enable", "loop", "lock", "check", "sleep", "wait", "popped", "unlock",
               "got", "process", "exit"}
ProducerLabels == {"work", "lock", "link", "tail", "timedwait", "waiting", "stop",
                   "lockPollster", "broadcastPollster", "pause", "notify", "broadcast", "done"}
NotifierLabels == {"idle", "stop", "lockPollster", "broadcastPollster", "pause", "notify",
                   "broadcast", "done"}

PcInv ==
  /\ pc \in [Threads -> MainLabels \cup ProducerLabels \cup NotifierLabels]
  /\ pc["main"] \in MainLabels
  /\ \A p \in Producers : pc[p] \in ProducerLabels
  /\ \A t \in {"timer", "signal"} : pc[t] \in NotifierLabels

\* Who is inside of the critical sections.
LockInv ==
  /\ pc["main"] \in {"check", "sleep", "popped", "unlock"} => messageQueueLock = "main"
  /\ \A t \in Others : pc[t] \in {"link", "tail", "broadcast"} => messageQueueLock = t

\* The lists of the producers: linked, but not yet to the queue.
ListInv ==
  \A p \in Producers :
    /\ Distinct(list[p]) /\ Len(list[p]) <= MAX_DEVICES
    /\ list[p] # << >> => pc[p] \in {"lock", "link", "tail"}
    /\ pc[p] \in {"lock", "link", "tail"} => list[p] # << >>
    /\ pc[p] \in {"lock", "link"} => Links(list[p], next)

Tail_(q, empty) == IF q = << >> THEN empty ELSE Last(q)

\* lastMessagePtr is behind the queue while its end is being moved.
QueueInv ==
  /\ next \in NextType
  /\ firstMessage \in Messages \cup {NULL}
  /\ Queue \in Seq(Messages) /\ IsChain(Queue)
  /\ \/ \E p \in Producers : pc[p] = "tail"
     \/ lastMessagePtr = Tail_(Queue, IF pc["main"] = "popped" THEN data ELSE FIRST)
  /\ \A p \in Producers :
       pc[p] = "tail" =>
         /\ Queue # << >> /\ Last(Queue) = Last(list[p])
         /\ ToSet(list[p]) \subseteq ToSet(Queue)
         /\ lastMessagePtr \in ToSet(Queue) \cup {FIRST}

\* Every message has one owner.
OwnerInv ==
  /\ allocated = ToSet(Queue) \cup Appending \cup ({data, held} \ {NULL})
  /\ data \notin ToSet(Queue) /\ held \notin ToSet(Queue)
  /\ data # NULL => data # held /\ pc["main"] \in {"popped", "unlock", "got"}
  /\ pc["main"] = "popped" => data # NULL
  /\ \A p \in Producers :
       /\ data \notin ToSet(list[p]) /\ held \notin ToSet(list[p])
       /\ pc[p] \in {"lock", "link"} => ToSet(list[p]) \cap ToSet(Queue) = {}
       /\ \A r \in Producers : r # p => ToSet(list[p]) \cap ToSet(list[r]) = {}

Inv == OthersTypeOK /\ PcInv /\ LockInv /\ ListInv /\ QueueInv /\ OwnerInv

\* Whatever list of messages begins at firstMessage is the queue.
LEMMA ChainIsQueue == \A q \in Seq(Messages) : IsChain(q) => Queue = q
  BY QueueIsChain

\* The same of the state after a step.
LEMMA ChainIsQueuePrimed == (\A q \in Seq(Messages) : IsChain(q) => Queue = q)'
<1>1. \A q \in Seq(Messages) : IsChain(q) => Queue = q
  BY ChainIsQueue
<1> QED
  BY <1>1, PTL

\* The queue after a step is whatever list begins at firstMessage then.
LEMMA ChainIsQueueNext ==
  ASSUME NEW q \in Seq(Messages), Chained(q, firstMessage', next')
  PROVE  /\ Queue' = q
         /\ Queue' \in Seq(Messages) /\ IsChain(Queue)'
<1>1. (\A x \in Seq(Messages) : IsChain(x) => Queue = x)'
  BY ChainIsQueuePrimed
<1>2. \A x \in Seq(Messages) : Chained(x, firstMessage', next') => Queue' = x
  BY <1>1 DEF IsChain, Chained, Links
<1>3. Queue' = q
  BY <1>2
<1> QED
  BY <1>3 DEF IsChain, Chained, Links

\* waitForMessage looks at firstMessage to see that nothing waits.
LEMMA EmptyQueue ==
  ASSUME QueueInv
  PROVE  firstMessage = NULL <=> Queue = << >>
<1>1. NULL \notin Messages
  BY QueueAssumption DEF QueueAssumption
<1>2. Queue # << >> => Queue[1] \in Messages
  <2> DEFINE q == Queue
  <2>1. q \in Seq(Messages)
    BY DEF QueueInv
  <2> HIDE DEF q
  <2>2. q # << >> => q[1] \in Messages
    BY <2>1, InSet
  <2> QED
    BY <2>2 DEF q
<1> QED
  BY <1>1, <1>2 DEF QueueInv, IsChain, Chained

\* The invariant holds of the queue that the constructor makes.
LEMMA InitInv ==
  ASSUME Init
  PROVE  Inv
<1>1. Chained(<< >>, firstMessage, next)
  BY DEF Init, Chained, Distinct, Links
<1>2. Queue = << >> /\ Queue \in Seq(Messages) /\ IsChain(Queue)
  <2>1. << >> \in Seq(Messages) /\ IsChain(<< >>)
    BY <1>1 DEF IsChain
  <2>2. Queue = << >>
    BY <2>1, ChainIsQueue
  <2> QED
    BY <2>1, <2>2
<1>3. OthersTypeOK
  <2>1. list \in [Producers -> Seq(Messages)]
    BY DEF Init
  <2>2. ticks \in 0 .. MAX_TICKS
    BY QueueAssumption DEF Init, QueueAssumption
  <2> QED
    BY <2>1, <2>2 DEF Init, OthersTypeOK
<1>4. \A t \in Threads : pc[t] = IF t = "main" THEN "enable"
                                 ELSE IF t \in Producers THEN "work" ELSE "idle"
  BY DEF Init, Threads, Producers
<1>5. PcInv
  BY <1>4 DEF Init, PcInv, Threads, Producers, MainLabels, ProducerLabels, NotifierLabels
<1>6. LockInv
  BY <1>4 DEF LockInv, Others, Threads, Producers
<1>7. ListInv
  BY <1>4, QueueAssumption DEF Init, ListInv, Threads, Producers, Distinct, QueueAssumption
<1>8. QueueInv
  BY <1>2, <1>4 DEF Init, QueueInv, NextType, Threads, Producers, Tail_
<1>9. OwnerInv
  BY <1>2, <1>4 DEF Init, OwnerInv, Appending, Threads, Producers, ToSet
<1> QED
  BY <1>3, <1>5, <1>6, <1>7, <1>8, <1>9 DEF Inv

-----------------------------------------------------------------------------
(* Steps that leave the messages alone                                     *)

\* A producer with no list, or one that gets the lock for its list.
KeepsList(p) ==
  \/ pc'[p] = pc[p]
  \/ pc[p] = "lock" /\ pc'[p] = "link"
  \/ pc[p] \notin {"lock", "link", "tail"} /\ pc'[p] \notin {"lock", "link", "tail"}

Idle == UNCHANGED <<queueVars, memoryVars>>

\* A step that neither moves nor frees a message keeps the invariant if it respects
\* the lock and the places of the threads.
LEMMA IdleInv ==
  ASSUME Inv, Idle, OthersTypeOK', PcInv', LockInv',
         \A p \in Producers : KeepsList(p),
         pc["main"] = "popped" => pc'["main"] = "popped",
         pc'["main"] = "popped" => pc["main"] = "popped",
         data # NULL => pc'["main"] \in {"popped", "unlock", "got"}
  PROVE  Inv'
<1>1. UNCHANGED <<firstMessage, lastMessagePtr, next, allocated, list, data, held>>
  BY DEF Idle, queueVars, memoryVars
<1>2. Queue' = Queue
  BY <1>1 DEF Queue
<1>3. ListInv'
  BY <1>1 DEF Inv, ListInv, KeepsList, Links
<1>4. IsChain(Queue)'
  BY <1>1, <1>2 DEF Inv, QueueInv, IsChain
<1>5. QueueInv'
  BY <1>1, <1>2, <1>4 DEF Inv, QueueInv, KeepsList
<1>6. OwnerInv'
  BY <1>1, <1>2 DEF Inv, OwnerInv, Appending, KeepsList
<1> QED
  BY <1>3, <1>5, <1>6 DEF Inv

\* A step of the main thread leaves the other threads where they are.
LEMMA MainOnly ==
  ASSUME Inv, NEW l \in MainLabels, Goto("main", l)
  PROVE  /\ PcInv'
         /\ pc'["main"] = l
         /\ \A t \in Others : pc'[t] = pc[t]
         /\ \A p \in Producers : KeepsList(p)
<1>1. pc \in [Threads -> MainLabels \cup ProducerLabels \cup NotifierLabels]
  BY DEF Inv, PcInv
<1>2. pc' = [pc EXCEPT !["main"] = l]
  BY DEF Goto
<1>3. pc'["main"] = l /\ \A t \in Others : pc'[t] = pc[t]
  BY <1>1, <1>2 DEF Others, Threads, Producers
<1>4. pc' \in [Threads -> MainLabels \cup ProducerLabels \cup NotifierLabels]
  BY <1>1, <1>2
<1> QED
  BY <1>3, <1>4 DEF Inv, PcInv, KeepsList, Others, Threads, Producers

\* The steps of the main loop between those that touch the queue.
LEMMA MainIdleInv ==
  ASSUME Inv,
         EnableReceive \/ MainLoop \/ MainLock \/ CheckEmpty \/ Sleep \/ SpuriousWakeup
         \/ CheckInterrupted \/ MainUnlock \/ CheckAndResetTimerEvent
  PROVE  Inv' /\ Idle
<1>1. /\ OthersTypeOK /\ PcInv /\ LockInv /\ NONE \notin Threads
      /\ "main" \in Threads /\ Others \subseteq Threads
      /\ data # NULL => pc["main"] \in {"popped", "unlock", "got"}
  BY QueueAssumption DEF Inv, OwnerInv, QueueAssumption, Others, Threads
<1>2. ASSUME NEW l \in MainLabels, Goto("main", l), Idle, OthersTypeOK', LockInv',
             pc["main"] # "popped", l # "popped",
             data # NULL => l \in {"unlock", "got"}
      PROVE  Inv' /\ Idle
  BY <1>2, MainOnly, IdleInv
<1>3. CASE EnableReceive
  <2>1. Goto("main", "loop") /\ Idle /\ OthersTypeOK'
    BY <1>1, <1>3 DEF EnableReceive, Idle, OthersTypeOK, memoryVars, timerVars
  <2>2. LockInv'
    BY <1>1, <1>3, <2>1, MainOnly DEF EnableReceive, LockInv, MainLabels
  <2> QED
    BY <1>1, <1>2, <1>3, <2>1, <2>2 DEF EnableReceive, MainAt, MainLabels
<1>4. CASE MainLoop
  <2> DEFINE l == IF stopped THEN "exit" ELSE "lock"
  <2>1. Goto("main", l) /\ l \in {"exit", "lock"} /\ Idle /\ OthersTypeOK'
    BY <1>1, <1>4 DEF MainLoop, Idle, OthersTypeOK, memoryVars, timerVars, stopVars
  <2> HIDE DEF l
  <2>2. LockInv'
    BY <1>1, <1>4, <2>1, MainOnly DEF MainLoop, LockInv, MainLabels
  <2> QED
    BY <1>1, <1>2, <1>4, <2>1, <2>2 DEF MainLoop, MainAt, MainLabels
<1>5. CASE MainLock
  <2>1. Goto("main", "check") /\ Idle /\ OthersTypeOK'
    BY <1>1, <1>5 DEF MainLock, Idle, OthersTypeOK, memoryVars, timerVars, stopVars, Acquire
  <2>2. LockInv'
    BY <1>1, <1>5, <2>1, MainOnly DEF MainLock, MainAt, LockInv, MainLabels, Acquire
  <2> QED
    BY <1>1, <1>2, <1>5, <2>1, <2>2 DEF MainLock, MainAt, MainLabels
<1>6. CASE CheckEmpty
  <2>1. Goto("main", "sleep") /\ Idle /\ OthersTypeOK'
    BY <1>1, <1>6 DEF CheckEmpty, Idle, OthersTypeOK, memoryVars, timerVars, stopVars
  <2>2. LockInv'
    BY <1>1, <1>6, <2>1, MainOnly DEF CheckEmpty, MainAt, LockInv, MainLabels
  <2> QED
    BY <1>1, <1>2, <1>6, <2>1, <2>2 DEF CheckEmpty, MainAt, MainLabels
<1>7. CASE Sleep
  <2>1. Goto("main", "wait") /\ Idle /\ OthersTypeOK'
    BY <1>1, <1>7 DEF Sleep, Idle, OthersTypeOK, memoryVars, timerVars, stopVars
  <2>2. LockInv'
    BY <1>1, <1>7, <2>1, MainOnly DEF Sleep, MainAt, LockInv, MainLabels
  <2> QED
    BY <1>1, <1>2, <1>7, <2>1, <2>2 DEF Sleep, MainAt, MainLabels
<1>8. CASE SpuriousWakeup
  <2>1. Goto("main", "lock") /\ Idle /\ OthersTypeOK'
    BY <1>1, <1>8 DEF SpuriousWakeup, Idle, OthersTypeOK, memoryVars, timerVars, stopVars
  <2>2. LockInv'
    BY <1>1, <1>8, <2>1, MainOnly DEF SpuriousWakeup, MainAt, LockInv, MainLabels
  <2> QED
    BY <1>1, <1>2, <1>8, <2>1, <2>2 DEF SpuriousWakeup, MainAt, MainLabels
<1>9. CASE CheckInterrupted
  <2>1. Goto("main", "unlock") /\ Idle /\ OthersTypeOK'
    BY <1>1, <1>9 DEF CheckInterrupted, Idle, OthersTypeOK, memoryVars, timerVars, stopVars
  <2>2. LockInv'
    BY <1>1, <1>9, <2>1, MainOnly DEF CheckInterrupted, MainAt, LockInv, MainLabels
  <2> QED
    BY <1>1, <1>2, <1>9, <2>1, <2>2 DEF CheckInterrupted, MainAt, MainLabels
<1>10. CASE MainUnlock
  <2>1. Goto("main", "got") /\ Idle /\ OthersTypeOK'
    BY <1>1, <1>10 DEF MainUnlock, Idle, OthersTypeOK, memoryVars, timerVars, stopVars
  <2>2. LockInv'
    BY <1>1, <1>10, <2>1, MainOnly DEF MainUnlock, MainAt, LockInv, MainLabels
  <2> QED
    BY <1>1, <1>2, <1>10, <2>1, <2>2 DEF MainUnlock, MainAt, MainLabels
<1>11. CASE CheckAndResetTimerEvent
  <2>1. Goto("main", "loop") /\ Idle /\ OthersTypeOK'
    BY <1>1, <1>11 DEF CheckAndResetTimerEvent, Idle, OthersTypeOK, memoryVars, timerVars, stopVars
  <2>2. LockInv'
    BY <1>1, <1>11, <2>1, MainOnly DEF CheckAndResetTimerEvent, MainAt, LockInv, MainLabels
  <2> QED
    BY <1>1, <1>2, <1>11, <2>1, <2>2 DEF CheckAndResetTimerEvent, MainAt, MainLabels
<1> QED
  BY <1>3, <1>4, <1>5, <1>6, <1>7, <1>8, <1>9, <1>10, <1>11

Labels(t) == IF t \in Producers THEN ProducerLabels ELSE NotifierLabels

\* A step of another thread leaves the rest where they are.
LEMMA OtherOnly ==
  ASSUME Inv, NEW t \in Others, NEW l \in Labels(t), Goto(t, l)
  PROVE  /\ PcInv'
         /\ pc'[t] = l
         /\ \A u \in Threads : u # t => pc'[u] = pc[u]
<1>1. pc \in [Threads -> MainLabels \cup ProducerLabels \cup NotifierLabels] /\ t \in Threads
  BY DEF Inv, PcInv, Others
<1>2. pc' = [pc EXCEPT ![t] = l]
  BY DEF Goto
<1>3. pc'[t] = l /\ \A u \in Threads : u # t => pc'[u] = pc[u]
  BY <1>1, <1>2
<1>4. pc' \in [Threads -> MainLabels \cup ProducerLabels \cup NotifierLabels]
  BY <1>1, <1>2 DEF Labels
<1> QED
  BY <1>3, <1>4 DEF Inv, PcInv, Labels, Others, Threads, Producers

\* The same for a step that wakes the main thread too.
LEMMA OtherAndMain ==
  ASSUME Inv, NEW t \in Others, NEW l \in Labels(t), pc' = [Broadcast EXCEPT ![t] = l]
  PROVE  /\ PcInv'
         /\ pc'[t] = l
         /\ \A u \in Others : u # t => pc'[u] = pc[u]
         /\ pc'["main"] = IF pc["main"] = "wait" THEN "lock" ELSE pc["main"]
<1>1. /\ pc \in [Threads -> MainLabels \cup ProducerLabels \cup NotifierLabels]
      /\ t \in Threads /\ "main" \in Threads /\ t # "main" /\ "main" \notin Others
      /\ Others \subseteq Threads
  BY DEF Inv, PcInv, Others, Threads
<1>2. Broadcast \in [Threads -> MainLabels \cup ProducerLabels \cup NotifierLabels]
  BY <1>1 DEF Broadcast, MainLabels
<1>3. /\ Broadcast["main"] = IF pc["main"] = "wait" THEN "lock" ELSE pc["main"]
      /\ \A u \in Others : Broadcast[u] = pc[u]
  BY <1>1 DEF Broadcast
<1>4. /\ pc'[t] = l
      /\ \A u \in Threads : u # t => pc'[u] = Broadcast[u]
  BY <1>1, <1>2
<1>5. pc' \in [Threads -> MainLabels \cup ProducerLabels \cup NotifierLabels]
  BY <1>1, <1>2 DEF Labels
<1>6. /\ \A u \in Others : u # t => pc'[u] = pc[u]
      /\ pc'["main"] = IF pc["main"] = "wait" THEN "lock" ELSE pc["main"]
  BY <1>1, <1>3, <1>4
<1> QED
  BY <1>4, <1>5, <1>6 DEF Inv, PcInv, Labels, Others, Threads, Producers, MainLabels

\* The timer, stop, and the producers when they wait for the lock or end.
LEMMA OtherIdleInv ==
  ASSUME Inv, NEW t \in Others,
         \/ t \in Producers /\ EndThread(t)
         \/ t = "pollster" /\ Pollster
         \/ t = "timer" /\ RaiseTimerEvent
         \/ t \in Stoppers /\ (\/ CallStop(t) \/ SetStopped(t) \/ LockPollster(t)
                              \/ BroadcastPollster(t) \/ Pause(t))
         \/ Lock(t) \/ Notify(t)
  PROVE  Inv' /\ Idle
<1>1. /\ OthersTypeOK /\ PcInv /\ LockInv /\ NONE \notin Threads
      /\ "main" \in Threads /\ Others \subseteq Threads /\ t # "main" /\ Producers \subseteq Others
      /\ data # NULL => pc["main"] \in {"popped", "unlock", "got"}
  BY QueueAssumption DEF Inv, OwnerInv, QueueAssumption, Others, Threads, Producers
<1>2. pc[t] \in Labels(t)
  BY <1>1 DEF PcInv, Labels, Others, Threads, Producers
<1>3. ASSUME NEW l \in Labels(t), Goto(t, l), Idle, OthersTypeOK', UNCHANGED messageQueueLock,
             pc[t] \notin {"lock", "link", "tail"}, l \notin {"lock", "link", "tail", "broadcast"}
      PROVE  Inv' /\ Idle
  <2>1. /\ PcInv' /\ pc'[t] = l
        /\ \A u \in Threads : u # t => pc'[u] = pc[u]
    BY <1>3, OtherOnly
  <2>2. LockInv'
    BY <1>1, <1>3, <2>1 DEF LockInv
  <2>3. \A p \in Producers : KeepsList(p)
    BY <1>1, <1>3, <2>1 DEF KeepsList
  <2> QED
    BY <1>1, <1>3, <2>1, <2>2, <2>3, IdleInv
<1>4. CASE t \in Producers /\ EndThread(t)
  <2>1. Goto(t, "done") /\ "done" \in Labels(t) /\ Idle /\ OthersTypeOK'
    BY <1>1, <1>4 DEF EndThread, Idle, OthersTypeOK, memoryVars, timerVars, stopVars, Labels,
       ProducerLabels, NotifierLabels
  <2> QED
    BY <1>3, <1>4, <2>1 DEF EndThread
<1>5. CASE t = "timer" /\ RaiseTimerEvent
  <2>1. Goto(t, "notify") /\ "notify" \in Labels(t) /\ Idle
    BY <1>5 DEF RaiseTimerEvent, Idle, Labels, ProducerLabels, NotifierLabels
  <2>2. ticks' \in 0 .. MAX_TICKS /\ timerEvent' \in {0, 1}
    BY <1>1, <1>5, QueueAssumption DEF RaiseTimerEvent, OthersTypeOK, QueueAssumption
  <2>3. OthersTypeOK'
    BY <1>1, <1>5, <2>2 DEF RaiseTimerEvent, OthersTypeOK, memoryVars, stopVars
  <2> QED
    BY <1>3, <1>5, <2>1, <2>3 DEF RaiseTimerEvent
<1>6. CASE t \in Stoppers /\ CallStop(t)
  <2> DEFINE l == IF stopped THEN "done" ELSE "stop"
  <2>1. Goto(t, l) /\ l \in {"done", "stop"} /\ l \in Labels(t) /\ Idle /\ OthersTypeOK'
    BY <1>1, <1>6 DEF CallStop, Idle, OthersTypeOK, memoryVars, timerVars, stopVars, Labels,
       ProducerLabels, NotifierLabels
  <2> HIDE DEF l
  <2> QED
    BY <1>3, <1>6, <2>1 DEF CallStop
<1>7. CASE t \in Stoppers /\ SetStopped(t)
  <2>1. Goto(t, "lockPollster") /\ "lockPollster" \in Labels(t) /\ Idle /\ OthersTypeOK'
    BY <1>1, <1>7 DEF SetStopped, Idle, OthersTypeOK, memoryVars, timerVars, Labels,
       ProducerLabels, NotifierLabels
  <2> QED
    BY <1>3, <1>7, <2>1 DEF SetStopped
<1>8. CASE t \in Stoppers /\ Pause(t)
  <2>1. Goto(t, "notify") /\ "notify" \in Labels(t) /\ Idle /\ OthersTypeOK'
    BY <1>1, <1>8 DEF Pause, Idle, OthersTypeOK, memoryVars, timerVars, Labels,
       ProducerLabels, NotifierLabels
  <2> QED
    BY <1>3, <1>8, <2>1 DEF Pause
<1>9. CASE Lock(t)
  <2> DEFINE l == IF pc[t] = "lock" THEN "link" ELSE "broadcast"
  <2>1. /\ Goto(t, l) /\ Idle /\ OthersTypeOK' /\ pc[t] \in {"lock", "notify"}
        /\ messageQueueLock = NONE /\ messageQueueLock' = t
    BY <1>1, <1>9 DEF Lock, Acquire, Idle, OthersTypeOK, memoryVars, timerVars, stopVars
  <2>2. /\ l \in Labels(t)
        /\ pc[t] = "lock" => l = "link"
        /\ pc[t] # "lock" => l = "broadcast"
    BY <1>2, <2>1 DEF Labels, ProducerLabels, NotifierLabels
  <2> HIDE DEF l
  <2>3. /\ PcInv' /\ pc'[t] = l
        /\ \A u \in Threads : u # t => pc'[u] = pc[u]
    BY <2>1, <2>2, OtherOnly
  <2>4. LockInv'
    BY <1>1, <2>1, <2>3 DEF LockInv
  <2>5. \A p \in Producers : KeepsList(p)
    BY <1>1, <2>1, <2>2, <2>3 DEF KeepsList
  <2> QED
    BY <1>1, <2>1, <2>3, <2>4, <2>5, IdleInv
<1>10. CASE Notify(t)
  <2> DEFINE l == IF t = "timer" THEN "idle" ELSE "done"
  <2>1. /\ pc' = [Broadcast EXCEPT ![t] = l] /\ Idle /\ OthersTypeOK' /\ pc[t] = "broadcast"
        /\ messageQueueLock' = NONE /\ l \in {"idle", "done"} /\ l \in Labels(t)
    BY <1>1, <1>10 DEF Notify, Idle, OthersTypeOK, memoryVars, timerVars, stopVars, Labels,
       ProducerLabels, NotifierLabels, Producers
  <2> HIDE DEF l
  <2>2. /\ PcInv' /\ pc'[t] = l
        /\ \A u \in Others : u # t => pc'[u] = pc[u]
        /\ pc'["main"] = IF pc["main"] = "wait" THEN "lock" ELSE pc["main"]
    BY <2>1, OtherAndMain
  <2>3. LockInv'
    BY <1>1, <2>1, <2>2 DEF LockInv
  <2>4. \A p \in Producers : KeepsList(p)
    BY <1>1, <2>1, <2>2 DEF KeepsList
  <2> QED
    BY <1>1, <2>1, <2>2, <2>3, <2>4, IdleInv
<1>11. CASE t \in Stoppers /\ LockPollster(t)
  <2>1. /\ Goto(t, "broadcastPollster") /\ "broadcastPollster" \in Labels(t)
        /\ Idle /\ OthersTypeOK'
    BY <1>1, <1>11 DEF LockPollster, Idle, OthersTypeOK, memoryVars, timerVars, Labels,
       ProducerLabels, NotifierLabels
  <2> QED
    BY <1>3, <1>11, <2>1 DEF LockPollster
<1>12. CASE t \in Stoppers /\ BroadcastPollster(t)
  <2>1. Goto(t, "pause") /\ "pause" \in Labels(t) /\ Idle /\ OthersTypeOK'
    BY <1>1, <1>12 DEF BroadcastPollster, Idle, OthersTypeOK, memoryVars, timerVars, Labels,
       ProducerLabels, NotifierLabels
  <2> QED
    BY <1>3, <1>12, <2>1 DEF BroadcastPollster
<1>13. CASE t = "pollster" /\ Pollster
  <2>1. /\ {"timedwait", "waiting", "work", "done"} \subseteq Labels(t) /\ t \in Threads
        /\ pc[t] \in {"work", "timedwait", "waiting"}
    BY <1>1, <1>13 DEF Pollster, NoSensors, TimedWait, Wake, Labels, ProducerLabels, Producers
  <2>2. /\ \E l \in {"timedwait", "waiting", "work", "done"} : Goto(t, l)
        /\ Idle /\ UNCHANGED messageQueueLock
    BY <1>13 DEF Pollster, NoSensors, TimedWait, Wake, Idle
  <2>3. OthersTypeOK'
    BY <1>1, <1>13, <2>1 DEF Pollster, NoSensors, TimedWait, Wake, OthersTypeOK, memoryVars,
       timerVars, stopVars
  <2> QED
    BY <1>3, <2>1, <2>2, <2>3
<1> QED
  BY <1>4, <1>5, <1>6, <1>7, <1>8, <1>9, <1>10, <1>11, <1>12, <1>13

-----------------------------------------------------------------------------
(* Steps that move messages                                                *)

\* waitForMessage takes the first message; the tail may point into it for a moment.
LEMMA PopMessageInv ==
  ASSUME Inv, PopMessage
  PROVE  /\ Inv'
         /\ Queue # << >> /\ Queue' = Tail(Queue)
         /\ data' = Head(Queue) /\ data' # NULL
<1> DEFINE q == Queue
<1>1. /\ OthersTypeOK /\ PcInv /\ LockInv /\ ListInv /\ QueueInv /\ OwnerInv
      /\ "main" \in Threads /\ "main" \notin Others /\ Producers \subseteq Others
      /\ NULL \notin Messages
  BY QueueAssumption DEF Inv, QueueAssumption, Others, Threads, Producers
<1>2. /\ pc["main"] = "check" /\ firstMessage # NULL /\ Goto("main", "popped")
      /\ data' = firstMessage /\ firstMessage' = next[firstMessage]
      /\ UNCHANGED <<lastMessagePtr, next, allocated, list, held, timerEvent, ticks, stopped,
                     stopDecoder, stopPollster, stopMessageReader, isEnabled, pollsterLock, messageQueueLock>>
  BY DEF PopMessage, MainAt, timerVars, stopVars
<1>3. /\ q \in Seq(Messages) /\ Chained(q, firstMessage, next) /\ q # << >>
      /\ lastMessagePtr = Last(q)
      /\ \A p \in Producers : pc[p] \notin {"link", "tail"}
  <2>1. \A p \in Producers : pc[p] \notin {"link", "tail"}
    BY <1>1, <1>2 DEF LockInv
  <2>2. q # << >>
    BY <1>1, <1>2, EmptyQueue
  <2>3. lastMessagePtr = Tail_(q, FIRST)
    BY <1>1, <1>2, <2>1 DEF QueueInv
  <2> HIDE DEF q
  <2>4. lastMessagePtr = Last(q)
    BY <2>2, <2>3 DEF Tail_
  <2> QED
    BY <1>1, <2>1, <2>2, <2>4 DEF QueueInv, IsChain, q
<1> HIDE DEF q
<1>4. /\ Tail(q) \in Seq(Messages)
      /\ Chained(Tail(q), firstMessage', next')
      /\ firstMessage = Head(q) /\ firstMessage \in ToSet(q) /\ firstMessage \in Messages
      /\ ToSet(Tail(q)) = ToSet(q) \ {firstMessage}
      /\ IF Tail(q) = << >> THEN Last(q) = firstMessage ELSE Last(Tail(q)) = Last(q)
  <2>1. Chained(Tail(q), next[firstMessage], next)
    BY <1>3, ChainedTail
  <2>2. Chained(Tail(q), firstMessage', next')
    BY <1>2, <2>1
  <2>3. ToSet(q) \subseteq Messages
    BY <1>3, InSet
  <2> QED
    BY <1>3, <2>2, <2>3, ChainedTail
<1>5. Queue' = Tail(q) /\ Queue' \in Seq(Messages) /\ IsChain(Queue)'
  BY <1>4, ChainIsQueueNext
<1>6. /\ PcInv' /\ pc'["main"] = "popped" /\ \A t \in Others : pc'[t] = pc[t]
  BY <1>2, MainOnly DEF Inv, MainLabels
<1>7. LockInv'
  BY <1>1, <1>2, <1>6 DEF LockInv
<1>8. OthersTypeOK'
  BY <1>1, <1>2, <1>4 DEF OthersTypeOK
<1>9. ListInv'
  BY <1>1, <1>2, <1>6 DEF ListInv, Links
<1>10. QueueInv'
  <2>1. lastMessagePtr' = Tail_(Tail(q), data')
    BY <1>2, <1>3, <1>4 DEF Tail_
  <2>2. firstMessage' \in Messages \cup {NULL} /\ next' \in NextType
    BY <1>1, <1>2, <1>4 DEF QueueInv, NextType
  <2>3. \A p \in Producers : pc'[p] # "tail"
    BY <1>1, <1>3, <1>6
  <2> QED
    BY <1>5, <1>6, <2>1, <2>2, <2>3 DEF QueueInv
<1>11. OwnerInv'
  <2>1. data = NULL
    BY <1>1, <1>2 DEF OwnerInv
  <2>2. Appending' = Appending
    BY <1>2 DEF Appending
  <2>3. /\ allocated = ToSet(q) \cup Appending \cup ({data, held} \ {NULL})
        /\ held \notin ToSet(q)
    BY <1>1 DEF OwnerInv, q
  <2>4. /\ allocated' = ToSet(Queue)' \cup Appending' \cup ({data, held} \ {NULL})'
        /\ data' \notin ToSet(Queue)' /\ held' \notin ToSet(Queue)'
        /\ data' # held'
    BY <1>1, <1>2, <1>4, <1>5, <2>1, <2>2, <2>3
  <2>5. \A p \in Producers : ToSet(list[p]) \cap ToSet(q) = {}
    <3> TAKE p \in Producers
    <3>1. CASE list[p] = << >>
      BY <3>1 DEF ToSet
    <3>2. CASE list[p] # << >>
      <4>1. pc[p] \in {"lock", "link"}
        BY <1>1, <1>3, <3>2 DEF ListInv
      <4> QED
        BY <1>1, <4>1 DEF OwnerInv, q
    <3> QED
      BY <3>1, <3>2
  <2>6. \A p \in Producers :
          /\ data' \notin ToSet(list'[p]) /\ held' \notin ToSet(list'[p])
          /\ pc'[p] \in {"lock", "link"} => ToSet(list'[p]) \cap ToSet(Queue)' = {}
          /\ \A r \in Producers : r # p => ToSet(list'[p]) \cap ToSet(list'[r]) = {}
    BY <1>1, <1>2, <1>4, <1>5, <2>5 DEF OwnerInv
  <2> QED
    BY <1>1, <1>2, <1>4, <1>6, <2>4, <2>6 DEF OwnerInv
<1> QED
  BY <1>1, <1>2, <1>3, <1>4, <1>5, <1>6, <1>7, <1>8, <1>9, <1>10, <1>11 DEF Inv, q

\* waitForMessage sets the tail back to &firstMessage when the list got empty.
LEMMA ResetTailInv ==
  ASSUME Inv, ResetTail
  PROVE  Inv' /\ Queue' = Queue
<1>1. /\ OthersTypeOK /\ PcInv /\ LockInv /\ ListInv /\ QueueInv /\ OwnerInv
      /\ "main" \in Threads /\ "main" \notin Others /\ Producers \subseteq Others
  BY DEF Inv, Others, Threads, Producers
<1>2. /\ pc["main"] = "popped" /\ Goto("main", "unlock")
      /\ lastMessagePtr' = IF firstMessage = NULL THEN FIRST ELSE lastMessagePtr
      /\ UNCHANGED <<firstMessage, next, allocated, list, data, held, timerEvent, ticks, stopped,
                     stopDecoder, stopPollster, stopMessageReader, isEnabled, pollsterLock, messageQueueLock>>
  BY DEF ResetTail, MainAt, memoryVars, timerVars, stopVars
<1>3. Queue' = Queue
  BY <1>2 DEF Queue
<1>4. /\ PcInv' /\ pc'["main"] = "unlock" /\ \A t \in Others : pc'[t] = pc[t]
  BY <1>2, MainOnly DEF Inv, MainLabels
<1>5. LockInv' /\ OthersTypeOK' /\ ListInv'
  BY <1>1, <1>2, <1>4 DEF LockInv, OthersTypeOK, ListInv, Links
<1>6. QueueInv'
  <2>1. \A p \in Producers : pc[p] # "tail"
    BY <1>1, <1>2 DEF LockInv
  <2>2. lastMessagePtr = Tail_(Queue, data)
    BY <1>1, <1>2, <2>1 DEF QueueInv
  <2>3. lastMessagePtr' = Tail_(Queue, FIRST)
    BY <1>1, <1>2, <2>2, EmptyQueue DEF Tail_
  <2>4. IsChain(Queue)'
    BY <1>1, <1>2, <1>3 DEF QueueInv, IsChain
  <2> QED
    BY <1>1, <1>2, <1>3, <1>4, <2>1, <2>3, <2>4 DEF QueueInv
<1>7. OwnerInv'
  BY <1>1, <1>2, <1>3, <1>4 DEF OwnerInv, Appending
<1> QED
  BY <1>3, <1>4, <1>5, <1>6, <1>7 DEF Inv

\* The popped message is cut off, and the one the main loop had is freed.
LEMMA SetDataInv ==
  ASSUME Inv, SetData
  PROVE  /\ Inv' /\ Queue' = Queue
         /\ data' = NULL /\ held' = data
<1>1. /\ OthersTypeOK /\ PcInv /\ LockInv /\ ListInv /\ QueueInv /\ OwnerInv
      /\ "main" \in Threads /\ "main" \notin Others /\ Producers \subseteq Others
      /\ NULL \notin Messages
  BY QueueAssumption DEF Inv, QueueAssumption, Others, Threads, Producers
<1> DEFINE l == IF stopped THEN "exit" ELSE "process"
<1>2. /\ pc["main"] = "got" /\ Goto("main", l) /\ l \in {"exit", "process"}
      /\ next' = [m \in Messages |-> IF m = data THEN NULL ELSE next[m]]
      /\ allocated' = allocated \ {held} /\ held' = data /\ data' = NULL
      /\ UNCHANGED <<firstMessage, lastMessagePtr, list, timerEvent, ticks, stopped,
                     stopDecoder, stopPollster, stopMessageReader, isEnabled, pollsterLock, messageQueueLock>>
  BY DEF SetData, MainAt, timerVars, stopVars
<1> HIDE DEF l
<1>3. ASSUME NEW q \in Seq(Messages), data \notin ToSet(q), Links(q, next)
      PROVE  Links(q, next')
  <2>1. \A m \in ToSet(q) : next'[m] = next[m]
    BY <1>2, <1>3, InSet
  <2> QED
    BY <1>3, <2>1, OtherLinks
<1>4. Queue' = Queue /\ Queue' \in Seq(Messages) /\ IsChain(Queue)'
  <2> DEFINE q == Queue
  <2>1. q \in Seq(Messages) /\ data \notin ToSet(q) /\ Chained(q, firstMessage, next)
    BY <1>1 DEF QueueInv, OwnerInv, IsChain
  <2> HIDE DEF q
  <2>2. Chained(q, firstMessage', next')
    BY <1>2, <1>3, <2>1 DEF Chained
  <2>3. Queue' = q /\ Queue' \in Seq(Messages) /\ IsChain(Queue)'
    BY <2>1, <2>2, ChainIsQueueNext
  <2> QED
    BY <2>3 DEF q
<1>5. /\ PcInv' /\ pc'["main"] = l /\ \A t \in Others : pc'[t] = pc[t]
  BY <1>2, MainOnly DEF Inv, MainLabels
<1>6. LockInv' /\ OthersTypeOK'
  BY <1>1, <1>2, <1>5 DEF LockInv, OthersTypeOK
<1>7. ListInv'
  <2>1. \A p \in Producers : Links(list[p], next) => Links(list[p], next')
    BY <1>1, <1>3 DEF OthersTypeOK, OwnerInv
  <2> QED
    BY <1>1, <1>2, <1>5, <2>1 DEF ListInv
<1>8. QueueInv'
  <2>1. next' \in NextType
    BY <1>1, <1>2 DEF QueueInv, NextType
  <2>2. /\ firstMessage' \in Messages \cup {NULL}
        /\ \/ \E p \in Producers : pc'[p] = "tail"
           \/ lastMessagePtr' = Tail_(Queue', FIRST)
        /\ \A p \in Producers :
             pc'[p] = "tail" =>
               /\ Queue' # << >> /\ Last(Queue') = Last(list'[p])
               /\ ToSet(list'[p]) \subseteq ToSet(Queue')
               /\ lastMessagePtr' \in ToSet(Queue') \cup {FIRST}
    BY <1>1, <1>2, <1>4, <1>5 DEF QueueInv
  <2> QED
    BY <1>2, <1>4, <1>5, <2>1, <2>2 DEF QueueInv
<1>9. OwnerInv'
  <2>1. Appending' = Appending
    BY <1>2 DEF Appending
  <2>2. \A p \in Producers : held \notin ToSet(list[p])
    BY <1>1 DEF OwnerInv
  <2>3. held \notin Appending
    BY <2>2 DEF Appending
  <2>4. allocated' = ToSet(Queue)' \cup Appending' \cup ({data, held} \ {NULL})'
    BY <1>1, <1>2, <1>4, <2>1, <2>3 DEF OwnerInv
  <2>5. \A p \in Producers : NULL \notin ToSet(list[p])
    BY <1>1, InSet DEF OthersTypeOK
  <2>6. NULL \notin ToSet(Queue)
    BY <1>1, InSet DEF QueueInv
  <2> QED
    BY <1>1, <1>2, <1>4, <1>5, <2>4, <2>5, <2>6 DEF OwnerInv
<1> QED
  BY <1>2, <1>4, <1>5, <1>6, <1>7, <1>8, <1>9 DEF Inv

\* appendMessage moves the tail to the end of the list it has linked.
LEMMA MoveTailInv ==
  ASSUME Inv, NEW p \in Producers, MoveTail(p)
  PROVE  /\ Inv' /\ Queue' = Queue
         /\ data' = data /\ held' = held
<1>1. /\ OthersTypeOK /\ PcInv /\ LockInv /\ ListInv /\ QueueInv /\ OwnerInv
      /\ "main" \in Threads /\ "main" \notin Others /\ Producers \subseteq Others
      /\ NONE \notin Threads /\ Others \subseteq Threads
  BY QueueAssumption DEF Inv, QueueAssumption, Others, Threads, Producers
<1>2. /\ pc["main"] \notin {"check", "sleep", "popped", "unlock"}
      /\ \A r \in Producers : pc[r] \in {"link", "tail"} => r = p
      /\ \A t \in Others : pc[t] \in {"link", "tail", "broadcast"} => t = p
  <2>1. messageQueueLock = p
    BY <1>1 DEF MoveTail, LockInv
  <2> QED
    BY <1>1, <2>1 DEF LockInv
<1>3. /\ pc[p] = "tail" /\ pc' = [Broadcast EXCEPT ![p] = AfterAppend(p)]
      /\ messageQueueLock' = NONE
      /\ lastMessagePtr' = Last(list[p]) /\ list' = [list EXCEPT ![p] = << >>]
      /\ UNCHANGED <<firstMessage, next, allocated, data, held, timerEvent, ticks, stopped,
                     stopDecoder, stopPollster, stopMessageReader, isEnabled, pollsterLock>>
  BY DEF MoveTail, timerVars, stopVars
<1>4. /\ Queue' = Queue
      /\ Queue # << >> /\ Last(Queue) = Last(list[p]) /\ ToSet(list[p]) \subseteq ToSet(Queue)
  <2>1. Queue' = Queue
    BY <1>3 DEF Queue
  <2> QED
    BY <1>1, <1>3, <2>1 DEF QueueInv
<1>5. /\ list'[p] = << >> /\ ToSet(list'[p]) = {}
      /\ \A r \in Producers : r # p => list'[r] = list[r]
  BY <1>1, <1>3 DEF OthersTypeOK, ToSet
<1>6. /\ PcInv' /\ pc'[p] \in {"work", "timedwait"}
      /\ \A u \in Others : u # p => pc'[u] = pc[u]
      /\ pc'["main"] = IF pc["main"] = "wait" THEN "lock" ELSE pc["main"]
  <2>1. AfterAppend(p) \in Labels(p) /\ AfterAppend(p) \in {"work", "timedwait"}
    BY DEF Labels, ProducerLabels, AfterAppend
  <2> QED
    BY <1>1, <1>3, <2>1, OtherAndMain DEF Inv
<1>7. LockInv'
  BY <1>1, <1>2, <1>6 DEF LockInv
<1>8. OthersTypeOK'
  BY <1>1, <1>3 DEF OthersTypeOK
<1>9. ListInv'
  <2> SUFFICES ASSUME NEW r \in Producers
               PROVE  /\ Distinct(list'[r]) /\ Len(list'[r]) <= MAX_DEVICES
                      /\ list'[r] # << >> => pc'[r] \in {"lock", "link", "tail"}
                      /\ pc'[r] \in {"lock", "link", "tail"} => list'[r] # << >>
                      /\ pc'[r] \in {"lock", "link"} => Links(list'[r], next')
    BY DEF ListInv
  <2>1. CASE r = p
    BY <1>5, <1>6, <2>1, QueueAssumption DEF Distinct, QueueAssumption
  <2>2. CASE r # p
    BY <1>1, <1>3, <1>5, <1>6, <2>2 DEF ListInv, Links
  <2> QED
    BY <2>1, <2>2
<1>10. QueueInv'
  <2>1. lastMessagePtr' = Tail_(Queue, FIRST)
    BY <1>3, <1>4 DEF Tail_
  <2>2. \A r \in Producers : pc'[r] # "tail"
    BY <1>1, <1>2, <1>6
  <2>3. IsChain(Queue)'
    BY <1>1, <1>3, <1>4 DEF QueueInv, IsChain
  <2>4. pc'["main"] # "popped"
    BY <1>2, <1>6
  <2> QED
    BY <1>1, <1>3, <1>4, <2>1, <2>2, <2>3, <2>4 DEF QueueInv
<1>11. OwnerInv'
  <2>1. Appending = Appending' \cup ToSet(list[p])
    BY <1>5 DEF Appending
  <2>2. allocated' = ToSet(Queue)' \cup Appending' \cup ({data, held} \ {NULL})'
    BY <1>1, <1>3, <1>4, <2>1 DEF OwnerInv
  <2>3. \A r \in Producers :
          /\ data \notin ToSet(list'[r]) /\ held \notin ToSet(list'[r])
          /\ pc'[r] \in {"lock", "link"} => ToSet(list'[r]) \cap ToSet(Queue) = {}
          /\ \A o \in Producers : o # r => ToSet(list'[r]) \cap ToSet(list'[o]) = {}
    BY <1>1, <1>5, <1>6 DEF OwnerInv
  <2>4. /\ data' \notin ToSet(Queue)' /\ held' \notin ToSet(Queue)'
        /\ data' # NULL => data' # held' /\ pc'["main"] \in {"popped", "unlock", "got"}
        /\ pc'["main"] = "popped" => data' # NULL
    BY <1>1, <1>2, <1>3, <1>4, <1>6 DEF OwnerInv
  <2> QED
    BY <1>3, <1>4, <2>2, <2>3, <2>4 DEF OwnerInv
<1> QED
  BY <1>3, <1>4, <1>6, <1>7, <1>8, <1>9, <1>10, <1>11 DEF Inv

\* appendMessage links a list at the tail: the queue grows by the whole list.
LEMMA LinkMessagesInv ==
  ASSUME Inv, NEW p \in Producers, LinkMessages(p)
  PROVE  /\ Inv' /\ Queue' = Queue \o list[p]
         /\ list[p] # << >> /\ Len(list[p]) <= MAX_DEVICES
         /\ data' = data /\ held' = held
<1> DEFINE q == Queue
           l == list[p]
<1>1. /\ OthersTypeOK /\ PcInv /\ LockInv /\ ListInv /\ QueueInv /\ OwnerInv
      /\ "main" \in Threads /\ "main" \notin Others /\ Producers \subseteq Others
      /\ NONE \notin Threads /\ Others \subseteq Threads /\ FIRST \notin Messages
  BY QueueAssumption DEF Inv, QueueAssumption, Others, Threads, Producers
<1>2. /\ pc["main"] \notin {"check", "sleep", "popped", "unlock"}
      /\ \A r \in Producers : pc[r] \in {"link", "tail"} => r = p
      /\ \A t \in Others : pc[t] \in {"link", "tail", "broadcast"} => t = p
  <2>1. messageQueueLock = p
    BY <1>1 DEF LinkMessages, LockInv
  <2> QED
    BY <1>1, <2>1 DEF LockInv
<1>3. /\ pc[p] = "link" /\ Goto(p, "tail")
      /\ IF lastMessagePtr = FIRST
         THEN firstMessage' = Head(l) /\ next' = next
         ELSE next' = [next EXCEPT ![lastMessagePtr] = Head(l)] /\ firstMessage' = firstMessage
      /\ UNCHANGED <<lastMessagePtr, allocated, list, data, held, timerEvent, ticks, stopped,
                     stopDecoder, stopPollster, stopMessageReader, isEnabled, pollsterLock, messageQueueLock>>
  BY DEF LinkMessages, memoryVars, timerVars, stopVars
<1>4. /\ q \in Seq(Messages) /\ Chained(q, firstMessage, next) /\ next \in NextType
      /\ l \in Seq(Messages) /\ l # << >> /\ Distinct(l) /\ Links(l, next)
      /\ ToSet(q) \cap ToSet(l) = {} /\ Len(l) <= MAX_DEVICES
      /\ lastMessagePtr = Tail_(q, FIRST)
  BY <1>1, <1>2, <1>3 DEF QueueInv, ListInv, OthersTypeOK, OwnerInv, IsChain
<1> HIDE DEF q, l
<1>5. /\ q = << >> => firstMessage' = Head(l) /\ next' = next
      /\ q # << >> => firstMessage' = firstMessage /\ next' = [next EXCEPT ![Last(q)] = Head(l)]
  <2>1. q # << >> => Last(q) \in Messages
    BY <1>4, InSet
  <2> QED
    BY <1>1, <1>3, <1>4, <2>1 DEF Tail_
<1>6. /\ q \o l \in Seq(Messages)
      /\ Chained(q \o l, firstMessage', next')
      /\ Last(q \o l) = Last(l)
  BY <1>4, <1>5, ChainedConcat
<1>7. Queue' = q \o l /\ Queue' \in Seq(Messages) /\ IsChain(Queue)'
  BY <1>6, ChainIsQueueNext
<1>8. ToSet(Queue') = ToSet(q) \cup ToSet(l)
  BY <1>4, <1>7, ConcatSet
<1>9. /\ PcInv' /\ pc'[p] = "tail"
      /\ \A u \in Threads : u # p => pc'[u] = pc[u]
  <2>1. "tail" \in Labels(p)
    BY DEF Labels, ProducerLabels
  <2> QED
    BY <1>1, <1>3, <2>1, OtherOnly DEF Inv
<1>10. LockInv'
  BY <1>1, <1>2, <1>3, <1>9 DEF LockInv
<1>11. OthersTypeOK'
  BY <1>1, <1>3 DEF OthersTypeOK
<1>12. ListInv'
  <2>1. \A r \in Producers : pc[r] = "lock" => Links(list[r], next')
    <3> SUFFICES ASSUME NEW r \in Producers, pc[r] = "lock"
                 PROVE  Links(list[r], next')
      OBVIOUS
    <3> DEFINE k == list[r]
    <3>1. k \in Seq(Messages) /\ Links(k, next) /\ ToSet(k) \cap ToSet(q) = {}
      BY <1>1 DEF OthersTypeOK, ListInv, OwnerInv, q
    <3> HIDE DEF k
    <3>2. q # << >> => Last(q) \in ToSet(q)
      BY <1>4, InSet
    <3>3. ToSet(k) \subseteq Messages
      BY <3>1, InSet
    <3>4. \A m \in ToSet(k) : next'[m] = next[m]
      BY <1>4, <1>5, <3>1, <3>2, <3>3 DEF NextType
    <3>5. Links(k, next')
      BY <3>1, <3>4, OtherLinks
    <3> QED
      BY <3>5 DEF k
  <2>2. \A r \in Producers : r # p => pc'[r] = pc[r] /\ pc[r] # "link"
    BY <1>1, <1>2, <1>9
  <2> QED
    BY <1>1, <1>3, <1>4, <1>9, <2>1, <2>2 DEF ListInv, l
<1>13. QueueInv'
  <2>1. Head(l) \in Messages
    BY <1>4, InSet
  <2>2. next' \in NextType /\ firstMessage' \in Messages \cup {NULL}
    BY <1>1, <1>4, <1>5, <2>1 DEF NextType, QueueInv
  <2>3. Queue' # << >>
    BY <1>4, <1>6, <1>7, <1>8, InSet
  <2>4. lastMessagePtr' \in ToSet(Queue') \cup {FIRST}
    <3>1. q # << >> => Last(q) \in ToSet(q)
      BY <1>4, InSet
    <3> QED
      BY <1>3, <1>4, <1>8, <3>1 DEF Tail_
  <2>5. \A r \in Producers : pc'[r] = "tail" => r = p
    BY <1>1, <1>2, <1>9
  <2>6. Last(Queue') = Last(list'[p]) /\ ToSet(list'[p]) \subseteq ToSet(Queue')
    BY <1>3, <1>6, <1>7, <1>8 DEF l
  <2> QED
    BY <1>7, <1>9, <2>2, <2>3, <2>4, <2>5, <2>6 DEF QueueInv
<1>14. OwnerInv'
  <2>1. Appending' = Appending /\ ToSet(l) \subseteq Appending
    BY <1>3 DEF Appending, l
  <2>2. data \notin ToSet(l) /\ held \notin ToSet(l)
    BY <1>1 DEF OwnerInv, l
  <2>3. /\ allocated' = ToSet(Queue)' \cup Appending' \cup ({data, held} \ {NULL})'
        /\ data' \notin ToSet(Queue)' /\ held' \notin ToSet(Queue)'
    BY <1>1, <1>3, <1>8, <2>1, <2>2 DEF OwnerInv, q
  <2>4. \A r \in Producers : pc'[r] \in {"lock", "link"} => ToSet(list'[r]) \cap ToSet(Queue)' = {}
    <3> SUFFICES ASSUME NEW r \in Producers, pc'[r] \in {"lock", "link"}
                 PROVE  ToSet(list[r]) \cap ToSet(Queue)' = {}
      BY <1>3
    <3>1. r # p /\ pc'[r] = pc[r]
      BY <1>1, <1>9
    <3>2. ToSet(list[r]) \cap ToSet(q) = {} /\ ToSet(list[r]) \cap ToSet(l) = {}
      BY <1>1, <3>1 DEF OwnerInv, q, l
    <3> QED
      BY <1>8, <3>2
  <2>5. pc'["main"] = pc["main"]
    BY <1>1, <1>9
  <2> QED
    BY <1>1, <1>3, <2>3, <2>4, <2>5 DEF OwnerInv
<1> QED
  BY <1>3, <1>4, <1>7, <1>9, <1>10, <1>11, <1>12, <1>13, <1>14 DEF Inv, q, l

\* The messages of a new list are linked in order and belong to nobody else.
LEMMA NewMessagesInv ==
  ASSUME Inv, NEW p \in Producers, NewMessages(p)
  PROVE  /\ Inv' /\ Queue' = Queue
         /\ data' = data /\ held' = held
<1>1. /\ OthersTypeOK /\ PcInv /\ LockInv /\ ListInv /\ QueueInv /\ OwnerInv
      /\ "main" \in Threads /\ "main" \notin Others /\ Producers \subseteq Others
      /\ Others \subseteq Threads /\ NULL \notin Messages
  BY QueueAssumption DEF Inv, QueueAssumption, Others, Threads, Producers
<1>20. PICK n \in 1 .. MaxList(p) : \E new \in [1 .. n -> Messages \ allocated] :
        /\ IsInjective(new)
        /\ list' = [list EXCEPT ![p] = new]
        /\ allocated' = allocated \cup ToSet(new)
        /\ next' = [m \in Messages |->
                      IF m \notin ToSet(new) THEN next[m]
                      ELSE IF m = new[n] THEN NULL
                      ELSE new[CHOOSE i \in 2 .. n : new[i - 1] = m]]
  BY DEF NewMessages
<1>2. PICK new \in [1 .. n -> Messages \ allocated] :
        /\ IsInjective(new)
        /\ list' = [list EXCEPT ![p] = new]
        /\ allocated' = allocated \cup ToSet(new)
        /\ next' = [m \in Messages |->
                      IF m \notin ToSet(new) THEN next[m]
                      ELSE IF m = new[n] THEN NULL
                      ELSE new[CHOOSE i \in 2 .. n : new[i - 1] = m]]
  BY <1>20
<1>3. /\ pc[p] = "work" /\ Goto(p, "lock")
      /\ UNCHANGED <<firstMessage, lastMessagePtr, data, held, timerEvent, ticks, stopped,
                     stopDecoder, stopPollster, stopMessageReader, isEnabled, pollsterLock, messageQueueLock>>
  BY DEF NewMessages, timerVars, stopVars
<1>4. /\ n \in Nat /\ n > 0 /\ n <= MAX_DEVICES
      /\ new \in Seq(Messages) /\ Len(new) = n /\ new # << >> /\ Distinct(new)
      /\ ToSet(new) \cap allocated = {} /\ ToSet(new) \subseteq Messages
  <2>1. MaxList(p) \in Nat /\ MaxList(p) <= MAX_DEVICES
    BY QueueAssumption DEF MaxList, QueueAssumption
  <2>2. n \in Nat /\ n > 0 /\ n <= MAX_DEVICES
    BY <2>1, QueueAssumption DEF QueueAssumption
  <2>3. new \in [1 .. n -> Messages]
    OBVIOUS
  <2>4. new \in Seq(Messages) /\ Len(new) = n
    BY <2>2, <2>3
  <2>5. ToSet(new) \cap allocated = {} /\ ToSet(new) \subseteq Messages
    BY DEF ToSet
  <2> QED
    BY <1>2, <2>2, <2>4, <2>5 DEF Distinct, IsInjective
<1>5. \A m \in Messages : m \notin ToSet(new) => next'[m] = next[m]
  BY <1>2
<1>6. Links(new, next')
  <2> SUFFICES ASSUME NEW i \in 1 .. n
               PROVE  /\ i < n => next'[new[i]] = new[i + 1]
                      /\ i = n => next'[new[i]] = NULL
    BY <1>4 DEF Links
  <2>1. new[i] \in ToSet(new) /\ new[i] \in Messages
    BY <1>4, InSet
  <2>2. next'[new[i]] = IF new[i] = new[n] THEN NULL
                        ELSE new[CHOOSE j \in 2 .. n : new[j - 1] = new[i]]
    BY <1>2, <2>1
  <2>3. CASE i = n
    BY <2>2, <2>3
  <2>4. CASE i < n
    <3>1. new[i] # new[n]
      BY <1>4, <2>4 DEF Distinct
    <3>2. i + 1 \in 2 .. n /\ new[i + 1 - 1] = new[i]
      BY <1>4, <2>4
    <3> DEFINE j == CHOOSE j \in 2 .. n : new[j - 1] = new[i]
    <3>3. j \in 2 .. n /\ new[j - 1] = new[i]
      <4>1. \E k \in 2 .. n : new[k - 1] = new[i]
        BY <3>2
      <4> QED
        BY <4>1
    <3> HIDE DEF j
    <3>4. j - 1 \in 1 .. n /\ i \in 1 .. n
      BY <1>4, <3>3
    <3>5. j - 1 = i
      BY <1>4, <3>3, <3>4 DEF Distinct
    <3>6. j = i + 1
      BY <3>3, <3>5
    <3> QED
      BY <2>2, <2>4, <3>1, <3>6 DEF j
  <2> QED
    BY <1>4, <2>3, <2>4
<1>7. \A q \in Seq(Messages) : ToSet(q) \cap ToSet(new) = {} /\ Links(q, next) => Links(q, next')
  <2> SUFFICES ASSUME NEW q \in Seq(Messages), ToSet(q) \cap ToSet(new) = {}, Links(q, next)
               PROVE  Links(q, next')
    OBVIOUS
  <2>1. \A m \in ToSet(q) : next'[m] = next[m]
    BY <1>5, InSet
  <2> QED
    BY <2>1, OtherLinks
<1>8. /\ ToSet(Queue) \cap ToSet(new) = {} /\ Appending \cap ToSet(new) = {}
      /\ data \notin ToSet(new) /\ held \notin ToSet(new)
      /\ \A r \in Producers : ToSet(list[r]) \cap ToSet(new) = {}
  <2>1. /\ ToSet(Queue) \subseteq allocated /\ Appending \subseteq allocated
        /\ data \in allocated \cup {NULL} /\ held \in allocated \cup {NULL}
    BY <1>1 DEF OwnerInv
  <2>2. \A r \in Producers : ToSet(list[r]) \subseteq Appending
    BY DEF Appending
  <2> QED
    BY <1>1, <1>4, <2>1, <2>2
<1>9. Queue' = Queue /\ Queue' \in Seq(Messages) /\ IsChain(Queue)'
  <2> DEFINE q == Queue
  <2>1. q \in Seq(Messages) /\ Chained(q, firstMessage, next) /\ ToSet(q) \cap ToSet(new) = {}
    BY <1>1, <1>8 DEF QueueInv, IsChain
  <2> HIDE DEF q
  <2>2. Chained(q, firstMessage', next')
    BY <1>3, <1>7, <2>1 DEF Chained
  <2>3. Queue' = q /\ Queue' \in Seq(Messages) /\ IsChain(Queue)'
    BY <2>1, <2>2, ChainIsQueueNext
  <2> QED
    BY <2>3 DEF q
<1>10. /\ PcInv' /\ pc'[p] = "lock"
       /\ \A u \in Threads : u # p => pc'[u] = pc[u]
  <2>1. "lock" \in Labels(p)
    BY DEF Labels, ProducerLabels
  <2> QED
    BY <1>1, <1>3, <2>1, OtherOnly DEF Inv
<1>11. LockInv'
  BY <1>1, <1>3, <1>10 DEF LockInv
<1>12. /\ OthersTypeOK'
       /\ list'[p] = new
       /\ \A r \in Producers : r # p => list'[r] = list[r]
  BY <1>1, <1>2, <1>3, <1>4 DEF OthersTypeOK
<1>13. ListInv'
  <2> SUFFICES ASSUME NEW r \in Producers
               PROVE  /\ Distinct(list'[r]) /\ Len(list'[r]) <= MAX_DEVICES
                      /\ list'[r] # << >> => pc'[r] \in {"lock", "link", "tail"}
                      /\ pc'[r] \in {"lock", "link", "tail"} => list'[r] # << >>
                      /\ pc'[r] \in {"lock", "link"} => Links(list'[r], next')
    BY DEF ListInv
  <2>1. CASE r = p
    BY <1>4, <1>6, <1>10, <1>12, <2>1
  <2>2. CASE r # p
    <3>1. list[r] \in Seq(Messages)
      BY <1>1 DEF OthersTypeOK
    <3>2. Links(list[r], next) => Links(list[r], next')
      BY <1>7, <1>8, <3>1
    <3> QED
      BY <1>1, <1>10, <1>12, <2>2, <3>2 DEF ListInv
  <2> QED
    BY <2>1, <2>2
<1>14. QueueInv'
  <2>1. next' \in NextType
    <3>1. ASSUME NEW m \in Messages
          PROVE  next'[m] \in Messages \cup {NULL}
      <4>1. CASE m \notin ToSet(new)
        BY <1>1, <1>5, <4>1 DEF QueueInv, NextType
      <4>2. CASE m \in ToSet(new)
        <5>1. PICK i \in 1 .. n : m = new[i]
          BY <1>4, <4>2, InSet
        <5>2. i < n => new[i + 1] \in Messages
          BY <1>4
        <5> QED
          BY <1>4, <1>6, <5>1, <5>2 DEF Links
      <4> QED
        BY <4>1, <4>2
    <3>2. next' = [m \in Messages |-> next'[m]]
      BY <1>2
    <3> QED
      BY <3>1, <3>2 DEF NextType
  <2>2. \A r \in Producers : (pc'[r] = "tail") => r # p /\ pc[r] = "tail"
    BY <1>1, <1>10
  <2>3. \A r \in Producers : (pc[r] = "tail") => r # p /\ pc'[r] = "tail"
    BY <1>1, <1>3, <1>10
  <2>4. pc'["main"] = pc["main"]
    BY <1>1, <1>10
  <2> QED
    BY <1>1, <1>3, <1>9, <1>12, <2>1, <2>2, <2>3, <2>4 DEF QueueInv
<1>15. OwnerInv'
  <2>1. list[p] = << >>
    BY <1>1, <1>3 DEF ListInv
  <2>2. Appending' = Appending \cup ToSet(new)
    BY <1>12, <2>1 DEF Appending, ToSet
  <2>3. allocated' = ToSet(Queue)' \cup Appending' \cup ({data, held} \ {NULL})'
    BY <1>1, <1>2, <1>3, <1>9, <2>2 DEF OwnerInv
  <2>4. \A r \in Producers :
          /\ data \notin ToSet(list'[r]) /\ held \notin ToSet(list'[r])
          /\ pc'[r] \in {"lock", "link"} => ToSet(list'[r]) \cap ToSet(Queue) = {}
          /\ \A o \in Producers : o # r => ToSet(list'[r]) \cap ToSet(list'[o]) = {}
    <3> TAKE r \in Producers
    <3>1. CASE r = p
      BY <1>8, <1>12, <3>1
    <3>2. CASE r # p
      <4>1. pc'[r] = pc[r] /\ list'[r] = list[r]
        BY <1>1, <1>10, <1>12, <3>2
      <4> QED
        BY <1>1, <1>8, <1>12, <4>1 DEF OwnerInv
    <3> QED
      BY <3>1, <3>2
  <2>5. pc'["main"] = pc["main"]
    BY <1>1, <1>10
  <2> QED
    BY <1>1, <1>3, <1>9, <2>3, <2>4, <2>5 DEF OwnerInv
<1> QED
  BY <1>3, <1>9, <1>10, <1>11, <1>12, <1>13, <1>14, <1>15 DEF Inv

-----------------------------------------------------------------------------
(* The invariant always holds                                              *)

\* What every step does: nothing to the queue and to the message of the main
\* loop, or one of the three operations of the channel.
Received == IF data # NULL THEN data ELSE held

Silent == Queue' = Queue /\ Received' = Received

\* No step of any thread breaks the invariant, and each does to the queue what one
\* step of the channel does.
LEMMA NextInv ==
  ASSUME Inv, [Next]_vars
  PROVE  /\ Inv'
         /\ \/ Silent
            \/ Queue # << >> /\ Queue' = Tail(Queue) /\ Received' = Head(Queue)
            \/ Queue' = Queue /\ Received' = NULL
            \/ \E p \in Producers : LinkMessages(p)
<1>1. ASSUME Inv', Idle
      PROVE  Inv' /\ Silent
  BY <1>1 DEF Idle, Silent, Received, Queue, queueVars, memoryVars
<1>2. CASE Main \/ SpuriousWakeup
  <2>1. CASE PopMessage
    BY <2>1, PopMessageInv DEF Received
  <2>2. CASE ResetTail
    BY <2>2, ResetTailInv DEF Silent, Received, ResetTail, memoryVars
  <2>3. CASE SetData
    BY <2>3, SetDataInv DEF Silent, Received
  <2> QED
    BY <1>1, <1>2, <2>1, <2>2, <2>3, MainIdleInv DEF Main
<1>3. ASSUME NEW p \in Producers, NewMessages(p) \/ LinkMessages(p) \/ MoveTail(p)
      PROVE  Inv' /\ (Silent \/ LinkMessages(p))
  BY <1>3, NewMessagesInv, LinkMessagesInv, MoveTailInv DEF Silent, Received
<1>4. ASSUME NEW t \in Others,
             \/ t \in Producers /\ EndThread(t)
             \/ t = "pollster" /\ Pollster
             \/ t = "timer" /\ RaiseTimerEvent
             \/ t \in Stoppers /\ (\/ CallStop(t) \/ SetStopped(t) \/ LockPollster(t)
                                  \/ BroadcastPollster(t) \/ Pause(t))
             \/ Lock(t) \/ Notify(t)
      PROVE  Inv' /\ Silent
  BY <1>1, <1>4, OtherIdleInv
<1>5. CASE UNCHANGED vars
  <2>1. /\ Idle /\ UNCHANGED pc
        /\ UNCHANGED <<timerEvent, ticks, stopped, stopDecoder, stopPollster,
                       stopMessageReader, isEnabled, pollsterLock, messageQueueLock>>
    BY <1>5 DEF vars, Idle, timerVars, stopVars
  <2>2. PcInv' /\ LockInv'
    BY <2>1 DEF Inv, PcInv, LockInv
  <2>3. OthersTypeOK'
    BY <2>1 DEF Inv, OthersTypeOK, Idle, memoryVars
  <2>4. Inv'
    BY <2>1, <2>2, <2>3, IdleInv DEF KeepsList, Inv, OwnerInv
  <2> QED
    BY <1>1, <2>1, <2>4
<1>6. /\ Producers \subseteq Others /\ Stoppers \subseteq Others
      /\ "timer" \in Others /\ "pollster" \in Others
  BY DEF Producers, Stoppers, Others, Threads
<1> QED
  BY <1>2, <1>3, <1>4, <1>5, <1>6 DEF Next

\* The invariant always holds.
LEMMA SpecInv == Spec => []Inv
<1>1. Init => Inv
  BY InitInv
<1>2. Inv /\ [Next]_vars => Inv'
  BY NextInv
<1> QED
  BY <1>1, <1>2, PTL DEF Spec

\* lastMessagePtr always points to memory that is still allocated.
LEMMA TailIsAllocated ==
  ASSUME Inv
  PROVE  lastMessagePtr \in allocated \cup {FIRST} /\ allocated \subseteq Messages
<1>1. Queue # << >> => Last(Queue) \in ToSet(Queue)
  <2> DEFINE q == Queue
  <2>1. q \in Seq(Messages)
    BY DEF Inv, QueueInv
  <2> HIDE DEF q
  <2>2. q # << >> => Last(q) \in ToSet(q)
    BY <2>1, InSet
  <2> QED
    BY <2>2 DEF q
<1>2. ToSet(Queue) \subseteq allocated /\ (pc["main"] = "popped" => data \in allocated)
  BY DEF Inv, OwnerInv
<1>3. CASE \E p \in Producers : pc[p] = "tail"
  BY <1>2, <1>3 DEF Inv, QueueInv, OthersTypeOK
<1>4. CASE lastMessagePtr = Tail_(Queue, IF pc["main"] = "popped" THEN data ELSE FIRST)
  BY <1>1, <1>2, <1>4 DEF Tail_, Inv, OthersTypeOK
<1> QED
  BY <1>3, <1>4 DEF Inv, QueueInv

\* Every pointer is one to a message, NULL, or for the tail &firstMessage.
THEOREM TypeCorrect == Spec => []TypeOK
<1>1. Inv => TypeOK
  <2> SUFFICES ASSUME Inv
               PROVE  TypeOK
    OBVIOUS
  <2>1. lastMessagePtr \in Messages \cup {FIRST}
    BY TailIsAllocated
  <2>2. pc \in [Threads -> {"enable", "loop", "lock", "check", "sleep", "wait", "popped",
                            "unlock", "got", "process", "exit", "work", "link", "tail",
                            "timedwait", "waiting", "idle", "stop", "lockPollster",
                            "broadcastPollster", "pause", "notify", "broadcast", "done"}]
    BY DEF Inv, PcInv, MainLabels, ProducerLabels, NotifierLabels
  <2> QED
    BY <2>1, <2>2 DEF Inv, OthersTypeOK, QueueInv, NextType, TypeOK
<1> QED
  BY <1>1, SpecInv, PTL

\* Memory is freed exactly when nobody can reach it any more, whatever the
\* number of messages and of sensors (waitForMessage, appendMessage, setData).
THEOREM MemoryCorrect == Spec => []MemoryIsOwned
<1>1. Inv => MemoryIsOwned
  BY TailIsAllocated DEF Inv, OwnerInv, MemoryIsOwned
<1> QED
  BY <1>1, SpecInv, PTL

-----------------------------------------------------------------------------
(* The queue implements the channel                                        *)

\* Linking a list of new messages is one Send of the channel.
LEMMA LinkIsSend ==
  ASSUME Inv, NEW p \in Producers, LinkMessages(p)
  PROVE  Channel!Send
<1> DEFINE l == list[p]
           n == Len(l)
<1>1. /\ l \in Seq(Messages) /\ Distinct(l) /\ pc[p] = "link"
      /\ ToSet(l) \cap ToSet(Queue) = {} /\ data \notin ToSet(l) /\ held \notin ToSet(l)
  BY DEF Inv, OthersTypeOK, ListInv, OwnerInv, LinkMessages
<1>2. Queue' = Queue \o l /\ Received' = Received /\ l # << >> /\ n <= MAX_DEVICES
  BY LinkMessagesInv DEF Received
<1> HIDE DEF l
<1>3. n \in 1 .. MAX_DEVICES
  BY <1>1, <1>2, QueueAssumption DEF QueueAssumption
<1>4. \A i \in 1 .. n : l[i] \in Messages \ (ToSet(Queue) \cup {Received})
  <2>1. Received \notin ToSet(l)
    BY <1>1 DEF Received
  <2> QED
    BY <1>1, <2>1, InSet
<1>5. l \in [1 .. n -> Messages \ (ToSet(Queue) \cup {Received})]
  BY <1>1, <1>4
<1>6. Channel!IsInjective(l)
  BY <1>1 DEF Channel!IsInjective, Distinct
<1>7. Channel!Owned = ToSet(Queue) \cup {Received}
  BY DEF Channel!Owned, Channel!ToSet, ToSet, Received
<1>8. l \in [1 .. n -> Messages \ Channel!Owned]
  BY <1>5, <1>7
<1> HIDE DEF n
<1>9. \E k \in 1 .. MAX_DEVICES : \E new \in [1 .. k -> Messages \ Channel!Owned] :
        Channel!IsInjective(new) /\ Queue' = Queue \o new
  BY <1>2, <1>3, <1>6, <1>8
<1> QED
  BY <1>2, <1>9 DEF Channel!Send, Received

\* Every step is a step of the channel, or none.
LEMMA StepImplements ==
  ASSUME Inv, [Next]_vars
  PROVE  [Channel!Next]_(Channel!vars)
<1>1. CASE Silent
  BY <1>1 DEF Silent, Received, Channel!vars
<1>2. CASE Queue # << >> /\ Queue' = Tail(Queue) /\ Received' = Head(Queue)
  BY <1>2 DEF Received, Channel!Next, Channel!Receive
<1>3. CASE Queue' = Queue /\ Received' = NULL
  BY <1>3 DEF Received, Channel!Next, Channel!Release
<1>4. CASE \E p \in Producers : LinkMessages(p)
  BY <1>4, LinkIsSend DEF Channel!Next
<1> QED
  BY <1>1, <1>2, <1>3, <1>4, NextInv

\* The main loop receives whole lists of messages completely, once and in order:
\* the linked list under messageQueueLock implements the channel, for any memory
\* and any number of sensors.
THEOREM QueueImplementsChannel == Spec => ImplementsChannel
<1>1. Init => Channel!Init
  <2> SUFFICES ASSUME Init
               PROVE  Channel!Init
    OBVIOUS
  <2>1. Queue = << >>
    BY InitInv, EmptyQueue DEF Inv, Init
  <2> QED
    BY <2>1 DEF Init, Channel!Init
<1>2. Inv /\ [Next]_vars => [Channel!Next]_(Channel!vars)
  BY StepImplements
<1> QED
  BY <1>1, <1>2, SpecInv, PTL DEF Spec, ImplementsChannel, Channel!Spec
=============================================================================
