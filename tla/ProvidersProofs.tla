---------------------------- MODULE ProvidersProofs ----------------------------
(***************************************************************************)
(* Proofs about the two kinds of provider session, for every number of     *)
(* turns, every bound of the history and every capacity of the queues.     *)
(*                                                                         *)
(* The pipeline. First, about sequences only: trimming leaves a            *)
(* conversation paired, because each of its three bounds takes an even     *)
(* number of messages off the front (BoundedSuffix), and adding a          *)
(* question, adding an answer and discarding the last pair keep it paired  *)
(* (PairedAppend, LastPairGoes). Then the inductive invariant PipelineInv: *)
(* what the input's stream has heard at each place of a call (InputInv);   *)
(* that a job at work answers the actor's turn, which nobody has cancelled *)
(* (JobInv); and that what is remembered is older than the turn until its  *)
(* answer is stored, which is then the answer that a discard takes away    *)
(* (HistoryInv).                                                           *)
(*                                                                         *)
(* The omni session. Its inductive invariant OmniInv is about three lines, *)
(* each with what its taker already holds in front: the batches on their   *)
(* way to the model (Way), its messages (Line) and the events on their way *)
(* to the actor (Came). There is one response at a time, in the commit, in *)
(* the model or in the last message (OneResponse); what is being published *)
(* has not been cut (Fence); and the pieces of a turn on the way complete  *)
(* those that the model has (Hearing).                                     *)
(***************************************************************************)
EXTENDS Providers, SequenceTheorems, TLAPS

-----------------------------------------------------------------------------
(* What trimming leaves of a conversation.                                 *)

\* Questions and their answers in turn order, the last one perhaps open.
Paired(h) ==
  /\ \A i \in DOMAIN h :
       /\ (h[i].role = "user") = (i % 2 = 1)
       /\ i % 2 = 0 => h[i].turn = h[i - 1].turn
  /\ \A i, j \in DOMAIN h : i < j => h[i].turn < h[j].turn \/ (j % 2 = 0 /\ j = i + 1)

\* h without an even number of messages at its front.
EvenSuffix(x, h) == \E k \in 0..Len(h) : k % 2 = 0 /\ x = SubSeq(h, k + 1, Len(h))

LEMMA Parity ==
  /\ \A a, b \in Int : b % 2 = 0 => (a + b) % 2 = a % 2 /\ (a - b) % 2 = a % 2
  /\ \A a, b \in Int : a % 2 = 1 /\ b % 2 = 1 => (a - b) % 2 = 0
  /\ \A a \in Int : /\ a % 2 = 0 \/ a % 2 = 1
                    /\ a % 2 = 0 => (a + 1) % 2 = 1 /\ (a - 1) % 2 = 1 /\ a % 2 # 1
                    /\ a % 2 = 1 => (a + 1) % 2 = 0 /\ (a - 1) % 2 = 0 /\ a % 2 # 0
  /\ \A n \in Int : (2 * n) % 2 = 0 /\ (2 * n - 1) % 2 = 1
  OBVIOUS

LEMMA Suffix ==
  ASSUME NEW S, NEW h \in Seq(S), NEW k \in 0..Len(h)
  PROVE  /\ SubSeq(h, k + 1, Len(h)) \in Seq(S)
         /\ Len(SubSeq(h, k + 1, Len(h))) = Len(h) - k
         /\ \A i \in 1..(Len(h) - k) : SubSeq(h, k + 1, Len(h))[i] = h[i + k]
  OBVIOUS

\* An even suffix is paired as the whole is, and ends as it ends.
LEMMA SuffixPaired ==
  ASSUME NEW h \in Seq(Message), Paired(h), NEW x, EvenSuffix(x, h)
  PROVE  /\ x \in Seq(Message) /\ Paired(x) /\ Len(x) % 2 = Len(h) % 2
         /\ \A i \in DOMAIN x : \E j \in DOMAIN h : x[i] = h[j]
         /\ x # <<>> => x[Len(x)] = h[Len(h)]
<1>1. PICK k \in 0..Len(h) : k % 2 = 0 /\ x = SubSeq(h, k + 1, Len(h))
  BY DEF EvenSuffix
<1> DEFINE n == Len(h)
<1>n. n \in Nat /\ k \in Nat /\ k <= n
  OBVIOUS
<1>x. x \in Seq(Message) /\ Len(x) = n - k /\ \A i \in 1..(n - k) : x[i] = h[i + k]
  BY <1>1, Suffix
<1>d. DOMAIN x = 1..(n - k) /\ DOMAIN h = 1..n
  BY <1>x
<1> HIDE DEF n
<1>2. /\ x \in Seq(Message) /\ Len(x) = n - k /\ DOMAIN x = 1..(n - k)
      /\ \A i \in 1..(n - k) : x[i] = h[i + k] /\ i + k \in DOMAIN h
  <2>1. \A i \in 1..(n - k) : i + k \in 1..n
    BY <1>n
  <2> QED
    BY <1>x, <1>d, <2>1
<1>3. Len(x) % 2 = n % 2
  <2>1. n \in Int /\ k \in Int
    BY <1>n
  <2>2. (n - k) % 2 = n % 2
    BY <1>1, <2>1, Parity
  <2> QED
    BY <1>2, <2>2
<1>4. ASSUME NEW i \in DOMAIN x PROVE i \in Int /\ i \in 1..(n - k) /\ (i + k) % 2 = i % 2
  <2>1. i \in 1..(n - k)
    BY <1>2
  <2>2. i \in Int /\ k \in Int
    BY <1>n, <2>1
  <2> QED
    BY <1>1, <2>1, <2>2, Parity
<1>5. ASSUME NEW i \in DOMAIN x
      PROVE  /\ (x[i].role = "user") = (i % 2 = 1)
             /\ i % 2 = 0 => x[i].turn = x[i - 1].turn
  <2>1. x[i] = h[i + k] /\ i + k \in DOMAIN h /\ (i + k) % 2 = i % 2
    BY <1>2, <1>4
  <2>2. (x[i].role = "user") = (i % 2 = 1)
    BY <2>1 DEF Paired
  <2>3. ASSUME i % 2 = 0
        PROVE  x[i].turn = x[i - 1].turn
    <3>1. i # 1
      <4>1. 1 % 2 = 1
        OBVIOUS
      <4> QED
        BY <2>3, <4>1
    <3>2. i \in Int /\ 1 <= i /\ i <= n - k /\ k \in Nat /\ n \in Nat
      BY <1>n, <1>4
    <3>3. i - 1 \in 1..(n - k)
      BY <3>1, <3>2
    <3>4. (i - 1) + k = (i + k) - 1
      BY <3>2
    <3>5. x[i - 1] = h[(i + k) - 1]
      BY <1>2, <3>3, <3>4
    <3> QED
      BY <2>1, <2>3, <3>5 DEF Paired
  <2> QED
    BY <2>2, <2>3
<1>o. ASSUME NEW i \in DOMAIN x, NEW j \in DOMAIN x, i < j
      PROVE  x[i].turn < x[j].turn \/ (j % 2 = 0 /\ j = i + 1)
  <2>1. x[i] = h[i + k] /\ i + k \in DOMAIN h /\ x[j] = h[j + k] /\ j + k \in DOMAIN h
    BY <1>2, <1>4
  <2>i. i \in Int /\ j \in Int /\ k \in Int /\ i < j
    BY <1>n, <1>4, <1>o
  <2>2. (j + k) % 2 = j % 2
    BY <1>4
  <2>3. i + k < j + k /\ (j + k = (i + k) + 1 => j = i + 1)
    BY <2>i
  <2>4. h[i + k].turn < h[j + k].turn \/ ((j + k) % 2 = 0 /\ j + k = (i + k) + 1)
    BY <2>1, <2>3 DEF Paired
  <2> QED
    BY <2>1, <2>2, <2>3, <2>4
<1>6. x # <<>> => x[Len(x)] = h[n]
  <2>1. ASSUME x # <<>> PROVE Len(x) \in 1..(n - k) /\ Len(x) + k = n
    BY <1>n, <1>2, <2>1
  <2> QED
    BY <1>2, <2>1
<1> QED
  BY <1>2, <1>3, <1>5, <1>o, <1>6 DEF Paired, n

LEMMA SuffixOfSuffix ==
  ASSUME NEW h \in Seq(Message), NEW x, NEW y, EvenSuffix(x, h), EvenSuffix(y, x)
  PROVE  EvenSuffix(y, h)
<1>1. PICK k \in 0..Len(h) : k % 2 = 0 /\ x = SubSeq(h, k + 1, Len(h))
  BY DEF EvenSuffix
<1> DEFINE n == Len(h)
<1>2. /\ n \in Nat /\ k \in 0..n /\ x \in Seq(Message) /\ Len(x) = n - k
      /\ \A i \in 1..(n - k) : x[i] = h[i + k]
  BY <1>1, Suffix
<1>3. PICK j \in 0..Len(x) : j % 2 = 0 /\ y = SubSeq(x, j + 1, Len(x))
  BY DEF EvenSuffix
<1>4. y \in Seq(Message) /\ Len(y) = Len(x) - j /\ \A i \in 1..(Len(x) - j) : y[i] = x[i + j]
  BY <1>2, <1>3, Suffix
<1>5. k + j \in 0..n /\ (k + j) % 2 = 0
  <2> HIDE DEF n
  <2>1. k + j \in 0..n /\ k \in Int /\ j \in Int
    BY <1>2, <1>3
  <2>2. (k + j) % 2 = k % 2
    BY <1>3, <2>1, Parity
  <2> QED
    BY <1>1, <2>1, <2>2
<1> DEFINE z == SubSeq(h, (k + j) + 1, n)
<1>6. z \in Seq(Message) /\ Len(z) = n - (k + j) /\ \A i \in 1..(n - (k + j)) : z[i] = h[i + (k + j)]
  BY <1>5, Suffix
<1>z. z = SubSeq(h, (k + j) + 1, Len(h))
  OBVIOUS
<1> HIDE DEF z, n
<1>7. Len(y) = Len(z)
  BY <1>2, <1>3, <1>4, <1>6
<1>8. ASSUME NEW i \in 1..Len(y) PROVE y[i] = z[i]
  <2>1. i \in 1..(Len(x) - j) /\ i + j \in 1..(n - k) /\ (i + j) + k = i + (k + j) /\ i \in 1..(n - (k + j))
    BY <1>2, <1>3, <1>4, <1>8
  <2> QED
    BY <1>2, <1>4, <1>6, <2>1
<1>9. y = z
  BY <1>4, <1>6, <1>7, <1>8, SeqEqual
<1> QED
  BY <1>5, <1>9, <1>z DEF EvenSuffix, n

LEMMA WholeSuffix == ASSUME NEW h \in Seq(Message) PROVE EvenSuffix(h, h)
<1>1. 0 \in 0..Len(h) /\ 0 % 2 = 0 /\ h = SubSeq(h, 0 + 1, Len(h))
  BY SubSeqFull
<1> QED
  BY <1>1 DEF EvenSuffix

\* Newest cuts an even number: the bound is odd when a question is open.
LEMMA NewestSuffix ==
  ASSUME NEW h \in Seq(Message), Paired(h)
  PROVE  EvenSuffix(Newest(h), h)
<1> DEFINE room == 2 * MaxTurns - (IF LastIs("user", h) THEN 1 ELSE 0)
           keep == IF room < 2 THEN 1 ELSE room
           n == Len(h)
<1>1. MaxTurns \in Nat \ {0} /\ n \in Nat
  BY PipelineAssumption DEF PipelineAssumption
<1>2. Newest(h) = IF n > keep THEN SubSeq(h, n - keep + 1, n) ELSE h
  BY DEF Newest
<1>3. CASE n > keep
  <2>1. h # <<>> /\ n \in DOMAIN h
    BY <1>1, <1>3
  <2>2. LastIs("user", h) <=> n % 2 = 1
    BY <2>1 DEF LastIs, Last, Paired
  <2>3. keep = IF LastIs("user", h) THEN 2 * MaxTurns - 1 ELSE 2 * MaxTurns
    BY <1>1
  <2> HIDE DEF keep, n
  <2>4. n - keep \in 0..n /\ (n - keep) % 2 = 0
    <3>1. CASE LastIs("user", h)
      <4>1. keep = 2 * MaxTurns - 1 /\ keep \in Nat /\ keep % 2 = 1 /\ n % 2 = 1
        BY <1>1, <2>2, <2>3, <3>1, Parity
      <4> QED
        BY <1>1, <1>3, <4>1, Parity
    <3>2. CASE ~LastIs("user", h)
      <4>1. keep = 2 * MaxTurns /\ keep \in Nat /\ keep % 2 = 0 /\ n % 2 = 0
        BY <1>1, <2>2, <2>3, <3>2, Parity
      <4> QED
        BY <1>1, <1>3, <4>1, Parity
    <3> QED
      BY <3>1, <3>2
  <2> QED
    BY <1>2, <1>3, <2>4 DEF EvenSuffix, n
<1>4. CASE ~(n > keep)
  BY <1>2, <1>4, WholeSuffix
<1> QED
  BY <1>3, <1>4

LEMMA FromQuestionWhole ==
  ASSUME NEW h \in Seq(Message), Paired(h)
  PROVE  FromQuestion(h) = h
<1> DEFINE starts == {k \in DOMAIN h : k = Len(h) \/ h[k].role # "assistant"}
<1>1. CASE h = <<>>
  BY <1>1 DEF FromQuestion
<1>2. CASE h # <<>>
  <2>1. 1 \in DOMAIN h /\ h[1].role = "user" /\ \A j \in DOMAIN h : 1 <= j /\ j \in Nat
    BY <1>2 DEF Paired
  <2>2. 1 \in starts /\ \A j \in starts : 1 <= j
    BY <2>1
  <2>3. (CHOOSE k \in starts : \A j \in starts : k <= j) = 1
    <3>1. \A k \in starts : (\A j \in starts : k <= j) => k = 1
      BY <2>1, <2>2
    <3> HIDE DEF starts
    <3> QED
      BY <2>2, <3>1
  <2>4. FromQuestion(h) = SubSeq(h, 1, Len(h))
    BY <1>2, <2>3 DEF FromQuestion
  <2> QED
    BY <2>4, SubSeqFull
<1> QED
  BY <1>1, <1>2

\* The loop of the token budget as TokenTrims defines it, and the one function
\* that satisfies its equation on a paired conversation: it removes pairs.
PairAt(h, k) == k < Len(h) /\ h[k].role = "user" /\ h[k + 1].role = "assistant"
Loop(h, goes) ==
  goes = [k \in 0..Len(h) |->
            \/ k = 0
            \/ k >= 1 /\ Len(h) > k /\ goes[k - 1] /\ ~PairAt(h, k)
            \/ k >= 2 /\ goes[k - 2] /\ PairAt(h, k - 1)]
Goes(h) == CHOOSE goes : Loop(h, goes)

LEMMA MessageParts ==
  \A m \in Message : m.role \in {"user", "assistant"} /\ m.turn \in Turns
  BY DEF Message

LEMMA PairPlaces ==
  ASSUME NEW h \in Seq(Message), Paired(h), NEW k \in 1..Len(h)
  PROVE  PairAt(h, k) <=> k < Len(h) /\ k % 2 = 1
<1>1. CASE k < Len(h)
  <2>1. k \in DOMAIN h /\ k + 1 \in DOMAIN h /\ k \in Int
    BY <1>1
  <2>2. (h[k].role = "user") <=> k % 2 = 1
    BY <2>1 DEF Paired
  <2>3. (h[k + 1].role = "user") <=> (k + 1) % 2 = 1
    BY <2>1 DEF Paired
  <2>4. (k % 2 = 0 /\ (k + 1) % 2 = 1) \/ (k % 2 = 1 /\ (k + 1) % 2 = 0)
    <3>1. k \in Int
      BY <2>1
    <3> QED
      BY <3>1, Parity
  <2>5. h[k + 1].role \in {"user", "assistant"}
    <3>1. h[k + 1] \in Message
      BY <2>1
    <3> QED
      BY <3>1, MessageParts
  <2> QED
    BY <1>1, <2>2, <2>3, <2>4, <2>5 DEF PairAt
<1>2. CASE ~(k < Len(h))
  BY <1>2 DEF PairAt
<1> QED
  BY <1>1, <1>2

LEMMA LoopSolved ==
  ASSUME NEW h \in Seq(Message), Paired(h)
  PROVE  Loop(h, [k \in 0..Len(h) |-> k % 2 = 0])
<1> DEFINE n == Len(h)
           even == [k \in 0..n |-> k % 2 = 0]
<1>e. \A k \in 0..n : even[k] <=> k % 2 = 0
  OBVIOUS
<1>v. even = [k \in 0..n |-> k % 2 = 0]
  OBVIOUS
<1>z. 0 % 2 = 0 /\ 1 % 2 = 1
  OBVIOUS
<1> HIDE DEF even
<1>1. ASSUME NEW k \in 0..n
      PROVE  even[k] <=> \/ k = 0
                         \/ k >= 1 /\ n > k /\ even[k - 1] /\ ~PairAt(h, k)
                         \/ k >= 2 /\ even[k - 2] /\ PairAt(h, k - 1)
  <2>1. k \in Int /\ k <= n /\ 0 <= k /\ n \in Nat
    OBVIOUS
  <2>2. CASE k = 0
    BY <1>e, <1>z, <2>2
  <2>3. CASE k % 2 = 1
    <3>1. k >= 1 /\ (k - 1) % 2 = 0
      BY <2>1, <2>3, Parity
    <3>2. n > k => PairAt(h, k)
      BY <2>3, <3>1, PairPlaces
    <3>3. k >= 2 => ~PairAt(h, k - 1)
      <4>1. k >= 2 => k - 1 \in 1..n
        BY <2>1
      <4> QED
        BY <3>1, <4>1, PairPlaces
    <3>4. ~even[k]
      BY <1>e, <2>3
    <3> QED
      BY <2>3, <3>1, <3>2, <3>3, <3>4, <1>z
  <2>4. CASE k % 2 = 0 /\ k # 0
    <3>1. k >= 2
      <4>1. k # 1
        BY <1>z, <2>4
      <4> QED
        BY <2>1, <2>4, <4>1
    <3>2. k - 1 \in 1..n /\ k - 1 < n /\ k - 2 \in 0..n
      BY <2>1, <3>1
    <3>3. (k - 1) % 2 = 1 /\ (k - 2) % 2 = 0
      <4>1. (k - 1) % 2 = 1 /\ k - 1 \in Int /\ (k - 1) - 1 = k - 2
        BY <2>1, <2>4, Parity
      <4>2. ((k - 1) - 1) % 2 = 0
        BY <4>1, Parity
      <4> QED
        BY <4>1, <4>2
    <3>4. PairAt(h, k - 1)
      BY <3>2, <3>3, PairPlaces
    <3>5. even[k] /\ even[k - 2]
      BY <1>e, <2>4, <3>2, <3>3
    <3> QED
      BY <3>1, <3>4, <3>5
  <2> QED
    BY <2>1, <2>2, <2>3, <2>4, Parity
<1>2. even = [k \in 0..n |->
                \/ k = 0
                \/ k >= 1 /\ n > k /\ even[k - 1] /\ ~PairAt(h, k)
                \/ k >= 2 /\ even[k - 2] /\ PairAt(h, k - 1)]
  <2> DEFINE body(k) == \/ k = 0
                        \/ k >= 1 /\ n > k /\ even[k - 1] /\ ~PairAt(h, k)
                        \/ k >= 2 /\ even[k - 2] /\ PairAt(h, k - 1)
  <2>1. \A k \in 0..n : body(k) \in BOOLEAN /\ even[k] \in BOOLEAN /\ (even[k] <=> body(k))
    <3>1. \A k \in 0..n : even[k] \in BOOLEAN
      BY DEF even
    <3>2. \A k : body(k) \in BOOLEAN
      OBVIOUS
    <3> QED
      BY <1>1, <3>1, <3>2
  <2> HIDE DEF body
  <2>2. \A k \in 0..n : even[k] = body(k)
    BY <2>1
  <2>3. even = [k \in 0..n |-> even[k]]
    BY DEF even
  <2>4. [k \in 0..n |-> even[k]] = [k \in 0..n |-> body(k)]
    BY <2>2, Zenon
  <2> QED
    BY <2>3, <2>4 DEF body
<1> QED
  BY <1>2, <1>v DEF Loop

LEMMA TrimsSuffix ==
  ASSUME NEW h \in Seq(Message), Paired(h), NEW x \in TokenTrims(h)
  PROVE  EvenSuffix(x, h)
<1> DEFINE n == Len(h)
           goes == Goes(h)
<1>1. Loop(h, goes)
  BY LoopSolved DEF Goes
<1>2. TokenTrims(h) = {SubSeq(h, k + 1, n) : k \in {m \in 0..n : goes[m]}}
  BY DEF TokenTrims, Goes, Loop, PairAt
<1>3. PICK k \in 0..n : goes[k] /\ x = SubSeq(h, k + 1, n)
  BY <1>2
<1> HIDE DEF goes
<1>4. k \in Int /\ k <= n /\ 0 <= k /\ n \in Nat
  OBVIOUS
<1>5. ASSUME k % 2 = 1 PROVE FALSE
  <2>1. \/ k = 0
        \/ k >= 1 /\ n > k /\ goes[k - 1] /\ ~PairAt(h, k)
        \/ k >= 2 /\ goes[k - 2] /\ PairAt(h, k - 1)
    BY <1>1, <1>3 DEF Loop
  <2>2. (k - 1) % 2 = 0 /\ k # 0
    BY <1>4, <1>5, Parity
  <2>3. n > k /\ k >= 1 => PairAt(h, k)
    BY <1>4, <1>5, PairPlaces
  <2>4. k >= 2 => ~PairAt(h, k - 1)
    <3>1. k >= 2 => k - 1 \in 1..n
      BY <1>4
    <3> QED
      BY <2>2, <3>1, PairPlaces
  <2> QED
    BY <2>1, <2>2, <2>3, <2>4
<1>6. k % 2 = 0
  BY <1>4, <1>5, Parity
<1> QED
  BY <1>3, <1>6 DEF EvenSuffix

\* boundedHistory removes whole pairs from the front, whatever its bounds.
LEMMA BoundedSuffix ==
  ASSUME NEW h \in Seq(Message), Paired(h), NEW x \in BoundedHistories(h)
  PROVE  EvenSuffix(x, h)
<1>1. EvenSuffix(Newest(h), h)
  BY NewestSuffix
<1>2. Newest(h) \in Seq(Message) /\ Paired(Newest(h))
  BY <1>1, SuffixPaired
<1>3. x \in TokenTrims(Newest(h))
  BY <1>2, FromQuestionWhole DEF BoundedHistories
<1>4. EvenSuffix(x, Newest(h))
  BY <1>2, <1>3, TrimsSuffix
<1> QED
  BY <1>1, <1>4, SuffixOfSuffix

\* A question or an answer added at the end keeps a conversation paired.
LEMMA PairedAppend ==
  ASSUME NEW h \in Seq(Message), Paired(h), NEW m \in Message,
         (m.role = "user") = (Len(h) % 2 = 0),
         h # <<>> => IF Len(h) % 2 = 1 THEN m.turn = h[Len(h)].turn ELSE m.turn > h[Len(h)].turn
  PROVE  /\ Append(h, m) \in Seq(Message) /\ Paired(Append(h, m))
         /\ Len(Append(h, m)) = Len(h) + 1 /\ Append(h, m)[Len(h) + 1] = m
         /\ \A i \in DOMAIN Append(h, m) : (i \in DOMAIN h /\ Append(h, m)[i] = h[i]) \/ Append(h, m)[i] = m
<1> DEFINE x == Append(h, m)
           n == Len(h)
<1>1. /\ x \in Seq(Message) /\ Len(x) = n + 1 /\ n \in Nat /\ DOMAIN x = 1..(n + 1) /\ DOMAIN h = 1..n
      /\ \A i \in 1..n : x[i] = h[i]
      /\ x[n + 1] = m
  BY AppendProperties
<1>e. h # <<>> <=> n # 0
  OBVIOUS
<1>h. (m.role = "user") = (n % 2 = 0) /\ (n # 0 => IF n % 2 = 1 THEN m.turn = h[n].turn ELSE m.turn > h[n].turn)
  BY <1>e
<1>q. Paired(x) => /\ Append(h, m) \in Seq(Message) /\ Paired(Append(h, m))
         /\ Len(Append(h, m)) = Len(h) + 1 /\ Append(h, m)[Len(h) + 1] = m
         /\ \A i \in DOMAIN Append(h, m) : (i \in DOMAIN h /\ Append(h, m)[i] = h[i]) \/ Append(h, m)[i] = m
  BY <1>1
<1> HIDE DEF x, n
<1>2. ASSUME NEW i \in DOMAIN x
      PROVE  /\ (x[i].role = "user") = (i % 2 = 1)
             /\ i % 2 = 0 => x[i].turn = x[i - 1].turn
  <2>1. CASE i \in 1..n
    <3>1. x[i] = h[i] /\ i \in DOMAIN h
      BY <1>1, <2>1
    <3>2. i % 2 = 0 => i - 1 \in 1..n
      <4>1. 1 % 2 = 1
        OBVIOUS
      <4>2. i % 2 = 0 => i # 1
        BY <4>1
      <4> QED
        BY <1>1, <2>1, <4>2
    <3>3. i % 2 = 0 => x[i - 1] = h[i - 1]
      BY <1>1, <3>2
    <3> QED
      BY <3>1, <3>3 DEF Paired
  <2>2. CASE i = n + 1
    <3>1. (n % 2 = 0 /\ (n + 1) % 2 = 1) \/ (n % 2 = 1 /\ (n + 1) % 2 = 0)
      <4>1. n \in Int
        BY <1>1
      <4> QED
        BY <4>1, Parity
    <3>2. x[i] = m
      BY <1>1, <2>2
    <3>z. 0 # 1
      OBVIOUS
    <3>4. CASE n % 2 = 0 /\ (n + 1) % 2 = 1
      <4>1. i % 2 = 1 /\ m.role = "user"
        BY <1>h, <2>2, <3>4, Zenon
      <4>2. i % 2 # 0
        BY <3>z, <4>1
      <4> QED
        BY <3>2, <4>1, <4>2
    <3>5. CASE n % 2 = 1 /\ (n + 1) % 2 = 0
      <4>1. i % 2 = 0
        BY <2>2, <3>5
      <4>2. n % 2 # 0 /\ n # 0
        <5>1. 0 % 2 = 0
          OBVIOUS
        <5> QED
          BY <3>5, <5>1
      <4>3. m.role # "user" /\ m.turn = h[n].turn
        BY <1>h, <3>5, <4>2
      <4>4. x[i - 1] = h[n]
        BY <1>1, <2>2, <4>2
      <4> QED
        BY <3>2, <4>1, <4>3, <4>4
    <3> QED
      BY <3>1, <3>4, <3>5
  <2> QED
    BY <1>1, <2>1, <2>2
<1>3. ASSUME NEW i \in DOMAIN x, NEW j \in DOMAIN x, i < j
      PROVE  x[i].turn < x[j].turn \/ (j % 2 = 0 /\ j = i + 1)
  <2>1. CASE j \in 1..n
    <3>1. i \in 1..n /\ x[i] = h[i] /\ x[j] = h[j] /\ i \in DOMAIN h /\ j \in DOMAIN h
      BY <1>1, <1>3, <2>1
    <3> QED
      BY <1>3, <3>1 DEF Paired
  <2>2. CASE j = n + 1
    <3>1. i \in 1..n /\ n \in 1..n /\ n # 0 /\ x[i] = h[i] /\ x[j] = m /\ i \in DOMAIN h /\ n \in DOMAIN h
      BY <1>1, <1>3, <2>2
    <3>2. h[i].turn \in Nat /\ h[n].turn \in Nat /\ m.turn \in Nat
      BY <3>1, MessageParts DEF Turns
    <3>3. i < n => h[i].turn < h[n].turn \/ (n % 2 = 0 /\ n = i + 1)
      BY <3>1 DEF Paired
    <3>4. n % 2 = 0 /\ n = i + 1 => h[i].turn = h[n].turn
      <4>1. ASSUME n % 2 = 0, n = i + 1 PROVE h[i].turn = h[n].turn
        <5>1. h[n].turn = h[n - 1].turn
          BY <3>1, <4>1 DEF Paired
        <5>2. n - 1 = i
          BY <3>1, <4>1
        <5> QED
          BY <5>1, <5>2
      <4> QED
        BY <4>1
    <3>5. n % 2 = 0 \/ n % 2 = 1
      <4>1. n \in Int
        BY <1>1
      <4> QED
        BY <4>1, Parity
    <3>6. CASE n % 2 = 0
      <4>1. m.turn > h[n].turn
        <5>1. n % 2 # 1
          BY <3>6
        <5> QED
          BY <1>h, <3>1, <5>1
      <4>2. h[i].turn <= h[n].turn
        BY <3>1, <3>2, <3>3, <3>4
      <4> QED
        BY <3>1, <3>2, <4>1, <4>2
    <3>7. CASE n % 2 = 1
      <4>1. m.turn = h[n].turn
        BY <1>h, <3>1, <3>7
      <4>2. n % 2 # 0
        BY <3>7
      <4>3. CASE i < n
        BY <3>1, <3>2, <3>3, <4>1, <4>2, <4>3
      <4>4. CASE i = n
        <5>1. n \in Int
          BY <1>1
        <5>2. (n + 1) % 2 = 0
          BY <3>7, <5>1, Parity
        <5>3. j % 2 = 0 /\ j = i + 1
          BY <2>2, <4>4, <5>2
        <5> QED
          BY <5>3
      <4> QED
        BY <3>1, <4>3, <4>4
    <3> QED
      BY <3>5, <3>6, <3>7
  <2> QED
    BY <1>1, <2>1, <2>2
<1> QED
  BY <1>2, <1>3, <1>q DEF Paired

\* Discarding takes the last question with its answer away, and with them all
\* that there is of their turn.
LEMMA LastPairGoes ==
  ASSUME NEW h \in Seq(Message), Paired(h), Len(h) % 2 = 0
  PROVE  /\ WithoutLastPair(h) \in Seq(Message) /\ Paired(WithoutLastPair(h))
         /\ Len(WithoutLastPair(h)) % 2 = 0
         /\ \A i \in DOMAIN WithoutLastPair(h) : i \in DOMAIN h /\ WithoutLastPair(h)[i] = h[i]
         /\ \A i \in DOMAIN WithoutLastPair(h) : h[i].turn < h[Len(h)].turn
<1> DEFINE n == Len(h)
<1>1. CASE h = <<>>
  BY <1>1 DEF WithoutLastPair, LastIs, Paired
<1>2. CASE h # <<>>
  <2>1. n \in Nat /\ n >= 2
    <3>1. n \in Nat /\ n # 0
      BY <1>2
    <3>2. 1 % 2 = 1
      OBVIOUS
    <3>3. ASSUME n = 1 PROVE FALSE
      <4>1. Len(h) % 2 = 1 % 2
        BY <3>3
      <4> QED
        BY <3>2, <4>1
    <3> QED
      BY <3>1, <3>3
  <2>2. n \in DOMAIN h /\ n - 1 \in DOMAIN h /\ n \in Int
    BY <2>1
  <2>3. (n - 1) % 2 = 1 /\ n % 2 = 0
    BY <2>2, Parity
  <2>4. h[n].role = "assistant" /\ h[n - 1].role = "user"
    <3>1. h[n] \in Message /\ h[n - 1] \in Message
      BY <2>2
    <3> QED
      BY <2>2, <2>3, <3>1, MessageParts DEF Paired
  <2>5. LastIs("assistant", h)
    BY <1>2, <2>4 DEF LastIs, Last
  <2>6. Front(h) \in Seq(Message) /\ Len(Front(h)) = n - 1 /\ \A i \in 1..(n - 1) : Front(h)[i] = h[i]
    BY <2>1 DEF Front
  <2>7. LastIs("user", Front(h))
    BY <2>1, <2>4, <2>6 DEF LastIs, Last
  <2> DEFINE f == Front(h)
             x == Front(f)
  <2>8. x \in Seq(Message) /\ Len(x) = n - 2 /\ \A i \in 1..(n - 2) : x[i] = h[i]
    <3> HIDE DEF f
    <3>1. x \in Seq(Message) /\ Len(x) = n - 2 /\ \A i \in 1..(n - 2) : x[i] = f[i]
      BY <2>1, <2>6 DEF Front, f
    <3> QED
      BY <2>1, <2>6, <3>1 DEF f
  <2>9. WithoutLastPair(h) = x
    BY <2>5, <2>7 DEF WithoutLastPair
  <2> HIDE DEF x, n
  <2>10. Len(x) % 2 = 0
    BY <2>2, <2>3, <2>8, Parity
  <2>11. \A i \in DOMAIN x : i \in DOMAIN h /\ x[i] = h[i]
    BY <2>1, <2>8 DEF n
  <2>12. Paired(x)
    <3>1. ASSUME NEW i \in DOMAIN x, i % 2 = 0 PROVE x[i - 1] = h[i - 1]
      <4>1. 1 % 2 = 1
        OBVIOUS
      <4>2. i # 1
        BY <3>1, <4>1
      <4>3. i - 1 \in 1..(n - 2)
        BY <2>1, <2>8, <3>1, <4>2
      <4> QED
        BY <2>8, <4>3
    <3> QED
      BY <2>11, <3>1 DEF Paired
  <2>13. x \in Seq(Message) /\ Len(x) = Len(h) - 2 /\ \A i \in DOMAIN x : i \in DOMAIN h /\ x[i] = h[i]
    BY <2>8, <2>11 DEF n
  <2>14. ASSUME NEW i \in DOMAIN x PROVE h[i].turn < h[Len(h)].turn
    <3>1. i \in Nat /\ i <= n - 2 /\ i \in DOMAIN h
      BY <2>1, <2>8, <2>11
    <3>2. i < n /\ n # i + 1
      BY <2>1, <3>1
    <3> QED
      BY <2>2, <3>1, <3>2 DEF Paired, n
  <2> QED
    BY <2>9, <2>10, <2>12, <2>13, <2>14
<1> QED
  BY <1>1, <1>2

-----------------------------------------------------------------------------
(* The pipeline: the inductive invariant.                                  *)

\* What the session has heard of the turn: while the input grows, the stream
\* has heard all of it or the turn is for the batch path.
InputInv ==
  /\ pcm = <<>> => ~turnBatchOnly
  /\ asr.open \/ asr = NoStream
  /\ closed => caller.at \in {"join", "closed"} /\ ~asr.open
  /\ pcm # <<>> /\ ~turnBatchOnly => asr.open \/ closed
  /\ pcm # <<>> => phase = "listening" /\ job.at = "none"
  /\ caller.at \in {"closeStream", "wait", "discard", "drain", "closeSession"} => pcm = <<>>
  /\ caller.at \in {"append", "disable"} => pcm # <<>> /\ ~turnBatchOnly
  /\ caller.at = "append" => pcm = Append(asr.fed, turn)
  /\ asr.open /\ caller.at \notin {"append", "disable"} => asr.fed = IF turnBatchOnly THEN <<>> ELSE pcm

\* A job that still works is the answer of the actor's turn, which nobody has
\* cancelled, and has not yet sent its last event.
Working == job.at \notin {"none", "clear"}
Attended ==
  Working =>
    /\ phase = "answering" /\ job.turn = turn /\ turn \in Turns \ dropped
    /\ caller.at \in {"rest", "wait", "closeSession", "join"}
    /\ \A i \in DOMAIN events : ~events[i].last
Quiet ==
  /\ phase # "answering" => events = <<>>
  /\ \A i \in DOMAIN events : events[i].last => i = Len(events)
Places ==
  /\ activeDone <=> job.at # "none"
  /\ phase = "answering" => turn # 0
  /\ phase = "listening" => turn \in Turns \ dropped
  /\ \A t \in dropped : t <= turn
JobInv == Attended /\ Quiet /\ Places /\ RealtimeHearsWholeTurn

\* What the model is asked: a conversation that ends with the question.
Asked(h) ==
  /\ Paired(h) /\ Len(h) % 2 = 1 /\ h[Len(h)] = [role |-> "user", turn |-> turn]
  /\ \A i \in DOMAIN h : h[i].turn \notin dropped

BeforeAnswer == job.at \in {"start", "realtime", "batch", "recognized"}
Remembered ==
  \A i \in DOMAIN history :
    /\ history[i].turn \notin dropped
    /\ history[i].turn <= turn
    /\ history[i].turn = turn => lastResponseDiscardable
Older == phase = "listening" \/ BeforeAnswer => \A i \in DOMAIN history : history[i].turn < turn
HistoryInv ==
  /\ Paired(history) /\ Len(history) % 2 = 0
  /\ Remembered /\ Older
  /\ job.at \in {"answer", "store"} => Asked(job.history)

PipelineInv == TypeOK /\ InputInv /\ JobInv /\ HistoryInv

-----------------------------------------------------------------------------
(* The pipeline: types.                                                    *)

LEMMA AudioSeq == \A s : s \in Audio <=> s \in Seq(Turns) /\ Len(s) <= MaxPcm
<1> USE PipelineAssumption DEF PipelineAssumption
<1>1. ASSUME NEW s \in Audio PROVE s \in Seq(Turns) /\ Len(s) <= MaxPcm
  <2>1. PICK n \in 0..MaxPcm : s \in [1..n -> Turns]
    BY DEF Audio
  <2>2. n \in Nat /\ n <= MaxPcm
    OBVIOUS
  <2>3. s \in Seq(Turns)
    BY <2>1, <2>2, SeqDef
  <2>4. 1..Len(s) = 1..n /\ Len(s) \in Nat
    BY <2>1, <2>2, <2>3, LenProperties
  <2>5. Len(s) <= MaxPcm
    <3>1. Len(s) > n => Len(s) \in 1..Len(s) /\ Len(s) \notin 1..n
      BY <2>2, <2>4
    <3> QED
      BY <2>2, <2>4, <3>1
  <2> QED
    BY <2>3, <2>5
<1>2. ASSUME NEW s \in Seq(Turns), Len(s) <= MaxPcm PROVE s \in Audio
  <2>1. Len(s) \in 0..MaxPcm /\ s \in [1..Len(s) -> Turns]
    BY <1>2, LenProperties
  <2> QED
    BY <2>1 DEF Audio
<1> QED
  BY <1>1, <1>2

LEMMA AudioParts ==
  /\ <<>> \in Audio
  /\ \A s \in Audio : s \in Seq(Turns) /\ Len(s) \in Nat
  /\ \A s \in Audio, t \in Turns : Len(s) < MaxPcm => Append(s, t) \in Audio
  /\ NoStream \in Stream /\ FreshStream \in Stream
<1> USE PipelineAssumption DEF PipelineAssumption
<1>1. <<>> \in Audio
  <2>1. <<>> \in Seq(Turns) /\ Len(<<>>) = 0
    BY EmptySeq
  <2>2. 0 <= MaxPcm
    OBVIOUS
  <2> QED
    BY <2>1, <2>2, AudioSeq
<1>2. \A s \in Audio : s \in Seq(Turns) /\ Len(s) \in Nat
  BY AudioSeq
<1>3. \A s \in Audio, t \in Turns : Len(s) < MaxPcm => Append(s, t) \in Audio
  <2>1. ASSUME NEW s \in Audio, NEW t \in Turns, Len(s) < MaxPcm PROVE Append(s, t) \in Audio
    <3>1. s \in Seq(Turns) /\ Len(s) \in Nat
      BY <1>2
    <3>2. Append(s, t) \in Seq(Turns) /\ Len(Append(s, t)) = Len(s) + 1
      BY <3>1, AppendProperties
    <3>3. Len(s) + 1 <= MaxPcm
      BY <2>1, <3>1
    <3> QED
      BY <3>2, <3>3, AudioSeq
  <2> QED
    BY <2>1
<1> QED
  BY <1>1, <1>2, <1>3 DEF NoStream, FreshStream, Stream

-----------------------------------------------------------------------------
(* The pipeline: what a turn asks and what it leaves behind.               *)

LEMMA AskedConversation ==
  ASSUME PipelineInv, JobAt("recognized"),
         NEW h \in BoundedHistories(Append(history, [role |-> "user", turn |-> job.turn]))
  PROVE  h \in Seq(Message) /\ Asked(h)
<1> DEFINE m == [role |-> "user", turn |-> job.turn]
           whole == Append(history, m)
<1>1. job.turn = turn /\ turn \in Turns \ dropped
  BY DEF JobAt, PipelineInv, JobInv, Attended, Working
<1>2. /\ history \in Seq(Message) /\ Paired(history) /\ Len(history) % 2 = 0 /\ m \in Message
      /\ \A i \in DOMAIN history : history[i].turn < turn /\ history[i].turn \notin dropped
  BY <1>1 DEF JobAt, PipelineInv, HistoryInv, Remembered, Older, BeforeAnswer, TypeOK, Message
<1>3. history # <<>> => IF Len(history) % 2 = 1 THEN m.turn = history[Len(history)].turn
                        ELSE m.turn > history[Len(history)].turn
  <2>1. ASSUME history # <<>> PROVE m.turn > history[Len(history)].turn
    <3>1. Len(history) \in DOMAIN history
      BY <1>2, <2>1
    <3>2. history[Len(history)].turn < turn /\ history[Len(history)].turn \in Turns /\ turn \in Turns
      BY <1>1, <1>2, <3>1, MessageParts
    <3> QED
      BY <1>1, <3>2 DEF Turns
  <2>2. Len(history) % 2 # 1
    BY <1>2
  <2> QED
    BY <2>1, <2>2
<1>4. (m.role = "user") = (Len(history) % 2 = 0)
  BY <1>2
<1>5. /\ whole \in Seq(Message) /\ Paired(whole)
      /\ Len(whole) = Len(history) + 1 /\ whole[Len(history) + 1] = m
      /\ \A i \in DOMAIN whole : (i \in DOMAIN history /\ whole[i] = history[i]) \/ whole[i] = m
  <2> HIDE DEF m
  <2> QED
    BY <1>2, <1>3, <1>4, PairedAppend
<1>6. Len(whole) % 2 = 1
  BY <1>2, <1>5, Parity
<1>7. \A i \in DOMAIN whole : whole[i].turn \notin dropped
  BY <1>1, <1>2, <1>5
<1> HIDE DEF whole
<1>8. EvenSuffix(h, whole)
  BY <1>5, BoundedSuffix DEF whole
<1>9. /\ h \in Seq(Message) /\ Paired(h) /\ Len(h) % 2 = 1
      /\ \A i \in DOMAIN h : \E j \in DOMAIN whole : h[i] = whole[j]
      /\ h # <<>> => h[Len(h)] = whole[Len(whole)]
  BY <1>5, <1>6, <1>8, SuffixPaired
<1>10. h # <<>>
  <2>1. 0 % 2 = 0
    OBVIOUS
  <2> QED
    BY <1>9, <2>1
<1> QED
  BY <1>1, <1>5, <1>7, <1>9, <1>10 DEF Asked

LEMMA StoredConversation ==
  ASSUME PipelineInv, JobAt("store"),
         NEW h \in BoundedHistories(Append(job.history, [role |-> "assistant", turn |-> job.turn]))
  PROVE  /\ h \in Seq(Message) /\ Paired(h) /\ Len(h) % 2 = 0
         /\ \A i \in DOMAIN h : h[i].turn \notin dropped /\ h[i].turn <= turn
<1> DEFINE m == [role |-> "assistant", turn |-> job.turn]
           asked == job.history
           whole == Append(asked, m)
           n == Len(asked)
<1>1. job.turn = turn /\ turn \in Turns \ dropped /\ turn \in Nat
  BY DEF JobAt, PipelineInv, JobInv, Attended, Working, Turns
<1>2. asked \in Seq(Message) /\ Paired(asked) /\ n % 2 = 1 /\ m \in Message /\ n \in Nat
  <2>1. asked \in Seq(Message)
    BY DEF PipelineInv, TypeOK
  <2>2. Asked(asked)
    BY DEF JobAt, PipelineInv, HistoryInv
  <2>3. Paired(asked) /\ n % 2 = 1
    BY <2>2 DEF Asked
  <2>4. m \in Message
    BY <1>1 DEF Message
  <2>5. n \in Nat
    BY <2>1
  <2> QED
    BY <2>1, <2>3, <2>4, <2>5
<1>3. /\ asked[n] = [role |-> "user", turn |-> turn]
      /\ \A i \in DOMAIN asked : asked[i].turn \notin dropped
  BY DEF JobAt, PipelineInv, HistoryInv, Asked
<1>4. asked # <<>> => IF n % 2 = 1 THEN m.turn = asked[n].turn ELSE m.turn > asked[n].turn
  BY <1>1, <1>2, <1>3
<1>5. (m.role = "user") = (n % 2 = 0)
  <2>1. m.role # "user"
    OBVIOUS
  <2> HIDE DEF n
  <2>2. n % 2 # 0
    <3>1. n % 2 = 1 /\ n \in Int
      BY <1>2
    <3> QED
      BY <3>1, Parity
  <2> HIDE DEF m
  <2> QED
    BY <2>1, <2>2
<1>6. /\ whole \in Seq(Message) /\ Paired(whole) /\ Len(whole) = n + 1
      /\ \A i \in DOMAIN whole : (i \in DOMAIN asked /\ whole[i] = asked[i]) \/ whole[i] = m
  <2> HIDE DEF m, asked
  <2> QED
    BY <1>2, <1>4, <1>5, PairedAppend
<1>7. Len(whole) % 2 = 0
  <2> HIDE DEF n, whole
  <2>1. n \in Int /\ n % 2 = 1
    BY <1>2
  <2>2. (n + 1) % 2 = 0
    BY <2>1, Parity
  <2> QED
    BY <1>6, <2>2
<1>8. \A i \in DOMAIN asked : asked[i].turn <= turn
  <2> HIDE DEF asked
  <2>1. ASSUME NEW i \in DOMAIN asked PROVE asked[i].turn <= asked[n].turn
    <3>1. i \in 1..n /\ n \in DOMAIN asked
      BY <1>2, <2>1
    <3>2. asked[i].turn \in Nat /\ asked[n].turn \in Nat
      BY <1>2, <2>1, <3>1, MessageParts DEF Turns
    <3>3. n % 2 # 0
      BY <1>2
    <3>4. i < n => asked[i].turn < asked[n].turn
      BY <1>2, <3>1, <3>3 DEF Paired
    <3> QED
      BY <3>1, <3>2, <3>4
  <2>2. asked[n].turn = turn
    BY <1>3
  <2> QED
    BY <2>1, <2>2
<1>9. \A i \in DOMAIN whole : whole[i].turn \notin dropped /\ whole[i].turn <= turn
  BY <1>1, <1>3, <1>6, <1>8
<1> HIDE DEF whole
<1>10. EvenSuffix(h, whole)
  BY <1>6, BoundedSuffix DEF whole
<1>11. /\ h \in Seq(Message) /\ Paired(h) /\ Len(h) % 2 = 0
       /\ \A i \in DOMAIN h : \E j \in DOMAIN whole : h[i] = whole[j]
  <2>1. Len(h) % 2 = Len(whole) % 2
    BY <1>6, <1>10, SuffixPaired
  <2>2. h \in Seq(Message) /\ Paired(h) /\ \A i \in DOMAIN h : \E j \in DOMAIN whole : h[i] = whole[j]
    BY <1>6, <1>10, SuffixPaired
  <2> QED
    BY <1>7, <2>1, <2>2, Zenon
<1> QED
  BY <1>9, <1>11

LEMMA InitPipelineInv == Init => PipelineInv
<1> SUFFICES ASSUME Init PROVE PipelineInv
  OBVIOUS
<1>1. /\ <<>> \in Seq(Message) /\ <<>> \in Seq(Event) /\ Len(<<>>) = 0 /\ NoStream \in Stream
      /\ <<>> \in Audio /\ 0 \in 0..MaxTurn /\ EventCap \in Nat
  BY AudioParts, PipelineAssumption DEF PipelineAssumption
<1>2. TypeOK
  <2>1. caller \in [at : {"rest", "append", "disable", "closeStream", "wait", "discard",
                        "discardLast", "drain", "closeSession", "join", "closed"}, asr : Stream]
    BY <1>1 DEF Init, AtRest
  <2>2. job \in [at : JobPlaces, turn : 0..MaxTurn, pcm : Audio, asr : Stream, history : Seq(Message)]
    BY <1>1 DEF Init, NoJob, JobPlaces
  <2>3. Len(events) <= EventCap
    BY <1>1 DEF Init
  <2> QED
    BY <1>1, <2>1, <2>2, <2>3 DEF Init, TypeOK
<1>3. InputInv
  BY DEF Init, InputInv, AtRest, NoStream, NoJob
<1>4. JobInv
  BY DEF Init, JobInv, Attended, Quiet, Places, Working, RealtimeHearsWholeTurn, NoJob, NoStream
<1>5. HistoryInv
  <2>1. history = <<>> /\ Len(history) = 0 /\ 0 % 2 = 0
    BY DEF Init
  <2> QED
    BY <2>1 DEF Init, HistoryInv, Paired, Remembered, Older, NoJob
<1> QED
  BY <1>2, <1>3, <1>4, <1>5 DEF PipelineInv

LEMMA CallerTypes == ASSUME PipelineInv, Caller PROVE TypeOK'
<1> USE AudioParts DEF Goto, AtCall, AtRest
<1>t. TypeOK /\ turn \in 0..MaxTurn
  BY DEF PipelineInv, TypeOK
<1>1. CASE StartTurn
  <2>1. turn' \in 0..MaxTurn
    BY <1>1, <1>t, PipelineAssumption DEF StartTurn, PipelineAssumption
  <2> QED
    BY <1>1, <1>t, <2>1 DEF StartTurn, TypeOK, Input, Memory, Job
<1>2. CASE SendAudio
  <2>1. turn \in Turns /\ Append(pcm, turn) \in Audio
    <3>1. turn \in Turns
      BY <1>2 DEF SendAudio, PipelineInv, JobInv, Places
    <3> QED
      BY <1>2, <1>t, <3>1 DEF SendAudio, TypeOK
  <2> QED
    BY <1>2, <1>t, <2>1 DEF SendAudio, TypeOK, Job
<1>3. CASE AppendToStream
  <2>1. pcm = Append(asr.fed, turn) /\ pcm \in Audio
    BY <1>3, <1>t DEF AppendToStream, PipelineInv, InputInv, TypeOK
  <2>2. [asr EXCEPT !.fed = Append(@, turn)] \in Stream
    BY <1>t, <2>1 DEF TypeOK, Stream
  <2>3. asr' \in Stream
    BY <1>3, <1>t, <2>2 DEF AppendToStream, TypeOK
  <2> QED
    BY <1>3, <1>t, <2>3 DEF AppendToStream, TypeOK, Job, Memory
<1>4. CASE DisableRealtimeASR
  BY <1>4, <1>t DEF DisableRealtimeASR, TypeOK, Job, Memory
<1>5. CASE Commit
  <2>1. /\ job'.at = "start" /\ job'.turn = turn /\ job'.pcm = pcm /\ job'.asr \in {NoStream, asr} /\ job'.history = <<>>
        /\ job' = [at |-> "start", turn |-> turn, pcm |-> pcm, asr |-> job'.asr, history |-> <<>>]
        /\ asr' \in {NoStream, asr}
    BY <1>5 DEF Commit
  <2>2. job' \in [at : JobPlaces, turn : 0..MaxTurn, pcm : Audio, asr : Stream, history : Seq(Message)]
    BY <1>t, <2>1 DEF TypeOK, JobPlaces
  <2>3. asrPreparing' \in BOOLEAN /\ opener' \in {"none", "opening"}
    BY <1>5, <1>t DEF Commit, Launch, TypeOK
  <2> QED
    BY <1>5, <1>t, <2>1, <2>2, <2>3 DEF Commit, TypeOK, Memory
<1>6. CASE Cancel
  <2>1. caller'.at \in {"closeStream", "wait", "discard"} /\ caller'.asr \in {NoStream, asr} /\ caller' = [at |-> caller'.at, asr |-> caller'.asr]
    BY <1>6 DEF Cancel
  <2>2. asrPreparing' \in BOOLEAN /\ opener' \in {"none", "opening"} /\ asr' \in {NoStream, asr}
    BY <1>6, <1>t DEF Cancel, Launch, TypeOK
  <2>3. cancelled' \in BOOLEAN
    BY <1>6 DEF Cancel
  <2>4. caller' \in [at : {"closeStream", "wait", "discard"}, asr : Stream]
    BY <1>t, <2>1 DEF TypeOK
  <2> QED
    BY <1>6, <1>t, <2>2, <2>3, <2>4 DEF Cancel, ForgetInput, TypeOK, Memory
<1>7. CASE CloseCancelledStream \/ CancelWait \/ CancelTimesOut \/ Join
  BY <1>7, <1>t DEF CloseCancelledStream, CancelWait, CancelTimesOut, Join, TypeOK, Input, Memory, Job
<1>8. CASE Discard \/ DiscardLastResponse
  <2>1. history' \in Seq(Message) /\ lastResponseDiscardable' \in BOOLEAN
    <3>1. WithoutLastPair(history) \in Seq(Message)
      BY <1>t, LastPairGoes DEF PipelineInv, HistoryInv, TypeOK
    <3> QED
      BY <1>8, <1>t, <3>1 DEF Discard, DiscardLastResponse, DiscardCompletedResponse, TypeOK
  <2>2. dropped' \in SUBSET Turns
    <3>1. turn # 0 => turn \in Turns
      BY <1>t, PipelineAssumption DEF Turns, PipelineAssumption
    <3>2. phase = "answering" => turn # 0
      BY DEF PipelineInv, JobInv, Places
    <3>3. dropped \in SUBSET Turns
      BY <1>t DEF TypeOK
    <3> QED
      BY <1>8, <3>1, <3>2, <3>3 DEF Discard, DiscardLastResponse
  <2> QED
    BY <1>8, <1>t, <2>1, <2>2 DEF Discard, DiscardLastResponse, TypeOK, Input, Job
<1>9. CASE Drain
  BY <1>9, <1>t, PipelineAssumption DEF Drain, TypeOK, Input, Memory, Job, PipelineAssumption
<1>10. CASE TakeEvent
  <2>1. events' \in Seq(Event) /\ Len(events') <= EventCap
    BY <1>10, <1>t, PipelineAssumption DEF TakeEvent, TypeOK, PipelineAssumption
  <2> QED
    BY <1>10, <1>t, <2>1 DEF TakeEvent, TypeOK, Input, Memory, Job
<1>11. CASE Close
  BY <1>11, <1>t DEF Close, TypeOK, Memory
<1> QED
  BY <1>1, <1>2, <1>3, <1>4, <1>5, <1>6, <1>7, <1>8, <1>9, <1>10, <1>11 DEF Caller, CallReturns

\* An event that is sent is the job's, and there was room for it.
LEMMA EmitParts ==
  ASSUME TypeOK, NEW last \in BOOLEAN, NEW next \in JobPlaces, Emit(last, next), job.turn \in Turns
  PROVE  /\ events' \in Seq(Event) /\ Len(events') <= EventCap
         /\ \/ events' = Append(events, [turn |-> job.turn, last |-> last]) /\ job' = [job EXCEPT !.at = next]
            \/ events' = events /\ job' = [job EXCEPT !.at = "clear"]
         /\ job' \in [at : JobPlaces, turn : 0..MaxTurn, pcm : Audio, asr : Stream, history : Seq(Message)]
<1>1. \/ Len(events) < EventCap /\ events' = Append(events, [turn |-> job.turn, last |-> last]) /\ job' = [job EXCEPT !.at = next]
      \/ events' = events /\ job' = [job EXCEPT !.at = "clear"]
  BY DEF Emit, Continue
<1>2. [turn |-> job.turn, last |-> last] \in Event
  BY DEF Event
<1>3. events \in Seq(Event) /\ Len(events) <= EventCap /\ EventCap \in Nat
  BY PipelineAssumption DEF TypeOK, PipelineAssumption
<1>4. events' \in Seq(Event) /\ Len(events') <= EventCap
  BY <1>1, <1>2, <1>3
<1>5. job' \in [at : JobPlaces, turn : 0..MaxTurn, pcm : Audio, asr : Stream, history : Seq(Message)]
  BY <1>1, SMTT(30) DEF TypeOK, JobPlaces
<1> QED
  BY <1>1, <1>4, <1>5

\* No step of run touches the actor, the input or what closes the session.
Bystanders == <<caller, phase, turn, dropped, pcm, turnBatchOnly, asr, closed, cancelled>>
JobType == [at : JobPlaces, turn : 0..MaxTurn, pcm : Audio, asr : Stream, history : Seq(Message)]
OpenerTyped == asrPreparing \in BOOLEAN /\ opener \in {"none", "opening"}
MemoryTyped == history \in Seq(Message) /\ lastResponseDiscardable \in BOOLEAN
EventsTyped == events \in Seq(Event) /\ Len(events) <= EventCap

LEMMA RestTyped ==
  ASSUME TypeOK, UNCHANGED Bystanders, job' \in JobType, activeDone' \in BOOLEAN,
         OpenerTyped', MemoryTyped', EventsTyped'
  PROVE  TypeOK'
<1>1. /\ caller' = caller /\ phase' = phase /\ turn' = turn /\ dropped' = dropped /\ pcm' = pcm
      /\ turnBatchOnly' = turnBatchOnly /\ asr' = asr /\ closed' = closed /\ cancelled' = cancelled
  BY DEF Bystanders
<1> QED
  BY <1>1, Zenon DEF TypeOK, JobType, OpenerTyped, MemoryTyped, EventsTyped

LEMMA RunLeaves == Run => UNCHANGED Bystanders
<1> USE DEF Actor, Input, Memory, JobOnly, Bystanders
<1>1. EmitStarted \/ Answer \/ EmitDone \/ EmitError => UNCHANGED Bystanders
  BY DEF EmitStarted, Answer, EmitDone, EmitError
<1>2. RealtimeASR => UNCHANGED Bystanders
  BY DEF RealtimeASR
<1>3. BatchASR \/ AnswerEnds \/ ClearConversation \/ Clear => UNCHANGED Bystanders
  BY DEF BatchASR, AnswerEnds, ClearConversation, Clear
<1>4. Ask => UNCHANGED Bystanders
  <2>1. Ask => UNCHANGED JobOnly
    BY Zenon DEF Ask
  <2> QED
    BY <2>1
<1>5. Store => UNCHANGED Bystanders
  BY DEF Store
<1> QED
  BY <1>1, <1>2, <1>3, <1>4, <1>5 DEF Run

LEMMA TypeParts ==
  ASSUME TypeOK PROVE job \in JobType /\ activeDone \in BOOLEAN /\ OpenerTyped /\ MemoryTyped /\ EventsTyped
  BY Zenon DEF TypeOK, JobType, OpenerTyped, MemoryTyped, EventsTyped

LEMMA RunTypes == ASSUME PipelineInv, Run PROVE TypeOK'
<1> USE DEF JobAt
<1>t. TypeOK
  BY DEF PipelineInv
<1>p. job \in JobType /\ activeDone \in BOOLEAN /\ OpenerTyped /\ MemoryTyped /\ EventsTyped
  BY <1>t, TypeParts
<1>w. Working => job.turn \in Turns
  BY DEF PipelineInv, JobInv, Attended
<1>1. CASE EmitStarted \/ Answer \/ EmitDone \/ EmitError
  <2>1. job.turn \in Turns
    BY <1>1, <1>w DEF EmitStarted, Answer, EmitDone, EmitError, Working
  <2>2. EventsTyped' /\ job' \in JobType
    <3>1. CASE EmitStarted
      BY <1>t, <2>1, <3>1, EmitParts DEF EmitStarted, JobPlaces, EventsTyped, JobType
    <3>2. CASE Answer
      BY <1>t, <2>1, <3>2, EmitParts DEF Answer, TypeOK, EventsTyped, JobType
    <3>3. CASE EmitDone
      BY <1>t, <2>1, <3>3, EmitParts DEF EmitDone, JobPlaces, EventsTyped, JobType
    <3>4. CASE EmitError
      <4>1. CASE ~cancelled
        BY <1>t, <2>1, <3>4, <4>1, EmitParts DEF EmitError, JobPlaces, EventsTyped, JobType
      <4>2. CASE cancelled
        BY <1>p, <3>4, <4>2 DEF EmitError, JobType, EventsTyped, JobPlaces, Continue
      <4> QED
        BY <4>1, <4>2
    <3> QED
      BY <1>1, <3>1, <3>2, <3>3, <3>4
  <2>3. UNCHANGED <<activeDone, asrPreparing, opener, history, lastResponseDiscardable>>
    BY <1>1 DEF EmitStarted, Answer, EmitDone, EmitError, Input, Memory
  <2>4. activeDone' \in BOOLEAN /\ OpenerTyped' /\ MemoryTyped'
    BY <1>p, <2>3 DEF OpenerTyped, MemoryTyped
  <2> QED
    BY <1>t, <2>2, <2>4, RunLeaves, RestTyped
<1>2. CASE RealtimeASR
  <2>1. job' \in JobType
    <3>1. PICK place \in {"recognized", IF cancelled THEN "clear" ELSE "batch"} :
            job' = [job EXCEPT !.at = place, !.asr = NoStream]
      BY <1>2 DEF RealtimeASR
    <3> QED
      BY <1>p, <3>1, AudioParts DEF JobType, JobPlaces
  <2>2. OpenerTyped'
    BY <1>2, <1>p DEF RealtimeASR, Launch, OpenerTyped
  <2>3. activeDone' \in BOOLEAN /\ MemoryTyped' /\ EventsTyped'
    BY <1>2, <1>p DEF RealtimeASR, Memory, MemoryTyped, EventsTyped
  <2> QED
    BY <1>t, <2>1, <2>2, <2>3, RunLeaves, RestTyped
<1>3. CASE BatchASR \/ AnswerEnds
  <2>1. \E place \in JobPlaces : job' = [job EXCEPT !.at = place]
    BY <1>3 DEF BatchASR, AnswerEnds, JobPlaces, Continue
  <2>2. job' \in JobType
    BY <1>p, <2>1 DEF JobType
  <2>3. activeDone' \in BOOLEAN /\ OpenerTyped' /\ MemoryTyped' /\ EventsTyped'
    BY <1>3, <1>p DEF BatchASR, AnswerEnds, JobOnly, Input, Memory, OpenerTyped, MemoryTyped, EventsTyped
  <2> QED
    BY <1>t, <2>2, <2>3, RunLeaves, RestTyped
<1>4. CASE ClearConversation
  <2>1. job' \in JobType
    BY <1>4, <1>p DEF ClearConversation, Continue, JobPlaces, JobType
  <2>2. MemoryTyped'
    <3>1. history' = <<>> /\ lastResponseDiscardable' = FALSE /\ <<>> \in Seq(Message)
      BY <1>4 DEF ClearConversation
    <3> QED
      BY <3>1 DEF MemoryTyped
  <2>3. activeDone' \in BOOLEAN /\ OpenerTyped' /\ EventsTyped'
    BY <1>4, <1>p DEF ClearConversation, Input, OpenerTyped, EventsTyped
  <2> QED
    BY <1>t, <2>1, <2>2, <2>3, RunLeaves, RestTyped
<1>5. CASE Ask
  <2>1. PICK h \in BoundedHistories(Append(history, [role |-> "user", turn |-> job.turn])) :
          job' = [job EXCEPT !.at = "answer", !.history = h]
    BY <1>5, Zenon DEF Ask
  <2>2. h \in Seq(Message)
    BY <1>5, <2>1, AskedConversation DEF Ask
  <2>3. job' \in JobType
    BY <1>p, <2>1, <2>2 DEF JobType, JobPlaces
  <2>4. activeDone' \in BOOLEAN /\ OpenerTyped' /\ MemoryTyped' /\ EventsTyped'
    BY <1>5, <1>p DEF Ask, JobOnly, Input, Memory, OpenerTyped, MemoryTyped, EventsTyped
  <2> QED
    BY <1>t, <2>3, <2>4, RunLeaves, RestTyped
<1>6. CASE Store
  <2>1. history' \in Seq(Message)
    BY <1>6, StoredConversation DEF Store
  <2>2. job' \in JobType
    BY <1>6, <1>p DEF Store, Continue, JobPlaces, JobType
  <2>3. activeDone' \in BOOLEAN /\ OpenerTyped' /\ MemoryTyped' /\ EventsTyped'
    BY <1>6, <1>p, <2>1 DEF Store, Input, OpenerTyped, MemoryTyped, EventsTyped
  <2> QED
    BY <1>t, <2>2, <2>3, RunLeaves, RestTyped
<1>7. CASE Clear
  <2>1. job' \in JobType
    <3>1. <<>> \in Seq(Message) /\ 0 \in 0..MaxTurn
      BY PipelineAssumption DEF PipelineAssumption
    <3> QED
      BY <1>7, <3>1, AudioParts DEF Clear, NoJob, JobPlaces, JobType
  <2>2. activeDone' \in BOOLEAN /\ OpenerTyped' /\ MemoryTyped' /\ EventsTyped'
    BY <1>7, <1>p DEF Clear, Input, Memory, OpenerTyped, MemoryTyped, EventsTyped
  <2> QED
    BY <1>t, <2>1, <2>2, RunLeaves, RestTyped
<1> QED
  BY <1>1, <1>2, <1>3, <1>4, <1>5, <1>6, <1>7 DEF Run

LEMMA PrepareTypes == ASSUME PipelineInv, PrepareRealtimeASR PROVE TypeOK'
<1>1. asr' \in Stream
  BY AudioParts DEF PipelineInv, TypeOK, PrepareRealtimeASR
<1> QED
  <2>1. TypeOK /\ opener' \in {"none", "opening"} /\ asrPreparing' \in BOOLEAN
        /\ caller' = caller /\ phase' = phase /\ turn' = turn /\ dropped' = dropped /\ pcm' = pcm
        /\ turnBatchOnly' = turnBatchOnly /\ closed' = closed /\ cancelled' = cancelled
        /\ job' = job /\ activeDone' = activeDone /\ events' = events
        /\ history' = history /\ lastResponseDiscardable' = lastResponseDiscardable
    BY DEF PipelineInv, PrepareRealtimeASR, Actor, Memory, Job
  <2> QED
    BY <1>1, <2>1, Zenon DEF TypeOK

-----------------------------------------------------------------------------
(* The pipeline: what it has heard.                                        *)

\* Calls of the actor that only wait, or that only look at what they wait for.
Moves == CloseCancelledStream \/ CancelWait \/ CancelTimesOut \/ Join
LEMMA MovesParts ==
  Moves => /\ caller'.at \in {"drain", "discard", "closeSession", "closed"}
           /\ caller.at \in {"closeStream", "wait", "join"}
           /\ caller'.at = "closed" => caller.at = "join"
           /\ caller.at = "join" => caller'.at = "closed"
           /\ caller'.at = "closeSession" => caller.at = "wait"
           /\ caller'.at \in {"closed", "discard"} => job.at = "none"
           /\ caller.at = "wait" => caller'.at \in {"discard", "closeSession"}
           /\ UNCHANGED <<phase, turn, dropped, pcm, turnBatchOnly, asr, asrPreparing, opener,
                          history, lastResponseDiscardable, closed, activeDone, cancelled, job, events>>
  BY DEF Moves, CloseCancelledStream, CancelWait, CancelTimesOut, Join, Goto, AtCall, Input, Memory, Job

LEMMA CallerInput == ASSUME PipelineInv, Caller PROVE InputInv'
<1> USE DEF Goto, AtCall
<1>i. InputInv /\ Places
  BY DEF PipelineInv, JobInv
<1>t. /\ turnBatchOnly \in BOOLEAN /\ asr \in Stream /\ pcm \in Seq(Turns) /\ closed \in BOOLEAN
      /\ asr.fed \in Seq(Turns) /\ asr.open \in BOOLEAN
  BY AudioParts DEF PipelineInv, TypeOK, Stream
<1>1. CASE StartTurn
  BY <1>1, <1>i DEF StartTurn, InputInv, Input, Job
<1>2. CASE SendAudio
  <2>1. /\ caller.at = "rest" /\ phase' = "listening" /\ ~closed /\ ~closed' /\ job' = job /\ job.at = "none"
        /\ asr' = asr /\ turn' = turn /\ pcm' = Append(pcm, turn)
        /\ turnBatchOnly' = (turnBatchOnly \/ (pcm = <<>> /\ ~asr.open))
        /\ IF asr.open /\ ~turnBatchOnly THEN caller'.at = "append" ELSE caller'.at = "rest"
    BY <1>2, <1>i DEF SendAudio, Job, Places, AtRest
  <2>2. pcm' # <<>>
    BY <1>t, <2>1
  <2>3. asr.open => asr.fed = IF turnBatchOnly THEN <<>> ELSE pcm
    BY <1>i, <2>1 DEF InputInv
  <2>4. pcm' # <<>> /\ ~turnBatchOnly' => asr'.open
    BY <1>i, <2>1 DEF InputInv
  <2>5. caller'.at = "append" => ~turnBatchOnly' /\ pcm' = Append(asr'.fed, turn')
    BY <2>1, <2>3
  <2>6. asr'.open /\ caller'.at # "append" => asr'.fed = <<>> /\ turnBatchOnly'
    BY <2>1, <2>3
  <2>7. asr'.open \/ asr' = NoStream
    BY <1>i, <2>1 DEF InputInv
  <2> QED
    BY <2>1, <2>2, <2>4, <2>5, <2>6, <2>7 DEF InputInv
<1>3. CASE AppendToStream
  <2>1. /\ caller.at = "append" /\ pcm # <<>> /\ ~turnBatchOnly /\ pcm = Append(asr.fed, turn) /\ ~closed /\ asr.open
        /\ phase = "listening" /\ job.at = "none"
    BY <1>3, <1>i DEF AppendToStream, InputInv
  <2>2. UNCHANGED <<phase, turn, pcm, turnBatchOnly, closed, job>>
    BY <1>3 DEF AppendToStream, Job
  <2>3. CASE asr' = [asr EXCEPT !.fed = Append(@, turn)] /\ caller' = AtRest
    <3>1. asr'.open /\ asr'.fed = pcm /\ caller'.at = "rest"
      BY <1>t, <2>1, <2>3 DEF Stream, AtRest
    <3> QED
      BY <2>1, <2>2, <3>1 DEF InputInv
  <2>4. CASE caller'.at = "disable" /\ asr' = asr
    BY <2>1, <2>2, <2>4 DEF InputInv
  <2> QED
    BY <1>3, <2>3, <2>4 DEF AppendToStream
<1>4. CASE DisableRealtimeASR
  <2>1. caller.at = "disable" /\ pcm # <<>> /\ ~closed /\ phase = "listening" /\ job.at = "none"
    BY <1>4, <1>i DEF DisableRealtimeASR, InputInv
  <2>2. asr' = NoStream /\ turnBatchOnly' = TRUE /\ caller'.at = "rest" /\ UNCHANGED <<phase, turn, pcm, closed, job>>
    BY <1>4 DEF DisableRealtimeASR, AtRest, Job
  <2> QED
    BY <2>1, <2>2 DEF InputInv, NoStream
<1>5. CASE Commit
  <2>1. /\ caller.at = "rest" /\ caller' = caller /\ pcm' = <<>> /\ turnBatchOnly' = FALSE /\ ~closed /\ closed' = closed
        /\ asr' = IF turnBatchOnly THEN asr ELSE NoStream
    BY <1>5 DEF Commit
  <2>2. turnBatchOnly /\ asr.open => asr.fed = <<>>
    BY <1>i, <2>1 DEF InputInv
  <2>3. asr'.open \/ asr' = NoStream
    BY <1>i, <2>1 DEF InputInv
  <2>4. asr'.open => asr'.fed = <<>>
    BY <2>1, <2>2 DEF NoStream
  <2> QED
    BY <2>1, <2>3, <2>4 DEF InputInv
<1>6. CASE Cancel
  <2>1. /\ caller.at = "rest" /\ pcm' = <<>> /\ turnBatchOnly' = FALSE /\ closed' = closed
        /\ asr' = IF (IF pcm # <<>> /\ ~turnBatchOnly THEN asr ELSE NoStream).open THEN NoStream ELSE asr
        /\ caller'.at \in {"closeStream", "wait", "discard"}
    BY <1>6 DEF Cancel, ForgetInput
  <2>2. ~closed
    BY <1>i, <2>1 DEF InputInv
  <2>3. asr.open => asr.fed = IF turnBatchOnly THEN <<>> ELSE pcm
    BY <1>i, <2>1 DEF InputInv
  <2>4. asr' = NoStream \/ (asr' = asr /\ (pcm # <<>> => turnBatchOnly \/ ~asr.open))
    BY <2>1 DEF NoStream
  <2>5. asr'.open \/ asr' = NoStream
    BY <1>i, <2>4 DEF InputInv
  <2>6. asr'.open => asr'.fed = <<>>
    BY <2>3, <2>4 DEF NoStream
  <2> QED
    BY <2>1, <2>2, <2>5, <2>6 DEF InputInv
<1>7. CASE Moves
  BY <1>7, <1>i, MovesParts DEF InputInv
<1>8. CASE Discard \/ DiscardLastResponse
  <2>1. /\ UNCHANGED <<phase, turn, pcm, turnBatchOnly, asr, closed, job>>
        /\ (caller.at = "discard" /\ caller'.at = "drain") \/ (caller.at = "rest" /\ caller' = caller)
    BY <1>8 DEF Discard, DiscardLastResponse, Input, Job
  <2> QED
    BY <1>i, <2>1 DEF InputInv
<1>9. CASE Drain
  <2>1. caller.at = "drain" /\ caller'.at = "rest" /\ UNCHANGED <<turn, pcm, turnBatchOnly, asr, closed, job>>
    BY <1>9 DEF Drain, AtRest, Input, Job
  <2> QED
    BY <1>i, <2>1 DEF InputInv
<1>10. CASE TakeEvent
  <2>1. /\ UNCHANGED <<caller, turn, pcm, turnBatchOnly, asr, closed, job>>
        /\ phase = "listening" => phase' = phase
    BY <1>10 DEF TakeEvent, Input, Job
  <2> QED
    BY <1>i, <2>1 DEF InputInv
<1>11. CASE Close
  <2>1. /\ caller'.at = "join" /\ closed' = TRUE /\ asr' = NoStream
        /\ UNCHANGED <<phase, turn, pcm, turnBatchOnly, job>>
    BY <1>11 DEF Close
  <2> QED
    BY <1>i, <2>1 DEF InputInv, NoStream
<1> QED
  BY <1>1, <1>2, <1>3, <1>4, <1>5, <1>6, <1>7, <1>8, <1>9, <1>10, <1>11 DEF Caller, CallReturns, Moves

LEMMA RunInput == ASSUME PipelineInv, Run PROVE InputInv'
<1>1. job.at # "none"
  <2> USE DEF JobAt
  <2>1. Ask => job.at = "recognized"
    BY Zenon DEF Ask
  <2>2. Store \/ ClearConversation => job.at \in {"store", "recognized"}
    BY DEF Store, ClearConversation
  <2> QED
    BY <2>1, <2>2 DEF Run, EmitStarted, RealtimeASR, BatchASR, Answer, AnswerEnds, EmitDone, EmitError, Clear
<1>2. InputInv
  BY DEF PipelineInv
<1>3. UNCHANGED <<caller, phase, turn, pcm, turnBatchOnly, asr, closed>>
  BY RunLeaves DEF Bystanders
<1> QED
  BY <1>1, <1>2, <1>3 DEF InputInv

LEMMA PrepareInput == ASSUME PipelineInv, PrepareRealtimeASR PROVE InputInv'
<1>1. /\ UNCHANGED <<caller, phase, turn, pcm, turnBatchOnly, closed, job>>
      /\ asr' = asr \/ (~closed /\ ~asr.open /\ asr' = FreshStream)
  BY DEF PrepareRealtimeASR, Actor, Job
<1>2. InputInv
  BY DEF PipelineInv
<1>3. CASE asr' = asr
  BY <1>1, <1>2, <1>3 DEF InputInv
<1>4. CASE ~closed /\ ~asr.open /\ asr' = FreshStream
  <2>1. pcm # <<>> => turnBatchOnly
    BY <1>2, <1>4 DEF InputInv
  <2>2. asr'.open /\ asr'.fed = <<>>
    BY <1>4 DEF FreshStream
  <2> QED
    BY <1>1, <1>2, <1>4, <2>1, <2>2 DEF InputInv
<1> QED
  BY <1>1, <1>3, <1>4

-----------------------------------------------------------------------------
(* The pipeline: whose answer it sends.                                    *)

LEMMA CallerJob == ASSUME PipelineInv, Caller PROVE JobInv'
<1> USE DEF Goto, AtCall, AtRest
<1>i. InputInv /\ Attended /\ Quiet /\ Places /\ RealtimeHearsWholeTurn
  BY DEF PipelineInv, JobInv
<1>t. /\ turn \in Nat /\ turn \in 0..MaxTurn /\ MaxTurn \in Nat /\ dropped \in SUBSET Turns
      /\ events \in Seq(Event) /\ \A u \in Turns : u \in Nat
  BY PipelineAssumption DEF PipelineInv, TypeOK, Turns, PipelineAssumption
<1> DEFINE Leaves == UNCHANGED <<phase, turn, dropped, activeDone, job, events>>
<1>s. Leaves => Quiet' /\ Places' /\ RealtimeHearsWholeTurn'
  BY <1>i DEF Quiet, Places, RealtimeHearsWholeTurn
<1>a. Leaves /\ (Working => caller'.at \in {"rest", "wait", "closeSession", "join"}) => JobInv'
  BY <1>i, <1>s DEF JobInv, Attended, Working
<1>1. CASE StartTurn
  <2>1. /\ phase = "idle" /\ phase' = "listening" /\ turn' = turn + 1 /\ turn < MaxTurn
        /\ UNCHANGED <<caller, dropped, activeDone, job, events>>
    BY <1>1 DEF StartTurn, Job
  <2>2. ~Working' /\ events = <<>>
    BY <1>i, <2>1 DEF Attended, Quiet, Working
  <2>3. turn' \in Turns \ dropped' /\ \A u \in dropped' : u <= turn'
    <3>1. turn' \in Turns
      BY <1>t, <2>1 DEF Turns
    <3>2. \A u \in dropped : u <= turn /\ u \in Nat
      BY <1>i, <1>t DEF Places
    <3> QED
      BY <1>t, <2>1, <3>1, <3>2
  <2>4. Attended' /\ Quiet' /\ RealtimeHearsWholeTurn'
    BY <1>i, <2>1, <2>2 DEF Attended, Quiet, RealtimeHearsWholeTurn
  <2>5. Places'
    BY <1>i, <2>1, <2>3 DEF Places
  <2> QED
    BY <2>4, <2>5 DEF JobInv
<1>2. CASE SendAudio
  <2>1. Leaves /\ ~activeDone
    BY <1>2 DEF SendAudio, Job
  <2>2. ~Working
    BY <1>i, <2>1 DEF Places, Working
  <2> QED
    BY <1>a, <2>1, <2>2
<1>3. CASE AppendToStream \/ DisableRealtimeASR \/ Close
  <2>1. Leaves
    BY <1>3 DEF AppendToStream, DisableRealtimeASR, Close, Job
  <2>2. Working => caller'.at \in {"rest", "wait", "closeSession", "join"}
    BY <1>3, <1>i DEF AppendToStream, DisableRealtimeASR, Close, Attended
  <2> QED
    BY <1>a, <2>1, <2>2
<1>4. CASE Commit
  <2>1. /\ caller.at = "rest" /\ caller' = caller /\ phase = "listening" /\ phase' = "answering"
        /\ UNCHANGED <<turn, dropped, events>> /\ activeDone' = TRUE
        /\ job' = [at |-> "start", turn |-> turn, pcm |-> pcm,
                   asr |-> IF turnBatchOnly THEN NoStream ELSE asr, history |-> <<>>]
    BY <1>4 DEF Commit
  <2>2. turn \in Turns \ dropped /\ events = <<>>
    BY <1>i, <2>1 DEF Places, Quiet
  <2>3. job'.at = "start" /\ job'.turn = turn /\ job'.pcm = pcm /\ job'.asr = IF turnBatchOnly THEN NoStream ELSE asr
    BY <2>1
  <2>4. ~turnBatchOnly /\ asr.open => asr.fed = pcm
    BY <1>i, <2>1 DEF InputInv
  <2>5. RealtimeHearsWholeTurn'
    BY <2>3, <2>4 DEF RealtimeHearsWholeTurn, NoStream
  <2>6. Attended' /\ Quiet'
    BY <2>1, <2>2, <2>3 DEF Attended, Quiet, Working
  <2>7. turn # 0 /\ \A u \in dropped : u <= turn
    BY <1>i, <2>2 DEF Places, Turns
  <2>8. Places'
    BY <2>1, <2>3, <2>7 DEF Places
  <2> QED
    BY <2>5, <2>6, <2>8 DEF JobInv
<1>5. CASE Cancel
  <2>1. Leaves /\ caller.at = "rest"
    BY <1>5 DEF Cancel
  <2>2. Working => activeDone /\ pcm = <<>>
    BY <1>i DEF Places, Working, InputInv
  <2>3. pcm = <<>> /\ activeDone => caller'.at = "wait"
    BY <1>5 DEF Cancel
  <2> QED
    BY <1>a, <2>1, <2>2, <2>3
<1>6. CASE Moves
  <2>1. Leaves
    BY <1>6, MovesParts
  <2>2. Working => caller'.at \in {"rest", "wait", "closeSession", "join"}
    BY <1>6, <1>i, MovesParts DEF Attended, Working
  <2> QED
    BY <1>a, <2>1, <2>2
<1>7. CASE Discard \/ DiscardLastResponse
  <2>1. /\ ~Working
        /\ UNCHANGED <<phase, turn, activeDone, job, events>>
        /\ dropped' \in {dropped, dropped \cup {turn}}
        /\ phase = "listening" => dropped' = dropped
    BY <1>7, <1>i DEF Discard, DiscardLastResponse, Job, Attended
  <2>2. Attended' /\ Quiet' /\ RealtimeHearsWholeTurn'
    BY <1>i, <2>1 DEF Attended, Working, Quiet, RealtimeHearsWholeTurn
  <2>3. Places'
    BY <1>i, <1>t, <2>1 DEF Places
  <2> QED
    BY <2>2, <2>3 DEF JobInv
<1>8. CASE Drain
  <2>1. ~Working /\ events' = <<>> /\ phase' = "idle" /\ UNCHANGED <<turn, dropped, activeDone, job>>
    BY <1>8, <1>i DEF Drain, Job, Attended
  <2>2. Attended' /\ Quiet' /\ RealtimeHearsWholeTurn'
    BY <1>i, <2>1 DEF Attended, Working, Quiet, RealtimeHearsWholeTurn
  <2>3. Places'
    BY <1>i, <2>1 DEF Places
  <2> QED
    BY <2>2, <2>3 DEF JobInv
<1>9. CASE TakeEvent
  <2>1. /\ events # <<>> /\ events' = Tail(events) /\ UNCHANGED <<caller, turn, dropped, activeDone, job>>
        /\ phase' = IF phase = "answering" /\ Head(events).last THEN "idle" ELSE phase
    BY <1>9 DEF TakeEvent, Job
  <2>2. phase = "answering"
    BY <1>i, <2>1 DEF Quiet
  <2>3. /\ Len(events) \in Nat /\ Len(events) >= 1 /\ Len(events') = Len(events) - 1 /\ DOMAIN events' = 1..(Len(events) - 1)
        /\ \A i \in DOMAIN events' : i + 1 \in DOMAIN events /\ events'[i] = events[i + 1]
        /\ 1 \in DOMAIN events /\ Head(events) = events[1]
    BY <1>t, <2>1
  <2>4. \A i \in DOMAIN events' : events'[i].last => i = Len(events')
    <3>1. ASSUME NEW i \in DOMAIN events', events'[i].last PROVE i = Len(events')
      <4>1. i + 1 = Len(events) /\ i \in Nat
        BY <1>i, <2>3, <3>1 DEF Quiet
      <4> QED
        BY <2>3, <4>1
    <3> QED
      BY <3>1
  <2>5. phase' # "answering" => events' = <<>>
    <3>1. ASSUME Head(events).last PROVE events' = <<>>
      <4>1. Len(events) = 1
        BY <1>i, <2>3, <3>1 DEF Quiet
      <4> QED
        BY <1>t, <2>1, <4>1
    <3> QED
      BY <2>1, <2>2, <3>1
  <2>6. Working => phase' = phase /\ \A i \in DOMAIN events' : ~events'[i].last
    BY <1>i, <2>1, <2>3 DEF Attended
  <2>7. Attended'
    BY <1>i, <2>1, <2>6 DEF Attended, Working
  <2>8. phase' \in {"answering", "idle"}
    BY <2>1, <2>2
  <2>9. Places' /\ RealtimeHearsWholeTurn'
    BY <1>i, <2>1, <2>2, <2>8 DEF Places, RealtimeHearsWholeTurn
  <2> QED
    BY <2>4, <2>5, <2>7, <2>9 DEF JobInv, Quiet
<1> HIDE DEF Leaves
<1> QED
  BY <1>1, <1>2, <1>3, <1>4, <1>5, <1>6, <1>7, <1>8, <1>9 DEF Caller, CallReturns, Moves

\* A step of run works on the answer of the turn until it clears it, and every
\* event it sends but its last one leaves it at work.
WorksOn ==
  /\ job.at # "none"
  /\ Working \/ (job.at = "clear" /\ job' = NoJob /\ activeDone' = FALSE /\ events' = events)
  /\ Working => /\ activeDone' = activeDone /\ job'.at # "none" /\ job'.turn = job.turn
                /\ job'.asr = NoStream \/ (job'.asr = job.asr /\ job'.pcm = job.pcm)
Sends ==
  \/ events' = events
  \/ \E last \in BOOLEAN : /\ events' = Append(events, [turn |-> job.turn, last |-> last])
                           /\ Working /\ (last => job'.at = "clear")

LEMMA EmitSends ==
  ASSUME job \in JobType, NEW last \in BOOLEAN, NEW next \in JobPlaces, next # "none", Working,
         Emit(last, next), last => next = "clear", activeDone' = activeDone
  PROVE  WorksOn /\ Sends
<1>1. \/ events' = Append(events, [turn |-> job.turn, last |-> last]) /\ job' = [job EXCEPT !.at = next]
      \/ events' = events /\ job' = [job EXCEPT !.at = "clear"]
  BY DEF Emit, Continue
<1>2. job'.at \in {next, "clear"} /\ job'.turn = job.turn /\ job'.asr = job.asr /\ job'.pcm = job.pcm
  BY <1>1 DEF JobType
<1>3. events' = events \/ (events' = Append(events, [turn |-> job.turn, last |-> last]) /\ job'.at = next)
  BY <1>1 DEF JobType
<1>4. job.at # "none"
  BY DEF Working
<1>5. WorksOn
  BY <1>2, <1>4 DEF WorksOn
<1>6. Sends
  BY <1>3 DEF Sends
<1> QED
  BY <1>5, <1>6

LEMMA RunParts == ASSUME TypeOK, Run PROVE WorksOn /\ Sends
<1> USE DEF JobAt
<1>j. job \in JobType
  BY TypeParts
<1>s. events' = events => Sends
  BY DEF Sends
<1>c. ASSUME NEW place \in JobPlaces, place # "none", Working, activeDone' = activeDone, events' = events,
             job' = [job EXCEPT !.at = place]
      PROVE  WorksOn /\ Sends
  <2>1. job'.at = place /\ job'.turn = job.turn /\ job'.asr = job.asr /\ job'.pcm = job.pcm /\ job.at # "none"
    BY <1>j, <1>c DEF JobType, Working
  <2> QED
    BY <1>c, <1>s, <2>1 DEF WorksOn
<1>1. CASE EmitStarted
  <2>1. Working /\ activeDone' = activeDone /\ Emit(FALSE, IF job.asr.open THEN "realtime" ELSE "batch")
    BY <1>1 DEF EmitStarted, Working
  <2> QED
    BY <1>j, <2>1, EmitSends DEF JobPlaces
<1>2. CASE Answer
  <2>1. Working /\ activeDone' = activeDone /\ Emit(FALSE, job.at) /\ job.at \in JobPlaces /\ job.at # "none"
    BY <1>2 DEF Answer, Working, JobPlaces
  <2> QED
    BY <1>j, <2>1, EmitSends
<1>3. CASE EmitDone
  <2>1. Working /\ activeDone' = activeDone /\ Emit(TRUE, "clear")
    BY <1>3 DEF EmitDone, Working
  <2> QED
    BY <1>j, <2>1, EmitSends DEF JobPlaces
<1>4. CASE EmitError
  <2>1. Working /\ activeDone' = activeDone
    BY <1>4 DEF EmitError, Working
  <2>2. CASE cancelled
    <3>1. events' = events /\ job' = [job EXCEPT !.at = "clear"]
      BY <1>4, <2>2 DEF EmitError, Continue
    <3> QED
      BY <1>c, <2>1, <3>1 DEF JobPlaces
  <2>3. CASE ~cancelled
    <3>1. Emit(TRUE, "clear")
      BY <1>4, <2>3 DEF EmitError
    <3> QED
      BY <1>j, <2>1, <3>1, EmitSends DEF JobPlaces
  <2> QED
    BY <2>2, <2>3
<1>5. CASE RealtimeASR
  <2>1. PICK place \in {"recognized", IF cancelled THEN "clear" ELSE "batch"} :
          job' = [job EXCEPT !.at = place, !.asr = NoStream]
    BY <1>5 DEF RealtimeASR
  <2>2. Working /\ job.at # "none" /\ activeDone' = activeDone /\ events' = events
    BY <1>5 DEF RealtimeASR, Working
  <2>3. job'.at = place /\ place # "none" /\ job'.turn = job.turn /\ job'.asr = NoStream
    BY <1>j, <2>1 DEF JobType
  <2> QED
    BY <1>s, <2>2, <2>3 DEF WorksOn
<1>6. CASE BatchASR \/ AnswerEnds
  <2>1. Working /\ activeDone' = activeDone /\ events' = events
    BY <1>6 DEF BatchASR, AnswerEnds, JobOnly, Working
  <2>2. \E place \in JobPlaces \ {"none"} : job' = [job EXCEPT !.at = place]
    BY <1>6 DEF BatchASR, AnswerEnds, JobPlaces, Continue
  <2> QED
    BY <1>c, <2>1, <2>2
<1>7. CASE ClearConversation
  <2>1. Working /\ activeDone' = activeDone /\ events' = events /\ job' = [job EXCEPT !.at = "confirm"]
    BY <1>7 DEF ClearConversation, Working, Continue
  <2> QED
    BY <1>c, <2>1 DEF JobPlaces
<1>8. CASE Ask
  <2>1. PICK h \in BoundedHistories(Append(history, [role |-> "user", turn |-> job.turn])) :
          job' = [job EXCEPT !.at = "answer", !.history = h]
    BY <1>8, Zenon DEF Ask
  <2>2. job.at = "recognized" /\ UNCHANGED JobOnly
    BY <1>8, Zenon DEF Ask
  <2>3. Working /\ job.at # "none" /\ activeDone' = activeDone /\ events' = events
    BY <2>2 DEF JobOnly, Working
  <2>4. job'.at = "answer" /\ job'.turn = job.turn /\ job'.asr = job.asr /\ job'.pcm = job.pcm
    BY <1>j, <2>1 DEF JobType
  <2> QED
    BY <1>s, <2>3, <2>4 DEF WorksOn
<1>9. CASE Store
  <2>1. Working /\ activeDone' = activeDone /\ events' = events /\ job' = [job EXCEPT !.at = "done"]
    BY <1>9 DEF Store, Working, Continue
  <2> QED
    BY <1>c, <2>1 DEF JobPlaces
<1>10. CASE Clear
  <2>1. job.at = "clear" /\ ~Working /\ job' = NoJob /\ activeDone' = FALSE /\ events' = events
    BY <1>10 DEF Clear, Working
  <2> QED
    BY <1>s, <2>1 DEF WorksOn
<1> QED
  BY <1>1, <1>2, <1>3, <1>4, <1>5, <1>6, <1>7, <1>8, <1>9, <1>10 DEF Run

LEMMA RunJob == ASSUME PipelineInv, Run PROVE JobInv'
<1>i. TypeOK /\ Attended /\ Quiet /\ Places /\ RealtimeHearsWholeTurn
  BY DEF PipelineInv, JobInv
<1>b. UNCHANGED <<caller, phase, turn, dropped>>
  BY RunLeaves DEF Bystanders
<1>r. WorksOn /\ Sends
  BY <1>i, RunParts
<1>e. events \in Seq(Event) /\ Len(events) \in Nat
  BY <1>i DEF TypeOK
<1>1. RealtimeHearsWholeTurn'
  BY <1>i, <1>r DEF WorksOn, RealtimeHearsWholeTurn, NoStream, NoJob
<1>2. activeDone' <=> job'.at # "none"
  BY <1>i, <1>r DEF WorksOn, Places, NoJob, Working
<1>3. Places'
  BY <1>i, <1>b, <1>2 DEF Places
<1>4. Working' => Working /\ job'.turn = job.turn
  BY <1>r DEF WorksOn, Working, NoJob
<1>5. CASE events' = events
  BY <1>i, <1>b, <1>3, <1>1, <1>4, <1>5 DEF Attended, Quiet, JobInv
<1>6. ASSUME NEW last \in BOOLEAN, events' = Append(events, [turn |-> job.turn, last |-> last]),
             Working, last => job'.at = "clear"
      PROVE  JobInv'
  <2>1. phase = "answering" /\ \A i \in DOMAIN events : ~events[i].last
    BY <1>i, <1>6 DEF Attended
  <2>2. /\ DOMAIN events' = 1..(Len(events) + 1) /\ Len(events') = Len(events) + 1
        /\ \A i \in 1..Len(events) : events'[i] = events[i]
        /\ events'[Len(events) + 1].last = last
    BY <1>e, <1>6
  <2>3. \A i \in DOMAIN events' : events'[i].last => i = Len(events') /\ last
    BY <1>e, <2>1, <2>2
  <2>4. last => ~Working'
    BY <1>6 DEF Working
  <2>5. Attended'
    BY <1>i, <1>b, <1>4, <2>3, <2>4 DEF Attended
  <2>6. Quiet'
    BY <1>b, <2>1, <2>3 DEF Quiet
  <2> QED
    BY <1>1, <1>3, <2>5, <2>6 DEF JobInv
<1> QED
  BY <1>r, <1>5, <1>6 DEF Sends

LEMMA PrepareJob == ASSUME PipelineInv, PrepareRealtimeASR PROVE JobInv'
<1>1. JobInv /\ UNCHANGED <<caller, phase, turn, dropped, activeDone, job, events>>
  BY DEF PipelineInv, PrepareRealtimeASR, Actor, Job
<1> QED
  BY <1>1 DEF JobInv, Attended, Working, Quiet, Places, RealtimeHearsWholeTurn

-----------------------------------------------------------------------------
(* The pipeline: what it remembers.                                        *)

LEMMA CallerHistory == ASSUME PipelineInv, Caller PROVE HistoryInv'
<1> USE DEF Goto, AtCall, AtRest
<1>i. HistoryInv /\ Attended /\ Places
  BY DEF PipelineInv, JobInv
<1>t. /\ turn \in Nat /\ history \in Seq(Message) /\ \A i \in DOMAIN history : history[i].turn \in Nat
      /\ lastResponseDiscardable \in BOOLEAN
  <2>1. turn \in Nat /\ history \in Seq(Message) /\ lastResponseDiscardable \in BOOLEAN
    BY PipelineAssumption DEF PipelineInv, TypeOK, PipelineAssumption
  <2> QED
    BY <2>1, MessageParts DEF Turns
<1> DEFINE Leaves == UNCHANGED <<turn, dropped, history, job>>
<1>a. Leaves /\ lastResponseDiscardable' = lastResponseDiscardable /\ (phase' = "listening" => phase = "listening")
      => HistoryInv'
  <2> SUFFICES ASSUME Leaves, lastResponseDiscardable' = lastResponseDiscardable,
                      phase' = "listening" => phase = "listening"
               PROVE  HistoryInv'
    OBVIOUS
  <2>1. Remembered'
    BY <1>i DEF HistoryInv, Remembered
  <2>2. Older'
    BY <1>i DEF HistoryInv, Older, BeforeAnswer
  <2>3. job'.at \in {"answer", "store"} => Asked(job.history)'
    BY <1>i DEF HistoryInv, Asked
  <2> QED
    BY <1>i, <2>1, <2>2, <2>3 DEF HistoryInv
<1>1. CASE StartTurn
  <2>1. /\ phase = "idle" /\ turn' = turn + 1
        /\ UNCHANGED <<dropped, history, lastResponseDiscardable, job>>
    BY <1>1 DEF StartTurn, Memory, Job
  <2>2. ~Working
    BY <1>i, <2>1 DEF Attended
  <2>3. job'.at \notin {"answer", "store"} /\ \A i \in DOMAIN history : history[i].turn < turn'
    BY <1>i, <1>t, <2>1, <2>2 DEF Working, HistoryInv, Remembered
  <2>4. Remembered' /\ Older'
    BY <1>i, <1>t, <2>1, <2>3 DEF HistoryInv, Remembered, Older
  <2> QED
    BY <1>i, <2>1, <2>3, <2>4 DEF HistoryInv
<1>2. CASE SendAudio
  <2>1. phase = "listening" /\ phase' = phase /\ Leaves
    BY <1>2 DEF SendAudio, Job
  <2>2. \A i \in DOMAIN history : history[i].turn # turn
    BY <1>i, <1>t, <2>1 DEF HistoryInv, Older
  <2>3. Remembered'
    BY <1>i, <2>1, <2>2 DEF HistoryInv, Remembered
  <2> QED
    BY <1>i, <2>1, <2>3 DEF HistoryInv, Older, BeforeAnswer, Asked
<1>3. CASE AppendToStream \/ DisableRealtimeASR \/ Cancel \/ Close \/ Drain \/ TakeEvent
  <2>1. Leaves /\ lastResponseDiscardable' = lastResponseDiscardable /\ (phase' = "listening" => phase = "listening")
    BY <1>3 DEF AppendToStream, DisableRealtimeASR, Cancel, Close, Drain, TakeEvent, Memory, Job
  <2> QED
    BY <1>a, <2>1
<1>4. CASE Moves
  BY <1>4, <1>a, MovesParts
<1>5. CASE Commit
  <2>1. /\ phase = "listening" /\ phase' = "answering" /\ job'.at = "start"
        /\ UNCHANGED <<turn, dropped, history, lastResponseDiscardable>>
    BY <1>5 DEF Commit, Memory
  <2>2. Remembered' /\ Older'
    BY <1>i, <2>1 DEF HistoryInv, Remembered, Older
  <2> QED
    BY <1>i, <2>1, <2>2 DEF HistoryInv
<1>6. CASE Discard \/ DiscardLastResponse
  <2>1. /\ ~Working /\ UNCHANGED <<phase, turn, job>> /\ lastResponseDiscardable' = FALSE
        /\ history' = IF lastResponseDiscardable THEN WithoutLastPair(history) ELSE history
        /\ dropped' \in {dropped, dropped \cup {turn}}
    BY <1>6, <1>i DEF Discard, DiscardLastResponse, DiscardCompletedResponse, Job, Attended
  <2>2. /\ Paired(history) /\ Len(history) % 2 = 0 /\ Remembered /\ Older
    BY <1>i DEF HistoryInv
  <2>3. /\ Paired(history') /\ Len(history') % 2 = 0
        /\ \A i \in DOMAIN history' : i \in DOMAIN history /\ history'[i] = history[i] /\ history[i].turn < turn
    <3>1. CASE lastResponseDiscardable
      <4>1. history' = WithoutLastPair(history)
        BY <2>1, <3>1
      <4>2. /\ Paired(history') /\ Len(history') % 2 = 0
            /\ \A i \in DOMAIN history' : i \in DOMAIN history /\ history'[i] = history[i]
            /\ \A i \in DOMAIN history' : history[i].turn < history[Len(history)].turn
        BY <1>t, <2>2, <4>1, LastPairGoes
      <4>3. ASSUME NEW i \in DOMAIN history' PROVE history[i].turn < turn
        <5>1. i \in DOMAIN history /\ Len(history) \in DOMAIN history
          BY <1>t, <4>2, <4>3
        <5>2. history[Len(history)].turn <= turn
          BY <2>2, <5>1 DEF Remembered
        <5> QED
          BY <1>t, <4>2, <5>1, <5>2
      <4> QED
        BY <4>2, <4>3
    <3>2. CASE ~lastResponseDiscardable
      BY <1>t, <2>1, <2>2, <3>2 DEF Remembered
    <3> QED
      BY <3>1, <3>2
  <2>4. \A i \in DOMAIN history' : history'[i].turn < turn /\ history'[i].turn \notin dropped'
    BY <1>t, <2>1, <2>2, <2>3 DEF Remembered
  <2>5. Remembered' /\ Older'
    BY <1>t, <2>1, <2>3, <2>4 DEF Remembered, Older
  <2>6. job'.at \notin {"answer", "store"}
    BY <2>1 DEF Working
  <2> QED
    BY <2>3, <2>5, <2>6 DEF HistoryInv
<1> HIDE DEF Leaves
<1> QED
  BY <1>1, <1>2, <1>3, <1>4, <1>5, <1>6 DEF Caller, CallReturns, Moves

LEMMA RunHistory == ASSUME PipelineInv, Run PROVE HistoryInv'
<1> USE DEF JobAt
<1>i. HistoryInv /\ Attended /\ TypeOK
  BY DEF PipelineInv, JobInv
<1>b. UNCHANGED <<phase, turn, dropped>>
  BY RunLeaves DEF Bystanders
<1>j. job \in JobType
  BY <1>i, TypeParts
<1> DEFINE Keeps == UNCHANGED <<history, lastResponseDiscardable>>
\* A step that asks nothing and stores nothing.
<1>a. ASSUME Keeps, BeforeAnswer' => BeforeAnswer,
             job'.at \in {"answer", "store"} => job.at \in {"answer", "store"} /\ job'.history = job.history
      PROVE  HistoryInv'
  <2>1. Remembered'
    BY <1>i, <1>b, <1>a DEF HistoryInv, Remembered
  <2>2. Older'
    BY <1>i, <1>b, <1>a DEF HistoryInv, Older
  <2>3. job'.at \in {"answer", "store"} => Asked(job.history)'
    BY <1>i, <1>b, <1>a DEF HistoryInv, Asked
  <2> QED
    BY <1>i, <1>a, <2>1, <2>2, <2>3 DEF HistoryInv
<1>m. ASSUME NEW place, job' = [job EXCEPT !.at = place], Keeps,
             place \in {"realtime", "batch", "recognized"} => BeforeAnswer, place # "start",
             place \in {"answer", "store"} => job.at \in {"answer", "store"}
      PROVE  HistoryInv'
  <2>1. job'.at = place /\ job'.history = job.history
    BY <1>j, <1>m DEF JobType
  <2>2. BeforeAnswer' => BeforeAnswer
    BY <1>m, <2>1 DEF BeforeAnswer
  <2> QED
    BY <1>a, <1>m, <2>1, <2>2
<1>1. CASE EmitStarted \/ Answer \/ EmitDone \/ EmitError
  <2>1. Keeps
    BY <1>1 DEF EmitStarted, Answer, EmitDone, EmitError, Memory
  <2>2. \/ job' = [job EXCEPT !.at = "clear"]
        \/ BeforeAnswer /\ job' = [job EXCEPT !.at = IF job.asr.open THEN "realtime" ELSE "batch"]
        \/ job.at \in {"answer", "confirm"} /\ job' = [job EXCEPT !.at = job.at]
    <3>1. EmitStarted => BeforeAnswer /\ \/ job' = [job EXCEPT !.at = "clear"]
                                         \/ job' = [job EXCEPT !.at = IF job.asr.open THEN "realtime" ELSE "batch"]
      BY DEF EmitStarted, Emit, Continue, BeforeAnswer
    <3>2. Answer => job.at \in {"answer", "confirm"} /\ \/ job' = [job EXCEPT !.at = "clear"]
                                                        \/ job' = [job EXCEPT !.at = job.at]
      BY DEF Answer, Emit, Continue
    <3>3. EmitDone \/ EmitError => job' = [job EXCEPT !.at = "clear"]
      BY DEF EmitDone, EmitError, Emit, Continue
    <3> QED
      BY <1>1, <3>1, <3>2, <3>3
  <2>3. CASE job' = [job EXCEPT !.at = "clear"]
    BY <1>m, <2>1, <2>3
  <2>4. CASE BeforeAnswer /\ job' = [job EXCEPT !.at = IF job.asr.open THEN "realtime" ELSE "batch"]
    BY <1>m, <2>1, <2>4
  <2>5. CASE job.at \in {"answer", "confirm"} /\ job' = [job EXCEPT !.at = job.at]
    BY <1>m, <2>1, <2>5
  <2> QED
    BY <2>2, <2>3, <2>4, <2>5
<1>2. CASE RealtimeASR
  <2>1. PICK place \in {"recognized", IF cancelled THEN "clear" ELSE "batch"} :
          job' = [job EXCEPT !.at = place, !.asr = NoStream]
    BY <1>2 DEF RealtimeASR
  <2>2. Keeps /\ BeforeAnswer
    BY <1>2 DEF RealtimeASR, Memory, BeforeAnswer
  <2>3. job'.at \notin {"answer", "store"}
    BY <1>j, <2>1 DEF JobType
  <2> QED
    BY <1>a, <2>2, <2>3
<1>3. CASE BatchASR
  <2>1. Keeps /\ BeforeAnswer
    BY <1>3 DEF BatchASR, JobOnly, Memory, BeforeAnswer
  <2>2. PICK place \in {"clear", "recognized", "error"} : job' = [job EXCEPT !.at = place]
    BY <1>3 DEF BatchASR, Continue
  <2> QED
    BY <1>m, <2>1, <2>2
<1>4. CASE AnswerEnds
  <2>1. Keeps
    BY <1>4 DEF AnswerEnds, JobOnly, Memory
  <2>2. PICK place \in {"store", "done", "clear", "error"} :
          job' = [job EXCEPT !.at = place] /\ (place = "store" => job.at = "answer")
    BY <1>4 DEF AnswerEnds, Continue
  <2> QED
    BY <1>m, <2>1, <2>2
<1>5. CASE ClearConversation
  <2>1. history' = <<>> /\ job' = [job EXCEPT !.at = "confirm"]
    BY <1>5 DEF ClearConversation, Continue
  <2>2. job'.at = "confirm"
    BY <1>j, <2>1 DEF JobType
  <2>3. Len(history') % 2 = 0 /\ \A i \in DOMAIN history' : FALSE
    BY <2>1
  <2>4. Paired(history') /\ Remembered' /\ Older'
    BY <2>3 DEF Paired, Remembered, Older
  <2> QED
    BY <2>2, <2>3, <2>4 DEF HistoryInv
<1>6. CASE Ask
  <2>1. PICK h \in BoundedHistories(Append(history, [role |-> "user", turn |-> job.turn])) :
          job' = [job EXCEPT !.at = "answer", !.history = h]
    BY <1>6, Zenon DEF Ask
  <2>2. job.at = "recognized" /\ UNCHANGED JobOnly
    BY <1>6, Zenon DEF Ask
  <2>3. Keeps
    BY <2>2 DEF JobOnly, Memory
  <2>4. Asked(h)
    BY <2>1, <2>2, AskedConversation
  <2>5. job'.at = "answer" /\ job'.history = h
    BY <1>j, <2>1 DEF JobType
  <2>6. Asked(job.history)'
    BY <1>b, <2>4, <2>5 DEF Asked
  <2>7. Remembered' /\ Older'
    BY <1>i, <1>b, <2>2, <2>3, <2>5 DEF HistoryInv, Remembered, Older, BeforeAnswer
  <2> QED
    BY <1>i, <2>3, <2>6, <2>7 DEF HistoryInv
<1>7. CASE Store
  <2>1. /\ Paired(history') /\ Len(history') % 2 = 0
        /\ \A i \in DOMAIN history' : history'[i].turn \notin dropped /\ history'[i].turn <= turn
    BY <1>7, StoredConversation DEF Store
  <2>2. lastResponseDiscardable' = TRUE /\ job' = [job EXCEPT !.at = "done"]
    BY <1>7 DEF Store, Continue
  <2>3. job'.at = "done" /\ phase' = "answering"
    BY <1>7, <1>i, <1>b, <1>j, <2>2 DEF Store, Attended, Working, JobType
  <2>4. Remembered' /\ Older'
    BY <1>b, <2>1, <2>2, <2>3 DEF Remembered, Older, BeforeAnswer
  <2> QED
    BY <2>1, <2>3, <2>4 DEF HistoryInv
<1>8. CASE Clear
  <2>1. Keeps /\ job'.at = "none"
    BY <1>8 DEF Clear, Memory, NoJob
  <2>2. BeforeAnswer' => BeforeAnswer
    BY <2>1 DEF BeforeAnswer
  <2> QED
    BY <1>a, <2>1, <2>2
<1> HIDE DEF Keeps
<1> QED
  BY <1>1, <1>2, <1>3, <1>4, <1>5, <1>6, <1>7, <1>8 DEF Run

LEMMA PrepareHistory == ASSUME PipelineInv, PrepareRealtimeASR PROVE HistoryInv'
<1>1. HistoryInv
  BY DEF PipelineInv
<1>2. UNCHANGED <<phase, turn, dropped, history, lastResponseDiscardable, job>>
  BY DEF PrepareRealtimeASR, Actor, Memory, Job
<1>3. Remembered' /\ Older'
  BY <1>1, <1>2 DEF HistoryInv, Remembered, Older, BeforeAnswer
<1>4. job'.at \in {"answer", "store"} => Asked(job.history)'
  BY <1>1, <1>2 DEF HistoryInv, Asked
<1> QED
  BY <1>1, <1>2, <1>3, <1>4 DEF HistoryInv

-----------------------------------------------------------------------------
(* The pipeline: its theorems.                                             *)

LEMMA NextPipelineInv == PipelineInv /\ [Next]_vars => PipelineInv'
<1> SUFFICES ASSUME PipelineInv, [Next]_vars PROVE PipelineInv'
  OBVIOUS
<1>1. CASE Caller
  BY <1>1, CallerTypes, CallerInput, CallerJob, CallerHistory DEF PipelineInv
<1>2. CASE Run
  BY <1>2, RunTypes, RunInput, RunJob, RunHistory DEF PipelineInv
<1>3. CASE PrepareRealtimeASR
  BY <1>3, PrepareTypes, PrepareInput, PrepareJob, PrepareHistory DEF PipelineInv
<1>4. CASE UNCHANGED vars
  <2>1. TypeOK'
    BY <1>4 DEF PipelineInv, TypeOK, vars
  <2>2. InputInv'
    BY <1>4 DEF PipelineInv, InputInv, vars
  <2>3. JobInv'
    BY <1>4 DEF PipelineInv, JobInv, Attended, Working, Quiet, Places, RealtimeHearsWholeTurn, vars
  <2>4. UNCHANGED <<phase, turn, dropped, history, lastResponseDiscardable, job>> /\ HistoryInv
    BY <1>4 DEF PipelineInv, vars
  <2>5. Remembered' /\ Older'
    BY <2>4 DEF HistoryInv, Remembered, Older, BeforeAnswer
  <2>6. job'.at \in {"answer", "store"} => Asked(job.history)'
    BY <2>4 DEF HistoryInv, Asked
  <2>7. HistoryInv'
    BY <2>4, <2>5, <2>6 DEF HistoryInv
  <2> QED
    BY <2>1, <2>2, <2>3, <2>7 DEF PipelineInv
<1> QED
  BY <1>1, <1>2, <1>3, <1>4 DEF Next

LEMMA PipelineInvSound == PipelineInv => PipelineSound
<1> SUFFICES ASSUME PipelineInv PROVE PipelineSound
  OBVIOUS
<1>1. TypeOK /\ RealtimeHearsWholeTurn /\ DroppedAnswerForgotten
  BY DEF PipelineInv, JobInv, HistoryInv, Remembered, DroppedAnswerForgotten
<1>2. history \in Seq(Message) /\ Paired(history) /\ Len(history) % 2 = 0
  BY DEF PipelineInv, TypeOK, HistoryInv
<1>3. ASSUME NEW i \in DOMAIN history
      PROVE  /\ (history[i].role = "user") = (i % 2 = 1)
             /\ i > 1 => IF i % 2 = 0 THEN history[i].turn = history[i - 1].turn
                         ELSE history[i].turn > history[i - 1].turn
  <2>1. (history[i].role = "user") = (i % 2 = 1) /\ (i % 2 = 0 => history[i].turn = history[i - 1].turn)
    BY <1>2 DEF Paired
  <2>2. ASSUME i > 1, i % 2 # 0 PROVE history[i].turn > history[i - 1].turn
    <3>1. i \in Int /\ i - 1 \in DOMAIN history /\ i - 1 < i
      BY <1>2, <2>2
    <3>2. history[i - 1].turn < history[i].turn
      BY <1>2, <2>2, <3>1 DEF Paired
    <3>3. history[i].turn \in Nat /\ history[i - 1].turn \in Nat
      BY <1>2, <3>1, MessageParts DEF Turns
    <3> QED
      BY <3>2, <3>3
  <2> QED
    BY <2>1, <2>2
<1>4. HistoryPaired
  BY <1>2, <1>3 DEF HistoryPaired
<1> QED
  BY <1>1, <1>4 DEF PipelineSound

\* Only a job at work sends events, and they are of the turn it answers.
LEMMA NextSilent ==
  ASSUME PipelineInv, [Next]_vars, Len(events') > Len(events)
  PROVE  Last(events').turn \notin dropped
<1>e. events \in Seq(Event) /\ Len(events) \in Nat /\ TypeOK /\ Attended
  BY DEF PipelineInv, TypeOK, JobInv
<1>1. CASE Run
  <2>1. WorksOn /\ Sends
    BY <1>1, <1>e, RunParts
  <2>n. events' # events
    BY <1>e
  <2>2. PICK last \in BOOLEAN : events' = Append(events, [turn |-> job.turn, last |-> last]) /\ Working
    BY <2>1, <2>n, Zenon DEF Sends
  <2>3. Last(events') = [turn |-> job.turn, last |-> last]
    BY <1>e, <2>2 DEF Last
  <2> QED
    BY <1>e, <2>2, <2>3 DEF Attended
<1>2. CASE Caller
  <2>1. events' = events \/ events' = <<>> \/ (events # <<>> /\ events' = Tail(events))
    BY <1>2, MovesParts DEF Caller, CallReturns, Moves, StartTurn, SendAudio, AppendToStream,
       DisableRealtimeASR, Commit, Cancel, Discard, DiscardLastResponse, Drain, TakeEvent, Close
  <2>2. ~(Len(events') > Len(events))
    BY <1>e, <2>1
  <2> QED
    BY <2>2
<1>3. CASE PrepareRealtimeASR \/ UNCHANGED vars
  <2>1. events' = events
    BY <1>3 DEF PrepareRealtimeASR, vars
  <2> QED
    BY <1>e, <2>1
<1> QED
  BY <1>1, <1>2, <1>3 DEF Next

LEMMA ProvidersStep == [ProvidersNext]_providersVars => [Next]_vars
  BY DEF ProvidersNext, PipelineOnly, OmniOnly, providersVars

LEMMA PipelineAlways == ProvidersSpec => []PipelineInv
<1>1. ProvidersInit => PipelineInv
  BY InitPipelineInv DEF ProvidersInit
<1>2. PipelineInv /\ [ProvidersNext]_providersVars => PipelineInv'
  BY ProvidersStep, NextPipelineInv
<1> QED
  BY <1>1, <1>2, PTL DEF ProvidersSpec

\* What the model is asked is whole pairs of question and answer in the order
\* of the turns, with nothing in it of a response that was cancelled or
\* discarded; and the stream that recognises a turn has heard exactly that
\* turn (qwenpipeline/pipeline.go), however many turns, bounds of the history
\* and places of the event queue there are.
THEOREM ConversationSound == ProvidersSpec => []PipelineSound
<1>1. PipelineInv => PipelineSound
  BY PipelineInvSound
<1> QED
  BY <1>1, PipelineAlways, PTL

\* A response sends no event once Cancel has returned or the response was
\* discarded.
THEOREM SilentAfterCancel == ProvidersSpec => NothingAfterCancel
<1>1. PipelineInv /\ [ProvidersNext]_providersVars
        => [Len(events') > Len(events) => Last(events').turn \notin dropped]_vars
  BY ProvidersStep, NextSilent
<1> QED
  BY <1>1, PipelineAlways, PTL DEF ProvidersSpec, NothingAfterCancel

-----------------------------------------------------------------------------
(* The omni session: the invariant.                                        *)

\* The model has refused nothing.
Calm == ~trace.complained

\* What the model has yet to be told, without an urgent clear; what it has said
\* and the session has not yet dealt with; what has yet to reach the actor.
Way == writer.held \o outbound.writes
Line == reader.held \o wire
Came == pump.held \o inner

NoCommit == \A i \in 1..Len(Way) : Way[i].kind # "commit"
Silent == model.running = 0 /\ Line = <<>>
Collecting == user.phase = "listening" /\ user.at \in {"rest", "rejected"}
Left == user.at \in {"closing", "closed"}

\* What the goroutines hold where they are.
OmniShapes ==
  /\ writer.at = "write" <=> writer.held # <<>>
  /\ reader.at \in {"publish", "finish"} <=> reader.held # <<>>
  /\ reader.at = "finish" => IsLast(Line[1].kind)
  /\ outbound.urgent # <<>> => outbound.urgent[1].kind = "clear"
  /\ \A i \in 1..Len(Way) : Way[i].kind = "clear" => i = 1 /\ writer.at = "write"
  /\ alive => writer.at # "ended" /\ reader.at # "ended"
  /\ ~alive => wire = <<>> /\ model = FreshModel
  /\ ~pump.open => user.phase # "answering" /\ user.sent = 0 /\ ~response.requested
                   /\ user.at \notin {"clear", "cancel", "wait"}
                   /\ Way = <<>> /\ outbound.urgent = <<>> /\ model = FreshModel

\* Where the actor is in a call, and what has been cut.
OmniPlaces ==
  /\ response.wait \in {"ok", "error"} => ~response.requested
  /\ user.at \in {"rest", "rejected", "clear", "discard", "drain"} => response.wait = "none"
  /\ user.at \in {"cancel", "wait"} => response.wait # "none"
  /\ user.at \in {"clear", "discard", "drain"} => ~response.requested
  /\ user.at \in {"clear", "cancel", "wait", "drain"} => user.phase # "idle"
  /\ user.at = "discard" => user.phase = "answering"
  /\ user.at = "rejected" => user.phase = "listening"
  /\ user.at \in {"discard", "drain"} => user.turn \in trace.cut
  /\ user.phase # "idle" => user.turn > 0
  /\ user.phase = "answering" => user.sent > 0
  /\ trace.foreign => user.at = "rest" /\ user.phase # "listening"
  /\ \A t \in trace.cut : t <= user.turn
  /\ user.turn \in trace.cut =>
       /\ ~trace.foreign
       /\ user.phase # "idle" => ~response.requested /\ (Left \/ user.at \in {"discard", "drain"})

\* A turn is asked for by its commit and named by its cancel.
AskedFor(t) == t <= user.turn /\ (t = user.turn => user.phase # "listening")
Named(t) == t <= user.turn /\ (t = user.turn /\ user.phase = "listening" =>
                                 user.at \notin {"rest", "rejected", "clear"})

OmniNumbers ==
  /\ AskedFor(model.running) \/ model.running = 0
  /\ \A t \in model.kept : AskedFor(t)
  /\ \A i \in 1..Len(Way) : /\ Way[i].kind = "commit" => AskedFor(Way[i].turn)
                            /\ Way[i].kind = "cancel" => Named(Way[i].turn)
                            /\ Way[i].kind = "append" => Way[i].gen <= outbound.gen
  /\ \A i \in 1..Len(Line) : Named(Line[i].turn)
  /\ \A i \in 1..Len(Came) : Named(Came[i].turn)
  /\ outbound.gen <= user.turn
  /\ user.phase # "idle" /\ user.at \in {"rest", "rejected"} => outbound.gen < user.turn

\* A response that runs is the one the actor waits for, and the end of it has
\* not come yet.
Awaited ==
  response.requested /\ reader.at # "finish" =>
    /\ user.phase = "answering" \/ trace.foreign
    /\ user.phase = "answering" =>
         \A i \in 1..Len(Came) : Came[i].last => Came[i].turn # user.turn

\* A commit, a running response and its last message are never there together;
\* behind the commit there is only its own cancel, and nobody overtakes it.
OneResponse ==
  Calm /\ alive =>
    /\ ~response.requested \/ ~NoCommit => Silent
    /\ ~response.requested => NoCommit
    /\ model.running \in {0, user.turn}
    /\ reader.at = "finish" => model.running = 0
    /\ \A i \in 1..Len(Line) :
         /\ reader.at # "finish" => Line[i].turn = user.turn
         /\ IsLast(Line[i].kind) => i = Len(Line) /\ model.running = 0
         /\ Line[i].kind # "error"

CommitLast ==
  Calm /\ alive =>
    /\ \A i \in 1..Len(Way) : Way[i].kind = "commit" =>
         /\ Way[i].turn = user.turn /\ Way[i].size = user.sent
         /\ \A j \in (i + 1)..Len(Way) : Way[j].kind = "cancel"
         /\ i < Len(Way) => user.at = "wait" \/ Left
    /\ response.requested /\ NoCommit /\ reader.at # "finish" =>
         /\ \A i \in 1..Len(Way) : Way[i].kind = "cancel"
         /\ Way # <<>> => user.at = "wait" \/ Left
         /\ outbound.urgent = <<>>
    /\ outbound.urgent # <<>> =>
         /\ writer.at # "look" /\ Way # <<>> => Way[1].kind # "commit"
         /\ writer.at = "select" /\ user.at = "rest" /\ user.phase = "listening" /\ user.sent > 0
              => Way # <<>>

\* What is being published is of the turn, which has not been cut; a session
\* that breaks meanwhile has let its Cancel fail.
Fence ==
  Calm /\ reader.at = "publish" =>
    /\ Line[1].turn = user.turn /\ user.turn \notin trace.cut /\ Line[1].kind # "error"
    /\ user.phase = "answering" \/ trace.foreign
    /\ ~alive => Left \/ (user.at = "wait" /\ response.wait = "error")

\* The actor has nothing to hear but its turn's events, the last one last.
Heard ==
  Calm /\ ~trace.left =>
    /\ ~trace.foreign
    /\ user.phase # "answering" /\ user.at # "drain" /\ ~Left => Came = <<>>
    /\ \A i \in 1..Len(Came) :
         /\ Came[i].turn = user.turn
         /\ Came[i].last => i = Len(Came) /\ reader.at # "publish"

\* An answer that was cut is about to be deleted; that of the turn is the one
\* that a discard deletes.
Deleting(t) == \E i \in 1..Len(Way) : Way[i].kind = "delete" /\ Way[i].turn = t
Forgetting ==
  Calm /\ alive =>
    /\ \A t \in model.kept \cap trace.cut :
         \/ Deleting(t)
         \/ t = user.turn /\ user.at = "discard" /\ response.item = t
         \/ Left /\ NoCommit
    /\ user.turn \in model.kept \ trace.cut =>
         response.item = user.turn \/ \E i \in 1..Len(wire) : wire[i].item /\ wire[i].turn = user.turn

\* Audio that is going to be sent; a clear that is going to empty the input.
Fresh(batch) == batch.kind = "append" /\ batch.gen = outbound.gen
ClearComes == outbound.urgent # <<>> \/ (Way # <<>> /\ Way[1].kind = "clear") \/ user.at = "clear"

\* The pieces of the turn on the way, and that the model has the others: they
\* are the last ones before the place end.
Pieces == IF ClearComes THEN user.sent ELSE user.sent - Len(model.input)
Arriving(end) ==
  /\ Pieces \in 0..user.sent /\ Pieces <= end
  /\ \A i \in 1..end : Fresh(Way[i]) <=> i > end - Pieces
  /\ \A i \in 1..end : Fresh(Way[i]) => Way[i].turn = user.turn
  /\ Pieces < user.sent => Pieces = end
  /\ ClearComes \/ \A i \in 1..Len(model.input) : model.input[i] = user.turn

Hearing ==
  Calm /\ alive /\ ~trace.overtaken /\ ~trace.mistaken =>
    /\ Collecting => Arriving(Len(Way))
    /\ \A c \in 1..Len(Way) : Way[c].kind = "commit" => Arriving(c - 1)
    /\ NoCommit /\ ~Collecting /\ ~Left =>
         /\ ClearComes \/ model.input = <<>>
         /\ \A i \in 1..Len(Way) : ~Fresh(Way[i])
    /\ outbound.urgent # <<>> /\ writer.at = "write" => ~Fresh(Way[1])

OmniInv ==
  /\ OmniTypeOK /\ OmniShapes /\ OmniPlaces /\ OmniNumbers
  /\ Awaited /\ OneResponse /\ CommitLast /\ Fence /\ Heard /\ Forgetting /\ Hearing
  /\ HearsWholeTurn /\ CutAnswerForgotten

-----------------------------------------------------------------------------
(* How the three lines move.                                               *)

Grown(q, x, r) == /\ Len(r) = Len(q) + 1 /\ r[Len(q) + 1] = x
                  /\ \A i \in 1..Len(q) : r[i] = q[i]
Shrunk(q, r) == Len(q) = Len(r) + 1 /\ \A i \in 1..Len(r) : r[i] = q[i + 1]

LEMMA Pairs ==
  ASSUME NEW S, NEW h \in AtMostOne(S), NEW q \in Seq(S)
  PROVE  /\ h \o q \in Seq(S) /\ Len(h \o q) \in Nat /\ (h \o q = <<>> <=> Len(h \o q) = 0)
         /\ h = <<>> => h \o q = q
         /\ h # <<>> => /\ h[1] \in S /\ Len(h \o q) = Len(q) + 1 /\ (h \o q)[1] = h[1]
                        /\ Shrunk(h \o q, q)
         /\ h \o q = <<>> <=> h = <<>> /\ q = <<>>
<1>1. CASE h = <<>>
  BY <1>1, ConcatEmptySeq
<1>2. ASSUME NEW x \in S, h = <<x>> PROVE
         /\ h \o q \in Seq(S) /\ Len(h \o q) \in Nat
         /\ Len(h \o q) = Len(q) + 1 /\ (h \o q)[1] = h[1] /\ h[1] \in S
         /\ Shrunk(h \o q, q) /\ h \o q # <<>> /\ h # <<>>
  <2>1. h \in Seq(S) /\ Len(h) = 1 /\ h[1] = x
    BY <1>2
  <2>2. /\ h \o q \in Seq(S) /\ Len(h \o q) = 1 + Len(q)
        /\ \A i \in 1..(1 + Len(q)) : (h \o q)[i] = IF i <= 1 THEN h[i] ELSE q[i - 1]
    <3>1. /\ h \o q \in Seq(S) /\ Len(h \o q) = Len(h) + Len(q)
          /\ \A i \in 1..(Len(h) + Len(q)) : (h \o q)[i] = IF i <= Len(h) THEN h[i] ELSE q[i - Len(h)]
      BY <2>1, ConcatProperties
    <3> HIDE <1>2
    <3> QED
      BY <2>1, <3>1
  <2> QED
    BY <2>1, <2>2 DEF Shrunk
<1> QED
  BY <1>1, <1>2 DEF AtMostOne

LEMMA AppendGrows ==
  ASSUME NEW S, NEW q \in Seq(S), NEW x \in S
  PROVE  Append(q, x) \in Seq(S) /\ Grown(q, x, Append(q, x)) /\ Len(q) \in Nat
BY AppendProperties DEF Grown

LEMMA TailShrinks ==
  ASSUME NEW S, NEW q \in Seq(S), q # <<>>
  PROVE  /\ Tail(q) \in Seq(S) /\ Shrunk(q, Tail(q)) /\ Head(q) = q[1] /\ Head(q) \in S
         /\ Len(Tail(q)) \in Nat
BY HeadTailProperties DEF Shrunk

\* Growing at the end does not depend on what is held in front.
LEMMA PairGrows ==
  ASSUME NEW S, NEW h \in AtMostOne(S), NEW q \in Seq(S), NEW x \in S
  PROVE  Grown(h \o q, x, h \o Append(q, x))
<1>1. Append(q, x) \in Seq(S) /\ Grown(q, x, Append(q, x)) /\ Len(q) \in Nat
  BY AppendGrows
<1>2. CASE h = <<>>
  BY <1>1, <1>2, ConcatEmptySeq
<1>3. CASE h # <<>>
  <2>1. /\ Len(h \o q) = Len(q) + 1 /\ (h \o q)[1] = h[1] /\ Shrunk(h \o q, q)
        /\ Len(h \o Append(q, x)) = Len(Append(q, x)) + 1 /\ (h \o Append(q, x))[1] = h[1]
        /\ Shrunk(h \o Append(q, x), Append(q, x))
    <3>1. Len(h \o q) = Len(q) + 1 /\ (h \o q)[1] = h[1] /\ Shrunk(h \o q, q)
      BY <1>3, Pairs
    <3>2. /\ Len(h \o Append(q, x)) = Len(Append(q, x)) + 1 /\ (h \o Append(q, x))[1] = h[1]
          /\ Shrunk(h \o Append(q, x), Append(q, x))
      <4> DEFINE r == Append(q, x)
      <4>1. r \in Seq(S)
        BY <1>1
      <4> HIDE DEF r
      <4>2. Len(h \o r) = Len(r) + 1 /\ (h \o r)[1] = h[1] /\ Shrunk(h \o r, r)
        BY <1>3, <4>1, Pairs
      <4> QED
        BY <4>2 DEF r
    <3> QED
      BY <3>1, <3>2
  <2> DEFINE a == h \o q
             b == h \o Append(q, x)
             c == Append(q, x)
  <2>2. Len(a) = Len(q) + 1 /\ Len(b) = Len(a) + 1 /\ Len(c) = Len(q) + 1
    BY <1>1, <2>1 DEF Grown
  <2>3. b[Len(a) + 1] = x
    <3> HIDE DEF a, b, c
    <3>1. b[Len(q) + 2] = c[Len(q) + 1]
      BY <1>1, <2>1, <2>2 DEF Shrunk, a, b, c
    <3> QED
      BY <1>1, <2>2, <3>1 DEF Grown, c
  <2>4. ASSUME NEW i \in 1..Len(a) PROVE b[i] = a[i]
    <3>1. CASE i = 1
      BY <2>1, <3>1
    <3>2. CASE i # 1
      <4> DEFINE j == i - 1
      <4>1. j \in 1..Len(q) /\ j \in 1..Len(c) /\ i = j + 1
        BY <1>1, <2>2, <2>4, <3>2
      <4> HIDE DEF a, b, c, j
      <4>2. b[j + 1] = c[j] /\ a[j + 1] = q[j] /\ c[j] = q[j]
        BY <1>1, <2>1, <4>1 DEF Shrunk, Grown, a, b, c
      <4> QED
        BY <4>1, <4>2
    <3> QED
      BY <3>1, <3>2
  <2> QED
    BY <2>2, <2>3, <2>4 DEF Grown
<1> QED
  BY <1>2, <1>3

-----------------------------------------------------------------------------
(* The omni session: types.                                                *)

UserSet == [at : {"rest", "rejected", "clear", "cancel", "wait", "discard", "drain",
                  "closing", "closed"},
            phase : {"idle", "listening", "answering"}, turn : 0..OmniTurns,
            sent : 0..OmniPcm, latch : 0..OmniTurns]
PumpSet == [at : {"opening", "run", "closing", "ended"}, open : BOOLEAN, held : AtMostOne(Output)]
OutboundSet == [writes : Seq(Batch), urgent : AtMostOne(Batch), gen : 0..OmniTurns]
ResponseSet == [requested : BOOLEAN, gate : 0..OmniTurns, canceled : BOOLEAN,
                wait : {"none", "waiting", "ok", "error"}, item : 0..OmniTurns]
WriterSet == [at : {"look", "select", "write", "ended"}, held : AtMostOne(Batch)]
ReaderSet == [at : {"read", "publish", "finish", "ended"}, held : AtMostOne(Signal),
              gate : 0..OmniTurns]
ModelSet == [input : Seq(OmniTurn), running : 0..OmniTurns, said : 0..(OmniDeltas + 1),
             kept : SUBSET OmniTurn]
TraceSet == [cut : SUBSET OmniTurn, left : BOOLEAN, complained : BOOLEAN, overtaken : BOOLEAN,
             mistaken : BOOLEAN, mixed : BOOLEAN, haunted : BOOLEAN, foreign : BOOLEAN]

OutboundTyped == outbound \in OutboundSet /\ Len(outbound.writes) <= OmniQueue
InnerTyped == inner \in Seq(Output) /\ Len(inner) <= OmniQueue

LEMMA OmniTyped ==
  OmniTypeOK <=>
    /\ user \in UserSet /\ pump \in PumpSet /\ OutboundTyped /\ response \in ResponseSet
    /\ writer \in WriterSet /\ reader \in ReaderSet /\ InnerTyped /\ alive \in BOOLEAN
    /\ model \in ModelSet /\ wire \in Seq(Signal) /\ trace \in TraceSet
BY DEF OmniTypeOK, UserSet, PumpSet, OutboundSet, ResponseSet, WriterSet, ReaderSet, ModelSet,
       TraceSet, OutboundTyped, InnerTyped

LEMMA OmniTypedNext ==
  OmniTypeOK' <=>
    /\ user' \in UserSet /\ pump' \in PumpSet /\ OutboundTyped' /\ response' \in ResponseSet
    /\ writer' \in WriterSet /\ reader' \in ReaderSet /\ InnerTyped' /\ alive' \in BOOLEAN
    /\ model' \in ModelSet /\ wire' \in Seq(Signal) /\ trace' \in TraceSet
BY DEF OmniTypeOK, UserSet, PumpSet, OutboundSet, ResponseSet, WriterSet, ReaderSet, ModelSet,
       TraceSet, OutboundTyped, InnerTyped

OmniBounds == OmniTurns \in Nat \ {0} /\ OmniPcm \in Nat \ {0} /\ OmniQueue \in Nat \ {0}
              /\ OmniDeltas \in Nat \ {0}

LEMMA OmniBoundsHold == OmniBounds
BY OmniAssumption DEF OmniAssumption, OmniBounds

LEMMA OneOrNone == \A S : <<>> \in AtMostOne(S) /\ \A x \in S : <<x>> \in AtMostOne(S)
BY DEF AtMostOne

\* What the pieces of the three lines are.
Lines(w, o, r, q, p, i) ==
  /\ w \o o \in Seq(Batch) /\ Len(w \o o) \in Nat /\ (w \o o = <<>> <=> Len(w \o o) = 0)
  /\ w = <<>> => w \o o = o
  /\ w # <<>> => (w \o o)[1] = w[1] /\ Len(w \o o) > 0 /\ Shrunk(w \o o, o) /\ w[1] \in Batch
  /\ r \o q \in Seq(Signal) /\ Len(r \o q) \in Nat /\ (r \o q = <<>> <=> Len(r \o q) = 0)
  /\ r = <<>> => r \o q = q
  /\ r # <<>> => (r \o q)[1] = r[1] /\ Len(r \o q) > 0 /\ Shrunk(r \o q, q) /\ r[1] \in Signal
  /\ r \o q = <<>> <=> r = <<>> /\ q = <<>>
  /\ p \o i \in Seq(Output) /\ Len(p \o i) \in Nat /\ (p \o i = <<>> <=> Len(p \o i) = 0)
  /\ p = <<>> => p \o i = i
  /\ p # <<>> => (p \o i)[1] = p[1] /\ Len(p \o i) > 0 /\ Shrunk(p \o i, i) /\ p[1] \in Output
  /\ p \o i = <<>> <=> p = <<>> /\ i = <<>>

LEMMA LinesHold ==
  ASSUME NEW w \in AtMostOne(Batch), NEW o \in Seq(Batch), NEW r \in AtMostOne(Signal),
         NEW q \in Seq(Signal), NEW p \in AtMostOne(Output), NEW i \in Seq(Output)
  PROVE  Lines(w, o, r, q, p, i)
<1>1. \A S : \A h \in AtMostOne(S), s \in Seq(S) :
        /\ h \o s \in Seq(S) /\ Len(h \o s) \in Nat /\ (h \o s = <<>> <=> Len(h \o s) = 0)
        /\ h = <<>> => h \o s = s
        /\ h # <<>> => (h \o s)[1] = h[1] /\ Len(h \o s) > 0 /\ Shrunk(h \o s, s) /\ h[1] \in S
        /\ h \o s = <<>> <=> h = <<>> /\ s = <<>>
  <2> TAKE S
  <2> TAKE h \in AtMostOne(S), s \in Seq(S)
  <2>1. Len(s) \in Nat
    OBVIOUS
  <2> QED
    BY <2>1, Pairs, SMTT(30)
<1>2. w \in AtMostOne(Batch) /\ o \in Seq(Batch)
  OBVIOUS
<1>3. /\ w \o o \in Seq(Batch) /\ Len(w \o o) \in Nat /\ (w \o o = <<>> <=> Len(w \o o) = 0)
      /\ w = <<>> => w \o o = o
      /\ w # <<>> => (w \o o)[1] = w[1] /\ Len(w \o o) > 0 /\ Shrunk(w \o o, o) /\ w[1] \in Batch
  BY <1>1, <1>2, Zenon
<1>4. /\ r \o q \in Seq(Signal) /\ Len(r \o q) \in Nat /\ (r \o q = <<>> <=> Len(r \o q) = 0)
      /\ r = <<>> => r \o q = q
      /\ r # <<>> => (r \o q)[1] = r[1] /\ Len(r \o q) > 0 /\ Shrunk(r \o q, q) /\ r[1] \in Signal
      /\ r \o q = <<>> <=> r = <<>> /\ q = <<>>
  BY <1>1, Zenon
<1>5. /\ p \o i \in Seq(Output) /\ Len(p \o i) \in Nat /\ (p \o i = <<>> <=> Len(p \o i) = 0)
      /\ p = <<>> => p \o i = i
      /\ p # <<>> => (p \o i)[1] = p[1] /\ Len(p \o i) > 0 /\ Shrunk(p \o i, i) /\ p[1] \in Output
      /\ p \o i = <<>> <=> p = <<>> /\ i = <<>>
  BY <1>1, Zenon
<1> QED
  BY <1>3, <1>4, <1>5, Zenon DEF Lines

LEMMA LinesNow ==
  ASSUME OmniTypeOK
  PROVE  Lines(writer.held, outbound.writes, reader.held, wire, pump.held, inner)
BY LinesHold, OmniTyped DEF OutboundTyped, InnerTyped, OutboundSet, WriterSet, ReaderSet, PumpSet

LEMMA LinesNext ==
  ASSUME OmniTypeOK'
  PROVE  Lines(writer.held, outbound.writes, reader.held, wire, pump.held, inner)'
BY LinesHold, OmniTypedNext DEF OutboundTyped, InnerTyped, OutboundSet, WriterSet, ReaderSet, PumpSet

LEMMA BatchTyped ==
  ASSUME user \in UserSet, OutboundTyped, NEW kind \in Kinds, NEW t \in OmniTurn
  PROVE  BatchOf(kind, t) \in Batch
BY DEF UserSet, OutboundTyped, OutboundSet, BatchOf, Batch

LEMMA EnqueueTyped ==
  ASSUME OutboundTyped, NEW batch \in Batch, HasRoom, Enqueue(batch)
  PROVE  OutboundTyped'
<1>1. /\ Append(outbound.writes, batch) \in Seq(Batch)
      /\ Len(Append(outbound.writes, batch)) = Len(outbound.writes) + 1 /\ Len(outbound.writes) \in Nat
  BY AppendProperties DEF OutboundTyped, OutboundSet
<1>2. outbound' \in OutboundSet /\ outbound'.writes = Append(outbound.writes, batch)
  BY <1>1 DEF Enqueue, OutboundTyped, OutboundSet
<1>3. OmniQueue \in Nat
  BY OmniBoundsHold DEF OmniBounds
<1> QED
  BY <1>1, <1>2, <1>3 DEF HasRoom, OutboundTyped

LEMMA UserTypes == ASSUME OmniInv, User PROVE user' \in UserSet
<1>1. user \in UserSet /\ pump \in PumpSet
  BY OmniTyped DEF OmniInv
<1>2. OmniTurns \in Nat /\ OmniPcm \in Nat
  BY OmniBoundsHold DEF OmniBounds
<1>3. CASE OmniStartTurn
  <2>1. user.turn + 1 \in 0..OmniTurns /\ 0 \in 0..OmniTurns /\ 0 \in 0..OmniPcm
    BY <1>1, <1>2, <1>3 DEF OmniStartTurn, UserSet
  <2> DEFINE first == [user EXCEPT !.phase = "listening", !.turn = @ + 1]
  <2>2. first \in UserSet
    BY <1>1, <2>1 DEF UserSet
  <2>3. user' = [first EXCEPT !.sent = 0, !.latch = 0]
    BY <1>3 DEF OmniStartTurn
  <2> HIDE DEF first
  <2> QED
    BY <2>1, <2>2, <2>3 DEF UserSet
<1>4. CASE OmniSendAudio
  <2>1. user.sent \in 0..OmniPcm /\ (user.sent < OmniPcm => user.sent + 1 \in 0..OmniPcm)
    BY <1>1, <1>2 DEF UserSet
  <2>2. user' = [user EXCEPT !.sent = @ + 1] \/ user' = [user EXCEPT !.at = "rejected"]
    BY <1>4 DEF OmniSendAudio, UserGoes
  <2>3. user.sent < OmniPcm
    BY <1>4 DEF OmniSendAudio
  <2> DEFINE more == user.sent + 1
  <2>4. more \in 0..OmniPcm /\ (user' = [user EXCEPT !.sent = more] \/ user' = [user EXCEPT !.at = "rejected"])
    BY <2>1, <2>2, <2>3
  <2> HIDE DEF more
  <2> QED
    BY <1>1, <2>4 DEF UserSet
<1>5. CASE OmniCommit
  BY <1>1, <1>5 DEF OmniCommit, UserGoes, UserSet
<1>6. CASE CancelUnopened \/ CancelInput \/ EnqueueClear \/ CancelResponse \/ EnqueueCancel
           \/ CancelAnswered \/ CancelRunsOut \/ DiscardCancelled \/ UserCloses \/ UserClosed
  BY <1>1, <1>6 DEF CancelUnopened, CancelInput, EnqueueClear, CancelResponse, EnqueueCancel,
     CancelAnswered, CancelRunsOut, DiscardCancelled, UserCloses, UserClosed, UserGoes, UserSet
<1>7. CASE DiscardCompleted \/ DrainOne
  BY <1>1, <1>7 DEF DiscardCompleted, DrainOne
<1>8. CASE DrainEnds
  <2>1. 0 \in 0..OmniTurns /\ 0 \in 0..OmniPcm
    BY <1>2
  <2> DEFINE first == [user EXCEPT !.at = "rest", !.phase = "idle"]
  <2>2. first \in UserSet
    BY <1>1 DEF UserSet
  <2>3. user' = [first EXCEPT !.sent = 0, !.latch = 0]
    BY <1>8 DEF DrainEnds
  <2> HIDE DEF first
  <2> QED
    BY <2>1, <2>2, <2>3 DEF UserSet
<1>9. CASE Receives
  <2>1. pump.held[1] \in Output
    BY <1>1, <1>9 DEF Receives, PumpSet, AtMostOne
  <2>2. pump.held[1].turn \in 0..OmniTurns
    BY <1>2, <2>1 DEF Output, OmniTurn
  <2>3. ASSUME NEW event \in Output, event.turn \in 0..OmniTurns, Hears(event) PROVE user' \in UserSet
    <3> DEFINE latch == IF user.latch = 0 /\ ~event.error THEN event.turn ELSE user.latch
               own == event.error \/ event.turn = latch
               next == IF own /\ event.last THEN "idle" ELSE user.phase
    <3>1. latch \in 0..OmniTurns /\ next \in {"idle", "listening", "answering"}
      BY <1>1, <2>3 DEF UserSet
    <3>2. user' = user \/ user' = [user EXCEPT !.latch = latch, !.phase = next]
      BY <2>3 DEF Hears
    <3> HIDE DEF latch, next
    <3>3. [user EXCEPT !.latch = latch, !.phase = next] \in UserSet
      BY <1>1, <3>1 DEF UserSet
    <3> QED
      BY <1>1, <3>2, <3>3
  <2> QED
    BY <1>9, <2>1, <2>2, <2>3 DEF Receives
<1> QED
  BY <1>3, <1>4, <1>5, <1>6, <1>7, <1>8, <1>9 DEF User, CallGoesOn

LEMMA UserOutbound == ASSUME OmniInv, User PROVE OutboundTyped'
<1>1. /\ user \in UserSet /\ OutboundTyped /\ response \in ResponseSet
      /\ OmniPlaces
      /\ user.phase # "idle" /\ user.at \in {"rest", "rejected"} => outbound.gen < user.turn
  BY OmniTyped DEF OmniInv, OmniNumbers
<1>2. user.phase # "idle" => user.turn \in OmniTurn
  BY <1>1 DEF OmniPlaces, UserSet, OmniTurn
<1>3. response.item # 0 => response.item \in OmniTurn
  BY <1>1 DEF ResponseSet, OmniTurn
<1>4. user.phase # "idle" => \A kind \in Kinds : BatchOf(kind, user.turn) \in Batch
  BY <1>1, <1>2, BatchTyped
<1>5. response.item # 0 => BatchOf("delete", response.item) \in Batch
  BY <1>1, <1>3, BatchTyped DEF Kinds
<1>6. CASE outbound' = outbound
  BY <1>1, <1>6 DEF OutboundTyped
<1>7. CASE OmniSendAudio
  BY <1>1, <1>4, <1>6, <1>7, EnqueueTyped DEF OmniSendAudio, Accepts, Kinds
<1>8. CASE OmniCommit
  BY <1>1, <1>4, <1>6, <1>8, EnqueueTyped DEF OmniCommit, Accepts, Kinds
<1>9. CASE CancelInput
  <2>1. outbound.gen + 1 \in 0..OmniTurns
    BY <1>1, <1>9, OmniBoundsHold DEF CancelInput, UserSet, OutboundTyped, OutboundSet, OmniBounds
  <2> QED
    BY <1>1, <1>9, <2>1 DEF CancelInput, OutboundTyped, OutboundSet
<1>10. CASE EnqueueClear
  <2>1. <<BatchOf("clear", user.turn)>> \in AtMostOne(Batch)
    BY <1>1, <1>4, <1>10, OneOrNone DEF EnqueueClear, UserAt, OmniPlaces, Kinds
  <2> QED
    BY <1>1, <1>6, <1>10, <2>1 DEF EnqueueClear, OutboundTyped, OutboundSet
<1>11. CASE EnqueueCancel
  <2>1. user.phase # "idle"
    BY <1>1, <1>11 DEF EnqueueCancel, UserAt, OmniPlaces
  <2> QED
    BY <1>1, <1>4, <1>6, <1>11, <2>1, EnqueueTyped DEF EnqueueCancel, Kinds
<1>12. CASE DiscardCancelled \/ DiscardCompleted
  BY <1>1, <1>5, <1>6, <1>12, EnqueueTyped DEF DiscardCancelled, DiscardCompleted, DiscardItem, CanDiscard
<1> QED
  BY <1>6, <1>7, <1>8, <1>9, <1>10, <1>11, <1>12 DEF User, CallGoesOn, OmniStartTurn, CancelUnopened,
     CancelResponse, CancelAnswered, CancelRunsOut, DrainOne, DrainEnds, Receives, UserCloses, UserClosed

LEMMA UserResponse == ASSUME OmniInv, User PROVE response' \in ResponseSet
<1>1. user \in UserSet /\ response \in ResponseSet
  BY OmniTyped DEF OmniInv
<1>2. 0 \in 0..OmniTurns
  BY OmniBoundsHold DEF OmniBounds
<1>3. CASE OmniCommit
  <2>1. user.turn \in 0..OmniTurns
    BY <1>1 DEF UserSet
  <2>2. \/ response' = [response EXCEPT !.requested = TRUE, !.gate = user.turn, !.canceled = FALSE]
        \/ response' = response
        \/ response' = [response EXCEPT !.gate = 0, !.canceled = FALSE]
    BY <1>3 DEF OmniCommit
  <2> QED
    BY <1>1, <1>2, <2>1, <2>2 DEF ResponseSet
<1>4. CASE CancelResponse \/ CancelAnswered
  BY <1>1, <1>4 DEF CancelResponse, CancelAnswered, ResponseSet
<1>5. CASE DiscardCancelled \/ DiscardCompleted
  BY <1>1, <1>2, <1>5 DEF DiscardCancelled, DiscardCompleted, DiscardItem, ResponseSet
<1> QED
  BY <1>1, <1>3, <1>4, <1>5 DEF User, CallGoesOn, OmniStartTurn, OmniSendAudio, CancelUnopened,
     CancelInput, EnqueueClear, EnqueueCancel, CancelRunsOut, DrainOne, DrainEnds, Receives,
     UserCloses, UserClosed

LEMMA UserTrace == ASSUME OmniInv, User PROVE trace' \in TraceSet
<1>1. user \in UserSet /\ trace \in TraceSet /\ OmniPlaces
  BY OmniTyped DEF OmniInv
<1>2. ASSUME user.turn \in OmniTurn, Returned(user.turn) PROVE trace' \in TraceSet
  BY <1>1, <1>2 DEF Returned, TraceSet
<1>3. user.turn > 0 => user.turn \in OmniTurn
  BY <1>1 DEF UserSet, OmniTurn
<1>4. CASE CancelUnopened \/ EnqueueClear \/ CancelAnswered \/ DiscardCompleted
  <2>1. user.turn > 0
    BY <1>1, <1>4 DEF CancelUnopened, EnqueueClear, CancelAnswered, DiscardCompleted, OmniPlaces, UserAt
  <2> QED
    BY <1>1, <1>2, <1>3, <1>4, <2>1 DEF CancelUnopened, EnqueueClear, CancelAnswered, DiscardCompleted
<1>5. CASE CancelResponse
  BY <1>1, <1>5 DEF CancelResponse, TakenForResponse, TraceSet
<1>6. CASE DrainEnds
  BY <1>1, <1>6 DEF DrainEnds, TraceSet
<1>7. CASE Receives
  BY <1>1, <1>7 DEF Receives, Hears, TraceSet
<1> QED
  BY <1>1, <1>4, <1>5, <1>6, <1>7 DEF User, CallGoesOn, OmniStartTurn, OmniSendAudio, OmniCommit,
     CancelInput, EnqueueCancel, CancelRunsOut, DiscardCancelled, DrainOne, UserCloses, UserClosed

LEMMA UserTyped ==
  ASSUME OmniInv, User
  PROVE  OmniTypeOK' /\ UNCHANGED <<writer, reader, inner, alive, model, wire>>
<1>1. OmniTypeOK
  BY DEF OmniInv
<1>2. UNCHANGED <<writer, reader, inner, alive, model, wire>>
  BY DEF User, CallGoesOn, OmniStartTurn, OmniSendAudio, OmniCommit, CancelUnopened, CancelInput,
     EnqueueClear, CancelResponse, EnqueueCancel, CancelAnswered, CancelRunsOut, DiscardCancelled,
     DiscardCompleted, DrainOne, DrainEnds, Receives, UserCloses, UserClosed, Session
<1>3. pump' \in PumpSet
  <2>1. pump \in PumpSet /\ <<>> \in AtMostOne(Output)
    BY <1>1, OmniTyped, OneOrNone
  <2>2. pump' = pump \/ pump' = [pump EXCEPT !.held = <<>>]
    BY DEF User, CallGoesOn, OmniStartTurn, OmniSendAudio, OmniCommit, CancelUnopened, CancelInput,
       EnqueueClear, CancelResponse, EnqueueCancel, CancelAnswered, CancelRunsOut, DiscardCancelled,
       DiscardCompleted, DrainOne, DrainEnds, Receives, UserCloses, UserClosed
  <2> QED
    BY <2>1, <2>2 DEF PumpSet
<1>4. user' \in UserSet /\ OutboundTyped' /\ response' \in ResponseSet /\ trace' \in TraceSet
  BY UserTypes, UserOutbound, UserResponse, UserTrace
<1>5. /\ writer' \in WriterSet /\ reader' \in ReaderSet /\ InnerTyped' /\ alive' \in BOOLEAN
      /\ model' \in ModelSet /\ wire' \in Seq(Signal)
  BY <1>1, <1>2, OmniTyped DEF InnerTyped
<1> QED
  BY <1>2, <1>3, <1>4, <1>5, OmniTypedNext

LEMMA FreshModelTyped == FreshModel \in ModelSet /\ <<>> \in Seq(Signal) /\ FALSE \in BOOLEAN
<1>1. OmniDeltas \in Nat /\ OmniTurns \in Nat /\ <<>> \in Seq(OmniTurn) /\ <<>> \in Seq(Signal)
  BY OmniBoundsHold, EmptySeq DEF OmniBounds
<1> QED
  BY <1>1 DEF FreshModel, ModelSet

LEMMA PumpTyped == ASSUME OmniInv, Pump PROVE OmniTypeOK'
<1>1. /\ user \in UserSet /\ pump \in PumpSet /\ OutboundTyped /\ response \in ResponseSet
      /\ writer \in WriterSet /\ reader \in ReaderSet /\ InnerTyped /\ alive \in BOOLEAN
      /\ model \in ModelSet /\ wire \in Seq(Signal) /\ trace \in TraceSet
  BY OmniTyped DEF OmniInv
<1>2. UNCHANGED <<user, outbound, response, writer, reader, trace>>
  BY DEF Pump, Opens, HandsOn, PumpStops, PumpEnded, Session
<1>3. alive' \in BOOLEAN /\ model' \in ModelSet /\ wire' \in Seq(Signal)
  BY <1>1, FreshModelTyped DEF Pump, Opens, HandsOn, PumpStops, PumpEnded, Session, HangUp
<1>4. CASE HandsOn
  <2>1. Head(inner) \in Output /\ Tail(inner) \in Seq(Output) /\ Len(Tail(inner)) <= OmniQueue
    BY <1>1, <1>4, TailShrinks, OmniBoundsHold DEF HandsOn, InnerTyped, Shrunk, OmniBounds
  <2>2. <<Head(inner)>> \in AtMostOne(Output)
    BY <2>1, OneOrNone
  <2>3. pump' \in PumpSet /\ InnerTyped'
    BY <1>1, <1>4, <2>1, <2>2 DEF HandsOn, PumpSet, InnerTyped
  <2> QED
    BY <1>1, <1>2, <1>3, <2>3, OmniTypedNext DEF OutboundTyped
<1>5. CASE Opens \/ PumpStops \/ PumpEnded
  <2>1. pump' \in PumpSet
    BY <1>1, <1>5, OneOrNone DEF Opens, PumpStops, PumpEnded, PumpSet
  <2>2. InnerTyped'
    BY <1>1, <1>5 DEF Opens, PumpStops, PumpEnded, Session, InnerTyped
  <2> QED
    BY <1>1, <1>2, <1>3, <2>1, <2>2, OmniTypedNext DEF OutboundTyped
<1> QED
  BY <1>4, <1>5 DEF Pump

LEMMA TellsTyped ==
  ASSUME wire \in Seq(Signal), NEW t \in OmniTurn, model.kept \in SUBSET OmniTurn,
         NEW kind \in {"item", "delta", "done", "failed", "error"}, Tells(kind, t)
  PROVE  wire' \in Seq(Signal)
<1> DEFINE item == kind = "item" \/ (kind \in {"done", "failed"} /\ t \in model.kept)
           signal == [kind |-> kind, turn |-> t, item |-> item]
<1>1. item \in BOOLEAN
  OBVIOUS
<1>2. wire' = Append(wire, signal)
  BY DEF Tells
<1> HIDE DEF item
<1>3. signal \in Signal
  BY <1>1 DEF Signal
<1> QED
  BY <1>2, <1>3, AppendProperties

LEMMA AnswersTyped == ASSUME OmniInv, Answers PROVE OmniTypeOK'
<1>1. /\ user \in UserSet /\ pump \in PumpSet /\ OutboundTyped /\ response \in ResponseSet
      /\ writer \in WriterSet /\ reader \in ReaderSet /\ InnerTyped /\ alive \in BOOLEAN
      /\ model \in ModelSet /\ wire \in Seq(Signal) /\ trace \in TraceSet
  BY OmniTyped DEF OmniInv
<1>2. model.running \in OmniTurn /\ model.kept \in SUBSET OmniTurn /\ model.said \in 0..(OmniDeltas + 1)
      /\ OmniDeltas \in Nat \ {0} /\ OmniTurns \in Nat
  BY <1>1, OmniBoundsHold DEF Answers, ModelSet, OmniTurn, OmniBounds
<1>3. wire' \in Seq(Signal)
  BY <1>1, <1>2, TellsTyped DEF Answers
<1>4. model' \in ModelSet
  <2>1. 0 \in 0..OmniTurns /\ 1 \in 0..(OmniDeltas + 1) /\ model.kept \cup {model.running} \in SUBSET OmniTurn
        /\ (model.said \in 1..OmniDeltas => model.said + 1 \in 0..(OmniDeltas + 1))
    BY <1>2
  <2>2. \/ model' = [model EXCEPT !.said = 1, !.kept = @ \cup {model.running}]
        \/ model.said \in 1..OmniDeltas /\ model' = [model EXCEPT !.said = @ + 1]
        \/ model' = [model EXCEPT !.running = 0]
    BY DEF Answers
  <2> QED
    BY <1>1, <2>1, <2>2 DEF ModelSet
<1> QED
  BY <1>1, <1>3, <1>4, OmniTypedNext DEF Answers, OutboundTyped, InnerTyped

LEMMA HangUpTyped == ASSUME HangUp PROVE alive' \in BOOLEAN /\ model' \in ModelSet /\ wire' \in Seq(Signal)
BY FreshModelTyped DEF HangUp

LEMMA FinishedTyped ==
  ASSUME response \in ResponseSet, NEW result \in {"ok", "error"}
  PROVE  Finished(result) \in ResponseSet
<1> DEFINE wait == IF response.wait = "waiting" THEN result ELSE response.wait
           reset == [response EXCEPT !.requested = FALSE, !.gate = 0]
<1>1. wait \in {"none", "waiting", "ok", "error"} /\ 0 \in 0..OmniTurns
  BY OmniBoundsHold DEF ResponseSet, OmniBounds
<1>2. reset \in ResponseSet
  BY <1>1 DEF ResponseSet
<1>3. Finished(result) = [reset EXCEPT !.canceled = FALSE, !.wait = wait]
  BY DEF Finished
<1> HIDE DEF wait, reset
<1> QED
  BY <1>1, <1>2, <1>3 DEF ResponseSet

LEMMA WriterTyped == ASSUME OmniInv, WriterRuns PROVE OmniTypeOK'
<1>1. /\ user \in UserSet /\ pump \in PumpSet /\ OutboundTyped /\ response \in ResponseSet
      /\ writer \in WriterSet /\ reader \in ReaderSet /\ InnerTyped /\ alive \in BOOLEAN
      /\ model \in ModelSet /\ wire \in Seq(Signal) /\ trace \in TraceSet /\ OmniShapes
  BY OmniTyped DEF OmniInv
<1>2. UNCHANGED <<user, pump, reader, inner>>
  BY DEF WriterRuns, LookUrgentWrites, SelectWrites, WriteBatch, WriteFails
<1>3. /\ \A h \in AtMostOne(Batch), p \in {"look", "select", "write", "ended"} : [at |-> p, held |-> h] \in WriterSet
      /\ <<>> \in AtMostOne(Batch) /\ outbound.urgent \in AtMostOne(Batch)
      /\ \A batch \in Batch : <<batch>> \in AtMostOne(Batch)
  BY <1>1, OneOrNone DEF WriterSet, OutboundTyped, OutboundSet
<1>4. ASSUME TakeUrgent PROVE writer' \in WriterSet /\ OutboundTyped'
  BY <1>1, <1>3, <1>4 DEF TakeUrgent, WriterGoes, OutboundTyped, OutboundSet
<1>5. CASE LookUrgentWrites \/ SelectWrites
  <2>1. UNCHANGED <<response, alive, model, wire>>
    BY <1>5 DEF LookUrgentWrites, SelectWrites
  <2>2. ASSUME outbound.writes # <<>>, outbound' = [outbound EXCEPT !.writes = Tail(@)]
        PROVE  OutboundTyped' /\ Head(outbound.writes) \in Batch
    <3>1. /\ outbound.writes \in Seq(Batch) /\ Tail(outbound.writes) \in Seq(Batch)
          /\ Len(Tail(outbound.writes)) <= OmniQueue /\ Head(outbound.writes) \in Batch
      BY <1>1, <2>2, TailShrinks, OmniBoundsHold DEF OutboundTyped, OutboundSet, Shrunk, OmniBounds
    <3> QED
      BY <1>1, <2>2, <3>1 DEF OutboundTyped, OutboundSet
  <2>3. writer' \in WriterSet /\ OutboundTyped' /\ trace' \in TraceSet
    <3>1. CASE LookUrgentWrites
      BY <1>1, <1>3, <1>4, <3>1 DEF LookUrgentWrites, WriterGoes, OutboundTyped
    <3>4. ASSUME outbound.writes # <<>>, outbound' = [outbound EXCEPT !.writes = Tail(@)],
                 WriterGoes("write", <<Head(outbound.writes)>>),
                 trace' = [trace EXCEPT !.overtaken = @ \/ outbound.urgent # <<>>]
          PROVE  writer' \in WriterSet /\ OutboundTyped' /\ trace' \in TraceSet
      BY <1>1, <1>3, <2>2, <3>4 DEF WriterGoes, TraceSet
    <3>5. ASSUME WriterGoes("ended", <<>>), UNCHANGED <<outbound, trace>>
          PROVE  writer' \in WriterSet /\ OutboundTyped' /\ trace' \in TraceSet
      BY <1>1, <1>3, <3>5 DEF WriterGoes, OutboundTyped
    <3> QED
      BY <1>1, <1>4, <1>5, <3>1, <3>4, <3>5 DEF SelectWrites
  <2> QED
    BY <1>1, <1>2, <2>1, <2>3, OmniTypedNext DEF InnerTyped
<1>6. CASE WriteBatch
  <2> DEFINE batch == writer.held[1]
  <2>1. batch \in Batch
    BY <1>1, <1>6 DEF WriteBatch, OmniShapes, WriterSet, AtMostOne
  <2>2. batch.turn \in OmniTurn /\ batch.turn \in 0..OmniTurns /\ model.kept \in SUBSET OmniTurn
        /\ (model.running # 0 => model.running \in OmniTurn) /\ 0 \in 0..OmniTurns
        /\ 0 \in 0..(OmniDeltas + 1) /\ <<>> \in Seq(OmniTurn)
        /\ Append(model.input, batch.turn) \in Seq(OmniTurn)
    <3>1. batch.turn \in OmniTurn /\ OmniTurns \in Nat /\ OmniDeltas \in Nat
      BY <2>1, OmniBoundsHold DEF Batch, OmniBounds
    <3>2. model.input \in Seq(OmniTurn) /\ model.kept \in SUBSET OmniTurn /\ model.running \in 0..OmniTurns
      BY <1>1 DEF ModelSet
    <3>3. Append(model.input, batch.turn) \in Seq(OmniTurn)
      BY <3>1, <3>2, AppendProperties
    <3> QED
      BY <3>1, <3>2, <3>3 DEF OmniTurn
  <2>3. batch.kind \in Kinds
    BY <2>1 DEF Batch
  <2>4. wire' \in Seq(Signal)
    <3>1. StaleInput(batch) => wire' = wire
      BY <1>6 DEF WriteBatch
    <3>2. ASSUME Takes(batch) PROVE wire' \in Seq(Signal)
      <4>1. wire' = wire \/ Tells("error", batch.turn) \/ (model.running # 0 /\ Tells("done", model.running))
        BY <2>3, <3>2 DEF Takes, Appended, Committed, Cancelled, Refuses, Kinds
      <4> HIDE DEF batch
      <4> QED
        BY <1>1, <2>2, <4>1, TellsTyped
    <3> QED
      BY <1>1, <1>6, <3>1, <3>2 DEF WriteBatch
  <2>5. model' \in ModelSet
    <3>1. \/ model' = model \/ model' = [model EXCEPT !.input = Append(@, batch.turn)]
          \/ model' = [model EXCEPT !.input = <<>>]
          \/ model' = [model EXCEPT !.input = <<>>, !.running = batch.turn, !.said = 0]
          \/ model' = [model EXCEPT !.running = 0] \/ model' = [model EXCEPT !.kept = @ \ {batch.turn}]
      BY <1>6, <2>3 DEF WriteBatch, Takes, Appended, Committed, Cancelled, Refuses, Kinds
    <3> HIDE DEF batch
    <3>2. model.kept \ {batch.turn} \in SUBSET OmniTurn
      BY <2>2
    <3>3. CASE model' = [model EXCEPT !.input = <<>>, !.running = batch.turn, !.said = 0]
      <4> DEFINE emptied == [model EXCEPT !.input = <<>>]
      <4>1. emptied \in ModelSet
        BY <1>1, <2>2 DEF ModelSet
      <4>2. model' = [emptied EXCEPT !.running = batch.turn, !.said = 0]
        BY <3>3
      <4> HIDE DEF emptied
      <4> QED
        BY <2>2, <4>1, <4>2 DEF ModelSet
    <3> QED
      BY <1>1, <2>2, <3>1, <3>2, <3>3 DEF ModelSet
  <2>6. trace' \in TraceSet
    <3>1. \/ trace' = trace \/ trace' = [trace EXCEPT !.complained = TRUE]
          \/ trace' = [trace EXCEPT !.mixed = @ \/ model.input # Whole(batch),
                                    !.haunted = @ \/ model.kept \cap trace.cut # {}]
      BY <1>6, <2>3 DEF WriteBatch, Takes, Appended, Committed, Cancelled, Refuses, Kinds
    <3> QED
      BY <1>1, <3>1 DEF TraceSet
  <2>7. writer' \in WriterSet /\ OutboundTyped' /\ response' = response /\ alive' = alive
    BY <1>1, <1>3, <1>6 DEF WriteBatch, WriterGoes, OutboundTyped
  <2> QED
    BY <1>1, <1>2, <2>4, <2>5, <2>6, <2>7, OmniTypedNext DEF InnerTyped
<1>7. CASE WriteFails
  <2>1. writer' \in WriterSet /\ OutboundTyped' /\ trace' = trace
    BY <1>1, <1>3, <1>7 DEF WriteFails, WriterGoes, OutboundTyped
  <2>2. response' \in ResponseSet /\ alive' \in BOOLEAN /\ model' \in ModelSet /\ wire' \in Seq(Signal)
    BY <1>1, <1>7, HangUpTyped, FinishedTyped DEF WriteFails, Fails
  <2> QED
    BY <1>1, <1>2, <2>1, <2>2, OmniTypedNext DEF InnerTyped
<1> QED
  BY <1>5, <1>6, <1>7 DEF WriterRuns

LEMMA ReaderTyped == ASSUME OmniInv, ReaderRuns PROVE OmniTypeOK'
<1>1. /\ user \in UserSet /\ pump \in PumpSet /\ OutboundTyped /\ response \in ResponseSet
      /\ writer \in WriterSet /\ reader \in ReaderSet /\ InnerTyped /\ alive \in BOOLEAN
      /\ model \in ModelSet /\ wire \in Seq(Signal) /\ trace \in TraceSet /\ OmniShapes
  BY OmniTyped DEF OmniInv
<1>2. UNCHANGED <<user, pump, outbound, writer, trace>>
  BY DEF ReaderRuns, ReadSignal, Publish, FinishResponse, ReadFails
<1>3. /\ \A h \in AtMostOne(Signal), p \in {"read", "publish", "finish", "ended"}, g \in 0..OmniTurns :
           [at |-> p, held |-> h, gate |-> g] \in ReaderSet
      /\ <<>> \in AtMostOne(Signal) /\ 0 \in 0..OmniTurns /\ response.gate \in 0..OmniTurns
      /\ \A signal \in Signal : <<signal>> \in AtMostOne(Signal)
  BY <1>1, OneOrNone, OmniBoundsHold DEF ReaderSet, ResponseSet, OmniBounds
<1>4. ASSUME NEW signal \in Signal, AfterPublish(signal) PROVE reader' \in ReaderSet
  BY <1>3, <1>4 DEF AfterPublish
<1>5. CASE ReadSignal
  <2>1. Head(wire) \in Signal /\ Tail(wire) \in Seq(Signal)
    BY <1>1, <1>5, TailShrinks DEF ReadSignal
  <2>2. Head(wire).turn \in 0..OmniTurns
    BY <1>3, <2>1 DEF Signal, OmniTurn
  <2>3. reader' \in ReaderSet
    BY <1>3, <1>4, <1>5, <2>1 DEF ReadSignal
  <2>4. response' \in ResponseSet
    BY <1>1, <1>5, <2>2 DEF ReadSignal, ResponseSet
  <2> QED
    BY <1>1, <1>2, <1>5, <2>1, <2>3, <2>4, OmniTypedNext DEF ReadSignal, InnerTyped, OutboundTyped
<1>6. CASE Publish
  <2> DEFINE signal == reader.held[1]
             event == [turn |-> signal.turn, last |-> IsLast(signal.kind), error |-> signal.kind = "error"]
  <2>1. signal \in Signal
    BY <1>1, <1>6 DEF Publish, OmniShapes, ReaderSet, AtMostOne
  <2>2. event \in Output
    <3>1. IsLast(signal.kind) \in BOOLEAN /\ (signal.kind = "error") \in BOOLEAN /\ signal.turn \in OmniTurn
      BY <2>1 DEF IsLast, Signal
    <3> QED
      BY <3>1 DEF Output
  <2> HIDE DEF event
  <2>3. reader' \in ReaderSet
    BY <1>3, <1>4, <1>6, <2>1 DEF Publish
  <2>4. InnerTyped'
    <3>1. inner' = inner \/ (Len(inner) < OmniQueue /\ inner' = Append(inner, event))
      BY <1>6 DEF Publish, event
    <3>2. Append(inner, event) \in Seq(Output) /\ Len(Append(inner, event)) = Len(inner) + 1
          /\ Len(inner) \in Nat /\ OmniQueue \in Nat
      BY <1>1, <2>2, AppendProperties, LenProperties, OmniBoundsHold DEF InnerTyped, OmniBounds
    <3> QED
      BY <1>1, <3>1, <3>2, SMTT(30) DEF InnerTyped
  <2>5. response' \in ResponseSet
    BY <1>1, <1>6, FinishedTyped DEF Publish
  <2> QED
    BY <1>1, <1>2, <1>6, <2>3, <2>4, <2>5, OmniTypedNext DEF Publish, OutboundTyped
<1>7. CASE FinishResponse
  <2>1. reader' \in ReaderSet
    BY <1>3, <1>7 DEF FinishResponse
  <2>2. response' \in ResponseSet
    BY <1>1, <1>7, FinishedTyped DEF FinishResponse
  <2> QED
    BY <1>1, <1>2, <1>7, <2>1, <2>2, OmniTypedNext DEF FinishResponse, InnerTyped, OutboundTyped
<1>8. CASE ReadFails
  <2>1. reader' \in ReaderSet
    BY <1>3, <1>8 DEF ReadFails
  <2>2. response' \in ResponseSet /\ alive' \in BOOLEAN /\ model' \in ModelSet /\ wire' \in Seq(Signal)
    BY <1>1, <1>8, HangUpTyped, FinishedTyped DEF ReadFails, Fails
  <2> QED
    BY <1>1, <1>2, <1>8, <2>1, <2>2, OmniTypedNext DEF ReadFails, InnerTyped, OutboundTyped
<1> QED
  BY <1>5, <1>6, <1>7, <1>8 DEF ReaderRuns

LEMMA OmniTypes == ASSUME OmniInv, OmniNext PROVE OmniTypeOK'
BY UserTyped, PumpTyped, AnswersTyped, WriterTyped, ReaderTyped DEF OmniNext

-----------------------------------------------------------------------------
(* The omni session: how the lines move.                                   *)

LEMMA WaySends ==
  ASSUME OmniTypeOK, NEW batch \in Batch, Enqueue(batch), writer' = writer
  PROVE  /\ Grown(Way, batch, Way') /\ outbound'.urgent = outbound.urgent
         /\ outbound'.gen = outbound.gen
<1>1. /\ outbound \in OutboundSet /\ writer.held \in AtMostOne(Batch) /\ outbound.writes \in Seq(Batch)
  BY OmniTyped DEF OutboundTyped, OutboundSet, WriterSet
<1>2. /\ outbound'.writes = Append(outbound.writes, batch)
      /\ outbound'.urgent = outbound.urgent /\ outbound'.gen = outbound.gen
  BY <1>1 DEF Enqueue, OutboundSet
<1>3. Way' = writer.held \o Append(outbound.writes, batch)
  BY <1>2 DEF Way
<1> QED
  BY <1>1, <1>2, <1>3, PairGrows DEF Way

LEMMA WayUrgent ==
  ASSUME OmniTypeOK, OmniTypeOK', OmniShapes, writer.at \in {"look", "select"}, outbound.urgent # <<>>, TakeUrgent
  PROVE  /\ Shrunk(Way', Way) /\ Way'[1].kind = "clear" /\ Len(Way') > 0 /\ writer'.at = "write"
         /\ outbound'.urgent = <<>> /\ outbound'.gen = outbound.gen
<1>1. /\ outbound \in OutboundSet /\ writer.held = <<>>
  BY OmniTyped DEF OutboundTyped, OmniShapes
<1>2. /\ outbound'.writes = outbound.writes /\ outbound'.urgent = <<>> /\ outbound'.gen = outbound.gen
      /\ writer'.held = outbound.urgent /\ writer'.at = "write"
  BY <1>1 DEF TakeUrgent, WriterGoes, OutboundSet
<1>3. Lines(writer.held, outbound.writes, reader.held, wire, pump.held, inner)
      /\ Lines(writer.held, outbound.writes, reader.held, wire, pump.held, inner)'
  BY LinesNow, LinesNext
<1>4. Way = outbound.writes
  BY <1>1, <1>3 DEF Lines, Way
<1>5. Way'[1] = writer'.held[1] /\ Len(Way') > 0 /\ Shrunk(Way', outbound'.writes)
  BY <1>2, <1>3 DEF Lines, Way
<1>6. outbound.urgent[1].kind = "clear"
  BY DEF OmniShapes
<1> QED
  BY <1>2, <1>4, <1>5, <1>6

LEMMA WaySelects ==
  ASSUME OmniTypeOK, OmniShapes, writer.at = "select", outbound.writes # <<>>,
         WriterGoes("write", <<Head(outbound.writes)>>), outbound' = [outbound EXCEPT !.writes = Tail(@)]
  PROVE  /\ Way' = Way /\ Len(Way) > 0 /\ writer'.at = "write"
         /\ outbound'.urgent = outbound.urgent /\ outbound'.gen = outbound.gen
<1>1. /\ outbound \in OutboundSet /\ writer.held = <<>> /\ outbound.writes \in Seq(Batch)
  BY OmniTyped DEF OutboundTyped, OutboundSet, OmniShapes
<1>2. /\ outbound'.writes = Tail(outbound.writes) /\ outbound'.urgent = outbound.urgent
      /\ outbound'.gen = outbound.gen /\ writer'.held = <<Head(outbound.writes)>> /\ writer'.at = "write"
  BY <1>1 DEF WriterGoes, OutboundSet
<1>3. <<Head(outbound.writes)>> \o Tail(outbound.writes) = outbound.writes /\ Len(outbound.writes) > 0
  BY <1>1
<1>4. Way = outbound.writes
  BY <1>1, ConcatEmptySeq DEF Way
<1> QED
  BY <1>2, <1>3, <1>4 DEF Way

LEMMA WayWrites ==
  ASSUME OmniTypeOK, OmniShapes, writer.at = "write", writer'.held = <<>>, outbound' = outbound
  PROVE  Shrunk(Way, Way') /\ Way[1] = writer.held[1] /\ Way[1] \in Batch /\ Len(Way) > 0
<1>1. Lines(writer.held, outbound.writes, reader.held, wire, pump.held, inner)
  BY LinesNow
<1>2. writer.held # <<>> /\ outbound.writes \in Seq(Batch)
  BY OmniTyped DEF OmniShapes, OutboundTyped, OutboundSet
<1>3. Way' = outbound.writes
  BY <1>2, ConcatEmptySeq DEF Way
<1> QED
  BY <1>1, <1>2, <1>3 DEF Lines, Way

SignalOf(kind, t) ==
  [kind |-> kind, turn |-> t,
   item |-> kind = "item" \/ (kind \in {"done", "failed"} /\ t \in model.kept)]

LEMMA LineTells ==
  ASSUME OmniTypeOK, OmniTypeOK', reader' = reader, NEW t \in OmniTurn,
         NEW kind \in {"item", "delta", "done", "failed", "error"}, Tells(kind, t)
  PROVE  Grown(Line, SignalOf(kind, t), Line') /\ Grown(wire, SignalOf(kind, t), wire')
<1>1. reader.held \in AtMostOne(Signal) /\ wire \in Seq(Signal) /\ model.kept \in SUBSET OmniTurn
  BY OmniTyped DEF ReaderSet, ModelSet
<1>2. SignalOf(kind, t) \in Signal
  <2>1. (kind = "item" \/ (kind \in {"done", "failed"} /\ t \in model.kept)) \in BOOLEAN
    OBVIOUS
  <2> QED
    BY <2>1 DEF SignalOf, Signal
<1>3. wire' = Append(wire, SignalOf(kind, t))
  BY DEF Tells, SignalOf
<1>4. Line' = reader.held \o Append(wire, SignalOf(kind, t))
  BY <1>3 DEF Line
<1> QED
  BY <1>1, <1>2, <1>3, <1>4, PairGrows, AppendGrows DEF Line

\* The reader takes a message of the socket: past the fence, or to publish it.
LEMMA LineReads ==
  ASSUME OmniTypeOK, OmniTypeOK', OmniShapes, ReadSignal
  PROVE  /\ Len(Line) > 0 /\ Line[1] = Head(wire) /\ Line = wire /\ Head(wire) = wire[1]
         /\ Shrunk(wire, wire') /\ Head(wire) \in Signal
         /\ \/ /\ Line' = Line /\ reader'.at = "publish"
            \/ /\ Line' = Line /\ reader'.at = "finish" /\ IsLast(Line[1].kind)
            \/ /\ Shrunk(Line, Line') /\ reader'.at = "read" /\ ~IsLast(Line[1].kind)
<1>1. reader.held = <<>> /\ wire \in Seq(Signal) /\ wire # <<>> /\ wire' = Tail(wire)
  BY OmniTyped DEF OmniShapes, ReadSignal
<1>2. Line = wire
  BY <1>1, ConcatEmptySeq DEF Line
<1>3. /\ wire' \in Seq(Signal) /\ Shrunk(wire, wire') /\ Head(wire) = wire[1] /\ Head(wire) \in Signal
      /\ Len(wire) > 0 /\ <<Head(wire)>> \o Tail(wire) = wire
  BY <1>1, TailShrinks
<1>4. \/ reader'.at = "publish" /\ reader'.held = <<Head(wire)>>
      \/ reader'.at = "finish" /\ IsLast(Head(wire).kind) /\ reader'.held = <<Head(wire)>>
      \/ reader'.at = "read" /\ ~IsLast(Head(wire).kind) /\ reader'.held = <<>>
  BY DEF ReadSignal, AfterPublish
<1>5. CASE reader'.held = <<Head(wire)>>
  BY <1>1, <1>2, <1>3, <1>4, <1>5 DEF Line
<1>6. CASE reader'.held = <<>> /\ reader'.at = "read" /\ ~IsLast(Head(wire).kind)
  <2>1. Line' = wire'
    BY <1>3, <1>6, ConcatEmptySeq DEF Line
  <2> QED
    BY <1>2, <1>3, <1>6, <2>1
<1> QED
  BY <1>4, <1>5, <1>6

\* A message that was published or fenced off.
LEMMA LineLeaves ==
  ASSUME OmniTypeOK, OmniTypeOK', OmniShapes, reader.at = "publish", AfterPublish(reader.held[1]), wire' = wire
  PROVE  /\ Len(Line) > 0 /\ Line[1] = reader.held[1] /\ Line[1] \in Signal
         /\ \/ /\ Line' = Line /\ reader'.at = "finish" /\ IsLast(Line[1].kind)
            \/ /\ Shrunk(Line, Line') /\ reader'.at = "read" /\ ~IsLast(Line[1].kind)
<1>1. Lines(writer.held, outbound.writes, reader.held, wire, pump.held, inner)
  BY LinesNow
<1>2. reader.held # <<>> /\ wire \in Seq(Signal) /\ reader.held \in AtMostOne(Signal)
  BY OmniTyped DEF OmniShapes, ReaderSet
<1>3. Len(Line) > 0 /\ Line[1] = reader.held[1] /\ Line[1] \in Signal /\ Shrunk(Line, wire)
  BY <1>1, <1>2 DEF Lines, Line
<1>4. CASE IsLast(reader.held[1].kind)
  <2>1. reader'.at = "finish" /\ reader'.held = <<reader.held[1]>>
    BY <1>4 DEF AfterPublish
  <2>2. reader.held = <<reader.held[1]>>
    BY <1>2 DEF AtMostOne
  <2> QED
    BY <1>3, <1>4, <2>1, <2>2 DEF Line
<1>5. CASE ~IsLast(reader.held[1].kind)
  <2>1. reader'.at = "read" /\ reader'.held = <<>>
    BY <1>5 DEF AfterPublish
  <2>2. Line' = wire
    BY <1>2, <2>1, ConcatEmptySeq DEF Line
  <2> QED
    BY <1>3, <1>5, <2>1, <2>2
<1> QED
  BY <1>4, <1>5

LEMMA LineFinishes ==
  ASSUME OmniTypeOK, OmniShapes, reader.held # <<>>, reader'.held = <<>>, wire' = wire
  PROVE  Len(Line) > 0 /\ Shrunk(Line, Line') /\ Line[1] = reader.held[1]
<1>1. Lines(writer.held, outbound.writes, reader.held, wire, pump.held, inner)
  BY LinesNow
<1>2. wire \in Seq(Signal)
  BY OmniTyped
<1>3. Line' = wire
  BY <1>2, ConcatEmptySeq DEF Line
<1> QED
  BY <1>1, <1>3 DEF Lines, Line

LEMMA CameTaken ==
  ASSUME OmniTypeOK, pump.held # <<>>, pump' = [pump EXCEPT !.held = <<>>], inner' = inner
  PROVE  /\ Len(Came) > 0 /\ Came[1] = pump.held[1] /\ Came[1] \in Output /\ Shrunk(Came, Came')
         /\ pump'.open = pump.open /\ pump'.at = pump.at
<1>1. Lines(writer.held, outbound.writes, reader.held, wire, pump.held, inner)
  BY LinesNow
<1>2. pump \in PumpSet /\ inner \in Seq(Output)
  BY OmniTyped DEF InnerTyped
<1>3. pump'.held = <<>> /\ pump'.open = pump.open /\ pump'.at = pump.at
  BY <1>2 DEF PumpSet
<1>4. Came' = inner
  BY <1>2, <1>3, ConcatEmptySeq DEF Came
<1> QED
  BY <1>1, <1>3, <1>4 DEF Lines, Came

LEMMA CameHandedOn ==
  ASSUME OmniTypeOK, HandsOn
  PROVE  Came' = Came /\ pump'.open = pump.open
<1>1. pump \in PumpSet /\ inner \in Seq(Output) /\ pump.held = <<>> /\ inner # <<>>
  BY OmniTyped DEF InnerTyped, HandsOn
<1>2. pump'.held = <<Head(inner)>> /\ inner' = Tail(inner) /\ pump'.open = pump.open
  BY <1>1 DEF HandsOn, PumpSet
<1>3. <<Head(inner)>> \o Tail(inner) = inner /\ <<>> \o inner = inner
  BY <1>1
<1> QED
  BY <1>1, <1>2, <1>3 DEF Came

LEMMA CamePublished ==
  ASSUME OmniTypeOK, OmniTypeOK', NEW event \in Output, inner' = Append(inner, event), pump' = pump
  PROVE  Grown(Came, event, Came')
<1>1. pump.held \in AtMostOne(Output) /\ inner \in Seq(Output)
  BY OmniTyped DEF InnerTyped, PumpSet
<1>2. Came' = pump.held \o Append(inner, event)
  BY DEF Came
<1> QED
  BY <1>1, <1>2, PairGrows DEF Came

-----------------------------------------------------------------------------
(* The omni session: the actor's calls keep the invariant.                 *)

Numeric ==
  /\ user.turn \in Nat /\ user.sent \in Nat /\ outbound.gen \in Nat /\ model.running \in Nat
  /\ Len(Way) \in Nat /\ (Way = <<>> <=> Len(Way) = 0)
  /\ Len(Line) \in Nat /\ (Line = <<>> <=> Len(Line) = 0)
  /\ Len(Came) \in Nat /\ (Came = <<>> <=> Len(Came) = 0)
  /\ \A i \in 1..Len(Way) : Way[i].turn \in Nat /\ Way[i].gen \in Nat
  /\ \A i \in 1..Len(Line) : Line[i].turn \in Nat
  /\ \A i \in 1..Len(Came) : Came[i].turn \in Nat
  /\ model.kept \subseteq Nat /\ Len(model.input) \in Nat /\ Len(wire) \in Nat
  /\ trace.cut \subseteq Nat

LEMMA NumericNow == ASSUME OmniTypeOK PROVE Numeric
<1>1. Lines(writer.held, outbound.writes, reader.held, wire, pump.held, inner)
  BY LinesNow
<1>2. /\ user \in UserSet /\ outbound \in OutboundSet /\ model \in ModelSet /\ wire \in Seq(Signal)
      /\ trace \in TraceSet /\ OmniTurns \in Nat /\ OmniPcm \in Nat
  BY OmniTyped, OmniBoundsHold DEF OutboundTyped, OmniBounds
<1>3. /\ user.turn \in Nat /\ user.sent \in Nat /\ outbound.gen \in Nat /\ model.running \in Nat
      /\ model.kept \subseteq Nat /\ Len(model.input) \in Nat /\ Len(wire) \in Nat
      /\ trace.cut \subseteq Nat
  BY <1>2 DEF UserSet, OutboundSet, ModelSet, TraceSet, OmniTurn
<1>4. /\ Way \in Seq(Batch) /\ Line \in Seq(Signal) /\ Came \in Seq(Output)
      /\ Len(Way) \in Nat /\ (Way = <<>> <=> Len(Way) = 0)
      /\ Len(Line) \in Nat /\ (Line = <<>> <=> Len(Line) = 0)
      /\ Len(Came) \in Nat /\ (Came = <<>> <=> Len(Came) = 0)
  BY <1>1 DEF Lines, Way, Line, Came
<1>5. /\ \A b \in Batch : b.turn \in Nat /\ b.gen \in Nat
      /\ \A s \in Signal : s.turn \in Nat
      /\ \A e \in Output : e.turn \in Nat
  BY <1>2 DEF Batch, Signal, Output, OmniTurn
<1>6. /\ \A i \in 1..Len(Way) : Way[i] \in Batch
      /\ \A i \in 1..Len(Line) : Line[i] \in Signal
      /\ \A i \in 1..Len(Came) : Came[i] \in Output
  BY <1>4, ElementOfSeq
<1> QED
  BY <1>3, <1>4, <1>5, <1>6 DEF Numeric

\* What a place says of the line it is at.
Placed ==
  /\ reader.at \in {"publish", "finish"} => Line # <<>> /\ Line[1] = reader.held[1]
  /\ reader.at \notin {"publish", "finish"} => Line = wire
  /\ writer.at = "write" => Way # <<>> /\ Way[1] = writer.held[1] /\ Way[1] \in Batch
  /\ writer.at # "write" => Way = outbound.writes
  /\ pump.held # <<>> => Came # <<>> /\ Came[1] = pump.held[1] /\ Came[1] \in Output
  /\ Came = <<>> <=> pump.held = <<>> /\ inner = <<>>
  /\ Line = <<>> => wire = <<>>

LEMMA PlacedNow == ASSUME OmniTypeOK, OmniShapes PROVE Placed
<1>1. Lines(writer.held, outbound.writes, reader.held, wire, pump.held, inner)
  BY LinesNow
<1>2. Way = <<>> <=> Len(Way) = 0
  BY <1>1 DEF Lines, Way
<1>3. /\ writer.at = "write" => Way # <<>> /\ Way[1] = writer.held[1] /\ Way[1] \in Batch
      /\ writer.at # "write" => Way = outbound.writes
  <2>1. writer.at = "write" <=> writer.held # <<>>
    BY DEF OmniShapes
  <2>2. /\ writer.held = <<>> => Way = outbound.writes
        /\ writer.held # <<>> => Way[1] = writer.held[1] /\ Len(Way) > 0 /\ writer.held[1] \in Batch
    BY <1>1 DEF Lines, Way
  <2> QED
    BY <1>2, <2>1, <2>2
<1>4. /\ reader.at \in {"publish", "finish"} => Line # <<>> /\ Line[1] = reader.held[1]
      /\ reader.at \notin {"publish", "finish"} => Line = wire
      /\ Line = <<>> => wire = <<>>
  BY <1>1 DEF Lines, OmniShapes, Line
<1>5. /\ pump.held # <<>> => Came # <<>> /\ Came[1] = pump.held[1] /\ Came[1] \in Output
      /\ Came = <<>> <=> pump.held = <<>> /\ inner = <<>>
  BY <1>1 DEF Lines, Came
<1> QED
  BY <1>3, <1>4, <1>5 DEF Placed

LEMMA OmniParts ==
  OmniInv <=>
    /\ OmniTypeOK /\ OmniShapes /\ OmniPlaces /\ OmniNumbers
    /\ Awaited /\ OneResponse /\ CommitLast /\ Fence /\ Heard /\ Forgetting /\ Hearing
    /\ HearsWholeTurn /\ CutAnswerForgotten
BY DEF OmniInv

LEMMA OmniPartsNext ==
  OmniInv' <=>
    /\ OmniTypeOK' /\ OmniShapes' /\ OmniPlaces' /\ OmniNumbers'
    /\ Awaited' /\ OneResponse' /\ CommitLast' /\ Fence' /\ Heard' /\ Forgetting' /\ Hearing'
    /\ HearsWholeTurn' /\ CutAnswerForgotten'
BY DEF OmniInv

LEMMA Starts == ASSUME OmniInv, User, ~trace.foreign, OmniStartTurn PROVE OmniInv'
<1>i. /\ OmniTypeOK /\ OmniShapes /\ OmniPlaces /\ OmniNumbers
      /\ Awaited /\ OneResponse /\ CommitLast /\ Fence /\ Heard /\ Forgetting /\ Hearing
      /\ HearsWholeTurn /\ CutAnswerForgotten /\ Numeric /\ Placed
  BY OmniParts, NumericNow, PlacedNow
<1>t. OmniTypeOK' /\ UNCHANGED <<writer, reader, inner, alive, model, wire>>
  BY UserTyped
<1>1. /\ user.at = "rest" /\ user.phase = "idle"
      /\ user'.at = "rest" /\ user'.phase = "listening" /\ user'.turn = user.turn + 1 /\ user'.sent = 0
      /\ UNCHANGED <<pump, outbound, response, trace>>
  BY <1>i, OmniTyped DEF OmniStartTurn, UserAt, UserSet
<1>2. Way' = Way /\ Line' = Line /\ Came' = Came
  BY <1>t, <1>1 DEF Way, Line, Came
<1>s. OmniShapes'
  BY <1>i, <1>t, <1>1, <1>2 DEF OmniShapes
<1>p. OmniPlaces'
  BY <1>i, <1>t, <1>1, <1>2 DEF OmniPlaces, Left, Numeric
<1>n. OmniNumbers'
  <2>1. \A t \in Nat : (AskedFor(t) => AskedFor(t)') /\ (Named(t) => Named(t)')
    BY <1>i, <1>1 DEF Numeric, AskedFor, Named
  <2>2. outbound'.gen < user'.turn
    BY <1>i, <1>1 DEF OmniNumbers, Numeric
  <2> QED
    BY <1>i, <1>t, <1>1, <1>2, <2>1, <2>2, SMTT(30) DEF OmniNumbers, Numeric
<1>a. Awaited'
  BY <1>i, <1>t, <1>1, <1>2 DEF Awaited
<1>o. OneResponse'
  BY <1>i, <1>t, <1>1, <1>2 DEF OneResponse, Awaited, Calm, Silent, NoCommit, Numeric
<1>c. CommitLast'
  BY <1>i, <1>t, <1>1, <1>2 DEF CommitLast, OneResponse, Awaited, Calm, Silent, NoCommit, Placed, Left
<1>f. Fence'
  BY <1>i, <1>t, <1>1, <1>2 DEF Fence, Calm, Left
<1>h. Heard'
  BY <1>i, <1>t, <1>1, <1>2 DEF Heard, Calm, Left, Numeric
<1>m. Forgetting'
  BY <1>i, <1>t, <1>1, <1>2 DEF Forgetting, Calm, Left, Numeric, Deleting, OmniNumbers, AskedFor
<1>u. Hearing'
  <2> SUFFICES ASSUME Calm, alive, ~trace.overtaken, ~trace.mistaken PROVE Hearing'
    BY <1>t, <1>1 DEF Hearing, Calm
  <2>1. NoCommit
    BY <1>i, <1>1 DEF OneResponse, Awaited, Silent, Placed
  <2>2. /\ ClearComes \/ model.input = <<>>
        /\ \A i \in 1..Len(Way) : ~Fresh(Way[i])
        /\ outbound.urgent # <<>> /\ writer.at = "write" => ~Fresh(Way[1])
    BY <1>i, <1>1, <2>1 DEF Hearing, Collecting, Left
  <2>3. /\ ClearComes' = ClearComes /\ NoCommit' /\ Collecting'
        /\ \A i \in 1..Len(Way) : Fresh(Way[i])' = Fresh(Way[i])
        /\ Fresh(Way[1])' = Fresh(Way[1])
    BY <1>1, <1>2, <2>1 DEF ClearComes, NoCommit, Collecting, Fresh
  <2>4. Pieces' = 0
    BY <1>t, <1>1, <2>2, <2>3 DEF Pieces
  <2>5. Arriving(Len(Way))'
    BY <1>i, <1>t, <1>1, <1>2, <2>2, <2>3, <2>4 DEF Arriving, Numeric
  <2> QED
    BY <1>t, <1>1, <1>2, <2>1, <2>2, <2>3, <2>5 DEF Hearing, NoCommit
<1>w. HearsWholeTurn' /\ CutAnswerForgotten'
  BY <1>i, <1>1 DEF HearsWholeTurn, CutAnswerForgotten
<1> QED
  BY <1>t, <1>s, <1>p, <1>n, <1>a, <1>o, <1>c, <1>f, <1>h, <1>m, <1>u, <1>w, OmniPartsNext

\* The actor gives up: a call has failed, or it closes the session.
LEMMA GivesUp ==
  ASSUME OmniInv, OmniTypeOK', ~trace.foreign, user.at = "clear" => ~alive,
         user'.at \in {"closing", "closed"}, user.at # "rest" \/ user.phase = "idle",
         user'.phase = user.phase, user'.turn = user.turn, user'.sent = user.sent,
         response'.requested = response.requested, response'.item = response.item,
         response'.wait \in {response.wait, "none"},
         UNCHANGED <<pump, outbound, trace, writer, reader, inner, alive, model, wire>>
  PROVE  OmniInv'
<1>i. /\ OmniTypeOK /\ OmniShapes /\ OmniPlaces /\ OmniNumbers
      /\ Awaited /\ OneResponse /\ CommitLast /\ Fence /\ Heard /\ Forgetting /\ Hearing
      /\ HearsWholeTurn /\ CutAnswerForgotten /\ Numeric /\ Placed
  BY OmniParts, NumericNow, PlacedNow
<1>2. Way' = Way /\ Line' = Line /\ Came' = Came /\ Left' /\ (NoCommit <=> NoCommit') /\ ~Collecting'
  BY DEF Way, Line, Came, Left, NoCommit, Collecting
<1>s. OmniShapes'
  BY <1>i, <1>2 DEF OmniShapes
<1>p. OmniPlaces'
  BY <1>i, <1>2 DEF OmniPlaces, Left
<1>n. OmniNumbers'
  <2>1. \A t \in Nat : (AskedFor(t) => AskedFor(t)') /\ (Named(t) => Named(t)')
    BY DEF AskedFor, Named
  <2> QED
    BY <1>i, <1>2, <2>1 DEF OmniNumbers, Numeric
<1>a. Awaited'
  BY <1>i, <1>2 DEF Awaited
<1>o. OneResponse'
  BY <1>i, <1>2 DEF OneResponse, Calm, Silent
<1>c. CommitLast'
  BY <1>i, <1>2 DEF CommitLast, Calm
<1>f. Fence'
  BY <1>i, <1>2 DEF Fence, Calm
<1>h. Heard'
  BY <1>i, <1>2 DEF Heard, Calm
<1>m. Forgetting'
  <2>1. Calm /\ alive /\ user.at = "discard" => NoCommit
    BY <1>i DEF OneResponse, OmniPlaces
  <2>2. \A t \in Nat : Deleting(t)' <=> Deleting(t)
    BY <1>2 DEF Deleting
  <2> QED
    BY <1>i, <1>2, <2>1, <2>2 DEF Forgetting, Calm, Numeric
<1>u. Hearing'
  <2> SUFFICES ASSUME Calm, alive, ~trace.overtaken, ~trace.mistaken PROVE Hearing'
    BY DEF Hearing, Calm
  <2>1. (ClearComes <=> ClearComes') /\ \A batch : Fresh(batch)' <=> Fresh(batch)
    BY <1>2 DEF ClearComes, Fresh
  <2>2. \A c \in 1..Len(Way) : Arriving(c - 1) => Arriving(c - 1)'
    BY <1>2, <2>1 DEF Arriving, Pieces
  <2> QED
    BY <1>i, <1>2, <2>1, <2>2 DEF Hearing
<1>w. HearsWholeTurn' /\ CutAnswerForgotten'
  BY <1>i DEF HearsWholeTurn, CutAnswerForgotten
<1> QED
  BY <1>s, <1>p, <1>n, <1>a, <1>o, <1>c, <1>f, <1>h, <1>m, <1>u, <1>w, OmniPartsNext

LEMMA Rejects ==
  ASSUME OmniInv, OmniTypeOK', ~trace.foreign, user.at = "rest", user.phase = "listening",
         user'.at = "rejected", user'.phase = user.phase, user'.turn = user.turn, user'.sent = user.sent,
         response'.requested = response.requested, response'.item = response.item,
         response'.wait = response.wait,
         UNCHANGED <<pump, outbound, trace, writer, reader, inner, alive, model, wire>>
  PROVE  OmniInv'
<1>i. /\ OmniTypeOK /\ OmniShapes /\ OmniPlaces /\ OmniNumbers
      /\ Awaited /\ OneResponse /\ CommitLast /\ Fence /\ Heard /\ Forgetting /\ Hearing
      /\ HearsWholeTurn /\ CutAnswerForgotten /\ Numeric /\ Placed
  BY OmniParts, NumericNow, PlacedNow
<1>2. /\ Way' = Way /\ Line' = Line /\ Came' = Came /\ (NoCommit <=> NoCommit') /\ ~Left /\ ~Left'
      /\ Collecting /\ Collecting'
  BY DEF Way, Line, Came, Left, NoCommit, Collecting
<1>s. OmniShapes'
  BY <1>i, <1>2 DEF OmniShapes
<1>p. OmniPlaces'
  BY <1>i, <1>2 DEF OmniPlaces
<1>n. OmniNumbers'
  <2>1. \A t \in Nat : (AskedFor(t) => AskedFor(t)') /\ (Named(t) => Named(t)')
    BY DEF AskedFor, Named
  <2> QED
    BY <1>i, <1>2, <2>1 DEF OmniNumbers, Numeric
<1>a. Awaited'
  BY <1>i, <1>2 DEF Awaited
<1>o. OneResponse'
  BY <1>i, <1>2 DEF OneResponse, Calm, Silent
<1>c. CommitLast'
  BY <1>i, <1>2 DEF CommitLast, Calm
<1>f. Fence'
  BY <1>i, <1>2 DEF Fence, Calm
<1>h. Heard'
  BY <1>i, <1>2 DEF Heard, Calm
<1>m. Forgetting'
  <2>1. \A t \in Nat : Deleting(t)' <=> Deleting(t)
    BY <1>2 DEF Deleting
  <2> QED
    BY <1>i, <1>2, <2>1 DEF Forgetting, Calm, Numeric
<1>u. Hearing'
  <2>1. (ClearComes <=> ClearComes') /\ \A batch : Fresh(batch)' <=> Fresh(batch)
    BY <1>2 DEF ClearComes, Fresh
  <2>2. /\ \A c \in 1..Len(Way) : Arriving(c - 1) => Arriving(c - 1)'
        /\ Arriving(Len(Way)) => Arriving(Len(Way))'
    BY <1>2, <2>1 DEF Arriving, Pieces
  <2> QED
    BY <1>i, <1>2, <2>1, <2>2 DEF Hearing, Calm
<1>w. HearsWholeTurn' /\ CutAnswerForgotten'
  BY <1>i DEF HearsWholeTurn, CutAnswerForgotten
<1> QED
  BY <1>s, <1>p, <1>n, <1>a, <1>o, <1>c, <1>f, <1>h, <1>m, <1>u, <1>w, OmniPartsNext

\* Before its commit, nothing of the turn runs.
LEMMA NothingRuns ==
  ASSUME OmniInv, ~trace.foreign, user.phase # "answering"
  PROVE  /\ response.requested => reader.at = "finish"
         /\ Calm /\ alive => NoCommit /\ model.running = 0 /\ (~response.requested => Line = <<>>)
         /\ Calm /\ alive => reader.at # "publish" /\ wire = <<>>
         /\ Calm /\ reader.at = "publish" => ~alive /\ (Left \/ user.at = "wait")
<1>i. OmniTypeOK /\ OmniShapes /\ Awaited /\ OneResponse /\ Fence /\ Placed /\ Numeric
  BY OmniParts, PlacedNow, NumericNow
<1>1. response.requested => reader.at = "finish"
  BY <1>i DEF Awaited
<1>2. Calm /\ alive => NoCommit /\ model.running = 0 /\ (~response.requested => Line = <<>>)
  BY <1>i, <1>1 DEF OneResponse, Silent, Placed
<1>3. Calm /\ alive => reader.at # "publish"
  BY <1>i, <1>1, <1>2 DEF Placed
<1>4. Calm /\ alive => wire = <<>>
  <2>1. CASE ~response.requested
    BY <1>i, <1>2, <2>1 DEF Placed
  <2>2. CASE Calm /\ alive /\ reader.at = "finish"
    <3>1. IsLast(Line[1].kind) /\ Len(Line) >= 1 /\ 1 \in 1..Len(Line)
      BY <1>i, <2>2 DEF OmniShapes, Placed, Numeric
    <3>2. Len(Line) = 1
      BY <1>i, <2>2, <3>1 DEF OneResponse
    <3>3. Lines(writer.held, outbound.writes, reader.held, wire, pump.held, inner)
      BY <1>i, LinesNow
    <3>4. reader.held # <<>>
      BY <1>i, <2>2 DEF OmniShapes
    <3>5. Len(Line) = Len(wire) + 1
      BY <3>3, <3>4 DEF Lines, Line, Shrunk
    <3>6. wire \in Seq(Signal) /\ Len(wire) \in Nat
      BY <1>i, OmniTyped
    <3>7. \A n \in Nat : 1 = n + 1 => n = 0
      OBVIOUS
    <3>8. Len(wire) = 0
      BY <3>2, <3>5, <3>6, <3>7
    <3> QED
      BY <3>6, <3>8
  <2> QED
    BY <1>1, <2>1, <2>2
<1>5. Calm /\ reader.at = "publish" => ~alive /\ (Left \/ user.at = "wait")
  BY <1>i, <1>3 DEF Fence
<1> QED
  BY <1>1, <1>2, <1>3, <1>4, <1>5

LEMMA NumericTyped == OmniTypeOK => Numeric
BY NumericNow

LEMMA NumericNext == ASSUME OmniTypeOK' PROVE Numeric'
BY NumericTyped, PTL

LEMMA PlacedTyped == OmniTypeOK /\ OmniShapes => Placed
BY PlacedNow

LEMMA PlacedNext == ASSUME OmniTypeOK', OmniShapes' PROVE Placed'
BY PlacedTyped, PTL

LEMMA OmniHolds ==
  ASSUME OmniInv
  PROVE  /\ OmniTypeOK /\ OmniShapes /\ OmniPlaces /\ OmniNumbers
         /\ Awaited /\ OneResponse /\ CommitLast /\ Fence /\ Heard /\ Forgetting /\ Hearing
         /\ HearsWholeTurn /\ CutAnswerForgotten /\ Numeric /\ Placed
BY OmniParts, NumericNow, PlacedNow
\* What a way that has grown by one batch says of its old part.
LEMMA WayGrown ==
  ASSUME Numeric, Numeric', NEW batch, Grown(Way, batch, Way')
  PROVE  /\ Len(Way') = Len(Way) + 1 /\ Way'[Len(Way')] = batch /\ Way' # <<>> /\ Len(Way) \in Nat
         /\ \A i \in 1..Len(Way) : i \in 1..Len(Way') /\ Way'[i] = Way[i]
         /\ \A i \in 1..Len(Way') : i \in 1..Len(Way) \/ (i = Len(Way) + 1 /\ Way'[i] = batch)
         /\ Way # <<>> => Way'[1] = Way[1] /\ 1 \in 1..Len(Way)
         /\ Way = <<>> => Way'[1] = batch
<1>1. Len(Way) \in Nat /\ Len(Way') = Len(Way) + 1 /\ Way'[Len(Way) + 1] = batch
  BY DEF Numeric, Grown
<1>2. \A i \in 1..Len(Way) : i \in 1..Len(Way') /\ Way'[i] = Way[i]
  BY <1>1 DEF Grown
<1>3. Way' # <<>> /\ (Way = <<>> <=> Len(Way) = 0)
  BY <1>1 DEF Numeric
<1> QED
  BY <1>1, <1>2, <1>3

LEMMA SendsAudio ==
  ASSUME OmniInv, OmniTypeOK', ~trace.foreign, user.at = "rest", user.phase = "listening", alive,
         user'.at = "rest", user'.phase = "listening", user'.turn = user.turn,
         user'.sent = user.sent + 1, pump.open,
         NEW batch \in Batch, Enqueue(batch), batch.kind = "append", batch.turn = user.turn,
         batch.gen = outbound.gen,
         UNCHANGED <<pump, response, trace, writer, reader, inner, alive, model, wire>>
  PROVE  OmniInv'
<1>i. /\ OmniTypeOK /\ OmniShapes /\ OmniPlaces /\ OmniNumbers
      /\ Awaited /\ OneResponse /\ CommitLast /\ Fence /\ Heard /\ Forgetting /\ Hearing
      /\ HearsWholeTurn /\ CutAnswerForgotten /\ Numeric /\ Placed /\ Numeric'
  BY OmniHolds, NumericNext
<1>1. /\ Grown(Way, batch, Way') /\ outbound'.urgent = outbound.urgent /\ outbound'.gen = outbound.gen
      /\ Line' = Line /\ Came' = Came /\ ~Left /\ ~Left' /\ Collecting /\ Collecting'
  BY <1>i, WaySends DEF Line, Came, Left, Collecting
<1>2. /\ Len(Way') = Len(Way) + 1 /\ Way'[Len(Way')] = batch /\ Way' # <<>> /\ Len(Way) \in Nat
      /\ \A i \in 1..Len(Way) : i \in 1..Len(Way') /\ Way'[i] = Way[i]
      /\ \A i \in 1..Len(Way') : i \in 1..Len(Way) \/ (i = Len(Way) + 1 /\ Way'[i] = batch)
      /\ Way # <<>> => Way'[1] = Way[1] /\ 1 \in 1..Len(Way)
      /\ Way = <<>> => Way'[1] = batch
  BY <1>i, <1>1, WayGrown
<1>3. NoCommit <=> NoCommit'
  BY <1>2 DEF NoCommit
<1>4. /\ response.requested => reader.at = "finish"
      /\ Calm => NoCommit /\ model.running = 0 /\ (~response.requested => Line = <<>>)
      /\ Calm => reader.at # "publish" /\ wire = <<>>
  BY NothingRuns
<1>s. OmniShapes'
  BY <1>i, <1>1, <1>2 DEF OmniShapes
<1>p. OmniPlaces'
  BY <1>i, <1>1 DEF OmniPlaces, Left
<1>n. OmniNumbers'
  <2>1. \A t \in Nat : (AskedFor(t) => AskedFor(t)') /\ (Named(t) => Named(t)')
    BY DEF AskedFor, Named
  <2>2. ASSUME NEW i \in 1..Len(Way')
        PROVE  /\ Way'[i].kind = "commit" => AskedFor(Way[i].turn)'
               /\ Way'[i].kind = "cancel" => Named(Way[i].turn)'
               /\ Way'[i].kind = "append" => Way'[i].gen <= outbound'.gen
    <3>1. CASE i \in 1..Len(Way) /\ Way'[i] = Way[i]
      BY <1>i, <1>1, <3>1 DEF OmniNumbers, AskedFor, Named
    <3>2. CASE Way'[i] = batch
      <4>1. outbound.gen \in Nat
        BY <1>i DEF Numeric
      <4> QED
        BY <1>1, <3>2, <4>1
    <3> QED
      BY <1>2, <3>1, <3>2
  <2> QED
    BY <1>i, <1>1, <2>1, <2>2 DEF OmniNumbers, Numeric
<1>a. Awaited'
  BY <1>i, <1>1 DEF Awaited
<1>o. OneResponse'
  BY <1>i, <1>1, <1>3 DEF OneResponse, Calm, Silent
<1>c. CommitLast'
  BY <1>i, <1>1, <1>2, <1>3, <1>4 DEF CommitLast, Calm, NoCommit
<1>f. Fence'
  BY <1>i, <1>4 DEF Fence, Calm
<1>h. Heard'
  BY <1>i, <1>1 DEF Heard, Calm
<1>m. Forgetting'
  <2>1. \A t \in Nat : Deleting(t) => Deleting(t)'
    BY <1>2 DEF Deleting
  <2> QED
    BY <1>i, <1>1, <2>1 DEF Forgetting, Calm, Numeric
<1>u. Hearing'
  <2> SUFFICES ASSUME Calm, alive, ~trace.overtaken, ~trace.mistaken PROVE Hearing'
    BY DEF Hearing, Calm
  <2>1. (ClearComes <=> ClearComes') /\ \A b : Fresh(b)' <=> Fresh(b)
    BY <1>1, <1>2 DEF ClearComes, Fresh
  <2>2. Arriving(Len(Way)) /\ Pieces \in Nat /\ Pieces <= Len(Way) /\ Pieces <= user.sent
    BY <1>i, <1>1, SMTT(30) DEF Hearing, Arriving, Numeric
  <2>3. Pieces' = Pieces + 1
    <3>1. CASE ClearComes
      BY <2>1, <3>1 DEF Pieces
    <3>2. CASE ~ClearComes
      <4>1. Pieces = user.sent - Len(model.input) /\ Pieces' = user'.sent - Len(model'.input)
        BY <2>1, <3>2 DEF Pieces
      <4>2. user.sent \in Nat /\ Len(model.input) \in Nat /\ Len(model'.input) = Len(model.input)
        BY <1>i DEF Numeric
      <4> QED
        BY <4>1, <4>2
    <3> QED
      BY <3>1, <3>2
  <2>4. Arriving(Len(Way))'
    <3>1. ASSUME NEW i \in 1..Len(Way') PROVE
            /\ Fresh(Way[i])' <=> i > Len(Way') - Pieces'
            /\ Fresh(Way[i])' => Way'[i].turn = user'.turn
      <4>1. CASE i \in 1..Len(Way)
        <5>1. Way'[i] = Way[i] /\ (Fresh(Way[i])' <=> Fresh(Way[i]))
          BY <1>1, <1>2, <4>1 DEF Fresh
        <5>2. Fresh(Way[i]) <=> i > Len(Way) - Pieces
          BY <2>2, <4>1 DEF Arriving
        <5>3. Fresh(Way[i]) => Way[i].turn = user.turn
          BY <2>2, <4>1 DEF Arriving
        <5> QED
          BY <1>2, <2>2, <2>3, <5>1, <5>2, <5>3
      <4>2. CASE i = Len(Way) + 1 /\ Way'[i] = batch
        <5>1. Fresh(Way[i])' /\ Way'[i].turn = user'.turn
          BY <1>1, <4>2 DEF Fresh
        <5> QED
          BY <1>2, <2>2, <2>3, <4>2, <5>1
      <4> QED
        BY <1>2, <4>1, <4>2
    <3>2. Pieces' \in 0..user'.sent /\ Pieces' <= Len(Way')
      BY <1>i, <1>2, <2>2, <2>3 DEF Numeric
    <3>3. Pieces' < user'.sent => Pieces' = Len(Way')
      BY <1>i, <1>2, <2>2, <2>3 DEF Arriving, Numeric
    <3>4. ClearComes' \/ \A i \in 1..Len(model'.input) : model'.input[i] = user'.turn
      BY <2>1, <2>2 DEF Arriving
    <3> QED
      BY <3>1, <3>2, <3>3, <3>4 DEF Arriving
  <2>5. outbound'.urgent # <<>> /\ writer'.at = "write" => ~Fresh(Way[1])'
    BY <1>i, <1>1, <1>2 DEF Hearing, Placed, Fresh
  <2> QED
    BY <1>1, <1>3, <1>4, <2>4, <2>5 DEF Hearing, NoCommit
<1>w. HearsWholeTurn' /\ CutAnswerForgotten'
  BY <1>i DEF HearsWholeTurn, CutAnswerForgotten
<1> QED
  BY <1>s, <1>p, <1>n, <1>a, <1>o, <1>c, <1>f, <1>h, <1>m, <1>u, <1>w, OmniPartsNext

LEMMA Commits ==
  ASSUME OmniInv, OmniTypeOK', ~trace.foreign, user.at = "rest", user.phase = "listening", alive,
         user.sent > 0, ~response.requested, pump.open,
         user'.at = "rest", user'.phase = "answering", user'.turn = user.turn, user'.sent = user.sent,
         response'.requested, response'.item = response.item, response'.wait = response.wait,
         NEW batch \in Batch, Enqueue(batch), batch.kind = "commit", batch.turn = user.turn,
         batch.gen = outbound.gen, batch.size = user.sent,
         UNCHANGED <<pump, trace, writer, reader, inner, alive, model, wire>>
  PROVE  OmniInv'
<1>i. /\ OmniTypeOK /\ OmniShapes /\ OmniPlaces /\ OmniNumbers
      /\ Awaited /\ OneResponse /\ CommitLast /\ Fence /\ Heard /\ Forgetting /\ Hearing
      /\ HearsWholeTurn /\ CutAnswerForgotten /\ Numeric /\ Placed /\ Numeric'
  BY OmniHolds, NumericNext
<1>1. /\ Grown(Way, batch, Way') /\ outbound'.urgent = outbound.urgent /\ outbound'.gen = outbound.gen
      /\ Line' = Line /\ Came' = Came /\ ~Left /\ ~Left' /\ Collecting /\ ~Collecting'
  BY <1>i, WaySends DEF Line, Came, Left, Collecting
<1>2. /\ Len(Way') = Len(Way) + 1 /\ Way'[Len(Way')] = batch /\ Way' # <<>> /\ Len(Way) \in Nat
      /\ \A i \in 1..Len(Way) : i \in 1..Len(Way') /\ Way'[i] = Way[i]
      /\ \A i \in 1..Len(Way') : i \in 1..Len(Way) \/ (i = Len(Way) + 1 /\ Way'[i] = batch)
      /\ Way # <<>> => Way'[1] = Way[1] /\ 1 \in 1..Len(Way)
      /\ Way = <<>> => Way'[1] = batch
  BY <1>i, <1>1, WayGrown
<1>3. ~NoCommit'
  <2>1. Len(Way') \in 1..Len(Way')
    BY <1>2
  <2> QED
    BY <1>2, <2>1 DEF NoCommit
<1>4. Calm => NoCommit /\ model.running = 0 /\ Line = <<>> /\ reader.at # "publish" /\ wire = <<>>
  BY NothingRuns
<1>s. OmniShapes'
  BY <1>i, <1>1, <1>2 DEF OmniShapes
<1>p. OmniPlaces'
  BY <1>i, <1>1 DEF OmniPlaces, Left
<1>n. OmniNumbers'
  <2>1. \A t \in Nat : (AskedFor(t) => AskedFor(t)') /\ (Named(t) => Named(t)')
    BY DEF AskedFor, Named
  <2>2. ASSUME NEW i \in 1..Len(Way')
        PROVE  /\ Way'[i].kind = "commit" => AskedFor(Way[i].turn)'
               /\ Way'[i].kind = "cancel" => Named(Way[i].turn)'
               /\ Way'[i].kind = "append" => Way'[i].gen <= outbound'.gen
    <3>1. CASE i \in 1..Len(Way) /\ Way'[i] = Way[i]
      BY <1>i, <1>1, <3>1 DEF OmniNumbers, AskedFor, Named
    <3>2. CASE Way'[i] = batch
      <4>1. outbound.gen \in Nat /\ user.turn \in Nat
        BY <1>i DEF Numeric
      <4> QED
        BY <1>1, <3>2, <4>1 DEF AskedFor
    <3> QED
      BY <1>2, <3>1, <3>2
  <2> QED
    BY <1>i, <1>1, <2>1, <2>2 DEF OmniNumbers, Numeric
<1>a. Awaited'
  BY <1>i, <1>1 DEF Awaited, OmniNumbers, Named
<1>o. OneResponse'
  BY <1>i, <1>1, <1>3, <1>4 DEF OneResponse, Calm, Silent, Numeric
<1>c. CommitLast'
  <2> SUFFICES ASSUME Calm PROVE CommitLast'
    BY DEF CommitLast, Calm
  <2>1. ASSUME NEW i \in 1..Len(Way'), Way'[i].kind = "commit"
        PROVE  i = Len(Way') /\ Way'[i] = batch
    BY <1>2, <1>4, <2>1 DEF NoCommit
  <2>2. ASSUME outbound'.urgent # <<>>, writer'.at # "look" PROVE Way'[1].kind # "commit"
    <3>1. Way # <<>>
      BY <1>i, <1>1, <2>2 DEF CommitLast, OmniShapes, Placed, OmniTypeOK
    <3> QED
      BY <1>2, <1>4, <3>1 DEF NoCommit
  <2>3. \A i \in 1..Len(Way') : Way'[i].kind = "commit" =>
         /\ Way'[i].turn = user'.turn /\ Way'[i].size = user'.sent
         /\ \A j \in (i + 1)..Len(Way') : Way'[j].kind = "cancel"
         /\ ~(i < Len(Way'))
    BY <1>2, <2>1
  <2> QED
    BY <1>3, <2>2, <2>3 DEF CommitLast
<1>f. Fence'
  BY <1>i, <1>4 DEF Fence, Calm
<1>h. Heard'
  BY <1>i, <1>1 DEF Heard, Calm, Numeric
<1>m. Forgetting'
  <2>1. \A t \in Nat : Deleting(t) => Deleting(t)'
    BY <1>2 DEF Deleting
  <2>2. user.turn \notin model.kept
    BY <1>i DEF OmniNumbers, AskedFor
  <2> QED
    BY <1>i, <1>1, <2>1, <2>2 DEF Forgetting, Calm, Numeric
<1>u. Hearing'
  <2> SUFFICES ASSUME Calm, alive, ~trace.overtaken, ~trace.mistaken PROVE Hearing'
    BY DEF Hearing, Calm
  <2>1. (ClearComes <=> ClearComes') /\ \A b : Fresh(b)' <=> Fresh(b)
    BY <1>1, <1>2 DEF ClearComes, Fresh
  <2>2. Arriving(Len(Way))
    BY <1>i, <1>1 DEF Hearing
  <2>3. Pieces' = Pieces
    BY <2>1 DEF Pieces
  <2>4. \A i \in 1..Len(Way) : Fresh(Way[i])' <=> Fresh(Way[i])
    BY <1>1, <1>2 DEF Fresh
  <2>5. ASSUME NEW c \in 1..Len(Way'), Way'[c].kind = "commit" PROVE Arriving(c - 1)'
    <3>1. c - 1 = Len(Way)
      BY <1>2, <1>4, <2>5 DEF NoCommit
    <3>2. Arriving(Len(Way)) <=>
            /\ Pieces' \in 0..user'.sent /\ Pieces' <= c - 1
            /\ \A i \in 1..(c - 1) : Fresh(Way[i])' <=> i > c - 1 - Pieces'
            /\ \A i \in 1..(c - 1) : Fresh(Way[i])' => Way'[i].turn = user'.turn
            /\ Pieces' < user'.sent => Pieces' = c - 1
            /\ ClearComes' \/ \A i \in 1..Len(model'.input) : model'.input[i] = user'.turn
      BY <1>2, <2>1, <2>3, <2>4, <3>1 DEF Arriving
    <3> QED
      BY <2>2, <3>2 DEF Arriving
  <2>6. outbound'.urgent # <<>> /\ writer'.at = "write" => ~Fresh(Way[1])'
    BY <1>i, <1>1, <1>2 DEF Hearing, Placed, Fresh
  <2> QED
    BY <1>1, <1>3, <2>5, <2>6 DEF Hearing
<1>w. HearsWholeTurn' /\ CutAnswerForgotten'
  BY <1>i DEF HearsWholeTurn, CutAnswerForgotten
<1> QED
  BY <1>s, <1>p, <1>n, <1>a, <1>o, <1>c, <1>f, <1>h, <1>m, <1>u, <1>w, OmniPartsNext

LEMMA CancelsUnopened == ASSUME OmniInv, OmniTypeOK', ~trace.foreign, CancelUnopened PROVE OmniInv'
<1>i. /\ OmniTypeOK /\ OmniShapes /\ OmniPlaces /\ OmniNumbers
      /\ Awaited /\ OneResponse /\ CommitLast /\ Fence /\ Heard /\ Forgetting /\ Hearing
      /\ HearsWholeTurn /\ CutAnswerForgotten /\ Numeric /\ Placed /\ Numeric'
  BY OmniHolds, NumericNext
<1>1. /\ user.at \in {"rest", "rejected"} /\ user.phase = "listening" /\ ~pump.open
      /\ user.sent = 0 /\ ~response.requested /\ Way = <<>> /\ model = FreshModel
      /\ user'.at \in {"drain", "closing"} /\ user'.phase = user.phase /\ user'.turn = user.turn
      /\ user'.sent = user.sent
      /\ UNCHANGED <<pump, outbound, response, writer, reader, inner, alive, model, wire>>
  <2>1. user \in UserSet /\ user.phase # "idle" /\ user.phase # "answering" /\ ~pump.open
    BY <1>i, OmniTyped DEF CancelUnopened, OmniShapes
  <2> QED
    BY <1>i, <2>1 DEF CancelUnopened, OmniShapes, UserGoes, UserSet, Session
<1>2. /\ trace'.cut = trace.cut \cup {user.turn} /\ trace'.foreign = trace.foreign
      /\ trace'.left = trace.left /\ trace'.complained = trace.complained
      /\ trace'.overtaken = trace.overtaken /\ trace'.mistaken = trace.mistaken
      /\ trace'.mixed = trace.mixed /\ trace'.haunted = trace.haunted
  BY <1>i, OmniTyped DEF CancelUnopened, Returned, TraceSet
<1>3. /\ Way' = Way /\ Line' = Line /\ Came' = Came /\ Len(Way) = 0
      /\ ~Left /\ (Left' <=> user'.at = "closing") /\ ~Collecting'
  BY <1>i, <1>1 DEF Way, Line, Came, Left, Collecting, Numeric
<1>4. Calm => reader.at # "publish"
  BY <1>1, <1>3, NothingRuns
<1>s. OmniShapes'
  BY <1>i, <1>1, <1>3 DEF OmniShapes
<1>p. OmniPlaces'
  BY <1>i, <1>1, <1>2, <1>3 DEF OmniPlaces, Numeric
<1>n. OmniNumbers'
  <2>1. \A t \in Nat : (AskedFor(t) => AskedFor(t)') /\ (Named(t) => Named(t)')
    BY <1>1 DEF AskedFor, Named
  <2> QED
    BY <1>i, <1>1, <1>3, <2>1 DEF OmniNumbers, Numeric
<1>a. Awaited'
  BY <1>1 DEF Awaited
<1>o. OneResponse'
  BY <1>i, <1>1, <1>2, <1>3 DEF OneResponse, Calm, Silent, NoCommit
<1>c. CommitLast'
  BY <1>1, <1>3 DEF CommitLast
<1>f. Fence'
  BY <1>1, <1>2, <1>4 DEF Fence, Calm
<1>h. Heard'
  BY <1>i, <1>1, <1>2, <1>3 DEF Heard, Calm
<1>m. Forgetting'
  BY <1>1 DEF Forgetting, FreshModel
<1>u. Hearing'
  BY <1>i, <1>1, <1>3 DEF Hearing, FreshModel, Placed
<1>w. HearsWholeTurn' /\ CutAnswerForgotten'
  BY <1>i, <1>2 DEF HearsWholeTurn, CutAnswerForgotten
<1> QED
  BY <1>s, <1>p, <1>n, <1>a, <1>o, <1>c, <1>f, <1>h, <1>m, <1>u, <1>w, OmniPartsNext

LEMMA CancelsInput == ASSUME OmniInv, OmniTypeOK', ~trace.foreign, CancelInput PROVE OmniInv'
<1>i. /\ OmniTypeOK /\ OmniShapes /\ OmniPlaces /\ OmniNumbers
      /\ Awaited /\ OneResponse /\ CommitLast /\ Fence /\ Heard /\ Forgetting /\ Hearing
      /\ HearsWholeTurn /\ CutAnswerForgotten /\ Numeric /\ Placed /\ Numeric'
  BY OmniHolds, NumericNext
<1>1. /\ user.at \in {"rest", "rejected"} /\ user.phase # "idle" /\ pump.open /\ ~response.requested
      /\ user'.at = "clear" /\ user'.phase = user.phase /\ user'.turn = user.turn
      /\ user'.sent = user.sent /\ outbound'.gen = outbound.gen + 1
      /\ outbound'.urgent = outbound.urgent /\ outbound'.writes = outbound.writes
      /\ UNCHANGED <<pump, response, writer, reader, inner, alive, model, wire, trace>>
  BY <1>i, OmniTyped DEF CancelInput, UserGoes, UserSet, OutboundTyped, OutboundSet, Session
<1>2. /\ Way' = Way /\ Line' = Line /\ Came' = Came /\ ~Left /\ ~Left' /\ ~Collecting'
      /\ user.turn \notin trace.cut /\ (NoCommit <=> NoCommit')
  BY <1>i, <1>1 DEF Way, Line, Came, Left, Collecting, NoCommit, OmniPlaces
<1>3. Calm /\ alive => NoCommit
  BY <1>i, <1>1 DEF OneResponse
<1>s. OmniShapes'
  BY <1>i, <1>1, <1>2 DEF OmniShapes
<1>p. OmniPlaces'
  BY <1>i, <1>1, <1>2 DEF OmniPlaces
<1>n. OmniNumbers'
  <2>1. \A t \in Nat : (AskedFor(t) => AskedFor(t)') /\ (Named(t) => Named(t)')
    BY <1>1 DEF AskedFor, Named
  <2>2. outbound'.gen <= user'.turn
    <3>1. outbound.gen < user.turn /\ outbound.gen \in Nat /\ user.turn \in Nat
      BY <1>i, <1>1 DEF OmniNumbers, Numeric
    <3> QED
      BY <1>1, <3>1
  <2>3. \A i \in 1..Len(Way) : Way[i].kind = "append" => Way[i].gen <= outbound'.gen
    <3>1. /\ \A i \in 1..Len(Way) : /\ Way[i].kind = "append" => Way[i].gen <= outbound.gen
                                    /\ Way[i].gen \in Nat
          /\ outbound.gen \in Nat
      BY <1>i DEF OmniNumbers, Numeric
    <3> QED
      BY <1>1, <3>1
  <2> QED
    BY <1>i, <1>1, <1>2, <2>1, <2>2, <2>3 DEF OmniNumbers, Numeric
<1>a. Awaited'
  BY <1>1 DEF Awaited
<1>o. OneResponse'
  BY <1>i, <1>1, <1>2 DEF OneResponse, Calm, Silent
<1>c. CommitLast'
  BY <1>i, <1>1, <1>2, <1>3 DEF CommitLast, Calm, NoCommit
<1>f. Fence'
  BY <1>i, <1>1, <1>2 DEF Fence, Calm
<1>h. Heard'
  BY <1>i, <1>1, <1>2 DEF Heard, Calm
<1>m. Forgetting'
  <2>1. \A t \in Nat : Deleting(t)' <=> Deleting(t)
    BY <1>2 DEF Deleting
  <2> QED
    BY <1>i, <1>1, <1>2, <2>1 DEF Forgetting, Calm, Numeric
<1>u. Hearing'
  <2> SUFFICES ASSUME Calm, alive PROVE Hearing'
    BY <1>1 DEF Hearing, Calm
  <2>1. \A i \in 1..Len(Way) : ~Fresh(Way[i])'
    <3>1. /\ \A i \in 1..Len(Way) : /\ Way[i].kind = "append" => Way[i].gen <= outbound.gen
                                    /\ Way[i].gen \in Nat
          /\ outbound.gen \in Nat
      BY <1>i DEF OmniNumbers, Numeric
    <3>2. \A i \in 1..Len(Way) : Way[i].kind = "append" => Way[i].gen # outbound'.gen
      BY <1>1, <3>1
    <3> QED
      BY <1>2, <3>2 DEF Fresh
  <2>2. ClearComes'
    BY <1>1 DEF ClearComes
  <2>3. writer.at = "write" => 1 \in 1..Len(Way)
    BY <1>i DEF Placed, Numeric
  <2> QED
    BY <1>1, <1>2, <1>3, <2>1, <2>2, <2>3 DEF Hearing, NoCommit
<1>w. HearsWholeTurn' /\ CutAnswerForgotten'
  BY <1>i, <1>1 DEF HearsWholeTurn, CutAnswerForgotten
<1> QED
  BY <1>s, <1>p, <1>n, <1>a, <1>o, <1>c, <1>f, <1>h, <1>m, <1>u, <1>w, OmniPartsNext

\* Cancel returns: the clear is on its way, or the response is over.
LEMMA CancelReturns ==
  ASSUME OmniInv, OmniTypeOK', ~trace.foreign,
         \/ user.at = "clear" /\ outbound'.urgent # <<>> /\ outbound'.urgent[1].kind = "clear"
         \/ user.at = "wait" /\ response.wait = "ok" /\ outbound'.urgent = outbound.urgent,
         user'.at = IF user.phase = "answering" THEN "discard" ELSE "drain",
         user'.phase = user.phase, user'.turn = user.turn, user'.sent = user.sent, Returned(user.turn),
         outbound'.writes = outbound.writes, outbound'.gen = outbound.gen,
         response'.requested = response.requested, response'.item = response.item,
         response'.wait = "none",
         UNCHANGED <<pump, writer, reader, inner, alive, model, wire>>
  PROVE  OmniInv'
<1>i. /\ OmniTypeOK /\ OmniShapes /\ OmniPlaces /\ OmniNumbers
      /\ Awaited /\ OneResponse /\ CommitLast /\ Fence /\ Heard /\ Forgetting /\ Hearing
      /\ HearsWholeTurn /\ CutAnswerForgotten /\ Numeric /\ Placed /\ Numeric'
  BY OmniHolds, NumericNext
<1>1. /\ user.at \in {"clear", "wait"} /\ user'.at \in {"discard", "drain"} /\ user.phase # "idle"
      /\ user'.at = "discard" <=> user.phase = "answering"
      /\ ~response.requested /\ user.turn > 0 /\ user.turn \notin trace.cut
  BY <1>i DEF OmniPlaces, Left
<1>2. /\ trace'.cut = trace.cut \cup {user.turn} /\ trace'.foreign = trace.foreign
      /\ trace'.left = trace.left /\ trace'.complained = trace.complained
      /\ trace'.overtaken = trace.overtaken /\ trace'.mistaken = trace.mistaken
      /\ trace'.mixed = trace.mixed /\ trace'.haunted = trace.haunted
  BY <1>i, OmniTyped DEF Returned, TraceSet
<1>3. /\ Way' = Way /\ Line' = Line /\ Came' = Came /\ ~Left /\ ~Left' /\ ~Collecting /\ ~Collecting'
      /\ (NoCommit <=> NoCommit')
  BY <1>1 DEF Way, Line, Came, Left, Collecting, NoCommit
<1>4. Calm /\ alive => NoCommit /\ Silent /\ Line = <<>> /\ wire = <<>>
  BY <1>i, <1>1 DEF OneResponse, Silent, Placed
<1>5. Calm => reader.at # "publish"
  <2>1. Calm /\ alive => reader.at # "publish"
    BY <1>i, <1>4 DEF Placed
  <2> QED
    BY <1>i, <1>1, <1>3, <2>1 DEF Fence, OmniPlaces
<1>s. OmniShapes'
  BY <1>i, <1>1, <1>3 DEF OmniShapes
<1>p. OmniPlaces'
  BY <1>i, <1>1, <1>2, <1>3 DEF OmniPlaces, Numeric
<1>n. OmniNumbers'
  <2>1. \A t \in Nat : (AskedFor(t) => AskedFor(t)') /\ (Named(t) => Named(t)')
    BY <1>1 DEF AskedFor, Named
  <2> QED
    BY <1>i, <1>1, <1>3, <2>1 DEF OmniNumbers, Numeric
<1>a. Awaited'
  BY <1>1 DEF Awaited
<1>o. OneResponse'
  BY <1>i, <1>1, <1>2, <1>3 DEF OneResponse, Calm, Silent
<1>c. CommitLast'
  BY <1>i, <1>1, <1>2, <1>3, <1>4 DEF CommitLast, Calm, NoCommit, Numeric
<1>f. Fence'
  BY <1>2, <1>5 DEF Fence, Calm
<1>h. Heard'
  BY <1>i, <1>1, <1>2, <1>3 DEF Heard, Calm
<1>m. Forgetting'
  <2> SUFFICES ASSUME Calm, alive PROVE Forgetting'
    BY <1>2 DEF Forgetting, Calm
  <2>1. \A t \in Nat : Deleting(t)' <=> Deleting(t)
    BY <1>3 DEF Deleting
  <2>2. user.turn \in model.kept => response.item = user.turn /\ user.phase = "answering"
    <3>1. ~(\E i \in 1..Len(wire) : wire[i].item /\ wire[i].turn = user.turn)
      BY <1>4
    <3>2. user.turn \in model.kept => user.phase # "listening"
      BY <1>i DEF OmniNumbers, AskedFor
    <3>3. user.phase \in {"idle", "listening", "answering"}
      BY <1>i, OmniTyped DEF UserSet
    <3> QED
      BY <1>i, <1>1, <3>1, <3>2, <3>3 DEF Forgetting
  <2>3. ASSUME NEW t \in model.kept, t \in trace.cut PROVE Deleting(t)
    BY <1>i, <1>1, <1>3, <2>3 DEF Forgetting
  <2> QED
    BY <1>i, <1>1, <1>2, <2>1, <2>2, <2>3 DEF Forgetting, Numeric
<1>u. Hearing'
  <2> SUFFICES ASSUME Calm, alive, ~trace.overtaken, ~trace.mistaken PROVE Hearing'
    BY <1>2 DEF Hearing, Calm
  <2>1. \A b : Fresh(b)' <=> Fresh(b)
    BY DEF Fresh
  <2>2. \A i \in 1..Len(Way) : ~Fresh(Way[i]) /\ Way[i].kind # "commit"
    BY <1>i, <1>3, <1>4 DEF Hearing, NoCommit
  <2>3. ClearComes' \/ model.input = <<>>
    BY <1>i, <1>3, <1>4 DEF Hearing, ClearComes
  <2>4. writer.at = "write" => 1 \in 1..Len(Way)
    BY <1>i DEF Placed, Numeric
  <2> QED
    BY <1>3, <2>1, <2>2, <2>3, <2>4 DEF Hearing
<1>w. HearsWholeTurn' /\ CutAnswerForgotten'
  BY <1>i, <1>2 DEF HearsWholeTurn, CutAnswerForgotten
<1> QED
  BY <1>s, <1>p, <1>n, <1>a, <1>o, <1>c, <1>f, <1>h, <1>m, <1>u, <1>w, OmniPartsNext

LEMMA CancelsResponse == ASSUME OmniInv, OmniTypeOK', ~trace.foreign, CancelResponse PROVE OmniInv'
<1>i. /\ OmniTypeOK /\ OmniShapes /\ OmniPlaces /\ OmniNumbers
      /\ Awaited /\ OneResponse /\ CommitLast /\ Fence /\ Heard /\ Forgetting /\ Hearing
      /\ HearsWholeTurn /\ CutAnswerForgotten /\ Numeric /\ Placed /\ Numeric'
  BY OmniHolds, NumericNext
<1>1. /\ user.at \in {"rest", "rejected"} /\ user.phase # "idle" /\ pump.open /\ response.requested
      /\ user'.at = "cancel" /\ user'.phase = user.phase /\ user'.turn = user.turn
      /\ user'.sent = user.sent
      /\ UNCHANGED <<pump, outbound, writer, reader, inner, alive, model, wire>>
  BY <1>i, OmniTyped DEF CancelResponse, UserGoes, UserSet, Session
<1>2. /\ response'.requested = response.requested /\ response'.item = response.item
      /\ response'.wait = "waiting"
  BY <1>i, OmniTyped DEF CancelResponse, ResponseSet
<1>3. /\ trace'.cut = trace.cut /\ trace'.foreign = trace.foreign
      /\ trace'.left = trace.left /\ trace'.complained = trace.complained
      /\ trace'.overtaken = trace.overtaken
      /\ trace'.mistaken = (trace.mistaken \/ user.phase = "listening")
      /\ trace'.mixed = trace.mixed /\ trace'.haunted = trace.haunted
  BY <1>i, OmniTyped DEF CancelResponse, TakenForResponse, TraceSet
<1>4. /\ Way' = Way /\ Line' = Line /\ Came' = Came /\ ~Left /\ ~Left' /\ ~Collecting'
      /\ user.turn \notin trace.cut /\ (NoCommit <=> NoCommit')
  BY <1>i, <1>1 DEF Way, Line, Came, Left, Collecting, NoCommit, OmniPlaces
<1>s. OmniShapes'
  BY <1>i, <1>1, <1>2, <1>4 DEF OmniShapes
<1>p. OmniPlaces'
  BY <1>i, <1>1, <1>2, <1>3, <1>4 DEF OmniPlaces
<1>n. OmniNumbers'
  <2>1. \A t \in Nat : (AskedFor(t) => AskedFor(t)') /\ (Named(t) => Named(t)')
    BY <1>1 DEF AskedFor, Named
  <2> QED
    BY <1>i, <1>1, <1>4, <2>1 DEF OmniNumbers, Numeric
<1>a. Awaited'
  BY <1>i, <1>1, <1>2, <1>3, <1>4 DEF Awaited
<1>o. OneResponse'
  BY <1>i, <1>1, <1>2, <1>3, <1>4 DEF OneResponse, Calm, Silent
<1>c. CommitLast'
  BY <1>i, <1>1, <1>2, <1>3, <1>4 DEF CommitLast, Calm
<1>f. Fence'
  BY <1>i, <1>1, <1>3, <1>4 DEF Fence, Calm
<1>h. Heard'
  BY <1>i, <1>1, <1>3, <1>4 DEF Heard, Calm
<1>m. Forgetting'
  <2>1. \A t \in Nat : Deleting(t)' <=> Deleting(t)
    BY <1>4 DEF Deleting
  <2> QED
    BY <1>i, <1>1, <1>2, <1>3, <1>4, <2>1 DEF Forgetting, Calm, Numeric
<1>u. Hearing'
  <2> SUFFICES ASSUME Calm, alive, ~trace.overtaken, ~trace.mistaken, user.phase # "listening"
               PROVE  Hearing'
    BY <1>1, <1>3 DEF Hearing, Calm
  <2>1. (ClearComes <=> ClearComes') /\ ~Collecting /\ \A b : Fresh(b)' <=> Fresh(b)
    BY <1>1, <1>4 DEF ClearComes, Fresh, Collecting
  <2>2. \A c \in 1..Len(Way) : Arriving(c - 1) => Arriving(c - 1)'
    BY <1>1, <1>4, <2>1 DEF Arriving, Pieces
  <2> QED
    BY <1>i, <1>1, <1>4, <2>1, <2>2 DEF Hearing
<1>w. HearsWholeTurn' /\ CutAnswerForgotten'
  BY <1>i, <1>3 DEF HearsWholeTurn, CutAnswerForgotten
<1> QED
  BY <1>s, <1>p, <1>n, <1>a, <1>o, <1>c, <1>f, <1>h, <1>m, <1>u, <1>w, OmniPartsNext

LEMMA SendsCancel ==
  ASSUME OmniInv, OmniTypeOK', ~trace.foreign, user.at = "cancel", alive,
         user'.at = "wait", user'.phase = user.phase, user'.turn = user.turn, user'.sent = user.sent,
         NEW batch \in Batch, Enqueue(batch), batch.kind = "cancel", batch.turn = user.turn,
         batch.gen = outbound.gen,
         UNCHANGED <<pump, response, trace, writer, reader, inner, alive, model, wire>>
  PROVE  OmniInv'
<1>i. /\ OmniTypeOK /\ OmniShapes /\ OmniPlaces /\ OmniNumbers
      /\ Awaited /\ OneResponse /\ CommitLast /\ Fence /\ Heard /\ Forgetting /\ Hearing
      /\ HearsWholeTurn /\ CutAnswerForgotten /\ Numeric /\ Placed /\ Numeric'
  BY OmniHolds, NumericNext
<1>1. /\ Grown(Way, batch, Way') /\ outbound'.urgent = outbound.urgent /\ outbound'.gen = outbound.gen
      /\ Line' = Line /\ Came' = Came /\ ~Left /\ ~Left' /\ ~Collecting /\ ~Collecting'
  BY <1>i, WaySends DEF Line, Came, Left, Collecting
<1>2. /\ Len(Way') = Len(Way) + 1 /\ Way'[Len(Way')] = batch /\ Way' # <<>> /\ Len(Way) \in Nat
      /\ \A i \in 1..Len(Way) : i \in 1..Len(Way') /\ Way'[i] = Way[i]
      /\ \A i \in 1..Len(Way') : i \in 1..Len(Way) \/ (i = Len(Way) + 1 /\ Way'[i] = batch)
      /\ Way # <<>> => Way'[1] = Way[1] /\ 1 \in 1..Len(Way)
      /\ Way = <<>> => Way'[1] = batch
  BY <1>i, <1>1, WayGrown
<1>3. NoCommit <=> NoCommit'
  BY <1>2 DEF NoCommit
<1>4. user.phase # "idle" /\ response.wait # "none" /\ user.turn \notin trace.cut
  BY <1>i, <1>1 DEF OmniPlaces
<1>s. OmniShapes'
  <2>1. pump.open
    BY <1>i DEF OmniShapes
  <2> QED
    BY <1>i, <1>1, <1>2, <2>1 DEF OmniShapes
<1>p. OmniPlaces'
  BY <1>i, <1>1, <1>4 DEF OmniPlaces
<1>n. OmniNumbers'
  <2>1. \A t \in Nat : (AskedFor(t) => AskedFor(t)') /\ (Named(t) => Named(t)')
    BY DEF AskedFor, Named
  <2>2. ASSUME NEW i \in 1..Len(Way')
        PROVE  /\ Way'[i].kind = "commit" => AskedFor(Way[i].turn)'
               /\ Way'[i].kind = "cancel" => Named(Way[i].turn)'
               /\ Way'[i].kind = "append" => Way'[i].gen <= outbound'.gen
    <3>1. CASE i \in 1..Len(Way) /\ Way'[i] = Way[i]
      BY <1>i, <1>1, <3>1 DEF OmniNumbers, AskedFor, Named
    <3>2. CASE Way'[i] = batch
      <4>1. outbound.gen \in Nat /\ user.turn \in Nat
        BY <1>i DEF Numeric
      <4> QED
        BY <1>1, <3>2, <4>1 DEF Named
    <3> QED
      BY <1>2, <3>1, <3>2
  <2> QED
    BY <1>i, <1>1, <2>1, <2>2 DEF OmniNumbers, Numeric
<1>a. Awaited'
  BY <1>i, <1>1 DEF Awaited
<1>o. OneResponse'
  BY <1>i, <1>1, <1>3 DEF OneResponse, Calm, Silent
<1>c. CommitLast'
  <2> SUFFICES ASSUME Calm PROVE CommitLast'
    BY DEF CommitLast, Calm
  <2>1. ASSUME NEW i \in 1..Len(Way'), Way'[i].kind = "commit"
        PROVE  /\ Way'[i].turn = user'.turn /\ Way'[i].size = user'.sent
               /\ \A j \in (i + 1)..Len(Way') : Way'[j].kind = "cancel"
    <3>1. i \in 1..Len(Way) /\ Way'[i] = Way[i]
      BY <1>2, <2>1
    <3>2. /\ Way[i].turn = user.turn /\ Way[i].size = user.sent
          /\ \A j \in (i + 1)..Len(Way) : Way[j].kind = "cancel"
      BY <1>i, <2>1, <3>1 DEF CommitLast
    <3>3. ASSUME NEW j \in (i + 1)..Len(Way') PROVE Way'[j].kind = "cancel"
      <4>1. j \in 1..Len(Way')
        BY <1>2
      <4> QED
        BY <1>2, <3>2, <4>1
    <3> QED
      BY <3>1, <3>2, <3>3
  <2>2. response'.requested /\ NoCommit' /\ reader'.at # "finish" =>
         (\A i \in 1..Len(Way') : Way'[i].kind = "cancel") /\ outbound'.urgent = <<>>
    BY <1>i, <1>1, <1>2, <1>3 DEF CommitLast
  <2>3. outbound'.urgent # <<>> /\ writer'.at # "look" => Way'[1].kind # "commit"
    BY <1>i, <1>1, <1>2 DEF CommitLast
  <2> QED
    BY <1>2, <2>1, <2>2, <2>3 DEF CommitLast
<1>f. Fence'
  BY <1>i, <1>1 DEF Fence, Calm
<1>h. Heard'
  BY <1>i, <1>1 DEF Heard, Calm
<1>m. Forgetting'
  <2>1. \A t \in Nat : Deleting(t) => Deleting(t)'
    BY <1>2 DEF Deleting
  <2> QED
    BY <1>i, <1>1, <2>1 DEF Forgetting, Calm, Numeric
<1>u. Hearing'
  <2> SUFFICES ASSUME Calm, alive, ~trace.overtaken, ~trace.mistaken PROVE Hearing'
    BY DEF Hearing, Calm
  <2>1. (ClearComes <=> ClearComes') /\ ~Fresh(batch)
    BY <1>1, <1>2 DEF ClearComes, Fresh
  <2>2. \A i \in 1..Len(Way) : (Fresh(Way[i])' <=> Fresh(Way[i])) /\ Way'[i] = Way[i]
    BY <1>1, <1>2 DEF Fresh
  <2>3. ASSUME NEW c \in 1..Len(Way'), Way'[c].kind = "commit" PROVE Arriving(c - 1)'
    <3>1. c \in 1..Len(Way) /\ Way'[c] = Way[c]
      BY <1>2, <2>3
    <3>2. Arriving(c - 1) /\ Pieces' = Pieces
      BY <1>i, <2>1, <2>3, <3>1 DEF Hearing, Pieces
    <3>3. \A i \in 1..(c - 1) : i \in 1..Len(Way)
      BY <1>2, <3>1
    <3> QED
      BY <2>1, <2>2, <3>2, <3>3 DEF Arriving
  <2>4. NoCommit => /\ ClearComes' \/ model'.input = <<>>
                    /\ \A i \in 1..Len(Way') : ~Fresh(Way[i])'
    <3>1. ASSUME NoCommit, NEW i \in 1..Len(Way') PROVE ~Fresh(Way[i])'
      <4>1. CASE i \in 1..Len(Way)
        BY <1>i, <1>1, <2>2, <3>1, <4>1 DEF Hearing
      <4>2. CASE Way'[i] = batch
        BY <1>1, <4>2 DEF Fresh
      <4> QED
        BY <1>2, <4>1, <4>2
    <3> QED
      BY <1>i, <1>1, <2>1, <3>1 DEF Hearing
  <2>5. outbound'.urgent # <<>> /\ writer'.at = "write" => ~Fresh(Way[1])'
    BY <1>i, <1>1, <1>2, <2>2 DEF Hearing, Placed
  <2> QED
    BY <1>1, <1>3, <2>3, <2>4, <2>5 DEF Hearing
<1>w. HearsWholeTurn' /\ CutAnswerForgotten'
  BY <1>i DEF HearsWholeTurn, CutAnswerForgotten
<1> QED
  BY <1>s, <1>p, <1>n, <1>a, <1>o, <1>c, <1>f, <1>h, <1>m, <1>u, <1>w, OmniPartsNext

\* The newest answer is discarded: one that was cut, or one that is complete.
LEMMA Discards ==
  ASSUME OmniInv, OmniTypeOK', ~trace.foreign,
         user'.phase = user.phase, user'.turn = user.turn, user'.sent = user.sent,
         \/ user.at = "discard" /\ user'.at = "drain" /\ trace' = trace
         \/ user.at = "rest" /\ user'.at = "rest" /\ user.phase = "idle" /\ pump.open /\ user.turn > 0
            /\ Returned(user.turn),
         NEW batch, batch.kind = "delete", batch.turn = response.item,
         batch.gen = outbound.gen,
         \/ response.item = 0 /\ outbound' = outbound
         \/ response.item # 0 /\ batch \in Batch /\ Enqueue(batch) /\ alive,
         response'.requested = response.requested, response'.wait = response.wait,
         response'.item = 0,
         UNCHANGED <<pump, writer, reader, inner, alive, model, wire>>
  PROVE  OmniInv'
<1>i. /\ OmniTypeOK /\ OmniShapes /\ OmniPlaces /\ OmniNumbers
      /\ Awaited /\ OneResponse /\ CommitLast /\ Fence /\ Heard /\ Forgetting /\ Hearing
      /\ HearsWholeTurn /\ CutAnswerForgotten /\ Numeric /\ Placed /\ Numeric'
  BY OmniHolds, NumericNext
<1>1. /\ trace'.cut = trace.cut \cup {user.turn} /\ trace'.foreign = trace.foreign
      /\ trace'.left = trace.left /\ trace'.complained = trace.complained
      /\ trace'.overtaken = trace.overtaken /\ trace'.mistaken = trace.mistaken
      /\ trace'.mixed = trace.mixed /\ trace'.haunted = trace.haunted
  <2>1. CASE user.at = "discard" /\ trace' = trace
    BY <1>i, <2>1 DEF OmniPlaces
  <2>2. CASE Returned(user.turn)
    BY <1>i, <2>2, OmniTyped DEF Returned, TraceSet
  <2> QED
    BY <2>1, <2>2
<1>2. /\ outbound'.urgent = outbound.urgent /\ outbound'.gen = outbound.gen
      /\ Line' = Line /\ Came' = Came /\ ~Left /\ ~Left' /\ ~Collecting /\ ~Collecting'
      /\ user.turn \in Nat \ {0} /\ pump.open
  <2>1. outbound'.urgent = outbound.urgent /\ outbound'.gen = outbound.gen
    BY <1>i, WaySends
  <2>2. user.turn \in Nat \ {0} /\ pump.open
    BY <1>i DEF OmniPlaces, OmniShapes, Numeric
  <2> QED
    BY <1>i, <2>1, <2>2 DEF Line, Came, Left, Collecting, OmniPlaces
<1>3. /\ \A i \in 1..Len(Way) : i \in 1..Len(Way') /\ Way'[i] = Way[i]
      /\ \A i \in 1..Len(Way') : i \in 1..Len(Way) \/ Way'[i] = batch
      /\ Way # <<>> => Way'[1] = Way[1] /\ 1 \in 1..Len(Way)
      /\ Way = <<>> /\ Way' # <<>> => Way'[1] = batch
      /\ response.item # 0 => Way'[Len(Way')] = batch /\ Len(Way') \in 1..Len(Way')
  <2>1. CASE outbound' = outbound /\ response.item = 0
    <3>1. Way' = Way
      BY <2>1 DEF Way
    <3> QED
      BY <1>i, <2>1, <3>1 DEF Numeric
  <2>2. CASE batch \in Batch /\ Enqueue(batch)
    <3>1. Grown(Way, batch, Way')
      BY <1>i, <2>2, WaySends
    <3> QED
      BY <1>i, <3>1, WayGrown
  <2> QED
    BY <2>1, <2>2
<1>4. NoCommit <=> NoCommit'
  BY <1>3 DEF NoCommit
<1>5. /\ response.requested => user.phase = "idle" /\ reader.at = "finish"
      /\ Calm /\ alive => NoCommit /\ wire = <<>>
      /\ Calm => reader.at # "publish"
  <2>1. CASE user.at = "discard"
    <3>1. ~response.requested /\ user.turn \in trace.cut
      BY <1>i, <2>1 DEF OmniPlaces
    <3>2. Calm /\ alive => NoCommit /\ wire = <<>>
      BY <1>i, <3>1 DEF OneResponse, Silent, Placed
    <3> QED
      BY <1>i, <3>1, <3>2 DEF Fence
  <2>2. CASE user.at = "rest" /\ user.phase = "idle"
    BY <1>2, <2>2, NothingRuns
  <2> QED
    BY <2>1, <2>2
<1>s. OmniShapes'
  BY <1>i, <1>2, <1>3 DEF OmniShapes
<1>p. OmniPlaces'
  BY <1>i, <1>1, <1>2 DEF OmniPlaces, Numeric
<1>n. OmniNumbers'
  <2>1. \A t \in Nat : (AskedFor(t) => AskedFor(t)') /\ (Named(t) => Named(t)')
    BY <1>i DEF AskedFor, Named, OmniPlaces
  <2>2. ASSUME NEW i \in 1..Len(Way')
        PROVE  /\ Way'[i].kind = "commit" => AskedFor(Way[i].turn)'
               /\ Way'[i].kind = "cancel" => Named(Way[i].turn)'
               /\ Way'[i].kind = "append" => Way'[i].gen <= outbound'.gen
    <3>1. CASE i \in 1..Len(Way) /\ Way'[i] = Way[i]
      <4>1. /\ Way[i].kind = "commit" => AskedFor(Way[i].turn)
            /\ Way[i].kind = "cancel" => Named(Way[i].turn)
            /\ Way[i].kind = "append" => Way[i].gen <= outbound.gen
            /\ Way[i].turn \in Nat
        BY <1>i, <3>1 DEF OmniNumbers, Numeric
      <4> QED
        BY <1>2, <2>1, <3>1, <4>1 DEF AskedFor, Named
    <3>2. CASE Way'[i] = batch
      <4>1. outbound.gen \in Nat /\ user.turn \in Nat
        BY <1>i DEF Numeric
      <4> QED
        BY <1>2, <3>2, <4>1
    <3> QED
      BY <1>3, <3>1, <3>2
  <2> QED
    BY <1>i, <1>2, <2>1, <2>2 DEF OmniNumbers, Numeric, OmniPlaces
<1>a. Awaited'
  BY <1>5 DEF Awaited
<1>o. OneResponse'
  BY <1>i, <1>1, <1>2, <1>4 DEF OneResponse, Calm, Silent
<1>c. CommitLast'
  BY <1>i, <1>1, <1>2, <1>3, <1>5 DEF CommitLast, Calm, NoCommit, OmniPlaces
<1>f. Fence'
  BY <1>1, <1>5 DEF Fence, Calm
<1>h. Heard'
  BY <1>i, <1>1, <1>2 DEF Heard, Calm, OmniPlaces
<1>m. Forgetting'
  <2> SUFFICES ASSUME Calm, alive PROVE Forgetting'
    BY <1>1 DEF Forgetting, Calm
  <2>1. \A t \in Nat : Deleting(t) => Deleting(t)'
    BY <1>3 DEF Deleting
  <2>2. \A t \in Nat : t # 0 /\ t = response.item => Deleting(t)'
    BY <1>3 DEF Deleting
  <2>3. user.turn \in model.kept => Deleting(user.turn)'
    <3>1. ~(\E i \in 1..Len(wire) : wire[i].item /\ wire[i].turn = user.turn)
      BY <1>5
    <3> QED
      BY <1>i, <1>2, <2>1, <2>2, <3>1 DEF Forgetting
  <2>4. ASSUME NEW t \in model.kept, t \in trace.cut, t # user.turn PROVE Deleting(t)'
    BY <1>i, <1>2, <2>1, <2>4 DEF Forgetting, Numeric
  <2> QED
    BY <1>i, <1>1, <2>3, <2>4 DEF Forgetting
<1>u. Hearing'
  <2> SUFFICES ASSUME Calm, alive, ~trace.overtaken, ~trace.mistaken PROVE Hearing'
    BY <1>1 DEF Hearing, Calm
  <2>1. \A i \in 1..Len(Way) : ~Fresh(Way[i])
    BY <1>i, <1>2, <1>5 DEF Hearing
  <2>2. \A i \in 1..Len(Way') : ~Fresh(Way[i])'
    BY <1>2, <1>3, <2>1 DEF Fresh
  <2>3. ClearComes' \/ model.input = <<>>
    BY <1>i, <1>2, <1>3, <1>5 DEF Hearing, ClearComes
  <2>4. writer.at = "write" => 1 \in 1..Len(Way')
    BY <1>i, <1>3 DEF Placed
  <2> QED
    BY <1>2, <1>4, <1>5, <2>2, <2>3, <2>4 DEF Hearing, NoCommit
<1>w. HearsWholeTurn' /\ CutAnswerForgotten'
  BY <1>i, <1>1 DEF HearsWholeTurn, CutAnswerForgotten
<1> QED
  BY <1>s, <1>p, <1>n, <1>a, <1>o, <1>c, <1>f, <1>h, <1>m, <1>u, <1>w, OmniPartsNext

\* One event of the turn that was cut is taken away.
LEMMA DrainsOne == ASSUME OmniInv, OmniTypeOK', ~trace.foreign, DrainOne PROVE OmniInv'
<1>i. /\ OmniTypeOK /\ OmniShapes /\ OmniPlaces /\ OmniNumbers
      /\ Awaited /\ OneResponse /\ CommitLast /\ Fence /\ Heard /\ Forgetting /\ Hearing
      /\ HearsWholeTurn /\ CutAnswerForgotten /\ Numeric /\ Placed /\ Numeric'
  BY OmniHolds, NumericNext
<1>1. /\ user.at = "drain" /\ pump.held # <<>> /\ pump' = [pump EXCEPT !.held = <<>>]
      /\ UNCHANGED <<user, outbound, response, writer, reader, inner, alive, model, wire, trace>>
  BY DEF DrainOne, UserAt, Session
<1>2. Shrunk(Came, Came') /\ pump'.open = pump.open
  BY <1>i, <1>1, CameTaken
<1>3. /\ Len(Came) = Len(Came') + 1 /\ Len(Came') \in Nat /\ Len(Came) \in Nat
      /\ \A i \in 1..Len(Came') : Came'[i] = Came[i + 1] /\ i + 1 \in 1..Len(Came)
  BY <1>i, <1>2 DEF Shrunk, Numeric
<1>4. Way' = Way /\ Line' = Line
  BY <1>1 DEF Way, Line
<1>s. OmniShapes'
  BY <1>i, <1>1, <1>2, <1>4 DEF OmniShapes
<1>p. OmniPlaces'
  BY <1>i, <1>1 DEF OmniPlaces, Left
<1>n. OmniNumbers'
  <2>1. \A t \in Nat : (AskedFor(t) => AskedFor(t)') /\ (Named(t) => Named(t)')
    BY <1>1 DEF AskedFor, Named
  <2>2. \A i \in 1..Len(Came') : Named(Came[i].turn)'
    <3> TAKE i \in 1..Len(Came')
    <3> DEFINE t == Came[i + 1].turn
    <3>1. t \in Nat /\ Named(t) /\ Came'[i].turn = t
      BY <1>i, <1>3 DEF OmniNumbers, Numeric
    <3> QED
      BY <1>1, <3>1 DEF Named
  <2> QED
    BY <1>i, <1>1, <1>4, <2>1, <2>2 DEF OmniNumbers, Numeric
<1>a. Awaited'
  BY <1>i, <1>1 DEF Awaited, OmniPlaces
<1>o. OneResponse'
  BY <1>i, <1>1, <1>4 DEF OneResponse, Calm, Silent, NoCommit
<1>c. CommitLast'
  BY <1>i, <1>1, <1>4 DEF CommitLast, Calm, NoCommit, Left
<1>f. Fence'
  BY <1>i, <1>1, <1>4 DEF Fence, Calm, Left
<1>h. Heard'
  BY <1>i, <1>1, <1>3 DEF Heard, Calm, Left
<1>m. Forgetting'
  BY <1>i, <1>1, <1>4 DEF Forgetting, Calm, Left, NoCommit, Deleting
<1>u. Hearing'
  BY <1>i, <1>1, <1>4 DEF Hearing, Calm, Left, NoCommit, Collecting, ClearComes, Fresh, Arriving, Pieces
<1>w. HearsWholeTurn' /\ CutAnswerForgotten'
  BY <1>i, <1>1 DEF HearsWholeTurn, CutAnswerForgotten
<1> QED
  BY <1>s, <1>p, <1>n, <1>a, <1>o, <1>c, <1>f, <1>h, <1>m, <1>u, <1>w, OmniPartsNext

LEMMA DrainsAll == ASSUME OmniInv, OmniTypeOK', ~trace.foreign, DrainEnds PROVE OmniInv'
<1>i. /\ OmniTypeOK /\ OmniShapes /\ OmniPlaces /\ OmniNumbers
      /\ Awaited /\ OneResponse /\ CommitLast /\ Fence /\ Heard /\ Forgetting /\ Hearing
      /\ HearsWholeTurn /\ CutAnswerForgotten /\ Numeric /\ Placed /\ Numeric'
  BY OmniHolds, NumericNext
<1>1. /\ user.at = "drain" /\ pump.held = <<>> /\ user'.turn = user.turn
      /\ user'.at = "rest" /\ user'.phase = "idle" /\ user'.sent = 0
      /\ UNCHANGED <<pump, outbound, response, writer, reader, inner, alive, model, wire>>
  <2> DEFINE first == [user EXCEPT !.at = "rest", !.phase = "idle"]
  <2>1. first \in [at : {"rest"}, phase : {"idle"}, turn : {user.turn}, sent : 0..OmniPcm, latch : 0..OmniTurns]
    BY <1>i, OmniTyped DEF UserSet
  <2>2. user' = [first EXCEPT !.sent = 0, !.latch = 0]
    BY DEF DrainEnds
  <2> HIDE DEF first
  <2>3. user'.turn = user.turn /\ user'.at = "rest" /\ user'.phase = "idle" /\ user'.sent = 0
    BY <2>1, <2>2
  <2> QED
    BY <2>3 DEF DrainEnds, UserAt, Session
<1>2. /\ trace'.cut = trace.cut /\ trace'.foreign = trace.foreign
      /\ trace'.left = (trace.left \/ inner # <<>>) /\ trace'.complained = trace.complained
      /\ trace'.overtaken = trace.overtaken /\ trace'.mistaken = trace.mistaken
      /\ trace'.mixed = trace.mixed /\ trace'.haunted = trace.haunted
  BY <1>i, OmniTyped DEF DrainEnds, TraceSet
<1>3. /\ Way' = Way /\ Line' = Line /\ Came' = Came /\ ~Left /\ ~Left' /\ ~Collecting /\ ~Collecting'
      /\ (NoCommit <=> NoCommit') /\ ~response.requested /\ user.turn \in trace.cut
      /\ response.wait = "none" /\ (~trace'.left => Came = <<>>)
  BY <1>i, <1>1, <1>2 DEF Way, Line, Came, Left, Collecting, NoCommit, OmniPlaces, Placed
<1>4. Calm /\ alive => NoCommit
  BY <1>i, <1>3 DEF OneResponse
<1>s. OmniShapes'
  BY <1>i, <1>1, <1>3 DEF OmniShapes
<1>p. OmniPlaces'
  BY <1>i, <1>1, <1>2, <1>3 DEF OmniPlaces
<1>n. OmniNumbers'
  <2>1. \A t \in Nat : (AskedFor(t) => AskedFor(t)') /\ (Named(t) => Named(t)')
    BY <1>1 DEF AskedFor, Named
  <2> QED
    BY <1>i, <1>1, <1>3, <2>1, SMTT(30) DEF OmniNumbers, Numeric
<1>a. Awaited'
  BY <1>1, <1>3 DEF Awaited
<1>o. OneResponse'
  BY <1>i, <1>1, <1>2, <1>3 DEF OneResponse, Calm, Silent
<1>c. CommitLast'
  BY <1>i, <1>1, <1>2, <1>3, <1>4 DEF CommitLast, Calm, NoCommit
<1>f. Fence'
  BY <1>i, <1>1, <1>2, <1>3 DEF Fence, Calm
<1>h. Heard'
  BY <1>i, <1>2, <1>3 DEF Heard, Calm, Numeric
<1>m. Forgetting'
  <2>1. \A t \in Nat : Deleting(t)' <=> Deleting(t)
    BY <1>3 DEF Deleting
  <2> QED
    BY <1>i, <1>1, <1>2, <1>3, <2>1 DEF Forgetting, Calm, Numeric
<1>u. Hearing'
  <2> SUFFICES ASSUME Calm, alive, ~trace.overtaken, ~trace.mistaken PROVE Hearing'
    BY <1>1, <1>2 DEF Hearing, Calm
  <2>1. (ClearComes <=> ClearComes') /\ \A b : Fresh(b)' <=> Fresh(b)
    BY <1>1, <1>3 DEF ClearComes, Fresh
  <2> QED
    BY <1>i, <1>1, <1>3, <1>4, <2>1 DEF Hearing, NoCommit
<1>w. HearsWholeTurn' /\ CutAnswerForgotten'
  BY <1>i, <1>2 DEF HearsWholeTurn, CutAnswerForgotten
<1> QED
  BY <1>s, <1>p, <1>n, <1>a, <1>o, <1>c, <1>f, <1>h, <1>m, <1>u, <1>w, OmniPartsNext

LEMMA ReceivesOne == ASSUME OmniInv, OmniTypeOK', ~trace.foreign, Receives PROVE OmniInv'
<1>i. /\ OmniTypeOK /\ OmniShapes /\ OmniPlaces /\ OmniNumbers
      /\ Awaited /\ OneResponse /\ CommitLast /\ Fence /\ Heard /\ Forgetting /\ Hearing
      /\ HearsWholeTurn /\ CutAnswerForgotten /\ Numeric /\ Placed /\ Numeric'
  BY OmniHolds, NumericNext
<1> DEFINE event == pump.held[1]
<1>1. /\ user.at = "rest" /\ pump.held # <<>> /\ pump' = [pump EXCEPT !.held = <<>>]
      /\ UNCHANGED <<outbound, response, writer, reader, inner, alive, model, wire>>
      /\ Hears(event)
  BY DEF Receives, UserAt, Session
<1> HIDE DEF event
<1>2. Shrunk(Came, Came') /\ pump'.open = pump.open /\ Len(Came) > 0 /\ Came[1] = event
  BY <1>i, <1>1, CameTaken DEF event
<1>3. /\ Len(Came) = Len(Came') + 1 /\ Len(Came') \in Nat /\ Len(Came) \in Nat
      /\ \A i \in 1..Len(Came') : Came'[i] = Came[i + 1] /\ i + 1 \in 1..Len(Came)
      /\ 1 \in 1..Len(Came) /\ (Came' = <<>> <=> Len(Came') = 0)
  BY <1>i, <1>2 DEF Shrunk, Numeric
<1>4. /\ user'.at = "rest" /\ user'.turn = user.turn /\ user'.sent = user.sent
      /\ user'.phase = user.phase
         \/ (user.phase = "answering" /\ user'.phase = "idle" /\ event.last)
  <2>1. CASE user.phase # "answering"
    BY <1>1, <2>1 DEF Hears
  <2>2. CASE user.phase = "answering"
    <3>1. user'.phase = user.phase \/ (user'.phase = "idle" /\ event.last)
      BY <1>1, <1>i, <2>2, OmniTyped DEF Hears, UserSet
    <3>2. user'.at = user.at /\ user'.turn = user.turn /\ user'.sent = user.sent
      BY <1>1, <1>i, <2>2, OmniTyped DEF Hears, UserSet
    <3> QED
      BY <1>1, <2>2, <3>1, <3>2
  <2> QED
    BY <2>1, <2>2
<1>5. /\ trace'.cut = trace.cut /\ (trace'.foreign <=> user.phase = "answering" /\ event.turn # user.turn)
      /\ trace'.left = trace.left /\ trace'.complained = trace.complained
      /\ trace'.overtaken = trace.overtaken /\ trace'.mistaken = trace.mistaken
      /\ trace'.mixed = trace.mixed /\ trace'.haunted = trace.haunted
  BY <1>1, <1>i, OmniTyped DEF Hears, TraceSet
<1>6. /\ Way' = Way /\ Line' = Line /\ ~Left /\ ~Left' /\ (NoCommit <=> NoCommit')
      /\ (Collecting <=> Collecting')
      /\ user.phase # "idle" => user.turn \notin trace.cut
  BY <1>i, <1>1, <1>4 DEF Way, Line, Left, NoCommit, Collecting, OmniPlaces
<1>7. /\ user.phase = "listening" => user'.phase = "listening"
      /\ user'.phase = "listening" => user.phase = "listening"
  BY <1>4
<1>s. OmniShapes'
  BY <1>i, <1>1, <1>2, <1>4, <1>6 DEF OmniShapes
<1>p. OmniPlaces'
  BY <1>i, <1>1, <1>4, <1>5, <1>6 DEF OmniPlaces
<1>n. OmniNumbers'
  <2>1. \A t \in Nat : (AskedFor(t) => AskedFor(t)') /\ (Named(t) => Named(t)')
    BY <1>1, <1>4, <1>7 DEF AskedFor, Named
  <2>2. \A i \in 1..Len(Came') : Named(Came[i].turn)'
    <3> TAKE i \in 1..Len(Came')
    <3> DEFINE t == Came[i + 1].turn
    <3>1. t \in Nat /\ Named(t) /\ Came'[i].turn = t
      BY <1>i, <1>3 DEF OmniNumbers, Numeric
    <3> QED
      BY <1>1, <1>4, <1>7, <3>1 DEF Named
  <2> QED
    BY <1>i, <1>1, <1>4, <1>6, <2>1, <2>2 DEF OmniNumbers, Numeric
<1>a. Awaited'
  <2> SUFFICES ASSUME response.requested, reader.at # "finish" PROVE Awaited'
    BY <1>1 DEF Awaited
  <2>1. user.phase = "answering" /\ \A i \in 1..Len(Came) : Came[i].last => Came[i].turn # user.turn
    BY <1>i DEF Awaited
  <2>2. user'.phase = "answering" \/ trace'.foreign
    BY <1>2, <1>3, <1>4, <1>5, <2>1
  <2> QED
    BY <1>3, <1>4, <2>1, <2>2 DEF Awaited
<1>o. OneResponse'
  BY <1>i, <1>1, <1>4, <1>5, <1>6 DEF OneResponse, Calm, Silent
<1>c. CommitLast'
  BY <1>i, <1>1, <1>4, <1>5, <1>6, <1>7 DEF CommitLast, Calm
<1>f. Fence'
  <2> SUFFICES ASSUME Calm, reader.at = "publish" PROVE Fence'
    BY <1>1, <1>5 DEF Fence, Calm
  <2>1. alive /\ user.phase = "answering" /\ Line # <<>>
    BY <1>i, <1>1, <1>6 DEF Fence, Placed
  <2>2. response.requested
    BY <1>i, <2>1 DEF OneResponse, Silent
  <2>3. \A i \in 1..Len(Came) : Came[i].last => Came[i].turn # user.turn
    BY <1>i, <2>1, <2>2 DEF Awaited
  <2>4. user'.phase = "answering" \/ trace'.foreign
    BY <1>2, <1>3, <1>4, <1>5, <2>1, <2>3
  <2> QED
    BY <1>i, <1>1, <1>4, <1>5, <1>6, <2>1, <2>4 DEF Fence, Calm
<1>h. Heard'
  <2> SUFFICES ASSUME Calm, ~trace.left PROVE Heard'
    BY <1>5 DEF Heard, Calm
  <2>1. /\ user.phase = "answering"
        /\ \A i \in 1..Len(Came) : /\ Came[i].turn = user.turn
                                   /\ Came[i].last => i = Len(Came) /\ reader.at # "publish"
    BY <1>i, <1>1, <1>2, <1>6 DEF Heard, Numeric
  <2>2. ~trace'.foreign
    BY <1>2, <1>3, <1>5, <2>1
  <2>3. user'.phase # "answering" => Came' = <<>>
    BY <1>2, <1>3, <1>4, <2>1
  <2> QED
    BY <1>1, <1>3, <1>4, <2>1, <2>2, <2>3 DEF Heard
<1>m. Forgetting'
  <2>1. \A t \in Nat : Deleting(t)' <=> Deleting(t)
    BY <1>6 DEF Deleting
  <2> QED
    BY <1>i, <1>1, <1>4, <1>5, <1>6, <2>1 DEF Forgetting, Calm, Numeric
<1>u. Hearing'
  <2> SUFFICES ASSUME Calm, alive, ~trace.overtaken, ~trace.mistaken PROVE Hearing'
    BY <1>1, <1>5 DEF Hearing, Calm
  <2>1. (ClearComes <=> ClearComes') /\ \A b : Fresh(b)' <=> Fresh(b)
    BY <1>1, <1>4, <1>6 DEF ClearComes, Fresh
  <2>2. /\ \A c \in 1..Len(Way) : Arriving(c - 1) => Arriving(c - 1)'
        /\ Arriving(Len(Way)) => Arriving(Len(Way))'
    BY <1>1, <1>4, <1>6, <2>1 DEF Arriving, Pieces
  <2> QED
    BY <1>i, <1>1, <1>6, <2>1, <2>2 DEF Hearing
<1>w. HearsWholeTurn' /\ CutAnswerForgotten'
  BY <1>i, <1>5 DEF HearsWholeTurn, CutAnswerForgotten
<1> QED
  BY <1>s, <1>p, <1>n, <1>a, <1>o, <1>c, <1>f, <1>h, <1>m, <1>u, <1>w, OmniPartsNext

LEMMA BatchOfIs ==
  ASSUME NEW kind, NEW t
  PROVE  /\ BatchOf(kind, t).kind = kind /\ BatchOf(kind, t).turn = t
         /\ BatchOf(kind, t).gen = outbound.gen /\ BatchOf(kind, t).size = user.sent
BY DEF BatchOf

\* Where the actor goes, and what stays as it was.
LEMMA UserGoesTo ==
  ASSUME user \in UserSet, NEW place, UserGoes(place)
  PROVE  user'.at = place /\ user'.phase = user.phase /\ user'.turn = user.turn /\ user'.sent = user.sent
BY DEF UserGoes, UserSet

LEMMA UserKeeps == ASSUME OmniInv, User PROVE OmniInv'
<1>i. /\ OmniTypeOK /\ OmniPlaces /\ user \in UserSet /\ response \in ResponseSet /\ OutboundTyped
      /\ OmniTurns \in Nat
  BY OmniHolds, OmniTyped, OmniBoundsHold DEF OmniBounds
<1>t. OmniTypeOK' /\ ~trace.foreign /\ UNCHANGED <<writer, reader, inner, alive, model, wire>>
  BY UserTyped DEF User
<1>g. user.phase # "idle" => user.turn \in OmniTurn
  BY <1>i DEF OmniPlaces, UserSet, OmniTurn
<1>1. CASE OmniStartTurn
  BY <1>1, <1>t, Starts
<1>2. CASE OmniSendAudio
  <2>1. user.at = "rest" /\ user.phase = "listening" /\ UNCHANGED <<pump, response, trace>>
    BY <1>2 DEF OmniSendAudio, UserAt
  <2>2. CASE Accepts /\ Enqueue(BatchOf("append", user.turn)) /\ user' = [user EXCEPT !.sent = @ + 1]
    <3>1. BatchOf("append", user.turn) \in Batch
      BY <1>i, <1>g, <2>1, BatchTyped DEF Kinds
    <3>2. /\ user'.at = "rest" /\ user'.phase = "listening" /\ user'.turn = user.turn
          /\ user'.sent = user.sent + 1
      BY <1>i, <2>1, <2>2 DEF UserSet
    <3> QED
      BY <1>t, <2>1, <2>2, <3>1, <3>2, BatchOfIs, SendsAudio DEF Accepts
  <2>3. CASE UserGoes("rejected") /\ UNCHANGED outbound
    BY <1>i, <1>t, <2>1, <2>3, UserGoesTo, Rejects
  <2> QED
    BY <1>2, <2>2, <2>3 DEF OmniSendAudio
<1>3. CASE OmniCommit
  <2>1. user.at = "rest" /\ user.phase = "listening" /\ user.sent > 0 /\ UNCHANGED <<pump, trace>>
    BY <1>3 DEF OmniCommit, UserAt
  <2>2. CASE /\ Accepts /\ ~response.requested
             /\ response' = [response EXCEPT !.requested = TRUE, !.gate = user.turn, !.canceled = FALSE]
             /\ Enqueue(BatchOf("commit", user.turn)) /\ user' = [user EXCEPT !.phase = "answering"]
    <3>1. BatchOf("commit", user.turn) \in Batch
      BY <1>i, <1>g, <2>1, BatchTyped DEF Kinds
    <3>2. /\ user'.at = "rest" /\ user'.phase = "answering" /\ user'.turn = user.turn
          /\ user'.sent = user.sent
      BY <1>i, <2>1, <2>2 DEF UserSet
    <3>3. response'.requested /\ response'.item = response.item /\ response'.wait = response.wait
      BY <1>i, <2>2 DEF ResponseSet
    <3> QED
      BY <1>t, <2>1, <2>2, <3>1, <3>2, <3>3, BatchOfIs, Commits DEF Accepts
  <2>3. CASE /\ UserGoes("rejected") /\ UNCHANGED outbound
             /\ response' = IF response.requested THEN response
                            ELSE [response EXCEPT !.gate = 0, !.canceled = FALSE]
    <3>1. /\ response'.requested = response.requested /\ response'.item = response.item
          /\ response'.wait = response.wait
      BY <1>i, <2>3 DEF ResponseSet
    <3> QED
      BY <1>i, <1>t, <2>1, <2>3, <3>1, UserGoesTo, Rejects
  <2> QED
    BY <1>3, <2>2, <2>3 DEF OmniCommit
<1>4. CASE CancelUnopened
  BY <1>4, <1>t, CancelsUnopened
<1>5. CASE CancelInput
  BY <1>5, <1>t, CancelsInput
<1>6. CASE CancelResponse
  BY <1>6, <1>t, CancelsResponse
<1>7. CASE EnqueueClear
  <2>1. user.at = "clear" /\ UNCHANGED <<pump, response>>
    BY <1>7 DEF EnqueueClear, UserAt
  <2>2. CASE /\ outbound' = [outbound EXCEPT !.urgent = <<BatchOf("clear", user.turn)>>]
             /\ UserGoes(IF user.phase = "answering" THEN "discard" ELSE "drain")
             /\ Returned(user.turn)
    <3>1. /\ outbound'.writes = outbound.writes /\ outbound'.gen = outbound.gen
          /\ outbound'.urgent = <<BatchOf("clear", user.turn)>>
      BY <1>i, <2>2 DEF OutboundTyped, OutboundSet
    <3>2. outbound'.urgent # <<>> /\ outbound'.urgent[1].kind = "clear"
      BY <3>1, BatchOfIs
    <3>3. response.wait = "none"
      BY <1>i, <2>1 DEF OmniPlaces
    <3> QED
      BY <1>i, <1>t, <2>1, <2>2, <3>1, <3>2, <3>3, UserGoesTo, CancelReturns
  <2>3. CASE ~alive /\ UserGoes("closing") /\ UNCHANGED <<outbound, trace>>
    BY <1>i, <1>t, <2>1, <2>3, UserGoesTo, GivesUp
  <2> QED
    BY <1>7, <2>2, <2>3 DEF EnqueueClear
<1>8. CASE EnqueueCancel
  <2>1. user.at = "cancel" /\ UNCHANGED <<pump, response, trace>>
    BY <1>8 DEF EnqueueCancel, UserAt
  <2>2. CASE alive /\ Enqueue(BatchOf("cancel", user.turn)) /\ UserGoes("wait")
    <3>1. BatchOf("cancel", user.turn) \in Batch
      BY <1>i, <1>g, <2>1, BatchTyped DEF Kinds, OmniPlaces
    <3> QED
      BY <1>i, <1>t, <2>1, <2>2, <3>1, BatchOfIs, UserGoesTo, SendsCancel
  <2>3. CASE ~alive /\ UserGoes("closing") /\ UNCHANGED outbound
    BY <1>i, <1>t, <2>1, <2>3, UserGoesTo, GivesUp
  <2> QED
    BY <1>8, <2>2, <2>3 DEF EnqueueCancel
<1>9. CASE CancelAnswered
  <2>1. /\ user.at = "wait" /\ UNCHANGED <<pump, outbound>>
        /\ response' = [response EXCEPT !.wait = IF @ = "waiting" THEN @ ELSE "none"]
    BY <1>9 DEF CancelAnswered, UserAt
  <2>2. /\ response'.requested = response.requested /\ response'.item = response.item
        /\ response'.wait = IF response.wait = "waiting" THEN "waiting" ELSE "none"
    BY <1>i, <2>1 DEF ResponseSet
  <2>3. CASE /\ response.wait = "ok" /\ Returned(user.turn)
             /\ UserGoes(IF user.phase = "answering" THEN "discard" ELSE "drain")
    BY <1>i, <1>t, <2>1, <2>2, <2>3, UserGoesTo, CancelReturns
  <2>4. CASE UserGoes("closing") /\ UNCHANGED trace
    <3>1. response'.wait \in {response.wait, "none"}
      BY <2>2
    <3> QED
      BY <1>i, <1>t, <2>1, <2>2, <2>4, <3>1, UserGoesTo, GivesUp
  <2> QED
    BY <1>9, <2>3, <2>4 DEF CancelAnswered
<1>10. CASE CancelRunsOut \/ UserCloses \/ UserClosed
  <2>1. /\ user'.at \in {"closing", "closed"} /\ user.at # "clear"
        /\ user.at # "rest" \/ user.phase = "idle"
        /\ user'.phase = user.phase /\ user'.turn = user.turn /\ user'.sent = user.sent
        /\ UNCHANGED <<pump, outbound, response, trace>>
    BY <1>10, <1>i, UserGoesTo DEF CancelRunsOut, UserCloses, UserClosed, UserAt
  <2> QED
    BY <1>t, <2>1, GivesUp
<1>11. CASE DiscardCancelled \/ DiscardCompleted
  <2> DEFINE batch == BatchOf("delete", response.item)
  <2>1. /\ batch.kind = "delete" /\ batch.turn = response.item /\ batch.gen = outbound.gen
        /\ response.item # 0 => batch \in Batch
    <3>1. response.item # 0 => response.item \in OmniTurn
      BY <1>i DEF ResponseSet, OmniTurn
    <3> QED
      BY <1>i, <3>1, BatchOfIs, BatchTyped DEF Kinds
  <2> HIDE DEF batch
  <2>2. ASSUME CanDiscard, DiscardItem
        PROVE  /\ \/ response.item = 0 /\ outbound' = outbound
                  \/ response.item # 0 /\ batch \in Batch /\ Enqueue(batch) /\ alive
               /\ response'.requested = response.requested /\ response'.wait = response.wait
               /\ response'.item = 0
    <3>1. CASE response.item = 0
      BY <2>2, <3>1 DEF DiscardItem
    <3>2. CASE response.item # 0
      <4>1. Enqueue(batch) /\ alive /\ response' = [response EXCEPT !.item = 0]
        BY <2>2, <3>2 DEF DiscardItem, CanDiscard, batch
      <4> QED
        BY <1>i, <2>1, <3>2, <4>1 DEF ResponseSet
    <3> QED
      BY <3>1, <3>2
  <2>3. CASE DiscardCancelled /\ CanDiscard /\ DiscardItem /\ UserGoes("drain")
    <3>1. user.at = "discard" /\ UNCHANGED <<pump, trace>>
      BY <2>3 DEF DiscardCancelled, UserAt
    <3> QED
      BY <1>i, <1>t, <2>1, <2>2, <2>3, <3>1, UserGoesTo, Discards
  <2>4. CASE DiscardCancelled /\ UserGoes("closing") /\ UNCHANGED <<outbound, response>>
    <3>1. user.at = "discard" /\ UNCHANGED <<pump, trace>>
      BY <2>4 DEF DiscardCancelled, UserAt
    <3> QED
      BY <1>i, <1>t, <2>4, <3>1, UserGoesTo, GivesUp
  <2>5. CASE DiscardCompleted
    <3>1. /\ user.at = "rest" /\ user.phase = "idle" /\ pump.open /\ user.turn > 0 /\ Returned(user.turn)
          /\ CanDiscard /\ DiscardItem /\ UNCHANGED <<user, pump>>
      BY <2>5 DEF DiscardCompleted, UserAt
    <3> QED
      BY <1>t, <2>1, <2>2, <3>1, Discards
  <2> QED
    BY <1>11, <2>3, <2>4, <2>5 DEF DiscardCancelled
<1>12. CASE DrainOne
  BY <1>12, <1>t, DrainsOne
<1>13. CASE DrainEnds
  BY <1>13, <1>t, DrainsAll
<1>14. CASE Receives
  BY <1>14, <1>t, ReceivesOne
<1> QED
  BY <1>1, <1>2, <1>3, <1>4, <1>5, <1>6, <1>7, <1>8, <1>9, <1>10, <1>11, <1>12, <1>13, <1>14
  DEF User, CallGoesOn

-----------------------------------------------------------------------------
(* The omni session: its own goroutines keep the invariant.                *)

\* Of a session that has ended, little is said.
LEMMA DeadParts == ASSUME ~alive' PROVE OneResponse' /\ CommitLast' /\ Forgetting' /\ Hearing'
BY DEF OneResponse, CommitLast, Forgetting, Hearing

LEMMA PumpMoves ==
  ASSUME OmniInv, OmniTypeOK', Came' = Came, pump'.open \/ pump'.open = pump.open,
         UNCHANGED <<user, outbound, response, writer, reader, alive, model, wire, trace>>
  PROVE  OmniInv'
<1>i. /\ OmniTypeOK /\ OmniShapes /\ OmniPlaces /\ OmniNumbers
      /\ Awaited /\ OneResponse /\ CommitLast /\ Fence /\ Heard /\ Forgetting /\ Hearing
      /\ HearsWholeTurn /\ CutAnswerForgotten /\ Numeric /\ Placed /\ Numeric'
  BY OmniHolds, NumericNext
<1>1. Way' = Way /\ Line' = Line
  BY DEF Way, Line
<1>s. OmniShapes'
  BY <1>i, <1>1 DEF OmniShapes
<1>p. OmniPlaces'
  BY <1>i DEF OmniPlaces, Left
<1>n. OmniNumbers'
  BY <1>i, <1>1 DEF OmniNumbers, AskedFor, Named
<1>a. Awaited'
  BY <1>i DEF Awaited
<1>o. OneResponse'
  BY <1>i, <1>1 DEF OneResponse, Calm, Silent, NoCommit
<1>c. CommitLast'
  BY <1>i, <1>1 DEF CommitLast, Calm, NoCommit, Left
<1>f. Fence'
  BY <1>i, <1>1 DEF Fence, Calm, Left
<1>h. Heard'
  BY <1>i DEF Heard, Calm, Left
<1>m. Forgetting'
  BY <1>i, <1>1 DEF Forgetting, Calm, Left, NoCommit, Deleting
<1>u. Hearing'
  BY <1>i, <1>1 DEF Hearing, Calm, Left, NoCommit, Collecting, ClearComes, Fresh, Arriving, Pieces
<1>w. HearsWholeTurn' /\ CutAnswerForgotten'
  BY <1>i DEF HearsWholeTurn, CutAnswerForgotten
<1> QED
  BY <1>s, <1>p, <1>n, <1>a, <1>o, <1>c, <1>f, <1>h, <1>m, <1>u, <1>w, OmniPartsNext

LEMMA PumpHangsUp == ASSUME OmniInv, OmniTypeOK', PumpStops PROVE OmniInv'
<1>i. /\ OmniTypeOK /\ OmniShapes /\ OmniPlaces /\ OmniNumbers
      /\ Awaited /\ OneResponse /\ CommitLast /\ Fence /\ Heard /\ Forgetting /\ Hearing
      /\ HearsWholeTurn /\ CutAnswerForgotten /\ Numeric /\ Placed /\ Numeric'
  BY OmniHolds, NumericNext
<1>1. /\ UserAt("closing") \/ (Workers = {"ended"} /\ inner = <<>> /\ pump.held = <<>>)
      /\ ~alive' /\ wire' = <<>> /\ model' = FreshModel
      /\ UNCHANGED <<user, outbound, response, writer, reader, inner, trace>>
  BY DEF PumpStops, HangUp
<1>2. pump'.held = <<>> /\ pump'.open = pump.open
  BY <1>i, OmniTyped DEF PumpStops, PumpSet
<1>3. /\ Way' = Way /\ Len(Came') \in Nat /\ Len(Came) \in Nat
      /\ \/ Came' = Came /\ pump.held = <<>>
         \/ Shrunk(Came, Came')
  <2>1. Came' = inner /\ Way' = Way
    BY <1>1, <1>2, <1>i, OmniTyped, ConcatEmptySeq DEF Came, Way, InnerTyped
  <2>2. Lines(writer.held, outbound.writes, reader.held, wire, pump.held, inner)
    BY <1>i, LinesNow
  <2> QED
    BY <1>i, <2>1, <2>2 DEF Lines, Came, Numeric
<1>4. \A i \in 1..Len(Came') : \/ i \in 1..Len(Came) /\ Came'[i] = Came[i] /\ Came' = Came
                               \/ i + 1 \in 1..Len(Came) /\ Came'[i] = Came[i + 1]
                                  /\ Len(Came) = Len(Came') + 1
  BY <1>3 DEF Shrunk
<1>5. /\ reader.held = <<>> => Line' = <<>> /\ Len(Line') = 0
      /\ reader.held # <<>> => Len(Line') = 1 /\ Line'[1] = Line[1] /\ Line # <<>>
  <2>1. Line' = reader.held
    BY <1>1, <1>i, OmniTyped DEF Line, ReaderSet, AtMostOne
  <2>2. reader.held # <<>> => Len(reader.held) = 1
    BY <1>i, OmniTyped DEF ReaderSet, AtMostOne
  <2> QED
    BY <1>i, <2>1, <2>2 DEF Placed, OmniShapes
<1>s. OmniShapes'
  BY <1>i, <1>1, <1>2, <1>3, <1>5 DEF OmniShapes
<1>p. OmniPlaces'
  BY <1>i, <1>1 DEF OmniPlaces, Left
<1>n. OmniNumbers'
  <2>1. \A i \in 1..Len(Came') : Named(Came[i].turn)'
    BY <1>i, <1>1, <1>4 DEF OmniNumbers, Named
  <2>2. \A i \in 1..Len(Line') : Named(Line[i].turn)'
    <3> TAKE i \in 1..Len(Line')
    <3>1. i = 1 /\ Line # <<>> /\ Line'[i] = Line[1]
      <4>1. reader.held # <<>>
        <5>1. Len(Line') = 0 => 1..Len(Line') = {}
          OBVIOUS
        <5> QED
          BY <1>5, <5>1
      <4>2. Len(Line') = 1 /\ Line # <<>> /\ Line'[1] = Line[1]
        BY <1>5, <4>1
      <4> QED
        BY <4>2
    <3>2. 1 \in 1..Len(Line)
      BY <1>i, <3>1 DEF Numeric
    <3> QED
      BY <1>i, <1>1, <3>1, <3>2 DEF OmniNumbers, Named
  <2>3. model'.running = 0 /\ model'.kept = {}
    BY <1>1 DEF FreshModel
  <2> QED
    BY <1>i, <1>1, <1>3, <2>1, <2>2, <2>3 DEF OmniNumbers, AskedFor, Named
<1>a. Awaited'
  BY <1>i, <1>1, <1>4 DEF Awaited
<1>d. OneResponse' /\ CommitLast' /\ Forgetting' /\ Hearing'
  BY <1>1, DeadParts
<1>f. Fence'
  <2>1. reader.at = "publish" => Left /\ Line'[1] = Line[1]
    BY <1>i, <1>1, <1>5 DEF Left, UserAt, Workers, OmniShapes
  <2> QED
    BY <1>i, <1>1, <2>1 DEF Fence, Calm, Left
<1>h. Heard'
  <2>1. Left \/ Came' = Came
    BY <1>1, <1>3, <1>2 DEF Left, UserAt, Came
  <2> QED
    BY <1>i, <1>1, <1>4, <1>3, <2>1 DEF Heard, Calm, Left
<1>w. HearsWholeTurn' /\ CutAnswerForgotten'
  BY <1>i, <1>1 DEF HearsWholeTurn, CutAnswerForgotten
<1> QED
  BY <1>s, <1>p, <1>n, <1>a, <1>d, <1>f, <1>h, <1>w, OmniPartsNext

LEMMA PumpKeeps == ASSUME OmniInv, Pump PROVE OmniInv'
<1>t. OmniTypeOK /\ OmniTypeOK' /\ pump \in PumpSet
  BY PumpTyped, OmniHolds, OmniTyped
<1>1. CASE Opens \/ PumpEnded
  <2>1. /\ UNCHANGED <<user, outbound, response, writer, reader, inner, alive, model, wire, trace>>
        /\ pump'.held = pump.held /\ (pump'.open \/ pump'.open = pump.open)
    BY <1>1, <1>t DEF Opens, PumpEnded, PumpSet, Session
  <2>2. Came' = Came
    BY <2>1 DEF Came
  <2> QED
    BY <1>t, <2>1, <2>2, PumpMoves
<1>2. CASE HandsOn
  <2>1. Came' = Came /\ pump'.open = pump.open
    BY <1>2, <1>t, CameHandedOn
  <2>2. UNCHANGED <<user, outbound, response, writer, reader, alive, model, wire, trace>>
    BY <1>2 DEF HandsOn
  <2> QED
    BY <1>t, <2>1, <2>2, PumpMoves
<1>3. CASE PumpStops
  BY <1>3, <1>t, PumpHangsUp
<1> QED
  BY <1>1, <1>2, <1>3 DEF Pump

LEMMA LineGrown ==
  ASSUME Numeric, Numeric', NEW signal, Grown(Line, signal, Line')
  PROVE  /\ Len(Line') = Len(Line) + 1 /\ Line' # <<>> /\ Len(Line) \in Nat
         /\ \A i \in 1..Len(Line) : i \in 1..Len(Line') /\ Line'[i] = Line[i]
         /\ \A i \in 1..Len(Line') : i \in 1..Len(Line) \/ (i = Len(Line) + 1 /\ Line'[i] = signal)
         /\ Line # <<>> => Line'[1] = Line[1] /\ 1 \in 1..Len(Line)
<1>1. Len(Line) \in Nat /\ Len(Line') = Len(Line) + 1 /\ Line'[Len(Line) + 1] = signal
  BY DEF Numeric, Grown
<1>2. \A i \in 1..Len(Line) : i \in 1..Len(Line') /\ Line'[i] = Line[i]
  BY <1>1 DEF Grown
<1>3. Line' # <<>> /\ (Line = <<>> <=> Len(Line) = 0)
  BY <1>1 DEF Numeric
<1> QED
  BY <1>1, <1>2, <1>3

\* The model goes on with the response it runs.
LEMMA RunsOn ==
  ASSUME OmniInv, OmniTypeOK', alive, model.running # 0,
         NEW kind \in {"item", "delta", "done", "failed"}, Tells(kind, model.running),
         model'.input = model.input,
         IF kind \in {"done", "failed"} THEN model'.running = 0 ELSE model'.running = model.running,
         model'.kept = IF kind = "item" THEN model.kept \cup {model.running} ELSE model.kept,
         UNCHANGED <<user, pump, outbound, response, writer, reader, inner, alive, trace>>
  PROVE  OmniInv'
<1>i. /\ OmniTypeOK /\ OmniShapes /\ OmniPlaces /\ OmniNumbers
      /\ Awaited /\ OneResponse /\ CommitLast /\ Fence /\ Heard /\ Forgetting /\ Hearing
      /\ HearsWholeTurn /\ CutAnswerForgotten /\ Numeric /\ Placed /\ Numeric'
  BY OmniHolds, NumericNext
<1> DEFINE signal == SignalOf(kind, model.running)
<1>1. Grown(Line, signal, Line') /\ Grown(wire, signal, wire')
  <2>1. model.running \in OmniTurn
    BY <1>i, OmniTyped DEF ModelSet, OmniTurn
  <2> QED
    BY <1>i, <2>1, LineTells
<1>2. signal.kind = kind /\ signal.turn = model.running /\ (kind = "item" => signal.item)
  BY DEF SignalOf
<1> HIDE DEF signal
<1>3. /\ Len(Line') = Len(Line) + 1 /\ Line' # <<>> /\ Len(Line) \in Nat
      /\ \A i \in 1..Len(Line) : i \in 1..Len(Line') /\ Line'[i] = Line[i]
      /\ \A i \in 1..Len(Line') : i \in 1..Len(Line) \/ (i = Len(Line) + 1 /\ Line'[i] = signal)
      /\ Line # <<>> => Line'[1] = Line[1] /\ 1 \in 1..Len(Line)
  BY <1>i, <1>1, LineGrown
<1>4. Way' = Way /\ Came' = Came /\ pump.open
  BY <1>i DEF Way, Came, OmniShapes, FreshModel
<1>5. Calm => /\ response.requested /\ NoCommit /\ model.running = user.turn /\ reader.at # "finish"
              /\ user.turn \notin trace.cut
              /\ \A i \in 1..Len(Line) : ~IsLast(Line[i].kind)
  <2>1. Calm => /\ response.requested /\ NoCommit /\ model.running = user.turn /\ reader.at # "finish"
                /\ \A i \in 1..Len(Line) : ~IsLast(Line[i].kind)
    BY <1>i DEF OneResponse, Silent
  <2> QED
    BY <1>i, <2>1 DEF Awaited, OmniPlaces
<1>s. OmniShapes'
  BY <1>i, <1>3, <1>4 DEF OmniShapes, Placed
<1>p. OmniPlaces'
  BY <1>i DEF OmniPlaces, Left
<1>n. OmniNumbers'
  <2>1. AskedFor(model.running) /\ Named(model.running)
    BY <1>i DEF OmniNumbers, AskedFor, Named
  <2>2. \A i \in 1..Len(Line') : Named(Line[i].turn)'
    BY <1>i, <1>2, <1>3, <2>1 DEF OmniNumbers, Named
  <2> QED
    BY <1>i, <1>4, <2>1, <2>2 DEF OmniNumbers, AskedFor, Named
<1>a. Awaited'
  BY <1>i, <1>4 DEF Awaited
<1>o. OneResponse'
  <2> SUFFICES ASSUME Calm PROVE OneResponse'
    BY DEF OneResponse, Calm
  <2>1. NoCommit' /\ response'.requested /\ reader'.at # "finish" /\ model'.running \in {0, user'.turn}
    BY <1>4, <1>5 DEF NoCommit
  <2>2. ASSUME NEW i \in 1..Len(Line')
        PROVE  /\ Line'[i].turn = user'.turn /\ Line'[i].kind # "error"
               /\ IsLast(Line'[i].kind) => i = Len(Line') /\ model'.running = 0
    <3>1. CASE i \in 1..Len(Line)
      BY <1>i, <1>3, <1>5, <3>1 DEF OneResponse
    <3>2. CASE i = Len(Line) + 1 /\ Line'[i] = signal
      BY <1>2, <1>3, <1>5, <3>2 DEF IsLast
    <3> QED
      BY <1>3, <3>1, <3>2
  <2> QED
    BY <2>1, <2>2 DEF OneResponse
<1>c. CommitLast'
  BY <1>i, <1>4 DEF CommitLast, Calm, NoCommit, Left
<1>f. Fence'
  BY <1>i, <1>3 DEF Fence, Calm, Left, Placed
<1>h. Heard'
  BY <1>i, <1>4 DEF Heard, Calm, Left
<1>m. Forgetting'
  <2> SUFFICES ASSUME Calm PROVE Forgetting'
    BY DEF Forgetting, Calm
  <2>1. \A t \in Nat : Deleting(t)' <=> Deleting(t)
    BY <1>4 DEF Deleting
  <2>2. /\ Len(wire') = Len(wire) + 1 /\ Len(wire) \in Nat /\ wire'[Len(wire) + 1] = signal
        /\ \A i \in 1..Len(wire) : i \in 1..Len(wire') /\ wire'[i] = wire[i]
        /\ Len(wire') \in 1..Len(wire')
    <3>1. Len(wire) \in Nat
      BY <1>i DEF Numeric
    <3> QED
      BY <1>1, <3>1 DEF Grown
  <2>3. user.turn \in model'.kept =>
          response.item = user.turn \/ \E i \in 1..Len(wire') : wire'[i].item /\ wire'[i].turn = user.turn
    <3>1. CASE kind = "item"
      BY <1>2, <1>5, <2>2, <3>1
    <3>2. CASE kind # "item"
      BY <1>i, <1>5, <2>2, <3>2 DEF Forgetting
    <3> QED
      BY <3>1, <3>2
  <2>4. model'.kept \cap trace'.cut = model.kept \cap trace.cut
    BY <1>5
  <2> QED
    BY <1>i, <1>4, <2>1, <2>3, <2>4 DEF Forgetting, Numeric, Left, NoCommit
<1>u. Hearing'
  BY <1>i, <1>4 DEF Hearing, Calm, Left, NoCommit, Collecting, ClearComes, Fresh, Arriving, Pieces
<1>w. HearsWholeTurn' /\ CutAnswerForgotten'
  BY <1>i DEF HearsWholeTurn, CutAnswerForgotten
<1> QED
  BY <1>s, <1>p, <1>n, <1>a, <1>o, <1>c, <1>f, <1>h, <1>m, <1>u, <1>w, OmniPartsNext

LEMMA AnswersKeeps == ASSUME OmniInv, Answers PROVE OmniInv'
<1>t. OmniTypeOK' /\ model \in ModelSet
  BY AnswersTyped, OmniHolds, OmniTyped
<1>1. /\ alive /\ model.running # 0
      /\ UNCHANGED <<user, pump, outbound, response, writer, reader, inner, alive, trace>>
  BY DEF Answers
<1>2. CASE Tells("item", model.running)
           /\ model' = [model EXCEPT !.said = 1, !.kept = @ \cup {model.running}]
  <2>1. /\ model'.input = model.input /\ model'.running = model.running
        /\ model'.kept = model.kept \cup {model.running}
    BY <1>2, <1>t DEF ModelSet
  <2> QED
    BY <1>1, <1>2, <1>t, <2>1, RunsOn
<1>3. CASE Tells("delta", model.running) /\ model' = [model EXCEPT !.said = @ + 1]
  <2>1. model'.input = model.input /\ model'.running = model.running /\ model'.kept = model.kept
    BY <1>3, <1>t DEF ModelSet
  <2> QED
    BY <1>1, <1>3, <1>t, <2>1, RunsOn
<1>4. ASSUME NEW kind \in {"done", "failed"}, Tells(kind, model.running),
             model' = [model EXCEPT !.running = 0]
      PROVE  OmniInv'
  <2>1. model'.input = model.input /\ model'.running = 0 /\ model'.kept = model.kept
    BY <1>4, <1>t DEF ModelSet
  <2> QED
    BY <1>1, <1>4, <1>t, <2>1, RunsOn
<1> QED
  BY <1>2, <1>3, <1>4 DEF Answers

LEMMA TakesUrgent ==
  ASSUME OmniInv, OmniTypeOK', writer.at \in {"look", "select"}, outbound.urgent # <<>>, TakeUrgent,
         UNCHANGED <<user, pump, response, reader, inner, alive, model, wire, trace>>
  PROVE  OmniInv'
<1>i. /\ OmniTypeOK /\ OmniShapes /\ OmniPlaces /\ OmniNumbers
      /\ Awaited /\ OneResponse /\ CommitLast /\ Fence /\ Heard /\ Forgetting /\ Hearing
      /\ HearsWholeTurn /\ CutAnswerForgotten /\ Numeric /\ Placed /\ Numeric'
  BY OmniHolds, NumericNext
<1>1. /\ Shrunk(Way', Way) /\ Way'[1].kind = "clear" /\ Len(Way') > 0 /\ writer'.at = "write"
      /\ outbound'.urgent = <<>> /\ outbound'.gen = outbound.gen
  BY <1>i, WayUrgent
<1>2. writer'.held # <<>> /\ Line' = Line /\ Came' = Came
  BY <1>i DEF Line, Came, TakeUrgent, WriterGoes
<1>3. /\ Len(Way') = Len(Way) + 1 /\ Len(Way) \in Nat
      /\ \A i \in 1..Len(Way) : i + 1 \in 1..Len(Way') /\ Way'[i + 1] = Way[i]
      /\ \A i \in 1..Len(Way') : i = 1 \/ (i - 1 \in 1..Len(Way) /\ Way'[i] = Way[i - 1])
  <2>1. /\ Len(Way') = Len(Way) + 1 /\ Len(Way) \in Nat
        /\ \A i \in 1..Len(Way) : Way'[i + 1] = Way[i]
    BY <1>i, <1>1 DEF Shrunk, Numeric
  <2>2. \A i \in 1..Len(Way') : i = 1 \/ (i - 1 \in 1..Len(Way) /\ i = (i - 1) + 1)
    BY <2>1
  <2> QED
    BY <2>1, <2>2
<1>4. (NoCommit <=> NoCommit') /\ \A i \in 1..Len(Way) : Way[i].kind # "clear"
  BY <1>i, <1>1, <1>3 DEF NoCommit, OmniShapes
<1>s. OmniShapes'
  BY <1>i, <1>1, <1>2, <1>3, <1>4 DEF OmniShapes
<1>p. OmniPlaces'
  BY <1>i DEF OmniPlaces, Left
<1>n. OmniNumbers'
  <2>1. ASSUME NEW i \in 1..Len(Way')
        PROVE  /\ Way'[i].kind = "commit" => AskedFor(Way[i].turn)'
               /\ Way'[i].kind = "cancel" => Named(Way[i].turn)'
               /\ Way'[i].kind = "append" => Way'[i].gen <= outbound'.gen
    <3>1. CASE i = 1
      BY <1>1, <3>1
    <3>2. CASE i - 1 \in 1..Len(Way) /\ Way'[i] = Way[i - 1]
      <4> DEFINE j == i - 1
      <4>1. /\ Way[j].kind = "commit" => AskedFor(Way[j].turn)
            /\ Way[j].kind = "cancel" => Named(Way[j].turn)
            /\ Way[j].kind = "append" => Way[j].gen <= outbound.gen
        BY <1>i, <3>2 DEF OmniNumbers
      <4> QED
        BY <1>1, <3>2, <4>1 DEF AskedFor, Named
    <3> QED
      BY <1>3, <3>1, <3>2
  <2> QED
    BY <1>i, <1>1, <1>2, <2>1 DEF OmniNumbers, AskedFor, Named
<1>a. Awaited'
  BY <1>i, <1>2 DEF Awaited
<1>o. OneResponse'
  BY <1>i, <1>2, <1>4 DEF OneResponse, Calm, Silent
<1>c. CommitLast'
  <2> SUFFICES ASSUME Calm, alive PROVE CommitLast'
    BY DEF CommitLast, Calm
  <2>1. ASSUME NEW i \in 1..Len(Way'), Way'[i].kind = "commit"
        PROVE  /\ Way'[i].turn = user'.turn /\ Way'[i].size = user'.sent
               /\ \A j \in (i + 1)..Len(Way') : Way'[j].kind = "cancel"
               /\ i < Len(Way') => user'.at = "wait" \/ Left'
    <3> DEFINE k == i - 1
    <3>1. k \in 1..Len(Way) /\ Way'[i] = Way[k]
      BY <1>1, <1>3, <2>1
    <3>2. /\ Way[k].turn = user.turn /\ Way[k].size = user.sent
          /\ \A j \in (k + 1)..Len(Way) : Way[j].kind = "cancel"
          /\ k < Len(Way) => user.at = "wait" \/ Left
      BY <1>i, <2>1, <3>1 DEF CommitLast
    <3>3. ASSUME NEW j \in (i + 1)..Len(Way') PROVE Way'[j].kind = "cancel"
      <4>1. j - 1 \in (k + 1)..Len(Way) /\ j \in 1..Len(Way') /\ j # 1
        BY <1>3, <3>1
      <4>2. Way'[j] = Way[j - 1]
        BY <1>3, <4>1
      <4> QED
        BY <3>2, <4>1, <4>2
    <3> QED
      BY <1>3, <3>1, <3>2, <3>3 DEF Left
  <2>2. ~(response.requested /\ NoCommit /\ reader.at # "finish")
    BY <1>i DEF CommitLast
  <2> QED
    BY <1>1, <1>4, <2>1, <2>2 DEF CommitLast
<1>f. Fence'
  BY <1>i, <1>2 DEF Fence, Calm, Left
<1>h. Heard'
  BY <1>i, <1>2 DEF Heard, Calm, Left
<1>m. Forgetting'
  <2>1. \A t \in Nat : Deleting(t) => Deleting(t)'
    BY <1>3 DEF Deleting
  <2> QED
    BY <1>i, <1>4, <2>1 DEF Forgetting, Calm, Numeric, Left
<1>u. Hearing'
  <2> SUFFICES ASSUME Calm, alive, ~trace.overtaken, ~trace.mistaken PROVE Hearing'
    BY DEF Hearing, Calm
  <2>1. ClearComes /\ ClearComes' /\ Pieces' = Pieces /\ Pieces = user.sent
    BY <1>1 DEF ClearComes, Pieces
  <2>2. /\ \A i \in 1..Len(Way) : Fresh(Way[i]) <=> (Way[i].kind = "append" /\ Way[i].gen = outbound.gen)
        /\ \A i \in 1..Len(Way') : Fresh(Way[i])' <=> (Way'[i].kind = "append" /\ Way'[i].gen = outbound.gen)
    BY <1>1 DEF Fresh
  <2>3. ASSUME NEW end \in 0..Len(Way), Arriving(end) PROVE Arriving(end + 1)'
    <3>1. /\ Pieces \in 0..user.sent /\ Pieces <= end
          /\ \A i \in 1..end : Fresh(Way[i]) <=> i > end - Pieces
          /\ \A i \in 1..end : Fresh(Way[i]) => Way[i].turn = user.turn
      BY <2>3 DEF Arriving
    <3>2. ASSUME NEW i \in 1..(end + 1)
          PROVE  /\ Fresh(Way[i])' <=> i > end + 1 - Pieces
                 /\ Fresh(Way[i])' => Way'[i].turn = user.turn
      <4>1. CASE i = 1
        BY <1>i, <1>1, <1>3, <2>2, <3>1, <4>1, SMTT(30) DEF Numeric
      <4>2. CASE i # 1
        <5> DEFINE j == i - 1
        <5>1. j \in 1..end /\ j \in 1..Len(Way) /\ i \in 1..Len(Way') /\ Way'[i] = Way[j]
          BY <1>3, <4>2
        <5>2. Fresh(Way[i])' <=> Fresh(Way[j])
          BY <2>2, <5>1
        <5>3. (Fresh(Way[j]) <=> j > end - Pieces) /\ (Fresh(Way[j]) => Way[j].turn = user.turn)
          BY <3>1, <5>1
        <5> HIDE DEF j
        <5>4. Pieces \in Nat /\ i = j + 1 /\ j \in Int
          BY <1>i, <3>1, <4>2 DEF j, Numeric
        <5> QED
          BY <5>1, <5>2, <5>3, <5>4
      <4> QED
        BY <4>1, <4>2
    <3> QED
      <4>1. Pieces \in 0..user.sent /\ Pieces <= end + 1 /\ ~(Pieces < user.sent)
        <5>1. user.sent \in Nat /\ end \in Nat
          BY <1>i DEF Numeric
        <5> QED
          BY <2>1, <3>1, <5>1
      <4> QED
        BY <2>1, <3>2, <4>1 DEF Arriving
  <2>4. Collecting' => Arriving(Len(Way))'
    <3>1. PICK end \in 0..Len(Way) : end = Len(Way)
      BY <1>3
    <3>2. Collecting' => Arriving(end + 1)'
      <4>1. Collecting' => Arriving(end)
        BY <1>i, <3>1 DEF Hearing, Collecting, Arriving
      <4> QED
        BY <2>3, <4>1
    <3>3. end + 1 = Len(Way')
      BY <1>3, <3>1
    <3> QED
      BY <3>2, <3>3 DEF Arriving
  <2>5. ASSUME NEW c \in 1..Len(Way'), Way'[c].kind = "commit" PROVE Arriving(c - 1)'
    <3> DEFINE k == c - 1
    <3>1. k \in 1..Len(Way) /\ Way'[c] = Way[k]
      BY <1>1, <1>3, <2>5
    <3>2. Arriving(k - 1) /\ k - 1 \in 0..Len(Way)
      BY <1>i, <1>3, <2>5, <3>1 DEF Hearing
    <3>3. Arriving((k - 1) + 1)'
      BY <2>3, <3>2
    <3>4. (k - 1) + 1 = c - 1
      BY <3>1
    <3> QED
      BY <3>3, <3>4 DEF Arriving
  <2>6. NoCommit' /\ ~Collecting' /\ ~Left' => \A i \in 1..Len(Way') : ~Fresh(Way[i])'
    <3> SUFFICES ASSUME NoCommit', ~Collecting', ~Left', NEW i \in 1..Len(Way')
                 PROVE  ~(Way'[i].kind = "append" /\ Way'[i].gen = outbound.gen)
      BY <2>2
    <3>1. NoCommit /\ ~Collecting /\ ~Left
      BY <1>1, <1>3, <1>4 DEF Collecting, Left
    <3>2. \A k \in 1..Len(Way) : ~Fresh(Way[k])
      BY <1>i, <3>1 DEF Hearing
    <3>3. CASE i = 1
      <4>1. Way'[i].kind = "clear"
        BY <1>1, <3>3
      <4> QED
        BY <4>1
    <3>4. CASE i # 1
      <4>1. i - 1 \in 1..Len(Way) /\ Way'[i] = Way[i - 1]
        BY <1>3, <3>4
      <4> QED
        BY <2>2, <3>2, <4>1
    <3> QED
      BY <3>3, <3>4
  <2> QED
    BY <1>1, <2>1, <2>4, <2>5, <2>6 DEF Hearing
<1>w. HearsWholeTurn' /\ CutAnswerForgotten'
  BY <1>i DEF HearsWholeTurn, CutAnswerForgotten
<1> QED
  BY <1>s, <1>p, <1>n, <1>a, <1>o, <1>c, <1>f, <1>h, <1>m, <1>u, <1>w, OmniPartsNext

\* The writer finds nothing urgent, or takes the next batch.
LEMMA WriterSelects ==
  ASSUME OmniInv, OmniTypeOK', writer.at # "write", Way' = Way,
         \/ writer'.at = "select" /\ writer'.held = <<>> /\ outbound.urgent = <<>> /\ trace' = trace
         \/ writer'.at = "ended" /\ writer'.held = <<>> /\ ~alive /\ trace' = trace
         \/ /\ writer.at = "select" /\ writer'.at = "write" /\ writer'.held # <<>> /\ Way # <<>>
            /\ trace' = [trace EXCEPT !.overtaken = @ \/ outbound.urgent # <<>>],
         outbound'.urgent = outbound.urgent, outbound'.gen = outbound.gen,
         UNCHANGED <<user, pump, response, reader, inner, alive, model, wire>>
  PROVE  OmniInv'
<1>i. /\ OmniTypeOK /\ OmniShapes /\ OmniPlaces /\ OmniNumbers
      /\ Awaited /\ OneResponse /\ CommitLast /\ Fence /\ Heard /\ Forgetting /\ Hearing
      /\ HearsWholeTurn /\ CutAnswerForgotten /\ Numeric /\ Placed /\ Numeric'
  BY OmniHolds, NumericNext
<1>1. /\ trace'.cut = trace.cut /\ trace'.foreign = trace.foreign
      /\ trace'.left = trace.left /\ trace'.complained = trace.complained
      /\ (trace'.overtaken <=> trace.overtaken \/ (writer'.at = "write" /\ outbound.urgent # <<>>))
      /\ trace'.mistaken = trace.mistaken
      /\ trace'.mixed = trace.mixed /\ trace'.haunted = trace.haunted
  BY <1>i, OmniTyped DEF TraceSet
<1>2. Line' = Line /\ Came' = Came
  BY DEF Line, Came
<1>s. OmniShapes'
  BY <1>i, <1>2 DEF OmniShapes
<1>p. OmniPlaces'
  BY <1>i, <1>1 DEF OmniPlaces, Left
<1>n. OmniNumbers'
  BY <1>i, <1>2 DEF OmniNumbers, AskedFor, Named
<1>a. Awaited'
  BY <1>i, <1>1, <1>2 DEF Awaited
<1>o. OneResponse'
  BY <1>i, <1>1, <1>2 DEF OneResponse, Calm, Silent, NoCommit
<1>c. CommitLast'
  BY <1>i, <1>1 DEF CommitLast, Calm, NoCommit, Left
<1>f. Fence'
  BY <1>i, <1>1, <1>2 DEF Fence, Calm, Left
<1>h. Heard'
  BY <1>i, <1>1, <1>2 DEF Heard, Calm, Left
<1>m. Forgetting'
  BY <1>i, <1>1 DEF Forgetting, Calm, Left, NoCommit, Deleting
<1>u. Hearing'
  BY <1>i, <1>1 DEF Hearing, Calm, Left, NoCommit, Collecting, ClearComes, Fresh, Arriving, Pieces
<1>w. HearsWholeTurn' /\ CutAnswerForgotten'
  BY <1>i, <1>1 DEF HearsWholeTurn, CutAnswerForgotten
<1> QED
  BY <1>s, <1>p, <1>n, <1>a, <1>o, <1>c, <1>f, <1>h, <1>m, <1>u, <1>w, OmniPartsNext

\* What a way that has lost its first batch says of the others.
LEMMA WayShrunk ==
  ASSUME Numeric, Numeric', Shrunk(Way, Way')
  PROVE  /\ Len(Way) = Len(Way') + 1 /\ Len(Way') \in Nat /\ 1 \in 1..Len(Way)
         /\ \A i \in 1..Len(Way') : i + 1 \in 1..Len(Way) /\ Way'[i] = Way[i + 1]
         /\ \A i \in 1..Len(Way) : i = 1 \/ (i - 1 \in 1..Len(Way') /\ Way'[i - 1] = Way[i])
<1>1. /\ Len(Way) = Len(Way') + 1 /\ Len(Way') \in Nat
      /\ \A i \in 1..Len(Way') : Way'[i] = Way[i + 1]
  BY DEF Shrunk, Numeric
<1>2. \A i \in 1..Len(Way) : i = 1 \/ (i - 1 \in 1..Len(Way') /\ i = (i - 1) + 1)
  BY <1>1
<1> QED
  BY <1>1, <1>2

\* The socket breaks, or has broken.
LEMMA WriteBreaks == ASSUME OmniInv, OmniTypeOK', WriteFails PROVE OmniInv'
<1>i. /\ OmniTypeOK /\ OmniShapes /\ OmniPlaces /\ OmniNumbers
      /\ Awaited /\ OneResponse /\ CommitLast /\ Fence /\ Heard /\ Forgetting /\ Hearing
      /\ HearsWholeTurn /\ CutAnswerForgotten /\ Numeric /\ Placed /\ Numeric'
  BY OmniHolds, NumericNext
<1>1. /\ writer.at = "write" /\ writer'.at = "ended" /\ writer'.held = <<>>
      /\ UNCHANGED <<user, pump, outbound, reader, inner, trace>>
      /\ IF alive THEN Fails ELSE UNCHANGED <<response, alive, model, wire>>
  BY DEF WriteFails, WriterGoes
<1>2. Shrunk(Way, Way') /\ Len(Way) > 0 /\ Came' = Came /\ pump.open
  BY <1>i, <1>1, WayWrites DEF Came, OmniShapes, Placed
<1>3. /\ Len(Way) = Len(Way') + 1 /\ Len(Way') \in Nat /\ 1 \in 1..Len(Way)
      /\ \A i \in 1..Len(Way') : i + 1 \in 1..Len(Way) /\ Way'[i] = Way[i + 1]
  BY <1>i, <1>2, WayShrunk
<1>4. /\ ~alive' /\ wire' = <<>> /\ model' = FreshModel
      /\ response'.requested => response.requested /\ ~alive
      /\ response'.wait = "none" <=> response.wait = "none"
      /\ response'.wait \in {"ok", "error"} => ~response'.requested
      /\ ~alive => response' = response
      /\ alive /\ response.wait = "waiting" => response'.wait = "error"
  <2>1. CASE alive
    <3>1. HangUp /\ response' = Finished("error")
      BY <1>1, <2>1 DEF Fails
    <3>2. ~response'.requested /\ response'.wait = IF response.wait = "waiting" THEN "error" ELSE response.wait
      BY <3>1, <1>i, OmniTyped DEF Finished, ResponseSet
    <3> QED
      BY <2>1, <3>1, <3>2 DEF HangUp
  <2>2. CASE ~alive
    BY <1>1, <1>i, <2>2 DEF OmniShapes, OmniPlaces
  <2> QED
    BY <2>1, <2>2
<1>5. /\ reader.held = <<>> => Line' = <<>> /\ Len(Line') = 0
      /\ reader.held # <<>> => Len(Line') = 1 /\ Line'[1] = Line[1] /\ Line # <<>>
  <2>1. Line' = reader.held
    BY <1>1, <1>4, <1>i, OmniTyped DEF Line, ReaderSet, AtMostOne
  <2>2. reader.held # <<>> => Len(reader.held) = 1
    BY <1>i, OmniTyped DEF ReaderSet, AtMostOne
  <2> QED
    BY <1>i, <2>1, <2>2 DEF Placed, OmniShapes
<1>s. OmniShapes'
  BY <1>i, <1>1, <1>2, <1>3, <1>4, <1>5 DEF OmniShapes
<1>p. OmniPlaces'
  BY <1>i, <1>1, <1>4 DEF OmniPlaces, Left
<1>n. OmniNumbers'
  <2>1. \A i \in 1..Len(Way') : /\ Way'[i].kind = "commit" => AskedFor(Way[i].turn)'
                                /\ Way'[i].kind = "cancel" => Named(Way[i].turn)'
                                /\ Way'[i].kind = "append" => Way'[i].gen <= outbound'.gen
    BY <1>i, <1>1, <1>3 DEF OmniNumbers, AskedFor, Named
  <2>2. \A i \in 1..Len(Line') : Named(Line[i].turn)'
    <3> TAKE i \in 1..Len(Line')
    <3>1. i = 1 /\ Line # <<>> /\ Line'[i] = Line[1]
      <4>1. reader.held # <<>>
        <5>1. Len(Line') = 0 => 1..Len(Line') = {}
          OBVIOUS
        <5> QED
          BY <1>5, <5>1
      <4>2. Len(Line') = 1 /\ Line # <<>> /\ Line'[1] = Line[1]
        BY <1>5, <4>1
      <4> QED
        BY <4>2
    <3>2. 1 \in 1..Len(Line)
      BY <1>i, <3>1 DEF Numeric
    <3> QED
      BY <1>i, <1>1, <3>1, <3>2 DEF OmniNumbers, Named
  <2>3. model'.running = 0 /\ model'.kept = {}
    BY <1>4 DEF FreshModel
  <2> QED
    BY <1>i, <1>1, <1>2, <2>1, <2>2, <2>3 DEF OmniNumbers, AskedFor, Named
<1>a. Awaited'
  BY <1>i, <1>1, <1>2, <1>4 DEF Awaited
<1>d. OneResponse' /\ CommitLast' /\ Forgetting' /\ Hearing'
  BY <1>4, DeadParts
<1>f. Fence'
  <2> SUFFICES ASSUME Calm, reader.at = "publish" PROVE Fence'
    BY <1>1 DEF Fence, Calm
  <2>1. Line'[1] = Line[1] /\ Line # <<>>
    BY <1>i, <1>5, <2>1 DEF OmniShapes
  <2>2. Left \/ (user.at = "wait" /\ response'.wait = "error")
    <3>1. CASE ~alive
      BY <1>i, <1>4, <3>1 DEF Fence
    <3>2. CASE alive
      <4>1. response.requested /\ NoCommit
        BY <1>i, <2>1, <3>2 DEF OneResponse, Silent
      <4>2. user.at = "wait" \/ Left
        BY <1>i, <1>2, <3>2, <4>1 DEF CommitLast, Numeric
      <4>3. response.wait # "none" \/ Left
        BY <1>i, <4>2 DEF OmniPlaces
      <4>4. response.wait \notin {"ok", "error"} /\ response.wait \in {"none", "waiting", "ok", "error"}
        BY <1>i, <4>1, OmniTyped DEF OmniPlaces, ResponseSet
      <4> QED
        BY <1>4, <3>2, <4>2, <4>3, <4>4
    <3> QED
      BY <3>1, <3>2
  <2> QED
    BY <1>i, <1>1, <2>1, <2>2 DEF Fence, Calm, Left
<1>h. Heard'
  BY <1>i, <1>1, <1>2 DEF Heard, Calm, Left
<1>w. HearsWholeTurn' /\ CutAnswerForgotten'
  BY <1>i, <1>1 DEF HearsWholeTurn, CutAnswerForgotten
<1> QED
  BY <1>s, <1>p, <1>n, <1>a, <1>d, <1>f, <1>h, <1>w, OmniPartsNext

\* A batch has been written: what all of them have in common.
Wrote ==
  /\ alive /\ alive' /\ writer.at = "write" /\ writer'.at = "look" /\ writer'.held = <<>> /\ pump.open
  /\ UNCHANGED <<user, pump, outbound, response, reader, inner>>
  /\ Way[1] = writer.held[1] /\ Way[1] \in Batch /\ Shrunk(Way, Way')
  /\ trace'.cut = trace.cut /\ trace'.foreign = trace.foreign /\ trace'.left = trace.left
  /\ trace'.overtaken = trace.overtaken /\ trace'.mistaken = trace.mistaken
  /\ trace.complained => trace'.complained
  /\ \/ Line' = Line /\ wire' = wire
     \/ \E signal : Grown(Line, signal, Line') /\ Grown(wire, signal, wire') /\ Named(signal.turn)
  /\ model'.running \in {0, model.running} \/ (Way[1].kind = "commit" /\ model'.running = Way[1].turn)
  /\ \A t \in model'.kept : t \in model.kept /\ ~(Way[1].kind = "delete" /\ Way[1].turn = t)

LEMMA WroteParts ==
  ASSUME OmniInv, OmniTypeOK', Wrote
  PROVE  /\ OmniShapes' /\ OmniPlaces' /\ OmniNumbers' /\ Awaited' /\ CommitLast' /\ Fence' /\ Heard'
         /\ Forgetting'
<1>i. /\ OmniTypeOK /\ OmniShapes /\ OmniPlaces /\ OmniNumbers
      /\ Awaited /\ OneResponse /\ CommitLast /\ Fence /\ Heard /\ Forgetting /\ Hearing
      /\ HearsWholeTurn /\ CutAnswerForgotten /\ Numeric /\ Placed /\ Numeric'
  BY OmniHolds, NumericNext
<1>1. /\ alive /\ alive' /\ writer.at = "write" /\ writer'.at = "look" /\ writer'.held = <<>> /\ pump.open
      /\ UNCHANGED <<user, pump, outbound, response, reader, inner>>
      /\ trace'.cut = trace.cut /\ trace'.foreign = trace.foreign /\ trace'.left = trace.left
      /\ Calm' => Calm
  BY DEF Wrote, Calm
<1>2. /\ Len(Way) = Len(Way') + 1 /\ Len(Way') \in Nat /\ 1 \in 1..Len(Way)
      /\ \A i \in 1..Len(Way') : i + 1 \in 1..Len(Way) /\ Way'[i] = Way[i + 1]
      /\ \A i \in 1..Len(Way) : i = 1 \/ (i - 1 \in 1..Len(Way') /\ Way'[i - 1] = Way[i])
  BY <1>i, WayShrunk DEF Wrote
<1>3. Came' = Came
  BY <1>1 DEF Came
<1>4. /\ Len(Line) \in Nat /\ Len(Line') \in Nat
      /\ \A i \in 1..Len(Line') : (i \in 1..Len(Line) /\ Line'[i] = Line[i]) \/ Named(Line'[i].turn)
      /\ Line # <<>> => Line' # <<>> /\ Line'[1] = Line[1]
  <2>1. CASE Line' = Line
    BY <1>i, <2>1 DEF Numeric
  <2>2. ASSUME NEW signal, Grown(Line, signal, Line'), Named(signal.turn)
        PROVE  /\ Len(Line) \in Nat /\ Len(Line') \in Nat
               /\ \A i \in 1..Len(Line') : (i \in 1..Len(Line) /\ Line'[i] = Line[i]) \/ Named(Line'[i].turn)
               /\ Line # <<>> => Line' # <<>> /\ Line'[1] = Line[1]
    <3>1. /\ Len(Line') = Len(Line) + 1 /\ Line' # <<>> /\ Len(Line) \in Nat
          /\ \A i \in 1..Len(Line) : i \in 1..Len(Line') /\ Line'[i] = Line[i]
          /\ \A i \in 1..Len(Line') : i \in 1..Len(Line) \/ (i = Len(Line) + 1 /\ Line'[i] = signal)
          /\ Line # <<>> => Line'[1] = Line[1] /\ 1 \in 1..Len(Line)
      BY <1>i, <2>2, LineGrown
    <3> QED
      BY <2>2, <3>1
  <2> QED
    BY <2>1, <2>2 DEF Wrote
<1>s. OmniShapes'
  <2>1. reader.at = "finish" => IsLast(Line'[1].kind)
    BY <1>i, <1>4 DEF OmniShapes, Placed
  <2>2. \A i \in 1..Len(Way') : Way'[i].kind # "clear"
    BY <1>i, <1>2 DEF OmniShapes
  <2> QED
    BY <1>i, <1>1, <2>1, <2>2 DEF OmniShapes
<1>p. OmniPlaces'
  BY <1>i, <1>1 DEF OmniPlaces, Left
<1>n. OmniNumbers'
  <2>1. \A i \in 1..Len(Way') : /\ Way'[i].kind = "commit" => AskedFor(Way[i].turn)'
                                /\ Way'[i].kind = "cancel" => Named(Way[i].turn)'
                                /\ Way'[i].kind = "append" => Way'[i].gen <= outbound'.gen
    BY <1>i, <1>1, <1>2 DEF OmniNumbers, AskedFor, Named
  <2>2. \A i \in 1..Len(Line') : Named(Line[i].turn)'
    BY <1>i, <1>1, <1>4 DEF OmniNumbers, Named
  <2>3. \A i \in 1..Len(Came') : Named(Came[i].turn)'
    BY <1>i, <1>1, <1>3 DEF OmniNumbers, Named
  <2>4. AskedFor(model.running)' \/ model'.running = 0
    BY <1>i, <1>1, <1>2 DEF OmniNumbers, AskedFor, Wrote
  <2>5. \A t \in model'.kept : AskedFor(t)'
    BY <1>i, <1>1 DEF OmniNumbers, AskedFor, Wrote
  <2> QED
    BY <1>i, <1>1, <2>1, <2>2, <2>3, <2>4, <2>5 DEF OmniNumbers
<1>a. Awaited'
  BY <1>i, <1>1, <1>3 DEF Awaited
<1>c. CommitLast'
  <2> SUFFICES ASSUME Calm PROVE CommitLast'
    BY <1>1 DEF CommitLast
  <2>1. ASSUME NEW i \in 1..Len(Way'), Way'[i].kind = "commit"
        PROVE  /\ Way'[i].turn = user'.turn /\ Way'[i].size = user'.sent
               /\ \A j \in (i + 1)..Len(Way') : Way'[j].kind = "cancel"
               /\ i < Len(Way') => user'.at = "wait" \/ Left'
    <3> DEFINE k == i + 1
    <3>1. k \in 1..Len(Way) /\ Way'[i] = Way[k]
      BY <1>2
    <3>2. /\ Way[k].turn = user.turn /\ Way[k].size = user.sent
          /\ \A j \in (k + 1)..Len(Way) : Way[j].kind = "cancel"
          /\ k < Len(Way) => user.at = "wait" \/ Left
      BY <1>i, <1>1, <2>1, <3>1 DEF CommitLast
    <3>3. ASSUME NEW j \in (i + 1)..Len(Way') PROVE Way'[j].kind = "cancel"
      <4>1. j + 1 \in (k + 1)..Len(Way) /\ j \in 1..Len(Way')
        BY <1>2
      <4> QED
        BY <1>2, <3>2, <4>1
    <3> QED
      BY <1>1, <1>2, <3>1, <3>2, <3>3 DEF Left
  <2>2. ASSUME response.requested, NoCommit', reader.at # "finish"
        PROVE  /\ \A i \in 1..Len(Way') : Way'[i].kind = "cancel"
               /\ Way' # <<>> => user.at = "wait" \/ Left
               /\ outbound.urgent = <<>>
    <3>0. /\ \A i \in 1..Len(Way') : i + 1 \in 2..Len(Way) /\ Way'[i] = Way[i + 1]
          /\ Way' # <<>> => 1 < Len(Way)
          /\ Way # <<>>
      <4>1. (Way' = <<>> <=> Len(Way') = 0) /\ (Way = <<>> <=> Len(Way) = 0)
        BY <1>i DEF Numeric
      <4> QED
        BY <1>2, <4>1
    <3>1. CASE Way[1].kind = "commit"
      <4>1. /\ \A j \in 2..Len(Way) : Way[j].kind = "cancel"
            /\ 1 < Len(Way) => user.at = "wait" \/ Left
            /\ outbound.urgent = <<>>
        BY <1>i, <1>1, <1>2, <3>1, SMTT(30) DEF CommitLast, Numeric
      <4> QED
        BY <3>0, <4>1
    <3>2. CASE Way[1].kind # "commit"
      <4>1. NoCommit
        BY <1>2, <2>2, <3>2 DEF NoCommit
      <4>2. /\ \A i \in 1..Len(Way) : Way[i].kind = "cancel"
            /\ Way # <<>> => user.at = "wait" \/ Left
            /\ outbound.urgent = <<>>
        BY <1>i, <1>1, <2>2, <4>1 DEF CommitLast
      <4> QED
        BY <1>2, <3>0, <4>2
    <3> QED
      BY <3>1, <3>2
  <2> QED
    BY <1>1, <2>1, <2>2 DEF CommitLast, Left
<1>f. Fence'
  BY <1>i, <1>1, <1>4 DEF Fence, Left, Placed
<1>h. Heard'
  BY <1>i, <1>1, <1>3 DEF Heard, Left
<1>m. Forgetting'
  <2> SUFFICES ASSUME Calm PROVE Forgetting'
    BY <1>1 DEF Forgetting
  <2>1. NoCommit => NoCommit'
    BY <1>2 DEF NoCommit
  <2>2. ASSUME NEW t \in model'.kept, Deleting(t) PROVE Deleting(t)'
    <3>1. ~(Way[1].kind = "delete" /\ Way[1].turn = t)
      BY DEF Wrote
    <3> QED
      BY <1>2, <2>2, <3>1 DEF Deleting
  <2>3. (\E i \in 1..Len(wire) : wire[i].item /\ wire[i].turn = user.turn) =>
           \E i \in 1..Len(wire') : wire'[i].item /\ wire'[i].turn = user.turn
    <3>1. CASE wire' = wire
      BY <3>1
    <3>2. ASSUME NEW signal, Grown(wire, signal, wire')
          PROVE  \A i \in 1..Len(wire) : i \in 1..Len(wire') /\ wire'[i] = wire[i]
      <4>1. Len(wire) \in Nat
        BY <1>i DEF Numeric
      <4> QED
        BY <3>2, <4>1 DEF Grown
    <3> QED
      BY <3>1, <3>2 DEF Wrote
  <2>4. \A t \in model'.kept : t \in model.kept /\ t \in Nat
    BY <1>i DEF Wrote, Numeric
  <2> QED
    BY <1>i, <1>1, <2>1, <2>2, <2>3, <2>4 DEF Forgetting, Left
<1> QED
  BY <1>s, <1>p, <1>n, <1>a, <1>c, <1>f, <1>h, <1>m

\* The front batch is gone and was not fresh, or it was and the model has it:
\* the pieces are at the end of what is left.
LEMMA ArrivingMoves ==
  ASSUME Numeric, Numeric', Shrunk(Way, Way'), NEW end \in 1..Len(Way), Arriving(end),
         UNCHANGED user, outbound' = outbound,
         ClearComes' => ClearComes,
         \/ ~Fresh(Way[1]) /\ Pieces' = Pieces
         \/ Fresh(Way[1]) /\ Pieces' = Pieces - 1,
         ClearComes' \/ \A i \in 1..Len(model'.input) : model'.input[i] = user.turn
  PROVE  Arriving(end - 1)'
<1>1. /\ Len(Way) = Len(Way') + 1 /\ Len(Way') \in Nat /\ 1 \in 1..Len(Way)
      /\ \A i \in 1..Len(Way') : i + 1 \in 1..Len(Way) /\ Way'[i] = Way[i + 1]
  BY WayShrunk
<1>2. /\ Pieces \in 0..user.sent /\ Pieces <= end
      /\ \A i \in 1..end : Fresh(Way[i]) <=> i > end - Pieces
      /\ \A i \in 1..end : Fresh(Way[i]) => Way[i].turn = user.turn
      /\ Pieces < user.sent => Pieces = end
  BY DEF Arriving
<1>3. user.sent \in Nat /\ end \in Nat /\ end >= 1 /\ Pieces \in Nat /\ 1 \in 1..end
  BY <1>1, <1>2 DEF Numeric
<1>4. Fresh(Way[1]) <=> 1 > end - Pieces
  BY <1>2, <1>3
<1>5. /\ Pieces' \in 0..user.sent /\ Pieces' <= end - 1
      /\ Pieces' < user.sent => Pieces' = end - 1
      /\ end - Pieces = end - 1 - Pieces' + (IF Fresh(Way[1]) THEN 0 ELSE 1)
  <2>1. CASE Fresh(Way[1]) /\ Pieces' = Pieces - 1
    BY <1>2, <1>3, <1>4, <2>1
  <2>2. CASE ~Fresh(Way[1]) /\ Pieces' = Pieces
    BY <1>2, <1>3, <1>4, <2>2
  <2> QED
    BY <2>1, <2>2
<1>6. ASSUME NEW i \in 1..(end - 1)
      PROVE  /\ Fresh(Way[i])' <=> i > end - 1 - Pieces'
             /\ Fresh(Way[i])' => Way'[i].turn = user.turn
  <2> DEFINE j == i + 1
  <2>1. j \in 1..end /\ i \in 1..Len(Way') /\ Way'[i] = Way[j] /\ i \in Nat /\ i >= 1
    BY <1>1, <1>3
  <2>2. Fresh(Way[i])' <=> Fresh(Way[j])
    BY <2>1 DEF Fresh
  <2>3. (Fresh(Way[j]) <=> j > end - Pieces) /\ (Fresh(Way[j]) => Way[j].turn = user.turn)
    BY <1>2, <2>1
  <2>4. j > end - Pieces <=> i > end - 1 - Pieces'
    <3>1. CASE Fresh(Way[1]) /\ Pieces' = Pieces - 1
      BY <1>2, <1>3, <1>4, <2>1, <3>1
    <3>2. CASE ~Fresh(Way[1]) /\ Pieces' = Pieces
      <4>1. \A a, b, e \in Nat : a + 1 > e - b <=> a > e - 1 - b
        OBVIOUS
      <4>2. i \in Nat /\ Pieces \in Nat /\ end \in Nat
        BY <1>3, <2>1
      <4> QED
        BY <3>2, <4>1, <4>2
    <3> QED
      BY <3>1, <3>2
  <2> QED
    BY <2>1, <2>2, <2>3, <2>4
<1> QED
  BY <1>5, <1>6 DEF Arriving

\* What is left of the way, when its front batch was no commit.
LEMMA WroteHearing ==
  ASSUME OmniInv, OmniTypeOK', Wrote, Calm, ~trace.overtaken, ~trace.mistaken,
         Way[1].kind # "commit",
         ClearComes' => ClearComes,
         ClearComes => ClearComes' \/ model'.input = <<>>,
         \/ ~Fresh(Way[1]) /\ Pieces' = Pieces
         \/ Fresh(Way[1]) /\ Pieces' = Pieces - 1 /\ ~(NoCommit /\ ~Collecting /\ ~Left),
         ~ClearComes => \/ model'.input = model.input
                        \/ Fresh(Way[1]) /\ model'.input = Append(model.input, Way[1].turn)
  PROVE  Hearing'
<1>i. /\ OmniTypeOK /\ OmniShapes /\ OmniPlaces /\ OmniNumbers
      /\ Awaited /\ OneResponse /\ CommitLast /\ Fence /\ Heard /\ Forgetting /\ Hearing
      /\ HearsWholeTurn /\ CutAnswerForgotten /\ Numeric /\ Placed /\ Numeric'
  BY OmniHolds, NumericNext
<1>1. /\ alive /\ UNCHANGED <<user, outbound>> /\ writer'.at = "look" /\ Shrunk(Way, Way')
      /\ (Left <=> Left') /\ (Collecting <=> Collecting')
  BY DEF Wrote, Left, Collecting
<1>2. /\ Len(Way) = Len(Way') + 1 /\ Len(Way') \in Nat /\ 1 \in 1..Len(Way)
      /\ \A i \in 1..Len(Way') : i + 1 \in 1..Len(Way) /\ Way'[i] = Way[i + 1]
      /\ \A i \in 1..Len(Way) : i = 1 \/ (i - 1 \in 1..Len(Way') /\ Way'[i - 1] = Way[i])
  BY <1>i, <1>1, WayShrunk
<1>3. NoCommit <=> NoCommit'
  BY <1>2 DEF NoCommit
<1>4. ASSUME NEW end \in 1..Len(Way), Arriving(end) PROVE Arriving(end - 1)'
  <2>1. ClearComes' \/ \A i \in 1..Len(model'.input) : model'.input[i] = user.turn
    <3>1. CASE ClearComes
      <4>1. Len(<<>>) = 0
        OBVIOUS
      <4> QED
        BY <3>1, <4>1
    <3>2. CASE ~ClearComes
      <4>1. \A i \in 1..Len(model.input) : model.input[i] = user.turn
        BY <1>4, <3>2 DEF Arriving
      <4>2. CASE model'.input = model.input
        BY <4>1, <4>2
      <4>3. CASE Fresh(Way[1]) /\ model'.input = Append(model.input, Way[1].turn)
        <5>1. 1 \in 1..end
          BY <1>2
        <5>2. Way[1].turn = user.turn
          BY <1>4, <4>3, <5>1 DEF Arriving
        <5>3. model.input \in Seq(OmniTurn)
          BY <1>i, OmniTyped DEF ModelSet
        <5> QED
          BY <4>1, <4>3, <5>2, <5>3
      <4> QED
        BY <3>2, <4>2, <4>3
    <3> QED
      BY <3>1, <3>2
  <2> QED
    BY <1>i, <1>1, <1>4, <2>1, ArrivingMoves
<1>5. Collecting' => Arriving(Len(Way))'
  <2>1. PICK end \in 1..Len(Way) : end = Len(Way)
    BY <1>2
  <2>2. Collecting' => Arriving(end - 1)'
    <3>1. Collecting' => Arriving(end)
      BY <1>i, <1>1, <2>1 DEF Hearing, Arriving
    <3> QED
      BY <1>4, <3>1
  <2>3. end - 1 = Len(Way')
    BY <1>2, <2>1
  <2> QED
    BY <2>2, <2>3 DEF Arriving
<1>6. ASSUME NEW c \in 1..Len(Way'), Way'[c].kind = "commit" PROVE Arriving(c - 1)'
  <2> DEFINE k == c + 1
  <2>1. k \in 1..Len(Way) /\ Way'[c] = Way[k] /\ c \in 1..Len(Way)
    BY <1>2
  <2>2. Arriving(k - 1) /\ k - 1 = c
    BY <1>i, <1>1, <1>6, <2>1 DEF Hearing
  <2>3. Arriving(c)
    BY <2>2
  <2> QED
    BY <1>4, <2>1, <2>3
<1>7. NoCommit' /\ ~Collecting' /\ ~Left' =>
        /\ ClearComes' \/ model'.input = <<>>
        /\ \A i \in 1..Len(Way') : ~Fresh(Way[i])'
  <2> SUFFICES ASSUME NoCommit, ~Collecting, ~Left
               PROVE  /\ ClearComes' \/ model'.input = <<>>
                      /\ \A i \in 1..Len(Way') : ~Fresh(Way[i])'
    BY <1>1, <1>3
  <2>1. (ClearComes \/ model.input = <<>>) /\ \A i \in 1..Len(Way) : ~Fresh(Way[i])
    BY <1>i, <1>1 DEF Hearing
  <2>2. ~Fresh(Way[1])
    BY <1>2, <2>1
  <2>3. \A i \in 1..Len(Way') : ~Fresh(Way[i])'
    BY <1>1, <1>2, <2>1 DEF Fresh
  <2> QED
    BY <2>1, <2>2, <2>3
<1> QED
  BY <1>1, <1>5, <1>6, <1>7 DEF Hearing

\* A batch that asks for nothing: the model runs what it ran.
LEMMA WroteQuietly ==
  ASSUME OmniInv, OmniTypeOK', Wrote, Way[1].kind # "commit", Line' = Line,
         model'.running = model.running
  PROVE  OneResponse'
<1>i. /\ OmniTypeOK /\ OmniShapes /\ OmniPlaces /\ OmniNumbers
      /\ Awaited /\ OneResponse /\ CommitLast /\ Fence /\ Heard /\ Forgetting /\ Hearing
      /\ HearsWholeTurn /\ CutAnswerForgotten /\ Numeric /\ Placed /\ Numeric'
  BY OmniHolds, NumericNext
<1>1. /\ Len(Way) = Len(Way') + 1 /\ Len(Way') \in Nat /\ 1 \in 1..Len(Way)
      /\ \A i \in 1..Len(Way') : i + 1 \in 1..Len(Way) /\ Way'[i] = Way[i + 1]
      /\ \A i \in 1..Len(Way) : i = 1 \/ (i - 1 \in 1..Len(Way') /\ Way'[i - 1] = Way[i])
  BY <1>i, WayShrunk DEF Wrote
<1>2. NoCommit <=> NoCommit'
  BY <1>1 DEF NoCommit
<1> QED
  BY <1>i, <1>2 DEF OneResponse, Silent, Calm, Wrote

\* Whether a clear is on the way, once the front batch is gone.
LEMMA ClearGoes ==
  ASSUME OmniInv, OmniTypeOK', Wrote
  PROVE  ClearComes' <=> outbound.urgent # <<>> \/ user.at = "clear"
<1>i. /\ OmniTypeOK /\ OmniShapes /\ OmniPlaces /\ OmniNumbers
      /\ Awaited /\ OneResponse /\ CommitLast /\ Fence /\ Heard /\ Forgetting /\ Hearing
      /\ HearsWholeTurn /\ CutAnswerForgotten /\ Numeric /\ Placed /\ Numeric'
  BY OmniHolds, NumericNext
<1>1. /\ Len(Way) = Len(Way') + 1 /\ Len(Way') \in Nat
      /\ \A i \in 1..Len(Way') : i + 1 \in 1..Len(Way) /\ Way'[i] = Way[i + 1]
      /\ (Way' = <<>> <=> Len(Way') = 0)
  BY <1>i, WayShrunk DEF Wrote, Numeric
<1>2. Way' # <<>> => Way'[1].kind # "clear"
  <2>1. Way' # <<>> => 1 \in 1..Len(Way')
    BY <1>1
  <2> QED
    BY <1>i, <1>1, <2>1 DEF OmniShapes
<1> QED
  BY <1>2 DEF ClearComes, Wrote

LEMMA WroteQED ==
  ASSUME OmniInv, OmniTypeOK', Wrote, OneResponse', Hearing', HearsWholeTurn', CutAnswerForgotten'
  PROVE  OmniInv'
BY WroteParts, OmniPartsNext

LEMMA AppendWritten ==
  ASSUME OmniInv, OmniTypeOK', Wrote, Way[1].kind = "append", UNCHANGED <<wire, trace>>, Line' = Line,
         model'.running = model.running,
         \/ ~Fresh(Way[1]) /\ model'.input = model.input
         \/ Fresh(Way[1]) /\ model'.input = Append(model.input, Way[1].turn)
  PROVE  OmniInv'
<1>i. /\ OmniTypeOK /\ OmniShapes /\ OmniPlaces /\ OmniNumbers
      /\ Awaited /\ OneResponse /\ CommitLast /\ Fence /\ Heard /\ Forgetting /\ Hearing
      /\ HearsWholeTurn /\ CutAnswerForgotten /\ Numeric /\ Placed /\ Numeric'
  BY OmniHolds, NumericNext
<1>o. OneResponse'
  BY WroteQuietly
<1>u. Hearing'
  <2> SUFFICES ASSUME Calm, ~trace.overtaken, ~trace.mistaken PROVE Hearing'
    BY DEF Hearing, Calm
  <2>1. alive /\ writer.at = "write" /\ 1 \in 1..Len(Way) /\ user' = user
    BY <1>i, WayShrunk DEF Wrote
  <2>2. ClearComes' <=> ClearComes
    BY ClearGoes DEF ClearComes
  <2>3. CASE ~Fresh(Way[1]) /\ model'.input = model.input
    <3>1. Pieces' = Pieces
      BY <2>1, <2>2, <2>3 DEF Pieces
    <3> QED
      BY <2>2, <2>3, <3>1, WroteHearing
  <2>4. CASE Fresh(Way[1]) /\ model'.input = Append(model.input, Way[1].turn)
    <3>1. ~(NoCommit /\ ~Collecting /\ ~Left) /\ outbound.urgent = <<>>
      BY <1>i, <2>1, <2>4 DEF Hearing
    <3>2. user.at # "clear"
      <4>1. user.at = "clear" => NoCommit /\ ~Collecting /\ ~Left
        BY <1>i, <2>1 DEF OmniPlaces, OneResponse, Collecting, Left
      <4> QED
        BY <3>1, <4>1
    <3>3. ~ClearComes
      BY <3>1, <3>2 DEF ClearComes
    <3>4. Pieces = user.sent - Len(model.input) /\ Pieces' = user.sent - Len(model'.input)
      BY <2>1, <2>2, <3>3 DEF Pieces
    <3>5. Len(model'.input) = Len(model.input) + 1 /\ Len(model.input) \in Nat /\ user.sent \in Nat
      <4>1. model.input \in Seq(OmniTurn)
        BY <1>i, OmniTyped DEF ModelSet
      <4> QED
        BY <1>i, <2>4, <4>1 DEF Numeric
    <3>6. Pieces' = Pieces - 1
      BY <3>4, <3>5
    <3> QED
      BY <2>2, <2>4, <3>1, <3>3, <3>6, WroteHearing
  <2> QED
    BY <2>3, <2>4
<1>w. HearsWholeTurn' /\ CutAnswerForgotten'
  BY <1>i DEF HearsWholeTurn, CutAnswerForgotten
<1> QED
  BY <1>o, <1>u, <1>w, WroteQED

LEMMA ClearWritten ==
  ASSUME OmniInv, OmniTypeOK', Wrote, Way[1].kind = "clear", UNCHANGED <<wire, trace>>, Line' = Line,
         model'.running = model.running, model'.input = <<>>
  PROVE  OmniInv'
<1>i. /\ OmniTypeOK /\ OmniShapes /\ OmniPlaces /\ OmniNumbers
      /\ Awaited /\ OneResponse /\ CommitLast /\ Fence /\ Heard /\ Forgetting /\ Hearing
      /\ HearsWholeTurn /\ CutAnswerForgotten /\ Numeric /\ Placed /\ Numeric'
  BY OmniHolds, NumericNext
<1>o. OneResponse'
  BY WroteQuietly
<1>u. Hearing'
  <2> SUFFICES ASSUME Calm, ~trace.overtaken, ~trace.mistaken PROVE Hearing'
    BY DEF Hearing, Calm
  <2>1. user' = user /\ Way # <<>> /\ ~Fresh(Way[1])
    BY <1>i DEF Wrote, Placed, Fresh
  <2>2. ClearComes
    BY <2>1 DEF ClearComes
  <2>3. Pieces' = Pieces
    <3>1. user.sent \in Nat /\ Len(model'.input) = 0
      BY <1>i DEF Numeric
    <3>2. Pieces = user.sent
      BY <2>2 DEF Pieces
    <3>3. Pieces' = user.sent
      <4>1. CASE ClearComes'
        BY <2>1, <4>1 DEF Pieces
      <4>2. CASE ~ClearComes'
        <5>1. Pieces' = user.sent - Len(model'.input)
          BY <2>1, <4>2 DEF Pieces
        <5> QED
          BY <3>1, <5>1
      <4> QED
        BY <4>1, <4>2
    <3> QED
      BY <3>2, <3>3
  <2> QED
    BY <2>1, <2>2, <2>3, WroteHearing
<1>w. HearsWholeTurn' /\ CutAnswerForgotten'
  BY <1>i DEF HearsWholeTurn, CutAnswerForgotten
<1> QED
  BY <1>o, <1>u, <1>w, WroteQED

\* A batch that is neither audio nor a clear nor a commit leaves the input alone.
LEMMA InputStays ==
  ASSUME OmniInv, OmniTypeOK', Wrote, Way[1].kind \in {"cancel", "delete"}, model'.input = model.input,
         Calm' => Calm
  PROVE  Hearing'
<1>i. /\ OmniTypeOK /\ OmniShapes /\ OmniPlaces /\ OmniNumbers
      /\ Awaited /\ OneResponse /\ CommitLast /\ Fence /\ Heard /\ Forgetting /\ Hearing
      /\ HearsWholeTurn /\ CutAnswerForgotten /\ Numeric /\ Placed /\ Numeric'
  BY OmniHolds, NumericNext
<1> SUFFICES ASSUME Calm, ~trace.overtaken, ~trace.mistaken PROVE Hearing'
  BY DEF Hearing, Calm, Wrote
<1>1. user' = user /\ ~Fresh(Way[1]) /\ Way[1].kind # "clear"
  BY DEF Wrote, Fresh
<1>2. ClearComes' <=> ClearComes
  BY <1>1, ClearGoes DEF ClearComes
<1>3. Pieces' = Pieces
  BY <1>1, <1>2 DEF Pieces
<1> QED
  BY <1>1, <1>2, <1>3, WroteHearing

LEMMA DeleteWritten ==
  ASSUME OmniInv, OmniTypeOK', Wrote, Way[1].kind = "delete", UNCHANGED <<wire, trace>>, Line' = Line,
         model'.running = model.running, model'.input = model.input
  PROVE  OmniInv'
<1>i. /\ OmniTypeOK /\ OmniShapes /\ OmniPlaces /\ OmniNumbers
      /\ Awaited /\ OneResponse /\ CommitLast /\ Fence /\ Heard /\ Forgetting /\ Hearing
      /\ HearsWholeTurn /\ CutAnswerForgotten /\ Numeric /\ Placed /\ Numeric'
  BY OmniHolds, NumericNext
<1>o. OneResponse'
  BY WroteQuietly
<1>u. Hearing'
  BY InputStays DEF Calm
<1>w. HearsWholeTurn' /\ CutAnswerForgotten'
  BY <1>i DEF HearsWholeTurn, CutAnswerForgotten
<1> QED
  BY <1>o, <1>u, <1>w, WroteQED

\* The model ends what it runs, refuses, or has nothing to cancel.
LEMMA CancelWritten ==
  ASSUME OmniInv, OmniTypeOK', Wrote, Way[1].kind = "cancel", model'.input = model.input,
         trace'.mixed = trace.mixed, trace'.haunted = trace.haunted,
         \/ trace'.complained
         \/ trace'.complained = trace.complained /\ Line' = Line /\ model'.running = model.running
         \/ /\ model.running # 0 /\ model'.running = 0 /\ trace'.complained = trace.complained
            /\ Grown(Line, SignalOf("done", model.running), Line')
  PROVE  OmniInv'
<1>i. /\ OmniTypeOK /\ OmniShapes /\ OmniPlaces /\ OmniNumbers
      /\ Awaited /\ OneResponse /\ CommitLast /\ Fence /\ Heard /\ Forgetting /\ Hearing
      /\ HearsWholeTurn /\ CutAnswerForgotten /\ Numeric /\ Placed /\ Numeric'
  BY OmniHolds, NumericNext
<1>o. OneResponse'
  <2>1. CASE Line' = Line /\ model'.running = model.running
    BY <2>1, WroteQuietly
  <2>2. CASE trace'.complained
    BY <2>2 DEF OneResponse, Calm
  <2>3. CASE /\ model.running # 0 /\ model'.running = 0 /\ trace'.complained = trace.complained
             /\ Grown(Line, SignalOf("done", model.running), Line')
    <3> DEFINE signal == SignalOf("done", model.running)
    <3>1. signal.kind = "done" /\ signal.turn = model.running
      BY DEF SignalOf
    <3>2. Grown(Line, signal, Line')
      BY <2>3
    <3> HIDE DEF signal
    <3>3. /\ Len(Line') = Len(Line) + 1 /\ Line' # <<>> /\ Len(Line) \in Nat
          /\ \A i \in 1..Len(Line') : i \in 1..Len(Line) \/ (i = Len(Line) + 1 /\ Line'[i] = signal)
          /\ \A i \in 1..Len(Line) : i \in 1..Len(Line') /\ Line'[i] = Line[i]
      BY <1>i, <3>2, LineGrown
    <3> SUFFICES ASSUME Calm PROVE OneResponse'
      BY <2>3 DEF OneResponse, Calm
    <3>4. /\ response.requested /\ NoCommit /\ model.running = user.turn /\ reader.at # "finish"
          /\ \A i \in 1..Len(Line) : Line[i].turn = user.turn /\ ~IsLast(Line[i].kind) /\ Line[i].kind # "error"
      BY <1>i, <2>3 DEF OneResponse, Silent, Wrote
    <3>5. NoCommit'
      <4>1. \A i \in 1..Len(Way') : i + 1 \in 1..Len(Way) /\ Way'[i] = Way[i + 1]
        BY <1>i, WayShrunk DEF Wrote
      <4> QED
        BY <3>4, <4>1 DEF NoCommit
    <3>6. \A i \in 1..Len(Line') : /\ Line'[i].turn = user.turn /\ Line'[i].kind # "error"
                                   /\ IsLast(Line'[i].kind) => i = Len(Line')
      BY <3>1, <3>3, <3>4 DEF IsLast
    <3> QED
      BY <2>3, <3>4, <3>5, <3>6 DEF OneResponse, Wrote
  <2> QED
    BY <2>1, <2>2, <2>3
<1>u. Hearing'
  BY InputStays DEF Calm, Wrote
<1>w. HearsWholeTurn' /\ CutAnswerForgotten'
  BY <1>i DEF HearsWholeTurn, CutAnswerForgotten, Wrote
<1> QED
  BY <1>o, <1>u, <1>w, WroteQED

\* The commit: the model hears the turn whole, and remembers no answer cut.
LEMMA CommitWritten ==
  ASSUME OmniInv, OmniTypeOK', Wrote, Way[1].kind = "commit",
         \/ trace'.complained /\ trace'.mixed = trace.mixed /\ trace'.haunted = trace.haunted
         \/ /\ model'.running = Way[1].turn /\ model'.input = <<>> /\ Line' = Line
            /\ trace'.complained = trace.complained
            /\ trace'.mixed <=> trace.mixed \/ model.input # Whole(Way[1])
            /\ trace'.haunted <=> trace.haunted \/ model.kept \cap trace.cut # {}
  PROVE  OmniInv'
<1>i. /\ OmniTypeOK /\ OmniShapes /\ OmniPlaces /\ OmniNumbers
      /\ Awaited /\ OneResponse /\ CommitLast /\ Fence /\ Heard /\ Forgetting /\ Hearing
      /\ HearsWholeTurn /\ CutAnswerForgotten /\ Numeric /\ Placed /\ Numeric'
  BY OmniHolds, NumericNext
<1>1. CASE trace'.complained
  <2>1. OneResponse' /\ Hearing' /\ HearsWholeTurn' /\ CutAnswerForgotten'
    BY <1>1 DEF OneResponse, Hearing, Calm, HearsWholeTurn, CutAnswerForgotten
  <2> QED
    BY <2>1, WroteQED
<1>2. CASE /\ ~trace'.complained /\ ~trace.complained
           /\ model'.running = Way[1].turn /\ model'.input = <<>> /\ Line' = Line
           /\ trace'.mixed <=> trace.mixed \/ model.input # Whole(Way[1])
           /\ trace'.haunted <=> trace.haunted \/ model.kept \cap trace.cut # {}
  <2>1. /\ Calm /\ alive /\ writer.at = "write" /\ UNCHANGED <<user, outbound, response, reader>>
        /\ Way # <<>> /\ ~NoCommit
        /\ Len(Way) = Len(Way') + 1 /\ Len(Way') \in Nat /\ 1 \in 1..Len(Way)
        /\ \A i \in 1..Len(Way') : i + 1 \in 1..Len(Way) /\ Way'[i] = Way[i + 1]
    <3>1. /\ Len(Way) = Len(Way') + 1 /\ Len(Way') \in Nat /\ 1 \in 1..Len(Way)
          /\ \A i \in 1..Len(Way') : i + 1 \in 1..Len(Way) /\ Way'[i] = Way[i + 1]
      BY <1>i, WayShrunk DEF Wrote
    <3> QED
      BY <1>i, <1>2, <3>1 DEF Wrote, Calm, NoCommit, Placed
  <2>2. response.requested /\ Line = <<>> /\ reader.at \notin {"publish", "finish"}
    BY <1>i, <2>1 DEF OneResponse, Silent, Placed
  <2>3. /\ Way[1].turn = user.turn /\ Way[1].size = user.sent
        /\ \A j \in 2..Len(Way) : Way[j].kind = "cancel"
        /\ outbound.urgent = <<>>
    BY <1>i, <2>1 DEF CommitLast
  <2>4. user.phase # "listening" /\ user.at \notin {"clear", "discard", "drain"}
    BY <1>i, <2>1, <2>2, <2>3 DEF OmniNumbers, AskedFor, OmniPlaces
  <2>5. \A i \in 1..Len(Way') : Way'[i].kind = "cancel"
    <3>1. \A i \in 1..Len(Way') : i + 1 \in 2..Len(Way)
      BY <2>1
    <3> QED
      BY <2>1, <2>3, <3>1
  <2>6. ~ClearComes
    BY <1>2, <2>3, <2>4 DEF ClearComes
  <2>o. OneResponse'
    <3>1. NoCommit'
      BY <2>5 DEF NoCommit
    <3>2. Len(Line') = 0
      BY <1>i, <1>2, <2>2 DEF Numeric
    <3> QED
      BY <1>2, <2>1, <2>2, <2>3, <3>1, <3>2 DEF OneResponse
  <2>u. Hearing'
    <3>1. ~Collecting' /\ outbound'.urgent = <<>>
      BY <2>1, <2>3, <2>4 DEF Collecting
    <3>2. \A i \in 1..Len(Way') : Way'[i].kind # "commit" /\ ~Fresh(Way[i])'
      BY <2>5 DEF Fresh
    <3> QED
      BY <1>2, <3>1, <3>2 DEF Hearing
  <2>w. HearsWholeTurn'
    <3> SUFFICES ASSUME ~trace.overtaken, ~trace.mistaken PROVE model.input = Whole(Way[1])
      BY <1>i, <1>2 DEF HearsWholeTurn, Wrote
    <3>1. Arriving(1 - 1)
      BY <1>i, <1>2, <2>1 DEF Hearing
    <3>2. 1 - 1 = 0
      OBVIOUS
    <3>3. Pieces \in 0..user.sent /\ Pieces <= 0 /\ (Pieces < user.sent => Pieces = 0)
      BY <3>1, <3>2 DEF Arriving
    <3>4. Pieces = user.sent - Len(model.input) /\ \A i \in 1..Len(model.input) : model.input[i] = user.turn
      BY <2>6, <3>1 DEF Arriving, Pieces
    <3>5. user.sent \in Nat /\ Len(model.input) \in Nat
      BY <1>i DEF Numeric
    <3>6. Len(model.input) = user.sent
      BY <3>3, <3>4, <3>5
    <3>7. model.input \in Seq(OmniTurn)
      BY <1>i, OmniTyped DEF ModelSet
    <3>8. model.input = [i \in 1..Len(model.input) |-> model.input[i]]
      BY <3>7
    <3> QED
      BY <2>3, <3>4, <3>6, <3>8 DEF Whole
  <2>c. CutAnswerForgotten'
    <3>1. ASSUME NEW t \in model.kept \cap trace.cut PROVE FALSE
      <4>1. ~Deleting(t)
        BY <1>2, <2>1, <2>3 DEF Deleting
      <4>2. ~(t = user.turn /\ user.at = "discard" /\ response.item = t) /\ ~(Left /\ NoCommit)
        BY <2>1, <2>4
      <4> QED
        BY <1>i, <2>1, <4>1, <4>2, <3>1 DEF Forgetting
    <3> QED
      BY <1>i, <1>2, <3>1 DEF CutAnswerForgotten
  <2> QED
    BY <2>o, <2>u, <2>w, <2>c, WroteQED
<1> QED
  BY <1>1, <1>2 DEF Wrote

LEMMA Writes == ASSUME OmniInv, OmniTypeOK', WriteBatch PROVE OmniInv'
<1>i. /\ OmniTypeOK /\ OmniShapes /\ OmniPlaces /\ OmniNumbers
      /\ Awaited /\ OneResponse /\ CommitLast /\ Fence /\ Heard /\ Forgetting /\ Hearing
      /\ HearsWholeTurn /\ CutAnswerForgotten /\ Numeric /\ Placed /\ Numeric'
  BY OmniHolds, NumericNext
<1> DEFINE batch == writer.held[1]
<1>1. /\ writer.at = "write" /\ alive /\ alive' /\ writer'.at = "look" /\ writer'.held = <<>>
      /\ UNCHANGED <<user, pump, outbound, response, reader, inner>>
      /\ IF StaleInput(batch) THEN UNCHANGED <<model, wire, trace>> ELSE Takes(batch)
  BY DEF WriteBatch, WriterGoes
<1> HIDE DEF batch
<1>2. /\ Shrunk(Way, Way') /\ Way[1] = batch /\ batch \in Batch /\ Len(Way) > 0 /\ pump.open
      /\ Way[1] = writer.held[1]
  BY <1>i, <1>1, WayWrites DEF OmniShapes, Placed, batch
<1>3. batch.turn \in OmniTurn /\ batch.kind \in Kinds /\ model \in ModelSet /\ trace \in TraceSet
  BY <1>2, <1>i, OmniTyped DEF Batch
<1>4. ASSUME UNCHANGED <<wire, trace>>, model'.running = model.running,
             \A t \in model'.kept : t \in model.kept /\ ~(batch.kind = "delete" /\ batch.turn = t)
      PROVE  Wrote /\ Line' = Line
  BY <1>1, <1>2, <1>4 DEF Wrote, Line
<1>5. CASE StaleInput(batch)
  <2>1. batch.kind = "append" /\ ~Fresh(Way[1]) /\ UNCHANGED <<model, wire, trace>>
    BY <1>1, <1>2, <1>5 DEF StaleInput, Fresh
  <2> QED
    BY <1>2, <1>4, <2>1, AppendWritten
<1>6. CASE ~StaleInput(batch) /\ batch.kind = "append"
  <2>1. Appended(batch)
    BY <1>1, <1>6 DEF Takes
  <2>2. /\ model'.input = Append(model.input, batch.turn) /\ model'.running = model.running
        /\ model'.kept = model.kept /\ UNCHANGED <<wire, trace>>
    BY <1>3, <2>1 DEF Appended, ModelSet
  <2>3. Fresh(Way[1])
    BY <1>2, <1>6 DEF StaleInput, Fresh
  <2> QED
    BY <1>2, <1>4, <1>6, <2>2, <2>3, AppendWritten
<1>7. CASE batch.kind = "clear"
  <2>1. model' = [model EXCEPT !.input = <<>>] /\ UNCHANGED <<wire, trace>>
    BY <1>1, <1>7 DEF Takes, StaleInput
  <2>2. model'.input = <<>> /\ model'.running = model.running /\ model'.kept = model.kept
    BY <1>3, <2>1 DEF ModelSet
  <2> QED
    BY <1>2, <1>4, <1>7, <2>1, <2>2, ClearWritten
<1>8. CASE batch.kind = "delete"
  <2>1. model' = [model EXCEPT !.kept = @ \ {batch.turn}] /\ UNCHANGED <<wire, trace>>
    BY <1>1, <1>8 DEF Takes, StaleInput
  <2>2. /\ model'.input = model.input /\ model'.running = model.running
        /\ model'.kept = model.kept \ {batch.turn}
    BY <1>3, <2>1 DEF ModelSet
  <2> QED
    BY <1>2, <1>4, <1>8, <2>1, <2>2, DeleteWritten
<1>9. CASE batch.kind = "cancel"
  <2>1. Cancelled(batch)
    BY <1>1, <1>9 DEF Takes, StaleInput
  <2>2. Named(batch.turn) /\ (model.running # 0 => model.running \in OmniTurn /\ Named(model.running))
    <3>1. Named(batch.turn)
      <4>1. 1 \in 1..Len(Way)
        BY <1>i, <1>2 DEF Numeric
      <4> QED
        BY <1>i, <1>2, <1>9, <4>1 DEF OmniNumbers
    <3>2. model.running # 0 => model.running \in OmniTurn /\ Named(model.running)
      BY <1>i, <1>3 DEF OmniNumbers, AskedFor, Named, ModelSet, OmniTurn
    <3> QED
      BY <3>1, <3>2
  <2>3. CASE model.running # 0 /\ model' = [model EXCEPT !.running = 0]
             /\ Tells("done", model.running) /\ UNCHANGED trace
    <3>1. /\ Grown(Line, SignalOf("done", model.running), Line')
          /\ Grown(wire, SignalOf("done", model.running), wire')
      BY <1>i, <1>1, <2>2, <2>3, LineTells
    <3>2. SignalOf("done", model.running).turn = model.running
      BY DEF SignalOf
    <3>3. model'.input = model.input /\ model'.running = 0 /\ model'.kept = model.kept
      BY <1>3, <2>3 DEF ModelSet
    <3>4. Wrote
      BY <1>1, <1>2, <1>9, <2>2, <2>3, <3>1, <3>2, <3>3 DEF Wrote
    <3> QED
      BY <1>2, <1>9, <2>3, <3>1, <3>3, <3>4, CancelWritten
  <2>4. CASE UNCHANGED model /\ Refuses(batch.turn)
    <3>1. /\ Grown(Line, SignalOf("error", batch.turn), Line')
          /\ Grown(wire, SignalOf("error", batch.turn), wire')
      BY <1>i, <1>1, <1>3, <2>4, LineTells DEF Refuses
    <3>2. SignalOf("error", batch.turn).turn = batch.turn
      BY DEF SignalOf
    <3>3. /\ trace'.cut = trace.cut /\ trace'.foreign = trace.foreign /\ trace'.left = trace.left
          /\ trace'.overtaken = trace.overtaken /\ trace'.mistaken = trace.mistaken
          /\ trace'.mixed = trace.mixed /\ trace'.haunted = trace.haunted /\ trace'.complained
      BY <1>3, <2>4 DEF Refuses, TraceSet
    <3>4. Wrote
      BY <1>1, <1>2, <1>9, <2>2, <2>4, <3>1, <3>2, <3>3 DEF Wrote
    <3> QED
      BY <1>2, <1>9, <2>4, <3>3, <3>4, CancelWritten
  <2>5. CASE UNCHANGED <<model, wire, trace>>
    BY <1>2, <1>4, <1>9, <2>5, CancelWritten
  <2> QED
    BY <2>1, <2>3, <2>4, <2>5 DEF Cancelled
<1>10. CASE batch.kind = "commit"
  <2>1. Committed(batch)
    BY <1>1, <1>10 DEF Takes, StaleInput
  <2>2. CASE /\ model' = [model EXCEPT !.input = <<>>] /\ Refuses(batch.turn)
    <3>1. /\ Grown(Line, SignalOf("error", batch.turn), Line')
          /\ Grown(wire, SignalOf("error", batch.turn), wire')
      BY <1>i, <1>1, <1>3, <2>2, LineTells DEF Refuses
    <3>2. SignalOf("error", batch.turn).turn = batch.turn
      BY DEF SignalOf
    <3>3. /\ trace'.cut = trace.cut /\ trace'.foreign = trace.foreign /\ trace'.left = trace.left
          /\ trace'.overtaken = trace.overtaken /\ trace'.mistaken = trace.mistaken
          /\ trace'.mixed = trace.mixed /\ trace'.haunted = trace.haunted /\ trace'.complained
      BY <1>3, <2>2 DEF Refuses, TraceSet
    <3>4. model'.running = model.running /\ model'.kept = model.kept
      BY <1>3, <2>2 DEF ModelSet
    <3>5. Named(batch.turn)
      <4>1. 1 \in 1..Len(Way)
        BY <1>i, <1>2 DEF Numeric
      <4> QED
        BY <1>i, <1>2, <1>10, <4>1 DEF OmniNumbers, AskedFor, Named
    <3>6. Wrote
      BY <1>1, <1>2, <1>10, <3>1, <3>2, <3>3, <3>4, <3>5 DEF Wrote
    <3> QED
      BY <1>2, <1>10, <3>3, <3>6, CommitWritten
  <2>3. CASE /\ model' = [model EXCEPT !.input = <<>>, !.running = batch.turn, !.said = 0]
             /\ trace' = [trace EXCEPT !.mixed = @ \/ model.input # Whole(batch),
                                       !.haunted = @ \/ model.kept \cap trace.cut # {}]
             /\ UNCHANGED wire
    <3> DEFINE first == [model EXCEPT !.input = <<>>, !.running = batch.turn]
    <3>1. model' = [first EXCEPT !.said = 0]
      BY <2>3
    <3>2. first.input = <<>> /\ first.running = batch.turn /\ first.kept = model.kept
      BY <1>3 DEF ModelSet
    <3>3. first \in ModelSet
      <4>1. <<>> \in Seq(OmniTurn) /\ batch.turn \in 0..OmniTurns
        BY <1>3, OmniBoundsHold DEF OmniTurn, OmniBounds
      <4> QED
        BY <1>3, <4>1 DEF ModelSet
    <3> HIDE DEF first
    <3>4. model'.input = <<>> /\ model'.running = batch.turn /\ model'.kept = model.kept
      BY <3>1, <3>2, <3>3 DEF ModelSet
    <3>5. /\ trace'.cut = trace.cut /\ trace'.foreign = trace.foreign /\ trace'.left = trace.left
          /\ trace'.overtaken = trace.overtaken /\ trace'.mistaken = trace.mistaken
          /\ trace'.complained = trace.complained
          /\ trace'.mixed <=> trace.mixed \/ model.input # Whole(batch)
          /\ trace'.haunted <=> trace.haunted \/ model.kept \cap trace.cut # {}
      BY <1>3, <2>3 DEF TraceSet
    <3>6. Line' = Line
      BY <1>1, <2>3 DEF Line
    <3>7. Wrote
      BY <1>1, <1>2, <1>10, <2>3, <3>4, <3>5, <3>6 DEF Wrote
    <3> QED
      BY <1>2, <1>10, <3>4, <3>5, <3>6, <3>7, CommitWritten
  <2> QED
    BY <2>1, <2>2, <2>3 DEF Committed
<1> QED
  BY <1>3, <1>5, <1>6, <1>7, <1>8, <1>9, <1>10 DEF Kinds

LEMMA WriterKeeps == ASSUME OmniInv, WriterRuns PROVE OmniInv'
<1>t. OmniTypeOK' /\ OmniTypeOK /\ OmniShapes /\ Placed /\ Numeric /\ OutboundTyped
  BY WriterTyped, OmniHolds, OmniTyped
<1>1. CASE LookUrgentWrites
  <2>1. /\ writer.at = "look"
        /\ UNCHANGED <<user, pump, response, reader, inner, alive, model, wire, trace>>
    BY <1>1 DEF LookUrgentWrites
  <2>2. CASE outbound.urgent # <<>>
    BY <1>1, <1>t, <2>1, <2>2, TakesUrgent DEF LookUrgentWrites
  <2>3. CASE outbound.urgent = <<>>
    <3>1. WriterGoes("select", <<>>) /\ UNCHANGED outbound
      BY <1>1, <2>3 DEF LookUrgentWrites
    <3>2. writer'.at = "select" /\ writer'.held = <<>> /\ writer.held = <<>>
      BY <1>t, <2>1, <3>1 DEF WriterGoes, OmniShapes
    <3>3. Way' = Way
      BY <3>1, <3>2 DEF Way
    <3> QED
      BY <1>t, <2>1, <2>3, <3>1, <3>2, <3>3, WriterSelects
  <2> QED
    BY <2>2, <2>3
<1>2. CASE SelectWrites
  <2>1. /\ writer.at = "select" /\ writer.held = <<>>
        /\ UNCHANGED <<user, pump, response, reader, inner, alive, model, wire>>
    BY <1>2, <1>t DEF SelectWrites, OmniShapes
  <2>2. CASE ~alive /\ WriterGoes("ended", <<>>) /\ UNCHANGED <<outbound, trace>>
    <3>1. writer'.at = "ended" /\ writer'.held = <<>> /\ Way' = Way
      BY <2>1, <2>2 DEF WriterGoes, Way
    <3> QED
      BY <1>t, <2>1, <2>2, <3>1, WriterSelects
  <2>3. CASE outbound.urgent # <<>> /\ TakeUrgent /\ UNCHANGED trace
    BY <1>t, <2>1, <2>3, TakesUrgent
  <2>4. CASE /\ outbound.writes # <<>> /\ WriterGoes("write", <<Head(outbound.writes)>>)
             /\ outbound' = [outbound EXCEPT !.writes = Tail(@)]
             /\ trace' = [trace EXCEPT !.overtaken = @ \/ outbound.urgent # <<>>]
    <3>1. /\ Way' = Way /\ Len(Way) > 0 /\ writer'.at = "write"
          /\ outbound'.urgent = outbound.urgent /\ outbound'.gen = outbound.gen
      BY <1>t, <2>1, <2>4, WaySelects
    <3>2. writer'.held # <<>> /\ Way # <<>>
      BY <1>t, <2>4, <3>1 DEF WriterGoes, Numeric
    <3> QED
      BY <1>t, <2>1, <2>4, <3>1, <3>2, WriterSelects
  <2> QED
    BY <1>2, <2>2, <2>3, <2>4 DEF SelectWrites
<1>3. CASE WriteBatch
  BY <1>3, <1>t, Writes
<1>4. CASE WriteFails
  BY <1>4, <1>t, WriteBreaks
<1> QED
  BY <1>1, <1>2, <1>3, <1>4 DEF WriterRuns

-----------------------------------------------------------------------------
(* The omni session: the reader keeps the invariant.                       *)

\* What a line that has lost its first message says of the others.
LEMMA LineShrunk ==
  ASSUME Numeric, Numeric', Shrunk(Line, Line')
  PROVE  /\ Len(Line) = Len(Line') + 1 /\ Len(Line') \in Nat /\ 1 \in 1..Len(Line)
         /\ \A i \in 1..Len(Line') : i + 1 \in 1..Len(Line) /\ Line'[i] = Line[i + 1]
<1>1. /\ Len(Line) = Len(Line') + 1 /\ Len(Line') \in Nat
      /\ \A i \in 1..Len(Line') : Line'[i] = Line[i + 1]
  BY DEF Shrunk, Numeric
<1> QED
  BY <1>1

\* What the reader leaves alone.
LEMMA ReaderParts ==
  ASSUME OmniInv, OmniTypeOK', UNCHANGED <<user, pump, outbound, writer, alive, model, trace>>,
         \/ response'.requested = response.requested /\ response'.wait = response.wait
         \/ ~response'.requested /\ (response'.wait = "none" <=> response.wait = "none"),
         Line' = Line \/ Shrunk(Line, Line')
  PROVE  /\ Way' = Way /\ OmniPlaces' /\ Hearing' /\ HearsWholeTurn' /\ CutAnswerForgotten'
         /\ \A i \in 1..Len(Line') : Named(Line[i].turn)'
         /\ \A i \in 1..Len(Way) : /\ Way'[i].kind = "commit" => AskedFor(Way[i].turn)'
                                   /\ Way'[i].kind = "cancel" => Named(Way[i].turn)'
                                   /\ Way'[i].kind = "append" => Way'[i].gen <= outbound'.gen
<1>i. /\ OmniTypeOK /\ OmniPlaces /\ OmniNumbers /\ Hearing
      /\ HearsWholeTurn /\ CutAnswerForgotten /\ Numeric /\ Numeric'
  BY OmniHolds, NumericNext
<1>1. Way' = Way
  BY DEF Way
<1>p. OmniPlaces'
  BY <1>i DEF OmniPlaces, Left
<1>u. Hearing'
  BY <1>i, <1>1 DEF Hearing, Calm, Left, NoCommit, Collecting, ClearComes, Fresh, Arriving, Pieces
<1>w. HearsWholeTurn' /\ CutAnswerForgotten'
  BY <1>i DEF HearsWholeTurn, CutAnswerForgotten
<1>2. \A i \in 1..Len(Line') : Named(Line[i].turn)'
  <2>1. CASE Line' = Line
    BY <1>i, <2>1 DEF OmniNumbers, Named
  <2>2. CASE Shrunk(Line, Line')
    <3>1. \A i \in 1..Len(Line') : i + 1 \in 1..Len(Line) /\ Line'[i] = Line[i + 1]
      BY <1>i, <2>2, LineShrunk
    <3>2. \A i \in 1..Len(Line) : Named(Line[i].turn)
      BY <1>i DEF OmniNumbers
    <3> QED
      BY <3>1, <3>2 DEF Named
  <2> QED
    BY <2>1, <2>2
<1>3. \A i \in 1..Len(Way) : /\ Way'[i].kind = "commit" => AskedFor(Way[i].turn)'
                             /\ Way'[i].kind = "cancel" => Named(Way[i].turn)'
                             /\ Way'[i].kind = "append" => Way'[i].gen <= outbound'.gen
  BY <1>i, <1>1 DEF OmniNumbers, AskedFor, Named
<1> QED
  BY <1>1, <1>p, <1>u, <1>w, <1>2, <1>3

\* A message of the model, as long as it has refused nothing, is of the response
\* that the actor waits for.
LEMMA OwnMessage ==
  ASSUME OmniInv, Calm, alive, Line # <<>>
  PROVE  /\ response.requested /\ NoCommit
         /\ reader.at # "finish" =>
              /\ user.phase = "answering" \/ trace.foreign
              /\ user.turn \notin trace.cut /\ Line[1].turn = user.turn
         /\ IsLast(Line[1].kind) => Len(Line) = 1 /\ model.running = 0
         /\ Line[1].kind # "error" /\ user.at # "discard"
<1>i. OmniPlaces /\ Awaited /\ OneResponse /\ Numeric
  BY OmniHolds
<1>1. response.requested /\ NoCommit /\ user.at # "discard"
  BY <1>i DEF OneResponse, Silent, OmniPlaces
<1>2. 1 \in 1..Len(Line)
  BY <1>i DEF Numeric
<1>3. /\ reader.at # "finish" => Line[1].turn = user.turn
      /\ IsLast(Line[1].kind) => Len(Line) = 1 /\ model.running = 0
      /\ Line[1].kind # "error"
  BY <1>i, <1>2 DEF OneResponse
<1>4. reader.at # "finish" => (user.phase = "answering" \/ trace.foreign) /\ user.turn \notin trace.cut
  BY <1>i, <1>1 DEF Awaited, OmniPlaces
<1> QED
  BY <1>1, <1>3, <1>4

\* The reader has got past a message, or has begun with it.
LEMMA LineOneResponse ==
  ASSUME OmniInv, OmniTypeOK', reader.at # "finish", Line # <<>>,
         UNCHANGED <<user, pump, outbound, writer, alive, model, trace>>,
         response'.requested = response.requested,
         \/ Line' = Line /\ reader'.at = "publish"
         \/ Line' = Line /\ reader'.at = "finish" /\ IsLast(Line[1].kind)
         \/ Shrunk(Line, Line') /\ reader'.at = "read" /\ ~IsLast(Line[1].kind)
  PROVE  OneResponse' /\ CommitLast'
<1>i. OneResponse /\ CommitLast /\ Numeric /\ Numeric'
  BY OmniHolds, NumericNext
<1>1. Way' = Way
  BY DEF Way
<1> SUFFICES ASSUME Calm, alive PROVE OneResponse' /\ CommitLast'
  BY DEF OneResponse, CommitLast, Calm
<1>2. response.requested /\ NoCommit /\ (IsLast(Line[1].kind) => model.running = 0)
  BY OwnMessage
<1>3. NoCommit'
  BY <1>1, <1>2 DEF NoCommit
<1>o. OneResponse'
  <2>1. ASSUME NEW i \in 1..Len(Line')
        PROVE  /\ Line'[i].turn = user.turn /\ Line'[i].kind # "error"
               /\ IsLast(Line'[i].kind) => i = Len(Line') /\ model.running = 0
    <3>1. CASE Line' = Line
      BY <1>i, <3>1 DEF OneResponse
    <3>2. CASE Shrunk(Line, Line')
      <4>1. i + 1 \in 1..Len(Line) /\ Line'[i] = Line[i + 1] /\ Len(Line) = Len(Line') + 1
            /\ Len(Line') \in Nat
        BY <1>i, <3>2, LineShrunk
      <4>2. /\ Line[i + 1].turn = user.turn /\ Line[i + 1].kind # "error"
            /\ IsLast(Line[i + 1].kind) => i + 1 = Len(Line) /\ model.running = 0
        BY <1>i, <4>1 DEF OneResponse
      <4> QED
        BY <4>1, <4>2
    <3> QED
      BY <3>1, <3>2
  <2>2. model.running \in {0, user.turn} /\ (reader'.at = "finish" => model.running = 0)
    BY <1>i, <1>2 DEF OneResponse
  <2> QED
    BY <1>2, <1>3, <2>1, <2>2 DEF OneResponse
<1>c. CommitLast'
  BY <1>i, <1>1, <1>2, <1>3 DEF CommitLast, Left, NoCommit
<1> QED
  BY <1>o, <1>c
\* The reader takes the next message, and remembers the answer's item.
LEMMA ReadsSignal == ASSUME OmniInv, OmniTypeOK', ReadSignal PROVE OmniInv'
<1>i. /\ OmniTypeOK /\ OmniShapes /\ OmniPlaces /\ OmniNumbers
      /\ Awaited /\ OneResponse /\ CommitLast /\ Fence /\ Heard /\ Forgetting /\ Hearing
      /\ HearsWholeTurn /\ CutAnswerForgotten /\ Numeric /\ Placed /\ Numeric'
  BY OmniHolds, NumericNext
<1>1. /\ reader.at = "read" /\ alive /\ wire # <<>>
      /\ UNCHANGED <<user, pump, outbound, writer, inner, alive, model, trace>>
      /\ reader'.at \in {"publish", "finish"} <=> reader'.held # <<>>
  BY DEF ReadSignal, AfterPublish
<1>2. /\ Len(Line) > 0 /\ Line[1] = Head(wire) /\ Line = wire /\ Head(wire) = wire[1]
      /\ Shrunk(wire, wire')
      /\ \/ /\ Line' = Line /\ reader'.at = "publish"
         \/ /\ Line' = Line /\ reader'.at = "finish" /\ IsLast(Line[1].kind)
         \/ /\ Shrunk(Line, Line') /\ reader'.at = "read" /\ ~IsLast(Line[1].kind)
  BY <1>i, LineReads
<1>3. /\ response'.requested = response.requested /\ response'.wait = response.wait
      /\ response'.item = IF Line[1].item THEN Line[1].turn ELSE response.item
  BY <1>i, <1>2, OmniTyped DEF ReadSignal, ResponseSet
<1>4. Came' = Came /\ Line # <<>> /\ reader'.at # "ended" /\ reader.at # "finish"
  BY <1>i, <1>1, <1>2 DEF Came, Numeric
<1>5. /\ Way' = Way /\ OmniPlaces' /\ Hearing' /\ HearsWholeTurn' /\ CutAnswerForgotten'
      /\ \A i \in 1..Len(Line') : Named(Line[i].turn)'
      /\ \A i \in 1..Len(Way) : /\ Way'[i].kind = "commit" => AskedFor(Way[i].turn)'
                                /\ Way'[i].kind = "cancel" => Named(Way[i].turn)'
                                /\ Way'[i].kind = "append" => Way'[i].gen <= outbound'.gen
  BY <1>1, <1>2, <1>3, ReaderParts
<1>6. Calm => /\ response.requested /\ NoCommit
              /\ user.phase = "answering" \/ trace.foreign
              /\ user.turn \notin trace.cut /\ Line[1].turn = user.turn
              /\ Line[1].kind # "error" /\ user.at # "discard"
  BY <1>1, <1>4, OwnMessage
<1>s. OmniShapes'
  <2>1. reader'.at = "finish" => IsLast(Line'[1].kind)
    BY <1>2
  <2>2. UNCHANGED <<user, pump, outbound, writer, alive, model>> /\ response'.requested = response.requested
    BY <1>1, <1>3
  <2> QED
    BY <1>i, <1>1, <1>4, <1>5, <2>1, <2>2 DEF OmniShapes
<1>n. OmniNumbers'
  BY <1>i, <1>1, <1>4, <1>5 DEF OmniNumbers, AskedFor, Named
<1>a. Awaited'
  BY <1>i, <1>1, <1>3, <1>4 DEF Awaited
<1>o. OneResponse' /\ CommitLast'
  BY <1>1, <1>2, <1>3, <1>4, LineOneResponse
<1>f. Fence'
  BY <1>1, <1>2, <1>6 DEF Fence, Calm, Left
<1>h. Heard'
  <2> SUFFICES ASSUME Calm, ~trace.left PROVE Heard'
    BY <1>1 DEF Heard, Calm
  <2>1. user.phase = "answering"
    BY <1>i, <1>6 DEF Heard
  <2>2. \A i \in 1..Len(Came) : Came[i].last => Came[i].turn # user.turn
    BY <1>i, <1>4, <1>6, <2>1 DEF Awaited
  <2> QED
    BY <1>i, <1>1, <1>4, <2>1, <2>2 DEF Heard
<1>m. Forgetting'
  <2> SUFFICES ASSUME Calm PROVE Forgetting'
    BY <1>1 DEF Forgetting, Calm
  <2>1. \A t \in Nat : Deleting(t)' <=> Deleting(t)
    BY <1>5 DEF Deleting
  <2>2. NoCommit' /\ Left' = Left
    BY <1>1, <1>5, <1>6 DEF NoCommit, Left
  <2>3. \A t \in model.kept \cap trace.cut : Deleting(t) \/ Left
    BY <1>i, <1>1, <1>6 DEF Forgetting
  <2>4. user.turn \in model.kept \ trace.cut =>
          \/ response'.item = user.turn
          \/ \E i \in 1..Len(wire') : wire'[i].item /\ wire'[i].turn = user.turn
    <3> SUFFICES ASSUME user.turn \in model.kept \ trace.cut, ~Line[1].item
                 PROVE  \/ response.item = user.turn
                        \/ \E i \in 1..Len(wire') : wire'[i].item /\ wire'[i].turn = user.turn
      BY <1>3, <1>6
    <3> SUFFICES ASSUME NEW i \in 1..Len(wire), wire[i].item, wire[i].turn = user.turn
                 PROVE  \E j \in 1..Len(wire') : wire'[j].item /\ wire'[j].turn = user.turn
      BY <1>i, <1>1 DEF Forgetting
    <3>1. i # 1
      BY <1>2
    <3>2. i - 1 \in 1..Len(wire') /\ wire'[i - 1] = wire[i]
      <4>1. Len(wire) = Len(wire') + 1 /\ Len(wire') \in Nat
        BY <1>2, <1>i DEF Shrunk, Numeric
      <4>2. i - 1 \in 1..Len(wire') /\ (i - 1) + 1 = i
        BY <3>1, <4>1
      <4> QED
        BY <1>2, <4>2 DEF Shrunk
    <3> QED
      BY <3>2
  <2> QED
    BY <1>i, <1>1, <2>1, <2>2, <2>3, <2>4 DEF Forgetting, Numeric
<1> QED
  BY <1>s, <1>n, <1>a, <1>o, <1>f, <1>h, <1>m, <1>5, OmniPartsNext
\* The reader hands a message on, or finds its fence closed.
LEMMA Publishes ==
  ASSUME OmniInv, OmniTypeOK', reader.at = "publish",
         UNCHANGED <<user, pump, outbound, response, writer, alive, model, wire, trace>>,
         AfterPublish(reader.held[1]),
         \/ inner' = inner
         \/ inner' = Append(inner, [turn |-> reader.held[1].turn, last |-> IsLast(reader.held[1].kind),
                                    error |-> reader.held[1].kind = "error"])
  PROVE  OmniInv'
<1>i. /\ OmniTypeOK /\ OmniShapes /\ OmniPlaces /\ OmniNumbers
      /\ Awaited /\ OneResponse /\ CommitLast /\ Fence /\ Heard /\ Forgetting /\ Hearing
      /\ HearsWholeTurn /\ CutAnswerForgotten /\ Numeric /\ Placed /\ Numeric'
  BY OmniHolds, NumericNext
<1> DEFINE event == [turn |-> reader.held[1].turn, last |-> IsLast(reader.held[1].kind),
                     error |-> reader.held[1].kind = "error"]
<1>1. /\ Len(Line) > 0 /\ Line[1] = reader.held[1] /\ Line[1] \in Signal
      /\ \/ /\ Line' = Line /\ reader'.at = "finish" /\ IsLast(Line[1].kind)
         \/ /\ Shrunk(Line, Line') /\ reader'.at = "read" /\ ~IsLast(Line[1].kind)
  BY <1>i, LineLeaves
<1>2. /\ reader'.at \in {"publish", "finish"} <=> reader'.held # <<>>
      /\ Line # <<>> /\ reader.at # "finish" /\ pump.open = pump'.open
  BY <1>1, <1>i DEF AfterPublish, Numeric
<1>3. event.turn = Line[1].turn /\ (event.last <=> IsLast(Line[1].kind))
  BY <1>1
<1>4. \/ Came' = Came
      \/ /\ Len(Came') = Len(Came) + 1 /\ Came'[Len(Came) + 1] = event
         /\ \A i \in 1..Len(Came) : Came'[i] = Came[i]
  <2>1. CASE inner' = inner
    BY <2>1 DEF Came
  <2>2. CASE inner' = Append(inner, event)
    <3>1. event \in Output
      <4>1. /\ IsLast(Line[1].kind) \in BOOLEAN /\ (Line[1].kind = "error") \in BOOLEAN
            /\ Line[1].turn \in OmniTurn
        BY <1>1 DEF IsLast, Signal
      <4> QED
        BY <1>1, <4>1 DEF Output
    <3> HIDE DEF event
    <3>2. Grown(Came, event, Came')
      BY <1>i, <2>2, <3>1, CamePublished
    <3> QED
      BY <3>2 DEF Grown
  <2> QED
    BY <2>1, <2>2
<1> HIDE DEF event
<1>5. /\ \A i \in 1..Len(Came') : \/ i \in 1..Len(Came) /\ Came'[i] = Came[i] /\ Len(Came) <= Len(Came')
                                  \/ i = Len(Came') /\ Came'[i] = event
      /\ Len(Came) \in Nat /\ Len(Came') \in Nat
  <2>1. Len(Came) \in Nat /\ Len(Came') \in Nat
    BY <1>i DEF Numeric
  <2> QED
    BY <1>4, <2>1
<1>6. /\ Way' = Way /\ OmniPlaces' /\ Hearing' /\ HearsWholeTurn' /\ CutAnswerForgotten'
      /\ \A i \in 1..Len(Line') : Named(Line[i].turn)'
      /\ \A i \in 1..Len(Way) : /\ Way'[i].kind = "commit" => AskedFor(Way[i].turn)'
                                /\ Way'[i].kind = "cancel" => Named(Way[i].turn)'
                                /\ Way'[i].kind = "append" => Way'[i].gen <= outbound'.gen
  BY <1>1, ReaderParts
<1>s. OmniShapes'
  BY <1>i, <1>1, <1>2, <1>6 DEF OmniShapes, AfterPublish
<1>n. OmniNumbers'
  <2>1. Named(event.turn)
    <3>1. 1 \in 1..Len(Line)
      BY <1>1, <1>i DEF Numeric
    <3> QED
      BY <1>i, <1>3, <3>1 DEF OmniNumbers
  <2>2. \A i \in 1..Len(Came') : Named(Came[i].turn)'
    BY <1>i, <1>5, <2>1 DEF OmniNumbers, Named
  <2> QED
    BY <1>i, <1>6, <2>2 DEF OmniNumbers, AskedFor, Named
<1>a. Awaited'
  <2> SUFFICES ASSUME response.requested, reader'.at # "finish" PROVE Awaited'
    BY DEF Awaited
  <2>1. ~event.last
    BY <1>1, <1>3
  <2> QED
    BY <1>i, <1>2, <1>5, <2>1 DEF Awaited
<1>o. OneResponse' /\ CommitLast'
  BY <1>1, <1>2, LineOneResponse
<1>f. Fence'
  BY <1>1 DEF Fence
<1>h. Heard'
  <2> SUFFICES ASSUME Calm, ~trace.left PROVE Heard'
    BY DEF Heard, Calm
  <2>1. /\ ~trace.foreign /\ Line[1].turn = user.turn
        /\ user.phase = "answering" \/ trace.foreign
        /\ \A i \in 1..Len(Came) : Came[i].turn = user.turn /\ ~Came[i].last
    BY <1>i DEF Heard, Fence
  <2>2. reader'.at # "publish"
    BY <1>1
  <2> QED
    BY <1>3, <1>5, <2>1, <2>2 DEF Heard
<1>m. Forgetting'
  BY <1>i, <1>6 DEF Forgetting, Calm, Left, NoCommit, Deleting
<1> QED
  BY <1>s, <1>n, <1>a, <1>o, <1>f, <1>h, <1>m, <1>6, OmniPartsNext
\* The reader finds the session over while it waits for room.
LEMMA PublishEnds ==
  ASSUME OmniInv, OmniTypeOK', reader.at = "publish", ~alive, inner' = inner,
         reader'.at = "ended", reader'.held = <<>>, response' = Finished("error"),
         UNCHANGED <<user, pump, outbound, writer, alive, model, wire, trace>>
  PROVE  OmniInv'
<1>i. /\ OmniTypeOK /\ OmniShapes /\ OmniPlaces /\ OmniNumbers
      /\ Awaited /\ OneResponse /\ CommitLast /\ Fence /\ Heard /\ Forgetting /\ Hearing
      /\ HearsWholeTurn /\ CutAnswerForgotten /\ Numeric /\ Placed /\ Numeric'
  BY OmniHolds, NumericNext
<1>1. ~response'.requested /\ (response'.wait = "none" <=> response.wait = "none")
  BY <1>i, OmniTyped DEF Finished, ResponseSet
<1>2. Shrunk(Line, Line') /\ Line' = <<>> /\ Came' = Came /\ pump.open = pump'.open
  <2>1. reader.held # <<>> /\ wire = <<>>
    BY <1>i DEF OmniShapes
  <2>2. Shrunk(Line, Line')
    BY <1>i, <2>1, LineFinishes
  <2> QED
    BY <2>1, <2>2 DEF Line, Came
<1>3. /\ Way' = Way /\ OmniPlaces' /\ HearsWholeTurn' /\ CutAnswerForgotten'
      /\ \A i \in 1..Len(Line') : Named(Line[i].turn)'
      /\ \A i \in 1..Len(Way) : /\ Way'[i].kind = "commit" => AskedFor(Way[i].turn)'
                                /\ Way'[i].kind = "cancel" => Named(Way[i].turn)'
                                /\ Way'[i].kind = "append" => Way'[i].gen <= outbound'.gen
  BY <1>1, <1>2, ReaderParts
<1>s. OmniShapes'
  BY <1>i, <1>1, <1>2, <1>3 DEF OmniShapes
<1>n. OmniNumbers'
  BY <1>i, <1>2, <1>3 DEF OmniNumbers, AskedFor, Named
<1>a. Awaited'
  BY <1>1 DEF Awaited
<1>d. OneResponse' /\ CommitLast' /\ Forgetting' /\ Hearing'
  BY DeadParts
<1>f. Fence'
  BY DEF Fence
<1>h. Heard'
  BY <1>i, <1>2 DEF Heard, Calm, Left
<1> QED
  BY <1>s, <1>n, <1>a, <1>d, <1>f, <1>h, <1>3, OmniPartsNext

\* The reader tells that the response is over.
LEMMA Finishes == ASSUME OmniInv, OmniTypeOK', FinishResponse PROVE OmniInv'
<1>i. /\ OmniTypeOK /\ OmniShapes /\ OmniPlaces /\ OmniNumbers
      /\ Awaited /\ OneResponse /\ CommitLast /\ Fence /\ Heard /\ Forgetting /\ Hearing
      /\ HearsWholeTurn /\ CutAnswerForgotten /\ Numeric /\ Placed /\ Numeric'
  BY OmniHolds, NumericNext
<1>1. /\ reader.at = "finish" /\ reader'.at = "read" /\ reader'.held = <<>> /\ reader.held # <<>>
      /\ UNCHANGED <<user, pump, outbound, writer, inner, alive, model, wire, trace>>
  BY <1>i DEF FinishResponse, OmniShapes
<1>2. ~response'.requested /\ (response'.wait = "none" <=> response.wait = "none")
      /\ response'.item = response.item
  <2>1. PICK r \in {"ok", "error"} : response' = Finished(r)
    BY DEF FinishResponse
  <2> QED
    BY <2>1, <1>i, OmniTyped DEF Finished, ResponseSet
<1>3. Shrunk(Line, Line') /\ Line # <<>> /\ Came' = Came /\ pump.open = pump'.open
  <2>1. Shrunk(Line, Line') /\ Len(Line) > 0
    BY <1>i, <1>1, LineFinishes
  <2> QED
    BY <1>i, <1>1, <2>1 DEF Came, Numeric
<1>4. /\ Way' = Way /\ OmniPlaces' /\ Hearing' /\ HearsWholeTurn' /\ CutAnswerForgotten'
      /\ \A i \in 1..Len(Line') : Named(Line[i].turn)'
      /\ \A i \in 1..Len(Way) : /\ Way'[i].kind = "commit" => AskedFor(Way[i].turn)'
                                /\ Way'[i].kind = "cancel" => Named(Way[i].turn)'
                                /\ Way'[i].kind = "append" => Way'[i].gen <= outbound'.gen
  BY <1>1, <1>2, <1>3, ReaderParts
<1>s. OmniShapes'
  BY <1>i, <1>1, <1>2, <1>3, <1>4 DEF OmniShapes
<1>n. OmniNumbers'
  BY <1>i, <1>1, <1>3, <1>4 DEF OmniNumbers, AskedFor, Named
<1>a. Awaited'
  BY <1>2 DEF Awaited
<1>o. OneResponse' /\ CommitLast'
  <2> SUFFICES ASSUME Calm, alive PROVE OneResponse' /\ CommitLast'
    BY <1>1 DEF OneResponse, CommitLast, Calm
  <2>1. /\ NoCommit /\ Len(Line) = 1 /\ model.running = 0
    <3>1. IsLast(Line[1].kind)
      BY <1>i, <1>1 DEF OmniShapes
    <3> QED
      BY <1>3, <3>1, OwnMessage
  <2>2. Line' = <<>> /\ Len(Line') = 0
    <3>1. Len(Line) = Len(Line') + 1 /\ Len(Line') \in Nat
      BY <1>i, <1>3, LineShrunk
    <3>2. Line' = <<>> <=> Len(Line') = 0
      BY <1>i DEF Numeric
    <3>3. Len(Line') = 0
      <4>1. \A n \in Nat : 1 = n + 1 => n = 0
        OBVIOUS
      <4>2. 1 = Len(Line') + 1 /\ Len(Line') \in Nat
        BY <2>1, <3>1
      <4> QED
        BY <4>1, <4>2
    <3> QED
      BY <3>2, <3>3
  <2>3. NoCommit' /\ Silent'
    BY <1>1, <1>4, <2>1, <2>2 DEF NoCommit, Silent
  <2>4. OneResponse'
    BY <1>1, <2>1, <2>2, <2>3 DEF OneResponse
  <2>5. CommitLast'
    BY <1>i, <1>1, <1>2, <1>4, <2>3 DEF CommitLast, NoCommit, Left
  <2> QED
    BY <2>4, <2>5
<1>f. Fence'
  BY <1>1 DEF Fence
<1>h. Heard'
  BY <1>i, <1>1, <1>3 DEF Heard, Calm, Left
<1>m. Forgetting'
  BY <1>i, <1>1, <1>2, <1>4 DEF Forgetting, Calm, Left, NoCommit, Deleting
<1> QED
  BY <1>s, <1>n, <1>a, <1>o, <1>f, <1>h, <1>m, <1>4, OmniPartsNext

\* The socket breaks, or has broken.
LEMMA ReadBreaks == ASSUME OmniInv, OmniTypeOK', ReadFails PROVE OmniInv'
<1>i. /\ OmniTypeOK /\ OmniShapes /\ OmniPlaces /\ OmniNumbers
      /\ Awaited /\ OneResponse /\ CommitLast /\ Fence /\ Heard /\ Forgetting /\ Hearing
      /\ HearsWholeTurn /\ CutAnswerForgotten /\ Numeric /\ Placed /\ Numeric'
  BY OmniHolds, NumericNext
<1>1. /\ reader.at = "read" /\ reader'.at = "ended" /\ reader'.held = <<>> /\ reader.held = <<>>
      /\ UNCHANGED <<user, pump, outbound, writer, inner, trace>>
      /\ IF alive THEN Fails ELSE UNCHANGED <<response, alive, model, wire>>
  BY <1>i DEF ReadFails, OmniShapes
<1>2. /\ ~alive' /\ wire' = <<>> /\ model' = FreshModel
      /\ response'.requested => response.requested
      /\ response'.wait = "none" <=> response.wait = "none"
      /\ response'.wait \in {"ok", "error"} => ~response'.requested
  <2>1. CASE alive
    <3>1. HangUp /\ response' = Finished("error")
      BY <1>1, <2>1 DEF Fails
    <3>2. ~response'.requested /\ (response'.wait = "none" <=> response.wait = "none")
      BY <3>1, <1>i, OmniTyped DEF Finished, ResponseSet
    <3> QED
      BY <3>1, <3>2 DEF HangUp
  <2>2. CASE ~alive
    BY <1>1, <1>i, <2>2 DEF OmniShapes, OmniPlaces
  <2> QED
    BY <2>1, <2>2
<1>3. Way' = Way /\ Line' = <<>> /\ Len(Line') = 0 /\ Came' = Came /\ pump.open = pump'.open
  BY <1>1, <1>2 DEF Way, Line, Came
<1>s. OmniShapes'
  BY <1>i, <1>1, <1>2, <1>3 DEF OmniShapes
<1>p. OmniPlaces'
  BY <1>i, <1>1, <1>2 DEF OmniPlaces, Left
<1>n. OmniNumbers'
  <2>1. model'.running = 0 /\ model'.kept = {}
    BY <1>2 DEF FreshModel
  <2> QED
    BY <1>i, <1>1, <1>3, <2>1 DEF OmniNumbers, AskedFor, Named
<1>a. Awaited'
  BY <1>i, <1>1, <1>2, <1>3 DEF Awaited
<1>d. OneResponse' /\ CommitLast' /\ Forgetting' /\ Hearing'
  BY <1>2, DeadParts
<1>f. Fence'
  BY <1>1 DEF Fence
<1>h. Heard'
  BY <1>i, <1>1, <1>3 DEF Heard, Calm, Left
<1>w. HearsWholeTurn' /\ CutAnswerForgotten'
  BY <1>i, <1>1 DEF HearsWholeTurn, CutAnswerForgotten
<1> QED
  BY <1>s, <1>p, <1>n, <1>a, <1>d, <1>f, <1>h, <1>w, OmniPartsNext

LEMMA ReaderKeeps == ASSUME OmniInv, ReaderRuns PROVE OmniInv'
<1>t. OmniTypeOK /\ OmniTypeOK'
  BY ReaderTyped, OmniHolds
<1>1. CASE ReadSignal
  BY <1>1, <1>t, ReadsSignal
<1>2. CASE Publish
  <2>1. /\ reader.at = "publish"
        /\ UNCHANGED <<user, pump, outbound, writer, alive, model, wire, trace>>
        /\ response' = IF reader'.at = "ended" THEN Finished("error") ELSE response
    BY <1>2 DEF Publish
  <2>2. CASE ~alive /\ reader' = [at |-> "ended", held |-> <<>>, gate |-> 0] /\ UNCHANGED inner
    BY <1>t, <2>1, <2>2, PublishEnds
  <2>3. ASSUME AfterPublish(reader.held[1]),
               \/ inner' = inner
               \/ inner' = Append(inner, [turn |-> reader.held[1].turn,
                                          last |-> IsLast(reader.held[1].kind),
                                          error |-> reader.held[1].kind = "error"])
        PROVE  OmniInv'
    <3>1. reader'.at # "ended"
      BY <2>3 DEF AfterPublish
    <3> QED
      BY <1>t, <2>1, <2>3, <3>1, Publishes
  <2> QED
    BY <1>2, <2>2, <2>3 DEF Publish
<1>3. CASE FinishResponse
  BY <1>3, <1>t, Finishes
<1>4. CASE ReadFails
  BY <1>4, <1>t, ReadBreaks
<1> QED
  BY <1>1, <1>2, <1>3, <1>4 DEF ReaderRuns
-----------------------------------------------------------------------------
(* The omni session: every step keeps the invariant.                       *)

LEMMA OmniBegins == OmniInit => OmniInv
<1> SUFFICES ASSUME OmniInit PROVE OmniInv
  OBVIOUS
<1>1. /\ user = [at |-> "rest", phase |-> "idle", turn |-> 0, sent |-> 0, latch |-> 0]
      /\ pump = [at |-> "opening", open |-> FALSE, held |-> <<>>]
      /\ outbound = [writes |-> <<>>, urgent |-> <<>>, gen |-> 0]
      /\ response = [requested |-> FALSE, gate |-> 0, canceled |-> FALSE, wait |-> "none", item |-> 0]
      /\ writer = [at |-> "look", held |-> <<>>]
      /\ reader = [at |-> "read", held |-> <<>>, gate |-> 0]
      /\ inner = <<>> /\ alive = TRUE /\ wire = <<>> /\ model = FreshModel
      /\ trace = [cut |-> {}, left |-> FALSE, complained |-> FALSE, overtaken |-> FALSE,
                  mistaken |-> FALSE, mixed |-> FALSE, haunted |-> FALSE, foreign |-> FALSE]
  BY DEF OmniInit
<1>2. /\ Way = <<>> /\ Line = <<>> /\ Came = <<>>
      /\ Len(Way) = 0 /\ Len(Line) = 0 /\ Len(Came) = 0
      /\ 1..Len(Way) = {} /\ 1..Len(Line) = {} /\ 1..Len(Came) = {}
  BY <1>1 DEF Way, Line, Came
<1>3. model.input = <<>> /\ model.running = 0 /\ model.said = 0 /\ model.kept = {} /\ Len(model.input) = 0
  BY <1>1 DEF FreshModel
<1>t. OmniTypeOK
  <2>1. user \in UserSet /\ response \in ResponseSet /\ model \in ModelSet
    BY <1>1, OmniBoundsHold, FreshModelTyped DEF UserSet, ResponseSet, OmniBounds
  <2>2. OutboundTyped /\ InnerTyped /\ wire \in Seq(Signal)
    BY <1>1, OmniBoundsHold, OneOrNone DEF OutboundTyped, OutboundSet, InnerTyped, OmniBounds
  <2>3. pump \in PumpSet /\ writer \in WriterSet /\ reader \in ReaderSet
    BY <1>1, OmniBoundsHold, OneOrNone DEF PumpSet, WriterSet, ReaderSet, OmniBounds
  <2>4. alive \in BOOLEAN /\ trace \in TraceSet
    BY <1>1 DEF TraceSet
  <2> QED
    BY <2>1, <2>2, <2>3, <2>4, OmniTyped
<1>s. OmniShapes
  BY <1>1, <1>2 DEF OmniShapes
<1>p. OmniPlaces
  BY <1>1 DEF OmniPlaces
<1>n. OmniNumbers
  BY <1>1, <1>2, <1>3 DEF OmniNumbers
<1>a. Awaited
  BY <1>1 DEF Awaited
<1>o. OneResponse
  BY <1>1, <1>2, <1>3 DEF OneResponse, Silent, NoCommit
<1>c. CommitLast
  BY <1>1, <1>2 DEF CommitLast
<1>f. Fence
  BY <1>1 DEF Fence
<1>h. Heard
  BY <1>1, <1>2 DEF Heard
<1>m. Forgetting
  BY <1>1, <1>3 DEF Forgetting
<1>u. Hearing
  BY <1>1, <1>2, <1>3 DEF Hearing, Collecting
<1>w. HearsWholeTurn /\ CutAnswerForgotten
  BY <1>1 DEF HearsWholeTurn, CutAnswerForgotten
<1> QED
  BY <1>t, <1>s, <1>p, <1>n, <1>a, <1>o, <1>c, <1>f, <1>h, <1>m, <1>u, <1>w, OmniParts

LEMMA OmniStutters == ASSUME OmniInv, UNCHANGED omniVars PROVE OmniInv'
<1>i. /\ OmniTypeOK /\ OmniShapes /\ OmniPlaces /\ OmniNumbers
      /\ Awaited /\ OneResponse /\ CommitLast /\ Fence /\ Heard /\ Forgetting /\ Hearing
      /\ HearsWholeTurn /\ CutAnswerForgotten
  BY OmniParts
<1>1. UNCHANGED <<user, pump, outbound, response, writer, reader, inner, alive, model, wire, trace>>
  BY DEF omniVars
<1>t. OmniTypeOK'
  BY <1>i, <1>1, OmniTyped, OmniTypedNext DEF OutboundTyped, InnerTyped
<1>2. Came' = Came /\ UNCHANGED <<user, outbound, response, writer, reader, alive, model, wire, trace>>
      /\ pump'.open = pump.open
  BY <1>1 DEF Came
<1> QED
  BY <1>t, <1>2, PumpMoves

LEMMA OmniKeeps == ASSUME OmniInv, OmniNext PROVE OmniInv'
BY UserKeeps, PumpKeeps, AnswersKeeps, WriterKeeps, ReaderKeeps DEF OmniNext

LEMMA OmniStep == ASSUME [ProvidersNext]_providersVars PROVE [OmniNext]_omniVars
BY DEF ProvidersNext, PipelineOnly, OmniOnly, providersVars

LEMMA OmniAlways == ProvidersSpec => []OmniInv
<1>1. ProvidersInit => OmniInv
  BY OmniBegins DEF ProvidersInit
<1>2. OmniInv /\ [ProvidersNext]_providersVars => OmniInv'
  BY OmniStep, OmniKeeps, OmniStutters
<1> QED
  BY <1>1, <1>2, PTL DEF ProvidersSpec

\* A turn that has begun hears only its own events, and finds the session free.
LEMMA OmniInvSound == OmniInv => OmniSound
<1> SUFFICES ASSUME OmniInv PROVE OmniSound
  OBVIOUS
<1>i. /\ OmniTypeOK /\ OmniPlaces /\ Awaited /\ Heard /\ HearsWholeTurn /\ CutAnswerForgotten
  BY OmniHolds
<1>1. OwnAnswerOnly
  BY <1>i DEF OwnAnswerOnly, Heard, Calm
<1>2. FreeForNextTurn
  BY <1>i DEF FreeForNextTurn, Awaited, OmniPlaces
<1> QED
  BY <1>i, <1>1, <1>2 DEF OmniSound

\* Only Publish adds to the session's events, and its fence was not cut.
LEMMA OmniFences ==
  ASSUME OmniInv, OmniNext, Len(inner') > Len(inner), ~trace.complained
  PROVE  Last(inner').turn \notin trace.cut
<1>i. OmniTypeOK /\ OmniTypeOK' /\ Fence /\ Placed
  BY OmniHolds, OmniTypes
<1>l. inner \in Seq(Output) /\ Len(inner) \in Nat
  BY <1>i, OmniTyped DEF InnerTyped
<1>1. ~(inner' = inner)
  BY <1>l
<1>2. ASSUME inner # <<>>, inner' = Tail(inner) PROVE FALSE
  <2>1. Shrunk(inner, Tail(inner)) /\ Len(Tail(inner)) \in Nat
    BY <1>l, <1>2, TailShrinks
  <2> QED
    BY <1>2, <2>1, <1>l DEF Shrunk
<1>3. ~User /\ ~Answers /\ ~WriterRuns
  <2>1. User => inner' = inner
    BY <1>i, UserTyped
  <2>2. Answers => inner' = inner
    BY DEF Answers
  <2>3. WriterRuns => inner' = inner
    BY DEF WriterRuns, LookUrgentWrites, SelectWrites, WriteBatch, WriteFails
  <2> QED
    BY <1>1, <2>1, <2>2, <2>3
<1>4. ~Pump
  BY <1>1, <1>2 DEF Pump, Opens, HandsOn, PumpStops, PumpEnded, Session
<1>5. /\ reader.at = "publish"
      /\ \E event : inner' = Append(inner, event) /\ event.turn = reader.held[1].turn
  <2>1. Publish
    BY <1>1, <1>3, <1>4 DEF OmniNext, ReaderRuns, ReadSignal, FinishResponse, ReadFails
  <2> QED
    BY <1>1, <2>1 DEF Publish
<1>6. PICK event : inner' = Append(inner, event) /\ event.turn = reader.held[1].turn
  BY <1>5
<1>7. Last(inner') = event
  <2>1. inner \in Seq(Output \cup {event})
    <3>1. \A i \in 1..Len(inner) : inner[i] \in Output \cup {event}
      BY <1>l, ElementOfSeq
    <3> QED
      BY <1>l, <3>1, SeqDef
  <2>2. inner'[Len(inner')] = event
    BY <1>6, <2>1, AppendProperties
  <2> QED
    BY <2>2 DEF Last
<1>8. Line[1] = reader.held[1] /\ Line[1].turn = user.turn /\ user.turn \notin trace.cut
  BY <1>i, <1>5 DEF Placed, Fence, Calm
<1> QED
  BY <1>6, <1>7, <1>8

\* What the omni model hears is one whole turn; the answers that were cut have
\* left its conversation; a turn hears its own answer and finds the session
\* free for it, but for the races that the properties name (qwen/session.go),
\* however many turns, pieces and deltas there are, and however long the queues.
THEOREM OmniSessionSound == ProvidersSpec => []OmniSound
<1>1. OmniInv => OmniSound
  BY OmniInvSound
<1> QED
  BY <1>1, OmniAlways, PTL

\* Once Cancel has returned, the session takes in no event of that turn.
THEOREM OmniSilentAfterCancel == ProvidersSpec => CancelFences
<1>1. OmniInv /\ [ProvidersNext]_providersVars
        => [Len(inner') > Len(inner) /\ ~trace.complained => Last(inner').turn \notin trace.cut]_omniVars
  BY OmniStep, OmniFences
<1> QED
  BY <1>1, OmniAlways, PTL DEF ProvidersSpec, CancelFences
=============================================================================
