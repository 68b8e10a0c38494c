------------------------- MODULE AudioQueueProofs -------------------------
(***************************************************************************)
(* Proofs about the queues of audio packets, for any number of talkers,    *)
(* any number of ids and any order in which packets arrive, are repeated   *)
(* or are lost, and whatever the decoder returns.                          *)
(*                                                                         *)
(* The argument. The packets of a queue have ids of growing distance from  *)
(* next_id, none further than a full buffer, so that the wrapping          *)
(* subtraction of add_packet agrees with the order of the buffer           *)
(* (Ordered). The sum of the samples follows each insertion and removal.   *)
(* The windows of the last buffer sizes are sorted and have the same size  *)
(* at the back (Jitter): each drops old sizes on its own, but neither      *)
(* drops that one, and so the minimum of the one cannot pass the maximum   *)
(* of the other. SoundInv says this of every queue.                        *)
(*                                                                         *)
(* For the order in which packets are heard, Placed compares a queue with  *)
(* the positions in the stream of its talker: next_id belongs to a         *)
(* position, packets that were heard lie before it, buffered ones at or    *)
(* after it.                                                               *)
(***************************************************************************)
EXTENDS AudioQueue, SequenceTheorems, FiniteSetTheorems, TLAPS

\* A set of numbers has a smallest one.
LEMMA SmallestNumber ==
  ASSUME NEW S, S \subseteq Nat, S # {}
  PROVE  \E n \in S : \A m \in S : n <= m
  <1>1. PICK n \in S : \A m \in S : ~(<<m, n>> \in OpToRel(<, Nat))
    BY WFMin, NatLessThanWellFounded
  <1>2. \A m \in S : ~(m < n)
    BY <1>1 DEF OpToRel
  <1> QED
    BY <1>2

\* A bounded set of numbers has a largest and a smallest one: Max and Min.
LEMMA MaxFacts ==
  ASSUME NEW S, S \subseteq Nat, S # {}, NEW k \in Nat, \A x \in S : x <= k
  PROVE  Max(S) \in S /\ \A x \in S : x <= Max(S)
  <1> DEFINE T == {k - x : x \in S}
  <1>0. \A x \in S : k - x \in Nat
    OBVIOUS
  <1>1. T \subseteq Nat /\ T # {}
    BY <1>0
  <1>2. PICK n \in T : \A m \in T : n <= m
    BY <1>1, SmallestNumber
  <1>3. PICK y \in S : n = k - y
    BY <1>2
  <1>4. \A x \in S : y >= x
    BY <1>2, <1>3
  <1> QED
    BY <1>4 DEF Max

LEMMA MinFacts ==
  ASSUME NEW S, S \subseteq Nat, S # {}
  PROVE  Min(S) \in S /\ \A x \in S : Min(S) <= x
  BY SmallestNumber DEF Min

-----------------------------------------------------------------------------
(* Sums of samples.                                                        *)

\* Packets with a number of samples.
Sampled == [pos : Nat, id : 0 .. (IdCount - 1), samples : Nat]

LEMMA SampledSamples ==
  ASSUME NEW b \in Seq(Sampled)
  PROVE  Len(b) \in Nat /\ \A n \in 1 .. Len(b) : b[n] \in Sampled /\ b[n].samples \in Nat
  <1>1. \A n \in 1 .. Len(b) : b[n] \in Sampled
    BY ElementOfSeq
  <1>2. \A p \in Sampled : p.samples \in Nat
    BY DEF Sampled
  <1> QED
    BY <1>1, <1>2, LenProperties

\* f has the sums of the first packets of b.
IsSums(f, b) ==
  /\ DOMAIN f = 0 .. Len(b) /\ f[0] = 0
  /\ \A n \in 1 .. Len(b) : f[n] = f[n - 1] + b[n].samples

SumBody(f, b) == [n \in 0 .. Len(b) |-> IF n = 0 THEN 0 ELSE f[n - 1] + b[n].samples]

\* The recursion in SumSamples has a solution.
LEMMA SumsExist ==
  ASSUME NEW b \in Seq(Sampled)
  PROVE  \E f : f = SumBody(f, b)
  <1> DEFINE Fits(f, k) == /\ DOMAIN f = 0 .. k /\ f[0] = 0
                           /\ f = [n \in 0 .. k |-> f[n]]
                           /\ \A n \in 1 .. k : f[n] = f[n - 1] + b[n].samples
             Bad == {k \in 0 .. Len(b) : ~\E f : Fits(f, k)}
  <1>0. Len(b) \in Nat
    OBVIOUS
  <1>1. ASSUME Bad # {} PROVE FALSE
    <2>0. Bad \subseteq Nat
      BY <1>0
    <2>1. PICK k \in Bad : \A m \in Bad : k <= m
      <3> HIDE DEF Bad
      <3> QED
        BY <1>1, <2>0, SmallestNumber
    <2>2. k # 0
      <3>1. Fits([n \in 0 .. 0 |-> 0], 0)
        OBVIOUS
      <3> QED
        BY <3>1
    <2>3. k - 1 \in 0 .. Len(b) /\ k - 1 \notin Bad
      BY <1>0, <2>1, <2>2
    <2>4. PICK f : Fits(f, k - 1)
      BY <2>3
    <2> DEFINE g == [n \in 0 .. k |-> IF n = k THEN f[k - 1] + b[k].samples ELSE f[n]]
    <2>5. Fits(g, k)
      <3>1. k \in 1 .. Len(b)
        BY <1>0, <2>1, <2>2
      <3>2. ASSUME NEW n \in 1 .. k - 1 PROVE g[n] = g[n - 1] + b[n].samples
        <4>1. n \in 0 .. k /\ n - 1 \in 0 .. k /\ n # k /\ n - 1 # k
          BY <1>0, <3>1
        <4>2. g[n] = f[n] /\ g[n - 1] = f[n - 1]
          BY <4>1
        <4> QED
          BY <2>4, <4>2
      <3>3. g[k] = g[k - 1] + b[k].samples
        BY <1>0, <3>1
      <3>4. DOMAIN g = 0 .. k /\ g[0] = 0 /\ g = [n \in 0 .. k |-> g[n]]
        BY <1>0, <2>4, <3>1
      <3>5. \A n \in 1 .. k : n = k \/ n \in 1 .. k - 1
        BY <1>0, <3>1
      <3> HIDE DEF g
      <3> QED
        BY <3>2, <3>3, <3>4, <3>5
    <2> QED
      BY <2>1, <2>5
  <1>2. PICK f : Fits(f, Len(b))
    BY <1>0, <1>1
  <1>3. f = SumBody(f, b)
    BY <1>0, <1>2 DEF SumBody
  <1> QED
    BY <1>3

\* What SumSamples is.
LEMMA SumOf ==
  ASSUME NEW b \in Seq(Sampled)
  PROVE  \E f : IsSums(f, b) /\ SumSamples(b) = f[Len(b)]
  <1> DEFINE f == CHOOSE g : g = SumBody(g, b)
  <1>1. f = SumBody(f, b)
    BY SumsExist
  <1>2. SumSamples(b) = f[Len(b)]
    BY DEF SumSamples, SumBody
  <1> HIDE DEF f
  <1>3. IsSums(f, b)
    BY <1>1 DEF IsSums, SumBody
  <1> QED
    BY <1>2, <1>3

\* The sums are numbers, and there is only one way to add.
LEMMA SumsFacts ==
  ASSUME NEW b \in Seq(Sampled), NEW f, IsSums(f, b)
  PROVE  /\ \A n \in 0 .. Len(b) : f[n] \in Nat
         /\ SumSamples(b) = f[Len(b)]
  <1>0. Len(b) \in Nat /\ \A n \in 1 .. Len(b) : b[n].samples \in Nat
    BY SampledSamples
  <1>1. PICK g : IsSums(g, b) /\ SumSamples(b) = g[Len(b)]
    BY SumOf
  <1> DEFINE Bad == {n \in 0 .. Len(b) : ~(f[n] \in Nat /\ f[n] = g[n])}
  <1>2. Bad \subseteq Nat
    BY <1>0
  <1>3. ASSUME Bad # {} PROVE FALSE
    <2>1. PICK n \in Bad : \A m \in Bad : n <= m
      <3> HIDE DEF Bad
      <3> QED
        BY <1>2, <1>3, SmallestNumber
    <2>2. n \in 1 .. Len(b)
      BY <1>0, <1>1, <2>1 DEF IsSums
    <2>3. n - 1 \in 0 .. Len(b) /\ n - 1 \notin Bad
      BY <1>0, <1>2, <2>1, <2>2
    <2>4. f[n] = f[n - 1] + b[n].samples /\ g[n] = g[n - 1] + b[n].samples
      BY <1>1, <2>2 DEF IsSums
    <2>5. f[n - 1] \in Nat /\ f[n - 1] = g[n - 1]
      BY <2>3
    <2> QED
      BY <1>0, <2>1, <2>2, <2>4, <2>5
  <1> QED
    BY <1>0, <1>1, <1>3

\* InsertAt, pointwise.
LEMMA InsertFacts ==
  ASSUME NEW S, NEW b \in Seq(S), NEW k \in 1 .. Len(b) + 1, NEW p \in S
  PROVE  /\ InsertAt(b, k, p) \in Seq(S)
         /\ Len(InsertAt(b, k, p)) = Len(b) + 1
         /\ \A n \in 1 .. Len(b) + 1 :
              InsertAt(b, k, p)[n] =
                IF n < k THEN b[n] ELSE IF n = k THEN p ELSE b[n - 1]
  <1>0. Len(b) \in Nat /\ k \in Nat
    OBVIOUS
  <1>1. PICK u : u = SubSeq(b, 1, k - 1)
    OBVIOUS
  <1>2. PICK v : v = SubSeq(b, k, Len(b))
    OBVIOUS
  <1>3. PICK w : w = u \o <<p>>
    OBVIOUS
  <1>4. InsertAt(b, k, p) = w \o v
    BY <1>1, <1>2, <1>3 DEF InsertAt
  <1>5. /\ u \in Seq(S) /\ Len(u) = k - 1 /\ \A n \in 1 .. k - 1 : u[n] = b[n]
    BY <1>0, <1>1, SubSeqProperties
  <1>6. /\ v \in Seq(S) /\ Len(v) = Len(b) - k + 1
        /\ \A n \in 1 .. Len(b) - k + 1 : v[n] = b[k + n - 1]
    BY <1>0, <1>2, SubSeqProperties
  <1>7. <<p>> \in Seq(S) /\ Len(<<p>>) = 1 /\ <<p>>[1] = p
    OBVIOUS
  <1>8. w \in Seq(S) /\ Len(w) = k
        /\ \A n \in 1 .. k : w[n] = IF n <= k - 1 THEN u[n] ELSE <<p>>[n - (k - 1)]
    BY <1>0, <1>3, <1>5, <1>7, ConcatProperties
  <1>9. \A n \in 1 .. k : w[n] = IF n < k THEN b[n] ELSE p
    BY <1>0, <1>5, <1>7, <1>8
  <1>10. w \o v \in Seq(S) /\ Len(w \o v) = Len(b) + 1
         /\ \A n \in 1 .. Len(b) + 1 : (w \o v)[n] = IF n <= k THEN w[n] ELSE v[n - k]
    BY <1>0, <1>6, <1>8, ConcatProperties
  <1>11. ASSUME NEW n \in 1 .. Len(b) + 1
         PROVE  (w \o v)[n] = IF n < k THEN b[n] ELSE IF n = k THEN p ELSE b[n - 1]
    <2>1. CASE n <= k
      BY <1>0, <1>9, <1>10, <2>1
    <2>2. CASE n > k
      <3>1. n - k \in 1 .. Len(b) - k + 1 /\ k + (n - k) - 1 = n - 1
        BY <1>0, <2>2
      <3>2. v[n - k] = b[n - 1]
        BY <1>6, <3>1
      <3>3. ~(n <= k) /\ ~(n < k) /\ n # k
        BY <1>0, <2>2
      <3> QED
        BY <1>10, <3>2, <3>3
    <2>3. n <= k \/ n > k
      BY <1>0
    <2> QED
      BY <2>1, <2>2, <2>3
  <1> QED
    BY <1>4, <1>10, <1>11, Zenon

\* A packet put in between adds its samples.
LEMMA SumInsert ==
  ASSUME NEW b \in Seq(Sampled), NEW k \in 1 .. Len(b) + 1, NEW p \in Sampled
  PROVE  SumSamples(InsertAt(b, k, p)) = SumSamples(b) + p.samples
  <1>1. PICK f : IsSums(f, b)
    BY SumOf
  <1>2. PICK c : c = InsertAt(b, k, p)
    OBVIOUS
  <1>3. /\ c \in Seq(Sampled) /\ Len(c) = Len(b) + 1
        /\ \A n \in 1 .. Len(b) + 1 :
             c[n] = IF n < k THEN b[n] ELSE IF n = k THEN p ELSE b[n - 1]
    <2>1. /\ InsertAt(b, k, p) \in Seq(Sampled)
          /\ Len(InsertAt(b, k, p)) = Len(b) + 1
          /\ \A n \in 1 .. Len(b) + 1 :
               InsertAt(b, k, p)[n] = IF n < k THEN b[n] ELSE IF n = k THEN p ELSE b[n - 1]
      BY InsertFacts
    <2> QED
      BY <1>2, <2>1, Zenon
  <1>4. /\ SumSamples(b) = f[Len(b)]
        /\ \A n \in 0 .. Len(b) : f[n] \in Nat
    BY <1>1, SumsFacts
  <1>5. /\ Len(b) \in Nat /\ k \in Nat /\ 1 <= k /\ k <= Len(b) + 1 /\ p.samples \in Nat
        /\ \A n \in 1 .. Len(b) : b[n].samples \in Nat
    <2>1. Len(b) \in Nat /\ \A n \in 1 .. Len(b) : b[n].samples \in Nat
      BY SampledSamples
    <2>2. p.samples \in Nat
      BY DEF Sampled
    <2> QED
      BY <2>1, <2>2
  <1>6. PICK g : g = [n \in 0 .. Len(b) + 1 |-> IF n < k THEN f[n] ELSE f[n - 1] + p.samples]
    OBVIOUS
  <1>7. ASSUME NEW n \in 1 .. Len(c) PROVE g[n] = g[n - 1] + c[n].samples
    <2>0. n \in 0 .. Len(b) + 1 /\ n - 1 \in 0 .. Len(b) + 1 /\ n \in 1 .. Len(b) + 1
      BY <1>3, <1>5
    <2>1. CASE n < k
      <3>1. n - 1 < k /\ n \in 1 .. Len(b)
        BY <1>5, <2>0, <2>1
      <3>2. g[n] = f[n] /\ g[n - 1] = f[n - 1] /\ c[n] = b[n]
        BY <1>3, <1>6, <2>0, <2>1, <3>1
      <3>3. f[n] = f[n - 1] + b[n].samples
        BY <1>1, <3>1 DEF IsSums
      <3> QED
        BY <3>2, <3>3, Zenon
    <2>2. CASE n = k
      <3>1. n - 1 < k /\ ~(n < k)
        BY <1>5, <2>2
      <3>2. g[n] = f[n - 1] + p.samples /\ g[n - 1] = f[n - 1] /\ c[n] = p
        BY <1>3, <1>6, <2>0, <2>2, <3>1
      <3> QED
        BY <3>2, Zenon
    <2>3. CASE n > k
      <3>1. /\ ~(n - 1 < k) /\ ~(n < k) /\ n # k /\ n - 1 - 1 = n - 2
            /\ n - 1 \in 1 .. Len(b) /\ n - 2 \in 0 .. Len(b) /\ n - 1 \in 0 .. Len(b)
        BY <1>5, <2>0, <2>3
      <3>2. g[n] = f[n - 1] + p.samples /\ g[n - 1] = f[n - 2] + p.samples /\ c[n] = b[n - 1]
        BY <1>3, <1>6, <2>0, <3>1
      <3>3. f[n - 1] = f[n - 2] + b[n - 1].samples
        BY <1>1, <3>1 DEF IsSums
      <3>4. f[n - 1] \in Nat /\ f[n - 2] \in Nat /\ b[n - 1].samples \in Nat
        BY <1>4, <1>5, <3>1
      <3>5. f[n - 2] + b[n - 1].samples + p.samples = f[n - 2] + p.samples + b[n - 1].samples
        BY <1>5, <3>4
      <3> QED
        BY <3>2, <3>3, <3>5, Zenon
    <2>4. n < k \/ n = k \/ n > k
      BY <1>5, <2>0
    <2> QED
      BY <2>1, <2>2, <2>3, <2>4
  <1>8. DOMAIN g = 0 .. Len(c) /\ g[0] = 0
    BY <1>1, <1>3, <1>5, <1>6 DEF IsSums
  <1>9. IsSums(g, c)
    BY <1>7, <1>8 DEF IsSums
  <1>10. g[Len(c)] = f[Len(b)] + p.samples
    BY <1>3, <1>5, <1>6
  <1>11. SumSamples(c) = g[Len(c)]
    BY <1>3, <1>9, SumsFacts
  <1> QED
    BY <1>2, <1>4, <1>10, <1>11, Zenon

\* The front packet is an insertion at the front, so taking it out and
\* putting it back are covered, too.
LEMMA SumFront ==
  ASSUME NEW b \in Seq(Sampled)
  PROVE  /\ \A p \in Sampled : SumSamples(<<p>> \o b) = SumSamples(b) + p.samples
         /\ b # <<>> => SumSamples(b) = SumSamples(Tail(b)) + Head(b).samples
  <1>1. ASSUME NEW c \in Seq(Sampled), NEW p \in Sampled
        PROVE  InsertAt(c, 1, p) = <<p>> \o c
    <2>1. SubSeq(c, 1, 1 - 1) = <<>> /\ SubSeq(c, 1, Len(c)) = c
      BY SubSeqEmpty, SubSeqFull
    <2>2. <<>> \o <<p>> = <<p>>
      OBVIOUS
    <2> QED
      BY <2>1, <2>2 DEF InsertAt
  <1>2. ASSUME NEW c \in Seq(Sampled), NEW p \in Sampled
        PROVE  SumSamples(<<p>> \o c) = SumSamples(c) + p.samples
    <2>1. 1 \in 1 .. Len(c) + 1
      OBVIOUS
    <2> QED
      BY <1>1, <2>1, SumInsert
  <1>3. ASSUME b # <<>> PROVE SumSamples(b) = SumSamples(Tail(b)) + Head(b).samples
    <2>1. Tail(b) \in Seq(Sampled) /\ Head(b) \in Sampled /\ b = <<Head(b)>> \o Tail(b)
      BY <1>3, HeadTailProperties
    <2> QED
      BY <1>2, <2>1
  <1> QED
    BY <1>2, <1>3

\* Sums are numbers.
LEMMA SumType ==
  ASSUME NEW b \in Seq(Sampled)
  PROVE  SumSamples(b) \in Nat /\ SumSamples(<<>>) = 0
  <1>1. PICK f : IsSums(f, b)
    BY SumOf
  <1>2. SumSamples(b) = f[Len(b)] /\ f[Len(b)] \in Nat
    BY <1>1, SumsFacts
  <1>3. PICK g : IsSums(g, <<>>) /\ SumSamples(<<>>) = g[Len(<<>>)]
    BY SumOf, EmptySeq
  <1>4. SumSamples(<<>>) = 0
    BY <1>3, EmptySeq DEF IsSums
  <1> QED
    BY <1>2, <1>4

-----------------------------------------------------------------------------
(* Distances of ids.                                                       *)

Ids == 0 .. (IdCount - 1)

LEMMA DistanceFacts ==
  ASSUME NEW a \in Ids, NEW b \in Ids
  PROVE  /\ Distance(a, b) \in Nat
         /\ Distance(a, b) = IF a >= b THEN a - b ELSE a - b + IdCount
  BY AudioAssumption DEF Distance, Ids

\* Two distances from the same id tell the distance of the two ids.
LEMMA DistanceBetween ==
  ASSUME NEW a \in Ids, NEW b \in Ids, NEW c \in Ids
  PROVE  Distance(a, b) = IF Distance(a, c) >= Distance(b, c)
                          THEN Distance(a, c) - Distance(b, c)
                          ELSE Distance(a, c) - Distance(b, c) + IdCount
  <1>1. /\ Distance(a, b) = IF a >= b THEN a - b ELSE a - b + IdCount
        /\ Distance(a, c) = IF a >= c THEN a - c ELSE a - c + IdCount
        /\ Distance(b, c) = IF b >= c THEN b - c ELSE b - c + IdCount
    BY DistanceFacts
  <1> QED
    BY <1>1, AudioAssumption DEF Ids

\* The next id is one nearer.
LEMMA DistanceNext ==
  ASSUME NEW c \in Ids
  PROVE  /\ (c + 1) % IdCount \in Ids
         /\ \A a \in Ids : /\ Distance(a, c) = 0 <=> a = c
                           /\ a # c => Distance(a, (c + 1) % IdCount) = Distance(a, c) - 1
  <1>1. (c + 1) % IdCount = IF c + 1 = IdCount THEN 0 ELSE c + 1
    BY AudioAssumption DEF Ids
  <1>2. (c + 1) % IdCount \in Ids
    BY <1>1, AudioAssumption DEF Ids
  <1>3. ASSUME NEW a \in Ids PROVE Distance(a, c) = 0 <=> a = c
    <2>1. Distance(a, c) = IF a >= c THEN a - c ELSE a - c + IdCount
      BY DistanceFacts
    <2> QED
      BY <2>1, AudioAssumption DEF Ids
  <1>4. ASSUME NEW a \in Ids, a # c
        PROVE  Distance(a, (c + 1) % IdCount) = Distance(a, c) - 1
    <2>0. PICK d \in Ids : d = (c + 1) % IdCount
      BY <1>2
    <2>1. Distance(a, d) = IF a >= d THEN a - d ELSE a - d + IdCount
      BY DistanceFacts
    <2>2. Distance(a, c) = IF a >= c THEN a - c ELSE a - c + IdCount
      BY DistanceFacts
    <2> QED
      BY <1>1, <1>4, <2>0, <2>1, <2>2, AudioAssumption DEF Ids
  <1> QED
    BY <1>2, <1>3, <1>4

-----------------------------------------------------------------------------
(* The order of the packet buffer.                                         *)

\* BufferOrdered, of one buffer.
Ordered(b, next) ==
  /\ \A i \in 1 .. Len(b) : Distance(b[i].id, next) <= MaxBufferPackets
  /\ \A i, j \in 1 .. Len(b) :
       i < j => Distance(b[i].id, next) < Distance(b[j].id, next)

LEMMA SampledIds ==
  ASSUME NEW b \in Seq(Sampled)
  PROVE  /\ Len(b) \in Nat /\ DOMAIN b = 1 .. Len(b)
         /\ \A n \in 1 .. Len(b) : b[n] \in Sampled /\ b[n].id \in Ids /\ b[n].pos \in Nat
  <1>1. \A n \in 1 .. Len(b) : b[n] \in Sampled
    BY ElementOfSeq
  <1>2. \A p \in Sampled : p.id \in Ids /\ p.pos \in Nat
    BY DEF Sampled, Ids
  <1> QED
    BY <1>1, <1>2, LenProperties

LEMMA OrderedEmpty ==
  ASSUME NEW c PROVE Ordered(<<>>, c)
  BY EmptySeq DEF Ordered

\* A suffix of the buffer is in order from its first packet on.
LEMMA OrderedSuffix ==
  ASSUME NEW b \in Seq(Sampled), NEW c \in Ids, Ordered(b, c),
         NEW k \in 1 .. Len(b)
  PROVE  /\ SubSeq(b, k, Len(b)) \in Seq(Sampled)
         /\ SubSeq(b, k, Len(b)) # <<>> /\ SubSeq(b, k, Len(b))[1] = b[k]
         /\ Ordered(SubSeq(b, k, Len(b)), b[k].id)
  <1>0. /\ Len(b) \in Nat /\ k \in Nat
        /\ \A n \in 1 .. Len(b) : b[n] \in Sampled /\ b[n].id \in Ids
    BY SampledIds
  <1>1. PICK s : s = SubSeq(b, k, Len(b))
    OBVIOUS
  <1>2. /\ s \in Seq(Sampled) /\ Len(s) = Len(b) - k + 1
        /\ \A n \in 1 .. Len(b) - k + 1 : s[n] = b[k + n - 1]
    BY <1>0, <1>1, SubSeqProperties
  <1>3. s[1] = b[k] /\ s # <<>>
    BY <1>0, <1>2
  <1>4. ASSUME NEW i \in 1 .. Len(s)
        PROVE  /\ k + i - 1 \in 1 .. Len(b) /\ s[i] = b[k + i - 1]
               /\ Distance(s[i].id, b[k].id) = Distance(s[i].id, c) - Distance(b[k].id, c)
    <2>1. k + i - 1 \in 1 .. Len(b) /\ s[i] = b[k + i - 1] /\ (k + i - 1 = k \/ k < k + i - 1)
      BY <1>0, <1>2
    <2>2. Distance(s[i].id, c) >= Distance(b[k].id, c)
      <3>0. Distance(s[i].id, c) \in Nat /\ Distance(b[k].id, c) \in Nat
        BY <1>0, <2>1, DistanceFacts
      <3>1. CASE k + i - 1 = k
        BY <2>1, <3>0, <3>1
      <3>2. CASE k < k + i - 1
        <4>1. Distance(b[k].id, c) < Distance(b[k + i - 1].id, c)
          BY <2>1, <3>2 DEF Ordered
        <4> QED
          BY <2>1, <3>0, <4>1
      <3> QED
        BY <2>1, <3>1, <3>2
    <2> QED
      BY <1>0, <2>1, <2>2, DistanceBetween
  <1>5. \A i \in 1 .. Len(s) : Distance(s[i].id, c) \in Nat /\ Distance(b[k].id, c) \in Nat
    BY <1>0, <1>4, DistanceFacts
  <1>6. \A i \in 1 .. Len(s) : Distance(s[i].id, b[k].id) <= MaxBufferPackets
    <2>1. \A i \in 1 .. Len(s) : Distance(s[i].id, c) <= MaxBufferPackets
      BY <1>4 DEF Ordered
    <2>2. ASSUME NEW i \in 1 .. Len(s)
          PROVE  Distance(s[i].id, b[k].id) <= MaxBufferPackets
      <3>1. PICK x, y, z : x = Distance(s[i].id, c) /\ y = Distance(b[k].id, c)
                           /\ z = Distance(s[i].id, b[k].id)
        OBVIOUS
      <3>2. x \in Nat /\ y \in Nat
        BY <1>5, <3>1
      <3>3. z = x - y
        BY <1>4, <3>1
      <3>4. x <= MaxBufferPackets /\ MaxBufferPackets \in Nat
        BY <2>1, <3>1, AudioAssumption
      <3>5. z <= MaxBufferPackets
        BY <3>2, <3>3, <3>4
      <3> QED
        BY <3>1, <3>5
    <2> QED
      BY <2>2
  <1>7. ASSUME NEW i \in 1 .. Len(s), NEW j \in 1 .. Len(s), i < j
        PROVE  Distance(s[i].id, b[k].id) < Distance(s[j].id, b[k].id)
    <2>1. k + i - 1 < k + j - 1
      BY <1>0, <1>2, <1>7
    <2>2. Distance(s[i].id, c) < Distance(s[j].id, c)
      BY <1>4, <2>1 DEF Ordered
    <2> QED
      BY <1>4, <1>5, <2>2
  <1> QED
    BY <1>1, <1>2, <1>3, <1>6, <1>7 DEF Ordered

\* When the next id is skipped, the packets behind it are still in order.
LEMMA OrderedNext ==
  ASSUME NEW b \in Seq(Sampled), NEW c \in Ids, Ordered(b, c),
         \A i \in 1 .. Len(b) : b[i].id # c
  PROVE  Ordered(b, (c + 1) % IdCount)
  <1>1. \A i \in 1 .. Len(b) :
          /\ Distance(b[i].id, (c + 1) % IdCount) = Distance(b[i].id, c) - 1
          /\ Distance(b[i].id, c) \in Nat
    BY SampledIds, DistanceNext, DistanceFacts
  <1>2. \A i \in 1 .. Len(b) : Distance(b[i].id, (c + 1) % IdCount) <= MaxBufferPackets
    BY <1>1, AudioAssumption DEF Ordered
  <1>3. \A i, j \in 1 .. Len(b) : i < j =>
          Distance(b[i].id, (c + 1) % IdCount) < Distance(b[j].id, (c + 1) % IdCount)
    BY <1>1 DEF Ordered
  <1> QED
    BY <1>2, <1>3 DEF Ordered

\* Only the front packet can be due.
LEMMA OrderedTail ==
  ASSUME NEW b \in Seq(Sampled), NEW c \in Ids, Ordered(b, c), b # <<>>
  PROVE  /\ Tail(b) \in Seq(Sampled) /\ Ordered(Tail(b), (c + 1) % IdCount)
         /\ Head(b) \in Sampled /\ Head(b) = b[1]
         /\ Head(b).id # c => Ordered(b, (c + 1) % IdCount)
  <1>0. /\ Len(b) \in Nat /\ Len(b) >= 1
        /\ \A n \in 1 .. Len(b) : b[n] \in Sampled /\ b[n].id \in Ids
    BY SampledIds
  <1>1. /\ Tail(b) \in Seq(Sampled) /\ Len(Tail(b)) = Len(b) - 1 /\ Head(b) \in Sampled
        /\ Head(b) = b[1] /\ \A i \in 1 .. Len(Tail(b)) : Tail(b)[i] = b[i + 1]
    BY HeadTailProperties
  <1>2. ASSUME NEW i \in 1 .. Len(b), i # 1 PROVE b[i].id # c
    <2>1. 1 \in 1 .. Len(b) /\ 1 < i
      BY <1>0, <1>2
    <2>2. Distance(b[1].id, c) < Distance(b[i].id, c)
      BY <2>1 DEF Ordered
    <2>3. Distance(b[1].id, c) \in Nat /\ Distance(b[i].id, c) \in Nat
      BY <1>0, <2>1, DistanceFacts
    <2>4. Distance(b[i].id, c) # 0
      BY <2>2, <2>3
    <2> QED
      BY <1>0, <2>4, DistanceNext
  <1>3. Ordered(Tail(b), c)
    <2>1. \A i \in 1 .. Len(Tail(b)) : i + 1 \in 1 .. Len(b) /\ Tail(b)[i] = b[i + 1]
      BY <1>0, <1>1
    <2>2. \A i, j \in 1 .. Len(Tail(b)) : i < j => i + 1 < j + 1
      BY <1>0, <1>1
    <2> QED
      BY <2>1, <2>2 DEF Ordered
  <1>4. \A i \in 1 .. Len(Tail(b)) : Tail(b)[i].id # c
    BY <1>0, <1>1, <1>2
  <1>5. Ordered(Tail(b), (c + 1) % IdCount)
    BY <1>1, <1>3, <1>4, OrderedNext
  <1>6. ASSUME Head(b).id # c PROVE Ordered(b, (c + 1) % IdCount)
    BY <1>1, <1>2, <1>6, OrderedNext
  <1> QED
    BY <1>1, <1>5, <1>6

\* The packets of the buffer have different distances, so that the last one
\* is at least as far away as there are packets before it.
LEMMA OrderedSpread ==
  ASSUME NEW b \in Seq(Sampled), NEW c \in Ids, Ordered(b, c), b # <<>>
  PROVE  Distance(b[Len(b)].id, c) + 1 - Len(b) \in Nat
  <1>0. /\ Len(b) \in Nat /\ Len(b) >= 1
        /\ \A n \in 1 .. Len(b) : Distance(b[n].id, c) \in Nat
    BY SampledIds, DistanceFacts
  <1> DEFINE Bad == {n \in 1 .. Len(b) : ~(Distance(b[n].id, c) >= n - 1)}
  <1>1. Bad \subseteq Nat
    BY <1>0
  <1>2. ASSUME Bad # {} PROVE FALSE
    <2>1. PICK n \in Bad : \A m \in Bad : n <= m
      <3> HIDE DEF Bad
      <3> QED
        BY <1>1, <1>2, SmallestNumber
    <2>2. n \in 1 .. Len(b) /\ n # 1
      BY <1>0, <2>1
    <2>3. n - 1 \in 1 .. Len(b) /\ n - 1 \notin Bad /\ n - 1 < n
      BY <1>0, <1>1, <2>1, <2>2
    <2>4. Distance(b[n - 1].id, c) >= n - 1 - 1 /\ Distance(b[n - 1].id, c) < Distance(b[n].id, c)
      BY <2>2, <2>3 DEF Ordered
    <2> QED
      BY <1>0, <2>1, <2>2, <2>3, <2>4
  <1>3. Len(b) \notin Bad /\ Len(b) \in 1 .. Len(b)
    BY <1>0, <1>2
  <1>4. Distance(b[Len(b)].id, c) >= Len(b) - 1
    BY <1>3
  <1> QED
    BY <1>0, <1>3, <1>4

\* The place that add_packet finds by looking from the back, with wrapping
\* ids, is behind the packets that are nearer to the next id.
LEMMA InsertPosFacts ==
  ASSUME NEW q, q.packet_buffer \in Seq(Sampled), q.next_id \in Ids,
         Ordered(q.packet_buffer, q.next_id),
         NEW p \in Sampled, ~TooLate(q, p)
  PROVE  LET b == q.packet_buffer
             D(r) == Distance(r.id, q.next_id)
         IN  /\ InsertPos(q, p) \in 0 .. Len(b)
             /\ D(p) <= MaxBufferPackets
             /\ \A i \in 1 .. Len(b) : i <= InsertPos(q, p) => D(b[i]) < D(p)
             /\ \A i \in 1 .. Len(b) : InsertPos(q, p) < i => D(p) <= D(b[i])
             /\ ~Duplicate(q, p) =>
                  \A i \in 1 .. Len(b) : InsertPos(q, p) < i => D(p) < D(b[i])
  <1>1. PICK b \in Seq(Sampled) : b = q.packet_buffer
    OBVIOUS
  <1>2. PICK c \in Ids : c = q.next_id
    OBVIOUS
  <1> DEFINE D(r) == Distance(r.id, c)
             M == MaxBufferPackets
             S == {0} \cup {i \in DOMAIN b : Distance(b[i].id, p.id) > M}
             k == InsertPos(q, p)
  <1>3. /\ Len(b) \in Nat /\ DOMAIN b = 1 .. Len(b) /\ p.id \in Ids
        /\ \A i \in 1 .. Len(b) : b[i].id \in Ids
    BY SampledIds DEF Sampled, Ids
  <1>4. D(p) \in Nat /\ \A i \in 1 .. Len(b) : D(b[i]) \in Nat /\ D(b[i]) <= M
    BY <1>1, <1>2, <1>3, DistanceFacts DEF Ordered
  <1>5. D(p) <= M
    BY <1>2, <1>4, AudioAssumption DEF TooLate
  <1>6. ASSUME NEW i \in 1 .. Len(b)
        PROVE  (Distance(b[i].id, p.id) > M) <=> D(b[i]) < D(p)
    <2>1. Distance(b[i].id, p.id) = IF D(b[i]) >= D(p) THEN D(b[i]) - D(p)
                                    ELSE D(b[i]) - D(p) + IdCount
      BY <1>3, DistanceBetween
    <2>2. M \in Nat /\ IdCount \in Nat /\ M + M < IdCount
      BY AudioAssumption
    <2> HIDE DEF D, M
    <2> QED
      BY <1>4, <1>5, <2>1, <2>2
  <1>7. k = Max(S)
    BY <1>1 DEF InsertPos
  <1>8. S \subseteq Nat /\ S # {} /\ \A x \in S : x <= Len(b)
    BY <1>3
  <1>9. k \in S /\ \A x \in S : x <= k
    <2> HIDE DEF S, k
    <2> QED
      BY <1>3, <1>7, <1>8, MaxFacts
  <1>10. k \in 0 .. Len(b)
    BY <1>3, <1>9
  <1> HIDE DEF k
  <1>11. ASSUME NEW i \in 1 .. Len(b), i <= k PROVE D(b[i]) < D(p)
    <2>1. k \in 1 .. Len(b)
      BY <1>3, <1>10, <1>11
    <2>2. D(b[k]) < D(p)
      BY <1>3, <1>6, <1>9, <2>1
    <2>3. i = k \/ D(b[i]) < D(b[k])
      BY <1>1, <1>2, <1>3, <1>11, <2>1 DEF Ordered
    <2>4. D(b[i]) \in Nat /\ D(b[k]) \in Nat
      BY <1>4, <2>1
    <2> HIDE DEF D
    <2> QED
      BY <1>4, <2>2, <2>3, <2>4
  <1>12. ASSUME NEW i \in 1 .. Len(b), k < i PROVE D(p) <= D(b[i])
    <2>1. i \notin S
      BY <1>3, <1>9, <1>10, <1>12
    <2>2. ~(D(b[i]) < D(p))
      BY <1>3, <1>6, <2>1
    <2> QED
      BY <1>4, <2>2
  <1>13. ASSUME NEW i \in 1 .. Len(b), k < i, ~Duplicate(q, p) PROVE D(p) < D(b[i])
    <2>1. k + 1 \in 1 .. Len(b) /\ k < k + 1
      BY <1>3, <1>10, <1>13
    <2>2. b[k + 1].id # p.id
      BY <1>1, <1>13, <2>1 DEF Duplicate, k
    <2>3. D(p) <= D(b[k + 1])
      BY <1>12, <2>1
    <2>4. D(b[k + 1]) # D(p)
      <3>1. ASSUME D(b[k + 1]) = D(p) PROVE FALSE
        <4>1. Distance(b[k + 1].id, p.id) = 0
          BY <1>3, <1>4, <2>1, <3>1, DistanceBetween
        <4> QED
          BY <1>3, <2>1, <2>2, <4>1, DistanceNext
      <3> QED
        BY <3>1
    <2>5. i = k + 1 \/ D(b[k + 1]) < D(b[i])
      BY <1>1, <1>2, <1>3, <1>10, <1>13, <2>1 DEF Ordered
    <2>6. D(b[i]) \in Nat /\ D(b[k + 1]) \in Nat /\ D(p) \in Nat
      BY <1>4, <2>1
    <2> HIDE DEF D
    <2> QED
      BY <2>3, <2>4, <2>5, <2>6
  <1> QED
    BY <1>1, <1>2, <1>5, <1>10, <1>11, <1>12, <1>13 DEF k

\* add_packet keeps the order.
LEMMA OrderedInsert ==
  ASSUME NEW q, q.packet_buffer \in Seq(Sampled), q.next_id \in Ids,
         Ordered(q.packet_buffer, q.next_id),
         NEW p \in Sampled, ~TooLate(q, p), ~Duplicate(q, p)
  PROVE  Ordered(InsertAt(q.packet_buffer, InsertPos(q, p) + 1, p), q.next_id)
  <1>1. PICK b \in Seq(Sampled) : b = q.packet_buffer
    OBVIOUS
  <1>2. PICK c \in Ids : c = q.next_id
    OBVIOUS
  <1>3. PICK k : k = InsertPos(q, p) + 1
    OBVIOUS
  <1> DEFINE D(r) == Distance(r.id, c)
  <1>4. /\ k \in 1 .. Len(b) + 1 /\ D(p) <= MaxBufferPackets
        /\ \A i \in 1 .. Len(b) : i < k => D(b[i]) < D(p)
        /\ \A i \in 1 .. Len(b) : k <= i => D(p) < D(b[i])
    <2>1. PICK j : j = InsertPos(q, p)
      OBVIOUS
    <2>2. /\ j \in 0 .. Len(b) /\ D(p) <= MaxBufferPackets
          /\ \A i \in 1 .. Len(b) : i <= j => D(b[i]) < D(p)
          /\ \A i \in 1 .. Len(b) : j < i => D(p) < D(b[i])
      BY <1>1, <1>2, <2>1, InsertPosFacts
    <2>3. Len(b) \in Nat /\ k = j + 1 /\ \A i \in 1 .. Len(b) : (i < k <=> i <= j) /\ (k <= i <=> j < i)
      BY <1>3, <2>1, <2>2, SampledIds
    <2> HIDE DEF D
    <2>4. k \in 1 .. Len(b) + 1
      BY <2>2, <2>3
    <2>5. \A i \in 1 .. Len(b) : i < k => D(b[i]) < D(p)
      BY <2>2, <2>3
    <2>6. \A i \in 1 .. Len(b) : k <= i => D(p) < D(b[i])
      BY <2>2, <2>3
    <2>7. D(p) <= MaxBufferPackets
      BY <2>2
    <2> QED
      BY <2>4, <2>5, <2>6, <2>7
  <1>5. PICK s : s = InsertAt(b, k, p)
    OBVIOUS
  <1>6. /\ InsertAt(b, k, p) \in Seq(Sampled) /\ Len(InsertAt(b, k, p)) = Len(b) + 1
        /\ \A n \in 1 .. Len(b) + 1 :
             InsertAt(b, k, p)[n] = IF n < k THEN b[n] ELSE IF n = k THEN p ELSE b[n - 1]
    <2>1. k \in 1 .. Len(b) + 1
      BY <1>4
    <2> QED
      BY <2>1, InsertFacts
  <1>7. /\ Len(s) = Len(b) + 1
        /\ \A n \in 1 .. Len(b) + 1 : s[n] = IF n < k THEN b[n] ELSE IF n = k THEN p ELSE b[n - 1]
    BY <1>5, <1>6, Zenon
  <1>8. Len(b) \in Nat /\ D(p) \in Nat
        /\ \A i \in 1 .. Len(b) : D(b[i]) \in Nat /\ D(b[i]) <= MaxBufferPackets
    BY <1>1, <1>2, SampledIds, DistanceFacts DEF Ordered, Sampled, Ids
  <1>9. \A i, j \in 1 .. Len(b) : i < j => D(b[i]) < D(b[j])
    BY <1>1, <1>2 DEF Ordered
  <1> HIDE DEF D
  <1>10. ASSUME NEW n \in 1 .. Len(b) + 1 PROVE D(s[n]) <= MaxBufferPackets
    <2>1. n < k => n \in 1 .. Len(b)
      BY <1>4, <1>8
    <2>2. n > k => n - 1 \in 1 .. Len(b)
      BY <1>4, <1>8
    <2>3. n < k \/ n = k \/ n > k
      BY <1>4, <1>8
    <2> QED
      BY <1>4, <1>7, <1>8, <2>1, <2>2, <2>3
  <1>11. ASSUME NEW m \in 1 .. Len(b) + 1, NEW n \in 1 .. Len(b) + 1, m < n
         PROVE  D(s[m]) < D(s[n])
    <2>1. CASE n < k
      BY <1>4, <1>7, <1>8, <1>9, <1>11, <2>1
    <2>2. CASE n = k
      <3>1. m \in 1 .. Len(b) /\ m < k
        BY <1>4, <1>8, <1>11, <2>2
      <3> QED
        BY <1>4, <1>7, <2>2, <3>1
    <2>3. CASE n > k
      <3>1. n - 1 \in 1 .. Len(b) /\ k <= n - 1 /\ s[n] = b[n - 1]
        BY <1>4, <1>7, <1>8, <2>3
      <3>2. CASE m = k
        BY <1>4, <1>7, <3>1, <3>2
      <3>3. CASE m < k
        <4>1. m \in 1 .. Len(b) /\ m < n - 1 /\ s[m] = b[m]
          BY <1>4, <1>7, <1>8, <3>1, <3>3
        <4> QED
          BY <1>9, <3>1, <4>1
      <3>4. CASE m > k
        <4>1. m - 1 \in 1 .. Len(b) /\ m - 1 < n - 1 /\ s[m] = b[m - 1]
          BY <1>4, <1>7, <1>8, <1>11, <3>4
        <4> QED
          BY <1>9, <3>1, <4>1
      <3> QED
        BY <1>4, <3>2, <3>3, <3>4
    <2> QED
      BY <1>4, <1>8, <2>1, <2>2, <2>3
  <1>12. Ordered(s, c)
    BY <1>7, <1>10, <1>11 DEF Ordered, D
  <1> QED
    BY <1>1, <1>2, <1>3, <1>5, <1>12, Zenon

-----------------------------------------------------------------------------
(* The windows of buffer sizes.                                            *)

Entries(Values) == [time : Nat, value : Values]
Windows(Values) == [queue : Seq(Entries(Values)), cur_time : 0 .. (TimeCount - 1)]

\* The queue of a window is sorted, with the last value at the back.
Sorted(w, last) ==
  /\ w.queue # <<>> /\ w.queue[Len(w.queue)].value = last
  /\ \A i, j \in 1 .. Len(w.queue) : i < j => w.queue[i].value < w.queue[j].value

LEMMA EntryFacts ==
  ASSUME NEW Values \in SUBSET Int, NEW s \in Seq(Entries(Values))
  PROVE  /\ Len(s) \in Nat /\ DOMAIN s = 1 .. Len(s)
         /\ \A i \in 1 .. Len(s) : /\ s[i] \in Entries(Values) /\ s[i].time \in Nat
                                    /\ s[i].value \in Values /\ s[i].value \in Int
  <1>1. \A i \in 1 .. Len(s) : s[i] \in Entries(Values)
    BY ElementOfSeq
  <1>2. \A e \in Entries(Values) : e.time \in Nat /\ e.value \in Values /\ e.value \in Int
    BY DEF Entries
  <1> QED
    BY <1>1, <1>2, LenProperties

\* What push keeps of the queue: its smaller part is a prefix.
LEMMA SmallerFacts ==
  ASSUME NEW Values \in SUBSET Int, NEW s \in Seq(Entries(Values)), NEW v \in Values,
         \A i, j \in 1 .. Len(s) : i < j => s[i].value < s[j].value
  PROVE  \E k \in 0 .. Len(s) : /\ SmallerPart(s, v) = SubSeq(s, 1, k)
                                /\ \A i \in 1 .. k : s[i].value < v
  <1> DEFINE S == {0} \cup {i \in DOMAIN s : s[i].value < v}
  <1>1. /\ Len(s) \in Nat /\ DOMAIN s = 1 .. Len(s)
        /\ \A i \in 1 .. Len(s) : s[i].value \in Int
    BY EntryFacts
  <1>2. S \subseteq Nat /\ S # {} /\ \A x \in S : x <= Len(s)
    BY <1>1
  <1>3. PICK k : k = Max(S)
    OBVIOUS
  <1>4. k \in S
    <2> HIDE DEF S
    <2> QED
      BY <1>1, <1>2, <1>3, MaxFacts
  <1>5. k \in 0 .. Len(s)
    BY <1>1, <1>4
  <1>6. ASSUME NEW i \in 1 .. k PROVE s[i].value < v
    <2>1. k \in 1 .. Len(s) /\ i \in 1 .. Len(s) /\ (i = k \/ i < k)
      BY <1>1, <1>5
    <2>2. s[k].value < v
      BY <1>1, <1>4, <2>1
    <2>3. v \in Int /\ s[k].value \in Int /\ s[i].value \in Int
      BY <1>1, <2>1
    <2>4. i = k \/ s[i].value < s[k].value
      BY <2>1
    <2> QED
      BY <2>2, <2>3, <2>4
  <1>7. SmallerPart(s, v) = SubSeq(s, 1, k)
    BY <1>3 DEF SmallerPart
  <1> QED
    BY <1>5, <1>6, <1>7

\* push keeps the queue sorted, puts the new value at its back, and never
\* drops that one.
LEMMA PushFacts ==
  ASSUME NEW Values \in SUBSET Int, NEW w \in Windows(Values), NEW v \in Values,
         \A i, j \in 1 .. Len(w.queue) : i < j => w.queue[i].value < w.queue[j].value
  PROVE  PushValue(w, v) \in Windows(Values) /\ Sorted(PushValue(w, v), v)
  <1>1. PICK s \in Seq(Entries(Values)) : s = w.queue
    BY DEF Windows
  <1>2. PICK t \in 0 .. (TimeCount - 1) : t = w.cur_time
    BY DEF Windows
  <1>3. PICK k \in 0 .. Len(s) : SmallerPart(s, v) = SubSeq(s, 1, k)
                                 /\ \A i \in 1 .. k : s[i].value < v
    BY <1>1, SmallerFacts
  <1>4. PICK e \in Entries(Values) : e = [time |-> t, value |-> v]
    <2>1. t \in Nat
      BY WindowAssumption
    <2> QED
      BY <2>1 DEF Entries
  <1>5. PICK u : u = SubSeq(s, 1, k)
    OBVIOUS
  <1>6. PICK p : p = Append(u, e)
    OBVIOUS
  <1>7. /\ Len(s) \in Nat
        /\ \A i \in 1 .. Len(s) : s[i] \in Entries(Values) /\ s[i].value \in Int
    BY EntryFacts
  <1>8. u \in Seq(Entries(Values)) /\ Len(u) = k /\ \A i \in 1 .. k : u[i] = s[i]
    BY <1>3, <1>5, <1>7, SubSeqProperties
  <1>9. /\ p \in Seq(Entries(Values)) /\ Len(p) = k + 1
        /\ \A i \in 1 .. k : p[i] = s[i]
        /\ p[k + 1] = e
    BY <1>6, <1>8, AppendProperties
  <1>10. ASSUME NEW i \in 1 .. k + 1, NEW j \in 1 .. k + 1, i < j
         PROVE  p[i].value < p[j].value
    <2>1. i \in 1 .. k /\ i \in 1 .. Len(s)
      BY <1>3, <1>7, <1>10
    <2>2. CASE j \in 1 .. k
      <3>1. j \in 1 .. Len(s)
        BY <1>3, <1>7, <2>2
      <3>2. s[i].value < s[j].value
        BY <1>1, <1>10, <2>1, <3>1
      <3> QED
        BY <1>9, <2>1, <2>2, <3>2
    <2>3. CASE j = k + 1
      BY <1>3, <1>4, <1>9, <2>1, <2>3
    <2> QED
      BY <1>3, <1>7, <2>2, <2>3
  <1> DEFINE Y == {i \in DOMAIN p : Age(t, p[i]) < WindowSize}
  <1>11. k + 1 \in Y
    <2>1. Age(t, e) = 0
      BY <1>2, <1>4, WindowAssumption DEF Age
    <2>2. k + 1 \in DOMAIN p
      BY <1>3, <1>7, <1>9, LenProperties
    <2> QED
      BY <1>9, <2>1, <2>2, WindowAssumption
  <1>12. PICK m : m = Min(Y \cup {Len(p) + 1})
    OBVIOUS
  <1>13. m \in 1 .. k + 1
    <2>1. DOMAIN p = 1 .. k + 1
      BY <1>9, LenProperties
    <2>2. Y \cup {Len(p) + 1} \subseteq Nat /\ Y \cup {Len(p) + 1} # {}
      BY <1>3, <1>7, <1>9, <2>1
    <2>3. m \in Y \cup {Len(p) + 1} /\ m <= k + 1
      <3> HIDE DEF Y
      <3> QED
        BY <1>11, <1>12, <2>2, MinFacts
    <2> QED
      BY <1>3, <1>7, <1>9, <2>1, <2>3
  <1>14. PICK y : y = SubSeq(p, m, Len(p))
    OBVIOUS
  <1>15. /\ y \in Seq(Entries(Values)) /\ Len(y) = k + 1 - m + 1
         /\ \A i \in 1 .. k + 1 - m + 1 : y[i] = p[m + i - 1]
    <2>1. \A i \in m .. k + 1 : p[i] \in Entries(Values)
      BY <1>3, <1>7, <1>9, <1>13, EntryFacts
    <2> QED
      BY <1>3, <1>7, <1>9, <1>13, <1>14, <2>1, SubSeqProperties
  <1>16. PushValue(w, v) = [queue |-> y, cur_time |-> (t + 1) % TimeCount]
    <2>1. y = YoungPart(p, t)
      BY <1>12, <1>14 DEF YoungPart
    <2>2. p = Append(SmallerPart(w.queue, v), [time |-> w.cur_time, value |-> v])
      BY <1>1, <1>2, <1>3, <1>4, <1>5, <1>6, Zenon
    <2> QED
      BY <1>2, <2>1, <2>2, Zenon DEF PushValue
  <1>17. (t + 1) % TimeCount \in 0 .. (TimeCount - 1)
    BY WindowAssumption
  <1>18. PushValue(w, v) \in Windows(Values)
    BY <1>15, <1>16, <1>17 DEF Windows
  <1>19. y # <<>> /\ y[Len(y)] = e
    <2>1. Len(y) \in 1 .. k + 1 - m + 1 /\ m + Len(y) - 1 = k + 1
      BY <1>3, <1>7, <1>13, <1>15
    <2> QED
      BY <1>9, <1>15, <2>1, EmptySeq
  <1>20. ASSUME NEW i \in 1 .. Len(y), NEW j \in 1 .. Len(y), i < j
         PROVE  y[i].value < y[j].value
    <2>1. /\ m + i - 1 \in 1 .. k + 1 /\ m + j - 1 \in 1 .. k + 1 /\ m + i - 1 < m + j - 1
          /\ y[i] = p[m + i - 1] /\ y[j] = p[m + j - 1]
      BY <1>3, <1>7, <1>13, <1>15, <1>20
    <2> QED
      BY <1>10, <2>1
  <1>21. PushValue(w, v).queue = y
    BY <1>16
  <1> QED
    BY <1>4, <1>18, <1>19, <1>20, <1>21 DEF Sorted

\* get_min of a sorted window is at most the last value.
LEMMA GetMinFacts ==
  ASSUME NEW Values \in SUBSET Int, NEW w \in Windows(Values), NEW v, Sorted(w, v)
  PROVE  GetMin(w) \in Values /\ v \in Values /\ GetMin(w) <= v
  <1>1. PICK s \in Seq(Entries(Values)) : s = w.queue
    BY DEF Windows
  <1>2. /\ Len(s) \in Nat /\ \A i \in 1 .. Len(s) : s[i].value \in Values /\ s[i].value \in Int
    BY EntryFacts
  <1>3. s # <<>> /\ Len(s) >= 1 /\ Head(s) = s[1] /\ s[Len(s)].value = v
    BY <1>1 DEF Sorted
  <1>4. GetMin(w) = s[1].value
    BY <1>1, <1>3 DEF GetMin
  <1>5. 1 \in 1 .. Len(s) /\ Len(s) \in 1 .. Len(s)
    BY <1>2, <1>3
  <1>6. s[1].value = v \/ s[1].value < v
    BY <1>1, <1>2, <1>3, <1>5 DEF Sorted
  <1> QED
    BY <1>2, <1>3, <1>4, <1>5, <1>6

-----------------------------------------------------------------------------
(* One queue.                                                              *)

Sizes == 0 .. MaxFrames
NegSizes == -MaxFrames .. 0

\* The parts of QueueSound, for one queue; the windows have the same value at
\* their back, which is why their minima cannot cross.
Base(q) ==
  /\ q \in QueueType
  /\ Ordered(q.packet_buffer, q.next_id)
  /\ q.packet_buffer_samples = SumSamples(q.packet_buffer)

Jitter(q) == \E v \in Sizes : Sorted(q.size_min, v) /\ Sorted(q.size_max, -v)

QueueOK(q) == Base(q) /\ Jitter(q)

LEMMA QueueFields ==
  ASSUME NEW q \in QueueType
  PROVE  /\ q.next_id \in Ids /\ q.packet_buffer \in Seq(Sampled)
         /\ q.packet_buffer_samples \in Nat /\ q.decoded \in Nat /\ q.decoded_pos \in Nat
         /\ q.last_packet_samples \in Nat /\ q.packet_loss_num \in Nat
         /\ q.buffering_samples \in Nat /\ q.buffered_for_samples \in Nat
         /\ q.size_min \in Windows(Sizes) /\ q.size_max \in Windows(NegSizes)
         /\ q.heard \in Seq(Nat)
  BY DEF QueueType, Sampled, Ids, Windows, Entries, Sizes, NegSizes

LEMMA SizeSets == Sizes \in SUBSET Int /\ NegSizes \in SUBSET Int
                  /\ \A v \in Sizes : -v \in NegSizes
  BY AudioAssumption DEF Sizes, NegSizes

\* The fields that add_buffer_size leaves alone.
SameButSizes(r, q) ==
  /\ r.next_id = q.next_id /\ r.packet_buffer = q.packet_buffer
  /\ r.packet_buffer_samples = q.packet_buffer_samples
  /\ r.decoded = q.decoded /\ r.decoded_pos = q.decoded_pos
  /\ r.last_packet_samples = q.last_packet_samples
  /\ r.packet_loss_num = q.packet_loss_num
  /\ r.buffering_samples = q.buffering_samples
  /\ r.buffered_for_samples = q.buffered_for_samples /\ r.heard = q.heard

\* Both windows get the same size, or none.
LEMMA AddBufferSizeFacts ==
  ASSUME NEW q \in QueueType, NEW size \in Nat,
         \/ Jitter(q)
         \/ size = 0 /\ q.size_min.queue = <<>> /\ q.size_max.queue = <<>>
  PROVE  /\ AddBufferSize(q, size) \in QueueType /\ Jitter(AddBufferSize(q, size))
         /\ SameButSizes(AddBufferSize(q, size), q)
  <1> DEFINE v == size \div UsualFrameSize
  <1>1. v \in Nat /\ (size = 0 => v = 0)
    BY AudioAssumption
  <1>2. CASE v > MaxFrames
    <2>1. Jitter(q)
      BY <1>1, <1>2, AudioAssumption
    <2>2. AddBufferSize(q, size) = q
      BY <1>2 DEF AddBufferSize
    <2> QED
      BY <2>1, <2>2 DEF SameButSizes
  <1>3. CASE ~(v > MaxFrames)
    <2>1. v \in Sizes /\ -v \in NegSizes
      BY <1>1, <1>3, AudioAssumption DEF Sizes, NegSizes
    <2>2. /\ \A i, j \in 1 .. Len(q.size_min.queue) :
               i < j => q.size_min.queue[i].value < q.size_min.queue[j].value
          /\ \A i, j \in 1 .. Len(q.size_max.queue) :
               i < j => q.size_max.queue[i].value < q.size_max.queue[j].value
      <3>1. CASE Jitter(q)
        BY <3>1 DEF Jitter, Sorted
      <3>2. CASE q.size_min.queue = <<>> /\ q.size_max.queue = <<>>
        BY <3>2, EmptySeq
      <3> QED
        BY <3>1, <3>2
    <2> HIDE DEF v
    <2>3. PICK a : a = PushValue(q.size_min, v)
      OBVIOUS
    <2>4. PICK b : b = PushValue(q.size_max, -v)
      OBVIOUS
    <2>5. a \in Windows(Sizes) /\ Sorted(a, v)
      BY <2>1, <2>2, <2>3, SizeSets, QueueFields, PushFacts
    <2>6. b \in Windows(NegSizes) /\ Sorted(b, -v)
      BY <2>1, <2>2, <2>4, SizeSets, QueueFields, PushFacts
    <2>7. AddBufferSize(q, size) = [q EXCEPT !.size_min = a, !.size_max = b]
      BY <1>3, <2>3, <2>4 DEF AddBufferSize, Reversed, v
    <2>8. [q EXCEPT !.size_min = a, !.size_max = b] \in QueueType
      BY <2>5, <2>6 DEF QueueType, Windows, Entries, Sizes, NegSizes
    <2>9. SameButSizes([q EXCEPT !.size_min = a, !.size_max = b], q)
      BY DEF SameButSizes, QueueType
    <2>10. Jitter([q EXCEPT !.size_min = a, !.size_max = b])
      BY <2>1, <2>5, <2>6 DEF Jitter, QueueType
    <2> QED
      BY <2>7, <2>8, <2>9, <2>10
  <1> QED
    BY <1>2, <1>3

\* The jitter that the playback speed is decided by.
LEMMA JitterFacts ==
  ASSUME NEW q, QueueOK(q)
  PROVE  Deviation(q) >= 0 /\ GetMin(q.size_min) \in Nat
  <1>1. q.size_min \in Windows(Sizes) /\ q.size_max \in Windows(NegSizes)
    BY QueueFields DEF QueueOK, Base
  <1>2. PICK v \in Sizes : Sorted(q.size_min, v) /\ Sorted(q.size_max, -v)
    BY DEF QueueOK, Jitter
  <1>3. GetMin(q.size_min) \in Sizes /\ GetMin(q.size_min) <= v
    BY <1>1, <1>2, SizeSets, GetMinFacts
  <1>4. GetMin(q.size_max) \in NegSizes /\ GetMin(q.size_max) <= -v
    BY <1>1, <1>2, SizeSets, GetMinFacts
  <1>5. \A a \in Sizes, b \in NegSizes, x \in Sizes : a <= x /\ b <= -x => (-b) - a >= 0 /\ a \in Nat
    BY AudioAssumption DEF Sizes, NegSizes
  <1> QED
    BY <1>2, <1>3, <1>4, <1>5 DEF Deviation, Reversed

\* add_packet
LEMMA StillBufferingType ==
  ASSUME NEW q \in QueueType, NEW p \in Sampled
  PROVE  StillBuffering(q, p) \in Nat
  <1>0. \A a, b \in Int : a \in Nat => SatSub(a, b) \in Int /\ (b \in Nat => SatSub(a, b) \in Nat)
    BY DEF SatSub
  <1>1. p.id \in Ids /\ p.samples \in Nat
    BY DEF Sampled, Ids
  <1>2. q.buffering_samples \in Nat /\ q.last_packet_samples \in Nat
    BY QueueFields
  <1> DEFINE last == IF q.packet_buffer = <<>> THEN p.id ELSE (Last(q.packet_buffer).id + 1) % IdCount
  <1>3. last \in Nat
    <2>1. CASE q.packet_buffer = <<>>
      BY <1>1, <2>1, AudioAssumption DEF Ids
    <2>2. CASE q.packet_buffer # <<>>
      <3>1. PICK b \in Seq(Sampled) : b = q.packet_buffer
        BY QueueFields
      <3>2. b[Len(b)].id \in Ids
        BY <2>2, <3>1, SampledIds
      <3> QED
        BY <2>2, <3>1, <3>2, AudioAssumption DEF Ids, Last
    <2> QED
      BY <2>1, <2>2
  <1> HIDE DEF last
  <1>4. SatSub(q.buffering_samples, p.samples) \in Nat
    <2>1. PICK x \in Nat : x = q.buffering_samples
      BY <1>2
    <2>2. PICK y \in Nat : y = p.samples
      BY <1>1
    <2>3. SatSub(x, y) \in Nat
      BY DEF SatSub
    <2> QED
      BY <2>1, <2>2, <2>3
  <1>5. ASSUME last <= p.id PROVE (p.id - last) * q.last_packet_samples \in Nat
    <2>1. p.id - last \in Nat
      BY <1>1, <1>3, <1>5, AudioAssumption DEF Ids
    <2> QED
      BY <1>2, <2>1
  <1>6. StillBuffering(q, p) =
          IF last <= p.id
          THEN SatSub(SatSub(q.buffering_samples, p.samples),
                      (p.id - last) * q.last_packet_samples)
          ELSE q.buffering_samples
    BY DEF StillBuffering, last
  <1>7. last <= p.id => SatSub(SatSub(q.buffering_samples, p.samples),
                               (p.id - last) * q.last_packet_samples) \in Nat
    BY <1>0, <1>4, <1>5
  <1> QED
    BY <1>2, <1>6, <1>7

\* add_packet: what it leaves alone, and how the buffer changes.
LEMMA AddPacketFacts ==
  ASSUME NEW q, QueueOK(q), NEW p \in Sampled
  PROVE  /\ QueueOK(AddPacket(q, p))
         /\ AddPacket(q, p).next_id = q.next_id /\ AddPacket(q, p).heard = q.heard
         /\ \/ AddPacket(q, p) = q
            \/ /\ ~TooLate(q, p) /\ ~Duplicate(q, p)
               /\ AddPacket(q, p).packet_buffer =
                    InsertAt(q.packet_buffer, InsertPos(q, p) + 1, p)
  <1>1. CASE QueueFull(q) \/ p.samples > MaxBufferSize \/ TooLate(q, p) \/ Duplicate(q, p)
    BY <1>1 DEF AddPacket
  <1>2. CASE ~(QueueFull(q) \/ p.samples > MaxBufferSize \/ TooLate(q, p) \/ Duplicate(q, p))
    <2>1. PICK b : b = InsertAt(q.packet_buffer, InsertPos(q, p) + 1, p)
      OBVIOUS
    <2>2. PICK n : n = StillBuffering(q, p)
      OBVIOUS
    <2>3. AddPacket(q, p) = [q EXCEPT !.packet_buffer = b,
                                     !.packet_buffer_samples = @ + p.samples,
                                     !.buffering_samples = n]
      BY <1>2, <2>1, <2>2 DEF AddPacket
    <2>4. q \in QueueType /\ q.packet_buffer \in Seq(Sampled) /\ q.next_id \in Ids
          /\ Ordered(q.packet_buffer, q.next_id) /\ q.packet_buffer_samples \in Nat
          /\ q.packet_buffer_samples = SumSamples(q.packet_buffer)
      BY QueueFields DEF QueueOK, Base
    <2>5. InsertPos(q, p) + 1 \in 1 .. Len(q.packet_buffer) + 1
      <3>1. InsertPos(q, p) \in 0 .. Len(q.packet_buffer)
        BY <1>2, <2>4, InsertPosFacts
      <3>2. Len(q.packet_buffer) \in Nat
        BY <2>4, SampledIds
      <3> QED
        BY <3>1, <3>2
    <2>6. b \in Seq(Sampled)
      BY <2>1, <2>4, <2>5, InsertFacts
    <2>7. SumSamples(b) = q.packet_buffer_samples + p.samples
      BY <2>1, <2>4, <2>5, SumInsert
    <2>8. Ordered(b, q.next_id)
      BY <1>2, <2>1, <2>4, OrderedInsert
    <2>9. n \in Nat /\ p.samples \in Nat
      BY <2>2, <2>4, StillBufferingType DEF Sampled
    <2>10. PICK r : r = AddPacket(q, p)
      OBVIOUS
    <2>11. /\ r \in QueueType /\ r.packet_buffer = b /\ r.next_id = q.next_id
           /\ r.packet_buffer_samples = q.packet_buffer_samples + p.samples
           /\ r.size_min = q.size_min /\ r.size_max = q.size_max /\ r.heard = q.heard
      <3>1. PICK m \in Nat : m = q.packet_buffer_samples + p.samples
        BY <2>4, <2>9
      <3>2. r = [q EXCEPT !.packet_buffer = b, !.packet_buffer_samples = m,
                          !.buffering_samples = n]
        BY <2>3, <2>10, <3>1
      <3>3. [q EXCEPT !.packet_buffer = b, !.packet_buffer_samples = m,
                      !.buffering_samples = n] \in QueueType
        BY <2>4, <2>6, <2>9 DEF QueueType, Sampled, Ids
      <3>4. /\ r.packet_buffer = b /\ r.next_id = q.next_id /\ r.packet_buffer_samples = m
            /\ r.size_min = q.size_min /\ r.size_max = q.size_max /\ r.heard = q.heard
        BY <2>4, <3>2 DEF QueueType
      <3> QED
        BY <3>1, <3>2, <3>3, <3>4
    <2>12. Base(r)
      BY <2>7, <2>8, <2>11 DEF Base
    <2>13. Jitter(r)
      BY <2>11 DEF Jitter, QueueOK
    <2> QED
      BY <1>2, <2>1, <2>10, <2>11, <2>12, <2>13 DEF QueueOK
  <1> QED
    BY <1>1, <1>2

\* AudioQueue::new
LEMMA NewQueueFacts ==
  ASSUME NEW p \in Sampled
  PROVE  /\ QueueOK(NewQueue(p)) /\ NewQueue(p).next_id = p.id /\ NewQueue(p).heard = <<>>
         /\ NewQueue(p).packet_buffer \in {<<>>, <<p>>}
  <1> DEFINE q == [next_id |-> p.id, packet_buffer |-> <<>>,
                   packet_buffer_samples |-> 0, decoded |-> 0, decoded_pos |-> 0,
                   last_packet_samples |-> p.samples * ChannelNum,
                   packet_loss_num |-> 0, buffering_samples |-> 0,
                   size_min |-> EmptyWindow, size_max |-> EmptyWindow,
                   buffered_for_samples |-> 0, heard |-> <<>>]
             r == AddBufferSize(q, 0)
  <1>1. p.id \in Ids /\ p.samples \in Nat
    BY DEF Sampled, Ids
  <1>2. p.samples * ChannelNum \in Nat
    BY <1>1, AudioAssumption
  <1>3. 0 \in 0 .. (TimeCount - 1)
    BY WindowAssumption
  <1>4. \A S : <<>> \in Seq(S)
    BY EmptySeq
  <1>5. EmptyWindow \in Windows(Sizes) /\ EmptyWindow \in Windows(NegSizes)
        /\ EmptyWindow.queue = <<>>
    BY <1>3, <1>4 DEF EmptyWindow, Windows
  <1>6. q \in QueueType
    BY <1>1, <1>2, <1>4, <1>5 DEF QueueType, Ids, Windows, Entries, Sizes, NegSizes
  <1>7. r \in QueueType /\ Jitter(r) /\ SameButSizes(r, q)
    <2>1. q.size_min.queue = <<>> /\ q.size_max.queue = <<>>
      BY <1>5
    <2> HIDE DEF q
    <2> QED
      BY <1>6, <2>1, AddBufferSizeFacts
  <1>8. r.next_id = p.id /\ r.packet_buffer = <<>> /\ r.packet_buffer_samples = 0 /\ r.heard = <<>>
    BY <1>7 DEF SameButSizes
  <1>9. NewQueue(p) = AddPacket(r, p)
    BY DEF NewQueue
  <1> HIDE DEF q, r
  <1>10. QueueOK(r)
    <2>1. SumSamples(<<>>) = 0
      BY <1>4, SumType
    <2> QED
      BY <1>7, <1>8, <2>1, OrderedEmpty DEF QueueOK, Base
  <1>11. /\ QueueOK(NewQueue(p)) /\ NewQueue(p).next_id = p.id /\ NewQueue(p).heard = <<>>
         /\ \/ NewQueue(p) = r
            \/ ~TooLate(r, p) /\ NewQueue(p).packet_buffer = InsertAt(<<>>, InsertPos(r, p) + 1, p)
    BY <1>8, <1>9, <1>10, AddPacketFacts
  <1>12. ASSUME ~TooLate(r, p) PROVE InsertAt(<<>>, InsertPos(r, p) + 1, p) = <<p>>
    <2>1. InsertPos(r, p) \in 0 .. Len(r.packet_buffer)
      BY <1>4, <1>8, <1>1, <1>12, OrderedEmpty, InsertPosFacts
    <2>2. InsertPos(r, p) + 1 = 1
      BY <1>8, <2>1, EmptySeq
    <2>3. InsertAt(<<>>, 1, p) = SubSeq(<<>>, 1, 1 - 1) \o <<p>> \o SubSeq(<<>>, 1, Len(<<>>))
      BY DEF InsertAt
    <2>4. SubSeq(<<>>, 1, 1 - 1) = <<>> /\ SubSeq(<<>>, 1, Len(<<>>)) = <<>>
      BY SubSeqEmpty, EmptySeq
    <2>5. <<>> \o <<p>> = <<p>> /\ <<p>> \o <<>> = <<p>>
      OBVIOUS
    <2> QED
      BY <2>2, <2>3, <2>4, <2>5
  <1> QED
    BY <1>8, <1>11, <1>12

\* Taking the front packet out.
LEMMA PoppedFacts ==
  ASSUME NEW q, QueueOK(q), q.packet_buffer # <<>>
  PROVE  /\ QueueOK(Popped(q)) /\ Popped(q).heard = q.heard
         /\ Popped(q).packet_buffer = Tail(q.packet_buffer)
         /\ Popped(q).next_id = (q.next_id + 1) % IdCount
  <1>1. /\ q \in QueueType /\ q.packet_buffer \in Seq(Sampled) /\ q.next_id \in Ids
        /\ Ordered(q.packet_buffer, q.next_id) /\ q.packet_buffer_samples \in Nat
        /\ q.packet_buffer_samples = SumSamples(q.packet_buffer)
    BY QueueFields DEF QueueOK, Base
  <1>2. PICK b : b = Tail(q.packet_buffer)
    OBVIOUS
  <1>3. PICK c : c = (q.next_id + 1) % IdCount
    OBVIOUS
  <1>4. b \in Seq(Sampled) /\ Ordered(b, c) /\ Head(q.packet_buffer) \in Sampled
    BY <1>1, <1>2, <1>3, OrderedTail
  <1>5. c \in Ids
    BY <1>1, <1>3, DistanceNext
  <1>6. SumSamples(q.packet_buffer) = SumSamples(b) + Head(q.packet_buffer).samples
    BY <1>1, <1>2, SumFront
  <1>7. SumSamples(b) \in Nat
    BY <1>4, SumType
  <1>8. PICK m \in Nat : m = SumSamples(b)
    BY <1>7
  <1>9. m = q.packet_buffer_samples - Head(q.packet_buffer).samples
    <2>1. PICK h \in Nat : h = Head(q.packet_buffer).samples
      BY <1>4 DEF Sampled
    <2> QED
      BY <1>1, <1>6, <1>8, <2>1
  <1>10. Popped(q) = [q EXCEPT !.packet_buffer = b, !.packet_buffer_samples = m, !.next_id = c]
    BY <1>2, <1>3, <1>9 DEF Popped
  <1>11. PICK r : r = Popped(q)
    OBVIOUS
  <1>12. [q EXCEPT !.packet_buffer = b, !.packet_buffer_samples = m, !.next_id = c] \in QueueType
    BY <1>1, <1>4, <1>5 DEF QueueType, Sampled, Ids
  <1>13. /\ r.packet_buffer = b /\ r.next_id = c /\ r.packet_buffer_samples = m
         /\ r.size_min = q.size_min /\ r.size_max = q.size_max /\ r.heard = q.heard
    BY <1>1, <1>10, <1>11 DEF QueueType
  <1>14. Base(r)
    BY <1>4, <1>8, <1>10, <1>11, <1>12, <1>13 DEF Base
  <1>15. Jitter(r)
    BY <1>13 DEF Jitter, QueueOK
  <1> QED
    BY <1>2, <1>3, <1>11, <1>13, <1>14, <1>15 DEF QueueOK

\* Putting a packet that is not due yet back.
LEMMA PushedFrontFacts ==
  ASSUME NEW q, QueueOK(q), NEW p \in Sampled, Ordered(<<p>> \o q.packet_buffer, q.next_id)
  PROVE  /\ QueueOK(PushedFront(q, p)) /\ PushedFront(q, p).heard = q.heard
         /\ PushedFront(q, p).packet_buffer = <<p>> \o q.packet_buffer
         /\ PushedFront(q, p).next_id = q.next_id
         /\ PushedFront(q, p).decoded = q.decoded
         /\ PushedFront(q, p).last_packet_samples = q.last_packet_samples
  <1>1. /\ q \in QueueType /\ q.packet_buffer \in Seq(Sampled)
        /\ q.packet_buffer_samples \in Nat /\ p.samples \in Nat
        /\ q.packet_buffer_samples = SumSamples(q.packet_buffer)
    BY QueueFields DEF QueueOK, Base, Sampled
  <1>2. PICK b : b = <<p>> \o q.packet_buffer
    OBVIOUS
  <1>3. b \in Seq(Sampled)
    BY <1>1, <1>2
  <1>4. PICK m \in Nat : m = q.packet_buffer_samples + p.samples
    BY <1>1
  <1>5. m = SumSamples(b)
    BY <1>1, <1>2, <1>4, SumFront
  <1>6. PushedFront(q, p) = [q EXCEPT !.packet_buffer = b, !.packet_buffer_samples = m]
    BY <1>2, <1>4 DEF PushedFront
  <1>7. PICK r : r = PushedFront(q, p)
    OBVIOUS
  <1>8. [q EXCEPT !.packet_buffer = b, !.packet_buffer_samples = m] \in QueueType
    BY <1>1, <1>3 DEF QueueType, Sampled
  <1>9. /\ r.packet_buffer = b /\ r.next_id = q.next_id /\ r.packet_buffer_samples = m
        /\ r.size_min = q.size_min /\ r.size_max = q.size_max /\ r.heard = q.heard
        /\ r.decoded = q.decoded /\ r.last_packet_samples = q.last_packet_samples
    BY <1>1, <1>6, <1>7 DEF QueueType
  <1>10. Base(r)
    BY <1>2, <1>5, <1>6, <1>7, <1>8, <1>9 DEF Base
  <1>11. Jitter(r)
    BY <1>9 DEF Jitter, QueueOK
  <1> QED
    BY <1>2, <1>7, <1>9, <1>10, <1>11 DEF QueueOK

\* The size that decode_packet adds to the windows is a number: no id between
\* the next one and the last one occurs twice.
LEMMA WaitingFacts ==
  ASSUME NEW q, Base(q)
  PROVE  WaitingSamples(q) \in Nat
  <1>1. /\ q.packet_buffer \in Seq(Sampled) /\ q.next_id \in Ids
        /\ Ordered(q.packet_buffer, q.next_id)
        /\ q.packet_buffer_samples \in Nat /\ q.last_packet_samples \in Nat
    BY QueueFields DEF Base
  <1>2. CASE q.packet_buffer = <<>>
    BY <1>1, <1>2 DEF WaitingSamples
  <1>3. CASE q.packet_buffer # <<>>
    <2>1. PICK n \in Nat : n = Distance(q.packet_buffer[Len(q.packet_buffer)].id, q.next_id)
                               + 1 - Len(q.packet_buffer)
      BY <1>1, <1>3, OrderedSpread
    <2>2. n * q.last_packet_samples \in Nat
      BY <1>1
    <2>3. WaitingSamples(q) = q.packet_buffer_samples + n * q.last_packet_samples
      BY <1>3, <2>1 DEF WaitingSamples, Last
    <2> QED
      BY <1>1, <2>2, <2>3
  <1> QED
    BY <1>2, <1>3

LEMMA ScaledDown ==
  ASSUME NEW n \in Nat, NEW k \in Nat \ {0}, NEW c \in Nat
  PROVE  n \div k \in Nat /\ (n \div k) * c <= n * c /\ (n \div k) * c \in Nat
  <1>1. n \div k \in Nat /\ n \div k <= n
    OBVIOUS
  <1>2. PICK d \in Nat : d = n \div k
    BY <1>1
  <1>3. PICK e \in Nat : n = d + e
    <2>1. n - d \in Nat /\ n = d + (n - d)
      BY <1>1, <1>2
    <2> QED
      BY <2>1
  <1>4. n * c = d * c + e * c /\ d * c \in Nat /\ e * c \in Nat
    BY <1>3
  <1> QED
    BY <1>1, <1>2, <1>4

\* decode_packet leaves the packets alone; when it works the buffer has at
\* least the samples of the last packet, which speeding up takes from.
LEMMA DecodeFacts ==
  ASSUME NEW q, QueueOK(q), NEW p, NEW play \in {"packet", "fec", "loss"},
         play # "loss" => p \in Sampled, NEW ok \in BOOLEAN
  PROVE  LET r == DecodePacket(q, p, play, ok)
         IN  /\ QueueOK(r) /\ r.packet_buffer = q.packet_buffer /\ r.next_id = q.next_id
             /\ r.heard = IF ok /\ play = "packet" THEN Append(q.heard, p.pos) ELSE q.heard
             /\ ok => r.last_packet_samples * ChannelNum <= r.decoded
  <1>1. /\ q \in QueueType /\ q.last_packet_samples \in Nat /\ q.decoded \in Nat
        /\ q.packet_loss_num \in Nat /\ q.heard \in Seq(Nat)
    BY QueueFields DEF QueueOK, Base
  <1>2. PICK len \in Nat : len = IF play = "loss" THEN q.last_packet_samples ELSE p.samples
    BY <1>1 DEF Sampled
  <1>3. PICK n \in Nat : n = q.packet_loss_num + 1
    BY <1>1
  <1>4. len * ChannelNum \in Nat
    BY AudioAssumption
  <1>5. PICK d \in Nat : d = q.decoded + len * ChannelNum
    BY <1>1, <1>4
  <1>6. len * ChannelNum <= d
    BY <1>1, <1>4, <1>5
  <1>7. PICK begun : begun = [q EXCEPT !.packet_loss_num = n, !.decoded = d]
    OBVIOUS
  <1>8. PICK l \in Nat : l = IF play = "packet" THEN 0 ELSE n
    OBVIOUS
  <1>9. PICK h \in Seq(Nat) : h = IF play = "packet" THEN Append(q.heard, p.pos) ELSE q.heard
    <2>1. ASSUME play = "packet" PROVE p.pos \in Nat
      BY <2>1 DEF Sampled
    <2>2. ASSUME play = "packet" PROVE Append(q.heard, p.pos) \in Seq(Nat)
      BY <1>1, <2>1, <2>2, AppendProperties
    <2> QED
      BY <1>1, <2>2
  <1>10. PICK done : done = [q EXCEPT !.packet_loss_num = l, !.decoded = d,
                                      !.last_packet_samples = len, !.heard = h]
    OBVIOUS
  <1>11. DecodePacket(q, p, play, ok) =
           IF ok THEN AddBufferSize(done, WaitingSamples(done)) ELSE begun
    <2>1. begun.packet_loss_num = n /\ begun.heard = q.heard
      BY <1>1, <1>7 DEF QueueType
    <2>2. done = [begun EXCEPT !.last_packet_samples = len, !.packet_loss_num = l, !.heard = h]
      BY <1>1, <1>7, <1>10 DEF QueueType
    <2>3. begun = [q EXCEPT !.packet_loss_num = @ + 1,
                            !.decoded = @ + (IF play = "loss" THEN q.last_packet_samples
                                             ELSE p.samples) * ChannelNum]
      BY <1>2, <1>3, <1>5, <1>7, Zenon
    <2>4. done = [begun EXCEPT
                    !.last_packet_samples = IF play = "loss" THEN q.last_packet_samples
                                            ELSE p.samples,
                    !.packet_loss_num = IF play = "packet" THEN 0 ELSE @,
                    !.heard = IF play = "packet" THEN Append(@, p.pos) ELSE @]
      BY <1>2, <1>8, <1>9, <2>1, <2>2, Zenon
    <2> QED
      BY <2>3, <2>4, SMT DEF DecodePacket
  <1>12. /\ begun \in QueueType /\ begun.packet_buffer = q.packet_buffer
         /\ begun.next_id = q.next_id /\ begun.heard = q.heard
         /\ begun.packet_buffer_samples = q.packet_buffer_samples
         /\ begun.size_min = q.size_min /\ begun.size_max = q.size_max
    BY <1>1, <1>7 DEF QueueType
  <1>13. done \in QueueType
    BY <1>1, <1>10 DEF QueueType
  <1>14. /\ done.packet_buffer = q.packet_buffer
         /\ done.next_id = q.next_id /\ done.heard = h
         /\ done.packet_buffer_samples = q.packet_buffer_samples
         /\ done.size_min = q.size_min /\ done.size_max = q.size_max
         /\ done.decoded = d /\ done.last_packet_samples = len
    BY <1>1, <1>10 DEF QueueType
  <1>15. QueueOK(begun)
    BY <1>12 DEF QueueOK, Base, Jitter
  <1>16. Base(done) /\ Jitter(done)
    BY <1>13, <1>14 DEF QueueOK, Base, Jitter
  <1>17. PICK s : s = AddBufferSize(done, WaitingSamples(done))
    OBVIOUS
  <1>18. s \in QueueType /\ Jitter(s) /\ SameButSizes(s, done)
    <2>1. WaitingSamples(done) \in Nat
      BY <1>16, WaitingFacts
    <2> QED
      BY <1>13, <1>16, <1>17, <2>1, AddBufferSizeFacts
  <1>19. QueueOK(s)
    BY <1>16, <1>18 DEF QueueOK, Base, SameButSizes
  <1>20. /\ s.packet_buffer = q.packet_buffer /\ s.next_id = q.next_id /\ s.heard = h
         /\ s.decoded = d /\ s.last_packet_samples = len
    BY <1>14, <1>18 DEF SameButSizes
  <1>21. CASE ok
    <2>1. DecodePacket(q, p, play, ok) = s
      BY <1>11, <1>17, <1>21
    <2> QED
      BY <1>6, <1>9, <1>19, <1>20, <1>21, <2>1
  <1>22. CASE ~ok
    <2>1. DecodePacket(q, p, play, ok) = begun
      BY <1>11, <1>22
    <2> QED
      BY <1>12, <1>15, <1>22, <2>1
  <1> QED
    BY <1>21, <1>22

\* What an iteration does to the packets: the front one is taken out and
\* perhaps heard, or stays because it is not due yet.
Stepped(r, q) ==
  \/ /\ q.packet_buffer = <<>> /\ r.packet_buffer = <<>>
     /\ r.next_id = q.next_id /\ r.heard = q.heard
  \/ /\ q.packet_buffer # <<>> /\ r.next_id = (q.next_id + 1) % IdCount
     /\ \/ r.packet_buffer = Tail(q.packet_buffer) /\ r.heard = q.heard
        \/ /\ r.packet_buffer = Tail(q.packet_buffer)
           /\ Head(q.packet_buffer).id = q.next_id
           /\ r.heard = Append(q.heard, Head(q.packet_buffer).pos)
        \/ /\ r.packet_buffer = q.packet_buffer
           /\ Head(q.packet_buffer).id # q.next_id /\ r.heard = q.heard

LEMMA IterationFacts ==
  ASSUME NEW q, QueueOK(q), NEW ok \in BOOLEAN
  PROVE  /\ QueueOK(Iteration(q, ok)) /\ Stepped(Iteration(q, ok), q)
         /\ ok => Iteration(q, ok).last_packet_samples * ChannelNum <= Iteration(q, ok).decoded
  <1>1. /\ q.packet_buffer \in Seq(Sampled) /\ q.next_id \in Ids
        /\ Ordered(q.packet_buffer, q.next_id)
    BY QueueFields DEF QueueOK, Base
  <1>2. PICK r : r = Iteration(q, ok)
    OBVIOUS
  <1>3. CASE q.packet_buffer = <<>>
    <2>1. r = DecodePacket(q, <<>>, "loss", ok)
      BY <1>2, <1>3 DEF Iteration
    <2>2. /\ QueueOK(r) /\ r.packet_buffer = q.packet_buffer /\ r.next_id = q.next_id
          /\ r.heard = q.heard
          /\ ok => r.last_packet_samples * ChannelNum <= r.decoded
      BY <2>1, DecodeFacts
    <2> QED
      BY <1>2, <1>3, <2>2 DEF Stepped
  <1>4. CASE q.packet_buffer # <<>>
    <2>1. PICK p : p = Head(q.packet_buffer)
      OBVIOUS
    <2>2. PICK o : o = Popped(q)
      OBVIOUS
    <2>3. PICK play : play = Play(q)
      OBVIOUS
    <2>4. PICK d : d = DecodePacket(o, p, play, ok)
      OBVIOUS
    <2>5. r = IF play = "packet" \/ ~ok THEN d ELSE PushedFront(d, p)
      BY <1>2, <1>4, <2>1, <2>2, <2>3, <2>4 DEF Iteration
    <2>6. /\ QueueOK(o) /\ o.heard = q.heard /\ o.packet_buffer = Tail(q.packet_buffer)
          /\ o.next_id = (q.next_id + 1) % IdCount
      BY <1>4, <2>2, PoppedFacts
    <2>7. /\ p \in Sampled /\ q.packet_buffer = <<p>> \o Tail(q.packet_buffer)
          /\ p.id # q.next_id => Ordered(q.packet_buffer, (q.next_id + 1) % IdCount)
      BY <1>1, <1>4, <2>1, OrderedTail, HeadTailProperties
    <2>8. play \in {"packet", "fec", "loss"} /\ (play = "packet" <=> p.id = q.next_id)
      BY <1>4, <2>1, <2>3 DEF Play
    <2>9. /\ QueueOK(d) /\ d.packet_buffer = o.packet_buffer /\ d.next_id = o.next_id
          /\ d.heard = IF ok /\ play = "packet" THEN Append(o.heard, p.pos) ELSE o.heard
          /\ ok => d.last_packet_samples * ChannelNum <= d.decoded
      <3>1. LET e == DecodePacket(o, p, play, ok)
            IN  /\ QueueOK(e) /\ e.packet_buffer = o.packet_buffer /\ e.next_id = o.next_id
                /\ e.heard = IF ok /\ play = "packet" THEN Append(o.heard, p.pos) ELSE o.heard
                /\ ok => e.last_packet_samples * ChannelNum <= e.decoded
        BY <2>6, <2>7, <2>8, DecodeFacts
      <3> QED
        BY <2>4, <3>1, Zenon
    <2>10. CASE play = "packet" \/ ~ok
      BY <1>2, <1>4, <2>1, <2>5, <2>6, <2>8, <2>9, <2>10 DEF Stepped
    <2>11. CASE ~(play = "packet" \/ ~ok)
      <3>1. Ordered(<<p>> \o d.packet_buffer, d.next_id)
        BY <2>6, <2>7, <2>8, <2>9, <2>11
      <3>2. r = PushedFront(d, p)
        BY <2>5, <2>11
      <3>3. /\ QueueOK(r) /\ r.heard = d.heard /\ r.packet_buffer = <<p>> \o d.packet_buffer
            /\ r.next_id = d.next_id /\ r.decoded = d.decoded
            /\ r.last_packet_samples = d.last_packet_samples
        BY <2>7, <2>9, <3>1, <3>2, PushedFrontFacts
      <3>4. r.packet_buffer = q.packet_buffer /\ r.heard = q.heard
            /\ r.next_id = (q.next_id + 1) % IdCount
        BY <2>6, <2>7, <2>9, <2>11, <3>3
      <3> QED
        BY <1>2, <1>4, <2>1, <2>8, <2>9, <2>11, <3>3, <3>4 DEF Stepped
    <2> QED
      BY <2>10, <2>11
  <1> QED
    BY <1>3, <1>4

\* What the choice of the playback speed does to the packets.
Cut(r, q) ==
  /\ r.heard = q.heard
  /\ \/ r.packet_buffer = q.packet_buffer /\ r.next_id = q.next_id
     \/ r.packet_buffer = <<>> /\ r.next_id = q.next_id
     \/ \E k \in 1 .. Len(q.packet_buffer) :
          /\ r.packet_buffer = SubSeq(q.packet_buffer, k, Len(q.packet_buffer))
          /\ r.next_id = q.packet_buffer[k].id

LEMMA TruncatedFacts ==
  ASSUME NEW q, QueueOK(q), NEW min \in Nat
  PROVE  QueueOK(Truncated(q, min)) /\ Cut(Truncated(q, min), q)
  <1>1. /\ q \in QueueType /\ q.next_id \in Ids /\ Ordered(q.packet_buffer, q.next_id)
    BY QueueFields DEF QueueOK, Base
  <1>2. PICK b \in Seq(Sampled) : b = q.packet_buffer
    BY QueueFields DEF QueueOK, Base
  <1>3. PICK n \in Nat : n = Len(b)
    BY SampledIds
  <1> DEFINE Back(k) == SubSeq(b, n - k + 1, n)
             S == {0} \cup {k \in 1 .. n : SumSamples(Back(k)) < min + UsualFrameSize}
  <1>4. S \subseteq Nat /\ S # {} /\ \A x \in S : x <= n
    OBVIOUS
  <1>5. PICK keep : keep = Max(S)
    OBVIOUS
  <1>6. keep \in 0 .. n
    <2>1. keep \in S
      <3> HIDE DEF S
      <3> QED
        BY <1>4, <1>5, MaxFacts
    <2> QED
      BY <2>1
  <1>7. PICK s : s = Back(keep)
    OBVIOUS
  <1>8. PICK c : c = IF keep = 0 THEN q.next_id ELSE s[1].id
    OBVIOUS
  <1>9. PICK m : m = SumSamples(s)
    OBVIOUS
  <1>10. Truncated(q, min) = [q EXCEPT !.packet_buffer = s, !.packet_buffer_samples = m,
                                      !.next_id = c]
    BY <1>2, <1>3, <1>5, <1>7, <1>8, <1>9 DEF Truncated
  <1> HIDE DEF S
  <1>11. /\ s \in Seq(Sampled) /\ c \in Ids /\ Ordered(s, c)
         /\ \/ s = <<>> /\ c = q.next_id
            \/ \E k \in 1 .. n : s = SubSeq(b, k, n) /\ c = b[k].id
    <2>1. CASE keep = 0
      <3>1. s = SubSeq(b, n + 1, n)
        BY <1>7, <2>1
      <3>2. s = <<>>
        BY <1>3, <3>1, SubSeqEmpty
      <3> QED
        BY <1>1, <1>8, <2>1, <3>2, OrderedEmpty, EmptySeq
    <2>2. CASE keep # 0
      <3>1. PICK k : k = n - keep + 1
        OBVIOUS
      <3>2. k \in 1 .. Len(b) /\ s = SubSeq(b, k, Len(b)) /\ k \in 1 .. n
        BY <1>3, <1>6, <1>7, <2>2, <3>1
      <3>3. s \in Seq(Sampled) /\ s[1] = b[k] /\ Ordered(s, b[k].id)
        BY <1>1, <1>2, <3>2, OrderedSuffix
      <3>4. c = b[k].id /\ c \in Ids
        BY <1>8, <2>2, <3>2, <3>3, SampledIds
      <3> QED
        BY <1>3, <3>2, <3>3, <3>4
    <2> QED
      BY <2>1, <2>2
  <1>12. m \in Nat
    BY <1>9, <1>11, SumType
  <1>13. PICK r : r = Truncated(q, min)
    OBVIOUS
  <1>14. [q EXCEPT !.packet_buffer = s, !.packet_buffer_samples = m, !.next_id = c] \in QueueType
    BY <1>1, <1>11, <1>12 DEF QueueType, Sampled, Ids
  <1>15. /\ r.packet_buffer = s /\ r.next_id = c /\ r.packet_buffer_samples = m
         /\ r.size_min = q.size_min /\ r.size_max = q.size_max /\ r.heard = q.heard
    BY <1>1, <1>10, <1>13 DEF QueueType
  <1>16. Base(r)
    BY <1>9, <1>10, <1>11, <1>13, <1>14, <1>15 DEF Base
  <1>17. Jitter(r)
    BY <1>15 DEF Jitter, QueueOK
  <1>18. Cut(r, q)
    BY <1>2, <1>3, <1>11, <1>15 DEF Cut
  <1> QED
    BY <1>13, <1>16, <1>17, <1>18 DEF QueueOK

LEMMA AdjustFacts ==
  ASSUME NEW q, QueueOK(q), q.last_packet_samples * ChannelNum <= q.decoded
  PROVE  QueueOK(AdjustSpeed(q)) /\ Cut(AdjustSpeed(q), q)
  <1>1. PICK min \in Nat : min = GetMin(q.size_min)
    BY JitterFacts
  <1>2. /\ q \in QueueType /\ q.last_packet_samples \in Nat /\ q.decoded \in Nat
    BY QueueFields DEF QueueOK, Base
  <1>3. QueueOK(Truncated(q, min)) /\ Cut(Truncated(q, min), q)
    BY <1>1, TruncatedFacts
  <1>4. QueueOK(SpedUp(q)) /\ Cut(SpedUp(q), q)
    <2>1. PICK x \in Nat : x = (q.last_packet_samples \div SpeedChangeSteps) * ChannelNum
                           /\ x <= q.last_packet_samples * ChannelNum
      BY <1>2, ScaledDown, AudioAssumption
    <2>2. q.last_packet_samples * ChannelNum \in Nat
      BY <1>2, AudioAssumption
    <2>3. PICK d \in Nat : d = q.decoded - x
      BY <1>2, <2>1, <2>2
    <2>4. SpedUp(q) = [q EXCEPT !.decoded = d]
      BY <2>1, <2>3 DEF SpedUp
    <2>5. [q EXCEPT !.decoded = d] \in QueueType
      BY <1>2 DEF QueueType
    <2>6. PICK r : r = SpedUp(q)
      OBVIOUS
    <2>7. /\ r.packet_buffer = q.packet_buffer /\ r.next_id = q.next_id /\ r.heard = q.heard
          /\ r.packet_buffer_samples = q.packet_buffer_samples
          /\ r.size_min = q.size_min /\ r.size_max = q.size_max
      BY <1>2, <2>4, <2>6 DEF QueueType
    <2> QED
      BY <2>4, <2>5, <2>6, <2>7 DEF QueueOK, Base, Jitter, Cut
  <1>5. Cut(q, q)
    BY DEF Cut
  <1>6. AdjustSpeed(q) \in {Truncated(q, min), SpedUp(q), q}
    BY <1>1 DEF AdjustSpeed
  <1> QED
    BY <1>3, <1>4, <1>5, <1>6

-----------------------------------------------------------------------------
(* The average of the queues that a new talker buffers.                    *)

FoldBody(f, qs, T) ==
  [S \in SUBSET T |->
     IF S = {} THEN 0
     ELSE GetMin(qs[CHOOSE x \in S : TRUE].size_min) + f[S \ {CHOOSE x \in S : TRUE}]]

\* The fold over a finite set exists and is a number.
LEMMA FoldFacts ==
  ASSUME NEW T, IsFiniteSet(T), NEW qs, \A t \in T : GetMin(qs[t].size_min) \in Nat
  PROVE  /\ \E h : h = FoldBody(h, qs, T)
         /\ \A h : h = FoldBody(h, qs, T) => h[T] \in Nat
  <1> DEFINE V(t) == GetMin(qs[t].size_min)
             pick(S) == CHOOSE x \in S : TRUE
             Upto(k) == {S \in SUBSET T : Cardinality(S) <= k}
             Fits(f, k) == /\ f = [S \in Upto(k) |-> f[S]]
                           /\ \A S \in Upto(k) :
                                f[S] = IF S = {} THEN 0 ELSE V(pick(S)) + f[S \ {pick(S)}]
             Bad == {k \in Nat : ~\E f : Fits(f, k)}
  <1>1. \A S \in SUBSET T : IsFiniteSet(S) /\ Cardinality(S) \in Nat
                            /\ Cardinality(S) <= Cardinality(T)
    BY FS_Subset, FS_CardinalityType
  <1>2. \A S \in SUBSET T : S # {} => /\ pick(S) \in S /\ S \ {pick(S)} \in SUBSET T
                                      /\ Cardinality(S \ {pick(S)}) = Cardinality(S) - 1
    BY <1>1, FS_RemoveElement
  <1>3. \A S \in SUBSET T : Cardinality(S) = 0 <=> S = {}
    BY <1>1, FS_EmptySet
  <1> HIDE DEF V, pick
  <1>4. Bad = {}
    <2>1. ASSUME Bad # {} PROVE FALSE
      <3>1. PICK k \in Bad : \A m \in Bad : k <= m
        <4>1. Bad \subseteq Nat
          OBVIOUS
        <4> HIDE DEF Bad
        <4> QED
          BY <2>1, <4>1, SmallestNumber
      <3>2. CASE k = 0
        <4>1. PICK f : f = [S \in Upto(0) |-> 0]
          OBVIOUS
        <4>2. \A S \in Upto(0) : S = {}
          BY <1>1, <1>3
        <4>3. Fits(f, 0)
          BY <4>1, <4>2
        <4> QED
          BY <3>1, <3>2, <4>3
      <3>3. CASE k # 0
        <4>1. k \in Nat /\ k - 1 \in Nat /\ k - 1 \notin Bad
          <5>1. k \in Nat
            BY <3>1
          <5> HIDE DEF Bad
          <5> QED
            BY <3>1, <3>3, <5>1
        <4>2. PICK g : Fits(g, k - 1)
          BY <4>1
        <4>3. PICK f : f = [S \in Upto(k) |->
                              IF S = {} THEN 0 ELSE V(pick(S)) + g[S \ {pick(S)}]]
          OBVIOUS
        <4>4. \A S \in Upto(k) : S # {} => S \ {pick(S)} \in Upto(k - 1) /\ S \ {pick(S)} \in Upto(k)
          BY <1>1, <1>2, <3>1, <4>1
        <4>5. \A S \in Upto(k - 1) : S \in Upto(k) /\ f[S] = g[S]
          <5>1. \A S \in Upto(k - 1) : S \in Upto(k)
            BY <1>1, <4>1
          <5>2. \A S \in Upto(k - 1) :
                  g[S] = IF S = {} THEN 0 ELSE V(pick(S)) + g[S \ {pick(S)}]
            BY <4>2
          <5> HIDE DEF Upto
          <5> QED
            BY <4>3, <5>1, <5>2
        <4>6. \A S \in Upto(k) :
                f[S] = IF S = {} THEN 0 ELSE V(pick(S)) + f[S \ {pick(S)}]
          BY <4>3, <4>4, <4>5
        <4>7. f = [S \in Upto(k) |-> f[S]]
          BY <4>3
        <4> QED
          BY <3>1, <4>6, <4>7
      <3> QED
        BY <3>2, <3>3
    <2> QED
      BY <2>1
  <1>5. PICK f : Fits(f, Cardinality(T))
    BY <1>1, <1>4
  <1>6. Upto(Cardinality(T)) = SUBSET T
    BY <1>1
  <1>7. f = [S \in SUBSET T |-> IF S = {} THEN 0 ELSE V(pick(S)) + f[S \ {pick(S)}]]
    BY <1>5, <1>6
  <1>8. \E h : h = FoldBody(h, qs, T)
    BY <1>7 DEF FoldBody, V, pick
  <1>9. SUFFICES ASSUME NEW h, h = FoldBody(h, qs, T) PROVE h[T] \in Nat
    BY <1>8
  <1>10. \A S \in SUBSET T : h[S] = IF S = {} THEN 0 ELSE V(pick(S)) + h[S \ {pick(S)}]
    <2>1. h = [S \in SUBSET T |-> IF S = {} THEN 0 ELSE V(pick(S)) + h[S \ {pick(S)}]]
      BY <1>9 DEF FoldBody, V, pick
    <2> QED
      BY <2>1
  <1> DEFINE Worse == {k \in Nat : \E S \in SUBSET T : Cardinality(S) = k /\ h[S] \notin Nat}
  <1>11. Worse = {}
    <2>1. ASSUME Worse # {} PROVE FALSE
      <3>1. PICK k \in Worse : \A m \in Worse : k <= m
        <4>1. Worse \subseteq Nat
          OBVIOUS
        <4> HIDE DEF Worse
        <4> QED
          BY <2>1, <4>1, SmallestNumber
      <3>2. PICK S \in SUBSET T : Cardinality(S) = k /\ h[S] \notin Nat
        BY <3>1
      <3>3. S # {}
        <4>1. {} \in SUBSET T
          OBVIOUS
        <4>2. h[{}] = 0
          BY <1>10, <4>1
        <4> QED
          BY <3>2, <4>2
      <3>4. S \ {pick(S)} \in SUBSET T /\ Cardinality(S \ {pick(S)}) = k - 1 /\ pick(S) \in T
        BY <1>2, <3>2, <3>3
      <3>5. k - 1 \in Nat
        BY <1>1, <1>3, <3>2, <3>3
      <3>6. h[S \ {pick(S)}] \in Nat
        BY <3>1, <3>4, <3>5
      <3>7. V(pick(S)) \in Nat
        BY <3>4 DEF V
      <3> QED
        BY <1>10, <3>2, <3>3, <3>6, <3>7
    <2> QED
      BY <2>1
  <1> QED
    BY <1>1, <1>11

LEMMA AvgFacts ==
  ASSUME IsFiniteSet(Talking), Talking # {},
         \A t \in Talking : GetMin(queues[t].size_min) \in Nat
  PROVE  AvgBufferSamples \in Nat
  <1>1. PICK n \in Nat :
          AvgBufferSamples = UsualFrameSize + n \div Cardinality(Talking)
    <2>1. PICK h : /\ h = FoldBody(h, queues, Talking)
                   /\ AvgBufferSamples = UsualFrameSize + h[Talking] \div Cardinality(Talking)
      <3>1. \E h : h = FoldBody(h, queues, Talking)
        BY FoldFacts
      <3> QED
        BY <3>1 DEF AvgBufferSamples, FoldSet, MapThenFoldSet, FoldBody
    <2>2. h[Talking] \in Nat
      BY <2>1, FoldFacts
    <2> QED
      BY <2>1, <2>2
  <1>2. Cardinality(Talking) \in Nat \ {0}
    BY FS_CardinalityType, FS_EmptySet
  <1>3. n \div Cardinality(Talking) \in Nat
    BY <1>2
  <1> QED
    BY <1>1, <1>3, AudioAssumption

-----------------------------------------------------------------------------
(* The queues of all talkers.                                              *)

Environment ==
  /\ avg_buffer_samples \in Nat
  /\ filling \in [len : Nat, todo : SUBSET Talkers, cur : SUBSET Talkers]
  /\ panicked \in BOOLEAN
  /\ \A t \in Talkers : stream[t] \in Streams[t]
  /\ newest \in [Talkers -> Nat]

SoundInv ==
  /\ Environment
  /\ Talking \subseteq Talkers
  /\ \A t \in Talking : QueueOK(queues[t])

\* How a step that plays changes the packets of a queue.
Played(r, q) ==
  \/ r.packet_buffer = q.packet_buffer /\ r.next_id = q.next_id /\ r.heard = q.heard
  \/ Stepped(r, q)
  \/ \E d : QueueOK(d) /\ Stepped(d, q) /\ Cut(r, d)

\* How a step that delivers packet n of talker t changes its queue.
Arrived(t, n) ==
  /\ n \in DOMAIN stream[t] /\ n + Lag >= newest[t]
  /\ newest'[t] = IF n > newest[t] THEN n ELSE newest[t]
  /\ ~Unsupported(Packet(t, n))
  /\ \/ t \in Talking /\ queues'[t] = AddPacket(queues[t], Packet(t, n))
     \/ /\ t \notin Talking /\ queues'[t].next_id = Packet(t, n).id /\ queues'[t].heard = <<>>
        /\ queues'[t].packet_buffer \in {<<>>, <<Packet(t, n)>>}

Outcome(t) ==
  \/ t \in Talking /\ newest'[t] >= newest[t] /\ Played(queues'[t], queues[t])
  \/ \E n \in Nat : Arrived(t, n)

LEMMA PacketType ==
  ASSUME Environment, NEW t \in Talkers, NEW n \in DOMAIN stream[t], ~Unsupported(Packet(t, n))
  PROVE  /\ n \in Nat \ {0} /\ n <= Len(stream[t]) /\ Packet(t, n) \in Sampled
         /\ Packet(t, n).pos = n /\ Packet(t, n).id = (FirstId + n) % IdCount
  <1>1. stream[t] \in Seq(Int)
    BY AudioAssumption DEF Environment
  <1>2. n \in 1 .. Len(stream[t]) /\ Len(stream[t]) \in Nat /\ stream[t][n] \in Int
    BY <1>1, ElementOfSeq, LenProperties
  <1>3. stream[t][n] \in Nat
    BY <1>2 DEF Unsupported, Packet
  <1>4. (FirstId + n) % IdCount \in 0 .. (IdCount - 1)
    BY <1>2, AudioAssumption
  <1> QED
    BY <1>2, <1>3, <1>4 DEF Packet, Sampled

\* The updates that leave the packets and the windows alone.
Kept(r, q) ==
  /\ r \in QueueType /\ r.packet_buffer = q.packet_buffer /\ r.next_id = q.next_id
  /\ r.packet_buffer_samples = q.packet_buffer_samples /\ r.heard = q.heard
  /\ r.size_min = q.size_min /\ r.size_max = q.size_max

LEMMA KeptFacts ==
  ASSUME NEW q, QueueOK(q), NEW r, Kept(r, q)
  PROVE  QueueOK(r) /\ Played(r, q)
  BY DEF Kept, QueueOK, Base, Jitter, Played

\* A step that changes the queue of one talker.
LEMMA OneQueue ==
  ASSUME SoundInv, NEW t \in Talking, NEW r, QueueOK(r),
         queues' = [queues EXCEPT ![t] = r]
  PROVE  /\ Talking' \subseteq Talkers /\ \A u \in Talking' : QueueOK(queues[u])'
         /\ Talking' = Talking
         /\ \A u \in Talking' : queues'[u] = IF u = t THEN r ELSE queues[u]
  BY DEF SoundInv, Talking

LEMMA PlayedSame ==
  ASSUME NEW q PROVE Played(q, q)
  BY DEF Played

\* What a step of fill_buffer and its callees does when it changes the queue
\* of one talker.
LEMMA OneQueuePlayed ==
  ASSUME SoundInv, NEW t \in Talking, NEW r, QueueOK(r), Played(r, queues[t]),
         queues' = [queues EXCEPT ![t] = r], newest' = newest
  PROVE  /\ Talking' \subseteq Talkers /\ \A u \in Talking' : QueueOK(queues[u])'
         /\ \A u \in Talking' : Outcome(u)
  <1>1. /\ Talking' \subseteq Talkers /\ \A u \in Talking' : QueueOK(queues[u])'
        /\ Talking' = Talking
        /\ \A u \in Talking' : queues'[u] = IF u = t THEN r ELSE queues[u]
    BY OneQueue
  <1>2. ASSUME NEW u \in Talking' PROVE Outcome(u)
    <2>1. Played(queues'[u], queues[u])
      BY <1>1, PlayedSame
    <2>2. newest'[u] >= newest[u] /\ u \in Talking
      BY <1>1 DEF SoundInv, Environment
    <2> QED
      BY <2>1, <2>2 DEF Outcome
  <1> QED
    BY <1>1, <1>2

\* A step that only removes talkers.
LEMMA QueuesRemoved ==
  ASSUME SoundInv, newest' = newest, NEW S \in SUBSET Talking,
         queues' = [t \in S |-> queues[t]]
  PROVE  /\ Talking' \subseteq Talkers /\ \A u \in Talking' : QueueOK(queues[u])'
         /\ \A u \in Talking' : Outcome(u)
  <1>1. Talking' = S /\ \A u \in S : queues'[u] = queues[u]
    BY DEF Talking
  <1>2. ASSUME NEW u \in Talking' PROVE Outcome(u)
    <2>1. Played(queues'[u], queues[u])
      BY <1>1, PlayedSame
    <2>2. newest'[u] >= newest[u] /\ u \in Talking
      BY <1>1 DEF SoundInv, Environment
    <2> QED
      BY <2>1, <2>2 DEF Outcome
  <1> QED
    BY <1>1, <1>2 DEF SoundInv

\* A step that leaves every queue alone.
LEMMA QueuesKept ==
  ASSUME SoundInv, newest' = newest, queues' = queues
  PROVE  /\ Talking' \subseteq Talkers /\ \A u \in Talking' : QueueOK(queues[u])'
         /\ \A u \in Talking' : Outcome(u)
  <1>1. Talking' = Talking
    BY DEF Talking
  <1>2. ASSUME NEW u \in Talking' PROVE Outcome(u)
    <2>1. newest'[u] >= newest[u] /\ u \in Talking
      BY <1>1 DEF SoundInv, Environment
    <2> QED
      BY <2>1, PlayedSame DEF Outcome
  <1> QED
    BY <1>1, <1>2 DEF SoundInv

LEMMA SoundDeliver ==
  ASSUME SoundInv, NEW t \in Talkers, NEW n \in DOMAIN stream[t], Deliver(t, n)
  PROVE  SoundInv' /\ stream' = stream /\ \A u \in Talking' : Outcome(u)
  <1>1. PICK p : p = Packet(t, n)
    OBVIOUS
  <1>2. /\ newest' = [newest EXCEPT ![t] = IF n > @ THEN n ELSE @] /\ n + Lag >= newest[t]
        /\ stream' = stream /\ filling' = filling /\ panicked' = panicked
    BY DEF Deliver
  <1>3. HandlePacket(t, p)
    BY <1>1 DEF Deliver
  <1>4. n \in Nat /\ newest \in [Talkers -> Nat]
    <2>1. stream[t] \in Seq(Int)
      BY AudioAssumption DEF SoundInv, Environment
    <2> QED
      BY <2>1, LenProperties DEF SoundInv, Environment
  <1>5. /\ newest' \in [Talkers -> Nat]
        /\ newest'[t] = IF n > newest[t] THEN n ELSE newest[t]
        /\ \A u \in Talkers : newest'[u] >= newest[u]
    BY <1>2, <1>4
  <1>6. ASSUME NEW u \in Talking', u \in Talking, queues'[u] = queues[u] PROVE Outcome(u)
    BY <1>5, <1>6, PlayedSame DEF Outcome, SoundInv
  <1>7. ASSUME avg_buffer_samples' \in Nat PROVE Environment'
    BY <1>2, <1>5, <1>7 DEF SoundInv, Environment
  <1>8. CASE queues' = queues /\ avg_buffer_samples' = avg_buffer_samples
    <2>1. Talking' = Talking /\ avg_buffer_samples' \in Nat
      BY <1>8 DEF Talking, SoundInv, Environment
    <2> QED
      BY <1>2, <1>6, <1>7, <1>8, <2>1 DEF SoundInv
  <1>9. ASSUME ~Unsupported(p) PROVE p \in Sampled
    BY <1>1, <1>9, PacketType DEF SoundInv
  <1>10. CASE ~Unsupported(p) /\ t \in Talking
    <2>1. PICK r : r = AddPacket(queues[t], p)
      OBVIOUS
    <2>2. queues' = [queues EXCEPT ![t] = r] /\ avg_buffer_samples' = avg_buffer_samples
      BY <1>3, <1>10, <2>1 DEF HandlePacket
    <2>3. QueueOK(r)
      BY <1>9, <1>10, <2>1, AddPacketFacts DEF SoundInv
    <2>4. /\ Talking' \subseteq Talkers /\ \A u \in Talking' : QueueOK(queues[u])'
          /\ Talking' = Talking
          /\ \A u \in Talking' : queues'[u] = IF u = t THEN r ELSE queues[u]
      BY <1>10, <2>2, <2>3, OneQueue
    <2>5. Outcome(t)
      BY <1>1, <1>2, <1>4, <1>5, <1>10, <2>1, <2>4 DEF Outcome, Arrived
    <2>6. \A u \in Talking' : Outcome(u)
      BY <1>6, <2>4, <2>5
    <2>7. avg_buffer_samples' \in Nat
      BY <2>2 DEF SoundInv, Environment
    <2> QED
      BY <1>2, <1>7, <2>4, <2>6, <2>7 DEF SoundInv
  <1>11. CASE ~Unsupported(p) /\ t \notin Talking /\ ~(p.samples = 0 \/ p.samples > MaxBufferSize)
    <2>1. /\ avg_buffer_samples' = IF Talking = {} THEN avg_buffer_samples ELSE AvgBufferSamples
          /\ queues' = [u \in Talking \cup {t} |->
               IF u \in Talking THEN queues[u]
               ELSE [NewQueue(p) EXCEPT !.buffering_samples = avg_buffer_samples']]
      BY <1>3, <1>11 DEF HandlePacket, StartTalking
    <2>2. avg_buffer_samples' \in Nat
      <3>1. IsFiniteSet(Talking)
        BY AudioAssumption, FS_Subset DEF SoundInv
      <3>2. \A u \in Talking : GetMin(queues[u].size_min) \in Nat
        BY JitterFacts DEF SoundInv
      <3>3. Talking # {} => AvgBufferSamples \in Nat
        BY <3>1, <3>2, AvgFacts
      <3> QED
        BY <2>1, <3>3 DEF SoundInv, Environment
    <2>3. PICK q : q = NewQueue(p)
      OBVIOUS
    <2>4. /\ QueueOK(q) /\ q.next_id = p.id /\ q.heard = <<>> /\ q.packet_buffer \in {<<>>, <<p>>}
      BY <1>9, <1>11, <2>3, NewQueueFacts
    <2>5. PICK r : r = [q EXCEPT !.buffering_samples = avg_buffer_samples']
      OBVIOUS
    <2>6. Kept(r, q)
      BY <2>2, <2>4, <2>5 DEF Kept, QueueOK, Base, QueueType
    <2>7. QueueOK(r)
      BY <2>4, <2>6, KeptFacts
    <2>8. queues' = [u \in Talking \cup {t} |-> IF u \in Talking THEN queues[u] ELSE r]
      BY <2>1, <2>3, <2>5
    <2>9. /\ Talking' = Talking \cup {t} /\ queues'[t] = r
          /\ \A u \in Talking : queues'[u] = queues[u]
      BY <1>11, <2>8 DEF Talking
    <2>10. Outcome(t)
      BY <1>1, <1>2, <1>4, <1>5, <1>11, <2>4, <2>6, <2>9 DEF Outcome, Arrived, Kept
    <2>11. \A u \in Talking' : Outcome(u) /\ QueueOK(queues[u])'
      BY <1>6, <2>7, <2>9, <2>10 DEF SoundInv
    <2> QED
      BY <1>2, <1>7, <2>2, <2>9, <2>11 DEF SoundInv
  <1> QED
    BY <1>3, <1>8, <1>10, <1>11 DEF HandlePacket, StartTalking

\* fill_buffer begins or visits a talker.
LEMMA SoundVisit ==
  ASSUME SoundInv, NEW t \in Talking, Visit(t)
  PROVE  SoundInv' /\ stream' = stream /\ \A u \in Talking' : Outcome(u)
  <1>1. /\ stream' = stream /\ newest' = newest /\ avg_buffer_samples' = avg_buffer_samples
    BY DEF Visit, RemoveLost, KeepBuffering, StartPlaying
  <1>2. PICK q : q = queues[t]
    OBVIOUS
  <1>3. QueueOK(q) /\ q \in QueueType
    BY <1>2 DEF SoundInv, QueueOK, Base
  <1>4. filling \in [len : Nat, todo : SUBSET Talkers, cur : SUBSET Talkers] /\ filling.len \in Nat
    BY DEF SoundInv, Environment
  <1>5. t \in Talkers
    BY DEF SoundInv
  <1>6. filling' \in [len : Nat, todo : SUBSET Talkers, cur : SUBSET Talkers]
    <2>1. \/ filling' = filling
          \/ filling' = [filling EXCEPT !.todo = @ \ {t}]
          \/ filling' = [filling EXCEPT !.todo = @ \ {t}, !.cur = {t}]
      BY DEF Visit, RemoveLost, KeepBuffering, StartPlaying
    <2>2. filling.todo \ {t} \in SUBSET Talkers /\ {t} \in SUBSET Talkers
      BY <1>4, <1>5
    <2> QED
      BY <1>4, <2>1, <2>2
  <1>7. panicked' \in BOOLEAN
    BY DEF Visit, RemoveLost, KeepBuffering, StartPlaying, SoundInv, Environment
  <1>8. Environment'
    BY <1>1, <1>6, <1>7 DEF SoundInv, Environment
  <1>9. /\ q.buffered_for_samples \in Nat /\ q.decoded \in Nat /\ q.decoded_pos \in Nat
        /\ q.buffering_samples \in Nat
    BY <1>3, QueueFields
  <1>10. /\ Talking' \subseteq Talkers /\ \A u \in Talking' : QueueOK(queues[u])'
         /\ \A u \in Talking' : Outcome(u)
    <2>1. CASE RemoveLost(t)
      <3>1. queues' = [u \in Talking \ {t} |-> queues[u]]
        BY <2>1 DEF RemoveLost, Restrict
      <3>2. Talking \ {t} \in SUBSET Talking
        OBVIOUS
      <3> QED
        BY <1>1, <3>1, <3>2, QueuesRemoved
    <2>2. CASE KeepBuffering(t)
      <3>1. PICK x \in Nat : x = q.buffered_for_samples + filling.len
        BY <1>4, <1>9
      <3>2. PICK r : r = [q EXCEPT !.buffered_for_samples = x]
        OBVIOUS
      <3>3. queues' = [queues EXCEPT ![t] = r]
        BY <1>2, <2>2, <3>1, <3>2 DEF KeepBuffering
      <3>4. Kept(r, q)
        BY <1>3, <3>2 DEF Kept, QueueType
      <3>5. QueueOK(r) /\ Played(r, q)
        BY <1>3, <3>4, KeptFacts
      <3> QED
        BY <1>1, <1>2, <3>3, <3>5, OneQueuePlayed
    <2>3. CASE StartPlaying(t) /\ q.decoded_pos > q.decoded
      <3>1. queues' = queues
        BY <1>2, <2>3 DEF StartPlaying
      <3> QED
        BY <1>1, <3>1, QueuesKept
    <2>4. CASE StartPlaying(t) /\ ~(q.decoded_pos > q.decoded)
      <3>1. PICK x \in Nat : x = q.decoded - q.decoded_pos
        BY <1>9, <2>4
      <3>2. PICK y \in Nat : y = IF q.buffering_samples > 0 THEN 0 ELSE q.buffered_for_samples
        BY <1>9
      <3>3. PICK r : r = [q EXCEPT !.decoded = x, !.buffering_samples = 0,
                                   !.buffered_for_samples = y]
        OBVIOUS
      <3>4. queues' = [queues EXCEPT ![t] = r]
        <4>1. queues' = [queues EXCEPT
               ![t].decoded = @ - queues[t].decoded_pos,
               ![t].buffering_samples = 0,
               ![t].buffered_for_samples = IF queues[t].buffering_samples > 0 THEN 0 ELSE @]
          BY <1>2, <2>4 DEF StartPlaying
        <4>2. PICK a : a = [queues EXCEPT ![t] = [q EXCEPT !.decoded = x]]
          OBVIOUS
        <4>3. PICK b : b = [queues EXCEPT ![t] = [q EXCEPT !.decoded = x, !.buffering_samples = 0]]
          OBVIOUS
        <4>4. a = [queues EXCEPT ![t].decoded = @ - queues[t].decoded_pos]
          BY <1>2, <3>1, <4>2
        <4>5. b = [a EXCEPT ![t].buffering_samples = 0]
          BY <1>2, <4>2, <4>3 DEF Talking
        <4>6. b[t].buffered_for_samples = q.buffered_for_samples
          BY <1>3, <4>3 DEF Talking, QueueType
        <4>7. [queues EXCEPT ![t] = r] = [b EXCEPT ![t].buffered_for_samples = y]
          BY <1>2, <1>3, <3>3, <4>3 DEF Talking, QueueType
        <4> QED
          BY <1>2, <3>2, <4>1, <4>4, <4>5, <4>6, <4>7
      <3>5. Kept(r, q)
        BY <1>3, <3>3 DEF Kept, QueueType
      <3>6. QueueOK(r) /\ Played(r, q)
        BY <1>3, <3>5, KeptFacts
      <3> QED
        BY <1>1, <1>2, <3>4, <3>6, OneQueuePlayed
    <2> QED
      BY <2>1, <2>2, <2>3, <2>4 DEF Visit
  <1> QED
    BY <1>1, <1>8, <1>10 DEF SoundInv

\* get_next_data for the talker that fill_buffer visits.
LEMMA SoundPlay ==
  ASSUME SoundInv, NEW t \in Talking,
         PlayEnd(t) \/ PlayDone(t) \/ \E ok \in BOOLEAN : PlayNext(t, ok)
  PROVE  SoundInv' /\ stream' = stream /\ \A u \in Talking' : Outcome(u)
  <1>1. /\ stream' = stream /\ newest' = newest /\ avg_buffer_samples' = avg_buffer_samples
    BY DEF PlayEnd, PlayDone, PlayNext
  <1>2. PICK q : q = queues[t]
    OBVIOUS
  <1>3. QueueOK(q) /\ q \in QueueType
    BY <1>2 DEF SoundInv, QueueOK, Base
  <1>4. filling \in [len : Nat, todo : SUBSET Talkers, cur : SUBSET Talkers] /\ filling.len \in Nat
    BY DEF SoundInv, Environment
  <1>5. filling' \in [len : Nat, todo : SUBSET Talkers, cur : SUBSET Talkers]
    <2>1. filling' = filling \/ filling' = [filling EXCEPT !.cur = {}]
      BY DEF PlayEnd, PlayDone, PlayNext
    <2> QED
      BY <1>4, <2>1
  <1>6. panicked' \in BOOLEAN
    BY DEF PlayEnd, PlayDone, PlayNext, SoundInv, Environment
  <1>7. Environment'
    BY <1>1, <1>5, <1>6 DEF SoundInv, Environment
  <1>8. /\ Talking' \subseteq Talkers /\ \A u \in Talking' : QueueOK(queues[u])'
        /\ \A u \in Talking' : Outcome(u)
    <2>1. CASE PlayEnd(t)
      <3>1. queues' = [u \in Talking \ {t} |-> queues[u]]
        BY <2>1 DEF PlayEnd, Restrict
      <3>2. Talking \ {t} \in SUBSET Talking
        OBVIOUS
      <3> QED
        BY <1>1, <3>1, <3>2, QueuesRemoved
    <2>2. CASE PlayDone(t)
      <3>1. PICK x \in Nat : x = filling.len
        BY <1>4
      <3>2. PICK r : r = [q EXCEPT !.decoded_pos = x]
        OBVIOUS
      <3>3. queues' = [queues EXCEPT ![t] = r]
        BY <1>2, <2>2, <3>1, <3>2 DEF PlayDone
      <3>4. Kept(r, q)
        BY <1>3, <3>2 DEF Kept, QueueType
      <3>5. QueueOK(r) /\ Played(r, q)
        BY <1>3, <3>4, KeptFacts
      <3> QED
        BY <1>1, <1>2, <3>3, <3>5, OneQueuePlayed
    <2>3. CASE \E ok \in BOOLEAN : PlayNext(t, ok)
      <3>1. PICK ok \in BOOLEAN : PlayNext(t, ok)
        BY <2>3
      <3>2. CASE AssertionFails(q)
        <4>1. queues' = queues
          BY <1>2, <3>1, <3>2 DEF PlayNext
        <4> QED
          BY <1>1, <4>1, QueuesKept
      <3>3. CASE ~AssertionFails(q)
        <4>1. PICK d : d = Iteration(q, ok)
          OBVIOUS
        <4>2. PICK r : r = IF ok THEN AdjustSpeed(d) ELSE d
          OBVIOUS
        <4>3. queues' = [queues EXCEPT ![t] = r]
          BY <1>2, <3>1, <3>3, <4>1, <4>2 DEF PlayNext
        <4>4. /\ QueueOK(d) /\ Stepped(d, q)
              /\ ok => d.last_packet_samples * ChannelNum <= d.decoded
          BY <1>3, <4>1, IterationFacts
        <4>5. ok => QueueOK(AdjustSpeed(d)) /\ Cut(AdjustSpeed(d), d)
          BY <4>4, AdjustFacts
        <4>6. QueueOK(r) /\ Played(r, q)
          BY <4>2, <4>4, <4>5 DEF Played
        <4> QED
          BY <1>1, <1>2, <4>3, <4>6, OneQueuePlayed
      <3> QED
        BY <3>2, <3>3
    <2> QED
      BY <2>1, <2>2, <2>3
  <1> QED
    BY <1>1, <1>7, <1>8 DEF SoundInv

LEMMA SoundStep ==
  ASSUME SoundInv, [Next]_vars
  PROVE  SoundInv' /\ stream' = stream /\ \A u \in Talking' : Outcome(u)
  <1>1. CASE \E t \in Talkers : \E n \in DOMAIN stream[t] : Deliver(t, n)
    BY <1>1, SoundDeliver
  <1>2. CASE \E len \in BufferLens : BeginFill(len)
    <2>1. PICK len \in BufferLens : BeginFill(len)
      BY <1>2
    <2>2. /\ queues' = queues /\ newest' = newest /\ stream' = stream
          /\ avg_buffer_samples' = avg_buffer_samples /\ panicked' = panicked
          /\ filling' = [len |-> len, todo |-> Talking, cur |-> {}]
      BY <2>1 DEF BeginFill
    <2>3. Environment'
      BY <2>2, AudioAssumption DEF SoundInv, Environment
    <2> QED
      BY <2>2, <2>3, QueuesKept DEF SoundInv
  <1>3. CASE \E t \in Talking : Visit(t)
    BY <1>3, SoundVisit
  <1>4. CASE \E t \in Talking : PlayEnd(t) \/ PlayDone(t) \/ \E ok \in BOOLEAN : PlayNext(t, ok)
    BY <1>4, SoundPlay
  <1>5. CASE Reset
    <2>1. /\ queues' = [t \in {} |-> queues[t]] /\ newest' = newest /\ stream' = stream
          /\ avg_buffer_samples' = avg_buffer_samples /\ panicked' = panicked
          /\ filling' = filling
      BY <1>5 DEF Reset
    <2>2. Environment'
      BY <2>1 DEF SoundInv, Environment
    <2>3. {} \in SUBSET Talking
      OBVIOUS
    <2>4. /\ Talking' \subseteq Talkers /\ \A u \in Talking' : QueueOK(queues[u])'
          /\ \A u \in Talking' : Outcome(u)
      BY <2>1, <2>3, QueuesRemoved
    <2> QED
      BY <2>1, <2>2, <2>4 DEF SoundInv
  <1>6. CASE UNCHANGED vars
    <2>1. /\ queues' = queues /\ newest' = newest /\ stream' = stream
          /\ avg_buffer_samples' = avg_buffer_samples /\ panicked' = panicked
          /\ filling' = filling
      BY <1>6 DEF vars
    <2>2. Environment'
      BY <2>1 DEF SoundInv, Environment
    <2> QED
      BY <2>1, <2>2, QueuesKept DEF SoundInv
  <1> QED
    BY <1>1, <1>2, <1>3, <1>4, <1>5, <1>6 DEF Next, Fill

LEMMA SoundStart ==
  ASSUME Init PROVE SoundInv
  <1>1. Talking = {}
    BY DEF Init, Talking
  <1>2. Environment
    BY DEF Init, Environment
  <1> QED
    BY <1>1, <1>2 DEF SoundInv

LEMMA SoundImplies ==
  ASSUME SoundInv PROVE QueueSound
  <1>1. \A t \in Talking : QueueOK(queues[t])
    BY DEF SoundInv
  <1>2. TypeOK
    BY <1>1 DEF SoundInv, Environment, TypeOK, QueueOK, Base
  <1>3. BufferOrdered
    <2>1. ASSUME NEW t \in Talking
          PROVE  Ordered(queues[t].packet_buffer, queues[t].next_id)
                 /\ DOMAIN queues[t].packet_buffer = 1 .. Len(queues[t].packet_buffer)
      <3>1. queues[t].packet_buffer \in Seq(Sampled)
        BY <1>1, QueueFields DEF QueueOK, Base
      <3> QED
        BY <1>1, <3>1, SampledIds DEF QueueOK, Base
    <2> QED
      BY <2>1 DEF BufferOrdered, Ordered
  <1>4. SamplesCounted
    BY <1>1 DEF SamplesCounted, QueueOK, Base
  <1>5. DeviationFits
    BY <1>1, JitterFacts DEF DeviationFits
  <1> QED
    BY <1>2, <1>3, <1>4, <1>5 DEF QueueSound

\* However packets arrive and whatever the decoder does, the queue of every
\* talker stays sorted without duplicates from the next id on, its count of
\* samples is right, and neither the size of the buffer nor its jitter, which
\* the code computes with unsigned numbers, ever becomes negative.
THEOREM QueuesSound == Spec => []QueueSound
  <1>1. Init => SoundInv
    BY SoundStart
  <1>2. SoundInv /\ [Next]_vars => SoundInv'
    BY SoundStep
  <1>3. SoundInv => QueueSound
    BY SoundImplies
  <1> QED
    BY <1>1, <1>2, <1>3, PTL DEF Spec

-----------------------------------------------------------------------------
(* The order in which packets are heard.                                   *)

\* The 16 bit ids of a stream are not used twice.
ShortStreams == \A t \in Talkers : \A s \in Streams[t] : Len(s) <= IdCount

PosId(n) == (FirstId + n) % IdCount

\* Two ids of packets less than IdCount apart tell how far they are apart.
LEMMA PosDistance ==
  ASSUME NEW n \in Nat, NEW m \in Nat, n - m < IdCount, m - n < IdCount
  PROVE  /\ PosId(n) \in Ids /\ PosId(m) \in Ids
         /\ Distance(PosId(n), PosId(m)) = IF n >= m THEN n - m ELSE n - m + IdCount
  <1>1. IdCount \in Nat /\ IdCount > 0 /\ FirstId \in Nat
    BY AudioAssumption
  <1>2. PosId(n) \in Ids /\ PosId(m) \in Ids
    BY <1>1 DEF PosId, Ids
  <1>3. PICK x \in Int : FirstId + n = IdCount * x + PosId(n)
    <2>1. (FirstId + n) \div IdCount \in Int
      BY <1>1
    <2>2. FirstId + n = IdCount * ((FirstId + n) \div IdCount) + ((FirstId + n) % IdCount)
      BY <1>1
    <2> QED
      BY <2>1, <2>2 DEF PosId
  <1>4. PICK y \in Int : FirstId + m = IdCount * y + PosId(m)
    <2>1. (FirstId + m) \div IdCount \in Int
      BY <1>1
    <2>2. FirstId + m = IdCount * ((FirstId + m) \div IdCount) + ((FirstId + m) % IdCount)
      BY <1>1
    <2> QED
      BY <2>1, <2>2 DEF PosId
  <1>5. PICK d \in Int : d = x - y
    OBVIOUS
  <1>6. n - m = IdCount * d + (PosId(n) - PosId(m))
    <2>1. IdCount * x - IdCount * y = IdCount * d
      BY <1>1, <1>5
    <2>2. IdCount * x \in Int /\ IdCount * y \in Int /\ IdCount * d \in Int
      BY <1>1
    <2>3. PosId(n) \in Int /\ PosId(m) \in Int
      BY <1>1, <1>2 DEF Ids
    <2>4. PICK u \in Int, v \in Int, w \in Int :
            u = IdCount * x /\ v = IdCount * y /\ w = IdCount * d
      BY <2>2
    <2>5. FirstId + n = u + PosId(n) /\ FirstId + m = v + PosId(m) /\ u - v = w
      BY <1>3, <1>4, <2>1, <2>4
    <2>6. n - m = w + (PosId(n) - PosId(m))
      BY <1>1, <2>3, <2>5
    <2> QED
      BY <2>4, <2>6
  <1>7. PosId(n) - PosId(m) < IdCount /\ PosId(m) - PosId(n) < IdCount
        /\ PosId(n) \in Int /\ PosId(m) \in Int
    BY <1>1, <1>2 DEF Ids
  <1>8. d \in {-1, 0, 1}
    <2>1. d >= 2 => IdCount * d >= IdCount * 2
      BY <1>1
    <2>2. d <= -2 => IdCount * d <= -(IdCount * 2)
      BY <1>1
    <2>3. IdCount * d \in Int
      BY <1>1
    <2> QED
      BY <1>1, <1>6, <1>7, <2>1, <2>2, <2>3
  <1>9. Distance(PosId(n), PosId(m)) = IF PosId(n) >= PosId(m) THEN PosId(n) - PosId(m)
                                       ELSE PosId(n) - PosId(m) + IdCount
    BY <1>2, DistanceFacts
  <1>10. IdCount * d = IF d = -1 THEN -IdCount ELSE IF d = 0 THEN 0 ELSE IdCount
    BY <1>1, <1>8
  <1> QED
    BY <1>1, <1>2, <1>6, <1>7, <1>8, <1>9, <1>10

\* The next id is that of the next packet.
LEMMA PosNext ==
  ASSUME NEW n \in Nat
  PROVE  (PosId(n) + 1) % IdCount = PosId(n + 1)
  <1>1. IdCount \in Nat /\ IdCount > 1 /\ FirstId \in Nat
    BY AudioAssumption
  <1>2. PosId(n) \in Ids /\ PosId(n + 1) \in Ids /\ Distance(PosId(n + 1), PosId(n)) = 1
    BY <1>1, PosDistance
  <1>3. ASSUME NEW a \in Ids, NEW b \in Ids, Distance(a, b) = 1 PROVE a = (b + 1) % IdCount
    <2>1. (b + 1) % IdCount \in Ids /\ a # b
      BY <1>3, DistanceNext
    <2>2. Distance(a, (b + 1) % IdCount) = 0
      BY <1>3, <2>1, DistanceNext
    <2> QED
      BY <2>1, <2>2, DistanceNext
  <1> QED
    BY <1>2, <1>3

\* The packet with the next id is np: those that wait are not before it, and
\* those that were heard are before it, in order.
At(q, new, np) ==
  /\ np <= new + 1 /\ q.next_id = PosId(np)
  /\ \A i \in 1 .. Len(q.packet_buffer) :
       LET p == q.packet_buffer[i]
       IN  /\ np <= p.pos /\ p.pos <= new /\ p.pos - np <= MaxBufferPackets
           /\ p.id = PosId(p.pos)
  /\ \A i \in 1 .. Len(q.heard) : q.heard[i] < np
  /\ \A i, j \in 1 .. Len(q.heard) : i < j => q.heard[i] < q.heard[j]

Placed(q, new) == \E np \in Nat \ {0} : At(q, new, np)

\* The order of the buffer is the order of the stream.
LEMMA PosOrder ==
  ASSUME NEW q, QueueOK(q), NEW new \in Nat, NEW np \in Nat \ {0}, At(q, new, np)
  PROVE  LET b == q.packet_buffer
         IN  /\ Len(b) \in Nat
             /\ \A i \in 1 .. Len(b) : b[i].pos \in Nat /\ (b[i].id = q.next_id <=> b[i].pos = np)
             /\ \A i, j \in 1 .. Len(b) : i < j => b[i].pos < b[j].pos
  <1>1. PICK b \in Seq(Sampled) : b = q.packet_buffer
    BY QueueFields DEF QueueOK, Base
  <1>2. Ordered(b, q.next_id) /\ q.next_id = PosId(np)
    BY <1>1 DEF QueueOK, Base, At
  <1>3. Len(b) \in Nat /\ \A i \in 1 .. Len(b) : b[i].pos \in Nat /\ b[i].id \in Ids
    BY SampledIds
  <1>4. ASSUME NEW i \in 1 .. Len(b)
        PROVE  Distance(b[i].id, q.next_id) = b[i].pos - np /\ b[i].pos >= np
    <2>1. PICK n \in Nat : n = b[i].pos
      BY <1>3
    <2>2. n >= np /\ n - np <= MaxBufferPackets /\ b[i].id = PosId(n)
      BY <1>1, <2>1 DEF At
    <2>3. n - np < IdCount /\ np - n < IdCount
      <3>1. MaxBufferPackets \in Nat /\ IdCount \in Nat /\ MaxBufferPackets < IdCount
        BY AudioAssumption
      <3> QED
        BY <2>2, <3>1
    <2> QED
      BY <1>2, <2>1, <2>2, <2>3, PosDistance
  <1>5. ASSUME NEW i \in 1 .. Len(b), NEW j \in 1 .. Len(b), i < j PROVE b[i].pos < b[j].pos
    <2>1. Distance(b[i].id, q.next_id) < Distance(b[j].id, q.next_id)
      BY <1>2, <1>5 DEF Ordered
    <2> QED
      BY <1>3, <1>4, <2>1
  <1>6. ASSUME NEW i \in 1 .. Len(b) PROVE b[i].id = q.next_id <=> b[i].pos = np
    <2>1. q.next_id \in Ids
      BY QueueFields DEF QueueOK, Base
    <2>2. Distance(b[i].id, q.next_id) = 0 <=> b[i].id = q.next_id
      BY <1>3, <2>1, DistanceNext
    <2> QED
      BY <1>3, <1>4, <2>2
  <1> QED
    BY <1>1, <1>3, <1>5, <1>6

\* Playing keeps the order.
LEMMA SteppedPlaced ==
  ASSUME NEW q, QueueOK(q), NEW r, QueueOK(r), Stepped(r, q), NEW new \in Nat, Placed(q, new)
  PROVE  Placed(r, new)
  <1>1. PICK np \in Nat \ {0} : At(q, new, np)
    BY DEF Placed
  <1>2. CASE q.packet_buffer = <<>>
    BY <1>1, <1>2 DEF Stepped, Placed, At
  <1>3. CASE q.packet_buffer # <<>>
    <2>1. PICK b \in Seq(Sampled) : b = q.packet_buffer
      BY QueueFields DEF QueueOK, Base
    <2>2. PICK h \in Seq(Nat) : h = q.heard
      BY QueueFields DEF QueueOK, Base
    <2>3. /\ Len(b) \in Nat
          /\ \A i \in 1 .. Len(b) : b[i].pos \in Nat /\ (b[i].id = q.next_id <=> b[i].pos = np)
          /\ \A i, j \in 1 .. Len(b) : i < j => b[i].pos < b[j].pos
      BY <1>1, <2>1, PosOrder
    <2>4. Len(b) >= 1 /\ 1 \in 1 .. Len(b) /\ Head(b) = b[1] /\ Len(Tail(b)) = Len(b) - 1
          /\ \A i \in 1 .. Len(b) - 1 : Tail(b)[i] = b[i + 1]
      BY <1>3, <2>1, <2>3, HeadTailProperties
    <2>5. \A i \in 1 .. Len(b) : /\ np <= b[i].pos /\ b[i].pos <= new
                                 /\ b[i].pos - np <= MaxBufferPackets /\ b[i].id = PosId(b[i].pos)
      BY <1>1, <2>1 DEF At
    <2>6. r.next_id = PosId(np + 1)
      BY <1>1, <1>3, PosNext DEF Stepped, At
    <2>7. np + 1 \in Nat \ {0} /\ np + 1 <= new + 1
      BY <2>3, <2>4, <2>5
    <2>8. Len(h) \in Nat /\ (\A i \in 1 .. Len(h) : h[i] \in Nat /\ h[i] < np)
          /\ \A i, j \in 1 .. Len(h) : i < j => h[i] < h[j]
      BY <1>1, <2>2, ElementOfSeq, LenProperties DEF At
    <2>9. \A i \in 1 .. Len(b) : i > 1 => np + 1 <= b[i].pos
      <3>1. \A i \in 1 .. Len(b) : i > 1 => b[1].pos < b[i].pos /\ np <= b[1].pos
                                            /\ b[1].pos \in Nat /\ b[i].pos \in Nat
        BY <2>3, <2>4, <2>5
      <3> QED
        BY <3>1
    <2>10. \A i \in 1 .. Len(b) : b[i].pos - (np + 1) <= MaxBufferPackets
      <3>1. MaxBufferPackets \in Nat /\ np \in Nat
        BY <1>1, AudioAssumption DEF At
      <3>2. \A i \in 1 .. Len(b) : b[i].pos \in Nat /\ b[i].pos - np <= MaxBufferPackets
        BY <2>3, <2>5
      <3> QED
        BY <3>1, <3>2
    <2>11. \A i \in 1 .. Len(Tail(b)) :
             LET p == Tail(b)[i]
             IN  /\ np + 1 <= p.pos /\ p.pos <= new /\ p.pos - (np + 1) <= MaxBufferPackets
                 /\ p.id = PosId(p.pos)
      <3>1. ASSUME NEW i \in 1 .. Len(Tail(b))
            PROVE  i + 1 \in 1 .. Len(b) /\ i + 1 > 1 /\ Tail(b)[i] = b[i + 1]
        BY <2>3, <2>4
      <3> QED
        BY <2>5, <2>9, <2>10, <3>1
    <2>12. \A i \in 1 .. Len(h) : h[i] < np + 1
      BY <2>8
    <2>13. CASE r.packet_buffer = Tail(b) /\ r.heard = h
      <3>1. At(r, new, np + 1)
        BY <2>6, <2>7, <2>8, <2>11, <2>12, <2>13 DEF At
      <3> QED
        BY <2>7, <3>1 DEF Placed
    <2>14. CASE r.packet_buffer = Tail(b) /\ b[1].id = q.next_id /\ r.heard = Append(h, b[1].pos)
      <3>1. b[1].pos = np
        BY <2>3, <2>4, <2>14
      <3>2. PICK g : g = Append(h, np)
        OBVIOUS
      <3>3. Len(g) = Len(h) + 1 /\ g[Len(h) + 1] = np /\ \A i \in 1 .. Len(h) : g[i] = h[i]
        BY <3>2, AppendProperties
      <3>4. ASSUME NEW i \in 1 .. Len(g) PROVE g[i] < np + 1
        <4>1. i \in 1 .. Len(h) \/ i = Len(h) + 1
          BY <2>8, <3>3
        <4> QED
          BY <2>12, <3>3, <4>1
      <3>5. ASSUME NEW i \in 1 .. Len(g), NEW j \in 1 .. Len(g), i < j PROVE g[i] < g[j]
        <4>1. i \in 1 .. Len(h) /\ (j \in 1 .. Len(h) \/ j = Len(h) + 1)
          BY <2>8, <3>3, <3>5
        <4> QED
          BY <2>8, <3>3, <3>5, <4>1
      <3>6. At(r, new, np + 1)
        BY <2>6, <2>7, <2>11, <2>14, <3>1, <3>2, <3>4, <3>5 DEF At
      <3> QED
        BY <2>7, <3>6 DEF Placed
    <2>15. CASE r.packet_buffer = b /\ b[1].id # q.next_id /\ r.heard = h
      <3>1. np + 1 <= b[1].pos
        BY <2>3, <2>4, <2>5, <2>15
      <3>2. \A i \in 1 .. Len(b) : np + 1 <= b[i].pos
        BY <2>9, <3>1
      <3>3. At(r, new, np + 1)
        BY <2>5, <2>6, <2>7, <2>8, <2>10, <2>12, <2>15, <3>2 DEF At
      <3> QED
        BY <2>7, <3>3 DEF Placed
    <2> QED
      BY <1>3, <2>1, <2>2, <2>4, <2>13, <2>14, <2>15 DEF Stepped
  <1> QED
    BY <1>2, <1>3

LEMMA CutPlaced ==
  ASSUME NEW q, QueueOK(q), NEW r, Cut(r, q), NEW new \in Nat, Placed(q, new)
  PROVE  Placed(r, new)
  <1>1. PICK np \in Nat \ {0} : At(q, new, np)
    BY DEF Placed
  <1>2. CASE r.packet_buffer = q.packet_buffer /\ r.next_id = q.next_id
    BY <1>1, <1>2 DEF Cut, Placed, At
  <1>3. CASE r.packet_buffer = <<>> /\ r.next_id = q.next_id
    <2>1. Len(r.packet_buffer) = 0
      BY <1>3, EmptySeq
    <2>2. At(r, new, np)
      BY <1>1, <1>3, <2>1 DEF Cut, At
    <2> QED
      BY <2>2 DEF Placed
  <1>4. ASSUME NEW k \in 1 .. Len(q.packet_buffer),
               r.packet_buffer = SubSeq(q.packet_buffer, k, Len(q.packet_buffer)),
               r.next_id = q.packet_buffer[k].id
        PROVE  Placed(r, new)
    <2>1. PICK b \in Seq(Sampled) : b = q.packet_buffer
      BY QueueFields DEF QueueOK, Base
    <2>2. PICK s : s = r.packet_buffer
      OBVIOUS
    <2>3. /\ Len(b) \in Nat
          /\ \A i \in 1 .. Len(b) : b[i].pos \in Nat
          /\ \A i, j \in 1 .. Len(b) : i < j => b[i].pos < b[j].pos
      BY <1>1, <2>1, PosOrder
    <2>4. \A i \in 1 .. Len(b) : /\ np <= b[i].pos /\ b[i].pos <= new
                                 /\ b[i].pos - np <= MaxBufferPackets /\ b[i].id = PosId(b[i].pos)
      BY <1>1, <2>1 DEF At
    <2>5. k \in 1 .. Len(b)
      BY <1>4, <2>1
    <2>6. PICK m \in Nat : m = b[k].pos
      BY <2>3, <2>5
    <2>7. Len(s) = Len(b) - k + 1 /\ \A i \in 1 .. Len(b) - k + 1 : s[i] = b[k + i - 1]
      <3>1. \A i \in k .. Len(b) : b[i] \in Sampled
        BY <2>3, <2>5, SampledIds
      <3> QED
        BY <1>4, <2>1, <2>2, <2>3, <2>5, <3>1, SubSeqProperties
    <2>8. np <= m /\ m <= new + 1 /\ r.next_id = PosId(m) /\ m \in Nat \ {0}
      BY <1>4, <2>1, <2>4, <2>5, <2>6
    <2>9. ASSUME NEW i \in 1 .. Len(s)
          PROVE  /\ m <= s[i].pos /\ s[i].pos <= new /\ s[i].pos - m <= MaxBufferPackets
                 /\ s[i].id = PosId(s[i].pos)
      <3>1. PICK j \in 1 .. Len(b) : s[i] = b[j] /\ k <= j
        <4>1. k + i - 1 \in 1 .. Len(b) /\ s[i] = b[k + i - 1] /\ k <= k + i - 1
          BY <2>3, <2>5, <2>7
        <4> QED
          BY <4>1
      <3>2. m <= b[j].pos
        BY <2>3, <2>5, <2>6, <3>1
      <3>3. b[j].pos - m <= MaxBufferPackets
        BY <2>3, <2>4, <2>8, AudioAssumption
      <3> QED
        BY <2>4, <3>1, <3>2, <3>3
    <2>10. \A i \in 1 .. Len(q.heard) : q.heard[i] < m
      <3>1. \A i \in 1 .. Len(q.heard) : q.heard[i] < np /\ q.heard[i] \in Nat
        <4>1. q.heard \in Seq(Nat)
          BY QueueFields DEF QueueOK, Base
        <4> QED
          BY <1>1, <4>1, ElementOfSeq DEF At
      <3> QED
        BY <2>8, <3>1
    <2>11. At(r, new, m)
      BY <1>1, <2>2, <2>8, <2>9, <2>10 DEF At, Cut
    <2> QED
      BY <2>8, <2>11 DEF Placed
  <1> QED
    BY <1>2, <1>3, <1>4 DEF Cut

\* A packet that is not too late is not before the next one.
LEMMA DeliveredPlaced ==
  ASSUME NEW q, QueueOK(q), NEW new \in Nat, Placed(q, new), NEW p \in Sampled,
         p.id = PosId(p.pos), p.pos \in Nat \ {0}, p.pos <= IdCount, p.pos + Lag >= new,
         NEW later \in Nat, later >= new, later >= p.pos
  PROVE  Placed(AddPacket(q, p), later)
  <1>1. PICK np \in Nat \ {0} : At(q, new, np)
    BY DEF Placed
  <1>2. PICK n \in Nat \ {0} : n = p.pos
    OBVIOUS
  <1>3. PICK b \in Seq(Sampled) : b = q.packet_buffer
    BY QueueFields DEF QueueOK, Base
  <1>4. q.next_id \in Ids /\ Ordered(b, q.next_id)
    BY <1>3, QueueFields DEF QueueOK, Base
  <1>5. /\ Len(b) \in Nat
        /\ \A i \in 1 .. Len(b) : /\ b[i].pos \in Nat /\ np <= b[i].pos /\ b[i].pos <= new
                                  /\ b[i].pos - np <= MaxBufferPackets
                                  /\ b[i].id = PosId(b[i].pos)
    BY <1>1, <1>3, SampledIds DEF At
  <1>6. \A i \in 1 .. Len(b) : b[i].pos <= later
    BY <1>5
  <1>7. np <= later + 1 /\ q.next_id = PosId(np)
    BY <1>1 DEF At
  <1>8. PICK r : r = AddPacket(q, p)
    OBVIOUS
  <1>9. /\ r.next_id = q.next_id /\ r.heard = q.heard
        /\ \/ r = q
           \/ /\ ~TooLate(q, p) /\ ~Duplicate(q, p)
              /\ r.packet_buffer = InsertAt(b, InsertPos(q, p) + 1, p)
    BY <1>3, <1>8, AddPacketFacts
  <1>10. CASE r = q
    <2>1. At(q, later, np)
      BY <1>1, <1>3, <1>5, <1>6, <1>7 DEF At
    <2> QED
      BY <1>8, <1>10, <2>1 DEF Placed
  <1>11. CASE /\ ~TooLate(q, p) /\ ~Duplicate(q, p)
              /\ r.packet_buffer = InsertAt(b, InsertPos(q, p) + 1, p)
    <2>1. /\ MaxBufferPackets \in Nat \ {0} /\ IdCount \in Nat /\ Lag \in Nat
          /\ Lag + 2 * MaxBufferPackets < IdCount
      BY AudioAssumption
    <2>2. n - np < IdCount
      BY <1>2, <2>1
    <2>3. np - n < IdCount /\ np - n <= Lag + 1
      BY <1>1, <1>2, <2>1 DEF At
    <2>4. Distance(p.id, q.next_id) = IF n >= np THEN n - np ELSE n - np + IdCount
      BY <1>2, <1>7, <2>2, <2>3, PosDistance
    <2>5. ~(Distance(p.id, q.next_id) > MaxBufferPackets)
      BY <1>11 DEF TooLate
    <2>6. n >= np /\ n - np <= MaxBufferPackets
      BY <2>1, <2>3, <2>4, <2>5
    <2>7. PICK k : k = InsertPos(q, p) + 1
      OBVIOUS
    <2>8. k \in 1 .. Len(b) + 1
      <3>1. InsertPos(q, p) \in 0 .. Len(b)
        BY <1>3, <1>4, <1>11, InsertPosFacts
      <3> QED
        BY <1>5, <2>7, <3>1
    <2>9. PICK s : s = InsertAt(b, k, p)
      OBVIOUS
    <2>10. Len(s) = Len(b) + 1
           /\ \A i \in 1 .. Len(b) + 1 :
                s[i] = IF i < k THEN b[i] ELSE IF i = k THEN p ELSE b[i - 1]
      <3>1. /\ Len(InsertAt(b, k, p)) = Len(b) + 1
            /\ \A i \in 1 .. Len(b) + 1 :
                 InsertAt(b, k, p)[i] = IF i < k THEN b[i] ELSE IF i = k THEN p ELSE b[i - 1]
        BY <2>8, InsertFacts
      <3> QED
        BY <2>9, <3>1, Zenon
    <2>11. ASSUME NEW i \in 1 .. Len(s)
           PROVE  s[i] = p \/ \E j \in 1 .. Len(b) : s[i] = b[j]
      <3>1. i < k => i \in 1 .. Len(b)
        BY <1>5, <2>8, <2>10
      <3>2. i > k => i - 1 \in 1 .. Len(b)
        BY <1>5, <2>8, <2>10
      <3>3. i < k \/ i = k \/ i > k
        BY <1>5, <2>8, <2>10
      <3> QED
        BY <1>5, <2>8, <2>10, <3>1, <3>2, <3>3
    <2>12. \A i \in 1 .. Len(s) : /\ np <= s[i].pos /\ s[i].pos <= later
                                  /\ s[i].pos - np <= MaxBufferPackets /\ s[i].id = PosId(s[i].pos)
      BY <1>2, <1>5, <1>6, <2>6, <2>11
    <2>13. r.packet_buffer = s
      BY <1>11, <2>7, <2>9
    <2>14. At(r, later, np)
      BY <1>1, <1>7, <1>9, <2>12, <2>13 DEF At
    <2> QED
      BY <1>8, <2>14 DEF Placed
  <1> QED
    BY <1>9, <1>10, <1>11

\* Where every queue stands in the stream of its talker.
OrderInv == SoundInv /\ \A t \in Talking : Placed(queues[t], newest[t])

LEMMA OrderStep ==
  ASSUME ShortStreams, OrderInv, [Next]_vars
  PROVE  OrderInv'
  <1>1. SoundInv
    BY DEF OrderInv
  <1>2. SoundInv' /\ stream' = stream /\ \A u \in Talking' : Outcome(u)
    BY <1>1, SoundStep
  <1>3. \A u \in Talkers : newest[u] \in Nat /\ newest'[u] \in Nat
    BY <1>1, <1>2 DEF SoundInv, Environment
  <1>4. ASSUME NEW t \in Talking' PROVE Placed(queues'[t], newest'[t])
    <2>1. t \in Talkers
      BY <1>2 DEF SoundInv
    <2>2. PICK new \in Nat : new = newest[t]
      BY <1>3, <2>1
    <2>3. PICK later \in Nat : later = newest'[t]
      BY <1>3, <2>1
    <2>4. PICK r : r = queues'[t]
      OBVIOUS
    <2>5. QueueOK(r)
      BY <1>2, <2>4 DEF SoundInv
    <2>6. CASE t \in Talking /\ later >= new /\ Played(r, queues[t])
      <3>1. PICK q : q = queues[t]
        OBVIOUS
      <3>2. QueueOK(q) /\ Placed(q, new)
        BY <2>2, <2>6, <3>1 DEF OrderInv, SoundInv
      <3>3. Placed(r, new)
        <4>1. CASE r.packet_buffer = q.packet_buffer /\ r.next_id = q.next_id /\ r.heard = q.heard
          BY <3>2, <4>1 DEF Placed, At
        <4>2. CASE Stepped(r, q)
          BY <2>5, <3>2, <4>2, SteppedPlaced
        <4>3. CASE \E d : QueueOK(d) /\ Stepped(d, q) /\ Cut(r, d)
          <5>1. PICK d : QueueOK(d) /\ Stepped(d, q) /\ Cut(r, d)
            BY <4>3
          <5>2. Placed(d, new)
            BY <3>2, <5>1, SteppedPlaced
          <5> QED
            BY <5>1, <5>2, CutPlaced
        <4> QED
          BY <2>6, <3>1, <4>1, <4>2, <4>3 DEF Played
      <3>4. Placed(r, later)
        <4>1. PICK np \in Nat \ {0} : At(r, new, np)
          BY <3>3 DEF Placed
        <4>2. \A i \in 1 .. Len(r.packet_buffer) : r.packet_buffer[i].pos \in Nat
          <5>1. r.packet_buffer \in Seq(Sampled)
            BY <2>5, QueueFields DEF QueueOK, Base
          <5> QED
            BY <5>1, SampledIds
        <4>3. At(r, later, np)
          BY <2>6, <4>1, <4>2 DEF At
        <4> QED
          BY <4>3 DEF Placed
      <3> QED
        BY <2>3, <2>4, <3>4
    <2>7. CASE \E n \in Nat : Arrived(t, n)
      <3>1. PICK n \in Nat : Arrived(t, n)
        BY <2>7
      <3>2. PICK p : p = Packet(t, n)
        OBVIOUS
      <3>3. /\ n \in Nat \ {0} /\ n <= Len(stream[t]) /\ p \in Sampled
            /\ p.pos = n /\ p.id = PosId(n)
        BY <1>1, <2>1, <3>1, <3>2, PacketType DEF SoundInv, Arrived, PosId
      <3>4. n <= IdCount
        <4>1. Len(stream[t]) <= IdCount /\ stream[t] \in Seq(Int)
          BY <1>1, <2>1, AudioAssumption DEF SoundInv, Environment, ShortStreams
        <4> QED
          BY <3>3, <4>1, LenProperties, AudioAssumption
      <3>5. n + Lag >= new /\ later = IF n > new THEN n ELSE new
        BY <2>2, <2>3, <3>1 DEF Arrived
      <3>6. later >= new /\ later >= n
        BY <3>5
      <3>7. CASE t \in Talking /\ r = AddPacket(queues[t], p)
        <4>1. QueueOK(queues[t]) /\ Placed(queues[t], new)
          BY <2>2, <3>7 DEF OrderInv, SoundInv
        <4>2. Placed(AddPacket(queues[t], p), later)
          BY <3>3, <3>4, <3>5, <3>6, <4>1, DeliveredPlaced
        <4> QED
          BY <2>3, <2>4, <3>7, <4>2
      <3>8. CASE r.next_id = p.id /\ r.heard = <<>> /\ r.packet_buffer \in {<<>>, <<p>>}
        <4>1. Len(r.heard) = 0
          BY <3>8, EmptySeq
        <4>2. \A i \in 1 .. Len(r.packet_buffer) : r.packet_buffer[i] = p
          BY <3>8, EmptySeq
        <4>3. At(r, later, n)
          BY <3>3, <3>6, <3>8, <4>1, <4>2, AudioAssumption DEF At
        <4> QED
          BY <2>3, <2>4, <3>3, <4>3 DEF Placed
      <3> QED
        BY <2>4, <3>1, <3>2, <3>7, <3>8 DEF Arrived
    <2> QED
      BY <1>2, <2>2, <2>3, <2>4, <2>6, <2>7 DEF Outcome
  <1> QED
    BY <1>2, <1>4 DEF OrderInv

\* When no id is used twice in a stream, a queue plays the packets of its
\* talker in the order they were sent and none of them twice: whatever the
\* network reorders, repeats or loses, and wherever the ids wrap around.
THEOREM HeardInOrder == ShortStreams => (Spec => []PlayedInOrder)
  <1> SUFFICES ASSUME ShortStreams PROVE Spec => []PlayedInOrder
    OBVIOUS
  <1>1. Init => OrderInv
    <2>1. Init => SoundInv
      BY SoundStart
    <2>2. Init => Talking = {}
      BY DEF Init, Talking
    <2> QED
      BY <2>1, <2>2 DEF OrderInv
  <1>2. OrderInv /\ [Next]_vars => OrderInv'
    BY OrderStep
  <1>3. OrderInv => PlayedInOrder
    <2> SUFFICES ASSUME OrderInv, NEW t \in Talking
                 PROVE  LET h == queues[t].heard
                        IN  \A i, j \in DOMAIN h : i < j => h[i] < h[j]
      BY DEF PlayedInOrder
    <2>1. queues[t].heard \in Seq(Nat)
      BY QueueFields DEF OrderInv, SoundInv, QueueOK, Base
    <2>2. DOMAIN queues[t].heard = 1 .. Len(queues[t].heard)
      BY <2>1, LenProperties
    <2>3. PICK np \in Nat \ {0} : At(queues[t], newest[t], np)
      BY DEF OrderInv, Placed
    <2> QED
      BY <2>2, <2>3 DEF At
  <1> QED
    BY <1>1, <1>2, <1>3, PTL DEF Spec

=============================================================================
