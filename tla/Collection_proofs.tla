------------------------- MODULE Collection_proofs -------------------------
(***************************************************************************)
(* Proofs about the way of a reading from a connection's thread through    *)
(* the link's buffer into the store, for any number of threads, any size   *)
(* of buffer and store, any values and timestamps, and any bound on        *)
(* messages, readings and time.                                            *)
(*                                                                         *)
(* That nothing is counted twice is inductive only together with what the  *)
(* threads carry: a reading is in one place, with a thread, in the buffer  *)
(* or in the store, and its number has been given out.                     *)
(***************************************************************************)
EXTENDS Collection, FiniteSetTheorems, SequenceTheorems, TLAPS

Distinct(s) == \A i, j \in 1..Len(s) : s[i].n = s[j].n => i = j

\* The readings a thread carries.
Pending(c) == Readings(carried[c].samples)

Once ==
  /\ Distinct(buf) /\ Distinct(store) /\ \A c \in Conns : Distinct(carried[c].samples)
  /\ Readings(buf) \cap Readings(store) = {}
  /\ \A c \in Conns : Pending(c) \cap (Readings(buf) \cup Readings(store)) = {}
  /\ \A c, d \in Conns : c # d => Pending(c) \cap Pending(d) = {}

Numbered ==
  /\ Readings(buf) \cup Readings(store) \subseteq 1..taken
  /\ \A c \in Conns : Pending(c) \subseteq 1..taken

Newest ==
  newest # 0 =>
    /\ buf # <<>> \/ store # <<>>
    /\ Last(IF buf # <<>> THEN buf ELSE store).n = newest

Inv == CollectionTypeOK /\ Once /\ Numbered /\ Newest

-----------------------------------------------------------------------------
(* Sequences of samples *)

\* b is what is left of s when some of its front is dropped.
Suffix(b, s) ==
  \E k \in Nat : Len(b) = Len(s) - k /\ \A i \in 1..Len(b) : b[i] = s[k + i]

\* deque(maxlen=max) keeps the end of what is appended to it, and all of it
\* if there is room.
LEMMA BoundedFacts ==
  ASSUME NEW S, NEW s \in Seq(S), NEW max \in Nat \ {0}
  PROVE  LET b == Bounded(s, max) IN
         /\ b \in Seq(S) /\ Len(b) <= max
         /\ Suffix(b, s)
         /\ s # <<>> => b # <<>> /\ Last(b) = Last(s)
         /\ Len(s) <= max => b = s
<1> DEFINE k == IF Len(s) > max THEN Len(s) - max ELSE 0
           b == Bounded(s, max)
<1>1. Len(s) \in Nat /\ k \in Nat /\ k <= Len(s) /\ Len(s) - k <= max
  OBVIOUS
<1>2. b = SubSeq(s, k + 1, Len(s))
  <2>1. CASE Len(s) > max
    BY <2>1 DEF Bounded
  <2>2. CASE ~(Len(s) > max)
    BY <2>2 DEF Bounded
  <2> QED
    BY <2>1, <2>2
<1>3. Len(s) > max => k > 0 /\ Len(s) - k > 0
  OBVIOUS
<1>4. ~(Len(s) > max) => k = 0
  OBVIOUS
<1> HIDE DEF k, b
<1>5. /\ b \in Seq(S) /\ Len(b) = Len(s) - k
      /\ \A i \in 1..Len(b) : b[i] = s[k + i]
  BY <1>1, <1>2, SubSeqProperties
<1>6. Len(b) <= max /\ Len(b) \in Nat
  BY <1>1, <1>5
<1>7. ASSUME s # <<>> PROVE b # <<>> /\ Last(b) = Last(s)
  <2>1. Len(s) > 0
    BY <1>7
  <2>2. Len(b) > 0
    BY <1>1, <1>3, <1>4, <1>5, <2>1
  <2>3. k + Len(b) = Len(s) /\ Len(b) \in 1..Len(b)
    BY <1>1, <1>5, <1>6, <2>2
  <2> QED
    BY <1>5, <2>2, <2>3 DEF Last
<1>8. ASSUME Len(s) <= max PROVE b = s
  <2>1. k = 0 /\ Len(b) = Len(s)
    BY <1>1, <1>4, <1>5, <1>8
  <2>2. \A i \in 1..Len(b) : 0 + i = i
    BY <1>6
  <2>3. \A i \in 1..Len(b) : b[i] = s[i]
    BY <1>5, <2>1, <2>2
  <2> QED
    BY <1>5, <2>1, <2>3, SeqEqual
<1> QED
  BY <1>1, <1>5, <1>6, <1>7, <1>8 DEF b, Suffix

\* The same, of the readings in it.
LEMMA BoundedReadings ==
  ASSUME NEW s \in Seq(Sample), NEW max \in Nat \ {0}, Distinct(s)
  PROVE  /\ Distinct(Bounded(s, max))
         /\ Readings(Bounded(s, max)) \subseteq Readings(s)
<1> DEFINE b == Bounded(s, max)
<1>1. PICK k \in Nat : Len(b) = Len(s) - k /\ \A i \in 1..Len(b) : b[i] = s[k + i]
  <2>1. Suffix(b, s)
    BY BoundedFacts
  <2> QED
    BY <2>1 DEF Suffix
<1>2. b \in Seq(Sample)
  BY BoundedFacts
<1> HIDE DEF b
<1>3. Len(b) \in Nat /\ Len(s) \in Nat
  BY <1>2
<1>4. \A i \in 1..Len(b) : k + i \in 1..Len(s)
  BY <1>1, <1>3
<1>5. Distinct(b)
  <2>1. SUFFICES ASSUME NEW i \in 1..Len(b), NEW j \in 1..Len(b), b[i].n = b[j].n
                 PROVE  i = j
    BY DEF Distinct
  <2>2. k + i = k + j
    BY <1>1, <1>4, <2>1 DEF Distinct
  <2> QED
    BY <1>3, <2>2
<1>6. Readings(b) \subseteq Readings(s)
  <2>1. DOMAIN b = 1..Len(b) /\ DOMAIN s = 1..Len(s)
    BY <1>2
  <2> QED
    BY <1>1, <1>4, <2>1 DEF Readings
<1> QED
  BY <1>5, <1>6 DEF b

\* Appending samples with other readings.
LEMMA ConcatReadings ==
  ASSUME NEW s \in Seq(Sample), NEW t \in Seq(Sample)
  PROVE  /\ s \o t \in Seq(Sample)
         /\ Readings(s \o t) = Readings(s) \cup Readings(t)
         /\ Distinct(s) /\ Distinct(t) /\ Readings(s) \cap Readings(t) = {}
              => Distinct(s \o t)
         /\ t # <<>> => s \o t # <<>> /\ Last(s \o t) = Last(t)
         /\ t = <<>> => s \o t = s
<1> DEFINE u == s \o t
<1>1. /\ u \in Seq(Sample) /\ Len(u) = Len(s) + Len(t)
      /\ \A i \in 1..Len(s) : u[i] = s[i]
      /\ \A i \in 1..Len(t) : u[Len(s) + i] = t[i]
  OBVIOUS
<1>2. Len(s) \in Nat /\ Len(t) \in Nat
      /\ DOMAIN s = 1..Len(s) /\ DOMAIN t = 1..Len(t) /\ DOMAIN u = 1..Len(u)
  BY <1>1
<1>9. t = <<>> => u = s
  OBVIOUS
<1> HIDE DEF u
<1>3. \A i \in 1..Len(u) :
        \/ i \in 1..Len(s)
        \/ i - Len(s) \in 1..Len(t) /\ Len(s) + (i - Len(s)) = i
  BY <1>1, <1>2
<1>4. \A i \in 1..Len(s) : i \in 1..Len(u)
  BY <1>1, <1>2
<1>5. \A i \in 1..Len(t) : Len(s) + i \in 1..Len(u)
  BY <1>1, <1>2
<1>6. Readings(u) = Readings(s) \cup Readings(t)
  <2>1. ASSUME NEW v \in Readings(u) PROVE v \in Readings(s) \cup Readings(t)
    <3>1. PICK i \in 1..Len(u) : v = u[i].n
      BY <1>2 DEF Readings
    <3> QED
      BY <1>1, <1>2, <1>3, <3>1, ZenonT(40) DEF Readings
  <2>2. ASSUME NEW v \in Readings(s) PROVE v \in Readings(u)
    BY <1>1, <1>2, <1>4 DEF Readings
  <2>3. ASSUME NEW v \in Readings(t) PROVE v \in Readings(u)
    <3>1. PICK i \in 1..Len(t) : v = t[i].n
      BY <1>2 DEF Readings
    <3> QED
      BY <1>1, <1>2, <1>5, <3>1 DEF Readings
  <2> QED
    BY <2>1, <2>2, <2>3
<1>7. ASSUME Distinct(s), Distinct(t), Readings(s) \cap Readings(t) = {}
      PROVE  Distinct(u)
  <2>0. \A i \in 1..Len(s), j \in 1..Len(t) : s[i].n # t[j].n
    BY <1>2, <1>7 DEF Readings
  <2>1. SUFFICES ASSUME NEW i \in 1..Len(u), NEW j \in 1..Len(u), u[i].n = u[j].n
                 PROVE  i = j
    BY DEF Distinct
  <2>2. CASE i \in 1..Len(s) /\ j \in 1..Len(s)
    BY <1>1, <1>7, <2>1, <2>2 DEF Distinct
  <2>3. CASE i \in 1..Len(s) /\ j \notin 1..Len(s)
    <3>1. j - Len(s) \in 1..Len(t) /\ Len(s) + (j - Len(s)) = j
      BY <1>3, <2>3
    <3>2. u[j] = t[j - Len(s)] /\ u[i] = s[i]
      BY <1>1, <2>3, <3>1
    <3> QED
      BY <2>0, <2>1, <2>3, <3>1, <3>2
  <2>4. CASE i \notin 1..Len(s) /\ j \in 1..Len(s)
    <3>1. i - Len(s) \in 1..Len(t) /\ Len(s) + (i - Len(s)) = i
      BY <1>3, <2>4
    <3>2. u[i] = t[i - Len(s)] /\ u[j] = s[j]
      BY <1>1, <2>4, <3>1
    <3> QED
      BY <2>0, <2>1, <2>4, <3>1, <3>2
  <2>5. CASE i \notin 1..Len(s) /\ j \notin 1..Len(s)
    <3>1. i - Len(s) = j - Len(s)
      <4>1. /\ i - Len(s) \in 1..Len(t) /\ Len(s) + (i - Len(s)) = i
            /\ j - Len(s) \in 1..Len(t) /\ Len(s) + (j - Len(s)) = j
        BY <1>3, <2>5
      <4>2. u[i] = t[i - Len(s)] /\ u[j] = t[j - Len(s)]
        BY <1>1, <4>1
      <4> QED
        BY <1>7, <2>1, <4>1, <4>2 DEF Distinct
    <3> QED
      BY <1>2, <3>1
  <2> QED
    BY <2>2, <2>3, <2>4, <2>5
<1>8. ASSUME t # <<>> PROVE u # <<>> /\ Last(u) = Last(t)
  <2>1. Len(t) # 0
    BY <1>8
  <2>2. Len(t) \in 1..Len(t) /\ Len(u) # 0
    BY <1>1, <1>2, <2>1
  <2> QED
    BY <1>1, <2>2 DEF Last
<1> QED
  BY <1>1, <1>6, <1>7, <1>8, <1>9 DEF u

\* A sequence without repetitions has as many readings as samples.
LEMMA DistinctCount ==
  ASSUME NEW s \in Seq(Sample), Distinct(s)
  PROVE  Cardinality(Readings(s)) = Len(s)
<1> DEFINE f == [i \in 1..Len(s) |-> s[i].n]
<1>1. DOMAIN s = 1..Len(s) /\ Len(s) \in Nat
  OBVIOUS
<1>2. f \in Bijection(1..Len(s), Readings(s))
  <2>1. f \in [1..Len(s) -> Readings(s)]
    BY <1>1 DEF Readings
  <2>2. \A i, j \in 1..Len(s) : f[i] = f[j] => i = j
    BY DEF Distinct
  <2>3. \A v \in Readings(s) : \E i \in 1..Len(s) : f[i] = v
    BY <1>1 DEF Readings
  <2> QED
    BY <2>1, <2>2, <2>3 DEF Bijection, Injection, Surjection, IsInjective
<1>3. IsFiniteSet(1..Len(s)) /\ Cardinality(1..Len(s)) = Len(s)
  <2>1. 1 \in Int /\ Len(s) \in Int
    BY <1>1
  <2>2. /\ IsFiniteSet(1..Len(s))
        /\ Cardinality(1..Len(s)) = IF 1 > Len(s) THEN 0 ELSE Len(s) - 1 + 1
    BY <2>1, FS_Interval
  <2> QED
    BY <1>1, <2>2
<1> QED
  BY <1>2, <1>3, FS_Bijection DEF ExistsBijection

\* One sample.
LEMMA SingleFacts ==
  ASSUME NEW x \in Sample
  PROVE  /\ <<x>> \in Seq(Sample) /\ Distinct(<<x>>) /\ <<x>> # <<>>
         /\ Readings(<<x>>) = {x.n} /\ Last(<<x>>) = x
<1>1. /\ <<x>> \in Seq(Sample) /\ Len(<<x>>) = 1 /\ <<x>>[1] = x
      /\ DOMAIN <<x>> = {1} /\ <<x>> # <<>>
  OBVIOUS
<1>2. \A i, j \in 1..1 : i = j
  OBVIOUS
<1>3. Distinct(<<x>>)
  BY <1>1, <1>2 DEF Distinct
<1>4. Readings(<<x>>) = {x.n}
  BY <1>1 DEF Readings
<1>5. Last(<<x>>) = x
  BY <1>1 DEF Last
<1> QED
  BY <1>1, <1>3, <1>4, <1>5

\* No sample.
LEMMA EmptyFacts ==
  /\ <<>> \in Seq(Sample) /\ Distinct(<<>>)
  /\ Readings(<<>>) = {}
  BY DEF Distinct, Readings

\* What collect takes from the buffer has the last of its samples, if any.
LEMMA KeptFacts ==
  ASSUME NEW new \in Seq(Sample), Distinct(new)
  PROVE  /\ Kept(new) \in Seq(Sample) /\ Distinct(Kept(new))
         /\ Readings(Kept(new)) \subseteq Readings(new)
         /\ new = <<>> => Kept(new) = <<>>
         /\ new # <<>> => Kept(new) # <<>> /\ Last(Kept(new)) = Last(new)
<1>1. CASE Attested /\ new # <<>>
  <2>1. Len(new) \in 1..Len(new) /\ DOMAIN new = 1..Len(new)
    <3>1. Len(new) \in Nat /\ Len(new) # 0
      BY <1>1
    <3> QED
      BY <3>1
  <2>2. Last(new) \in Sample /\ Last(new).n \in Readings(new)
    BY <2>1 DEF Last, Readings
  <2>3. Kept(new) = <<Last(new)>>
    BY <1>1 DEF Kept
  <2> QED
    BY <1>1, <2>2, <2>3, SingleFacts
<1>2. CASE ~(Attested /\ new # <<>>)
  <2>1. Kept(new) = new
    BY <1>2 DEF Kept
  <2> QED
    BY <2>1
<1> QED
  BY <1>1, <1>2

-----------------------------------------------------------------------------
(* Steps *)

\* What a thread carries is a sequence of samples.
LEMMA CarriedFacts ==
  ASSUME CollectionTypeOK, NEW c \in Conns
  PROVE  carried[c].samples \in Seq(Sample)
<1>1. carried[c] \in Message \cup {NoMessage}
  BY DEF CollectionTypeOK
<1>2. CASE carried[c] \in Message
  BY <1>2 DEF Message
<1>3. CASE carried[c] = NoMessage
  BY <1>3, EmptyFacts DEF NoMessage
<1> QED
  BY <1>1, <1>2, <1>3

\* The readings of a message that is taken up have numbers of their own.
LEMMA BatchFacts ==
  ASSUME NEW k \in Nat, NEW m \in Nat, NEW value \in [1..k -> Values],
         NEW ts \in [1..k -> Timestamps], NEW max \in Nat, m + k <= max, max = MaxReading
  PROVE  LET b == [i \in 1..k |-> [n |-> m + i, value |-> value[i], ts |-> ts[i]]] IN
         /\ b \in Seq(Sample) /\ Distinct(b)
         /\ Readings(b) \subseteq (m + 1)..(m + k)
<1> DEFINE b == [i \in 1..k |-> [n |-> m + i, value |-> value[i], ts |-> ts[i]]]
<1>1. \A i \in 1..k : m + i \in 1..MaxReading /\ m + i \in (m + 1)..(m + k)
  OBVIOUS
<1>2. \A i \in 1..k : b[i] \in Sample /\ b[i].n = m + i
  BY <1>1 DEF Sample
<1>3. b \in Seq(Sample) /\ Len(b) = k /\ DOMAIN b = 1..k
  <2>1. b \in [1..k -> Sample]
    BY <1>2
  <2> HIDE DEF b
  <2> QED
    BY <2>1
<1> HIDE DEF b
<1>4. Distinct(b)
  <2> SUFFICES ASSUME NEW i \in 1..k, NEW j \in 1..k, b[i].n = b[j].n PROVE i = j
    BY <1>3 DEF Distinct
  <2>1. m + i = m + j
    BY <1>2
  <2> QED
    BY <2>1
<1>5. Readings(b) \subseteq (m + 1)..(m + k)
  BY <1>1, <1>2, <1>3 DEF Readings
<1> QED
  BY <1>3, <1>4, <1>5 DEF b

\* Readings are taken up: their numbers are new.
LEMMA ParseStep ==
  ASSUME Inv, NEW c \in Conns, Parse(c)
  PROVE  Inv'
<1>0. CollectionTypeOK /\ Once /\ Numbered /\ Newest
  BY DEF Inv
<1>1. PICK k \in 0..MaxBatch, flag \in BOOLEAN :
      \E value \in [1..k -> Values], ts \in [1..k -> Timestamps] :
        /\ taken + k <= MaxReading
        /\ Attested => k = 1 /\ value[1] \in Int /\ ts[1] = now /\ flag
        /\ taken' = taken + k
        /\ carried' = [carried EXCEPT ![c] =
             [samples |-> [i \in 1..k |->
                             [n |-> taken + i, value |-> value[i], ts |-> ts[i]]],
              attested |-> flag]]
  BY Zenon DEF Parse
<1>2. PICK value \in [1..k -> Values], ts \in [1..k -> Timestamps] :
        /\ taken + k <= MaxReading /\ taken' = taken + k
        /\ carried' = [carried EXCEPT ![c] =
             [samples |-> [i \in 1..k |->
                             [n |-> taken + i, value |-> value[i], ts |-> ts[i]]],
              attested |-> flag]]
  BY <1>1, Zenon
<1>3. UNCHANGED <<device_link, now, buf, verdict, store, newest>>
  BY DEF Parse, dataVars
<1> DEFINE b == [i \in 1..k |-> [n |-> taken + i, value |-> value[i], ts |-> ts[i]]]
           m == [samples |-> b, attested |-> flag]
<1>4. taken \in Nat /\ MaxReading \in Nat /\ k \in Nat /\ taken' \in 0..MaxReading
  BY <1>0, <1>2, SizesAssumption DEF CollectionTypeOK
<1>5. /\ b \in Seq(Sample) /\ Distinct(b)
      /\ Readings(b) \subseteq (taken + 1)..(taken + k)
  BY <1>2, <1>4, BatchFacts
<1>6. carried' = [carried EXCEPT ![c] = m]
  BY <1>2
<1> HIDE DEF b
<1>7. m \in Message /\ m.samples = b
  BY <1>5 DEF Message
<1> HIDE DEF m
<1>8. /\ carried' \in [Conns -> Message \cup {NoMessage}]
      /\ carried'[c] = m /\ \A d \in Conns : d # c => carried'[d] = carried[d]
  BY <1>0, <1>6, <1>7 DEF CollectionTypeOK
<1>9. CollectionTypeOK'
  BY <1>0, <1>3, <1>4, <1>8 DEF CollectionTypeOK
<1>10. /\ Readings(buf)' = Readings(buf) /\ Readings(store)' = Readings(store)
       /\ Distinct(buf)' = Distinct(buf) /\ Distinct(store)' = Distinct(store)
  BY <1>3 DEF Readings, Distinct
<1>11. /\ \A d \in Conns : d # c => Pending(d)' = Pending(d)
       /\ Pending(c)' = Readings(b)
  BY <1>7, <1>8 DEF Pending, Readings
<1>12. \A d \in Conns : Distinct(carried[d].samples)'
  BY <1>0, <1>5, <1>7, <1>8 DEF Once, Distinct
<1>13. /\ \A v \in (taken + 1)..(taken + k) : v \notin 1..taken /\ v \in 1..taken'
       /\ \A v \in 1..taken : v \in 1..taken'
  BY <1>2, <1>4
<1>14. Once'
  BY <1>0, <1>5, <1>10, <1>11, <1>12, <1>13 DEF Once, Numbered
<1>15. Numbered'
  BY <1>0, <1>5, <1>10, <1>11, <1>13 DEF Numbered
<1>16. Newest'
  BY <1>0, <1>3 DEF Newest
<1> QED
  BY <1>9, <1>14, <1>15, <1>16 DEF Inv

\* A thread puts what it carries at the end of the buffer.
LEMMA StoreStep ==
  ASSUME Inv, NEW c \in Conns, Store(c)
  PROVE  Inv'
<1>0. CollectionTypeOK /\ Once /\ Numbered /\ Newest
  BY DEF Inv
<1> DEFINE t == carried[c].samples
<1>1. /\ buf' = Bounded(buf \o t, MaxBuffer)
      /\ verdict' \in {"ok", "fail"}
      /\ newest' = IF t = <<>> THEN newest ELSE Last(t).n
      /\ carried' = [carried EXCEPT ![c] = NoMessage]
      /\ UNCHANGED <<device_link, now, taken, store>>
  BY DEF Store
<1>2. t \in Seq(Sample) /\ Distinct(t) /\ Readings(t) = Pending(c)
  BY <1>0, CarriedFacts DEF Pending, Once
<1> HIDE DEF t
<1>4. buf \in Seq(Sample) /\ Len(buf) <= MaxBuffer /\ MaxBuffer \in Nat \ {0}
  BY <1>0, SizesAssumption DEF CollectionTypeOK
<1>5. /\ buf \o t \in Seq(Sample) /\ Distinct(buf \o t)
      /\ Readings(buf \o t) = Readings(buf) \cup Pending(c)
      /\ t # <<>> => buf \o t # <<>> /\ Last(buf \o t) = Last(t)
      /\ t = <<>> => buf \o t = buf
  BY <1>0, <1>2, <1>4, ConcatReadings DEF Once
<1>6. /\ buf' \in Seq(Sample) /\ Len(buf') <= MaxBuffer /\ Distinct(buf)'
      /\ Readings(buf)' \subseteq Readings(buf) \cup Pending(c)
      /\ t # <<>> => buf' # <<>> /\ Last(buf') = Last(t)
      /\ t = <<>> => buf' = buf
  <2> DEFINE u == buf \o t
  <2>1. u \in Seq(Sample) /\ Distinct(u)
    BY <1>5
  <2>2. u # <<>> => Bounded(u, MaxBuffer) # <<>> /\ Last(Bounded(u, MaxBuffer)) = Last(u)
    BY <1>4, <2>1, BoundedFacts
  <2>3. Len(u) <= MaxBuffer => Bounded(u, MaxBuffer) = u
    BY <1>4, <2>1, BoundedFacts
  <2>4. Bounded(u, MaxBuffer) \in Seq(Sample) /\ Len(Bounded(u, MaxBuffer)) <= MaxBuffer
    BY <1>4, <2>1, BoundedFacts
  <2>5. /\ Distinct(Bounded(u, MaxBuffer))
        /\ Readings(Bounded(u, MaxBuffer)) \subseteq Readings(u)
    BY <1>4, <2>1, BoundedReadings
  <2>6. /\ Readings(u) = Readings(buf) \cup Pending(c)
        /\ t # <<>> => u # <<>> /\ Last(u) = Last(t)
        /\ t = <<>> => u = buf
    BY <1>5
  <2>7. buf' = Bounded(u, MaxBuffer)
    BY <1>1
  <2> HIDE DEF u
  <2>8. Distinct(buf') /\ Readings(buf') \subseteq Readings(buf) \cup Pending(c)
    BY <2>5, <2>6, <2>7
  <2>9. Distinct(buf)' /\ Readings(buf)' \subseteq Readings(buf) \cup Pending(c)
    BY <2>8 DEF Distinct, Readings
  <2> QED
    BY <1>4, <2>2, <2>3, <2>4, <2>5, <2>6, <2>7, <2>9
<1>7. /\ carried' \in [Conns -> Message \cup {NoMessage}]
      /\ carried'[c].samples = <<>> /\ \A d \in Conns : d # c => carried'[d] = carried[d]
  BY <1>0, <1>1 DEF CollectionTypeOK, NoMessage
<1>8. /\ Pending(c)' = {} /\ \A d \in Conns : d # c => Pending(d)' = Pending(d)
      /\ Readings(store)' = Readings(store) /\ Distinct(store)' = Distinct(store)
      /\ \A d \in Conns : Distinct(carried[d].samples)'
  <2>1. Readings(carried'[c].samples) = {} /\ Distinct(carried'[c].samples)
    BY <1>7, EmptyFacts
  <2>4. \A d \in Conns : Distinct(carried[d].samples)'
    BY <1>0, <1>7, <2>1 DEF Once, Distinct
  <2>2. \A d \in Conns : d # c => Pending(d)' = Pending(d)
    BY <1>7 DEF Pending, Readings
  <2>3. Pending(c)' = {}
    BY <2>1 DEF Pending, Readings
  <2> QED
    BY <1>1, <2>2, <2>3, <2>4 DEF Readings, Distinct
<1>9. Once'
  BY <1>0, <1>6, <1>8 DEF Once
<1>10. Numbered'
  BY <1>0, <1>1, <1>6, <1>8 DEF Numbered
<1>11. newest' \in 0..MaxReading /\ Newest'
  <2>1. CASE t = <<>>
    BY <1>0, <1>1, <1>6, <2>1 DEF Newest, CollectionTypeOK
  <2>2. CASE t # <<>>
    <3>1. newest' = Last(t).n /\ buf' # <<>> /\ Last(buf') = Last(t)
      BY <1>1, <1>6, <2>2
    <3>2. Last(t) \in Sample
      BY <1>2, <2>2 DEF Last
    <3>3. Last(t).n \in 0..MaxReading
      BY <3>2, SizesAssumption DEF Sample
    <3> QED
      BY <3>1, <3>3 DEF Newest
  <2> QED
    BY <2>1, <2>2
<1>12. CollectionTypeOK'
  BY <1>0, <1>1, <1>6, <1>7, <1>11 DEF CollectionTypeOK
<1> QED
  BY <1>9, <1>10, <1>11, <1>12 DEF Inv

\* collect moves what is in the buffer, or the last of it, to the end of the
\* store.
LEMMA DrainStep ==
  ASSUME Inv, DrainIntoStore, UNCHANGED feedVars
  PROVE  Inv'
<1>0. CollectionTypeOK /\ Once /\ Numbered /\ Newest
  BY DEF Inv
<1> DEFINE t == Kept(buf)
<1>1. /\ buf' = <<>> /\ store' = Bounded(store \o t, MaxPerDevice)
      /\ UNCHANGED <<device_link, now, taken, carried, verdict, newest>>
  BY DEF DrainIntoStore, Drain, feedVars
<1>2. /\ t \in Seq(Sample) /\ Distinct(t)
      /\ Readings(t) \subseteq Readings(buf)
      /\ buf = <<>> => t = <<>>
      /\ buf # <<>> => t # <<>> /\ Last(t) = Last(buf)
  BY <1>0, KeptFacts DEF CollectionTypeOK, Once
<1> HIDE DEF t
<1>3. store \in Seq(Sample) /\ Len(store) <= MaxPerDevice /\ MaxPerDevice \in Nat \ {0}
  BY <1>0, SizesAssumption DEF CollectionTypeOK
<1> DEFINE u == store \o t
<1>4. /\ u \in Seq(Sample) /\ Distinct(u)
      /\ Readings(u) = Readings(store) \cup Readings(t)
      /\ t # <<>> => u # <<>> /\ Last(u) = Last(t)
      /\ t = <<>> => u = store
  BY <1>0, <1>2, <1>3, ConcatReadings DEF Once
<1>5. store' = Bounded(u, MaxPerDevice)
  BY <1>1
<1> HIDE DEF u
<1>6. /\ u # <<>> => store' # <<>> /\ Last(store') = Last(u)
      /\ Len(u) <= MaxPerDevice => store' = u
  BY <1>3, <1>4, <1>5, BoundedFacts
<1>7. store' \in Seq(Sample) /\ Len(store') <= MaxPerDevice
  BY <1>3, <1>4, <1>5, BoundedFacts
<1>8. Distinct(store') /\ Readings(store') \subseteq Readings(u)
  BY <1>3, <1>4, <1>5, BoundedReadings
<1>9. /\ Distinct(store)' /\ Distinct(buf)' /\ Readings(buf)' = {}
      /\ Readings(store)' \subseteq Readings(store) \cup Readings(buf)
      /\ \A c \in Conns :
           Pending(c)' = Pending(c) /\ Distinct(carried[c].samples)'
  <2>1. Distinct(buf') /\ Readings(buf') = {}
    BY <1>1, EmptyFacts
  <2>2. Distinct(store)' /\ Readings(store)' \subseteq Readings(store) \cup Readings(buf)
    BY <1>2, <1>4, <1>8 DEF Distinct, Readings
  <2>3. Distinct(buf)' /\ Readings(buf)' = {}
    BY <2>1 DEF Distinct, Readings
  <2>4. \A c \in Conns : Pending(c)' = Pending(c)
    BY <1>1 DEF Pending, Readings
  <2>5. \A c \in Conns : Distinct(carried[c].samples)'
    BY <1>0, <1>1 DEF Distinct, Once
  <2> QED
    BY <2>2, <2>3, <2>4, <2>5
<1>10. Once'
  BY <1>0, <1>9 DEF Once
<1>11. Numbered'
  BY <1>0, <1>1, <1>9 DEF Numbered
<1>12. CollectionTypeOK'
  <2>1. buf' \in Seq(Sample) /\ Len(buf') <= MaxBuffer
    BY <1>1, SizesAssumption
  <2> QED
    BY <1>0, <1>1, <1>7, <2>1 DEF CollectionTypeOK
<1>13. Newest'
  <2>1. CASE buf = <<>>
    <3>1. store' = store
      BY <1>2, <1>3, <1>4, <1>6, <2>1
    <3> QED
      BY <1>0, <1>1, <2>1, <3>1 DEF Newest
  <2>2. CASE buf # <<>>
    <3>1. store' # <<>> /\ Last(store') = Last(buf)
      BY <1>2, <1>4, <1>6, <2>2
    <3> QED
      BY <1>0, <1>1, <2>2, <3>1 DEF Newest
  <2> QED
    BY <2>1, <2>2
<1> QED
  BY <1>10, <1>11, <1>12, <1>13 DEF Inv

\* No reading moves.
LEMMA Unmoved ==
  ASSUME Once, Numbered, Newest, UNCHANGED <<taken, carried, buf, store, newest>>
  PROVE  Once' /\ Numbered' /\ Newest'
<1>1. /\ Readings(buf)' = Readings(buf) /\ Readings(store)' = Readings(store)
      /\ Distinct(buf)' = Distinct(buf) /\ Distinct(store)' = Distinct(store)
      /\ \A c \in Conns : Pending(c)' = Pending(c)
      /\ \A c \in Conns : Distinct(carried[c].samples)' = Distinct(carried[c].samples)
  BY DEF Readings, Distinct, Pending
<1>2. Once' /\ Numbered'
  BY <1>1 DEF Once, Numbered
<1>3. Newest'
  BY DEF Newest
<1> QED
  BY <1>2, <1>3

\* A verdict or the clock changes, or the server restarts.
LEMMA OtherSteps ==
  ASSUME Inv, (\E c \in Conns : Discredit(c)) \/ Clock \/ ClearServer
  PROVE  Inv'
<1>0. CollectionTypeOK /\ Once /\ Numbered /\ Newest
  BY DEF Inv
<1>1. ASSUME UNCHANGED <<device_link, taken, carried, buf, store, newest>>,
             CollectionTypeOK'
      PROVE  Inv'
  <2>1. Once' /\ Numbered' /\ Newest'
    BY <1>0, <1>1, Unmoved
  <2> QED
    BY <1>1, <2>1 DEF Inv
<1>2. ASSUME NEW c \in Conns, Discredit(c) PROVE Inv'
  <2>1. /\ UNCHANGED <<device_link, now, taken, carried, buf, store, newest>>
        /\ verdict' = "fail"
    BY <1>2 DEF Discredit, feedVars
  <2>2. CollectionTypeOK'
    BY <1>0, <2>1 DEF CollectionTypeOK
  <2> QED
    BY <1>1, <2>1, <2>2
<1>3. CASE Clock
  <2>1. /\ UNCHANGED <<device_link, taken, carried, buf, store, newest, verdict>>
        /\ now' = now + 1 /\ now < MaxTime
    BY <1>3 DEF Clock, dataVars
  <2>2. now' \in 0..MaxTime
    BY <1>0, <2>1, SizesAssumption DEF CollectionTypeOK
  <2>3. CollectionTypeOK'
    BY <1>0, <2>1, <2>2 DEF CollectionTypeOK
  <2> QED
    BY <1>1, <2>1, <2>3
<1>4. CASE ClearServer
  <2>1. /\ carried' = [c \in Conns |-> NoMessage]
        /\ buf' = <<>> /\ verdict' = "none" /\ store' = <<>> /\ newest' = 0
        /\ UNCHANGED <<device_link, now, taken>>
    BY <1>4 DEF ClearServer
  <2>2. /\ \A c \in Conns : carried'[c].samples = <<>>
        /\ carried' \in [Conns -> Message \cup {NoMessage}]
    BY <2>1 DEF NoMessage
  <2>3. CollectionTypeOK'
    <3>1. <<>> \in Seq(Sample) /\ Len(<<>>) <= MaxBuffer /\ Len(<<>>) <= MaxPerDevice
          /\ 0 \in 0..MaxReading
      BY SizesAssumption
    <3> QED
      BY <1>0, <2>1, <2>2, <3>1 DEF CollectionTypeOK
  <2>4. /\ Readings(buf') = {} /\ Readings(store') = {} /\ Distinct(buf') /\ Distinct(store')
        /\ \A c \in Conns : /\ Readings(carried'[c].samples) = {}
                            /\ Distinct(carried'[c].samples)
    BY <2>1, <2>2, EmptyFacts
  <2>5. /\ Readings(buf)' = {} /\ Readings(store)' = {} /\ Distinct(buf)' /\ Distinct(store)'
        /\ \A c \in Conns : Pending(c)' = {} /\ Distinct(carried[c].samples)'
    BY <2>4 DEF Readings, Distinct, Pending
  <2>6. Once' /\ Numbered'
    BY <2>5 DEF Once, Numbered
  <2>7. Newest'
    BY <2>1 DEF Newest
  <2> QED
    BY <2>3, <2>6, <2>7 DEF Inv
<1> QED
  BY <1>2, <1>3, <1>4

\* Inv holds initially, ...
LEMMA InvInit == CollectionInit => Inv
<1> SUFFICES ASSUME CollectionInit PROVE Inv
  OBVIOUS
<1>1. /\ carried \in [Conns -> Message \cup {NoMessage}]
      /\ \A c \in Conns : carried[c].samples = <<>>
  BY DEF CollectionInit, NoMessage
<1>2. CollectionTypeOK
  <2>1. <<>> \in Seq(Sample) /\ Len(<<>>) <= MaxBuffer /\ Len(<<>>) <= MaxPerDevice
        /\ 0 \in 0..MaxReading /\ 0 \in 0..MaxTime
    BY SizesAssumption
  <2> QED
    BY <1>1, <2>1 DEF CollectionInit, CollectionTypeOK
<1>3. /\ Readings(buf) = {} /\ Readings(store) = {} /\ Distinct(buf) /\ Distinct(store)
      /\ \A c \in Conns : Pending(c) = {} /\ Distinct(carried[c].samples)
      /\ newest = 0
  BY <1>1, EmptyFacts DEF CollectionInit, Pending
<1> QED
  BY <1>2, <1>3 DEF Inv, Once, Numbered, Newest

\* ... and every step keeps it.
LEMMA InvStep == Inv /\ [CollectionNext]_collectionVars => Inv'
<1> SUFFICES ASSUME Inv, [CollectionNext]_collectionVars PROVE Inv'
  OBVIOUS
<1>1. ASSUME NEW c \in Conns, LinkThread(c) PROVE Inv'
  BY <1>1, ParseStep, StoreStep, OtherSteps DEF LinkThread
<1>2. CASE collect
  BY <1>2, DrainStep DEF collect
<1>3. CASE Clock \/ ClearServer
  BY <1>3, OtherSteps
<1>4. CASE UNCHANGED collectionVars
  <2>1. UNCHANGED <<device_link, now, taken, carried, buf, verdict, store, newest>>
    BY <1>4 DEF collectionVars, feedVars, dataVars
  <2>2. Once' /\ Numbered' /\ Newest'
    BY <2>1, Unmoved DEF Inv
  <2>3. CollectionTypeOK'
    BY <2>1 DEF Inv, CollectionTypeOK
  <2> QED
    BY <2>2, <2>3 DEF Inv
<1> QED
  BY <1>1, <1>2, <1>3, <1>4 DEF CollectionNext

\* Inv holds in every state of every run.
LEMMA InvHolds == CollectionSpec => []Inv
  BY InvInit, InvStep, PTL DEF CollectionSpec

-----------------------------------------------------------------------------
(* Theorems *)

\* Buffer, store, clock and the messages of the threads are well formed, and
\* buffer and store keep to their bounds, however many threads fill them.
THEOREM CollectionTypeCorrect == CollectionSpec => []CollectionTypeOK
  BY InvHolds, PTL DEF Inv

\* Draining: no reading is in buffer and store twice, so an aggregate counts
\* it once, however pushes and collects interleave.
THEOREM NothingCountedTwice == CollectionSpec => []CountedOnce
<1>1. Inv => CountedOnce
  <2> SUFFICES ASSUME Inv PROVE CountedOnce
    OBVIOUS
  <2>1. buf \in Seq(Sample) /\ store \in Seq(Sample)
    BY DEF Inv, CollectionTypeOK
  <2>2. buf \o store \in Seq(Sample) /\ Distinct(buf \o store)
    BY <2>1, ConcatReadings DEF Inv, Once
  <2> QED
    BY <2>2, DistinctCount DEF CountedOnce
<1> QED
  BY <1>1, InvHolds, PTL

\* Full buffers never lose the current reading: the one stored last is at the
\* end of the buffer, or once that is drained at the end of the store.
THEOREM NewestIsKept == CollectionSpec => []NewestSurvives
<1>1. Inv => NewestSurvives
  BY DEF Inv, Newest, NewestSurvives
<1> QED
  BY <1>1, InvHolds, PTL
=============================================================================
