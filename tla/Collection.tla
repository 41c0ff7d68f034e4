---------------------------- MODULE Collection ----------------------------
(***************************************************************************)
(* From the device link's buffer to an answer: _on_data / _on_message of   *)
(* the two links put samples into a bounded buffer from the connections'   *)
(* threads, CollectionService.collect (server/service.py) drains it into   *)
(* the bounded DataStore (server/store.py), filters the store to the       *)
(* window that was asked for and reduces it (server/processing.py).        *)
(*                                                                         *)
(* One device id: buffer, verdict and store are kept per device.  Readings *)
(* are numbered in the order in which the link takes them up; their values *)
(* are the sensor's or the client's, and need not rise.  What float()      *)
(* makes of them is an integer here, or one of two marks for what is no    *)
(* number, so the arithmetic is exact.  Which messages get past the        *)
(* attestation is AttestedLink's subject.                                  *)
(***************************************************************************)
EXTENDS Integers, Sequences, SequencesExt, FiniteSetsExt

CONSTANTS
  Conns,         \* connection threads
  MaxBuffer,     \* _MAX_BUFFER
  MaxPerDevice,  \* _MAX_PER_DEVICE
  Windows,       \* C.WINDOWS, the lengths in seconds
  Values,        \* the values that readings may have
  Timestamps,    \* the ts that a client of the plain link may send
  Inf, NaN,      \* float("inf"); float("nan"), which also stands for -inf
  MaxBatch,      \* bound on the samples of a message
  MaxReading,    \* bound on the readings
  MaxTime        \* bound on the clock

ASSUME SizesAssumption ==
  /\ MaxBuffer \in Nat \ {0} /\ MaxPerDevice \in Nat \ {0}
  /\ Windows \subseteq Nat
  /\ MaxBatch \in Nat \ {0} /\ MaxReading \in Nat /\ MaxTime \in Nat

\* An infinite value is NaN here: neither is a number, in a sum or in JSON.
ASSUME FloatsAssumption ==
  /\ Inf \notin Int /\ NaN \notin Int /\ Inf # NaN
  /\ Values \subseteq Int \cup {NaN}
  /\ Timestamps \subseteq Int \cup {Inf, NaN} /\ 0..MaxTime \subseteq Timestamps

VARIABLES
  device_link,   \* CONFIG.device_link, fixed at startup
  now,           \* time.time()
  taken,         \* readings the link has taken up so far
  carried,       \* [Conns -> the message a thread has parsed but not stored]
  buf, verdict,  \* the link's _buf, and the integrity in its _verdict
  store,         \* DataStore._by_device for the device
  newest         \* the reading stored last, 0 before the first

feedVars == <<device_link, now, taken, carried>>
dataVars == <<buf, verdict, store, newest>>
collectionVars == <<feedVars, dataVars>>

Attested == device_link = "attested_network"

\* n is the reading's number.
Sample == [n : 1..MaxReading, value : Values, ts : Timestamps]
Message == [samples : Seq(Sample), attested : BOOLEAN]
NoMessage == [samples |-> <<>>]

CollectionTypeOK ==
  /\ device_link \in {"network", "attested_network"}
  /\ now \in 0..MaxTime /\ taken \in 0..MaxReading /\ newest \in 0..MaxReading
  /\ carried \in [Conns -> Message \cup {NoMessage}]
  /\ verdict \in {"none", "ok", "fail"}
  /\ buf \in Seq(Sample) /\ Len(buf) <= MaxBuffer
  /\ store \in Seq(Sample) /\ Len(store) <= MaxPerDevice

CollectionInit ==
  /\ device_link \in {"network", "attested_network"}
  /\ now = 0 /\ taken = 0
  /\ carried = [c \in Conns |-> NoMessage]
  /\ buf = <<>> /\ verdict = "none" /\ store = <<>> /\ newest = 0

-----------------------------------------------------------------------------
(* Mutated forms of the helpers below; the specification does not use them *)

Bounded_full(s, max) == SubSeq(s, 1, IF Len(s) > max THEN max ELSE Len(s))
Bounded_never(s, max) == s
Drain_keep == UNCHANGED buf
Kept_first(new) == IF Attested /\ new # <<>> THEN <<Head(new)>> ELSE new
Span_raw(samples) ==
  Max({s.ts : s \in ToSet(samples)}) - Min({s.ts : s \in ToSet(samples)})
weighted_avg_perSample(samples) ==   \* divides by n * step, not by the weights
  LET low == Min({s.ts : s \in ToSet(samples)})
      span == Span_raw(samples) + 1 IN
  [num |-> MapThenSumSet(LAMBDA i : ((Len(samples) - 1) * (samples[i].ts - low) + span)
                                      * samples[i].value, DOMAIN samples),
   den |-> Len(samples) * span]

-----------------------------------------------------------------------------
(* The links *)

\* deque(maxlen=max): appending to a full one drops from the front.
Bounded(s, max) == SubSeq(s, IF Len(s) > max THEN Len(s) - max + 1 ELSE 1, Len(s))

\* _on_data or _on_message, up to the lock.  The attested device sends one
\* integer in a message and leaves ts to the server, which reads its clock
\* before it decrypts; a client of the plain link may send any number of
\* samples, with any ts and value.  The malformed ones are skipped.
Parse(c) ==
  /\ carried[c] = NoMessage
  /\ \E k \in 0..MaxBatch, flag \in BOOLEAN :
     \E value \in [1..k -> Values], ts \in [1..k -> Timestamps] :
       /\ taken + k <= MaxReading
       /\ Attested => k = 1 /\ value[1] \in Int /\ ts[1] = now /\ flag
       /\ taken' = taken + k
       /\ carried' = [carried EXCEPT ![c] =
            [samples |-> [i \in 1..k |->
                            [n |-> taken + i, value |-> value[i], ts |-> ts[i]]],
             attested |-> flag]]
  /\ UNCHANGED <<device_link, now, dataVars>>

\* Under the link's lock: samples and verdict together.
Store(c) ==
  LET m == carried[c] IN
  /\ m # NoMessage
  /\ buf' = Bounded(buf \o m.samples, MaxBuffer)
  /\ verdict' = IF m.attested THEN "ok" ELSE "fail"
  /\ newest' = IF m.samples = <<>> THEN newest ELSE Last(m.samples).n
  /\ carried' = [carried EXCEPT ![c] = NoMessage]
  /\ UNCHANGED <<device_link, now, taken, store>>

\* The attested link refuses a message, or a connection ends.
Discredit(c) ==
  /\ Attested /\ carried[c] = NoMessage
  /\ verdict' = "fail"
  /\ UNCHANGED <<feedVars, buf, store, newest>>

-----------------------------------------------------------------------------
(* collect *)

Drain == buf' = <<>>

\* The attested link answers with new[-1:], the plain one with all of it.
Kept(new) == IF Attested /\ new # <<>> THEN <<Last(new)>> ELSE new

\* CollectionService.collect up to the store.  The event loop runs it without
\* a suspension, and the link's threads touch only what its first step, under
\* the link's lock, has read.  Without a verdict the buffer is empty.
DrainIntoStore ==
  /\ Drain
  /\ store' = Bounded(store \o Kept(buf), MaxPerDevice)
  /\ UNCHANGED <<verdict, newest>>

\* s.ts >= cutoff: an infinite ts always is, a NaN never.
Recent(s, cutoff) == s.ts = Inf \/ (s.ts \in Int /\ s.ts >= cutoff)

\* DataStore.window: the samples that are recent enough, in the order of the
\* store.  A fold, which the proofs can unfold, and not SelectSeq.
window(all, seconds) ==
  FoldLeft(LAMBDA kept, s : IF Recent(s, now - seconds) THEN Append(kept, s) ELSE kept,
           <<>>, all)

\* POST /api/collect; the answer goes to whoever asked.
collect ==
  /\ DrainIntoStore
  /\ UNCHANGED feedVars

-----------------------------------------------------------------------------
(* processing.py, for samples whose ts and value are numbers.  The weights   *)
(* are scaled by n - 1, which leaves their quotients as they are.            *)

Numeric(samples) == \A s \in ToSet(samples) : s.ts \in Int /\ s.value \in Int

Times(samples) == {s.ts : s \in ToSet(samples)}

Span(samples) ==   \* 1.0 if all timestamps are equal
  IF Cardinality(Times(samples)) = 1 THEN 1
  ELSE Max(Times(samples)) - Min(Times(samples))

Weight(samples, s) ==
  (Len(samples) - 1) * (s.ts - Min(Times(samples))) + Span(samples)

\* The quotient num / den that _weighted_avg returns.
weighted_avg(samples) ==
  IF Len(samples) = 1 THEN [num |-> samples[1].value, den |-> 1]
  ELSE LET w == [i \in DOMAIN samples |-> Weight(samples, samples[i])] IN
       [num |-> MapThenSumSet(LAMBDA i : w[i] * samples[i].value, DOMAIN w),
        den |-> MapThenSumSet(LAMBDA i : w[i], DOMAIN w)]

-----------------------------------------------------------------------------
Clock ==
  /\ now < MaxTime
  /\ now' = now + 1
  /\ UNCHANGED <<device_link, taken, carried, dataVars>>

\* The process restarts: the threads, the buffer and the store are gone.
ClearServer ==
  /\ carried' = [c \in Conns |-> NoMessage]
  /\ buf' = <<>> /\ verdict' = "none" /\ store' = <<>> /\ newest' = 0
  /\ UNCHANGED <<device_link, now, taken>>

LinkThread(c) == Parse(c) \/ Store(c) \/ Discredit(c)

CollectionNext ==
  \/ \E c \in Conns : LinkThread(c)
  \/ collect \/ Clock \/ ClearServer

CollectionSpec == CollectionInit /\ [][CollectionNext]_collectionVars

-----------------------------------------------------------------------------
(* Properties *)

Readings(s) == {s[i].n : i \in DOMAIN s}
ValuesIn(samples) == {s.value : s \in ToSet(samples)}

\* "Draining avoids double-counting when the app re-stores them" (network.py,
\* collect): however pushes and collects interleave, no reading is in buffer
\* and store twice, so an aggregate counts it once.
CountedOnce ==
  LET all == buf \o store IN Cardinality(Readings(all)) = Len(all)

\* Full buffers lose old readings and never the current one: the reading that
\* was stored last is at the end of the buffer, or once that is drained at the
\* end of the store, whoever drained it (deque(maxlen=...), new[-1:]).
NewestSurvives ==
  newest # 0 => Last(IF buf # <<>> THEN buf ELSE store).n = newest

\* An aggregate over any window of numbers can be computed, with every weight
\* "strictly positive, grows with recency" (processing.py, _weighted_avg): also
\* for equal timestamps, where the span is 0, and for samples that are not in
\* the order of their timestamps.
WeightsRankByRecency ==
  \A w \in Windows :
    LET samples == window(store, w) IN
    samples # <<>> /\ Numeric(samples) =>
      /\ weighted_avg(samples).den > 0
      /\ \A s, t \in ToSet(samples) :
           /\ Weight(samples, s) > 0
           /\ s.ts < t.ts => Weight(samples, s) < Weight(samples, t)

Rises(samples) == \A s, t \in ToSet(samples) : s.ts < t.ts => s.value <= t.value
Falls(samples) == \A s, t \in ToSet(samples) : s.ts < t.ts => s.value >= t.value

\* "newer readings pull the result more than old ones" (processing.py): the
\* weighted average of any window of numbers is between the least and the
\* largest of them, and on the newer readings' side of the mean: not below it
\* where the values rise with time, as between two turns of the sensor's
\* counter, and not above it where they fall.  Also when threads have stored
\* the readings out of order.
FavoursRecent ==
  \A w \in Windows :
    LET samples == window(store, w)
        avg == weighted_avg(samples)
        sum == MapThenSumSet(LAMBDA i : samples[i].value, DOMAIN samples)
    IN
    samples # <<>> /\ Numeric(samples) =>
      /\ avg.den * Min(ValuesIn(samples)) <= avg.num
      /\ avg.num <= avg.den * Max(ValuesIn(samples))
      /\ Rises(samples) => avg.num * Len(samples) >= avg.den * sum
      /\ Falls(samples) => avg.num * Len(samples) <= avg.den * sum
=============================================================================
