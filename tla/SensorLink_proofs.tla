------------------------- MODULE SensorLink_proofs -------------------------
(***************************************************************************)
(* Proofs about the sensor, its link and the part of the TA that reads it, *)
(* for secrets and HMACs of any size and any bytes, and any bounds.        *)
(*                                                                         *)
(* Served is the invariant behind the latch: a payload of the secret's     *)
(* type is under way only while no secret has been handed out, and only in *)
(* the first connection.  Challenges counts what each start of the Host    *)
(* may still ask, which keeps the number of a challenge in its range.      *)
(***************************************************************************)
EXTENDS SensorLink, SequenceTheorems, TLAPS

FrameTypes == {CHALLENGE_RESPONSE, READING, SECRET}
Rests == [type : FrameTypes, payload : Seq(Bytes)]

Commands ==
  /\ call = "none" => need = 0
  /\ hpc = "off" => call = "none"
  /\ link = "down" => hpc = "off"

\* Each start of the Host makes at most one challenge, which it owes until
\* then.
Owed == IF hpc = "pair" \/ (hpc = "auth" /\ call # "challenge") THEN 1 ELSE 0

Challenges ==
  /\ boots = 0 => link = "down" /\ challenge = 0 /\ starts = 0 /\ connection = 0
  /\ boots > 0 => challenge + MaxStarts + Owed <= boots * MaxStarts + starts

\* The secret leaves while the window is open, which it is in the first
\* connection only, and once.
Served ==
  /\ ~g_secret_served => handed = <<>>
  /\ g_secret_served => handed = <<1>>
  /\ rest.type = SECRET => ~g_secret_served /\ connection = 1
  /\ link = "up" /\ ~g_secret_window_closed => connection = 1
  /\ link = "down" => g_secret_window_closed \/ connection = 0

\* TypeOK without the contents of the stream and what is read from it.
Control ==
  /\ link \in {"down", "up"}
  /\ tx \in Seq([type : {"secretRequest"}] \cup [type : {"challenge"}, n : 1..99])
  /\ g_secret_served \in BOOLEAN /\ g_secret_window_closed \in BOOLEAN
  /\ authenticated \in BOOLEAN
  /\ age \in 0..READING_INTERVAL
  /\ hpc \in {"off", "pairOnly", "pair", "auth", "loop"}
  /\ nap \in 0..PUSH_INTERVAL
  /\ call \in Calls /\ need \in 0..BufferSize /\ waited \in 0..READ_TIMEOUT
  /\ sensor_authenticated \in BOOLEAN
  /\ challenge \in 0..99
  /\ connection \in Nat
  /\ lags \in 0..MaxLags /\ skips \in 0..MaxSkips /\ starts \in 0..MaxStarts
  /\ boots \in 0..MaxBoots /\ redials \in 0..MaxRedials

Stream ==
  /\ rx \in Seq(Bytes) /\ Len(rx) <= MaxRx + Taken
  /\ rest \in Rests
  /\ psk \in Seq(Bytes) /\ reading \in Seq(Bytes)
  /\ slipped \in BOOLEAN

Inv == TypeOK /\ Commands /\ Challenges /\ Served

-----------------------------------------------------------------------------
(* Sizes and payloads *)

\* The parts of the type invariant follow from the parts of Inv.
LEMMA TypeParts ==
  ASSUME Control, Served, Stream
  PROVE  TypeOK
<1>1. handed \in Seq(Nat)
  <2>1. handed = <<>> \/ handed = <<1>>
    BY Zenon DEF Control, Served
  <2>2. <<>> \in Seq(Nat) /\ <<1>> \in Seq(Nat)
    OBVIOUS
  <2> QED
    BY <2>1, <2>2
<1> QED
  BY <1>1 DEF TypeOK, Control, Stream, Rests, FrameTypes

\* The sizes that a command reads with.
LEMMA Sizes ==
  ASSUME TypeOK
  PROVE  /\ HmacSize \in 1..99 /\ BufferSize \in 1..256 /\ need \in 0..256
         /\ Wanted \in Nat /\ Taken \in Nat /\ Len(rx) \in Nat /\ MaxRx \in Nat
         /\ Taken <= Len(rx)
<1>1. HmacSize \in 1..99 /\ MaxRx \in Nat /\ Len(rx) \in Nat
  BY SensorAssumption DEF TypeOK
<1>2. BufferSize \in 1..256 /\ need \in 0..256
  BY <1>1 DEF BufferSize, ReadingMax, TypeOK
<1> QED
  BY <1>1, <1>2 DEF Wanted, Taken, Short, HdrSize

\* Nothing wanted is no more than the buffer of any command holds.
LEMMA NothingWanted == 0 \in 0..BufferSize /\ 0 \in 0..BufferSize'
<1>1. HmacSize \in Nat /\ ReadingMax \in Nat
  BY SensorAssumption DEF ReadingMax
<1>2. BufferSize \in Nat /\ BufferSize' \in Nat
  BY <1>1 DEF BufferSize
<1> QED
  BY <1>2

\* The two parts of a stream from which k bytes are read.
LEMMA Cut ==
  ASSUME NEW s \in Seq(Bytes), NEW k \in Nat, k <= Len(s)
  PROVE  /\ SubSeq(s, k + 1, Len(s)) \in Seq(Bytes)
         /\ Len(SubSeq(s, k + 1, Len(s))) = Len(s) - k
         /\ SubSeq(s, 1, k) \in Seq(Bytes) /\ Len(SubSeq(s, 1, k)) = k
  BY SubSeqProperties

\* The payloads are bytes, and none is as long as a length field can say.
LEMMA Payloads ==
  /\ \A n \in 1..99 : Hmac[n] \in Seq(Bytes) /\ Hmac[n] # <<>> /\ Len(Hmac[n]) \in 0..99
  /\ Secret \in Seq(Bytes) /\ Secret # <<>> /\ Len(Secret) \in 0..99
  /\ Reading \in Seq(Bytes) /\ Reading # <<>> /\ Len(Reading) \in 0..99
  /\ <<>> \in Seq(Bytes) /\ Len(<<>>) \in 0..99
<1>1. Reading \in Seq(Bytes) /\ Len(Reading) = 6
  BY DEF Reading, Bytes
<1>2. HmacSize \in 1..99 /\ Len(<<>>) = 0
  BY SensorAssumption
<1>3. /\ Secret \in Seq(Bytes) /\ Len(Secret) = HmacSize
      /\ \A n \in 1..99 : Hmac[n] \in Seq(Bytes) /\ Len(Hmac[n]) = HmacSize
  BY PayloadAssumption
<1>4. ASSUME NEW s \in Seq(Bytes), Len(s) = HmacSize
      PROVE  s # <<>> /\ Len(s) \in 0..99
  BY <1>2, <1>4
<1>5. /\ Reading # <<>> /\ Len(Reading) \in 0..99
      /\ <<>> \in Seq(Bytes) /\ Len(<<>>) \in 0..99
  BY <1>1, <1>2
<1> QED
  BY <1>1, <1>3, <1>4, <1>5

\* The length that a header announces.
LEMMA LengthField ==
  ASSUME rx \in Seq(Bytes), 3 <= Len(rx)
  PROVE  First(HdrSize)[2] * 256 + First(HdrSize)[3] \in Nat
<1>1. First(3) \in Seq(Bytes) /\ Len(First(3)) = 3
  BY Cut DEF First
<1>2. First(3)[2] \in Bytes /\ First(3)[3] \in Bytes
  BY <1>1
<1>3. \A b, c \in Bytes : b * 256 + c \in Nat
  BY DEF Bytes
<1> QED
  BY <1>2, <1>3 DEF HdrSize

\* The bytes of a header.
LEMMA HdrFacts ==
  ASSUME NEW type \in FrameTypes, NEW len \in 0..99
  PROVE  Hdr(type, len) \in Seq(Bytes) /\ Len(Hdr(type, len)) = 3
<1>1. \A n \in 0..99 : n \div 256 = 0 /\ n % 256 = n
  OBVIOUS
<1>2. Hdr(type, len) = <<type, 0, len>>
  BY <1>1 DEF Hdr
<1>3. type \in Bytes /\ 0 \in Bytes /\ len \in Bytes
  BY DEF FrameTypes, Bytes, CHALLENGE_RESPONSE, READING, SECRET
<1> QED
  BY <1>2, <1>3

-----------------------------------------------------------------------------
(* What each step does to the stream *)

\* The bytes a command has taken grow with the stream while it runs, and go
\* from the stream when it has what it wants.
LEMMA StreamKept ==
  ASSUME TypeOK, rx' \in Seq(Bytes),
         \/ /\ UNCHANGED <<call, need>>
            /\ Len(rx') >= Len(rx) /\ Len(rx') - Taken <= MaxRx
         \/ call = "none" /\ UNCHANGED rx
         \/ Len(rx') <= MaxRx,
         call' \in Calls, need' \in Nat
  PROVE  Len(rx') <= MaxRx + Taken'
<1>1. Wanted' \in Nat /\ Len(rx') \in Nat
  BY DEF Wanted, HdrSize
<1>2. Taken' \in Nat
  BY <1>1 DEF Taken, Short
<1>3. CASE UNCHANGED <<call, need>> /\ Len(rx') >= Len(rx) /\ Len(rx') - Taken <= MaxRx
  <2>1. Taken <= Taken'
    BY <1>1, <1>3, Sizes DEF Taken, Short, Wanted
  <2> QED
    BY <1>1, <1>2, <1>3, <2>1, Sizes
<1>4. CASE call = "none" /\ UNCHANGED rx
  <2>1. Len(rx) <= MaxRx
    BY <1>4, Sizes DEF TypeOK, Taken
  <2> QED
    BY <1>1, <1>2, <1>4, <2>1, Sizes
<1>5. CASE Len(rx') <= MaxRx
  BY <1>1, <1>2, <1>5, Sizes
<1> QED
  BY <1>3, <1>4, <1>5

\* The daemon writes.
LEMMA WriteStep ==
  ASSUME TypeOK, NEW b \in Seq(Bytes), Write(b), UNCHANGED pta
  PROVE  rx' \in Seq(Bytes) /\ Len(rx') <= MaxRx + Taken'
<1>1. /\ rx' \in Seq(Bytes) /\ Len(rx') = Len(rx) + Len(b) /\ Len(b) \in Nat
      /\ Len(rx) - Taken + Len(b) <= MaxRx
  BY DEF Write, Fits, TypeOK
<1>2. Len(rx') >= Len(rx) /\ Len(rx') - Taken <= MaxRx
  BY <1>1, Sizes
<1>3. call' = call /\ need' = need /\ call \in Calls /\ need \in Nat
  BY Sizes DEF pta, TypeOK
<1> QED
  BY <1>1, <1>2, <1>3, StreamKept

\* The daemon begins a frame.
LEMMA FrameStep ==
  ASSUME TypeOK, UNCHANGED pta, NEW type \in FrameTypes, NEW p \in Seq(Bytes),
         Len(p) \in 0..99, write_frame(type, p)
  PROVE  /\ rx' \in Seq(Bytes) /\ Len(rx') <= MaxRx + Taken' /\ rest' \in Rests
         /\ rest'.type = SECRET => type = SECRET /\ p # <<>>
<1>1. Hdr(type, Len(p)) \in Seq(Bytes)
  BY HdrFacts
<1>2. NoRest \in Rests /\ NoRest.type # SECRET
  BY DEF NoRest, Rests, FrameTypes, READING, SECRET
<1>3. /\ rest' \in Rests
      /\ rest'.type = SECRET => type = SECRET /\ p # <<>>
  BY <1>2 DEF write_frame, Rests
<1> QED
  BY <1>1, <1>3, WriteStep DEF write_frame

\* Every step leaves bytes in the stream and in what was read from it, and no
\* more than the buffers hold.
LEMMA StreamStep ==
  ASSUME Inv, Next
  PROVE  Stream'
<1>0. /\ TypeOK /\ Commands /\ <<>> \in Seq(Bytes) /\ Len(<<>>) = 0
      /\ rx \in Seq(Bytes) /\ Len(rx) <= MaxRx + Taken
      /\ rest \in Rests /\ NoRest \in Rests /\ slipped \in BOOLEAN
      /\ psk \in Seq(Bytes) /\ reading \in Seq(Bytes)
      /\ call \in Calls /\ need \in Nat /\ Len(rx) \in Nat
  BY Sizes DEF Inv, TypeOK, Rests, FrameTypes, NoRest
<1> USE <1>0
<1>1. CASE Daemon
  <2>1. UNCHANGED <<pta, psk, reading, slipped>>
    BY <1>1 DEF Daemon, WriteRest, handle_challenge, handle_secret_request,
                send_reading, ta
  <2>2. CASE WriteRest
    <3>1. rest.payload \in Seq(Bytes) /\ Write(rest.payload) /\ rest' = NoRest
      <4>1. rest.payload \in Seq(Bytes)
        BY ZenonT(40) DEF Rests
      <4>2. Write(rest.payload) /\ rest' = NoRest
        BY <2>2, ZenonT(40) DEF WriteRest
      <4> QED
        BY <4>1, <4>2
    <3> QED
      BY <2>1, <3>1, WriteStep DEF Stream
  <2>3. CASE handle_challenge
    <3>1. Head(tx).n \in 1..99
      <4>1. Head(tx) \in [type : {"secretRequest"}] \cup [type : {"challenge"}, n : 1..99]
        BY <2>3 DEF handle_challenge, TypeOK
      <4> QED
        BY <2>3, <4>1 DEF handle_challenge
    <3>2. /\ write_frame(CHALLENGE_RESPONSE, Hmac[Head(tx).n])
          /\ CHALLENGE_RESPONSE \in FrameTypes
      BY <2>3 DEF handle_challenge, FrameTypes
    <3> QED
      BY <2>1, <3>1, <3>2, Payloads, FrameStep DEF Stream
  <2>4. CASE handle_secret_request
    <3>1. write_frame(SECRET, IF Withheld THEN <<>> ELSE Secret) /\ SECRET \in FrameTypes
      BY <2>4 DEF handle_secret_request, FrameTypes
    <3>2. CASE Withheld
      BY <2>1, <3>1, <3>2, Payloads, FrameStep DEF Stream
    <3>3. CASE ~Withheld
      BY <2>1, <3>1, <3>3, Payloads, FrameStep DEF Stream
    <3> QED
      BY <3>2, <3>3
  <2>5. CASE send_reading
    <3>1. write_frame(READING, Reading) /\ READING \in FrameTypes
      BY <2>5 DEF send_reading, FrameTypes
    <3> QED
      BY <2>1, <3>1, Payloads, FrameStep DEF Stream
  <2> QED
    BY <1>1, <2>2, <2>3, <2>4, <2>5 DEF Daemon
<1>2. ASSUME NEW ok, NEW p \in Seq(Bytes), Done(ok, p)
      PROVE  /\ psk' \in Seq(Bytes) /\ reading' \in Seq(Bytes)
             /\ call' = "none" /\ need' = 0
  BY <1>2 DEF Done, EndCall, Invoke, None
<1>3. CASE ReadHeader
  <2>1. /\ rx' = SubSeq(rx, 3 + 1, Len(rx)) /\ 3 <= Len(rx) /\ need = 0 /\ call # "none"
        /\ UNCHANGED daemon
    BY <1>3 DEF ReadHeader, AfterHeader, Short, Wanted, HdrSize
  <2>2. rx' \in Seq(Bytes) /\ Len(rx') = Len(rx) - 3
    BY <2>1, Cut
  <2>3. Len(rx') <= MaxRx
    BY <2>1, <2>2, Sizes DEF Taken, Short, Wanted, HdrSize
  <2>4. /\ psk' \in Seq(Bytes) /\ reading' \in Seq(Bytes)
        /\ call' \in Calls /\ need' \in Nat
    <3> DEFINE len == First(HdrSize)[2] * 256 + First(HdrSize)[3]
               bad == Foreign(First(HdrSize)[1]) \/ Oversized(len)
    <3>1. CASE Done(~bad, None)
      <4>1. None \in Seq(Bytes)
        BY DEF None
      <4> HIDE DEF bad
      <4> QED
        BY <1>2, <3>1, <4>1 DEF Calls
    <3>2. CASE len > 0 /\ need' = len /\ UNCHANGED <<call, ta>>
      <4>1. len \in Nat
        BY <2>1, LengthField
      <4> QED
        BY <3>2, <4>1 DEF ta
    <3> QED
      BY <1>3, <3>1, <3>2 DEF ReadHeader
  <2>5. slipped' \in BOOLEAN
    BY <1>3, Zenon DEF ReadHeader
  <2> QED
    BY <2>1, <2>2, <2>3, <2>4, <2>5, StreamKept DEF Stream, daemon
<1>4. CASE ReadPayload
  <2>1. /\ rx' = SubSeq(rx, need + 1, Len(rx)) /\ Len(rx) >= need /\ need > 0
        /\ call # "none" /\ UNCHANGED <<daemon, slipped>>
    BY <1>4 DEF ReadPayload, Short, Wanted
  <2>0. \E ok : Done(ok, First(need))
    BY <1>4, Zenon DEF ReadPayload
  <2>2. /\ rx' \in Seq(Bytes) /\ Len(rx') = Len(rx) - need
        /\ First(need) \in Seq(Bytes)
    BY <2>1, Cut DEF First
  <2>3. Len(rx') <= MaxRx
    BY <2>1, <2>2, Sizes DEF Taken, Short, Wanted
  <2>4. /\ psk' \in Seq(Bytes) /\ reading' \in Seq(Bytes)
        /\ call' \in Calls /\ need' \in Nat
    BY <1>2, <2>0, <2>2 DEF Calls
  <2> QED
    BY <2>1, <2>2, <2>3, <2>4, StreamKept DEF Stream, daemon
<1>5. CASE ReadTimeout
  <2>0. PICK ok : Done(ok, None)
    BY <1>5, Zenon DEF ReadTimeout
  <2>5. None \in Seq(Bytes)
    BY DEF None
  <2>1. rx' = <<>> /\ UNCHANGED daemon
    BY <1>5 DEF ReadTimeout
  <2>2. /\ psk' \in Seq(Bytes) /\ reading' \in Seq(Bytes)
        /\ call' \in Calls /\ need' \in Nat
    BY <1>2, <2>0, <2>5 DEF Calls
  <2>3. slipped' \in BOOLEAN
    BY <1>5, Zenon DEF ReadTimeout
  <2>4. Len(rx') <= MaxRx
    BY <2>1, Sizes
  <2> QED
    BY <2>1, <2>2, <2>3, <2>4, StreamKept DEF Stream, daemon
<1>6. CASE ta_authenticate_sensor \/ PushLoop \/ StartHost \/ KillHost
  <2>1. /\ call = "none" /\ UNCHANGED <<rx, daemon, psk, slipped>>
        /\ reading' \in {reading, None}
        /\ UNCHANGED pta \/ \E c \in Calls : Invoke(c)
    BY <1>6 DEF ta_authenticate_sensor, PushLoop, StartHost, KillHost, ta, Commands,
                Calls
  <2>2. call' \in Calls /\ need' \in Nat
    BY <2>1 DEF pta, Invoke
  <2> QED
    BY <2>1, <2>2, StreamKept DEF Stream, daemon, None
<1>7. CASE Tick
  <2>1. UNCHANGED <<rx, daemon, call, need, psk, reading, slipped>>
    BY <1>7 DEF Tick, ta
  <2>2. Len(rx') >= Len(rx) /\ Len(rx') - Taken <= MaxRx
    BY <2>1, Sizes
  <2> QED
    BY <2>1, <2>2, StreamKept DEF Stream, daemon
<1>8. CASE Boot \/ Redial \/ PowerOff
  <2>1. /\ rx' = <<>> /\ rest' = NoRest /\ slipped' = FALSE
        /\ psk' \in {psk, None} /\ reading' \in {reading, None}
        /\ UNCHANGED pta \/ Invoke("none")
    BY <1>8 DEF Boot, Redial, PowerOff, Accept, EndCall
  <2>2. call' \in Calls /\ need' \in Nat
    BY <2>1 DEF pta, Invoke, Calls
  <2>3. Len(rx') <= MaxRx
    BY <2>1, Sizes
  <2> QED
    BY <2>1, <2>2, <2>3, StreamKept DEF Stream, None
<1> QED
  BY <1>1, <1>3, <1>4, <1>5, <1>6, <1>7, <1>8 DEF Next, Device

-----------------------------------------------------------------------------
(* What each step does to the rest of the state *)

\* Link and daemon are as they were.
LEMMA ServedKept ==
  ASSUME Served, UNCHANGED <<link, daemon>>
  PROVE  Served'
  BY DEF Served, daemon

\* Starts and boots are as they were and no more is owed.
LEMMA ChallengesKept ==
  ASSUME TypeOK, Challenges, UNCHANGED <<boots, starts, challenge>>, Owed' <= Owed,
         boots # 0 \/ UNCHANGED <<link, connection>>
  PROVE  Challenges'
<1>1. /\ boots \in Nat /\ starts \in Nat /\ challenge \in Nat /\ MaxStarts \in Nat
      /\ boots * MaxStarts \in Nat
  BY SensorAssumption DEF TypeOK
<1>2. Owed \in 0..1 /\ Owed' \in 0..1
  BY DEF Owed
<1>3. CASE boots = 0
  BY <1>1, <1>3 DEF Challenges
<1>4. CASE boots > 0
  <2>1. \A c, m, x, s \in Nat : \A o, q \in 0..1 :
          q <= o /\ c + m + o <= x + s => c + m + q <= x + s
    OBVIOUS
  <2>2. challenge + MaxStarts + Owed <= boots * MaxStarts + starts
    BY <1>4 DEF Challenges
  <2>3. challenge + MaxStarts + Owed' <= boots * MaxStarts + starts
    BY <1>1, <1>2, <2>1, <2>2
  <2>4. boots' # 0
    BY <1>1, <1>4
  <2> QED
    BY <2>3, <2>4 DEF Challenges
<1> QED
  BY <1>1, <1>3, <1>4

\* A command ends.
LEMMA EndStep ==
  ASSUME Inv, NEW ok, NEW p, call # "none", Done(ok, p),
         UNCHANGED <<link, tx, daemon, age, budgets>>
  PROVE  Control' /\ Commands' /\ Challenges' /\ Served'
<1>0. TypeOK /\ Commands /\ Challenges /\ Served
  BY DEF Inv
<1>1. /\ call' = "none" /\ need' = 0 /\ waited' = 0 /\ challenge' = challenge
      /\ nap' \in {nap, PUSH_INTERVAL}
      /\ \/ hpc' \in {"off", "loop"} \/ (hpc' = hpc /\ call = "read")
         \/ hpc = "pair" /\ hpc' = "auth"
  BY DEF Done, EndCall, Invoke
<1>2. sensor_authenticated' \in BOOLEAN
  <2>1. UNCHANGED sensor_authenticated \/ sensor_authenticated' = Answers(ok, p)
    BY DEF Done
  <2>2. Answers(ok, p) \in BOOLEAN
    BY Zenon DEF Answers
  <2> QED
    BY <1>0, <2>1, <2>2 DEF TypeOK
<1>3. link # "down" /\ boots # 0
  BY <1>0 DEF Commands, Challenges
<1>4. Commands'
  BY <1>1, <1>3 DEF Commands
<1>5. Owed' <= Owed
  BY <1>1 DEF Owed
<1>6. Challenges'
  BY <1>0, <1>1, <1>3, <1>5, ChallengesKept DEF budgets
<1>7. need' \in 0..BufferSize'
  BY <1>1, NothingWanted
<1>8. Control'
  BY <1>0, <1>1, <1>2, <1>7 DEF TypeOK, Control, daemon, budgets, PUSH_INTERVAL, Calls,
                                READ_TIMEOUT
<1> QED
  BY <1>0, <1>4, <1>6, <1>8, ServedKept

\* The device reads a header or a payload, or gives up.  It never wants more
\* than the buffer of its command holds, whatever length the header says.
LEMMA DeviceReads ==
  ASSUME Inv, ReadHeader \/ ReadPayload \/ ReadTimeout
  PROVE  Control' /\ Commands' /\ Challenges' /\ Served'
<1>0. TypeOK /\ Commands /\ Challenges /\ Served
  BY DEF Inv
<1>1. call # "none" /\ UNCHANGED <<link, tx, daemon, age, budgets>>
  BY DEF ReadHeader, ReadPayload, ReadTimeout
<1>3. CASE ReadTimeout \/ ReadPayload
  BY <1>1, <1>3, EndStep DEF ReadTimeout, ReadPayload
<1>4. CASE ReadHeader
  <2> DEFINE len == First(HdrSize)[2] * 256 + First(HdrSize)[3]
             bad == Foreign(First(HdrSize)[1]) \/ Oversized(len)
  <2>1. CASE Done(~bad, None)
    <3> HIDE DEF bad
    <3> QED
      BY <1>1, <2>1, EndStep
  <2>2. CASE ~bad /\ len > 0 /\ need' = len /\ waited' = 0 /\ UNCHANGED <<call, ta, hpc, nap>>
    <3>1. need' \in 0..BufferSize'
      <4>1. rx \in Seq(Bytes) /\ 3 <= Len(rx)
        BY <1>0, <1>4, Sizes DEF TypeOK, ReadHeader, Short, Wanted, HdrSize
      <4>2. len \in Nat
        BY <4>1, LengthField
      <4>3. ~(len > BufferSize) /\ BufferSize' = BufferSize /\ need' = len
        BY <2>2 DEF Oversized, BufferSize
      <4>4. BufferSize \in Nat
        <5>1. HmacSize \in Nat /\ ReadingMax \in Nat
          BY SensorAssumption DEF ReadingMax
        <5> QED
          BY <5>1 DEF BufferSize
      <4> HIDE DEF len, bad
      <4> QED
        BY <4>2, <4>3, <4>4
    <3>2. Commands'
      BY <1>0, <1>1, <2>2 DEF Commands
    <3>3. Owed' <= Owed
      BY <2>2 DEF Owed
    <3>4. Challenges'
      BY <1>0, <1>1, <2>2, <3>3, ChallengesKept DEF budgets, ta, daemon
    <3>5. Control'
      BY <1>0, <1>1, <2>2, <3>1 DEF TypeOK, Control, daemon, budgets, ta, READ_TIMEOUT
    <3> QED
      BY <1>0, <1>1, <3>2, <3>4, <3>5, ServedKept
  <2> QED
    BY <1>4, <2>1, <2>2 DEF ReadHeader
<1> QED
  BY <1>3, <1>4

\* The daemon answers a frame or sends a reading.
LEMMA DaemonStep ==
  ASSUME Inv, Daemon
  PROVE  Control' /\ Commands' /\ Challenges' /\ Served'
<1>0. /\ TypeOK /\ Commands /\ Challenges /\ Served
      /\ UNCHANGED <<link, g_secret_window_closed, connection, hpc, nap, pta, ta, budgets>>
  BY DEF Inv, Daemon, WriteRest, handle_challenge, handle_secret_request, send_reading
<1>1. Commands'
  BY <1>0 DEF Commands, pta
<1>2. Owed' <= Owed
  BY <1>0 DEF Owed, pta
<1>3. Challenges'
  BY <1>0, <1>2, ChallengesKept DEF budgets, ta
<1>4. ASSUME authenticated' \in BOOLEAN, g_secret_served' \in BOOLEAN,
             age' \in 0..READING_INTERVAL, tx' \in {tx, Tail(tx)}, tx' = tx \/ tx # <<>>
      PROVE  Control'
  <2>1. tx' \in Seq([type : {"secretRequest"}] \cup [type : {"challenge"}, n : 1..99])
    <3> DEFINE Frames == [type : {"secretRequest"}] \cup [type : {"challenge"}, n : 1..99]
    <3>1. tx \in Seq(Frames)
      BY <1>0 DEF TypeOK
    <3> HIDE DEF Frames
    <3>2. tx' \in Seq(Frames)
      BY <1>4, <3>1
    <3> QED
      BY <3>2 DEF Frames
  <2> QED
    BY <1>0, <1>4, <2>1 DEF TypeOK, Control, BufferSize, pta, ta, budgets
<1>5. CASE WriteRest
  <2>1. Control'
    <3>1. age' \in {age, 0} /\ age \in 0..READING_INTERVAL /\ 0 \in 0..READING_INTERVAL
      BY <1>0, <1>5 DEF WriteRest, TypeOK, READING_INTERVAL
    <3>2. authenticated' \in BOOLEAN /\ g_secret_served' \in BOOLEAN /\ tx' = tx
      BY <1>0, <1>5 DEF WriteRest, TypeOK
    <3> QED
      BY <1>4, <3>1, <3>2
  <2>2. rest'.type # SECRET
    BY <1>5 DEF WriteRest, NoRest, READING, SECRET
  <2>3. CASE rest.type = SECRET
    <3>1. g_secret_served' = TRUE /\ handed' = Append(handed, connection)
      BY <1>5, <2>3 DEF WriteRest
    <3>2. handed = <<>> /\ connection = 1
      BY <1>0, <2>3 DEF Served
    <3>3. handed' = <<1>>
      BY <3>1, <3>2
    <3> QED
      BY <1>0, <1>1, <1>3, <2>1, <2>2, <3>1, <3>3 DEF Served
  <2>4. CASE rest.type # SECRET
    <3>1. UNCHANGED <<g_secret_served, handed>>
      BY <1>5, <2>4 DEF WriteRest
    <3> QED
      BY <1>0, <1>1, <1>3, <2>1, <2>2, <3>1 DEF Served
  <2> QED
    BY <2>3, <2>4
<1>6. ASSUME UNCHANGED <<g_secret_served, handed, authenticated>>,
             rest'.type = SECRET => ~Withheld /\ link = "up"
      PROVE  Served'
  BY <1>0, <1>6 DEF Served, Withheld
<1>7. CASE handle_challenge
  <2>1. Control'
    BY <1>0, <1>4, <1>7 DEF handle_challenge, TypeOK, READING_INTERVAL
  <2>3. rest'.type # SECRET
    BY <1>7 DEF handle_challenge, write_frame, NoRest, CHALLENGE_RESPONSE, READING, SECRET
  <2>4. Served'
    BY <1>6, <1>7, <2>3 DEF handle_challenge
  <2> QED
    BY <1>1, <1>3, <2>1, <2>4
<1>8. CASE handle_secret_request
  <2>1. Control'
    BY <1>0, <1>4, <1>8 DEF handle_secret_request, TypeOK, READING_INTERVAL
  <2>3. rest'.type = SECRET => ~Withheld
    BY <1>8 DEF handle_secret_request, write_frame, NoRest, READING, SECRET
  <2>4. Served'
    BY <1>6, <1>8, <2>3 DEF handle_secret_request
  <2> QED
    BY <1>1, <1>3, <2>1, <2>4
<1>9. CASE send_reading
  <2>1. Control'
    BY <1>0, <1>4, <1>9 DEF send_reading, TypeOK, READING_INTERVAL
  <2>2. rest'.type # SECRET
    BY <1>9 DEF send_reading, write_frame, NoRest, READING, SECRET
  <2>3. Served'
    BY <1>6, <1>9, <2>2 DEF send_reading
  <2> QED
    BY <1>1, <1>3, <2>1, <2>3
<1> QED
  BY <1>5, <1>7, <1>8, <1>9 DEF Daemon

\* The number of challenges stays below the 99 for which the bounds leave
\* room: the Host that is about to make one was started for it.
LEMMA RoomForChallenge ==
  ASSUME TypeOK, Commands, Challenges, hpc = "auth", call = "none"
  PROVE  boots > 0 /\ challenge + 1 \in 1..99
<1>1. /\ boots \in Nat /\ starts \in Nat /\ challenge \in Nat /\ MaxStarts \in Nat
      /\ boots <= MaxBoots /\ MaxBoots \in Nat /\ starts <= MaxStarts
      /\ MaxBoots * MaxStarts < 99
  BY SensorAssumption DEF TypeOK
<1>2. boots > 0 /\ Owed = 1
  BY <1>1 DEF Commands, Challenges, Owed
<1>3. challenge + MaxStarts + 1 <= boots * MaxStarts + starts
  BY <1>2 DEF Challenges
<1>4. boots * MaxStarts <= MaxBoots * MaxStarts
  <2>1. \A a, d, m \in Nat : a * m <= (a + d) * m
    OBVIOUS
  <2>2. MaxBoots - boots \in Nat /\ boots + (MaxBoots - boots) = MaxBoots
    BY <1>1
  <2> QED
    BY <1>1, <2>1, <2>2
<1>5. \A x, y \in Nat :
        x <= y /\ y < 99 /\ challenge + MaxStarts + 1 <= x + starts
          => challenge + 1 \in 1..99
  BY <1>1
<1>6. boots * MaxStarts \in Nat /\ MaxBoots * MaxStarts \in Nat
  BY <1>1
<1> QED
  BY <1>1, <1>2, <1>3, <1>4, <1>5, <1>6

\* The host begins a command, waits, starts or ends.
LEMMA HostStep ==
  ASSUME Inv, ta_authenticate_sensor \/ PushLoop \/ StartHost \/ KillHost
  PROVE  Control' /\ Commands' /\ Challenges' /\ Served'
<1> DEFINE Frames == [type : {"secretRequest"}] \cup [type : {"challenge"}, n : 1..99]
<1>0. /\ TypeOK /\ Commands /\ Challenges /\ Served
      /\ UNCHANGED <<link, daemon, age, psk>>
      /\ tx \in Seq(Frames)
  BY DEF Inv, TypeOK, ta_authenticate_sensor, PushLoop, StartHost, KillHost, ta
<1>1. Served'
  BY <1>0, ServedKept
<1>2. /\ [type |-> "secretRequest"] \in Frames
      /\ \A k \in 1..99 : [type |-> "challenge", n |-> k] \in Frames
  OBVIOUS
<1>3. ASSUME NEW f \in Frames PROVE Append(tx, f) \in Seq(Frames)
  <2> HIDE DEF Frames
  <2> QED
    BY <1>0
<1>4. 0 \in 0..ReadingMax /\ 0 \in 0..READ_TIMEOUT /\ 0 \in 0..PUSH_INTERVAL
      /\ PUSH_INTERVAL \in 0..PUSH_INTERVAL
  BY DEF ReadingMax, READ_TIMEOUT, PUSH_INTERVAL
<1>5. ASSUME tx' \in Seq(Frames), hpc' \in {"off", "pairOnly", "pair", "auth", "loop"},
             nap' \in 0..PUSH_INTERVAL,
             UNCHANGED pta \/ \E c \in Calls : Invoke(c),
             sensor_authenticated' \in BOOLEAN, challenge' \in 0..99,
             skips' \in 0..MaxSkips, starts' \in 0..MaxStarts,
             UNCHANGED <<lags, boots, redials>>
      PROVE  Control'
  <2>1. call' \in Calls /\ need' \in 0..BufferSize' /\ waited' \in 0..READ_TIMEOUT
    <3>1. CASE UNCHANGED pta
      BY <1>0, <3>1 DEF TypeOK, pta, BufferSize
    <3>2. CASE \E c \in Calls : Invoke(c)
      <4>1. 0 \in 0..BufferSize'
        BY NothingWanted
      <4> QED
        BY <1>4, <3>2, <4>1 DEF Invoke
    <3> QED
      BY <1>5, <3>1, <3>2
  <2> QED
    BY <1>0, <1>5, <2>1 DEF TypeOK, Control, daemon
<1> HIDE DEF Frames
<1>6. CASE ta_authenticate_sensor
  <2>0. hpc = "auth" /\ call = "none" /\ UNCHANGED <<nap, sensor_authenticated, budgets>>
    BY <1>6 DEF ta_authenticate_sensor
  <2>1. boots > 0 /\ challenge + 1 \in 1..99
    BY <1>0, <2>0, RoomForChallenge
  <2>2. CASE psk = None
    <3>1. hpc' = "off" /\ UNCHANGED <<pta, tx, challenge>>
      BY <1>6, <2>2 DEF ta_authenticate_sensor
    <3>2. Control'
      BY <1>0, <1>5, <2>0, <3>1 DEF TypeOK, budgets
    <3>3. Commands'
      BY <1>0, <2>0, <3>1 DEF Commands, pta
    <3>4. Owed' <= Owed
      BY <2>0, <3>1 DEF Owed, pta
    <3>5. Challenges'
      BY <1>0, <2>0, <3>1, <3>4, ChallengesKept DEF budgets, daemon
    <3> QED
      BY <1>1, <3>2, <3>3, <3>5
  <2>3. CASE psk # None
    <3>1. /\ challenge' = challenge + 1 /\ Invoke("challenge") /\ hpc' = hpc
          /\ tx' = Append(tx, [type |-> "challenge", n |-> challenge + 1])
      BY <1>6, <2>3 DEF ta_authenticate_sensor
    <3>2. Control'
      <4>1. tx' \in Seq(Frames) /\ challenge' \in 0..99
        <5>1. [type |-> "challenge", n |-> challenge + 1] \in Frames
          BY <1>2, <2>1
        <5>2. challenge + 1 \in 0..99
          BY <2>1
        <5> QED
          BY <1>3, <3>1, <5>1, <5>2
      <4> QED
        BY <1>0, <1>5, <2>0, <3>1, <4>1 DEF TypeOK, budgets, Calls
    <3>3. Commands'
      BY <1>0, <2>0, <3>1 DEF Commands, Invoke
    <3>4. Challenges'
      <4>1. Owed = 1 /\ Owed' = 0
        BY <2>0, <3>1 DEF Owed, Invoke
      <4>2. challenge + MaxStarts + 1 <= boots * MaxStarts + starts
        BY <2>1, <4>1 DEF Challenges, Inv
      <4>3. challenge' + MaxStarts + 0 = challenge + MaxStarts + 1
        BY <1>0, <3>1, SensorAssumption DEF TypeOK
      <4>4. UNCHANGED <<boots, starts>> /\ boots # 0
        BY <2>0, <2>1 DEF budgets
      <4> QED
        BY <4>1, <4>2, <4>3, <4>4 DEF Challenges
    <3> QED
      BY <1>1, <3>2, <3>3, <3>4
  <2> QED
    BY <2>2, <2>3
<1>7. CASE PushLoop
  <2>0. /\ hpc = "loop" /\ call = "none" /\ UNCHANGED <<tx, hpc, ta, lags, starts, boots, redials>>
        /\ nap' \in {nap, PUSH_INTERVAL}
        /\ Invoke("read") \/ UNCHANGED pta
    BY <1>7 DEF PushLoop
  <2>1. skips' \in 0..MaxSkips
    BY <1>0, <1>7, SensorAssumption DEF PushLoop, TypeOK
  <2>2. Control'
    <3>1. nap' \in 0..PUSH_INTERVAL
      BY <1>0, <1>4, <2>0 DEF TypeOK
    <3> QED
      BY <1>0, <1>5, <2>0, <2>1, <3>1 DEF TypeOK, ta, Calls
  <2>3. Commands'
    BY <1>0, <2>0 DEF Commands, pta, Invoke
  <2>4. Owed' <= Owed
    BY <2>0 DEF Owed
  <2>5. Challenges'
    BY <1>0, <2>0, <2>4, ChallengesKept DEF ta, daemon
  <2> QED
    BY <1>1, <2>2, <2>3, <2>5
<1>8. CASE StartHost
  <2>0. /\ link = "up" /\ hpc = "off" /\ starts < MaxStarts /\ starts' = starts + 1
        /\ sensor_authenticated' = FALSE /\ nap' = 0
        /\ UNCHANGED <<challenge, lags, skips, boots, redials>>
        /\ \/ hpc' = "auth" /\ UNCHANGED <<pta, tx>>
           \/ /\ hpc' \in {"pair", "pairOnly"} /\ Invoke("secret")
              /\ tx' = Append(tx, [type |-> "secretRequest"])
    BY <1>8 DEF StartHost
  <2>1. call = "none" /\ boots # 0
    BY <1>0, <2>0 DEF Commands, Challenges
  <2>2. Control'
    <3>1. tx' \in Seq(Frames)
      BY <1>0, <1>2, <1>3, <2>0
    <3>2. starts' \in 0..MaxStarts
      BY <1>0, <2>0, SensorAssumption DEF TypeOK
    <3>3. hpc' \in {"off", "pairOnly", "pair", "auth", "loop"}
          /\ (UNCHANGED pta \/ \E c \in Calls : Invoke(c))
      BY <2>0 DEF Calls
    <3> QED
      BY <1>0, <1>4, <1>5, <2>0, <3>1, <3>2, <3>3 DEF TypeOK
  <2>3. Commands'
    BY <1>0, <2>0 DEF Commands, pta, Invoke
  <2>4. Challenges'
    <3>1. Owed = 0 /\ Owed' \in 0..1
      BY <2>0 DEF Owed
    <3>2. /\ challenge \in Nat /\ MaxStarts \in Nat /\ starts \in Nat
          /\ boots \in Nat /\ boots * MaxStarts \in Nat
      BY <1>0, SensorAssumption DEF TypeOK
    <3>3. challenge + MaxStarts + 0 <= boots * MaxStarts + starts
      BY <1>0, <2>1, <3>1, <3>2 DEF Challenges
    <3>4. \A x \in Nat, o \in 0..1 :
            challenge + MaxStarts + 0 <= x + starts
              => challenge + MaxStarts + o <= x + (starts + 1)
      BY <3>2
    <3>5. challenge + MaxStarts + Owed' <= boots * MaxStarts + (starts + 1)
      BY <3>1, <3>2, <3>3, <3>4
    <3> QED
      BY <2>0, <2>1, <3>5 DEF Challenges
  <2> QED
    BY <1>1, <2>2, <2>3, <2>4
<1>9. CASE KillHost
  <2>0. /\ hpc = "loop" /\ call = "none" /\ hpc' = "off" /\ nap' = 0
        /\ sensor_authenticated' = FALSE /\ UNCHANGED <<tx, pta, challenge, budgets>>
    BY <1>9 DEF KillHost
  <2>1. Control'
    BY <1>0, <1>4, <1>5, <2>0 DEF TypeOK, budgets
  <2>2. Commands'
    BY <1>0, <2>0 DEF Commands, pta
  <2>3. Owed' <= Owed
    BY <2>0 DEF Owed
  <2>4. Challenges'
    BY <1>0, <2>0, <2>3, ChallengesKept DEF budgets, daemon
  <2> QED
    BY <1>1, <2>1, <2>2, <2>4
<1> QED
  BY <1>6, <1>7, <1>8, <1>9

\* A new link has no frames in it.
LEMMA NoFrames ==
  <<>> \in Seq([type : {"secretRequest"}] \cup [type : {"challenge"}, n : 1..99])
  OBVIOUS

\* The values of an idle device.
LEMMA AtRest ==
  /\ "none" \in Calls /\ 0 \in 0..ReadingMax /\ 0 \in 0..READ_TIMEOUT
  /\ 0 \in 0..READING_INTERVAL /\ 0 \in 0..PUSH_INTERVAL
  /\ 0 \in 0..MaxLags /\ 0 \in 0..MaxSkips /\ 0 \in 0..MaxStarts
  /\ 0 \in 0..MaxBoots /\ 0 \in 0..MaxRedials /\ 0 \in 0..99 /\ 0 \in Nat
<1>1. "none" \in Calls
  BY DEF Calls
<1>2. \A m \in Nat : 0 \in 0..m
  OBVIOUS
<1>3. /\ MaxLags \in Nat /\ MaxSkips \in Nat /\ MaxStarts \in Nat /\ MaxBoots \in Nat
      /\ MaxRedials \in Nat
  BY SensorAssumption
<1>4. /\ ReadingMax \in Nat /\ READ_TIMEOUT \in Nat /\ READING_INTERVAL \in Nat
      /\ PUSH_INTERVAL \in Nat /\ 99 \in Nat /\ 0 \in Nat
  BY DEF ReadingMax, READ_TIMEOUT, READING_INTERVAL, PUSH_INTERVAL
<1> QED
  BY <1>1, <1>2, <1>3, <1>4

\* Time passes, or QEMU comes and goes.
LEMMA WorldStep ==
  ASSUME Inv, Tick \/ Boot \/ Redial \/ PowerOff
  PROVE  Control' /\ Commands' /\ Challenges' /\ Served'
<1>0. /\ TypeOK /\ Commands /\ Challenges /\ Served
      /\ boots \in Nat /\ boots <= MaxBoots /\ starts \in Nat /\ starts <= MaxStarts
      /\ challenge \in Nat /\ connection \in Nat
      /\ MaxStarts \in Nat /\ MaxBoots \in Nat /\ MaxRedials \in Nat /\ MaxLags \in Nat
      /\ NoRest.type # SECRET
  <2>1. NoRest.type # SECRET
    BY DEF NoRest, READING, SECRET
  <2>2. TypeOK /\ Commands /\ Challenges /\ Served
    BY DEF Inv
  <2>3. /\ boots \in Nat /\ boots <= MaxBoots /\ starts \in Nat /\ starts <= MaxStarts
        /\ challenge \in Nat /\ connection \in Nat
        /\ MaxStarts \in Nat /\ MaxBoots \in Nat /\ MaxRedials \in Nat /\ MaxLags \in Nat
    BY <2>2, SensorAssumption DEF TypeOK
  <2> QED
    BY <2>1, <2>2, <2>3
<1>1. CASE Tick
  <2>0. /\ link = "up" /\ DeviceWaits
        /\ UNCHANGED <<link, tx, daemon, hpc, call, need, ta, skips, starts, boots, redials>>
    BY <1>1 DEF Tick
  <2>1. lags' \in 0..MaxLags
    <3>1. lags' = lags \/ (lags < MaxLags /\ lags' = lags + 1)
      BY <1>1 DEF Tick
    <3>2. lags \in 0..MaxLags
      BY <1>0 DEF TypeOK
    <3> QED
      BY <1>0, <3>1, <3>2
  <2>2. age' \in 0..READING_INTERVAL
    <3>1. age' = Capped(age, READING_INTERVAL) /\ age \in 0..READING_INTERVAL
      BY <1>0, <1>1 DEF Tick, TypeOK
    <3> QED
      BY <3>1 DEF Capped, READING_INTERVAL
  <2>3. nap' \in 0..PUSH_INTERVAL
    <3>1. nap' = (IF nap > 0 THEN nap - 1 ELSE 0) /\ nap \in 0..PUSH_INTERVAL
      BY <1>0, <1>1 DEF Tick, TypeOK
    <3> QED
      BY <3>1 DEF PUSH_INTERVAL
  <2>4. waited' \in 0..READ_TIMEOUT
    <3>1. CASE call = "none"
      BY <1>0, <1>1, <3>1 DEF Tick, TypeOK
    <3>2. CASE call # "none"
      <4>1. waited < READ_TIMEOUT
        BY <1>0, <2>0, <3>2 DEF DeviceWaits, Commands
      <4> QED
        BY <1>0, <1>1, <3>2, <4>1 DEF Tick, TypeOK, READ_TIMEOUT
    <3> QED
      BY <3>1, <3>2
  <2>5. Control'
    BY <1>0, <2>0, <2>1, <2>2, <2>3, <2>4 DEF TypeOK, Control, BufferSize, daemon, ta
  <2>6. Commands'
    BY <1>0, <2>0 DEF Commands
  <2>7. Owed' <= Owed
    BY <2>0 DEF Owed
  <2>8. Challenges'
    BY <1>0, <2>0, <2>7, ChallengesKept DEF daemon, ta
  <2> QED
    BY <1>0, <2>0, <2>5, <2>6, <2>8, ServedKept
<1>2. CASE Boot
  <2>0. /\ link = "down" /\ boots < MaxBoots /\ boots' = boots + 1 /\ starts' = 0
        /\ link' = "up" /\ tx' = <<>> /\ rest' = NoRest /\ age' = 0
        /\ authenticated' = FALSE
        /\ g_secret_served' = FALSE /\ g_secret_window_closed' = FALSE
        /\ connection' = 1 /\ handed' = <<>>
        /\ UNCHANGED <<hpc, nap, pta, sensor_authenticated, challenge, lags, skips, redials>>
    BY <1>2 DEF Boot, Accept
  <2>1. hpc = "off" /\ call = "none"
    BY <1>0, <2>0 DEF Commands
  <2>2. Control'
    <3>1. boots' \in 0..MaxBoots /\ starts' \in 0..MaxStarts
      BY <1>0, <2>0
    <3>2. connection' \in Nat /\ age' \in 0..READING_INTERVAL
      BY <2>0 DEF READING_INTERVAL
    <3> QED
      BY <1>0, <2>0, <3>1, <3>2, NoFrames DEF TypeOK, Control, BufferSize, pta
  <2>3. Commands'
    BY <1>0, <2>0 DEF Commands, pta
  <2>4. Challenges'
    <3>1. Owed' = 0 /\ Owed \in 0..1
      BY <2>0, <2>1 DEF Owed
    <3>2. (boots + 1) * MaxStarts = boots * MaxStarts + MaxStarts /\ boots * MaxStarts \in Nat
      BY <1>0
    <3>3. challenge <= boots * MaxStarts
      <4>1. CASE boots = 0
        BY <1>0, <3>2, <4>1 DEF Challenges
      <4>2. CASE boots > 0
        <5>1. challenge + MaxStarts + Owed <= boots * MaxStarts + starts
          BY <1>0, <4>2 DEF Challenges
        <5>2. \A x \in Nat, o \in 0..1 :
                challenge + MaxStarts + o <= x + starts => challenge <= x
          BY <1>0
        <5> QED
          BY <3>1, <3>2, <5>1, <5>2
      <4> QED
        BY <1>0, <4>1, <4>2
    <3>4. \A x \in Nat : challenge <= x => challenge + MaxStarts + 0 <= x + MaxStarts + 0
      BY <1>0
    <3>5. challenge + MaxStarts + 0 <= boots * MaxStarts + MaxStarts + 0
      BY <3>2, <3>3, <3>4
    <3>6. challenge' + MaxStarts + Owed' <= boots' * MaxStarts + starts'
      BY <2>0, <3>1, <3>2, <3>5
    <3>7. boots' # 0
      BY <1>0, <2>0
    <3> QED
      BY <3>6, <3>7 DEF Challenges
  <2>5. Served'
    BY <1>0, <2>0 DEF Served
  <2> QED
    BY <2>2, <2>3, <2>4, <2>5
<1>3. CASE Redial
  <2>0. /\ link = "down" /\ connection > 0 /\ redials < MaxRedials
        /\ redials' = redials + 1 /\ connection' = connection + 1
        /\ link' = "up" /\ tx' = <<>> /\ rest' = NoRest /\ age' = 0
        /\ authenticated' = FALSE
        /\ UNCHANGED <<g_secret_served, g_secret_window_closed, handed, hpc, nap, pta,
                       sensor_authenticated, challenge, lags, skips, starts, boots>>
    BY <1>3 DEF Redial, Accept
  <2>1. Control'
    <3>1. redials' \in 0..MaxRedials
      BY <1>0, <2>0 DEF TypeOK
    <3>2. connection' \in Nat /\ age' \in 0..READING_INTERVAL
      BY <1>0, <2>0 DEF READING_INTERVAL
    <3> QED
      BY <1>0, <2>0, <3>1, <3>2, NoFrames DEF TypeOK, Control, BufferSize, pta
  <2>2. Commands'
    BY <1>0, <2>0 DEF Commands, pta
  <2>3. Challenges'
    <3>1. Owed' <= Owed
      BY <2>0 DEF Owed, pta
    <3>2. boots # 0
      BY <1>0, <2>0 DEF Challenges
    <3> QED
      BY <1>0, <2>0, <3>1, <3>2, ChallengesKept
  <2>4. Served'
    <3>1. g_secret_window_closed
      BY <1>0, <2>0 DEF Served
    <3> QED
      BY <1>0, <2>0, <3>1 DEF Served
  <2> QED
    BY <2>1, <2>2, <2>3, <2>4
<1>4. CASE PowerOff
  <2>0. /\ link = "up" /\ link' = "down" /\ tx' = <<>> /\ rest' = NoRest
        /\ g_secret_window_closed' = TRUE /\ authenticated' = FALSE
        /\ hpc' = "off" /\ nap' = 0 /\ call' = "none" /\ need' = 0 /\ waited' = 0
        /\ sensor_authenticated' = FALSE
        /\ UNCHANGED <<g_secret_served, connection, handed, age, challenge, budgets>>
    BY <1>4 DEF PowerOff, EndCall, Invoke
  <2>1. Control'
    <3>1. UNCHANGED <<lags, skips, starts, boots, redials>>
      BY <2>0 DEF budgets
    <3>2. need' \in 0..BufferSize'
      BY <2>0, NothingWanted
    <3> QED
      BY <1>0, <2>0, <3>1, <3>2, NoFrames, AtRest DEF TypeOK, Control
  <2>2. Commands'
    BY <2>0 DEF Commands
  <2>3. Challenges'
    <3>1. Owed' <= Owed
      BY <2>0 DEF Owed
    <3>2. boots # 0
      BY <1>0, <2>0 DEF Challenges
    <3> QED
      BY <1>0, <2>0, <3>1, <3>2, ChallengesKept DEF budgets
  <2>4. Served'
    BY <1>0, <2>0 DEF Served
  <2> QED
    BY <2>1, <2>2, <2>3, <2>4
<1> QED
  BY <1>1, <1>2, <1>3, <1>4

-----------------------------------------------------------------------------
(* Theorems *)

\* Inv holds initially.
LEMMA InvInit == Init => Inv
<1> SUFFICES ASSUME Init PROVE Inv
  OBVIOUS
<1>1. need \in 0..BufferSize
  BY SensorAssumption DEF Init, BufferSize, ReadingMax
<1>2. Control
  BY <1>1, AtRest, NoFrames DEF Init, Control
<1>3. Commands /\ Challenges
  BY DEF Init, Commands, Challenges
<1>4. Served
  BY DEF Init, Served, NoRest, READING, SECRET
<1>5. Stream
  <2>1. Len(rx) = 0 /\ rx \in Seq(Bytes) /\ psk \in Seq(Bytes) /\ reading \in Seq(Bytes)
    BY DEF Init, None
  <2>2. rest \in Rests
    BY DEF Init, NoRest, Rests, FrameTypes
  <2>3. Taken = 0 /\ slipped \in BOOLEAN
    BY DEF Init, Taken
  <2> QED
    BY <2>1, <2>2, <2>3, SensorAssumption DEF Stream
<1> QED
  BY <1>2, <1>3, <1>4, <1>5, TypeParts DEF Inv

\* Inv is kept by every step.
LEMMA InvStep == Inv /\ [Next]_vars => Inv'
<1> SUFFICES ASSUME Inv, [Next]_vars PROVE Inv'
  OBVIOUS
<1>1. CASE Next
  <2>1. Control' /\ Commands' /\ Challenges' /\ Served'
    BY <1>1, DaemonStep, DeviceReads, HostStep, WorldStep DEF Next, Device
  <2>2. Stream'
    BY <1>1, StreamStep
  <2>3. TypeOK'
    BY <2>1, <2>2, TypeParts, PTL
  <2> QED
    BY <2>1, <2>3 DEF Inv
<1>2. CASE UNCHANGED vars
  <2>1. Commands' /\ Served' /\ Challenges'
    BY <1>2 DEF Inv, vars, daemon, pta, ta, budgets, Commands, Served, Challenges, Owed
  <2>2. TypeOK'
    BY <1>2 DEF Inv, vars, daemon, pta, ta, budgets, TypeOK, BufferSize, Taken, Short,
                Wanted
  <2> QED
    BY <2>1, <2>2 DEF Inv
<1> QED
  BY <1>1, <1>2

\* Inv holds in every state of every run.
LEMMA InvHolds == Spec => []Inv
  BY InvInit, InvStep, PTL DEF Spec

\* The state of daemon, stream, PTA, TA and Host is well formed for every
\* secret, every HMAC and all bounds: whatever a header read from the stream
\* says, no command reads more than its buffer holds, the stream stays within
\* the buffers, and a command waits no longer than uart_read's two seconds.
THEOREM TypeCorrect == Spec => []TypeOK
  BY InvHolds, PTL DEF Inv

\* handle_secret_request: one daemon process hands out its secret at most
\* once, and only on its first connection.
THEOREM ServedOnce == Spec => []SecretServedOnce
<1>1. Inv => SecretServedOnce
  BY Zenon DEF Inv, TypeOK, Served, SecretServedOnce
<1> QED
  BY <1>1, InvHolds, PTL
=============================================================================
