---------------------------- MODULE SensorLink ----------------------------
(***************************************************************************)
(* The sensor and its link: the sensor daemon (sensor_module/              *)
(* sensor_daemon.c), the sensor link pseudo-TA (core/pta/sensor_link.c)    *)
(* and the part of the Host and the TA that uses it, which is to pull the  *)
(* secret, authenticate the sensor and read.                               *)
(*                                                                         *)
(* The UART towards the device is a stream of bytes, with the frame types  *)
(* and lengths of the code.  Nothing in the code escapes a payload, so the *)
(* bytes of the secret and of the HMACs are any, those of a header too.    *)
(* One client of the TA runs at a time, as run-project.sh starts them, so  *)
(* the UART has one reader and one writer on each side.                    *)
(*                                                                         *)
(* Time passes in seconds.  The device is never late; the daemon may be,   *)
(* for MaxLags seconds in all, and then an answer can come after the two   *)
(* seconds for which uart_read waits.                                      *)
(***************************************************************************)
EXTENDS Naturals, Sequences

CONSTANTS
  HmacSize,     \* SENSOR_LINK_HMAC_SIZE and SENSOR_LINK_SECRET_SIZE, 32
  Secret,       \* g_secret
  Hmac,         \* [number of the challenge -> its HMAC under Secret]
  Fifo,         \* bytes the receive FIFO holds
  MaxRx,        \* bytes FIFO and socket hold together
  MaxLags, MaxSkips, MaxStarts, MaxBoots, MaxRedials   \* bounds, see below

Bytes == 0..255

ASSUME PayloadAssumption ==
  /\ Secret \in Seq(Bytes) /\ Len(Secret) = HmacSize
  /\ \A n \in 1..99 : Hmac[n] \in Seq(Bytes) /\ Len(Hmac[n]) = HmacSize
  /\ \A m, n \in 1..99 : Hmac[m] = Hmac[n] => m = n

ASSUME SensorAssumption ==
  /\ HmacSize \in 1..99 /\ Fifo \in Nat /\ MaxRx \in Nat
  /\ MaxLags \in Nat /\ MaxSkips \in Nat /\ MaxStarts \in Nat
  /\ MaxBoots \in 0..40 /\ MaxRedials \in Nat /\ MaxBoots * MaxStarts < 99

\* Frame types, device <-> sensor, and sizes.
CHALLENGE_RESPONSE == 2
READING == 3
SECRET == 5
HdrSize == 3
ReadingMax == 256
READ_TIMEOUT == 2        \* seconds
READING_INTERVAL == 2
PUSH_INTERVAL == 3

Hdr(type, len) == <<type, len \div 256, len % 256>>
Reading == <<0, 0, 0, 20, 1, 67>>            \* value, unit length, unit
None == <<>>

VARIABLES
  link,            \* "down", or "up" while QEMU is connected to the daemon
  tx, rx,          \* frames to the daemon, bytes to the device
  g_secret_served, g_secret_window_closed, authenticated,   \* daemon
  rest,            \* payload the daemon has yet to write, and its frame's type
  age,             \* seconds since last_reading
  hpc, nap,        \* the Host: where it is, seconds left to sleep
  call, need, waited,   \* the PTA command, bytes wanted, seconds waited
  psk, sensor_authenticated, reading,   \* the TA; reading None: the last READ failed
  challenge,       \* number of the last challenge made
  connection,      \* connections accepted since the daemon started
  handed,          \* connections in which it handed out the secret
  slipped,         \* a command has ended inside a frame, on this connection
  lags, skips, starts, boots, redials

daemon == <<g_secret_served, g_secret_window_closed, authenticated, rest,
            connection, handed>>
pta == <<call, need, waited>>
ta == <<psk, sensor_authenticated, reading, challenge>>
budgets == <<lags, skips, starts, boots, redials>>
vars == <<link, tx, rx, daemon, age, hpc, nap, pta, ta, slipped, budgets>>

NoRest == [type |-> READING, payload |-> <<>>]
Calls == {"none", "secret", "challenge", "read"}

\* The frame a command waits for, the buffer its payload goes to, and the
\* bytes of uart_read it waits for, some of which it has taken.
Want == CASE call = "challenge" -> CHALLENGE_RESPONSE
          [] call = "secret" -> SECRET
          [] call = "read" -> READING
BufferSize == IF call = "read" THEN ReadingMax ELSE HmacSize
Wanted == IF need = 0 THEN HdrSize ELSE need
Short == Len(rx) < Wanted
Taken == IF call = "none" THEN 0 ELSE IF Short THEN Len(rx) ELSE Wanted

TypeOK ==
  /\ link \in {"down", "up"}
  /\ tx \in Seq([type : {"secretRequest"}] \cup [type : {"challenge"}, n : 1..99])
  /\ rx \in Seq(Bytes) /\ Len(rx) <= MaxRx + Taken
  /\ g_secret_served \in BOOLEAN /\ g_secret_window_closed \in BOOLEAN
  /\ authenticated \in BOOLEAN
  /\ rest \in [type : {CHALLENGE_RESPONSE, READING, SECRET}, payload : Seq(Bytes)]
  /\ age \in 0..READING_INTERVAL
  /\ hpc \in {"off", "pairOnly", "pair", "auth", "loop"}
  /\ nap \in 0..PUSH_INTERVAL
  /\ call \in Calls /\ need \in 0..BufferSize /\ waited \in 0..READ_TIMEOUT
  /\ psk \in Seq(Bytes) /\ reading \in Seq(Bytes)
  /\ sensor_authenticated \in BOOLEAN
  /\ challenge \in 0..99
  /\ connection \in Nat /\ handed \in Seq(Nat) /\ slipped \in BOOLEAN
  /\ lags \in 0..MaxLags /\ skips \in 0..MaxSkips /\ starts \in 0..MaxStarts
  /\ boots \in 0..MaxBoots /\ redials \in 0..MaxRedials

Init ==
  /\ link = "down" /\ tx = <<>> /\ rx = <<>>
  /\ g_secret_served = FALSE /\ g_secret_window_closed = FALSE
  /\ authenticated = FALSE /\ rest = NoRest /\ age = 0
  /\ hpc = "off" /\ nap = 0
  /\ call = "none" /\ need = 0 /\ waited = 0
  /\ psk = None /\ sensor_authenticated = FALSE /\ reading = None
  /\ challenge = 0 /\ connection = 0 /\ handed = <<>> /\ slipped = FALSE
  /\ lags = 0 /\ skips = 0 /\ starts = 0 /\ boots = 0 /\ redials = 0

-----------------------------------------------------------------------------
(* Mutated forms of the helpers below; the specification does not use them *)

Withheld_served == g_secret_served               \* no second gate
PushesReadings_always == TRUE                    \* readings before the challenge
Oversized_any(len) == FALSE                      \* the sensor decides how much

-----------------------------------------------------------------------------
(* Sensor daemon *)

\* A blocking write of bytes b.
Fits(n) == Len(rx) - Taken + n <= MaxRx
Write(b) == Fits(Len(b)) /\ rx' = rx \o b

\* write_frame: header, then payload, in two writes.
write_frame(type, payload) ==
  /\ Write(Hdr(type, Len(payload)))
  /\ rest' = IF payload = <<>> THEN NoRest ELSE [type |-> type, payload |-> payload]

\* The payload, and what the caller of write_frame does once it has returned:
\* the latch closes after the secret; the first answer to a challenge starts
\* the readings, and their timer.
WriteRest ==
  /\ rest # NoRest
  /\ Write(rest.payload)
  /\ rest' = NoRest
  /\ \/ /\ rest.type = SECRET
        /\ g_secret_served' = TRUE
        /\ handed' = Append(handed, connection)
        /\ UNCHANGED <<authenticated, age>>
     \/ /\ rest.type # SECRET
        /\ authenticated' = TRUE
        /\ age' = IF authenticated THEN age ELSE 0
        /\ UNCHANGED <<g_secret_served, handed>>
  /\ UNCHANGED <<link, tx, g_secret_window_closed, connection, hpc, nap, pta, ta,
                 slipped, budgets>>

handle_challenge ==
  /\ link = "up" /\ rest = NoRest
  /\ tx # <<>> /\ Head(tx).type = "challenge"
  /\ tx' = Tail(tx)
  /\ write_frame(CHALLENGE_RESPONSE, Hmac[Head(tx).n])
  /\ UNCHANGED <<link, g_secret_served, g_secret_window_closed, authenticated,
                 connection, handed, age, hpc, nap, pta, ta, slipped, budgets>>

Withheld == g_secret_served \/ g_secret_window_closed \/ authenticated

handle_secret_request ==
  /\ link = "up" /\ rest = NoRest
  /\ tx # <<>> /\ Head(tx).type = "secretRequest"
  /\ tx' = Tail(tx)
  /\ write_frame(SECRET, IF Withheld THEN <<>> ELSE Secret)
  /\ UNCHANGED <<link, g_secret_served, g_secret_window_closed, authenticated,
                 connection, handed, age, hpc, nap, pta, ta, slipped, budgets>>

PushesReadings == authenticated

send_reading ==
  /\ link = "up" /\ rest = NoRest
  /\ PushesReadings /\ age = READING_INTERVAL
  /\ write_frame(READING, Reading)
  /\ age' = 0
  /\ UNCHANGED <<link, tx, g_secret_served, g_secret_window_closed,
                 authenticated, connection, handed, hpc, nap, pta, ta, slipped,
                 budgets>>

Daemon == WriteRest \/ handle_challenge \/ handle_secret_request \/ send_reading

-----------------------------------------------------------------------------
(* PTA *)

Invoke(cmd) == call' = cmd /\ need' = 0 /\ waited' = 0
EndCall == Invoke("none")

\* The secret is stored only if it has its exact size; empty is a refusal.
IsSecret(p) == Len(p) = HmacSize
WellFormed(p) == Len(p) >= 5 /\ p[5] <= 32 /\ Len(p) = 5 + p[5]

\* The TA compares with the HMAC it makes with the secret it has sealed.
Answers(ok, p) == ok /\ psk = Secret /\ p = Hmac[challenge]

\* How each command ends at the Host: main goes on after a failed pull unless
\* it was started to pair, exits if the sensor did not authenticate, and sleeps
\* after each reading.
Done(ok, p) ==
  /\ EndCall
  /\ \/ /\ call = "secret"
        /\ psk' = IF ok /\ IsSecret(p) THEN p ELSE psk
        /\ hpc' = IF hpc = "pair" THEN "auth" ELSE "off"
        /\ UNCHANGED <<sensor_authenticated, reading, nap>>
     \/ /\ call = "challenge"
        /\ sensor_authenticated' = Answers(ok, p)
        /\ hpc' = IF Answers(ok, p) THEN "loop" ELSE "off"
        /\ UNCHANGED <<psk, reading, nap>>
     \/ /\ call = "read"
        /\ reading' = IF ok /\ WellFormed(p) THEN p ELSE None
        /\ nap' = PUSH_INTERVAL
        /\ UNCHANGED <<psk, sensor_authenticated, hpc>>
  /\ UNCHANGED challenge

\* Mutated form, not used: a foreign header is put back.
AfterHeader_kept(n) ==
  IF rx[1] = Want THEN SubSeq(rx, n + 1, Len(rx)) ELSE rx

First(n) == SubSeq(rx, 1, n)
AfterHeader(n) == SubSeq(rx, n + 1, Len(rx))

Foreign(type) == type # Want
Oversized(len) == len > ReadingMax \/ len > BufferSize

\* read_frame, the header: a foreign or oversized frame fails the command and
\* leaves its payload in the stream.
ReadHeader ==
  LET h == First(HdrSize)
      len == h[2] * 256 + h[3]
      bad == Foreign(h[1]) \/ Oversized(len) IN
  /\ call # "none" /\ need = 0 /\ ~Short
  /\ rx' = AfterHeader(HdrSize)
  /\ slipped' = (slipped \/ (bad /\ len > 0))
  /\ \/ (bad \/ len = 0) /\ Done(~bad, None)
     \/ /\ ~bad /\ len > 0
        /\ need' = len /\ waited' = 0
        /\ UNCHANGED <<call, ta, hpc, nap>>
  /\ UNCHANGED <<link, tx, daemon, age, budgets>>

ReadPayload ==
  /\ call # "none" /\ need > 0 /\ ~Short
  /\ rx' = SubSeq(rx, need + 1, Len(rx))
  /\ Done(TRUE, First(need))
  /\ UNCHANGED <<link, tx, daemon, age, slipped, budgets>>

\* Mutated form, not used: the result of uart_read is ignored.
ReadTimeout_ignored ==
  /\ call # "none" /\ Short /\ waited = READ_TIMEOUT
  /\ rx' = <<>>
  /\ slipped' = (slipped \/ need > 0 \/ rx # <<>>)
  /\ Done(TRUE, [i \in 1..need |-> IF i <= Len(rx) THEN rx[i] ELSE 0])
  /\ UNCHANGED <<link, tx, daemon, age, budgets>>

\* uart_read gives up, with the bytes it got.
ReadTimeout ==
  /\ call # "none" /\ Short /\ waited = READ_TIMEOUT
  /\ rx' = <<>>
  /\ slipped' = (slipped \/ need > 0 \/ rx # <<>>)
  /\ Done(FALSE, None)
  /\ UNCHANGED <<link, tx, daemon, age, budgets>>

-----------------------------------------------------------------------------
(* Host and TA *)

\* main starts, to run or only to pair: a TA session opens, and the secret is
\* pulled if none is sealed.
StartHost ==
  /\ link = "up" /\ hpc = "off" /\ starts < MaxStarts
  /\ starts' = starts + 1
  /\ sensor_authenticated' = FALSE /\ reading' = None /\ nap' = 0
  /\ \/ /\ psk # None
        /\ hpc' = "auth"
        /\ UNCHANGED <<pta, tx>>
     \/ /\ psk = None
        /\ hpc' \in {"pair", "pairOnly"}
        /\ Invoke("secret")
        /\ tx' = Append(tx, [type |-> "secretRequest"])
  /\ UNCHANGED <<link, rx, daemon, age, psk, challenge, slipped, lags, skips, boots,
                 redials>>

ta_authenticate_sensor ==
  /\ hpc = "auth" /\ call = "none"
  /\ \/ /\ psk = None
        /\ hpc' = "off"
        /\ UNCHANGED <<pta, tx, challenge>>
     \/ /\ psk # None
        /\ challenge' = challenge + 1
        /\ Invoke("challenge")
        /\ tx' = Append(tx, [type |-> "challenge", n |-> challenge + 1])
        /\ UNCHANGED hpc
  /\ UNCHANGED <<link, rx, daemon, age, nap, psk, sensor_authenticated, reading,
                 slipped, budgets>>

\* One round of the push loop: READ, or nothing if there is no session with
\* the server.
PushLoop ==
  /\ hpc = "loop" /\ call = "none" /\ nap = 0
  /\ \/ /\ Invoke("read")
        /\ UNCHANGED <<nap, skips>>
     \/ /\ skips < MaxSkips
        /\ skips' = skips + 1
        /\ nap' = PUSH_INTERVAL
        /\ UNCHANGED pta
  /\ UNCHANGED <<link, tx, rx, daemon, age, hpc, ta, slipped, lags, starts, boots,
                 redials>>

Device == ReadHeader \/ ReadPayload \/ ReadTimeout \/ ta_authenticate_sensor \/ PushLoop

-----------------------------------------------------------------------------
(* Environment *)

DeviceWaits ==
  \/ hpc = "off"
  \/ hpc = "loop" /\ call = "none" /\ nap > 0
  \/ call # "none" /\ Short /\ waited < READ_TIMEOUT

\* The daemon has something to do and is not blocked in a write.
DaemonDue ==
  /\ link = "up"
  /\ \/ rest # NoRest /\ Fits(Len(rest.payload))
     \/ /\ rest = NoRest /\ Fits(HdrSize)
        /\ tx # <<>> \/ (PushesReadings /\ age = READING_INTERVAL)

Capped(n, bound) == IF n < bound THEN n + 1 ELSE bound

Tick ==
  /\ link = "up" /\ DeviceWaits
  /\ \/ ~DaemonDue /\ UNCHANGED lags
     \/ DaemonDue /\ lags < MaxLags /\ lags' = lags + 1
  /\ age' = Capped(age, READING_INTERVAL)
  /\ nap' = IF nap > 0 THEN nap - 1 ELSE 0
  /\ waited' = IF call = "none" THEN waited ELSE waited + 1
  /\ UNCHANGED <<link, tx, rx, daemon, hpc, call, need, ta, slipped, skips, starts,
                 boots, redials>>

Accept ==
  /\ link' = "up" /\ tx' = <<>> /\ rx' = <<>>
  /\ authenticated' = FALSE /\ rest' = NoRest /\ age' = 0 /\ slipped' = FALSE

\* run-project.sh: a new daemon, then QEMU; the storage disk may be new.
Boot ==
  /\ link = "down" /\ boots < MaxBoots
  /\ boots' = boots + 1 /\ starts' = 0
  /\ Accept
  /\ g_secret_served' = FALSE /\ g_secret_window_closed' = FALSE
  /\ connection' = 1 /\ handed' = <<>>
  /\ psk' \in {psk, None}
  /\ UNCHANGED <<hpc, nap, pta, sensor_authenticated, reading, challenge, lags,
                 skips, redials>>

\* Somebody connects to the running daemon after QEMU has gone.
Redial ==
  /\ link = "down" /\ connection > 0 /\ redials < MaxRedials
  /\ redials' = redials + 1
  /\ Accept
  /\ connection' = connection + 1
  /\ psk' \in {psk, None}
  /\ UNCHANGED <<g_secret_served, g_secret_window_closed, handed, hpc, nap, pta,
                 sensor_authenticated, reading, challenge, lags, skips, starts,
                 boots>>

\* QEMU exits; the daemon's serve returns and closes the window.
PowerOff ==
  /\ link = "up" /\ (boots < MaxBoots \/ redials < MaxRedials)
  /\ link' = "down" /\ tx' = <<>> /\ rx' = <<>>
  /\ g_secret_window_closed' = TRUE /\ authenticated' = FALSE /\ rest' = NoRest
  /\ hpc' = "off" /\ nap' = 0 /\ EndCall /\ slipped' = FALSE
  /\ sensor_authenticated' = FALSE /\ reading' = None
  /\ UNCHANGED <<g_secret_served, connection, handed, age, psk, challenge, budgets>>

\* The Host process ends between two commands.
KillHost ==
  /\ hpc = "loop" /\ call = "none" /\ starts < MaxStarts
  /\ hpc' = "off" /\ nap' = 0
  /\ sensor_authenticated' = FALSE /\ reading' = None
  /\ UNCHANGED <<link, tx, rx, daemon, age, pta, psk, challenge, slipped, budgets>>

Next ==
  \/ Daemon \/ Device \/ StartHost
  \/ Tick \/ Boot \/ Redial \/ PowerOff \/ KillHost

\* Both processes run and time passes.
Fairness == WF_vars(Daemon) /\ WF_vars(Device) /\ WF_vars(Tick)

Spec == Init /\ [][Next]_vars /\ Fairness

-----------------------------------------------------------------------------
(* Properties *)

\* One daemon process hands out its secret at most once, and only in the
\* first connection it accepted, however connections come and go and pulls
\* time out and are retried (sensor_daemon.c, "hands the burned-in secret to
\* the device, at most once for this process").
SecretServedOnce == handed \in {<<>>, <<1>>}

\* What the TA protects as a reading is a reading, whatever bytes the secret
\* and the HMACs have: timeouts and late answers leave parts of them in the
\* stream, but the TA reads only once the sensor is authenticated, and the HMAC
\* it then took ends where a frame ends.  A secret is pulled before that, so
\* what it seals is the sensor's secret if no earlier command ended inside a
\* frame (read_frame: "false on timeout / a frame whose type doesn't match").
NothingMisread ==
  [][/\ reading' \in {reading, None, Reading}
     /\ ~slipped => psk' \in {psk, None, Secret}]_vars

\* A push loop whose READ failed gets a reading again: a late payload leaves
\* the stream out of step, its bytes are read as headers, and the following
\* READs must get back into step.
ReadsAgain ==
  (hpc = "loop" /\ reading = None) ~> (reading = Reading \/ hpc # "loop")

\* Unless the daemon is late, the Host's first run on the daemon's first
\* connection pairs and authenticates, sealed secret or not, after a run that
\* only paired or not ("no reading is ever sent before the first successful
\* challenge-response").
Authenticates ==
  (hpc \in {"pair", "auth"} /\ connection = 1 /\ ~authenticated)
    ~> (sensor_authenticated \/ link = "down" \/ lags > 0)

\* "by then the TA is actively draining the link roughly once per push
\* interval, so no backlog can build up" (sensor_daemon.c, serve): what the
\* sensor sent fits into the receive FIFO.
NoBacklog == hpc = "loop" => Len(rx) <= Fifo
=============================================================================
