---------------------------- MODULE SensorUart ----------------------------
(***************************************************************************)
(* Two TA instances that pull the sensor's secret at the same time.  The   *)
(* sensor link pseudo-TA (core/pta/sensor_link.c) runs their commands      *)
(* concurrently and has no lock around the UART, so that they interleave   *)
(* byte by byte, in both directions.  SensorLink has one command at a time *)
(* with the rest of the protocol; here it is only the pull, with the       *)
(* daemon's side of it (sensor_daemon.c) and the TA's                      *)
(* ta_provision_sensor_secret around it.                                   *)
(***************************************************************************)
EXTENDS Naturals, Sequences

CONSTANTS
  Clients,      \* TA instances
  SecretSize    \* SENSOR_LINK_SECRET_SIZE, at most 255

SECRET_REQUEST == 4
SECRET == 5
HdrSize == 3
Secret == [i \in 1..SecretSize |-> 200]   \* bytes that are no frame type
None == <<>>

VARIABLES
  tx, rx,           \* bytes to the daemon, and to the device
  connected,        \* the daemon serves the connection
  g_secret_served,
  pc,               \* [Clients -> where the instance's command is]
  out, got,         \* bytes it has yet to write, bytes uart_read has so far
  psk               \* the object ciot.sensor.psk

vars == <<tx, rx, connected, g_secret_served, pc, out, got, psk>>

Init ==
  /\ tx = <<>> /\ rx = <<>> /\ connected = TRUE /\ g_secret_served = FALSE
  /\ pc = [c \in Clients |-> "idle"]
  /\ out = [c \in Clients |-> <<>>]
  /\ got = [c \in Clients |-> <<>>]
  /\ psk = None

Goto(c, step) == pc' = [pc EXCEPT ![c] = step]
Length(hdr) == hdr[2] * 256 + hdr[3]

-----------------------------------------------------------------------------
(* TA and PTA *)

\* A sealed secret ends the command before it touches the link.
ta_provision_sensor_secret(c) ==
  /\ pc[c] = "idle"
  /\ \/ psk # None /\ Goto(c, "done") /\ UNCHANGED out
     \/ /\ psk = None
        /\ Goto(c, "write")
        /\ out' = [out EXCEPT ![c] = <<SECRET_REQUEST, 0, 0>>]
  /\ UNCHANGED <<tx, rx, connected, g_secret_served, got, psk>>

uart_write(c) ==
  /\ pc[c] = "write"
  /\ tx' = Append(tx, Head(out[c]))
  /\ out' = [out EXCEPT ![c] = Tail(@)]
  /\ Goto(c, IF Tail(out[c]) = <<>> THEN "poll" ELSE "write")
  /\ UNCHANGED <<rx, connected, g_secret_served, got, psk>>

have_rx_data(c) ==
  /\ pc[c] = "poll" /\ rx # <<>>
  /\ Goto(c, "getchar")
  /\ UNCHANGED <<tx, rx, connected, g_secret_served, out, got, psk>>

\* The two seconds are over and there is no byte.
ReadTimeout(c) ==
  /\ pc[c] = "poll" /\ rx = <<>>
  /\ Goto(c, "done")
  /\ UNCHANGED <<tx, rx, connected, g_secret_served, out, got, psk>>

\* Where read_frame and sensor_link_fetch_secret are with these bytes read: a
\* foreign or oversized frame ends the command at its header, one of another
\* length than the secret's after its payload.
AfterByte(bytes) ==
  LET hdr == SubSeq(bytes, 1, HdrSize)
      whole == Len(bytes) = HdrSize + Length(hdr) IN
  CASE Len(bytes) < HdrSize -> "poll"
    [] Len(bytes) >= HdrSize /\ (hdr[1] # SECRET \/ Length(hdr) > SecretSize) -> "done"
    [] OTHER -> IF ~whole THEN "poll"
                ELSE IF Length(hdr) = SecretSize THEN "create" ELSE "done"

\* pl011_getchar waits for a byte however long it takes.
getchar(c) ==
  /\ pc[c] = "getchar" /\ rx # <<>>
  /\ rx' = Tail(rx)
  /\ got' = [got EXCEPT ![c] = Append(@, Head(rx))]
  /\ Goto(c, AfterByte(Append(got[c], Head(rx))))
  /\ UNCHANGED <<tx, connected, g_secret_served, out, psk>>

\* TEE_CreatePersistentObject without OVERWRITE; a conflict is a success.
Create(c) ==
  /\ pc[c] = "create"
  /\ psk' = IF psk = None THEN SubSeq(got[c], HdrSize + 1, HdrSize + SecretSize)
            ELSE psk
  /\ Goto(c, "done")
  /\ UNCHANGED <<tx, rx, connected, g_secret_served, out, got>>

-----------------------------------------------------------------------------
(* Sensor daemon *)

\* serve: a request is answered with the secret once and then refused; a
\* header that is no request ends the connection.
serve ==
  LET hdr == SubSeq(tx, 1, HdrSize) IN
  /\ connected /\ Len(tx) >= HdrSize
  /\ tx' = SubSeq(tx, HdrSize + 1, Len(tx))
  /\ \/ /\ hdr = <<SECRET_REQUEST, 0, 0>>
        /\ rx' = rx \o (IF g_secret_served THEN <<SECRET, 0, 0>>
                        ELSE <<SECRET, 0, SecretSize>> \o Secret)
        /\ g_secret_served' = TRUE
        /\ UNCHANGED connected
     \/ /\ hdr # <<SECRET_REQUEST, 0, 0>>
        /\ connected' = FALSE
        /\ UNCHANGED <<rx, g_secret_served>>
  /\ UNCHANGED <<pc, out, got, psk>>

Client(c) ==
  \/ ta_provision_sensor_secret(c) \/ uart_write(c) \/ have_rx_data(c)
  \/ ReadTimeout(c) \/ getchar(c) \/ Create(c)

Next == serve \/ \E c \in Clients : Client(c)

Spec == Init /\ [][Next]_vars

-----------------------------------------------------------------------------
(* Properties *)

\* "ACCESS_CONFLICT here means a concurrent session won the race between the
\* probe above and this create, storing the same value" (trusted_app.c): what
\* two pulls at once leave sealed is the sensor's secret.
SealedIsTheSecret == psk \in {None, Secret}
=============================================================================
