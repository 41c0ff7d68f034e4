---------------------------- MODULE EdgeDevice ----------------------------
(***************************************************************************)
(* The Host CA's push loop (edge_device/host/main.c, edge_device.c, net.c) *)
(* composed with the server's end of the link (AttestedLink).  Of the TA   *)
(* it sees one session: the keypair of the challenge in hand, the session  *)
(* key and the send counter (TrustedApp has the TA in detail).             *)
(*                                                                         *)
(* One step is one call that may block or that touches the socket.  The    *)
(* sockets have no timeout, so a receive waits until a line or the end of  *)
(* the connection arrives.                                                 *)
(***************************************************************************)
EXTENDS AttestedLink

CONSTANTS
  NoConn,
  MaxFaults,     \* bound on broken connections, slow or failed attestations
                 \* and restarts of the device process
  MaxExpiries,   \* bound on session timeouts
  MaxRestarts    \* bound on restarts of the server process

ASSUME BudgetsAssumption ==
  /\ MaxFaults \in Nat /\ MaxExpiries \in Nat /\ MaxRestarts \in Nat
  /\ NoConn \notin Conns

\* The Host seals what push_reading composes, an object with samples.
ASSUME PlaintextsAssumption == Plaintexts = {"samples"}

VARIABLES
  hpc,          \* where the push loop stands
  conn,         \* g_conn, NoConn when g_conn_open is 0
  g_attested,
  g_expired,    \* mono_now() has reached g_session_expiry
  g_nonce,      \* the challenge in hand, whose keypair the TA holds
  ta_key,       \* the TA's session key, NoNonce while it is not valid
  send_seq,
  faults, expiries, restarts

host == <<hpc, conn, g_attested, g_expired, g_nonce, ta_key, send_seq>>
budgets == <<faults, expiries, restarts>>
vars == <<linkVars, host, budgets>>

HostSteps == {"check", "hello", "waitChallenge", "respond", "waitResult",
              "push", "drop", "dead"}

HostTypeOK ==
  /\ hpc \in HostSteps
  /\ conn \in Conns \cup {NoConn}
  /\ g_attested \in BOOLEAN /\ g_expired \in BOOLEAN
  /\ g_nonce \in Nonces \cup {NoNonce}
  /\ ta_key \in Nonces \cup {NoNonce}
  /\ send_seq \in 0..MaxSeq
  /\ faults \in 0..MaxFaults
  /\ expiries \in 0..MaxExpiries
  /\ restarts \in 0..MaxRestarts
  /\ hpc \in HostSteps \ {"check", "dead"} => conn # NoConn

Booted ==
  /\ hpc' = "check" /\ conn' = NoConn
  /\ g_attested' = FALSE /\ g_expired' = FALSE /\ g_nonce' = NoNonce
  /\ ta_key' = NoNonce /\ send_seq' = 0

Init ==
  /\ LinkInit
  /\ hpc = "check" /\ conn = NoConn
  /\ g_attested = FALSE /\ g_expired = FALSE /\ g_nonce = NoNonce
  /\ ta_key = NoNonce /\ send_seq = 0
  /\ faults = 0 /\ expiries = 0 /\ restarts = 0

-----------------------------------------------------------------------------
(* Mutated forms of the helpers below; the specification does not use them *)

SessionValid_forever == g_attested        \* the deadline is not tracked
DropTaKey_keep == UNCHANGED ta_key        \* the old key outlives a handshake
SeqLeft_late == send_seq <= MaxSeq        \* off by one

-----------------------------------------------------------------------------
(* net.c *)

\* net_send_line: send() with no flags, twice per line.  On a connection
\* that the server closed, the first line is lost and a reset comes back,
\* and a send() after the reset raises SIGPIPE, whose default action ends
\* the process.  On a broken connection send() returns an error.
SendLine(m, next) ==
  \/ Send(conn, m) /\ hpc' = next /\ UNCHANGED conn
  \/ SendLost(conn) /\ hpc' = next /\ UNCHANGED conn
  \/ /\ link[conn] \in {"srvClosed", "reset"} /\ Close(conn)
     /\ hpc' = "dead" /\ conn' = NoConn
  \/ link[conn] = "broken" /\ hpc' = "drop" /\ UNCHANGED <<linkVars, conn>>

\* net_recv_line returns the next line, or an error at the end of the
\* connection; a failure leads to edge_reset_connection.
AtEnd ==
  \/ link[conn] = "broken"
  \/ link[conn] \in {"srvClosed", "reset"} /\ dn[conn] = <<>>

-----------------------------------------------------------------------------
(* edge_ensure_session *)

SessionValid == g_attested /\ ~g_expired

\* A valid session needs nothing; otherwise attest again, over the open
\* connection if there is one.
edge_ensure_session ==
  /\ hpc = "check"
  /\ \/ /\ SessionValid
        /\ hpc' = "push"
        /\ UNCHANGED <<linkVars, conn, g_attested>>
     \/ /\ ~SessionValid
        /\ g_attested' = FALSE
        /\ hpc' = "hello"
        /\ \/ conn # NoConn /\ UNCHANGED <<linkVars, conn>>
           \/ conn = NoConn /\ \E c \in Conns : Connect(c) /\ conn' = c
  /\ UNCHANGED <<g_expired, g_nonce, ta_key, send_seq, budgets>>

SendHello ==
  /\ hpc = "hello"
  /\ SendLine([type |-> "hello", id |-> "this"], "waitChallenge")
  /\ UNCHANGED <<g_attested, g_expired, g_nonce, ta_key, send_seq, budgets>>

DropTaKey == ta_key' = NoNonce

\* Any line that is not a challenge fails the attempt.  With a challenge the
\* TA drops its session key and makes a keypair.
RecvChallenge ==
  /\ hpc = "waitChallenge"
  /\ \/ LET m == Head(dn[conn]) IN
        /\ Receive(conn)
        /\ \/ /\ m.type = "attest_challenge"
              /\ g_nonce' = m.n /\ DropTaKey
              /\ hpc' = "respond"
           \/ /\ m.type # "attest_challenge"
              /\ hpc' = "drop"
              /\ UNCHANGED <<g_nonce, ta_key>>
     \/ /\ AtEnd
        /\ hpc' = "drop"
        /\ UNCHANGED <<linkVars, g_nonce, ta_key>>
  /\ UNCHANGED <<conn, g_attested, g_expired, send_seq, budgets>>

\* The TA's evidence and the fTPM's quote go out, unless one of them fails.
SendResponse ==
  /\ hpc = "respond"
  /\ \/ /\ SendLine([type |-> "attest_response", n |-> g_nonce], "waitResult")
        /\ UNCHANGED faults
     \/ /\ faults < MaxFaults
        /\ faults' = faults + 1
        /\ hpc' = "drop"
        /\ UNCHANGED <<linkVars, conn>>
  /\ UNCHANGED <<g_attested, g_expired, g_nonce, ta_key, send_seq, expiries,
                 restarts>>

\* ok, with a server_sig that the TA finds to be over its own transcript.
SignatureVerifies(m) == m.ok /\ m.n = g_nonce

RecvResult ==
  /\ hpc = "waitResult"
  /\ \/ LET m == Head(dn[conn]) IN
        /\ Receive(conn)
        /\ \/ /\ m.type = "attest_result" /\ SignatureVerifies(m)
              /\ g_attested' = TRUE /\ g_expired' = FALSE
              /\ ta_key' = g_nonce /\ send_seq' = 0
              /\ hpc' = "push"
           \/ /\ ~(m.type = "attest_result" /\ SignatureVerifies(m))
              /\ hpc' = "drop"
              /\ UNCHANGED <<g_attested, g_expired, ta_key, send_seq>>
     \/ /\ AtEnd
        /\ hpc' = "drop"
        /\ UNCHANGED <<linkVars, g_attested, g_expired, ta_key, send_seq>>
  /\ UNCHANGED <<conn, g_nonce, budgets>>

\* edge_reset_connection
edge_reset_connection ==
  /\ hpc = "drop"
  /\ Close(conn)
  /\ conn' = NoConn /\ hpc' = "check"
  /\ g_attested' = FALSE /\ g_expired' = FALSE
  /\ UNCHANGED <<g_nonce, ta_key, send_seq, budgets>>

-----------------------------------------------------------------------------
(* The push loop *)

SeqLeft == send_seq < MaxSeq

\* One reading, sealed and sent.  The server's answer is not read.  If the
\* TA refuses (no reading, or the counter is used up) the loop goes on.
PushReading ==
  /\ hpc = "push"
  /\ \/ /\ ta_key # NoNonce /\ SeqLeft
        /\ send_seq' = send_seq + 1
        /\ SendLine([type |-> "data", key |-> ta_key, seq |-> send_seq + 1],
                    "check")
     \/ /\ hpc' = "check"
        /\ UNCHANGED <<linkVars, conn, send_seq>>
  /\ UNCHANGED <<g_attested, g_expired, g_nonce, ta_key, budgets>>

\* The device's deadline starts when the result arrives, the server's when
\* the session is stored: the server's has passed by then.
DeadlinePasses ==
  /\ g_attested /\ ~g_expired
  /\ session_key # ta_key \/ session_expired
  /\ g_expired' = TRUE
  /\ UNCHANGED <<linkVars, hpc, conn, g_attested, g_nonce, ta_key, send_seq,
                 budgets>>

-----------------------------------------------------------------------------
(* Environment *)

Fault ==
  /\ faults < MaxFaults
  /\ faults' = faults + 1
  /\ (\E c \in Conns : Break(c)) \/ ChallengeTimeout
  /\ UNCHANGED <<host, expiries, restarts>>

\* The device reboots: any time within the bound, and once its process died.
Reboot ==
  /\ \/ hpc = "dead" /\ UNCHANGED faults
     \/ hpc # "dead" /\ faults < MaxFaults /\ faults' = faults + 1
  /\ IF conn = NoConn THEN UNCHANGED linkVars ELSE Close(conn)
  /\ Booted
  /\ UNCHANGED <<expiries, restarts>>

Expiry ==
  /\ expiries < MaxExpiries
  /\ expiries' = expiries + 1
  /\ SessionTimeout
  /\ UNCHANGED <<host, faults, restarts>>

ServerRestart ==
  /\ restarts < MaxRestarts
  /\ restarts' = restarts + 1
  /\ RestartServer
  /\ UNCHANGED <<host, faults, expiries>>

HostStep ==
  \/ edge_ensure_session \/ SendHello \/ RecvChallenge \/ SendResponse
  \/ RecvResult \/ PushReading \/ edge_reset_connection

Server(c) == ServerStep(c) /\ UNCHANGED <<host, budgets>>
Operator == RegisterDevice /\ UNCHANGED <<host, budgets>>

Next ==
  \/ HostStep \/ DeadlinePasses
  \/ \E c \in Conns : Server(c)
  \/ Operator \/ Fault \/ Reboot \/ Expiry \/ ServerRestart

\* The loop and the server's threads keep running, and a device past its
\* deadline finds out.
Fairness ==
  /\ WF_vars(HostStep)
  /\ \A c \in Conns : WF_vars(Server(c))
  /\ WF_vars(DeadlinePasses)

Spec == Init /\ [][Next]_vars /\ Fairness

-----------------------------------------------------------------------------
(* Properties *)

\* A key the TA can seal with is one the server stored a session under, and
\* the newest it ever stored: the device never seals under a key that the
\* server has moved on from, whichever attempt failed half way
\* (CMD_HANDSHAKE_INIT drops the old key before the response goes out).
NewestKey ==
  ta_key # NoNonce => ta_key \in installed /\ \A k \in installed : k <= ta_key

\* The device never waits for a line that nobody is going to write: with no
\* receive timeout on the socket it would wait for ever.
WaitsAreAnswered ==
  hpc \in {"waitChallenge", "waitResult"} /\ link[conn] = "open" =>
    /\ thread[conn] # "none"
    /\ dn[conn] # <<>> \/ up[conn] # <<>> \/ thread[conn] # "read"

\* With a Host that says hello for no device but its own, the verdict of a
\* device that is gone is never ok ("so the dashboard doesn't keep showing a
\* stale ok for a device that's gone", attested_network.py).
GoneIsNotOk == (\A c \in Conns : thread[c] = "none") => verdict # "ok"

Synced == g_attested /\ ta_key = session_key /\ ~session_expired

\* A registered device gets back to a session that both sides hold under the
\* same key, whatever broke it: a lost connection, a late thread that stores
\* an older key over a newer one, a challenge overwritten by a stale hello.
Resyncs ==
  registered ~> (Synced \/ hpc = "dead" \/ ~registered)

\* "Reuse the existing connection when re-attesting (device-driven
\* re-attestation on expiry): the server's per-connection loop handles a
\* repeat hello and derives a fresh session over the same socket"
\* (edge_device.c): with nothing broken, an attested device never leaves its
\* connection.
ConnectionReused ==
  [][g_nonce # NoNonce => conn' = conn]_vars

\* "server send failed; will re-attest" (main.c): the push loop outlives a
\* restart of the server.
KeepsRunning == hpc # "dead"
=============================================================================
