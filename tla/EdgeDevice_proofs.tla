------------------------- MODULE EdgeDevice_proofs -------------------------
(***************************************************************************)
(* Proofs about the push loop composed with the server's end of the link,  *)
(* for any number of connections, challenges and messages and any bounds   *)
(* on faults, timeouts and restarts.                                       *)
(*                                                                         *)
(* The device is one of the clients that AttestedLink allows, so what is   *)
(* proved there holds here.  For the keys, Offers says that the challenges *)
(* waiting for the device come in order, none of them older than the one   *)
(* in hand or than any response that is under way or was accepted: then    *)
(* nothing newer than the challenge in hand can have been answered.        *)
(***************************************************************************)
EXTENDS EdgeDevice, AttestedLink_proofs

\* A live process that believes it has a session has a connection.
Attached == g_attested /\ hpc # "dead" => conn # NoConn

\* An open connection has a thread, and no line waits for a closed one.
Wired ==
  \A c \in Conns : /\ link[c] = "open" => thread[c] # "none"
                   /\ link[c] \in {"free", "hostClosed"} => dn[c] = <<>>

IsChallenge(m) == m.type = "attest_challenge"

IsResponse(m, n) == m.type = "attest_response" /\ m.n = n

\* A response to challenge n is under way, or was accepted.
Sent(n) == \E c \in Conns : \E i \in DOMAIN up[c] : IsResponse(up[c][i], n)
Answered(n) ==
  \/ Sent(n)
  \/ \E c \in Conns : thread[c] = "install" /\ held[c].n = n
  \/ n \in installed

Ordered(s) ==
  \A i, j \in DOMAIN s :
    i < j /\ IsChallenge(s[i]) /\ IsChallenge(s[j]) => s[i].n <= s[j].n

\* n is no older than what the device holds and than what was answered.
Newest(n) ==
  /\ g_nonce <= n
  /\ \A k \in Nonces : Answered(k) => k <= n

Offers ==
  conn # NoConn =>
    /\ Ordered(dn[conn])
    /\ \A i \in DOMAIN dn[conn] :
         LET m == dn[conn][i] IN
         /\ IsChallenge(m) => m.n <= issued /\ Newest(m.n)
         /\ m.type = "attest_result" /\ m.ok => m.n \in installed

InHand ==
  /\ Newest(issued)
  /\ g_nonce # NoNonce => Newest(g_nonce)
  /\ ta_key # NoNonce => ta_key = g_nonce /\ ta_key \in installed

Inv == /\ TypeOK /\ SingleUse /\ HostTypeOK
       /\ Attached /\ Wired /\ Offers /\ InHand

-----------------------------------------------------------------------------
(* The device as a client of the link *)

\* The steps of the link in which no line is sent to the server.
Quiet ==
  \/ \E c \in Conns : \/ ServerStep(c) \/ Connect(c) \/ Receive(c)
                      \/ SendLost(c) \/ Close(c) \/ Break(c)
  \/ SessionTimeout \/ ChallengeTimeout \/ RegisterDevice \/ RestartServer

\* What the device sends; a response only to the challenge in hand, a hello
\* only for itself.
HostLine(m) == /\ m.type = "attest_response" => m.n = g_nonce
               /\ m.type = "hello" => m.id = "this"
HostSend == \E m \in UpMsg : conn \in Conns /\ Send(conn, m) /\ HostLine(m)

\* One line out, as far as the link is concerned.
LEMMA SendLineStep ==
  ASSUME conn \in Conns, NEW m \in UpMsg, NEW next, SendLine(m, next),
         HostLine(m)
  PROVE  HostSend \/ [Quiet]_linkVars
  BY DEF SendLine, HostSend, Quiet

\* A step of the composition is, for the link, a send of the device, a step
\* of somebody else, or nothing.
LEMMA LinkStep ==
  ASSUME HostTypeOK, [Next]_vars
  PROVE  HostSend \/ [Quiet]_linkVars
<1>0. /\ hpc \in HostSteps \ {"check", "dead"} => conn \in Conns
      /\ conn \in Conns \cup {NoConn}
      /\ g_nonce \in Nonces \cup {NoNonce} /\ ta_key \in Nonces \cup {NoNonce}
      /\ send_seq \in 0..MaxSeq
  BY DEF HostTypeOK
<1>1. CASE edge_ensure_session
  BY <1>1 DEF edge_ensure_session, Quiet
<1>2. CASE SendHello
  <2>1. [type |-> "hello", id |-> "this"] \in UpMsg
    BY DEF UpMsg, Hello
  <2> QED
    BY <1>0, <1>2, <2>1, SendLineStep DEF SendHello, HostLine, HostSteps
<1>3. CASE RecvChallenge \/ RecvResult
  BY <1>0, <1>3 DEF RecvChallenge, RecvResult, HostSteps, Quiet
<1>4. CASE SendResponse
  <2>1. [type |-> "attest_response", n |-> g_nonce] \in UpMsg
    BY <1>0 DEF UpMsg, Response
  <2> QED
    BY <1>0, <1>4, <2>1, SendLineStep DEF SendResponse, HostLine, HostSteps
<1>5. CASE PushReading
  <2> DEFINE m == [type |-> "data", key |-> ta_key, seq |-> send_seq + 1]
  <2>1. ta_key # NoNonce => m \in UpMsg
    <3>1. send_seq + 1 \in 1..MaxSeq + 1
      BY <1>0, BoundsAssumption
    <3> QED
      BY <1>0, <3>1 DEF UpMsg, Data
  <2>2. HostLine(m)
    BY DEF HostLine
  <2>3. conn \in Conns
    BY <1>0, <1>5 DEF PushReading, HostSteps
  <2>4. CASE ta_key # NoNonce /\ SendLine(m, "check")
    BY <2>1, <2>2, <2>3, <2>4, SendLineStep
  <2>5. CASE UNCHANGED linkVars
    BY <2>5
  <2> QED
    BY <1>5, <2>4, <2>5 DEF PushReading
<1>6. CASE edge_reset_connection
  BY <1>0, <1>6 DEF edge_reset_connection, HostSteps, Quiet
<1>7. CASE DeadlinePasses \/ Operator \/ Fault \/ Expiry \/ ServerRestart
  BY <1>7 DEF DeadlinePasses, Operator, Fault, Expiry, ServerRestart, Quiet
<1>8. CASE Reboot
  BY <1>0, <1>8 DEF Reboot, Quiet
<1>9. ASSUME NEW c \in Conns, Server(c) PROVE [Quiet]_linkVars
  BY <1>9 DEF Server, Quiet
<1>10. CASE UNCHANGED vars
  BY <1>10 DEF vars
<1> QED
  BY <1>1, <1>2, <1>3, <1>4, <1>5, <1>6, <1>7, <1>8, <1>9, <1>10
  DEF Next, HostStep

\* What the device does to the link, a client of the link may do.
LEMMA ClientStepOK ==
  ASSUME HostSend \/ [Quiet]_linkVars
  PROVE  [LinkNext]_linkVars
  BY DEF HostSend, Quiet, LinkNext, ClientStep

-----------------------------------------------------------------------------
(* Types of the device's state *)

\* Where a send leaves the loop: at the next step, at the reset of the
\* connection, or killed.
LEMMA SendLineHost ==
  ASSUME conn \in Conns, NEW m, NEW next \in HostSteps, SendLine(m, next)
  PROVE  /\ hpc' \in HostSteps
         /\ \/ conn' = conn /\ hpc' \in {next, "drop"}
            \/ conn' = NoConn /\ hpc' = "dead"
  BY DEF SendLine, HostSteps

\* Lines from the server carry challenges that can be numbered.
LEMMA LineFromServer ==
  ASSUME TypeOK, NEW c \in Conns, Receive(c)
  PROVE  /\ Head(dn[c]) \in DownMsg
         /\ IsChallenge(Head(dn[c])) => Head(dn[c]).n \in Nonces
<1>1. Head(dn[c]) \in DownMsg
  BY HeadTailProperties DEF TypeOK, Receive
<1>2. \A m \in DownMsg : m.type = "attest_challenge" => m.n \in Nonces
  BY DEF DownMsg
<1> QED
  BY <1>1, <1>2 DEF IsChallenge

\* Every step of the loop and of its environment keeps the device's types,
\* and the loop goes on with a connection wherever it needs one.
LEMMA HostStepType ==
  ASSUME TypeOK, HostTypeOK, Attached, [Next]_vars
  PROVE  HostTypeOK' /\ Attached'
<1>0. /\ hpc \in HostSteps
      /\ hpc \in HostSteps \ {"check", "dead"} => conn \in Conns
      /\ conn \in Conns \cup {NoConn} /\ NoConn \notin Conns
      /\ g_attested \in BOOLEAN /\ g_expired \in BOOLEAN
      /\ g_nonce \in Nonces \cup {NoNonce} /\ ta_key \in Nonces \cup {NoNonce}
      /\ send_seq \in 0..MaxSeq
      /\ faults \in 0..MaxFaults /\ expiries \in 0..MaxExpiries
      /\ restarts \in 0..MaxRestarts
      /\ MaxFaults \in Nat /\ MaxExpiries \in Nat /\ MaxRestarts \in Nat
      /\ MaxSeq \in Nat
  BY BoundsAssumption, BudgetsAssumption DEF HostTypeOK
<1> USE <1>0
<1>1. CASE edge_ensure_session
  <2>1. conn' \in Conns /\ hpc' \in {"push", "hello"} /\ g_attested' \in BOOLEAN
    BY <1>1 DEF edge_ensure_session, SessionValid, Attached
  <2> QED
    BY <1>1, <2>1 DEF edge_ensure_session, HostTypeOK, Attached, HostSteps, budgets
<1>2. CASE SendHello
  <2>1. /\ hpc' \in HostSteps
        /\ \/ conn' = conn /\ hpc' \in {"waitChallenge", "drop"}
           \/ conn' = NoConn /\ hpc' = "dead"
    BY <1>2, SendLineHost DEF SendHello, HostSteps
  <2> QED
    BY <1>2, <2>1 DEF SendHello, HostTypeOK, Attached, HostSteps, budgets
<1>3. CASE RecvChallenge
  <2>1. g_nonce' \in Nonces \cup {NoNonce} /\ ta_key' \in Nonces \cup {NoNonce}
    BY <1>3, LineFromServer
    DEF RecvChallenge, HostSteps, IsChallenge, DropTaKey
  <2> QED
    BY <1>3, <2>1 DEF RecvChallenge, HostTypeOK, Attached, HostSteps, budgets
<1>4. CASE SendResponse
  <2>1. /\ hpc' \in HostSteps
        /\ \/ conn' = conn /\ hpc' \in {"waitResult", "drop"}
           \/ conn' = NoConn /\ hpc' = "dead"
    BY <1>4, SendLineHost DEF SendResponse, HostSteps
  <2>2. faults' \in 0..MaxFaults
    BY <1>4 DEF SendResponse
  <2> QED
    BY <1>4, <2>1, <2>2 DEF SendResponse, HostTypeOK, Attached, HostSteps
<1>5. CASE RecvResult
  <2>1. /\ ta_key' \in Nonces \cup {NoNonce}
        /\ conn' = conn /\ conn \in Conns /\ hpc' \in {"push", "drop"}
    BY <1>5 DEF RecvResult, HostSteps
  <2>2. send_seq' \in 0..MaxSeq
    <3>1. send_seq' \in {0, send_seq}
      BY <1>5 DEF RecvResult
    <3> QED
      BY <3>1
  <2>3. g_attested' \in BOOLEAN /\ g_expired' \in BOOLEAN
    BY <1>5 DEF RecvResult
  <2> QED
    BY <1>5, <2>1, <2>2, <2>3 DEF RecvResult, HostTypeOK, Attached, HostSteps, budgets
<1>6. CASE PushReading
  <2>1. conn \in Conns
    BY <1>6 DEF PushReading, HostSteps
  <2>2. /\ hpc' \in HostSteps
        /\ \/ conn' = conn /\ hpc' \in {"check", "drop"}
           \/ conn' = NoConn /\ hpc' = "dead"
    BY <1>6, <2>1, SendLineHost DEF PushReading, HostSteps
  <2>3. send_seq' \in 0..MaxSeq
    BY <1>6 DEF PushReading, SeqLeft
  <2> QED
    BY <1>6, <2>1, <2>2, <2>3 DEF PushReading, HostTypeOK, Attached, HostSteps,
                                  budgets
<1>7. CASE edge_reset_connection \/ DeadlinePasses
  BY <1>7 DEF edge_reset_connection, DeadlinePasses, HostTypeOK, Attached,
              HostSteps, budgets
<1>8. CASE Fault \/ Expiry \/ ServerRestart
  <2>1. /\ faults' \in 0..MaxFaults /\ expiries' \in 0..MaxExpiries
        /\ restarts' \in 0..MaxRestarts /\ UNCHANGED host
    BY <1>8 DEF Fault, Expiry, ServerRestart
  <2> QED
    BY <2>1 DEF host, HostTypeOK, Attached
<1>9. CASE Reboot
  <2>1. faults' \in 0..MaxFaults /\ UNCHANGED <<expiries, restarts>>
    BY <1>9 DEF Reboot
  <2>2. Booted
    BY <1>9 DEF Reboot
  <2>3. send_seq' \in 0..MaxSeq
    BY <2>2 DEF Booted
  <2>4. g_attested' \in BOOLEAN /\ g_expired' \in BOOLEAN /\ ~g_attested'
    BY <2>2 DEF Booted
  <2> QED
    BY <2>1, <2>2, <2>3, <2>4 DEF Booted, HostTypeOK, Attached, HostSteps
<1>10. ASSUME UNCHANGED <<host, budgets>> PROVE HostTypeOK' /\ Attached'
  BY <1>10 DEF host, budgets, HostTypeOK, Attached
<1> QED
  BY <1>1, <1>2, <1>3, <1>4, <1>5, <1>6, <1>7, <1>8, <1>9, <1>10
  DEF Next, HostStep, Server, Operator, vars

\* The queues of the link under one step, wherever the step comes from: a
\* connection's thread takes lines from the front, the device adds at the end.
LEMMA WiredStep ==
  ASSUME TypeOK, Wired, [LinkNext]_linkVars
  PROVE  Wired'
<1>0. /\ DOMAIN thread = Conns /\ DOMAIN link = Conns /\ DOMAIN dn = Conns
      /\ link \in [Conns -> LinkStates]
  BY DEF TypeOK
<1> USE <1>0 DEF Wired
<1>1. ASSUME NEW c \in Conns,
             \/ issue_challenge(c) \/ verify_and_derive(c) \/ on_data(c)
             \/ check_and_advance_seq(c) \/ StoreSamples(c) \/ InstallSession(c)
             \/ OtherLine(c)
      PROVE  Wired'
  <2>1. /\ link' = link
        /\ \A d \in Conns : thread'[d] = "none" => thread[d] = "none"
    BY <1>1 DEF issue_challenge, verify_and_derive, on_data, Raise, Resume,
                check_and_advance_seq, StoreSamples, InstallSession, OtherLine
  <2>2. \A d \in Conns : link[d] # "open" => dn'[d] = dn[d]
    BY <1>1 DEF issue_challenge, verify_and_derive, on_data, Refuse, Reply,
                check_and_advance_seq, StoreSamples, InstallSession, OtherLine
  <2> QED
    BY <2>1, <2>2
<1>2. ASSUME NEW c \in Conns, EndConnection(c) PROVE Wired'
  BY <1>2 DEF EndConnection, ServerCloses
<1>3. ASSUME NEW c \in Conns,
             \/ Connect(c) \/ (\E m \in UpMsg : Send(c, m)) \/ Receive(c)
             \/ SendLost(c) \/ Close(c) \/ Break(c)
      PROVE  Wired'
  BY <1>3 DEF Connect, Send, Receive, SendLost, Close, Break
<1>4. CASE UNCHANGED <<link, thread, dn>>
  BY <1>4
<1>5. CASE RestartServer
  BY <1>5 DEF RestartServer, ServerCloses
<1> QED
  BY <1>1, <1>2, <1>3, <1>4, <1>5
  DEF LinkNext, ServerStep, ClientStep, SessionTimeout, ChallengeTimeout,
      RegisterDevice, linkVars, wire

-----------------------------------------------------------------------------
(* What was answered *)

\* Taking a line from a queue, or losing all of it, adds no response.
LEMMA SentShrinks ==
  ASSUME TypeOK, NEW n, Sent(n)',
         \A c \in Conns : \/ up'[c] = up[c] \/ up'[c] = <<>>
                          \/ up[c] # <<>> /\ up'[c] = Tail(up[c])
  PROVE  Sent(n)
<1>1. PICK c \in Conns : \E i \in DOMAIN up'[c] : IsResponse(up'[c][i], n)
  BY DEF Sent
<1>2. up[c] \in Seq(UpMsg)
  BY DEF TypeOK
<1>3. CASE up'[c] = up[c]
  BY <1>1, <1>3 DEF Sent
<1>4. CASE up[c] # <<>> /\ up'[c] = Tail(up[c])
  <2>1. PICK i \in DOMAIN Tail(up[c]) : IsResponse(Tail(up[c])[i], n)
    BY <1>1, <1>4
  <2>2. i + 1 \in DOMAIN up[c] /\ Tail(up[c])[i] = up[c][i + 1]
    BY <1>2, <1>4, <2>1
  <2> QED
    BY <2>1, <2>2 DEF Sent
<1>5. CASE up'[c] = <<>>
  BY <1>1, <1>5
<1> QED
  BY <1>3, <1>4, <1>5

\* No step but a send of the device makes a response: the server's threads
\* move what was sent from the queue to themselves and to the session store.
LEMMA AnsweredQuiet ==
  ASSUME TypeOK, [Quiet]_linkVars, NEW n, Answered(n)'
  PROVE  Answered(n)
<1>0. /\ DOMAIN thread = Conns /\ DOMAIN held = Conns /\ DOMAIN up = Conns
  BY DEF TypeOK
<1> USE <1>0
<1>1. ASSUME NEW c \in Conns, verify_and_derive(c) PROVE Answered(n)
  <2>1. /\ up[c] # <<>> /\ up' = [up EXCEPT ![c] = Tail(up[c])]
        /\ Head(up[c]).type = "attest_response"
        /\ installed' = installed
    BY <1>1 DEF verify_and_derive, Arrived, Take, session
  <2>2. Sent(n)' => Sent(n)
    BY <2>1, SentShrinks
  <2>3. CASE UNCHANGED <<thread, held>>
    BY <2>1, <2>2, <2>3 DEF Answered
  <2>4. CASE Resume(c, "install", Head(up[c]))
    <3>1. 1 \in DOMAIN up[c] /\ Head(up[c]) = up[c][1]
      BY <2>1 DEF TypeOK
    <3>2. Head(up[c]).n = n => Sent(n)
      BY <2>1, <3>1 DEF Sent, IsResponse
    <3> QED
      BY <2>1, <2>2, <2>4, <3>2 DEF Answered, Resume
  <2>5. CASE Raise(c)
    BY <2>1, <2>2, <2>5 DEF Answered, Raise, Resume
  <2> QED
    BY <1>1, <2>3, <2>4, <2>5 DEF verify_and_derive
<1>2. ASSUME NEW c \in Conns, InstallSession(c) PROVE Answered(n)
  <2>1. Sent(n)' => Sent(n)
    BY <1>2 DEF InstallSession, Sent
  <2> QED
    BY <1>2, <2>1 DEF Answered, InstallSession, Resume
<1>3. ASSUME NEW c \in Conns,
             issue_challenge(c) \/ on_data(c) \/ OtherLine(c)
      PROVE  Answered(n)
  <2>1. /\ up[c] # <<>> /\ up' = [up EXCEPT ![c] = Tail(up[c])]
        /\ installed' = installed
    BY <1>3 DEF issue_challenge, on_data, OtherLine, Arrived, Take, session
  <2>2. Sent(n)' => Sent(n)
    BY <2>1, SentShrinks
  <2>3. CASE UNCHANGED <<thread, held>>
    BY <2>1, <2>2, <2>3 DEF Answered
  <2>4. CASE Resume(c, "advance", Head(up[c]))
    BY <2>1, <2>2, <2>4 DEF Answered, Resume
  <2>5. CASE Raise(c)
    BY <2>1, <2>2, <2>5 DEF Answered, Raise, Resume
  <2> QED
    BY <1>3, <2>3, <2>4, <2>5 DEF issue_challenge, on_data, OtherLine
<1>4. ASSUME NEW c \in Conns,
             \/ check_and_advance_seq(c) \/ StoreSamples(c)
             \/ EndConnection(c) \/ Connect(c)
      PROVE  Answered(n)
  <2>1. installed' = installed /\ \A d \in Conns : up'[d] \in {up[d], <<>>}
    BY <1>4 DEF check_and_advance_seq, StoreSamples, EndConnection, Connect,
                session
  <2>3. Sent(n)' => Sent(n)
    BY <2>1, SentShrinks
  <2>2. \A d \in Conns : thread'[d] = "install" =>
                           thread[d] = "install" /\ held'[d] = held[d]
    BY <1>4 DEF check_and_advance_seq, StoreSamples, EndConnection, Connect,
                Raise, Resume
  <2> QED
    BY <2>1, <2>2, <2>3 DEF Answered
<1>5. CASE UNCHANGED <<up, thread, held, installed>>
  BY <1>5 DEF Answered, Sent
<1>6. ASSUME NEW c \in Conns, Break(c) PROVE Answered(n)
  <2>1. Sent(n)' => Sent(n)
    BY <1>6, SentShrinks DEF Break
  <2> QED
    BY <1>6, <2>1 DEF Answered, Break, session
<1>7. CASE RestartServer
  <2>1. Sent(n)' => Sent(n)
    BY <1>7, SentShrinks DEF RestartServer
  <2> QED
    BY <1>7, <2>1 DEF Answered, RestartServer
<1> QED
  BY <1>1, <1>2, <1>3, <1>4, <1>5, <1>6, <1>7
  DEF Quiet, ServerStep, Receive, SendLost, Close, SessionTimeout,
      ChallengeTimeout, RegisterDevice, linkVars, wire, session

\* The device answers the challenge in hand and no other.
LEMMA AnsweredStep ==
  ASSUME TypeOK, HostTypeOK, [Next]_vars, NEW n, Answered(n)'
  PROVE  Answered(n) \/ n = g_nonce
<1>1. CASE HostSend
  <2>1. PICK m \in UpMsg : /\ conn \in Conns /\ Send(conn, m)
                           /\ m.type = "attest_response" => m.n = g_nonce
    BY <1>1 DEF HostSend, HostLine
  <2>2. /\ up' = [up EXCEPT ![conn] = Append(up[conn], m)]
        /\ UNCHANGED <<thread, held, installed>>
    BY <2>1 DEF Send, session
  <2>3. CASE ~Sent(n)'
    BY <2>2, <2>3 DEF Answered
  <2>4. CASE Sent(n)'
    <3>0. PICK c \in Conns : \E i \in DOMAIN up'[c] : IsResponse(up'[c][i], n)
      BY <2>4 DEF Sent
    <3>1. PICK i \in DOMAIN up'[c] : IsResponse(up'[c][i], n)
      BY <3>0
    <3>2. CASE c # conn
      BY <2>1, <2>2, <3>1, <3>2 DEF Answered, Sent, TypeOK
    <3>3. CASE c = conn
      <4>1. up[c] \in Seq(UpMsg) /\ up'[c] = Append(up[c], m)
        BY <2>1, <2>2, <3>3 DEF TypeOK
      <4>2. \/ i \in DOMAIN up[c] /\ up'[c][i] = up[c][i]
            \/ up'[c][i] = m
        BY <3>1, <4>1
      <4> QED
        BY <2>1, <3>1, <4>2 DEF Answered, Sent, IsResponse
    <3> QED
      BY <3>2, <3>3
  <2> QED
    BY <2>3, <2>4
<1>2. CASE [Quiet]_linkVars
  BY <1>2, AnsweredQuiet
<1> QED
  BY <1>1, <1>2, LinkStep

-----------------------------------------------------------------------------
(* What waits for the device *)

\* A line the server adds to a queue: a challenge is the one it just issued,
\* a good result is for the key it just stored.
Fresh(m) ==
  /\ m \in DownMsg
  /\ IsChallenge(m) => issued' = issued + 1 /\ m.n = issued'
  /\ m.type = "attest_result" /\ m.ok => m.n \in installed'

Added(c, m) == Fresh(m) /\ dn'[c] = Append(dn[c], m)

DownSteps(c) ==
  \/ dn'[c] = dn[c]
  \/ dn'[c] = <<>>
  \/ dn[c] # <<>> /\ dn'[c] = Tail(dn[c])
  \/ \E m : Added(c, m)

\* A reply adds a message at the end of one queue.
LEMMA ReplyStep ==
  ASSUME TypeOK, NEW c \in Conns, NEW d \in Conns, NEW m, Fresh(m), Reply(c, m)
  PROVE  DownSteps(d)
  BY ZenonT(40) DEF Reply, DownSteps, Added, TypeOK

\* The queue towards the device under one step of the link.
LEMMA DownStep ==
  ASSUME TypeOK, SingleUse, [LinkNext]_linkVars, NEW d \in Conns
  PROVE  DownSteps(d) /\ issued' \in {issued, issued + 1} /\ installed \subseteq installed'
<1>0. /\ DOMAIN dn = Conns /\ issued \in Nat
  BY BoundsAssumption DEF TypeOK
<1> DEFINE Goal == /\ DownSteps(d) /\ issued' \in {issued, issued + 1}
                   /\ installed \subseteq installed'
<1>1. ASSUME NEW c \in Conns, issue_challenge(c) PROVE Goal
  <2>1. CASE /\ issued < MaxNonce /\ issued' = issued + 1
             /\ Reply(c, [type |-> "attest_challenge", n |-> issued + 1])
    <3> DEFINE m == [type |-> "attest_challenge", n |-> issued + 1]
    <3>1. issued' = issued + 1 /\ Reply(c, m) /\ installed' = installed
      BY <1>1, <2>1 DEF issue_challenge, session
    <3>2. issued + 1 \in Nonces
      BY <1>0, <2>1, BoundsAssumption DEF Nonces
    <3>3. Fresh(m)
      BY <3>1, <3>2, Replies DEF Fresh, IsChallenge
    <3> QED
      BY <3>1, <3>3, ReplyStep
  <2>2. ASSUME NEW m, m = Foreign \/ m = [type |-> "error"], Reply(c, m),
               UNCHANGED <<issued, installed>>
        PROVE  Goal
    <3>1. Fresh(m)
      BY <2>2, Replies DEF Fresh, IsChallenge, Foreign
    <3> QED
      BY <2>2, <3>1, ReplyStep
  <2> QED
    BY <1>1, <2>1, <2>2 DEF issue_challenge, Refuse, session, challenge
<1>2. ASSUME NEW c \in Conns, verify_and_derive(c) PROVE Goal
  <2>1. issued' = issued /\ installed' = installed
    BY <1>2 DEF verify_and_derive, session
  <2>2. Fresh(Result(FALSE, NoNonce))
    BY Replies DEF Fresh, IsChallenge, Result
  <2>3. Reply(c, Result(FALSE, NoNonce)) \/ Reply(c, Foreign) \/ dn' = dn
    BY <1>2 DEF verify_and_derive
  <2>4. dn' = dn => DownSteps(d)
    BY DEF DownSteps
  <2>5. Fresh(Foreign)
    BY Replies DEF Fresh, IsChallenge, Foreign
  <2> QED
    BY <2>1, <2>2, <2>3, <2>4, <2>5, ReplyStep
<1>3. ASSUME NEW c \in Conns, InstallSession(c) PROVE Goal
  <2> DEFINE m == Result(TRUE, held[c].n)
  <2>1. /\ issued' = issued /\ installed' = installed \cup {held[c].n}
        /\ Reply(c, m)
    BY <1>3 DEF InstallSession, challenge
  <2>2. held[c].n \in Nonces
    BY <1>3, BoundsAssumption DEF InstallSession, TypeOK, SingleUse, Nonces
  <2>3. Fresh(m)
    BY <2>1, <2>2, Replies DEF Fresh, IsChallenge, Result
  <2> QED
    BY <2>1, <2>3, ReplyStep
<1>4. ASSUME NEW c \in Conns,
             \/ on_data(c) \/ check_and_advance_seq(c) \/ StoreSamples(c)
             \/ OtherLine(c)
      PROVE  Goal
  <2>1. issued' = issued /\ installed' = installed
    BY <1>4 DEF on_data, check_and_advance_seq, StoreSamples, OtherLine,
                challenge, session
  <2>2. Fresh(Ack)
    BY Replies DEF Fresh, IsChallenge, Ack
  <2>3. Reply(c, Ack) \/ dn' = dn
    BY <1>4 DEF on_data, check_and_advance_seq, StoreSamples, OtherLine
  <2>4. dn' = dn => DownSteps(d)
    BY DEF DownSteps
  <2> QED
    BY <2>1, <2>2, <2>3, <2>4, ReplyStep
<1>5. CASE UNCHANGED <<dn, issued, installed>>
  BY <1>5 DEF DownSteps
<1>6. ASSUME NEW c \in Conns,
             Receive(c) \/ Close(c) \/ Break(c) \/ EndConnection(c)
      PROVE  Goal
  BY <1>0, <1>6 DEF Receive, Close, Break, EndConnection, challenge, session,
                    DownSteps
<1>7. CASE RestartServer
  BY <1>7 DEF RestartServer, DownSteps
<1> QED
  BY <1>1, <1>2, <1>3, <1>4, <1>5, <1>6, <1>7
  DEF LinkNext, ServerStep, ClientStep, Connect, Send, SendLost,
      SessionTimeout, ChallengeTimeout, RegisterDevice, linkVars, wire,
      challenge, session

\* The ways in which connection, challenge in hand and key change.
Takes == /\ conn \in Conns /\ Receive(conn) /\ IsChallenge(Head(dn[conn]))
         /\ g_nonce' = Head(dn[conn]).n /\ ta_key' = NoNonce /\ conn' = conn
Attests == /\ conn \in Conns /\ Receive(conn)
           /\ Head(dn[conn]).type = "attest_result"
           /\ SignatureVerifies(Head(dn[conn]))
           /\ ta_key' = g_nonce /\ UNCHANGED <<g_nonce, conn>>
Dials == /\ conn' \in Conns /\ Connect(conn') /\ UNCHANGED <<g_nonce, ta_key>>
Leaves == /\ conn' = NoConn
          /\ \/ UNCHANGED <<g_nonce, ta_key>>
             \/ g_nonce' = NoNonce /\ ta_key' = NoNonce

\* Every step leaves connection, nonce and key alone or is of one of these
\* four kinds.
LEMMA DeviceSteps ==
  ASSUME HostTypeOK, [Next]_vars
  PROVE  Takes \/ Attests \/ Dials \/ Leaves \/ UNCHANGED <<conn, g_nonce, ta_key>>
<1>0. hpc \in HostSteps \ {"check", "dead"} => conn \in Conns
  BY DEF HostTypeOK
<1>1. CASE edge_ensure_session
  BY <1>1 DEF edge_ensure_session, Dials
<1>2. CASE SendHello \/ SendResponse \/ PushReading
  BY <1>2 DEF SendHello, SendResponse, PushReading, SendLine, Leaves
<1>3. CASE RecvChallenge
  BY <1>0, <1>3 DEF RecvChallenge, DropTaKey, Takes, IsChallenge, HostSteps
<1>4. CASE RecvResult
  BY <1>0, <1>4 DEF RecvResult, Attests, HostSteps
<1>5. CASE edge_reset_connection \/ Reboot
  BY <1>5 DEF edge_reset_connection, Reboot, Booted, Leaves
<1>6. CASE UNCHANGED host
  BY <1>6 DEF host
<1>7. CASE DeadlinePasses
  BY <1>7 DEF DeadlinePasses
<1> QED
  BY <1>1, <1>2, <1>3, <1>4, <1>5, <1>6, <1>7
  DEF Next, HostStep, Server, Operator, Fault, Expiry, ServerRestart, vars

NewestAfter(n) ==   \* Newest of the next state, for a value of this one
  /\ g_nonce' <= n
  /\ \A k \in Nonces : Answered(k)' => k <= n

\* What is no older than everything answered stays so, as long as the device
\* takes no newer challenge.
LEMMA NewestStep ==
  ASSUME TypeOK, HostTypeOK, [Next]_vars, NEW n \in Nat, Newest(n), g_nonce' <= n
  PROVE  NewestAfter(n)
  BY AnsweredStep DEF Newest, NewestAfter, Nonces

\* A line that waits for the device, or the one it takes, has a number.
LEMMA LineNumbers ==
  ASSUME TypeOK, NEW c \in Conns, NEW i \in DOMAIN dn[c]
  PROVE  /\ dn[c][i] \in DownMsg
         /\ IsChallenge(dn[c][i]) => dn[c][i].n \in Nat
<1>1. dn[c][i] \in DownMsg
  BY DEF TypeOK
<1>2. \A m \in DownMsg : m.type = "attest_challenge" => m.n \in Nonces
  BY DEF DownMsg
<1> QED
  BY <1>1, <1>2 DEF IsChallenge, Nonces

\* The challenges that wait stay in order and newest, for the ones ahead of
\* the device's choice and the ones issued meanwhile.
LEMMA OffersStep ==
  ASSUME Inv, [Next]_vars
  PROVE  Offers'
<1>0. /\ TypeOK /\ SingleUse /\ HostTypeOK /\ [LinkNext]_linkVars
      /\ conn \in Conns \cup {NoConn} /\ NoConn \notin Conns
      /\ g_nonce \in Nat /\ issued \in Nat /\ DOMAIN dn = Conns
  BY LinkStep, ClientStepOK, BudgetsAssumption, BoundsAssumption
  DEF Inv, HostTypeOK, TypeOK, Nonces, NoNonce
<1>1. CASE Dials
  <2>1. dn'[conn'] = <<>>
    BY <1>0, <1>1 DEF Dials, Connect, Inv, Wired
  <2> QED
    BY <2>1 DEF Offers, Ordered
<1>2. CASE Leaves
  BY <1>2 DEF Leaves, Offers
<1>3. CASE conn' = conn /\ conn = NoConn
  BY <1>3 DEF Offers
<1>4. ASSUME conn' = conn, conn \in Conns, g_nonce' = g_nonce PROVE Offers'
  <2> DEFINE s == dn[conn]
             Good(m) == /\ IsChallenge(m) => m.n <= issued' /\ NewestAfter(m.n)
                        /\ m.type = "attest_result" /\ m.ok => m.n \in installed'
  <2>1. DownSteps(conn) /\ issued' \in {issued, issued + 1} /\ installed \subseteq installed'
    BY <1>0, <1>4, DownStep
  <2>2. s \in Seq(DownMsg) /\ Ordered(s)
    BY <1>0, <1>4 DEF TypeOK, Inv, Offers
  <2>3. ASSUME NEW i \in DOMAIN s PROVE Good(s[i])
    <3>1. /\ IsChallenge(s[i]) => s[i].n <= issued /\ Newest(s[i].n)
          /\ s[i].type = "attest_result" /\ s[i].ok => s[i].n \in installed
      BY <1>0, <1>4, <2>3 DEF Inv, Offers
    <3>2. IsChallenge(s[i]) => s[i].n \in Nat
      BY <1>0, <1>4, <2>3, LineNumbers
    <3>3. IsChallenge(s[i]) => NewestAfter(s[i].n)
      BY <1>0, <1>4, <3>1, <3>2, NewestStep DEF Newest
    <3>4. IsChallenge(s[i]) => s[i].n <= issued'
      BY <1>0, <2>1, <3>1, <3>2
    <3> QED
      BY <2>1, <3>1, <3>3, <3>4
  <2>4. SUFFICES Ordered(dn'[conn]) /\ \A i \in DOMAIN dn'[conn] : Good(dn'[conn][i])
    BY <1>4 DEF Offers, Newest, NewestAfter
  <2>5. CASE dn'[conn] = s
    BY <2>2, <2>3, <2>5
  <2>6. CASE dn'[conn] = <<>>
    BY <2>6 DEF Ordered
  <2>7. CASE s # <<>> /\ dn'[conn] = Tail(s)
    <3>1. ASSUME NEW i \in DOMAIN Tail(s)
          PROVE  i \in Nat /\ i + 1 \in DOMAIN s /\ Tail(s)[i] = s[i + 1]
      BY <2>2, <2>7, <3>1
    <3>2. \A i \in DOMAIN Tail(s) : Good(Tail(s)[i])
      BY <2>3, <3>1
    <3>3. Ordered(Tail(s))
      BY <2>2, <3>1 DEF Ordered
    <3> QED
      BY <2>7, <3>2, <3>3
  <2>8. ASSUME NEW m, Added(conn, m)
        PROVE  Ordered(dn'[conn]) /\ \A i \in DOMAIN dn'[conn] : Good(dn'[conn][i])
    <3>1. /\ dn'[conn] = Append(s, m) /\ m \in DownMsg
          /\ IsChallenge(m) => m.n = issued + 1 /\ issued' = issued + 1
          /\ m.type = "attest_result" /\ m.ok => m.n \in installed'
      BY <2>8 DEF Added, Fresh
    <3>2. ASSUME NEW i \in DOMAIN Append(s, m)
          PROVE  \/ i \in DOMAIN s /\ Append(s, m)[i] = s[i] /\ i <= Len(s)
                 \/ i = Len(s) + 1 /\ Append(s, m)[i] = m
      BY <2>2, <3>1, <3>2
    <3>3. IsChallenge(m) => NewestAfter(m.n)
      <4>1. Newest(issued) => Newest(issued + 1)
        BY <1>0 DEF Newest, Nonces
      <4> QED
        BY <1>0, <1>4, <3>1, <4>1, NewestStep DEF Inv, InHand, Newest
    <3>4. Good(m)
      BY <1>0, <3>1, <3>3
    <3>5. \A i \in DOMAIN Append(s, m) : Good(Append(s, m)[i])
      BY <2>3, <3>2, <3>4
    <3>6. Ordered(Append(s, m))
      <4> SUFFICES ASSUME NEW i \in DOMAIN Append(s, m),
                          NEW j \in DOMAIN Append(s, m), i < j,
                          IsChallenge(Append(s, m)[i]), IsChallenge(Append(s, m)[j])
                   PROVE  Append(s, m)[i].n <= Append(s, m)[j].n
        BY DEF Ordered
      <4>1. i \in DOMAIN s /\ Append(s, m)[i] = s[i] /\ i \in Nat /\ j \in Nat
        BY <2>2, <3>1, <3>2
      <4>2. CASE j \in DOMAIN s /\ Append(s, m)[j] = s[j]
        BY <2>2, <4>1, <4>2 DEF Ordered
      <4>3. CASE Append(s, m)[j] = m
        <5>1. s[i].n <= issued /\ s[i].n \in Nat
          BY <1>0, <1>4, <4>1, LineNumbers DEF Inv, Offers
        <5> QED
          BY <1>0, <3>1, <4>1, <4>3, <5>1
      <4> QED
        BY <3>2, <4>2, <4>3
    <3> QED
      BY <3>1, <3>5, <3>6
  <2> QED
    BY <2>1, <2>5, <2>6, <2>7, <2>8 DEF DownSteps
<1>5. CASE Takes
  <2> DEFINE s == dn[conn]
  <2>0. s # <<>> /\ dn'[conn] = Tail(s) /\ s \in Seq(DownMsg) /\ g_nonce' = s[1].n
        /\ UNCHANGED <<issued, installed>> /\ IsChallenge(s[1])
    BY <1>0, <1>5 DEF Takes, Receive, TypeOK, challenge, session
  <2>1. ASSUME NEW i \in DOMAIN Tail(s)
        PROVE  i \in Nat /\ i + 1 \in DOMAIN s /\ 1 \in DOMAIN s /\ 1 < i + 1
               /\ Tail(s)[i] = s[i + 1]
    BY <2>0, <2>1
  <2>2. Ordered(s) /\ conn \in Conns
    BY <1>0, <1>5 DEF Inv, Offers, Takes
  <2>3. Ordered(Tail(s))
    BY <2>1, <2>2 DEF Ordered
  <2>4. ASSUME NEW i \in DOMAIN Tail(s)
        PROVE  LET m == Tail(s)[i] IN
               /\ IsChallenge(m) => m.n <= issued' /\ NewestAfter(m.n)
               /\ m.type = "attest_result" /\ m.ok => m.n \in installed'
    <3> DEFINE m == Tail(s)[i]
    <3>1. /\ IsChallenge(m) => m.n <= issued /\ Newest(m.n) /\ m.n \in Nat
          /\ m.type = "attest_result" /\ m.ok => m.n \in installed
      BY <1>0, <2>1, <2>2, LineNumbers DEF Inv, Offers
    <3>2. IsChallenge(m) => g_nonce' <= m.n
      BY <2>0, <2>1, <2>2 DEF Ordered
    <3>3. IsChallenge(m) => NewestAfter(m.n)
      BY <1>0, <3>1, <3>2, NewestStep
    <3> QED
      BY <2>0, <3>1, <3>3
  <2> QED
    BY <1>5, <2>0, <2>3, <2>4 DEF Takes, Offers, Newest, NewestAfter
<1> QED
  BY <1>0, <1>1, <1>2, <1>3, <1>4, <1>5, DeviceSteps DEF Attests

\* The challenge in hand stays the newest one answered: taking a challenge
\* takes one that is newer than every answer, and attesting keeps it.
LEMMA InHandStep ==
  ASSUME Inv, [Next]_vars
  PROVE  InHand'
<1>0. /\ TypeOK /\ SingleUse /\ HostTypeOK /\ InHand /\ [LinkNext]_linkVars
      /\ conn \in Conns \cup {NoConn}
      /\ g_nonce \in Nat /\ issued \in Nat
  BY LinkStep, ClientStepOK, BoundsAssumption
  DEF Inv, HostTypeOK, TypeOK, Nonces, NoNonce
<1>1. issued' \in {issued, issued + 1} /\ installed \subseteq installed'
  <2>1. CASE Conns = {}
    BY <1>0, <2>1 DEF LinkNext, SessionTimeout, ChallengeTimeout, RegisterDevice,
                      RestartServer, linkVars, challenge, session
  <2>2. CASE Conns # {}
    BY <1>0, <2>2, DownStep
  <2> QED
    BY <2>1, <2>2
<1>2. ASSUME g_nonce' <= issued, g_nonce' \in Nat PROVE NewestAfter(issued')
  <2>1. Newest(issued) => Newest(issued')
    BY <1>0, <1>1 DEF Newest, Nonces
  <2>2. issued' \in Nat /\ g_nonce' <= issued'
    BY <1>0, <1>1, <1>2
  <2> QED
    BY <1>0, <2>1, <2>2, NewestStep DEF InHand
<1>3. ASSUME UNCHANGED g_nonce
      PROVE  NewestAfter(issued') /\ (g_nonce' # NoNonce => NewestAfter(g_nonce'))
  BY <1>0, <1>2, <1>3, NewestStep DEF InHand, Newest
<1>4. CASE Takes
  <2> DEFINE m == dn[conn][1]
  <2>1. 1 \in DOMAIN dn[conn] /\ g_nonce' = m.n /\ IsChallenge(m) /\ conn \in Conns
    BY <1>0, <1>4 DEF Takes, Receive, TypeOK
  <2>2. m.n <= issued /\ Newest(m.n) /\ m.n \in Nat
    BY <1>0, <2>1, LineNumbers, BudgetsAssumption DEF Inv, Offers
  <2>3. NewestAfter(g_nonce')
    BY <1>0, <2>1, <2>2, NewestStep
  <2> QED
    BY <1>2, <1>4, <2>1, <2>2, <2>3 DEF InHand, Takes, Newest, NewestAfter
<1>5. CASE Attests
  <2> DEFINE m == dn[conn][1]
  <2>1. /\ 1 \in DOMAIN dn[conn] /\ conn \in Conns
        /\ m.type = "attest_result" /\ m.ok /\ m.n = g_nonce
    BY <1>0, <1>5 DEF Attests, Receive, TypeOK, SignatureVerifies
  <2>2. g_nonce \in installed'
    BY <1>1, <2>1, BudgetsAssumption DEF Inv, Offers
  <2> QED
    BY <1>3, <1>5, <2>2 DEF Attests, InHand, Newest, NewestAfter
<1>6. CASE UNCHANGED <<g_nonce, ta_key>>
  BY <1>0, <1>1, <1>3, <1>6 DEF InHand, Newest, NewestAfter
<1>7. CASE g_nonce' = NoNonce /\ ta_key' = NoNonce
  BY <1>0, <1>2, <1>7 DEF InHand, NoNonce, Newest, NewestAfter
<1> QED
  BY <1>0, <1>4, <1>5, <1>6, <1>7, DeviceSteps DEF Dials, Leaves

-----------------------------------------------------------------------------
(* Theorems *)

\* The invariant holds before the device's first step ...
LEMMA EdgeInit == Init => Inv /\ WaitsAreAnswered
<1> SUFFICES ASSUME Init PROVE Inv /\ WaitsAreAnswered
  OBVIOUS
<1>1. TypeOK /\ SingleUse
  <2>1. /\ up \in [Conns -> Seq(UpMsg)] /\ dn \in [Conns -> Seq(DownMsg)]
    BY DEF Init, LinkInit
  <2>2. last_seq \in 0..MaxSeq /\ issued \in 0..MaxNonce
    BY BoundsAssumption DEF Init, LinkInit
  <2>3. SingleUse
    BY DEF Init, LinkInit, SingleUse, NoNonce
  <2> QED
    BY <2>1, <2>2, <2>3 DEF Init, LinkInit, TypeOK, LinkStates
<1>2. HostTypeOK
  <2>1. /\ send_seq \in 0..MaxSeq /\ faults \in 0..MaxFaults
        /\ expiries \in 0..MaxExpiries /\ restarts \in 0..MaxRestarts
    BY BoundsAssumption, BudgetsAssumption DEF Init
  <2>2. g_attested \in BOOLEAN /\ g_expired \in BOOLEAN
    BY DEF Init
  <2> QED
    BY <2>1, <2>2 DEF Init, HostTypeOK, HostSteps
<1>3. Attached /\ Wired /\ Offers /\ WaitsAreAnswered
  BY DEF Init, LinkInit, Attached, Wired, Offers, WaitsAreAnswered
<1>4. InHand
  <2>1. \A k \in Nonces : ~Answered(k)
    BY DEF Init, LinkInit, Answered, Sent
  <2> QED
    BY <2>1 DEF Init, LinkInit, InHand, Newest, NoNonce
<1> QED
  BY <1>1, <1>2, <1>3, <1>4 DEF Inv

\* ... and in every reachable state.
LEMMA EdgeInvHolds == Spec => []Inv
<1>1. Init => Inv
  BY EdgeInit
<1>2. Inv /\ [Next]_vars => Inv'
  <2> SUFFICES ASSUME Inv, [Next]_vars PROVE Inv'
    OBVIOUS
  <2>1. [LinkNext]_linkVars
    BY LinkStep, ClientStepOK DEF Inv
  <2>2. TypeOK' /\ SingleUse'
    BY <2>1, TypeStep, SingleUseStep DEF Inv
  <2>3. HostTypeOK' /\ Attached' /\ Wired'
    BY <2>1, HostStepType, WiredStep DEF Inv
  <2> QED
    BY <2>2, <2>3, OffersStep, InHandStep DEF Inv
<1> QED
  BY <1>1, <1>2, PTL DEF Spec

\* Every variable of the device keeps its type, and the loop never sends,
\* receives or closes without a connection.
THEOREM HostTypeCorrect == Spec => []HostTypeOK
  BY EdgeInvHolds, PTL DEF Inv

\* The device is one of the clients AttestedLink is specified for: whatever
\* holds of the server's end against any client holds in the composition.
THEOREM DeviceIsAClient == Spec => LinkSpec
<1>1. Init => LinkInit
  BY DEF Init
<1>2. Inv /\ [Next]_vars => [LinkNext]_linkVars
  BY LinkStep, ClientStepOK DEF Inv
<1> QED
  BY <1>1, <1>2, EdgeInvHolds, PTL DEF Spec, LinkSpec

\* With this device, no message of the current session passes the seq check
\* twice, and the server behaves as the atomic session object.
THEOREM SessionOfDevice == Spec => AcceptedOnce /\ ImplementsSession
  BY DeviceIsAClient, AtMostOnce, Refinement, PTL

\* The key the TA seals with is the newest one the server ever stored, for
\* any interleaving of old and new connections, crashes and restarts.
THEOREM KeyIsNewest == Spec => []NewestKey
<1>1. Inv => NewestKey
  <2>1. Inv => installed \subseteq Nonces
    BY DEF Inv, TypeOK
  <2> QED
    BY <2>1 DEF Inv, InHand, Newest, Answered, NewestKey
<1> QED
  BY <1>1, EdgeInvHolds, PTL

\* On an open connection, a wait of the device has its question in the queue,
\* its answer in the queue or a thread at work on it.
THEOREM NoWaitIsForgotten == Spec => []WaitsAreAnswered
<1>1. Init => WaitsAreAnswered
  BY EdgeInit
<1>2. Inv /\ WaitsAreAnswered /\ [Next]_vars => WaitsAreAnswered'
  <2> SUFFICES ASSUME Inv, WaitsAreAnswered, [Next]_vars PROVE WaitsAreAnswered'
    OBVIOUS
  <2>w. HostTypeOK' /\ Wired'
    BY LinkStep, ClientStepOK, HostStepType, WiredStep DEF Inv
  <2> SUFFICES ASSUME hpc' \in {"waitChallenge", "waitResult"},
                      link'[conn'] = "open"
               PROVE  dn'[conn'] # <<>> \/ up'[conn'] # <<>> \/ thread'[conn'] # "read"
    BY <2>w DEF WaitsAreAnswered, HostTypeOK, Wired, HostSteps
  <2>0. /\ hpc \in HostSteps \ {"check", "dead"} => conn \in Conns
        /\ TypeOK /\ DOMAIN up = Conns /\ DOMAIN dn = Conns /\ DOMAIN thread = Conns
        /\ DOMAIN link = Conns
    BY DEF Inv, HostTypeOK, TypeOK
  <2>1. CASE SendHello \/ SendResponse
    <3>1. PICK m : Send(conn, m) /\ conn' = conn /\ conn \in Conns
      BY <2>0, <2>1 DEF SendHello, SendResponse, SendLine, SendLost, HostSteps
    <3>2. up'[conn] = Append(up[conn], m) /\ up[conn] \in Seq(UpMsg)
      BY <2>0, <3>1 DEF Send, TypeOK
    <3>3. Append(up[conn], m) # <<>>
      BY <3>2
    <3> QED
      BY <3>1, <3>2, <3>3
  <2>2. CASE UNCHANGED <<hpc, conn>>
    <3>0. conn \in Conns /\ hpc \in {"waitChallenge", "waitResult"}
      BY <2>0, <2>2 DEF HostSteps
    <3> DEFINE Waits == dn[conn] # <<>> \/ up[conn] # <<>> \/ thread[conn] # "read"
               Goal == dn'[conn] # <<>> \/ up'[conn] # <<>> \/ thread'[conn] # "read"
    <3>1. link[conn] = "open" => Waits
      BY <3>0 DEF WaitsAreAnswered
    <3>2. ASSUME NEW c \in Conns, NEW m, Reply(c, m), c = conn, link' = link
          PROVE  Goal
      <4>1. dn'[conn] = Append(dn[conn], m) /\ dn[conn] \in Seq(DownMsg)
        BY <2>0, <2>2, <3>0, <3>2 DEF Reply, TypeOK
      <4>2. Append(dn[conn], m) # <<>>
        BY <4>1
      <4> QED
        BY <4>1, <4>2
    <3>3. ASSUME NEW c \in Conns, ServerStep(c) PROVE Goal
      <4>1. CASE c # conn
        <5>1. /\ dn'[conn] = dn[conn] /\ up'[conn] = up[conn]
              /\ thread'[conn] = thread[conn] /\ link'[conn] = link[conn]
          BY <2>0, <3>0, <3>3, <4>1
          DEF ServerStep, issue_challenge, verify_and_derive, InstallSession,
              on_data, check_and_advance_seq, StoreSamples, OtherLine,
              EndConnection, Take, Reply, Refuse, Raise, Resume
        <5> QED
          BY <2>2, <3>1, <5>1
      <4>2. CASE c = conn /\ EndConnection(c)
        BY <2>0, <2>2, <3>0, <4>2 DEF EndConnection, ServerCloses
      <4>3. CASE c = conn /\ ~EndConnection(c)
        <5>1. /\ link' = link
              /\ \/ \E m : Reply(c, m)
                 \/ thread'[conn] # "read"
          BY <2>0, <3>0, <3>3, <4>3
          DEF ServerStep, issue_challenge, verify_and_derive, InstallSession,
              on_data, check_and_advance_seq, StoreSamples, OtherLine, Refuse,
              Raise, Resume
        <5> QED
          BY <3>2, <4>3, <5>1
      <4> QED
        BY <4>1, <4>2, <4>3
    <3>4. ASSUME NEW c \in Conns, Break(c) PROVE Goal
      BY <2>0, <2>2, <3>0, <3>1, <3>4 DEF Break
    <3>5. CASE RestartServer
      BY <2>0, <2>2, <3>0, <3>5 DEF RestartServer, ServerCloses
    <3>6. CASE UNCHANGED wire /\ UNCHANGED thread
      BY <2>2, <3>1, <3>6 DEF wire
    <3>7. \/ \E c \in Conns : ServerStep(c) \/ Break(c)
          \/ RestartServer \/ SessionTimeout \/ ChallengeTimeout
          \/ RegisterDevice \/ UNCHANGED linkVars
      BY <2>2, <3>0
      DEF Next, HostStep, edge_ensure_session, SendHello, RecvChallenge,
          SendResponse, RecvResult, PushReading, edge_reset_connection,
          DeadlinePasses, Server, Operator, Fault, Reboot, Booted, Expiry,
          ServerRestart, vars
    <3> QED
      BY <2>2, <3>3, <3>4, <3>5, <3>6, <3>7
      DEF SessionTimeout, ChallengeTimeout, RegisterDevice, linkVars
  <2>3. SendHello \/ SendResponse \/ UNCHANGED <<hpc, conn>>
    BY DEF Next, HostStep, edge_ensure_session, RecvChallenge, RecvResult,
           PushReading, SendLine, edge_reset_connection, DeadlinePasses, Server,
           Operator, Fault, Reboot, Booted, Expiry, ServerRestart, vars, host
  <2> QED
    BY <2>1, <2>2, <2>3
<1> QED
  BY <1>1, <1>2, EdgeInvHolds, PTL DEF Spec

-----------------------------------------------------------------------------
(* Verdicts *)

\* No thread was ever rebound, and no hello under way can rebind one.
OneDevice ==
  /\ ~rebound
  /\ \A c \in Conns : \A i \in DOMAIN up[c] :
       up[c][i].type = "hello" => up[c][i].id = "this"

\* A hello of this device rebinds a bound thread to the same device: a bound
\* thread's device is registered until the process ends.
LEMMA OneDeviceStep ==
  ASSUME TypeOK, HostTypeOK, OkHasThread, OneDevice, [Next]_vars
  PROVE  OneDevice'
<1>0. /\ DOMAIN up = Conns /\ up \in [Conns -> Seq(UpMsg)]
      /\ device_id \in [Conns -> BOOLEAN]
  BY DEF TypeOK
<1> DEFINE OursOnly(s) ==
      \A i \in DOMAIN s : s[i].type = "hello" => s[i].id = "this"
<1>1. CASE HostSend
  <2>1. PICK m \in UpMsg : conn \in Conns /\ Send(conn, m) /\ HostLine(m)
    BY <1>1 DEF HostSend
  <2>2. rebound' = rebound
    BY <2>1 DEF Send, bound
  <2>3. OursOnly(up[conn]) /\ up[conn] \in Seq(UpMsg)
    BY <1>0, <2>1 DEF OneDevice
  <2>4. OursOnly(Append(up[conn], m))
    <3>1. ASSUME NEW i \in DOMAIN Append(up[conn], m)
          PROVE  \/ i \in DOMAIN up[conn] /\ Append(up[conn], m)[i] = up[conn][i]
                 \/ Append(up[conn], m)[i] = m
      BY <2>3, <3>1
    <3> QED
      BY <2>1, <2>3, <3>1 DEF HostLine
  <2> QED
    BY <1>0, <2>1, <2>2, <2>4 DEF OneDevice, Send
<1>2. CASE [Quiet]_linkVars
  <2>1. \A c \in Conns : \/ up'[c] = up[c] \/ up'[c] = <<>>
                         \/ up[c] # <<>> /\ up'[c] = Tail(up[c])
    <3>1. ASSUME NEW d \in Conns, up[d] # <<>>, Take(d)
          PROVE  \A c \in Conns : \/ up'[c] = up[c]
                                  \/ up[c] # <<>> /\ up'[c] = Tail(up[c])
      BY <1>0, <3>1 DEF Take
    <3>2. ASSUME NEW d \in Conns,
                 \/ issue_challenge(d) \/ verify_and_derive(d) \/ on_data(d)
                 \/ OtherLine(d)
          PROVE  up[d] # <<>> /\ Take(d)
      BY <3>2 DEF issue_challenge, verify_and_derive, on_data, OtherLine, Arrived
    <3>3. ASSUME NEW d \in Conns, EndConnection(d) \/ Break(d)
          PROVE  \A c \in Conns : up'[c] \in {up[c], <<>>}
      BY <1>0, <3>3 DEF EndConnection, Break
    <3>4. CASE RestartServer
      BY <3>4 DEF RestartServer
    <3>5. CASE up' = up
      BY <3>5
    <3> QED
      BY <1>2, <3>1, <3>2, <3>3, <3>4, <3>5
      DEF Quiet, ServerStep, InstallSession, check_and_advance_seq,
          StoreSamples, Connect, Receive, SendLost, Close, SessionTimeout,
          ChallengeTimeout, RegisterDevice, linkVars, wire
  <2>2. ASSUME NEW c \in Conns PROVE OursOnly(up'[c])
    <3>1. OursOnly(up[c]) /\ up[c] \in Seq(UpMsg)
      BY <1>0 DEF OneDevice
    <3>2. CASE up[c] # <<>> /\ up'[c] = Tail(up[c])
      <4>1. ASSUME NEW i \in DOMAIN Tail(up[c])
            PROVE  i + 1 \in DOMAIN up[c] /\ Tail(up[c])[i] = up[c][i + 1]
        BY <3>1, <3>2, <4>1
      <4> QED
        BY <3>1, <3>2, <4>1
    <3> QED
      BY <2>1, <3>1, <3>2
  <2>3. ~rebound'
    <3>1. ASSUME NEW c \in Conns, issue_challenge(c) PROVE ~rebound'
      <4>1. 1 \in DOMAIN up[c] /\ Head(up[c]) = up[c][1]
        BY <1>0, <3>1 DEF issue_challenge, Arrived
      <4>2. Head(up[c]).id = "this"
        BY <3>1, <4>1 DEF OneDevice, issue_challenge, Arrived
      <4>3. device_id[c] => registered
        BY DEF OkHasThread
      <4> QED
        BY <3>1, <4>2, <4>3 DEF OneDevice, issue_challenge, Bind
    <3> QED
      BY <1>2, <3>1
      DEF OneDevice, Quiet, ServerStep, verify_and_derive, InstallSession,
          on_data, check_and_advance_seq, StoreSamples, OtherLine,
          EndConnection, Connect, Receive, SendLost, Close, Break,
          SessionTimeout, ChallengeTimeout, RegisterDevice, RestartServer,
          linkVars, bound
  <2> QED
    BY <2>2, <2>3 DEF OneDevice
<1> QED
  BY <1>1, <1>2, LinkStep

\* However its connections end, a device of this Host that no thread serves is
\* not shown as ok.
THEOREM GoneDevice == Spec => []GoneIsNotOk
<1>1. Init => OkHasThread /\ OneDevice
  BY DEF Init, LinkInit, OkHasThread, OneDevice
<1>2. Inv /\ OkHasThread /\ OneDevice /\ [Next]_vars => OkHasThread' /\ OneDevice'
  <2> SUFFICES ASSUME Inv, OkHasThread, OneDevice, [Next]_vars
               PROVE  OkHasThread' /\ OneDevice'
    OBVIOUS
  <2>1. TypeOK /\ HostTypeOK /\ [LinkNext]_linkVars
    BY LinkStep, ClientStepOK DEF Inv
  <2> QED
    BY <2>1, OkHasThreadStep, OneDeviceStep
<1>3. OkHasThread /\ OneDevice => GoneIsNotOk
  BY DEF OkHasThread, OneDevice, GoneIsNotOk
<1> QED
  BY <1>1, <1>2, <1>3, EdgeInvHolds, PTL DEF Spec
=============================================================================
