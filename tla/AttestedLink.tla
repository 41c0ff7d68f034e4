--------------------------- MODULE AttestedLink ---------------------------
(***************************************************************************)
(* The management server's end of the device link: AttestationVerifier     *)
(* (server/attestation.py) driven by the connection threads of             *)
(* AttestedNetworkDeviceLink (server/device_link/attested_network.py),     *)
(* with the TCP connections as queues of lines.                            *)
(*                                                                         *)
(* One device, "this": the server keys its challenges, sessions and        *)
(* verdicts by device id and not by connection, so all the connections     *)
(* that one device ever opened meet in the same entries, and entries of    *)
(* different devices never meet.  A connection may say hello for another   *)
(* device ("other", known to the server or not) as often as it likes; what *)
(* it then does to the entries of that device is left out.  A thread's     *)
(* step ends where it takes or releases one of the two locks; held is the  *)
(* message it carries from one step to the next.                           *)
(*                                                                         *)
(* A challenge is numbered by its nonce, and since the TA makes one        *)
(* keypair per challenge the same number names the session key that the    *)
(* challenge leads to.  The client of this module is any client at all: it *)
(* may send any message at any time, repeat and reorder them, and send     *)
(* lines that the handler has no answer to and raises on.                  *)
(***************************************************************************)
EXTENDS Naturals, Sequences

CONSTANTS
  Conns,      \* slots for TCP connections
  MaxNonce,   \* bound on the challenges issued
  MaxSeq,     \* 0xFFFFFFFF, the largest sequence number accepted
  MaxQueue,   \* lines a socket buffer holds, in each direction
  Plaintexts  \* what the client seals: "samples", "notJson", or JSON that
              \* is no object with samples and "raises"

ASSUME BoundsAssumption ==
  MaxNonce \in Nat /\ MaxSeq \in Nat /\ MaxQueue \in Nat

Nonces == 1..MaxNonce
NoNonce == 0      \* no challenge pending, no session

\* n is the challenge that quote and signatures are over, NoNonce if they are
\* good for none; data of key NoNonce is not what a TA makes.  "junk" is a
\* line that is no JSON, no object or of no known type.
Response == [type : {"attest_response"}, n : Nonces \cup {NoNonce}]
BadData == [type |-> "data", key |-> NoNonce, seq |-> 1]
Data == [type : {"data"}, key : Nonces, seq : 1..MaxSeq + 1] \cup {BadData}
Hello == [type : {"hello"}, id : {"this", "other"}]
UpMsg == Hello \cup Response \cup Data \cup [type : {"junk"}]

\* "foreign" is a good answer about the other device.
DownMsg == [type : {"error", "ack", "foreign"}]
             \cup [type : {"attest_challenge"}, n : Nonces]
             \cup [type : {"attest_result"}, ok : BOOLEAN, n : Nonces \cup {NoNonce}]
NoMsg == [type |-> "none"]

VARIABLES
  link,         \* [Conns -> state of the TCP connection]
  up, dn,       \* lines in flight to the server, and to the device
  thread,       \* [Conns -> what the connection's thread does next]
  device_id,    \* [Conns -> whether the device of the thread's last hello is
                \* this one; else it is another or, as an unknown one, none]
  held,         \* the message a thread is in the middle of
  registered,   \* DeviceRegistry.lookup finds the device
  pending, pendingExpired,                  \* PendingChallenge
  session_key, session_expired, last_seq,   \* DeviceSession
  verdict,
  issued,       \* challenges issued so far
  installed,    \* keys a session was ever stored under
  accepted,     \* <<key, seq>> of every message the seq check let through
  rebound       \* a thread left this device for another since a thread last
                \* ended as this device's

wire == <<link, up, dn>>
challenge == <<pending, pendingExpired, issued>>
session == <<session_key, session_expired, last_seq, installed, accepted>>
bound == <<device_id, rebound>>
linkVars == <<wire, thread, bound, held, registered, challenge, session,
              verdict>>

LinkStates == {"free",         \* unused
               "open",
               "hostClosed",   \* the device closed it, lines may remain
               "broken",       \* reset on the way, both ends get an error
               "srvClosed",    \* the server process closed it
               "reset"}        \* and has answered a line with a TCP reset

TypeOK ==
  /\ link \in [Conns -> LinkStates]
  /\ up \in [Conns -> Seq(UpMsg)]
  /\ dn \in [Conns -> Seq(DownMsg)]
  /\ thread \in [Conns -> {"none", "read", "install", "advance", "store", "end"}]
  /\ device_id \in [Conns -> BOOLEAN]
  /\ rebound \in BOOLEAN
  /\ held \in [Conns -> Response \cup Data \cup {NoMsg}]
  /\ \A c \in Conns :
       /\ thread[c] = "install" => held[c] \in Response
       /\ thread[c] \in {"advance", "store"} => held[c] \in Data \ {BadData}
  /\ registered \in BOOLEAN
  /\ pending \in Nonces \cup {NoNonce}
  /\ pendingExpired \in BOOLEAN
  /\ session_key \in Nonces \cup {NoNonce}
  /\ session_expired \in BOOLEAN
  /\ last_seq \in 0..MaxSeq
  /\ verdict \in {"none", "ok", "fail", "disconnected"}
  /\ issued \in 0..MaxNonce
  /\ installed \subseteq Nonces
  /\ accepted \subseteq Nonces \X (1..MaxSeq)

LinkInit ==
  /\ link = [c \in Conns |-> "free"]
  /\ up = [c \in Conns |-> <<>>]
  /\ dn = [c \in Conns |-> <<>>]
  /\ thread = [c \in Conns |-> "none"]
  /\ device_id = [c \in Conns |-> FALSE] /\ rebound = FALSE
  /\ held = [c \in Conns |-> NoMsg]
  /\ registered \in BOOLEAN
  /\ pending = NoNonce /\ pendingExpired = FALSE
  /\ session_key = NoNonce /\ session_expired = FALSE /\ last_seq = 0
  /\ verdict = "none"
  /\ issued = 0 /\ installed = {} /\ accepted = {}

-----------------------------------------------------------------------------
(* Mutated forms of the helpers below; the specification does not use them *)

PopPending_get == UNCHANGED <<pending, pendingExpired>>   \* get, not pop
SeqSeen_strict(seq) == seq < last_seq                     \* < for <=
Refuse_silently(c) == UNCHANGED dn
SeqInRange_any(seq) == TRUE
DisconnectVerdict_cleanOnly(c) ==     \* after the loop, not in a finally
  verdict' = IF device_id[c] /\ link[c] = "hostClosed"
             THEN "disconnected" ELSE verdict

-----------------------------------------------------------------------------
(* The wire *)

\* writeline blocks on a full socket buffer; if the peer is gone the reply
\* is lost without notice.
Reply(c, m) ==
  \/ /\ link[c] = "open" /\ Len(dn[c]) < MaxQueue
     /\ dn' = [dn EXCEPT ![c] = Append(@, m)]
  \/ link[c] # "open" /\ UNCHANGED dn

Arrived(c, type) ==
  /\ thread[c] = "read"
  /\ link[c] \in {"open", "hostClosed"}
  /\ up[c] # <<>>
  /\ Head(up[c]).type = type

Take(c) == up' = [up EXCEPT ![c] = Tail(@)]

Resume(c, step, m) ==
  /\ thread' = [thread EXCEPT ![c] = step]
  /\ held' = [held EXCEPT ![c] = m]

Refuse(c) == Reply(c, [type |-> "error"])
Ack == [type |-> "ack"]        \* {"ok": ...}
Foreign == [type |-> "foreign"]
Result(ok, n) == [type |-> "attest_result", ok |-> ok, n |-> n]

\* An exception that the loop does not catch: the finally block and the close
\* of the connection follow.
Raise(c) == Resume(c, "end", NoMsg)

-----------------------------------------------------------------------------
(* hello -> attest_challenge *)

\* Every hello binds the thread anew, or unbinds it if the device is unknown.
Bind(c, this) ==
  /\ device_id' = [device_id EXCEPT ![c] = this]
  /\ rebound' = (rebound \/ (device_id[c] /\ ~this))

issue_challenge(c) ==
  LET id == Head(up[c]).id IN
  /\ Arrived(c, "hello")
  /\ Take(c)
  /\ \/ /\ id = "this" /\ registered
        /\ issued < MaxNonce
        /\ issued' = issued + 1
        /\ pending' = issued + 1 /\ pendingExpired' = FALSE
        /\ Bind(c, TRUE)
        /\ Reply(c, [type |-> "attest_challenge", n |-> issued + 1])
     \/ /\ id = "other" \/ ~registered
        /\ Bind(c, FALSE)
        /\ Refuse(c) \/ (id = "other" /\ Reply(c, Foreign))
        /\ UNCHANGED challenge
  /\ UNCHANGED <<link, thread, held, registered, session, verdict>>

-----------------------------------------------------------------------------
(* attest_response -> attest_result *)

PopPending == pending' = NoNonce /\ pendingExpired' = FALSE

\* Checks (a) to (e) for the challenge that was pending.
Verified(m) == m.n = pending /\ ~pendingExpired

\* Up to the derivation of the key: everything that can fail.  A field that
\* is missing is found before the challenge is popped, one that cannot be
\* parsed after it, and the parsers may raise what nobody catches.
verify_and_derive(c) ==
  LET m == Head(up[c]) IN
  /\ Arrived(c, "attest_response")
  /\ Take(c)
  /\ \/ /\ ~device_id[c]
        /\ \/ Reply(c, Result(FALSE, NoNonce)) /\ UNCHANGED <<thread, held>>
           \/ Reply(c, Foreign) /\ UNCHANGED <<thread, held>>
           \/ m.n = NoNonce /\ Raise(c) /\ UNCHANGED dn
        /\ UNCHANGED <<pending, pendingExpired>>
     \/ /\ device_id[c]
        /\ ~registered \/ pending = NoNonce \/ m.n = NoNonce
        /\ Reply(c, Result(FALSE, NoNonce))
        /\ UNCHANGED <<thread, held, pending, pendingExpired>>
     \/ /\ device_id[c] /\ registered /\ pending # NoNonce
        /\ PopPending
        /\ \/ /\ Verified(m)
              /\ Resume(c, "install", m)
              /\ UNCHANGED dn
           \/ /\ ~Verified(m)
              /\ Reply(c, Result(FALSE, NoNonce))
              /\ UNCHANGED <<thread, held>>
           \/ /\ m.n = NoNonce /\ ~pendingExpired
              /\ Raise(c)
              /\ UNCHANGED dn
  /\ UNCHANGED <<link, bound, registered, issued, session, verdict>>

\* Store the session under the lock, sign the transcript, answer.
InstallSession(c) ==
  /\ thread[c] = "install"
  /\ session_key' = held[c].n
  /\ session_expired' = FALSE
  /\ last_seq' = 0
  /\ installed' = installed \cup {held[c].n}
  /\ Reply(c, Result(TRUE, held[c].n))
  /\ Resume(c, "read", NoMsg)
  /\ UNCHANGED <<link, up, bound, registered, challenge, accepted, verdict>>

-----------------------------------------------------------------------------
(* data *)

SeqInRange(seq) == seq \in 1..MaxSeq
SeqSeen(seq) == seq <= last_seq

\* _on_data, up to the decryption: the key is looked up, and a session found
\* expired is dropped.  Of the data of another device only the answer shows.
on_data(c) ==
  LET m == Head(up[c])
      live == session_key # NoNonce /\ ~session_expired
      opens == live /\ SeqInRange(m.seq) /\ m.key = session_key IN
  /\ Arrived(c, "data")
  /\ Take(c)
  /\ \/ /\ ~device_id[c]
        /\ \/ Reply(c, Ack) /\ UNCHANGED <<thread, held>>
           \/ m = BadData /\ Raise(c) /\ UNCHANGED dn
        /\ UNCHANGED <<session_key, verdict>>
     \/ /\ device_id[c] /\ ~opens
        /\ session_key' = IF session_expired THEN NoNonce ELSE session_key
        /\ verdict' = "fail"
        /\ Reply(c, Ack)
        /\ UNCHANGED <<thread, held>>
     \/ /\ device_id[c] /\ live /\ m = BadData
        /\ Raise(c)
        /\ UNCHANGED <<session_key, verdict, dn>>
     \/ /\ device_id[c] /\ opens
        /\ Resume(c, "advance", m)
        /\ UNCHANGED <<session_key, verdict, dn>>
  /\ UNCHANGED <<link, bound, registered, challenge, session_expired,
                 last_seq, installed, accepted>>

\* Under the lock, but of whatever session is stored by then.
check_and_advance_seq(c) ==
  LET seq == held[c].seq IN
  /\ thread[c] = "advance"
  /\ \/ /\ SeqInRange(seq) /\ session_key # NoNonce /\ ~session_expired
        /\ ~SeqSeen(seq)
        /\ last_seq' = seq
        /\ accepted' = accepted \cup {<<held[c].key, seq>>}
        /\ Resume(c, "store", held[c])
        /\ UNCHANGED <<verdict, dn>>
     \/ /\ ~SeqInRange(seq) \/ session_key = NoNonce \/ session_expired
             \/ SeqSeen(seq)
        /\ verdict' = "fail"
        /\ Reply(c, Ack)
        /\ Resume(c, "read", NoMsg)
        /\ UNCHANGED <<last_seq, accepted>>
  /\ UNCHANGED <<link, up, bound, registered, challenge, session_key,
                 session_expired, installed>>

\* The samples go to the buffer and the verdict turns ok, under the lock,
\* unless the plaintext, of a message that now counts as seen, is no JSON or
\* not the object the code takes it for.
StoreSamples(c) ==
  /\ thread[c] = "store"
  /\ \/ /\ "samples" \in Plaintexts
        /\ verdict' = "ok"
        /\ Reply(c, Ack) /\ Resume(c, "read", NoMsg)
     \/ /\ "notJson" \in Plaintexts
        /\ verdict' = "fail"
        /\ Reply(c, Ack) /\ Resume(c, "read", NoMsg)
     \/ /\ "raises" \in Plaintexts
        /\ Raise(c)
        /\ UNCHANGED <<verdict, dn>>
  /\ UNCHANGED <<link, up, bound, registered, challenge, session>>

-----------------------------------------------------------------------------
(* Connections *)

\* No JSON and an unknown type are answered; no object raises.
OtherLine(c) ==
  /\ Arrived(c, "junk")
  /\ Take(c)
  /\ \/ Reply(c, Ack) /\ UNCHANGED <<thread, held>>
     \/ Raise(c) /\ UNCHANGED dn
  /\ UNCHANGED <<link, bound, registered, challenge, session, verdict>>

\* The server closes its end: a clean close, or a reset if lines are unread.
ServerCloses(c) ==
  CASE link[c] = "open" -> IF up[c] = <<>> THEN "srvClosed" ELSE "broken"
    [] link[c] = "hostClosed" -> "free"
    [] OTHER -> link[c]

\* The finally block, however the connection ended: of the device that the
\* thread is bound to by then, if any.
DisconnectVerdict(c) ==
  verdict' = IF device_id[c] THEN "disconnected" ELSE verdict

EndConnection(c) ==
  /\ \/ thread[c] = "read" /\ link[c] = "hostClosed" /\ up[c] = <<>> \* None
     \/ thread[c] = "read" /\ link[c] = "broken"   \* readline raised
     \/ thread[c] = "end"                          \* something else did
  /\ link' = [link EXCEPT ![c] = ServerCloses(c)]
  /\ up' = [up EXCEPT ![c] = <<>>]
  /\ dn' = [dn EXCEPT ![c] = IF ServerCloses(c) = "srvClosed" THEN @ ELSE <<>>]
  /\ thread' = [thread EXCEPT ![c] = "none"]
  /\ device_id' = [device_id EXCEPT ![c] = FALSE]
  /\ rebound' = (rebound /\ ~device_id[c])
  /\ DisconnectVerdict(c)
  /\ UNCHANGED <<held, registered, challenge, session>>

Connect(c) ==
  /\ link[c] = "free"
  /\ link' = [link EXCEPT ![c] = "open"]
  /\ thread' = [thread EXCEPT ![c] = "read"]
  /\ UNCHANGED <<up, dn, bound, held, registered, challenge, session, verdict>>

\* Nothing is signed or sealed over a nonce before it is issued.
Send(c, m) ==
  /\ link[c] = "open"
  /\ m.type = "attest_response" => m.n <= issued
  /\ m.type = "data" => m.key <= issued
  /\ Len(up[c]) < MaxQueue
  /\ up' = [up EXCEPT ![c] = Append(@, m)]
  /\ UNCHANGED <<link, dn, thread, bound, held, registered, challenge,
                 session, verdict>>

Receive(c) ==
  /\ link[c] \in {"open", "srvClosed", "reset"}
  /\ dn[c] # <<>>
  /\ dn' = [dn EXCEPT ![c] = Tail(@)]
  /\ UNCHANGED <<link, up, thread, bound, held, registered, challenge,
                 session, verdict>>

\* A line sent to a server that closed its end is lost, and draws a reset.
SendLost(c) ==
  /\ link[c] = "srvClosed"
  /\ link' = [link EXCEPT ![c] = "reset"]
  /\ UNCHANGED <<up, dn, thread, bound, held, registered, challenge,
                 session, verdict>>

Close(c) ==
  /\ link[c] \in {"open", "broken", "srvClosed", "reset"}
  /\ link' = [link EXCEPT ![c] = IF thread[c] = "none" THEN "free" ELSE "hostClosed"]
  /\ dn' = [dn EXCEPT ![c] = <<>>]
  /\ UNCHANGED <<up, thread, bound, held, registered, challenge, session,
                 verdict>>

Break(c) ==
  /\ link[c] = "open"
  /\ link' = [link EXCEPT ![c] = "broken"]
  /\ up' = [up EXCEPT ![c] = <<>>]
  /\ dn' = [dn EXCEPT ![c] = <<>>]
  /\ UNCHANGED <<thread, bound, held, registered, challenge, session, verdict>>

-----------------------------------------------------------------------------
(* Time, operator, process *)

SessionTimeout ==   \* DEVICE_SESSION_TTL_SECONDS have passed
  /\ session_key # NoNonce /\ ~session_expired
  /\ session_expired' = TRUE
  /\ UNCHANGED <<wire, thread, bound, held, registered, challenge,
                 session_key, last_seq, installed, accepted, verdict>>

ChallengeTimeout ==   \* ATTEST_CHALLENGE_TTL_SECONDS have passed
  /\ pending # NoNonce /\ ~pendingExpired
  /\ pendingExpired' = TRUE
  /\ UNCHANGED <<wire, thread, bound, held, registered, pending, issued,
                 session, verdict>>

RegisterDevice ==
  /\ ~registered
  /\ registered' = TRUE
  /\ UNCHANGED <<wire, thread, bound, held, challenge, session, verdict>>

\* The process is restarted: threads, challenges, sessions and verdicts are
\* gone, open connections are closed (with a reset where lines were unread),
\* and the registry is read from its file, where the device may have been
\* added or removed meanwhile.
RestartServer ==
  /\ thread' = [c \in Conns |-> "none"]
  /\ device_id' = [c \in Conns |-> FALSE] /\ rebound' = FALSE
  /\ held' = [c \in Conns |-> NoMsg]
  /\ link' = [c \in Conns |-> ServerCloses(c)]
  /\ dn' = [c \in Conns |-> IF ServerCloses(c) = "broken" THEN <<>> ELSE dn[c]]
  /\ up' = [c \in Conns |-> <<>>]
  /\ pending' = NoNonce /\ pendingExpired' = FALSE
  /\ session_key' = NoNonce /\ session_expired' = FALSE /\ last_seq' = 0
  /\ verdict' = "none"
  /\ registered' \in BOOLEAN
  /\ UNCHANGED <<issued, installed, accepted>>

-----------------------------------------------------------------------------
ServerStep(c) ==
  \/ issue_challenge(c) \/ verify_and_derive(c) \/ InstallSession(c)
  \/ on_data(c) \/ check_and_advance_seq(c) \/ StoreSamples(c)
  \/ OtherLine(c) \/ EndConnection(c)

ClientStep(c) ==
  \/ Connect(c) \/ (\E m \in UpMsg : Send(c, m)) \/ Receive(c)
  \/ SendLost(c) \/ Close(c)

LinkNext ==
  \/ \E c \in Conns : ServerStep(c) \/ ClientStep(c) \/ Break(c)
  \/ SessionTimeout \/ ChallengeTimeout \/ RegisterDevice \/ RestartServer

LinkSpec == LinkInit /\ [][LinkNext]_linkVars

-----------------------------------------------------------------------------
(* Properties *)

\* Inner-session anti-replay: whatever the client repeats and however the
\* connection threads interleave, a message of the session that is current
\* passes the seq check at most once, over re-attestations and restarts
\* (check_and_advance_seq; a challenge is popped, so no key comes back).
AcceptedOnce ==
  [][\A c \in Conns :
       thread[c] = "advance" /\ thread'[c] = "store" /\ held[c].key = session_key
         => <<held[c].key, held[c].seq>> \notin accepted]_linkVars

\* The threads, locks, challenges and lazy expiry together behave as the
\* atomic session object of SessionSpec: no key is ever installed twice and
\* the high-water mark of an installed key never falls (verify_and_derive,
\* check_and_advance_seq, session_key).
Session == INSTANCE SessionSpec WITH
  Keys <- Nonces, NoKey <- NoNonce,
  key <- session_key,
  high <- IF session_key = NoNonce THEN 0 ELSE last_seq,
  used <- installed
ImplementsSession == Session!Spec

\* When the last connection thread has ended, whatever ended it, the
\* dashboard does not show the device as ok (the finally block: "so the
\* dashboard doesn't keep showing a stale ok for a device that's gone"),
\* except where a thread of the device was bound to another by a later hello:
\* its finally block then writes the other's verdict or none.
NoStaleOk ==
  (\A c \in Conns : thread[c] = "none") /\ verdict = "ok" => rebound

\* The stored high-water mark is the highest seq accepted under the stored
\* key: "Fresh key => last_seq resets to 0 (dataclass default), so the
\* device's post-attestation seq 1 is the first message accepted"
\* (attestation.py, verify_and_derive).
LastSeqIsOfThisKey ==
  session_key # NoNonce =>
    \/ last_seq = 0
    \/ <<session_key, last_seq>> \in accepted
=============================================================================
