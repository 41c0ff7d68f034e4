------------------------ MODULE AttestedLink_proofs ------------------------
(***************************************************************************)
(* Proofs about the server's end of the link, for any number of            *)
(* connections, challenges and messages and any client behaviour.          *)
(*                                                                         *)
(* SingleUse is the heart of it: a challenge is in at most one place (it   *)
(* is pending, or one thread is between popping it and storing its key, or *)
(* its key was installed).  HighWater then bounds the messages accepted    *)
(* under the installed key.                                                *)
(***************************************************************************)
EXTENDS AttestedLink, TLAPS, SequenceTheorems

SingleUse ==
  /\ pending <= issued /\ pending \notin installed
  /\ \A k \in installed : k <= issued
  /\ \A c \in Conns : thread[c] = "install" =>
       /\ held[c].n \in 1..issued
       /\ held[c].n \notin installed
       /\ held[c].n # pending
  /\ \A c, d \in Conns :
       thread[c] = "install" /\ thread[d] = "install" /\ held[c].n = held[d].n
         => c = d

HighWater ==
  /\ session_key # NoNonce => session_key \in installed
  /\ \A c \in Conns : thread[c] = "advance" => held[c].key \in installed
  /\ \A m \in accepted : m[1] \in installed
  /\ session_key # NoNonce =>
       \A m \in accepted : m[1] = session_key => m[2] <= last_seq

-----------------------------------------------------------------------------
(* Lines and messages *)

\* The message at the head of a line, and the line behind it.
LEMMA HeadOfLine ==
  ASSUME TypeOK, NEW c \in Conns, up[c] # <<>>
  PROVE  Head(up[c]) \in UpMsg /\ Tail(up[c]) \in Seq(UpMsg)
  BY HeadTailProperties DEF TypeOK

\* Taking a message off its line keeps the lines' type ...
LEMMA TakeType ==
  ASSUME TypeOK, NEW c \in Conns, up[c] # <<>>, Take(c)
  PROVE  up' \in [Conns -> Seq(UpMsg)]
  BY HeadOfLine DEF Take, TypeOK

\* ... and so does a reply on the way back.
LEMMA ReplyType ==
  ASSUME TypeOK, NEW c \in Conns, NEW m \in DownMsg, Reply(c, m)
  PROVE  dn' \in [Conns -> Seq(DownMsg)]
<1>1. Append(dn[c], m) \in Seq(DownMsg)
  BY AppendProperties DEF TypeOK
<1> QED
  BY <1>1 DEF Reply, TypeOK

\* What the server writes are lines of the protocol.
LEMMA Replies ==
  /\ [type |-> "error"] \in DownMsg
  /\ Ack \in DownMsg /\ Foreign \in DownMsg
  /\ \A n \in Nonces : [type |-> "attest_challenge", n |-> n] \in DownMsg
  /\ \A ok \in BOOLEAN, n \in Nonces \cup {NoNonce} : Result(ok, n) \in DownMsg
  BY DEF DownMsg, Ack, Foreign, Result

\* The type field of a line tells what it is.
LEMMA Lines ==
  /\ \A m \in UpMsg : m.type = "attest_response" => m \in Response
  /\ \A m \in UpMsg : m.type = "data" => m \in Data
  BY DEF UpMsg, Response, Data, BadData, Hello

-----------------------------------------------------------------------------
(* Type correctness *)

\* Every step keeps the types, given what SingleUse says of the nonces held.
LEMMA TypeStep == TypeOK /\ SingleUse /\ [LinkNext]_linkVars => TypeOK'
<1> SUFFICES ASSUME TypeOK, SingleUse, [LinkNext]_linkVars PROVE TypeOK'
  OBVIOUS
<1> USE BoundsAssumption
<1>1. ASSUME NEW c \in Conns, issue_challenge(c) PROVE TypeOK'
  <2>1. up' \in [Conns -> Seq(UpMsg)]
    BY <1>1, TakeType DEF issue_challenge, Arrived
  <2>2. dn' \in [Conns -> Seq(DownMsg)]
    <3>1. issued < MaxNonce => issued + 1 \in Nonces
      BY DEF TypeOK, Nonces
    <3>2. \/ Reply(c, [type |-> "error"]) \/ Reply(c, Foreign)
          \/ /\ issued < MaxNonce
             /\ Reply(c, [type |-> "attest_challenge", n |-> issued + 1])
      BY <1>1 DEF issue_challenge, Refuse
    <3> QED
      BY <3>1, <3>2, ReplyType, Replies
  <2>3. device_id' \in [Conns -> BOOLEAN] /\ rebound' \in BOOLEAN
    BY <1>1 DEF issue_challenge, Bind, TypeOK
  <2>4. /\ pending' \in Nonces \cup {NoNonce} /\ pendingExpired' \in BOOLEAN
        /\ issued' \in 0..MaxNonce
    <3>1. /\ pending \in Nonces \cup {NoNonce} /\ pendingExpired \in BOOLEAN
          /\ issued \in 0..MaxNonce
      BY DEF TypeOK
    <3>2. \/ issued < MaxNonce /\ issued' = issued + 1 /\ pending' = issued + 1
          \/ issued' = issued /\ pending' = pending
      BY <1>1 DEF issue_challenge, challenge
    <3>3. pendingExpired' \in {FALSE, pendingExpired}
      BY <1>1 DEF issue_challenge, challenge
    <3>4. issued' \in 0..MaxNonce
      BY <3>1, <3>2
    <3>5. pending' \in Nonces \cup {NoNonce}
      BY <3>1, <3>2 DEF Nonces
    <3> QED
      BY <3>1, <3>3, <3>4, <3>5
  <2> QED
    BY <1>1, <2>1, <2>2, <2>3, <2>4 DEF TypeOK, issue_challenge, session
<1>2. ASSUME NEW c \in Conns, verify_and_derive(c) PROVE TypeOK'
  <2>1. up' \in [Conns -> Seq(UpMsg)]
    BY <1>2, TakeType DEF verify_and_derive, Arrived
  <2>2. dn' \in [Conns -> Seq(DownMsg)]
    BY <1>2, ReplyType, Replies DEF verify_and_derive, TypeOK
  <2>3. Head(up[c]) \in Response
    BY <1>2, HeadOfLine, Lines DEF verify_and_derive, Arrived
  <2>4. /\ pending' \in Nonces \cup {NoNonce} /\ pendingExpired' \in BOOLEAN
    BY <1>2 DEF verify_and_derive, PopPending, TypeOK
  <2>5. CASE UNCHANGED <<thread, held>>
    BY <1>2, <2>1, <2>2, <2>4, <2>5
    DEF TypeOK, verify_and_derive, bound, session
  <2>6. CASE Resume(c, "install", Head(up[c]))
    BY <1>2, <2>1, <2>2, <2>3, <2>4, <2>6
    DEF TypeOK, verify_and_derive, Resume, bound, session
  <2>7. CASE Raise(c)
    BY <1>2, <2>1, <2>2, <2>4, <2>7
    DEF TypeOK, verify_and_derive, Raise, Resume, bound, session
  <2> QED
    BY <1>2, <2>5, <2>6, <2>7 DEF verify_and_derive
<1>3. ASSUME NEW c \in Conns, InstallSession(c) PROVE TypeOK'
  <2>1. held[c].n \in Nonces
    BY <1>3 DEF InstallSession, TypeOK, SingleUse, Nonces
  <2>2. dn' \in [Conns -> Seq(DownMsg)]
    BY <1>3, <2>1, ReplyType, Replies DEF InstallSession, TypeOK
  <2>3. installed' \subseteq Nonces /\ last_seq' \in 0..MaxSeq
    <3>1. installed \subseteq Nonces
      BY DEF TypeOK
    <3>2. installed' = installed \cup {held[c].n} /\ last_seq' = 0
      BY <1>3 DEF InstallSession
    <3> QED
      BY <2>1, <3>1, <3>2
  <2> QED
    BY <1>3, <2>1, <2>2, <2>3 DEF TypeOK, InstallSession, Resume, bound, challenge
<1>4. ASSUME NEW c \in Conns, on_data(c) PROVE TypeOK'
  <2>1. up' \in [Conns -> Seq(UpMsg)]
    BY <1>4, TakeType DEF on_data, Arrived
  <2>2. dn' \in [Conns -> Seq(DownMsg)]
    BY <1>4, ReplyType, Replies DEF on_data, TypeOK
  <2>3. Head(up[c]) \in Data
    BY <1>4, HeadOfLine, Lines DEF on_data, Arrived
  <2>4. CASE UNCHANGED <<thread, held>>
    BY <1>4, <2>1, <2>2, <2>4 DEF TypeOK, on_data, bound, challenge
  <2>5. CASE /\ Resume(c, "advance", Head(up[c]))
             /\ Head(up[c]).key = session_key /\ session_key # NoNonce
             /\ UNCHANGED <<session_key, verdict>>
    <3>1. Head(up[c]) # BadData
      BY <2>5 DEF BadData
    <3> QED
      BY <1>4, <2>1, <2>2, <2>3, <2>5, <3>1
      DEF TypeOK, on_data, Resume, bound, challenge
  <2>6. CASE Raise(c) /\ UNCHANGED <<session_key, verdict>>
    BY <1>4, <2>1, <2>2, <2>6 DEF TypeOK, on_data, Raise, Resume, bound, challenge
  <2> QED
    BY <1>4, <2>4, <2>5, <2>6 DEF on_data
<1>5. ASSUME NEW c \in Conns, check_and_advance_seq(c) PROVE TypeOK'
  <2>1. held[c] \in Data \ {BadData} /\ held[c].key \in Nonces
    BY <1>5 DEF check_and_advance_seq, TypeOK, Data
  <2>2. dn' \in [Conns -> Seq(DownMsg)]
    BY <1>5, ReplyType, Replies DEF check_and_advance_seq, TypeOK
  <2>3. last_seq' \in 0..MaxSeq /\ accepted' \subseteq Nonces \X (1..MaxSeq)
    BY <1>5, <2>1 DEF check_and_advance_seq, SeqInRange, TypeOK
  <2> QED
    BY <1>5, <2>1, <2>2, <2>3
    DEF TypeOK, check_and_advance_seq, Resume, bound, challenge
<1>6. ASSUME NEW c \in Conns, StoreSamples(c) PROVE TypeOK'
  <2>1. dn' \in [Conns -> Seq(DownMsg)]
    BY <1>6, ReplyType, Replies DEF StoreSamples, TypeOK
  <2> QED
    BY <1>6, <2>1 DEF TypeOK, StoreSamples, Raise, Resume, bound, challenge, session
<1>7. ASSUME NEW c \in Conns, EndConnection(c) PROVE TypeOK'
  <2>1. /\ up' \in [Conns -> Seq(UpMsg)] /\ dn' \in [Conns -> Seq(DownMsg)]
    BY <1>7, EmptySeq DEF EndConnection, TypeOK
  <2>2. /\ link' \in [Conns -> LinkStates]
        /\ device_id' \in [Conns -> BOOLEAN] /\ rebound' \in BOOLEAN
    BY <1>7 DEF EndConnection, ServerCloses, LinkStates, TypeOK
  <2>3. verdict' \in {"none", "ok", "fail", "disconnected"}
    BY <1>7 DEF EndConnection, DisconnectVerdict, TypeOK
  <2> QED
    BY <1>7, <2>1, <2>2, <2>3 DEF TypeOK, EndConnection, challenge, session
<1>8. ASSUME NEW c \in Conns,
             Connect(c) \/ SendLost(c) \/ Close(c) \/ Break(c) PROVE TypeOK'
  <2>0. /\ up \in [Conns -> Seq(UpMsg)] /\ <<>> \in Seq(UpMsg)
        /\ dn \in [Conns -> Seq(DownMsg)] /\ <<>> \in Seq(DownMsg)
    BY DEF TypeOK
  <2>1. up' \in [Conns -> Seq(UpMsg)]
    BY <1>8, <2>0 DEF Connect, SendLost, Close, Break
  <2>2. dn' \in [Conns -> Seq(DownMsg)]
    BY <1>8, <2>0 DEF Connect, SendLost, Close, Break
  <2> QED
    BY <1>8, <2>1, <2>2 DEF TypeOK, Connect, SendLost, Close, Break, LinkStates,
                      bound, challenge, session
<1>9. ASSUME NEW c \in Conns, NEW m \in UpMsg, Send(c, m) PROVE TypeOK'
  <2>1. Append(up[c], m) \in Seq(UpMsg)
    BY AppendProperties DEF TypeOK
  <2> QED
    BY <1>9, <2>1 DEF TypeOK, Send, bound, challenge, session
<1>10. ASSUME NEW c \in Conns, Receive(c) PROVE TypeOK'
  <2>1. Tail(dn[c]) \in Seq(DownMsg)
    BY <1>10, HeadTailProperties DEF Receive, TypeOK
  <2> QED
    BY <1>10, <2>1 DEF TypeOK, Receive, bound, challenge, session
<1>11. CASE SessionTimeout \/ ChallengeTimeout \/ RegisterDevice
  BY <1>11 DEF TypeOK, SessionTimeout, ChallengeTimeout, RegisterDevice, wire,
               bound, challenge, session
<1>12. CASE RestartServer
  <2>1. link' \in [Conns -> LinkStates]
    BY <1>12 DEF RestartServer, ServerCloses, TypeOK, LinkStates
  <2>2. /\ up' \in [Conns -> Seq(UpMsg)] /\ dn' \in [Conns -> Seq(DownMsg)]
    BY <1>12, EmptySeq DEF RestartServer, TypeOK
  <2>3. /\ thread' \in [Conns -> {"none", "read", "install", "advance", "store",
                               "end"}]
        /\ device_id' \in [Conns -> BOOLEAN] /\ rebound' \in BOOLEAN
        /\ held' \in [Conns -> Response \cup Data \cup {NoMsg}]
        /\ \A c \in Conns : thread'[c] = "none"
    BY <1>12 DEF RestartServer
  <2>4. last_seq' \in 0..MaxSeq
    BY <1>12 DEF RestartServer
  <2> QED
    BY <1>12, <2>1, <2>2, <2>3, <2>4 DEF TypeOK, RestartServer
<1>13. CASE UNCHANGED linkVars
  BY <1>13 DEF TypeOK, linkVars, wire, bound, challenge, session
<1>14. ASSUME NEW c \in Conns, OtherLine(c) PROVE TypeOK'
  <2>1. up' \in [Conns -> Seq(UpMsg)]
    BY <1>14, TakeType DEF OtherLine, Arrived
  <2>2. dn' \in [Conns -> Seq(DownMsg)]
    BY <1>14, ReplyType, Replies DEF OtherLine, TypeOK
  <2> QED
    BY <1>14, <2>1, <2>2
    DEF TypeOK, OtherLine, Raise, Resume, bound, challenge, session
<1> QED
  BY <1>1, <1>2, <1>3, <1>4, <1>5, <1>6, <1>7, <1>8, <1>9, <1>10, <1>11,
     <1>12, <1>13, <1>14 DEF LinkNext, ServerStep, ClientStep

-----------------------------------------------------------------------------
(* A challenge leads to at most one session *)

\* Every server step is about one challenge: issuing puts a new one in
\* pending, a response takes it out, storing the session moves it from the
\* thread to installed; nothing puts one back.
LEMMA SingleUseStep == TypeOK /\ SingleUse /\ [LinkNext]_linkVars => SingleUse'
<1> SUFFICES ASSUME TypeOK, SingleUse, [LinkNext]_linkVars PROVE SingleUse'
  OBVIOUS
<1>0. /\ issued \in Nat /\ pending \in Nat
      /\ installed \subseteq Nat /\ 0 \notin installed
      /\ DOMAIN thread = Conns /\ DOMAIN held = Conns
  BY BoundsAssumption DEF TypeOK, Nonces, NoNonce
<1>1. ASSUME NEW c \in Conns, issue_challenge(c) PROVE SingleUse'
  <2>1. CASE /\ issued' = issued + 1 /\ pending' = issued + 1
             /\ UNCHANGED <<installed, thread, held>>
    BY <1>0, <2>1 DEF SingleUse
  <2>2. CASE UNCHANGED <<pending, issued, installed, thread, held>>
    BY <2>2 DEF SingleUse
  <2> QED
    BY <1>1, <2>1, <2>2 DEF issue_challenge, challenge, session
<1>2. ASSUME NEW c \in Conns, verify_and_derive(c) PROVE SingleUse'
  <2> DEFINE m == Head(up[c])
  <2>0. UNCHANGED <<issued, installed>>
    BY <1>2 DEF verify_and_derive, session
  <2>1. CASE UNCHANGED <<thread, held, pending>>
    BY <2>0, <2>1 DEF SingleUse
  <2>2. CASE /\ pending # NoNonce /\ m.n = pending /\ pending' = NoNonce
             /\ thread' = [thread EXCEPT ![c] = "install"]
             /\ held' = [held EXCEPT ![c] = m]
    BY <1>0, <2>0, <2>2 DEF SingleUse, NoNonce
  <2>3. CASE UNCHANGED <<thread, held>> /\ pending' = NoNonce
    BY <1>0, <2>0, <2>3 DEF SingleUse, NoNonce
  <2>4. CASE Raise(c) /\ pending' \in {pending, NoNonce}
    BY <1>0, <2>0, <2>4 DEF SingleUse, Raise, Resume, NoNonce
  <2> QED
    BY <1>2, <2>1, <2>2, <2>3, <2>4
    DEF verify_and_derive, PopPending, Verified, Resume
<1>3. ASSUME NEW c \in Conns, InstallSession(c) PROVE SingleUse'
  <2>1. /\ thread[c] = "install"
        /\ installed' = installed \cup {held[c].n}
        /\ thread' = [thread EXCEPT ![c] = "read"]
        /\ held' = [held EXCEPT ![c] = NoMsg]
        /\ UNCHANGED <<pending, issued>>
    BY <1>3 DEF InstallSession, Resume, challenge
  <2> QED
    BY <1>0, <2>1 DEF SingleUse
<1>4. ASSUME NEW c \in Conns, NEW step, NEW m, step # "install",
             Resume(c, step, m), UNCHANGED <<pending, issued, installed>>
      PROVE  SingleUse'
  BY <1>0, <1>4 DEF SingleUse, Resume
<1>5. CASE UNCHANGED <<pending, issued, installed, thread, held>>
  BY <1>5 DEF SingleUse
<1>6. ASSUME NEW c \in Conns,
             \/ on_data(c) \/ check_and_advance_seq(c) \/ StoreSamples(c)
             \/ OtherLine(c)
      PROVE  SingleUse'
  <2>1. CASE on_data(c)
    BY <1>4, <1>5, <2>1 DEF on_data, Raise, challenge
  <2>2. CASE check_and_advance_seq(c)
    BY <1>4, <2>2 DEF check_and_advance_seq, challenge
  <2>3. CASE StoreSamples(c)
    BY <1>4, <2>3 DEF StoreSamples, Raise, challenge, session
  <2>4. CASE OtherLine(c)
    BY <1>4, <1>5, <2>4 DEF OtherLine, Raise, challenge, session
  <2> QED
    BY <1>6, <2>1, <2>2, <2>3, <2>4
<1>7. ASSUME NEW c \in Conns,
             EndConnection(c) \/ Connect(c)
      PROVE  SingleUse'
  BY <1>0, <1>7 DEF EndConnection, Connect, SingleUse, challenge, session
<1>8. ASSUME NEW c \in Conns,
             \/ \E m \in UpMsg : Send(c, m)
             \/ Receive(c) \/ SendLost(c) \/ Close(c) \/ Break(c)
      PROVE  SingleUse'
  BY <1>5, <1>8 DEF Send, Receive, SendLost, Close, Break, challenge, session
<1>9. CASE SessionTimeout \/ ChallengeTimeout \/ RegisterDevice
  BY <1>5, <1>9 DEF SessionTimeout, ChallengeTimeout, RegisterDevice, challenge,
                    session
<1>10. CASE RestartServer
  BY <1>0, <1>10 DEF RestartServer, SingleUse, NoNonce
<1>11. CASE UNCHANGED linkVars
  BY <1>5, <1>11 DEF linkVars, challenge, session
<1> QED
  BY <1>1, <1>2, <1>3, <1>6, <1>7, <1>8, <1>9, <1>10, <1>11
  DEF LinkNext, ServerStep, ClientStep

\* Types and single use, together, hold in every reachable state.
LEMMA InvHolds == LinkSpec => [](TypeOK /\ SingleUse)
<1>1. LinkInit => TypeOK
  <2> SUFFICES ASSUME LinkInit PROVE TypeOK
    OBVIOUS
  <2>1. <<>> \in Seq(UpMsg) /\ <<>> \in Seq(DownMsg)
    OBVIOUS
  <2>2. /\ up \in [Conns -> Seq(UpMsg)] /\ dn \in [Conns -> Seq(DownMsg)]
    BY <2>1 DEF LinkInit
  <2>3. last_seq \in 0..MaxSeq /\ issued \in 0..MaxNonce
    BY BoundsAssumption DEF LinkInit
  <2> QED
    BY <2>2, <2>3 DEF LinkInit, TypeOK, LinkStates
<1>2. LinkInit => SingleUse
  BY DEF LinkInit, SingleUse, NoNonce
<1> QED
  BY <1>1, <1>2, TypeStep, SingleUseStep, PTL DEF LinkSpec

\* Every variable of the server's end keeps its type; in particular no
\* sequence number outside 1..MaxSeq is ever accepted.
THEOREM TypeCorrect == LinkSpec => []TypeOK
  BY InvHolds, PTL

-----------------------------------------------------------------------------
(* What a step does to the session *)

\* Nothing but the four ways in which the session or what was accepted can
\* change: a stored session, an accepted message, a dropped session, the
\* clock.
LEMMA SessionSteps ==
  ASSUME TypeOK, [LinkNext]_linkVars
  PROVE  \/ \E c \in Conns : InstallSession(c)
         \/ \E c \in Conns :
              check_and_advance_seq(c) /\ thread'[c] = "store"
         \/ /\ session_key' \in {session_key, NoNonce}
            /\ session_key' = session_key => last_seq' = last_seq
                                              \/ session_key = NoNonce
            /\ UNCHANGED <<installed, accepted>>
<1> DEFINE Quiet == /\ session_key' \in {session_key, NoNonce}
                    /\ session_key' = session_key => last_seq' = last_seq
                                              \/ session_key = NoNonce
                    /\ UNCHANGED <<installed, accepted>>
<1>1. CASE UNCHANGED <<session_key, last_seq, installed, accepted>>
  BY <1>1
<1>2. ASSUME NEW c \in Conns, on_data(c) PROVE Quiet
  BY <1>2 DEF on_data
<1>3. ASSUME NEW c \in Conns, check_and_advance_seq(c), thread'[c] # "store"
      PROVE  Quiet
  <2>1. DOMAIN thread = Conns
    BY DEF TypeOK
  <2> QED
    BY <1>3, <2>1 DEF check_and_advance_seq, Resume
<1>4. CASE RestartServer
  BY <1>4 DEF RestartServer
<1> QED
  BY <1>1, <1>2, <1>3, <1>4, ZenonT(40)
  DEF LinkNext, ServerStep, ClientStep, issue_challenge, verify_and_derive,
      StoreSamples, OtherLine, EndConnection, Connect, Send, Receive, SendLost,
      Close, Break, SessionTimeout, ChallengeTimeout, RegisterDevice, linkVars, session

\* A message on its way to the seq check was decrypted under a key that had
\* been installed.
LEMMA AdvanceStep ==
  ASSUME TypeOK, HighWater, [LinkNext]_linkVars, NEW d \in Conns,
         thread'[d] = "advance"
  PROVE  held'[d].key \in installed'
<1>0. /\ DOMAIN thread = Conns /\ DOMAIN held = Conns
      /\ thread[d] = "advance" => held[d].key \in installed
      /\ session_key # NoNonce => session_key \in installed
  BY DEF TypeOK, HighWater
<1>1. installed \subseteq installed'
  BY SessionSteps DEF InstallSession, check_and_advance_seq
<1>2. CASE thread'[d] = thread[d] /\ held'[d] = held[d]
  BY <1>0, <1>1, <1>2
<1>3. ASSUME NEW c \in Conns, on_data(c) PROVE held'[d].key \in installed'
  BY <1>0, <1>1, <1>2, <1>3 DEF on_data, Raise, Resume
<1>4. ASSUME NEW c \in Conns,
             \/ issue_challenge(c) \/ verify_and_derive(c) \/ InstallSession(c)
             \/ check_and_advance_seq(c) \/ StoreSamples(c) \/ OtherLine(c)
             \/ EndConnection(c) \/ Connect(c)
      PROVE  thread'[d] = thread[d] /\ held'[d] = held[d]
  BY <1>0, <1>4 DEF issue_challenge, verify_and_derive, InstallSession,
                    check_and_advance_seq, StoreSamples, OtherLine,
                    EndConnection, Connect, Raise, Resume
<1>5. CASE RestartServer
  BY <1>5 DEF RestartServer
<1> QED
  BY <1>2, <1>3, <1>4, <1>5
  DEF LinkNext, ServerStep, ClientStep, Send, Receive, SendLost, Close, Break,
      SessionTimeout, ChallengeTimeout, RegisterDevice, linkVars

\* The mark of the installed key bounds what was accepted under it, although
\* the check may be made for a message of an older key.
LEMMA HighWaterStep ==
  TypeOK /\ SingleUse /\ HighWater /\ [LinkNext]_linkVars => HighWater'
<1> SUFFICES ASSUME TypeOK, SingleUse, HighWater, [LinkNext]_linkVars
             PROVE  HighWater'
  OBVIOUS
<1>0. /\ last_seq \in Nat
      /\ accepted \subseteq Nonces \X Nat
      /\ \A c \in Conns : thread[c] = "advance" => held[c].seq \in Nat
  BY BoundsAssumption DEF TypeOK, Data, BadData
<1>1. \A c \in Conns : thread'[c] = "advance" => held'[c].key \in installed'
  BY AdvanceStep
<1>2. ASSUME NEW c \in Conns, InstallSession(c) PROVE HighWater'
  <2>1. /\ held[c].n \notin installed
        /\ session_key' = held[c].n
        /\ installed' = installed \cup {held[c].n}
        /\ accepted' = accepted
    BY <1>2 DEF InstallSession, SingleUse
  <2> QED
    BY <1>1, <2>1 DEF HighWater
<1>3. ASSUME NEW c \in Conns, check_and_advance_seq(c), thread'[c] = "store"
      PROVE  HighWater'
  <2>1. /\ thread[c] = "advance" /\ held[c].key \in installed
        /\ last_seq' = held[c].seq /\ held[c].seq > last_seq
        /\ accepted' = accepted \cup {<<held[c].key, held[c].seq>>}
        /\ UNCHANGED <<session_key, installed>>
    <3>1. DOMAIN thread = Conns
      BY DEF TypeOK
    <3> QED
      BY <1>0, <1>3, <3>1
      DEF check_and_advance_seq, SeqSeen, Resume, HighWater
  <2> QED
    BY <1>0, <1>1, <2>1 DEF HighWater
<1>4. CASE /\ session_key' \in {session_key, NoNonce}
           /\ session_key' = session_key => last_seq' = last_seq
                                              \/ session_key = NoNonce
           /\ UNCHANGED <<installed, accepted>>
  BY <1>1, <1>4 DEF HighWater
<1> QED
  BY <1>2, <1>3, <1>4, SessionSteps

\* The replay counter is never behind a message that was accepted.
LEMMA HighWaterHolds == LinkSpec => []HighWater
<1>1. LinkInit => HighWater
  BY DEF LinkInit, HighWater
<1> QED
  BY <1>1, HighWaterStep, InvHolds, PTL DEF LinkSpec

\* Anti-replay for every number of connection threads and whatever the
\* client repeats: no message of the installed key passes the check twice.
THEOREM AtMostOnce == LinkSpec => AcceptedOnce
<1> DEFINE Once(c) ==
      thread[c] = "advance" /\ thread'[c] = "store" /\ held[c].key = session_key
        => <<held[c].key, held[c].seq>> \notin accepted
<1>1. TypeOK /\ HighWater /\ [LinkNext]_linkVars =>
        [\A c \in Conns : Once(c)]_linkVars
  <2> SUFFICES ASSUME TypeOK, HighWater, LinkNext, NEW d \in Conns,
                      thread[d] = "advance", thread'[d] = "store",
                      held[d].key = session_key
               PROVE  <<held[d].key, held[d].seq>> \notin accepted
    OBVIOUS
  <2>0. /\ DOMAIN thread = Conns /\ held[d].seq \in Nat /\ last_seq \in Nat
    BY BoundsAssumption DEF TypeOK, Data, BadData
  <2>1. ASSUME NEW c \in Conns,
               \/ issue_challenge(c) \/ verify_and_derive(c) \/ InstallSession(c)
               \/ on_data(c) \/ StoreSamples(c) \/ OtherLine(c)
               \/ EndConnection(c) \/ Connect(c)
        PROVE  FALSE
    BY <2>0, <2>1 DEF issue_challenge, verify_and_derive, InstallSession,
                      on_data, StoreSamples, OtherLine, EndConnection,
                      Connect, Raise, Resume, Arrived
  <2>2. check_and_advance_seq(d)
    <3>1. ASSUME NEW c \in Conns, check_and_advance_seq(c) PROVE c = d
      BY <2>0, <3>1 DEF check_and_advance_seq, Resume
    <3> QED
      BY <2>1, <3>1
      DEF LinkNext, ServerStep, ClientStep, Send, Receive, SendLost, Close,
          Break, SessionTimeout, ChallengeTimeout, RegisterDevice, RestartServer
  <2>3. session_key # NoNonce /\ held[d].seq > last_seq
    BY <2>0, <2>2 DEF check_and_advance_seq, SeqSeen, Resume
  <2> QED
    BY <2>0, <2>3 DEF HighWater
<1> QED
  BY <1>1, InvHolds, HighWaterHolds, PTL DEF LinkSpec, AcceptedOnce

-----------------------------------------------------------------------------
(* Refinement *)

\* Threads, locks, popped challenges and lazily dropped sessions implement
\* the atomic session object, with the mark of a dropped session read as 0.
THEOREM Refinement == LinkSpec => ImplementsSession
<1>1. LinkInit => Session!Init
  BY DEF LinkInit, Session!Init
<1>2. TypeOK /\ SingleUse /\ [LinkNext]_linkVars =>
        [Session!Next]_Session!sessionVars
  <2> SUFFICES ASSUME TypeOK, SingleUse, [LinkNext]_linkVars
               PROVE  Session!Next \/ UNCHANGED Session!sessionVars
    OBVIOUS
  <2>1. ASSUME NEW c \in Conns, InstallSession(c) PROVE Session!Install
    <3>1. held[c].n \in Nonces \ installed /\ held[c].n # NoNonce
      BY <2>1, BoundsAssumption
      DEF InstallSession, SingleUse, TypeOK, Nonces, NoNonce
    <3> QED
      BY <2>1, <3>1 DEF InstallSession, Session!Install
  <2>2. ASSUME NEW c \in Conns, check_and_advance_seq(c), thread'[c] = "store"
        PROVE  Session!Advance
    <3>0. /\ DOMAIN thread = Conns /\ last_seq \in Nat
      BY BoundsAssumption DEF TypeOK
    <3>1. /\ session_key # NoNonce /\ held[c].seq \in 1..MaxSeq
          /\ ~(held[c].seq <= last_seq) /\ last_seq' = held[c].seq
          /\ UNCHANGED <<session_key, installed>>
      BY <2>2, <3>0 DEF check_and_advance_seq, Resume, SeqInRange, SeqSeen
    <3>2. held[c].seq > last_seq
      BY <3>0, <3>1, BoundsAssumption
    <3> QED
      BY <3>1, <3>2 DEF Session!Advance
  <2>3. CASE /\ session_key' \in {session_key, NoNonce}
             /\ session_key' = session_key => last_seq' = last_seq
                                                \/ session_key = NoNonce
             /\ UNCHANGED <<installed, accepted>>
    <3>1. CASE session_key' = session_key
      BY <2>3, <3>1 DEF Session!sessionVars
    <3>2. CASE session_key' # session_key
      BY <2>3, <3>2 DEF Session!End, Session!Next
    <3> QED
      BY <3>1, <3>2
  <2> QED
    BY <2>1, <2>2, <2>3, SessionSteps DEF Session!Next
<1> QED
  BY <1>1, <1>2, InvHolds, PTL DEF LinkSpec, ImplementsSession, Session!Spec

-----------------------------------------------------------------------------
(* Verdicts *)

\* A verdict of ok has a thread behind it that will take it back: only a
\* thread bound to the device stores its samples, and it stays bound until its
\* finally block has run or another hello has rebound it.
OkHasThread ==
  /\ \A c \in Conns : thread[c] \in {"advance", "store"} => device_id[c]
  /\ \A c \in Conns : device_id[c] => registered /\ thread[c] # "none"
  /\ verdict = "ok" => rebound \/ \E c \in Conns : device_id[c]

\* Binding, storing and ending keep a thread behind every verdict of ok.
LEMMA OkHasThreadStep ==
  TypeOK /\ OkHasThread /\ [LinkNext]_linkVars => OkHasThread'
<1> SUFFICES ASSUME TypeOK, OkHasThread, [LinkNext]_linkVars PROVE OkHasThread'
  OBVIOUS
<1>0. /\ DOMAIN thread = Conns /\ device_id \in [Conns -> BOOLEAN]
      /\ registered \in BOOLEAN /\ rebound \in BOOLEAN
  BY DEF TypeOK
<1> USE <1>0 DEF OkHasThread
<1>1. ASSUME NEW c \in Conns, issue_challenge(c) PROVE OkHasThread'
  <2>1. CASE registered /\ Bind(c, TRUE)
    BY <1>1, <2>1 DEF issue_challenge, Arrived, Bind
  <2>2. CASE Bind(c, FALSE)
    BY <1>1, <2>2 DEF issue_challenge, Arrived, Bind
  <2> QED
    BY <1>1, <2>1, <2>2 DEF issue_challenge
<1>2. ASSUME NEW c \in Conns, verify_and_derive(c) PROVE OkHasThread'
  BY <1>2 DEF verify_and_derive, Arrived, Raise, Resume, bound
<1>3. ASSUME NEW c \in Conns, InstallSession(c) PROVE OkHasThread'
  BY <1>3 DEF InstallSession, Resume, bound
<1>4. ASSUME NEW c \in Conns, on_data(c) PROVE OkHasThread'
  BY <1>4 DEF on_data, Arrived, Raise, Resume, bound
<1>5. ASSUME NEW c \in Conns, check_and_advance_seq(c) PROVE OkHasThread'
  BY <1>5 DEF check_and_advance_seq, Resume, bound
<1>6. ASSUME NEW c \in Conns, StoreSamples(c) PROVE OkHasThread'
  BY <1>6 DEF StoreSamples, Raise, Resume, bound
<1>7. ASSUME NEW c \in Conns, EndConnection(c) PROVE OkHasThread'
  <2>1. CASE device_id[c]
    BY <1>7, <2>1 DEF EndConnection, DisconnectVerdict
  <2>2. CASE ~device_id[c]
    BY <1>7, <2>2 DEF EndConnection, DisconnectVerdict
  <2> QED
    BY <2>1, <2>2
<1>8. ASSUME NEW c \in Conns, Connect(c) PROVE OkHasThread'
  BY <1>8 DEF Connect, bound
<1>9. ASSUME NEW c \in Conns, OtherLine(c) PROVE OkHasThread'
  BY <1>9 DEF OtherLine, Arrived, Raise, Resume, bound
<1>10. CASE UNCHANGED <<thread, bound, verdict>> /\ (registered => registered')
  BY <1>10 DEF bound
<1>11. CASE RestartServer
  BY <1>11 DEF RestartServer
<1> QED
  BY <1>1, <1>2, <1>3, <1>4, <1>5, <1>6, <1>7, <1>8, <1>9, <1>10, <1>11
  DEF LinkNext, ServerStep, ClientStep, Send, Receive, SendLost, Close,
      Break, SessionTimeout, ChallengeTimeout, RegisterDevice, linkVars

\* The dashboard shows no device as ok when no thread serves it, for any
\* number of connections and however each of them ends, unless one of them
\* said hello for another device after it had said hello for this one.
THEOREM NoStale == LinkSpec => []NoStaleOk
<1>1. LinkInit => OkHasThread
  BY DEF LinkInit, OkHasThread
<1>2. OkHasThread => NoStaleOk
  BY DEF OkHasThread, NoStaleOk
<1> QED
  BY <1>1, <1>2, OkHasThreadStep, InvHolds, PTL DEF LinkSpec
=============================================================================
