------------------------- MODULE TrustedApp_proofs -------------------------
(***************************************************************************)
(* Proofs of the properties of TrustedApp, for any number of sessions,     *)
(* keys, challenges and servers and any MaxSeq.                            *)
(*                                                                         *)
(* The properties are not inductive as they stand.  Busy says what holds   *)
(* while a command stands between two storage accesses, and Fresh that no  *)
(* two sessions ever share key material and that the counter of a live key *)
(* bounds everything sealed under it; both only need the single-use rules  *)
(* of the code: TEE_GenerateKey returns new keys, phase 2 consumes the     *)
(* keypair, and the counter never moves back under a live key.             *)
(***************************************************************************)
EXTENDS TrustedApp, TLAPS

InPhase2(s) == pc[s] \in {"pinServer", "deriveKey"}

\* The server that session s is agreeing with signed a transcript of its
\* keypair, and if the Host left the buffers alone they still hold it.
Authentic(s) ==
  \E c \in Challenges :
    /\ Verifies(s, c, authServer[s])
    /\ steady[s] => local[s] = [chal |-> c, srv |-> authServer[s]]

BusyIn(s) ==
  /\ pc[s] # "idle" => s \in opened
  /\ InPhase2(s) => ecdh_keypair[s] # None /\ Authentic(s)
  /\ session_key_valid[s] => session_key[s] # None /\ ecdh_keypair[s] = None

Busy == \A s \in Sessions : BusyIn(s)

\* The key material a session holds: its keypair, or its live key's.
Holds(s, k) ==
  \/ ecdh_keypair[s] = k /\ k # None
  \/ session_key_valid[s] /\ session_key[s].dev = k

Fresh ==
  /\ \A s \in Sessions, k \in EphKeys : Holds(s, k) => k \in generated
  /\ \A s, t \in Sessions, k \in EphKeys : Holds(s, k) /\ Holds(t, k) => s = t
  /\ \A m \in sealed : m[1].dev \in generated
  /\ \A m \in sealed, s \in Sessions : ecdh_keypair[s] # m[1].dev
  /\ \A m \in sealed, s \in Sessions :
       session_key_valid[s] /\ session_key[s] = m[1] => m[2] <= send_seq[s]

Inv == TypeOK /\ Busy

-----------------------------------------------------------------------------
\* Zero-filling the session structs of any set of sessions keeps their types.
LEMMA WipeType ==
  ASSUME TypeOK, NEW S, Wipe(S)
  PROVE  /\ ecdh_keypair' \in [Sessions -> EphKeys \cup {None}]
         /\ session_key' \in [Sessions -> SessionKeys \cup {None}]
         /\ session_key_valid' \in [Sessions -> BOOLEAN]
         /\ send_seq' \in [Sessions -> 0..MaxSeq]
         /\ sensor_authenticated' \in [Sessions -> BOOLEAN]
         /\ authServer' \in [Sessions -> Servers \cup {None}]
         /\ steady' \in [Sessions -> BOOLEAN]
<1>1. session_key_valid' \in [Sessions -> BOOLEAN]
  BY Zenon DEF Wipe
<1>2. sensor_authenticated' \in [Sessions -> BOOLEAN]
  BY Zenon DEF Wipe
<1>5. steady' \in [Sessions -> BOOLEAN]
  BY Zenon DEF Wipe
<1>3. send_seq' \in [Sessions -> 0..MaxSeq]
  BY MaxSeqAssumption DEF Wipe, TypeOK
<1>4. /\ ecdh_keypair' \in [Sessions -> EphKeys \cup {None}]
      /\ session_key' \in [Sessions -> SessionKeys \cup {None}]
      /\ authServer' \in [Sessions -> Servers \cup {None}]
  BY DEF Wipe, TypeOK
<1> QED
  BY <1>1, <1>2, <1>3, <1>4, <1>5

\* The inductive step of type correctness, one step per command or storage
\* access of the TA.
LEMMA TypeStep == Inv /\ [Next]_vars => TypeOK'
<1> SUFFICES ASSUME Inv, [Next]_vars PROVE TypeOK'
  OBVIOUS
<1> USE MaxSeqAssumption, NoneAssumption DEF Inv, Steps
<1>1. ASSUME NEW s \in Sessions, OpenSession(s) \/ CloseSession(s) PROVE TypeOK'
  <2> Wipe({s})
    BY <1>1 DEF OpenSession, CloseSession
  <2> QED
    BY <1>1, WipeType
    DEF TypeOK, OpenSession, CloseSession, storage, progress, outputs
<1>2. ASSUME NEW s \in Sessions, NEW id \in DeviceIds,
             ta_generate_ta_identity(s, id) PROVE TypeOK'
  <2>2. CASE identity # None /\ identity.id = id
    BY <1>2, <2>2 DEF TypeOK, ta_generate_ta_identity, storage, session, progress
  <2>3. CASE identity = None
    <3> PICK k \in IdKeys \ generated :
          /\ Goto(s, "sealIdentity", [id |-> id, key |-> k])
          /\ generated' = generated \cup {k}
      BY <1>2, <2>3 DEF ta_generate_ta_identity
    <3> [id |-> id, key |-> k] \in Blobs
      BY DEF Blobs
    <3> QED
      BY <1>2, <2>3 DEF TypeOK, ta_generate_ta_identity, Goto, storage, session
  <2> QED
    BY <1>2, <2>2, <2>3 DEF ta_generate_ta_identity
<1>3. ASSUME NEW s \in Sessions, SealIdentity(s) PROVE TypeOK'
  BY <1>3 DEF TypeOK, SealIdentity, Goto, Return, session
<1>4. ASSUME NEW s \in Sessions, RereadIdentity(s) PROVE TypeOK'
  BY <1>4 DEF TypeOK, RereadIdentity, WinnersBlob, Goto, Return, storage, session
<1>5. ASSUME NEW s \in Sessions, NEW c \in Challenges,
             ta_generate_attestation_evidence(s, c) PROVE TypeOK'
  <2>1. CASE ecdh_keypair' = [ecdh_keypair EXCEPT ![s] = None]
               /\ UNCHANGED <<generated, evidence>>
    BY <1>5, <2>1 DEF TypeOK, ta_generate_attestation_evidence, DropSessionKey,
                      Forget, storage, progress
  <2>2. ASSUME SigningIdentity # None,
               NEW k \in EphKeys \ generated,
               ecdh_keypair' = [ecdh_keypair EXCEPT ![s] = k],
               generated' = generated \cup {k},
               evidence' = evidence \cup
                  {[dev |-> k, chal |-> c, by |-> SigningIdentity]}
        PROVE TypeOK'
    <3> [dev |-> k, chal |-> c, by |-> SigningIdentity]
           \in [dev : EphKeys, chal : Challenges, by : Blobs]
      BY <2>2 DEF TypeOK, SigningIdentity
    <3> QED
      BY <1>5, <2>2 DEF TypeOK, ta_generate_attestation_evidence,
                        DropSessionKey, Forget, storage, progress
  <2> QED
    BY <1>5, <2>1, <2>2 DEF ta_generate_attestation_evidence
<1>6. ASSUME NEW s \in Sessions, NEW c \in Challenges, NEW srv \in Servers,
             ta_handshake_complete(s, c, srv) PROVE TypeOK'
  <2> USE DEF TypeOK, storage, outputs
  <2>1. CASE NoKey(s) /\ UNCHANGED progress
    BY <1>6, <2>1
    DEF ta_handshake_complete, NoKey, ConsumeKeypair, Forget, progress
  <2>2. ASSUME NEW step \in {"pinServer", "deriveKey"},
               Goto(s, step, [chal |-> c, srv |-> srv]),
               authServer' = [authServer EXCEPT ![s] = srv],
               steady' = [steady EXCEPT ![s] = TRUE],
               UNCHANGED <<ecdh_keypair, session_key, session_key_valid, send_seq>>
        PROVE  TypeOK'
    <3> [chal |-> c, srv |-> srv] \in Offers
      BY DEF Offers
    <3> QED
      BY <1>6, <2>2 DEF ta_handshake_complete, Goto
  <2> QED
    BY <1>6, <2>1, <2>2 DEF ta_handshake_complete
<1>7. ASSUME NEW s \in Sessions, PinServer(s) PROVE TypeOK'
  <2> USE DEF TypeOK, outputs, Goto, Return
  <2>1. local[s] \in Offers /\ local[s].srv \in Servers
    BY <1>7 DEF PinServer, Offers
  <2>2. CASE UNCHANGED session /\ Goto(s, "deriveKey", local[s])
    BY <1>7, <2>1, <2>2 DEF PinServer, session
  <2>3. CASE NoKey(s) /\ Return(s)
    BY <1>7, <2>1, <2>3 DEF PinServer, NoKey, ConsumeKeypair, Forget
  <2> QED
    BY <1>7, <2>2, <2>3 DEF PinServer
<1>14. ASSUME NEW s \in Sessions, FinishHandshake(s) PROVE TypeOK'
  <2> USE DEF TypeOK, storage, outputs
  <2>1. [dev |-> ecdh_keypair[s], chal |-> local[s].chal] \in SessionKeys
    BY <1>14 DEF FinishHandshake, Busy, BusyIn, InPhase2, SessionKeys, Offers
  <2>2. CASE DeriveKey(s, local[s].chal)
    BY <1>14, <2>1, <2>2
    DEF FinishHandshake, DeriveKey, ConsumeKeypair, Goto, Return
  <2>3. CASE NoKey(s)
    BY <1>14, <2>3
    DEF FinishHandshake, NoKey, ConsumeKeypair, Forget, Goto, Return
  <2> QED
    BY <1>14, <2>2, <2>3 DEF FinishHandshake
<1>15. ASSUME NEW s \in Sessions, NEW offer \in Offers, HostRewrites(s, offer)
       PROVE  TypeOK'
  BY <1>15 DEF TypeOK, HostRewrites, storage, outputs
<1>8. ASSUME NEW s \in Sessions,
             ta_provision_sensor_secret(s) \/ FetchSecret(s) \/ SealSecret(s)
      PROVE TypeOK'
  BY <1>8 DEF TypeOK, ta_provision_sensor_secret, FetchSecret, SealSecret,
              Goto, Return, storage, session, outputs
<1>9. ASSUME NEW s \in Sessions, ta_authenticate_sensor(s) PROVE TypeOK'
  BY <1>9 DEF TypeOK, ta_authenticate_sensor, storage, progress, outputs
<1>10. ASSUME NEW s \in Sessions, ta_read_and_protect(s) PROVE TypeOK'
  BY <1>10 DEF TypeOK, Busy, BusyIn, ta_read_and_protect, NextSeq, SeqExhausted,
               storage, progress
<1>11. ASSUME NEW srv \in Servers, NEW e \in evidence, ServerSigns(srv, e)
       PROVE TypeOK'
  BY <1>11 DEF TypeOK, ServerSigns, storage, session, progress
<1>12. ASSUME PowerOff \/ WipeStorage PROVE TypeOK'
  <2>1. CASE PowerOff
    BY <2>1, WipeType DEF TypeOK, PowerOff, storage, outputs
  <2>2. CASE WipeStorage
    BY <2>2 DEF TypeOK, WipeStorage, session, progress
  <2> QED
    BY <1>12, <2>1, <2>2
<1>13. CASE UNCHANGED vars
  BY <1>13 DEF TypeOK, vars, storage, session, progress, outputs
<1> QED
  BY <1>1, <1>2, <1>3, <1>4, <1>5, <1>6, <1>7, <1>8, <1>9, <1>10, <1>11,
     <1>12, <1>13, <1>14, <1>15 DEF Next

\* A command between two storage accesses keeps its session open and, in
\* phase 2, its keypair and the verified signature it is about to act on.
LEMMA BusyStep == Inv /\ [Next]_vars => Busy'
<1> SUFFICES ASSUME Inv, [Next]_vars, NEW t \in Sessions PROVE BusyIn(t)'
  BY DEF Busy
<1>0. /\ BusyIn(t)
      /\ pc \in [Sessions -> Steps]
      /\ DOMAIN local = Sessions /\ DOMAIN ecdh_keypair = Sessions
      /\ DOMAIN session_key = Sessions /\ DOMAIN authServer = Sessions
      /\ session_key_valid \in [Sessions -> BOOLEAN]
      /\ steady \in [Sessions -> BOOLEAN]
  BY DEF Inv, TypeOK, Busy
<1> USE <1>0, NoneAssumption DEF BusyIn, InPhase2, Authentic, Verifies, Goto, Return
<1>1. ASSUME NEW s \in Sessions, OpenSession(s) \/ CloseSession(s) PROVE BusyIn(t)'
  BY <1>1, ZenonT(40) DEF OpenSession, CloseSession, Idle, Wipe, progress, outputs
<1>2. ASSUME NEW s \in Sessions, NEW id \in DeviceIds,
             ta_generate_ta_identity(s, id) PROVE BusyIn(t)'
  BY <1>2 DEF ta_generate_ta_identity, Idle, session, progress
<1>3. ASSUME NEW s \in Sessions, SealIdentity(s) \/ RereadIdentity(s) PROVE BusyIn(t)'
  BY <1>3 DEF SealIdentity, RereadIdentity, session
<1>4. ASSUME NEW s \in Sessions, NEW c \in Challenges,
             ta_generate_attestation_evidence(s, c) PROVE BusyIn(t)'
  BY <1>4 DEF ta_generate_attestation_evidence, Idle, DropSessionKey, Forget,
              progress
<1>5. ASSUME NEW s \in Sessions, NEW c \in Challenges, NEW srv \in Servers,
             ta_handshake_complete(s, c, srv) PROVE BusyIn(t)'
  <2>1. CASE NoKey(s) /\ UNCHANGED progress
    BY <1>5, <2>1 DEF ta_handshake_complete, Idle, NoKey, ConsumeKeypair,
                      Forget, progress, outputs
  <2>2. CASE /\ Verifies(s, c, srv)
             /\ Goto(s, IF serverPubkey = None THEN "pinServer" ELSE "deriveKey",
                     [chal |-> c, srv |-> srv])
             /\ authServer' = [authServer EXCEPT ![s] = srv]
             /\ steady' = [steady EXCEPT ![s] = TRUE]
             /\ UNCHANGED <<ecdh_keypair, session_key, session_key_valid, send_seq>>
    BY <1>5, <2>2 DEF ta_handshake_complete, Idle, outputs
  <2> QED
    BY <1>5, <2>1, <2>2 DEF ta_handshake_complete
<1>6. ASSUME NEW s \in Sessions, PinServer(s) PROVE BusyIn(t)'
  <2>1. CASE UNCHANGED session /\ Goto(s, "deriveKey", local[s])
    BY <1>6, <2>1 DEF PinServer, session, outputs
  <2>2. CASE NoKey(s) /\ Return(s)
    BY <1>6, <2>2 DEF PinServer, NoKey, ConsumeKeypair, Forget, outputs
  <2> QED
    BY <1>6, <2>1, <2>2 DEF PinServer
<1>12. ASSUME NEW s \in Sessions, FinishHandshake(s) PROVE BusyIn(t)'
  <2>1. [dev |-> ecdh_keypair[s], chal |-> local[s].chal] \in SessionKeys
    BY <1>12 DEF FinishHandshake, SessionKeys, Offers, Inv, TypeOK, Busy
  <2>2. CASE DeriveKey(s, local[s].chal)
    BY <1>12, <2>1, <2>2 DEF FinishHandshake, DeriveKey, ConsumeKeypair, outputs
  <2>3. CASE NoKey(s)
    BY <1>12, <2>3 DEF FinishHandshake, NoKey, ConsumeKeypair, Forget, outputs
  <2> QED
    BY <1>12, <2>2, <2>3 DEF FinishHandshake
<1>13. ASSUME NEW s \in Sessions, NEW offer \in Offers, HostRewrites(s, offer)
       PROVE  BusyIn(t)'
  BY <1>13 DEF HostRewrites, outputs
<1>7. ASSUME NEW s \in Sessions,
             ta_provision_sensor_secret(s) \/ FetchSecret(s) \/ SealSecret(s)
      PROVE BusyIn(t)'
  BY <1>7 DEF ta_provision_sensor_secret, FetchSecret, SealSecret, Idle,
              session, outputs
<1>8. ASSUME NEW s \in Sessions, ta_authenticate_sensor(s) \/ ta_read_and_protect(s)
      PROVE BusyIn(t)'
  BY <1>8 DEF ta_authenticate_sensor, ta_read_and_protect, progress, outputs
<1>9. ASSUME NEW srv \in Servers, NEW e \in evidence, ServerSigns(srv, e)
      PROVE BusyIn(t)'
  BY <1>9 DEF ServerSigns, session, progress
<1>10. ASSUME PowerOff \/ WipeStorage PROVE BusyIn(t)'
  BY <1>10 DEF PowerOff, WipeStorage, Wipe, session, progress
<1>11. CASE UNCHANGED vars
  BY <1>11 DEF vars, session, progress, outputs
<1> QED
  BY <1>1, <1>2, <1>3, <1>4, <1>5, <1>6, <1>7, <1>8, <1>9, <1>10, <1>11,
     <1>12, <1>13 DEF Next

\* The inductive invariant holds in every reachable state.
LEMMA InvHolds == Spec => []Inv
<1>1. Init => Inv
  BY MaxSeqAssumption DEF Init, Inv, TypeOK, Busy, BusyIn, InPhase2, Steps
<1>2. Inv /\ [Next]_vars => Inv'
  BY TypeStep, BusyStep DEF Inv
<1> QED
  BY <1>1, <1>2, PTL DEF Spec

\* Every variable keeps its type; in particular the send counter never passes
\* MaxSeq, whatever the commands of concurrent sessions do.
THEOREM TypeCorrect == Spec => []TypeOK
<1>1. Inv => TypeOK
  BY DEF Inv
<1> QED
  BY <1>1, InvHolds, PTL

-----------------------------------------------------------------------------
\* No identity but the sealed one was ever handed out, although minting and
\* sealing are two steps and two sessions may be between them at once.
THEOREM ExportedIdentity == Spec => []ExportedIdentityIsSealed
<1>1. Init => ExportedIdentityIsSealed
  BY DEF Init, ExportedIdentityIsSealed
<1>2. Inv /\ ExportedIdentityIsSealed /\ [Next]_vars => ExportedIdentityIsSealed'
  <2> SUFFICES ASSUME Inv, ExportedIdentityIsSealed, [Next]_vars
               PROVE  ExportedIdentityIsSealed'
    OBVIOUS
  <2> USE NoneAssumption DEF ExportedIdentityIsSealed
  <2>1. ASSUME NEW s \in Sessions, NEW id \in DeviceIds,
               ta_generate_ta_identity(s, id)
        PROVE  ExportedIdentityIsSealed'
    BY <2>1 DEF ta_generate_ta_identity, storage
  <2>2. ASSUME NEW s \in Sessions, SealIdentity(s)
        PROVE  ExportedIdentityIsSealed'
    <3> identity = None => exported = {} /\ evidence = {}
      BY DEF Inv, TypeOK
    <3> QED
      BY <2>2 DEF SealIdentity, MayCreate
  <2>3. ASSUME NEW s \in Sessions, RereadIdentity(s)
        PROVE  ExportedIdentityIsSealed'
    BY <2>3 DEF RereadIdentity, WinnersBlob, storage
  <2>4. ASSUME NEW s \in Sessions, NEW c \in Challenges,
               ta_generate_attestation_evidence(s, c)
        PROVE  ExportedIdentityIsSealed'
    BY <2>4 DEF ta_generate_attestation_evidence, SigningIdentity, storage
  <2>5. CASE WipeStorage
    BY <2>5 DEF WipeStorage
  <2>6. CASE UNCHANGED <<identity, exported, evidence>>
    BY <2>6
  <2> QED
    BY <2>1, <2>2, <2>3, <2>4, <2>5, <2>6
    DEF Next, OpenSession, CloseSession, ta_handshake_complete, PinServer,
        FinishHandshake, HostRewrites,
        ta_provision_sensor_secret, FetchSecret, SealSecret,
        ta_authenticate_sensor, ta_read_and_protect, ServerSigns, PowerOff,
        vars, storage, outputs
<1> QED
  BY <1>1, <1>2, InvHolds, PTL DEF Spec

-----------------------------------------------------------------------------
(* Which steps touch the key material of a session.                        *)

\* Some sessions lose their keypair or their live key, and no session gains
\* or changes one.
Sheds ==
  /\ sealed' = sealed
  /\ signed \subseteq signed'
  /\ generated \subseteq generated'
  /\ \A t \in Sessions :
       /\ ecdh_keypair'[t] \in {ecdh_keypair[t], None}
       /\ session_key_valid'[t] =>
            /\ session_key_valid[t]
            /\ session_key'[t] = session_key[t]
            /\ send_seq'[t] = send_seq[t]
            /\ authServer'[t] = authServer[t]
            /\ steady'[t] = steady[t]

\* Phase 2 succeeds in session s: the keypair becomes a live key.
Derives(s, c) ==
  /\ ecdh_keypair[s] # None
  /\ \E d \in Challenges : Verifies(s, d, authServer[s]) /\ (steady[s] => d = c)
  /\ DeriveKey(s, c)
  /\ UNCHANGED <<sealed, signed, generated>>

\* Every step sheds key material, mints a keypair, turns one into a key or
\* seals a reading.
LEMMA StepKinds ==
  ASSUME Inv, [Next]_vars
  PROVE  \/ Sheds
         \/ \E s \in Sessions, c \in Challenges :
              ta_generate_attestation_evidence(s, c)
         \/ \E s \in Sessions, c \in Challenges : Derives(s, c)
         \/ \E s \in Sessions : ta_read_and_protect(s)
<1>0. /\ DOMAIN ecdh_keypair = Sessions /\ DOMAIN session_key_valid = Sessions
      /\ DOMAIN session_key = Sessions /\ DOMAIN send_seq = Sessions
      /\ DOMAIN authServer = Sessions /\ DOMAIN steady = Sessions
      /\ \A s \in Sessions : session_key_valid[s] => ecdh_keypair[s] = None
      /\ \A s \in Sessions : InPhase2(s) => ~session_key_valid[s]
  BY DEF Inv, TypeOK, Busy, BusyIn
<1>1. ASSUME NEW S, Wipe(S), UNCHANGED <<sealed, signed, generated>> PROVE Sheds
  BY <1>1, NoneAssumption DEF Sheds, Wipe, Inv, TypeOK
<1>2. ASSUME NEW s \in Sessions, OpenSession(s) \/ CloseSession(s) PROVE Sheds
  BY <1>1, <1>2 DEF OpenSession, CloseSession, outputs
<1>3. ASSUME UNCHANGED <<session, signed, sealed>>, generated \subseteq generated'
      PROVE  Sheds
  BY <1>3 DEF Sheds, session
<1>4. ASSUME NEW s \in Sessions, NEW c \in Challenges, NEW srv \in Servers,
             ta_handshake_complete(s, c, srv)
      PROVE  Sheds
  BY <1>0, <1>4
  DEF ta_handshake_complete, NoKey, ConsumeKeypair, Forget, Sheds, outputs
<1>14. ASSUME NEW s \in Sessions, NoKey(s), UNCHANGED <<sealed, signed, generated>>,
              ecdh_keypair[s] # None
       PROVE  Sheds
  <2> SUFFICES ASSUME NEW t \in Sessions
               PROVE  /\ ecdh_keypair'[t] \in {ecdh_keypair[t], None}
                      /\ session_key_valid'[t] =>
                           /\ session_key_valid[t]
                           /\ session_key'[t] = session_key[t]
                           /\ send_seq'[t] = send_seq[t]
                           /\ authServer'[t] = authServer[t]
                           /\ steady'[t] = steady[t]
    BY <1>14 DEF Sheds
  <2> QED
    BY <1>0, <1>14 DEF NoKey, ConsumeKeypair, Forget
<1>5. ASSUME NEW s \in Sessions, PinServer(s) PROVE Sheds
  <2>1. CASE UNCHANGED session
    BY <1>3, <1>5, <2>1 DEF PinServer, outputs
  <2>2. CASE NoKey(s)
    BY <1>5, <1>14, <2>2 DEF PinServer, outputs, Inv, Busy, BusyIn, InPhase2
  <2> QED
    BY <1>5, <2>1, <2>2 DEF PinServer
<1>12. ASSUME NEW s \in Sessions, FinishHandshake(s)
       PROVE  Sheds \/ \E c \in Challenges : Derives(s, c)
  <2>1. local[s].chal \in Challenges
    BY <1>12 DEF FinishHandshake, Inv, TypeOK, Offers
  <2>2. ecdh_keypair[s] # None /\ Authentic(s)
    BY <1>12 DEF FinishHandshake, Inv, Busy, BusyIn, InPhase2
  <2>3. CASE DeriveKey(s, local[s].chal)
    BY <1>12, <2>1, <2>2, <2>3 DEF FinishHandshake, Derives, Authentic, outputs
  <2>4. CASE NoKey(s)
    BY <1>12, <1>14, <2>2, <2>4 DEF FinishHandshake, outputs
  <2> QED
    BY <1>12, <2>3, <2>4 DEF FinishHandshake
<1>13. ASSUME NEW s \in Sessions, NEW offer \in Offers, HostRewrites(s, offer)
       PROVE  Sheds
  BY <1>0, <1>13 DEF HostRewrites, Sheds, InPhase2, outputs
<1>6. ASSUME NEW s \in Sessions, ta_authenticate_sensor(s) PROVE Sheds
  BY <1>6 DEF ta_authenticate_sensor, Sheds, outputs
<1>7. ASSUME NEW s \in Sessions, NEW id \in DeviceIds,
             ta_generate_ta_identity(s, id)
      PROVE  Sheds
  BY <1>3, <1>7 DEF ta_generate_ta_identity
<1>8. ASSUME NEW s \in Sessions,
             \/ SealIdentity(s) \/ RereadIdentity(s)
             \/ ta_provision_sensor_secret(s) \/ FetchSecret(s) \/ SealSecret(s)
      PROVE  Sheds
  BY <1>3, <1>8 DEF SealIdentity, RereadIdentity, ta_provision_sensor_secret,
                    FetchSecret, SealSecret, outputs
<1>9. ASSUME NEW srv \in Servers, NEW e \in evidence, ServerSigns(srv, e)
      PROVE  Sheds
  BY <1>9 DEF ServerSigns, Sheds, session
<1>10. CASE PowerOff
  BY <1>1, <1>10 DEF PowerOff, outputs
<1>11. CASE WipeStorage \/ UNCHANGED vars
  BY <1>3, <1>11 DEF WipeStorage, vars, outputs
<1> QED
  BY <1>2, <1>4, <1>5, <1>6, <1>7, <1>8, <1>9, <1>10, <1>11, <1>12, <1>13
  DEF Next

-----------------------------------------------------------------------------
\* Holding a keypair and a live key excludes each other, through every
\* failure of either phase of the handshake.
THEOREM KeypairSupersedes == Spec => []KeypairSupersedesKey
<1>1. Inv => KeypairSupersedesKey
  BY DEF Inv, Busy, BusyIn, KeypairSupersedesKey
<1> QED
  BY <1>1, InvHolds, PTL

\* A live key always goes back to a transcript its server signed: the
\* signature is checked on first use too, the digest covers the TA's own
\* copy of the device's point, and what was checked before the pin was
\* written still holds when the key is derived.
THEOREM AgreedWithSigner == Spec => []KeyAgreedWithSigner
<1> DEFINE Agreed(t) ==
      session_key_valid[t] =>
        \E c \in Challenges :
          /\ [srv |-> authServer[t], chal |-> c, dev |-> session_key[t].dev]
               \in signed
          /\ steady[t] => c = session_key[t].chal
<1>1. Init => KeyAgreedWithSigner
  BY DEF Init, KeyAgreedWithSigner
<1>2. Inv /\ KeyAgreedWithSigner /\ [Next]_vars => KeyAgreedWithSigner'
  <2> SUFFICES ASSUME Inv, KeyAgreedWithSigner, [Next]_vars, NEW t \in Sessions
               PROVE  Agreed(t)'
    BY DEF KeyAgreedWithSigner
  <2>0. /\ DOMAIN session_key = Sessions /\ DOMAIN authServer = Sessions
        /\ DOMAIN steady = Sessions
        /\ session_key_valid \in [Sessions -> BOOLEAN]
        /\ Agreed(t)
    BY DEF Inv, TypeOK, KeyAgreedWithSigner
  <2>1. CASE Sheds
    BY <2>0, <2>1 DEF Sheds
  <2>2. ASSUME NEW s \in Sessions, NEW c \in Challenges,
               ta_generate_attestation_evidence(s, c)
        PROVE  Agreed(t)'
    BY <2>0, <2>2 DEF ta_generate_attestation_evidence, DropSessionKey, Forget
  <2>3. ASSUME NEW s \in Sessions, NEW c \in Challenges, Derives(s, c)
        PROVE  Agreed(t)'
    BY <2>0, <2>3 DEF Derives, DeriveKey, Verifies
  <2>4. ASSUME NEW s \in Sessions, ta_read_and_protect(s)
        PROVE  Agreed(t)'
    BY <2>0, <2>4 DEF ta_read_and_protect
  <2> QED
    BY <2>1, <2>2, <2>3, <2>4, StepKinds
<1> QED
  BY <1>1, <1>2, InvHolds, PTL DEF Spec

\* No step but the wipe of the storage disk changes a sealed object.
THEOREM SealedObjectsAreImmutable == Spec => FirstWriteWins
<1> DEFINE Kept == /\ identity # None => identity' = identity
                   /\ serverPubkey # None => serverPubkey' = serverPubkey
                   /\ psk # None => psk' = psk
<1>1. [Next]_vars => [Kept \/ WipeStorage]_vars
  <2> SUFFICES ASSUME Next PROVE Kept \/ WipeStorage
    OBVIOUS
  <2>1. ASSUME NEW s \in Sessions,
               SealIdentity(s) \/ PinServer(s) \/ SealSecret(s)
        PROVE  Kept
    BY <2>1 DEF SealIdentity, PinServer, SealSecret, MayCreate
  <2>2. CASE UNCHANGED storage
    BY <2>2 DEF storage
  <2> QED
    BY <2>1, <2>2
    DEF Next, OpenSession, CloseSession, ta_generate_ta_identity,
        RereadIdentity, ta_generate_attestation_evidence,
        ta_handshake_complete, FinishHandshake, HostRewrites,
        ta_provision_sensor_secret, FetchSecret,
        ta_authenticate_sensor, ta_read_and_protect, ServerSigns, PowerOff
<1> QED
  BY <1>1, PTL DEF Spec, FirstWriteWins

-----------------------------------------------------------------------------
\* Fresh is preserved: the step case behind NoSequenceReuse.
LEMMA FreshStep ==
  Inv /\ KeypairSupersedesKey /\ Fresh /\ [Next]_vars => Fresh'
<1> SUFFICES ASSUME Inv, KeypairSupersedesKey, Fresh, [Next]_vars PROVE Fresh'
  OBVIOUS
<1>0. /\ ecdh_keypair \in [Sessions -> EphKeys \cup {None}]
      /\ session_key \in [Sessions -> SessionKeys \cup {None}]
      /\ session_key_valid \in [Sessions -> BOOLEAN]
      /\ send_seq \in [Sessions -> Nat]
      /\ sealed \subseteq SessionKeys \X Nat
      /\ None \notin EphKeys
      /\ \A k \in SessionKeys : k.dev \in EphKeys
  BY NoneAssumption, MaxSeqAssumption DEF Inv, TypeOK, SessionKeys
<1>1. CASE Sheds
  <2>1. ASSUME NEW s \in Sessions, NEW k \in EphKeys, Holds(s, k)'
        PROVE  Holds(s, k)
    BY <1>0, <1>1, <2>1 DEF Sheds, Holds
  <2>2. /\ \A s \in Sessions, k \in EphKeys : Holds(s, k)' => k \in generated'
        /\ \A s, t \in Sessions, k \in EphKeys :
             Holds(s, k)' /\ Holds(t, k)' => s = t
    BY <1>1, <2>1 DEF Sheds, Fresh
  <2>3. /\ \A m \in sealed' : m[1].dev \in generated'
        /\ \A m \in sealed', s \in Sessions : ecdh_keypair'[s] # m[1].dev
        /\ \A m \in sealed', s \in Sessions :
             session_key_valid'[s] /\ session_key'[s] = m[1] =>
               m[2] <= send_seq'[s]
    BY <1>0, <1>1 DEF Sheds, Fresh
  <2> QED
    BY <2>2, <2>3 DEF Fresh
<1>2. ASSUME NEW s \in Sessions, NEW c \in Challenges,
             ta_generate_attestation_evidence(s, c)
      PROVE  Fresh'
  <2>2. ASSUME NEW n \in EphKeys \ generated,
               ecdh_keypair' = [ecdh_keypair EXCEPT ![s] = n],
               generated' = generated \cup {n}
        PROVE  Fresh'
    <3>0. /\ session_key' = session_key /\ send_seq' = send_seq
          /\ sealed' = sealed
          /\ session_key_valid' = [session_key_valid EXCEPT ![s] = FALSE]
      BY <1>2 DEF ta_generate_attestation_evidence, DropSessionKey
    <3>1. ASSUME NEW t \in Sessions, NEW k \in EphKeys, Holds(t, k)'
          PROVE  (t = s /\ k = n) \/ (Holds(t, k) /\ k # n)
      <4>1. CASE t = s
        BY <1>0, <2>2, <3>0, <3>1, <4>1 DEF Holds
      <4>2. CASE t # s
        <5> Holds(t, k)
          BY <1>0, <2>2, <3>0, <3>1, <4>2 DEF Holds
        <5> QED
          BY <2>2 DEF Fresh
      <4> QED
        BY <4>1, <4>2
    <3>2. /\ \A t \in Sessions, k \in EphKeys : Holds(t, k)' => k \in generated'
          /\ \A t, u \in Sessions, k \in EphKeys :
               Holds(t, k)' /\ Holds(u, k)' => t = u
      BY <2>2, <3>1 DEF Fresh
    <3>3. /\ \A m \in sealed' : m[1].dev \in generated'
          /\ \A m \in sealed', t \in Sessions : ecdh_keypair'[t] # m[1].dev
          /\ \A m \in sealed', t \in Sessions :
               session_key_valid'[t] /\ session_key'[t] = m[1] =>
                 m[2] <= send_seq'[t]
      BY <1>0, <2>2, <3>0 DEF Fresh
    <3> QED
      BY <3>2, <3>3 DEF Fresh
  <2>3. CASE /\ ecdh_keypair' = [ecdh_keypair EXCEPT ![s] = None]
             /\ UNCHANGED <<generated, evidence>>
    <3> Sheds
      BY <1>0, <1>2, <2>3
      DEF Sheds, ta_generate_attestation_evidence, DropSessionKey, Forget, Inv,
          TypeOK
    <3> QED
      BY <1>1
  <2> QED
    BY <1>2, <2>2, <2>3 DEF ta_generate_attestation_evidence
<1>3. ASSUME NEW s \in Sessions, NEW c \in Challenges, Derives(s, c)
      PROVE  Fresh'
  <2>0. /\ ecdh_keypair[s] \in EphKeys
        /\ ecdh_keypair' = [ecdh_keypair EXCEPT ![s] = None]
        /\ session_key' =
             [session_key EXCEPT ![s] = [dev |-> ecdh_keypair[s], chal |-> c]]
        /\ session_key_valid' = [session_key_valid EXCEPT ![s] = TRUE]
        /\ send_seq' = [send_seq EXCEPT ![s] = 0]
        /\ sealed' = sealed /\ generated' = generated
    BY <1>0, <1>3 DEF Derives, DeriveKey, ConsumeKeypair
  <2>1. ASSUME NEW t \in Sessions, NEW k \in EphKeys, Holds(t, k)'
        PROVE  Holds(t, k)
    BY <1>0, <2>0, <2>1 DEF Holds
  <2>2. /\ \A t \in Sessions, k \in EphKeys : Holds(t, k)' => k \in generated'
        /\ \A t, u \in Sessions, k \in EphKeys :
             Holds(t, k)' /\ Holds(u, k)' => t = u
    BY <2>0, <2>1 DEF Fresh
  <2>3. /\ \A m \in sealed' : m[1].dev \in generated'
        /\ \A m \in sealed', t \in Sessions : ecdh_keypair'[t] # m[1].dev
    BY <1>0, <2>0 DEF Fresh
  <2>4. ASSUME NEW m \in sealed', NEW t \in Sessions,
               session_key_valid'[t], session_key'[t] = m[1]
        PROVE  m[2] <= send_seq'[t]
    <3>1. t # s
      BY <1>0, <2>0, <2>4 DEF Fresh
    <3> QED
      BY <1>0, <2>0, <2>4, <3>1 DEF Fresh
  <2> QED
    BY <2>2, <2>3, <2>4 DEF Fresh
<1>4. ASSUME NEW s \in Sessions, ta_read_and_protect(s)
      PROVE  Fresh'
  <2> DEFINE new == <<session_key[s], send_seq[s] + 1>>
  <2>0. /\ session_key[s] \in SessionKeys /\ session_key_valid[s]
        /\ send_seq' = [send_seq EXCEPT ![s] = @ + 1]
        /\ sealed' = sealed \cup {new}
        /\ UNCHANGED <<ecdh_keypair, session_key, session_key_valid, generated>>
    BY <1>0, <1>4 DEF ta_read_and_protect, NextSeq, Inv, Busy, BusyIn
  <2>1. Holds(s, session_key[s].dev) /\ session_key[s].dev \in EphKeys
    BY <1>0, <2>0 DEF Holds
  <2>2. /\ \A t \in Sessions, k \in EphKeys : Holds(t, k)' => k \in generated'
        /\ \A t, u \in Sessions, k \in EphKeys :
             Holds(t, k)' /\ Holds(u, k)' => t = u
    BY <2>0 DEF Fresh, Holds
  <2>3. \A m \in sealed' : m[1].dev \in generated'
    BY <2>0, <2>1 DEF Fresh
  <2>4. ASSUME NEW t \in Sessions PROVE ecdh_keypair[t] # session_key[s].dev
    BY <1>0, <2>0, <2>1 DEF Fresh, Holds, KeypairSupersedesKey
  <2>5. \A m \in sealed', t \in Sessions : ecdh_keypair'[t] # m[1].dev
    BY <2>0, <2>4 DEF Fresh
  <2>6. ASSUME NEW t \in Sessions, session_key_valid[t],
               session_key[t] = session_key[s]
        PROVE  t = s
    BY <2>1, <2>6 DEF Fresh, Holds
  <2>7. ASSUME NEW m \in sealed', NEW t \in Sessions,
               session_key_valid'[t], session_key'[t] = m[1]
        PROVE  m[2] <= send_seq'[t]
    <3>1. CASE m \in sealed
      BY <1>0, <2>0, <2>7, <3>1 DEF Fresh
    <3>2. CASE m = new
      BY <1>0, <2>0, <2>6, <2>7, <3>2
    <3> QED
      BY <2>0, <3>1, <3>2
  <2> QED
    BY <2>2, <2>3, <2>5, <2>7 DEF Fresh
<1> QED
  BY <1>1, <1>2, <1>3, <1>4, StepKinds

\* For every number of sessions, handshakes and readings: no (key, seq) pair
\* is sealed under twice.
THEOREM NoReuse == Spec => NoSequenceReuse
<1>1. Init => Fresh
  BY DEF Init, Fresh, Holds
<1>2. Spec => []Fresh
  BY <1>1, FreshStep, InvHolds, KeypairSupersedes, PTL DEF Spec
<1>3. Inv /\ Fresh /\ [Next]_vars =>
        [\A s \in Sessions : ta_read_and_protect(s) =>
           <<session_key[s], NextSeq(s)>> \notin sealed]_vars
  <2> SUFFICES ASSUME Inv, Fresh, NEW s \in Sessions, ta_read_and_protect(s)
               PROVE  <<session_key[s], NextSeq(s)>> \notin sealed
    OBVIOUS
  <2>1. send_seq[s] \in Nat
    BY MaxSeqAssumption DEF Inv, TypeOK
  <2> QED
    BY <2>1 DEF Fresh, ta_read_and_protect, NextSeq
<1> QED
  BY <1>2, <1>3, InvHolds, PTL DEF Spec, NoSequenceReuse

\* A pinned server key was verified before it was stored, however many first
\* uses raced for it.
THEOREM PinIsSigned == Spec => []PinnedKeySigned
<1>1. Init => PinnedKeySigned
  BY DEF Init, PinnedKeySigned
<1>2. Inv /\ Fresh /\ PinnedKeySigned /\ [Next]_vars => PinnedKeySigned'
  <2> SUFFICES ASSUME Inv, Fresh, PinnedKeySigned, [Next]_vars
               PROVE  PinnedKeySigned'
    OBVIOUS
  <2>1. signed \subseteq signed' /\ generated \subseteq generated'
    BY StepKinds
    DEF Sheds, Derives, ta_generate_attestation_evidence, ta_read_and_protect
  <2>2. CASE UNCHANGED <<serverPubkey, pinSteady>>
    BY <2>1, <2>2 DEF PinnedKeySigned
  <2>3. ASSUME NEW s \in Sessions, PinServer(s),
               serverPubkey' = local[s].srv, pinSteady' = steady[s]
        PROVE  PinnedKeySigned'
    <3>1. /\ ecdh_keypair[s] \in EphKeys /\ ecdh_keypair[s] # None
          /\ Authentic(s)
      BY <2>3 DEF PinServer, Inv, TypeOK, Busy, BusyIn, InPhase2
    <3>2. ecdh_keypair[s] \in generated
      BY <3>1 DEF Fresh, Holds
    <3>3. PICK c \in Challenges :
            /\ Verifies(s, c, authServer[s])
            /\ steady[s] => local[s] = [chal |-> c, srv |-> authServer[s]]
      BY <3>1 DEF Authentic
    <3> QED
      BY <2>1, <2>3, <3>2, <3>3 DEF PinnedKeySigned, Verifies
  <2>4. CASE WipeStorage
    BY <2>4 DEF WipeStorage, PinnedKeySigned
  <2> QED
    BY <2>2, <2>3, <2>4
    DEF Next, OpenSession, CloseSession, ta_generate_ta_identity, SealIdentity,
        RereadIdentity, ta_generate_attestation_evidence, ta_handshake_complete,
        PinServer, FinishHandshake, HostRewrites, ta_provision_sensor_secret,
        FetchSecret, SealSecret, ta_authenticate_sensor, ta_read_and_protect,
        ServerSigns, PowerOff, vars, storage
<1>3. Init => Fresh
  BY DEF Init, Fresh, Holds
<1>4. Spec => []Fresh
  BY <1>3, FreshStep, InvHolds, KeypairSupersedes, PTL DEF Spec
<1> QED
  BY <1>1, <1>2, <1>4, InvHolds, PTL DEF Spec
=============================================================================
