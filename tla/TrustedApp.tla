---------------------------- MODULE TrustedApp ----------------------------
(***************************************************************************)
(* The edge device's trusted application (edge_device/ta/trusted_app.c).   *)
(*                                                                         *)
(* The TA is multi-instance (TA_FLAGS is 0), so every client process gets  *)
(* an instance of its own and the instances run concurrently; what they    *)
(* share is the TA's secure storage and the sensor link.  A command is one *)
(* action as long as it touches storage once, and one action per storage   *)
(* access otherwise: pc and local hold a command that is between two       *)
(* accesses.  A command that returns an error before it changed anything   *)
(* is a stuttering step and has no action.                                 *)
(*                                                                         *)
(* Cryptography is symbolic.  A key is a name that TEE_GenerateKey never   *)
(* produces twice; a signature is the record of who signed what; a session *)
(* key is the pair (device keypair, challenge) that HKDF derives it from,  *)
(* a challenge standing for (nonce, server_ecdh_pub).                      *)
(*                                                                         *)
(* What phase 2 of the handshake is given lies in memory it shares with    *)
(* the Host, and it reads that memory again and again: to verify, to pin   *)
(* and to derive.  local holds the shared buffers while it runs, and the   *)
(* Host may rewrite them between two reads (HostRewrites).                 *)
(***************************************************************************)
EXTENDS Naturals

CONSTANTS
  Sessions,    \* slots for client sessions
  DeviceIds,   \* device ids the Host may ask to be sealed
  IdKeys,      \* identity keypairs TEE_GenerateKey may return
  EphKeys,     \* ephemeral ECDH keypairs TEE_GenerateKey may return
  Challenges,  \* (nonce, server_ecdh_pub) pairs, in any combination
  Servers,     \* server identity keys
  Secrets,     \* sensor pre-shared secrets
  MaxSeq,      \* stands for 0xffffffff
  None         \* TEE_HANDLE_NULL, or an object that is not in storage

Blobs == [id : DeviceIds, key : IdKeys]        \* ciot.ta.identity
Offers == [chal : Challenges, srv : Servers]   \* what phase 2 presents
SessionKeys == [dev : EphKeys, chal : Challenges]

ASSUME MaxSeqAssumption == MaxSeq \in Nat
ASSUME NoneAssumption ==
  /\ None \notin Blobs /\ None \notin EphKeys
  /\ None \notin Servers /\ None \notin Secrets /\ None \notin SessionKeys

VARIABLES
  identity,              \* ciot.ta.identity
  serverPubkey,          \* ciot.server.pubkey
  psk,                   \* ciot.sensor.psk
  opened,                \* sessions that are open
  ecdh_keypair, session_key, session_key_valid, send_seq,
  sensor_authenticated,  \* the session struct, one function per field
  pc, local,             \* the command a session has in progress
  generated,             \* every key TEE_GenerateKey returned
  exported,              \* identities handed to the Host since the last wipe
  evidence,              \* evidence handed to the Host since the last wipe
  signed,                \* transcripts the servers signed
  authServer,            \* the server a session's key was agreed with
  sealed,                \* <<session key, seq>> of every protected reading
  steady,                \* phase 2 of a session found its buffers unchanged
  pinSteady              \* so did the one that stored the server key

storage == <<identity, serverPubkey, pinSteady, psk>>
session == <<ecdh_keypair, session_key, session_key_valid, send_seq,
             sensor_authenticated, authServer, steady>>
progress == <<pc, local>>
outputs == <<exported, evidence, signed, sealed>>
vars == <<storage, opened, session, progress, generated, outputs>>

Steps == {"idle", "sealIdentity", "rereadIdentity", "pinServer", "deriveKey",
          "fetchSecret", "sealSecret"}

TypeOK ==
  /\ identity \in Blobs \cup {None}
  /\ serverPubkey \in Servers \cup {None}
  /\ psk \in Secrets \cup {None}
  /\ opened \subseteq Sessions
  /\ ecdh_keypair \in [Sessions -> EphKeys \cup {None}]
  /\ session_key \in [Sessions -> SessionKeys \cup {None}]
  /\ session_key_valid \in [Sessions -> BOOLEAN]
  /\ send_seq \in [Sessions -> 0..MaxSeq]
  /\ sensor_authenticated \in [Sessions -> BOOLEAN]
  /\ authServer \in [Sessions -> Servers \cup {None}]
  /\ pc \in [Sessions -> Steps]
  /\ local \in [Sessions -> Blobs \cup Offers \cup Secrets \cup {None}]
  /\ \A s \in Sessions :
       /\ pc[s] \in {"sealIdentity", "rereadIdentity"} => local[s] \in Blobs
       /\ pc[s] \in {"pinServer", "deriveKey"} => local[s] \in Offers
       /\ pc[s] = "sealSecret" => local[s] \in Secrets
  /\ generated \subseteq IdKeys \cup EphKeys
  /\ exported \subseteq Blobs
  /\ evidence \subseteq [dev : EphKeys, chal : Challenges, by : Blobs]
  /\ signed \subseteq [srv : Servers, chal : Challenges, dev : EphKeys]
  /\ sealed \subseteq SessionKeys \X (1..MaxSeq)
  /\ steady \in [Sessions -> BOOLEAN]
  /\ pinSteady \in BOOLEAN

Init ==
  /\ identity = None /\ serverPubkey = None /\ psk = None
  /\ opened = {}
  /\ ecdh_keypair = [s \in Sessions |-> None]
  /\ session_key = [s \in Sessions |-> None]
  /\ session_key_valid = [s \in Sessions |-> FALSE]
  /\ send_seq = [s \in Sessions |-> 0]
  /\ sensor_authenticated = [s \in Sessions |-> FALSE]
  /\ authServer = [s \in Sessions |-> None]
  /\ pc = [s \in Sessions |-> "idle"]
  /\ local = [s \in Sessions |-> None]
  /\ generated = {} /\ exported = {} /\ evidence = {} /\ signed = {}
  /\ sealed = {}
  /\ steady = [s \in Sessions |-> TRUE]
  /\ pinSteady = TRUE

-----------------------------------------------------------------------------
(* Mutated forms of the helpers below, each a plausible slip in the code.  *)
(* The specification does not use them.                                    *)

MayCreate_overwrite(object) == TRUE                 \* TEE_DATA_FLAG_OVERWRITE
WinnersBlob_own(s) == local[s]                      \* no re-read after a race
DropSessionKey_keep(s) == UNCHANGED session_key_valid
ConsumeKeypair_keep(s) == UNCHANGED ecdh_keypair
Verifies_skipped(s, c, srv) == TRUE
Verifies_whenPinned(s, c, srv) ==      \* "trust on first use" taken literally
  \/ serverPubkey = None
  \/ [srv |-> srv, chal |-> c, dev |-> ecdh_keypair[s]] \in signed
SeqExhausted_late(s) == send_seq[s] > MaxSeq        \* off by one

-----------------------------------------------------------------------------
(* Sessions *)

Idle(s) == s \in opened /\ pc[s] = "idle"

Goto(s, step, value) ==
  /\ pc' = [pc EXCEPT ![s] = step]
  /\ local' = [local EXCEPT ![s] = value]

Return(s) == Goto(s, "idle", None)

\* Zero-fill the session structs of S: TEE_MALLOC_FILL_ZERO on open,
\* TEE_MemFill on close, loss of memory on power off.
Wipe(S) ==
  /\ ecdh_keypair' = [s \in Sessions |-> IF s \in S THEN None ELSE ecdh_keypair[s]]
  /\ session_key' = [s \in Sessions |-> IF s \in S THEN None ELSE session_key[s]]
  /\ session_key_valid' =
       [s \in Sessions |-> s \notin S /\ session_key_valid[s]]
  /\ send_seq' = [s \in Sessions |-> IF s \in S THEN 0 ELSE send_seq[s]]
  /\ sensor_authenticated' =
       [s \in Sessions |-> s \notin S /\ sensor_authenticated[s]]
  /\ authServer' = [s \in Sessions |-> IF s \in S THEN None ELSE authServer[s]]
  /\ steady' = [s \in Sessions |-> s \in S \/ steady[s]]

OpenSession(s) ==
  /\ s \notin opened
  /\ opened' = opened \cup {s}
  /\ Wipe({s})
  /\ UNCHANGED <<storage, progress, generated, outputs>>

CloseSession(s) ==
  /\ Idle(s)
  /\ opened' = opened \ {s}
  /\ Wipe({s})
  /\ UNCHANGED <<storage, progress, generated, outputs>>

-----------------------------------------------------------------------------
(* CMD 6: the TA's own identity *)

\* TEE_CreatePersistentObject without TEE_DATA_FLAG_OVERWRITE succeeds only
\* if the object does not exist; otherwise it returns ACCESS_CONFLICT.
MayCreate(object) == object = None

ta_generate_ta_identity(s, id) ==
  /\ Idle(s)
  /\ \/ /\ identity # None /\ identity.id = id
        /\ exported' = exported \cup {identity}
        /\ UNCHANGED <<progress, generated>>
     \/ /\ identity = None
        /\ \E k \in IdKeys \ generated :
             /\ Goto(s, "sealIdentity", [id |-> id, key |-> k])
             /\ generated' = generated \cup {k}
        /\ UNCHANGED exported
  /\ UNCHANGED <<storage, opened, session, evidence, signed, sealed>>

\* The create of a freshly minted identity: it wins, it was raced, or
\* storage fails.
SealIdentity(s) ==
  /\ pc[s] = "sealIdentity"
  /\ \/ /\ MayCreate(identity)
        /\ identity' = local[s]
        /\ exported' = exported \cup {local[s]}
        /\ Return(s)
     \/ /\ ~MayCreate(identity)
        /\ Goto(s, "rereadIdentity", local[s])
        /\ UNCHANGED <<identity, exported>>
     \/ /\ Return(s)
        /\ UNCHANGED <<identity, exported>>
  /\ UNCHANGED <<serverPubkey, pinSteady, psk, opened, session, generated,
                 evidence, signed, sealed>>

\* After a lost race the blob is the winner's, re-read from storage.
WinnersBlob(s) == identity

RereadIdentity(s) ==
  /\ pc[s] = "rereadIdentity"
  /\ Return(s)
  /\ \/ /\ identity # None /\ WinnersBlob(s).id = local[s].id
        /\ exported' = exported \cup {WinnersBlob(s)}
     \/ UNCHANGED exported   \* another device id, or storage fails
  /\ UNCHANGED <<storage, opened, session, generated, evidence, signed, sealed>>

-----------------------------------------------------------------------------
(* CMD 3: handshake phase 1 *)

\* Every exit after the parameter checks has dropped the old session key.
DropSessionKey(s) ==
  session_key_valid' = [session_key_valid EXCEPT ![s] = FALSE]

\* The two history variables of a session speak of its latest agreement.
Forget(s) ==
  /\ authServer' = [authServer EXCEPT ![s] = None]
  /\ steady' = [steady EXCEPT ![s] = TRUE]

\* sign_ta_identity: sign with whatever identity is sealed now.
SigningIdentity == identity

ta_generate_attestation_evidence(s, c) ==
  /\ Idle(s)
  /\ DropSessionKey(s)
  /\ Forget(s)
  /\ \/ /\ SigningIdentity # None
        /\ \E k \in EphKeys \ generated :
             /\ ecdh_keypair' = [ecdh_keypair EXCEPT ![s] = k]
             /\ generated' = generated \cup {k}
             /\ evidence' = evidence \cup
                  {[dev |-> k, chal |-> c, by |-> SigningIdentity]}
     \/ /\ ecdh_keypair' = [ecdh_keypair EXCEPT ![s] = None] \* err_free_keypair
        /\ UNCHANGED <<generated, evidence>>
  /\ UNCHANGED <<storage, opened, session_key, send_seq, sensor_authenticated,
                 progress, exported, signed, sealed>>

-----------------------------------------------------------------------------
(* CMD 4: handshake phase 2 *)

\* The out: block frees the single-use keypair whatever the outcome.
ConsumeKeypair(s) == ecdh_keypair' = [ecdh_keypair EXCEPT ![s] = None]

\* The signature the Host passes on verifies over this session's transcript
\* under key srv: the server holding srv did sign that transcript.  The
\* nonce and the share are hashed where they lie, in the shared buffers;
\* the device's point is the TA's own copy.
Verifies(s, c, srv) ==
  [srv |-> srv, chal |-> c, dev |-> ecdh_keypair[s]] \in signed

\* ECDH and HKDF read the share and the nonce c from the shared buffers.
DeriveKey(s, c) ==
  /\ session_key' =
       [session_key EXCEPT ![s] = [dev |-> ecdh_keypair[s], chal |-> c]]
  /\ session_key_valid' = [session_key_valid EXCEPT ![s] = TRUE]
  /\ send_seq' = [send_seq EXCEPT ![s] = 0]
  /\ ConsumeKeypair(s)
  /\ UNCHANGED <<authServer, steady>>

NoKey(s) ==
  /\ ConsumeKeypair(s)
  /\ Forget(s)
  /\ UNCHANGED <<session_key, session_key_valid, send_seq>>

\* A pinned key must equal the presented one, and the signature is then
\* checked with the copy read from storage.
MatchesPin(srv) == serverPubkey = srv

\* authenticate_server up to the verification: c and srv are what the shared
\* buffers hold when it reads them.
ta_handshake_complete(s, c, srv) ==
  /\ Idle(s)
  /\ ecdh_keypair[s] # None
  /\ \/ /\ MatchesPin(srv) \/ serverPubkey = None   \* need_pin
        /\ Verifies(s, c, srv)
        /\ Goto(s, IF serverPubkey = None THEN "pinServer" ELSE "deriveKey",
                [chal |-> c, srv |-> srv])
        /\ authServer' = [authServer EXCEPT ![s] = srv]
        /\ steady' = [steady EXCEPT ![s] = TRUE]
        /\ UNCHANGED <<ecdh_keypair, session_key, session_key_valid, send_seq>>
     \/ NoKey(s) /\ UNCHANGED progress   \* pin mismatch, bad signature, TEE error
  /\ UNCHANGED <<storage, opened, sensor_authenticated, generated, outputs>>

\* First use: pin the server key, read from the shared buffer once more.  A
\* create that was raced counts as a success; storage may still fail.
PinServer(s) ==
  /\ pc[s] = "pinServer"
  /\ \/ /\ MayCreate(serverPubkey)
        /\ serverPubkey' = local[s].srv
        /\ pinSteady' = steady[s]
        /\ Goto(s, "deriveKey", local[s])
        /\ UNCHANGED session
     \/ /\ ~MayCreate(serverPubkey)
        /\ Goto(s, "deriveKey", local[s])
        /\ UNCHANGED <<serverPubkey, pinSteady, session>>
     \/ /\ Return(s)
        /\ NoKey(s)
        /\ UNCHANGED <<serverPubkey, pinSteady, sensor_authenticated>>
  /\ UNCHANGED <<identity, psk, opened, generated, outputs>>

\* The server is authentic: derive the key, unless the TEE fails.
FinishHandshake(s) ==
  /\ pc[s] = "deriveKey"
  /\ Return(s)
  /\ DeriveKey(s, local[s].chal) \/ NoKey(s)
  /\ UNCHANGED <<storage, opened, sensor_authenticated, generated, outputs>>

-----------------------------------------------------------------------------
(* CMD 5, CMD 0 and CMD 1: the sensor *)

\* Probe for the secret: present means done, absent means fetch it.
ta_provision_sensor_secret(s) ==
  /\ Idle(s)
  /\ psk = None
  /\ Goto(s, "fetchSecret", None)
  /\ UNCHANGED <<storage, opened, session, generated, outputs>>

\* The sensor serves its secret, or the link fails or the sensor refuses.
FetchSecret(s) ==
  /\ pc[s] = "fetchSecret"
  /\ (\E x \in Secrets : Goto(s, "sealSecret", x)) \/ Return(s)
  /\ UNCHANGED <<storage, opened, session, generated, outputs>>

SealSecret(s) ==
  /\ pc[s] = "sealSecret"
  /\ Return(s)
  /\ \/ MayCreate(psk) /\ psk' = local[s]
     \/ UNCHANGED psk   \* raced, which counts as a success, or storage fails
  /\ UNCHANGED <<identity, serverPubkey, pinSteady, opened, session, generated,
                 outputs>>

\* The flag is cleared first and set again only by an HMAC made with the
\* sealed secret; answer is the secret the sensor used, None a failed call.
ta_authenticate_sensor(s) ==
  /\ Idle(s)
  /\ \E answer \in Secrets \cup {None} :
       sensor_authenticated' =
         [sensor_authenticated EXCEPT ![s] = psk # None /\ answer = psk]
  /\ UNCHANGED <<storage, opened, ecdh_keypair, session_key, session_key_valid,
                 send_seq, authServer, steady, progress, generated, outputs>>

\* The counter is committed only with a complete message, and at the limit
\* the command refuses rather than wraps.
NextSeq(s) == send_seq[s] + 1
SeqExhausted(s) == send_seq[s] >= MaxSeq

ta_read_and_protect(s) ==
  /\ Idle(s)
  /\ sensor_authenticated[s]
  /\ session_key_valid[s]
  /\ ~SeqExhausted(s)
  /\ send_seq' = [send_seq EXCEPT ![s] = NextSeq(s)]
  /\ sealed' = sealed \cup {<<session_key[s], NextSeq(s)>>}
  /\ UNCHANGED <<storage, opened, ecdh_keypair, session_key, session_key_valid,
                 sensor_authenticated, authServer, steady, progress, generated,
                 exported, evidence, signed>>

-----------------------------------------------------------------------------
(* Environment *)

\* Another thread of the Host rewrites the shared buffers of phase 2.
HostRewrites(s, offer) ==
  /\ pc[s] \in {"pinServer", "deriveKey"}
  /\ offer # local[s]
  /\ local' = [local EXCEPT ![s] = offer]
  /\ steady' = [steady EXCEPT ![s] = FALSE]
  /\ UNCHANGED <<storage, opened, ecdh_keypair, session_key, session_key_valid,
                 send_seq, sensor_authenticated, authServer, pc, generated,
                 outputs>>

\* A server that verified some evidence signs the transcript it was about.
ServerSigns(srv, e) ==
  /\ signed' = signed \cup {[srv |-> srv, chal |-> e.chal, dev |-> e.dev]}
  /\ UNCHANGED <<storage, opened, session, progress, generated, exported,
                 evidence, sealed>>

\* The device loses power: sessions and their commands are gone, secure
\* storage stays.
PowerOff ==
  /\ opened # {}
  /\ opened' = {}
  /\ Wipe(Sessions)
  /\ pc' = [s \in Sessions |-> "idle"]
  /\ local' = [s \in Sessions |-> None]
  /\ UNCHANGED <<storage, generated, outputs>>

\* run-project.sh replaces the storage disk after a rebuild, the device off.
WipeStorage ==
  /\ opened = {}
  /\ identity' = None /\ serverPubkey' = None /\ psk' = None
  /\ exported' = {} /\ evidence' = {}
  /\ pinSteady' = TRUE
  /\ UNCHANGED <<opened, session, progress, generated, signed, sealed>>

Next ==
  \/ \E s \in Sessions :
       \/ OpenSession(s) \/ CloseSession(s)
       \/ \E id \in DeviceIds : ta_generate_ta_identity(s, id)
       \/ SealIdentity(s) \/ RereadIdentity(s)
       \/ \E c \in Challenges : ta_generate_attestation_evidence(s, c)
       \/ \E c \in Challenges, srv \in Servers : ta_handshake_complete(s, c, srv)
       \/ PinServer(s) \/ FinishHandshake(s)
       \/ \E offer \in Offers : HostRewrites(s, offer)
       \/ ta_provision_sensor_secret(s) \/ FetchSecret(s) \/ SealSecret(s)
       \/ ta_authenticate_sensor(s) \/ ta_read_and_protect(s)
  \/ \E srv \in Servers, e \in evidence : ServerSigns(srv, e)
  \/ PowerOff \/ WipeStorage

Spec == Init /\ [][Next]_vars

-----------------------------------------------------------------------------
(* Properties *)

\* Whatever interleaving two provisioning calls take, every public key the
\* TA exported for registration and every evidence signature it made belong
\* to the one identity that is sealed (trusted_app.c, "the winner's key is
\* the real one").
ExportedIdentityIsSealed ==
  /\ \A b \in exported : b = identity
  /\ \A e \in evidence : e.by = identity

\* A session never holds a live session key and an unconsumed keypair at
\* once: phase 1 closes the data path until phase 2 reopens it, and phase 2
\* leaves no keypair that could derive the same key again.
KeypairSupersedesKey ==
  \A s \in Sessions : ~(session_key_valid[s] /\ ecdh_keypair[s] # None)

\* A live session key was derived with a keypair for which the server it
\* was agreed with signed a transcript, first use included ("TOFU skips
\* comparison, never verification"); and unless the Host rewrote the buffers
\* while phase 2 ran, the key is the one of that very transcript.
KeyAgreedWithSigner ==
  \A s \in Sessions : session_key_valid[s] =>
    \E c \in Challenges :
      /\ [srv |-> authServer[s], chal |-> c, dev |-> session_key[s].dev] \in signed
      /\ steady[s] => c = session_key[s].chal

\* No message is ever sealed under a (session key, seq) pair that an earlier
\* message was sealed under, across re-attestations and all sessions: the
\* server's replay check relies on it.
NoSequenceReuse ==
  [][\A s \in Sessions : ta_read_and_protect(s) =>
       <<session_key[s], NextSeq(s)>> \notin sealed]_vars

\* The server key that is pinned belongs to a server that signed a transcript
\* of this device ("verify first, then pin"), whichever of several racing
\* first uses wrote it and whatever failed after the verification, unless
\* the Host rewrote the key between its verification and its storing.
PinnedKeySigned ==
  serverPubkey # None /\ pinSteady =>
    \E t \in signed : t.srv = serverPubkey /\ t.dev \in generated

\* Sealed objects are immutable: whatever races, no step but the wipe of
\* the storage disk changes an identity, a pinned server key or a secret
\* that is in storage (first-write-wins).
FirstWriteWins ==
  [][\/ /\ identity # None => identity' = identity
        /\ serverPubkey # None => serverPubkey' = serverPubkey
        /\ psk # None => psk' = psk
     \/ WipeStorage]_vars
=============================================================================
