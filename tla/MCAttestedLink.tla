-------------------------- MODULE MCAttestedLink --------------------------
(* Two connections of one device, whose threads interleave.                *)
EXTENDS AttestedLink, TLC

Symmetry == Permutations(Conns)

\* What no step and no property of the run looks at is left out: what a line
\* to the device says and how the server's end was closed, lines nobody will
\* read, the key of a message whose number is too large, a message that is
\* past its checks, the rest of a dropped session, verdicts other than ok.
Blur(m) == IF m \in Data /\ m.seq > MaxSeq THEN "tooLarge" ELSE m

View ==
  <<[c \in Conns |->
       IF thread[c] = "none" /\ link[c] # "free" THEN "closed" ELSE link[c]],
    [c \in Conns |-> IF thread[c] = "end" THEN up[c] # <<>>
                     ELSE [i \in DOMAIN up[c] |-> Blur(up[c][i])]],
    [c \in Conns |-> link[c] = "open" /\ Len(dn[c]) = MaxQueue],
    thread, bound, registered, challenge,
    [c \in Conns |-> IF thread[c] = "store" THEN NoMsg ELSE held[c]],
    session_key,
    session_key # NoNonce /\ session_expired,
    IF session_key = NoNonce THEN 0 ELSE last_seq,
    installed, accepted, verdict = "ok">>
=============================================================================
