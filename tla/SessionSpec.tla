---------------------------- MODULE SessionSpec ----------------------------
(***************************************************************************)
(* What the server promises about the session of one device, as one atomic *)
(* object: a key is installed at most once, over the life of the system,   *)
(* and while it stays installed the high-water mark of its messages only   *)
(* rises.  Ending a session loses the key for good.                        *)
(*                                                                         *)
(* AttestedLink implements this with threads, two locks, challenges that   *)
(* are popped and sessions that are found expired when next looked at.     *)
(***************************************************************************)
EXTENDS Naturals

CONSTANTS Keys, NoKey, MaxSeq

VARIABLES
  key,    \* the installed key, or NoKey
  high,   \* the highest message number let through under it
  used    \* the keys installed so far

sessionVars == <<key, high, used>>

Init == key = NoKey /\ high = 0 /\ used = {}

Install ==
  \E k \in Keys \ used :
    /\ key' = k
    /\ high' = 0
    /\ used' = used \cup {k}

Advance ==
  \E n \in 1..MaxSeq :
    /\ key # NoKey
    /\ n > high
    /\ high' = n
    /\ UNCHANGED <<key, used>>

End ==
  /\ key # NoKey
  /\ key' = NoKey
  /\ high' = 0
  /\ UNCHANGED used

Next == Install \/ Advance \/ End

Spec == Init /\ [][Next]_sessionVars
=============================================================================
