--------------------------- MODULE MCSensorLink ---------------------------
(* HMACs and a secret of 5 bytes, which like 32 leave 2 bytes when headers *)
(* of 3 are read from them, and whose bytes are the worst ones.  Read out  *)
(* of step, the secret announces a secret; an odd HMAC an answer to a      *)
(* challenge, longer than the TA's buffer for it; an even HMAC a reading,  *)
(* which the next frame completes to a well-formed one.                    *)
EXTENDS SensorLink

MCSecret == <<SECRET, 0, 5, 8, 9>>
MCHmac == [n \in 1..99 |-> IF n % 2 = 1 THEN <<CHALLENGE_RESPONSE, 0, 7, n, 0>>
                           ELSE <<READING, 0, 11, n, 0>>]
=============================================================================
