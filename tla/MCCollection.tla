--------------------------- MODULE MCCollection ---------------------------
(* Two connection threads, so that one may store after a later one.        *)
EXTENDS Collection, TLC

Symmetry == Permutations(Conns)

\* Nothing reads the verdict, nor the flag that a message would make it.
View ==
  <<device_link, now, taken, buf, store, newest,
    [c \in Conns |-> <<carried[c] = NoMessage, carried[c].samples>>]>>
=============================================================================
