-------------------------- MODULE LiveFeed_proofs --------------------------
(***************************************************************************)
(* Proofs about the dashboard page: that it feeds itself over one socket,  *)
(* for any number of sockets that linger, and that to the server's         *)
(* collection it is one more caller of collect, so that what is proved of  *)
(* the collection also holds with pages attached.                          *)
(***************************************************************************)
EXTENDS LiveFeed, Aggregate_proofs

\* A socket's record; its window is the one in the URL.
SocketRecord ==
  {NotOpened} \cup [state : Usable \cup {"closing", "lost"}, window : Windows]

PageOK ==
  /\ selected \in Windows
  /\ liveSocket \in Sockets /\ liveReconnectTimer \in BOOLEAN
  /\ ws \in [Sockets -> SocketRecord]

PageInv == PageOK /\ OneLiveSocket

-----------------------------------------------------------------------------
(* Sockets *)

\* A socket that is not opened has no window and is not usable.
LEMMA RecordFacts ==
  /\ NotOpened \in SocketRecord /\ NotOpened.state \notin Usable
  /\ \A st \in Usable \cup {"closing", "lost"}, w \in Windows :
       [state |-> st, window |-> w] \in SocketRecord
  /\ \A r \in SocketRecord :
       r.state # "none" =>
         \A st \in Usable \cup {"closing", "lost"} :
           /\ [r EXCEPT !.state = st] \in SocketRecord
           /\ [r EXCEPT !.state = st].state = st
  BY DEF SocketRecord, NotOpened, Usable

\* A socket is opened, when no other is usable any more: it is the only one.
LEMMA OpenStep ==
  ASSUME NEW old \in [Sockets -> SocketRecord], NEW s \in Sockets, NEW w \in Windows,
         \A t \in Sockets : old[t].state \notin Usable,
         selected' \in Windows, openLiveSocket(s, old, w)
  PROVE  PageInv'
<1>1. /\ liveReconnectTimer' = FALSE /\ liveSocket' = s
      /\ ws' = [old EXCEPT ![s] = [state |-> "connecting", window |-> w]]
  BY DEF openLiveSocket
<1>2. [state |-> "connecting", window |-> w] \in SocketRecord
  BY RecordFacts DEF Usable
<1>3. ws' \in [Sockets -> SocketRecord] /\ \A t \in Sockets : t # s => ws'[t] = old[t]
  BY <1>1, <1>2
<1> QED
  BY <1>1, <1>3 DEF PageInv, PageOK, OneLiveSocket, IsUsable

\* A socket changes, to a state in which it is usable only if it was.
LEMMA ChangeStep ==
  ASSUME PageInv, ws' \in [Sockets -> SocketRecord],
         \A t \in Sockets : ws'[t].state \in Usable => IsUsable(t),
         UNCHANGED <<selected, liveSocket>>, liveReconnectTimer' \in BOOLEAN,
         liveReconnectTimer' => liveReconnectTimer \/ ws'[liveSocket].state \notin Usable
  PROVE  PageInv'
  BY DEF PageInv, PageOK, OneLiveSocket, IsUsable

\* A socket gets another state.
LEMMA BecomeStep ==
  ASSUME PageInv, NEW s \in Sockets, NEW st \in Usable \cup {"closing", "lost"},
         ws[s].state # "none", st \in Usable => IsUsable(s),
         Become(s, st), UNCHANGED <<selected, liveSocket, liveReconnectTimer>>
  PROVE  PageInv'
<1>1. ws \in [Sockets -> SocketRecord] /\ liveReconnectTimer \in BOOLEAN
  BY DEF PageInv, PageOK
<1>2. ws' = [ws EXCEPT ![s] = [ws[s] EXCEPT !.state = st]]
  BY <1>1 DEF Become
<1>3. [ws[s] EXCEPT !.state = st] \in SocketRecord /\ [ws[s] EXCEPT !.state = st].state = st
  BY <1>1, RecordFacts
<1>4. /\ ws' \in [Sockets -> SocketRecord] /\ ws'[s].state = st
      /\ \A t \in Sockets : t # s => ws'[t] = ws[t]
  BY <1>1, <1>2, <1>3
<1> QED
  BY <1>1, <1>4, ChangeStep DEF IsUsable

\* The connection of the page is lost.
LEMMA LostStep ==
  ASSUME PageInv, ws' = Lost, UNCHANGED page
  PROVE  PageInv'
<1>1. ws \in [Sockets -> SocketRecord] /\ liveReconnectTimer \in BOOLEAN
  BY DEF PageInv, PageOK
<1>2. ASSUME NEW s \in Sockets PROVE ws'[s] \in SocketRecord /\ ws'[s].state \notin Usable
  <2>1. CASE IsUsable(s)
    <3>1. ws'[s] = [ws[s] EXCEPT !.state = "lost"]
      BY <2>1 DEF Lost
    <3>2. ws[s].state # "none" /\ ws[s] \in SocketRecord
      BY <1>1, <2>1 DEF IsUsable, Usable
    <3>3. ws'[s] \in SocketRecord /\ ws'[s].state = "lost"
      BY <3>1, <3>2, RecordFacts
    <3> QED
      BY <3>3 DEF Usable
  <2>2. CASE ~IsUsable(s)
    BY <1>1, <2>2 DEF Lost, IsUsable
  <2> QED
    BY <2>1, <2>2
<1>3. ws' \in [Sockets -> SocketRecord]
  BY <1>2 DEF Lost
<1> QED
  BY <1>1, <1>2, <1>3, ChangeStep DEF page

-----------------------------------------------------------------------------
(* Theorems *)

\* PageInv holds initially, ...
LEMMA PageInit == Init => PageInv
<1> SUFFICES ASSUME Init PROVE PageInv
  OBVIOUS
<1>1. liveSocket \in Sockets /\ selected \in Windows
  BY PageAssumption DEF Init
<1>2. /\ ws = [s \in Sockets |-> IF s = liveSocket
                                 THEN [state |-> "connecting", window |-> selected]
                                 ELSE NotOpened]
      /\ liveReconnectTimer = FALSE
  BY DEF Init
<1>3. [state |-> "connecting", window |-> selected] \in SocketRecord
  BY <1>1, RecordFacts DEF Usable
<1>4. ws \in [Sockets -> SocketRecord]
  BY <1>2, <1>3, RecordFacts
<1>5. \A s \in Sockets : s # liveSocket => ws[s].state \notin Usable
  BY <1>2, RecordFacts
<1> QED
  BY <1>1, <1>2, <1>4, <1>5 DEF PageInv, PageOK, OneLiveSocket, IsUsable

\* ... and every step keeps it.
LEMMA PageStep == PageInv /\ [Next]_vars => PageInv'
<1> SUFFICES ASSUME PageInv, [Next]_vars PROVE PageInv'
  OBVIOUS
<1>0. PageOK /\ OneLiveSocket
  BY DEF PageInv
<1>1. ASSUME UNCHANGED <<page, ws>> PROVE PageInv'
  BY <1>0, <1>1 DEF PageInv, PageOK, OneLiveSocket, IsUsable, page
<1>2. CASE applyLiveParams
  <2> DEFINE closed == IF IsUsable(liveSocket)
                       THEN [ws EXCEPT ![liveSocket].state = "closing"] ELSE ws
  <2>1. PICK s \in Sockets, w \in Windows \ {selected} :
               selected' = w /\ openLiveSocket(s, closed, w)
    BY <1>2 DEF applyLiveParams
  <2>2. closed \in [Sockets -> SocketRecord] /\ \A t \in Sockets : closed[t].state \notin Usable
    <3>1. CASE IsUsable(liveSocket)
      <4>1. closed = [ws EXCEPT ![liveSocket] = [ws[liveSocket] EXCEPT !.state = "closing"]]
        BY <1>0, <3>1 DEF PageOK
      <4>2. ws[liveSocket] \in SocketRecord /\ ws[liveSocket].state # "none"
        BY <1>0, <3>1 DEF PageOK, IsUsable, Usable
      <4>3. /\ [ws[liveSocket] EXCEPT !.state = "closing"] \in SocketRecord
            /\ [ws[liveSocket] EXCEPT !.state = "closing"].state \notin Usable
        BY <4>2, RecordFacts DEF Usable
      <4>4. /\ closed \in [Sockets -> SocketRecord]
            /\ closed[liveSocket].state \notin Usable
            /\ \A t \in Sockets : t # liveSocket => closed[t] = ws[t]
        BY <1>0, <4>1, <4>3 DEF PageOK
      <4> QED
        BY <1>0, <4>4 DEF OneLiveSocket, IsUsable
    <3>2. CASE ~IsUsable(liveSocket)
      BY <1>0, <3>2 DEF PageOK, OneLiveSocket, IsUsable
    <3> QED
      BY <3>1, <3>2
  <2> HIDE DEF closed
  <2> QED
    BY <2>1, <2>2, OpenStep
<1>3. CASE OnTimer
  <2>1. PICK s \in Sockets : openLiveSocket(s, ws, selected)
    BY <1>3 DEF OnTimer, UrlWindow
  <2>2. liveReconnectTimer /\ selected' = selected
    BY <1>3 DEF OnTimer
  <2>3. \A t \in Sockets : ws[t].state \notin Usable
    BY <1>0, <2>2 DEF OneLiveSocket, IsUsable
  <2> QED
    BY <1>0, <2>1, <2>2, <2>3, OpenStep DEF PageOK
<1>4. ASSUME NEW s \in Sockets, Socket(s) PROVE PageInv'
  <2>1. CASE OnOpen(s)
    <3>1. /\ ws[s].state = "accepted" /\ Become(s, "open")
          /\ UNCHANGED <<selected, liveSocket, liveReconnectTimer>>
      BY <2>1 DEF OnOpen
    <3> QED
      BY <3>1, BecomeStep DEF Usable, IsUsable
  <2>2. CASE OnMessage(s)
    <3>1. UNCHANGED <<selected, liveSocket, liveReconnectTimer, ws>>
      BY <2>2 DEF OnMessage
    <3> QED
      BY <1>0, <3>1 DEF PageInv, PageOK, OneLiveSocket, IsUsable
  <2>3. CASE OnClose(s)
    <3>1. /\ ws' = [ws EXCEPT ![s] = NotOpened] /\ UNCHANGED <<selected, liveSocket>>
          /\ \/ liveReconnectTimer' = liveReconnectTimer
             \/ s = liveSocket /\ liveReconnectTimer' = TRUE
      BY <2>3 DEF OnClose, Superseded
    <3>2. /\ ws' \in [Sockets -> SocketRecord] /\ ws'[s] = NotOpened
          /\ \A t \in Sockets : t # s => ws'[t] = ws[t]
      BY <1>0, <3>1, RecordFacts DEF PageOK
    <3>3. \A t \in Sockets : ws'[t].state \in Usable => IsUsable(t)
      BY <3>2, RecordFacts DEF IsUsable
    <3>4. ws'[s].state \notin Usable
      BY <3>2, RecordFacts
    <3>5. liveReconnectTimer' \in BOOLEAN
      BY <1>0, <3>1, Zenon DEF PageOK
    <3>6. liveReconnectTimer' => liveReconnectTimer \/ ws'[liveSocket].state \notin Usable
      BY <3>1, <3>4, Zenon
    <3> QED
      BY <3>1, <3>2, <3>3, <3>5, <3>6, ChangeStep
  <2>4. CASE Accept(s)
    <3>1. /\ ws[s].state = "connecting" /\ Become(s, "accepted")
          /\ UNCHANGED <<selected, liveSocket, liveReconnectTimer>>
      BY <2>4 DEF Accept, page
    <3> QED
      BY <3>1, BecomeStep DEF Usable, IsUsable
  <2>5. CASE collect_ws(s)
    BY <1>1, <2>5 DEF collect_ws
  <2> QED
    BY <1>4, <2>1, <2>2, <2>3, <2>4, <2>5 DEF Socket
<1>5. CASE DropConnection
  BY <1>5, LostStep DEF DropConnection
<1>6. CASE RestartServer
  BY <1>6, LostStep DEF RestartServer
<1>7. CASE Others
  BY <1>1, <1>7 DEF Others, sockets
<1>8. CASE UNCHANGED vars
  BY <1>1, <1>8 DEF vars, sockets
<1> QED
  BY <1>2, <1>3, <1>4, <1>5, <1>6, <1>7, <1>8 DEF Next

\* applyLiveParams and the close handler's guard: whatever closes, reconnects
\* and window changes overlap, the page has at most one usable socket, and no
\* timer that would open a second.
THEOREM OneSocket == Spec => []OneLiveSocket
  BY PageInit, PageStep, PTL DEF Spec, PageInv

\* collect_ws: pages and their sockets only ever do to buffer and store what
\* the collection endpoint does, so the page's server is a Collection.
THEOREM PageCollects == Spec => CollectionSpec
<1>1. Init => CollectionInit
  BY DEF Init
<1>2. [Next]_vars => [CollectionNext]_collectionVars
  <2> SUFFICES ASSUME [Next]_vars PROVE [CollectionNext]_collectionVars
    OBVIOUS
  <2>1. CASE Others
    BY <2>1 DEF Others, CollectionNext
  <2>2. ASSUME NEW s \in Sockets, Socket(s) PROVE [CollectionNext]_collectionVars
    BY <2>2 DEF Socket, OnOpen, OnMessage, OnClose, Accept, collect_ws, collect,
                CollectionNext
  <2>3. CASE applyLiveParams \/ OnTimer \/ DropConnection
    BY <2>3 DEF applyLiveParams, OnTimer, DropConnection
  <2>4. CASE RestartServer
    BY <2>4 DEF RestartServer, CollectionNext
  <2>5. CASE UNCHANGED vars
    BY <2>5 DEF vars
  <2> QED
    BY <2>1, <2>2, <2>3, <2>4, <2>5 DEF Next
<1> QED
  BY <1>1, <1>2, PTL DEF Spec, CollectionSpec

\* With pages that drain the buffer too, every reading is still counted once,
\* the current one is still kept, and in any window of numbers the weighted
\* average favours the recent ones.
THEOREM ReadingsOfPage ==
  Spec => [](CountedOnce /\ NewestSurvives /\ WeightsRankByRecency /\ FavoursRecent)
  BY PageCollects, NothingCountedTwice, NewestIsKept, WeightsRank, RecentFavoured, PTL
=============================================================================
