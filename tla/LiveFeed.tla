----------------------------- MODULE LiveFeed -----------------------------
(***************************************************************************)
(* The dashboard page (server/web/app.js) and the WebSocket endpoint that  *)
(* feeds it (collect_ws in server/app_server.py), over Collection.  One    *)
(* page, which replaces its socket when the user picks another window and  *)
(* opens a new one on a timer when it loses it.                            *)
(*                                                                         *)
(* The WebSocket is the browser's: after close() a socket delivers no more *)
(* messages, and its close event comes as a later task.                    *)
(***************************************************************************)
EXTENDS Collection

CONSTANTS
  Sockets,      \* slots for WebSockets of the page
  MaxFrames,    \* bound on the frames on their way to the page
  MaxEvents     \* bound on selections, losses, restarts and ticks together

ASSUME PageAssumption ==
  Sockets # {} /\ MaxFrames \in Nat \ {0} /\ MaxEvents \in Nat

VARIABLES
  selected,      \* the window chosen on the page
  liveSocket,    \* the page's current socket
  liveReconnectTimer,   \* BOOLEAN: the reconnect timer is set
  badge,         \* "connecting", "live", "error" or "offline"
  screen,        \* the answer that is on the screen
  ws,            \* [Sockets -> the page's end, with the window in its URL]
  frames,        \* [Sockets -> frames on their way to the page]
  feed,          \* [Sockets -> BOOLEAN]: the server runs collect_ws for it
  events         \* selections, losses and restarts so far

page == <<selected, liveSocket, liveReconnectTimer, badge, screen>>
sockets == <<ws, frames, feed>>
vars == <<collectionVars, page, sockets, events>>

NoAnswer == [error |-> TRUE]   \* an empty screen, or a frame that fails to parse

Usable == {"connecting", "accepted", "open"}
NotOpened == [state |-> "none"]   \* the other states are "closing" and "lost"
IsUsable(s) == ws[s].state \in Usable
EventLeft == events + now < MaxEvents
Event == EventLeft /\ events' = events + 1
Become(s, state) == ws' = [ws EXCEPT ![s].state = state]

\* The page has run init(), whose last act is to open the first socket.
Init ==
  /\ CollectionInit
  /\ selected \in Windows
  /\ liveSocket = CHOOSE s \in Sockets : TRUE
  /\ ws = [s \in Sockets |->
             IF s = liveSocket THEN [state |-> "connecting", window |-> selected]
             ELSE NotOpened]
  /\ liveReconnectTimer = FALSE /\ badge = "connecting" /\ screen = NoAnswer
  /\ frames = [s \in Sockets |-> <<>>]
  /\ feed = [s \in Sockets |-> FALSE]
  /\ events = 0

-----------------------------------------------------------------------------
(* Mutated forms of the helpers below; the specification does not use them *)

Superseded_never(s) == FALSE
UrlWindow_default == Min(Windows)     \* the parameters of the first page load

-----------------------------------------------------------------------------
(* The page *)

\* "A newer socket (param change) already superseded this one"
Superseded(s) == s # liveSocket

\* The sockets are as old by now, and w is selected.
openLiveSocket(s, old, w) ==
  /\ old[s] = NotOpened /\ ~feed[s]
  /\ liveReconnectTimer' = FALSE
  /\ badge' = "connecting"
  /\ ws' = [old EXCEPT ![s] = [state |-> "connecting", window |-> w]]
  /\ liveSocket' = s

\* The change event of a select: applyLiveParams.
applyLiveParams ==
  /\ Event
  /\ LET closed == IF IsUsable(liveSocket)
                   THEN [ws EXCEPT ![liveSocket].state = "closing"] ELSE ws
     IN \E s \in Sockets, w \in Windows \ {selected} :
          selected' = w /\ openLiveSocket(s, closed, w)
  /\ frames' = [frames EXCEPT ![liveSocket] = <<>>]
  /\ UNCHANGED <<collectionVars, screen, feed>>

UrlWindow == selected   \* liveWsUrl reads the selects

OnTimer ==
  /\ liveReconnectTimer
  /\ \E s \in Sockets : openLiveSocket(s, ws, UrlWindow)
  /\ UNCHANGED <<collectionVars, selected, screen, frames, feed, events>>

OnOpen(s) ==
  /\ ws[s].state = "accepted"
  /\ Become(s, "open")
  /\ badge' = IF Superseded(s) THEN badge ELSE "live"
  /\ UNCHANGED <<collectionVars, selected, liveSocket, liveReconnectTimer, screen,
                 frames, feed, events>>

OnMessage(s) ==
  /\ ws[s].state = "open" /\ frames[s] # <<>>
  /\ frames' = [frames EXCEPT ![s] = Tail(@)]
  /\ \/ /\ ~Superseded(s) /\ Head(frames[s]) = NoAnswer
        /\ badge' = "error"
        /\ UNCHANGED screen
     \/ /\ ~Superseded(s) /\ Head(frames[s]) # NoAnswer
        /\ badge' = "live"
        /\ screen' = Head(frames[s])
  /\ UNCHANGED <<collectionVars, selected, liveSocket, liveReconnectTimer,
                 ws, feed, events>>

OnClose(s) ==
  /\ ws[s].state \in {"closing", "lost"}
  /\ ws' = [ws EXCEPT ![s] = NotOpened]
  /\ frames' = [frames EXCEPT ![s] = <<>>]
  /\ \/ /\ Superseded(s)
        /\ UNCHANGED <<badge, liveReconnectTimer>>
     \/ /\ ~Superseded(s)
        /\ badge' = "offline"
        /\ liveReconnectTimer' = TRUE
  /\ UNCHANGED <<collectionVars, selected, liveSocket, screen, feed,
                 events>>

-----------------------------------------------------------------------------
(* collect_ws *)

Accept(s) ==
  /\ ws[s].state = "connecting"
  /\ Become(s, "accepted")
  /\ feed' = [feed EXCEPT ![s] = TRUE]
  /\ UNCHANGED <<collectionVars, page, frames, events>>

\* The JSON answer; last stands for all that is in it.  Whether a NaN or an
\* infinity in the window gets into it depends on the aggregation, and if one
\* does the page cannot parse the frame.
Answers(all, w) ==
  LET samples == window(all, w) IN
  {[window |-> w, last |-> IF samples = <<>> THEN 0 ELSE Last(samples).n]}
    \cup IF Numeric(samples) THEN {} ELSE {NoAnswer}

\* One turn of the loop: collect, then send.  If the page has gone the send
\* fails, which ends the loop, but what was collected is in the store.
collect_ws(s) ==
  /\ feed[s]
  /\ DrainIntoStore /\ UNCHANGED feedVars
  /\ \/ /\ ws[s].state \in {"accepted", "open"} /\ Len(frames[s]) < MaxFrames
        /\ \E answer \in Answers(store', ws[s].window) :
             frames' = [frames EXCEPT ![s] = Append(@, answer)]
        /\ UNCHANGED feed
     \/ /\ ws[s].state \notin {"accepted", "open"}
        /\ feed' = [feed EXCEPT ![s] = FALSE]
        /\ UNCHANGED frames
  /\ UNCHANGED <<page, ws, events>>

-----------------------------------------------------------------------------
(* Environment *)

Lost == [s \in Sockets |->
           IF IsUsable(s) THEN [ws[s] EXCEPT !.state = "lost"] ELSE ws[s]]

DropConnection ==
  /\ Event
  /\ IsUsable(liveSocket)
  /\ ws' = Lost
  /\ frames' = [s \in Sockets |-> <<>>]
  /\ UNCHANGED <<collectionVars, page, feed>>

RestartServer ==
  /\ Event
  /\ ClearServer
  /\ ws' = Lost
  /\ feed' = [s \in Sockets |-> FALSE]
  /\ frames' = [s \in Sockets |-> <<>>]
  /\ UNCHANGED page

Others ==
  /\ \/ \E c \in Conns : LinkThread(c)
     \/ collect
     \/ EventLeft /\ Clock
  /\ UNCHANGED <<page, sockets, events>>

Socket(s) ==
  OnOpen(s) \/ OnMessage(s) \/ OnClose(s) \/ Accept(s) \/ collect_ws(s)

Next ==
  \/ Others \/ applyLiveParams \/ OnTimer
  \/ \E s \in Sockets : Socket(s)
  \/ DropConnection \/ RestartServer

\* Browser and event loop keep running their tasks.
Fairness ==
  /\ \A s \in Sockets :
       /\ WF_vars(OnOpen(s)) /\ WF_vars(OnMessage(s)) /\ WF_vars(OnClose(s))
       /\ WF_vars(Accept(s)) /\ WF_vars(collect_ws(s))
  /\ WF_vars(OnTimer)

Spec == Init /\ [][Next]_vars /\ Fairness

-----------------------------------------------------------------------------
(* Properties *)

\* The page never has two sockets, nor a socket and a timer that will open
\* another: each would keep a collect loop of its own running on the server
\* and drain the buffer (applyLiveParams, the close handler's guard).
OneLiveSocket ==
  /\ \A s \in Sockets : IsUsable(s) => s = liveSocket
  /\ liveReconnectTimer => ~IsUsable(liveSocket)

\* The current reading gets on the screen, under the window selected, whatever
\* becomes of the sockets meanwhile and whoever else drains the buffer, unless
\* it is overtaken by another, leaves the window, or the window has what is not
\* a number, which no frame can carry.
ReachesScreen ==
  \A r \in 1..MaxReading :
    newest = r ~>
      \/ screen # NoAnswer /\ screen.last = r /\ screen.window = selected
      \/ newest # r
      \/ \E s \in ToSet(buf \o store) : s.n = r /\ ~Recent(s, now - selected)
      \/ ~Numeric(buf \o store)
=============================================================================
