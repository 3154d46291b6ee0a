------------------------------ MODULE Dashboard ------------------------------
(***************************************************************************)
(* The dashboard's connection to the hub: the effect with auto-reconnect   *)
(* of src/frontend/src/components/Dashboard.tsx, beside other clients.     *)
(*                                                                         *)
(* Each mount runs the effect anew, with an isMounted of its own; wsRef    *)
(* and reconnectTimeout outlive it.  (main.tsx renders in StrictMode,      *)
(* which mounts, unmounts and mounts again.)  The events of a socket reach *)
(* the browser later than they happen, possibly after the effect that      *)
(* created it was cleaned up.                                              *)
(***************************************************************************)
EXTENDS WebSocketHub

CONSTANT Sockets   \* the WebSocket objects of the dashboard

ASSUME DashboardConstants == Sockets \subseteq Clients

VARIABLES
    mounted,   \* is the effect active?
    wsRef,     \* wsRef.current
    dialing,   \* sockets that wait for the server to accept
    closing,   \* closed sockets whose onclose is still to come
    live,      \* sockets whose handlers find isMounted true
    timers     \* pending timeouts whose connect finds isMounted true

dashboard == <<mounted, wsRef, dialing, closing, live, timers>>
allVars == <<vars, dashboard>>

-----------------------------------------------------------------------------
(* connect: a new socket of the mounted effect *)
Dial ==
    \E c \in Sockets :
      /\ peer[c] = "new" /\ c \notin dialing
      /\ wsRef' = c
      /\ dialing' = dialing \cup {c}
      /\ live' = live \cup {c}

Mount ==
    /\ ~mounted
    /\ mounted' = TRUE
    /\ Dial
    /\ UNCHANGED <<vars, closing, timers>>

Reconnect ==
    /\ timers > 0
    /\ timers' = timers - 1
    /\ Dial
    /\ UNCHANGED <<vars, mounted, closing>>

Accept(c) ==
    /\ c \in dialing
    /\ Connect(c)
    /\ dialing' = dialing \ {c}
    /\ UNCHANGED <<mounted, wsRef, closing, live, timers>>

\* onerror, which closes the socket.
DialFails(c) ==
    /\ c \in dialing
    /\ peer' = [peer EXCEPT ![c] = "closed"]
    /\ dialing' = dialing \ {c}
    /\ closing' = closing \cup {c}
    /\ UNCHANGED <<conns, handler, broadcast, mounted, wsRef, live, timers>>

Lost(c) ==
    /\ PeerCloses(c)
    /\ closing' = closing \cup {c}
    /\ UNCHANGED <<mounted, wsRef, dialing, live, timers>>

\* Mutant: whoever created the socket reconnects.
OnCloseUnchecked(c) ==
    /\ c \in closing
    /\ closing' = closing \ {c}
    /\ timers' = timers + 1
    /\ live' = live \ {c}
    /\ UNCHANGED <<vars, mounted, wsRef, dialing>>

\* onclose: an effect that is still mounted reconnects later.
OnClose(c) ==
    /\ c \in closing
    /\ closing' = closing \ {c}
    /\ timers' = IF c \in live THEN timers + 1 ELSE timers
    /\ live' = live \ {c}
    /\ UNCHANGED <<vars, mounted, wsRef, dialing>>

\* The cleanup: isMounted = false, clearTimeout, wsRef.current?.close().
Unmount ==
    /\ mounted
    /\ mounted' = FALSE
    /\ live' = {}
    /\ timers' = 0
    /\ IF wsRef \in dialing \/ peer[wsRef] = "open"
         THEN /\ peer' = [peer EXCEPT ![wsRef] = "closed"]
              /\ closing' = closing \cup {wsRef}
              /\ dialing' = dialing \ {wsRef}
         ELSE UNCHANGED <<peer, closing, dialing>>
    /\ UNCHANGED <<conns, handler, broadcast, wsRef>>

-----------------------------------------------------------------------------
DashboardInit ==
    /\ Init
    /\ mounted = FALSE /\ wsRef = NoClient
    /\ dialing = {} /\ closing = {} /\ live = {} /\ timers = 0

Browser == \/ Mount \/ Reconnect \/ Unmount
           \/ \E c \in Sockets :
                Accept(c) \/ DialFails(c) \/ Lost(c) \/ OnClose(c)

Others == \E c \in Clients \ Sockets : Connect(c) \/ PeerCloses(c)

\* The dashboard sends nothing that its handler could fail at.
Server == \/ Begin \/ SendEnds \/ Cancelled
          \/ \E c \in Clients : HandlerEnds(c)
          \/ \E c \in Clients \ Sockets : HandlerFails(c)

DashboardNext == Browser \/ ((Others \/ Server) /\ UNCHANGED dashboard)

DashboardSpec == DashboardInit /\ [][DashboardNext]_allVars /\ Fairness

-----------------------------------------------------------------------------
(* Properties *)

\* However mounts, losses and late events interleave, a mounted dashboard has
\* one line to the hub or is about to get one: a socket that dials or is open,
\* one whose loss it is about to learn of, or a pending reconnection; never
\* two, which would show every event twice.  An unmounted one has none.
OneLine ==
    LET up == {c \in Sockets : c \in dialing \/ peer[c] = "open"}
        lost == closing \cap live
    IN  Cardinality(up) + Cardinality(lost) + timers = IF mounted THEN 1 ELSE 0
=============================================================================
