----------------------------- MODULE WebSocketHub -----------------------------
(***************************************************************************)
(* The dashboard connections (ConnectionManager and the /ws endpoint of    *)
(* src/api/main.py).  The market monitor broadcasts one message at a time  *)
(* and awaits each send; in between, clients come and go and change the    *)
(* list of connections that the broadcast iterates over by position.       *)
(*                                                                         *)
(* A client is one WebSocket object: a browser that reconnects is another  *)
(* client.  Its handler is the task of the /ws endpoint, suspended in      *)
(* receive_text from accept to the disconnect.                             *)
(***************************************************************************)
EXTENDS Naturals, FiniteSets, Sequences, SequencesExt

CONSTANTS
    Clients,
    NoClient

ASSUME HubConstants == NoClient \notin Clients

VARIABLES
    conns,    \* active_connections
    peer,     \* the connection: "new", "open", "closed" by the browser, or
              \* "dropped" by the server
    handler,  \* clients whose /ws task waits in receive_text
    at,       \* position of the broadcast in conns, 0 without a broadcast
    to,       \* the connection whose send is awaited
    failed,   \* disconnected: connections whose send raised
    \* History of the current broadcast, which nothing in the code keeps.
    due,      \* clients connected when it began that have not left since
    got,      \* clients its message was sent to
    left      \* number of connections removed while it runs

broadcast == <<at, to, failed, due, got, left>>
vars == <<conns, peer, handler, broadcast>>

-----------------------------------------------------------------------------
(* Clients *)

\* ConnectionManager.connect
Connect(c) ==
    /\ peer[c] = "new"
    /\ peer' = [peer EXCEPT ![c] = "open"]
    /\ handler' = handler \cup {c}
    /\ conns' = Append(conns, c)
    /\ UNCHANGED broadcast

\* The browser goes away.
PeerCloses(c) ==
    /\ peer[c] = "open"
    /\ peer' = [peer EXCEPT ![c] = "closed"]
    /\ UNCHANGED <<conns, handler, broadcast>>

\* Mutant: only a failed send takes a connection off the list.
HandlerEndsOnly(c) ==
    /\ c \in handler /\ peer[c] = "closed"
    /\ handler' = handler \ {c}
    /\ UNCHANGED <<conns, peer, broadcast>>

\* receive_text raises WebSocketDisconnect and the endpoint calls disconnect:
\* list.remove moves the later connections up by one, or raises ValueError
\* when a broadcast has removed this one.
HandlerEnds(c) ==
    /\ c \in handler /\ peer[c] = "closed"
    /\ handler' = handler \ {c}
    /\ conns' = RemoveFirst(conns, c)
    /\ due' = due \ {c}
    /\ left' = IF at # 0 /\ Contains(conns, c) THEN left + 1 ELSE left
    /\ UNCHANGED <<peer, at, to, failed, got>>

\* The endpoint ends by another exception, the KeyError that receive_text
\* raises for a message without text: the server closes the connection, but
\* nobody takes it off the list.
HandlerFails(c) ==
    /\ c \in handler
    /\ peer' = [peer EXCEPT ![c] = "dropped"]
    /\ handler' = handler \ {c}
    /\ UNCHANGED <<conns, broadcast>>

-----------------------------------------------------------------------------
(* ConnectionManager.broadcast *)

Idle == at' = 0 /\ to' = NoClient /\ failed' = <<>>

Begin ==
    /\ at = 0 /\ conns # <<>>
    /\ at' = 1 /\ to' = Head(conns) /\ failed' = <<>>
    /\ due' = ToSet(conns) /\ got' = {} /\ left' = 0
    /\ UNCHANGED <<conns, peer, handler>>

\* Mutant: as many connections are dropped as sends failed, from the front.
DropFront(fs) ==
    conns' = SubSeq(conns, Cardinality(ToSet(fs)) + 1, Len(conns))

\* The removals after the loop: the first connection that is no longer on the
\* list raises ValueError, and the rest of them stay.
Drop(fs) ==
    LET gone == {i \in DOMAIN fs : ~Contains(conns, fs[i])}
        last == IF gone = {} THEN Len(fs) ELSE Min(gone) - 1
        after[i \in 0 .. last] ==
          IF i = 0 THEN conns ELSE RemoveFirst(after[i - 1], fs[i])
    IN  conns' = after[last]

\* Mutant: the first failure ends the loop.
SendEndsLoopAtFailure ==
    /\ at # 0
    /\ \E ok \in IF peer[to] = "open" THEN {TRUE} ELSE BOOLEAN :
         LET fs == IF ok THEN failed ELSE Append(failed, to)
         IN  /\ got' = IF ok THEN got \cup {to} ELSE got
             /\ IF ok /\ at < Len(conns)
                  THEN /\ at' = at + 1 /\ to' = conns[at + 1] /\ failed' = fs
                       /\ UNCHANGED conns
                  ELSE Idle /\ Drop(fs)
    /\ due' = {c \in due : peer[c] = "open"}
    /\ UNCHANGED <<peer, handler, left>>

\* The awaited send returns or raises; the loop goes on at the next position
\* of the list as it is now, or ends and drops the connections that failed.
SendEnds ==
    /\ at # 0
    /\ \E ok \in IF peer[to] = "open" THEN {TRUE} ELSE BOOLEAN :
         LET fs == IF ok THEN failed ELSE Append(failed, to)
         IN  /\ got' = IF ok THEN got \cup {to} ELSE got
             /\ IF at < Len(conns)
                  THEN /\ at' = at + 1 /\ to' = conns[at + 1] /\ failed' = fs
                       /\ UNCHANGED conns
                  ELSE Idle /\ Drop(fs)
    /\ due' = {c \in due : peer[c] = "open"}
    /\ UNCHANGED <<peer, handler, left>>

\* The loop of the monitor is cancelled while it awaits a send.
Cancelled ==
    /\ at # 0
    /\ Idle
    /\ due' = {} /\ got' = {} /\ left' = 0
    /\ UNCHANGED <<conns, peer, handler>>

-----------------------------------------------------------------------------
Init ==
    /\ conns = <<>>
    /\ peer = [c \in Clients |-> "new"]
    /\ handler = {}
    /\ at = 0 /\ to = NoClient /\ failed = <<>>
    /\ due = {} /\ got = {} /\ left = 0

Client == \E c \in Clients :
            Connect(c) \/ PeerCloses(c) \/ HandlerEnds(c) \/ HandlerFails(c)

Next == Client \/ Begin \/ SendEnds \/ Cancelled

Spec == Init /\ [][Next]_vars

\* The server notices that a browser is gone, and a send ends.  (HandlerFails
\* may come first, and no fairness makes anybody send to what it leaves.)
Fairness == WF_vars(SendEnds) /\ \A c \in Clients : WF_vars(HandlerEnds(c))

FairSpec == Spec /\ Fairness

-----------------------------------------------------------------------------
(* Properties *)

\* However broadcasts and departures interleave, a browser that is connected
\* stays on the list, and once: only dead connections are dropped.
OpenClientsAreListed ==
    /\ IsInjective(conns)
    /\ \A c \in Clients : peer[c] = "open" => Contains(conns, c)

\* The step that ends the loop of a broadcast, not a cancellation.
Ends == at # 0 /\ at' = 0 /\ SendEnds

\* Each connection that leaves during a broadcast costs at most one of the
\* clients that stay its message; when nobody leaves nobody misses it.
EachDepartureCostsOneAtMost ==
    [][Ends => Cardinality(due' \ got') <= left]_vars

\* A connection whose browser is gone does not stay on the list for ever,
\* although a broadcast that finds a connection missing gives up its cleaning;
\* only one whose handler fails may, as long as no send to it does.
DeadConnectionsLeave ==
    \A c \in Clients :
      peer[c] = "closed" ~> ~Contains(conns, c) \/ peer[c] = "dropped"
=============================================================================
