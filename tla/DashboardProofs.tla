---------------------------- MODULE DashboardProofs ----------------------------
(***************************************************************************)
(* What holds of the hub and of a dashboard beside it for any number of    *)
(* sockets and of other clients: the dashboard keeps one line, no          *)
(* connected client falls off the list while broadcasts and departures     *)
(* change it, and a departure costs at most one client its message.        *)
(***************************************************************************)
EXTENDS Dashboard, FiniteSetTheorems, SequenceTheorems, WellFoundedInduction, TLAPS

Up(c) == c \in dialing \/ peer[c] = "open"

LineTypeOK ==
    /\ mounted \in BOOLEAN
    /\ peer \in [Clients -> {"new", "open", "closed", "dropped"}]
    /\ dialing \subseteq Sockets
    /\ closing \subseteq Sockets
    /\ live \subseteq Sockets
    /\ timers \in {0, 1}

\* A socket dials, is open, or closes.
SocketStages == /\ \A c \in dialing : peer[c] = "new"
                /\ \A c \in closing : peer[c] = "closed"

\* The sockets that would reconnect are those that are up or whose loss the
\* effect is about to learn of.
LiveAreHandled == /\ \A c \in Sockets : Up(c) => c \in live
                  /\ \A c \in live : Up(c) \/ c \in closing

\* At most the last socket would reconnect.  A mounted effect that has none
\* has a timer, and only then; an effect that was cleaned up has neither.
OneHandler == /\ live \subseteq {wsRef}
              /\ mounted => wsRef \in Sockets
              /\ IF mounted THEN live = {} <=> timers = 1
                            ELSE live = {} /\ timers = 0

LineInv == LineTypeOK /\ SocketStages /\ LiveAreHandled /\ OneHandler

-----------------------------------------------------------------------------
\* Initially nothing is mounted.
LEMMA LineInit == DashboardInit => LineInv
BY DashboardConstants
DEF DashboardInit, Init, LineInv, LineTypeOK, SocketStages, LiveAreHandled,
    OneHandler, Up

\* A new socket, when no other one is handled: at most one timer was pending,
\* and it is the one that fired.
LEMMA DialStep ==
    ASSUME LineInv, Dial, live = {}, mounted', timers' = 0,
           UNCHANGED <<peer, closing>>
    PROVE  LineInv'
<1>. USE DashboardConstants DEF LineInv, LineTypeOK, SocketStages
<1>1. PICK c \in Sockets : /\ peer[c] = "new" /\ wsRef' = c
                           /\ dialing' = dialing \cup {c}
                           /\ live' = live \cup {c}
  BY DEF Dial
<1>2. LineTypeOK' /\ SocketStages'
  BY <1>1
<1>3. live' = {c} /\ Up(c)'
  BY <1>1 DEF Up
<1>4. LiveAreHandled'
  BY <1>1, <1>3 DEF LiveAreHandled, Up
<1>5. OneHandler'
  BY <1>1, <1>3 DEF OneHandler
<1>. QED
  BY <1>2, <1>4, <1>5

\* The browser's steps keep the invariant.
LEMMA BrowserStep ==
    ASSUME LineInv, Browser
    PROVE  LineInv'
<1>. USE DashboardConstants DEF LineInv, LineTypeOK, SocketStages
<1>1. CASE Mount
  <2>1. live = {} /\ timers = 0
    BY <1>1 DEF Mount, OneHandler
  <2>. QED
    BY <1>1, <2>1, DialStep DEF Mount, vars
<1>2. CASE Reconnect
  <2>1. timers = 1 /\ mounted /\ live = {}
    BY <1>2 DEF Reconnect, OneHandler
  <2>. QED
    BY <1>2, <2>1, DialStep DEF Reconnect, vars
<1>3. CASE Unmount
  <2>1. LineTypeOK' /\ SocketStages'
    BY <1>3 DEF Unmount, OneHandler
  <2>2. \A c \in Sockets : ~Up(c)'
    <3>1. \A c \in Sockets : Up(c) => c = wsRef
      BY DEF LiveAreHandled, OneHandler
    <3>2. CASE wsRef \in dialing \/ peer[wsRef] = "open"
      <4>1. /\ peer' = [peer EXCEPT ![wsRef] = "closed"]
            /\ dialing' = dialing \ {wsRef}
        BY <1>3, <3>2 DEF Unmount
      <4>. QED
        BY <3>1, <4>1 DEF Up
    <3>3. CASE ~(wsRef \in dialing \/ peer[wsRef] = "open")
      BY <1>3, <3>1, <3>3 DEF Unmount, Up
    <3>. QED
      BY <3>2, <3>3
  <2>3. LiveAreHandled' /\ OneHandler'
    BY <1>3, <2>2 DEF Unmount, LiveAreHandled, OneHandler
  <2>. QED
    BY <2>1, <2>3
<1>4. ASSUME NEW c \in Sockets, Accept(c)
      PROVE  LineInv'
  <2>1. /\ peer' = [peer EXCEPT ![c] = "open"]
        /\ dialing' = dialing \ {c} /\ c \in dialing
        /\ UNCHANGED <<mounted, wsRef, closing, live, timers>>
    BY <1>4 DEF Accept, Connect
  <2>. QED
    BY <2>1 DEF LiveAreHandled, OneHandler, Up
<1>5. ASSUME NEW c \in Sockets, DialFails(c) \/ Lost(c)
      PROVE  LineInv'
  <2>1. /\ peer' = [peer EXCEPT ![c] = "closed"]
        /\ dialing' = dialing \ {c} /\ closing' = closing \cup {c} /\ Up(c)
        /\ UNCHANGED <<mounted, wsRef, live, timers>>
    BY <1>5 DEF DialFails, Lost, PeerCloses, Up
  <2>. QED
    BY <2>1 DEF LiveAreHandled, OneHandler, Up
<1>6. ASSUME NEW c \in Sockets, OnClose(c)
      PROVE  LineInv'
  <2>1. /\ c \in closing /\ closing' = closing \ {c} /\ live' = live \ {c}
        /\ timers' = IF c \in live THEN timers + 1 ELSE timers
        /\ UNCHANGED <<peer, mounted, wsRef, dialing>>
    BY <1>6 DEF OnClose, vars
  <2>2. ~Up(c)
    BY <2>1 DEF Up
  <2>3. SocketStages' /\ LiveAreHandled'
    BY <2>1, <2>2 DEF LiveAreHandled, Up
  <2>4. CASE c \in live
    <3>1. timers = 0 /\ live = {c} /\ mounted
      BY <2>4 DEF OneHandler
    <3>. QED
      BY <2>1, <2>3, <2>4, <3>1 DEF OneHandler
  <2>5. CASE c \notin live
    BY <2>1, <2>3, <2>5 DEF OneHandler
  <2>. QED
    BY <2>4, <2>5
<1>. QED
  BY <1>1, <1>2, <1>3, <1>4, <1>5, <1>6 DEF Browser

\* Neither other clients nor the server touch the dashboard's sockets.
LEMMA ElsewhereStep ==
    ASSUME LineInv, Others \/ Server, UNCHANGED dashboard
    PROVE  LineInv'
<1>. USE DashboardConstants DEF LineInv, LineTypeOK
<1>1. /\ peer' \in [Clients -> {"new", "open", "closed", "dropped"}]
      /\ \A c \in Sockets : peer'[c] = peer[c]
  <2>1. CASE Others
    BY <2>1 DEF Others, Connect, PeerCloses
  <2>2. CASE Server
    BY <2>2 DEF Server, Begin, SendEnds, Cancelled, HandlerEnds, HandlerFails
  <2>. QED
    BY <2>1, <2>2
<1>2. UNCHANGED <<mounted, wsRef, dialing, closing, live, timers>>
  BY DEF dashboard
<1>3. \A c \in Sockets : Up(c)' <=> Up(c)
  BY <1>1, <1>2 DEF Up
<1>. QED
  BY <1>1, <1>2, <1>3 DEF SocketStages, LiveAreHandled, OneHandler

\* The invariant gives the property.
LEMMA LineInvImpliesOneLine == LineInv => OneLine
<1>. DEFINE up == {c \in Sockets : Up(c)}
            lost == closing \cap live
<1>. SUFFICES ASSUME LineInv
              PROVE  Cardinality(up) + Cardinality(lost) + timers
                       = IF mounted THEN 1 ELSE 0
  BY DEF OneLine, Up
<1>1. up \cup lost = live /\ up \cap lost = {}
  BY DEF LineInv, LineTypeOK, SocketStages, LiveAreHandled, Up
<1>2. Cardinality({}) = 0 /\ Cardinality({wsRef}) = 1
  BY FS_EmptySet, FS_Singleton
<1>. HIDE DEF up, lost
<1>3. CASE live = {}
  <2>1. up = {} /\ lost = {}
    BY <1>1, <1>3
  <2>. QED
    BY <1>2, <1>3, <2>1 DEF LineInv, LineTypeOK, OneHandler
<1>4. CASE live = {wsRef}
  <2>1. \/ up = {wsRef} /\ lost = {}
        \/ up = {} /\ lost = {wsRef}
    BY <1>1, <1>4
  <2>2. mounted /\ timers = 0
    BY <1>4 DEF LineInv, LineTypeOK, OneHandler
  <2>. QED
    BY <1>2, <2>1, <2>2
<1>. QED
  BY <1>3, <1>4 DEF LineInv, OneHandler

-----------------------------------------------------------------------------
\* A mounted dashboard has one line to the hub or is about to get one, and an
\* unmounted one none, however mounts, losses and late events interleave.
THEOREM DashboardHasOneLine == DashboardSpec => []OneLine
<1>1. LineInv /\ [DashboardNext]_allVars => LineInv'
  <2>1. ASSUME LineInv, UNCHANGED allVars
        PROVE  LineInv'
    BY <2>1 DEF allVars, vars, dashboard, LineInv, LineTypeOK, SocketStages,
                LiveAreHandled, OneHandler, Up
  <2>. QED
    BY <2>1, BrowserStep, ElsewhereStep DEF DashboardNext
<1>. QED
  BY LineInit, <1>1, LineInvImpliesOneLine, PTL DEF DashboardSpec

-----------------------------------------------------------------------------
(* The list of connections *)

\* Induction up to n, by a smallest counterexample: G is a set and not a
\* predicate, so that the provers can instantiate it.
LEMMA UpTo ==
    ASSUME NEW n \in Nat, NEW G, 0 \in G,
           \A i \in 1 .. n : i - 1 \in G => i \in G
    PROVE  0 .. n \subseteq G
<1>. DEFINE C == {i \in 0 .. n : i \notin G}
            T == {t \in SUBSET (1 .. n) : \E i \in C : t = 1 .. i}
<1>. SUFFICES ASSUME C # {} PROVE FALSE
  OBVIOUS
<1>1. T # {} /\ T \in SUBSET SUBSET (1 .. n)
  <2>1. PICK i \in 0 .. n : i \notin G
    OBVIOUS
  <2>2. 1 .. i \in T
    BY <2>1
  <2>. QED
    BY <2>2
<1>2. PICK t \in T : \A u \in T : <<u, t>> \notin StrictSubsetOrdering(1 .. n)
  <2>. HIDE DEF T
  <2>1. IsWellFoundedOn(StrictSubsetOrdering(1 .. n), SUBSET (1 .. n))
    <3>1. IsFiniteSet(1 .. n)
      BY FS_Interval
    <3>. QED
      BY <3>1, FS_StrictSubsetOrderingWellFounded, FS_FiniteSubsetsOfFinite
  <2>. QED
    BY <1>1, <2>1, WFMin
<1>3. PICK i \in C : t = 1 .. i
  BY <1>2
<1>4. i \in 1 .. n /\ i - 1 \in C
  BY <1>3
<1>5. 1 .. (i - 1) \in T /\ <<1 .. (i - 1), t>> \in StrictSubsetOrdering(1 .. n)
  <2>1. i \in t /\ i \notin 1 .. (i - 1) /\ 1 .. (i - 1) \subseteq t
    BY <1>3, <1>4
  <2>2. 1 .. (i - 1) \in T
    BY <1>4
  <2>. QED
    BY <1>2, <2>1, <2>2 DEF StrictSubsetOrdering
<1>. QED
  BY <1>2, <1>5

\* g is what step computes, up to n, from what it computed before.
Iterates(g, n, base, step) ==
    g = [i \in 0 .. n |-> IF i = 0 THEN base ELSE step[<<i, g[i - 1]>>]]

\* Every step can be iterated.
LEMMA IterationExists ==
    ASSUME NEW n \in Nat, NEW base, NEW step
    PROVE  \E g : Iterates(g, n, base, step)
<1>. DEFINE G == {m \in 0 .. n : \E g : Iterates(g, m, base, step)}
<1>1. 0 \in G
  <2>1. Iterates([i \in 0 .. 0 |-> base], 0, base, step)
    BY DEF Iterates
  <2>. QED
    BY <2>1
<1>2. ASSUME NEW m \in 1 .. n, m - 1 \in G
      PROVE  m \in G
  <2>1. PICK g : Iterates(g, m - 1, base, step)
    BY <1>2
  <2>. DEFINE h == [i \in 0 .. m |-> IF i = m THEN step[<<m, g[m - 1]>>] ELSE g[i]]
  <2>2. ASSUME NEW i \in 0 .. m
        PROVE  h[i] = IF i = 0 THEN base ELSE step[<<i, h[i - 1]>>]
    <3>1. CASE i = m
      BY <3>1
    <3>2. CASE i # m
      <4>1. i \in 0 .. (m - 1) /\ (i # 0 => i - 1 \in 0 .. m /\ i - 1 # m)
        BY <3>2
      <4>2. g[i] = IF i = 0 THEN base ELSE step[<<i, g[i - 1]>>]
        BY <2>1, <4>1 DEF Iterates
      <4>3. h[i] = g[i] /\ (i # 0 => h[i - 1] = g[i - 1])
        BY <3>2, <4>1
      <4>. HIDE DEF h
      <4>. QED
        BY <4>2, <4>3
    <3>. QED
      BY <3>1, <3>2
  <2>3. Iterates(h, m, base, step)
    <3>1. h = [i \in 0 .. m |-> h[i]]
      OBVIOUS
    <3>. HIDE DEF h
    <3>. QED
      BY <2>2, <3>1 DEF Iterates
  <2>. QED
    BY <2>3
<1>3. n \in G
  <2>. HIDE DEF G
  <2>. QED
    BY <1>1, <1>2, UpTo
<1>. QED
  BY <1>3

\* A sequence without its element at i.
LEMMA RemoveAtProperties ==
    ASSUME NEW S, NEW s \in Seq(S), NEW i \in 1 .. Len(s)
    PROVE  /\ RemoveAt(s, i) \in Seq(S)
           /\ Len(RemoveAt(s, i)) = Len(s) - 1
           /\ \A j \in 1 .. Len(s) - 1 :
                RemoveAt(s, i)[j] = IF j < i THEN s[j] ELSE s[j + 1]
<1>. DEFINE front == SubSeq(s, 1, i - 1)  back == SubSeq(s, i + 1, Len(s))
<1>1. Len(s) \in Nat /\ \A j \in 1 .. Len(s) : s[j] \in S
  BY ElementOfSeq
<1>2. /\ front \in Seq(S) /\ Len(front) = i - 1
      /\ \A j \in 1 .. i - 1 : front[j] = s[j]
  BY <1>1, SubSeqProperties
<1>3. /\ back \in Seq(S) /\ Len(back) = Len(s) - i
      /\ \A j \in 1 .. Len(s) - i : back[j] = s[i + j]
  <2>1. PICK m \in Int : m = i + 1
    OBVIOUS
  <2>2. \A j \in m .. Len(s) : s[j] \in S
    BY <1>1, <2>1
  <2>3. /\ SubSeq(s, m, Len(s)) \in Seq(S)
        /\ Len(SubSeq(s, m, Len(s))) = IF m <= Len(s) THEN Len(s) - m + 1 ELSE 0
        /\ \A j \in 1 .. Len(s) - m + 1 : SubSeq(s, m, Len(s))[j] = s[m + j - 1]
    BY <1>1, <2>2, SubSeqProperties
  <2>4. back = SubSeq(s, m, Len(s))
    BY <2>1
  <2>. HIDE DEF back
  <2>5. ASSUME NEW j \in 1 .. Len(s) - i
        PROVE  back[j] = s[i + j]
    <3>1. j \in 1 .. Len(s) - m + 1 /\ m + j - 1 = i + j
      BY <1>1, <2>1
    <3>. QED
      BY <2>3, <2>4, <3>1
  <2>. QED
    BY <1>1, <2>1, <2>3, <2>4, <2>5
<1>. HIDE DEF front, back
<1>4. /\ front \o back \in Seq(S) /\ Len(front \o back) = Len(s) - 1
      /\ \A j \in 1 .. Len(s) - 1 :
           (front \o back)[j] = IF j <= i - 1 THEN front[j] ELSE back[j - (i - 1)]
  <2>1. /\ front \o back \in Seq(S)
        /\ Len(front \o back) = Len(front) + Len(back)
        /\ \A j \in 1 .. Len(front) + Len(back) :
             (front \o back)[j] = IF j <= Len(front) THEN front[j]
                                                   ELSE back[j - Len(front)]
    BY <1>2, <1>3, ConcatProperties
  <2>2. Len(front) + Len(back) = Len(s) - 1 /\ Len(front) = i - 1
    BY <1>1, <1>2, <1>3
  <2>. QED
    BY <2>1, <2>2
<1>. DEFINE both == front \o back
<1>5. ASSUME NEW j \in 1 .. Len(s) - 1
      PROVE  both[j] = IF j < i THEN s[j] ELSE s[j + 1]
  <2>1. ASSUME j < i PROVE both[j] = s[j]
    BY <1>1, <1>2, <1>4, <2>1
  <2>2. ASSUME j >= i PROVE both[j] = s[j + 1]
    <3>1. PICK k \in 1 .. Len(s) - i : k = j - (i - 1)
      BY <1>1, <2>2
    <3>2. i + k = j + 1
      BY <1>1, <3>1
    <3>3. back[k] = s[j + 1]
      BY <1>3, <3>2
    <3>4. both[j] = back[k]
      BY <1>1, <1>4, <2>2, <3>1
    <3>. QED
      BY <1>1, <2>2, <3>3, <3>4
  <2>3. j < i \/ j >= i
    BY <1>1
  <2>. HIDE DEF both
  <2>. QED
    BY <2>1, <2>2, <2>3, Zenon
<1>6. RemoveAt(s, i) = front \o back
  BY DEF RemoveAt, front, back
<1>. QED
  BY <1>4, <1>5, <1>6

\* Removing x from a list of different elements keeps it one, and every other
\* element on it, in its place or one further to the front.
LEMMA RemoveKeepsOthers ==
    ASSUME NEW S, NEW s \in Seq(S), IsInjective(s), NEW x
    PROVE  /\ RemoveFirst(s, x) \in Seq(S)
           /\ IsInjective(RemoveFirst(s, x))
           /\ \A y : Contains(s, y) /\ y # x => Contains(RemoveFirst(s, x), y)
           /\ \A j \in 1 .. Len(RemoveFirst(s, x)) :
                \E k \in 1 .. Len(s) : k <= j + 1 /\ RemoveFirst(s, x)[j] = s[k]
           /\ ~Contains(s, x) => RemoveFirst(s, x) = s
<1>0. Len(s) \in Nat /\ DOMAIN s = 1 .. Len(s)
  OBVIOUS
<1>1. CASE ~\E i \in 1 .. Len(s) : s[i] = x
  <2>1. RemoveFirst(s, x) = s
    BY <1>1, Zenon DEF RemoveFirst
  <2>2. \A j \in 1 .. Len(s) : j <= j + 1
    BY <1>0
  <2>. QED
    BY <2>1, <2>2
<1>2. ASSUME NEW i \in 1 .. Len(s), s[i] = x
      PROVE  /\ RemoveFirst(s, x) \in Seq(S)
             /\ IsInjective(RemoveFirst(s, x))
             /\ \A y : Contains(s, y) /\ y # x => Contains(RemoveFirst(s, x), y)
             /\ \A j \in 1 .. Len(RemoveFirst(s, x)) :
                  \E k \in 1 .. Len(s) : k <= j + 1 /\ RemoveFirst(s, x)[j] = s[k]
  <2>. DEFINE r == RemoveAt(s, i)
  <2>1. RemoveFirst(s, x) = r
    <3>1. {j \in 1 .. Len(s) : s[j] = x} = {i}
      BY <1>0, <1>2 DEF IsInjective
    <3>2. Min({i}) = i
      BY DEF Min
    <3>3. SelectInSeq(s, LAMBDA v : v = x) = i
      BY <3>1, <3>2 DEF SelectInSeq
    <3>4. RemoveFirst(s, x) = RemoveAt(s, SelectInSeq(s, LAMBDA v : v = x))
      BY <1>2 DEF RemoveFirst
    <3>. QED
      BY <3>3, <3>4
  <2>2. /\ r \in Seq(S) /\ Len(r) = Len(s) - 1
        /\ \A j \in 1 .. Len(s) - 1 : r[j] = IF j < i THEN s[j] ELSE s[j + 1]
    BY RemoveAtProperties
  <2>. HIDE DEF r
  <2>3. DOMAIN r = 1 .. Len(s) - 1
    BY <2>2
  <2>4. ASSUME NEW j \in 1 .. Len(s) - 1
        PROVE  \E k \in 1 .. Len(s) \ {i} :
                 r[j] = s[k] /\ (j < i => k = j) /\ (j >= i => k = j + 1)
    BY <1>0, <2>2
  <2>5. IsInjective(r)
    BY <1>0, <2>3, <2>4 DEF IsInjective
  <2>6. ASSUME NEW k \in 1 .. Len(s), k # i
        PROVE  \E j \in 1 .. Len(r) : r[j] = s[k]
    <3>1. CASE k < i
      BY <1>0, <2>2, <3>1
    <3>2. CASE k > i
      <4>1. k - 1 \in 1 .. Len(s) - 1 /\ ~(k - 1 < i) /\ (k - 1) + 1 = k
        BY <1>0, <3>2
      <4>. QED
        BY <2>2, <4>1
    <3>. QED
      BY <2>6, <1>0, <3>1, <3>2
  <2>7. \A y : Contains(s, y) /\ y # x => Contains(r, y)
    BY <1>2, <2>6 DEF Contains
  <2>8. \A j \in 1 .. Len(r) : \E k \in 1 .. Len(s) : k <= j + 1 /\ r[j] = s[k]
    BY <1>0, <2>2, <2>4
  <2>. QED
    BY <2>1, <2>2, <2>5, <2>7, <2>8
<1>. QED
  BY <1>1, <1>2 DEF Contains

\* A set of numbers up to n has a smallest one.
LEMMA MinOfSome ==
    ASSUME NEW n \in Nat, NEW S, S \subseteq 1 .. n, S # {}
    PROVE  Min(S) \in S
<1>. SUFFICES ASSUME \A x \in S : \E y \in S : y < x PROVE FALSE
  <2>1. ASSUME NEW x \in S, \A y \in S : ~(y < x)
        PROVE  Min(S) \in S
    <3>1. \A y \in S : x <= y
      BY <2>1
    <3>. QED
      BY <3>1 DEF Min
  <2>. QED
    BY <2>1
<1>. DEFINE G == {k \in 0 .. n : \A y \in S : k < y}
<1>1. 0 \in G
  OBVIOUS
<1>2. ASSUME NEW i \in 1 .. n, i - 1 \in G
      PROVE  i \in G
  <2>1. \A y \in S : i <= y /\ y \in Int
    BY <1>2
  <2>2. i \notin S
    <3>1. ASSUME i \in S PROVE FALSE
      <4>1. PICK y \in S : y < i
        BY <3>1
      <4>. QED
        BY <2>1, <4>1
    <3>. QED
      BY <3>1
  <2>3. ASSUME NEW y \in S PROVE i < y
    <3>1. i # y
      BY <2>2
    <3>. QED
      BY <2>1, <3>1
  <2>. QED
    BY <2>3
<1>3. n \in G
  <2>. HIDE DEF G
  <2>. QED
    BY <1>1, <1>2, UpTo
<1>4. PICK y \in S : TRUE
  OBVIOUS
<1>5. n < y /\ y \in 1 .. n
  BY <1>3, <1>4
<1>. QED
  BY <1>5

\* The removals after a broadcast keep the others.
LEMMA DropKeepsOthers ==
    ASSUME conns \in Seq(Clients), IsInjective(conns), NEW fs \in Seq(Clients), Drop(fs)
    PROVE  /\ conns' \in Seq(Clients) /\ IsInjective(conns')
           /\ \A c : Contains(conns, c) /\ (\A i \in 1 .. Len(fs) : fs[i] # c)
                       => Contains(conns', c)
           /\ \A j \in 1 .. Len(conns') : \E k \in 1 .. Len(conns) : conns'[j] = conns[k]
<1>. DEFINE gone == {i \in DOMAIN fs : ~Contains(conns, fs[i])}
            last == IF gone = {} THEN Len(fs) ELSE Min(gone) - 1
            after == CHOOSE g : g = [i \in 0 .. last |->
                       IF i = 0 THEN conns ELSE RemoveFirst(g[i - 1], fs[i])]
            Kept(s) == /\ s \in Seq(Clients) /\ IsInjective(s)
                       /\ \A c : Contains(conns, c) /\ (\A i \in 1 .. Len(fs) : fs[i] # c)
                                   => Contains(s, c)
                       /\ \A j \in 1 .. Len(s) : \E k \in 1 .. Len(conns) : s[j] = conns[k]
<1>1. conns' = after[last]
  BY DEF Drop
<1>2. last \in Nat /\ last <= Len(fs)
  <2>1. Len(fs) \in Nat /\ gone \subseteq 1 .. Len(fs)
    OBVIOUS
  <2>2. CASE gone # {}
    <3>1. Min(gone) \in 1 .. Len(fs)
      BY <2>1, <2>2, MinOfSome
    <3>. HIDE DEF gone
    <3>. QED
      BY <2>1, <2>2, <3>1
  <2>. QED
    BY <2>1, <2>2
<1>. HIDE DEF last, gone
<1>3. ASSUME NEW g, g[0] = conns,
             \A i \in 1 .. last : g[i - 1] \in Seq(Clients)
                                    => g[i] = RemoveFirst(g[i - 1], fs[i])
      PROVE  \A i \in 0 .. last : Kept(g[i])
  <2>. DEFINE G == {i \in 0 .. last : Kept(g[i])}
  <2>1. 0 \in G
    BY <1>2, <1>3
  <2>2. ASSUME NEW i \in 1 .. last, i - 1 \in G
        PROVE  i \in G
    <3>1. Kept(g[i - 1]) /\ i \in 1 .. Len(fs)
      BY <1>2, <2>2
    <3>2. g[i] = RemoveFirst(g[i - 1], fs[i])
      BY <1>3, <3>1
    <3>. DEFINE s == g[i - 1]  r == RemoveFirst(s, fs[i])
    <3>3. /\ r \in Seq(Clients) /\ IsInjective(r)
          /\ \A y : Contains(s, y) /\ y # fs[i] => Contains(r, y)
          /\ \A j \in 1 .. Len(r) : \E k \in 1 .. Len(s) : r[j] = s[k]
      <4>1. s \in Seq(Clients) /\ IsInjective(s)
        BY <3>1
      <4>. HIDE DEF s
      <4>. QED
        BY <4>1, RemoveKeepsOthers
    <3>4. Kept(s)
      BY <3>1
    <3>. HIDE DEF s, r
    <3>5. Kept(r)
      <4>1. \A c : Contains(conns, c) /\ (\A j \in 1 .. Len(fs) : fs[j] # c)
                     => Contains(r, c)
        BY <3>1, <3>3, <3>4, Zenon
      <4>2. \A j \in 1 .. Len(r) : \E k \in 1 .. Len(conns) : r[j] = conns[k]
        BY <3>3, <3>4, Zenon
      <4>. QED
        BY <3>3, <4>1, <4>2, Zenon
    <3>6. Kept(g[i])
      BY <3>2, <3>5 DEF r, s
    <3>. QED
      BY <3>6
  <2>3. 0 .. last \subseteq G
    <3>. HIDE DEF G
    <3>. QED
      BY <1>2, <2>1, <2>2, UpTo
  <2>. QED
    BY <2>3
<1>4. \E g : g = [i \in 0 .. last |-> IF i = 0 THEN conns ELSE RemoveFirst(g[i - 1], fs[i])]
  <2>. DEFINE step == [p \in (1 .. last) \X Seq(Clients) |-> RemoveFirst(p[2], fs[p[1]])]
  <2>1. PICK g : Iterates(g, last, conns, step)
    <3>. HIDE DEF step
    <3>. QED
      BY <1>2, IterationExists
  <2>2. g[0] = conns
    BY <1>2, <2>1 DEF Iterates
  <2>3. ASSUME NEW i \in 1 .. last, g[i - 1] \in Seq(Clients)
        PROVE  g[i] = RemoveFirst(g[i - 1], fs[i])
    <3>1. g[i] = step[<<i, g[i - 1]>>]
      <4>1. i \in 0 .. last /\ i # 0
        BY <1>2
      <4>. HIDE DEF step
      <4>. QED
        BY <2>1, <4>1 DEF Iterates
    <3>2. <<i, g[i - 1]>> \in (1 .. last) \X Seq(Clients)
      BY <2>3
    <3>. QED
      BY <3>1, <3>2
  <2>4. \A i \in 0 .. last : g[i] \in Seq(Clients)
    <3>1. \A i \in 0 .. last : Kept(g[i])
      <4>. HIDE DEF Kept
      <4>. QED
        BY <1>3, <2>2, <2>3
    <3>. QED
      BY <3>1
  <2>5. ASSUME NEW i \in 0 .. last
        PROVE  g[i] = IF i = 0 THEN conns ELSE RemoveFirst(g[i - 1], fs[i])
    <3>1. CASE i = 0
      BY <2>2, <3>1
    <3>2. CASE i # 0
      <4>1. i \in 1 .. last /\ i - 1 \in 0 .. last
        BY <1>2, <3>2
      <4>. QED
        BY <2>3, <2>4, <3>2, <4>1
    <3>. QED
      BY <3>1, <3>2
  <2>6. g = [i \in 0 .. last |-> g[i]]
    <3>. HIDE DEF step
    <3>. QED
      BY <2>1 DEF Iterates
  <2>. HIDE DEF step
  <2>. QED
    BY <2>5, <2>6
<1>5. after = [i \in 0 .. last |-> IF i = 0 THEN conns ELSE RemoveFirst(after[i - 1], fs[i])]
  BY <1>4
<1>. HIDE DEF after
<1>6. after[0] = conns /\ \A i \in 1 .. last : after[i] = RemoveFirst(after[i - 1], fs[i])
  BY <1>2, <1>5
<1>7. Kept(after[last])
  <2>. HIDE DEF Kept
  <2>. QED
    BY <1>2, <1>3, <1>6
<1>. QED
  BY <1>1, <1>7

-----------------------------------------------------------------------------
(* Who stays on the list *)

\* The list holds different clients, all of them connected once, and every
\* one whose browser is still there; only sends to dead ones failed.
HubInv ==
    /\ peer \in [Clients -> {"new", "open", "closed", "dropped"}]
    /\ conns \in Seq(Clients) /\ IsInjective(conns)
    /\ \A c \in Clients : peer[c] = "open" => Contains(conns, c)
    /\ \A i \in 1 .. Len(conns) : peer[conns[i]] # "new"
    /\ failed \in Seq(Clients)
    /\ \A i \in 1 .. Len(failed) : peer[failed[i]] \in {"closed", "dropped"}
    /\ at \in Nat
    /\ at # 0 => to \in Clients /\ peer[to] # "new"

\* A new connection goes to the end of the list.
LEMMA ConnectHub ==
    ASSUME HubInv, NEW c \in Clients, Connect(c)
    PROVE  HubInv'
<1>. USE DEF HubInv
<1>1. /\ peer[c] = "new" /\ peer' = [peer EXCEPT ![c] = "open"]
      /\ conns' = Append(conns, c) /\ UNCHANGED <<failed, at, to>>
  BY DEF Connect, broadcast
<1>2. /\ conns' \in Seq(Clients) /\ Len(conns') = Len(conns) + 1 /\ Len(conns) \in Nat
      /\ \A i \in 1 .. Len(conns) : conns'[i] = conns[i]
      /\ conns'[Len(conns) + 1] = c
  BY <1>1
<1>3. \A i \in 1 .. Len(conns) : conns[i] # c
  BY <1>1
<1>4. IsInjective(conns')
  <2>1. ASSUME NEW i \in 1 .. Len(conns'), NEW j \in 1 .. Len(conns'), conns'[i] = conns'[j]
        PROVE  i = j
    <3>1. \A k \in 1 .. Len(conns') : k \in 1 .. Len(conns) \/ k = Len(conns) + 1
      BY <1>2
    <3>. QED
      BY <1>2, <1>3, <2>1, <3>1 DEF IsInjective
  <2>2. DOMAIN conns' = 1 .. Len(conns')
    BY <1>2
  <2>. QED
    BY <2>1, <2>2 DEF IsInjective
<1>5. \A d \in Clients : peer'[d] = "open" => Contains(conns', d)
  <2>1. Contains(conns', c)
    BY <1>2 DEF Contains
  <2>2. \A d : Contains(conns, d) => Contains(conns', d)
    BY <1>2 DEF Contains
  <2>. QED
    BY <1>1, <2>1, <2>2
<1>6. \A i \in 1 .. Len(conns') : peer'[conns'[i]] # "new"
  <2>1. \A i \in 1 .. Len(conns') : i \in 1 .. Len(conns) \/ conns'[i] = c
    BY <1>2
  <2>2. \A i \in 1 .. Len(conns) : conns[i] \in Clients
    OBVIOUS
  <2>. QED
    BY <1>1, <1>2, <1>3, <2>1, <2>2
<1>7. \A i \in 1 .. Len(failed) : failed[i] \in Clients /\ failed[i] # c
  BY <1>1
<1>. QED
  BY <1>1, <1>2, <1>4, <1>5, <1>6, <1>7

\* A browser that goes away or never gets through leaves the list alone, and so
\* does a handler that fails.
LEMMA ClosedHub ==
    ASSUME HubInv, NEW c, NEW s \in {"closed", "dropped"},
           peer' = [peer EXCEPT ![c] = s],
           UNCHANGED <<conns, failed, at, to>>
    PROVE  HubInv'
<1>. USE DEF HubInv
<1>1. \A d \in Clients : peer'[d] = peer[d] \/ peer'[d] = s
  OBVIOUS
<1>2. /\ \A i \in 1 .. Len(conns) : conns[i] \in Clients
      /\ \A i \in 1 .. Len(failed) : failed[i] \in Clients
  OBVIOUS
<1>. QED
  BY <1>1, <1>2

\* The steps of the server.
LEMMA ServerHub ==
    ASSUME HubInv, \/ Begin \/ SendEnds \/ Cancelled
                   \/ \E c \in Clients : HandlerEnds(c)
    PROVE  HubInv'
<1>. USE DEF HubInv
<1>0. \A i \in 1 .. Len(conns) : conns[i] \in Clients
  OBVIOUS
<1>1. CASE Begin
  <2>1. Head(conns) = conns[1] /\ 1 \in 1 .. Len(conns)
    BY <1>1 DEF Begin
  <2>. QED
    BY <1>0, <1>1, <2>1 DEF Begin
<1>2. CASE Cancelled
  BY <1>2 DEF Cancelled, Idle
<1>3. ASSUME NEW c \in Clients, HandlerEnds(c) PROVE HubInv'
  <2>1. /\ peer[c] = "closed" /\ conns' = RemoveFirst(conns, c)
        /\ UNCHANGED <<peer, failed, at, to>>
    BY <1>3 DEF HandlerEnds
  <2>. DEFINE r == RemoveFirst(conns, c)
  <2>2. /\ r \in Seq(Clients) /\ IsInjective(r)
        /\ \A y : Contains(conns, y) /\ y # c => Contains(r, y)
        /\ \A j \in 1 .. Len(r) : \E k \in 1 .. Len(conns) : r[j] = conns[k]
    BY RemoveKeepsOthers
  <2>. HIDE DEF r
  <2>3. \A d \in Clients : peer[d] = "open" => Contains(r, d)
    BY <2>1, <2>2
  <2>4. \A j \in 1 .. Len(r) : peer[r[j]] # "new"
    BY <2>2
  <2>5. conns' = r
    BY <2>1 DEF r
  <2>. QED
    BY <2>1, <2>2, <2>3, <2>4, <2>5
<1>4. CASE SendEnds
  <2>1. PICK ok \in IF peer[to] = "open" THEN {TRUE} ELSE BOOLEAN :
          LET fs == IF ok THEN failed ELSE Append(failed, to)
          IN  IF at < Len(conns)
                THEN /\ at' = at + 1 /\ to' = conns[at + 1] /\ failed' = fs
                     /\ UNCHANGED conns
                ELSE Idle /\ Drop(fs)
    BY <1>4 DEF SendEnds
  <2>. DEFINE fs == IF ok THEN failed ELSE Append(failed, to)
  <2>2. at # 0 /\ peer' = peer /\ to \in Clients
    BY <1>4 DEF SendEnds
  <2>3. fs \in Seq(Clients) /\ \A i \in 1 .. Len(fs) : peer[fs[i]] \in {"closed", "dropped"}
    <3>1. CASE ok
      BY <3>1
    <3>2. CASE ~ok
      <4>1. peer[to] \in {"closed", "dropped"}
        BY <2>2, <3>2
      <4>2. fs = Append(failed, to)
        BY <3>2
      <4>. HIDE DEF fs
      <4>3. /\ fs \in Seq(Clients) /\ Len(failed) \in Nat
            /\ \A i \in 1 .. Len(fs) : i \in 1 .. Len(failed) \/ i = Len(failed) + 1
            /\ \A i \in 1 .. Len(failed) : fs[i] = failed[i]
            /\ fs[Len(failed) + 1] = to
        BY <2>2, <4>2
      <4>. QED
        BY <4>1, <4>3
    <3>. QED
      BY <3>1, <3>2
  <2>. HIDE DEF fs
  <2>4. CASE at < Len(conns)
    <3>1. /\ at' = at + 1 /\ to' = conns[at + 1] /\ failed' = fs /\ conns' = conns
      BY <2>1, <2>4 DEF fs
    <3>2. at + 1 \in 1 .. Len(conns) /\ at + 1 \in Nat
      BY <2>4
    <3>3. conns[at + 1] \in Clients /\ peer[conns[at + 1]] # "new"
      BY <1>0, <3>2
    <3>. QED
      BY <2>2, <2>3, <3>1, <3>2, <3>3
  <2>5. CASE ~(at < Len(conns))
    <3>1. at' = 0 /\ failed' = <<>> /\ Drop(fs)
      BY <2>1, <2>5 DEF fs, Idle
    <3>2. /\ conns' \in Seq(Clients) /\ IsInjective(conns')
          /\ \A c : Contains(conns, c) /\ (\A i \in 1 .. Len(fs) : fs[i] # c)
                      => Contains(conns', c)
          /\ \A j \in 1 .. Len(conns') : \E k \in 1 .. Len(conns) : conns'[j] = conns[k]
      BY <2>3, <3>1, DropKeepsOthers
    <3>3. \A c \in Clients : peer[c] = "open" => \A i \in 1 .. Len(fs) : fs[i] # c
      BY <2>3
    <3>4. \A c \in Clients : peer'[c] = "open" => Contains(conns', c)
      BY <2>2, <3>2, <3>3, Zenon
    <3>5. \A j \in 1 .. Len(conns') : peer'[conns'[j]] # "new"
      BY <2>2, <3>2, Zenon
    <3>. QED
      BY <2>2, <3>1, <3>2, <3>4, <3>5
  <2>. QED
    BY <2>4, <2>5
<1>. QED
  BY <1>1, <1>2, <1>3, <1>4

\* The steps of the hub with its clients, and of the dashboard beside them.
LEMMA HubNext ==
    ASSUME HubInv, Next \/ DashboardNext \/ UNCHANGED vars
    PROVE  HubInv'
<1>1. ASSUME NEW c \in Clients, Connect(c) PROVE HubInv'
  BY <1>1, ConnectHub
<1>2. ASSUME NEW c \in Clients, PeerCloses(c) \/ HandlerFails(c) PROVE HubInv'
  BY <1>2, ClosedHub DEF PeerCloses, HandlerFails, broadcast
<1>3. ASSUME \/ Begin \/ SendEnds \/ Cancelled
             \/ \E c \in Clients : HandlerEnds(c)
      PROVE  HubInv'
  BY <1>3, ServerHub
<1>4. CASE UNCHANGED vars
  BY <1>4 DEF vars, broadcast, HubInv
<1>5. CASE Browser
  <2>1. CASE Mount \/ Reconnect \/ \E c \in Sockets : OnClose(c)
    BY <1>4, <2>1 DEF Mount, Reconnect, OnClose
  <2>2. CASE Unmount
    <3>1. UNCHANGED <<conns, failed, at, to>>
      BY <2>2 DEF Unmount, broadcast
    <3>2. CASE peer' = peer
      BY <3>1, <3>2 DEF HubInv
    <3>3. CASE peer' = [peer EXCEPT ![wsRef] = "closed"]
      BY <3>1, <3>3, ClosedHub
    <3>. QED
      BY <2>2, <3>2, <3>3 DEF Unmount
  <2>3. ASSUME NEW c \in Sockets, Accept(c) \/ DialFails(c) \/ Lost(c)
        PROVE  HubInv'
    <3>1. c \in Clients
      BY DashboardConstants
    <3>2. CASE DialFails(c)
      BY <3>2, ClosedHub DEF DialFails, broadcast
    <3>. QED
      BY <1>1, <1>2, <2>3, <3>1, <3>2 DEF Accept, Lost
  <2>. QED
    BY <1>5, <2>1, <2>2, <2>3 DEF Browser
<1>. QED
  BY <1>1, <1>2, <1>3, <1>4, <1>5 DEF Next, Client, DashboardNext, Others, Server

\* Initially the list is empty.
LEMMA HubInit == Init => HubInv
BY DEF Init, HubInv, IsInjective, Contains

\* However broadcasts and departures interleave, a browser that is connected
\* stays on the list of connections, and is on it once: the removals of a
\* broadcast, which lose count of who has left, only ever drop dead ones.
THEOREM ConnectedStayListed == Spec => []OpenClientsAreListed
<1>1. HubInv => OpenClientsAreListed
  BY DEF HubInv, OpenClientsAreListed
<1>. QED
  BY <1>1, HubInit, HubNext, PTL DEF Spec

\* And so it is beside a dashboard that mounts, unmounts and reconnects.
THEOREM ConnectedStayListedBesideDashboard == DashboardSpec => []OpenClientsAreListed
<1>1. HubInv => OpenClientsAreListed
  BY DEF HubInv, OpenClientsAreListed
<1>2. UNCHANGED allVars => UNCHANGED vars
  BY DEF allVars
<1>3. DashboardInit => HubInv
  BY HubInit DEF DashboardInit
<1>. QED
  BY <1>1, <1>2, <1>3, HubNext, PTL DEF DashboardSpec

-----------------------------------------------------------------------------
(* What a departure costs *)

\* Those the running broadcast has passed by: they are to get the message and
\* stand where it has been, without having been sent anything.
Passed == {c \in due \ got :
             c # to /\ \E i \in 1 .. Len(conns) : i <= at /\ conns[i] = c}

\* At most as many were passed by as left.
CostInv ==
    /\ left \in Nat
    /\ at # 0 => /\ IsFiniteSet(due)
                 /\ \A c \in due : Contains(conns, c)
                 /\ Cardinality(Passed) <= left

\* What is passed by counts, and one more adds one.
LEMMA PassedCount ==
    ASSUME NEW S, NEW T, IsFiniteSet(S), NEW x, T \subseteq S \cup {x}
    PROVE  /\ Cardinality(S) \in Nat /\ Cardinality(T) \in Nat
           /\ Cardinality(T) <= Cardinality(S) + 1
           /\ T \subseteq S => Cardinality(T) <= Cardinality(S)
<1>1. IsFiniteSet(S \cup {x}) /\ IsFiniteSet(T)
  BY FS_AddElement, FS_Subset
<1>2. Cardinality(S) \in Nat /\ Cardinality(T) \in Nat /\ Cardinality(S \cup {x}) \in Nat
  BY <1>1, FS_CardinalityType
<1>3. Cardinality(S \cup {x}) = IF x \in S THEN Cardinality(S) ELSE Cardinality(S) + 1
  BY FS_AddElement
<1>4. Cardinality(T) <= Cardinality(S \cup {x})
  BY <1>1, FS_Subset
<1>5. T \subseteq S => Cardinality(T) <= Cardinality(S)
  BY FS_Subset
<1>. QED
  BY <1>2, <1>3, <1>4, <1>5

\* Whoever a sequence without repetitions contains stands at one position.
LEMMA DueStand ==
    ASSUME HubInv, CostInv, at # 0, NEW c \in due
    PROVE  \E k \in 1 .. Len(conns) : conns[k] = c
BY DEF CostInv, Contains

\* The count of a broadcast in which no more are passed by.
LEMMA CostKept ==
    ASSUME CostInv, at # 0, left' = left, due' \subseteq due,
           \A c \in due' : Contains(conns', c), Passed' \subseteq Passed
    PROVE  CostInv'
<1>1. IsFiniteSet(due) /\ IsFiniteSet(Passed)
  BY FS_Subset DEF CostInv, Passed
<1>2. IsFiniteSet(due')
  BY <1>1, FS_Subset
<1>3. /\ Cardinality(Passed) \in Nat /\ Cardinality(Passed') \in Nat
      /\ Cardinality(Passed') <= Cardinality(Passed)
  BY <1>1, PassedCount
<1>4. left \in Nat /\ Cardinality(Passed) <= left
  BY DEF CostInv
<1>5. Cardinality(Passed') <= left'
  BY <1>3, <1>4
<1>. QED
  BY <1>2, <1>4, <1>5 DEF CostInv

\* Steps that leave a broadcast alone pass nobody by: who is new comes to the
\* end of the list, and the message is not due to them.
LEMMA CostUnchanged ==
    ASSUME HubInv, CostInv, HubInv', UNCHANGED broadcast,
           conns' = conns \/ \E c \in Clients : conns' = Append(conns, c)
    PROVE  CostInv'
<1>1. UNCHANGED <<at, to, due, got, left>>
  BY DEF broadcast
<1>2. /\ conns \in Seq(Clients) /\ Len(conns) \in Nat
      /\ conns' \in Seq(Clients) /\ Len(conns') \in Nat /\ Len(conns) <= Len(conns')
      /\ \A i \in 1 .. Len(conns) : conns'[i] = conns[i]
      /\ IsInjective(conns')
  BY DEF HubInv
<1>3. CASE at # 0
  <2>1. \A c \in due : \E k \in 1 .. Len(conns) : conns[k] = c
    BY <1>3, DueStand
  <2>2. \A c \in due : Contains(conns', c)
    BY <1>2, <2>1 DEF Contains
  <2>3. Passed' \subseteq Passed
    <3>1. ASSUME NEW c \in due, NEW i \in 1 .. Len(conns'), conns'[i] = c
          PROVE  i \in 1 .. Len(conns) /\ conns[i] = c
      <4>1. PICK k \in 1 .. Len(conns) : conns[k] = c
        BY <2>1
      <4>2. k \in DOMAIN conns' /\ i \in DOMAIN conns' /\ conns'[k] = conns'[i]
        BY <1>2, <3>1, <4>1
      <4>3. k = i
        BY <1>2, <4>2 DEF IsInjective
      <4>. QED
        BY <4>1, <4>3
    <3>. QED
      BY <1>1, <3>1 DEF Passed
  <2>. QED
    BY <1>1, <1>3, <2>2, <2>3, CostKept
<1>. QED
  BY <1>1, <1>3 DEF CostInv

\* A departure moves at most the next one behind the position of the
\* broadcast.
LEMMA CostOfDeparture ==
    ASSUME HubInv, CostInv, NEW c \in Clients, HandlerEnds(c)
    PROVE  CostInv'
<1>1. /\ conns' = RemoveFirst(conns, c) /\ due' = due \ {c}
      /\ UNCHANGED <<at, to, got>>
      /\ left' = IF at # 0 /\ Contains(conns, c) THEN left + 1 ELSE left
  BY DEF HandlerEnds
<1>2. conns \in Seq(Clients) /\ IsInjective(conns) /\ at \in Nat /\ left \in Nat
  BY DEF HubInv, CostInv
<1>3. /\ \A y : Contains(conns, y) /\ y # c => Contains(conns', y)
      /\ \A j \in 1 .. Len(conns') :
           \E k \in 1 .. Len(conns) : k <= j + 1 /\ conns'[j] = conns[k]
      /\ ~Contains(conns, c) => conns' = conns
  BY <1>1, <1>2, RemoveKeepsOthers
<1>4. CASE at = 0
  BY <1>1, <1>2, <1>4 DEF CostInv
<1>5. CASE at # 0
  <2>1. due' \subseteq due /\ \A d \in due' : Contains(conns', d)
    BY <1>1, <1>3, <1>5 DEF CostInv
  <2>2. CASE ~Contains(conns, c)
    <3>1. Passed' \subseteq Passed
      BY <1>1, <1>3, <2>2 DEF Passed
    <3>. QED
      BY <1>1, <1>5, <2>1, <2>2, <3>1, CostKept
  <2>3. CASE Contains(conns, c)
    <3>1. Passed' \subseteq Passed \cup {conns[at + 1]}
      <4>1. ASSUME NEW d, NEW j \in 1 .. Len(conns'), j <= at, conns'[j] = d
            PROVE  \/ d = conns[at + 1]
                   \/ \E k \in 1 .. Len(conns) : k <= at /\ conns[k] = d
        <5>1. PICK k \in 1 .. Len(conns) : k <= j + 1 /\ conns'[j] = conns[k]
          BY <1>3
        <5>2. Len(conns) \in Nat /\ Len(conns') \in Nat
          BY <1>1, <1>2, RemoveKeepsOthers
        <5>3. k <= at \/ k = at + 1
          BY <1>2, <4>1, <5>1, <5>2
        <5>. QED
          BY <4>1, <5>1, <5>3
      <4>. QED
        BY <1>1, <4>1 DEF Passed
    <3>2. IsFiniteSet(due) /\ IsFiniteSet(Passed)
      BY <1>5, FS_Subset DEF CostInv, Passed
    <3>3. IsFiniteSet(due')
      BY <2>1, <3>2, FS_Subset
    <3>4. /\ Cardinality(Passed) \in Nat /\ Cardinality(Passed') \in Nat
          /\ Cardinality(Passed') <= Cardinality(Passed) + 1
      BY <3>1, <3>2, PassedCount
    <3>5. Cardinality(Passed) <= left /\ left' = left + 1
      BY <1>1, <1>5, <2>3 DEF CostInv
    <3>6. left' \in Nat /\ Cardinality(Passed') <= left'
      BY <1>2, <3>4, <3>5
    <3>. QED
      BY <2>1, <3>3, <3>6 DEF CostInv
  <2>. QED
    BY <2>2, <2>3
<1>. QED
  BY <1>4, <1>5

\* A broadcast that begins owes its message to those on the list, and has
\* passed nobody by.
LEMMA CostOfBegin ==
    ASSUME HubInv, Begin
    PROVE  CostInv'
<1>1. /\ at' = 1 /\ to' = conns[1] /\ due' = ToSet(conns) /\ got' = {} /\ left' = 0
      /\ conns' = conns
  BY DEF Begin
<1>2. conns \in Seq(Clients) /\ Len(conns) \in Nat
  BY DEF HubInv
<1>3. IsFiniteSet(ToSet(conns))
  <2>1. conns \in Surjection(1 .. Len(conns), ToSet(conns))
    BY <1>2 DEF Surjection, ToSet
  <2>. QED
    BY <1>2, <2>1, FS_Interval, FS_Surjection
<1>4. \A c \in due' : Contains(conns', c)
  BY <1>1, <1>2 DEF ToSet, Contains
<1>5. Passed' = {}
  BY <1>1, <1>2 DEF Passed
<1>6. Cardinality(Passed') = 0
  BY <1>5, FS_EmptySet
<1>. QED
  BY <1>1, <1>3, <1>4, <1>6 DEF CostInv

\* A send that ends either reached its client or finds it gone.
LEMMA SendSettles ==
    ASSUME SendEnds
    PROVE  /\ due' \subseteq due /\ got \subseteq got'
           /\ to \notin due' \ got'
<1>1. PICK ok \in IF peer[to] = "open" THEN {TRUE} ELSE BOOLEAN :
        got' = IF ok THEN got \cup {to} ELSE got
  BY DEF SendEnds
<1>2. due' = {c \in due : peer[c] = "open"}
  BY DEF SendEnds
<1>3. peer[to] = "open" => ok
  BY <1>1
<1>. QED
  BY <1>1, <1>2, <1>3

\* When the loop goes on nobody else is passed by; when it ends those without
\* the message were.
LEMMA CostOfSend ==
    ASSUME HubInv, CostInv, SendEnds
    PROVE  /\ CostInv'
           /\ at' = 0 => Cardinality(due' \ got') <= left
<1>1. at # 0 /\ left' = left /\ at \in Nat /\ conns \in Seq(Clients) /\ left \in Nat
  BY DEF SendEnds, HubInv, CostInv
<1>2. due' \subseteq due /\ got \subseteq got' /\ to \notin due' \ got'
  BY SendSettles
<1>3. \A c \in due : \E k \in 1 .. Len(conns) : conns[k] = c
  BY <1>1, DueStand
<1>4. CASE at < Len(conns)
  <2>1. at' = at + 1 /\ to' = conns[at + 1] /\ conns' = conns
    BY <1>4 DEF SendEnds
  <2>2. Passed' \subseteq Passed
    <3>1. ASSUME NEW i \in 1 .. Len(conns), i <= at + 1, conns[i] # to'
          PROVE  i <= at
      <4>1. i # at + 1
        BY <2>1, <3>1
      <4>. QED
        BY <1>1, <3>1, <4>1
    <3>. QED
      BY <1>2, <2>1, <3>1 DEF Passed
  <2>3. \A c \in due' : Contains(conns', c)
    BY <1>1, <1>2, <2>1 DEF CostInv
  <2>4. CostInv'
    BY <1>1, <1>2, <2>2, <2>3, CostKept
  <2>5. at' # 0
    BY <1>1, <2>1
  <2>. QED
    BY <2>4, <2>5
<1>5. CASE ~(at < Len(conns))
  <2>1. at' = 0
    BY <1>5 DEF SendEnds, Idle
  <2>2. due' \ got' \subseteq Passed
    <3>1. Len(conns) \in Nat
      BY <1>1
    <3>2. \A k \in 1 .. Len(conns) : k <= at
      BY <1>1, <1>5, <3>1
    <3>. QED
      BY <1>2, <1>3, <3>2 DEF Passed
  <2>3. IsFiniteSet(Passed) /\ Cardinality(Passed) <= left
    BY <1>1, FS_Subset DEF CostInv, Passed
  <2>4. /\ Cardinality(due' \ got') \in Nat /\ Cardinality(Passed) \in Nat
        /\ Cardinality(due' \ got') <= Cardinality(Passed)
    BY <2>2, <2>3, PassedCount
  <2>5. Cardinality(due' \ got') <= left
    BY <1>1, <2>3, <2>4
  <2>. QED
    BY <1>1, <2>1, <2>5 DEF CostInv
<1>. QED
  BY <1>4, <1>5

\* Every step of the hub and of the dashboard beside it.
LEMMA CostNext ==
    ASSUME HubInv, CostInv, HubInv', Next \/ DashboardNext \/ UNCHANGED vars
    PROVE  CostInv'
<1>1. ASSUME UNCHANGED broadcast,
             conns' = conns \/ \E c \in Clients : conns' = Append(conns, c)
      PROVE  CostInv'
  BY <1>1, CostUnchanged
<1>2. ASSUME NEW c \in Clients, Connect(c) \/ PeerCloses(c) \/ HandlerFails(c)
      PROVE  CostInv'
  BY <1>1, <1>2 DEF Connect, PeerCloses, HandlerFails
<1>3. ASSUME NEW c \in Clients, HandlerEnds(c) PROVE CostInv'
  BY <1>3, CostOfDeparture
<1>4. CASE Begin
  BY <1>4, CostOfBegin
<1>5. CASE SendEnds
  BY <1>5, CostOfSend
<1>6. CASE Cancelled
  BY <1>6 DEF Cancelled, Idle, CostInv
<1>7. CASE UNCHANGED vars
  BY <1>1, <1>7 DEF vars
<1>8. CASE Browser
  <2>1. CASE Mount \/ Reconnect \/ \E c \in Sockets : OnClose(c)
    BY <1>7, <2>1 DEF Mount, Reconnect, OnClose
  <2>2. CASE Unmount
    BY <1>1, <2>2 DEF Unmount
  <2>3. ASSUME NEW c \in Sockets, Accept(c) \/ DialFails(c) \/ Lost(c)
        PROVE  CostInv'
    <3>1. c \in Clients
      BY DashboardConstants
    <3>2. CASE DialFails(c)
      BY <1>1, <3>2 DEF DialFails
    <3>. QED
      BY <1>2, <2>3, <3>1, <3>2 DEF Accept, Lost
  <2>. QED
    BY <1>8, <2>1, <2>2, <2>3 DEF Browser
<1>. QED
  BY <1>2, <1>3, <1>4, <1>5, <1>6, <1>7, <1>8
  DEF Next, Client, DashboardNext, Others, Server

\* Initially there is no broadcast.
LEMMA CostInit == Init => CostInv
BY DEF Init, CostInv

\* Each connection that leaves during a broadcast costs at most one of the
\* clients that stay its message, wherever on the list it stood: a broadcast
\* that goes by position passes by no more clients than left.
THEOREM DepartureCostsOne == Spec => EachDepartureCostsOneAtMost
<1>1. CostInv /\ HubInv => [Ends => Cardinality(due' \ got') <= left]_vars
  BY CostOfSend DEF Ends
<1>2. HubInv /\ CostInv /\ HubInv' /\ [Next]_vars => CostInv'
  BY CostNext
<1>3. HubInv /\ [Next]_vars => HubInv'
  BY HubNext
<1>. QED
  BY <1>1, <1>2, <1>3, HubInit, CostInit, PTL DEF Spec, EachDepartureCostsOneAtMost

\* And so it does beside a dashboard that mounts, unmounts and reconnects.
THEOREM DepartureCostsOneBesideDashboard ==
    DashboardSpec => EachDepartureCostsOneAtMost
<1>1. CostInv /\ HubInv => [Ends => Cardinality(due' \ got') <= left]_vars
  BY CostOfSend DEF Ends
<1>2. UNCHANGED allVars => UNCHANGED vars
  BY DEF allVars
<1>3. HubInv /\ CostInv /\ HubInv' /\ [DashboardNext]_allVars => CostInv'
  BY <1>2, CostNext
<1>4. HubInv /\ [DashboardNext]_allVars => HubInv'
  BY <1>2, HubNext
<1>5. DashboardInit => HubInv /\ CostInv
  BY HubInit, CostInit DEF DashboardInit
<1>. QED
  BY <1>1, <1>3, <1>4, <1>5, PTL DEF DashboardSpec, EachDepartureCostsOneAtMost
================================================================================
