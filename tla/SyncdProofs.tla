---------------------------- MODULE SyncdProofs ----------------------------
(* Proofs about the barrier server: the map from connections to barriers,   *)
(* the lists of waiters and the descriptors select() watches agree in every *)
(* reachable state, for any number of barriers, connections and waiters,    *)
(* and waiters are answered together.                                       *)
EXTENDS Syncd, IntSets

(* The inductive invariant.                                                 *)
IInv ==
  /\ TypeOK
  /\ MapMatchesWaiters
  /\ WaitersWatched
  /\ NoDescriptorLeak
  /\ LoopInvariant
  /\ ErrorCovers

(* The listening sockets are no connections.                                *)
LEMMA Listening == Tcp \notin Sock /\ Udp \notin Sock /\ Tcp # Udp
  BY DEF Sock, Tcp, Udp

(* After accept() is done with, the phases left are the UDP one and the     *)
(* scan, which is only reached with connections to look at.                 *)
LEMMA LatePhases ==
  ASSUME NEW S, S \subseteq Sock \cup {Tcp, Udp}, Tcp \notin S
  PROVE  /\ Phase(S) \in {"udp", "scan", "top"}
         /\ Phase(S) = "scan" => S # {} /\ S \subseteq Sock
  BY Listening DEF Phase

(* s is one of the connections of ws when some waiter of ws came on it.     *)
LEMMA ConnectionsMember ==
  ASSUME NEW ws, NEW s
  PROVE  s \in Connections(ws) <=> s # Udp /\ \E i \in DOMAIN ws : ws[i].sock = s
  BY DEF Connections

(* A set of connections that is not empty has a highest one: what           *)
(* maxtcpsocket() returns exists.                                           *)
LEMMA HighestExists ==
  ASSUME NEW S \in SUBSET Sock, S # {}
  PROVE  \E m \in S : \A s \in S : s <= m
<1>1. NSock \in Nat /\ S \in SUBSET (0 .. NSock)
  BY SyncdAssumption DEF Sock
<1> QED BY <1>1, GreatestExists

(* maxtcpsocket() keeps exactly the watched connections that wait, and      *)
(* bounds them by the maxfd it returns.                                     *)
LEMMA MaxTcpSocketKeeps ==
  ASSUME maxfd \in 0 .. NSock,
         NEW tcp \in [Sock -> Name \cup {None}],
         NEW watched \in SUBSET Sock, \A s \in watched : s <= maxfd,
         \A s \in Sock : tcp[s] # None => s \in watched,
         MaxTcpSocket(tcp, watched)
  PROVE  /\ sfds' = {s \in watched : tcp[s] # None}
         /\ maxfd' \in 0 .. NSock
         /\ \A s \in sfds' : s <= maxfd'
<1> DEFINE kept == {s \in Sock : s <= maxfd /\ tcp[s] # None}
<1>1. sfds' = {s \in watched : s > maxfd \/ s \in kept}
  BY DEF MaxTcpSocket
<1>2. maxfd' = IF kept = {} THEN 0
               ELSE CHOOSE s \in kept : \A t \in kept : t <= s
  BY DEF MaxTcpSocket
<1>3. sfds' = {s \in watched : tcp[s] # None}
  <2>1. maxfd \in Int
    BY SyncdAssumption
  <2>2. \A s \in watched : ~ (s > maxfd) /\ s \in Sock
    BY <2>1 DEF Sock
  <2> QED BY <1>1, <2>2
<1>4. sfds' \subseteq kept
  BY <1>3 DEF Sock
<1>5. CASE kept = {}
  <2>1. sfds' = {} /\ maxfd' = 0
    BY <1>2, <1>4, <1>5
  <2> QED BY <2>1, <1>3, SyncdAssumption
<1>6. CASE kept # {}
  <2> HIDE DEF kept
  <2>1. kept \in SUBSET Sock
    BY DEF kept
  <2>2. \E s \in kept : \A t \in kept : t <= s
    BY <2>1, <1>6, HighestExists
  <2>3. maxfd' \in kept /\ \A t \in kept : t <= maxfd'
    BY <1>2, <1>6, <2>2
  <2>4. maxfd' \in 0 .. NSock
    BY <2>1, <2>3, SyncdAssumption DEF Sock
  <2> QED BY <1>3, <1>4, <2>3, <2>4
<1> QED BY <1>5, <1>6

(* The initial state satisfies the invariant.                               *)
THEOREM InitIInv == Init => IInv
<1> SUFFICES ASSUME Init PROVE IInv
  OBVIOUS
<1> USE SyncdAssumption DEF Init
<1>1. BarrierTypes /\ SocketTypes
  BY DEF BarrierTypes, SocketTypes, Silent
<1>4. LoopTypes
  <2>1. gotsighup \in BOOLEAN /\ dgram \in BOOLEAN
    OBVIOUS
  <2>2. newsock \in 0 .. NSock /\ backlog \in Nat /\ hups \in Nat
    OBVIOUS
  <2> QED BY <2>1, <2>2 DEF LoopTypes
<1>2. MapMatchesWaiters /\ WaitersWatched /\ NoDescriptorLeak
  BY DEF MapMatchesWaiters, WaitersWatched, NoDescriptorLeak
<1>3. LoopInvariant /\ ErrorCovers
  BY DEF LoopInvariant, ErrorCovers
<1> QED BY <1>1, <1>2, <1>3, <1>4 DEF IInv, TypeOK

---------------------------------------------------------------------------
(* What most steps leave alone.                                             *)
Quiet == UNCHANGED <<barrierVars, tcpsockets, fdVars, open, newsock, told>>

(* A step that leaves the barriers and the descriptors alone preserves all  *)
(* that relates them.                                                       *)
LEMMA QuietStep ==
  ASSUME IInv, Quiet
  PROVE  /\ BarrierTypes' /\ MapMatchesWaiters' /\ WaitersWatched'
         /\ NoDescriptorLeak' /\ ErrorCovers'
<1> USE DEF IInv, TypeOK, Quiet, barrierVars, historyVars, fdVars
<1>1. BarrierTypes'
  BY DEF BarrierTypes
<1>2. MapMatchesWaiters'
  BY DEF MapMatchesWaiters, Connections
<1>3. WaitersWatched' /\ NoDescriptorLeak'
  BY DEF WaitersWatched, NoDescriptorLeak
<1>4. ErrorCovers'
  BY DEF ErrorCovers
<1> QED BY <1>1, <1>2, <1>3, <1>4

(* The steps of the loop and of the clients that touch no barrier.          *)
LEMMA LoopSteps ==
  ASSUME IInv,
         \/ Top \/ EnterSelect \/ SelectReturns \/ AcceptFailed \/ UdpFailed
         \/ ScanClosed \/ HandleSighup \/ Connect \/ SendDatagram \/ ClientGone
  PROVE  IInv' /\ Quiet
<1> USE SyncdAssumption
<1>q. Quiet
  BY DEF Quiet, Top, EnterSelect, SelectReturns, AcceptFailed, UdpFailed,
         ScanClosed, HandleSighup, Connect, SendDatagram, ClientGone, barrierVars,
         fdVars
<1> SUFFICES SocketTypes' /\ LoopTypes' /\ LoopInvariant'
  BY <1>q, QuietStep DEF IInv, TypeOK
<1> USE DEF IInv, TypeOK, SocketTypes, LoopTypes, LoopInvariant, Continue,
            Goto, Phase, barrierVars, fdVars, clientVars
<1>1. CASE Top
  BY <1>1 DEF Top
<1>2. CASE EnterSelect
  BY <1>2 DEF EnterSelect, BadFds
<1>3. CASE SelectReturns
  <2>1. /\ Ready \subseteq Sock \cup {Tcp, Udp} /\ Ready \cap Sock \subseteq open
        /\ Tcp \in Ready => backlog > 0
    <3>1. \A f \in Ready : (f = Tcp /\ backlog > 0) \/ f = Udp \/ f \in sfds \cap gone
      BY Zenon DEF Ready
    <3>2. Tcp \notin Sock /\ Udp \notin Sock
      BY DEF Sock, Tcp, Udp
    <3>3. Tcp # Udp
      BY DEF Tcp, Udp
    <3> QED BY <3>1, <3>2, <3>3
  <2>2. /\ fds' = Ready /\ pc' = Phase(Ready) /\ Ready # {} /\ pc = "select"
        /\ UNCHANGED <<barrierVars, tcpsockets, fdVars, gotsighup, newsock, open,
                       clientVars>>
    BY <1>3 DEF SelectReturns
  <2>3. \/ pc' = "accept" /\ Tcp \in Ready
        \/ pc' = "udp" /\ Tcp \notin Ready
        \/ pc' = "scan" /\ Tcp \notin Ready /\ Udp \notin Ready
    BY <2>2
  <2>4. SocketTypes'
    BY <1>q, <2>1, <2>2 DEF Quiet
  <2>5. LoopTypes'
    BY <2>2, <2>3
  <2>6. LoopInvariant'
    BY <1>q, <2>1, <2>2, <2>3 DEF Quiet
  <2> QED BY <2>4, <2>5, <2>6
<1>4. CASE AcceptFailed
  BY <1>4 DEF AcceptFailed
<1>5. CASE UdpFailed
  BY <1>5 DEF UdpFailed
<1>6. CASE ScanClosed
  <2>1. fds' = fds \ {Lowest} /\ pc' = Phase(fds') /\ fds \subseteq Sock
    BY <1>6 DEF ScanClosed
  <2>2. fds' \subseteq Sock /\ Tcp \notin fds' /\ Udp \notin fds'
    BY <2>1, Listening
  <2>3. /\ pc' \in {"udp", "scan", "top"}
        /\ pc' = "scan" => fds' # {} /\ fds' \subseteq Sock
    BY <2>1, <2>2, LatePhases
  <2>4. SocketTypes'
    BY <1>6, <2>2 DEF ScanClosed
  <2>5. LoopTypes'
    <3>1. UNCHANGED <<gotsighup, dgram, newsock, backlog, hups>>
      BY <1>6 DEF ScanClosed
    <3> QED BY <3>1, <2>3
  <2>6. LoopInvariant'
    BY <1>6, <2>1, <2>2, <2>3 DEF ScanClosed
  <2> QED BY <2>4, <2>5, <2>6
<1>7. CASE HandleSighup
  BY <1>7 DEF HandleSighup
<1>8. CASE Connect
  BY <1>8 DEF Connect
<1>9. CASE SendDatagram
  BY <1>9 DEF SendDatagram
<1>10. CASE ClientGone
  BY <1>10 DEF ClientGone
<1> QED BY <1>1, <1>2, <1>3, <1>4, <1>5, <1>6, <1>7, <1>8, <1>9, <1>10

---------------------------------------------------------------------------
(* A connection in the map is a waiter of that barrier and is open.         *)
LEMMA MappedWaits ==
  ASSUME IInv, NEW s \in Sock, tcpsockets[s] # None
  PROVE  /\ tcpsockets[s] \in Name /\ s \in open
         /\ \E i \in DOMAIN waiters[tcpsockets[s]] :
              waiters[tcpsockets[s]][i].sock = s
<1>1. tcpsockets[s] \in Name
  BY DEF IInv, TypeOK, SocketTypes
<1>2. s \in Connections(waiters[tcpsockets[s]])
  BY DEF IInv, MapMatchesWaiters
<1>3. PICK i \in DOMAIN waiters[tcpsockets[s]] :
        waiters[tcpsockets[s]][i].sock = s /\ s # Udp
  BY <1>2, ConnectionsMember
<1>4. s \in open
  BY <1>1, <1>3 DEF IInv, MapMatchesWaiters
<1> QED BY <1>1, <1>3, <1>4

(* accept() hands out a descriptor that was closed.                         *)
LEMMA AcceptStep == ASSUME IInv, Accept PROVE IInv'
<1> USE SyncdAssumption DEF IInv, TypeOK
<1> DEFINE free == Sock \ open
<1>1. newsock' \in Sock \ open
  <2>1. free \in SUBSET Nat /\ free # {}
    BY DEF Accept, Sock
  <2>2. \E s \in free : \A t \in free : s <= t
    BY <2>1, LeastExists
  <2>3. newsock' = CHOOSE s \in free : \A t \in free : s <= t
    BY DEF Accept
  <2> QED BY <2>2, <2>3
<1>2. /\ open' = open \cup {newsock'} /\ backlog' = backlog - 1
      /\ told' = [told EXCEPT ![newsock'] = Silent]
      /\ fds' = fds \ {Tcp} /\ pc' = "read" /\ pc = "accept"
      /\ UNCHANGED <<barrierVars, tcpsockets, fdVars, gotsighup, dgram, gone,
                     hups>>
  BY DEF Accept
<1>3. tcpsockets[newsock'] = None
  BY <1>1, MappedWaits
<1>4. BarrierTypes' /\ ErrorCovers'
  BY <1>2 DEF BarrierTypes, ErrorCovers, barrierVars, historyVars
<1>5. SocketTypes'
  BY <1>1, <1>2 DEF SocketTypes, Silent, fdVars
<1>6. LoopTypes'
  <2>1. backlog' \in Nat
    BY <1>2 DEF LoopTypes, LoopInvariant
  <2>2. newsock' \in 0 .. NSock
    BY <1>1 DEF Sock
  <2> QED BY <1>2, <2>1, <2>2 DEF LoopTypes
<1>7. MapMatchesWaiters'
  BY <1>2 DEF MapMatchesWaiters, Connections, barrierVars
<1>8. WaitersWatched' /\ NoDescriptorLeak'
  BY <1>1, <1>2, Listening
     DEF WaitersWatched, NoDescriptorLeak, LoopInvariant, fdVars, SocketTypes, Sock
<1>9. LoopInvariant'
  BY <1>1, <1>2, <1>3 DEF LoopInvariant, SocketTypes, fdVars, barrierVars
<1> QED BY <1>4, <1>5, <1>6, <1>7, <1>8, <1>9

(* A connection that never becomes a waiter is closed again.                *)
LEMMA AbortStep == ASSUME IInv, ReadAborted PROVE IInv'
<1> USE SyncdAssumption DEF IInv, TypeOK, ReadAborted, Continue
<1>1. BarrierTypes' /\ ErrorCovers'
  BY DEF BarrierTypes, ErrorCovers, barrierVars, historyVars
<1>2. SocketTypes'
  BY DEF SocketTypes, fdVars
<1>3. LoopTypes'
  BY DEF LoopTypes
<1>4. MapMatchesWaiters'
  BY DEF MapMatchesWaiters, Connections, barrierVars, LoopInvariant
<1>5. WaitersWatched' /\ NoDescriptorLeak'
  BY DEF WaitersWatched, NoDescriptorLeak, fdVars
<1>6. LoopInvariant'
  BY DEF LoopInvariant, fdVars, barrierVars
<1> QED BY <1>1, <1>2, <1>3, <1>4, <1>5, <1>6

(* So is the one whose record would go past waiters[], as far as the model  *)
(* follows it.                                                              *)
LEMMA OverrunStep == ASSUME IInv, Overrun PROVE IInv'
<1> USE SyncdAssumption DEF IInv, TypeOK, Overrun
<1>1. BarrierTypes' /\ ErrorCovers'
  BY DEF BarrierTypes, ErrorCovers, barrierVars, historyVars
<1>2. SocketTypes'
  BY DEF SocketTypes, fdVars
<1>3. LoopTypes'
  BY DEF LoopTypes
<1>n. newsock \in open => tcpsockets[newsock] = None
  BY DEF LoopInvariant, SocketTypes, Sock
<1>4. MapMatchesWaiters'
  BY <1>n DEF MapMatchesWaiters, Connections, barrierVars
<1>5. WaitersWatched' /\ NoDescriptorLeak'
  BY DEF WaitersWatched, NoDescriptorLeak, fdVars
<1>6. LoopInvariant'
  BY DEF LoopInvariant, fdVars, barrierVars
<1> QED BY <1>1, <1>2, <1>3, <1>4, <1>5, <1>6

---------------------------------------------------------------------------
(* handle_request().  What a request leaves behind: every open connection   *)
(* is a waiter again, and only the caller can have become one.              *)
Handled(sock) ==
  /\ BarrierTypes' /\ MapMatchesWaiters' /\ ErrorCovers'
  /\ tcpsockets' \in [Sock -> Name \cup {None}]
  /\ told' \in [Sock -> Int]
  /\ open' \subseteq open /\ gone' \subseteq gone /\ gone' \subseteq open'
  /\ \A s \in Sock : tcpsockets'[s] # None => tcpsockets[s] # None \/ s = sock
  /\ \A s \in open' : tcpsockets'[s] # None
  /\ \A n \in Name : n \notin allbarriers' => waiters'[n] = << >>

(* The caller: the connection whose request was read, or a datagram.        *)
Caller(sock) ==
  \/ pc = "read" /\ sock = newsock
  \/ pc = "udp" /\ sock = Udp

(* The connection being read is open and nobody's waiter, and every other *)
(* open connection is some barrier's waiter.                              *)
LEMMA CallerFacts ==
  ASSUME IInv, NEW sock, Caller(sock)
  PROVE  /\ sock \in Sock \cup {Udp}
         /\ sock # Udp => sock \in open /\ tcpsockets[sock] = None
         /\ \A s \in open : s # sock => tcpsockets[s] # None
<1> USE DEF IInv, TypeOK
<1>1. open \subseteq Sock
  BY DEF SocketTypes
<1>2. CASE pc = "read" /\ sock = newsock
  BY <1>1, <1>2, Listening DEF LoopInvariant, NoDescriptorLeak
<1>3. CASE pc = "udp" /\ sock = Udp
  <2>1. newsock = 0
    BY <1>3 DEF LoopInvariant
  <2>2. newsock \notin open
    BY <1>1, <2>1 DEF Sock
  <2> QED BY <1>3, <2>2 DEF NoDescriptorLeak
<1> QED BY <1>2, <1>3 DEF Caller

(* A caller that waits is recorded.                                         *)
LEMMA RecordWaiter ==
  ASSUME IInv, NEW n \in Name, NEW e \in Errors, NEW c \in Int, NEW sock,
         Caller(sock), Record(n, c, TRUE, e, sock)
  PROVE  Handled(sock)
<1> USE SyncdAssumption DEF IInv, TypeOK
<1> DEFINE w == [count |-> c, sock |-> sock, error |-> e]
           L == Len(waiters[n])
<1>1. /\ sock \in Sock \cup {Udp}
      /\ sock # Udp => sock \in open /\ tcpsockets[sock] = None
      /\ \A s \in open : s # sock => tcpsockets[s] # None
  BY CallerFacts
<1>2. /\ allbarriers' = allbarriers \cup {n}
      /\ count' = [count EXCEPT ![n] = @ + c]
      /\ UNCHANGED historyVars
      /\ waiters' = [waiters EXCEPT ![n] = Append(@, w)]
      /\ error' = [error EXCEPT ![n] = IF e > @ THEN e ELSE @]
      /\ UNCHANGED <<told, open, gone>>
  BY DEF Record, BarrierTypes, historyVars
<1>3. tcpsockets' = [s \in Sock |-> IF s = sock THEN n ELSE tcpsockets[s]]
  BY <1>1, Listening DEF Record, Unmapped, SocketTypes
<1>4. w \in Waiter /\ e \in Nat /\ waiters[n] \in Seq(Waiter) /\ L \in Nat
  <2>1. e \in Nat
    BY DEF SERVER_ERROR_SIGHUP
  <2>2. w \in Waiter
    BY <1>1, <2>1 DEF Waiter
  <2>3. waiters[n] \in Seq(Waiter) /\ L \in Nat
    BY DEF BarrierTypes
  <2> QED BY <2>1, <2>2, <2>3
<1>5. /\ waiters' \in [Name -> Seq(Waiter)]
      /\ \A m \in Name : m # n => waiters'[m] = waiters[m]
      /\ DOMAIN waiters'[n] = 1 .. L + 1 /\ DOMAIN waiters[n] = 1 .. L
      /\ waiters'[n][L + 1] = w
      /\ \A i \in 1 .. L : waiters'[n][i] = waiters[n][i]
  <2> HIDE DEF w
  <2>1. waiters'[n] = Append(waiters[n], w) /\ waiters'[n] \in Seq(Waiter)
    BY <1>2, <1>4 DEF BarrierTypes
  <2>2. \A m \in Name : m # n => waiters'[m] = waiters[m]
    BY <1>2 DEF BarrierTypes
  <2>3. waiters' \in [Name -> Seq(Waiter)]
    BY <1>2, <1>4 DEF BarrierTypes
  <2>4. /\ DOMAIN waiters'[n] = 1 .. L + 1 /\ DOMAIN waiters[n] = 1 .. L
        /\ waiters'[n][L + 1] = w
        /\ \A i \in 1 .. L : waiters'[n][i] = waiters[n][i]
    BY <2>1, <1>4
  <2> QED BY <2>2, <2>3, <2>4
<1>6. BarrierTypes'
  BY <1>2, <1>4, <1>5 DEF BarrierTypes, historyVars
<1>7. ErrorCovers'
  <2>1. error'[n] \in Errors /\ error'[n] >= e /\ error'[n] >= error[n]
    BY <1>2, <1>4 DEF ErrorCovers, BarrierTypes
  <2>2. \A i \in DOMAIN waiters'[n] : waiters'[n][i].error <= error'[n]
    <3> SUFFICES ASSUME NEW i \in 1 .. L + 1
                 PROVE  waiters'[n][i].error <= error'[n]
      BY <1>5
    <3>1. CASE i = L + 1
      BY <3>1, <2>1, <1>4, <1>5, <1>6 DEF BarrierTypes
    <3>2. CASE i \in 1 .. L
      <4>1. waiters[n][i] \in Waiter
        BY <3>2, <1>4, <1>5
      <4>2. waiters[n][i].error <= error[n] /\ waiters[n][i].error \in Nat
        BY <3>2, <4>1, <1>5 DEF ErrorCovers, Waiter
      <4> QED BY <3>2, <4>2, <2>1, <1>5, <1>6 DEF BarrierTypes
    <3> QED BY <3>1, <3>2, <1>4
  <2>3. \A m \in Name : m # n => error'[m] = error[m]
    BY <1>2 DEF BarrierTypes
  <2> QED BY <2>1, <2>2, <2>3, <1>5 DEF ErrorCovers
<1>8. MapMatchesWaiters'
  <2>1. ASSUME NEW m \in Name, NEW i \in DOMAIN waiters'[m],
               waiters'[m][i].sock # Udp
        PROVE  /\ tcpsockets'[waiters'[m][i].sock] = m
               /\ waiters'[m][i].sock \in open'
               /\ \A j \in DOMAIN waiters'[m] :
                    waiters'[m][j].sock = waiters'[m][i].sock => i = j
    <3>1. \A k \in DOMAIN waiters[m] : waiters[m][k] \in Waiter
      BY DEF BarrierTypes
    <3>2. ASSUME NEW k \in DOMAIN waiters[m], waiters[m][k].sock # Udp
          PROVE  /\ tcpsockets[waiters[m][k].sock] = m
                 /\ waiters[m][k].sock \in open
                 /\ waiters[m][k].sock \in Sock /\ waiters[m][k].sock # sock
                 /\ \A j \in DOMAIN waiters[m] :
                      waiters[m][j].sock = waiters[m][k].sock => k = j
      BY <3>1, <3>2, <1>1 DEF MapMatchesWaiters, Waiter
    <3>3. CASE m # n
      BY <3>2, <3>3, <2>1, <1>2, <1>3, <1>5
    <3>4. CASE m = n /\ i \in 1 .. L
      <4>1. waiters'[m][i] = waiters[m][i] /\ i \in DOMAIN waiters[m]
        BY <3>4, <1>5
      <4>2. \A j \in 1 .. L : waiters'[m][j] = waiters[m][j] /\ j \in DOMAIN waiters[m]
        BY <3>4, <1>5
      <4>3. waiters'[m][L + 1].sock = sock
        BY <3>4, <1>5
      <4>4. \A j \in DOMAIN waiters'[m] : j \in 1 .. L \/ j = L + 1
        BY <3>4, <1>4, <1>5
      <4> QED BY <3>2, <4>1, <4>2, <4>3, <4>4, <2>1, <1>2, <1>3
    <3>5. CASE m = n /\ i = L + 1
      <4>1. waiters'[m][i].sock = sock
        BY <3>5, <1>5
      <4>2. \A j \in 1 .. L : waiters'[m][j] = waiters[m][j] /\ j \in DOMAIN waiters[m]
        BY <3>5, <1>5
      <4>3. \A j \in DOMAIN waiters'[m] : j \in 1 .. L \/ j = L + 1
        BY <3>5, <1>4, <1>5
      <4> QED BY <3>2, <3>5, <4>1, <4>2, <4>3, <2>1, <1>1, <1>2, <1>3
    <3> QED BY <3>3, <3>4, <3>5, <1>4, <1>5
  <2>2. ASSUME NEW s \in Sock, tcpsockets'[s] # None
        PROVE  /\ tcpsockets'[s] \in allbarriers'
               /\ s \in Connections(waiters'[tcpsockets'[s]])
    <3>1. s # Udp
      BY Listening
    <3>2. CASE s = sock
      <4>1. tcpsockets'[s] = n /\ L + 1 \in DOMAIN waiters'[n]
        BY <3>2, <1>3, <1>4, <1>5
      <4>2. waiters'[n][L + 1].sock = s
        BY <3>2, <1>5
      <4>3. s \in Connections(waiters'[n])
        BY <3>1, <4>1, <4>2 DEF Connections
      <4> QED BY <4>1, <4>3, <1>2
    <3>3. CASE s # sock
      <4>1. tcpsockets'[s] = tcpsockets[s]
        BY <3>3, <1>3
      <4>2. PICK i \in DOMAIN waiters[tcpsockets[s]] :
              waiters[tcpsockets[s]][i].sock = s
        BY <4>1, <2>2, MappedWaits
      <4>3. tcpsockets[s] \in Name /\ tcpsockets[s] \in allbarriers
        BY <4>1, <2>2, MappedWaits DEF MapMatchesWaiters
      <4>4. /\ i \in DOMAIN waiters'[tcpsockets[s]]
            /\ waiters'[tcpsockets[s]][i] = waiters[tcpsockets[s]][i]
        <5>1. CASE tcpsockets[s] = n
          BY <5>1, <4>2, <1>4, <1>5
        <5>2. CASE tcpsockets[s] # n
          BY <5>2, <4>2, <4>3, <1>5
        <5> QED BY <5>1, <5>2
      <4>5. s \in Connections(waiters'[tcpsockets[s]])
        BY <3>1, <4>2, <4>4 DEF Connections
      <4> QED BY <4>1, <4>3, <4>5, <1>2
    <3> QED BY <3>2, <3>3
  <2> QED BY <2>1, <2>2 DEF MapMatchesWaiters
<1>9. tcpsockets' \in [Sock -> Name \cup {None}]
  BY <1>3 DEF SocketTypes
<1>10. \A s \in Sock : tcpsockets'[s] # None => tcpsockets[s] # None \/ s = sock
  BY <1>3
<1>11. \A s \in open' : tcpsockets'[s] # None
  BY <1>1, <1>2, <1>3 DEF SocketTypes
<1>12. \A m \in Name : m \notin allbarriers' => waiters'[m] = << >>
  BY <1>2, <1>5 DEF LoopInvariant
<1> QED BY <1>2, <1>6, <1>7, <1>8, <1>9, <1>10, <1>11, <1>12
        DEF Handled, SocketTypes

(* A caller that does not wait only changes the count, and is answered.     *)
LEMMA RecordMaster ==
  ASSUME IInv, NEW n \in Name, NEW e \in Errors, NEW c \in Nat, NEW sock,
         Caller(sock), Record(n, c, FALSE, e, sock)
  PROVE  Handled(sock)
<1> USE SyncdAssumption DEF IInv, TypeOK
<1>1. /\ sock \in Sock \cup {Udp}
      /\ sock # Udp => sock \in open /\ tcpsockets[sock] = None
      /\ \A s \in open : s # sock => tcpsockets[s] # None
  BY CallerFacts
<1>2. /\ allbarriers' = allbarriers \cup {n}
      /\ count' = [count EXCEPT ![n] = @ + c]
      /\ promised' = [promised EXCEPT ![n] = IF n \in forgotten THEN @ ELSE @ + c]
      /\ UNCHANGED <<waiters, error, forgotten>>
      /\ told' = [s \in Sock |-> IF s \in {sock} \ {Udp} THEN 0 ELSE told[s]]
      /\ open' = open \ ({sock} \ {Udp})
      /\ gone' = gone \ ({sock} \ {Udp})
  BY DEF Record, Released
<1>3. tcpsockets' = tcpsockets
  BY <1>1, Listening DEF Record, Unmapped, SocketTypes
<1>4. BarrierTypes' /\ ErrorCovers'
  BY <1>2 DEF BarrierTypes, ErrorCovers
<1>5. \A m \in Name : \A i \in DOMAIN waiters[m] :
        waiters[m][i].sock # Udp => waiters[m][i].sock # sock
  <2> SUFFICES ASSUME NEW m \in Name, NEW i \in DOMAIN waiters[m],
                      waiters[m][i].sock # Udp
               PROVE  waiters[m][i].sock # sock
    OBVIOUS
  <2> QED BY <1>1 DEF MapMatchesWaiters
<1>6. MapMatchesWaiters'
  BY <1>2, <1>3, <1>5 DEF MapMatchesWaiters, Connections
<1>7. /\ told' \in [Sock -> Int]
      /\ open' \subseteq open /\ gone' \subseteq gone /\ gone' \subseteq open'
  BY <1>2 DEF SocketTypes
<1>8. \A s \in open' : tcpsockets'[s] # None
  BY <1>1, <1>2, <1>3, Listening DEF SocketTypes
<1>9. \A m \in Name : m \notin allbarriers' => waiters'[m] = << >>
  BY <1>2 DEF LoopInvariant
<1> QED BY <1>3, <1>4, <1>6, <1>7, <1>8, <1>9 DEF Handled, SocketTypes

(* The history of the barriers keeps its types when some are settled.       *)
LEMMA SettledTypes ==
  ASSUME IInv, NEW ns, Settled(ns)
  PROVE  promised' \in [Name -> Nat] /\ forgotten' \subseteq Name
  BY DEF Settled, IInv, TypeOK, BarrierTypes

(* The crossing of a barrier, or its clearing: what frees the barriers ns   *)
(* and closes their connections (and a caller's, ss) leaves the others      *)
(* as they were.                                                            *)
LEMMA Freed ==
  ASSUME IInv, NEW ns \in SUBSET Name, NEW ss \in SUBSET Sock,
         \A s \in Sock : tcpsockets[s] \in ns <=> s \in ss /\ tcpsockets[s] # None,
         tcpsockets' = Unmapped(tcpsockets, ss),
         open' = open \ ss, RemoveBarriers(ns),
         promised' \in [Name -> Nat], forgotten' \subseteq Name
  PROVE  /\ BarrierTypes' /\ MapMatchesWaiters' /\ ErrorCovers'
         /\ \A n \in Name : n \notin allbarriers' => waiters'[n] = << >>
<1> USE SyncdAssumption DEF IInv, TypeOK
<1>1. /\ waiters' = [n \in Name |-> IF n \in ns THEN << >> ELSE waiters[n]]
      /\ error' = [n \in Name |-> IF n \in ns THEN 0 ELSE error[n]]
      /\ allbarriers' = allbarriers \ ns
  BY DEF RemoveBarriers
<1>2. tcpsockets' = [s \in Sock |-> IF s \in ss THEN None ELSE tcpsockets[s]]
  BY DEF Unmapped
<1>3. BarrierTypes'
  BY DEF RemoveBarriers, BarrierTypes
<1>4. ErrorCovers'
  BY <1>1 DEF ErrorCovers
<1>5. \A n \in Name : n \notin allbarriers' => waiters'[n] = << >>
  BY <1>1 DEF LoopInvariant
<1>6. MapMatchesWaiters'
  <2>1. ASSUME NEW m \in Name, NEW i \in DOMAIN waiters'[m],
               waiters'[m][i].sock # Udp
        PROVE  /\ tcpsockets'[waiters'[m][i].sock] = m
               /\ waiters'[m][i].sock \in open'
               /\ \A j \in DOMAIN waiters'[m] :
                    waiters'[m][j].sock = waiters'[m][i].sock => i = j
    <3>1. m \notin ns /\ waiters'[m] = waiters[m]
      BY <2>1, <1>1
    <3>2. waiters[m][i] \in Waiter
      BY <2>1, <3>1 DEF BarrierTypes
    <3>3. /\ tcpsockets[waiters[m][i].sock] = m /\ waiters[m][i].sock \in open
          /\ \A j \in DOMAIN waiters[m] :
               waiters[m][j].sock = waiters[m][i].sock => i = j
      BY <2>1, <3>1 DEF MapMatchesWaiters
    <3>4. waiters[m][i].sock \in Sock /\ waiters[m][i].sock \notin ss
      BY <2>1, <3>1, <3>2, <3>3 DEF Waiter
    <3> QED BY <3>1, <3>3, <3>4, <1>2
  <2>2. ASSUME NEW s \in Sock, tcpsockets'[s] # None
        PROVE  /\ tcpsockets'[s] \in allbarriers'
               /\ s \in Connections(waiters'[tcpsockets'[s]])
    <3>1. s \notin ss /\ tcpsockets'[s] = tcpsockets[s] /\ tcpsockets[s] # None
      BY <2>2, <1>2
    <3>2. tcpsockets[s] \notin ns /\ tcpsockets[s] \in Name
      BY <3>1, MappedWaits
    <3>3. waiters'[tcpsockets[s]] = waiters[tcpsockets[s]]
      BY <3>2, <1>1
    <3> QED BY <3>1, <3>2, <3>3, <1>1 DEF MapMatchesWaiters
  <2> QED BY <2>1, <2>2 DEF MapMatchesWaiters
<1> QED BY <1>3, <1>4, <1>5, <1>6

(* The connections of a barrier are those the map sends to it.              *)
LEMMA ConnectionsAreMapped ==
  ASSUME IInv, NEW n \in Name
  PROVE  /\ Connections(waiters[n]) \subseteq Sock
         /\ \A s \in Sock : tcpsockets[s] = n <=> s \in Connections(waiters[n])
<1>1. Connections(waiters[n]) \subseteq Sock
  <2> SUFFICES ASSUME NEW s \in Connections(waiters[n]) PROVE s \in Sock
    OBVIOUS
  <2>1. PICK i \in DOMAIN waiters[n] : waiters[n][i].sock = s /\ s # Udp
    BY ConnectionsMember
  <2>2. waiters[n][i] \in Waiter
    BY <2>1 DEF IInv, TypeOK, BarrierTypes
  <2> QED BY <2>1, <2>2 DEF Waiter
<1>2. ASSUME NEW s \in Connections(waiters[n]) PROVE tcpsockets[s] = n
  <2>1. PICK i \in DOMAIN waiters[n] : waiters[n][i].sock = s /\ s # Udp
    BY ConnectionsMember
  <2> QED BY <2>1 DEF IInv, MapMatchesWaiters
<1>3. ASSUME NEW s \in Sock, tcpsockets[s] = n PROVE s \in Connections(waiters[n])
  BY <1>3, SyncdAssumption DEF IInv, MapMatchesWaiters
<1> QED BY <1>1, <1>2, <1>3

(* The crossing of a barrier.                                               *)
LEMMA CrossStep ==
  ASSUME IInv, NEW n \in Name, NEW e \in Errors, NEW c \in Int, NEW sock,
         NEW waits \in BOOLEAN, Caller(sock), Cross(n, c, waits, e, sock)
  PROVE  Handled(sock)
<1> DEFINE ws == Connections(waiters[n])
           ss == ws \cup ({sock} \ {Udp})
           result == IF waits /\ e > error[n] THEN e ELSE error[n]
<1>1. /\ sock \in Sock \cup {Udp}
      /\ sock # Udp => sock \in open /\ tcpsockets[sock] = None
      /\ \A s \in open : s # sock => tcpsockets[s] # None
  BY CallerFacts
<1>2. /\ ws \subseteq Sock
      /\ \A s \in Sock : tcpsockets[s] = n <=> s \in ws
  BY ConnectionsAreMapped
<1>3. /\ tcpsockets' = Unmapped(tcpsockets, ss)
      /\ open' = open \ ss /\ gone' = gone \ ss
      /\ RemoveBarriers({n}) /\ Settled({n})
      /\ told' = [s \in Sock |-> IF s \in ws THEN result
                                 ELSE IF s \in {sock} \ {Udp}
                                 THEN IF waits THEN result ELSE 0
                                 ELSE told[s]]
  BY DEF Cross
<1>4. result \in Int
  BY SyncdAssumption DEF IInv, TypeOK, BarrierTypes, SERVER_ERROR_SIGHUP
<1> HIDE DEF ws, result
<1>5. ss \in SUBSET Sock
  BY <1>1, <1>2
<1>6. \A s \in Sock : tcpsockets[s] \in {n} <=> s \in ss /\ tcpsockets[s] # None
  BY <1>1, <1>2, Listening, SyncdAssumption
<1> HIDE DEF ss
<1>7. /\ BarrierTypes' /\ MapMatchesWaiters' /\ ErrorCovers'
      /\ \A m \in Name : m \notin allbarriers' => waiters'[m] = << >>
  <2>1. {n} \in SUBSET Name
    OBVIOUS
  <2> QED BY <1>3, <1>5, <1>6, <2>1, Freed, SettledTypes
<1>8. /\ tcpsockets' \in [Sock -> Name \cup {None}]
      /\ \A s \in Sock : tcpsockets'[s] # None => tcpsockets[s] # None
  BY <1>3 DEF Unmapped, IInv, TypeOK, SocketTypes
<1>9. told' \in [Sock -> Int]
  BY <1>3, <1>4 DEF IInv, TypeOK, SocketTypes
<1>10. open' \subseteq open /\ gone' \subseteq gone /\ gone' \subseteq open'
  BY <1>3 DEF IInv, TypeOK, SocketTypes
<1>11. \A s \in open' : tcpsockets'[s] # None
  <2>1. sock # Udp => sock \in ss
    BY DEF ss
  <2>2. \A s \in open' : s \in open /\ s \in Sock /\ s \notin ss
    BY <1>3 DEF IInv, TypeOK, SocketTypes
  <2>3. \A s \in open' : s # sock
    BY <2>1, <2>2, Listening
  <2> QED BY <1>1, <1>3, <2>2, <2>3 DEF Unmapped
<1> QED BY <1>7, <1>8, <1>9, <1>10, <1>11 DEF Handled

(* A request, of whatever kind.                                             *)
LEMMA RequestHandled ==
  ASSUME IInv, NEW n \in Name, NEW e \in Errors, NEW sock, Caller(sock),
         HandleRequest(n, e, sock)
  PROVE  Handled(sock)
<1> USE SyncdAssumption
<1>1. ASSUME NEW c \in 1 .. MaxCount,
             Record(n, c, TRUE, e, sock) \/ Cross(n, c, TRUE, e, sock)
      PROVE  Handled(sock)
  <2>1. c \in Int
    OBVIOUS
  <2> QED BY <1>1, <2>1, RecordWaiter, CrossStep
<1>2. ASSUME NEW c \in 1 .. MaxCount,
             Record(n, c, FALSE, e, sock) \/ Cross(n, c, FALSE, e, sock)
      PROVE  Handled(sock)
  <2>1. c \in Nat /\ c \in Int
    OBVIOUS
  <2> QED BY <1>2, <2>1, RecordMaster, CrossStep
<1>3. ASSUME Record(n, -1, TRUE, e, sock) \/ Cross(n, -1, TRUE, e, sock)
      PROVE  Handled(sock)
  <2>1. -1 \in Int
    OBVIOUS
  <2> QED BY <1>3, <2>1, RecordWaiter, CrossStep
<1> QED BY <1>1, <1>2, <1>3 DEF HandleRequest

(* A request that came on a connection.                                     *)
LEMMA TcpRequestStep == ASSUME IInv, TcpRequest PROVE IInv'
<1> USE SyncdAssumption
<1>1. Caller(newsock) /\ pc = "read"
  BY DEF TcpRequest, Caller
<1>2. PICK n \in Name, e \in Errors : HandleRequest(n, e, newsock)
  BY DEF TcpRequest
<1>3. Handled(newsock)
  BY <1>1, <1>2, RequestHandled
<1>4. /\ newsock \in open /\ newsock \in Sock /\ newsock \notin sfds \cup fds
      /\ Tcp \notin fds /\ tcpsockets[newsock] = None
  BY <1>1 DEF IInv, TypeOK, SocketTypes, LoopInvariant
<1>5. /\ sfds' \subseteq Sock /\ maxfd' \in 0 .. NSock
      /\ \A s \in sfds' : s <= maxfd'
      /\ \A s \in Sock : tcpsockets'[s] # None => s \in sfds' /\ s <= maxfd'
  <2>1. /\ maxfd \in 0 .. NSock /\ sfds \subseteq Sock /\ \A s \in sfds : s <= maxfd
        /\ \A s \in Sock : tcpsockets[s] # None => s \in sfds
    BY DEF IInv, TypeOK, SocketTypes, LoopInvariant, WaitersWatched
  <2>2. CASE tcpsockets'[newsock] # None
    <3>1. /\ sfds' = sfds \cup {newsock}
          /\ maxfd' = IF newsock > maxfd THEN newsock ELSE maxfd
      BY <2>2 DEF TcpRequest
    <3>2. maxfd' \in 0 .. NSock /\ maxfd <= maxfd' /\ newsock <= maxfd'
      BY <3>1, <2>1, <1>4 DEF Sock
    <3>3. \A s \in sfds' : s <= maxfd'
      BY <3>1, <3>2, <2>1 DEF Sock
    <3> QED BY <3>1, <3>2, <3>3, <2>1, <1>3, <1>4 DEF Handled
  <2>3. CASE tcpsockets'[newsock] = None
    <3>1. MaxTcpSocket(tcpsockets', sfds)
      BY <2>3 DEF TcpRequest
    <3>2. tcpsockets' \in [Sock -> Name \cup {None}]
      BY <1>3 DEF Handled
    <3>3. \A s \in Sock : tcpsockets'[s] # None => s \in sfds
      BY <2>1, <2>3, <1>3 DEF Handled
    <3>4. /\ sfds' = {s \in sfds : tcpsockets'[s] # None}
          /\ maxfd' \in 0 .. NSock /\ \A s \in sfds' : s <= maxfd'
      BY <3>1, <3>2, <3>3, <2>1, MaxTcpSocketKeeps
    <3> QED BY <3>3, <3>4, <2>1
  <2> QED BY <2>2, <2>3
<1>6. /\ fds' = fds /\ pc' = Phase(fds) /\ newsock' = 0
      /\ UNCHANGED <<gotsighup, backlog, dgram, hups>>
  BY DEF TcpRequest, Goto
<1>7. /\ pc' \in {"udp", "scan", "top"}
      /\ pc' = "scan" => fds # {} /\ fds \subseteq Sock
  BY <1>4, <1>6, LatePhases DEF IInv, TypeOK, SocketTypes
<1>8. SocketTypes'
  BY <1>3, <1>5, <1>6 DEF IInv, TypeOK, SocketTypes, Handled
<1>9. LoopTypes'
  BY <1>6, <1>7 DEF IInv, TypeOK, LoopTypes
<1>10. LoopInvariant'
  BY <1>3, <1>4, <1>5, <1>6, <1>7 DEF LoopInvariant, Handled
<1>11. WaitersWatched' /\ NoDescriptorLeak'
  BY <1>3, <1>5 DEF WaitersWatched, NoDescriptorLeak, Handled
<1> QED BY <1>3, <1>8, <1>9, <1>10, <1>11 DEF IInv, TypeOK, Handled

(* A request that came by datagram.                                         *)
LEMMA UdpRequestStep == ASSUME IInv, UdpRequest PROVE IInv'
<1> USE SyncdAssumption
<1>1. Caller(Udp) /\ pc = "udp"
  BY DEF UdpRequest, Caller
<1>2. PICK n \in Name, e \in Errors : HandleRequest(n, e, Udp)
  BY DEF UdpRequest
<1>3. Handled(Udp)
  BY <1>1, <1>2, RequestHandled
<1>4. /\ fds' = fds \ {Udp} /\ pc' = Phase(fds') /\ newsock' = newsock
      /\ newsock = 0 /\ dgram' = FALSE
      /\ UNCHANGED <<fdVars, gotsighup, backlog, hups>>
  BY <1>1 DEF UdpRequest, Goto, IInv, LoopInvariant
<1>5. fds' \subseteq Sock \cup {Tcp, Udp} /\ Tcp \notin fds'
  BY <1>1, <1>4 DEF IInv, TypeOK, SocketTypes, LoopInvariant
<1>6. /\ pc' \in {"udp", "scan", "top"}
      /\ pc' = "scan" => fds' # {} /\ fds' \subseteq Sock
  BY <1>4, <1>5, LatePhases
<1>7. SocketTypes'
  BY <1>3, <1>4, <1>5 DEF IInv, TypeOK, SocketTypes, Handled, fdVars
<1>8. LoopTypes'
  BY <1>4, <1>6 DEF IInv, TypeOK, LoopTypes
<1>9. LoopInvariant'
  BY <1>3, <1>4, <1>5, <1>6 DEF IInv, LoopInvariant, Handled, fdVars
<1>10. WaitersWatched' /\ NoDescriptorLeak'
  BY <1>3, <1>4, Listening DEF IInv, WaitersWatched, NoDescriptorLeak, Handled, fdVars
<1> QED BY <1>3, <1>7, <1>8, <1>9, <1>10 DEF IInv, TypeOK, Handled

(* An invalid request leaves an empty barrier behind and nothing else.      *)
LEMMA InvalidStep == ASSUME IInv, TcpInvalid \/ UdpInvalid PROVE IInv'
<1> USE SyncdAssumption DEF IInv, TypeOK
<1>1. PICK n \in Name : EmptyBarrier(n)
  BY DEF TcpInvalid, UdpInvalid
<1>2. /\ allbarriers' = allbarriers \cup {n}
      /\ UNCHANGED <<count, error, waiters, historyVars, tcpsockets, fdVars,
                     gotsighup, backlog, hups, told>>
  BY <1>1 DEF EmptyBarrier, TcpInvalid, UdpInvalid
<1>3. BarrierTypes' /\ ErrorCovers'
  BY <1>2 DEF BarrierTypes, ErrorCovers, historyVars
<1>4. /\ open' = open \ {newsock} /\ gone' = gone \ {newsock} /\ newsock' = 0
      /\ dgram' \in BOOLEAN
  <2>1. CASE TcpInvalid
    BY <2>1 DEF TcpInvalid, LoopTypes
  <2>2. CASE UdpInvalid
    <3>1. newsock = 0 /\ newsock \notin open
      BY <2>2 DEF UdpInvalid, LoopInvariant, SocketTypes, Sock
    <3> QED BY <3>1, <2>2 DEF UdpInvalid, SocketTypes
  <2> QED BY <2>1, <2>2
<1>5. /\ fds' \subseteq fds /\ Tcp \notin fds'
      /\ pc' = Phase(fds')
  BY DEF TcpInvalid, UdpInvalid, Goto, LoopInvariant
<1>6. /\ pc' \in {"udp", "scan", "top"}
      /\ pc' = "scan" => fds' # {} /\ fds' \subseteq Sock
  BY <1>5, LatePhases DEF SocketTypes
<1>7. newsock \in open => tcpsockets[newsock] = None
  <2>1. CASE TcpInvalid
    BY <2>1 DEF TcpInvalid, LoopInvariant
  <2>2. CASE UdpInvalid
    BY <2>2 DEF UdpInvalid, LoopInvariant, SocketTypes, Sock
  <2> QED BY <2>1, <2>2
<1>8. SocketTypes'
  BY <1>2, <1>4, <1>5 DEF SocketTypes, fdVars
<1>9. LoopTypes'
  BY <1>2, <1>4, <1>6 DEF LoopTypes
<1>10. MapMatchesWaiters'
  BY <1>2, <1>4, <1>7 DEF MapMatchesWaiters, Connections
<1>11. WaitersWatched' /\ NoDescriptorLeak'
  BY <1>2, <1>4 DEF WaitersWatched, NoDescriptorLeak, fdVars
<1>12. LoopInvariant'
  BY <1>2, <1>4, <1>5, <1>6 DEF LoopInvariant, fdVars
<1> QED BY <1>3, <1>8, <1>9, <1>10, <1>11, <1>12

(* clear_barriers() leaves no barrier, no waiter and no watched connection. *)
LEMMA ClearStep == ASSUME IInv, ClearBarriers PROVE IInv'
<1> USE SyncdAssumption
<1> DEFINE ss == UNION {Connections(waiters[n]) : n \in allbarriers}
<1>1. /\ told' = [s \in Sock |-> IF s \in ss THEN SERVER_ERROR_SIGHUP ELSE told[s]]
      /\ open' = open \ ss /\ gone' = gone \ ss
      /\ tcpsockets' = Unmapped(tcpsockets, ss)
      /\ RemoveBarriers(allbarriers) /\ Settled(Name)
      /\ MaxTcpSocket(tcpsockets', sfds)
      /\ gotsighup' = FALSE /\ pc' = "enter" /\ pc = "top"
      /\ UNCHANGED <<fds, newsock, backlog, dgram, hups>>
  BY DEF ClearBarriers, Released
<1>2. \A n \in allbarriers : n \in Name /\ Connections(waiters[n]) \subseteq Sock
  BY ConnectionsAreMapped DEF IInv, TypeOK, BarrierTypes
<1>3. ss \in SUBSET Sock /\ allbarriers \in SUBSET Name
  BY <1>2
<1>4. \A s \in Sock : tcpsockets[s] \in allbarriers <=> s \in ss /\ tcpsockets[s] # None
  <2>1. ASSUME NEW s \in Sock, tcpsockets[s] \in allbarriers
        PROVE  s \in ss /\ tcpsockets[s] # None
    <3>1. tcpsockets[s] \in Name /\ tcpsockets[s] # None
      BY <2>1, <1>3
    <3>2. s \in Connections(waiters[tcpsockets[s]])
      BY <3>1, ConnectionsAreMapped
    <3> QED BY <2>1, <3>1, <3>2
  <2>2. ASSUME NEW s \in Sock, tcpsockets[s] # None
        PROVE  tcpsockets[s] \in allbarriers
    BY <2>2 DEF IInv, MapMatchesWaiters
  <2> QED BY <2>1, <2>2
<1> HIDE DEF ss
<1>5. /\ BarrierTypes' /\ MapMatchesWaiters' /\ ErrorCovers'
      /\ \A n \in Name : n \notin allbarriers' => waiters'[n] = << >>
  BY <1>1, <1>3, <1>4, Freed, SettledTypes
<1>6. /\ tcpsockets' \in [Sock -> Name \cup {None}]
      /\ \A s \in Sock : tcpsockets'[s] = None
  <2>1. \A s \in Sock : tcpsockets[s] # None => s \in ss
    BY <1>4 DEF IInv, MapMatchesWaiters
  <2> QED BY <1>1, <2>1 DEF Unmapped
<1>7. sfds' = {} /\ maxfd' \in 0 .. NSock
  <2>1. /\ maxfd \in 0 .. NSock /\ sfds \in SUBSET Sock
        /\ \A s \in sfds : s <= maxfd
    BY DEF IInv, TypeOK, SocketTypes, LoopInvariant
  <2>2. \A s \in Sock : tcpsockets'[s] # None => s \in sfds
    BY <1>6
  <2>3. /\ sfds' = {s \in sfds : tcpsockets'[s] # None}
        /\ maxfd' \in 0 .. NSock
    BY <1>1, <1>6, <2>1, <2>2, MaxTcpSocketKeeps
  <2> QED BY <1>6, <2>1, <2>3
<1>8. SocketTypes'
  <2>1. told' \in [Sock -> Int]
    BY <1>1 DEF IInv, TypeOK, SocketTypes, SERVER_ERROR_SIGHUP
  <2>2. open' \subseteq Sock /\ gone' \subseteq open'
    BY <1>1 DEF IInv, TypeOK, SocketTypes
  <2>3. fds' \subseteq Sock \cup {Tcp, Udp}
    BY <1>1 DEF IInv, TypeOK, SocketTypes
  <2> QED BY <1>6, <1>7, <2>1, <2>2, <2>3 DEF SocketTypes
<1>9. LoopTypes'
  BY <1>1 DEF IInv, TypeOK, LoopTypes
<1>10. LoopInvariant'
  BY <1>1, <1>5, <1>7 DEF IInv, LoopInvariant
<1>11. WaitersWatched'
  BY <1>6 DEF WaitersWatched
<1>12. NoDescriptorLeak'
  <2>1. newsock = 0 /\ newsock \notin open /\ open \subseteq Sock
    BY <1>1 DEF IInv, TypeOK, LoopInvariant, SocketTypes, Sock
  <2>2. \A s \in open : tcpsockets[s] # None
    BY <2>1 DEF IInv, NoDescriptorLeak
  <2>3. \A s \in open : s \in ss
    BY <1>4, <2>1, <2>2 DEF IInv, MapMatchesWaiters
  <2> QED BY <1>1, <2>3 DEF NoDescriptorLeak
<1> QED BY <1>5, <1>8, <1>9, <1>10, <1>11, <1>12 DEF IInv, TypeOK

---------------------------------------------------------------------------
(* remove_tcpclient() finds the connection it was called for.               *)
LEMMA ScanFinds ==
  ASSUME IInv, pc = "scan", Lowest \in gone
  PROVE  /\ Lowest \in fds /\ Lowest \in Sock /\ Lowest \in open
         /\ tcpsockets[Lowest] \in Name /\ tcpsockets[Lowest] # None
         /\ Position(tcpsockets[Lowest], Lowest)
              \in DOMAIN waiters[tcpsockets[Lowest]]
         /\ waiters[tcpsockets[Lowest]][Position(tcpsockets[Lowest], Lowest)].sock
              = Lowest
<1>1. fds \in SUBSET Nat /\ fds # {} /\ fds \subseteq Sock
  BY SyncdAssumption DEF IInv, LoopInvariant, Sock
<1>2. Lowest \in fds
  BY <1>1, LeastExists DEF Lowest
<1>3. Lowest \in Sock /\ Lowest \in open /\ Lowest # newsock
  BY <1>1, <1>2 DEF IInv, TypeOK, SocketTypes, LoopInvariant, Sock
<1>4. tcpsockets[Lowest] # None
  BY <1>3 DEF IInv, NoDescriptorLeak
<1>5. /\ tcpsockets[Lowest] \in Name
      /\ \E i \in DOMAIN waiters[tcpsockets[Lowest]] :
           waiters[tcpsockets[Lowest]][i].sock = Lowest
  BY <1>3, <1>4, MappedWaits
<1>6. /\ Position(tcpsockets[Lowest], Lowest) \in DOMAIN waiters[tcpsockets[Lowest]]
      /\ waiters[tcpsockets[Lowest]][Position(tcpsockets[Lowest], Lowest)].sock = Lowest
  BY <1>5 DEF Position
<1> QED BY <1>2, <1>3, <1>4, <1>5, <1>6

(* Packing a list of waiters over position k keeps the others, in order.    *)
LEMMA PackedFacts ==
  ASSUME NEW ws \in Seq(Waiter), NEW k \in DOMAIN ws
  PROVE  /\ Packed(ws, k) \in Seq(Waiter)
         /\ DOMAIN Packed(ws, k) = 1 .. Len(ws) - 1
         /\ \A i \in 1 .. Len(ws) - 1 :
              \E j \in DOMAIN ws : /\ j # k /\ Packed(ws, k)[i] = ws[j]
                                  /\ j = IF i < k THEN i ELSE i + 1
         /\ \A j \in DOMAIN ws : j # k =>
              \E i \in 1 .. Len(ws) - 1 : Packed(ws, k)[i] = ws[j]
<1>1. /\ Len(ws) \in Nat /\ DOMAIN ws = 1 .. Len(ws) /\ k \in 1 .. Len(ws)
      /\ Len(ws) - 1 \in Nat
  OBVIOUS
<1>2. \A i \in 1 .. Len(ws) - 1 :
        Packed(ws, k)[i] = IF i < k THEN ws[i] ELSE ws[i + 1]
  BY DEF Packed
<1>3. ASSUME NEW i \in 1 .. Len(ws) - 1
      PROVE  \E j \in DOMAIN ws : /\ j # k /\ Packed(ws, k)[i] = ws[j]
                                  /\ j = IF i < k THEN i ELSE i + 1
  <2>1. CASE i < k
    BY <2>1, <1>1, <1>2
  <2>2. CASE ~ (i < k)
    <3>1. i + 1 \in DOMAIN ws /\ i + 1 # k
      BY <2>2, <1>1
    <3> QED BY <2>2, <3>1, <1>2
  <2> QED BY <2>1, <2>2
<1>4. ASSUME NEW j \in DOMAIN ws, j # k
      PROVE  \E i \in 1 .. Len(ws) - 1 : Packed(ws, k)[i] = ws[j]
  <2>1. CASE j < k
    <3>1. j \in 1 .. Len(ws) - 1
      BY <2>1, <1>1
    <3> QED BY <2>1, <3>1, <1>2
  <2>2. CASE ~ (j < k)
    <3>1. j - 1 \in 1 .. Len(ws) - 1 /\ ~ (j - 1 < k) /\ (j - 1) + 1 = j
      BY <2>2, <1>1, <1>4
    <3> QED BY <3>1, <1>2
  <2> QED BY <2>1, <2>2
<1>5. Packed(ws, k) \in [1 .. Len(ws) - 1 -> Waiter]
  <2>1. \A i \in 1 .. Len(ws) - 1 : (IF i < k THEN ws[i] ELSE ws[i + 1]) \in Waiter
    BY <1>1
  <2> QED BY <2>1 DEF Packed
<1>6. Packed(ws, k) \in Seq(Waiter)
  BY <1>1, <1>5
<1>7. DOMAIN Packed(ws, k) = 1 .. Len(ws) - 1
  BY DEF Packed
<1> QED BY <1>3, <1>4, <1>6, <1>7

(* remove_tcpclient() keeps the map and the lists in step.                  *)
LEMMA RemoveClient ==
  ASSUME IInv, pc = "scan", Lowest \in gone, RemoveTcpClient(Lowest),
         open' = open \ {Lowest}
  PROVE  /\ BarrierTypes' /\ MapMatchesWaiters' /\ ErrorCovers'
         /\ tcpsockets' = [s \in Sock |-> IF s = Lowest THEN None ELSE tcpsockets[s]]
         /\ \A n \in Name : n \notin allbarriers' => waiters'[n] = << >>
<1> USE SyncdAssumption
<1> DEFINE n == tcpsockets[Lowest]
           k == Position(n, Lowest)
           L == Len(waiters[n])
<1>1. /\ Lowest \in Sock /\ n \in Name /\ n # None
      /\ k \in DOMAIN waiters[n] /\ waiters[n][k].sock = Lowest
  BY ScanFinds
<1>2. tcpsockets' = [s \in Sock |-> IF s = Lowest THEN None ELSE tcpsockets[s]]
  BY <1>1 DEF RemoveTcpClient, IInv, TypeOK, SocketTypes
<1>3. /\ waiters[n] \in Seq(Waiter) /\ L \in Nat /\ DOMAIN waiters[n] = 1 .. L
      /\ k \in 1 .. L
  BY <1>1 DEF IInv, TypeOK, BarrierTypes
<1>4. \A j \in DOMAIN waiters[n] : j # k => waiters[n][j].sock # Lowest
  BY <1>1, Listening DEF IInv, MapMatchesWaiters
<1>5. CASE L = 1
  <2>1. /\ RemoveBarriers({n})
        /\ promised' \in [Name -> Nat] /\ forgotten' \subseteq Name
    BY <1>1, <1>5 DEF RemoveTcpClient, Forget, IInv, TypeOK, BarrierTypes
  <2>2. tcpsockets' = Unmapped(tcpsockets, {Lowest})
    BY <1>2 DEF Unmapped
  <2>3. \A s \in Sock : tcpsockets[s] \in {n} <=> s \in {Lowest} /\ tcpsockets[s] # None
    <3>1. ASSUME NEW s \in Sock, tcpsockets[s] = n PROVE s = Lowest
      <4>1. PICK i \in DOMAIN waiters[n] : waiters[n][i].sock = s
        BY <3>1, <1>1, MappedWaits
      <4>2. i = k
        BY <4>1, <1>3, <1>5
      <4> QED BY <4>1, <4>2, <1>1
    <3> QED BY <3>1, <1>1
  <2>4. {n} \in SUBSET Name /\ {Lowest} \in SUBSET Sock
    BY <1>1
  <2> HIDE DEF n
  <2> QED BY <2>1, <2>2, <2>3, <2>4, <1>2, Freed
<1>6. CASE L # 1
  <2>1. /\ count' = [count EXCEPT ![n] = @ - waiters[n][k].count]
        /\ waiters' = [waiters EXCEPT ![n] = Packed(@, k)]
        /\ UNCHANGED <<allbarriers, error, promised, forgotten>>
    BY <1>6 DEF RemoveTcpClient, historyVars
  <2> HIDE DEF k, n
  <2>2. /\ Packed(waiters[n], k) \in Seq(Waiter)
        /\ DOMAIN Packed(waiters[n], k) = 1 .. L - 1
        /\ \A i \in 1 .. L - 1 :
             \E j \in DOMAIN waiters[n] :
               /\ j # k /\ Packed(waiters[n], k)[i] = waiters[n][j]
               /\ j = IF i < k THEN i ELSE i + 1
        /\ \A j \in DOMAIN waiters[n] : j # k =>
             \E i \in 1 .. L - 1 : Packed(waiters[n], k)[i] = waiters[n][j]
    <3> DEFINE W == waiters[n]
    <3>1. W \in Seq(Waiter) /\ k \in DOMAIN W /\ L = Len(W)
      BY <1>1, <1>3
    <3> HIDE DEF W, L
    <3>2. /\ Packed(W, k) \in Seq(Waiter)
          /\ DOMAIN Packed(W, k) = 1 .. Len(W) - 1
          /\ \A i \in 1 .. Len(W) - 1 :
               \E j \in DOMAIN W : /\ j # k /\ Packed(W, k)[i] = W[j]
                                  /\ j = IF i < k THEN i ELSE i + 1
          /\ \A j \in DOMAIN W : j # k =>
               \E i \in 1 .. Len(W) - 1 : Packed(W, k)[i] = W[j]
      BY <3>1, PackedFacts
    <3> QED BY <3>1, <3>2 DEF W
  <2>3. /\ waiters'[n] = Packed(waiters[n], k)
        /\ \A m \in Name : m # n => waiters'[m] = waiters[m]
        /\ waiters' \in [Name -> Seq(Waiter)]
    BY <2>1, <2>2, <1>1 DEF IInv, TypeOK, BarrierTypes
  <2>4. BarrierTypes'
    <3>1. waiters[n][k].count \in Int
      <4>1. waiters[n][k] \in Waiter
        BY <1>3
      <4> QED BY <4>1 DEF Waiter
    <3> QED BY <3>1, <2>1, <2>3, <1>1 DEF IInv, TypeOK, BarrierTypes
  <2>5. ErrorCovers'
    <3>1. ASSUME NEW m \in Name, NEW i \in DOMAIN waiters'[m]
          PROVE  waiters'[m][i].error <= error'[m]
      <4>1. CASE m = n
        <5>1. PICK j \in DOMAIN waiters[n] : waiters'[n][i] = waiters[n][j]
          BY <4>1, <3>1, <2>2, <2>3
        <5> QED BY <4>1, <5>1, <2>1, <1>1 DEF IInv, ErrorCovers
      <4>2. CASE m # n
        BY <4>2, <3>1, <2>1, <2>3 DEF IInv, ErrorCovers
      <4> QED BY <4>1, <4>2
    <3> QED BY <3>1, <2>1 DEF IInv, ErrorCovers
  <2>6. MapMatchesWaiters'
    <3>1. ASSUME NEW m \in Name, NEW i \in DOMAIN waiters'[m],
                 waiters'[m][i].sock # Udp
          PROVE  /\ tcpsockets'[waiters'[m][i].sock] = m
                 /\ waiters'[m][i].sock \in open'
                 /\ \A j \in DOMAIN waiters'[m] :
                      waiters'[m][j].sock = waiters'[m][i].sock => i = j
      <4>1. CASE m # n
        <5>1. /\ waiters'[m] = waiters[m] /\ i \in DOMAIN waiters[m]
              /\ waiters[m][i] \in Waiter
          BY <4>1, <3>1, <2>3 DEF IInv, TypeOK, BarrierTypes
        <5>2. /\ tcpsockets[waiters[m][i].sock] = m /\ waiters[m][i].sock \in open
              /\ waiters[m][i].sock \in Sock
              /\ \A j \in DOMAIN waiters[m] :
                   waiters[m][j].sock = waiters[m][i].sock => i = j
          BY <5>1, <3>1 DEF IInv, MapMatchesWaiters, Waiter
        <5>3. waiters[m][i].sock # Lowest
          BY <5>2, <4>1 DEF n
        <5> QED BY <5>1, <5>2, <5>3, <1>2
      <4>2. CASE m = n
        <5>1. i \in 1 .. L - 1
          BY <4>2, <3>1, <2>2, <2>3
        <5>2. PICK j \in DOMAIN waiters[n] :
                /\ j # k /\ waiters'[n][i] = waiters[n][j]
                /\ j = IF i < k THEN i ELSE i + 1
          BY <5>1, <2>2, <2>3
        <5>3. waiters[n][j] \in Waiter
          BY <5>2, <1>3
        <5>4. /\ tcpsockets[waiters[n][j].sock] = n /\ waiters[n][j].sock \in open
              /\ waiters[n][j].sock \in Sock /\ waiters[n][j].sock # Lowest
              /\ \A h \in DOMAIN waiters[n] :
                   waiters[n][h].sock = waiters[n][j].sock => h = j
          BY <5>2, <5>3, <4>2, <3>1, <1>1, <1>4 DEF IInv, MapMatchesWaiters, Waiter
        <5>5. ASSUME NEW i2 \in DOMAIN waiters'[m],
                     waiters'[m][i2].sock = waiters'[m][i].sock
              PROVE  i = i2
          <6>1. i2 \in 1 .. L - 1
            BY <4>2, <2>2, <2>3
          <6>2. PICK j2 \in DOMAIN waiters[n] :
                  /\ waiters'[n][i2] = waiters[n][j2]
                  /\ j2 = IF i2 < k THEN i2 ELSE i2 + 1
            BY <6>1, <2>2, <2>3
          <6>3. j2 = j
            BY <6>2, <5>2, <5>4, <5>5, <4>2
          <6> QED BY <6>1, <6>2, <6>3, <5>1, <5>2, <1>3
        <5> QED BY <4>2, <5>2, <5>4, <5>5, <1>2
      <4> QED BY <4>1, <4>2
    <3>2. ASSUME NEW s \in Sock, tcpsockets'[s] # None
          PROVE  /\ tcpsockets'[s] \in allbarriers'
                 /\ s \in Connections(waiters'[tcpsockets'[s]])
      <4>1. s # Lowest /\ tcpsockets'[s] = tcpsockets[s] /\ s # Udp
        BY <3>2, <1>2, Listening
      <4>2. PICK j \in DOMAIN waiters[tcpsockets[s]] :
              waiters[tcpsockets[s]][j].sock = s
        BY <4>1, <3>2, MappedWaits
      <4>3. tcpsockets[s] \in Name /\ tcpsockets[s] \in allbarriers
        BY <4>1, <3>2, MappedWaits DEF IInv, MapMatchesWaiters
      <4>4. \E i \in DOMAIN waiters'[tcpsockets[s]] :
              waiters'[tcpsockets[s]][i].sock = s
        <5>1. CASE tcpsockets[s] = n
          <6>1. j \in DOMAIN waiters[n] /\ j # k /\ waiters[n][j].sock = s
            BY <5>1, <4>1, <4>2, <1>1
          <6>2. PICK i \in 1 .. L - 1 : Packed(waiters[n], k)[i] = waiters[n][j]
            BY <6>1, <2>2
          <6>3. i \in DOMAIN waiters'[n] /\ waiters'[n][i] = waiters[n][j]
            BY <6>2, <2>2, <2>3
          <6> QED BY <5>1, <6>1, <6>3
        <5>2. CASE tcpsockets[s] # n
          BY <5>2, <4>2, <4>3, <2>3
        <5> QED BY <5>1, <5>2
      <4>5. s \in Connections(waiters'[tcpsockets[s]])
        BY <4>1, <4>4 DEF Connections
      <4> QED BY <4>1, <4>3, <4>5, <2>1
    <3> QED BY <3>1, <3>2 DEF MapMatchesWaiters
  <2>7. \A m \in Name : m \notin allbarriers' => waiters'[m] = << >>
    <3>1. n \in allbarriers
      BY <1>1 DEF IInv, MapMatchesWaiters, n
    <3> QED BY <3>1, <2>1, <2>3 DEF IInv, LoopInvariant
  <2> QED BY <2>4, <2>5, <2>6, <2>7, <1>2
<1> QED BY <1>5, <1>6

(* A client that has gone is taken off its barrier.                         *)
LEMMA ScanGoneStep == ASSUME IInv, ScanGone PROVE IInv'
<1> USE SyncdAssumption
<1>1. /\ pc = "scan" /\ Lowest \in gone
      /\ open' = open \ {Lowest} /\ gone' = gone \ {Lowest}
      /\ RemoveTcpClient(Lowest)
      /\ fds' = fds \ {Lowest} /\ pc' = Phase(fds')
      /\ UNCHANGED <<gotsighup, newsock, backlog, dgram, hups, told>>
  BY DEF ScanGone, Goto
<1>2. /\ BarrierTypes' /\ MapMatchesWaiters' /\ ErrorCovers'
      /\ tcpsockets' = [s \in Sock |-> IF s = Lowest THEN None ELSE tcpsockets[s]]
      /\ \A n \in Name : n \notin allbarriers' => waiters'[n] = << >>
  BY <1>1, RemoveClient
<1>3. Lowest \in Sock
  BY <1>1, ScanFinds
<1>4. /\ fds \subseteq Sock /\ newsock = 0 /\ Tcp \notin fds'
      /\ fds' \subseteq Sock \cup {Tcp, Udp}
  BY <1>1, Listening DEF IInv, LoopInvariant
<1>5. /\ pc' \in {"udp", "scan", "top"}
      /\ pc' = "scan" => fds' # {} /\ fds' \subseteq Sock
  BY <1>1, <1>4, LatePhases
<1>6. tcpsockets' \in [Sock -> Name \cup {None}]
  BY <1>2 DEF IInv, TypeOK, SocketTypes
<1>7. /\ sfds' \subseteq Sock /\ maxfd' \in 0 .. NSock
      /\ \A s \in sfds' : s <= maxfd'
      /\ \A s \in Sock : tcpsockets'[s] # None => s \in sfds' /\ s <= maxfd'
  <2>1. /\ maxfd \in 0 .. NSock /\ sfds \subseteq Sock
        /\ \A s \in sfds : s <= maxfd
        /\ \A s \in Sock : tcpsockets[s] # None => s \in sfds
    BY DEF IInv, TypeOK, SocketTypes, LoopInvariant, WaitersWatched
  <2>2. \A s \in Sock : tcpsockets'[s] # None => s \in sfds \ {Lowest}
    BY <2>1, <1>2
  <2>3. CASE Lowest = maxfd
    <3>1. MaxTcpSocket(tcpsockets', sfds \ {Lowest})
      BY <2>3 DEF ScanGone
    <3>2. /\ sfds \ {Lowest} \in SUBSET Sock
          /\ \A s \in sfds \ {Lowest} : s <= maxfd
      BY <2>1
    <3>3. /\ sfds' = {s \in sfds \ {Lowest} : tcpsockets'[s] # None}
          /\ maxfd' \in 0 .. NSock /\ \A s \in sfds' : s <= maxfd'
      BY <3>1, <3>2, <2>1, <2>2, <1>6, MaxTcpSocketKeeps
    <3> QED BY <3>3, <2>1, <2>2
  <2>4. CASE Lowest # maxfd
    <3>1. sfds' = sfds \ {Lowest} /\ maxfd' = maxfd
      BY <2>4 DEF ScanGone
    <3> QED BY <3>1, <2>1, <2>2
  <2> QED BY <2>3, <2>4
<1>8. SocketTypes'
  BY <1>1, <1>4, <1>6, <1>7 DEF IInv, TypeOK, SocketTypes
<1>9. LoopTypes'
  BY <1>1, <1>5 DEF IInv, TypeOK, LoopTypes
<1>10. LoopInvariant'
  BY <1>1, <1>2, <1>4, <1>5, <1>7 DEF LoopInvariant
<1>11. WaitersWatched' /\ NoDescriptorLeak'
  BY <1>1, <1>2, <1>7 DEF IInv, TypeOK, SocketTypes, WaitersWatched, NoDescriptorLeak
<1> QED BY <1>2, <1>8, <1>9, <1>10, <1>11 DEF IInv, TypeOK

---------------------------------------------------------------------------
(* The invariant is inductive.                                              *)
THEOREM NextIInv == IInv /\ [Next]_vars => IInv'
<1> SUFFICES ASSUME IInv, [Next]_vars PROVE IInv'
  OBVIOUS
<1>1. CASE Daemon
  <2>1. CASE \/ Top \/ EnterSelect \/ SelectReturns \/ AcceptFailed \/ UdpFailed
             \/ ScanClosed
    BY <2>1, LoopSteps
  <2>2. CASE \/ ClearBarriers \/ Accept \/ ReadAborted \/ TcpInvalid \/ UdpInvalid
             \/ TcpRequest \/ UdpRequest \/ Overrun \/ ScanGone
    BY <2>2, ClearStep, AcceptStep, AbortStep, InvalidStep, TcpRequestStep,
       UdpRequestStep, OverrunStep, ScanGoneStep
  <2> QED BY <1>1, <2>1, <2>2 DEF Daemon
<1>2. CASE Clients
  BY <1>2, LoopSteps DEF Clients
<1>3. CASE UNCHANGED vars
  <2>1. Quiet /\ UNCHANGED <<fds, gotsighup, pc, clientVars>>
    BY <1>3 DEF vars, Quiet
  <2>2. SocketTypes' /\ LoopTypes' /\ LoopInvariant'
    BY <2>1 DEF IInv, TypeOK, SocketTypes, LoopTypes, LoopInvariant, Quiet,
                barrierVars, fdVars, clientVars
  <2> QED BY <2>1, <2>2, QuietStep DEF IInv, TypeOK
<1> QED BY <1>1, <1>2, <1>3 DEF Next

(* The invariant holds in every reachable state.                            *)
THEOREM SpecIInv == Spec => []IInv
  BY InitIInv, NextIInv, PTL DEF Spec

(* Every variable of the server keeps its type.                             *)
THEOREM TypesKept == Spec => []TypeOK
<1>1. IInv => TypeOK
  BY DEF IInv
<1> QED BY <1>1, SpecIInv, PTL

(* The map from connections to barriers always agrees with the lists of     *)
(* waiters: tcpsockets[] never points at a freed barrier, and no waiter is  *)
(* left with a closed descriptor (835, 875, 910).                           *)
THEOREM MapKept == Spec => []MapMatchesWaiters
<1>1. IInv => MapMatchesWaiters
  BY DEF IInv
<1> QED BY <1>1, SpecIInv, PTL

(* Every waiting connection is watched, so that its closing is seen.        *)
THEOREM WatchKept == Spec => []WaitersWatched
<1>1. IInv => WaitersWatched
  BY DEF IInv
<1> QED BY <1>1, SpecIInv, PTL

(* main() leaks no descriptor, whichever way a request ends.                *)
THEOREM NoLeak == Spec => []NoDescriptorLeak
<1>1. IInv => NoDescriptorLeak
  BY DEF IInv
<1> QED BY <1>1, SpecIInv, PTL

(* What main() relies on between the phases of its loop: select() is given  *)
(* open descriptors, and no number it reported is closed before accept()    *)
(* could hand it out again (362-481).                                       *)
THEOREM LoopKept == Spec => []LoopInvariant
<1>1. IInv => LoopInvariant
  BY DEF IInv
<1> QED BY <1>1, SpecIInv, PTL

(* The error of a barrier is one that was sent, and covers its waiters.     *)
THEOREM ErrorKept == Spec => []ErrorCovers
<1>1. IInv => ErrorCovers
  BY DEF IInv
<1> QED BY <1>1, SpecIInv, PTL

(* remove_tcpclient() never meets a NULL barrier pointer, even when the     *)
(* connection was answered and closed in the same round (874-876).          *)
THEOREM RemovesOnlyWaitersKept == Spec => []RemovesOnlyWaiters
<1>1. IInv => RemovesOnlyWaiters
  <2> SUFFICES ASSUME IInv, NEW s \in fds \cap gone PROVE tcpsockets[s] # None
    BY DEF RemovesOnlyWaiters
  <2>1. s \in open /\ s \in Sock
    BY DEF IInv, TypeOK, SocketTypes
  <2>2. s # newsock
    <3>1. CASE pc = "read"
      BY <3>1 DEF IInv, LoopInvariant
    <3>2. CASE pc # "read"
      BY <3>2, <2>1, SyncdAssumption DEF IInv, LoopInvariant, Sock
    <3> QED BY <3>1, <3>2
  <2> QED BY <2>1, <2>2 DEF IInv, NoDescriptorLeak
<1> QED BY <1>1, SpecIInv, PTL

---------------------------------------------------------------------------
(* The error of a client is a number below the daemon's own codes.          *)
LEMMA ErrorCodes == \A v \in Errors : v \in Nat /\ v <= SERVER_ERROR_SIGHUP
<1> SUFFICES ASSUME NEW v \in Errors PROVE v \in Nat /\ v <= SERVER_ERROR_SIGHUP
  OBVIOUS
<1>1. Errors \subseteq 0 .. (SERVER_ERROR_SIGHUP - 1)
  BY SyncdAssumption
<1>2. v \in 0 .. (SERVER_ERROR_SIGHUP - 1)
  BY <1>1, Zenon
<1> QED BY <1>2 DEF SERVER_ERROR_SIGHUP

(* Which step can answer whom.  A waiter's connection is open and in the    *)
(* map, so neither a new connection nor a caller is one.                    *)
LEMMA WaiterFacts ==
  ASSUME IInv, NEW n \in Name, NEW s \in Connections(waiters[n])
  PROVE  /\ s \in Sock /\ s \in open /\ tcpsockets[s] = n /\ tcpsockets[s] # None
         /\ n \in allbarriers
<1>1. s \in Sock /\ tcpsockets[s] = n
  BY ConnectionsAreMapped
<1>2. tcpsockets[s] # None
  BY <1>1, SyncdAssumption
<1> QED BY <1>1, <1>2, MappedWaits DEF IInv, MapMatchesWaiters

(* A request answers the waiters of a barrier only by crossing it.          *)
LEMMA RequestAnswersAll ==
  ASSUME IInv, NEW m \in Name, NEW e \in Errors, NEW sock, Caller(sock),
         HandleRequest(m, e, sock), NEW n \in Name
  PROVE  AnswersAll(n)
<1> USE SyncdAssumption
<1> SUFFICES ASSUME NEW s \in Connections(waiters[n]), told'[s] # told[s]
             PROVE  /\ n \notin allbarriers'
                    /\ \E v \in Errors \cup {SERVER_ERROR_SIGHUP} :
                         \A i \in DOMAIN waiters[n] :
                           /\ waiters[n][i].error <= v
                           /\ waiters[n][i].sock # Udp =>
                                /\ told'[waiters[n][i].sock] = v
                                /\ waiters[n][i].sock \notin open'
  BY DEF AnswersAll
<1>1. /\ s \in Sock /\ s \in open /\ tcpsockets[s] = n /\ tcpsockets[s] # None
  BY WaiterFacts
<1>2. s # sock
  BY <1>1, CallerFacts, Listening
<1>3. ASSUME NEW c, NEW w \in BOOLEAN, Record(m, c, w, e, sock) PROVE FALSE
  <2>1. CASE w
    BY <1>3, <2>1 DEF Record
  <2>2. CASE ~w
    <3>1. told' = [t \in Sock |-> IF t \in {sock} \ {Udp} THEN 0 ELSE told[t]]
      BY <1>3, <2>2 DEF Record, Released
    <3> QED BY <3>1, <1>1, <1>2
  <2> QED BY <2>1, <2>2
<1>4. PICK c \in Int, w \in BOOLEAN : Cross(m, c, w, e, sock)
  <2>1. \E c \in Int, w \in BOOLEAN : Record(m, c, w, e, sock) \/ Cross(m, c, w, e, sock)
    <3>1. (\A c \in 1 .. MaxCount : c \in Int) /\ -1 \in Int
      OBVIOUS
    <3> QED BY <3>1, Zenon DEF HandleRequest
  <2> QED BY <2>1, <1>3
<1> DEFINE ws == Connections(waiters[m])
           caller == {sock} \ {Udp}
           result == IF w /\ e > error[m] THEN e ELSE error[m]
<1>5. /\ told' = [t \in Sock |-> IF t \in ws THEN result
                                 ELSE IF t \in caller
                                 THEN IF w THEN result ELSE 0
                                 ELSE told[t]]
      /\ open' = open \ (ws \cup caller)
      /\ allbarriers' = allbarriers \ {m}
  BY <1>4 DEF Cross, RemoveBarriers
<1>6. n = m
  <2>1. s \in ws
    BY <1>1, <1>2, <1>5
  <2> QED BY <2>1, <1>1, WaiterFacts
<1>7. result \in Errors /\ error[m] <= result /\ result \in Nat /\ error[m] \in Nat
  <2>1. error[m] \in Errors
    BY DEF IInv, ErrorCovers
  <2>2. error[m] \in Nat /\ e \in Nat
    BY <2>1, ErrorCodes
  <2> QED BY <2>1, <2>2
<1> HIDE DEF result
<1>8. ASSUME NEW i \in DOMAIN waiters[n]
      PROVE  /\ waiters[n][i].error <= result
             /\ waiters[n][i].sock # Udp => /\ told'[waiters[n][i].sock] = result
                                            /\ waiters[n][i].sock \notin open'
  <2>1. waiters[n][i].error <= error[n]
    BY DEF IInv, ErrorCovers
  <2>2. waiters[n][i] \in Waiter
    BY DEF IInv, TypeOK, BarrierTypes
  <2>3. waiters[n][i].error \in Nat /\ waiters[n][i].sock \in Sock \cup {Udp}
    BY <2>2 DEF Waiter
  <2>4. waiters[n][i].error <= result
    BY <2>1, <2>3, <1>6, <1>7
  <2>5. waiters[n][i].sock # Udp => waiters[n][i].sock \in ws
    BY <1>6 DEF Connections
  <2> QED BY <2>3, <2>4, <2>5, <1>5
<1> QED BY <1>5, <1>6, <1>7, <1>8

(* A SIGHUP answers every waiter of every barrier with its own code, which  *)
(* is above every error a client can send.                                  *)
LEMMA ClearAnswersAll ==
  ASSUME IInv, ClearBarriers, NEW n \in Name
  PROVE  AnswersAll(n)
<1> USE SyncdAssumption
<1> DEFINE ss == UNION {Connections(waiters[m]) : m \in allbarriers}
<1> SUFFICES ASSUME NEW s \in Connections(waiters[n])
             PROVE  /\ n \notin allbarriers'
                    /\ \E v \in Errors \cup {SERVER_ERROR_SIGHUP} :
                         \A i \in DOMAIN waiters[n] :
                           /\ waiters[n][i].error <= v
                           /\ waiters[n][i].sock # Udp =>
                                /\ told'[waiters[n][i].sock] = v
                                /\ waiters[n][i].sock \notin open'
  BY DEF AnswersAll
<1>1. n \in allbarriers
  BY WaiterFacts
<1>2. /\ told' = [t \in Sock |-> IF t \in ss THEN SERVER_ERROR_SIGHUP ELSE told[t]]
      /\ open' = open \ ss /\ allbarriers' = {}
  BY DEF ClearBarriers, Released, RemoveBarriers
<1>3. Connections(waiters[n]) \subseteq ss
  BY <1>1
<1> HIDE DEF ss
<1>4. ASSUME NEW i \in DOMAIN waiters[n]
      PROVE  /\ waiters[n][i].error <= SERVER_ERROR_SIGHUP
             /\ waiters[n][i].sock # Udp =>
                  /\ told'[waiters[n][i].sock] = SERVER_ERROR_SIGHUP
                  /\ waiters[n][i].sock \notin open'
  <2>1. waiters[n][i].error <= error[n] /\ error[n] \in Errors
    BY DEF IInv, ErrorCovers
  <2>2. waiters[n][i] \in Waiter
    BY DEF IInv, TypeOK, BarrierTypes
  <2>3. waiters[n][i].error \in Nat /\ waiters[n][i].sock \in Sock \cup {Udp}
    BY <2>2 DEF Waiter
  <2>4. waiters[n][i].error <= SERVER_ERROR_SIGHUP
    <3>1. error[n] \in Nat /\ error[n] <= SERVER_ERROR_SIGHUP
      BY <2>1, ErrorCodes
    <3> QED BY <3>1, <2>1, <2>3 DEF SERVER_ERROR_SIGHUP
  <2>5. waiters[n][i].sock # Udp => waiters[n][i].sock \in ss
    BY <1>3 DEF Connections
  <2> QED BY <2>3, <2>4, <2>5, <1>2
<1> QED BY <1>2, <1>4

(* Every step answers all the waiters of a barrier or none.                 *)
LEMMA StepAnswersAll ==
  ASSUME IInv, [Next]_vars, NEW n \in Name
  PROVE  AnswersAll(n)
<1>1. CASE UNCHANGED told
  BY <1>1 DEF AnswersAll
<1>2. CASE Accept
  <2> SUFFICES ASSUME NEW s \in Connections(waiters[n]) PROVE told'[s] = told[s]
    BY DEF AnswersAll
  <2>1. s \in Sock /\ s \in open
    BY WaiterFacts
  <2>2. newsock' \in Sock \ open
    <3> DEFINE free == Sock \ open
    <3>1. free \in SUBSET Nat /\ free # {}
      BY <1>2, SyncdAssumption DEF Accept, Sock
    <3>2. \E x \in free : \A y \in free : x <= y
      BY <3>1, LeastExists
    <3>3. newsock' = CHOOSE x \in free : \A y \in free : x <= y
      BY <1>2 DEF Accept
    <3> QED BY <3>2, <3>3
  <2>3. told' = [told EXCEPT ![newsock'] = Silent]
    BY <1>2 DEF Accept
  <2> QED BY <2>1, <2>2, <2>3 DEF IInv, TypeOK, SocketTypes
<1>3. CASE ClearBarriers
  BY <1>3, ClearAnswersAll
<1>4. CASE TcpRequest
  <2>1. Caller(newsock)
    BY <1>4 DEF TcpRequest, Caller
  <2>2. PICK m \in Name, e \in Errors : HandleRequest(m, e, newsock)
    BY <1>4 DEF TcpRequest
  <2> QED BY <2>1, <2>2, RequestAnswersAll
<1>5. CASE UdpRequest
  <2>1. Caller(Udp)
    BY <1>5 DEF UdpRequest, Caller
  <2>2. PICK m \in Name, e \in Errors : HandleRequest(m, e, Udp)
    BY <1>5 DEF UdpRequest
  <2> QED BY <2>1, <2>2, RequestAnswersAll
<1>6. CASE \/ Top \/ EnterSelect \/ SelectReturns \/ AcceptFailed \/ UdpFailed
           \/ ScanClosed \/ HandleSighup \/ Connect \/ SendDatagram \/ ClientGone
  BY <1>1, <1>6, LoopSteps DEF Quiet
<1>7. CASE ReadAborted \/ TcpInvalid \/ UdpInvalid \/ Overrun \/ ScanGone
  BY <1>1, <1>7 DEF ReadAborted, TcpInvalid, UdpInvalid, Overrun, ScanGone
<1>8. CASE UNCHANGED vars
  BY <1>1, <1>8 DEF vars
<1> QED BY <1>2, <1>3, <1>4, <1>5, <1>6, <1>7, <1>8 DEF Next, Daemon, Clients

(* The waiters of a barrier are answered together, with one value no        *)
(* smaller than any error among them, when the barrier is crossed or        *)
(* cleared and not before (842-860, 519-544).                               *)
THEOREM TogetherKept == Spec => ReleasedTogether
<1>1. IInv /\ [Next]_vars => [\A n \in Name : AnswersAll(n)]_vars
  BY StepAnswersAll
<1> QED BY <1>1, SpecIInv, PTL DEF Spec, ReleasedTogether

---------------------------------------------------------------------------
(* f holds the sums of the counts of the first waiters of ws, up to n.      *)
PartialSums(f, ws, n) ==
  f = [i \in 0 .. n |-> IF i = 0 THEN 0 ELSE f[i - 1] + ws[i].count]

(* The partial sums exist: the recursion of SumCounts is well defined.      *)
LEMMA SumsExist ==
  ASSUME NEW ws \in Seq(Waiter), NEW n \in 0 .. Len(ws)
  PROVE  \E f \in [0 .. n -> Int] : PartialSums(f, ws, n)
<1> DEFINE S == {k \in Nat : k \in 0 .. Len(ws) =>
                   \E f \in [0 .. k -> Int] : PartialSums(f, ws, k)}
<1>1. 0 \in S
  <2> DEFINE f == [i \in 0 .. 0 |-> 0]
  <2>1. f \in [0 .. 0 -> Int] /\ PartialSums(f, ws, 0)
    BY DEF PartialSums
  <2> QED BY <2>1
<1>2. ASSUME NEW k \in S PROVE k + 1 \in S
  <2> SUFFICES ASSUME k + 1 \in 0 .. Len(ws)
               PROVE  \E f \in [0 .. k + 1 -> Int] : PartialSums(f, ws, k + 1)
    OBVIOUS
  <2>1. k \in Nat /\ Len(ws) \in Nat /\ k + 1 <= Len(ws)
    OBVIOUS
  <2>2. PICK f \in [0 .. k -> Int] : PartialSums(f, ws, k)
    BY <2>1
  <2> DEFINE g == [i \in 0 .. k + 1 |-> IF i = k + 1 THEN f[k] + ws[k + 1].count ELSE f[i]]
  <2>3. ws[k + 1].count \in Int
    <3>1. ws[k + 1] \in Waiter
      BY <2>1
    <3> QED BY <3>1 DEF Waiter
  <2>4. g \in [0 .. k + 1 -> Int]
    BY <2>1, <2>2, <2>3
  <2>5. ASSUME NEW i \in 0 .. k + 1
        PROVE  g[i] = IF i = 0 THEN 0 ELSE g[i - 1] + ws[i].count
    <3>1. CASE i = k + 1
      BY <2>1, <3>1
    <3>2. CASE i # k + 1 /\ i = 0
      BY <2>1, <2>2, <3>2 DEF PartialSums
    <3>3. CASE i # k + 1 /\ i # 0
      <4>1. i \in 0 .. k /\ i - 1 \in 0 .. k /\ i - 1 # k + 1 /\ i - 1 \in 0 .. k + 1
        BY <2>1, <3>3
      <4>2. g[i] = f[i] /\ g[i - 1] = f[i - 1]
        BY <4>1, <3>3
      <4>3. f[i] = f[i - 1] + ws[i].count
        BY <2>2, <4>1, <3>3 DEF PartialSums
      <4> QED BY <4>2, <4>3, <3>3
    <3> QED BY <3>1, <3>2, <3>3
  <2>6. PartialSums(g, ws, k + 1)
    <3> HIDE DEF g
    <3> QED BY <2>4, <2>5 DEF PartialSums
  <2> QED BY <2>4, <2>6
<1> HIDE DEF S
<1>3. S = Nat
  <2>1. S \in SUBSET Nat
    BY DEF S
  <2> QED BY <1>1, <1>2, <2>1, SetInduction
<1>4. n \in S
  BY <1>3
<1> QED BY <1>4 DEF S

(* SumCounts(ws) is the last of the partial sums.                           *)
LEMMA SumCountsIs ==
  ASSUME NEW ws \in Seq(Waiter), NEW f \in [0 .. Len(ws) -> Int],
         PartialSums(f, ws, Len(ws))
  PROVE  SumCounts(ws) = f[Len(ws)]
<1> DEFINE F == CHOOSE h : h = [i \in 0 .. Len(ws) |->
                                  IF i = 0 THEN 0 ELSE h[i - 1] + ws[i].count]
<1>1. SumCounts(ws) = F[Len(ws)]
  BY DEF SumCounts
<1>2. PartialSums(f, ws, Len(ws))
  OBVIOUS
<1>3. PartialSums(F, ws, Len(ws))
  BY <1>2, Zenon DEF PartialSums
<1> HIDE DEF F
<1>4. DOMAIN F = 0 .. Len(ws) /\ DOMAIN f = 0 .. Len(ws)
  BY <1>3 DEF PartialSums
<1> DEFINE S == {k \in Nat : k \in 0 .. Len(ws) => F[k] = f[k]}
<1>5. 0 \in S
  BY <1>2, <1>3 DEF PartialSums
<1>6. ASSUME NEW k \in S PROVE k + 1 \in S
  <2> SUFFICES ASSUME k + 1 \in 0 .. Len(ws) PROVE F[k + 1] = f[k + 1]
    OBVIOUS
  <2>1. k \in 0 .. Len(ws) /\ k + 1 # 0 /\ (k + 1) - 1 = k
    OBVIOUS
  <2>2. F[k] = f[k]
    BY <2>1
  <2>3. F[k + 1] = F[k] + ws[k + 1].count
    BY <2>1, <1>3 DEF PartialSums
  <2>4. f[k + 1] = f[k] + ws[k + 1].count
    BY <2>1, <1>2 DEF PartialSums
  <2> QED BY <2>2, <2>3, <2>4
<1> HIDE DEF S
<1>7. S = Nat
  <2>1. S \in SUBSET Nat
    BY DEF S
  <2> QED BY <1>5, <1>6, <2>1, SetInduction
<1>8. Len(ws) \in S /\ Len(ws) \in 0 .. Len(ws)
  BY <1>7
<1>9. F[Len(ws)] = f[Len(ws)]
  BY <1>8 DEF S
<1> QED BY <1>1, <1>9

(* A barrier without waiters has the sum zero.                              *)
LEMMA SumEmpty == SumCounts(<< >>) = 0
<1> DEFINE ws == << >>
<1>1. ws \in Seq(Waiter) /\ Len(ws) = 0 /\ 0 \in 0 .. Len(ws)
  OBVIOUS
<1> HIDE DEF ws
<1>2. PICK f \in [0 .. 0 -> Int] : PartialSums(f, ws, 0)
  BY <1>1, SumsExist
<1>3. SumCounts(ws) = f[0]
  BY <1>1, <1>2, SumCountsIs
<1>4. f[0] = 0
  BY <1>2 DEF PartialSums
<1> QED BY <1>3, <1>4 DEF ws

(* The sum is an integer.                                                   *)
LEMMA SumIsInt == ASSUME NEW ws \in Seq(Waiter) PROVE SumCounts(ws) \in Int
<1>1. Len(ws) \in Nat /\ Len(ws) \in 0 .. Len(ws)
  OBVIOUS
<1>2. PICK f \in [0 .. Len(ws) -> Int] : PartialSums(f, ws, Len(ws))
  BY <1>1, SumsExist
<1> QED BY <1>1, <1>2, SumCountsIs

(* A waiter recorded at the end adds its count.                             *)
LEMMA SumAppend ==
  ASSUME NEW ws \in Seq(Waiter), NEW w \in Waiter
  PROVE  SumCounts(ws) \in Int /\ SumCounts(Append(ws, w)) = SumCounts(ws) + w.count
<1> DEFINE L == Len(ws)
           vs == Append(ws, w)
<1>1. L \in Nat /\ L \in 0 .. L
  OBVIOUS
<1>2. PICK f \in [0 .. L -> Int] : PartialSums(f, ws, L)
  BY <1>1, SumsExist
<1>3. SumCounts(ws) = f[L] /\ f[L] \in Int
  BY <1>1, <1>2, SumCountsIs
<1>4. vs \in Seq(Waiter) /\ Len(vs) = L + 1 /\ vs[L + 1] = w
      /\ \A i \in 1 .. L : vs[i] = ws[i]
  OBVIOUS
<1>5. w.count \in Int
  BY DEF Waiter
<1> HIDE DEF vs, L
<1> DEFINE g == [i \in 0 .. L + 1 |-> IF i = L + 1 THEN f[L] + w.count ELSE f[i]]
<1>6. g \in [0 .. L + 1 -> Int]
  BY <1>1, <1>2, <1>3, <1>5
<1>7. ASSUME NEW i \in 0 .. L + 1
      PROVE  g[i] = IF i = 0 THEN 0 ELSE g[i - 1] + vs[i].count
  <2>1. CASE i = L + 1
    BY <1>1, <1>4, <2>1
  <2>2. CASE i # L + 1 /\ i = 0
    BY <1>1, <1>2, <2>2 DEF PartialSums
  <2>3. CASE i # L + 1 /\ i # 0
    <3>1. i \in 1 .. L /\ i \in 0 .. L /\ i - 1 # L + 1 /\ i - 1 \in 0 .. L + 1
      BY <1>1, <2>3
    <3>2. g[i] = f[i] /\ g[i - 1] = f[i - 1]
      BY <3>1, <2>3
    <3>3. f[i] = f[i - 1] + ws[i].count
      BY <1>2, <3>1, <2>3 DEF PartialSums
    <3> QED BY <1>4, <3>1, <3>2, <3>3, <2>3
  <2> QED BY <2>1, <2>2, <2>3
<1>8. g[L + 1] = f[L] + w.count
  BY <1>1
<1>9. PartialSums(g, vs, L + 1)
  <2> HIDE DEF g
  <2> QED BY <1>6, <1>7 DEF PartialSums
<1>10. SumCounts(vs) = g[L + 1]
  <2> HIDE DEF g
  <2> QED BY <1>4, <1>6, <1>9, SumCountsIs
<1> QED BY <1>3, <1>8, <1>10 DEF vs

(* A waiter taken out of the middle takes its count with it.                *)
LEMMA SumPacked ==
  ASSUME NEW ws \in Seq(Waiter), NEW k \in 1 .. Len(ws)
  PROVE  SumCounts(Packed(ws, k)) = SumCounts(ws) - ws[k].count
<1> DEFINE L == Len(ws)
           vs == Packed(ws, k)
<1>1. L \in Nat /\ L \in 0 .. L /\ k \in 1 .. L /\ L - 1 \in Nat
  OBVIOUS
<1>2. PICK f \in [0 .. L -> Int] : PartialSums(f, ws, L)
  BY <1>1, SumsExist
<1>3. SumCounts(ws) = f[L] /\ f[L] \in Int
  BY <1>1, <1>2, SumCountsIs
<1>4. ws[k].count \in Int
  <2>1. ws[k] \in Waiter
    BY <1>1
  <2> QED BY <2>1 DEF Waiter
<1>5. vs = [i \in 1 .. L - 1 |-> IF i < k THEN ws[i] ELSE ws[i + 1]]
  BY DEF Packed
<1>6. ASSUME NEW i \in 1 .. L - 1 PROVE vs[i] \in Waiter
  <2>1. i \in 1 .. L /\ i + 1 \in 1 .. L
    BY <1>1
  <2> QED BY <1>5, <2>1
<1>7. vs \in Seq(Waiter) /\ Len(vs) = L - 1
  <2>1. DOMAIN vs = 1 .. L - 1
    BY <1>5
  <2> QED BY <1>1, <1>5, <1>6, <2>1
<1>8. ASSUME NEW i \in 1 .. L PROVE f[i] = f[i - 1] + ws[i].count
  BY <1>1, <1>2 DEF PartialSums
<1>9. f[0] = 0 /\ \A i \in 0 .. L : f[i] \in Int
  BY <1>1, <1>2 DEF PartialSums
<1> HIDE DEF vs, L
<1> DEFINE c == ws[k].count
           g == [i \in 0 .. L - 1 |-> IF i < k THEN f[i] ELSE f[i + 1] - c]
<1> HIDE DEF c
<1>10. c \in Int
  BY <1>4 DEF c
<1>11. g \in [0 .. L - 1 -> Int]
  <2>1. \A i \in 0 .. L - 1 : i \in 0 .. L /\ i + 1 \in 0 .. L
    BY <1>1
  <2> QED BY <1>1, <1>9, <1>10, <2>1
<1>12. ASSUME NEW i \in 0 .. L - 1
       PROVE  g[i] = IF i = 0 THEN 0 ELSE g[i - 1] + vs[i].count
  <2>1. CASE i = 0
    BY <1>1, <1>9, <2>1
  <2>2. CASE i # 0
    <3>1. i \in 1 .. L /\ i - 1 \in 0 .. L - 1 /\ i \in 1 .. L - 1 /\ i + 1 \in 1 .. L
          /\ i - 1 \in 0 .. L /\ i \in 0 .. L
      BY <1>1, <2>2
    <3>2. f[i] = f[i - 1] + ws[i].count /\ f[i + 1] = f[i] + ws[i + 1].count
      <4>1. (i + 1) - 1 = i
        BY <1>1
      <4> QED BY <3>1, <4>1, <1>8
    <3>3. CASE i < k
      <4>1. i - 1 < k
        BY <1>1, <3>3
      <4>2. g[i] = f[i] /\ g[i - 1] = f[i - 1] /\ vs[i] = ws[i]
        BY <3>1, <3>3, <4>1, <1>5
      <4> QED BY <3>2, <4>2, <2>2
    <3>4. CASE i = k
      <4>1. i - 1 < k /\ ~ (i < k)
        BY <1>1, <3>4
      <4>2. g[i] = f[i + 1] - c /\ g[i - 1] = f[i - 1] /\ vs[i] = ws[i + 1]
        BY <3>1, <4>1, <1>5
      <4>3. ws[i].count = c /\ f[i - 1] \in Int /\ f[i] \in Int /\ f[i + 1] \in Int
        BY <3>1, <3>4, <1>9 DEF c
      <4>4. ws[i + 1].count \in Int
        <5>1. ws[i + 1] \in Waiter
          BY <3>1 DEF L
        <5> QED BY <5>1 DEF Waiter
      <4> HIDE DEF g
      <4>5. g[i] = g[i - 1] + ws[i + 1].count
        <5>1. \A a, b, e, x \in Int :
                 b = a + c /\ e = b + x => e - c = a + x
          BY <1>10
        <5>2. f[i] = f[i - 1] + c /\ f[i + 1] = f[i] + ws[i + 1].count
          BY <3>2, <4>3
        <5>3. f[i + 1] - c = f[i - 1] + ws[i + 1].count
          <6>1. f[i] = f[i - 1] + c /\ f[i + 1] = f[i] + ws[i + 1].count
                 => f[i + 1] - c = f[i - 1] + ws[i + 1].count
            BY ONLY <5>1, <4>3, <4>4, ZenonT(30)
          <6> QED BY ONLY <6>1, <5>2, Zenon
        <5> QED BY ONLY <5>3, <4>2, Zenon
      <4> QED BY <4>2, <4>5, <2>2
    <3>5. CASE i > k
      <4>1. ~ (i - 1 < k) /\ ~ (i < k) /\ (i - 1) + 1 = i
        BY <1>1, <3>5
      <4>2. g[i] = f[i + 1] - c /\ g[i - 1] = f[i] - c /\ vs[i] = ws[i + 1]
        BY <3>1, <4>1, <1>5
      <4>3. f[i] \in Int /\ f[i + 1] \in Int
        BY <3>1, <1>9
      <4>4. ws[i + 1].count \in Int
        <5>1. ws[i + 1] \in Waiter
          BY <3>1 DEF L
        <5> QED BY <5>1 DEF Waiter
      <4> HIDE DEF g
      <4>5. g[i] = g[i - 1] + ws[i + 1].count
        <5>1. \A b, e, x \in Int : e = b + x => e - c = (b - c) + x
          BY <1>10
        <5>2. f[i + 1] - c = (f[i] - c) + ws[i + 1].count
          BY ONLY <5>1, <3>2, <4>3, <4>4, Zenon
        <5> QED BY ONLY <5>2, <4>2, Zenon
      <4> QED BY <4>2, <4>5, <2>2
    <3> QED BY <3>3, <3>4, <3>5, <1>1
  <2> QED BY <2>1, <2>2
<1>13. g[L - 1] = f[L] - c
  <2>1. CASE L - 1 < k
    <3>1. k = L /\ L \in 1 .. L /\ L - 1 \in 0 .. L - 1 /\ L - 1 \in 0 .. L
      BY <1>1, <2>1
    <3>2. g[L - 1] = f[L - 1] /\ f[L] = f[L - 1] + c
      BY <3>1, <2>1, <1>8 DEF c
    <3>3. f[L - 1] \in Int
      BY <3>1, <1>9
    <3> QED BY <3>2, <3>3, <1>10
  <2>2. CASE ~ (L - 1 < k)
    <3>1. L - 1 \in 0 .. L - 1 /\ (L - 1) + 1 = L
      BY <1>1
    <3> QED BY <3>1, <2>2
  <2> QED BY <2>1, <2>2
<1>14. PartialSums(g, vs, L - 1)
  <2> HIDE DEF g
  <2> QED BY <1>11, <1>12 DEF PartialSums
<1>15. SumCounts(vs) = g[L - 1]
  <2> HIDE DEF g
  <2> QED BY <1>7, <1>11, <1>14, SumCountsIs
<1> QED BY <1>3, <1>13, <1>15 DEF vs, c

(* What the count of a barrier is, on the list or not.                      *)
CountInv ==
  /\ \A n \in Name \ forgotten : count[n] = promised[n] + SumCounts(waiters[n])
  /\ \A n \in Name \ allbarriers : count[n] = 0

(* Crossing the barriers ns, or clearing all of them, settles their counts. *)
LEMMA SettledCount ==
  ASSUME IInv, CountInv, NEW ns \in SUBSET Name, NEW ms \in SUBSET Name,
         ns \subseteq ms, ms = ns \/ ns = allbarriers,
         RemoveBarriers(ns), Settled(ms)
  PROVE  CountInv'
<1>1. ASSUME NEW n \in Name \ forgotten'
      PROVE  count'[n] = promised'[n] + SumCounts(waiters'[n])
  <2>1. CASE n \in ms
    <3>1. promised'[n] = 0
      BY <2>1 DEF Settled
    <3>2. count'[n] = 0 /\ waiters'[n] = << >>
      <4>1. CASE n \in ns
        BY <4>1 DEF RemoveBarriers
      <4>2. CASE n \notin ns
        <5>1. n \notin allbarriers
          BY <2>1, <4>2
        <5>2. count[n] = 0 /\ waiters[n] = << >>
          BY <5>1 DEF CountInv, IInv, LoopInvariant
        <5> QED BY <4>2, <5>2 DEF RemoveBarriers
      <4> QED BY <4>1, <4>2
    <3> QED BY <3>1, <3>2, SumEmpty
  <2>2. CASE n \notin ms
    <3>1. count'[n] = count[n] /\ promised'[n] = promised[n] /\ waiters'[n] = waiters[n]
      BY <2>2 DEF RemoveBarriers, Settled
    <3>2. n \notin forgotten
      BY <2>2 DEF Settled
    <3> QED BY <3>1, <3>2 DEF CountInv
  <2> QED BY <2>1, <2>2
<1>2. ASSUME NEW n \in Name \ allbarriers' PROVE count'[n] = 0
  BY DEF RemoveBarriers, CountInv
<1> QED BY <1>1, <1>2 DEF CountInv

(* A request changes the count by what is recorded of it: the caller's      *)
(* count with the caller, or the count of an -i -a.                         *)
LEMMA RequestCount ==
  ASSUME IInv, CountInv, NEW m \in Name, NEW e \in Errors, NEW sock,
         Caller(sock), HandleRequest(m, e, sock)
  PROVE  CountInv'
<1> USE SyncdAssumption
<1>t. BarrierTypes
  BY DEF IInv, TypeOK
<1>1. PICK c \in Int, w \in BOOLEAN : Record(m, c, w, e, sock) \/ Cross(m, c, w, e, sock)
  <2>1. (\A c \in 1 .. MaxCount : c \in Int) /\ -1 \in Int
    OBVIOUS
  <2> QED BY <2>1, Zenon DEF HandleRequest
<1>2. CASE Cross(m, c, w, e, sock)
  <2>1. RemoveBarriers({m}) /\ Settled({m}) /\ {m} \in SUBSET Name
    BY <1>2 DEF Cross
  <2> QED BY <2>1, SettledCount
<1>3. CASE Record(m, c, w, e, sock)
  <2>0. \A n \in Name \ allbarriers' : count'[n] = 0
    BY <1>3, <1>t DEF Record, CountInv, BarrierTypes
  <2> SUFFICES ASSUME NEW n \in Name \ forgotten
               PROVE  count'[n] = promised'[n] + SumCounts(waiters'[n])
    BY <1>3, <2>0 DEF CountInv, Record
  <2>1. /\ count' = [count EXCEPT ![m] = @ + c]
        /\ promised' = [promised EXCEPT ![m] =
                           IF w \/ m \in forgotten THEN @ ELSE @ + c]
    BY <1>3 DEF Record
  <2>2. count[n] = promised[n] + SumCounts(waiters[n])
    BY DEF CountInv
  <2> DEFINE r == [count |-> c, sock |-> sock, error |-> e]
  <2>3. r \in Waiter
    <3>1. e \in Nat
      BY ErrorCodes
    <3> QED BY <3>1, CallerFacts DEF Waiter
  <2>4. /\ count[n] \in Int /\ promised[n] \in Int /\ waiters[n] \in Seq(Waiter)
        /\ DOMAIN count = Name /\ DOMAIN promised = Name /\ DOMAIN waiters = Name
    BY <1>t DEF BarrierTypes
  <2>5. /\ SumCounts(waiters[n]) \in Int
        /\ SumCounts(Append(waiters[n], r)) = SumCounts(waiters[n]) + c
    <3>1. r.count = c
      OBVIOUS
    <3> HIDE DEF r
    <3> QED BY <3>1, <2>3, <2>4, SumAppend
  <2>6. CASE n # m
    <3>1. count'[n] = count[n] /\ promised'[n] = promised[n]
      BY <2>1, <2>4, <2>6
    <3>2. waiters'[n] = waiters[n]
      BY <1>3, <2>4, <2>6 DEF Record
    <3> QED BY <3>1, <3>2, <2>2
  <2>7. CASE n = m /\ w
    <3>1. count'[n] = count[n] + c /\ promised'[n] = promised[n]
      BY <2>1, <2>4, <2>7
    <3>2. waiters'[n] = Append(waiters[n], r)
      <4>1. waiters' = [waiters EXCEPT ![m] = Append(@, r)]
        BY <1>3, <2>7 DEF Record
      <4> HIDE DEF r
      <4> QED BY <4>1, <2>4, <2>7
    <3> HIDE DEF r
    <3> QED BY <3>1, <3>2, <2>2, <2>4, <2>5
  <2>8. CASE n = m /\ ~w
    <3>1. count'[n] = count[n] + c /\ promised'[n] = promised[n] + c
      BY <2>1, <2>4, <2>8
    <3>2. waiters'[n] = waiters[n]
      BY <1>3, <2>8 DEF Record
    <3> QED BY <3>1, <3>2, <2>2, <2>4, <2>5
  <2> QED BY <2>6, <2>7, <2>8
<1> QED BY <1>1, <1>2, <1>3

(* remove_tcpclient() gives back the count of the client that has gone.     *)
LEMMA GoneCount ==
  ASSUME IInv, CountInv, ScanGone
  PROVE  CountInv'
<1> DEFINE m == tcpsockets[Lowest]
           k == Position(m, Lowest)
<1>t. BarrierTypes
  BY DEF IInv, TypeOK
<1>1. m \in Name /\ k \in DOMAIN waiters[m]
  BY ScanFinds DEF ScanGone
<1>2. CASE Len(waiters[m]) = 1
  <2>1. /\ RemoveBarriers({m}) /\ promised' = promised
        /\ forgotten' = IF promised[m] = 0 THEN forgotten ELSE forgotten \cup {m}
    BY <1>2 DEF ScanGone, RemoveTcpClient, Forget
  <2> HIDE DEF m, k
  <2>2. \A n \in Name \ allbarriers' : count'[n] = 0
    BY <2>1 DEF RemoveBarriers, CountInv
  <2>3. ASSUME NEW n \in Name \ forgotten'
        PROVE  count'[n] = promised'[n] + SumCounts(waiters'[n])
    <3>1. CASE n = m
      <4>1. promised'[n] = 0 /\ count'[n] = 0 /\ waiters'[n] = << >>
        BY <2>1, <3>1 DEF RemoveBarriers
      <4> QED BY <4>1, SumEmpty
    <3>2. CASE n # m
      <4>1. /\ count'[n] = count[n] /\ promised'[n] = promised[n]
            /\ waiters'[n] = waiters[n] /\ n \notin forgotten
        BY <2>1, <3>2 DEF RemoveBarriers
      <4> QED BY <4>1 DEF CountInv
    <3> QED BY <3>1, <3>2
  <2> QED BY <2>2, <2>3 DEF CountInv
<1>3. CASE Len(waiters[m]) # 1
  <2>1. /\ count' = [count EXCEPT ![m] = @ - waiters[m][k].count]
        /\ waiters' = [waiters EXCEPT ![m] = Packed(@, k)]
        /\ promised' = promised /\ forgotten' = forgotten
        /\ allbarriers' = allbarriers
    BY <1>3 DEF ScanGone, RemoveTcpClient, historyVars
  <2>0. m \in allbarriers
    BY ScanFinds DEF ScanGone, IInv, MapMatchesWaiters
  <2> HIDE DEF m, k
  <2>9. \A n \in Name \ allbarriers' : count'[n] = 0
    BY <2>0, <2>1, <1>t DEF CountInv, BarrierTypes
  <2> SUFFICES ASSUME NEW n \in Name \ forgotten
               PROVE  count'[n] = promised'[n] + SumCounts(waiters'[n])
    BY <2>1, <2>9 DEF CountInv
  <2>2. count[n] = promised[n] + SumCounts(waiters[n])
    BY DEF CountInv
  <2>3. /\ count[n] \in Int /\ promised[n] \in Int /\ waiters[n] \in Seq(Waiter)
        /\ DOMAIN count = Name /\ DOMAIN waiters = Name
    BY <1>t DEF BarrierTypes
  <2>4. CASE n # m
    BY <2>1, <2>2, <2>3, <2>4
  <2>5. CASE n = m
    <3> DEFINE ws == waiters[n]
               x == ws[k].count
    <3>1. ws \in Seq(Waiter) /\ k \in 1 .. Len(ws)
      BY <1>1, <2>3, <2>5
    <3>2. SumCounts(Packed(ws, k)) = SumCounts(ws) - x
      <4> HIDE DEF ws
      <4> QED BY <3>1, SumPacked
    <3>3. count'[n] = count[n] - x /\ waiters'[n] = Packed(ws, k)
      BY <2>1, <2>3, <2>5
    <3>4. x \in Int
      <4>1. ws[k] \in Waiter
        <5> HIDE DEF ws
        <5> QED BY <3>1
      <4> QED BY <4>1 DEF Waiter
    <3>5. SumCounts(ws) \in Int
      <4> HIDE DEF ws
      <4> QED BY <3>1, SumIsInt
    <3> HIDE DEF ws, x
    <3>6. count[n] = promised[n] + SumCounts(ws)
      BY <2>2 DEF ws
    <3> QED BY <3>2, <3>3, <3>4, <3>5, <3>6, <2>1, <2>3
  <2> QED BY <2>4, <2>5
<1> QED BY <1>2, <1>3

(* Every step keeps the counts exact.                                       *)
LEMMA StepCount ==
  ASSUME IInv, CountInv, [Next]_vars
  PROVE  CountInv'
<1>1. CASE UNCHANGED barrierVars
  BY <1>1 DEF barrierVars, historyVars, CountInv
<1>2. CASE ClearBarriers
  <2>1. /\ RemoveBarriers(allbarriers) /\ Settled(Name)
        /\ allbarriers \in SUBSET Name /\ Name \in SUBSET Name
    BY <1>2 DEF ClearBarriers, IInv, TypeOK, BarrierTypes
  <2> QED BY <2>1, SettledCount
<1>3. CASE TcpRequest
  <2>1. Caller(newsock)
    BY <1>3 DEF TcpRequest, Caller
  <2>2. PICK m \in Name, e \in Errors : HandleRequest(m, e, newsock)
    BY <1>3 DEF TcpRequest
  <2> QED BY <2>1, <2>2, RequestCount
<1>4. CASE UdpRequest
  <2>1. Caller(Udp)
    BY <1>4 DEF UdpRequest, Caller
  <2>2. PICK m \in Name, e \in Errors : HandleRequest(m, e, Udp)
    BY <1>4 DEF UdpRequest
  <2> QED BY <2>1, <2>2, RequestCount
<1>5. CASE ScanGone
  BY <1>5, GoneCount
<1>6. CASE TcpInvalid \/ UdpInvalid
  <2>1. /\ UNCHANGED <<count, waiters, promised, forgotten>>
        /\ allbarriers \subseteq allbarriers'
    BY <1>6 DEF TcpInvalid, UdpInvalid, EmptyBarrier, historyVars
  <2> QED BY <2>1 DEF CountInv
<1>7. CASE Accept \/ ReadAborted \/ Overrun
  BY <1>1, <1>7 DEF Accept, ReadAborted, Overrun
<1>8. CASE \/ Top \/ EnterSelect \/ SelectReturns \/ AcceptFailed \/ UdpFailed
           \/ ScanClosed \/ HandleSighup \/ Connect \/ SendDatagram \/ ClientGone
  BY <1>1, <1>8, LoopSteps DEF Quiet
<1>9. CASE UNCHANGED vars
  BY <1>1, <1>9 DEF vars
<1> QED BY <1>2, <1>3, <1>4, <1>5, <1>6, <1>7, <1>8, <1>9 DEF Next, Daemon, Clients

(* The count of a barrier is what -i -a callers have added since it was     *)
(* last crossed or cleared and the counts of the waiters left, whatever     *)
(* clients have gone (789, 809, 882), as long as no lone waiter has taken   *)
(* the barrier, and what was promised, with it (889-891).                   *)
THEOREM CountKept == Spec => []CountExact
<1>1. Init => CountInv
  <2> SUFFICES ASSUME Init, NEW n \in Name
               PROVE  /\ count[n] = promised[n] + SumCounts(waiters[n])
                      /\ count[n] = 0
    BY DEF CountInv
  <2>1. count[n] = 0 /\ promised[n] = 0 /\ waiters[n] = << >>
    BY DEF Init
  <2> QED BY <2>1, SumEmpty
<1>2. IInv /\ CountInv /\ [Next]_vars => CountInv'
  BY StepCount
<1>3. IInv /\ CountInv => CountExact
  BY DEF CountInv, CountExact
<1> QED BY <1>1, <1>2, <1>3, SpecIInv, PTL DEF Spec

=============================================================================
