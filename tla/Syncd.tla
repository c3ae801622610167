------------------------------- MODULE Syncd -------------------------------
(* The barrier server of an experiment, clientside/os/syncd/emulab-syncd.c: *)
(* a single-threaded select() loop that accepts one request per TCP         *)
(* connection (or UDP datagram), keeps the waiters of every named barrier,  *)
(* and writes one integer back to each of them when the barrier's count     *)
(* reaches zero.  The two listening sockets are kept out of sfds and of     *)
(* maxfd: the sentinels of main() keep them set for ever, and 0 stands for  *)
(* "no connection above them".                                              *)
EXTENDS Integers, FiniteSets, Sequences

CONSTANTS
  Name,          \* barrier names
  NSock,         \* descriptors a connection may get, numbered 1 .. NSock
  MAXWAITERS,    \* the size of a barrier's waiters[]
  MaxCount,      \* bound: the counter of one barrier, and what -i -a adds to it
  MaxConns,      \* bound: connections at a time, accepted or not
  Requests,      \* bound: kinds of request the clients make
  Errors,        \* the -e values the clients use (emulab-sync.c 179-195)
  Hups           \* bound: SIGHUPs

Sock == 1 .. NSock
Udp  == 0                   \* udpsock, the sock of a waiter by datagram
Tcp  == -1                  \* tcpsock
None == "none"              \* a NULL barrier pointer
SERVER_ERROR_SIGHUP == 240
Silent == -1                \* nothing written on this connection yet

ASSUME SyncdAssumption ==
  /\ NSock \in Nat \ {0} /\ MAXWAITERS \in Nat \ {0}
  /\ MaxCount \in Nat \ {0} /\ MaxConns \in Nat /\ Hups \in Nat
  /\ None \notin Name
  /\ Errors \subseteq 0 .. (SERVER_ERROR_SIGHUP - 1) /\ 0 \in Errors
  /\ Requests \subseteq {"init", "nowait", "wait", "invalid", "udp", "abort"}

(* struct barrier_ctrl's waiters[]; istcp is sock # Udp.                    *)
Waiter == [count: Int, sock: Sock \cup {Udp}, error: Nat]

VARIABLES
  allbarriers,   \* names on the list of barriers
  count, error,  \* barrier_ctrl.count and .error
  waiters,       \* barrier_ctrl.waiters[0 .. index-1]
  tcpsockets,    \* tcpsockets[].barrier
  sfds, maxfd,   \* connections select() watches, and the highest of them
  fds,           \* what the last select() reported and is not yet handled
  gotsighup,
  newsock,       \* the connection main() is reading a request from
  pc,            \* where main() is
  open,          \* descriptors of connections open in the daemon
  \* the rest of the world
  backlog,       \* connections made and not accepted
  dgram,         \* a datagram is queued on the UDP socket
  gone,          \* open connections whose client has closed its end
  hups,          \* SIGHUPs still to come
  \* history
  told,          \* the integer last written to each connection
  promised,      \* what -i -a callers have added to each barrier since it was
                 \* last crossed or cleared
  forgotten      \* barriers freed with their last waiter while promised some

historyVars == <<promised, forgotten>>
barrierVars == <<allbarriers, count, error, waiters, historyVars>>
fdVars      == <<sfds, maxfd>>
clientVars  == <<backlog, dgram, gone, hups>>
vars == <<barrierVars, tcpsockets, fdVars, fds, gotsighup, newsock, pc, open,
          clientVars, told>>

---------------------------------------------------------------------------
Init ==
  /\ allbarriers = {}
  /\ count = [n \in Name |-> 0] /\ error = [n \in Name |-> 0]
  /\ waiters = [n \in Name |-> << >>]
  /\ tcpsockets = [s \in Sock |-> None]
  /\ sfds = {} /\ maxfd = 0 /\ fds = {}
  /\ gotsighup = FALSE /\ newsock = 0 /\ pc = "top"
  /\ open = {}
  /\ backlog = 0 /\ dgram = FALSE /\ gone = {} /\ hups = Hups
  /\ told = [s \in Sock |-> Silent]
  /\ promised = [n \in Name |-> 0] /\ forgotten = {}

(* The connections among the waiters ws.                                    *)
Connections(ws) == {ws[i].sock : i \in DOMAIN ws} \ {Udp}

(* The three phases that follow select(), in the order main() tests for     *)
(* them.                                                                    *)
Phase(ready) ==
  IF Tcp \in ready THEN "accept"
  ELSE IF Udp \in ready THEN "udp"
  ELSE IF ready # {} THEN "scan"
  ELSE "top"

Goto(ready) == fds' = ready /\ pc' = Phase(ready)

(* `continue': whatever else select() reported is left for the next round.  *)
Continue == fds' = {} /\ pc' = "top"

\* Mutant: the loop stops short of the highest connection.
MaxTcpSocketShort(tcp, watched) ==
  LET kept == {s \in Sock : s < maxfd /\ tcp[s] # None}
  IN /\ sfds' = {s \in watched : s >= maxfd \/ s \in kept}
     /\ maxfd' = IF kept = {} THEN 0
                 ELSE CHOOSE s \in kept : \A t \in kept : t <= s

\* Mutant: the number of descriptors instead of the highest of them.
MaxTcpSocketCount(tcp, watched) ==
  LET kept == {s \in Sock : s <= maxfd /\ tcp[s] # None}
  IN /\ sfds' = {s \in watched : s > maxfd \/ s \in kept}
     /\ maxfd' = IF kept = {} THEN 0
                 ELSE 1 + CHOOSE s \in kept : \A t \in kept : t <= s

(* maxtcpsocket(): forget every connection up to maxfd that waits for no    *)
(* barrier, and find the highest that is left.                              *)
MaxTcpSocket(tcp, watched) ==
  LET kept == {s \in Sock : s <= maxfd /\ tcp[s] # None}
  IN /\ sfds' = {s \in watched : s > maxfd \/ s \in kept}
     /\ maxfd' = IF kept = {} THEN 0
                 ELSE CHOOSE s \in kept : \A t \in kept : t <= s

(* release_client() for each of the connections ss: write the result, drop  *)
(* the socket from the map and close it.                                    *)
Released(ss, result) ==
  /\ told' = [s \in Sock |-> IF s \in ss THEN result ELSE told[s]]
  /\ open' = open \ ss
  /\ gone' = gone \ ss

Unmapped(tcp, ss) == [s \in Sock |-> IF s \in ss THEN None ELSE tcp[s]]

\* Mutant: malloc() for calloc(), a new barrier has the waiters of an old one.
RemoveBarriersUncleared(ns) ==
  /\ allbarriers' = allbarriers \ ns
  /\ count' = [n \in Name |-> IF n \in ns THEN 0 ELSE count[n]]
  /\ error' = [n \in Name |-> IF n \in ns THEN 0 ELSE error[n]]
  /\ UNCHANGED waiters

(* remove_barrier(), and the calloc() that would start the name afresh.     *)
RemoveBarriers(ns) ==
  /\ allbarriers' = allbarriers \ ns
  /\ count' = [n \in Name |-> IF n \in ns THEN 0 ELSE count[n]]
  /\ error' = [n \in Name |-> IF n \in ns THEN 0 ELSE error[n]]
  /\ waiters' = [n \in Name |-> IF n \in ns THEN << >> ELSE waiters[n]]

(* History: the barriers ns are crossed or cleared, and what their masters  *)
(* asked for is settled.                                                    *)
Settled(ns) ==
  /\ promised' = [n \in Name |-> IF n \in ns THEN 0 ELSE promised[n]]
  /\ forgotten' = forgotten \ ns

---------------------------------------------------------------------------
(* Top of the loop: clear_barriers() if a SIGHUP has been noted.            *)
Top ==
  /\ pc = "top" /\ ~gotsighup
  /\ pc' = "enter"
  /\ UNCHANGED <<barrierVars, tcpsockets, fdVars, fds, gotsighup, newsock,
                 open, clientVars, told>>

ClearBarriers ==
  LET ss == UNION {Connections(waiters[n]) : n \in allbarriers}
  IN /\ pc = "top" /\ gotsighup
     /\ Released(ss, SERVER_ERROR_SIGHUP)
     /\ tcpsockets' = Unmapped(tcpsockets, ss)
     /\ RemoveBarriers(allbarriers) /\ Settled(Name)
     /\ MaxTcpSocket(tcpsockets', sfds)
     /\ gotsighup' = FALSE /\ pc' = "enter"
     /\ UNCHANGED <<fds, newsock, backlog, dgram, hups>>

(* The call of select(): EBADF, and fatal(), if a watched descriptor has    *)
(* been closed, and otherwise main() blocks in it.                          *)
BadFds == {s \in sfds : s <= maxfd /\ s \notin open}

EnterSelect ==
  /\ pc = "enter"
  /\ pc' = IF BadFds = {} THEN "select" ELSE "dead"
  /\ UNCHANGED <<barrierVars, tcpsockets, fdVars, fds, gotsighup, newsock,
                 open, clientVars, told>>

Ready == {f \in {Tcp} : backlog > 0} \cup {f \in {Udp} : dgram}
         \cup {s \in sfds \cap gone : s <= maxfd}

SelectReturns ==
  /\ pc = "select" /\ Ready # {}
  /\ Goto(Ready)
  /\ UNCHANGED <<barrierVars, tcpsockets, fdVars, gotsighup, newsock, open,
                 clientVars, told>>

(* accept() gives the lowest free descriptor, or fails when there is none.  *)
Accept ==
  /\ pc = "accept" /\ Sock \ open # {}
  /\ newsock' = CHOOSE s \in Sock \ open : \A t \in Sock \ open : s <= t
  /\ open' = open \cup {newsock'} /\ backlog' = backlog - 1
  /\ told' = [told EXCEPT ![newsock'] = Silent]
  /\ fds' = fds \ {Tcp} /\ pc' = "read"
  /\ UNCHANGED <<barrierVars, tcpsockets, fdVars, gotsighup, dgram, gone,
                 hups>>

AcceptFailed ==
  /\ pc = "accept" /\ Sock \subseteq open
  /\ Continue
  /\ UNCHANGED <<barrierVars, tcpsockets, fdVars, gotsighup, newsock, open,
                 clientVars, told>>

\* Mutant: the connection is not closed.
ReadAbortedUnclosed ==
  /\ pc = "read" /\ "abort" \in Requests
  /\ Continue
  /\ newsock' = 0
  /\ UNCHANGED <<barrierVars, tcpsockets, fdVars, gotsighup, open, clientVars,
                 told>>

(* readall() met the end of the connection before a whole request.          *)
ReadAborted ==
  /\ pc = "read" /\ "abort" \in Requests
  /\ open' = open \ {newsock} /\ gone' = gone \ {newsock}
  /\ Continue
  /\ newsock' = 0
  /\ UNCHANGED <<barrierVars, tcpsockets, fdVars, gotsighup, backlog, dgram,
                 hups, told>>

---------------------------------------------------------------------------
(* handle_request().  A request for barrier n changes its count by c; a     *)
(* caller that waits (all but -i -a) is recorded, and its error with it.    *)

\* Mutant: the barrier keeps the error of the last caller.
RecordLastError(n, c, waits, e, sock) ==
  /\ count[n] + c # 0 /\ count[n] + c <= MaxCount
  /\ waits /\ Len(waiters[n]) < MAXWAITERS
  /\ allbarriers' = allbarriers \cup {n}
  /\ count' = [count EXCEPT ![n] = @ + c]
  /\ waiters' = [waiters EXCEPT ![n] =
       Append(@, [count |-> c, sock |-> sock, error |-> e])]
  /\ error' = [error EXCEPT ![n] = e]
  /\ tcpsockets' = IF sock # Udp THEN [tcpsockets EXCEPT ![sock] = n]
                   ELSE tcpsockets
  /\ UNCHANGED <<told, open, gone, historyVars>>

(* The barrier's count is not zero yet: the request is recorded.            *)
Record(n, c, waits, e, sock) ==
  /\ count[n] + c # 0 /\ count[n] + c <= MaxCount
  /\ allbarriers' = allbarriers \cup {n}
  /\ count' = [count EXCEPT ![n] = @ + c]
  /\ waits \/ promised[n] + c <= MaxCount
  /\ promised' = [promised EXCEPT ![n] =
                     IF waits \/ n \in forgotten THEN @ ELSE @ + c]
  /\ UNCHANGED forgotten
  /\ IF waits
     THEN /\ Len(waiters[n]) < MAXWAITERS
          /\ waiters' = [waiters EXCEPT ![n] =
               Append(@, [count |-> c, sock |-> sock, error |-> e])]
          /\ error' = [error EXCEPT ![n] = IF e > @ THEN e ELSE @]
          /\ UNCHANGED <<told, open, gone>>
     ELSE /\ UNCHANGED <<waiters, error>>
          /\ Released({sock} \ {Udp}, 0)
  /\ tcpsockets' = IF waits /\ sock # Udp
                   THEN [tcpsockets EXCEPT ![sock] = n]
                   ELSE Unmapped(tcpsockets, {sock})

\* Mutant: the waiters are told the error of the last caller.
CrossLastError(n, c, waits, e, sock) ==
  LET ss == Connections(waiters[n]) \cup ({sock} \ {Udp})
  IN /\ count[n] + c = 0
     /\ waits => Len(waiters[n]) < MAXWAITERS
     /\ Released(ss, e)
     /\ tcpsockets' = Unmapped(tcpsockets, ss)
     /\ RemoveBarriers({n}) /\ Settled({n})

\* Mutant: the waiters are answered and their connections left open.
CrossUnclosed(n, c, waits, e, sock) ==
  LET ss == Connections(waiters[n]) \cup ({sock} \ {Udp})
  IN /\ count[n] + c = 0
     /\ waits => Len(waiters[n]) < MAXWAITERS
     /\ told' = [s \in Sock |-> IF s \in ss THEN error[n] ELSE told[s]]
     /\ tcpsockets' = Unmapped(tcpsockets, ss)
     /\ RemoveBarriers({n}) /\ Settled({n})
     /\ UNCHANGED <<open, gone>>

(* The count goes to zero: everyone is woken up with the barrier's error,   *)
(* the caller too unless it is an -i -a, which was answered 0.              *)
Cross(n, c, waits, e, sock) ==
  LET ws     == Connections(waiters[n])
      caller == {sock} \ {Udp}
      result == IF waits /\ e > error[n] THEN e ELSE error[n]
  IN /\ count[n] + c = 0
     /\ waits => Len(waiters[n]) < MAXWAITERS
     /\ told' = [s \in Sock |-> IF s \in ws THEN result
                                ELSE IF s \in caller
                                THEN IF waits THEN result ELSE 0
                                ELSE told[s]]
     /\ open' = open \ (ws \cup caller) /\ gone' = gone \ (ws \cup caller)
     /\ tcpsockets' = Unmapped(tcpsockets, ws \cup caller)
     /\ RemoveBarriers({n}) /\ Settled({n})

(* The kinds of request: `init' is -i c, `nowait' is -i c -a, and `wait' is *)
(* a plain call, whose count the server takes as -1.                        *)
HandleRequest(n, e, sock) ==
  \/ \E c \in 1 .. MaxCount :
       /\ "init" \in Requests
       /\ Record(n, c, TRUE, e, sock) \/ Cross(n, c, TRUE, e, sock)
  \/ \E c \in 1 .. MaxCount :
       /\ "nowait" \in Requests
       /\ Record(n, c, FALSE, e, sock) \/ Cross(n, c, FALSE, e, sock)
  \/ /\ "wait" \in Requests
     /\ Record(n, -1, TRUE, e, sock) \/ Cross(n, -1, TRUE, e, sock)

(* What main() does after a request that came on newsock: watch the         *)
(* connection if its caller waits, or else forget the ones just closed.     *)
TcpRequest ==
  /\ pc = "read"
  /\ \E n \in Name, e \in Errors : HandleRequest(n, e, newsock)
  /\ IF tcpsockets'[newsock] # None
     THEN /\ sfds' = sfds \cup {newsock}
          /\ maxfd' = IF newsock > maxfd THEN newsock ELSE maxfd
     ELSE MaxTcpSocket(tcpsockets', sfds)
  /\ Goto(fds)
  /\ newsock' = 0
  /\ UNCHANGED <<gotsighup, backlog, dgram, hups>>

(* A caller that would wait for a barrier with a full waiters[]: nothing    *)
(* checks the index (825-831), the record goes past the array, and what the *)
(* daemon does from then on is not defined; the model follows it no further.*)
Overrun ==
  /\ pc \in {"read", "udp"} /\ {"init", "wait"} \cap Requests # {}
  /\ \E n \in Name : Len(waiters[n]) >= MAXWAITERS
  /\ open' = open \ {newsock} /\ gone' = gone \ {newsock} /\ newsock' = 0
  /\ dgram' = (dgram /\ pc # "udp")
  /\ fds' = {} /\ pc' = "dead"
  /\ UNCHANGED <<barrierVars, tcpsockets, fdVars, gotsighup, backlog, hups,
                 told>>

(* An invalid request creates the barrier all the same (773-786, 815-818).  *)
EmptyBarrier(n) ==
  /\ allbarriers' = allbarriers \cup {n}
  /\ UNCHANGED <<count, error, waiters, historyVars>>

TcpInvalid ==
  /\ pc = "read" /\ "invalid" \in Requests
  /\ \E n \in Name : EmptyBarrier(n)
  /\ open' = open \ {newsock} /\ gone' = gone \ {newsock}
  /\ Goto(fds)
  /\ newsock' = 0
  /\ UNCHANGED <<tcpsockets, fdVars, gotsighup, backlog, dgram, hups, told>>

(* The UDP phase: the watched descriptors are not looked at again.          *)
UdpRequest ==
  /\ pc = "udp"
  /\ \E n \in Name, e \in Errors : HandleRequest(n, e, Udp)
  /\ dgram' = FALSE
  /\ Goto(fds \ {Udp})
  /\ UNCHANGED <<fdVars, gotsighup, newsock, backlog, hups>>

UdpInvalid ==
  /\ pc = "udp" /\ "invalid" \in Requests
  /\ \E n \in Name : EmptyBarrier(n)
  /\ dgram' = FALSE
  /\ Goto(fds \ {Udp})
  /\ UNCHANGED <<tcpsockets, fdVars, gotsighup, newsock, open, backlog, gone,
                 hups, told>>

(* recvfrom() failed.                                                       *)
UdpFailed ==
  /\ pc = "udp" /\ "abort" \in Requests
  /\ dgram' = FALSE
  /\ Continue
  /\ UNCHANGED <<barrierVars, tcpsockets, fdVars, gotsighup, newsock, open,
                 backlog, gone, hups, told>>

---------------------------------------------------------------------------
(* The third phase reads from the lowest descriptor reported: -1 if it has  *)
(* been closed in this very round, and 0 if its client is gone.             *)
Lowest == CHOOSE s \in fds : \A t \in fds : s <= t

ScanClosed ==
  /\ pc = "scan" /\ Lowest \notin gone
  /\ Goto(fds \ {Lowest})
  /\ UNCHANGED <<barrierVars, tcpsockets, fdVars, gotsighup, newsock, open,
                 clientVars, told>>

(* remove_tcpclient(): take the waiter off its barrier, give its count back *)
(* and free the barrier when no waiter is left.                             *)
Position(n, s) == CHOOSE i \in DOMAIN waiters[n] : waiters[n][i].sock = s

Packed(ws, k) == [i \in 1 .. Len(ws) - 1 |-> IF i < k THEN ws[i] ELSE ws[i + 1]]

(* History: barrier n goes with its last waiter, and so does what -i -a     *)
(* callers had added to it.                                                 *)
Forget(n) ==
  /\ forgotten' = IF promised[n] = 0 THEN forgotten ELSE forgotten \cup {n}
  /\ UNCHANGED promised

\* Mutant: the connection stays in the map.
RemoveTcpClientMapped(s) ==
  LET n == tcpsockets[s]
      k == Position(n, s)
  IN IF Len(waiters[n]) = 1
     THEN RemoveBarriers({n}) /\ Forget(n) /\ UNCHANGED tcpsockets
     ELSE /\ count' = [count EXCEPT ![n] = @ - waiters[n][k].count]
          /\ waiters' = [waiters EXCEPT ![n] = Packed(@, k)]
          /\ UNCHANGED <<allbarriers, error, historyVars, tcpsockets>>

\* Mutant: the count of every waiter is taken to be -1.
RemoveTcpClientOne(s) ==
  LET n == tcpsockets[s]
      k == Position(n, s)
  IN /\ tcpsockets' = [tcpsockets EXCEPT ![s] = None]
     /\ IF Len(waiters[n]) = 1
        THEN RemoveBarriers({n}) /\ Forget(n)
        ELSE /\ count' = [count EXCEPT ![n] = @ + 1]
             /\ waiters' = [waiters EXCEPT ![n] = Packed(@, k)]
             /\ UNCHANGED <<allbarriers, error, historyVars>>

RemoveTcpClient(s) ==
  LET n == tcpsockets[s]
      k == Position(n, s)
  IN /\ tcpsockets' = [tcpsockets EXCEPT ![s] = None]
     /\ IF Len(waiters[n]) = 1
        THEN RemoveBarriers({n}) /\ Forget(n)
        ELSE /\ count' = [count EXCEPT ![n] = @ - waiters[n][k].count]
             /\ waiters' = [waiters EXCEPT ![n] = Packed(@, k)]
             /\ UNCHANGED <<allbarriers, error, historyVars>>

ScanGone ==
  /\ pc = "scan" /\ Lowest \in gone
  /\ open' = open \ {Lowest} /\ gone' = gone \ {Lowest}
  /\ RemoveTcpClient(Lowest)
  /\ IF Lowest = maxfd
     THEN MaxTcpSocket(tcpsockets', sfds \ {Lowest})
     ELSE sfds' = sfds \ {Lowest} /\ UNCHANGED maxfd
  /\ Goto(fds \ {Lowest})
  /\ UNCHANGED <<gotsighup, newsock, backlog, dgram, hups, told>>

---------------------------------------------------------------------------
(* The signal handler.  A signal that arrives while main() is blocked in    *)
(* select() makes it return EINTR; at any other time it only sets the flag. *)
HandleSighup ==
  /\ pc # "dead" /\ hups > 0
  /\ hups' = hups - 1 /\ gotsighup' = TRUE
  /\ pc' = IF pc = "select" THEN "top" ELSE pc
  /\ UNCHANGED <<barrierVars, tcpsockets, fdVars, fds, newsock, open, backlog,
                 dgram, gone, told>>

(* The clients: connect, send a datagram, or go away while connected.       *)
Connect ==
  /\ pc # "dead" /\ backlog + Cardinality(open) < MaxConns
  /\ backlog' = backlog + 1
  /\ UNCHANGED <<barrierVars, tcpsockets, fdVars, fds, gotsighup, newsock, pc,
                 open, dgram, gone, hups, told>>

SendDatagram ==
  /\ pc # "dead" /\ ~dgram /\ "udp" \in Requests
  /\ dgram' = TRUE
  /\ UNCHANGED <<barrierVars, tcpsockets, fdVars, fds, gotsighup, newsock, pc,
                 open, backlog, gone, hups, told>>

ClientGone ==
  /\ pc # "dead"
  /\ \E s \in open \ (gone \cup {newsock}) : gone' = gone \cup {s}
  /\ UNCHANGED <<barrierVars, tcpsockets, fdVars, fds, gotsighup, newsock, pc,
                 open, backlog, dgram, hups, told>>

Daemon ==
  \/ Top \/ ClearBarriers \/ EnterSelect \/ SelectReturns
  \/ Accept \/ AcceptFailed \/ ReadAborted \/ TcpRequest \/ TcpInvalid
  \/ UdpRequest \/ UdpInvalid \/ UdpFailed \/ Overrun \/ ScanClosed
  \/ ScanGone

Clients == HandleSighup \/ Connect \/ SendDatagram \/ ClientGone

Next == Daemon \/ Clients

Spec == Init /\ [][Next]_vars

(* The daemon is scheduled, and a client that has connected sends its       *)
(* request or closes (emulab-sync.c writes at once): read() returns.        *)
FairSpec == Spec /\ WF_vars(Daemon)

---------------------------------------------------------------------------
(* The sum of the counts of the waiters ws.                                 *)
SumCounts(ws) ==
  LET S[i \in 0 .. Len(ws)] == IF i = 0 THEN 0 ELSE S[i - 1] + ws[i].count
  IN S[Len(ws)]

BarrierTypes ==
  /\ allbarriers \subseteq Name
  /\ count \in [Name -> Int] /\ error \in [Name -> Nat]
  /\ waiters \in [Name -> Seq(Waiter)]
  /\ promised \in [Name -> Nat] /\ forgotten \subseteq Name

SocketTypes ==
  /\ tcpsockets \in [Sock -> Name \cup {None}]
  /\ sfds \subseteq Sock /\ maxfd \in 0 .. NSock
  /\ fds \subseteq Sock \cup {Tcp, Udp}
  /\ open \subseteq Sock /\ gone \subseteq open
  /\ told \in [Sock -> Int]

LoopTypes ==
  /\ gotsighup \in BOOLEAN /\ dgram \in BOOLEAN
  /\ newsock \in 0 .. NSock /\ backlog \in Nat /\ hups \in Nat
  /\ pc \in {"top", "enter", "select", "accept", "read", "udp", "scan", "dead"}

(* Every variable has its type.                                             *)
TypeOK == BarrierTypes /\ SocketTypes /\ LoopTypes

(* The map from connections to barriers and the barriers' lists of waiters  *)
(* agree: a connection is in the map exactly when it is a waiter of that    *)
(* barrier, it is so once, and its descriptor is still open (835, 875, 910).*)
MapMatchesWaiters ==
  /\ \A n \in Name : \A i \in DOMAIN waiters[n] :
       waiters[n][i].sock # Udp =>
         /\ tcpsockets[waiters[n][i].sock] = n
         /\ waiters[n][i].sock \in open
         /\ \A j \in DOMAIN waiters[n] :
              waiters[n][j].sock = waiters[n][i].sock => i = j
  /\ \A s \in Sock : tcpsockets[s] # None =>
       /\ tcpsockets[s] \in allbarriers
       /\ s \in Connections(waiters[tcpsockets[s]])

(* Every connection that waits is watched by select(), so its closing is    *)
(* seen (422-432, 714-727).                                                 *)
WaitersWatched ==
  \A s \in Sock : tcpsockets[s] # None => s \in sfds /\ s <= maxfd

(* No descriptor is leaked: each open connection is some barrier's waiter   *)
(* or the one whose request is being read (407-439, 472, 911).              *)
NoDescriptorLeak ==
  \A s \in open : tcpsockets[s] # None \/ s = newsock

(* remove_tcpclient() is only called for a connection that is some          *)
(* barrier's waiter: its barrier pointer is never NULL (874-876).           *)
RemovesOnlyWaiters ==
  \A s \in fds \cap gone : tcpsockets[s] # None

(* What main() relies on from one phase of its loop to the next: select()   *)
(* is only given open descriptors, what it reported is not closed before    *)
(* accept() could reuse the number, the connection being read is nobody     *)
(* else's, and a barrier off the list has no waiters (362-481).             *)
LoopInvariant ==
  /\ \A s \in sfds : s <= maxfd
  /\ pc \in {"select", "accept"} => sfds \subseteq open
  /\ pc = "accept" => backlog > 0 /\ fds \cap Sock \subseteq open
  /\ pc = "read" => /\ newsock \in open /\ tcpsockets[newsock] = None
                    /\ newsock \notin sfds \cup fds \cup gone
  /\ pc # "read" => newsock = 0
  /\ pc \in {"read", "udp"} => Tcp \notin fds
  /\ pc = "scan" => fds # {} /\ fds \subseteq Sock
  /\ \A n \in Name : n \notin allbarriers => waiters[n] = << >>

(* The count of a barrier is what its masters have asked for since it was   *)
(* last crossed or cleared, less one for each caller waiting, whatever      *)
(* callers have gone (789, 809, 882): except for a barrier freed with its   *)
(* last waiter (889-891) while an -i -a master's count was in it.           *)
CountExact ==
  \A n \in Name \ forgotten : count[n] = promised[n] + SumCounts(waiters[n])

(* Without the exception: "detect closes and restore the counter" (172-174).*)
CounterRestored ==
  \A n \in Name : count[n] = promised[n] + SumCounts(waiters[n])

(* The error of a barrier is one that a caller sent, and no smaller than    *)
(* that of any caller still waiting (832-833).                              *)
ErrorCovers ==
  \A n \in Name : /\ error[n] \in Errors
                 /\ \A i \in DOMAIN waiters[n] : waiters[n][i].error <= error[n]

(* If the step answers a waiter of barrier n, it answers them all, with the *)
(* same value v, no smaller than the error of any, and the barrier is gone. *)
AnswersAll(n) ==
  (\E s \in Connections(waiters[n]) : told'[s] # told[s]) =>
    /\ n \notin allbarriers'
    /\ \E v \in Errors \cup {SERVER_ERROR_SIGHUP} :
         \A i \in DOMAIN waiters[n] :
           /\ waiters[n][i].error <= v
           /\ waiters[n][i].sock # Udp => /\ told'[waiters[n][i].sock] = v
                                          /\ waiters[n][i].sock \notin open'

(* The waiters of a barrier are released together: none is answered without *)
(* the others, before the barrier is crossed or cleared (842-860, 519-544). *)
ReleasedTogether == [][\A n \in Name : AnswersAll(n)]_vars

(* A client that closes its connection while it waits is noticed (172-174,  *)
(* 458-480).                                                                *)
DepartureNoticed ==
  \A s \in Sock : (s \in gone) ~> (s \notin gone \/ pc = "dead")

(* "If the count goes to zero, wake everyone up" (838).                     *)
ZeroWakesEveryone ==
  pc = "top" => \A n \in allbarriers : waiters[n] # << >> => count[n] # 0
=============================================================================
