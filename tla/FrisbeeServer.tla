---------------------------- MODULE FrisbeeServer ---------------------------
(***************************************************************************)
(* The frisbee image server, clientside/os/frisbee.redux/server.c.         *)
(*                                                                         *)
(* The receive thread (ServerRecvThread) turns JOIN, LEAVE, REQUEST and    *)
(* PREQUEST packets into work queue entries and keeps the table of active  *)
(* clients; the main thread (PlayFrisbee) takes entries off the queue and  *)
(* multicasts join replies and blocks.  The queue is guarded by WorkQLock; *)
(* the client count and the statistics the main thread reads to decide     *)
(* whether it should exit are not.                                         *)
(*                                                                         *)
(* The environment is a set of hosts that run clients: a client joins      *)
(* (JOIN may be repeated), leaves (LEAVE may be lost) or crashes and joins *)
(* again under another id, which it picks at random, another client's by   *)
(* chance; packets of one host are not reordered.  Reading the file is     *)
(* modelled by its failures only, and one step of the main thread sends    *)
(* one block.  The pacing of the blocks is left out.                       *)
(***************************************************************************)
EXTENDS FrisbeeSizes, FiniteSets, FiniteSetsExt, Sequences

CONSTANTS timeout,      \* -T: seconds idle before exit; 0 never,
                        \* negative: when the last client leaves
          MAXCLIENTS,   \* slots of the client table
          readsize,     \* blocks read from the file at a time
          Host,         \* hosts that run clients
          V1Host,       \* those whose clients send the old JOIN
          Ids,          \* ids a client may pick; 0 marks a free slot
          Strays,       \* BOUND: blocks past the end of the file, of those
                        \* PacketValid() lets through, that are asked for
          MaxWorkQ,     \* BOUND: queue length at which no packet comes
          MaxActive     \* BOUND: activeclients at which no JOIN comes

ASSUME ServerAssumption ==
    /\ timeout \in Int
    /\ MAXCLIENTS \in Nat
    /\ readsize \in Nat \ {0}
    /\ Ids \subseteq Nat \ {0}
    /\ Strays \in Nat
    /\ MaxWorkQ \in Nat
    /\ MaxActive \in Nat

NoOne == "noone"
ASSUME HostAssumption ==
    IsFiniteSet(Host) /\ NoOne \notin Host /\ V1Host \subseteq Host

ASSUME ServerSizeAssumption ==
    /\ MAXCHUNKSIZE \in Nat \ {0}
    /\ MAXBLOCKSIZE \in Nat \ {0}
    /\ ImageBytes \in Nat \ {0}

Slot == 1 .. MAXCLIENTS

VARIABLES
    WorkQ,                            \* guarded by WorkQLock
    WorkChunk, WorkBlock, WorkCount,  \* the range last dequeued
    \* The main thread.
    spc, cur, idlelastloop, killme,
    \* The receive thread.
    rpc,
    rj,             \* the client whose JOIN is being handled
    clients,        \* the table: slot -> <<ip, id>>
    activeclients,
    joins,          \* Stats.joins > 0
    \* The environment and what the server sends.
    host,           \* host -> [id, in]
    out,            \* the packet sent by the last step
    reused          \* history: a client has joined under an id that the
                    \* table held for another host

queueVars  == <<WorkQ, WorkChunk, WorkBlock, WorkCount>>
senderVars == <<spc, cur, idlelastloop, killme>>
recvVars   == <<rpc, rj, clients, activeclients, joins>>
hostVars   == <<host, reused>>
vars       == <<queueVars, senderVars, recvVars, hostVars, out>>

NoCur   == [chunk |-> -1, block |-> 0, last |-> 0]
Nothing == [type |-> "none", chunk |-> -1, block |-> 0, who |-> 0]
FreeSlot == [ip |-> NoOne, id |-> 0]

\* A queue entry; that of a join reply has minus the version of the JOIN for
\* its chunk, and the id of the client, which the code keeps in nblocks.
Entry(c, n, blocks, who) ==
    [chunk |-> c, nblocks |-> n, blocks |-> blocks, who |-> who]
IsJoin(e) == e.chunk < 0
JoinVers(h) == IF h \in V1Host THEN 1 ELSE 2
JoinChunk == {-1, -2}

\* FileInfo.isimage: a traditional image, whose last chunk is whole.
IsImage == ImageBytes % (MAXBLOCKSIZE * MAXCHUNKSIZE) = 0

\* The blocks of a chunk that a request may ask for.
ReqSize(c) == IF ChunkSize(c) + Strays < MAXCHUNKSIZE THEN ChunkSize(c) + Strays
              ELSE MAXCHUNKSIZE
Requestable(c) == 0 .. ReqSize(c) - 1

Playing == {h \in Host : host[h].in}
Exited == spc = "exited"

Init ==
    /\ WorkQ = <<>>
    /\ WorkChunk = 0 /\ WorkBlock = 0 /\ WorkCount = 0
    /\ spc = "loop" /\ cur = NoCur /\ idlelastloop = TRUE /\ killme = FALSE
    /\ rpc = "recv" /\ rj = NoOne
    /\ clients = [s \in Slot |-> FreeSlot]
    /\ activeclients = 0 /\ joins = FALSE
    /\ host = [h \in Host |-> [id |-> 0, in |-> FALSE]]
    /\ out = Nothing /\ reused = FALSE

-----------------------------------------------------------------------------
(***************************************************************************)
(* The work queue.                                                         *)
(***************************************************************************)

\* WorkQueueEnqueueChunk(): the request is dropped if it is for a whole chunk
\* and that chunk is the range last dequeued, merged into the last entry of
\* the chunk that is not being sent, or appended.
SameAsCurrent(c, blocks) ==
    /\ Cardinality(blocks) = MAXCHUNKSIZE
    /\ c = WorkChunk
    /\ WorkCount = MAXCHUNKSIZE

\* Mutant: requests are never merged into the chunk that is being sent.
MergeableNotCurrent(c, blocks) ==
    {i \in 1 .. Len(WorkQ) : WorkQ[i].chunk = c /\ c # WorkChunk}

\* Mutant: requests are merged into the entry whose blocks are being sent.
MergeableHead(c, blocks) == {i \in 1 .. Len(WorkQ) : WorkQ[i].chunk = c}

Mergeable(c, blocks) ==
    {i \in 1 .. Len(WorkQ) :
        /\ WorkQ[i].chunk = c
        /\ ~ /\ i = 1
             /\ c = WorkChunk
             /\ Min(blocks) < WorkBlock + WorkCount}

\* Mutant: blocks that were asked for already are counted again.
MergedCountsTwice(e, blocks) ==
    [e EXCEPT !.blocks = e.blocks \union blocks,
              !.nblocks = e.nblocks + Cardinality(blocks)]

\* Mutant: the new request replaces the old one.
MergedReplaces(e, blocks) ==
    [e EXCEPT !.blocks = blocks, !.nblocks = Cardinality(blocks)]

\* Mutant: a request for a chunk that is in the queue is dropped.
MergedDrops(e, blocks) == e

Merged(e, blocks) ==
    IF e.nblocks = MAXCHUNKSIZE
    THEN e
    ELSE IF Cardinality(blocks) = MAXCHUNKSIZE
    THEN [e EXCEPT !.blocks = blocks, !.nblocks = MAXCHUNKSIZE]
    ELSE [e EXCEPT !.blocks = e.blocks \union blocks,
                   !.nblocks = e.nblocks + Cardinality(blocks \ e.blocks)]

WorkQueueEnqueueChunk(c, blocks) ==
    LET M == Mergeable(c, blocks) IN
    WorkQ' = IF SameAsCurrent(c, blocks)
             THEN WorkQ
             ELSE IF M # {}
             THEN [WorkQ EXCEPT ![Max(M)] = Merged(WorkQ[Max(M)], blocks)]
             ELSE Append(WorkQ, Entry(c, Cardinality(blocks), blocks, 0))

\* BlockMapExtract(): the first run of blocks of the map.
FirstRun(blocks) ==
    {b \in blocks : Min(blocks) .. b \subseteq blocks}

-----------------------------------------------------------------------------
(***************************************************************************)
(* ServerRecvThread().                                                     *)
(***************************************************************************)
Receiving == rpc = "recv" /\ ~ Exited /\ Len(WorkQ) < MaxWorkQ

\* A REQUEST or PREQUEST for blocks of a chunk.
RecvRequest(c, blocks) ==
    /\ Receiving
    /\ WorkQueueEnqueueChunk(c, blocks)
    /\ out' = Nothing
    /\ UNCHANGED <<WorkChunk, WorkBlock, WorkCount, senderVars, recvVars,
                   hostVars>>

\* A JOIN or JOIN2: of a host where no client is running or whose client has
\* crashed (fresh), under an id the new client has picked; or, repeated, of one
\* that has not got its reply yet.  The statistic is incremented first; the two
\* steps of ClientJoin() follow.
RecvJoin(h, id, fresh) ==
    /\ Receiving
    /\ activeclients < MaxActive
    /\ fresh \/ (host[h].in /\ host[h].id = id)
    /\ host' = [host EXCEPT ![h] = [id |-> id, in |-> TRUE]]
    /\ reused' = (reused \/ \E s \in Slot : /\ clients[s].id = id
                                            /\ clients[s].ip # h)
    /\ joins' = TRUE
    /\ rpc' = "enqueue"
    /\ rj' = h
    /\ out' = Nothing
    /\ UNCHANGED <<queueVars, senderVars, clients, activeclients>>

WorkQueueEnqueueJoin ==
    /\ rpc = "enqueue"
    /\ ~ Exited
    /\ WorkQ' = <<Entry(- JoinVers(rj), 0, {}, host[rj].id)>> \o WorkQ
    /\ rpc' = "table"
    /\ out' = Nothing
    /\ UNCHANGED <<WorkChunk, WorkBlock, WorkCount, senderVars, rj, clients,
                   activeclients, joins, hostVars>>

\* Mutant: a client that comes back under another id is not recognised.
SlotsOfId(h) == {s \in Slot : clients[s].id = host[h].id}

\* The slots of a client: those with its id, whatever the address, or with its
\* address under an older id.
SlotsOf(h) == {s \in Slot : clients[s].id = host[h].id \/ clients[s].ip = h}
FreeSlots  == {s \in Slot : clients[s] = FreeSlot}

\* Mutant: a client that joins again is counted again.
ClientJoinCountsAgain ==
    /\ rpc = "table"
    /\ ~ Exited
    /\ LET me    == [ip |-> rj, id |-> host[rj].id]
           slots == IF SlotsOf(rj) # {} THEN SlotsOf(rj) ELSE FreeSlots
       IN  clients' = IF slots = {} THEN clients
                      ELSE [clients EXCEPT ![Min(slots)] = me]
    /\ activeclients' = activeclients + 1
    /\ rpc' = "recv"
    /\ rj' = NoOne
    /\ out' = Nothing
    /\ UNCHANGED <<queueVars, senderVars, joins, hostVars>>

ClientJoin ==
    /\ rpc = "table"
    /\ ~ Exited
    /\ LET me == [ip |-> rj, id |-> host[rj].id] IN
       IF SlotsOf(rj) # {}
       THEN /\ clients' = [clients EXCEPT ![Min(SlotsOf(rj))] = me]
            /\ UNCHANGED activeclients
       ELSE /\ activeclients' = activeclients + 1
            /\ clients' = IF FreeSlots = {} THEN clients
                          ELSE [clients EXCEPT ![Min(FreeSlots)] = me]
    /\ rpc' = "recv"
    /\ rj' = NoOne
    /\ out' = Nothing
    /\ UNCHANGED <<queueVars, senderVars, joins, hostVars>>

\* ClientLeave(), ClientLeave2(): only an id in the table is counted out.
ClientLeave(h) ==
    /\ Receiving
    /\ host[h].in
    /\ host' = [host EXCEPT ![h].in = FALSE]
    /\ LET S == {s \in Slot : clients[s].id = host[h].id} IN
       IF S # {}
       THEN /\ clients' = [clients EXCEPT ![Min(S)] = FreeSlot]
            /\ activeclients' = activeclients - 1
       ELSE UNCHANGED <<clients, activeclients>>
    /\ out' = Nothing
    /\ UNCHANGED <<queueVars, senderVars, rpc, rj, joins, reused>>

\* A client goes away and the server does not learn of it.
LeaveLost(h) ==
    /\ ~ Exited
    /\ host[h].in
    /\ rj # h
    /\ host' = [host EXCEPT ![h].in = FALSE]
    /\ out' = Nothing
    /\ UNCHANGED <<queueVars, senderVars, recvVars, reused>>

-----------------------------------------------------------------------------
(***************************************************************************)
(* PlayFrisbee(): the main thread.                                         *)
(***************************************************************************)
Looping == spc = "loop" /\ ~ killme

\* WorkQueueDequeue() of an empty queue, which then sleeps for a while.
DequeueNothing ==
    /\ Looping
    /\ WorkQ = <<>>
    /\ WorkChunk' = -1
    /\ spc' = "idle"
    /\ out' = Nothing
    /\ UNCHANGED <<WorkQ, WorkBlock, WorkCount, cur, idlelastloop, killme,
                   recvVars, hostVars>>

\* Mutant: every client is answered in the layout of JOIN2.
JoinReplyNew(vers) == "JOINREPLY2"

JoinReply(vers) == IF vers = 1 THEN "JOINREPLY" ELSE "JOINREPLY2"

\* A join reply, in the layout of the JOIN, is sent at once; WorkChunk is left
\* as it was.
DequeueJoin ==
    /\ Looping
    /\ WorkQ # <<>>
    /\ IsJoin(Head(WorkQ))
    /\ WorkQ' = Tail(WorkQ)
    /\ out' = [Nothing EXCEPT !.type = JoinReply(- Head(WorkQ).chunk),
                              !.who = Head(WorkQ).who]
    /\ idlelastloop' = FALSE
    /\ UNCHANGED <<WorkChunk, WorkBlock, WorkCount, spc, cur, killme,
                   recvVars, hostVars>>

\* Take the whole chunk, or the first run of blocks the entry asks for.
DequeueChunk ==
    /\ Looping
    /\ WorkQ # <<>>
    /\ ~ IsJoin(Head(WorkQ))
    /\ LET e     == Head(WorkQ)
           whole == e.nblocks = MAXCHUNKSIZE
           run   == FirstRun(e.blocks)
           block == IF whole THEN 0 ELSE Min(run)
           count == IF whole THEN MAXCHUNKSIZE ELSE Cardinality(run)
           rest  == [e EXCEPT !.blocks = e.blocks \ run,
                              !.nblocks = e.nblocks - count]
       IN  /\ WorkQ' = IF rest.nblocks = 0 THEN Tail(WorkQ)
                       ELSE [WorkQ EXCEPT ![1] = rest]
           /\ WorkChunk' = e.chunk
           /\ WorkBlock' = block
           /\ WorkCount' = count
           /\ cur' = [chunk |-> e.chunk, block |-> block, last |-> block + count]
    /\ idlelastloop' = FALSE
    /\ spc' = "send"
    /\ out' = Nothing
    /\ UNCHANGED <<killme, recvVars, hostVars>>

\* Mutant: the last read is not cut to the range.
ReadEndUncut == cur.block + readsize

\* The file is read readsize blocks at a time.  A read that would go past the
\* end of the file is not done, and ends the range without an answer.
ReadEnd == IF cur.last - cur.block > readsize THEN cur.block + readsize
           ELSE cur.last

BeyondEOF ==
    /\ (cur.block - WorkBlock) % readsize = 0
    /\ cur.chunk * MAXCHUNKSIZE + ReadEnd > TotalBlocks

ReadBeyondEOF ==
    /\ spc = "send"
    /\ BeyondEOF
    /\ cur' = NoCur
    /\ spc' = "loop"
    /\ out' = Nothing
    /\ UNCHANGED <<queueVars, idlelastloop, killme, recvVars, hostVars>>

SendBlock ==
    /\ spc = "send"
    /\ ~ BeyondEOF
    /\ out' = [Nothing EXCEPT !.type = "BLOCK", !.chunk = cur.chunk,
                              !.block = cur.block]
    /\ IF cur.block + 1 < cur.last
       THEN cur' = [cur EXCEPT !.block = cur.block + 1] /\ UNCHANGED spc
       ELSE cur' = NoCur /\ spc' = "loop"
    /\ UNCHANGED <<queueVars, idlelastloop, killme, recvVars, hostVars>>

\* The file cannot be read: FrisPfatal().
ReadFailed ==
    /\ spc = "send"
    /\ spc' = "exited"
    /\ out' = Nothing
    /\ UNCHANGED <<queueVars, cur, idlelastloop, killme, recvVars, hostVars>>

\* After the sleep, the queue was empty when last looked at: exit when the last
\* client has left (negative timeout) or after a long time idle.
LastClientLeft ==
    /\ spc = "idle"
    /\ timeout < 0
    /\ joins
    /\ activeclients = 0
    /\ spc' = "lastclient"
    /\ out' = Nothing
    /\ UNCHANGED <<queueVars, cur, idlelastloop, killme, recvVars, hostVars>>

\* fsleep(2000000), and out.
LastClientExit ==
    /\ spc = "lastclient"
    /\ spc' = "exited"
    /\ out' = Nothing
    /\ UNCHANGED <<queueVars, cur, idlelastloop, killme, recvVars, hostVars>>

\* Any time may have passed since IdleTimeStamp.
IdleExit ==
    /\ spc = "idle"
    /\ timeout > 0
    /\ idlelastloop
    /\ spc' = "exited"
    /\ out' = Nothing
    /\ UNCHANGED <<queueVars, cur, idlelastloop, killme, recvVars, hostVars>>

IdleAgain ==
    /\ spc = "idle"
    /\ ~ (timeout < 0 /\ joins /\ activeclients = 0)
    /\ idlelastloop' = TRUE
    /\ spc' = "loop"
    /\ out' = Nothing
    /\ UNCHANGED <<queueVars, cur, killme, recvVars, hostVars>>

\* SIGINT and SIGTERM set killme, looked at between two entries; SIGHUP exits.
Kill ==
    /\ ~ Exited
    /\ ~ killme
    /\ killme' = TRUE
    /\ out' = Nothing
    /\ UNCHANGED <<queueVars, spc, cur, idlelastloop, recvVars, hostVars>>

KilledExit ==
    /\ spc = "loop"
    /\ killme
    /\ spc' = "exited"
    /\ out' = Nothing
    /\ UNCHANGED <<queueVars, cur, idlelastloop, killme, recvVars, hostVars>>

HangUp ==
    /\ ~ Exited
    /\ spc' = "exited"
    /\ out' = Nothing
    /\ UNCHANGED <<queueVars, cur, idlelastloop, killme, recvVars, hostVars>>

Terminated == Exited /\ UNCHANGED vars

-----------------------------------------------------------------------------
Sender ==
    \/ DequeueNothing \/ DequeueJoin \/ DequeueChunk \/ SendBlock
    \/ ReadBeyondEOF
    \/ LastClientLeft \/ LastClientExit \/ IdleExit \/ IdleAgain \/ KilledExit

Joins ==
    \E h \in Host, id \in Ids, fresh \in BOOLEAN : RecvJoin(h, id, fresh)

Requests ==
    \E c \in Chunk : \E blocks \in (SUBSET Requestable(c)) \ {{}} :
        RecvRequest(c, blocks)

Receiver ==
    \/ Requests
    \/ Joins
    \/ WorkQueueEnqueueJoin
    \/ ClientJoin
    \/ \E h \in Host : ClientLeave(h)

Faults == ReadFailed \/ Kill \/ HangUp

Next ==
    \/ Sender \/ Receiver \/ Faults
    \/ \E h \in Host : LeaveLost(h)
    \/ Terminated

Spec == Init /\ [][Next]_vars

-----------------------------------------------------------------------------
(***************************************************************************)
(* Correctness.                                                            *)
(***************************************************************************)

QEntry ==
    [chunk : Chunk \union JoinChunk, nblocks : 0 .. MAXCHUNKSIZE,
     blocks : SUBSET (0 .. MAXCHUNKSIZE - 1), who : Ids \union {0}]

QueueTypes ==
    /\ WorkQ \in Seq(QEntry)
    /\ WorkChunk \in Chunk \union {-1}
    /\ WorkBlock \in 0 .. MAXCHUNKSIZE - 1
    /\ WorkCount \in 0 .. MAXCHUNKSIZE

SenderTypes ==
    /\ spc \in {"loop", "idle", "send", "lastclient", "exited"}
    /\ cur \in [chunk : Chunk \union {-1}, block : 0 .. MAXCHUNKSIZE - 1,
                last : 0 .. MAXCHUNKSIZE]
    /\ idlelastloop \in BOOLEAN /\ killme \in BOOLEAN

RecvTypes ==
    /\ rpc \in {"recv", "enqueue", "table"}
    /\ rj \in Host \union {NoOne}
    /\ clients \in [Slot -> [ip : Host, id : Ids] \union {FreeSlot}]
    /\ activeclients \in Nat
    /\ joins \in BOOLEAN
    /\ host \in [Host -> [id : Ids \union {0}, in : BOOLEAN]]
    /\ reused \in BOOLEAN

\* Every variable has its type.
TypeOK == QueueTypes /\ SenderTypes /\ RecvTypes

ChunkEntries == {i \in 1 .. Len(WorkQ) : ~ IsJoin(WorkQ[i])}

\* Merging keeps nblocks equal to the number of blocks in the map, never
\* empty, which WorkQueueDequeue() relies on to take an entry off the queue.
NBlocksExact ==
    \A i \in ChunkEntries :
        /\ WorkQ[i].nblocks = Cardinality(WorkQ[i].blocks)
        /\ WorkQ[i].blocks # {}

\* Requests merge: however many come in, the queue holds one entry for a chunk,
\* and a second one only behind the entry whose blocks are being sent; joins
\* aside it is never longer than the image has chunks, plus one.
QueueBounded ==
    /\ \A i, j \in ChunkEntries :
          i < j /\ WorkQ[i].chunk = WorkQ[j].chunk =>
             i = Min(ChunkEntries) /\ WorkQ[i].chunk = WorkChunk
    /\ Cardinality(ChunkEntries) <= TotalChunks + 1

\* The queue is exact and bounded, whatever is merged or taken off while the
\* main thread sends.
QueueExact == NBlocksExact /\ QueueBounded

\* The main thread gives up a range at the end of the file (server.c 908-915)
\* only if a block past the end was asked for in it: no merge, extraction or
\* rounding of a read brings it there.
PastEOFWasAsked ==
    spc = "send" /\ BeyondEOF =>
        \E b \in cur.block .. cur.last - 1 : b \notin ChunkBlocks(cur.chunk)

\* With a slot for every host, whatever joins are repeated and whichever
\* clients crash and rejoin, a playing client has exactly one slot and the
\* count is the number of slots in use, until two hosts pick one id.
TableExact ==
    rpc = "recv" /\ Cardinality(Host) <= MAXCLIENTS /\ ~ reused =>
        /\ activeclients = MAXCLIENTS - Cardinality(FreeSlots)
        /\ \A h \in Playing :
              \E s \in Slot :
                 /\ clients[s] = [ip |-> h, id |-> host[h].id]
                 /\ \A t \in Slot \ {s} : /\ clients[t].ip # h
                                          /\ clients[t].id # host[h].id

\* The blocks the server has still to send: those in the queue and the rest of
\* the range being sent.
Owed ==
    (UNION {{WorkQ[i].chunk} \X WorkQ[i].blocks : i \in ChunkEntries})
    \union ({cur.chunk} \X (cur.block .. cur.last - 1))

Sent == IF out.type = "BLOCK" THEN <<out.chunk, out.block>> ELSE <<>>

Service == INSTANCE FrisbeeService
              WITH Blocks <- UNION {{c} \X Requestable(c) : c \in Chunk},
                   File <- UNION {{c} \X ChunkBlocks(c) : c \in Chunk},
                   owed <- Owed, sent <- Sent

\* The queue implements a set of owed blocks: merging and extracting never
\* forget a block and never send one that nobody asked for; blocks are given up
\* only along with one past the end of the file.
ImplementsService == Service!Spec

\* No request is lost: the blocks it asks for are owed afterwards, whether it
\* was queued or merged, except those of a whole chunk asked for again while
\* that chunk is the range last taken off the queue (server.c 238-244).
RequestsKept ==
    [][\A c \in Chunk : \A blocks \in (SUBSET Requestable(c)) \ {{}} :
         RecvRequest(c, blocks) =>
            \/ {c} \X blocks \subseteq Owed'
            \/ /\ Cardinality(blocks) = MAXCHUNKSIZE
               /\ WorkChunk = c /\ WorkCount = MAXCHUNKSIZE]_vars

-----------------------------------------------------------------------------
(***************************************************************************)
(* Liveness: both threads keep running.  Arrivals and faults are not fair. *)
(***************************************************************************)
Fairness ==
    /\ WF_vars(Sender)
    /\ WF_vars(WorkQueueEnqueueJoin)
    /\ WF_vars(ClientJoin)

FairSpec == Spec /\ Fairness

\* No block of the file starves, however requests are merged into the entries
\* in front of it and into the one whose blocks are being sent (server.c
\* 254-263): unless joins, which jump the queue (server.c 211), never stop, or
\* somebody asks for blocks of its chunk that are past the end of the file.
OwedIsSent ==
    <>[][~ Joins]_vars =>
        \A c \in Chunk : \A b \in ChunkBlocks(c) :
            [](\A o \in Owed : o[1] = c => o[2] \in ChunkBlocks(c)) =>
                (<<c, b>> \in Owed ~> (Sent = <<c, b>> \/ Exited))

\* Every join is answered with the id of the client and in the layout of its
\* version, whoever else joins, unless later joins never stop jumping the queue.
JoinIsAnswered ==
    <>[][~ Joins]_vars =>
        \A h \in Host, i \in Ids :
            (rpc = "enqueue" /\ rj = h /\ host[h].id = i) ~>
                \/ /\ out.type = IF h \in V1Host THEN "JOINREPLY" ELSE "JOINREPLY2"
                   /\ out.who = i
                \/ Exited

\* A server told to exit when the last client leaves does so once its table is
\* empty for good and requests have stopped (server.c 782-788): the count it
\* tests is not left above zero by joins that were repeated or by clients that
\* crashed and came back.  Two hosts that pick one id can leave it above.
ExitsAfterLast ==
    /\ timeout < 0
    /\ []~ reused
    /\ <>joins
    /\ <>[](FreeSlots = Slot /\ Playing = {})
    /\ <>[][~ Requests]_vars
    => <>Exited

\* "If less than zero, exit when last client leaves" (server.c 782): that the
\* last client has left is concluded only when no client is playing.
LastMeansLast == [][LastClientLeft => Playing = {}]_vars

\* "NOTE: serving non-image file, will ignore V1 JOINs" (server.c 1192).
V1JoinsIgnored == ~ IsImage => out.type # "JOINREPLY"

=============================================================================
