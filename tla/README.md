# A TLA+ verification project for Emulab's node-side services

The repository is the Emulab testbed: a portal, a database and a few hundred
scripts on the servers ("boss", "ops"), and a set of programs that run on the
nodes and between them. This project specifies the programs whose correctness
depends on threads, packets, signals and clients that come and go:

* **frisbee** (`src/clientside/os/frisbee.redux`) loads disk images onto many
  nodes at once, by multicast, from one server;
* **the image writer** (`src/clientside/os/imagezip/imageunzip.c`), which
  frisbee's client calls, decompresses an image and writes it to the disk;
* **the synchronisation server** (`src/clientside/os/syncd`) gives the nodes of
  an experiment named barriers;
* **the event scheduler** of an experiment (`src/event/sched`) fires events at
  their times and runs sequences and groups of programs, and **the program
  agent** (`src/clientside/event/program-agent`) on the nodes executes them.

Line numbers are of the file under discussion: `client.c`, `server.c`,
`utils.c` (frisbee), `imageunzip.c`, `emulab-syncd.c`, `queue.c`,
`event-sched.c`, `timeline-agent.c`, `group-agent.c`, `program-agent.c`.
`PROJECT.json` maps each definition to its lines.

## Inventory

| Component | State | Operations | What is hard | What makes it correct |
|---|---|---|---|---|
| frisbee client, `client.c` | chunk descriptors (`seen`, `done`, `ours`, `lastreq`), chunk buffers (state, block map, count), tick counters, `child_error` | two threads: receive (packets, timeouts, requests) and main (write, shut down) | buffers are searched and freed without the mutex; packets lost, duplicated, for others; back off and request suppression; wake-ups | no chunk lost or written twice or half; the image complete at the end; the client never falls silent |
| frisbee server, `server.c` | work queue, range being sent, client table, `activeclients`, statistics | two threads: receive (join, leave, requests) and main (send, idle, exit) | merging into an entry that is being sent; counters read by the other thread; lost LEAVEs, crashes | each block asked for is sent; queue bounded; table exact; exit after the last client |
| sizes and block maps, `utils.c` | six numbers; an array of bytes | `InitSizes`, `ChunkSize`, `BlockSize`...; `BlockMap*` | last block and chunk full or partial; whole-byte short cuts | sizes add up; maps behave as sets |
| synchronisation server, `emulab-syncd.c` | barriers (count, error, waiters), map from connections to barriers, watched descriptors | `select()` loop, `handle_request`, `remove_tcpclient`, `clear_barriers` | clients that go away in any phase; descriptors closed and reused in one round; UDP and TCP mixed; signals | waiters released together, none forgotten, no descriptor leaked, count exact |
| synchronisation client, `emulab-sync.c` | none | one request, then wait | killed while waiting | (environment of the server) |
| frisbee master server, upload | child processes, proxies | get/put of images | child exits, timeouts, retries | one server per image; a failed upload leaves the old image |
| image writer, `imageunzip.c` | buffers with reference counts, memory in use, write queue, `writeinprogress`, `maxwrittenoffset` | two threads: decompress (`inflate_subblock`, `write_subblock`, flush, quit) and write (`DiskWriter`) | buffers split and shared, a memory limit that one thread waits on, an unlocked flag that says "done" | the disk holds the image; memory exact; no deadlock |
| node state daemon, `stated` | node states, timeout queue | events, timeouts, triggers | out-of-order events | only legal transitions; a timeout always acts |
| event queue, `queue.c` | heap in an array, semaphore, condition | enqueue, by two threads; dequeue, which sleeps | signals outside the mutex; the head changes during the sleep | earliest first, when due, none lost |
| event scheduler, `event-sched.c`, `timeline-agent.c`, `group-agent.c` | sequences and timelines (events, position, token), groups (token, remaining, error), `next_token` | two threads: `enqueue()` for arrivals, `dequeue()` fires | completions that race, late or repeated; tokens renewed while in use | a sequence goes on exactly when its step is done; a group counts each member once; both end |
| program agent, `program-agent.c` | per program: pid, token, halt token | start, halt, exit | failed starts, HALT and exit at once | one answer to each event that promises one |
| agents of the scheduler, `local-agent.c` and the `*-agent.cc` | a queue and a thread each | simulator, node, console, topography events | a thread that times out while work arrives | nothing queued is left behind |
| swap and allocation (Perl, SQL) | experiment and node tables | swap in, out, modify, batch | locks, partial failure | no node in two experiments |
| the rest | | | | see the notes in `PROJECT.json` |

The components interact as follows. The client multicasts JOIN, REQUEST,
PREQUEST and LEAVE; the server and *every other client* hear the requests. The
server multicasts BLOCKs, which all clients hear, and answers JOIN with the
size of the image. Client and server share `utils.c`. Both threads of the
client share the chunk buffers, both threads of the server the work queue and
some counters. The client's main thread hands complete chunks to the image
writer (`ImageUnzipChunk()`, `ImageWriteChunk()`) and ends with
`ImageUnzipFlush()`. The synchronisation server shares nothing with frisbee; its
clients are the nodes' programs. The scheduler sends START, RUN, HALT... to the
agents on the nodes and gets COMPLETEs back, each with the token of the event it
answers; timelines, sequences and groups are agents within the scheduler, which
sends their COMPLETEs to itself through the event system.

## Modules

| Module | Models | Uses |
|---|---|---|
| `FrisbeeSizes` | the sizes of `utils.c` (196-273), as definitions over three constants | |
| `BlockMap` | the block maps of `utils.c` (275-557), byte by byte with the code's loops | |
| `BlockSet` | abstract specification: a block map is a set | |
| `MCFrisbeeUtils` | `BlockMap`, and `FrisbeeSizes` with the image size as a variable that grows | `BlockMap`, `FrisbeeSizes` |
| `FrisbeeClient` | `client.c` | `FrisbeeSizes` |
| `FrisbeeServer` | `server.c` | `FrisbeeSizes` |
| `FrisbeeService` | abstract specification: the server owes a set of blocks | |
| `MCFrisbeeServer` | a negative constant for the configurations | `FrisbeeServer` |
| `ImageUnzip` | `imageunzip.c` | |
| `MCImageUnzip` | images and options for it | `ImageUnzip` |
| `Syncd` | `emulab-syncd.c` | |
| `IntSets` | lemmas about sets of integers, induction and recursion over the naturals, sums over sets | TLAPS |
| `FrisbeeSizesProofs`, `FrisbeeServerProofs`, `FrisbeeClientProofs`, `EventQueueProofs`, `SyncdProofs`, `ImageUnzipProofs` | theorems about the module each is named after | that module, `IntSets`, TLAPS |
| `FrisbeeUtilsProofs` | theorems about `BlockMap` and `MCFrisbeeUtils` | `MCFrisbeeUtils`, `FrisbeeSizesProofs` (INSTANCE), `IntSets` |
| `EventQueue` | `queue.c`, and the loop of `dequeue()` around it | |
| `EventBag` | abstract specification: the earliest event is taken when due | |
| `ProgramAgent` | `program-agent.c`, as actions without a specification of their own | |
| `EventSched` | `event-sched.c`, `timeline-agent.c`, `group-agent.c`, composed with the agents | `ProgramAgent` |
| `MCEventSched` | an experiment for it | `EventSched` |

A definition whose comment begins with "Mutant" is not part of a
specification. It is a plausible bug in the definition after it; `PROJECT.json`
says which property finds it when it takes that definition's place.

### FrisbeeClient

The shared tables are functions over `Chunk` and `Buf`. `rpc` and `mpc` are the
program counters of the two threads. `ClientRecvThread()` handles a packet or a
timeout in steps: `GotBlockScan` looks at one buffer at a time, because the
search (1443-1469) is not under the mutex; so does `RequestChunkScan`.
`GotBlockFull` (a buffer becomes FULL, under the mutex) and `GotBlockDone` (its
chunk becomes `done`, outside it) are two steps. The main thread's steps are the
points where it takes or releases the mutex: it holds it in `check` and
`towait`, and `pthread_cond_wait()` is the atomic release-and-wait of
`MainWait`. Writing a buffer is one step after the one that found it, and the
receive thread runs in between. The data of a block is the number of the chunk
it belongs to, which is enough to see a block of a previous chunk left in a
buffer. The network is the most general one: any block or request may arrive at
any time, or never. The time stamp of a request is `zero`, `fresh` or `old`;
`Age` makes it old and, every 2^32 microseconds, fresh again, since the
difference is cast to `int` (1396).

`ImageUnzipFlush()` may fail at the end (`MainFlushFailed`, 1274-1275): the
client exits with an error although every chunk has been handed over.

The build is the default one on Linux: `CONDVARS_WORK` and `STATS` defined,
`PASSIVE`, `OLD_SCHOOL`, `DOEVENTS` and `NEVENTS` not.

### FrisbeeServer

The work queue is a sequence of entries; a block map is a set, which
`MapsAreSets` justifies. `RecvJoin`, `WorkQueueEnqueueJoin` and `ClientJoin`
are the three steps of a JOIN that the main thread can see apart. An entry for a
join has minus the version of the JOIN as its chunk, as in the code, and
`JoinReply` is the layout of the answer; the clients of the hosts `V1Host` send
the old JOIN. The main thread reads `readsize` blocks at a time: a read that
would go past the end of the file is not done and ends the range
(`ReadBeyondEOF`); `SendBlock` sends one block of what was read; the pacing
between blocks is left out. A request may ask for any block that `PacketValid()`
lets through (`Requestable`), up to `Strays` blocks past the end of the file in
a partial last chunk. `Kill` sets the flag that is looked at between two entries.
Hosts start a client, leave, crash and start another; a new client picks any id,
that of another host's client too. `SlotsOf` are the slots that `ClientJoin()`
takes for the client's own: by id, whatever the address, or by address. `out` is
the packet sent by the last step, and `reused` a history variable: some client
has joined under an id that the table held for another host.

### BlockMap

A byte is the set of its bits. Each operation is the code's loop with the same
short cuts: a record of the loop's variables and a function (`SetStep`,
`ExtractStep`, `CountStep`, `ApplyStep`) that is one turn of it. `Loop` takes
`Turns` turns, and a turn after the end changes nothing; that no loop needs more
is part of what is checked and proved. `BlockMap` is compared with `BlockSet`,
where each operation is its meaning on sets and the runs of a set are the pairs
<<first, length>> that cannot be made longer, the i-th being the one with i - 1
before it.

### Syncd

`pc` is the place in `main()`'s loop: top, about to enter `select()`, in it,
then the three phases accept/read, udp and scan. `fds` is what `select()`
reported and has not been handled, so that a descriptor closed in one phase is
still in `fds` in the next, as in the code. `accept()` returns the lowest free
descriptor, as POSIX requires. The listening sockets are not in the model's
`sfds`. `EnterSelect` dies if a watched descriptor is closed (EBADF is fatal).
A SIGHUP may come at any time: while `select()` blocks it makes it return, at
other times it sets the flag. A waiter beyond `MAXWAITERS` is written past the
array, which nothing checks (825-831): the model ends there (`Overrun`), since
what the daemon does then is not defined. History variables are `told` (the
integer last written on a connection), `promised` (what `-i -a` callers have
added to a barrier since it was last crossed or cleared, whether or not its
structure was freed in between) and `forgotten` (the barriers that were freed
with their last waiter while something was promised, until they are crossed or
cleared).

### ImageUnzip

`mpc` and `d` are the place and the local variables of the caller's thread in
`inflate_subblock()` or `write_subblock()`; `wpc` and `wcur` those of
`DiskWriter()`. A chunk is its first and last sector and its regions; its
decompressed data are the bytes of the regions in order, and the content of a
byte is the address it belongs at. The regions of a chunk are not empty and lie
apart from one another in order, as the code asserts, between its first and its
last sector (`IsChunk`); the chunks of an image lie apart and are finitely many
(`IsImage`), since imagezip starts a chunk where the one before it ended
(`imagezip.c` 2448-2473). `Inflate` may produce any number of bytes that
completes a sector, so the leftover of a sector (`resid`) and the splits at
region ends occur in all combinations; it is assumed that `inflate()` has input
left exactly as long as it has output left, which the code asserts after the
loop. That each call completes a sector is so because imagezip compresses whole
sectors and a call with input left returns only when the buffer is full or the
stream ends; for other data the assertion at 1745 fails. A chunk may be refused,
for its header before any of it is written or by `inflate()` in the middle
(`ChunkRefused`): like a failed write this ends both threads where they are. A
raw chunk is a number of sectors. `bufs` holds the reference counts, `curmem` the memory in use. The four
steps of the writer are those the other thread can see apart: off the queue,
written, buffer freed, flag cleared. A condition variable is modelled by the
condition it is waited for, since both sides test it under the mutex; so the
build with `CONDVARS_WORK` and the one that polls are the same here.
`opt` is one of the command lines: zero fill, threads, raw, version 1 chunks,
and a slice that starts at sector 1 and is too small for the image.

### EventQueue

The array is a function from 0; slot 0 is unused as in the code. The two heap
loops are recursive functions of the position they have reached, whose values
are functions of the array: one round is one application. `sem_post()` and
`pthread_cond_signal()` are steps of their own after the insertion. The main
thread sleeps (`wait`), is woken, times out, and then still has to get the mutex
(`timedout`), when it finds the head changed (`LookAgain`) or takes it
(`Dequeue`). While it handles an event it inserts events itself. The refinement
to `EventBag` maps the used part of the array to a set and `tail` to its size,
so that an event in two slots, or lost, shows.

### ProgramAgent and EventSched

The scheduler's functions are operators that map a record of the state they
change (`State`) to the new one, called by one another as in the code and folded
over the lists of sequences and groups in list order; an action makes one such
record the new state (`Becomes`). `pending` is the queue without its order in
time, `net` the COMPLETEs that have not reached `enqueue()`, `wire` the events on
their way to each program, in order. `enqueue()` of a new event is two steps,
since it reads `next_token` and increments it around a call while the main
thread uses it as well. COMPLETEs are taken off `net` in any order.

Users send commands at any time. The code does not defend itself against all of
them (below); the run therefore has users who wait (`UserWaits`): what they start
shares no part with what is active, and they do not RESET a sequence that another
one waits for. Programs may still run, and COMPLETEs of earlier runs may be late,
when they do.

## Runs

| Run | Instance | Shows |
|---|---|---|
| `client_cache` | 4 chunks of 2 blocks, the last of 1, two buffers, no delay between requests | descriptors and buffers agree in every interleaving (`EveryChunkAccounted`), a chunk is released exactly when complete and the client leaves with the whole image (`CountsExact`), a buffer is intact while it is written (`WriteIntact`), the code's assertions hold and nothing is used after it is freed (`AssertionsHold`), progress is only lost by the eviction rule (`ProgressKept`) |
| `client_requests` | 3 chunks, two buffers, requests delayed, the server may time out | requests ask for something, and never for what is in a buffer or on disk (`RequestsUseful`); the back off stays capped |
| `client_live` | 2 chunks, one buffer, any request order, keep alive | a client on a silent network asks again and again (`KeepsAsking`); a complete chunk is written (`HandedOverIsWritten`) |
| `client_child` | 1 chunk | **violated**: the receive thread's death may go unnoticed |
| `server_queue` | 2 chunks of 3 blocks, the last of 1, reads of 2 blocks, all subsets of the file and of the block after its end requested, queue of 3, one host | the queue implements a set of owed blocks (`ImplementsService`), no request is lost but for the documented drop (`RequestsKept`), counts exact and one entry per chunk and one more (`QueueExact`), a range is given up at the end of the file only if that was asked for (`PastEOFWasAsked`), no block starves while others are merged into the entries before it, once joins stop (`OwedIsSent`) |
| `server_exit` | 2 hosts, one with an old client, 2 slots, 2 ids, an image of one block | the table and the count are exact until two hosts pick one id (`TableExact`); every join is answered with its id and in its layout once joins stop (`JoinIsAnswered`); the server exits after the last client (`ExitsAfterLast`) |
| `syncd_barriers` | 1 barrier, 2 descriptors, 3 connections, 3 waiters, all kinds of request, one SIGHUP | map, waiters, watched and open descriptors agree; the count is exact but for barriers freed with a master's count in them; waiters are released together with one value |
| `syncd_live` | 1 barrier, 2 descriptors, no aborted requests | a waiter that goes away is noticed |
| `utils_ops` | maps of 3 bytes of 2 bits; images of 1 to 150 bytes in blocks of 3 and chunks of 6 | maps behave as sets under every sequence of operations; sizes add up |
| `unzip_writer` | 25 images of one or two chunks on a disk of 7 sectors of 2 bytes, 7 option sets, memory for two buffers of two sectors | the disk only ever changes to what the image wants and holds it after the flush (`DiskExact`); reference counts and memory exact (`BuffersExact`); the code's assertions hold; the image is written or the process exits (`WritesFinish`) |
| `sched_queue` | 4 events, times 0 to 2, the main thread and the library's | heap property and semaphore exact (`QueueVerified`); refinement of `EventBag`; due events are dequeued (`DueIsFired`) |
| `sched_agents` | a sequence of a nested sequence and a group of two programs, a timeline, two commands of users, failing and unstartable programs | a sequence waits for a COMPLETE that comes from exactly one place (`WaitingIsServed`); `ga_remaining` is the number of answers to come (`GroupExact`); all that is active ends (`Ends`) |

### Bounds

* With two buffers, three chunks are needed for one to find no room, and four
  for one to come back as dubious and lose its buffer to another; a partial last
  chunk is always included. Request delays multiply the states, so the run with
  four chunks is without them and the one with three has them. One buffer
  suffices for the liveness run, where the main thread alone can make room.
* `TIMEOUT_HZ` is 1: the back off reaches its cap. The server timeout is two
  seconds, so that retries come before the client gives up; `KeepsAsking` is
  checked without one, since it would be met by giving up.
* A queue of three entries and two chunks is enough for the second entry of a
  chunk and a join in front; with chunks of three blocks a request can have two
  runs, so extraction leaves an entry behind, requests merge into it while its
  first run is being sent, and the rule for the head (254-263) decides. The
  liveness of the queue (`OwedIsSent`) is checked with these chunks, and its mutant
  drops that rule. `MaxWorkQ` limits arrivals only. Reads of two blocks make a
  range of three end inside a second read.
* `Strays = 1` gives requests for a block that is not in the file, alone and in one
  read with a block of the file. A read that goes past the
  end drops blocks of the file as well: `FrisbeeService` says which (`Refuse`), and
  `OwedIsSent` makes an exception of a chunk of which such a block is asked for.
* Two ids for two hosts let a crashed client come back under an id that nobody
  has, and two hosts pick one. `MaxActive` is above what the table can reach
  without that, and bounds the mutants.
* The liveness of joins and of the exit concerns neither chunks nor merging: one
  block is enough there.
* Two descriptors and three connections make `accept()` fail and descriptors be
  reused; `MAXWAITERS`, above the number of descriptors, leaves room for
  waiters by UDP. Barriers do not interact except through descriptors, and
  SIGHUP, and the proofs cover any number of them.
* Two sectors a buffer and regions of one to five sectors give data that ends
  before, with and after its region, and a buffer shared by two and by three
  writes; with memory for two buffers the decompressor has to wait.
* Four events make a heap of three levels, with a last node that has a sibling
  and one that has not; three times make some events equal, some earlier.
* Two commands beside the automatic start of the first sequence let a RESET or
  CLEAR meet an active sequence, an event be added to it, and a second run
  overlap with the late COMPLETEs of the first. Tokens grow with commands and are
  bounded by `MaxCommands` alone.
* Two bits a byte and three bytes give a first, a middle and a last byte, each
  empty, partial and full.

### Fairness

* `FrisbeeClient`: both threads are scheduled; a thread that waits for the
  mutex gets it in the end although the other takes it again and again (strong
  fairness of `GotBlockFull`); `PacketReceive()` times out now and then when
  the thread comes back to it for ever. Neither packets nor spurious wake-ups
  nor write failures are promised.
* `FrisbeeServer`: the main thread is scheduled, and the receive thread finishes
  a join it has begun. Arrivals, crashes and faults are not fair. `OwedIsSent`
  and `JoinIsAnswered` assume that joins stop, since a join goes to the head of
  the queue (211).
* `ImageUnzip`: both threads are scheduled. Writes may fail.
* `EventQueue`: the main thread is scheduled, a thread that has inserted an event
  finishes the call, and a timed wait for a time that has passed times out even
  if spurious wake-ups repeat (strong fairness of `TimeOut`). Time need not go
  on: `DueIsFired` speaks of what is due.
* `EventSched`: threads and agents run, events arrive, programs end (a program
  that never ends keeps its sequence waiting, which is what a sequence is for).
  Users are not fair. The formula is weak fairness with its ENABLED written out,
  which TLC evaluates faster.
* `Syncd`: the process is scheduled, and a connected client sends its request
  (`emulab-sync` does at once; `readall()` blocks the daemon until then).

### Disagreements met

The first has a run. The next six are stated in the modules; each fails with the
instance given here. The last three follow from reading the model's
actions beside the code.

1. *Lost wake-up* (`client_child`). "The parent thread will see this and exit
   with an error" (client.c:1048). `child_error` is set and the condition
   signalled without the mutex (849-857). Between the main thread's test (1163)
   and its wait (1196) the signal is lost, and no thread is left to repeat it.
2. *The master's count is lost* (`CounterRestored` of `Syncd`, one barrier, `NSock
   = 2`, `MAXWAITERS = 2`, `MaxCount = 2`, `MaxConns = 2`, requests "nowait" and
   "wait", error 0, no SIGHUP). "Map TCP sockets onto the
   barrier they are waiting on so we can detect closes and restore the counter"
   (emulab-syncd.c:172). After `-i N -a`, which does not wait, a lone waiter that
   comes and goes makes `remove_tcpclient()` free the barrier (889-891) with N in
   its count; those who come later wait for a count that starts at zero again.
3. *V1 JOINs are answered* (`V1JoinsIgnored` of `MCFrisbeeServer`, three blocks in
   chunks of two, `Host = V1Host = {h1}`, `Ids = {1}`, `timeout = 0`). "NOTE:
   serving non-image file, will ignore V1 JOINs" (server.c:1192); the V1 JOIN
   "tells the server only to let us join if the image being requested is a
   traditional, 1MB padded image" (client.c:1949). `FileInfo.isimage` is looked at when reading near the end of
   the file only; every JOIN is answered (696-703, 854-858). `JoinIsAnswered` is
   checked for a traditional image, where code and comments agree.
4. *Exit at the first join* (`LastMeansLast` of `MCFrisbeeServer`, one host, one
   block, `timeout <- WhenLastLeaves`, `MAXCLIENTS = 2`, `Ids = {1}`). "If
   less than zero, exit when last client leaves" (server.c:782). `Stats.joins`
   is incremented (697) before `activeclients` (462); between the two the main
   thread sees joins and no client.
5. *Zero without a crossing* (`ZeroWakesEveryone` of `Syncd`, one barrier,
   `NSock = 3`, `MAXWAITERS = 3`, `MaxCount = 2`, `MaxConns = 3`, requests
   "init" and "wait", error 0, no SIGHUP). "If the count goes to zero, wake
   everyone up" (emulab-syncd.c:838). `remove_tcpclient()` (882) changes the
   count and does not test it.
6. *Bytes of the last chunk* (`ChunkBytesIsItsBlocks` of `MCFrisbeeUtils`, the
   constants of `utils_ops`). "Return the number of bytes in the indicated
   chunk" (utils.c:236). A partial last chunk that ends in a full block is a
   block short; a full last chunk that ends in a partial block is reported
   whole. Images are padded to whole chunks, so this concerns plain files
   (`nodecompress`) only.
7. *One token for two events* (`GroupExact` of `MCEventSched` with
   `Command <- CarelessCommand`, `MaxCommands = 1`, `Careful = FALSE`). "The
   unique event token corresponding to this start event" (program-agent.c:260).
   `enqueue()` puts `next_token` into an event (889) and increments it
   afterwards (890), while the main thread numbers the events of a sequence with
   `next_token++` (timeline-agent.c:132). A group RUN by a user and one RUN by
   the sequence then have one token, and each counts the other's answers.
8. *Tokens renewed while in use.* "XXX only do this when not active"
   (timeline-agent.c:122): it is done whenever an event for the sequence is
   queued, a RESET or a second RUN included; a sequence that goes on being active
   then waits for a token that nobody will answer.
9. *A START of a running program* resets the token of the run in progress
   (program-agent.c:1098), so its COMPLETE matches nothing. "The agent will then
   [...] only accept STOP and KILL events until the command terminates"
   (program-agent.8:294).
10. *A group of programs that could not be started succeeds.* The answer is
   ERROR -1 (program-agent.c:1095); a group keeps the largest error, from 0
   (group-agent.c:182). The event "includes an indicator of success or failure"
   (program-agent.8:337).

## Proofs

The theorems hold for every value of the constants that the named assumptions
of the modules allow: any size of image, block and chunk, any number of
buffers, hosts, slots, names, descriptors, events, threads, any bound of the
models. Those assumptions say that sizes and limits are numbers, that sizes are
not 0, that the sets of hosts and of threads are finite and, for the queue,
that events fit into the array (`QueueAssumption`; beyond it the process aborts,
queue.c:101). The bounds that only keep TLC's instances finite are arbitrary numbers.

The inductive invariant of a component is `IInv`; it was an invariant of a TLC run
before it was proved. `SpecIInv` states that the specification keeps it, and the
theorems about the runs' properties follow. The block maps need no more than the
type of `map`; their proof is about loops.

### Induction

The provers have no induction of their own, and the library's induction theorems
take an operator. `SetInduction` of `IntSets` states induction for a *set* of
numbers, which can be instantiated; it follows from the fact
that a set of naturals that is not empty has a least element (`LeastExists`,
from the library's well-foundedness of `<`). It gives what the loops of `queue.c`
and `utils.c` and the sums of `Syncd` compute for every input.

A recursive function is only *some* function that satisfies its equation, if there
is one. `Recursion` states that there is one for every first value and step, and
what its values are. `SetSumsExist` does the same for the library's sums over finite
sets, which take an arbitrary member at each step; `SumWithout` shows that the sum
does not depend on which, and `SumInterval` what it is over 0 .. n - 1.

### Syncd

    IInv == TypeOK /\ MapMatchesWaiters /\ WaitersWatched
            /\ NoDescriptorLeak /\ LoopInvariant /\ ErrorCovers

is inductive, its conjuncts alone are not:

* `MapMatchesWaiters` is disturbed by accepting a connection whose number is
  still somebody's waiter: that needs `NoDescriptorLeak` (an open descriptor is
  mapped or is being read) and that waiters are open.
* `NoDescriptorLeak` is disturbed by a second connection being read: that needs
  `LoopInvariant` (`newsock` is 0 outside "read").
* `WaitersWatched` is disturbed by `maxtcpsocket()`, which looks only up to
  `maxfd`: that needs `LoopInvariant` (`sfds` is below `maxfd`).
* `ScanGone` calls `remove_tcpclient()` on a descriptor that must be a waiter:
  that follows from `NoDescriptorLeak` and `LoopInvariant`.
* a crossing releases the barrier's waiters; that the others keep their
  connections needs the uniqueness in `MapMatchesWaiters`.

From it follow `TypesKept`, `MapKept`, `WatchKept`, `NoLeak`, `LoopKept`,
`ErrorKept`, `RemovesOnlyWaitersKept` and `TogetherKept` (the waiters of a
barrier are answered together, with one value no smaller than any waiter's
error). `CountKept` states that the count of a barrier that is not `forgotten`
is what was promised since it was last crossed or cleared and what its waiters
added; a name without a barrier counts as zero, so that a promise lost with its
barrier would show, and does in `CounterRestored`, where the exception is left out
(disagreement 2). It
rests on lemmas about `SumCounts`: what it is for an empty list, for a
list with one more waiter and for one with a waiter taken out of the middle
(`SumEmpty`, `SumAppend`, `SumPacked`), each by induction over the partial sums.

### FrisbeeSizes

`ChunksPartitionBlocks` and `BlocksPartitionBytes`: the sizes of the chunks are
between 1 and the maximum and every block belongs to one chunk; the same for
blocks and bytes. They are what the proofs about the server and the client know
of `ChunkSize()` and `BlockSize()`. `SizesAddUp` states the same as sums: the
partial sum over the chunks before c is the first block of c, that over the blocks
of a chunk its number of bytes, and the last chunk and block end where the image
does. `SizesKept` of `FrisbeeUtilsProofs` applies it to the run's specification.

### BlockMap

`MapsAreSets` is the refinement of `BlockSet`, operation by operation, for any
`NBytes` and `CHAR_BIT`.

* `Pos(j, b)` is the block of bit b of byte j; `PosBlock` and `BlockPos` show that the
  code's `/` and `%` invert it, `PosOrder` that blocks are ordered by byte and bit.
  Two maps denote the same set if they have the same bits (`SameBits`).
* `LoopRule`: a loop invariant is a family of sets I[n], and n turns lead from I[0]
  to I[n]. Each invariant has a part that says what the turns so far have done
  and one that says how many may be left: `count` for the loops with a count,
  `Turn(i, bit)`, the number of bits and ends of bytes passed, for the others.
* `SetAfter` (add, clear): the blocks from the first to the cursor are set or
  cleared, the others as they were. A whole byte passes CHAR_BIT blocks at once, and
  only if the cursor is at bit 0.
* `CountAfter` (isalloc): the members up to the cursor have been counted. An empty or
  a full byte is counted whole: the members that a byte stands for are as many as
  its bits (`ByteCount`, by a bijection). The next byte is read only if something
  is left, which is why the cursor never leaves the map.
* `ExtractAfter`: before the first member is found there is none up to the
  cursor; then all from the first to the cursor are members, and the map has lost
  exactly those. The loop stops at the first gap or at the end of the map, and then
  they are the first run.
* `ApplyAfter`: the calls made are the runs before the cursor, in order, each with as
  many runs before it as calls (`CallsAre`); a run that is open belongs to the next
  call (`CallsMore`). The last run is called after the loop, and not if the callback
  has stopped.
* `RunsApart`, `RunAt`: two runs of a set are apart, so that the run with k - 1 before
  it is unique, and the sequence of runs is well defined.

### FrisbeeServer

    IInv     == QueueInv /\ TableInv
    QueueInv == QueueTypes, SenderTypes, EntriesExact, OneAhead, RangeInChunk
    TableInv == RecvTypes, Handling, SlotsDistinct, JoinerDistinct,
                CountCovers, PlayersListed

* `EntriesExact`: `nblocks` of an entry is the size of its map, which is not
  empty and among the blocks that can be asked for. Extraction at the head keeps it because the run of
  blocks that is taken is an interval (`FirstRunIsInterval`).
* `OneAhead`: a request does not merge with the entry of the chunk last taken up
  (`WorkChunk`), so a chunk may have two entries; the first of them then has only
  joins in front of it. Hence at most one chunk has two, and `QueueExact` follows
  by counting (`QueueKept`).
* `RangeInChunk`: what is being sent lies among those blocks too. If all of it is in
  the file, so is every read, of whatever `readsize`: this is `EOFKept`.
* `CountCovers`: `activeclients` is at least the number of used slots, and is that
  number if there is a slot for every host and no id has been reused; with
  `SlotsDistinct` and `PlayersListed` (a playing client is in the table under its
  current id) this is `TableKept`. `JoinerDistinct` carries what `RecvJoin` saw of
  the table, that the id is in no other host's slot, to `ClientJoin`, two steps
  later.

`ServiceImplemented` is the refinement of `FrisbeeService`, step by step: a
request adds its blocks to those owed, or is the documented drop; a dequeue moves
blocks and loses none; sending one takes exactly that one; a read past the end
gives up the rest of its range, in which there is a block that is not in the
file. `RequestsAreKept` is
the action property that a request is never lost silently.

### FrisbeeClient

`IInv` has, beside the types, what the two threads know at their program
counters:

* `SearchFrame`: the chunk `GotBlock()` was called for is not done, the buffers its
  unlocked search has passed do not fill it, the one it remembers as free is still
  EMPTY and the one it remembers as dubious still DUBIOUS. The main thread cannot
  disturb this: all it does to buffers is to empty FULL ones. So the buffer taken
  at the end of the search is not the second of its chunk: `EveryChunkAccounted`.
* `FullFrame`: the buffer that `GotBlockFull` is about to make FULL is still the
  one being filled with the chunk.
* `WritesFull`: the buffer the main thread found FULL stays FULL until it has
  written it, although it does not hold the mutex; with `BlockCountExact` and
  `BlocksOfChunk` (its blocks hold its chunk's data) this is `WriteIntact`.
* `TicksAhead` (a counter passes its limit only while that is being acted on),
  `ScanCounts` (the scan of `RequestChunk()` counts what it has looked at),
  `Started` and `NoUseAfterFree` give the code's assertions; `ChunkCountExact`
  relates the descriptors to what is on the disk.

The theorems: `TypesKept`, `ChunksAccounted`, `CountsKept`, `WritesIntact`,
`AssertionsKept`, `RequestsAreUseful`, and the action property `ProgressIsKept`.

### EventQueue

    IInv == QueueTypes, ThreadTypes, Entries, EntriesDistinct,
            HeapVerified, Counted, Awaited

The heap loops are recursive functions, of which TLA+ only says that they are
*some* function that satisfies the equation, if there is one. `UpExists` and
`DownExists` show that there is one; `MoveUpIs` and `MoveDownIs` that a round is
what the equation says; `UpCorrect` and `DownCorrect`, by induction over the
position, that from an array that is a heap but at that position they reach a
heap with the same entries. `InsertDoes` and `DequeueDoes` put this together with
the writes before the loops: an insertion adds the event to the entries, a
dequeue takes one whose time is least (`HeadEarliest`) and no other.
`Entries` and `EntriesDistinct` say that an entry is an event that was queued, and
there once, so that the array maps to a set of its size. `Counted` relates the
semaphore to the threads that have inserted and not posted and to the main thread
that has waited and not taken. `Awaited`: an entry with the notification of the
event the main thread sleeps for *is* that event, and after a timeout it is due;
this is why comparing notifications after the sleep is enough to take the head.

The theorems: `QueueIsVerified` (heap property and semaphore) and
`BagImplemented`, the refinement of `EventBag` that says the earliest event is
taken, not before its time.

### ImageUnzip

    IInv == FixedTypes, BufferTypes, WriteTypes, DiskTypes, CallerTypes,
            RegionFrame, Accounted, InHand, InWriter, BuffersExact

The assumptions about images are those of `IsImage`; these theorems use only that
each of its chunks satisfies `IsChunk`.

* `RegionFrame`: the decompressor is `size` bytes before the end of its region, on
  a sector, and at that end exactly in a gap or after the last region.
* `Accounted`: the data from `offset` on is what is in the buffer, what was left over
  of a sector and what has not been decompressed. A step inside a region takes as
  much from either side (`LeftStep`), a gap takes nothing (`LeftGap`). It is why the
  regions, the input and the leftover end together: were the input used up inside
  a region, less than a sector would be left of whole sectors.
* `InHand`, `InWriter`: which writes each thread holds at which place, with their
  sizes. `BuffersExact` alone is not inductive: a write may only be dropped
  or overwritten where it is none.
* Every request to write is disposed of: freed, or queued with its reference
  (`Disposed`, `DoWriteDoes`). What a thread then holds decides the count
  (`Settled`); the memory is the number of elements of the set of bytes in use, so that
  an allocation adds a column to it and the last free takes one away
  (`BytesAlloc`, `BytesFree`).

The theorems: `BuffersKept` and `AssertionsKept`. The lemmas `StreamIs` and `RankGrows`
(the decompressed data is the bytes of the regions in increasing order, each once)
show that the definition of `Stream` by CHOOSE says what it should.

### ImageUnzip: the disk

    DInv == IInv, DiskGood, WritesGood, HandGood, Control, AllCovered, Bounded

`DiskExact` says nothing while data is on its way, so it is not inductive.

* `WritesGood`: every write that is queued or being carried out puts at its place
  what the image wants there. It holds of a request because of `HandGood`: the
  buffer in hand holds the data from `d.offset` on, and the leftover of a sector is
  the data just before the input that is next. Which data that is follows from
  `Accounted`; that it is the addresses from `d.offset` on, inside a region, is
  `StreamAt`. `AdjustDoes` shows that the move to the slice and the cut at its end
  keep exactly the bytes inside.
* `AllCovered`: a byte the image wants is on the disk, in a write that is queued or
  being carried out (`Handled`), or still to come (`ToCome`): in a chunk that
  is not begun, after `d.offset` in the present one, or after the image, where
  `zero_remainder()` fills. A step keeps it if it serves the bytes it passes
  (`Served`, `Covers`, `MovesOn`); the gaps it passes without writing, because
  dofill is off, are not wanted. That two chunks have no byte in common
  (`ChunksApart`) is why the gap of one is never the data of another.
* `Control`: a write that is being carried out has `writeinprogress` set, which is
  why the unlocked test of `threadwait()` is enough.
* `Bounded`: nothing is written after the last byte of the image before
  `zero_remainder()`. With `AllCovered` it makes `maxwrittenoffset` exactly the
  end of the image when the remainder is zeroed; without it there could be bytes
  between the two that nobody zeroes.

The theorem: `DiskKept`.

### Checked by TLC only

All liveness properties (fairness and ENABLED are out of the prover's reach),
`OwedIsSent` and `JoinIsAnswered` of the server among them, and
what the scheduler run checks, `WaitingIsServed` and `GroupExact`. These two
are not true of every experiment: a script can do to a running program or sequence
what users do in the disagreements 7 to 9, so that a theorem would need assumptions
about which agents the scripts and the users' commands have in common, through all
nested sequences, in every state. TLC checks them for the experiment of
`MCEventSched`.

## Not modelled

* Frisbee: the pacing and statistics of the server, option parsing, logging, the
  trace events; the master server and the upload path. The exit handler `myexit()`
  of the client (1053-1060), which sets `child_error` to -2, is registered in
  builds other than Linux's only. A client id of 0, which the server takes for
  a free slot.
* The image writer: decryption itself (a chunk that is refused is modelled),
  relocations, the CRC mode, output that cannot seek, the slice set-up. Raw chunks
  that end inside a sector: `write_subblock()` takes any size, and with zeroing
  the request of `zero_remainder()` (1950) then fails the assertion at 499.
* `Syncd`: what happens after a waiter has been written past `waiters[]`; a write that fails because the client is gone (the connection is
  closed all the same), the port a UDP answer goes to, SIGINFO and the verbosity
  signals.
* The scheduler: firing times in `EventSched` (any queued event may be next; the
  order is `EventQueue`'s subject), the simulator, node, console and topography
  agents with the threads of `local-agent.c`, events that arrive with a token,
  reports and the RPC to the database. A sequence without events never sends its
  COMPLETE and a group that is RUN while active sends none for the second RUN;
  users who wait do neither.
* The program agent: log files, RELOAD, and the TIME start event, which kills
  all programs.
* Most of the repository is Perl, PHP and SQL around a database, simulated
  annealing, kernel patches, generated wrappers and vendored code. `PROJECT.json`
  lists the parts with the reason each is left out.

## Plan

Done, in this order: sizes, client, server, block maps, barrier server, the
proofs of the barrier server; image writer, event queue, scheduler and program
agent; the proofs of the sizes, the server, the client, the event queue and the
image writer (buffers, assertions and the disk), of the count of the barrier
server, of the sums of the sizes and of the block maps.

1. *Proofs for EventSched*: `WaitingIsServed` and `GroupExact`, from assumptions
   that say which experiments are free of overlaps.
2. *Frisbee end to end*: clients and `FrisbeeService` over lossy multicast.
   Requests of one client suppress those of another, which only this
   composition shows.
3. *Barriers, abstractly*: what a barrier promises, and `Syncd` shown to
   implement it.
4. *The threads of local-agent.c*: a looper that times out clears `LAF_LOOPING`
   (175) without looking at its queue again.
5. *The frisbee master server* (children, timeouts, proxies) and *the node state
   daemon* (its timeout queue and transitions over a small table).
