# TLA+ models of csf_group

`src/` holds five C and C++ programs: a 256-bit integer library, a hexdump, a
cache simulator, a parallel merge sort and a chat system. This directory holds
their TLA+ models, the TLC runs that check them on small instances, and the
theorems about them that TLAPS proves for every instance. `PROJECT.json` is the
index: which definition models which lines, what each run checks, which hazard
each property is for.

    tlc -workers 2 -config MessageQueue_pass.cfg MessageQueue
    tlapm MessageQueueProofs.tla

## 1. The system

### Chat system (`csf_assign05`)

A server with one detached thread (a *worker*) per connection, and two client
programs. A sender logs in (`slogin`), then joins, leaves and sends to one room
at a time, waiting for a reply to each line. A receiver logs in (`rlogin`),
joins one room and prints what is delivered.

| part | state | operations |
|---|---|---|
| `MessageQueue` | deque, mutex, counting semaphore | `enqueue`, `dequeue` (waits at most one second, says its header) |
| `Room` | set of `User*`, mutex | `add_member`, `remove_member`, `broadcast_message` |
| `Server` | `m_rooms`, a map of names to rooms; `m_lock`, which nothing takes | `find_or_create_room` |
| worker | the room of its sender, or the `User` of its receiver | `worker`, `chat_with_sender`, `chat_with_receiver` |
| main thread | the listening socket | `listen`, `handle_client_requests`: accept, one thread per client |
| `Connection` | descriptor, read buffer, last result | `send`, `receive`: one message per line, at most `MAX_LEN` characters |
| robust I/O (`csapp.c`) | a read buffer (`rio_t`) | `rio_writen`, `rio_readlineb`: whole messages and lines over partial writes and reads |
| `sender`, `receiver` | where they are in the protocol | request and reply; read and print |

The workers share the rooms; a broadcast runs in the worker of a sender and puts
a message into the queue of each member, from which the worker of that receiver
takes it. Workers and clients share only their TCP connection.

*Hard here:* every interleaving of workers on the map, the rooms and the
queues; the window between an insertion and its `sem_post`; a deadline that is
computed once; connections that end or are reset at any moment, with a worker
that reads an end of file as a malformed message; lines at the length limit; a
protocol in which a reply is matched to its request by position alone; system
calls that transfer a part or are interrupted; descriptors that are never closed
until `accept` fails and the server exits, and a thread that cannot be created,
after which nobody is accepted any more and the rooms are gone while workers go
on using them.

*Correct means:* the queue is a FIFO that loses nothing; a member of a room gets
the log of the room since it joined, in order; a room name has one room; each
request has one reply; the client and the worker agree on the room; what was
acknowledged is printed; workers of lost clients end; clients of a server that
is gone notice; every character written is read once, in the same lines however
it travels.

### Parallel sort (`csf_assign04`)

`parsort file threshold` maps a file `MAP_SHARED` and sorts it. Each call of
`parallel_merge_sort` above the threshold forks a child for its left half,
sorts the right half itself, waits for the child, merges into a private buffer
and copies back. *Hard:* the processes of a whole tree write one file with no
lock; forks fail, processes are killed, and the children of a dead parent go
on. *Correct:* concurrent processes touch disjoint ranges; exit status 0 means
sorted and complete; a failure never loses an element outside of a copy that
was cut short; every process ends.

### Cache simulator (`csf_assign03`)

`csim` reads a trace of loads and stores, keeps sets of slots with two time
stamps and a dirty bit each, and counts hits, misses and cycles. *Hard:* the
victim is found by arithmetic on stamps that are updated differently on a hit,
a load into a free slot and an eviction. *Correct:* the stamps of a set always
rank its slots, so that it evicts as an LRU or FIFO list would; what was stored
is charged to memory when it is evicted, but where a load hit intervened (the
code assigns the dirty bit on every hit). That is meant for addresses whose tag
fits the `uint32_t` of a slot (section 3 says what happens to others).

### uint256 (`csf_assign01`)

Pure functions on four 64-bit words: bitwise `add`, `sub` by complement, `mul`
by shifts and sums, conversion from and to hex. *Hard:* boundaries between
words, wrap-around, the length of a hex string. *Correct:* arithmetic modulo
2^256; reading and writing hex are inverse.

### hexdump (`csf_assign02`)

A filter from standard input to standard output, in C and in assembly: rows of
an offset, sixteen bytes in hex and as text. State: the buffer the reads fill,
the offset and its digits. *Hard:* the buffer is not cleared between reads, the
two programs fill the text column differently, `read` returns parts or fails,
and the two count offsets in registers of different width. *Correct:* every row
shows the next bytes in both columns, and nothing left over from earlier reads;
offsets are positions; a read that fails ends the program, which is what a
comment of the assembly says and not what it does.

### Outside the models

The set-up of sockets, the trimming helpers of the clients, the unused
`guard.h`, the CS:APP wrappers other than robust I/O, tests and their framework, scripts, traces and binaries. `PROJECT.json` gives the reason
for each under `components`.

## 2. Modules

| module | models | built on |
|---|---|---|
| `FifoQueue` | what `MessageQueue` promises: an abstract FIFO | |
| `MessageQueue` | `message_queue.cpp`, cut at each mutex and semaphore call | refines `FifoQueue` |
| `MessageQueueProofs` | its theorems | `MessageQueue` |
| `RoomLog` | what a room promises: one log per room, delivered in contiguous runs | |
| `ChatRooms` | the map, the rooms, and the workers' loops | refines `RoomLog`; a user's queue is the FIFO that `MessageQueue` implements |
| `ChatRoomsProofs` | its theorems: types and locks; what is logged and delivered | `ChatRooms` |
| `Connection` | framing: `send`, `receive`, `checkStyle`, what `rio_readlineb` returns | |
| `LineStream` | what `receive` relies on: text in any pieces, out as lines | `Connection` |
| `Rio`, `MCRio` | `rio_writen`, `rio_read`, `rio_readlineb` over partial and interrupted calls | refines `LineStream` |
| `RioProofs` | its theorems | `Rio` |
| `ChatSession` | a sender and a receiver end to end: accept loop, clients, TCP, workers | `Connection`; rooms as `RoomLog` describes them |
| `ChatSessionProofs` | its theorems | `ChatSession` |
| `ParallelSort` | `parsort.c` | |
| `ParallelSortProofs` | its theorems: who works where; what is in the file | `ParallelSort` |
| `Replacement` | what a cache set promises: a list of blocks, evicted at the end | |
| `CacheSim`, `MCCacheSim` | `csim` | refines `Replacement` |
| `CacheSimProofs` | its theorems | `CacheSim` |
| `UInt256` | `uint256.c` | |
| `UInt256Proofs` | its theorems | `UInt256` |
| `HexDump`, `MCHexDump` | both forms of hexdump; an input for the run | |
| `HexDumpProofs` | its theorems | `HexDump` |

The chat system is layered. `MessageQueue` shows that the locked, semaphored
deque is a FIFO; `ChatRooms` uses a FIFO per user and shows that rooms are logs;
`ChatSession` uses a room as a log and follows a line from the keyboard to the
screen; the lines it reads are those of `Connection`, into which `Rio` shows
that the buffered, interruptible reads cut the stream. Each layer takes from the
one below what a refinement, checked and proved there, shows.

### How the models correspond to the code

**MessageQueue.** `m_messages` is the deque with its front first; `enqueue`
inserts at the front, `dequeue` takes from the back. `m_lock` is the holder of
the mutex, `m_avail` the semaphore, `pc[t]` the next operation of thread `t`.
The four steps of `enqueue` and the seven of `dequeue` are the operations
between which another thread can run. `DequeueTimeout` is `sem_timedwait`
failing; once a call's second is up, `DequeueRetry` is the loop going round with
its old deadline. `made`, `msg` and `received` are what callers pass and get;
`MaxMessages` bounds the former. A message is who enqueued it and its number.

**ChatRooms.** `pc[t]` is where worker `t` is. `find_or_create_room` takes no
lock: an insertion is two steps (walk the tree, link the node), and an insertion
that another overlaps may keep its own node or lose it (`view` is the map as the
walk found it). A walk while another worker links is undefined behaviour; its
outcomes here are a wrong miss and the end of the program (`MapCorruption`,
after which `up` is false). `lock[rm]`, `members[rm]` are a `Room`; `visited[s]`
is how far a broadcast's loop has come; `mqueue[r]` is the queue of a user.
`log`, `start`, `delivered` are history. `remove_member` is never reached:
`chat_with_receiver` has no return but `pthread_exit`.

**ChatSession.** `up[e]` and `down[e]` are the two directions of the connection
of client `e`, a sequence of lines of given length; `net[e]` is its state. A
write to a closed connection succeeds and provokes a reset (`probed`), after
which reads and writes fail (the server ignores `SIGPIPE`). A worker that ends
does not close its connection. `client[e]`, `worker[e]` are the positions in the
two programs; `rm` is the room in the worker, `told` the one the user was told.
A message is its tag, length and body; the body is the number of the typed line
or the room name. `rio_readlineb` returns at most `MAX_LEN - 1` characters; the
rest of a longer line is read as a message of its own.

The main thread is `main`: it accepts a client (`Accept`), or cannot create its
thread, closes its connection and ends (`ThreadFails`), or finds no descriptor
(`AcceptFails`, with or without a client waiting, as the kernel reserves the
descriptor first) and exits with every worker. `limit` is how many
descriptors there are; `InUse` counts those the workers, ended or not, hold. A
client that waits for a message of a server that closed reads the end of the
stream or a reset and exits (`ClientFails`).

`pthread_exit` (`server.cpp:339`) unwinds the stack of `main`, so `ThreadFails`
runs `~Server` as well: the map, its mutex and every `Room` are deleted
(`RoomsExist` is false), while the workers go on with their pointers. What they
do with them is undefined, so each use (`UsesRooms`) has all outcomes: as
before; without effect, a broadcast that reaches nobody or a receiver nobody
finds (the second disjuncts of `Broadcast` and `AddMember`); a worker that stops
for ever at a mutex or in a tree that is none any more; or a crash of the whole
program (`UseDestroyed`). The `User` of a receiver and its queue are the
worker's own and are not deleted, so what is queued is still delivered. The
process ends with its last worker (`LastThreadEnds`). Clients the kernel
connects after the main thread has left, and those of a stopped worker, are
`Abandoned`.

A worker whose first message is malformed answers err before it returns, as does
a receiver's whose second is; so does, with ok, one that reads `quit`
(`LastReply`). `ChatRooms` and its refinement suppose that the `Server` exists:
they say what rooms do up to the step `ThreadFails`.

**Rio.** A character is its position in the stream, and the messages are the
positions of their newlines. `text` and `ends` are history: what `rio_readlineb`
returned, and how long that was after each line. `written` is what `write` has accepted, `fetched` what `read` has returned;
`rio_buf`, `rio_bufptr`, `rio_cnt` are `rio_t`, `usrbuf` the line being read.
`Refill`, `Interrupted`, `ReadFails` and `EndOfFile` are the outcomes of one
`read(2)`; `TakeChar` is an iteration of `rio_readlineb`. `Pieces` maps the text
not yet returned to messages of `Connection`, so that its operators `Readable`,
`Received` and `Remaining`, which `ChatSession` uses, are what is refined.

**ParallelSort.** A call is named by its range, a process by the first call it
runs. `arr` is the shared file; `temp[c]`, `left[c]`, `right[c]`, `i[c]` the
locals of `merge` and of the copy loop. Each turn of those loops is a step, as
is each `fork`, `waitpid` and exit. The sequential sort of a small range is one
step: nothing reads its intermediate states, because ranges are disjoint, which
`DisjointWork` checks with the whole range counted as in use. `ForkFails` and
`Killed` may strike anywhere, `MaxFaults` times.

**CacheSim.** `slots[x]` are the used slots of set `x`, `params` the arguments,
`line` the line of the trace read last. A step is one turn of the main loop:
`Hit`, `MissAround` (a store that misses without write-allocate), `MissFill`,
`MissEvict`. `unsaved` is history: blocks with a store that memory lacks. The
tag of an address is a `long`; a slot keeps it modulo `TagLimit` (`Narrowed`;
2^32 in the code), and `Lookup` compares the whole tag with what was kept.
`TagsFit` says that no tag of the trace is cut. The counts of hits, misses and
cycles are numbers without a width: their `int` is taken not to overflow.

**UInt256.** A value is its four words, a word has `DigitsPerWord` digits of
`DigitBits` bits. What a loop of the code accumulates is a recursive function of
the number of its turns: `Carries`, `PartialSums` (the bits of a word),
`Products` and, for `strtoul`, `Numbers`. `Init` creates the value by each of the three functions, and
`Next` calls an arithmetic function with any operand. `segment` in
`uint256_create_from_hex` has no room for a terminator, so `strtoul` may read
one digit more: the model lets any digit, or none, follow. (More digits than
one would give the same kinds of outcome: a shifted or a saturated word.)

**HexDump.** `main` says which of the two programs runs; the input is `length`
bytes, `Byte(p)` at position `p`, both constants. `data` is the buffer of
the reads, with the blanks or terminators each program puts in it first; `place`
the digits of the offset, made byte by byte as `hex_format_offset` makes them,
in `placeCount`'s register (4 bytes in C, 8 in assembly); a byte is the register
shifted left by whole bytes, its top byte taken (`TopByte`). `row` is the last
row: the columns are functions of the position in the line (`HexColumn`,
`dataPrint`), the text ends at the first NUL, and both are read back as a reader
would (`HexShown`, `TextShown`). After a failed read the C program prints a row of
blanks and goes on; the assembly takes -1 for a large number, writes the offset
and the sixteen bytes that `data` holds as pairs, then those of its stack until
it runs off it (`Overrun`). The row ends with `data`: what the stack holds, and
how far it reaches, is left out. `RowsShowInput` is about finished rows, so not
about this one, in which the program crashes.

## 3. Runs

| run | asks | instance | states, time |
|---|---|---|---|
| `queue_pass` | is the queue a FIFO, with exact counts, and does nobody wait for ever? | 2 producers of 2 messages, 2 consumers | 15K, 8 s; deadlock checked |
| `queue_timeout` | does `dequeue` end when its second is up? | the same | violated |
| `rooms_pass` | does each room deliver its log, do broadcasts end and queues drain? | 2 senders of 2 requests, 2 receivers, 2 rooms for 1 name | 190K, 86 s |
| `rooms_unique` | does a name have one room? | 1 sender, 2 receivers | violated |
| `session_pass` | do replies, rooms and printed lines agree, do workers end, is the end of the server noticed? | 3 lines of length 1, the longest deliverable and too long, 2 rooms, 1 or 3 descriptors | 185K, 100 s |
| `session_framing` | is a line of the documented maximum one message? | a line of 255 characters | violated |
| `session_long` | is an acknowledged line delivered? | a line of 254 characters and names of 16 | violated |
| `sort_pass` | is the fork tree right whatever fails? | every 0/1 file of 6 elements, threshold 2, one fault | 99K, 27 s |
| `cache_pass` | do the stamps implement LRU and FIFO? | direct-mapped, 2-way and fully associative, all modes, all traces of 5 accesses to 5 addresses, whose tags fit | 276K, 40 s |
| `rio_pass` | are lines what was written, whatever the calls transfer? | 1 to 3 messages of 1 to 8 characters, lines of 3, buffer of 3 | 9.3K, 20 s |
| `hexdump_pass` | does every row show the input? | both programs; files of 0, 1, 16, 47 and 65,600 bytes, pipes of 20 and 37 with reads of 1, 7, 15 and 16; one failed read | 98K, 15 s |
| `uint256_pass` | is it arithmetic modulo 2^256, and hex its inverse? | all pairs of values of four 2-bit words, all strings of up to 9 digits | 256 values, 2 min |

(Distinct states, and seconds with two workers.) Every property of a passing run has a mutant in `PROJECT.json`: a plausible bug
in a mapped definition with which TLC finds the property violated. Deadlock is
not checked where the programs may stop: chat users who type nothing more, a
sort that has ended, a trace that is over, a reader or a dump at its end.

**Why the bounds are enough.** Two producers and two consumers are the least
with which both kinds of thread compete with their own kind, and two messages
each the least with an order to get wrong. Two rooms for one name are what the
race on the map needs; two requests are a join
and a message, and the two senders together make the two messages whose order
could differ. Three typed
lines allow join, send, leave and every other order of three; the lengths sit
on both sides of each limit. Six elements with threshold 2 make a tree of two
levels with odd halves; one fault at any place covers each process alone (two
faults in different subtrees act on disjoint ranges). Zeros and ones suffice
for a sort that only compares. Five accesses fill a four-way set and evict from
it, or fill a two-way set, reorder it and evict twice. Two-bit words have a
carry into, through and out of every word; nine digits are one more than a
value holds. One descriptor lets the server exit in any state of the client it
serves while the other waits to be accepted, three never run out. Lines of three
characters and a buffer of three put messages below, at and above both sizes,
and both sizes out of phase. The tags of the five addresses are below 8, the
`TagLimit` of `cache_pass`, so that they fit as 32-bit tags do; with a `TagLimit`
of 2 the types and the ranks still hold, and `ImplementsPolicy` fails.
Offsets of two bytes (`OffsetBytes`) wrap with a
file of 65,600 bytes, one spare byte (`SpareBytes`) stands for the upper half of
the assembly's register; pipes hand over single bytes, half rows, rows but one
(`PipeReads`) and whole rows, and `MaxFailures = 1` read fails at any place.

### What the violations show

- **`queue_timeout`** (`message_queue.cpp:51`): the deadline is computed before
  the loop, so once it has passed `sem_timedwait` fails at once, again and
  again. An idle receiver's worker spins and never returns `nullptr`, where
  `message_queue.h:17` says that the call blocks for a finite time.
- **`rooms_unique`** (`server.cpp:352`): `m_lock` is never taken. Two overlapping
  calls for a new name both create a room, and each returns its own; the map
  keeps one, and whoever holds the other hears nothing that later senders say.
- **`session_framing`** (`connection.cpp:80`): `rio_readlineb` is given `MAX_LEN`
  and returns one character less, so a line of exactly `MAX_LEN`, which
  `message.h` allows, becomes two messages with two replies. From then on the
  sender takes each reply for the answer to the line before.
- **`session_long`** (`server.cpp:274`): the names put in front of a legal line
  can make it longer than `MAX_LEN`. The sender is told ok; the workers of all
  receivers in the room fail in `send` and end.

Four more disagreements are in the models, which have them as the code does, but
have no run of their own; the properties say where they stop.

- `server.cpp:339`: when a thread cannot be created, `pthread_exit` on the main
  thread unwinds it through the local `Server` of `server_main.cpp:22`. Its
  destructor deletes the rooms; workers join, enter and broadcast to them
  afterwards, where `server.cpp:350-351` promises a pointer to *the* `Room` of that
  name. `HearsTheRoom` ends with the rooms; the liveness properties hold beyond,
  but for the workers that stop there.
- `asm_hexmain.S:46`: the comment says that the loop breaks if the count is
  `<= 0`, but `jbe` compares without sign, so -1 goes on: a row of what the buffer
  still holds is written, and bytes of the stack behind it.
- `main.cpp:158`: a tag that needs more than 32 bits is cut when it is stored and
  compared whole: the block just loaded is not found, and addresses whose tag is
  the cut one hit in its place.
- `main.cpp:228` clears the dirty bit on a load hit. `OnlyLoadHitsLoseStores`
  states that this is the one way a store is lost.

## 4. Fairness

- *MessageQueue*: weak fairness of each thread's calls. The kernel runs every
  runnable thread, and the number of messages is finite, so that a waiter for
  the mutex is not overtaken for ever. `DequeueReturns` is refuted under this
  fairness.
- *ChatRooms*: weak fairness of each worker's internal steps. Not of requests:
  clients are free to send nothing more.
- *ChatSession*: weak fairness of the accept loop and of the end of a process
  whose threads have ended (`handle_client_requests`, `LastThreadEnds`), of each
  client program and worker, and of the arrival of a reset or an end of stream.
  Not of typing, nor of being killed, nor of what a use of deleted rooms does
  (`UseDestroyed`): that a worker stops there or the server crashes may or may
  not happen. What fairness cannot promise is said in the properties: a client
  that connects after the main thread has left hears nothing, nor does one whose
  worker has stopped (`Abandoned`).
- *Rio*: weak fairness of refilling, reaching the end and taking characters.
  Interrupts may strike any number of times, but not every time: a `read` that
  can return something is not interrupted for ever. The writer may stop anywhere.
- *ParallelSort*: weak fairness of some process being run; every behaviour of a
  sort is finite, so no more is needed.
- *CacheSim*, *UInt256*, *HexDump*: none; no liveness is claimed.

## 5. Theorems

All hold for every value of the constants that the assumptions of the modules
allow. Those about the queue and the rooms are about `Safety` (no fairness), the
others about `Spec`, of whose fairness they make no use. The assumptions are
those named at the constants: the kinds of thread are disjoint, the null values
are no values, bounds are numbers, and the sets of threads of the queue are
finite.

**The queue** (`MessageQueueProofs`). `TypeCorrect` comes first. `LockExcludes`
needs the invariant that a thread inside a critical section is the holder of the
mutex. `SemaphoreCorrect` is not inductive alone: a `dequeue` moves the counted
message from the deque to itself, so the invariant `CountInv` adds the lock and
what the consumer that has just taken a message holds; its steps move one
element between the deque, the semaphore, the set of posting producers and the
set of granted consumers, and the proof is about those cardinalities.
`DequeueFindsMessage` follows from the count: a granted consumer is itself
counted, so the deque is not empty. `QueueImplementsFifo` maps the abstract
`sent` to what was taken followed by the deque reversed; a step of `DequeueTake`
leaves that sequence as it is, and `EnqueueInsert` appends to it.
`AcceptedInv` says that the sequence holds exactly the messages made, which is
why an inserted message is new and its predecessor is there.

**The rooms** (`ChatRoomsProofs`). `IInv` is the type
invariant, what each label says of a worker's local variables (`LocalInv`), and
`LockHeldInside`; it is inductive, and two workers in the sections of one room
are therefore the same (`OneInSection`). `RoomMembersStable` follows from it.
`LogInv` adds that a member's worker is past `add_member` and that what it was
sent, is sending and has queued is the log of its room from where it joined,
but for a message a running broadcast has not brought it yet (`PendingIsLog`);
each step moves one message along that chain. `RoomsImplementLog` reads the next
message to deliver off that equality. Nothing is assumed of the map: the
theorems hold with its race and its corruption, since they are about `Room`
objects and not about names.

**Sessions** (`ChatSessionProofs`). `SessionTypeCorrect` needs nothing more than
`TypeInv`. `StaysInStep` and `ToldIsSent` rest on `Conversation`: at each place of
the sender's program it says what is in the two directions of its connection and
where the worker is, so that at most one request or one reply is ever in flight;
`rm` and `told` agree but while a reply that changes the room travels. They
assume `LinesFit`: every line the user types fits one read, or is refused by the
client. That is not a convenience: `session_framing` refutes both for a line of
exactly `MAX_LEN` characters. The lengths of `session_pass` satisfy it.
`ReceiverHearsItsRoom` assumes `DeliveriesFit` as well (refuted without it by
`session_long`): a line still fits with the names in front. Like the invariant
that is checked it speaks of a server that accepts, that is, of rooms that exist:
when the main thread has left, a broadcast may reach nobody. The other theorems
hold whatever the uses of deleted rooms do. Its invariant has
three parts: `Reception` says, for each place of the receiver, what is on its
connection and where its worker is; `Membership` that everything queued or sent
is a delivery that fits, and that the counting starts when the receiver is added;
and `HearsTheRoom` itself, which pairs lines by their rank among the positions of
`sent`: a broadcast adds one position above all others, every other step moves
one line along the chain. `LineAssumption` (`MAX_LEN >= 16`; the code has 255) is
what the fixed texts of the protocol need in order to fit a read.

**Robust I/O** (`RioProofs`). A character being its position, `Placed` says that
text, line and buffer hold the next positions, in that order, and up to
`fetched`; `Room` keeps the buffer inside its array; `Unfinished` says that the
line being read has no newline and is below the limit, or it would have been
returned. `RioTypeCorrect` and `NoCharLostOrRepeated` follow.
`RioImplementsLines` is the refinement. The stream of `LineStream` is a function
of three values (`PiecesOf`): the positions of the newlines, how much was
returned and how much was written. The messages that were passed, and those that
were begun, are initial segments (`PassedIs`, `BegunIs`), so the pieces are the
ones between them, the first cut at its front and the last at its end.
`WriteMapped` shows that writing more of a message appends to these pieces as
`Written` does, `ReadMapped` that returning a line takes what `Received` cuts and
leaves what `Remaining` leaves; every other step leaves the three values alone.

**The sort** (`ParallelSortProofs`). The ranges of the
calls made so far are nested or disjoint (`Laminar`), and what is below a call
that merges or copies has returned, on its right already when it waits
(`DoneBelow`). `WorkIsDisjoint` follows: of two processes that work, neither is
below the other's call, whoever of their ancestors has failed or was killed. For
the data, `Held` is the file as it will be when the copies in progress are
complete; it is a permutation of the original at every step (`HeldInv`), because
what a merge has written is what it has taken (`MergeInv`) and a copy stays in
the range of its call. `NothingIsLost` is the case without a copy in progress.
`SuccessIsSorted` needs that a range that has returned stays sorted until a call
around it copies (`Settled`, `SortedInv`), which is where disjointness is used,
and that a call merges only when all below it ended well (`ProcInv`).

**The cache** (`CacheSimProofs`). `StampsRank` is a statement about permutations:
raising the stamps below one of them and setting that one to 0 permutes the
ranks, and so do a fill and an eviction; the same lemmas serve LRU and FIFO.
Types and ranks hold for any addresses, those whose tags are cut too, since a
stamp does not depend on the tag. The other two theorems are about blocks, which
a slot knows by its tag alone, and assume `TagsFit`: with it what is stored is
the whole tag (`FitsWhole`).
`StoresLostByLoadHits` goes through the steps for a block that was marked dirty:
each leaves it marked, charges for it or is the load that hits it.
`SetsImplementPolicy` maps a set to the list of its blocks by rank, and each
access to the `Hit` or `Miss` of `Replacement` on that list. The geometry is
assumed to be what `main` checks, with at least one set and one block.

**The 256-bit integers** (`UInt256Proofs`). All four theorems hold for every
number of bits in a digit and of digits in a word, and for strings of every
length; a state is one value, and the invariant is that it is four words
(`ValuesOnly`). Three facts carry the rest. In each word, the low `j` bits of
both operands and the carry into the word add up to the low `j` bits of the
result and `2^j` times the carry into the next bit; words put together by
`HornerAdd`, only the carry out of the last is left, which is what the modulus
drops, and the complement of a value is `Modulus - 1` less the value:
`SumsCorrect`. A shift by `k` multiplies by `2^k` but for a multiple of the
modulus (`ShiftIsScaled`), and after `k` turns of `uint256_mul` the product is
that of `right` with the low `k` bits of `left`, which `BitAt` reads off its
number (`BitOfNumber`): `MulCorrect`. For `HexCorrect` the number of a
string is cut at every `DigitsPerWord` digits, words beyond the fourth vanish in
the modulus, and the first digit written, which is not 0, bounds the length of
any other string of the same number. That `strtoul` finds no digit behind a
segment is the property's own premise, not an assumption: `ValuesOnly` holds
with one, too.

**Hexdump** (`HexDumpProofs`). The theorems hold for every input, every size of a
row and of an offset, every register with as many or more bytes than the offset
(`SpareBytes`), all sizes of partial reads and any number of failed ones.
`ReadInv` says that the buffer holds, from its start, the last `numDataRead` of
the bytes read, and that the rows so far show those before them; what lies
behind them in the buffer is free, so that nothing of it can be in a row.
`RowInv` is what a finished row shows, read column by column (the pair and the character
of each byte are where a reader looks for them: the columns have fixed widths,
the text ends at the terminator behind the last byte). The invariant for
`OffsetIsPosition` is that the counter is the position modulo what its register
holds, and that a read that was not full was the last one (`OffsetInv`). That the
digits stand for the counter modulo `256^OffsetBytes` is a fact about
`hex_format_offset`, by induction over its bytes; a wider register, cut by the
formatting, gives the same digits as the narrow one.

**How the inductions are done.** An induction theorem takes its statement as an
operator, which the provers cannot instantiate. `UInt256Proofs` and `HexDumpProofs` derive one for sets
instead (`Induction`) from the library's theorem that a well-founded relation
has a minimal element in every set that is not empty.

**Only model-checked**: liveness (`Delivered`, `EnqueueReturns`, `BroadcastEnds`,
`QueueDrains`, `RequestAnswered`, `ServerEndIsNoticed`, `QueuedIsPrinted`,
`WorkerEnds`, `ProcessesEnd`, `MessageIsReceived`), whose proofs need ENABLED.
Every invariant, action property and refinement of the passing runs has a
theorem.

## 6. Abstractions to know

- A message is a model value with the length that matters; text, logging and
  output formats are left out.
- Short writes, partial reads and `EINTR` are in `Rio` alone; `ChatSession` takes
  a message to arrive whole, which the refinement of `LineStream` justifies.
  `EveryCharOnce` and `MessageIsReceived` test the reading side: the pointer and
  the count of `rio_writen` (`csapp.c:789-795`) are one counter in `Rio`, so that
  on the writing side nothing can be repeated by construction.
  Failures of `malloc` are left out; in the sort they are a process being killed.
- Set-up is left out: sockets, arguments, `open`, `fstat`, `mmap`.
- `parsort` accepts a threshold of 0 (`parsort.c:122` tests a `size_t` for being
  negative). A range of one element then calls itself for ever. The model takes
  a positive threshold, since such a tree of calls has no finite set of names.
- The cache simulator lets zero sets and zero blocks through its checks
  (`main.cpp:50`), and then indexes an empty vector; the model takes positive
  powers of two.
- In `ChatSession` a client that goes away closes both directions, as the
  repository's clients do; who closes only one would keep a worker answering
  empty messages for ever. Each client connects once, as the programs do.
- `HexDump` takes writes to succeed; the input of its run is one sequence of
  bytes in which every value occurs, that of its theorems is any.
- No passing run meets a malformed line that is broadcast and answered with an
  error (`server.cpp:239`): the clients of the repository write one only as part
  of a line of 255 characters, which `session_framing` is about.
- `HexRoundTrip` evaluates hex strings behind which no digit happens to follow in
  memory; that one may follow is in the model, but nothing in the repository says
  what should come of it. `OffsetIsPosition` is about inputs whose reads are
  full: behind a short read the offsets of both hexdumps are too large.
- A copy loop of `parsort` counts with an `int` (`parsort.c:99`); the model's
  counter has no width, since a file that overflows it is beyond any instance.

## 7. Plan

Done: the queue, the rooms, sessions with the accept loop, robust I/O, the sort,
the cache, the integers and hexdump, each with its proofs. What would come next:
`MessageQueue` inside `ChatRooms` with more than one user, to check that the
FIFO abstraction keeps the deadlock argument when a broadcast holds a room's
mutex across several queue mutexes.
