# A verification model of the message broker and its file system

The program is a publish/subscribe broker for one machine (`mbroker`) with an
in-memory file system (TécnicoFS, `fs/`), a bounded queue of requests
(`producer-consumer/`) and three clients (`publisher`, `subscriber`,
`manager`). These modules model the parts that carry its logic, check them with
TLC on small instances, and prove with TLAPS, for every value of the constants,
every safety property that a passing run checks: the invariants, and that each
detailed module implements its abstract specification.

Paths below are relative to `src/`.

## Inventory

### Request queue: `producer-consumer/producer-consumer.c`
State: the circular buffer, `pcq_head`, `pcq_tail`, `pcq_current_size`, each
under a mutex of its own, and two condition variables. Operations:
`pcq_enqueue` (main thread), `pcq_dequeue` (workers), create and destroy.
Hard: each call takes size, index and size again as three separate critical
sections, so calls overlap in the middle; signals can find nobody asleep.
Correct when: elements leave in order, each once, never more than the capacity;
nobody sleeps while there is something to do.

### Box table: `mbroker/boxes.c`
State: the array `boxes` with `size`, `num_elem`, `capacity` under the table
mutex; in each box `pub_num`, `sub_num`, `size` under `box->mutex`, and the
condition variable `wake_subs`. Operations: add, remove, find, register and
unregister publishers and subscribers. Hard: a found box is used after the table
mutex is released; counters are incremented and decremented on different paths.
Correct when: names are unique, counters match the running sessions, no freed
box is used.

### Sessions: `publisher_register`, `subscriber_register` in `mbroker/mbroker.c`
State: the box, the box file, a file handle with its offset, the pipe to the
client. A publisher registers, opens the file at its end, and for every message
writes, broadcasts and updates `box->size`. A subscriber registers, opens the
file at its beginning, and reads and forwards messages, sleeping on `wake_subs`
when it has read all. Hard: the broadcast is made without the mutex; every error
path leaves the session at a different place, some without unregistering or
without closing the handle; `SIGPIPE`. Correct when: every subscriber receives
the log of the box in order, without gap or repeat; there is one publisher at
most; what `list` shows follows the file.

### Manager requests: `manager_create_box`, `_remove_box`, `_list_box`, `_list_subs`
State: the box table and the files. Hard: creation and removal are sequences of
separately locked steps (find, check, unlink, remove) that interleave with each
other and with registrations; the listing marks its last response by the slot of
the array it comes from. Correct when: table and files agree, every request is
answered.

### Main loop and register pipe: `main` in `mbroker/mbroker.c`, `utils/ops.c`
State: the FIFO, its descriptors, the queue, the pool of `max_sessions` workers.
Hard: byte stream without framing, one descriptor per turn, an `open` that waits
for a writer whether or not there is data, workers held by sessions that do not
end. Correct when: each request written reaches one worker, whole and in order.

### File system operations and tables: `fs/operations.c`, `fs/state.c`
State: inode table, block bitmap, blocks, the single directory, the open file
table; all fixed-size. Operations: `tfs_open` (create, truncate, append),
`tfs_close`, `tfs_write`, `tfs_read`, `tfs_unlink`, each under
`g_library_mutex`. Hard: open handles are not looked at by truncation and
unlink; `size_t` differences; every table can be full in the middle of an
operation; memory that was never initialised. Correct when: contents of files
are what was written, tables agree, nothing leaks.

### Clients: `publisher/pub.c`, `subscriber/sub.c`, `manager/manager.c`
Each creates its own FIFO, writes one request to the register pipe, and reads or
writes its FIFO. Publishers and managers close the register pipe after their
request; a subscriber keeps it open as long as it lives. A manager collects a
listing until a response is marked as the last, in an array that it doubles.
Hard: what a client that stops leaves behind; off-by-one in the growth of the
array. Correct when: requests are whole, a listing printed is the table of one
moment.

### How they interact
The main thread puts requests into the queue; a worker takes one and runs the
whole session or request. Sessions and requests meet in the box table (two
levels of mutexes) and in the file system (one mutex). Clients are seen through
their FIFOs: data, end of file, or a broken pipe with `SIGPIPE`.

## Modules

| module | models | kind |
| --- | --- | --- |
| `BoxFeed` | what a box promises: a log, delivered in order | abstract |
| `BoxSession` | the sessions of one box | detailed, implements `BoxFeed` |
| `BoxSessionProofs` | theorems about `BoxSession` | proofs |
| `BoundedFifo` | what the queue promises | abstract |
| `PcQueue` | the queue, one action per critical section | detailed, implements `BoundedFifo` |
| `FileStore` | what the file system promises to careful clients | abstract |
| `Tfs` | the operations over the tables | detailed, implements `FileStore` |
| `BoxTable` | the array of boxes | component of the next two |
| `Listing` | the listing, from broker to manager, among changes of the table | composes `BoxTable` and the manager |
| `BoxDirectory` | what the broker promises about names, boxes and sessions | abstract |
| `Broker` | creation, removal, begin and end of sessions, step by step | composes `BoxTable`, files and workers, implements `BoxDirectory` |
| `LossyChannel` | a channel that loses, never repeats or reorders | abstract |
| `RegisterPipe` | clients, the register pipe and the main loop | detailed, implements `LossyChannel` |
| `PcQueueProofs`, `TfsProofs`, `BoxTableProofs`, `ListingProofs`, `BrokerProofs`, `RegisterPipeProofs` | theorems about the module they are named after | proofs |
| `RecursionLemmas` | induction over numbers, and recursive functions exist | proofs |
| `MCBoxSession`, `MCPcQueue`, `MCTfs`, `MCListing`, `MCBroker`, `MCRegisterPipe` | instances for TLC | |

A definition whose name continues another one's after an underscore
(`PubSize_AlwaysOne` for `PubSize`) is a *mutant*: the same step with a plausible
mistake. `Next` uses none of them. Each property of a passing run is violated
when one of them takes the place of the definition it is named after.

### BoxSession
`pc[w]` is the line worker `w` stands at. A step is a call into the file system
(atomic under `g_library_mutex`), a critical section of `box->mutex`, or an
action outside locks (the broadcast, reads and writes of the client's pipe).
Only the subscriber's critical section can end asleep: `SubFindsNothing` takes
the mutex, `SubWait` is `pthread_cond_wait`, and a woken subscriber takes the
mutex again with its next `SubRead`. `MutexFree` guards the sections of the
others.

The file is a sequence of messages, since publishers write and subscribers read
exactly `MESSAGE_LEN` bytes and the block size is 100 times that. `handles`
counts the entries taken in the open file table; leaked ones stay counted.
`PubRead` is one whole request: `PUBLISHER_BUFFER_SIZE` is below `PIPE_BUF`.
A publisher's request of a single byte, which the loop skips, changes nothing
and is left out. `tfs_write` cannot fail for want of a block, as there are more
blocks than inodes.

`sigpipe` is the disposition of `SIGPIPE`. The Makefile builds with `-std=c17
-D_POSIX_C_SOURCE=200809L`, for which the C library gives `signal()` its System
V meaning: the handler is reset when it runs. So the first broken pipe after a
publisher arrived is survived (`SubPipeBroken`), the next one ends the process
(`BrokerKilled`).

### PcQueue
One action for each of the three critical sections of a call. A wake-up goes
back to the test of the size (`Recheck`), as the `while` does. `SpuriousWake` is
the wake-up without a signal that POSIX allows.

### Tfs
One action per outcome of an operation. `dir` holds names also in free entries,
because `clear_dir_entry` compares them; initially they are arbitrary, since
the block comes from `malloc` unwritten. `LongName` are the names
`add_dir_entry` refuses. `ToRead` and `ToWrite` wrap as `size_t` does. The blocks
lie one after the other in `fs_data`: a read that wraps copies what is in the
blocks that follow (`ByteAt`), moves its handle there and goes on. If it comes to
the end of `fs_data` it copies whatever lies behind it, or the process crashes
(`ReadCrashes`). A write from behind the end of its block would copy nearly 2^64
bytes, and crashes (`WriteCrashes`). A read of block -1 aborts (`ReadAborts`, the
assertion in `data_block_get`). `MaxOffset` bounds how far a handle reads on.
`Leak` is a client that goes away without `tfs_close`, as a departing subscriber
does (`mbroker.c:475-482`): its handle stays taken and is used no more
(`leaked`). Invalid path names and invalid handles are refused without effect and
left out. `Mode` holds the combinations of flags that are passed. The constant
`Careful` restricts clients to those that neither truncate nor unlink a file in
which a handle in use stands.

### BoxTable
`box_add` and `box_remove` run under `box_table->mutex` from beginning to end, so
each is one action; `box_add` has one for the last slot and one for a hole.
`name[b]` is the `file_name` of the box at address `b`; addresses that are not
allocated have none, and `malloc` may return any of them, in particular one that
was just freed. `peak`, the largest number of boxes so far, is a history variable
that no action reads.

### Listing
`mutex` is `box_table.mutex`, which a listing holds from `ListBegins` to
`ListEnds` or `ListWriteFails` and `manager_list_subs` for ever (`SubsLeaks`).
Other workers change the table while it is free. The manager's side is the loop of
`manager.c:193-218`: `NewListCapacity` is its test for growth, in the order of
the code. Which names are in the responses and which one is marked is kept; the
counters in them and the sorting are not. A listing whose last slot is free is
not marked, and its manager waits for ever; that is a behaviour of the model, and
`ListingEnds` has the premise that the last slot is in use. `snapshot` is history:
the names in the table when the listing began.

### Broker
A request is `pc[w]` running through the calls of its handler that take a lock.
`box_find` is two steps (`FindHit`, then `FetchBox`, `FetchNothing` or
`FetchTaken`), because it reads `boxes[i]` again after it has unlocked the table.
Removal is `CheckIdle`, `Unlink`, `Drop`. A session registers (`Count`), opens its
file, and then is a worker that stays at `session` until it leaves or fails: what
happens there is `BoxSession`. The file system is what the requests use of it:
the inode of each name and the number of handles taken, with the failures for want
of either; `Tfs` has the rest. The answers to managers are not kept.

Two uses of freed memory end the behaviour, since anything may happen after them.
`UseFreed` is the use of a box that was freed. `FetchMoved` is the second look of
`box_find` at its slot in an array that `box_add` has moved since: `seen[w]` is the
length of the array the worker searched, which tells the arrays apart as they only
grow. The thread may also have read the address of the new array, or `realloc` may
have left the array where it was; then it is one of the other `Fetch` steps.
`UsesNoFreed` says when either can happen.

The code does not protect two requests for one name from each other: two creations
both find no box, a registration meets a removal after its check. `raced` is a
history variable that becomes TRUE when such a request arrives while another for
the same name is under way (a session that runs is not under way). The invariants
and the refinement are stated while all is `Calm`: no such meeting, and no use of
freed memory. `RemovesOnlyIdle`, stated without it, is violated. The code starts
with 8 slots and has inodes for 63 boxes, so a broker with that many boxes meets
`FetchMoved` if a request for any box and a creation interleave that way.

### RegisterPipe
The pipe is a sequence of segments: whose bytes, and how many. A write is one
segment (below `PIPE_BUF`), a read takes `MAIN_BUFFER_SIZE` bytes of them and may
cut one (`Rest`). The worker looks at the start of the buffer only (`First`).
`open` and `read` are those of a FIFO: `CallsOpen` waits when there is no writer,
even if there is data; a client that opens in the meantime lets it return
(`OpenReturns`) even if it is gone by then; `read` waits for data while there is a
writer and returns 0 when there is none. No descriptor is closed, so there is
always a reader after the first turn, until `OpenFails`, where `close_server`
fails at its first step and exits. The rest of a cut request starts with a byte of
a path or a name, taken to be no type of a request: names that contain bytes 1 to
12 are not modelled.

## Runs

| run | question | instance | states |
| --- | --- | --- | --- |
| `sessions` | safety of the sessions, deadlock, `BoxFeed` | 3 workers, 2 messages, box of 3, 3 handles | 904110 (symmetry) |
| `sessions_live` | delivery, progress of the publisher | 3 workers, box of 2, 2 handles | 65935 |
| `queue` | `BoundedFifo`, no lost signal | 1 producer, 1 consumer, 3 slots | 2890 |
| `queue_two_workers` | is an empty slot ever taken? violated | 2 consumers, 2 slots | |
| `tfs_careful` | `FileStore`, lost blocks, assertions, crashes | 2 names, 2 bytes, 2 handles, 2-byte blocks | 422417 (symmetry) |
| `tfs_any` | tables agree whatever clients do | 2 names and a long one, 2 handles, 3 blocks of 1 byte, reads of 2 | 242444 (symmetry) |
| `listing` | the table and its listing, mutex, growth of both arrays | 3 boxes, 2 names, 2 slots and 2 entries at the start | 30903 |
| `broker` | names, boxes, files and sessions under concurrent requests | 2 workers, 3 names, 2 boxes, 2 slots at the start, 2 inodes, 2 handles | 2474873 (symmetry) |
| `broker_remove_active` | is an active box ever removed? violated | as `broker` | |
| `register_pipe` | loss, order, progress, turns of the main loop | 4 clients of 3 kinds, 7 descriptors | 44078 |
| `tfs_truncate` | does a read stay in the file? violated | as `tfs_any` | |
| `tfs_unlink_open` | are block numbers valid? violated | as `tfs_any` | |

Why the bounds are enough. *Sessions*: three workers give a publisher with two
subscribers, and two publishers racing for the box before a subscriber; a box of
three messages is filled, and lets a sleeper fall two messages behind, which is
what `SleeperMissesAtMostOne` excludes; three handles are exhausted by leaks.
`MaxSubNum` bounds `sub_num`, which leaked registrations would grow without end:
it disables new registrations only. *Queue*: three slots make the indices wrap
around at different times. *Files*: two handles show one client the effects of
the other; two-byte blocks have an empty, a partial and a full file; three inodes
are the root and two files, so that blocks and inodes are reused. In `tfs_any`,
where handles read on behind their block, blocks of one byte and offsets up to
three (`MaxOffset`) take a handle through every block and out of the last; an
offset changes nothing in any table but through a write, and from there every
write crashes. *Listing*: three
boxes in an array of two slots make the table grow with boxes in it, with holes at
the beginning, the middle and the end; an array of two entries makes the manager's
grow in its second turn. There may be two boxes of one name. *Broker*: every
property is about two requests, or a request and a session, that meet; two boxes
and two inodes for three names make slots, addresses and inodes be used again by
another name, and let a creation find no inode; two handles are used up by leaks.
A box that goes into the first of the two slots while the second is in use makes
the array grow under a request for the other box.
`Bounded` keeps creations and registrations within the addresses and `MaxSubNum`.
*Register pipe*: the buffer holds three requests and a part of the fourth; four
clients cause up to eight turns, so that seven descriptors run out in some
behaviours and not in others. Symmetry is
used in safety runs only, on workers, names and bytes, which the modules only
compare for equality.

What the passing properties say:

- `SleeperMissesAtMostOne`: the broadcast of `mbroker.c:386` can be missed by a
  subscriber about to sleep, but the publisher cannot write again before that
  subscriber sleeps and can be woken. A sleeping subscriber is at most one
  message behind, or two while the broadcast for the second is on its way. So
  the *last* message of a publisher may stay undelivered until the next
  publication. `DeliveredWhilePublishing` is the liveness side of it.
- `CountersCoverSessions`: error paths can only make the counters and the open
  file table count too much, never too little; an active box is never taken for
  an idle one.
- `SizeCountsStored`: what `list` shows is never ahead of the file, and behind by
  one message at most.
- `FeedSpec`: sessions implement `BoxFeed` with `log <- file`,
  `feed <- delivered`.
- `FifoSpec`: calls in the middle of their three sections are mapped to a queue
  of `Stored` elements from `tail` on. `WaitingWorkerIsServed` and
  `FullQueueReopens` say that no signal is lost.
- `FileStoreSpec`: contents are read from the blocks of the inodes the directory
  names; every operation is one of a store of named files or changes nothing.
- `BlocksOwned`, `DirMatchesInodes` hold even with stale handles, and so does the
  part of `TypeOK` that no file is longer than its block.
- `BoxesInTable`, `HoleWhenCounted`, `TableFollowsPeak`: the counters, the slots
  and the allocated boxes stay together over any history; `box_add` never comes
  to its "unexpected behaviour".
- `ListingTells`, `ListingEnds`: the mark on the last response may be missing, but
  when there is one the manager has the whole table. `ListFits`: its array has
  room. `ListingUnlocks`: every way out of a listing releases the table.
- `NamesHaveFiles`, `SessionsInPlace`, `DirectorySpec`: requests for different
  names, failures for want of inodes or handles, and the reuse of slots, addresses
  and inodes never lead a request to a wrong box or file, and sessions keep their
  box from removal, while all is calm. `UsesNoFreed`: what ends the calm other than
  a meeting of two requests for one name is the move of the array alone, and that
  takes a table that was once full.
- `ChannelSpec`: with `flight` the whole requests in the pipe and the buffer, the
  pipe and the main loop are a channel that loses requests but never serves one
  twice, in part or before an earlier one.
- `LonelyRequestIsServed`: what is lost was crowded. It excepts the ways in which
  a single request can stay unserved: no descriptor is left, the workers are busy
  for ever, or main waits in `open` for a writer while the request is in the pipe
  and its writer gone. The last happens (a client opens the pipe before one turn
  ends and writes and closes before the next begins) and lasts until another
  client comes. `TurnsAreCaused`: two turns per client at most, so end of file
  does not make the loop spin.

What the violated ones show: with more than one worker the queue hands out a slot
that holds no element (`producer-consumer.c:61` and `72`); a read behind the end
of a truncated file copies bytes that are not in the file (`operations.c:264`), and
a handle kept over `tfs_unlink` and a creation aborts the process
(`operations.c:264-270`); a session that registers between the check and the removal
of its box is left with a freed one (`mbroker.c:165-185`).

The handle that such a read has moved may stand behind its block, and the next
write through it wraps (`operations.c:206-207`). `tfs_any` takes this step
(`WriteCrashes`), and shows that up to it the tables are sound; `StaysRunning`
says that careful clients never come to it.

### Fairness
Threads are scheduled fairly: a worker that can take a step of its own takes it
(weak fairness of `OwnStep`; the sections of `PcQueue`). For `box->mutex`, which
others take again and again, we assume more: a thread that waits for it while it
becomes free again and again gets it (strong fairness of `LockStep`). POSIX
leaves this to the scheduling policy; it is an assumption about the platform,
needed because a subscriber that finds messages could otherwise always overtake
the publisher. `SubSend` being fair means that a client that holds its end of the
pipe reads it. Nothing else is fair: requests, messages, departures, faults and
spurious wake-ups need never happen, a session may last for ever, and
`DeliveredWhilePublishing` has the premise that somebody goes on publishing.

In `Listing` the worker in the loop goes on, its writes never wait (the responses
fit into the pipe), and a manager that is there reads. In `RegisterPipe` clients
go on to write and to close, except that a subscriber closes when it likes; main
goes on, except in `pcq_enqueue`, which is not fair because the workers may all be
in sessions. `Broker` has no liveness properties and no fairness.

## Proofs

`BoxSessionProofs` proves, for every finite set of workers, every capacity of box
and open file table (the assumption `BoxSessionAssumption`):

- `TypeCorrect`, `LostWakeupBounded`, `SizeCorrect`, `CountersCorrect`: the four
  invariants of the run `sessions`;
- `SessionRefinesFeed`: `Spec => FeedSpec`.

They follow from `Invariance`, `Spec => []IInv`. The invariants are not inductive
alone; `IInv` adds what they rest on:

- `MutexHeld`: the mutex is held over a step exactly by the worker at `sub_wait`;
- `WriterAtEnd`: the handle of a publisher stands at the end of the file, which
  needs that there is one publisher (`OnePublisher`, from `pub_num <= 1` and
  `CountersCoverSessions`);
- `BufferFilled`, `FeedInStep`: what a subscriber holds is the message its handle
  has passed, and its pipe has received all before;
- `WaiterMissesAtMostOne`: a subscriber about to sleep has missed nothing, or the
  one message whose publisher still waits for the mutex.

The argument for the lost wake-up: to fall two behind, a second `PubWrite` would
have to pass `PubSize` after the first, but `PubSize` needs the mutex, which the
subscriber at `sub_wait` holds until it sleeps; then the next broadcast wakes it.
`CountersNext` counts sessions: a step moves one worker (`LabelMove`), or wakes
sleepers, which stay in the same class.

`BoxTableProofs` proves the three invariants of the table (`TableHoldsBoxes`,
`AddFindsHole`, `TableStaysShort`) and its types, for any set of boxes and names
and any start capacity (`BoxTableAssumption`), from `TInv`. What the invariants
lack is `ElementsCounted`: `num_elem` is the number of slots in use, which makes
`size # num_elem` mean that there is a hole. `PutKeepsInv` is the step of both
forms of `box_add`; `PutSlots` says what the array is like afterwards, grown or
not.

`ListingProofs` proves that listings among changes of the table implement the
table alone (`ListingKeepsTable`), which carries the theorems about it over
(`ListedBoxesInTable`), and for any number of boxes and any start size above one
(`ListingAssumption`) that the manager's array has room (`ListingFits`) and that
what it prints is the table of one moment (`ListingIsSnapshot`). `ArrayInv` adds
that a manager that has not read yet has an empty array. `TellInv` looks at what
the manager was told, the responses it has read with those in its pipe: during a
listing they are the names of the slots before `next` (`ToldSoFar`), and when one
is marked it is the last and they are the whole snapshot (`MarkIsLast`). That
nothing is left of another listing needs `Beginning` and `AskedFirst`. The names
slot by slot are a recursive function; `NamesUpToSteps` unfolds it.

`PcQueueProofs` proves `TypeCorrect` and `PcQueueRefinesFifo` for every capacity
and set of elements, under `OneEach(p, c)`: one thread puts and one takes. The
code has one thread that puts, the main thread; it has one that takes if
`max_sessions` is 1, and for more `queue_two_workers` shows that both results are
lost. `QInv` ties the size, which is counted in a section of its own, to the
indices: `head` is `Between` slots after `tail` (`HeadFollows`), where `Between`
adds what is stored and not counted yet to the size and takes off what is read and
still counted; a producer past its test has room and a consumer past its test an
element until they count (`RoomPromised`, `ElemPromised`), since the other side
can only make more of it.

`TfsProofs` proves, for tables of any size, any names, and any clients, the types,
`BlocksCorrect` and `DirectoryCorrect`, from `TfsInv`. It adds to the invariants
that the root's inode is never given back and no handle is of it (`RootKept`,
`HandlesOffRoot`), and `ErasedNames`: an entry that is free and holds a name, as
the block from `malloc` may, lies behind all entries in use, which is why
`clear_dir_entry`, which compares names only, clears the right one. A handle may
stand anywhere, so that `TypeCorrect` rests on the write: it stores nothing beyond
the block, or crashes (`WriterInBlock`). With the assumption `Careful`,
`CarefulInv` gives `NoBlockIsLost`, `HandlesStayInFiles` and `NeverAborts`, and
`TfsRefinesFileStore` shows every operation to be one of the store, or to change
nothing. The broker never truncates, and while all is calm it unlinks no file of a
box with sessions (`SessionsInPlace`: the session's handle stays the one of the
name); handles that subscribers leaked may stand in the files it unlinks, which
`Careful` allows, as nobody uses them. `tfs_truncate` and `tfs_unlink_open` show
what happens without it. `NamesMatch` is the bridge: names in the directory and
inodes other than the root are in one-to-one correspondence.

`BrokerProofs` has no assumption besides those the modules declare; the set of
workers may be infinite. `AlwaysInv` holds raced or not: the table's `TInv`, types,
which request can be at which line (`Requests`), two counts that the types
need, of handles by the requests that hold one (`HandlesCounted`) and of
subscribers on their way (`SubsBounded`), and that the array stays the one a reader
saw until the table has been full (`ArrayKept`, from `size <= peak`). It gives
`TypeCorrect`; `BrokerKeepsTable` carries the theorems about the table over, its
growth included. `CalmInv` is claimed
only while all is calm: a creation or removal is
alone with its name but for sessions (`ManagersAlone`), so what it found out stays
true until it acts on it (`RequestsKnow`: which box, which file), a box or file on
its way out has no session (`RemovalsClear`), boxes have files (`BoxesFiled`), and
counters cover sessions (`SessionsCounted`). From both follow
`SessionsStayInPlace`, `NamesKeepFiles`, `OnlyKnownUsesOfFreed` and
`BrokerRefinesDirectory`.

`RegisterPipeProofs`, for every finite set of clients and any number of
descriptors: `PipeTypes`, `MainRestsBetweenClients` and `PipeRefinesChannel`.
`HeldInv` says that the buffer is held only until it is enqueued and that only the
head of the pipe is a rest. `RestLeaves` unfolds `Rest`, whose sum of bytes is a
recursive function and whose cut is a least element: since a request is shorter
than the buffer, a read takes one segment at least. So `CauseInv` is kept: turns
done and turns that must come (`Pending`: a buffer to enqueue, or the end of file
ahead) are paid for by clients that wrote and clients that left. For the channel,
`Requests` are the whole segments, and what a read leaves is in their order
(`LeftOf`, with the indices as witness).

All invariants were checked by TLC on the instances of the runs before they were
proved.

Only model-checked: the liveness properties (`DeliveredWhilePublishing`,
`PublisherGetsOn`, `WaitingWorkerIsServed`, `FullQueueReopens`, `ListingEnds`,
`ListingUnlocks`, `LonelyRequestIsServed`), since fairness and `ENABLED` are out
of the prover's reach. The library's theorems of induction take operators, which
its backends cannot instantiate; `RecursionLemmas` states induction about sets
instead (`SetInduction`, `IntervalInduction`, from the well-foundedness of `<`),
and derives that a recursive function over an interval exists. That is enough for
the two recursive functions of the modules, `NamesUpTo` and `BytesOf`. The
violated properties are not theorems, of course; what they refute is in their
counterexamples.

## Not modelled, and why

`tfs_destroy`, `pcq_destroy`, `box_table_destroy`: called while the process exits;
`close_server` is modelled as far as it comes when no descriptor is left.
`expand_subs` is called nowhere. A second `tfs_init`: `mbroker` makes none. Failure
of `malloc` and of mutex calls: the environment's. The FIFOs of managers that
create or remove: a worker waits in `open` until the manager opens its end, which
it does right after its request. Clients' output, sorting, logging. Tests call
operations (`tfs_link`, `tfs_sym_link`) that no longer exist. `insert_delay` is an
empty loop.

## Plan

1. Done: `BoxSession`, `PcQueue`, `Tfs`, `BoxTable`, `Listing`, `Broker` and
   `RegisterPipe` with their abstract specifications, and theorems for every
   safety property of the passing runs.
2. Proofs: what the queue keeps with any number of workers (the indices stay in
   the buffer, each enqueue stores its element); the parts of `CalmInv` that hold
   for a name whose own requests never met, when those of other names have.
3. The pool of workers: sessions that hold every worker, with the queue in front of
   them and the main loop behind it.
