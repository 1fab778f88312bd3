# A TLA+ verification of CppToolkit

CppToolkit is a C++17 toolkit: a prioritised thread pool, a TCP client and
server built on it, an asynchronous logger and a set of utilities. This
directory holds TLA+ models of its concurrent parts, the TLC configurations
that check them on small instances, and theorems about them that TLAPS proves
for instances of any size. Source paths are relative to `src/`.

## 1. The system

| component | state it keeps | operations | how it interacts |
|---|---|---|---|
| `ThreadPool/JobPool` | a FIFO deque per priority under `mutex_`, the atomic `lock_condition_`, a notification callback, the extensions of backup files | `push`, `pop`, `job_count`, `clear` (all, one priority), `lock`, `uncompleted_jobs` | `push` calls the callback after it released `mutex_`; the callback is `ThreadPool::notify_callback` |
| `ThreadPool/ThreadWorker` | its thread, `priorities_`, `thread_stop_`, `pause_`, a one-shot `promise_`, `mutex_` and `condition_` | `start`, `stop`, `pause`, `notify_one`, `priorities`; the thread runs `run()` | `run()` holds the worker's mutex while it asks the JobPool for jobs; jobs run with no lock held and may push jobs |
| `ThreadPool/ThreadPool` | the vector of workers, `working_`, `pause_`, all under `mutex_` (`working_` not always) | `push` (job, worker), `remove_workers`, `start`, `pause`, `stop`, `lock` | holds `mutex_` while it calls, and joins, its workers; `notify_callback` takes the same mutex |
| `ThreadPool/Job` | data or callback, priority, the path of a temporary file | `work`, `save`, `load`, `destroy` | run by a worker; `save`/`load` move the data to a file that `uncompleted_jobs` of another run finds |
| `Utilities/Logger` | the list of messages, `thread_stop_`, one thread, file rotation | `start`, `write` (four overloads), `stop` | every component writes to it; one thread drains the list |
| `Network/DataHandler` | socket, connection condition, keys, a ThreadPool, receiving buffers | the reader (start code, length, data, end code), the send pipeline encrypt - compress - send, the receive pipeline decompress - decrypt - receive | base class of client and session; every stage of a pipeline is a job that pushes the next one |
| `Network/SendingJob`, `ReceivingJob`, `ConnectionJob`, `FileSendingJob` | one message each | `working` | the jobs of the pipelines, on the pool of the DataHandler |
| `Network/FileManager` | per transfer: expected count, received paths, failures, under `mutex_` | `start`, `success`, `failure`, `check_condition` | called from the receive pipeline of a session or client; pushes a completion job |
| `Network/NetworkSession` | server-side end of one connection | `start`, `stop`, the handlers of received data | called by the server's io thread and by pool workers; reports connections to the server |
| `Network/NetworkServer` | acceptor, `sessions_`, io context, pool, a promise for `wait_stop` | `start`, `stop`, `wait_stop`, `send_*`, accept and drop of sessions | owns the sessions; its io context runs as a LongTerm job of its pool |
| `Network/NetworkClient` | client-side end, io context, pool, a promise for `wait_stop` | `start`, `stop`, `wait_stop`, the handlers of received data | as the session, with a pool of its own |
| `Utilities/Combiner`, `Converter`, `Compressor`, `Folder`, `ArgumentParser`, `Encryptor` | none (pure) | encode and decode | used by the network and the samples |
| `Utilities/File`, `FolderWatcher`, `SystemInformation`, `Generator`, `JsonTool`, `Database/PostgresDB` | handles of the operating system or of a library | wrappers | used by the above |
| `Samples` | programs | - | show the intended order of calls |

### What is hard here

* *Wake-ups.* `JobPool::push` puts a job in a queue without the worker's mutex;
  a worker evaluates the predicate of its wait queue by queue. A job pushed
  behind its back must still wake it. `Logger::stop` notifies without the mutex.
* *Locks held across joins.* `ThreadPool::stop`, `start` and `remove_workers`
  join threads under `ThreadPool::mutex_`, which `notify_callback` also takes -
  from inside the threads being joined, when a job pushes a job.
* *Checked, then used.* `lock_condition_` is tested before the queue's mutex is
  taken; `working_` is reset after the pool's mutex is released;
  `remove_workers` clears the queue before it takes the mutex; the server
  iterates over `sessions_` with no lock; `socket_` and `thread_pool_` are
  tested and then used by workers while another thread resets them.
* *Early returns.* `ThreadPool::stop` gives up at the first worker without a
  thread and leaves the JobPool locked.
* *Order.* A pipeline of several workers can reorder messages: a message may
  overtake the answer to the connection request that allows it. A file that
  arrives before the start message of its transfer is lost.
* *Framing.* A short send leaves half a frame on the connection; the reader has
  to find the next start code, and drops what it read on a mismatch.
* *Once only.* `ThreadWorker::promise_` and the promises of `wait_stop` are
  never renewed.
* *Files of jobs.* `uncompleted_jobs` deletes the files it reads, those of live
  jobs among them; `clear(priority)` leaves the files of the jobs it drops.

### What makes each component correct

* JobPool and ThreadPool: every job handed to `push` is refused, or runs exactly
  once, or is dropped by a `clear`; jobs of a priority are taken in order; no
  worker sleeps through a job or through a stop; a paused worker takes nothing;
  `stop` returns, leaves no thread, no lock, and no job that was accepted before it.
* Logger: every message written before `stop` reaches the file before the
  `[STOP]` line, in order; `stop` returns.
* DataHandler and SendingJob: what the reader hands on is what was sent, in
  order, as long as the connection lasts.
* FileManager: a transfer is reported once, when every file of it has arrived or failed.
* Session, server, client: nothing is delivered before the handshake confirmed
  the peer; an expired connection stays expired; `wait_stop` returns after `stop`.
* Job backup: after a crash, each saved job is recovered once.
* Pure utilities: decoding inverts encoding.

## 2. The plan

Modules, in the order in which they were written.

1. `JobPool`, `ThreadWorker`, `ThreadPool`, `JobService`: the core. All the rest
   of the system runs as jobs on this pool.
2. `Logger`, `LogService`: writers, the thread, `start`/`stop`; the abstract log
   it implements.
3. `FileManager`: transfers whose messages several workers handle.
4. `JobBackup`: `save`, `load`, `destroy` and `uncompleted_jobs`, with crashes,
   on the queues of `JobPool`.
5. `OrderedChannel`, `Framing`: what a connection promises, and `SendingJob`
   against the reader of `DataHandler`, byte by byte.
6. `Connection`: the handshake, the conditions of both ends and the pipelines
   over two pools; implements `OrderedChannel` in either direction.
7. `StopProtocol`, `Server`, `Client`, `Lifecycle`: the promise of `wait_stop`
   and `stop`, and what the two components take down around it.
8. `Codecs`, `SessionTable`, `Algorithms`: the sequential algorithms against a
   reference.

All eight are in this directory, and proofs of each (section 5). Liveness stays
with TLC.

## 3. The modules and the code

`PROJECT.json` maps every definition to the lines it models. Operators marked
"Mutant" are not part of a model: each is a plausible bug, and the property it
is paired with in `PROJECT.json` fails when it takes the place of the definition
next to it.

### Thread pool

`JobPool` holds the queues (`queue`) and the flag (`locked`), and operators for
the critical sections of `JobPool::mutex_`, each of which is one step because no
other lock is taken inside. `push()` is two steps: the test of `lock_condition_`
(`PushRefused`, `PushAdmitted`), which holds no mutex, and `PushBack`.
`fresh`, `refused` and `discarded` are history.

`ThreadWorker` is a worker: `run()` as a loop of labels (`pc`), and the calls of
the pool on it. The worker's mutex is not a variable. Its thread holds it exactly
at the labels `scan`, `block` and `take`, that is from the evaluation of the
predicate to the block in the wait or to the pop; everybody else holds it for one
step, whose guard is `WorkerMutexFree`. `has_job()` looks at the queues one by
one (`ScanQueue`, the counter is `at`) because every look takes and releases
`JobPool::mutex_`, and a `push()` can come between two of them. A job is one step
that ends it (`FinishJob`); while it runs it may push one other job (`ChildOf`),
as each stage of DataHandler's pipelines does.

`ThreadPool` composes the two and adds the callers. `ThreadPool::mutex_` is held
across whole calls, so it has an owner (`poolMutex`). The loops over the vector
visit the workers in the order of their numbers, which is the order of the
vector; `at` is the number visited last. A join is a step of its own, enabled
when the thread joined is `idle`. `stop()` is followed to each of its exits:
the early return at a worker without a thread, and the reset of `working_` after
the mutex was released (`StopTail`). `late` is history: the jobs that entered a
queue while a `stop()` was under way, for which `stop()` promises nothing.

`JobService` is what users see of it: jobs are taken in the order of `push()`
per priority, run once, or are dropped. `ThreadPool` implements it with the
queues as `pending` and the jobs at the label `run` as `running`.

### Logger

One message stands for one call of one of the four overloads of `write()`, which
differ in what they format only. `mutex_` again follows from where its holders
are: `MutexFree` says that no `write()` is between its test of `thread_stop_`
and its `push_back` and that the thread is not between the predicate and the
block. The reads of `thread_stop_` and `messages_` at the head of the loop and
the whole of `stop()` take no mutex, and neither do their actions. `thread_stop_`
has no initial value in the code, so `Init` leaves it open. The owner is the one
thread that calls `start()` and `stop()`; the write interval is set before the
first `start()`, so `Init` chooses it.

`write_log()`, with the rotation in `write_file()`, runs with no lock and is one
step of the only thread that touches files. `rows` is what it was given and also
what `write_database()` stores, with the day, from which `LinesOf` computes what
a file ought to hold. `max_lines()` narrows its argument to 16 bits (`MaxLines`).
Time advances in whole days, the unit of the file names and of
`check_life_cycle()`. `EpochDays` is the distance between the epochs of
`std::filesystem::file_time_type` and of the system clock, which `Age` mixes as
the code does: 0 where the library uses the system clock's, 74510 with libstdc++.

`LogService` is a FIFO log with sessions: a message that was accepted is logged
once, in order, between a `[START]` and a `[STOP]`.

### FileManager

The workers of a session's pool handle the messages of transfers in any order,
which is what two pipelines of one pool allow. `Record` is `received_file()` of
the session up to the end of the first critical section of `success()` or
`failure()`; `CheckCondition` is `check_condition()`, the second critical section,
made by the same worker (`checking`); the job it pushes is in `completions` until
a worker runs it. `Broken` are the files the sender could not read, which it
announces and sends with no content; a file with content may still fail to be
saved (`saved`). `send_files()` of DataHandler gives the announced count.

### Backup files of jobs

`JobBackup` extends `JobPool` and adds what `Job::save()`, `load()` and
`destroy()` do to the file of a job, one step for each call on the file system:
`save()` opens (and empties) the file, then writes it, and looks at the result of
neither; `uncompleted_jobs()` reads a file, then removes it, while jobs live.
`Crash` ends the process at any step; files stay, memory does not. A file is named
by a guid, so it is identified with its job. `push()` is one step here, because
nothing between its two halves touches a file. The program is assumed to make no
job of an empty entry (`PassOver`), since `save()` writes none. What is excepted by the
properties is recorded in history variables named for the cause: `thrown`,
`down`, `halfway`, `exposed`, `left`.

### A connection

`OrderedChannel` says what one direction of a connection promises: messages
arrive in the order in which they were accepted, each at most once, and none is
skipped until the channel is lossy.

`Framing` is the socket's view: bytes. `SendingJob::working()` writes the start
tag, the length, the data in chunks of `buffer_size_` and the end tag; each
`socket_->send()` is a step and may be short. There is one worker for `Top` jobs
(`DataHandler.cpp:222`), so one job writes at a time. Each completion of an
`async_read` is a step of the `read_*` chain, `reading` is its state. The tags are
the default ones; a length is eight bytes, of which the messages here use two,
and any eight bytes that are no length of the sender's stand for one that the
stream never fills.

`Connection` is the applications' view. A message passes the stages `encrypt`,
`compress`, `send`, and at the other end `decompress`, `decrypt`, `receive`; each
is a job in the queue of its priority, taken by one of the end's workers
(`Serves`), as `create_thread_pool()` gives them out. `doing` is the job of a
worker with the step inside it. `condition_` is tested and assigned in two steps
wherever a worker does so, and the io thread's test and assignment are two steps
as well (`ReadFails`, `ReaderExpires`): another thread may come in between.
The assignment of `Expired` and the `disconnected()` behind it are one step.
`sealed` is whether data was encrypted, `cipher` whether an end has the key.
The server appears by what it does for a session: it is told by a job, and stops
a session it finds expired (`Close`). `ender` chooses, per behaviour, whether the
network or the client may end the connection. The stream of the model is
`OrderedChannel` at the level of whole messages, which is what `Framing` provides
as long as no write of a tag is short.

### Life cycles of server and client

`NetworkServer` and `NetworkClient` have the same `wait_stop()` and `stop()`,
translated once in `StopProtocol`: a promise that is made, taken and fulfilled by
threads that do not lock anything. `TakeFuture` on a promise that is gone or was
taken ends the call; in the code it throws, or is undefined when the pointer was
reset in between. A thread that has to take things down is in step `drop`; `Server`
and `Client` go on from there.

`Server` adds `start()`, the two halves of taking down (`drop_sessions()` and
`destroy_io_context()`), `mutex_` with its holder, sessions and their
notifications, and `received_connection_handler()` on a worker of the server's
pool. `dropping` are the sessions the holder of `mutex_` stops one after the
other, joining their workers while it holds it. A session's worker in a callback
that sends waits for `mutex_` (`CallbacksSend`). `Client` adds socket and pool, and
a callback on a worker of that pool that calls `stop()`. `Lifecycle` runs either
of them under the same `StopProtocol` (`kind`).

### Codecs and the table of sessions

`Codecs` has `Combiner`, the archives of `Folder`, the block loops of `Compressor`
and `split()`/`replace2()` as recursive functions over sequences of bytes;
`SessionTable` the loops of `send_*()` and the two ways of dropping sessions by
id. A compressed block is its data, and it can be decompressed when it fits the
reader's block, as LZ4 has it. The reference of `split()` and `replace2()` has no
loop: it says of each byte whether a token starts there, whether it is inside one,
and what it contributes.

`Algorithms` makes a state of each input and states a property of every algorithm;
an archive goes on from cut to cut. Its inputs (`IsInput`) are all there can be: any
bytes, with two restrictions. The entry of a file in an archive has a length that a
`size_t` can hold (`Storable`), since all of it has been in memory, and the token of
`split()` is not empty. `MCCodecs` takes a small part of them, and its assumption
says that they are a part.

## 4. What is checked

| run | instance | checks |
|---|---|---|
| `pool_lifecycle` | 2 uniform workers, 3 jobs, 2 priorities, a producer, a user with 3 calls of start, stop(false), stop(true) | stop drains, its lock ends with it, refinement of `JobService` |
| `pool_calls` | 3 calls of start, stop, pause, resume; no job pushes another | a paused worker takes nothing; a queued job is taken; every call returns |
| `pool_two_users` | two threads that both start and stop a pool of no workers, one adds workers, one removes a priority, locks and unlocks; a job pushes a job | types, jobs accounted for, no lost wake-up, members have live threads and nobody else has one |
| `pool_stop_deadlock` | a job that pushes a job | finding, below |
| `job_backup` | 2 jobs, 2 payloads, 2 workers, 2 crashes | what was saved is not lost, runs once, and no file is left without an owner, but for named causes |
| `log_sessions` | 3 messages of different types, 2 sessions, 2 days, 2 lines per file, with and without a write interval | types and contents of the files, stop flushes, refinement of `LogService`, stop returns, a buffered message is written |
| `files_transfers` | 2 transfers with 3 and 1 files, one of them broken, 3 workers | each transfer is reported once, whole, and when it is complete |
| `wire` | 3 messages, one of them made of tag bytes, buffers of 2 and 1, a short write of a tag or length, a break at any byte | refinement of `OrderedChannel`, nothing sent before a cut is missing, everything arrives while the connection is up |
| `connection` | pools with one worker for data and one for sends; a file after its start message one way, a message the other; right or wrong key; the network or the client ends it | handshake, no end expires without a cause, data is encrypted, order, a waiting client does not wait for ever, everything arrives, a break is told |
| `connection_overtaken` | the same with a worker for each kind of job | finding, below |
| `lifecycle` | a main thread with 4 calls, a second thread (for the client its own worker) with a stop, one session | nothing is left running, a signalled stop is heard, calls return, a lost session is erased |
| `codecs` | archives of up to 2 files cut at every byte; blocks of data up to 3 with every pair of block sizes up to 3; texts up to 5 bytes with tokens up to 2; up to 3 sessions | decoding against encoding and references |

### Bounds, and why they are enough

*Pool.* Two workers are the fewest that can race for a job, and that leave one
to be visited after the other by the loops over the vector; two priorities give
a scan that a push can get behind; three jobs are two of one priority, whose
order can go wrong, and one of the other, which can also be the child of the
first. `MaxCalls` bounds the calls of each user other than `push`: three are a
start, a stop and something in between or after, and two each for two users.
`MaxSpurious` bounds spurious wake-ups, whose effect is that of one more round of
the loop.

*Backup.* Two jobs are a job and another beside it, or a job and its successor
made of recovered data; of two crashes the second meets a recovery. Three jobs
with one crash were checked once as well (8.4 million states).

*Logger.* Three messages of the levels below, at and above what is logged are
more than a file of two lines takes, and enough for a batch of two with a third
written meanwhile. Two sessions share a file; a change of day gives a second
one and makes the first one old with `LifeCycle = 0`.

*FileManager.* Three workers can each record a file of the transfer of three
before any of them checks the count, which is the worst case of the two critical
sections. The three workers are those of a session's default pool.

*Wire.* The longest message needs two writes and three reads; another consists of
the first byte of a start tag and of an end tag, so that a reader out of step can
take data for a tag; `MaxShort = 1` is one cut, with messages before and behind it.

*Connection.* Per end one message of its own, a file that must follow its start
message, and the handshake make up to four messages in one pipeline. The pool
of the passing run is the only kind that keeps order; the one with a worker for
each kind is the smallest that does not.

*Lifecycle.* Four calls are start, wait_stop, start, and a stop or wait_stop that
meets what the first wait left. Two sessions were checked once as well (237
thousand states).

*Codecs.* Three byte values and lengths of three bytes are enough for a length to
take more than one byte and for tokens that overlap themselves.

Deadlock is not checked: callers, writers and peers may stop for good, and then
the workers sleep. That nobody waits for ever is what `CallsReturn`,
`StopReturns`, `WaitingEnds` and `QueuedJobIsTaken` say instead.

### Fairness

Every fairness condition is weak and says that a thread which can take the next
step of a call it is inside, or of its loop, takes it: the operating system's
scheduler gives that much. In `Framing` and `Connection` these are the workers and
the io threads at either end; the client starts and the server accepts; a server
that was told of an expired session closes it, which is its handler's next step.
Nothing is assumed of callers (no command need be issued), of a job pushing
another, of spurious wake-ups, of the clock or of the network: a connection need
not break, and a signal need not come. The step of a thread that waits for a
mutex is enabled whenever the mutex is free, and weak fairness does not promise
the mutex to a thread that finds it taken again and again; the liveness
properties hold without that promise, since the threads that compete come to
rest. `TimeOut` of a `wait_for` is part of the logger thread's fairness, since time
goes on; that of `wait_stop` is not assumed.

### Findings

Two are runs of their own; the others are reproduced by the change named.

* `ThreadPool::stop()` can wait for ever (`pool_stop_deadlock`): it joins the
  workers under `mutex_` (`ThreadPool/ThreadPool.cpp:246`), and a running job that
  pushes a job needs that mutex in `notify_callback()` (line 267).
* The first message of a session can overtake the reply of the handshake, and
  the client then expires a healthy connection (`connection_overtaken`):
  `Network/NetworkClient.cpp:422`.
* `ThreadPool::stop()` can leave an accepted job in its queue: a worker that loses
  the race for a job leaves at `ThreadPool/ThreadWorker.cpp:166` without a look at
  its other queues. (`pool_lifecycle` with `TwoMixedWorkers` for
  `TwoUniformWorkers`: `StopDrains` is violated.)
* `Logger::stop()` can wait for ever with the default write interval:
  `Utilities/Logger.cpp:212` sets the flag and notifies without the mutex.
  (`log_sessions` with `MissedTheCall` struck out of `StopReturns`.)
* With libstdc++ every log file counts as two centuries old and is removed when
  a session starts or stops: `Utilities/Logger.cpp:486` subtracts times of two
  clocks. (`log_sessions` with `EpochDays = 74510` and `LifeCycle = 7`:
  `LoggerInv` is violated.)
* A file handled before the start message of its transfer is dropped, and the
  transfer is never reported: `Network/FileManager.cpp:65`. (`files_transfers` with
  the property `TransferReported`.)
* An end that expires while it handles the handshake is confirmed after it
  (`Network/DataHandler.cpp:300`): it has lost its key and its socket, sends in
  the clear, and a server may keep such a session. (`connection`: the disjuncts
  `revived` of `DataIsEncrypted` and `BreakIsTold`.)
* With a pool of several workers a session can send data in the clear: it is
  confirmed (`Network/NetworkSession.cpp:163`) before it makes its key, and a
  message whose encryption fails is sent as it is (`Network/DataHandler.cpp:711`).
  (`connection_overtaken` with the invariant `DataIsEncrypted`.)
* The refusal of a wrong key never leaves the session
  (`Network/NetworkSession.cpp:158`), and the server is told twice.
* A short write of a tag or a length leaves the reader out of step on an open
  connection (`Network/SendingJob.cpp:93`). (`wire`: `cut` in `Channel` and
  `AllArrive`.)
* A `stop()` can be taken by a promise that an earlier `wait_stop()` left
  (`Network/NetworkServer.cpp:265`, `NetworkClient.cpp:137`); sessions can be left
  running (`NetworkServer.cpp:603`); the server, and a client whose callback stops
  it, can wait for themselves (`NetworkServer.cpp:619`, `NetworkClient.cpp:148`).
  (`lifecycle`: `leftOver`, `late`, `Stuck` and `selfJoin` in the properties.)
* `uncompleted_jobs()` takes the files of live jobs (`ThreadPool/JobPool.cpp:95`),
  and `clear(priority)` and a refused `push()` leave files behind
  (`JobPool.cpp:60`). (`job_backup`: `exposed` and `left`.)
* `PostgresDB` adds a NULL field twice (`Database/PostgresDB.cpp:71`); read, not
  modelled.

## 5. What is proved

The proofs hold for every value of the constants that satisfies the assumptions
named in the modules (`JobPoolAssumption`, `WorkerAssumption`, `PoolAssumption`,
`LoggerAssumption`, `FileAssumption`, `FramingAssumption`,
`ConnectionAssumption`, `LifecycleAssumption`, `CodecsAssumption`,
`NoDataAssumption`), which ask for types, for distinct names, for messages whose
length the two bytes of `Framing` can hold, and for bytes of at least two values.
Where a theorem needs more it says so by name in its `ASSUME`.

* `ThreadPoolProofs`, types: `TypeCorrect`. `TypeOK` is not inductive, since a worker
  must have a job when it is at the label `run` and a pusher a job to push; the
  invariant `TypedControl` adds which labels each kind of thread can be at.
* `ThreadPoolProofs`, wake-ups: `NoWakeupLost`, `ThreadsAreMembers` and `PausedWorkerIdles`. A
  sleeping worker owes its state to the scan before: the invariant says of a
  worker that is scanning, for each queue it has already found empty, that every
  job in it belongs to a push that has yet to notify this worker. A pause or a
  stop takes the mutex of the worker and cannot come between the scan and the
  block, nor between the look at the flag and the pop; that is what makes the
  flags part of the invariant. The second theorem needs that `members` shrinks
  only after the loop of `remove_workers()` has joined every worker it will drop.
* `ThreadPoolProofs`, places: `NoJobLost` and `PoolRefines`. Each step moves jobs from one place
  to another or moves none, and the lemmas say which for each operation; what is
  added to `JobsAccounted` is that a job in the hands of a pusher is no longer
  fresh. From the places the refinement of `JobService` follows step by step: a
  `PushBack` is its queueing, `Take` its start, `FinishJob` its end, a `clear` its
  discarding, and everything else stutters.
* `ThreadPoolProofs`, stops: `ThreadsStayAlive`, `LockIsReleased` and `StopLeavesNothing`. The
  first says of each call under way which workers it has already taken down;
  every other member of a working pool is alive. The others are about the loop
  of `stop()` and ask for what makes them true, by name: `OneStopper` (one thread
  stops the pool), `NoHandLock` (no call locks it by hand), `NoRemoval` (no worker
  is taken out) and `Uniform` (all workers serve the same priorities). TLC has a
  counterexample when one is missing: of two stoppers the second finds a worker
  without a thread and leaves the lock behind; workers of different priorities
  lose the race of the finding below; a worker removed and another added leave
  jobs in a queue of the first. With them, a worker that leaves the loop with jobs
  in its queues has lost a race against another that is still in it.
* `BackupProofs`: `FilesAreOwned`, `SavedDataIsKept` and `DataRunsOnce`. `BackupIInv`
  says what a file holds at each step of the life of its job, and what
  `uncompleted_jobs()` has read but not yet removed. For `SavedIsKept` the
  invariant names, for each payload that was saved, its witness (a file, an entry
  that was read, a job that lives) and each step hands it on. For `RunsOnce` it is
  `OnceInv`: data is in one job, in one file or in one entry, in two of them only
  at the named steps, and data that can still run has run no more often than
  crashes have put it back.
* `LoggerProofs`: `StopFlushes`, `LoggerRefines` and `FilesAreKept`. The invariant says that a
  message inside `write()` is nowhere else, that as long as there is a thread
  the flag is up exactly while `stop()` waits for it, and that what was accepted
  before `stop()` stays in the list, in the batch or written; when the thread
  decides to leave the loop the list and the batch are empty, so all of it is
  written. `FilesAreKept` is `LoggerInv`, the types and the contents of the files:
  by induction over the lines of a batch, a file holds the last lines of its day,
  no more than `max_lines()`, whatever was rotated in between. It asks for
  `EpochDays <= 0`, that is for the files' clock not to be behind the system's in
  `check_life_cycle()`; with libstdc++ it is, the finding about the age of log files
  above.
* `DataProofs`, transfers: `ReportsOnce` and `ReportsWhole`. The two lists of a
  record hold distinct files of its transfer that were handled, so that their
  lengths are a cardinality, and equality with the announced count means that
  every file is in them. A transfer that was reported has no record, so a second
  completion job finds none.
* `ConnectionProofs`: `WrongKeyIsRefused` and `DataLeavesEncrypted`. `ConnectionInv`
  says what each priority's queue and each worker can hold at each step;
  `StaysOut` follows a wrong key: the session only works on what has come in, or
  on a refusal that its own expiry makes compression drop, so that nothing ever
  reaches the client and neither end is confirmed. For the encryption `SealInv`
  says that whatever is behind the encryption is sealed or part of the handshake
  (`DataSealed`), and that a confirmed end has its key or a worker about to make
  it (`HasKey`). The theorem asks for `OneWorkerFor({"High", "Normal"})`, so that
  this worker is the one that would encrypt; without it TLC has a counterexample,
  the finding about data sent in the clear above.
* `ConnectionProofs`, order: `OrderIsKept`, `ExpiryHasCause` and `OrderIsPromised`.
  What is on the way from `send()` of one end to the application of its peer stands
  in fourteen ranks: what the application was given, then a worker's job and
  a queue for each stage of either pool, with the socket between the pools.
  `OrderInv` says that the line of all ranks, read from the receiver back to the
  sender, is in the order of `send()`; it also needs to know that the files an end
  has yet to send are of messages it sent, each once (`FilesInv`). `HealthInv` adds
  what holds while nothing has ended the connection and the key is right: the reply
  of the handshake is in front of every message, and the conditions of both ends go
  with its place, so that no read finds an end unconfirmed (`ExpiresWithCause`).
  Each step moves one item over the boundary of two ranks, or drops some, or
  changes none, and a lemma for each of the three says that the line stays a line.
  The theorems ask for `InOrderPool`, the pool that `create_thread_pool()` makes for
  the counts (0, 0, 1): one worker for `Top`, and one for `Low` that also serves
  `High` and `Normal`. The run `connection_overtaken` shows that another pool will
  not do. From the line the refinement of `OrderedChannel` follows: what is handed
  over next is the oldest on its way.
* `FramingProofs`: `WireIsKept` and `StreamIsOrdered`. Until a write of a tag or of
  a length is short, the bytes on the wire are what is left of the frame being
  read, whole frames, and the part of the frame being written; `Clean` says so with
  a chain of byte strings, each a frame and the next, and that the state of the
  reader tells how much of its frame it has read (`HasRead`). Behind the first cut
  (`Past`) only the messages in front of it are spoken for, and when the connection
  broke and its bytes were lost (`Gone`) the reader has nothing left to read; these
  three make `FrameInv` inductive, and `WireInv` follows for any messages, buffers,
  cuts and breaks. `StreamIsOrdered` asks for `MaxShort = 0`, the hypothesis of the
  model's own `lossy`: what a reader out of step takes for a message depends on the
  bytes of the messages, so with short writes the refinement is checked on
  messages chosen to mislead it (`wire`) and cannot hold for all.
* `LifecycleProofs`: `TypesAreKept`, `FirstSignalIsHeard`, `NoSessionIsLeft` and
  `NothingIsLeftOver`. `SignalIsHeard` needs only that a valid future is that of a
  thread that waits, until a wait has ended (`HeardInv`). A session that runs is
  in `sessions_`, in the hands of the holder of `mutex_` or among the exceptions
  (`RunningInv`), and `sessions_` is covered by these whenever the server is down
  or somebody is past `drop_sessions()`. This needs `OneStarter`: a second
  `start()` may bring the server up between the two halves of the first. For the
  client (`TakenDownInv`) it is `OneUser`, one thread besides the callbacks of the
  worker: a third one that stops can lock the pool of a socket that a `start()` has
  just made. TLC finds both counterexamples. `NothingIsLeftOver` is
  `LifecycleInv`, so it asks for the stronger of the two.
* `DataProofs`, algorithms: `ArchivesKeepPrefixes`, `BlocksAreAllOrNothing`,
  `SplitsAreFields` and `SendsStopAtRefusal` hold of every input of `Algorithms`, not
  only of those that `MCCodecs` enumerates. A recursive function is a `CHOOSE`, so
  that first a function with its equations is shown to exist, and then that any such
  function computes what it should at each offset. For an archive: a length survives
  `ToBytes` and `ToLength` if it is below `Capacity`, where the digits of a number are
  compared with those of its quotient; an entry in front of the cut is found where
  the one before ended, and the one that the cut goes through is refused. For blocks:
  the first is the largest, so that either all of them fit the reader's or the first
  one already fails. For texts: the
  loop is at a `Boundary`, an offset that no token reaches over, and one turn of it
  contributes what the bytes it passes contribute one by one (`LoopIs`). For sends:
  the loop stops at the least index that refuses.
* `SequenceLemmas`: the range of `Append`, `Tail` and of a concatenation, sequences
  without repetition, and induction: the prover cannot instantiate an induction
  theorem whose parameter is an operator, but one about the set of numbers below
  which a claim holds, which has a least member outside (`Least`, `UpTo`), it can;
  `IteratesExist`, `DescentExists` and `GrowSequences` draw recursive functions and
  sequences from it.

Model-checked only: every liveness property (fairness is out of the prover's
reach), and the refinement of `OrderedChannel` by `Framing` with short writes.

## 6. What is not modelled

* In the modelled components: destructors (a `stop`), `std::bad_alloc`, titles and
  log messages, the null checks of smart pointers, the setters, which are called
  before a component is started; the console and the backup files of the logger
  (`file_backup_mode_` has no setter) and the life of its singleton; the
  conversion of a job's `int32_t` condition (`ThreadPool/Job.cpp:67`).
* Data races on pointers: `socket_`, `thread_pool_` and `FileManager::thread_pool_`
  are reset by `stop()` while workers use them, and `send_*()` iterates over
  `sessions_` with no lock. A reset is one step of the models, before or after a
  use; the hazards without a property in `PROJECT.json` name these places.
* A `NetworkSession` destroyed while handlers of its io thread are still queued,
  which hold a bare `this`, and the io thread's exceptions, which reset the
  io_context under everybody's feet.
* An exception out of `Encryptor` or out of a JSON parser: the job that met it
  fails and its message is dropped, as one that cannot be decrypted.
* Archives and compressed messages whose bytes were changed: the inputs of
  `Codecs` are what the encoder wrote, cut short or read with another block size.
  An empty token makes `split()` and `replace2()` run for ever and is no input.
* `Encryptor`, `File`, `FolderWatcher`, `JsonTool`, `Generator`,
  `SystemInformation`, `PostgresDB` and `Log` wrap libraries, the operating
  system or formatting and keep no protocol of their own; `ArgumentParser` is a
  map filled from `argv`; the samples are programs that use the toolkit.
