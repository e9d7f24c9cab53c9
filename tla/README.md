# Verification of Mnesia and of the C programs in the Windows Erlang bundle

The repository is a ready-made Erlang development environment for Windows: a
batch file, a few bundled tools, and under `src/xtools/erl5.8.2` a complete
Erlang/OTP R14B01 with the source of its applications. The program logic of its
own weight that can fail in ways a test does not reach is in OTP. This project models

* **Mnesia** (`mnesia-4.4.16`), the distributed database: the lock managers, the
  processes that run transactions, and the commit protocols;
* **the programs of OTP that are written in C** and are here with their source: the library
  for C nodes (`erl_interface-3.7.2`: registry, connections, codec, terms), the odbc
  port program (`odbc-2.10.9`) with the Erlang process that drives it, the memory trace
  tool emem (`tools-2.6.6.2`), and the uds driver of the distribution (`kernel-2.14.2`).

Paths below are relative to `src/xtools/erl5.8.2/lib`, and the Mnesia modules to
`mnesia-4.4.16/src`.

## 1. Inventory

| Part | State | Operations | Talks to | What is hard | What makes it correct |
|---|---|---|---|---|---|
| Lock manager, one per node (`mnesia_locker.erl`, lines 79-629) | four ets tables: held locks, locks per transaction, sticky tables, queue | lock requests (read, write, read_write, index read), test_set_sticky, stick, unstick, release, release of a dead node | transactions (requests, answers), mnesia_tm (releases), mnesia_monitor (node down) | a release retries queued requests in a loop; a queue per record and one per table; locks of the same process that are about to go | exclusion, no lost wake-up, one answer per request, tables that agree |
| Lock clients (`mnesia_locker.erl`, 107-137 and 650-1087) | the ets table "store" of the transaction: locks and nodes | rlock, wlock, rwlock, ixrlock, sticky locks | the lock managers of all replicas | several requests under way, late answers, sticky tables that move, being killed | isolation across replicas, answers matched to requests, nothing left locked |
| Coordinators (`mnesia_tm.erl`, 223-465, 530-620, 751-970) | transactions in progress and their stores | start, restart, abort, clean up a dead process | lock managers, participants | a restart keeps the identity of the transaction; a process may die anywhere | every transaction ends, all its locks are released |
| Commit protocols (`mnesia_tm.erl`, 1093-1118, 1312-1705, 2028-2049, 2179-2259) | votes, participants | read-only, sym, sync_sym and asym commits | mnesia_tm of the other nodes, mnesia_recover, mnesia_log | nodes that crash between the phases, mnesia_down racing with votes | all nodes reach one outcome |
| Decisions (`mnesia_recover.erl`) | decision tables, transient and logged | note, log, merge, ask other nodes | mnesia_recover of the other nodes | decisions that meet while both sides restart | a decision is never reversed |
| Monitor, controller, loader (`mnesia_monitor.erl`, `mnesia_controller.erl`, `mnesia_loader.erl`) | node states, table load queue | negotiate, mnesia_down, load and copy tables | everything else | order of mnesia_down through the servers, tables copied while they change | a loaded copy equals its source |
| Schema, log, dumper, checkpoints, subscriptions | disk | schema transactions, log and dump, retainers | disk_log | crash in the middle of a dump | a log is dumped once |
| Distribution (`kernel-2.14.2/src/net_kernel.erl`, `dist_util.erl`, `global.erl`, `pg2.erl`) | connections, names, groups | connect, register, join | every node | simultaneous connects, net splits | one connection, one name |
| Behaviours (`stdlib-1.17.2/src/supervisor.erl`, `gen*.erl`, `timer.erl`) | children, timers | restart, call, cast | any process | restart intensity, late replies | bounded restarts |
| Registry of a C node (`erl_interface-3.7.2/src/registry`, `mnesia-4.4.16/src/mnesia_registry.erl`) | hash table, objects, memory; the backup in a Mnesia table | set, get, mark, delete, purge, resize, dump, restore | a process of Mnesia for each dump or restore | memory that runs out, a connection that breaks, a transaction that aborts | the backup is a state of the registry, no block is freed twice or in use |
| Connections of a C node (`src/connect`, `src/epmd`, `src/misc` of erl_interface) | cookies, sockets, descriptor table, mutexes, error numbers | connect, accept, receive, send, remote calls, global names | epmd, other nodes | some twenty places where a handshake fails; threads; ticks; time limits | only who knows the cookie gets in, no descriptor is lost, the reader stays in step |
| Codec and ETERMs (`src/encode`, `src/decode`, `src/legacy`) | buffers, terms with reference counts | encode, decode, skip, peek, compare, build, match, free | - | limits of the formats, several functions that each know them all, shared terms | what is decoded is what was encoded; a term lives as long as it is referred to |
| odbc (`odbc-2.10.9/src/odbc.erl`, `c_src/odbcserver.c`) | control process with a pending request; two threads, statement, buffers | connect, query, select, commit, close | an ODBC driver | late answers, a driver that hangs, any driver call may fail | each caller gets its own answer, nothing hangs that has a limit |
| emem (`tools-2.6.6.2/c_src`) | table of blocks, figures, two queues | digest a trace | the emulator it observes | three threads, buffers used without the mutex, growing tables | the figures are those of the blocks, nothing is lost between the threads |
| uds driver (`kernel-2.14.2/examples/uds_dist/c_src/uds_drv.c`) | ports, socket files, lock files | listen, accept, connect, send, receive | the other nodes of the host | several system calls per callback, nodes that die between them, packets in parts | one listener per name, a new creation each time, packets arrive |
| TFTP, ssh, ssl, snmp, megaco, orber, compilers, tools, user interfaces | - | - | - | large, generated or sequential | not modelled |

`PROJECT.json` lists all of them with their status.

### How the parts of a transaction interact

A process that calls `mnesia:transaction` asks its `mnesia_tm` for an identity
(`start_outer`): a counter and a pid, whose order is the age of the transaction.
The function then runs in the process itself. A read asks one lock manager, the
one of the node the table is read from; a write asks all the replicas: its own
lock manager, then the first of the others, then the rest at once. A lock
manager grants, refuses (`cyclic`) or queues. It only lets a transaction wait
for a *younger* one, so waits never form a cycle; a refused transaction tells
`mnesia_tm` to clear its store, has all its locks released, waits for the
acknowledgements and runs the function again under the same identity. At the end the
process commits or aborts and the locks are released, by itself or by `mnesia_tm`
of the other nodes. If the process dies, `mnesia_tm` reads the store to find the
nodes it has to tell.

### How the C programs interact with the rest

A C node calls `ei_connect` or `ei_accept`; both ends prove to each other that they hold
the same cookie, and the descriptor is put in a table. From then on messages, ticks, remote
calls and their answers travel over one stream in each direction, encoded by the codec. The
registry is dumped to Mnesia through such a connection, to a process that applies the operations
in one transaction. The odbc application keeps one port program for each connection; its control
process lets one request through at a time and remembers, after a time limit, how many answers
are still to come that nobody waits for. The uds driver carries the handshake and the
packets of the Erlang distribution over sockets in the file system.

## 2. Plan

1. `MnesiaLocker`: the lock manager, open to any well-behaved client. *Done, with proofs.*
2. `MnesiaTransaction`: clients, mailboxes and coordinators around the lock managers of
   `MnesiaLocker`; the composition implements `MnesiaLocker`'s specification, which
   discharges the assumptions that module makes about its clients. *Done, with proofs.*
3. `MnesiaCommit`: all the commit protocols with one node that fails or a process that
   is killed, and the decisions of `mnesia_recover`; `AtomicCommit` (all or nothing) is the
   abstract specification that it implements. *Done, with proofs.*
4. The C programs: registry, connections, codec, terms, odbc, emem, uds. *Done,
   model-checked*; the handshake, the messages and the threads of a C node, the control process of
   odbc, the names of the uds driver and the queues of emem *with proofs.*
5. Left to model: the restart of a Mnesia node (`what_decision`, `wait_for_decision`, forced
   decisions) and a second failure, mnesia_down in a client that waits for locks, nested
   transactions, table loading; the connection handshake of net_kernel and dist_util, pg2,
   the supervisor's restart intensity and the TFTP engine.

Each module takes its parameters as CONSTANTS with named assumptions, and has one
action per message, function or callback. Modules that are proved about declare no RECURSIVE operator.

## 3. Modules

### MnesiaLocker

| TLA+ | Code |
|---|---|
| `held`, `tidLocks`, `stickyAt`, `lockQueue` | the four ets tables |
| `job` | the call stack of `do_release_tids`: transactions still to be released, items to be rearranged, waiters to be tried, who is to be answered |
| `replies` | answers sent and not yet received, at most one per transaction |
| `RequestLock`, `TestSetSticky`, `Stick`, `Unstick`, `ReleaseTid`, `SyncReleaseTid`, `ReleaseRemoteNonPending` | the clauses of `loop/1` |
| `CanLock`, `CheckWaiters`, `CheckQueue` | `can_lock`, `check_lock`, `check_queue` |
| `ReleaseNext`, `RearrangeQueue`, `TryWaiter`, `ReleaseDone` | the steps of the release loop, in the code's order: items in an arbitrary order, the waiters of an item youngest first |
| `AskLock` ... `Receive` | the environment |

A transaction is a number, its place in the order of age. Values of records are
left out; that a lookup fails because the copy of the table is gone is a choice,
for the tables in `Volatile`. While a release is under way the process takes no
message (`Busy`); its steps are separate because each of them may send an answer.
`mnesia_tid_locks` keeps the `queued` entry of a request that was granted later, as
in the code. The environment assumes of a client that it has at most one request under way at a lock
manager and that a process does not go back to an earlier transaction (`Idle`).

### MnesiaTransaction

| TLA+ | Code |
|---|---|
| `client[p]` | the process: place in the code, store (`nodes`, `locks`), call in progress |
| `mail[p][n]` | messages from p to the lock manager of n, in order |
| `ended[n]` | transactions `mnesia_tm` at n has been told to finish and whose locks it will release |
| `Begin` | `start_outer` |
| `Call`, `Continue`, `AskNext` | rlock, wlock, rwlock, ixrlock and the sticky calls: need_lock, then the requests in their stages, each noted in the store |
| `GetAnswer`, `Answered`, `Resumed` | `receive_wlocks`, `sticky_flush`, `flush_remaining`, `do_sticky_lock`, `rlock_get_reply` |
| `RestartTransaction`, `GetAck` | `restart`, `receive_release_tid_acc` |
| `Abort`, `Commit` | `return_abort`; `multi_commit` as one step |
| `KilledWaiting`, `KilledSending`, `KilledRestarting` | the process is killed; `handle_exit` and `recover_coordinator` tell the nodes of the store |
| `Deliver`, `ReleaseEnded`, `LockerStep` | a lock manager takes a message, with the action of `MnesiaLocker` |

The variables of `MnesiaLocker` are shared, so `LockersRefined` is just
`MnesiaLocker`'s `Spec` as a temporal property of the composition. A switch answer and
a refusal put the process on the same path as in the code: the other answers of
the call are waited for and thrown away (`skip`). Messages between two
processes keep their order; messages of different senders do not.
`ReleaseEnded` waits for the messages the process itself sent to that node, because
they travel over the same connection.

### MnesiaCommit and AtomicCommit

| TLA+ | Code |
|---|---|
| `coord` | the process in `multi_commit`: place in the code, the nodes it waits for, those that voted yes, the result so far, `mnesia_down` messages in its mailbox |
| `part[n]` | the participant record of `mnesia_tm` and, for asym_trans, the process `commit_participant` |
| `asking[n]` | `mnesia_tm` inside `tell_outcome`: it takes no message until everybody has answered |
| `decision[n]` | the decision table of `mnesia_recover` |
| `applied`, `undone` | `do_commit` and `do_abort` have run at a node |
| `ReadOnlyCommit` ... `ReturnAbort` | the steps of `multi_commit`, between two messages or decisions |
| `TakeAskCommit` ... `Forget` | the messages of `mnesia_tm`, and the participant |
| `CoordinatorDown`, `ParticipantDown`, `CoordinatorDied`, `RecoverCoordinator` | `reconfigure_participants`, `reconfigure_coordinators`, `handle_exit`, `recover_coordinator` |
| `ImCertain` | a decision told by another node |
| `Crash`, `Kill` | a node fails and loses the tail of what it has sent on each connection; the process is killed |

The five protocols are those of `multi_commit`; `schema_trans` is an asym_trans with schema
operations, which can be refused and are acknowledged. One transaction is committed, with
its locks on all nodes; every node has a directory for its log. The records and the
log itself are left out, a decision is one of unclear, aborted and committed. `overtaken` is a history
variable: it becomes true when a `mnesia_recover` answers for its node while a word of the process to commit is unread
there. `TellAndGo`
sends one message after the other, so the process may be killed (`"telling"`) when it has
reached some of the nodes. `AtomicCommit` has four actions (fail, refuse, make the updates, go without
them); the refinement maps a node that is up to one that is alive and forgets messages,
participants, locks and decisions.

### The registry of a C node: EiRegistry, EiRegistryBackup

| TLA+ | Code |
|---|---|
| `tab`, `obj`, `objfree`, `heap` | the hash table with its chains and free lists, the objects, the memory of strings and binaries |
| `ei_reg_setival` ... `ei_reg_purge`, `ei_reg_resize` | the functions of these names |
| `ei_reg_dump`, `ei_reg_restore`, `Client` | the two calls in the C node, message by message |
| `Server` | `mnesia_registry.erl`: the process that collects and applies the operations |
| `Break`, `Reconnect` | the connection is lost, the program opens another |

A key is a name, a value a model value; what matters of a block is who owns it. Memory may be missing for an object, a
bucket, a table and a message. A binary of size 0 is backed up as its address, and `pointed` remembers that a restore has
put such an address back which is not the one the object has.

### The connections of a C node: EiHandshake, EiMessages, EiThreads, EiErrno

| TLA+ | Code |
|---|---|
| `call` | where a thread is in `ei_connect_tmo`, `ei_accept_tmo`, `ei_publish` or `ei_unpublish` |
| `sock`, `info`, `epmd` | sockets with what is on the way, `ei_sockets`, the name at epmd |
| `wire`, `stream`, `req` | chunks on the way and arrived, and the call that reads or waits |
| `ei_receive_msg_tmo`, `RemoteCall`, `Global`, `ei_send_encoded_tmo` ... | receiving, `ei_rpc`, `global_*.c`, sending |
| `holder`, `inside`, `static`, `look` | mutexes, the resolver's static result, the look-up of each thread |
| `place`, `fallback`, `errno` | `__erl_errno_place` |

A thread is inside a mutex (`inside`) when it was *told* so, whatever the semaphore says (`holder`).

### The codec and the terms: EiEncode, EiDecode, EiTerms; EtMarshal, EtCompare, EtTerms; EtHeap, EtFormat, EtProgram

Encoders and decoders are operators on sequences of bytes, with integers as a sign and the bytes
of a magnitude, so that the limits of every format are reached without large numbers. `EiTerms` is a
writer whose buffer grows and a reader that tries every decoder on every term; `EtTerms` does the same for the old
interface and steps over, looks into and compares messages. What a function is known to get wrong is no guard of these
actions: each of them runs on every term, and the property names the exception (`Faulty`, `Overjumped`, `Crooked`;
section 6). `EtHeap` has the reference counts and the
free list, `EtFormat` the parser of formats and the matcher, `EtProgram` a program that uses them and
counts the references it was given; `lost` has those that the library dropped without counting them down.

### odbc: OdbcServer, OdbcControl

| TLA+ | Code |
|---|---|
| `state`, `threads` | `db_state` with the statement, columns and cursor; the two threads of `odbcserver.c` |
| `database_handler`, `Communicate` | serving a request; reading the port and stopping the program |
| `ctl`, `box`, `cl` | the state and the mailbox of the control process, the owner of the connection |
| `Control`, `Down`, `OwnerCalls`, `StrangerCalls` | `handle_call`, `handle_info` with its time limits, the port's exit, the clients |

A call of the driver either succeeds, fails or hangs; a request names the calls it makes.

### emem: EmemTable with BlockMap, EmemInfo, EmemQueue

`EmemTable` is the hash table of live blocks, with its one list and its growing and shrinking buckets;
`BlockMap` is the map it implements, with a crash of its own. `EmemInfo` keeps the figures per allocator and block type, counts
the values that a line shows (not its characters), and reduces sizes through a variable that is narrower than they are (`prev_size`); `EmemQueue` are the three threads and their two queues. The reader of a queue drops at most one buffer
that it has read (`DropRead`): the loop of `get_next_read_area` has no second round, since the next buffer has data or
is being written (`OneToDrop`, a part of `QueuesSound`).

### The uds driver: UdsPorts, UdsStream

| TLA+ | Code |
|---|---|
| `pd`, `step`, `waits` | `UdsData` of each port, where it is between two system calls, what it has selected |
| `bound`, `locked`, `serial` | the socket files, the locks, the creation in the lock files |
| `uds_command_listen`, `ListenBind`, `uds_stop`, `StopUnlink`, `StopUnlock` ... | the callbacks, one action for each system call another node could see |
| `uds_command_accept` | accepts on the number of a descriptor, which may by then be that of any port |
| `Crash`, `uds_finish` | a node dies, the driver is unloaded |
| `uds_output`, `uds_input`, `CommandSend`, `SetData` ... | the packets of a connection through command, intermediate and data mode |

### Modules that run them

`MCLocker`, `MCTransaction`, `MCMenus` and `MCCommit` hold the instances of the Mnesia modules, `MCOdbc` the
requests of odbc. `MCData`, `MCConnection`, `MCPorts` and `MCEmem` each run several parts that
share no state, one of them in each behaviour (the variable `part`). `Nil` declares NULL.

## 4. Runs

All runs finish within five minutes on two workers. Everything is finite by the constants; counters
of calls, opens, crashes and failures are bounds in the guards. `CHECK_DEADLOCK FALSE` is there in runs whose
systems may stop: all transactions have ended, all calls have been made. `Locker.cfg` alone has an
action constraint, `Within`: what it cuts off is covered by the theorems.

| Run | Question | Size |
|---|---|---|
| `locker` | Do the tables agree, is each request answered once, does each release end, with sticky tables, lost tables and nodes that go down? Exclusion, wake-ups and order between a table and two of its records? | 2 transactions on 1 record and its table, or 3 on 2 records |
| `tx` | Isolation, termination, and the refinement of `MnesiaLocker`, for plain calls and for sticky ones | 2 nodes, 2 replicas, 2 calls each; 69,509 states |
| `tx_remote` | Several requests under way at once, index reads, kills between two requests and in a restart: answers matched, stores true | 4 nodes, 3 replicas; 176,038 states |
| `tx_killed` | The release of one transaction while the next one runs, kills, lost copies, sticky records: nothing left behind | 2 nodes, 3 transactions of 2 processes; 1,812,266 states |
| `commit` | All protocols, one failure anywhere: agreement, decisions, locks, progress, and the refinement of `AtomicCommit` | 3 nodes |
| `data` | Codec, ETERMs and their heap, registry and backup | some 70 terms in messages of two, programs of 6 steps, 2 keys in tables of 1 and 3; 759,233 states |
| `connection` | Handshakes of two threads, messages and calls, mutexes and look-ups, error numbers | 2 descriptors, 2 connects, 2 challenges, 2 calls, 2 messages; about 810,000 states |
| `ports` | odbc; names and ports of the uds driver; its packets | 4 calls of one of 5 menus; 4 ports on 2 nodes, one crash; 2 packets each way over 9 bytes; 403,937 states |
| `emem` | The table is a map; figures; queues; the program ends | 3 blocks of 2 sizes and types, table sizes 2, 3, 10; traces of 3 and 4 operations; 299,924 states |
| `tx_stick`, `commit_race`, `odbc_pending` | *violations*, see section 6 | |

Why these bounds: every branch of `can_lock` needs at most three transactions (a
holder, a waiter, a newcomer) and two items that overlap (a record and its table,
or two records of one table). A write meets another write at the first common
replica, so two nodes show the interleavings of two writers; three replicas are
the least that have several requests under way; a fourth node without a
replica shows the remote reader. Two calls are enough for an upgrade from read
to write and for holding one lock while waiting for another. A commit needs three nodes, so
that one that knows the outcome and one that does not can be left when a third one has failed.

The parts of the C programs are bounded by the branches of their code: a table of one position has collisions
and one of three has none; a packet of six bytes and a socket of nine leave packets in parts in both places; two messages are enough
to mistake the end of one for the beginning of the next; two threads to disturb each other; and the sets of faults
(`MayFail`, `DFaults`, `PFaults`, `IFaults`, `TFaults`, `QFaults` and those of `MCConnection`) name each failing call that
the modules have. The figures of emem use sizes 3 and 20 where `prev_size` holds less than 16, and words of 128; the three blocks
of its table hash so that buckets are shared before and after it grows, and it shrinks around blocks that stay. The second challenge is drawn only by the server, for the second connect (`Shaking` in `MCConnection`):
enough for an answer to an earlier challenge to be told from one to the present. `Data.cfg` takes the places of the heap as interchangeable.

`commit` restricts the environment in three named ways. `MaxFailures = 1`: with a second failure
`DecisionKept` fails. The recovery of a killed process has asked everybody and heard of no outcome; then a participant
commits and its node fails; word of that still reaches the local `mnesia_recover`, and the recovery notes its abort over
the commit. `Prompt = TRUE`: no question overtakes the word of the process, that is, `mnesia_recover` does not answer for a node
where a `do_commit` or `committed` of the process is unread. The code does not ensure this, and `commit_race` is what happens
otherwise; the theorems do without it and say what holds until then (section 5). `KillAt` leaves out two places (`KillPlaces` in `MCCommit`), see section 6.

### Properties and why they are worth a run

* `LockExclusion`, `Isolation`: the first is about one lock manager, the second about
  what transactions believe they have, across replicas, while locks are granted one by one.
* `NoLostWakeup`: every waiter waits for somebody whose release will retry it.
* `Tracked`, `AcquiredIsHeld`, `NothingLeftBehind`: the three bookkeepings (lock
  table, per-transaction table, store of the client) agree, so that every lock is released.
* `OneAnswer`, `AnswersMatch`: no answer is doubled, lost or taken for another one.
* `YoungestFirst`, `ReleaseEnds`, `TransactionsEnd`: order (of those who wait in the same line), progress, absence of
  distributed deadlock and of livelock between restarts.
* `Agreement`, `CommitIsAtomic`: no two nodes that stay up end a transaction differently,
  whoever takes over from the process that died, and nobody commits what one has refused.
* `DecisionKept`: a decision is written by three parties in two tables; a commit stays, and an abort never becomes one
  (that an abort stays is not so, see section 6).
* `AppliedUnderLock`: `mnesia_down` reaches the lock manager after the transaction manager, and only
  transactions without a participant lose their locks; so updates never come after the release.
* `CommitEnds` (`LocksAreReleased`, `UpdatesSpread`): nobody is left uncertain or waiting, and a commit reaches all that live.
* `LockersRefined`: the composition satisfies what `MnesiaLocker` and the theorems about it assume.
* `TermsSound` (`CodecSound`, `EtermsSound`), `HeapSound`: round trips at the limits of the formats, four functions that must
  agree about the end of a term, an order that is one, references that are counted, each with the exceptions of section 6.
* `RegistrySound`, `BackupTrue`: the table stays whole and no block is freed twice or while an object points to it when any
  allocation fails, until a restore brings a pointer back (that blocks are lost is in section 6); the backup only goes from
  one state of the registry to another, and success is reported when it is one.
* `Authenticated`, `DescriptorsSound`, `MessagesSound`, `TokensPassedOn`, `CallsSound`: peers agree on cookie and challenges,
  every open socket has one owner whatever failed, the reader is never in the middle of a message between two calls, a
  trace token goes on with the message that answers one, and calls return.
* `MutualExclusion`, `LookupsSound`, `CopyExact`, `ErrnoPrivate`: what one thread is told is not another's.
* `AnswersOwn`: the answer is the caller's own, however many came late.
* `DriversSound` (`OdbcSound`, `StreamSound`): every statement is freed, decimals fit their buffers and answers are
  one term each whichever call of the driver fails, but for those of section 6; counters, buffers and selected events of a socket agree.
* `NamesSound`: one listener per name between any two system calls and after crashes.
* `PortsPromise` (`OdbcPromise`, `UdsPromise`): rows come in order, a call with a limit ends, a port program whose owner is gone
  ends even when its driver hangs; creations are new, and packets arrive.
* `FiguresSound`, `QueuesSound`, `IsBlockMap`, `EmemEnds`: figures recomputed from the blocks, buffers
  never used by two threads, a table that is a map while it is resized (a crash can only be in one that has never held a block), threads that wake each other.

### Fairness

`MnesiaLocker`: weak fairness of the release loop, a process that is never
blocked. `MnesiaTransaction`: weak fairness of each process and of each lock
manager's loop; strong fairness of `Deliver` and `ReleaseEnded`, because a lock manager is
repeatedly busy with a release while a message waits in its mailbox, and Erlang
mailboxes are served in order: a waiting message cannot be passed over for
ever. Users' functions end (MaxCalls) and are fair; nothing is assumed about
`Begin` or about kills. `TransactionsEnd` is claimed for runs without kills.
`MnesiaCommit`: weak fairness of the process, of each `mnesia_tm`, participant, `mnesia_recover` and
lock manager, none of which waits for anything but a message; the network delivers what is sent between nodes
that stay up, and a failure of a node is noticed by all. Nothing is assumed about failures.
In the C programs a process or thread that can go on does; what has been sent arrives; a driver or a socket that was asked
answers, unless it hangs, which the models allow wherever the code has a time limit against it. Weak fairness is written out there as
`[]<>~Can \/ []<><<Step>>_vars` with the enabling condition `Can` as an operator, because `ENABLED` of
those actions is out of TLC's reach. Of emem's receiver it is assumed in addition that `recv` is not interrupted for ever while
there is data to receive; a trace that is cut off after an interrupt is asked for without end, which `EmemEnds` names.

## 5. Theorems

The theorems hold for every value of the constants that the named assumptions allow; TLC evaluates
these assumptions in each run. Each of the invariants below was checked by TLC on the instances of the runs before it was proved.

### MnesiaLockerProofs: the lock manager

* `TypeCorrect`: `Spec => []TypeOK`.
* `Exclusion` and `Bookkeeping`, from the invariant `LockInv == TypeOK /\ LockExclusion /\ Tracked`.
  Neither conjunct is inductive alone: a released write lock deletes *every* lock of its item, which
  keeps `Tracked` only because exclusion says there is no other; and a new lock is compatible with
  the held ones because `can_lock` looked at exactly those that overlap.
* `AnsweredOnce`, from `AnswerInv`, which adds to `OneAnswer` that the waiters a release still has to try
  are those of the queue and that the transactions to be acknowledged have no other answer under way.
* `WakeupsAreNotLost`, from `WakeInv`: while a release runs, each waiter is woken by some
  transaction's registration *or* is still due in the loop; when the loop is empty, only the first remains. The
  hard case is `TriedAfterQueued`: the waiters dropped from the loop behind one that stays
  queued are woken by that waiter or by its cause.
* `ServedInOrder`: `YoungestFirst`, from `OrderInv`: behind a waiter that is still to be tried nobody younger of the same
  item or of its table has been left out. For a new *writer* of a record the order does not hold, see section 6.

### MnesiaTransactionProofs: processes and lock managers together

Assumptions besides those of the lock manager: every node has one and there is a table (`MnesiaAssumption`), the nodes a
table is written at contain every node it is read from (`ReplicaAssumption`), and calls have the form of `CallsAssumption`.

* `TxInvariant`, `TxTypes`. `TxInv` joins the invariants of the lock managers with `ProcessInv`: a mailbox holds the
  messages of one process in the order of its transactions and at most one request of each (`MailOrder`, `Ages`); a process
  awaits a lock manager exactly when its request is in the mailbox, in the queue or answered (`Awaits`), and then
  nothing else is owed to it (`OnlyRequest`); a transaction in progress is not being released (`NotReleased`).
  It holds with sticky calls and with processes killed anywhere.
* `LockersSimulated`: every step of the composition is a step of `MnesiaLocker` or leaves its variables alone. This is
  where `MnesiaLocker`'s assumption about clients (`Idle`) is discharged. So `LockersKeepPromises`: exclusion, bookkeeping, one
  answer and no lost wake-up hold of the whole system.
* `AnswersMatched`: `AnswersMatch` follows from `Awaits`.
* `StoreInvariant`, `StoreIsTrue`, `Isolated`, under `Plain` (the functions make no sticky calls). `StoreInv`: while a
  write goes from replica to replica, the lock is in force at each node that has granted it, and when the call is over at all
  of them. Two transactions therefore meet at a common replica, where `LockExclusion` forbids what `Isolation` does.
  `Plain` is needed: `tx_stick` shows that sticky tables break isolation.
* `FollowInvariant`, `NothingLeft`, under `Kills \subseteq {"waiting"}`. `FollowInv`: whatever a lock manager keeps for a
  transaction is in the store of the process or followed by its release (`LocksFollowed`); so is a request on its way
  (`RequestsFollowed`), and what is registered when the acknowledgement is awaited is about to go (`Cleared`). The
  hypothesis is needed: a process killed between sending a request and noting the node, or within a restart, does leave locks (section 6).

### MnesiaCommitProofs: the commit protocols

`CommitTypeCorrect` holds without conditions. The others are for any number of nodes, any set of protocols and any places
where the process may be killed, with one failure (`MaxFailures \leq 1`; `DecisionKept` fails with a second one). None of them assumes
`Prompt`: questions may overtake the word of the process as they do in the code, `overtaken` says that one has, and each statement
says what that does to it. `commit_race` shows that after it nothing can be promised when the node of the process fails.

* `CommitInvariant`: `CmSpec => [](overtaken \/ CommitInv)`. `Agreement` is about what nodes end with; it is not inductive,
  because what they end with depends on votes, messages and answers on their way. The invariant follows one moment
  (`Decided`): the process tells the first node to commit. Before it, no node has a trace of a commit (`Early`,
  `Voted`, `PreCommitted`: a node is counted as voting yes, or as uncertain, only when it is). After it, no node has a
  trace of an abort (`AfterDecision`), and who is told "committed" is told so of a decided transaction (`ToldTrue`).
  The hard part is the failure between the two: the survivors ask each other and abort when all answer "unclear". `SomebodyKnows`
  says that after the decision they cannot all do so: when the process or its node is gone, somebody who is up has the
  decision on record or on its way to him (`Knows`), and each node that asks has heard "committed" or has still to hear from
  one who knows. For this no single failure may take the only trace of the decision (`Untroubled`).
* `CommitAgreement`: `CmSpec => [](overtaken \/ Agreement)`, from `CommitInv`.
* `CommitAgreementAlive`: `CmSpec => [](Alive => ~overtaken /\ Agreement)`. While the process and its node live nobody else asks, so
  nodes that fail, and messages in any order, do not make the others disagree.
* `CommitImplementsAtomic`: `CmSpec /\ []~overtaken => CommitIsAtomic`. Each step is one of `AtomicCommit` (`ApplyIsAtomic`, `GiveUpIsAtomic`) or
  leaves its variables alone. Together with the first theorem this says that nothing is committed that a node has refused.
* `CommitDecisionKept`: `CmSpec /\ []~overtaken => DecisionKept`. With updates, by `AfterDecision`; where a transaction has only read, by
  `ReadDecision`: only the process and its recovery have an opinion.
* `CommitUnderLock`: `CmSpec /\ []~overtaken => AppliedUnderLock`, if the process is not killed between `release_tid` and `delete_transaction`
  (`"released" \notin KillAt`; section 6 says what happens there). `LocksHeld`: a node that is up and has given the
  locks away before the decision has no updates to make any more; after the decision it has made them.

### EiThreadsProofs: threads of a C node

`OneThreadInside`, `AnswersAreOwn` and `ErrnoIsPrivate`, for any number of threads, mutexes and hosts. The first two are
about programs that use the library as its own sources do: each call of `ei_mutex_lock` blocks (`NonBlocking \subseteq {0}`), and the
resolver is initialised before it is shared (`EarlyInit`). Without the first, a busy mutex is reported as taken
(section 6); without the second, two threads may create the resolver's mutex twice. The invariant
puts a thread that looks up a host inside the resolver's mutex from `find` to `unlock`, so the static result is its own when it copies it.

### EiHandshakeProofs: connections of a C node

`HandshakeInvariant`, `PeersAuthenticated` (`Authenticated`) and `DescriptorsAreSound` (`DescriptorsSound`), for any number of threads, descriptors,
connects, challenges, settings of the two nodes and faults. `Authenticated` speaks of a call that has ended; what it ends with rests on
packages that were sent long before. `HInv` therefore says of each package that nobody has read yet what its sender was when it sent it
(`Packages`), of the two calls on one socket how far each may be ahead of the other (a reply is on its way only when the
challenge it answers has been read), and that the digests on the way are those of the challenges of these two calls and
of no earlier connection on the same descriptor. `DescriptorsSound` needs that each open end of a socket has one owner in every step
of a call (`Owned`), the failing ones included, and that a stale entry of the table is replaced before the descriptor is handed out (`Recorded`).

### EiMessagesProofs: reading and answering

`MessagesInvariant`, `MessagesAreSound` (`MessagesSound`) and `TokensArePassedOn` (`TokensPassedOn`), for any number of calls, messages and ticks.
The parts of `MInv`: the chunks that are on their way or have arrived follow one another as those of whole messages (`Framed`); the first of
them is the one the reader waits for (`InStep`), also after a time limit has stopped it inside a message, which `slipped` records; what
`tracing` says is true of the message in hand (`Traced`); on a connection that has carried one call each message
is its answer (`FirstAnswer`); and ticks are answered one by one (`TicksAnswered`, `Ticked`). `MessageConstants` has NULL apart from all
that a call can return.

### PortsProofs: the control process of odbc, the names of the uds driver

`OneRequestInvariant` and `AnswersReachTheirCall` (`AnswersOwn`), for any requests, outcomes, limits and numbers of calls. `OwnInv`: while the process lives, one
request is with the port program (`UnderWay`), and it is that of the call to be answered or its answer will be thrown away (`Due`); the
owner has one call, in the mailbox, set aside or to be answered (`ItsCall`, `InBox`). The theorems have the hypothesis `~Intrude`: nobody but the
owner calls while a call of the owner is under way. It is needed (section 6). `MenusAssumption` has each request carry a number of its own, by which
the model tells answers apart; the code has no such number.

`NamesAreSound` and `CreationsAreNew`, for any number of ports, names, nodes, opens and crashes. `NamesInv`: a listener holds the lock of its name
from before it binds until after it has removed its file (`NamesLocked`), so a file that is found is that of the
one listener; partners refer to each other (`Partnership`).

### EmemQueueProofs: the queues of emem

`QueueInvariant` and `QueuesAreSound` (`QueuesSound`), for traces, buffers and limits of any size, any buffers that cannot be allocated, and
failing calls anywhere. `QueueConstants` says that a buffer holds at least what is asked of it for one receive and that the limit has room for one buffer.
What a queue holds is said of a witness (`Holds`): a number `base[i]` for each buffer, such that its k-th unit is the unit `base[i] + k` of all that was
ever put in, and each base follows from the one before it. From this and the two ends of the queue (`Positions`) it follows that what is read next is what comes next,
although a buffer is reused for other units as soon as it is dropped. The areas that the threads use without the mutex are tied to the ends: the
reader's is what it has been handed of the first buffer (`Reading`), the writer's begins where the last one was published
(`Writing`); so they are apart even in one buffer. `BuffersOk` says that only the last buffer is written to and that the others have data, from which
`OneToDrop` follows. For the whole of the trace to be written, `Endings` tells who knows of whose end: a queue is without its writer only when everything
has been published, and the program ends only after the writer of the output has ended.

### What is only model-checked

Liveness (`ReleaseEnds`, `TransactionsEnd`, `CommitEnds`, `EmemEnds`, `CallsSound` and the parts of
`PortsPromise` that are about progress), the fairness part of `LockersRefined`, and all that is
computed by recursion over data (codec, terms, registry, figures, the table of emem, whose resizing links the
blocks again one by one, in `IsBlockMap`, the packets of `StreamSound`, the statement and columns in
`OdbcSound`, `CopyExact`): neither is in the reach of the
provers. Of the commit only progress is left to TLC.

## 6. Findings

Three runs show the code do what its own comments exclude:

1. `tx_stick`: making a table sticky takes a lock on one record only, yet it changes who grants
   the locks of all of them; a reader of another record at another node is overrun.
2. `commit_race`: the question about the outcome of a sym_trans is answered by `mnesia_recover`, while
   the `do_commit` that decides it may wait in the mailbox of `mnesia_tm`; one node aborts and the other commits.
3. `odbc_pending`: a request that waited for a late answer and needs none of the port program stops the
   control process.

The modules state further sentences of the sources that the models violate; each can be seen by
giving the named definition to TLC in place of the properties of the run in brackets:

* `WreadReads` (`tx`): `rwlock` on a table stuck at another node returns `undefined` instead of a record
  (the value of `receive_wlocks` after a switch answer of the own lock manager).
* `NothingLeftBehind` with `Kills = {"sending"}` or `{"restarting"}` (`tx_killed`): a process killed between
  sending a request and noting the node, or between the two messages of a restart, leaves locks at remote nodes.
* `MarkersAgree` (`commit`): participants of an asym_trans that are all uncertain
  abort at once, although the node that failed may have its committed marker in the log; the comment has them wait for it.
* `DirtyIfDiffers` (`data`): "dirty bit (object value differs from backup)" in `ei.h`; a restore takes the mark from
  every object, those the backup does not have included, and the next dump passes them over.
* `TermLenEnough` (`data`): `erl_term_len` is a byte short for a function of the new kind.
* `EveryDescriptorSaved` (`connection`): a connection is handed out although there was no memory for its entry in the table.
* `BusyIsToldApart` with `NonBlocking = {0, 1}` (`connection`): `ei_mutex_lock` with `nblock` reports success for a
  mutex that is busy.
* `BlocksOwned` with `BinSize = {0}` (`data`): a binary of size 0 is dumped as its address (`reg_dump.c`, 213-215), closing frees the
  block, whatever its size (`reg_free.c`, 36), and a restore puts the address back (`reg_restore.c`, 194-198); purging the object or closing
  frees the block once more. The comment there calls it "just a pointer to nothing", and `ei.h` (618-620) warns that pointers cannot be recalled.
* `NothingLost` (`data`): a value of size 0 that is replaced is not freed (`reg_setp.c`, 41-44, and the other set functions), although
  purging and closing free it; when there is no memory for a bucket, `ei_hash_insert` fails, its result is not looked at, and the object is
  forgotten while the call returns 0 ("On success the function returns 0", `ei.h`, 624); a restore that gets no object for a record forgets
  the block it has decoded.
* `NothingDropped` (`data`): the parts of a function that is freed with `erl_free_term` are not counted down (`erl_malloc.c`, 178-191), and
  a format that goes wrong behind its first element forgets the elements it has made (`erl_format.c`, 436-447 and 450-459). `DropsNamed`, which holds,
  says that terms are dropped in no other way.
* `EiTermDecoded` (`data`): `ei_decode_ei_term` does not step over the name of the node of a port (`ei_decode_term.c`, 87-94): it reads the number
  out of the name and leaves the index inside the term, where its comment has "the index will be incremented, and the term contains the
  decoded term" (27-29). Likewise `ei_decode_ref` reads the first three words of a reference and does not step over the
  others (`decode_ref.c`, 79-86). `Faulty` is the exception that `TermsSound` makes for these two and for nothing else.
* `JumpsPast` (`data`): `jump` ends four bytes behind a function of the new kind, whose size counts itself, and one byte before the end of a big, whose
  sign it forgets (`erl_marshal.c`, 1331-1342), where its comment has "MOVE the POINTER PAST the ENCODED ETERM" (1242-1245); peeks at what
  follows such an element go wrong with it. `Overjumped` is the exception in `TermsSound`.
* `ComparesAll` (`data`): any int is less than any big for `erl_compare_ext`, since two bytes are taken for two digits (`erl_marshal.c`,
  1755-1760); so -2^31 as `erl_interface` encodes it is less than -2^31 as the emulator does, where the comment has "0 if e1 == e2" (1959-1963).
  `Crooked`, the exception in `TermsSound`, names the other pairs that the code orders by a rule of its own as well: bigs of two
  sizes, a list and one that continues it, tuples with small and large headers, and functions.
* `SizeCoversBlock` (`emem`): a reallocation that failed is counted with the size that was asked for, while the
  block keeps its own; the assertion in `update_free_op` fails when that is freed.
* `SizesTrue` (`emem`): the size of a block that is freed or reallocated goes through a variable of 32 bits (`prev_size`,
  `erl_memory.c`, 1615 and 1662); what it does not hold stays in the figures.
* `NothingMisfreed` (`emem`): when the table of blocks or one of the arrays of figures cannot be allocated, `complete_state` returns before it
  moves up the pointers of the arrays (`erl_memory.c`, 2039-2048), and `destroy_state` moves them down and frees in front of them (1365-1372).
* `NeverDivides` (`emem`): a free or a reallocation in a table that has never held a block is taken modulo its 0 buckets
  (`erl_memory_trace_block_table.c`, 417) instead of being refused as "Deallocation of non-existing block".
* `NewSizeKnown` with `table_sizes` of 1, 2 and 3 in `MCEmem` (`emem`): `grow_table` admits an index behind the last size.
* `AnswersOwn` with `Intrude = TRUE` (`ports`): a request of another process, refused while an answer is still to be thrown away, resets
  `reply_to` (`odbc.erl`, 500-502); the owner's next call is sent at once and is given the late answer of the call before,
  which the comments (470-473 and 482-485) exclude.
* `TermsSent` (`ports`), "it will use the ei-interface to create an Erlang term" (`odbcserver.c`, 53-57): a select after a `select_count` that
  failed has no columns; the header of a list without elements is a list already, and the tail that follows is a second term (1212
  and 1260). The same happens to a query that answers with lists after one that had output parameters (1090-1160); a
  column without a length, the other way round, gets no name and leaves the list of names a term short (1254-1257). `AnswersComplete` has
  exactly one term in all other answers.
* `OutputAsserted` (`ports`): a port set to intermediate mode with output still queued is asked to write in it, which the
  driver asserts never to happen.

A node may take back an abort, harmlessly. With four nodes (the instance of `commit` with one more), a participant of an asym_trans that has only
voted learns from another one that the transaction has aborted; then it takes the `pre_commit` that was on its way, and
`log_decision` puts "unclear" in the place of "aborted". `DecisionKept` therefore claims no more than that
an abort never becomes a commit.

Two places are left out of `KillAt` in `commit` because a process killed there breaks a property, and no
text of the sources promises otherwise. Killed between `release_tid` and `delete_transaction` (1370-1371, 1402-1403 and
1566-1567 of `mnesia_tm.erl`), a transaction is still in `mnesia_tm`'s list and is
recovered: the updates are made a second time, without locks (`AppliedUnderLock`). Killed while it
tells the nodes that it has only read (1320-1321), recovery sends the others `do_commit`, which a node without
a participant ignores without releasing the locks (`LocksAreReleased`).

Two comments of the lock manager are stricter than its code, harmlessly as far as the
checked properties go: "newer transactions may never wait on older ones"
(`mnesia_locker.erl`, 313) does not hold for a table lock granted past the queue of a
record, and `unstick` is sent without the table lock that its comment (190) asks for.

`YoungestFirst` says nothing of a new writer of a record that meets a younger waiter of the same record. The first attempt to prove
it without that exception failed, and TLC shows why on an instance with four transactions: 4 has a record, 3 waits for the table with an index
read, 2 waits for another record, behind 3 only. When 4 goes, the queue of the table is tried and the index read fails because the index is gone;
2 is not tried, since its record was not released, and 1 may now write that record past it. 2 is tried when 3 ends,
which `NoLostWakeup` promises.

With sticky tables and successive transactions of a process, `AcquiredIsHeld` can also fail when the
messages of one process to different local processes overtake each other, which
the emulator's local delivery does not do; it is therefore not claimed or listed.

## 7. Not modelled

Contents of records, nested transactions, friends of a transaction, global locks, dirty
operations, and mnesia_down as seen by a client that waits (`receive_wlocks` restarts the
transaction as after a refusal). In `MnesiaTransaction` the commit is one step; in `MnesiaCommit` nodes
that failed do not come back, and decisions are neither forced nor garbage collected. Debug
and system messages, the order of pids of older releases (`cmp_tid`), statistics and
the sleeping time before a restart have no effect on the locks. Everything else of the bundle is listed with a reason in
`PROJECT.json`. Of the C programs the notes there say what is left out: printing of terms, `ei_format`, what epmd
does, the bytes of the odbc protocol, the parser of emem's traces.
