# Verification of the q3df recordsystem

TLA+ models of the recordsystem's own code, with the TLC configurations that
check them and the proofs TLAPS checks. The system has two programs:

* the **proxymod**, a library the Quake 3 server loads in place of the game vm
  (`src/client`). It forwards every `vmMain` call to the real vm, runs plugins
  before and after, and makes remote calls to
* the **daemon** (`src/server`), which authenticates game servers, keeps a list
  of them, and answers commands from a MySQL database.

Between them is a protobuf RPC library (`src/tools/protobuf/src/google/protobuf/rpc`).
The rest of `src/tools` (protobuf, boost, MySQL, zlib, gyp) is third-party code
and left aside.

## Inventory

| Part | State | Operations | What makes it correct |
|---|---|---|---|
| `ApiAsyncExecuter` (proxymod) | two queues, two mutexes, a condition variable, the stop flag | `ExecuteAsync`, `DoMainThreadWork` (game thread), `BackgroundWorker` (worker), destructor | calls keep their order, none is lost or run twice, no callback before its reply, the game thread is never blocked for good, the destructor drains and ends |
| `rpc::Env` (RPC) | a queue, a mutex, a condition variable, one background thread | `Schedule`, `BGThread`, `StartThread` | no lost wakeup; each connection gets one thread |
| `rpc::Client`, `Conn`, `wire` (RPC) | socket, call id | `callMethod`, `DialTCP`, `SendFrame`, `RecvFrame`, `Close` | a call that succeeds has its own reply; the stream stays framed after errors; calls return |
| `ServerConn`, `Server` (RPC) | one thread per connection | `AcceptNonBlock`, `ServeProc`, `ProcessOneCall` | every call executed once, in order; the session ends with its connection |
| `ClientList`, `Q3dfEnv`, `Q3dfApiImpl` (daemon) | a map from `Conn*` to client information | `Handshake`, `Register`, `ClientCommand`, `Login`, `ClientDisconnect` | an entry belongs to the live connection at its address; commands find their client |
| `MysqlPool` (daemon) | a semaphore, an unprotected vector | `Get`, `Return` | a connection has one user; none is lost |
| `RecordsystemDaemon`, commands (daemon) | settings, command list | console loop, accept, `HandleCommand` | settings are not read while they change; the end of the process waits for its threads |
| `UserManagementPlugin`, `Q3User` (proxymod) | per slot: state, user id, unique id; the cvars `loginstate<n>` | connect, begin, userinfo, disconnect, shutdown; the Login callback | a login belongs to the connection it was granted to and survives level changes |
| `Recordsystem`, `EntryPoint`, plugins (proxymod) | plugin, handler, cvar and user lists; the life of every object of a level | `VmMain`, `GameInit`, events | handlers run in order; nothing is used after its deletion |
| `Q3Vm` (proxymod) | the vm's memory, three registers | `Exec`, `Run`, system calls that lead back into `Exec` | registers restored, parameters intact, results right |
| `UserCommandsPlugin` (proxymod) | the lines still to be printed | a player's `!` command, its callback, frames | every line of a reply printed once, in order |
| `CompatibilityManager`, `Console`, tokenizer, utilities | files, terminal, strings | | mostly pure input and output |
| `SqliteDatabase`, `RconClient` | | | constructed nowhere |

How they interact: the engine calls `VmMain` on the game thread; plugins and
`Recordsystem` hand remote calls to the executor, whose worker makes them through
`rpc::Client`, one at a time; each `GAME_RUN_FRAME` runs the callbacks of those
that have returned. In the daemon the main thread accepts connections and
schedules each on `rpc::Env`, which starts a thread for it; that thread runs the
handshake and the calls, uses `ClientList` and `MysqlPool`, and removes the
client at the end. Shared memory between threads is in the executor, `Env`, the
pool, the client list and the daemon's settings.

Hard behaviours: the worker against the game thread (and its destructor);
wakeups; connection threads on the unprotected vector; replies that come after
their slot has another owner or their level has ended; a connection that breaks,
or is left with half a call on it; a `Conn` address that is used again; a daemon
that starts late, stops or restarts. `PROJECT.json` lists them as hazards, each
with its line and the properties that cover it.

## Modules

| Module | Models | Extends / uses |
|---|---|---|
| `AsyncCalls` | what an asynchronous executor promises: submit, execute, deliver, each once and in order | |
| `ApiAsyncExecuter` | `ApiAsyncExecuter.{h,cc}` | implements `AsyncCalls` |
| `RpcEnv` | `rpc_env.cc` | implements `AsyncCalls` |
| `RpcSession` | client, wire, `ServerConn`, `ClientList`, life of the daemon | calls made one at a time, as `ApiAsyncExecuter` does; a thread for every accepted connection, as `RpcEnv` gives |
| `MysqlPool` | `MysqlPool.cc` | |
| `FrameChannel` | what `SendFrame` and `RecvFrame` promise: whole frames, in order, until the connection is lost | what `RpcSession` takes for granted |
| `FrameCodec` | the bytes of a frame: varint, `SendFrame`, `RecvFrame`, `Read`, `Write` | implements `FrameChannel` |
| `MCFrameCodec` | frames for it | extends `FrameCodec` |
| `Recordsystem` | `EntryPoint`, the lifecycle in `Recordsystem.cc`, `UserCommandsPlugin` | the executor without its locks |
| `Q3Vm` | the bytecode interpreter | |
| `MCQ3Vm` | a small game for it | extends `Q3Vm` |
| `UserManagement` | the plugin, `Q3User`, `VmMain` around them | its `calls` are the data of `AsyncCalls` |
| `*Proofs` | theorems about the module they are named for | |

Conventions. An action is named for the function, or the part of it, it models,
and `PROJECT.json` gives its lines. A definition `X_Change` is what `X` would be
after a plausible slip (a dropped check, a swapped order); no action uses it, and
each property is known to fail for at least one. Variables marked *history* are
written by the actions and read by properties only.

### ApiAsyncExecuter

`mpc` and `wpc` are the places of the two threads, and each access the other
thread can see is a step: lock, unlock, a test of a queue or of `stoppingThread_`,
a push, a pop. Two facts of the code decide the model:

* the worker's inner loop (lines 73-84) unlocks `mutex_` in its first round and
  goes on testing, popping and unlocking without it. So `mutex_` can be freed
  while the game thread holds it, and `itemsThread_` is popped while it is pushed;
* signals are sent without the mutex, and find nobody when the worker is busy.

The queues are linearised: a push or a pop is one step, the move of the cursor of
`std::queue`'s deque. What the compiler or the deque's map may do to a truly
concurrent push and pop is beyond this model, and is what its results assume.

Under that assumption nothing a caller sees goes wrong while the game runs, which
is what `async_executor` checks. What the lost signals cost is delay: a call
pushed while the worker was on its way to sleep stays until the next signal, and
`SignalDrains` says that this next signal takes it along. Two properties fail
(see *Findings*): calls queued at the end of a level are dropped, and the join of
the destructor can hang.

### RpcEnv

`Schedule` creates the thread, signals and pushes, all inside `mu_`, in that
order; `BGThread` waits in a loop. The actions separate these, so that mutual
exclusion is proved and not assumed. `CreateFails` is the `exit` in `PthreadCall`.

### MysqlPool

The semaphore counts permits, the vector is its size and its memory, and `back`,
`pop_back` and `push_back` read and write the size in separate steps. A
connection that is already in the list is dropped by `Return`, and its permit
with it. `PoolSize` is the option `mysql_pool_size`, whose default is 10; with 1
the semaphore is a mutex and everything holds, with 2 the races bite. The theorems
say, for any pool, which races these are: two threads within `back`, `pop_back` or
`push_back` at once. That `IsObjInList` walks a list others change does no harm.

### RpcSession

`client[s]` is the `rpc::Client` of a game server with the place its worker has
reached in `callMethod`; `conn[k]` is a TCP connection: the frames under way in
both directions, the daemon's thread (`thread`), and the address of the daemon's
`Conn` object. `clList[a]` holds the connection whose `Register` made the entry at
that address, which is how the model tells an entry from one left by an earlier
connection. TCP is external: frames arrive in order; on a connection that was
reset, or whose other end has gone, the last frames may be lost, what is sent
disappears, and `recv` fails once it has read what arrived.

Three things the code does shape it. `callMethod` leaves the socket open after an
error, so the next call uses the connection as it is, and a lost connection is
lost until the next level. `ProcessOneCall` answers an unknown method without
reading its body, which becomes the next header. `TopCommand` uses the result of
`GetClient` without a test; the daemon then dies (`CommandCrashes`). That can
happen: when `Register` fails, because the daemon was not up when the level
began, nothing registers the server again, and the next command may well dial.
`CommandIsRegistered` says that this is the only way.

`Unknown` calls arise when proxymod and daemon are of different versions. 
Frames are units here; their bytes are in `FrameCodec`. Checksums and snappy are not
modelled: TCP delivers what was sent, and a body taken for a header may or may not
parse.

### FrameCodec

`writing` is what `Write` still has to pass to `send`, `stream` the bytes under way,
`reader` the state of `RecvFrame`: `x`, `s` and `i` of `ReadUvarint`, then the bytes
of the frame. `send` and `recv` move any non-empty portion, and a connection can be
lost between any two. Words are scaled down in the run: a digit has `DigitBits` instead of 7,
a word `WordBits` instead of 64, the shift `ShiftBits` instead of 8 bits, with the
relation that matters kept, that one bit of the last digit still fits the word; the
proofs are for any widths in that relation. `FramesToSend` are the frames, sequences
of bytes; those of `MCFrameCodec` have all kinds of sizes and differ in every byte
from their neighbours. A frame of size 0 leaves the caller's string as it was, which
is the empty one for every caller, so `Returns` gives the empty frame. `Or` and `Power` are the operators `|` and
`<<` of C on natural numbers, `put` the loop of `putUvarint`.
`ShiftDefined` states what nothing in `ReadUvarint` tests: the shift stays within
the word, because what it reads is always the beginning of a frame. `ImplementsFrameChannel`
maps `connected` to `~lost` and `receiving` to `reader.pc # "failed"`: the steps that
move bytes are not seen, and the step that reads the last byte of a frame is
`Receive`.

### Recordsystem

`stage` is how far the engine and `GAME_SHUTDOWN` have come, `alive` the objects
that exist; each action notes in `misused` who touches which object that does not.
The deletions follow the code's order, one at a time: plugins first, then the
executor, whose destructor waits for the worker, runs the callbacks that are left
and warns of the calls the worker has not begun, whose items and messages leak;
the client is closed and never deleted; `Deletions` is the rest, down to the
recordsystem and the library's `Env` in `EntryPoint.cc`. A `GAME_INIT` whose bytecode cannot be loaded ends in the engine's `G_ERROR`,
and `GAME_SHUTDOWN` follows. `sentTextLines` are the lines of replies that
`OnGameRunFrame` prints, a few at a time and not in the frames in which `counter` is 0;
lines are numbered as they are received, which is how order and loss are told.
The model says exactly which accesses go wrong (`MisuseHasCause`): the callback of
a command that returns after the plugins are gone, and `OnVmMainShutdown` without
users. When the library is unloaded is the engine's choice, and that it calls no
`vmMain` after the deletions is assumed of it.

### Q3Vm

Memory in words, code in instructions, `runs` the stack of activations of `Exec`
and `Run`. `Run` keeps `opStack` and `opPointer` in locals; a system call may lead
back into `Exec`, which moves the registers and must put them back. `stacksize_` is
0 in the code (`StackWords`), so frames and operands start at one address and grow into
one another: operands overwrite the last words `Exec` has pushed, which are
parameters no game reads. `MCQ3Vm` gives the interpreter a recursive function and
a `vmMain` that makes system calls in the middle of an expression, as the game's
compiler would translate them, and one that copies a structure and computes with
signed, unsigned and shifted words, whose results are worked out by hand in C.
While the game is in a system call the engine writes where the arguments of the call
point to (`G_ARGV`, `G_FS_READ`, `memcpy` and many others in `SysCalls`), and may call
`vmMain`, in any order and any number of times. `Written` is what it writes, by the
number and the arguments of the call, and `Buffer` the words a call gives it;
`EngineWrites` writes one of them. `Shared` is memory the game has handed over for
good (`G_LOCATE_GAME_DATA`), which is written while no game code runs, too. The game
of `MCQ3Vm` has a system call that fills a buffer in the frame of its caller, and
keeps a local variable beside it.
Division by zero ends the process and a shift by a word or more is undefined
(`Defined`): a program that does either stops the model, and TLC would report it.
The logical operations are a recursive function on the bits (`WordLogic`), so that
the module can be reasoned about.

Nothing in the interpreter protects it from its program, so what it promises holds
for programs that follow the convention of the game's compiler.
`CodeKeepsConvention` states that convention, as a condition on the activation that
runs and its next instruction: frames are taken below that of its own `Exec` and are
large enough for a return address, operands stay above `LastOperand`, stores, and the
buffer of a system call, stay in `Own` (below the frame of the running `Exec`, or in it
except for the three words that must last), and `vmMain` returns with its own frame
and one operand. It says nothing of the activations that wait in system calls: not of
the words they need, nor of what memory holds for them, nor of the registers after a
return. Run `q3vm` checks that the game of `MCQ3Vm` keeps it.

### UserManagement

`users`, `slot`, the cvars and the Logins under way. `VmMain` runs the connect
handlers twice, each run takes a new `uniqueId_`, and the callback compares the
one a reply echoes. Unique ids are uuids and only compared, so a call only keeps
whether its id is still the slot's (`current`) and, as history, whether the
connection it was for still stands (`live`). `Outcomes` is how a Login may return.
The client fills the reply before it looks at the id and the error of its header
(`rpc_client.cc:85-94`), and the callback of a failed Login uses the reply: one that
is empty names player 0, one that another Login has left on the connection names the
player of that Login, so a failed Login may log out any slot. `own`, `failed` and
`keyless` are history: whose Login a user id was granted to, whether a Login of the
level has failed, and who was logged out for want of a key; `LoggedInOrAsking` says
that these two are the only ways to be left without a Login. The engine is external:
it connects to free slots, restores connected clients after a level change, drops
refused ones. The handlers of `G_GET_USERINFO` and `G_SET_USERINFO` are left out: they
are put on the list of `vmMain` events, which no system call walks.

## Runs

| Run | Shows | Bounds |
|---|---|---|
| `async_executor` | order, exactly once, replies before callbacks, drained main queue, refinement of `AsyncCalls`, progress | 4 calls: the third can be stranded, and only a fourth signals for it |
| `async_warning` | *violation*: the destructor's warning can come true | 2 calls |
| `async_hang` | *violation*: the destructor's join can hang | 1 call |
| `rpc_env` | no lost wakeup, refinement of `AsyncCalls` (no item lost, doubled or overtaken), every item starts | 2 callers, 3 items: a caller waits for the lock while the other signals, and the queue is empty, has one item, has more |
| `mysql_pool` | exclusive use, conservation, no double return, no starvation | 1 connection, 4 threads |
| `mysql_twice` | *violation*: the branch for a double return is taken without one | 2 connections, 2 threads |
| `rpc_session` | entries of the client list belong to live connections; commands find theirs | 2 servers, 2 connections at a time, 2 addresses, 2 calls in a level: one registers, one commands; levels, connections and daemon restarts without bound |
| `rpc_wire` | a call that succeeds has its own reply; order; framing; calls return; sessions end | 1 connection at a time, 4 calls in a level: register, the unknown method, the call that reads what it left, and the one that reads the reply of that |
| `frame_codec` | frames whole and in order, the shift defined, refinement of `FrameChannel`, frames arrive | 2-bit digits, a 5-bit word; 5 frames of sizes 0, 1, 4 (the first of two digits) and 17 (three digits, the last one full), of different bytes with and without the bit for a further digit; 3 of them sent, 5 bytes under way, which no frame of 4 or 17 fits |
| `recordsystem` | misuses have known causes, nothing is missing during a level, lines printed once and in order, replies shown | 3 calls under way (one waiting, one executed, one answered), 3 lines, replies of 1 and 3 lines, 2 lines a frame; levels and loads without bound |
| `q3vm` | the game keeps the convention; registers restored, parameters kept, results right | 2 nested `Exec`s, any number of them in a system call; 16-bit words, 2 commands, 2 arguments, 2 answers of system calls; one word shared with the engine, one value it writes, at any time it may |
| `user_management` | logins belong to their connection, survive level changes, are lost for a reason only, arrive, nobody is forgotten | 2 slots (slot 0 is the one empty replies name; a failed Login names either), 3 Logins pending: two of a connect and one of a userinfo change |

Deadlock is checked where the system can always go on (pool, sessions, users);
the executor ends with its destructor, `RpcEnv` with its bound or the process, and
`FrameCodec` when all frames are sent or the reader has failed.

The type invariants of `ApiAsyncExecuter`, `RpcEnv`, `MysqlPool`, `FrameCodec`,
`Recordsystem`, `UserManagement` and `RpcSession`, and the invariants `MainQueueExclusive`,
`MutualExclusion` and `RpcEnv`'s `InOrderExactlyOnce`, are not in the runs: they
are proved for every value of the constants.

### Fairness

* `ApiAsyncExecuter`: both threads take their next step once they can, the engine
  runs frames, and a mutex that is free again and again is taken (strong fairness
  for the two locks others compete for). A remote call is assumed to return;
  `CallReturns` of `RpcSession` is that assumption. When a call is submitted or
  the level ends is left open.
* `RpcEnv`: threads run; the background thread gets the lock in the end. Nobody
  has to call `Schedule`.
* `MysqlPool`: threads go on and return what they got; the semaphore starves no
  one.
* `RpcSession`: a call goes on and a connection thread runs; the kernel's queue
  of connections is served in order, hence strong fairness for each accept.
  Nothing makes the daemon start, a level end or a call begin. A lost connection
  is seen to be lost: `recv` has no time limit, and without a reset or the end
  of the other process the worker, and the end of the level, would wait for ever.
* `UserManagement`: calls return, frames run.
* `Recordsystem`: frames run; whether calls return is left open.
* `FrameCodec`: `send` and `recv` are called again until a frame is through, as
  their loops do; when anything is sent is left open.

## Theorems

Proved by TLAPS for every value of the constants, from the named `ASSUME`s (the
bounds are natural numbers, sentinels are not members of the sets, the widths of
digits, words and shifts fit each other as 7, 64 and 8 do) and nothing else, but for
`Q3Vm`, whose theorems have the convention of the code as their hypothesis, and three
about `MysqlPool`, which have `RaceFree`.

* `ApiAsyncExecuterProofs`: `TypeOK`, `MainQueueExclusive`, `InOrderExactlyOnce`,
  `RepliedBeforeCallback`, `MainQueueDrained`, and the refinement of `AsyncCalls`.
  None of these is inductive alone. The invariant is `Control` (types; who is
  inside `mutex2_`; the worker's hand holds one call exactly between its pop and
  its push; after the join the worker is gone and the queue of callbacks is
  empty when the last loop ends) and `Data` (the queues put end to end are the
  history of submissions; what has been executed is a prefix of it). `mutex_`
  does not occur in it, so the proof says that correctness of the data never
  rests on the mutex that the inner loop gives up.
* `RpcEnvProofs`: `TypeOK`, `MutualExclusion`, `NeverSleepsOnWork`,
  `InOrderExactlyOnce`, and the refinement, for any set of callers. The point of
  the invariant is `AwakeForPush`: a caller that has signalled and not yet pushed
  holds the lock, so the background thread cannot be asleep; with it signalling
  before pushing is harmless, as is signalling only when the queue was empty.
* `MysqlPoolProofs`: `Exclusive`, `Conserved` and `NoTwiceReturn` for any pool and any
  number of threads, in the form `Spec /\ []RaceFree => ...`: as long as no two threads
  are within `back` and `pop_back`, or `push_back`, at once. The rest of `Get` and
  `Return` may interleave freely, the search of `IsObjInList` with the changes of
  others in particular. The invariant says that list and users share the connections
  out among them, none twice, where a `Get` or `Return` that has come half way counts
  as the one or the other. A pool of one connection is `RaceFree` by its semaphore, so
  the three hold there without a hypothesis (`OneConnectionIsSafe`), which is the
  instance run `mysql_pool` checks; `mysql_twice` shows that larger pools need it.
  Without any hypothesis, for a pool of any size: the
  types and `AtMostPoolSize`: the semaphore bounds the queries that run at once. The
  invariant `PoolInv` counts the threads past the semaphore with the permits (a
  `Return` that drops its connection loses a permit, so the sum may fall), and keeps
  the vector's size, and the sizes threads have read, from passing its memory.
* `RecordsystemProofs`: `TypeOK`, `MisuseHasCause`, `PlaysOnLiveObjects` and
  `PrintedInOrder`, for any number of calls and lines. The
  invariant gives what is alive at each stage and after each deletion (`Lifetimes`), and
  says that the worker holds no call once the executor is gone, and that no Login
  was sent in a level that never had users; without these the callbacks run by the
  destructor could touch anything.
* `UserManagementProofs`: `TypeOK`, `OwnLogin`, `ConnectedKnown`,
  `LoginKeptAcrossLevels`, `LogoutHasReason` and `LoggedInOrAsking`, for any finite set
  of slots and any number of Logins. The heart of the invariant is `CurrentIsLive`: a reply
  whose unique id still matches is for the connection the slot has now, and for a
  user the plugin knows. `Down` and `CvarKeepsLogin` carry a login over the level
  change: nothing is under way in between, and the cvar of a client that stays is
  what it was, and its own.
* `RpcSessionProofs`: `SessionIsOwn` and `ServedInOrder`, for any number of servers,
  connections, addresses and calls. For the first the invariant says that a
  connection has an address just while its `Conn` exists, that no two have the
  same, and that entries belong to threads that have not come to delete their
  `Conn`. For the second it says that what a connection has served, the call its
  thread has in hand and the requests under way are ids that grow, all below the
  next id of the client that holds it, and that two clients never hold one
  connection. Frames leave a queue only at its ends, so a loss keeps the order.
  The second half has `ClientFraming`, `NilIsOwnAnswer`, `CommandIsRegistered` and
  `TypeOK`, on top of that order. For the first two the invariant is about a client
  and the connection it holds: during the handshake nothing else has been read or
  sent; the frames that come back are responses each followed by its body, and the
  client stands between two of them (`First`, `Paired`); a connection that lasts
  holds no response without its body (`Whole`); and an answer without an error is
  for a call that has been executed (`Answered`). Nothing is said of a connection
  that nobody holds: no client reads it again.
  For `CommandIsRegistered` it is the other direction that
  counts. Every Command under way, in hand or still to be sent on a connection
  dialled before the level had called Register has a Register ahead of it
  (`Ahead`): in the list already, in the thread's hand, or earlier among the frames.
  Frames are lost only from the end, so a Command never arrives without its
  Register; the client may only believe that it sent one if the connection is lost,
  and then it sends nothing more on it (`Sessions`). That a request is never taken
  for the body of another (`Requests`, `Full`) is why the daemon executes a Register
  it has received; that an entry found at the address is the connection's own is
  `SessionIsOwn`. `TypeOK` follows from all of this: what a client stores and both
  sides send has its type because the frame a client takes is of the kind it stores
  (`ClientFraming`), and because a call still to be sent is within the bound on calls
  (`Calling`): failed calls use up no ids that the bound does not count.
* `FrameCodecProofs`: `FramesWhole`, `ShiftDefined`, `TypeOK` and the refinement of
  `FrameChannel`, for every width of digits, words and shifts that `WidthAssumption`
  allows, 7, 64 and 8 among them, and any frames (sequences of bytes whose length fits
  a word), capacity and number of them. The reader knows nothing of what was sent;
  the invariant is what it cannot see. There are a tape `T` of all bytes ever given to `Write`, the place `at[k]` of
  each frame on it, and the number `c` of bytes read. The frames lie on the tape one
  behind the other (`Laid`), what is in transit and what waits to be written are the
  bytes from `c` on (`Transit`), and the reader stands within the frame behind those
  it returned (`Reading`). In a size it has read the low digits, `x`, and there is a
  number `m` of which all digits are still to come, with the size `x + Power[s] * m`
  (`Sized`); so the shift stays below the width of the word as long as `m` is not 0,
  an or with the next digit is an addition, and no size that was written is refused
  as an overflow. None of these properties is inductive without this: a reader that
  is a byte off takes payload for a size, and then the shift may grow without bound.
  The refinement needs of it only that the frames received are the first of those
  sent, before and after the step (`Arrived`): a frame that is returned is then the
  next one.
  The functions `Power`, `put` and `Or` are recursive. `Recursion` shows that such a
  definition has a function that satisfies it, for arguments that get smaller by some
  measure; what they compute (`PutDef`, `OrOfDisjoint`) is proved from the least
  counterexample, which `WFMin` gives as a set.
* `Q3VmProofs`: `RegistersRestored` and `ArgumentsKept`, each in the form
  `Spec /\ []CodeKeepsConvention => ...`, for any code, memory, number of parameters,
  width of words and depth of `Exec`s. The run says that the hypothesis can be met:
  it holds of a game with recursion, copies of structures and system calls. The
  invariant is about all activations: the frames of inner `Exec`s lie below those of
  outer ones (`Nested`), each is in the memory and its first words hold what its
  `Exec` has put there (`Placed`), and each activation in a system call has what it
  goes on with either in the registers or in what the next `Exec` has saved of them,
  with its operands above every word of a frame that must last (`Suspended`,
  `Resumes`); the first frame begins where `Create` has put it (`Rooted`), and what the
  engine may write in any system call under way keeps off what the `Exec`s up to that
  call have pushed (`Clear`). The convention binds the running code, and the words of
  its own `Exec`, only; that inner code and its system calls cannot harm an outer
  `Exec` has to be shown: by `OwnOff`, what the running code may write avoids the words
  of all of them, since their frames are nested; by `KeptBetween`, all words that must
  last lie between the running frame and the operands, and neither what an
  instruction pushes nor what `Exec` pushes or a system call's answer overwrites is
  among them. That frames and operands share one segment (`stacksize_` is 0) is
  therefore harmless as long as the operands stay above the fourth word of the
  outermost frame.

Only model-checked: all liveness (fairness and `ENABLED` are outside what is
proved), and of `Q3Vm` what belongs to one program: that it keeps the convention,
that its words and registers are in range (`TypeOK`) and that its results are right
(`ResultIsOwn`).

## Findings

* `ApiAsyncExecuter.cc:66`: calls queued when a level ends are neither executed
  nor freed; the update check of `Recordsystem.cc:137`, submitted in the same
  shutdown, is the likeliest. The warning of line 31 is about this.
* `ApiAsyncExecuter.cc:21`: the stop signal can fall between the worker's test
  and its wait; `pthread_join` then never returns.
* `MysqlPool.cc:41`: with two connections or more, the unprotected vector makes
  `Return` find a connection in the list that its user returns once, and drop it
  with its permit. The `push_back` of one thread's `Return` has read the size when
  another's `Get` takes the last connection; the size it then writes puts this
  connection back into the list while it is in use.

Seen while modelling, and not the violation of anything the code or its documents
state as a property:

* `rpc_server_conn.cc:60`: an unknown method leaves its body in the stream, where it
  is read as the next header. The client survives it: its calls fail until the
  level ends, and none takes another's reply for its own (`NilIsOwnAnswer`).
* `UserManagementPlugin.cc:163`: the warning "client disconnect after login" is
  printed for clients that are there: every connect sends two Logins, and the
  first reply is stale.
* `UserCommandsPlugin.cc:104`: the callback of a command uses the plugin after its
  deletion when the reply comes with the end of the level; `MisuseHasCause` says
  that it is the only callback that does.
* `UserManagementPlugin.cc:220`: `OnVmMainShutdown` walks users that do not exist
  when `GAME_INIT` has failed.
* `UserCommandsPlugin.cc:46`: every reply is printed to client 0.
* A client the vm refuses stays in state connected in `Q3User`;
  `LoginResponse.result` is ignored; an empty reply of a failed Login names player
  0 and logs it out, and one that is left of another Login logs out the player of that
  one (`UserManagementPlugin.cc:152`); `rs_no_new_clients` refuses the clients that a level change
  restores; the daemon listens on port 1234 whatever the option says; `accept`'s -1
  is taken for a socket.

## Plan

Done: executor, `Env`, pool, logins, sessions, frames, lifecycle, interpreter, and
the proofs above. What is left, in order of weight:

1. An abstract login service that `UserManagement` implements, as `AsyncCalls` is
   for the queues.
2. Loads and stores of parts of a word in `Q3Vm`, for which memory would have to be
   counted in bytes.

## Not modelled

* The console's side of the daemon: settings that connection threads copy while
  the console sets them, `va`'s buffers, the global object deleted under running
  threads. There is no protection and no claim of one, so there is nothing a model
  could show to hold, and no set of outcomes to choose from.
* `Console` (terminal editing), `CompatibilityManager` (files, portability),
  `Logger`, `StringTokenizer`, `Utils` (sequential helpers on strings; the
  info-string functions belong to handlers that never run), `MstimeToDftime`
  (straight-line arithmetic for a layout).
* `Q3Event`, `Q3SysCall` (one forwarding function per call), `ServerRecordsPlugin`
  and `ServerDemosPlugin` (stateless or empty).
* In `Q3Vm`: loading, `Restart` (nothing calls it), floats, native function
  pointers. In the RPC library: checksums, compression, serialisation.
* The Windows variants of `Env` and `Conn`, query texts and formats of the
  commands, `SqliteDatabase` and `RconClient` (not used).
* Third-party code under `src/tools` (protobuf, sqlite, boost, MySQL, zlib, gyp),
  which is nearly all of the repository's lines: the models cover a small share of
  them and most of what the recordsystem itself wrote.

`PROJECT.json` gives the reason for each part.
