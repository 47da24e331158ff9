# RauLinux: a verification development

The repository is a set of Linux systems-programming exercises in C++. Each
directory is a program of its own. The ones with state that several processes
or threads share are modelled here in TLA+, checked with TLC on small instances
and, where the proof system reaches, proved for every value of the constants.

## 1. The system and its components

| Component | Source | State | Operations | Talks to |
|---|---|---|---|---|
| Bank | `Bank_Final_Project/bank.cpp`, `bank_structures.h`, `client.cpp` | bills and one process-shared semaphore, in the shared segment `/bank` | twelve methods of class `Bank`, called from the menu of `./client` and once from `./init` | other clients, through the segment only |
| Life of the segment | `Bank_Final_Project/init.cpp`, `destroy.cpp`, `client.cpp` | the name `/bank`, the object behind it, who has it mapped | create, size, map, construct; attach; unlink | the bank |
| Philosophers | `Philosophers/main.cpp` | one shared semaphore per stick | take two sticks, put them back; fork, wait, destroy | children of one parent |
| Thread pool | `TH-2/main.cpp` | queue of tasks, `stop`, a mutex | constructor, `run`, worker loop, destructor | main and the workers, under the mutex |
| Chat server | `Chat/server.cpp` | vector `clients` and its mutex, sockets, one thread per connection | accept, register, `send_all`, `/list`, `/exit`, disconnect | clients, over TCP |
| Chat client | `Chat/client.cpp` | one socket, two threads | send lines, print what arrives | the chat server |
| Smokers | `Smokers/main.cpp` | three pipes, a shared flag and mutex | hand out ingredients; SIGTERM and wait | three children |
| Parallel sum | `TH-1/main.cpp` | partial sums, block bounds | start m threads, join them | its threads |
| Poll server | `RPC-2/server.cpp` | ten poll slots | accept, one thread per connection, echo | clients, over TCP |
| Calculator | `RPC/main.cpp` | the port, one request record per connection | parse, calculate, answer; connect, ask, quit | other copies of itself, over TCP |
| Prime server | `IPC-2/main.cpp` | two pipes with four ends | request, n-th prime, answer, exit | one child |
| Copies of bytes | `FS-2`, `FS-10`, `FS-11`, `HTTP_ex` | two offsets, one buffer | copy whole, without zeros, from and to an offset, from a socket | each other, through files |
| do-command | `PS-1/do_command.cpp` | an argument vector | fork, exec, wait | one child |
| The rest | `FS-1`, `FS-3`, `FS-4`, `FS-5`, `ENV-1`, `ENV-2`, `Simple_Client_Server_Chat` | none, or covered above | straight-line input and output | |

What is hard, component by component:

- **Bank.** Processes interleave between any two writes to the segment. A
  process can be killed inside a method, and POSIX semaphores are not given
  back. Balances are `int`s whose tests add before they compare. Correct means:
  each method is atomic, limits hold, transfers conserve money.
- **Philosophers.** The circle of first sticks; two posts in two steps;
  children that die; a parent that counts the ends of its children and frees
  the semaphores. Correct means: exclusion, no deadlock, an end.
- **Thread pool.** Workers poll; `stop` races with the last tasks; the mutex is
  destroyed at the end. Correct means: each task once and in order, none left.
- **Chat server.** A descriptor number serves as a client's identity, and the
  kernel reuses it; `send` can block or kill the process while the mutex is
  held. Correct means: the registry is the set of live clients, and a departed
  client leaves.
- **Smokers.** A signal handler that locks, a `read` that restarts, and write
  ends of pipes that children inherit. Correct means: every ingredient reaches
  its smoker, and the program ends.
- **Poll server.** Slots that are taken and never given back; answers that are
  longer than the buffer of the client, and messages that arrive two at a time.
  Correct means: descriptors are not mixed up, and an answer belongs to its message.
- **Life of the segment.** Clients attach before the constructor is done; an
  `./init` that fails removes a name, which may be another bank's by then.
  Correct means: who opens a bank that is built is safe.
- **Calculator.** Copies compete for one port and end with their clients still
  connected to them; one line can kill the server of all; a record is reused for
  every line. Correct means: what a client hears is the answer to what it asked.
- **Prime server.** Each process must close the ends it does not use, or no end
  of file is ever seen; the answer must belong to the request when either
  process dies.
- **Copies of bytes.** Partial and failed calls, borders of the buffer, and two
  copies on the same file. Correct means: the copy is the image of its source.
- **Parallel sum.** Blocks at the limits of their ranges, threads that could not
  be created.

`PROJECT.json` lists every hazard at its line, with the properties that cover
it or the reason why none does.

## 2. Modules

| Module | What it is |
|---|---|
| `Bills` | The records and the arithmetic of the bank: wrapped 32-bit sums, the tests of the limits, what each request makes of a bill. Two modules share it. |
| `Bank` | Abstract specification: each method is one step. |
| `BankShm` | The segment: semaphore, one write per step, processes that die. Implements `Bank`. |
| `MCBankShm` | Requests and int width for TLC. |
| `BankShmProofs` | Theorems about `BankShm`. |
| `Philosophers`, `MCPhilosophers`, `PhilosophersProofs` | The table, its instance, its theorems. |
| `TaskPool` | Abstract specification of a FIFO pool: no locks, no polling, no joins. |
| `Scheduler`, `MCScheduler`, `ThreadProofs` | Class `parallel_scheduler` and its main; it implements `TaskPool`. `ThreadProofs` has the theorems of `ParallelSum` too. |
| `ChatServer`, `MCChatServer`, `SocketProofs` | The server, its connections and the kernel's descriptors; the instance; the theorems, and those of `Calculator`. |
| `Smokers`, `MCSmokers`, `PipeProofs` | Main, the smokers, their pipes and their signal handler; the instance; the theorems, and those of `PrimePipe`. |
| `ParallelSum`, `MCParallelSum` | The blocks, the threads and the sum; the instance. |
| `PollServer`, `MCPollServer`, `PollServerProofs` | The echo server of `RPC-2` with its slots, threads, clients and streams; the instance; the theorems. |
| `BankSegment`, `MCBankSegment`, `BankSegmentProofs` | The name `/bank` and the objects behind it: `./init`, `./client`, `./destroy` in any number; the instance; the theorems. |
| `Service` | Abstract specification of a server that answers requests: no connections, threads, pipes or messages. `Calculator` and `PrimePipe` implement it. |
| `Calculator`, `MCCalculator` | Copies of `RPC/main.cpp`, server and client threads in one process. |
| `PrimePipe`, `MCPrimePipe` | The parent, the child and the ends of their two pipes. |
| `ByteCopy`, `MCByteCopy`, `ByteCopyProofs` | The copying programs, two at a time, on shared files; the instance; the theorems. |

`ThreadProofs`, `SocketProofs` and `PipeProofs` extend two specifications each, so
that every theorem names its property directly. What both of a pair would define
has a prefix in the second: `SumInit`, `SumNext`, `SumSpec` in `ParallelSum`,
`CalcInit` ... in `Calculator`, `PrimeInit` ... in `PrimePipe`.

### How the state corresponds to the code

**`BankShm`.** `bills[a]` is `Bank::bills[a]`, `sem` the value of
`Bank::semaphore`. A process is at its menu, waits in `sem_wait`, is inside a
method (`body`, `debit`, `credit`, `sem_post`), or has exited. `TransferCheck`
is the four tests of `transfer`, `TransferDebit` and `TransferCredit` its two
assignments, `SweepNext` one iteration of `credit_all` or `debit_all`. A test
that throws goes to `sem_post`, as the `catch` does. Requests with a bad index,
or with the amount 0, return before `sem_wait`, so they are one step that
changes nothing. Reads made under the semaphore are merged with the write they
guard. `committed` is a history variable: the bills at the last `sem_post`. The
loss of a process leaves `pc` where it was and puts the process in `killed`.

**`Philosophers`.** `stick` is the semaphores' values; `pc[p]` says which call
comes next for process `p`; `k` is main's loop index; `reaped` is what `wait`
returned. Thinking and eating have no effect on shared state and are no steps.

**`Scheduler`.** `mutex`, `queue` and `stop` are the members of the class;
`task[w]` is the local variable of `main_thread`. Lock, test, take, unlock,
call and sleep are separate steps; `run` and the destructor likewise. `runs`
is a history variable.

**`ChatServer`.** A connection, its thread and its `ClientInfo` are one value.
`open` is the kernel's descriptor table, `fd[c]` is `client_socket`, `clients`
the vector. A pointer to a deleted `ClientInfo` may read as any socket, or
crash in `/list`. The peer reads, stalls, closes or aborts; a closed peer that
is sent to may answer with a reset, and the next send raises SIGPIPE.

**`Smokers`.** A smoker is its loop and its handler, which interrupts the loop
anywhere: the loop stands still while `signal[s]` is in `InHandler`. The mutex
is a `std::mutex` in shared memory and private to each process: whoever sleeps
on it wakes by an action of its own, `Wake`, which nothing obliges to happen. A
pipe has a writer while main has not closed its write end, or while another
smoker, which inherited it, runs. SIGTERM restarts the `read` it interrupts, as
`signal` asks for, and ends a smoker that has not installed its handler yet.

**`ParallelSum`.** `data` is `thread_data`, `partial` is `partial_sums` and
`multi_sum` the final sum; a sum is the set of the positions it has added. The
loop of `MySum` compares with `!=`, so a block that starts after its end would
never be done. The result of `pthread_create` is not looked at, in the model
either: the join of a thread that does not exist returns or crashes.

**`PollServer`.** `slot` is `fds[1 .. MAX_CLIENTS].fd`, `fd[c]` the descriptor
of client c in the server, `thread[c]` the place of its thread in
`handle_client`, `client[c]` the place of its process in `client.cpp`. The two
streams of a connection are sequences of units that name the message they
belong to, so that what a `recv` takes (part of a message, or two at once) is
what the buffers' sizes make it. `long` is a history variable.

**`BankSegment`.** `name` is what `/bank` refers to, `obj[p]` the object behind
the descriptor of process p, `sem[o]` the semaphore in object o. `./init` makes
one step per system call and per sem operation of the constructor; a method of
`Bank` is one visit between `sem_wait` and `sem_post`, since what it does is in
`BankShm`. A client that sleeps on the zeros of a new object when `sem_init`
writes it is `asleep`: no post is meant for it any more, so `Wake` may happen and
need not. `late` and `overtaken` are history variables.

**`Service`.** `asked[c]` is the request under way, `heard[c]` the last answer.
An answer may be missed only by a client in `lost`, whose server has ended.
Without this condition a wrong answer equal to the one before would pass for a
missed one.

**`Calculator`.** A process is a copy; `acceptor[p]` and `client[p]` are the places
of its server thread and its client thread, `handler[p]` that of the thread that serves client p, in
the copy `host[p]`, and `info[p]` is that thread's `t_info`. A line is the number
of fields that `sscanf` converts, with their values. `Trap` is the `SIGFPE` of
the least int divided by -1. When a copy ends, its port and its connections end
with it, but answers already sent can still be read.

**`PrimePipe`.** `ends[e]` is the set of processes that have end e open: both
have all four after the fork. A `read` returns 0 when nobody has the write end,
a `write` raises SIGPIPE when nobody has the read end. `Primes` is the loop of
`calculate_prime`, with the square that overflows in its test.

**`ByteCopy`.** `file` is the file system, `input` and `output` the offsets,
`pending` the part of the buffer that is still to be written. FS-10 and FS-11
write byte by byte and leave out zeros, FS-2 writes chunks, `HTTP_ex` writes
what it has received up to the first zero. The fifth argument of FS-11, which
its comment calls the number of bytes, is not in the model since the program
never uses it.

## 3. Runs

| Run | Checks | Result |
|---|---|---|
| `bank` | `RefinesBank`, `LimitsBreakOnlyByOverflow`, `MoneyOnlyBySweeps`, `DeadHolderFreezesBank`, `SemaphoreReleased` | pass, 390,464 states |
| `bank_segment` | `OneVisitor`, `LateClientsSafe`, `GivesUpOwnBank` | pass, 162,349 states |
| `philosophers` | `SticksAreExclusive`, `NoCircularWait`, `SticksOutliveChildren`, `Finishes` | pass, 67,522 states |
| `scheduler` | `ExitLeavesNoWork`, `RefinesPool`, `Finishes` | pass, 435,135 states |
| `chat` | `DescriptorsOwned`, `RegistryExact`, `DepartedLeave` | pass, 22,186 states |
| `chat_dangling` | `NoDanglingEntry` | violated: see section 6 |
| `smokers` | `EachIngredientOnce`, `SmokersServeInput`, `IngredientsTaken`, `EndsOrStuck` | pass, 30,281 states |
| `parallel_sum` | `EachPositionOnce` | pass, 5,625 states |
| `poll_server` | `DescriptorsOwned`, `SlotPerThread`, `AnswersPaired`, `SigpipeOnlyAfterLong`, `AnswerComes`, `DepartedClosed` | pass, 115,036 states |
| `calculator` | `RefinesService`, `AnswerComes`, `IdleCopiesEnd` | pass, 146,895 states |
| `prime_pipe` | `RefinesService`, `ReadReturns`, `ExitEndsBoth` | pass, 736 states |
| `byte_copy` | `CopyIsImage`, `SuccessIsWhole`, `MixedByPosition`, `OneContentsLeft`, `CopiesEnd` | pass, 35,387 states |

The type invariants, and invariants on the way to what the runs check, are
proved (section 4) and are not in a run: `TypeOK` of each module, `SemaphoreCountsHolder`,
`MutexHeldByOwner`, `EachTaskOnce`, `DestroyedLast`, `BlocksAdjoin`,
`JoinedBeforeSum`, `NoDeadlock` and `StalledPeerFreezesChat`.

The runs `calculator` and `prime_pipe` also evaluate an assumption: `AnswersAreRight`
compares `parser` and `calculate` with the meaning of the four operations for
every pair of ints of the width, and `EveryPrime` compares `calculate_prime` with
the definition of the n-th prime for every prime that is an int. `RightAnswer` and
`FindsThePrime` prove both for ints of any size.

### Bounds, and why they are enough

- Bank: two accounts, two clients and the initializer, one kill, 3-bit ints
  (`INT_MAX = 3`) and amounts of 2. Two clients give every pairwise
  interleaving, two accounts every role in a transfer, and with 3 bits both
  overflows are one or two requests away. The proofs cover the other sizes.
- Philosophers: four of them with two meals and one fault (the program has five
  and three), enough for a death at each place of each philosopher.
  `MaxFaults` is the only bound that the program does not have. The proofs
  cover every number of philosophers, meals and faults.
- Thread pool: four threads and ten tasks are the program's own numbers.
- Chat: two connections on two descriptors, so that they are open side by side
  or the second gets the descriptor of the first while that one still has its
  entry, with all the ways a peer can stall and leave. A connection is made once: what a client that comes back could do, the
  next one does. The theorems cover any number of connections.
- Smokers: two smokers, which already keep each other's pipes open and share
  the flag and the mutex, and two ingredients of each kind. The proofs cover
  every number.
- Parallel sum: every n up to 9 with every m up to 5, so with and without a
  remainder and with more threads than positions. The program asks for more
  than a million numbers, but the blocks depend on n div m and the remainder
  only. The proofs cover the other sizes.
- Poll server: one slot for two clients, so that one client is left over, and
  two descriptors. Buffers of 4 and 3 units and a header of 1 separate the
  three kinds of message: one that fits everywhere (an empty line is one of these), one whose answer is too
  long for the client, and one that is too long for the server. Three messages
  let answers get out of step and two messages arrive together. The theorems
  cover every number of slots, clients and messages and every size.
- Segment: two `./init`, two `./client`, two objects and any number of
  `./destroy`: a bank, its successor, and a client that came too early to each.
  The theorems cover every number.
- Calculator: two copies, the one that serves and another; ints of 3 bits and
  four lines: a product that overflows, a division by zero, the quotient that is
  not an int, and a line that does not parse. The theorems cover every number of
  copies, every set of lines and every size of int.
- Prime server: 7-bit ints, in which the squares of 11 and above overflow, and
  the first, the fourth and the last prime that is an int. The theorems cover
  ints of any size and any numbers whose primes are ints.
- Copies: any two of eleven jobs at once, a buffer of two bytes for files of two
  and three, so that a file ends within a buffer and at its border; offsets that
  leave a gap, and one that is refused. FS-10 always writes `copy.txt`. The
  theorems cover any jobs, any contents and any size of the buffer.

### Symmetry

Connections of the chat are interchangeable, and so are the `./init` and the
`./client` of the segment: the runs `chat_dangling` and `bank_segment`, which have
no liveness property, use that.

### Fairness

- `BankShm`: a process inside a method keeps running (weak fairness of each
  process' `Step`). Nobody is obliged to type a request, and no fairness is
  assumed of the semaphore: `SemaphoreReleased` does not need it.
- `Philosophers`: every process that can run does (weak fairness). The
  program has bounded meals, so that no stick is taken for ever.
- `Scheduler`: weak fairness of each thread, and strong fairness of the two
  places where main locks the mutex that workers poll. The workers sleep for
  10 ms between two polls, so main finds the mutex free again and again; four
  of them sleeping leave it free most of the time.
- `ChatServer`: weak fairness of each thread, strong fairness of taking the
  mutex and of noticing that the peer has left, since what a departed client
  sent before is finite. Nothing is assumed of the clients, which may stall.
- `Smokers`: weak fairness of main and of each smoker's loop and handler, but
  not of `Wake` and `HandlerWake`, nor of the input.
- `PollServer`: weak fairness of main, of each thread, and of a client's `recv`
  (`Fair(c)`). Nobody is obliged to type a message or to leave.
- `Calculator`: weak fairness of each server thread, of each handler, of a
  client's `recv` and of main's joins (`Fair(p)`). Nobody has to type a line.
- `PrimePipe`: weak fairness of parent and child; typing is not in it.
- `ByteCopy`: weak fairness of each process, but not of a read from a server.
- `BankSegment` and `ParallelSum` have no liveness property: a client may wait for
  ever on a bank that is never finished, and the theorems on the blocks say what
  matters of the sum.

## 4. Proofs

All theorems hold for every value of the constants that the named assumptions
of the modules allow: any number of accounts, processes, kills and any int
width; any number of two or more philosophers; any number of threads and
tasks; any number of connections, slots and descriptors; any lines and numbers
that are typed; any files, jobs and buffers. Every safety property that a run
checks has a theorem.

A theorem about a program assumes its specification and nothing else, except that
the four liveness theorems also assume `[]StepsAreEnabled` (see below).

### What is assumed, and induction

The provers have no induction over an unknown predicate. Where a proof needs
it, the property becomes a set: `LeastNatural` (a set of naturals that is not
empty has a least element, from the well-foundedness of < in the library) gives
`Induction`, or `FromOne`: a set of naturals that has 0 and with n also n + 1 has all. A
recursive function is a `CHOOSE`, so a lemma shows first that a function with
its equation exists (`SummingExists`, `FilteringExists`, `LookingExists`), and the
proofs use the equation.

### The modules

**`BankShmProofs`.** Theorems: `TypeCorrect`, `MutualExclusion`, `LimitsHold`,
`DeadHolderFreezes`, `BankIsAtomic`, `MoneyConserved`, `HolderGetsOut`. The inductive invariant
`IInv` joins the type invariant and `SemaphoreCountsHolder` with two facts.
`RequestInv`: a process inside a method has passed the tests made before `sem_wait`, and one
that is past `TransferCheck` has passed those too, against the committed bills.
`BillsInv`: while the semaphore is free the bills are the committed ones, and
otherwise they are as far from them as the holder's `pc` and loop index say
(`Progress`). The refinement follows: `sem_post` commits exactly the outcome of
one request, every other step is a stutter of `Bank`. Neither `MutualExclusion`
nor the refinement is inductive without `Progress`, since a step of a sweep
must know that the accounts below the index are done and the others untouched.
`MoneyConserved` is `MoneyOnlyBySweeps`: modulo the number of ints, the sum of all
balances and of the amount that a half-way transfer has taken and not yet
given changes in a sweep only. `TotalDiffers` (by induction over the accounts)
turns one changed bill into a changed sum; `TotalMoves` says that the wrap of an
`int` moves the sum by a whole modulus, which `SameMoney` does not see; and
`InFlightIs` needs `SemaphoreCountsHolder`, since with two transfers half way the
amount in flight would not be one amount. `HolderGetsOut` is why the semaphore
comes back: whoever is inside a method has a next statement, whatever its request,
and each of its steps shortens its way to `sem_post` (`Way`), which the step of
nobody else lengthens.

**`PhilosophersProofs`.** Theorems: `TypeCorrect`, `Exclusion`, `NoCircle`,
`DeadlockFree`, `DestroyedLast`, `EveryStepCounts`, `NothingStops`. `IInv` joins `TypeOK`, `SticksAreExclusive`,
`MealsInv` (who holds a stick has a meal left) and `ChildrenInv` (what main
knows of its children). The absence of circles is the classical argument by
order: every philosopher takes its sticks in ascending `Rank`, where stick 0
has the rank N because of the swap in the code; in a circle of waiting
philosophers the one that waits for the highest rank is waited for by nobody.
`DestroyedLast` counts: after k calls of `wait` either k children are reaped,
or there was none left to reap. `EveryStepCounts` and `NothingStops` are the two
halves of why main ends. `Way(p)` bounds the steps that p has before it (four for
each meal left, less what it has done of this one), `MainWay` those of main; every
step shortens one of them. And as long as main is not done somebody has a step,
unless a stick is in a dead hand: main waits for a child, and then `DeadlockFree`
finds a child that can move.

**`ThreadProofs`, `Scheduler`.** Theorems: `TypeCorrect`, `MutualExclusion`,
`TasksAccounted`, `DrainedBeforeExit`, `MutexDestroyedLast`, `IsAPool`, `PoolWindsDown`. `IInv`
joins the four checked invariants with `TaskInv` (where a worker's local task is
empty) and `MainInv` (main's loops: who has been started, joined, and that
`stop` is set exactly from `set_stop` on). That a worker which has left its
loop leaves no work behind needs `MainInv`: no `run` follows `stop`. `IsAPool`
maps `doing` to the workers' local tasks and `gone` to main's end.
`PoolWindsDown` says why the destructor returns: some thread can always go on (a
thread that waits for the mutex waits for one that can), and after `stop` every
step shortens the queue, or leaves it and shortens the way of one thread to its
end. Before `stop` there is no such bound: workers poll.

**`ThreadProofs`, `ParallelSum`.** Theorems: `Partition`, `SumOfParts`,
`JoinsFirst`, `PartsTypeCorrect`, for every size, number of threads and number
of threads that cannot be created. The arithmetic is in four lemmas: `BlockBounds` (t times
n div m rises with t and stays within n), `BlockType`, `BlocksFollow` and
`OneBlock` (every position lies in exactly one block, the one its quotient
names, or the last). `IInv` says which threads exist in each phase of main, that
each has its block, and that the joined ones have written its sum. `SumOfParts`
is the property `EachPositionOnce` of the run `parallel_sum`.

**`PipeProofs`, `Smokers`.** Theorems: `MutualExclusion`, `IngredientsConserved`,
`InputIsServed`, `DataDestroyedLast`, `NoOtherStandstill`, for any number of smokers. `IInv` joins
the checked invariants with `PhaseInv` (what main has forked, signalled and
waited for in each of its phases) and `HandlerInv` (the handler has the mutex
only if the loop it interrupted has not, and ends before its smoker does). That
no smoker leaves before the end of the input needs `PhaseInv`: a smoker only
leaves after a signal or at the end of its pipe, and main sends the first and
brings about the second after the input. `NoOtherStandstill` says that the ways of
`Stuck` are all that can bring the program to a standstill after the input: a
smoker that main waits for can go on, is stuck, or waits for the mutex, whose
holder can go on or is stuck. It needs `Signalled`: who is waited for has been sent
its SIGTERM.

**`SocketProofs`, `ChatServer`.** Theorems: `TypeCorrect`, `MutualExclusion`,
`OwnDescriptors`, `Registry`, `StalledPeerFreezes`, `MutexComesBack`. `RegistryExact` alone is not
inductive: `RemoveClient` erases the first entry with a number, so the proof
needs `NumbersInv`, that while no descriptor came back too early a registered
client shares its number with nobody who still uses one. `ThreadInv` says that a
thread that has begun has a descriptor, and where it stands in the vector.
`MutexComesBack`: a connected thread can go on, or waits for a mutex whose holder
can, or a peer has stalled; and each step of the holder shortens its way to the
unlock (`ToUnlock`), which no other thread's step lengthens, since `clients` only
changes under the mutex. It needs `EntriesInv`: what stands in the vector, deleted
or not, once had a descriptor.

**`PollServerProofs`.** Theorems: `TypeCorrect`, `OwnDescriptors`, `SlotsUsedUp`,
`Paired`, `SigpipeAfterLong`, `AnswersCome`. `QueueInv` says who waits to be accepted and what
main has in hand; `PairedInv` that a client whose messages all fitted is `Alone`:
at most one message of it is on its way to the server, in the thread's buffer or
on its way back, never two of these at a time. Lemmas about sequences and
cardinalities carry the arithmetic of the buffers and of the slots. `AnswersCome`
is the liveness property `AnswerComes`: a client that waits and has a slot is not
left waiting, also when messages are cut or joined. It rests on three more
invariants (`LiveInv`): who has connected is in the queue or has a descriptor
(`KnownInv`); while a client waits and its thread does too, part of the message or
of its answer is under way, or main has died (`UnderWay`); and a thread only gets
to its `close` after its client has left (`CloseInv`).

**`BankSegmentProofs`.** Theorems: `TypeCorrect`, `MutualExclusion`, `LateIsSafe`,
`RemovesItsOwn`. `ObjectsInv` says that an object has one `./init`; `BuilderInv`
what that one has done to it at each place; `SemInv` that a semaphore is 0 while
its object is visited, and that nobody visits an object whose `sem_init` is still
to come. The last is the heart: it is why early clients cannot break
`OneVisitor`.

**`SocketProofs`, `Calculator`.** Theorems: `RightAnswer`, `CalculatorTypes`,
`AnswersArePromised`, `IdleCopiesJoin`. `RightAnswer` is about data: whatever a record was used for
before, `parser` and `calculate` make of a line the answer that the meaning of
the operation asks for (`Expected`), unless the division traps. Sums, differences
and products rest on `WrapIsTheInt` (of all ints exactly one is congruent to a
number), quotients on `QuotientIs` and `OneQuotient`. The invariant then is that of
a conversation: a client that waits has its line on the way, or in its handler
with the right result, or the right answer on its way back, and never two of
these (`Conversation`); and the copy that has the port runs (`ConnectionInv`), so
that who connects is not lost at once. Each action maps to one step of `Service`
(`StepIsService`): `SendLine` asks, `Receive` hears, `Trap`, `Join` and `Die` are one
`Part` in which a client leaves and the clients of its server lose it
(`EndIsPart`). The theorem is the property `RefinesService` of the run `calculator`.
`IdleCopiesJoin` is the liveness property `IdleCopiesEnd`.

**`PipeProofs`, `PrimePipe`.** Theorems: `FindsThePrime`, `PrimeTypes`,
`PrimesArePromised`, `ReadsReturn`, `BothEnd`. `FindsThePrime`: the loop finds the n-th prime of every n whose
prime is an int, although `p * p` wraps. `SmallDivisor` (the least divisor of a
number is a prime, and its square does not exceed the number) makes trial
division right: the primes that matter have squares that are ints
(`TrialDivision`). `AllFound` is the induction over the loop, `PlaceOfPrime` counts.
The invariant `InFlight` says where the request of a parent that waits is: in its
pipe, in the child, in the other pipe, or gone with the child. It is what makes
an answer belong to the number that was typed last; without "the pipes are empty
while the parent does not wait" it would not be inductive. The theorem is the
property `RefinesService` of the run `prime_pipe`. `ReadsReturn` and `BothEnd` are its
liveness properties `ReadReturns` and `ExitEndsBoth`. They need `EndsInv`, that a
process past its first closes holds no end of its own direction open, so that a
read sees the end of the pipe when the other process is gone, and `OneRequest`,
that never more than one request is under way.

**`ByteCopyProofs`.** Theorems: `TypeCorrect`, `CopyCorrect`, `SuccessWhole`,
`MixedInPlace`, `MutualCopyLoses`. What a copy has done is a function of how far it
has read: `Due` is what the bytes read so far make it write, `Done` how much of
that it has written. `Good` says for each process that it has read without a gap
(`Progress`), that its destination is what it has written (`DestIsDone`, while
nobody disturbs it), and that a file copied onto itself is empty when it is read
(`SelfEmpty`). The lemmas say that leaving out zeros and cutting at the first zero
commute with cutting the input into buffers (`WithoutZerosConcat`, `KeptConcat`),
so that the borders of the buffer do not show, and that a second write continues
the first (`WrittenTwice`). `MixedAt` is for any number of writers on one file:
every byte has its own place in what one of them writes. `PairInv` is for two FS-2
that copy onto each other: while only one has emptied its destination it copies
the old contents of its source; when both have, both copy the file that was
emptied last (`Follows`).

### Liveness

Four liveness properties of the runs are theorems: `ReadReturns` and `ExitEndsBoth`
(`PrimePipe`), `AnswerComes` (`PollServer`) and `IdleCopiesEnd` (`Calculator`).
Fairness speaks of `ENABLED`, which the provers cannot look into. So the modules say
with explicit guards when a process has a step (`ParentCan`, `HandlerCan`,
`ServerCan` and so on), and the theorems assume `[]StepsAreEnabled`: where a guard
holds, the action is enabled. That is a fact about the shape of the actions, and
no more is assumed than that: TLC finds it true in every reachable state of
the instances when `INVARIANT StepsAreEnabled` is added to `PrimePipe.cfg`,
`PollServer.cfg` or `Calculator.cfg`. Each proof is a chain of stages: in a stage
some process has a step and keeps having it until it takes it (from the
invariant), and the step leads to the next stage, which the rule of weak
fairness turns into a leads-to.

Such a chain has a fixed number of stages. Where the number depends on the state
(a queue, a sweep over the accounts, the meals that are left) the proof would be an
induction over a temporal formula, which the library offers only with an operator
parameter. There the theorems prove all but that: that a bound on the steps ahead
is a natural number that each step makes smaller, and that somebody has a step
(`EveryStepCounts`, `NothingStops`, `PoolWindsDown`, `HolderGetsOut`,
`MutexComesBack`, and `NoOtherStandstill` for the second part). The step from
there to "eventually" is left to TLC.

Only model-checked, then: `SemaphoreReleased`, `Finishes` of both modules,
`DepartedLeave`, `IngredientsTaken`, `EndsOrStuck`, `AnswerComes` of `Calculator`,
`DepartedClosed`, `CopiesEnd`, and `ENABLED` itself.

## 5. Not modelled

- Formatting, colours, prompts and the wording of messages.
- In the bank: the state of `cin` after bad input. A client chooses any request
  of a finite set, and may repeat it. `nullptr` semaphores and a failing
  `sem_init` end `./init`. In the segment: an `fstat` that fails, and an argument
  of `./init` whose size overflows.
- In the chat: message texts, and TCP's freedom to split and join them.
- In the pool: a thread that cannot be created and a task that throws; both end
  the process.
- In the smokers: a `fork` or `pipe` that fails, and the writes past the end of
  the vector of pipes (line 47), which land in the slack of the allocation.
- In the poll server: the set-up of the listening socket, a `send` that blocks,
  and TCP splitting what one `send` wrote, which the loopback does not do.
- In the calculator: a line longer than `buf_size`, which two `recv` would take
  for two lines; sockets and threads that cannot be created.
- In the prime server: a `pipe` or `fork` that fails, which ends the program at
  once, and a number whose prime is no int.
- In the copies: file permissions, the counts that are printed, and the buffer of
  `HTTP_ex`'s `std::ofstream`: what it is given counts as written. Two FS-11
  that copy to each other's source with offsets could go on for ever; no job of
  the run does, and `CopiesEnd` does not speak of it.
- do-command: one fork, exec and wait. Its loop (`do_command.cpp:53`) writes each
  argument one place too far, so that the name of the command is uninitialized.
- The chat client, the simple chat, FS-1, FS-3, FS-4, FS-5 and the sort of
  complex numbers: sequential, or contained in what is modelled. The chat client
  is the peer of `ChatServer`; FS-1 is the reading half of FS-2's loop; FS-3
  overwrites a file with what follows a string literal in memory (line 32).
- `ENV-2/build` and the makefiles are generated or build files.

## 6. What the checks say about code that does less than it seems

The violation run, `chat_dangling`: the socket is closed before `remove_client`
looks for it by number. A connection accepted in between gets the number,
registers, leaves first, and its removal erases the older entry instead of its
own. `/list` then announces a user whose record is freed.

The passing runs have conditions in their properties, and each names something
the code does not keep:

- `LimitsBreakOnlyByOverflow`: `acc.balance + amount > acc.max_balance` is evaluated
  in `int`. Near `INT_MAX` the sum wraps (the overflow is undefined behaviour, and
  wraps in the code that compilers produce for it), the test passes, and the
  balance lands below its minimum. This is the only way a balance leaves its limits.
- `DepartedLeave` has two exceptions. `send` with flags 0 raises SIGPIPE on a
  connection that was reset, and the server has no handler: the error branch
  after it is not reached and the server is gone for all. And a peer that does
  not read stops `send_all` with the mutex in its hands: the theorem
  `StalledPeerFreezes` says that nothing moves meanwhile.
- `EndsOrStuck`: the loop of the smokers counts on SIGTERM to interrupt its `read`,
  but a handler installed with `signal` restarts it, and the pipe does not end
  either, since each smoker holds the write ends of the others. With all of them
  in `read`, main waits for ever. The property names the only ways to get there.
- `SmokersServeInput` only promises that no smoker leaves before the input ends:
  the flag is shared and tested before the pipe, so that a smoker can leave with
  ingredients unread.
- `SlotPerThread`: no slot of the poll server is given back when a client leaves.
  The client after the last slot is accepted, never served and never closed,
  even when it is alone.
- `AnswersPaired` holds for clients whose messages fit: after one that does not,
  a client takes what is left of one answer for the next one. `AnswerComes`
  shows that it is nevertheless never left waiting.
- `LateClientsSafe` speaks of clients that open a finished bank. An earlier one can
  map nothing and crash, see an empty bank, or sleep on a semaphore that is
  then initialized under it.
- `GivesUpOwnBank` excepts an `./init` that a `./destroy` has overtaken: when it then
  fails, it removes a name that may refer to another `./init`'s bank.
- `RefinesService` of the calculator: a client may miss an answer because another
  client has divided the least int by -1.
- `SuccessIsWhole` is true of FS-2 only. FS-10, FS-11 and `HTTP_ex` take a read
  that fails for the end of the file and report success. That
  nobody else writes to the two files is part of the property.
- `OneContentsLeft` says what is lost, and that every copy involved reports success:
  a file copied onto itself, and at least one of two files copied onto each
  other. It does not say that something is left: both files may end up empty.

## 7. Plan

What the next steps would be, in this order:

1. The bound on the steps of `ByteCopy` and of the queue in `Calculator`, as
   `PoolWindsDown` has it for the thread pool; the induction itself when the provers
   can instantiate it.
2. An abstract specification of a server with a limit on its clients, and what
   `PollServer` implements of it.
3. The chat client as a module of its own, composed with `ChatServer`.
4. TCP's freedom to split and join messages, in the chat and in the calculator.
