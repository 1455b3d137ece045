# Formal models of the `dijkstra` repository

The repository holds five small Unix programs written in C. This directory holds
TLA+ models of them, the TLC configurations that check the models on small
instances, and theorems about them that TLAPS proves for every instance.

## Inventory

| Part | Source | State | Operations | Hard behaviour |
|---|---|---|---|---|
| Shortest paths | `ex-1/dijkstra.c` | cost matrix, `dist`, `prev`, `sptSet` | `minDistance`, `dijkstra`, input validation in `main` | integer sentinel `INF`, unreachable nodes, `prev` is not reset between roots |
| Buffer cache | `ex-2/getblk.c`, `init.c`, `proc.c`, `main.c` | doubly linked hash queues and a free list over one pool of buffers, status bits | `getblk`, `brelse`, list primitives, `init`, `set`/`reset` commands | two rings threaded through one buffer, delayed write, the retry loop of `getblk` |
| Shell | `ex-3/main.c`, `proc.c`, `gettoken.c`, `getargs.c` | foreground and background process ids, stack of stopped jobs | command, pipeline, redirection, `fg`, `&`, signals | `fork`/`wait` order, signal handlers that interrupt `waitpid` |
| MyDHCP server | `ex-4/server.c` (same file in `mydhcp/`) | ring of addresses, timers, last peer | answer DISCOVER/REQUEST/RELEASE, age leases, resend OFFERs | lost, repeated, late datagrams; alarms beside datagrams; clients that die |
| MyDHCP client | `ex-4/socket.c` (same file in `mydhcp/`) | status, seconds passed, address, signal flags | discover, request, renew, release | the same, and SIGHUP at any moment |
| Command lines | `ex-2/input_line.c` (the same in `getargs.c` of `ex-3`, `ex-4`, `ex-5bq`), `ex-3/gettoken.c` | none | `getargs`, `gettoken`, the loops of the shell over the tokens | words that are too long or too many, one look-ahead character, redirections found in the whole line |
| File transfer | `ex-5bq/proc.c`, `myftpd.c`, `myftpc.c`, `myls.c` (`ex-5/` is the version before) | connection, current directory, files | `get`, `put`, `ls`, `dir`, `pwd`, `cd`, `quit` and their local forms | TCP splits what one `send` wrote; a child per connection; failures in the middle of a transfer |

The parts do not call each other; the two MyDHCP programs interact through UDP
datagrams, the two FTP programs through a TCP connection, the shell with its
children through signals, pipes and `waitpid`.

What makes each part correct:

- Shortest paths: the answer is the length of a shortest route, the printed
  predecessors lead back along one, no array is indexed with the sentinel.
- Buffer cache: both families of rings stay closed in both directions; a buffer is
  in the free list exactly while nobody holds it; a block is in one buffer; a buffer
  that is held is not given away, and nobody waits for one that is not; `getblk` returns.
- MyDHCP: an address in use is leased to its user; nobody shares one; a renewal does
  not change it; every question is answered, and what a dead client had comes back, as far as
  the code's way of ageing leases allows.
- Shell: the prompt comes back, and only after all processes of the line have ended; a
  stopped job can be continued; an interrupt leaves no process behind.
- Command lines: the programs get the words, and each command of a pipeline the
  redirections, that the line means.
- File transfer: both ends agree on which answer belongs to which command; a transfer that
  reports no error has copied the file; every command is answered; no child outlives its client.

`ex-5/` (before `ex-5bq/`), `tmp/`, `ex-3/exercise/`, `ex-5/teacher/`, the other files
of `ex-1/` and the given samples are older copies, small exercises or given code.
`mydhcp/` is `ex-4/` again, with the state diagrams `状態遷移図.pdf`.

## Modules

| Module | Stands for |
|---|---|
| `DhcpNet` | the UDP datagrams between server and clients, as a bag |
| `DhcpServer` | `ex-4/server.c` |
| `DhcpClient` | any number of processes of `ex-4/socket.c` |
| `MyDhcp` | the three together; safety properties; no relation between clocks |
| `MyDhcpTimed` | `MyDhcp` with one alarm per process and second |
| `LeasePool` | abstract: a FIFO pool of addresses, implemented by `MyDhcp` |
| `Dijkstra` | `ex-1/dijkstra.c` |
| `BufCache` | `ex-2/`, the pointers as they are |
| `BlockCache` | abstract: a cache with a queue of idle buffers, implemented by `BufCache` |
| `FtpWire` | the messages of `ex-5bq/` and the TCP connections |
| `FtpServer` | `myftpd`: the parent, a child per connection, the files |
| `FtpClient` | any number of processes of `myftpc` |
| `MyFtp` | the three together |
| `FileStore` | abstract: files that only grow, fetched as snapshots, implemented by `MyFtp` |
| `Shell` | the jobs of `ex-3/main.c` and `proc.c`, with the processes and the user's signals |
| `CommandLine` | `gettoken.c`, the parsing in `ex-3/main.c`, and `getargs()` |
| `MyDhcpProofs`, `DhcpEntryProofs`, `DijkstraProofs`, `BufCacheProofs`, `FtpProofs`, `ShellProofs`, `LineProofs` | theorems |
| `CommonLemmas` | what several of them need: induction, recursion, sequences |
| `MCMyDhcp`, `MCMyDhcpTimed`, `MCDijkstra`, `MCBufCache`, `MCMyFtp` | definitions the configurations use |

A definition whose comment calls it a mutant of another, or whose name varies that of
the definition after it (`IsMinStrict` and `IsMin`), is the same code with a bug in it. No
specification uses it; put in the place of the other, it breaks the property that
`PROJECT.json` names beside it.

### MyDHCP

`client_list` is a ring of entries headed by a dummy. The model keeps a record per
address (`status`, `id`, `rttl`) and the sequence `order`, the entries along `fp`. A client
process is named by its address and port, so `id` is one value.

One action is one event of the server: the return of `select()` with a datagram
(`check_cli_list`, the row of `ptab` it leads to, the reply sent and the entry changed), or
with `EINTR`. The tick is split by what the scan of the ring finds:

| Action | Code |
|---|---|
| `ServerDiscover`, `ServerStarve` | `soffer`, `sstarve` |
| `ServerRequest`, `ServerRelease` | `sack`, `release` with `remove_and_insert` |
| `ServerUnknown` | the end of `wait_event()` without a return value |
| `AlarmOutsideSelect` | `sigh_alrm` while the process is busy |
| `ServerTickOnly` | nothing is due, or `alrmflag` is not 1 |
| `ServerExpire` | the first busy entry is a lease: `count_down` |
| `ServerCount`, `ServerResend`, `ServerTimeout` | the first busy entry waits for a REQUEST: `time10`, `soffer` again, `exit(1)` |

Two facts about the code shorten the model. The field `p->ttl` is never set: `sack()` clears
`rbuf` before it looks at `rbuf.code`, so the branch with the assignment is dead and
`count_down()` always releases. And the scan of the ring on a due tick ends at the first
busy entry: either it breaks, or `release()` has moved the entry to the tail, where
`p->fp` is the end.

A call of `wait_event()` that ends without `return` is undefined behaviour. `ServerUnknown`
takes what the build of `ex-4/makefile` does: the value left is that of the preceding
`fprintf`, which is no event of `ptab`.

The client is one state machine (`INIT`, `OFFER_WAIT`, `ACK_WAIT`, `IPGET`, `EXIT`).
`ClientKilled` is the end of a process without any code running. The branch of
`wait_event()` that repeats a DISCOVER after 10 s has no action, because the alarm of
every second interrupts `select()` first; a run shows what follows from that.

In `MyDhcpTimed`, `ticked` holds the processes that have had the alarm of this second.
A second ends when all have had it and no datagram is under way: alarms come in any
order and at any moment among the datagrams of that second.

### Shortest paths

`pc` says where the program is; one step is one iteration of the loop of `dijkstra()`, and
`main()` runs over all roots with `dist` and `prev` kept in between, as the arrays are
globals. `Settle(u)` has no step where `minDistance()` would return `INF` as an index;
`IndexInBounds` says that this does not happen.

### Buffer cache

`hash` and `free` are records of two functions, `fp` and `bp`, over buffers and heads.
`InsertHead`, `InsertBottom`, `Remove` are the list primitives, assignment by assignment.
A step is one command, but each pass of the loop of `getblk()` is a step of its own, and
`want` holds the block meanwhile. `BlknoOf` is the condition of that loop after
`continue`: it reads `blkno` of the first free buffer that is left, or of the list head,
which is 0. The commands that only print have no action; `quit` is the end of the behaviour.
With `L` among `Settable` the commands `set` and `reset` may unlock or lock a buffer behind
the back of the free list; what the code then does through a NULL pointer is undefined, and
no step is taken (`GetblkHit`). In particular `set L` leaves a buffer in the free list, from where
the next `getblk()` gives it to another block without a look at the bit. `main.c` offers the bit but
nothing says what it does to the cache, so the properties are stated for the other bits. `W` marks a
buffer somebody waits for; a user who sets it breaks `WaitedIsHeld`, whose theorem leaves it alone as well.
`BlockCache` is told which buffers hold good data (`good`): that decides at which end of its queue a buffer
comes back.

### File transfer

A stream holds one element per `send_msg()`: a header with its data. The other end takes a header
(`HeaderOf`) or a header with its data (`MessageOf` at the client, `DataHeard` at the child that stores).
The data are asked for with one `recv()`. For the clients in `Split` TCP may hand over a part of them, in either
direction (`Parts`). The code does not look at what `recv()` returns and writes as many bytes as the header says,
so that zeros stand for what has not come (`Buffer`); the rest is a `STRAY` element of the stream. A client that takes
it for a header goes `astray`, as its length means nothing. A child reads over it in pieces of the
size of a header (`ReadOver`, `Beyond`), takes it for an illegal command (`StorIllegal`), for a header of data, whose
length fits no buffer (`StorData`: what is then written is represented by the bytes themselves), or for `QUIT`, or
it crashes (`NoFunction`). Headers and names are not split, what is left of a name ends where a header would,
`write()` writes all or nothing, and the buffers of a connection have no bound.

| Action | Code |
|---|---|
| `Pwd`, `Cwd`, `Quit`, `List`, `Retr`, `Stor` | the handlers of `cmdtbl`, up to their first answer |
| `ListEntry`, `RetrMore`, `RetrEnd`, `RetrFails` | their loops over data, one message a step |
| `StorData`, `StorFails`, `StorEof` | the loop of `sput_proc()` |
| `StorIllegal`, `ReadOver` | a request, or stray data, in that loop is an illegal command; the name behind its header is left in the stream and then taken for a header, which crashes the child (`NoFunction`) or is read over |
| `ListCrash` | `stat()` of the bare name is not checked, `getpwuid()` may be NULL |
| `NoFunction` | the row of `DATA` in `cmdtbl` has no function, and `pt == NULL` never holds |
| `LoopEof` | `recv()` returns 0 in the loop of the child |
| `Accept`, `SigChld`, `Wait`, `ServerKilled` | the parent; `sig_chld()` blocks SIGCHLD and calls `wait()` once |
| `AskX`, `XReply`, `XData`, `GetFails`, `PutMore`, `PutEnd`, `PutFails` | the commands of the client |
| `ClientEnds` | end of input, SIGPIPE, or any other end |
| `LoseTail` | what a server that is gone has sent last may not arrive |

`faults` bounds the failures of `read`, `write`, `popen` and the ends by a signal. `lost` notes that a
failure has left an answer, or a part of one, that no command waits for: from there on the two
ends are out of step, which the protocol cannot repair. `base` and `putting` remember what a
property compares with. The parent never closes its copy of a connection, so a client whose child
has crashed waits until the parent ends.

### Shell

A process is an id with a `state`, a process `group`, the loop counter `stage` it was forked with
and the process that writes what it reads. The shell is between two of its calls (`pc`); handlers run
at any such point, and inside each other except for the same signal. No handler is installed with
`SA_RESTART`, so a blocked `waitpid()` returns. The steps of `fg_proc()` are those of the compiled code
where it shares `tstp_cnt` with the handler: the decrement is a load (`Fg`) and a store (`FgStore`),
and the index of the next load is the register or the variable again (`FgLoad`). A ^Z with all places of
`tstp_cpid` taken writes past its end, and one inside of `fg_proc()` may make that read there; as nothing is
defined from there on, such a step leads to `pc` "overrun" and the shell takes no other (`Overrun`). The code has
10 `Places`. `bg_pid` has ten as well, which neither push tests; in the model it is a sequence without an upper end.

What the model shows of the code without a property, as nothing says otherwise:
with `&` the shell keeps the pipes of a pipeline open and then waits for all its stages, so that it hangs if
one reads its input to the end (the exception in `PromptReturns`); a ^Z just before `waitpid()` leaves it
waiting for a stopped job; a ^Z inside of `fg_proc()` may lose a job (`torn`); a pipeline does not set
`cpid`, so ^C and ^Z reach an earlier command; a stage that calls `setpgid()` before the first one has
made the group ends; `a &` and then `b &` waits for b.

### Command lines

`CommandLine` has one variable, the line, typed one character after the other so that TLC looks
at all lines up to `MaxLine`. `Gettoken`, `Tokens`, `Parsed` and `Getargs` are the code,
`TokensMeant`, `Commands` and `WordsMeant` say what a line means without any loop. Both
are compared in the three invariants. A long word is cut and the character at the cut comes
twice (`Short`), and from `MAXCOM - 1` words on `getargs()` leaves the rest of the line unread. Of a line
that is too long it loses the word at the cut (`WordsEnded`).

## Runs

| Run | Bounds | Shows |
|---|---|---|
| `dhcp_faults` | 2 clients, 2 addresses, TTL 2, one datagram lost, one repeated | the leases back the addresses; renewals keep them; entries are not forgotten; the ring is a FIFO pool |
| `dhcp_timed` | 2 clients, 2 addresses, TTL 3, nothing lost or repeated, both clients may die, one alarm a tick missed | no lease runs out, every DISCOVER and, with the exception below, every REQUEST is answered, a dead client's lease comes back |
| `dhcp_wrong_lease` | 2 clients, 2 addresses, TTL 3, one may die | finding |
| `dhcp_misdirected` | 2 clients, 2 addresses, one lost, one repeated, one alarm missed | finding |
| `dhcp_no_retransmission` | 2 clients, 2 addresses, one lost | finding |
| `routes_small` | 3 nodes, all matrices with costs 0, 1, 2 and `INF` = 3, some larger | answers are shortest, predecessors lead back to the root, indices in bounds |
| `cache_rings` | 3 buffers, 2 hash queues, 4 blocks, `V` and `D` set and reset | rings, locks, marks of waiters and blocks agree after any sequence of commands |
| `cache_ends` | 2 buffers, 2 queues, 4 blocks, `D`, `V`, `O` set and reset | `getblk` ends; the pointers implement `BlockCache` |
| `ftp` | 2 clients, 2 directories with one file name, 3 commands of one client or one of each, files of 3 bytes in pieces of 2, one failure, messages of one client split both ways | both ends stay in step, transfers copy, the files are a store |
| `ftp_ends` | the same with one directory and 2 commands of the client that is split, or one of each | commands and children end |
| `shell` | 3 process ids and one taken by another program, pipelines of up to 3 commands, 3 signals, a stack of 2 places | stopped jobs stay reachable, the stacks are kept within their ends, the prompt waits and comes back, an interrupt leaves nothing |
| `lines` | all lines of up to 7 characters over 7 kinds, `TOKENLEN` 4, `MAXCOM` 3, `MAXCHAR` 7 | tokens, commands and words are those the line means |

Why the bounds are enough to be of interest:

- Two clients and two addresses are the least with which an answer can reach the wrong
  party or come from the wrong entry. One repeated DISCOVER gives a client two
  entries, and then the other client starves; one loss leaves a client in each waiting state.
  `RetryLimit` is 1 for the 10 of the code: it only says how many due ticks pass.
  Reordering and delay are never bounded.
- TTL 2 is the shortest with a renewal before the end. `NoLeaseRunsOut` needs TTL 3: with
  1 or 2 the alarms of a faithful network can come in an order in which the server expires
  the lease first (seen with the same model; no text of the repository says which TTL is allowed).
  The run takes 3 and lets one alarm a tick be missed; the theorem `LeasesRenewedInTime` is for any TTL
  from 3 on and any number of clients. A due tick that an alarm outside of `select()` has spoiled starts
  `rttl` again from 0, so `DeadLeaseReclaimed` is stated for a server that misses no more alarms from some time on.
  With two addresses and two clients that may die, `count_down()` frees the wrong lease, and an entry that waits
  for a REQUEST keeps it from the leases behind. `sstarve()` does not happen in this run: both clients find an address.
- Three nodes with zero off the diagonal, asymmetric links and a sentinel that real routes
  can reach include the rejected tables and those whose routes are as long as `INF`, and
  every root after the first starts with the predecessors of the one before.
- Three buffers are the least with a buffer that has a buffer on both sides in a ring; four
  blocks in two queues give replacement within a queue and across queues, and the block 0
  that the list head pretends to have. The code has 12 buffers and 4 queues.

- One failure anywhere, and two clients that both give a command or one that gives three: two commands
  after one that failed, which brings a request to a child that still stores (`StorIllegal`), and two puts or
  a put and a get of the same file that mix. The first client has two files it can put, of two pieces and of one, so that it may
  ask for the second while the first is still being stored. The second client is the one whose messages are split. A file of two
  pieces has a first piece, one in the loop and an end; the file with a zero byte is longer than its string.
  `InStep` looks at the client whose messages are not split, since after a split the ends are out of step.
  Liveness takes two commands, of the client that is split, and one directory, so that the run stays short;
  the third command is for steps out of step.
- Two jobs that are stopped and one more, or a pipeline of three stages, and three signals, of which one may
  come inside the handler of another. Three are one more than the stack has places: the third ^Z writes past its
  end, and with two jobs stopped a ^Z inside of `fg_proc()` makes that read there. One id may go to another program
  (`MaxGaps`): then a pipeline waits for wrong numbers, which `ForegroundDone` excludes by
  `Consecutive`. `FlagValues` has both values of the uninitialised flag.
- Seven characters hold a pipeline of two commands that both redirect (`w<w|w>w`), three of `>`, and words
  longer than `TOKENLEN` - 1. `getargs()` runs into both its limits: the third word of a line, and
  the seventh character, counted with the newline, end it.

Deadlock is not checked where the program may really stop: after the last root is printed
in `Dijkstra`, in MyDHCP once the server has exited and all clients have ended, in `MyFtp` when all
clients have ended, in `Shell` after quit or when the process ids are used up, and in `CommandLine`
when the line is full. `BufCache` always has a command to take.

Symmetry is used for the clients, addresses and buffers in the runs without liveness.
In `dhcp_timed`, where TLC allows none, the addresses stand in the ring in one order at first (`OneOrderSpec`), as they differ in name only.

### Fairness

`MyDhcpTimed` assumes that the work of a second, datagrams and alarms, is done (weak fairness of all of it
together: within one second it is finite), that a client which has had its SIGHUP leaves, and that a second
ends (strong fairness of `NextSecond`: SIGHUPs may delay it but not for ever). Nothing obliges a client to start, to
be hung up or to die. `BufCache` assumes that `getblk()` goes on running until it returns;
no command has to be given. `MyFtp` assumes that a child, a client that waits or
transfers, `accept()` and the handler of SIGCHLD go on when they can; no user has to type
and no failure has to happen. `Shell` assumes that it and the processes which are neither stopped nor waiting
for input go on; without the user these take finitely many steps, so one fairness for all is enough.

Liveness has the exceptions the code has:

- `AckWaitEnds`: once a client was killed, `count_down()` may free the entry of another in its place; the next
  REQUEST of that one matches nothing and is not answered. So is one to a server that has ended.
- `DeadLeaseReclaimed`: alarms that go on being missed, and an entry left in `REQUEST_WAIT`: `count_down()` breaks off
  at it in every due tick, before it looks at the leases behind, until the server exits.
- `CommandEnds`: a child that has crashed (the parent keeps the connection open); a `cd` that failed with an errno
  `scd_proc()` does not answer; an answer left over: with a third command both ends can wait for each other, the child
  for data and the client for the answer to a request the child took for an illegal command; and a client in `Split`
  whose child has passed over a request with stray data, or taken them for `QUIT`.
- `PromptReturns`: waits for a stopped process and for a pipe the shell keeps open itself, and a shell that has left its
  stacks.

### Findings

Three runs end in a counterexample. Each states what a text of the repository says.

- `LiveLeaseKept`: the diagram has "Timeout / release" from an allocated address; the code
  remembers that some lease is due and releases the first one of the ring. After a client
  has died, a client that renews in time loses its address.
- `ResendKeepsClient`: the diagram has "timeout / soffer 再送" (send again) while waiting
  for the REQUEST; `soffer()` sends to whoever sent the last datagram and makes that
  client the owner of the entry.
- `OfferWaitEnds` with a lost datagram: the diagram has "Timeout / sdiscover() (再送)";
  the alarm of every second keeps the client from ever timing out.

## Proofs

TLAPS checks these for all values of the constants that satisfy the named assumptions
(`NetAssumption`, `ServerAssumption`, `ClientAssumption`, `DijkstraAssumption`,
`BufAssumption`; `WireAssumption`, `FilesAssumption`; `ShellAssumption`; `LineAssumption`).

`MyDhcpProofs`. `TypeCorrect` is the usual induction, one lemma per group of actions.
`LeasesBackAddresses` says that until `count_down()` has released something, an address a
running client has set is leased to it. That alone is not inductive: the address comes from an
ACK, and a RELEASE could take the lease away. `LeaseInv` adds that an ACK under way to a client
is backed by a lease (`AcksBacked`), and that a RELEASE travels only after its sender has ended
(`ReleasedHaveExited`). It holds under any loss, repetition or reordering, because
`check_cli_list()` compares the sender with the entry. `AddressesExclusive` follows: an entry
has one `id`.

`RingImplementsPool` takes the ring as the queue it is meant to be. `RingInv`: every address stands in the
ring, and once; the busy entries are those in front; a free entry is nobody's. Then a step does one of five
things to the ring (an offer of the first free entry, a grant, a release that moves the entry to the tail, a
resend, or nothing), and on the free part each is a step of `LeasePool`: `BehindMoved` follows the
entries behind a given place through `remove_and_insert()`. `RenewalsKeepAddresses` uses the order too:
the address of a client, or the one an ACK tells it, is that of the first entry in its name
(`FirstInv`), and `check_cli_list()` finds the first. An entry the client gets from a repeated DISCOVER stands
behind it.

`DhcpEntryProofs` is about the entries of the ring. `OneEntryEach` needs `EntryInv`: a client's DISCOVER is
under way once at most, and until the server has read it no entry bears the client's name; then every step
but two (`ServerDiscover`, `ClientStart`) gives a client nothing new (`Fewer`). `EntriesAccounted` rests on
`ConversationInv`: without faults, a client and the server have at most one datagram between them, and go
through the stages `Asking`, `Offered` or `Starved`, `Requesting`, `Acked`, `Owning`, `Leaving`, `Absent` together. The
datagram under way tells the stage (`StageOf`), and a step about one client leaves the others in theirs
(`OtherConversations`). That a REQUEST or RELEASE always finds its entry needs the ring to keep every
address (`RingComplete`), which `remove_and_insert()` does. `LeasesRenewedInTime` is about the two clocks of a
lease, for TTL 3 and more: the age the server has counted is at most one ahead of the client's seconds, and one
more while only the server has had its alarm in the second that runs (`InTime`); the client renews before it
has counted TTL/2 (`CountsInLease`), and TTL/2 + 1 is less than TTL. With a TTL of 1 or 2 the server can be first.

`DijkstraProofs`. `RouteInv` joins the order in which nodes are settled (`SettledFirst`) with
what is known inside the loop (`LoopInv`): a settled node's links can improve nothing, and
every finite distance is its predecessor's plus one link, the predecessor being settled. `NearestFirst`
is its first half. `AnswersShortest` and `PredecessorsTight` follow when `cnt` reaches
NNODE - 1: one node is left (by cardinality), and no link from it can help since it is the farthest.
`NoIndexOutside` counts the same way: while there is an iteration to do, a node is left, and the
nearest of those left, the last of equals, is what `minDistance()` finds.

`AnswersAreDistances` compares the answer with the definition, walks of at most k links. `WalkInv`:
after `cnt` iterations no distance is below the shortest walk of at most `cnt` links. In the other
direction, `NoShortcut` applied link by link puts the answer below every walk (`AnswersBelowWalks`).
`WayBack` rests on `BackInv`: after `cnt` iterations the root is reached by going back `cnt` times. An
iteration that settles `u` improves no node on the way back from a node it does not improve
(`SameWayBack`), and puts the nodes it improves one step behind `u` (`FirstStepBack`). Both
definitions recur over the natural numbers: `Repeated` shows that such a recursion has a
solution, and `NaturalSteps` (both in `CommonLemmas`) is induction for a property given as a set.

`BufCacheProofs`. `FreeListSound` says, for commands that leave `L` alone, that the rings are
closed in both directions and the free list holds exactly the unlocked buffers of the cache.
`BufInv` adds that the buffers with a block are those in a hash queue, and that
`insert_to_initlist()` frees none twice, which needs the free list of the code to name each
block once (`BufAssumption`). One lemma per list primitive says which elements a ring has
afterwards; one per command uses them.

On the same invariant rest `CacheTypeCorrect`, `HeldKeptForBlock` and `SleepersAreWoken`: only
`GetblkReplace` changes a block, and its buffer is the first of the free list, hence not locked. The mark
of those who wait is set on a buffer that is held, and `brelse()`, the only command that unlocks one, clears it.

Its second half turns rings into queues. A ring in which `fp` and `bp` agree has a tour, the sequence of buffers that
`fp` leads to from the head back to it; `insert_bottom()` and `insert_head()` make it one longer, `remove_buffer()`
takes one out, and the others stay. The walk of `hash_search()` is the tour. The invariant is that each hash queue has
a tour that meets the buffers whose block belongs there, each once, and that no block is in two buffers. It
gives `QueuesStayComplete`, and `OneBufferForBlock` since `getblk()` replaces only after a search that found
nothing. In `CacheImplemented` the tour of the free list is the queue of `BlockCache`: the program takes from its
front, and puts at its end, or at its front after `brelse()` of a buffer that is not valid or is old. All three are for
commands that leave `L` alone, as in the runs, for a finite pool and a `hash_list` without repetitions (the literal of
`init.c`), which `BufAssumption` says.

`FtpProofs`. `FtpInv` is the type invariant made inductive: types of each part (`WireOK`, `UpOK`, `DownOK`,
`ChildrenOK`, `ParentOK`, `ClientOK`), and that a child that transfers has a file that exists (`FileInv`), and
a client that transfers one of its own (`LocalInv`). One lemma per action. `WaitNeverBlocks` adds
`EnoughEnded`: there are as many children that ended and were not waited for as calls of `wait()` to come, one for
the handler that runs and one for the signal that is pending. `StoreImplemented` shows that every step of `MyFtp`
is one of `FileStore` or a stutter: the files only grow (`FilesGrow`), and the view of a client changes only when a
get ends or another request starts.

`BothInStep` is about the first message of a stream, and its inductive form (`StepInv`) about all of both streams.
`Fits` says what the stream to a client may hold while the client is in the middle of which command: one answer, or
an announcement and then data of which only the last message has code 0. `Together` says where the child can be: it has
no request to answer and is `Quiet`; the request is the last thing the client has sent and is `Pending`; the
child is `Sending`, nothing is on its way to it, and no end of data has been sent; or it has ended. What a
put has left in the stream may stand before a request: a child that still stores takes it, one that has gone
back to its loop ends (`NoFunction`). `Storing` says that such a child has the end of its data before the
next request, so that no request is ever an illegal command in step (`NeverIllegal`).
`lost` only grows, so the invariant needs no more than that it is not set. It is about the clients whose messages arrive
whole; what the others do to the files is in the invariants of the copies, and `StoreImplemented` is about all.

`GetsCopy` proves `GetCopies` for any number of clients and files of any length; other clients may be split as they
like. `FetchInv` relates the local file, what is on its way and the server's file, while the child reads and the client writes: there are numbers
`at` such that the i-th message of the stream carries the bytes of the file behind the first `at[i]`, the end of the data stands behind
all that was read, and the first `at[1]` bytes are in the local file behind what was there when get opened it
(`Carries`, `CopiedBy`). A piece sent makes `at` longer, one written takes its first element away, and what another
connection appends to the file lies behind all of them (`BytesStay`). `StepInv` is needed for the first
message, which is the answer to this get, and for the child, which does nothing but read until the end.

`PutsStore` proves `PutStores` in the same way from the other end. What the put has stored are bytes of the server's file
in its order, but not next to each other, since other puts may append between its pieces: `Stored` has the places in the
file as a witness, `StoredBy` the numbers `at` for what is still on its way, and a piece that is stored makes the witness longer
(`StoredMore`). `PutInv` adds what keeps other data out of that stream: the request of a put is the last thing on its way,
and nothing has been read for it yet (`Asked`); a client that hears its child has nothing else on its way (`Drained`); the end of the data stands
behind all that was read (`Ending`). The client has its prompt back before the child
has stored anything, so it may ask for its next put while the child still stores this one; `putting` is
then that of the next one, which `NextAsked` excludes, and where such a client ends before it has an answer, what the end left
of the stream decides (`StoresBefore`).

`ShellProofs`. `TypeInv` adds to the types that a pipeline has no more processes than its line has commands
(`LoopInv`). `StacksWithin` has two halves. For `bg_pid` the property is inductive as it stands (`PopInv`). For
`tstp_cpid`, every place in use has taken a signal, and `fg_proc()` uses a place below those that were in use when it
began (`PlacesInv`). `StoppedStayReachable` needs that a stopped process has
joined a group and that `fg_proc()` still holds the value it has read (`ReachInv`). `ForegroundWaited` says
more of each process of the line: it is gone or among those still to be waited for (`JobInv`).
`InterruptLeavesNone` splits the ids the handler goes through into those that are left and those before them,
of which none is a child any more (`KillInv`).

`LineProofs` is about lines, words and pipelines of any length, and any `MAXCHAR`, `MAXCOM` from 2 and `TOKENLEN` from 3
(with 2 `gettoken()` puts back all that it reads of a word, and never comes to its end). Both the loops and the reference
definitions are about ordered sets of positions, which `Ups` puts in order: the n-th is the one of rank n, and a
number above all others comes last (`Rank` and the lemmas after it).
`ArgsFound`: after n characters (`Ended`) `getargs()` either has all words that have ended and what there is of the last (`Going`),
or all the words it has room for, none of which can change any more (`Full`). A character that is not printed leaves the
words as they are, a blank ends the last one, another makes it longer or starts one; the reference does the same
(`SplitBlank`, `SplitNew`, `SplitLonger`).
`TokensFound`: `main()` stands at a place p where a token may begin (`MayBegin`), with the tokens that begin before p (`At`).
One round either takes the token that begins at the next character that is no blank and goes on to a place behind it, or there is
none left (`RoundIs`). This is where `ungetc()` matters: for `>` what follows decides, and in a row of `>` every second one begins
a token. Each round goes to a later place, so the rounds suffice. Without the condition on the words the tokens still have their type (`HoldsStay`).
`CommandsParsed`: a command lies between two bars (`Lo`, `Hi`). In a command that `Plain` admits the arguments are the tokens 1 to a for some a
(`ArgsFirst`), as many as words without operands. What follows them, a redirection, `&`, a bar or the end, is among what ends `argv`
of this command, and nothing before is (`EndsAt`). The redirections that a child looks for in the whole line are all in its own command (`AllIn`).

`CommonLemmas` holds the least element of a set of naturals, induction by steps for a property given as a set,
the existence of a recursion, and what a sequence is after an element is taken out.

Every invariant that a run checks is the subject of a theorem, and so are the refinements (`ImplementsPool`, `ImplementsCache`,
`ImplementsStore`) and the action properties. Only model-checked is liveness: temporal proofs under fairness and `ENABLED` are out
of reach of the prover.

## Not modelled

Printing, parsing of the configuration file, name lookup, the formatting of listings, the
search for programs in `PATH` and the small built-in commands of the shell. The DHCP fields
`code`, `ttl`, `netmask` (the server never reads them). Negative costs in the table of
`dijkstra.c`. Block numbers that overflow `atoi`. `brelse()` of a buffer that is not valid or old,
which clears the delayed write that was still to be done: the step is modelled, but nothing
says what should happen to the data. Failures of `sendto`, `recvfrom`, `malloc`, `fork`, `pipe`, after
which the programs exit or are undefined. What becomes of the shell's jobs after `quit`, the child's copy of
the handlers before `exec`, `ttou_handler`. Requests and headers that TCP splits. The ten places of `bg_pid`
(`ex-3/main.c`:77), which the pushes at 328 and 458 do not test.

Most other lines of the repository are not programs of their own: `mydhcp/` repeats `ex-4/`
file by file, `tmp/` holds older copies of `ex-1` to `ex-5`, `ex-5/` is the file transfer before
`ex-5bq/`, `ex-5/teacher/`, `tmp/teacher/` and `tmp/ref/` are given code, the `exercise/` directories and the
rest of `ex-1` and `tmp/` are programs of a page. A model of a copy would say nothing the model of the
current version does not say.

## Plan

Done: MyDHCP, shortest paths, buffer cache, file transfer, shell, command lines, and theorems
about each of them.

Left: what `gettoken()` makes of longer words, as a theorem about all lines; a client that sends a request in pieces.
