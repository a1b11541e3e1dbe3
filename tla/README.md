# A verification of the CommunicationNetwork-Course programs

The repository holds five course assignments and a final project. This directory
holds TLA+ modules for the parts whose correctness depends on the order of
events, the TLC configurations that check them, and proofs that TLAPS checks.
Paths below are relative to `src/`.

## 1. Inventory

| Part | State | Operations | What is hard | What makes it correct |
|---|---|---|---|---|
| `Assignment-3/Sender.c` | program counter, half, `counter`, file position, congestion control of two sockets | send size, send a half, ask for the key, FIN, AGAIN, END | handshakes on a stream without framing, no timeouts, repetition by the user, peers that die | every half once and in order; ends when its client is gone |
| `Assignment-3/Receiver.c` | `counter`, `recv.txt`, index of the measurements, congestion control | receive size, open, chunk, SEND KEY, FIN, AGAIN, END | every read is compared with strings that the file may hold too; a chunk may come in pieces; buffered output of a killed process | `recv.txt` is `send.txt` when it says so; each measurement at the index of its half |
| `Assignment-2/api.py` | none | build, pack and unpack packets | 16-bit lengths; two flags and a limit that depend on each other | what is unpacked is what was packed |
| `Assignment-2/proxy.py` | the dictionary `cache`, shared by threads | receive, look up, judge, forward, store, reply | unlocked shared state; clock read after the look-up; failure of the server | the right answer, no older than both sides accept; every client is answered |
| `Assignment-2/server.py` | none | receive, calculate in steps, answer | one `recv()` per request; errors with the cache policy of results | each request is answered; each step has the value of the expression |
| `Assignment-2/client.py` | none | build an expression, ask, print | a proxy that dies or resets | prints its own answer; ends |
| `Assignment-2/calculator.py` | expression trees | build, print with few brackets | precedence, associativity, cutting a text at positions found before | a text means its expression |
| `Assignment-4/new_ping.c`, `watchdog.c` | the last string read, a timer, processes forked | ping, pong, time out | a buffer compared without having been cleared; a process per round; a string nobody sends | a silent host is noticed, an answer ends the timer |
| `Final Project/Code/DHCP_Server.py`, `client1.py` | client: state and address; server: none | discover, offer, request, acknowledge | one port for all clients, no timeouts, offsets that differ | a client becomes ready; a client survives a refusal |
| `Final Project/Code/DNS_Server.py` | dictionary shared by two threads | query, update | keys of two types; an exception that ends one thread | every query is answered, also without the other thread |
| `Final Project/Code/TCPserver.py`, `RUDPserver.py`, `Client.py` | the files | check, download, answer | a check before the name is complete; two servers in one directory; exceptions that end a server | "complete" is true; no saved file is lost; every client ends |
| `Final Project/Code/main.py` | none | starts the programs | | |
| `Assignment-4/ping.c`, `Assignment-5/*.c`, `Assignment-1` | | section 7 | | |

Components interact as follows. Sender and Receiver share one TCP connection.
A client of assignment 2 connects to the proxy, which serves it in a thread of
its own and connects to the server for each request it cannot answer; the
server starts a thread per connection as well. `new_ping` starts `watchdog` and
talks to it over a local connection. In the final project `main.py` starts the
programs; a DHCP client that has become ready goes on to ask the DNS server; the
two download servers share nothing but the directory they write to.

## 2. Modules

    Wire ── Sender ──┐                      CalculatorHeader ── CalculatorProxy ── MCCalculatorProxy
       └─── Receiver ┴─ FileTransfer                                └─ CalculatorProxyProofs
                          │  ├─ FileDelivery (refined)
                          │  └─ MCFileTransfer                  Expressions ─┬─ Texts ─────────┐
                     FileTransferTypes            PacketFormat ── Question ──┴─ Calculation ── CalculationTexts
                          └─ FileTransferSafety                                      │               └─ MCCalculation
                                └─ FileTransferOneRound                              └─ CalculationProofs
    NameServer ── Dhcp ── MCDhcp      Downloads ── MCDownloads      Watchdog
                    └─ DhcpProofs         └─ DownloadsProofs            └─ WatchdogProofs

**`Wire`** (external: the kernel). Two streams of bytes. A byte is a pair of the
string it comes from and its place in it, so messages that arrive together, in
part or out of place can be told apart without spelling them. `ReadLens` gives
the lengths a `recv()` may return: up to the end of any string that was written,
up to the limit of the call and, if `Segment` is not 0, up to any `Segment`-th
byte of the file. `Reads(buf, k)` is the `strcmp` of the code; `Mimics` lets a
passage of the file read as a control string.

**`Sender`**, **`Receiver`**. One action for each `send()` or `recv()` with the
code up to the next one; `spc` and `rpc` say which call comes next. `counter`,
`fpos`, `rcounter`, `rfile`, `marks` are `counter`, the position of `fp`,
`counter`, the contents of `recv.txt` and `time_measurements[0..current-1]` (each
entry kept as the half it was started for). `listenCC` and `connCC` keep apart the
algorithm of the listening socket and that of the connection. Error exits that the code repeats at
each call are one action each: `SenderRefuses` and `ReceiverRefuses` (another string than
expected), `SenderLosesPeer` and `ReceiverLosesPeer` (0 or -1 because the peer
closed), `SenderDies`, `ReceiverFails` and `ReceiverKilled` (anything else, at
any moment, if `faulty`). `RecvNothing` is the read of 0 bytes that Receiver
writes and acknowledges like a chunk.

**`FileTransfer`** composes them and adds `Connect`: a new Receiver is started,
`accept()` returns. A later Receiver finds what an earlier one left in `recv.txt`.

**`FileDelivery`** is what a user may rely on: `recv.txt` grows from the front,
starts anew only when whole, is called complete only when whole. `DeliversFile`
states that `FileTransfer` implements it.

**`CalculatorHeader`** has the lengths of the packets of `api.py`: a pickle is its subject and
its length in bytes, `Constructible` and `Packs` are the two different limits of
a packet's length, `Unpack` what is left of a packet of which `recv()` returned `n` bytes.

**`CalculatorProxy`** has a client, a proxy thread and a server thread for each
element of `Clients`. The proxy's `process_request` is split where another
thread can come in between: `LookUp`, `Judge` (clock), `Forward`, `Fetch`,
`Weigh` (clock), `Store`, `Reply`. Failures: the server is killed or down
(`ForwardFails`, `FetchFails`), a packet is cut (`Lengths`), a response cannot
be packed (`ServerAnswers`), the proxy closes with the client's bytes unread
(`ClientIsReset`).

**`PacketFormat`** has the twelve bytes themselves: the shifts of `pack_flags`, the
byte order of `struct`, and the constructor that `unpack` calls once more.

**`Expressions`** has the trees of `calculator.py` and `calculate()` of `server.py` (`Calculate`), which turns
a tree into the steps of its evaluation; `Combined` is what the three kinds of expressions have in common there.
A number is named by the functions and operands it was computed from, and has a sign (`SignOf`), which says where a division or
a power raises an exception and what `str()` prints in front. Beside them stand `Eval`, the value of a tree, and
`Size`, the number of its applications. What is recursive in the code is a recursive function over `Expr`, the trees
up to the depth `MaxDepth`, so that it can be proved about.

**`Texts`** has `stringify()`, which prints a step with all brackets, finds the pairs that stand
directly in another pair and cuts these out, and `Means`, which reads a text back as Python would, to whom `-a ** b` is `-(a ** b)`.

**`Question`** follows one question: `ClientBuildsOn`, `ClientAsks`
with any combination of flags and limits, `ServerAnswers`, `ClientPrints`. What an expression
is, how it is evaluated and how a step is printed are constants (`Evaluate`, `Exception`, `Text`),
so that theorems about it hold whatever `calculate()` and `stringify()` do.

**`Calculation`** is `Question` with expressions: `ClientBuilds` says which one is built next, and the
configurations give the constants the definitions `Calculate` and `Raised` of `Expressions` and `Stringify` of `Texts`.
Each of its behaviours is one of `QuestionSpec`, whose `ClientBuildsOn` allows any next expression.
**`CalculationTexts`** adds the properties of printed texts.

**`NameServer`** has the two threads of `DNS_Server.py`. Queries are looked up
under a `Name` object and stored under texts; `HandleQuery` has each outcome of
the resolver, `HandleUpdate` the decoding outside of the `try`.

**`Dhcp`** composes it with `DHCP_Server.py` and `client1.py`. A datagram is the
bytes somebody reads. All clients of a host share port 68, so `Deliver`
gives a datagram to any of them. `server_address` is a text until `recvfrom()` stores a pair
in it; then the next discover raises an exception (`ClientDiscovers`).

**`Downloads`** has both servers with one action per step up to a system call:
`TcpChecks` and `RudpChecks` differ as the two programs do, `Get` opens the file,
`Writes` writes one chunk at the process's own position. `meddled` remembers that the
other server opened or wrote the file meanwhile.

**`Watchdog`** has the processes of `new_ping.c` and `watchdog.c`. "ping" and "pong" end with the same
two bytes, so what is left of a torn one is the string "g". `Sends` is a
`send()` before and after the watchdog has hung up; `ChildReturns` is the
child that waits for a string nobody sends and then goes on like its parent.

Operators whose comment begins with "Mutant" are versions of the code with a
plausible mistake in them. Nothing uses them; each stands for a definition next to it, and shows,
put in its place, that a property can fail.

## 3. Runs

All runs give TLC a complete state space; `.cfg` files hold the numbers.

| Run | Checks | Bounds |
|---|---|---|
| `ft_lockstep` | `TypeOK`, `CompletionIsSafe`, `NoMisread`, `UsualTimingsSorted`; `DeliversFile`, `NobodyWaitsForTheDead`, `EveryTransferCompletes`, `EmptyFileStopsBoth` | chunks arrive whole; sizes 0, 1, 2, 5, 17, 18, 22 with a buffer of 10; one repetition; two sessions; with and without crashes |
| `ft_hostile` | `OneRoundIsSafe`; `NobodyWaitsForTheDead` | sizes 0, 1, 6, 22, 27; chunks cut at every fourth byte; files with FIN or SEND KEY at a chunk's start; crashes; one repetition |
| `ft_again` | `CompletionIsSafe` fails | chunks cut, no mimicry, no crashes |
| `calc_proxy` | `AnswersOwnQuestion`, `AnswersAreRecent`, `CacheServes`; `CacheAgesOnlyInRaces` | three interchangeable clients, one second, six kinds of request, two policies |
| `calc_live` | `TypeOK`, `AnswersOwnQuestion`; `EveryClientEnds`, `GoodQuestionsAreAnswered` | two clients, one crash, packets whole or cut at byte 40, a request of 9012 bytes, an answer of 65536 |
| `calc_steps` | `TypeOK`, `StepsKeepValue`, `OneApplicationPerStep`, `PacketsSurvive`, `PrintsTheAnswer`, `TextsWithOneDoubleAreRight` | all expressions of depth 2 over three constants, a left- and a right-associative operator, a sign, a function; all flags, limits 0, 258 and 65535 |
| `calc_text` | `TextsMeanTheirSteps` fails | depth 3 over one constant, + and - |
| `dhcp` | `TypeOK`, `LoneClientDiesOnlyOfNak`, `SecondOffersWereOthers`; `LoneClientBecomesReady`, `QueriesReturn` | two clients, two addresses, four sets of addresses whose probes meet packets, one update at a time |
| `dhcp_nak` | `ClientsSurviveNak` fails | as `dhcp` |
| `dhcp_offer` | `ClientsTakeTheOffer` fails | as `dhcp` |
| `downloads` | `TypeOK`, `CompleteMeansWhole`; `TcpKeepsItsFiles`, `EveryClientEnds` | two clients, seven URLs and five names at which each check fails or raises an exception, files of up to three chunks, one URL that may fall silent, one server killed |
| `watchdog` | `TypeOK`, `TimerSeesOnlyAnswers`; `DeadHostIsNoticed`, `LeftoversOnlyWait`, `AbandonedPingIsNoticed` | four processes before `fork()` fails, five strings in the buffer before `send()` blocks, ten seconds |

Why the bounds are enough. For a file transfer the sizes are those at which the
code changes its mind: empty, first half empty, halves within a buffer, first
half within one and second half in one chunk of 9 bytes (as long as SEND KEY), halves of
more than one chunk. The smallest buffer that holds each control string is 9.
One repetition shows what is reset, two sessions show what is left over. The
properties about the cache relate at most two threads and one entry; the third
client is the one that observes. One second makes an answer stale for a limit of
one; more would only repeat it. `MaxMarks` (2 entries per round) is reached
in `ft_lockstep` only by a receiver that loops over empty reads after its peer closed:
the list then stays as it is, and no action waits for room in it. Depth 2
puts every operator to the left, to the right and inside of every other one. Two
DHCP clients are enough for one to take the other's datagram; the invariants of `dhcp` were also
checked with three. Of two clients of the download servers each may use
another server, which is what both servers' interference needs, and two files
whose chunks differ in number leave the holes a longer history would. Of four processes of `new_ping`
two or three are forked before the watchdog hangs up and the last one after it; the
buffer holds everything 16 bytes can tear.

`ft_again` and `watchdog` do not ask for deadlocks, because the programs can reach one.
When FIN and END arrive in one read, which happens after a chunk was acknowledged
twice, Receiver waits for END and Sender for the answer to it, for ever. When the first
ping was read together with the address and the host is silent, `new_ping` waits for a packet
and the watchdog for a string, for ever; and when the original process is killed after a pong, the ones it
forked wait for the watchdog to hang up, and the watchdog for a string.

### What the failing runs show

* `ft_again`: after a chunk in two pieces the server runs one acknowledgement
  ahead; the first chunk of a repeated round is read in one buffer with AGAIN and lost,
  and both sides close in good order.
* `calc_text`: `stringify()` cuts one superfluous pair of brackets after the other out of
  a text that has become shorter, at the positions of the whole text. With one
  pair this is right (`TextsWithOneDoubleAreRight`, which leaves out powers of something with a sign, see below); with two, as in the first
  line of the steps of `-(1 + 2) + -(3 + 4)`, the second cut removes other characters.
* `dhcp_nak`: `recvfrom()` stores the server's address, a pair, in the variable from which INIT
  takes its destination. A client that is refused returns to INIT and ends with a TypeError.
* `dhcp_offer`: a client was offered 192.168.1.100 and has 8.8.8.8, the name server's address, which the
  server's short offer has where a client looks for its own. The acknowledgement has zeros there, so that a client that
  is READY has 0.0.0.0, against `client1.py:130` and `README.md:213` ("IP address pool management"). `OfferedStayUnused` proves that
  no client ever has an address of the range.

### Other observations

* `time_measurements` is not sorted into halves for a file of one byte, or with a
  second half of 9 bytes; `UsualTimingsSorted` shows these are the only such sizes among
  those checked.
* Sender sets the algorithm of the congestion control on the listening socket after `accept()`: it
  holds for the next connection, not for the half that follows.
* A chunk whose text is FIN ends the client's loop (`Receiver.c:229`), which reports success. If the first half
  of the file is that chunk, `recv.txt` is empty then; if it is the last one, the chunk is missing. With chunks
  that arrive whole, the mistake is noticed in a session without a repetition, when the next string is not the expected
  one. With chunks that are cut it need not be: with a file of 27 bytes, a buffer of 10 and FIN from the 25th byte on,
  both sides close in good order and 3 bytes are lost. `OneRoundIsSafe` therefore speaks of files without
  a passage that reads as a control string.
* The handlers of proxy and server read 8192 bytes, the constructor allows 65536. A longer
  request is forwarded without its tail and with its old total length (`api.py:31` says the total length
  includes the data), and its client gets an error; `FitsTheProtocol` in `GoodQuestionsAreAnswered` excludes it.
* `README.md:218` promises "Local DNS caching", and `DNS_Server.py:28` says "Check if the domain name is in the
  DNS cache". The check is made with a `Name` object and the keys are texts, so no query is ever
  answered from `dns_cache`, neither from its first entries nor from updates. This is a fault of the code and no property of
  a run; `ResolverAnswers` proves that it shows in every execution.
* `stringify()` puts no brackets around the base of a power that has a sign: the step `(-(1)) ** 1` is printed as
  `-(1) ** 1`, and the next one as `-1 ** 1`, which Python reads as the negative of a power.
  `TextsWithOneDoubleAreRight` excludes these (`HasSignedBase`).
* An answer that was made for a client is returned whatever its age is after a slow fetch; the limits decide only
  whether it is stored (`proxy.py:78`). `AnswersAreRecent` therefore limits the age an answer had when its client asked.
* `Path.exists()` and the decoding of a request are outside of the `try` of `RUDPserver.py` (lines 64 and 70): a name
  of more than 255 bytes ends the server, and its clients wait in `recvfrom()` for ever, without a timeout.
  `EveryClientEnds` names these clients (`Abandoned`), and those whose server waits for a site that has fallen
  silent (`Kept`): `requests.get()` is given no timeout.
* `new_ping.c:155` waits for "Timeout". The watchdog sends nothing after its first byte; when it
  hangs up, the forked processes begin rounds of their own until SIGPIPE ends them, and the
  original one goes on waiting for a packet (`LeftoversOnlyWait`).
* `new_ping` opens `tcp_socket` before it forks the watchdog (`new_ping.c:56`, `95-99`), which therefore holds the
  far end of its own connection: no `recv()` of it ever returns 0. When the ping program has died, the watchdog ends
  if the last string it was sent is a ping (`AbandonedPingIsNoticed`); after a pong, or a torn ping, it waits for ever.


## 4. Fairness

Each specification states weak fairness only, of steps the scheduler or the kernel takes by itself.

* File transfer (`FileTransfer`): both processes are scheduled; the user at Sender's prompt answers
  some day (no answer, no progress); and Receiver's loop over empty reads
  is left, because the ACK it sends to a closed socket makes the kernel reset
  the connection, so that a later call fails (`ReceiverLosesPeer` is part of
  `ReceiverNext`, `RecvNothing` is not). Nothing makes a process crash and nothing starts a Receiver.
* `CalculatorProxy`: each of the three threads of a client is scheduled. No client has to ask, no
  time has to pass, the server has neither to crash nor to come back: `EveryClientEnds` holds all the
  same, `GoodQuestionsAreAnswered` assumes that the server is up.
* `Dhcp`: the steps of each client, the DHCP server's answers, and both threads of the DNS server
  (`HandleQuery`, `HandleUpdate`). Nobody has to start a program, and a datagram on port 68 may reach
  any client of the host, hence the liveness properties speak of clients that are alone.
* `Downloads`: each server's steps and the reset of a client whose server is gone. Nobody
  has to start a server, and none has to be killed: a client that finds none ends at once. A server that waits
  for a site in `Silent` need not go on (`~MayHang(s) /\ ServerStep(s)`), since its requests have no timeout; other
  sites answer or fail.
* `Watchdog`: the watchdog and each process of `new_ping`. No packet has to arrive and
  nobody is killed of necessity; a process in `recvfrom()` may wait for ever.
* `Question` and `Calculation` state none: they have no liveness property.

## 5. Proofs

| Theorem | Module | Statement |
|---|---|---|
| `TypeCorrect` | `FileTransferTypes` | `Spec => []TypeOK` |
| `LockstepInvariant` | `FileTransferSafety` | `Lockstep` implies `Spec => []IInv` |
| `CompletionSafe` | `FileTransferSafety` | `Lockstep` implies `Spec => []CompletionIsSafe` |
| `NothingMisread` | `FileTransferSafety` | `Lockstep` implies `Spec => []NoMisread` |
| `FileDelivered` | `FileTransferSafety` | `Lockstep` implies `Spec => DeliversFile` |
| `TimingsSortedUsually` | `FileTransferSafety` | `Lockstep` and `RoomForAllRounds` imply `Spec => []UsualTimingsSorted` |
| `OneRoundSafe` | `FileTransferOneRound` | `Spec => []OneRoundIsSafe` |
| `ProxyTypeCorrect` | `CalculatorProxyProofs` | `Spec => []TypeOK` |
| `OwnQuestionAnswered` | `CalculatorProxyProofs` | `Spec => []AnswersOwnQuestion` |
| `RecentlyAnswered` | `CalculatorProxyProofs` | `Spec => []AnswersAreRecent`: an answer made before its client asked was young enough for both then |
| `CacheAges` | `CalculatorProxyProofs` | `Spec => CacheAgesOnlyInRaces` |
| `CacheAlwaysServes` | `CalculatorProxyProofs` | `Whole` implies `Spec => []CacheServes` |
| `HeadersSurvive` | `CalculationProofs` | what `unpack` reads is what `pack` wrote |
| `QuestionTypeCorrect` | `CalculationProofs` | `QuestionSpec => []QuestionTypeOK` |
| `PacketsAlwaysSurvive` | `CalculationProofs` | `QuestionSpec => []PacketsSurvive` |
| `AnswerPrinted` | `CalculationProofs` | `QuestionSpec => []PrintsTheAnswer` |
| `TypeCorrect` | `CalculationProofs` | `Spec => []TypeOK` |
| `StepsAlwaysKeepValue` | `CalculationProofs` | `Spec => []StepsKeepValue` |
| `AlwaysOneApplicationPerStep` | `CalculationProofs` | `Spec => []OneApplicationPerStep` |
| `ValuePrinted` | `CalculationProofs` | `EvaluatesWithCalculate` implies `Spec => []PrintsTheValue` |
| `DhcpTypeCorrect` | `DhcpProofs` | `Spec => []TypeOK` |
| `OfferedStayUnused` | `DhcpProofs` | `Spec => []OfferedAddressesStayUnused` (the fault `dhcp_offer` finds, in general) |
| `ResolverAnswers` | `DhcpProofs` | `Spec => []OnlyTheResolverAnswers` (a fault, section 3) |
| `LoneDiesOnlyOfNak` | `DhcpProofs` | `Spec => []LoneClientDiesOnlyOfNak` |
| `SecondOffersAreOthers` | `DhcpProofs` | `Spec => []SecondOffersWereOthers` |
| `DownloadsTypeCorrect` | `DownloadsProofs` | `Spec => []TypeOK` |
| `CompletedIsWhole` | `DownloadsProofs` | `Spec => []CompleteMeansWhole` |
| `TcpKeeps` | `DownloadsProofs` | `Spec => TcpKeepsItsFiles` |
| `WatchdogTypeCorrect` | `WatchdogProofs` | `Spec => []TypeOK` |
| `TimerSeesAnswers` | `WatchdogProofs` | `Spec => []TimerSeesOnlyAnswers` |

They hold for every value of the constants that the `ASSUME`s of the modules admit: any number of
clients, sizes, lengths, rounds, addresses, sites, chunks, policies, and with every crash the models have.

### The file transfer

Every buffer of at least 9 bytes, every file size, any number of
rounds and sessions, with and without crashes. `Lockstep` says that chunks arrive whole
(`Segment = 0`) and no passage of the file reads as a control string; `ft_again` and the observation about FIN
in section 3 show that neither half of it can be dropped.

*Types.* `TypeOK` is not inductive: `counter + NumBytes` is bounded only if a chunk is awaited
while bytes are left, and the file position is ahead of the counter by that chunk. `TypeInv` adds it.

*Safety.* `IInv` says where both programs can stand together: nothing under way
(`Quiet`), a question (`Asked`), an answer (`Answered`), or the one case of two
messages in one direction (`OkUnderWay`: OK and the first chunk of the second
half, which Receiver reads apart since it asks for 3 bytes). This is needed
because `NoMisread` at one program depends on what the other has done. As soon as
one side is gone the other's place is no longer constrained, so `IInv` also says
what each side may still find in its stream (`ReceiverView`, `SenderView`), which
`BothViews` derives while both are there. Lemmas of `FileTransferTypes` say what a read
returns of a stream that holds one string, or OK and a chunk.

*Refinement.* `IInv` and `HoldsBeginning` (the file is a beginning of `send.txt` in every state, also
between sessions) map each step to one of `FileDelivery` or to a stutter.

*Measurements.* `TimesKept` counts the entries: two for each round that is over and one for each half
that Receiver holds, except that between AGAIN and its reading the rounds of the two programs differ
(`AgainUnread`). A Receiver whose Sender has gone can still end well, with the last ACK under way. `HalvesInOrder`
says that the key is asked for only when the first half is sent. `RoomForAllRounds` is
`MaxMarks >= 2 * (MaxRounds + 1)`: the array of the code has room for 500 rounds.

*Chunks in pieces* (`FileTransferOneRound`). `Lockstep` is not assumed, nor anything else beyond the ranges
of the constants; the condition of `OneRoundIsSafe` is inside of the invariant, `OInv`: while nothing was repeated and the file holds no
control string (`Calm`), the session is `Orderly`. The two programs are not in step then: Sender goes on for every
piece that is acknowledged. What holds instead is about bytes. Receiver's file followed by the
file's bytes under way is what Sender has read of the file (`Reading`), with at most what Sender says
after a half behind it (`Tails`), whichever read returns which part of both. What can go wrong is a
SEND KEY in one buffer with a piece of the file: its beginning is written into `recv.txt` (`Spoiled`), and Sender waits for
a key that nobody sends (`Astray`), so that no good-bye is completed. As long as both run, `Link` says where they
stand to each other; when one is gone, `View` keeps what the other may still read, and an END that was sent means that the file is intact or
that Receiver was killed. An early version of the property, without the condition on mimicry, held for the sizes checked
then and failed as an induction step: the counterexample is the one with 27 bytes in section 3.

### The calculator

`Inv` has four parts. `Types` is `TypeOK` with streams of at most one packet. `CacheMeans`: an
entry of `cache` is about the expression and the wish for steps in its key. `Filled`: which of a
thread's variables are set at which place. `Meaning`: each packet under way and each variable of a
thread is about the question of its client, and what a thread has judged
fresh was fresh at its look at the clock. The three properties are consequences of it. That an entry
read before the clock may be overwritten by another thread meanwhile does not disturb it, because the
thread holds the packet and not the key. `ErrorAssumption` says that the server's error
texts fit into a packet: it packs them outside of its `try`.

*The cache.* Only `Store` changes the cache (`OnlyStoreChangesCache`), with a response that was made
after its client asked, by `Meaning`; so an entry that is younger than it is younger than the question (`CacheAges`).
`CacheAlwaysServes` assumes `Whole`: the network cuts nothing and each request that may be asked fits the handlers' read. Its invariant `ServingInv`
says of each thread's variables and of each packet under way that a request is whole (`Question`) and a
response is the server's own answer to its question or one that is not to be cached (`Due`).

*Packets.* The twelve bytes are sums of fields with weights that do not overlap;
the lemmas divide them one at a time. `HeadersSurvive` needs a time below 2^32, the year 2106.

*One question.* `QInv` says that the request holds the packed header of the client and its expression, that the
response holds the packed header of the server and the value and steps of that expression (or nothing and the status 400), and that
each header is one that `unpack` returns as it was (`Good`). The theorems are about `QuestionSpec`, with `Evaluate` and `Text`
unknown; every behaviour of `Calculation`'s `Spec` is one of it (`AQuestion`), since `Init` and `Next` are those of `Question` with a
conjunct more. So `PacketsSurvive` and `PrintsTheAnswer`, which `calc_steps` checks for small expressions, hold for all of them.

*Steps of an evaluation.* `StepsKeepValue` and `OneApplicationPerStep` hold of every expression of any depth, over any
constants, operators and functions of any number of arguments. The proof is an induction on depth. The library's
induction theorems take an operator as a parameter and cannot be used; `InductionTo` says the same of a set of numbers
and follows from a fact that is of first order: each non-empty set of numbers has a smallest element
(`Smallest`). It is used three times over. First, a recursive function is a `CHOOSE`, so it has to be shown that a function
with its equation exists, depth by depth: `SumsAre`, `FlattenIs`, `UpToDepthIs`, `EvalIs`, `SizeIs`, `CalculatedIs`.
Second, for what sums and concatenations consist of: `FlattenFinds` says from which of the concatenated sequences, and from where in it,
an element comes, `SumsOfRest` what is left of a sum whose first terms are gone. Third, for `RightAbout(n, e)`, the invariant of the
recursion: the value, the number of steps, and value, size and depth of each step. `OneApplicationPerStep` alone would not be inductive: that an operand's step keeps its value is
needed for the value of the whole, and its size for the place at which the next operand's steps begin.
In `RightAboutApplications`, the step of the induction, a step of the i-th operand is shown beside the values of the operands before it, whose size is 0,
and the expressions behind it, whose size is what it was. If an operand has no value, neither has the whole
(`ApplyType`), and then nothing is claimed about the values of steps, which the server does not send.

*From end to end.* `EvaluatesWithCalculate` says that the server evaluates with `calculate()`, as it does in `calc_steps`. Then what is printed is the
value of the client's expression, with one application less in each line (`PrintsTheValue`), whatever a step's text is.

### DHCP and DNS

`Inv` adds to `TypeOK` whose datagrams are in whose inbox (`FromServer`: the four bytes a client takes its
address from hold 0 or 8, never an address of the range) and that a reply under way is the resolver's
(`FromResolver`). The stronger `LoneInv` is for a client that is alone: at most one datagram is under
way between it and the server, the one that its state waits for (`InStep`). That is not inductive for two clients,
of which one may take the other's answer.

*Second offers.* `SecondOffersWereOthers` counts. Its invariant, `OfferInv`, is an injection from everything that
is or will be an offer too many (a discover in the server's buffer, an offer in a client's, a client that got one in
INIT or has died of it) into the clients that wait for an offer. A discover adds one to both sides, an offer that is taken by
a waiting client removes one from both, each other step moves an element on or drops it. It needs finitely many clients.

### The downloads

`Inv` adds to the types where a server stands (`Place`), that the path of a TCP download was
free at its check (`TcpChecked`), and how much of an undisturbed file is written (`Whole`: as many chunks, in order, as the
position says). `meddled` is what makes `Whole` inductive; each of the steps of one server sets it for the other.

### The watchdog

`Inv` adds to the types that, until the watchdog has hung up, the stream is what the original process sends, in turns
(`InTurns`: the address, then "ping" and "pong" alternating, a torn string only at its head), because its children wait for
a string that nobody sends. `ReadsInTurns` says where the watchdog is in that order: when its timer runs, a pong comes next.

### Only model-checked

All liveness properties, `EmptyFileStopsBoth` among them: the backends have no rule for fairness over `ENABLED`. Of the invariants,
`TextsWithOneDoubleAreRight`: the functions of `Texts` that write and read texts are recursive operators, which the backends do not accept. `DeliversFile` does not
hold when chunks are cut (`ft_again`).

## 6. What the models leave out

* File transfer: output, times in seconds, option parsing. The file does not
  change during a session. The size is sent as a string of 2 bytes. Control
  strings are never cut (both programs run on one host, `SERVER_IP` is
  127.0.0.1). The buffer is taken as cleared before each read; the code leaves
  KEY of SEND KEY and AGAIN behind it, which matters only to a file that completes
  these to a control string. A file has at most one passage that reads as a control
  string. Memory is not modelled: `message[1]` is overrun by every answer, `time_measurements` by
  the 501st round, and `strtol` gets a pointer that was never set.
* Calculator: packets are never cut within the header; a pickle that was cut still names the expression it was made
  from, and does not load. What comes after the
  first read of a packet is dropped; the handlers would take it for another
  request only where they go back to `recv()`, after an error. Proxy and server have the
  same clock. Interrupts from the keyboard are left out, also that the proxy then
  joins its threads (`proxy.py:124`), which may wait for a client that never writes. Results are real numbers.
* Packet format: fields that do not fit their bits (no caller has one) and packets of fewer than 12 bytes.
* Expressions: `rand`, which gives another value each time; exceptions other than ZeroDivisionError, for one that of a
  power of a negative number that is complex; values, of which only the sign is kept (where it depends on more than the operands'
  signs, one of those that occur);
  `str()` without brackets, which nobody prints (it would show `-(1 + 2)` as `-1 + 2`).
* DHCP: the server always offers the first address nobody answers from, and keeps no table of leases.
  On Linux a probe of 0.0.0.0 meets the prober's own packet, so that a refusal is the usual case; the model has both.
  Times, random transaction numbers and the printed text are left out.
  A datagram of 236 to 242 bytes (no client sends one) would raise an exception at `DHCP_Server.py:99`, and so would a probe whose
  `sendto()` fails, for want of a route for one (lines 37 to 42); either ends the server, which the model does not show. A probe and
  the answer that follows it are one step.
* DNS: `update_dns_cache` and `handle_lease_update` have no caller. Datagrams of more than 1024 bytes are left out.
* Downloads: a request of more than 1024 bytes whose file name is cut, answers longer than one `recv()`, a `send()` to a client that has gone, TIME_WAIT when a server is started again, and a body that
  is silently shorter than it should be. A partial file after a failed TCP download is
  modelled: a later request for it is told that it already exists.
* Watchdog: `sleep()` only delays, the raw socket does not fail, the address is a
  string of 8 bytes, and the contents of packets are not compared.

## 7. Not modelled

* `Assignment-4/ping.c`: one loop of a send and a receive without state beyond a sequence number.
* `Assignment-5`: capture, construction and random dropping of packets; `Gateway.c` keeps nothing from one
  packet to the next.
* `Assignment-1`: a text.
* The windows of the final project's programs, and all of `main.py` except which programs it starts.

What is left to prove: that two rounds lose nothing as long as no chunk is cut in the first of them (between `Lockstep` and a
single round), and that a single round with whole chunks loses nothing
whatever the file mimics (TLC finds no exception for sizes up to 27 and one passage at any place). Further, that a text with
at most one pair of doubled brackets means its step, for which reading and writing of texts would have to become functions.
