# A verification of the mc833 chat

The repository holds a chat of a server and its clients over TCP (`project/src`, C++)
and the exercises of the course it was written for (`trab_1` to `trab_7`). This
directory models the chat, and the exercises that serve several clients, in TLA+, checks
the models with TLC on small instances, and proves the properties that matter most with
TLAPS for every size. Paths below are
relative to the repository; without a directory they are in `project/src`.

## The system

| part | state | operations | talks to |
|---|---|---|---|
| registry: class `Chat` with `Group`, `User`, `Message`, the message hash (`chat.cpp`, `group.cpp`, `user.cpp`, `message.cpp`, `hash.cpp`) | users by socket, groups with their members, queued messages by hash | add, delete and look up each of them | called by every thread of the server under `chat_mtx` |
| accept loop: `serverLoop` (`server.cpp`) | the listening socket, `threads`, shares `free_thread` | accept, find a slot, join the thread that was in it, start a worker | starts workers |
| workers: `userInteraction`, `registerUser`, `handle` (`server.cpp`) | socket, receiver, user | register, greet, answer requests, unregister, close, give the slot back | one client each; the registry |
| messages loop: `messagesLoop` (`server.cpp`) | the identifiers copied at the start of a pass | deliver what can be delivered, notify the source | the registry; any client |
| framing: `NetReceiver`, `send` (`net.cpp`) | what was received beyond the last separator | cut the byte stream into messages | both ends of a connection |
| codec (`protocol.cpp`) | none | build and take apart the fields of a message | server and client |
| client (`client.cpp`) | socket, an observer thread | register, turn commands into requests, show what comes, leave | the server |
| tables (`chatview.cpp`), controller (`chatcontroller.cpp`) | none | print; the controller is commented out | the registry |
| UDP prototypes (`udp_server.cpp`, `udp_client.cpp`), `test.cpp` | | no target builds the first two, and they no longer fit the headers; the last is a manual menu | |
| select server (`trab_5/echo_server_select_tcp.c`; `trab_7/select.c` is the same but for a space) | the table `client[]`, the sets of descriptors, one buffer | select, accept, read, send back | any number of clients, from one thread |
| TCP and UDP server (`trab_7/server_tcp_udp.c`, `client_tcp_udp.c`) | two sockets, a child process for each connection | select, hand a connection to a child, echo a datagram | its children, TCP and UDP clients |
| UDP echo (`trab_6`, `trab_7/server_udp.c`) | a client waits or not | send a line, take the next datagram for its answer | the network |
| servers of `trab_3`, `trab_4` | the connection in hand | print what comes; fork and echo | one client each |

What makes each part correct, and what is hard about it:

* *Registry.* A name is recorded at one socket at most, two queued messages never share
  a hash, and only recorded users join groups. The hard part is time: an entry outlives
  the connection it names, the kernel gives the descriptor to somebody else, and
  `addUser` overwrites whatever is there.
* *Workers.* Whoever is online has a session and the other way round; an answer tells the
  truth. Hard: registration takes `chat_mtx` twice and decides between the two; a session
  that ends unregisters a name that another session may have taken over; sends happen
  outside the lock, and one that fails ends the process.
* *Messages loop.* A message is handed over once, to the user it is for, only while both
  users are online, and is kept when the send fails. What can be delivered is delivered.
* *Accept loop.* A slot serves one connection at a time, a thread is joined before its
  object is assigned, and the loop never waits for a client. Hard: a worker marks its
  slot free while its thread is still running; a connection that finds no slot is forgotten.
* *Framing.* However the stream is cut, the messages that come out are those that went
  in. Hard: two messages in one chunk, and the NUL that `send` writes behind each.
* *Client.* It must leave when it says `exit`, and see the answers to what it asked.
  Two receivers read the same socket one after the other, and leaving waits for the server.
* *Codec and commands.* The server takes a request for what the user typed, and both
  clients show what the server means. Hard: `split` drops empty fields, the escapes are not
  escaped themselves, a group's name is unescaped twice, and the client and the server
  decide by different tests whether a line ends the session.
* *Select server.* Every client gets its own bytes back. Hard: descriptors and entries are
  used again while `maxi` and `maxfd` only grow, `nready` is counted down in two places, and
  one buffer, one thread and one process serve all.
* *TCP and UDP server, UDP echo.* Nobody's wait depends on another client. Hard: nobody
  waits for the children, the result of `fork` and of `recv` is compared with one value
  only, and nothing in a datagram says what it answers.

## The modules

| module | models | abstract or composed |
|---|---|---|
| `Chat` | the registry, as operators on its fields | used by `ChatServer` |
| `ChatServer` | accept loop, workers, messages loop, descriptors, clients as the environment | extends `Chat`; implements `Mailbox` |
| `Mailbox` | what the server promises: letters are handed over once, while both users have a session | |
| `ThreadPool` | the slots, `std::thread` objects and threads of the accept loop, at a finer grain | implements `SlotPool` |
| `SlotPool` | one job in a slot at a time | |
| `NetReceiver` | one direction of a connection in bytes: sender, stream, receiver | implements `Receiver` |
| `Receiver` | one direction of a connection in messages | |
| `ChatSession` | a client with its observer, its worker, and the messages loop as it writes to it | composes two `Receiver`s |
| `Protocol` | the codec, as operators on strings | used by `Commands` |
| `Commands` | what becomes of a command line: request, answer, forwarded message, and what both clients show | extends `Protocol` |
| `SelectServer` | the select server, call by call, and its clients | implements `Echo` |
| `Echo` | bytes come back once and in order | |
| `UdpEcho` | UDP clients and a network that loses, copies and delays | used by `DualServer` |
| `DualServer` | the TCP and UDP server, its children and its TCP clients | extends `UdpEcho` |
| `ChatServerProofs`, `ChatTurnsProofs`, `ThreadPoolProofs`, `ChatSessionProofs`, `SelectServerProofs`, `DualServerProofs`, `NetReceiverProofs`, `CommandsProofs` | the theorems | extend the modules they are about |
| `MCChatServer`, `MCThreadPool`, `MCCommands` | constants for TLC | |

A definition introduced by "Fault:" is not part of a model. It is the definition after it
with a plausible bug; each property is seen to fail when its fault is put in.

### ChatServer

A step of a worker is one critical section of `chat_mtx`, one send, or one close.
`pc[w]` is where the worker in slot `w` is: `register` (waiting for REGISTER),
`newcomer` or `returning` (between the two critical sections of `registerUser`, named for
what the first found), `greet`, `recv`, `answer`, `unregister`, `close`, `release`, and
`free` when `free_thread[w]`. The messages loop keeps `chat_mtx` over a whole pass in
which it sends again and again, so its sends are steps of their own (`mpc` is `deliver`
or `notify`), during which no worker enters a critical section (`ChatFree`). Receiving a
request and the critical section behind it are one step, as nothing shared is touched
between them.

What is kept of the environment: descriptors are given out lowest first and are used
again; a client may hang up at any time, and what it sent before may still be received; a
send to a peer that has closed may be taken and lost, may fail, or may end the process
with SIGPIPE (nothing handles it); `exit()` in any thread ends the process, which includes
a failing `accept`, and a `recv` from a client that reset its connection. What is abstracted: names, texts and addresses are model values; vectors
without duplicates are sets, so the loop takes the messages in any order (the map is
ordered by hash, which is as good as arbitrary); the hash is injective except where it
ignores a field (a file is hashed by its path, `hash.cpp:10`); a client sends only what
`client.cpp` can build, hence REGISTER first, its own name as the source, and never a
group name with a leading space; a send does not block.

`registerUser` fails when the client hangs up before REGISTER, or when REGISTER holds no
name (`RegisterFails`): `client.cpp:401` takes the name from the command line as it is, and
`split` drops an empty field. The worker greets and serves such a client all the same, because
`userInteraction` looks at an empty message instead of what was returned (`server.cpp:375`). Its
user is then `Unregistered`, which is in no map and in no group: SEND_MSG and SEND_FILE are
invalid (`HandleInvalid`), it creates groups like anybody else, writes to none, and a group that
it joins is answered USER_ALREADY_IN_GROUP when it exists. `NameOf` says which clients have
no name. The text that stands for the name of such a user is taken to be nobody's real name.

`ExclusiveNames` says that a client with a name connects only when no other connection of its
name is in use at the server. Clients that leave with `exit` keep it: `exit` waits until the
server has closed the connection (`client.cpp:385`). The properties that need it are false
without it, and the runs `online_lost` and `wrong_client` show how. A client without a name has
no session (`Serving`): nobody can write to it, and it is never online.

### ThreadPool and NetReceiver

`ThreadPool` takes the accept loop and the end of `userInteraction` apart: accept, scan
`free_thread` under its mutex, join, mark, start; and in a thread, mark the slot free,
then return. `ChatServer` merges these steps of the accept loop into one (`Accept`); that
the merged step is safe is what `ThreadPool` shows: between its steps nobody else can take
the slot, and the join does not wait for a client.

`NetReceiver` has one unit for the header of a message, one for its other fields, one for
the separator and one for the trailing NUL. `::recv` returns any part of what has arrived.
When `waits` holds, which is chosen at the start, the sender waits until its message was
received; otherwise it may send any number of messages ahead, as a user that pastes
commands does.

### ChatSession

The client's main thread is at `register` (about to send REGISTER), `wait` (for its
answer), `run` (commands), `leaving` (EXIT is sent, the observer is joined) or `over`. Requests
and what the server writes are numbered by their sender; a content is taken for the message in
front of it, as `netToHostHeader` does. `registerUser` has a `NetReceiver` of its own: what
that has received beyond the first answer is lost when it returns, and if it was a part of a
message the rest of it (`torn`) is shown as an unknown answer. When `patient` holds, which is
chosen at the start, the user sends a request only when the worker has taken the one before.
Both programs live: what happens when a client dies is in `ChatServer`.

### Protocol and Commands

A string is a sequence of characters, where a character is whatever is never taken apart: a
separator, the escape that stands for one, the code of a message, a word. Counting an escape
as one character is exact, as no escape can come about by putting other texts together.
Identifiers are left out: they are written and read as the same digits. `Commands` follows
one line at a time from the prompt of its user to the screens of both clients. What
interleaves is in the other two models of the chat, and so is what the registry answers: here
it may give any answer that the request has in `handle`. A frame is received alone, with the
NUL of the frame before it in front or not (`Leads`).

`Commands` is also where two things that `ChatServer` takes for granted of its clients are
shown (`RequestsAreOwn`): the source of a message is its sender's registered name, although
nothing compares them, and no group's name has a space in it, so that a client cannot name
the groups of the server.

### SelectServer and Echo

Every call of the server is a step, and `send` is one step for each byte, so that a client
that does not read stops the server in the middle of it. The clients connect, send, receive
and leave between any two. A client that leaves with bytes unread resets the connection, and
the server's next read or send of it fails; if it has read all, one send is still taken, and
answered by a reset. Either error, or SIGPIPE, ends the process. `client[]` and the sets have
`FD_SETSIZE` entries and a process usually has fewer descriptors than that
(`ConstantsAssumption`), so `accept` fails before "too many clients" can be reached; both
stop the server and are one action. `Echo` is what the server promises: each client gets
back what it has sent, each byte once and in order.

### UdpEcho and DualServer

`requests` is the bag of datagrams at the server's port, `answers` of those on the way to the
clients: any of them may arrive next. `Fault` counts what the network does wrong, and
what strangers send. A client that quits is one that stays at its prompt for ever.

In `DualServer` the parent is at `select`, `accept`, `fork` or `recvfrom`, and a child
echoes until its client has gone. A child that has exited stays in the table of processes
until the parent dies, as nobody waits for it, so `MaxProcs` children are all there can
ever be; of what `fork` returns only 0 is told from the rest, and the connection is then
closed unserved. `wire[c]` is what is on its way on a connection: a client of TCP waits for
the answer before it types again, so this is at most one line or its echo, and how the
connection was closed. A line of TCP is a unit: that the network may cut one, and that
`strlen` would then see an older text behind it (`server_tcp_udp.c:140`), is left out.

## The runs

| run | instance | shows |
|---|---|---|
| `any_clients` | 4 clients, two of one name and one without a name; 2 slots, 2 descriptors, 1 request | the types, `RegistryConsistent`, `OnlineIsServed`, `NoSilentLoss`; `MailboxSpec`: the server implements the mailbox |
| `take_turns` | 3 clients, `ExclusiveNames`, 2 requests | `LoopIdsValid`, `OnlineIffServed`, `SendsAreRouted`, `JoinAnswerTruthful` |
| `deliveries` | 2 clients of two names, 2 requests, fairness | `DeliveredIfBothStay`, `HangUpEndsSession` |
| `framing` | 5 messages, chunks as large as all of it, fairness | `Conservation`, `HeadersInOrder` at any pace; `OneByOne`, `NothingDiscarded`, `AllTaken` when the sender waits; `ReceiverSpec`: the bytes implement the messages |
| `session` | 3 requests and EXIT, 2 deliveries, fairness | `InOrder`, `ServerClosesFirst`, `NothingAfterClose`; `PatientLeaves` |
| `pool` | 2 slots, 4 connections | `NeverTerminates`, `JoinsOnlyFinished`, `BackToAccept`, `PoolSpec` |
| `commands` | 26 lines, 5 names, 3 files | `TakenAsMeant`, `RequestsAreOwn`, `LeavesIffExit`, `ShownAsSent` |
| `select_echo` | 3 connections, 2 descriptors, 3 bytes, reads of 2, room for 1, fairness | `TableSound`, `ReadyCounted`, `EchoArrives`; `EchoSafe`: the server implements `Echo` |
| `dual_server` | 2 TCP clients, room for 1 child; 2 UDP clients, one connected; 2 lines each way, 1 fault, fairness | `UdpInStep`, `EchoIsTrue`, `UdpAnswered`, `TcpAnswered` |

Why the bounds are enough. Three clients with two names are the least in which one name
is used twice while a third party gets a descriptor that became free; two slots are the
least in which two of them are served at once. With two descriptors a third client
makes `accept` fail (`any_clients`, where a fourth client has no name and may create or join a
group, write to one, or be refused); with three it may find the pool full and be forgotten
(`take_turns`). One request is
enough to have a message in the store while names and descriptors change hands; two are
enough to have two messages in one pass of the loop, to refuse one that is queued
already, or to join a group and then join again or write to it. In the two large runs the clients `c1` and
`c2`, of one name, are interchangeable (`Twins`), which is sound as no
definition tells them apart. `NetReceiver` has no state that depends on a message's number: the
shortest misbehaviour takes two messages, and the bounds leave several more. `Commands` has no
state that grows; its lines have each command as it is meant, one word too many and one
too few, capitals, spaces at every place, and separators and escapes in every field, and its
names include the empty one. In `select_echo` three connections share two
descriptors, so both a descriptor and an entry are used again, a third connection makes
`accept` fail, and with reads of two bytes and room for one the server waits in the middle of
a send. In `dual_server` the second TCP client finds no room for its child, or gets the child
if it is first; one fault at a time is a loss, a copy, a stranger's datagram or a reset
in the backlog, and two lines are the least for an answer that comes one line late. Every bound
on a proved property is lifted by its theorem.

Three runs show where the code does not do what its comments, or the client's help, say.
Each checks one property and TLC finds it violated:

| run | the code | what it contradicts |
|---|---|---|
| `online_lost` | `server.cpp:408`: the end of a session takes a name offline that another session uses by now | `server.cpp:337` "user is getting online again" |
| `wrong_client` | `server.cpp:350`: a newcomer goes online in a second critical section without recording its socket again. If in between another session of the name has moved the record to its own socket and ended, and the kernel has given that descriptor to another client, the messages loop writes to that client | `server.cpp:70` "sending message to destiny user" |
| `exit_hangs` | `net.cpp:145`: what came behind a separator is not searched for the next one, so the worker may hold EXIT back while the client waits for it | `client.cpp:55` " -> exits chat" |

Deadlock is not checked: the clients may all have left, the process may have ended, and
the senders may be done, so every one of these systems really may stop.

Some behaviours that the models contain have no run of their own, because no document of
the repository says otherwise or because one of these runs shows the cause already:

* `server.cpp:375` does not look at what `registerUser` returned: a client without a name is served,
  and when it joins a group that exists, `server.cpp:238` tells it that it is in the group already
  (`client.cpp:165` "user already in group"), although it is in none and can be in none. This is
  why `JoinAnswerTruthful` is about clients that have a name.
* `chat.cpp:64` overwrites the record of an offline user when its descriptor is given to
  another client; when that user comes back it is taken for a newcomer.
* `server.cpp:466` forgets a connection for which there is no slot: it is neither served
  nor closed, and keeps its descriptor.
* `net.cpp:145` and `client.cpp:236`: a message that comes behind an answer in one chunk is
  held back, or lost when it comes behind the answer to REGISTER.
* `trab_6/client_udp.c:90`: a stranger's datagram ends the client's wait, so its answers come
  one line late, although the report (`trab_6/tarefa6-ra135582.tex:90`) says that it is
  ignored. `UdpInStep` excepts the clients this has happened to.

### Fairness

Weak fairness of the accept loop and of the messages loop says that the scheduler runs
their threads. A worker gets strong fairness: `chat_mtx` is taken by the loop again and
again, so a worker that waits for it is not enabled all the time; but the loop sleeps
`MSG_LOOP_TIME_MS` outside of the lock (`server.cpp:99`), long enough for a waiting worker
to be woken and to take it. A worker's own steps include the arrival of REGISTER, so a client
that stays connected without registering is excluded from the liveness runs.
Nothing makes a client send requests or hang up, or a `recv` fail, and nothing makes a thread of
`ThreadPool` finish. In `NetReceiver` the receiver is called again and again, as the loops
of `userInteraction` and `observe` do. In `ChatSession` both programs run, but nothing makes
the user type a command or others send it messages.

In `SelectServer` the kernel runs the server, and each client reads what is there for it
(weak fairness of `Receive`): without the second a client that stays and does not read
stops the server, and `EchoArrives` is false. In `DualServer` the parent, each child, and a
client that has something to receive are run, and the kernel refuses datagrams when nobody
has the port. Nobody must type, leave, or start the server.

## The proofs

All theorems hold for every value of the constants that satisfies the named assumptions.
`ChatAssumption`, `ChatServerAssumption`, `ThreadPoolAssumption`, `DualAssumption` and
`UdpAssumption` say no more than that the special values are different from the ordinary ones
and that bounds are numbers, and `ChatSessionAssumption` and `NetReceiverAssumption` that their
bounds are. `ConstantsAssumption` of `SelectServer` says in addition that the buffers hold a byte
and that the descriptors fit into the sets, and `CommandsAssumption` that lines, names and the
contents of files are strings, and that the members of a group have a name.

`ChatServerProofs`, whatever the clients do:

* `TypeCorrect` (`TypeOK`) and `LoopIdsCorrect` (`LoopIdsValid`). The invariant `TypeInv`
  adds to the two that the worker of a program counter has a connection, and a user when
  it is past the first critical section.
* `RegistryCorrect` (`RegistryConsistent`), from the same invariant: `addUser` looks for the
  name, and `returning` deletes and adds in one critical section.
* `OnlineCorrect` (`OnlineIsServed`). Inductive with `TypeInv` alone: only a registration
  puts a user into the online group, in the step that begins to serve it, and the end of a
  session takes it out, whichever session of the name ends first. This is why a message is
  never sent for a user whose last session is over.
* `NoSilentLossCorrect` (`NoSilentLoss`): only `LoopDeliver` removes a message, and removes
  one only, as no two share a hash.
* `ServerIsMailbox` (`MailboxSpec`): the sessions and the store map to the mailbox; the
  lemma `SessionsOneByOne` shows that a step begins or ends at most one user's sessions.
* `ConnectionsCorrect` (`ConnInv`): a worker's connection is open and its own, and open
  connections have different descriptors.

`ChatTurnsProofs`, under `ExclusiveNames`:

* `OnlineIffServedCorrect`, `SendsAreRoutedCorrect`, `JoinAnswerCorrect`. The last is about
  clients that have registered a name, as it is false of the others. None of the
  three is inductive. `TurnsInv` adds that two connections of a name are never in use together
  (`TurnsKept`), that the user of a session is recorded at the session's own descriptor
  (`Recorded`) and is in the online group, and that the user to be notified is still
  online, as the loop holds `chat_mtx` since it delivered. `Recorded` is what a new
  connection could break: a descriptor is given out again only when it is closed, and by
  then the session of its user is over.

`ThreadPoolProofs`:

* `PoolTypeCorrect`, `NeverTerminatesCorrect`, `JoinsOnlyFinishedCorrect` and
  `ThreadsImplementPool`, from `PoolInv`: a slot that is free has no running thread, a slot
  being prepared is one that only the accept loop can touch, and a connection is in one
  place at a time.

`ChatSessionProofs`:

* `ServerClosesFirstCorrect` and `NothingAfterCloseCorrect`, from `ClosingInv`: the worker
  handles EXIT, leaves the online group, then closes; the observer ends after that, and the
  client after the observer.
* `SessionTypeCorrect` and `InOrderCorrect` (`InOrder`), from `SessionInv`. What is handled,
  what the receiver holds and what is on the way are three lists whose numbers increase
  from the first to the last (`InLine`), in both directions, and none is above the number that
  was written last. `Counts` bounds what is asked and written by what can have caused it; the
  types need it, as the counters are bounded there.

`SelectServerProofs`, from the invariant `IInv`:

* `TypeCorrect` (`TypeOK`), `TableCorrect` (`TableSound`) and `CountedCorrect`
  (`ReadyCounted`). None is inductive alone: the table is right because a descriptor is only
  closed with its entry, and the count because a descriptor that select found ready cannot
  be closed before its turn. To these `IInv` adds that what is in the buffer is of the
  connection the scan is at (`Sending`), that a connection is in one place (`ConnsOnce`), and
  that no descriptor is closed between select and accept (`AcceptReady`), so that accept
  cannot return one that is in `rset`. That the table has room for whatever accept returns is
  the pigeonhole principle.
* `EchoCorrect` (`EchoSafe`): the server implements `Echo`. `PipeInv` says that what a client
  still gets back is, in order, what is on its way to it, what of it is in the buffer, and what
  the server has not read, and that this continues what the client has got, up to what it has
  sent (`InPipe`).

`DualServerProofs`:

* `EchoIsTrueCorrect` (`EchoIsTrue`), from `DualInv`: a line and its answer take turns on a
  connection with a child, so a child has echoed what was shown; a connection that no child
  has taken over yet has been shown nothing; and a child exits only when its client has gone.
* `UdpInStepCorrect` (`UdpInStep`), from `UdpInv`: as long as a client has been sent no copy and
  no stranger's datagram, there is at most one datagram of it in both bags together, and only while
  it waits; it carries the line that was asked last, and so does the answer that the client
  shows at its prompt. A loss only takes from this, and what others are sent does not touch it.

`NetReceiverProofs`, for any number of messages and any way to cut the stream:

* `TypeCorrect` and `ConservationCorrect` (`Conservation`).
* `HeadersInOrderCorrect`, `OneByOneCorrect` and `NothingDiscardedCorrect`. A unit's place in
  the stream follows from what it is, and `ReceiverInv` says that what the receiver has returned
  or holds, and what is on the way, are consecutive places (`InPlace`). Alone this does not say
  where a call's result begins, nor that it ended at a separator. The invariant adds that there are
  places, each behind the one before and at a separator, between which the results lie (`CutAt`),
  and that when the sender waits these are the ends of the messages, one by one, and that
  what was got does not reach the separator of the next (`Waiting`).
* `ReceiverSpecCorrect` (`ReceiverSpec`): the bytes implement the messages of `Receiver`, the
  module that `ChatSession` is built from. The messages held back are the separators among the
  units in the buffer, so what a call returns is found by counting separators.

`CommandsProofs`, for any lines, names, files and characters with a lower case:

* `TakenAsMeantCorrect`, `RequestsAreOwnCorrect`, `LeavesIffExitCorrect` and
  `ShownAsSentCorrect`. What the strings do is in lemmas. `split`, `join` and `hostToNetMsg` are
  functions of the number of characters, or of fields, taken so far, and what holds of them
  is proved from one more character or field at a time (`SplitNext`, `WordsNext`, `Received`);
  induction is over a set of numbers (`Induct`), as the library's theorems with an operator
  for a parameter cannot be used. `Sanitized` and `Desanitized` say what becomes of a
  field. `Received` puts them together: of a message whose first fields may be empty, whatever is
  left in front of it, its code and every field that is not empty are understood. That an
  empty field shifts those behind it is why a client without a name cannot send texts or files, and
  why nothing else may be empty. `ExitWord` shows that the two tests for `exit` are
  equivalent for any line.
* The invariant `CommandsInv` adds to the properties what they need in between: that the request
  on its way is the one of the last line (`Places`), that the worker's user has the client's
  name, unescaped, or the one of a user that has none (`Greeted`), that an answer or a message
  on its way holds no escape and is the one that was meant (`Answering`, `Forwarding`).

Only model-checked: the liveness properties (`HangUpEndsSession`, `DeliveredIfBothStay`,
`AllTaken`, `BackToAccept`, `PatientLeaves`, `EchoArrives`, `UdpAnswered`, `TcpAnswered`), which
are beyond the prover. Every other property of a run that passes is proved.

## What is not modelled

* `chatview.cpp` prints and changes nothing, `chatcontroller.cpp` is commented out, `test.cpp`
  is a menu to try the registry by hand, and `Chat::delGroup` has no caller.
* `udp_server.cpp` and `udp_client.cpp` are an earlier version of the chat that no target builds
  and that no longer fits the headers.
* A send that blocks while `chat_mtx` is held (`server.cpp:71`): in the chat's models a send
  always returns. The comparison of addresses at `server.cpp:335` is modelled by its outcome:
  both sides are never filled in, so it never refuses a name that "is being used by another
  host" (`server.cpp:334`).
* `trab_3` and `trab_4` keep no state beyond the connection in hand; a process for every
  connection is in `DualServer`, a later version of the server of `trab_4`.
* In `trab_6`, the two clients that send a burst and never read, and `tcp_client.c`, which lacks its
  last brace and does not compile. `client_udp.c:96` compares two addresses as strings; the
  model takes it that this tells the server from others.
* `trab_1` and `trab_2` are reports and packet dumps.

## Plan

1. A stream of bounded size between worker, messages loop and client in `ChatSession`, so that
   a send can block while `chat_mtx` is held.
2. `ChatRegistry`: the vectors and maps of the registry in their order, shown to implement
   the operators of `Chat`.
3. Proofs: the registry's refinement, when it is stated. What is left else is liveness.
