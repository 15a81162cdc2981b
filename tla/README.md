# Wheespa: a verification project

TLA+ models of the Wheespa chat server (`src/src/`, C++), model-checked with TLC,
with theorems checked by TLAPS. Line numbers refer to the sources; in
`handle_request.cc`, which mixes line ends, only newlines count (`cat -n`).

## 1. The system

A server accepts TLS connections. A peer logs in (as a user, as an administrator,
anonymously under an alias, or asking that an earlier session of its name be
ended) and is then *online*: it sends lines that the server hands to other online
users, or, for administrators, turns into statements on the accounts database.
Three kinds of threads share one tree of sessions:

| part | source | state | operations |
|---|---|---|---|
| session tree | `binary_tree.cc`, `wheespa_tree.hpp` | nodes with a session each, an `overwrite` flag per node | `insert`, `find`, `remove` (flags), in-order `traverse` |
| workers | `wheespa_server.cc` 156-196, `handle_request.cc` | one thread per connection, retries, `m_conn`, `disconnect_requested`, the mutex `mx` | banner, up to three requests, login, find, insert, remove, shutdown |
| poller | `wheespa_server.cc` 92-110 | the node it stands on | walks the tree, reads 10 ms from every session, handles what it read, ends sessions whose peer closed |
| received messages | `handle_received.cc/.hpp` | none of its own | internal chat, administrator's commands, list of who is online |
| accept loop | `wheespa_server.cc` 112-210, `handle_signal.cc`, destructor | threads, flags, `ab`, `r_signal` | reap, select, accept, start a worker; join everything at the end |
| accounts | `wheespa_server.cc` 21-72, `handle_request.cc`, `handle_received.cc`, `dbapi.cc` | tables Registered, PendingRegistrations, Administrators | creation, registration, log-in queries, commands |
| streams | `socket_stream.cc`, `secure_socket.cc`, `socket*.cc` | descriptors, SSL objects | read with a time limit, write after a pause, close |
| startup | `wheespa.cpp`, `wheespa_opts.*` | options | options, configuration file, bind, listen |
| helpers | `sha.cc`, `dbapi_out.cc` | none | password digest, table layout |
| client | `client.py`; `wheespa_client.cc` is not used | | |

**How they interact.** The main thread starts the poller and the workers and joins
them; workers tell it that they are done by raising a flag through the pointer `ab`.
Workers and the poller meet in the tree: workers insert and remove under `mx`; their
`find`, and everything the poller does, takes no lock. The poller is the only reader
of online sessions and the only one that ends them, except for `remove`. Workers and
poller have a database connection each for every request or message.

**What is hard.**

* *Reuse of nodes.* `remove` and the poller only flag a node. `insert` puts the next
  session into the first flagged node it passes, whatever the key, while that node
  still routes searches by its old key. The tree is then no search tree any more.
* *Unlocked readers.* Between the steps of a find, of the walk, or of a handler, a
  node can be flagged, reused for another name, and made visible: also between the reads that
  find makes of one node (its key twice, then its flag).
* *Check, then act.* `find` is done before the lock and not repeated under it.
* *Ends of connections.* Only an orderly end is noticed; streams are closed in one
  step and their node flagged in the next. Worker and poller hold a descriptor each in
  copies of one object.
* *Records.* TLS delivers records, whole or not at all; `select` sees bytes of the
  descriptor, and not what the SSL object has kept back.
* *Ports.* bind and listen may each fail, for reasons of several kinds, after which the server carries on.
* *Descriptors.* They are given back by some ends of a connection and not by others, and there is
  a limit to how many a process may have.
* *Peers that do not read, or send half a record.* A write, or a read, waits for them, in the poller, too,
  and the main thread waits for whoever waits.
* *Threads that finish.* A flag that is captured by reference, a loop that joins
  before it accepts, a signal that may come at any point, a thread that cannot be made.
* *A database that says no.* Nobody waits for a lock and hardly anybody looks at the
  result of a statement; the process may end between any two of them.

**What makes each part correct.** Tree: a guarded insert ends at a node, live sessions
are found and walked in order. Workers and poller together: a connection is in the
directory of sessions at most once in its life, under an identity it was granted, and
stays until its own end or a `remove`; a message names its sender and reaches its
addressee, or one that has taken its place in the midst of the search; everything sent is read and every
orderly end noticed. Accept loop: flags and threads stay in step, no thread is forgotten, everybody is
accepted and a signal ends the server, if no thread waits for its peer for ever. Accounts: administrators are users, nothing is lost, startups complete.

## 2. The modules

```
SearchTree ──< SequentialTree ── MCSequentialTree, SequentialTreeProofs   the tree, one caller
     │    └──< Sessions ──────── MCSessions, SessionsProofs, SessionsFindProofs   all threads
     │           ├─ Directory (INSTANCE: abstract specification)
     │           └─ Connections (INSTANCE: abstract specification)
     └─ SearchTreeProofs                                  lemmas for both
AcceptLoop ── MCAcceptLoop, AcceptLoopProofs              main thread
Accounts ──── MCAccounts, AccountsProofs                  database
Stream ────── MCStream, StreamProofs                      one connection's reads
   └─ ByteStream (INSTANCE: abstract specification)
Startup ───── MCStartup, StartupProofs                    options, bind, listen
```

**SearchTree** is the heap. Nodes are neither moved nor unlinked, so a node is
identified with the path of links that leads to it, a pointer with such a path, and a
null pointer with a path where no node is yet. `data` and `overwrite` are the fields of
the nodes. `CanLink`, `CanReuse` and `Toward` are the three ways on from a node in
`insert`; `Link`, `Assign`, `Clear` and `Mark` the single writes; `Find` is a find that
nobody disturbs; `Before` is the order in which `inOrder` visits. There is no recursion:
a walk is described by the path it has taken.

**SequentialTree** drives it with whole calls, `Login` being the server's own
"insert if find answers nullptr". `ListOnline` is `handleListOnline` on the tree: setDataArray
on a copy of the tree object, the answer, and the copy's destructor, which deletes the root that
both share; nothing is done to the tree after that (`freed`). `Walk` is the recursion of
`inOrder` and `setDataArray`, a recursive function over the ends of the links.

**Sessions** is the core. One action reads or writes at most one field of a node that another thread may
be changing, plus what no other thread can see; the one exception is a comparison of two names, which reads both at once,
the poller's in two nodes. Keys and links are written under `mx` only, so that insert, which holds it, may take a
node's key, links and flag in one look, but not look and link: the poller may flag the node in between. `wpc[c]` and `ppc` say where a worker and the poller are; `at`, `pat` and
`pfound` are the nodes their find, insert and walk stand on. The correspondence:

| action | code |
|---|---|
| `WriteBanner`, `Read…`, `ReadLogin` | 161-168 of the worker lambda, with `ParseRequest::handle` |
| `FindNull`, `FindLeft`, `FindRight`, `FindFlag` | the lines 67, 68, 69 and 70 of the unlocked `find`, one read of a node each; `find`, `less` and `flag` are the places before them |
| `CheckFound` | 170, where the flag is read again |
| `Lock`, `InsertFirst/Down/Leaf/Link/Reuse/Clear/Null`, `Inserted` | 171-173 and `insert`; a reuse is two writes, a new leaf a look and a write |
| `WriteSuccess`, `WriteExists`, `RemoveSession`, `Shutdown` | 174-182, 194-195 |
| `PollerBegin/Advance/Visit` | `inOrder`: whether a flagged node is skipped is decided when the walk gets there, and what it still has to walk when it goes on |
| `PollerRead` | `read(2048, 0)`, with its three outcomes |
| `PollerHandle`, `PollerFindNull/Left/Right/Flag`, `PollerCheck`, `PollerDeliver`, `PollerWrite` | `HandleReceived`; `Addressee` is the name find compares with, which is a reference into the sender's node if the sender is anonymous (handle_received.cc 34-35), and is read there at each comparison |
| `PollerClose`, `PollerMark` | the exception handler, 103 and 104 |

What undefined behaviour does is a choice where the outcomes are known
(`disconnect_requested` and `m_conn_type` are read without having been set). Where nothing
can be said of what follows, `fault` is set and the modelled process stops:
a null link below an equal key (`null`), the root freed by `handleListOnline` (`freed`),
a write to a peer that is gone, SIGPIPE (`pipe`; the write may also succeed). A peer may also be
*stalled*: it does not read, and whoever writes to it waits, until it resumes or goes
(`WriteBefore`, `Write`, `PeerResume`). The mutex is `mx`. `evicted` is a history variable: the connections whose session `remove` took away; `pseen` is another: whose session was
at the node that the poller's find stands on when it came there.

Abstractions: a request is its kind and name, and a password fits or does not; a message
is its kind and addressee. A peer's message is read whole; at most one waits per peer.
A node's session is read and written whole, although the copy of a `std::string` is not
atomic. A refused request, and a Register, may have an answer or not (`MayWrite`); a Register that is refused may count
as done, as `registered` is then uninitialised. A message of another form, and a
command that does not exist, is complained of (`Complain`) before it is handled all the same. `retries` counts refusals.

**Directory** is what all this is for. It knows no tree, no threads and no flags: every
connection is *absent*, then perhaps a session under an identity to which it is
entitled, then *former*, and never anything else again. `Sessions` maps to it by
`directory`: a connection stands there as what its live node holds, as former when its
worker has come past the insert and it is in no live node, as absent otherwise.

**Connections** is the agreement of workers and poller on descriptors: a worker holds the
descriptor of its connection alone, until it shares it by putting the session into the tree; it
may close only what it has not shared, and the poller only what is shared. Sessions implements it, by `Stage` and
`Holder`: there it is tested against the tree, its reuse of nodes and `remove`. AcceptLoop takes its
`WorkerPublishes`, `WorkerLeaves` and `PollerCloses` from it and claims nothing of them.

**AcceptLoop** is the main thread with its workers reduced to "running, session published or not,
done with the connection, flag raised, ended", and the poller to "looks at the signal, in its pass, ended". Flags and threads are named by their connection, and `m_futures` and `m_threads` are the two
vectors; `ab` is the shared pointer. The reaping is two loops, as in the code: `Examine` and
`Join` note in `to_erase` what was joined, `Erase` takes one element after the other out of both
vectors, at an index corrected by `counter`. `Handshake` is the rest of `accept`, which waits for
the peer. After the loop's block is left a worker that writes through `ab` does no harm or ends
the process (`dangling`). `ShutdownLast` is `m_si->shutdown(2)`: a server that never had a connection shuts down an SSL
object that was not made (`wild`); otherwise it is the last connection's, whose peer may be gone (`sigpipe`), or may be waited for,
as OpenSSL's second SSL_shutdown of an object does. `open` holds the connections whose descriptor is open: one
stays there for ever when its handshake failed, or when its worker's shutdown was
not answered with 1; the poller's close takes it out. `SelectFull` is an accept that finds
no descriptor.

**Accounts** has the three tables as sets of names, one action per SQL statement, each of
which may fail, a startup that goes on whatever fails, a crash at any point, registration
as a check and an insert that other workers can come between, and the administrator's
commands. Whether an insert is possible follows from the columns it gives and the columns
the table demands. A name that is all digits is written without quotes and comes back as the text of
a number (`Written`, from `vec_to_str` and `is_all_digit`): `oo7` and `seven` of the instance stand
for 007 and 7.

**Stream** is one connection, from what its peer writes to the strings that
`SocketStream::read` returns. Positions count the bytes of the stream. A peer's `Send`
makes a record (`cuts` holds where they end); `Arrive` brings any number of further bytes;
`Select` looks at the descriptor; `ReturnPending` and `ReturnRecord` are `SSL_read`, which
answers from the rest of the last record, or decrypts the next one when all of it is
there, `ReturnPlain` is the plain `recv`, `ReturnEnd` the exception. While none of them is
enabled the read waits. Sessions abstracts this to messages that are read whole.

**ByteStream** is what reads promise: the bytes in order, each once, in strings; a newline
at the end of a string dropped; the end reported after all the rest.

**Startup** takes processes of the program from the command line to a listening server, in
the order of the code: `GetOpts`, `PrepareDatabase`, `Resolve`, `OpenSocket`, `Bind`,
`Listen`. Each may fail as its call may: `Bind` is refused a port that somebody listens on, and may be refused any other, for
want of rights, for an address that is not the host's, or because a program holds the port without SO_REUSEADDR; the three have one
consequence. Processes share the ports of the host with other
programs and with connections that an ended server leaves behind. `rivaled` and `denied` are history
variables: the processes on whose port somebody else listened since they began, and those that bind refused a port that was free. In the
absence of `-l`, `GetOpts` goes either way, as `listen` is read uninitialised; the address,
also missing then, ends the client's way at once.

## 3. What TLC checks

| run | question | instance | result |
|---|---|---|---|
| `tree_sequential` | what the tree is worth for one caller | 4 names, 5 nodes | passes: guarded inserts end at exactly one node (`NeverFallsOff`), until a node is reused for another key every session is found (`EveryLiveFound`) and walked in order (`SortedUntilReordered`; both are `IsSearchTree`), only such a reuse above a session can hide it (`HiddenOnlyByNewKey`), the recursive walk is the one that Sessions takes apart (`WalkInOrder`), and the list of who is online is complete (`ListsOnline`; both are `WalkLists`) |
| `sessions` | `TypeOK`, `OpenInUse` (that is, `OnlineIsOpen` and `UsedWhileOpen`), `EndsExplained`, `DirectoryKept`, `DescriptorsKept` | 2 connections, 5 requests, 3 messages, both ways to end | passes |
| `sessions_chat` | `SenderStays`, `ReachesAddressee`, `FindIsRight`, `ComesOnlineFound`, `EvictedByNamesake` | 3 connections, a user and an anonymous name, chat, orderly ends | passes |
| `sessions_live` | `WorkerEnds`, `PollerAttends`, `PassEnds`, with peers that stop reading | 2 connections, the same requests and messages | passes under `FairSpec` |
| `accept_loop` | `InStep`, `NeverTerminates`, `WorkersKept`, `NothingOutlives`, `AtMostOneLate`, `Accepted`, `SignalNoticed`, `Stops` | 3 connections, 1 descriptor | passes under `FairSpec` |
| `accept_loop_reap` | are ended workers reaped? | 3 connections | violated, finding 1 |
| `accounts` | `AdministratorsRegistered`, `AccountsSettled`, `DefaultInPlace`, `PendingTwiceUnchecked`, `OneRowEach` | 3 names, 2 of one number, 2 workers | passes |
| `accounts_accept` | is an accepted registration registered? | same | violated, finding 2 |
| `stream` | `OneStringEach`, `StreamKept`, `EndNoticed`, `SentIsRead`, with and without TLS | 6 bytes, records of 1, 2 and 4, reads of 2 and 3 | passes under `FairSpec` |
| `stream_returns` | does a read with a time limit return? | 4 bytes | violated under `FairReads`, finding 3 |
| `startup` | `PortUnlessRivaled` | 2 processes, 7 command lines, 2 + 2 ports, 1 program | passes |
| `startup_port` | does a server listen on its port? | 2 servers, 1 program | violated, finding 4 |

Each property of a passing run comes with a mutant, a definition changed as a bug would
change it (the operators marked "Mutant"), which TLC finds.

**The bounds.** Two connections are enough for every race of two workers and the poller,
including the double log-in that dereferences a null link; three are needed for a reuse
by a third party between two steps of a chat of two, for a node that is reused twice, and for a search that
is led astray: by a node that it has passed, or stands on, and that a login under another name reuses. In `sessions_chat` a user,
who is registered, and anonymous users with an alias write to each other under two names, one that comes from the text of the message and
one that is read in the sender's node; a freed node of either name is given to the other between any two reads of a find.
Five nodes and four names give trees with reused nodes above and below live ones on both
sides. `MaxNodes` and `MaxBytes` are the only bounds on a behaviour that the code does not have; `MaxOpen`
stands for the system's limit of descriptors: with one, every connection but the first waits for a descriptor to be given back,
which does not keep their workers from running side by side; `accept_loop_reap` has two; in Sessions a connection is accepted
once, so trees have at most as many nodes as there are connections. In the
accept loop only the flags of the two newest threads can be raised between two passes,
because every worker raises the newest one; three connections let a pass erase both with an
unended thread before them. In Stream, `MaxBytes` leaves room for a record that is longer
than both reads and for one before it and one after it, and `Sizes` has a read that cuts it evenly and one
that does not; the code's 1024 and 2048 differ from them only in being larger. In Startup two processes and a program
meet in every order of bind and listen; ports are for asking (two) and for the kernel to give
(two, so that none is ever missing). Connections are symmetric; names
are ordered and are not. Liveness is checked without symmetry.

**Deadlock** is not checked where the modelled process may stop: after a fault, after a
signal, when all peers are served, when the root of the tree is freed, or when a connection has ended and its reader knows.

**Fairness.** `Sessions!FairSpec` is weakly fair to every thread:
threads that can run do run, and a worker's read ends after 90 seconds at the latest,
which is one of `ReadNoRequest`'s cases; a write to a stalled peer is not enabled. `mx` needs no strong fairness in these instances
because nobody takes it twice. `AcceptLoop!FairSpec` is weakly fair only to steps that wait for no peer: the main thread
but for `Handshake` and `ShutdownLast`, a worker that is done with its connection (`Finish`), the poller's look at the signal. Peers are not
fair: nobody has to connect, send, read or leave. So `Accepted`, `SignalNoticed` and `Stops` say what they take for granted: that no
handshake hangs for ever, that every worker gets away from its peer (`WorkersLeave`; a worker that does not may be joined by the loop, because
another has raised its flag, and then holds up all who come later), that passes of the poller and the last shutdown
return, and that leaks have not used up the descriptors (`[]<>~Full`). `WorkerEnds` and `PassEnds` of Sessions say when workers
and passes do.

A worker comes to its end if its own peer does not stop reading for ever
(`Reads`). The poller's promises, `PollerAttends` and `PassEnds`, need that of every
peer: one addressee who does not read holds up the messages, and the ends, of all.
`Stream!FairReads` says that the caller reads again and again, as the poller does, and `Stream!FairSpec`
that the network delivers what was sent. Sessions' liveness takes the latter for granted: a
message that begins to arrive arrives whole. `ReadReturns` shows what happens otherwise.

**The exceptions in the properties.** `SenderStays`, `OnlineIsOpen` and
`UsedWhileOpen` hold up to sessions that `remove` took away. This is what the code does: a worker that ends
another session flags its node while the poller may be in the middle of handling a message
of that session; if the node is reused before the poller is done, the message carries the
newcomer's name, or the newcomer's descriptor is closed. Without a `remove` nothing of the
kind can happen, since only the poller itself frees nodes then: that is what the
properties say.

`ReachesAddressee` has that exception for the sender, whose node may hold the name that find compares with, and another one, which needs
no `remove`. find compares the key of a node with `>` and then with `<`, and then reads the flag. If the node had been freed under the name sought, a
login may give it to another user between these reads: find then answers the newcomer's node, the check of line 37 passes, and the message goes to
the newcomer. To a node that is live when find comes to it this happens only through a `remove`, for the poller, which searches, flags nothing
meanwhile. The property says that this is all: who gets a message under another name than the one
meant has taken the node since find came to it (`pseen`), and the session that was there then has ended.

`FindIsRight` speaks of a search that stands on the way of its key, which it does at its beginning, and knows of the node's key what
it has read (`OnCourse`). It says when that ceases to be so: only when a login gives a flagged node another name, which
is one above it, or the one that it stands on between its two looks at the key and the one at the flag (`RenamedOnWay`); or, for the poller, when the
name sought itself changes in the sender's node. Until then it answers what a search in a single step
would answer at its last. `ComesOnlineFound` has the exception of a double log-in: who comes online below a session of
its own name is not found while that session lives. `EvictedByNamesake` has none.

`EndsExplained` says of each fault who can have caused it: a null link is followed only for a name that another
worker has inserted, the root is freed only for a registered user (or in the place of one that `remove` took
away), and SIGPIPE needs a peer that is gone. `OneRowEach` is what W_USER being unique and the canonical text of
numbers come to: two workers who found the same name free, or 007 and 7, do not share a row.

**Findings.**

1. A finished worker raises the flag of the newest connection, because `ab` is captured by
   reference; its own thread is not reclaimed, against the comment in `wheespa_server.cc` 119.
2. `ACCEPT_REGISTRATION` violates W_MAIL's NOT NULL and never registers anybody, against the
   comment in `handle_received.hpp` 27.
3. `select` returns for any byte of a record, and `SSL_read` then waits for all of it: one peer that
   sends half a record stops the poller, and every session, against the time limit of
   `socket_stream.cc` 58.
4. A server that cannot bind its port, or cannot listen on it, goes on: on a port that nobody knows, or deaf
   (`BindException` is not thrown, `wheespa_server.cc` 14), against the help text at `wheespa_opts.cc` 59,
   whose default port is not the code's either.

Some more disagreements are in the models but have no run. A message may go to another user than the one it names, as described for
`ReachesAddressee`. `insert` reuses a freed node for any key, so that the
"In-Order" walk (`binary_tree.cc` 74) of the "search tree" is out of order and sessions become unfindable:
`SortedUntilReordered`, `EveryLiveFound` and `HiddenOnlyByNewKey` say until when it is not so. Anonymous users
can write to any session, anonymous ones included, against the comment in `wheespa_tree.hpp` 15. `listen` is
uninitialised without `-l`, against the help text at `wheespa_opts.cc` 57.

## 4. What is proved

For all values of the constants that satisfy the named assumptions of the modules:

* `SessionsProofs!TypeCorrect`: `Spec => []TypeOK`. The types need `Grounded`, that a node
  someone holds exists and that what is inserted is a session of the inserting connection.
* `SessionsProofs!Invariant`: `Spec => []IInv`, the inductive invariant: types; `Ownership`, every
  node holds the `m_conn` of its owner, whose worker has come past its insert, and nobody owns two
  nodes; `HalfReused`, between the two writes of a reuse the node is flagged and its worker's;
  `Linking`, the link that insert found to be null is null until it links there; `Legitimate`, an identity is one that the connection is entitled to. Ownership is what makes the
  directory a function, HalfReused why the poller's flag (the one write without the mutex) cannot
  hit between the writes of a reuse and be lost on another session.
* `SessionsProofs!DirectoryImplemented`: `Spec => DirectoryKept`, that is, Sessions implements
  Directory: each of the inserting steps is a `Register`, each flagging of a live node a `Drop`, every
  other step a stutter.
* `SessionsProofs!StepEffect` is the lemma that the later proofs share: what any step of a worker, its peer or its accept may do
  to places (`Moves`), nodes (`Writes`) and descriptors (`Leaves`); `PollerEffect` says it of the poller, whose one write to the tree is to raise a flag.
* `SessionsProofs!EvictedTheorem`: `EvictedByNamesake`, inductive with IInv: whoever is published and in no live node does not come
  back (`GoneForGood`), for a node that becomes visible belongs to the worker that inserts it (HalfReused, Grounded).
* `SessionsProofs!DescriptorsTheorem`: `Spec => DescriptorsKept`, Sessions implements Connections; InsertFirst, InsertLink and
  InsertReuse are its `Share`. It rests on `CloseInv`: what the poller handles is open and shared, and only who was refused or
  has been in the tree is closed, `remove` or not.
* `SessionsFindProofs!FindTheorem`: `Spec => FindIsRight`. `ReachInv` says that all above the nodes, and above where searches
  stand, is linked. A search's own step stays on course (`CourseDown`, from `PathToChild`), and where it ends nobody else on that way can
  hold the key (`SearchEnds`, from `OnePath`, `OthersAbove` and `OneHolder`); another worker's step changes no key that it relies on but that of a flagged node (`LedAstray`).
* `SessionsFindProofs!ComesOnlineTheorem`: `Spec => ComesOnlineFound`. `InsertInv`: a worker that inserts stands where its own
  key leads, and nobody changes that meanwhile, since all who write keys hold `mx` (`InsertAlone`).
* `SessionsProofs!SenderTheorem`: `Spec => []SenderStays`, from IInv and `SenderInv`, which adds the
  walk's visit and read to the places, and the node being reused half way.
* `SessionsProofs!OpenTheorem`, `OnlineTheorem` and, for both, `InUseTheorem`: `UsedWhileOpen` and `OnlineIsOpen`, from IInv,
  `CloseInv` and `OpenInv`: until a `remove`, what the poller stands on stays live, a worker closes only what was
  never published (`LivePublished`), and the one live node whose descriptor is closed is the one the poller is
  about to flag. Every step of the others is a frame (`OpenFrame`): it adds at most a node of its own.
* `SessionsProofs!AddresseeTheorem`: `ReachesAddressee`, from IInv, SenderInv and `AddressInv`: from find's first look at a key to the
  write, the session at the node is the one that was there when find came, whose key is what find has made out, or that
  one is gone for good (`Lost`, `GoneForGood`); and as long as the sender was not taken away, the name that is read in its node
  is the one meant (`AddresseeIsMeant`).
* `SessionsProofs!EndsTheorem`: `EndsExplained`, from IInv and what each step that sets `fault` knows then.
* `SequentialTreeProofs`, for any number of names and trees of any size: from `Rooted` (all above a node is nodes),
  `Shallow` (no way is longer than some number) and `Routed` (until a node is reused for another key, every node is
  where a search for its key comes) follow `TypeCorrect`, `LandingTheorem` (`NeverFallsOff`: there is a deepest node on
  the way of an insert, and it is the only landing), `FoundTheorem` (`EveryLiveFound`), `SortedTheorem`
  (`SortedUntilReordered`), `SearchTreeTheorem` (both) and `HiddenTheorem` (`HiddenOnlyByNewKey`). `OnePath` carries them: two places on a key's
  search path lie on one way. It needs the least place where two ways differ, which `Least` takes from the library's theorem on
  well-founded sets. These lemmas are in `SearchTreeProofs`, which Sessions' proofs use as well, with `FirstTheorem`: the poller's
  walk, which Sessions takes apart with `First`, always has one next node.
* `SequentialTreeProofs!WalkTheorem`, `ListsTheorem` and, for both, `WalkListsTheorem`: `WalkInOrder` and `ListsOnline`, that is, what the recursion of `inOrder` and
  `setDataArray` computes in any tree. The library's induction theorems cannot be used here; in their place stands a counterexample that
  is deepest, which `Least` gives, since trees are finite and no way is longer than some number (`Shallow`). Below a link that
  has no such counterexample the walk is left subtree, node, right subtree; in these three parts places come one before another by `BelowLeft`,
  `BelowRight` and `BelowApart`.
* `AcceptLoopProofs`: `TypeCorrect`, `VectorsInStep` (`InStep`), `CleanupNeverTerminates` (`NeverTerminates`),
  `NoWorkerForgotten` (`WorkersKept`), `ExitIsLast` (`NothingOutlives`) and `OneLateConnection` (`AtMostOneLate`), from one invariant:
  `PassInv` (the noted indices rise, and at each of them, less what was erased before it, stands a thread that was joined), `ConnsInv` (where a
  connection is: unmade, waiting, being accepted, kept), `ThreadsInv` (what was joined has ended, what has not ended is kept),
  `EndInv` (what the destructor has passed has ended) and `LateInv` (a late connection is alone, and the loop does not come to select again).
* `StreamProofs!TypeCorrect` and `StreamImplemented`: Stream implements ByteStream, from `Records` (ends of records lie
  in the stream, and what is decrypted ends with one) and `Endings` (an end that has arrived after an orderly end has all
  the bytes before it). The step that matters is `ReturnEnd`: nothing unseen is left then (`Unseen`).
* `StreamProofs!OneStringTheorem`: `OneStringEach`, from `Whole`: as long as records are short, the SSL object keeps no
  rest. That records are short is itself preserved backwards (`ShortBefore`): if it holds after a step it held before.
* `StartupProofs!TypeCorrect` and `PortTheorem`: `PortUnlessRivaled`, from `Sockets` (who may be bound or listen, and nobody listens on another's port)
  and `Unrivaled` (a process without a rival is on its way to its own port, or was refused it and listens on another).
* `AccountsProofs!PendingTheorem`: `Spec => []PendingTwiceUnchecked`, from `ClaimInv`: nobody but the
  default administrator is ever registered, and whoever claims his name has checked it against
  an empty join, before his row was there or after.
* `AccountsProofs!DefaultTheorem` and `RowsTheorem`: `DefaultInPlace`, from what each statement of a startup leaves for the
  next when none of them failed; `OneRowEach`, from the type of `recorded` and W_USER being unique.
* `AccountsProofs!TypeCorrect`, `AdministratorsTheorem`, `AccountsTheorem`: types, administrators are
  registered, and a serving server changes neither table. The last two are the assumption
  `AccountsAssumption` of Sessions and its treatment of both tables as constants.

Assumed: names are integers (only their order matters), the sentinels are no connections or
sessions, requests and messages are of the kinds the code knows, `Admins \subseteq Registered`;
texts are not empty, reads ask for at least one byte; the kernel's ports are none that are asked for.

Only model-checked: liveness (fairness and ENABLED are beyond the prover): `WorkerEnds`, `PollerAttends`, `PassEnds`,
`Accepted`, `SignalNoticed`, `Stops`, `EndNoticed`, `SentIsRead`. Every other property of a passing run is a theorem.

## 5. What is not modelled, and the plan

Not modelled: password digests (a pure function around OpenSSL), table layout, the client, the values of options other than
the port, and the vendored headers of OpenSSL, SQLite and the option parser, which are most of the lines under `src/`: they are
third-party declarations, and the modules have what the server uses of them as actions of their own.
Not followed, because the program is undefined from there on: what comes after a fault, such as the walk over a
freed root; a `SocketStream` that the reuse of a node frees (`binary_tree.cc` 49 drops the last `shared_ptr` to it) while the poller waits in its
`write`, which takes a `remove` of that session (a stream is its connection's for ever in the models, so that `OpenInUse` and `EndsExplained` do not
speak of it); two threads in one SSL object at a time; a descriptor's number that is given to a new connection
while an old copy still holds it (`UsedWhileOpen` says when such a copy is used). How much the kernel buffers before a
write waits is left to the peer, who may stall at any time. The pre- and post-order walks are called by nobody.

What the plan has left:

1. *Accept loop and sessions together*: the flag raised at the end of Sessions' worker, the poller's
   end after a signal, sessions that come online after it. The two meet in two conditions, that workers and
   passes of the poller come to their end, of which `WorkerEnds` and `PassEnds` say when they are met.
2. *Requests*: how the two regular expressions split them.
