# A TLA+ model of http_proxy

`http_proxy` is a single process HTTP proxy in C: one thread runs an event loop
around `pselect(2)`, one detached thread per connection resolves the origin's
name, and an SCTP socket serves administrators. This directory holds TLA+
modules translated from its source, the TLC runs that check them on small
instances, and TLAPS proofs of what matters most of the buffer, the event loop,
a connection, the response parser, the logger and the administration service for
every value of their parameters. Paths below are relative to
`src/proxy_http/src/` unless they start with `src/`.

## Inventory

| part | state | operations | talks to |
|---|---|---|---|
| buffer (`buffer/buffer.c`) | a block, `read`, `write`, a reserved zone at its start | write, read, peek, advance, push back, compact | the parsers and handlers of a connection |
| selector (`selector/selector.c`) | the item of each descriptor, master and slave sets, `max_fd`, the list of finished jobs with its mutex | register, unregister, set interest, `selector_select`, `selector_notify_block` | runs every handler; woken by the resolver threads with a signal |
| main (`main.c`) | none of its own | start-up, `listen_read_handler`, the loop | selector, client, admin queue |
| client (`client/client.c`, `client_handlers.c`) | state, flags, four buffers, parser states, resolved host | read, write, block, close | request parser, selector, resolver thread |
| origin side (`client/remote_handlers.c`) | the origin's descriptor, in the client | read, write, block, close | response parser, selector |
| parsers (`request_parser`, `response_parser`, `myParserUtils`) | parser state in the client | move bytes from one buffer to the next, push back split tokens, add headers | buffers, `client_set_host` |
| transformations (`transformations`, `client/transformation_handlers.c`, `chunks.c`) | pipes and a child process | created for every connection, used by none (`shouldTransform` is false) | selector, client |
| metrics (`metric/metric.c`) | five numbers | new connection, close connection, add bytes | client, admin actions |
| configuration (`config/config.c`) | names and values | create, get, set by number | main, client, transformations, admin actions |
| admin service (`admin_handlers`, `admin_actions`, `msg_queue`) | a queue of answers, one address | read a request, write an answer | main's loop, metrics, configuration |
| admin client (`src/admin_client`) | a menu state | ask, wait for the answer | admin service |
| logger (`logger/logger.c`) | a pipe, a buffer, a thread | send, write | selector, client |
| command line (`argument/argument.c`) | none | gives configurations their values at start-up | configuration |
| dummy parsers, serializer | - | not used, or pure conversions | - |

What is hard here: descriptors are reused while jobs and readiness that name
them are still around; a handler runs for one descriptor and changes the
interest, or ends the life, of another; the resolver's signal may arrive at any
point of the loop; buffers fill up at any boundary; peers close, reset and send
in pieces that end within any token; several administrators share one address
and one queue; the logger writes to a blocking pipe from the only thread of the
event loop. The list of
hazards, each at its line and with the properties aimed at it, is in
`PROJECT.json`.

What makes each part correct: the buffer is a queue; the selector's sets agree
with its items, it never waits on what is closed, delivers readiness and results
to those they belong to, and handles every result; a connection passes both
messages on in order, is woken when it has something to do, and is released with
everything it opened; a parser finds the origin, or the end of the response,
whichever way the message was cut, and copies every byte once; log messages
reach syslog whole and in order; answers reach the administrator who asked; a
configuration has the value it was given last.

## Modules

- **`QueueOps`** - queues with room and push-back, as operators on records
  `[q, room]`. The common vocabulary of the next two and of `Client`.
- **`BufferQueue`** - the abstract specification of a buffer: a queue that loses
  the room of what was read until it is empty, and takes back bytes at its front.
- **`Buffer`** - `buffer.c` with its pointers as indices and its memory as a
  function. Refinement mapping to `BufferQueue`: the bytes between the pointers,
  and the room after `write`.
- **`SelectorOps`** - the table of `struct fdselector` as a record, and every
  operation that changes it as an operator; used by `Selector` and `Client`.
- **`Selector`** - `selector_select`, step by step, called forever by `main`;
  the iteration visits one descriptor and one operation per step, so that the
  resolver threads interleave with it anywhere. The callbacks are open: they do
  any of the things to the selector that the real ones do. The kernel hands out
  the lowest free descriptor; `transformations_new` opens some that nobody closes,
  and since it closes others in between, those may be any of the free ones (`Leaks`).
- **`Client`** - one connection with its real handlers: every branch of
  `client_handlers.c` and `remote_handlers.c` (the transformation ones cannot be
  reached), the resolver thread, `client_free_resources`, and a user agent and an
  origin that behave or do not. `Surroundings` says which buffer sizes and faults
  may come together; a size of 0 is a `buffers_size` that the reserved zone takes
  all of. Bytes are abstracted to *units*, the pieces of a message that handlers
  and parsers treat differently; a unit is its position in the message, so that
  order and loss can be stated. `checkRequest` and `checkResponse` are modelled by
  what they do to their two buffers and to their state. `TypeOK` of the buffers
  uses the queue that `Buffer` is proved to implement. `MessageAssumption` is the
  grammar of the units: one start line, which comes first, and one end, which comes
  last. `WellBehaved` says when whole delivery is promised: no fault but a name that
  is not resolved, a response that says where it ends, and messages that fit.
- **`ParserUtils`** - the functions of `myParserUtils.c` as operators that take
  the parser's record and return it changed: copying, matching a literal, reading
  a number, and pushing back what was read when the input ends too early. Bytes
  are symbols; a literal such as `HTTP` is cut into two or three of them, so that
  a read can end within it, and digits and line ends are symbols of their own. The
  case of a letter and the number of a digit are kept, because the parsers convert
  them.
- **`RequestParser`**, **`ResponseParser`** - the parsers, one step per turn of
  their loops, over a message that arrives in pieces. Both have the caller too,
  because what is left in the input between two calls is half of the contract. A
  message is a record of its parts; `Text` is what arrives, `Forward` what should
  leave, `Origin` and `Verdict` what the parser should decide, all defined on the
  whole message and without the parser's functions. Of the request parser there
  are two callers: `unit_test`, for which it was written, and `client_read`, which
  moves what a call left in the input to the output. `turns` counts the turns of the
  loops in the present call: `EveryCallReturns` of the response parser and
  `NoCallSpins` of the request parser bound it by what can be read in a call. The
  former holds; the latter does not, and `DecidesInTime` names the only requests
  about which a call goes on without end. Recursion over a message or a number (`NonZero`, `Numeral`, `Value`) is
  written as a recursive function over an interval, so that it can be proved about;
  `ResponseAssumption` types the responses.
- **`Logger`** - `logger.c`: the buffer `log_send` fills, the blocking `write(2)`
  byte by byte, and the thread that cuts the pipe into lines. A message is a
  sequence of its own number, which is all that order and truncation need. The
  history `due` holds the lines that what was stored should become.
- **`Admin`** - the administration service: `main`'s part of the loop, both
  handlers, every action, the queue, the configurations from the defaults and the
  command line on, and administrators that ask and wait as `src/admin_client` does.
  Before the loop `main` creates the configurations it was given, one per step
  (`CreateConfig`); the sockets listen, and requests arrive, from `StartLoop` on.
- **`BufferProofs`**, **`SelectorProofs`**, **`ClientProofs`**,
  **`ResponseParserProofs`**, **`LoggerProofs`**, **`AdminProofs`** - the theorems; **`SelectorOpsProofs`** and
  **`ClientDataProofs`** - the lemmas on the selector's table, which both
  `SelectorProofs` and `ClientProofs` use, and on the data of a connection.
- **`MCBuffer`**, **`MCSelector`**, **`MCClient`**, **`MCRequestParser`**,
  **`MCResponseParser`**, **`MCLogger`**, **`MCAdmin`** - the instances.

Definitions that start with "Mutation:" in their comment are plausible mistakes
in the code, kept next to the definition they would replace; each property is
refuted when its mutation is put in.

The correspondence with the code, definition by definition and with line
numbers, is the `map` of `PROJECT.json`. Names are the source's where TLA+ allows
it. What is not a name of the source is a branch of a handler
(`ClientReadParse`, `RemoteWriteError`...), a step of a longer function
(`SelectBegin`, `Visit`, `NotifyJob`...), one turn of a loop (`HeaderStep`,
`ChunkStep`), a `case` of a parser's `switch`, or the environment.

The modules meet where the code does: `Client` uses the table of `SelectorOps`
and the queue of `QueueOps`, which the theorems show to be what `selector.c` keeps
consistent and what `buffer.c` implements; the parsers and the logger use the same
queue. `Client` cuts requests between tokens only; what happens within a token is
the subject of the parsers' modules.

## Runs

| run | asks | bounds |
|---|---|---|
| `buffer` | pointer order, reset when empty, where push-backs land, refinement of the queue | 5 bytes, 2 of them reserved, 2 byte values: every combination of the two pointers occurs, with push-backs into the reserved zone and over read bytes |
| `selector` | consistency of the table, only open descriptors waited on, readiness for the right connection, every result of a resolver handled | 4 descriptors, one leaked per connection, 2 connections: descriptors run out, are reused, and a stale job meets a new owner. The safety properties are proved for any number |
| `client` | descriptors, metric, order, request before response, no lost wake-up and nothing touched after the release, always; whole delivery and release when the peers behave and the messages fit | messages of up to 4 units; buffers of 3 units with and without faults, of 4 without, so that the longest forwarded message fits or does not, and of none with every fault |
| `request_parser` | the output, the origin and the error are those of the whole request; it is decided as soon as it can be, and a call goes on without end only about a `Host` value that starts with a character no host has | 10 requests with an origin and 8 without (methods, blanks, both forms, user, port with a leading zero, first headers that begin like the ones looked for, loops, a host at the size limit, a `Host` value with a character no host has at its start and after it), cut in every way for `unit_test`; for `client_read` cut anywhere after the part the parser looks at. Reserved zone of 5; one request has a host and port that do not fit it |
| `response_parser` | the output, the end and the error are those of the whole response; every call returns | 18 responses (length, chunks, both, neither, other headers that begin like the ones looked for, a byte 0 in the body, a chunk of 16 whose size has two digits, transformed, malformed in each place, bytes after the end), cut in every way; output too small for the longest |
| `logger` | order and separation of the lines, the loop comes back, all is logged | 4 messages of 0, 1, 2 or 4 bytes, buffer of 7, cache of 3, pipe of 2: truncation with one byte and with none left, a message longer than the cache and one that fills it, a write longer than the pipe |
| `admin` | answers are watched for and all sent, lists are snapshots, an administrator who is alone is served, configurations have their last value | 2 administrators, 2 requests of any of 8 kinds, 1 connection that comes and goes; 2 default configurations and a command line that sets one again and adds one |

Deadlock is not checked where the system may really stop: in `client` the process
may end (`exit`, SIGPIPE) and a connection may wait forever; in the parsers' runs
the message ends; in `logger` the bound on messages is reached or the proxy ends.

Five runs refute a sentence of the documents or of the code's own comments
(`findings` has the quotations):

- `selector_stale`: a finished job is looked up by descriptor; when its
  connection is gone and the descriptor reused, `client_block` runs for another
  connection (`selector/selector.c:508`).
- `client_no_origin`: `client_read` assigns the parser's error code to
  `client->state`; the value of "no error" is that of `NO_ORIGIN`, and the rest
  of the request is then ignored by `remote_write` (`client/client_handlers.c:80`).
- `client_origin_close`: `read(2)` returning 0 on the origin is ignored, so that
  a response that ends by closing never ends (`client/remote_handlers.c:26`).
- `request_split`: after a call of the parser that ran out of input,
  `client_read` moves the token it pushed back to the output; a host name that
  arrives in two reads is resolved without its first part
  (`client/client_handlers.c:52`). With the caller `unit_test` the same property
  holds for every cut.
- `request_spin`: a `Host` value that starts with a character no host has, such as
  `[`, is neither rejected nor moved past: `checkRequest` never returns, and the
  event loop with all its connections stops (`request_parser/requestParser.c:149`).
  `DecidesInTime`, over the same requests, says that nothing else does this.

Other behaviour met while modelling, which no sentence of the repository denies
and no run states: a client that closes before its host is found is never
released; `request_complete` is set when the host is found, not at the end of the
request; one response the parser rejects calls `exit(42)`; writing to a peer that
went away raises SIGPIPE, which nothing ignores; a `connect(2)` that succeeds or
fails at once leaves the origin unregistered; after a write error to the origin
in `SEND_REQ` the loop spins on the client's writable descriptor; every
connection forks a process that inherits all descriptors and leaks three; what of
a response does not fit in the client's buffer is dropped without notice
(`InOrder` holds, whole delivery only when the messages fit); after a read error
`client_read` goes on with the buffers of the client it has released.
In the parsers: a blank line right after the start line is not seen as the end of
the headers; a user name longer than the host leaves its tail in the array; an absolute URI with a port
that is not a number stops the parser without an error; a port of which only the
colon has arrived is pushed back as `:0`, so that an empty one becomes 0; numbers
are C `int`s that may overflow; version errors are never reported, because
`checkRequest` sets the version before it parses; header names are matched
anywhere in the headers; a `Content-Length` is kept beside the
`Transfer-Encoding` that is added for a transformation; a byte 0 in the headers is
read and not copied, and ends the call as if the input were empty (the operators do
this, the messages of the runs have none there); the body of a response that has
neither a length nor chunks and a status other than 200 is not waited for (no
response of the run has one). In the logger: the thread's cache is not cleared
before its first line, so that a first line that fills it is printed with whatever
follows in memory (`Logger` starts with an empty cache); a message
that fits the space exactly, without its 0, stores one byte past it and stops the
process at the assertion of `buffer_write_adv` (`Logger` models the stop).

One more disagreement with a document has no run of its own: a request of one
administrator that arrives while answers to another are queued redirects them to
its own sender (`admin_handlers/admin_handlers.c:68`), although
`src/docs/protocolo.md:12` describes requests and their responses. The model does
this too, so that `AnswersItsRequest` is claimed only of an administrator who is
alone (`AloneIsServed`).

## Fairness

- `Selector`: weak fairness of the main thread's steps other than the return of
  `pselect` with descriptors, and of each resolver thread. Nothing is assumed of
  the descriptors or of the timeout: that every job is handled rests on the
  signal alone, which is blocked outside `pselect` and so stays pending.
- `Client`: weak fairness of the main thread, of the resolver and of the peers'
  sending, accepting and, where it is allowed at all, closing at the end of a
  response. Level triggered `pselect` reports a descriptor as long as it is ready.
- The parsers need none: that a call returns is an invariant on the number of turns
  of its loops (`EveryCallReturns`, `NoCallSpins` and a part of `DecidesInTime`), and the environment may stop sending.
- `Logger`: weak fairness of the main thread's writing, whose `write(2)` goes on
  when the pipe has room, and of the logger's thread. Nothing obliges the proxy to
  log or to end.
- `Admin`: weak fairness of the main thread, whose `pselect` has a timeout, and
  strong fairness of finding a watched socket writable, because SCTP delivers or
  gives up what was sent.

## Proofs

`BufferProofs`, for every block size, reserved zone smaller than it, and set of
bytes (`BufferAssumption`):

- `Invariance`: `Spec => []Inv`, where `Inv` joins the types, `PointerOrder` and
  `EmptyIsReset`. It is inductive as it stands; `EmptyIsReset` is what makes
  compaction, whose target is the end of the reserved zone, agree with the queue.
- `TypeCorrect`, `EmptyReset`: the types and `EmptyIsReset`, from it.
- `PushBackReserved`: the action property `PushBackIsReserved`.
- `Refinement`: `Spec => ImplementsQueue`. Initial states map to initial states,
  and each operation maps to the operation of the queue with the same name, by
  lemmas on the bytes between two pointers.

`SelectorProofs`, for every number of descriptors, every set of connections, any
number of leaked descriptors (`SelectorAssumption`, `ServerAssumption`):

- lemmas on the operators (`SelectorOpsProofs`): `selector_register`, `selector_set_interest` and
  `selector_unregister_fd` keep any consistent table consistent and change one
  item at most (`RegisterTable`, `SetInterestTable`, `UnregisterTable`);
  `items_max_fd` returns the highest used descriptor (`MaxFdFound`, from the
  well-foundedness of the naturals);
- `Invariance`: `Spec => []Inv`. `TableConsistent`, `WaitsOnOpen` and
  `ReadinessIsFresh` are not inductive. `Inv` adds `ItemsOwned` (a used item is
  open, is not below the listening one and belongs to an accepted connection),
  `FdsApart` (no connection has a descriptor `main` opened; a thread is started
  only for an accepted connection) and `LoopInv`: during an iteration each ready
  descriptor belongs to whom `pselect` saw or to nobody, and until the listening
  descriptor has been visited all of them are still open. This last is the reason
  why descriptors accepted in an iteration are never mistaken for ready ones: the
  listening descriptor is the lowest one in use, so nothing is closed before it
  is visited and nothing is registered after;
- `TypeCorrect`, `TableSafe`, `NeverWaitsOnClosed`, `ReadinessFresh`: the
  invariants of the run `selector`.

`ClientProofs`, for every set of requests and responses, every size of the
buffers, zero included, and every combination of faults (`ClientAssumption` types
them and asks for the four descriptors a connection can need):

- lemmas on the data (`ClientDataProofs`): reading, both parsers, the copy after
  them and writing take a prefix of what is before them and append it, possibly
  with headers of the proxy's own or with parts missing, to what is behind them;
- `Inv` is the conjunction of `Table` (the descriptors, the selector's items,
  `freed` and the metric agree), `Job` (the resolver thread is started once, when
  the request parser finishes, and the connection leaves `NO_ORIGIN` only after it
  reported), `Watch` (what each state says of the buffers and of the interests),
  `Flows` (what is delivered, buffered and in the network of either message is
  increasing and below what was sent) and types. `NextStepIsWatched` needs that
  the response's buffers are empty before `READ_RESP` and that the buffer before
  the response parser has all its room as long as there is an origin;
  `RequestBeforeResponse` needs the history of the resolver thread, because the
  flag it speaks of is uninitialised until the parser finishes;
- `Delivery`, beside `Inv`, is what `DeliveredBeforeRelease` needs. `Inv` says that
  what is delivered is in order, never that it is all there: parts may be missing
  after a fault, or when a buffer is full. Under `WellBehaved`, `Delivery` says that
  nothing is: no peer has left (`Quiet`); the request is in the network, in the
  first buffer or, with the proxy's header, divided between the second and the
  origin (`ReqSide`; the user agent that behaves sends it at once); what the user
  agent has of the response and what waits for it are exactly the units read so far
  with the header, the room that is left is enough for the others, and the parser
  is finished just when the last unit was read (`ResSide`); and the handlers release
  the origin only when the parser is finished, and the client only when nothing
  waits for it (`Finish`). `MessageAssumption` is used for the two ends: the header
  is added once, and the parser does not finish before the last unit;
- `TypeCorrect`, `Descriptors`, `InstCounted`, `RequestFirst`, `StaysInOrder`,
  `NextWatched`, `Delivered`, and the action property `ReleasedAlone`: all safety
  properties of the run `client`.

`ResponseParserProofs`, for every set of responses, malformed ones included, all
sizes of the three buffers and of the reserved zone, and every way a response is cut
(`BufferAssumption`, `OutAssumption`, `ResponseAssumption`):

- `NumberSurvives`: the numeral the parser pushes back when the input ends within or
  after a number is read again as that number, for every number and both bases.
  `Numeral` and `Value` are recursive functions; that they satisfy their equations,
  and the induction over the number, are both proved from the least element of a set
  of naturals (`Least`, `Recursion`), since the prover cannot use the library's
  induction rules;
- one lemma per function of `myParserUtils.c` and of `responseParser.c`: from data
  of the right types it makes data of the right types, and it either *stops*, ends
  the call with what it needs pushed back, or *reads*, leaves the input shorter or as
  it was and pushes nothing back (`Stops`, `Reads`). `NotNection` is the one place
  where the code goes on with what it has pushed back: after `Con` at the end of the
  input it looks for `nection:` in it, and does not find it because the first symbol
  it finds there is `C` or `ON`;
- `Inv` adds to the types that the input's room is at least `Cap - sent`, hence that
  a call begins with at most `Reserve + sent` symbols, that what follows the blanks
  is never the blanks again (`Planned`), and `Progress`: the turns taken so far, three
  for each symbol of the input and the `Rank` of the state are at most the bound of
  `EveryCallReturns`. A turn that reads pays with the symbol, one that does not goes
  to a state of a lower rank. `EveryCallReturns` alone is not inductive: it does not
  say what the turns have left to read;
- `ResponseTypeCorrect` and `ResponseCallsReturn`: `TypeOK` and `EveryCallReturns`.

`LoggerProofs`, for every size of the buffer, the pipe and the cache and all
messages (`LoggerAssumption`): `TypeCorrect`, and `LoggedInOrder` from the
invariant `InFlight`. What is in the cache, in the pipe and in the part of the
buffer that `write(2)` has not moved yet is one string of bytes; `InFlight` says
that there are places at which this string is cut into the lines that are still
due, each cut being one the thread makes: at a byte 0 or after `CacheMax` bytes.
`LinesInOrder` alone says nothing of a line before it is complete.

`AdminProofs`, for any number of administrators, requests, configurations,
command lines and connections. `AdminAssumption` types them and says that there is
space for every name of a configuration: the code uses eight, and `MAX_CONFIG` is
100. `Inv` is the conjunction of

- `Watched`: in `pselect` and before it an answer in the queue is watched for,
  what `pselect` announced is there, and a queued answer has an address to go to;
- `Counted` and `Snapshots`: the counts are possible at every moment, and so are
  those of each list in the queue, whose first metric is followed by the others;
- `Configured`: no name is in the array twice, and each has its latest value. That
  a new name always finds a place is a counting argument: distinct names are at
  most as many as `ConfigNames`;
- `Served`: if every request so far was made by `a`, then the request `a` waits
  for is the last that arrived and nothing is queued, or it was read and what is
  queued and in the inbox is about it, with nothing after the message that ends
  the answer. `AloneIsServed` speaks of the inbox only.

From it `TypeCorrect`, `Watching`, `Snapshot`, `Latest` and `ServedAlone`: all the
safety properties of the run `admin`.

TLC agrees with every one of these invariants on the instances of the runs; the
places of `InFlight`, a quantified function, were given a finite range for that.

Only model checked:

- liveness (`JobsAreHandled`, `Released`, `LoopComesBack`, `Logged`,
  `AnswersAreSent`), which is out of the prover's reach;
- that the parsers agree with the definitions on whole messages (`ForwardedInOrder`,
  `OriginIsRight`, `EndIsRight`, `RejectionIsRight`, `DecidesInTime`). They hold for
  the messages of the grammar the runs enumerate and not for every record a constant
  could hold, and would need the parser's state related to the place it has reached in
  the whole message, part by part and digit by digit;
- the types of `RequestParser`, and `DecidesInTime`, which says when its turns are
  bounded. That they always are, which is proved of the response parser, is refuted
  of it by `request_spin`;
- what the violation runs refute.

## Not modelled

- The growth of the selector's array (`selector_new(1024)` allocates it all) and
  its destruction.
- The transformation handlers and `chunks.c`, which cannot run: `client_new` sets
  `shouldTransform` to false. What the response parser writes for them is.
- The dummy parsers, which are not built; `writeToTransfBuf`, `writeToStdout`,
  `client_terminate` and `config_initialize_from_file`, which nothing calls.
- The bytes of administrative messages, the menu of the administration client, a
  failing `sctp_recvmsg`, after which `admin_read_handler` interprets an
  uninitialised buffer, and the memory of a configuration's value.
- Transferred bytes and average time, which nothing but the administrators reads.
- The options `-h` and `-v`, start-up of the sockets, `malloc` failures.

## Plan

Done: the buffer, its abstract specification and the refinement, the selector,
one connection, both parsers with their utilities, the logger, the admin service
with the configurations, and the proofs of every safety property of all but the
parsers, and of the response parser's types and termination. Next, in this order:

1. Type correctness of `RequestParser`, by the lemmas on `ParserUtils` that
   `ResponseParserProofs` states of the response parser's record.
2. `ForwardedInOrder` of the response parser, from an invariant that relates its
   state to the place it has reached in the response.
3. `Proxy`: two `Client`s on one `Selector`, with the reuse of descriptors and
   the second `close` of an origin while a resolver thread opens descriptors.
