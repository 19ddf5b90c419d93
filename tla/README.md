# libiqxmlrpc in TLA+

libiqxmlrpc is an XML-RPC library in C++: an HTTP/HTTPS server whose single
reactor thread serves all connections and hands method calls to a pool of
threads, a client with kept connections and timeouts, and the marshalling of
XML-RPC values. This directory models its core, checks it with TLC and proves
the central results with TLAPS. Paths below are relative to the repository.

## 1. Inventory

| Component | State | Operations | Interacts with |
|---|---|---|---|
| Pool executor factory (`libiqxmlrpc/executor.cc`) | `req_queue`, `in_destructor`, two mutexes, a condition variable, the threads | `add_threads`, `register_executor`, the thread loop, `~Pool_executor_factory` | server core: takes executors, schedules responses, interrupts the server |
| Serial executor (`executor.cc`) | none | runs the method inside `handle_input()` | server core |
| Reactor (`reactor_impl.h`) | list of `HandlerState{fd, mask, revents}`, `handlers` map, a lock | `register_handler`, `unregister_handler` (two), `fake_event`, `handle_events` | calls handlers; called by handlers and by pool threads |
| poll/select back end (`reactor_poll_impl.cc`) | the copied descriptors | `reset`, `poll` | operating system |
| Interrupter (`reactor_interrupter.cc`) | bytes in a socket pair | `make_interrupt`, `handle_input` | wakes the reactor from other threads |
| Acceptor, firewall (`acceptor.cc`) | the listening socket | `accept`, deny | creates connections |
| Server core (`server.cc`) | `exit_flag`, acceptor, interceptors, limits | `work`, `set_exit_flag`, `schedule_execute`, `schedule_response` | everything above |
| HTTP server connection (`http_server.cc`, `server_conn.cc`) | `response`, `keep_alive`, packet reader | `handle_input`, `handle_output`, `schedule_response` | reactor, server core |
| HTTPS server connection, TLS (`https_server.cc`, `ssl_connection.cc`) | `state` of the reaction machine, shutdown flags | `switch_state`, `reg_*` | reactor, OpenSSL |
| Packet reader, headers (`http.cc`) | `header_cache`, `content_cache`, `total_sz`, `continue_sent_` | `read_packet`, `check_sz`, `clear` | connections |
| Client session (`client.cc`, `client_conn.cc`, `http_client.cc`, `connector.cc`) | cached connection, `out_str`, `resp_packet`, its own reactor | `execute`, `set_timeout`, `set_keep_alive` | connector, reactor, packet reader |
| XML parser, value parser (`parser2.cc`, `value_parser.cc`, `request_parser.cc`, `response_parser.cc`) | builder stack, depths, a push-back | `parse`, `visit_*`, `change` | libxml2 |
| XML builder, requests, responses (`xml_builder.cc`, `value_type_xml.cc`, `request.cc`, `response.cc`) | the writer of libxml2 | `dump_request`, `dump_response`, `visit_*` | libxml2 |
| Headers, X-headers (`http.cc`, `xheaders.cc`) | options, verification level | `parse`, `dump`, `set_*`, `get_authinfo` | packet reader, client, server |
| Dispatch, methods, authentication (`dispatcher_manager.cc`, `method.cc`, `auth_plugin.h`) | list of dispatchers, linked interceptors, plugin | `create_method`, `process_execution`, `yield`, `authenticate` | server core, executors |
| Values (`value*.cc`) | arrays and structs of owned pointers | assignment, insertion, removal, exchange; base64, dates | parser, builder, headers |
| TLS context, sockets, utilities (`ssl_lib.cc`, `socket.cc`, `inetaddr.cc`, `util.h`) | handles | wrap system and OpenSSL calls | everything |

Hard behaviours, by component:

- **Pool**: lost or misdirected wakeups, two locks taken in two orders,
  destruction while threads run, wait or hold requests, addresses used again.
- **Server**: pool threads put responses into connections that the reactor may
  free; `poll()` runs on a copy of the handlers; a batch of events is dispatched
  from a copy while handlers register, unregister, free and create entries;
  `set_exit_flag()` from any thread at any moment; exceptions that leave
  `work()`; clients that half-close, reset, pipeline or read slowly.
- **TLS**: every I/O may ask for the opposite direction, shutdown in both
  directions, faked events for data OpenSSL already holds.
- **Client**: timeouts with a late answer on a kept connection, a peer that
  closed the kept connection, sockets of connections that never came about,
  responses without end and signals, which begin the timeout anew.
- **Packet reader**: the empty line and the content cut anywhere, limits that only
  the sum of two parts exceeds, what one request leaves for the next.
- **Headers**: two ends that read an option in another case, given twice, or
  validated at one level only; credentials with anything in them.
- **Parsers**: nesting, empty elements, the push-back of an end tag, builders that
  leave before the end of their element.
- **A call inside the server**: packet, request, method and executor have different
  owners when something throws; the server is configured while pool threads run.
- **Values**: containers of plain pointers, assigned from within themselves.

`PROJECT.json` lists the hazards with their lines, and which property covers
which.

## 2. Modules

| Module | Models | Extends / instantiates |
|---|---|---|
| `JobQueue` | what the pool promises: a FIFO of jobs, one worker per job, one answer per job | |
| `ExecutorPool` | `Pool_executor_factory` with its locks and condition variable | `Queue == INSTANCE JobQueue` (refinement) |
| `Reactor` | `Reactor<Lock>` and `poll()`: the phases of `handle_events()` | |
| `HttpServer` | server core, acceptor, interrupter, HTTP connections, pool, clients | `INSTANCE Reactor`, `Pool == INSTANCE JobQueue` |
| `PacketReader` | one connection's `Packet_reader` and the requests it assembles | |
| `ClientSession` | a client's calls over one connection, with the network and server around it | |
| `HttpsSession` | an HTTPS client and an HTTPS server at the two ends of one TLS connection | |
| `HttpHeader` | headers, X-headers and credentials, read and written | `Conversions` |
| `HttpRequests` | the reader on requests that have such a header | `PacketReader`, `HttpHeader` |
| `Conversions` | base64 and dates | |
| `XmlParser` | the pull parser and the stack of builders, on events of the XML reader | |
| `XmlDump` | what requests and responses are written as | `XmlParser` |
| `RpcCall` | a call in the server from its packet to its answer: authentication, dispatch, interceptors, executor, exceptions, ownership | |
| `ValueTrees` | what values promise: a variable holds a tree of its own | |
| `Values` | Values, arrays and structs on the heap | |
| `ValuesAsTrees` | the heap seen as the trees that are promised | `Values`, `Trees == INSTANCE ValueTrees` (refinement) |
| `ExecutorPoolProofs`, `HttpServerProofs`, `ClientSessionProofs`, `HttpsSessionProofs`, `RpcCallProofs`, `XmlParserProofs`, `ValuesProofs` | the theorems, section 5 | the module they are named for, `TLAPS` |
| `HttpProofs` | the theorems on the packet reader and on conversions | `PacketReader`, `Conversions`, `TLAPS` |
| `MCPacketReader`, `MCXmlParser`, `MCRpcCall`, `MCValues` | symmetry, small requests, documents and plugins for TLC | |

The modules meet where the code's parts do. `HttpServer` uses the pool through
`JobQueue`, the specification `ExecutorPool` is shown to implement, so the server
is checked against what the pool promises and the pool's locks do not multiply
the server's states. What `Server_connection::read_request()` decides about a
piece of input is a free choice in `HttpServer`; `PacketReader` models how it
decides, on requests whose headers `HttpHeader` reads, and `RpcCall` models what
`schedule_execute()`, the executor and `schedule_response()` do with a request that
is complete, which are single steps of `HttpServer`. `XmlParser` is what `RpcCall`
calls `ParseRequest`. `ClientSession` repeats the two facts it needs of the reactor (input
hides output; errors count as both) instead of instantiating it: the reactor of a
client has one handler and nobody else uses it.

In every module a definition that begins with the comment "Mutant" is not part of
the specification: it is what a plausible slip in the code would make of the
definition after it, and shows that a property notices (`PROJECT.json`,
"mutants").

### ExecutorPool

`pc[t]` says where a pool thread is in `Pool_thread::operator()`, `executor[t]`
is its local variable, `reqQueue`, `inDestructor` are the members, `owner` is the
thread that runs the destructor and `live` the allocated `Pool_executor`
objects. A critical section that neither blocks nor takes a second lock is one
step. Two do: a woken thread calls `is_being_destructed()` with `req_queue_lock`
held (`pc = "testing"`), and `destruction_started()` takes `req_queue_lock` with
`destructor_lock` held (`owner = "notify"`). Who holds a lock therefore follows
from the program counters (`ReqQueueLockFree`, `DestructorLockFree`). Condition
variables may wake spuriously. Executors are addresses and are used again after
`delete`.

### Reactor and HttpServer

`mask[h]` is the set of events of h's entry ({} means not registered),
`revents[h]` its faked events, `polled` the copy `poll()` works on and `batch` the
copied events that are not dispatched yet. `unregister_handler(eh, mask)` removes
the entry whatever else it is registered for, as `i->mask &= !mask` (a logical
not) does. The order of a batch, which is that of registration, is left open.
Input hides output in a round (`invoke_clients_handler`). A signal ends `poll()`
early (`Signal`).

In `HttpServer` a handler invocation is one step: handlers run on the reactor's
thread and touch their own connection only. A pool thread touches the server
twice, in `Server::schedule_response()` (`WorkerAnswers`) and in
`~Pool_executor()` (`WorkerRetires`), and anything may happen in between. What
the packet reader, authentication, the parser and the dispatcher decide about a
piece of input is a free choice between `ReadPart`, `ReadExpectation`,
`ReadError`, `ExecuteInPool` and `AnswerAtOnce`. `keep_alive` is chosen with the
header. Connections are descriptors and are used again; `accept()` fails at any
time (`AcceptThrows`), which leaves `work()` by the exception, and `work()` may be
called again. A server with the serial executor is one that always takes
`AnswerAtOnce`, so its behaviours are among those checked.

Left out: exhausted memory, time limits, a peer that never reads (`send()` is
assumed to make progress when `poll()` reports output), destruction of the
server, the data race on `handlers.size()` in `handle_events()`, the leaked
descriptor of a denied connection.

### PacketReader

A request is a record of what the reader can tell apart: the length of its
header, whether the header is well-formed and passes the verification level,
whether it has a `Content-Length`, that length, and whether it expects
"100-continue". `HttpRequests` takes these from a header that `HttpHeader` has
read. `header_cache` and `content_cache` are lengths: pieces are
appended in the order of the stream, so a length says which bytes a cache holds.
`clear()`, which `read_packet()` begins with after a complete packet, is `Kept`:
what the rest of the call finds in a cache. `RefuseBySize`, `RefuseHeader` and
`RefuseLength` are the three places where an exception leaves `read_packet()`,
each with what it has changed before; the connection stays registered for input
while the error waits to be sent, so refused requests go on arriving.

Assumptions: a client sends its next request after the answer to the last, and
contents hold no empty line that `read_header()` could take for the end of the
header. The mode that reads a header only (`read_packet()` with a second argument,
used once by the proxy client) is left out.

### HttpHeader and HttpRequests

A header is the words of its first line and its lines, each a name and a value;
options are a map, names and values are strings of which only the case matters
(`Lower`), a number is `[number |-> n]`, whatever else stands in its place is not.
`RequestHeader` and `ResponseHeader` read as the constructors do: the validators of
the level line by line, the defaults, the method afterwards. `ClientText` is what
`process_session()` writes, `ErrorText` what the server writes of an exception.
Credentials are bytes that travel in base64 (`Conversions`), and only if there is a
user name (`HasAuthinfo`): a client that has been told a password alone sends none. `Built` and `Foreign`
make requests of `PacketReader` from the text of this library's clients and of
others.

Left out: white space (trimmed around names and values), the session's URI, and what
of a response is neither code nor option. The model keeps what is odd in the code: a
user name ends at its first colon; a phrase is read as its first word;
`Method_not_allowed` writes an option named "allowed:", with two colons.

### XmlParser and XmlDump

The builders call each other through `Parser::parse()`, so `stack` is the C++ call
stack; each frame has the builder's `depth`, its state in the transition table, its
`want_exit` and its value. `reader` is `Parser::Impl` with the event pushed back
(`back`). An event is one step (`VisitElement`, `VisitElementEnd`, `VisitText`,
`Ignore`, `IllFormed`, `EndOfDocument`); so is the return of a builder to its caller
(`SubBuilt`, `RootBuilt`). No builder compares tags: which of them gets an end tag
follows from the depths. Documents are sequences of events of the XML reader
(libxml2, external); which texts convert to a type is a parameter (`Legal`), and the
text stands for the value it converts to.

`XmlDump` writes messages as the events that a reader will find in the text:
elements without content are empty ones, white space is no text. Values are what can be
made in as many steps as there are `Levels`, each of values made before, so that
`ValueXml` is a function on them. A document with a meaning (`msg`) is what is
written of it (`WrittenAssumption`), which `RoundTrip` compares the parse with; all
others have none. `Plain` names the messages of whose texts nothing is lost: it leaves out
nil (see `nil_carried`), members without a name, whose end tag `get_data()` uses up
(`parser2.cc:202`), strings of white space, which are read as "" (`parser2.cc:139`), and texts
a type does not convert.

### RpcCall

`call[r]` is a request from its packet to its answer: `pc`, the exception on its way
(`outcome`), the frames of the interceptors and the method (`active`, the innermost
first), the objects allocated (`live`: packet, request, method, executor) and the
answers given to the connection. `current` is the request inside
`schedule_execute()`, `held` what its scoped pointers and its variable `executor` point to,
which is what unwinding and the catch clauses delete, wherever the exception comes
from; with the pool other calls run meanwhile and the application
may register methods, push dispatchers and interceptors, and set the plugin
(`Configure`) whenever the reactor's thread is not inside. Interceptors are the
linked list that `nest()` builds; `Yield` follows it as it is then, not as it was.
`Throws` may happen wherever the code can throw, with any of the five kinds of
exceptions the catch clauses tell apart. Deleting what is not live sets `twice`. A user
with an empty name is nobody (`method.h:74`), whatever a plugin makes of it.

Left out: exhausted memory (`server.cc:217-243` then deletes an executor twice, answers
twice or leaks a method), what a result is, the list `system.listMethods` returns.
The model keeps what differs between the executors: a method that throws
something other than a `Fault` is answered with -1 by the pool's executor, and with
the exception's own code, or -32500 if it is not one of the library's, by the serial
one; and credentials that are no base64 are answered with a fault and not with
401 (`server.cc:151-176`).

### Values, ValueTrees and ValuesAsTrees

`heap[n]` is what the `Value` at n holds: a scalar, or the Values of an array by
index or of a struct by name. Each operation of `Value`, `Array` and `Struct` that
allocates, deletes or moves a Value is an action on any places the user can name, a
place and a part of it included (`x = x[0]`, `x.insert("a", x["a"])`). The order
inside one operation (copy, then delete) is in the definition of its result
(`Becomes`). Allocation takes some free address, `CHOOSE` since which one makes no
difference. What is below a Value, which is copied and deleted with it, is the least
set that holds what the Value and the members of the set hold (`Below`). `erased`
remembers what `Struct::erase()` leaks. `ValueTrees` is the user's view: a tree is the
set of its places, each a variable with the indices and names that lead into it, with
the kind of what is there. An operation changes what one place holds (two for `swap()`)
and nothing elsewhere. `Trees` in `ValuesAsTrees` collects the places of the heap, as
many levels as there are addresses (`At`), and forgets the addresses (`TreeOf`).

`Array::assign()` with a range of the array itself is not allowed (`Apart`): it
reads Values that it has deleted (`value_type.inl:14`). Nor is `swap()` with an own part,
which makes a cycle nobody deletes. Assigning, inserting and pushing from within
itself is.

### ClientSession

`stage` is where `execute()` is: in the connector, in the loop of
`do_process_session()`, or in the inner loop of `handle_input()` after a full
buffer. `handle_events()` on the client's own reactor is one step: it waits until
something is ready or the time is over, and dispatches. Requests are pieces that
carry the number of their call, responses pieces `[call, part]`, sent, delivered
and received in any split; buffers and the way to the server hold a few pieces.
The server answers in order, or closes, or begins a response that has no end (`Drop`,
`ServerDrips`); the network delays, closes and resets. `waited` says that some of the
time of the present `handle_events()` has gone by. Each event, and each signal
(`SessionInterrupted`, `ConnectInterrupted`), begins another one with all the time
again, as the loops in `http_client.cc:31-36` and `reactor_poll_impl.cc:47-61` do.
`conn`, `registered`, `outLeft` and `cache` outlive a call when keep-alive is on,
as `conn_cache` does, whatever way the call has ended (`EndCall`). `failed` is a
history variable: has a call on this connection ended without its answer.
The HTTP proxy differs in the URI only. Calls over HTTPS are in `HttpsSession`.

### HttpsSession

Both ends run the same reaction machine (`ssl_connection.cc`): `state[e]` is the
operation to try next, `registered[e]` the direction the end waits for. A handler
removes its whole entry and then does what `state` names, whichever event has come,
so an event is one step (`Reacts`), and what differs between the ends is what they
do after an operation has succeeded (`Accepted`, `Connected`, `ReadRequest`, ...,
`WriteSucceeds`). `Reg` is both a new operation and the answer to `need_read` and
`need_write`. `ConnectionCloses` and `Fails` are the two other ways out of an
operation.

OpenSSL and TCP are modelled from how they are used here: a handshake is `Flights`
flights in turn, a message `Parts` records, `wire[e]` what e has sent and the other
end has not read. `SSL_write()` writes what there is room for and remembers the rest
(`unfinished`); when the next call has changed `out_str` meanwhile, it refuses the
buffer, or mixes two messages if the buffer has kept its address (`Prepare`).
`SSL_set_shutdown()` replaces both flags (`Shutdown`), so a session that has been
shut down can look unsent again. `ShutdownForgotten` is the one way into a connection
that nobody holds: a shutdown that fails after the peer's close_notify has come,
which OpenSSL may report as the close_notify. The server meets it with clients that
send their close_notify first (`Leave`), as this library's own never does, when
its answer is still on the way. A connection closed with data unread,
or written to when closed, is reset, and a reset loses what is under way.

`failed`, `refused` and `disturbed` are history variables: a call has ended without
its answer; the server has refused a request; something has happened that the two
ends do not cause themselves (a time limit, the network) or that ends the
connection by design (a request refused before it was read to its end, a call on a
connection whose server has refused one).

Left out: the interim "100 Continue", which this client never asks for;
`fake_event()`, since `read_buf` (64 KB) holds any TLS record, so nothing is ever
pending; the CONNECT tunnel of the proxy client; the blocking `ssl::Connection`.

## 3. Runs

| Run | Instance | Shows |
|---|---|---|
| `pool` | 3 threads, 3 executors, fair | `TypeOK`, `OwnedAndFreed` (one owner, clean destruction), `NoIdleWhileWork`; `ImplementsJobQueue` with its fairness |
| `server` | 1 connection that may be reset, 2 pool threads, 3 executors, 1 caller of `set_exit_flag()`, responses in 2 pieces, an interrupter of 1 byte, fair | `ConnectionsOwned` (one place for a connection, one request at a time), `EventsHaveHandlers`, `NothingMissed` (no response, no exit), `ResultNotCut`; requests are answered, `set_exit_flag()` ends `work()` |
| `client` | 4 calls, all timeouts, keep-alive switched at will, requests of 2 and responses of 3 pieces or without end, signals, fair | answers belong to their calls on connections on which no call has failed, no sockets but refused ones stay open, no call waits for the wrong event, timeouts end calls that nothing keeps alive |
| `https_session` | handshakes of 4 flights, messages of 3 records, a wire of 2 or 3, 3 calls, fair | `Attended`: no end sleeps when its operation can go on; the two ends do not wait for each other; only what comes from outside costs a call its answer; the server's connection goes with the client's |
| `packet_reader` | headers of 2 and 3 bytes, contents of 0, 1, 3, an empty line of 2, limits 0, 1, 5, 7, 8, 9; twelve clients of this library, and good and bad headers of others, at both levels | `CachesSound` (bounded memory, caches follow the stream), the verdict does not depend on the pieces, `HeadersUnderstood` |
| `xml_parser` | requests and responses with values two levels deep, and documents near to four of them | what is written is read back, no null value is taken, what is accepted was read to its end, a parse ends |
| `rpc_call` | 2 calls, 2 interceptors, 2 dispatchers, 2 plugins, 2 users, both executors | everything is deleted once, every call is answered once, interceptors nest, methods run for the admitted |
| `values` | 2 variables, 4 Values in containers, one scalar, one name (a number that is no index, since TLC compares the places of arrays and of structs) | one owner each, nothing lost but what is erased, trees of their own |
| `destructor_returns` | 2 threads, 1 executor, fair | violated: the pool's destructor may never return |
| `client_late_answer` | 3 calls | violated: after a timeout a kept connection gives the next call the late answer |
| `socket_leak` | 2 calls | violated: the socket of a `connect()` that fails at once stays open |
| `nil_carried` | requests and responses with nil among their values | violated: a request is accepted without its last parameter |

Bounds. The pool's hazards need one thread asleep, one woken, one running, and one
more request than a thread can take: three threads and three executors. Executors
bound the queue. On the server the hazards are between one connection and the
threads around it, or between two entries of one batch, of which the sharpest case
is a connection and the acceptor, which hands out the descriptor just freed. Both
need one connection; the invariants and `ResultNotCut` are proved for any number of
them (section 5), the liveness properties are checked for one. Executors are one more than can be at work, so that
addresses are used again while others wait. `MaxBytes` bounds the interrupter's
socket buffer and is one so that full buffers occur; `MaxParts` bounds the pieces
of a response. In `client` a call can fail on a kept connection, leave an answer,
half a request or half a response, and three calls can follow. Buffers are smaller
than a response, so that a buffer is filled exactly, and `PipeParts` is less than
two requests, so that a request can be stuck half sent. In `https_session` the wire
is smaller than a message, so that writes remain unfinished and both directions can
be full, or as large, so that a request can be sent whole to a server that has
closed; 4 flights are a full handshake, and with three calls one can
follow another that has failed on a connection that has been used. In
`packet_reader` the
limits are below, at and just above the sizes of header, content and both, and the
empty line is cut by pieces of one byte; its clients have X-headers that replace
one another in another case, and no credentials, a password without a user, or
credentials whose last group of base64 is of one, two and three bytes. In `xml_parser` two levels of values make each builder the
caller of each other; near documents have an element renamed, unwrapped, left out,
added or the end cut off, at every place. In `rpc_call` one call can run while the
other is dispatched and the server changed between them; two interceptors tell an
order. In `values` four Values make an array within a struct within an array beside
another container. Nothing bounds the number of requests of a server or a
connection, of calls in `rpc_call` or of operations in `values`.

Deadlock is checked in `server`: a server inside `work()` can always go on,
outside it can be called again; and in `rpc_call` and `values`. It is not checked for
the pool, whose destructor really ends it (and may hang: `DestructorReturns`), for
the client, which has made all its calls at the end of a run (`client`,
`https_session`), for the packet reader, whose connection is closed, and for the
parser, which has read its document.

Fairness. `ExecutorPool`: each pool thread and the destructor take their steps
(weak fairness), since the operating system runs them and methods are assumed to
return. `HttpServer`: the thread inside `work()`, the pool threads and a caller of
`set_exit_flag()` that has set the flag go on; clients, signals and the callers of
`work()` owe nothing. Starting a job is fair for the pool as a whole (`\E t`), as
`JobQueue` promises. `ClientSession`: the calling thread goes on and time passes;
the server, the network and signals owe nothing. So `CallReturns` rests on the
timeout, which limits each wait and not the call; hence its hypothesis `~KeptAlive`, that
an endless response or endless signals do not go on for ever. Without either half of
it the property is violated. `HttpsSession`: both reactors and the pool go on, and TCP answers data
for a closed end; the caller and the network owe nothing, time limits may be absent,
so there `CallReturns` says that the two ends never wait for each other.
`XmlParser`: the parser's loop goes on; it has no one to wait for. `PacketReader`,
`RpcCall` and `Values` state safety only.

What the violated properties show of the code is listed under "findings" in
`PROJECT.json`, with the lines of code and the lines of documentation they
contradict:

- `DestructorReturns`: a pool thread tests `in_destructor` only after `wait()`, so a
  thread that was running a method when `notify_all()` came waits afterwards for
  ever; and `destructor_lock` and `req_queue_lock` are taken in opposite orders.
- `AnswerMatchesCall`: a kept connection survives `Client_timeout` together with its
  unread answer, which the next call takes for its own. `AnswerBelongsToCall` is
  what remains true.
- `EverySocketCloses`: when `connect()` fails at once, nobody closes the socket
  (`connector.cc:56`). `OnlyRefusedSocketsLeak` is what remains true: each refused
  `connect()` costs one descriptor, and nothing else does.
- `AcceptedIsWhatWasSent`: on `<nil/>` the builder of the value leaves before the end
  of the element; its caller counts that end, and a request of (nil, nil, "") is
  accepted as (nil, nil).

The models have other behaviours that a reader may not expect, about which no run
speaks: an HTTP error is not sent to a client that has shut down its end, because
input is handled before output (`http_server.cc:84-101`); a call without a timeout
fails when the response fills the read buffer exactly, because `handle_input()` reads
again from a non-blocking socket (`http_client.cc:57`); only the first request of a
connection is told "100 Continue", as `Packet_reader::clear()` does not reset
`continue_sent_` (`http.cc:408-415`); `Struct::erase()` leaks (`value_type.h:252`).

## 4. Properties worth a word

`NoIdleWhileWork` counts: as many threads are on their way to the queue as there
are requests in it, unless none sleeps. It fails if one notification is lost,
although each sleeping thread would be woken by the next request.

`ReactorOrExecutor` (in `ConnectionsOwned`) is why a pool thread may write into a connection without a
lock: `execute` takes the connection out of the reactor, and nothing but the
executor's answer puts it back. It rests on `unregister_handler(eh, INPUT)`
removing the whole entry.

`NoMissedResponse` and `NoMissedExit` (`NothingMissed`) say what the order "register, then
interrupt" and "set the flag, then interrupt" buys although the interrupter
forgets how many bytes it was sent and `poll()` works on a copy.

`WaitsForItsOwn` relates `out_str` to what is registered on a connection that
enters a call with the leftovers of another one.

`WokenToWork` compares what an end is registered for with what its next TLS
operation needs, whichever of the ways through handshake, transfer and shutdown it
has come, and `FailuresExplained` looks at a failed call and demands a reason
outside of the two ends: an error answered by a server that closes, a response as
last words before a close_notify, and unread data that turns a close into a reset all
meet there.

`VerdictIndependentOfPieces` relates the answer to the request as a whole, which
the code never sees: it decides on caches, a counter and flags after each piece.

`HeadersUnderstood` compares the two ends: what a client was told (credentials, which
are none without a user name, kept or not, X-headers of the call in place of its own) with what the server's header says
when the request is executed, and the server's error with what the client reads of
it. It goes through every conversion between them, base64 included.

`RoundTrip` rests on each builder leaving exactly where its caller expects it to,
for empty elements, untyped strings, structs without members and every nesting;
`AcceptedReadToItsEnd` says the same of documents nobody has written on purpose.

`InterceptorsNest` compares the frames of a running call with what had been pushed
when it was set up, though the list it walks has grown since. `DeletedOnce` and
`AnsweredOnce` look at all ways out of a call, of which the code has a dozen with
different owners of the same four objects.

`ImplementsTrees` is what value semantics means: whatever is done through one place,
no other changes, even if what is assigned is part of the place.

## 5. Proofs

All theorems hold for every value of the constants that meets the module's
assumption; TLC evaluates these assumptions on the runs. A property of a run that
is a conjunction has a theorem of its own over those of its parts
(`ExecutorsAreOwnedAndFreed`, `ConnectionsAreOwned`, `NothingIsMissed`,
`CachesAreSound`).

`ExecutorPoolProofs` (`PoolAssumption`: the threads are finite, `None` is no
executor): `TypeCorrect`, `OwnershipHolds` (`OneOwner`), `DestructionIsClean`
(`CleanDestruction`), `NoThreadIdlesWhileWork` (`NoIdleWhileWork`), and
`PoolImplementsJobQueue`: `Spec => Queue!Spec`, the safety part of the refinement.
`OneOwner` and `CleanDestruction` are not inductive alone. The invariant `IInv`
adds `TypeOK`, which program counters hold an executor and which do not, and what
the owner's position implies for `inDestructor` and the queue. `NoIdleWhileWork`
compares the length of the queue with the number of threads on their way; its
proof needs lemmas on how that number changes (`OnTheWay...`), which is where the
finiteness of `Threads` is used. The refinement maps critical sections to the
steps `Submit`, `Start`, `Answer`, `Retire`, `Close`, `Discard` and every other
action to a stutter; `IInv` provides that a thread taking a request holds no
other.

`HttpServerProofs` (`ServerAssumption`): `ServerTypeCorrect`,
`ConnectionHasOnePlace` (`ReactorOrExecutor`), `RequestsOneAtATime`
(`OneRequestAtATime`), `HandlersAreFound` (`EventsHaveHandlers`), `OutputIsThere`
(`OutputHasResponse`), `ResponsesAreNotMissed` (`NoMissedResponse`) and
`ExitIsNotMissed` (`NoMissedExit`), for any number of connections, pool threads and
callers. The properties are inductive together with two facts. `ExecutorsOwned`:
an executor is once in the queue or with one thread, and until it has answered it
has a connection. `LoopInOrder`: the copy and the batch are empty outside the phases
they belong to, nothing is ever faked, and the interrupter is in the batch only
with a byte to read (so taking it cannot block). `DispatchFacts` and
`LoopAfterDispatch` say once what every handler finds and leaves of the loop;
`ExecutingFacts` restates "has an executor" by the set of executors still to
answer, on which the pool's steps act. Then there is one lemma per action.
`ResultsAreNotCut` proves the action property `ResultNotCut`, that a result once put
into a connection leaves completely, from one more layer, `ResponseInv`: such a
connection is registered for output and nothing else (`ResultAlone`,
`ResultsAreAlone`), and only a handler that is registered for input is reported for it
(`InputAsked`), so that no input is handled before the output.

`ClientSessionProofs` (`SessionAssumption`): `ClientTypeCorrect`, `NoOtherSocketLeaks`
(`OnlyRefusedSocketsLeak`), `SessionWaitsForItsOwn` (`WaitsForItsOwn`) and
`AnswersBelongToCalls` (`AnswerBelongsToCall`), for any connections, calls and sizes.
`OnlyRefusedSocketsLeak` and `WaitsForItsOwn` need to know which fields a stage of the
session has set (`ConnectionInOrder`, `WaitsThroughout`). The action property needs
`OwnPieces` (`PiecesBelongToCall`): on a connection on which no call has failed the
pieces to be sent, with the server, on their way back and in the packet reader are, one
after another, those of the call that waits, and between two calls there are none; unless what
has come begins with a response without end (`Endless`), which is never complete. A
call that fails makes a connection exempt for good, which is where `AnswerMatchesCall`
breaks.

`HttpsSessionProofs` (`SessionAssumption`): `HttpsTypeCorrect`, `ConnectionsAttended`
(`Attended`), `OwnAnswers` (`AnswerBelongsToCall`) and `FailuresHaveCauses`
(`FailuresExplained`), for any number of flights, records of a message and calls, and
any room on the wire. The invariant has two layers. `Structure` is inductive by itself:
the sizes of buffers (`Sizes`), who has the connection (`Placement`), for which
direction an end is registered (`Directions`), and that a close_notify is the last an
end sends, so that what is behind it can be forgotten (`Closing`). From it follows
`Attended`. `Orderly` adds what is on the way: an end has something to write only
while it writes (`Buffers`), what is read, under way and to be written are the parts
of one message of the call that waits, in order and without repetition (`OwnPieces`),
and on a connection to which nothing has happened the call is in one of four places,
the handshake, the request, the method or the response, and the whole message is there
(`Undisturbed`). That the whole message is there is what makes the last words of a
server that closes arrive, and why unread data never turns its close into a reset.
`LostBefore` says what a client has lost that waits for nothing. There is one
lemma per operation and layer; `StreamWritten`, `StreamUnread`, `ReadFacts` and
`FlightFacts` say once what writing, reading and closing do to a message, a handshake
and a shutdown on the wire.

`XmlParserProofs` (`DocsAssumption`: what an XML reader hands out, that is, events that
nest): `ParserTypeCorrect`, `NullIsNeverTaken` (`NoNullTaken`) and `ReadToItsEnd`
(`AcceptedReadToItsEnd`), for documents of any length and nesting. The builders only
count elements. The invariant relates these counts to the document: `Open` is the set
of elements that have begun and not ended at the place of the reader, each builder of
the stack has counted a segment of it, and the segments together cover it
(`TopSound`, `Covered`, `Counts`). `ReadToItsEnd` alone speaks of documents without
nil: on nil a builder leaves too early, as `AcceptedIsWhatWasSent` shows.

`WrittenIsReadBack` (`RoundTrip`) assumes `Plain`, and of the written documents
`ValuesAssumption` and `WrittenAssumption`: values of any depth, arrays, structs and
lists of parameters of any length, in server mode or out of it. `Left` is what the builders
will be given from here on, the event pushed back and the end of an empty element
included. Each builder of the stack has a goal: the value it is to return, what follows its
element, and whether it counts that. `ValueAt`, `StructAt`, `ArrayAt`, `RequestAt` and
`ResponseAt` list the places a builder can be at in what is written of its goal, and for
each its state, its depth, what it has collected and what is left; `ValueWaits` and the like
say the same of one that has called another, and which part of its goal that one
has. `TopGoes` is that a step of the last builder leads from place to place or into
a part, `CallerGets` that a value that is returned is the one waited for. Which place
follows is decided by the first event of what is left, so sequences are only split at
their heads: `From(parts, k)` is what is left of parts after the first k, and `Endings`, the
recursive function under it, unfolds once (`FromNext`). A builder may leave the end of
its `<value>` to its caller, or use it up, or find nothing but that end; hence the three
cases of `ValueReturns`, the last with a null pointer for "" where the caller is a
struct or an array (`OrEmpty`). The root builder may have elements on its
count that are not open any more; so what is left at the end are ends of elements,
no more than it counts (`AllEnds`).

`HttpProofs`, the packet reader (`RequestAssumption`): `ReaderTypeCorrect`, `MemoryIsBounded`,
`VerdictIsIndependent`, `CachesAreFaithful`, for requests of any size and any
limits. `MemoryBounded` needs `CountsCaches` (the caches hold no more than the
counter says); after an error the caches no longer follow the
stream, and `ErrorSticks` says why the verdict still cannot change: the header has
come and is bad or has no length, or the counter has reached the limit and only
grows, or the size the header announces exceeds it. `ClearsOnce` and `HeaderOfRequest` say when
the flags of the reader speak of the current request.

`RpcCallProofs` (`RpcAssumption`: no interceptor, request or plugin is called
`None`, and no user is named like a kind of bad credentials): `TypesHold`,
`CallsAreDeletedOnce` (`DeletedOnce`), `CallsAreAnsweredOnce` (`AnsweredOnce`),
`CallsRunForTheAdmitted` (`RunsForAdmitted`) and `InterceptorsAreNested`
(`InterceptorsNest`), for any number of calls under way, interceptors, dispatchers and
plugins. The properties speak of running and of finished calls; `IInv` says for every
place of a call which objects it has (`HasObjects`), which of them `schedule_execute()`
would delete if something threw there (`IsHeld`), which answer (`HasAnswer`), who was let
in (`WasAdmitted`) and which frames there are (`HasFrames`), and that the linked list
is what has been pushed (`Chain`), from which `Yield` finds the next frame. A step
changes one call: `OneCall` says that the others stay good, so that each lemma of an
action is about one call.

`HttpProofs`, conversions: `GroupsReadBack` (each group of bytes is decoded from the four
characters it was encoded as) and `DatesReadBack` (a date of the years 1900 to 9999 is
read as what was written) by arithmetic; `Base64ReadsBack` (data of every length is
decoded from what it is encoded as) from the groups: `FlattenPieces` says that a text cut
at fours is put together again, `Encode` makes such pieces and none of them is white.

`HttpProofs`, headers: `HeadersAreUnderstood` (`HeadersUnderstood`), for every request a
client of this library can send and every refusal. `HeaderAssumption` says what
`boost::to_lower` and the prefix "X-" have to do with each other and that the library's
own names are in lower case and no X-headers; `HeadersAssumption` that a request is
what `RequestHeader` reads of its text, and that a client's text is `ClientText` of
`Settings`: a name without a colon, which may be empty, any password, any X-headers, content whose length
an unsigned int holds. Nothing is assumed of the text of others. A header that `dump()`
writes has a line for each option (`Dumped`, by induction on the number of options);
where the names are in lower case and the validators accept the values, `parse()`
makes the same options of them (`ReadBack`). `ClientFacts` says which options
`process_session()` leaves after the credentials, both lots of X-headers, the length and
the connection have been put over one another, so that the defaults of the server change
nothing (`ClientRead`). That content of the announced length has come is
`VerdictIndependentOfPieces`.

The library's principles of induction take an operator, which the provers cannot
instantiate. `NatInd` is induction about a set of numbers: if it is not all of `Nat`, the
smallest number missing contradicts the step (`NatMin`, from the well-foundedness of
`<`). A recursive function is shown to exist first, by `NatInd` on its domain.

`ValuesProofs` (`ValueAssumption`: heap and variables are finite and apart, and no scalar
is named like a container): `ValuesTypeCorrect`, `ValuesHaveOneOwner` (`OneOwner`),
`NothingIsLost` (`NothingLost`) and `NoValueWithinItself`, for any heap. `TypeOK`,
`OneOwner` and `NothingLost` are inductive together. The proof is about graphs: the
invariant says that the pointers are a forest whose roots are the variables and what
has been erased. Since each Value has one holder and a root reaches it, nothing is
part of itself (`Acyclic`). `AssignValue`, `AssignRange`, `PushBack`, `InsertMember`,
`Clear` and `AssignFresh` are then one operation: a node keeps some of what it holds,
takes a copy, and the rest goes with all that is below it (`Grafted`); the copy is
taken from what lives before, so it may be part of what goes. `Exchanged` needs that
neither of the two is within the other, which is the guard `Apart`; `Unhooked` is
`erase()`. What is below is a least set, so an induction on pointers is an
instance of a quantifier over sets, not of an induction principle.

`ValuesAreTrees` is the refinement: `Spec => ImplementsTrees`, every operation on the
heap is the promised one on the trees or changes none. `Arcs` are the pointers with their
indices and names; `Paths(E, R)` is the least set of places and Values to which arcs lead
from roots, so that it is reasoned about as `Below` is. `AtIsPaths` says that `TreeOf`
misses none of them, though it stops after so many levels as there are addresses: a
place that is longer would have as many different Values on the way, for nothing is part of
itself. In a forest a Value is in one place (`OnePlace`), and what is within a place is
what is under the Value there (`HeldInHeap`). From the first follows that an
operation changes nothing outside of its place (`Agree`, `TreeElsewhere`, `ReplacedAt`
for assignment, `ChildAt` for one element or member), from the second that what it
deletes was inside. What it puts there stands for the tree it was copied from: places in the
copy and in the original lead to a Value and to its copy (`ShapeLed`), and the original is
that of before the step, even where the step deletes it (`AnotherShape`). For `swap()`
both places stay where they are because neither is in the other (`SwapSeen`).

Only model-checked: liveness (`RequestsAnswered`, `StopHonoured`, `CallReturns`,
`ServerFollows`, `ParseEnds`) and the fairness of the refinement, which need
`ENABLED`. Every invariant of a passing run is proved.

## 6. Not modelled, and the plan

`PROJECT.json` lists every component with its reason. Wrappers of system calls, of
OpenSSL's contexts and of containers keep no state of their own. Of the modelled
components these parts are left out: `select()` (built only without `poll()`), the
CONNECT tunnel of the proxy client and the header-only mode of the packet reader it
uses, the blocking `ssl::Connection`, `Print_value_visitor`, the list
`system.listMethods` returns, white space in headers, failures of memory.

What remains worth doing is the CONNECT tunnel, as a client that reads a header only
before its handshake.
