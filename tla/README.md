# A TLA+ verification project for pyutmremote

pyutmremote is a client for the remote protocol of UTM, a virtual machine
host: a message layer over TLS, a command line and a GTK program.  This
directory holds TLA+ models of its core, TLC configurations that check them on
small instances, and theorems checked by TLAPS.

    tlc -config MCPeer.cfg MCPeer.tla        # every MC*.cfg has its MC module
    tlapm PeerProofs.tla

`PROJECT.json` lists components, runs, mutants, findings, hazards and theorems
in machine-readable form, and maps every definition to the lines it models.

## 1. Inventory

Paths are below `src/utmremote`.  Two threads matter: the *GTK thread*, which
runs event handlers and idle callbacks one at a time, and the *asyncio thread*
of `AsyncLoop`, which runs coroutines from one suspension to the next.

| part | state | operations | hard behaviour |
|---|---|---|---|
| framing, `swiftconnect.py` `data_received` | `header`, `data` | bytes in, messages out | frames cut anywhere by TCP |
| peer, `swiftconnect.py` `Peer`, `SwiftConnectProtocol` | `token`, `futures`, `is_trusted`, `valve` | `sendWithReply`, `serviceReply`, `failAll`, pause and resume, loss | concurrent calls, answers in any order, flow control, loss at any suspension |
| codec, `cod.py`, `data.py` | table of shapes | encode, decode | nested containers that share shapes, nulls, boundaries of lengths |
| messages, `utmremotemessage.py`, `utmconfiguration.py` | none | the fields of every request, reply and record | two ends of different versions, keywords nobody declares |
| client, `utmremoteclient.py` | `transport`, fingerprints | `connect`, `close`, remote operations, `Local.handle` | failure at each await, dialogs in the middle |
| opening, `gui.py` `_open_async` | `info`, `password` | fingerprint and password dialogs, saving | overlapping opens, stacked dialogs, a server that changes |
| server list, `gui.py` `ServerList` | saved and discovered servers, rows, `servers.json` | add, open, save, forget, load | long sequences, saves that fail, crashes, restarts |
| window, `gui.py` `ServerWindow`, `VirtualMachineList` | rows, selection, buttons | listings, transitions, list changes | snapshots against reports, two threads |
| status bar, `gui.py` `StatusBar` | message, `_counter` | `run_async_task`, errors | tasks that end in any order |
| `asyncglib.py` `AsyncLoop` | the queues of the two threads | `submit`, `wrap` | hand-over between the threads, dialogs that run nested main loops |
| `gencert.py` | `client.crt` | make a certificate | several processes, failure half-way |
| `zeroconf.py` `ServiceBrowser` | `services` | `new_service` | duplicate announcements |
| `cli.py` | position in the plan, certificate file | commands one after another, SPICE certificates and URLs | failure or interrupt part-way, a certificate that does not fit the URL |
| `get_spice_cert` | a second transport | fetch the certificate of a SPICE server | a key that is not the one expected |
| `SpiceWindow` | widget state | opening a viewer | left to the SPICE library |

How they interact: a GTK handler calls `run_async_task`, which submits a
coroutine to the asyncio thread.  That coroutine calls remote operations
(`sendWithReply` of the peer), may ask the user by `AsyncLoop.wrap` (a callback
in the GTK thread whose result comes back as a future), and its end is a
callback in the GTK thread again.  The server's requests arrive as frames, are
dispatched by `Local.handle` and reach the window by `wrap` and a signal.

What makes each part correct: frames arrive as sent; a call gets one outcome,
its own, and gets one in time; what is decoded is what was encoded, also by a
newer server; whatever waits for the other thread goes on once; nothing is sent
to a server the user has not trusted, and an open that fails leaves nothing
over; the saved list, its rows, its file and the discovered servers agree; the
window shows the state of the server; the bar shows a message of a task that
runs, or an error that nobody has wiped out; there is one certificate, once and
for all; and the command line's exit status tells what was carried out.

## 2. Modules

| module | models | composes with |
|---|---|---|
| `RemoteCalls` | abstract: what callers of the message layer are promised | implemented by `Peer`, used by `Cli` |
| `Peer` | one connection's peer and protocol | INSTANCE `RemoteCalls` |
| `Digits` | numbers written as digits | |
| `Framing` | the byte stream | delivers what `Peer` finds in `inbox`; EXTENDS `Digits` |
| `Types` | the types that the codec distinguishes | |
| `Data` | numbers and bits in bytes | EXTENDS `Digits` |
| `Containers` | lists and keyed containers of bytes, and the table of shapes | EXTENDS `Data` |
| `Codec` | encoder and decoder | EXTENDS `Types`, `Containers` |
| `Declarations` | the classes of all messages and records | EXTENDS `Types` |
| `Messages` | remote operations and requests of the server | EXTENDS `Codec`, `Declarations` |
| `StatusBar` | abstract: the bar and the tasks it tells about | implemented by `AsyncLoop` |
| `AsyncLoop` | the two threads, their queues and the dialogs | INSTANCE `StatusBar` |
| `Opening` | `connect` and the dialogs | its calls follow `RemoteCalls` |
| `ServerList` | the list of servers and its file | an open is its `Open`/`OpenCompletes` |
| `VmList` | the window of a server | listings are calls of the message layer |
| `ClientCert` | the certificate file | |
| `Cli` | the command line | INSTANCE `RemoteCalls` |

`PeerProofs`, `AsyncLoopProofs`, `OpeningProofs`, `ServerListProofs`,
`VmListProofs`, `ClientCertProofs` and `CliProofs` hold the theorems about the
modules they are named after, `AsyncLoopProofs` those about `StatusBar` too, and
`CodecProofs` those about `Framing`, `Data`, `Containers`, `Codec` and
`Messages`.

An action is the code between two suspensions (asyncio) or one handler (GTK).
Variables carry the names of the attributes they stand for where there is one.

**Peer.** `futures` is the table as a set of `<<token, call>>`; `tokenOf` is the
local variable of each `sendWithReply`; `future` and `answer` are what the
caller sees.  `Call` is `sendWithReply` up to its first suspension, `WokenCall`
what follows `valve.wait()`: an `asyncio.Event` wakes its waiters in later
iterations of the loop, so other code may run, and even close the valve again,
before a woken sender writes.  `ServeRejected`, `ServeResponse` and
`ServeRequest` are the branches of `serviceReply`; `HandlerEnds` its
continuation after the handler.  A transport that is closing or lost drops
what is written.  The server (`ServerAnswers`, `ServerRequests`) answers in any
order, with results or errors, and those of the calls in `Repeated` again and
again: an answer may come for a future that is done, whose token the table has
no more.  It answers no request that was not made.

**Framing.** One step is one iteration of the loop of `data_received`.  The
arithmetic of both continuing branches is the code's: the rest of the chunk is
cut by what is missing *after* the buffer grew.  `stream` is everything the
server has sent, `received` how much of it the transport has handed over; the
transport may cut the stream anywhere.  The history variable `starts` says where
the frames start in the stream, `cut` that a chunk ended inside a header or a
body.

**ServerList.** A server is `[name, site]`, a site being address and port;
`key` stands for the fingerprint and password that are remembered.  Saved
servers are recognised by name and site, discovered ones by site, as in the
code.  `discovered` is also the list of its rows, which the code changes
together with it.  A save succeeds, raises (the file is then as it was or
truncated, and the rest of the handler is skipped), or the process dies in it.
`menu` is the index that the "Forget" menu was made with; the menu has the
grab, but idle callbacks go on, so an open may complete while it is up, and the
history variable `pointed` says which server was clicked.  Several services are
offered to the list in some order, on which nothing depends.  The history
variable `unsaved` says that the latest save of a run failed; it may stay so,
since an entry that is remembered already is not saved again (`AlreadySaved`).
Several opens may be under way, each with the info it was started with.

**Opening.** One server with a fingerprint and a password that may change at
any time.  `at` is the await an open is in; `dialogs` is the stack of nested
main loops.  `saved` is the entry in the list, `remembered` what its row opens;
they differ when the save of an entry raises before its row is told.  An open
that is ready has the entry saved and gets its window (`Complete`), or the save
raises (`CompleteFails`): the client is then `stranded`, connected and without
a window.  `stuck` is a handshake sent after the connection was lost, the
finding of `MCPeerHang`.

**VmList.** `wire` is what the server has sent; `idle` is the queue of idle
callbacks.  `FrameArrives` is the task of a frame; `ListingGoesOn` the
continuation of `_list_vms`, which runs an iteration later than the task that
completes its future; the frames of the same chunk are handled in between.  The
history variable `disorder` records that this happened, or that the server
answered requests in another order than they came.

**StatusBar.** A run is a call of `run_async_task`; its end goes through the
queue of idle callbacks.  `WhenDoneThen` is a `done_cb` that runs another task,
as `_start_complete` does.  It has no run of its own: `AsyncLoop` implements it.

**AsyncLoop.** `ready` and `idle` are the callbacks queued for either thread.
`Run` submits a coroutine, `LoopStep` starts one or settles the future it
awaits, `Ask` is `wrap` up to its await, `IdleCallback` calls what is queued
for the GTK thread: `call_wrapped` or `call_when_done`.  A call may open a
dialog, which runs a main loop of its own; `nested` is the stack of those, and
only the one on top can return.  `ServerReports` is an error of the server that
`Local.handle` passes on.  What a coroutine awaits other than a call of `wrap`
is not seen.

**ClientCert.** `OpenFile` is `open(..., "xb")`, `Write` the end of
`generate_certificate_file`; between them the key is made.  The interpreter
waits for executor threads when a GUI is closed, so `Exit` waits for the
generation.  `owner` and `broken` are history variables.

**Types, Data, Containers, Codec.** Operators for the functions of `CodEncoder`
and `CodDecoder`, on real bytes; an int has `IntBytes` bytes and keys and
characters are one byte each.  `Data` has what `data.py` pushes and pops.
`Containers` has a container given the bytes of its elements, in either
direction, without recursive operators, so that it can be reasoned about;
`Codec` has the recursion over values: `Encoders`, `Decoders` and `Readings`
are recursive functions of the depth of the values, and `EncoderOf`,
`DecoderOf` and `ReadingOf` say what one level does, given what encodes, decodes
or reads the parts ("below").  `Typed[n]` are the values that are at most `n`
deep, each with the type it is decoded by.  What pops something returns it
together with what is left, where the code moves an offset.  `peerSends` is true
when the server has encoded the value, whose encoder has nullable lists, which
the client's has not.  A value is sent by `EncodeValue` and `DecodeValue`;
`encoding` is what is between them.

**Declarations, Messages.** Every message with the fields of its request and
reply, and the records of the configuration.  A *talk* is a value that is only
sent, a remote operation, or a request of the server; it goes `there` and
`back`.  `Sends` says which keywords an operation gives to its request,
`Returns` which fields of the reply it returns, `Passes` what `Local.handle`
passes on; the three are written down from `utmremoteclient.py` and held against
the classes of `Declarations`, which are from `utmremotemessage.py`.  The server
may be newer: it may send a field, a member of an enumeration or a message that
the client does not know, which the decoder has to get past or reject.

**Cli.** `options` are the arguments that make a difference; the plan is the
list of commands in the order `async_main` has them.  Calls behave as in
`RemoteCalls`, a call being its place in the plan and the handshake call 0; on
a connection that is already lost a call gets no outcome.  `Certify` is
`get_spice_cert` with the writing of the file and the printing of the URL,
`Interrupt` the cancellation by Ctrl-C wherever the program waits.

## 3. Runs

| run | instance | shows |
|---|---|---|
| `MCPeer` | 2 calls, one of them answered repeatedly, 2 notices, fair | `TypeOK`, `TableHoldsTheWaiting`, `NobodySleepsInVain`, `KeepsPromise` (it implements `RemoteCalls`, which includes `SettledOnce`), `TimelyCallsReturn`, `HandledNoticesEnd` |
| `MCPeerHang` | 2 notices and the calls of `MCPeer`, fair | **violated**: `EveryCallReturns` |
| `MCFraming` | 3 frames, chunks end anywhere, fair | `TypeOK`, `FramesArrive` (until a chunk ends inside a header or body), `LoopEnds` |
| `MCFramingSplit` | the same | **violated**: `CutsAreInvisible` |
| `MCMessages` | every operation and request with no, small and large arguments, values a newer server sends, samples of every type from either side | `RoundTrip`, `CallsGetThrough`, `NoticesGetThrough` |
| `MCAsyncLoop` | 3 runs with a call each, 1 report, fair | `TypeOK`, `OneContinuation`, `NoMessageOutlivesItsTask`, `ImplementsBar` (it implements `StatusBar`), `TasksFinish` |
| `MCServerList` | 3 servers at 2 sites, 2 announced, 2 opens, one failing save | `TypeOK`, `SavedOnce`, `RowsStayAligned`, `EveryServiceListed`, `FileIsCurrent`, `OnlyForgetForgets`, `RowsFallBehindByFailure` |
| `MCOpening` | 2 opens, 2 fingerprints, 2 passwords, 2 clicks, fair | `TypeOK`, `OnlyTrustedServers`, `SavesWhatWorked`, `NothingLeftOver`, `OpensEnd` |
| `MCVmList` | 2 machines, 4 listings, 3 changes | `TypeOK`, `ButtonsFit`, `ShowsTheTruth` (unless there was disorder) |
| `MCClientCert` | 3 processes, 4 starts, kills and failures, fair | `TypeOK`, `OneMaker`, `CertificateIsKept`, `FileIsCompleted` |
| `MCClientCertOnce` | 1 process, 3 starts | **violated**: `StartedOnceHasCertificate` |
| `MCCli` | up to 4 commands, fair | `TypeOK`, `ExitTells`, `CertificateFitsUrl`, `EndsUnlessItHangs` |

Deadlock is checked only for `ServerList`: elsewhere the system may rest (all
calls made, nothing more happens at the server, no more clicks).

Why the bounds are enough.  In `Peer` the code treats calls alike and looks at
pairs at most (whose token is it, who overtakes whom at the valve); two calls
and two notices give every such pair, and the theorems lift the bound.  One call
answered repeatedly meets one that is not; its answers are in the inbox one at a
time, but there is no end to them.  In
`Framing` a header of two bytes can be cut, a body of two or three bytes can be
cut in two places, and bytes reparsed as a header announce bodies from zero
length (a loop that takes nothing) to lengths the stream never has; the third
frame shows what follows a bad one.  In `ServerList` two names at one site and
a second site give every outcome of the two comparisons, and two opens every
overlap; at most one save fails, anywhere among the others, so that both its
immediate effect and what later saves make of it are seen; `MaxListed` bounds
the growth of the list of discovered servers (section 4).  In `Opening` the
interesting case is a change of fingerprint or password between the steps of
two opens, overlapping or one after the other: two clicks give both, and the
theorems lift the bound.  In `VmList` a stale listing
takes two listings and one change; four listings are as many as the first one
and three list changes can start.  In `AsyncLoop` the counter distinguishes own
from later messages, for which three runs, some of them chained, are enough;
one call of each gives every stack of three dialogs; and again the theorems
lift the bound.  `MCMessages` gives every message nothing, something small and
something large in every field, and has samples at the boundaries of the
encoding: lists of 0 to 3 elements, lengths 0, 1, 127, 128 and 130,
dictionaries of 9 entries (two bytes of null bits), objects inside lists inside
objects with absent fields.  No message is more than six containers deep
(`Depth`).  In `Cli` four commands give every pair of kinds,
with one before and one behind, and two starts, so that a certificate is
replaced.

**Fairness.** `Peer`: tasks that are ready run (the asyncio loop is fair to
them), handlers end, the transport drains a full buffer and ends a close, and
the server answers what it has received.  The last is an assumption about the
server; without it nothing could be said of calls, as the code has no timeouts.
Nobody is made to call, close or break the connection.  `Framing`: the loop of
a running `data_received` goes on.  `Opening`: connecting ends (the operating
system times it out), the server replies, idle callbacks run, and the user
deals with the dialog on top; the bound on clicks matters here, since a user
who keeps opening servers can cover a dialog for ever.  `AsyncLoop`: both
threads run their callbacks, the user answers the dialog on top, and what
coroutines do otherwise ends; nobody is made to run a task or to ask.
`ClientCert`: executor threads run.  `Cli`: the program runs, connecting ends,
and a server that is connected carries out what it is asked and answers;
neither the loss nor the interrupt is forced.

## 4. Findings

1. `swiftconnect.py:125`, a call made after the connection is lost never returns
   (`MCPeerHang`).  The calls it meets in practice are the handshake after a
   dialog and the buttons of a window whose server is gone.
2. `swiftconnect.py:156` and `:164`, a frame cut between chunks is put together
   wrongly (`MCFramingSplit`).  `FramesArrive` holds only for chunks that end
   where a header or a body ends.
3. `gencert.py:56`, an empty certificate file is left by a failed or killed
   generation and taken for a certificate ever after (`MCClientCertOnce`).

Others were met while modelling, for which no text of the repository says
otherwise; the models do what the code does, and the properties are stated so
as to hold with them:

4. `gui.py:333`, a listing overwrites a newer transition if both come in one
   chunk.  `ShowsTheTruth` holds when that does not happen.
5. `gui.py:534`, forgetting a server offers all services to the list again,
   which then shows other discovered servers twice (`FoundAgain`, bounded by
   `MaxListed`).
6. `cod.py:109` and `:225`, lists with nulls cannot be encoded, and not be
   decoded unless there is nothing else in them (`NullableListFate`; `RoundTrip`
   excepts them).
7. `utmremoteclient.py:101`, `reorderVirtualMachines` gives its request a
   keyword `toOffset`, which is declared as `offset` and so is not sent
   (`Sends`; `CallsGetThrough` is about the fields that are).
8. `gui.py:636`, when the entry of a server that was opened cannot be saved,
   `_open_complete` raises before it makes the window: the user sees neither a
   window nor an error in the bar, and nothing closes the connection any
   more: its transport refers to the client, so `__del__` does not run
   (`CompleteFails`; `NothingLeftOver` excepts it).
9. `gui.py:553`, a process that dies in a save, after the file is truncated,
   loses all saved servers (`DieInSave`).
10. `utmremoteclient.py:270`, when the key of a SPICE server is not the one
   expected, the connection to it stays open until the program ends
   (`CertificateFitsUrl` allows it then).

## 5. Proofs

The theorems hold for every value of the constants, under the named assumptions
of the modules: of `Peer`, that calls and notices differ and `NoCall` is no
call; of `Framing`, that a header can hold the length of every body that is
sent, and no body is empty (`BodiesFit`); of `Containers`, that all keys differ
and fit in a byte, and `Null` and `Raised` are not bytes; of the others, that
their sets of names do not overlap and their bounds are numbers; those of
`Codec` and `Messages` are below.  `SavedOnce` and its like thereby hold for any
number of servers, opens, tasks, commands or processes, where the runs have two
or three.

*Peer, safety of calls.*  `TableHoldsTheWaiting` and `AnswersMatch` are not
inductive: that a popped token settles the right call needs that tokens differ
and are below the next one (`TokensDiffer`, `TokensAreFresh`), that the server
and the frames carry a call's own token (`ServerKeepsTokens`,
`FramesKeepTokens`), and that whoever sleeps or was woken has called
(`SleepersCalled`).  For the refinement, no answer may be taken after the loss
(`NoAnswerAfterLoss`: the table is then refilled only with tokens for which no
frame exists).  `CallInv` is their conjunction; from it follow `TypeCorrect`,
`TableIsExact`, `AnswersAreOwn`, `OutcomesAreFinal` and `PeerKeepsPromise`, the
last by showing that every action is a step of `RemoteCalls` or a stutter.

*Peer, the valve.*  `NobodyIsForgotten` uses `ValveInv`: before the connection
is made nobody can sleep, for nobody is trusted yet (`QuietBefore`), and after
the loss the valve stays open (`OpenAfterLoss`).

*Framing.*  `FramesArrive` speaks of what was delivered; its invariant has to
say where in the stream the loop is.  `Layout` says how the stream is made of
frames and where they start.  `InStep` says, as long as no chunk was cut inside
a header or a body, that the bytes used up end where the frame after those
delivered starts, with no header kept, or where its body starts, with its header
kept, and that what is left of the chunk is the stream from there to where it
was received.  A piece of the chunk is then a piece of the stream, and `Layout`
says which.  A body that is being received is shorter than its header says
(`BodyIsShort`), however the stream is cut; with it `TypeOK` is inductive even
where bytes of a body are taken for a header.

*Bytes.*  That a value comes back from its bytes is stated for one container at
a time, whatever the bytes of its elements are and whatever follows:
`UlebRoundTrip`, `IntRoundTrip`, `TextRoundTrip`, `BytesRoundTrip`,
`KeyedRoundTrip`, `ListRoundTrip`, `ShapesRoundTrip`.  They hold for any number
of elements, keys and shapes, and for sizes of any number of bytes, where the
samples of `MCMessages` have two at most.  `IntRoundTrip` says what the code
does to a negative int: it comes back modulo 256 to the number of bytes.
`NullableListFate` says that a nullable list of the server is read only if all
of it is null, and raises otherwise.  `Uleb128`, `Number`, `PopSizes`, `Slices`
and `ShapesOf` are recursive functions, of which a proof knows nothing but that
they are chosen to satisfy their equations.  So there is first a lemma that a
function with these equations exists, for each, by induction on how far it is
defined; the induction principle is a statement about a set of naturals
(`Induct`), which follows from the naturals being well-founded and needs no
operator as a parameter.  The joined bytes of several elements are cut apart
again by where each starts (`Laid`).

*Codec.*  `EncodingRoundTrip` puts the containers together, for values of any
depth: whatever has a type is encoded to bytes that are decoded as its reading,
or is refused at one of the two ends exactly if it has no reading.  It is an
induction over the depth.  Its step, `LevelFaithful`, goes through the kinds of
values and assumes of the parts that they are `Faithful`: from any table of
shapes, the encoder returns bytes and a table that extends it, and from these
bytes and *any* later extension of the table the decoder returns the reading.
The latter is what sharing shapes needs, since what is encoded after a part adds
to the table that the part is decoded with; shapes are never moved or entered
twice, so an index stays good.  `ValuesArrive` is `RoundTrip` for the
specification; its invariant `ValueInv` says that what is under way was made
from the sample by the encoder of the sender.

*Messages.*  `OperationsGetThrough` and `RequestsGetThrough` are
`CallsGetThrough` and `NoticesGetThrough`, for all messages and all values of
their fields.  They rest on three facts about the classes as they are declared,
proved message by message: every operation but the reordering uses keywords that
its request declares (`SendsDeclared`), every operation returns all its reply
declares, but for the terms of the handshake (`RepliesReturned`), and `Local`
passes on all that a request declares but its version (`NoticesPassed`).
`ObjectRead` relates the fields that are given to those that are read;
`CallInv` and `NoticeInv` say what each leg of a talk carries.  What is sent is
never half understood because an object with a field that the class does not
declare has no reading.

What these theorems assume of the constants: `ValuesAreTyped`, that what is sent
has the type it is declared with and its parts are among the values one level
less deep; `SentIsTyped`, that every message is among the typed values;
`RaisedIsNoParts`, that an exception is not a list of bytes or of values;
`NewIsNew`, that a newer server's field and message are not declared; and
`ValuesReadThemselves`, that the arguments tried are read as themselves or
refused: objects have every attribute, ints are not negative.  Negative ints and
attributes left out are not lost sight of: `ValuesArrive` covers them, as
`Reading` says what becomes of them.  The code does not check the types of what
it is given; a value of another type than declared is outside of the theorems.

*StatusBar.*  The invariant is `CounterTells`: a run's counter is at most the
bar's, and equal to it exactly while the run's message is shown.
`MessagesEnd` and `ErrorsRemain` follow, and hold of every program that
implements `StatusBar`.

*AsyncLoop.*  `OneContinuation` speaks of pairs of positions in three
sequences; the proof restates it task by task: `GoesOn` (a task that waits has
one thing in one place, and what it is agrees with the task's stage), `Placed`
and `About`.  Every action moves the things of one task, or of two when a run
starts another, and leaves the rest in place.  `NoMessageOutlivesItsTask` needs
the counter as in `StatusBar`.

`LoopImplementsBar` shows that every step of `AsyncLoop` is a step of
`StatusBar` or a stutter, for any number of runs, calls and reports.  The bar
sees the queue of idle callbacks without the calls of `wrap` (`BarSees`), which
is a recursive function; by induction over the queue, what is appended to it
appears behind what was seen, if the bar knows it, and what is taken from its
front is either what the bar sees first or nothing to the bar.  The bar counts
the reports of the server, which needs the set of reports to be finite
(`ReportsAreFinite`).

*Opening.*  That no handshake goes to an untrusted server is not inductive: an
open compares with a fingerprint that it copied when it was clicked, so the
invariant says of every known fingerprint that the user trusted it once
(`KnownWasTrusted`), and of every password that would be remembered that it is
the one offered, or none (`OfferIsRemembered`, on which `SavesWhatWorked`
rests).  `NoTransportLeft` and `DialogsFit` say for each stage of an open
whether its transport may be open and its dialog is on the stack, once.  What is
saved and what a row remembers need not agree, so the invariant speaks of both;
that the row does not lag behind in what was trusted matters to the next open.

*ServerList.*  The properties of the run are inductive together, with two
additions: what a restart would load has no server twice, since `Start` makes
it the list, and a process that is down has nothing.  Most of the work is in
what the operators on sequences return: where a saved server is found, what is
left when one is forgotten, and what is listed when services are offered.

*VmList.*  `ButtonsFit` is inductive once it is known that what travels to the
window are frames, so that the rows it is shown are virtual machines.
`ShowsTheTruth` speaks only of states in which nothing is under way; its
invariant `Truth` says what is still on its way at every other time.  `Stream`
is that, in the order the GTK thread will see it: its idle callbacks, the answer
its listing waits for, and the wire.  While nothing has been taken out of order,
the last frame of the stream that settles a machine's state tells it as it is,
and if there is none the window does (`StatesTold`); the last list change, and
the last news of which machines there are, is current (`NewsTold`, `IdsTold`);
and once no news is left that would start a listing, the last request, or else
the last snapshot, or else the window, is of the machines that exist
(`RowsTold`).  That only one listing has its answer at a time (`OneReady`) is
what makes the stream a queue; `disorder` records where it fails, and where
answers overtake each other.

*ClientCert.*  `OneMaker` needs that processes that are up have numbers of
their own (`RunsDiffer`), so that the owner of the file is one of them;
`CertificateIsKept` follows from the mode `"xb"` the file is opened with.

*Cli.*  `InPlan` says that the calls before the one that is made have returned
a result, those behind it have not been issued, and what the server has carried
out is the plan from its start; `Phases` relates this to where the program
waits.  From both follows `ExitTells`; the certificate file changes only
together with the URL.

Only model-checked: liveness (`TimelyCallsReturn`, `HandledNoticesEnd`,
`LoopEnds`, `OpensEnd`, `TasksFinish`, `FileIsCompleted`, `EndsUnlessItHangs`),
which is out of the prover's reach.  Every safety property of the passing runs
is a theorem.

## 6. Not modelled

Malformed messages from the server, and answers to requests that were never
made; cancellation of coroutines, other than Ctrl-C in the command line while it
waits.  Python before 3.11 may interrupt it between two awaits, too: an
interrupt inside the write of the certificate file (`cli.py:87`) is not seen by
`CertificateFitsUrl`.

Nor are names of fields with a comma in them, which no message has; the threads'
access to the transport from the GTK thread (`client.close()`), of which asyncio
does not say what it does; sorting and appearance of rows; `SpiceWindow`, which
hands everything to the SPICE library; the certificate file `{vm}.crt` of the
GUI, which another program reads when it pleases; Avahi; TLS and the making of a
certificate.

## 7. Plan

What is left is a composition of `Opening` with `ServerList`, in which an open
that completes saves what it learned, as a refinement of `ServerList`.

New behaviour goes into the run of the component it belongs to, a composition
replaces the runs it includes, and a shallow property gives way to a deeper one.
