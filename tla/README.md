# A TLA+ model of SDRPortal

SDRPortal is a daemon that puts a software defined radio on the network.  A
browser, or a program on a plain TCP socket, sends it commands (open a data
channel, tune, receive); the daemon sends the radio's samples to data sockets.
A second daemon does the same for shell commands.  The code has no tests of its
own (the `qa_*` files under `gr-sdrp/python` are stubs), many threads, and one
mutex per listening port.  Beside the daemons the repository holds GNU Radio
blocks and the Python tool that turns doxygen's XML into docstrings for them.

This directory holds the modules that describe it, the instances TLC checks and
the theorems TLAPS proves.  File names below are relative to the repository;
`PROJECT.json` names the lines behind every definition.

## 1. The system

### Components

| Component | State it keeps | Operations | Modelled in |
|---|---|---|---|
| Dataflow hierarchy (`src/hierarchicalDataflowBlock.cc`) | links up and down, keyed by channel | add and remove links, send data up or down, notify | `SocketInterface` |
| Socket interface (`src/genericSocketInterface.cc`) | listening descriptor, `cur_uid`, mutex, the links to its connections | accept, broadcast or address a message, forget a connection | `SocketInterface` |
| Socket thread (same file) | descriptor `socket_fp`, uid, interpreter | read, write, end | `SocketInterface` |
| Web socket interpreter (same file) | `message_parser`, `connection_established` | handshake, parse frames, make frames | `WsFrame`, `WsInterpreter` |
| Command socket (`src/portalCommandSocket.cc`) | the static `command_stream`, `cur_channel`, `profile_loaded` | one handler, a branch per command, then a read-back | `CommandServer` |
| Channel registry (`src/genericSDRInterface.cc`) | `num_channels`, `uid_map`, `uid_to_chaninfo`, `rx_chan_to_streams` | number, bind, type, set, distribute samples | `CommandServer`, `RxDistribution`, `TxPath` |
| Data socket (`src/portalDataSocket.cc`) | uid, stream type | broadcast samples, take samples to transmit | `SocketInterface`, `RxDistribution`, `TxPath` |
| Sample conversion (`src/streamConverter.cc`, generated converters) | a scratch space per type | convert from and to the device's type | `RxDistribution` (which block it holds), `TxPath` (which bytes) |
| Drivers (`src/uhdInterface.cc`, `rtlInterface.cc`, `hackRFInterface.cc`) | threads, flags, transmit queue, device | open, tune, receive, transmit, disconnect | `CommandServer` (the commands' side), `TxPath` (the HackRF's transmitter) |
| Profiles (`src/portalProfile.cc`) | accepted commands, a process, two FIFOs | ask the process, answer | `CommandServer` (loaded or not) |
| Shell portal (`src/shellPortal.cc`) | running commands | run, pass output on, kill | `SocketInterface` (its output threads) |
| Browser command client (`www/portalCMD.js`, `www/rds_demo.html`) | `state`, `cmd_queue`, uid | script of the connection, queue of commands | `CommandSystem`, which implements `CommandSession` |
| Documentation tool: XML binding (`gr-sdrp/docs/doxygen/doxyxml/generated/*.py`, `doxyxml/text.py`) | one object per element, of some 80 classes | build from XML, export, text of a description | `DoxySchema`, `DoxyBuild` |
| Documentation tool: docstrings (`swig_doc.py`, `doxyxml/base.py`, `doxyindex.py`) | members, parsed files, categories, `make_funcs` | read the index, parse on demand, write entries | `SwigDoc` |
| Other browser code (`www/shellCMD.js`, `wsAudio.js`, plots) | audio and drawing | | not modelled |
| GNU Radio blocks (`gr-sdrp/lib`, `gr-sdrportal/lib`) | framers, ranging, trackers, packet interpreter | `work()` and message handlers | not modelled yet |
| Funcube driver, daemon `main`s, vendored decoders and digests | | | not modelled |

### How they interact

```
 browser --ws--> socketThread --up--> genericSocketInterface --up--> portalCommandSocket
    ^               |  ^                     (one mutex)                   |  calls
    |               |  +---------- down: replies, on the same stack -------+--> genericSDRInterface
 data socket <-- socketThread <-- genericSocketInterface <-- portalDataSocket <--+ distributeRXData
                                                                              (receive thread)
```

A reader thread carries a message all the way up, runs the command and writes
the reply on the way back, holding the mutex of its own listening port.  Samples
come down on the driver's thread and hold no mutex.  The listener thread links
new connections, and a reader that meets the end of its connection unlinks it.
Everything above the ports (registry, command stream, device) is shared by all
ports and has no lock.  Samples to transmit go up on the readers of the data
sockets, are converted in a scratch space per type, and end in a queue that the
device's callback empties on a thread of its own.

The documentation tool is a program of its own and sequential: `swig_doc.py`
asks the index for members, which parse the file of a compound through the XML
binding when something of it is first needed.  `gr-sdrportal/docs/doxygen` is a
copy of it whose Python files are the same byte for byte; the modules name the
lines of `gr-sdrp`'s.

### What is hard here

* the window between starting a reader and linking its connection;
* walks over the link table while connections come and go; a descriptor that
  is closed and handed out again while a send still holds its number;
* a parser of a byte stream that returns pointers into the buffer it shifts;
* one command per message, taken from a stream that all ports and clients share;
* a client that pairs replies with commands by order alone;
* device threads that are started, joined and looked at without locks;
* types and channels that change while a block of samples is distributed;
* a transmitter that is started by the readers and stopped by its own callback,
  around a queue and a flag that nobody locks;
* objects that read XML by one path and write it by another, and a tool in which
  most of what can be wrong with an input is an exception that ends it.

`PROJECT.json` lists each hazard at its line, with the properties that would
notice, or why none does.

### What makes each part correct

* Socket interface: replies reach the client they answer and no other, readers
  exclude each other, a connection that ended is told of and unlinked, only gone
  clients are unlinked, a broadcast misses nobody who is there all along, and
  descriptors come back.
* Web socket: the bytes a browser sends reach the level above as the messages it
  meant, whatever pieces TCP makes of them; lengths are the same at both ends.
* Command server: a reply answers the command of the client that gets it, once;
  the numbers told to clients are those of the registry; no thread uses a device
  that was given up.  With two command sockets each of these holds up to a point
  that the model names (section 3, Disagreements).
* Browser: one command under way, replies in step with the script, the last
  value picked is the one the device gets, and everybody becomes idle again.
* Receive path: each stream is given each block, once and in order.
* Transmit path: what a client sends reaches the radio once and in order, and
  nothing of it is lost but half a sample at the end of a read; the radio is on
  when there are samples and off when there are none.
* Documentation tool: what is read is written again; every class and function is
  documented once; and it stops only for what it has to stop for.

## 2. Modules

### `SocketInterface`

One listening port with its listener thread, a reader per connection, and
writer threads of the level above.  `Upper` says which level that is: a command
socket answers on the reader's stack (`Reply`); a data socket is written to by
the receive thread (a broadcast); the shell portal's output threads write to one
connection.  A step is a stretch of code between two accesses to what other
threads see, so that `Accept`, `LinkUp`, `LinkDown` are the three moments of a
connection's birth (`connectionListenerThread`), `Notify`, `Remove`, `Close` of
its end (`socketReader`, 450-452), and `StartSend`, `Visit`, `Write`,
`WriteFails`, `Catch`, `Unlink` those of a send (`dataToLowerLevel`,
`socketWriter`, and the handler in `dataFromUpperLevel`).

The kernel is modelled by what the code relies on: `accept` takes the lowest
free descriptor, `write` blocks while the peer's buffer is full and fails or is
swallowed when the peer is gone, and a number that was closed means whatever
connection has it now (`sock`, `Receiver`).  A lookup of a channel with no entry
computes `++end()`; from there the message may get lost or the process die.
The history variables `due` (in `job`) and `raced` are read by no guard.

Insertion into the map and erasure from a vector are atomic in the model; a walk
that reads memory another thread is moving at that instant is outside of it.

### `WsFrame` and `WsInterpreter`

`WsFrame` has the arithmetic of headers: what the server writes (`Upstream`,
`message_length`), what a browser makes of it, what a browser writes and what
the server makes of that (`payload_len`, `message_start_idx`).  Numbers are
32-bit, as `int num_bytes` is.

`WsInterpreter` is the parser at work: a browser sends the opening request and
frames, `Read` takes any number of bytes, the parser consumes frames from the
front of `mem`, and `Deliver` follows the pointers it left.  `mem` is the
string's memory, including what `erase` leaves behind the new end, so that a
pointer that has gone stale reads what is really there.  It is one buffer that
does not move; growth would only make stale pointers worse.  Payloads are below
126 bytes, so that the fields of a longer length are not read before they have
arrived; that case is listed as not covered in section 8.

### `CommandServer`

The command sockets, the registry and what a driver answers.  A message is a
sequence of pieces, each a whole line or the head of one, and is appended to the
shared `stream` (`Insert`); `GetLine` takes out one line, or everything and sets
`eof` for good; one action per command follows, then the read-back (`Query`,
`NoQuery`).  There may be any number of command sockets (`Socks`), each with a
handler of its own that runs beside the others, as the daemons open a TCP and a
web socket for commands (`uhd_daemon.cc:90-91`, `137-140`).  A step is a stretch
of a handler between two accesses to what another one sees: `NEWCHANNEL` is three
steps (`NewChannel`, `Number`, `Return`), `RXCHANNEL` is `OpenRX`, `StartRX` and
`BindRX`, and the disconnect of a USRP is `Disconnect` and `Reset`.

The three drivers are told apart by what they refuse, throw and keep, and each
appears in its own initial states.  What ends the process is an action that sets
`proc`: a null pointer (`NullSocket`, `StartNull`, `NullDevice`, `QueryNull`), an
exception nobody catches (`SetThrows`, `QueryThrows`), no descriptor for one more
data socket (`NoDescriptor`; `room` is what the process may open, and no channel
gives its socket back), and `handleHRFResult(..., true)` of the HackRF
(`SetExits` for frequency, rate and transmit gain, `StartExits` for
`hackrf_start_rx`).  `DATATYPE` is refused when its text is no number or there is
no channel to set the type of.

A profile may name any command in its file (`portalProfile.cc:119-127`), so
`ProfileOps` may hold parameters; such a command is answered by the profile, and
by the read-back once more.

Four histories, which no guard reads, name the moments from which on promises
fail: `mixed` (a message was put behind what another client has in the stream),
`racing` (two handlers were in `addChannel` at once), `crossed` (reception was
started in the middle of a disconnect) and `twice` (how many commands of a client
were answered twice).  A piece carries the name of its sender, for the same use.

`SDR_DISCONNECT` of a USRP that receives joins a thread that has no end
(`uhdInterface.cc:315`): no action lets that handler go on.
A parameter given to a USRP before a channel is bound goes to channel -1 of the
multi-channel driver, which is outside the repository: the model lets it take
the value or throw, and what it throws nobody catches.  A parameter that is set
reads back as the value asked for; the device's rounding is left out.
`cur_channel` is not set by the constructor: it starts as anything in `Heap`.

### `CommandSystem`

`www/portalCMD.js` composed with `CommandServer`: `OnOpen`, one action per state
of `onMessage`, `Tune` (the page's controls), `SendCommand`, `DeQCommand`, and
`Leave`, the close frame that the server takes for a message without text.
JavaScript handlers run to their end, so each is one step.  `SystemAssumption`
ties the constants of the two together: `Messages` is what browsers send
(`BrowserMessages`), one whole command each or the empty text of a close frame.
`Queued` drops the waiting command of the same name; `sendCommand` is the only
writer of the queue, so there is one at most.

### `CommandSession`, and how `CommandSystem` implements it

`CommandSession` is what a browser is promised, without sockets, streams, queues
or messages: a `stage`, the command `sent`, whether its `answer` is due, given
or lost, and the set `todo` of picks that wait.  It asks the script in order,
answers each command once, sends the last pick of each parameter, and goes on.
After some browser has left an answer may be lost, since a close frame can end
`command_stream`; and the server may end (`End`), after which no answer comes.

`CommandSystem` instantiates it as `Session`.  `sent` and `answer` are computed
from where the command is: among the messages on the way to the server, in the
stream, inside the handler, or as a reply on the way back (`UnderWay`,
`AnswerTo`, `InServer`); `todo` is `cmdQueue` as a set.  `Sessions` is
`Session!Spec`, which is `Session!Safety` and the liveness `Goes`.  `Safety` is
proved; TLC checks both.  The liveness is stated by states (`[]<>`)
rather than by `WF`: the mapping gives an abstract variable as an expression
over several concrete ones, and substitution does not go through ENABLED.

### `RxDistribution`

`distributeRXData` of one receive channel: a block arrives and the list of
streams is copied (`Device`), `getResultingPrimTypes` copies that list once more
(`GetTypes`), looks at the streams' types one by one and notes each new one
(`ScanType`, `ScanDone`), each type is converted (`Convert`) and the streams are walked (`Push`) with the index of the
inner loop, as the code has it.  Past the end of the types the code reads
memory; the model lets it match or not.  `Bind` and `SetType` come in between any two
of these steps, so that a type may change behind the scan or ahead of it.
Blocks are numbers, and a scratch space is the number of the block it holds.

### `TxPath`

Samples from data sockets to the HackRF.  A reader takes what a read returned
(`Take`), converts the whole samples of it (`WholeSamples`) into the scratch space
of its type (`Convert`), is given a pointer to that space (`Pointer`), tests
`is_transmitting`, starts the radio, sets the flag (`startTX`), and pushes byte
by byte (`txIQData`).  `hackrf_start_tx` and `hackrf_stop_tx` may refuse, which
ends the process (`device` is then `"refused"`).  The callback looks at the size of the queue, and either
fills its buffer and pops what it took, or clears the flag and stops the radio
(`txData`, `stopTX`).  Each access to what another thread sees is a step.

A byte is a socket and its number in that socket's stream of bytes, which reads
cut anywhere, in the middle of a sample too; so a byte that is lost, doubled,
moved or left over from an earlier read is seen to be so.  `given` is every byte
read, and `odd` the places where a read ended in the middle of a sample.
`overlapped` and `met`
record that two readers were inside at once, and that a `startTX` met a
`stopTX` or another `startTX`; no guard reads them.  The histories `radio` and
`given` are cut when readers overlap, as nothing is said of them from then on.
The types are one byte wide, like the device's.  `std::queue` is taken to be
sound under two threads, which it is not promised to be; the code's own comment
says that mutexes are missing.

### `DoxySchema` and `DoxyBuild`

`DoxySchema` describes each class of the generated binding: which attributes and
children it reads, in which order it writes them, and by which of four forms
(text, text in mixed content, mixed content, a sequence of fields).
`DoxyBuild` has the operators that all classes share by that form (`build`,
`buildChildren`, `export`), and a state machine that grows a document child by
child, writes the object, and reads what was written.  Text is a sequence of
tokens, with one for markup that quoting would have to change.  `compound.py`'s
paragraph and `text.py`'s description are in it.

The descriptions are tables because the classes are: the generator wrote the
same five methods once for each, and what differs is what the table says.

### `SwigDoc`

The program around it: one action for each turn of its loops, over the compounds
of the index, the blocks, the functions and the classes.  A compound is its
kind, its name, what comes of reading its file (`ok`; `malformed`, which is the
`ExpatError` that `retrieve_data` catches; or `unreadable`, which is any other
exception, of a missing file, a number that is none or a file without a compound)
and the members that file lists.  An element may lack its brief or its detailed
description, whose `strip()` then fails, and a function the name of a parameter
(`lacks`).  Exceptions that nobody catches end in `crashed`.
`CompoundsAssumption` says of the index what doxygen's schema does: names are not
empty, no compound is of the kind `function`, and no member of the kinds `class`
or `file`.  `_members` holds objects of both sorts, and `in_category` tells them
apart by their kind alone.  Lists are filtered by `Picked`, which keeps the
elements at given places in their order.

### The rest

`MC*.tla` declare the model values and the sets that a `.cfg` cannot write.
Definitions marked *Mutant* are never used by a specification; each is a
plausible slip of the definition that follows it, which makes the property it is
listed with in `PROJECT.json` fail.

## 3. Runs

| Run | Question | Bounds, and why they are enough |
|---|---|---|
| `socket_command` | two clients of a web socket command port | two connections, so that one may come while the other goes; two messages each, a handshake and a command; buffers of one, so that writes block |
| `socket_data` | broadcasts to a web socket data port whose clients come, greet and go | two clients, so that a walk has links before and behind the one removed; two broadcasts; one message each, which may be the opening request; two descriptors, of which the first is handed out again |
| `socket_shell` | output of shell commands | two clients, two sends: one for a live, one for an ended connection |
| `command_one` | a TCP and a web client, each on a command socket of its own, each daemon | three messages in all, of one or two lines or a head of one: a set-up, a command and one of the other client's; two data sockets and descriptors for both; a profile that takes `RXFREQ`; symmetric clients |
| `browser` | two browsers through the whole script, tuning and leaving, at an RTL or a HackRF daemon with descriptors for one or two channels | three picks, so that one is sent, one waits and one smashes it; all of one parameter (queues with two names are left to the proofs) |
| `browser_leave` | is everyone answered when a browser leaves? (no) | one pick |
| `ws_parser` | three frames in any pieces; lengths at the boundaries | empty, one and four bytes of payload; reads up to a whole burst |
| `ws_coalesce` | are two frames in one read kept apart? (no) | two frames |
| `rx_distribution` | one receive channel under binds and changes of type | two sockets, two types, three binds (a socket may be bound twice), two changes, three blocks |
| `tx_path` | two transmitting sockets, of one type or of two, and the callback | two reads of up to four bytes, so that a second one finds a queue, a scratch space and a radio in any state of the first's, and a sample may be cut in two; transfers of two bytes |
| `doxy_build` | every class of the binding reads, writes and reads again | two children of a root, two levels deep: enough for two of a kind, two kinds in either order, text around an element, and a wrong child beside a right one |
| `swig_doc` | every index of up to three compounds out of some forty, with files unreadable or malformed, descriptions and names that are not there | three: a block with its two headers, or two classes and the header of one |

What they show:

* `socket_command`, `socket_data`, `socket_shell`: the mutex and the order of
  `notifyUpper` and `close` suffice for what one connection needs
  (`ReplyIsolation`, `OneReaderInside`, `EndedIsForgotten`; and, with clients
  that go on reading, `ClosedIsReleased` and `SendEnds`), a slow client is never taken for a gone one
  (`UnlinkedOnlyWhenGone`), and a broadcast that is not cut short by a failing
  write comes to every connection that was there all along
  (`BroadcastComplete`).  A broadcast comes before the reply to a handshake in
  two windows and in no other (`HandshakeFirst`).  A walk past the end of the table needs a connection
  half linked (`CrashOnlyWhileLinking`).
* `command_one`: replies and numbers are right (`AnsweredToAsker`,
  `AnsweredOnce`, `UidsAgree`) and no thread uses a device given up
  (`ClosedIsQuiet`), with two handlers side by side, until one of the moments
  that the histories name; the run reaches those moments too, and what fails
  after them is listed below.
* `browser`: the browsers and the server together implement `CommandSession`
  (`Sessions`).  It is the client's discipline that makes the server's
  one-line-per-message work: it has one command under way at a time.  A lone
  browser finds its channel bound and its last picks on the device
  (`AloneMeansBound`, `LastWins`).  The script makes the daemon follow no null
  pointer and throws nothing; it does end it when pages were opened as often as
  there are descriptors, or when the HackRF library refuses a value (`NoCrash`).
* `ws_parser`: a browser that waits for its answers is safe from the parser's
  stale pointers; one that does not gets the right number and sizes of messages
  but not their contents (`ws_coalesce`).
* `rx_distribution`: the first stream of a channel, and a lone one, are served.
* `tx_path`: as long as readers do not overlap, what they read is transmitted once
  and in order, however they race the callback, and all of it but the last byte
  of a read that ends in the middle of a sample (`InOrder`); readers of different
  types keep their bytes apart even when they overlap (`OwnBytes`); and a radio
  that runs dry is switched off (`SwitchedOff`).  `FlagAgrees` holds until
  `startTX` meets `stopTX`, which is the race below.
* `doxy_build`: a document that follows the schema comes back whole and in order
  (`Lossless`), any other settles after one round (`Settles`) and can be read
  again unless it holds markup (`ReadsItself`).
* `swig_doc`: classes and functions are documented as often as they should be,
  whatever the order of the index, and `StopsFor` lists all that stops the tool,
  among the inputs the model has: a fault in one class's file costs that class
  alone if it is an `ExpatError`, and the whole output if it is anything else.

`CHECK_DEADLOCK FALSE` stands where the system may really stop: the
documentation tool ends (`doxy_build`, `swig_doc`), and a radio that was switched
off waits for samples that need not come (`tx_path`).

### Disagreements

Two runs end in a violation, of what a comment of the code says; `PROJECT.json`
quotes them under `findings`:

* `browser_leave`: the close frame of one browser stops the command server for
  all of them.
* `ws_coalesce`: of two frames that arrive together the first is overwritten.

Others were met while modelling.  The models take these steps and no property
denies them, which is why several properties carry a condition:

* `command_stream` is one for all command sockets, each of which has a mutex of
  its own: with a message of the TCP client and one of the web client in it, the
  handler of one takes out the line of the other, and sends its reply to the
  wrong client.  So it does with one socket and a client that sends two lines in
  a message, as the second stays behind.  The comment at
  `portalCommandSocket.cc:56` says that "There probably needs to be one
  stringstream for each channel, otherwise parsing will get confused"; and
  `AnsweredToAsker` speaks of what comes before (`mixed`).
* Two handlers in `addChannel` at once (`genericSDRInterface.cc:44-52`) make their
  entries under one number and number their sockets with two, or tell a client
  the other's number; `UidsAgree` speaks of what comes before (`racing`).  The
  increment of `num_channels` is one step of the model, though two of them may be
  torn as well.
* An `RXCHANNEL` on one socket between the two steps of an `SDR_DISCONNECT` on
  the other starts a thread on a device that is then given up; `ClosedIsQuiet`
  leaves that out (`crossed`).  And a USRP that receives never comes back from
  `SDR_DISCONNECT` at all.
* A parameter command that a loaded profile accepts is answered by the profile
  (`portalCommandSocket.cc:156-161`) and by the read-back (178-193), so the next
  reply the client takes is a wrong one; `AnsweredOnce` counts these (`twice`).
  A command that is refused and is no parameter gets no answer at all.
* A HackRF that refuses a frequency or rate ends the daemon for everybody
  (`hackRFInterface.cc:206-211`), and the checks that might refuse it first are
  commented out (`genericSDRInterface.cc:91-93`).  Each channel keeps its data
  socket for ever, so a daemon ends as well when enough pages have been opened.
* A web socket client of a data port may be sent samples before the reply to its
  handshake (`genericSocketInterface.cc:287`, "Send the reply"): the connection
  counts as established from line 293 on and the reply is written at 441, and a
  broadcast waits for no mutex (`portalDataSocket.cc:49-58`).  It may also be
  sent samples over the descriptor of a connection that has ended.
  `HandshakeFirst` says that there is no third way.
* A descriptor that is closed during a send is handed out again by the next
  `accept`, and the rest of the message goes to that client
  (`genericSocketInterface.cc:452`).  `ReplyIsolation` is about replies, which
  the reader that owns the descriptor writes itself.
* The inner loop of `distributeRXData` hides the outer one's `ii`
  (`genericSDRInterface.cc:164`): streams after the first may be compared with a
  type past the end of the list.  `FirstServed` and the `Alone...` properties
  say what is left.
* `startTX` and `stopTX` may meet so that `is_transmitting` stays TRUE with the
  radio off; no later message starts it again, although the comment at
  `hackRFInterface.cc:316` has it started "if it hasn't started already".
  `FlagAgrees` is conditional on `met`.
* A byte that does not fill a sample at the end of a read is dropped
  (`genericSDRInterface.cc:181`, whose comment has it as a TODO), though reads of
  TCP end anywhere: from there on I and Q are misaligned.  `InOrder` counts it as
  the one loss.
* The callback may find the queue empty between `startTX` and the first push and
  stop the radio under the samples that follow, which wait for the next message.
* Overlapping readers of one type share its scratch space; each may push the
  other's bytes, which the condition of `OwnBytes` leaves out.
* The title of a compound is read as an object and written as `str()` of it;
  text of mixed content is written unquoted (`compoundsuper.py`), so that a
  document with markup in it comes back ill-formed.  See `IsTitle` and
  `ReadsItself`.

## 4. Fairness

Threads of the daemon run on: weak fairness for the listener's links, for each
reader and each send (`SocketInterface`), for the server's handlers
(`CommandSystem`), for the reader of a web socket (`WsInterpreter`), for the
receive thread (`RxDistribution`) and for the readers inside `txIQData`
(`TxPath`).  They are operating system threads that nothing suspends; weak
fairness is enough, as no property needs a thread to win a contest for the mutex
again and again: with bounded messages the others eventually leave it.  Clients
of a socket go on reading what they are sent, as long as they are connected, a
browser's event loop delivers its messages, and a HackRF that is on asks for
samples (`Callback`).  No client is obliged to connect, send, tune or leave, no
writer to start and the device to deliver nothing.

`Sessions` includes the liveness of `CommandSession`, which the fairness of
`CommandSystem` implies and the model without it does not.

## 5. Proofs

The modules `*Proofs` hold the theorems, for every value of the constants that
satisfies the `ASSUME` of the module they are about; where a theorem needs more,
its statement begins with it and this section says why.  Each inductive
invariant was checked by TLC on the instances of section 3 before it was proved,
save `DocInv`, which quantifies over all names and which TLC cannot evaluate.

| Module | Theorems (property of a run) | Beyond the module's `ASSUME` |
|---|---|---|
| `SocketInterfaceProofs` | `TypeCorrect` (`TypeOK`), `RepliesStayApart` (`ReplyIsolation`), `ReadersExclude` (`OneReaderInside`), `CrashWindow` (`CrashOnlyWhileLinking`), `EndsAreForgotten` (`EndedIsForgotten`), `BroadcastsAreComplete` (`BroadcastComplete`) | nothing |
| | `OnlyGoneAreUnlinked` (`UnlinkedOnlyWhenGone`) | `NeverEmpty` |
| | `GreetedFirst` (`HandshakeFirst`) | web sockets |
| `CommandServerProofs` | `TypeCorrect` (`TypeOK`), `NoSecondAnswer` (`AnsweredOnce`), `NumbersAgree` (`UidsAgree`), `ClosedDeviceIsQuiet` (`ClosedIsQuiet`), `AnswersGoToAskers` (`AnsweredToAsker`) | nothing |
| `CommandSystemProofs` | `SessionsSafe`: the safety half of `Sessions` | `SameSocket` |
| `CommandAloneProofs` | `ConnectedIsBound` (`AloneMeansBound`), `LastPickWins` (`LastWins`) | `SameSocket` |
| | `BrowsersDoNotCrash` (`NoCrash`) | `SameSocket`, no USRP |
| `RxDistributionProofs` | `FirstIsServed` (`FirstServed`), `AloneIsServedOnce` (`AloneServedOnce`), `AloneLosesOnePerChange` (`AloneLosesLittle`) | nothing |
| `TxPathProofs` | `TypeCorrect` (`TypeOK`), `TransmitsInOrder` (`InOrder`), `PushesOwnBytes` (`OwnBytes`), `FlagTellsRadio` (`FlagAgrees`) | nothing |
| `WsInterpreterProofs` | `FramesKeepTheirSizes` (`SizesKept`), `WaitingIsIntact` (`Intact`), `UpstreamIsKept` (`UpstreamLength`), `DownstreamIsRead` (`DownstreamLength`), `ParserIsSound`, `UpstreamLengths`, `DownstreamLengths` | nothing |
| `SwigDocProofs` | `ClassesDocumentedOnce` (`ClassesOnce`), `FunctionsDocumentedOnce` (`FunctionsOnce`), `OnlyStoppersStop` (`StopsFor`), `DocInvariant`, `StopInvariant` | nothing |

### The socket interface

`ReplyIsolation` is not inductive.  That a reply arrives at its client needs
that the reader which writes it still owns its descriptor (`Owned`), that the
send it is in is the one it began, for its own channel (`OwnJob`), and that keys
are handed out in order and never vanish (`Numbered`), so that a walk for one
channel meets that connection's link only.  `Guarded` ties the mutex to the
reader inside, and `Leaving` records how far the end of a connection has come.
The conjunction of these with `TypeOK` is `IInv`; the proof has a lemma per
thread and a step per action.

`BroadcastComplete` is an action property.  `WalkInv` carries it: the
connections a broadcast still owes its block to are ahead of its walk, or
unlinked.  It holds since only the listener adds links, under keys that were
never there (`TableGrows`), and since a walk moves past a link only when it has
written to it (`OneMoves`).

`UnlinkedOnlyWhenGone` needs that whoever a send gives up has closed
(`SendsInv`, `PeerInv`).  A `write` of no bytes returns 0, and the sender takes
that for an error.  An interface without frames whose level above answers with
an empty text can therefore unlink a client that is there; `NeverEmpty` excludes
that (web sockets write a header always, the other levels write no empty
message).  `HandshakeFirst` is about the greeting of a web socket, hence its
hypothesis; it makes none of the level above, so broadcasts are in it.
`GreetInv` says that who is established and not at the reply has been sent it, or
has closed; `OpenInv` that an open descriptor is that of its connection, so that a
write for somebody else goes over the number of an ended one.

### The command server

`command_stream` is static, so one stream serves all command sockets, which have
a mutex each.  Two handlers may be between the steps of a command at once.  The
theorems hold for any number of command sockets; what they cannot promise after
two handlers have met is behind a history in the property (section 2).

* `TypeOK` bounds `num_channels` by the data sockets made.  That is a count
  (`Counted`): sockets made are channels numbered plus handlers about to number
  one.
* `AnsweredOnce` counts, per client, replies against messages; `HandlerInv` says
  that a handler works for a client of its own socket, and which command it is in
  the middle of; one reply at most is due from it.
* `UidsAgree` follows from `NumbersInv`: as long as handlers are `Apart`, channels
  are numbered in the order of their sockets (`Numbered`), the handler between the
  steps of `NEWCHANNEL` holds the next number (`Fresh`), and replies told no other
  (`Told`).
* `ClosedIsQuiet` follows from `ReceiverInv`, which ties the receive threads to
  the flag of each driver, and a handler about to give the device up to that flag.
* `AnsweredToAsker` follows from `AskerInv`: a whole line is in the stream only
  between the step that put it there and the one that takes it out (`LinesIn`),
  and the line taken out is the handler's own client's (`LineOut`).

That `getline` takes the first line needs a least element of a set of positions;
`LeastNumber` gets it from the well-foundedness of `<` on the naturals, and so
does the largest frame in `WsInterpreterProofs`.

### Browsers and the server

The theorems about browsers assume `SameSocket`, that they are all on one command
socket: a browser can open web sockets only, and the daemon opens one of them for
commands.  They are about browsers by themselves, with nobody on the TCP socket.

`SessionsSafe` is a refinement proof: `SysInit` maps to `Session!Init`, and each
step of the composed system to a step of `CommandSession` or to a stutter.  The
mapping computes `sent` and `answer` from where the command is, so it is a
function only if the command is in one place.  That is the invariant,
`SessionInv`: a browser that has not left has one command at most, on one wire or
in the server, and one its state asks for (`OneUnderWay`); no name is twice in
its queue (`Queues`); and the stream is empty but between two steps of one
handler (`Handled`).  The lemmas before the steps say how each change of a
browser's part moves `sent`, `answer` and `todo`.

`CommandAloneProofs` adds what a browser alone may rely on.  `ChannelInv` says
that the channel selected is the newest, that nothing but `NEWCHANNEL` is under
way before there is one, and that streams have sockets; `LoneInv` that the
browser's number is the newest channel's, that its bind was made or is to come,
and that of each parameter the last pick is on its way, waits, or is set
(`Comes`).  `BrowsersDoNotCrash` leaves out the USRP (`"uhd" \notin Drivers`): a
browser sets rate and frequency before it binds its channel, which a USRP is
asked for on channel -1; what the driver then throws is caught nowhere, and the
model lets it throw.  The run `browser` looks at the RTL receiver and the HackRF
for the same reason.  `Dies` names the steps that end the process, and which of
them are left for browsers is what the theorem says.

### Samples

`RxInv` of `RxDistributionProofs` has, beside types, where the locals of the
receive thread stand (`LocalInv`: the copies are prefixes of the list of streams,
which only grows), what a socket not bound has (`BoundInv`), and what the first
stream is owed (`FirstInv`).  `Done` says from which step on the block at hand
counts as given.  The first type noted is the first stream's unless that
changed, which is why the index mix-up of the walk spares it.  `AloneInv` adds
that a lone stream's blocks are consecutive, and that each block lost pays for a
change of type, or is about to (`Losing`).

The inductive invariant `TxInv` of `TxPathProofs` joins to `TypeOK` and
`InOrder`:

* `CountInv`: the callback takes no more than the queue holds, since only it
  pops and the readers only push, and a reader has pushed no more than the whole
  samples of its read.  Without it, `Fill` could not be shown to move bytes rather
  than make them up.
* `WrittenInv`: from `Convert` on, the scratch space of a reader whom nobody of
  its type disturbs holds the whole samples of its read, and from `Pointer` on its pointer leads
  there, although other types' spaces are reallocated meanwhile.  `OwnBytes`
  follows from it, and so does the step of `InOrder` in which a byte is pushed.
* `FlagInv`: until `startTX` meets `stopTX` or another one, a reader that starts
  the radio is the only one and has found it off, and a callback between its
  two steps of stopping it has no reader starting it.  `FlagAgrees` speaks of
  the moments between; this is what carries it over them.

### Web sockets

`UpstreamLengths` and `DownstreamLengths`: for every length an `int` can have and
the header can hold, both ends agree, except for 65535 upstream, which `ml_16` and `ml_64` both leave out.
TLC looks at the boundaries; the proof covers the 2^31 lengths between.

The parser: `WsInv` says that what is not parsed, in the parser and on
the wire together, is the rest of the frames, one after the other.  `Layout` has
it as a function from frames to the places where they begin, with the bytes at
each place; a read moves the boundary between string and wire and changes no byte
of it, a frame that is sent extends it, and the parser shifts it (`ReadFacts`,
`SendFacts`, `EraseFacts`).  From the header of the first frame follows what the
parser takes (`HeadFacts`).  `RoomInv` keeps all this inside the memory that is
modelled.  `WaitInv` is the reason why `Intact` holds despite the stale
pointers: a browser that waits has nothing behind the frame that is parsed, so
`erase` moves nothing over the payload, and nothing is read before it has been
delivered.

### The documentation tool

What `ClassesOnce`, `FunctionsOnce` and `StopsFor` say of the finished output,
for any index, follows from what each loop has done for the elements it has left
behind.  `Passed(loop, k)` says that the loop is past its element `k`: it stands
behind it, or a later loop is running.  `DocInv` is built on that:

* `Reads` and `Counts`: of the compounds read, each class has one object in
  `members` that leads back to it, headers were readable, and the objects of a
  function (a header) are as many as the headers that declare it (have that
  name).  So `get_member`, which asks whether there is one, none or a duplicate,
  asks about the index.
* `Sorts`: of the classes looked at, `blocks` holds those that are blocks, each
  once.  A missing file would have stopped the tool here.
* `Makes`: `make_funcs` holds the make functions of the blocks documented.  Each
  such block was fit for it (`Sound`), and its class and its function have the
  same text.
* `ClassesOut` and `FunctionsOut`: who has entries in the output so far.  A
  function in `make_funcs` has one, any other as many as the functions left
  behind.  A function in `makes` is declared once, so the two agree.

`StopsFor` is the case of an early end: each way into `crashed` is shown to be
for a `Stopper`, and at `written` no compound can be one any more.

`Listed` says what `process_memberdefs` keeps of a list of members.  It rests on
`PickedFacts`, about the recursive function in `Picked`: both its existence and
its properties are shown for every prefix by way of the least prefix for which
they would fail (`LeastNumber`), since the library's induction theorems cannot
be used.

## 6. Only model-checked

* Liveness (`ClosedIsReleased`, `SendEnds`, `EverythingArrives`,
  `BackToDevice`, `SwitchedOff`, and `Goes` of `CommandSession` in `Sessions`) is
  out of the prover's reach, as is fairness.
* `Lossless`, `Settles`, `ReadsItself` and `DescriptionInOrder` of `DoxyBuild`
  speak of trees, built and read by RECURSIVE operators; neither these nor
  induction over data are in the prover's reach.
* What the two runs with a violation show is about the instances they name.

All other invariants and action properties of the runs are theorems.

## 7. How much of the code is mapped

`PROJECT.json` maps each definition to its lines.  A share of mapped lines that
counts only Python is a share of the documentation tool, and most of that is the
generated binding, which `DoxySchema` describes class by class; it says nothing
of the C++ and JavaScript core, which the other modules map and which such a
count leaves out.

## 8. Not modelled, and what comes next

Not modelled, of the daemons: the numeric signal processing of the GNU Radio
blocks and their vendored decoders, drawing and audio in the browser, option
parsing, the digest of the handshake, the text of replies and errors, the
Funcube driver (not built), and torn reads of containers that two threads change
at the same instant.  The USRP's transmit thread indexes vectors (`tx_queue`,
`tx_streams`, `tx_md`) that are never given a size, so that it does nothing
defined from its first access on.  Conversions between types of different width
are left out of `TxPath` and `RxDistribution`: their scratch spaces are sized by
the input, and a wider result does not fit.  A gain above the last entry of the
RTL driver's table (`rtlInterface.cc:88`) is not modelled, since the values of
parameters are abstract.

Of the documentation tool: `exportLiteral` (which the tool does not use), output that is
not ASCII, parameter lists and simple sections of a paragraph, names with `::`,
operators, the inner compounds of groups and the wording of an entry.

What is left, in the order planned:

1. `ShellPortal`: the table of running commands, output threads, pipes and
   `deleteListener`, composed with `shellCMD.js`.
2. `PacketInterpreter`: packets out of messages and back, as a refinement of a
   queue of packets.
3. `Framers`: sync tags and frame collection across `work()` calls of the TM and
   AOS framers and the derandomizer, against a reference on the whole stream.
4. `Profiles`: FIFOs and the process behind them, with its death.
5. A header of the long forms that arrives in pieces (`parseDownstreamMessage`
   reads length bytes that are not there yet), and the sizes of the scratch
   spaces and reply buffers.
6. Proofs about these modules, as they come.
