# A TLA+ model of netcap

netcap captures packets from AF_PACKET sockets, reassembles TCP streams,
recognises fifteen application protocols and publishes one JSON event per
message to Kafka. It is a chain of goroutines joined by bounded Go channels,
started and stopped by a small stage manager:

    sockets -> capture loops -> [pkt] -> decode workers -> [dec] -> splitter
            -> [tcp] -> reassembler -> [str] -> tcpLoop -> [ev] -> Kafka workers
            -> [udp] ------------------------> udpLoop -> [ev]

Line numbers of each definition are in the `map` of `PROJECT.json`.

## Inventory

| component | state | operations | interaction | hard behaviour |
|---|---|---|---|---|
| main, stage manager (`cmd/netcap/main.go`, `internal/pipeline`) | stage list, signal context | `Run`, rollback, `Shutdown`, `stopInReverse` | calls every `Start`/`Stop`; cancels the context all goroutines select on | a Stop that waits for what a later Stop does; a rollback under a live context |
| AF_PACKET capture (`internal/capture/afpacket`) | descriptors, WaitGroup, statistics | `Start`, `captureLoop`, closer, `Close` | non-blocking send into `pkt` | one of several system calls fails while loops run; close after the last send; poll against cancellation |
| decoder (`internal/decode`) | none shared | workers, `Stop` | `pkt` to `dec` | send or cancellation, whichever first |
| splitter (`main.go`) | `done` | goroutine, `Stop` | `dec` to `tcp`, `udp` | sends without a cancellation case |
| TCP reassembly (`internal/reassembly`) | gopacket's assembler, two buffers per stream | `run`, `feedPacket`, `flushOlderThan`, `ReassembledSG`, `ReassemblyComplete`, `Stop` | `tcp` to `str`, non-blocking | dropped chunks and markers; flush threshold inside a message |
| dispatcher (`internal/dispatch`) | none shared | `tcpLoop`, `udpLoop`, `Stop` | `str`, `udp` to `ev`; calls registry and parsers | buffered input against cancellation |
| registry (`internal/protocol`) | parsers, index by port | `Register`, `Resolve`, `NotifyClose` | called by the dispatcher | ties, fallback, order of registration |
| HTTP parser | `connStates`, janitor | `Parse`, `OnConnClose`, `gcLoop` | tcpLoop and the janitor share the map | eviction between a lookup and its use; messages that do not count one for one |
| DNS, TLS and Redis parsers, length-prefixed parsers (MySQL, PostgreSQL, MongoDB, MQTT), line parsers (SMTP, FTP, IMAP, POP3) | none between calls | `Ports`, `Probe`, `Parse` | called by the dispatcher | chunks cut anywhere; pointers in a loop; nesting; a panic ends the process |
| WebSocket, SSH, fallback parsers | none | `Ports`, `Probe`, `Parse` | called by the dispatcher; WebSocket shares ports with HTTP | takes chunks from HTTP |
| Kafka producer (`internal/output`) | writers | workers, `Stop` | `ev` to the brokers | close of a channel others send on; order across workers; retries, lost answers, batches given up in silence |
| metrics server | HTTP server | `Start` (may fail), `Stop` | a stage | its failure triggers the rollback |
| serializer, metrics collectors, configuration, event types, buffer pool | no behaviour of their own | | | |

What makes them correct: no send on a closed channel and no double close
(either kills the process); a stage is quiet once its Stop has returned; a packet is
neither duplicated nor lost but where the code drops it deliberately; the running
pipeline never wedges; shutdown ends; bytes of a stream stay in order; the HTTP
sequence numbers that pair a request with its response are exact; per-connection
state is released; detection picks the most confident parser; sockets do not leak;
a parser returns, stays inside its data and makes one event of each message it should;
what the producer has accepted is in Kafka or given up when Stop returns.
The `hazards` of `PROJECT.json` give the line where each can go wrong.

## Modules

**Pipeline** is the core: main, all stages, all goroutines. `mpc` and `k` are main's
place in `Run`, `stopInReverse` and `capturer.Close`; `pc[g]` and `held[g]` are a
goroutine's place and what it has received; `chan` and `closed` are the channels.
A receive, a send, an abort on `ctx.Done()` and an exit are separate actions, so
any two goroutines interleave between them. Where `select` has several ready cases
each is an action and none has priority. `Producer.Stop` and `TCPReassembler.Stop`
have two actions each, because other goroutines run between the wait and the close
(Kafka closes first and waits afterwards).
Data is the *set of packets* something carries, which is what conservation tells
apart. TCP packets belong to one connection; at most one message starts in a
packet. `FlushOlderThan` may flush or not, since it depends on the age of the stream.
A goroutine's work between receive and send (decode, parse) is local and is part of
the receive.

**Reassembly** has the same buffers with the bytes in order: per 4-tuple and
direction, the threshold, the flush of client before server on completion, and the
close marker. **HttpPairing** composes it with the dispatcher, detection and the HTTP
parser's counters: `HandleData` resolves a parser for each chunk on port 80, which HTTP
and WebSocket share, and the HTTP parser reads message after message until something is
not one or its header is not whole in the chunk. Headers and bodies have any number of units, and a chunk may end inside
either; the first unit of a header holds what the Probes look for at the front. Of an upgrade whose header is cut, by the
Probe's window or by the chunk, the field may be in sight or not. A script (`MCHttpPairing`) says what the two sides
send: plain exchanges, a WebSocket upgrade granted or refused, an interim response, an answer to HEAD, a method that
no Probe knows. `ScriptsAssumption` says what every script obeys: messages have a header and a size; HTTP/1.1 answers in order, so the i-th message of a direction
belongs to exchange i as long as no interim response came before; frames follow an upgrade, and after the
server has switched nothing but frames follows.

**HttpConnState** is one abstraction down: the `sync.Map` of counters as shared
objects, with `Parse` broken at each load and store, and the janitor at each visit
and delete. Chunks are taken as whole messages there.

**Detection** has `Ports` and `Probe` of all fifteen parsers as tables over about thirty
classes of payloads, and `bestProbe` and `Resolve` as operators. **Registry** adds the
registry as it is built, with `Register` as the action.

**ParseCall** is the frame of one call of `Parse`: its input, the locals of its loop, what
it has produced, and how it ended. Five modules fill it in, one turn of a loop per step:
**Dns** (sections, `decodeName` with its pointers, `formatRData`) over arbitrary bytes with
fixed parts shrunk to one or two bytes; **Framing** (MySQL, PostgreSQL, MongoDB, MQTT) over
streams of messages, a chunk being any window of one, where a length read inside a message may be anything;
**Resp** (Redis), with `readRESPValue` as a recursive function over nested arrays, where a chunk that begins inside a bulk
string may hold anything, the announcement of a bulk string of any length of an int included, and sums wrap around; **Lines** (SMTP,
FTP, IMAP, POP3), where CR and LF are units of their own; **ClientHello** (TLS) over a
well-formed hello cut off by the chunk or the record. The reference definitions in
their properties are computed from the stream and not from the loop. **MCParsers** joins
them with Registry in one specification.

**Kafka** has the producer alone, in detail: `NewProducer`'s defaults, the workers'
receive and write, `flowKey`, a writer per worker, Stop in its three parts. kafka-go's
`Writer` is external and modelled from the way it is configured (asynchronous, no completion
callback, three attempts): a batch per partition, one request of a partition at a
time, a request that fails before or after the broker stored it, a batch given up.

**Delivery** is the abstract specification of the pipeline: a packet is on the wire,
inside, published or lost, moves only forward, and is not published once the writers are
closed. `Pipeline!Whereabouts` maps Pipeline's wire, drops, discards and
publications to it, and `Pipeline!Delivers` says that Pipeline implements it.

**Capture** has what Pipeline leaves out of the capturer: `Start` with each system
call and its failure, the loop's poll, read, send and count, the closer, `Close`.
The kernel is external: any call may fail, any poll may time out.

**MCPipeline** holds the stage lists: `MainOrder`, `NoMetrics` (both of main) and
`UpstreamFirst`. The last is not main's order. The stage manager takes any list,
and this one stops the source of the data first; it reaches the Stop of the
splitter and the decoder, `CloseCapturer` and `MainExit`, which in main's order lie
behind the wait that never ends.

The theorems are in **Pipeline_proofs** (which has the refinement of Delivery too), **Capture_proofs**,
**Reassembly_proofs**, **HttpPairing_proofs**, **HttpConnState_proofs**, **Kafka_proofs** and
**Parsers_proofs** (about `MCParsers`, that is, the registry and the parsers), each of which extends the
module it is about. **Detection_proofs** has the lemmas the last two share with HttpPairing: how to reason about
a loop, and what `bestProbe` returns.

Operators called `Mutant of ...` in a comment are wrong variants of the definition after them,
used to show that the properties are able to fail. No specification uses them.

## Runs

| run | shows |
|---|---|
| `pipeline_safety` | main's order, two capture loops, two Kafka workers, one packet of each kind: `NoPanic`, `StopContract`, `Conservation` |
| `pipeline_liveness` | two packets of a connection through one-slot channels: the pipeline implements `Delivery`; captured packets settle; a signal closes the packet channel and the Kafka writers |
| `pipeline_upstream` | the stages in upstream-first order: the only possible hang left is the splitter's send |
| `shutdown_hangs` | **violated**: main's shutdown never returns: `packetSplitter.Stop` waits for the decoder's output to close, and `Decoder.Stop` comes after it |
| `rollback_hangs` | **violated**: a metrics server that cannot listen leaves `Run` waiting in `Dispatcher.Stop` under a context nobody cancelled |
| `reassembly` | two streams of one 4-tuple, six scripts: order of bytes, nothing missing without a drop, marker last, exact HTTP numbering in undisturbed streams up to the first message that skews it, and, of a chunk that starts with a message, an event of exactly the messages whose header is whole in it |
| `http_split` | **violated**: a flush in the middle of a response shifts the numbers of one direction and pairs a request with another's response |
| `http_state` | numbering is exact unless the janitor evicted the entry; no entry stays for ever |
| `http_gc_race` | **violated**: the janitor deletes an entry created, but not stamped yet, by the Parse under way |
| `parsers` | all registries of up to three parsers: `Resolve` agrees with a reference definition, the fallback is last, nothing is unclaimed; one call of `Parse` of eleven parsers: it returns, does not panic (with two exceptions, below) and makes the events due |
| `kafka` | two workers, two partitions, three events, three failed or unanswered requests, a signal at any time: order, duplicates, what Stop leaves behind, and that it returns |
| `capture` | any failure at any queue: no leaked socket, none closed under a loop by Close, output closed after the last send, statistics add up, Close returns |

Deadlock checking is off: a process that has exited, or a bounded behaviour
that is exhausted, stops. Where stopping would be wrong a liveness property says so.

### What the runs show besides

Some properties hold only with an exception, which they name; each is a place where the
program does less than one may expect.

* `KnownPanics`: every DNS answer of type CNAME, NS or PTR makes `formatRData` call
  `decodeName(pkt, -1)` (`dns/parser.go:243`), which passes the check against the length and
  indexes the packet at -1. Nothing in the program recovers. `docs/user-guide.md:246` lists
  these types as supported. And a Redis chunk that begins inside a bulk string (the reassembler flushes at 256 KiB
  whatever is under way) may read there, as part of that string, the line of a bulk string whose length is near the
  largest int: the sum at `redis/parser.go:191` wraps, passes the check, and the slice at 195 panics. Of the line
  parsers `KnownPanics` says nothing: they slice only behind a check of that very length.
* `AllReported`: a message whose header the end of the chunk cuts gets no event (`http/parser.go:119-128`, the
  "partial follow-up"), and neither does the rest of it in the next chunk.
* `NumberingExact`: request and response numbers drift apart behind a WebSocket upgrade
  that the server refuses (the request went to the WebSocket parser, the response to HTTP), behind
  a `100 Continue` (counted as a response), and behind an answer to HEAD (its
  `Content-Length` is read as a body, together with the next response). A granted
  upgrade is harmless. So they do behind a request of another method than the seven of `httpPrefixes`: a chunk that
  starts with one goes to no parser. And a stream whose predecessor lost its close marker inherits its counters.
* `OrderedPerWorker`: two events of a flow taken by two workers may change places, though
  `flowKey` puts them into one partition; `docs/user-guide.md:145` and `:1009` say the order within
  a flow is kept. With one worker it is.
* `StopDrains`: after a signal, events may stay in the input channel; a batch given up after
  three attempts is reported to nobody.
* `WholeMessages`: an empty MySQL packet ends the loop; an SSLRequest the server
  refuses, or a startup message not at the front, costs the rest of the chunk; so does an AUTH packet of MQTT 5 (type 15,
  which `mqtt/parser.go:64-67` does not know), with the whole packets behind it. `TopLevelOnly`: so does a
  null array in Redis. `OneEventPerLine`: a line cut in two makes two events, and
  after a cut between CR and LF the next SMTP or FTP answer is not recognised.
* `BestConfidence` leaves ties open: among parsers that tie (SMTP and FTP on `220`, FTP and POP3 on `USER`) the
  first registered wins (`registry.go:74`), so the order of registration matters, where `main.go:185-186` says it does
  not. It does take the owners of the source port before the full scan, as `registry.go:46` does; the comment at
  `registry.go:34-35` does not mention them.
* `RequiredAcks: 0` becomes 1 in `NewProducer`, though `kafka.go:23` documents 0 as "none".

### Bounds

* Channels of one slot (two in `reassembly`): the interesting cases are full, empty
  and closed, and each is reached with the fewest packets this way. With two packets
  every channel is full while its sender holds another.
* Two capture loops and two Kafka workers in the safety run, since closing after
  the last of several is what could fail; one in the liveness runs, which differ
  by who waits for whom. Workers are interchangeable, and the safety run uses that symmetry.
* `MaxBuffer = 2`, `MaxSegment = 2` units: a segment can stay below, meet or pass
  the threshold. Two incarnations of a 4-tuple show inheritance of counters.
* Four connState objects allow two incarnations, each evicted and recreated once.
* Three parsers at a time cover every tie of two together with the fallback; the port set
  has an unowned port (9) and ports two parsers claim (80, 443, 993), each with one owner or two
  depending on which of them are registered.
* The six scripts fill three units a direction, with headers of one or two units. A window of two units for the WebSocket
  Probe lets an upgrade be seen behind another request, and lets it be missed behind two.
* DNS messages of up to six bytes over {0, 1, 2, 3, pointer} with at most one question and
  one answer hold names of two labels, two pointers in a row, pointers into the header, to themselves
  and to each other, and a record of each type. Streams of three framed messages, three Redis values and
  two lines let a whole message lie between two cut ones, or next to the cut. `MaxCut = 4` units of a Redis chunk that
  begins inside a bulk string, with ints up to `MaxInt = 8`: a length may overflow by itself, only with the CR LF, only behind other
  values, or not, at top level and inside an array.
* A ClientHello has no session id or one of two units, no GREASE or one of two values, and one of four extension lists,
  with the server name alone, among others or not at all; suite 2571 and group 10 differ from a GREASE value
  in one byte, or equal an extension type. It is cut at every unit.
* In `kafka`, three faults exhaust the three attempts of one batch; two events of one flow and
  a batch size of two let both share a batch, or not.
* Three queues, a one-slot output and three packets: a failure in the middle, two loops that
  compete for the last slot, and a drop.

### Fairness

Weak fairness per goroutine: the Go scheduler runs what can run. It is on the whole
goroutine and not on single cases of a `select`, of which nothing is assumed except that one
is taken. Nothing is assumed of traffic, of signals, of capture errors, or of
`Close` being called. A Kafka write returns: the writer
bounds its attempts and their time, and the write runs under the context. In `Kafka` every produce request ends, if only by its timeout, and nothing is
assumed of its outcome. A call of `Parse` waits for nothing, so its next step is fair. In
`Capture` each poll ends after its 100 ms timeout. In `HttpConnState`, `Age` (the
TTL passes) has strong fairness, because the instant of a sweep disables it.

## Proofs

A run shows a property for the sizes of its cfg; a theorem for every value of the constants
that the named `ASSUME`s of the module allow. Each theorem about a property rests on an
inductive invariant, which TLC checked on a small instance before it was proved.

**`Pipeline_proofs`**: any packets, loops and workers, capacity and stage list.

* `TypeCorrect`, `PanicFree`, `StopKeepsContract`: `TypeOK`, `NoPanic`, `StopContract` always
  hold; `Safety`: so does `SafeInv`.

Assumed: packet kinds and goroutine kinds are disjoint, the capacity is positive (`main`
passes the configured buffer; the default is not zero), no stage is listed twice, the
dispatcher is listed, and Kafka comes before the dispatcher (`main.go` numbers
them stages 4 and 5; without it `NoPanic` is false).

`NoPanic` is not inductive: it does not say who may still send when a channel closes. `SafeInv` adds:
`NotStarted` (the goroutines of stages `Run` has not reached are idle, so starting them
cannot revive a finished one); `StoppedQuiet` (stages that `stopInReverse` has passed are
quiet); `WaitInv` (which stage is between the halves of its Stop); and `ClosedInv` (for
each channel, the senders are gone once it is closed, and the stage that closes it is
behind main's index, so it is not closed again). One lemma per group of actions shows that
each keeps `SafeInv`; main's Stop actions are the long case, where Kafka's close of `ev`
rests on the dispatcher having been stopped earlier by the order assumption.

**`Pipeline_proofs`, the refinement of Delivery**: the same constants and assumptions.

* `PacketsConserved`: `Spec => []Conservation`, and `PipelineDelivers`: `Spec => Delivers`, the
  refinement of Delivery. Both from `PacketsMove`: `Spec => []MoveInv`.

`Conservation` counts the places of a packet, which says nothing of a channel that holds the
packet twice, nor of what a goroutine overwrites when it receives. `MoveInv` has `Located` (one place
of `Spots` has the packet, and no other), `NoRepeat` (no two elements of a channel share a packet),
`HeldInv` (who is about to receive holds nothing), `EventInv` (an event is about one packet) and
`WriterInv` (closed writers imply ended workers). All steps are one of two kinds, a move of a set of packets from a
place to another or no move, and the lemmas about those carry the proof. For the refinement, each move is
then a step of Delivery or a stutter; `SafeInv` is needed for the workers that could publish late.

**`Capture_proofs`**: any number of queues and any buffer, at least as many descriptors as queues.

* `SocketsReleased` (`NoSocketLeak`), `SocketsOwned` (`LoopsHaveSockets`), `OutputClosedLast`
  (`SendsOnOpen`), from `SocketSafety` (`[]SocketInv`); `CountsExact` (`CountsAgree`) and
  `CaptureTypeCorrect` (`TypeOK`) from both.

`SocketInv` says what a.fds and the kernel's table hold at each point of Start (`SocketTable`), which loops
exist by then (`Launched`), that each has a socket of its own (`OwnSocket`) and what the closer waits for
(`CloserInv`). `CountsAgree` counts the loops at a point; its lemmas say what one loop's step does to the count.

**`Reassembly_proofs`**: any connections, threshold, segment size, capacity, number of bytes and of uses of a 4-tuple.

* `ReassemblyTypeCorrect`, `DirectionsInOrder`, `DirectionsComplete`, `MarkersLast` (`RTypeOK`, `InOrder`,
  `NothingMissing`, `MarkerLast`), from `ReassemblySafety` (`[]ReassemblyInv`).

The properties speak of `Emitted`, the channel and what was taken from it as one sequence. They do not relate it to
the buffers, so the next flush could break them. `Flushed`, the bytes of a direction that have left its
buffer, does: the buffer is the run of bytes after it (`BufInv`), every emitted chunk of the present stream
lies below it (`PastInv`), and without a drop all below it is emitted (`CompleteInv`). `StreamInv` says
what `ReassemblyComplete` has flushed so far, so that the marker finds both buffers empty.

`ChunksTile` (`[]TilingInv`) says what a reader of the channel may rely on: a chunk is a run of bytes which, without a
drop, starts where those before it ended (`Tiled`), streams of a 4-tuple come one after the other (`Generations`), and
one that is over has its marker unless that was dropped (`Marked`).

**`HttpPairing_proofs`**: `PairingRefinesReassembly` (`Spec => RSpec`) shows that dispatcher and parser do nothing to
the reassembler that Reassembly does not have, for every script; `ChunksAsReassembled` carries its four properties over to
the composition, where the `reassembly` run checks them.

* `NumberingCorrect` and `ChunksReported` (`NumberingExact`, `AllReported`), from `PairingSafety` (`[]PairingInv`): any
  scripts that `ScriptsAssumption` allows, any window of the WebSocket Probe, and the constants of Reassembly.

`NumberingExact` speaks of events, and does not say what the next event will get. `CountInv` does: if message m is the
next to arrive (`Upcoming`) on the stream whose counters are in the map (`Current`), the stream is undisturbed and
nothing before m skews the count, then the counter of the direction is m - 1. A chunk that starts with a message finds
the counter there, by `TilingInv`; `PlainChunk` shows that `Resolve` gives it to the HTTP parser, from the tables of
all fifteen parsers; `ParsedRun` that `Parse` reads exactly the messages whose headers are in it. A marker sets the counters to
0, and `Generations` and `Marked` show that the next stream has sent nothing by then. `Disturbed` only grows,
so a drop or a cut needs no argument. For the converse half of `AllReported`, `EachSourced` says that each event has a
chunk that holds its message's header, and `OrderInv` that no other chunk holds the message's first byte (`OwnSource`).

**`HttpConnState_proofs`**: any connections, objects, messages and incarnations.

* `NumberingExactUnlessEvicted` and `ConnStateTypeCorrect` (`ExactUnlessEvicted`, `TypeOK`), from `NumberingSafety`
  (`[]NumberInv`).

`ExactUnlessEvicted` speaks of events only. `NumberInv` adds where Parse is (`ParseInv`), that the objects in the
map and the one in Parse's hands are owned by one connection each (`OwnerInv`), and, for incarnations
that were not evicted, that the counters equal the messages parsed and Parse holds the object that is in the map
(`CountInv`). The janitor breaks only the last part, and only for what it has put into `evicted`.

**`Kafka_proofs`**: any configuration of workers and batch size (`NewProducer`'s defaults apply to
zero and negative ones), any traffic, partitioner, number of attempts and of faults.

* `ProducerTypeCorrect`, `FlowsInOrder`, `CopiesExplained`, `StopLeavesNothing` (`TypeOK`, `OrderedPerWorker`,
  `TwiceOnlyUnanswered`, `StopDrains`), from `ProducerSafety` (`[]ProducerInv`).

The log alone does not say what a retry will add to it. `WritersInv` does, for each writer and partition: what is yet to be sent
is the writer's own (`Owned`) and ascends (`Ascends`), and lies after all the writer has in the log, except for a batch
under way whose answer was lost (`Behind`), of which then all is in the log (`Whole`). `LogInv` has the order of first copies,
`InputInv` the order of the channel against what the workers have taken, `StopInv` what Stop has emptied behind
it, and `AllPlaced` that every emitted event is somewhere.

**`Parsers_proofs`**: any parsers and ports in the registry; for the calls of `Parse`, any number and size of messages,
lines, labels and values, any window of a stream, any bytes of a DNS message, any well-formed hello cut off anywhere.

* `ResolveBest`, `ResolveFallback`, `ResolveClaimed` (`BestConfidence`, `FallbackLast`, `NeverUnclaimed`), from
  `RegistryInv`: the list of a port is the subsequence of `all` that declares it. That is not visible from `Resolve`, which
  compares two lists `Register` keeps separately. What `bestProbe` returns, the first of those with the highest
  confidence, is a lemma of `Detection_proofs`.
* `NoOtherPanic` (`KnownPanics`), from `Inside3` and `RespSafe`: at each point of a loop, the bounds of its position that
  the checks before have established. For Redis, `ReadInside` shows that `readRESPValue` leaves the chunk only where
  the sum for some bulk string overflows, and that a chunk which begins at a unit has none (`AlignedUnits`).
* `EveryWholeMessage` (`WholeMessages`), from `FramingInv`: a turn of the loop begins at a message, and the events so far are
  those due of the messages before it (`AtMessage`).
* `EveryWholeLine` (`OneEventPerLine`), from `LinesInv`: a turn begins with the chunk or with a line, and the lines in
  front of it have their events (`Settled`).
* `NamesRead` (`NamesAsWritten`), from `NamesInv`: `decodeName` is on the trail of labels and pointers from where the name
  starts, visited is what lies behind it, or the name cannot be read (`Followed`). The reference follows the
  trail without a limit on jumps; that the loop check of the code fires only where the trail never ends is the hard part.
* `TopLevelValues` (`TopLevelOnly`), from `RespInv`: a turn of the loop begins at a value, and the events so far are those
  due of the values before it (`AtValue`). `readRESPValue` is a nested recursion, its function applied to its own
  results; that the function exists is shown first, by filling it in from the last unit of the chunk down (`ReadLoop`).
* `FingerprintAsSent` (`HelloAsSent`), from `HelloInv`: the position of `parseClientHello` is where a part of the hello
  starts (`Wire`, `ReadingHello`), and what it has is what the first i extensions give (`Gathered`): prefixes of the
  lists the client sent, whole if the last extension read is not cut off. `filterGREASE` of a prefix is a prefix
  (`FilterPrefix`).

Assumed: the fixed parts of a DNS record are natural numbers, an answer has one and a pointer is not a terminator; a header
is not empty; the code of a reply is not empty; the fallback value of Resolve is no parser's name; session ids, extension
lists, cipher suites, groups and server names are sequences of natural numbers, and no suite or group is a GREASE value; the
largest int exceeds the units of a stray Redis chunk by more than three.

Several definitions compute along their input: a loop of `Parse`, where a message starts, which names can be read. Induction
over data with an operator as parameter is out of the prover's reach, so these are recursive functions, and the lemmas of
`Detection_proofs` stand in for it: a nonempty set of naturals has a least element (`Least`), so a set that
has 0 and the successor of its members has all (`Induct`), and a recursive function on 0..n exists (`Recursion`). To
use them, what is to be shown is given as a set.

Only model-checked:

* liveness, and with it fairness and ENABLED, which the prover does not handle: `PacketsFlow`, `SignalClosesWriters`,
  `SignalStopsCapture`, `HangsOnlyInSplitter`, `NoLeak`, `Returns`, `StopReturns`, `CloseTerminates`.

## Not modelled

Header decoding and the assembler (gopacket), HTTP syntax (net/http), Kafka's writer
and brokers, and the kernel appear as nondeterministic choices. Of the parsers, what they
write into an event's fields is left out, with two exceptions: the offsets of DNS names and the
fields of a ClientHello. `Parse` of WebSocket, SSH and the fallback makes at most one
event of its chunk, without loop or state; there is nothing in it for a model to say. Malformed input
is modelled for DNS, and for Redis where a chunk begins inside a bulk string; cipher lists of odd length are outside the
models (see `hazards`).
The serializer is one call of encoding/json, whose failure is a case of Kafka's `Write`; configuration
is loaded and validated before anything runs, and its values are constants here; the Prometheus
collectors are declared and never updated; event types have no behaviour; the buffer
pool is used by nothing. `http.Parser.Close` is never called.
Loss at shutdown is possible: packets left in channels by `ctx.Done()`
are accounted for by `Conservation`, not required to be drained.

## Plan

Done: all modules above, and the theorems listed in `PROJECT.json`. Every safety property that a passing run checks is
proved for all values of the constants; liveness stays with TLC.

Left: malformed input for parsers other than DNS and Redis.
