# Formal models of node-haproxy-peers

TLA+ models of the HAProxy peers protocol implementation in `src/src/`, checked
with TLC on small instances and, for their safety properties, proved with TLAPS
for every value of their constants. Source references are
`file:line` in `src/src/`.

## The system

| Component | State it keeps | Operations | Interacts through |
|---|---|---|---|
| `PeerConnection` (`connection.ts`) | state, socket, parser, heartbeat timer, backoff | constructor, socket events, reconnect timer, `start()`, parser events, heartbeat timer | the sockets it opens, its parser's `data`/`error`, events to the application |
| `PeerParser` (`protocol-parser.ts`) | byte buffer, last table definition, last update id, dictionary cache | `_transform` and the parse methods it calls | bytes in; messages out to the listeners of either connection class |
| `StickTableStore` (`aggregator.ts`) | definitions by name, entries by name and key | `applyDefinition`, `applyUpdate`, `clearEntries`, getters | called by every inbound connection and read by `teach()` |
| `InboundPeerConnection`, `PeerServer` (`server.ts`) | handshake buffer, `established`, heartbeat timer, parser, dictionary encoder; listening server and its connection limit | handshake, message handler, `teach()`, accept, close | sockets, its parser, the shared store |
| Encoder (`encoder.ts`) | `DictionaryEncoder`: ids of the strings sent on a connection | `encode*` | its output is what a remote parser reads |
| `VarInt` (`varint.ts`) | none | encode, decode | parser and encoder |
| Types (`messages.ts`, `types.ts`, `wire-types.ts`) | none | none | shared vocabulary |
| `demo.ts`, `index.ts`, `test-proxy/`, containers | none | start a connection and log; re-export; build files | not modelled: no protocol state of their own |

There is one thread: the node event loop. Concurrency is the interleaving of
callbacks (socket events, timers, parsed messages, calls of the application),
of the remote peer and of the network. Nothing is persisted.

### What is hard, and what makes each component correct

* **Outgoing connection.** Callbacks capture `this` and read `this.socket`,
  `this.parser`, `this.heartbeatTimer`, which a reconnect replaces. Correct
  means: no timer outlives the field that can clear it, one way forward at any
  time, the hello first on every socket, a fresh parser per session, and
  recovery when the trouble ends.
* **Parser.** Chunks end anywhere; a message is resolved against state left by
  earlier frames; listeners run inside the parse loop. Correct means: what is
  pushed is what the stream means, however it is cut, and the stream is given up
  only for a reason that is in the stream.
* **Store.** Connections interleave updates under different definitions of one
  table. Correct means: an entry is the aggregate of its updates, has every data
  type of the definitions they came with, and does not move backwards.
* **Server.** Messages behind the hello in the same chunk, acknowledging before
  applying, teaching from a store that other connections change. Correct means: the
  status comes first, what is acknowledged is applied under the sender's definition,
  what is taught can be read, and failed connections leave nothing behind.
* **Encoder.** A word is spelled once and then stands behind an id, and a lesson may
  fail half way through encoding. Correct means: the receiver's cache resolves each id
  to the word meant, on one connection and over lessons that broke off.
* **VarInt.** Fields stand behind each other with nothing in between. Correct means: an
  integer is decoded as it was encoded and takes exactly its bytes, and nothing whole is
  refused.
* **The two ends together.** A client that reconnects, a server whose store other peers
  change, connections that break without a word. Correct means: a synchronization that
  is reported finished was the store of one moment, no client waits for one for ever,
  and no session stays behind at the server.

The complete list of hazards, each at its line and with the properties that
cover it, is in `PROJECT.json`.

## Modules

| Module | Models | Runs |
|---|---|---|
| `PeerConnection` | one `PeerConnection` object over all its sockets | three |
| `PeerConnectionProofs` | its safety properties, proved | |
| `PeerStream` | frames, and what a stream of them means (the abstract side) | |
| `PeerParser` (extends `PeerStream`) | the parser and the network in front of it | through `MCPeerParser` |
| `MCPeerParser` | frames and values for TLC | two |
| `PeerParserProofs` | its safety properties, proved | |
| `StickTableStore` | the store | through `MCStickTableStore` |
| `MCStickTableStore` | data types, definitions and updates for TLC | two |
| `StickTableStoreProofs` | its safety properties, proved | |
| `PeerServer` (an instance of `StickTableStore` inside) | the server, its connections with their dictionaries, and their shared store | through `MCPeerServer` |
| `MCPeerServer` | connections, tables and updates for TLC | two |
| `PeerServerTypes` | its steps told apart, its types, and the store's theorems carried over to its store | |
| `PeerServerLessons` (extends `PeerServerTypes`) | what its lessons say and how words are coded in them, proved | |
| `PeerServerProofs` (extends `PeerServerLessons`) | its safety properties, and that it implements the store, proved | |
| `Synchronization` | what a synchronization promises a client (the abstract side) | as a property of `PeerSession` |
| `PeerSession` (instances of `PeerConnection` and `PeerServer` inside) | a client and a server over connections that break | through `MCPeerSession` |
| `MCPeerSession` | connections, tables and updates for TLC | two |
| `PeerSessionProofs` | that a request is answered once, that its client is a `PeerConnection`, and that it implements `Synchronization`, proved | |
| `VarInt` | the integer codec | through `MCVarInt` |
| `MCVarInt` | integers and what follows them for TLC | one |
| `VarIntProofs` | its properties, proved | |

`PeerStream` is the abstract specification of the parser: `Means(s, m, i)` says
which message the i-th frame of a whole stream `s` stands for, and
`Understandable(s, i)` whether it stands for one, both without buffer or state.
`PeerParser` keeps the code's state, and `PushedAsSent` and `FailureExplained`
relate the two. `Synchronization` is the abstract specification of a session, which
`PeerSession` implements under the refinement mapping `Sync`.

Operators named `<definition>_<fault>` (`ClearHeartbeat_Forgotten`, ...) stand in
front of the definition they vary. Nothing uses them; each is a plausible mistake
in that code, and putting it in the definition's place makes TLC report one
property violated. `PROJECT.json` lists which (`mutants`).

### PeerConnection

| Variable | Code |
|---|---|
| `state` | `this.state` (`INITIAL` and `DEAD` are never assigned) |
| `socket` | the life of `this.socket`: connecting, open, closing (destroyed or ended, `close` not emitted), closed |
| `starter` | the `start()` suspended in `readStatus()`, by who called it |
| `heartbeatTimer`, `intervals` | whether the field is set; how many `setInterval` handles are alive |
| `reconnects` | `setTimeout` handles of the `close` listener that are pending |
| `parser` | unused, fed, or ended |
| `written` | what was written to the present socket |
| `uncaught` | an exception left a listener: the process is gone |

| Action | Code |
|---|---|
| `Ready` | `ready` listener, which calls `start(true)` (188-205) |
| `CallStart` | a call of the public `start()` (271-282) |
| `StatusAccepted` | a status line saying 200, and the rest of `start()` (284-294, 320-375) |
| `StatusRejected` | another status, or a line that is not one (295-302, 362-369) |
| `StatusIncomplete` | `readable` without a whole line (337-339) |
| `SocketError`, `RemoteEnd`, `SocketClose` | `error` listener (180-186), the end of the stream through `pipe`, `close` listener (151-173) |
| `OnParserMessage` | `onParserMessage` and the `send*` it calls (385-483) |
| `ParserError` | the parser's `error` listener (232-241) |
| `SendHeartbeat` | the interval (377-383) |
| `Reconnect` | the timeout callback (162-172) |

`await this.readStatus()` is settled inside a listener and its continuation runs
as a microtask before the next callback, so both are one action. Backoff delays are
left out: the timer fires some time. The application has an `error` listener (node
throws otherwise).

### PeerParser

A frame is a record of its class, the sizes of its header, length varint and body,
whether the body parses, and the fields that matter to later frames: table, update
id, dictionary line or reference. Bytes are counted, not spelled: the buffer starts
at a frame boundary, so `received - consumed` is its content. `PeerSend` and
`Transform(bytes)` are the remote peer and the network; `ParseMessage`,
`ListenerThrows`, `Exhausted` and `ParseError` are the ways an iteration of the loop
of `_transform` (754-789) ends. Loop iterations are steps of their own because a
listener may throw into the loop from `push()`.

### StickTableStore

`definitions` and `entries` are the two maps of the class. The sets `Counters`,
`Rates`, `Arrays`, `Dictionaries`, `Latests` are the cases of
`defaultMergeStrategy` (94-163); one operator stands for each function: `MergeRates`,
`MergeArrays`, `Merge`, `DefaultValue`, `Completed`, `Merged`. `history` is not in
the code: it records the updates an entry is made of, and the peer, which the store
is not told. A rate keeps one of its two counters, the other being added in the same
way; the elements of arrays are plain counters.

### PeerServer

The store is `INSTANCE StickTableStore` with the connections as its peers: the actions
of a connection call the store's `ApplyDefinition` and `ApplyUpdate`. What is taught is
computed from the store's variables.

| Variable | Code |
|---|---|
| `listening` | the `net.Server` |
| `phase` | a connection's socket and `established`: `none`, `hello`, `greeting` (inside `onHandshakeData` after the status), `established`, `ending` (the peer's end came, writes are pending), `destroyed`, `closed` |
| `timer` | its heartbeat interval is alive |
| `parser`, `table` | whether its parser failed and why; `lastTableDefinition` |
| `known` | its `DictionaryEncoder`: the words that have an id, an id being a word's place |
| `written` | what was written to its socket; of a taught entry `values` says what is meant and `coded` what is written for its word |
| `teaching` | how far `teach()` is: the connection, the table it is at with the keys still to be told, and the tables to come; `None` outside of it |
| `store` | whether `options.store` was given |
| `definitions`, `entries`, `history` | the store |

| Action | Code |
|---|---|
| `Listen`, `Close`, `Accept` | `listen`, `close`, `onConnection` under `maxConnections` (335-366) |
| `HelloRejected`, `HelloAccepted`, `Established` | `onHandshakeData` (159-228) |
| `OnTableDefinition`, `OnEntryUpdate`, `MergeThrows`, `OnSynchronizationDone` | `onParserMessage` (230-256) and the store |
| `Teach`, `TeachTable`, `TeachEntry`, `TeachEnd` | `teach()` (262-298): the request, then an iteration of the loop over the tables, one of the loop over the entries, and the end |
| `TeachEntry`, `TeachThrows` | `encodeEntryUpdate` and `DictionaryEncoder.encode` (`encoder.ts` 62-84), which write an entry or throw |
| `ParseFails`, `AckReceived`, `ParserError` | an exception in `_transform`, the parser's `error` listener (151-154) |
| `Heartbeat`, `HeartbeatAfterEnd` | the interval (223-225) |
| `RemoteEnd`, `SocketError`, `SocketClose` | the socket's events (142-148) |

`onHandshakeData` writes the status, feeds the parser what was behind the hello, and only
then sets the timer and emits `established`. `greeting` is the time in between, and a lesson
is the time in which `teaching` is not `None`; `Quiet` keeps every other connection still
through both, for each is one callback. A parser's `error` is
emitted when that callback is done, so a parser that fails on those messages still gets
its timer first. Why a parser failed is told apart only as far as a property does: a listener
that throws is to `_transform` what garbage is (`error`). The application is assumed to listen
to `error`. Definitions and entries
are taught in some order. `encodeEntryUpdate` throws while it goes through an entry's
values, and whether it came to the word before that depends on the order of the types:
`TeachThrows` takes both cases. The other throw of a lesson, of `encodeKey` for an address
whose length is not the key length of a redefined table (`encoder.ts:111-120`), is left out
with the bytes of keys; it breaks the lesson off as this one does, with no word registered.
`WordRead` is the receiving cache, as `PeerParser` has it.

### PeerSession and Synchronization

An action is a step of one end (`Client!...` or `Server!...`) joined with what it does to
the connection between them; the guards add what an end leaves to its environment.

| Variable | Stands for |
|---|---|
| those of `PeerConnection` | the client; its `parser` and `written` are `clientParser` and `sent` here |
| those of `PeerServer` | the server, for the connections of the client (`Sockets`) and `Feeder`, all other peers |
| `conn` | which connection is behind the client's present socket |
| `inbox` | of each connection, what the client wrote and the server has not handled |
| `read` | how much of `written[conn]` the client has handled |
| `lesson` | not in the code: what the store held when `conn` was taught; `{}` before, then a set of that one value |

| Actions | Steps |
|---|---|
| `Connect`, `ReadStatus`, `ReadPartOfStatus`, `Read`, `ReadEnd` | `Ready`, `StatusAccepted`, `StatusIncomplete`, `OnParserMessage`, `RemoteEnd` of the client, when the bytes for them are there |
| `ClientSocketError`, `ClientListenerThrows`, `ClientSocketClose`, `Reconnect` | the same of the client; `Reconnect` takes a connection that both ends are done with as a new one, so that reconnects are unbounded |
| `Listen`, `Accept`, `Refuse` | the server takes a connection, or node drops it at `maxConnections` |
| `ServerReads` | `HelloAccepted`, `Teach` (which starts the lesson), `AckReceived`, or a message that changes nothing, for the first message of `inbox`, also of a connection the client has left |
| `ServerCallback` | the steps of a lesson (`TeachTable`, `TeachEntry`, `TeachThrows`, `TeachEnd`), `Established`, `ParserError`, `HeartbeatAfterEnd` |
| `ServerReadsEnd`, `ServerSocketError`, `ServerSocketClose` | the other steps of a connection of the server |
| `Feed` | a definition or an update of another peer reaches the store |

An end that is gone is noticed by an end of stream, an error, or only by a heartbeat that
is not answered (`ClientHeartbeatUnanswered`, `ServerHeartbeatUnanswered`); which of these
happen is open. Left out: heartbeats that arrive, a hello the server rejects, `start()` and
`close()` called by the applications. They are in the modules of the ends.

`Synchronization` has no sessions or messages: `Ask`, `Answer` (the lesson is the contents
of that moment), `Tell`, `Finish` (only when all was told), `Break`, and a store that changes
at any time. The mapping takes the client's session for the phase, `Contents` for what the
store shows under its definitions, and for what was learned the entries the client has read,
each under the table definition that was last before it and with the word that its cache
gives. `Answer` is the server's `Teach`, and what it promises is the store of that moment; the
lesson is then told message by message, and the client reads a message at a time, while
`Feed` changes the store after the lesson.

### VarInt

`EncodeShort`, `EncodeFirst`, `EncodeContinue`, `EncodeLast` are the branches and iterations
of `encode` (75-100), `DecodeShort`, `DecodeFirst`, `DecodeContinue`, `DecodeThrows` those of
`decodeBigInt` (43-67). `Deliver` stands between them: a chunk that ends among the bytes, or
has them all and something behind. `left` keeps the values that `encode`'s `value` has had,
for the proofs; `weight` is 2 to the power of `shift`, and bit operations are divisions.

## Runs

| Run | Question | Bounds | Result |
|---|---|---|---|
| `peer_connection` | do the fields stay consistent through any sequence of callbacks, and does it come back once outages stop? | 4 messages per socket, unbounded reconnects | holds |
| `handshake_uncaught` | does a failed handshake reject `start()`? | 3 messages | violated |
| `handshake_silent` | does a handshake always end? | 3 messages | violated |
| `peer_parser` | are messages what the stream means, are failures explained, is every frame parsed in the end? | 4 frames of 9 kinds, every cut | holds |
| `parser_chunks` | is an incomplete message always kept? | 2 frames | violated |
| `stick_table_store` | are entries aggregates, complete, monotone? | 4 updates of 6 kinds, 3 definitions, 2 tables, 2 keys | holds |
| `store_repeats` | is a counter the sum over the peers? | 2 updates, 2 peers | violated |
| `peer_server` | do replies, timers and the store agree with what peers sent, and can what is taught be read, words included? | 2 connections, 3 messages written to each, 2 updates, 2 definitions of one table | holds |
| `server_teach` | are lessons whole? | 2 tables, 1 update | violated |
| `peer_session` | is a request in one place or answered once, is a finished synchronization one moment of the store, does every one end, do sessions end at the server? | 2 connections at a time, 1 update, 2 definitions of one table, unbounded reconnects | holds |
| `session_acks` | may a taught client acknowledge? | as `peer_session` | violated |
| `varint` | are integers decoded as encoded, and refused only when cut short? | 0, 2^31 - 1, and 4 integers around each of the 4 boundaries, every cut, 3 tails | holds |

Why the bounds are enough:

* `MaxWritten` only limits replies and heartbeats on one socket. Two messages
  separate every case of `HelloFirst`; four leave room for replies and heartbeats in
  either order. Sockets, sessions and reconnects are not bounded.
* Four frames hold the longest dependency of the parser, definition, line,
  definition of another table, reference (or explicit id, two increments), with an
  error or another message in any place. Length varints of one and two bytes give
  cuts before and inside a length.
* Four updates hold: two that merge, one under a narrower or wider definition between
  them, and one more sample; a cleared table starts again.
* Two connections are one that changes the store and one that reads it or changes it
  otherwise. Three messages per connection are the status and two replies, a whole lesson
  counting as one, so that two updates or two lessons follow each other on one
  connection, and the second refers to words of the first. Permuting the connections is
  sound in this run, which checks invariants only; the runs with liveness do without.
* `peer_session`: two connections are the one a client has left and the one it is on; both
  may be established at the server at once, with messages of the old one still to be
  handled. One update and two definitions make the store empty, holding an entry with its
  word or without it, or one that cannot be taught, and turn each into the others between
  any two messages of a lesson. `MaxWritten` (8) is more than a session with one entry
  writes at either end, so the guards it stands in never close. As `MaxConnections` is 2,
  `Refuse` stands for the places that other peers take.
* `varint`: an integer's bytes change in number only at the four boundaries; TLC's integers
  end at 2^31, the proofs' do not.

### What the violated runs show

Each checks what a comment of the code says, and fails because of what the code does.

* `handshake_uncaught`: `readStatus` promises a promise (`connection.ts:323`), but a
  status line that comes in two segments makes the `readable` listener throw outside
  it (338): the process dies of an uncaught exception.
* `handshake_silent`: the `timeout` listener destroys the socket
  (`connection.ts:207-211`), but nobody calls `socket.setTimeout`, so a peer that
  does not answer the hello is waited for for ever.
* `parser_chunks`: the comments promise `null` for an incomplete message
  (`protocol-parser.ts:130`, `243`, `391`), but the length is decoded before anything
  says that it is there (260, 420), and `VarInt.decode` throws.
* `store_repeats`: values to merge "originate from different peers"
  (`aggregator.ts:41`), but a peer's own second update is added to its first.
* `server_teach`: `teach()` "replays the current store contents" and "signals that the
  full sync is complete" (`server.ts:259`), and every entry has "a value for each data
  type in its table definition" (`aggregator.ts:184`). But refreshing a definition
  (`aggregator.ts:245`) leaves the older entries behind, `encodeEntryUpdate` throws on
  them (`encoder.ts:288`), and the peer that asked is disconnected half way through the
  lesson, every time it asks.
  The same property (`LessonsAreWhole`) has a second counterexample, when two peers define
  a table's array with different lengths (`Definitions <- TwoSizes`,
  `Updates <- SizeUpdates` in the cfg):
  `encodeValue` writes all the items of a stored array
  (`encoder.ts:154`), the parser reads as many as the definition says
  (`protocol-parser.ts:662`).
* `session_acks`: the store is "served back to peers that synchronize" (`server.ts:330`).
  This library's own client acknowledges what it is taught (`connection.ts:475`), and
  `parseUpdateMessage`, the server's parser as well, throws on an acknowledgement (234).
  The run is the composition of the two: the exchange needs no other peer's software.

### Fairness

* `LocalFairness` of `PeerConnection`: node emits `close` for a destroyed socket,
  runs due timers, and a connection attempt succeeds or fails: weak fairness of
  `SocketClose`, `Reconnect` and the end of a connection attempt.
* `RemoteFairness`, only for `Recovers`: a peer that accepts the hello in the end.
  `Recovers` assumes, in its left-hand side, that outages stop; without that no
  implementation recovers. `handshake_silent` is checked without it: a silent peer is
  allowed there.
* `FairSpec` of `PeerParser`: bytes under way arrive, and the loop of `_transform`
  does not suspend. Nothing is assumed of what is sent or of listeners.
* `FairSpec` of `PeerSession`. `ClientProgress` is weakly fair: what has arrived is handled,
  and if the server no longer has the connection a heartbeat notices in the end; the interval
  of three seconds never stops in an established session (`connection.ts:290`). For each
  connection of the server `ServerProgress` is strongly fair: its callbacks, what has arrived
  for it, its `close`, and a heartbeat into a connection the client no longer has. Weak
  fairness would not do, because a callback is enabled only between those of other connections
  (`Quiet`), which may come and go for ever; node's event loop serves them in turn. Nothing is
  assumed of the network otherwise, of ends of streams, of listening, accepting or reconnecting.
  A hello that never comes is waited for: `SessionsEnd` speaks of established sessions and of
  sockets that are over, because before that the code has no timer.

## Proofs

Each proof module extends its component's module and proves `Spec => []IInv` for an
inductive `IInv`, then the properties from it. The assumptions are the modules'
`ASSUME`s: the bounds are naturals, frames and updates are well formed, the kinds of
data types are disjoint, `None` is no table or lesson and `Null` no word, and there is one dictionary
type (the code has one, `SERVER_KEY`).

* `PeerConnectionProofs`. `IInv` is `TypeOK`, `FieldsAgree`, `HeartbeatOwned`,
  `OneLifeline`, `HelloFirst`. None is inductive alone: `StatusAccepted` keeps
  `HeartbeatOwned` only because no timer is set before a session, which
  `FieldsAgree` says; a heartbeat keeps `HelloFirst` only because a live interval
  implies an established state. `FreshParserPerSession` follows because only
  `StatusAccepted` establishes a session, from `starter # "none"` and `FieldsAgree`.
* `PeerParserProofs`. `IInv` says that `ends` holds the frame boundaries, that
  `lastTableDefinition`, `lastUpdateId` and `dictionaryCache` are what the parsed
  prefix means (`TableIs`, `IdIs`, `WordIs`), and that a failed parser stands before a
  frame. Lemmas show that the meaning of a prefix does not change when the stream
  grows and how it changes by one frame (`TableStep`, `IdStep`, `WordStep`);
  `AcceptStep` puts them together, `ThrowExplained` gives `FailureExplained`.
  `NothingHeldBack` is inductive on top of it (`HeldBackStep`): the loop ends without an
  error only when the buffer is empty or a frame is incomplete, and the sizes of frames are
  positive.
* `StickTableStoreProofs`. `IInv` is `TypeOK` and `CompleteForItsUpdates`. The lemma
  `UpdatedEntry` says what `Completed(Merged(old, new), d)` is: well typed, on all
  the data types of all three, and nowhere behind `old`; `UpdateStep` says what
  `ApplyUpdate` does one name and key at a time. `NeverBackwards` is an action
  property from the same invariant.

  `CompleteForItsUpdates` counts the types of an update's values with those of its
  definition: `applyUpdate` takes both, and the store does not compare them.

  `EntriesAggregateHistory` is inductive on top of it: without it the first value of a type
  could be merged into nothing although earlier updates had that type. Its sums are
  folds over sets. `SubsetInduction`, from the well-foundedness of strict subsets, gives
  `TotalIs`: a sum is the number of pairs of an argument and a unit of its value; so one more
  argument adds its value (`TotalAdded`). One lemma per kind of data type then says what one
  more sample makes of the aggregate (`CounterSample`, `RateSample`, `ArraySample`,
  `WordSample`, `LatestSample`), and two say why defaults never show: a default is what no
  samples amount to (`DefaultAggregates`), and merging into it gives the value merged
  (`MergedWithDefault`).
* `PeerServerTypes`, `PeerServerLessons`, `PeerServerProofs`. The steps are told apart once
  (`Steps`, `ParserStep`, `Tells`), and each clause of `IInv` has a lemma that says
  how those steps keep it:
  * `Types` and `MidLesson`: a lesson under way belongs to a receiving connection, and the
    tables and entries it has still to tell are in the store. Without the second, `TeachEntry`
    could read an entry that is gone.
  * `Messages`: a message written is one of the server's, for `TypeOK`.
  * `Greeted`: a connection before the hello has written nothing, one past it has its status
    first and successful. `StatusFirst` alone is not kept by `HelloAccepted`, which needs the
    first half.
  * `TimersEnd`, `UpdatesUnderOwnTable`, which are inductive with the types.
  * `AllAcked`: `AckedIsApplied` with ranks in place of filtered sequences. The acknowledgements
    of a connection for a key, and its updates in that key's history, are two sets of places;
    `RankGrows` says what one place more does to a rank, so that the n-th of one is compared
    with the n-th of the other. A merge that throws leaves one acknowledgement more, and ends
    the connection.
  * `LessonsRead`: an entry is preceded by its own table's definition with no other in between,
    and has exactly that definition's types; during a lesson the last definition told is the
    one the next entry is encoded under.
  * `WordsKept`: every id of the dictionary was introduced with its word before it was used
    alone, so the receiver's cache gives the word meant. A lesson that breaks off after a word
    was registered and before it was written would leave an id that was never introduced;
    the connection's parser has failed then, and nothing more is taught on it.

  What is proved of the store is carried over by a second instance of it: the two instances
  have the same definitions (`SameNext`, `SameAggregates`), so the store's lemmas apply to the
  server's steps. `KeepsAStore` is the refinement: whatever the connections do to the store is a
  behaviour of `StickTableStore`. `StoreNeverBackwards`, `StoreComplete` and `StoreAggregates` are
  the store's own properties for the server with all its connections.
* `VarIntProofs`. The invariant ties each value of `encode`'s loop to its byte and the next
  value (`FirstByte`: `int = bytes[1] + 16 * left[1]`; `Chain`:
  `left[k] = bytes[k + 1] + 128 * left[k + 1]`), and says of `decodeBigInt`'s loop that
  `val + weight * left[consumed] = int`: what is decoded and what is left make up the
  integer (`Decoding`). The steps of the loops are the induction, so that none over data is
  needed.

* `PeerSessionProofs`. `PeerSession` instantiates `PeerConnection` and `PeerServer`, this
  module their proofs. The definitions of the two instances are first shown to be the same
  (`SameClient`, `SameCallbacks`, `SameLessons`, ...), so that the ends' step lemmas apply.
  Besides what the ends assume, there is at least one connection and `Feeder` is none
  (`SessionAssumption`). `IInv` is:
  * `ServerInv`: the parts of the server's invariant that the client relies on
    (`Types`, `MidLesson`, `TimersEnd`, `Greeted`, `LessonsRead`, `WordsKept`). Three steps of a
    session are none of `PeerServer`: `Feed`, `Refuse` and `Reconnect`, which forgets old
    connections. That a forgotten one has no timer and no lesson (`UnusedAre`) needs `TimersEnd`
    and `MidLesson`. `CP!IInv` is the client's own.
  * `AllFine`, `Delivery`: the server says only what a client expects of it, nothing is read
    that was not written, and the session begins with the first message read.
  * `AskedOnce`: at most one request is under way on the client's connection, and while it is
    there is no lesson. Without it a second lesson could follow on the connection, and
    what the client learned would be of two moments.
  * `TaughtWell`: while a lesson goes on, what was told and what is left to tell (`ToTell`) are
    together the store of the moment of the request; when its end is told nothing is left, and
    nothing is said after it. A step of the lesson moves one entry from one part to the other
    (`TaughtTable`, `TaughtEntry`, `TaughtEnd`), one that throws ends it, and no other connection
    or peer has a step in between (`MidLesson`, `Quiet`).
  * `SelfStarted`, `Owed`: the session was started by the `ready` listener, so it asks; and as
    long as the server's end is there and its parser works, the request is on its way, its lesson
    goes on, or the end is written (`InHand`). A step that takes one of the three away puts the next
    in its place (`HandlingKeepsInHand`, `TeachingKeepsInHand`), or costs the server's end.

  `RequestAnsweredOnce` is the first theorem from it: `Owed` says that there is one of the three,
  `AskedOnce` and `TaughtWell` that there is not a second. It is the safety part of
  `SynchronizationSettles`: a client that waits is owed something, or the server's end is gone
  or has failed.

  `SessionSynchronizes` is the refinement, by the kind of step: reading the status is `Ask`, the
  server handling the request is `Answer`, reading an entry is `Tell`, reading the end is `Finish`,
  leaving the session is `Break`, and the others leave what is learned alone. `FactIs` is where the
  server's theorems come in: an entry that the client reads under the last definition, with the word
  its cache gives, is the entry that was meant (`LessonsReadable`, `LessonsResolve`).
  `ClientIsPeerConnection` says that the session is one of the environments that
  `PeerConnectionProofs` speaks of. That the server is a `PeerServer` is not claimed: its store
  is fed by other peers.

Only model-checked: the liveness properties (`Recovers`, `AllParsed`,
`SynchronizationSettles`, `SessionsEnd`), which are beyond the prover.

## Not modelled

Names, wording and logging; the bytes of keys and values inside a frame beyond whether they
parse, and of table definitions (pure conversions); backoff delays; expiry; the widths of
sums and update ids, which the code does not reduce; the handshake's text; TLS; the demo and
container files.

## Plan

In this order:

1. Refinements: an abstract connection life cycle implemented by `PeerConnection`, an
   abstract message stream implemented by `PeerParser`, with the steps proved.
2. Larger sessions: two keys, a client that calls `start()` itself, a server that is closed
   and listens again.
