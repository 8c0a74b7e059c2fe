# ESPHap: specifications

ESPHap turns an ESP32 or ESP8266 sketch into a HomeKit accessory. A controller
(a phone, a home hub) pairs once with a setup code, opens encrypted sessions with
its pairing, reads and writes characteristics and is told when they change. This
directory models that server in TLA+, checks small instances with TLC and proves
some of the results for every instance with TLAPS.

All paths below are relative to the repository.

## 1. The system

| Component | Code | State | Operations | Talks to |
|---|---|---|---|---|
| Event queue | `cQueue.c`, `cQueue.h` | record array, `in`, `out`, `cnt`, discipline, overwrite mode | init, kill, flush, push, pop, peek, peekIdx, drop | one queue per client of the ESP8266 server |
| Pairing storage | `storage.c` | the image `ex_storage`: header (magic, accessory id, key) and `max_pairing` slots | reset, init, save and load of id and key, add, update, remove, find, iterate, compact | calls `on_storage_change` after every change |
| Pairing file | `hapfilestorage/hapfilestorage.hpp`, `homeintegration.c:145` | one SPIFFS file | rewritten on every change, read at start | the storage image |
| ESP8266 server | `arduino_homekit_server.cpp` | eight cached client contexts, linked list, `nfds`, `paired`, pairing context, prepared pairing context | accept, serve, pair setup M1-M5, pair verify V1-V3, pairings add/remove/list, characteristics, delayed close | storage, accessories, queues; one Arduino loop |
| Framing and HTTP | `arduino_homekit_server.cpp`, `http_parser.c` | one read buffer and one parser for all clients, two nonces and an error flag per client | read, decrypt, parse, encrypt, write | sockets, the handlers |
| ESP32 server | `server.c` | the same with `select` and FreeRTOS queues, contexts partly from the heap | the same, immediate close | its own task; the sketch runs in another one |
| Accessory database | `accessories.c`, `types.h` | ids, values, callback lists | init of ids, look-up, notify, add, remove and clear callbacks | both servers, the sketch |
| TLV codec | `tlv.c` | a list of values; a lent buffer | add, format, parse, free; malloc and free in the buffer | pairing handlers |
| JSON writer | `json.c` | state, nesting, buffer | start and end of objects and arrays, values, flush | characteristics handlers |
| Query parameters | `query_params.c` | none | parse, find | GET handlers |
| Accessory construction | `homeintegration.c` | the services and accessories of the sketch | `hap_add_*_service`, start | before the server starts |
| Platform, crypto, mDNS, vendored parsers, web pages, examples | the rest | | | see section 8 |

`port_x.h` selects `arduino_homekit_server.cpp` for the ESP8266 and `server.c` for
the ESP32; `serverA8266.c` is a copy that is compiled out. `EX_STORAGE_CHAR` is
defined on both, so the storage is the image in RAM and the flash variants of
`storage.c` are not compiled.

### What is hard

* *Power loss and restart.* The image reaches the file in several steps: a format and
  two saves at the first start, an added and an erased slot in an update, three steps
  in a compaction. The rewrite of the file is itself not atomic.
* *Long legal sequences.* Slots are never reused before the table was filled once;
  erased slots, duplicate records and the compaction appear only after many pairings.
* *State copied and used later.* A session keeps the slot number and the permissions
  its pairing had at pair verify.
* *A resource with an owner that may vanish.* One pairing context exists; its owner may
  be marked, closed five seconds later, or just leave.
* *State shared by clients.* One buffer and one HTTP parser serve every connection, and
  a request may arrive in frames and pieces of any size.
* *Order.* The ESP8266 pops the newest event first and merges; the ESP32 keeps the order
  but drops what finds the queue full, and its writers overtake what is queued for them.
* *Two tasks* (ESP32 only). Each stores a value first and notifies later, with pushes that may
  block, so the other may store and notify a newer one in between. The sketch's task walks
  callback lists and pushes events into queues that the server's task changes and frees.
* *Boundaries.* Chunks of exactly 255 bytes, a JSON buffer that is full in the middle of
  a name, a query that ends with an empty name, ids chosen by the sketch among ids given
  by the library.

### What makes each component correct

* Queue: a bounded buffer, whatever the order of the operations (`ImplementsBuffer`).
* Storage: a request changes the pairing it names and no other (`OneDeviceChanges`) and does
  what it reports (`SuccessIsEffective`), a power loss takes no pairing away
  (`LossKeepsPairings`), pairings never outlive the identity they were made with
  (`IdentityKeepsPairings`), and wherever a first start was cut off, the server comes up with
  a whole identity and it is the stored one (`AnnouncedIsStored`; the ESP8266 does not keep
  that, see `ExistingIdentity`).
* Sessions: bookkeeping of contexts agrees (`ListOK`, `Esp32ListOK`), one pair setup at a
  time (`SetupExclusive`, `SetupOwned`), sessions end with their pairing
  (`RemovalEndsSession`), marked clients are closed (`MarkedIsClosed`), an abandoned setup is
  released (`SetupReleased`, `SetupFreed`).
* Framing: a handler sees the request its client sent and no byte of another
  (`ServedAsAsked`), the wire stays in order (`WireInOrder`), a connection ends for reasons of
  its own (`ClosedForOwnReasons`), requests that the decryption can take are served and departures
  noticed in the end (`ServedInTheEnd`, `LeftIsNoticed`).
* Events: closed clients hear nothing (`ClosedHearsNothing`, `ClosedIsQuiet`), the newest queued
  event is the current value (`NewestIsCurrent`), and nothing pending means informed
  (`InformedOfChanges`, which the ESP8266 does not keep; `InformedOtherwise` says when the
  ESP32 does).
* Updates: whatever the mixture of items, the statuses tell what became of every value and
  subscription (`StatusesTell`), an accepted item is what every other subscriber hears
  (`WritersInform`), once (`SubscribedOnce`).
* Codecs: what is formatted fits and is read back (`BufferHolds`, `RoundTrip`, `ParseEnds`),
  what is written is JSON (`AlwaysJson`, `EndIsComplete`), a query means what its grammar says
  (`QueryUnderstood`), scratch blocks are disjoint and die with their handler (`BlocksAreSafe`).
* Construction: every declared service is offered once (`EveryServiceOffered`) and every
  characteristic is reached by its ids unless the sketch chose one that was taken
  (`EveryoneIsFound`).

## 2. The modules

| Module | Models | Remarks |
|---|---|---|
| `BoundedBuffer` | what a queue promises | abstract specification: a sequence and a result |
| `EventQueue` | `cQueue.c` | the ring; `INSTANCE BoundedBuffer` with the sequence computed from `in` and `cnt` |
| `Lists` | the linked lists of clients and callbacks | what is left of a list when elements were unlinked |
| `PairingTable` | `storage.c` | pure operators: an image goes in, a set of *outcomes* comes out |
| `PairingStorage` | storage, file, restarts, the requests that change pairings | one action per request, and one power loss for each |
| `Esp8266Sessions` | `arduino_homekit_server.cpp` without characteristics | extends `PairingTable` and `Lists`: handlers call the storage operators |
| `Esp8266Events` | values, subscriptions and notification on the ESP8266 | uses the bounded buffer that `EventQueue` implements |
| `Framing` | bytes to requests and answers to bytes on the ESP8266 | buffer, parser, frames, pieces, short writes |
| `Esp32Sessions` | `server.c` without characteristics | extends `PairingTable` |
| `Esp32Events` | values, subscriptions and notification on the ESP32 | the sketch's task and the server's task interleave, between a store and its notification too |
| `CharacteristicUpdates` | PUT /characteristics of the ESP8266 | several items, their statuses, setters that notify |
| `Accessories`, `HomeIntegration` | ids and look-up; services and accessories of a sketch | before the first request |
| `TlvCodec`, `ScratchAllocator` | `tlv.c` | lists against what a receiver can tell of them; the lent buffer |
| `JsonStream` | `json.c` without `json_uint64` | the other calls in every state, against JSON said of the text alone |
| `QueryParams` | `query_params.c` | one round of the loop at a time, against the grammar |
| `*Proofs` | | the TLAPS proofs, see section 4 |
| `MC*` | | the constants of the instances TLC checks |

Where several parts do not touch each other, one run checks their *sum*: the MC module
extends them all, a variable `subject` says which part a behaviour is about, and
the others stand still. `MCEsp8266Events` is the sum of `EventQueue` and `Esp8266Events`,
`MCEsp32` of the two ESP32 modules, `MCRequests` of the seven small parts.

### How the models correspond to the code

**EventQueue.** Variables are the fields of `Queue_t`; each action is the function of the
same name. `Current` is the cell that pop, peek and drop address. Initialisation may fail
(malloc) and leaves the queue dead. A record is one value; the record size and the byte
copy are abstracted. Operations on a dead queue dereference a NULL array: no caller does
that and no action does.

**PairingTable.** An image is `[magic, id, key, slot]`. A slot is `Blank` (0xff bytes),
`Erased` (zero bytes) or a record. A call of `storage.c` is a set of outcomes: the images
that it hands to `on_storage_change`, in order, and the code it returns. Writing the
images down in order is what makes a power loss at any of them expressible. Two pieces of
undefined behaviour are choices: `homekit_storage_reset` copies an uninitialized array
over the magic (it may be the magic), and `compact_data` writes two megabytes past its
buffer (the CPU faults and nothing reaches the file, or the write is lost).

**PairingStorage.** `ram` is `ex_storage`, `file` the SPIFFS file. A request applies one
outcome to both. `Interrupted` picks any prefix of its images, and with `TornWrites` a
removed or partly written file. `granted` is the set of live admin sessions with the slot
they remember. `Regenerates` tells the identity handling of `server.c` (TRUE) from that of
`arduino_homekit_server.cpp` (FALSE). Identities are numbered; `MaxIdentity` bounds how
many can be told apart.

**Esp8266Sessions.** `phase` and `todo` are the place in a pass of
`homekit_server_process`: accept at most one client, serve each linked client once, close
the marked ones. Controllers leave and delays pass between any two steps. A context has
the fields of `client_context_t` that the control depends on; `timer` abstracts
`disconnect_ms` to not set, in the future, passed. `owner` is the client of
`server->pairing_context`, `preinit` the prepared context: absent, ready, or spent after
M3 freed its public key. `Reset` says field by field what `client_context_free` resets:
everything but `permissions`.

**Esp8266Events.** `homekit_characteristic_notify` is the function of `accessories.c` with
`client_notify_characteristic` as its callback. `Coalesced(Popped(q))` is the loop of
`homekit_server_process_notifications`. `view` is not in the code: it records what a
subscribed controller was told last, by an event, a read or its own write.

**Framing.** A byte is known by where it comes from: byte *b* of the frame with nonce
*a*, or byte *b* of request *a*. So a parser or a decryption that gets the bytes of another
client, a stale rest of the buffer or ciphertext is seen to. `Read` is one turn of the loop
of `homekit_client_process`; `work` is the call between two turns. `Required` is the size
`client_decrypt_` computes from the length of the read, `Decrypts` its loop, which puts every
chunk at the *start* of its output, two bytes into the buffer that it reads. A failed
decryption has counted its nonce already. `Execute` is what `http_parser_execute` does with a
payload: the head must be right byte by byte, the body is counted, what follows a
complete request kills the parser, and a dead parser takes nothing. `EndOfCall` makes the
parser anew; the early returns do not. `Send` writes frames whose nonces advance whatever
becomes of them. Handlers, URLs and the contents of bodies are left out: `served` lists
the requests that reached one. `InFrames` and `Decryptable` are not in the code: they say which
encrypted requests came in several frames and which the decryption has room for.

**Esp32Sessions.** Like `Esp8266Sessions`, with the differences of `server.c`: contexts beyond
the cached ones come from the heap, with permissions that are whatever was there; a
marked client is closed in the same pass; there is no prepared pairing context. After
the removal of a pairing its id is read from freed memory (`IdAfterFree`): the id, the NULL
of a free list, or a pointer. The dispatch of `server.c` (lines 3042-3084) calls the handler of
a path whether the connection is encrypted or not; the ESP8266's (line 3331) looks at
`encrypted` first. The guards `encrypted` and `~encrypted` of `Esp32Sessions` are therefore the
controllers' behaviour, who send each request on the kind of connection it belongs to: what
the ESP32 does with a request in the clear that belongs on an encrypted connection, or with a
pair setup on an encrypted one, is not in the model.

**Esp32Events.** One characteristic, whose changes are numbered. The steps of the sketch's task are
`SketchStores` (it assigns `ch->value`), `SketchCalls` (it reads the value again for the call of
`homekit_characteristic_notify`), `SketchStarts` (that reads `ch->callback`) and `SketchNotifies`, one
callback at a time; `sketch` is its place. Those of the server's task in an update are
`UpdateStores`, `UpdateNotifies`, again one callback at a time, and `UpdateResponds`; `server` is its
place, and its other actions wait until the update is through. Between any two of these the
other task goes on: a push may block for ten ticks. `Subscribed` is the set that a walk
from `head` along `next` comes to. `raced` and `excused` are not in the code: they record that
the server changed the list under the sketch's notification, and that an event for a client was
dropped, or an older value came to it behind a newer one, as its own write or as an event.

**CharacteristicUpdates.** `ProcessItem` is `process_characteristics_update` for one item: the
checks in their order, the conversion, the setter or the assignment, the notification, then
`ev`. A JSON value carries what cJSON leaves in `valueint` and `valuedouble`. `heard` lists the
events pushed by the running request; `before` is not in the code, it records values and
subscribers as they were when the request began. This is `arduino_homekit_server.cpp`. In
`server.c` a boolean for an integer is read from `valueint` (line 2407), which cJSON sets; a value of
format data is neither handed to a setter nor stored, but subscribers are notified (lines
2553-2602); and the list of statuses begins without its outer object and array.

**HomeIntegration.** Services come by `hap_add_*_service` (the base accessory), by
`hap_add_*_service_as_accessory` (an accessory of its own, with one to three services behind
its information) and by `hap_add_accessory` (a list that the sketch put together, which may be
empty and need not begin with an information service). `given` is not in the code: it records
those lists.

**Accessories.** `Shapes` is what a sketch may declare, as the list of elements in the order of
the loops. `Collides` tells an id that the sketch chose from an earlier equal one, whether
chosen or counted.

**TlvCodec, JsonStream, QueryParams, ScratchAllocator.** The actions are the functions or the rounds
of their loops. A chunk ends at `Chunk` instead of 255, the JSON buffer at `Size`, strings and
numbers are runs of one symbol. `json_uint64`, which nothing calls and which passes on the
length of its number negated, and floats that are no number are left out of `JsonStream`.

Assumed of the surroundings: a controller follows the protocol (it sends M3 after the
answer to M1, and so on), has one device id, one key and one address; outside `Framing` a
request arrives whole and socket writes succeed; malloc succeeds outside `q_init` and
`tlv_parse`; a cryptographic call fails where the code returns an error. A CPU fault is a power
loss that leaves the file as it was.

## 3. The runs

`tlc -config X.cfg M` for each row; times are for two workers.

| Run | Instance | Shows |
|---|---|---|
| `MCPairingStorage` | 2 controllers, 3 slots, 2 permissions, torn file writes; 76 thousand states | requests and power losses touch only their own pairing while a blank slot is left; a reported success is one; the announced identity is whole and stored, and pairings go with it, wherever a start was cut off (ESP32) |
| `MCEsp8266Sessions` | 2 controllers, 2 contexts, 2 slots, admins only; 5.9 million states, 1.5 minutes | types, list and count, exclusive setup, removal ends sessions |
| `MCEsp8266Live` | 1 controller, 2 contexts | marked clients are closed, setups released |
| `MCEsp8266Events` | queue: 3 cells, 3 records, all disciplines and modes; events: 2 clients, 2 characteristics, 3 values, queue of 3; 813 thousand states | index consistency and refinement of `BoundedBuffer`; stale callbacks, newest event is current |
| `MCFraming` | a client in the clear and an encrypted one, 3 shapes of requests, frames of up to 5 bytes between a length of 1 and a tag of 1, all cuts, one event; 426 thousand states, 2.5 minutes | what reaches the handlers and the wire, why connections end, service and departures |
| `MCEsp32` | sessions: 2 controllers, 1 cached and 1 heap context, 1 slot; events: 2 clients, queue of 2, 5 changes; 746 thousand states | the ESP32's bookkeeping and setups; information of subscribers by two tasks |
| `MCRequests` | sketch of 7 services, 3 shapes of accessories with chosen ids up to 3, scratch buffer of 24 bytes, chunks of 2, JSON buffer of 4, all queries of 5 characters, updates of 2 items by 2 clients; 393 thousand states | the parts of requests and responses |

**Why these bounds are enough.** A ring of three cells has a first, a middle and a last
index, can be full after a wrap and hold two records on both sides of the end. A table
of three slots holds two controllers and a duplicate, or a gap between two records, which
is what compaction and duplicates need. Two contexts are enough for a controller that
connects again while its old connection waits for its close, for a full server, and for
two setups that compete. Three values and a queue of three let one characteristic change
twice while its queue overflows. In `MCEsp8266Sessions` the permission is always admin:
the properties of that run do not depend on it. In `MCFraming` the three shapes are
a frame with head and body, a frame that is full, so that the margin refuses it, and two
frames that fit the buffer together, so that a read may return both; two connections are
enough for one to meet what the other left in the buffer and the parser, and pieces of every
size occur. Values of up to four bytes with chunks of two are empty, shorter than a chunk, a full
chunk, one more, and two full ones. A JSON buffer of four bytes is flushed at every place of
a text of nine symbols, in objects and arrays nested to a depth of two. Queries of five
characters hold two parameters with a repeated name, an empty value, or a `#`.

**Fairness.** `FairSpec` of `Esp8266Sessions` says that the loop goes on (the sketch calls
`arduino_homekit_loop` for ever) and that a started delay passes (`millis()` advances).
`Esp32FairSpec` says that the task of `homekit_run_server` goes on: its `select` returns after a
second at the latest. `FramingFairSpec` is strong fairness of the server's step for each
client: a pass processes every client of the list, so that none is passed over for ever while
another one is busy (its step is disabled in between, while a call for the other client
runs). `tlv_parse` is a loop and runs on. Nothing is assumed of controllers, who may
connect, send and leave for ever or never; so `SetupReleased` and `SetupFreed` are about a
controller that left. One that stays connected in silence holds the pairing context as long as
it likes: the code has no timeout.

`CHECK_DEADLOCK FALSE` is in the configurations of `MCFraming`, `MCRequests` and `MCEsp32`: a parser
ends with its text, a sketch is built once, and the bounds on requests and changes end the rest.

### What the code does otherwise than it says

Each of these is a run that TLC ends with a counterexample; `PROJECT.json` quotes the line.

| Run | Statement | What happens |
|---|---|---|
| `MCPairingIdentity8266` | "Using existing accessory ID" | power loss in the first start: no id, a fault at every start from then on |
| `MCPairingCompact` | compaction keeps the records | wrong destination address: a fault, or another controller's pairing is lost |
| `MCEsp8266Informed` | state changes are reported | two changes in one pass are merged to the older value |
| `MCFramingClosed` | a client is disconnected after "Connection: close" | an early return leaves the parser in the middle of a request, or dead; the next client's request is lost and its connection closed |
| `MCRequestsBoolean` | booleans are accepted for integers of value 0 or 1 | the ESP8266 stores true as 0 (the ESP32 stores 1) |

The modules state some more that one would expect and that is false; no run is kept for
these:

* `RemovedIsGone` (`PairingStorage`): a second record of a removed controller stays.
* `RemovedHasNoSession` (`Esp8266Sessions`), `RemovedLeaves` (`Esp32Sessions`): the session of a
  removed controller goes on after an update moved its record, or when the freed id
  reads differently.
* `SetupStepMeansKey` (`Esp8266Sessions`): after a wrong code, M1 on the same connection
  answers an empty key.
* `InformedOfChanges32` (`Esp32Events`): a task that is held up between its store and its
  pushes tells the older value after the other task told the newer one; a dropped event, or
  an own write that overtakes a queued event, leaves a subscriber with an older value too.
* `OnlyNotifyingSubscribed` (`CharacteristicUpdates`): the check of the notify permission is a
  logical `&&` of two values that are not zero.
* `NothingOverrun` (`TlvCodec`): an empty value is written with two bytes and counted with none.
* `StaysInside` (`QueryParams`): an empty name at the end lets the parser pass the NUL.

The same code shows these, some of them in the models:

* on a LIFO that wrapped around `q_peekPrevious` does not answer what `q_peek` does, as
  `cQueue.h:191` says it would (nobody calls it);
* `homekit_server_reset` ("removing all pairings", `homekit.h:59`) leaves the pairings in the
  image, and the magic too when the uninitialized bytes happen to be the magic;
* an admin that is demoted keeps its rights in an open session; when the last admin is
  demoted before it is removed, no admin is left and pair setup stays disabled; a
  controller with two records keeps the older permissions after an update or a new pair
  setup (`SuccessIsEffective` states what holds with one record);
* an encrypted request whose frames arrive in one read is decrypted chunk over chunk, and
  the parser is handed as many bytes as the read should have held, so that the client is
  disconnected; frames of 1023 and 1024 bytes are refused, because two bytes are taken off
  the room (`Decryptable` excludes both, `Whole` the reads that return a part of a request,
  which lose bytes the same way);
* the ESP32 dispatches a request whether or not its connection is encrypted;
* "pairing public key differs from given one" (`server.c:2768`) answers an error and goes on
  with the update, with memory that was freed;
* the list of statuses of a 207 answer reads `aid` and `iid` of every item and faults on an
  item without them; the ESP32 begins that list without its outer object and array, so
  that its writer falls silent after the first item;
* an `ev` that is neither true nor false unsubscribes with Success;
* a refusing setter does not keep the other subscribers from hearing the value;
* numbers of seven characters and more make `json_integer` read past its buffer, strings
  are not escaped, `JSON_MAX_DEPTH` is not checked, and `maxDataLen` is written from
  `max_len` (`arduino_homekit_server.cpp:643`);
* with accessories of their own only, the ESP32 does not start and the ESP8266 starts
  without a base accessory.

Every property of a passing run has a mutant in `PROJECT.json`: a bug the code could have
had, such as a flush that forgets `out` or a close that leaves its timer, with which
TLC finds the property violated. The mutants stand beside the definitions they replace
and are marked as such.

## 4. The proofs

`tlapm M.tla` checks module *M*. The theorems hold for every value of the constants under the named
assumptions of the modules (`SizeAssumption`, `NoneAssumption`, `SlotAssumption` and so on), which TLC
evaluates in the runs. Four theorems have a hypothesis of their own; they are explained below.

| Module | Theorem | States |
|---|---|---|
| `EventQueueProofs` | `TypeCorrect`, `IndexCorrect` | `TypeOK`, `IndexOK` of the ring |
| | `RingImplementsBuffer` | the ring refines `BoundedBuffer` |
| | `ClosedIsSilent`, `PendingIsCurrent` | `ClosedHearsNothing`, `NewestIsCurrent` of the ESP8266's events |
| `Esp8266SessionsProofs` | `ExclusiveSetup`, `ListsAgree`, `TypeCorrect` | `SetupExclusive`, `ListOK`, `TypeOK` |
| | `RemovedSessionsEnd` | the action property `RemovalEndsSession` |
| `Esp32Proofs` | `Esp32ListsAgree`, `Esp32SetupOwned` | `Esp32ListOK`, `SetupOwned` |
| | `Esp32ClosedIsQuiet`, `Esp32InformedOtherwise` | `ClosedIsQuiet`, `InformedOtherwise`, over the interleavings of two tasks |
| `PairingStorageProofs` | `StorageTypeCorrect`, `AnnouncedStays` | `TypeOK`, `AnnouncedIsStored` |
| | `IdentityIsKept`, `OthersUntouched`, `PowerLossUnpairsNone`, `SuccessHasEffect` | the action properties `IdentityKeepsPairings`, `OneDeviceChanges`, `LossKeepsPairings`, `SuccessIsEffective` |
| `FramingProofs` | `FramingTypeCorrect`, `FramesInOrder` | `FramingTypeOK`, `WireInOrder` |
| | `HandlersGetRequests`, `OwnReasons` | `ServedAsAsked`, `ClosedForOwnReasons` |
| `RequestsProofs` | `OneSubscription`, `StatusesAreTrue` | `SubscribedOnce`, `StatusesTell` |
| | `WritersTellOthers` | the action property `WritersInform` |
| | `SafeBlocks`, `ServicesOffered`, `CharacteristicsFound` | `BlocksAreSafe`, `EveryServiceOffered`, `EveryoneIsFound` |
| | `QueriesUnderstood` | `QueryUnderstood` |
| | `AlwaysWritesJson`, `EndMeansComplete` | `AlwaysJson`, `EndIsComplete`, with integers that fit |
| | `FormatFillsBuffer`, `ParseReturnsValues` | `BufferHolds`, `RoundTrip` |
| | `RoundsAdvance` | each round of the parser moves the index, the safety side of `ParseEnds` |

`ListsProofs` and `PairingTableProofs` hold the lemmas these share.

**Event queue.** `TypeOK /\ IndexOK` is the inductive invariant. `TypeOK` alone says too little of a pop: that the
cell it hands out was written needs the range of written cells, and that range, `cnt` cells before `in`,
agrees with `out` only through `IndexOK`. Lemmas on the cyclic order (`First`, `Cyclic`) come first, then one
step per operation. For the refinement each operation of the ring maps to the operation of the bounded
buffer under `Items`, or to a stutter.

**Events of the ESP8266.** `NewestIsCurrent` is not inductive: a client that subscribes could find an old event of
its own in the queue. `NoOldEvents` adds that only a client served in this pass can have one, and who
subscribes was not served yet. The newest event survives an overflow because the oldest one is dropped
and the queue holds at least one.

**Sessions of the ESP8266.** `SetupExclusive` is inductive with the type of the context records (`ContextsOK`). Three
kinds of steps are told apart: those that start no setup (`NothingStarted`), those that close clients
and free the pairing context with its owner (`OwnerClosed`), and the messages of pair setup (`SetupKeeps`).
`ListOK` needs that nobody is left to be served outside the serving part of a pass (`phase = "serve" \/ todo =
<<>>`), and that closing takes from the list exactly the contexts it gives back. `TypeOK` follows from both and from
`Typed`: a context in use belongs to a controller, so what is stored is a pairing record. That the slot of
a found pairing is a slot needs a least element (`FoundInTable`), from the well-foundedness of `<` on `Nat`.

**Sessions of the ESP32.** `Inv` is the same argument with immediate closes and contexts that may come from the heap.

**Events of the ESP32.** The callbacks are cells linked by `next`. `Subscribed` is the least set that a walk from the
head cannot leave, and `Ahead(x)` the same from `x`. `Ordered` says that nobody comes before the first one and no
two come before the same one; on finitely many clients such a list has a last one (`LastExists`, by counting)
and appending or unlinking a client changes the reached set by just that client. Each task has a part of the list
still before it: `SketchAhead` is the whole list from the store of the sketch's task until its walk starts,
and what its walk has still to come to afterwards; `ServerAhead` is the same for the server's, with the client that writes,
who hears of its value by the answer. `Told` says what a subscriber knows that is not excused: when both tasks are through with it,
the current value is queued for it last or was told it; when one is and the other one carries an older
value, it knows the current value already, so that the older one is excused when it comes. That one
of the two always carries the current value (`WalkOK`), and that nothing anywhere is newer than it (`BoundOK`), is what
makes this go through between a store and its notification. It is kept while `raced` is false; `ChangesInv` is inductive.

**Pairing storage.** `StorageInv` says that RAM and file agree while the server is up, that with `Regenerates` an
image with pairings has an identity that loads and so has a server that is up, and that the identity announced
last is the one in the file as long as the server is up or a pairing is stored. The action properties follow from what each call does to
*every* image that it hands over, not only to the last: `Keeps` (it holds no pairing, or the identity of the image
before) and `OthersStay` (other controllers' records are where they were). A power loss leaves one of those
images, which is why `FileStep` is proved of all of them. `AnnouncedStays` assumes `Regenerates`, as the run
`MCPairingStorage` sets it; without it the statement is false: after the crash that `MCPairingIdentity8266` shows no start
comes up any more. That a start that ran to its end came up (`EndedStart`) needs the outcome of every save.

**Framing.** `WireInv` counts: until a write fails there are as many frames on the wire as nonces. `TypesInv` says of every
byte in the stream and in the buffer that it belongs to a frame its client really sent, so that the size read at
the head of a frame exists, and that the buffer never exceeds one full frame. `AskedInv` is the heart: as long
as no read of an encrypted connection returned a part of a request, between two calls the parser is new and the
buffer empty, and the stream of a client is what is left of its last request (in the clear), or that request's
frames with the next nonces (encrypted). A read then is a whole request, so decryption succeeds frame by frame
(`Decrypts` is a recursion, followed turn by turn) and the parser gets that request from its first byte, or the bytes are
refused as too many; in the clear, a part of a request that is not all of it is dropped with its parser.
`ClosedInv` adds that every request has its head, and that who is disconnected left, asked for it, or sent
a request in frames (`Brought`). The last case is real: two small frames read together are decrypted one over
the other, the parser dies of what begins in the middle of a request, and the connection is closed though
its client asked for nothing of the kind; two that do not fit the buffer together are refused. `OwnReasons` assumes
`HasHead`: a request is no shorter than its head, as the shapes of `MCFraming` are.

**Requests.** `UpdInv` types the callback lists and what was heard; what a notification does to everybody on the list
(`ToldFacts`) is a recursion over the list. `StatusesTell` is inductive with it: an item that goes well becomes the
last one for its characteristic, and one that is refused adds to neither set of items and changes nothing.
`ScratchInv` keeps the blocks below `offset`. `HomeInv` speaks of `Final`, the list
the server would be given if it started now: it offers every declared service once at any time and keeps
the sketch's own lists as they were given (`Kept`), none of which is the base accessory, and a
start makes the list just that. `AccInv` says that the two counters are above every id given since they began
to count, whether chosen or not, so that an id given by the library was not there before; an id that the sketch
chose may be, which is what `Collides` says. `QueryInv` says that
a look-up in the list made so far answers what the query up to the index says (`MeaningUpTo`); a round adds
exactly one start of a parameter (`OneMoreStart`), and the newest parameter is found first (`FindPrepended`).

**JSON writer.** What a JSON text is, `JsonStream` says of the text alone, by counting quotes and brackets from its
beginning; the writer knows a state and a list. `JsonInv` relates the two. `Grown` says that the text so far may be begun
that way (`IsPrefixOfJson`), that every level above the top has the bracket it begins with (`Anchored`), and that the
brackets that are open are the ones in `nesting`, level by level (`Nested`); `Stands` says for each state which symbol
the text ends with. A symbol that may follow leaves `Grown` true, with `nesting` longer, shorter or as it was, because the counts
up to an earlier place see only the symbols before it (`Agree`). A flush moves the text from `buffer` to `sent` and
changes nothing, so where `json_put` and `json_write` flush does not matter, for any `Size`. That `EndIsComplete` holds in the
other direction (a complete text is written in no state but `END`) needs that a key is not a value: what a
quote began is looked up at the quote before it. Both theorems assume `IntegersFit`: an integer is shorter
than the buffer of `json_integer`. Without it the statement is false, the writer copies what lies behind that buffer;
the runs satisfy it. The depth of the model ends at `MaxDepth`, any number.

**TLV codec.** Chunks that are not empty are the common ground (`Chunks`, `Wires`): what `tlv_format` writes of values that
are not empty is the wires of their chunks, and by adding up along the list (`ListInduction`, `EncodedLength`) it is as long
as counted; that the last chunk has what the full ones leave is division (`CountOfChunks`). For the way back, `Received`
merges *values*, and the parser merges *chunks*. `ChunksOfList` says that this is the same, which is why a next value of the
same type runs into the one before only behind a full chunk. `Underway` is the loop invariant of `tlv_parse`: the
index stands between two chunks, the list so far is what the chunks before it merge to, and the next chunk begins a value
of its own. `ParseRound` shows that a round takes exactly the chunks that merge with that one: the full ones
of its type, counted by a `CHOOSE` of the model that is shown to have one answer, and a shorter one if there is one. It
also moves the index on (`RoundsAdvance`), which it does not for an empty value.

**Recursive functions.** The library's induction theorems take an operator as a parameter and cannot be used. `SetInduction`
(`ListsProofs`) states induction for a *set* that contains 0 and with each *k* below *n* its successor, and follows from least elements;
`ListInduction` is the same for a set of lists that holds the empty one and is closed under appending.
`Iteration` shows with them that a function defined by recursion from 0 to *n* exists, `Iterating` that it stays in its set, and
`IterationStep` what one more element adds; so the recursive functions of `Lists`, `Framing`, `CharacteristicUpdates`, `JsonStream` and
`TlvCodec`, and `FlattenSeq` of the community modules (`FlattenAppend`), have the equations they are written with.

Only model-checked: the liveness properties (`MarkedIsClosed`, `SetupReleased`, `SetupFreed`, `ServedInTheEnd`, `LeftIsNoticed`,
`ParseEnds`), which are out of the prover's reach. Every invariant and every action property of a run that passes
is a theorem.

## 5. Plan

The order is by how much of the system's behaviour depends on the part.

1. *Done:* the models of `EventQueue`, `PairingStorage`, `Esp8266Sessions`, `Esp8266Events`, `Framing`,
   `Esp32Sessions`, `Esp32Events`, `CharacteristicUpdates`, the codecs, `Accessories` and `HomeIntegration`;
   the refinement of the queue; the safety of all of these, for every instance.
2. Models: the framing of the ESP32, the assembly of the body buffer, the clock with its
   width.

## 6. What the bounds are called

`Size`, `QueueSize`, `Room`: capacities of queues and buffers, as in the code but smaller.
`MaxPairing`: `max_pairing` (16 or 4). `MaxClients`: `HOMEKIT_MAX_CLIENTS` (8). `Cached`:
`CLIENT_CONTEXT_CACHE_SIZE`. `MaxServices`, `MaxAccessories`: `MAX_HAP_SERVICES`, `MAX_HAP_ACCESSORIES`.
`Chunk`: 255. `IntegerBuffer`: the buffer of `json_integer` (7); `Digits`, `IntegerDigits` and `StringLengths`:
how long unsigned numbers and floats, integers, and strings are. `MaxPlain`, `Header`, `Tag`, `Margin`: 1024, 2, 16 and 2. `MaxIdentity`: how many
accessory identities are told apart; a new one always differs from the one before.
`MaxRequests`, `MaxEvents`, `AnswerFrames`, `MaxChanges`, `MaxText`, `MaxLength`, `MaxValues`,
`Memory`, `MaxDeclared`, `MaxId`, `MaxItems` end runs that would go on for ever.

## 7. Properties that hold under a condition

`OneDeviceChanges`, `SuccessIsEffective` and `LossKeepsPairings` ask for a blank slot, because a
full table compacts and the compaction is broken (`MCPairingCompact`). `RemovalEndsSession` asks
that the session carries the slot of the last record of its controller, because
an update may have moved it (`RemovedHasNoSession`). `IdentityKeepsPairings` and
`AnnouncedIsStored` hold for the identity handling of `server.c`, and on the assumption
that wolfSSL does not import a key of 0xff bytes (`BlankKeyImports = FALSE`). `ServedAsAsked` and
`ClosedForOwnReasons` ask that no read has returned a part of an encrypted request (`Whole`):
`MCFramingClosed` shows what such a read does to others, and the server may hand ciphertext to a
handler after one. `ClosedForOwnReasons` counts it among a client's own reasons that it sent an encrypted
request in several frames, and `ServedInTheEnd` asks for a request that arrives in one piece and, on an
encrypted connection, in one frame of at most 1022 bytes (`Decryptable`), while `Whole` holds.
`StatusesTell` and `WritersInform` are about the ESP8266's updates. `EveryServiceOffered` says of an
accessory that the sketch put together itself that it is offered as given, and only of the others that they begin with
their information. `ClosedIsQuiet` and `InformedOtherwise` ask that the list did not change under the
sketch's notification, and `InformedOtherwise` leaves out the subscribers for whom an event was dropped or to whom an older value
came behind a newer one. `BufferHolds`, `RoundTrip` and `ParseEnds` ask for no empty values, `QueryUnderstood`
for a query of the grammar, `AlwaysJson` and `EndIsComplete` for integers that fit the buffer of
`json_integer` (`IntegerDigits` below `IntegerBuffer`) and floats that are numbers, and `json_uint64` is no call of theirs.
`EveryoneIsFound` leaves out a characteristic whose chosen id, or whose accessory's, stood on an earlier element of its
scope already, by the sketch's choice or from the counter: an accessory, a service and two characteristics with the ids 0, 0, 0
and 2 get 1, 1, 2 and 2, and the last one is out of reach.

## 8. Not modelled

* Cryptography (`crypto.c`, wolfSSL): a call succeeds or fails.
* The vendored parsers (`http_parser.c`, `esphap_cJSON.c`, base64) beyond what the server uses of
  them, the copies of the server that are compiled out (`serverA8266.c`): much of the
  repository's lines are such code or tables of constructors (`characteristics.h`).
* mDNS, the platform layer (`port.c`, `xrtos.c`, `watchdog.c`), `hapweb`, `qr`, `bench.c` and the
  examples, except the two sketches that show how a sketch notifies.
* The framing of the ESP32 (its size computation subtracts an overhead even from whole blocks,
  and results of its `write` are not looked at), the assembly of the body in
  `homekit_server_on_body` (whose test of the static buffer is the wrong way round), cloning of
  accessories and copies of values.
* What the ESP32's update of characteristics does otherwise than the ESP8266's (section 2), and its
  dispatch of requests on the wrong kind of connection.
* The SPI flash variants of `storage.c`, which are not compiled.
