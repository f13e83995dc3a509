# Shovel, verified in parts

Shovel is a Minecraft server library in Rust on top of tokio and the codec library
drax. It accepts connections, takes each through handshake, login and encryption, and
hands a `ConnectedPlayer` to the code that uses the library. The repository has no tests
and hardly a comment about how its tasks work together; this directory states what they
have to do together and checks it: TLA+ modules translated from the source, instances of
them for TLC, and proofs for TLAPS.

Paths below are relative to the repository; line numbers are in `PROJECT.json` ("map").

## 1. The system

### Components, their state and their operations

| component | state | operations |
|---|---|---|
| **Server** `src/server.rs` | `client_count`, `entity_count_locker` (shared atomics), configuration | accept loop; one task per connection: proxy header, handshake, bootstrap, the user's acceptor |
| **Phases** `src/phase.rs`, `phase/login.rs`, `phase/status.rs` | `LoginState` of one login | `process_handshake`, `accept_status_client`, `login_client`, call of the session server |
| **MCConnection** `src/client.rs` | the two halves of the socket, their ciphers | framing, compression, encryption; `complete_login` |
| **Play session** `src/client.rs`, `phase/play.rs` | `seq` of the read task, the channels, `PacketLocker.active`, `client_count` | `keep_alive()`: read task, write task, spawned keep-alive senders; `PacketLocker` |
| **Player position** `src/client.rs`, `phase/play.rs` | `PendingPosition` (shared, behind a lock), `position`, `is_position_loaded`, `teleport_id_incr` | movement and teleport answers (read task); `teleport`, `update_location`, `render_level`, `render_proxy_level` (owner) |
| **Chunk loader** `phase/play.rs` | `known_chunks`, `pending_removals`, `chunk_poller_broke_early` | `soft_clear`, `poll_removals`, `poll_radius`, `clear_level` |
| **Entity tracker** `src/entity/tracking.rs` | uuid -> entity, tracking state, last location; `removed_entities_since_last_tick` | `add_player`, `add_entity`, `remove_entity`, `tick` |
| **Inventory, menus** `src/inventory.rs`, `inventory/item.rs` | slots and their click actions | setters that make packets, `get_clicker`, `set_items*` |
| **Tick futures, system** `src/tick.rs`, `src/system.rs` | polled futures; a system's thread that awaits one tick after another | `poll`, the tick loop |
| **Level mediator** `src/level.rs` | block updates by section | `update`, `validate_positions`, `into_updates` |
| **Proxy header** `proxy_protocol.rs` | a parser over the first bytes of a connection | `parse_proxy_protocol`, its two versions |
| **Math, crypto** `src/math.rs`, `crypto.rs` | none | pure functions |

### How they interact

`MCServer::spawn` spawns a task per connection, which ends up in the user's acceptor with a
`ProcessedPlayer`. `ProcessedPlayer::keep_alive` splits it: the *read task* owns the
socket's read half, the *write task* its write half, and the *owner* (the acceptor's code,
typically a loop that ticks) has a `ConnectedPlayer`. They meet in four places:

    client --up--> read task --inbound channel--> owner (PacketLocker.next_packet)
    client <-down-- write task <-outbound channel-- owner, keep-alive senders, cloned writers
                   read task <--PendingPosition (RwLock)--> owner
                   read task --client_count--> the server's status

The owner ticks an `EntityTracker` with the `ConnectedPlayer`s of a level (it writes through
cloned writers or their lockers), renders levels (`render_level` reads the position the read
task wrote, and polls the chunk loader), and passes clicks on to menus. No task is ever
aborted and none has a timeout: each must find out from a channel or from the socket that
the others have gone.

### What is hard, and what makes each part correct

Every hazard is in `PROJECT.json` with its line. In short:

* **Session.** The number of the next keep-alive is captured by a task that sleeps, queued
  behind other packets, sent, answered and compared with a variable of a third task. Right
  means: never two under way, never the wrong number, never a client dropped that answered,
  and the chain does not break silently. A connection may end in six ways (client, socket,
  wrong answer, undecodable packet, owner disconnects, owner drops): right means that each
  way reaches the other parties, that nothing holds a sender for ever, and that packets
  forwarded before the end are not lost.
* **Player position.** Movement sent before a teleport arrives after it; several teleports
  are in flight; `teleport` releases the lock in the middle. Right means: no old report is
  believed, a paused teleport is not undone, client and server agree in the end, and chunks
  are sent where the player is.
* **Entity tracker.** Creates, updates and removals are told apart by states that change at
  the end of a tick; players reconnect before their old session is removed; the accessor may
  have no data. Right means: no client is left with an entity that is gone, and none gets
  updates for an entity it was not told of.
* **Chunk loader.** At most five chunks a poll, levels change under way. Right means: no
  chunk of a level that was left stays at the client, and every known chunk was sent.
* **Encoded movement.** Movements are sent as differences of rounded positions in 16 bits, or
  not at all below a threshold, while the tracker goes on from the true position. Right means:
  what a client shows differs from the entity's place by what it was never sent and nothing else.
* **Server and phases.** Right means: `client_count` is the number of players; a connection is
  handed out only for the account that was claimed and that joined with its secret; client and
  server read each other although both start to encrypt in the middle of the exchange.
* **Inventory and menus.** The code has two numberings of the same slots; clicks are under way
  while items change, with and without telling the client. Right means: every slot shows the item
  of its place, and a click that is let through is for the item its player saw.
* **Tick futures and systems.** A tick polls many entities with one waker each, and may end early.
  Right means: no wake-up is lost, and no entity starves behind one that fails.
* **Proxy header.** Bytes come in pieces, and some are skipped unseen. Right means: every header of the
  protocol is accepted, with its source, and not one byte behind it is read.

## 2. The modules

### Session (core; `Session.tla`, `KeepAliveLoop.tla`, `SessionProofs.tla`)

One connection from `keep_alive()` until both of its tasks are gone. State and code:

| model | code |
|---|---|
| `reader`, `seq` | the read task, and its `seq` |
| `timers` | the spawned tasks that sleep one second and send the keep-alive they captured |
| `writer`, `outbound` | the write task and its channel; a dead receiver is `writer # "running"` |
| `inbound` | the channel to the owner (its length: what is in it does not matter) |
| `player`, `active`, `clones` | the `ConnectedPlayer`, `PacketLocker.active`, the live `clone_writer`s |
| `client_count` | this connection's share of the server's counter |
| `down`, `up` | the two directions of the socket: ordered, with a bounded window |
| `client`, `faithful` | environment; `faithful` is history: every keep-alive was answered right |

Actions are the arms of the read task (`ReadKeepAlive`, `ReadAbsorbed` for the packets it
handles itself, `ReadForwarded`, `ReadError`), the sleeping senders (`SendKeepAlive`), the write
task (`WritePacketOut`; `WriteError`, of a closed socket or of a packet that cannot be encoded; and `WriterDrained` when its last sender is gone), the
`PacketLocker` (`WritePacket`, `Disconnect`, `NextPacket`, `CloneWriter`), what the holder
of a clone does (`WriteShared`, `DropClone`), `DropPlayer`, and the client. `StopReader` is
what follows the loop: `client_count` is released and the read half is dropped.
`mutate_receiver` swaps the inbound receiver for one its caller makes of it; it is the identity.

`KeepAliveLoop` is what the session promises about keep-alives with everything else left
out: one ball, thrown out by the server, thrown back by the client, renewed only when it came
back with the right number. `Session` implements it under a refinement mapping (`Ball`).

### PlayerPosition (`PlayerPosition.tla`, `PositionAuthority.tla`, `PlayerPositionProofs.tla`)

The shared `PendingPosition` (`pending`), the owner's copy (`position`, `is_position_loaded`),
the client's own idea (`body`), teleports on their way down and answers and movement on their
way up. `ReadAccept` and `ReadMove` are the read task's arms. `teleport` is two actions, as it
releases the lock before it assigns and sends (`TeleportPend`, `TeleportSend`); everything else
that holds the lock is one. `RenderLevel` and `RenderProxyLevel` include `update_location` and
as much of `poll_radius` as its centre and whether it stopped early.
A location carries the number of teleports its writer had seen (`era`), `view`, `paused`
and `trail` record history: only properties read them. The bootstrap's own pending teleport (id 0, which
no packet announces) is in `Init`, so the model has the collision of its id with the first real
teleport's. Left out: clamping and degrees of what the client sends; `on_ground`, which four
handlers store and nobody reads (a hazard in the list); an inactive `PacketLocker`, with which
there is no client to disagree with. The client is an honest one: it answers each teleport.

`PositionAuthority` is what all this is for: the client is where it walks to until it obeys the next
order to be elsewhere; the server learns its path step by step from there, and learns nothing while
an order is on its way. `PlayerPosition` implements it: `orders` are the targets of the teleports that
the client has not read (`Orders`: one between the two halves of `teleport`, and those on their way),
`teleported` is `teleport_id_incr > 0`, `path` is `trail` (where the client was since its last
teleport), `known` the part of it that is not in `up` any more, none while a teleport is pending
(`Known`), and `believed` is `pending.location`.

### EntityTracker (`EntityTracker.tla`, `EntityTrackerProofs.tla`)

`entities` (entry per uuid: entity id and `TrackingState`), `removed`
(`removed_entities_since_last_tick`) and `views`: what a client sees when it has read all that
is in its channel; a channel keeps its order, so a view needs no queue. `AddPlayer`,
`AddEntity`, `RemoveEntity` and `Tick(found)` are the operations, `found` being the entities the
accessor has data for. An entity id is named by its connection or mob: a player who connects
again is another session with the same uuid. `replaced` and `hidden` are history. Where an
entity is, and which kind of update tells it, is the next module's.

### PositionTracker (`PositionTracker.tla`, `PositionTrackerProofs.tla`)

One entity's `EntityPositionTracker` (`last_tracked_location`, `tick`, `rot_cache`,
`was_on_ground`) and its viewers: `tracking` and `isNew` are what `EntityTracker::tick` decides by,
`view` is the entity as a client shows it. `Tick(l, ground)` is `poll_location` and the delivery
of its packets: `Teleports`, `Moved` and `Turned` are its flags, `Updated` what the packets it
chooses make of a view, `Poll` what it keeps, `Created` the create packet made after the poll: that of
a player (`create_entity_fn`, AddPlayer) says nothing of its head, which is then `Untold` at the client,
as the RotateHead of the first poll goes to nobody.
Coordinates are integers in units so small that `Sub` of them are a step of the encoding, so that
`Encode` rounds as `encode_v` does, halves away from zero; `AsI16` and `AsU8` are the casts.
`tick` is kept up to a multiple of `SyncPeriod`. `unsent`, `turned` and `on_ground` are history.

### ChunkLoader (`ChunkLoader.tla`, `ChunkLoaderProofs.tla`)

`known_chunks`, `pending_removals` and `chunk_poller_broke_early` of the code, and `sees`: what
the client shows at each position of a chunk when it has read all its packets. `PollRadius`
states the loop of `poll_radius` by where it stops: right after the chunk that fills a batch, or
at the end, when `poll_removals` runs too. `RenderLevel` and `RenderProxyLevel` decide whether
to poll as the code does; where the player is, in chunks, is an abstraction of
`PlayerPosition` (`here`, `there`, `is_loaded`: the shared position may be anywhere at any time).
`ClearLevel` is `clear_level` together with the level the owner renders next, which may be the
same one. Levels may gain chunks (`CachedLevel` is not in the repository). `holes`, `forgotten`
and `centre` are history. The radius in its order is the constant `Radial`. A dead
connection (inactive locker) has no client that shows anything and is left out.
`ValidatePositions` is `LevelMediator::validate_positions`.

### Server (`Server.tla`, `ServerProofs.tla`)

Every connection from `accept` to the end of its play phase. `stage` is where its task is: `Listens` are
the stages at which it reads (proxy header, handshake, the packets of the status and of the login),
`Answers` those at which it writes, `Elsewhere` those at which it waits for somebody else (the user's
status builder, the session server, the acceptor). `reading` are the connections whose read task
runs. A read leads on (`Receive`), or to the end of the task, by a packet that is not the right one
(`Reject`) or by the end of the stream (`EndOfStream`); a write leads on (`Write`) or fails
(`WriteFails`); a server with a compression threshold panics in its bootstrap (`BootstrapPanics`, the
`todo!()` of `write_compressed_packet`). `Authenticated` to `TakeId` are the two shared counters,
one step each, as other tasks run in between on other threads. `ReaderStops` is the end of the read
task, whose life is module `Session`: there it is reached by `StopReader`, which releases the same count.
A task that was counted and ends before `keep_alive` is recorded in `leaked` (history; `Leak`): no
end of a task counts a player back. What a status replies is not kept: it is the count. A `MCServer` without
a status builder is of a type that cannot be spawned, so that error of the accept loop cannot
happen and is not modelled.

### Login (`Login.tla`, `LoginProofs.tla`)

One connection through `login_client`, with the call of the session server, to its first play
packets. `login` is `LoginState` (`None` while it expects a Hello), `task` where the task is
(`auth`: the session server is asked), `secret`, `profile` and `logged_in` are fields of what
becomes the `MCConnection`. `CheckVersion`, `ReadHello`, `ReadKey`, `ReadQuery` are the arms of the
login's loop with their errors, `Confirmed` and `Unconfirmed` the session server's answers,
`NewConnection` the ciphers' construction, which panics if the secret is no key;
`CompleteLogin` and `CompressAndCompleteLogin` are `MCConnection`'s, the second of which ends in
`todo!()`. A packet carries the secret it is enciphered with (`under`). The client either keeps to
the protocol (`Keeping`) or sends anything in any order. What RSA, the hash and AES compute is
abstract: a secret decrypts or does not, a hash is the pair it is made of.

### PlayerInventory (`PlayerInventory.tla`, `InventoryProofs.tla`)

The whole `PlayerInventory`: `Places` is the order in which `refresh` pushes items, `Slot` the number
each setter puts in its packet, both read off the code. `SetPlace` is every setter of one place
with `ConnectedPlayer`'s packet, `SetPlayerInventory` is `set_all`; `own_shown` is what a client shows
that has read everything, `touched` the slots its player clicked since (a client acts first). A player
also selects a slot of the hotbar itself (`ClientSelect`): the read task only forwards that packet, and
the owner may take it over with `set_current_slot_unaware` or not. What
`Menu` has as well is named "own" (`own_items`, `OwnNext`, ...), as one module of proofs is about both;
likewise `TickNext` in `EntityTick`, `HeaderNext` in `ProxyHeader`, and so on.

### Menu (`Menu.tla`, `InventoryProofs.tla`)

`Menu` with its `items`, handlers (`action`) and `state_lock`, the packets to its player and the
clicks on their way back. Opening takes two packets, `Opened` (OpenScreen: the client shows an empty menu
in state 0) and `Contents`, and a click may come between them. `SetItem`, `SetItemUnaware`, `SetItemsUnaware`, `SetClickHandler`,
`SendToPlayer`, `Refresh`, `Close` are the methods; `Click` is `get_clicker` and what the handler it
returns does: nothing, a refresh, or the panic at the slot behind the menu's last (`crashed`).
A click carries what its player saw (`saw`, history); `untold` and `unseen` are history too.

### EntityTick (`EntityTick.tla`, `EntityTrackerProofs.tla`)

`EntityFactoryTick` with its `AwaitingEntities`, polled by the loop of a system's thread. `Poll` is one
poll with all it does; `inbox` and `failed` are what the entities' `poll_tick` answers from, `wakers`
the entities that keep a waker. The entities are the library user's: they are assumed to keep
the contract of a future.

### ProxyHeader (`ProxyHeader.tla`, `ServerProofs.tla`)

`parse_proxy_protocol` one byte at a time: `at` is the place in the code, `skip` the `skip!` macro,
`reader` and `fields` what `read_to` has gathered. `input` ranges over the headers the protocol
describes, with what follows them, and over anything else (`Others`): the parser skips bytes without looking at
them, and `u16::from_str` takes `+80`, so that it accepts more than the protocol has. The stream may end
anywhere. A block of six bytes and a word of an address or a port are one element each; `TakenPorts` is
what the code takes for a port.

## 3. What the runs check

| run | states | shows |
|---|---|---|
| `session` | 418,683 | `OneKeepAlive`, `InStep`, `NoFalseKick`, `ChainUnbroken`; `NothingStranded`; `HangupCloses`, `KickEnds`, `DroppedEnds`; the refinement `ImplementsLoop` |
| `position` | 822,555 | `Confirmed`, `LoadedIsConfirmed`, `ViewFollows`; `NoRollback`; the refinement `ImplementsAuthority`; `Converges` |
| `tracker` | 77,636 | `NoGhosts`, `Complete`, `LeavesClean` |
| `chunks` | 52,600 | `UpdatesLand`, `NoOldLevel`, `SentAll`; `Completes` |
| `server` | 45,288 | `CountExact`, `DistinctIds` |
| `login` | 1,013,360 | `Authenticated`, `Readable`, `Protocol`, `NeverTurnedAway`; `LogsIn` |
| `movement` | 77,632 | `Tracked`, `LooksRight`, `GroundTold` |
| `inventory` | 55,242 | `InStep` |
| `menu` | 3,181,504 | `ClicksWhatIsSeen` |
| `entity_tick` | 43,029 | `NoWakeUpLost`; `Served` |
| `proxy_header` | 163,676 | `OnlyTheHeader`, `NoneRefused`; `EveryHeader` |
| `tracker_leaves` | violation | `LeavesNothing`, the comment in `remove_entity` taken at its word, does not hold |

Each property is stated in words above its definition. The types of a module's variables (`TypeOK`)
are no property of a run: the proofs of section 4 have them for every value of the constants. Some
properties need a remark.

* `DroppedEnds` ends in "or the client no longer answers right" for a reason: nothing limits
  how long an answer may take, and a client that is silent on an open socket is never dropped
  after its owner let it go. The read task then stays, and so does its share of `client_count`.
* `NothingStranded` has two exceptions that the code makes: the owner disconnects the player
  itself, or a write fails (`active` is one flag for both directions).
* `ViewFollows` excludes, through the history `view`, a teleport into a chunk that the shared
  position had already reached: `update_location` compares the owner's new position with the
  shared one, sees no change, and nothing is sent until the player leaves the chunk.
* `NoRollback` is about paused teleports: an unpaused one is undone by `update_location` and
  redone when the client has answered.
* `Complete` excludes two cases with the history `hidden`: the accessor had no data in an
  entity's first tick (its create packet is never made up for), and an id removed and added
  between two ticks (created, then removed by the same tick's last packet).
* `UpdatesLand` is what `validate_positions` is worth: block updates are for chunks the client
  has from this level. The exception, `holes`, is the code's: a chunk the level lacks is known
  all the same, and is not sent when the level gets it.
* `NoOldLevel` has the exception `forgotten`: `soft_clear` throws the older removals away, so
  `clear_level` twice before a poll has come to its end leaves chunks at the client for good.
  It speaks of what is on the list, as `clear_level` alone does not make the next render poll.
* `CountExact` says what the count that the status shows is worth: the players in play, those
  on their way there, and `leaked` ones, which it never loses again.
* That a task ends when its client has gone is no property: at a read or a write it is the socket's
  promise, and at the session server (the HTTP call has no timeout), the status builder and the acceptor
  it is not so.
* `LooksRight` has one exception, the code's: the client that meets a player is not told how its head is
  turned (`AddPlayer`, unlike `AddEntity`, has no such field) until the player turns. What it says of it is
  that the first turn that is told ends this.
* `Readable` has one exception: a client starts to encrypt with its Key, so a `LoginDisconnect`
  that the server sends in the clear after it (the session server's profile is not the claimed one) is noise to it.
* `NeverTurnedAway` is what `LogsIn` needs of the login's errors: none of them meets a client that
  keeps to the protocol. `LogsIn` leaves out servers with a compression threshold, whose logins end in `todo!()`, and
  clients of another version.
* `Tracked` counts in `unsent` what the threshold kept back: `poll_location` goes on from the true
  location, so slow movement adds up unsent, and the packet of every twentieth tick, a difference too, does
  not make up for it; only a teleport does. `Tracked` says that this is the only drift.
* `InStep` excepts the slots a player clicked, and a slot of the hotbar that one side has selected without the
  other (`apart`: `set_current_slot_unaware`, or the player itself).
* `ClicksWhatIsSeen` has two exceptions: a slot changed "unaware" whose client learned the new state
  id with another slot (`blind`), and a slot the client itself showed changed (`Guess`). A click on
  the first slot behind the menu panics (`slot <= len`): the model does it, nothing says otherwise.
* `Served` ends when the base fails, as then no entity is polled, or when the system stops.
* `OnlyTheHeader` is what an accepted header is worth, and that is less than the protocol: the two bytes
  after the `T`, the six after the `U` and the one before the source are skipped whatever they are, and a
  port may have a plus sign. Everything else is checked, an unknown header ends at its first CR LF
  behind the skipped bytes, no byte of the handshake is lost, and a line of the protocol gets its own source.
  `NoneRefused` is the converse as far as a finite run can show it, and `EveryHeader` adds that the parser
  comes to its end as soon as the header's last byte is there, without waiting for one more. Both leave out
  a port 0, which the protocol has and the code refuses (`starts_with('0')`), and version 2, a `todo!()`.
* `LeavesNothing` is the finding: an entry overwritten by another id with the same uuid is
  neither current nor lingering when a player leaves, so the leaving client keeps the entity.

### Bounds, and why they are enough

* `session`: keep-alive numbers modulo 3 (the code: 64 bits), so they wrap and the numbers
  before, at and after the current one differ; two packets in each direction of the socket and
  in each channel, so that a keep-alive is queued behind and in front of others; one cloned
  writer. Deadlock is not checked: a connection ends.
* `position`: two chunks with a place each and two directions, so that a teleport can go to
  the same chunk or another, and a partial movement differs from a full one; two teleports,
  the least with which one is superseded while in flight; two moves by the client; three packets
  on the way, as one answer of the client is two.
* `tracker`: a player with two connections, another player, a mob: a reconnect, a bystander
  and an entity that is no player.
* `chunks`: two levels that share chunks and have one each the other lacks, a row of four chunks
  seen from two places whose radii overlap, batches of two out of three (five in the code), so
  that polls break off in the middle, at the last chunk, and not at all; three calls of
  `clear_level`, one more than it takes to forget removals.
* `server`: three connections, so that two tasks race for a counter while a third releases it or
  leaks, with the proxy header asked for (the longer way). The connections are symmetric. Deadlock is not
  checked: every connection may end and the loop stop.
* `login`: three accounts, of which two share a name and two an id, so that each comparison alone
  tells two apart; two challenges; a secret that is a key and one that is not; two packets of the client
  under way, as a stray client needs one behind another; one account that joins for the stray client and
  one play packet behind the profile. Deadlock is not checked: a login ends.
* `movement`: two coordinates, one long enough for halves on both sides of zero and for a
  difference that the instance's i16 (-3 to 2) does not hold; four units of angle to a turn, and yaws that
  differ by less than a unit, by one, below zero, and by a full turn, which a u8 does not tell from none; a
  period of three; a player or not; one viewer, as viewers do not act on each other.
* `inventory`: all 46 slots, one item at a time, and arrays for `set_all` of none, one row, one row and
  a slot, and everything.
* `menu`: two slots and two behind them (the first of which panics), two changes, three packets (a menu is opened with
  two) and two clicks under way: a click with an old state id can be behind one with the new. Deadlock is not checked:
  a menu may crash.
* `entity_tick`: the base, three entities (one before, between and behind others), two packets
  each. Deadlock is not checked: a system may stop.
* `proxy_header`: addresses of both families; ports with a leading zero, with a plus sign and above
  65535; a line of each family with any one element replaced, skipped ones too, or lost; unknown sources with
  other bytes skipped, a line's end among them; bytes and line ends behind the header. Deadlock is not
  checked: a parser ends.

Symmetry is used in `server` only, which has no liveness property and whose connections differ in nothing;
elsewhere places and numbers are ordered, and the roles of the tracker's ids differ.
`MaxTeleports`, `MaxMoves`, `MaxClears`, `Window`, `MaxQueue`, `MaxClones`, `MaxUp`, `MaxJoined`, `MaxPlay`,
`MaxUnsent`, `MaxLock`, `MaxDown`, `MaxItems`, `MaxTouched`, `MaxStates`, `MaxPackets` are bounds of the models, not of
the code, whose channels are unbounded; the proofs hold for every value of them.

### Fairness

Weak fairness, of what the runtime or a loop repeats: the read and write tasks are polled when
they are ready and a sleep ends (tokio); a client reads what it was sent, which is TCP's and
the game's business; the owner polls `next_packet`, drops a player that became inactive, and
holders of cloned writers drop them once the player is gone; an owner renders the level tick
after tick and finishes a teleport it began. None is assumed for what a party only may do
(client sends, hangs up, answers wrong; owner writes, disconnects, teleports). In `login` the task is polled, the
session server answers, and a client that keeps to the protocol goes on with what it began; hanging up
and straying are never fair. In `entity_tick` the thread's runtime polls a woken task, in
`proxy_header` the connection's task is polled when bytes are there; bytes need not come. The server, the
tracker, the movement, the inventory and the menu have no fairness, having no liveness property: what they
miss is not made up for.

## 4. What is proved

TLAPS checks these for every value of the constants that satisfies the module's one
assumption (positive bounds, a width of at least two, disjoint sets of ids, ...).

* `SessionProofs`: `SessionTypes`, then `SessionOneKeepAlive`, `SessionInStep`,
  `SessionNoFalseKick`, `SessionChainUnbroken` from the inductive `KeepAliveInv`. None of the
  four is inductive alone: that only one keep-alive is under way needs that a timer started by
  an answer finds no other (the answer was the one), that the number matches needs that no
  second one with an older number is behind it, and the chain needs both. The lemmas say what
  reading the head and appending do to the keep-alives in a queue. `SessionImplementsLoop` is the
  refinement: under `KeepAliveInv` every step throws the ball, throws it back, renews or loses it, or
  stutters; that a keep-alive is in one place only is what makes the mapping a function.
  `SessionNothingStranded` needs no invariant.
* `PlayerPositionProofs`: `PositionTypes`, then `PositionConfirmed`,
  `PositionLoadedIsConfirmed` and `PositionNoRollback` from `PositionInv`, whose added parts are
  `DownInOrder` (teleports reach the client in the order of their ids, none skipped),
  `UpInOrder` (what the client sends behind an answer is from after that teleport) and
  `PendingLatest` (the pending teleport is the latest). `PositionViewFollows` is inductive with
  the types. `PositionImplementsAuthority` is the refinement, under `AuthorityInv`: what is on its way to the
  server ends with reports of the trail, the answer to the trail's own teleport before them (`ReportsTrail`),
  so that the next packet read is the next step of the path or older than it; the pending teleport has
  the target ordered last (`LastOrder`); and without one the shared location is on the trail, where the
  packets on their way begin (`OnTrail`).
* `EntityTrackerProofs`: `TrackerTypes`, `TrackerNoGhosts`, `TrackerComplete`,
  `TrackerLeavesClean` from `TrackerInv`, whose added part is `RemovedAreNew`: a tracked entity
  that the next tick removes is one that came back. `TickNoWakeUpLost`, of the tick futures, is inductive
  by itself, for any number of entities.
* `ChunkLoaderProofs`: `LoaderTypes`, `LoaderUpdatesLand`, `LoaderNoOldLevel`, `LoaderSentAll`
  from `LoaderInv`, whose added part is `Accounted`: a position that shows a level is known, on
  the list of removals or forgotten, and one both known and on the list is a hole. What a poll
  does to it is a lemma for any stopping point, hence for any batch and radius.
* `ServerProofs`: `ServerTypes` (the unsigned count never wraps below zero), `ServerCountExact`
  and `ServerDistinctIds` from `ServerInv`, for any finite set of connections. Added parts:
  `Apart` (a connection is in one of the three kinds that count) and `IdsBelow`. Sizes of sets
  come from the library's `FiniteSetTheorems`. Of the proxy header, `ServerOnlyTheHeader` from
  `HeaderInv`: `Where` says for each place in the code which bytes have been read and what of them is
  kept, so that at the end they can only be such a line, skipped bytes and all. `ServerNoneRefused` adds `OnItsWay`: of a
  header that is right, the place in the code is the one that its next byte belongs to, and what
  was kept is what it has there. Both are for any texts, ports, continuations
  and other input (`Others`), of which the assumption says only that no text has a separator in it, that the
  protocol's ports are numbers, and that an unknown line has no end within it.
* `LoginProofs`: `LoginTypes`, `LoginAuthenticated`, `LoginReadable`, `LoginProtocol` from `LoginInv`.
  Added parts: `Stages` (what the task has got where it is), `Shape` (each packet sent is in its place,
  and one that ends the exchange is the last and the task has ended) and `Honest` (a client that keeps to the
  protocol and the server are in step: one packet under way, agreed on who it is). `Authenticated` is
  inductive with `Stages`; `Readable` needs all. `LoginNeverTurnedAway` goes through the errors one by one:
  by `Honest` the packet that meets it is not one such a client has sent. It needs one more part,
  `Unanswered`: nothing is said of a client that has not joined.
* `PositionTrackerProofs`: `MovementTypes`, `MovementTracked`, `MovementLooksRight`,
  `MovementGroundTold` from `MovementInv`; added are `CachesCurrent` (what was last sent is what was last
  polled) and `ShowingFollows`. That encoded steps add up without rounding is the telescoping of differences of
  encoded positions, and that the cast to i16 changes none of them is what the teleport's condition is for.
* `InventoryProofs`: `InventoryInStep`, with the types the whole invariant. What is hard is one fact,
  `PlacesAgree`: the list that `refresh` makes by pushing rows of arrays one behind the other has each place
  at the very index that its setter computes. The lemmas `RowAgrees` and `ConcatAgrees` say it of one array and of
  lists one behind the other, so that no list of 46 is ever spelt out. `MenuTypes` and
  `MenuClicksWhatIsSeen` come from `MenuInv`. A click is right because
  its client's view was, and that because the packets still under way will make it so: the added parts say what a
  client shows after the next k packets (`WillShow`, `WillShowCurrent`, `ShowsCurrent`), and that nobody has
  a state id from the future (`StatesBelow`).

Only model-checked are the liveness properties (`HangupCloses`, `KickEnds`, `DroppedEnds`,
`Converges`, `Completes`, `LogsIn`, `Served`, `EveryHeader`): liveness under fairness is out of the
prover's reach. Where one has a safety half worth its name, that half is a property of its own and is proved:
`ImplementsAuthority` for `Converges`, `SentAll` for `Completes`, `NeverTurnedAway` for `LogsIn`,
`NoWakeUpLost` for `Served`, `NoneRefused` for `EveryHeader`. That a connection ends (`HangupCloses`,
`KickEnds`, `DroppedEnds`) has none: whatever is true before the end may stay so. The
prover can neither do induction over data nor see through RECURSIVE operators; no module here has any.

## 5. Not modelled, and why

* The codecs, compression and ciphers are drax's and the crypto crates': a socket is an ordered
  stream of packets here, and framing in `MCConnection` and `RawConnection` (lengths, buffers) is left out
  with them. `crypto.rs` only calls them. `lib.rs` and `entity.rs` have no state.
* `inventory/item.rs` builds the tags of an item stack: wording, to a model.
* `create_sorted_coordinates` is the constant `Radial` of `ChunkLoader`: its proofs hold for every order
  of every set of offsets. `wrap_degrees` and the clamping of positions are arithmetic of floats.
* Version 2 of the proxy header and compressed packets are `todo!()` in the code, and end their
  task in the models.
* The grouping of a level's updates by section is a map of maps; `validate_positions`, which decides who gets
  them, is modelled. What a system does in its tick, besides awaiting its entities, is the user's.
* The session server, the game client and the user's acceptor are not in the repository: they
  are environment, as unfriendly as the property at hand allows.

## 6. Plan

What is left, in order of importance:

1. A composition of `EntityTracker` and `PositionTracker`: several entities with views that are
   histories of packets, so that a create packet and the first update of another's entity interleave.
2. `create_sorted_coordinates` as a function checked against its definition, and the mediator's grouping.
