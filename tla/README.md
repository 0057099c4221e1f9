# LanTransfer in TLA+

LanTransfer sends files between devices over a WebRTC data channel. A Go relay
introduces the peers and forwards their signaling; the files never touch it.
The clients encrypt end to end with a key they agree on through that signaling.
This directory holds TLA+ models of the parts that run concurrently, the TLC
configurations that check them, and machine-checked proofs about all of them.

Paths below are relative to the repository (`desktop/src/shared/peer.ts`, ...).

## The system

| component | state | operations | hard part | correct when |
|---|---|---|---|---|
| file transfer: `PeerSession`, `peer.ts:220-498` | maps of outgoing and incoming transfers, the channel and its buffer | sendFile, accept/reject, streamChunks, onChunkFrame, onComplete, cancel, close, connection loss | every call suspends several times; `onmessage` awaits nothing, so decryptions overlap | consent before content, saved = offered, cancel is effective, streams end |
| negotiation: `peer.ts:139-218`, `useLanTransfer.ts` | key pair, peer key, session key, SAS, connection; one session per peer | connect, onOffer, onAnswer, establishKey, close | calls of one session share its fields across awaits; both sides may offer; answers arrive late | both ends get the same key and SAS, and do connect |
| hub: `hub.go` | rooms, bounded queue per client | Join, Leave, Route, Send | peers reconnect under the same id; queues fill | cap, no ghosts, everyone knows the room |
| relay connections: `server.go` | connections per address, goroutines | acquire, upgrade, read loop, writer, release | failure between acquire and release, dead clients, writer against shutdown | slots balance, the dead leave, errors arrive |
| relay client: `relayClient.ts`, `relay_client.dart` | socket, backoff | connect, close, reconnect | close against a pending timer, failures in a row | one socket, hello before join, backoff, eventually connected |
| application state: `useLanTransfer.ts`, `app_controller.dart` | peers, sessions, transfers, one prompt, fingerprints | boot, signals, sendFilesTo, answerIncoming | boot under a double mount, updaters that run later than they are queued, late signals and callbacks, outages | one relay client, no session dropped unclosed, roster = room, fingerprint of the session in use, the newest offer's promise settled |
| web client and loopback signaling: `useLanTransferWeb.ts`, `loopbackSignal.ts` | seen peers, sessions | connect, announce, send, sendFileTo | announcements cross, every tab hears every signal, a tab closes unnoticed | tabs find each other, announcements end, signals reach whom they are for |
| mobile engine and session: `transfer_engine.dart`, `peer_session.dart` | as the desktop's, without the pool and the resume | as the desktop's | second implementation: no backpressure, engine made late, messages dropped before it | delivers what `FileDelivery` promises |
| rate limiter: `ratelimit.go` | token bucket | allow | quiet times, fractions | no window passes more than a burst and the rate |
| configuration: `config.ts` | a JSON file | load, save | read-modify-write across awaits, a kill during the write | what is shown is stored, other fields survive |
| codecs: `protocol.ts`, `crypto.ts` | none | chunk frames, sealing, base64url, SAS | signs, lengths, padding, who sorts first | decode inverts encode, SAS tells keys |
| cryptography, user interface, deployment | none | | | outside the models |

The components meet as follows. `useLanTransfer` owns a `RelayClient` and a map
of `PeerSession`s; relay messages come in through `handleSignal`, which makes a
session on the first offer, answer or candidate of a peer and closes it on
`peer-left`. A session sends its signaling through the relay client, and once
its channel is open and keyed runs transfers over it. On the relay, each
connection has a reader goroutine, which calls the hub under its mutex, and a
writer goroutine, which drains the queue the hub fills.

## Modules

| module | models | checked by |
|---|---|---|
| `Transfer` | `peer.ts:220-498`: two sessions with an open, keyed channel | `TransferPool`, `TransferLive`, `TransferOvertake`, `TransferCancel` |
| `FileDelivery` | what two peers promise about each offered file (abstract) | `TransferPool`, as `DeliverySpec`; `PartsMain`, as `MobileDelivers` |
| `TransferProofs` | proofs about `Transfer`: consent, saved files, that it implements `FileDelivery`; chunks, order and cancellation | tlapm |
| `Hub` | `hub.go` and `server.go:110-265` | `HubMain`, `HubStaleLeave`, `HubRoomFull`, `PartsMain` |
| `HubProofs` | proofs about `Hub` | tlapm |
| `Handshake` | `peer.ts:139-218, 250-290` and the sessions of `useLanTransfer.ts` | `HandshakeMain`, `HandshakeGlare` |
| `HandshakeProofs` | proofs about `Handshake` | tlapm |
| `Client` | `useLanTransfer.ts:60-238`, and `app_controller.dart:64-143` | `ClientMain`, `ClientPrompt` |
| `Replay`, `ClientProofs` | facts about a list of updates applied in order, used for `Client`'s updaters, `Hub`'s queues and the pieces `Codec` puts together; proofs about `Client` | tlapm |
| `RelayClient` | `relayClient.ts:24-104`, `relay_client.dart:42-91` | `PartsMain` |
| `WebTabs` | `loopbackSignal.ts`, and `useLanTransferWeb.ts:138-239` over it | `PartsMain` |
| `Codec` | `protocol.ts:73-120`, `crypto.ts:116-270`, `useLanTransfer.ts:240-254` | `PartsMain` |
| `CodecProofs` | proofs about `Codec` | tlapm |
| `ConfigStore` | `config.ts`, with the boot and `updateConfig` of `useLanTransfer.ts` | `PartsMain` |
| `RateLimiter` | `ratelimit.go` | `PartsMain` |
| `MobileEngine` | `transfer_engine.dart`, and of `peer_session.dart` the way from the answer to an open channel | `PartsMain` |
| `Parts` | the composition of `RelayClient`, `WebTabs`, `Codec`, `MobileEngine`, `ConfigStore`, `RateLimiter` and `Hub`, side by side; it extends most of them, whose names therefore carry a prefix (`RelayInit`, `StoreNext`, `MobileTypeOK`) | `PartsMain` |
| `MobileProofs` | that `MobileEngine` implements `FileDelivery` | tlapm |
| `PartsProofs` | proofs about `RelayClient`, `RateLimiter`, `ConfigStore` and `WebTabs`, and about `Parts` | tlapm |
| `MCTransfer`, `MCHub`, `MCHandshake`, `MCClient`, `MCParts` | values for the constants | |

### Transfer

JavaScript runs to completion between awaits, so a step is the code between two
awaits, and an async call is a task whose program counter names the await it is
suspended on (`offerTask`, `stream`, `answer`, `verify`, `cancelTask`). A
channel is a queue (`wire`) of which the last `unsent` messages still sit in
the sender's buffer; messages taken from it are in `opening` while they are
being decrypted, at most `Workers` at a time: WebCrypto is asynchronous, and the
code does not await one message before it starts the next. With `Workers = 1`
decryptions end in the order they began, as on a host with one crypto thread;
with 2 they may overtake each other.

One side sends and the other receives. Transfers in the opposite direction run
the same code on disjoint map entries and share only the channel. `Block` is the
content of a 64 KiB chunk, a file is a sequence of blocks, a digest is the
sequence it is taken of. `HighWater` is the 8 MiB mark in frames. `close()` and
loss of the connection (`disconnected`, after which the channel goes on) are
actions of their own. Calls that throw because the channel is not ready become
`"dead"`: nothing awaits them.

`FileDelivery` is the promise without the machinery: per file a phase (`idle`,
`offered`, `accepted` or `rejected`), whether it has been streamed to its end, the
verdict and what was handed over. `Phase` and the substitutions of `Delivery`
read these off the two peers: an offer or an answer counts once it is on the
channel, a call that throws changes nothing. It has no liveness part: what must
eventually happen is `AcceptedIsSaved` and `StreamEnds`.

### Hub

A hub operation runs under the mutex and is one step; so is each message the
reader or the writer goroutine handles. Connections are numbered and not
reused; peer ids are chosen by clients and may return on another connection.
`Leave` and `Finish` are two steps because `close(done)`, `Leave`, `conn.Close`
and the release run one after the other while the writer still runs. Go's map
order is a choice (`Orders`). `roster` is what the client on the other end
believes; it is computed by `handleSignal`'s own rule (`Apply`).

A client that is not joined has room `""` (`NoRoom`), which `Leave` ignores, as
in the code. A batch of `Send`s made under the mutex is atomic also against the
writer, which in the code could take one message out in between and so make
room: the model can drop a message where the code just manages to queue it.
`RelayView` merges states that differ only in what a connection that has left
keeps in memory, or in whether the client of one that ends is still there. The constraint
`VanishInPairs` keeps the instance small; in `PartsMain` one of three clients may vanish at
any time.

When a queue is full the message is dropped, the client stays. The comments at
`hub.go:17-18` and `relay/README.md:63-64` say the client is dropped. The models
follow the code; `RosterAgrees` is stated for clients that lost no message.

### Handshake

A session `<<p, k>>` is the k-th that peer `p` makes for the other. Its fields
are shared by the calls running on it, which are records in `tasks`; a call that
resumes reads them as they are then. Connections are numbered in creation
order, and the key pair a call generates, assigned in the same step as its
connection, carries the same number. A key and an SAS are the set of the
two key pairs they come from, which is exactly what `deriveSessionKey` (ECDH)
and `deriveSAS` (sorted before hashing) depend on. RTCPeerConnection is external:
its signaling states refuse descriptions out of turn, and pending operations on one
connection run in order. The relay delivers in order, may lose a message (`Lost`), and
may report at any time that the other left (`PeerLeft`; see the stale leave
below).

One candidate stands for those a connection sends (`cand`: `sent`, then `added` or
`missed`). `OnIce` adds it only where the code does: a session without a connection
drops it (`peer.ts:170`; so does one whose `onOffer` still awaits its key pair), and
before the remote description WebRTC refuses it, which the code ignores. A candidate is
not sent again. The channel can open once both ends have applied each other's description
and one end has the other's candidate; it must open only when both have. So the two ends
may stay apart although no message was lost and nobody left, and `Connects` says so.

`overlapped` is a history variable: sessions on which a call began while another
was suspended. `sendFilesTo` gives up waiting after 8 s and may be pressed again;
on an existing session that does not connect again, so it is not repeated.

### Client

The desktop hook and the mobile controller keep the same state around their
sessions; `platform` says which of the two a behaviour is about. A call runs
to its next await in one step, but on the desktop its effect on the state does
not: `setState` queues an updater (`queue`), which `Render` runs on the state
that is set (`base`), and the user sees only what was rendered (`shown`). A click is
rendered ahead of what is queued, and its updater runs again with the
queue: `answerIncoming` resolves a promise inside its updater, so a click on one
prompt, replayed behind the update that set a newer one, answers the newer one
unseen. `NewestIsSettled` counts that as settled, and so is about the promise, not
about what the user confirmed. On mobile the fields change at once and `Frame` shows
them; the prompt's `respond` closure answers its own offer and clears whatever
prompt there is.

The relay reports who is in the room and who leaves while the socket is up; a break loses
what is in flight, and the room is reported anew after it (`LinkUp`). A session is a number
with a peer and a phase. `calls` are the calls under way on it: `connect` and `onOffer`
until they have their key pair, and `establishKey`, with what comes before it, from there on
or from an answer. `dialed` are the sessions whose connection `connect()` made: an answer
starts `establishKey` only there. `close()` does not stop a call. When the key pair is made
(`KeyPairMade`), `connect` and `onOffer` assign a new connection also on a session that was
closed and dropped from the map, which is open again then and held by nobody
(`peer.ts:141-143, 178-180`); and a closed session still derives its key and calls `onSAS`.
The history variable `abandoned` has the calls under way on a session when it was closed.
`NoSessionLeaks` excepts the sessions closed during `connect` or `onOffer`, and
`FingerprintIsCurrent` those closed during `onOffer` or `establishKey`, and no others.

A send waits for its session, reads a file (`SendFile`) and offers it, and may be held up in
`applyBackpressure`, which polls the buffer (`peer.ts:320-325`). `SendResumes` is the poll
that finds it drained. On a channel the far side closed that may be never. `boots` are the
effect's mounts: in development React cleans up the first one before its `getConfig` ends.
`onClose` of the window is not modelled: everything goes with it.

### RelayClient

A slot is a socket together with the timer its close event sets. The desktop
and web client (`flavor = "ts"`) greets when the socket opens and resets its
delay there; the mobile one greets while it connects, resets its delay at the
same time, and stops listening before it closes. The greeting goes to `this.ws`,
whichever socket that is by then. All clients of the repository call `connect()`
once, and so do the properties; a second call would open a second socket,
although the comment at `relayClient.ts:38` calls it idempotent.

### WebTabs

Tabs meet on one BroadcastChannel, modelled as a queue per ordered pair of
tabs that are open when a message is posted. `mounts` is how often React runs
the effect; run twice, the tab announces itself twice under one id. A session has a
stage: made, calling, answered, ready; offers that cross leave both ends waiting,
which `Handshake` has in detail. A tab that closes posts nothing and nobody removes
it from a list, although the comment at `loopbackSignal.ts:107-109` says its peers
are pruned when their connection fails.

### MobileEngine

The second implementation of the transfer protocol, against another one or against a desktop
that cancels (no mobile client does). Unlike the desktop's it has no backpressure, sends
without a look at the channel, hashes without a suspension and goes on when the channel
closes, of which nobody tells it. The model begins when the offering side has applied the
answer: the answering side has its engine, the other is deriving its cipher, and the channel
opens at either end at any time. What arrives before the engine is dropped. `sendFileTo`
waits for `onReady`, which `_maybeReady` completes from whichever comes last. `ordered` says
whether messages are opened in the order they came, as by the pure Dart cipher, or may
overtake each other. It implements `FileDelivery`, the abstract specification of the
desktop's sessions, which is how the two implementations are held to the same promise.

### Codec, ConfigStore, RateLimiter

`Codec` is what the byte-level code computes, in base `D`: with `D = 4` a byte has
256 values, a hexadecimal digit 16 and a base64 digit 64, as in the code; with `D = 2`
everything keeps its proportions and TLC can enumerate it. The lengths the code fixes
(nonce, transfer id, the piece `uint8ToBase64` takes at a time) are constants, too. The
decoder's number is signed and then made unsigned, as in JavaScript. AES-GCM and
SHA-256 are constant operators of which only what the code relies on is assumed: a
message opens with the key it was sealed with and with no other
(`CipherAuthenticates`), and the digests of the keys in play differ in their first
three bytes (`DigestsDiffer`). `MCParts` gives TLC two that do.

`ConfigStore` has one action per await of `saveConfig`; the write truncates
and then fills, `Restart` may come anywhere, and two saves may overlap, in which case
nothing is promised. Settings are two fields, the one the panel sets and the one
only the file has; a stored file may lack either.

`RateLimiter` counts tokens in the fractions a clock tick can give, where the code
uses floating point. `Watch` picks the instant from which messages are counted.

## Properties and runs

| run | instance | checks |
|---|---|---|
| `TransferPool` | 2 decryptions, a file of two chunks and an empty one, the sender may cancel the first and the receiver the second, both sides may close; 1.2 M states | `TypeOK`, `ConsentFirst`, `SavedMeansSent`, `ChunkConservation`, `DeliverySpec` |
| `TransferLive` | 1 decryption, a buffer of one frame, both may cancel and close, one loss per side, fairness; 163 k states | `NoFalseMismatch`, `ReceiversCancelStops`, `CancelAheadOfCompleteWins`, `StreamEnds`, `AcceptedIsSaved` |
| `HubMain` | three connections, three peers (or the same one twice or three times), a room of two, queues of two, one routed message, clients that vanish while there are two connections at most; 587 k states | `TypeOK`, `CapHolds`, `NoGhosts`, `RosterAgrees`, `SignalsIntroduced` |
| `HandshakeMain` | one initiator, two sessions a side, four connections, two candidates; a lost message, or a report to each peer that the other left, and then one candidate (`BriefFaults`, `OneReportEach`); fairness; 774 k states | `TypeOK`, `KeysAgree`, `Connects` |
| `ClientMain` | desktop (mounted once or twice) and mobile, one peer, two sessions, two offers, picks of two files, five events from outside, fairness; 272 k states | `TypeOK`, `OneRelay`, `NoSessionLeaks`, `RosterFollows`, `FingerprintIsCurrent`, `NewestIsSettled`, `SendEnds` |
| `PartsMain` | each part by itself: both relay clients with two slots; three tabs of which one sends a file, or two that announce themselves twice and send two, and one closes; frames, texts, files and SAS over three keys and boundary chunk numbers; two saves over three values; rates 0, 1 and 3, two ticks a second, five ticks; two mobile engines, either of which offered, with a file of two chunks, cancellations and closing at both ends, and two messages opened at once; three connections of one peer, two from an address that may have one, a client that vanishes; fairness of the relay client, the mobile sessions and the server; 228 k states | `PartsTypeOK`, `SingleSocket`, `BacksOff`, `Rejoins`, `Discovered`, `SessionsPaired`, `MobileDelivers`, `FilesArrive`, `RoundTrips`, `SasTells`, `ShownIsStored`, `OthersSurvive`, `WindowBound`, `ConnsCounted`, `VanishedLeaves` |

Two chunks are the least with an order to lose; an empty file is the loop's boundary; two
files share the channel and the decryptions. A buffer of one frame makes every second send
wait. Two members and one more peer are the least at which a cap refuses, three connections
the least at which one peer reconnects while another watches; queues of two fill. Two
reports make it possible for both sides to hold an old and a new session with messages of
the old ones on the way: late answers do reach settled sessions, which with one report they
do not. After a fault `Connects` claims nothing, and for `KeysAgree` one candidate is
enough, since it opens the channel. In `Client` two sessions are one a peer left behind and
its successor, two offers the least with a prompt to replace, and five events are enough for
a peer that joins, is offered files, leaves and returns. Three tabs are the least with a
signal for another tab. Five failures in a row reach the delay's cap. The codec's lengths go
past one group of three bytes and past the piece `uint8ToBase64` takes at a time, and the
chunk numbers lie on both sides of the sign bit.

Six runs show a claim of the repository that does not hold; each checks that
claim alone.

| run | claim | what happens |
|---|---|---|
| `TransferOvertake` | a file is rejected only on corruption or tampering (`README.md:100-101`) | two frames decrypted at once end in the other order: a checksum mismatch between honest peers |
| `TransferCancel` | "Cancel an in-flight transfer (either direction)" (`peer.ts:243`) | the receiver cancels; what was on its way is still handled and the file is saved |
| `HubStaleLeave` | "Leave removes a client" (`hub.go:141`) | a dead connection's Leave removes the connection that replaced it |
| `HubRoomFull` | "the hub already told the client" (`server.go:224`) | the connection is closed with the error still queued |
| `HandshakeGlare` | "both peers derive the identical SAS regardless of who offered" (`crypto.ts:188`) | offers cross; the channel opens with a different SAS at each end |
| `ClientPrompt` | "the receiver confirms and the UI prompts the user" (`README.md:95-96`) | a second offer replaces the prompt of the first, which nobody answers any more; `sendFilesTo` offers its files without waiting, so two files are enough |

### Fairness

Awaited promises settle, the event loop dispatches, the transport drains and delivers,
goroutines run, and the read deadline finds a dead client: each is weak fairness of the step
in question. Where one async call moves through several steps they share one fairness
condition. No fairness is assumed of users, of `close()`, of connection loss, of message
loss or of reports that a peer left, nor that a live client ends its connection. `Handshake`
has a single weak fairness condition (`Runs`): as long as a message can be delivered, a call
can resume, a candidate can be sent or a channel can open whose ends both have the other's
candidate, something of the kind happens; which of them, and in which order, is open. That
is enough for `Connects`, because without faults it can go on only finitely often. In
`Client` the renderer renders what is queued, polls and timers fire, files are read, the
user answers a prompt that stays on the screen, and `applyBackpressure` ends (`Drains`) only
while its session is ready or closed here: `SendEnds` excepts a send held up on a lost
channel, or on a new connection that a call made on a session already closed; arrivals,
signals, breaks of the connection and key derivations may stop at any time. In `RelayClient`
an attempt to connect ends one way or the other and timers fire; the relay owes nothing,
`Rejoins` only says what happens while it is up. In `MobileEngine` keys are derived, the
channel opens and delivers, messages are sealed and opened, and the user answers.

### Mutation

Operators named `X_Something` next to an `X` (`LoopHead_Short`,
`Leave_KeepsRoom`, ...) are `X` with one plausible bug. No specification uses
them; put in the place of `X`, each breaks the property PROJECT.json names. This
shows that a property depends on the code and that the instance is large enough
to tell.

## Proofs

`TransferProofs` proves, for every value of the constants (any files, any
number of decryptions in progress, any buffer, cancellations, closes and
losses):

* `TypeCorrect`: `Spec => []TypeOK`. `TypeOK` is not inductive, because `Drain`,
  `Close` and the delivery of a message need to know that the buffer holds no more
  than the wire and that `nextSeq` stays within the file; `TypeInv` adds `InBounds`.
* `ConsentComesFirst`: `Spec => []ConsentFirst`.
* `SavedFilesAreWhole`: `Spec => []SavedMeansSent`.
* `TransferDelivers`: `Spec => DeliverySpec`, that is, `Transfer` implements
  `FileDelivery`.

The last three follow from one inductive invariant, `ConsentInv`. A transfer goes
through stages (offer, prompt, acceptance, stream, complete), and a message that
exists once cannot be sent again: `OfferStage`, `AnswerStage`, `StreamStage` and
`VerdictStage` say, for each transfer, which messages may be in flight at each
stage, and that `offer-file`, `accept-file` and `complete` are in flight at most
once. So a second acceptance cannot restart a stream, a second complete cannot start
a second verification, and content implies consent. That what is saved is whole
comes from the digest comparison in `Verify`; that its sender was done comes from
`StreamStage`. The steps are grouped by side (channel, cancellation, sender,
receiver), one lemma each, with general lemmas on how consuming, cutting and
transmitting change what is in flight.

For the refinement, every step about transfer `t` leaves the abstract state of the
others alone (`Elsewhere`). Of the steps about `t`, four kinds are visible: an offer that
goes out (`Offer`), an answer that goes out (`Answer`), a complete message that
goes out (`Stream`) and a digest compared (`Deliver`, `Fail`). The invariant gives their
abstract guards, and shows that no other step turns a phase or a verdict back.

`HubProofs` proves, for any connections, peers, rooms, addresses, caps and
queue lengths:

* `TypeCorrect`: `Spec => []TypeOK`. The invariant adds that rooms are finite (so
  that their sizes are numbers) and that a connection past its hello has a peer id.
* `CapIsKept` and `NoGhostMembers`: `CapHolds` and `NoGhosts`, from `RoomsInv`: the two,
  and that every member has joined, so that a connection's first join finds no
  entry of its own. A join that
  is let in adds one member to a room below the cap or replaces the member's own
  entry, which leaves the size alone.
* `SlotsAreCounted`: `ConnsCounted`, from `SlotsInv`: the count of an address
  is the number of its connections between acquire and release, as a cardinality.
  Each step that takes or returns a slot changes that set by one element.
* `RostersAgree` and `SendersAreIntroduced`: `RosterAgrees` and `SignalsIntroduced`,
  from `KnowledgeInv`, which says of every member what its client believes once it
  has read its queue to the end, that a signal in a queue comes after the message
  that introduces its sender, and that a connection that has not joined has nothing
  of the kind. What a client believes is the result of a sequence of `Apply`s;
  `Replay` has what appending a message to the sequence does to it.

`TransferProofs` then turns to chunks on their way:

* `ReceiverStopsStream`: the action property `ReceiversCancelStops`, from `CancelInv`. Once
  the sender has dispatched the receiver's cancel, the transfer is gone from the sender's
  map, so neither an `accept-file` dispatched later nor a `disconnected` touches its state
  any more, and while `streamChunks` has a chunk in hand that state is `cancelled`; so it
  does not send a further one, and a stream that ended does not start again. Nothing of the
  kind holds of the sender's own cancel, which keeps the entry: an `accept-file` on its way
  sets the state back to `active` (`peer.ts:417`) and a `disconnected` to `failed`
  (`peer.ts:271`).
* `ChunksAreConserved`: `ChunkConservation`, from `ConserveInv`. `CountInv` has what
  `nextSeq` says of a stream; `ConserveInv` adds that each chunk in flight is there once
  and, while the channels are open, that `nextSeq` is the chunks `inc.chunks` holds and
  those in flight (`ChunkStage`). It holds for any number of decryptions ending in any
  order.
* `NoFalseAlarm`: `NoFalseMismatch`, and `CancelWins`: `CancelAheadOfCompleteWins`, both for
  `Workers = 1` and everything else arbitrary. The hypothesis is the condition under which
  the code is right: `TransferOvertake` is the counterexample with two. `OrderInv` says that
  what is being opened and what is on the wire, one after the other (`Pipe`), holds, in
  their order and ahead of `complete`, the chunks that `inc.chunks` still lacks (`Entry`).
  `CancelWins` adds `Doomed`: as long as a cancel is ahead of `complete` the file is not
  saved, and once the cancel is handled the entry is gone for good.

`HandshakeProofs` proves `TypesHold` (`TypeOK`) and `SameKeys` (`KeysAgree`) from
`HandshakeInv`, for any initiators and any numbers of sessions, connections, candidates,
faults and departures. `SameKeys` is about settled sessions only: no call is under way on
them, no two ever overlapped on them, and no later offer replaced their key pair. Of offers
that cross, or a second offer on a live session, it says nothing; there the claim is false
(`HandshakeGlare`). What it adds to one undisturbed exchange is the late answers: they may
have replaced the peer key of a settled session, whose key and SAS are the right ones all
the same. The parts of `HandshakeInv`: a session's key pair was made with a connection of
its own (`Owned`); an offer or answer on the way names a connection and, of a session
without overlapping calls, the key pair made with it (`Mail`); what a suspended call has
passed, and, where no other call overlaps, that the session's fields are still as it left
them (`Calls`); a session no two calls overlapped on has at most one suspended call
(`OneCall`); and such a session, once its connection is negotiated and no call is under way,
has derived its key and SAS from its own key pair and the one of the other end's connection
(`Keyed`). Two ends of one channel have applied each other's, so the sets are the same.

`ClientProofs` proves, for any peers and any number of sessions and events: `OneRelayClient`
(`OneRelay`): of the two mounts at most one is not disposed of, so at most one boot
connects; `NoSessionIsLost` (`NoSessionLeaks`): a session that is not in the map is closed,
unless `connect` or `onOffer` was under way when it was, by the invariant `CallsInv` that
every call under way is on the map's session for its peer, was abandoned, or goes on from an
abandoned `onOffer` (a closed session opens again only in an abandoned call); `TypesHold`
(`TypeOK`); `RosterIsTheRoom` (`RosterFollows`) and `PrintsAreCurrent`
(`FingerprintIsCurrent`). The last two are about what the user sees once the queue of
updaters has run, and their invariants about what the queue leads to (`Later`): with the
relay's messages that are still to come it is the room (`RosterInv`), and its fingerprints
are those of the sessions in use or of one closed in the middle of its key exchange
(`PrintsInv`). `Replay` has the facts both need, and `HubProofs` as well, of a list of
updates applied one after the other, for any operator that applies one. They are inductions
over the list; the library's induction theorems cannot be used here, so each looks at the
first place where the fact would fail, and the natural numbers are well ordered.

`MobileProofs` proves `MobilesDeliver` (`MobileDelivers`): `MobileEngine` implements
`FileDelivery`, for any files and cancellations, either offering side and either
order of opening. `DeliveryInv` has the types (`TypesHold`) and, per transfer, an
`OfferStage`, an `AnswerStage` and a `VerdictStage`, as in `ConsentInv` but with
what arrives before an engine exists dropped and without a pool of decryptions.

`CodecProofs` proves, for every base `D`, key, nonce, transfer id, chunk number,
content and length, and every cipher and digest with the two assumed properties:

* `WireRoundTrips` (`RoundTrips`): what is taken off the wire is what was put on it, or
  nothing with another key. The invariant, `CodecInv`, says of each stage that what is on
  the wire is `OnWire(item)` and what was taken off it `TakenOff(item)`; the rest is about
  the functions. `FrameRoundTrip` takes a chunk frame apart (four bytes make up a number
  below the fourth power of 256 again, also through the sign bit; two hexadecimal digits, a
  byte), `Base64RoundTrip` shows that three bytes come back out of four digits, for each of
  the three lengths of the last group, `UrlRoundTrip` that the padding `toBase64Url` trims
  is what `fromBase64Url` puts back, `FileRoundTrip` that the pieces of `uint8ToBase64` are
  the bytes again, and `SealRoundTrip` that the nonce is found where it was put.
* `SasTellsPeers` (`SasTells`): sorting makes the order in which the two keys became known
  irrelevant, and the four emoji determine the three bytes they are cut from, so that equal
  emoji mean equal keys (`SasTellsKeys`).

These functions are defined by position, not by recursion, except for the string
`uint8ToBase64` builds piece by piece, to which `Replay`'s facts apply.

`PartsProofs` has the parts that `PartsMain` checks by themselves, and their composition:

* `NeverTwoSockets` (`SingleSocket`), for any set of slots and any number of
  failures, by the invariant `OneInUse`: at most one slot is in use, and it is the
  one `ws` names; and `WaitsLonger` (`BacksOff`), by `Paced`: the delay is the one
  that comes after as many failures. The second needs the first, because a socket
  that ended while a timer runs would count as a failure.
* `LimitHolds` (`WindowBound`) for any rates
  and any clock: what passed since the watch began and what is in the bucket, with the
  refill still due, never exceed a burst and the rate times the elapsed time.
* `ScreenIsStored` (`ShownIsStored`) and
  `DirectorySurvives` (`OthersSurvive`) for any values. Their invariant, `InStep`, says
  what holds as long as no two saves overlap: at most one save is under way, the file is cut
  only while that one writes, what is shown is what the file would load as, and, without a
  kill, a merged save carries the directory the file had.
* `TabsMeet` (`Discovered`) for any number of tabs and mounts, by `Met`: of two open
  tabs, either knows the other, or an announcement of the other is on its way to it,
  or its own is on the way to the other, which does not know it yet and will
  announce back (`Bound`); a tab that is not open yet is unknown and has nothing on
  a wire; and the announcements on a wire are at most the mounts and the tabs heard
  of. Hearing a tab for the first time adds one of each.
* `TabsPairUp` (`SessionsPaired`), by `Pairing`: an offer on a wire is from a caller, an
  answer on a wire answers one and its sender's session stays answered.
* `PartsKeepTheirSpecs`: a behaviour of `PartsSpec`, which `PartsMain` checks, is one
  of each of the seven parts' own specifications, so that whatever is proved of a part
  by itself (also in `HubProofs`, `MobileProofs` and `CodecProofs`) holds in it; and
  `PartsTyped` (`PartsTypeOK`), which puts together the types of all of them.

Assumptions: those the modules name. `Transfer`: files are sequences of blocks, the
"nothing saved" value is none of them, bounds are natural numbers. `Hub`: "no
connection" and "no peer" are no connection and no peer, every connection has an
address, caps and bounds are natural numbers and queues hold at least one message;
the sets themselves may be infinite. `Client`: platforms are the two, bounds natural
numbers. `Handshake`: initiators are peers, bounds natural numbers. `MobileEngine`:
files are sequences of blocks. `Codec`: `D` is at least 2, lengths are natural
numbers, ids, nonces, texts and slices consist of bytes, chunk numbers have 32 bits
(in base `D`), `CipherAuthenticates` and `DigestsDiffer`. For the real AES-GCM and SHA-256 these
two hold except with negligible probability, the second only as far as 24 bits of
a digest tell keys apart, and for the keys in play. TLC evaluates all of these
assumptions on the runs' instances. The theorems of `PartsProofs` state theirs:
`connect()` is called at most once and `NoSlot` is no slot; rates are natural
numbers and a second has at least one tick; the default is one of the values; tabs
are finitely many and React runs the effect at least once (`Mounted`). `SoundConstants`,
the hypothesis of `PartsTyped`, is all of these together.

Only model-checked: everything under fairness (`StreamEnds`, `AcceptedIsSaved`,
`FilesArrive`, `Connects`, `NewestIsSettled`, `SendEnds`, `Rejoins`,
`VanishedLeaves`), which is out of the prover's reach. Every safety property the
passing runs check has its theorem.

## Not modelled, and why

The algorithms of the cryptography, and attackers: peers and relay are honest.
File dialogs, rendering, logging, metrics and start-up: no state of the protocol.
Sends in both directions at once on one channel: the same code on disjoint entries.

The message a peer drops because its key is not yet set (`peer.ts:328`):
`Transfer` starts with both keys set, and it takes a composition with `Handshake`
whose states TLC cannot enumerate at the present bounds. `MobileEngine` has the
same drop on mobile, where it is part of the model.

The exchange of offers, answers and candidates of the Dart session: `Handshake`
has the desktop's only, and `MobileEngine` starts once the answer is applied.

In the web hook, the throughput samples and a change of the settings, which runs
the effect again with the old peers still listed.

`PROJECT.json` lists every component, with its status.

## Plan

1. The messages sent before both keys are set: an abstraction of `Handshake` to
   the two moments at which keys appear, composed with `Transfer`.
2. Proof: that the composition of item 1 implements `FileDelivery`.
