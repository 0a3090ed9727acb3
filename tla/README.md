# A TLA+ model of moq-rs

moq-rs is an implementation of Media over QUIC Transport: a transport library
(`moq-transport`), a relay built on it (`moq-relay-ietf`), a registry that relays
share (`moq-api`) and the applications that publish and play. This directory
models the library from its shared cells to the octets on the wire, and the relay
with its registries, pools, retention, drain and coordinators: above all what
depends on the order in which tasks, messages, locks and destructors meet. Modules
and configurations are here, `PROJECT.json` says which lines of the source each
definition stands for, and this file says what is modelled, what the runs check,
what is proved and what is left.

Source paths are relative to `src/moq-transport/src/` (watch, serve, session) or
`src/moq-relay-ietf/src/` (relay).

## 1. The system and its parts

| part | state it keeps | operations | met by |
|---|---|---|---|
| `watch/state.rs` State | value, epoch, waker list, whether both halves live | lock, lock_mut, modified + poll, clone, split, drop | every shared structure above it |
| `watch/queue.rs` Queue | a VecDeque in a State, a notifier per item | push, push_and_wait_until_popped, pop, close, drop | control messages, requests for tracks |
| `serve/subgroup.rs` Subgroups | retained subgroups, creation counter, window, readers' cursors | create, append, set_history_window, next, clone, close | a track in subgroups mode |
| `serve/subgroup.rs` Subgroup objects | objects with promised size and chunks | create, write, close, drop, next, read | one subgroup |
| `serve/datagram.rs` Datagrams | ring, epoch, cursors and drop counters | write, read, clone, close | a track in datagrams mode |
| `serve/track.rs` Track | mode, window, closing error, taps | subgroups/datagrams/stream, mode, closed, is_closed, tap | one track |
| `serve/tracks.rs` Tracks | cache of tracks by name, request queue | create, remove, subscribe, next, drop | one namespace served in process |
| `session/request_id.rs` | next id, peer's maximum; low-water mark and set above it | allocate, apply_max_request_id, validate_incoming | every request |
| `session/subscriber.rs`, `publisher.rs`, handles | maps by id and name, aliases, pending requests with deadlines | SUBSCRIBE, PUBLISH, their answers and ends, drops of handles | both ends of a session |
| PUBLISH_NAMESPACE (same files) | map by namespace, handles, queued SUBSCRIBEs | announce, accept, done, cancel, route | both ends |
| relay `local.rs` | namespaces with local and remote sources, tracks, two broadcast channels | register, drop, list, get_or_request_track | `producer.rs`, `consumer.rs` |
| relay `covering_prefix_set.rs` | active prefixes and the broadest of them | add, remove | upstream discovery |
| relay `upstream_namespaces.rs` | leases, runner with roots and pulls, retained sources | acquire, drop, subscribe, unsubscribe, events, retries | client sessions, remote relays |
| relay `remote.rs` | slot per relay, connection, slot per track, cleanup tasks | get_or_connect, subscribe, evict, shutdown | producer, discovery |
| `coding/`, `message/`, `data/` | none (pure) | encode and decode of integers, tuples, key-value pairs, every control message, stream headers, objects, FETCH entries, datagrams | Reader, Writer |
| `session/reader.rs`, `writer.rs` | a buffer, octets still owed | decode, decode_more, read_chunk; encode, write | every stream |
| `session/subscribed.rs` forwarder | filter, one task per subgroup, datagram cursor and loss counts, streams opened | serve, serve_subgroup, serve_datagrams, drop | a track, its SUBSCRIBE, QUIC |
| `session/subscriber/ingress.rs` | aliases to entries, writers of the mirror | recv_stream, recv_datagram, PUBLISH_DONE, unsubscribe | streams and datagrams of a peer |
| SUBSCRIBE_NAMESPACE (`subscribe_namespace.rs`, `subscribed_namespace.rs`) | known suffixes, queued events, active prefixes | ask, answer, NAMESPACE, NAMESPACE_DONE, finish, reset, drop | a stream of its own |
| FETCH (`fetch.rs`, `fetch_requested.rs`) | pending entry, response stream, cancel flags | ask, serve from objects or from upstream or both, cancel, deadline | producer, retention |
| `session/mod.rs`, `pending_requests.rs` | set-up, outgoing queue, pending requests with deadlines | connect, accept, dispatch, expire, close | everything in the session |
| draft-19 (`profile/`, `session/draft19.rs`) | account per request stream and direction, GOAWAY state | open, send, receive, finish, GOAWAY | relay's drain |
| relay `retention.rs` | groups per registration, one shared byte budget | register, insert, evict, lookup, plan | FETCH handler |
| relay `relay.rs`, `session.rs`, `producer.rs`, `consumer.rs` | one task per connection, requests it serves, admissions and drain | accept, serve, reject, redirect, shut down | all of the above |
| coordinators (`file_coordinator.rs`, `api_coordinator.rs`, moq-api) | hosts and interests in a file; an entry with a time to live in Redis | register, look up, subscribe, refresh, unregister | other relays |

**How they interact.** A session runs its tasks as branches of one `select!`
(receive, send, streams, datagrams, deadlines); handles given to the application
(Subscribe, Subscribed, Published, ...) live in other tasks and share maps with
the session through mutexes. A handle acts mostly in its destructor: what it
sends depends on what the session has recorded by then. Shared data is served
through `watch::State`, a mutex with an epoch and a list of wakers. The relay
joins sessions through `Locals`: a PUBLISH or PUBLISH_NAMESPACE registers, a
SUBSCRIBE looks up, a SUBSCRIBE_NAMESPACE lists and then follows a lossy broadcast
channel. What is not local is fetched through one pooled connection per remote
relay and one shared upstream subscription per track.

**What is hard.** Looks and waits under two locks; wakers that change; readers
whose entries are pruned; messages that cross; deadlines that race answers;
destructors that run between two steps of somebody else; changes of a map that
are broadcast after its lock is released; slots removed, drained and dialled again
between two lock acquisitions; a change of roots that has to wait for old pulls;
data that arrives before the answer that explains it, or after the end that was to
follow it; an entry that straddles two chunks; a budget that several take from
without a common lock; a relay that dies with a file half written or a lease
running; a drain that waits for peers that stay.
`PROJECT.json` lists these hazards one by one, at the line where they bite, with
the properties that would catch them.

**What makes each part correct.** No wake-up is lost and every waiter gets on
(watch). A reader gets entries in order, once, and misses one only if it expired;
an object that ends cleanly is whole; nobody is handed a track that has ended
(serve). No request id is accepted twice and no honest peer is refused; both ends
have at most one subscription per track, their maps agree, and every request ends
(session). What is listed is what has a source, and those who follow the list
converge (local). One connection, one subscription and one pull where many ask,
with nothing evicted that belongs to another (upstream). What one end writes the
other reads, however the transport cuts it (wire). A mirror holds what the track
has and the filter allows, and the failure of a stream stays there (data). What was
accepted can be reached, what is retained is what is served, and relays that share
a registry find each other, though each may die (relay).

## 2. Modules

| module | models | main state | actions |
|---|---|---|---|
| `WatchState` | State, StateChanged | version, epoch, wakers (a multiset of task and waker identity), clones per half, what each waiter does | LockMut, IntoMutClosed, Modified, FirstPoll, WokenPoll, SpuriousPoll, CloneHandle, DropHandle |
| `WatchQueue` | Queue | queue, histories of what went in and out, notifier states | pop as three steps (look, ask, poll), close as two |
| `LossyLog` | abstract: what a track mode promises | appended, expired, positions, who was told of the end | append, expire, read, end |
| `Subgroups`, `Datagrams` | the two modes; both refine LossyLog | see above | every public operation, pruning and tap hand-over included |
| `SubgroupObjects` | objects of one subgroup | objects with chunks and remaining bytes | writers and readers |
| `Track`, `Tracks` | mode transition; cache and requests | writer, mode and calls in progress; cache, queue | as in the source |
| `RequestIds` | both ends of one direction of a session | SendState, RecvState, ids on their way as a set | Allocate, Blocked, RaiseMax, ApplyMax, Receive, and a peer that sends what it likes |
| `Subscriptions` | SUBSCRIBE and PUBLISH, both ends and the control stream | all maps, pending sets, handles, message queues | one action per handler, per destructor step and per deadline |
| `PublishNamespaces` | PUBLISH_NAMESPACE, both ends | maps, handles, queued SUBSCRIBEs | likewise |
| `LocalNamespaces` | namespaces map, shared remote sources, NAMESPACE half of the handlers | entries, sources with reference counts and destructor phases, broadcast log | map change and broadcast are separate steps |
| `LocalTracks` | tracks map and get_or_request_track, PUBLISH half of the handlers | entry, callers, sources' queues, broadcast log | read-locked look, write-locked claim, send, removal after failure |
| `CoveringPrefixSet` | the set; also the abstract specification of discovery's roots | active, roots | Add, Remove |
| `UpstreamNamespaces` | leases, runner, pulls; refines CoveringPrefixSet | see `VARIABLES` | lease steps, one Runner step per command or event, pull steps |
| `RemoteConnections` | RemoteManager for one key | slot in the map, slots with their locks, connections, calls | lock, dial, evict, session end, drain, shut down |
| `RemoteTracks` | Remote::subscribe for one track | slots, subscriptions, cleanup tasks | likewise |
| `Messages` | coding/, message/, data/: operators from octets to values and back | none | none: `MCWire` decodes every string and encodes what comes out |
| `WireStreams` | one QUIC stream between a Writer and a Reader | items to write, octets on the way, the reader's buffer and what it owes | encode, deliver any number of octets, decode, ask for more, reset, FIN |
| `FetchCopy` | FetchStreamWriter::copy_from | the upstream stream, chunk, partial entry, sink | receive a chunk, parse an entry, pass payload on, end, reset |
| `Draft19` | one request stream and the control streams of draft-19 | account of either end, frames on the way, GOAWAY | open, send, receive with either of the two calls that read, finish, reset, GOAWAY, timeout |
| `ObjectForwarder`, `Ingress` | the two ends of one subscription's data, with its SUBSCRIPTION_FILTER resolved to a range of locations | a task per subgroup, streams on the way, the mirror | accept, open, write, end; route by alias, create, write, close; PUBLISH_DONE, unsubscribe |
| `DatagramForwarder` | serve_datagrams | ring, cursor, loss counters and what the metric has of them | read, filter, send, MTU changes, report |
| `NamespaceStreams` | SUBSCRIBE_NAMESPACE, both ends and their streams | handles, events, queue, active prefixes | ask, accept, fail to accept or time out on the header, announce, finish, reset, drop, end of session |
| `SessionLifecycle` | set-up, dispatch, pending requests and their timer, the end of Session::run | see `VARIABLES` | one per message of the set-up, per request and per branch of the select |
| `Fetches` | one FETCH, both ends | handles, pending entry, messages, response stream | ask, answer from objects or upstream, cancel, expire, drop |
| `FetchRetention` | FetchRetention, RetainedGroups and serve_fetch | registrations, groups, the shared budget, the FETCH being planned | insert as check, evict and take; register and drop; the look-ups of a FETCH one by one |
| `Drain` | Draft19Drain, the accept loop and the shutdown of main | connections, admissions, timers | connect, admit, signal, begin and finish the GOAWAY, time out, close, finish |
| `RelaySession` | the task of one draft-16 connection | requests with what is registered for each | resolve scope, serve, accept, fail, drain and reject, end; the peer ends a request at any step |
| `Coordinators` | the coordinator over a locked file, with the tasks that call it; api_coordinator.rs with moq-api and Redis | the file by the keys the code makes of names (`KeyOf`: lossy UTF-8, fields joined by a slash, so names can share a key), who holds its lock, tasks, notifications; the entry with its time to live, registrations with their refresh intervals | lock, read, truncate, write, fail before or after the truncation, crash, cancel, late unregistration; get, set, patch, delete as separate commands, each of which may fail, refresh, tick, crash |
| `MCServe`, `MCSession`, `MCLocal`, `MCUpstream`, `MCWire`, `MCData`, `MCRelay` | the instances TLC runs, by layer | | |
| `ServeProofs`, `SubgroupsProofs`, `DatagramsProofs`, `SessionProofs`, `RelayProofs`, `CoveringPrefixSetProofs`, `UpstreamNamespacesProofs`, `UpstreamProofs` | theorems (section 7) | | |

The components of a layer are modelled with no variable in common. An MC module
puts them side by side and lets a behaviour run one of them (`part`) while the
others rest in an initial state, so TLC explores the sum of their state spaces and
not the product, which would hold nothing new. `Parts` in a configuration selects
components; a single one can be run by itself that way. Where components really
meet, the meeting is inside one module: both ends of a session, the registry and
the handlers that follow it, the runner and its pulls, a pool and its callers, a
forwarder and the ingress at the other end, relays and the file they share.

Many components begin in one of several cases (`MCCases`, `MCFetchCases`, ...): what
a track holds, what a peer does, who registers what. A case fixes data, never the
order of events.

Abstractions used throughout. Payloads, names and namespaces are model values; the
prefixes of discovery are sequences of fields because covering is about them. A
critical section is one step; an `await`, or a lock released and taken again, is a
step boundary. Destructors that lock twice are two steps. Wakers, tokio channels
and mutexes are modelled by their contract: broadcast channels drop what a slow
receiver has not taken and say so once, mpsc channels block when full. Logging is
left out, and metrics but the count of lost datagrams.

In `Messages` an octet is scaled to four bits, and all that the code counts in octets
keeps its count: a two-bit tag still announces 1, 2, 4 or 8 octets and a u16 is two
of them. Short strings then reach every form, and a length can exceed what follows
it. Text is a sequence of octets; UTF-8 and URL syntax are left out, but for the file
coordinator's keys, where the lossy conversion decides which names meet (`Utf8Path`).

Definitions named `X_Something`, with a comment that starts "Mutant:", are
plausible bugs of `X`. They show that a property is not empty: with `X` replaced,
TLC finds it violated (`mutants` in `PROJECT.json`).

## 3. Runs

`cd` here and run, for example, `tlc -workers 2 -config MCServe.cfg MCServe`. Each
passing run takes between half a minute and three minutes.

| run | question and answer |
|---|---|
| `serve` | Is what tasks share inside one process safe? `NoLostWakeup`: a parked task that nobody woke has seen the newest value. `QueueConserves`: FIFO, and Ok means popped. `SubgroupsDelivered`, `DatagramsAccounted`: order, no duplicate, a gap only where the window left it, exact drop counts, taps without loss. `TracksSound`: no truncated object that passes for a whole one, caches and modes. `ImplementsLossyLog`: subgroups and datagrams refine LossyLog. |
| `serve_live` | Does everyone who waits get on? `ChangeIsSeen`, `EventuallyDelivered`, `AnsweredWhileServed`. |
| `session` | Are the ends of a session consistent? `NoReplay` and `FlowControl` of request ids; `MapsAgree` with SUBSCRIBE and PUBLISH crossing, deadlines, UNSUBSCRIBE and drops between any two messages, and no protocol error between two ends that run this code. |
| `session_live` | Does every request end? `RequestsAnswered`; `NothingHeldOnTo`: the publisher lets go, what was routed is handled, a namespace can be announced again. |
| `local` | Do registry and followers agree? `ListedWhileSourced` with late destructors of shared sources; `WatcherConverges` over a channel that holds one message: a handler that has caught up, and was not stopped by the limit of requests, has PUBLISHed the registered track, unless it had PUBLISHed an earlier one of the name (the code then skips the new one while the old is known or still served) or its peer SUBSCRIBEd the name. |
| `upstream` | One connection, one subscription of a track while the connection is up, one pull: `LiveIsPooled`, `OneSubscription`, `LeasesServed`, `RootsAreBroadest`, `ImplementsCovering`; `OnlyItsOwnIsDropped`: what was discovered survives a change of roots, a failed call evicts its own connection and no other. |
| `upstream_live` | `UpstreamSettles`: every change of roots, every call and every shutdown of the pool ends, though they wait for locks. |
| `wire` | Does the wire lose or invent anything? `RecodedAlike`: every octet string up to a length that a decoder accepts is encoded again and decoded to the same; the one exception is a FETCH entry whose object or subgroup ID is inferred past `VarInt::MAX`, which the encoder refuses. `ReadAsWritten`: a Reader gets what a Writer wrote, cut anywhere, and never waits for octets nobody owes it. `CopiedFaithfully`: a FETCH response passed on chunk by chunk is a prefix of upstream's, finished only where an entry ends, each payload under its own priority, and never reset for a fault of the relay's own. `AccountsAgree`: no order of calls that both ends of a draft-19 stream accept makes either close the session, and an end is refused a frame, or finds a direction ended too early, only after a GOAWAY or after it has itself read a frame with the wrong one of its two calls. |
| `data` | Does what a publisher writes reach the subscriber's mirror? `MirrorFaithful`, with filters and ids gap for gap; `SubscriptionSound`: what goes wrong with one stream or datagram ends a subscription, or the session, only for the reasons it lists; `LossReported`: each lost datagram is counted and reported, the last one too; `NamespacesFaithful`: told, queued and sent suffixes add up to those announced; `SessionSound`: both ends agree on the set-up, no request is ended twice and the timer never sleeps past one. |
| `relay` | Does a relay keep its word? `FetchSound`: an abandoned response is never taken for a complete one. `RetainedRight`: budgets and windows hold and a FETCH answer has everything up to its End Location, which is short of what was asked for and published only where `largest_location` is (section 6). `NoneCutShort`: who was live when the drain began is redirected, not dropped at exit. `Coordinated`: interests are counted and publisher and subscriber on two relays find each other while nothing of the file was lost; nobody who has left is found, even after a loss; one origin per name for relays that refresh in time. `AcceptedIsReachable`: registrations stand from before the peer is told until the request ends, and a request is answered unless its peer has ended it. `CallersServed`, `CallsSettle`: concurrent misses of the track cache share one request and return. `RelaySettles`: a FETCH, a drain with a timeout whose peers send SETUP and take their GOAWAY, and a dead relay's entry come to an end, and on the way the components keep their types. |
| `queue_wait`, `fetch_copy_end` | violated, see section 6 |

## 4. Bounds

Every bound is a CONSTANT and appears in a guard.

* `serve`: two waiters with two waker identities each, three versions and two
  clones per half: a waker can be replaced between registration and notification,
  and a half can be dropped by its last or a former clone. Three items and two
  poppers. Groups 0..2 with two subgroup ids, windows 1 and 2 and three creates: a
  late group, a duplicate key after pruning, and a saturated group id (2 stands for
  `u64::MAX`). Two readers, one of which starts as a clone, and a tap. Ring depths
  0 (of which the code makes 1), 2 and 3 with four writes. Objects of size 0 and 2 written in chunks of 1 and
  2, largest id 2. Three tracks under one name with two subscribers.
* `serve_live`: the same without taps, with one subgroup id.
* `session`: largest id 7 (the overflow check is met), initial maximum 3 or 6, both
  parities, an honest and a rogue peer. Two names and two requests of either kind:
  the least with a crossing SUBSCRIBE and PUBLISH of one track next to another
  track. `session_live`: one name, so that the requests are for the same one.
* `local`: two namespaces, three remote sources in succession with up to two
  registrations each, four changes, channel capacity 1: a source can be replaced
  while its predecessor's destructor has not run and the follower lags. Two tracks
  of one name, one change of another track.
* `upstream`: eight prefixes on three levels for the covering set; two nested
  prefixes, three leases, two pulls and one change of the upstream relays for
  discovery, so a prefix can be left and taken again during a change; two callers of three calls and three connections for the pool,
  four calls for shared tracks. Identities of slots and connections are used again
  when nothing refers to them, so only the calls are bounded.
* `upstream_live`: two leases with two holders, three pulls, of which one is tried
  again; two calls.
* `wire`: all strings of at most four pieces, which are five octets (the short tags, the
  flags of stream headers and FETCH entries, odd and even keys) and three long integers
  (one of four octets, the largest of eight, the largest of draft-19's form), through 22
  codecs: four pieces are the least in which a length exceeds what follows, or a key
  delta overflows. One codec decodes FETCH entries after an object at `VarInt::MAX`. Every control message once with another behind it, cut after any
  octet; subgroup streams of four header types. FETCH responses of up to three
  entries in chunks of up to 30 octets, that is, cut anywhere. Three kinds of
  draft-19 request, each with one of its ends as the client, one unread frame when another
  is added; GOAWAYs on the control streams cross FETCH only, since they meet a request
  stream of any kind nowhere but in closing the session.
* `data`: two subgroups, in two groups or with the same key, of three units each;
  nine cases of filter, window, origin and datagrams, so a filter starts before,
  within and behind what is there, and ids reach the largest (2, which stands for
  `u64::MAX`). A ring of two and four datagrams of sizes below and above the limit.
  Two overlapping SUBSCRIBE_NAMESPACEs with two suffixes and an event queue of one.
  Ten set-ups over profiles, transports and paths, two requests per session, response
  timeout of one tick.
* `relay`: six FETCHes over where the answer comes from and how upstream ends; ten
  retentions over two competing tracks, one track registered twice, gaps, copies,
  status objects, an object at `END_OF_GROUP`, a history window of one group and
  datagrams in and out of order; drains of three peers that close, stay, stall in their
  close, never send SETUP or withhold the credit for their GOAWAY, with timeouts 0, 1
  and 2; six sets of tasks over two relays that share the file, two of them with tracks
  whose names share a key; three pairs of registrations over moq-api with entries of
  three ticks, refreshed every tick, every two (just in time) and every three (too late),
  where any command may fail; three requests per
  connection and one permit for PUBLISH; two callers, two sources and two tracks, a
  request channel of one.

## 5. Fairness

Only what the code's scheduling gives. Tasks of the runtime that can run do: weak
fairness of pollers and readers (`WatchState`, `WatchQueue`, `Subgroups`), of the
session's receive loops, deadlines and started destructors (`Subscriptions`,
`PublishNamespaces`), of callers and of the loop that drains requests
(`LocalTracks`), of the runner and of pulls that were cancelled, whose drain has a
timeout (`UpstreamNamespaces`). Nothing makes a peer answer, an application drop a
handle, or a writer write. In `RemoteConnections` and `RemoteTracks` calls wait for
tokio mutexes, which are fair queues: strong fairness of the steps that take a
lock. `Fetches`, `Drain` and `Coordinators` have one weak fairness condition each, on
the steps that go on by themselves: the receive loops, started destructors and the
task that answers a FETCH, with its timeout; the relay's tasks, timers and the passing
of time, but no peer, so neither a SETUP nor the credit a GOAWAY needs; commands to
Redis that were begun, which may succeed or fail, refreshes that are due, and the passing
of time, which does not wait for them.
`AnsweredWhileServed` relies on a publisher that takes its requests and ends
the tracks it has taken, and says so.

## 6. Where the code differs from what it says

Two runs find a statement of the source violated:

* `queue_wait`: `push_and_wait_until_popped` (watch/queue.rs:85) promises an error
  if the queue is closed before the item was popped. The notifier lives in the
  shared state, which the waiting sender itself keeps alive: after the receiver is
  dropped it waits for ever.
* `fetch_copy_end`: `copy_from` (session/fetch_requested.rs:651) resets "a truncated
  or malformed upstream stream" with MALFORMED_TRACK. It decodes what it has
  collected of an entry only while the current chunk is not empty, so a complete
  response whose last entry has no payload (a marker, an empty object) and straddles
  two chunks is reset as well.

The modules hold further formulas that state what a doc, comment or test says. TLC
refutes each when it is added to the configuration that runs its module, under the
name by which the MC module has it (`MCUpstreamLive.cfg` for
`NothingLeftAcrossAttempts`). Three need a configuration of their own: `PushedIsPopped`
the one of `queue_wait`; `OneRequest` three callers, `MaxTracks` 3, `MaxPublishers` 2 and no
follower in `MCLocal`; `RetentionEnds` the `LiveSpec` of `RemoteTracks` with two
callers, two calls, three slots and two subscriptions.

| formula | module | what happens |
|---|---|---|
| `PushedIsPopped` | WatchQueue | pop() sleeps past an item pushed between its two locks, until the next push (queue.rs:65) |
| `ClosedReportsEnd` | Track | closed() returns when the track takes its mode, not when it ends (track.rs:306) |
| `NoRequestStranded` | Tracks | a request pushed between the two steps of close() is never answered (tracks.rs:146) |
| `AcceptedIsTerminated` | Subscriptions | publish_received.rs:207 relies on PUBLISH_DONE to end an accepted PUBLISH; a Published that is closed before PUBLISH_OK arrives sends nothing, and the name stays taken at the subscriber |
| `EndIsSeen` | Subscriptions | a Subscribed dropped between queueing SUBSCRIBE_OK and recording it ends with REQUEST_ERROR, which the subscriber ignores (subscribed.rs:311) |
| `ServeErrorsContained` | Subscriptions | closing a mirror without readers fails, and the error ends the session (subscribe.rs:361) |
| `NoHonestDuplicate` | PublishNamespaces | a namespace announced again too soon closes the session (subscriber.rs:600) |
| `CancelledGracefully` | NamespaceStreams | a SUBSCRIBE_NAMESPACE finished before its response has come ends the session with a decode error (subscribe_namespace.rs, finish_request) |
| `OnlyUnionTransitions` | LocalNamespaces | a removal is broadcast after the addition that followed it (local.rs:590) |
| `OneRequest` | LocalTracks | local.rs:957 expects exactly one request per missing track; a failed call removes the entry by name, which may be another caller's by then |
| `RetrievableUntilDrop`, `DropIsReported` | LocalTracks | a late drop removes its successor; a pruned entry is never reported as removed (local.rs:667) |
| `NothingLeftAcrossAttempts` | UpstreamNamespaces | merged roots keep sources registered while the new pull is retried (upstream_namespaces.rs:795) |
| `RetentionEnds` | RemoteTracks | remote.rs:949 ties retention to the upstream subscription; when the session ends by itself, the cleanup task waits for ever and the guard stays |
| `HeldIsRegistered` | Coordinators | coordinator/mod.rs says a namespace "remains registered as long as this handle is held"; an unregistration of the same name by another handle removes it (file_coordinator.rs:117) |
| `AdmittedIsRedirected` | Drain | an arrival admitted while the last session ends can be dropped at exit (relay.rs:154) |

Some things the models do because the code does, and that no formula singles out: a
stream of a group behind the history window ends its whole SUBSCRIBE
(subscriber/ingress.rs:137, an explicit disjunct of `SubscriptionSound`); a query in
the URL travels in the PATH of raw QUIC and not of WebTransport (`SetupAgrees`); the
API coordinator's `--api-ttl` sets the refresh interval only, the server keeps its
own time to live, so a refresh that fails or comes too seldom lets the entry expire while
its handle is held, and another relay takes the name (the hypotheses of `OneOrigin`); a
peer that was admitted before the signal and sends no SETUP, or withholds the credit its
GOAWAY needs, holds even the ceiling of a drain, and one that arrives later does not
(relay.rs:766, session/draft19.rs:105; the hypothesis of `DrainOver`); the largest
location of a datagram track is its last datagram (serve/datagram.rs:176), and of
subgroups the largest in the history, so a FETCH can be told of an end that lies before
what was published (`KnowsLargest` of `FetchRetention`); names that differ share a key
of the file coordinator (file_coordinator.rs:57), and the later registration takes it
(`Alone`); a write that fails after `set_len(0)` loses the entries of every relay
(`lost`); a call for a track that opened in vain on a connection that is gone lets the
next one ask while its own subscription is alive (remote.rs:971); a namespace registered for forwarding only refuses
SUBSCRIBEs (consumer.rs:171).

## 7. Proofs

`tlapm ServeProofs.tla` and so on check the proofs. A theorem holds for every value
of the constants that satisfies the named assumption of its module (`...Assumption`:
numbers are naturals, capacities are not zero, a value that stands for "none" is not
one of the others, group ids stay below the largest as varints do below `u64::MAX`, a
coordinator's calls are finitely many, a registration is refreshed after a tick or later, a
retained object's id is at most END_OF_GROUP, which is `VarInt::MAX`); TLC evaluates these assumptions on every run. No
theorem restricts a schedule or a number of tasks, and two have a hypothesis of their
own, `SuffixesFit`: there are no more namespaces below a prefix than
`MAX_KNOWN_NAMESPACE_SUFFIXES`. With more, the side that asked ends the session, as
`subscribe_namespace.rs` says, and `NamespacesFaithful` speaks of sessions that go on.
`MCData.cfg` satisfies it with equality. The larger inductive invariants were checked with
TLC before they were proved.

**How the proofs fit together.** A component is proved in terms of its own `Spec`.
Where the run checks a property of the whole layer (`ServeSpec`, `SessionSpec`,
`DataSpec`, `UpstreamSpec`, `LocalSpec`), one more step is needed: a behaviour of the
layer is a behaviour of each of its parts, because a step of another part leaves its
variables alone (`PartsRun` and its like in `ServeProofs` and `UpstreamProofs`,
`SessionIsEach` in `SessionProofs`). The theorems of a component are then used through
the INSTANCE by which the MC module takes it. The parts of `MCData` share its variables
by EXTENDS, so their invariants are carried through `DataNext` directly; those of the
wire and relay layers are proved of `Draft19Spec`, `CoordinatorSpec` and so on, which the
layer runs as one of its parts (of `Draft19Spec` the behaviours that section 4 names).

| theorem | states | along which invariant, and why it is needed |
|---|---|---|
| ServeProofs `NoWakeupLost` | `NoLostWakeup` | `WaitersCurrent`: a notification reaches a parked task only if its waker is listed, and a poll parks only on the newest epoch, so both are added. `TypeCorrect`, `LiveCorrect`, `WakersCorrect` come first. |
| ServeProofs `QueueSafe` | `QueueConserves` | `QueueInv`: an entry knows whether somebody waits for it, no item is there twice, and what has left is confirmed. Without the middle part one pop could confirm another's item. |
| ServeProofs `TracksAreSound` | `TracksSound` | `ObjectsInv`: what each reader took of an object and what is left of it add up to what was written (`Counted`, `Bookkeeping`), so a reader that hears the end has it whole; `ModeInv`: the `TrackWriter` is live until a mode takes over or the track ends; `BroadcastInv`: every requested track waits in the queue once, and what `drop()` has drained is no longer in it. |
| SubgroupsProofs `Delivered`, ServeProofs `SubgroupsSafe` | `SubgroupsDelivered` | a subgroup that is not retained has left the window (`PrunedIsOld`), so a key created again after it was pruned leaves it at once (`RetainedIsFresh`): the only reason why a reader, who remembers a number and no keys, is handed no key twice. `CursorExact` ties what it received to its cursor. |
| DatagramsProofs `Accounted`, ServeProofs `DatagramsSafe` | `DatagramsAccounted` | a reader finds a datagram by its distance from the newest, so the ring must hold the newest without a gap (`RingInv`), and what it received and counted add up to its cursor (`CursorExact`). |
| `Refines` of both, ServeProofs `BothRefine` | `ImplementsLossyLog` | each action maps to a step of LossyLog or a stutter, under the invariants above. |
| SessionProofs `NoIdAcceptedTwice` | `NoReplay` | `CompactionExact`: the receiver forgets most ids it has seen, so the invariant says what the mark and the set above it stand for, with the parity that ties the mark to the sequence. Whatever the peer sends. |
| SessionProofs `FlowControlled` | `FlowControl` | `HonestInv`: what is on its way from an honest sender is within the budget and not yet accepted (`SenderHonest`), the maxima on their way grow (`MaximaGrow`), and so do those it was blocked at (`BlockedGrows`). So no honest peer is refused. |
| SessionProofs `MapsAlwaysAgree` | `MapsAgree` | `TracksInv`: every entry is of a request of its kind and a new id has none at either end, an alias is bound only once the answer is there, and what is on its way fits the state of the end it comes from: that is why no message finds an entry it may not find. `AnnouncedInv`: every error the session task is about to report is of a request that was made and has left the map. |
| SessionProofs `PlaneIsSound`; `MirrorAlwaysFaithful` | `MirrorFaithful` | `MirrorInv`: for each stream there is a sequence of units that it carries (`Carried`), and the mirror has a prefix of just those (`Received`); the sequence is a witness no variable holds, since the sender forgets what it filtered. `ServingInv`: PUBLISH_DONE is sent after the last stream was opened, so its count is final. |
| SessionProofs `SubscriptionAlwaysSound` | `SubscriptionSound` | `RoutingInv`: a stream that is read was opened, a subgroup the mirror let go of is behind the window, and the entry of a SUBSCRIBE keeps its writer, because the first stream that loses it takes the entry along. |
| SessionProofs `NamespacesAlwaysFaithful` | `NamespacesFaithful` | `NamespacesInv`: replaying all that is queued and sent (`Pipe`) on what the asking side knows gives what the answering side has (`After`), and every prefix of the pipe is one the asking side accepts (`InOrder`, `RespondsFirst`); the sum alone would not exclude a NAMESPACE_DONE before its NAMESPACE. `ActiveInv` ties the two sides' reservations of a prefix. |
| SessionProofs `LifeIsSound`, `EndsAlwaysAgree` | parts of `SessionSound` | `LifeInv`: each set-up is sent once and first (`SetupInv`), a response on its way is to a request that was made and fits its kind (`LinkInv`), one that waits has not ended (`WaitInv`), and the timer that sleeps past a deadline has a permit waiting for it (`TimerInv`). |
| SessionProofs `SessionAlwaysSound` | `SessionSound` | the types of the four parts of the layer from the invariants above; for the forwarder of datagrams `LossInv` needs `LossBound`: what was lost was read and what was read was written. |
| SessionProofs `LossSafe` | `LossReported` | `LossInv`: the counters are what the metric has, but for the datagrams found too large since the last report, which the next read or the end of the track reports. |
| SessionProofs `FetchSafe` | `FetchSound` | `FetchInv`: each direction holds one of a few sequences of messages, FETCH_OK only after the stream was finished, and the stream is finished only when all was written and upstream agreed. |
| RelayProofs `DrainSafe` | `NoneCutShort` | `DrainInv`: who is in the broadcast has arrived, and once all sessions were gone after the signal, those of the broadcast stay gone. |
| RelayProofs `AccountsAlwaysAgree` | `AccountsAgree` | `AccountsInv`: the frames on the way are the difference between the two accounts. An end does not know what it will read, and a DONE that `receive_message` hands out settles nothing, so what is owed is counted without it (`Owed`, with the history `misread`). A FIN is preceded by what was owed, a DONE is not (`FinSettled`, `DoneOwed` in `FrameInv`); the answer comes once and before anything that depends on it (`AnswerInv`); each end's account says what it was told (`EndInv`); a control stream carries one set-up and one GOAWAY (`ControlInv`). |
| RelayProofs `FileHolds`, `CoordinatorsHold` | `Coordinated` | `FileInv`: while nothing was lost, what the file says, and what it will say once the lock's holder has written, each count the interests (`CountInv`) and have the keys (`HostInv`): two statements, since truncating and writing are two steps. `MeetInv`: while an interest has the lock, it was told of every namespace that is out, so the one that comes second is told of the first. `GhostInv` needs no such condition: whatever was lost, each entry of the file and of the change under way has a task that has not taken it back, and no interest counts more than its holders. |
| RelayProofs `RetentionHolds` | `RetainedRight`, `RetentionTypeOK` | `BudgetInv`: the budget is the sum of the accounts; `RoomInv`: an insert between two rounds still has its object to add and knows how many groups come before its own, so it never evicts that one; `GuardInv`: registrations come in order and the newest held one has the key; `AskInv`: the planned range runs to its end, which leaves out nothing that is wanted while the publisher's largest location is the largest there was (`PlannedEnd`), and what the plan found comes before the first location that is missing, whatever is evicted after. Sums are functions on the subsets of a finite set (`Summed`), which exist and do not depend on the order (`SummedExists`, `SummedAny`) by the least cardinality at which they would not (`AllNaturals`); the answer is listed by rank (`InOrderLists`). |
| RelayProofs `OneRelayHolds` | `OneOrigin`, a part of `Coordinated` | `ApiInv`: while nobody deleted the key, the entry is that of everyone who keeps it (`Kept`: held, the latest refresh did not fail, the interval is shorter than the time to live), and lasts longer than the wait for the next refresh, unless that is under way. |
| RelayProofs `SessionSafe` | `AcceptedIsReachable` | `RequestInv`: what a request holds and has sent, by the step it has come to, and that it ends in silence only if the peer had ended it before (`withdrawn`); and permits are counted (`Permits <= MaxPublishTracks`). |
| RelayProofs `Sourced` | `ListedWhileSourced` | `RegistryInv`: an entry points to a source that was made for it and whose destructor has still to run; `ChangesInv`: every change has a number of its own, so that announcing and broadcasting neither lose nor repeat one (`ChangesBalance`). |
| RelayProofs `Converges` | `WatcherConverges` | `FollowInv` (with `RegistryInv` and `ChangesInv`): a handler that has received all that was sent of a namespace knows what was sent last, or has taken the list since, and then any difference is a change still to be sent (`FollowsList`). `TracksTold`: a published track in the map is the last of its name and the channel has its addition; a handler that has not come to it has still to come to that change, and a track is passed over only after another was PUBLISHed or the peer SUBSCRIBEd the name (`Aware`). |
| RelayProofs `CallersHold` | `CallersServed` | `Routed`: a call past its look has a source, one whose request failed has lost it, and until a track is published or a source goes no track lives but the entry. `Writers`: the writer of a requested track is with one call, in one queue or with one source, so that a failing call or a receiver that goes ends no other call's track. |
| CoveringPrefixSetProofs `RootsAreRight` | `RootsAreBroadest` | covering is a partial order, and of the prefixes that cover a given one, which form a chain, the shortest active one is a root. `InterestsCoveredOnce` follows. |
| UpstreamNamespacesProofs `Refines`, `Keeps`; UpstreamProofs `RunnerCovers` | `ImplementsCovering` | every command the runner takes is an Add, a Remove or a stutter of the covering set, since the queues hold well-formed commands (`Queued`); and a namespace is registered under a root that covers it (`Placed`), so the root that takes it over is known. |
| UpstreamNamespacesProofs `RootsServed`, `NoTwoAtRelay`, `Follows`, `SourcesFollow`, `TypeCorrect`; UpstreamProofs `LeasesFollowed` | `LeasesServed` | `Rooted`: the states of roots are those of the roots and of the ones that retire with the transition (`Served`), a pull that has not ended is of a root or an old one of the transition (`Homes`), so a new pull meets no overlapping one. `Settling`: the commands of one prefix are in the order of its generations, and what is waiting, deferred or queued, takes the runner from the active generation to the one in the slot: this is what makes a lease that is dropped while its prefix is taken again harmless. `Heard`: the last event in the queue agrees with what its pull was told. |
| UpstreamProofs `NoneLost`, `DropsItsOwn` | `LiveIsPooled`, `OnlyItsOwnIsDropped` | `PoolInv`: who holds a lock is at a step that holds it, a slot that is dialled for is empty and in the map, or was taken from it by the shutdown, and the task of a session knows its slot. |
| UpstreamProofs `TracksHold`, `SharedOnce` | `OneSubscription` | `TracksInv`: a subscription is with the call that opens it, with one that opened in vain and has still to clean up, whose subscription has ended if the connection is up, or with its cleanup task (`Owned`), a reader is cached in the slot of its subscription (`TrackCached`), who opens one does so for the slot in the map (`Mapped`), and somebody will look whether that slot is empty (`Watched`). |

**Only model-checked**, and why:

* liveness (`ChangeIsSeen`, `EventuallyDelivered`, `AnsweredWhileServed`,
  `RequestsAnswered`, `NothingHeldOnTo`, `UpstreamSettles`, `RelaySettles`,
  `CallsSettle`): the prover does not reason about fairness and ENABLED;
* what computes over data of any length: `RecodedAlike`, `ReadAsWritten` and
  `CopiedFaithfully` rest on codecs over strings of octets. The library's induction
  theorems take an operator as a parameter, which no installed backend instantiates.
  (Where a sum over a finite set was needed, as for `RetainedRight`, it is had without them,
  from the least counterexample; see `RetentionHolds`.)

Every other invariant and action property of the runs has a theorem in the table.

No module declares a RECURSIVE operator, which would cost the SMT backend in every
module that uses it.

## 8. Not modelled, and the plan

Left out for good, with the reason:

* **Set-up of QUIC and TLS** (`moq-native-ietf`): sockets, certificates, ALPN; no
  state of the program's own outlives a call. The profile ALPN selects is an input of
  `SessionLifecycle`.
* **Publishers, players and test clients**: media parsing (MP4, MMTP), file and socket
  I/O, command lines. To the library they are the application, and what an
  application may call is in the modules of serve and session.
* **qlog, mlog, metrics, web, configuration**: output that no decision depends on.
  The one metric the code goes out of its way for is in `DatagramForwarder`.
* **Whole-track streams and the objects mode** of `serve/`: neither the session nor
  the relay uses them; `serve/broadcast.rs` and `util/` are not compiled.
* **Text**: UTF-8 beyond the file coordinator's keys, URL syntax beyond path segments,
  JSON and HTTP of moq-api; a refresh interval of zero, which tokio refuses by a panic.
* `drain_and_reject_subscribes` of the relay's session is unreachable, because
  `can_subscribe` is always true.

Components that are modelled partly say in `PROJECT.json` what is missing: REQUEST_UPDATE
and the content of TRACK_STATUS, the merge of FETCH taps into one stream, text.

What is left: theorems about the codecs, for octet strings of any length. An abstract specification of the whole relay (a
subscriber gets a subsequence of what the publisher wrote) would compose `Ingress`,
`Subgroups` and `ObjectForwarder`; each is proved against its own contract today.
