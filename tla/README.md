# A specification of rns-mavlink

`rns-mavlink` bridges a MAVLink flight controller, attached to a serial port, to
ground station software over the Reticulum mesh network. Two processes do it: `fc`
beside the flight controller and `gc` beside the ground station. This directory
holds TLA+ modules of the two, the TLC runs that check them on small instances, and
theorems about them that TLAPS proves for every value of the constants.

## The system

| component | source | state | operations | interacts with |
|---|---|---|---|---|
| link authorization of the ground control | `src/gc.rs` `LinkState`, `link_event_loop`, `send_announce_loop`, `recv_announce_loop` | `link_state` (Disconnected, PendingAuth, PendingKey, Authenticated), behind a mutex | `link_activated`, `got_auth`, `got_fc_announce`, `auth_timeout`, `check_status`, `link_closed`, forwarding of data | the transport by link events, announces, `find_in_link`, `link_close`; the socket loop by the shared `link_state` and station address |
| ground station socket | `src/gc.rs` `socket_loop` | the socket, the station address, a 10 s silence timer | search of the subnet, listen, forward | the ground station by UDP; `link_state` |
| flight controller bridge | `src/fc.rs` | `data_link`, `data_link_request_ts`, each behind an async mutex; the serial port | `link_loop` with `check_status`, `link_event_loop`, `read_port_loop` | the transport by announces, link events, `link`, `link_close`; the serial port |
| MAVLink parser and log | `src/lib.rs` | a buffer, a rolling file | `parse`, `log_mavlink` | both processes |
| identity seed | `src/lib.rs` | a file | load or create | start-up |
| configuration and dashboard | `src/dashboard.rs`, `src/bin/*/dashboard.rs` | configuration file, log file | GET, PUT, restart of the service | the service by systemd |
| throughput counters, radio set-up, entry points, tools | `src/lib.rs`, `src/bin/` | counters, command lines | | |

The protocol between the two: `gc` and `fc` announce themselves. When `fc` hears an
announce of `gc` and has no data link it requests one. When the link comes up `gc`
draws a nonce and sends it; `fc` signs its own address and the nonce and sends both
back; `gc` checks that the address is the configured one and verifies the signature,
or waits for an announce of `fc` when it does not have the key yet. From then on data
passes in both directions.

What makes it hard:

- **interleaving**: four to six loops per process are branches of one `select!` and
  share mutexes. Links come and go in the transport while an event about them waits in
  a broadcast channel, so every event is handled in a state other than the one it
  was sent in.
- **loss**: the broadcast channels drop their oldest event when they lag. The radio
  drops packets. The transport may or may not send a Closed event for a link that its
  own side closed.
- **time**: the 15 s handshake deadline of `gc` and the 15 s link request time of
  `fc` race the events they wait for.
- **restart**: any loop that exits ends the process, and systemd starts it anew while
  the other process keeps its links.

## Modules

| module | what it is |
|---|---|
| `GcLink` | the link authorization of the ground control and what its socket loop does to links |
| `AuthSession` | what that promises: an abstract session, without states, timeouts, queues and keys |
| `GcLinkProofs` | the inductive invariant of `GcLink`, and the state invariants proved from it |
| `GcSessionProofs` | further theorems about `GcLink`: what a step may do, and that it implements `AuthSession` |
| `FcLink` | the three loops of the flight controller bridge, to the granularity of their awaits |
| `FcSession` | what those promise: an abstract flight controller, without mutexes, timers and event channels |
| `FcLinkProofs` | the inductive invariant of `FcLink`, its safety properties, and that it implements `FcSession` |
| `Bridge` | both processes and the radio between them: `GcLink` and `FcSession` composed |
| `BridgeProofs` | that each end keeps its own specification in the composition, and what the two agree on |
| `GroundStation` | the loop of the ground control that finds the ground station and listens to it |
| `GroundStationProofs` | its inductive invariant |
| `MavlinkLog` | the MAVLink parser and its log |
| `MavlinkLogProofs` | its inductive invariant, for every stream of messages and other pieces, whatever those look like |
| `Service` | a bridge process as a service: start-up from its files, saving the configuration, restarting it from the dashboard page |
| `ServiceProofs` | the inductive invariant of `Service`, and theorems proved from it |
| `MCGcLink`, `MCFcLink`, `MCBridge`, `MCGroundStation`, `MCMavlinkLog`, `MCService` | instances for TLC |

How they fit together: `FcLink` implements `FcSession` and `GcLink` implements `AuthSession`. `Bridge`
extends `GcLink` with an instance of `FcSession`, and replaces what `GcLink` leaves to the environment of a
link (links that come up, answers, data) by what the flight controller sent and the radio delivered; every
step of it is still a step of either. `GroundStation` is the detail behind `station` in `GcLink`.
`MavlinkLog` is what happens to the bytes that `GcLink` and `FcLink` only pass on.

### GcLink

Every handler of `LinkState` runs with the `link_state` mutex held from first to last
line, awaits included, so each handler is one action.

| variable | code |
|---|---|
| `linkState` | `link_state`. A nonce is named by the link it was drawn for; `due` is `Instant::now() >= timeout` |
| `inLink` | what `find_in_link` and `status()` would return: none yet, open (Active or Stale), closed, gone |
| `challenge` | the fate of the nonce of each link; history, and the peers' memory |
| `events` | the in-link event broadcast channel, capacity `EventCap`, oldest dropped |
| `announces` | announces of the flight controller in the announce channel; more than `AnnounceCap` is a lag |
| `keyKnown` | whether `get_out_destination` finds the flight controller |
| `station` | whether the address of the ground station is known |
| `served` | links over which data passed; history |
| `lockedUp` | the event loop waits for ever with `link_state` locked, and so does every loop that needs it |

| action | code |
|---|---|
| `HandleActivated`, `HandleData`, `HandleAuth`, `HandleClosed` | the arms of `link_event_loop` with `link_activated`, forwarding, `got_auth`, `link_closed` |
| `AnnounceTick` | `check_status` and then `auth_timeout` in `send_announce_loop` |
| `HandleFcAnnounce`, `AnnounceLag` | `recv_announce_loop` with `got_fc_announce`, and its exit on a lag |
| `Restart` | any other exit of a loop, and the start of a new process |
| `LockUp` | the two waits that may never end, below |
| `StationFound`, `StationSilent`, `ForwardGroundData` | `socket_loop` |
| `LinkUp`, `LinkDown`, `Forget`, `PeerAnswers`, `ChallengeLost`, `PeerSends`, `FcAnnounces`, `DeadlinePasses` | external: transport, peers, clock |

`got_auth` is modelled as written: an answer that comes over another link than the
challenged one has that link closed, and is then processed on. An error of `link_close` is only logged
everywhere, so `CloseLink` may leave an open link open (`CloseFails`; only `bridge_orphan` does without).

The handlers lock more than `link_state`. `recv_announce_loop` holds the destination of an announce while it waits for
`link_state` (gc.rs:170, 174); `got_auth` holds `link_state` while it locks the destination it looked up
(gc.rs:572, 573). If the transport hands out one mutex for both, the event loop and the announce loop then wait for
each other. `link_activated` calls `link_close` with the guard of the link in hand (gc.rs:489); if `link_close` locks
that link, it waits for itself. Both are what `LockUp` does: `AuthMeetsAnnounce` and `CloseWhileLocked`. After it
nothing that needs `link_state` runs until the process is restarted. Whether the mutexes are the same is not in
this repository, so `LockUp` may happen and need not, the liveness properties except it, and it is no finding.

Peers answer as `src/fc.rs` does, on the link that carried the challenge, over the
nonce they were sent and in their own name. Malformed payloads are therefore not modelled.

### FcLink

The loops of `fc` take and release their mutexes in the middle of what they do, so a step
here is what a loop does from one await that may suspend it to the next, and `pc` says
where each loop is suspended. `dlHeld` and `tsHeld` say which suspended loop holds the
guard of `data_link` or `data_link_request_ts`; a guard that lives within one step is
not recorded. In particular `check_status` (fc.rs:145) tests the link in an `if let`
whose scrutinee is the lock, so the guard lives until the end of the block, and locks
the same mutex again inside. The sources are edition 2024, which shortens the life of
such a temporary only for the `else` branch.

| loop | `pc` values and the lines where it is suspended |
|---|---|
| `link_loop` | `recv` (174), `check` (146), `timer` (158), `take` (149, 164), `clear` (155, 170), `connect` (182), `stamp` (186) |
| `link_event_loop` | `recv` (271), `reply` (310), `assert` (319), `clear` (321), `take` (325) |
| `read_port_loop` | `recv` (208), `forward` (222), `send` (241) |

The `announce`, `ping` and throughput loops of both processes touch none of this state;
they appear as causes of `Restart`. `debug_assert!` at line 319 waits for a mutex in a debug build and is
absent from a release build, so the step to it is optional and the runs cover both builds. The one at line 320
waits for the mutex that line 321 takes next, so the two waits are one step. `link_close` may fail (fc.rs:152, 167),
which is only logged: `CloseTaken` then leaves the link as it was. It is called with the address of the
destination where gc.rs passes a link id, so failing may well be the rule.

`FcSession` has one action per promise: `Request`, `Discard`, `AnswerNonce`, `StartAnew`, and `Activate`,
`Close`, `GetNonce` for the transport. The refinement mapping is the identity on `dataLink`, `status`,
`nonceSent` and `answers`; everything else of `FcLink` is hidden, and most of its steps are stutters.
Discarding covers the two takes of `check_status` and that of a Closed event; the link is closed by then or
with that step, or it stays open because it could not be closed. `Request` asks that no link is open, the
discarded ones included, which is more than the `is_none` of fc.rs:183. That the code keeps to it, and
that a nonce is answered on its own link, is not visible in the code of any one loop.

### Bridge

| variable | meaning |
|---|---|
| those of `GcLink`, those of `FcSession` | the two processes |
| `air` | packets under way, at most `AirCap`; delivered in any order, or lost |
| `lastAnswer` | the link the flight controller answered a nonce on last; history |
| `written` | links whose ground data reached the serial port; history |

`Gc...` actions are handlers of `GcLink` with what they send (the nonce of `link_activated`, the data of
`socket_loop`); `Fc...` actions are steps of `FcSession` with what they send (the proof that establishes a
link, the answer, serial data); `Deliver...` take a packet to the other end. Each end notices the end of a
link on its own (`GcLosesLink`, `Close` in `FcManagesLink`) or never. Both processes restart at any time; a new
ground control has no links, so what is under way for the old one is dropped with it
(`GcStartsAnew`). Announces of the flight controller are heard or not (`HearAnnounce`), those of the ground
control as well (`FcEnd!Request` may or may not happen). All links are of the flight controller: `GcLink`
checks other peers.

### GroundStation

| variable | code |
|---|---|
| `phase` | where `socket_loop` is: `start` (197), `probe` (228), `window` (256), `listen` (274) |
| `n` | the host to be probed |
| `address`, `config` | `ground_station_address`, `gc_udp_address` |
| `inbox` | senders of the datagrams the socket buffers, at most `InboxCap` |
| `up`, `failing`, `running`, `pending` | the network, a socket whose receives fail, the hosts that answer heartbeats, those with one to answer |
| `heard`, `restarts` | history |

`UseConfigured`, `BeginSearch`, `Probe`, `GetReply`, `WindowEnds`, `Receive` and `Silence` are the steps of the
loop between its awaits. `tokio::time::timeout` polls the receive before the clock, so the two timeouts fire
only on an empty inbox. Any datagram ends the window, whoever sent it and whenever; any datagram
puts off the silence, and so does a receive that fails (gc.rs:310), since the next one has 10 s from its own start; in the
window a failed receive is as good as none. An address that is unreachable does not stop the search. `Restart` comes back with any
configuration, as after a save in the dashboard.

### MavlinkLog

One parser with its log; both processes have one for either direction. The bytes sent are pieces, each named by
its place in the order sent. A message is a run of pieces, the first of which holds the magic byte and the length. Any
other piece, within a message or between two, may look like the start of a message of whatever length
(`Claim`): a magic byte in the noise of a line, or in the middle of a message whose start was lost.

| variable | code |
|---|---|
| `next`, `lost` | the place of the piece that comes next, the places that were lost on the way or with a process |
| `reader` | the bytes the `PeekReader` of the parser has not used yet |
| `phase` | where the loop that owns the parser is: `idle`, in `parse`, in `log` |
| `frames`, `log` | the `Drain` handed to `log_mavlink`, the rolling file |
| `padded` | the parser is that of `socket_loop`, which is handed the type byte before every datagram (gc.rs:281, 306) |
| `dropped`, `cut` | history: messages parsed and never written; messages that came in two datagrams |

| action | code |
|---|---|
| `Deliver(k)` | the next `k` pieces are put into the reader by `MavlinkParser::parse` |
| `ReadMessage`, `ReadNothing` | one round of its loop; `EndsCall` says which message breaks it off, and `ReadNothing` is the end at an unfinished message or at no message at all |
| `WriteFrame`, `EndLog` | `log_mavlink` writes a frame; it ends, with the frames left if a write failed |
| `Lose(k)` | the next `k` pieces never come |
| `Restart` | the process ends, at any time, with the reader and the frames; the log file stays |

Where the reader stops (`FirstStop`) is external, `mavlink::read_any_raw_message`: it skips what cannot
start a message, leaves what may be an unfinished one in the reader with everything behind it, and skips one byte of one
whose checksum is wrong. A false start therefore holds up complete messages behind it until as many bytes came as it
claims; they are then found. `PromptOnCleanLine` says that messages do not wait, under the premise `NoFalseStart` on what is outside
them; `NoMessageMissed` and `LoggedInOrder` need no premise. There is no recursion in the module: the loop of `parse` is the repetition of its round.

### Service

`fc` and `gc` start in the same way and have the same dashboard, so one module stands for
either. `std::fs::write` truncates a file and writes it from its start, in two steps
between which the process may be killed (a restart of the service sends
SIGTERM, which nothing handles) and between which another request may run. A text is a
name with a size; one that is written over a longer one leaves a mixture. What a
process has written survives it; a power failure is not modelled.

| variable | code |
|---|---|
| `proc`, `running` | where `main` is, and the configuration it loaded |
| `config`, `seedFile` | the two files |
| `known` | the seeds of the identities the service appeared under; history |
| `saving` | the text each page's PUT request is writing |
| `page`, `replaced` | where `restartService` is in each page, and whether a process came up since it asked |
| `lastSaved`, `torn` | history: the last save that was reported; whether a save since was cut off, failed or overlapped another |

| action | code |
|---|---|
| `Start`, `LoadSeed`, `CreateSeed` | `main`, `load_or_create_id_seed` |
| `Exit` | the process ends, for any reason outside the dashboard |
| `BeginSave`, `EndSave`, `SaveFails` | `handler_put_config` up to the truncation, after it, and its error path |
| `AskRestart`, `SeeService`, `GiveUp` | `restartService` and `waitForService` in the page |
| `HandleRestart`, `RestartFails` | `handler_restart` when systemctl works and when it fails |

## Runs

| run | question | bounds | result |
|---|---|---|---|
| `gc_safety` | can any order of events, losses, timeouts and restarts authenticate or serve the wrong link, open a session with a stale answer, extend a deadline, or leave a payload waiting for a key that is there? Does `GcLink` implement `AuthSession`? | 3 links (2 of the flight controller), 2 peers, event channel of 2, announce channel of 1 | holds, 1 876 948 states |
| `gc_live` | does every handshake end, and is every lost link given up, without help from peers and with lost events? | 2 links, event channel of 2 | holds, but for the lock-up above, 100 442 states |
| `fc_loops` | are nonces answered on their own link, is there one open link at a time, can a request always be given up, when do the assertions on an activation fail, does a read go out over one link, can loops wait for each other in a circle? Does `FcLink` implement `FcSession`? Can the three loops block each other, and does a lost serial port end the process? | 2 links, event channel of 3, reads of up to 2 chunks, limit of 2 empty reads, with and without debug assertions, fairness | holds, but for the self-wait below, 104 696 states |
| `fc_closed` | is a data link found closed discarded, as fc.rs:148 logs? | 2 links, event channel of 2 | **violated** |
| `fc_timeout` | is an unanswered request given up, as fc.rs:162 logs? | 2 links, event channel of 2 | **violated** |
| `bridge_safety` | do the two ends agree on the session, does ground data reach the serial port only in one, and does a session begin only on the last answer? | 2 links, event channel of 2, 2 packets under way | holds, 2 217 044 states |
| `bridge_orphan` | does a link that is open at both ends end up authenticated, or closed? | 2 links, event channel of 4, so that nothing is lost in it, 1 packet under way, no close fails, fairness | **violated** |
| `station` | does the only station that runs become the station, is a silent one given up, and is the station one that was heard? | hosts 1, 2 and 4, of which 2 to 4 are searched, inbox of 2, 2 restarts, fairness | holds, 155 232 states |
| `mavlink_log` | is what is received whole logged once, in order and without delay? | 6 messages of 1 to 3 pieces behind a piece of none, 2 of them do not parse, 2 other pieces that look like starts, calls of up to 5 pieces | holds, 300 674 states |
| `service_files` | does the service keep its identity, and the file the last configuration saved, over kills and overlapping saves? | 2 pages, 3 texts of 2 sizes, one of them invalid, 2 seeds | holds |
| `service_empty` | does a process never start on an empty configuration, as main.rs:55 asserts? | the same | **violated** |
| `service_restart` | does "Service restarted successfully" (dashboard.rs:549) mean that a new process answers? | the same | **violated** |

Why the bounds suffice. Two links of the flight controller are what a restart or a loss
leaves behind (an old one the other side still believes in and a new one), and the
third, of another peer, is any other. All the state of `gc` names at most one link and
each handler compares it with one other; a third link of the flight controller would
repeat the second. A channel of two events makes every event losable and still lets two
events be out of step; the larger channel of `bridge_orphan` shows that
its counterexample does not need a loss. `DataCap` stops peers from filling the channel
with data events, which change only `served`. The serial limit is 2 instead of 30 and a read
fills up to 2 chunks: what matters is one step below the limit and one chunk between
the first and the last. Links are established once: a Reticulum link id is not reused.
Two pages and two sizes are what it takes for two saves to overlap and to mix.
Two packets under way are enough for one to overtake another, and an answer can be
delayed past a whole later handshake. In the subnet, 3 is a host that is searched and does not exist, 4
is the last one before the wrap, and 1 is never searched but may send. `MaxRestarts` bounds the one unbounded
event of `GroundStation`, since a loop that is restarted for ever finds nothing. Messages of 1, 2 and 3 pieces are cut
before, in and behind their first piece; calls of up to 5 pieces hold several messages and parts of others;
the two that do not parse stand together, so that a call may end at the one and the next at the other. One false start
stands within a message, to be skipped once that is whole; the other between two, claiming more than comes before the
next message is complete.

### Fairness

`GcLink!Fairness` is weak fairness of handling an event, of the announce tick, of
handling an announce or its lag, and of time passing. The loops are branches of
one `select!` that is polled until one of them exits, and each goes back to its receive or
its sleep after every handler, unless the handler waits for ever: that is `LockUp`, after which the loops
are not enabled, and `PendingResolves` and `LostLinkReleased` except it. The announce tick can act only when the link is lost or
the deadline has passed; both stay so until it or another handler acts.
`FcLink!Fairness` is strong fairness of each loop: tokio's mutex serves its
waiters in order, so a loop waiting for a mutex that is released again and again gets
it; the announce receive has a 5 s timeout; reading a port that is gone returns at
once.
`GroundStation!Fairness` is weak fairness of the socket loop, which is a branch of the `select!` and has a timeout on
every receive, and of every answer to a heartbeat that was received; nothing makes a host run or the network
come back or the socket recover, so `RunningStationFound` speaks of runs in which all three last. It also asks that no other host
speaks and that the station, while another is taken for it, does not speak unasked: the first host that sends
anything is taken, and kept for as long as anyone sends (gc.rs:256, 274). Under those conditions a wrong host, taken for
a late answer or for a station that stopped since, is given up and the running one becomes the station. `BridgeFairness` is used by
a violated property only, and is strong on purpose: with the loops of the ground control, the answers of the
flight controller and every packet that may be delivered again and again, the orphan remains. Otherwise nothing
is assumed of the network, the peers, the radio, the ground station, or a
serial port that is there: they may be silent for ever.

## What the violations show

- `fc_closed`, `fc_timeout` (fc.rs:149, fc.rs:170). `check_status` waits for a mutex whose
  guard it holds itself. When the data link is closed before its Closed event
  is handled, the whole bridge stops: the event loop and the serial loop wait
  for `data_link` too. When a request is not answered within 15 s only `link_loop`
  stops, but no link is requested ever again. `fc_loops` shows that there is no
  other way to block.
- `bridge_orphan` (gc.rs:395, gc.rs:457). A link that comes up while another is held is
  ignored for good, and a Closed event resets the state whatever link it was about. The flight
  controller loses its first link, requests a second and has it established before the ground control has
  handled the Activated event of the first. Then either the second Activated event is ignored and the first
  handshake given up; or the first link is closed, the second handshake begins, and the Closed event of the first ends it.
  (TLC reports the one or the other.) Nothing looks for the link that is open. Its data is dropped, and the flight
  controller, whose link is active, asks for no other. Until that link closes for a reason of its own the bridge is
  silent. No close fails and no loop is locked up in this behaviour.
- `service_empty` (bin/gc/dashboard.rs:82). A process killed between truncating and writing the
  configuration leaves an empty file. `main` panics on it at every later start, and the
  dashboard that could repair it is not served. One page is enough: its save button stays
  enabled while it restarts the service. The same holds for `fc`.
- `service_restart` (dashboard.rs:544). The page ignores the answer to its restart request and takes
  any answer to its polls for a restarted service, also when systemctl failed.

## Proofs

The theorems hold for every value of the constants; the only assumptions are the named ones on the constants
(`ConstantsAssumption` of each module, `BridgeAssumption`). Those about `GcLink` hold for any set of links and peers, any
ownership and any channel capacities; those about `FcLink` and `Bridge` for any set of links, channels, reads and
packets under way; those about `GroundStation` for any subnet; those about
`MavlinkLog` for any stream of messages and other pieces, cut in any way, but for checksums that are right by accident; those about `Service` for any pages, texts, sizes
and seeds.

| module | theorem | statement |
|---|---|---|
| `GcLinkProofs` | `TypeCorrect` | `Spec => []TypeOK`, which includes the bound of the event channel |
| | `OnlyFcAuthenticated` | `Spec => []AuthenticatedIsFc` |
| | `OnlyFcServed` | `Spec => []ServedOnlyFc` |
| `GcSessionProofs` | `WaitsForAnnounce` | `Spec => []KeyAnnounceWaits` |
| | `OnlyFreshAnswers` | `Spec => FreshAnswer` |
| | `OneDeadline` | `Spec => DeadlineKept` |
| | `SessionLinkKeptOpen` | `Spec => KeepsSessionLinkOpen` |
| | `ImplementsSession` | `Spec => SessionSpec` (`AuthSession`) |
| `FcLinkProofs` | `TypeCorrect` | `Spec => []TypeOK` |
| | `NoLinkLeaked` | `Spec => []NoLeakedLink` |
| | `RequestsTimed` | `Spec => []PendingLinkTimed` |
| | `AnsweredOnOwnLink` | `Spec => []AnswersOnOwnLink` |
| | `AssertionsKept` | `Spec => []AssertionsHoldUnlessDiscarded` |
| | `WaitsEnd` | `Spec => []NoCircularWait` |
| | `ReadKeepsLink` | `Spec => ReadGoesOverOneLink` |
| | `ImplementsFcSession` | `Spec => SessionSpec` (`FcSession`) |
| `BridgeProofs` | `BridgeRunsGroundControl` | `BridgeSpec => Spec` of `GcLink` |
| | `BridgeRunsFlightController` | `BridgeSpec => FcEnd!Spec` of `FcSession` |
| | `BridgeTypeCorrect` | `BridgeSpec => []BridgeTypeOK` |
| | `EndsAgree` | `BridgeSpec => []SessionAgreed` |
| | `OnlyAnsweredWritten` | `BridgeSpec => []WrittenInSession` |
| | `OnLastAnswer` | `BridgeSpec => SessionOnLastAnswer` |
| `GroundStationProofs` | `TypeCorrect` | `Spec => []TypeOK` |
| | `FoundIsHeard` | `Spec => []StationHeard` |
| `MavlinkLogProofs` | `TypeCorrect` | `Spec => []TypeOK` |
| | `NothingReceivedMissed` | `Spec => []NoMessageMissed` |
| | `InOrder` | `Spec => []LoggedInOrder` |
| | `Prompt` | `Spec => []PromptOnCleanLine` |
| `ServiceProofs` | `TypeCorrect` | `Spec => []TypeOK` |
| | `IdentityKept` | `Spec => []OneIdentity` |
| | `LastSaveKept` | `Spec => []FileIsLastSave` |
| | `OnlyTornUnloadable` | `Spec => []UnloadableOnlyIfTorn` |

**GcLink.** None of the invariants is inductive by itself. That an authenticated link belongs to the flight
controller and has an answered challenge rests on what the payloads in the event
channel say (`Genuine`), because a handler looks only at the payload; and on the
payload kept in PendingKey (`KeptPayloadOK`). That an answered challenge stays
answered rests on each link being activated once: `HandleActivated` would otherwise
draw a second nonce. So `QueueOK` says that an Activated event is the only
one of its link and that its nonce is not drawn, and `FreshLinks` that a link which never came
up has no nonce. `IInv` conjoins these with the type invariant. Two kinds of lemma
carry most of the argument: `QueueTail`, `QueueBroadcast` and `QueueFrame` say that a good channel
stays good under each operation on it, and `CloseLinkOK` that closing
a link, which may or may not broadcast, does. Each action then has one lemma.
The refinement uses three step lemmas, one per variable of `AuthSession`
(`AnsweredStep`, `ServedStep`, `SessionStep`), and `StepRefines` puts them together.

`KeepsSessionLinkOpen` says only that a handler does not close the link it leaves authenticated. It does not say that
a session ends by its own link alone: the Closed event of any link ends it (gc.rs:631), which `bridge_orphan` is about.
`KeepsSessionLinkOpen` and `DeadlineKept` relate a state to the next, so they need the invariant
before the step only, and `AskedOnItsLink`: PendingAuth holds the link its nonce was drawn for.

**FcLink.** `NoLeakedLink` and `AnswersOnOwnLink` look false at first reading: a Closed event takes whatever link
`data_link` holds (fc.rs:325), and a nonce is answered on whatever link it holds (fc.rs:310). They
hold because of what waits in the channel (`QueueOK`): every event in it, and the one being handled
(`HandlerOK`), is about the current data link, and a Closed event is the last of them; so when a Closed event is
handled the channel is empty, and no link is requested before. `check_status` is the exception: at fc.rs:164 it takes the
link while events about it wait, and when `link_close` fails the link stays open besides. But from there it waits for a
guard it holds itself (`Discarded`), so that no other link is ever requested by that process; at fc.rs:149 it waits
before the take. Once the self-wait is repaired this argument falls, and with it both properties, as the mutant
`GuardDropped` shows: a link that could not be closed stays open beside the next one, and an event of the link that was
discarded may be handled when another has taken its place. `GuardsOK` ties `pc` to the holders of the two mutexes, which is what
`ReadGoesOverOneLink` rests on, and `NoCircularWait`: `link_loop` is the only
loop that holds one mutex while it waits for the other, and it does so in either order (fc.rs:164, fc.rs:186); but then no
other loop holds the one it waits for and needs the one it holds.
`AssertionsHoldUnlessDiscarded` is about the assertions of fc.rs:319 and 320. In a debug build the first of them does fail, and the process
panics, when an Activated event is handled after the take at fc.rs:164: `data_link` is then None and its mutex free. The property
excepts that one case. For all others it needs one more layer, `ActivatedOK`, because the assertions read two mutexes that other
loops write between the event and its handling: of all events that wait or are being handled one is an activation at
most, and as long as it is, the link is no longer pending and its request time is noted or `link_loop` is just
about to note it, with `data_link` locked (`RequestGuard`). `check_status` clears the time of a pending link only, so it
cannot get in between. For the refinement, each action is one step of `FcSession`
or leaves its four variables alone.

**Bridge.** Each end takes only its own steps, so the theorems of `GcLinkProofs` and `GcSessionProofs` hold here, and
`BInv` begins with the invariant of `GcLink`. What is added is what one end may conclude about the other. A packet under
way says something that was true of its sender when it was sent and cannot become false (`AirOK`): the link
was established, the nonce was drawn, the answer was given. So loss and reordering do no harm.
`EndsOK` is what has been concluded from packets that arrived. `HandshakeOK` is the one relation that is not
monotone: while the ground control waits on a nonce that was answered, that is the last answer given, and
the data link of the flight controller is no other link that was ever challenged. That the flight controller has no second link
open (`FcOK`), also when a discarded one could not be closed, is what `Request` of `FcSession` promises. A second challenge is drawn only in
Disconnected and the data link moves only to links that were never used, which is why it holds across
restarts of either end. `GcEffect` and `FcEffect` state once what a step of either end leaves, and
`GcStepBInv`, `FcStepBInv` and `RadioBInv` use nothing else of them.

**GroundStation.** The station is a host that was heard because every sender in the inbox is (`InboxHeard`), and
the record of who was heard is cleared only when the inbox is empty.

**MavlinkLog.** The properties speak of what was logged; the argument is about what the reader holds. `ReaderOK`: it
holds pieces that came, in the order sent, each behind every message that was parsed. So whatever it parses next comes
behind the log, and is new (`OrderOK`), and a message that is read whole was received whole
(`ParsedReceived`). `NothingMissed` says the converse: a message of which nothing was lost so far, even one that
is still on its way, was parsed or cut, or its pieces stand in the reader one behind the other (`HeldAt`), to its end or up
to the end of the reader. It is what makes `NoMessageMissed` inductive: a message may be begun in one call and
completed in another, and in between the reader must not be used beyond its start. `HeldIsStop` is the reason that it is
not: the start of a message that is held is a place where the search stops, so the first such place is not behind it.
`StillHeld` and `StillOrdered` carry both over using up a part of the reader, `Filled` over a call that fills it.
`PromptOnCleanLine` is shown where a call ends (`ReadNothingOK`): what stopped it looks unfinished, so under `NoFalseStart` it is a piece
of a message; if a complete message waited behind it, that earlier message would be complete too, hence held, and the
search would have stopped where it begins, and there it is not unfinished (`StartClaims`).

**Service.** `SeedInv` adds what the seed file holds before the service appears under it: it
is empty and no identity is known until the file is written, so that a kill in
between does no harm. `FileInv` adds that, as long as nothing is torn, at most one save
is under way and the file is empty meanwhile: the write that ends it then leaves
no mixture.

Every safety property the passing runs check is stated by a theorem. Only model-checked:

- liveness (`PendingResolves`, `LostLinkReleased`, `OnlySelfWaitBlocks`, `UnpluggedShutsDown`, `RunningStationFound`,
  `SilentStationGivenUp`), which is outside the prover's reach. `NoCircularWait` is the safe part of
  `OnlySelfWaitBlocks`, and is proved;
- the violations, which are single behaviours.

What is left to do: `Bridge` composes `GcLink` with `FcSession`. That `FcLink` may take the place of `FcSession` there
follows from `ImplementsFcSession` for the four variables they share; a composition that states it with the mutexes
and queues of both processes in one module is not written.

## Not modelled

- Reticulum, the radio, the mavlink crate, tokio, systemd and the ground station software are environment,
  modelled from how the sources use them. In particular it is not known here whether `link_close`
  locks the link it closes (gc.rs:489).
- Message contents, signatures and addresses are reduced to what the guards tell apart. Peers send well-formed
  payloads, so a payload that is too short (gc.rs:382) does not occur. Sizes are left out: a datagram
  larger than a packet of the link is dropped as a whole (gc.rs:291).
- `Throughput` (lib.rs:231 to 333) adds sizes under a mutex and prints them; an increment and a reset are all there is
  to it, and nothing else reads the counters.
- The radio configuration converts settings and sets up the radio client before anything else starts.
- The dashboard's log, statistics and configuration pages only read and format.
- A read error of the serial port (fc.rs:255) changes no state, so repeated errors are not told apart from reads that
  do not happen.
- Of the entry points, the command line and the set-up of interfaces; of a configuration, whether its
  addresses can be parsed (an error ends the process, as `Exit` does at any time).
- The stand-alone tools and the build files share no state with the bridge; the restart policy of the unit files
  is that a process which ended starts again.
