# Verification of Multi Screen Pass

Multi Screen Pass shares keyboard and mouse among Windows PCs of one LAN. Every
PC runs the same program; one of them is elected *coordinator* and hands out
*leases*: only the controller that holds the lease on a target may send its
input there. This directory holds TLA+ models of that program, written from the
Python code, the TLC configurations that check them on small instances, and
proofs of what matters most, checked by TLAPS for every value of the constants.

    tlc -config Network.cfg MCNetwork       # one run
    tlapm LeaseServiceProofs.tla            # one module of proofs

`PROJECT.json` maps every definition to the lines it models and lists the runs,
the theorems, the findings and the hazards.

## 1. The system

| component | state it keeps | operations | hard because |
|---|---|---|---|
| **Lease service** (`control/coordination/service.py`) | `_leases`: target to controller and expiry time | claim, release, heartbeat, local input override, bound/unbound listeners, expiry thread | handlers of different peers run in different threads; the lock covers the table, not the frames; the registry is consulted before the lock |
| **Lease client** (`client.py`, with the target state of `routing/router.py` and the authorisation of `routing/sink.py`) | requested target, router state, authorised controller, pending override | request/clear a target, control loop (claim again, heartbeat), grant, deny, lease update, local input, change of coordinator | frames cross with the user's next wish; no lock; a pause longer than the TTL; frames of two coordinators |
| **Election** (`election.py`) | online-since times, current coordinator, challenger and its time | `pick()`, registry listener | every thread of the program picks; no lock; hold-down and health grace |
| **Peer registry and links** (`transport/peer/*.py`) | node to connection, back-off, reject times | dial, accept, bind, unbind, close, send | both ends dial; whoever closes runs the unbind; listeners run after the lock |
| **Node list** (`service.py`, `client.py`, `ui/node_dialogs.py`, `config_reloader.py`) | the list in file and context, a revision on each side | edit, request, check, apply, broadcast, accept | check and apply are two critical sections; lists of two threads overtake |
| **Own address** (`state_watcher.py`, `session.py`) | last address, pending change with its retries | detect, probe, apply, request, retry | lists, refusals and time-outs cross with the next change |
| **Input path** (`routing/router.py`, `routing/sink.py`, `injection/`) | held and remotely pressed keys, pressed keys per peer | forward, release on handoff, inject, release on loss of authorisation | the check, the tracking and the injection of a key are separate steps |
| **Layout editing** (`service.py`, `client.py`, `ui/layout_editor.py`) | edit lock, layout revision, draft | begin/end/publish, bootstrap, switch of the automatic change | frames of several threads cross; a holder that goes |
| **Layouts and screens** (`model/display/`, `routing_table.py`) | topologies, overrides, detected monitors, table of edges | resolve, replace, save, load, build the table | each node rebuilds the layout from what it has itself |
| **One-shot requests, remote update** (`service.py`, `client.py`) | tracked requests, handlers by kind | request, command, status, time-out | service and client share a dispatcher; late answers |
| **Group update, installer sharing** (`service.py`, `app/update/group_update.py`) | jobs, candidates, requesters, cache; shares, tickets | request, command, result, time-out, next candidate; transfer | answers after a time-out, candidates and receivers that disconnect |
| **Self update** (`ui/settings_page.py`, `status_window.py`, `app/update/`) | busy flags, pending command, outcome files | check, install, hand over to a helper, report, deliver | the program that reports is being replaced |
| **Configuration store** (`app/config/`) | files and the context in memory | load, replace a section, write, roll back, apply | three threads, several files, failures in between |
| **Auto switch** (`control/routing/edge_*.py`, `auto_switch.py`) | holds, cool-down, anchors, the remote pointer | a move at an edge, router listeners | hook thread and others change the target; rounding |
| **Capture, synthetic input guard, local cursor** (`msp_platform/`) | waiting modifiers, marks of injected input, clip and cursor scheme | hooks, injection, watchdog | two hooks' threads; delays; crashes |
| **Session, UI, status, logs** (`app/bootstrap`, `app/ui`, `control/state`) | little of their own | wiring, widgets, reporting | order of start and stop |

The components talk through three channels. *Frames*: newline-separated JSON on
one TCP connection per pair of nodes, handled one after another by the receive
thread of the connection, each handler to its end; a frame for the coordinator
that is itself is a direct call. *Listeners*: the registry calls the service,
the client, the election and the sink when a connection is bound or unbound,
after it has released its lock, in the thread that bound or closed; the router
calls the cursor and the automatic switch likewise. *Calls*: the window, the
control loop (every 500 ms), the expiry thread (every 250 ms) and the router
thread call client, service and registry directly.

What makes each component correct, in a sentence: a target is held by at most
one controller and changes hands only through being free; a controller that is
active holds the lease of the coordinator in office and is let in, or is
stopped; no lease stays that nobody wants; nodes do not hand over the office in
haste; all nodes end with one node list and no accepted edit is lost; no key
stays pressed on a target that is left; two nodes end with one connection; all
end with the latest layout, and its edges lead to the same place on every node;
every request is answered or times out; an update is reported to who asked for
it; nothing that was saved is lost; the cursor is given back; a user's own input
is told from what is injected.

## 2. Modules

| module | models | built on |
|---|---|---|
| `LeaseTable` | the promise: targets, holders, give and free | |
| `LeaseService` | the lease part of `CoordinatorService` and the registry events it hears | refines `LeaseTable` |
| `LeaseSession` | the service with its clients and the frames between them | extends `LeaseService` |
| `Takeover` | an active controller while the coordinator changes | a table of one target |
| `Election` | `CoordinatorElection` of one node over its registry | |
| `PeerLink` | `PeerDialer`, `PeerServer`, `PeerRegistry`, `PeerConnection` of two nodes | |
| `NodeList` | the node list under one coordinator | |
| `OwnAddress` | a node's own address in its list and the coordinator's | the coordinator's handler in one step |
| `LayoutEdit` | the edit lock, the revisions of the layout, the bootstrap | |
| `ScreenLayout` | what is in a layout: topologies, overrides, files, edges | frames in one step |
| `RequestRelay` | one-shot requests, who handles which frame | |
| `GroupUpdate`, `InstallerShare` | jobs for the group; transfers of the installer | |
| `SelfUpdate` | update page, helper process, outcomes | |
| `ConfigStore` | the files, the context and the threads that save | |
| `KeyCapture` | keyboard hook, hot key, modifiers that wait | |
| `InputPath` | `InputRouter` at a controller, `InputSink` at its targets, the connections between | a coarse coordinator of its own |
| `SyntheticInput` | injected input and the user's at a target | |
| `EdgeSwitch` | holds, clip, cursor and router at the edges; exit, crash, watchdog | |
| `PointerPath` | where the pointer is, pixel by pixel | |
| `...Proofs` | proofs | the module they are named after |
| `Network`, `Desk`, `Controller`, `Membership`, `Devices` | bundles of the parts above, side by side, for any values of their constants, see 3 | instances; `Membership` extends `LeaseService`, `Devices` extends `InputPath` |
| `MCNetwork`, `MCDesk`, `MCController`, `MCLeaseService`, `MCInput` | the values of those constants for TLC | |
| `MCLeaseSession`, `MCInputPath`, `MCNodeList`, `MCRequestRelay`, `MCKeyCapture`, `MCScreenLayout` | instances of one module | |

Definitions marked *Mutant of X* are deliberate bugs: the property named for
them in `PROJECT.json` fails when X is replaced by them, which shows that the
property says something about X.

### LeaseService

A thread's remaining steps are data: `todo[th]` is the list of what it has still
to do, its head the next step. A handler that reads the registry, takes the
lock, changes the table and sends two frames is four steps, and any other
thread may run between them; this is the granularity of `_lock`. Threads: the
receive thread of each peer's connection (`Recv`), the thread that binds and
announces a connection (`Link`), the receive thread of the connection that
broke, which unbinds it (`Last`), and the expiry thread. `Claim` is `_on_claim`
up to the lock (`_target_is_online`), `ClaimLocked` the rest; likewise
`Heartbeat` with `HeartbeatLocked` and `HeartbeatOffline`. `Release` and
`Override` begin with the lock, so they are one step and their sends. `Close`,
`Unbind`, `UnboundLocked` and `Bind`, `BoundLocked` are `PeerConnection.close`,
`PeerRegistry.unbind` and `bind` and the service's listener: a connection that
is closed counts as offline at once, is unbound later, and the listener hears of
it later still, when the peer may be back. A send that fails closes the
connection and runs the unbind, listeners included, in the sending thread before
it goes on (`SendFails`). Expiry times are counted down in ticks (`ttl`).

Frames are open here: any peer may send any lease frame about the pairs in
`Controls` whenever its receive thread is idle, so nothing depends on the
clients' good behaviour. Frames that are sent go nowhere.

Abstractions: a connection's new and old receive thread never run a handler for
the same peer at the same time (the old one has to be idle to see the end of the
stream); a peer bound again while its previous binding is still being announced
waits for that announcement; a lease frame about an unknown target, which
`_validate_target` refuses, is left out.

### LeaseSession

Adds, for every peer, what its client wants (`req`, `active`: the requested
target of client and router, and whether the router is active), whom its sink
lets in (`auth`), whether it has reported local input (`overriding`), and the
two directions of its connection (`up`, `down`). A client's handler is one step.
The coordinator stays the same and no connection breaks (`Flaky = {}`), so what
is left is order and time (`Takeover` has a change of coordinator). `RequestTarget`, `ClearTarget`, `ControlTick`,
`LocalInput`, `OnGrant`, `OnDeny`, `OnLeaseUpdate` are the client's methods;
`Deliver` and `SendDown` put the service's `Claim`, ... and `Send` on the two
channels. A node that holds several roles, the coordinator's own client
included, uses the same frames; the coordinator's own calls are direct, which
only removes interleavings.

### Election

One node's election. `Read` and `Decide` are the two halves of `pick()`: the
tracking is brought in line with the registry and a snapshot taken, then the
decision is made on it. Several threads pick, so between the halves other picks
and listener calls fall. The registry's listener is called late (`late`). Times
are kept as ages: ticks since a node came online, and since the challenger did,
up to the larger of the two delays.

Abstractions: a pick is shorter than a tick; the decision itself (lines 88-125)
is one step; two pending calls of the listener for the same event and node are
one. `hold_down_sec = 0` and `health_grace_sec = 0` are left out: the program
creates the election with its defaults (`session.py:114`).

### NodeList

A list is the set of edits it contains, so that a list that was built without
seeing an edit shows it. `Save` and `Request` are the page's two calls,
`Check`, `Apply`, `Count`, `Build`, `Send` the coordinator's handler, one step
per critical section or call; `Accept`, `Take`, `Note` the client's. The
coordinator's own client is called in the middle of the broadcast, by the same
thread. `Failing` nodes may fail to save a list that differs from the one they
have. `calm` is history and no part of the program. The reading of the list that
goes with a refusal is part of the step that refuses.

### InputPath

A key goes from `phys` (what the user holds) through `queue`, the router's
thread and `link[t]` to `os[t]` (what injection has left down at a target).
`Route`, `SendEvent`, `TrackRemotePressed` are the three stages of
`InputRouter.run` with the locks between them; `Swap` is `_swap_state`, called by
the window, by the client's receive thread and by the thread that closes a
connection (`OnPeerUnbound`), and `ReleaseKey` is one frame of `_send_releases`.
At a target, `Handle`, `TrackPressed`, `Inject` are the three stages of
`InputSink.handle`, run by the receive thread of the controller's connection;
`SetAuthorizedController` runs in that of the coordinator's, `ReleasePeer` in
that of a connection that has been closed, and `ReleaseEntry` is one key of
`_release_entries`. `races` is history and no part of the program: it records
which party was overtaken in the middle of an event ("router": the target
changed while an event was being sent; "sink": keys were released while one was
being handled; "link": a connection was bound in place of one that had been
closed and not been unbound).

The coordinator is a third node and serves one request at a time; `Meddle` does
at any time what expiry, heartbeats, repeated claims, local input and other
controllers may do to a lease. When the controller is the coordinator itself,
input and lease updates come over one connection and are handled by one thread,
so that the "sink" race cannot occur; this only removes interleavings.

Abstractions: keys and buttons are one set, pointer moves and wheel events leave
nothing behind, and a key that repeats is one press; the events start where
`InputCapture` has decided to forward them; the client's look at its request is
one step with the change; the coordinator can always be reached, so a claim
that cannot be sent is left out; a connection breaks again only after the
controller has unbound it; a broken connection is closed at the target
when what has arrived there is handled (a send of the target that fails earlier
and closes it in another thread is left out); both ends are bound again in one
step.

### PeerLink

Two nodes. A connection has an end that dials and one that serves, each of them
shaking hands, open, closed and then unbound on its own; a node binds the first
end it can and refuses others while that one is open. `DialConnect` and
`DialBind` are the two halves of `_dial_once`, `ServeBind` and `ServeReject` the
outcomes of `_handshake_inbound`; `HandleReject` closes whatever is bound, as
the code does. `OneConnection`, `EndsAgree`, `GetConnected`.

Abstractions: a connect that fails leaves no trace; a node that is joining counts
as known; the wait after a reject is a state, not a time. `GetConnected` excepts
`Crossing`: two nodes that keep dialling each other at the same time may refuse
each other's connection for ever, although the comment at `peer_dialer.py:147`
expects one of the two to survive.

### RequestRelay, GroupUpdate, InstallerShare

`RequestRelay`: a request is sent and then tracked; the coordinator carries it
out or relays it; an answer or a time-out ends it. On the coordinator, service
and client register handlers in one `FrameDispatcher`, and the later one wins
(`HandlerOf`), which is why the outcome of a remote update is never relayed. What the
coordinator answers or broadcasts to itself is dispatched at once (`Reply`, `Broadcast`).
`RequestsEnd` holds all the same, since requests time out.

`GroupUpdate`: `OnRequest` joins a job or starts one; `DispatchNext` and
`SendCommand` are the choice of a candidate under the lock and the send after
it, where candidates are taken in the coordinator's order (`Rank`): itself first, then
by priority; `OnResult`, `ExpireOnce` and a connection that breaks move the job on. The
second attempt after a failed send is made whatever has become of the job
meanwhile (`service.py:1077-1095`), as in the code. `JobInHand`: a job is always
somebody's; `AnsweredOnce`; `Answered`.

`InstallerShare`: tickets and turns. That a transfer ends (`Release`) is an
assumption of fairness: the code sets no time limit on the socket.

### LayoutEdit and ScreenLayout

`LayoutEdit` is about frames: a thread of the service changes lock and revision
in one step and sends what follows in steps of its own, so frames of two threads
cross. Late state frames can restore a holder that has given the lock back; a
snapshot of the bootstrap may carry a new revision with an older layout, and the
revision filter of the client is what saves it (`LatestRevision`). A drag that is
dropped after the lock was lost stays on that node's screen only. The layouts
that `on_node_moved` publishes without saving are left out.

`ScreenLayout` is about content: cells of a grid, a rectangle per node, detected
monitors and overrides; publishing, saving, loading, detection and bootstrap, each
handled by everyone in one step. `SameEdges`: wherever two nodes have the same
screens, the edges lead to the same place. It excepts nodes that are `ahead`:
the editor keeps the layout it has published untrimmed, the others rebuild it.
What the model showed besides: a monitor map with misaligned tops gives a logical
layout whose cells do not touch, which the dialog then refuses for ever; nodes
that come to overlap after a monitor was detected make the coordinator ignore
every later update until one is dragged away; unplugging a monitor drops its
override. Adding, removing and renaming nodes are left out.

### Takeover

The leases of two coordinators, one in office and one that takes over, with a
controller and a target whose elections change their mind at different times.
`Accepts` is `_accept_coordinator_frame`: frames are taken from the coordinator
one's own election picks, and epochs only grow. `LetInByOffice`, `LeaseFollows`.
`missed` is history: a target that resets its authorisation after the new
coordinator has sent it (`client.py:812-816`) is not told again, because
heartbeats only renew. Heartbeats are in time, and the hold-down of the election
(3 s) is longer than a tick of the control loop (0.5 s).

### SelfUpdate and ConfigStore

`SelfUpdate`: the page's flags, the command of another node that waits for them,
the helper that runs the installer once the program has ended, and outcomes, which
are written to a file before they are sent and consumed when they were.
`UpdateReported`, `PageGetsFree`. Statuses of progress are left out. Seen in the
model, and no property: an outcome may be delivered twice (with the same event
id); a command whose update has no installer address ends silently; an
installation by hand during a remote check reports to whoever is pending; a second
command within the 350 ms before the program quits may launch a second helper.

`ConfigStore`: what a call changes before it has `_persist_lock` (`Begin`), what
it loads, writes file by file and applies under it. A section is the number of the
call that wrote it. The delayed saving of layouts and the restoring of backups are
never asked for by the program and are left out; a crash between two files is left
out too (the files would be a mix). `SavesInForce`.

### OwnAddress

`Detect` is the watcher's look at the addresses, `Apply`, `Check`, `Number` and
`Send` the steps of a change, `Listen`, `Retry` and `GiveUp` the session's handler
of node lists, `Receive` the client's acceptance, `Expire` its time-out. Two
threads, the watcher's and the receiver's, run them. `AddressFollows`: when
nothing is under way and the connection stands, the coordinator's list has the
node's address, or the user was warned, or one of three things has happened that
the property excepts and section 3 describes (`crossed`, `refused`, an ambiguous
change). Left out: changes of coordinator, the user's own edits of the list on
this node, and joining a group.

### KeyCapture and SyntheticInput

`KeyCapture`: keys from the keyboard to the router. `phys` is what the user
holds, `forwarded` what the target has been sent, `local` what the local system
sees. The keyboard hook's callbacks are one step, the mouse hook's flush three,
in a thread of its own; `raced` records a key pressed during a flush, which can
lose or reorder a modifier. `ModifiersAccounted`. Also seen: a trigger that
repeats after its modifiers came up is sent as a key whose release is swallowed;
a modifier that repeats after a flush and then takes part in a hot key is down at
the target and its release never sent, unless the hot key changes the target.

`SyntheticInput`: injection remembers what it injects, with a time to live; the
hooks look for an equal event and drop it. A mark is its age, in a list for each
kind of event, as in the code. `OverrideIsWanted`: nobody takes a node
back from its controller but the user (events of a target that has just been let
go are excepted: releasing a button moves the pointer to the corner without a
mark). Assumed: the system calls a hook within `Delay`, which is not longer than
`Grace` and shorter than a key is remembered (`HooksAreQuick`). Injections that fail leave marks that swallow an equal event of the
user's; while remote input streams in, the user cannot override, by design.

### EdgeSwitch and PointerPath

The same files twice, with different data. `EdgeSwitch` keeps what is held,
clipped, hidden and shown: the mouse hook's thread takes a move through
`MoveBegins` to one of its ends, `ApplyRoute` is a switch, a warp or a block, the
router's listeners run after its lock has been released (`listeners`, `raced`),
and `Quit`, `Gone`, `Guard`, `Start` are exit, crash, the watchdog and a new start.
Pixels are left out: a move may be at any edge. Clearing the clip and restoring
the cursors are assumed to succeed. `ClipOnlyWhileHeld`, `CursorFollowsRouter`,
`CursorComesBack`. Seen and not stated: a failure in the middle of
`apply_transparent_system_cursors` leaves cursors that `show_cursor` does not
restore; automatic switching that is disabled while on a target blocks the way
back; an old program's watchdog may free a new one's clip within its first quarter
of a second (`Start` waits for `Guard`).

`PointerPath` keeps positions: two screens of the controller and two of a target,
of unlike heights. `PointerOnItsScreen`: the remote pointer is on the screen it is
taken to be on. `ThereAndBack`: a pointer that leaves straight and comes straight
back arrives at the pixel it has left from; this is what the rounding of ratios is
for. Switches that the cool-down refuses are nondeterministic. Seen and not
stated: the way back ends on the edge's own pixel, so the next move may bounce even
inwards; a target's internal warp also moves the local cursor to the remote's
coordinates (asserted by `tests/control/test_auto_switch.py:2090`); a choice in the
window hands over the position of the last event in the controller's own
coordinates.

## 3. Runs

| run | instance | shows |
|---|---|---|
| `LeaseService` | two controllers contend for a flaky target, TTL 1; beside it, a node with four sets of addresses, two moves, two edits of others, one break, one failing save | `ImplementsLeaseTable`; `AddressFollows` |
| `SessionQuiet` | two controllers, two targets, no lease runs out | `OneControllerRemains`, `PendingDecided` |
| `Input` | one key, two targets, one of them flaky, two requests; four screens of three or four rows; a target with two marks and two events at a time | `TypeOK`, `SinkReleases`, `OnlyHeldKeysDown`; `PointerOnItsScreen`, `ThereAndBack`; `OverrideIsWanted` |
| `Network` | two nodes with two connections each way; three nodes and five requests; two jobs and one peer; three transfers and five tickets; coordinator and one editor with three events; controller and target both flaky; two coordinators and three changes | `OneConnection`, `EndsAgree`, `GetConnected`; `RequestsEnd`; `JobsInOrder`, `Answered`; `OneTransfer`, `EveryoneServed`; `LatestRevision`, `EditAnswered`; `LeasesFreed`; `LetInByOffice`, `LeaseFollows`; `NetworkTypeOK` |
| `Desk` | three nodes, two pickers, grace 1, hold-down 2; three editors, two edits, any node may fail to save; two commands, one click, two breaks; three threads, three saves, one failure; three nodes side by side, three sets of monitors | `ChallengerTracked`, `NoHastyHandoff`, `SettlesOnBest`; `ListsMoveOn`, `EditSettled`; `UpdateReported`, `PageGetsFree`; `SavesInForce`; `SameEdges`; `DeskTypeOK` |
| `Controller` | one controller that quits, a target that is touched, clock running; Ctrl, Alt, Q and another key; three screens in a row | `LeaseOrStop`; `ModifiersAccounted`; `ClipOnlyWhileHeld`, `CursorFollowsRouter`, `CursorComesBack`; `ControllerTypeOK` |

**Bundles.** `Network`, `Desk`, `Controller`, `Input` and `LeaseService` check
several parts that have no variable in common: a variable `part`, chosen in the
first state, says which of them runs, and the others stay where they begin. The
state space is the sum of the parts, never their product, and a property of one
part says the same as it would alone. Fairness is that of the part that runs. The
bundles `Network`, `Desk`, `Controller`, `Devices` (run `Input`) and `Membership` (run
`LeaseService`) are modules of their own, which the proofs are about; their `MC` modules only give the
values TLC needs.

Six runs are meant to fail; each is a disagreement between the code and what
the README, a comment or a test says, and its counterexample is short:

* `SessionHandoff`: c releases t, d claims it, and the two `lease_update`s are
  sent by two threads after the lock. The target may receive d's first and
  then the release: d is active, holds the lease and is not let in; its
  heartbeats renew and repair nothing.
* `NodeListLost`: the revision is checked in one critical section and counted in
  another; two edits with the same base are both accepted.
* `InputStuck`: `handle` finds the controller authorised; then
  `set_authorized_controller(None)` releases what is tracked so far, and after
  that the key is tracked and injected. The controller's own release of it
  arrives unauthorised and is dropped, and the key stays down.
* `RelayLost`: on the coordinator, its client has taken over the frames by which
  its service would relay the outcome of a remote update and the request to
  detect screens; the node that asked learns of neither and reports a time-out.
* `HotkeyStuck`: a hot key makes a target active; from then on the hook blocks
  every key locally, the releases of the hot key's modifiers included, which the
  local system has seen go down.
* `MapLost`: nodes overlap since a monitor was detected; a map edit is published,
  ignored by the coordinator, and called saved by the page.

More statements of docs, comments or tests that TLC finds violated; they are
defined in the modules and have no run of their own:

* `OneControllerRemains` when leases may run out (`FairSessionSpec`): a controller
  paused for longer than the TTL loses its lease to another one and is never
  told, since `_expire_once` tells only the target and `_on_heartbeat` drops the
  heartbeat of somebody who is not the holder. Both stay active
  (`README.md:4`: one node controls at a time).
* `HolderLetIn` (`Takeover`): after a change of coordinator a target may refuse
  the holder for as long as the lease lasts (comment at `client.py:813-814`).
* `LockIsWanted` (`LayoutEdit`): a lock granted to a peer whose connection broke
  meanwhile stays with nobody (`test_coordinator_service.py:504`).
* `LayoutInForce` (`ConfigStore`): a call that brings the context in line with
  the files takes back the layout of one that waits for the lock (docstring at
  `config_reloader.py:86`).
* `OnlyUnansweredTimeOut` (`RequestRelay`): an answer that comes before the
  request is tracked is forgotten, and a time-out reported.
* `ManualCheckEnds` (`SelfUpdate`): a check by hand that fails and is passed to the
  group reports nothing when the answer is lost (`README.md:91`).
* `OwnAddress`: after an ambiguous change that a probe has resolved, the last
  address is not brought up to date (`session.py:571`), so going back to it is not
  noticed (`README.md:99`); a list that cannot be saved puts the old address back and
  leaves the change pending, without a warning; a list that arrives between
  applying and sending makes the old address be sent. Not an exception but of the same
  kind: the loopback address stays when no address is followed by several.

What the passing runs leave out of the same modules is exactly what these need:
late heartbeats (`PromptNext`) and a second controller; two threads that tell one target; "sink" in
`races` for `InputStuck`; `calm` in `NodeList`, which records whether edits have
taken turns and every peer could save; `missed` in `Takeover`; `raced` in
`KeyCapture` and `EdgeSwitch`; `ahead` in `ScreenLayout`; `crossed` and `refused`
in `OwnAddress`. Each of the three kinds of `races` matters to
`OnlyHeldKeysDown`: without the exception for one of them, TLC finds a key that
stays down. In `LeaseSession` a claim repeated by the control loop is answered
twice, and the second grant, arriving after `clear_target`, makes the router
active again (`client.py:849` compares targets only if there is a requested one).

**Bounds.** Two controllers and one target are enough for every conflict over a
lease, since handlers touch one target (expiry and a roaming controller touch
two: `SessionQuiet`). TTL 1 makes "just renewed" and "about to run out" different
states. `MaxTodo` lets a send fail as the last step of a thread (0: never).
`MaxUp`, `MaxDown` = 1 let a client send a new frame only when the last one has
been taken; the frames of one `RequestTarget` (release and claim) exceed `MaxUp`
together. Grace 1 and hold-down 2 keep "tracked", "healthy" and "ripe" apart. Two
edits by any of three nodes give a stale and a current revision at the check and
at the clients. In `InputPath`, one press, two requests and one change of the
lease or broken connection let a key be down, on its way or being released at each
change of target; with two presses and two of those changes (21.7 million states,
one target) nothing else shows, but it takes too long for a regular run. In
`PeerLink` two connections each way let a dialler begin again while the last one is
still being closed; one fault is a break, a time-out or a change of a list. Two
jobs and two requesters let a request join, follow or miss a job. Three transfers
have one before and one behind the one that gives up. Three saves are one before,
one in between and one after. Three heights of screens make both roundings happen,
up and down. Two marks and two events let them cross. Each bound is named in the
module that has it.

`CHECK_DEADLOCK FALSE` stands where the system may stop: all connections idle, all
leases free, nobody asking, all edits made. The bundles contain such parts.

**Fairness.** Threads that have work go on with it (weak fairness per thread):
they are operating system threads, and nothing they do waits for another, except
a send on a full connection, which `SessionFairness` includes as one action of
the thread, enabled only when there is room. The expiry thread and the control
loop run periodically. The control loop is strongly fair because it may find the
connection full each time it is looked at, while in the program its send waits.
`TimePasses` is weakly fair: a clock does not stop. In `Election`, picks end, and
there are moments at which nobody picks; then time passes (strong fairness of
`Tick`, which is not enabled while somebody picks). Dial loops, handshakes and
rejects come to an end, connections that break are dialled again, helpers run,
the watchdog looks. Users owe nothing: no request, edit, click or touch is fair.

## 4. Proofs

`LeaseServiceProofs` (any number of peers, any TTL, any connections that break):

* `TypeCorrect`: `TypeOK` is inductive; its point is that a deny is never
  addressed to "no controller", for which the listener and the offline branch
  of the heartbeat have to check the holder first. One lemma per group of
  actions, on top of lemmas about `Starts` and `Continues`.
* `Refinement`: `Spec => ImplementsLeaseTable`. Each step that gives a lease does
  so where it was free or is the holder's (`HoldGives`), each drop is a `Free`
  of the abstract table (`DropFrees`), everything else leaves the table alone
  (`StepRefines`).
* `AddressKnown` for `AddressFollows` of `OwnAddress` (any addresses, any number of
  retries, moves, edits, breaks and failures). The property is about quiet states;
  in the others three things hold. `ListsOK`: the last list on its way to the node
  is the one the coordinator has, and none is newer. `FollowedOK`: what is pending is
  about the address the watcher has noted last, and belongs to the last request that
  was numbered. `UndisturbedOK`, as long as the two threads have not crossed and
  every list could be saved: only one thread is at work (`OneBusy`); requests reach the
  coordinator in the order of their numbers, and their answers come back in it
  (`InOrder`); once the last request has been answered the coordinator keeps the
  address (`Granted`); and while a change is pending, a thread is at work on it or the
  client tracks its request (`Awaited`), so there is no quiet state with something
  pending.

`ElectionProofs` (any set of nodes, any order, any delays, any number of pickers):

* `TypeCorrect`, and `ClocksAgree` for `ChallengerTracked`: the invariant needs
  `SelfTracked` (the node itself is always tracked and online) as well, because
  the node's own age is never dropped. The exception in `ChallengerTracked` is
  real: a pick that has dropped a challenger from the tracking and not decided
  yet leaves the two clocks apart, and the proof shows that it clears the
  challenger before anybody may hand over to it.
* `Patience` for `NoHastyHandoff`, from the same invariant.

`InputPathProofs` (any targets, any keys, any bounds):

* `TypeCorrect`: the router has a target just when it is not inactive, and every
  step a thread has left names a target and keys; one lemma per group of actions.
* `SinkAlwaysReleases` for `SinkReleases`. `SinkReleases` speaks of quiet states
  only, so the induction needs `SinkInv`: as long as no release has overtaken the
  handling of an event, a target handles events of an authorised controller only,
  tracks no key of an unauthorised one, has tracked what it is about to press, and
  every key that is down is tracked, or some thread is about to lift it
  (`Lifting`, `Rising`). Steps elsewhere are dealt with once (`OtherSide`,
  `OtherTarget`); each step of the target has a lemma of its own.
* `NoKeyLeftDown` for `OnlyHeldKeysDown`, which speaks of quiet states too. What can
  be said in the others (`HeldInv`, as long as `races` is empty) is about the keys
  that will still be down at a connected target once everything on its way has been
  handled (`StaysDown`): a thread is about to release them there (`Releasing`), or
  the router is active on that target, has tracked the key or is about to, and the
  user holds it or its release is still in the queue (`Reaches`). A closed connection
  has nothing on its way, and the keys of its target are forgotten before another one
  is bound (`ConnOK`). The induction needs each of the three kinds of `races` as an
  exception. Like `SinkInv` it relies on the sink's net: `SinkKept` turns what is
  tracked into what is down.

* `PointerStays` for `PointerOnItsScreen` (any screens that are rectangles, any moves).
  The core is `OnTarget`: what is shown is the screen that the next move looks up,
  unless the target was changed elsewhere (`stray`). One lemma for each place a pointer
  can be put at (an anchor, a block, the centre, the next screen) says that it is on the
  screen meant; they rest on `NotOver`: a ratio of a length, rounded, stays in the
  length.
* `RoundTripExact` for `ThereAndBack`, an action property. `LeadsBack` says of every
  state on the target where a trip has been noted: the screen and the line on which the
  pointer would go back are those it came by. `TripBack` is the arithmetic: scaling a
  position to a length at least as long, rounding, scaling back and rounding again is
  exact, because what is rounded is at most half away (`HalfAway`).
* `UserAlone` for `OverrideIsWanted` (any times, any order of injections, hooks and
  ticks). What is on its way to the hooks is either a key, and then it has a mark of
  its own that is no older, in the same order (`KeysMarked`), or it has come with remote
  input that is recent (`InTime`). The first keeps keys from passing for the user's,
  since a mark is forgotten later than a hook is called (`KeysAge`); the second keeps
  everything else from counting, since the grace is over later than that. No mark of
  a button, a wheel or a move is needed: for those the grace does it alone.

`PeerLinkProofs` (any two nodes, any number of connections each way, any faults):

* `TypeCorrect`, `OneBound` for `OneConnection` and `EndsMatch` for `EndsAgree`.
  What carries them is `BoundInUse`: what is bound is open, or closed and about to
  be unbound, which `unbind` keeps because it frees an end only if it is the one
  that is bound.

`NetworkProofs` (the bundle of the control plane; any shares, transfers and tickets,
any jobs, requests and peers, any editors, any number of breaks and changes):

* `OneAtATime` for `OneTransfer`: tickets in use differ and are not over, and
  whoever sends has the one whose turn it is (`ShareInv`).
* `JobsAreTaken` for `JobsInOrder`. That a job is never left alone is inductive
  with the types; that a request is not answered twice needs `RequestersWait`:
  whoever waits in a job has asked for that very job and has not been told yet.
  The second attempt after a failed send (`service.py:1077-1095`) is why the job it
  finds may be another one by then, and the proof shows that this is harmless.
* `OnlyLeaseholdersEnter` for `LetInByOffice`. The property is about quiet states.
  In the others it is `LastFrameTells` that holds: the last frame on its way from a
  coordinator to the target says what that coordinator's table says; and once none
  is left, `HeardMeansLeased`: a target that follows this coordinator and lets the
  controller in has a lease there. `missed` is needed for a change that was undone
  before it was noticed.
* `LayoutsArrive` for `LatestRevision`. `Informed`: a connected node has the latest
  revision, or a thread is about to send it to that node, or it is in the
  connection. It is kept because of `NoneAhead` (nothing carries a revision the
  coordinator has not given yet), so the filter of the client takes what it must.
* `NetworkTypes` for `NetworkTypeOK`. For the links, the jobs, the shares and the change
  of coordinator the types are part of the invariants above. For requests they say that
  every frame in a connection is of a kind its receiver has a handler for (`ToService`,
  `ToClient`) and that nothing is sent to who is not connected. For leases the argument
  is that of `TypeCorrect`. For layouts the bound on revisions is not kept step by step:
  it holds because each layout is numbered once. `EditBound` counts what is still owed
  a number (`Owed`: threads about to number one, requests in a connection); the
  revision and what is owed are at most the layouts that events have brought. It needs
  `Tidy`: of the steps a thread has left, only the first can be the one that numbers.

`ControllerProofs` (any row of screens, any nodes, any thread switching):

* `OnlyHoldsConfine` for `ClipOnlyWhileHeld`: needs that a hold that is local is on
  this node (`LocalHere`), since some ways of ending a hold look at one and some at
  the other.
* `ListenersAgree` for `CursorFollowsRouter`. Unless threads crossed, one thread
  works on the router's present state and nobody else has anything to do
  (`OneWorks`); what a listener brings about holds from the moment it has run
  (`CursorSettled`, `PointerSettled`), and the program knows of the cursors it has
  made transparent (`Remembered`), or it would not restore them.

* `ControllerTypes` for `ControllerTypeOK`. The session's types say that an active
  request is for a target, which a claim, a denial and a quit must keep together; the
  coordinator's side of the session is the lease service, with the argument of
  `TypeCorrect` (no frame that grants or refuses is for "nobody"). The pointer's types
  rest on `EdgeInv`, the invariant of the two theorems above.

`DeskProofs` (any finite group, any threads, any calls, any failures, any desktops):

* `SavedInForce` for `SavesInForce`. While a call holds the lock, what it has found
  is what was saved last, and the first file has either that or the new content
  (`HeldInOrder`), so a failure can be undone at any file.
* `EditsAreKept` for `ListsMoveOn`, an action property: it follows from each step
  taken in a state of `ListInv`. The core is `Fresh`: as long as edits take turns
  and everyone could save, whatever carries the current revision (a list or a
  request in a connection, a thread's next step, a peer's own pair of list and
  revision) has all that is in the coordinator's list, unless the coordinator is
  between applying an edit and counting it (`Uncounted`). That exception is the
  window in which `NodeListLost` goes wrong, and `Turns` is what keeps a second
  request out of it. `CoordKnows` covers the coordinator's own client, which is
  behind its service during a broadcast. `NoneAhead` and `Receiving` give the part
  about peers, which needs no turns.
* `EdgesAgree` for `SameEdges`. Every layout, drawn or built, shows the monitors that
  are known (`Shows`), and a node that is not `ahead` has exactly what its files give,
  which is what every other such node has (`InStep`). Two facts about the conversions
  carry it: rows that begin at a first row and column do not change when they are
  trimmed once more (`TrimmedStays`; the rows of a detected desktop begin there,
  `RowsAre`), and a layout that was sent, saved and loaded is the one that was sent
  (`SavedLoaded`), although a map that equals the detected rows is not written.
* `OutcomesSurvive`, the part of `UpdateReported` that is about safety: it is
  inductive as it stands, since every step that takes an outcome from the files
  sends it, and what is lost when the application ends is in the files.
* `DeskTypes` for `DeskTypeOK`. Two bounds in it are not kept step by step. A revision
  of the node list is at most the number of edits because each edit is counted once:
  the edits still to be counted are the requests that the coordinator's threads
  have at hand or that are in a connection (`Budget`, over `AtWork` and `InTransit`).
  And a map has every monitor in one cell, in whatever way it came about: drawn,
  detected, rebuilt, trimmed, saved and loaded (`Seated`).

`KeyCaptureProofs` (any hot key, any keys):

* `NoneForgotten` for `ModifiersAccounted`. It needs that the modifiers of the set
  are in the list, or have been sent while the mouse hook empties the two
  (`ListAndSet`), and that a modifier of a hot key does not repeat any more
  (`NoSecondWait`): the key that has completed it was pressed later.

The proofs assume the `ASSUME`s of the modules, which TLC evaluates in the runs:
that nodes and threads are not taken for "nobody" nor for each other
(`NodesDiffer`, `NoneIsNeither`,
`NoneIsNoPeer`, `CallersAreThreads`), that the editors are finitely many
(also in `NodesDiffer`), that the node starts with one
of the addresses there are and "none" is not one (`AddressesAreKnown`), that bounds are numbers
(`BoundsAreNumbers`), that the group is finite and has its coordinator
(`GroupIsFinite`), that screens are rectangles that do not overlap, the controller's
fill its desktop and an edge leads back where another leads to, as the search for a
neighbour in `routing_table.py` is symmetric (`ScreensAreKnown`), that a detected
desktop has finitely many monitors, at least one, which do not overlap, that a map has
rows and columns counted from zero, and that "no map" is neither (`MonitorsAreKnown`),
that the layout has a place for this node (`SelfHasScreens`, as
`build_layout_config` gives every node of the list one), that hooks are
called in time (`HooksAreQuick`), and those of `LeaseService`, `Election` and `InputPath`. Where a
module has none, the theorem names its hypothesis (`Distinct`, `Keys`): that model
values differ from one another. Nothing is assumed about sizes: bounds may be any
number.

The larger inductive invariants were checked by TLC, on the instance of their run,
before they were proved. Where it says that data are of certain sets, those are infinite (`Seq`,
`Nat`), so TLC takes the run's type invariant for that part.

Every invariant that a passing run checks, and every property of steps, is proved. Only
model-checked is what is about liveness, which is out of the prover's reach:
`PendingDecided`, `OneControllerRemains`, `LeaseOrStop`, `GetConnected`, `RequestsEnd`,
`Answered`, `EveryoneServed`, `EditAnswered`, `LeaseFollows`, `LeasesFreed`,
`SettlesOnBest`, `EditSettled`, `UpdateReported` (all of it), `PageGetsFree`,
`CursorComesBack`.

## 5. Plan

Done: the modules, runs and theorems above. What is left, in this order:

1. A coordinator that changes, with its node list, layout and group updates
   (`client.py:801`, `service.py:408`): `NodeList` and `LayoutEdit` with a second
   coordinator, as `Takeover` has it for leases.
2. The client's handlers at the granularity of their reads and writes
   (`client.py:863`).

Not modelled, and why: the Windows calls of `msp_platform`, which are taken to do
what they say; HTTP, downloads and installer processes of
`app/update/app_update.py`, which appear as results that may be good or bad; widgets,
texts, tables and logs; backups, migrations and log retention; joining a group
(one exchange at start, whose merge drops `priority` and `port` of a node that is
in both lists, `group_join.py:12-51`). They keep little state that another part
depends on, or are not the program's own logic. The list of components in
`PROJECT.json` names every part with its status.
