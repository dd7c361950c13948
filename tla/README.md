# Verification of the opencomputer sandbox server

This directory holds TLA+ models of the opencomputer server: its session-management core (`src/src/state.rs`, `src/src/http_server.rs`) and the WebSocket relay of its preview proxy. It also holds the TLC configurations that check the models, and TLAPS proofs of the main safety invariants and of a refinement.

## 1. The system

| Part | Source | What it does |
|---|---|---|
| Session registry | `state.rs` | `AppState` holds `sessions: Arc<RwLock<HashMap<String, Session>>>` and `next_port: Arc<AtomicU16>`. The counter starts at 10000, and `allocate_port` is `fetch_add(1)`. A `Session` carries `ports`, `background_pids` and `last_used`, plus its env, cwd and preview URL. |
| Session handlers | `http_server.rs` 219–689 | `create_session`, `delete_session`, `set_env`, `set_cwd`, `run_in_session`, the four file handlers, `run_background` and `kill_background`. Most of them run in phases. A critical section under the lock comes first. A `spawn_blocking` call then does the sandbox work without the lock. Some handlers take the lock again afterwards to write the result back. |
| TTL reaper | `http_server.rs` 166–177, 412–439 | A tokio task that calls `cleanup_expired_sessions` every 60 s. It removes idle sessions under the write lock. Then it sends a detached blocking task per session to SIGKILL the session's pids and destroy its root. |
| Preview proxy | `http_server.rs` 739–856 | Maps a `Host` header to a session and touches its `last_used`. It then relays HTTP or WebSocket traffic to `127.0.0.1:<first port or 5173>`. |
| WebSocket relay | `http_server.rs` 857–926 | `ws_proxy` dials the backend. It then runs two loops under one `select!`: `c2b` copies client frames to the backend and `b2c` copies backend frames to the client. A loop returns on a Close frame, a read error, the end of its stream or a failed send. The `select!` then drops the other loop and both sockets. |
| Sandbox crate and OS | not in this repository | Creates and destroys session roots, writes and reads files, runs commands under a watchdog and starts background processes. The OS may give the pid of a reaped process to another process. All of this is modelled from `spec.md` wherever the handlers depend on it. |

Concurrency is what makes this system hard:

* Handlers run concurrently on tokio, and so does the reaper. The sandbox work runs on the blocking pool.
* A handler's view of the registry goes stale at every `.await` between its phases.
* A client disconnect drops a handler at an await, but its blocking task still runs to completion (spec §5).
* The kill-and-destroy of a removed session is fire-and-forget, so it runs at some later point.
* In the relay, each loop can hold a frame it has read but not yet sent when the other loop ends the relay.

## 2. Modules

### `Sessions.tla`

This module models the registry, every handler that changes it, the reaper, and the sandbox and OS effects the handlers depend on.

**State.**

* `live` is the set of keys of the map. `sess` maps each id to its `ports`, `pids` and `lastUsed`. `usedIds` holds the uuids handed out so far.
* `roots` is the set of session roots on disk.
* `alive` holds the running pids and `usedPids` the pids ever forked. `foreign` holds the pids the OS has since given to processes outside the service.
* `nextPort` is the port counter, and `allocs` counts its allocations. `now` is a bounded clock.
* `cleanups` holds the detached kill-and-destroy tasks, as records `[sid, pids]`.
* `hs[h]` is the program counter and the locals of each in-flight handler.

**Actions.** A critical section that does not await is one atomic step. Each action models the whole section, including its early returns (`NotFound`) and its `last_used` touch.

| Actions | Handler | Lines |
|---|---|---|
| `CreateSandbox`, `CreateInsert` | `create_session` | 219–231, 233–259 |
| `DeleteSession`, `RunCleanup` | `delete_session` and its detached task | 301–324, 309–318 |
| `SetEnv`, `SetCwd` | `set_env`, `set_cwd` | 326–348 |
| `RunLock`, `RunFinish` | `run_in_session` | 350–387 |
| `FileLock(h, id, op)` | phase 1 of `write_file`, `write_files_bulk`, `read_file` and `list_files` | 443–455 and the same lines of the others |
| `WriteDone`, `ReadDone` | phase 2 of the write handlers and of the read handlers | 457–470, 531–537 |
| `BgLock`, `BgSpawn`, `BgTrack` | `run_background` | 581–651 |
| `KillBackground` | `kill_background` | 655–689 |
| `CleanupExpiredSessions` | `cleanup_expired_sessions` | 412–439 |
| `ProxyLookup` | `preview_proxy` | 739–774 |
| `ListSessions` | the read-only handlers | 261–299 |
| `CancelCreate`, `CancelBackground` (together `CancelHandler`) | a client disconnect at the await of `create_session`, or at the spawn or lock await of `run_background` after the fork | 224–231, 625–636 |

**Environment.** These actions come from the spec:

* `ProcessExit`: a background process ends by itself.
* `ForeignSpawn`: the OS reuses the pid of an exited process for an unrelated process.
* `Tick`: advances the clock. Its guard keeps `now` before the deadline of every foreground run, because the sandbox watchdog kills a command at its time limit.
* `WriteDone` may re-create the session's root, because spec §4.1 says "writes create intermediate directories".

### `WsPipe.tla` and `WsRelay.tla`

`WsPipe` is the relay contract of spec §4.4. It describes two pipes, c2b and b2c.

* Each peer appends frames to its history `sent[d]`, and may stop writing after a Close.
* The destination has received `got[d]`.
* `Deliver(d)` hands on the next data frame while the relay is up and the destination is connected.
* `Shut` ends the relay and drops both connections.
* `Delivered` is what the contract promises: each `got[d]` is a prefix of `sent[d]` and never contains a Close.

`WsRelay` models `ws_proxy` itself. It shares the peers' variables `sent`, `got` and `open` with the contract. It adds `phase` (connecting, relaying, closed) and, per loop, a read index `read[d]` and a program counter `pc[d]`.

| Action | Code |
|---|---|
| `Connect`, `ConnectFail` | `connect_async` and its error arm, 861–867 |
| `Recv(d)` | `rx.next()` returns a text, binary, ping or pong frame, 877–884 (and 898–905 for b2c) |
| `RecvClose(d)` | the `Close(_) => return` arm, 885 and 906 |
| `RecvEnd(d)` | `Err(_) => return`, or the stream ends, 891–893 and 913–915 |
| `Forward(d)`, `ForwardFail(d)` | `tx.send(..)` succeeds, or fails and the loop returns, 887–889 and 909–911 |
| `Finish` | the `select!` completes and both sockets are dropped, 919–925 |

`Write` and `Drop` are the peers, taken from the contract. The instance `Pipe == INSTANCE WsPipe WITH closed <- (phase = "closed")` is the refinement mapping.

### `SessionLifecycle.tla`

This module is the registry's abstract contract (spec §3). It has no handlers, locks or tasks.

* `phase[id]` is `fresh`, `creating`, `live` or `gone`. `roots` holds the ids whose sandbox root is on disk.
* A fresh id either begins, which makes its root, or is abandoned.
* A creating id is inserted, which requires its root, or is cancelled, which leaves the root behind.
* Live ids are removed, several at once for the reaper.
* Only a gone id's root is destroyed or re-created.
* No id ever goes back to an earlier phase.

`Sessions` maps onto it with `PhaseOf`:

* an id in the map is `live`;
* an id held by a slot in `create` is `creating`;
* any other id drawn before is `gone`;
* the rest are `fresh`.

The instance `Life` and the property `ImplementsLifecycle == Life!LSpec` are at the end of `Sessions.tla`.

### Other modules

* `MCSessions.tla` and `MCWsRelay.tla` hold the TLC instance definitions: symmetry sets, and the port constants as definitions.
* `SessionsProofs.tla`, `SessionsRefinement.tla` and `WsRelayProofs.tla` hold the TLAPS proofs.

### Abstractions

* Env, cwd, file contents and command output are left out. No property tells them apart, and every branch of the handlers' control flow is kept.
* A uuid is a fresh model value. A pid is a fresh model value when it is forked; its later reuse is `ForeignSpawn`.
* The 60 s interval of the reaper is abstracted to "at any time".
* Relay payloads are model values. Each frame variant the code maps one to one is just a member of `Data`. tungstenite's raw `Frame` variant, which `b2c` skips with `continue`, is left out.

## 3. Runs

The session runs use `MCSessions`, with two session ids and two pids as model values. The relay runs use `MCWsRelay`, with two payloads and the model value `Close`.

| Run | cfg | Checks | Result |
|---|---|---|---|
| safety | `MCSessions.cfg` | `TypeOK`, `LiveRootsExist`, `PortsNoDuplicates`, `UntrackedOnlyWhenKilled`, `ImplementsLifecycle` | pass, about 1.8 M distinct states, under 2 min |
| liveness | `MCLive.cfg` | `RemovedEventuallyCleaned` | pass, about 366 k states |
| ws_relay | `MCWsRelay.cfg` | `TypeOK`, `RelayInOrder`, `ImplementsPipe` | pass, about 31 k states |
| orphan_process | `MCOrphan.cfg` | `NoOrphanProcess` | violated (code bug) |
| orphan_root | `MCOrphanRoot.cfg` | `NoOrphanRoot` | violated (code bug) |
| root_recreate | `MCRootRecreate.cfg` | `RootsOnlyForNewSessions` | violated (spec gap) |
| foreign_kill | `MCForeignKill.cfg` | `NoForeignKill` | violated (code bug) |
| port_share | `MCPortShare.cfg` | `PortsDisjoint` | violated |
| port_wrap | `MCPortWrap.cfg` | `AutoPortsIncrease` | violated |
| reap_busy | `MCReapBusy.cfg` | `BusyNeverExpired` | violated |
| ws_close | `MCWsClose.cfg` | `CloseRelayed` | violated (divergence from spec §4.4) |
| ws_hang | `MCWsHang.cfg` | `RelayTerminates` | violated (divergence from spec §4.4) |

What each property says:

* **`LiveRootsExist`**: every session in the map has its root on disk. It can break in two ways: a create that inserts after its root failed, or a cleanup task that destroys the root of a session that is still live.
* **`PortsNoDuplicates`**: the `contains` check in `run_background`'s writeback keeps a session's port list free of duplicates, even with concurrent requests.
* **`UntrackedOnlyWhenKilled`** (an action property): whenever a pid leaves the set that someone will still kill, it is not running.
* **`ImplementsLifecycle`**: the registry follows the abstract session lifecycle. Ids are never reused, a record is inserted only over an existing root, and only the roots of gone ids are destroyed or re-created.
* **`RemovedEventuallyCleaned`**: this is stated per session, not per cleanup task. A session that has been live either stays live for ever, or it eventually has its root gone and every pid it ever recorded dead.
  * It covers the whole path: removal by `delete_session` or the reaper, the hand-off to a detached task, and that task running at some later point.
  * A delete or a reaper that forgets to spawn the task breaks it, and so does a task handed the wrong pids.
  * Pids that were never recorded are out of its scope; that is `NoOrphanProcess`.
* **`NoOrphanProcess`**: every running pid is tracked.
  * It fails when the session is deleted between `run_background`'s spawn and its writeback: the writeback at line 636 drops the pid.
  * It also fails when the client disconnects at that await.
* **`NoOrphanRoot`**: every root on disk belongs to a live session, to a create about to insert it, or to a pending cleanup.
  * It fails when the client disconnects after `create_session`'s blocking task made the root (line 225). That root is never destroyed.
* **`RootsOnlyForNewSessions`** (an action property): a root appears only for an id never used before.
  * It fails when a `write_file` phase 2 runs after the cleanup task: the write re-creates the destroyed root.
* **`NoForeignKill`** (an action property): no process outside the service is ever signalled.
  * It fails when a background child exits and the OS reuses its pid. `kill_background` (line 674) then SIGKILLs the unrelated process.
* **`PortsDisjoint`**: no two live sessions share a port.
  * It fails through the default port 5173 (line 146).
* **`AutoPortsIncrease`**: auto ports strictly increase.
  * It fails because `AtomicU16` wraps. The run uses a counter of width 3 so that the wrap is reachable.
* **`BusyNeverExpired`**: a session is never expired while a foreground command runs in it.
  * It fails when the time limit exceeds the TTL.
* **`RelayInOrder`**: each destination has received exactly a prefix of the data its source wrote. There is no reordering, duplication or gap, and a frame is lost only at the tail, when the relay ends.
* **`ImplementsPipe`**: `ws_proxy` implements `WsPipe`.
  * Its mutant is a `ws_proxy` that returns but keeps its socket halves alive.
  * It accepts the loss of a tail frame by design. It does not see a `send` error that is ignored: such a frame is lost, and in `WsPipe` terms the step is a stutter.
* **`RelayTerminates`**: once either peer has written Close or lost its connection, `ws_proxy` returns (spec §4.4: "Errors on either side terminate both").
  * It fails. `connect_async` at line 861 has no timeout, and no one watches the client while it is awaited. A client that drops while the backend sits on the handshake leaves `ws_proxy` waiting for ever.
  * A loop blocked in a `send` to a peer that does not read is likewise never told that the other peer has gone.
* **`CloseRelayed`**: a Close read from one peer is passed on to the other.
  * It fails: both loops `return` on Close (lines 885 and 906), although spec §4.4 lists close among the variants each relay translates.

Each property of a passing run has a mutant in `PROJECT.json`: a plausible bug in the modelled code that TLC catches with that property.

### Bounds

* **Ids and pids.** Two ids and two pids give two sessions that interact: a delete against a run, two sessions on one port, a kill against a spawn, a pid reused after an exit.
* **Handler slots.** The safety run has two slots, so two handlers run concurrently, including two on one session. The violation runs need only one.
* **Time.** `MaxTime = 2` with `TTL = 1` lets a session expire.
* **Port allocations.** `MaxPortAllocs = 1` in the safety run. It still lets two requests for the same port meet in `BgTrack`, through the default port.
* **Relay.** Up to 3 frames per direction from 2 payloads. This covers a Close after data, a frame held across the other loop's exit, and drops at every point.

Every violation shown here needs at most 8 steps, so these bounds reach them.

### Fairness

* **Sessions.** Only the detached cleanup tasks are weakly fair, one per session id. They are `spawn_blocking` jobs, and tokio's blocking pool runs every job it is given. No request is assumed to arrive, and no handler is assumed to finish, because clients may disconnect.
* **Relay.** A loop's step is weakly fair only when its await completes without anyone's help: a frame, a Close or the end of the stream is waiting to be read, or the destination is gone, so the send fails. tokio then polls the `select!` again.
  * Completing the handshake (`Connect`, `ConnectFail`) depends on the backend, and a successful `Forward` depends on the destination reading. Neither gets fairness, and the peers owe nothing.
  * The liveness run `ws_hang` uses no symmetry set, because TLC's symmetry reduction is not sound for liveness.
  * The relay runs set `CHECK_DEADLOCK FALSE`, because `ws_proxy` really does return and stop.

## 4. Proofs

### `SessionsProofs.tla`

* **`TypeCorrect`**: `Spec => []TypeOK`.
  * `TypeOK` alone is not inductive. A slot's `sid` and `pid` may be the null values, but only while the slot is idle. The strengthening `TypeInv` adds `SlotOK` to state this.
  * The proof has one step per action.
* **`LiveRootsExistThm`**: `Spec => []LiveRootsExist`. The lemma `RootsInvariant` proves `Spec => [](TypeInv /\ RootsInv)`. The inductive invariant `RootsInv` says:
  * live ids and the ids of cleanup tasks have been handed out;
  * no cleanup task names a live session;
  * a slot in `create` holds a fresh id whose root exists and which is neither live nor being cleaned up, and no other creating slot holds the same id.

  Together these say that destroying a root never hits a live session. Two actions need their own steps:
  * `WriteDone` only adds roots.
  * `CancelHandler` removes a slot from the creating set.
* **`PortsNoDuplicatesThm`**: `Spec => []PortsNoDuplicates`.
  * The strengthening `PortsInv` speaks of every session record, not only the live ones.
  * The proof rests on two lemmas. `NoDupAppend` says that appending an absent element keeps a sequence duplicate-free. `PortsUpdate` says that rewriting one record keeps `PortsInv`.

* **`UntrackedOnlyWhenKilledThm`**: `Spec => UntrackedOnlyWhenKilled`, an action property proved from `RootsInvariant`.
  * Every step either keeps each tracked pid tracked, or drops only pids it has just killed.
  * Delete and the reaper move pids from a live record to a new cleanup task.
  * `BgTrack` and the touches only add pids (lemma `RangeAppend`).
  * `KillBackground` and `RunCleanup` drop only the pids they remove from `alive`.
  * `CreateInsert` needs the invariant: it overwrites a record only because the id is fresh and so not live (`RootsInv`).
  * The lemma `TrackedMem` unfolds membership in `TrackedPids`. While proving it, we found that `UNION A \cup UNION B` parses differently in TLC and in TLAPS. `TrackedPids` is now written with parentheses, which changes nothing for TLC.

### `SessionsRefinement.tla`

* **`LifecycleRefinement`**: `Spec => ImplementsLifecycle`.
  * The initial state maps to all ids `fresh` and no roots.
  * Under the invariant `RInv`, each step maps to a lifecycle step:
    * a successful `CreateSandbox` is `Begin`, and a failed one is `Abandon`;
    * `CreateInsert` is `Insert`;
    * `CancelHandler` in `create` is `Cancel`;
    * `DeleteSession` and `CleanupExpiredSessions` are `Remove`;
    * `RunCleanup` is `Destroy`;
    * a `WriteDone` that makes a root is `Recreate`;
    * every other step is a stutter.
  * `RInv` is `RootsInv` plus `SlotsUsed`: every busy slot holds an id that was drawn. `SlotsUsed` is what makes a late write's id `gone` rather than `fresh`.
  * The lemmas `PhaseOfDef`, `PhaseFrame` and `CreatingFrame` reduce most actions to stutters.

### `WsRelayProofs.tla`

* **`RelayInvariant`**: `Spec => []IInv`. `IInv` conjoins `TypeOK` and `LoopOK(d)` for each loop. `LoopOK(d)` says:
  * `got[d]` is the prefix of `sent[d]` of its own length;
  * at `recv` the loop has read exactly what it delivered;
  * at `send` it holds one more frame, and that frame is data.

  `RelayInOrder` alone is not inductive, because it says nothing about the frame a loop holds.
* **`RelayTypeOK`**: `Spec => []TypeOK`, from `IInv`.
* **`RelayInOrderThm`**: `Spec => []RelayInOrder`, from `IInv`.
* **`Refinement`**: `Spec => Pipe!Spec`. The initial states map to the contract's initial states. Under `IInv`, each relay step maps to a contract step or a stutter:
  * `Forward` is `Deliver`;
  * every `Finish` is `Shut`;
  * `Recv` and `Connect` are stutters.

All theorems hold for every value of the constants that satisfies the modules' `ASSUME`s. TLC checked each strengthening as an invariant before it was proved.

### Left to TLC

* **Liveness.** `RemovedEventuallyCleaned` needs fairness and `ENABLED`, which are beyond TLAPS here. `RelayTerminates` is false.
* **The violated properties.** They are false, so there is nothing to prove.

## 5. Not modelled

* **HTTP relay**: the method and status mapping is pure formatting, and the relay keeps no state.
* **Oneshot runner**: it touches no shared state.
* **Router, JSON, base64, tracing, start-up**: out of scope. A base64 error (400) changes the state just as a successful write with no effect does, so `WriteDone` covers it.
* **File round-trip laws and path escapes**: these belong to the sandbox crate, which is not in this repository.
* **Blocking-pool shutdown ending the relay** (spec §5): the server never shuts the pool down.
