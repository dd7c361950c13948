------------------------------ MODULE Sessions ------------------------------
(***************************************************************************)
(* The session registry of the sandbox service (src/src/state.rs) and the *)
(* HTTP handlers that mutate it (src/src/http_server.rs), together with   *)
(* the OS state they drive: sandbox roots on disk, live background        *)
(* processes, and the detached cleanup tasks that delete_session and the  *)
(* TTL reaper hand to tokio's blocking pool.                              *)
(*                                                                         *)
(* Every registry critical section runs under the tokio RwLock write      *)
(* guard with no await inside it, so each one is one atomic step.  A      *)
(* handler that awaits a blocking task between two critical sections     *)
(* (create_session, run_in_session, the file handlers, run_background) is *)
(* an in-flight request in a handler slot of H with a program counter;    *)
(* other requests interleave between its phases.                          *)
(*                                                                         *)
(* Data the properties do not tell apart is abstracted: env and cwd,      *)
(* file contents, command output.  A sandbox root is named by its session *)
(* id (the root is <base>/<id>).                                          *)
(***************************************************************************)
EXTENDS Naturals, Sequences, FiniteSets, Functions

CONSTANTS
    Ids,            \* session ids uuid::new_v4 can return
    Pids,           \* OS process ids of background processes
    H,              \* handler slots: requests in flight at once
    NoId, NoPid,    \* "none" markers for an idle handler slot
    PortSpace,      \* 2^16: AtomicU16 wraps modulo this
    PortBase,       \* PORT_RANGE_START
    ReqPorts,       \* ports a background request may carry (0 = auto)
    RunLimits,      \* foreground time limits a request may carry, in ticks
    TTL,            \* SESSION_TTL_SECS, in ticks
    MaxTime,        \* bound on the clock
    MaxPortAllocs,  \* bound on allocate_port calls
    PreviewDomain   \* TRUE iff AppState.preview_domain is Some

ASSUME IdsAssumption == NoId \notin Ids
ASSUME PidsAssumption == NoPid \notin Pids
ASSUME PortAssumption ==
    /\ PortSpace \in Nat \ {0}
    /\ PortBase \in 0 .. PortSpace - 1
    /\ ReqPorts \subseteq 0 .. PortSpace - 1
ASSUME TimeAssumption ==
    /\ TTL \in Nat /\ MaxTime \in Nat /\ MaxPortAllocs \in Nat
    /\ RunLimits \subseteq Nat
    /\ PreviewDomain \in BOOLEAN

VARIABLES
    live,       \* ids of the sessions in the registry map
    sess,       \* sess[id]: ports, background_pids, last_used of session id
    usedIds,    \* ids already returned by uuid::new_v4
    roots,      \* ids whose sandbox root exists on disk
    alive,      \* background processes that are running
    usedPids,   \* pids already handed out by the OS
    nextPort,   \* AppState.next_port
    allocs,     \* number of allocate_port calls so far (bounded)
    now,        \* Instant::now(), in ticks
    cleanups,   \* detached spawn_blocking cleanup tasks not yet run
    hs,         \* hs[h]: program counter and locals of handler slot h
    foreign     \* pids the OS has given to processes outside the service

vars == <<live, sess, usedIds, roots, alive, usedPids, nextPort, allocs,
          now, cleanups, hs, foreign>>

PortVal == 0 .. PortSpace - 1
Time == 0 .. MaxTime

\* The part of struct Session the model keeps.
SessionRec == [ports: Seq(PortVal), pids: Seq(Pids), lastUsed: Time]

\* A pending kill-then-destroy task: the root and the pids it was handed.
CleanupTask == [sid: Ids, pids: SUBSET Pids]

\* The four file handlers: write_file, write_files_bulk, read_file, list_files.
FileOps == {"write", "bulk", "read", "list"}
PCs == {"idle", "create", "run", "spawn", "track"} \cup FileOps
HandlerState == [pc: PCs, sid: Ids \cup {NoId}, port: PortVal,
                 pid: Pids \cup {NoPid}, deadline: Nat]
\* A handler slot at program counter pc, serving session id.
Slot(pc, id, port, pid, deadline) ==
    [pc |-> pc, sid |-> id, port |-> port, pid |-> pid, deadline |-> deadline]
IdleHandler == Slot("idle", NoId, 0, NoPid, 0)

\* A session record with the given ports, background_pids and last_used.
SessionOf(ports, pids, lastUsed) ==
    [ports |-> ports, pids |-> pids, lastUsed |-> lastUsed]

Init ==
    /\ live = {}
    /\ sess = [id \in Ids |-> SessionOf(<<>>, <<>>, 0)]
    /\ usedIds = {}
    /\ roots = {}
    /\ alive = {}
    /\ usedPids = {}
    /\ nextPort = PortBase
    /\ allocs = 0
    /\ now = 0
    /\ cleanups = {}
    /\ hs = [h \in H |-> IdleHandler]
    /\ foreign = {}

-----------------------------------------------------------------------------
(* Helpers *)

\* session.last_used = Instant::now()
Touch(id) == sess' = [sess EXCEPT ![id] = SessionOf(@.ports, @.pids, now)]

\* The kill-then-destroy task handed to spawn_blocking for a removed session.
CleanupFor(id) == [sid |-> id, pids |-> Range(sess[id].pids)]

\* AppState::allocate_port: fetch_add(1) on an AtomicU16, which wraps.
AllocatePort ==
    /\ allocs < MaxPortAllocs
    /\ nextPort' = (nextPort + 1) % PortSpace
    /\ allocs' = allocs + 1

-----------------------------------------------------------------------------
(* create_session: create the root on the blocking pool, then insert. *)

\* Variant: the create_session_sandbox error is dropped (.ok() for ?).
CreateSandboxIgnoringError(h) ==
    /\ hs[h].pc = "idle"
    /\ \E id \in Ids \ usedIds :
         /\ usedIds' = usedIds \cup {id}
         /\ roots' \in {roots, roots \cup {id}}
         /\ hs' = [hs EXCEPT ![h] = Slot("create", id, 0, NoPid, 0)]
    /\ UNCHANGED <<live, sess, alive, usedPids, nextPort, allocs, now, cleanups, foreign>>

\* Variant: the id is checked only against the live map, so a removed
\* session's id can be handed out again.
CreateSandboxReusingId(h) ==
    /\ hs[h].pc = "idle"
    /\ \E id \in Ids \ live :
         /\ usedIds' = usedIds \cup {id}
         /\ \/ /\ roots' = roots \cup {id}
               /\ hs' = [hs EXCEPT ![h] = Slot("create", id, 0, NoPid, 0)]
            \/ UNCHANGED <<roots, hs>>
    /\ UNCHANGED <<live, sess, alive, usedPids, nextPort, allocs, now, cleanups, foreign>>

\* uuid, then spawn_blocking(create_session_sandbox); an error returns 500.
CreateSandbox(h) ==
    /\ hs[h].pc = "idle"
    /\ \E id \in Ids \ usedIds :
         /\ usedIds' = usedIds \cup {id}
         /\ \/ /\ roots' = roots \cup {id}
               /\ hs' = [hs EXCEPT ![h] = Slot("create", id, 0, NoPid, 0)]
            \/ UNCHANGED <<roots, hs>>
    /\ UNCHANGED <<live, sess, alive, usedPids, nextPort, allocs, now, cleanups, foreign>>

\* sessions.write().await.insert(session_id, session)
CreateInsert(h) ==
    /\ hs[h].pc = "create"
    /\ live' = live \cup {hs[h].sid}
    /\ sess' = [sess EXCEPT ![hs[h].sid] = SessionOf(<<>>, <<>>, now)]
    /\ hs' = [hs EXCEPT ![h] = IdleHandler]
    /\ UNCHANGED <<usedIds, roots, alive, usedPids, nextPort, allocs, now,
                   cleanups, foreign>>

(* delete_session: remove under the lock, detach kill-and-destroy. *)
DeleteSession(id) ==
    /\ id \in live
    /\ live' = live \ {id}
    /\ cleanups' = cleanups \cup {CleanupFor(id)}
    /\ UNCHANGED <<sess, usedIds, roots, alive, usedPids, nextPort, allocs,
                   now, hs, foreign>>

(* set_env and set_cwd: update the field (abstracted) and last_used. *)
SetEnv(id) ==
    /\ id \in live
    /\ Touch(id)
    /\ UNCHANGED <<live, usedIds, roots, alive, usedPids, nextPort, allocs,
                   now, cleanups, hs, foreign>>

SetCwd(id) ==
    /\ id \in live
    /\ Touch(id)
    /\ UNCHANGED <<live, usedIds, roots, alive, usedPids, nextPort, allocs,
                   now, cleanups, hs, foreign>>

(* run_in_session: phase 1 under the lock, phase 2 on the blocking pool. *)
RunLock(h, id, limit) ==
    /\ hs[h].pc = "idle"
    /\ id \in live
    /\ Touch(id)
    /\ hs' = [hs EXCEPT ![h] = Slot("run", id, 0, NoPid, now + limit)]
    /\ UNCHANGED <<live, usedIds, roots, alive, usedPids, nextPort, allocs,
                   now, cleanups, foreign>>

\* The child exits, or the watchdog kills it at its deadline; 200 or 500.
RunFinish(h) ==
    /\ hs[h].pc = "run"
    /\ hs' = [hs EXCEPT ![h] = IdleHandler]
    /\ UNCHANGED <<live, sess, usedIds, roots, alive, usedPids, nextPort,
                   allocs, now, cleanups, foreign>>

(* write_file, write_files_bulk, read_file, list_files: phase 1 takes the *)
(* root and touches the session, phase 2 does the I/O on the pool.        *)
FileLock(h, id, op) ==
    /\ hs[h].pc = "idle"
    /\ id \in live
    /\ Touch(id)
    /\ hs' = [hs EXCEPT ![h] = Slot(op, id, 0, NoPid, 0)]
    /\ UNCHANGED <<live, usedIds, roots, alive, usedPids, nextPort, allocs,
                   now, cleanups, foreign>>

\* write_file_in_sandbox on the cloned root (spec 4.1: "writes create
\* intermediate directories as needed").  The root may have been destroyed
\* since phase 1; whether the write then fails or re-creates the root is up
\* to the sandbox crate, so both happen.  A base64 error (400) also lands
\* here with the root untouched.
WriteDone(h) ==
    /\ hs[h].pc \in {"write", "bulk"}
    /\ roots' \in {roots, roots \cup {hs[h].sid}}
    /\ hs' = [hs EXCEPT ![h] = IdleHandler]
    /\ UNCHANGED <<live, sess, usedIds, alive, usedPids, nextPort, allocs,
                   now, cleanups, foreign>>

\* read_file_in_sandbox / list_files_in_sandbox: 200, or 404 on an error.
ReadDone(h) ==
    /\ hs[h].pc \in {"read", "list"}
    /\ hs' = [hs EXCEPT ![h] = IdleHandler]
    /\ UNCHANGED <<live, sess, usedIds, roots, alive, usedPids, nextPort,
                   allocs, now, cleanups, foreign>>

(* preview_proxy: a Host naming a live session touches it (the proxied   *)
(* request itself changes no registry state).                             *)
ProxyLookup(id) ==
    /\ PreviewDomain
    /\ id \in live
    /\ Touch(id)
    /\ UNCHANGED <<live, usedIds, roots, alive, usedPids, nextPort, allocs,
                   now, cleanups, hs, foreign>>

(* list_sessions, get_session, background_status, health: read-only,    *)
(* under the read lock or none; last_used is left alone.  The server can  *)
(* always take one, so the model never stops.                              *)
ListSessions == UNCHANGED vars

(* run_background: phase 1 touches the session and picks the port, phase *)
(* 2 spawns on the pool, phase 3 records pid and port if the session is   *)
(* still there.                                                            *)
BgLock(h, id, reqPort) ==
    /\ hs[h].pc = "idle"
    /\ id \in live
    /\ Touch(id)
    /\ \/ /\ reqPort = 0
          /\ AllocatePort
          /\ hs' = [hs EXCEPT ![h] = Slot("spawn", id, nextPort, NoPid, 0)]
       \/ /\ reqPort # 0
          /\ hs' = [hs EXCEPT ![h] = Slot("spawn", id, reqPort, NoPid, 0)]
          /\ UNCHANGED <<nextPort, allocs>>
    /\ UNCHANGED <<live, usedIds, roots, alive, usedPids, now, cleanups, foreign>>

\* Variant: a spawn error is taken for a pid (unwrap_or_default).
BgSpawnRecordingFailure(h) ==
    /\ hs[h].pc = "spawn"
    /\ \/ /\ hs[h].sid \in roots
          /\ \E p \in Pids \ usedPids :
               /\ alive' = alive \cup {p}
               /\ usedPids' = usedPids \cup {p}
               /\ hs' = [hs EXCEPT ![h] = Slot("track", @.sid, @.port, p, 0)]
       \/ /\ hs' = [hs EXCEPT ![h] = Slot("track", @.sid, @.port, @.pid, 0)]
          /\ UNCHANGED <<alive, usedPids>>
    /\ UNCHANGED <<live, sess, usedIds, roots, nextPort, allocs, now, cleanups, foreign>>

\* sandbox::run_background_in_session: the child is forked inside the root
\* (which must exist) and runs detached; or the spawn fails with 500.
BgSpawn(h) ==
    /\ hs[h].pc = "spawn"
    /\ \/ /\ hs[h].sid \in roots
          /\ \E p \in Pids \ usedPids :
               /\ alive' = alive \cup {p}
               /\ usedPids' = usedPids \cup {p}
               /\ hs' = [hs EXCEPT ![h] = Slot("track", @.sid, @.port, p, 0)]
       \/ /\ hs' = [hs EXCEPT ![h] = IdleHandler]
          /\ UNCHANGED <<alive, usedPids>>
    /\ UNCHANGED <<live, sess, usedIds, roots, nextPort, allocs, now, cleanups, foreign>>

\* Variant: the port is pushed without the contains check.
BgTrackWithoutDedup(h) ==
    /\ hs[h].pc = "track"
    /\ LET id == hs[h].sid
           s  == sess[id]
       IN  sess' = IF id \in live
                   THEN [sess EXCEPT ![id] = SessionOf(Append(s.ports, hs[h].port),
                                                       Append(s.pids, hs[h].pid),
                                                       s.lastUsed)]
                   ELSE sess
    /\ hs' = [hs EXCEPT ![h] = IdleHandler]
    /\ UNCHANGED <<live, usedIds, roots, alive, usedPids, nextPort, allocs,
                   now, cleanups, foreign>>

\* if let Some(session) = sessions.get_mut(&id) { push pid; push port once }
BgTrack(h) ==
    /\ hs[h].pc = "track"
    /\ LET id == hs[h].sid
           s  == sess[id]
       IN  sess' = IF id \in live
                   THEN [sess EXCEPT ![id] =
                           SessionOf(IF hs[h].port \in Range(s.ports)
                                     THEN s.ports
                                     ELSE Append(s.ports, hs[h].port),
                                     Append(s.pids, hs[h].pid),
                                     s.lastUsed)]
                   ELSE sess
    /\ hs' = [hs EXCEPT ![h] = IdleHandler]
    /\ UNCHANGED <<live, usedIds, roots, alive, usedPids, nextPort, allocs,
                   now, cleanups, foreign>>

\* Variant: background_pids is cleared before it is cloned, so the kill
\* loop gets an empty list.
KillBackgroundClearingFirst(id) ==
    /\ id \in live
    /\ sess' = [sess EXCEPT ![id] = SessionOf(<<>>, <<>>, now)]
    /\ UNCHANGED <<live, usedIds, roots, alive, usedPids, nextPort, allocs, now,
                   cleanups, hs, foreign>>

(* kill_background: under the lock take and clear pids and ports, then   *)
(* SIGKILL every taken pid (no await in between).                          *)
KillBackground(id) ==
    /\ id \in live
    /\ sess' = [sess EXCEPT ![id] = SessionOf(<<>>, <<>>, now)]
    /\ alive' = alive \ Range(sess[id].pids)
    /\ foreign' = foreign \ Range(sess[id].pids)
    /\ UNCHANGED <<live, usedIds, roots, usedPids, nextPort, allocs, now,
                   cleanups, hs>>

\* Variant: the reaper drops expired sessions from the map without handing
\* their roots and pids to a cleanup task.
CleanupExpiredSessionsWithoutTask ==
    /\ {id \in live : now - sess[id].lastUsed > TTL} # {}
    /\ live' = live \ {id \in live : now - sess[id].lastUsed > TTL}
    /\ UNCHANGED <<sess, usedIds, roots, alive, usedPids, nextPort, allocs,
                   now, cleanups, hs, foreign>>

(* cleanup_expired_sessions: one tick of the reaper removes every session *)
(* idle for more than TTL and detaches a cleanup task for each.            *)
Expired == {id \in live : now - sess[id].lastUsed > TTL}

CleanupExpiredSessions ==
    /\ Expired # {}
    /\ live' = live \ Expired
    /\ cleanups' = cleanups \cup {CleanupFor(id) : id \in Expired}
    /\ UNCHANGED <<sess, usedIds, roots, alive, usedPids, nextPort, allocs,
                   now, hs, foreign>>

(* The detached blocking task of delete_session and of the reaper: kill  *)
(* every pid it was handed, then destroy_session_sandbox.                  *)
RunCleanup(c) ==
    /\ c \in cleanups
    /\ alive' = alive \ c.pids
    /\ roots' = roots \ {c.sid}
    /\ cleanups' = cleanups \ {c}
    /\ foreign' = foreign \ c.pids
    /\ UNCHANGED <<live, sess, usedIds, usedPids, nextPort, allocs, now, hs>>

(* A client disconnect drops the handler future at its await; the        *)
(* blocking task runs to completion and its result is discarded (spec 5). *)

\* create_session dropped at the await of create_session_sandbox: the root
\* is made but never inserted.
CancelCreate(h) ==
    /\ hs[h].pc = "create"
    /\ hs' = [hs EXCEPT ![h] = IdleHandler]
    /\ UNCHANGED <<live, sess, usedIds, roots, alive, usedPids, nextPort,
                   allocs, now, cleanups, foreign>>

\* run_background dropped at the await of the spawn or of the write lock
\* after the child was forked: the pid is never written back.
CancelBackground(h) ==
    /\ hs[h].pc = "track"
    /\ hs' = [hs EXCEPT ![h] = IdleHandler]
    /\ UNCHANGED <<live, sess, usedIds, roots, alive, usedPids, nextPort,
                   allocs, now, cleanups, foreign>>

CancelHandler(h) == CancelCreate(h) \/ CancelBackground(h)

(* Environment: a background process exits on its own; time passes, but *)
(* never beyond the deadline of a foreground run the watchdog enforces.   *)
ProcessExit(p) ==
    /\ p \in alive
    /\ alive' = alive \ {p}
    /\ UNCHANGED <<live, sess, usedIds, roots, usedPids, nextPort, allocs,
                   now, cleanups, hs, foreign>>

\* The OS reuses the pid of an exited, reaped background process for an
\* unrelated process (is_process_alive reports reaped pids as dead).
ForeignSpawn(p) ==
    /\ p \in usedPids \ (alive \cup foreign)
    /\ foreign' = foreign \cup {p}
    /\ UNCHANGED <<live, sess, usedIds, roots, alive, usedPids, nextPort,
                   allocs, now, cleanups, hs>>

Tick ==
    /\ now < MaxTime
    /\ \A h \in H : hs[h].pc = "run" => now < hs[h].deadline
    /\ now' = now + 1
    /\ UNCHANGED <<live, sess, usedIds, roots, alive, usedPids, nextPort,
                   allocs, cleanups, hs, foreign>>

Next ==
    \/ \E h \in H :
         \/ CreateSandbox(h) \/ CreateInsert(h)
         \/ RunFinish(h) \/ WriteDone(h) \/ ReadDone(h)
         \/ BgSpawn(h) \/ BgTrack(h) \/ CancelHandler(h)
         \/ \E id \in Ids :
              \/ \E op \in FileOps : FileLock(h, id, op)
              \/ \E l \in RunLimits : RunLock(h, id, l)
              \/ \E p \in ReqPorts : BgLock(h, id, p)
    \/ \E id \in Ids :
         DeleteSession(id) \/ SetEnv(id) \/ SetCwd(id) \/ ProxyLookup(id)
         \/ KillBackground(id)
    \/ CleanupExpiredSessions
    \/ ListSessions
    \/ \E c \in cleanups : RunCleanup(c)
    \/ \E p \in Pids : ProcessExit(p) \/ ForeignSpawn(p)
    \/ Tick

\* The blocking pool eventually runs every task handed to it.
Fairness == \A id \in Ids : WF_vars(\E c \in cleanups : c.sid = id /\ RunCleanup(c))

Spec == Init /\ [][Next]_vars /\ Fairness

-----------------------------------------------------------------------------
(* Properties *)

TypeOK ==
    /\ live \subseteq Ids
    /\ sess \in [Ids -> SessionRec]
    /\ usedIds \subseteq Ids
    /\ roots \subseteq Ids
    /\ alive \subseteq Pids
    /\ usedPids \subseteq Pids
    /\ nextPort \in PortVal
    /\ allocs \in 0 .. MaxPortAllocs
    /\ now \in Time
    /\ cleanups \subseteq CleanupTask
    /\ hs \in [H -> HandlerState]
    /\ foreign \subseteq Pids

\* Pids the service will still signal: those of live sessions and those
\* handed to a pending cleanup task.
TrackedPids ==
    (UNION {Range(sess[id].pids) : id \in live}) \cup (UNION {c.pids : c \in cleanups})

\* Spec 3: the sandbox root of every live session exists on disk, although
\* create_session inserts only after an await and delete_session and the
\* reaper destroy roots from detached tasks.
LiveRootsExist == live \subseteq roots

\* Spec 3: "removal from background_pids implies a delivered SIGKILL
\* attempt": a pid the service stops tracking (kill_background, delete
\* hand-off, reaper hand-off, cleanup task) is dead afterwards.
UntrackedOnlyWhenKilled ==
    [][\A p \in TrackedPids \ TrackedPids' : p \notin alive']_vars

\* Spec 3: a session's ports contain no duplicates, although two
\* run_background requests with the same port may both reach phase 3.
PortsNoDuplicates ==
    \A id \in live : \A i, j \in DOMAIN sess[id].ports :
        i # j => sess[id].ports[i] # sess[id].ports[j]

\* Spec 3: destroying a session signals its background pids and removes its
\* root.  Once a session is live, either it stays live for ever, or its
\* root is eventually gone and every pid it has recorded at any moment is
\* eventually dead, whether delete_session or the reaper removed it and
\* however late the detached cleanup task runs.  (A root is gone only after
\* removal: LiveRootsExist.)
RemovedEventuallyCleaned ==
    \A id \in Ids :
        /\ [](id \in live => ([](id \in live) \/ <>(id \notin roots)))
        /\ \A p \in Pids :
             [](id \in live /\ p \in Range(sess[id].pids)
                  => ([](id \in live) \/ <>(p \notin alive)))

\* Spec 3 and the TTL scenario of spec 8: every running background process
\* is one the service will still signal, or one whose run_background
\* request has not yet reached its phase-3 writeback.
NoOrphanProcess ==
    alive \subseteq TrackedPids \cup {hs[h].pid : h \in {g \in H : hs[g].pc = "track"}}

\* state.rs PORT_RANGE_START: "each session gets a unique port": no port
\* is registered by two live sessions, so each preview URL reaches its own
\* session's server.
PortsDisjoint ==
    \A a, b \in live : a # b => Range(sess[a].ports) \cap Range(sess[b].ports) = {}

\* Spec 8: for background runs with port 0, the returned port is strictly
\* greater than any port previously returned (spec 4.2: ports do not wrap
\* below the base).  allocate_port is the only writer of next_port.
AutoPortsIncrease ==
    [][allocs' = allocs + 1 => nextPort' > nextPort]_vars

\* Spec 3 and glossary: the reaper removes sessions that are idle; a
\* session in which a run_in_session command is still executing is never
\* expired, so the reaper never destroys its root under the command.
BusyNeverExpired ==
    \A h \in H : hs[h].pc = "run" /\ hs[h].sid \in live => hs[h].sid \notin Expired

\* Spec 3: a sandbox root is owned by its session, so every root on disk
\* belongs to a live session, to a create_session about to insert it, or
\* to a removed session whose cleanup task has not run yet.
NoOrphanRoot ==
    roots \subseteq live \cup {c.sid : c \in cleanups}
                       \cup {hs[h].sid : h \in {g \in H : hs[g].pc = "create"}}

\* Spec 3 and 8: a root comes into existence only for a new session id;
\* once destroyed, the root of a deleted or reaped session never
\* reappears, whatever handler of that session was still in flight.
RootsOnlyForNewSessions ==
    [][\A id \in roots' \ roots : id \notin usedIds]_vars

\* Spec 3 and 4.3: kill_background and the cleanup tasks signal the
\* processes the session spawned, never a process outside the service.
NoForeignKill == [][foreign \subseteq foreign']_vars

-----------------------------------------------------------------------------
(* Refinement of the session lifecycle *)

\* The phase of an id as the registry shows it: in the map, held by a
\* create_session that has made its root, drawn before, or never drawn.
PhaseOf ==
    [id \in Ids |->
        IF id \in live THEN "live"
        ELSE IF \E h \in H : hs[h].pc = "create" /\ hs[h].sid = id THEN "creating"
        ELSE IF id \in usedIds THEN "gone"
        ELSE "fresh"]

Life == INSTANCE SessionLifecycle WITH phase <- PhaseOf

\* Spec 3: the handlers, the reaper and the cleanup tasks together follow
\* the session lifecycle: ids are never reused, a record is inserted only
\* over an existing root, and only the roots of removed or abandoned ids
\* are destroyed or re-created.
ImplementsLifecycle == Life!LSpec
=============================================================================
