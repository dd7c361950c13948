------------------------- MODULE SessionsRefinement -------------------------
(***************************************************************************)
(* Proof that the registry, its handlers, the reaper and the cleanup tasks *)
(* (Sessions) implement the session lifecycle (SessionLifecycle) under the *)
(* mapping PhaseOf, for every number of ids, pids and handlers.           *)
(***************************************************************************)
EXTENDS SessionsProofs

\* Ids held by a create_session that has made the root.
CreatingIds == {hs[h].sid : h \in Creating}

\* Every busy handler slot holds an id that was drawn: create_session's own
\* fresh uuid, or the id of a session that was live when phase 1 ran.
SlotsUsed == \A h \in H : hs[h].pc # "idle" => hs[h].sid \in usedIds

RInv == IInv /\ SlotsUsed

\* The phase of an id, read through CreatingIds.
LEMMA PhaseOfDef ==
    ASSUME NEW id \in Ids
    PROVE  PhaseOf[id] = IF id \in live THEN "live"
                         ELSE IF id \in CreatingIds THEN "creating"
                         ELSE IF id \in usedIds THEN "gone"
                         ELSE "fresh"
BY DEF PhaseOf, CreatingIds, Creating

LEMMA PhaseOfDefPrime ==
    ASSUME NEW id \in Ids
    PROVE  PhaseOf'[id] = IF id \in live' THEN "live"
                          ELSE IF id \in CreatingIds' THEN "creating"
                          ELSE IF id \in usedIds' THEN "gone"
                          ELSE "fresh"
BY DEF PhaseOf, CreatingIds, Creating

\* A step that keeps live, usedIds and the ids being created keeps PhaseOf.
LEMMA PhaseFrame ==
    ASSUME UNCHANGED <<live, usedIds>>, CreatingIds' = CreatingIds
    PROVE  PhaseOf' = PhaseOf
BY PhaseOfDef, PhaseOfDefPrime DEF PhaseOf

\* PhaseOf' is a function on Ids.
LEMMA PhaseFun == PhaseOf' = [x \in Ids |-> PhaseOf'[x]]
BY DEF PhaseOf

\* Setting a slot outside "create" to a slot outside "create" keeps the
\* ids being created.
LEMMA CreatingFrame ==
    ASSUME hs \in [H -> HandlerState], NEW h \in H, NEW x,
           hs[h].pc # "create", x.pc # "create", hs' = [hs EXCEPT ![h] = x]
    PROVE  CreatingIds' = CreatingIds
BY DEF CreatingIds, Creating

\* Every step keeps the drawn ids of busy slots drawn.
LEMMA SlotsUsedInvariant == Spec => [](RInv)
<1> USE IdsAssumption, PidsAssumption, PortAssumption, TimeAssumption
<1>1. Init => SlotsUsed
  BY DEF Init, SlotsUsed, IdleHandler, Slot
<1>2. IInv /\ SlotsUsed /\ [Next]_vars => SlotsUsed'
  <2> SUFFICES ASSUME IInv, SlotsUsed, [Next]_vars PROVE SlotsUsed'
    OBVIOUS
  <2> USE DEF IInv, TypeInv, TypeOK
  <2>i. IdleHandler.pc = "idle"
    BY DEF IdleHandler, Slot
  \* a step that frees slot h and keeps usedIds
  <2>f. ASSUME NEW h \in H, hs' = [hs EXCEPT ![h] = IdleHandler], usedIds' = usedIds
        PROVE  SlotsUsed'
    BY <2>f, <2>i DEF SlotsUsed
  \* phase 1 of a handler on a live session
  <2>l. ASSUME NEW h \in H, NEW id \in live, NEW x, x.pc # "idle" => x.sid = id,
               hs' = [hs EXCEPT ![h] = x], usedIds' = usedIds
        PROVE  SlotsUsed'
    BY <2>l DEF SlotsUsed, RootsInv
  <2>1. ASSUME NEW h \in H, CreateSandbox(h) PROVE SlotsUsed'
    BY <2>1 DEF CreateSandbox, SlotsUsed, Slot
  <2>2. ASSUME NEW h \in H,
               CreateInsert(h) \/ RunFinish(h) \/ WriteDone(h) \/ ReadDone(h)
               \/ BgTrack(h) \/ CancelHandler(h)
        PROVE  SlotsUsed'
    BY <2>2, <2>f DEF CreateInsert, RunFinish, WriteDone, ReadDone, BgTrack, CancelHandler, CancelCreate, CancelBackground
  <2>3. ASSUME NEW h \in H, BgSpawn(h) PROVE SlotsUsed'
    BY <2>3, <2>f DEF BgSpawn, SlotsUsed, Slot
  <2>4. ASSUME NEW h \in H, NEW id \in Ids, NEW op \in FileOps, FileLock(h, id, op)
        PROVE  SlotsUsed'
    BY <2>4, <2>l DEF FileLock, Slot
  <2>5. ASSUME NEW h \in H, NEW id \in Ids, NEW l \in RunLimits, RunLock(h, id, l)
        PROVE  SlotsUsed'
    BY <2>5, <2>l DEF RunLock, Slot
  <2>6. ASSUME NEW h \in H, NEW id \in Ids, NEW p \in ReqPorts, BgLock(h, id, p)
        PROVE  SlotsUsed'
    BY <2>6, <2>l DEF BgLock, Slot
  <2>7. CASE UNCHANGED <<hs, usedIds>>
    BY <2>7 DEF SlotsUsed
  <2>8. ASSUME NEW id \in Ids,
               DeleteSession(id) \/ SetEnv(id) \/ SetCwd(id) \/ ProxyLookup(id)
               \/ KillBackground(id)
        PROVE  UNCHANGED <<hs, usedIds>>
    BY <2>8 DEF DeleteSession, SetEnv, SetCwd, ProxyLookup, KillBackground
  <2>9. CASE \/ CleanupExpiredSessions \/ ListSessions \/ Tick \/ UNCHANGED vars
             \/ \E c \in cleanups : RunCleanup(c)
             \/ \E p \in Pids : ProcessExit(p) \/ ForeignSpawn(p)
    <3>1. UNCHANGED <<hs, usedIds>>
      BY <2>9 DEF CleanupExpiredSessions, ListSessions, Tick, vars, RunCleanup,
                 ProcessExit, ForeignSpawn
    <3> QED BY <3>1, <2>7
  <2> QED BY <2>1, <2>2, <2>3, <2>4, <2>5, <2>6, <2>7, <2>8, <2>9 DEF Next
<1> QED BY <1>1, <1>2, RootsInvariant, PTL DEF Spec, RInv

\* The registry implements the session lifecycle (spec 3): each registry
\* step is a lifecycle step of one id, a removal of several, a root
\* destroyed or re-created for a gone id, or leaves phases and roots alone.
THEOREM LifecycleRefinement == Spec => ImplementsLifecycle
<1> USE IdsAssumption, PidsAssumption, PortAssumption, TimeAssumption
<1>1. Init => Life!LInit
  BY DEF Init, Life!LInit, PhaseOf, IdleHandler, Slot
<1>2. RInv /\ [Next]_vars => [Life!LNext]_Life!lvars
  <2> SUFFICES ASSUME RInv, [Next]_vars PROVE [Life!LNext]_Life!lvars
    OBVIOUS
  <2> USE DEF RInv, IInv, TypeInv, TypeOK
  <2>i. IdleHandler.pc = "idle"
    BY DEF IdleHandler, Slot
  \* steps that leave phases and roots alone
  <2>u. ASSUME PhaseOf' = PhaseOf, roots' = roots PROVE [Life!LNext]_Life!lvars
    BY <2>u DEF Life!lvars
  \* a slot moving outside "create", with live, usedIds and roots kept
  <2>s. ASSUME NEW h \in H, NEW x, hs[h].pc # "create", x.pc # "create",
               hs' = [hs EXCEPT ![h] = x], UNCHANGED <<live, usedIds, roots>>
        PROVE  [Life!LNext]_Life!lvars
    BY <2>s, <2>u, CreatingFrame, PhaseFrame
  <2>1. ASSUME NEW h \in H, CreateSandbox(h) PROVE [Life!LNext]_Life!lvars
    <3>1. PICK id \in Ids \ usedIds :
            /\ usedIds' = usedIds \cup {id}
            /\ \/ roots' = roots \cup {id} /\ hs' = [hs EXCEPT ![h] = Slot("create", id, 0, NoPid, 0)]
               \/ UNCHANGED <<roots, hs>>
      BY <2>1 DEF CreateSandbox
    <3>2. UNCHANGED live /\ hs[h].pc = "idle"
      BY <2>1 DEF CreateSandbox
    <3>3. id \notin live /\ id \notin CreatingIds
      BY <3>1 DEF RootsInv, CreatingIds
    <3>4. PhaseOf[id] = "fresh"
      BY <3>1, <3>3, PhaseOfDef
    <3>5. CASE UNCHANGED <<roots, hs>>
      <4>1. PhaseOf' = [x \in Ids |-> IF x \in {id} THEN "gone" ELSE PhaseOf[x]]
        <5>1. \A x \in Ids : PhaseOf'[x] = IF x \in {id} THEN "gone" ELSE PhaseOf[x]
          BY <3>1, <3>2, <3>3, <3>5, PhaseOfDef, PhaseOfDefPrime DEF CreatingIds, Creating
        <5> QED BY <5>1, PhaseFun
      <4> QED BY <3>4, <3>5, <4>1 DEF Life!LNext, Life!Abandon, Life!MoveTo
    <3>6. CASE roots' = roots \cup {id} /\ hs' = [hs EXCEPT ![h] = Slot("create", id, 0, NoPid, 0)]
      <4>1. CreatingIds' = CreatingIds \cup {id}
        BY <3>2, <3>6 DEF CreatingIds, Creating, Slot
      <4>2. PhaseOf' = [x \in Ids |-> IF x \in {id} THEN "creating" ELSE PhaseOf[x]]
        <5>1. \A x \in Ids : PhaseOf'[x] = IF x \in {id} THEN "creating" ELSE PhaseOf[x]
          BY <3>1, <3>2, <3>3, <4>1, PhaseOfDef, PhaseOfDefPrime
        <5> QED BY <5>1, PhaseFun
      <4> QED BY <3>4, <3>6, <4>2 DEF Life!LNext, Life!Begin, Life!MoveTo
    <3> QED BY <3>1, <3>5, <3>6
  <2>2. ASSUME NEW h \in H, CreateInsert(h) PROVE [Life!LNext]_Life!lvars
    <3> DEFINE id == hs[h].sid
    <3>1. /\ live' = live \cup {id} /\ hs' = [hs EXCEPT ![h] = IdleHandler]
          /\ UNCHANGED <<usedIds, roots>> /\ hs[h].pc = "create"
      BY <2>2 DEF CreateInsert
    <3>2. id \in Ids /\ id \in roots /\ id \notin live /\ id \in CreatingIds
      BY <3>1 DEF RootsInv, Creating, CreatingIds, TrackHasPid, SlotOK
    <3>3. CreatingIds' = CreatingIds \ {id}
      <4>1. Creating' = Creating \ {h} /\ h \in Creating
        BY <3>1, <2>i DEF Creating
      <4>2. \A g \in Creating \ {h} : hs'[g].sid = hs[g].sid /\ hs[g].sid # id
        BY <3>1, <4>1 DEF RootsInv
      <4> QED BY <4>1, <4>2 DEF CreatingIds
    <3>4. PhaseOf[id] = "creating"
      BY <3>2, PhaseOfDef
    <3>5. PhaseOf' = [x \in Ids |-> IF x \in {id} THEN "live" ELSE PhaseOf[x]]
      <4>1. \A x \in Ids : PhaseOf'[x] = IF x \in {id} THEN "live" ELSE PhaseOf[x]
        BY <3>1, <3>2, <3>3, PhaseOfDef, PhaseOfDefPrime
      <4> QED BY <4>1, PhaseFun
    <3> QED BY <3>1, <3>2, <3>4, <3>5 DEF Life!LNext, Life!Insert, Life!MoveTo
  <2>3. ASSUME NEW h \in H, CancelHandler(h) PROVE [Life!LNext]_Life!lvars
    <3>1. hs' = [hs EXCEPT ![h] = IdleHandler] /\ UNCHANGED <<live, usedIds, roots>>
          /\ hs[h].pc \in {"create", "track"}
      BY <2>3 DEF CancelHandler, CancelCreate, CancelBackground
    <3>2. CASE hs[h].pc = "track"
      BY <3>1, <3>2, <2>i, <2>s
    <3>3. CASE hs[h].pc = "create"
      <4> DEFINE id == hs[h].sid
      <4>1. id \in Ids /\ id \in usedIds /\ id \notin live /\ id \in CreatingIds
        BY <3>3 DEF RootsInv, Creating, CreatingIds
      <4>2. CreatingIds' = CreatingIds \ {id}
        <5>1. Creating' = Creating \ {h} /\ h \in Creating
          BY <3>1, <3>3, <2>i DEF Creating
        <5>2. \A g \in Creating \ {h} : hs'[g].sid = hs[g].sid /\ hs[g].sid # id
          BY <3>1, <5>1 DEF RootsInv
        <5> QED BY <5>1, <5>2 DEF CreatingIds
      <4>3. PhaseOf[id] = "creating"
        BY <4>1, PhaseOfDef
      <4>4. PhaseOf' = [x \in Ids |-> IF x \in {id} THEN "gone" ELSE PhaseOf[x]]
        <5>1. \A x \in Ids : PhaseOf'[x] = IF x \in {id} THEN "gone" ELSE PhaseOf[x]
          BY <3>1, <4>1, <4>2, PhaseOfDef, PhaseOfDefPrime
        <5> QED BY <5>1, PhaseFun
      <4> QED BY <3>1, <4>1, <4>3, <4>4 DEF Life!LNext, Life!Cancel, Life!MoveTo
    <3> QED BY <3>1, <3>2, <3>3
  <2>4. ASSUME NEW h \in H, WriteDone(h) PROVE [Life!LNext]_Life!lvars
    <3> DEFINE id == hs[h].sid
    <3>1. /\ roots' \in {roots, roots \cup {id}} /\ hs' = [hs EXCEPT ![h] = IdleHandler]
          /\ UNCHANGED <<live, usedIds>> /\ hs[h].pc \in {"write", "bulk"}
      BY <2>4 DEF WriteDone
    <3>2. PhaseOf' = PhaseOf
      BY <3>1, <2>i, CreatingFrame, PhaseFrame
    <3>3. CASE id \in roots
      BY <3>1, <3>2, <3>3, <2>u
    <3>4. CASE id \notin roots
      <4>1. id \in Ids /\ id \in usedIds /\ id \notin live /\ id \notin CreatingIds
        BY <3>1, <3>4 DEF SlotsUsed, TrackHasPid, SlotOK, RootsInv, CreatingIds, Creating
      <4>2. PhaseOf[id] = "gone"
        BY <4>1, PhaseOfDef
      <4> QED BY <3>1, <3>2, <4>1, <4>2, <2>u DEF Life!LNext, Life!Recreate, Life!lvars
    <3> QED BY <3>3, <3>4
  <2>5. ASSUME NEW c \in cleanups, RunCleanup(c) PROVE [Life!LNext]_Life!lvars
    <3>1. roots' = roots \ {c.sid} /\ UNCHANGED <<live, usedIds, hs>>
      BY <2>5 DEF RunCleanup
    <3>2. c.sid \in Ids /\ c.sid \in usedIds /\ c.sid \notin live /\ c.sid \notin CreatingIds
      BY DEF RootsInv, CleanupIds, CreatingIds, CleanupTask
    <3>3. PhaseOf' = PhaseOf /\ PhaseOf[c.sid] = "gone"
      BY <3>1, <3>2, PhaseFrame, PhaseOfDef DEF CreatingIds, Creating
    <3> QED BY <3>1, <3>2, <3>3 DEF Life!LNext, Life!Destroy
  <2>6. ASSUME NEW id \in Ids, DeleteSession(id) PROVE [Life!LNext]_Life!lvars
    <3>1. live' = live \ {id} /\ id \in live /\ UNCHANGED <<usedIds, roots, hs>>
      BY <2>6 DEF DeleteSession
    <3>2. PhaseOf[id] = "live" /\ CreatingIds' = CreatingIds
      BY <3>1, PhaseOfDef DEF CreatingIds, Creating
    <3>3. id \in usedIds /\ id \notin CreatingIds
      BY <3>1 DEF RootsInv, CreatingIds
    <3>4. PhaseOf' = [x \in Ids |-> IF x \in {id} THEN "gone" ELSE PhaseOf[x]]
      <4>1. \A x \in Ids : PhaseOf'[x] = IF x \in {id} THEN "gone" ELSE PhaseOf[x]
        BY <3>1, <3>2, <3>3, PhaseOfDef, PhaseOfDefPrime
      <4> QED BY <4>1, PhaseFun
    <3>5. Life!Remove({id})
      BY <3>1, <3>2, <3>4 DEF Life!Remove, Life!MoveTo
    <3> QED BY <3>5 DEF Life!LNext
  <2>7. CASE CleanupExpiredSessions
    <3>1. live' = live \ Expired /\ Expired # {} /\ Expired \subseteq live
          /\ UNCHANGED <<usedIds, roots, hs>>
      BY <2>7 DEF CleanupExpiredSessions, Expired
    <3>2. \A id \in Expired : PhaseOf[id] = "live"
      BY <3>1, PhaseOfDef
    <3>3. CreatingIds' = CreatingIds /\ Expired \subseteq usedIds /\ Expired \cap CreatingIds = {}
      BY <3>1 DEF RootsInv, CreatingIds, Creating
    <3>4. PhaseOf' = [x \in Ids |-> IF x \in Expired THEN "gone" ELSE PhaseOf[x]]
      <4>1. \A x \in Ids : PhaseOf'[x] = IF x \in Expired THEN "gone" ELSE PhaseOf[x]
        BY <3>1, <3>3, PhaseOfDef, PhaseOfDefPrime
      <4> QED BY <4>1, PhaseFun
    <3>5. Life!Remove(Expired) /\ Expired \in SUBSET Ids
      BY <3>1, <3>2, <3>4 DEF Life!Remove, Life!MoveTo
    <3> QED BY <3>5 DEF Life!LNext
  <2>8. ASSUME NEW h \in H, NEW id \in Ids,
               \/ \E op \in FileOps : FileLock(h, id, op)
               \/ \E l \in RunLimits : RunLock(h, id, l)
               \/ \E p \in ReqPorts : BgLock(h, id, p)
        PROVE  [Life!LNext]_Life!lvars
    BY <2>8, <2>s DEF FileLock, RunLock, BgLock, Slot, FileOps
  <2>9. ASSUME NEW h \in H, RunFinish(h) \/ ReadDone(h) \/ BgTrack(h)
        PROVE  [Life!LNext]_Life!lvars
    BY <2>9, <2>i, <2>s DEF RunFinish, ReadDone, BgTrack
  <2>10. ASSUME NEW h \in H, BgSpawn(h) PROVE [Life!LNext]_Life!lvars
    <3>1. CASE \E p \in Pids \ usedPids :
                 hs' = [hs EXCEPT ![h] = Slot("track", hs[h].sid, hs[h].port, p, 0)]
      <4>1. PICK p \in Pids \ usedPids :
                 hs' = [hs EXCEPT ![h] = Slot("track", hs[h].sid, hs[h].port, p, 0)]
        BY <3>1
      <4> QED BY <2>10, <4>1, <2>s DEF BgSpawn, Slot
    <3>2. CASE hs' = [hs EXCEPT ![h] = IdleHandler]
      BY <2>10, <3>2, <2>i, <2>s DEF BgSpawn
    <3> QED BY <2>10, <3>1, <3>2 DEF BgSpawn
  <2>11. ASSUME NEW id \in Ids,
                SetEnv(id) \/ SetCwd(id) \/ ProxyLookup(id) \/ KillBackground(id)
         PROVE  [Life!LNext]_Life!lvars
    <3>1. UNCHANGED <<live, usedIds, roots, hs>>
      BY <2>11 DEF SetEnv, SetCwd, ProxyLookup, KillBackground
    <3> QED BY <3>1, <2>u, PhaseFrame DEF CreatingIds, Creating
  <2>12. CASE \/ ListSessions \/ Tick \/ UNCHANGED vars
              \/ \E p \in Pids : ProcessExit(p) \/ ForeignSpawn(p)
    <3>1. UNCHANGED <<live, usedIds, roots, hs>>
      BY <2>12 DEF ListSessions, Tick, vars, ProcessExit, ForeignSpawn
    <3> QED BY <3>1, <2>u, PhaseFrame DEF CreatingIds, Creating
  <2> QED
    BY <2>1, <2>2, <2>3, <2>4, <2>5, <2>6, <2>7, <2>8, <2>9, <2>10, <2>11,
       <2>12 DEF Next
<1> QED BY <1>1, <1>2, SlotsUsedInvariant, PTL DEF Spec, ImplementsLifecycle, Life!LSpec
=============================================================================
