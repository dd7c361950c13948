--------------------------- MODULE SessionsProofs ---------------------------
(***************************************************************************)
(* Proofs about Sessions for every value of the constants: type           *)
(* correctness, and that every live session's sandbox root exists on disk *)
(* (LiveRootsExist), from an inductive strengthening.                      *)
(***************************************************************************)
EXTENDS Sessions, TLAPS

\* Range of a finite sequence lies in its element set.
LEMMA RangeSeq ==
    ASSUME NEW S, NEW s \in Seq(S)
    PROVE  Range(s) \subseteq S
BY DEF Range

\* Appending an element of S keeps a sequence in Seq(S).
LEMMA AppendSeq ==
    ASSUME NEW S, NEW s \in Seq(S), NEW e \in S
    PROVE  Append(s, e) \in Seq(S)
OBVIOUS

-----------------------------------------------------------------------------
(* Type correctness *)

\* What a handler slot holds beyond its type: a busy slot names a real
\* session id, and a slot in "track" a real pid.
SlotOK(x) == /\ x.pc # "idle" => x.sid \in Ids
             /\ x.pc = "track" => x.pid \in Pids

\* TypeOK is not inductive by itself: CreateInsert inserts the id its
\* slot holds and BgTrack appends the pid its slot holds, which are real
\* only because CreateSandbox and BgSpawn put them there.
TrackHasPid == \A h \in H : SlotOK(hs[h])

TypeInv == TypeOK /\ TrackHasPid

\* Setting one slot to a well-formed value keeps all slots well-formed.
LEMMA SlotUpdate ==
    ASSUME NEW f \in [H -> HandlerState], \A g \in H : SlotOK(f[g]),
           NEW h \in H, NEW x \in HandlerState, SlotOK(x)
    PROVE  /\ [f EXCEPT ![h] = x] \in [H -> HandlerState]
           /\ \A g \in H : SlotOK([f EXCEPT ![h] = x][g])
OBVIOUS

\* The slots the handlers build are well-formed.
LEMMA SlotValues ==
    ASSUME IdsAssumption, PidsAssumption, PortAssumption,
           NEW pc \in PCs, NEW id \in Ids \cup {NoId}, NEW port \in PortVal,
           NEW pid \in Pids \cup {NoPid}, NEW d \in Nat,
           pc # "idle" => id \in Ids, pc = "track" => pid \in Pids
    PROVE  Slot(pc, id, port, pid, d) \in HandlerState
           /\ SlotOK(Slot(pc, id, port, pid, d))
BY DEF Slot, HandlerState, SlotOK

LEMMA IdleValue ==
    ASSUME PortAssumption
    PROVE  IdleHandler \in HandlerState /\ SlotOK(IdleHandler)
BY DEF IdleHandler, Slot, HandlerState, SlotOK, PCs, PortVal

\* Session records the handlers build are well-typed.
LEMMA SessionValues ==
    ASSUME NEW ports \in Seq(PortVal), NEW pids \in Seq(Pids), NEW t \in Time
    PROVE  SessionOf(ports, pids, t) \in SessionRec
BY DEF SessionOf, SessionRec

\* Every step of the handlers, the reaper, the cleanup tasks and the
\* environment keeps each variable in its type.
LEMMA TypeInvInductive == Spec => []TypeInv
<1> USE IdsAssumption, PidsAssumption, PortAssumption, TimeAssumption
<1>1. Init => TypeInv
  BY IdleValue DEF Init, TypeInv, TypeOK, TrackHasPid, SessionRec,
                   SessionOf, PortVal, Time
<1>2. TypeInv /\ [Next]_vars => TypeInv'
  <2> SUFFICES ASSUME TypeOK, TrackHasPid, [Next]_vars PROVE TypeOK' /\ TrackHasPid'
    BY DEF TypeInv
  <2> USE DEF TypeOK, TrackHasPid
  <2>e. 0 \in PortVal /\ <<>> \in Seq(PortVal) /\ <<>> \in Seq(Pids)
    BY DEF PortVal
  <2>d. ASSUME NEW id \in Ids, Touch(id) PROVE sess' \in [Ids -> SessionRec]
    BY <2>d, SessionValues DEF Touch, SessionRec
  \* a step that only sets slot h to x, given well-formed x
  <2>s. ASSUME NEW h \in H, NEW x \in HandlerState, SlotOK(x),
               hs' = [hs EXCEPT ![h] = x]
        PROVE  hs' \in [H -> HandlerState] /\ TrackHasPid'
    BY <2>s, SlotUpdate
  <2>i. IdleHandler \in HandlerState /\ SlotOK(IdleHandler)
    BY IdleValue
  <2> HIDE DEF SlotOK
  <2>1. ASSUME NEW h \in H, CreateSandbox(h) PROVE TypeOK' /\ TrackHasPid'
    <3>1. PICK id \in Ids \ usedIds :
            /\ usedIds' = usedIds \cup {id}
            /\ \/ roots' = roots \cup {id} /\ hs' = [hs EXCEPT ![h] = Slot("create", id, 0, NoPid, 0)]
               \/ UNCHANGED <<roots, hs>>
      BY <2>1 DEF CreateSandbox
    <3>2. Slot("create", id, 0, NoPid, 0) \in HandlerState
          /\ SlotOK(Slot("create", id, 0, NoPid, 0))
      BY <2>e, SlotValues DEF PCs
    <3>3. hs' \in [H -> HandlerState] /\ TrackHasPid'
      BY <3>1, <3>2, <2>s
    <3> QED BY <2>1, <3>1, <3>3 DEF CreateSandbox
  <2>2. ASSUME NEW h \in H, CreateInsert(h) PROVE TypeOK' /\ TrackHasPid'
    <3>1. hs[h].sid \in Ids
      BY <2>2 DEF CreateInsert, SlotOK
    <3>2. SessionOf(<<>>, <<>>, now) \in SessionRec
      BY <2>e, SessionValues
    <3>3. hs' \in [H -> HandlerState] /\ TrackHasPid'
      BY <2>2, <2>i, <2>s DEF CreateInsert
    <3> QED BY <2>2, <3>1, <3>2, <3>3 DEF CreateInsert
  <2>3. ASSUME NEW h \in H, RunFinish(h) \/ ReadDone(h) \/ CancelHandler(h)
        PROVE TypeOK' /\ TrackHasPid'
    BY <2>3, <2>i, <2>s DEF RunFinish, ReadDone, CancelHandler, CancelCreate, CancelBackground
  <2>4. ASSUME NEW h \in H, WriteDone(h) PROVE TypeOK' /\ TrackHasPid'
    <3>1. hs[h].sid \in Ids
      BY <2>4 DEF WriteDone, SlotOK
    <3> QED BY <2>4, <3>1, <2>i, <2>s DEF WriteDone
  <2>5. ASSUME NEW h \in H, BgSpawn(h) PROVE TypeOK' /\ TrackHasPid'
    <3>1. hs[h].sid \in Ids /\ hs[h].port \in PortVal /\ hs[h].pid \in Pids \cup {NoPid}
      BY <2>5 DEF BgSpawn, HandlerState, SlotOK
    <3>2. CASE hs[h].sid \in roots /\ \E p \in Pids \ usedPids :
                 /\ alive' = alive \cup {p}
                 /\ usedPids' = usedPids \cup {p}
                 /\ hs' = [hs EXCEPT ![h] = Slot("track", hs[h].sid, hs[h].port, p, 0)]
      <4>1. PICK p \in Pids \ usedPids :
                 /\ alive' = alive \cup {p}
                 /\ usedPids' = usedPids \cup {p}
                 /\ hs' = [hs EXCEPT ![h] = Slot("track", hs[h].sid, hs[h].port, p, 0)]
        BY <3>2
      <4>2. Slot("track", hs[h].sid, hs[h].port, p, 0) \in HandlerState
            /\ SlotOK(Slot("track", hs[h].sid, hs[h].port, p, 0))
        BY <3>1, SlotValues DEF PCs
      <4> QED BY <2>5, <4>1, <4>2, <2>s DEF BgSpawn
    <3>3. CASE hs' = [hs EXCEPT ![h] = IdleHandler] /\ UNCHANGED <<alive, usedPids>>
      BY <2>5, <3>3, <2>i, <2>s DEF BgSpawn
    <3> QED BY <2>5, <3>2, <3>3 DEF BgSpawn
  <2>6. ASSUME NEW h \in H, BgTrack(h) PROVE TypeOK' /\ TrackHasPid'
    <3>1. sess' \in [Ids -> SessionRec]
      <4>a. CASE hs[h].sid \in live
        <5> DEFINE id == hs[h].sid  s == sess[id]
        <5>1. id \in Ids /\ s \in SessionRec
          BY <4>a
        <5>2. hs[h].pid \in Pids /\ hs[h].port \in PortVal
          BY <2>6 DEF BgTrack, HandlerState, SlotOK
        <5>3. /\ Append(s.pids, hs[h].pid) \in Seq(Pids)
              /\ Append(s.ports, hs[h].port) \in Seq(PortVal)
              /\ s.ports \in Seq(PortVal) /\ s.lastUsed \in Time
          BY <5>1, <5>2 DEF SessionRec
        <5>4. sess' = [sess EXCEPT ![id] =
                         SessionOf(IF hs[h].port \in Range(s.ports)
                                   THEN s.ports
                                   ELSE Append(s.ports, hs[h].port),
                                   Append(s.pids, hs[h].pid), s.lastUsed)]
          BY <2>6, <4>a DEF BgTrack
        <5> QED BY <5>1, <5>3, <5>4, SessionValues
      <4>b. CASE hs[h].sid \notin live
        BY <2>6, <4>b DEF BgTrack
      <4> QED BY <4>a, <4>b
    <3>2. hs' \in [H -> HandlerState] /\ TrackHasPid'
      BY <2>6, <2>i, <2>s DEF BgTrack
    <3> QED BY <2>6, <3>1, <3>2 DEF BgTrack
  <2>7. ASSUME NEW h \in H, NEW id \in Ids, NEW op \in FileOps, FileLock(h, id, op)
        PROVE TypeOK' /\ TrackHasPid'
    <3>1. Slot(op, id, 0, NoPid, 0) \in HandlerState /\ SlotOK(Slot(op, id, 0, NoPid, 0))
      BY <2>e, SlotValues DEF PCs, FileOps
    <3>2. hs' \in [H -> HandlerState] /\ TrackHasPid' /\ sess' \in [Ids -> SessionRec]
      BY <2>7, <3>1, <2>s, <2>d DEF FileLock
    <3> QED BY <2>7, <3>2 DEF FileLock
  <2>8. ASSUME NEW h \in H, NEW id \in Ids, NEW l \in RunLimits, RunLock(h, id, l)
        PROVE TypeOK' /\ TrackHasPid'
    <3>1. Slot("run", id, 0, NoPid, now + l) \in HandlerState
          /\ SlotOK(Slot("run", id, 0, NoPid, now + l))
      BY <2>e, SlotValues DEF PCs, Time
    <3>2. hs' \in [H -> HandlerState] /\ TrackHasPid' /\ sess' \in [Ids -> SessionRec]
      BY <2>8, <3>1, <2>s, <2>d DEF RunLock
    <3> QED BY <2>8, <3>2 DEF RunLock
  <2>9. ASSUME NEW h \in H, NEW id \in Ids, NEW p \in ReqPorts, BgLock(h, id, p)
        PROVE TypeOK' /\ TrackHasPid'
    <3>1. sess' \in [Ids -> SessionRec]
      BY <2>9, <2>d DEF BgLock
    <3>2. CASE p = 0
      <4>1. nextPort' \in PortVal /\ allocs' \in 0 .. MaxPortAllocs
            /\ hs' = [hs EXCEPT ![h] = Slot("spawn", id, nextPort, NoPid, 0)]
        BY <2>9, <3>2 DEF BgLock, AllocatePort, PortVal
      <4>2. Slot("spawn", id, nextPort, NoPid, 0) \in HandlerState
            /\ SlotOK(Slot("spawn", id, nextPort, NoPid, 0))
        BY SlotValues DEF PCs
      <4> QED BY <2>9, <3>1, <4>1, <4>2, <2>s DEF BgLock
    <3>3. CASE p # 0
      <4>1. p \in PortVal /\ UNCHANGED <<nextPort, allocs>>
            /\ hs' = [hs EXCEPT ![h] = Slot("spawn", id, p, NoPid, 0)]
        BY <2>9, <3>3 DEF BgLock, PortVal
      <4>2. Slot("spawn", id, p, NoPid, 0) \in HandlerState
            /\ SlotOK(Slot("spawn", id, p, NoPid, 0))
        BY <4>1, SlotValues DEF PCs
      <4> QED BY <2>9, <3>1, <4>1, <4>2, <2>s DEF BgLock
    <3> QED BY <3>2, <3>3
  <2>10. ASSUME NEW id \in Ids, DeleteSession(id) PROVE TypeOK' /\ TrackHasPid'
    BY <2>10, RangeSeq DEF DeleteSession, CleanupFor, CleanupTask, SessionRec
  <2>11. ASSUME NEW id \in Ids, SetEnv(id) \/ SetCwd(id) \/ ProxyLookup(id)
         PROVE TypeOK' /\ TrackHasPid'
    BY <2>11, <2>d DEF SetEnv, SetCwd, ProxyLookup
  <2>12. ASSUME NEW id \in Ids, KillBackground(id) PROVE TypeOK' /\ TrackHasPid'
    BY <2>12, <2>e, SessionValues DEF KillBackground, Time
  <2>13. CASE CleanupExpiredSessions
    BY <2>13, RangeSeq DEF CleanupExpiredSessions, Expired, CleanupFor,
                           CleanupTask, SessionRec
  <2>14. ASSUME NEW c \in cleanups, RunCleanup(c) PROVE TypeOK' /\ TrackHasPid'
    BY <2>14 DEF RunCleanup
  <2>15. ASSUME NEW p \in Pids, ProcessExit(p) \/ ForeignSpawn(p) PROVE TypeOK' /\ TrackHasPid'
    BY <2>15 DEF ProcessExit, ForeignSpawn
  <2>16. CASE Tick
    BY <2>16 DEF Tick, Time
  <2>17. CASE ListSessions \/ UNCHANGED vars
    BY <2>17 DEF ListSessions, vars
  <2> QED
    BY <2>1, <2>2, <2>3, <2>4, <2>5, <2>6, <2>7, <2>8, <2>9, <2>10, <2>11,
       <2>12, <2>13, <2>14, <2>15, <2>16, <2>17 DEF Next
<1> QED BY <1>1, <1>2, PTL DEF Spec

\* Type correctness of the registry, the OS state and every handler slot.
THEOREM TypeCorrect == Spec => []TypeOK
BY TypeInvInductive, PTL DEF TypeInv

-----------------------------------------------------------------------------
(* The sandbox root of every live session exists *)

\* Ids of sessions handed to a pending cleanup task, and of sessions whose
\* create_session has made the root but not yet inserted the record.
CleanupIds == {c.sid : c \in cleanups}
Creating == {h \in H : hs[h].pc = "create"}

\* LiveRootsExist is not inductive: RunCleanup destroys a root, which is
\* safe only because cleanup tasks name removed sessions; CreateInsert adds
\* a session, which is safe only because its root was made and its id is
\* fresh (uuid), so no cleanup task and no other create names it.
RootsInv ==
    /\ live \subseteq roots
    /\ live \cup CleanupIds \subseteq usedIds
    /\ CleanupIds \cap live = {}
    /\ \A h \in Creating :
         /\ hs[h].sid \in roots \cap usedIds
         /\ hs[h].sid \notin live \cup CleanupIds
         /\ \A g \in Creating : g # h => hs[g].sid # hs[h].sid

IInv == TypeInv /\ RootsInv

\* A step that leaves live, roots, usedIds and cleanups alone and moves no
\* slot into or out of "create" keeps RootsInv.
LEMMA RootsFrame ==
    ASSUME RootsInv,
           UNCHANGED <<live, roots, usedIds, cleanups>>,
           \A h \in H : (hs'[h].pc = "create") = (hs[h].pc = "create"),
           \A h \in H : hs[h].pc = "create" => hs'[h].sid = hs[h].sid
    PROVE  RootsInv'
BY DEF RootsInv, CleanupIds, Creating

\* RootsInv, together with the type invariant, holds in every reachable state.
LEMMA RootsInvariant == Spec => []IInv
<1> USE IdsAssumption, PidsAssumption, PortAssumption, TimeAssumption
<1>1. Init => RootsInv
  BY DEF Init, RootsInv, CleanupIds, Creating, IdleHandler, Slot
<1>2. TypeInv /\ RootsInv /\ [Next]_vars => RootsInv'
  <2> SUFFICES ASSUME TypeInv, RootsInv, [Next]_vars PROVE RootsInv'
    OBVIOUS
  <2> USE DEF TypeInv, TypeOK
  <2>i. IdleHandler.pc = "idle"
    BY DEF IdleHandler, Slot
  \* a step that sets slot h, not in "create", to a slot not in "create"
  <2>s. ASSUME NEW h \in H, NEW x, hs[h].pc # "create", x.pc # "create",
               hs' = [hs EXCEPT ![h] = x],
               UNCHANGED <<live, roots, usedIds, cleanups>>
        PROVE  RootsInv'
    BY <2>s, RootsFrame
  <2>1. ASSUME NEW h \in H, CreateSandbox(h) PROVE RootsInv'
    <3>1. PICK id \in Ids \ usedIds :
            /\ usedIds' = usedIds \cup {id}
            /\ \/ roots' = roots \cup {id} /\ hs' = [hs EXCEPT ![h] = Slot("create", id, 0, NoPid, 0)]
               \/ UNCHANGED <<roots, hs>>
      BY <2>1 DEF CreateSandbox
    <3>2. UNCHANGED <<live, cleanups>> /\ hs[h].pc = "idle"
      BY <2>1 DEF CreateSandbox
    <3>3. CASE UNCHANGED <<roots, hs>>
      BY <3>1, <3>2, <3>3 DEF RootsInv, CleanupIds, Creating
    <3>4. CASE roots' = roots \cup {id} /\ hs' = [hs EXCEPT ![h] = Slot("create", id, 0, NoPid, 0)]
      <4>1. hs'[h].pc = "create" /\ hs'[h].sid = id
        BY <3>4 DEF Slot
      <4>2. id \notin live \cup CleanupIds
            /\ \A g \in Creating : hs[g].sid # id
        BY <3>1 DEF RootsInv
      <4>3. Creating' = Creating \cup {h}
        BY <3>4, <4>1 DEF Creating
      <4> QED BY <3>1, <3>2, <3>4, <4>1, <4>2, <4>3 DEF RootsInv, CleanupIds, Creating
    <3> QED BY <3>1, <3>3, <3>4
  <2>2. ASSUME NEW h \in H, CreateInsert(h) PROVE RootsInv'
    <3>1. h \in Creating /\ Creating' = Creating \ {h}
      BY <2>2, <2>i DEF CreateInsert, Creating
    <3> QED BY <2>2, <3>1 DEF CreateInsert, RootsInv, CleanupIds, Creating
  <2>3. ASSUME NEW h \in H, RunFinish(h) \/ ReadDone(h) \/ BgTrack(h) PROVE RootsInv'
    BY <2>3, <2>i, <2>s DEF RunFinish, ReadDone, BgTrack
  \* a late write may re-create a root: roots only grow, no slot enters "create"
  <2>13. ASSUME NEW h \in H, WriteDone(h) PROVE RootsInv'
    <3>1. /\ roots \subseteq roots' /\ UNCHANGED <<live, usedIds, cleanups>>
          /\ hs[h].pc # "create" /\ hs' = [hs EXCEPT ![h] = IdleHandler]
      BY <2>13 DEF WriteDone
    <3>2. Creating' = Creating /\ \A g \in Creating : hs'[g] = hs[g]
      BY <3>1, <2>i DEF Creating
    <3> QED BY <3>1, <3>2 DEF RootsInv, CleanupIds
  \* a cancelled handler leaves "create" or "track" without a writeback
  <2>14. ASSUME NEW h \in H, CancelHandler(h) PROVE RootsInv'
    <3>1. /\ UNCHANGED <<live, roots, usedIds, cleanups>>
          /\ hs' = [hs EXCEPT ![h] = IdleHandler]
      BY <2>14 DEF CancelHandler, CancelCreate, CancelBackground
    <3>2. Creating' \subseteq Creating /\ \A g \in Creating' : hs'[g] = hs[g]
      BY <3>1, <2>i DEF Creating
    <3> QED BY <3>1, <3>2 DEF RootsInv, CleanupIds
  <2>4. ASSUME NEW h \in H, BgSpawn(h) PROVE RootsInv'
    <3>1. CASE \E p \in Pids \ usedPids :
                 hs' = [hs EXCEPT ![h] = Slot("track", hs[h].sid, hs[h].port, p, 0)]
      <4>1. PICK p \in Pids \ usedPids :
                 hs' = [hs EXCEPT ![h] = Slot("track", hs[h].sid, hs[h].port, p, 0)]
        BY <3>1
      <4> QED BY <2>4, <4>1, <2>s DEF BgSpawn, Slot
    <3>2. CASE hs' = [hs EXCEPT ![h] = IdleHandler]
      BY <2>4, <3>2, <2>i, <2>s DEF BgSpawn
    <3> QED BY <2>4, <3>1, <3>2 DEF BgSpawn
  <2>5. ASSUME NEW h \in H, NEW id \in Ids, NEW op \in FileOps, FileLock(h, id, op)
        PROVE RootsInv'
    BY <2>5, <2>s DEF FileLock, Slot, FileOps
  <2>6. ASSUME NEW h \in H, NEW id \in Ids, NEW l \in RunLimits, RunLock(h, id, l)
        PROVE RootsInv'
    BY <2>6, <2>s DEF RunLock, Slot
  <2>7. ASSUME NEW h \in H, NEW id \in Ids, NEW p \in ReqPorts, BgLock(h, id, p)
        PROVE RootsInv'
    BY <2>7, <2>s DEF BgLock, Slot
  <2>8. ASSUME NEW id \in Ids, DeleteSession(id) PROVE RootsInv'
    <3>0. cleanups' = cleanups \cup {CleanupFor(id)} /\ CleanupFor(id).sid = id
      BY <2>8 DEF DeleteSession, CleanupFor
    <3>1. CleanupIds' = CleanupIds \cup {id}
      BY <3>0 DEF CleanupIds
    <3> QED BY <2>8, <3>1 DEF DeleteSession, RootsInv, Creating
  <2>9. CASE CleanupExpiredSessions
    <3>0. /\ cleanups' = cleanups \cup {CleanupFor(id) : id \in Expired}
          /\ \A id \in Expired : CleanupFor(id).sid = id
          /\ Expired \subseteq live
      BY <2>9 DEF CleanupExpiredSessions, CleanupFor, Expired
    <3>1. CleanupIds' = CleanupIds \cup Expired /\ Expired \subseteq live
      BY <3>0 DEF CleanupIds
    <3> QED BY <2>9, <3>1 DEF CleanupExpiredSessions, RootsInv, Creating
  <2>10. ASSUME NEW c \in cleanups, RunCleanup(c) PROVE RootsInv'
    <3>1. CleanupIds' \subseteq CleanupIds /\ c.sid \in CleanupIds
      BY <2>10 DEF RunCleanup, CleanupIds
    <3> QED BY <2>10, <3>1 DEF RunCleanup, RootsInv, Creating
  <2>11. ASSUME NEW id \in Ids,
                SetEnv(id) \/ SetCwd(id) \/ ProxyLookup(id) \/ KillBackground(id)
         PROVE RootsInv'
    BY <2>11, RootsFrame DEF SetEnv, SetCwd, ProxyLookup, KillBackground
  <2>12. CASE Tick \/ ListSessions \/ UNCHANGED vars
               \/ \E p \in Pids : ProcessExit(p) \/ ForeignSpawn(p)
    BY <2>12, RootsFrame DEF Tick, ListSessions, vars, ProcessExit, ForeignSpawn
  <2> QED
    BY <2>1, <2>2, <2>3, <2>4, <2>5, <2>6, <2>7, <2>8, <2>9, <2>10, <2>11,
       <2>12, <2>13, <2>14 DEF Next
<1> QED BY <1>1, <1>2, TypeInvInductive, PTL DEF Spec, IInv

\* Spec 3: the sandbox root of every live session exists on disk, for
\* every interleaving of create_session, delete_session, the reaper and
\* the detached cleanup tasks, and for every number of sessions.
THEOREM LiveRootsExistThm == Spec => []LiveRootsExist
<1>1. IInv => LiveRootsExist
  BY DEF IInv, RootsInv, LiveRootsExist
<1> QED BY <1>1, RootsInvariant, PTL


-----------------------------------------------------------------------------
(* No session lists a port twice *)

\* A sequence without repeated elements.
NoDup(s) == \A i, j \in DOMAIN s : i # j => s[i] # s[j]

\* PortsNoDuplicates only speaks of live sessions; the strengthening speaks
\* of every record, since BgTrack may write to a record that is no longer
\* live only through the guard id \in live and CreateInsert resets it.
PortsInv == \A id \in Ids : NoDup(sess[id].ports)

\* Appending an element not yet present keeps a sequence duplicate-free.
LEMMA NoDupAppend ==
    ASSUME NEW S, NEW s \in Seq(S), NEW e \in S, NoDup(s), e \notin Range(s)
    PROVE  NoDup(Append(s, e))
BY DEF NoDup, Range

\* A step that rewrites one session record with duplicate-free ports and
\* leaves the others alone keeps PortsInv.
LEMMA PortsUpdate ==
    ASSUME NEW id \in Ids, NEW ps, NEW pids, NEW t,
           sess \in [Ids -> SessionRec], PortsInv, NoDup(ps),
           sess' = [sess EXCEPT ![id] = SessionOf(ps, pids, t)]
    PROVE  PortsInv'
BY DEF PortsInv, SessionOf

\* Spec 3: a session's ports hold no duplicates, for any number of
\* concurrent run_background requests: BgTrack appends its port only when
\* the contains check fails, and every other writer keeps or clears the list.
THEOREM PortsNoDuplicatesThm == Spec => []PortsNoDuplicates
<1> USE IdsAssumption, PidsAssumption, PortAssumption, TimeAssumption
<1>1. Init => PortsInv
  BY DEF Init, PortsInv, NoDup, SessionOf
<1>2. TypeInv /\ PortsInv /\ [Next]_vars => PortsInv'
  <2> SUFFICES ASSUME TypeInv, PortsInv, [Next]_vars PROVE PortsInv'
    OBVIOUS
  <2> USE DEF TypeInv, TypeOK
  <2>e. NoDup(<<>>)
    BY DEF NoDup
  \* Touch(id) keeps the ports of id
  <2>t. ASSUME NEW id \in Ids, Touch(id) PROVE PortsInv'
    <3>1. NoDup(sess[id].ports)
      BY DEF PortsInv
    <3>2. sess' = [sess EXCEPT ![id] = SessionOf(sess[id].ports, sess[id].pids, now)]
      BY <2>t DEF Touch
    <3> QED BY <3>1, <3>2, PortsUpdate
  <2>1. ASSUME NEW h \in H, CreateInsert(h) PROVE PortsInv'
    <3>1. hs[h].sid \in Ids
      BY <2>1 DEF CreateInsert, TrackHasPid, SlotOK
    <3> QED BY <2>1, <2>e, <3>1, PortsUpdate DEF CreateInsert
  <2>2. ASSUME NEW h \in H, BgTrack(h) PROVE PortsInv'
    <3> DEFINE id == hs[h].sid
               s == sess[id]
               ps == IF hs[h].port \in Range(s.ports) THEN s.ports
                     ELSE Append(s.ports, hs[h].port)
    <3>1. CASE id \notin live
      <4>1. sess' = sess
        BY <2>2, <3>1 DEF BgTrack
      <4> QED BY <4>1 DEF PortsInv
    <3>2. CASE id \in live
      <4>1. id \in Ids /\ s \in SessionRec /\ hs[h].port \in PortVal
        BY <3>2 DEF HandlerState
      <4>2. NoDup(ps)
        <5>1. NoDup(s.ports) /\ s.ports \in Seq(PortVal)
          BY <4>1 DEF PortsInv, SessionRec
        <5> QED BY <4>1, <5>1, NoDupAppend
      <4>3. sess' = [sess EXCEPT ![id] = SessionOf(ps, Append(s.pids, hs[h].pid), s.lastUsed)]
        BY <2>2, <3>2 DEF BgTrack
      <4> QED BY <4>1, <4>2, <4>3, PortsUpdate
    <3> QED BY <3>1, <3>2
  <2>3. ASSUME NEW id \in Ids, KillBackground(id) PROVE PortsInv'
    BY <2>3, <2>e, PortsUpdate DEF KillBackground
  <2>4. ASSUME NEW h \in H, NEW id \in Ids,
               \/ \E op \in FileOps : FileLock(h, id, op)
               \/ \E l \in RunLimits : RunLock(h, id, l)
               \/ \E p \in ReqPorts : BgLock(h, id, p)
        PROVE PortsInv'
    BY <2>4, <2>t DEF FileLock, RunLock, BgLock
  <2>5. ASSUME NEW id \in Ids, SetEnv(id) \/ SetCwd(id) \/ ProxyLookup(id)
        PROVE PortsInv'
    BY <2>5, <2>t DEF SetEnv, SetCwd, ProxyLookup
  <2>6. CASE UNCHANGED sess
    BY <2>6 DEF PortsInv
  <2>7. ASSUME NEW h \in H,
               \/ CreateSandbox(h) \/ RunFinish(h) \/ WriteDone(h) \/ ReadDone(h)
               \/ BgSpawn(h) \/ CancelHandler(h)
        PROVE UNCHANGED sess
    BY <2>7 DEF CreateSandbox, RunFinish, WriteDone, ReadDone, BgSpawn, CancelHandler, CancelCreate, CancelBackground
  <2>8. ASSUME NEW id \in Ids, DeleteSession(id) PROVE UNCHANGED sess
    BY <2>8 DEF DeleteSession
  <2>9. CASE \/ CleanupExpiredSessions \/ ListSessions \/ Tick \/ UNCHANGED vars
             \/ \E c \in cleanups : RunCleanup(c)
             \/ \E p \in Pids : ProcessExit(p) \/ ForeignSpawn(p)
    <3>1. UNCHANGED sess
      BY <2>9 DEF CleanupExpiredSessions, ListSessions, Tick, vars, RunCleanup,
                 ProcessExit, ForeignSpawn
    <3> QED BY <3>1, <2>6
  <2> QED BY <2>1, <2>2, <2>3, <2>4, <2>5, <2>6, <2>7, <2>8, <2>9 DEF Next
<1>3. TypeInv /\ PortsInv => PortsNoDuplicates
  BY DEF TypeInv, TypeOK, PortsInv, PortsNoDuplicates, NoDup
<1> QED BY <1>1, <1>2, <1>3, TypeInvInductive, PTL DEF Spec

-----------------------------------------------------------------------------
(* No pid leaves the tracked set while it runs *)

\* Appending to a sequence keeps everything it held.
LEMMA RangeAppend ==
    ASSUME NEW S, NEW s \in Seq(S), NEW e
    PROVE  Range(Append(s, e)) = Range(s) \cup {e}
<1>1. /\ DOMAIN Append(s, e) = 1 .. Len(s) + 1 /\ DOMAIN s = 1 .. Len(s)
      /\ \A i \in 1 .. Len(s) : Append(s, e)[i] = s[i]
      /\ Append(s, e)[Len(s) + 1] = e
  OBVIOUS
<1>2. \A x \in Range(Append(s, e)) : x \in Range(s) \cup {e}
  BY <1>1 DEF Range
<1>3. \A x \in Range(s) \cup {e} : x \in Range(Append(s, e))
  BY <1>1 DEF Range
<1> QED BY <1>2, <1>3

\* TrackedPids for given live ids, session records and cleanup tasks.
TrackedIn(L, S, C) == (UNION {Range(S[id].pids) : id \in L}) \cup (UNION {c.pids : c \in C})

\* A pid is tracked when some live session or some cleanup task holds it.
LEMMA TrackedMem ==
    ASSUME NEW L, NEW S, NEW C, NEW p
    PROVE  p \in TrackedIn(L, S, C) <=>
             \/ \E id \in L : p \in Range(S[id].pids)
             \/ \E c \in C : p \in c.pids
<1>1. p \in UNION {Range(S[id].pids) : id \in L} <=> \E id \in L : p \in Range(S[id].pids)
  BY Zenon
<1>2. p \in UNION {c.pids : c \in C} <=> \E c \in C : p \in c.pids
  BY Zenon
<1>3. p \in TrackedIn(L, S, C) <=>
        p \in UNION {Range(S[id].pids) : id \in L} \/ p \in (UNION {c.pids : c \in C})
  BY DEF TrackedIn
<1> QED BY <1>1, <1>2, <1>3

LEMMA TrackedDef ==
    TrackedPids = TrackedIn(live, sess, cleanups) /\ TrackedPids' = TrackedIn(live', sess', cleanups')
BY DEF TrackedPids, TrackedIn

\* A step that keeps live and cleanups and whose live session records keep
\* their pids (maybe adding some) never drops a tracked pid.
LEMMA TrackedFrame ==
    ASSUME UNCHANGED <<live, cleanups>>,
           \A id \in live : Range(sess[id].pids) \subseteq Range(sess'[id].pids)
    PROVE  TrackedPids \subseteq TrackedPids'
BY DEF TrackedPids

\* Spec 3, "removal from background_pids implies a delivered SIGKILL
\* attempt": for every number of sessions, pids and concurrent handlers,
\* kill_background and the cleanup tasks stop tracking only pids they have
\* killed, delete and the reaper hand every pid to a cleanup task, and the
\* other handlers only add pids.  create_session may overwrite a record
\* only because its id is fresh, which RootsInv provides.
THEOREM UntrackedOnlyWhenKilledThm == Spec => UntrackedOnlyWhenKilled
<1> USE IdsAssumption, PidsAssumption, PortAssumption, TimeAssumption
<1>1. IInv /\ [Next]_vars => \A p \in TrackedPids \ TrackedPids' : p \notin alive'
  <2> SUFFICES ASSUME IInv, [Next]_vars
               PROVE  \A p \in TrackedPids \ TrackedPids' : p \notin alive'
    OBVIOUS
  <2> USE DEF IInv, TypeInv, TypeOK
  \* it suffices that nothing tracked is dropped
  <2>g. ASSUME TrackedPids \subseteq TrackedPids'
        PROVE  \A p \in TrackedPids \ TrackedPids' : p \notin alive'
    BY <2>g
  \* a touch keeps every pid list
  <2>t. ASSUME NEW id \in Ids, Touch(id), UNCHANGED <<live, cleanups>>
        PROVE  TrackedPids \subseteq TrackedPids'
    <3>1. \A x \in live : sess'[x].pids = sess[x].pids
      BY <2>t DEF Touch, SessionOf
    <3> QED BY <2>t, <3>1, TrackedFrame
  <2>1. ASSUME NEW h \in H, CreateInsert(h) PROVE TrackedPids \subseteq TrackedPids'
    <3>1. hs[h].sid \notin live /\ hs[h].sid \in Ids
      BY <2>1 DEF CreateInsert, RootsInv, Creating, TrackHasPid, SlotOK
    <3>2. \A x \in live : sess'[x] = sess[x]
      BY <2>1, <3>1 DEF CreateInsert
    <3>3. live \subseteq live' /\ cleanups' = cleanups
      BY <2>1 DEF CreateInsert
    <3> QED BY <3>2, <3>3 DEF TrackedPids
  <2>2. ASSUME NEW h \in H, BgTrack(h) PROVE TrackedPids \subseteq TrackedPids'
    <3>1. CASE hs[h].sid \notin live
      BY <2>2, <3>1, TrackedFrame DEF BgTrack
    <3>2. CASE hs[h].sid \in live
      <4> DEFINE id == hs[h].sid
                 s == sess[id]
      <4>1. id \in Ids /\ s.pids \in Seq(Pids)
        BY <3>2 DEF SessionRec
      <4>2. sess' = [sess EXCEPT ![id] = SessionOf(IF hs[h].port \in Range(s.ports)
                                                    THEN s.ports
                                                    ELSE Append(s.ports, hs[h].port),
                                                    Append(s.pids, hs[h].pid), s.lastUsed)]
        BY <2>2, <3>2 DEF BgTrack
      <4>3. Range(s.pids) \subseteq Range(sess'[id].pids)
        BY <4>1, <4>2, RangeAppend DEF SessionOf
      <4>4. \A x \in live \ {id} : sess'[x] = sess[x]
        BY <4>2
      <4>5. UNCHANGED <<live, cleanups>>
        BY <2>2 DEF BgTrack
      <4> QED BY <4>3, <4>4, <4>5, TrackedFrame
    <3> QED BY <3>1, <3>2
  <2>3. ASSUME NEW id \in Ids, DeleteSession(id) PROVE TrackedPids \subseteq TrackedPids'
    <3>1. cleanups' = cleanups \cup {CleanupFor(id)} /\ live' = live \ {id}
          /\ sess' = sess /\ CleanupFor(id).pids = Range(sess[id].pids)
      BY <2>3 DEF DeleteSession, CleanupFor
    <3> SUFFICES ASSUME NEW p \in TrackedPids PROVE p \in TrackedPids'
      OBVIOUS
    <3>2. \/ \E x \in live : p \in Range(sess[x].pids)
          \/ \E c \in cleanups : p \in c.pids
      BY TrackedDef, TrackedMem
    <3>3. \/ \E x \in live' : p \in Range(sess'[x].pids)
          \/ \E c \in cleanups' : p \in c.pids
      BY <3>1, <3>2
    <3> QED BY <3>3, TrackedDef, TrackedMem
  <2>4. CASE CleanupExpiredSessions
    <3>1. /\ cleanups' = cleanups \cup {CleanupFor(id) : id \in Expired}
          /\ live' = live \ Expired /\ sess' = sess
          /\ \A id \in Expired : CleanupFor(id).pids = Range(sess[id].pids)
      BY <2>4 DEF CleanupExpiredSessions, CleanupFor
    <3> SUFFICES ASSUME NEW p \in TrackedPids PROVE p \in TrackedPids'
      OBVIOUS
    <3>2. \/ \E x \in live : p \in Range(sess[x].pids)
          \/ \E c \in cleanups : p \in c.pids
      BY TrackedDef, TrackedMem
    <3>3. \/ \E x \in live' : p \in Range(sess'[x].pids)
          \/ \E c \in cleanups' : p \in c.pids
      BY <3>1, <3>2
    <3> QED BY <3>3, TrackedDef, TrackedMem
  <2>5. ASSUME NEW c \in cleanups, RunCleanup(c)
        PROVE  \A p \in TrackedPids \ TrackedPids' : p \notin alive'
    <3>1. /\ cleanups' = cleanups \ {c} /\ alive' = alive \ c.pids
          /\ UNCHANGED <<live, sess>>
      BY <2>5 DEF RunCleanup
    <3> SUFFICES ASSUME NEW p \in TrackedPids \ TrackedPids' PROVE p \notin alive'
      OBVIOUS
    <3>2. /\ \/ \E x \in live : p \in Range(sess[x].pids)
             \/ \E d \in cleanups : p \in d.pids
          /\ ~ \/ \E x \in live' : p \in Range(sess'[x].pids)
               \/ \E d \in cleanups' : p \in d.pids
      BY TrackedDef, TrackedMem
    <3>3. p \in c.pids
      BY <3>1, <3>2
    <3> QED BY <3>1, <3>3
  <2>6. ASSUME NEW id \in Ids, KillBackground(id)
        PROVE  \A p \in TrackedPids \ TrackedPids' : p \notin alive'
    <3>1. /\ sess' = [sess EXCEPT ![id] = SessionOf(<<>>, <<>>, now)]
          /\ alive' = alive \ Range(sess[id].pids)
          /\ UNCHANGED <<live, cleanups>>
      BY <2>6 DEF KillBackground
    <3>2. \A x \in live \ {id} : sess'[x] = sess[x]
      BY <3>1
    <3> SUFFICES ASSUME NEW p \in TrackedPids \ TrackedPids' PROVE p \notin alive'
      OBVIOUS
    <3>4. /\ \/ \E x \in live : p \in Range(sess[x].pids)
             \/ \E d \in cleanups : p \in d.pids
          /\ ~ \/ \E x \in live' : p \in Range(sess'[x].pids)
               \/ \E d \in cleanups' : p \in d.pids
      BY TrackedDef, TrackedMem
    <3>3. p \in Range(sess[id].pids)
      BY <3>1, <3>2, <3>4
    <3> QED BY <3>1, <3>3
  <2>7. ASSUME NEW h \in H, NEW id \in Ids,
               \/ \E op \in FileOps : FileLock(h, id, op)
               \/ \E l \in RunLimits : RunLock(h, id, l)
               \/ \E p \in ReqPorts : BgLock(h, id, p)
        PROVE  TrackedPids \subseteq TrackedPids'
    BY <2>7, <2>t DEF FileLock, RunLock, BgLock
  <2>8. ASSUME NEW id \in Ids, SetEnv(id) \/ SetCwd(id) \/ ProxyLookup(id)
        PROVE  TrackedPids \subseteq TrackedPids'
    BY <2>8, <2>t DEF SetEnv, SetCwd, ProxyLookup
  <2>9. ASSUME NEW h \in H,
               \/ CreateSandbox(h) \/ RunFinish(h) \/ WriteDone(h) \/ ReadDone(h)
               \/ BgSpawn(h) \/ CancelHandler(h)
        PROVE  TrackedPids \subseteq TrackedPids'
    <3>1. UNCHANGED <<live, cleanups, sess>>
      BY <2>9 DEF CreateSandbox, RunFinish, WriteDone, ReadDone, BgSpawn, CancelHandler, CancelCreate, CancelBackground
    <3> QED BY <3>1, TrackedFrame
  <2>10. CASE \/ ListSessions \/ Tick \/ UNCHANGED vars
              \/ \E p \in Pids : ProcessExit(p) \/ ForeignSpawn(p)
    <3>1. UNCHANGED <<live, cleanups, sess>>
      BY <2>10 DEF ListSessions, Tick, vars, ProcessExit, ForeignSpawn
    <3> QED BY <3>1, TrackedFrame
  <2> QED
    BY <2>g, <2>1, <2>2, <2>3, <2>4, <2>5, <2>6, <2>7, <2>8, <2>9, <2>10 DEF Next
<1> QED BY <1>1, RootsInvariant, PTL DEF Spec, UntrackedOnlyWhenKilled
=============================================================================
