-------------------------- MODULE SessionLifecycle --------------------------
(***************************************************************************)
(* What the session registry promises about one session id and its        *)
(* sandbox root (spec 3), stated without handlers, locks or tasks.  An id  *)
(* is "fresh" until create_session draws it.  It is then "creating" while *)
(* its root exists and the record is not yet inserted, then "live", then   *)
(* "gone" once removed.  A failed or cancelled create also ends in "gone". *)
(* An id never goes back.  A root is made only for an id being created,    *)
(* and destroyed only for a gone id.  A gone id's root may reappear: a     *)
(* late file write re-creates it.                                          *)
(***************************************************************************)
CONSTANT Ids

VARIABLES phase,   \* phase[id]: "fresh", "creating", "live" or "gone"
          roots    \* ids whose sandbox root exists on disk

lvars == <<phase, roots>>

Phases == {"fresh", "creating", "live", "gone"}

\* Move the ids of S to phase p.
MoveTo(S, p) == phase' = [id \in Ids |-> IF id \in S THEN p ELSE phase[id]]

\* A new id gets its root and is being created.
Begin(id) ==
  /\ phase[id] = "fresh"
  /\ MoveTo({id}, "creating")
  /\ roots' = roots \cup {id}

\* A new id whose root could not be made is dropped.
Abandon(id) ==
  /\ phase[id] = "fresh"
  /\ MoveTo({id}, "gone")
  /\ UNCHANGED roots

\* The record of an id being created is inserted; its root exists.
Insert(id) ==
  /\ phase[id] = "creating"
  /\ id \in roots
  /\ MoveTo({id}, "live")
  /\ UNCHANGED roots

\* A create is given up after its root was made; the root stays.
Cancel(id) ==
  /\ phase[id] = "creating"
  /\ MoveTo({id}, "gone")
  /\ UNCHANGED roots

\* Some live sessions are removed at once.
Remove(S) ==
  /\ S # {}
  /\ \A id \in S : phase[id] = "live"
  /\ MoveTo(S, "gone")
  /\ UNCHANGED roots

\* The root of a gone id is destroyed.
Destroy(id) ==
  /\ phase[id] = "gone"
  /\ roots' = roots \ {id}
  /\ UNCHANGED phase

\* The root of a gone id is made again.
Recreate(id) ==
  /\ phase[id] = "gone"
  /\ roots' = roots \cup {id}
  /\ UNCHANGED phase

LInit ==
  /\ phase = [id \in Ids |-> "fresh"]
  /\ roots = {}

LNext ==
  \/ \E id \in Ids :
       Begin(id) \/ Abandon(id) \/ Insert(id) \/ Cancel(id)
       \/ Destroy(id) \/ Recreate(id)
  \/ \E S \in SUBSET Ids : Remove(S)

LSpec == LInit /\ [][LNext]_lvars

\* What the lifecycle guarantees at every instant: a live session has its
\* root on disk.
LiveHasRoot == \A id \in Ids : phase[id] = "live" => id \in roots
=============================================================================
