---------------------------- MODULE ControlPlane ---------------------------
(***************************************************************************)
(* The control plane's use of its SQLite file (core/api/app.py,            *)
(* db/sqlite_backend.py, db/models.py): processes that start on one file   *)
(* and seed it in demo mode, and the handlers that record action events.   *)
(* A handler runs in a thread of its process with a session of its own; it *)
(* takes the file's write lock with its INSERT, which finds a row that is  *)
(* unique and there already, and gives it back with the COMMIT.  A process *)
(* may die at any step: what was not committed is gone.                    *)
(***************************************************************************)
EXTENDS Naturals, FiniteSets

CONSTANTS Procs,     \* processes on one database file
          Posts,     \* bound: requests that post an event
          EventIds   \* the events' ids; clients may post one more than once
ASSUME PlaneAssumption ==
  Procs \cap Posts = {} /\ "free" \notin Procs \cup Posts /\ "demo" \notin EventIds

VARIABLES rows,      \* committed rows by their unique key, with how often each is there
          locker,    \* who holds the write lock
          proc,      \* per process: new, checked (found no data), seeding, up, dead
          post       \* per request: its event, its process, where it stands, what it was told
planeVars == <<rows, locker, proc, post>>

Free == "free"
Demo == "demo"       \* the demo rows, unique by hierarchy_path
Keys == EventIds \cup {Demo}

PlaneInit ==
  /\ rows \in {[k \in Keys |-> IF k = Demo THEN n ELSE 0] : n \in 0..1}
  /\ locker = Free /\ proc = [p \in Procs |-> "new"]
  /\ post \in [Posts -> [id : EventIds, valid : BOOLEAN, at : {"new"}, told : {"nothing"}, proc : {Free}]]

(* Mutant: the column is not declared unique. *)
Taken_Never(k) == FALSE

Taken(k) == rows[k] > 0

(* initialize: live mode leaves the file as it is, demo mode seeds it when *)
(* it reads no rows; a seed that meets another's rows fails the start.     *)
Initialize(p) ==
  /\ proc[p] = "new"
  /\ \/ proc' = [proc EXCEPT ![p] = "up"]
     \/ rows[Demo] = 0 /\ proc' = [proc EXCEPT ![p] = "checked"]
  /\ UNCHANGED <<rows, locker, post>>
Seed(p) ==
  /\ proc[p] = "checked" /\ locker = Free
  /\ IF Taken(Demo) THEN proc' = [proc EXCEPT ![p] = "dead"] /\ UNCHANGED locker
     ELSE proc' = [proc EXCEPT ![p] = "seeding"] /\ locker' = p
  /\ UNCHANGED <<rows, post>>
SeedCommit(p) ==
  /\ proc[p] = "seeding" /\ proc' = [proc EXCEPT ![p] = "up"]
  /\ rows' = [rows EXCEPT ![Demo] = @ + 1] /\ locker' = Free
  /\ UNCHANGED post

Moves(r, at, told) == post' = [post EXCEPT ![r].at = at, ![r].told = told]
Up(r) == post[r].proc # Free /\ proc[post[r].proc] = "up"

(* A request arrives at a process; one of another schema is refused (422). *)
Receive(r, p) ==
  /\ post[r].at = "new" /\ proc[p] = "up"
  /\ post' = [post EXCEPT ![r].proc = p,
                          ![r].at = IF post[r].valid THEN "open" ELSE "done",
                          ![r].told = IF post[r].valid THEN "nothing" ELSE "invalid"]
  /\ UNCHANGED <<rows, locker, proc>>

(* The INSERT: a row that is there already rolls the session back.         *)
AddActionEvent(r) ==
  /\ Up(r) /\ post[r].at = "open" /\ locker = Free
  /\ IF Taken(post[r].id) THEN Moves(r, "done", "duplicate") /\ UNCHANGED locker
     ELSE Moves(r, "added", "nothing") /\ locker' = r
  /\ UNCHANGED <<rows, proc>>
Commit(r) ==
  /\ Up(r) /\ post[r].at = "added"
  /\ rows' = [rows EXCEPT ![post[r].id] = @ + 1] /\ locker' = Free
  /\ Moves(r, "committed", "nothing") /\ UNCHANGED proc
Answer(r) ==
  /\ Up(r) /\ post[r].at = "committed" /\ Moves(r, "done", "recorded")
  /\ UNCHANGED <<rows, locker, proc>>

(* The lock stays taken for too long, or the commit fails: the session is  *)
(* closed without it and the caller gets an error.                         *)
Locked(r) ==
  /\ Up(r)
  /\ \/ post[r].at = "open" /\ locker # Free /\ UNCHANGED locker
     \/ post[r].at = "added" /\ locker' = Free
  /\ Moves(r, "done", "error") /\ UNCHANGED <<rows, proc>>

Dies(p) ==
  /\ proc[p] # "dead" /\ proc' = [proc EXCEPT ![p] = "dead"]
  /\ post' = [r \in Posts |-> IF post[r].proc = p /\ post[r].at # "done"
                              THEN [post[r] EXCEPT !.at = "done", !.told = "error"] ELSE post[r]]
  /\ locker' = IF locker = p \/ (\E r \in Posts : locker = r /\ post[r].proc = p) THEN Free ELSE locker
  /\ UNCHANGED <<rows>>

PlaneNext ==
  \/ \E p \in Procs : Initialize(p) \/ Seed(p) \/ SeedCommit(p) \/ Dies(p)
  \/ \E r \in Posts : \/ AddActionEvent(r) \/ Commit(r) \/ Answer(r) \/ Locked(r)
                      \/ \E p \in Procs : Receive(r, p)

PlaneSpec == PlaneInit /\ [][PlaneNext]_planeVars
-----------------------------------------------------------------------------
(* An event that is posted again, at the same time or after a crash, is    *)
(* stored once; at most one caller is told that it was recorded, and who   *)
(* is told so, or that it is a duplicate, can rely on the row.  Processes  *)
(* that both find the file empty still seed it once.                       *)
RecordedOnce ==
  /\ \A k \in Keys : rows[k] <= 1
  /\ \A r \in Posts : post[r].told \in {"recorded", "duplicate"} => rows[post[r].id] = 1
  /\ \A q, r \in Posts :
       post[q].told = "recorded" /\ post[r].told = "recorded" /\ post[q].id = post[r].id => q = r
=============================================================================
