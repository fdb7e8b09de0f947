------------------------------ MODULE UsageCache ------------------------------
(***************************************************************************)
(* The usage cache of the desktop app: src-tauri/src/local_http_api/       *)
(* cache.rs.  Probe workers and HTTP requests update it in memory, under   *)
(* the mutex of cache_state(); a debounced worker thread and, when the app *)
(* exits, the event loop write it to two files, one flusher at a time      *)
(* under cache_write_lock().                                               *)
(*                                                                         *)
(* An update runs under the state mutex from start to end, so it is one    *)
(* action.  A flush takes and leaves that mutex twice (to copy, to mark)   *)
(* and touches the disk in between, so it is five actions.  Each file is   *)
(* written to a temporary name and renamed: it changes at once or not.     *)
(*                                                                         *)
(* Left out: the sleeping times (a sleeping flusher may wake at any        *)
(* moment), and what a snapshot or a point holds besides its plugin and    *)
(* the time it was captured.                                               *)
(***************************************************************************)
EXTENDS Naturals, Sequences, FiniteSets

CONSTANTS
  Plugins,        \* the plugin ids
  Workers,        \* identities for debounced_cache_flush_worker threads
  Exit,           \* the event loop thread, which runs flush_cache()
  MaxHistory,     \* MAX_HISTORY_POINTS
  MaxUpdates,     \* bound: updates over the whole life of the model
  MaxImport       \* bound: points in one import

ASSUME CacheConstants ==
  /\ Exit \notin Workers
  /\ MaxHistory \in Nat \ {0}
  /\ MaxUpdates \in Nat
  /\ MaxImport \in Nat

Flushers == Workers \cup {Exit}

(* Time is counted in updates: a stamp of n was taken when n - 1 updates    *)
(* had been made; 0 is any time before the first run, or no snapshot.       *)
Times == 0 .. MaxUpdates
Point == [plugin : Plugins, at : Times]
Version == [snapshots : [Plugins -> Times], history : Seq(Point)]
Job == [gen : Nat, snapshots : [Plugins -> Times], history : Seq(Point)]
NoJob == [gen |-> 0, snapshots |-> [p \in Plugins |-> 0], history |-> <<>>]

VARIABLES
  up,                  \* the process is running
  snapshots,           \* CacheState.snapshots
  history,             \* CacheState.history
  dirty_generation, flushed_generation, flush_scheduled,
  cache_write_lock,    \* the flushers holding cache_write_lock()
  pc,                  \* where each flusher is; "dead": no such thread
  job,                 \* what a flusher copied in pending_cache_write
  cacheFile, historyFile,  \* what is on disk
  clock,               \* updates so far, the source of time stamps
  versions, cacheGen, historyGen,   \* history variables, see below
  exitCalls,           \* flush_cache() calls: one per ExitRequested and Exit
  exitFlush            \* history variable: the last flush_cache() call

memory == <<snapshots, history, dirty_generation, flush_scheduled>>
disk == <<cacheFile, historyFile, cacheGen, historyGen>>
vars == <<up, memory, flushed_generation, cache_write_lock, pc, job, disk,
          clock, versions, exitCalls, exitFlush>>

(* History variables, read by no guard: versions[g + 1] is the content of  *)
(* memory at generation g, cacheGen and historyGen the generations of the  *)
(* two files, counted like dirty_generation from the start of the process. *)

-----------------------------------------------------------------------------
(* Loading, load_cache and load_history: what the program wrote it can      *)
(* read; the history keeps its last MaxHistory points, in their order.      *)

(* Mutant: trims only when the bound is exceeded by more than one. *)
LastPoints_OneTooMany(h) ==
  IF Len(h) > MaxHistory + 1 THEN SubSeq(h, Len(h) - MaxHistory, Len(h)) ELSE h

LastPoints(h) ==
  IF Len(h) > MaxHistory THEN SubSeq(h, Len(h) - MaxHistory + 1, Len(h)) ELSE h

LoadCache == cacheFile
LoadHistory == LastPoints(historyFile)

Init ==
  /\ up = TRUE
  /\ snapshots = [p \in Plugins |-> 0]
  /\ history = <<>>
  /\ dirty_generation = 0 /\ flushed_generation = 0 /\ flush_scheduled = FALSE
  /\ cache_write_lock = {}
  /\ pc = [t \in Flushers |-> "dead"]
  /\ job = [t \in Flushers |-> NoJob]
  /\ cacheFile = snapshots /\ historyFile = <<>>
  /\ clock = 0
  /\ versions = <<[snapshots |-> snapshots, history |-> history]>>
  /\ cacheGen = 0 /\ historyGen = 0
  /\ exitCalls = 0
  /\ exitFlush = [from |-> 0, result |-> "none"]

(* cache_state() before init(), and what a process leaves behind in memory. *)
Blank ==
  /\ snapshots' = [p \in Plugins |-> 0]
  /\ history' = <<>>
  /\ dirty_generation' = 0 /\ flushed_generation' = 0 /\ flush_scheduled' = FALSE
  /\ cache_write_lock' = {}
  /\ pc' = [t \in Flushers |-> "dead"]
  /\ job' = [t \in Flushers |-> NoJob]

(* The process ends, whether by a crash at any point of any thread or after *)
(* the exit events; only the files are left.                                *)
Stop ==
  /\ up
  /\ up' = FALSE
  /\ Blank
  /\ versions' = <<>> /\ cacheGen' = 0 /\ historyGen' = 0
  /\ exitCalls' = 0
  /\ exitFlush' = [from |-> 0, result |-> "none"]
  /\ UNCHANGED <<cacheFile, historyFile, clock>>

(* init(): a new process loads what the files hold. *)
Start ==
  /\ ~up
  /\ up' = TRUE
  /\ snapshots' = LoadCache
  /\ history' = LoadHistory
  /\ dirty_generation' = 0 /\ flushed_generation' = 0 /\ flush_scheduled' = FALSE
  /\ versions' = <<[snapshots |-> LoadCache, history |-> LoadHistory]>>
  /\ UNCHANGED <<cache_write_lock, pc, job, disk, clock, exitCalls, exitFlush>>

-----------------------------------------------------------------------------
(* Updates: one critical section of the state mutex each.                  *)

(* schedule_cache_flush_locked: at most one request outstanding. *)
ScheduleFlush ==
  \/ /\ flush_scheduled
     /\ UNCHANGED <<flush_scheduled, pc>>
  \/ /\ ~flush_scheduled
     /\ flush_scheduled' = TRUE
     /\ \E w \in Workers :
          /\ pc[w] = "dead"
          /\ pc' = [pc EXCEPT ![w] = "sleep"]

(* The tail every update shares: bump the generation, request a flush. *)
Updated ==
  /\ dirty_generation' = dirty_generation + 1
  /\ ScheduleFlush

Update(s, h) ==
  /\ up
  /\ clock < MaxUpdates
  /\ clock' = clock + 1
  /\ snapshots' = s
  /\ history' = h
  /\ versions' = Append(versions, [snapshots |-> s, history |-> h])
  /\ Updated
  /\ UNCHANGED <<up, flushed_generation, cache_write_lock, job, disk, exitCalls,
                 exitFlush>>

(* cache_successful_output: replace the plugin's snapshot, push a point.    *)
(* The time stamp is read before the mutex is taken, so other updates may   *)
(* come between: it is any time up to now.                                  *)
CacheSuccessfulOutput(p, at) ==
  Update([snapshots EXCEPT ![p] = at],
         LastPoints(Append(history, [plugin |-> p, at |-> at])))

(* import_metrics_export of a document that passes validation; a rejected  *)
(* one changes nothing.  Its points were captured at any earlier time.     *)
ImportMetricsExport(points) ==
  Update(snapshots, LastPoints(history \o points))

ClearMetricsHistory == Update(snapshots, <<>>)

Importable ==
  UNION { [1 .. n -> [plugin : Plugins, at : 0 .. clock]] : n \in 0 .. MaxImport }

-----------------------------------------------------------------------------
(* Flushing.  pc: "sleep" (a worker in thread::sleep, or any flusher        *)
(* blocked on the write lock), "locked", "save_cache", "save_history",      *)
(* "mark".                                                                  *)

(* flush_cache() on ExitRequested and again on Exit. *)
FlushCache ==
  /\ up
  /\ pc[Exit] = "dead"
  /\ exitCalls < 2
  /\ exitCalls' = exitCalls + 1
  /\ exitFlush' = [from |-> dirty_generation, result |-> "running"]
  /\ pc' = [pc EXCEPT ![Exit] = "sleep"]
  /\ UNCHANGED <<up, memory, flushed_generation, cache_write_lock, job, disk,
                 clock, versions>>

(* Mutant: no cache_write_lock. *)
LockFree_NoLock == TRUE

LockFree == cache_write_lock = {}

(* Take the write lock: the first line of flush_pending_cache_once. *)
LockWriter(t) ==
  /\ pc[t] = "sleep"
  /\ LockFree
  /\ cache_write_lock' = cache_write_lock \cup {t}
  /\ pc' = [pc EXCEPT ![t] = "locked"]
  /\ UNCHANGED <<up, memory, flushed_generation, job, disk, clock, versions,
                 exitCalls, exitFlush>>

(* Mutant: a worker gives up after a failed write. *)
Return_NoRetry(t, result) ==
  /\ cache_write_lock' = cache_write_lock \ {t}
  /\ job' = [job EXCEPT ![t] = NoJob]
  /\ pc' = [pc EXCEPT ![t] = IF t = Exit \/ result # "flushed" THEN "dead" ELSE "sleep"]
  /\ exitFlush' =
       IF t = Exit THEN [exitFlush EXCEPT !.result = result] ELSE exitFlush

(* Return from flush_pending_cache_once, which drops the write lock: a      *)
(* worker ends on Idle and sleeps again otherwise, flush_cache is done.     *)
Return(t, result) ==
  /\ cache_write_lock' = cache_write_lock \ {t}
  /\ job' = [job EXCEPT ![t] = NoJob]
  /\ pc' = [pc EXCEPT ![t] =
              IF t = Exit \/ result = "idle" THEN "dead" ELSE "sleep"]
  /\ exitFlush' =
       IF t = Exit THEN [exitFlush EXCEPT !.result = result] ELSE exitFlush

(* Mutant: an idle worker ends without giving back its request. *)
PendingIdle_KeepsRequest(t) ==
  /\ pc[t] = "locked"
  /\ dirty_generation = flushed_generation
  /\ Return(t, "idle")
  /\ UNCHANGED <<up, memory, flushed_generation, disk, clock, versions, exitCalls>>

(* Mutant: flush_cache leaves the work to a worker that is scheduled. *)
PendingIdle_TrustsWorker(t) ==
  /\ pc[t] = "locked"
  /\ \/ dirty_generation = flushed_generation
     \/ t = Exit /\ flush_scheduled
  /\ flush_scheduled' = (dirty_generation # flushed_generation)
  /\ Return(t, "idle")
  /\ UNCHANGED <<up, snapshots, history, dirty_generation, flushed_generation, disk,
                 clock, versions, exitCalls>>

(* pending_cache_write finds nothing to write. *)
PendingIdle(t) ==
  /\ pc[t] = "locked"
  /\ dirty_generation = flushed_generation
  /\ flush_scheduled' = FALSE
  /\ Return(t, "idle")
  /\ UNCHANGED <<up, snapshots, history, dirty_generation, flushed_generation, disk,
                 clock, versions, exitCalls>>

(* pending_cache_write copies the current content. *)
PendingCopy(t) ==
  /\ pc[t] = "locked"
  /\ dirty_generation # flushed_generation
  /\ job' = [job EXCEPT ![t] = [gen |-> dirty_generation, snapshots |-> snapshots,
                                history |-> history]]
  /\ pc' = [pc EXCEPT ![t] = "save_cache"]
  /\ UNCHANGED <<up, memory, flushed_generation, cache_write_lock, disk, clock,
                 versions, exitCalls, exitFlush>>

(* Mutant: writes what memory holds now under the generation of the copy. *)
SaveCache_LiveState(t) ==
  /\ pc[t] = "save_cache"
  /\ cacheFile' = snapshots
  /\ cacheGen' = job[t].gen
  /\ pc' = [pc EXCEPT ![t] = "save_history"]
  /\ UNCHANGED <<up, memory, flushed_generation, cache_write_lock, job, historyFile,
                 historyGen, clock, versions, exitCalls, exitFlush>>

(* save_cache, ending in the rename. *)
SaveCache(t) ==
  /\ pc[t] = "save_cache"
  /\ cacheFile' = job[t].snapshots
  /\ cacheGen' = job[t].gen
  /\ pc' = [pc EXCEPT ![t] = "save_history"]
  /\ UNCHANGED <<up, memory, flushed_generation, cache_write_lock, job, historyFile,
                 historyGen, clock, versions, exitCalls, exitFlush>>

(* save_history, ending in the rename. *)
SaveHistory(t) ==
  /\ pc[t] = "save_history"
  /\ historyFile' = job[t].history
  /\ historyGen' = job[t].gen
  /\ pc' = [pc EXCEPT ![t] = "mark"]
  /\ UNCHANGED <<up, memory, flushed_generation, cache_write_lock, job, cacheFile,
                 cacheGen, clock, versions, exitCalls, exitFlush>>

(* Mutant: marks the generation of now, not the one that was copied. *)
MarkCacheFlushed_Now(t) ==
  /\ pc[t] = "mark"
  /\ flushed_generation' = dirty_generation
  /\ Return(t, "flushed")
  /\ UNCHANGED <<up, memory, disk, clock, versions, exitCalls>>

(* mark_cache_flushed with the generation that was copied, then return. *)
MarkCacheFlushed(t) ==
  /\ pc[t] = "mark"
  /\ flushed_generation' = job[t].gen
  /\ Return(t, "flushed")
  /\ UNCHANGED <<up, memory, disk, clock, versions, exitCalls>>

(* Either save fails before its rename: nothing is marked, the worker will  *)
(* try again after a longer sleep, flush_cache gives up.                    *)
SaveFails(t) ==
  /\ pc[t] \in {"save_cache", "save_history"}
  /\ Return(t, "failed")
  /\ UNCHANGED <<up, memory, flushed_generation, disk, clock, versions, exitCalls>>

-----------------------------------------------------------------------------
Next ==
  \/ Stop \/ Start
  \/ \E p \in Plugins, at \in 1 .. clock + 1 : CacheSuccessfulOutput(p, at)
  \/ \E points \in Importable : ImportMetricsExport(points)
  \/ ClearMetricsHistory
  \/ FlushCache
  \/ \E t \in Flushers :
       \/ LockWriter(t) \/ PendingIdle(t) \/ PendingCopy(t)
       \/ SaveCache(t) \/ SaveHistory(t) \/ SaveFails(t) \/ MarkCacheFlushed(t)

Spec == Init /\ [][Next]_vars

(* Threads keep running: a sleep ends, a lock that is free is taken by one  *)
(* of its waiters, a thread between two blocking calls goes on.  That disk  *)
(* writes do not fail for ever is an assumption on the environment (SF).    *)
Fairness ==
  /\ WF_vars(\E t \in Flushers : LockWriter(t))
  /\ \A t \in Flushers :
       /\ WF_vars(PendingIdle(t) \/ PendingCopy(t) \/ MarkCacheFlushed(t))
       /\ SF_vars(SaveCache(t))
       /\ SF_vars(SaveHistory(t))

FairSpec == Spec /\ Fairness

-----------------------------------------------------------------------------
(* Properties                                                              *)

(* Types, with the retention bound: the history never exceeds              *)
(* MAX_HISTORY_POINTS, in memory, in a copy or on disk.                     *)
TypeOK ==
  /\ up \in BOOLEAN
  /\ snapshots \in [Plugins -> Times]
  /\ history \in Seq(Point) /\ Len(history) <= MaxHistory
  /\ dirty_generation \in Nat /\ flushed_generation \in Nat
  /\ flush_scheduled \in BOOLEAN
  /\ cache_write_lock \subseteq Flushers
  /\ pc \in [Flushers -> {"dead", "sleep", "locked", "save_cache", "save_history",
                          "mark"}]
  /\ job \in [Flushers -> Job]
  /\ \A t \in Flushers : Len(job[t].history) <= MaxHistory
  /\ cacheFile \in [Plugins -> Times]
  /\ historyFile \in Seq(Point) /\ Len(historyFile) <= MaxHistory
  /\ clock \in Times
  /\ versions \in Seq(Version)
  /\ cacheGen \in Nat /\ historyGen \in Nat
  /\ exitCalls \in 0 .. 2
  /\ exitFlush \in [from : Nat,
                    result : {"none", "running", "idle", "flushed", "failed"}]

(* No update is forgotten: while something is unflushed, a flush is         *)
(* scheduled and a worker thread exists that will look at it.  (The flag    *)
(* is reset by whichever flusher finds nothing to do, also by flush_cache   *)
(* while a worker sleeps; cache.rs:195-202, 258-261.)                       *)
Alive(w) == pc[w] # "dead"
NoLostFlush ==
  up /\ dirty_generation # flushed_generation =>
    flush_scheduled /\ \E w \in Workers : Alive(w)

(* A generation counts as flushed only when both files hold it or a later   *)
(* one, and each file holds exactly the content memory had then, whatever   *)
(* updates ran between the copy and the mark.                               *)
FlushedIsOnDisk ==
  up => /\ flushed_generation <= cacheGen /\ flushed_generation <= historyGen
        /\ cacheFile = versions[cacheGen + 1].snapshots
        /\ historyFile = versions[historyGen + 1].history

(* flush_cache keeps what the user had when the app began to exit: unless   *)
(* a write failed, everything up to that generation is on disk when it      *)
(* returns, also when a worker was in the middle of writing an older copy.  *)
ExitFlushKeepsAll ==
  up /\ exitFlush.result \in {"idle", "flushed"} =>
    /\ exitFlush.from <= cacheGen
    /\ exitFlush.from <= historyGen

(* A slow flusher never puts an older content over a newer one. *)
DiskMovesForward ==
  [][up /\ up' => cacheGen <= cacheGen' /\ historyGen <= historyGen']_vars

(* Every update reaches the disk, or the process ends first. *)
EventuallyFlushed ==
  up /\ dirty_generation # flushed_generation ~>
    ~up \/ dirty_generation = flushed_generation

-----------------------------------------------------------------------------
(* Why the properties hold: an inductive invariant.                        *)

Holding == {"locked", "save_cache", "save_history", "mark"}
Copied == {"save_cache", "save_history", "mark"}

(* The write lock is exclusive, and held exactly along a flush. *)
LockInv ==
  /\ \A t \in Flushers : t \in cache_write_lock <=> pc[t] \in Holding
  /\ \A t, u \in cache_write_lock : t = u
  /\ ~up => \A t \in Flushers : pc[t] = "dead"

(* Generations count versions, and the files lag behind in a fixed order:   *)
(* the history file behind the cache file, the mark behind both.            *)
VersionInv ==
  /\ ~up => cacheGen = 0 /\ historyGen = 0
  /\ up => /\ Len(versions) = dirty_generation + 1
           /\ versions[dirty_generation + 1].snapshots = snapshots
           /\ versions[dirty_generation + 1].history = history
           /\ flushed_generation <= historyGen
           /\ historyGen <= cacheGen
           /\ cacheGen <= dirty_generation
           /\ cacheFile = versions[cacheGen + 1].snapshots
           /\ historyFile = versions[historyGen + 1].history

(* What the holder of the lock copied is a version no older than the files. *)
JobInv ==
  \A t \in Flushers :
    pc[t] \in Copied =>
      /\ job[t].gen <= dirty_generation
      /\ job[t].snapshots = versions[job[t].gen + 1].snapshots
      /\ job[t].history = versions[job[t].gen + 1].history
      /\ cacheGen <= job[t].gen
      /\ pc[t] # "save_cache" => cacheGen = job[t].gen
      /\ pc[t] = "mark" => historyGen = job[t].gen

(* Something unflushed, or a flush past its copy, keeps the request up, and *)
(* a request has a worker. *)
ScheduleInv ==
  up => /\ dirty_generation # flushed_generation => flush_scheduled
        /\ \A t \in Flushers : pc[t] \in Copied => flush_scheduled
        /\ flush_scheduled => \E w \in Workers : Alive(w)

(* flush_cache runs behind the generation it was called at. *)
ExitInv ==
  /\ ~up => exitFlush.result = "none" /\ exitFlush.from = 0
  /\ up => /\ exitFlush.result = "running" <=> pc[Exit] # "dead"
           /\ exitFlush.from <= dirty_generation
           /\ pc[Exit] \in Copied => exitFlush.from <= job[Exit].gen
           /\ exitFlush.result \in {"idle", "flushed"} =>
                exitFlush.from <= historyGen

IInv == LockInv /\ VersionInv /\ JobInv /\ ScheduleInv /\ ExitInv

-----------------------------------------------------------------------------
(* The cache implements the write-behind store. *)
Store == INSTANCE WriteBehindStore
ImplementsStore == Store!Spec
=============================================================================
