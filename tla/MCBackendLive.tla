---------------------------- MODULE MCBackendLive ----------------------------
(***************************************************************************)
(* The liveness of the two parts that run on threads of the backend: the   *)
(* probe batches and the flushing of the usage cache.  A behaviour follows *)
(* one of them, while the other stays in its first state, where no thread  *)
(* has a step to take.                                                     *)
(***************************************************************************)
EXTENDS ProbeBatch

CONSTANTS CachedPlugins, FlushWorkers, Exit, MaxHistory, MaxUpdates, MaxImport
VARIABLES up, snapshots, history, dirty_generation, flushed_generation, flush_scheduled,
          cache_write_lock, flusherPc, job, cacheFile, historyFile, clock,
          versions, cacheGen, historyGen, exitCalls, exitFlush
cacheVars == <<up, snapshots, history, dirty_generation, flushed_generation, flush_scheduled,
               cache_write_lock, flusherPc, job, cacheFile, historyFile, clock,
               versions, cacheGen, historyGen, exitCalls, exitFlush>>

Cache == INSTANCE UsageCache WITH Plugins <- CachedPlugins, Workers <- FlushWorkers, pc <- flusherPc

VARIABLE part
BackendInit == part \in {"cache", "batches"} /\ Init /\ Cache!Init
BackendNext ==
  /\ UNCHANGED part
  /\ \/ part = "batches" /\ Next /\ UNCHANGED cacheVars
     \/ part = "cache" /\ Cache!Next /\ UNCHANGED vars
BackendSpec ==
  /\ BackendInit /\ [][BackendNext]_<<part, vars, cacheVars>>
  /\ Fairness /\ Cache!Fairness

(* cache.rs:204-237: whatever is updated is on disk in the end, unless the *)
(* process ends before.                                                    *)
EventuallyFlushed == Cache!EventuallyFlushed
=============================================================================
