---------------------------- MODULE UsageRetention ----------------------------
(***************************************************************************)
(* DELETE /v1/metrics/history as its caller sees it: the usage cache, with *)
(* the points an answered DELETE has promised to be gone.  The handler     *)
(* (server.rs:262-265) answers 204 as soon as clear_metrics_history        *)
(* returns, which is before any flush.                                     *)
(***************************************************************************)
EXTENDS UsageCache, SequencesExt

VARIABLE deleted   \* history variable: points an answered DELETE removed

retentionVars == <<vars, deleted>>

RetentionInit == Init /\ deleted = {}

(* route DELETE: clear, then 204. *)
DeleteMetricsHistory ==
  /\ ClearMetricsHistory
  /\ deleted' = deleted \cup ToSet(history)

(* Points that are recorded, or brought in by an import, after that are    *)
(* wanted again.                                                           *)
RecordOutput(p, at) ==
  /\ CacheSuccessfulOutput(p, at)
  /\ deleted' = deleted \ {[plugin |-> p, at |-> at]}

PostMetricsImport(points) ==
  /\ ImportMetricsExport(points)
  /\ deleted' = deleted \ ToSet(points)

RetentionNext ==
  \/ DeleteMetricsHistory
  \/ \E points \in Importable : PostMetricsImport(points)
  \/ \E p \in Plugins, at \in 1 .. clock + 1 : RecordOutput(p, at)
  \/ /\ UNCHANGED deleted
     /\ \/ Stop \/ Start \/ FlushCache
        \/ \E t \in Flushers :
             \/ LockWriter(t) \/ PendingIdle(t) \/ PendingCopy(t)
             \/ SaveCache(t) \/ SaveHistory(t) \/ SaveFails(t) \/ MarkCacheFlushed(t)

RetentionSpec == RetentionInit /\ [][RetentionNext]_retentionVars

(* docs/local-http-api.md:48 says DELETE "Deletes all locally retained      *)
(* structured-metric history and returns `204 No Content`": no point it     *)
(* removed is ever served again.  The code clears memory, answers, and      *)
(* leaves the file to the debounced flush; a process that ends in between   *)
(* loads the old file.                                                      *)
DeletedStaysDeleted == ToSet(history) \cap deleted = {}
=============================================================================
