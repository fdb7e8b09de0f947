--------------------------- MODULE UsageCacheProofs ---------------------------
(***************************************************************************)
(* Proofs about the usage cache, for any plugins, any number of worker     *)
(* identities, any history length and any number of updates.               *)
(***************************************************************************)
EXTENDS UsageCache, SequenceTheorems, TLAPS

(***************************************************************************)
(* Trimming to the retention bound keeps points and respects the bound;    *)
(* within the bound it changes nothing.  (cache.rs:334-337, 441-444)       *)
(***************************************************************************)
LEMMA LastPointsType ==
  ASSUME NEW S, NEW h \in Seq(S)
  PROVE  /\ LastPoints(h) \in Seq(S)
         /\ Len(LastPoints(h)) <= MaxHistory
         /\ Len(h) <= MaxHistory => LastPoints(h) = h
<1>1. Len(h) \in Nat /\ MaxHistory \in Nat \ {0}
  BY LenProperties, CacheConstants
<1>2. CASE Len(h) <= MaxHistory
  BY <1>1, <1>2 DEF LastPoints
<1>3. CASE Len(h) > MaxHistory
  <2> DEFINE m == Len(h) - MaxHistory + 1
  <2>1. m \in Int /\ m >= 1 /\ m <= Len(h) /\ Len(h) - m + 1 = MaxHistory
    BY <1>1, <1>3
  <2>2. \A i \in m .. Len(h) : h[i] \in S
    BY <1>1, <2>1, ElementOfSeq
  <2>3. /\ SubSeq(h, m, Len(h)) \in Seq(S)
        /\ Len(SubSeq(h, m, Len(h))) = MaxHistory
    <3> HIDE DEF m
    <3>1. Len(h) \in Int
      BY <1>1
    <3> QED BY <1>1, <2>1, <2>2, <3>1, SubSeqProperties
  <2> QED BY <1>1, <1>3, <2>3 DEF LastPoints
<1> QED BY <1>1, <1>2, <1>3

(***************************************************************************)
(* Every update is Update(s, h) for a well-typed content within the bound, *)
(* so what follows treats the three operations as one.                     *)
(***************************************************************************)
Content(s, h) ==
  /\ s \in [Plugins -> Times]
  /\ h \in Seq(Point)
  /\ Len(h) <= MaxHistory

LEMMA UpdatesAreTyped ==
  ASSUME TypeOK
  PROVE  /\ \A p \in Plugins, at \in 1 .. clock + 1 : CacheSuccessfulOutput(p, at) =>
              \E s, h : Content(s, h) /\ Update(s, h)
         /\ \A points \in Importable : ImportMetricsExport(points) =>
              \E s, h : Content(s, h) /\ Update(s, h)
         /\ ClearMetricsHistory => \E s, h : Content(s, h) /\ Update(s, h)
<1> USE CacheConstants
<1>1. /\ history \in Seq(Point) /\ snapshots \in [Plugins -> Times]
      /\ clock \in Nat /\ clock <= MaxUpdates
  BY DEF TypeOK, Times
<1>2. ASSUME NEW p \in Plugins, NEW at \in 1 .. clock + 1,
             CacheSuccessfulOutput(p, at)
      PROVE  \E s, h : Content(s, h) /\ Update(s, h)
  <2> DEFINE s == [snapshots EXCEPT ![p] = at]
             e == [plugin |-> p, at |-> at]
             h == LastPoints(Append(history, e))
  <2>1. at \in Times
    BY <1>1, <1>2 DEF CacheSuccessfulOutput, Update, Times
  <2>2. s \in [Plugins -> Times]
    BY <1>1, <2>1
  <2>3. e \in Point
    BY <2>1 DEF Point
  <2>4. Append(history, e) \in Seq(Point)
    BY <1>1, <2>3, AppendProperties
  <2>5. Content(s, h)
    BY <2>2, <2>4, LastPointsType DEF Content
  <2>6. Update(s, h)
    BY <1>2 DEF CacheSuccessfulOutput
  <2> QED BY <2>5, <2>6
<1>3. ASSUME NEW points \in Importable, ImportMetricsExport(points)
      PROVE  \E s, h : Content(s, h) /\ Update(s, h)
  <2>1. PICK n \in 0 .. MaxImport :
           points \in [1 .. n -> [plugin : Plugins, at : 0 .. clock]]
    BY DEF Importable
  <2>2. [plugin : Plugins, at : 0 .. clock] \subseteq Point
    BY <1>1 DEF Point, Times
  <2>3. points \in [1 .. n -> Point]
    BY <2>1, <2>2
  <2>4. points \in Seq(Point)
    BY <2>3, SeqDef
  <2>5. history \o points \in Seq(Point)
    BY <1>1, <2>4, ConcatProperties
  <2>6. Content(snapshots, LastPoints(history \o points))
    BY <1>1, <2>5, LastPointsType DEF Content
  <2> QED BY <1>3, <2>6 DEF ImportMetricsExport
<1>4. ASSUME ClearMetricsHistory
      PROVE  \E s, h : Content(s, h) /\ Update(s, h)
  <2>1. Content(snapshots, <<>>)
    BY <1>1, EmptySeq DEF Content
  <2> QED BY <1>4, <2>1 DEF ClearMetricsHistory
<1> QED BY <1>2, <1>3, <1>4

(***************************************************************************)
(* Type correctness, with the retention bound.                             *)
(***************************************************************************)
LEMMA TypeInit == Init => TypeOK
<1> SUFFICES ASSUME Init PROVE TypeOK
  OBVIOUS
<1> USE CacheConstants
<1>1. 0 \in Times
  BY DEF Times
<1>2. snapshots \in [Plugins -> Times]
  BY <1>1 DEF Init
<1>3. <<>> \in Seq(Point) /\ Len(<<>>) = 0
  BY EmptySeq
<1>4. NoJob \in Job /\ Len(NoJob.history) = 0
  BY <1>1, <1>3 DEF NoJob, Job
<1>5. versions \in Seq(Version)
  <2>1. [snapshots |-> snapshots, history |-> history] \in Version
    BY <1>2, <1>3 DEF Version, Init
  <2> QED BY <2>1 DEF Init
<1>6. /\ job \in [Flushers -> Job]
      /\ \A t \in Flushers : Len(job[t].history) <= MaxHistory
  BY <1>4 DEF Init
<1>7. exitFlush \in [from : Nat,
                     result : {"none", "running", "idle", "flushed", "failed"}]
  BY DEF Init
<1>8. pc \in [Flushers -> {"dead", "sleep", "locked", "save_cache",
                          "save_history", "mark"}]
  BY DEF Init
<1>9. /\ history \in Seq(Point) /\ Len(history) <= MaxHistory
      /\ historyFile \in Seq(Point) /\ Len(historyFile) <= MaxHistory
  BY <1>3 DEF Init
<1>10. up \in BOOLEAN /\ flush_scheduled \in BOOLEAN
  BY DEF Init
<1>11. /\ dirty_generation \in Nat /\ flushed_generation \in Nat
       /\ cacheGen \in Nat /\ historyGen \in Nat
       /\ clock \in Times /\ exitCalls \in 0 .. 2
       /\ cache_write_lock \subseteq Flushers
       /\ cacheFile \in [Plugins -> Times]
  BY <1>1, <1>2 DEF Init
<1> QED BY <1>2, <1>5, <1>6, <1>7, <1>8, <1>9, <1>10, <1>11 DEF TypeOK

LEMMA TypeStep == TypeOK /\ [Next]_vars => TypeOK'
<1> SUFFICES ASSUME TypeOK, [Next]_vars PROVE TypeOK'
  OBVIOUS
<1> USE CacheConstants
<1>0. /\ 0 \in Times
      /\ <<>> \in Seq(Point) /\ Len(<<>>) = 0
      /\ NoJob \in Job /\ Len(NoJob.history) = 0
  <2>1. 0 \in Times
    BY DEF Times
  <2>2. <<>> \in Seq(Point) /\ Len(<<>>) = 0
    BY EmptySeq
  <2> QED BY <2>1, <2>2 DEF NoJob, Job
<1>1. CASE Stop
  <2>1. versions' \in Seq(Version)
    BY <1>1, EmptySeq DEF Stop
  <2>2. /\ job' \in [Flushers -> Job]
        /\ \A t \in Flushers : Len(job'[t].history) <= MaxHistory
    BY <1>0, <1>1 DEF Stop, Blank
  <2>3. history' \in Seq(Point) /\ Len(history') <= MaxHistory
    BY <1>0, <1>1 DEF Stop, Blank
  <2>4. exitFlush' \in [from : Nat,
                        result : {"none", "running", "idle", "flushed", "failed"}]
    BY <1>1 DEF Stop
  <2>5. up' \in BOOLEAN /\ flush_scheduled' \in BOOLEAN
    BY <1>1 DEF Stop, Blank
  <2>6. /\ dirty_generation' \in Nat /\ flushed_generation' \in Nat
        /\ cacheGen' \in Nat /\ historyGen' \in Nat
        /\ snapshots' \in [Plugins -> Times]
        /\ exitCalls' \in 0 .. 2
        /\ cache_write_lock' \subseteq Flushers
    BY <1>0, <1>1 DEF Stop, Blank
  <2>7. pc' \in [Flushers -> {"dead", "sleep", "locked", "save_cache",
                             "save_history", "mark"}]
    BY <1>1 DEF Stop, Blank
  <2>8. UNCHANGED <<cacheFile, historyFile, clock>>
    BY <1>1 DEF Stop
  <2> QED BY <2>1, <2>2, <2>3, <2>4, <2>5, <2>6, <2>7, <2>8 DEF TypeOK
<1>2. CASE Start
  <2>1. [snapshots |-> cacheFile, history |-> LastPoints(historyFile)] \in Version
    BY LastPointsType DEF TypeOK, Version
  <2>2. versions' \in Seq(Version)
    BY <1>2, <2>1 DEF Start, LoadCache, LoadHistory
  <2>3. history' \in Seq(Point) /\ Len(history') <= MaxHistory
    BY <1>2, LastPointsType DEF TypeOK, Start, LoadCache, LoadHistory
  <2>4. up' \in BOOLEAN /\ flush_scheduled' \in BOOLEAN
    BY <1>2 DEF Start
  <2>5. /\ dirty_generation' \in Nat /\ flushed_generation' \in Nat
        /\ snapshots' \in [Plugins -> Times]
    BY <1>2 DEF TypeOK, Start, LoadCache, LoadHistory
  <2>6. UNCHANGED <<cache_write_lock, pc, job, cacheFile, historyFile, cacheGen,
                    historyGen, clock, exitCalls, exitFlush>>
    BY <1>2 DEF Start, disk
  <2> QED BY <2>2, <2>3, <2>4, <2>5, <2>6 DEF TypeOK
<1>3. ASSUME NEW s, NEW h, Content(s, h), Update(s, h)
      PROVE  TypeOK'
  <2>1. [snapshots |-> s, history |-> h] \in Version
    BY <1>3 DEF Content, Version
  <2>2. versions' \in Seq(Version)
    BY <1>3, <2>1, AppendProperties DEF Update, TypeOK
  <2>3. clock' \in Times
    BY <1>3 DEF Update, TypeOK, Times
  <2>4. /\ pc' \in [Flushers -> {"dead", "sleep", "locked", "save_cache",
                                  "save_history", "mark"}]
        /\ flush_scheduled' \in BOOLEAN
    BY <1>3 DEF Update, Updated, ScheduleFlush, TypeOK, Flushers
  <2>5. dirty_generation' \in Nat
    BY <1>3 DEF Update, Updated, TypeOK
  <2> QED BY <1>3, <2>2, <2>3, <2>4, <2>5 DEF Update, Content, TypeOK, disk
<1>4. CASE FlushCache
  BY <1>4 DEF TypeOK, FlushCache, memory, disk, Flushers
<1>5. ASSUME NEW t \in Flushers, LockWriter(t)
      PROVE  TypeOK'
  BY <1>5 DEF TypeOK, LockWriter, memory, disk
<1>6. ASSUME NEW t \in Flushers, NEW result \in {"idle", "flushed", "failed"},
             Return(t, result)
      PROVE  /\ cache_write_lock' \subseteq Flushers
             /\ pc' \in [Flushers -> {"dead", "sleep", "locked", "save_cache",
                                      "save_history", "mark"}]
             /\ job' \in [Flushers -> Job]
             /\ \A u \in Flushers : Len(job'[u].history) <= MaxHistory
             /\ exitFlush' \in
                  [from : Nat,
                   result : {"none", "running", "idle", "flushed", "failed"}]
  <2>1. /\ job' \in [Flushers -> Job]
        /\ \A u \in Flushers : Len(job'[u].history) <= MaxHistory
    BY <1>0, <1>6 DEF TypeOK, Return
  <2>2. exitFlush' \in [from : Nat,
                        result : {"none", "running", "idle", "flushed", "failed"}]
    BY <1>6 DEF TypeOK, Return
  <2> QED BY <1>6, <2>1, <2>2 DEF TypeOK, Return
<1>7. ASSUME NEW t \in Flushers, PendingIdle(t)
      PROVE  TypeOK'
  BY <1>6, <1>7 DEF TypeOK, PendingIdle, disk
<1>8. ASSUME NEW t \in Flushers, PendingCopy(t)
      PROVE  TypeOK'
  <2>1. [gen |-> dirty_generation, snapshots |-> snapshots, history |-> history]
          \in Job
    BY DEF TypeOK, Job
  <2>2. /\ job' \in [Flushers -> Job]
        /\ \A u \in Flushers : Len(job'[u].history) <= MaxHistory
    BY <1>8, <2>1 DEF TypeOK, PendingCopy
  <2> QED BY <1>8, <2>2 DEF TypeOK, PendingCopy, memory, disk
<1>9. ASSUME NEW t \in Flushers, SaveCache(t)
      PROVE  TypeOK'
  BY <1>9 DEF TypeOK, SaveCache, memory, Job
<1>10. ASSUME NEW t \in Flushers, SaveHistory(t)
       PROVE  TypeOK'
  BY <1>10 DEF TypeOK, SaveHistory, memory, Job
<1>11. ASSUME NEW t \in Flushers, MarkCacheFlushed(t)
       PROVE  TypeOK'
  <2>1. flushed_generation' \in Nat
    BY <1>11 DEF TypeOK, MarkCacheFlushed, Job
  <2> QED BY <1>6, <1>11, <2>1 DEF TypeOK, MarkCacheFlushed, memory, disk
<1>12. ASSUME NEW t \in Flushers, SaveFails(t)
       PROVE  TypeOK'
  BY <1>6, <1>12 DEF TypeOK, SaveFails, memory, disk
<1>13. CASE UNCHANGED vars
  BY <1>13 DEF TypeOK, vars, memory, disk
<1> QED
  BY <1>1, <1>2, <1>3, <1>4, <1>5, <1>7, <1>8, <1>9, <1>10, <1>11, <1>12, <1>13,
     UpdatesAreTyped DEF Next

(* The cache never holds or writes a malformed content, and never more than *)
(* MAX_HISTORY_POINTS points (cache.rs:334-337, 157-181, 441-444).          *)
THEOREM TypeCorrect == Spec => []TypeOK
<1> QED BY TypeInit, TypeStep, PTL DEF Spec

-----------------------------------------------------------------------------
(***************************************************************************)
(* The inductive invariant.  A step is a stop, a start, an update, a call  *)
(* of flush_cache, or one step of a flush.                                 *)
(***************************************************************************)
LEMMA StepCases ==
  ASSUME TypeOK, [Next]_vars
  PROVE  \/ Stop \/ Start \/ FlushCache \/ UNCHANGED vars
         \/ \E s, h : Content(s, h) /\ Update(s, h)
         \/ \E t \in Flushers :
              \/ LockWriter(t) \/ PendingIdle(t) \/ PendingCopy(t)
              \/ SaveCache(t) \/ SaveHistory(t) \/ SaveFails(t)
              \/ MarkCacheFlushed(t)
<1> QED BY UpdatesAreTyped DEF Next

LEMMA InvariantInit == Init => IInv
<1> SUFFICES ASSUME Init PROVE IInv
  OBVIOUS
<1>1. LockInv
  BY DEF Init, LockInv, Holding
<1>2. /\ Len(versions) = 1
      /\ versions[1].snapshots = snapshots
      /\ versions[1].history = history
  BY DEF Init
<1>3. VersionInv
  BY <1>2 DEF Init, VersionInv
<1>4. JobInv
  BY DEF Init, JobInv, Copied
<1>5. ScheduleInv
  BY DEF Init, ScheduleInv, Copied
<1>6. ExitInv
  BY DEF Init, ExitInv, Copied, Flushers
<1> QED BY <1>1, <1>3, <1>4, <1>5, <1>6 DEF IInv

LEMMA LockStep == TypeOK /\ LockInv /\ [Next]_vars => LockInv'
<1> SUFFICES ASSUME TypeOK, LockInv, [Next]_vars PROVE LockInv'
  OBVIOUS
<1> USE DEF LockInv, Holding
<1>1. CASE Stop
  BY <1>1 DEF Stop, Blank
<1>2. CASE Start
  BY <1>2 DEF Start
<1>3. CASE FlushCache
  BY <1>3 DEF FlushCache, TypeOK
<1>4. ASSUME NEW s, NEW h, Update(s, h)
      PROVE  LockInv'
  BY <1>4 DEF Update, Updated, ScheduleFlush, TypeOK, Flushers
<1>5. ASSUME NEW t \in Flushers, LockWriter(t)
      PROVE  LockInv'
  BY <1>5 DEF LockWriter, LockFree, TypeOK
<1>6. ASSUME NEW t \in Flushers, pc[t] \in Holding, UNCHANGED up,
             NEW result, Return(t, result)
      PROVE  LockInv'
  BY <1>6 DEF Return, TypeOK
<1>7. ASSUME NEW t \in Flushers,
             PendingIdle(t) \/ MarkCacheFlushed(t) \/ SaveFails(t)
      PROVE  LockInv'
  BY <1>6, <1>7 DEF PendingIdle, MarkCacheFlushed, SaveFails
<1>8. ASSUME NEW t \in Flushers,
             PendingCopy(t) \/ SaveCache(t) \/ SaveHistory(t)
      PROVE  LockInv'
  BY <1>8 DEF PendingCopy, SaveCache, SaveHistory, TypeOK
<1>9. CASE UNCHANGED vars
  BY <1>9 DEF vars
<1> QED BY <1>1, <1>2, <1>3, <1>4, <1>5, <1>7, <1>8, <1>9, StepCases

(* An update appends a version and leaves the earlier ones alone. *)
LEMMA UpdateAppends ==
  ASSUME TypeOK, VersionInv, NEW s, NEW h, Content(s, h), Update(s, h)
  PROVE  /\ Len(versions') = Len(versions) + 1
         /\ \A i \in 1 .. Len(versions) : versions'[i] = versions[i]
         /\ versions'[Len(versions) + 1] = [snapshots |-> s, history |-> h]
<1>1. [snapshots |-> s, history |-> h] \in Version
  BY DEF Content, Version
<1> QED BY <1>1, AppendProperties DEF TypeOK, Update

LEMMA VersionStep ==
  TypeOK /\ LockInv /\ VersionInv /\ JobInv /\ [Next]_vars => VersionInv'
<1> SUFFICES ASSUME TypeOK, LockInv, VersionInv, JobInv, [Next]_vars
             PROVE  VersionInv'
  OBVIOUS
<1>0. /\ dirty_generation \in Nat /\ flushed_generation \in Nat
      /\ cacheGen \in Nat /\ historyGen \in Nat
      /\ \A t \in Flushers : job[t].gen \in Nat
  BY DEF TypeOK, Job
<1>1. CASE Stop
  BY <1>1 DEF Stop, VersionInv
<1>2. CASE Start
  <2>1. /\ Len(versions') = 1
        /\ versions'[1].snapshots = cacheFile
        /\ versions'[1].history = LastPoints(historyFile)
    BY <1>2 DEF Start, LoadCache, LoadHistory
  <2>2. LastPoints(historyFile) = historyFile
    BY LastPointsType DEF TypeOK
  <2>3. cacheGen = 0 /\ historyGen = 0
    BY <1>2 DEF Start, VersionInv
  <2> QED BY <1>2, <2>1, <2>2, <2>3 DEF Start, VersionInv, LoadCache, LoadHistory, disk
<1>3. ASSUME NEW s, NEW h, Content(s, h), Update(s, h)
      PROVE  VersionInv'
  <2>1. up /\ Len(versions) = dirty_generation + 1
    BY <1>3 DEF Update, VersionInv
  <2>2. cacheGen + 1 \in 1 .. Len(versions) /\ historyGen + 1 \in 1 .. Len(versions)
    BY <1>0, <2>1 DEF VersionInv
  <2> QED BY <1>0, <1>3, <2>1, <2>2, UpdateAppends
          DEF Update, Updated, VersionInv, disk
<1>4. CASE FlushCache
  BY <1>4 DEF FlushCache, VersionInv, memory, disk
<1>5. ASSUME NEW t \in Flushers, LockWriter(t) \/ PendingCopy(t)
      PROVE  VersionInv'
  BY <1>5 DEF LockWriter, PendingCopy, VersionInv, memory, disk
<1>6. ASSUME NEW t \in Flushers, PendingIdle(t) \/ SaveFails(t)
      PROVE  VersionInv'
  BY <1>6 DEF PendingIdle, SaveFails, VersionInv, memory, disk
<1>7. \A t \in Flushers : pc[t] \in Copied =>
        /\ up
        /\ job[t].gen + 1 \in 1 .. Len(versions)
        /\ cacheGen <= job[t].gen /\ job[t].gen <= dirty_generation
  BY <1>0 DEF LockInv, VersionInv, JobInv, Copied, Holding
<1>8. ASSUME NEW t \in Flushers, SaveCache(t)
      PROVE  VersionInv'
  <2>1. pc[t] \in Copied
    BY <1>8 DEF SaveCache, Copied
  <2>2. cacheFile' = versions'[cacheGen' + 1].snapshots
    BY <1>8, <2>1 DEF SaveCache, JobInv
  <2>3. up' /\ UNCHANGED <<snapshots, history, dirty_generation,
                           flushed_generation, historyFile, historyGen, versions>>
    BY <1>7, <1>8, <2>1 DEF SaveCache, memory
  <2>4. historyGen' <= cacheGen' /\ cacheGen' <= dirty_generation'
    BY <1>0, <1>7, <1>8, <2>1, <2>3 DEF SaveCache, VersionInv
  <2> QED BY <1>7, <2>1, <2>2, <2>3, <2>4 DEF VersionInv
<1>9. ASSUME NEW t \in Flushers, SaveHistory(t)
      PROVE  VersionInv'
  <2>1. pc[t] \in Copied /\ pc[t] # "save_cache"
    BY <1>9 DEF SaveHistory, Copied
  <2>2. historyFile' = versions'[historyGen' + 1].history
    BY <1>9, <2>1 DEF SaveHistory, JobInv
  <2>3. up' /\ UNCHANGED <<snapshots, history, dirty_generation,
                           flushed_generation, cacheFile, cacheGen, versions>>
    BY <1>7, <1>9, <2>1 DEF SaveHistory, memory
  <2>4. historyGen' = cacheGen /\ historyGen <= historyGen'
    BY <1>7, <1>9, <2>1 DEF SaveHistory, JobInv, VersionInv
  <2> QED BY <1>0, <1>7, <2>1, <2>2, <2>3, <2>4 DEF VersionInv
<1>10. ASSUME NEW t \in Flushers, MarkCacheFlushed(t)
       PROVE  VersionInv'
  <2>1. pc[t] \in Copied /\ pc[t] = "mark"
    BY <1>10 DEF MarkCacheFlushed, Copied
  <2>2. up' /\ UNCHANGED <<snapshots, history, dirty_generation, cacheFile,
                           cacheGen, historyFile, historyGen, versions>>
    BY <1>7, <1>10, <2>1 DEF MarkCacheFlushed, memory, disk
  <2>3. flushed_generation' = historyGen
    BY <1>10, <2>1 DEF MarkCacheFlushed, JobInv
  <2> QED BY <1>0, <1>7, <2>1, <2>2, <2>3 DEF VersionInv
<1>11. CASE UNCHANGED vars
  BY <1>11 DEF vars, memory, disk, VersionInv
<1> QED BY <1>1, <1>2, <1>3, <1>4, <1>5, <1>6, <1>8, <1>9, <1>10, <1>11, StepCases

LEMMA JobStep ==
  TypeOK /\ LockInv /\ VersionInv /\ JobInv /\ [Next]_vars => JobInv'
<1> SUFFICES ASSUME TypeOK, LockInv, VersionInv, JobInv, [Next]_vars
             PROVE  JobInv'
  OBVIOUS
<1>0. /\ dirty_generation \in Nat /\ cacheGen \in Nat /\ historyGen \in Nat
      /\ \A t \in Flushers : job[t].gen \in Nat
  BY DEF TypeOK, Job
<1>1. \A t \in Flushers : pc[t] \in Copied => up
  BY DEF LockInv, Copied
<1>2. ASSUME NEW t \in Flushers, pc[t] \in Holding
      PROVE  \A u \in Flushers : u # t => pc[u] \notin Copied
  BY <1>2 DEF LockInv, Holding, Copied
<1>3. CASE Stop
  BY <1>3 DEF Stop, Blank, JobInv, Copied
<1>4. CASE Start
  BY <1>1, <1>4 DEF Start, JobInv
<1>5. CASE FlushCache
  BY <1>5 DEF FlushCache, JobInv, Copied, TypeOK, memory, disk, Flushers
<1>6. ASSUME NEW s, NEW h, Content(s, h), Update(s, h)
      PROVE  JobInv'
  <2>1. \A t \in Flushers : pc'[t] \in Copied => pc'[t] = pc[t]
    BY <1>6 DEF Update, Updated, ScheduleFlush, TypeOK, Copied, Flushers
  <2>2. \A t \in Flushers : pc[t] \in Copied =>
          versions'[job[t].gen + 1] = versions[job[t].gen + 1]
    <3>1. up /\ Len(versions) = dirty_generation + 1
      BY <1>6 DEF Update, VersionInv
    <3>2. \A t \in Flushers : pc[t] \in Copied =>
            job[t].gen + 1 \in 1 .. Len(versions)
      BY <1>0, <3>1 DEF JobInv
    <3> QED BY <1>6, <3>2, UpdateAppends
  <2>3. /\ dirty_generation' = dirty_generation + 1
        /\ UNCHANGED <<job, cacheGen, historyGen>>
    BY <1>6 DEF Update, Updated, disk
  <2> QED BY <1>0, <2>1, <2>2, <2>3 DEF JobInv
<1>7. ASSUME NEW t \in Flushers, LockWriter(t)
      PROVE  JobInv'
  BY <1>7 DEF LockWriter, JobInv, Copied, TypeOK, memory, disk
<1>8. ASSUME NEW t \in Flushers, pc[t] \in Holding,
             NEW result, Return(t, result)
      PROVE  JobInv'
  BY <1>2, <1>8 DEF Return, JobInv, Copied, TypeOK
<1>9. ASSUME NEW t \in Flushers,
             PendingIdle(t) \/ MarkCacheFlushed(t) \/ SaveFails(t)
      PROVE  JobInv'
  BY <1>8, <1>9 DEF PendingIdle, MarkCacheFlushed, SaveFails, Holding
<1>10. ASSUME NEW t \in Flushers, PendingCopy(t)
       PROVE  JobInv'
  <2>1. \A u \in Flushers : u # t => pc'[u] \notin Copied
    BY <1>2, <1>10 DEF PendingCopy, Holding, TypeOK
  <2>2. up
    BY <1>10 DEF PendingCopy, LockInv
  <2>3. /\ pc'[t] = "save_cache"
        /\ job'[t] = [gen |-> dirty_generation, snapshots |-> snapshots,
                      history |-> history]
        /\ UNCHANGED <<versions, dirty_generation, cacheGen, historyGen>>
    BY <1>10 DEF PendingCopy, TypeOK, memory, disk
  <2> QED BY <1>0, <2>1, <2>2, <2>3 DEF JobInv, VersionInv
<1>11. ASSUME NEW t \in Flushers, SaveCache(t) \/ SaveHistory(t)
       PROVE  JobInv'
  <2>1. pc[t] \in Copied /\ pc[t] \in Holding
    BY <1>11 DEF SaveCache, SaveHistory, Copied, Holding
  <2>2. \A u \in Flushers : u # t => pc'[u] \notin Copied
    BY <1>2, <1>11, <2>1 DEF SaveCache, SaveHistory, TypeOK
  <2>3. CASE SaveCache(t)
    BY <1>0, <2>1, <2>2, <2>3 DEF SaveCache, JobInv, TypeOK, memory
  <2>4. CASE SaveHistory(t)
    BY <1>0, <2>1, <2>2, <2>4 DEF SaveHistory, JobInv, TypeOK, memory
  <2> QED BY <1>11, <2>3, <2>4
<1>12. CASE UNCHANGED vars
  BY <1>12 DEF vars, memory, disk, JobInv
<1> QED BY <1>3, <1>4, <1>5, <1>6, <1>7, <1>9, <1>10, <1>11, <1>12, StepCases

LEMMA ScheduleStep ==
  TypeOK /\ LockInv /\ ScheduleInv /\ [Next]_vars => ScheduleInv'
<1> SUFFICES ASSUME TypeOK, LockInv, ScheduleInv, [Next]_vars
             PROVE  ScheduleInv'
  OBVIOUS
<1> USE DEF ScheduleInv, Alive
<1>0. /\ \A t \in Flushers : pc[t] \in Copied => up
      /\ \A t \in Flushers : pc[t] = "locked" => up
  BY DEF LockInv, Copied
<1>1. Workers \subseteq Flushers /\ Exit \in Flushers /\ Exit \notin Workers
  BY CacheConstants DEF Flushers
<1>2. ASSUME NEW t \in Flushers, pc[t] \in Holding
      PROVE  \A u \in Flushers : u # t => pc[u] \notin Copied
  BY <1>2 DEF LockInv, Holding, Copied
<1>3. CASE Stop
  BY <1>3 DEF Stop
<1>4. CASE Start
  BY <1>4 DEF Start, LockInv, Copied
<1>5. CASE FlushCache
  BY <1>1, <1>5 DEF FlushCache, TypeOK, Copied, memory
<1>6. ASSUME NEW s, NEW h, Update(s, h)
      PROVE  ScheduleInv'
  <2>1. flush_scheduled' /\ \E w \in Workers : pc'[w] # "dead"
    BY <1>1, <1>6 DEF Update, Updated, ScheduleFlush, TypeOK
  <2> QED BY <2>1
<1>7. ASSUME NEW t \in Flushers, LockWriter(t)
      PROVE  ScheduleInv'
  BY <1>1, <1>7 DEF LockWriter, TypeOK, Copied, memory
<1>8. ASSUME NEW t \in Flushers, PendingIdle(t)
      PROVE  ScheduleInv'
  <2>1. dirty_generation' = flushed_generation' /\ ~flush_scheduled'
    BY <1>8 DEF PendingIdle
  <2>2. \A u \in Flushers : pc'[u] \notin Copied
    BY <1>2, <1>8 DEF PendingIdle, Return, TypeOK, Holding, Copied
  <2> QED BY <2>1, <2>2
<1>9. ASSUME NEW t \in Flushers, pc[t] \in Copied, flush_scheduled',
             NEW result, result # "idle", Return(t, result)
      PROVE  ScheduleInv'
  <2>1. PICK w \in Workers : pc[w] # "dead"
    BY <1>0, <1>9
  <2>2. pc'[w] # "dead"
    BY <1>1, <1>9, <2>1 DEF Return, TypeOK
  <2> QED BY <1>9, <2>2
<1>10. ASSUME NEW t \in Flushers, MarkCacheFlushed(t) \/ SaveFails(t)
       PROVE  ScheduleInv'
  <2>1. pc[t] \in Copied
    BY <1>10 DEF MarkCacheFlushed, SaveFails, Copied
  <2>2. flush_scheduled'
    BY <1>0, <1>10, <2>1 DEF MarkCacheFlushed, SaveFails, memory
  <2> QED BY <1>9, <1>10, <2>1, <2>2 DEF MarkCacheFlushed, SaveFails
<1>11. ASSUME NEW t \in Flushers,
              PendingCopy(t) \/ SaveCache(t) \/ SaveHistory(t)
       PROVE  ScheduleInv'
  <2>1. flush_scheduled
    BY <1>0, <1>11 DEF PendingCopy, SaveCache, SaveHistory, Copied
  <2>2. \A u \in Flushers : pc[u] # "dead" => pc'[u] # "dead"
    BY <1>11 DEF PendingCopy, SaveCache, SaveHistory, TypeOK
  <2>3. flush_scheduled' /\ up' = up
    BY <1>11, <2>1 DEF PendingCopy, SaveCache, SaveHistory, memory
  <2> QED BY <1>1, <2>1, <2>2, <2>3
<1>12. CASE UNCHANGED vars
  BY <1>12 DEF vars, memory
<1> QED BY <1>3, <1>4, <1>5, <1>6, <1>7, <1>8, <1>10, <1>11, <1>12, StepCases

LEMMA ExitStep ==
  TypeOK /\ LockInv /\ VersionInv /\ JobInv /\ ExitInv /\ [Next]_vars => ExitInv'
<1> SUFFICES ASSUME TypeOK, LockInv, VersionInv, JobInv, ExitInv, [Next]_vars
             PROVE  ExitInv'
  OBVIOUS
<1> USE DEF ExitInv
<1>0. /\ dirty_generation \in Nat /\ flushed_generation \in Nat
      /\ cacheGen \in Nat /\ historyGen \in Nat /\ exitFlush.from \in Nat
      /\ \A t \in Flushers : job[t].gen \in Nat
  BY DEF TypeOK, Job
<1>1. Exit \in Flushers /\ Exit \notin Workers
  BY CacheConstants DEF Flushers
<1>2. \A t \in Flushers : pc[t] # "dead" => up
  BY DEF LockInv
<1>3. CASE Stop
  BY <1>3 DEF Stop
<1>4. CASE Start
  <2>1. pc'[Exit] = "dead"
    BY <1>1, <1>4 DEF Start, LockInv
  <2> QED BY <1>4, <2>1 DEF Start, Copied
<1>5. CASE FlushCache
  BY <1>0, <1>1, <1>5 DEF FlushCache, TypeOK, Copied, memory, disk
<1>6. ASSUME NEW s, NEW h, Update(s, h)
      PROVE  ExitInv'
  <2>1. pc'[Exit] = pc[Exit]
    BY <1>1, <1>6 DEF Update, Updated, ScheduleFlush, TypeOK
  <2> QED BY <1>0, <1>6, <2>1 DEF Update, Updated, disk
<1>7. ASSUME NEW t \in Flushers, LockWriter(t)
      PROVE  ExitInv'
  BY <1>7 DEF LockWriter, TypeOK, Copied, memory, disk
<1>8. ASSUME NEW t \in Flushers, PendingIdle(t)
      PROVE  ExitInv'
  <2>1. up /\ dirty_generation <= historyGen
    BY <1>2, <1>8 DEF PendingIdle, VersionInv
  <2>2. UNCHANGED <<up, dirty_generation, historyGen>>
    BY <1>8 DEF PendingIdle, disk
  <2>3. CASE t = Exit
    BY <1>0, <1>1, <1>8, <2>1, <2>2, <2>3
       DEF PendingIdle, Return, TypeOK, Copied
  <2>4. CASE t # Exit
    BY <1>0, <1>1, <1>8, <2>1, <2>2, <2>4
       DEF PendingIdle, Return, TypeOK, Copied
  <2> QED BY <2>3, <2>4
<1>9. ASSUME NEW t \in Flushers, PendingCopy(t)
      PROVE  ExitInv'
  BY <1>0, <1>1, <1>2, <1>9 DEF PendingCopy, TypeOK, Copied, memory, disk
<1>10. ASSUME NEW t \in Flushers, SaveCache(t)
       PROVE  ExitInv'
  BY <1>1, <1>2, <1>10 DEF SaveCache, TypeOK, Copied, memory
<1>11. ASSUME NEW t \in Flushers, SaveHistory(t)
       PROVE  ExitInv'
  <2>1. historyGen <= historyGen'
    BY <1>0, <1>2, <1>11 DEF SaveHistory, JobInv, VersionInv, Copied
  <2>2. historyGen' \in Nat
    BY <1>0, <1>11 DEF SaveHistory
  <2> QED BY <1>0, <1>1, <1>2, <1>11, <2>1, <2>2
          DEF SaveHistory, TypeOK, Copied, memory
<1>12. ASSUME NEW t \in Flushers, MarkCacheFlushed(t)
       PROVE  ExitInv'
  <2>1. up /\ historyGen = job[t].gen /\ pc[t] \in Copied
    BY <1>2, <1>12 DEF MarkCacheFlushed, JobInv, Copied
  <2>2. UNCHANGED <<up, dirty_generation, historyGen>>
    BY <1>12 DEF MarkCacheFlushed, memory, disk
  <2>3. CASE t = Exit
    BY <1>0, <1>12, <2>1, <2>2, <2>3
       DEF MarkCacheFlushed, Return, TypeOK, Copied
  <2>4. CASE t # Exit
    BY <1>0, <1>1, <1>12, <2>1, <2>2, <2>4
       DEF MarkCacheFlushed, Return, TypeOK, Copied
  <2> QED BY <2>3, <2>4
<1>13. ASSUME NEW t \in Flushers, SaveFails(t)
       PROVE  ExitInv'
  <2>1. up /\ UNCHANGED <<up, dirty_generation, historyGen>>
    BY <1>2, <1>13 DEF SaveFails, memory, disk
  <2>2. CASE t = Exit
    BY <1>0, <1>13, <2>1, <2>2 DEF SaveFails, Return, TypeOK, Copied
  <2>3. CASE t # Exit
    BY <1>0, <1>1, <1>13, <2>1, <2>3 DEF SaveFails, Return, TypeOK, Copied
  <2> QED BY <2>2, <2>3
<1>14. CASE UNCHANGED vars
  BY <1>14 DEF vars, memory, disk
<1> QED BY <1>3, <1>4, <1>5, <1>6, <1>7, <1>8, <1>9, <1>10, <1>11, <1>12, <1>13,
           <1>14, StepCases

(* The invariant that explains the cache: an exclusive writer whose copy is *)
(* between the files and memory, and a request that outlives every copy.    *)
THEOREM Invariant == Spec => [](TypeOK /\ IInv)
<1>1. TypeOK /\ IInv /\ [Next]_vars => (TypeOK /\ IInv)'
  BY TypeStep, LockStep, VersionStep, JobStep, ScheduleStep, ExitStep DEF IInv
<1> QED BY <1>1, TypeInit, InvariantInit, PTL DEF Spec
(* While something is unflushed there is a request and a live worker.       *)
(* (cache.rs:195-202, 258-261)                                              *)
THEOREM NothingIsForgotten == Spec => []NoLostFlush
<1>1. IInv => NoLostFlush
  BY DEF IInv, ScheduleInv, NoLostFlush
<1> QED BY <1>1, Invariant, PTL

(* What is marked as flushed is in both files, as memory had it.            *)
(* (cache.rs:251-294)                                                       *)
THEOREM MarkedIsWritten == Spec => []FlushedIsOnDisk
<1>1. TypeOK /\ IInv => FlushedIsOnDisk
  BY DEF TypeOK, IInv, VersionInv, FlushedIsOnDisk
<1> QED BY <1>1, Invariant, PTL

(* A flush_cache that does not fail leaves everything of the moment it was  *)
(* called on disk.  (cache.rs:458-462, lib.rs:193-198)                      *)
THEOREM ExitKeepsAll == Spec => []ExitFlushKeepsAll
<1>1. TypeOK /\ IInv => ExitFlushKeepsAll
  BY DEF TypeOK, IInv, VersionInv, ExitInv, ExitFlushKeepsAll
<1> QED BY <1>1, Invariant, PTL

(* No file ever goes back to an older content.  (cache.rs:139-155, 183-193) *)
THEOREM NeverBackwards == Spec => DiskMovesForward
<1>1. ASSUME TypeOK, IInv, [Next]_vars
      PROVE  up /\ up' => cacheGen <= cacheGen' /\ historyGen <= historyGen'
  <2> SUFFICES ASSUME up, up'
               PROVE  cacheGen <= cacheGen' /\ historyGen <= historyGen'
    OBVIOUS
  <2>1. cacheGen \in Nat /\ historyGen \in Nat
    BY <1>1 DEF TypeOK
  <2>2. ASSUME NEW t \in Flushers, SaveCache(t)
        PROVE  cacheGen <= cacheGen' /\ historyGen <= historyGen'
    BY <1>1, <2>1, <2>2 DEF SaveCache, IInv, JobInv, Copied
  <2>3. ASSUME NEW t \in Flushers, SaveHistory(t)
        PROVE  cacheGen <= cacheGen' /\ historyGen <= historyGen'
    BY <1>1, <2>1, <2>3 DEF SaveHistory, IInv, JobInv, VersionInv, Copied
  <2>4. \/ UNCHANGED <<cacheGen, historyGen>>
        \/ \E t \in Flushers : SaveCache(t) \/ SaveHistory(t)
    BY <1>1, StepCases
       DEF Stop, Start, FlushCache, vars, Update, LockWriter, PendingIdle,
           PendingCopy, SaveFails, MarkCacheFlushed, disk
  <2> QED BY <2>1, <2>2, <2>3, <2>4
<1>2. TypeOK /\ IInv /\ [Next]_vars =>
        [up /\ up' => cacheGen <= cacheGen' /\ historyGen <= historyGen']_vars
  BY <1>1
<1> QED BY <1>2, Invariant, PTL DEF Spec, DiskMovesForward
-----------------------------------------------------------------------------
(***************************************************************************)
(* The cache implements the write-behind store.  The mapping is the        *)
(* identity: versions and the two file generations are history variables.  *)
(***************************************************************************)
LEMMA StoreInit == Init => Store!Init
<1> QED BY DEF Init, Store!Init

LEMMA StoreStep ==
  ASSUME TypeOK, IInv, [Next]_vars
  PROVE  [Store!Next]_(Store!storeVars)
<1> USE DEF Store!Next, Store!storeVars
<1>0. /\ cacheGen \in Nat /\ historyGen \in Nat /\ dirty_generation \in Nat
      /\ \A t \in Flushers : job[t].gen \in Nat
      /\ up => Len(versions) = dirty_generation + 1
      /\ \A t \in Flushers : pc[t] \in Copied => up
  BY DEF TypeOK, IInv, VersionInv, LockInv, Copied, Job
<1>1. CASE Stop
  BY <1>1 DEF Stop, TypeOK, Store!Stop
<1>2. CASE Start
  <2>1. LastPoints(historyFile) = historyFile
    BY LastPointsType DEF TypeOK
  <2> QED BY <1>2, <2>1 DEF Start, LoadCache, LoadHistory, disk, TypeOK,
                               Store!Restart
<1>3. ASSUME NEW s, NEW h, Content(s, h), Update(s, h)
      PROVE  Store!Put
  <2>1. /\ Len(versions') = Len(versions) + 1
        /\ \A i \in 1 .. Len(versions) : versions'[i] = versions[i]
    BY <1>3, UpdateAppends DEF IInv
  <2>2. [snapshots |-> s, history |-> h] \in Version
    BY <1>3 DEF Content, Version
  <2>3. versions \in Seq(Version) /\ versions' \in Seq(Version)
    BY <1>3, <2>2, AppendProperties DEF TypeOK, Update
  <2>4. SubSeq(versions', 1, Len(versions)) = versions
    <3>1. Len(versions) \in Nat
      BY <2>3, LenProperties
    <3>2. \A i \in 1 .. Len(versions) : versions'[i] \in Version
      BY <2>1, <2>3, <3>1, ElementOfSeq
    <3> DEFINE v == SubSeq(versions', 1, Len(versions))
    <3>3. /\ v \in Seq(Version) /\ Len(v) = Len(versions)
          /\ \A i \in 1 .. Len(versions) : v[i] = versions'[i]
      <4>1. CASE Len(versions) = 0
        BY <1>0, <1>3, <4>1 DEF Update
      <4>2. CASE Len(versions) # 0
        BY <3>1, <3>2, <4>2, SubSeqProperties
      <4> QED BY <4>1, <4>2
    <3> HIDE DEF v
    <3>4. v = versions
      BY <2>1, <2>3, <3>3, SeqEqual
    <3> QED BY <3>4 DEF v
  <2> QED BY <1>3, <2>1, <2>4 DEF Update, disk, Store!Put
<1>4. ASSUME NEW t \in Flushers, SaveCache(t)
      PROVE  Store!PersistCache
  <2>1. pc[t] \in Copied /\ up
    BY <1>0, <1>4 DEF SaveCache, Copied
  <2>2. /\ cacheGen <= job[t].gen /\ job[t].gen <= dirty_generation
        /\ job[t].snapshots = versions[job[t].gen + 1].snapshots
    BY <2>1 DEF IInv, JobInv
  <2>3. cacheGen' \in cacheGen .. Store!Current
    BY <1>0, <1>4, <2>1, <2>2 DEF SaveCache, Store!Current
  <2> QED BY <1>4, <2>1, <2>2, <2>3 DEF SaveCache, memory, Store!PersistCache
<1>5. ASSUME NEW t \in Flushers, SaveHistory(t)
      PROVE  Store!PersistHistory
  <2>1. pc[t] \in Copied /\ pc[t] # "save_cache" /\ up
    BY <1>0, <1>5 DEF SaveHistory, Copied
  <2>2. /\ cacheGen = job[t].gen /\ job[t].gen <= dirty_generation
        /\ historyGen <= cacheGen
        /\ job[t].history = versions[job[t].gen + 1].history
    BY <2>1 DEF IInv, JobInv, VersionInv
  <2>3. historyGen' \in historyGen .. Store!Current
    BY <1>0, <1>5, <2>1, <2>2 DEF SaveHistory, Store!Current
  <2> QED BY <1>5, <2>1, <2>2, <2>3 DEF SaveHistory, memory, Store!PersistHistory
<1>6. CASE FlushCache
  BY <1>6 DEF FlushCache, disk
<1>7. ASSUME NEW t \in Flushers,
             LockWriter(t) \/ PendingIdle(t) \/ PendingCopy(t) \/ SaveFails(t)
               \/ MarkCacheFlushed(t)
      PROVE  UNCHANGED Store!storeVars
  BY <1>7 DEF LockWriter, PendingIdle, PendingCopy, SaveFails, MarkCacheFlushed,
              disk
<1>8. CASE UNCHANGED vars
  BY <1>8 DEF vars, disk
<1> QED BY <1>1, <1>2, <1>3, <1>4, <1>5, <1>6, <1>7, <1>8, StepCases

(* Threads, locks, debouncing and retries add nothing a reader of memory or *)
(* of the two files could see beyond the store.  (cache.rs:72-462)          *)
THEOREM Implementation == Spec => ImplementsStore
<1>1. TypeOK /\ IInv /\ [Next]_vars => [Store!Next]_(Store!storeVars)
  BY StoreStep
<1> QED BY <1>1, StoreInit, Invariant, PTL DEF Spec, ImplementsStore, Store!Spec
=============================================================================
