------------------------------ MODULE ProbeBatch ------------------------------
(***************************************************************************)
(* src-tauri/src/probe_batch.rs: start_probe_batch queues the plugins of a *)
(* batch and spawns at most MAX_CONCURRENT_PROBES workers on it.  A worker *)
(* takes a plugin, probes it, updates the usage cache with a success,      *)
(* emits probe:result, and counts down; the one that counts to zero emits  *)
(* probe:batch-complete.  Batches run side by side and share the cache.    *)
(*                                                                         *)
(* A batch probes a plugin at most once, so an output is known by its batch *)
(* and plugin, and whether it succeeded.  The cache is here only the latest *)
(* output of each plugin; UsageCache models the rest of it.                *)
(***************************************************************************)
EXTENDS Naturals, SequencesExt

CONSTANTS
  Plugins,              \* the loaded plugins
  OtherIds,             \* ids no plugin has
  Batches,              \* batch ids, each used for one call
  MaxConcurrentProbes,  \* MAX_CONCURRENT_PROBES
  MaxRequest,           \* bound: ids in one request
  None                  \* nothing in hand, nothing cached

ASSUME ProbeConstants ==
  /\ MaxConcurrentProbes \in Nat \ {0}
  /\ Plugins \cap OtherIds = {}

Slots == 1 .. MaxConcurrentProbes
Workers == Batches \X Slots

(* A probe ends in an output without ("ok") or with ("error") an Error      *)
(* badge among its lines, or panics.                                        *)
Kinds == {"ok", "error"}
Output == [batch : Batches, plugin : Plugins, kind : Kinds]

VARIABLES
  started,    \* the batches start_probe_batch was called for
  selected,   \* selected_plugins of each batch
  queue,      \* probe_queue
  remaining,  \* remaining
  pc,         \* where each worker is; "done" also before it is spawned
  plugin,     \* the plugin a worker has in hand, or None
  output,     \* the output it has in hand, or None
  cached,     \* the output the usage cache holds of each plugin, or None
  events,     \* what was emitted to the webview, in order
  panicked    \* history variable: plugins of each batch whose probe panicked

threads == <<pc, plugin, output>>
vars == <<started, selected, queue, remaining, threads, cached, events, panicked>>

Result(out) == [type |-> "probe:result", batch |-> out.batch, output |-> out]
BatchComplete(b) == [type |-> "probe:batch-complete", batch |-> b]

Init ==
  /\ started = {}
  /\ selected = [b \in Batches |-> <<>>]
  /\ queue = [b \in Batches |-> <<>>]
  /\ remaining = [b \in Batches |-> 0]
  /\ pc = [w \in Workers |-> "done"]
  /\ plugin = [w \in Workers |-> None]
  /\ output = [w \in Workers |-> None]
  /\ cached = [p \in Plugins |-> None]
  /\ events = <<>>
  /\ panicked = [b \in Batches |-> {}]

-----------------------------------------------------------------------------
(* Mutant: a plugin is probed as often as it is mentioned. *)
SelectPlugins_Repeats(ids) == SelectSeq(ids, LAMBDA id : id \in Plugins)

(* The loaded plugins among the ids, each at its first mention. *)
SelectPlugins(ids) ==
  FoldLeft(LAMBDA sel, id :
             IF id \in Plugins /\ ~Contains(sel, id) THEN Append(sel, id) ELSE sel,
           <<>>, ids)

ProbeWorkerCount(n) == IF n < MaxConcurrentProbes THEN n ELSE MaxConcurrentProbes

(* Mutant: an empty selection starts no worker and says nothing. *)
StartProbeBatch_SilentWhenEmpty(b, ids) ==
  LET sel == SelectPlugins(ids) IN
  /\ b \notin started
  /\ started' = started \cup {b}
  /\ selected' = [selected EXCEPT ![b] = sel]
  /\ queue' = [queue EXCEPT ![b] = sel]
  /\ remaining' = [remaining EXCEPT ![b] = Len(sel)]
  /\ pc' = [w \in Workers |->
              IF w[1] = b /\ w[2] <= ProbeWorkerCount(Len(sel)) THEN "pop" ELSE pc[w]]
  /\ UNCHANGED <<plugin, output, cached, events, panicked>>

(* start_probe_batch, up to its response. *)
StartProbeBatch(b, ids) ==
  LET sel == SelectPlugins(ids) IN
  /\ b \notin started
  /\ started' = started \cup {b}
  /\ selected' = [selected EXCEPT ![b] = sel]
  /\ \/ /\ sel = <<>>
        /\ events' = Append(events, BatchComplete(b))
        /\ UNCHANGED <<queue, remaining, pc>>
     \/ /\ sel # <<>>
        /\ queue' = [queue EXCEPT ![b] = sel]
        /\ remaining' = [remaining EXCEPT ![b] = Len(sel)]
        /\ pc' = [w \in Workers |->
                    IF w[1] = b /\ w[2] <= ProbeWorkerCount(Len(sel))
                    THEN "pop" ELSE pc[w]]
        /\ UNCHANGED events
  /\ UNCHANGED <<plugin, output, cached, panicked>>

Requests == BoundedSeq(Plugins \cup OtherIds, MaxRequest)

-----------------------------------------------------------------------------
(* The loop of a worker w = <<batch, slot>>. *)

PopFront(w) ==
  LET b == w[1] IN
  /\ pc[w] = "pop"
  /\ \/ /\ queue[b] = <<>>
        /\ pc' = [pc EXCEPT ![w] = "done"]
        /\ UNCHANGED <<queue, plugin>>
     \/ /\ queue[b] # <<>>
        /\ plugin' = [plugin EXCEPT ![w] = Head(queue[b])]
        /\ queue' = [queue EXCEPT ![b] = Tail(@)]
        /\ pc' = [pc EXCEPT ![w] = "run"]
  /\ UNCHANGED <<started, selected, remaining, output, cached, events,
                 panicked>>

(* Mutant: every output is cached. *)
Cacheable_All(kind) == TRUE

(* Mutant: the test for an Error badge is inverted. *)
Cacheable_Inverted(kind) == kind # "ok"

(* No line is an Error badge. *)
Cacheable(kind) == kind = "ok"

(* run_probe returns. *)
RunProbe(w, kind) ==
  /\ pc[w] = "run"
  /\ output' = [output EXCEPT ![w] =
                  [batch |-> w[1], plugin |-> plugin[w], kind |-> kind]]
  /\ pc' = [pc EXCEPT ![w] = IF Cacheable(kind) THEN "cache" ELSE "emit"]
  /\ UNCHANGED <<started, selected, queue, remaining, plugin, cached, events, panicked>>

(* Mutant: a panic is not caught and takes the worker with it. *)
ProbePanics_Uncaught(w) ==
  /\ pc[w] = "run"
  /\ panicked' = [panicked EXCEPT ![w[1]] = @ \cup {plugin[w]}]
  /\ pc' = [pc EXCEPT ![w] = "done"]
  /\ UNCHANGED <<started, selected, queue, remaining, plugin, output, cached, events>>

(* run_probe panics: caught, logged, and no result is emitted. *)
ProbePanics(w) ==
  /\ pc[w] = "run"
  /\ panicked' = [panicked EXCEPT ![w[1]] = @ \cup {plugin[w]}]
  /\ pc' = [pc EXCEPT ![w] = "count"]
  /\ UNCHANGED <<started, selected, queue, remaining, plugin, output, cached, events>>

CacheSuccessfulOutput(w) ==
  /\ pc[w] = "cache"
  /\ cached' = [cached EXCEPT ![output[w].plugin] = output[w]]
  /\ pc' = [pc EXCEPT ![w] = "emit"]
  /\ UNCHANGED <<started, selected, queue, remaining, plugin, output, events,
                 panicked>>

EmitResult(w) ==
  /\ pc[w] = "emit"
  /\ events' = Append(events, Result(output[w]))
  /\ pc' = [pc EXCEPT ![w] = "count"]
  /\ UNCHANGED <<started, selected, queue, remaining, plugin, output, cached, panicked>>

(* Mutant: complete is taken from the empty queue, not from the counter. *)
LastOf_QueueEmpty(b) == queue[b] = <<>>

LastOf(b) == remaining[b] = 1

(* counter.fetch_sub(1) *)
CountDown(w) ==
  LET b == w[1] IN
  /\ pc[w] = "count"
  /\ remaining' = [remaining EXCEPT ![b] = @ - 1]
  /\ pc' = [pc EXCEPT ![w] = IF LastOf(b) THEN "complete" ELSE "pop"]
  /\ plugin' = [plugin EXCEPT ![w] = None]
  /\ output' = [output EXCEPT ![w] = None]
  /\ UNCHANGED <<started, selected, queue, cached, events, panicked>>

EmitComplete(w) ==
  /\ pc[w] = "complete"
  /\ events' = Append(events, BatchComplete(w[1]))
  /\ pc' = [pc EXCEPT ![w] = "pop"]
  /\ UNCHANGED <<started, selected, queue, remaining, plugin, output, cached, panicked>>

WorkerStep(w) ==
  \/ PopFront(w) \/ (\E kind \in Kinds : RunProbe(w, kind)) \/ ProbePanics(w)
  \/ CacheSuccessfulOutput(w) \/ EmitResult(w) \/ CountDown(w) \/ EmitComplete(w)

Next ==
  \/ \E b \in Batches, ids \in Requests : StartProbeBatch(b, ids)
  \/ \E w \in Workers : WorkerStep(w)

Spec == Init /\ [][Next]_vars

(* A blocking thread keeps running, and a probe ends: run_probe has a time  *)
(* limit (plugin_engine/runtime.rs).                                        *)
Fairness == \A w \in Workers : WF_vars(WorkerStep(w))

FairSpec == Spec /\ Fairness

-----------------------------------------------------------------------------
(* Properties                                                              *)

(* Types; a worker holds a plugin that is loaded, or none. *)
TypeOK ==
  /\ started \subseteq Batches
  /\ selected \in [Batches -> Seq(Plugins)]
  /\ queue \in [Batches -> Seq(Plugins)]
  /\ remaining \in [Batches -> Nat]
  /\ pc \in [Workers -> {"done", "pop", "run", "cache", "emit", "count", "complete"}]
  /\ plugin \in [Workers -> Plugins \cup {None}]
  /\ output \in [Workers -> Output \cup {None}]
  /\ cached \in [Plugins -> Output \cup {None}]
  /\ panicked \in [Batches -> SUBSET Plugins]

IsResult(e, b) == e.type = "probe:result" /\ e.batch = b
IsComplete(e, b) == e.type = "probe:batch-complete" /\ e.batch = b

(* The webview forgets a batch on its complete event, so whatever comes     *)
(* later is thrown away: complete is the last event of a batch, also when   *)
(* the worker that counts to zero is overtaken (probe_batch.rs:181-189).    *)
CompleteIsLast ==
  \A i, j \in DOMAIN events : \A b \in Batches :
    i < j /\ IsComplete(events[i], b) => events[j].batch # b

(* At complete every selected plugin has exactly one result, or panicked;   *)
(* duplicates in the request do not probe twice (probe_batch.rs:66-83).     *)
CompleteMeansSettled ==
  \A b \in Batches :
    (\E e \in ToSet(events) : IsComplete(e, b)) =>
      \A p \in ToSet(selected[b]) :
        Cardinality({ i \in DOMAIN events :
                        IsResult(events[i], b) /\ events[i].output.plugin = p })
          = IF p \in panicked[b] THEN 0 ELSE 1

(* The cache only ever holds a successful output of the very plugin: a      *)
(* failed probe leaves the last good one served (probe_batch.rs:153-167).   *)
CacheHoldsSuccess ==
  \A p \in Plugins :
    cached[p] # None => cached[p].kind = "ok" /\ cached[p].plugin = p

(* Whoever sees a successful result can already read it from the cache, as  *)
(* long as no other batch probed the same plugin.                           *)
ProbedOnlyBy(p, b) == \A c \in Batches \ {b} : ~Contains(selected[c], p)
ResultIsServed ==
  \A e \in ToSet(events) :
    e.type = "probe:result" /\ e.output.kind = "ok"
      /\ ProbedOnlyBy(e.output.plugin, e.batch)
        => cached[e.output.plugin] = e.output

(* A batch that was started is reported complete, whatever its probes do. *)
EveryBatchCompletes ==
  \A b \in Batches :
    b \in started ~> \E e \in ToSet(events) : IsComplete(e, b)

(* docs/local-http-api.md:3 says the API serves "the same usage data shown  *)
(* in the menu bar": once nothing runs, the last result without an Error    *)
(* badge that the webview got of a plugin is the output in the cache.  Two  *)
(* batches that probe one plugin at a time can cache in one order and emit  *)
(* in the other.                                                            *)
LastShown(p) ==
  LET shown == { i \in DOMAIN events : /\ events[i].type = "probe:result"
                                       /\ events[i].output.kind = "ok"
                                       /\ events[i].output.plugin = p }
  IN IF shown = {} THEN None
     ELSE events[CHOOSE i \in shown : \A j \in shown : j <= i].output
SameDataAsShown ==
  (\A w \in Workers : pc[w] = "done") => \A p \in Plugins : cached[p] = LastShown(p)

-----------------------------------------------------------------------------
(* Why they hold: the inductive invariant.                                 *)

Distinct(s) == \A i, j \in 1 .. Len(s) : s[i] = s[j] => i = j

Event == { Result(out) : out \in Output } \cup { BatchComplete(b) : b \in Batches }

Holding(w) == pc[w] \in {"run", "cache", "emit"}
Busy(b) == { w \in Workers : w[1] = b /\ (Holding(w) \/ pc[w] = "count") }

HasResult(b, p) ==
  \E i \in DOMAIN events : IsResult(events[i], b) /\ events[i].output.plugin = p
HasComplete(b) == \E i \in DOMAIN events : IsComplete(events[i], b)
Held(b, p) == \E w \in Workers : w[1] = b /\ Holding(w) /\ plugin[w] = p

(* Nothing happens in a batch before it is started. *)
NothingBefore ==
  \A b \in Batches \ started :
    /\ selected[b] = <<>> /\ queue[b] = <<>> /\ remaining[b] = 0 /\ panicked[b] = {}
    /\ \A w \in Workers : w[1] = b => pc[w] = "done"
    /\ \A i \in DOMAIN events : events[i].batch # b

(* A selected plugin waits in the queue, or is in the hands of a worker, or *)
(* its probe panicked, or it has a result: one of the four, and once.       *)
OnePlace ==
  /\ \A b \in Batches, p \in Plugins :
       /\ Contains(selected[b], p)
            <=> Contains(queue[b], p) \/ Held(b, p) \/ p \in panicked[b] \/ HasResult(b, p)
       /\ Contains(queue[b], p) => ~Held(b, p) /\ p \notin panicked[b] /\ ~HasResult(b, p)
       /\ Held(b, p) => p \notin panicked[b] /\ ~HasResult(b, p)
       /\ p \in panicked[b] => ~HasResult(b, p)
  /\ \A b \in Batches : Distinct(queue[b])
  /\ \A v, w \in Workers :
       v[1] = w[1] /\ Holding(v) /\ Holding(w) /\ plugin[v] = plugin[w] => v = w
  /\ \A i, j \in DOMAIN events, b \in Batches :
       IsResult(events[i], b) /\ IsResult(events[j], b)
         /\ events[i].output.plugin = events[j].output.plugin => i = j

(* What a worker holds is the output of its plugin in its batch. *)
InHand ==
  \A w \in Workers :
    /\ Holding(w) => plugin[w] \in Plugins
    /\ pc[w] \in {"cache", "emit"} =>
         /\ output[w] \in Output
         /\ output[w].batch = w[1]
         /\ output[w].plugin = plugin[w]
    /\ pc[w] = "cache" => output[w].kind = "ok"

(* The counter counts the plugins that wait and the workers that have not   *)
(* counted down yet.                                                        *)
CountsOpen ==
  \A b \in Batches : remaining[b] = Len(queue[b]) + Cardinality(Busy(b))

(* One worker reports the batch complete, and nothing is open then. *)
OneReport ==
  /\ \A w \in Workers :
       pc[w] = "complete" => remaining[w[1]] = 0 /\ ~HasComplete(w[1])
  /\ \A v, w \in Workers :
       v[1] = w[1] /\ pc[v] = "complete" /\ pc[w] = "complete" => v = w
  /\ \A b \in Batches : HasComplete(b) => remaining[b] = 0

(* What is about to be emitted is cached already. *)
EmittedIsCached ==
  \A w \in Workers :
    pc[w] = "emit" /\ output[w].kind = "ok" /\ ProbedOnlyBy(plugin[w], w[1])
      => cached[plugin[w]] = output[w]

(* All of it, what the webview is promised included: each worker's step     *)
(* moves one plugin from one place to the next, and the counter with it.    *)
IInv ==
  /\ TypeOK
  /\ events \in Seq(Event)
  /\ NothingBefore
  /\ OnePlace
  /\ InHand
  /\ CountsOpen
  /\ OneReport
  /\ CompleteIsLast
  /\ CacheHoldsSuccess
  /\ EmittedIsCached
  /\ ResultIsServed

-----------------------------------------------------------------------------
(* Queue, workers and countdown implement the service. *)
Answered(b) ==
  { events[i].output.plugin : i \in { j \in DOMAIN events : IsResult(events[j], b) } }
Service == INSTANCE ProbeService WITH
  asked <- [b \in Batches |-> ToSet(selected[b])],
  answered <- [b \in Batches |-> Answered(b)],
  lost <- panicked,
  complete <- { b \in Batches : \E i \in DOMAIN events : IsComplete(events[i], b) }
ImplementsService == Service!Spec
=============================================================================
