-------------------------------- MODULE ProbeUi --------------------------------
(***************************************************************************)
(* The refresh logic of the webview (apps/tokenmaxxing/src/hooks): which   *)
(* plugins are loading or cooling down, which refreshes the user asked     *)
(* for, and how results of local batches and of a remote machine come in.  *)
(* Its backend is ProbeService, whose events reach it in the order they    *)
(* were emitted, some time later.                                          *)
(*                                                                         *)
(* JavaScript runs one handler at a time; a handler is an action, cut      *)
(* where it awaits.  A call of startBatch (use-probe.ts) goes through the  *)
(* phases "fetch" (awaiting the remote machine), "start" (awaiting         *)
(* listenersReady) and "invoke" (start_probe_batch sent, not yet run).     *)
(* It makes at most one local batch, so calls and batches share identities.*)
(***************************************************************************)
EXTENDS Naturals, SequencesExt

CONSTANTS
  Plugins,        \* the plugins in the settings, all of them loaded
  Batches,        \* bound: the calls of startBatch, and their batches
  RemoteChoices,  \* the sets of plugins the machine settings can make remote
  MaxInbox        \* bound: events on their way to the webview

ASSUME UiConstants == RemoteChoices \subseteq SUBSET Plugins

VARIABLES
  started, asked, answered, lost, complete,   \* the backend: ProbeService
  inbox,             \* events emitted and not yet handled
  listening,         \* useProbeEvents has registered its listeners
  booted,            \* pluginSettings are loaded
  disabled,          \* pluginSettings.disabled
  remoteIds,         \* machineSettings: what is fetched from the remote machine
  loading,           \* pluginStates: loading
  cooling,           \* lastManualRefreshAt less than REFRESH_COOLDOWN_MS ago
  manualRefreshIds,
  activeBatchIds,
  phase,             \* of each call
  call               \* what an unfinished call is for

backend == <<started, asked, answered, lost, complete>>
settings == <<booted, disabled, remoteIds>>
pluginStates == <<loading, cooling>>
vars == <<backend, inbox, listening, settings, pluginStates, manualRefreshIds,
          activeBatchIds, phase, call>>

Service == INSTANCE ProbeService

NoCall == [origin |-> "none", remote |-> {}, local |-> {}]
Enabled == Plugins \ disabled

Init ==
  /\ Service!Init
  /\ inbox = <<>>
  /\ listening = FALSE /\ booted = FALSE
  /\ disabled \in SUBSET Plugins /\ remoteIds \in RemoteChoices
  /\ loading = {} /\ cooling = {}
  /\ manualRefreshIds = {} /\ activeBatchIds = {}
  /\ phase = [c \in Batches |-> "unused"]
  /\ call = [c \in Batches |-> NoCall]

-----------------------------------------------------------------------------
(* pluginStates: use-probe-state.ts                                        *)

SetLoading(ids) == loading' = loading \cup ids /\ UNCHANGED cooling

SetError(ids) == loading' = loading \ ids /\ UNCHANGED cooling

(* Mutant: only a success ends the loading state. *)
HandleProbeResults_OnlyOk(ids, ok, missing) ==
  /\ loading' = loading \ (ok \cup missing)
  /\ cooling' = cooling \cup (ok \cap manualRefreshIds)
  /\ manualRefreshIds' = manualRefreshIds \ ids

(* handleProbeResult for each of ids, successes among them, then setError   *)
(* for the missing ones.                                                    *)
HandleProbeResults(ids, ok, missing) ==
  /\ loading' = loading \ (ids \cup missing)
  /\ cooling' = cooling \cup (ok \cap manualRefreshIds)
  /\ manualRefreshIds' = manualRefreshIds \ ids

(* REFRESH_COOLDOWN_MS pass. *)
CooldownEnds(p) ==
  /\ p \in cooling
  /\ cooling' = cooling \ {p}
  /\ UNCHANGED <<backend, inbox, listening, settings, loading,
                 manualRefreshIds, activeBatchIds, phase, call>>

-----------------------------------------------------------------------------
(* Starting a batch                                                        *)

SplitProbeIds(ids) == [remote |-> ids \cap remoteIds, local |-> ids \ remoteIds]

(* startBatch(ids) of use-probe.ts up to its first await, with the          *)
(* setLoading of its caller.  Left out: the log of user actions it keeps.   *)
StartBatch(c, origin, ids) ==
  LET split == SplitProbeIds(ids) IN
  /\ phase[c] = "unused"
  /\ call' = [call EXCEPT ![c] = [origin |-> origin, remote |-> split.remote,
                                  local |-> split.local]]
  /\ phase' = [phase EXCEPT ![c] = IF split.remote # {} THEN "fetch" ELSE "start"]
  /\ SetLoading(ids)

(* use-settings-bootstrap.ts: settings are loaded, every enabled plugin is  *)
(* probed.                                                                  *)
Bootstrap(c) ==
  /\ ~booted
  /\ booted' = TRUE
  /\ IF Enabled = {} THEN UNCHANGED <<phase, call, pluginStates>>
                     ELSE StartBatch(c, "bootstrap", Enabled)
  /\ UNCHANGED <<backend, inbox, listening, disabled, remoteIds, manualRefreshIds,
                 activeBatchIds>>

(* The interval of use-probe-auto-update.ts fires. *)
AutoUpdate(c) ==
  /\ booted
  /\ Enabled \ loading # {}
  /\ StartBatch(c, "auto", Enabled \ loading)
  /\ UNCHANGED <<backend, inbox, listening, settings, manualRefreshIds,
                 activeBatchIds>>

(* Mutant: the cooldown is not looked at. *)
Refreshable_NoCooldown == Enabled \ (loading \cup manualRefreshIds)

(* What handleRefreshAll and handleRetryPlugin accept; there is a card (and *)
(* a context menu) to retry from for enabled plugins only.                  *)
Refreshable == Enabled \ (loading \cup manualRefreshIds \cup cooling)

(* startManualRefresh, for RefreshAll (all that are eligible) or Retry. *)
ManualRefresh(c, ids) ==
  /\ booted
  /\ ids # {}
  /\ manualRefreshIds' = manualRefreshIds \cup ids
  /\ StartBatch(c, "manual", ids)
  /\ UNCHANGED <<backend, inbox, listening, settings, activeBatchIds>>

RefreshAll(c) == ManualRefresh(c, Refreshable)
Retry(c, p) == p \in Refreshable /\ ManualRefresh(c, {p})

(* handleToggle of use-settings-plugin-actions.ts: enabling probes at once, *)
(* also a plugin that is still loading.                                     *)
Enable(c, p) ==
  /\ booted
  /\ p \in disabled
  /\ disabled' = disabled \ {p}
  /\ StartBatch(c, "enable", {p})
  /\ UNCHANGED <<backend, inbox, listening, booted, remoteIds, manualRefreshIds,
                 activeBatchIds>>

(* The other branch of handleToggle, or the context menu: no batch is       *)
(* stopped for it.                                                          *)
Disable(p) ==
  /\ booted
  /\ p \in Enabled
  /\ disabled' = disabled \cup {p}
  /\ UNCHANGED <<backend, inbox, listening, booted, remoteIds, pluginStates,
                 manualRefreshIds, activeBatchIds, phase, call>>

SetMachineSettings(ids) ==
  /\ booted
  /\ ids # remoteIds
  /\ remoteIds' = ids
  /\ UNCHANGED <<backend, inbox, listening, booted, disabled, pluginStates,
                 manualRefreshIds, activeBatchIds, phase, call>>

-----------------------------------------------------------------------------
(* A call goes on                                                          *)

Done(c) ==
  /\ phase' = [phase EXCEPT ![c] = "done"]
  /\ call' = [call EXCEPT ![c] = NoCall]

AfterFetch(c) ==
  \/ call[c].local = {} /\ Done(c)
  \/ /\ call[c].local # {}
     /\ phase' = [phase EXCEPT ![c] = "start"]
     /\ UNCHANGED call

(* The remote machine answers for some of the ids. *)
FetchReturns(c, found, ok) ==
  /\ phase[c] = "fetch"
  /\ found \subseteq call[c].remote /\ ok \subseteq found
  /\ HandleProbeResults(found, ok, call[c].remote \ found)
  /\ AfterFetch(c)
  /\ UNCHANGED <<backend, inbox, listening, settings, activeBatchIds>>

(* "Remote machine unreachable" *)
FetchFails(c) ==
  /\ phase[c] = "fetch"
  /\ SetError(call[c].remote)
  /\ AfterFetch(c)
  /\ UNCHANGED <<backend, inbox, listening, settings, manualRefreshIds,
                 activeBatchIds>>

ListenersReady ==
  /\ ~listening
  /\ listening' = TRUE
  /\ UNCHANGED <<backend, inbox, settings, pluginStates, manualRefreshIds,
                 activeBatchIds, phase, call>>

(* Mutant: the batch is only made active by its response. *)
InvokeStart_NotYetActive(c) ==
  /\ phase[c] = "start" /\ listening
  /\ phase' = [phase EXCEPT ![c] = "invoke"]
  /\ UNCHANGED <<backend, inbox, listening, settings, pluginStates, manualRefreshIds,
                 activeBatchIds, call>>

(* startBatch of use-probe-events.ts, after listenersReady. *)
InvokeStart(c) ==
  /\ phase[c] = "start" /\ listening
  /\ phase' = [phase EXCEPT ![c] = "invoke"]
  /\ activeBatchIds' = activeBatchIds \cup {c}
  /\ UNCHANGED <<backend, inbox, listening, settings, pluginStates, manualRefreshIds,
                 call>>

(* start_probe_batch runs; nothing is done with its response. *)
BatchStarts(c) ==
  /\ phase[c] = "invoke"
  /\ Service!Ask(c, call[c].local)
  /\ Done(c)
  /\ UNCHANGED <<inbox, listening, settings, pluginStates, manualRefreshIds,
                 activeBatchIds>>

(* Mutant: the catch handler forgets the manual marks. *)
CaughtIds_None(c) == {}

(* The manual marks that the catch handler of the caller takes back. *)
CaughtIds(c) ==
  IF call[c].origin = "manual" THEN call[c].local \cup call[c].remote ELSE {}

(* Mutant: the caller does not catch. *)
InvokeFails_Uncaught(c) ==
  /\ phase[c] = "invoke"
  /\ activeBatchIds' = activeBatchIds \ {c}
  /\ Done(c)
  /\ UNCHANGED <<backend, inbox, listening, settings, pluginStates, manualRefreshIds>>

(* invoke rejects: all ids of the call fail, the remote ones too. *)
InvokeFails(c) ==
  /\ phase[c] = "invoke"
  /\ activeBatchIds' = activeBatchIds \ {c}
  /\ manualRefreshIds' = manualRefreshIds \ CaughtIds(c)
  /\ SetError(call[c].local \cup call[c].remote)
  /\ Done(c)
  /\ UNCHANGED <<backend, inbox, listening, settings>>

-----------------------------------------------------------------------------
(* Events                                                                  *)

(* A result is an "error" for the webview when an Error badge is its only   *)
(* line.                                                                    *)
Result(b, p, kind) == [type |-> "probe:result", batch |-> b, plugin |-> p, kind |-> kind]
BatchComplete(b) == [type |-> "probe:batch-complete", batch |-> b]

BackendStep ==
  /\ Len(inbox) < MaxInbox
  /\ \E b \in Batches :
       \/ \E p \in Plugins, kind \in {"ok", "error"} :
            Service!Answer(b, p) /\ inbox' = Append(inbox, Result(b, p, kind))
       \/ \E p \in Plugins : Service!Lose(b, p) /\ UNCHANGED inbox
       \/ Service!Complete(b) /\ inbox' = Append(inbox, BatchComplete(b))
  /\ UNCHANGED <<listening, settings, pluginStates, manualRefreshIds, activeBatchIds,
                 phase, call>>

(* The listeners of use-probe-events.ts: events of a batch that is not      *)
(* active are dropped.                                                      *)
HandleEvent ==
  LET e == Head(inbox) IN
  /\ inbox # <<>>
  /\ inbox' = Tail(inbox)
  /\ \/ /\ e.type = "probe:result" /\ e.batch \in activeBatchIds
        /\ HandleProbeResults({e.plugin}, IF e.kind = "ok" THEN {e.plugin} ELSE {}, {})
        /\ UNCHANGED activeBatchIds
     \/ /\ e.type = "probe:result" /\ e.batch \notin activeBatchIds
        /\ UNCHANGED <<pluginStates, manualRefreshIds, activeBatchIds>>
     \/ /\ e.type = "probe:batch-complete"
        /\ activeBatchIds' = activeBatchIds \ {e.batch}
        /\ UNCHANGED <<pluginStates, manualRefreshIds>>
  /\ UNCHANGED <<backend, listening, settings, phase, call>>

-----------------------------------------------------------------------------
CallStep(c) ==
  \/ \E found \in SUBSET call[c].remote : \E ok \in SUBSET found : FetchReturns(c, found, ok)
  \/ FetchFails(c) \/ InvokeStart(c) \/ BatchStarts(c) \/ InvokeFails(c)

Next ==
  \/ ListenersReady \/ BackendStep \/ HandleEvent
  \/ \E c \in Batches : CallStep(c) \/ Bootstrap(c) \/ AutoUpdate(c) \/ RefreshAll(c)
  \/ \E c \in Batches, p \in Plugins : Retry(c, p) \/ Enable(c, p)
  \/ \E p \in Plugins : Disable(p) \/ CooldownEnds(p)
  \/ \E ids \in RemoteChoices : SetMachineSettings(ids)

Spec == Init /\ [][Next]_vars

(* The event loop takes every event and every settled promise in the end,   *)
(* listeners register, batches go on (EveryBatchCompletes of ProbeBatch),   *)
(* and a fetch settles: that one is the browser's promise, the code sets no *)
(* time limit of its own.                                                   *)
FairSpec ==
  /\ Spec
  /\ WF_vars(ListenersReady) /\ WF_vars(BackendStep) /\ WF_vars(HandleEvent)
  /\ \A c \in Batches : WF_vars(CallStep(c))

-----------------------------------------------------------------------------
(* Properties                                                              *)

(* Types; a call looks for a plugin in one place only. *)
TypeOK ==
  /\ disabled \subseteq Plugins /\ remoteIds \in RemoteChoices
  /\ loading \subseteq Plugins /\ cooling \subseteq Plugins
  /\ manualRefreshIds \subseteq Plugins
  /\ activeBatchIds \subseteq Batches
  /\ phase \in [Batches -> {"unused", "fetch", "start", "invoke", "done"}]
  /\ call \in [Batches -> [origin : {"none", "bootstrap", "auto", "manual", "enable"},
                           remote : SUBSET Plugins, local : SUBSET Plugins]]
  /\ \A c \in Batches : call[c].remote \cap call[c].local = {}

(* Call c will still say something about p. *)
Pending(c, p) ==
  \/ phase[c] = "fetch" /\ p \in call[c].remote \cup call[c].local
  \/ phase[c] \in {"start", "invoke"} /\ p \in call[c].local
  \/ c \in activeBatchIds /\ p \in Service!Open(c)
  \/ c \in activeBatchIds /\ \E e \in ToSet(inbox) :
       e.type = "probe:result" /\ e.batch = c /\ e.plugin = p

Lost(p) == \E c \in Batches : p \in lost[c]

(* A card that is loading waits for something that is still to come, over   *)
(* any overlap of automatic, manual and remote refreshes; but for a probe   *)
(* that panicked, whose plugin gets no result (probe_batch.rs:176-178).     *)
LoadingHasCause ==
  \A p \in loading : (\E c \in Batches : Pending(c, p)) \/ Lost(p)

(* A manual mark blocks the retry button, so it does not outlive what it    *)
(* was set for.  Here: for plugins that are never remote.                   *)
ManualHasCause(p) ==
  p \in manualRefreshIds => (\E c \in Batches : Pending(c, p)) \/ Lost(p)
LocalManualHasCause == \A p \in Plugins \ UNION RemoteChoices : ManualHasCause(p)

(* use-probe-refresh-actions.test.ts:117: a manual refresh that could not   *)
(* be started "cleans up manual refresh ids".  A remote fetch that fails is *)
(* caught inside startBatch (use-probe.ts:127-135), so nobody does.         *)
ManualRefreshIdsCleanedUp == \A p \in Plugins : ManualHasCause(p)

(* A result that was emitted finds its batch active: not yet made active    *)
(* when the first results come, or forgotten too early, it would be lost.   *)
NoResultDropped ==
  \A e \in ToSet(inbox) : e.type = "probe:result" => e.batch \in activeBatchIds

(* No manual refresh runs in a cooldown (REFRESH_COOLDOWN_MS), however its  *)
(* result and those of automatic probes interleave.                         *)
NoRefreshInCooldown == cooling \cap manualRefreshIds = {}

(* Every refresh ends on the card. *)
EveryRefreshEnds ==
  \A p \in Plugins : p \in loading ~> p \notin loading \/ Lost(p)

-----------------------------------------------------------------------------
(* Why they hold: the inductive invariant.                                 *)

Event == { Result(b, p, kind) : b \in Batches, p \in Plugins, kind \in {"ok", "error"} }
         \cup { BatchComplete(b) : b \in Batches }

(* What the backend has promised: ProbeService keeps it. *)
BackendOK ==
  /\ started \subseteq Batches /\ complete \subseteq started
  /\ asked \in [Batches -> SUBSET Plugins] /\ answered \in [Batches -> SUBSET Plugins]
  /\ lost \in [Batches -> SUBSET Plugins]
  /\ \A b \in complete : Service!Open(b) = {}
  /\ \A b \in Batches \ started : asked[b] = {} /\ answered[b] = {} /\ lost[b] = {}

(* A batch is active from before it is started until its complete event is *)
(* handled, and none before its call is that far.                          *)
ActiveOK ==
  \A c \in Batches :
    /\ phase[c] \in {"unused", "fetch", "start", "invoke"} => c \notin started
    /\ phase[c] = "invoke" => c \in activeBatchIds
    /\ c \in activeBatchIds => phase[c] \in {"invoke", "done"}
    /\ c \in started \ complete => c \in activeBatchIds

(* Events on their way are of started batches, and complete comes last. *)
InboxOK ==
  /\ inbox \in Seq(Event)
  /\ \A i \in DOMAIN inbox :
       /\ inbox[i].batch \in started
       /\ inbox[i].type = "probe:batch-complete" => inbox[i].batch \in complete
  /\ \A i, j \in DOMAIN inbox :
       inbox[i].type = "probe:batch-complete" /\ inbox[j].batch = inbox[i].batch => j <= i

(* Only what the machine settings ever made remote is fetched. *)
FetchedIsRemote == \A c \in Batches : call[c].remote \subseteq UNION RemoteChoices

(* What a manual mark waits for: a call that will take the mark back, or a *)
(* batch that was started.                                                 *)
PendingManual(c, p) ==
  Pending(c, p) /\ (phase[c] \in {"fetch", "start", "invoke"} => call[c].origin = "manual")
ManualIsAnswered ==
  \A p \in Plugins \ UNION RemoteChoices :
    p \in manualRefreshIds => (\E c \in Batches : PendingManual(c, p)) \/ Lost(p)

(* All of it: each handler that takes one cause away from a card or a mark *)
(* takes the card's loading or the mark with it, or leaves another cause.  *)
IInv ==
  /\ TypeOK
  /\ BackendOK
  /\ ActiveOK
  /\ InboxOK
  /\ FetchedIsRemote
  /\ NoResultDropped
  /\ LoadingHasCause
  /\ ManualIsAnswered
  /\ NoRefreshInCooldown
=============================================================================
