----------------------------- MODULE ProbeUiProofs -----------------------------
(***************************************************************************)
(* Proofs about the refresh logic of the webview, for any plugins, any     *)
(* calls and batches, any machine settings and any length of the inbox.    *)
(***************************************************************************)
EXTENDS ProbeUi, SequenceTheorems, TLAPS

Origins == {"none", "bootstrap", "auto", "manual", "enable"}
Phases == {"unused", "fetch", "start", "invoke", "done"}
Calls == [origin : Origins, remote : SUBSET Plugins, local : SUBSET Plugins]

LEMMA TypeFacts ==
  TypeOK <=>
    /\ disabled \subseteq Plugins /\ remoteIds \in RemoteChoices
    /\ loading \subseteq Plugins /\ cooling \subseteq Plugins
    /\ manualRefreshIds \subseteq Plugins
    /\ activeBatchIds \subseteq Batches
    /\ phase \in [Batches -> Phases] /\ call \in [Batches -> Calls]
    /\ \A c \in Batches : call[c].remote \cap call[c].local = {}
BY DEF TypeOK, Origins, Phases, Calls

LEMMA EventFacts ==
  /\ \A b \in Batches, p \in Plugins, kind \in {"ok", "error"} :
       /\ Result(b, p, kind) \in Event /\ Result(b, p, kind).type = "probe:result"
       /\ Result(b, p, kind).batch = b /\ Result(b, p, kind).plugin = p
  /\ \A b \in Batches : /\ BatchComplete(b) \in Event /\ BatchComplete(b).batch = b
                        /\ BatchComplete(b).type = "probe:batch-complete"
  /\ \A e \in Event : /\ e.batch \in Batches
                      /\ e.type \in {"probe:result", "probe:batch-complete"}
                      /\ e.type = "probe:result" => e.plugin \in Plugins
<1>1. /\ \A b, p, kind : /\ Result(b, p, kind).type = "probe:result"
                         /\ Result(b, p, kind).batch = b /\ Result(b, p, kind).plugin = p
      /\ \A b : /\ BatchComplete(b).type = "probe:batch-complete" /\ BatchComplete(b).batch = b
  BY DEF Result, BatchComplete
<1>2. /\ \A b \in Batches, p \in Plugins, kind \in {"ok", "error"} : Result(b, p, kind) \in Event
      /\ \A b \in Batches : BatchComplete(b) \in Event
      /\ \A e \in Event :
           \/ \E b \in Batches, p \in Plugins, kind \in {"ok", "error"} : e = Result(b, p, kind)
           \/ \E b \in Batches : e = BatchComplete(b)
  BY DEF Event
<1> QED BY <1>1, <1>2

(***************************************************************************)
(* A result of p in batch c is on its way.                                 *)
(***************************************************************************)
Coming(c, p) ==
  \E i \in DOMAIN inbox :
    inbox[i].type = "probe:result" /\ inbox[i].batch = c /\ inbox[i].plugin = p

LEMMA PendingMeans ==
  \A c, p : Pending(c, p) <=>
    \/ phase[c] = "fetch" /\ p \in call[c].remote \cup call[c].local
    \/ phase[c] \in {"start", "invoke"} /\ p \in call[c].local
    \/ c \in activeBatchIds /\ (p \in Service!Open(c) \/ Coming(c, p))
BY DEF Pending, Coming, ToSet

LEMMA PendingMeansNext ==
  \A c, p : Pending(c, p)' <=>
    \/ phase'[c] = "fetch" /\ p \in call'[c].remote \cup call'[c].local
    \/ phase'[c] \in {"start", "invoke"} /\ p \in call'[c].local
    \/ c \in activeBatchIds' /\ (p \in Service!Open(c)' \/ Coming(c, p)')
BY DEF Pending, Coming, ToSet

(***************************************************************************)
(* What a call waits for is not touched by what happens elsewhere.         *)
(***************************************************************************)
LEMMA BackendFrame ==
  ASSUME UNCHANGED <<backend, inbox>>
  PROVE  /\ \A c, p : Coming(c, p)' <=> Coming(c, p)
         /\ \A c : Service!Open(c)' = Service!Open(c)
         /\ \A p : Lost(p)' <=> Lost(p)
         /\ BackendOK => BackendOK'
         /\ InboxOK => InboxOK'
BY DEF backend, Coming, Service!Open, Service!Settled, Lost, BackendOK, InboxOK

LEMMA InitEstablishes ==
  Init => IInv
<1> SUFFICES ASSUME Init PROVE IInv
  OBVIOUS
<1> USE DEF Init, Service!Init
<1>1. TypeOK
  BY DEF TypeOK, NoCall
<1>2. BackendOK
  BY DEF BackendOK, Service!Open, Service!Settled
<1>3. InboxOK /\ NoResultDropped
  BY EmptySeq DEF InboxOK, NoResultDropped, ToSet
<1>4. ActiveOK /\ FetchedIsRemote
  BY DEF ActiveOK, FetchedIsRemote, NoCall
<1>5. LoadingHasCause /\ ManualIsAnswered /\ NoRefreshInCooldown
  BY DEF LoadingHasCause, ManualIsAnswered, NoRefreshInCooldown
<1> QED BY <1>1, <1>2, <1>3, <1>4, <1>5 DEF IInv

(***************************************************************************)
(* Settings, listeners and cooldowns: no call and no batch is touched.     *)
(***************************************************************************)
LEMMA StaticKeeps ==
  ASSUME IInv,
         UNCHANGED <<backend, inbox, loading, manualRefreshIds, activeBatchIds, phase, call>>,
         disabled' \subseteq Plugins, remoteIds' \in RemoteChoices, cooling' \subseteq cooling
  PROVE  IInv'
<1>1. /\ TypeOK /\ BackendOK /\ ActiveOK /\ InboxOK /\ FetchedIsRemote /\ NoResultDropped
      /\ LoadingHasCause /\ ManualIsAnswered /\ NoRefreshInCooldown
  BY DEF IInv
<1>2. /\ \A c, p : Coming(c, p)' <=> Coming(c, p)
      /\ \A c : Service!Open(c)' = Service!Open(c)
      /\ \A p : Lost(p)' <=> Lost(p)
      /\ BackendOK' /\ InboxOK'
  BY <1>1, BackendFrame
<1>3. \A c, p : Pending(c, p)' <=> Pending(c, p)
  BY <1>2, PendingMeans, PendingMeansNext
<1>4. TypeOK'
  BY <1>1 DEF TypeOK
<1>5. ActiveOK' /\ FetchedIsRemote' /\ NoResultDropped'
  BY <1>1 DEF ActiveOK, FetchedIsRemote, NoResultDropped, backend
<1>6. LoadingHasCause' /\ NoRefreshInCooldown'
  BY <1>1, <1>2, <1>3 DEF LoadingHasCause, NoRefreshInCooldown
<1>7. ManualIsAnswered'
  BY <1>1, <1>2, <1>3 DEF ManualIsAnswered, PendingManual
<1> QED BY <1>2, <1>4, <1>5, <1>6, <1>7 DEF IInv

(***************************************************************************)
(* A call of startBatch: the plugins that become loading wait for it.      *)
(***************************************************************************)
LEMMA StartKeeps ==
  ASSUME IInv, NEW c \in Batches, NEW origin \in Origins, NEW ids \in SUBSET Plugins,
         StartBatch(c, origin, ids), UNCHANGED <<backend, inbox, activeBatchIds, remoteIds>>,
         disabled' \subseteq Plugins,
         \/ UNCHANGED manualRefreshIds
         \/ /\ origin = "manual" /\ manualRefreshIds' = manualRefreshIds \cup ids
            /\ ids \cap cooling = {}
  PROVE  IInv'
<1> DEFINE remote == ids \cap remoteIds
           local  == ids \ remoteIds
<1>1. /\ TypeOK /\ BackendOK /\ ActiveOK /\ InboxOK /\ FetchedIsRemote /\ NoResultDropped
      /\ LoadingHasCause /\ ManualIsAnswered /\ NoRefreshInCooldown
  BY DEF IInv
<1>2. /\ phase[c] = "unused"
      /\ call' = [call EXCEPT ![c] = [origin |-> origin, remote |-> remote, local |-> local]]
      /\ phase' = [phase EXCEPT ![c] = IF remote # {} THEN "fetch" ELSE "start"]
      /\ loading' = loading \cup ids /\ UNCHANGED cooling
  BY DEF StartBatch, SplitProbeIds, SetLoading
<1>3. /\ phase' \in [Batches -> Phases] /\ call' \in [Batches -> Calls]
      /\ phase'[c] \in {"fetch", "start"} /\ (remote # {} => phase'[c] = "fetch")
      /\ call'[c].origin = origin /\ call'[c].remote = remote /\ call'[c].local = local
      /\ \A d \in Batches : d # c => phase'[d] = phase[d] /\ call'[d] = call[d]
  <2>1. phase \in [Batches -> Phases] /\ call \in [Batches -> Calls]
    BY <1>1, TypeFacts
  <2>2. [origin |-> origin, remote |-> remote, local |-> local] \in Calls
    BY DEF Calls
  <2> QED BY <1>2, <2>1, <2>2 DEF Phases
<1>4. /\ \A d, p : Coming(d, p)' <=> Coming(d, p)
      /\ \A d : Service!Open(d)' = Service!Open(d)
      /\ \A p : Lost(p)' <=> Lost(p)
      /\ BackendOK' /\ InboxOK'
  BY <1>1, BackendFrame
<1>5. c \notin activeBatchIds /\ \A p : ~Pending(c, p)
  BY <1>1, <1>2, PendingMeans DEF ActiveOK
<1>6. \A d \in Batches : \A p : Pending(d, p) => d # c /\ Pending(d, p)'
  BY <1>3, <1>4, <1>5, PendingMeans, PendingMeansNext
<1>7. \A p \in ids : Pending(c, p)'
  <2>1. \A p \in ids : p \in remote \/ p \in local
    OBVIOUS
  <2> HIDE DEF remote, local
  <2> QED BY <1>3, <2>1, PendingMeansNext
<1>8. TypeOK'
  <2>1. remoteIds' \in RemoteChoices /\ activeBatchIds' \subseteq Batches
        /\ loading' \subseteq Plugins /\ cooling' \subseteq Plugins
        /\ manualRefreshIds' \subseteq Plugins
    BY <1>1, <1>2 DEF TypeOK
  <2>2. \A d \in Batches : call'[d].remote \cap call'[d].local = {}
    BY <1>1, <1>3 DEF TypeOK
  <2>3. phase' \in [Batches -> Phases] /\ call' \in [Batches -> Calls]
    BY <1>3
  <2> QED BY <2>1, <2>2, <2>3 DEF TypeOK, Phases, Calls, Origins
<1>9. ActiveOK'
  BY <1>1, <1>2, <1>3, <1>5 DEF ActiveOK, backend
<1>10. FetchedIsRemote'
  <2>1. remote \subseteq UNION RemoteChoices
    BY <1>1 DEF TypeOK
  <2> QED BY <1>1, <1>3, <2>1 DEF FetchedIsRemote
<1>11. NoResultDropped'
  BY <1>1 DEF NoResultDropped
<1>12. LoadingHasCause'
  BY <1>1, <1>2, <1>4, <1>6, <1>7 DEF LoadingHasCause
<1>13. ManualIsAnswered'
  <2>1. \A d \in Batches : \A p : PendingManual(d, p) => PendingManual(d, p)'
    BY <1>3, <1>6 DEF PendingManual
  <2>2. origin = "manual" => \A p \in ids : PendingManual(c, p)'
    BY <1>3, <1>7 DEF PendingManual
  <2> QED BY <1>1, <1>4, <2>1, <2>2 DEF ManualIsAnswered
<1>14. NoRefreshInCooldown'
  BY <1>1, <1>2 DEF NoRefreshInCooldown
<1> QED BY <1>4, <1>8, <1>9, <1>10, <1>11, <1>12, <1>13, <1>14 DEF IInv

(***************************************************************************)
(* The answer of the remote machine: what it was asked for is not loading  *)
(* any more, the rest waits for the local batch.                           *)
(***************************************************************************)
LEMMA FetchKeeps ==
  ASSUME IInv, NEW c \in Batches, phase[c] = "fetch", AfterFetch(c),
         loading' = loading \ call[c].remote,
         NEW ok \in SUBSET call[c].remote, NEW found \in SUBSET call[c].remote,
         ok \subseteq found,
         cooling' = cooling \cup (ok \cap manualRefreshIds),
         manualRefreshIds' = manualRefreshIds \ found,
         UNCHANGED <<backend, inbox, settings, activeBatchIds>>
  PROVE  IInv'
<1>1. /\ TypeOK /\ BackendOK /\ ActiveOK /\ InboxOK /\ FetchedIsRemote /\ NoResultDropped
      /\ LoadingHasCause /\ ManualIsAnswered /\ NoRefreshInCooldown
  BY DEF IInv
<1>2. /\ phase \in [Batches -> Phases] /\ call \in [Batches -> Calls]
      /\ call[c].remote \cap call[c].local = {}
  BY <1>1, TypeFacts
<1>3. /\ phase' \in [Batches -> Phases] /\ call' \in [Batches -> Calls]
      /\ \A d \in Batches : d # c => phase'[d] = phase[d] /\ call'[d] = call[d]
      /\ \/ call[c].local = {} /\ phase'[c] = "done" /\ call'[c] = NoCall
         \/ call[c].local # {} /\ phase'[c] = "start" /\ call'[c] = call[c]
  <2>1. NoCall \in Calls
    BY DEF NoCall, Calls, Origins
  <2>2. "done" \in Phases /\ "start" \in Phases
    BY DEF Phases
  <2> QED BY <1>2, <2>1, <2>2 DEF AfterFetch, Done
<1>4. /\ \A d, p : Coming(d, p)' <=> Coming(d, p)
      /\ \A d : Service!Open(d)' = Service!Open(d)
      /\ \A p : Lost(p)' <=> Lost(p)
      /\ BackendOK' /\ InboxOK'
  BY <1>1, BackendFrame
<1>5. \A d \in Batches : \A p : Pending(d, p) /\ p \notin call[c].remote => Pending(d, p)'
  BY <1>3, <1>4, PendingMeans, PendingMeansNext
<1>6. TypeOK'
  <2>1. remoteIds' \in RemoteChoices /\ activeBatchIds' \subseteq Batches /\ disabled' \subseteq Plugins
        /\ loading' \subseteq Plugins /\ cooling' \subseteq Plugins
        /\ manualRefreshIds' \subseteq Plugins
    BY <1>1 DEF TypeOK, settings
  <2>2. \A d \in Batches : call'[d].remote \cap call'[d].local = {}
    BY <1>1, <1>3 DEF TypeOK, NoCall
  <2>3. phase' \in [Batches -> Phases] /\ call' \in [Batches -> Calls]
    BY <1>3
  <2> QED BY <2>1, <2>2, <2>3 DEF TypeOK, Phases, Calls, Origins
<1>7. ActiveOK'
  BY <1>1, <1>3 DEF ActiveOK, backend
<1>8. FetchedIsRemote' /\ NoResultDropped'
  BY <1>1, <1>3 DEF FetchedIsRemote, NoResultDropped, NoCall
<1>9. LoadingHasCause'
  BY <1>1, <1>4, <1>5 DEF LoadingHasCause
<1>10. ManualIsAnswered'
  <2>1. \A p \in Plugins \ UNION RemoteChoices : p \notin call[c].remote
    BY <1>1 DEF FetchedIsRemote
  <2>2. \A d \in Batches : \A p : PendingManual(d, p) /\ p \notin call[c].remote => PendingManual(d, p)'
    BY <1>3, <1>5 DEF PendingManual
  <2> QED BY <1>1, <1>4, <2>1, <2>2 DEF ManualIsAnswered
<1>11. NoRefreshInCooldown'
  BY <1>1 DEF NoRefreshInCooldown
<1> QED BY <1>4, <1>6, <1>7, <1>8, <1>9, <1>10, <1>11 DEF IInv

(***************************************************************************)
(* The batch of a call is made active, and then sent.                      *)
(***************************************************************************)
LEMMA InvokeStartKeeps ==
  ASSUME IInv, NEW c \in Batches, InvokeStart(c)
  PROVE  IInv'
<1>1. /\ TypeOK /\ BackendOK /\ ActiveOK /\ InboxOK /\ FetchedIsRemote /\ NoResultDropped
      /\ LoadingHasCause /\ ManualIsAnswered /\ NoRefreshInCooldown
  BY DEF IInv
<1>2. /\ phase[c] = "start" /\ phase' = [phase EXCEPT ![c] = "invoke"]
      /\ activeBatchIds' = activeBatchIds \cup {c}
      /\ UNCHANGED <<backend, inbox, settings, pluginStates, manualRefreshIds, call>>
  BY DEF InvokeStart
<1>3. /\ phase' \in [Batches -> Phases] /\ phase'[c] = "invoke"
      /\ \A d \in Batches : d # c => phase'[d] = phase[d]
  BY <1>1, <1>2, TypeFacts DEF Phases
<1>4. /\ \A d, p : Coming(d, p)' <=> Coming(d, p)
      /\ \A d : Service!Open(d)' = Service!Open(d)
      /\ \A p : Lost(p)' <=> Lost(p)
      /\ BackendOK' /\ InboxOK'
  BY <1>1, <1>2, BackendFrame
<1>5. \A d \in Batches : \A p : Pending(d, p) => Pending(d, p)'
  BY <1>2, <1>3, <1>4, PendingMeans, PendingMeansNext
<1>6. TypeOK'
  BY <1>1, <1>2, <1>3 DEF TypeOK, Phases, settings, pluginStates
<1>7. ActiveOK'
  BY <1>1, <1>2, <1>3 DEF ActiveOK, backend
<1>8. FetchedIsRemote' /\ NoResultDropped' /\ NoRefreshInCooldown'
  BY <1>1, <1>2 DEF FetchedIsRemote, NoResultDropped, NoRefreshInCooldown, pluginStates
<1>9. LoadingHasCause'
  BY <1>1, <1>2, <1>4, <1>5 DEF LoadingHasCause, pluginStates
<1>10. ManualIsAnswered'
  <2>1. \A d \in Batches : \A p : PendingManual(d, p) => PendingManual(d, p)'
    BY <1>2, <1>3, <1>5 DEF PendingManual
  <2> QED BY <1>1, <1>2, <1>4, <2>1 DEF ManualIsAnswered
<1> QED BY <1>4, <1>6, <1>7, <1>8, <1>9, <1>10 DEF IInv

(***************************************************************************)
(* start_probe_batch runs: what the call waited for is now open in the     *)
(* batch.                                                                  *)
(***************************************************************************)
LEMMA BatchStartsKeeps ==
  ASSUME IInv, NEW c \in Batches, BatchStarts(c)
  PROVE  IInv'
<1>1. /\ TypeOK /\ BackendOK /\ ActiveOK /\ InboxOK /\ FetchedIsRemote /\ NoResultDropped
      /\ LoadingHasCause /\ ManualIsAnswered /\ NoRefreshInCooldown
  BY DEF IInv
<1>2. /\ phase[c] = "invoke" /\ c \notin started
      /\ started' = started \cup {c}
      /\ asked' = [asked EXCEPT ![c] = call[c].local]
      /\ complete' = IF call[c].local = {} THEN complete \cup {c} ELSE complete
      /\ UNCHANGED <<answered, lost>>
      /\ phase' = [phase EXCEPT ![c] = "done"] /\ call' = [call EXCEPT ![c] = NoCall]
      /\ UNCHANGED <<inbox, settings, pluginStates, manualRefreshIds, activeBatchIds>>
      /\ c \in activeBatchIds
  BY <1>1 DEF BatchStarts, Service!Ask, Done, ActiveOK
<1>3. /\ phase' \in [Batches -> Phases] /\ call' \in [Batches -> Calls]
      /\ phase'[c] = "done" /\ call'[c] = NoCall
      /\ \A d \in Batches : d # c => phase'[d] = phase[d] /\ call'[d] = call[d]
  <2>1. NoCall \in Calls /\ "done" \in Phases
    BY DEF NoCall, Calls, Origins, Phases
  <2> QED BY <1>1, <1>2, <2>1, TypeFacts
<1>4. call[c] \in Calls /\ call[c].local \subseteq Plugins
  BY <1>1, TypeFacts DEF Calls
<1>5. /\ asked' \in [Batches -> SUBSET Plugins]
      /\ asked'[c] = call[c].local /\ answered[c] = {} /\ lost[c] = {}
      /\ \A d \in Batches : d # c => asked'[d] = asked[d]
  BY <1>1, <1>2, <1>4 DEF BackendOK
<1>6. /\ \A d, p : Coming(d, p)' <=> Coming(d, p)
      /\ \A p : Lost(p)' <=> Lost(p)
  BY <1>2 DEF Coming, Lost
<1>7. /\ Service!Open(c)' = call[c].local
      /\ \A d \in Batches : d # c => Service!Open(d)' = Service!Open(d)
  BY <1>2, <1>5 DEF Service!Open, Service!Settled
<1>8. \A p : ~Coming(c, p)
  BY <1>1, <1>2 DEF Coming, InboxOK
<1>9. \A d \in Batches : \A p : Pending(d, p) => Pending(d, p)'
  <2>1. Service!Open(c) = {}
    BY <1>1, <1>2 DEF BackendOK, Service!Open
  <2>2. \A p : Pending(c, p) => Pending(c, p)'
    BY <1>2, <1>7, <1>8, <2>1, PendingMeans, PendingMeansNext
  <2>3. \A d \in Batches : \A p : d # c /\ Pending(d, p) => Pending(d, p)'
    BY <1>2, <1>3, <1>6, <1>7, PendingMeans, PendingMeansNext
  <2> QED BY <2>2, <2>3
<1>10. TypeOK'
  <2>1. \A d \in Batches : call'[d].remote \cap call'[d].local = {}
    BY <1>1, <1>3 DEF TypeOK, NoCall
  <2> QED BY <1>1, <1>2, <1>3, <2>1 DEF TypeOK, Phases, Calls, Origins, settings, pluginStates
<1>11. BackendOK'
  <2>1. started' \subseteq Batches /\ complete' \subseteq started'
    BY <1>1, <1>2 DEF BackendOK
  <2>2. \A b \in complete' : Service!Open(b)' = {}
    <3>1. \A b \in complete' : (b = c /\ call[c].local = {}) \/ b \in complete
      BY <1>2
    <3> QED BY <1>1, <1>2, <1>7, <3>1 DEF BackendOK
  <2>3. \A b \in Batches \ started' : asked'[b] = {} /\ answered[b] = {} /\ lost[b] = {}
    BY <1>1, <1>2, <1>5 DEF BackendOK
  <2> QED BY <1>1, <1>2, <1>5, <2>1, <2>2, <2>3 DEF BackendOK
<1>12. ActiveOK'
  BY <1>1, <1>2, <1>3 DEF ActiveOK
<1>13. InboxOK'
  BY <1>1, <1>2 DEF InboxOK
<1>14. FetchedIsRemote' /\ NoResultDropped' /\ NoRefreshInCooldown'
  BY <1>1, <1>2, <1>3 DEF FetchedIsRemote, NoResultDropped, NoRefreshInCooldown, NoCall, pluginStates
<1>15. LoadingHasCause'
  BY <1>1, <1>2, <1>6, <1>9 DEF LoadingHasCause, pluginStates
<1>16. ManualIsAnswered'
  <2>1. \A d \in Batches : \A p : PendingManual(d, p) => PendingManual(d, p)'
    BY <1>2, <1>3, <1>9 DEF PendingManual
  <2> QED BY <1>1, <1>2, <1>6, <2>1 DEF ManualIsAnswered
<1> QED BY <1>10, <1>11, <1>12, <1>13, <1>14, <1>15, <1>16 DEF IInv

(***************************************************************************)
(* The command is rejected: nothing waits for the call any more, and only  *)
(* marks of a manual refresh are taken back.                               *)
(***************************************************************************)
LEMMA InvokeFailsKeeps ==
  ASSUME IInv, NEW c \in Batches, InvokeFails(c)
  PROVE  IInv'
<1>1. /\ TypeOK /\ BackendOK /\ ActiveOK /\ InboxOK /\ FetchedIsRemote /\ NoResultDropped
      /\ LoadingHasCause /\ ManualIsAnswered /\ NoRefreshInCooldown
  BY DEF IInv
<1>2. /\ phase[c] = "invoke" /\ activeBatchIds' = activeBatchIds \ {c}
      /\ manualRefreshIds' = manualRefreshIds \ CaughtIds(c)
      /\ loading' = loading \ (call[c].local \cup call[c].remote) /\ UNCHANGED cooling
      /\ phase' = [phase EXCEPT ![c] = "done"] /\ call' = [call EXCEPT ![c] = NoCall]
      /\ UNCHANGED <<backend, inbox, settings>>
      /\ c \notin started
  BY <1>1 DEF InvokeFails, SetError, Done, ActiveOK
<1>3. /\ phase' \in [Batches -> Phases] /\ call' \in [Batches -> Calls]
      /\ phase'[c] = "done" /\ call'[c] = NoCall
      /\ \A d \in Batches : d # c => phase'[d] = phase[d] /\ call'[d] = call[d]
  <2>1. NoCall \in Calls /\ "done" \in Phases
    BY DEF NoCall, Calls, Origins, Phases
  <2> QED BY <1>1, <1>2, <2>1, TypeFacts
<1>4. /\ \A d, p : Coming(d, p)' <=> Coming(d, p)
      /\ \A d : Service!Open(d)' = Service!Open(d)
      /\ \A p : Lost(p)' <=> Lost(p)
      /\ BackendOK' /\ InboxOK'
  BY <1>1, <1>2, BackendFrame
<1>5. \A p : Pending(c, p) => p \in call[c].local
  <2>1. Service!Open(c) = {} /\ \A p : ~Coming(c, p)
    BY <1>1, <1>2 DEF BackendOK, InboxOK, Coming, Service!Open
  <2> QED BY <1>2, <2>1, PendingMeans
<1>6. \A d \in Batches : \A p : Pending(d, p) /\ d # c => Pending(d, p)'
  BY <1>2, <1>3, <1>4, PendingMeans, PendingMeansNext
<1>7. TypeOK'
  <2>1. \A d \in Batches : call'[d].remote \cap call'[d].local = {}
    BY <1>1, <1>3 DEF TypeOK, NoCall
  <2>2. loading' \subseteq Plugins /\ manualRefreshIds' \subseteq Plugins
    BY <1>1, <1>2 DEF TypeOK
  <2> QED BY <1>1, <1>2, <1>3, <2>1, <2>2 DEF TypeOK, Phases, Calls, Origins, settings
<1>8. ActiveOK'
  BY <1>1, <1>2, <1>3 DEF ActiveOK, backend
<1>9. NoResultDropped'
  <2>1. \A i \in DOMAIN inbox : inbox[i].batch # c
    BY <1>1, <1>2 DEF InboxOK
  <2> QED BY <1>1, <1>2, <2>1 DEF NoResultDropped, ToSet
<1>10. FetchedIsRemote' /\ NoRefreshInCooldown'
  BY <1>1, <1>2, <1>3 DEF FetchedIsRemote, NoRefreshInCooldown, NoCall
<1>11. LoadingHasCause'
  BY <1>1, <1>2, <1>4, <1>5, <1>6 DEF LoadingHasCause
<1>12. ManualIsAnswered'
  <2>1. \A d \in Batches : \A p : PendingManual(d, p) /\ d # c => PendingManual(d, p)'
    BY <1>3, <1>6 DEF PendingManual
  <2>2. \A p : p \in manualRefreshIds' => ~PendingManual(c, p)
    BY <1>2, <1>5 DEF PendingManual, CaughtIds
  <2> QED BY <1>1, <1>2, <1>4, <2>1, <2>2 DEF ManualIsAnswered
<1> QED BY <1>4, <1>7, <1>8, <1>9, <1>10, <1>11, <1>12 DEF IInv

(***************************************************************************)
(* One more event on its way.                                              *)
(***************************************************************************)
LEMMA Receiving ==
  ASSUME InboxOK, NEW e \in Event, inbox' = Append(inbox, e), e.batch \in started',
         e.batch \notin complete, started \subseteq started', complete \subseteq complete',
         e.type = "probe:batch-complete" => e.batch \in complete'
  PROVE  /\ InboxOK'
         /\ \A i \in DOMAIN inbox : i \in DOMAIN inbox' /\ inbox'[i] = inbox[i]
         /\ Len(inbox) + 1 \in DOMAIN inbox' /\ inbox'[Len(inbox) + 1] = e
         /\ \A f : f \in ToSet(inbox') <=> f \in ToSet(inbox) \/ f = e
<1>1. /\ inbox' \in Seq(Event) /\ Len(inbox) \in Nat
      /\ DOMAIN inbox = 1 .. Len(inbox) /\ DOMAIN inbox' = 1 .. Len(inbox) + 1
      /\ \A i \in 1 .. Len(inbox) : inbox'[i] = inbox[i]
      /\ inbox'[Len(inbox) + 1] = e
  BY AppendProperties, LenProperties DEF InboxOK
<1>2. /\ \A i \in DOMAIN inbox : i \in DOMAIN inbox' /\ inbox'[i] = inbox[i]
      /\ Len(inbox) + 1 \in DOMAIN inbox'
      /\ \A i \in DOMAIN inbox' : i \in DOMAIN inbox \/ i = Len(inbox) + 1
  BY <1>1
<1>3. \A i \in DOMAIN inbox' :
        /\ inbox'[i].batch \in started'
        /\ inbox'[i].type = "probe:batch-complete" => inbox'[i].batch \in complete'
  BY <1>1, <1>2 DEF InboxOK
<1>4. ASSUME NEW i \in DOMAIN inbox', NEW j \in DOMAIN inbox',
             inbox'[i].type = "probe:batch-complete", inbox'[j].batch = inbox'[i].batch
      PROVE  j <= i
  <2>1. CASE i = Len(inbox) + 1
    BY <1>1, <2>1
  <2>2. CASE i \in DOMAIN inbox
    <3>1. inbox[i].batch \in complete
      BY <1>2, <1>4, <2>2 DEF InboxOK
    <3>2. j \in DOMAIN inbox
      BY <1>1, <1>2, <1>4, <2>2, <3>1
    <3> QED BY <1>2, <1>4, <2>2, <3>2 DEF InboxOK
  <2> QED BY <1>2, <2>1, <2>2
<1>5. \A f : f \in ToSet(inbox') <=> f \in ToSet(inbox) \/ f = e
  BY <1>1, <1>2 DEF ToSet
<1> QED BY <1>1, <1>2, <1>3, <1>4, <1>5 DEF InboxOK

(***************************************************************************)
(* A result is emitted: what was open is now coming.                       *)
(***************************************************************************)
LEMMA AnswerKeeps ==
  ASSUME IInv, NEW b \in Batches, NEW p0 \in Plugins, NEW kind \in {"ok", "error"},
         Service!Answer(b, p0), inbox' = Append(inbox, Result(b, p0, kind)),
         UNCHANGED <<listening, settings, pluginStates, manualRefreshIds, activeBatchIds,
                     phase, call>>
  PROVE  IInv'
<1> DEFINE e == Result(b, p0, kind)
<1>1. /\ TypeOK /\ BackendOK /\ ActiveOK /\ InboxOK /\ FetchedIsRemote /\ NoResultDropped
      /\ LoadingHasCause /\ ManualIsAnswered /\ NoRefreshInCooldown
  BY DEF IInv
<1>2. /\ p0 \in Service!Open(b)
      /\ answered' = [answered EXCEPT ![b] = answered[b] \cup {p0}]
      /\ UNCHANGED <<started, asked, lost, complete>>
  BY DEF Service!Answer
<1>3. /\ e \in Event /\ e.type = "probe:result" /\ e.batch = b /\ e.plugin = p0
  BY EventFacts
<1> HIDE DEF e
<1>4. b \in started /\ b \notin complete /\ b \in activeBatchIds
  <2>1. Service!Open(b) # {}
    BY <1>2
  <2>2. b \notin complete
    BY <1>1, <2>1 DEF BackendOK
  <2>3. b \in started
    BY <1>1, <2>1 DEF BackendOK, Service!Open
  <2> QED BY <1>1, <2>2, <2>3 DEF ActiveOK
<1>5. /\ InboxOK'
      /\ \A i \in DOMAIN inbox : i \in DOMAIN inbox' /\ inbox'[i] = inbox[i]
      /\ Len(inbox) + 1 \in DOMAIN inbox' /\ inbox'[Len(inbox) + 1] = e
      /\ \A f : f \in ToSet(inbox') <=> f \in ToSet(inbox) \/ f = e
  <2>1. inbox' = Append(inbox, e)
    BY DEF e
  <2> QED BY <1>1, <1>2, <1>3, <1>4, <2>1, Receiving
<1>6. /\ answered' \in [Batches -> SUBSET Plugins]
      /\ answered'[b] = answered[b] \cup {p0}
      /\ \A d \in Batches : d # b => answered'[d] = answered[d]
  BY <1>1, <1>2 DEF BackendOK
<1>7. \A d \in Batches : \A p : p \in Service!Open(d)' <=> p \in Service!Open(d) /\ ~(d = b /\ p = p0)
  BY <1>2, <1>6 DEF Service!Open, Service!Settled
<1>8. Coming(b, p0)' /\ \A d, p : Coming(d, p) => Coming(d, p)'
  BY <1>3, <1>5 DEF Coming
<1>9. \A d \in Batches : \A p : Pending(d, p) => Pending(d, p)'
  BY <1>4, <1>7, <1>8, PendingMeans, PendingMeansNext
<1>10. \A p : Lost(p)' <=> Lost(p)
  BY <1>2 DEF Lost
<1>11. TypeOK'
  BY <1>1 DEF TypeOK, settings, pluginStates
<1>12. BackendOK'
  <2>1. \A d \in complete : Service!Open(d)' = {}
    BY <1>1, <1>7 DEF BackendOK
  <2>2. \A d \in Batches \ started : answered'[d] = answered[d]
    BY <1>4, <1>6
  <2> QED BY <1>1, <1>2, <1>6, <2>1, <2>2 DEF BackendOK
<1>13. ActiveOK'
  BY <1>1, <1>2 DEF ActiveOK
<1>14. NoResultDropped'
  BY <1>1, <1>3, <1>4, <1>5 DEF NoResultDropped
<1>15. FetchedIsRemote' /\ NoRefreshInCooldown'
  BY <1>1 DEF FetchedIsRemote, NoRefreshInCooldown, pluginStates
<1>16. LoadingHasCause'
  BY <1>1, <1>9, <1>10 DEF LoadingHasCause, pluginStates
<1>17. ManualIsAnswered'
  <2>1. \A d \in Batches : \A p : PendingManual(d, p) => PendingManual(d, p)'
    BY <1>9 DEF PendingManual
  <2> QED BY <1>1, <1>10, <2>1 DEF ManualIsAnswered
<1> QED BY <1>5, <1>11, <1>12, <1>13, <1>14, <1>15, <1>16, <1>17 DEF IInv

(***************************************************************************)
(* A probe panics: nothing comes for it any more, and it is counted lost.  *)
(***************************************************************************)
LEMMA LoseKeeps ==
  ASSUME IInv, NEW b \in Batches, NEW p0 \in Plugins, Service!Lose(b, p0),
         UNCHANGED <<inbox, listening, settings, pluginStates, manualRefreshIds, activeBatchIds,
                     phase, call>>
  PROVE  IInv'
<1>1. /\ TypeOK /\ BackendOK /\ ActiveOK /\ InboxOK /\ FetchedIsRemote /\ NoResultDropped
      /\ LoadingHasCause /\ ManualIsAnswered /\ NoRefreshInCooldown
  BY DEF IInv
<1>2. /\ p0 \in Service!Open(b)
      /\ lost' = [lost EXCEPT ![b] = lost[b] \cup {p0}]
      /\ UNCHANGED <<started, asked, answered, complete>>
  BY DEF Service!Lose
<1>3. b \in started
  <2>1. Service!Open(b) # {}
    BY <1>2
  <2> QED BY <1>1, <2>1 DEF BackendOK, Service!Open
<1>4. /\ lost' \in [Batches -> SUBSET Plugins]
      /\ lost'[b] = lost[b] \cup {p0}
      /\ \A d \in Batches : d # b => lost'[d] = lost[d]
  BY <1>1, <1>2 DEF BackendOK
<1>5. \A d \in Batches : \A p : p \in Service!Open(d)' <=> p \in Service!Open(d) /\ ~(d = b /\ p = p0)
  BY <1>2, <1>4 DEF Service!Open, Service!Settled
<1>6. Lost(p0)' /\ \A p : Lost(p) => Lost(p)'
  BY <1>4 DEF Lost
<1>7. \A d \in Batches : \A p : Pending(d, p) => Pending(d, p)' \/ Lost(p)'
  <2>1. \A d, p : Coming(d, p)' <=> Coming(d, p)
    BY DEF Coming
  <2> QED BY <1>5, <1>6, <2>1, PendingMeans, PendingMeansNext
<1>8. TypeOK'
  BY <1>1 DEF TypeOK, settings, pluginStates
<1>9. BackendOK'
  <2>1. \A d \in complete : Service!Open(d)' = {}
    BY <1>1, <1>5 DEF BackendOK
  <2>2. \A d \in Batches \ started : lost'[d] = lost[d]
    BY <1>3, <1>4
  <2> QED BY <1>1, <1>2, <1>4, <2>1, <2>2 DEF BackendOK
<1>10. ActiveOK' /\ InboxOK' /\ NoResultDropped'
  BY <1>1, <1>2 DEF ActiveOK, InboxOK, NoResultDropped
<1>11. FetchedIsRemote' /\ NoRefreshInCooldown'
  BY <1>1 DEF FetchedIsRemote, NoRefreshInCooldown, pluginStates
<1>12. LoadingHasCause'
  BY <1>1, <1>6, <1>7 DEF LoadingHasCause, pluginStates
<1>13. ManualIsAnswered'
  <2>1. \A d \in Batches : \A p : PendingManual(d, p) => PendingManual(d, p)' \/ Lost(p)'
    BY <1>7 DEF PendingManual
  <2> QED BY <1>1, <1>6, <2>1 DEF ManualIsAnswered
<1> QED BY <1>8, <1>9, <1>10, <1>11, <1>12, <1>13 DEF IInv

(***************************************************************************)
(* The backend reports a batch complete.                                   *)
(***************************************************************************)
LEMMA CompleteKeeps ==
  ASSUME IInv, NEW b \in Batches, Service!Complete(b), inbox' = Append(inbox, BatchComplete(b)),
         UNCHANGED <<listening, settings, pluginStates, manualRefreshIds, activeBatchIds,
                     phase, call>>
  PROVE  IInv'
<1> DEFINE e == BatchComplete(b)
<1>1. /\ TypeOK /\ BackendOK /\ ActiveOK /\ InboxOK /\ FetchedIsRemote /\ NoResultDropped
      /\ LoadingHasCause /\ ManualIsAnswered /\ NoRefreshInCooldown
  BY DEF IInv
<1>2. /\ b \in started \ complete /\ Service!Open(b) = {}
      /\ complete' = complete \cup {b} /\ UNCHANGED <<started, asked, answered, lost>>
  BY DEF Service!Complete
<1>3. /\ e \in Event /\ e.type = "probe:batch-complete" /\ e.batch = b
  BY EventFacts
<1> HIDE DEF e
<1>4. /\ InboxOK'
      /\ \A i \in DOMAIN inbox : i \in DOMAIN inbox' /\ inbox'[i] = inbox[i]
      /\ \A f : f \in ToSet(inbox') <=> f \in ToSet(inbox) \/ f = e
  <2>1. inbox' = Append(inbox, e)
    BY DEF e
  <2> QED BY <1>1, <1>2, <1>3, <2>1, Receiving
<1>5. /\ \A d : Service!Open(d)' = Service!Open(d)
      /\ \A p : Lost(p)' <=> Lost(p)
  BY <1>2 DEF Service!Open, Service!Settled, Lost
<1>6. \A d, p : Coming(d, p) => Coming(d, p)'
  BY <1>4 DEF Coming
<1>7. \A d \in Batches : \A p : Pending(d, p) => Pending(d, p)'
  BY <1>5, <1>6, PendingMeans, PendingMeansNext
<1>8. TypeOK'
  BY <1>1 DEF TypeOK, settings, pluginStates
<1>9. BackendOK'
  BY <1>1, <1>2, <1>5 DEF BackendOK
<1>10. ActiveOK'
  BY <1>1, <1>2 DEF ActiveOK
<1>11. NoResultDropped'
  BY <1>1, <1>3, <1>4 DEF NoResultDropped
<1>12. FetchedIsRemote' /\ NoRefreshInCooldown'
  BY <1>1 DEF FetchedIsRemote, NoRefreshInCooldown, pluginStates
<1>13. LoadingHasCause'
  BY <1>1, <1>5, <1>7 DEF LoadingHasCause, pluginStates
<1>14. ManualIsAnswered'
  <2>1. \A d \in Batches : \A p : PendingManual(d, p) => PendingManual(d, p)'
    BY <1>7 DEF PendingManual
  <2> QED BY <1>1, <1>5, <2>1 DEF ManualIsAnswered
<1> QED BY <1>4, <1>8, <1>9, <1>10, <1>11, <1>12, <1>13, <1>14 DEF IInv

(***************************************************************************)
(* Handling the first event of the inbox.                                  *)
(***************************************************************************)
LEMMA Handling ==
  ASSUME InboxOK, UNCHANGED <<started, complete>>, inbox # <<>>, inbox' = Tail(inbox)
  PROVE  /\ InboxOK' /\ Head(inbox) \in Event /\ Head(inbox) = inbox[1] /\ 1 \in DOMAIN inbox
         /\ \A f : f \in ToSet(inbox') => f \in ToSet(inbox)
         /\ \A i \in DOMAIN inbox : i # 1 => i - 1 \in DOMAIN inbox' /\ inbox'[i - 1] = inbox[i]
         /\ \A i \in DOMAIN inbox' : i + 1 \in DOMAIN inbox /\ inbox'[i] = inbox[i + 1] /\ i >= 1
<1>1. inbox \in Seq(Event)
  BY DEF InboxOK
<1>2. /\ inbox' \in Seq(Event) /\ Len(inbox) \in Nat /\ Len(inbox) >= 1
      /\ DOMAIN inbox = 1 .. Len(inbox) /\ DOMAIN inbox' = 1 .. Len(inbox) - 1
      /\ \A i \in 1 .. Len(inbox) - 1 : inbox'[i] = inbox[i + 1]
      /\ Head(inbox) \in Event /\ Head(inbox) = inbox[1]
  BY <1>1, HeadTailProperties, LenProperties, EmptySeq
<1>3. \A i \in DOMAIN inbox' : i + 1 \in DOMAIN inbox /\ inbox'[i] = inbox[i + 1] /\ i >= 1
  BY <1>2
<1>4. \A i \in DOMAIN inbox : i # 1 => i - 1 \in DOMAIN inbox' /\ inbox'[i - 1] = inbox[i]
  <2> SUFFICES ASSUME NEW i \in DOMAIN inbox, i # 1
               PROVE  i - 1 \in DOMAIN inbox' /\ inbox'[i - 1] = inbox[i]
    OBVIOUS
  <2>1. i - 1 \in 1 .. Len(inbox) - 1 /\ (i - 1) + 1 = i
    BY <1>2
  <2>2. inbox'[i - 1] = inbox[(i - 1) + 1]
    BY <1>2, <2>1
  <2> QED BY <1>2, <2>1, <2>2
<1>5. InboxOK'
  <2>1. \A i \in DOMAIN inbox' :
          /\ inbox'[i].batch \in started
          /\ inbox'[i].type = "probe:batch-complete" => inbox'[i].batch \in complete
    BY <1>3 DEF InboxOK
  <2>2. ASSUME NEW i \in DOMAIN inbox', NEW j \in DOMAIN inbox',
               inbox'[i].type = "probe:batch-complete", inbox'[j].batch = inbox'[i].batch
        PROVE  j <= i
    <3>1. j + 1 <= i + 1
      BY <1>3, <2>2 DEF InboxOK
    <3> QED BY <1>2, <3>1
  <2> QED BY <1>2, <2>1, <2>2 DEF InboxOK
<1> QED BY <1>2, <1>3, <1>4, <1>5 DEF ToSet

LEMMA HandleEventKeeps ==
  ASSUME IInv, HandleEvent
  PROVE  IInv'
<1> DEFINE e == Head(inbox)
<1>1. /\ TypeOK /\ BackendOK /\ ActiveOK /\ InboxOK /\ FetchedIsRemote /\ NoResultDropped
      /\ LoadingHasCause /\ ManualIsAnswered /\ NoRefreshInCooldown
  BY DEF IInv
<1>2. /\ inbox # <<>> /\ inbox' = Tail(inbox)
      /\ UNCHANGED <<started, asked, answered, lost, complete>>
      /\ UNCHANGED <<listening, settings, phase, call>>
  BY DEF HandleEvent, backend
<1>3. /\ InboxOK' /\ e \in Event /\ e = inbox[1] /\ 1 \in DOMAIN inbox
      /\ \A f : f \in ToSet(inbox') => f \in ToSet(inbox)
      /\ \A i \in DOMAIN inbox : i # 1 => i - 1 \in DOMAIN inbox' /\ inbox'[i - 1] = inbox[i]
      /\ \A i \in DOMAIN inbox' : i + 1 \in DOMAIN inbox /\ inbox'[i] = inbox[i + 1] /\ i >= 1
  BY <1>1, <1>2, Handling
<1>4. \/ /\ e.type = "probe:result" /\ e.batch \in activeBatchIds
         /\ loading' = loading \ {e.plugin} /\ UNCHANGED activeBatchIds
         /\ \E ok \in SUBSET {e.plugin} : cooling' = cooling \cup (ok \cap manualRefreshIds)
         /\ manualRefreshIds' = manualRefreshIds \ {e.plugin}
      \/ /\ e.type = "probe:batch-complete"
         /\ activeBatchIds' = activeBatchIds \ {e.batch}
         /\ UNCHANGED <<pluginStates, manualRefreshIds>>
  <2>1. CASE e.type = "probe:result" /\ e.batch \in activeBatchIds
    <3>1. HandleProbeResults({e.plugin}, IF e.kind = "ok" THEN {e.plugin} ELSE {}, {})
          /\ UNCHANGED activeBatchIds
      BY <2>1 DEF HandleEvent
    <3> QED BY <2>1, <3>1 DEF HandleProbeResults
  <2>2. CASE e.type = "probe:result" /\ e.batch \notin activeBatchIds
    <3>1. e \in ToSet(inbox)
      BY <1>3 DEF ToSet
    <3> QED BY <1>1, <2>2, <3>1 DEF NoResultDropped
  <2>3. CASE e.type = "probe:batch-complete"
    BY <2>3 DEF HandleEvent
  <2> QED BY <1>3, <2>1, <2>2, <2>3, EventFacts
<1> HIDE DEF e
<1>5. /\ \A d : Service!Open(d)' = Service!Open(d)
      /\ \A p : Lost(p)' <=> Lost(p)
      /\ BackendOK'
  BY <1>1, <1>2 DEF Service!Open, Service!Settled, Lost, BackendOK
<1>6. FetchedIsRemote'
  BY <1>1, <1>2 DEF FetchedIsRemote
<1>7. CASE /\ e.type = "probe:result" /\ e.batch \in activeBatchIds
           /\ loading' = loading \ {e.plugin} /\ UNCHANGED activeBatchIds
           /\ \E ok \in SUBSET {e.plugin} : cooling' = cooling \cup (ok \cap manualRefreshIds)
           /\ manualRefreshIds' = manualRefreshIds \ {e.plugin}
  <2>1. \A d, p : Coming(d, p) /\ p # e.plugin => Coming(d, p)'
    BY <1>3 DEF Coming
  <2>2. \A d \in Batches : \A p : Pending(d, p) /\ p # e.plugin => Pending(d, p)'
    BY <1>2, <1>5, <1>7, <2>1, PendingMeans, PendingMeansNext
  <2>3. e.plugin \in Plugins
    BY <1>3, <1>7, EventFacts
  <2>4. TypeOK'
    BY <1>1, <1>2, <1>7, <2>3 DEF TypeOK, settings
  <2>5. ActiveOK' /\ NoResultDropped' /\ NoRefreshInCooldown'
    BY <1>1, <1>2, <1>3, <1>7 DEF ActiveOK, NoResultDropped, NoRefreshInCooldown
  <2>6. LoadingHasCause'
    BY <1>1, <1>5, <1>7, <2>2 DEF LoadingHasCause
  <2>7. ManualIsAnswered'
    <3>1. \A d \in Batches : \A p : PendingManual(d, p) /\ p # e.plugin => PendingManual(d, p)'
      BY <1>2, <2>2 DEF PendingManual
    <3> QED BY <1>1, <1>5, <1>7, <3>1 DEF ManualIsAnswered
  <2> QED BY <1>3, <1>5, <1>6, <2>4, <2>5, <2>6, <2>7 DEF IInv
<1>8. CASE /\ e.type = "probe:batch-complete"
           /\ activeBatchIds' = activeBatchIds \ {e.batch}
           /\ UNCHANGED <<pluginStates, manualRefreshIds>>
  <2>1. e.batch \in complete /\ Service!Open(e.batch) = {}
    BY <1>1, <1>3, <1>8 DEF InboxOK, BackendOK
  (* Its results came before its complete event, which is the first now.   *)
  <2>2. \A i \in DOMAIN inbox : i # 1 => inbox[i].batch # e.batch
    <3>1. \A i \in DOMAIN inbox : inbox[i].batch = e.batch => i <= 1
      BY <1>1, <1>3, <1>8 DEF InboxOK
    <3>2. \A i \in DOMAIN inbox : i \in Nat /\ i >= 1
      BY <1>1, LenProperties DEF InboxOK
    <3> QED BY <3>1, <3>2
  <2>3. \A d, p : Coming(d, p) => Coming(d, p)' /\ d # e.batch
    BY <1>3, <1>8, <2>2 DEF Coming
  <2>4. \A d \in Batches : \A p : Pending(d, p) => Pending(d, p)'
    BY <1>2, <1>5, <1>8, <2>1, <2>3, PendingMeans, PendingMeansNext
  <2>5. TypeOK'
    BY <1>1, <1>2, <1>8 DEF TypeOK, settings, pluginStates
  <2>6. ActiveOK'
    <3>1. \A c \in Batches : phase[c] = "invoke" => c # e.batch
      BY <1>1, <2>1 DEF ActiveOK, BackendOK
    <3> QED BY <1>1, <1>2, <1>8, <2>1, <3>1 DEF ActiveOK
  <2>7. NoResultDropped'
    <3>1. \A f \in ToSet(inbox') : f \in ToSet(inbox) /\ f.batch # e.batch
      <4>1. \A i \in DOMAIN inbox' : inbox'[i].batch # e.batch
        <5>1. \A i \in DOMAIN inbox' : i + 1 # 1
          BY <1>3, LenProperties DEF InboxOK
        <5> QED BY <1>3, <2>2, <5>1
      <4> QED BY <1>3, <4>1 DEF ToSet
    <3> QED BY <1>1, <1>8, <3>1 DEF NoResultDropped
  <2>8. NoRefreshInCooldown' /\ LoadingHasCause'
    BY <1>1, <1>5, <1>8, <2>4 DEF NoRefreshInCooldown, LoadingHasCause, pluginStates
  <2>9. ManualIsAnswered'
    <3>1. \A d \in Batches : \A p : PendingManual(d, p) => PendingManual(d, p)'
      BY <1>2, <2>4 DEF PendingManual
    <3> QED BY <1>1, <1>5, <1>8, <3>1 DEF ManualIsAnswered
  <2> QED BY <1>3, <1>5, <1>6, <2>5, <2>6, <2>7, <2>8, <2>9 DEF IInv
<1> QED BY <1>4, <1>7, <1>8

-----------------------------------------------------------------------------
(* Every action is one of these.                                           *)

LEMMA StartActions ==
  ASSUME IInv, NEW c \in Batches,
         Bootstrap(c) \/ AutoUpdate(c) \/ RefreshAll(c)
           \/ \E p \in Plugins : Retry(c, p) \/ Enable(c, p)
  PROVE  IInv'
<1>1. TypeOK /\ Enabled \subseteq Plugins /\ disabled \subseteq Plugins /\ remoteIds \in RemoteChoices
  BY DEF IInv, TypeOK, Enabled
<1>2. CASE Bootstrap(c)
  <2>1. /\ UNCHANGED <<backend, inbox, disabled, remoteIds, manualRefreshIds, activeBatchIds>>
        /\ \/ UNCHANGED <<phase, call, loading, cooling>>
           \/ StartBatch(c, "bootstrap", Enabled)
    BY <1>2 DEF Bootstrap, pluginStates
  <2> QED BY <1>1, <2>1, StaticKeeps, StartKeeps DEF Origins
<1>3. CASE AutoUpdate(c)
  <2>1. /\ UNCHANGED <<backend, inbox, disabled, remoteIds, manualRefreshIds, activeBatchIds>>
        /\ StartBatch(c, "auto", Enabled \ loading)
    BY <1>3 DEF AutoUpdate, settings
  <2> QED BY <1>1, <2>1, StartKeeps DEF Origins
<1>4. ASSUME NEW ids \in SUBSET Plugins, ManualRefresh(c, ids), ids \cap cooling = {}
      PROVE  IInv'
  <2>1. /\ UNCHANGED <<backend, inbox, disabled, remoteIds, activeBatchIds>>
        /\ StartBatch(c, "manual", ids) /\ manualRefreshIds' = manualRefreshIds \cup ids
    BY <1>4 DEF ManualRefresh, settings
  <2> QED BY <1>1, <1>4, <2>1, StartKeeps DEF Origins
<1>5. Refreshable \in SUBSET Plugins /\ Refreshable \cap cooling = {}
  BY <1>1 DEF Refreshable
<1>6. CASE RefreshAll(c)
  BY <1>4, <1>5, <1>6 DEF RefreshAll
<1>7. ASSUME NEW p \in Plugins, Retry(c, p)
      PROVE  IInv'
  BY <1>4, <1>5, <1>7 DEF Retry
<1>8. ASSUME NEW p \in Plugins, Enable(c, p)
      PROVE  IInv'
  <2>1. /\ UNCHANGED <<backend, inbox, remoteIds, manualRefreshIds, activeBatchIds>>
        /\ disabled' = disabled \ {p} /\ StartBatch(c, "enable", {p})
    BY <1>8 DEF Enable
  <2> QED BY <1>1, <2>1, StartKeeps DEF Origins
<1> QED BY <1>2, <1>3, <1>6, <1>7, <1>8

LEMMA CallKeeps ==
  ASSUME IInv, NEW c \in Batches, CallStep(c)
  PROVE  IInv'
<1>1. ASSUME NEW found \in SUBSET call[c].remote, NEW ok \in SUBSET found,
             FetchReturns(c, found, ok)
      PROVE  IInv'
  <2>1. /\ phase[c] = "fetch" /\ AfterFetch(c)
        /\ loading' = loading \ (found \cup (call[c].remote \ found))
        /\ cooling' = cooling \cup (ok \cap manualRefreshIds)
        /\ manualRefreshIds' = manualRefreshIds \ found
        /\ UNCHANGED <<backend, inbox, settings, activeBatchIds>>
    BY <1>1 DEF FetchReturns, HandleProbeResults
  <2>2. found \cup (call[c].remote \ found) = call[c].remote /\ ok \in SUBSET call[c].remote
    OBVIOUS
  <2> QED BY <2>1, <2>2, FetchKeeps
<1>2. CASE FetchFails(c)
  <2>1. /\ phase[c] = "fetch" /\ AfterFetch(c)
        /\ loading' = loading \ call[c].remote
        /\ cooling' = cooling \cup ({} \cap manualRefreshIds)
        /\ manualRefreshIds' = manualRefreshIds \ {}
        /\ UNCHANGED <<backend, inbox, settings, activeBatchIds>>
    BY <1>2 DEF FetchFails, SetError
  <2>2. {} \in SUBSET call[c].remote /\ {} \subseteq {}
    OBVIOUS
  <2> QED BY <2>1, <2>2, FetchKeeps
<1> QED BY <1>1, <1>2, InvokeStartKeeps, BatchStartsKeeps, InvokeFailsKeeps DEF CallStep

LEMMA BackendKeeps ==
  ASSUME IInv, BackendStep
  PROVE  IInv'
BY AnswerKeeps, LoseKeeps, CompleteKeeps DEF BackendStep

LEMMA SettingsKeep ==
  ASSUME IInv,
         \/ ListenersReady
         \/ \E p \in Plugins : Disable(p) \/ CooldownEnds(p)
         \/ \E ids \in RemoteChoices : SetMachineSettings(ids)
         \/ UNCHANGED vars
  PROVE  IInv'
<1>1. disabled \subseteq Plugins /\ remoteIds \in RemoteChoices
  BY DEF IInv, TypeOK
<1>2. /\ UNCHANGED <<backend, inbox, loading, manualRefreshIds, activeBatchIds, phase, call>>
      /\ disabled' \subseteq Plugins /\ remoteIds' \in RemoteChoices /\ cooling' \subseteq cooling
  BY <1>1 DEF ListenersReady, Disable, CooldownEnds, SetMachineSettings, vars, settings, pluginStates
<1> QED BY <1>2, StaticKeeps

LEMMA StepKeeps ==
  ASSUME IInv, [Next]_vars
  PROVE  IInv'
BY StartActions, CallKeeps, BackendKeeps, SettingsKeep, HandleEventKeeps DEF Next

(***************************************************************************)
(* The inductive invariant holds in every reachable state, for any number  *)
(* of plugins and refreshes and any order of their events.                 *)
(***************************************************************************)
THEOREM Invariant == Spec => []IInv
<1>1. IInv /\ [Next]_vars => IInv'
  BY StepKeeps
<1> QED BY InitEstablishes, <1>1, PTL DEF Spec

(***************************************************************************)
(* The variables stay well typed, and no call looks for a plugin both on   *)
(* the remote machine and here.                                            *)
(***************************************************************************)
THEOREM TypeCorrect == Spec => []TypeOK
<1>1. IInv => TypeOK
  BY DEF IInv
<1> QED BY Invariant, <1>1, PTL

(***************************************************************************)
(* A card that is loading waits for something that is still to come, or    *)
(* its probe panicked, however automatic, manual and remote refreshes      *)
(* overlap.  (use-probe.ts, use-probe-events.ts)                           *)
(***************************************************************************)
THEOREM LoadingEndsSomewhere == Spec => []LoadingHasCause
<1>1. IInv => LoadingHasCause
  BY DEF IInv
<1> QED BY Invariant, <1>1, PTL

(***************************************************************************)
(* The manual mark of a plugin that is never remote does not outlive the   *)
(* refresh it was set for.  (use-probe-refresh-actions.ts)                 *)
(***************************************************************************)
THEOREM ManualMarksEnd == Spec => []LocalManualHasCause
<1>1. IInv => LocalManualHasCause
  BY DEF IInv, ManualIsAnswered, LocalManualHasCause, ManualHasCause, PendingManual
<1> QED BY Invariant, <1>1, PTL

(***************************************************************************)
(* Every result finds its batch active.  (use-probe-events.ts)             *)
(***************************************************************************)
THEOREM ResultsAreTaken == Spec => []NoResultDropped
<1>1. IInv => NoResultDropped
  BY DEF IInv
<1> QED BY Invariant, <1>1, PTL

(***************************************************************************)
(* No manual refresh runs in a cooldown.  (use-probe-refresh-actions.ts)   *)
(***************************************************************************)
THEOREM CooldownIsKept == Spec => []NoRefreshInCooldown
<1>1. IInv => NoRefreshInCooldown
  BY DEF IInv
<1> QED BY Invariant, <1>1, PTL
=============================================================================
