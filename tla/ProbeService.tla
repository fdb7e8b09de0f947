----------------------------- MODULE ProbeService -----------------------------
(***************************************************************************)
(* What start_probe_batch promises the webview, without queues or worker   *)
(* threads: every plugin that is asked for is answered at most once, one   *)
(* that is not answered was lost to a panic, and the batch is reported     *)
(* complete once, when nothing of it is left to come.                      *)
(***************************************************************************)
EXTENDS FiniteSets

CONSTANTS
  Plugins,   \* the loaded plugins
  Batches    \* batch ids, each used for one call

VARIABLES
  started,    \* the batches that were asked for
  asked,      \* what each of them asks for
  answered,   \* the plugins a probe:result was emitted for
  lost,       \* the plugins whose probe panicked
  complete    \* the batches a probe:batch-complete was emitted for

serviceVars == <<started, asked, answered, lost, complete>>

Settled(b) == answered[b] \cup lost[b]
Open(b) == asked[b] \ Settled(b)

Init ==
  /\ started = {}
  /\ asked = [b \in Batches |-> {}]
  /\ answered = [b \in Batches |-> {}]
  /\ lost = [b \in Batches |-> {}]
  /\ complete = {}

(* An empty selection completes on the spot. *)
Ask(b, S) ==
  /\ b \notin started
  /\ started' = started \cup {b}
  /\ asked' = [asked EXCEPT ![b] = S]
  /\ complete' = IF S = {} THEN complete \cup {b} ELSE complete
  /\ UNCHANGED <<answered, lost>>

Answer(b, p) ==
  /\ p \in Open(b)
  /\ answered' = [answered EXCEPT ![b] = @ \cup {p}]
  /\ UNCHANGED <<started, asked, lost, complete>>

Lose(b, p) ==
  /\ p \in Open(b)
  /\ lost' = [lost EXCEPT ![b] = @ \cup {p}]
  /\ UNCHANGED <<started, asked, answered, complete>>

Complete(b) ==
  /\ b \in started \ complete
  /\ Open(b) = {}
  /\ complete' = complete \cup {b}
  /\ UNCHANGED <<started, asked, answered, lost>>

Next ==
  \E b \in Batches :
    \/ \E S \in SUBSET Plugins : Ask(b, S)
    \/ \E p \in Plugins : Answer(b, p) \/ Lose(b, p)
    \/ Complete(b)

(* Probes end, and their batch with them. *)
Fairness ==
  \A b \in Batches :
    /\ WF_serviceVars(Complete(b))
    /\ \A p \in Plugins : WF_serviceVars(Answer(b, p) \/ Lose(b, p))

Spec == Init /\ [][Next]_serviceVars
FairSpec == Spec /\ Fairness
=============================================================================
