------------------------------ MODULE TrayIcon ------------------------------
(***************************************************************************)
(* The picture in the tray (hooks/app/use-tray-icon.ts).  Every change of  *)
(* what the picture shows sets one debounce timer; when it fires, the      *)
(* picture is rendered and handed to the system in steps that can fail.  A *)
(* timer that fires in the middle of a rendering only leaves a note, and   *)
(* the rendering that ends sets the timer again.                           *)
(*                                                                         *)
(* The hook reads the state through refs that follow each commit; a timer  *)
(* fires after the commit of the change that set it.                       *)
(***************************************************************************)
EXTENDS Naturals, Sequences, SequencesExt

CONSTANTS TrayProviders,  \* provider ids
          EnabledLists,   \* bound: the lists of enabled providers, in order
          MaxChanges      \* bound: changes of what the picture shows
ASSUME TrayAssumption == EnabledLists \subseteq Seq(TrayProviders) /\ MaxChanges \in Nat

VARIABLES tray,      \* the handle: loading, failed, absent (no such tray), up
          gauge,     \* the path of the gauge picture was found
          loaded,    \* the settings were read
          enabled, style, view, data, changes,
          last,      \* lastTrayProviderIdRef, "none" at first
          timer, pending, queued,
          rendering, \* the picture on its way, "none" when nothing is
          drawn      \* the picture in the tray, "broken" after a failure
trayVars == <<tray, gauge, loaded, enabled, style, view, data, changes, last,
              timer, pending, queued, rendering, drawn>>

Styles == {"gauge", "bars", "donut", "provider"}
Views == {"home"} \cup TrayProviders
Picture(s, who, d) == [style |-> s, who |-> who, data |-> d]
Gauge == Picture("gauge", <<>>, 0)
NoPicture == Picture("none", <<>>, 0)
Broken == Picture("broken", <<>>, 0)

(* Three providers are asked in turn: the one whose view is open, the one  *)
(* shown last, the first one enabled.                                      *)
TrayProvider ==
  IF Contains(enabled, view) THEN view
  ELSE IF Contains(enabled, last) THEN last ELSE enabled[1]

(* What the tray should show.                                              *)
Wanted ==
  IF ~loaded \/ enabled = <<>> \/ style = "gauge" THEN Gauge
  ELSE Picture(style, IF style = "bars" THEN enabled ELSE <<TrayProvider>>, data)

TrayInit ==
  /\ tray = "loading" /\ gauge = FALSE /\ loaded = FALSE
  /\ enabled = <<>> /\ style = "gauge" /\ view = "home" /\ data = 0 /\ changes = 0
  /\ last = "none" /\ timer = FALSE /\ pending = FALSE /\ queued = FALSE
  /\ rendering = NoPicture /\ drawn = Gauge

Ready == tray \in {"absent", "up"}
ScheduleTrayIconUpdate == timer' = TRUE

(* The handle is looked up once; without the path of the gauge picture the *)
(* hook goes on, without a handle it stays idle.                           *)
LoadTray ==
  /\ tray = "loading"
  /\ \/ tray' = "failed" /\ UNCHANGED <<gauge, timer>>
     \/ tray' \in {"absent", "up"} /\ gauge' \in BOOLEAN /\ ScheduleTrayIconUpdate
  /\ UNCHANGED <<loaded, enabled, style, view, data, changes, last, pending,
                 queued, rendering, drawn>>

Unread == UNCHANGED <<tray, gauge, last, pending, queued, rendering, drawn>>
LoadSettings ==
  /\ ~loaded /\ loaded' = TRUE
  /\ enabled' \in EnabledLists /\ style' \in Styles
  /\ timer' = (timer \/ Ready)
  /\ UNCHANGED <<view, data, changes>> /\ Unread

(* A view that is opened, a setting that is changed, a probe's result.     *)
Changes ==
  /\ loaded /\ changes < MaxChanges /\ changes' = changes + 1
  /\ \/ /\ view' \in Views \ {view} /\ timer' = (timer \/ Ready)
        /\ UNCHANGED <<enabled, style, data>>
     \/ /\ style' \in Styles \ {style} /\ ScheduleTrayIconUpdate
        /\ UNCHANGED <<enabled, view, data>>
     \/ /\ enabled' \in EnabledLists \ {enabled} /\ ScheduleTrayIconUpdate
        /\ UNCHANGED <<style, view, data>>
     \/ /\ data' = data + 1 /\ ScheduleTrayIconUpdate
        /\ UNCHANGED <<enabled, style, view>>
  /\ UNCHANGED loaded /\ Unread

(* The timer fires: the picture is taken from the state of this moment.    *)
(* Without a handle, or without the path of the gauge, nothing is drawn.   *)
TimerFires ==
  /\ timer /\ timer' = FALSE
  /\ IF pending
     THEN queued' = TRUE /\ UNCHANGED <<pending, last, rendering>>
     ELSE /\ UNCHANGED queued
          /\ IF tray # "up" \/ (Wanted = Gauge /\ ~gauge)
             THEN UNCHANGED <<pending, last, rendering>>
             ELSE /\ pending' = TRUE /\ rendering' = Wanted
                  /\ last' = IF Wanted.style \in {"donut", "provider"} THEN TrayProvider ELSE last
  /\ UNCHANGED <<tray, gauge, loaded, enabled, style, view, data, changes, drawn>>

(* Mutant: the note left during the rendering is thrown away. *)
FinalizeUpdate_Forgets ==
  pending' = FALSE /\ queued' = FALSE /\ UNCHANGED timer

FinalizeUpdate ==
  pending' = FALSE /\ queued' = FALSE /\ timer' = (timer \/ queued)

(* The picture was set, or one of the calls that set it failed.            *)
RenderEnds ==
  /\ rendering # NoPicture /\ rendering' = NoPicture
  /\ drawn' \in {rendering, Broken}
  /\ FinalizeUpdate
  /\ UNCHANGED <<tray, gauge, loaded, enabled, style, view, data, changes, last>>

TrayNext == LoadTray \/ LoadSettings \/ Changes \/ TimerFires \/ RenderEnds
(* A timer fires and a promise of the webview settles.                     *)
TrayFairness == WF_trayVars(TimerFires) /\ WF_trayVars(RenderEnds)
TraySpec == TrayInit /\ [][TrayNext]_trayVars /\ TrayFairness
-----------------------------------------------------------------------------
(* The tray ends up showing the state of the last change, however the      *)
(* changes, the timer and the renderings interleave: unless the last       *)
(* rendering failed, the gauge is wanted and its picture was not found, or *)
(* there is no tray to draw in.                                            *)
LastStateDrawn ==
  <>[](tray = "up" => \/ drawn \in {Wanted, Broken}
                      \/ Wanted = Gauge /\ ~gauge)
=============================================================================
