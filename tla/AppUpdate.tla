------------------------------ MODULE AppUpdate -----------------------------
(***************************************************************************)
(* The update of the application (hooks/use-app-update.ts).  A check runs  *)
(* at the start, every 15 minutes and when the user asks; it looks for an  *)
(* update and downloads it, and the user may then install it.  What keeps  *)
(* the three apart are the flags of inFlightRef and the status.            *)
(*                                                                         *)
(* The updater reports the end of the transfer (Finished) before the call  *)
(* download() returns: it checks the signature in between, and may fail.   *)
(* `held' is the update in updateRef, by number; whole are the updates the *)
(* updater has downloaded and verified.                                    *)
(***************************************************************************)
EXTENDS Naturals

CONSTANT MaxUpdates  \* bound: checks that find an update
ASSUME UpdateAssumption == MaxUpdates \in Nat

VARIABLES status, checking, downloading, installing, held, whole,
          idleTimer,  \* the timer that clears "up-to-date"
          install     \* where install() stands, and with which update
updateVars == <<status, checking, downloading, installing, held, whole, idleTimer, install>>

Statuses == {"idle", "checking", "up-to-date", "downloading", "installing", "ready", "error"}
NoInstall == [step |-> "none", of |-> 0]

UpdateInit ==
  /\ status = "idle" /\ checking = FALSE /\ downloading = FALSE /\ installing = FALSE
  /\ held = 0 /\ whole = {} /\ idleTimer = FALSE /\ install = NoInstall

InFlight == checking \/ downloading \/ installing

(* A check: at the start, from the interval, from the user.                *)
CheckForUpdates ==
  /\ ~InFlight /\ status # "ready"
  /\ idleTimer' = FALSE /\ checking' = TRUE /\ status' = "checking"
  /\ UNCHANGED <<downloading, installing, held, whole, install>>

(* check() returns: nothing new, an update whose download starts, an error. *)
Checked ==
  /\ checking /\ checking' = FALSE
  /\ \/ status' = "up-to-date" /\ idleTimer' = TRUE /\ UNCHANGED <<downloading, held>>
     \/ /\ held < MaxUpdates /\ held' = held + 1
        /\ downloading' = TRUE /\ status' = "downloading" /\ UNCHANGED idleTimer
     \/ status' = "error" /\ UNCHANGED <<downloading, held, idleTimer>>
  /\ UNCHANGED <<installing, whole, install>>

IdleTimerFires ==
  /\ idleTimer /\ idleTimer' = FALSE /\ status' = "idle"
  /\ UNCHANGED <<checking, downloading, installing, held, whole, install>>

(* An event of the download: Started and Progress, Finished.               *)
DownloadEvent ==
  /\ downloading
  /\ \/ status' = "downloading" /\ status # "ready"
     \/ status' = "ready"
  /\ UNCHANGED <<checking, downloading, installing, held, whole, idleTimer, install>>

Downloaded ==
  /\ downloading /\ downloading' = FALSE
  /\ \/ status' = "ready" /\ whole' = whole \cup {held}
     \/ status' = "error" /\ UNCHANGED whole
  /\ UNCHANGED <<checking, installing, held, idleTimer, install>>

(* Mutant: the button waits for the status and not for the download. *)
MayInstall_StatusOnly == held # 0 /\ status = "ready" /\ ~installing

MayInstall == held # 0 /\ status = "ready" /\ ~installing /\ ~downloading

TriggerInstall ==
  /\ MayInstall
  /\ installing' = TRUE /\ status' = "installing"
  /\ install' = [step |-> "install", of |-> held]
  /\ UNCHANGED <<checking, downloading, held, whole, idleTimer>>

(* install() and then relaunch() return or fail.                           *)
Installed ==
  /\ install.step = "install" /\ install' = [install EXCEPT !.step = "relaunch"]
  /\ UNCHANGED <<status, checking, downloading, installing, held, whole, idleTimer>>
InstallEnds ==
  /\ \/ install.step \in {"install", "relaunch"} /\ status' = "error"
     \/ install.step = "relaunch" /\ status' = "idle"
  /\ installing' = FALSE /\ install' = NoInstall
  /\ UNCHANGED <<checking, downloading, held, whole, idleTimer>>

UpdateNext ==
  \/ CheckForUpdates \/ Checked \/ IdleTimerFires \/ DownloadEvent \/ Downloaded
  \/ TriggerInstall \/ Installed \/ InstallEnds

UpdateSpec == UpdateInit /\ [][UpdateNext]_updateVars
-----------------------------------------------------------------------------
(* What is installed was downloaded to its end and verified, though the    *)
(* status says "ready" before that; and while it is installed no check     *)
(* puts another update in its place.                                       *)
InstallOnlyComplete ==
  install.step # "none" => install.of \in whole /\ held = install.of
=============================================================================
