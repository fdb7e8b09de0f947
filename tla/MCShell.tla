------------------------------- MODULE MCShell -------------------------------
(***************************************************************************)
(* The parts around the probes for TLC: the tray's picture, the update of  *)
(* the application, the local HTTP server, the panel with its shortcut and *)
(* the control plane.  They share nothing, so a behaviour follows one.     *)
(***************************************************************************)
EXTENDS TrayIcon, AppUpdate, LocalHttpServer, DesktopShell, ControlPlane

VARIABLE part
vars == <<part, trayVars, updateVars, httpVars, shellVars, planeVars>>

Lists == {<<>>, <<"p">>, <<"p", "q">>}
Request(h, b, m, p) == [header |-> h, body |-> b, method |-> m, path |-> p]
(* Two pieces are the limit: the third request is too large in its body,   *)
(* the fourth in its headers.                                              *)
Sent == {Request(1, 0, "GET", "provider"), Request(1, 1, "POST", "import"),
         Request(1, 9, "POST", "import"), Request(9, 0, "DELETE", "history")}

NoHttp == /\ conn = [c \in Conns |-> [req |-> Request(1, 0, "GET", "usage"), at |-> "new", read |-> 0, status |-> 0]]
          /\ active = 0 /\ accepting = Idle503
NoShell == /\ pinned = FALSE /\ stayOpen = FALSE /\ keep = FALSE /\ window = Hidden
           /\ grace = FALSE /\ registered = {} /\ managed = None /\ stuck = {}
NoPlane == /\ rows = [k \in Keys |-> 0] /\ locker = Free /\ proc = [p \in Procs |-> "new"]
           /\ post = [r \in Posts |-> [id |-> CHOOSE e \in EventIds : TRUE, valid |-> TRUE, at |-> "new",
                                       told |-> "nothing", proc |-> Free]]

PartsInit ==
  /\ TrayInit /\ UpdateInit
  /\ \/ part \in {"tray", "update"} /\ NoHttp /\ NoShell /\ NoPlane
     \/ part = "http" /\ HttpInit /\ NoShell /\ NoPlane
     \/ part = "panel" /\ ShellInit /\ NoHttp /\ NoPlane
     \/ part = "plane" /\ PlaneInit /\ NoHttp /\ NoShell
PartsNext ==
  /\ UNCHANGED part
  /\ \/ part = "tray" /\ TrayNext /\ UNCHANGED <<updateVars, httpVars, shellVars, planeVars>>
     \/ part = "update" /\ UpdateNext /\ UNCHANGED <<trayVars, httpVars, shellVars, planeVars>>
     \/ part = "http" /\ HttpNext /\ UNCHANGED <<trayVars, updateVars, shellVars, planeVars>>
     \/ part = "panel" /\ ShellNext /\ UNCHANGED <<trayVars, updateVars, httpVars, planeVars>>
     \/ part = "plane" /\ PlaneNext /\ UNCHANGED <<trayVars, updateVars, httpVars, shellVars>>
PartsSpec == PartsInit /\ [][PartsNext]_vars /\ TrayFairness /\ HttpFairness
=============================================================================
