---------------------------- MODULE DesktopShell ---------------------------
(***************************************************************************)
(* The panel window and the global shortcut that toggles it, on Windows    *)
(* and Linux (src-tauri/src: panel/mod.rs, panel/other.rs, shortcuts.rs,   *)
(* and their callers in commands.rs, tray.rs and lib.rs).  Three flags say *)
(* how the window behaves; commands of the webview, the tray, the shortcut *)
(* and the loss of focus act on it one at a time, on the main thread.      *)
(*                                                                         *)
(* The system keeps a shortcut until it is unregistered; `managed' is the  *)
(* one shortcut the program thinks is registered.                          *)
(***************************************************************************)
EXTENDS FiniteSets

CONSTANTS Shortcuts
None == "none"
ASSUME ShortcutsAssumption == None \notin Shortcuts

VARIABLES pinned, stayOpen, keep,       \* the three flags
          window,                       \* what the system shows
          grace,                        \* less than 500 ms since the panel was shown
          registered, managed, stuck    \* stuck: shortcuts whose unregistering failed
shellVars == <<pinned, stayOpen, keep, window, grace, registered, managed, stuck>>

WantsAlwaysOnTop(p, k) == p \/ ~k
ShouldHideOnBlur == ~keep /\ (~pinned \/ ~stayOpen)
IsVisible == window.visible /\ ~window.minimized

(* The window while its panel is configured, shown and hidden.             *)
Configured(w, p, k) == [w EXCEPT !.onTop = WantsAlwaysOnTop(p, k), !.skipTaskbar = p]
Opened(w) == [w EXCEPT !.visible = TRUE, !.minimized = FALSE, !.focused = TRUE]
Dismissed(w) ==
  IF keep THEN [w EXCEPT !.minimized = TRUE, !.focused = FALSE]
  ELSE [w EXCEPT !.visible = FALSE, !.focused = FALSE]

(* The state after startup: the flags were read, a panel that was pinned   *)
(* is shown again, and the stored shortcut was registered or refused.      *)
Hidden == [visible |-> FALSE, minimized |-> FALSE, focused |-> FALSE,
           onTop |-> FALSE, skipTaskbar |-> FALSE]
RegisterInitialShortcut ==
  \E stored \in Shortcuts \cup {None}, ok \in BOOLEAN :
    /\ managed = IF ok THEN stored ELSE None
    /\ registered = {managed} \ {None}
ShellInit ==
  /\ pinned \in BOOLEAN /\ stayOpen \in BOOLEAN /\ keep \in BOOLEAN
  /\ window = IF pinned THEN Configured(Opened(Hidden), TRUE, keep) ELSE Hidden
  /\ grace = FALSE /\ stuck = {} /\ RegisterInitialShortcut

UnchangedShortcut == UNCHANGED <<registered, managed, stuck>>
UnchangedFlags == UNCHANGED <<pinned, stayOpen, keep>>

InitPanel ==
  /\ window' = Configured(window, pinned, keep)
  /\ UnchangedFlags /\ UNCHANGED grace /\ UnchangedShortcut

(* Only an open panel has a control that hides it.                         *)
HidePanel ==
  /\ IsVisible /\ window' = Dismissed(window)
  /\ UnchangedFlags /\ UNCHANGED grace /\ UnchangedShortcut

ShowPanel ==
  /\ window' = Opened(Configured(window, pinned, keep)) /\ grace' = TRUE
  /\ UnchangedFlags /\ UnchangedShortcut

(* A click on the tray, or the shortcut.                                   *)
TogglePanel == IF IsVisible THEN HidePanel ELSE ShowPanel
ShortcutPressed == registered # {} /\ TogglePanel

ApplyPinned(p) ==
  /\ pinned' = p
  /\ window' = Configured(IF p THEN Opened(window) ELSE window, p, keep)
  /\ UNCHANGED <<stayOpen, keep, grace>> /\ UnchangedShortcut

SetStayOpenWhenPinned(s) ==
  stayOpen' = s /\ UNCHANGED <<pinned, keep, window, grace>> /\ UnchangedShortcut

(* Mutant: the window is left as it is when the setting changes. *)
SetKeepOnTaskbar_FlagOnly(k) ==
  /\ keep' = k
  /\ UNCHANGED <<window, pinned, stayOpen, grace>> /\ UnchangedShortcut

SetKeepOnTaskbar(k) ==
  /\ keep' = k
  /\ LET w == Configured(window, pinned, k)
     IN window' = IF ~k /\ w.minimized THEN [w EXCEPT !.visible = FALSE, !.focused = FALSE] ELSE w
  /\ UNCHANGED <<pinned, stayOpen, grace>> /\ UnchangedShortcut

(* The window loses the focus; just after it was shown that means nothing. *)
Blur ==
  /\ window.focused
  /\ window' = IF ShouldHideOnBlur /\ ~grace THEN Dismissed(window)
               ELSE [window EXCEPT !.focused = FALSE]
  /\ UnchangedFlags /\ UNCHANGED grace /\ UnchangedShortcut
GraceEnds ==
  grace /\ grace' = FALSE /\ UNCHANGED window /\ UnchangedFlags /\ UnchangedShortcut
Focus ==
  /\ IsVisible /\ ~window.focused /\ window' = [window EXCEPT !.focused = TRUE]
  /\ UnchangedFlags /\ UNCHANGED grace /\ UnchangedShortcut

(* The managed shortcut is unregistered, which may fail, and the new one   *)
(* registered, which fails when it is refused or registered already: then  *)
(* what is managed is none, or the old one that could not be unregistered. *)
(* Mutant: the slot keeps the old shortcut until the new one is there. *)
AfterUnregister_Late(ok) == managed

AfterUnregister(ok) == IF ok THEN None ELSE managed
UpdateGlobalShortcut(s) ==
  /\ managed # s
  /\ \E unregistered \in IF managed = None THEN {TRUE} ELSE BOOLEAN, accepted \in BOOLEAN :
       LET left == IF unregistered THEN registered \ {managed} ELSE registered IN
       /\ stuck' = IF unregistered THEN stuck \ {managed} ELSE stuck \cup {managed}
       /\ IF s = None
          THEN registered' = left /\ managed' = None
          ELSE IF accepted /\ s \notin left
          THEN registered' = left \cup {s} /\ managed' = s
          ELSE registered' = left /\ managed' = AfterUnregister(unregistered)
  /\ UnchangedFlags /\ UNCHANGED <<window, grace>>

ShellNext ==
  \/ InitPanel \/ HidePanel \/ ShowPanel \/ TogglePanel \/ ShortcutPressed
  \/ \E b \in BOOLEAN : ApplyPinned(b) \/ SetStayOpenWhenPinned(b) \/ SetKeepOnTaskbar(b)
  \/ Blur \/ GraceEnds \/ Focus
  \/ \E s \in Shortcuts \cup {None} : UpdateGlobalShortcut(s)

ShellSpec == ShellInit /\ [][ShellNext]_shellVars
-----------------------------------------------------------------------------
(* The system listens to the one shortcut the program manages and to no    *)
(* other, whichever registrations fail; a shortcut that could not be       *)
(* unregistered is the one exception.                                      *)
RegisteredIsManaged ==
  /\ registered \ stuck \subseteq {managed}
  /\ managed # None => managed \in registered

(* A panel on the screen or in the taskbar behaves as the flags say now,   *)
(* in whatever order they were set and the panel was opened: it floats if  *)
(* it should, and is minimized to a button only while the setting asks for *)
(* one.                                                                    *)
WindowFollowsFlags ==
  window.visible =>
    /\ window.onTop = WantsAlwaysOnTop(pinned, keep) /\ window.skipTaskbar = pinned
    /\ window.minimized => keep
=============================================================================
