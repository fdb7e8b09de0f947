----------------------------- MODULE ShellProofs -----------------------------
(***************************************************************************)
(* Proofs about the update of the application, the panel with its          *)
(* shortcut, the control plane's rows and the local HTTP server, for any   *)
(* number of updates, shortcuts, processes, requests and event ids, any    *)
(* finite set of connections and any limits.                               *)
(***************************************************************************)
EXTENDS AppUpdate, DesktopShell, ControlPlane, LocalHttpServer, FiniteSetTheorems, TLAPS

(***************************************************************************)
(* The inductive invariant of the update.  InstallOnlyComplete alone is    *)
(* not inductive: that "ready" without a download in flight means a whole  *)
(* update, and that the three flags exclude each other, carry it.          *)
(***************************************************************************)
UpdateInv ==
  /\ checking \in BOOLEAN /\ downloading \in BOOLEAN /\ installing \in BOOLEAN
  /\ held \in Nat /\ install \in [step : {"none", "install", "relaunch"}, of : Nat]
  /\ checking => ~downloading /\ ~installing
  /\ downloading => ~installing
  /\ status = "ready" /\ ~downloading => held \in whole /\ ~checking
  /\ install.step # "none" => installing /\ install.of \in whole /\ held = install.of

LEMMA UpdateStep ==
  ASSUME UpdateInv, UpdateNext
  PROVE  UpdateInv'
<1>1. CASE CheckForUpdates
  BY <1>1 DEF UpdateInv, CheckForUpdates, InFlight
<1>2. CASE Checked
  <2>1. CASE status' \in {"up-to-date", "error"} /\ UNCHANGED <<downloading, held>>
    BY <1>2, <2>1 DEF UpdateInv, Checked
  <2>2. CASE held' = held + 1 /\ downloading' = TRUE
    <3>1. held' \in Nat
      BY <2>2 DEF UpdateInv
    <3> QED BY <1>2, <2>2, <3>1 DEF UpdateInv, Checked
  <2> QED BY <1>2, <2>1, <2>2 DEF Checked
<1>3. CASE IdleTimerFires
  BY <1>3 DEF UpdateInv, IdleTimerFires
<1>4. CASE DownloadEvent
  BY <1>4 DEF UpdateInv, DownloadEvent
<1>5. CASE Downloaded
  BY <1>5 DEF UpdateInv, Downloaded
<1>6. CASE TriggerInstall
  BY <1>6 DEF UpdateInv, TriggerInstall, MayInstall
<1>7. CASE Installed
  BY <1>7 DEF UpdateInv, Installed
<1>8. CASE InstallEnds
  BY <1>8 DEF UpdateInv, InstallEnds, NoInstall
<1> QED BY <1>1, <1>2, <1>3, <1>4, <1>5, <1>6, <1>7, <1>8 DEF UpdateNext

(***************************************************************************)
(* Only an update that was downloaded to its end and verified is installed *)
(* (use-app-update.ts:121).                                                *)
(***************************************************************************)
THEOREM CompleteUpdates == UpdateSpec => []InstallOnlyComplete
<1>1. UpdateInit => UpdateInv
  <2>1. /\ 0 \in Nat /\ NoInstall.step = "none"
        /\ NoInstall \in [step : {"none", "install", "relaunch"}, of : Nat]
    BY DEF NoInstall
  <2> QED BY <2>1, Zenon DEF UpdateInit, UpdateInv
<1>2. UpdateInv /\ [UpdateNext]_updateVars => UpdateInv'
  <2>1. ASSUME UpdateInv, UNCHANGED updateVars PROVE UpdateInv'
    BY <2>1 DEF updateVars, UpdateInv
  <2> QED BY <2>1, UpdateStep
<1>3. UpdateInv => InstallOnlyComplete
  BY DEF UpdateInv, InstallOnlyComplete
<1> QED BY <1>1, <1>2, <1>3, PTL DEF UpdateSpec
-----------------------------------------------------------------------------
WindowStates == [visible : BOOLEAN, minimized : BOOLEAN, focused : BOOLEAN,
                 onTop : BOOLEAN, skipTaskbar : BOOLEAN]
ShellInv ==
  /\ pinned \in BOOLEAN /\ stayOpen \in BOOLEAN /\ keep \in BOOLEAN
  /\ window \in WindowStates
  /\ RegisteredIsManaged /\ WindowFollowsFlags

(***************************************************************************)
(* What the steps of the panel have in common: they leave the shortcuts    *)
(* alone.                                                                  *)
(***************************************************************************)
LEMMA PanelKeepsShortcuts ==
  ASSUME RegisteredIsManaged, UnchangedShortcut
  PROVE  RegisteredIsManaged'
BY DEF RegisteredIsManaged, UnchangedShortcut

LEMMA HideKeepsInv ==
  ASSUME ShellInv, HidePanel
  PROVE  ShellInv'
<1>1. RegisteredIsManaged'
  BY PanelKeepsShortcuts DEF ShellInv, HidePanel
<1>2. UNCHANGED <<pinned, stayOpen, keep>> /\ window' = Dismissed(window)
  BY DEF HidePanel, UnchangedFlags
<1>3. window' \in WindowStates /\ WindowFollowsFlags'
  BY <1>2 DEF ShellInv, WindowStates, WindowFollowsFlags, Dismissed, WantsAlwaysOnTop
<1> QED BY <1>1, <1>2, <1>3 DEF ShellInv

LEMMA ShowKeepsInv ==
  ASSUME ShellInv, ShowPanel
  PROVE  ShellInv'
<1>1. RegisteredIsManaged'
  BY PanelKeepsShortcuts DEF ShellInv, ShowPanel
<1>2. UNCHANGED <<pinned, stayOpen, keep>> /\ window' = Opened(Configured(window, pinned, keep))
  BY DEF ShowPanel, UnchangedFlags
<1>3. window' \in WindowStates /\ WindowFollowsFlags'
  BY <1>2 DEF ShellInv, WindowStates, WindowFollowsFlags, Opened, Configured, WantsAlwaysOnTop
<1> QED BY <1>1, <1>2, <1>3 DEF ShellInv

LEMMA ShellStep ==
  ASSUME ShellInv, ShellNext
  PROVE  ShellInv'
<1>1. CASE InitPanel
  <2>1. RegisteredIsManaged'
    BY <1>1, PanelKeepsShortcuts DEF ShellInv, InitPanel
  <2>2. window' \in WindowStates /\ WindowFollowsFlags'
    BY <1>1 DEF ShellInv, InitPanel, UnchangedFlags, WindowStates, WindowFollowsFlags,
                Configured, WantsAlwaysOnTop
  <2> QED BY <1>1, <2>1, <2>2 DEF ShellInv, InitPanel, UnchangedFlags
<1>2. CASE HidePanel \/ ShowPanel \/ TogglePanel \/ ShortcutPressed
  BY <1>2, HideKeepsInv, ShowKeepsInv DEF TogglePanel, ShortcutPressed
<1>3. ASSUME NEW b \in BOOLEAN, ApplyPinned(b) PROVE ShellInv'
  <2>1. RegisteredIsManaged'
    BY <1>3, PanelKeepsShortcuts DEF ShellInv, ApplyPinned
  <2>2. window' \in WindowStates /\ WindowFollowsFlags'
    BY <1>3 DEF ShellInv, ApplyPinned, WindowStates, WindowFollowsFlags,
                Configured, Opened, WantsAlwaysOnTop
  <2> QED BY <1>3, <2>1, <2>2 DEF ShellInv, ApplyPinned
<1>4. ASSUME NEW b \in BOOLEAN, SetStayOpenWhenPinned(b) PROVE ShellInv'
  BY <1>4 DEF ShellInv, SetStayOpenWhenPinned, WindowFollowsFlags, RegisteredIsManaged,
              UnchangedShortcut
<1>5. ASSUME NEW b \in BOOLEAN, SetKeepOnTaskbar(b) PROVE ShellInv'
  <2>1. RegisteredIsManaged'
    BY <1>5, PanelKeepsShortcuts DEF ShellInv, SetKeepOnTaskbar
  <2>2. window' \in WindowStates /\ WindowFollowsFlags'
    BY <1>5 DEF ShellInv, SetKeepOnTaskbar, WindowStates, WindowFollowsFlags,
                Configured, WantsAlwaysOnTop
  <2> QED BY <1>5, <2>1, <2>2 DEF ShellInv, SetKeepOnTaskbar
<1>6. CASE Blur \/ GraceEnds \/ Focus
  <2>1. RegisteredIsManaged'
    BY <1>6, PanelKeepsShortcuts DEF ShellInv, Blur, GraceEnds, Focus
  <2>2. window' \in WindowStates /\ WindowFollowsFlags'
    BY <1>6 DEF ShellInv, Blur, GraceEnds, Focus, UnchangedFlags, WindowStates,
                WindowFollowsFlags, Dismissed, WantsAlwaysOnTop
  <2> QED BY <1>6, <2>1, <2>2 DEF ShellInv, Blur, GraceEnds, Focus, UnchangedFlags
<1>7. ASSUME NEW s \in Shortcuts \cup {None}, UpdateGlobalShortcut(s) PROVE ShellInv'
  <2>1. UNCHANGED <<pinned, stayOpen, keep, window>>
    BY <1>7 DEF UpdateGlobalShortcut, UnchangedFlags
  <2>2. RegisteredIsManaged'
    BY <1>7, ShortcutsAssumption
    DEF ShellInv, RegisteredIsManaged, UpdateGlobalShortcut, AfterUnregister
  <2> QED BY <2>1, <2>2 DEF ShellInv, WindowFollowsFlags
<1> QED BY <1>1, <1>2, <1>3, <1>4, <1>5, <1>6, <1>7 DEF ShellNext

THEOREM ShellInvariant == ShellSpec => []ShellInv
<1>1. ASSUME ShellInit PROVE ShellInv
  <2>1. RegisteredIsManaged
    BY <1>1 DEF ShellInit, RegisterInitialShortcut, RegisteredIsManaged
  <2>2. Hidden \in WindowStates /\ ~Hidden.visible
    BY DEF Hidden, WindowStates
  <2>3. CASE pinned = FALSE
    BY <1>1, <2>1, <2>2, <2>3 DEF ShellInit, ShellInv, WindowFollowsFlags
  <2>4. CASE pinned = TRUE
    <3>1. window = [visible |-> TRUE, minimized |-> FALSE, focused |-> TRUE,
                    onTop |-> TRUE, skipTaskbar |-> TRUE]
      BY <1>1, <2>4 DEF ShellInit, Configured, Opened, Hidden, WantsAlwaysOnTop
    <3>2. WantsAlwaysOnTop(pinned, keep) = TRUE
      BY <2>4 DEF WantsAlwaysOnTop
    <3>3. window \in WindowStates /\ WindowFollowsFlags
      BY <2>4, <3>1, <3>2 DEF WindowFollowsFlags, WindowStates
    <3> QED BY <1>1, <2>1, <3>3 DEF ShellInit, ShellInv
  <2> QED BY <1>1, <2>3, <2>4 DEF ShellInit
<1>2. ShellInv /\ [ShellNext]_shellVars => ShellInv'
  <2>1. ASSUME ShellInv, UNCHANGED shellVars PROVE ShellInv'
    BY <2>1 DEF shellVars, ShellInv, RegisteredIsManaged, WindowFollowsFlags
  <2> QED BY <2>1, ShellStep
<1> QED BY <1>1, <1>2, PTL DEF ShellSpec

(***************************************************************************)
(* The system listens to the managed shortcut and to no other but those it *)
(* refused to give up (shortcuts.rs:30-83).                                *)
(***************************************************************************)
THEOREM OneShortcut == ShellSpec => []RegisteredIsManaged
<1>1. ShellInv => RegisteredIsManaged
  BY DEF ShellInv
<1> QED BY <1>1, ShellInvariant, PTL

(***************************************************************************)
(* A panel that is open or minimized follows the flags (panel/other.rs).   *)
(***************************************************************************)
THEOREM PanelFollowsFlags == ShellSpec => []WindowFollowsFlags
<1>1. ShellInv => WindowFollowsFlags
  BY DEF ShellInv
<1> QED BY <1>1, ShellInvariant, PTL
-----------------------------------------------------------------------------
PostStates == [id : EventIds, valid : BOOLEAN, proc : Procs \cup {Free},
               at : {"new", "open", "added", "committed", "done"},
               told : {"nothing", "invalid", "duplicate", "recorded", "error"}]
PlaneTypeOK ==
  /\ rows \in [Keys -> Nat] /\ locker \in Procs \cup Posts \cup {Free}
  /\ proc \in [Procs -> {"new", "checked", "seeding", "up", "dead"}]
  /\ post \in [Posts -> PostStates]

Recorded(r) == post[r].at = "committed" \/ post[r].told = "recorded"

(***************************************************************************)
(* The inductive invariant of the rows.  A transaction that has inserted   *)
(* its row holds the lock until it commits, so the row is still absent at  *)
(* the commit; and a request that committed already counts as recorded.    *)
(***************************************************************************)
PlaneInv ==
  /\ PlaneTypeOK
  /\ \A k \in Keys : rows[k] <= 1
  /\ \A p \in Procs : proc[p] = "seeding" => locker = p /\ rows[Demo] = 0
  /\ \A r \in Posts : /\ post[r].at = "added" => locker = r /\ rows[post[r].id] = 0
                      /\ post[r].at # "done" => post[r].told = "nothing"
                      /\ Recorded(r) \/ post[r].told = "duplicate" => rows[post[r].id] = 1
  /\ \A q, r \in Posts : Recorded(q) /\ Recorded(r) /\ post[q].id = post[r].id => q = r

(***************************************************************************)
(* One request moves on, no row changes and nobody is newly recorded.      *)
(***************************************************************************)
LEMMA MoveKeepsInv ==
  ASSUME PlaneInv, PlaneTypeOK', NEW r \in Posts, UNCHANGED <<rows, proc>>,
         \A q \in Posts \ {r} : post'[q] = post[q] /\ (post[q].at = "added" => locker' = q),
         \A p \in Procs : proc[p] = "seeding" => locker' = p,
         post'[r].id = post[r].id,
         post'[r].at = "added" => locker' = r /\ rows[post[r].id] = 0,
         post'[r].at # "done" => post'[r].told = "nothing",
         post'[r].told = "duplicate" => rows[post[r].id] = 1,
         Recorded(r)' => Recorded(r)
  PROVE  PlaneInv'
<1>1. \A q \in Posts : post'[q].id = post[q].id /\ (Recorded(q)' => Recorded(q))
  BY DEF Recorded
<1>2. \A q \in Posts : Recorded(q)' \/ post'[q].told = "duplicate" => rows[post[q].id] = 1
  BY <1>1 DEF PlaneInv
<1>3. \A q \in Posts : /\ post'[q].at = "added" => locker' = q /\ rows[post[q].id] = 0
                       /\ post'[q].at # "done" => post'[q].told = "nothing"
  BY DEF PlaneInv
<1>4. \A q, s \in Posts : Recorded(q)' /\ Recorded(s)' /\ post'[q].id = post'[s].id => q = s
  BY <1>1 DEF PlaneInv
<1> QED BY <1>1, <1>2, <1>3, <1>4 DEF PlaneInv

LEMMA PlaneStep ==
  ASSUME PlaneInv, PlaneNext
  PROVE  PlaneInv'
<1>0. /\ PlaneTypeOK
      /\ \A p \in Procs : p \notin Posts /\ p # Free
      /\ \A r \in Posts : r \notin Procs /\ r # Free
      /\ Demo \in Keys /\ \A r \in Posts : post[r].id \in Keys /\ post[r].id # Demo
  BY PlaneAssumption DEF PlaneInv, PlaneTypeOK, PostStates, Keys, Demo, Free
<1>1. ASSUME NEW p \in Procs, Initialize(p) PROVE PlaneInv'
  BY <1>0, <1>1 DEF PlaneInv, PlaneTypeOK, Initialize, Recorded
<1>2. ASSUME NEW p \in Procs, Seed(p) PROVE PlaneInv'
  <2>1. PlaneTypeOK' /\ UNCHANGED <<rows, post>> /\ locker = Free
    BY <1>0, <1>2 DEF Seed, PlaneTypeOK
  <2>2. \A r \in Posts : post[r].at # "added"
    BY <1>0, <2>1 DEF PlaneInv
  <2>3. \A q \in Procs : proc'[q] = "seeding" => locker' = q /\ rows[Demo] = 0
    <3> SUFFICES ASSUME NEW q \in Procs, proc'[q] = "seeding"
                 PROVE  locker' = q /\ rows[Demo] = 0
      OBVIOUS
    <3>1. proc[q] # "seeding"
      BY <1>0, <2>1 DEF PlaneInv
    <3>2. q = p /\ ~Taken(Demo) /\ locker' = p
      BY <1>0, <1>2, <3>1 DEF Seed, PlaneTypeOK
    <3> QED BY <1>0, <3>2 DEF Taken, PlaneTypeOK
  <2> QED BY <2>1, <2>2, <2>3 DEF PlaneInv, Recorded
<1>3. ASSUME NEW p \in Procs, SeedCommit(p) PROVE PlaneInv'
  <2>0. proc[p] = "seeding" /\ locker = p /\ rows[Demo] = 0
    BY <1>3 DEF SeedCommit, PlaneInv
  <2>1. /\ rows' = [rows EXCEPT ![Demo] = 1] /\ proc' = [proc EXCEPT ![p] = "up"]
        /\ locker' = Free /\ UNCHANGED post
    BY <1>0, <1>3, <2>0 DEF SeedCommit, PlaneTypeOK
  <2>2. PlaneTypeOK'
    BY <1>0, <2>1 DEF PlaneTypeOK
  <2>3. \A k \in Keys : rows'[k] <= 1 /\ (k # Demo => rows'[k] = rows[k])
    BY <1>0, <2>0, <2>1 DEF PlaneInv, PlaneTypeOK
  <2>4. \A q \in Procs : proc'[q] # "seeding"
    BY <1>0, <2>0, <2>1 DEF PlaneInv, PlaneTypeOK
  <2>5. \A r \in Posts : post[r].at # "added"
    BY <1>0, <2>0 DEF PlaneInv
  <2> QED BY <1>0, <2>1, <2>2, <2>3, <2>4, <2>5 DEF PlaneInv, Recorded
<1>4. ASSUME NEW p \in Procs, Dies(p) PROVE PlaneInv'
  <2> DEFINE gone(r) == post[r].proc = p /\ post[r].at # "done"
  <2>1. /\ UNCHANGED rows /\ proc' = [proc EXCEPT ![p] = "dead"]
        /\ post' = [r \in Posts |-> IF gone(r) THEN [post[r] EXCEPT !.at = "done", !.told = "error"]
                                    ELSE post[r]]
        /\ locker' \in {locker, Free}
        /\ locker' # locker => locker = p \/ \E r \in Posts : locker = r /\ post[r].proc = p
    BY <1>4 DEF Dies
  <2>2. PlaneTypeOK'
    BY <1>0, <2>1, ZenonT(60) DEF PlaneTypeOK, PostStates
  <2>3. \A r \in Posts : /\ post'[r].id = post[r].id
                         /\ gone(r) => post'[r].at = "done" /\ post'[r].told = "error"
                         /\ ~gone(r) => post'[r] = post[r]
    BY <1>0, <2>1 DEF PlaneTypeOK, PostStates
  <2>4. \A q \in Procs : proc'[q] = "seeding" => locker' = q /\ rows[Demo] = 0
    BY <1>0, <2>1 DEF PlaneInv, PlaneTypeOK
  <2>5. \A r \in Posts : post'[r].at = "added" => locker' = r /\ rows[post[r].id] = 0
    <3> SUFFICES ASSUME NEW r \in Posts, post'[r].at = "added"
                 PROVE  locker' = r /\ rows[post[r].id] = 0
      OBVIOUS
    <3>1. ~gone(r) /\ post[r].at = "added"
      BY <2>3
    <3>2. locker = r /\ rows[post[r].id] = 0 /\ post[r].proc # p
      BY <3>1 DEF PlaneInv
    <3> QED BY <1>0, <2>1, <3>2
  <2>6. \A r \in Posts : /\ post'[r].at # "done" => post'[r].told = "nothing"
                         /\ Recorded(r)' => Recorded(r)
                         /\ post'[r].told = "duplicate" => post[r].told = "duplicate"
    BY <2>3 DEF PlaneInv, Recorded
  <2>7. \A r \in Posts : Recorded(r)' \/ post'[r].told = "duplicate" => rows[post[r].id] = 1
    BY <2>6 DEF PlaneInv
  <2>8. \A q, r \in Posts : Recorded(q)' /\ Recorded(r)' /\ post'[q].id = post'[r].id => q = r
    BY <2>3, <2>6 DEF PlaneInv
  <2>9. \A r \in Posts : /\ post'[r].at = "added" => locker' = r /\ rows'[post'[r].id] = 0
                         /\ post'[r].at # "done" => post'[r].told = "nothing"
                         /\ Recorded(r)' \/ post'[r].told = "duplicate" => rows'[post'[r].id] = 1
    <3>1. rows' = rows /\ \A r \in Posts : post'[r].id = post[r].id
      BY <2>1, <2>3
    <3> QED BY <3>1, <2>5, <2>6, <2>7
  <2> HIDE DEF gone
  <2> QED BY <2>1, <2>2, <2>4, <2>8, <2>9 DEF PlaneInv
<1>5. ASSUME NEW r \in Posts, NEW p \in Procs, Receive(r, p) PROVE PlaneInv'
  <2>1. PlaneTypeOK' /\ UNCHANGED <<rows, proc, locker>>
    BY <1>0, <1>5 DEF Receive, PlaneTypeOK, PostStates
  <2>2. /\ \A q \in Posts \ {r} : post'[q] = post[q]
        /\ post'[r].id = post[r].id
        /\ \/ post'[r].at = "open" /\ post'[r].told = "nothing"
           \/ post'[r].at = "done" /\ post'[r].told = "invalid"
    BY <1>0, <1>5 DEF Receive, PlaneTypeOK, PostStates
  <2>3. ~Recorded(r)'
    BY <2>2 DEF Recorded
  <2> QED BY <2>1, <2>2, <2>3, MoveKeepsInv DEF PlaneInv
<1>6. ASSUME NEW r \in Posts, AddActionEvent(r) PROVE PlaneInv'
  <2>1. /\ post[r].at = "open" /\ locker = Free /\ UNCHANGED <<rows, proc>>
    BY <1>6 DEF AddActionEvent
  <2>0. /\ \A q \in Posts : post[q].at # "added"
        /\ \A p \in Procs : proc[p] # "seeding"
    <3>1. ASSUME NEW q \in Posts PROVE post[q].at # "added"
      BY <1>0, <2>1 DEF PlaneInv
    <3>2. ASSUME NEW p \in Procs PROVE proc[p] # "seeding"
      BY <1>0, <2>1 DEF PlaneInv
    <3> QED BY <3>1, <3>2
  <2>2. /\ post'[r].id = post[r].id /\ \A q \in Posts \ {r} : post'[q] = post[q]
        /\ post' \in [Posts -> PostStates]
    <3>1. PICK a \in {"added", "done"}, t \in {"nothing", "duplicate"} :
            post' = [post EXCEPT ![r].at = a, ![r].told = t]
      BY <1>6 DEF AddActionEvent, Moves
    <3>2. post[r] \in PostStates
      BY <1>0 DEF PlaneTypeOK
    <3>3. [post[r] EXCEPT !.at = a, !.told = t] \in PostStates
      BY <3>2 DEF PostStates
    <3>4. post' = [post EXCEPT ![r] = [post[r] EXCEPT !.at = a, !.told = t]]
      BY <3>1
    <3>5. post' \in [Posts -> PostStates]
      BY <1>0, <3>3, <3>4 DEF PlaneTypeOK
    <3>6. post'[r].id = post[r].id
      BY <1>0, <3>2, <3>4 DEF PlaneTypeOK, PostStates
    <3> QED BY <1>0, <3>4, <3>5, <3>6 DEF PlaneTypeOK
  <2>3. PlaneTypeOK'
    BY <1>0, <1>6, <2>1, <2>2 DEF AddActionEvent, PlaneTypeOK
  <2>4. CASE Taken(post[r].id)
    <3>1. post'[r].at = "done" /\ post'[r].told = "duplicate" /\ rows[post[r].id] = 1
      BY <1>0, <1>6, <2>4 DEF AddActionEvent, Moves, PlaneTypeOK, PostStates, Taken, PlaneInv
    <3>2. ~Recorded(r)'
      BY <3>1 DEF Recorded
    <3> QED BY <2>0, <2>1, <2>2, <2>3, <3>1, <3>2, MoveKeepsInv
  <2>5. CASE ~Taken(post[r].id)
    <3>1. /\ post'[r].at = "added" /\ post'[r].told = "nothing" /\ locker' = r
          /\ rows[post[r].id] = 0
      BY <1>0, <1>6, <2>5 DEF AddActionEvent, Moves, PlaneTypeOK, PostStates, Taken
    <3>2. ~Recorded(r)'
      BY <3>1 DEF Recorded
    <3> QED BY <2>0, <2>1, <2>2, <2>3, <3>1, <3>2, MoveKeepsInv
  <2> QED BY <2>4, <2>5
<1>7. ASSUME NEW r \in Posts, Commit(r) PROVE PlaneInv'
  <2>0. post[r].at = "added" /\ locker = r /\ rows[post[r].id] = 0
    BY <1>7 DEF Commit, PlaneInv
  <2>1. /\ rows' = [rows EXCEPT ![post[r].id] = 1] /\ locker' = Free /\ UNCHANGED proc
        /\ post' = [post EXCEPT ![r].at = "committed", ![r].told = "nothing"]
    BY <1>0, <1>7, <2>0 DEF Commit, Moves, PlaneTypeOK
  <2>2. /\ PlaneTypeOK' /\ \A q \in Posts \ {r} : post'[q] = post[q]
        /\ post'[r].id = post[r].id /\ post'[r].at = "committed" /\ post'[r].told = "nothing"
    BY <1>0, <2>1, ZenonT(60) DEF PlaneTypeOK, PostStates
  <2>3. /\ \A k \in Keys \ {post[r].id} : rows'[k] = rows[k]
        /\ rows'[post[r].id] = 1
    BY <1>0, <2>1 DEF PlaneTypeOK
  <2>4. \A p \in Procs : proc[p] # "seeding"
    BY <1>0, <2>0 DEF PlaneInv
  <2>5. \A q \in Posts \ {r} : post[q].at # "added"
    BY <1>0, <2>0 DEF PlaneInv
  <2>6. \A q \in Posts \ {r} : /\ Recorded(q)' <=> Recorded(q)
                               /\ Recorded(q) => post[q].id # post[r].id
    BY <2>0, <2>2 DEF PlaneInv, Recorded
  <2>7. \A k \in Keys : rows'[k] <= 1
    BY <2>3 DEF PlaneInv
  <2>8. \A q \in Posts : Recorded(q)' \/ post'[q].told = "duplicate" => rows'[post'[q].id] = 1
    BY <1>0, <2>2, <2>3, <2>6 DEF PlaneInv
  <2>9. \A q, s \in Posts : Recorded(q)' /\ Recorded(s)' /\ post'[q].id = post'[s].id => q = s
    BY <2>2, <2>6 DEF PlaneInv
  <2>10. \A q \in Posts : /\ post'[q].at # "added"
                          /\ post'[q].at # "done" => post'[q].told = "nothing"
    BY <2>2, <2>5 DEF PlaneInv
  <2> QED BY <2>1, <2>2, <2>4, <2>7, <2>8, <2>9, <2>10 DEF PlaneInv
<1>8. ASSUME NEW r \in Posts, Answer(r) PROVE PlaneInv'
  <2>1. /\ PlaneTypeOK' /\ UNCHANGED <<rows, proc, locker>> /\ post[r].at = "committed"
        /\ \A q \in Posts \ {r} : post'[q] = post[q]
        /\ post'[r].id = post[r].id /\ post'[r].at = "done" /\ post'[r].told = "recorded"
    BY <1>0, <1>8, ZenonT(60) DEF Answer, Moves, PlaneTypeOK, PostStates
  <2>2. Recorded(r)
    BY <2>1 DEF Recorded
  <2> QED BY <2>1, <2>2, MoveKeepsInv DEF PlaneInv
<1>9. ASSUME NEW r \in Posts, Locked(r) PROVE PlaneInv'
  <2>1. /\ PlaneTypeOK' /\ UNCHANGED <<rows, proc>>
        /\ \A q \in Posts \ {r} : post'[q] = post[q]
        /\ post'[r].id = post[r].id /\ post'[r].at = "done" /\ post'[r].told = "error"
        /\ (post[r].at = "open" /\ locker' = locker) \/ post[r].at = "added"
    BY <1>0, <1>9, ZenonT(60) DEF Locked, Moves, PlaneTypeOK, PostStates
  <2>2. ~Recorded(r)'
    BY <2>1 DEF Recorded
  <2>3. /\ \A q \in Posts \ {r} : post[q].at = "added" => locker' = q
        /\ \A p \in Procs : proc[p] = "seeding" => locker' = p
    BY <1>0, <2>1 DEF PlaneInv
  <2> QED BY <2>1, <2>2, <2>3, MoveKeepsInv
<1> QED BY <1>1, <1>2, <1>3, <1>4, <1>5, <1>6, <1>7, <1>8, <1>9 DEF PlaneNext

THEOREM PlaneInvariant == PlaneSpec => []PlaneInv
<1>1. ASSUME PlaneInit PROVE PlaneInv
  <2>1. \A r \in Posts : post[r].at = "new" /\ post[r].told = "nothing"
    BY <1>1 DEF PlaneInit
  <2>2. PlaneTypeOK /\ \A k \in Keys : rows[k] <= 1
    BY <1>1 DEF PlaneInit, PlaneTypeOK, PostStates
  <2>3. \A p \in Procs : proc[p] = "new"
    BY <1>1 DEF PlaneInit
  <2> QED BY <2>1, <2>2, <2>3 DEF PlaneInv, Recorded
<1>2. PlaneInv /\ [PlaneNext]_planeVars => PlaneInv'
  <2>1. ASSUME PlaneInv, UNCHANGED planeVars PROVE PlaneInv'
    BY <2>1 DEF planeVars, PlaneInv, PlaneTypeOK, Recorded
  <2> QED BY <2>1, PlaneStep
<1> QED BY <1>1, <1>2, PTL DEF PlaneSpec

(***************************************************************************)
(* An event posted any number of times is stored and confirmed once, and   *)
(* the demo rows are seeded once (db/models.py:76, api/app.py:240).        *)
(***************************************************************************)
THEOREM EventsRecordedOnce == PlaneSpec => []RecordedOnce
<1>1. PlaneInv => RecordedOnce
  BY DEF PlaneInv, RecordedOnce, Recorded
<1> QED BY <1>1, PlaneInvariant, PTL

-----------------------------------------------------------------------------
(* The local HTTP server.                                                  *)
HttpTypeOK ==
  /\ conn \in [Conns -> [req : Requests, read : Int, status : Int,
                 at : {"new", "accepted", "headers", "body", "short", "closed"}]]
  /\ active \in Nat
  /\ accepting \in [conn : Conns \cup {NoConn}, loaded : Int]

(***************************************************************************)
(* The inductive invariant: the connection in the hands of the accept      *)
(* thread is served by nobody yet.                                         *)
(***************************************************************************)
HttpInv ==
  /\ HttpTypeOK
  /\ accepting.conn # NoConn => conn[accepting.conn].at = "accepted"
  /\ PermitsHeld

LEMMA ServedFinite == IsFiniteSet(Served)
<1>1. Served \subseteq Conns
  BY DEF Served
<1> QED BY <1>1, HttpAssumption, FS_Subset

(***************************************************************************)
(* A handler that returns takes one connection out of those served.        *)
(***************************************************************************)
LEMMA EndsKeepsInv ==
  ASSUME HttpInv, NEW c \in Served, NEW s \in Int, Ends(c, s), UNCHANGED accepting
  PROVE  HttpInv'
<1>0. /\ c \in Conns /\ conn[c].at \in {"headers", "body", "short"}
      /\ HttpTypeOK /\ active = Cardinality(Served) /\ active <= MaxConns
  BY DEF Served, HttpInv, PermitsHeld
<1>1. conn' = [conn EXCEPT ![c].at = "closed", ![c].status = s] /\ active' = active - 1
  BY DEF Ends
<1>2. conn'[c].at = "closed" /\ \A d \in Conns \ {c} : conn'[d] = conn[d]
  BY <1>0, <1>1 DEF HttpTypeOK
<1>3. Served' = Served \ {c}
  BY <1>0, <1>2 DEF Served
<1>4. Cardinality(Served') = Cardinality(Served) - 1
  BY <1>3, ServedFinite, FS_RemoveElement
<1>5. Cardinality(Served') \in Nat
  BY <1>3, ServedFinite, FS_RemoveElement, FS_CardinalityType
<1>6. HttpTypeOK'
  BY <1>0, <1>1, <1>4, <1>5 DEF HttpTypeOK
<1>7. PermitsHeld'
  BY <1>0, <1>1, <1>4, HttpAssumption DEF PermitsHeld, HttpTypeOK
<1>8. accepting'.conn # NoConn => conn'[accepting'.conn].at = "accepted"
  BY <1>0, <1>2 DEF HttpInv, HttpTypeOK
<1> QED BY <1>6, <1>7, <1>8 DEF HttpInv

(***************************************************************************)
(* A connection that moves on without being taken up or given back leaves  *)
(* the count as it is.                                                     *)
(***************************************************************************)
LEMMA MovesKeepsInv ==
  ASSUME HttpInv, NEW c \in Conns, UNCHANGED active, HttpTypeOK',
         \A d \in Conns \ {c} : conn'[d] = conn[d],
         c \in Served <=> conn'[c].at \in {"headers", "body", "short"},
         accepting'.conn # NoConn => conn'[accepting'.conn].at = "accepted"
  PROVE  HttpInv'
<1>1. Served' = Served
  BY DEF Served
<1> QED BY <1>1 DEF HttpInv, PermitsHeld

LEMMA HttpStep ==
  ASSUME HttpInv, HttpNext
  PROVE  HttpInv'
<1>0. /\ HttpTypeOK /\ active = Cardinality(Served) /\ active <= MaxConns
      /\ accepting.conn # NoConn => conn[accepting.conn].at = "accepted"
      /\ NoConn \notin Conns
  BY HttpAssumption DEF HttpInv, PermitsHeld, NoConn
<1>1. ASSUME NEW c \in Conns, Accept(c) PROVE HttpInv'
  <2>1. /\ conn[c].at = "new" /\ active' = active
        /\ conn' = [conn EXCEPT ![c].at = "accepted"]
        /\ accepting' = [conn |-> c, loaded |-> active]
    BY <1>1 DEF Accept, At
  <2>2. conn'[c].at = "accepted" /\ \A d \in Conns \ {c} : conn'[d] = conn[d]
    BY <1>0, <2>1 DEF HttpTypeOK
  <2>3. HttpTypeOK'
    BY <1>0, <2>1 DEF HttpTypeOK
  <2>4. c \notin Served
    BY <2>1 DEF Served
  <2> QED BY <2>1, <2>2, <2>3, <2>4, MovesKeepsInv
<1>2. CASE Acquire
  <2> DEFINE c == accepting.conn
  <2>0. c \in Conns /\ conn[c].at = "accepted" /\ c \notin Served /\ active \in Nat
    BY <1>0, <1>2 DEF Acquire, HttpTypeOK, Served
  <2>1. CASE /\ conn' = [conn EXCEPT ![c].at = "closed", ![c].status = 503]
             /\ accepting' = Idle503 /\ UNCHANGED active
    <3>1. conn'[c].at = "closed" /\ \A d \in Conns \ {c} : conn'[d] = conn[d]
      BY <1>0, <2>0, <2>1 DEF HttpTypeOK
    <3>2. HttpTypeOK' /\ accepting'.conn = NoConn
      BY <1>0, <2>0, <2>1 DEF HttpTypeOK, Idle503
    <3> QED BY <2>0, <2>1, <3>1, <3>2, MovesKeepsInv
  <2>2. CASE /\ accepting.loaded < MaxConns /\ accepting.loaded = active
             /\ active' = active + 1 /\ conn' = [conn EXCEPT ![c].at = "headers"]
             /\ accepting' = Idle503
    <3>1. conn'[c].at = "headers" /\ \A d \in Conns \ {c} : conn'[d] = conn[d]
      BY <1>0, <2>0, <2>2 DEF HttpTypeOK
    <3>2. HttpTypeOK' /\ accepting'.conn = NoConn
      BY <1>0, <2>0, <2>2 DEF HttpTypeOK, Idle503
    <3>3. Served' = Served \cup {c}
      BY <2>0, <3>1 DEF Served
    <3>4. Cardinality(Served') = Cardinality(Served) + 1
      BY <2>0, <3>3, ServedFinite, FS_AddElement
    <3>5. PermitsHeld'
      BY <1>0, <2>0, <2>2, <3>4, HttpAssumption DEF PermitsHeld
    <3> QED BY <3>2, <3>5 DEF HttpInv
  <2>3. CASE accepting' = [accepting EXCEPT !.loaded = active] /\ UNCHANGED <<conn, active>>
    <3>1. HttpTypeOK' /\ accepting'.conn = c
      BY <1>0, <2>0, <2>3 DEF HttpTypeOK
    <3>2. Served' = Served
      BY <2>3 DEF Served
    <3> QED BY <1>0, <2>0, <2>3, <3>1, <3>2 DEF HttpInv, PermitsHeld
  <2> QED BY <1>2, <2>1, <2>2, <2>3 DEF Acquire
<1>3. ASSUME NEW c \in Conns, ReadChunk(c) PROVE HttpInv'
  <2>1. c \in Served /\ UNCHANGED accepting
    BY <1>3 DEF ReadChunk, At, Served
  <2>2. CASE Ends(c, 413)
    BY <2>1, <2>2, EndsKeepsInv
  <2>3. ASSUME NEW n \in Int, NEW a \in {"headers", "body"},
               conn' = [conn EXCEPT ![c].read = n, ![c].at = a], UNCHANGED active
        PROVE  HttpInv'
    <3>1. conn'[c].at = a /\ \A d \in Conns \ {c} : conn'[d] = conn[d]
      BY <1>0, <2>3 DEF HttpTypeOK
    <3>2. HttpTypeOK'
      BY <1>0, <2>1, <2>3 DEF HttpTypeOK
    <3>3. accepting'.conn # NoConn => conn'[accepting'.conn].at = "accepted"
      BY <1>0, <2>1, <3>1 DEF Served, HttpTypeOK
    <3> QED BY <2>1, <2>3, <3>1, <3>2, <3>3, MovesKeepsInv
  <2>4. Grown(conn[c].read) \in Int
    BY <1>0, HttpAssumption DEF HttpTypeOK, Grown
  <2> QED BY <1>3, <2>2, <2>3, <2>4 DEF ReadChunk
<1>4. ASSUME NEW c \in Conns, Eof(c) PROVE HttpInv'
  <2>1. c \in Served /\ UNCHANGED accepting
    BY <1>4 DEF Eof, At, Served
  <2>2. CASE Ends(c, 0)
    BY <2>1, <2>2, EndsKeepsInv
  <2>3. CASE conn' = [conn EXCEPT ![c].at = "short"] /\ UNCHANGED active
    <3>1. conn'[c].at = "short" /\ \A d \in Conns \ {c} : conn'[d] = conn[d]
      BY <1>0, <2>3 DEF HttpTypeOK
    <3>2. HttpTypeOK'
      BY <1>0, <2>1, <2>3 DEF HttpTypeOK
    <3>3. accepting'.conn # NoConn => conn'[accepting'.conn].at = "accepted"
      BY <1>0, <2>1, <3>1 DEF Served, HttpTypeOK
    <3> QED BY <2>1, <2>3, <3>1, <3>2, <3>3, MovesKeepsInv
  <2> QED BY <1>4, <2>2, <2>3 DEF Eof
<1>5. ASSUME NEW c \in Conns, ReadFails(c) PROVE HttpInv'
  <2>1. c \in Served /\ UNCHANGED accepting /\ Ends(c, 0)
    BY <1>5 DEF ReadFails, At, Served
  <2> QED BY <2>1, EndsKeepsInv
<1>6. ASSUME NEW c \in Conns, Respond(c) PROVE HttpInv'
  <2>1. c \in Served /\ UNCHANGED accepting
    BY <1>6 DEF Respond, At, Served
  <2>2. PICK s \in Route(conn[c].req.method, conn[c].req.path, At(c, "short")) : Ends(c, s)
    BY <1>6 DEF Respond
  <2>3. s \in Int
    BY <2>2 DEF Route
  <2> QED BY <2>1, <2>2, <2>3, EndsKeepsInv
<1> QED BY <1>1, <1>2, <1>3, <1>4, <1>5, <1>6 DEF HttpNext, Handler

THEOREM HttpInvariant == HttpSpec => []HttpInv
<1>1. HttpInit => HttpInv
  <2> SUFFICES ASSUME HttpInit PROVE HttpInv
    OBVIOUS
  <2>1. Served = {}
    BY DEF HttpInit, Served
  <2>2. Cardinality(Served) = 0
    BY <2>1, FS_EmptySet
  <2>3. HttpTypeOK
    BY DEF HttpInit, HttpTypeOK, Idle503
  <2> QED BY <2>2, <2>3, HttpAssumption DEF HttpInit, HttpInv, PermitsHeld, Idle503
<1>2. HttpInv /\ [HttpNext]_httpVars => HttpInv'
  <2> SUFFICES ASSUME HttpInv, [HttpNext]_httpVars PROVE HttpInv'
    OBVIOUS
  <2>1. CASE HttpNext
    BY <2>1, HttpStep
  <2>2. CASE UNCHANGED httpVars
    BY <2>2 DEF httpVars, HttpInv, HttpTypeOK, PermitsHeld, Served
  <2> QED BY <2>1, <2>2
<1> QED BY <1>1, <1>2, PTL DEF HttpSpec

(***************************************************************************)
(* The permit count is the number of connections served, and never above   *)
(* the limit: no way out of a handler keeps a permit (server.rs:32-60).    *)
(***************************************************************************)
THEOREM CountMatchesHandlers == HttpSpec => []PermitsHeld
<1>1. HttpInv => PermitsHeld
  BY DEF HttpInv
<1> QED BY <1>1, HttpInvariant, PTL
=============================================================================
