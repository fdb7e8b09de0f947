----------------------------- MODULE OAuthProbe -----------------------------
(***************************************************************************)
(* The plugins that poll a provider with an OAuth session: claude, codex,  *)
(* cursor, factory, grok, kimi and kiro (plugins/*/plugin.js).  They share *)
(* the credentials of the provider's own program: a probe loads them from  *)
(* the stores of that program, refreshes them when they are about to       *)
(* expire, writes them back to the store they came from, and refreshes     *)
(* once more when the usage request is refused.                            *)
(*                                                                         *)
(* Batches overlap, so two probes of one plugin run at the same time on    *)
(* the same stores.  A refresh spends the refresh token: from then on only *)
(* the new one is good, and it is in the memory of one probe until saved.  *)
(* `plugin' is the plugin under examination; it never changes.             *)
(***************************************************************************)
EXTENDS Naturals, Sequences, FiniteSets, Lookup

CONSTANTS OPlugins,   \* the plugins examined, a subset of Orders' domain
          Probers,    \* overlapping probes of the plugin
          MaxIssue    \* bound: tokens the provider issues, the first included

VARIABLES plugin, store, live, issued, probe, mishap
oauthVars == <<plugin, store, live, issued, probe, mishap>>

Order == [claude  |-> <<"kcHashed", "kcPlain", "file">>,
          codex   |-> <<"file1", "file2", "keychain">>,
          cursor  |-> <<"sqlite", "keychain">>,
          factory |-> <<"v2", "file", "keychain">>,
          grok    |-> <<"entry1", "entry2">>,
          kimi    |-> <<"file">>,
          kiro    |-> <<"file">>]
ASSUME OAuthAssumption == OPlugins \subseteq DOMAIN Order /\ MaxIssue \in Nat \ {0}

StoresOf(pl) == {Order[pl][i] : i \in DOMAIN Order[pl]}

(* A stored credential: access and refresh token by number, 0 for absent,  *)
(* and what its expiry says: "due" is inside the refresh buffer.           *)
Ages == {"fresh", "due", "expired"}
Cred == [at : 0..MaxIssue, rt : 0..MaxIssue, age : Ages]
Absent == [at |-> 0, rt |-> 0, age |-> "expired"]

HasAccess(c) == c.at # 0
HasToken(c)  == c.at # 0 \/ c.rt # 0
WithAccess(st)  == {s \in DOMAIN st : HasAccess(st[s])}
WithToken(st)   == {s \in DOMAIN st : HasToken(st[s])}
WithRefresh(st) == {s \in DOMAIN st : st[s].rt # 0}

(***************************************************************************)
(* Which stores a probe tries, in order, from what it read at its start.   *)
(***************************************************************************)
ClaudeCandidates(st) == First(Among(Order.claude, WithAccess(st)))
CodexCandidates(st)  == Among(<<"file1", "file2">>, WithAccess(st))
CodexKeychain(st)    == Among(<<"keychain">>, WithAccess(st))
(* otherAccount: the sqlite login is a free one of another account.        *)
CursorCandidates(st, otherAccount) ==
  First(Among(IF otherAccount /\ {"keychain", "sqlite"} \subseteq WithAccess(st)
              THEN <<"keychain">> ELSE Order.cursor, WithToken(st)))
FactoryCandidates(st) ==
  First(Among(Order.factory, WithAccess(st) \cup (WithToken(st) \ {"keychain"})))
GrokCandidates(st) == Among(Order.grok, WithAccess(st))
KimiCandidates(st) == Among(Order.kimi, WithToken(st))
KiroCandidates(st) == Among(Order.kiro, WithRefresh(st))

Candidates(pl, st, flag) ==
  CASE pl = "claude"  -> ClaudeCandidates(st)
    [] pl = "codex"   -> CodexCandidates(st)
    [] pl = "cursor"  -> CursorCandidates(st, flag)
    [] pl = "factory" -> FactoryCandidates(st)
    [] pl = "grok"    -> GrokCandidates(st)
    [] pl = "kimi"    -> KimiCandidates(st)
    [] pl = "kiro"    -> KiroCandidates(st)

(***************************************************************************)
(* What a refresh request that was answered a means to the probe: a new    *)
(* token, nothing (null), or an error that is thrown; kiro does not catch  *)
(* a failed request ("error").  "lost" is a refresh the provider granted   *)
(* and whose reply did not arrive.                                         *)
(***************************************************************************)
Answers == {"granted", "s400", "s401", "s403", "failed", "exception", "lost"}
Denials == {"s400", "s401", "s403"}
Refreshed(a, thrown) ==
  IF a = "granted" THEN "token" ELSE IF a \in thrown THEN "throw" ELSE "null"

ClaudeRefresh(a)  == Refreshed(a, {"s400", "s401"})
CodexRefresh(a)   == Refreshed(a, {"s400", "s401"})
CursorRefresh(a)  == Refreshed(a, {"s400", "s401"})
FactoryRefresh(a) == Refreshed(a, {"s400", "s401"})
GrokRefresh(a)    == Refreshed(a, {})
KimiRefresh(a)    == Refreshed(a, {"s401", "s403"})
KiroRefresh(a)    == IF a \in {"exception", "lost"} THEN "error"
                     ELSE Refreshed(a, {"s401", "s403"})

Refresh(pl, a) ==
  CASE pl = "claude"  -> ClaudeRefresh(a)  [] pl = "codex"   -> CodexRefresh(a)
    [] pl = "cursor"  -> CursorRefresh(a)  [] pl = "factory" -> FactoryRefresh(a)
    [] pl = "grok"    -> GrokRefresh(a)    [] pl = "kimi"    -> KimiRefresh(a)
    [] pl = "kiro"    -> KiroRefresh(a)

(***************************************************************************)
(* What the stores st hold after credential c of store s was written back: *)
(* cursor writes the access token only, grok its whole file as it read it. *)
(***************************************************************************)
(* Mutant: only the access token is written. *)
ClaudeSaved_AccessOnly(st, s, c) == [st EXCEPT ![s].at = c.at, ![s].age = c.age]

ClaudeSaved(st, s, c)  == [st EXCEPT ![s] = c]
CodexSaved(st, s, c)   == [st EXCEPT ![s] = c]
CursorSaved(st, s, c)  == [st EXCEPT ![s].at = c.at, ![s].age = c.age]
FactorySaved(st, s, c) == [st EXCEPT ![s] = c]
GrokSaved(snap, s, c)  == [snap EXCEPT ![s] = c]
KimiSaved(st, s, c)    == [st EXCEPT ![s] = c]
KiroSaved(st, s, c)    == [st EXCEPT ![s] = c]

Saved(pl, st, snap, s, c) ==
  CASE pl = "claude"  -> ClaudeSaved(st, s, c)  [] pl = "codex" -> CodexSaved(st, s, c)
    [] pl = "cursor"  -> CursorSaved(st, s, c)  [] pl = "grok"  -> GrokSaved(snap, s, c)
    [] pl = "factory" -> FactorySaved(st, s, c) [] pl = "kimi"  -> KimiSaved(st, s, c)
    [] pl = "kiro"    -> KiroSaved(st, s, c)

(***************************************************************************)
(* Where a probe goes when the refresh before the first usage request gave *)
(* r # "token": on with the old token ("request"), to its next candidate   *)
(* ("pick"), or to an error.                                               *)
(***************************************************************************)
(* Mutant: a refresh that failed for any reason ends the session. *)
ClaudeGoesOn_AnyFailure(c, r) == "expired"

ClaudeGoesOn(c, r)  == IF r = "throw" THEN "expired" ELSE "request"
CodexGoesOn(c, r)   == IF r = "throw" THEN "expired" ELSE "request"
CursorGoesOn(c, r)  == IF HasAccess(c) THEN "request"
                       ELSE IF r = "throw" THEN "expired" ELSE "login"
FactoryGoesOn(c, r) == IF r = "throw" /\ c.age = "expired" THEN "expired" ELSE "request"
GrokGoesOn(c, r)    == IF c.age = "expired" THEN "pick" ELSE "request"
KimiGoesOn(c, r)    == IF r = "throw" THEN "expired"
                       ELSE IF HasAccess(c) THEN "request" ELSE "login"
KiroGoesOn(c, r)    == IF r = "error" THEN "failed"
                       ELSE IF r = "throw" \/ ~HasAccess(c) THEN "expired" ELSE "request"

GoesOn(pl, c, r) ==
  CASE pl = "claude"  -> ClaudeGoesOn(c, r)  [] pl = "codex" -> CodexGoesOn(c, r)
    [] pl = "cursor"  -> CursorGoesOn(c, r)  [] pl = "grok"  -> GrokGoesOn(c, r)
    [] pl = "factory" -> FactoryGoesOn(c, r) [] pl = "kimi"  -> KimiGoesOn(c, r)
    [] pl = "kiro"    -> KiroGoesOn(c, r)

(***************************************************************************)
(* The probe: pc is where it stands, snap what it read at its start, cands *)
(* the stores it has left, src and cred the session it works with, flag    *)
(* the condition only its plugin knows, err the error it ends with when    *)
(* nothing else works, refused whether the provider refused it a token,    *)
(* out its outcome.                                                        *)
(***************************************************************************)
Outcomes == {"none", "usage", "login", "expired", "badfile", "failed", "timeout"}
Pcs == {"idle", "pick", "proactive", "saveP", "request", "retry", "saveR",
        "again", "done"}
Session == [pc : Pcs, snap : [StoresOf(plugin) -> Cred],
            cands : Seq(StoresOf(plugin)), src : StoresOf(plugin) \cup {"none"}, cred : Cred, flag : BOOLEAN, err : Outcomes,
            refused : BOOLEAN, out : Outcomes]
Idle == [pc |-> "idle", snap |-> [s \in StoresOf(plugin) |-> Absent], cands |-> <<>>,
         src |-> "none", cred |-> Absent, flag |-> FALSE, err |-> "login",
         refused |-> FALSE, out |-> "none"]

OAuthTypeOK ==
  /\ plugin \in OPlugins
  /\ store \in [StoresOf(plugin) -> Cred]
  /\ live \in [StoresOf(plugin) -> 0..MaxIssue]
  /\ issued \in 1..MaxIssue
  /\ probe \in [Probers -> Session]
  /\ mishap \subseteq StoresOf(plugin)

(* Credentials a store can hold when the application starts.               *)
FirstCreds == {Absent, [at |-> 1, rt |-> 0, age |-> "expired"],
               [at |-> 0, rt |-> 1, age |-> "expired"]}
              \cup [at : {1}, rt : {1}, age : Ages]
OAuthInit ==
  /\ plugin \in OPlugins
  /\ store \in [StoresOf(plugin) -> FirstCreds]
  /\ live = [s \in StoresOf(plugin) |-> 1] /\ issued = 1
  /\ probe = [p \in Probers |-> Idle] /\ mishap = {}

At(p, pcs) == probe[p].pc \in pcs
Become(p, rec) == probe' = [probe EXCEPT ![p] = rec]
(* A probe that ended keeps what its error is judged by, and no more.      *)
Ends(rec, out) ==
  IF out \in {"login", "expired"}
  THEN [rec EXCEPT !.pc = "done", !.out = out, !.cands = <<>>]
  ELSE [Idle EXCEPT !.pc = "done", !.out = out]

(* An error of one session: codex tries the next file and then the         *)
(* keychain when a session was refused, kiro shows the usage it finds on   *)
(* disk, the others end with the error.                                    *)
Fails(rec, e) ==
  IF plugin = "codex" /\ e = "expired" /\ rec.src # "keychain"
  THEN [rec EXCEPT !.pc = "pick", !.err = e]
  ELSE Ends(rec, IF plugin = "kiro" /\ rec.flag THEN "usage" ELSE e)

Goes(rec, to) ==
  IF to \in {"request", "pick"}
  THEN [rec EXCEPT !.pc = to, !.err = IF to = "pick" THEN "expired" ELSE @]
  ELSE Fails(rec, to)

(* Start: the stores are read.  flag: claude has a token in its            *)
(* environment and asks the provider nothing; cursor holds two accounts;   *)
(* kiro has usage on disk, which may be recent enough to ask nothing.      *)
Start(p) ==
  /\ At(p, {"idle"})
  /\ \E flag \in IF plugin \in {"claude", "cursor", "kiro"} THEN BOOLEAN ELSE {FALSE} :
       \E asks \in IF ~flag \/ plugin = "cursor" THEN {TRUE}
                  ELSE IF plugin = "claude" THEN {FALSE} ELSE BOOLEAN :
         LET rec == [Idle EXCEPT !.pc = "pick", !.snap = store, !.flag = flag,
                                 !.cands = Candidates(plugin, store, flag)]
         IN Become(p, IF asks THEN rec ELSE Ends(rec, "usage"))
  /\ UNCHANGED <<plugin, store, live, issued, mishap>>

(* The next session: from the candidates read at the start, then codex's   *)
(* keychain, which is read only now.                                       *)
Work(rec, s, c) ==
  LET r == [rec EXCEPT !.src = s, !.cred = c] IN
  IF plugin = "factory" /\ ~HasAccess(c) THEN Ends(r, "badfile")
  ELSE [r EXCEPT !.pc = IF ~HasAccess(c) \/ c.age # "fresh" THEN "proactive" ELSE "request"]

(* codex: a file, or the keychain item, with an API key and no session     *)
(* ends the probe at its turn, whatever comes after it.                    *)
ApiKeyOnly(rec, s) ==
  /\ plugin = "codex" /\ ~HasAccess(IF s = "keychain" THEN store[s] ELSE rec.snap[s])
  /\ IF s = "file1" THEN rec.src = "none" ELSE rec.cands = <<>>

NextSession(p) ==
  LET rec == probe[p] IN
  /\ At(p, {"pick"})
  /\ \/ (\E s \in StoresOf(plugin) : ApiKeyOnly(rec, s)) /\ Become(p, Ends(rec, "badfile"))
     \/ /\ rec.cands # <<>>
        /\ LET s == Head(rec.cands)
           IN Become(p, Work([rec EXCEPT !.cands = Tail(@)], s, rec.snap[s]))
     \/ /\ rec.cands = <<>> /\ plugin = "codex" /\ CodexKeychain(store) # <<>>
        /\ Become(p, Work([rec EXCEPT !.snap["keychain"] = store["keychain"]],
                          "keychain", store["keychain"]))
     \/ /\ rec.cands = <<>> /\ (plugin = "codex" => CodexKeychain(store) = <<>>)
        /\ Become(p, Ends(rec, rec.err))
  /\ UNCHANGED <<plugin, store, live, issued, mishap>>

(* What a probe does with an answered refresh, before or after the first   *)
(* usage request; without a refresh token there is no request, and kiro    *)
(* throws.                                                                 *)
NoToken(rec, r) ==
  IF rec.pc = "proactive" THEN Goes(rec, GoesOn(plugin, rec.cred, r))
  ELSE Fails(rec, IF r = "error" THEN "failed" ELSE "expired")

RefreshSkipped(p) ==
  LET rec == probe[p] IN
  /\ At(p, {"proactive", "retry"}) /\ rec.cred.rt = 0
  /\ Become(p, NoToken(rec, IF plugin = "kiro" THEN "throw" ELSE "null"))
  /\ UNCHANGED <<plugin, store, live, issued, mishap>>

(* The provider grants only its live refresh token and may rotate it;      *)
(* cursor's stays.  Granting spends a number.                              *)
RefreshRequest(p) ==
  LET rec == probe[p]
      s == rec.src
  IN
  /\ At(p, {"proactive", "retry"}) /\ rec.cred.rt # 0
  /\ \E a \in Answers :
       \/ /\ a \in {"granted", "lost"} /\ rec.cred.rt = live[s] /\ issued < MaxIssue
          /\ LET n == issued + 1
                 c == [at |-> n, rt |-> IF plugin = "cursor" THEN rec.cred.rt ELSE n,
                       age |-> "fresh"]
             IN /\ issued' = n
                /\ live' = [live EXCEPT ![s] = c.rt]
                /\ IF a = "granted"
                   THEN /\ Become(p, [rec EXCEPT !.cred = c,
                               !.pc = IF @ = "proactive" THEN "saveP" ELSE "saveR"])
                        /\ UNCHANGED mishap
                   ELSE /\ Become(p, NoToken(rec, Refresh(plugin, a)))
                        /\ mishap' = mishap \cup {s}
       \/ /\ a \notin {"granted", "lost"}
          /\ Become(p, NoToken([rec EXCEPT !.refused = @ \/ a \in Denials], Refresh(plugin, a)))
          /\ UNCHANGED <<live, issued, mishap>>
  /\ UNCHANGED <<plugin, store>>

(* The refreshed session is written back; a failed write is only logged.   *)
Save(p) ==
  LET rec == probe[p] IN
  /\ At(p, {"saveP", "saveR"})
  /\ \/ /\ store' = Saved(plugin, store, rec.snap, rec.src, rec.cred)
        /\ UNCHANGED mishap
     \/ mishap' = mishap \cup {rec.src} /\ UNCHANGED store
  /\ Become(p, [rec EXCEPT !.pc = IF @ = "saveP" THEN "request" ELSE "again",
                           !.snap[rec.src] = rec.cred])
  /\ UNCHANGED <<plugin, live, issued>>

(* The usage request, once and once again after a refresh; an answer that  *)
(* cannot be read is a failure too.                                        *)
UsageRequest(p) ==
  LET rec == probe[p] IN
  /\ At(p, {"request", "again"})
  /\ \/ Become(p, Ends(rec, "usage"))
     \/ Become(p, Fails(rec, "failed"))
     \/ Become(p, IF rec.pc = "request"
                  THEN [rec EXCEPT !.pc = "retry", !.refused = TRUE]
                  ELSE Fails([rec EXCEPT !.refused = TRUE], "expired"))
  /\ UNCHANGED <<plugin, store, live, issued, mishap>>

(* The runtime's deadline cuts the script between any two host calls.      *)
Cut(p) ==
  /\ ~At(p, {"idle", "done"})
  /\ mishap' = mishap \cup (IF At(p, {"saveP", "saveR"}) THEN {probe[p].src} ELSE {})
  /\ Become(p, Ends(probe[p], "timeout"))
  /\ UNCHANGED <<plugin, store, live, issued>>

(* The user signs in again with the provider's own program, which writes a *)
(* new session; a probe at work on the old one may write over it.          *)
SignIn(s) ==
  /\ issued < MaxIssue /\ store[s] # Absent
  /\ issued' = issued + 1 /\ live' = [live EXCEPT ![s] = issued']
  /\ store' = [store EXCEPT ![s] = [at |-> issued', rt |-> issued', age |-> "fresh"]]
  /\ mishap' = IF \E p \in Probers : At(p, {"saveP", "saveR"}) /\ probe[p].src = s
               THEN mishap \cup {s} ELSE mishap
  /\ UNCHANGED <<plugin, probe>>

OAuthNext ==
  \/ \E p \in Probers :
       \/ Start(p) \/ NextSession(p) \/ RefreshSkipped(p) \/ RefreshRequest(p)
       \/ Save(p) \/ UsageRequest(p) \/ Cut(p)
  \/ \E s \in StoresOf(plugin) : SignIn(s)

OAuthSpec == OAuthInit /\ [][OAuthNext]_oauthVars
-----------------------------------------------------------------------------
(* No session is lost by the application: unless a write failed, a reply   *)
(* was lost, a probe was cut before its write, or the user signed in while *)
(* a write was due, what a store holds is the refresh token the provider   *)
(* still accepts, whatever two overlapping probes did with it.  grok's two *)
(* sessions share one file and are written together: the later of two      *)
(* probes puts the other's old session back, so grok is not promised this. *)
RefreshTokenKept ==
  plugin # "grok" =>
    \A s \in StoresOf(plugin) \ mishap :
      \/ store[s].rt \in {0, live[s]}
      \/ \E p \in Probers : At(p, {"saveP", "saveR"}) /\ probe[p].src = s

(* A probe asks the user to sign in again only because the provider        *)
(* refused it a token, or what it holds has expired or has no access token *)
(* at all: a network failure alone never ends a usable session.            *)
ExpiredMeansRefused ==
  \A p \in Probers : LET r == probe[p] IN
    r.out = "expired" => r.refused \/ ~HasAccess(r.cred) \/ r.cred.age = "expired"

(* A probe says that nobody is signed in only when no store it read holds  *)
(* a session it can use, or the one it picked has no access token.         *)
LoginMeansNoToken ==
  \A p \in Probers : LET r == probe[p] IN
    r.out = "login" =>
      IF r.src # "none" THEN ~HasAccess(r.cred)
      ELSE \A s \in StoresOf(plugin) :
             IF plugin = "kiro" THEN r.snap[s].rt = 0 ELSE ~HasAccess(r.snap[s])

(* What a probe tells the user about the session is true.                  *)
ErrorTellsTruth == ExpiredMeansRefused /\ LoginMeansNoToken

-----------------------------------------------------------------------------
(* Why they hold: the inductive invariant.                                 *)

Working == {"proactive", "saveP", "request", "retry", "saveR", "again"}
Saving(p, s) == At(p, {"saveP", "saveR"}) /\ probe[p].src = s

(* A probe at work has a session; one that writes has a granted one.       *)
HasSession ==
  \A p \in Probers :
    /\ At(p, Working) => probe[p].src \in StoresOf(plugin)
    /\ At(p, {"saveP", "saveR"}) => HasAccess(probe[p].cred) /\ probe[p].cred.rt # 0
    /\ ~At(p, {"done"}) => probe[p].out = "none"

(* No token is known that was not issued.                                  *)
OnlyIssued ==
  /\ \A s \in StoresOf(plugin) : live[s] \in 1..issued /\ store[s].rt \in 0..issued
  /\ \A p \in Probers : /\ probe[p].cred.rt \in 0..issued
                        /\ \A s \in StoresOf(plugin) : probe[p].snap[s].rt \in 0..issued

(* A live token that is not in its store yet is in the hand of one probe,  *)
(* and nowhere else: no other probe can spend it or write over it.         *)
SoleOwner ==
  plugin \notin {"cursor", "grok"} =>
    \A s \in StoresOf(plugin) \ mishap, p \in Probers :
      Saving(p, s) =>
        /\ probe[p].cred.rt = live[s] /\ store[s].rt # live[s]
        /\ \A q \in Probers :
             /\ probe[q].snap[s].rt # live[s]
             /\ q # p /\ probe[q].src = s => probe[q].cred.rt # live[s]

(* cursor's refresh tokens are never rotated by the application.           *)
CursorKeeps ==
  plugin = "cursor" => \A s \in StoresOf(plugin) : store[s].rt \in {0, live[s]}

(* A probe that refreshes after its request was refused it; one that goes  *)
(* on to its next session found the last one unusable, unless it is at its *)
(* first, when nothing left to try means nothing to try.                   *)
Unusable(c) == IF plugin = "kiro" THEN c.rt = 0 ELSE ~HasAccess(c)
Blame ==
  \A p \in Probers : LET r == probe[p] IN
    /\ At(p, {"retry", "saveR", "again"}) => r.refused
    /\ At(p, {"pick"}) =>
         \/ r.err = "expired" /\ (r.refused \/ ~HasAccess(r.cred) \/ r.cred.age = "expired")
         \/ /\ r.err = "login" /\ r.src = "none"
            /\ r.cands = <<>> => \A s \in StoresOf(plugin) :
                 IF plugin = "codex" /\ s = "keychain"
                 THEN HasAccess(r.snap[s]) => HasAccess(store[s])
                 ELSE Unusable(r.snap[s])

(* kiro's candidates and sessions have a refresh token.                    *)
KiroRefreshes ==
  plugin = "kiro" =>
    \A p \in Probers : LET r == probe[p] IN
      /\ At(p, Working) => r.cred.rt # 0
      /\ \A i \in DOMAIN r.cands : r.snap[r.cands[i]].rt # 0

(* All of it: from one host call of a probe to the next, no other probe and *)
(* no sign-in can take the token it owes a store, or the blame it found.    *)
OAuthIInv ==
  /\ OAuthTypeOK
  /\ HasSession
  /\ OnlyIssued
  /\ SoleOwner
  /\ CursorKeeps
  /\ RefreshTokenKept
  /\ Blame
  /\ KiroRefreshes
  /\ ErrorTellsTruth
=============================================================================
