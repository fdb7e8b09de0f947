------------------------------ MODULE KeyProbe ------------------------------
(***************************************************************************)
(* The plugins that ask a provider with a key or token they find on the    *)
(* machine: copilot, devin, antigravity, minimax, synthetic, zai, amp and  *)
(* perplexity (plugins/*/plugin.js).  Each knows several places such a     *)
(* credential may be in; some use the first they find, the others go on to *)
(* the next one when the provider refuses it.                              *)
(*                                                                         *)
(* Credentials are numbers, 0 for none; keyHolds is what each place holds. *)
(* Batches overlap: two copilot probes share a cached token, and the user  *)
(* may sign in with the GitHub CLI between any two steps.                  *)
(***************************************************************************)
EXTENDS Naturals, Sequences, FiniteSets, Lookup

CONSTANTS KPlugins,    \* the plugins examined, a subset of KeyOrder's domain
          KProbers     \* overlapping probes; only copilot needs more than one

VARIABLES keyPlugin, keyHolds, keyProbe
keyVars == <<keyPlugin, keyHolds, keyProbe>>

(* The places, in the order they are looked into.  minimax's are           *)
(* environment variables, antigravity's the access tokens of two databases *)
(* and its own cache, their refresh tokens, and the agy keychain.          *)
KeyOrder ==
  [copilot     |-> <<"keychain", "gh", "state">>,
   devin       |-> <<"file", "app", "next">>,
   antigravity |-> <<"db1", "db2", "cache", "rt1", "rt2", "agy">>,
   minimax     |-> <<"cnKey", "key", "token">>,
   synthetic   |-> <<"pi", "models", "factory", "opencode", "env">>,
   zai         |-> <<"zai", "glm">>,
   amp         |-> <<"secrets">>,
   perplexity  |-> <<"cache1", "cache2">>]
ASSUME KeyAssumption == KPlugins \subseteq DOMAIN KeyOrder /\ KProbers # {}

Places(pl) == {KeyOrder[pl][i] : i \in DOMAIN KeyOrder[pl]}
Found(h, places) == Among(places, {x \in DOMAIN h : h[x] # 0})
FirstFound(h, places) == First(Found(h, places))

(***************************************************************************)
(* What a probe will ask with, from what it finds: places for the plugins  *)
(* that hold one credential per place, endpoints for minimax.              *)
(***************************************************************************)
CopilotLoadToken(h)    == FirstFound(h, KeyOrder.copilot)
DevinSources(h)        == KeyOrder.devin
AntigravityTokens(h)   == Found(h, <<"db1", "db2", "cache">>)
MinimaxAttempts(h)     == IF h["cnKey"] # 0 THEN <<"CN", "GLOBAL">> ELSE <<"GLOBAL", "CN">>
SyntheticLoadApiKey(h) == FirstFound(h, KeyOrder.synthetic)
ZaiLoadApiKey(h)       == FirstFound(h, KeyOrder.zai)
AmpLoadApiKey(h)       == FirstFound(h, KeyOrder.amp)
PerplexityLoadSession(h) == FirstFound(h, KeyOrder.perplexity)

Attempts(pl, h) ==
  CASE pl = "copilot"     -> CopilotLoadToken(h)    [] pl = "devin" -> DevinSources(h)
    [] pl = "antigravity" -> AntigravityTokens(h)   [] pl = "minimax" -> MinimaxAttempts(h)
    [] pl = "synthetic"   -> SyntheticLoadApiKey(h) [] pl = "zai" -> ZaiLoadApiKey(h)
    [] pl = "amp"         -> AmpLoadApiKey(h)
    [] pl = "perplexity"  -> PerplexityLoadSession(h)

MinimaxLoadApiKey(h, endpoint) ==
  LET found == FirstFound(h, IF endpoint = "CN" THEN KeyOrder.minimax ELSE <<"key", "token">>)
  IN IF found = <<>> THEN 0 ELSE h[found[1]]
DevinReadAuth(h, place) == h[place]

KeyAt(pl, h, at) ==
  CASE pl = "minimax" -> MinimaxLoadApiKey(h, at)
    [] pl = "devin"   -> DevinReadAuth(h, at)
    [] OTHER          -> h[at]

(***************************************************************************)
(* The verdict on one credential from the answers to its requests.         *)
(* "transient" is a failed request or a status that says nothing about the *)
(* credential, "unreadable" a reply without usage in it.  Google's Cloud   *)
(* Code is taken at its word: any JSON object is an answer, "ok" with      *)
(* models or quotas the plugin can show, "empty" without.                  *)
(***************************************************************************)
KeyAnswers == {"ok", "refused", "transient", "unreadable"}
CloudAnswers == KeyAnswers \cup {"empty"}

CopilotFetch(a) == a
DevinTryAuth(a) == a
(* Two hosts: the first that refuses the token or sends an object decides. *)
Decides == {"ok", "empty", "refused"}
CloudCodeJson(a, b) ==
  IF a \in Decides THEN a ELSE IF b \in Decides THEN b ELSE "transient"
CloudVerdicts == {CloudCodeJson(a, b) : a \in CloudAnswers, b \in CloudAnswers}
(* The account is loaded, then its quota, with its project and without;    *)
(* an object without a project in it is as good as one with.               *)
AgyCloudCode(load, hasProject, withProject, without) ==
  IF load \in {"refused", "transient"} THEN load
  ELSE IF hasProject /\ withProject \in {"ok", "empty"} THEN withProject ELSE without
(* One URL twice; shape is what the body itself says.                      *)
MinimaxTryUrls(a, b, shape) ==
  IF "ok" \in {a, b} THEN shape
  ELSE IF "transient" \in {a, b} THEN "transient"
  ELSE IF "refused" \in {a, b} THEN "refused" ELSE "unreadable"
SyntheticFetch(a) == a
(* The subscription is asked for first and may fail.                       *)
ZaiFetch(subscription, quota) == quota
AmpFetch(a) == a
(* User, group, its analytics and rate limits: a refused request is no     *)
(* more than a missing part.  The rates make lines, and so do a group that *)
(* has a balance and its analytics.                                        *)
PerplexityFetch(user, group, analytics, rates) ==
  IF rates = "ok" \/ {group, analytics} = {"ok"} THEN "ok"
  ELSE IF "ok" \in {user, group} THEN "unreadable" ELSE "transient"

(* The verdicts a plugin can come to, with the answers they came from.     *)
Verdicts(pl) ==
  LET A == KeyAnswers
      Pair == {<<a, b>> : a \in A, b \in A}
  IN CASE pl = "copilot"     -> {<<CopilotFetch(a), {a}>> : a \in A}
       [] pl = "devin"       -> {<<DevinTryAuth(a), {a}>> : a \in A}
       [] pl = "antigravity" -> {<<CloudCodeJson(x[1], x[2]),
                                   IF x[1] \in Decides THEN {x[1]}
                                   ELSE {x[1], x[2], CloudCodeJson(x[1], x[2])}>>
                                 : x \in CloudAnswers \X CloudAnswers}
       [] pl = "minimax"     -> {<<MinimaxTryUrls(x[1], x[2], s),
                                   IF x[1] = "ok" THEN {s}
                                   ELSE {x[1], IF x[2] = "ok" THEN s ELSE x[2]}>>
                                 : x \in Pair, s \in A}
       [] pl = "synthetic"   -> {<<SyntheticFetch(a), {a}>> : a \in A}
       [] pl = "zai"         -> {<<ZaiFetch(x[1], x[2]), {x[2]}>> : x \in Pair}
       [] pl = "amp"         -> {<<AmpFetch(a), {a}>> : a \in A}
       [] pl = "perplexity"  -> {<<PerplexityFetch(x[1], x[2], y[1], y[2]),
                                   {x[1], x[2], y[1], y[2]}>>
                                 : x \in Pair, y \in Pair}
AgyVerdicts == {AgyCloudCode(l, p, w, o) : l \in CloudVerdicts, p \in BOOLEAN,
                                           w \in CloudVerdicts, o \in CloudVerdicts}

(* The plugins that do not ask with one credential twice.                  *)
Deduped == {"devin", "antigravity"}

(***************************************************************************)
(* A probe: left are the attempts it still has, at and cred the one it is  *)
(* at, asked the credentials it asked with in order, saw the answers it    *)
(* got, judged the credentials the provider gave a verdict on, err what it *)
(* ends with when nothing works, spent whether it changed a stored token   *)
(* or refreshed although it had a token to ask with, out its outcome.      *)
(***************************************************************************)
KeyOut == {"none", "usage", "login", "failed"}
KeyIdle == [pc |-> "idle", left |-> <<>>, at |-> "none", cred |-> 0, asked |-> <<>>,
            saw |-> {}, judged |-> {}, err |-> "none", spent |-> FALSE, out |-> "none"]
Asked(r) == {r.asked[i] : i \in DOMAIN r.asked}

KeyTypeOK ==
  /\ keyPlugin \in KPlugins
  /\ keyHolds \in [Places(keyPlugin) -> 0..4]
  /\ \A p \in KProbers : LET r == keyProbe[p] IN
       /\ r.pc \in {"idle", "ls", "agyLs", "next", "ask", "clear", "fallback", "save",
                    "refresh", "agy", "done"}
       /\ r.saw \subseteq CloudAnswers /\ r.out \in KeyOut /\ r.err \in KeyOut
       /\ Asked(r) \subseteq 1..4 /\ r.judged \subseteq Asked(r)

(* Credentials 1 and 2 may be anywhere when the probe starts; a refresh    *)
(* with refresh token r gives access token r + 2.                          *)
KeyInit ==
  /\ keyPlugin \in KPlugins
  /\ keyHolds \in [Places(keyPlugin) -> 0..2]
  /\ keyProbe = [p \in KProbers |-> KeyIdle]

Stands(p, pc) == keyProbe[p].pc = pc
Now(p, r) == keyProbe' = [keyProbe EXCEPT ![p] = r]
Ended(r, out) == [r EXCEPT !.pc = "done", !.out = out, !.left = <<>>, !.at = "none", !.cred = 0]

(* The error of a probe that has no attempt left.  devin blames the login  *)
(* if one credential was refused or none was found, minimax reports the    *)
(* first error, the others found nothing.                                  *)
(* Mutant: always blames the login. *)
DevinError_Login(r) == "login"

DevinError(r)   == IF "refused" \in r.saw \/ r.asked = <<>> THEN "login" ELSE "failed"
MinimaxError(r) == IF r.err = "none" THEN "login" ELSE r.err
LastError(r) ==
  CASE keyPlugin = "devin" -> DevinError(r)
    [] keyPlugin = "minimax" -> MinimaxError(r)
    [] OTHER -> "login"

KeyStart(p) ==
  /\ Stands(p, "idle") /\ (keyPlugin = "copilot" \/ \A q \in KProbers : Stands(q, "idle"))
  /\ Now(p, [KeyIdle EXCEPT !.left = Attempts(keyPlugin, keyHolds),
                            !.pc = IF keyPlugin = "antigravity" THEN "ls" ELSE "next"])
  /\ UNCHANGED <<keyPlugin, keyHolds>>

(* antigravity asks a running language server first, its own and then      *)
(* agy's.  A server that stops answering after its port was found fails    *)
(* the probe: the second request is not guarded.                           *)
LanguageServer(p) ==
  LET r == keyProbe[p] IN
  /\ r.pc \in {"ls", "agyLs"}
  /\ \/ Now(p, Ended(r, "usage"))
     \/ Now(p, [r EXCEPT !.pc = IF @ = "ls" THEN "agyLs" ELSE "next"])
     \/ Now(p, Ended([r EXCEPT !.saw = @ \cup {"transient"}], "failed"))
  /\ UNCHANGED <<keyPlugin, keyHolds>>

(* Mutant: asks with a credential again. *)
Repeats_Never(r, k) == FALSE

Repeats(r, k) == keyPlugin \in Deduped /\ k \in Asked(r)

NextKey(p) ==
  LET r == keyProbe[p] IN
  /\ Stands(p, "next")
  /\ IF r.left = <<>>
     THEN Now(p, IF keyPlugin # "antigravity" THEN Ended(r, LastError(r))
                 ELSE [r EXCEPT !.pc = IF r.asked = <<>> \/ "refused" \in r.saw
                                       THEN "refresh" ELSE "agy",
                                !.left = IF r.asked = <<>> \/ "refused" \in r.saw
                                         THEN Found(keyHolds, <<"rt1", "rt2">>) ELSE <<>>])
     ELSE LET k == KeyAt(keyPlugin, keyHolds, Head(r.left))
          IN Now(p, IF k = 0 \/ Repeats(r, k)
                    THEN [r EXCEPT !.left = Tail(@)]
                    ELSE [r EXCEPT !.left = Tail(@), !.at = Head(r.left), !.cred = k,
                                   !.pc = "ask"])
  /\ UNCHANGED <<keyPlugin, keyHolds>>

(* What copilot does with a verdict: only a refused keychain token sends   *)
(* it to another place, and a GitHub CLI token that works is saved.        *)
(* Mutant: an outage clears the cached token as well. *)
CopilotHeard_AnyFailure(r, v) ==
  IF r.at = "keychain" /\ v # "ok" THEN [r EXCEPT !.pc = "clear"]
  ELSE Ended(r, IF v = "ok" THEN "usage" ELSE "failed")

CopilotHeard(r, v) ==
  CASE r.at = "keychain" /\ v = "refused" -> [r EXCEPT !.pc = "clear"]
    [] r.at = "gh" /\ v \in {"ok", "unreadable"} ->
         [r EXCEPT !.pc = "save", !.err = IF v = "ok" THEN "usage" ELSE "failed"]
    [] OTHER -> Ended(r, IF v = "ok" THEN "usage" ELSE IF v = "refused" THEN "login" ELSE "failed")
MinimaxHeard(r, v) ==
  IF v = "ok" THEN Ended(r, "usage")
  ELSE [r EXCEPT !.pc = "next",
                 !.err = IF @ # "none" THEN @ ELSE IF v = "refused" THEN "login" ELSE "failed"]
(* Mutant: a refusal ends the search. *)
ChainHeard_EndsAtRefusal(r, v) ==
  IF v = "transient" THEN [r EXCEPT !.pc = "next"]
  ELSE Ended(r, IF v = "ok" THEN "usage" ELSE "login")

ChainHeard(r, v) == IF v = "ok" THEN Ended(r, "usage") ELSE [r EXCEPT !.pc = "next"]
(* The first object ends antigravity's search, whether it has models or    *)
(* not: without, no other token is tried, none refreshed, nor agy's asked. *)
AntigravityHeard(r, v) ==
  CASE v = "ok"    -> Ended(r, "usage")
    [] v = "empty" -> Ended(r, "login")
    [] OTHER       -> [r EXCEPT !.pc = IF @ = "ask" THEN "next" ELSE @]
FirstHeard(r, v) ==
  Ended(r, IF v = "ok" THEN "usage" ELSE IF v = "refused" THEN "login" ELSE "failed")

(* The provider's verdict v on credential k, with the answers behind it.   *)
Answered(r, k, v) ==
  [r EXCEPT !.asked = Append(@, k), !.saw = @ \cup v[2],
            !.judged = IF v[1] = "transient" THEN @ ELSE @ \cup {k}]

Ask(p) ==
  /\ Stands(p, "ask")
  /\ \E v \in Verdicts(keyPlugin) :
       LET r == Answered(keyProbe[p], keyProbe[p].cred, v)
       IN Now(p, CASE keyPlugin = "copilot" -> CopilotHeard(r, v[1])
                   [] keyPlugin = "minimax" -> MinimaxHeard(r, v[1])
                   [] keyPlugin = "devin"   -> ChainHeard(r, v[1])
                   [] keyPlugin = "antigravity" -> AntigravityHeard(r, v[1])
                   [] OTHER                 -> FirstHeard(r, v[1]))
  /\ UNCHANGED <<keyPlugin, keyHolds>>

(* The refused token is cleared where it was cached, whatever is there     *)
(* now; either write may fail and is only logged.                          *)
ClearCachedToken(p) ==
  /\ Stands(p, "clear")
  /\ \E ok \in SUBSET {"keychain", "state"} :
       keyHolds' = [x \in DOMAIN keyHolds |-> IF x \in ok THEN 0 ELSE keyHolds[x]]
  /\ Now(p, [keyProbe[p] EXCEPT !.pc = "fallback", !.spent = TRUE])
  /\ UNCHANGED keyPlugin

CopilotFallback(p) ==
  /\ Stands(p, "fallback")
  /\ Now(p, IF keyHolds["gh"] = 0 THEN Ended(keyProbe[p], "login")
            ELSE [keyProbe[p] EXCEPT !.at = "gh", !.cred = keyHolds["gh"], !.pc = "ask"])
  /\ UNCHANGED <<keyPlugin, keyHolds>>

SaveToken(p) ==
  /\ Stands(p, "save")
  /\ \E ok \in SUBSET {"keychain", "state"} :
       keyHolds' = [x \in DOMAIN keyHolds |->
                      IF x \in ok THEN keyProbe[p].cred ELSE keyHolds[x]]
  /\ Now(p, Ended([keyProbe[p] EXCEPT !.spent = TRUE], keyProbe[p].err))
  /\ UNCHANGED keyPlugin

(* antigravity refreshes with each refresh token until a new access token  *)
(* is answered; the new one is cached, the file may fail to be written.    *)
RefreshedKey(r, rt) ==
  [r EXCEPT !.left = Among(Tail(@), {x \in DOMAIN keyHolds : keyHolds[x] # rt}),
            !.spent = @ \/ (r.asked # <<>> /\ r.asked[1] <= 2)]

RefreshAccessToken(p) ==
  LET r == keyProbe[p]
      rt == keyHolds[Head(r.left)]
  IN
  /\ Stands(p, "refresh")
  /\ \/ r.left = <<>> /\ Now(p, [r EXCEPT !.pc = "agy"]) /\ UNCHANGED keyHolds
     \/ /\ r.left # <<>>
        /\ \E v \in Verdicts("antigravity"), cached \in BOOLEAN :
             /\ keyHolds' = IF cached THEN [keyHolds EXCEPT !["cache"] = rt + 2] ELSE keyHolds
             /\ Now(p, AntigravityHeard(Answered(RefreshedKey(r, rt), rt + 2, v), v[1]))
     \/ r.left # <<>> /\ Now(p, RefreshedKey(r, rt)) /\ UNCHANGED keyHolds
  /\ UNCHANGED keyPlugin

(* The last resort is the agy keychain token; antigravity has one error.   *)
AskAgy(p) ==
  LET r == keyProbe[p]
      k == keyHolds["agy"]
  IN
  /\ Stands(p, "agy")
  /\ IF k = 0 THEN Now(p, Ended(r, "login"))
     ELSE \E v \in AgyVerdicts :
            Now(p, Ended(Answered(r, k, <<v, {v}>>), IF v = "ok" THEN "usage" ELSE "login"))
  /\ UNCHANGED <<keyPlugin, keyHolds>>

(* The user signs in with the GitHub CLI.                                  *)
GhAuthLogin ==
  /\ keyPlugin = "copilot" /\ keyHolds["gh"] \in {0, 1}
  /\ keyHolds' = [keyHolds EXCEPT !["gh"] = 2]
  /\ UNCHANGED <<keyPlugin, keyProbe>>

KeyNext ==
  \/ \E p \in KProbers :
       \/ KeyStart(p) \/ LanguageServer(p) \/ NextKey(p) \/ Ask(p)
       \/ ClearCachedToken(p) \/ CopilotFallback(p) \/ SaveToken(p)
       \/ RefreshAccessToken(p) \/ AskAgy(p)
  \/ GhAuthLogin

KeySpec == KeyInit /\ [][KeyNext]_keyVars
-----------------------------------------------------------------------------
(* The credentials a plugin that goes on after a refusal can ask with: of  *)
(* minimax's variables, the first that is set for either endpoint.         *)
CanAskWith ==
  CASE keyPlugin = "minimax" -> {KeyAt("minimax", keyHolds, e) : e \in {"CN", "GLOBAL"}}
    [] keyPlugin \in Deduped ->
         {keyHolds[x] : x \in Places(keyPlugin) \ {"rt1", "rt2"}}
    [] OTHER -> {}

(* A stale credential in one place never hides a good one in another:      *)
(* a probe that ends with an error and met no outage has had the           *)
(* provider's verdict on every credential of every place it can use.  What *)
(* may hide one is an account without models: antigravity ends with the    *)
(* first token that Cloud Code accepts, even if its answer is empty.       *)
GoodNotMasked ==
  \A p \in KProbers : LET r == keyProbe[p] IN
    (r.out \in {"login", "failed"} /\ {"transient", "empty"} \cap r.saw = {}) =>
      CanAskWith \subseteq {0} \cup r.judged

(* docs/providers/antigravity.md:263-269 lists what antigravity tries, the *)
(* access tokens (4), agy's keychain token (6), and ends "If all           *)
(* strategies fail: error".  The code ends with that error at the first    *)
(* empty answer, with tokens left and agy's not asked.                     *)
StrategiesAreTried ==
  \A p \in KProbers : LET r == keyProbe[p] IN
    (keyPlugin = "antigravity" /\ r.out = "login") =>
      \A x \in {"db1", "db2", "cache", "agy"} : keyHolds[x] \in {0} \cup Asked(r)

(* One probe never asks twice with one credential where the code promises  *)
(* it: a refused one is not worth a second request.  antigravity's agy     *)
(* token is asked of another service.                                      *)
AskedOnce ==
  \A p \in KProbers : LET r == keyProbe[p] IN
    (keyPlugin \in Deduped) =>
      \A i, j \in DOMAIN r.asked :
        (i < j /\ r.asked[i] = r.asked[j]) =>
          keyPlugin = "antigravity" /\ r.asked[j] = keyHolds["agy"] /\ j = Len(r.asked)

(* An outage changes nothing on the machine: a probe that asked and was    *)
(* answered by failures only has cleared, saved and refreshed no token.    *)
OutageChangesNothing ==
  \A p \in KProbers : LET r == keyProbe[p] IN
    (r.asked # <<>> /\ r.saw \subseteq {"transient"}) => ~r.spent

(* The user is told to sign in, or that a key is invalid, only when the    *)
(* provider refused one or none was found; antigravity has only this one   *)
(* error and says so in an outage too.                                     *)
LoginMeansRefused ==
  \A p \in KProbers : LET r == keyProbe[p] IN
    (r.out = "login" /\ keyPlugin # "antigravity") =>
      "refused" \in r.saw \/ r.asked = <<>>

-----------------------------------------------------------------------------
(* Why they hold: the inductive invariant, most of it about one probe r.   *)

Attemptable == IF keyPlugin = "minimax" THEN {"CN", "GLOBAL"} ELSE Places(keyPlugin)
KeyRecord ==
  [pc : {"idle", "ls", "agyLs", "next", "ask", "clear", "fallback", "save",
         "refresh", "agy", "done"},
   left : Seq(Attemptable), at : Attemptable \cup {"none"}, cred : 0..4, asked : Seq(1..4),
   saw : SUBSET CloudAnswers, judged : SUBSET (1..4), err : KeyOut, spent : BOOLEAN, out : KeyOut]
Searching == {"ls", "agyLs", "next", "ask"}

RecordOK(r) ==
  /\ r \in KeyRecord /\ r.judged \subseteq Asked(r)
  /\ r.pc = "idle" => r = KeyIdle
  /\ r.pc # "done" => r.out = "none"
  /\ r.pc \in {"ask", "save"} => r.cred # 0
  /\ r.pc \in {"clear", "fallback", "save"} => keyPlugin = "copilot"
  /\ r.pc \in {"ls", "agyLs", "refresh", "agy"} => keyPlugin = "antigravity"

(* A plugin but copilot is probed by one probe alone, and what it finds    *)
(* stays as it was until it caches a token it refreshed.                   *)
OneAtATime ==
  keyPlugin # "copilot" =>
    \A p, q \in KProbers : Stands(p, "idle") \/ Stands(q, "idle") \/ p = q
FoundAsItWas ==
  keyPlugin = "antigravity" =>
    \A x \in Places(keyPlugin) :
      \/ keyHolds[x] <= 2
      \/ x = "cache" /\ \E p \in KProbers : keyProbe[p].pc \in {"refresh", "agy", "done"}

(* A token is cleared, saved or refreshed because of what was answered.    *)
SpentIsTold(r) ==
  /\ r.spent => ~(r.saw \subseteq {"transient"})
  /\ r.pc \in {"clear", "fallback"} => "refused" \in r.saw
  /\ r.pc = "save" => ~(r.saw \subseteq {"transient"}) /\ r.err \in {"usage", "failed"}
  /\ r.pc = "refresh" => r.asked = <<>> \/ "refused" \in r.saw \/ r.asked[1] > 2

(* An error that blames the login will have had a refusal, or no key.      *)
BlameIsDue(r) ==
  /\ r.pc = "next" => keyPlugin \in Deduped \cup {"minimax"} \/ r.asked = <<>>
  /\ keyPlugin = "minimax" =>
       /\ r.pc = "next" /\ r.err = "none" => r.asked = <<>>
       /\ r.err = "login" => "refused" \in r.saw

(* Every place that the search covers is still to be looked into, is being *)
(* asked with or was, and what was asked with has a verdict.               *)
Covered ==
  CASE keyPlugin = "antigravity" -> {"db1", "db2", "cache"}
    [] keyPlugin \in {"devin", "minimax"} -> Attemptable
    [] OTHER -> {}
Heard(r, k) == k \in r.judged \/ "transient" \in r.saw
Accounted(r) ==
  /\ r.pc \notin {"idle", "done"} =>
       \A x \in Covered :
         \/ x \in {r.left[i] : i \in DOMAIN r.left}
         \/ KeyAt(keyPlugin, keyHolds, x) \in {0} \cup Asked(r)
         \/ r.pc = "ask" /\ KeyAt(keyPlugin, keyHolds, x) = r.cred
  /\ keyPlugin \in Deduped \cup {"minimax"} => \A k \in Asked(r) : Heard(r, k)

(* No credential is asked with twice, nor will be: those that antigravity  *)
(* found are at most 2, those it refreshes are greater, and each of the    *)
(* refresh tokens it has left gives a new one.                             *)
NoRepeat(r) ==
  keyPlugin \in Deduped =>
    /\ r.pc # "done" => \A i, j \in DOMAIN r.asked : i < j => r.asked[i] # r.asked[j]
    /\ r.pc = "ask" => r.cred \notin Asked(r)
    /\ keyPlugin = "antigravity" /\ r.pc \in Searching =>
         /\ Asked(r) \subseteq 1..2 /\ r.cred <= 2
         /\ \A i \in DOMAIN r.left : r.left[i] \in Covered
    /\ r.pc = "agy" => r.left = <<>>
    /\ r.pc = "refresh" =>
         \A i \in DOMAIN r.left :
           /\ r.left[i] \in {"rt1", "rt2"} /\ keyHolds[r.left[i]] # 0
           /\ keyHolds[r.left[i]] + 2 \notin Asked(r)

(* All of it: one probe's promises, with copilot's tokens changing under    *)
(* it, and nothing else changing under the others.                          *)
KeyIInv ==
  /\ KeyTypeOK
  /\ keyProbe \in [KProbers -> KeyRecord]
  /\ OneAtATime
  /\ FoundAsItWas
  /\ \A p \in KProbers : LET r == keyProbe[p] IN
       RecordOK(r) /\ SpentIsTold(r) /\ BlameIsDue(r) /\ Accounted(r) /\ NoRepeat(r)
  /\ GoodNotMasked
  /\ AskedOnce
  /\ OutageChangesNothing
  /\ LoginMeansRefused
=============================================================================
