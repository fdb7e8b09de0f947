------------------------------- MODULE KeyProofs -------------------------------
(***************************************************************************)
(* Proofs about the plugins that ask with a key, for any of them and any   *)
(* number of probes.                                                       *)
(***************************************************************************)
EXTENDS KeyProbe, InductionFacts

KeyNames == {"copilot", "devin", "antigravity", "minimax", "synthetic", "zai", "amp", "perplexity"}

LEMMA KeyPluginNames ==
  DOMAIN KeyOrder = KeyNames /\ KPlugins \subseteq KeyNames
BY KeyAssumption DEF KeyOrder, KeyNames

LEMMA PlacesAre ==
  /\ Places("copilot") = {"keychain", "gh", "state"}
  /\ Places("devin") = {"file", "app", "next"}
  /\ Places("antigravity") = {"db1", "db2", "cache", "rt1", "rt2", "agy"}
  /\ Places("minimax") = {"cnKey", "key", "token"}
  /\ Places("synthetic") = {"pi", "models", "factory", "opencode", "env"}
  /\ Places("zai") = {"zai", "glm"}
  /\ Places("amp") = {"secrets"}
  /\ Places("perplexity") = {"cache1", "cache2"}
<1>1. Places("copilot") = {"keychain", "gh", "state"}
  BY DEF Places, KeyOrder
<1>2. Places("devin") = {"file", "app", "next"}
  BY DEF Places, KeyOrder
<1>3. Places("antigravity") = {"db1", "db2", "cache", "rt1", "rt2", "agy"}
  BY DEF Places, KeyOrder
<1>4. Places("minimax") = {"cnKey", "key", "token"}
  BY DEF Places, KeyOrder
<1>5. Places("synthetic") = {"pi", "models", "factory", "opencode", "env"}
  BY DEF Places, KeyOrder
<1>6. Places("zai") = {"zai", "glm"}
  BY DEF Places, KeyOrder
<1>7. Places("amp") = {"secrets"}
  BY DEF Places, KeyOrder
<1>8. Places("perplexity") = {"cache1", "cache2"}
  BY DEF Places, KeyOrder
<1> QED BY <1>1, <1>2, <1>3, <1>4, <1>5, <1>6, <1>7, <1>8

LEMMA PlaceOrder ==
  ASSUME NEW pl \in KeyNames \ {"antigravity"}
  PROVE  KeyOrder[pl] \in Seq(Places(pl)) /\ ToSet(KeyOrder[pl]) = Places(pl)
<1>1. KeyOrder[pl] \in Seq(Places(pl))
  <2>1. CASE pl = "copilot"
    <3>1. KeyOrder[pl] = <<"keychain", "gh", "state">>
      BY <2>1 DEF KeyOrder
    <3> QED BY <2>1, <3>1, PlacesAre
  <2>2. CASE pl = "devin"
    <3>1. KeyOrder[pl] = <<"file", "app", "next">>
      BY <2>2 DEF KeyOrder
    <3> QED BY <2>2, <3>1, PlacesAre
  <2>3. CASE pl = "minimax"
    <3>1. KeyOrder[pl] = <<"cnKey", "key", "token">>
      BY <2>3 DEF KeyOrder
    <3> QED BY <2>3, <3>1, PlacesAre
  <2>4. CASE pl = "synthetic"
    <3>1. KeyOrder[pl] = <<"pi", "models", "factory", "opencode", "env">>
      BY <2>4 DEF KeyOrder
    <3> QED BY <2>4, <3>1, PlacesAre
  <2>5. CASE pl = "zai"
    <3>1. KeyOrder[pl] = <<"zai", "glm">>
      BY <2>5 DEF KeyOrder
    <3> QED BY <2>5, <3>1, PlacesAre
  <2>6. CASE pl = "amp"
    <3>1. KeyOrder[pl] = <<"secrets">>
      BY <2>6 DEF KeyOrder
    <3> QED BY <2>6, <3>1, PlacesAre
  <2>7. CASE pl = "perplexity"
    <3>1. KeyOrder[pl] = <<"cache1", "cache2">>
      BY <2>7 DEF KeyOrder
    <3> QED BY <2>7, <3>1, PlacesAre
  <2> QED BY <2>1, <2>2, <2>3, <2>4, <2>5, <2>6, <2>7 DEF KeyNames
<1> QED BY <1>1 DEF ToSet, Places

(***************************************************************************)
(* Found finds the places of the list that hold a credential.              *)
(***************************************************************************)
LEMMA FoundFacts ==
  ASSUME NEW T, NEW order \in Seq(T), NEW h, T \subseteq DOMAIN h
  PROVE  /\ Found(h, order) \in Seq(T)
         /\ ToSet(Found(h, order)) = {x \in ToSet(order) : h[x] # 0}
<1> DEFINE S == {x \in DOMAIN h : h[x] # 0}
<1>1. Among(order, S) \in Seq(T) /\ ToSet(Among(order, S)) = ToSet(order) \cap S
  <2> HIDE DEF S
  <2> QED BY AmongFacts
<1>2. ToSet(order) \subseteq T
  BY LenProperties, ElementOfSeq DEF ToSet
<1> QED BY <1>1, <1>2 DEF Found

LEMMA FirstFoundFacts ==
  ASSUME NEW T, NEW order \in Seq(T), NEW h, T \subseteq DOMAIN h
  PROVE  /\ FirstFound(h, order) \in Seq(T)
         /\ FirstFound(h, order) # <<>> => /\ FirstFound(h, order)[1] \in T
                                           /\ h[FirstFound(h, order)[1]] # 0
<1> DEFINE f == Found(h, order)
<1>1. f \in Seq(T) /\ \A x \in ToSet(f) : x \in T /\ h[x] # 0
  BY FoundFacts, LenProperties, ElementOfSeq DEF ToSet
<1> HIDE DEF f
<1>2. FirstFound(h, order) = IF f = <<>> THEN f ELSE <<Head(f)>>
  BY DEF FirstFound, First, f
<1>3. CASE f = <<>>
  BY <1>1, <1>2, <1>3
<1>4. CASE f # <<>>
  <2>1. Head(f) = f[1] /\ 1 \in DOMAIN f /\ Head(f) \in T
    BY <1>1, <1>4, HeadTailProperties, LenProperties, EmptySeq
  <2>2. Head(f) \in ToSet(f)
    BY <2>1 DEF ToSet
  <2> QED BY <1>1, <1>2, <1>4, <2>1, <2>2
<1> QED BY <1>3, <1>4

AttemptsOf(pl) == IF pl = "minimax" THEN {"CN", "GLOBAL"} ELSE Places(pl)

LEMMA AttemptFacts ==
  ASSUME NEW pl \in KeyNames, NEW h \in [Places(pl) -> 0..4]
  PROVE  /\ Attempts(pl, h) \in Seq(AttemptsOf(pl))
         /\ pl \in {"devin", "minimax"} => ToSet(Attempts(pl, h)) = AttemptsOf(pl)
         /\ pl = "antigravity" =>
              ToSet(Attempts(pl, h)) = {x \in {"db1", "db2", "cache"} : h[x] # 0}
<1>1. CASE pl \in {"copilot", "synthetic", "zai", "amp", "perplexity"}
  <2>1. Attempts(pl, h) = FirstFound(h, KeyOrder[pl])
    BY <1>1 DEF Attempts, CopilotLoadToken, SyntheticLoadApiKey, ZaiLoadApiKey, AmpLoadApiKey,
                PerplexityLoadSession
  <2>2. KeyOrder[pl] \in Seq(Places(pl)) /\ DOMAIN h = Places(pl)
    BY <1>1, PlaceOrder
  <2> QED BY <1>1, <2>1, <2>2, FirstFoundFacts DEF AttemptsOf
<1>2. CASE pl = "devin"
  <2>1. Attempts(pl, h) = KeyOrder[pl]
    BY <1>2 DEF Attempts, DevinSources
  <2> QED BY <1>2, <2>1, PlaceOrder DEF AttemptsOf
<1>3. CASE pl = "antigravity"
  <2>1. Attempts(pl, h) = Found(h, <<"db1", "db2", "cache">>)
    BY <1>3 DEF Attempts, AntigravityTokens
  <2>2. <<"db1", "db2", "cache">> \in Seq(Places(pl)) /\ DOMAIN h = Places(pl)
    BY <1>3, PlacesAre
  <2>3. ToSet(<<"db1", "db2", "cache">>) = {"db1", "db2", "cache"}
    BY DEF ToSet
  <2>4. Found(h, <<"db1", "db2", "cache">>) \in Seq(Places(pl))
        /\ ToSet(Found(h, <<"db1", "db2", "cache">>))
             = {x \in ToSet(<<"db1", "db2", "cache">>) : h[x] # 0}
    <3> DEFINE T == Places(pl)  order == <<"db1", "db2", "cache">>
    <3>1. order \in Seq(T) /\ T \subseteq DOMAIN h
      BY <2>2
    <3> HIDE DEF T, order
    <3>2. Found(h, order) \in Seq(T) /\ ToSet(Found(h, order)) = {x \in ToSet(order) : h[x] # 0}
      BY <3>1, FoundFacts
    <3> QED BY <3>2 DEF T, order
  <2> QED BY <1>3, <2>1, <2>3, <2>4 DEF AttemptsOf
<1>4. CASE pl = "minimax"
  <2>1. Attempts(pl, h) = IF h["cnKey"] # 0 THEN <<"CN", "GLOBAL">> ELSE <<"GLOBAL", "CN">>
    BY <1>4 DEF Attempts, MinimaxAttempts
  <2>2. ToSet(<<"CN", "GLOBAL">>) = {"CN", "GLOBAL"} /\ ToSet(<<"GLOBAL", "CN">>) = {"CN", "GLOBAL"}
    BY DEF ToSet
  <2>3. <<"CN", "GLOBAL">> \in Seq({"CN", "GLOBAL"}) /\ <<"GLOBAL", "CN">> \in Seq({"CN", "GLOBAL"})
    OBVIOUS
  <2> QED BY <1>4, <2>1, <2>2, <2>3 DEF AttemptsOf
<1> QED BY <1>1, <1>2, <1>3, <1>4 DEF KeyNames

LEMMA KeyAtFacts ==
  ASSUME NEW pl \in KeyNames, NEW h \in [Places(pl) -> 0..4], NEW at \in AttemptsOf(pl)
  PROVE  KeyAt(pl, h, at) \in 0..4 /\ (pl # "minimax" => KeyAt(pl, h, at) = h[at])
<1>1. CASE pl # "minimax"
  <2>1. KeyAt(pl, h, at) = h[at]
    BY <1>1 DEF KeyAt, DevinReadAuth
  <2> QED BY <1>1, <2>1 DEF AttemptsOf
<1>2. CASE pl = "minimax"
  <2> DEFINE order == IF at = "CN" THEN KeyOrder.minimax ELSE <<"key", "token">>
             f == FirstFound(h, order)
  <2>1. KeyAt(pl, h, at) = IF f = <<>> THEN 0 ELSE h[f[1]]
    BY <1>2 DEF KeyAt, MinimaxLoadApiKey
  <2>2. order \in Seq(Places(pl)) /\ DOMAIN h = Places(pl)
    <3>1. KeyOrder.minimax \in Seq(Places(pl))
      BY <1>2, PlaceOrder
    <3>2. <<"key", "token">> \in Seq(Places(pl))
      BY <1>2, PlacesAre
    <3> QED BY <3>1, <3>2
  <2> HIDE DEF order
  <2>3. f # <<>> => f[1] \in Places(pl)
    BY <2>2, FirstFoundFacts
  <2> QED BY <1>2, <2>1, <2>3
<1> QED BY <1>1, <1>2

(***************************************************************************)
(* What the answers say of the verdict they lead to.                       *)
(***************************************************************************)
VerdictOK(pl, v) ==
  /\ v[1] \in CloudAnswers /\ v[2] \subseteq CloudAnswers
  /\ v[1] = "refused" => "refused" \in v[2]
  /\ pl # "perplexity" /\ v[1] = "transient" => "transient" \in v[2]
  /\ pl = "copilot" => v[1] \in v[2]
  /\ pl # "antigravity" => v[1] # "empty"
  /\ v[1] = "empty" => "empty" \in v[2]

LEMMA VerdictFacts ==
  ASSUME NEW pl \in KeyNames, NEW v \in Verdicts(pl)
  PROVE  VerdictOK(pl, v)
<1>0. KeyAnswers \subseteq CloudAnswers /\ "empty" \notin KeyAnswers
  BY DEF KeyAnswers, CloudAnswers
<1>1. CASE pl \in {"copilot", "devin", "synthetic", "amp"}
  <2>1. \E a \in KeyAnswers : v = <<a, {a}>>
    BY <1>1 DEF Verdicts, CopilotFetch, DevinTryAuth, SyntheticFetch, AmpFetch
  <2> QED BY <1>0, <2>1 DEF VerdictOK
<1>2. CASE pl = "antigravity"
  <2>1. PICK a \in CloudAnswers, b \in CloudAnswers :
          v = <<CloudCodeJson(a, b), IF a \in Decides THEN {a}
                                     ELSE {a, b, CloudCodeJson(a, b)}>>
    BY <1>2 DEF Verdicts
  <2>2. CASE a \in Decides
    BY <2>1, <2>2, <1>2 DEF VerdictOK, CloudCodeJson
  <2>3. CASE a \notin Decides
    <3>1. CloudCodeJson(a, b) \in CloudAnswers
      BY <2>3 DEF CloudCodeJson, CloudAnswers, KeyAnswers
    <3> QED BY <2>1, <2>3, <3>1, <1>2 DEF VerdictOK
  <2> QED BY <2>2, <2>3
<1>3. CASE pl = "minimax"
  <2>1. PICK a \in KeyAnswers, b \in KeyAnswers, s \in KeyAnswers :
          v = <<MinimaxTryUrls(a, b, s), IF a = "ok" THEN {s}
                                         ELSE {a, IF b = "ok" THEN s ELSE b}>>
    BY <1>3 DEF Verdicts
  <2>2. CASE a = "ok"
    BY <1>0, <2>1, <2>2, <1>3 DEF VerdictOK, MinimaxTryUrls
  <2>3. CASE a # "ok" /\ b = "ok"
    BY <1>0, <2>1, <2>3, <1>3 DEF VerdictOK, MinimaxTryUrls
  <2>4. CASE a # "ok" /\ b # "ok"
    BY <2>1, <2>4, <1>3 DEF VerdictOK, MinimaxTryUrls, KeyAnswers, CloudAnswers
  <2> QED BY <2>2, <2>3, <2>4
<1>4. CASE pl = "zai"
  <2>1. \E a \in KeyAnswers : v = <<a, {a}>>
    BY <1>4 DEF Verdicts, ZaiFetch
  <2> QED BY <1>0, <2>1, <1>4 DEF VerdictOK
<1>5. CASE pl = "perplexity"
  <2>1. PICK a \in KeyAnswers, b \in KeyAnswers, u \in KeyAnswers, r \in KeyAnswers :
          v = <<PerplexityFetch(a, b, u, r), {a, b, u, r}>>
    BY <1>5 DEF Verdicts
  <2>2. PerplexityFetch(a, b, u, r) \in {"ok", "unreadable", "transient"}
    BY DEF PerplexityFetch
  <2> QED BY <2>1, <2>2, <1>5 DEF VerdictOK, KeyAnswers, CloudAnswers
<1> QED BY <1>1, <1>2, <1>3, <1>4, <1>5 DEF KeyNames

(***************************************************************************)
(* The invariant, probe by probe.                                          *)
(***************************************************************************)
GoodTold(r) ==
  (r.out \in {"login", "failed"} /\ {"transient", "empty"} \cap r.saw = {}) =>
    CanAskWith \subseteq {0} \cup r.judged
OnceTold(r) ==
  keyPlugin \in Deduped =>
    \A i, j \in DOMAIN r.asked :
      (i < j /\ r.asked[i] = r.asked[j]) =>
        keyPlugin = "antigravity" /\ r.asked[j] = keyHolds["agy"] /\ j = Len(r.asked)
OutageTold(r) == (r.asked # <<>> /\ r.saw \subseteq {"transient"}) => ~r.spent
LoginTold(r) ==
  (r.out = "login" /\ keyPlugin # "antigravity") => "refused" \in r.saw \/ r.asked = <<>>
Told(r) == GoodTold(r) /\ OnceTold(r) /\ OutageTold(r) /\ LoginTold(r)

Whole(r) ==
  RecordOK(r) /\ SpentIsTold(r) /\ BlameIsDue(r) /\ Accounted(r) /\ NoRepeat(r) /\ Told(r)

Common ==
  /\ keyPlugin \in KPlugins
  /\ keyHolds \in [Places(keyPlugin) -> 0..4]
  /\ keyProbe \in [KProbers -> KeyRecord]
  /\ OneAtATime
  /\ FoundAsItWas

LEMMA AskedIsTyped ==
  ASSUME NEW r, NEW s, r.asked \in Seq(s)
  PROVE  Asked(r) \subseteq s
BY LenProperties, ElementOfSeq DEF Asked

KeySound == Common /\ \A p \in KProbers : Whole(keyProbe[p])

LEMMA Parts ==
  KeyIInv <=> KeySound
<1>1. KeyIInv => Common
  BY DEF KeyIInv, KeyTypeOK, Common
<1>2. ASSUME KeyIInv, NEW p \in KProbers
      PROVE  Whole(keyProbe[p])
  <2>1. /\ RecordOK(keyProbe[p]) /\ SpentIsTold(keyProbe[p]) /\ BlameIsDue(keyProbe[p])
        /\ Accounted(keyProbe[p]) /\ NoRepeat(keyProbe[p])
    BY <1>2 DEF KeyIInv
  <2>2. GoodTold(keyProbe[p])
    BY <1>2 DEF KeyIInv, GoodNotMasked, GoodTold
  <2>3. OnceTold(keyProbe[p])
    BY <1>2 DEF KeyIInv, AskedOnce, OnceTold
  <2>4. OutageTold(keyProbe[p])
    BY <1>2 DEF KeyIInv, OutageChangesNothing, OutageTold
  <2>5. LoginTold(keyProbe[p])
    BY <1>2 DEF KeyIInv, LoginMeansRefused, LoginTold
  <2> QED BY <2>1, <2>2, <2>3, <2>4, <2>5 DEF Whole, Told
<1>3. ASSUME Common, \A p \in KProbers : Whole(keyProbe[p])
      PROVE  KeyIInv
  <2>1. \A p \in KProbers : LET r == keyProbe[p] IN
          RecordOK(r) /\ SpentIsTold(r) /\ BlameIsDue(r) /\ Accounted(r) /\ NoRepeat(r)
    BY <1>3 DEF Whole
  <2>2. GoodNotMasked
    BY <1>3 DEF Whole, Told, GoodNotMasked, GoodTold
  <2>3. AskedOnce
    BY <1>3 DEF Whole, Told, AskedOnce, OnceTold
  <2>4. OutageChangesNothing
    BY <1>3 DEF Whole, Told, OutageChangesNothing, OutageTold
  <2>5. LoginMeansRefused
    BY <1>3 DEF Whole, Told, LoginMeansRefused, LoginTold
  <2>6. KeyTypeOK
    <3>1. ASSUME NEW p \in KProbers
          PROVE  LET r == keyProbe[p] IN
                 /\ r.pc \in {"idle", "ls", "agyLs", "next", "ask", "clear", "fallback", "save",
                              "refresh", "agy", "done"}
                 /\ r.saw \subseteq CloudAnswers /\ r.out \in KeyOut /\ r.err \in KeyOut
                 /\ Asked(r) \subseteq 1..4 /\ r.judged \subseteq Asked(r)
      <4>1. keyProbe[p] \in KeyRecord /\ keyProbe[p].judged \subseteq Asked(keyProbe[p])
        BY <2>1 DEF RecordOK
      <4>2. Asked(keyProbe[p]) \subseteq 1..4
        BY <4>1, AskedIsTyped DEF KeyRecord
      <4> QED BY <4>1, <4>2 DEF KeyRecord
    <3> QED BY <3>1, <1>3 DEF KeyTypeOK, Common
  <2> QED BY <2>1, <2>2, <2>3, <2>4, <2>5, <2>6, <1>3 DEF KeyIInv, Common
<1> QED BY <1>1, <1>2, <1>3 DEF KeySound

(***************************************************************************)
(* What is true of a probe depends on nothing but what the machine holds,  *)
(* and for copilot not even on that.                                       *)
(***************************************************************************)
LEMMA SameHolds ==
  ASSUME NEW r, Whole(r), UNCHANGED <<keyPlugin, keyHolds>>
  PROVE  Whole(r)'
<1>1. keyPlugin' = keyPlugin /\ keyHolds' = keyHolds
  OBVIOUS
<1>2. Covered' = Covered /\ CanAskWith' = CanAskWith
  BY <1>1 DEF Covered, CanAskWith, Attemptable
<1>3. RecordOK(r)' /\ SpentIsTold(r)' /\ BlameIsDue(r)'
  BY <1>1 DEF Whole, RecordOK, KeyRecord, Attemptable, SpentIsTold, BlameIsDue
<1>4. Accounted(r)'
  BY <1>1, <1>2 DEF Whole, Accounted, Heard, Asked
<1>5. NoRepeat(r)'
  BY <1>1, <1>2 DEF Whole, NoRepeat, Asked
<1>6. Told(r)'
  BY <1>1, <1>2 DEF Whole, Told, GoodTold, OnceTold, OutageTold, LoginTold
<1> QED BY <1>3, <1>4, <1>5, <1>6 DEF Whole

LEMMA CopilotHolds ==
  ASSUME NEW r, Whole(r), keyPlugin = "copilot", UNCHANGED keyPlugin
  PROVE  Whole(r)'
BY DEF Whole, RecordOK, KeyRecord, Attemptable, SpentIsTold, BlameIsDue, Accounted, Covered, Heard,
       NoRepeat, Told, GoodTold, OnceTold, OutageTold, LoginTold, CanAskWith, Asked, Deduped

LEMMA KeyIdleFacts ==
  /\ KeyIdle \in KeyRecord /\ Asked(KeyIdle) = {} /\ KeyIdle.pc = "idle" /\ KeyIdle.asked = <<>>
  /\ KeyIdle.saw = {} /\ KeyIdle.judged = {} /\ KeyIdle.err = "none" /\ KeyIdle.out = "none"
  /\ KeyIdle.spent = FALSE
<1>1. <<>> \in Seq(Attemptable) /\ <<>> \in Seq(1..4)
  BY EmptySeq
<1>2. Asked(KeyIdle) = {}
  BY DEF Asked, KeyIdle
<1> QED BY <1>1, <1>2 DEF KeyIdle, KeyRecord, KeyOut

LEMMA IdleIsWhole ==
  Whole(KeyIdle)
<1>1. RecordOK(KeyIdle)
  BY KeyIdleFacts DEF RecordOK
<1>2. SpentIsTold(KeyIdle) /\ BlameIsDue(KeyIdle) /\ Accounted(KeyIdle)
  BY KeyIdleFacts DEF SpentIsTold, BlameIsDue, Accounted
<1>3. NoRepeat(KeyIdle) /\ Told(KeyIdle)
  BY KeyIdleFacts DEF NoRepeat, Told, GoodTold, OnceTold, OutageTold, LoginTold, Searching
<1> QED BY <1>1, <1>2, <1>3 DEF Whole

(***************************************************************************)
(* Asking once more.                                                       *)
(***************************************************************************)
Distinct(s) == \A i, j \in DOMAIN s : i < j => s[i] # s[j]
RangeOf(s) == {s[i] : i \in DOMAIN s}

LEMMA OneMore ==
  ASSUME NEW s \in Seq(1..4), NEW k \in 1..4
  PROVE  /\ Append(s, k) \in Seq(1..4) /\ Append(s, k) # <<>>
         /\ RangeOf(Append(s, k)) = RangeOf(s) \cup {k}
         /\ Distinct(s) /\ k \notin RangeOf(s) => Distinct(Append(s, k))
         /\ Distinct(s) => \A i, j \in DOMAIN Append(s, k) :
              i < j /\ Append(s, k)[i] = Append(s, k)[j] => j = Len(Append(s, k)) /\ Append(s, k)[j] = k
         /\ Append(s, k)[1] = IF s = <<>> THEN k ELSE s[1]
<1> DEFINE t == Append(s, k)  n == Len(s)
<1>1. /\ n \in Nat /\ t \in Seq(1..4) /\ Len(t) = n + 1 /\ t[n + 1] = k
      /\ \A i \in 1..n : t[i] = s[i]
      /\ DOMAIN s = 1..n /\ DOMAIN t = 1..(n + 1)
  BY LenProperties, AppendProperties
<1>2. s # <<>> => n > 0
  BY <1>1, EmptySeq, LenProperties
<1>3. s = <<>> => n = 0
  BY EmptySeq
<1>4. t # <<>>
  BY <1>1, EmptySeq
<1> HIDE DEF t, n
<1>5. RangeOf(t) = RangeOf(s) \cup {k}
  <2>1. ASSUME NEW x PROVE x \in RangeOf(t) <=> x \in RangeOf(s) \cup {k}
    <3>1. x \in RangeOf(t) => x \in RangeOf(s) \cup {k}
      BY <1>1 DEF RangeOf
    <3>2. x \in RangeOf(s) => x \in RangeOf(t)
      BY <1>1 DEF RangeOf
    <3>3. n + 1 \in DOMAIN t
      BY <1>1
    <3>4. k \in RangeOf(t)
      BY <1>1, <3>3 DEF RangeOf
    <3> QED BY <3>1, <3>2, <3>4
  <2> QED BY <2>1
<1>6. Distinct(s) /\ k \notin RangeOf(s) => Distinct(t)
  BY <1>1 DEF Distinct, RangeOf
<1>7. Distinct(s) => \A i, j \in DOMAIN t : i < j /\ t[i] = t[j] => j = Len(t) /\ t[j] = k
  BY <1>1 DEF Distinct
<1>8. t[1] = IF s = <<>> THEN k ELSE s[1]
  <2>1. CASE s = <<>>
    BY <2>1, <1>1, <1>3
  <2>2. CASE s # <<>>
    BY <2>2, <1>1, <1>2
  <2> QED BY <2>1, <2>2
<1> QED BY <1>1, <1>4, <1>5, <1>6, <1>7, <1>8 DEF t

LEMMA AskedIsRange ==
  \A r : Asked(r) = RangeOf(r.asked)
BY DEF Asked, RangeOf

(***************************************************************************)
(* A probe ends: what it ends with must be true.                           *)
(***************************************************************************)
MayEnd(r) ==
  /\ r \in KeyRecord /\ r.judged \subseteq Asked(r)
  /\ r.spent => ~(r.saw \subseteq {"transient"})
  /\ keyPlugin = "minimax" /\ r.err = "login" => "refused" \in r.saw
  /\ keyPlugin \in Deduped \cup {"minimax"} => \A k \in Asked(r) : Heard(r, k)
  /\ OnceTold(r)

LEMMA EndedFacts ==
  ASSUME NEW r \in KeyRecord, NEW out \in KeyOut, NEW e, e = Ended(r, out)
  PROVE  /\ e \in KeyRecord /\ e.pc = "done" /\ e.out = out /\ e.saw = r.saw
         /\ e.asked = r.asked /\ e.judged = r.judged /\ e.err = r.err /\ e.spent = r.spent
<1> DEFINE L == Seq(Attemptable)  Q == Seq(1..4)
           P == {"idle", "ls", "agyLs", "next", "ask", "clear", "fallback", "save",
                 "refresh", "agy", "done"}
           A == Attemptable \cup {"none"}
<1>1. <<>> \in L /\ "none" \in A /\ "done" \in P
  BY EmptySeq
<1>2. KeyRecord = [pc : P, left : L, at : A, cred : 0..4, asked : Q, saw : SUBSET CloudAnswers,
                   judged : SUBSET (1..4), err : KeyOut, spent : BOOLEAN, out : KeyOut]
  BY DEF KeyRecord
<1> HIDE DEF L, Q, P, A
<1>3. e = [r EXCEPT !.pc = "done", !.out = out, !.left = <<>>, !.at = "none", !.cred = 0]
  BY DEF Ended
<1>4. e \in KeyRecord
  <2>1. PICK a : a = [r EXCEPT !.pc = "done", !.out = out]
    OBVIOUS
  <2>2. a \in KeyRecord
    BY <1>1, <1>2, <2>1
  <2>3. PICK b : b = [a EXCEPT !.left = <<>>, !.at = "none"]
    OBVIOUS
  <2>4. b \in KeyRecord
    BY <1>1, <1>2, <2>2, <2>3
  <2>5. e = [b EXCEPT !.cred = 0]
    BY <1>2, <1>3, <2>1, <2>3
  <2> QED BY <1>2, <2>4, <2>5
<1> QED BY <1>2, <1>3, <1>4

LEMMA EndedIsWhole ==
  ASSUME NEW r, MayEnd(r), NEW out \in KeyOut,
         out \in {"login", "failed"} /\ {"transient", "empty"} \cap r.saw = {} =>
           CanAskWith \subseteq {0} \cup r.judged,
         out = "login" /\ keyPlugin # "antigravity" => "refused" \in r.saw \/ r.asked = <<>>
  PROVE  Whole(Ended(r, out))
<1>1. PICK e : e = Ended(r, out)
  OBVIOUS
<1>2. /\ e \in KeyRecord /\ e.pc = "done" /\ e.out = out /\ e.saw = r.saw
      /\ e.asked = r.asked /\ e.judged = r.judged /\ e.err = r.err /\ e.spent = r.spent
  BY <1>1, EndedFacts DEF MayEnd
<1>3. Asked(e) = Asked(r)
  BY <1>2 DEF Asked
<1>4. RecordOK(e)
  BY <1>2, <1>3 DEF RecordOK, MayEnd
<1>5. SpentIsTold(e) /\ BlameIsDue(e)
  BY <1>2 DEF SpentIsTold, BlameIsDue, MayEnd
<1>6. Accounted(e)
  BY <1>2, <1>3 DEF Accounted, Heard, MayEnd
<1>7. NoRepeat(e)
  BY <1>2 DEF NoRepeat, Searching
<1>8. Told(e)
  BY <1>2 DEF Told, GoodTold, OnceTold, OutageTold, LoginTold, MayEnd
<1> QED BY <1>1, <1>4, <1>5, <1>6, <1>7, <1>8 DEF Whole

(* While it goes on it tells nothing.                                      *)
LEMMA UndoneIsWhole ==
  ASSUME NEW r, r.pc # "done", RecordOK(r), SpentIsTold(r), BlameIsDue(r), Accounted(r), NoRepeat(r)
  PROVE  Whole(r)
<1>1. OnceTold(r)
  BY DEF NoRepeat, OnceTold
<1>2. GoodTold(r) /\ OutageTold(r) /\ LoginTold(r)
  BY DEF RecordOK, SpentIsTold, GoodTold, OutageTold, LoginTold
<1> QED BY <1>1, <1>2 DEF Whole, Told

(* And at any point before the end it may end.                             *)
LEMMA UndoneMayEnd ==
  ASSUME NEW r, Whole(r)
  PROVE  MayEnd(r)
BY DEF Whole, RecordOK, SpentIsTold, BlameIsDue, Accounted, Told, MayEnd

(***************************************************************************)
(* One step of one probe.                                                  *)
(***************************************************************************)
LEMMA ProbeStep ==
  ASSUME KeyIInv, NEW p \in KProbers, NEW r, Now(p, r), UNCHANGED <<keyPlugin, keyHolds>>, Whole(r),
         keyPlugin # "copilot" /\ keyProbe[p].pc = "idle" => \A q \in KProbers : Stands(q, "idle"),
         keyProbe[p].pc \in {"refresh", "agy", "done"} => r.pc \in {"refresh", "agy", "done"}
  PROVE  KeyIInv'
<1>1. Common /\ \A q \in KProbers : Whole(keyProbe[q])
  BY Parts DEF KeySound
<1>2. r \in KeyRecord
  BY DEF Whole, RecordOK
<1>3. keyProbe'[p] = r /\ \A q \in KProbers \ {p} : keyProbe'[q] = keyProbe[q]
  BY <1>1 DEF Now, Common
<1>4. KeyRecord' = KeyRecord
  BY DEF KeyRecord, Attemptable
<1>5. (keyProbe \in [KProbers -> KeyRecord])'
  BY <1>1, <1>2, <1>4 DEF Now, Common
<1>6. OneAtATime'
  BY <1>1, <1>3 DEF OneAtATime, Stands, Common
<1>7. FoundAsItWas'
  <2> SUFFICES ASSUME keyPlugin = "antigravity", NEW x \in Places(keyPlugin), ~(keyHolds[x] <= 2)
               PROVE  x = "cache" /\ \E q \in KProbers : keyProbe'[q].pc \in {"refresh", "agy", "done"}
    BY DEF FoundAsItWas
  <2>1. x = "cache" /\ \E q \in KProbers : keyProbe[q].pc \in {"refresh", "agy", "done"}
    BY <1>1 DEF FoundAsItWas, Common
  <2> QED BY <2>1, <1>3
<1>8. Common'
  BY <1>1, <1>5, <1>6, <1>7 DEF Common
<1>9. ASSUME NEW q \in KProbers
      PROVE  Whole(keyProbe[q])'
  <2>1. PICK s : s = keyProbe'[q]
    OBVIOUS
  <2>2. Whole(s)
    <3>1. CASE q = p
      BY <3>1, <2>1, <1>3
    <3>2. CASE q # p
      BY <3>2, <2>1, <1>3, <1>1
    <3> QED BY <3>1, <3>2
  <2>3. Whole(s)'
    BY <2>2, SameHolds
  <2> QED BY <2>1, <2>3
<1>10. KeySound'
  BY <1>8, <1>9 DEF KeySound
<1> QED BY <1>10, Parts, PTL

LEMMA AtProbe ==
  ASSUME KeyIInv, NEW p \in KProbers
  PROVE  /\ Common /\ Whole(keyProbe[p]) /\ keyPlugin \in KeyNames
         /\ keyHolds \in [Places(keyPlugin) -> 0..4]
         /\ Attemptable = AttemptsOf(keyPlugin)
BY Parts, KeyPluginNames DEF KeySound, Common, Attemptable, AttemptsOf

LEMMA CoveredFacts ==
  ASSUME keyPlugin \in KeyNames
  PROVE  /\ keyPlugin = "antigravity" => Covered = {"db1", "db2", "cache"}
         /\ keyPlugin \in {"devin", "minimax"} => Covered = Attemptable
         /\ keyPlugin \notin {"antigravity", "devin", "minimax"} => Covered = {} /\ CanAskWith = {}
         /\ Covered \subseteq Attemptable
         /\ Deduped = {"devin", "antigravity"}
BY PlacesAre DEF Covered, CanAskWith, Attemptable, Deduped, KeyNames

(* A probe starts: its attempts are the places that hold something.        *)
LEMMA KeyStartKeeps ==
  ASSUME KeyIInv, NEW p \in KProbers, KeyStart(p)
  PROVE  KeyIInv'
<1>1. /\ Common /\ keyPlugin \in KeyNames
      /\ keyHolds \in [Places(keyPlugin) -> 0..4] /\ Attemptable = AttemptsOf(keyPlugin)
  BY AtProbe
<1>2. PICK r : r = [KeyIdle EXCEPT !.left = Attempts(keyPlugin, keyHolds),
                                   !.pc = IF keyPlugin = "antigravity" THEN "ls" ELSE "next"]
  OBVIOUS
<1>3. Now(p, r) /\ UNCHANGED <<keyPlugin, keyHolds>>
  BY <1>2 DEF KeyStart
<1>4. /\ Attempts(keyPlugin, keyHolds) \in Seq(Attemptable)
      /\ keyPlugin \in {"devin", "minimax"} => ToSet(Attempts(keyPlugin, keyHolds)) = Attemptable
      /\ keyPlugin = "antigravity" =>
           ToSet(Attempts(keyPlugin, keyHolds)) = {x \in {"db1", "db2", "cache"} : keyHolds[x] # 0}
  BY <1>1, AttemptFacts
<1>5. /\ r \in KeyRecord /\ r.left = Attempts(keyPlugin, keyHolds)
      /\ r.pc = IF keyPlugin = "antigravity" THEN "ls" ELSE "next"
      /\ r.asked = <<>> /\ r.saw = {} /\ r.judged = {} /\ r.err = "none" /\ r.out = "none"
      /\ r.spent = FALSE /\ r.cred = 0
  <2>1. KeyIdle \in KeyRecord /\ KeyIdle.cred = 0
    BY KeyIdleFacts DEF KeyIdle
  <2>2. r \in KeyRecord
    BY <1>2, <1>4, <2>1 DEF KeyRecord
  <2> QED BY <1>2, <2>1, <2>2, KeyIdleFacts DEF KeyRecord
<1>6. Asked(r) = {}
  BY <1>5 DEF Asked
<1>7. RecordOK(r) /\ SpentIsTold(r) /\ BlameIsDue(r)
  BY <1>5, <1>6 DEF RecordOK, SpentIsTold, BlameIsDue
<1>8. Accounted(r)
  <2> SUFFICES ASSUME NEW x \in Covered
               PROVE  x \in ToSet(r.left) \/ KeyAt(keyPlugin, keyHolds, x) = 0
    BY <1>6 DEF Accounted, ToSet
  <2>1. CASE keyPlugin \in {"devin", "minimax"}
    BY <2>1, <1>1, <1>4, <1>5, CoveredFacts
  <2>2. CASE keyPlugin = "antigravity"
    <3>1. KeyAt(keyPlugin, keyHolds, x) = keyHolds[x]
      BY <2>2, <1>1, CoveredFacts, KeyAtFacts
    <3> QED BY <3>1, <2>2, <1>1, <1>4, <1>5, CoveredFacts
  <2> QED BY <2>1, <2>2, <1>1, CoveredFacts
<1>9. NoRepeat(r)
  <2>1. ASSUME keyPlugin = "antigravity", NEW i \in DOMAIN r.left
        PROVE  r.left[i] \in Covered
    <3>1. r.left[i] \in ToSet(r.left)
      BY DEF ToSet
    <3> QED BY <3>1, <2>1, <1>1, <1>4, <1>5, CoveredFacts
  <2> QED BY <2>1, <1>5, <1>6 DEF NoRepeat
<1>10. Whole(r)
  <2>1. r.pc # "done"
    BY <1>5
  <2> QED BY <2>1, <1>7, <1>8, <1>9, UndoneIsWhole
<1>11. /\ keyProbe[p].pc = "idle"
       /\ keyPlugin # "copilot" => \A q \in KProbers : Stands(q, "idle")
  BY DEF KeyStart, Stands
<1> QED BY <1>3, <1>10, <1>11, ProbeStep

(* antigravity asks the language servers.                                  *)
LEMMA ServerKeeps ==
  ASSUME KeyIInv, NEW p \in KProbers, LanguageServer(p)
  PROVE  KeyIInv'
<1>1. PICK s : s = keyProbe[p]
  OBVIOUS
<1>2. Common /\ Whole(s) /\ MayEnd(s)
  BY <1>1, AtProbe, UndoneMayEnd
<1>3. s.pc \in {"ls", "agyLs"} /\ keyPlugin = "antigravity" /\ s \in KeyRecord
  BY <1>1, <1>2 DEF LanguageServer, Whole, RecordOK
<1>4. UNCHANGED <<keyPlugin, keyHolds>>
  BY DEF LanguageServer
<1>5. CASE Now(p, Ended(s, "usage"))
  <2>1. PICK r : r = Ended(s, "usage")
    OBVIOUS
  <2>2. Whole(r)
    BY <1>2, <2>1, EndedIsWhole DEF KeyOut
  <2> QED BY <1>1, <1>3, <1>4, <1>5, <2>1, <2>2, ProbeStep
<1>6. CASE Now(p, [s EXCEPT !.pc = IF @ = "ls" THEN "agyLs" ELSE "next"])
  <2>1. PICK r : r = [s EXCEPT !.pc = IF @ = "ls" THEN "agyLs" ELSE "next"]
    OBVIOUS
  <2>2. /\ r \in KeyRecord /\ r.pc \in {"agyLs", "next"} /\ r.out = s.out /\ r.asked = s.asked
        /\ r.saw = s.saw /\ r.judged = s.judged /\ r.err = s.err /\ r.spent = s.spent
        /\ r.left = s.left /\ r.cred = s.cred
    BY <1>3, <2>1 DEF KeyRecord
  <2>3. Asked(r) = Asked(s)
    BY <2>2 DEF Asked
  <2>4. RecordOK(r)
    BY <1>2, <1>3, <2>2, <2>3 DEF Whole, RecordOK
  <2>5. SpentIsTold(r) /\ BlameIsDue(r)
    BY <1>2, <1>3, <2>2 DEF Whole, SpentIsTold, BlameIsDue, Deduped
  <2>6. Accounted(r)
    BY <1>2, <1>3, <2>2, <2>3 DEF Whole, Accounted, Heard
  <2>7. NoRepeat(r)
    BY <1>2, <1>3, <2>2, <2>3 DEF Whole, NoRepeat, Searching
  <2>8. Whole(r)
    BY <2>2, <2>4, <2>5, <2>6, <2>7, UndoneIsWhole
  <2> QED BY <1>1, <1>3, <1>4, <1>6, <2>1, <2>8, ProbeStep
<1>7. CASE Now(p, Ended([s EXCEPT !.saw = @ \cup {"transient"}], "failed"))
  <2>1. PICK q : q = [s EXCEPT !.saw = @ \cup {"transient"}]
    OBVIOUS
  <2>2. /\ q \in KeyRecord /\ q.asked = s.asked /\ q.saw = s.saw \cup {"transient"}
        /\ q.judged = s.judged /\ q.err = s.err /\ q.spent = s.spent
    BY <1>3, <2>1 DEF KeyRecord, KeyAnswers, CloudAnswers
  <2>3. Asked(q) = Asked(s)
    BY <2>2 DEF Asked
  <2>4. MayEnd(q)
    BY <1>2, <1>3, <2>2, <2>3 DEF MayEnd, Heard, OnceTold
  <2>5. PICK r : r = Ended(q, "failed")
    OBVIOUS
  <2>6. Whole(r)
    BY <2>2, <2>4, <2>5, EndedIsWhole DEF KeyOut
  <2> QED BY <1>1, <1>3, <1>4, <1>7, <2>1, <2>5, <2>6, ProbeStep
<1> QED BY <1>1, <1>5, <1>6, <1>7 DEF LanguageServer

LEMMA FoundPlaces ==
  ASSUME NEW h, {"rt1", "rt2"} \subseteq DOMAIN h
  PROVE  /\ Found(h, <<"rt1", "rt2">>) \in Seq({"rt1", "rt2"})
         /\ \A i \in DOMAIN Found(h, <<"rt1", "rt2">>) : h[Found(h, <<"rt1", "rt2">>)[i]] # 0
<1> DEFINE T == {"rt1", "rt2"}  order == <<"rt1", "rt2">>
<1>1. order \in Seq(T)
  OBVIOUS
<1> HIDE DEF T, order
<1>2. Found(h, order) \in Seq(T) /\ ToSet(Found(h, order)) = {x \in ToSet(order) : h[x] # 0}
  BY <1>1, FoundFacts DEF T
<1>3. \A i \in DOMAIN Found(h, order) : Found(h, order)[i] \in ToSet(Found(h, order))
  BY DEF ToSet
<1> QED BY <1>2, <1>3 DEF T, order

LEMMA NonEmpty ==
  ASSUME NEW T, NEW s \in Seq(T), s # <<>>
  PROVE  /\ Head(s) = s[1] /\ 1 \in DOMAIN s /\ Head(s) \in T /\ Tail(s) \in Seq(T)
         /\ RangeOf(s) = {Head(s)} \cup RangeOf(Tail(s))
<1>1. /\ Len(s) \in Nat /\ Len(s) > 0 /\ DOMAIN s = 1..Len(s) /\ Head(s) = s[1] /\ Head(s) \in T
      /\ Tail(s) \in Seq(T) /\ Len(Tail(s)) = Len(s) - 1 /\ DOMAIN Tail(s) = 1..Len(Tail(s))
      /\ \A i \in 1..Len(Tail(s)) : Tail(s)[i] = s[i + 1]
  BY HeadTailProperties, LenProperties, EmptySeq
<1>2. ASSUME NEW x PROVE x \in RangeOf(s) <=> x \in {Head(s)} \cup RangeOf(Tail(s))
  <2>1. ASSUME NEW i \in DOMAIN s, i # 1
        PROVE  i - 1 \in DOMAIN Tail(s) /\ Tail(s)[i - 1] = s[i]
    BY <1>1, <2>1
  <2>2. ASSUME NEW i \in DOMAIN Tail(s)
        PROVE  i + 1 \in DOMAIN s /\ Tail(s)[i] = s[i + 1]
    BY <1>1, <2>2
  <2>3. x \in RangeOf(s) => x \in {Head(s)} \cup RangeOf(Tail(s))
    BY <1>1, <2>1 DEF RangeOf
  <2>4. x \in RangeOf(Tail(s)) => x \in RangeOf(s)
    BY <2>2 DEF RangeOf
  <2>5. 1 \in DOMAIN s
    BY <1>1
  <2>6. Head(s) \in RangeOf(s)
    BY <1>1, <2>5 DEF RangeOf
  <2> QED BY <2>3, <2>4, <2>6
<1> QED BY <1>1, <1>2

(***************************************************************************)
(* A probe that looked everywhere: what it covers was judged.              *)
(***************************************************************************)
LEMMA LookedEverywhere ==
  ASSUME KeyIInv, NEW p \in KProbers, keyProbe[p].pc \in {"next", "agy"}, keyProbe[p].left = <<>>,
         "transient" \notin keyProbe[p].saw,
         keyPlugin = "antigravity" => keyHolds["agy"] = 0
  PROVE  CanAskWith \subseteq {0} \cup keyProbe[p].judged
<1>1. PICK s : s = keyProbe[p]
  OBVIOUS
<1>2. /\ Whole(s) /\ keyPlugin \in KeyNames /\ keyHolds \in [Places(keyPlugin) -> 0..4]
      /\ Attemptable = AttemptsOf(keyPlugin)
  BY <1>1, AtProbe
<1>3. ASSUME keyPlugin \in {"antigravity", "devin", "minimax"}, NEW x \in Covered
      PROVE  KeyAt(keyPlugin, keyHolds, x) \in {0} \cup s.judged
  BY <1>1, <1>2, <1>3, CoveredFacts DEF Whole, Accounted, Heard
<1>4. CASE keyPlugin = "devin"
  <2>1. ASSUME NEW x \in Places(keyPlugin) PROVE keyHolds[x] \in {0} \cup s.judged
    <3>1. x \in Covered /\ x \in AttemptsOf(keyPlugin)
      BY <1>2, <1>4, CoveredFacts DEF AttemptsOf
    <3> QED BY <3>1, <1>2, <1>3, <1>4, KeyAtFacts
  <2>2. CanAskWith = {keyHolds[x] : x \in Places(keyPlugin) \ {"rt1", "rt2"}}
    BY <1>4 DEF CanAskWith, Deduped
  <2> QED BY <1>1, <2>1, <2>2
<1>5. CASE keyPlugin = "antigravity"
  <2>1. ASSUME NEW x \in {"db1", "db2", "cache"} PROVE keyHolds[x] \in {0} \cup s.judged
    <3>1. x \in Covered /\ x \in AttemptsOf(keyPlugin)
      BY <1>2, <1>5, CoveredFacts
    <3> QED BY <3>1, <1>2, <1>3, <1>5, KeyAtFacts
  <2>2. CanAskWith = {keyHolds[x] : x \in Places(keyPlugin) \ {"rt1", "rt2"}}
    BY <1>5 DEF CanAskWith, Deduped
  <2>3. Places(keyPlugin) \ {"rt1", "rt2"} = {"db1", "db2", "cache", "agy"}
    BY <1>5, PlacesAre
  <2> QED BY <1>1, <1>5, <2>1, <2>2, <2>3
<1>6. CASE keyPlugin = "minimax"
  <2>1. Covered = {"CN", "GLOBAL"}
    BY <1>6 DEF Covered, Attemptable
  <2>2. \A k \in CanAskWith : \E e \in {"CN", "GLOBAL"} : k = KeyAt("minimax", keyHolds, e)
    BY <1>6, ZenonT(30) DEF CanAskWith, Deduped
  <2> QED BY <1>1, <1>3, <1>6, <2>1, <2>2
<1> QED BY <1>2, <1>4, <1>5, <1>6, CoveredFacts

(* The next attempt, or the end of the search.                             *)
LEMMA NextKeeps ==
  ASSUME KeyIInv, NEW p \in KProbers, NextKey(p)
  PROVE  KeyIInv'
<1>1. PICK s : s = keyProbe[p]
  OBVIOUS
<1>2. /\ Common /\ Whole(s) /\ MayEnd(s) /\ keyPlugin \in KeyNames
      /\ keyHolds \in [Places(keyPlugin) -> 0..4] /\ Attemptable = AttemptsOf(keyPlugin)
  BY <1>1, AtProbe, UndoneMayEnd
<1>3. s.pc = "next" /\ s \in KeyRecord /\ UNCHANGED <<keyPlugin, keyHolds>>
  BY <1>1, <1>2 DEF NextKey, Stands, Whole, RecordOK
<1>4. s.left \in Seq(Attemptable) /\ s.out = "none" /\ s.asked \in Seq(1..4)
  BY <1>2, <1>3 DEF Whole, RecordOK, KeyRecord
<1>5. CASE s.left = <<>> /\ keyPlugin # "antigravity"
  <2>1. PICK out : out = LastError(s)
    OBVIOUS
  <2>2. PICK r : r = Ended(s, out)
    OBVIOUS
  <2>3. Now(p, r)
    BY <1>1, <1>3, <1>5, <2>1, <2>2 DEF NextKey
  <2>4. out \in KeyOut
    BY <1>3, <2>1 DEF LastError, DevinError, MinimaxError, KeyOut, KeyRecord
  <2>5. out \in {"login", "failed"} /\ "transient" \notin s.saw => CanAskWith \subseteq {0} \cup s.judged
    BY <1>1, <1>3, <1>5, LookedEverywhere
  <2>6. out = "login" => "refused" \in s.saw \/ s.asked = <<>>
    BY <1>2, <1>3, <1>5, <2>1 DEF LastError, DevinError, MinimaxError, Whole, BlameIsDue, Deduped
  <2>7. Whole(r)
    BY <1>2, <2>2, <2>4, <2>5, <2>6, EndedIsWhole
  <2> QED BY <1>1, <1>3, <2>3, <2>7, ProbeStep
<1>6. CASE s.left = <<>> /\ keyPlugin = "antigravity"
  <2>1. PICK left : left = IF s.asked = <<>> \/ "refused" \in s.saw
                           THEN Found(keyHolds, <<"rt1", "rt2">>) ELSE <<>>
    OBVIOUS
  <2>2. PICK r : r = [s EXCEPT !.pc = IF s.asked = <<>> \/ "refused" \in s.saw
                                      THEN "refresh" ELSE "agy", !.left = left]
    OBVIOUS
  <2>3. Now(p, r)
    BY <1>1, <1>6, <2>1, <2>2 DEF NextKey
  <2>4. /\ left \in Seq(Attemptable)
        /\ \A i \in DOMAIN left : left[i] \in {"rt1", "rt2"} /\ keyHolds[left[i]] # 0
    <3>1. {"rt1", "rt2"} \subseteq Attemptable /\ {"rt1", "rt2"} \subseteq DOMAIN keyHolds
      BY <1>2, <1>6, PlacesAre DEF Attemptable
    <3> DEFINE f == Found(keyHolds, <<"rt1", "rt2">>)
    <3>2. f \in Seq({"rt1", "rt2"}) /\ \A i \in DOMAIN f : keyHolds[f[i]] # 0
      BY <3>1, FoundPlaces
    <3> HIDE DEF f
    <3>3. \A i \in DOMAIN f : f[i] \in {"rt1", "rt2"}
      BY <3>2, LenProperties, ElementOfSeq
    <3>4. f \in Seq(Attemptable)
      BY <3>1, <3>2
    <3>5. left = f \/ left = <<>>
      BY <2>1 DEF f
    <3>6. <<>> \in Seq(Attemptable) /\ DOMAIN <<>> = {}
      BY EmptySeq
    <3> QED BY <3>2, <3>3, <3>4, <3>5, <3>6
  <2>5. /\ r \in KeyRecord /\ r.left = left /\ r.out = s.out /\ r.asked = s.asked
        /\ r.saw = s.saw /\ r.judged = s.judged /\ r.err = s.err /\ r.spent = s.spent
        /\ r.pc = IF s.asked = <<>> \/ "refused" \in s.saw THEN "refresh" ELSE "agy"
    BY <1>3, <2>2, <2>4 DEF KeyRecord
  <2>6. Asked(r) = Asked(s)
    BY <2>5 DEF Asked
  <2>7. RecordOK(r)
    BY <1>2, <1>3, <1>6, <2>5, <2>6 DEF Whole, RecordOK
  <2>8. SpentIsTold(r) /\ BlameIsDue(r)
    BY <1>2, <1>6, <2>5 DEF Whole, SpentIsTold, BlameIsDue
  <2>9. Accounted(r)
    BY <1>2, <1>3, <1>6, <2>5, <2>6 DEF Whole, Accounted, Heard
  <2>10. NoRepeat(r)
    <3>1. Asked(s) \subseteq 1..2
      BY <1>2, <1>3, <1>6 DEF Whole, NoRepeat, Searching, Deduped
    <3>2. \A i \in DOMAIN left : keyHolds[left[i]] \in 0..4 /\ keyHolds[left[i]] + 2 \notin 1..2
      <4>1. {"rt1", "rt2"} \subseteq Places(keyPlugin)
        BY <1>6, PlacesAre
      <4> QED BY <4>1, <1>2, <2>4
    <3>3. ~(r.pc \in Searching)
      BY <2>5 DEF Searching
    <3>4. r.pc = "agy" => left = <<>>
      BY <2>1, <2>5
    <3> QED BY <1>2, <1>3, <2>4, <2>5, <2>6, <3>1, <3>2, <3>3, <3>4 DEF Whole, NoRepeat
  <2>11. Whole(r)
    <3>1. r.pc # "done"
      BY <2>5
    <3> QED BY <3>1, <2>7, <2>8, <2>9, <2>10, UndoneIsWhole
  <2> QED BY <1>1, <1>3, <2>3, <2>11, ProbeStep
<1>7. CASE s.left # <<>>
  <2>1. PICK k : k = KeyAt(keyPlugin, keyHolds, Head(s.left))
    OBVIOUS
  <2>2. PICK x : x = Head(s.left)
    OBVIOUS
  <2>3. /\ x \in Attemptable /\ x = s.left[1] /\ 1 \in DOMAIN s.left
        /\ Tail(s.left) \in Seq(Attemptable) /\ RangeOf(s.left) = {x} \cup RangeOf(Tail(s.left))
    BY <1>4, <1>7, <2>2, NonEmpty
  <2>4. k \in 0..4 /\ (keyPlugin # "minimax" => k = keyHolds[x])
    BY <1>2, <2>1, <2>2, <2>3, KeyAtFacts
  <2>5. ASSUME keyPlugin = "antigravity"
        PROVE  /\ RangeOf(Tail(s.left)) \subseteq Covered /\ k <= 2
    <3>1. RangeOf(s.left) \subseteq Covered
      BY <1>2, <1>3, <2>5 DEF Whole, NoRepeat, Searching, Deduped, RangeOf
    <3>2. x \in {"db1", "db2", "cache"}
      BY <3>1, <2>3, <2>5, <1>2, CoveredFacts
    <3>3. \A q \in KProbers : keyProbe[q].pc \notin {"refresh", "agy", "done"}
      BY <1>1, <1>2, <1>3, <2>5 DEF Common, OneAtATime, Stands
    <3>4. keyHolds[x] <= 2
      BY <1>2, <2>5, <3>2, <3>3, PlacesAre DEF Common, FoundAsItWas
    <3> QED BY <3>1, <3>4, <2>3, <2>4, <2>5
  <2>6. CASE k = 0 \/ Repeats(s, k)
    <3>1. PICK r : r = [s EXCEPT !.left = Tail(@)]
      OBVIOUS
    <3>2. Now(p, r)
      BY <1>1, <1>7, <2>1, <2>6, <3>1 DEF NextKey
    <3>3. /\ r \in KeyRecord /\ r.left = Tail(s.left) /\ r.out = s.out /\ r.asked = s.asked
          /\ r.saw = s.saw /\ r.judged = s.judged /\ r.err = s.err /\ r.spent = s.spent
          /\ r.pc = s.pc /\ r.cred = s.cred
      BY <1>3, <2>3, <3>1 DEF KeyRecord
    <3>4. Asked(r) = Asked(s)
      BY <3>3 DEF Asked
    <3>5. RecordOK(r)
      BY <1>2, <1>3, <3>3, <3>4 DEF Whole, RecordOK
    <3>6. SpentIsTold(r) /\ BlameIsDue(r)
      BY <1>2, <1>3, <3>3 DEF Whole, SpentIsTold, BlameIsDue
    <3>7. Accounted(r)
      <4>1. k \in {0} \cup Asked(s)
        BY <2>6 DEF Repeats
      <4>2. \A y \in Covered : y \in RangeOf(s.left) \/ KeyAt(keyPlugin, keyHolds, y) \in {0} \cup Asked(s)
        BY <1>2, <1>3 DEF Whole, Accounted, RangeOf
      <4>3. \A y \in Covered : y \in RangeOf(r.left) \/ KeyAt(keyPlugin, keyHolds, y) \in {0} \cup Asked(r)
        BY <4>1, <4>2, <2>1, <2>2, <2>3, <3>3, <3>4
      <4> QED BY <4>3, <1>2, <3>3, <3>4 DEF Whole, Accounted, Heard, RangeOf
    <3>8. NoRepeat(r)
      <4>1. keyPlugin = "antigravity" => \A i \in DOMAIN r.left : r.left[i] \in Covered
        BY <2>5, <3>3 DEF RangeOf
      <4> QED BY <4>1, <1>2, <1>3, <3>3, <3>4 DEF Whole, NoRepeat, Searching
    <3>9. Whole(r)
      <4>1. r.pc # "done"
        BY <1>3, <3>3
      <4> QED BY <4>1, <3>5, <3>6, <3>7, <3>8, UndoneIsWhole
    <3> QED BY <1>1, <1>3, <3>2, <3>9, ProbeStep
  <2>7. CASE ~(k = 0 \/ Repeats(s, k))
    <3>1. PICK r : r = [s EXCEPT !.left = Tail(@), !.at = x, !.cred = k, !.pc = "ask"]
      OBVIOUS
    <3>2. Now(p, r)
      BY <1>1, <1>7, <2>1, <2>2, <2>7, <3>1 DEF NextKey
    <3>3. /\ r \in KeyRecord /\ r.left = Tail(s.left) /\ r.out = s.out /\ r.asked = s.asked
          /\ r.saw = s.saw /\ r.judged = s.judged /\ r.err = s.err /\ r.spent = s.spent
          /\ r.pc = "ask" /\ r.cred = k
      <4>1. PICK a : a = [s EXCEPT !.left = Tail(@), !.at = x]
        OBVIOUS
      <4>2. a \in KeyRecord
        BY <1>3, <2>3, <4>1 DEF KeyRecord
      <4>3. r = [a EXCEPT !.cred = k, !.pc = "ask"]
        BY <1>3, <3>1, <4>1 DEF KeyRecord
      <4>4. r \in KeyRecord
        BY <4>2, <4>3, <2>4 DEF KeyRecord
      <4> QED BY <4>4, <1>3, <3>1 DEF KeyRecord
    <3>4. Asked(r) = Asked(s)
      BY <3>3 DEF Asked
    <3>5. RecordOK(r)
      BY <1>2, <1>3, <2>7, <3>3, <3>4 DEF Whole, RecordOK
    <3>6. SpentIsTold(r) /\ BlameIsDue(r)
      BY <1>2, <1>3, <3>3 DEF Whole, SpentIsTold, BlameIsDue
    <3>7. Accounted(r)
      <4>2. \A y \in Covered : y \in RangeOf(s.left) \/ KeyAt(keyPlugin, keyHolds, y) \in {0} \cup Asked(s)
        BY <1>2, <1>3 DEF Whole, Accounted, RangeOf
      <4>3. \A y \in Covered : \/ y \in RangeOf(r.left)
                               \/ KeyAt(keyPlugin, keyHolds, y) \in {0} \cup Asked(r)
                               \/ KeyAt(keyPlugin, keyHolds, y) = k
        BY <4>2, <2>1, <2>2, <2>3, <3>3, <3>4
      <4> QED BY <4>3, <1>2, <3>3, <3>4 DEF Whole, Accounted, Heard, RangeOf
    <3>8. NoRepeat(r)
      <4>1. keyPlugin = "antigravity" => k <= 2 /\ \A i \in DOMAIN r.left : r.left[i] \in Covered
        BY <2>5, <3>3 DEF RangeOf
      <4>2. keyPlugin \in Deduped => k \notin Asked(s)
        BY <2>7 DEF Repeats
      <4> QED BY <4>1, <4>2, <1>2, <1>3, <3>3, <3>4 DEF Whole, NoRepeat, Searching
    <3>9. Whole(r)
      <4>1. r.pc # "done"
        BY <3>3
      <4> QED BY <4>1, <3>5, <3>6, <3>7, <3>8, UndoneIsWhole
    <3> QED BY <1>1, <1>3, <3>2, <3>9, ProbeStep
  <2> QED BY <2>6, <2>7
<1> QED BY <1>5, <1>6, <1>7

(***************************************************************************)
(* A probe has asked with its credential and heard verdict v: s becomes q, *)
(* which may end, or go on as r.                                           *)
(***************************************************************************)
Heeds(s, q, v) ==
  /\ q \in KeyRecord /\ q.pc = "ask" /\ q.out = "none" /\ q.left = s.left /\ q.at = s.at
  /\ q.cred = s.cred /\ q.cred # 0 /\ q.err = s.err /\ q.spent = s.spent
  /\ q.saw = s.saw \cup v[2]
  /\ q.asked = Append(s.asked, s.cred) /\ q.asked # <<>> /\ Asked(q) = Asked(s) \cup {s.cred}
  /\ keyPlugin \in Deduped => Distinct(q.asked)
  /\ MayEnd(q)

LEMMA HeedsFacts ==
  ASSUME KeyIInv, NEW p \in KProbers, NEW s, s = keyProbe[p], s.pc = "ask",
         NEW v \in Verdicts(keyPlugin), NEW q,
         q = Answered(s, s.cred, v)
  PROVE  Heeds(s, q, v)
<1>1. Whole(s) /\ keyPlugin \in KeyNames
  BY AtProbe
<1>2. s \in KeyRecord /\ s.cred \in 1..4 /\ s.out = "none" /\ s.asked \in Seq(1..4)
      /\ s.judged \subseteq Asked(s)
  BY <1>1 DEF Whole, RecordOK, KeyRecord
<1>3. VerdictOK(keyPlugin, v)
  BY <1>1, VerdictFacts
<1>4. PICK j : j = IF v[1] = "transient" THEN s.judged ELSE s.judged \cup {s.cred}
  OBVIOUS
<1>5. /\ Append(s.asked, s.cred) \in Seq(1..4) /\ Append(s.asked, s.cred) # <<>>
      /\ RangeOf(Append(s.asked, s.cred)) = RangeOf(s.asked) \cup {s.cred}
      /\ Distinct(s.asked) /\ s.cred \notin RangeOf(s.asked) => Distinct(Append(s.asked, s.cred))
  BY <1>2, OneMore
<1>6. j \in SUBSET (1..4) /\ s.saw \cup v[2] \in SUBSET CloudAnswers
  BY <1>2, <1>3, <1>4 DEF KeyRecord, VerdictOK
<1>7. /\ q \in KeyRecord /\ q.pc = "ask" /\ q.out = "none" /\ q.left = s.left /\ q.at = s.at
      /\ q.cred = s.cred /\ q.err = s.err /\ q.spent = s.spent /\ q.saw = s.saw \cup v[2]
      /\ q.asked = Append(s.asked, s.cred) /\ q.judged = j
  <2>1. PICK a : a = [s EXCEPT !.asked = Append(s.asked, s.cred), !.saw = s.saw \cup v[2]]
    OBVIOUS
  <2>2. a \in KeyRecord
    BY <1>2, <1>5, <1>6, <2>1 DEF KeyRecord
  <2>3. q = [a EXCEPT !.judged = j]
    BY <1>2, <1>4, <2>1 DEF KeyRecord, Answered
  <2>4. q \in KeyRecord
    BY <1>6, <2>2, <2>3 DEF KeyRecord
  <2> QED BY <1>2, <2>1, <2>2, <2>3, <2>4 DEF KeyRecord
<1>8. Asked(q) = Asked(s) \cup {s.cred} /\ q.judged \subseteq Asked(q)
  BY <1>2, <1>4, <1>5, <1>7, AskedIsRange
<1>9. keyPlugin \in Deduped => Distinct(q.asked)
  <2>1. keyPlugin \in Deduped => Distinct(s.asked) /\ s.cred \notin RangeOf(s.asked)
    BY <1>1, AskedIsRange DEF Whole, NoRepeat, Distinct
  <2> QED BY <2>1, <1>5, <1>7
<1>10. OnceTold(q)
  BY <1>9 DEF Distinct, OnceTold
<1>11. q.spent => ~(q.saw \subseteq {"transient"})
  BY <1>1, <1>7 DEF Whole, SpentIsTold
<1>12. keyPlugin = "minimax" /\ q.err = "login" => "refused" \in q.saw
  BY <1>1, <1>7 DEF Whole, BlameIsDue
<1>13. ASSUME keyPlugin \in Deduped \cup {"minimax"}, NEW k \in Asked(q) PROVE Heard(q, k)
  <2>1. CASE k \in Asked(s)
    BY <1>1, <1>4, <1>7, <1>13, <2>1 DEF Whole, Accounted, Heard
  <2>2. CASE k = s.cred
    BY <1>3, <1>4, <1>7, <1>13, <2>2 DEF VerdictOK, Heard, Deduped
  <2> QED BY <1>8, <2>1, <2>2
<1> QED BY <1>2, <1>5, <1>7, <1>8, <1>9, <1>10, <1>11, <1>12, <1>13 DEF Heeds, MayEnd

(* It ends with what it heard.                                             *)
LEMMA HeardEnds ==
  ASSUME KeyIInv, NEW p \in KProbers, NEW s, s = keyProbe[p], s.pc = "ask",
         NEW v \in Verdicts(keyPlugin), NEW q, Heeds(s, q, v), NEW out \in KeyOut,
         out \in {"login", "failed"} => keyPlugin \notin Deduped \cup {"minimax"} \/ v[1] = "empty",
         out = "login" => v[1] = "refused" \/ keyPlugin = "antigravity",
         NEW r, r = Ended(q, out)
  PROVE  Whole(r)
<1>1. keyPlugin \in KeyNames /\ VerdictOK(keyPlugin, v)
  BY AtProbe, VerdictFacts
<1>2. out \in {"login", "failed"} => CanAskWith = {} \/ "empty" \in q.saw
  BY <1>1, CoveredFacts DEF VerdictOK, Heeds
<1>3. out = "login" => "refused" \in q.saw \/ keyPlugin = "antigravity"
  BY <1>1 DEF VerdictOK, Heeds
<1> QED BY <1>2, <1>3, EndedIsWhole DEF Heeds

(* It goes on to its next attempt.                                         *)
LEMMA HeardGoesOn ==
  ASSUME KeyIInv, NEW p \in KProbers, NEW s, s = keyProbe[p], s.pc = "ask",
         NEW v \in Verdicts(keyPlugin), NEW q, Heeds(s, q, v), keyPlugin \in Deduped \cup {"minimax"},
         NEW err \in KeyOut,
         keyPlugin = "minimax" => err # "none" /\ (err = "login" => "refused" \in q.saw),
         NEW r, r = [q EXCEPT !.pc = "next", !.err = err]
  PROVE  Whole(r)
<1>1. Whole(s)
  BY AtProbe
<1>2. /\ r \in KeyRecord /\ r.pc = "next" /\ r.out = "none" /\ r.left = s.left /\ r.cred = s.cred
      /\ r.err = err /\ r.spent = q.spent /\ r.saw = q.saw /\ r.asked = q.asked /\ r.judged = q.judged
  BY DEF Heeds, KeyRecord
<1>3. Asked(r) = Asked(q) /\ Asked(q) = Asked(s) \cup {s.cred}
  <2>1. Asked(r) = Asked(q)
    BY <1>2 DEF Asked
  <2> QED BY <2>1 DEF Heeds
<1>4. RecordOK(r)
  BY <1>2, <1>3 DEF RecordOK, Heeds, MayEnd
<1>5. SpentIsTold(r) /\ BlameIsDue(r)
  BY <1>2 DEF SpentIsTold, BlameIsDue, Heeds, MayEnd
<1>6. Accounted(r)
  BY <1>1, <1>2, <1>3 DEF Whole, Accounted, Heard, Heeds, MayEnd
<1>7. NoRepeat(r)
  <2>1. keyPlugin \in Deduped => Distinct(r.asked)
    BY <1>2 DEF Heeds
  <2>2. keyPlugin = "antigravity" => /\ Asked(r) \subseteq 1..2 /\ r.cred <= 2
                                     /\ \A i \in DOMAIN r.left : r.left[i] \in Covered
    <3> SUFFICES ASSUME keyPlugin = "antigravity"
                 PROVE  /\ Asked(r) \subseteq 1..2 /\ r.cred <= 2
                        /\ \A i \in DOMAIN r.left : r.left[i] \in Covered
      OBVIOUS
    <3>1. /\ Asked(s) \subseteq 1..2 /\ s.cred <= 2 /\ s.cred \in 0..4 /\ s.cred # 0
          /\ \A i \in DOMAIN s.left : s.left[i] \in Covered
      BY <1>1 DEF Whole, NoRepeat, Searching, Deduped, RecordOK, KeyRecord
    <3> QED BY <3>1, <1>2, <1>3
  <2> QED BY <2>1, <2>2, <1>2 DEF NoRepeat, Distinct
<1>8. r.pc # "done"
  BY <1>2
<1> QED BY <1>4, <1>5, <1>6, <1>7, <1>8, UndoneIsWhole

LEMMA AskKeeps ==
  ASSUME KeyIInv, NEW p \in KProbers, Ask(p)
  PROVE  KeyIInv'
<1>1. PICK s : s = keyProbe[p]
  OBVIOUS
<1>2. s.pc = "ask" /\ UNCHANGED <<keyPlugin, keyHolds>>
  BY <1>1 DEF Ask, Stands
<1>3. PICK v \in Verdicts(keyPlugin) :
        LET q == Answered(s, s.cred, v)
        IN Now(p, CASE keyPlugin = "copilot" -> CopilotHeard(q, v[1])
                    [] keyPlugin = "minimax" -> MinimaxHeard(q, v[1])
                    [] keyPlugin = "devin" -> ChainHeard(q, v[1])
                    [] keyPlugin = "antigravity" -> AntigravityHeard(q, v[1])
                    [] OTHER                 -> FirstHeard(q, v[1]))
  BY <1>1 DEF Ask
<1>4. PICK q : q = Answered(s, s.cred, v)
  OBVIOUS
<1>5. Heeds(s, q, v)
  BY <1>1, <1>2, <1>4, HeedsFacts
<1>6. q \in KeyRecord /\ keyPlugin \in KeyNames /\ VerdictOK(keyPlugin, v)
  BY <1>5, AtProbe, VerdictFacts DEF Heeds
<1>7. PICK r : r = CASE keyPlugin = "copilot" -> CopilotHeard(q, v[1])
                     [] keyPlugin = "minimax" -> MinimaxHeard(q, v[1])
                      [] keyPlugin = "devin" -> ChainHeard(q, v[1])
                     [] keyPlugin = "antigravity" -> AntigravityHeard(q, v[1])
                     [] OTHER                 -> FirstHeard(q, v[1])
  OBVIOUS
<1>8. Now(p, r)
  BY <1>3, <1>4, <1>7
<1>9. CASE keyPlugin = "copilot"
  <2>0. r = CopilotHeard(q, v[1])
    BY <1>7, <1>9 DEF Deduped
  <2>1. CASE q.at = "keychain" /\ v[1] = "refused"
    <3>1. r = [q EXCEPT !.pc = "clear"]
      BY <2>0, <2>1 DEF CopilotHeard
    <3>2. /\ r \in KeyRecord /\ r.pc = "clear" /\ r.out = "none"
          /\ r.spent = q.spent /\ r.saw = q.saw /\ r.asked = q.asked /\ r.judged = q.judged
      BY <3>1, <1>5 DEF Heeds, KeyRecord
    <3>3. Asked(r) = Asked(q)
      BY <3>2 DEF Asked
    <3>4. "refused" \in r.saw
      BY <1>5, <1>6, <2>1, <3>2 DEF VerdictOK, Heeds
    <3>5. RecordOK(r)
      BY <1>5, <1>9, <3>2, <3>3 DEF RecordOK, Heeds, MayEnd
    <3>6. SpentIsTold(r) /\ BlameIsDue(r) /\ Accounted(r) /\ NoRepeat(r)
      BY <1>9, <3>2, <3>4, <1>6, CoveredFacts DEF SpentIsTold, BlameIsDue, Accounted, NoRepeat, Deduped
    <3> QED BY <3>2, <3>5, <3>6, UndoneIsWhole, <1>1, <1>2, <1>8, ProbeStep
  <2>2. CASE q.at = "gh" /\ v[1] \in {"ok", "unreadable"}
    <3>1. r = [q EXCEPT !.pc = "save", !.err = IF v[1] = "ok" THEN "usage" ELSE "failed"]
      BY <2>0, <2>2 DEF CopilotHeard
    <3>2. /\ r \in KeyRecord /\ r.pc = "save" /\ r.out = "none" /\ r.cred = q.cred
          /\ r.spent = q.spent /\ r.saw = q.saw /\ r.asked = q.asked /\ r.judged = q.judged
          /\ r.err \in {"usage", "failed"}
      BY <3>1, <1>5 DEF Heeds, KeyRecord, KeyOut
    <3>3. Asked(r) = Asked(q)
      BY <3>2 DEF Asked
    <3>4. ~(r.saw \subseteq {"transient"})
      BY <1>5, <1>6, <1>9, <2>2, <3>2 DEF VerdictOK, Heeds
    <3>5. RecordOK(r)
      BY <1>5, <1>9, <3>2, <3>3 DEF RecordOK, Heeds, MayEnd
    <3>6. SpentIsTold(r) /\ BlameIsDue(r) /\ Accounted(r) /\ NoRepeat(r)
      BY <1>9, <3>2, <3>4, <1>6, CoveredFacts DEF SpentIsTold, BlameIsDue, Accounted, NoRepeat, Deduped
    <3> QED BY <3>2, <3>5, <3>6, UndoneIsWhole, <1>1, <1>2, <1>8, ProbeStep
  <2>3. CASE ~(q.at = "keychain" /\ v[1] = "refused") /\ ~(q.at = "gh" /\ v[1] \in {"ok", "unreadable"})
    <3>1. PICK out : out = IF v[1] = "ok" THEN "usage" ELSE IF v[1] = "refused" THEN "login" ELSE "failed"
      OBVIOUS
    <3>2. r = Ended(q, out)
      BY <2>0, <2>3, <3>1 DEF CopilotHeard
    <3>3. out \in KeyOut /\ (out = "login" => v[1] = "refused")
      BY <3>1 DEF KeyOut
    <3>4. keyPlugin \notin Deduped \cup {"minimax"}
      BY <1>9 DEF Deduped
    <3>5. Whole(r)
      BY <1>1, <1>2, <1>5, <3>2, <3>3, <3>4, HeardEnds
    <3> QED BY <3>5, <1>1, <1>2, <1>8, ProbeStep
  <2> QED BY <2>1, <2>2, <2>3
<1>10. CASE keyPlugin = "minimax"
  <2>0. r = MinimaxHeard(q, v[1])
    BY <1>7, <1>10 DEF Deduped
  <2>1. CASE v[1] = "ok"
    <3>1. r = Ended(q, "usage")
      BY <2>0, <2>1 DEF MinimaxHeard
    <3>2. Whole(r)
      BY <1>1, <1>2, <1>5, <3>1, HeardEnds DEF KeyOut
    <3> QED BY <3>2, <1>1, <1>2, <1>8, ProbeStep
  <2>2. CASE v[1] # "ok"
    <3>1. PICK err : err = IF q.err # "none" THEN q.err ELSE IF v[1] = "refused" THEN "login" ELSE "failed"
      OBVIOUS
    <3>2. r = [q EXCEPT !.pc = "next", !.err = err]
      BY <2>0, <2>2, <3>1, <1>6 DEF MinimaxHeard, KeyRecord
    <3>3. err \in KeyOut /\ err # "none"
      BY <3>1, <1>6 DEF KeyOut, KeyRecord
    <3>4. err = "login" => "refused" \in q.saw
      BY <3>1, <1>5, <1>6, <1>10 DEF Heeds, MayEnd, VerdictOK
    <3>5. Whole(r)
      BY <1>1, <1>2, <1>5, <1>10, <3>2, <3>3, <3>4, HeardGoesOn
    <3> QED BY <3>5, <1>1, <1>2, <1>8, ProbeStep
  <2> QED BY <2>1, <2>2
<1>11. CASE keyPlugin \in Deduped
  <2>0. r = IF keyPlugin = "devin" THEN ChainHeard(q, v[1]) ELSE AntigravityHeard(q, v[1])
    BY <1>7, <1>11 DEF Deduped
  <2>1. CASE v[1] = "ok"
    <3>1. r = Ended(q, "usage")
      BY <2>0, <2>1 DEF ChainHeard, AntigravityHeard
    <3>2. Whole(r)
      BY <1>1, <1>2, <1>5, <3>1, HeardEnds DEF KeyOut
    <3> QED BY <3>2, <1>1, <1>2, <1>8, ProbeStep
  <2>2. CASE v[1] = "empty"
    <3>1. keyPlugin = "antigravity"
      BY <1>6, <2>2 DEF VerdictOK
    <3>2. r = Ended(q, "login")
      BY <2>0, <2>2, <3>1 DEF AntigravityHeard
    <3>3. Whole(r)
      BY <1>1, <1>2, <1>5, <2>2, <3>1, <3>2, HeardEnds DEF KeyOut
    <3> QED BY <3>3, <1>1, <1>2, <1>8, ProbeStep
  <2>3. CASE v[1] \notin {"ok", "empty"}
    <3>1. PICK err : err = q.err
      OBVIOUS
    <3>2. r = [q EXCEPT !.pc = "next", !.err = err]
      <4>1. r = [q EXCEPT !.pc = "next"]
        BY <1>5, <1>6, <2>0, <2>3 DEF ChainHeard, AntigravityHeard, Heeds, KeyRecord
      <4> QED BY <4>1, <3>1, <1>6 DEF KeyRecord
    <3>3. err \in KeyOut /\ keyPlugin # "minimax"
      BY <3>1, <1>6, <1>11 DEF KeyRecord, Deduped
    <3>4. Whole(r)
      BY <1>1, <1>2, <1>5, <1>11, <3>2, <3>3, HeardGoesOn
    <3> QED BY <3>4, <1>1, <1>2, <1>8, ProbeStep
  <2> QED BY <2>1, <2>2, <2>3
<1>12. CASE keyPlugin \notin Deduped \cup {"minimax", "copilot"}
  <2>0. r = FirstHeard(q, v[1])
    BY <1>7, <1>12 DEF Deduped
  <2>1. PICK out : out = IF v[1] = "ok" THEN "usage" ELSE IF v[1] = "refused" THEN "login" ELSE "failed"
    OBVIOUS
  <2>2. r = Ended(q, out)
    BY <2>0, <2>1 DEF FirstHeard
  <2>3. out \in KeyOut /\ (out = "login" => v[1] = "refused")
    BY <2>1 DEF KeyOut
  <2>4. Whole(r)
    BY <1>1, <1>2, <1>5, <1>12, <2>2, <2>3, HeardEnds
  <2> QED BY <2>4, <1>1, <1>2, <1>8, ProbeStep
<1> QED BY <1>9, <1>10, <1>11, <1>12

(***************************************************************************)
(* copilot's tokens may change under its probes: none of the four          *)
(* promises, and nothing they rest on, depends on what is cached.          *)
(***************************************************************************)
LEMMA CopilotStep ==
  ASSUME KeyIInv, NEW p \in KProbers, NEW r, Now(p, r), keyPlugin = "copilot", UNCHANGED keyPlugin,
         keyHolds' \in [Places(keyPlugin) -> 0..4], Whole(r)
  PROVE  KeyIInv'
<1>1. Common /\ \A q \in KProbers : Whole(keyProbe[q])
  BY Parts DEF KeySound
<1>2. keyProbe'[p] = r /\ \A q \in KProbers \ {p} : keyProbe'[q] = keyProbe[q]
  BY <1>1 DEF Now, Common
<1>3. KeyRecord' = KeyRecord /\ r \in KeyRecord
  BY DEF KeyRecord, Attemptable, Whole, RecordOK
<1>4. Common'
  BY <1>1, <1>3 DEF Now, Common, OneAtATime, FoundAsItWas
<1>5. ASSUME NEW q \in KProbers
      PROVE  Whole(keyProbe[q])'
  <2>1. PICK s : s = keyProbe'[q]
    OBVIOUS
  <2>2. Whole(s)
    <3>1. CASE q = p
      BY <3>1, <2>1, <1>2
    <3>2. CASE q # p
      BY <3>2, <2>1, <1>2, <1>1
    <3> QED BY <3>1, <3>2
  <2>3. Whole(s)'
    BY <2>2, CopilotHolds
  <2> QED BY <2>1, <2>3
<1>6. KeySound'
  BY <1>4, <1>5 DEF KeySound
<1> QED BY <1>6, Parts, PTL

LEMMA CopilotWrites ==
  ASSUME keyPlugin = "copilot", keyHolds \in [Places(keyPlugin) -> 0..4], NEW k \in 0..4, NEW S
  PROVE  [x \in DOMAIN keyHolds |-> IF x \in S THEN k ELSE keyHolds[x]] \in [Places(keyPlugin) -> 0..4]
OBVIOUS

LEMMA ClearKeeps ==
  ASSUME KeyIInv, NEW p \in KProbers, ClearCachedToken(p)
  PROVE  KeyIInv'
<1>1. PICK s : s = keyProbe[p]
  OBVIOUS
<1>2. /\ Whole(s) /\ keyPlugin \in KeyNames /\ keyHolds \in [Places(keyPlugin) -> 0..4]
  BY <1>1, AtProbe
<1>3. s.pc = "clear" /\ s \in KeyRecord /\ keyPlugin = "copilot" /\ UNCHANGED keyPlugin
  BY <1>1, <1>2 DEF ClearCachedToken, Stands, Whole, RecordOK
<1>4. PICK r : r = [s EXCEPT !.pc = "fallback", !.spent = TRUE]
  OBVIOUS
<1>5. Now(p, r)
  BY <1>1, <1>4 DEF ClearCachedToken
<1>6. keyHolds' \in [Places(keyPlugin) -> 0..4]
  BY <1>2, <1>3 DEF ClearCachedToken
<1>7. /\ r \in KeyRecord /\ r.pc = "fallback" /\ r.out = s.out
      /\ r.saw = s.saw /\ r.asked = s.asked /\ r.judged = s.judged
  BY <1>3, <1>4 DEF KeyRecord
<1>8. Asked(r) = Asked(s)
  BY <1>7 DEF Asked
<1>9. RecordOK(r)
  BY <1>2, <1>3, <1>7, <1>8 DEF Whole, RecordOK
<1>10. SpentIsTold(r)
  BY <1>2, <1>3, <1>7 DEF Whole, SpentIsTold
<1>11. BlameIsDue(r) /\ Accounted(r) /\ NoRepeat(r)
  BY <1>2, <1>3, <1>7, CoveredFacts DEF BlameIsDue, Accounted, NoRepeat, Deduped
<1> QED BY <1>3, <1>5, <1>6, <1>7, <1>9, <1>10, <1>11, UndoneIsWhole, CopilotStep

LEMMA FallbackKeeps ==
  ASSUME KeyIInv, NEW p \in KProbers, CopilotFallback(p)
  PROVE  KeyIInv'
<1>1. PICK s : s = keyProbe[p]
  OBVIOUS
<1>2. /\ Whole(s) /\ MayEnd(s) /\ keyPlugin \in KeyNames /\ keyHolds \in [Places(keyPlugin) -> 0..4]
  BY <1>1, AtProbe, UndoneMayEnd
<1>3. s.pc = "fallback" /\ s \in KeyRecord /\ keyPlugin = "copilot"
      /\ UNCHANGED <<keyPlugin, keyHolds>> /\ "refused" \in s.saw
  BY <1>1, <1>2 DEF CopilotFallback, Stands, Whole, RecordOK, SpentIsTold
<1>4. CASE keyHolds["gh"] = 0
  <2>1. PICK r : r = Ended(s, "login")
    OBVIOUS
  <2>2. Whole(r)
    BY <1>2, <1>3, <2>1, CoveredFacts, EndedIsWhole DEF KeyOut
  <2>3. Now(p, r)
    BY <1>1, <1>4, <2>1 DEF CopilotFallback
  <2> QED BY <1>1, <1>3, <2>2, <2>3, ProbeStep
<1>5. CASE keyHolds["gh"] # 0
  <2>1. PICK k : k = keyHolds["gh"]
    OBVIOUS
  <2>2. PICK r : r = [s EXCEPT !.at = "gh", !.cred = k, !.pc = "ask"]
    OBVIOUS
  <2>3. Now(p, r)
    BY <1>1, <1>5, <2>1, <2>2 DEF CopilotFallback
  <2>4. k \in 1..4 /\ "gh" \in Attemptable
    BY <1>2, <1>3, <1>5, <2>1, PlacesAre DEF Attemptable
  <2>5. /\ r \in KeyRecord /\ r.pc = "ask" /\ r.out = s.out /\ r.cred # 0 /\ r.spent = s.spent
        /\ r.saw = s.saw /\ r.asked = s.asked /\ r.judged = s.judged
    <3>1. PICK a : a = [s EXCEPT !.at = "gh", !.pc = "ask"]
      OBVIOUS
    <3>2. a \in KeyRecord
      BY <1>3, <2>4, <3>1 DEF KeyRecord
    <3>3. r = [a EXCEPT !.cred = k]
      BY <1>3, <2>2, <3>1 DEF KeyRecord
    <3>4. r \in KeyRecord
      BY <2>4, <3>2, <3>3, SMTT(60) DEF KeyRecord
    <3> QED BY <1>3, <2>2, <2>4, <3>4 DEF KeyRecord
  <2>6. Asked(r) = Asked(s)
    BY <2>5 DEF Asked
  <2>7. RecordOK(r)
    BY <1>2, <1>3, <2>5, <2>6 DEF Whole, RecordOK
  <2>8. SpentIsTold(r)
    BY <1>2, <2>5 DEF Whole, SpentIsTold
  <2>9. BlameIsDue(r) /\ Accounted(r) /\ NoRepeat(r)
    BY <1>2, <1>3, <2>5, CoveredFacts DEF BlameIsDue, Accounted, NoRepeat, Deduped
  <2> QED BY <1>1, <1>3, <2>3, <2>5, <2>7, <2>8, <2>9, UndoneIsWhole, ProbeStep
<1> QED BY <1>4, <1>5

LEMMA KeySaveKeeps ==
  ASSUME KeyIInv, NEW p \in KProbers, SaveToken(p)
  PROVE  KeyIInv'
<1>1. PICK s : s = keyProbe[p]
  OBVIOUS
<1>2. /\ Whole(s) /\ MayEnd(s) /\ keyPlugin \in KeyNames /\ keyHolds \in [Places(keyPlugin) -> 0..4]
  BY <1>1, AtProbe, UndoneMayEnd
<1>3. /\ s.pc = "save" /\ s \in KeyRecord /\ keyPlugin = "copilot" /\ UNCHANGED keyPlugin
      /\ ~(s.saw \subseteq {"transient"}) /\ s.err \in {"usage", "failed"} /\ s.cred \in 0..4
  BY <1>1, <1>2 DEF SaveToken, Stands, Whole, RecordOK, SpentIsTold, KeyRecord
<1>4. PICK q : q = [s EXCEPT !.spent = TRUE]
  OBVIOUS
<1>5. PICK r : r = Ended(q, s.err)
  OBVIOUS
<1>6. Now(p, r)
  BY <1>1, <1>4, <1>5 DEF SaveToken
<1>7. keyHolds' \in [Places(keyPlugin) -> 0..4]
  BY <1>1, <1>2, <1>3, CopilotWrites DEF SaveToken
<1>8. /\ q \in KeyRecord /\ q.asked = s.asked /\ q.saw = s.saw /\ q.judged = s.judged /\ q.err = s.err
  BY <1>3, <1>4 DEF KeyRecord
<1>9. Asked(q) = Asked(s)
  BY <1>8 DEF Asked
<1>10. MayEnd(q)
  BY <1>2, <1>3, <1>8, <1>9 DEF MayEnd, OnceTold, Deduped
<1>11. Whole(r)
  BY <1>2, <1>3, <1>5, <1>10, CoveredFacts, EndedIsWhole DEF KeyOut
<1> QED BY <1>3, <1>6, <1>7, <1>11, CopilotStep

LEMMA LoginKeeps ==
  ASSUME KeyIInv, GhAuthLogin
  PROVE  KeyIInv'
<1>1. Common /\ \A q \in KProbers : Whole(keyProbe[q])
  BY Parts DEF KeySound
<1>2. keyPlugin = "copilot" /\ UNCHANGED <<keyPlugin, keyProbe>>
  BY DEF GhAuthLogin
<1>3. keyHolds' \in [Places(keyPlugin) -> 0..4]
  <2> DEFINE C == 0..4
  <2>1. 2 \in C /\ keyHolds \in [Places(keyPlugin) -> C]
    BY <1>1 DEF Common
  <2>2. keyHolds' = [keyHolds EXCEPT !["gh"] = 2]
    BY DEF GhAuthLogin
  <2> HIDE DEF C
  <2>3. keyHolds' \in [Places(keyPlugin) -> C]
    BY <2>1, <2>2
  <2> QED BY <2>3 DEF C
<1>4. Common'
  BY <1>1, <1>2, <1>3 DEF Common, OneAtATime, FoundAsItWas, Stands, KeyRecord, Attemptable
<1>5. ASSUME NEW q \in KProbers
      PROVE  Whole(keyProbe[q])'
  <2>1. PICK s : s = keyProbe[q]
    OBVIOUS
  <2>2. Whole(s)'
    BY <1>1, <1>2, <2>1, CopilotHolds
  <2> QED BY <1>2, <2>1, <2>2
<1>6. KeySound'
  BY <1>4, <1>5 DEF KeySound
<1> QED BY <1>6, Parts, PTL

(***************************************************************************)
(* antigravity caches a token it refreshed: the other probes are idle.     *)
(***************************************************************************)
LEMMA CacheStep ==
  ASSUME KeyIInv, NEW p \in KProbers, NEW r, Now(p, r), keyPlugin = "antigravity", UNCHANGED keyPlugin,
         keyProbe[p].pc = "refresh", keyHolds' \in [Places(keyPlugin) -> 0..4],
         \A x \in Places(keyPlugin) \ {"cache"} : keyHolds'[x] = keyHolds[x],
         r \in KeyRecord, r.pc \in {"refresh", "agy", "done"}, Whole(r)'
  PROVE  KeyIInv'
<1>1. Common /\ \A q \in KProbers : Whole(keyProbe[q])
  BY Parts DEF KeySound
<1>2. keyProbe'[p] = r /\ \A q \in KProbers \ {p} : keyProbe'[q] = keyProbe[q]
  BY <1>1 DEF Now, Common
<1>3. KeyRecord' = KeyRecord
  BY DEF KeyRecord, Attemptable
<1>4. (keyProbe \in [KProbers -> KeyRecord])'
  BY <1>1, <1>3 DEF Now, Common
<1>5. \A q \in KProbers \ {p} : keyProbe[q].pc = "idle"
  BY <1>1 DEF Common, OneAtATime, Stands
<1>6. OneAtATime'
  BY <1>2, <1>5 DEF OneAtATime, Stands
<1>7. FoundAsItWas'
  <2> SUFFICES ASSUME NEW x \in Places(keyPlugin), ~(keyHolds'[x] <= 2)
               PROVE  x = "cache" /\ \E q \in KProbers : keyProbe'[q].pc \in {"refresh", "agy", "done"}
    BY DEF FoundAsItWas
  <2>1. x = "cache"
    BY <1>1 DEF Common, FoundAsItWas
  <2> QED BY <2>1, <1>2
<1>8. Common'
  BY <1>1, <1>4, <1>6, <1>7 DEF Common
<1>9. ASSUME NEW q \in KProbers
      PROVE  Whole(keyProbe[q])'
  <2>1. CASE q = p
    BY <2>1, <1>2
  <2>2. CASE q # p
    <3>1. keyProbe[q] = KeyIdle
      BY <1>1, <1>5, <2>2 DEF Whole, RecordOK
    <3>2. PICK s : s = KeyIdle
      OBVIOUS
    <3>3. Whole(KeyIdle)'
      BY IdleIsWhole, PTL
    <3> QED BY <3>1, <3>3, <2>2, <1>2
  <2> QED BY <2>1, <2>2
<1>10. KeySound'
  BY <1>8, <1>9 DEF KeySound
<1> QED BY <1>10, Parts, PTL

(* antigravity gives up refreshing, loses a refresh, or asks with what it  *)
(* refreshed.                                                              *)
LEMMA RefreshKeeps ==
  ASSUME KeyIInv, NEW p \in KProbers, RefreshAccessToken(p)
  PROVE  KeyIInv'
<1>1. PICK s : s = keyProbe[p]
  OBVIOUS
<1>2. /\ Common /\ Whole(s) /\ MayEnd(s) /\ keyPlugin \in KeyNames
      /\ keyHolds \in [Places(keyPlugin) -> 0..4]
  BY <1>1, AtProbe, UndoneMayEnd
<1>3. s.pc = "refresh" /\ s \in KeyRecord /\ keyPlugin = "antigravity" /\ UNCHANGED keyPlugin
  BY <1>1, <1>2 DEF RefreshAccessToken, Stands, Whole, RecordOK
<1>4. /\ s.left \in Seq(Attemptable) /\ s.out = "none" /\ s.asked \in Seq(1..4)
      /\ Covered = {"db1", "db2", "cache"} /\ Deduped = {"devin", "antigravity"}
  BY <1>2, <1>3, CoveredFacts DEF Whole, RecordOK, KeyRecord
<1>5. /\ Distinct(s.asked)
      /\ \A x \in RangeOf(s.left) : /\ x \in {"rt1", "rt2"} /\ keyHolds[x] # 0
                                    /\ keyHolds[x] + 2 \notin Asked(s)
  BY <1>2, <1>3, <1>4 DEF Whole, NoRepeat, Distinct, RangeOf
<1>6. \A x \in Covered : KeyAt(keyPlugin, keyHolds, x) \in {0} \cup Asked(s)
  BY <1>2, <1>3, <1>4, <1>5 DEF Whole, Accounted, RangeOf
<1>7. CASE s.left = <<>>
  <2>1. PICK r : r = [s EXCEPT !.pc = "agy"]
    OBVIOUS
  <2>2. Now(p, r) /\ UNCHANGED keyHolds
    BY <1>1, <1>7, <2>1 DEF RefreshAccessToken
  <2>3. /\ r \in KeyRecord /\ r.pc = "agy" /\ r.left = s.left /\ r.out = s.out /\ r.asked = s.asked
        /\ r.saw = s.saw /\ r.judged = s.judged /\ r.spent = s.spent
    BY <1>3, <2>1 DEF KeyRecord
  <2>4. Asked(r) = Asked(s)
    BY <2>3 DEF Asked
  <2>5. RecordOK(r)
    BY <1>2, <1>3, <2>3, <2>4 DEF Whole, RecordOK
  <2>6. SpentIsTold(r) /\ BlameIsDue(r)
    BY <1>2, <1>3, <2>3 DEF Whole, SpentIsTold, BlameIsDue
  <2>7. Accounted(r)
    BY <1>2, <1>3, <1>6, <2>3, <2>4 DEF Whole, Accounted, Heard
  <2>8. NoRepeat(r)
    BY <1>5, <1>7, <2>3 DEF NoRepeat, Searching, Distinct
  <2> QED BY <1>1, <1>3, <2>2, <2>3, <2>5, <2>6, <2>7, <2>8, UndoneIsWhole, ProbeStep
<1>8. CASE s.left # <<>>
  <2>1. PICK rt : rt = keyHolds[Head(s.left)]
    OBVIOUS
  <2>2. PICK S : S = {x \in DOMAIN keyHolds : keyHolds[x] # rt}
    OBVIOUS
  <2>3. PICK left : left = Among(Tail(s.left), S)
    OBVIOUS
  <2>4. PICK spent : spent = (s.spent \/ (s.asked # <<>> /\ s.asked[1] <= 2))
    OBVIOUS
  <2>5. PICK r : r = RefreshedKey(s, rt)
    OBVIOUS
  <2>6. \/ \E v \in Verdicts("antigravity"), cached \in BOOLEAN :
              /\ keyHolds' = IF cached THEN [keyHolds EXCEPT !["cache"] = rt + 2] ELSE keyHolds
              /\ Now(p, AntigravityHeard(Answered(r, rt + 2, v), v[1]))
        \/ Now(p, r) /\ UNCHANGED keyHolds
    BY <1>1, <1>8, <2>1, <2>5 DEF RefreshAccessToken
  <2>7. /\ Tail(s.left) \in Seq(Attemptable) /\ Head(s.left) \in RangeOf(s.left)
        /\ RangeOf(Tail(s.left)) \subseteq RangeOf(s.left)
    BY <1>4, <1>8, NonEmpty
  <2>8. left \in Seq(Attemptable) /\ RangeOf(left) = RangeOf(Tail(s.left)) \cap S
    <3>1. left \in Seq(Attemptable) /\ ToSet(left) = ToSet(Tail(s.left)) \cap S
      BY <2>3, <2>7, AmongFacts
    <3> QED BY <3>1 DEF ToSet, RangeOf
  <2>9. /\ rt \in 1..2 /\ rt + 2 \in 1..4 /\ rt + 2 \notin Asked(s)
    <3>1. PICK x : x = Head(s.left)
      OBVIOUS
    <3>2. x \in {"rt1", "rt2"} /\ rt = keyHolds[x] /\ rt # 0 /\ rt + 2 \notin Asked(s)
      BY <1>5, <2>1, <2>7, <3>1
    <3>3. x \in Places(keyPlugin)
      BY <1>3, <3>2, PlacesAre
    <3>4. rt \in 0..4 /\ rt <= 2
      BY <1>2, <1>3, <3>2, <3>3 DEF Common, FoundAsItWas
    <3> QED BY <3>2, <3>4
  <2>10. \A x \in RangeOf(left) : /\ x \in {"rt1", "rt2"} /\ keyHolds[x] # 0
                                  /\ keyHolds[x] + 2 \notin Asked(s) /\ keyHolds[x] # rt
    BY <1>5, <2>2, <2>7, <2>8
  <2>11. spent => ~(s.saw \subseteq {"transient"})
    <3>1. s.asked # <<>> => s.asked[1] \in 1..4
      BY <1>4, NonEmpty
    <3>2. s.spent => ~(s.saw \subseteq {"transient"})
      BY <1>2 DEF Whole, SpentIsTold
    <3>3. s.asked = <<>> \/ "refused" \in s.saw \/ s.asked[1] > 2
      BY <1>2, <1>3 DEF Whole, SpentIsTold
    <3>4. spent => s.spent \/ (s.asked # <<>> /\ s.asked[1] <= 2)
      BY <2>4
    <3>5. ~(s.asked # <<>> /\ s.asked[1] <= 2 /\ s.asked[1] > 2)
      BY <3>1
    <3> QED BY <3>2, <3>3, <3>4, <3>5
  <2>12. /\ r \in KeyRecord /\ r.pc = "refresh" /\ r.left = left /\ r.out = "none" /\ r.asked = s.asked
         /\ r.saw = s.saw /\ r.judged = s.judged /\ r.spent = spent /\ r.err = s.err
    <3>1. spent \in BOOLEAN
      BY <1>3, <2>4 DEF KeyRecord
    <3>2. r = [s EXCEPT !.left = left, !.spent = spent]
      BY <1>3, <2>2, <2>3, <2>4, <2>5 DEF KeyRecord, RefreshedKey
    <3> QED BY <1>3, <1>4, <2>8, <3>1, <3>2 DEF KeyRecord
  <2>13. Asked(r) = Asked(s)
    BY <2>12 DEF Asked
  <2>14. s.judged \subseteq Asked(s) /\ \A k \in Asked(s) : Heard(s, k)
    BY <1>2, <1>3, <1>4 DEF MayEnd
  <2>15. CASE Now(p, r) /\ UNCHANGED keyHolds
    <3>1. RecordOK(r)
      BY <1>3, <2>12, <2>13, <2>14 DEF RecordOK
    <3>2. SpentIsTold(r) /\ BlameIsDue(r)
      BY <1>2, <1>3, <2>11, <2>12 DEF Whole, SpentIsTold, BlameIsDue
    <3>3. Accounted(r)
      BY <1>6, <2>12, <2>13, <2>14 DEF Accounted, Heard
    <3>4. NoRepeat(r)
      BY <1>5, <2>10, <2>12, <2>13 DEF NoRepeat, Searching, Distinct, RangeOf
    <3> QED BY <1>1, <1>3, <2>12, <2>15, <3>1, <3>2, <3>3, <3>4, UndoneIsWhole, ProbeStep
  <2>16. ASSUME NEW v \in Verdicts("antigravity"), NEW cached \in BOOLEAN,
                keyHolds' = IF cached THEN [keyHolds EXCEPT !["cache"] = rt + 2] ELSE keyHolds,
                NEW q, q = Answered(r, rt + 2, v),
                NEW t, t = AntigravityHeard(q, v[1]), Now(p, t)
         PROVE  KeyIInv'
    <3>1. VerdictOK("antigravity", v)
      BY <2>16, VerdictFacts DEF KeyNames
    <3>2. PICK k : k = rt + 2
      OBVIOUS
    <3>3. PICK j : j = IF v[1] = "transient" THEN s.judged ELSE s.judged \cup {k}
      OBVIOUS
    <3>4. PICK a : a = Append(s.asked, k)
      OBVIOUS
    <3>5. k \in 1..4 /\ k \notin Asked(s) /\ k > 2
      BY <2>9, <3>2
    <3>6. /\ a \in Seq(1..4) /\ a # <<>> /\ RangeOf(a) = Asked(s) \cup {k} /\ Distinct(a)
          /\ a[1] = IF s.asked = <<>> THEN k ELSE s.asked[1]
      BY <1>4, <1>5, <3>4, <3>5, OneMore, AskedIsRange
    <3>7. j \in SUBSET (1..4) /\ s.saw \cup v[2] \in SUBSET CloudAnswers
      BY <1>3, <3>1, <3>3, <3>5 DEF KeyRecord, VerdictOK
    <3>8. /\ q \in KeyRecord /\ q.pc = "refresh" /\ q.left = left /\ q.out = "none" /\ q.asked = a
          /\ q.saw = s.saw \cup v[2] /\ q.judged = j /\ q.spent = spent
      <4>1. PICK b : b = [r EXCEPT !.asked = a, !.saw = s.saw \cup v[2]]
        OBVIOUS
      <4>2. b \in KeyRecord
        BY <2>12, <3>6, <3>7, <4>1 DEF KeyRecord
      <4>3. q = [b EXCEPT !.judged = j]
        BY <2>12, <2>16, <3>2, <3>3, <3>4, <4>1 DEF KeyRecord, Answered
      <4>4. q \in KeyRecord
        BY <3>7, <4>2, <4>3 DEF KeyRecord
      <4> QED BY <2>12, <4>1, <4>2, <4>3, <4>4 DEF KeyRecord
    <3>9. /\ t \in KeyRecord /\ t.asked = a /\ t.saw = q.saw /\ t.judged = j /\ t.spent = spent
          /\ \/ t.pc = "refresh" /\ t.out = "none" /\ t.left = left
             \/ t.pc = "done" /\ (t.out = "usage" \/ "empty" \in t.saw)
      <4>1. CASE v[1] = "ok"
        <5>1. t = Ended(q, "usage") /\ "usage" \in KeyOut
          BY <4>1, <2>16 DEF KeyOut, AntigravityHeard
        <5> QED BY <5>1, <3>8, EndedFacts
      <4>2. CASE v[1] = "empty"
        <5>1. t = Ended(q, "login") /\ "login" \in KeyOut
          BY <4>2, <2>16 DEF KeyOut, AntigravityHeard
        <5>2. "empty" \in q.saw
          BY <4>2, <3>1, <3>8 DEF VerdictOK
        <5> QED BY <5>1, <5>2, <3>8, EndedFacts
      <4>3. CASE v[1] \notin {"ok", "empty"}
        <5>1. t = [q EXCEPT !.pc = q.pc]
          BY <4>3, <2>16, <3>8 DEF AntigravityHeard
        <5>2. t = q
          BY <5>1, <3>8 DEF KeyRecord
        <5> QED BY <5>2, <3>8
      <4> QED BY <4>1, <4>2, <4>3
    <3>10. Asked(t) = Asked(s) \cup {k}
      BY <3>6, <3>9, AskedIsRange
    <3>11. PICK h : h = keyHolds'
      OBVIOUS
    <3>12. /\ h \in [Places(keyPlugin) -> 0..4] /\ (h["cache"] = k \/ h["cache"] = keyHolds["cache"])
           /\ \A x \in Places(keyPlugin) \ {"cache"} : h[x] = keyHolds[x]
      <4>1. "cache" \in Places(keyPlugin) /\ k \in 0..4
        BY <1>3, <3>5, PlacesAre
      <4> DEFINE C == 0..4  P == Places(keyPlugin)
      <4>2. keyHolds \in [P -> C] /\ k \in C /\ "cache" \in P
        BY <1>2, <4>1
      <4> HIDE DEF C, P
      <4>3. h = [keyHolds EXCEPT !["cache"] = k] \/ h = keyHolds
        BY <2>16, <3>2, <3>11
      <4>4. h \in [P -> C] /\ (h["cache"] = k \/ h["cache"] = keyHolds["cache"])
            /\ \A x \in P \ {"cache"} : h[x] = keyHolds[x]
        BY <4>2, <4>3
      <4> QED BY <4>4 DEF C, P
    <3>13. RecordOK(t)'
      <4>1. KeyRecord' = KeyRecord
        BY <1>3 DEF KeyRecord, Attemptable
      <4>2. t.judged \subseteq Asked(t)
        BY <2>14, <3>3, <3>9, <3>10
      <4> QED BY <1>3, <3>9, <4>1, <4>2 DEF RecordOK, Asked
    <3>14. SpentIsTold(t)'
      <4>1. t.spent => ~(t.saw \subseteq {"transient"})
        BY <2>11, <3>8, <3>9
      <4>2. "refused" \in t.saw \/ t.asked[1] > 2
        BY <1>2, <1>3, <1>4, <3>5, <3>6, <3>8, <3>9 DEF Whole, SpentIsTold
      <4> QED BY <3>9, <4>1, <4>2 DEF SpentIsTold
    <3>15. BlameIsDue(t)'
      BY <1>3, <3>9 DEF BlameIsDue
    <3>16. Accounted(t)'
      <4>1. \A x \in Covered : KeyAt(keyPlugin, h, x) \in {0} \cup Asked(t)
        <5> SUFFICES ASSUME NEW x \in {"db1", "db2", "cache"}
                     PROVE  KeyAt(keyPlugin, h, x) \in {0} \cup Asked(t)
          BY <1>4
        <5>1. x \in Places(keyPlugin) /\ x \in AttemptsOf(keyPlugin) /\ x \in Covered
          BY <1>3, <1>4, PlacesAre DEF AttemptsOf
        <5>2. KeyAt(keyPlugin, h, x) = h[x]
          BY <1>2, <1>3, <3>12, <5>1, KeyAtFacts
        <5>3. KeyAt(keyPlugin, keyHolds, x) = keyHolds[x]
          BY <1>2, <1>3, <5>1, KeyAtFacts
        <5> QED BY <1>6, <3>10, <3>12, <5>1, <5>2, <5>3
      <4>2. \A c \in Asked(t) : Heard(t, c)
        <5>1. \A c \in Asked(s) : Heard(t, c)
          BY <2>14, <3>3, <3>8, <3>9 DEF Heard
        <5>2. Heard(t, k)
          BY <3>1, <3>3, <3>8, <3>9 DEF Heard, VerdictOK
        <5> QED BY <5>1, <5>2, <3>10
      <4>3. Covered' = Covered
        BY <1>3 DEF Covered, Attemptable
      <4> QED BY <1>3, <3>11, <4>1, <4>2, <4>3 DEF Accounted, Asked, Heard
    <3>17. NoRepeat(t)'
      <4>1. ASSUME t.pc = "refresh", NEW i \in DOMAIN t.left
            PROVE  /\ t.left[i] \in {"rt1", "rt2"} /\ h[t.left[i]] # 0
                   /\ h[t.left[i]] + 2 \notin Asked(t)
        <5>1. PICK x : x = t.left[i]
          OBVIOUS
        <5>2. x \in RangeOf(left)
          BY <4>1, <3>9, <5>1 DEF RangeOf
        <5>3. x \in {"rt1", "rt2"} /\ keyHolds[x] # 0 /\ keyHolds[x] + 2 \notin Asked(s)
              /\ keyHolds[x] # rt
          BY <2>10, <5>2
        <5>4. x \in Places(keyPlugin) \ {"cache"}
          BY <1>3, <5>3, PlacesAre
        <5>5. h[x] = keyHolds[x] /\ keyHolds[x] \in 0..4
          BY <1>2, <3>12, <5>4
        <5>6. keyHolds[x] + 2 # k
          BY <2>9, <3>2, <5>3, <5>5
        <5> QED BY <3>10, <5>1, <5>3, <5>5, <5>6
      <4> QED BY <3>6, <3>9, <3>11, <4>1 DEF NoRepeat, Distinct, Searching, Asked
    <3>18. Told(t)'
      <4>1. OnceTold(t)'
        BY <3>6, <3>9 DEF OnceTold, Distinct
      <4>2. GoodTold(t)' /\ OutageTold(t)' /\ LoginTold(t)'
        BY <1>3, <2>11, <3>8, <3>9 DEF GoodTold, OutageTold, LoginTold
      <4> QED BY <4>1, <4>2 DEF Told
    <3>19. Whole(t)'
      BY <3>13, <3>14, <3>15, <3>16, <3>17, <3>18 DEF Whole
    <3> QED BY <1>1, <1>3, <2>16, <3>9, <3>11, <3>12, <3>19, CacheStep
  <2> QED BY <2>6, <2>15, <2>16
<1> QED BY <1>7, <1>8

(* The last resort: agy's token, or the end.                               *)
LEMMA AgyKeeps ==
  ASSUME KeyIInv, NEW p \in KProbers, AskAgy(p)
  PROVE  KeyIInv'
<1>1. PICK s : s = keyProbe[p]
  OBVIOUS
<1>2. /\ Whole(s) /\ MayEnd(s) /\ keyPlugin \in KeyNames /\ keyHolds \in [Places(keyPlugin) -> 0..4]
  BY <1>1, AtProbe, UndoneMayEnd
<1>3. /\ s.pc = "agy" /\ s \in KeyRecord /\ keyPlugin = "antigravity"
      /\ UNCHANGED <<keyPlugin, keyHolds>>
  BY <1>1, <1>2 DEF AskAgy, Stands, Whole, RecordOK
<1>4. s.left = <<>> /\ Distinct(s.asked)
  BY <1>2, <1>3 DEF Whole, NoRepeat, Distinct, Deduped
<1>5. CASE keyHolds["agy"] = 0
  <2>1. PICK r : r = Ended(s, "login")
    OBVIOUS
  <2>2. Now(p, r)
    BY <1>1, <1>5, <2>1 DEF AskAgy
  <2>3. "transient" \notin s.saw => CanAskWith \subseteq {0} \cup s.judged
    BY <1>1, <1>3, <1>4, <1>5, LookedEverywhere
  <2>4. Whole(r)
    BY <1>2, <1>3, <2>1, <2>3, EndedIsWhole DEF KeyOut
  <2>5. r.pc = "done"
    BY <1>3, <2>1, EndedFacts DEF KeyOut
  <2> QED BY <1>1, <1>3, <2>2, <2>4, <2>5, ProbeStep
<1>6. CASE keyHolds["agy"] # 0
  <2>1. PICK k : k = keyHolds["agy"]
    OBVIOUS
  <2>2. PICK v \in AgyVerdicts :
          Now(p, Ended(Answered(s, k, <<v, {v}>>), IF v = "ok" THEN "usage" ELSE "login"))
    BY <1>1, <1>6, <2>1 DEF AskAgy
  <2>3. PICK q : q = Answered(s, k, <<v, {v}>>)
    OBVIOUS
  <2>4. PICK out : out = IF v = "ok" THEN "usage" ELSE "login"
    OBVIOUS
  <2>5. PICK r : r = Ended(q, out)
    OBVIOUS
  <2>6. Now(p, r)
    BY <2>2, <2>3, <2>4, <2>5
  <2>7. k \in 1..4 /\ v \in CloudAnswers
    <3>1. k \in 1..4
      BY <1>2, <1>3, <1>6, <2>1, PlacesAre
    <3>2. CloudVerdicts \subseteq CloudAnswers
      BY DEF CloudVerdicts, CloudCodeJson, Decides, CloudAnswers, KeyAnswers
    <3>3. v \in CloudAnswers
      BY <3>2 DEF AgyVerdicts, AgyCloudCode
    <3> QED BY <3>1, <3>3
  <2>8. /\ s.asked \in Seq(1..4) /\ s.judged \in SUBSET (1..4) /\ s.judged \subseteq Asked(s)
        /\ \A c \in Asked(s) : Heard(s, c)
    BY <1>2, <1>3 DEF MayEnd, KeyRecord, Deduped
  <2>9. PICK a : a = Append(s.asked, k)
    OBVIOUS
  <2>10. PICK j : j = IF v = "transient" THEN s.judged ELSE s.judged \cup {k}
    OBVIOUS
  <2>11. /\ a \in Seq(1..4) /\ a # <<>> /\ RangeOf(a) = Asked(s) \cup {k}
         /\ \A m, n \in DOMAIN a : m < n /\ a[m] = a[n] => n = Len(a) /\ a[n] = k
    BY <1>4, <2>7, <2>8, <2>9, OneMore, AskedIsRange
  <2>12. j \in SUBSET (1..4) /\ s.saw \cup {v} \in SUBSET CloudAnswers
    BY <1>3, <2>7, <2>8, <2>10 DEF KeyRecord
  <2>13. /\ q \in KeyRecord /\ q.asked = a /\ q.saw = s.saw \cup {v} /\ q.judged = j
         /\ q.spent = s.spent
    <3>1. PICK b : b = [s EXCEPT !.asked = a, !.saw = s.saw \cup {v}]
      OBVIOUS
    <3>2. b \in KeyRecord
      BY <1>3, <2>11, <2>12, <3>1 DEF KeyRecord
    <3>3. q = [b EXCEPT !.judged = j]
      BY <1>3, <2>3, <2>9, <2>10, <3>1 DEF KeyRecord, Answered
    <3>4. q \in KeyRecord
      BY <2>12, <3>2, <3>3 DEF KeyRecord
    <3> QED BY <1>3, <3>1, <3>2, <3>3, <3>4 DEF KeyRecord
  <2>14. Asked(q) = Asked(s) \cup {k}
    BY <2>11, <2>13, AskedIsRange
  <2>15. q.spent => ~(q.saw \subseteq {"transient"})
    BY <1>2, <2>13 DEF Whole, SpentIsTold
  <2>16. \A c \in Asked(q) : Heard(q, c)
    <3>1. \A c \in Asked(s) : Heard(q, c)
      BY <2>8, <2>10, <2>13 DEF Heard
    <3>2. Heard(q, k)
      BY <2>10, <2>13 DEF Heard
    <3> QED BY <2>14, <3>1, <3>2
  <2>17. OnceTold(q)
    BY <1>3, <2>1, <2>11, <2>13 DEF OnceTold
  <2>18. MayEnd(q)
    BY <1>3, <2>8, <2>10, <2>13, <2>14, <2>15, <2>16, <2>17 DEF MayEnd
  <2>19. "transient" \notin q.saw => CanAskWith \subseteq {0} \cup q.judged
    <3> SUFFICES ASSUME "transient" \notin q.saw, NEW c \in CanAskWith
                 PROVE  c \in {0} \cup q.judged
      OBVIOUS
    <3>1. PICK x \in {"db1", "db2", "cache", "agy"} : c = keyHolds[x]
      <4>1. CanAskWith = {keyHolds[x] : x \in Places(keyPlugin) \ {"rt1", "rt2"}}
        BY <1>3 DEF CanAskWith, Deduped
      <4> QED BY <4>1, <1>3, PlacesAre
    <3>2. CASE x = "agy"
      BY <3>1, <3>2, <2>1, <2>10, <2>13
    <3>3. CASE x # "agy"
      <4>1. x \in Covered /\ x \in AttemptsOf(keyPlugin)
        BY <1>2, <1>3, <3>3, CoveredFacts, PlacesAre DEF AttemptsOf
      <4>2. KeyAt(keyPlugin, keyHolds, x) \in {0} \cup Asked(s)
        BY <1>2, <1>3, <1>4, <4>1 DEF Whole, Accounted
      <4>3. KeyAt(keyPlugin, keyHolds, x) = c
        BY <1>2, <1>3, <3>1, <4>1, KeyAtFacts
      <4>4. c \in {0} \cup Asked(q)
        BY <2>14, <4>2, <4>3
      <4> QED BY <2>16, <4>4 DEF Heard
    <3> QED BY <3>2, <3>3
  <2>20. Whole(r)
    BY <1>3, <2>4, <2>5, <2>18, <2>19, EndedIsWhole DEF KeyOut
  <2>21. r.pc = "done"
    BY <2>4, <2>5, <2>13, EndedFacts DEF KeyOut
  <2> QED BY <1>1, <1>3, <2>6, <2>20, <2>21, ProbeStep
<1> QED BY <1>5, <1>6

(***************************************************************************)
(* The invariant holds at the start and is kept by every step.             *)
(***************************************************************************)
LEMMA KeysAtStart ==
  ASSUME KeyInit
  PROVE  KeyIInv
<1>1. keyProbe = [p \in KProbers |-> KeyIdle] /\ keyPlugin \in KPlugins
      /\ keyHolds \in [Places(keyPlugin) -> 0..2]
  BY DEF KeyInit
<1>2. \A p \in KProbers : keyProbe[p] = KeyIdle /\ keyProbe[p].pc = "idle"
  BY <1>1, KeyIdleFacts
<1>3. keyHolds \in [Places(keyPlugin) -> 0..4] /\ \A x \in Places(keyPlugin) : keyHolds[x] <= 2
  <2>1. 0..2 \subseteq 0..4 /\ \A n \in 0..2 : n <= 2
    OBVIOUS
  <2> QED BY <1>1, <2>1
<1>4. Common
  BY <1>1, <1>2, <1>3, KeyIdleFacts DEF Common, OneAtATime, FoundAsItWas, Stands
<1>5. \A p \in KProbers : Whole(keyProbe[p])
  BY <1>2, IdleIsWhole
<1> QED BY <1>4, <1>5, Parts DEF KeySound

LEMMA KeyStepKeeps ==
  ASSUME KeyIInv, [KeyNext]_keyVars
  PROVE  KeyIInv'
<1>1. CASE \E p \in KProbers :
             \/ KeyStart(p) \/ LanguageServer(p) \/ NextKey(p) \/ Ask(p)
             \/ ClearCachedToken(p) \/ CopilotFallback(p) \/ SaveToken(p)
             \/ RefreshAccessToken(p) \/ AskAgy(p)
  BY <1>1, KeyStartKeeps, ServerKeeps, NextKeeps, AskKeeps, ClearKeeps, FallbackKeeps, KeySaveKeeps,
     RefreshKeeps, AgyKeeps
<1>2. CASE GhAuthLogin
  BY <1>2, LoginKeeps
<1>3. CASE UNCHANGED keyVars
  <2>1. UNCHANGED <<keyPlugin, keyHolds>> /\ UNCHANGED keyProbe
    BY <1>3 DEF keyVars
  <2>2. Common /\ \A q \in KProbers : Whole(keyProbe[q])
    BY Parts DEF KeySound
  <2>3. Common'
    BY <2>1, <2>2 DEF Common, OneAtATime, FoundAsItWas, Stands, KeyRecord, Attemptable
  <2>4. ASSUME NEW q \in KProbers
        PROVE  Whole(keyProbe[q])'
    <3>1. PICK s : s = keyProbe[q]
      OBVIOUS
    <3>2. Whole(s)'
      BY <2>1, <2>2, <3>1, SameHolds
    <3> QED BY <2>1, <3>1, <3>2
  <2>5. KeySound'
    BY <2>3, <2>4 DEF KeySound
  <2> QED BY <2>5, Parts, PTL
<1> QED BY <1>1, <1>2, <1>3 DEF KeyNext

(* The invariant, for any of the plugins, any number of probes and         *)
(* whatever the machine holds when they start.                             *)
THEOREM KeyInvariant ==
  KeySpec => []KeyIInv
<1>1. KeyInit => KeyIInv
  BY KeysAtStart
<1>2. KeyIInv /\ [KeyNext]_keyVars => KeyIInv'
  BY KeyStepKeeps
<1> QED BY <1>1, <1>2, PTL DEF KeySpec

(* A stale credential in one place never hides a good one in another:      *)
(* the order of the places and the refusals on the way do not matter, only *)
(* an outage and, for antigravity, an account that has no models.          *)
THEOREM StaleHidesNothing ==
  KeySpec => []GoodNotMasked
<1>1. KeyIInv => GoodNotMasked
  BY DEF KeyIInv
<1> QED BY <1>1, KeyInvariant, PTL

(* devin and antigravity ask at most once with one credential, but for     *)
(* agy's own service, although two places often hold the same one.         *)
THEOREM AskedOnlyOnce ==
  KeySpec => []AskedOnce
<1>1. KeyIInv => AskedOnce
  BY DEF KeyIInv
<1> QED BY <1>1, KeyInvariant, PTL

(* A probe that was answered by failures only has changed no token.        *)
THEOREM OutagesAreHarmless ==
  KeySpec => []OutageChangesNothing
<1>1. KeyIInv => OutageChangesNothing
  BY DEF KeyIInv
<1> QED BY <1>1, KeyInvariant, PTL

(* The user is told to sign in only for a refusal, or for want of a key.   *)
THEOREM BlameIsDeserved ==
  KeySpec => []LoginMeansRefused
<1>1. KeyIInv => LoginMeansRefused
  BY DEF KeyIInv
<1> QED BY <1>1, KeyInvariant, PTL

(* The type invariant of the plugins that ask with a key.                  *)
THEOREM KeyTypeCorrect ==
  KeySpec => []KeyTypeOK
<1>1. KeyIInv => KeyTypeOK
  BY DEF KeyIInv
<1> QED BY <1>1, KeyInvariant, PTL
=============================================================================
