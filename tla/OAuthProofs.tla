------------------------------ MODULE OAuthProofs ------------------------------
(***************************************************************************)
(* Proofs about the plugins' provider sessions, for any of the plugins,    *)
(* any number of overlapping probes and of tokens issued.                  *)
(***************************************************************************)
EXTENDS OAuthProbe, InductionFacts

Names == {"claude", "codex", "cursor", "factory", "grok", "kimi", "kiro"}

LEMMA PluginNames ==
  DOMAIN Order = Names /\ OPlugins \subseteq Names
BY OAuthAssumption DEF Order, Names

LEMMA StoresAre ==
  /\ StoresOf("claude") = {"kcHashed", "kcPlain", "file"}
  /\ StoresOf("codex") = {"file1", "file2", "keychain"}
  /\ StoresOf("cursor") = {"sqlite", "keychain"}
  /\ StoresOf("factory") = {"v2", "file", "keychain"}
  /\ StoresOf("grok") = {"entry1", "entry2"}
  /\ StoresOf("kimi") = {"file"}
  /\ StoresOf("kiro") = {"file"}
<1>1. StoresOf("claude") = {"kcHashed", "kcPlain", "file"}
  BY DEF StoresOf, Order
<1>2. StoresOf("codex") = {"file1", "file2", "keychain"}
  BY DEF StoresOf, Order
<1>3. StoresOf("cursor") = {"sqlite", "keychain"}
  BY DEF StoresOf, Order
<1>4. StoresOf("factory") = {"v2", "file", "keychain"}
  BY DEF StoresOf, Order
<1>5. StoresOf("grok") = {"entry1", "entry2"}
  BY DEF StoresOf, Order
<1>6. StoresOf("kimi") = {"file"} /\ StoresOf("kiro") = {"file"}
  BY DEF StoresOf, Order
<1> QED BY <1>1, <1>2, <1>3, <1>4, <1>5, <1>6

LEMMA NoneIsNoStore ==
  ASSUME NEW pl \in Names
  PROVE  "none" \notin StoresOf(pl)
BY StoresAre DEF Names

LEMMA OrderIsOfStores ==
  ASSUME NEW pl \in Names
  PROVE  Order[pl] \in Seq(StoresOf(pl)) /\ ToSet(Order[pl]) = StoresOf(pl)
<1>1. Order[pl] \in Seq(StoresOf(pl))
  <2>1. CASE pl = "claude"
    <3>1. Order[pl] = <<"kcHashed", "kcPlain", "file">>
      BY <2>1 DEF Order
    <3> QED BY <2>1, <3>1, StoresAre
  <2>2. CASE pl = "codex"
    <3>1. Order[pl] = <<"file1", "file2", "keychain">>
      BY <2>2 DEF Order
    <3> QED BY <2>2, <3>1, StoresAre
  <2>3. CASE pl = "cursor"
    <3>1. Order[pl] = <<"sqlite", "keychain">>
      BY <2>3 DEF Order
    <3> QED BY <2>3, <3>1, StoresAre
  <2>4. CASE pl = "factory"
    <3>1. Order[pl] = <<"v2", "file", "keychain">>
      BY <2>4 DEF Order
    <3> QED BY <2>4, <3>1, StoresAre
  <2>5. CASE pl = "grok"
    <3>1. Order[pl] = <<"entry1", "entry2">>
      BY <2>5 DEF Order
    <3> QED BY <2>5, <3>1, StoresAre
  <2>6. CASE pl \in {"kimi", "kiro"}
    <3>1. Order[pl] = <<"file">>
      BY <2>6 DEF Order
    <3> QED BY <2>6, <3>1, StoresAre
  <2> QED BY <2>1, <2>2, <2>3, <2>4, <2>5, <2>6 DEF Names
<1> QED BY <1>1 DEF ToSet, StoresOf

LEMMA FirstFacts ==
  ASSUME NEW T, NEW s \in Seq(T)
  PROVE  /\ First(s) \in Seq(T) /\ ToSet(First(s)) \subseteq ToSet(s)
         /\ First(s) = <<>> => s = <<>>
<1>1. CASE s = <<>>
  BY <1>1 DEF First
<1>2. CASE s # <<>>
  <2>1. Head(s) \in T /\ Head(s) = s[1] /\ 1 \in DOMAIN s
    BY <1>2, HeadTailProperties, LenProperties, EmptySeq
  <2> QED BY <1>2, <2>1 DEF First, ToSet
<1> QED BY <1>1, <1>2

LEMMA EmptyLookup ==
  ASSUME NEW T, NEW s \in Seq(T)
  PROVE  s = <<>> <=> ToSet(s) = {}
<1>1. DOMAIN s = 1 .. Len(s) /\ Len(s) \in Nat
  BY LenProperties
<1>2. s = <<>> => ToSet(s) = {}
  BY <1>1 DEF ToSet
<1>3. ASSUME s # <<>> PROVE ToSet(s) # {}
  <2>1. 1 \in DOMAIN s
    BY <1>1, <1>3, EmptySeq
  <2> QED BY <2>1 DEF ToSet
<1> QED BY <1>2, <1>3

(***************************************************************************)
(* What a probe tries is in its plugin's stores; when there is nothing to  *)
(* try there is nothing it could use.                                      *)
(***************************************************************************)
LEMMA CandidateFacts ==
  ASSUME NEW pl \in Names, NEW st \in [StoresOf(pl) -> Cred], NEW flag \in BOOLEAN
  PROVE  LET cands == Candidates(pl, st, flag) IN
         /\ cands \in Seq(StoresOf(pl))
         /\ cands = <<>> => \A s \in StoresOf(pl) :
              ~(pl = "codex" /\ s = "keychain")
                => IF pl = "kiro" THEN st[s].rt = 0 ELSE ~HasAccess(st[s])
         /\ pl = "kiro" => \A i \in DOMAIN cands : st[cands[i]].rt # 0
<1> DEFINE S == StoresOf(pl)
           cands == Candidates(pl, st, flag)
<1>1. /\ WithAccess(st) = {s \in S : HasAccess(st[s])}
      /\ WithToken(st) = {s \in S : HasToken(st[s])}
      /\ WithRefresh(st) = {s \in S : st[s].rt # 0}
      /\ WithAccess(st) \subseteq WithToken(st)
  BY DEF WithAccess, WithToken, WithRefresh, HasAccess, HasToken
<1>2. /\ Order[pl] \in Seq(S) /\ ToSet(Order[pl]) = S
      /\ pl = "claude" => Order[pl] = Order.claude
      /\ pl = "cursor" => Order[pl] = Order.cursor
      /\ pl = "factory" => Order[pl] = Order.factory
      /\ pl = "grok" => Order[pl] = Order.grok
      /\ pl = "kimi" => Order[pl] = Order.kimi
      /\ pl = "kiro" => Order[pl] = Order.kiro
  BY OrderIsOfStores
<1> HIDE DEF S
<1>3. \A W : /\ Among(Order[pl], W) \in Seq(S)
             /\ ToSet(Among(Order[pl], W)) = S \cap W
             /\ First(Among(Order[pl], W)) \in Seq(S)
             /\ Among(Order[pl], W) = <<>> => S \cap W = {}
             /\ First(Among(Order[pl], W)) = <<>> => S \cap W = {}
  <2> TAKE W
  <2>1. Among(Order[pl], W) \in Seq(S) /\ ToSet(Among(Order[pl], W)) = S \cap W
    BY <1>2, AmongFacts
  <2>2. First(Among(Order[pl], W)) \in Seq(S)
        /\ (First(Among(Order[pl], W)) = <<>> => Among(Order[pl], W) = <<>>)
    BY <2>1, FirstFacts
  <2> QED BY <2>1, <2>2, EmptyLookup
<1>4. CASE pl = "claude"
  <2>1. cands = First(Among(Order[pl], WithAccess(st)))
    BY <1>2, <1>4 DEF Candidates, ClaudeCandidates
  <2> HIDE DEF cands
  <2>2. cands \in Seq(S) /\ (cands = <<>> => S \cap WithAccess(st) = {})
    BY <1>3, <2>1
  <2> QED BY <1>1, <1>4, <2>2 DEF S, cands
<1>5. CASE pl = "codex"
  <2>1. cands = Among(<<"file1", "file2">>, WithAccess(st))
    BY <1>5 DEF Candidates, CodexCandidates
  <2>2. <<"file1", "file2">> \in Seq(S) /\ ToSet(<<"file1", "file2">>) = {"file1", "file2"}
    <3>1. S = {"file1", "file2", "keychain"}
      BY <1>5, StoresAre DEF S
    <3>2. <<"file1", "file2">> \in Seq(S)
      BY <3>1
    <3> QED BY <3>2 DEF ToSet
  <2>3. cands \in Seq(S) /\ ToSet(cands) = {"file1", "file2"} \cap WithAccess(st)
    <3> HIDE DEF cands
    <3> QED BY <2>1, <2>2, AmongFacts
  <2>4. cands = <<>> => {"file1", "file2"} \cap WithAccess(st) = {}
    <3> HIDE DEF cands
    <3> QED BY <2>3, EmptyLookup
  <2>5. S = {"file1", "file2", "keychain"}
    BY <1>5, StoresAre DEF S
  <2> HIDE DEF cands
  <2> QED BY <1>1, <1>5, <2>3, <2>4, <2>5 DEF S, cands
<1>6. CASE pl = "cursor"
  <2> DEFINE odd == flag /\ {"keychain", "sqlite"} \subseteq WithAccess(st)
             order == IF odd THEN <<"keychain">> ELSE Order.cursor
  <2>1. cands = First(Among(order, WithToken(st)))
    BY <1>6 DEF Candidates, CursorCandidates
  <2>2. order \in Seq(S) /\ (odd => ToSet(order) = {"keychain"})
        /\ (~odd => order = Order[pl])
    <3>1. "keychain" \in S
      BY <1>6, StoresAre DEF S
    <3>2. <<"keychain">> \in Seq(S) /\ ToSet(<<"keychain">>) = {"keychain"}
      BY <3>1 DEF ToSet
    <3> HIDE DEF odd
    <3> QED BY <1>2, <1>6, <3>2
  <2>3. odd => "keychain" \in WithToken(st)
    BY <1>1
  <2> HIDE DEF odd, order, cands
  <2>4. cands \in Seq(S) /\ (cands = <<>> => ToSet(order) \cap WithToken(st) = {})
    <3>1. Among(order, WithToken(st)) \in Seq(S)
          /\ ToSet(Among(order, WithToken(st))) = ToSet(order) \cap WithToken(st)
      BY <2>2, AmongFacts
    <3>2. cands \in Seq(S) /\ (cands = <<>> => Among(order, WithToken(st)) = <<>>)
      BY <2>1, <3>1, FirstFacts
    <3> QED BY <3>1, <3>2, EmptyLookup
  <2>5. cands = <<>> => S \cap WithToken(st) = {}
    BY <1>2, <2>2, <2>3, <2>4
  <2> QED BY <1>1, <1>6, <2>4, <2>5 DEF S, cands
<1>7. CASE pl = "factory"
  <2> DEFINE W == WithAccess(st) \cup (WithToken(st) \ {"keychain"})
  <2>1. cands = First(Among(Order[pl], W))
    BY <1>2, <1>7 DEF Candidates, FactoryCandidates
  <2> HIDE DEF cands
  <2>2. cands \in Seq(S) /\ (cands = <<>> => S \cap W = {})
    <3> HIDE DEF W
    <3> QED BY <1>3, <2>1
  <2> QED BY <1>1, <1>7, <2>2 DEF S, cands
<1>8. CASE pl = "grok"
  <2>1. cands = Among(Order[pl], WithAccess(st))
    BY <1>2, <1>8 DEF Candidates, GrokCandidates
  <2> HIDE DEF cands
  <2>2. cands \in Seq(S) /\ (cands = <<>> => S \cap WithAccess(st) = {})
    BY <1>3, <2>1
  <2> QED BY <1>1, <1>8, <2>2 DEF S, cands
<1>9. CASE pl = "kimi"
  <2>1. cands = Among(Order[pl], WithToken(st))
    BY <1>2, <1>9 DEF Candidates, KimiCandidates
  <2> HIDE DEF cands
  <2>2. cands \in Seq(S) /\ (cands = <<>> => S \cap WithToken(st) = {})
    BY <1>3, <2>1
  <2> QED BY <1>1, <1>9, <2>2 DEF S, cands
<1>10. CASE pl = "kiro"
  <2>1. cands = Among(Order[pl], WithRefresh(st))
    BY <1>2, <1>10 DEF Candidates, KiroCandidates
  <2> HIDE DEF cands
  <2>2. /\ cands \in Seq(S) /\ (cands = <<>> => S \cap WithRefresh(st) = {})
        /\ ToSet(cands) = S \cap WithRefresh(st)
    BY <1>3, <2>1
  <2>3. \A i \in DOMAIN cands : cands[i] \in WithRefresh(st)
    BY <2>2 DEF ToSet
  <2> QED BY <1>1, <1>10, <2>2, <2>3 DEF S, cands
<1> QED BY <1>4, <1>5, <1>6, <1>7, <1>8, <1>9, <1>10 DEF Names

LEMMA CodexKeychainFacts ==
  ASSUME NEW st \in [StoresOf("codex") -> Cred], CodexKeychain(st) = <<>>
  PROVE  ~HasAccess(st["keychain"])
<1>1. <<"keychain">> \in Seq({"keychain"}) /\ ToSet(<<"keychain">>) = {"keychain"}
  <2>1. <<"keychain">> \in Seq({"keychain"})
    OBVIOUS
  <2> QED BY <2>1 DEF ToSet
<1>2. /\ CodexKeychain(st) \in Seq({"keychain"})
      /\ ToSet(CodexKeychain(st)) = {"keychain"} \cap WithAccess(st)
  BY <1>1, AmongFacts DEF CodexKeychain
<1>3. "keychain" \notin WithAccess(st)
  BY <1>2, EmptyLookup
<1>4. "keychain" \in DOMAIN st
  BY StoresAre
<1> QED BY <1>3, <1>4 DEF WithAccess

(***************************************************************************)
(* A write keeps the other stores, but for grok, whose sessions share a    *)
(* file; cursor keeps its refresh token.                                   *)
(***************************************************************************)
WrittenTo(new, pl, st, snap, s, c) ==
  /\ new \in [StoresOf(pl) -> Cred]
  /\ new[s].rt \in {c.rt, st[s].rt}
  /\ pl = "cursor" => new[s].rt = st[s].rt
  /\ pl # "cursor" => new[s] = c
  /\ \A x \in StoresOf(pl) : x # s => new[x] = st[x] \/ (pl = "grok" /\ new[x] = snap[x])

LEMMA SavedFacts ==
  ASSUME NEW pl \in Names, NEW st \in [StoresOf(pl) -> Cred], NEW snap \in [StoresOf(pl) -> Cred],
         NEW s \in StoresOf(pl), NEW c \in Cred, NEW new, new = Saved(pl, st, snap, s, c)
  PROVE  WrittenTo(new, pl, st, snap, s, c)
<1> USE DEF WrittenTo
<1>1. CASE pl = "cursor"
  <2>1. new = [st EXCEPT ![s].at = c.at, ![s].age = c.age]
    BY <1>1 DEF Saved, CursorSaved
  <2>2. new = [st EXCEPT ![s] = [at |-> c.at, rt |-> st[s].rt, age |-> c.age]]
    BY <2>1 DEF Cred
  <2>3. [at |-> c.at, rt |-> st[s].rt, age |-> c.age] \in Cred
    BY DEF Cred
  <2> QED BY <1>1, <2>2, <2>3
<1>2. CASE pl = "grok"
  <2>1. new = [snap EXCEPT ![s] = c]
    BY <1>2 DEF Saved, GrokSaved
  <2> QED BY <1>2, <2>1
<1>3. CASE pl \in Names \ {"cursor", "grok"}
  <2>1. new = [st EXCEPT ![s] = c]
    BY <1>3 DEF Names, Saved, ClaudeSaved, CodexSaved, FactorySaved, KimiSaved, KiroSaved
  <2> QED BY <1>3, <2>1
<1> QED BY <1>1, <1>2, <1>3

Replies == {"null", "throw", "error"}

(***************************************************************************)
(* Only a denial makes the plugins give the session up, and only kiro lets *)
(* a failed refresh fail the probe.                                        *)
(***************************************************************************)
LEMMA RefreshFacts ==
  ASSUME NEW pl \in Names, NEW a \in Answers, a # "granted"
  PROVE  /\ Refresh(pl, a) \in Replies
         /\ Refresh(pl, a) = "throw" => a \in Denials
         /\ Refresh(pl, a) = "error" => pl = "kiro"
<1> USE DEF Refreshed, Answers, Denials, Replies
<1>1. CASE pl \in {"claude", "codex", "cursor", "factory"}
  <2>1. Refresh(pl, a) = Refreshed(a, {"s400", "s401"})
    BY <1>1 DEF Refresh, ClaudeRefresh, CodexRefresh, CursorRefresh, FactoryRefresh
  <2> QED BY <1>1, <2>1
<1>2. CASE pl = "grok"
  <2>1. Refresh(pl, a) = Refreshed(a, {})
    BY <1>2 DEF Refresh, GrokRefresh
  <2> QED BY <1>2, <2>1
<1>3. CASE pl = "kimi"
  <2>1. Refresh(pl, a) = Refreshed(a, {"s401", "s403"})
    BY <1>3 DEF Refresh, KimiRefresh
  <2> QED BY <1>3, <2>1
<1>4. CASE pl = "kiro"
  <2>1. Refresh(pl, a) = IF a \in {"exception", "lost"} THEN "error"
                         ELSE Refreshed(a, {"s401", "s403"})
    BY <1>4 DEF Refresh, KiroRefresh
  <2> QED BY <1>4, <2>1
<1> QED BY <1>1, <1>2, <1>3, <1>4 DEF Names

(***************************************************************************)
(* Where a probe goes without a new token, and why.                        *)
(***************************************************************************)
LEMMA GoesOnFacts ==
  ASSUME NEW pl \in Names, NEW c \in Cred, NEW r \in Replies
  PROVE  /\ GoesOn(pl, c, r) \in {"request", "pick", "expired", "login", "failed"}
         /\ GoesOn(pl, c, r) = "pick" => c.age = "expired" /\ pl # "kiro"
         /\ GoesOn(pl, c, r) = "login" => ~HasAccess(c)
         /\ GoesOn(pl, c, r) = "expired" => r = "throw" \/ ~HasAccess(c)
<1> USE DEF Replies
<1>1. CASE pl \in {"claude", "codex"}
  <2>1. GoesOn(pl, c, r) = IF r = "throw" THEN "expired" ELSE "request"
    BY <1>1 DEF GoesOn, ClaudeGoesOn, CodexGoesOn
  <2> QED BY <2>1
<1>2. CASE pl = "cursor"
  <2>1. GoesOn(pl, c, r) = IF HasAccess(c) THEN "request"
                           ELSE IF r = "throw" THEN "expired" ELSE "login"
    BY <1>2 DEF GoesOn, CursorGoesOn
  <2> QED BY <2>1
<1>3. CASE pl = "factory"
  <2>1. GoesOn(pl, c, r) = IF r = "throw" /\ c.age = "expired" THEN "expired" ELSE "request"
    BY <1>3 DEF GoesOn, FactoryGoesOn
  <2> QED BY <2>1
<1>4. CASE pl = "grok"
  <2>1. GoesOn(pl, c, r) = IF c.age = "expired" THEN "pick" ELSE "request"
    BY <1>4 DEF GoesOn, GrokGoesOn
  <2> QED BY <1>4, <2>1
<1>5. CASE pl = "kimi"
  <2>1. GoesOn(pl, c, r) = IF r = "throw" THEN "expired"
                           ELSE IF HasAccess(c) THEN "request" ELSE "login"
    BY <1>5 DEF GoesOn, KimiGoesOn
  <2> QED BY <2>1
<1>6. CASE pl = "kiro"
  <2>1. GoesOn(pl, c, r) = IF r = "error" THEN "failed"
                           ELSE IF r = "throw" \/ ~HasAccess(c) THEN "expired" ELSE "request"
    BY <1>6 DEF GoesOn, KiroGoesOn
  <2> QED BY <2>1
<1> QED BY <1>1, <1>2, <1>3, <1>4, <1>5, <1>6 DEF Names

-----------------------------------------------------------------------------
(***************************************************************************)
(* The invariant, seen from one probe.                                     *)
(***************************************************************************)
Guilty(r) == r.refused \/ ~HasAccess(r.cred) \/ r.cred.age = "expired"
NothingLeft(r) ==
  \A s \in StoresOf(plugin) :
    IF plugin = "codex" /\ s = "keychain"
    THEN HasAccess(r.snap[s]) => HasAccess(store[s])
    ELSE Unusable(r.snap[s])
TellsTruth(r) ==
  /\ r.out = "expired" => Guilty(r)
  /\ r.out = "login" => IF r.src # "none" THEN ~HasAccess(r.cred)
                        ELSE \A s \in StoresOf(plugin) : Unusable(r.snap[s])
Sound(r) ==
  /\ r \in Session
  /\ r.pc \in Working => r.src \in StoresOf(plugin)
  /\ r.pc \in {"saveP", "saveR"} => HasAccess(r.cred) /\ r.cred.rt # 0
  /\ r.pc # "done" => r.out = "none"
  /\ r.cred.rt <= issued /\ \A s \in StoresOf(plugin) : r.snap[s].rt <= issued
  /\ r.pc \in {"retry", "saveR", "again"} => r.refused
  /\ r.pc = "pick" => \/ r.err = "expired" /\ Guilty(r)
                      \/ r.err = "login" /\ r.src = "none" /\ (r.cands = <<>> => NothingLeft(r))
  /\ plugin = "kiro" => /\ r.pc \in Working => r.cred.rt # 0
                        /\ \A i \in DOMAIN r.cands : r.snap[r.cands[i]].rt # 0
  /\ TellsTruth(r)

(* What is not about one probe alone.                                      *)
Stores ==
  /\ plugin \in OPlugins
  /\ store \in [StoresOf(plugin) -> Cred]
  /\ live \in [StoresOf(plugin) -> 0..MaxIssue]
  /\ issued \in 1..MaxIssue
  /\ mishap \subseteq StoresOf(plugin)
  /\ \A s \in StoresOf(plugin) : live[s] \in 1..issued /\ store[s].rt \in 0..issued
Invariants ==
  /\ Stores
  /\ probe \in [Probers -> Session] /\ \A p \in Probers : Sound(probe[p])
  /\ SoleOwner
  /\ CursorKeeps
  /\ RefreshTokenKept

LEMMA InvariantsMean ==
  OAuthIInv <=> Invariants
<1>1. ASSUME OAuthIInv PROVE Invariants
  <2>1. Stores /\ probe \in [Probers -> Session]
    BY <1>1 DEF OAuthIInv, OAuthTypeOK, OnlyIssued, Stores
  <2>2. ASSUME NEW p \in Probers PROVE Sound(probe[p])
    <3>1. probe[p] \in Session /\ issued \in Nat
      BY <2>1, OAuthAssumption DEF Stores
    <3>2. /\ probe[p].pc \in Working => probe[p].src \in StoresOf(plugin)
          /\ probe[p].pc \in {"saveP", "saveR"} => HasAccess(probe[p].cred) /\ probe[p].cred.rt # 0
          /\ probe[p].pc # "done" => probe[p].out = "none"
      BY <1>1 DEF OAuthIInv, HasSession, At
    <3>3. probe[p].cred.rt <= issued /\ \A s \in StoresOf(plugin) : probe[p].snap[s].rt <= issued
      BY <1>1, <3>1 DEF OAuthIInv, OnlyIssued
    <3>4. /\ probe[p].pc \in {"retry", "saveR", "again"} => probe[p].refused
          /\ probe[p].pc = "pick" =>
               \/ probe[p].err = "expired" /\ Guilty(probe[p])
               \/ probe[p].err = "login" /\ probe[p].src = "none"
                  /\ (probe[p].cands = <<>> => NothingLeft(probe[p]))
      BY <1>1 DEF OAuthIInv, Blame, At, Guilty, NothingLeft
    <3>5. plugin = "kiro" => /\ probe[p].pc \in Working => probe[p].cred.rt # 0
                             /\ \A i \in DOMAIN probe[p].cands : probe[p].snap[probe[p].cands[i]].rt # 0
      BY <1>1 DEF OAuthIInv, KiroRefreshes, At
    <3>6. TellsTruth(probe[p])
      BY <1>1 DEF OAuthIInv, ErrorTellsTruth, ExpiredMeansRefused, LoginMeansNoToken,
                  TellsTruth, Guilty, Unusable
    <3> QED BY <3>1, <3>2, <3>3, <3>4, <3>5, <3>6 DEF Sound
  <2> QED BY <1>1, <2>1, <2>2 DEF OAuthIInv, Invariants
<1>2. ASSUME Invariants PROVE OAuthIInv
  <2>1. Stores /\ probe \in [Probers -> Session] /\ \A p \in Probers : Sound(probe[p])
    BY <1>2 DEF Invariants
  <2>2. OAuthTypeOK
    BY <2>1 DEF OAuthTypeOK, Stores
  <2>3. HasSession
    BY <2>1 DEF HasSession, Sound, At
  <2>4. OnlyIssued
    <3>1. issued \in Nat /\ \A s \in StoresOf(plugin) : live[s] \in 1..issued /\ store[s].rt \in 0..issued
      BY <2>1, OAuthAssumption DEF Stores
    <3>2. ASSUME NEW p \in Probers
          PROVE  /\ probe[p].cred.rt \in 0..issued
                 /\ \A s \in StoresOf(plugin) : probe[p].snap[s].rt \in 0..issued
      <4>1. probe[p].cred \in Cred /\ \A s \in StoresOf(plugin) : probe[p].snap[s] \in Cred
        BY <2>1 DEF Session
      <4>2. \A c \in Cred : c.rt \in Nat
        BY OAuthAssumption DEF Cred
      <4>3. probe[p].cred.rt <= issued /\ \A s \in StoresOf(plugin) : probe[p].snap[s].rt <= issued
        BY <2>1 DEF Sound
      <4> QED BY <3>1, <4>1, <4>2, <4>3
    <3> QED BY <3>1, <3>2 DEF OnlyIssued
  <2>5. Blame
    BY <2>1 DEF Blame, Sound, At, Guilty, NothingLeft
  <2>6. KiroRefreshes
    BY <2>1 DEF KiroRefreshes, Sound, At
  <2>7. ErrorTellsTruth
    BY <2>1 DEF ErrorTellsTruth, ExpiredMeansRefused, LoginMeansNoToken, Sound, TellsTruth,
                Guilty, Unusable
  <2> QED BY <1>2, <2>2, <2>3, <2>4, <2>5, <2>6, <2>7 DEF OAuthIInv, Invariants
<1> QED BY <1>1, <1>2

(***************************************************************************)
(* A record that knows no token but those of rec and of the stores.        *)
(***************************************************************************)
Bounded(r) == r.cred.rt <= issued /\ \A s \in StoresOf(plugin) : r.snap[s].rt <= issued
Borrows(r, rec) ==
  /\ \A s \in StoresOf(plugin) : r.snap[s].rt \in {0, rec.snap[s].rt, store[s].rt}
  /\ \A s \in StoresOf(plugin) : r.src = s =>
       \/ r.cred.rt \in {0, rec.snap[s].rt, store[s].rt}
       \/ rec.src = s /\ r.cred.rt = rec.cred.rt

LEMMA StoresFacts ==
  ASSUME Stores
  PROVE  plugin \in Names /\ issued \in Nat /\ issued >= 1 /\ MaxIssue \in Nat
         /\ Absent \in Cred /\ Absent.rt = 0 /\ Absent.at = 0
BY PluginNames, OAuthAssumption DEF Stores, Absent, Cred, Ages

LEMMA IdleFacts ==
  ASSUME Stores
  PROVE  /\ Idle \in Session /\ Idle.pc = "idle" /\ Idle.src = "none" /\ Idle.err = "login"
         /\ Idle.out = "none" /\ Idle.cred = Absent /\ Idle.cands = <<>>
         /\ \A s \in StoresOf(plugin) : Idle.snap[s] = Absent
         /\ DOMAIN Idle.cands = {}
<1>1. <<>> \in Seq(StoresOf(plugin)) /\ DOMAIN <<>> = {}
  OBVIOUS
<1>2. [s \in StoresOf(plugin) |-> Absent] \in [StoresOf(plugin) -> Cred]
  BY StoresFacts
<1> QED BY <1>1, <1>2, StoresFacts DEF Idle, Session, Pcs, Outcomes

LEMMA EndsFacts ==
  ASSUME Stores, NEW rec \in Session, Bounded(rec), NEW out \in Outcomes \ {"none"},
         out = "expired" => Guilty(rec),
         out = "login" => IF rec.src # "none" THEN ~HasAccess(rec.cred)
                          ELSE \A s \in StoresOf(plugin) : Unusable(rec.snap[s])
  PROVE  LET r == Ends(rec, out) IN Sound(r) /\ Borrows(r, rec) /\ r.pc = "done"
<1>1. CASE out \in {"login", "expired"}
  <2> DEFINE r == [rec EXCEPT !.pc = "done", !.out = out, !.cands = <<>>]
  <2>1. Ends(rec, out) = r
    BY <1>1 DEF Ends
  <2>2. /\ r \in Session /\ r.pc = "done" /\ r.out = out /\ r.cands = <<>> /\ r.snap = rec.snap
        /\ r.src = rec.src /\ r.cred = rec.cred /\ r.refused = rec.refused
    <3>1. <<>> \in Seq(StoresOf(plugin))
      OBVIOUS
    <3> QED BY <3>1 DEF Session, Pcs
  <2> HIDE DEF r
  <2>3. DOMAIN r.cands = {}
    BY <2>2
  <2>4. Sound(r)
    BY <2>2, <2>3 DEF Sound, TellsTruth, Guilty, Bounded, Working
  <2>5. Borrows(r, rec)
    BY <2>2 DEF Borrows
  <2> QED BY <2>1, <2>2, <2>4, <2>5
<1>2. CASE out \notin {"login", "expired"}
  <2> DEFINE r == [Idle EXCEPT !.pc = "done", !.out = out]
  <2>1. Ends(rec, out) = r
    BY <1>2 DEF Ends
  <2>2. Idle \in Session /\ Idle.cred = Absent /\ Idle.src = "none" /\ DOMAIN Idle.cands = {}
        /\ \A s \in StoresOf(plugin) : Idle.snap[s] = Absent
    BY IdleFacts
  <2>3. /\ r \in Session /\ r.pc = "done" /\ r.out = out /\ r.cands = Idle.cands
        /\ r.snap = Idle.snap /\ r.src = Idle.src /\ r.cred = Idle.cred
    <3> DEFINE idle == Idle
    <3>1. idle \in Session
      BY <2>2
    <3> HIDE DEF idle
    <3>2. LET q == [idle EXCEPT !.pc = "done", !.out = out]
          IN /\ q \in Session /\ q.pc = "done" /\ q.out = out /\ q.cands = idle.cands
             /\ q.snap = idle.snap /\ q.src = idle.src /\ q.cred = idle.cred
      BY <3>1 DEF Session, Pcs
    <3> QED BY <3>2 DEF idle
  <2> HIDE DEF r
  <2>4. Absent.rt = 0 /\ 0 <= issued /\ plugin \in Names
    BY StoresFacts
  <2>5. Sound(r)
    BY <1>2, <2>2, <2>3, <2>4 DEF Sound, TellsTruth, Working
  <2>6. Borrows(r, rec)
    BY <2>2, <2>3, <2>4, NoneIsNoStore DEF Borrows
  <2> QED BY <2>1, <2>3, <2>5, <2>6
<1> QED BY <1>1, <1>2

LEMMA FailsFacts ==
  ASSUME Stores, NEW rec \in Session, Bounded(rec), rec.out = "none",
         rec.src \in StoresOf(plugin), NEW e \in {"expired", "login", "failed"},
         e = "expired" => Guilty(rec),
         e = "login" => ~HasAccess(rec.cred)
  PROVE  LET r == Fails(rec, e) IN Sound(r) /\ Borrows(r, rec) /\ r.pc \in {"pick", "done"}
<1>1. CASE plugin = "codex" /\ e = "expired" /\ rec.src # "keychain"
  <2> DEFINE r == [rec EXCEPT !.pc = "pick", !.err = e]
  <2>1. Fails(rec, e) = r
    BY <1>1 DEF Fails
  <2>2. /\ r \in Session /\ r.pc = "pick" /\ r.err = e /\ r.out = rec.out /\ r.cands = rec.cands
        /\ r.snap = rec.snap /\ r.src = rec.src /\ r.cred = rec.cred /\ r.refused = rec.refused
    BY DEF Session, Pcs, Outcomes
  <2> HIDE DEF r
  <2>3. Sound(r)
    BY <1>1, <2>2 DEF Sound, TellsTruth, Guilty, Bounded, Working
  <2>4. Borrows(r, rec)
    BY <2>2 DEF Borrows
  <2> QED BY <2>1, <2>2, <2>3, <2>4
<1>2. CASE ~(plugin = "codex" /\ e = "expired" /\ rec.src # "keychain")
  <2> DEFINE out == IF plugin = "kiro" /\ rec.flag THEN "usage" ELSE e
  <2>1. Fails(rec, e) = Ends(rec, out)
    BY <1>2 DEF Fails
  <2>2. out \in Outcomes \ {"none"} /\ (out = "expired" => e = "expired")
        /\ (out = "login" => e = "login")
    BY DEF Outcomes
  <2> HIDE DEF out
  <2>3. rec.src # "none"
    BY StoresFacts, NoneIsNoStore
  <2> QED BY <2>1, <2>2, <2>3, EndsFacts
<1> QED BY <1>1, <1>2

LEMMA NoTokenFacts ==
  ASSUME Stores, NEW rec \in Session, Bounded(rec), rec.out = "none",
         rec.src \in StoresOf(plugin), rec.pc \in {"proactive", "retry"},
         rec.pc = "retry" => rec.refused,
         plugin = "kiro" => /\ rec.cred.rt # 0
                            /\ \A i \in DOMAIN rec.cands : rec.snap[rec.cands[i]].rt # 0,
         NEW x \in Replies, x = "throw" => Guilty(rec)
  PROVE  LET r == NoToken(rec, x)
         IN Sound(r) /\ Borrows(r, rec) /\ r.pc \in {"request", "pick", "done"}
<1>1. plugin \in Names /\ rec.cred \in Cred
  BY StoresFacts DEF Session
<1>2. CASE rec.pc = "retry"
  <2> DEFINE e == IF x = "error" THEN "failed" ELSE "expired"
  <2>1. NoToken(rec, x) = Fails(rec, e)
    BY <1>2 DEF NoToken
  <2>2. e \in {"expired", "login", "failed"} /\ e # "login" /\ Guilty(rec)
    BY <1>2 DEF Guilty
  <2> HIDE DEF e
  <2> QED BY <2>1, <2>2, FailsFacts
<1>3. CASE rec.pc = "proactive"
  <2> DEFINE to == GoesOn(plugin, rec.cred, x)
  <2>1. NoToken(rec, x) = Goes(rec, to)
    BY <1>3 DEF NoToken
  <2>2. /\ to \in {"request", "pick", "expired", "login", "failed"}
        /\ to = "pick" => rec.cred.age = "expired" /\ plugin # "kiro"
        /\ to = "login" => ~HasAccess(rec.cred)
        /\ to = "expired" => Guilty(rec)
    BY <1>1, GoesOnFacts DEF Guilty
  <2> HIDE DEF to
  <2>3. CASE to \in {"expired", "login", "failed"}
    <3>1. Goes(rec, to) = Fails(rec, to)
      BY <2>3 DEF Goes
    <3> QED BY <2>1, <2>2, <2>3, <3>1, FailsFacts
  <2>4. CASE to \in {"request", "pick"}
    <3> DEFINE r == [rec EXCEPT !.pc = to, !.err = IF to = "pick" THEN "expired" ELSE @]
    <3>1. Goes(rec, to) = r
      BY <2>4 DEF Goes
    <3>2. /\ r \in Session /\ r.pc = to /\ r.out = rec.out /\ r.cands = rec.cands
          /\ r.snap = rec.snap /\ r.src = rec.src /\ r.cred = rec.cred /\ r.refused = rec.refused
          /\ to = "pick" => r.err = "expired"
      BY <2>4 DEF Session, Pcs, Outcomes
    <3> HIDE DEF r
    <3>3. Sound(r)
      BY <2>2, <2>4, <3>2 DEF Sound, TellsTruth, Guilty, Bounded, Working
    <3>4. Borrows(r, rec)
      BY <3>2 DEF Borrows
    <3> QED BY <2>1, <2>4, <3>1, <3>2, <3>3, <3>4
  <2> QED BY <2>2, <2>3, <2>4
<1> QED BY <1>2, <1>3

-----------------------------------------------------------------------------
(***************************************************************************)
(* A step of one probe that neither gets nor writes a token.               *)
(***************************************************************************)
LEMMA PlainStep ==
  ASSUME OAuthIInv, NEW p \in Probers, NEW r, Become(p, r), Sound(r), Borrows(r, probe[p]),
         r.pc \notin {"saveP", "saveR"}, UNCHANGED <<plugin, store, live, issued>>,
         mishap \subseteq mishap', mishap' \subseteq StoresOf(plugin),
         At(p, {"saveP", "saveR"}) => probe[p].src \in mishap'
  PROVE  OAuthIInv'
<1>1. /\ Stores /\ probe \in [Probers -> Session] /\ \A q \in Probers : Sound(probe[q])
      /\ SoleOwner /\ CursorKeeps /\ RefreshTokenKept
  BY InvariantsMean DEF Invariants
<1>2. /\ probe'[p] = r /\ \A q \in Probers : q # p => probe'[q] = probe[q]
      /\ probe' \in [Probers -> Session]
  BY <1>1 DEF Become, Sound
<1>3. Stores'
  BY <1>1 DEF Stores
<1>4. \A q \in Probers : Sound(probe[q])'
  <2> SUFFICES ASSUME NEW q \in Probers PROVE Sound(probe[q])'
    OBVIOUS
  <2>1. Sound(probe'[q])
    BY <1>1, <1>2
  <2> QED BY <2>1 DEF Sound, Session, StoresOf, TellsTruth, Guilty, NothingLeft, Unusable
<1>5. SoleOwner'
  <2> SUFFICES ASSUME plugin \notin {"cursor", "grok"},
                      NEW s \in StoresOf(plugin) \ mishap', NEW q \in Probers, Saving(q, s)'
               PROVE  /\ probe'[q].cred.rt = live[s] /\ store[s].rt # live[s]
                      /\ \A o \in Probers :
                           /\ probe'[o].snap[s].rt # live[s]
                           /\ o # q /\ probe'[o].src = s => probe'[o].cred.rt # live[s]
    BY DEF SoleOwner
  <2>1. q # p /\ probe'[q] = probe[q] /\ Saving(q, s) /\ s \in StoresOf(plugin) \ mishap
    BY <1>2 DEF Saving, At
  <2>2. /\ probe[q].cred.rt = live[s] /\ store[s].rt # live[s] /\ live[s] # 0
        /\ \A o \in Probers :
             /\ probe[o].snap[s].rt # live[s]
             /\ o # q /\ probe[o].src = s => probe[o].cred.rt # live[s]
    BY <1>1, <2>1 DEF SoleOwner, Stores
  <2>3. r.snap[s].rt # live[s] /\ (r.src = s => r.cred.rt # live[s])
    BY <2>1, <2>2 DEF Borrows
  <2> QED BY <1>2, <2>1, <2>2, <2>3
<1>6. CursorKeeps'
  BY <1>1 DEF CursorKeeps
<1>7. RefreshTokenKept'
  <2> SUFFICES ASSUME plugin # "grok", NEW s \in StoresOf(plugin) \ mishap'
               PROVE  \/ store[s].rt \in {0, live[s]}
                      \/ \E q \in Probers : Saving(q, s)'
    BY DEF RefreshTokenKept, Saving
  <2>1. CASE store[s].rt \in {0, live[s]}
    BY <2>1
  <2>2. CASE \E q \in Probers : Saving(q, s)
    <3>1. PICK q \in Probers : Saving(q, s)
      BY <2>2
    <3>2. q # p
      BY <3>1 DEF Saving
    <3>3. Saving(q, s)'
      BY <1>2, <3>1, <3>2 DEF Saving, At
    <3> QED BY <3>3
  <2> QED BY <1>1, <2>1, <2>2 DEF RefreshTokenKept, Saving
<1>8. Invariants'
  <2>1. Session' = Session
    BY DEF Session, StoresOf
  <2> QED BY <1>2, <1>3, <1>4, <1>5, <1>6, <1>7, <2>1 DEF Invariants
<1> QED BY <1>8, InvariantsMean, PTL

LEMMA BorrowsOn ==
  ASSUME NEW r, NEW rec, NEW old, Borrows(r, rec), Borrows(rec, old)
  PROVE  Borrows(r, old)
BY DEF Borrows

(***************************************************************************)
(* The facts about probe p that its steps rest on.                         *)
(***************************************************************************)
LEMMA ProbeFacts ==
  ASSUME OAuthIInv, NEW p \in Probers
  PROVE  Stores /\ probe[p] \in Session /\ Sound(probe[p]) /\ Bounded(probe[p])
BY InvariantsMean DEF Invariants, Sound, Bounded

LEMMA StartKeeps ==
  ASSUME OAuthIInv, NEW p \in Probers, Start(p)
  PROVE  OAuthIInv'
<1>1. PICK flag \in BOOLEAN, asks \in BOOLEAN :
        LET rec == [Idle EXCEPT !.pc = "pick", !.snap = store, !.flag = flag,
                                !.cands = Candidates(plugin, store, flag)]
        IN Become(p, IF asks THEN rec ELSE Ends(rec, "usage"))
  BY DEF Start
<1> DEFINE cands == Candidates(plugin, store, flag)
           rec == [Idle EXCEPT !.pc = "pick", !.snap = store, !.flag = flag, !.cands = cands]
<1>2. Stores /\ plugin \in Names /\ store \in [StoresOf(plugin) -> Cred]
      /\ At(p, {"idle"}) /\ UNCHANGED <<plugin, store, live, issued, mishap>>
      /\ mishap \subseteq StoresOf(plugin)
      /\ \A s \in StoresOf(plugin) : store[s].rt <= issued
  BY ProbeFacts, StoresFacts DEF Start, Stores
<1>3. /\ cands \in Seq(StoresOf(plugin))
      /\ cands = <<>> => \A s \in StoresOf(plugin) :
           ~(plugin = "codex" /\ s = "keychain") => Unusable(store[s])
      /\ plugin = "kiro" => \A i \in DOMAIN cands : store[cands[i]].rt # 0
  BY <1>2, CandidateFacts DEF Unusable
<1> HIDE DEF cands
<1>4. /\ rec \in Session /\ rec.pc = "pick" /\ rec.snap = store /\ rec.cands = cands
      /\ rec.src = "none" /\ rec.cred = Absent /\ rec.err = "login" /\ rec.out = "none"
  <2> DEFINE idle == Idle
  <2>1. idle \in Session /\ idle.src = "none" /\ idle.cred = Absent /\ idle.err = "login"
        /\ idle.out = "none"
    BY <1>2, IdleFacts
  <2> HIDE DEF idle
  <2>2. LET r == [idle EXCEPT !.pc = "pick", !.snap = store, !.flag = flag, !.cands = cands]
        IN /\ r \in Session /\ r.pc = "pick" /\ r.snap = store /\ r.cands = cands
           /\ r.src = idle.src /\ r.cred = idle.cred /\ r.err = idle.err /\ r.out = idle.out
    BY <1>2, <1>3, <2>1 DEF Session, Pcs
  <2> QED BY <2>1, <2>2 DEF idle
<1>5. Become(p, IF asks THEN rec ELSE Ends(rec, "usage"))
  BY <1>1 DEF cands
<1> HIDE DEF rec
<1>6. "none" \notin StoresOf(plugin) /\ Absent.rt = 0 /\ 0 <= issued
  BY <1>2, NoneIsNoStore, StoresFacts
<1>7. Sound(rec) /\ Borrows(rec, probe[p]) /\ Bounded(rec)
  <2>1. Bounded(rec) /\ Borrows(rec, probe[p])
    BY <1>2, <1>4, <1>6 DEF Bounded, Borrows
  <2>2. rec.cands = <<>> => NothingLeft(rec)
    BY <1>3, <1>4 DEF NothingLeft
  <2> QED BY <1>3, <1>4, <2>1, <2>2 DEF Sound, Bounded, TellsTruth, Working
<1>8. ~At(p, {"saveP", "saveR"})
  BY <1>2 DEF At
<1>9. CASE asks
  BY <1>2, <1>4, <1>5, <1>7, <1>8, <1>9, PlainStep
<1>10. CASE ~asks
  <2> DEFINE r == Ends(rec, "usage")
  <2>1. Sound(r) /\ Borrows(r, rec) /\ r.pc = "done"
    BY <1>2, <1>4, <1>7, EndsFacts DEF Outcomes
  <2>2. Become(p, r)
    BY <1>5, <1>10
  <2> HIDE DEF r
  <2>3. Borrows(r, probe[p])
    BY <1>7, <2>1, BorrowsOn
  <2> QED BY <1>2, <1>8, <2>1, <2>2, <2>3, PlainStep
<1> QED BY <1>9, <1>10

LEMMA WorkFacts ==
  ASSUME Stores, NEW rec \in Session, Bounded(rec), rec.out = "none",
         NEW s \in StoresOf(plugin), NEW c, c = rec.snap[s],
         plugin = "kiro" => /\ c.rt # 0
                            /\ \A i \in DOMAIN rec.cands : rec.snap[rec.cands[i]].rt # 0
  PROVE  LET r == Work(rec, s, c)
         IN Sound(r) /\ Borrows(r, rec) /\ r.pc \notin {"saveP", "saveR"}
<1> DEFINE q == [rec EXCEPT !.src = s, !.cred = c]
           to == IF ~HasAccess(c) \/ c.age # "fresh" THEN "proactive" ELSE "request"
<1>1. c \in Cred /\ c.rt <= issued
  BY DEF Session, Bounded
<1>2. /\ q \in Session /\ q.src = s /\ q.cred = c /\ q.snap = rec.snap /\ q.out = rec.out
      /\ q.cands = rec.cands /\ q.refused = rec.refused
  BY <1>1 DEF Session
<1>3. Work(rec, s, c) = IF plugin = "factory" /\ ~HasAccess(c) THEN Ends(q, "badfile")
                        ELSE [q EXCEPT !.pc = to]
  BY DEF Work
<1>4. to \in {"proactive", "request"}
  OBVIOUS
<1> HIDE DEF q, to
<1>5. Bounded(q) /\ Borrows(q, rec)
  BY <1>1, <1>2 DEF Bounded, Borrows
<1>6. CASE plugin = "factory" /\ ~HasAccess(c)
  <2> DEFINE r == Ends(q, "badfile")
  <2>1. Sound(r) /\ Borrows(r, q) /\ r.pc = "done"
    BY <1>2, <1>5, EndsFacts DEF Outcomes
  <2>2. Work(rec, s, c) = r
    BY <1>3, <1>6
  <2> HIDE DEF r
  <2> QED BY <1>5, <2>1, <2>2, BorrowsOn
<1>7. CASE ~(plugin = "factory" /\ ~HasAccess(c))
  <2> DEFINE r == [q EXCEPT !.pc = to]
  <2>1. Work(rec, s, c) = r
    BY <1>3, <1>7
  <2>2. /\ r \in Session /\ r.pc = to /\ r.src = s /\ r.cred = c /\ r.snap = rec.snap
        /\ r.out = rec.out /\ r.cands = rec.cands
    BY <1>2, <1>4 DEF Session, Pcs
  <2> HIDE DEF r
  <2>3. Sound(r)
    BY <1>1, <1>4, <2>2 DEF Sound, Bounded, TellsTruth, Working
  <2>4. Borrows(r, rec)
    BY <2>2 DEF Borrows
  <2> QED BY <1>4, <2>1, <2>2, <2>3, <2>4
<1> QED BY <1>6, <1>7

LEMMA NextSessionKeeps ==
  ASSUME OAuthIInv, NEW p \in Probers, NextSession(p)
  PROVE  OAuthIInv'
<1> DEFINE rec == probe[p]
<1>1. /\ Stores /\ rec \in Session /\ Sound(rec) /\ Bounded(rec) /\ rec.pc = "pick"
      /\ rec.out = "none" /\ ~At(p, {"saveP", "saveR"}) /\ plugin \in Names
      /\ UNCHANGED <<plugin, store, live, issued, mishap>> /\ mishap \subseteq StoresOf(plugin)
  BY ProbeFacts, StoresFacts DEF NextSession, At, Sound, Stores
<1> HIDE DEF rec
<1>2. ASSUME NEW r, Become(p, r), Sound(r), Borrows(r, rec), r.pc \notin {"saveP", "saveR"}
      PROVE  OAuthIInv'
  BY <1>1, <1>2, PlainStep DEF rec
<1>3. CASE /\ rec.cands # <<>>
           /\ LET s == Head(rec.cands)
              IN Become(p, Work([rec EXCEPT !.cands = Tail(@)], s, rec.snap[s]))
  <2> DEFINE s == Head(rec.cands)
             q == [rec EXCEPT !.cands = Tail(@)]
             r == Work(q, s, rec.snap[s])
  <2>1. /\ rec.cands \in Seq(StoresOf(plugin)) /\ rec.cands # <<>> /\ s \in StoresOf(plugin)
        /\ Tail(rec.cands) \in Seq(StoresOf(plugin)) /\ s = rec.cands[1] /\ 1 \in DOMAIN rec.cands
        /\ \A i \in DOMAIN Tail(rec.cands) : i + 1 \in DOMAIN rec.cands
                                             /\ Tail(rec.cands)[i] = rec.cands[i + 1]
    <3>1. rec.cands \in Seq(StoresOf(plugin)) /\ rec.cands # <<>>
      BY <1>1, <1>3 DEF Session
    <3> QED BY <3>1, HeadTailProperties, LenProperties, EmptySeq
  <2>2. /\ q \in Session /\ q.cands = Tail(rec.cands) /\ q.snap = rec.snap /\ q.cred = rec.cred
        /\ q.src = rec.src /\ q.out = rec.out
    BY <1>1, <2>1 DEF Session
  <2>3. Become(p, r)
    BY <1>3
  <2> HIDE DEF q, s
  <2>4. Bounded(q) /\ Borrows(q, rec)
    BY <1>1, <2>2 DEF Bounded, Borrows
  <2>5. plugin = "kiro" => /\ q.snap[s].rt # 0
                           /\ \A i \in DOMAIN q.cands : q.snap[q.cands[i]].rt # 0
    BY <1>1, <2>1, <2>2 DEF Sound
  <2>6. Sound(r) /\ Borrows(r, q) /\ r.pc \notin {"saveP", "saveR"}
    BY <1>1, <2>1, <2>2, <2>4, <2>5, WorkFacts
  <2> HIDE DEF r
  <2> QED BY <1>2, <2>3, <2>4, <2>6, BorrowsOn
<1>4. CASE /\ plugin = "codex" /\ rec.cands = <<>>
           /\ Become(p, Work([rec EXCEPT !.snap["keychain"] = store["keychain"]],
                             "keychain", store["keychain"]))
  <2> DEFINE s == "keychain"
             q == [rec EXCEPT !.snap["keychain"] = store["keychain"]]
             r == Work(q, s, store[s])
  <2>1. s \in StoresOf(plugin) /\ store[s] \in Cred /\ store[s].rt <= issued
    BY <1>1, <1>4, StoresAre DEF Stores
  <2>2. rec.snap \in [StoresOf(plugin) -> Cred]
    BY <1>1 DEF Session
  <2>3. /\ q \in Session /\ q.cands = rec.cands /\ q.snap = [rec.snap EXCEPT ![s] = store[s]]
        /\ q.cred = rec.cred /\ q.src = rec.src /\ q.out = rec.out
    BY <1>1, <2>1, <2>2 DEF Session
  <2>4. Become(p, r)
    BY <1>4
  <2> HIDE DEF q
  <2>5. q.snap[s] = store[s] /\ \A x \in StoresOf(plugin) : x # s => q.snap[x] = rec.snap[x]
    BY <2>1, <2>2, <2>3
  <2>6. Bounded(q) /\ Borrows(q, rec)
    BY <1>1, <2>1, <2>3, <2>5 DEF Bounded, Borrows
  <2>7. Sound(r) /\ Borrows(r, q) /\ r.pc \notin {"saveP", "saveR"}
    <3> HIDE DEF s
    <3> QED BY <1>1, <1>4, <2>1, <2>3, <2>5, <2>6, WorkFacts
  <2> HIDE DEF r
  <2> QED BY <1>2, <2>4, <2>6, <2>7, BorrowsOn
<1>5. CASE /\ rec.cands = <<>> /\ (plugin = "codex" => CodexKeychain(store) = <<>>)
           /\ Become(p, Ends(rec, rec.err))
  <2> DEFINE r == Ends(rec, rec.err)
  <2>1. rec.err \in {"expired", "login"} /\ (rec.err = "expired" => Guilty(rec))
        /\ (rec.err = "login" => rec.src = "none" /\ NothingLeft(rec))
    BY <1>1, <1>5 DEF Sound
  <2>2. ASSUME rec.err = "login", NEW s \in StoresOf(plugin)
        PROVE  Unusable(rec.snap[s])
    <3>1. CASE plugin = "codex" /\ s = "keychain"
      <4>1. ~HasAccess(store["keychain"])
        BY <1>1, <1>5, <3>1, CodexKeychainFacts DEF Stores
      <4> QED BY <2>1, <2>2, <3>1, <4>1 DEF NothingLeft, Unusable
    <3>2. CASE ~(plugin = "codex" /\ s = "keychain")
      BY <2>1, <2>2, <3>2 DEF NothingLeft
    <3> QED BY <3>1, <3>2
  <2>3. Sound(r) /\ Borrows(r, rec) /\ r.pc = "done"
    BY <1>1, <2>1, <2>2, EndsFacts DEF Outcomes
  <2> HIDE DEF r
  <2> QED BY <1>2, <1>5, <2>3 DEF r
<1>6. CASE /\ \E s \in StoresOf(plugin) : ApiKeyOnly(rec, s)
           /\ Become(p, Ends(rec, "badfile"))
  <2> DEFINE r == Ends(rec, "badfile")
  <2>1. Sound(r) /\ Borrows(r, rec) /\ r.pc = "done"
    BY <1>1, EndsFacts DEF Outcomes
  <2>2. Become(p, r)
    BY <1>6
  <2> HIDE DEF r
  <2> QED BY <1>2, <2>1, <2>2
<1> QED BY <1>3, <1>4, <1>5, <1>6 DEF NextSession, rec

LEMMA RefreshSkippedKeeps ==
  ASSUME OAuthIInv, NEW p \in Probers, RefreshSkipped(p)
  PROVE  OAuthIInv'
<1> DEFINE rec == probe[p]
           x == IF plugin = "kiro" THEN "throw" ELSE "null"
           r == NoToken(rec, x)
<1>1. /\ Stores /\ rec \in Session /\ Sound(rec) /\ Bounded(rec)
      /\ rec.pc \in {"proactive", "retry"} /\ rec.cred.rt = 0 /\ Become(p, r)
      /\ ~At(p, {"saveP", "saveR"}) /\ mishap \subseteq StoresOf(plugin)
      /\ UNCHANGED <<plugin, store, live, issued, mishap>>
  BY ProbeFacts DEF RefreshSkipped, At, Stores
<1> HIDE DEF rec
<1>2. /\ rec.src \in StoresOf(plugin) /\ rec.out = "none" /\ (rec.pc = "retry" => rec.refused)
      /\ plugin # "kiro"
  BY <1>1 DEF Sound, Working
<1>3. x \in Replies /\ x # "throw"
  BY <1>2 DEF Replies
<1> HIDE DEF x
<1>4. Sound(r) /\ Borrows(r, rec) /\ r.pc \in {"request", "pick", "done"}
  BY <1>1, <1>2, <1>3, NoTokenFacts
<1> HIDE DEF r
<1> QED BY <1>1, <1>4, PlainStep DEF rec

LEMMA UsageRequestKeeps ==
  ASSUME OAuthIInv, NEW p \in Probers, UsageRequest(p)
  PROVE  OAuthIInv'
<1> DEFINE rec == probe[p]
           told == [rec EXCEPT !.refused = TRUE]
           ask  == [rec EXCEPT !.pc = "retry", !.refused = TRUE]
<1>1. /\ Stores /\ rec \in Session /\ Sound(rec) /\ Bounded(rec)
      /\ rec.pc \in {"request", "again"}
      /\ ~At(p, {"saveP", "saveR"}) /\ mishap \subseteq StoresOf(plugin)
      /\ UNCHANGED <<plugin, store, live, issued, mishap>>
  BY ProbeFacts DEF UsageRequest, At, Stores
<1>2. \/ Become(p, Ends(rec, "usage"))
      \/ Become(p, Fails(rec, "failed"))
      \/ rec.pc = "request" /\ Become(p, ask)
      \/ rec.pc = "again" /\ Become(p, Fails(told, "expired"))
  BY <1>1 DEF UsageRequest
<1> HIDE DEF rec
<1>3. rec.src \in StoresOf(plugin) /\ rec.out = "none"
  BY <1>1 DEF Sound, Working
<1>4. ASSUME NEW r, Become(p, r), Sound(r), Borrows(r, rec), r.pc \notin {"saveP", "saveR"}
      PROVE  OAuthIInv'
  BY <1>1, <1>4, PlainStep DEF rec
<1>5. CASE Become(p, Ends(rec, "usage"))
  <2> DEFINE r == Ends(rec, "usage")
  <2>1. Sound(r) /\ Borrows(r, rec) /\ r.pc = "done"
    BY <1>1, EndsFacts DEF Outcomes
  <2>2. Become(p, r)
    BY <1>5
  <2> HIDE DEF r
  <2> QED BY <1>4, <2>1, <2>2
<1>6. CASE Become(p, Fails(rec, "failed"))
  <2> DEFINE r == Fails(rec, "failed")
  <2>1. Sound(r) /\ Borrows(r, rec) /\ r.pc \in {"pick", "done"}
    BY <1>1, <1>3, FailsFacts
  <2>2. Become(p, r)
    BY <1>6
  <2> HIDE DEF r
  <2> QED BY <1>4, <2>1, <2>2
<1>7. CASE rec.pc = "request" /\ Become(p, ask)
  <2>1. /\ ask \in Session /\ ask.pc = "retry" /\ ask.refused /\ ask.src = rec.src
        /\ ask.cred = rec.cred /\ ask.snap = rec.snap /\ ask.cands = rec.cands
        /\ ask.out = rec.out
    BY <1>1 DEF Session, Pcs
  <2>2. Become(p, ask)
    BY <1>7
  <2> HIDE DEF ask
  <2>3. Sound(ask) /\ Borrows(ask, rec)
    BY <1>1, <1>7, <2>1 DEF Sound, Working, TellsTruth, Borrows
  <2> QED BY <1>4, <2>1, <2>2, <2>3
<1>8. CASE rec.pc = "again" /\ Become(p, Fails(told, "expired"))
  <2> DEFINE r == Fails(told, "expired")
  <2>1. /\ told \in Session /\ told.refused /\ told.src = rec.src
        /\ told.cred = rec.cred /\ told.snap = rec.snap /\ told.out = rec.out
    BY <1>1 DEF Session
  <2>2. Become(p, r)
    BY <1>8
  <2> HIDE DEF told
  <2>3. Bounded(told) /\ Borrows(told, rec) /\ Guilty(told)
    BY <1>1, <2>1 DEF Bounded, Borrows, Guilty
  <2>4. Sound(r) /\ Borrows(r, told) /\ r.pc \in {"pick", "done"}
    BY <1>1, <1>3, <2>1, <2>3, FailsFacts
  <2> HIDE DEF r
  <2> QED BY <1>4, <2>2, <2>3, <2>4, BorrowsOn
<1> QED BY <1>2, <1>5, <1>6, <1>7, <1>8

LEMMA CutKeeps ==
  ASSUME OAuthIInv, NEW p \in Probers, Cut(p)
  PROVE  OAuthIInv'
<1> DEFINE rec == probe[p]
           r == Ends(rec, "timeout")
<1>1. /\ Stores /\ rec \in Session /\ Sound(rec) /\ Bounded(rec) /\ Become(p, r)
      /\ UNCHANGED <<plugin, store, live, issued>>
      /\ mishap' = mishap \cup (IF At(p, {"saveP", "saveR"}) THEN {probe[p].src} ELSE {})
  BY ProbeFacts DEF Cut
<1>2. At(p, {"saveP", "saveR"}) => probe[p].src \in StoresOf(plugin)
  BY <1>1 DEF At, Sound, Working
<1>3. mishap \subseteq mishap' /\ mishap' \subseteq StoresOf(plugin)
      /\ (At(p, {"saveP", "saveR"}) => probe[p].src \in mishap')
  BY <1>1, <1>2 DEF Stores
<1> HIDE DEF rec
<1>4. Sound(r) /\ Borrows(r, rec) /\ r.pc = "done"
  BY <1>1, EndsFacts DEF Outcomes
<1> HIDE DEF r
<1> QED BY <1>1, <1>3, <1>4, PlainStep DEF rec

(***************************************************************************)
(* A refresh that was refused or failed changes only the probe.            *)
(***************************************************************************)
LEMMA DeniedKeeps ==
  ASSUME OAuthIInv, NEW p \in Probers, NEW a \in Answers \ {"granted", "lost"},
         At(p, {"proactive", "retry"}), probe[p].cred.rt # 0,
         Become(p, NoToken([probe[p] EXCEPT !.refused = @ \/ a \in Denials], Refresh(plugin, a))),
         UNCHANGED <<plugin, store, live, issued, mishap>>
  PROVE  OAuthIInv'
<1> DEFINE rec == probe[p]
           q == [rec EXCEPT !.refused = @ \/ a \in Denials]
           x == Refresh(plugin, a)
           r == NoToken(q, x)
<1>1. /\ Stores /\ rec \in Session /\ Sound(rec) /\ Bounded(rec)
      /\ rec.pc \in {"proactive", "retry"} /\ rec.cred.rt # 0 /\ Become(p, r)
      /\ ~At(p, {"saveP", "saveR"}) /\ mishap \subseteq StoresOf(plugin) /\ plugin \in Names
  BY ProbeFacts, StoresFacts DEF At, Stores
<1> HIDE DEF rec
<1>2. x \in Replies /\ (x = "throw" => a \in Denials)
  BY <1>1, RefreshFacts
<1> HIDE DEF x
<1>3. /\ q \in Session /\ q.pc = rec.pc /\ q.src = rec.src /\ q.cred = rec.cred
      /\ q.snap = rec.snap /\ q.cands = rec.cands /\ q.out = rec.out
      /\ (rec.refused => q.refused) /\ (a \in Denials => q.refused)
  BY <1>1 DEF Session
<1> HIDE DEF q
<1>4. /\ q.src \in StoresOf(plugin) /\ q.out = "none" /\ (q.pc = "retry" => q.refused)
      /\ q.pc \in {"proactive", "retry"} /\ (x = "throw" => Guilty(q))
      /\ plugin = "kiro" => /\ q.cred.rt # 0
                            /\ \A i \in DOMAIN q.cands : q.snap[q.cands[i]].rt # 0
  BY <1>1, <1>2, <1>3 DEF Sound, Working, Guilty
<1>5. Bounded(q) /\ Borrows(q, rec)
  BY <1>1, <1>3 DEF Bounded, Borrows
<1>6. Sound(r) /\ Borrows(r, q) /\ r.pc \in {"request", "pick", "done"}
  BY <1>1, <1>2, <1>3, <1>4, <1>5, NoTokenFacts
<1> HIDE DEF r
<1>7. Borrows(r, rec)
  BY <1>5, <1>6, BorrowsOn
<1> QED BY <1>1, <1>6, <1>7, PlainStep DEF rec

(***************************************************************************)
(* The provider grants a refresh: the new token is in the hand of the      *)
(* probe that asked, or the reply is lost.                                 *)
(***************************************************************************)
LEMMA GrantStep ==
  ASSUME OAuthIInv, NEW p \in Probers, NEW r, NEW s \in StoresOf(plugin), Become(p, r), Sound(r)',
         At(p, {"proactive", "retry"}), probe[p].src = s, probe[p].cred.rt = live[s],
         issued < MaxIssue, issued' = issued + 1, UNCHANGED <<plugin, store>>,
         live' = [live EXCEPT ![s] = IF plugin = "cursor" THEN live[s] ELSE issued + 1],
         \/ /\ r.pc \in {"saveP", "saveR"} /\ r.src = s /\ r.snap = probe[p].snap
            /\ r.cred.rt = live'[s] /\ mishap' = mishap
         \/ r.pc \notin {"saveP", "saveR"} /\ Borrows(r, probe[p]) /\ mishap' = mishap \cup {s}
  PROVE  OAuthIInv'
<1>1. /\ Stores /\ probe \in [Probers -> Session] /\ \A q \in Probers : Sound(probe[q])
      /\ SoleOwner /\ CursorKeeps /\ RefreshTokenKept
  BY InvariantsMean DEF Invariants
<1>2. issued \in Nat /\ MaxIssue \in Nat /\ issued >= 1
  BY <1>1, StoresFacts
<1>3. Session' = Session
  BY DEF Session, StoresOf
<1>4. /\ probe'[p] = r /\ \A q \in Probers : q # p => probe'[q] = probe[q]
      /\ probe' \in [Probers -> Session]
  BY <1>1, <1>3 DEF Become, Sound
<1>5. /\ live'[s] = IF plugin = "cursor" THEN live[s] ELSE issued + 1
      /\ \A x \in StoresOf(plugin) : x # s => live'[x] = live[x]
      /\ live' \in [StoresOf(plugin) -> 0..MaxIssue]
  BY <1>1, <1>2 DEF Stores
<1>6. Stores'
  <2>1. \A x \in StoresOf(plugin) : live'[x] \in 1..issued' /\ store[x].rt \in 0..issued'
    BY <1>1, <1>2, <1>5 DEF Stores
  <2>2. issued' \in 1..MaxIssue /\ mishap' \subseteq StoresOf(plugin)
    BY <1>1, <1>2 DEF Stores
  <2>3. /\ plugin' \in OPlugins /\ StoresOf(plugin)' = StoresOf(plugin)
        /\ store \in [StoresOf(plugin) -> Cred] /\ store' = store
    BY <1>1 DEF Stores, StoresOf
  <2> QED BY <1>5, <2>1, <2>2, <2>3 DEF Stores
<1>7. \A q \in Probers : Sound(probe[q])'
  <2> SUFFICES ASSUME NEW q \in Probers PROVE Sound(probe[q])'
    OBVIOUS
  <2>1. CASE q = p
    BY <1>4, <2>1 DEF Sound, Session, StoresOf, TellsTruth, Guilty, NothingLeft, Unusable
  <2>2. CASE q # p
    <3>1. Sound(probe[q]) /\ probe'[q] = probe[q]
      BY <1>1, <1>4, <2>2
    <3>2. probe[q] \in Session
      BY <3>1 DEF Sound
    <3>3. /\ probe[q].cred.rt <= issued + 1
          /\ \A x \in StoresOf(plugin) : probe[q].snap[x].rt <= issued + 1
      <4>1. \A c \in Cred : c.rt \in Nat
        BY <1>2 DEF Cred
      <4>2. probe[q].cred \in Cred /\ \A x \in StoresOf(plugin) : probe[q].snap[x] \in Cred
        BY <3>2 DEF Session
      <4> QED BY <1>2, <3>1, <4>1, <4>2 DEF Sound
    <3> QED BY <3>1, <3>3
            DEF Sound, Session, StoresOf, TellsTruth, Guilty, NothingLeft, Unusable
  <2> QED BY <2>1, <2>2
<1>8. SoleOwner'
  <2> SUFFICES ASSUME plugin \notin {"cursor", "grok"},
                      NEW x \in StoresOf(plugin) \ mishap', NEW q \in Probers, Saving(q, x)'
               PROVE  /\ probe'[q].cred.rt = live'[x] /\ store[x].rt # live'[x]
                      /\ \A o \in Probers :
                           /\ probe'[o].snap[x].rt # live'[x]
                           /\ o # q /\ probe'[o].src = x => probe'[o].cred.rt # live'[x]
    BY DEF SoleOwner
  <2>1. x \in StoresOf(plugin) \ mishap
    OBVIOUS
  <2>2. q # p => Saving(q, x)
    BY <1>4 DEF Saving, At
  <2>3. q # p => /\ probe[q].cred.rt = live[x] /\ store[x].rt # live[x] /\ live[x] # 0
                 /\ \A o \in Probers :
                      /\ probe[o].snap[x].rt # live[x]
                      /\ o # q /\ probe[o].src = x => probe[o].cred.rt # live[x]
    BY <1>1, <2>1, <2>2 DEF SoleOwner, Stores
  <2>4. CASE x # s
    <3>1. q # p
      BY <1>4, <2>4 DEF Saving, At
    <3>2. live'[x] = live[x]
      BY <1>5, <2>4
    <3>3. r.snap[x].rt # live[x] /\ (r.src = x => r.cred.rt # live[x])
      BY <2>3, <2>4, <3>1 DEF Borrows
    <3> QED BY <1>4, <2>3, <3>1, <3>2, <3>3
  <2>5. CASE x = s
    <3>1. q = p
      BY <2>3, <2>5
    <3>2. r.pc \in {"saveP", "saveR"} /\ r.snap = probe[p].snap /\ r.cred.rt = live'[s]
      BY <2>5
    <3>3. live'[s] = issued + 1 /\ store[s].rt \in 0..issued
      BY <1>1, <1>5 DEF Stores
    <3>4. ASSUME NEW o \in Probers
          PROVE  probe[o].cred.rt # issued + 1 /\ probe[o].snap[s].rt # issued + 1
      <4>1. probe[o] \in Session /\ probe[o].cred.rt <= issued /\ probe[o].snap[s].rt <= issued
        BY <1>1 DEF Sound
      <4>2. probe[o].cred.rt \in Nat /\ probe[o].snap[s].rt \in Nat
        BY <1>2, <4>1 DEF Session, Cred
      <4> QED BY <1>2, <4>1, <4>2
    <3> QED BY <1>2, <1>4, <2>5, <3>1, <3>2, <3>3, <3>4
  <2> QED BY <2>4, <2>5
<1>9. CursorKeeps'
  BY <1>1, <1>5 DEF CursorKeeps
<1>10. RefreshTokenKept'
  <2> SUFFICES ASSUME plugin # "grok", NEW x \in StoresOf(plugin) \ mishap'
               PROVE  \/ store[x].rt \in {0, live'[x]}
                      \/ \E q \in Probers : Saving(q, x)'
    BY DEF RefreshTokenKept, Saving
  <2>1. CASE x = s
    <3>1. Saving(p, x)'
      BY <1>4, <2>1 DEF Saving, At
    <3> QED BY <3>1
  <2>2. CASE x # s
    <3>1. live'[x] = live[x]
      BY <1>5, <2>2
    <3>2. store[x].rt \in {0, live[x]} \/ \E q \in Probers : Saving(q, x)
      BY <1>1 DEF RefreshTokenKept, Saving
    <3>3. ASSUME NEW q \in Probers, Saving(q, x) PROVE Saving(q, x)'
      <4>1. q # p
        BY <2>2, <3>3 DEF Saving
      <4> QED BY <1>4, <3>3, <4>1 DEF Saving, At
    <3> QED BY <3>1, <3>2, <3>3
  <2> QED BY <2>1, <2>2
<1>11. Invariants'
  BY <1>3, <1>4, <1>6, <1>7, <1>8, <1>9, <1>10 DEF Invariants
<1> QED BY <1>11, InvariantsMean, PTL

LEMMA RefreshRequestKeeps ==
  ASSUME OAuthIInv, NEW p \in Probers, RefreshRequest(p)
  PROVE  OAuthIInv'
<1> DEFINE rec == probe[p]
           s == rec.src
           n == issued + 1
           c == [at |-> n, rt |-> IF plugin = "cursor" THEN rec.cred.rt ELSE n, age |-> "fresh"]
           got == [rec EXCEPT !.cred = c, !.pc = IF @ = "proactive" THEN "saveP" ELSE "saveR"]
<1>1. /\ Stores /\ rec \in Session /\ Sound(rec) /\ Bounded(rec) /\ plugin \in Names
      /\ rec.pc \in {"proactive", "retry"} /\ rec.cred.rt # 0 /\ UNCHANGED <<plugin, store>>
      /\ issued \in Nat /\ MaxIssue \in Nat
  BY ProbeFacts, StoresFacts DEF RefreshRequest, At
<1>2. PICK a \in Answers :
       \/ /\ a \in {"granted", "lost"} /\ rec.cred.rt = live[s] /\ issued < MaxIssue
          /\ issued' = n /\ live' = [live EXCEPT ![s] = c.rt]
          /\ \/ a = "granted" /\ Become(p, got) /\ UNCHANGED mishap
             \/ /\ a = "lost" /\ Become(p, NoToken(rec, Refresh(plugin, a)))
                /\ mishap' = mishap \cup {s}
       \/ /\ a \notin {"granted", "lost"}
          /\ Become(p, NoToken([rec EXCEPT !.refused = @ \/ a \in Denials], Refresh(plugin, a)))
          /\ UNCHANGED <<live, issued, mishap>>
  BY DEF RefreshRequest
<1>3. At(p, {"proactive", "retry"}) /\ s \in StoresOf(plugin) /\ rec.out = "none"
      /\ (rec.pc = "retry" => rec.refused)
  BY <1>1 DEF At, Sound, Working
<1>4. CASE a \notin {"granted", "lost"}
  BY <1>1, <1>2, <1>3, <1>4, DeniedKeeps
<1>5. CASE a \in {"granted", "lost"}
  <2>1. /\ rec.cred.rt = live[s] /\ issued < MaxIssue /\ issued' = n
        /\ live' = [live EXCEPT ![s] = c.rt]
    BY <1>2, <1>5
  <2>2. /\ c \in Cred /\ c.rt = IF plugin = "cursor" THEN live[s] ELSE n
        /\ c.at = n /\ c.age = "fresh" /\ c.rt <= n /\ c.rt # 0
    <3>1. n \in 0..MaxIssue /\ n # 0 /\ rec.cred.rt \in 0..MaxIssue /\ rec.cred.rt <= n
      BY <1>1, <2>1 DEF Bounded, Session, Cred
    <3> QED BY <1>1, <2>1, <3>1 DEF Cred, Ages
  <2>3. live' = [live EXCEPT ![s] = IF plugin = "cursor" THEN live[s] ELSE issued + 1]
    BY <2>1, <2>2
  <2>4. live'[s] = c.rt
    BY <1>1, <1>3, <2>1 DEF Stores
  <2> HIDE DEF c
  <2>5. CASE a = "granted"
    <3>1. PICK r : r = got
      OBVIOUS
    <3>2. /\ r \in Session /\ r.pc \in {"saveP", "saveR"} /\ r.src = s /\ r.snap = rec.snap
          /\ r.cred = c /\ r.out = rec.out /\ r.cands = rec.cands /\ r.refused = rec.refused
          /\ (r.pc = "saveR" => rec.pc = "retry")
      <4> HIDE DEF rec
      <4> QED BY <1>1, <2>2, <3>1 DEF Session, Pcs
    <3>3. Become(p, r) /\ mishap' = mishap
      BY <1>2, <2>5, <3>1
    <3>4. /\ issued' = n /\ plugin' = plugin /\ StoresOf(plugin)' = StoresOf(plugin)
          /\ Session' = Session
      BY <1>1, <2>1 DEF Session, StoresOf
    <3>5. HasAccess(c)
      BY <1>1, <2>2 DEF HasAccess
    <3>6. \A x \in StoresOf(plugin) : rec.snap[x].rt <= n
      <4>1. \A x \in StoresOf(plugin) : rec.snap[x].rt \in Nat /\ rec.snap[x].rt <= issued
        BY <1>1 DEF Bounded, Session, Cred
      <4> QED BY <1>1, <4>1
    <3> HIDE DEF rec, got, n, s
    <3>7. Sound(r)'
      BY <1>1, <1>3, <2>2, <3>2, <3>4, <3>5, <3>6 DEF Sound, Working, TellsTruth, Guilty
    <3> QED BY <1>1, <1>3, <2>1, <2>3, <2>4, <3>2, <3>3, <3>7, GrantStep DEF rec, n, s
  <2>6. CASE a = "lost"
    <3> DEFINE x == Refresh(plugin, a)
    <3>1. x \in Replies /\ x # "throw"
      BY <1>1, <2>6, RefreshFacts DEF Denials
    <3>2. PICK r : r = NoToken(rec, x)
      OBVIOUS
    <3>3. Become(p, r) /\ mishap' = mishap \cup {s}
      BY <1>2, <2>6, <3>2
    <3> HIDE DEF x
    <3>4. plugin = "kiro" => \A i \in DOMAIN rec.cands : rec.snap[rec.cands[i]].rt # 0
      BY <1>1 DEF Sound
    <3>5. Sound(r) /\ Borrows(r, rec) /\ r.pc \in {"request", "pick", "done"}
      <4> HIDE DEF rec
      <4> QED BY <1>1, <1>3, <3>1, <3>2, <3>4, NoTokenFacts DEF s
    <3>6. /\ issued' = n /\ plugin' = plugin /\ StoresOf(plugin)' = StoresOf(plugin)
          /\ Session' = Session /\ store' = store
      BY <1>1, <2>1 DEF Session, StoresOf
    <3>7. r.cred.rt <= n /\ \A y \in StoresOf(plugin) : r.snap[y].rt <= n
      <4>1. /\ r.cred.rt \in Nat /\ r.cred.rt <= issued
            /\ \A y \in StoresOf(plugin) : r.snap[y].rt \in Nat /\ r.snap[y].rt <= issued
        BY <1>1, <3>5 DEF Sound, Session, Cred
      <4> QED BY <1>1, <4>1
    <3>8. Sound(r)'
      BY <3>5, <3>6, <3>7 DEF Sound, TellsTruth, Guilty, NothingLeft, Unusable
    <3> QED BY <1>1, <1>3, <2>1, <2>3, <3>3, <3>5, <3>8, GrantStep
  <2> QED BY <1>5, <2>5, <2>6
<1> QED BY <1>4, <1>5

(***************************************************************************)
(* The new session is written, or the write fails.                         *)
(***************************************************************************)
LEMMA SaveKeeps ==
  ASSUME OAuthIInv, NEW p \in Probers, Save(p)
  PROVE  OAuthIInv'
<1> DEFINE rec == probe[p]
           s == rec.src
           saved == [rec EXCEPT !.pc = IF @ = "saveP" THEN "request" ELSE "again",
                                !.snap[s] = rec.cred]
<1>1. /\ Stores /\ probe \in [Probers -> Session] /\ \A q \in Probers : Sound(probe[q])
      /\ SoleOwner /\ CursorKeeps /\ RefreshTokenKept
  BY InvariantsMean DEF Invariants
<1>2. /\ rec \in Session /\ rec.pc \in {"saveP", "saveR"} /\ plugin \in Names
      /\ s \in StoresOf(plugin) /\ HasAccess(rec.cred) /\ rec.cred.rt # 0 /\ rec.out = "none"
      /\ rec.cred \in Cred /\ rec.snap \in [StoresOf(plugin) -> Cred]
      /\ UNCHANGED <<plugin, live, issued>> /\ issued \in Nat /\ MaxIssue \in Nat
  BY <1>1, StoresFacts DEF Save, At, Sound, Working, Session
<1>3. Session' = Session /\ StoresOf(plugin)' = StoresOf(plugin)
  BY <1>2 DEF Session, StoresOf
<1>4. PICK r : r = saved
  OBVIOUS
<1>5. Become(p, r)
  BY <1>4 DEF Save
<1>6. /\ r \in Session /\ r.src = s /\ r.cred = rec.cred /\ r.out = rec.out /\ r.cands = rec.cands
      /\ r.snap = [rec.snap EXCEPT ![s] = rec.cred] /\ r.refused = rec.refused
      /\ r.pc \in {"request", "again"} /\ (r.pc = "again" => rec.pc = "saveR")
  <2>1. [rec.snap EXCEPT ![s] = rec.cred] \in [StoresOf(plugin) -> Cred]
    BY <1>2
  <2> HIDE DEF rec
  <2> QED BY <1>2, <1>4, <2>1 DEF Session, Pcs
<1> HIDE DEF saved
<1>7. r.snap[s] = rec.cred /\ \A x \in StoresOf(plugin) : x # s => r.snap[x] = rec.snap[x]
  BY <1>2, <1>6
<1>8. \/ store' = Saved(plugin, store, rec.snap, s, rec.cred) /\ mishap' = mishap
      \/ store' = store /\ mishap' = mishap \cup {s}
  BY DEF Save
<1>9. /\ store' \in [StoresOf(plugin) -> Cred]
      /\ store'[s].rt \in {rec.cred.rt, store[s].rt}
      /\ plugin = "cursor" => store'[s].rt = store[s].rt
      /\ store'[s] = rec.cred \/ store' = store \/ plugin = "cursor"
      /\ \A x \in StoresOf(plugin) : x # s =>
           store'[x] = store[x] \/ (plugin = "grok" /\ store'[x] = rec.snap[x])
  <2>1. store \in [StoresOf(plugin) -> Cred]
    BY <1>1 DEF Stores
  <2>2. CASE store' = store
    BY <2>1, <2>2
  <2>3. CASE store' = Saved(plugin, store, rec.snap, s, rec.cred)
    <3> DEFINE sn == rec.snap
               c == rec.cred
    <3>1. store' = Saved(plugin, store, sn, s, c)
      BY <2>3
    <3>2. sn \in [StoresOf(plugin) -> Cred] /\ c \in Cred /\ s \in StoresOf(plugin)
          /\ plugin \in Names
      BY <1>2
    <3> HIDE DEF rec, s, sn, c
    <3>3. WrittenTo(store', plugin, store, sn, s, c)
      BY <2>1, <3>1, <3>2, SavedFacts
    <3> QED BY <3>3 DEF sn, c, WrittenTo
  <2> QED BY <1>8, <2>2, <2>3
<1>10. /\ probe'[p] = r /\ \A q \in Probers : q # p => probe'[q] = probe[q]
       /\ probe' \in [Probers -> Session]
  BY <1>1, <1>5, <1>6 DEF Become
<1>11. Stores'
  <2>1. \A x \in StoresOf(plugin) : live[x] \in 1..issued /\ store'[x].rt \in 0..issued
    <3>1. rec.cred.rt \in 0..issued /\ \A x \in StoresOf(plugin) : rec.snap[x].rt \in 0..issued
      <4>1. rec.cred.rt <= issued /\ \A x \in StoresOf(plugin) : rec.snap[x].rt <= issued
        BY <1>1 DEF Sound
      <4>2. rec.cred.rt \in Nat /\ \A x \in StoresOf(plugin) : rec.snap[x].rt \in Nat
        BY <1>2 DEF Cred
      <4> QED BY <1>2, <4>1, <4>2
    <3>2. \A x \in StoresOf(plugin) : live[x] \in 1..issued /\ store[x].rt \in 0..issued
      BY <1>1 DEF Stores
    <3> QED BY <1>9, <3>1, <3>2
  <2>2. mishap' \subseteq StoresOf(plugin)
    BY <1>1, <1>2, <1>8 DEF Stores
  <2> QED BY <1>1, <1>2, <1>3, <1>9, <2>1, <2>2 DEF Stores
<1>12. \A q \in Probers : Sound(probe[q])'
  <2> SUFFICES ASSUME NEW q \in Probers PROVE Sound(probe[q])'
    OBVIOUS
  <2>1. CASE q = p
    <3>1. Sound(rec) /\ rec.cred.rt <= issued
      BY <1>1 DEF Sound
    <3>2. \A x \in StoresOf(plugin) : r.snap[x].rt <= issued
      BY <1>7, <3>1 DEF Sound
    <3>3. plugin = "kiro" => \A i \in DOMAIN r.cands : r.snap[r.cands[i]].rt # 0
      <4>1. r.cands \in Seq(StoresOf(plugin))
        BY <1>6 DEF Session
      <4>2. \A i \in DOMAIN r.cands : r.cands[i] \in StoresOf(plugin)
        BY <4>1, ElementOfSeq, LenProperties
      <4> QED BY <1>2, <1>6, <1>7, <3>1, <4>2 DEF Sound
    <3> HIDE DEF rec, s
    <3>4. Sound(r)'
      BY <1>2, <1>3, <1>6, <3>1, <3>2, <3>3 DEF Sound, Working, TellsTruth, Guilty
    <3> QED BY <1>10, <2>1, <3>4 DEF Sound, Session, TellsTruth, Guilty, NothingLeft
  <2>2. CASE q # p
    <3>1. Sound(probe[q]) /\ probe'[q] = probe[q]
      BY <1>1, <1>10, <2>2
    <3>2. plugin = "codex" => (HasAccess(store["keychain"]) => HasAccess(store'["keychain"]))
      <4> SUFFICES ASSUME plugin = "codex", HasAccess(store["keychain"])
                   PROVE  HasAccess(store'["keychain"])
        OBVIOUS
      <4>1. "keychain" \in StoresOf(plugin)
        BY StoresAre
      <4>2. CASE s = "keychain"
        BY <1>2, <1>9, <4>2
      <4>3. CASE s # "keychain"
        BY <1>9, <4>1, <4>3
      <4> QED BY <4>2, <4>3
    <3>3. NothingLeft(probe[q]) => NothingLeft(probe[q])'
      BY <1>2, <1>3, <3>1, <3>2 DEF NothingLeft, Unusable
    <3> QED BY <1>2, <1>3, <3>1, <3>3 DEF Sound, TellsTruth, Guilty, Unusable
  <2> QED BY <2>1, <2>2
<1>13. SoleOwner'
  <2> SUFFICES ASSUME plugin \notin {"cursor", "grok"},
                      NEW x \in StoresOf(plugin) \ mishap', NEW q \in Probers, Saving(q, x)'
               PROVE  /\ probe'[q].cred.rt = live[x] /\ store'[x].rt # live[x]
                      /\ \A o \in Probers :
                           /\ probe'[o].snap[x].rt # live[x]
                           /\ o # q /\ probe'[o].src = x => probe'[o].cred.rt # live[x]
    BY <1>2, <1>3 DEF SoleOwner
  <2>1. q # p /\ Saving(q, x) /\ x \in StoresOf(plugin) \ mishap
    BY <1>6, <1>8, <1>10 DEF Saving, At
  <2>2. /\ probe[q].cred.rt = live[x] /\ store[x].rt # live[x]
        /\ \A o \in Probers :
             /\ probe[o].snap[x].rt # live[x]
             /\ o # q /\ probe[o].src = x => probe[o].cred.rt # live[x]
    BY <1>1, <2>1 DEF SoleOwner
  <2>3. x # s
    <3>1. SUFFICES ASSUME x = s PROVE FALSE
      OBVIOUS
    <3>2. Saving(p, s)
      BY <1>2 DEF Saving, At
    <3>3. rec.cred.rt = live[s]
      BY <1>1, <2>1, <3>1, <3>2 DEF SoleOwner
    <3> QED BY <2>1, <2>2, <3>1, <3>3
  <2>4. store'[x] = store[x] /\ r.snap[x] = rec.snap[x] /\ r.src # x
    BY <1>6, <1>7, <1>9, <2>3
  <2> QED BY <1>10, <2>1, <2>2, <2>4
<1>14. CursorKeeps'
  BY <1>1, <1>2, <1>3, <1>9 DEF CursorKeeps
<1>15. RefreshTokenKept'
  <2> SUFFICES ASSUME plugin # "grok", NEW x \in StoresOf(plugin) \ mishap'
               PROVE  \/ store'[x].rt \in {0, live[x]}
                      \/ \E q \in Probers : Saving(q, x)'
    BY <1>2, <1>3 DEF RefreshTokenKept, Saving
  <2>1. x \in StoresOf(plugin) \ mishap
    BY <1>8
  <2>2. CASE x # s
    <3>1. store[x].rt \in {0, live[x]} \/ \E q \in Probers : Saving(q, x)
      BY <1>1, <2>1 DEF RefreshTokenKept, Saving
    <3>2. ASSUME NEW q \in Probers, Saving(q, x) PROVE Saving(q, x)'
      <4>1. q # p
        BY <2>2, <3>2 DEF Saving
      <4> QED BY <1>10, <3>2, <4>1 DEF Saving, At
    <3> QED BY <1>9, <2>2, <3>1, <3>2
  <2>3. CASE x = s /\ plugin = "cursor"
    BY <1>1, <1>9, <2>3 DEF CursorKeeps
  <2>4. CASE x = s /\ plugin # "cursor"
    <3>1. store' = Saved(plugin, store, rec.snap, s, rec.cred)
      BY <1>8, <2>4
    <3>2. store'[s] = rec.cred
      <4>1. store \in [StoresOf(plugin) -> Cred]
        BY <1>1 DEF Stores
      <4>2. WrittenTo(store', plugin, store, rec.snap, s, rec.cred)
        <5> HIDE DEF rec, s
        <5> QED BY <1>2, <3>1, <4>1, SavedFacts
      <4> QED BY <2>4, <4>2 DEF WrittenTo
    <3>3. Saving(p, s)
      BY <1>2 DEF Saving, At
    <3>4. rec.cred.rt = live[s]
      BY <1>1, <2>1, <2>4, <3>3 DEF SoleOwner
    <3> QED BY <2>4, <3>2, <3>4
  <2> QED BY <2>2, <2>3, <2>4
<1>16. Invariants'
  BY <1>3, <1>10, <1>11, <1>12, <1>13, <1>14, <1>15 DEF Invariants
<1> QED BY <1>16, InvariantsMean, PTL

(***************************************************************************)
(* The user signs in again.                                                *)
(***************************************************************************)
LEMMA SignInKeeps ==
  ASSUME OAuthIInv, NEW s \in StoresOf(plugin), SignIn(s)
  PROVE  OAuthIInv'
<1> DEFINE n == issued + 1
           c == [at |-> n, rt |-> n, age |-> "fresh"]
<1>1. /\ Stores /\ probe \in [Probers -> Session] /\ \A q \in Probers : Sound(probe[q])
      /\ SoleOwner /\ CursorKeeps /\ RefreshTokenKept
  BY InvariantsMean DEF Invariants
<1>2. /\ issued < MaxIssue /\ issued' = n /\ live' = [live EXCEPT ![s] = n]
      /\ store' = [store EXCEPT ![s] = c] /\ UNCHANGED <<plugin, probe>>
      /\ mishap' = IF \E p \in Probers : Saving(p, s) THEN mishap \cup {s} ELSE mishap
      /\ issued \in Nat /\ MaxIssue \in Nat
  BY <1>1, StoresFacts DEF SignIn, Saving
<1>3. Session' = Session /\ StoresOf(plugin)' = StoresOf(plugin)
  BY <1>2 DEF Session, StoresOf
<1>4. c \in Cred /\ c.rt = n /\ HasAccess(c)
  BY <1>2 DEF Cred, Ages, HasAccess
<1> HIDE DEF c
<1>5. /\ live' \in [StoresOf(plugin) -> 0..MaxIssue] /\ live'[s] = n
      /\ store' \in [StoresOf(plugin) -> Cred] /\ store'[s] = c
      /\ \A x \in StoresOf(plugin) : x # s => live'[x] = live[x] /\ store'[x] = store[x]
  BY <1>1, <1>2, <1>4 DEF Stores
<1>6. Stores'
  <2>1. \A x \in StoresOf(plugin) : live'[x] \in 1..n /\ store'[x].rt \in 0..n
    BY <1>1, <1>2, <1>4, <1>5 DEF Stores
  <2>2. n \in 1..MaxIssue /\ mishap' \subseteq StoresOf(plugin) /\ plugin \in OPlugins
    BY <1>1, <1>2 DEF Stores
  <2> QED BY <1>2, <1>3, <1>5, <2>1, <2>2 DEF Stores
<1>7. \A q \in Probers : Sound(probe[q])'
  <2> SUFFICES ASSUME NEW q \in Probers PROVE Sound(probe[q])'
    OBVIOUS
  <2>1. Sound(probe[q]) /\ probe[q] \in Session /\ probe'[q] = probe[q]
    BY <1>1, <1>2
  <2>2. /\ probe[q].cred.rt <= n
        /\ \A x \in StoresOf(plugin) : probe[q].snap[x].rt <= n
    <3>1. /\ probe[q].cred.rt \in Nat
          /\ \A x \in StoresOf(plugin) : probe[q].snap[x].rt \in Nat
      BY <1>2, <2>1 DEF Session, Cred
    <3> QED BY <1>2, <2>1, <3>1 DEF Sound
  <2>3. plugin = "codex" => (HasAccess(store["keychain"]) => HasAccess(store'["keychain"]))
    BY <1>4, <1>5, StoresAre
  <2>4. NothingLeft(probe[q]) => NothingLeft(probe[q])'
    BY <1>2, <1>3, <2>1, <2>3 DEF NothingLeft, Unusable
  <2> HIDE DEF n
  <2> QED BY <1>2, <1>3, <2>1, <2>2, <2>4 DEF Sound, TellsTruth, Guilty, Unusable
<1>8. SoleOwner'
  <2> SUFFICES ASSUME plugin \notin {"cursor", "grok"},
                      NEW x \in StoresOf(plugin) \ mishap', NEW q \in Probers, Saving(q, x)
               PROVE  /\ probe[q].cred.rt = live'[x] /\ store'[x].rt # live'[x]
                      /\ \A o \in Probers :
                           /\ probe[o].snap[x].rt # live'[x]
                           /\ o # q /\ probe[o].src = x => probe[o].cred.rt # live'[x]
    BY <1>2, <1>3 DEF SoleOwner, Saving, At
  <2>1. x # s /\ x \notin mishap
    BY <1>2
  <2> QED BY <1>1, <1>5, <2>1 DEF SoleOwner
<1>9. CursorKeeps'
  BY <1>1, <1>2, <1>3, <1>4, <1>5 DEF CursorKeeps
<1>10. RefreshTokenKept'
  <2> SUFFICES ASSUME plugin # "grok", NEW x \in StoresOf(plugin) \ mishap'
               PROVE  \/ store'[x].rt \in {0, live'[x]}
                      \/ \E q \in Probers : Saving(q, x)
    BY <1>2, <1>3 DEF RefreshTokenKept, Saving, At
  <2>1. x \in StoresOf(plugin) \ mishap
    BY <1>2
  <2> QED BY <1>1, <1>4, <1>5, <2>1 DEF RefreshTokenKept, Saving
<1>11. Invariants'
  BY <1>1, <1>2, <1>3, <1>6, <1>7, <1>8, <1>9, <1>10 DEF Invariants
<1> QED BY <1>11, InvariantsMean, PTL

LEMMA InitSound ==
  OAuthInit => OAuthIInv
<1> SUFFICES ASSUME OAuthInit PROVE OAuthIInv
  OBVIOUS
<1>1. FirstCreds \subseteq Cred /\ (\A c \in FirstCreds : c.rt \in {0, 1}) /\ MaxIssue \in Nat
      /\ 1 <= MaxIssue
  BY OAuthAssumption DEF FirstCreds, Cred, Absent, Ages
<1>2. /\ store \in [StoresOf(plugin) -> FirstCreds] /\ issued = 1 /\ mishap = {}
      /\ \A s \in StoresOf(plugin) : live[s] = 1
      /\ plugin \in OPlugins /\ live = [s \in StoresOf(plugin) |-> 1]
      /\ \A p \in Probers : probe[p] = Idle
  BY DEF OAuthInit
<1>3. \A s \in StoresOf(plugin) : store[s] \in FirstCreds /\ store[s].rt \in {0, 1}
  BY <1>1, <1>2
<1>4. Stores
  BY <1>1, <1>2, <1>3 DEF Stores
<1>5. /\ Idle \in Session /\ Idle.pc = "idle" /\ Idle.src = "none"
      /\ Idle.out = "none" /\ Idle.cred = Absent /\ DOMAIN Idle.cands = {}
      /\ Absent.rt = 0 /\ \A s \in StoresOf(plugin) : Idle.snap[s] = Absent
  BY <1>4, IdleFacts, StoresFacts
<1>6. probe \in [Probers -> Session]
  BY <1>5 DEF OAuthInit
<1>7. \A p \in Probers : Sound(probe[p])
  BY <1>2, <1>5 DEF Sound, TellsTruth, Working
<1>8. \A p \in Probers : \A s : ~Saving(p, s)
  BY <1>2, <1>5 DEF Saving, At
<1>9. SoleOwner /\ CursorKeeps /\ RefreshTokenKept
  BY <1>2, <1>3, <1>8 DEF SoleOwner, CursorKeeps, RefreshTokenKept
<1> QED BY <1>4, <1>6, <1>7, <1>9, InvariantsMean DEF Invariants

LEMMA StepKeeps ==
  OAuthIInv /\ [OAuthNext]_oauthVars => OAuthIInv'
<1> SUFFICES ASSUME OAuthIInv, [OAuthNext]_oauthVars PROVE OAuthIInv'
  OBVIOUS
<1>1. ASSUME NEW p \in Probers, Start(p) PROVE OAuthIInv'
  BY <1>1, StartKeeps
<1>2. ASSUME NEW p \in Probers, NextSession(p) PROVE OAuthIInv'
  BY <1>2, NextSessionKeeps
<1>3. ASSUME NEW p \in Probers, RefreshSkipped(p) PROVE OAuthIInv'
  BY <1>3, RefreshSkippedKeeps
<1>4. ASSUME NEW p \in Probers, RefreshRequest(p) PROVE OAuthIInv'
  BY <1>4, RefreshRequestKeeps
<1>5. ASSUME NEW p \in Probers, Save(p) PROVE OAuthIInv'
  BY <1>5, SaveKeeps
<1>6. ASSUME NEW p \in Probers, UsageRequest(p) PROVE OAuthIInv'
  BY <1>6, UsageRequestKeeps
<1>7. ASSUME NEW p \in Probers, Cut(p) PROVE OAuthIInv'
  BY <1>7, CutKeeps
<1>8. ASSUME NEW s \in StoresOf(plugin), SignIn(s) PROVE OAuthIInv'
  BY <1>8, SignInKeeps
<1>9. CASE UNCHANGED oauthVars
  <2>1. Invariants
    BY InvariantsMean
  <2>2. Stores' /\ probe' \in [Probers -> Session']
    <3>1. Stores /\ probe \in [Probers -> Session]
      BY <2>1 DEF Invariants
    <3>2. Session' = Session /\ StoresOf(plugin)' = StoresOf(plugin)
      BY <1>9 DEF oauthVars, Session, StoresOf
    <3> QED BY <1>9, <3>1, <3>2 DEF oauthVars, Stores
  <2>3. ASSUME NEW p \in Probers PROVE Sound(probe[p])'
    <3>1. Sound(probe[p]) /\ probe'[p] = probe[p]
      BY <1>9, <2>1 DEF oauthVars, Invariants
    <3> QED BY <1>9, <3>1 DEF oauthVars, Session, StoresOf, Sound, TellsTruth, Guilty,
                              NothingLeft, Unusable
  <2>4. SoleOwner' /\ CursorKeeps' /\ RefreshTokenKept'
    BY <1>9, <2>1 DEF oauthVars, Invariants, SoleOwner, Saving, At, CursorKeeps, RefreshTokenKept
  <2>5. Invariants'
    BY <2>2, <2>3, <2>4 DEF Invariants
  <2> QED BY <2>5, InvariantsMean, PTL
<1> QED BY <1>1, <1>2, <1>3, <1>4, <1>5, <1>6, <1>7, <1>8, <1>9 DEF OAuthNext

(***************************************************************************)
(* The inductive invariant holds of every behaviour.                       *)
(***************************************************************************)
THEOREM SessionInvariant == OAuthSpec => []OAuthIInv
<1>1. OAuthInit => OAuthIInv
  BY InitSound
<1>2. OAuthIInv /\ [OAuthNext]_oauthVars => OAuthIInv'
  BY StepKeeps
<1> QED BY <1>1, <1>2, PTL DEF OAuthSpec

(***************************************************************************)
(* Credentials, stores and probes stay well formed.                        *)
(***************************************************************************)
THEOREM SessionTypeCorrect == OAuthSpec => []OAuthTypeOK
<1>1. OAuthIInv => OAuthTypeOK
  BY DEF OAuthIInv
<1> QED BY <1>1, SessionInvariant, PTL

(***************************************************************************)
(* However the probes of a plugin overlap, the application loses no        *)
(* session: what a store holds is what the provider still accepts, unless  *)
(* a write failed, a reply was lost or a write met a cut or a sign-in.     *)
(***************************************************************************)
THEOREM NoSessionIsLost == OAuthSpec => []RefreshTokenKept
<1>1. OAuthIInv => RefreshTokenKept
  BY DEF OAuthIInv
<1> QED BY <1>1, SessionInvariant, PTL

(***************************************************************************)
(* A probe that asks the user to sign in has a reason: the provider        *)
(* refused a token, or there is no session it could use.                   *)
(***************************************************************************)
THEOREM ErrorIsDeserved == OAuthSpec => []ErrorTellsTruth
<1>1. OAuthIInv => ErrorTellsTruth
  BY DEF OAuthIInv
<1> QED BY <1>1, SessionInvariant, PTL
=============================================================================
