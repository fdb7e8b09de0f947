------------------------------ MODULE MCPlugins ------------------------------
(***************************************************************************)
(* The provider plugins for TLC: their sessions (OAuthProbe), their keys   *)
(* (KeyProbe) and what they report (UsageReport).  The three have nothing  *)
(* in common, so a behaviour follows one of them.                          *)
(***************************************************************************)
EXTENDS OAuthProbe, KeyProbe, UsageReport

VARIABLE part

AllOAuth == {"claude", "codex", "cursor", "factory", "grok", "kimi", "kiro"}
AllKeys == {"copilot", "devin", "antigravity", "minimax", "synthetic", "zai", "amp", "perplexity"}
AllReports == {"claude", "codex", "cursor", "factory", "grok", "kimi", "kiro", "copilot", "devin",
               "antigravity", "minimax", "synthetic", "zai", "amp", "perplexity", "jetbrains",
               "opencode-go"}
Calendar == <<3, 2, 4>>
(***************************************************************************)
(* The answers tried.  A field varies where the report depends on it: over *)
(* amounts that are missing, negative, zero, usual and beyond the limit.   *)
(***************************************************************************)
Maybe(S) == {{}} \cup {{n} : n \in S}
Shares == {{}, {-5}, {40}, {120}}
Seqs(S, n) == BoundedSeq(S, n)
Use(U, L) == Maybe([used : U, limit : L])

JetbrainsGiven ==
  LET NoPart == [maximum |-> {}, current |-> {}, available |-> {}]
      Part == {NoPart, [maximum |-> {5}, current |-> {2}, available |-> {}]}
      Some == [maximum : {{10}, {20}}, current : {{4}, {8}}, available : {{}}, tariff : {NoPart}, topUp : {NoPart}, until : Maybe({1, 2}), next : Maybe({1})]
      All  == [maximum : Maybe({0, 10}), current : Maybe({-2, 4, 12}), available : Maybe({3}),
               tariff : Part, topUp : Part, until : Maybe({1}), next : {{}}]
  IN [files : Seqs(Some, 2) \cup Seqs(All, 1)]
OpencodeGiven ==
  LET Year == MonthStart[Len(MonthDays)]
      Row(now) == [at : (now - 9)..(now + 1), cost : {40}] \cup {[at |-> now - 1, cost |-> -1]}
                  \cup [at : {0, 1, now - 13}, cost : {3}]
  IN [auth : BOOLEAN, dbReads : BOOLEAN, rowsRead : BOOLEAN, rows : {<<>>}, now : {Year}]
     \cup UNION {[auth : BOOLEAN, dbReads : {TRUE}, rowsRead : {TRUE}, rows : Seqs(Row(t), 2), now : {t}] :
                 t \in Year..(2 * Year - 1)}
MinimaxGiven ==
  LET All  == [total : Maybe({0, 7, 45}), percent : Shares, general : {TRUE}, used : Maybe({50}),
               remaining : Maybe({5, 60}), usage : Maybe({10})]
      Some == [total : Maybe({7, 45}), percent : Shares, general : BOOLEAN, used : {{}},
               remaining : {{}}, usage : {{10}}]
  IN [cn : BOOLEAN, items : Seqs(All, 1) \cup Seqs(Some, 2)]
KimiGiven ==
  LET All  == [limit : Maybe({0, 10}), used : Maybe({-1, 4}), remaining : Maybe({6}),
               resets : {0, 1}, period : Maybe({1})]
      Some == [limit : {{10}}, used : {{4}, {7}}, remaining : {{}}, resets : {0}, period : Maybe({1, 2})]
      Row  == [limit : Maybe({10}), used : {{4}}, remaining : {{}}, resets : {0, 1}]
  IN [limits : Seqs(All, 1) \cup Seqs(Some, 3), usage : Row]
DevinGiven == [hideDaily : BOOLEAN, daily : Shares, weekly : Shares, balance : Maybe({-1, 3})]
AntigravityGiven ==
  [models : Seqs([model : {"gemini-pro", "gemini-flash", "claude", "gpt"}, fraction : Shares,
                  named : {TRUE}, internal : {FALSE}], 2)
            \cup Seqs([model : {"gpt"}, fraction : {{40}}, named : BOOLEAN, internal : BOOLEAN], 2)]
CopilotGiven ==
  LET Free == [left : Maybe({-1, 2, 9}), total : {0, 5}]
  IN [premium : Shares, chat : Shares, freeChat : Free, completions : Free]
GrokGiven == [used : Shares, limit : Shares, cap : Maybe({0, 1}), resets : BOOLEAN]
PerplexityGiven ==
  [groups : Seqs([id : Maybe({1}), isDefault : BOOLEAN], 2), balance : Maybe({-1, 0, 30}),
   meters : Maybe(Seqs(Seqs(Maybe({-4, 6}), 1), 2)), rates : Seqs(Maybe({-1, 3}), 1)]
ZaiGiven ==
  [limits : Seqs([type : {"TOKENS_LIMIT", "TIME_LIMIT"}, unit : Maybe({3, 6}),
                  percent : {{}, {-5}, {40}}, current : {-1, 4}, usage : Maybe({0, 9})], 1)
            \cup Seqs([type : {"TOKENS_LIMIT", "TIME_LIMIT"}, unit : Maybe({3, 6}),
                       percent : {{40}, {60}}, current : {4}, usage : Maybe({9})], 3)]
SyntheticGiven ==
  [rolling : Maybe([left : {2, 20}, limit : {0, 10}]), mana : Shares, limited : BOOLEAN,
   subscription : Use({{}, {3}}, {0, 10}), free : Use({{-1}, {3}}, {0, 10}), search : Use({{}, {3}}, {0, 10})]
AmpGiven == [balance : Maybe([left : {0, 4, 9}, total : {0, 5}]), bonus : BOOLEAN,
             credits : Maybe({0, 8}), ampFree : BOOLEAN]
FactoryGiven == [standard : Use({-1, 0, 12}, {0, 10}), premium : Use({-1, 0, 12}, {0, 10})]
KiroGiven ==
  LET Pool == [used : {3}, limit : {0, 10}, status : {"none", "ACTIVE", "EXHAUSTED", "EXPIRED"}]
      One  == [credit : BOOLEAN, used : {-1, 4}, limit : {0, 10}, trial : {<<>>}, bonuses : {<<>>}]
      Full == [credit : {TRUE}, used : {4}, limit : {10}, trial : Seqs(Pool, 1), bonuses : Seqs(Pool, 1)]
      Snap == {<<[credit |-> TRUE, used |-> n, limit |-> 10, trial |-> <<>>, bonuses |-> <<>>]>> : n \in 5..6}
  IN [live : Maybe(Seqs(One, 2) \cup Seqs(Full, 1)), cached : Maybe(Snap), logged : Maybe(Snap),
      loggedPlan : BOOLEAN, cachedIsOld : BOOLEAN, overage : {TRUE}]
Logs ==
  LET Shape(a, b) == [m \in Models |-> IF m = "model a" THEN a ELSE b]
      None == Shape(0, 0)
      Entry(d, t, c, ms, bs) == [day |-> d, tokens |-> t, cost |-> c, models |-> ms, breakdowns |-> bs]
      Entries == {Entry({2}, {5}, {1}, Shape(5, 0), None), Entry({2}, {3}, {}, None, Shape(1, 2)),
               Entry({3}, {7}, {2}, None, Shape(3, 4)), Entry({1}, {4}, {1}, Shape(0, 4), None),
               Entry({3}, {0}, {0}, None, None), Entry({}, {2}, {}, Shape(2, 0), None),
               Entry({2}, {-6}, {1}, Shape(0, 1), None), Entry({3}, {}, {-2}, None, Shape(2, 0))}
  IN {{}} \cup {{s} : s \in Seqs(Entries, 3)}
ClaudeGiven ==
  LET Extra == Maybe([used : Maybe({-3, 0, 6}), limit : Maybe({0, 9})])
      Full == [session : Shares, week : Shares, sonnet : {{}, {40}}, design : {{}, {40}}, extra : Extra]
      Few  == [session : {{}, {40}}, week : {{}}, sonnet : {{}}, design : {{}}, extra : {{}}]
  IN [live : Maybe(Full), limited : BOOLEAN, log : {{}}, today : {3}]
     \cup [live : Maybe(Few), limited : BOOLEAN, log : Logs, today : {3}]
CodexGiven ==
  LET Two(S, T) == [primary : S, secondary : T]
      None == [primary |-> {}, secondary |-> {}]
      Credits == [balance : Maybe({-7, 300, 2000}), hasNone : BOOLEAN, header : Maybe({50})]
  IN [headers : Two(Shares, Shares), body : Two(Shares, {{}, {40}}), models : {<<>>, <<[primary |-> {40}, secondary |-> {-5}]>>},
      reviews : {{}, {-5}, {40}}, credits : {[balance |-> {}, hasNone |-> FALSE, header |-> {}]}, log : {{}}, today : {3}]
     \cup [headers : {None}, body : {None}, models : {<<>>}, reviews : {{}}, credits : Credits,
           log : Logs, today : {3}]
CursorGiven ==
  LET Rec(limit, percent, spend, left) ==
        [limit : limit, percent : percent, spend : spend, left : left, auto : {{}, {-5}}]
      Usage == {{}} \cup {{u} : u \in Rec(Maybe({0, 10}), {{}, {40}}, Maybe({-1, 4}), Maybe({3, 30}))}
  IN [enabled : BOOLEAN, plan : {"", "unavailable", "pro", "team", "enterprise"}, usage : Usage,
      rest : Use({4}, {0, 9}), grants : {{}, {[used |-> 2, limit |-> 5]}}, stripe : {0},
      demand : Maybe([team : BOOLEAN, left : {2, 30}, limit : {0, 20}])]
     \cup [enabled : {TRUE}, plan : {"pro"}, usage : {{[limit |-> {10}, percent |-> {}, spend |-> {4}, left |-> {}, auto |-> {}]}},
           rest : {{}}, grants : Use({2}, {0, 5}), stripe : {0, 6}, demand : {{}}]

SmallAnswers == [pl \in AllReports |->
  CASE pl = "jetbrains" -> JetbrainsGiven     [] pl = "opencode-go" -> OpencodeGiven
    [] pl = "minimax" -> MinimaxGiven         [] pl = "kimi" -> KimiGiven
    [] pl = "devin" -> DevinGiven             [] pl = "antigravity" -> AntigravityGiven
    [] pl = "copilot" -> CopilotGiven         [] pl = "grok" -> GrokGiven
    [] pl = "perplexity" -> PerplexityGiven   [] pl = "zai" -> ZaiGiven
    [] pl = "synthetic" -> SyntheticGiven     [] pl = "amp" -> AmpGiven
    [] pl = "factory" -> FactoryGiven         [] pl = "kiro" -> KiroGiven
    [] pl = "claude" -> ClaudeGiven           [] pl = "codex" -> CodexGiven
    [] pl = "cursor" -> CursorGiven]
-----------------------------------------------------------------------------
Symmetry == Permutations(Probers)

(* At most two stores hold a session, one of them an odd one.              *)
PlainSession == [at |-> 1, rt |-> 1, age |-> "fresh"]
FewSessions ==
  /\ Cardinality({s \in StoresOf(plugin) : store[s] \notin {Absent, PlainSession}}) <= 1
  /\ Cardinality({s \in StoresOf(plugin) : store[s] # Absent}) <= 2

NoSession == /\ plugin = "kimi" /\ store = [s \in {"file"} |-> Absent] /\ live = [s \in {"file"} |-> 1]
             /\ issued = 1 /\ probe = [p \in Probers |-> Idle] /\ mishap = {}
NoKey     == keyPlugin = "zai" /\ keyHolds = [x \in {"zai", "glm"} |-> 0]
             /\ keyProbe = [p \in KProbers |-> KeyIdle]
NoAnswer  == [hideDaily |-> FALSE, daily |-> {}, weekly |-> {}, balance |-> {}]
NoReport  == reporter = "devin" /\ output = Nothing /\ given = NoAnswer
(* What the idle parts of a behaviour stand on is among what is tried.     *)
ASSUME IdleAssumption ==
  /\ "kimi" \in OPlugins /\ "zai" \in KPlugins
  /\ "devin" \in RPlugins /\ NoAnswer \in Given["devin"]

PluginsInit ==
  \/ part = "session" /\ OAuthInit /\ FewSessions /\ NoKey /\ NoReport
  \/ part = "key" /\ KeyInit /\ NoSession /\ NoReport
  \/ part = "report" /\ ReportInit /\ NoSession /\ NoKey
PluginsNext ==
  /\ UNCHANGED part
  /\ \/ part = "session" /\ OAuthNext /\ UNCHANGED <<keyVars, reportVars>>
     \/ part = "key" /\ KeyNext /\ UNCHANGED <<oauthVars, reportVars>>
     \/ part = "report" /\ Report /\ UNCHANGED <<oauthVars, keyVars>>
PluginsSpec == PluginsInit /\ [][PluginsNext]_<<part, oauthVars, keyVars, reportVars>>

(* Sessions and keys keep their inductive invariants, and the report its   *)
(* type: nothing is shown or served that the runtime should have refused,  *)
(* no negative amount, no quota without a limit.                           *)
PluginsIInv == OAuthIInv /\ KeyIInv /\ ReportTypeOK
=============================================================================
