---------------------------- MODULE UsageReport ----------------------------
(***************************************************************************)
(* What the plugins report from what the provider, or the machine, answers *)
(* (the second half of each plugins/*/plugin.js): which lines, with which  *)
(* numbers, and what the runtime makes of them (ReportLines).  One         *)
(* operator per plugin, from an answer to the report; the answers are      *)
(* records with the fields the plugin reads, and hold also what no sane    *)
(* provider says.                                                          *)
(***************************************************************************)
EXTENDS ReportLines, FiniteSets

CONSTANTS RPlugins,     \* the plugins examined
          Given,        \* bound: the answers a plugin may get
          ChartDays,    \* days a usage chart goes back, 31 in the code
          MonthDays     \* the calendar: lengths of the months of a year

VARIABLES reporter, given, output
reportVars == <<reporter, given, output>>

NoData(label) == Returns(<<Badge(label)>>)
Opt(o, L(_)) == IF o = {} THEN <<>> ELSE <<L(The(o))>>
OrBadge(ls) == IF ls = <<>> THEN <<Badge("Status")>> ELSE ls
-----------------------------------------------------------------------------
(* jetbrains-ai-assistant: the quota files of all IDEs.  A quota is given  *)
(* as a whole or as the sum of its tariff and its top-up.                  *)
SumOf(a, b) == IF a = {} /\ b = {} THEN {} ELSE {OrElse(a, 0) + OrElse(b, 0)}
NormalizeQuota(q) ==
  LET maximum == Else(q.maximum, SumOf(q.tariff.maximum, q.topUp.maximum))
      used    == Else(q.current, SumOf(q.tariff.current, q.topUp.current))
      given2  == Else(q.available, SumOf(q.tariff.available, q.topUp.available))
      left    == IF given2 = {} /\ maximum # {} /\ used # {} THEN {The(maximum) - The(used)}
                 ELSE given2
  IN IF maximum = {} \/ OrElse(maximum, 0) <= 0 \/ used = {} THEN {}
     ELSE {[maximum |-> The(maximum), used |-> Clamp(The(used), 0, The(maximum)),
            remaining |-> {Clamp(n, 0, The(maximum)) : n \in left},
            until |-> Else(q.until, q.next)]}

(* One state is better than another: it lasts longer, or it is used up     *)
(* further, in share and then in amount.                                   *)
Better(a, b) ==
  LET ua == OrElse(a.until, -1)
      ub == OrElse(b.until, -1)
      ra == a.used * b.maximum
      rb == b.used * a.maximum
  IN ua > ub \/ (ua = ub /\ (ra > rb \/ (ra = rb /\ a.used > b.used)))
BetterOf(best, s) == IF Better(s, best) THEN s ELSE best
PickBestState(states) == FoldLeft(BetterOf, Head(states), Tail(states))

JetbrainsStates(g) == Present(Each(g.files, NormalizeQuota))
Jetbrains(g) ==
  LET states == JetbrainsStates(g)
      quota  == PickBestState(states)
  IN IF states = <<>> THEN Throws
     ELSE Returns(<<Percent("Quota", Clamp(Share(quota.used, quota.maximum), 0, 100)),
                    Text("Used", quota.used)>>
                  \o When(quota.remaining # {}, <<Text("Remaining", OrElse(quota.remaining, 0))>>))
-----------------------------------------------------------------------------
(* opencode-go: the costs of the local messages, in a five-hour, a weekly  *)
(* and a monthly window.  Time counts half days, a month's day is anchored *)
(* at the first message; the session window is one half day.               *)
SessionSpan == 1
WeekSpan == 4
Plus(a, n) == a + n
Sum(s) == FoldLeft(Plus, 0, s)
MonthLength(m) == 2 * MonthDays[(m % Len(MonthDays)) + 1]
MonthStart[m \in Nat] == IF m = 0 THEN 0 ELSE MonthStart[m - 1] + MonthLength(m - 1)
MonthOf(t) == CHOOSE m \in 0..t : MonthStart[m] <= t /\ t < MonthStart[m + 1]

StartOfUtcWeek(t) == t - (t % WeekSpan)
(* Mutant: the anchor's day in a shorter month. *)
AnchorMonth_NoClamp(m, anchor) ==

  MonthStart[m] + (anchor - MonthStart[MonthOf(anchor)])
AnchorMonth(m, anchor) ==
  LET into == anchor - MonthStart[MonthOf(anchor)]   \* day and half of the anchor
      last == MonthLength(m) \div 2 - 1
  IN MonthStart[m] + (2 * Clamp(into \div 2, 0, last)) + (into % 2)
AnchoredMonthBounds(now, anchor) ==
  IF anchor = {} THEN <<MonthStart[MonthOf(now)], MonthStart[MonthOf(now) + 1]>>
  ELSE LET m == MonthOf(now)
           f == IF AnchorMonth(m, The(anchor)) > now THEN m - 1 ELSE m
       IN <<AnchorMonth(f, The(anchor)), AnchorMonth(f + 1, The(anchor))>>

Within(rows, from, to) == Among(rows, {r \in ToSet(rows) : r.at >= from /\ r.at < to})
SumRange(rows, from, to) == Sum(Each(Within(rows, from, to), LAMBDA r : r.cost))
Earliest(rows) == IF rows = <<>> THEN {} ELSE {Min({rows[i].at : i \in DOMAIN rows})}
NextRollingReset(rows, now) ==
  OrElse(Earliest(Within(rows, now - SessionSpan, now)), now) + SessionSpan
LoadHistory(rows) == Among(rows, {r \in ToSet(rows) : r.at > 0 /\ r.cost >= 0})

OpencodeGo(g) ==
  LET rows  == LoadHistory(g.rows)
      week  == StartOfUtcWeek(g.now)
      month == AnchoredMonthBounds(g.now, Earliest(rows))
      Used(cost, limit) == Clamp(Share(cost, limit), 0, 100)
  IN IF ~g.auth /\ (~g.dbReads \/ g.rows = <<>>) THEN Throws
     ELSE IF ~g.dbReads \/ ~g.rowsRead THEN NoData("Status")
     ELSE Returns(<<Percent("Session", Used(SumRange(rows, g.now - SessionSpan, g.now), 12)),
                    Percent("Weekly", Used(SumRange(rows, week, week + WeekSpan), 30)),
                    Percent("Monthly", Used(SumRange(rows, month[1], month[2]), 60))>>)
-----------------------------------------------------------------------------
(* minimax: the first plan item with a count to show, else one with a      *)
(* percentage, preferably the general one.  Counts of the CN service are   *)
(* model calls, fifteen to a prompt.                                       *)
Prompts(n, cn) == IF cn THEN (2 * n + 15) \div 30 ELSE n
HasCount(it, cn) == it.total # {} /\ Prompts(OrElse(it.total, 0), cn) > 0
HasPercent(it) == it.percent # {} /\ OrElse(it.percent, 0) \in 0..100
MinimaxChosen(g) ==
  LET items   == ToSet(g.items)
      counted == Among(g.items, {it \in items : HasCount(it, g.cn)})
      shares  == Among(g.items, {it \in items : HasPercent(it)})
      general == Among(g.items, {it \in items : HasPercent(it) /\ it.general})
  IN First(counted \o general \o shares)
(* Mutant: more left than there was shows a negative use. *)
MinimaxUsed_NoClamp(it) ==

  LET left == Else(it.remaining, it.usage)
  IN Else(it.used, {The(it.total) - r : r \in left})
MinimaxUsed(it) ==
  LET left == Else(it.remaining, it.usage)
  IN {Clamp(n, 0, The(it.total)) : n \in Else(it.used, {The(it.total) - r : r \in left})}
Minimax(g) ==
  LET it == MinimaxChosen(g)[1]
  IN IF MinimaxChosen(g) = <<>> THEN Throws
     ELSE IF ~HasCount(it, g.cn) THEN Returns(<<Percent("Session", 100 - The(it.percent))>>)
     ELSE IF MinimaxUsed(it) = {} THEN Throws
     ELSE LET used  == Prompts(The(MinimaxUsed(it)), g.cn)
              limit == Prompts(The(it.total), g.cn)
          IN ReturnsBoth(<<Line("Session", "count", used, limit)>>,
                         <<Metric(<<"requests", "prompt", "used">>, used),
                           Metric(<<"requests", "prompt", "limit">>, limit)>>)
-----------------------------------------------------------------------------
(* kimi: the limit with the shortest known period is the session, the      *)
(* account's usage, or the longest of the other limits, the week, unless   *)
(* it says the same.                                                       *)
ParseQuota(row) ==
  LET used == Else(row.used, {The(row.limit) - r : r \in row.remaining})
  IN IF row.limit = {} \/ OrElse(row.limit, 0) <= 0 \/ used = {} THEN {}
     ELSE {[used |-> The(used), limit |-> The(row.limit), resets |-> row.resets]}
CollectLimitCandidates(limits) ==
  LET all == Each(limits, LAMBDA r : [quota |-> ParseQuota(r), period |-> r.period])
  IN Among(all, {c \in ToSet(all) : c.quota # {}})
PickSession(cs) ==
  LET known == {i \in DOMAIN cs : cs[i].period # {}}
  IN IF known = {} THEN 1
     ELSE Min({i \in known : \A j \in known : The(cs[i].period) <= The(cs[j].period)})
(* Mutant: the shortest period. *)
PickLargestByPeriod_Smallest(cs, among) ==

  Min({i \in among : \A j \in among : OrElse(cs[i].period, -1) <= OrElse(cs[j].period, -1)})
PickLargestByPeriod(cs, among) ==
  Min({i \in among : \A j \in among : OrElse(cs[j].period, -1) <= OrElse(cs[i].period, -1)})
KimiWeekly(usage, cs) ==
  LET rest == DOMAIN cs \ {PickSession(cs)}
  IN IF ParseQuota(usage) # {} \/ rest = {} THEN ParseQuota(usage)
     ELSE cs[PickLargestByPeriod(cs, rest)].quota
Kimi(g) ==
  LET cs      == CollectLimitCandidates(g.limits)
      session == IF cs = <<>> THEN {} ELSE cs[PickSession(cs)].quota
      weekly  == KimiWeekly(g.usage, cs) \ session
      ToPercentUsage(q) == Max({0, Share(q.used, q.limit)})
  IN Returns(OrBadge(Opt(session, LAMBDA q : Percent("Session", ToPercentUsage(q)))
                     \o Opt(weekly, LAMBDA q : Percent("Weekly", ToPercentUsage(q)))))
-----------------------------------------------------------------------------
(* devin: daily and weekly quota; a plan that hides the daily one gives    *)
(* its weekly use in that field.                                           *)
Devin(g) ==
  LET Used(label, n) == Percent(label, Clamp(n, 0, 100))
      daily  == IF g.hideDaily THEN {} ELSE g.daily
      weekly == IF g.weekly # {} THEN {100 - n : n \in g.weekly}
                ELSE IF g.hideDaily THEN g.daily ELSE {}
      lines  == Opt(daily, LAMBDA n : Used("Daily quota", 100 - n))
                \o Opt(weekly, LAMBDA n : Used("Weekly quota", n))
                \o Opt(g.balance, LAMBDA n : Text("Extra usage balance", Max({0, n})))
  IN IF lines = <<>> THEN Throws ELSE Returns(lines)
-----------------------------------------------------------------------------
(* antigravity: every model with a name draws on one of three pools, the   *)
(* scarcest model stands for the pool.  A model without a fraction has     *)
(* nothing left.  The agy buckets go the same way.                         *)
PoolLabel(model) ==
  CASE model = "gemini-pro" -> "Gemini Pro" [] model = "gemini-flash" -> "Gemini Flash"
    [] OTHER -> "Claude"
ParseCloudCodeModels(models) == Among(models, {m \in ToSet(models) : m.named /\ ~m.internal})
LeftInPool(models, pool) ==
  {OrElse(m.fraction, 0) : m \in {x \in ToSet(models) : PoolLabel(x.model) = pool}}
UsedOf(models, pool) ==
  LET left == LeftInPool(models, pool)
  IN IF left = {} THEN {} ELSE {100 - Clamp(Min(left), 0, 100)}
PoolLine(models, pool) == Opt(UsedOf(models, pool), LAMBDA n : Percent(pool, n))
PoolMetric(models, pool) ==
  Opt(UsedOf(models, pool), LAMBDA n : Metric(<<"quota", "model", pool, "utilization">>, n))
BuildModelLines(models) ==
  PoolLine(models, "Gemini Pro") \o PoolLine(models, "Gemini Flash") \o PoolLine(models, "Claude")
BuildModelMetrics(models) ==
  PoolMetric(models, "Gemini Pro") \o PoolMetric(models, "Gemini Flash")
  \o PoolMetric(models, "Claude")
Antigravity(g) ==
  LET models == ParseCloudCodeModels(g.models)
  IN IF models = <<>> THEN Throws
     ELSE ReturnsBoth(BuildModelLines(models), BuildModelMetrics(models))
-----------------------------------------------------------------------------
(* copilot: the paid plan's snapshots and the free plan's limits; both     *)
(* have a chat quota.                                                      *)
Snapshot(label, left) == Opt(left, LAMBDA n : Percent(label, Clamp(100 - n, 0, 100)))
LimitedUse(q) == {Clamp(Share(q.total - n, q.total), 0, 100) : n \in q.left}
Limited(label, q) == When(q.total > 0, Opt(LimitedUse(q), LAMBDA n : Percent(label, n)))
CopilotMetrics(lines) ==
  Each(lines, LAMBDA l : Metric(<<"quota", l.label, "utilization">>, l.used))
Copilot(g) ==
  LET lines == Snapshot("Premium", g.premium) \o Snapshot("Chat", g.chat)
               \o Limited("Chat", g.freeChat) \o Limited("Completions", g.completions)
  IN ReturnsBoth(OrBadge(lines), CopilotMetrics(lines))
-----------------------------------------------------------------------------
Grok(g) ==
  IF g.used = {} \/ g.cap = {} \/ ~g.resets \/ OrElse(g.limit, 0) <= 0 THEN Throws
  ELSE Returns(<<Percent("Credits used", Clamp(Share(The(g.used), The(g.limit)), 0, 100)),
                 Badge("Pay as you go")>>)
-----------------------------------------------------------------------------
(* perplexity: the group that pays, its balance and what its meters cost,  *)
(* and the rate limits.                                                    *)
PickGroupId(direct, groups) ==
  LET ids      == Among(groups, {x \in ToSet(groups) : x.id # {}})
      defaults == Among(groups, {x \in ToSet(groups) : x.id # {} /\ x.isDefault})
  IN IF direct # {} THEN direct
     ELSE IF defaults # <<>> THEN defaults[1].id
     ELSE IF ids # <<>> THEN ids[1].id ELSE {}
SumUsageCostUsd(meters) ==
  LET costs == Present(FlattenSeq(meters))
  IN IF costs # <<>> \/ meters = <<>> \/ <<>> \in ToSet(meters) THEN {Sum(costs)} ELSE {}
BuildRateLimitLines(rates) ==
  Each(Present(rates), LAMBDA n : Text("rate", Max({0, n})))
Perplexity(g) ==
  LET group   == PickGroupId({}, g.groups)
      balance == IF group = {} THEN 0 ELSE OrElse(g.balance, 0)
      used    == IF g.meters = {} THEN {} ELSE SumUsageCostUsd(The(g.meters))
      lines   == When(balance > 0, Opt(used, LAMBDA n :
                        Line("API credits", "dollars", Max({0, n}), balance)))
                 \o BuildRateLimitLines(g.rates)
  IN IF lines = <<>> THEN Throws ELSE Returns(lines)
-----------------------------------------------------------------------------
(* zai: limits by type and unit, an entry without a unit for want of one.  *)
FindLimit(limits, type, unit) ==
  LET typed == {x \in ToSet(limits) : x.type = type}
      exact == Among(limits, {x \in typed : unit = {} \/ x.unit = unit})
      any   == Among(limits, {x \in typed : x.unit = {}})
      found == exact \o any
  IN IF found = <<>> THEN {} ELSE {found[1]}
(* Mutant: reports what was not given as minus one. *)
TokenMetrics_NoGuard(name, x) ==

  <<Metric(<<"tokens", name, "used">>, x.current),
    Metric(<<"tokens", name, "limit">>, OrElse(x.usage, 0))>>
TokenMetrics(name, x) ==
  When(x.current >= 0, <<Metric(<<"tokens", name, "used">>, x.current)>>)
  \o Opt({n \in x.usage : n > 0}, LAMBDA n : Metric(<<"tokens", name, "limit">>, n))
Zai(g) ==
  LET session == FindLimit(g.limits, "TOKENS_LIMIT", {3})
      weekly  == FindLimit(g.limits, "TOKENS_LIMIT", {6})
      time    == FindLimit(g.limits, "TIME_LIMIT", {})
  IN IF session = {} THEN NoData("Session")
     ELSE ReturnsBoth(
            Opt(session, LAMBDA x : Percent("Session", OrElse(x.percent, 0)))
            \o Opt(weekly, LAMBDA x : Percent("Weekly", OrElse(x.percent, 0)))
            \o Opt(time, LAMBDA x : Line("Web Searches", "count", x.current, OrElse(x.usage, 0))),
            TokenMetrics("session", The(session))
            \o (IF weekly = {} THEN <<>> ELSE TokenMetrics("weekly", The(weekly))))
-----------------------------------------------------------------------------
(* synthetic: the version 3 limits or, without them, the legacy ones.  The *)
(* runtime refuses a line without a count as it does a negative one.       *)
Requests(label, o) == Opt(o, LAMBDA q : Line(label, "count", q.used, q.limit))
Requested(o) == {[used |-> OrElse(q.used, -1), limit |-> q.limit] : q \in o}
Synthetic(g) ==
  LET onV3 == g.rolling # {} \/ g.mana # {}
  IN Returns(Opt(g.rolling, LAMBDA q : Line("5h Rate Limit", "count", Max({0, q.limit - q.left}), q.limit))
             \o Opt(g.mana, LAMBDA n : Percent("Mana Bar", Max({0, 100 - n})))
             \o When(g.limited, <<Badge("Rate Limited")>>)
             \o When(~onV3, Requests("Subscription", Requested(g.subscription))
                            \o Requests("Free Tool Calls", {q \in Requested(g.free) : q.limit > 0}))
             \o Requests("Search", Requested(g.search)))
-----------------------------------------------------------------------------
(* amp: the display text names a free balance, a bonus, credits, or none.  *)
ParseBalanceText(g) == IF g.balance = {} /\ g.credits = {} THEN {} ELSE {g}
Amp(g) ==
  LET credits == IF ParseBalanceText(g) = {} THEN {0} ELSE g.credits
  IN IF ParseBalanceText(g) = {} /\ g.ampFree THEN Throws
     ELSE Returns(Opt(g.balance, LAMBDA b : Line("Free", "dollars", Max({0, b.total - b.left}), b.total))
                  \o When(g.balance # {} /\ g.bonus, <<Text("Bonus", 0)>>)
                  \o Opt({n \in credits : n > 0 \/ g.balance = {}}, LAMBDA n : Text("Credits", n)))
-----------------------------------------------------------------------------
(* factory: standard tokens always, premium ones with an allowance.        *)
Factory(g) ==
  Returns(OrBadge(Requests("Standard", g.standard)
                  \o Requests("Premium", {q \in g.premium : q.limit > 0})))
-----------------------------------------------------------------------------
(* kiro: breakdowns with a limit, from the provider, the cached state or   *)
(* the log of the last request, in this order; the credit one is shown.    *)
NormalizePool(qs, allowed) == Among(qs, {q \in ToSet(qs) : q.limit > 0 /\ q.status \in allowed})
NormalizeBreakdown(b) ==
  [b EXCEPT !.trial   = NormalizePool(@, {"none", "ACTIVE"}),
            !.bonuses = NormalizePool(@, {"none", "ACTIVE", "EXHAUSTED"})]
NormalizeApiSnapshot(raw) ==
  Each(Among(raw, {b \in ToSet(raw) : b.limit > 0}), NormalizeBreakdown)
ShouldTryLive(g) == g.cached = {} \/ g.logged = {} \/ ~g.loggedPlan \/ g.cachedIsOld
MergeSnapshots(live, cached, logged) ==
  Else(live \ {<<>>}, Else(cached \ {<<>>}, logged \ {<<>>}))
PickPrimaryBreakdown(bs) == Head(Among(bs, {b \in ToSet(bs) : b.credit}) \o bs)
PickBonusUsage(b) == First(b.trial \o b.bonuses)
Kiro(g) ==
  LET Norm(o) == {NormalizeApiSnapshot(raw) : raw \in o}
      live    == IF ShouldTryLive(g) THEN Norm(g.live) ELSE {}
      source  == MergeSnapshots(live, Norm(g.cached), Norm(g.logged))
      primary == PickPrimaryBreakdown(The(source))
      Show(label, q) == Line(label, "count", q.used, q.limit)
  IN IF source = {} THEN Throws
     ELSE Returns(<<Show("Credits", primary)>>
                  \o Each(PickBonusUsage(primary), LAMBDA q : Show("Bonus Credits", q))
                  \o When(g.overage, <<Badge("Overages")>>))
-----------------------------------------------------------------------------
(* The daily token counts of claude and codex, from the local logs.  A day *)
(* has its date (none if it cannot be read), tokens (none if they are no   *)
(* number), a cost, and tokens by model under either of two names, of      *)
(* which modelTokenCount takes the positive ones only.  A day with a       *)
(* negative count is subtracted from the sum on the card and left out of   *)
(* the sum the API serves.                                                 *)
Models == {"model a", "model b"}
ModelTotal(days, m) == Sum(Each(days, LAMBDA d : d.models[m] + d.breakdowns[m]))
ModelUsage(days, m) == [name |-> m, tokens |-> ModelTotal(days, m)]
CollectModelUsage(days) ==
  LET a == ModelUsage(days, "model a")
      b == ModelUsage(days, "model b")
  IN Among(IF b.tokens > a.tokens THEN <<b, a>> ELSE <<a, b>>, {x \in {a, b} : x.tokens > 0})
Count(d) == OrElse(d.tokens, 0)
ServedCount(d) == Max({0, Count(d)})
TotalTokens(days)  == Sum(Each(days, Count))
ServedTokens(days) == Sum(Each(days, ServedCount))
Costs(days) == Present(Each(days, LAMBDA d : d.cost))
(* Mutant: the card's sum is served, negative days and all. *)
CollectStructuredMetrics_Shown(days) ==
  When(TotalTokens(days) > 0, <<Metric(<<"tokens", "total">>, TotalTokens(days))>>)
  \o When(Costs(days) # <<>>, <<Metric(<<"cost">>, Sum(Costs(days)))>>)
  \o Each(CollectModelUsage(days), LAMBDA m : Metric(<<"tokens", m.name>>, m.tokens))
CollectStructuredMetrics(days) ==
  LET costs == Costs(days)
      total == ServedTokens(days)
  IN When(total > 0, <<Metric(<<"tokens", "total">>, total)>>)
     \o When(costs # <<>>, <<Metric(<<"cost">>, Sum(costs))>>)
     \o Each(CollectModelUsage(days), LAMBDA m : Metric(<<"tokens", m.name>>, m.tokens))
Dated(days) ==
  Among(days, {d \in ToSet(days) : d.day # {} /\ d.tokens # {} /\ Count(d) >= 0})
InsertByDay(sorted, d) ==
  LET upTo == {x \in ToSet(sorted) : The(x.day) <= The(d.day)}
  IN Among(sorted, upTo) \o <<d>> \o Among(sorted, ToSet(sorted) \ upTo)
CollectUsageChartPoints(days) ==
  LET sorted == FoldLeft(InsertByDay, <<>>, Dated(days))
      points == Each(sorted, Count)
  IN SubSeq(points, Max({1, Len(points) - ChartDays + 1}), Len(points))
(* The last entry of a date counts; a day with no tokens is shown too.     *)
TokensOn(days, day) ==
  LET on == Among(days, {d \in ToSet(days) : d.day = {day}})
  IN IF on = <<>> THEN 0 ELSE Max({0, Count(on[Len(on)])})
TokenLines(days, today) ==
  <<Text("Today", TokensOn(days, today)), Text("Yesterday", TokensOn(days, today - 1))>>
  \o When(TotalTokens(days) > 0, <<Text("Last 30 Days", TotalTokens(days))>>)
  \o When(CollectUsageChartPoints(days) # <<>>,
          <<Chart("Usage Trend", CollectUsageChartPoints(days))>>)
  \o Each(CollectModelUsage(days), LAMBDA m :
           Text(m.name, Share(m.tokens, Sum(Each(CollectModelUsage(days), LAMBDA x : x.tokens)))))
FromLog(log, F(_)) == IF log = {} THEN <<>> ELSE F(The(log))
ClaudeTokenLines(log, today) == FromLog(log, LAMBDA days : TokenLines(days, today))
ClaudeMetrics(log)           == FromLog(log, CollectStructuredMetrics)
CodexTokenLines(log, today)  == FromLog(log, LAMBDA days : TokenLines(days, today))
CodexMetrics(log)            == FromLog(log, CollectStructuredMetrics)

(* claude: four windows and the extra usage, unless the provider limits    *)
(* the rate or the token may not ask (live is empty).                      *)
ClaudeExtra(x) ==
  IF x.used # {} /\ OrElse(x.limit, 0) > 0
  THEN <<Line("Extra usage spent", "dollars", The(x.used), The(x.limit))>>
  ELSE Opt({n \in x.used : n > 0}, LAMBDA n : Text("Extra usage spent", n))
Claude(g) ==
  LET Window(label, o) == Opt(o, LAMBDA n : Percent(label, n))
      Live(w) == Window("Session", w.session) \o Window("Weekly", w.week)
                 \o Window("Sonnet", w.sonnet) \o Window("Claude Design", w.design)
                 \o (IF w.extra = {} THEN <<>> ELSE ClaudeExtra(The(w.extra)))
      lines == (IF g.live = {} \/ g.limited THEN <<>> ELSE Live(The(g.live)))
               \o ClaudeTokenLines(g.log, g.today)
  IN ReturnsBoth(IF g.limited THEN <<Badge("Status")>> \o lines \o <<Text("Note", 0)>>
                 ELSE OrBadge(lines),
                 ClaudeMetrics(g.log))

(* codex: the windows of the response's headers or else of its body, those *)
(* of single models, the reviews and the credits of a thousand.            *)
CodexWindows(w) == Opt(w.primary, LAMBDA n : Percent("Session", n))
                   \o Opt(w.secondary, LAMBDA n : Percent("Weekly", n))
CodexModelWindows(w) == Opt(w.primary, LAMBDA n : Percent("Spark", n))
                        \o Opt(w.secondary, LAMBDA n : Percent("Spark Weekly", n))
ReadCreditsRemaining(c) ==
  IF c.balance # {} THEN c.balance ELSE IF c.hasNone THEN {0} ELSE c.header
CreditLimit == 1000
Codex(g) ==
  LET windows == IF CodexWindows(g.headers) # <<>> THEN CodexWindows(g.headers)
                 ELSE CodexWindows(g.body)
      lines == windows \o FlattenSeq(Each(g.models, CodexModelWindows))
               \o Opt(g.reviews, LAMBDA n : Percent("Reviews", n))
               \o Opt(ReadCreditsRemaining(g.credits), LAMBDA n :
                      Line("Credits", "count", Clamp(CreditLimit - n, 0, CreditLimit), CreditLimit))
               \o CodexTokenLines(g.log, g.today)
  IN ReturnsBoth(OrBadge(lines), CodexMetrics(g.log))
-----------------------------------------------------------------------------
(* cursor: accounts that count requests are asked of another service;      *)
(* which one an account is, is read from what the first answer lacks.  The *)
(* API usage goes the way of the auto usage, and a team's bonus is a text. *)
BuildRequestBasedResult(rest) ==
  LET found == {q \in rest : q.limit > 0}
  IN IF found = {} THEN Throws ELSE Returns(Requests("Requests", found))
NoLimit(g)   == g.usage = {} \/ (\E u \in g.usage : u.limit = {})
NoPercent(g) == g.usage = {} \/ (\E u \in g.usage : u.percent = {})
NeedsRequestBasedFallback(g) ==
  g.enabled /\ NoLimit(g) /\ (g.plan \in {"enterprise", "team"}
                              \/ (NoPercent(g) /\ g.plan = "unavailable"))
TriesRequestBased(g) == g.enabled /\ g.usage # {} /\ NoLimit(g) /\ NoPercent(g)
PlanUsed(u) == IF u.spend # {} THEN The(u.spend) ELSE The(u.limit) - OrElse(u.left, 0)
CursorCredits(g) ==
  LET grant == {q \in g.grants : q.limit > 0}
      total == OrElse({q.limit : q \in grant}, 0) + g.stripe
  IN When(total > 0, <<Line("Credits", "dollars",
                            IF grant = {} THEN 0 ELSE The(grant).used, total)>>)
IsTeam(g) == g.plan = "team" \/ (\E d \in g.demand : d.team)
CursorPlanLines(g, u) ==
  CursorCredits(g)
  \o (IF IsTeam(g) THEN <<Line("Total usage", "dollars", PlanUsed(u), The(u.limit))>>
      ELSE <<Percent("Total usage", IF u.percent # {} THEN The(u.percent)
                                    ELSE IF The(u.limit) > 0 THEN Share(PlanUsed(u), The(u.limit)) ELSE 0)>>)
  \o Opt(u.auto, LAMBDA n : Percent("Auto usage", n))
  \o Opt({d \in g.demand : d.limit > 0}, LAMBDA d :
         Line("On-demand", "dollars", d.limit - d.left, d.limit))
Cursor(g) ==
  LET rest == BuildRequestBasedResult(g.rest) IN
  IF NeedsRequestBasedFallback(g) \/ (TriesRequestBased(g) /\ ~rest.thrown) THEN rest
  ELSE IF ~g.enabled \/ g.usage = {} \/ (NoLimit(g) /\ NoPercent(g)) THEN Throws
  ELSE IF IsTeam(g) /\ NoLimit(g) THEN rest
  ELSE Returns(CursorPlanLines(g, The(g.usage)))
-----------------------------------------------------------------------------
(* What a provider, or the machine, may answer, per plugin: the amounts    *)
(* are any numbers (the counts by model are what modelTokenCount makes of  *)
(* them), and the clock of the machine is past the calendar's first month. *)
Amount == Optional(Int)
Pair == [used : Int, limit : Int]
Day == [day : Amount, tokens : Amount, cost : Amount,
        models : [Models -> Nat], breakdowns : [Models -> Nat]]
Log == Optional(Seq(Day))
MayAnswer(pl) ==
  LET Part == [maximum : Amount, current : Amount, available : Amount]
      Bounded == [left : Int, limit : Int]
      Bucket == [used : Amount, limit : Int]
      Free == [left : Amount, total : Int]
      Windows == [primary : Amount, secondary : Amount]
      Row == [limit : Amount, used : Amount, remaining : Amount, resets : Int]
      Pool == [used : Int, limit : Int, status : STRING]
      State == Optional(Seq([credit : BOOLEAN, used : Int, limit : Int,
                             trial : Seq(Pool), bonuses : Seq(Pool)]))
  IN CASE pl = "jetbrains" ->
            [files : Seq([maximum : Amount, current : Amount, available : Amount,
                          tariff : Part, topUp : Part, until : Optional(Nat), next : Optional(Nat)])]
       [] pl = "opencode-go" ->
            [auth : BOOLEAN, dbReads : BOOLEAN, rowsRead : BOOLEAN, rows : Seq([at : Int, cost : Int]),
             now : {t \in Nat : t >= MonthLength(0)}]
       [] pl = "minimax" ->
            [cn : BOOLEAN,
             items : Seq([total : Amount, percent : Amount, general : BOOLEAN, used : Amount,
                          remaining : Amount, usage : Amount])]
       [] pl = "kimi" ->
            [limits : Seq([limit : Amount, used : Amount, remaining : Amount, resets : Int,
                           period : Optional(Nat)]),
             usage : Row]
       [] pl = "devin" ->
            [hideDaily : BOOLEAN, daily : Amount, weekly : Amount, balance : Amount]
       [] pl = "antigravity" ->
            [models : Seq([model : STRING, fraction : Amount, named : BOOLEAN, internal : BOOLEAN])]
       [] pl = "copilot" ->
            [premium : Amount, chat : Amount, freeChat : Free, completions : Free]
       [] pl = "grok" -> [used : Amount, limit : Amount, cap : Amount, resets : BOOLEAN]
       [] pl = "perplexity" ->
            [groups : Seq([id : Amount, isDefault : BOOLEAN]), balance : Amount,
             meters : Optional(Seq(Seq(Amount))), rates : Seq(Amount)]
       [] pl = "zai" ->
            [limits : Seq([type : STRING, unit : Amount, percent : Amount, current : Int,
                           usage : Amount])]
       [] pl = "synthetic" ->
            [rolling : Optional(Bounded), mana : Amount, limited : BOOLEAN,
             subscription : Optional(Bucket), free : Optional(Bucket), search : Optional(Bucket)]
       [] pl = "amp" ->
            [balance : Optional([left : Int, total : Int]), bonus : BOOLEAN, credits : Amount,
             ampFree : BOOLEAN]
       [] pl = "factory" -> [standard : Optional(Pair), premium : Optional(Pair)]
       [] pl = "kiro" ->
            [live : State, cached : State, logged : State, loggedPlan : BOOLEAN,
             cachedIsOld : BOOLEAN, overage : BOOLEAN]
       [] pl = "claude" ->
            [live : Optional([session : Amount, week : Amount, sonnet : Amount, design : Amount,
                              extra : Optional([used : Amount, limit : Amount])]),
             limited : BOOLEAN, log : Log, today : Int]
       [] pl = "codex" ->
            [headers : Windows, body : Windows, models : Seq(Windows), reviews : Amount,
             credits : [balance : Amount, hasNone : BOOLEAN, header : Amount],
             log : Log, today : Int]
       [] pl = "cursor" ->
            [enabled : BOOLEAN, plan : STRING,
             usage : Optional([limit : Amount, percent : Amount, spend : Amount, left : Amount,
                               auto : Amount]),
             rest : Optional(Pair), grants : Optional(Pair), stripe : Int,
             demand : Optional([team : BOOLEAN, left : Int, limit : Int])]
Reporters == {"jetbrains", "opencode-go", "minimax", "kimi", "devin", "antigravity", "copilot",
              "grok", "perplexity", "zai", "synthetic", "amp", "factory", "kiro", "claude", "codex",
              "cursor"}
ASSUME ReportAssumption ==
  /\ RPlugins \subseteq Reporters
  /\ \A pl \in RPlugins : Given[pl] \subseteq MayAnswer(pl)
  /\ MaxBarChartPoints \in Nat /\ ChartDays \in 1..MaxBarChartPoints
  /\ MonthDays \in Seq(Nat \ {0}) /\ MonthDays # <<>>

Reported(pl, g) ==
  CASE pl = "jetbrains" -> Jetbrains(g)       [] pl = "opencode-go" -> OpencodeGo(g)
    [] pl = "minimax" -> Minimax(g)           [] pl = "kimi" -> Kimi(g)
    [] pl = "devin" -> Devin(g)               [] pl = "antigravity" -> Antigravity(g)
    [] pl = "copilot" -> Copilot(g)           [] pl = "grok" -> Grok(g)
    [] pl = "perplexity" -> Perplexity(g)     [] pl = "zai" -> Zai(g)
    [] pl = "synthetic" -> Synthetic(g)       [] pl = "amp" -> Amp(g)
    [] pl = "factory" -> Factory(g)           [] pl = "kiro" -> Kiro(g)
    [] pl = "claude" -> Claude(g)             [] pl = "codex" -> Codex(g)
    [] pl = "cursor" -> Cursor(g)

Nothing == [lines |-> <<>>, metrics |-> <<>>]
ReportInit == reporter \in RPlugins /\ given \in Given[reporter] /\ output = Nothing
(* The probe returns, and the runtime reads what it returned.              *)
Report ==
  /\ output = Nothing
  /\ output' = Output(Reported(reporter, given))
  /\ UNCHANGED <<reporter, given>>
ReportSpec == ReportInit /\ [][Report]_reportVars
-----------------------------------------------------------------------------
Done == output # Nothing
Result == Reported(reporter, given)
Shown(label) == {l \in ToSet(output.lines) : l.label = label}

ReportTypeOK ==
  /\ reporter \in RPlugins
  /\ output \in [lines : Seq(LineType), metrics : Seq(MetricType)]
  /\ \A l \in ToSet(output.lines) : Quota(l) => l.used \in Nat /\ l.limit \in Nat \ {0}
  /\ \A m \in ToSet(output.metrics) : m.value \in Nat

(* Answers no provider that works gives: a negative amount, a limit of     *)
(* nothing, more left than there was, or no usage in the answer at all.    *)
NotNegative(o) == \A n \in o : n >= 0
Positive(o) == \A q \in o : q.used >= 0 /\ q.limit > 0
UsedSome(qs) == \A q \in qs : q.used >= 0
Sane(pl, g) ==
  CASE pl = "zai"       -> \A x \in ToSet(g.limits) :
                             /\ NotNegative(x.percent) /\ x.current >= 0
                             /\ x.type = "TIME_LIMIT" => OrElse(x.usage, 0) > 0
    [] pl = "synthetic" -> /\ Positive(Requested(g.subscription)) /\ Positive(Requested(g.search))
                           /\ UsedSome(Requested(g.free))
                           /\ \A q \in g.rolling : q.limit > 0
                           /\ Synthetic(g).lines # <<>>
    [] pl = "amp"       -> \A b \in g.balance : b.total > 0
    [] pl = "factory"   -> Positive(g.standard) /\ UsedSome(g.premium)
    [] pl = "kiro"      -> \A raw \in g.live \cup g.cached \cup g.logged : \A b \in ToSet(raw) :
                             b.used >= 0 /\ UsedSome(ToSet(b.trial) \cup ToSet(b.bonuses))
    [] pl = "claude"    -> \A w \in g.live :
                             /\ NotNegative(w.session \cup w.week \cup w.sonnet \cup w.design)
                             /\ \A x \in w.extra : NotNegative(x.used)
    [] pl = "codex"     -> /\ NotNegative(g.headers.primary \cup g.headers.secondary)
                           /\ NotNegative(g.body.primary \cup g.body.secondary \cup g.reviews)
                           /\ \A w \in ToSet(g.models) : NotNegative(w.primary \cup w.secondary)
    [] pl = "cursor"    -> /\ \A u \in g.usage :
                                /\ NotNegative(u.percent \cup u.spend \cup u.auto)
                                /\ \A n \in u.limit : n > 0 /\ OrElse(u.left, 0) <= n
                           /\ \A d \in g.demand : d.limit > 0 => d.left <= d.limit
                           /\ UsedSome(g.rest \cup g.grants)
    [] OTHER            -> TRUE

(* No number a plugin shows is one the runtime refuses: whatever the       *)
(* answer was, the plugins that clamp and guard it show no error badge in  *)
(* its place, and the others do so only when the answer makes no sense.    *)
NoRefusedLine == (Done /\ ~Result.thrown /\ Sane(reporter, given)) => Shown("Error") = {}

(* Where several answers compete for one line, the one that matters most   *)
(* is shown: of the IDEs the quota that lasts longest, and then the one    *)
(* used furthest; of kimi's limits the shortest period as the session and  *)
(* the longest of the others as the week; of a pool's models the scarcest; *)
(* a count before a percentage; zai's five-hour limit before any other.    *)
ShownIsBest ==
  (Done /\ ~Result.thrown) =>
    CASE reporter = "jetbrains" ->
           LET S == ToSet(JetbrainsStates(given)) IN
           \E a \in S : /\ Shown("Used") = {Text("Used", a.used)}
                        /\ \A b \in S : /\ OrElse(b.until, -1) <= OrElse(a.until, -1)
                                        /\ b.until = a.until =>
                                             b.used * a.maximum <= a.used * b.maximum
      [] reporter = "kimi" ->
           LET cs == CollectLimitCandidates(given.limits)
               Shorter(i, j) == cs[j].period # {} =>
                                  cs[i].period # {} /\ The(cs[i].period) <= The(cs[j].period)
               Period(i) == OrElse(cs[i].period, -1)
               IsLine(label, i) ==
                 Shown(label) = {Percent(label, Max({0, Share(The(cs[i].quota).used, The(cs[i].quota).limit)}))}
           IN cs # <<>> =>
                \E i \in DOMAIN cs :
                  /\ IsLine("Session", i) /\ \A j \in DOMAIN cs : Shorter(i, j)
                  /\ (ParseQuota(given.usage) = {} /\ Len(cs) > 1) =>
                       \E j \in DOMAIN cs \ {i} :
                         /\ cs[j].quota = cs[i].quota \/ IsLine("Weekly", j)
                         /\ \A k \in DOMAIN cs \ {i, j} : Period(k) <= Period(j)
      [] reporter = "antigravity" ->
           \A m \in ToSet(ParseCloudCodeModels(given.models)) :
             \E l \in Shown(PoolLabel(m.model)) : l.used >= 100 - Clamp(OrElse(m.fraction, 0), 0, 100)
      [] reporter = "minimax" ->
           (\E it \in ToSet(given.items) : HasCount(it, given.cn)) =>
             \A l \in Shown("Session") : l.kind = "count"
      [] reporter = "zai" ->
           LET T == {x \in ToSet(given.limits) : x.type = "TOKENS_LIMIT" /\ x.unit = {3}}
           IN T # {} => \E x \in T : Shown("Session")
                                       \subseteq {Percent("Session", OrElse(x.percent, 0)), ErrorLine}
      [] OTHER -> TRUE

(* The windows of opencode-go: the month that is shown contains the        *)
(* present and the next one starts where it ends, for every day the first  *)
(* message can have been on and every length of month; and the session is  *)
(* reset within its length from now.                                       *)
WindowsHold ==
  (Done /\ reporter = "opencode-go") =>
    LET rows   == LoadHistory(given.rows)
        now    == given.now
        anchor == Earliest(rows)
        month  == AnchoredMonthBounds(now, anchor)
        reset  == NextRollingReset(rows, now)
    IN /\ month[1] <= now /\ now < month[2]
       /\ AnchoredMonthBounds(month[2], anchor)[1] = month[2]
       /\ reset > now - 1 /\ reset <= now + SessionSpan

(* The metrics a client of the API reads are complete: all the plugin gave *)
(* are there, as one refused metric would drop all of them, every quota on *)
(* a card has its metrics, and no key comes twice; copilot's two chat      *)
(* quotas share one, when an account has both.  One metric can be refused: *)
(* nothing keeps claude and codex from serving a negative cost when the    *)
(* costs of the days in the log add up to less than nothing.               *)
NegativeCost(days) == Sum(Costs(days)) < 0
CostIsRefused == reporter \in {"claude", "codex"} /\ \E days \in given.log : NegativeCost(days)
MetricsComplete ==
  Done =>
    /\ ~CostIsRefused => ToSet(Result.metrics) \subseteq ToSet(output.metrics)
    /\ \A l \in ToSet(output.lines) : KeysOf(QuotaMetrics(l)) \subseteq KeysOf(output.metrics)
    /\ Cardinality(KeysOf(output.metrics)) = Len(output.metrics)
       \/ (reporter = "copilot" /\ given.chat # {} /\ given.freeChat.left # {})

(* The token counts of one card agree.  The API serves no less than the    *)
(* thirty days' line shows, and the same unless some day's count is        *)
(* negative; the chart shows no more than the API serves, nor, without     *)
(* negative days, than the line, and all of it when the days that count    *)
(* have dates and fit; each model has one line, one metric and the count   *)
(* all days give it under either name.  A log with a refused cost has no   *)
(* metrics of its own at all.                                              *)
TotalsAgree ==
  (Done /\ reporter \in {"claude", "codex"}) =>
    \A days \in given.log :
      LET shown  == {l.used : l \in Shown("Last 30 Days")}
          served == {m.value : m \in {x \in ToSet(output.metrics) : x.key = <<"tokens", "total">>}}
          chart  == {Sum(l.points) : l \in Shown("Usage Trend")}
          plain  == \A d \in ToSet(days) : Count(d) >= 0
          fits   == (\A d \in ToSet(days) : Count(d) > 0 => d.day # {}) /\ Len(days) <= ChartDays
          said   == {l.label : l \in {x \in ToSet(output.lines) : x.label \in Models}}
          named  == {m \in ToSet(output.metrics) : Len(m.key) = 2 /\ m.key[2] \in Models}
      IN /\ \A c \in chart, t \in served \cup {n \in shown : plain} : c <= t /\ (fits => c = t)
         /\ IF NegativeCost(days) THEN served = {} /\ named = {}
            ELSE /\ \A n \in shown : \E t \in served : n <= t
                 /\ plain => shown = served
                 /\ said = {m.key[2] : m \in named}
                 /\ \A x \in Models :
                      {m.value : m \in {y \in named : y.key[2] = x}}
                      = {Sum(Each(days, LAMBDA d : d.models[x] + d.breakdowns[x]))} \ {0}
=============================================================================
