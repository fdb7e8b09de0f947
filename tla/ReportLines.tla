---------------------------- MODULE ReportLines ----------------------------
(***************************************************************************)
(* What the runtime makes of the report a plugin returns                   *)
(* (plugin_engine/runtime.rs): the lines it refuses become error badges,   *)
(* one wrong metric drops all of them, and each quota line gets its        *)
(* metrics.  Operators only; UsageReport has the plugins.                  *)
(*                                                                         *)
(* Amounts are integers and percentages whole.  A value the provider may   *)
(* leave out is a set: {n} or the empty set.                               *)
(***************************************************************************)
EXTENDS Integers, Lookup

Optional(S) == {o \in SUBSET S : \A a, b \in o : a = b}
The(o) == CHOOSE n \in o : TRUE
OrElse(o, d) == IF o = {} THEN d ELSE The(o)
Else(a, b) == IF a # {} THEN a ELSE b
Clamp(n, lo, hi) == IF n < lo THEN lo ELSE IF n > hi THEN hi ELSE n
Share(part, whole) == (100 * part) \div whole
When(c, ls) == IF c THEN ls ELSE <<>>
Each(s, F(_)) == [i \in DOMAIN s |-> F(s[i])]
Present(s) == Each(Among(s, ToSet(s) \ {{}}), The)   \* of optional values

(* The line builders of the host API (host_api.rs).  A text shows a number *)
(* the properties compare; a bar chart has points.                         *)
Line(label, kind, used, limit) ==
  [label |-> label, kind |-> kind, used |-> used, limit |-> limit, points |-> <<>>]
Percent(label, used) == Line(label, "percent", used, 100)
Text(label, n)       == Line(label, "text", n, 1)
Badge(label)         == Line(label, "badge", 0, 1)
Chart(label, points) == [Line(label, "chart", 0, 1) EXCEPT !.points = points]
Kinds == {"percent", "count", "dollars", "text", "badge", "chart"}
(* The labels of the lines, the runtime's own among them.                  *)
Labels == {"Quota", "Used", "Remaining", "Status", "Session", "Weekly", "Monthly", "Daily quota",
           "Weekly quota", "Extra usage balance", "Gemini Pro", "Gemini Flash", "Claude", "Premium",
           "Chat", "Completions", "Credits used", "Pay as you go", "rate", "API credits",
           "Web Searches", "5h Rate Limit", "Mana Bar", "Rate Limited", "Subscription",
           "Free Tool Calls", "Search", "Free", "Bonus", "Credits", "Standard", "Bonus Credits",
           "Overages", "Today", "Yesterday", "Last 30 Days", "Usage Trend", "Extra usage spent",
           "Sonnet", "Claude Design", "Note", "Spark", "Spark Weekly", "Reviews", "Requests",
           "Total usage", "Auto usage", "On-demand", "model a", "model b", "Error"}
LineType == [label : Labels, kind : Kinds, used : Int, limit : Int, points : Seq(Int)]
Quota(l) == l.kind \in {"percent", "count", "dollars"}
ErrorLine == Badge("Error")

(* A metric; key is a tuple, its last part says which value it is.         *)
Metric(key, value) == [key |-> key, value |-> value]
KeyParts == Labels \cup {"quota", "model", "utilization", "used", "limit", "requests", "prompt",
                         "tokens", "session", "weekly", "total", "cost"}
MetricType == [key : Seq(KeyParts), value : Int]

(* What a plugin's probe gives back: lines and metrics, or it throws.      *)
Returns(lines) == [thrown |-> FALSE, lines |-> lines, metrics |-> <<>>]
ReturnsBoth(lines, metrics) == [thrown |-> FALSE, lines |-> lines, metrics |-> metrics]
Throws == [thrown |-> TRUE, lines |-> <<>>, metrics |-> <<>>]

CONSTANT MaxBarChartPoints   \* 366 in the code

ParseBarChartLine(l) ==
  LET seen == SubSeq(l.points, 1, Clamp(Len(l.points), 0, MaxBarChartPoints))
      good == Among(seen, Nat)
  IN [i \in 1..(Len(seen) - Len(good)) |-> ErrorLine]
     \o (IF good = <<>> THEN <<ErrorLine>> ELSE <<[l EXCEPT !.points = good]>>)

(* Mutant: takes every line as it is. *)
ParseLine_Trusts(l) == <<l>>

ParseLine(l) ==
  IF l.kind = "chart" THEN ParseBarChartLine(l)
  ELSE IF Quota(l) /\ (l.used < 0 \/ l.limit <= 0 \/ (l.kind = "percent" /\ l.limit # 100))
       THEN <<ErrorLine>> ELSE <<l>>

ParseLines(ls) == IF ls = <<>> THEN <<ErrorLine>> ELSE FlattenSeq(Each(ls, ParseLine))

ParseMetrics(ms) == IF \A i \in DOMAIN ms : ms[i].value >= 0 THEN ms ELSE <<>>

(* The metrics of a quota line, unless the plugin gave them itself.        *)
QuotaMetrics(l) ==
  IF ~Quota(l) THEN <<>>
  ELSE IF l.kind = "percent"
       THEN <<Metric(<<"quota", l.label, "utilization">>, Clamp(Share(l.used, l.limit), 0, 100))>>
       ELSE <<Metric(<<"quota", l.label, "used">>, l.used),
              Metric(<<"quota", l.label, "limit">>, l.limit)>>
KeysOf(ms) == {ms[i].key : i \in DOMAIN ms}
WithQuotaMetrics(ms, l) ==
  ms \o Among(QuotaMetrics(l), {m \in ToSet(QuotaMetrics(l)) : m.key \notin KeysOf(ms)})
AppendDerivedQuotaMetrics(lines, metrics) == FoldLeft(WithQuotaMetrics, metrics, lines)

(* run_probe: the output of a probe that ended with r.                     *)
Output(r) ==
  IF r.thrown THEN [lines |-> <<ErrorLine>>, metrics |-> <<>>]
  ELSE [lines   |-> ParseLines(r.lines),
        metrics |-> AppendDerivedQuotaMetrics(ParseLines(r.lines), ParseMetrics(r.metrics))]
=============================================================================
