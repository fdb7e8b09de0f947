---------------------------- MODULE ReportProofs ----------------------------
(***************************************************************************)
(* Proofs about what the plugins report and what the runtime makes of it,  *)
(* for any answers, any calendar and any limits on charts.                 *)
(***************************************************************************)
EXTENDS MCPlugins, OAuthProofs, KeyProofs

(***************************************************************************)
(* Numbers and optional values.                                            *)
(***************************************************************************)
LEMMA OptionalFacts ==
  ASSUME NEW S, NEW o \in Optional(S)
  PROVE  o \subseteq S /\ (o # {} => The(o) \in o /\ The(o) \in S /\ o = {The(o)})
BY DEF Optional, The

LEMMA OptionalOne ==
  ASSUME NEW S, NEW x \in S
  PROVE  {x} \in Optional(S) /\ {} \in Optional(S) /\ The({x}) = x
BY DEF Optional, The

LEMMA ClampFacts ==
  ASSUME NEW n \in Int, NEW lo \in Int, NEW hi \in Int, lo <= hi
  PROVE  Clamp(n, lo, hi) \in lo .. hi /\ (n \in lo .. hi => Clamp(n, lo, hi) = n)
BY DEF Clamp

LEMMA ClampPercent ==
  ASSUME NEW n \in Int
  PROVE  /\ Clamp(n, 0, 100) \in 0 .. 100 /\ Clamp(n, 0, 100) \in Nat
         /\ Clamp(n, 0, 100) \in Int /\ Clamp(n, 0, 100) >= 0
BY DEF Clamp

LEMMA MaxOfTwo ==
  ASSUME NEW n \in Int, NEW m \in Int
  PROVE  Max({m, n}) = IF n < m THEN m ELSE n
<1>1. \A x \in {m, n} : (\A y \in {m, n} : x >= y) => x = IF n < m THEN m ELSE n
  OBVIOUS
<1>2. \E x \in {m, n} : \A y \in {m, n} : x >= y
  OBVIOUS
<1> QED BY <1>1, <1>2 DEF Max

LEMMA ShareFacts ==
  ASSUME NEW share \in Int, NEW whole \in Int, whole > 0
  PROVE  Share(share, whole) \in Int /\ (share >= 0 => Share(share, whole) >= 0)
BY DEF Share

(***************************************************************************)
(* Lines.  A fine line is one the runtime shows as it is.                  *)
(***************************************************************************)
Fine(l) ==
  /\ l.label # "Error"
  /\ Quota(l) => l.used >= 0 /\ l.limit > 0 /\ (l.kind = "percent" => l.limit = 100)
  /\ l.kind = "chart" => /\ l.points # <<>> /\ Len(l.points) <= MaxBarChartPoints
                         /\ ToSet(l.points) \subseteq Nat
Fit(sane) == {l \in LineType : sane => Fine(l)}
Accepted == {l \in LineType : Quota(l) => l.used \in Nat /\ l.limit \in Nat \ {0}}

(* The labels of the plugins' lines. *)
Plain == Labels \ {"Error"}

LEMMA PlainLabels ==
  /\ "Quota" \in Plain /\ "Used" \in Plain /\ "Remaining" \in Plain /\ "Status" \in Plain
  /\ "Session" \in Plain /\ "Weekly" \in Plain /\ "Monthly" \in Plain
  /\ "Daily quota" \in Plain /\ "Weekly quota" \in Plain /\ "Extra usage balance" \in Plain
  /\ "Gemini Pro" \in Plain /\ "Gemini Flash" \in Plain /\ "Claude" \in Plain
  /\ "Premium" \in Plain /\ "Chat" \in Plain /\ "Completions" \in Plain
  /\ "Credits used" \in Plain /\ "Pay as you go" \in Plain /\ "rate" \in Plain
  /\ "API credits" \in Plain /\ "Web Searches" \in Plain /\ "5h Rate Limit" \in Plain
  /\ "Mana Bar" \in Plain /\ "Rate Limited" \in Plain /\ "Subscription" \in Plain
  /\ "Free Tool Calls" \in Plain /\ "Search" \in Plain /\ "Free" \in Plain /\ "Bonus" \in Plain
  /\ "Credits" \in Plain /\ "Standard" \in Plain /\ "Bonus Credits" \in Plain
  /\ "Overages" \in Plain /\ "Today" \in Plain /\ "Yesterday" \in Plain
  /\ "Last 30 Days" \in Plain /\ "Usage Trend" \in Plain /\ "Extra usage spent" \in Plain
  /\ "Sonnet" \in Plain /\ "Claude Design" \in Plain /\ "Note" \in Plain /\ "Spark" \in Plain
  /\ "Spark Weekly" \in Plain /\ "Reviews" \in Plain /\ "Requests" \in Plain
  /\ "Total usage" \in Plain /\ "Auto usage" \in Plain /\ "On-demand" \in Plain
  /\ "model a" \in Plain /\ "model b" \in Plain
BY DEF Plain, Labels

LEMMA LineFit ==
  ASSUME NEW sane \in BOOLEAN, NEW label \in Plain,
         NEW kind \in {"count", "dollars"}, NEW used \in Int, NEW limit \in Int,
         sane => used >= 0 /\ limit > 0
  PROVE  Line(label, kind, used, limit) \in Fit(sane)
BY EmptySeq DEF Plain, Line, Fit, LineType, Kinds, Fine, Quota

LEMMA PercentFit ==
  ASSUME NEW sane \in BOOLEAN, NEW label \in Plain, NEW used \in Int,
         sane => used >= 0
  PROVE  Percent(label, used) \in Fit(sane)
BY EmptySeq DEF Plain, Percent, Line, Fit, LineType, Kinds, Fine, Quota

LEMMA TextFit ==
  ASSUME NEW sane \in BOOLEAN, NEW label \in Plain, NEW n \in Int
  PROVE  Text(label, n) \in Fit(sane)
BY EmptySeq DEF Plain, Text, Line, Fit, LineType, Kinds, Fine, Quota

LEMMA BadgeFit ==
  ASSUME NEW sane \in BOOLEAN, NEW label \in Plain
  PROVE  Badge(label) \in Fit(sane)
BY EmptySeq DEF Plain, Badge, Line, Fit, LineType, Kinds, Fine, Quota

LEMMA ErrorAccepted == ErrorLine \in Accepted
<1>1. "Error" \in Labels
  BY DEF Labels
<1>2. ErrorLine = Line("Error", "badge", 0, 1)
  BY DEF ErrorLine, Badge
<1> QED BY <1>1, <1>2, EmptySeq DEF Line, Accepted, LineType, Kinds, Quota

LEMMA ErrorParsed == <<ErrorLine>> \in Seq(Accepted) /\ ToSet(<<ErrorLine>>) = {ErrorLine}
BY ErrorAccepted, SingletonFacts

(***************************************************************************)
(* How a line is read: a fine one stays, another becomes an error badge,   *)
(* and a chart loses what is no number.                                    *)
(***************************************************************************)
LEMMA ChartParsed ==
  ASSUME NEW l \in LineType, l.kind = "chart"
  PROVE  /\ ParseBarChartLine(l) \in Seq(Accepted)
         /\ \A x \in ToSet(ParseBarChartLine(l)) : x = ErrorLine \/ x = [l EXCEPT !.points = x.points]
         /\ Fine(l) => ParseBarChartLine(l) = <<l>>
<1> DEFINE N == Clamp(Len(l.points), 0, MaxBarChartPoints)
           seen == SubSeq(l.points, 1, N)
           good == Among(seen, Nat)
           new == [l EXCEPT !.points = good]
           bad == [i \in 1 .. (Len(seen) - Len(good)) |-> ErrorLine]
           kept == IF good = <<>> THEN <<ErrorLine>> ELSE <<new>>
           Either == {x \in Accepted : x = ErrorLine \/ x = new}
<1>1. l.points \in Seq(Int) /\ Len(l.points) \in Nat /\ MaxBarChartPoints \in Nat
  BY LenProperties, ReportAssumption DEF LineType
<1>2. N \in Nat /\ N <= Len(l.points)
  BY <1>1 DEF Clamp
<1>3. \A i \in 1 .. N : l.points[i] \in Int
  BY <1>1, <1>2, ElementOfSeq
<1>4. seen \in Seq(Int) /\ Len(seen) \in Nat
  <2> HIDE DEF N
  <2> QED BY <1>2, <1>3, SubSeqProperties, LenProperties
<1>5. good \in Seq(Int) /\ Len(good) \in Nat
  <2> HIDE DEF seen
  <2> QED BY <1>4, AmongFacts, LenProperties
<1>6. ParseBarChartLine(l) = bad \o kept
  BY DEF ParseBarChartLine
<1> HIDE DEF good, seen
<1>7. new \in Either
  BY <1>5 DEF Accepted, LineType, Quota
<1>8. kept \in Seq(Either) /\ ErrorLine \in Either
  <2> HIDE DEF Either
  <2>1. ErrorLine \in Either
    BY ErrorAccepted DEF Either
  <2> HIDE DEF new
  <2>2. <<ErrorLine>> \in Seq(Either) /\ <<new>> \in Seq(Either)
    BY <1>7, <2>1, SingletonFacts
  <2> QED BY <2>1, <2>2
<1>9. bad \in Seq(Either)
  <2> DEFINE n == Len(seen) - Len(good)
  <2>1. CASE n \in Nat
    BY <1>8, <2>1, IsASeq
  <2>2. CASE ~(n \in Nat)
    <3>1. 1 .. n = {} /\ 1 .. 0 = {}
      BY <1>4, <1>5, <2>2
    <3>2. bad = [i \in 1 .. 0 |-> ErrorLine]
      BY <3>1
    <3> QED BY <1>8, <3>2, IsASeq
  <2> QED BY <2>1, <2>2
<1>10. bad \o kept \in Seq(Either)
  <2> HIDE DEF bad, kept, Either
  <2> QED BY <1>8, <1>9, ConcatFacts
<1>11. bad \o kept \in Seq(Accepted) /\ \A x \in ToSet(bad \o kept) : x \in Either
  <2> DEFINE c == bad \o kept
  <2>1. Either \subseteq Accepted
    OBVIOUS
  <2> HIDE DEF bad, kept, Either
  <2>2. ToSet(c) \subseteq Either
    BY <1>10, SetOfSeq
  <2> QED BY <1>10, <2>1, <2>2, SeqMonotonic
<1>12. \A x \in Either : x = ErrorLine \/ x = [l EXCEPT !.points = x.points]
  BY DEF LineType
<1>13. ASSUME Fine(l) PROVE bad \o kept = <<l>>
  <2>1. N = Len(l.points)
    BY <1>1, <1>13 DEF Clamp, Fine
  <2>2. seen = l.points
    BY <1>1, <2>1, SubSeqFull DEF seen
  <2>3. good = l.points
    BY <1>1, <1>13, <2>2, AmongAll DEF good, Fine
  <2>4. new = l
    BY <2>3 DEF LineType
  <2>5. bad = <<>>
    <3>1. DOMAIN bad = {}
      BY <1>4, <2>2, <2>3
    <3> HIDE DEF bad, Either
    <3> QED BY <1>9, <3>1, EmptyDomain
  <2>6. kept = <<l>>
    BY <1>13, <2>3, <2>4 DEF Fine
  <2> HIDE DEF bad, kept
  <2>7. <<l>> \in Seq(LineType)
    BY SingletonFacts
  <2> QED BY <2>5, <2>6, <2>7, ConcatEmptySeq
<1> HIDE DEF bad, kept, Either
<1> QED BY <1>6, <1>11, <1>12, <1>13

LEMMA LineParsed ==
  ASSUME NEW l \in LineType
  PROVE  /\ ParseLine(l) \in Seq(Accepted)
         /\ \A x \in ToSet(ParseLine(l)) : x = ErrorLine \/ x = [l EXCEPT !.points = x.points]
         /\ Fine(l) => ParseLine(l) = <<l>>
<1>1. CASE l.kind = "chart"
  <2>1. ParseLine(l) = ParseBarChartLine(l)
    BY <1>1 DEF ParseLine
  <2> QED BY <1>1, <2>1, ChartParsed
<1>2. CASE /\ l.kind # "chart"
           /\ Quota(l) /\ (l.used < 0 \/ l.limit <= 0 \/ (l.kind = "percent" /\ l.limit # 100))
  <2>1. ParseLine(l) = <<ErrorLine>>
    BY <1>2 DEF ParseLine
  <2>2. ~Fine(l)
    BY <1>2 DEF Fine, Quota, LineType
  <2> QED BY <2>1, <2>2, ErrorParsed
<1>3. CASE /\ l.kind # "chart"
           /\ ~(Quota(l) /\ (l.used < 0 \/ l.limit <= 0 \/ (l.kind = "percent" /\ l.limit # 100)))
  <2>1. ParseLine(l) = <<l>>
    BY <1>3 DEF ParseLine
  <2>2. l \in Accepted
    BY <1>3 DEF Accepted, LineType
  <2>3. l = [l EXCEPT !.points = l.points]
    BY DEF LineType
  <2> QED BY <2>1, <2>2, <2>3, SingletonFacts
<1> QED BY <1>1, <1>2, <1>3

(***************************************************************************)
(* How the lines of a report are read: one after the other, and all of     *)
(* them stay if they are fine.                                             *)
(***************************************************************************)
LEMMA LinesParsed ==
  ASSUME NEW ls \in Seq(LineType)
  PROVE  /\ ParseLines(ls) \in Seq(Accepted)
         /\ ls # <<>> => ToSet(ParseLines(ls)) = UNION {ToSet(ParseLine(l)) : l \in ToSet(ls)}
         /\ ls # <<>> /\ (\A l \in ToSet(ls) : Fine(l)) => ToSet(ParseLines(ls)) = ToSet(ls)
<1>1. CASE ls = <<>>
  BY <1>1, ErrorParsed DEF ParseLines
<1>2. CASE ls # <<>>
  <2> DEFINE t == Each(ls, ParseLine)
  <2>1. DOMAIN ls = 1 .. Len(ls) /\ \A i \in 1 .. Len(ls) : ls[i] \in LineType
    BY LenProperties, ElementOfSeq
  <2>2. t = [i \in DOMAIN ls |-> ParseLine(ls[i])]
    BY DEF Each
  <2> HIDE DEF t
  <2>3. Mapped(t, ls) /\ \A i \in 1 .. Len(ls) : t[i] = ParseLine(ls[i])
    BY <2>1, <2>2 DEF Mapped
  <2>4. \A i \in 1 .. Len(ls) : t[i] \in Seq(Accepted)
    BY <2>1, <2>3, LineParsed
  <2>5. t \in Seq(Seq(Accepted)) /\ ToSet(t) = {t[i] : i \in 1 .. Len(ls)}
    <3> DEFINE R == Seq(Accepted)
    <3>1. \A i \in 1 .. Len(ls) : t[i] \in R
      BY <2>4
    <3> HIDE DEF R
    <3>2. t \in Seq(R) /\ ToSet(t) = {t[i] : i \in 1 .. Len(ls)}
      BY <2>3, <3>1, MappedFacts
    <3> QED BY <3>2 DEF R
  <2>6. ParseLines(ls) = FlattenSeq(t)
    BY <1>2 DEF ParseLines, t
  <2>7. ParseLines(ls) \in Seq(Accepted) /\ ToSet(ParseLines(ls)) = UNION {ToSet(s) : s \in ToSet(t)}
    BY <2>5, <2>6, FlattenFacts
  <2>8. ToSet(ls) = {ls[i] : i \in 1 .. Len(ls)}
    BY SetOfSeq
  <2>9. {ToSet(s) : s \in ToSet(t)} = {ToSet(ParseLine(l)) : l \in ToSet(ls)}
    <3>1. \A s \in ToSet(t) : \E l \in ToSet(ls) : s = ParseLine(l)
      BY <2>3, <2>5, <2>8
    <3>2. \A l \in ToSet(ls) : ParseLine(l) \in ToSet(t)
      BY <2>3, <2>5, <2>8
    <3> QED BY <3>1, <3>2
  <2>10. ASSUME \A l \in ToSet(ls) : Fine(l)
         PROVE  UNION {ToSet(ParseLine(l)) : l \in ToSet(ls)} = ToSet(ls)
    <3>1. \A l \in ToSet(ls) : l \in LineType
      BY <2>1, <2>8
    <3>2. \A l \in ToSet(ls) : ParseLine(l) = <<l>>
      BY <2>10, <3>1, LineParsed
    <3>3. \A l \in ToSet(ls) : ToSet(ParseLine(l)) = {l}
      BY <3>1, <3>2, SingletonFacts
    <3> QED BY <3>3
  <2> QED BY <1>2, <2>7, <2>9, <2>10
<1> QED BY <1>1, <1>2

-----------------------------------------------------------------------------
(* Metrics and their keys.                                                 *)
NatMetric == [key : Seq(KeyParts), value : Nat]
Unique(ms) == \A i, j \in 1 .. Len(ms) : ms[i].key = ms[j].key => i = j

LEMMA MetricFacts ==
  ASSUME NEW key \in Seq(KeyParts), NEW n \in Nat
  PROVE  Metric(key, n) \in NatMetric /\ Metric(key, n).key = key /\ Metric(key, n).value = n
BY DEF Metric, NatMetric

LEMMA KeysFacts ==
  ASSUME NEW ms \in Seq(NatMetric)
  PROVE  /\ KeysOf(ms) = {m.key : m \in ToSet(ms)}
         /\ ParseMetrics(ms) = ms
<1>1. DOMAIN ms = 1 .. Len(ms) /\ \A i \in 1 .. Len(ms) : ms[i] \in NatMetric
  BY LenProperties, ElementOfSeq
<1> QED BY <1>1 DEF KeysOf, ToSet, ParseMetrics, NatMetric

LEMMA UniqueCardinality ==
  ASSUME NEW ms \in Seq(NatMetric), Unique(ms)
  PROVE  Cardinality(KeysOf(ms)) = Len(ms)
<1> DEFINE f == [i \in 1 .. Len(ms) |-> ms[i].key]
<1>1. Len(ms) \in Nat /\ DOMAIN ms = 1 .. Len(ms)
  BY LenProperties
<1>2. f \in Bijection(1 .. Len(ms), KeysOf(ms))
  <2>1. f \in [1 .. Len(ms) -> KeysOf(ms)]
    BY <1>1 DEF KeysOf
  <2>2. \A i, j \in 1 .. Len(ms) : f[i] = f[j] => i = j
    BY DEF Unique
  <2>3. \A k \in KeysOf(ms) : \E i \in 1 .. Len(ms) : f[i] = k
    BY <1>1 DEF KeysOf
  <2> HIDE DEF f
  <2> QED BY <2>1, <2>2, <2>3 DEF Bijection, Injection, Surjection, IsInjective
<1>3. IsFiniteSet(1 .. Len(ms)) /\ Cardinality(1 .. Len(ms)) = Len(ms)
  BY <1>1, FS_Interval
<1> QED BY <1>2, <1>3, FS_Bijection DEF ExistsBijection

LEMMA UniqueConcat ==
  ASSUME NEW s \in Seq(NatMetric), NEW t \in Seq(NatMetric), Unique(s), Unique(t),
         KeysOf(s) \cap KeysOf(t) = {}
  PROVE  /\ s \o t \in Seq(NatMetric) /\ Unique(s \o t)
         /\ KeysOf(s \o t) = KeysOf(s) \cup KeysOf(t)
<1>1. /\ s \o t \in Seq(NatMetric) /\ Len(s \o t) = Len(s) + Len(t)
      /\ \A i \in 1 .. Len(s) + Len(t) : (s \o t)[i] = IF i <= Len(s) THEN s[i] ELSE t[i - Len(s)]
  BY ConcatProperties
<1>2. /\ Len(s) \in Nat /\ Len(t) \in Nat /\ DOMAIN s = 1 .. Len(s) /\ DOMAIN t = 1 .. Len(t)
  BY LenProperties
<1> DEFINE c == s \o t
<1>3. \A i \in 1 .. Len(s) + Len(t) :
        \/ i \in 1 .. Len(s) /\ c[i] = s[i] /\ c[i].key \in KeysOf(s)
        \/ i - Len(s) \in 1 .. Len(t) /\ c[i] = t[i - Len(s)] /\ c[i].key \in KeysOf(t)
  <2> SUFFICES ASSUME NEW i \in 1 .. Len(s) + Len(t)
               PROVE  \/ i \in 1 .. Len(s) /\ c[i] = s[i] /\ c[i].key \in KeysOf(s)
                      \/ i - Len(s) \in 1 .. Len(t) /\ c[i] = t[i - Len(s)] /\ c[i].key \in KeysOf(t)
    OBVIOUS
  <2>1. CASE i <= Len(s)
    <3>1. i \in 1 .. Len(s) /\ c[i] = s[i]
      BY <1>1, <1>2, <2>1
    <3> QED BY <1>2, <3>1 DEF KeysOf
  <2>2. CASE ~(i <= Len(s))
    <3>1. i - Len(s) \in 1 .. Len(t) /\ c[i] = t[i - Len(s)]
      BY <1>1, <1>2, <2>2
    <3> QED BY <1>2, <3>1 DEF KeysOf
  <2> QED BY <2>1, <2>2
<1> HIDE DEF c
<1>4. ASSUME NEW i \in 1 .. Len(s) + Len(t), NEW j \in 1 .. Len(s) + Len(t), c[i].key = c[j].key
      PROVE  i = j
  <2>1. CASE i \in 1 .. Len(s) /\ c[i] = s[i] /\ c[i].key \in KeysOf(s)
    <3>1. j \in 1 .. Len(s) /\ c[j] = s[j]
      BY <1>3, <1>4, <2>1
    <3> QED BY <1>4, <2>1, <3>1 DEF Unique
  <2>2. CASE i - Len(s) \in 1 .. Len(t) /\ c[i] = t[i - Len(s)] /\ c[i].key \in KeysOf(t)
    <3>1. j - Len(s) \in 1 .. Len(t) /\ c[j] = t[j - Len(s)]
      BY <1>3, <1>4, <2>2
    <3>2. i - Len(s) = j - Len(s)
      BY <1>4, <2>2, <3>1 DEF Unique
    <3> QED BY <1>2, <3>2
  <2> QED BY <1>3, <2>1, <2>2
<1>5. KeysOf(c) = KeysOf(s) \cup KeysOf(t)
  <2>1. ToSet(c) = ToSet(s) \cup ToSet(t)
    BY ConcatFacts DEF c
  <2>2. c \in Seq(NatMetric)
    BY <1>1 DEF c
  <2> QED BY <2>1, <2>2, KeysFacts
<1> QED BY <1>1, <1>4, <1>5 DEF c, Unique

LEMMA AmongUnique ==
  ASSUME NEW ms \in Seq(NatMetric), NEW S, Unique(ms)
  PROVE  Unique(Among(ms, S))
<1> DEFINE got == Among(ms, S)
<1>1. PICK e : Picks(e, ms, got, Len(ms))
  BY AmongPicks
<1>2. got \in Seq(NatMetric) /\ Len(got) \in Nat
  BY AmongFacts, LenProperties
<1> HIDE DEF got
<1>3. ASSUME NEW i \in 1 .. Len(got), NEW j \in 1 .. Len(got), got[i].key = got[j].key
      PROVE  i = j
  <2>1. /\ e[i] \in 1 .. Len(ms) /\ e[j] \in 1 .. Len(ms) /\ got[i] = ms[e[i]] /\ got[j] = ms[e[j]]
        /\ i < j => e[i] < e[j]
        /\ j < i => e[j] < e[i]
    BY <1>1 DEF Picks
  <2>2. e[i] = e[j]
    BY <1>3, <2>1 DEF Unique
  <2> QED BY <1>2, <2>1, <2>2
<1> QED BY <1>3 DEF Unique, got

LEMMA FewUnique ==
  /\ Unique(<<>>) /\ KeysOf(<<>>) = {} /\ <<>> \in Seq(NatMetric)
  /\ \A m \in NatMetric : Unique(<<m>>) /\ KeysOf(<<m>>) = {m.key} /\ <<m>> \in Seq(NatMetric)
<1>1. Unique(<<>>) /\ KeysOf(<<>>) = {}
  BY DEF Unique, KeysOf
<1>2. ASSUME NEW m \in NatMetric
      PROVE  Unique(<<m>>) /\ KeysOf(<<m>>) = {m.key} /\ <<m>> \in Seq(NatMetric)
  BY DEF Unique, KeysOf
<1> QED BY <1>1, <1>2

LEMMA KeyFacts ==
  /\ Labels \subseteq KeyParts
  /\ \A a \in KeyParts : <<a>> \in Seq(KeyParts)
  /\ \A a, b \in KeyParts : <<a, b>> \in Seq(KeyParts)
  /\ \A a, b, c \in KeyParts : <<a, b, c>> \in Seq(KeyParts)
  /\ \A a, b, c, d \in KeyParts : <<a, b, c, d>> \in Seq(KeyParts)
<1>1. Labels \subseteq KeyParts
  BY DEF KeyParts
<1> QED BY <1>1

LEMMA PartFacts ==
  {"quota", "model", "utilization", "used", "limit", "requests", "prompt", "tokens", "session",
   "weekly", "total", "cost"} \subseteq KeyParts
BY DEF KeyParts

(***************************************************************************)
(* The metrics of one line, and what the runtime adds of them.             *)
(***************************************************************************)
LEMMA QuotaFacts ==
  ASSUME NEW l \in Accepted
  PROVE  QuotaMetrics(l) \in Seq(NatMetric) /\ Unique(QuotaMetrics(l))
<1>1. l.label \in KeyParts
  BY KeyFacts DEF Accepted, LineType
<1>2. CASE ~Quota(l)
  BY <1>2, FewUnique DEF QuotaMetrics
<1>3. CASE Quota(l) /\ l.kind = "percent"
  <2> DEFINE m == Metric(<<"quota", l.label, "utilization">>, Clamp(Share(l.used, l.limit), 0, 100))
  <2>1. Share(l.used, l.limit) \in Int
    BY <1>3, ShareFacts DEF Accepted
  <2>2. Clamp(Share(l.used, l.limit), 0, 100) \in Nat
    <3> DEFINE n == Share(l.used, l.limit)
    <3> HIDE DEF n
    <3>1. n \in Int
      BY <2>1 DEF n
    <3>2. Clamp(n, 0, 100) \in Nat
      BY <3>1, ClampPercent
    <3> QED BY <3>2 DEF n
  <2>3. <<"quota", l.label, "utilization">> \in Seq(KeyParts)
    BY <1>1, KeyFacts, PartFacts
  <2>4. m \in NatMetric
    BY <2>2, <2>3, MetricFacts
  <2>5. QuotaMetrics(l) = <<m>>
    BY <1>3 DEF QuotaMetrics
  <2> HIDE DEF m
  <2> QED BY <2>4, <2>5, FewUnique
<1>4. CASE Quota(l) /\ l.kind # "percent"
  <2> DEFINE a == Metric(<<"quota", l.label, "used">>, l.used)
             b == Metric(<<"quota", l.label, "limit">>, l.limit)
  <2>1. l.used \in Nat /\ l.limit \in Nat
    BY <1>4 DEF Accepted
  <2>2. <<"quota", l.label, "used">> \in Seq(KeyParts) /\ <<"quota", l.label, "limit">> \in Seq(KeyParts)
    BY <1>1, KeyFacts, PartFacts
  <2>3. a \in NatMetric /\ b \in NatMetric
    BY <2>1, <2>2, MetricFacts
  <2>4. <<"quota", l.label, "used">> # <<"quota", l.label, "limit">>
    OBVIOUS
  <2>5. a.key # b.key
    BY <2>4 DEF Metric
  <2>6. QuotaMetrics(l) = <<a, b>>
    BY <1>4 DEF QuotaMetrics
  <2> HIDE DEF a, b
  <2> QED BY <2>3, <2>5, <2>6 DEF Unique
<1> QED BY <1>2, <1>3, <1>4

(* One round of append_derived_quota_metrics: it keeps what there is, adds *)
(* what the line asks for, and gives no key twice.                         *)
LEMMA WithFacts ==
  ASSUME NEW ms \in Seq(NatMetric), NEW l \in Accepted
  PROVE  /\ WithQuotaMetrics(ms, l) \in Seq(NatMetric)
         /\ ToSet(ms) \subseteq ToSet(WithQuotaMetrics(ms, l))
         /\ KeysOf(QuotaMetrics(l)) \subseteq KeysOf(WithQuotaMetrics(ms, l))
         /\ Unique(ms) => Unique(WithQuotaMetrics(ms, l))
<1> DEFINE qs == QuotaMetrics(l)
           S == {m \in ToSet(qs) : m.key \notin KeysOf(ms)}
           new == Among(qs, S)
<1>1. qs \in Seq(NatMetric) /\ Unique(qs)
  BY QuotaFacts
<1>2. WithQuotaMetrics(ms, l) = ms \o new
  BY DEF WithQuotaMetrics
<1> HIDE DEF qs
<1>3. new \in Seq(NatMetric) /\ Unique(new) /\ ToSet(new) = ToSet(qs) \cap S
  BY <1>1, AmongFacts, AmongUnique
<1> HIDE DEF new
<1>4. ms \o new \in Seq(NatMetric) /\ ToSet(ms \o new) = ToSet(ms) \cup ToSet(new)
  BY <1>3, ConcatFacts
<1>5. KeysOf(ms) \cap KeysOf(new) = {}
  BY <1>3, KeysFacts
<1>6. KeysOf(qs) \subseteq KeysOf(ms \o new)
  <2>1. /\ KeysOf(qs) = {m.key : m \in ToSet(qs)} /\ KeysOf(ms) = {m.key : m \in ToSet(ms)}
        /\ KeysOf(ms \o new) = {m.key : m \in ToSet(ms \o new)}
    BY <1>1, <1>4, KeysFacts
  <2> QED BY <1>3, <1>4, <2>1
<1>7. Unique(ms) => Unique(ms \o new)
  BY <1>3, <1>5, UniqueConcat
<1> QED BY <1>2, <1>4, <1>6, <1>7 DEF qs

(***************************************************************************)
(* What the runtime makes of the metrics, line by line.                    *)
(***************************************************************************)
LEMMA DerivedRuns ==
  ASSUME NEW ls \in Seq(Accepted), NEW ms \in Seq(NatMetric)
  PROVE  \E r \in [0 .. Len(ls) -> Seq(NatMetric)] :
           /\ r[0] = ms
           /\ \A k \in 1 .. Len(ls) : r[k] = WithQuotaMetrics(r[k - 1], ls[k])
           /\ r[Len(ls)] = AppendDerivedQuotaMetrics(ls, ms)
<1> DEFINE N == Len(ls)
           R == Seq(NatMetric)
           f == [x \in R \X (1 .. N) |-> WithQuotaMetrics(x[1], ls[x[2]])]
<1>1. N \in Nat /\ DOMAIN ls = 1 .. N /\ ms \in R /\ \A k \in 1 .. N : ls[k] \in Accepted
  BY LenProperties, ElementOfSeq
<1>2. f \in [R \X (1 .. N) -> R]
  <2> HIDE DEF N
  <2> QED BY <1>1, WithFacts
<1>3. \A t \in R, k \in 1 .. N : f[<<t, k>>] = WithQuotaMetrics(t, ls[k])
  OBVIOUS
<1> HIDE DEF f, N
<1>4. PICK g \in [SUBSET (1 .. N) -> R] : FoldSolution(g, N, ms, f)
  <2> HIDE DEF R
  <2> QED BY <1>1, <1>2, FoldExists
<1>5. ASSUME NEW s \in SUBSET (1 .. N), s # {}
      PROVE  g[s] = WithQuotaMetrics(g[s \ {Max(s)}], ls[Max(s)])
  <2>1. Max(s) \in 1 .. N /\ s \ {Max(s)} \in SUBSET (1 .. N)
    BY <1>1, <1>5, MaxOfIndices
  <2>2. g[s \ {Max(s)}] \in R
    BY <2>1
  <2> QED BY <1>3, <1>4, <1>5, <2>1, <2>2 DEF FoldSolution
<1>6. g[{}] = ms
  BY <1>4 DEF FoldSolution
<1> DEFINE F(h) == [s \in SUBSET (1 .. N) |->
                      IF s = {} THEN ms ELSE WithQuotaMetrics(h[s \ {Max(s)}], ls[Max(s)])]
<1>7. g = F(g)
  BY <1>5, <1>6
<1>8. AppendDerivedQuotaMetrics(ls, ms) = (CHOOSE h : h = F(h))[1 .. N]
  BY <1>1 DEF AppendDerivedQuotaMetrics, FoldLeft, MapThenFoldSet
<1> DEFINE h == CHOOSE h : h = F(h)
<1>9. h = F(h) /\ AppendDerivedQuotaMetrics(ls, ms) = h[1 .. N]
  BY <1>7, <1>8
<1> HIDE DEF h
<1>10. h[{}] = ms
  BY <1>9
<1>11. \A s \in SUBSET (1 .. N) : s # {} /\ h[s \ {Max(s)}] \in R =>
         h[s] = f[<<h[s \ {Max(s)}], Max(s)>>]
  <2> SUFFICES ASSUME NEW s \in SUBSET (1 .. N), s # {}, h[s \ {Max(s)}] \in R
               PROVE  h[s] = f[<<h[s \ {Max(s)}], Max(s)>>]
    OBVIOUS
  <2>1. h[s] = WithQuotaMetrics(h[s \ {Max(s)}], ls[Max(s)])
    BY <1>9
  <2>2. Max(s) \in 1 .. N
    BY <1>1, MaxOfIndices
  <2> QED BY <1>3, <2>1, <2>2
<1>12. FoldSteps(h, N, R, ms, f)
  BY <1>10, <1>11 DEF FoldSteps
<1>13. PICK r \in [0 .. N -> R] : FoldRun(r, h, N, ms, f)
  <2> HIDE DEF R, F
  <2> QED BY <1>1, <1>2, <1>12, FoldRuns
<1>14. ASSUME NEW k \in 1 .. N
       PROVE  r[k] = WithQuotaMetrics(r[k - 1], ls[k])
  <2>1. k - 1 \in 0 .. N
    BY <1>1
  <2>2. r[k - 1] \in R
    BY <2>1
  <2> QED BY <1>3, <1>13, <2>2 DEF FoldRun
<1> QED BY <1>9, <1>13, <1>14 DEF N, FoldRun

(* append_derived_quota_metrics for any number of lines, by induction      *)
(* along them.                                                             *)
LEMMA DerivedFacts ==
  ASSUME NEW ls \in Seq(Accepted), NEW ms \in Seq(NatMetric)
  PROVE  LET all == AppendDerivedQuotaMetrics(ls, ms) IN
           /\ all \in Seq(NatMetric)
           /\ ToSet(ms) \subseteq ToSet(all)
           /\ \A l \in ToSet(ls) : KeysOf(QuotaMetrics(l)) \subseteq KeysOf(all)
           /\ Unique(ms) => Unique(all)
<1> DEFINE N == Len(ls)
           all == AppendDerivedQuotaMetrics(ls, ms)
<1>1. N \in Nat /\ \A k \in 1 .. N : ls[k] \in Accepted
  BY LenProperties, ElementOfSeq
<1>2. PICK r \in [0 .. N -> Seq(NatMetric)] :
             /\ r[0] = ms
             /\ \A k \in 1 .. N : r[k] = WithQuotaMetrics(r[k - 1], ls[k])
             /\ r[N] = all
  BY DerivedRuns
<1>3. ToSet(ls) = {ls[i] : i \in 1 .. N}
  BY SetOfSeq
<1> HIDE DEF N, all
<1> DEFINE Listed(k) ==
             /\ ToSet(ms) \subseteq ToSet(r[k])
             /\ \A i \in 1 .. k : KeysOf(QuotaMetrics(ls[i])) \subseteq KeysOf(r[k])
             /\ Unique(ms) => Unique(r[k])
           Good == {k \in Nat : k <= N => Listed(k)}
<1>4. 0 \in Good
  BY <1>2
<1>5. ASSUME NEW k \in Nat, k \in Good
      PROVE  k + 1 \in Good
  <2> SUFFICES ASSUME k + 1 <= N PROVE Listed(k + 1)
    OBVIOUS
  <2>0. k \in 0 .. N /\ k + 1 \in 1 .. N /\ (k + 1) - 1 = k
    BY <1>1
  <2>1. Listed(k)
    <3>1. k <= N
      BY <1>1
    <3> HIDE DEF Listed
    <3> QED BY <1>5, <3>1
  <2>2. r[k + 1] = WithQuotaMetrics(r[k], ls[k + 1]) /\ r[k] \in Seq(NatMetric) /\ ls[k + 1] \in Accepted
    BY <1>1, <1>2, <2>0
  <2>3. /\ r[k + 1] \in Seq(NatMetric)
        /\ ToSet(r[k]) \subseteq ToSet(r[k + 1])
        /\ KeysOf(QuotaMetrics(ls[k + 1])) \subseteq KeysOf(r[k + 1])
        /\ Unique(r[k]) => Unique(r[k + 1])
    <3> HIDE DEF Listed, Good
    <3> QED BY <2>2, WithFacts
  <2>4. KeysOf(r[k]) \subseteq KeysOf(r[k + 1])
    <3> HIDE DEF Listed, Good
    <3>1. KeysOf(r[k]) = {m.key : m \in ToSet(r[k])} /\ KeysOf(r[k + 1]) = {m.key : m \in ToSet(r[k + 1])}
      BY <2>2, <2>3, KeysFacts
    <3> QED BY <2>3, <3>1
  <2>5. \A i \in 1 .. k + 1 : i \in 1 .. k \/ i = k + 1
    OBVIOUS
  <2> QED BY <2>1, <2>3, <2>4, <2>5
<1>6. N \in Good
  <2> HIDE DEF Good
  <2> QED BY <1>1, <1>4, <1>5, Induction
<1>7. Listed(N) /\ N \in 0 .. N
  BY <1>1, <1>6
<1>8. all \in Seq(NatMetric)
  BY <1>2, <1>7
<1> QED BY <1>2, <1>3, <1>7, <1>8 DEF all

-----------------------------------------------------------------------------
(* What a plugin owes the runtime.                                         *)

(***************************************************************************)
(* A report made of lines of the right type, and of fine ones if sane, and *)
(* of metrics that are amounts.                                            *)
(***************************************************************************)
SoundReport(r, sane) ==
  /\ r.lines \in Seq(Fit(sane)) /\ r.metrics \in Seq(NatMetric)
  /\ r.thrown \in BOOLEAN
  /\ sane /\ ~r.thrown => r.lines # <<>>
  /\ r.thrown => r.metrics = <<>>

LEMMA FitLines ==
  ASSUME NEW sane \in BOOLEAN, NEW ls \in Seq(Fit(sane))
  PROVE  ls \in Seq(LineType) /\ (sane => \A l \in ToSet(ls) : Fine(l))
<1>1. Fit(sane) \subseteq LineType /\ (sane => \A l \in Fit(sane) : Fine(l))
  BY DEF Fit
<1> HIDE DEF Fit
<1>2. ToSet(ls) \subseteq Fit(sane)
  BY SetOfSeq
<1> QED BY <1>1, <1>2, SeqMonotonic

(* What the runtime makes of a report that is sound.                       *)
LEMMA OutputFacts ==
  ASSUME NEW sane \in BOOLEAN, NEW r, SoundReport(r, sane)
  PROVE  LET o == Output(r) IN
           /\ o.lines \in Seq(Accepted) /\ o.metrics \in Seq(NatMetric)
           /\ o = [lines |-> o.lines, metrics |-> o.metrics]
           /\ ~r.thrown => o.lines = ParseLines(r.lines)
           /\ sane /\ ~r.thrown => ToSet(o.lines) = ToSet(r.lines)
           /\ ToSet(r.metrics) \subseteq ToSet(o.metrics)
           /\ \A l \in ToSet(o.lines) : KeysOf(QuotaMetrics(l)) \subseteq KeysOf(o.metrics)
           /\ Unique(r.metrics) => Unique(o.metrics)
<1>1. CASE r.thrown
  <2>1. Output(r) = [lines |-> <<ErrorLine>>, metrics |-> <<>>] /\ r.metrics = <<>>
    BY <1>1 DEF Output, SoundReport
  <2>2. QuotaMetrics(ErrorLine) = <<>>
    BY DEF QuotaMetrics, ErrorLine, Badge, Line, Quota
  <2>3. KeysOf(QuotaMetrics(ErrorLine)) = {}
    BY <2>2, FewUnique
  <2> QED BY <1>1, <2>1, <2>3, ErrorParsed, FewUnique
<1>2. CASE ~r.thrown
  <2> DEFINE ls == ParseLines(r.lines)
             all == AppendDerivedQuotaMetrics(ls, r.metrics)
  <2>1. r.lines \in Seq(LineType) /\ (sane => \A l \in ToSet(r.lines) : Fine(l))
    BY FitLines DEF SoundReport
  <2>2. ls \in Seq(Accepted) /\ (sane => ToSet(ls) = ToSet(r.lines))
    BY <1>2, <2>1, LinesParsed DEF SoundReport
  <2>3. r.metrics \in Seq(NatMetric) /\ ParseMetrics(r.metrics) = r.metrics
    BY KeysFacts DEF SoundReport
  <2>4. Output(r) = [lines |-> ls, metrics |-> all]
    BY <1>2, <2>3 DEF Output
  <2> HIDE DEF ls
  <2>5. /\ all \in Seq(NatMetric)
        /\ ToSet(r.metrics) \subseteq ToSet(all)
        /\ \A l \in ToSet(ls) : KeysOf(QuotaMetrics(l)) \subseteq KeysOf(all)
        /\ Unique(r.metrics) => Unique(all)
    BY <2>2, <2>3, DerivedFacts
  <2> HIDE DEF all
  <2> QED BY <1>2, <2>2, <2>4, <2>5 DEF ls
<1> QED BY <1>1, <1>2 DEF SoundReport

(***************************************************************************)
(* How a plugin puts its lines together: a line or none, one after the     *)
(* other.                                                                  *)
(***************************************************************************)
One(c, x) == IF c THEN <<x>> ELSE <<>>

LEMMA OneFacts ==
  ASSUME NEW S, NEW c \in BOOLEAN, NEW x, c => x \in S
  PROVE  /\ One(c, x) \in Seq(S) /\ (One(c, x) = <<>> <=> ~c)
         /\ ToSet(One(c, x)) = IF c THEN {x} ELSE {}
<1>1. CASE c
  BY <1>1, SingletonFacts DEF One
<1>2. CASE ~c
  <2>1. ToSet(<<>>) = {}
    BY DEF ToSet
  <2> QED BY <1>2, <2>1, EmptySeq DEF One
<1> QED BY <1>1, <1>2

LEMMA OnePercent ==
  ASSUME NEW sane \in BOOLEAN, NEW c \in BOOLEAN, NEW label \in Plain,
         NEW n, c => n \in Int /\ (sane => n >= 0)
  PROVE  /\ One(c, Percent(label, n)) \in Seq(Fit(sane))
         /\ One(c, Percent(label, n)) = <<>> <=> ~c
BY OneFacts, PercentFit

LEMMA OneCount ==
  ASSUME NEW sane \in BOOLEAN, NEW c \in BOOLEAN, NEW label \in Plain, NEW used, NEW limit,
         c => used \in Int /\ limit \in Int /\ (sane => used >= 0 /\ limit > 0)
  PROVE  /\ One(c, Line(label, "count", used, limit)) \in Seq(Fit(sane))
         /\ One(c, Line(label, "count", used, limit)) = <<>> <=> ~c
<1>1. c => Line(label, "count", used, limit) \in Fit(sane)
  BY LineFit
<1> QED BY <1>1, OneFacts

LEMMA OneDollars ==
  ASSUME NEW sane \in BOOLEAN, NEW c \in BOOLEAN, NEW label \in Plain, NEW used, NEW limit,
         c => used \in Int /\ limit \in Int /\ (sane => used >= 0 /\ limit > 0)
  PROVE  /\ One(c, Line(label, "dollars", used, limit)) \in Seq(Fit(sane))
         /\ One(c, Line(label, "dollars", used, limit)) = <<>> <=> ~c
<1>1. c => Line(label, "dollars", used, limit) \in Fit(sane)
  BY LineFit
<1> QED BY <1>1, OneFacts

LEMMA OneText ==
  ASSUME NEW sane \in BOOLEAN, NEW c \in BOOLEAN, NEW label \in Plain,
         NEW n, c => n \in Int
  PROVE  /\ One(c, Text(label, n)) \in Seq(Fit(sane))
         /\ One(c, Text(label, n)) = <<>> <=> ~c
BY OneFacts, TextFit

LEMMA OneBadge ==
  ASSUME NEW sane \in BOOLEAN, NEW c \in BOOLEAN, NEW label \in Plain
  PROVE  /\ One(c, Badge(label)) \in Seq(Fit(sane))
         /\ One(c, Badge(label)) = <<>> <=> ~c
BY OneFacts, BadgeFit

LEMMA OneMetric ==
  ASSUME NEW c \in BOOLEAN, NEW key, NEW n, c => key \in Seq(KeyParts) /\ n \in Nat
  PROVE  LET m == Metric(key, n) IN
           /\ One(c, m) \in Seq(NatMetric) /\ Unique(One(c, m)) /\ KeysOf(One(c, m)) \subseteq {key}
           /\ ToSet(One(c, m)) = IF c THEN {m} ELSE {}
<1> DEFINE m == Metric(key, n)
<1>1. c => m \in NatMetric /\ m.key = key
  BY MetricFacts
<1> HIDE DEF m
<1>2. One(c, m) = IF c THEN <<m>> ELSE <<>>
  BY DEF One
<1>3. ToSet(One(c, m)) = IF c THEN {m} ELSE {}
  BY <1>1, OneFacts
<1> QED BY <1>1, <1>2, <1>3, FewUnique DEF m

LEMMA OrBadgeFit ==
  ASSUME NEW sane \in BOOLEAN, NEW ls \in Seq(Fit(sane))
  PROVE  OrBadge(ls) \in Seq(Fit(sane)) /\ OrBadge(ls) # <<>>
<1>1. "Status" \in Plain
  BY PlainLabels
<1>2. Badge("Status") \in Fit(sane)
  BY <1>1, BadgeFit
<1> QED BY <1>2, SingletonFacts DEF OrBadge

LEMMA ThrowsSound ==
  ASSUME NEW sane \in BOOLEAN
  PROVE  SoundReport(Throws, sane) /\ Unique(Throws.metrics)
BY FewUnique, EmptySeq DEF Throws, SoundReport

LEMMA ReturnsSound ==
  ASSUME NEW sane \in BOOLEAN, NEW ls \in Seq(Fit(sane)), sane => ls # <<>>
  PROVE  SoundReport(Returns(ls), sane) /\ Unique(Returns(ls).metrics)
BY FewUnique DEF Returns, SoundReport

LEMMA BothSound ==
  ASSUME NEW sane \in BOOLEAN, NEW ls \in Seq(Fit(sane)), sane => ls # <<>>,
         NEW ms \in Seq(NatMetric)
  PROVE  SoundReport(ReturnsBoth(ls, ms), sane) /\ (Unique(ms) => Unique(ReturnsBoth(ls, ms).metrics))
BY DEF ReturnsBoth, SoundReport

(***************************************************************************)
(* What the runtime keeps of a report: its metrics, or none of them.       *)
(***************************************************************************)
Taken(r) == [thrown |-> r.thrown, lines |-> r.lines, metrics |-> ParseMetrics(r.metrics)]

LEMMA TakenSound ==
  ASSUME NEW r, NEW sane \in BOOLEAN, SoundReport(r, sane)
  PROVE  SoundReport(Taken(r), sane) /\ Taken(r).metrics = r.metrics
<1>1. r.metrics \in Seq(NatMetric) /\ ParseMetrics(r.metrics) = r.metrics
  BY KeysFacts DEF SoundReport
<1>2. Taken(r).lines = r.lines /\ Taken(r).thrown = r.thrown /\ Taken(r).metrics = r.metrics
  BY <1>1 DEF Taken
<1> QED BY <1>2 DEF SoundReport

LEMMA TakenOutput ==
  ASSUME NEW r, NEW sane \in BOOLEAN, SoundReport(Taken(r), sane)
  PROVE  /\ Output(Taken(r)) = Output(r) /\ Taken(r).lines = r.lines /\ Taken(r).thrown = r.thrown
         /\ Taken(r).metrics = ParseMetrics(r.metrics)
<1>1. /\ Taken(r).lines = r.lines /\ Taken(r).thrown = r.thrown
      /\ Taken(r).metrics = ParseMetrics(r.metrics)
  BY DEF Taken
<1>2. ParseMetrics(Taken(r).metrics) = Taken(r).metrics
  BY KeysFacts DEF SoundReport
<1> QED BY <1>1, <1>2 DEF Output

(***************************************************************************)
(* Sums, and the values that are there.                                    *)
(***************************************************************************)
LEMMA SumRuns ==
  ASSUME NEW s \in Seq(Int)
  PROVE  \E r \in [0 .. Len(s) -> Int] :
           r[0] = 0 /\ (\A k \in 1 .. Len(s) : r[k] = r[k - 1] + s[k]) /\ r[Len(s)] = Sum(s)
<1> DEFINE N == Len(s)
           R == Int
           f == [x \in R \X (1 .. N) |-> Plus(x[1], s[x[2]])]
<1>1. N \in Nat /\ DOMAIN s = 1 .. N /\ 0 \in R /\ \A k \in 1 .. N : s[k] \in R
  BY LenProperties, ElementOfSeq
<1>0. \A a, n \in R : Plus(a, n) \in R
  BY DEF Plus
<1>2. f \in [R \X (1 .. N) -> R]
  <2> HIDE DEF N, R
  <2> QED BY <1>0, <1>1
<1>3. \A t \in R, k \in 1 .. N : f[<<t, k>>] = Plus(t, s[k])
  OBVIOUS
<1> HIDE DEF f, N
<1>4. PICK g \in [SUBSET (1 .. N) -> R] : FoldSolution(g, N, 0, f)
  <2> HIDE DEF R
  <2> QED BY <1>1, <1>2, FoldExists
<1>5. ASSUME NEW u \in SUBSET (1 .. N), u # {}
      PROVE  g[u] = Plus(g[u \ {Max(u)}], s[Max(u)])
  <2>1. Max(u) \in 1 .. N /\ u \ {Max(u)} \in SUBSET (1 .. N)
    BY <1>1, <1>5, MaxOfIndices
  <2>2. g[u \ {Max(u)}] \in R
    BY <2>1
  <2> QED BY <1>3, <1>4, <1>5, <2>1, <2>2 DEF FoldSolution
<1>6. g[{}] = 0
  BY <1>4 DEF FoldSolution
<1> DEFINE F(h) == [u \in SUBSET (1 .. N) |->
                      IF u = {} THEN 0 ELSE Plus(h[u \ {Max(u)}], s[Max(u)])]
<1>7. g = F(g)
  BY <1>5, <1>6
<1>8. Sum(s) = (CHOOSE h : h = F(h))[1 .. N]
  BY <1>1 DEF Sum, FoldLeft, MapThenFoldSet
<1> DEFINE h == CHOOSE h : h = F(h)
<1>9. h = F(h) /\ Sum(s) = h[1 .. N]
  BY <1>7, <1>8
<1> HIDE DEF h
<1>10. h[{}] = 0
  BY <1>9
<1>11. \A u \in SUBSET (1 .. N) : u # {} /\ h[u \ {Max(u)}] \in R =>
         h[u] = f[<<h[u \ {Max(u)}], Max(u)>>]
  <2> SUFFICES ASSUME NEW u \in SUBSET (1 .. N), u # {}, h[u \ {Max(u)}] \in R
               PROVE  h[u] = f[<<h[u \ {Max(u)}], Max(u)>>]
    OBVIOUS
  <2>1. h[u] = Plus(h[u \ {Max(u)}], s[Max(u)])
    BY <1>9
  <2>2. Max(u) \in 1 .. N
    BY <1>1, MaxOfIndices
  <2> QED BY <1>3, <2>1, <2>2
<1>12. FoldSteps(h, N, R, 0, f)
  BY <1>10, <1>11 DEF FoldSteps
<1>13. PICK r \in [0 .. N -> R] : FoldRun(r, h, N, 0, f)
  <2> HIDE DEF R, F
  <2> QED BY <1>1, <1>2, <1>12, FoldRuns
<1>14. ASSUME NEW k \in 1 .. N
       PROVE  r[k] = r[k - 1] + s[k]
  <2>1. k - 1 \in 0 .. N
    BY <1>1
  <2>2. r[k - 1] \in R
    BY <2>1
  <2> QED BY <1>3, <1>13, <2>2 DEF FoldRun, Plus
<1> QED BY <1>9, <1>13, <1>14 DEF N, FoldRun

(* A sum of numbers that are not negative is none less than any of them.   *)
LEMMA SumFacts ==
  ASSUME NEW s \in Seq(Int)
  PROVE  /\ Sum(s) \in Int
         /\ (\A i \in 1 .. Len(s) : s[i] >= 0) => Sum(s) \in Nat /\ \A i \in 1 .. Len(s) : s[i] <= Sum(s)
<1> DEFINE N == Len(s)
<1>1. N \in Nat /\ \A i \in 1 .. N : s[i] \in Int
  BY LenProperties, ElementOfSeq
<1>2. PICK r \in [0 .. N -> Int] :
        r[0] = 0 /\ (\A k \in 1 .. N : r[k] = r[k - 1] + s[k]) /\ r[N] = Sum(s)
  BY SumRuns
<1> HIDE DEF N
<1>3. Sum(s) \in Int
  BY <1>1, <1>2
<1>4. ASSUME \A i \in 1 .. N : s[i] >= 0
      PROVE  Sum(s) \in Nat /\ \A i \in 1 .. N : s[i] <= Sum(s)
  <2> DEFINE Above(k) == r[k] >= 0 /\ \A i \in 1 .. k : s[i] <= r[k]
             Good == {k \in Nat : k <= N => Above(k)}
  <2>1. 0 \in Good
    BY <1>2
  <2>2. ASSUME NEW k \in Nat, k \in Good
        PROVE  k + 1 \in Good
    <3> SUFFICES ASSUME k + 1 <= N PROVE Above(k + 1)
      OBVIOUS
    <3>0. k \in 0 .. N /\ k + 1 \in 1 .. N /\ (k + 1) - 1 = k /\ k + 1 \in 0 .. N
      BY <1>1
    <3>1. Above(k)
      <4>1. k <= N
        BY <1>1
      <4> HIDE DEF Above
      <4> QED BY <2>2, <4>1
    <3>2. r[k + 1] = r[k] + s[k + 1] /\ r[k] \in Int /\ s[k + 1] \in Int /\ s[k + 1] >= 0
      BY <1>1, <1>2, <1>4, <3>0
    <3>3. r[k + 1] >= r[k] /\ r[k + 1] >= s[k + 1] /\ r[k + 1] >= 0
      BY <3>1, <3>2
    <3>4. \A i \in 1 .. k + 1 : i \in 1 .. k \/ i = k + 1
      OBVIOUS
    <3>5. \A i \in 1 .. k : s[i] \in Int
      BY <1>1
    <3>6. \A i \in 1 .. k : s[i] <= r[k + 1]
      BY <3>1, <3>2, <3>3, <3>5
    <3> QED BY <3>2, <3>3, <3>4, <3>6
  <2>3. N \in Good
    <3> HIDE DEF Good
    <3> QED BY <1>1, <2>1, <2>2, Induction
  <2>4. Above(N)
    BY <1>1, <2>3
  <2> QED BY <1>2, <1>3, <2>4
<1> QED BY <1>3, <1>4 DEF N

LEMMA SumEmpty == Sum(<<>>) = 0
<1>1. <<>> \in Seq(Int) /\ Len(<<>>) = 0
  BY EmptySeq
<1>2. PICK r \in [0 .. 0 -> Int] : r[0] = 0 /\ r[0] = Sum(<<>>)
  BY <1>1, SumRuns
<1> QED BY <1>2

LEMMA PresentFacts ==
  ASSUME NEW T, NEW s \in Seq(Optional(T))
  PROVE  Present(s) \in Seq(T) /\ ToSet(Present(s)) = {The(o) : o \in ToSet(s) \ {{}}}
<1> DEFINE O == Optional(T)
           some == Among(s, ToSet(s) \ {{}})
           t == Each(some, The)
<1>1. \A o \in O : o # {} => The(o) \in T
  BY OptionalFacts
<1>2. s \in Seq(O)
  OBVIOUS
<1> HIDE DEF O
<1>3. some \in Seq(O) /\ ToSet(some) = ToSet(s) \ {{}}
  BY <1>2, AmongFacts
<1>4. t = [i \in DOMAIN some |-> The(some[i])]
  BY DEF Each
<1>5. Present(s) = t
  BY DEF Present
<1> HIDE DEF some, t
<1>6. /\ Len(some) \in Nat /\ DOMAIN some = 1 .. Len(some) /\ ToSet(some) = {some[i] : i \in 1 .. Len(some)}
      /\ \A i \in 1 .. Len(some) : some[i] \in O
  BY <1>3, LenProperties, ElementOfSeq, SetOfSeq
<1>7. Mapped(t, some) /\ \A i \in 1 .. Len(some) : t[i] = The(some[i]) /\ t[i] \in T
  BY <1>1, <1>3, <1>4, <1>6 DEF Mapped
<1>8. t \in Seq(T) /\ ToSet(t) = {t[i] : i \in 1 .. Len(some)}
  BY <1>3, <1>7, MappedFacts
<1>9. ToSet(t) = {The(o) : o \in ToSet(some)}
  BY <1>6, <1>7, <1>8
<1> QED BY <1>3, <1>5, <1>8, <1>9

-----------------------------------------------------------------------------
(* The plugins, one by one: whatever the answer, the report is sound.      *)

LEMMA AmountFacts ==
  ASSUME NEW o \in Amount, o # {}
  PROVE  The(o) \in Int
BY OptionalFacts DEF Amount

LEMMA LeftOf ==
  ASSUME NEW o \in Amount, NEW k \in Int
  PROVE  {k - n : n \in o} \in Amount
<1> DEFINE rest == {k - n : n \in o}
<1>1. o \in SUBSET Int /\ \A x, y \in o : x = y
  BY DEF Amount, Optional
<1>2. rest \in SUBSET Int
  BY <1>1
<1>3. \A x, y \in rest : x = y
  BY <1>1
<1> QED BY <1>2, <1>3 DEF Amount, Optional

(* The plugins one by one: each reports lines of the type, which are fine  *)
(* when the answer is sane, and natural metrics under keys of their own.   *)
LEMMA DevinSound ==
  ASSUME NEW g \in MayAnswer("devin"), NEW sane \in BOOLEAN
  PROVE  SoundReport(Devin(g), sane) /\ Unique(Devin(g).metrics)
<1>1. g.hideDaily \in BOOLEAN /\ g.daily \in Amount /\ g.weekly \in Amount /\ g.balance \in Amount
  BY DEF MayAnswer
<1> DEFINE daily == IF g.hideDaily THEN {} ELSE g.daily
           weekly == IF g.weekly # {} THEN {100 - n : n \in g.weekly}
                     ELSE IF g.hideDaily THEN g.daily ELSE {}
           a == Opt(daily, LAMBDA n : Percent("Daily quota", Clamp(100 - n, 0, 100)))
           b == Opt(weekly, LAMBDA n : Percent("Weekly quota", Clamp(n, 0, 100)))
           c == Opt(g.balance, LAMBDA n : Text("Extra usage balance", Max({0, n})))
<1>2. daily \in Amount /\ weekly \in Amount
  <2> DEFINE rest == {100 - n : n \in g.weekly}
  <2>1. rest \in Amount /\ {} \in Amount
    BY <1>1, LeftOf DEF Amount, Optional
  <2>2. weekly = IF g.weekly # {} THEN rest ELSE IF g.hideDaily THEN g.daily ELSE {}
    OBVIOUS
  <2> HIDE DEF rest, weekly
  <2> QED BY <1>1, <2>1, <2>2
<1> HIDE DEF daily, weekly
<1>3. /\ daily # {} => The(daily) \in Int
      /\ weekly # {} => The(weekly) \in Int
      /\ g.balance # {} => The(g.balance) \in Int
  BY <1>1, <1>2, AmountFacts
<1>4. a \in Seq(Fit(sane))
  <2>1. a = One(daily # {}, Percent("Daily quota", Clamp(100 - The(daily), 0, 100)))
    BY DEF Opt, One
  <2>2. daily # {} => Clamp(100 - The(daily), 0, 100) \in Int /\ Clamp(100 - The(daily), 0, 100) >= 0
    BY <1>3, ClampPercent
  <2> HIDE DEF a, b, c
  <2>9. "Daily quota" \in Plain
    BY PlainLabels
  <2> QED BY <2>1, <2>2, <2>9, OnePercent, ZenonT(60)
<1>5. b \in Seq(Fit(sane))
  <2>1. b = One(weekly # {}, Percent("Weekly quota", Clamp(The(weekly), 0, 100)))
    BY DEF Opt, One
  <2>2. weekly # {} => Clamp(The(weekly), 0, 100) \in Int /\ Clamp(The(weekly), 0, 100) >= 0
    BY <1>3, ClampPercent
  <2> HIDE DEF a, b, c
  <2>9. "Weekly quota" \in Plain
    BY PlainLabels
  <2> QED BY <2>1, <2>2, <2>9, OnePercent, ZenonT(60)
<1>6. c \in Seq(Fit(sane))
  <2>1. c = One(g.balance # {}, Text("Extra usage balance", Max({0, The(g.balance)})))
    BY DEF Opt, One
  <2>2. g.balance # {} => Max({0, The(g.balance)}) \in Int
    BY <1>3, MaxOfTwo
  <2> HIDE DEF a, b, c
  <2>9. "Extra usage balance" \in Plain
    BY PlainLabels
  <2> QED BY <2>1, <2>2, <2>9, OneText, ZenonT(60)
<1> DEFINE lines == a \o b \o c
<1>7. lines \in Seq(Fit(sane))
  <2> HIDE DEF a, b, c
  <2> QED BY <1>4, <1>5, <1>6, ConcatFacts
<1>8. Devin(g) = IF lines = <<>> THEN Throws ELSE Returns(lines)
  BY DEF Devin, daily, weekly
<1> HIDE DEF lines
<1> QED BY <1>7, <1>8, ThrowsSound, ReturnsSound

LEMMA GrokSound ==
  ASSUME NEW g \in MayAnswer("grok"), NEW sane \in BOOLEAN
  PROVE  SoundReport(Grok(g), sane) /\ Unique(Grok(g).metrics)
<1>1. g.used \in Amount /\ g.limit \in Amount
  BY DEF MayAnswer
<1> DEFINE n == Clamp(Share(The(g.used), The(g.limit)), 0, 100)
           lines == <<Percent("Credits used", n), Badge("Pay as you go")>>
           throws == g.used = {} \/ g.cap = {} \/ ~g.resets \/ OrElse(g.limit, 0) <= 0
<1>2. ASSUME ~throws
      PROVE  lines \in Seq(Fit(sane))
  <2>1. The(g.used) \in Int /\ The(g.limit) \in Int /\ The(g.limit) > 0
    BY <1>1, <1>2, OptionalFacts DEF Amount, OrElse
  <2>2. n \in Int /\ n >= 0
    BY <2>1, ShareFacts, ClampPercent
  <2> HIDE DEF n
  <2>3. Percent("Credits used", n) \in Fit(sane) /\ Badge("Pay as you go") \in Fit(sane)
    BY <2>2, PercentFit, BadgeFit, PlainLabels
  <2> DEFINE F == Fit(sane)
  <2> HIDE DEF F
  <2>4. \A x, y \in F : <<x, y>> \in Seq(F)
    OBVIOUS
  <2> QED BY <2>3, <2>4 DEF F
<1>3. Grok(g) = IF throws THEN Throws ELSE Returns(lines)
  BY DEF Grok
<1>4. lines # <<>>
  OBVIOUS
<1> HIDE DEF lines, throws
<1> QED BY <1>2, <1>3, <1>4, ThrowsSound, ReturnsSound

LEMMA OptionalPart ==
  ASSUME NEW S, NEW o \in Optional(S), NEW p, p \subseteq o
  PROVE  p \in Optional(S)
BY DEF Optional

LEMMA RequestsFit ==
  ASSUME NEW sane \in BOOLEAN, NEW label \in Plain, NEW o \in Optional(Pair),
         sane => \A q \in o : q.used >= 0 /\ q.limit > 0
  PROVE  Requests(label, o) \in Seq(Fit(sane)) /\ (Requests(label, o) = <<>> <=> o = {})
<1>1. Requests(label, o) = One(o # {}, Line(label, "count", The(o).used, The(o).limit))
  BY DEF Requests, Opt, One
<1>2. o # {} => The(o) \in o /\ The(o) \in Pair
  BY OptionalFacts
<1>3. o # {} => /\ The(o).used \in Int /\ The(o).limit \in Int
                /\ (sane => The(o).used >= 0 /\ The(o).limit > 0)
  BY <1>2 DEF Pair
<1> DEFINE c == o # {}
           used == The(o).used
           limit == The(o).limit
<1>4. c \in BOOLEAN /\ (c => used \in Int /\ limit \in Int /\ (sane => used >= 0 /\ limit > 0))
  BY <1>3
<1>5. Requests(label, o) = One(c, Line(label, "count", used, limit))
  BY <1>1
<1> HIDE DEF c, used, limit
<1>6. Requests(label, o) \in Seq(Fit(sane)) /\ (Requests(label, o) = <<>> <=> ~c)
  BY <1>4, <1>5, OneCount
<1> QED BY <1>6 DEF c

LEMMA RequestedFacts ==
  ASSUME NEW o \in Optional([used : Amount, limit : Int])
  PROVE  Requested(o) \in Optional(Pair)
<1> DEFINE B == [used : Amount, limit : Int]
<1>1. o \subseteq B /\ \A x, y \in o : x = y
  BY DEF Optional
<1>2. \A q \in B : OrElse(q.used, -1) \in Int /\ q.limit \in Int
  BY AmountFacts DEF OrElse
<1>3. \A q \in B : [used |-> OrElse(q.used, -1), limit |-> q.limit] \in Pair
  BY <1>2 DEF Pair
<1> HIDE DEF B
<1>4. Requested(o) \subseteq Pair
  BY <1>1, <1>3 DEF Requested
<1>5. \A x, y \in Requested(o) : x = y
  BY <1>1 DEF Requested
<1> QED BY <1>4, <1>5 DEF Optional

LEMMA SyntheticSound ==
  ASSUME NEW g \in MayAnswer("synthetic"), NEW sane \in BOOLEAN, sane => Sane("synthetic", g)
  PROVE  SoundReport(Synthetic(g), sane) /\ Unique(Synthetic(g).metrics)
<1>1. /\ g.rolling \in Optional([left : Int, limit : Int]) /\ g.mana \in Amount /\ g.limited \in BOOLEAN
      /\ Requested(g.subscription) \in Optional(Pair) /\ Requested(g.free) \in Optional(Pair)
      /\ Requested(g.search) \in Optional(Pair)
  <2>1. /\ g.subscription \in Optional([used : Amount, limit : Int])
        /\ g.free \in Optional([used : Amount, limit : Int])
        /\ g.search \in Optional([used : Amount, limit : Int])
        /\ g.rolling \in Optional([left : Int, limit : Int]) /\ g.mana \in Amount /\ g.limited \in BOOLEAN
    BY DEF MayAnswer
  <2> QED BY <2>1, RequestedFacts
<1>2. sane => /\ \A q \in Requested(g.subscription) \cup Requested(g.search) : q.used >= 0 /\ q.limit > 0
              /\ \A q \in Requested(g.free) : q.used >= 0
              /\ \A q \in g.rolling : q.limit > 0
              /\ Synthetic(g).lines # <<>>
  BY DEF Sane, Positive, UsedSome
<1> DEFINE free == {q \in Requested(g.free) : q.limit > 0}
           onV3 == g.rolling # {} \/ g.mana # {}
           a == Opt(g.rolling, LAMBDA q : Line("5h Rate Limit", "count", Max({0, q.limit - q.left}), q.limit))
           b == Opt(g.mana, LAMBDA n : Percent("Mana Bar", Max({0, 100 - n})))
           c == When(g.limited, <<Badge("Rate Limited")>>)
           d == When(~onV3, Requests("Subscription", Requested(g.subscription)) \o Requests("Free Tool Calls", free))
           e == Requests("Search", Requested(g.search))
           lines == a \o b \o c \o d \o e
<1>3. a \in Seq(Fit(sane))
  <2> DEFINE q == The(g.rolling)
  <2>1. a = One(g.rolling # {}, Line("5h Rate Limit", "count", Max({0, q.limit - q.left}), q.limit))
    BY DEF Opt, One
  <2>2. g.rolling # {} => q.limit \in Int /\ q.left \in Int /\ q \in g.rolling
    <3> DEFINE R == [left : Int, limit : Int]
    <3>1. g.rolling \in Optional(R)
      BY <1>1
    <3> HIDE DEF R
    <3>2. g.rolling # {} => q \in g.rolling /\ q \in R
      BY <3>1, OptionalFacts
    <3> QED BY <3>2 DEF R
  <2> HIDE DEF q
  <2>3. g.rolling # {} => Max({0, q.limit - q.left}) \in Int /\ Max({0, q.limit - q.left}) >= 0
    BY <2>2, MaxOfTwo
  <2>4. g.rolling # {} => (sane => q.limit > 0)
    BY <1>2, <2>2
  <2> HIDE DEF a, b, c, d, e
  <2> QED BY <2>1, <2>2, <2>3, <2>4, OneCount, PlainLabels
<1>4. b \in Seq(Fit(sane))
  <2> DEFINE n == The(g.mana)
  <2>1. b = One(g.mana # {}, Percent("Mana Bar", Max({0, 100 - n})))
    BY DEF Opt, One
  <2>2. g.mana # {} => n \in Int
    BY <1>1, AmountFacts
  <2> HIDE DEF n
  <2>3. g.mana # {} => Max({0, 100 - n}) \in Int /\ Max({0, 100 - n}) >= 0
    BY <2>2, MaxOfTwo
  <2>4. "Mana Bar" \in Plain
    BY PlainLabels
  <2> HIDE DEF a, b, c, d, e
  <2> QED BY <2>1, <2>3, <2>4, OnePercent
<1>5. c \in Seq(Fit(sane))
  <2>1. c = One(g.limited, Badge("Rate Limited"))
    BY DEF When, One
  <2> HIDE DEF a, b, c, d, e
  <2>9. "Rate Limited" \in Plain
    BY PlainLabels
  <2> QED BY <1>1, <2>1, <2>9, OneBadge
<1>6. d \in Seq(Fit(sane))
  <2>1. free \in Optional(Pair) /\ (sane => \A q \in free : q.used >= 0 /\ q.limit > 0)
    BY <1>1, <1>2, OptionalPart
  <2> HIDE DEF free
  <2>2. /\ Requests("Subscription", Requested(g.subscription)) \in Seq(Fit(sane))
        /\ Requests("Free Tool Calls", free) \in Seq(Fit(sane))
    BY <1>1, <1>2, <2>1, RequestsFit, PlainLabels
  <2>3. Requests("Subscription", Requested(g.subscription)) \o Requests("Free Tool Calls", free) \in Seq(Fit(sane))
    BY <2>2, ConcatFacts
  <2> QED BY <2>3, EmptySeq DEF When
<1>7. e \in Seq(Fit(sane))
  BY <1>1, <1>2, RequestsFit, PlainLabels
<1>8. Synthetic(g) = Returns(lines)
  BY DEF Synthetic
<1> HIDE DEF a, b, c, d, e
<1>9. lines \in Seq(Fit(sane))
  BY <1>3, <1>4, <1>5, <1>6, <1>7, ConcatFacts
<1> HIDE DEF lines
<1>10. sane => lines # <<>>
  BY <1>2, <1>8 DEF Returns
<1> QED BY <1>8, <1>9, <1>10, ReturnsSound

LEMMA AmpSound ==
  ASSUME NEW g \in MayAnswer("amp"), NEW sane \in BOOLEAN, sane => Sane("amp", g)
  PROVE  SoundReport(Amp(g), sane) /\ Unique(Amp(g).metrics)
<1>1. /\ g.balance \in Optional([left : Int, total : Int]) /\ g.bonus \in BOOLEAN
      /\ g.credits \in Amount /\ g.ampFree \in BOOLEAN
  BY DEF MayAnswer
<1>2. sane => \A x \in g.balance : x.total > 0
  BY DEF Sane
<1> DEFINE none == g.balance = {} /\ g.credits = {}
           credits == IF none THEN {0} ELSE g.credits
           shown == {n \in credits : n > 0 \/ g.balance = {}}
           a == Opt(g.balance, LAMBDA x : Line("Free", "dollars", Max({0, x.total - x.left}), x.total))
           b == When(g.balance # {} /\ g.bonus, <<Text("Bonus", 0)>>)
           c == Opt(shown, LAMBDA n : Text("Credits", n))
           lines == a \o b \o c
<1>3. a \in Seq(Fit(sane)) /\ (a = <<>> <=> g.balance = {})
  <2> DEFINE x == The(g.balance)
  <2>1. a = One(g.balance # {}, Line("Free", "dollars", Max({0, x.total - x.left}), x.total))
    BY DEF Opt, One
  <2>2. g.balance # {} => x.total \in Int /\ x.left \in Int /\ x \in g.balance
    <3> DEFINE R == [left : Int, total : Int]
    <3>1. g.balance \in Optional(R)
      BY <1>1
    <3> HIDE DEF R
    <3>2. g.balance # {} => x \in g.balance /\ x \in R
      BY <3>1, OptionalFacts
    <3> QED BY <3>2 DEF R
  <2> HIDE DEF x
  <2>3. g.balance # {} => Max({0, x.total - x.left}) \in Int /\ Max({0, x.total - x.left}) >= 0
    BY <2>2, MaxOfTwo
  <2>4. g.balance # {} => (sane => x.total > 0)
    BY <1>2, <2>2
  <2> DEFINE some == g.balance # {}
             used == Max({0, x.total - x.left})
             limit == x.total
  <2>5. some \in BOOLEAN /\ (some => used \in Int /\ limit \in Int /\ (sane => used >= 0 /\ limit > 0))
    BY <2>2, <2>3, <2>4
  <2>6. a = One(some, Line("Free", "dollars", used, limit))
    BY <2>1
  <2> HIDE DEF a, b, c, some, used, limit
  <2>7. a \in Seq(Fit(sane)) /\ (a = <<>> <=> ~some)
    <3>1. "Free" \in Plain
      BY PlainLabels
    <3> QED BY <2>5, <2>6, <3>1, OneDollars
  <2> QED BY <2>7 DEF some
<1>4. b \in Seq(Fit(sane))
  <2>1. b = One(g.balance # {} /\ g.bonus, Text("Bonus", 0))
    BY DEF When, One
  <2>2. 0 \in Int
    OBVIOUS
  <2> HIDE DEF a, b, c
  <2>9. "Bonus" \in Plain
    BY PlainLabels
  <2> QED BY <1>1, <2>1, <2>2, <2>9, OneText
<1>5. c \in Seq(Fit(sane)) /\ (c = <<>> <=> shown = {})
  <2>1. credits \in Amount
    BY <1>1, OptionalOne DEF Amount
  <2>2. shown \in Amount
    BY <2>1, OptionalPart DEF Amount
  <2>3. c = One(shown # {}, Text("Credits", The(shown)))
    BY DEF Opt, One
  <2> HIDE DEF shown, credits
  <2>4. shown # {} => The(shown) \in Int
    BY <2>2, OptionalFacts DEF Amount
  <2> HIDE DEF a, b, c
  <2>9. "Credits" \in Plain
    BY PlainLabels
  <2> QED BY <2>3, <2>4, <2>9, OneText
<1>6. g.balance = {} => shown # {}
  BY <1>1
<1>7. Amp(g) = IF none /\ g.ampFree THEN Throws ELSE Returns(lines)
  BY DEF Amp, ParseBalanceText
<1> HIDE DEF a, b, c, shown, credits
<1>8. lines \in Seq(Fit(sane)) /\ lines # <<>>
  <2>1. a \o b \in Seq(Fit(sane)) /\ (a \o b = <<>> <=> a = <<>> /\ b = <<>>)
    BY <1>3, <1>4, ConcatFacts
  <2>2. lines \in Seq(Fit(sane)) /\ (lines = <<>> <=> a \o b = <<>> /\ c = <<>>)
    BY <1>5, <2>1, ConcatFacts
  <2> QED BY <1>3, <1>5, <1>6, <2>1, <2>2
<1> HIDE DEF lines
<1> QED BY <1>7, <1>8, ThrowsSound, ReturnsSound

LEMMA FactorySound ==
  ASSUME NEW g \in MayAnswer("factory"), NEW sane \in BOOLEAN, sane => Sane("factory", g)
  PROVE  SoundReport(Factory(g), sane) /\ Unique(Factory(g).metrics)
<1>1. g.standard \in Optional(Pair) /\ g.premium \in Optional(Pair)
  BY DEF MayAnswer
<1>2. sane => /\ \A q \in g.standard : q.used >= 0 /\ q.limit > 0
              /\ \A q \in g.premium : q.used >= 0
  BY DEF Sane, Positive, UsedSome
<1> DEFINE premium == {q \in g.premium : q.limit > 0}
           lines == Requests("Standard", g.standard) \o Requests("Premium", premium)
<1>3. premium \in Optional(Pair) /\ (sane => \A q \in premium : q.used >= 0 /\ q.limit > 0)
  BY <1>1, <1>2, OptionalPart
<1> HIDE DEF premium
<1>4. /\ Requests("Standard", g.standard) \in Seq(Fit(sane))
      /\ Requests("Premium", premium) \in Seq(Fit(sane))
  BY <1>1, <1>2, <1>3, RequestsFit, PlainLabels
<1>5. lines \in Seq(Fit(sane))
  BY <1>4, ConcatFacts
<1>6. Factory(g) = Returns(OrBadge(lines))
  BY DEF Factory, premium
<1> HIDE DEF lines
<1> QED BY <1>5, <1>6, OrBadgeFit, ReturnsSound

(***************************************************************************)
(* antigravity.                                                            *)
(***************************************************************************)
CloudModel == [model : STRING, fraction : Amount, named : BOOLEAN, internal : BOOLEAN]
PoolNames == {"Gemini Pro", "Gemini Flash", "Claude"}

LEMMA PoolLabelFacts ==
  \A model : PoolLabel(model) = "Gemini Pro" \/ PoolLabel(model) = "Gemini Flash"
             \/ PoolLabel(model) = "Claude"
BY DEF PoolLabel

LEMMA LeftFacts ==
  ASSUME NEW models \in Seq(CloudModel), NEW pool
  PROVE  LET left == LeftInPool(models, pool) IN
           /\ left \subseteq Int
           /\ left # {} => Min(left) \in left /\ \A n \in left : Min(left) <= n
<1> DEFINE S == {x \in ToSet(models) : PoolLabel(x.model) = pool}
           Left(x) == OrElse(x.fraction, 0)
           some == Among(models, S)
           t == [i \in DOMAIN some |-> Left(some[i])]
           left == {Left(x) : x \in S}
<1>1. \A x \in CloudModel : Left(x) \in Int
  BY OptionalFacts DEF CloudModel, Amount, OrElse
<1>2. some \in Seq(CloudModel) /\ ToSet(some) = S
  BY AmongFacts
<1> HIDE DEF Left, some
<1>3. /\ Len(some) \in Nat /\ DOMAIN some = 1 .. Len(some) /\ ToSet(some) = {some[i] : i \in 1 .. Len(some)}
      /\ \A i \in 1 .. Len(some) : some[i] \in CloudModel
  BY <1>2, LenProperties, ElementOfSeq, SetOfSeq
<1>4. Mapped(t, some) /\ \A i \in 1 .. Len(some) : t[i] = Left(some[i]) /\ t[i] \in Int
  BY <1>1, <1>3 DEF Mapped
<1> HIDE DEF t, S
<1>5. t \in Seq(Int) /\ ToSet(t) = {t[i] : i \in 1 .. Len(some)}
  <2> DEFINE I == Int
  <2>1. \A i \in 1 .. Len(some) : t[i] \in I
    BY <1>4
  <2> HIDE DEF I
  <2>2. t \in Seq(I) /\ ToSet(t) = {t[i] : i \in 1 .. Len(some)}
    BY <1>2, <1>4, <2>1, MappedFacts
  <2> QED BY <2>2 DEF I
<1>6. ToSet(t) = left
  BY <1>2, <1>3, <1>4, <1>5
<1>7. left # {} => t # <<>>
  <2>1. ToSet(<<>>) = {}
    BY DEF ToSet
  <2> QED BY <1>6, <2>1
<1>8. left \subseteq Int
  BY <1>5, <1>6, SetOfSeq
<1>9. left # {} => Min(left) \in left /\ \A n \in left : Min(left) <= n
  BY <1>5, <1>6, <1>7, MinOfSeq
<1>10. LeftInPool(models, pool) = left
  BY DEF LeftInPool, Left, S
<1> QED BY <1>8, <1>9, <1>10

(* What a pool shows as used covers each of its models.                    *)
LEMMA UsedFacts ==
  ASSUME NEW models \in Seq(CloudModel), NEW pool
  PROVE  /\ UsedOf(models, pool) # {} <=> \E m \in ToSet(models) : PoolLabel(m.model) = pool
         /\ UsedOf(models, pool) # {} =>
              /\ The(UsedOf(models, pool)) \in Nat
              /\ \A m \in ToSet(models) : PoolLabel(m.model) = pool =>
                   The(UsedOf(models, pool)) >= 100 - Clamp(OrElse(m.fraction, 0), 0, 100)
<1> DEFINE left == LeftInPool(models, pool)
           used == UsedOf(models, pool)
           n == 100 - Clamp(Min(left), 0, 100)
<1>1. left # {} <=> \E m \in ToSet(models) : PoolLabel(m.model) = pool
  BY DEF LeftInPool
<1>2. used = IF left = {} THEN {} ELSE {n}
  BY DEF UsedOf
<1>3. left \subseteq Int /\ (left # {} => Min(left) \in left /\ \A x \in left : Min(left) <= x)
  BY LeftFacts
<1>4. \A m \in ToSet(models) : PoolLabel(m.model) = pool => OrElse(m.fraction, 0) \in left
  BY DEF LeftInPool
<1> HIDE DEF left, used
<1>5. ASSUME left # {}
      PROVE  used # {} /\ The(used) = n
  BY <1>2, <1>5 DEF The
<1>6. ASSUME left # {}
      PROVE  n \in Nat /\ \A x \in left : n >= 100 - Clamp(x, 0, 100)
  <2>1. Min(left) \in Int /\ \A x \in left : x \in Int /\ Min(left) <= x
    BY <1>3, <1>6
  <2> QED BY <2>1 DEF Clamp
<1> HIDE DEF n
<1> QED BY <1>1, <1>2, <1>4, <1>5, <1>6 DEF used

LEMMA PoolFacts ==
  ASSUME NEW models \in Seq(CloudModel), NEW pool \in PoolNames, NEW sane \in BOOLEAN
  PROVE  LET some == \E m \in ToSet(models) : PoolLabel(m.model) = pool
             key == <<"quota", "model", pool, "utilization">>
         IN /\ PoolLine(models, pool) \in Seq(Fit(sane))
            /\ PoolLine(models, pool) = <<>> <=> ~some
            /\ PoolMetric(models, pool) \in Seq(NatMetric)
            /\ Unique(PoolMetric(models, pool)) /\ KeysOf(PoolMetric(models, pool)) \subseteq {key}
<1> DEFINE used == UsedOf(models, pool)
           c == used # {}
           n == The(used)
           key == <<"quota", "model", pool, "utilization">>
<1>1. PoolLine(models, pool) = One(c, Percent(pool, n))
  BY DEF PoolLine, Opt, One
<1>2. PoolMetric(models, pool) = One(c, Metric(key, n))
  BY DEF PoolMetric, Opt, One
<1>3. c <=> \E m \in ToSet(models) : PoolLabel(m.model) = pool
  BY UsedFacts
<1>4. c => n \in Nat
  BY UsedFacts
<1>5. c \in BOOLEAN /\ (c => n \in Int /\ n >= 0)
  BY <1>4
<1>6. pool \in Plain /\ pool \in KeyParts
  <2>1. PoolNames \subseteq Plain
    BY PlainLabels DEF PoolNames
  <2> QED BY <2>1, KeyFacts DEF Plain
<1>7. key \in Seq(KeyParts)
  BY <1>6, KeyFacts, PartFacts
<1> HIDE DEF c, n, key
<1>8. One(c, Percent(pool, n)) \in Seq(Fit(sane)) /\ (One(c, Percent(pool, n)) = <<>> <=> ~c)
  BY <1>5, <1>6, OnePercent
<1>9. LET m == Metric(key, n) IN
        One(c, m) \in Seq(NatMetric) /\ Unique(One(c, m)) /\ KeysOf(One(c, m)) \subseteq {key}
  BY <1>4, <1>5, <1>7, OneMetric
<1> QED BY <1>1, <1>2, <1>3, <1>8, <1>9 DEF key

LEMMA AntigravitySound ==
  ASSUME NEW g \in MayAnswer("antigravity"), NEW sane \in BOOLEAN
  PROVE  SoundReport(Antigravity(g), sane) /\ Unique(Antigravity(g).metrics)
<1> DEFINE models == ParseCloudCodeModels(g.models)
           lines == BuildModelLines(models)
           metrics == BuildModelMetrics(models)
<1>1. g.models \in Seq(CloudModel)
  BY DEF MayAnswer, CloudModel
<1>2. models \in Seq(CloudModel)
  BY <1>1, AmongFacts DEF ParseCloudCodeModels
<1>3. Antigravity(g) = IF models = <<>> THEN Throws ELSE ReturnsBoth(lines, metrics)
  BY DEF Antigravity
<1> HIDE DEF models
<1> DEFINE L(pool) == PoolLine(models, pool)
           M(pool) == PoolMetric(models, pool)
           K(pool) == <<"quota", "model", pool, "utilization">>
           Some(pool) == \E m \in ToSet(models) : PoolLabel(m.model) = pool
<1>4. \A pool \in PoolNames :
        /\ L(pool) \in Seq(Fit(sane)) /\ (L(pool) = <<>> <=> ~Some(pool))
        /\ M(pool) \in Seq(NatMetric) /\ Unique(M(pool)) /\ KeysOf(M(pool)) \subseteq {K(pool)}
  BY <1>2, PoolFacts
<1>5. "Gemini Pro" \in PoolNames /\ "Gemini Flash" \in PoolNames /\ "Claude" \in PoolNames
  BY DEF PoolNames
<1>6. ASSUME models # <<>>
      PROVE  Some("Gemini Pro") \/ Some("Gemini Flash") \/ Some("Claude")
  <2>1. PICK m : m \in ToSet(models)
    BY <1>2, <1>6, SomeInSeq
  <2>2. \/ PoolLabel(m.model) = "Gemini Pro" \/ PoolLabel(m.model) = "Gemini Flash"
        \/ PoolLabel(m.model) = "Claude"
    BY PoolLabelFacts
  <2> QED BY <2>1, <2>2
<1>7. K("Gemini Pro") # K("Gemini Flash") /\ K("Gemini Pro") # K("Claude") /\ K("Gemini Flash") # K("Claude")
  OBVIOUS
<1> HIDE DEF L, M, K, Some
<1> DEFINE a == "Gemini Pro"
           b == "Gemini Flash"
           c == "Claude"
<1>8. lines \in Seq(Fit(sane)) /\ (models # <<>> => lines # <<>>)
  <2>1. lines = (L("Gemini Pro") \o L("Gemini Flash")) \o L("Claude")
    BY DEF BuildModelLines, L
  <2> DEFINE F == Fit(sane)
             ab == L(a) \o L(b)
  <2>2. L(a) \in Seq(F) /\ L(b) \in Seq(F) /\ L(c) \in Seq(F)
    BY <1>4, <1>5
  <2>3. lines = ab \o L(c)
    BY <2>1
  <2>4. (models # <<>>) => L(a) # <<>> \/ L(b) # <<>> \/ L(c) # <<>>
    BY <1>4, <1>5, <1>6
  <2> HIDE DEF F, a, b, c, lines
  <2>5. ab \in Seq(F) /\ (ab = <<>> <=> L(a) = <<>> /\ L(b) = <<>>)
    BY <2>2, ConcatFacts
  <2> HIDE DEF ab
  <2>6. lines \in Seq(F) /\ (lines = <<>> <=> ab = <<>> /\ L(c) = <<>>)
    BY <2>2, <2>3, <2>5, ConcatFacts
  <2> QED BY <2>4, <2>5, <2>6 DEF F
<1>9. metrics \in Seq(NatMetric) /\ Unique(metrics)
  <2> DEFINE ab == M(a) \o M(b)
  <2>1. metrics = ab \o M(c)
    BY DEF BuildModelMetrics, M
  <2>2. /\ M(a) \in Seq(NatMetric) /\ Unique(M(a)) /\ KeysOf(M(a)) \subseteq {K(a)}
        /\ M(b) \in Seq(NatMetric) /\ Unique(M(b)) /\ KeysOf(M(b)) \subseteq {K(b)}
        /\ M(c) \in Seq(NatMetric) /\ Unique(M(c)) /\ KeysOf(M(c)) \subseteq {K(c)}
    BY <1>4, <1>5
  <2>3. K(a) # K(b) /\ K(a) # K(c) /\ K(b) # K(c)
    BY <1>7
  <2> HIDE DEF a, b, c, metrics
  <2>4. ab \in Seq(NatMetric) /\ Unique(ab) /\ KeysOf(ab) = KeysOf(M(a)) \cup KeysOf(M(b))
    BY <2>2, <2>3, UniqueConcat
  <2> HIDE DEF ab
  <2>5. KeysOf(ab) \cap KeysOf(M(c)) = {}
    BY <2>2, <2>3, <2>4
  <2> QED BY <2>1, <2>2, <2>4, <2>5, UniqueConcat
<1> HIDE DEF lines, metrics
<1> QED BY <1>3, <1>8, <1>9, ThrowsSound, BothSound

(***************************************************************************)
(* copilot.  Its metrics are those of its lines, so two lines with one     *)
(* label are two metrics with one key.                                     *)
(***************************************************************************)
LEMMA CopilotOne ==
  ASSUME NEW c \in BOOLEAN, NEW label, NEW n
  PROVE  CopilotMetrics(One(c, Percent(label, n))) = One(c, Metric(<<"quota", label, "utilization">>, n))
<1> DEFINE l == Percent(label, n)
           m == Metric(<<"quota", label, "utilization">>, n)
<1>1. l.label = label /\ l.used = n
  BY DEF Percent, Line
<1>2. CASE c
  <2>1. CopilotMetrics(<<l>>) = [i \in DOMAIN <<l>> |-> Metric(<<"quota", <<l>>[i].label, "utilization">>, <<l>>[i].used)]
    BY DEF CopilotMetrics, Each
  <2> HIDE DEF l
  <2>2. DOMAIN <<l>> = 1 .. 1 /\ <<l>>[1] = l
    OBVIOUS
  <2>3. CopilotMetrics(<<l>>) = [i \in 1 .. 1 |-> m]
    BY <1>1, <2>1, <2>2
  <2> HIDE DEF m
  <2>4. [i \in 1 .. 1 |-> m] = <<m>>
    OBVIOUS
  <2> QED BY <1>2, <2>3, <2>4 DEF One, l, m
<1>3. CASE ~c
  BY <1>3 DEF One, CopilotMetrics, Each
<1> QED BY <1>2, <1>3

LEMMA CopilotConcat ==
  ASSUME NEW s \in Seq(LineType), NEW t \in Seq(LineType)
  PROVE  CopilotMetrics(s \o t) = CopilotMetrics(s) \o CopilotMetrics(t)
<1> DEFINE F(l) == Metric(<<"quota", l.label, "utilization">>, l.used)
           T == {F(l) : l \in LineType}
           u == s \o t
           c == CopilotMetrics(s)
           d == CopilotMetrics(t)
           e == CopilotMetrics(u)
<1>1. /\ u \in Seq(LineType) /\ Len(u) = Len(s) + Len(t) /\ Len(s) \in Nat /\ Len(t) \in Nat
      /\ \A i \in 1 .. Len(s) + Len(t) : u[i] = IF i <= Len(s) THEN s[i] ELSE t[i - Len(s)]
  BY ConcatProperties, LenProperties
<1>2. \A v \in Seq(LineType) :
        LET w == CopilotMetrics(v) IN
        w \in Seq(T) /\ Len(w) = Len(v) /\ \A i \in 1 .. Len(v) : w[i] = F(v[i])
  <2> SUFFICES ASSUME NEW v \in Seq(LineType)
               PROVE  LET w == CopilotMetrics(v) IN
                      w \in Seq(T) /\ Len(w) = Len(v) /\ \A i \in 1 .. Len(v) : w[i] = F(v[i])
    OBVIOUS
  <2> DEFINE w == CopilotMetrics(v)
  <2>1. DOMAIN v = 1 .. Len(v) /\ \A i \in 1 .. Len(v) : v[i] \in LineType
    BY LenProperties, ElementOfSeq
  <2>2. w = [i \in DOMAIN v |-> F(v[i])]
    BY DEF CopilotMetrics, Each
  <2> HIDE DEF w, F
  <2>3. Mapped(w, v) /\ \A i \in 1 .. Len(v) : w[i] = F(v[i]) /\ w[i] \in T
    BY <2>1, <2>2 DEF Mapped
  <2> HIDE DEF T
  <2>4. w \in Seq(T) /\ Len(w) = Len(v)
    BY <2>3, MappedFacts
  <2> QED BY <2>3, <2>4, SMTT(30) DEF w
<1> HIDE DEF u, c, d, e, F, T
<1>3. /\ e \in Seq(T) /\ Len(e) = Len(u) /\ \A i \in 1 .. Len(u) : e[i] = F(u[i])
      /\ c \in Seq(T) /\ Len(c) = Len(s) /\ \A i \in 1 .. Len(s) : c[i] = F(s[i])
      /\ d \in Seq(T) /\ Len(d) = Len(t) /\ \A i \in 1 .. Len(t) : d[i] = F(t[i])
  BY <1>1, <1>2 DEF c, d, e
<1>4. /\ c \o d \in Seq(T) /\ Len(c \o d) = Len(s) + Len(t)
      /\ \A i \in 1 .. Len(s) + Len(t) : (c \o d)[i] = IF i <= Len(s) THEN c[i] ELSE d[i - Len(s)]
  <2>1. c \in Seq(T) /\ d \in Seq(T) /\ Len(c) = Len(s) /\ Len(d) = Len(t)
    BY <1>3
  <2>2. /\ c \o d \in Seq(T) /\ Len(c \o d) = Len(c) + Len(d)
        /\ \A i \in 1 .. Len(c) + Len(d) : (c \o d)[i] = IF i <= Len(c) THEN c[i] ELSE d[i - Len(c)]
    BY <2>1, ConcatProperties
  <2> QED BY <2>1, <2>2
<1>5. \A i \in 1 .. Len(s) + Len(t) : e[i] = (c \o d)[i]
  <2> TAKE i \in 1 .. Len(s) + Len(t)
  <2>1. CASE i <= Len(s)
    <3>1. i \in 1 .. Len(s)
      BY <1>1, <2>1
    <3>2. e[i] = F(u[i]) /\ u[i] = s[i] /\ (c \o d)[i] = c[i]
      BY <1>1, <1>3, <1>4, <2>1
    <3> QED BY <1>3, <3>1, <3>2
  <2>2. CASE ~(i <= Len(s))
    <3>1. i - Len(s) \in 1 .. Len(t)
      BY <1>1, <2>2
    <3>2. e[i] = F(u[i]) /\ u[i] = t[i - Len(s)] /\ (c \o d)[i] = d[i - Len(s)]
      BY <1>1, <1>3, <1>4, <2>2
    <3> QED BY <1>3, <3>1, <3>2
  <2> QED BY <2>1, <2>2
<1>6. e = c \o d
  <2>1. Len(e) = Len(c \o d) /\ \A i \in 1 .. Len(e) : e[i] = (c \o d)[i]
    BY <1>1, <1>3, <1>4, <1>5
  <2> QED BY <1>3, <1>4, <2>1, SeqEqual
<1> QED BY <1>6 DEF c, d, e, u

(***************************************************************************)
(* A percentage that is there, and its metric.                             *)
(***************************************************************************)
Pct(label, share) ==
  \E c \in BOOLEAN, n \in Nat : share = One(c, Percent(label, n))

LEMMA PctFacts ==
  ASSUME NEW label \in Plain, NEW share, Pct(label, share), NEW sane \in BOOLEAN
  PROVE  /\ share \in Seq(Fit(sane)) /\ share \in Seq(LineType)
         /\ CopilotMetrics(share) \in Seq(NatMetric) /\ Unique(CopilotMetrics(share))
         /\ KeysOf(CopilotMetrics(share)) \subseteq {<<"quota", label, "utilization">>}
<1>1. PICK c \in BOOLEAN, n \in Nat : share = One(c, Percent(label, n))
  BY DEF Pct
<1>2. c => n \in Int /\ n >= 0
  OBVIOUS
<1>3. share \in Seq(Fit(sane))
  BY <1>1, <1>2, OnePercent
<1>4. share \in Seq(LineType)
  BY <1>3, FitLines
<1> DEFINE key == <<"quota", label, "utilization">>
<1>5. label \in KeyParts
  BY KeyFacts DEF Plain
<1>6. key \in Seq(KeyParts)
  BY <1>5, KeyFacts, PartFacts
<1>7. CopilotMetrics(share) = One(c, Metric(key, n))
  BY <1>1, CopilotOne
<1> HIDE DEF key
<1>8. LET m == Metric(key, n) IN
      One(c, m) \in Seq(NatMetric) /\ Unique(One(c, m)) /\ KeysOf(One(c, m)) \subseteq {key}
  BY <1>6, OneMetric
<1> QED BY <1>3, <1>4, <1>7, <1>8 DEF key

LEMMA SnapshotPct ==
  ASSUME NEW label, NEW left \in Amount
  PROVE  Pct(label, Snapshot(label, left)) /\ (left = {} => Snapshot(label, left) = <<>>)
<1> DEFINE n == Clamp(100 - The(left), 0, 100)
           m == IF left = {} THEN 0 ELSE n
<1>1. Snapshot(label, left) = One(left # {}, Percent(label, m))
  BY DEF Snapshot, Opt, One
<1>2. left # {} => The(left) \in Int
  BY OptionalFacts DEF Amount
<1>3. m \in Nat
  BY <1>2, ClampPercent
<1> HIDE DEF m
<1> QED BY <1>1, <1>3 DEF Pct, One

LEMMA LimitedPct ==
  ASSUME NEW label, NEW q, q.left \in Amount, q.total \in Int
  PROVE  Pct(label, Limited(label, q)) /\ (q.left = {} => Limited(label, q) = <<>>)
<1> DEFINE use == LimitedUse(q)
           c == q.total > 0 /\ use # {}
           n == Clamp(Share(q.total - The(q.left), q.total), 0, 100)
           m == IF c THEN n ELSE 0
<1>1. q.left = {} => use = {}
  BY DEF LimitedUse
<1>2. ASSUME q.left # {}
      PROVE  use = {n} /\ The(use) = n /\ The(q.left) \in Int
  <2>1. q.left = {The(q.left)} /\ The(q.left) \in Int
    BY <1>2, OptionalFacts DEF Amount
  <2>2. use = {n}
    BY <2>1 DEF LimitedUse
  <2> HIDE DEF n, use
  <2> QED BY <2>1, <2>2, OptionalOne
<1>3. Limited(label, q) = One(c, Percent(label, The(use)))
  BY DEF Limited, When, Opt, One
<1>4. c => The(use) = m
  <2> HIDE DEF use, n
  <2> QED BY <1>1, <1>2
<1>5. m \in Nat
  <2>1. ASSUME c PROVE n \in Nat
    <3>1. q.total > 0 /\ The(q.left) \in Int
      BY <1>1, <1>2, <2>1
    <3>2. Share(q.total - The(q.left), q.total) \in Int
      BY <3>1, ShareFacts
    <3> QED BY <3>2, ClampPercent
  <2> HIDE DEF n, c
  <2> QED BY <2>1
<1>6. c \in BOOLEAN
  OBVIOUS
<1>7. q.left = {} => Limited(label, q) = <<>>
  BY <1>1, <1>3 DEF One
<1> HIDE DEF m, c, use
<1>8. Limited(label, q) = One(c, Percent(label, m))
  BY <1>3, <1>4 DEF One
<1> QED BY <1>5, <1>6, <1>7, <1>8 DEF Pct

LEMMA CopilotSound ==
  ASSUME NEW g \in MayAnswer("copilot"), NEW sane \in BOOLEAN
  PROVE  /\ SoundReport(Copilot(g), sane)
         /\ g.chat = {} \/ g.freeChat.left = {} => Unique(Copilot(g).metrics)
<1> DEFINE a == Snapshot("Premium", g.premium)
           b == Snapshot("Chat", g.chat)
           c == Limited("Chat", g.freeChat)
           d == Limited("Completions", g.completions)
           M(s) == CopilotMetrics(s)
           K(label) == <<"quota", label, "utilization">>
           F == Fit(sane)
           lines == a \o b \o c \o d
<1>1. /\ g.premium \in Amount /\ g.chat \in Amount
      /\ g.freeChat.left \in Amount /\ g.freeChat.total \in Int
      /\ g.completions.left \in Amount /\ g.completions.total \in Int
  BY DEF MayAnswer
<1>2. /\ Pct("Premium", a) /\ Pct("Chat", b) /\ Pct("Chat", c) /\ Pct("Completions", d)
      /\ g.chat = {} => b = <<>>
      /\ g.freeChat.left = {} => c = <<>>
  BY <1>1, SnapshotPct, LimitedPct
<1>3. "Premium" \in Plain /\ "Chat" \in Plain /\ "Completions" \in Plain
  BY PlainLabels
<1>4. Copilot(g) = ReturnsBoth(OrBadge(lines), M(lines))
  BY DEF Copilot
<1> HIDE DEF a, b, c, d
<1>5. /\ a \in Seq(F) /\ a \in Seq(LineType) /\ M(a) \in Seq(NatMetric) /\ Unique(M(a))
      /\ b \in Seq(F) /\ b \in Seq(LineType) /\ M(b) \in Seq(NatMetric) /\ Unique(M(b))
      /\ c \in Seq(F) /\ c \in Seq(LineType) /\ M(c) \in Seq(NatMetric) /\ Unique(M(c))
      /\ d \in Seq(F) /\ d \in Seq(LineType) /\ M(d) \in Seq(NatMetric) /\ Unique(M(d))
      /\ KeysOf(M(a)) \subseteq {K("Premium")} /\ KeysOf(M(b)) \subseteq {K("Chat")}
      /\ KeysOf(M(c)) \subseteq {K("Chat")} /\ KeysOf(M(d)) \subseteq {K("Completions")}
  BY <1>2, <1>3, PctFacts
<1>6. K("Premium") # K("Chat") /\ K("Premium") # K("Completions") /\ K("Chat") # K("Completions")
  OBVIOUS
<1> HIDE DEF M, K, F
<1>7. lines \in Seq(F)
  <2>1. a \o b \in Seq(F)
    BY <1>5, ConcatProperties
  <2>2. a \o b \o c \in Seq(F)
    BY <1>5, <2>1, ConcatProperties
  <2> QED BY <1>5, <2>2, ConcatProperties
<1>8. M(lines) = M(a) \o M(b) \o M(c) \o M(d)
  <2>1. a \o b \in Seq(LineType) /\ M(a \o b) = M(a) \o M(b)
    BY <1>5, ConcatProperties, CopilotConcat DEF M
  <2>2. a \o b \o c \in Seq(LineType) /\ M(a \o b \o c) = M(a \o b) \o M(c)
    BY <1>5, <2>1, ConcatProperties, CopilotConcat DEF M
  <2>3. M(lines) = M(a \o b \o c) \o M(d)
    BY <1>5, <2>2, CopilotConcat DEF M
  <2> QED BY <2>1, <2>2, <2>3
<1> HIDE DEF lines
<1>9. M(lines) \in Seq(NatMetric)
  <2>1. M(a) \o M(b) \in Seq(NatMetric)
    BY <1>5, ConcatProperties
  <2>2. M(a) \o M(b) \o M(c) \in Seq(NatMetric)
    BY <1>5, <2>1, ConcatProperties
  <2> QED BY <1>5, <1>8, <2>2, ConcatProperties
<1>10. ASSUME g.chat = {} \/ g.freeChat.left = {}
       PROVE  Unique(M(lines))
  <2>1. M(<<>>) = <<>>
    BY DEF M, CopilotMetrics, Each
  <2>2. KeysOf(M(b)) \cap KeysOf(M(c)) = {}
    BY <1>2, <1>10, <2>1, FewUnique
  <2> DEFINE ab == M(a) \o M(b)
             abc == ab \o M(c)
  <2>3. ab \in Seq(NatMetric) /\ Unique(ab) /\ KeysOf(ab) = KeysOf(M(a)) \cup KeysOf(M(b))
    BY <1>5, <1>6, UniqueConcat
  <2> HIDE DEF ab
  <2>4. KeysOf(ab) \cap KeysOf(M(c)) = {}
    BY <1>5, <1>6, <2>2, <2>3
  <2>5. abc \in Seq(NatMetric) /\ Unique(abc) /\ KeysOf(abc) = KeysOf(ab) \cup KeysOf(M(c))
    BY <1>5, <2>3, <2>4, UniqueConcat
  <2>6. M(lines) = abc \o M(d)
    BY <1>8 DEF ab
  <2> HIDE DEF abc
  <2>7. KeysOf(abc) \cap KeysOf(M(d)) = {}
    BY <1>5, <1>6, <2>3, <2>5
  <2> QED BY <1>5, <2>5, <2>6, <2>7, UniqueConcat
<1>11. OrBadge(lines) \in Seq(Fit(sane)) /\ OrBadge(lines) # <<>>
  BY <1>7, OrBadgeFit DEF F
<1>12. SoundReport(Copilot(g), sane) /\ (Unique(M(lines)) => Unique(Copilot(g).metrics))
  BY <1>4, <1>9, <1>11, BothSound
<1> QED BY <1>10, <1>12

(***************************************************************************)
(* perplexity.                                                             *)
(***************************************************************************)
LEMMA UsageCostFacts ==
  ASSUME NEW meters \in Seq(Seq(Amount))
  PROVE  SumUsageCostUsd(meters) # {} => The(SumUsageCostUsd(meters)) \in Int
<1> DEFINE costs == Present(FlattenSeq(meters))
<1>1. FlattenSeq(meters) \in Seq(Amount)
  <2> DEFINE A == Amount
  <2> HIDE DEF A
  <2>1. FlattenSeq(meters) \in Seq(A)
    BY FlattenFacts DEF A
  <2> QED BY <2>1 DEF A
<1>2. costs \in Seq(Int)
  BY <1>1, PresentFacts DEF Amount
<1> HIDE DEF costs
<1>3. Sum(costs) \in Int
  BY <1>2, SumFacts
<1>4. SumUsageCostUsd(meters) = {} \/ SumUsageCostUsd(meters) = {Sum(costs)}
  BY DEF SumUsageCostUsd, costs
<1> QED BY <1>3, <1>4, OptionalOne

LEMMA RateLinesFit ==
  ASSUME NEW rates \in Seq(Amount), NEW sane \in BOOLEAN
  PROVE  BuildRateLimitLines(rates) \in Seq(Fit(sane))
<1> DEFINE there == Present(rates)
           t == [i \in DOMAIN there |-> Text("rate", Max({0, there[i]}))]
           F == Fit(sane)
<1>1. there \in Seq(Int)
  BY PresentFacts DEF Amount
<1>2. BuildRateLimitLines(rates) = t
  BY DEF BuildRateLimitLines, Each
<1> HIDE DEF there
<1>3. DOMAIN there = 1 .. Len(there) /\ \A i \in 1 .. Len(there) : there[i] \in Int
  BY <1>1, LenProperties, ElementOfSeq
<1>4. "rate" \in Plain
  BY PlainLabels
<1>5. \A n \in Int : Text("rate", Max({0, n})) \in F
  <2> SUFFICES ASSUME NEW n \in Int PROVE Text("rate", Max({0, n})) \in F
    OBVIOUS
  <2>1. Max({0, n}) \in Int
    BY MaxOfTwo
  <2> QED BY <1>4, <2>1, TextFit
<1> HIDE DEF F
<1>6. Mapped(t, there) /\ \A i \in 1 .. Len(there) : t[i] \in F
  BY <1>3, <1>5 DEF Mapped
<1> HIDE DEF t
<1>7. t \in Seq(F)
  BY <1>1, <1>6, MappedFacts
<1> QED BY <1>2, <1>7 DEF F

LEMMA PerplexitySound ==
  ASSUME NEW g \in MayAnswer("perplexity"), NEW sane \in BOOLEAN
  PROVE  SoundReport(Perplexity(g), sane) /\ Unique(Perplexity(g).metrics)
<1> DEFINE group == PickGroupId({}, g.groups)
           balance == IF group = {} THEN 0 ELSE OrElse(g.balance, 0)
           used == IF g.meters = {} THEN {} ELSE SumUsageCostUsd(The(g.meters))
           a == When(balance > 0, Opt(used, LAMBDA n : Line("API credits", "dollars", Max({0, n}), balance)))
           b == BuildRateLimitLines(g.rates)
           lines == a \o b
<1>1. g.balance \in Amount /\ g.meters \in Optional(Seq(Seq(Amount))) /\ g.rates \in Seq(Amount)
  BY DEF MayAnswer
<1>2. balance \in Int
  BY <1>1, OptionalFacts DEF Amount, OrElse
<1>3. used # {} => The(used) \in Int
  <2>1. g.meters # {} => The(g.meters) \in Seq(Seq(Amount))
    <3> DEFINE S == Seq(Seq(Amount))
    <3>1. g.meters \in Optional(S)
      BY <1>1
    <3> HIDE DEF S
    <3>2. g.meters # {} => The(g.meters) \in S
      BY <3>1, OptionalFacts
    <3> QED BY <3>2 DEF S
  <2> QED BY <2>1, UsageCostFacts
<1>4. Perplexity(g) = IF lines = <<>> THEN Throws ELSE Returns(lines)
  BY DEF Perplexity
<1> HIDE DEF balance, used
<1>5. a \in Seq(Fit(sane))
  <2> DEFINE c == balance > 0 /\ used # {}
             n == Max({0, The(used)})
  <2>1. a = One(c, Line("API credits", "dollars", n, balance))
    BY DEF When, Opt, One
  <2>2. c \in BOOLEAN /\ (c => n \in Int /\ balance \in Int /\ (sane => n >= 0 /\ balance > 0))
    BY <1>2, <1>3, MaxOfTwo
  <2>3. "API credits" \in Plain
    BY PlainLabels
  <2> HIDE DEF a, c, n
  <2> QED BY <2>1, <2>2, <2>3, OneDollars
<1>6. b \in Seq(Fit(sane))
  BY <1>1, RateLinesFit
<1> HIDE DEF a, b
<1>7. lines \in Seq(Fit(sane))
  BY <1>5, <1>6, ConcatProperties
<1> HIDE DEF lines
<1> QED BY <1>4, <1>7, ThrowsSound, ReturnsSound

(***************************************************************************)
(* zai.                                                                    *)
(***************************************************************************)
ZaiLimit == [type : STRING, unit : Amount, percent : Amount, current : Int, usage : Amount]

(* findLimit prefers the unit asked for, and takes a limit without one     *)
(* otherwise.                                                              *)
LEMMA FindLimitFacts ==
  ASSUME NEW limits \in Seq(ZaiLimit), NEW type, NEW unit
  PROVE  LET found == FindLimit(limits, type, unit)
             T == {x \in ToSet(limits) : x.type = type}
         IN /\ found # {} => The(found) \in T /\ found = {The(found)}
            /\ (\E x \in T : x.unit = unit) => The(found) \in {x \in T : x.unit = unit \/ unit = {}}
<1> DEFINE T == {x \in ToSet(limits) : x.type = type}
           E == {x \in T : unit = {} \/ x.unit = unit}
           exact == Among(limits, E)
           any == Among(limits, {x \in T : x.unit = {}})
           seen == exact \o any
<1>1. exact \in Seq(ZaiLimit) /\ ToSet(exact) = E
  BY AmongFacts
<1>2. any \in Seq(ZaiLimit) /\ ToSet(any) \subseteq T
  BY AmongFacts
<1>3. FindLimit(limits, type, unit) = IF seen = <<>> THEN {} ELSE {seen[1]}
  BY DEF FindLimit
<1> HIDE DEF exact, any
<1>4. /\ seen \in Seq(ZaiLimit) /\ ToSet(seen) = ToSet(exact) \cup ToSet(any)
      /\ seen = <<>> <=> exact = <<>> /\ any = <<>>
  BY <1>1, <1>2, ConcatFacts
<1>5. exact # <<>> => seen[1] = exact[1] /\ exact[1] \in E
  <2> SUFFICES ASSUME exact # <<>> PROVE seen[1] = exact[1] /\ exact[1] \in E
    OBVIOUS
  <2>1. 1 \in 1 .. Len(exact) /\ Len(exact) \in Nat /\ Len(any) \in Nat
    BY <1>1, EmptySeq, LenProperties
  <2>2. 1 \in 1 .. Len(exact) + Len(any)
    BY <2>1
  <2>3. seen[1] = exact[1]
    BY <1>1, <1>2, <2>1, <2>2, ConcatProperties
  <2>4. exact[1] \in ToSet(exact)
    BY <1>1, <2>1, SetOfSeq
  <2> QED BY <1>1, <2>3, <2>4
<1> HIDE DEF seen
<1>6. seen # <<>> => seen[1] \in T
  <2> SUFFICES ASSUME seen # <<>> PROVE seen[1] \in T
    OBVIOUS
  <2>1. 1 \in 1 .. Len(seen)
    BY <1>4, EmptySeq, LenProperties
  <2>2. seen[1] \in ToSet(seen)
    BY <1>4, <2>1, SetOfSeq
  <2> QED BY <1>1, <1>2, <1>4, <2>2
<1>7. (\E x \in T : x.unit = unit) => exact # <<>>
  BY <1>1, SomeInSeq
<1>8. seen # <<>> => The({seen[1]}) = seen[1]
  BY OptionalOne
<1> QED BY <1>3, <1>4, <1>5, <1>6, <1>7, <1>8

LEMMA TokenMetricsFacts ==
  ASSUME NEW x \in ZaiLimit, NEW name \in {"session", "weekly"}
  PROVE  LET ms == TokenMetrics(name, x) IN
           /\ ms \in Seq(NatMetric) /\ Unique(ms)
           /\ KeysOf(ms) \subseteq {<<"tokens", name, "used">>, <<"tokens", name, "limit">>}
<1> DEFINE usage == {n \in x.usage : n > 0}
           c == x.current >= 0
           d == usage # {}
           k == <<"tokens", name, "used">>
           l == <<"tokens", name, "limit">>
           a == One(c, Metric(k, x.current))
           b == One(d, Metric(l, The(usage)))
<1>1. x.current \in Int /\ x.usage \in Amount
  BY DEF ZaiLimit
<1>2. TokenMetrics(name, x) = a \o b
  BY DEF TokenMetrics, When, Opt, One
<1>3. usage \in Amount
  BY <1>1, OptionalPart DEF Amount
<1>4. d => The(usage) \in Nat
  <2>1. usage # {} => The(usage) \in usage /\ The(usage) \in Int
    <3> HIDE DEF usage
    <3> QED BY <1>3, OptionalFacts DEF Amount
  <2> QED BY <2>1
<1>5. c => x.current \in Nat
  BY <1>1
<1>6. c \in BOOLEAN /\ d \in BOOLEAN
  BY <1>1
<1>7. k \in Seq(KeyParts) /\ l \in Seq(KeyParts) /\ k # l
  <2>1. name \in KeyParts
    BY PartFacts
  <2> QED BY <2>1, KeyFacts, PartFacts
<1> HIDE DEF usage, c, d, k, l
<1>8. /\ a \in Seq(NatMetric) /\ Unique(a) /\ KeysOf(a) \subseteq {k}
      /\ b \in Seq(NatMetric) /\ Unique(b) /\ KeysOf(b) \subseteq {l}
  BY <1>4, <1>5, <1>6, <1>7, OneMetric
<1> HIDE DEF a, b
<1>9. a \o b \in Seq(NatMetric) /\ Unique(a \o b) /\ KeysOf(a \o b) = KeysOf(a) \cup KeysOf(b)
  BY <1>7, <1>8, UniqueConcat
<1> QED BY <1>2, <1>8, <1>9 DEF k, l

LEMMA ZaiSound ==
  ASSUME NEW g \in MayAnswer("zai"), NEW sane \in BOOLEAN, sane => Sane("zai", g)
  PROVE  SoundReport(Zai(g), sane) /\ Unique(Zai(g).metrics)
<1> DEFINE session == FindLimit(g.limits, "TOKENS_LIMIT", {3})
           weekly == FindLimit(g.limits, "TOKENS_LIMIT", {6})
           time == FindLimit(g.limits, "TIME_LIMIT", {})
           s == The(session)
           w == The(weekly)
           t == The(time)
           a == Opt(session, LAMBDA x : Percent("Session", OrElse(x.percent, 0)))
           b == Opt(weekly, LAMBDA x : Percent("Weekly", OrElse(x.percent, 0)))
           c == Opt(time, LAMBDA x : Line("Web Searches", "count", x.current, OrElse(x.usage, 0)))
           m == TokenMetrics("session", s)
           n == IF weekly = {} THEN <<>> ELSE TokenMetrics("weekly", w)
           lines == a \o b \o c
<1>1. g.limits \in Seq(ZaiLimit)
  BY DEF MayAnswer, ZaiLimit
<1>2. sane => \A x \in ToSet(g.limits) :
                /\ \A p \in x.percent : p >= 0
                /\ x.current >= 0
                /\ x.type = "TIME_LIMIT" => OrElse(x.usage, 0) > 0
  BY DEF Sane, NotNegative
<1>3. Zai(g) = IF session = {} THEN NoData("Session") ELSE ReturnsBoth(lines, m \o n)
  BY DEF Zai
<1>4. /\ session # {} => s \in ToSet(g.limits)
      /\ weekly # {} => w \in ToSet(g.limits)
      /\ time # {} => t \in ToSet(g.limits) /\ t.type = "TIME_LIMIT"
  BY <1>1, FindLimitFacts
<1> HIDE DEF session, weekly, time
<1>5. \A x \in ToSet(g.limits) :
        /\ x \in ZaiLimit
        /\ OrElse(x.percent, 0) \in Int /\ (sane => OrElse(x.percent, 0) >= 0)
        /\ x.current \in Int /\ OrElse(x.usage, 0) \in Int
  <2> SUFFICES ASSUME NEW x \in ToSet(g.limits)
               PROVE  /\ x \in ZaiLimit
                      /\ OrElse(x.percent, 0) \in Int /\ (sane => OrElse(x.percent, 0) >= 0)
                      /\ x.current \in Int /\ OrElse(x.usage, 0) \in Int
    OBVIOUS
  <2>1. x \in ZaiLimit
    BY <1>1, SetOfSeq
  <2>2. x.percent \in Amount /\ x.current \in Int /\ x.usage \in Amount
    BY <2>1 DEF ZaiLimit
  <2>3. /\ x.percent # {} => The(x.percent) \in x.percent /\ The(x.percent) \in Int
        /\ x.usage # {} => The(x.usage) \in Int
    BY <2>2, OptionalFacts DEF Amount
  <2> QED BY <1>2, <2>1, <2>2, <2>3 DEF OrElse
<1>6. a \in Seq(Fit(sane)) /\ (session # {} => a # <<>>)
  <2> DEFINE d == session # {}
             p == OrElse(s.percent, 0)
  <2>1. a = One(d, Percent("Session", p))
    BY DEF Opt, One
  <2>2. d \in BOOLEAN /\ (d => p \in Int /\ (sane => p >= 0)) /\ "Session" \in Plain
    BY <1>4, <1>5, PlainLabels
  <2> HIDE DEF a, d, p
  <2>3. a \in Seq(Fit(sane)) /\ (a = <<>> <=> ~d)
    BY <2>1, <2>2, OnePercent
  <2> QED BY <2>3 DEF d
<1>7. b \in Seq(Fit(sane))
  <2> DEFINE d == weekly # {}
             p == OrElse(w.percent, 0)
  <2>1. b = One(d, Percent("Weekly", p))
    BY DEF Opt, One
  <2>2. d \in BOOLEAN /\ (d => p \in Int /\ (sane => p >= 0)) /\ "Weekly" \in Plain
    BY <1>4, <1>5, PlainLabels
  <2> HIDE DEF b, d, p
  <2> QED BY <2>1, <2>2, OnePercent
<1>8. c \in Seq(Fit(sane))
  <2> DEFINE d == time # {}
             p == t.current
             q == OrElse(t.usage, 0)
  <2>1. c = One(d, Line("Web Searches", "count", p, q))
    BY DEF Opt, One
  <2>2. d \in BOOLEAN /\ (d => p \in Int /\ q \in Int /\ (sane => p >= 0 /\ q > 0))
    BY <1>2, <1>4, <1>5
  <2>3. "Web Searches" \in Plain
    BY PlainLabels
  <2> HIDE DEF c, d, p, q
  <2> QED BY <2>1, <2>2, <2>3, OneCount
<1> HIDE DEF a, b, c
<1>9. lines \in Seq(Fit(sane)) /\ (session # {} => lines # <<>>)
  <2>1. a \o b \in Seq(Fit(sane)) /\ (a \o b = <<>> <=> a = <<>> /\ b = <<>>)
    BY <1>6, <1>7, ConcatFacts
  <2>2. lines \in Seq(Fit(sane)) /\ (lines = <<>> <=> a \o b = <<>> /\ c = <<>>)
    BY <1>8, <2>1, ConcatFacts
  <2> QED BY <1>6, <2>1, <2>2
<1>10. session # {} => m \o n \in Seq(NatMetric) /\ Unique(m \o n)
  <2> SUFFICES ASSUME session # {} PROVE m \o n \in Seq(NatMetric) /\ Unique(m \o n)
    OBVIOUS
  <2> DEFINE K(x) == {<<"tokens", x, "used">>, <<"tokens", x, "limit">>}
  <2>1. m \in Seq(NatMetric) /\ Unique(m) /\ KeysOf(m) \subseteq K("session")
    <3>1. s \in ZaiLimit
      BY <1>4, <1>5
    <3> HIDE DEF s
    <3> QED BY <3>1, TokenMetricsFacts
  <2>2. n \in Seq(NatMetric) /\ Unique(n) /\ KeysOf(n) \subseteq K("weekly")
    <3>1. CASE weekly = {}
      BY <3>1, FewUnique
    <3>2. CASE weekly # {}
      <4>1. w \in ZaiLimit
        BY <1>4, <1>5, <3>2
      <4> HIDE DEF w
      <4> QED BY <3>2, <4>1, TokenMetricsFacts
    <3> QED BY <3>1, <3>2
  <2>3. K("session") \cap K("weekly") = {}
    OBVIOUS
  <2> HIDE DEF m, n, K
  <2>4. KeysOf(m) \cap KeysOf(n) = {}
    BY <2>1, <2>2, <2>3
  <2> QED BY <2>1, <2>2, <2>4, UniqueConcat
<1>11. <<Badge("Session")>> \in Seq(Fit(sane)) /\ <<Badge("Session")>> # <<>>
  <2>1. "Session" \in Plain
    BY PlainLabels
  <2>2. Badge("Session") \in Fit(sane)
    BY <2>1, BadgeFit
  <2> QED BY <2>2, SingletonFacts
<1> HIDE DEF lines, m, n
<1>12. CASE session = {}
  <2> DEFINE ls == <<Badge("Session")>>
  <2>1. Zai(g) = Returns(ls)
    BY <1>3, <1>12 DEF NoData
  <2> HIDE DEF ls
  <2> QED BY <1>11, <2>1, ReturnsSound DEF ls
<1>13. CASE session # {}
  BY <1>3, <1>9, <1>10, <1>13, BothSound
<1> QED BY <1>12, <1>13

(***************************************************************************)
(* minimax.                                                                *)
(***************************************************************************)
PlanItem == [total : Amount, percent : Amount, general : BOOLEAN, used : Amount,
             remaining : Amount, usage : Amount]

LEMMA FirstOfJoin ==
  ASSUME NEW S, NEW s \in Seq(S), NEW t \in Seq(S)
  PROVE  /\ s # <<>> => (s \o t)[1] = s[1] /\ s[1] \in ToSet(s)
         /\ s \o t # <<>> => (s \o t)[1] \in ToSet(s) \cup ToSet(t)
         /\ s = <<>> => s \o t = t
<1>1. s # <<>> => (s \o t)[1] = s[1] /\ s[1] \in ToSet(s)
  <2> SUFFICES ASSUME s # <<>> PROVE (s \o t)[1] = s[1] /\ s[1] \in ToSet(s)
    OBVIOUS
  <2>1. 1 \in 1 .. Len(s) /\ Len(s) \in Nat /\ Len(t) \in Nat
    BY EmptySeq, LenProperties
  <2>2. 1 \in 1 .. Len(s) + Len(t)
    BY <2>1
  <2>3. (s \o t)[1] = s[1]
    BY <2>1, <2>2, ConcatProperties
  <2> QED BY <2>1, <2>3, SetOfSeq
<1>2. s \o t # <<>> => (s \o t)[1] \in ToSet(s) \cup ToSet(t)
  <2> SUFFICES ASSUME s \o t # <<>> PROVE (s \o t)[1] \in ToSet(s) \cup ToSet(t)
    OBVIOUS
  <2> DEFINE u == s \o t
  <2>1. u \in Seq(S) /\ ToSet(u) = ToSet(s) \cup ToSet(t)
    BY ConcatFacts
  <2>2. u # <<>>
    OBVIOUS
  <2> HIDE DEF u
  <2>3. 1 \in 1 .. Len(u)
    BY <2>1, <2>2, EmptySeq, LenProperties
  <2>4. u[1] \in ToSet(u)
    BY <2>1, <2>3, SetOfSeq
  <2> QED BY <2>1, <2>4 DEF u
<1>3. s = <<>> => s \o t = t
  BY ConcatEmptySeq
<1> QED BY <1>1, <1>2, <1>3

LEMMA FirstOfSeq ==
  ASSUME NEW S, NEW s \in Seq(S)
  PROVE  /\ First(s) \in Seq(S) /\ (First(s) = <<>> <=> s = <<>>)
         /\ s # <<>> => First(s) = <<s[1]>> /\ First(s)[1] = s[1] /\ s[1] \in S /\ s[1] \in ToSet(s)
<1>1. CASE s = <<>>
  BY <1>1, EmptySeq DEF First
<1>2. CASE s # <<>>
  <2>1. 1 \in 1 .. Len(s)
    BY <1>2, EmptySeq, LenProperties
  <2>2. s[1] \in S /\ s[1] \in ToSet(s)
    BY <2>1, SetOfSeq, ElementOfSeq
  <2>3. First(s) = <<s[1]>>
    BY <1>2 DEF First
  <2> QED BY <1>2, <2>2, <2>3, SingletonFacts
<1> QED BY <1>1, <1>2

LEMMA MinimaxChosenFacts ==
  ASSUME NEW g \in MayAnswer("minimax")
  PROVE  LET it == MinimaxChosen(g)[1]
             someCount == \E x \in ToSet(g.items) : HasCount(x, g.cn)
         IN /\ MinimaxChosen(g) # <<>> => it \in PlanItem /\ (HasCount(it, g.cn) \/ HasPercent(it))
            /\ someCount => MinimaxChosen(g) # <<>> /\ HasCount(it, g.cn)
<1> DEFINE items == ToSet(g.items)
           C == {x \in items : HasCount(x, g.cn)}
           P == {x \in items : HasPercent(x)}
           counted == Among(g.items, C)
           shares == Among(g.items, P)
           general == Among(g.items, {x \in items : HasPercent(x) /\ x.general})
           rest == general \o shares
           s == counted \o rest
<1>1. g.items \in Seq(PlanItem)
  BY DEF MayAnswer, PlanItem
<1>2. counted \in Seq(PlanItem) /\ ToSet(counted) = C
  BY <1>1, AmongFacts
<1>3. shares \in Seq(PlanItem) /\ ToSet(shares) = P
  BY <1>1, AmongFacts
<1>4. general \in Seq(PlanItem) /\ ToSet(general) \subseteq P
  BY <1>1, AmongFacts
<1>5. MinimaxChosen(g) = First(counted \o general \o shares)
  BY DEF MinimaxChosen
<1> HIDE DEF counted, shares, general
<1>6. counted \o general \o shares = s
  BY <1>2, <1>3, <1>4, ConcatAssociative
<1>7. rest \in Seq(PlanItem) /\ ToSet(rest) \subseteq P
  <2>1. rest \in Seq(PlanItem) /\ ToSet(rest) = ToSet(general) \cup ToSet(shares)
    BY <1>3, <1>4, ConcatFacts
  <2> QED BY <1>3, <1>4, <2>1
<1> HIDE DEF rest
<1>8. s \in Seq(PlanItem) /\ ToSet(s) = C \cup ToSet(rest)
  BY <1>2, <1>7, ConcatFacts
<1>9. counted # <<>> => s # <<>> /\ s[1] = counted[1] /\ counted[1] \in C
  BY <1>2, <1>7, FirstOfJoin, ConcatFacts
<1>10. C # {} => counted # <<>>
  BY <1>2, SomeInSeq
<1> HIDE DEF s
<1>11. s # <<>> => First(s) # <<>> /\ First(s)[1] = s[1] /\ s[1] \in PlanItem /\ s[1] \in ToSet(s)
  BY <1>8, FirstOfSeq
<1>12. First(s) # <<>> => s # <<>>
  BY <1>8, FirstOfSeq
<1> QED BY <1>5, <1>6, <1>7, <1>8, <1>9, <1>10, <1>11, <1>12

LEMMA PromptsFacts ==
  ASSUME NEW n \in Int, NEW cn \in BOOLEAN
  PROVE  /\ Prompts(n, cn) \in Int /\ (n >= 0 => Prompts(n, cn) >= 0)
         /\ Prompts(n, cn) > 0 => n > 0
BY DEF Prompts

(* The clamp of minimax keeps what is used between nothing and the total.  *)
LEMMA MinimaxUsedFacts ==
  ASSUME NEW it \in PlanItem, it.total # {}, The(it.total) >= 0, MinimaxUsed(it) # {}
  PROVE  The(MinimaxUsed(it)) \in 0 .. The(it.total)
<1> DEFINE left == Else(it.remaining, it.usage)
           t == The(it.total)
           raw == Else(it.used, {t - r : r \in left})
<1>1. /\ it.total \in Amount /\ it.used \in Amount /\ it.remaining \in Amount /\ it.usage \in Amount
  BY DEF PlanItem
<1>2. t \in Int
  BY <1>1, OptionalFacts DEF Amount
<1>3. left \in Amount
  BY <1>1 DEF Else
<1> HIDE DEF left, t
<1>4. raw \in Amount
  <2> DEFINE rest == {t - r : r \in left}
  <2>4. rest \in Amount
    BY <1>2, <1>3, LeftOf
  <2>5. raw = Else(it.used, rest)
    OBVIOUS
  <2> HIDE DEF rest, raw
  <2> QED BY <1>1, <2>4, <2>5 DEF Else
<1>5. MinimaxUsed(it) = {Clamp(n, 0, t) : n \in raw}
  BY DEF MinimaxUsed, left, t
<1> HIDE DEF raw
<1>6. raw # {} /\ raw = {The(raw)} /\ The(raw) \in Int
  <2>1. raw # {}
    BY <1>5
  <2> QED BY <1>4, <2>1, OptionalFacts DEF Amount
<1> DEFINE n == Clamp(The(raw), 0, t)
<1>7. MinimaxUsed(it) = {n}
  BY <1>5, <1>6
<1>8. n \in 0 .. t
  BY <1>2, <1>6 DEF Clamp, t
<1> HIDE DEF n
<1> QED BY <1>7, <1>8, OptionalOne DEF t

LEMMA MinimaxSound ==
  ASSUME NEW g \in MayAnswer("minimax"), NEW sane \in BOOLEAN
  PROVE  SoundReport(Minimax(g), sane) /\ Unique(Minimax(g).metrics)
<1> DEFINE it == MinimaxChosen(g)[1]
           used == Prompts(The(MinimaxUsed(it)), g.cn)
           limit == Prompts(The(it.total), g.cn)
           share == 100 - The(it.percent)
           a == Metric(<<"requests", "prompt", "used">>, used)
           b == Metric(<<"requests", "prompt", "limit">>, limit)
           lines == <<Line("Session", "count", used, limit)>>
           lines2 == <<Percent("Session", share)>>
<1>0. g.cn \in BOOLEAN
  BY DEF MayAnswer
<1>1. Minimax(g) = IF MinimaxChosen(g) = <<>> THEN Throws
                   ELSE IF ~HasCount(it, g.cn) THEN Returns(lines2)
                   ELSE IF MinimaxUsed(it) = {} THEN Throws
                   ELSE ReturnsBoth(lines, <<a, b>>)
  BY DEF Minimax
<1>2. MinimaxChosen(g) # <<>> => it \in PlanItem /\ (HasCount(it, g.cn) \/ HasPercent(it))
  BY MinimaxChosenFacts
<1> HIDE DEF it
<1>3. CASE MinimaxChosen(g) = <<>>
  BY <1>1, <1>3, ThrowsSound
<1>4. CASE MinimaxChosen(g) # <<>> /\ ~HasCount(it, g.cn)
  <2>1. it.percent \in Amount /\ it.percent # {} /\ OrElse(it.percent, 0) \in 0 .. 100
    BY <1>2, <1>4 DEF HasPercent, PlanItem
  <2>2. share \in Int /\ share >= 0
    BY <2>1 DEF OrElse
  <2>3. "Session" \in Plain
    BY PlainLabels
  <2> HIDE DEF share
  <2>4. Percent("Session", share) \in Fit(sane)
    BY <2>2, <2>3, PercentFit
  <2>5. lines2 \in Seq(Fit(sane)) /\ lines2 # <<>>
    BY <2>4, SingletonFacts
  <2> HIDE DEF lines2
  <2> QED BY <1>1, <1>4, <2>5, ReturnsSound
<1>5. CASE MinimaxChosen(g) # <<>> /\ HasCount(it, g.cn) /\ MinimaxUsed(it) = {}
  BY <1>1, <1>5, ThrowsSound
<1>6. CASE MinimaxChosen(g) # <<>> /\ HasCount(it, g.cn) /\ MinimaxUsed(it) # {}
  <2>1. it \in PlanItem /\ it.total # {} /\ Prompts(The(it.total), g.cn) > 0
    BY <1>2, <1>6 DEF HasCount, OrElse
  <2>2. The(it.total) \in Int
    BY <2>1, OptionalFacts DEF PlanItem, Amount
  <2>3. limit \in Int /\ limit > 0 /\ The(it.total) > 0
    BY <1>0, <2>1, <2>2, PromptsFacts
  <2>4. The(MinimaxUsed(it)) \in 0 .. The(it.total)
    <3>1. The(it.total) >= 0
      BY <2>2, <2>3
    <3> QED BY <1>6, <2>1, <3>1, MinimaxUsedFacts
  <2>5. The(MinimaxUsed(it)) \in Int /\ The(MinimaxUsed(it)) >= 0
    BY <2>2, <2>4
  <2>6. used \in Int /\ used >= 0
    BY <1>0, <2>5, PromptsFacts
  <2>7. "Session" \in Plain
    BY PlainLabels
  <2>8. <<"requests", "prompt", "used">> \in Seq(KeyParts) /\ <<"requests", "prompt", "limit">> \in Seq(KeyParts)
    BY KeyFacts, PartFacts
  <2>9. <<"requests", "prompt", "used">> # <<"requests", "prompt", "limit">>
    OBVIOUS
  <2> HIDE DEF used, limit
  <2>10. Line("Session", "count", used, limit) \in Fit(sane)
    BY <2>3, <2>6, <2>7, LineFit
  <2>11. lines \in Seq(Fit(sane)) /\ lines # <<>>
    BY <2>10, SingletonFacts
  <2>12. used \in Nat /\ limit \in Nat
    BY <2>3, <2>6
  <2>13. a \in NatMetric /\ b \in NatMetric /\ a.key # b.key
    <3> DEFINE k == <<"requests", "prompt", "used">>
               l == <<"requests", "prompt", "limit">>
    <3>1. k \in Seq(KeyParts) /\ l \in Seq(KeyParts) /\ k # l
      BY <2>8, <2>9
    <3> HIDE DEF k, l
    <3>2. LET m == Metric(k, used)
              n == Metric(l, limit)
          IN m \in NatMetric /\ n \in NatMetric /\ m.key = k /\ n.key = l
      BY <2>12, <3>1, MetricFacts
    <3> QED BY <3>1, <3>2 DEF k, l
  <2> HIDE DEF lines, a, b
  <2>14. <<a, b>> \in Seq(NatMetric) /\ Unique(<<a, b>>)
    BY <2>13 DEF Unique
  <2> DEFINE ms == <<a, b>>
  <2> HIDE DEF ms
  <2>15. ms \in Seq(NatMetric) /\ Unique(ms) /\ Minimax(g) = ReturnsBoth(lines, ms)
    BY <1>1, <1>6, <2>14 DEF ms
  <2> QED BY <2>11, <2>15, BothSound
<1> QED BY <1>3, <1>4, <1>5, <1>6

(***************************************************************************)
(* opencode-go.                                                            *)
(***************************************************************************)
CostRow == [at : Int, cost : Int]

LEMMA RangeFacts ==
  ASSUME NEW rows \in Seq(CostRow), NEW from, NEW to
  PROVE  /\ Within(rows, from, to) \in Seq(CostRow)
         /\ ToSet(Within(rows, from, to)) = {r \in ToSet(rows) : r.at >= from /\ r.at < to}
         /\ SumRange(rows, from, to) \in Int
         /\ Within(rows, from, to) = <<>> => SumRange(rows, from, to) = 0
<1> DEFINE some == Within(rows, from, to)
           costs == [i \in DOMAIN some |-> some[i].cost]
           I == Int
<1>1. some \in Seq(CostRow) /\ ToSet(some) = {r \in ToSet(rows) : r.at >= from /\ r.at < to}
  BY AmongFacts DEF Within
<1>2. SumRange(rows, from, to) = Sum(costs)
  BY DEF SumRange, Each
<1> HIDE DEF some
<1>3. DOMAIN some = 1 .. Len(some) /\ \A i \in 1 .. Len(some) : some[i] \in CostRow
  BY <1>1, LenProperties, ElementOfSeq
<1>4. Mapped(costs, some) /\ \A i \in 1 .. Len(some) : costs[i] \in I
  BY <1>3 DEF Mapped, CostRow
<1> HIDE DEF costs, I
<1>5. costs \in Seq(I) /\ (costs = <<>> <=> some = <<>>)
  BY <1>1, <1>4, MappedFacts
<1>6. costs \in Seq(Int)
  BY <1>5 DEF I
<1>7. Sum(costs) \in Int
  BY <1>6, SumFacts
<1>8. some = <<>> => Sum(costs) = 0
  BY <1>5, SumEmpty
<1> QED BY <1>1, <1>2, <1>7, <1>8 DEF some

LEMMA HistoryFacts ==
  ASSUME NEW rows \in Seq(CostRow)
  PROVE  /\ LoadHistory(rows) \in Seq(CostRow)
         /\ \A r \in ToSet(LoadHistory(rows)) : r \in CostRow /\ r.at > 0
<1>1. /\ LoadHistory(rows) \in Seq(CostRow)
      /\ ToSet(LoadHistory(rows)) = ToSet(rows) \cap {r \in ToSet(rows) : r.at > 0 /\ r.cost >= 0}
  BY AmongFacts DEF LoadHistory
<1>2. ToSet(rows) \subseteq CostRow
  BY SetOfSeq
<1> QED BY <1>1, <1>2

LEMMA OpencodeSound ==
  ASSUME NEW g \in MayAnswer("opencode-go"), NEW sane \in BOOLEAN
  PROVE  SoundReport(OpencodeGo(g), sane) /\ Unique(OpencodeGo(g).metrics)
<1> DEFINE rows == LoadHistory(g.rows)
           week == StartOfUtcWeek(g.now)
           month == AnchoredMonthBounds(g.now, Earliest(rows))
           Spent(cost, limit) == Clamp(Share(cost, limit), 0, 100)
           a == Percent("Session", Spent(SumRange(rows, g.now - SessionSpan, g.now), 12))
           b == Percent("Weekly", Spent(SumRange(rows, week, week + WeekSpan), 30))
           c == Percent("Monthly", Spent(SumRange(rows, month[1], month[2]), 60))
<1>1. g.rows \in Seq(CostRow)
  BY DEF MayAnswer, CostRow
<1>2. rows \in Seq(CostRow)
  BY <1>1, HistoryFacts
<1>3. OpencodeGo(g) = IF ~g.auth /\ (~g.dbReads \/ g.rows = <<>>) THEN Throws
                      ELSE IF ~g.dbReads \/ ~g.rowsRead THEN NoData("Status")
                      ELSE Returns(<<a, b, c>>)
  BY DEF OpencodeGo
<1> HIDE DEF rows, week, month
<1>4. \A cost \in Int : /\ Spent(cost, 12) \in Int /\ Spent(cost, 12) >= 0
                        /\ Spent(cost, 30) \in Int /\ Spent(cost, 30) >= 0
                        /\ Spent(cost, 60) \in Int /\ Spent(cost, 60) >= 0
  BY DEF Clamp, Share
<1>5. /\ SumRange(rows, g.now - SessionSpan, g.now) \in Int
      /\ SumRange(rows, week, week + WeekSpan) \in Int
      /\ SumRange(rows, month[1], month[2]) \in Int
  BY <1>2, RangeFacts
<1> HIDE DEF Spent
<1>6. "Session" \in Plain /\ "Weekly" \in Plain /\ "Monthly" \in Plain /\ "Status" \in Plain
  BY PlainLabels
<1>7. a \in Fit(sane) /\ b \in Fit(sane) /\ c \in Fit(sane) /\ Badge("Status") \in Fit(sane)
  BY <1>4, <1>5, <1>6, PercentFit, BadgeFit
<1> HIDE DEF a, b, c
<1>8. <<a, b, c>> \in Seq(Fit(sane))
  <2> DEFINE F == Fit(sane)
  <2> HIDE DEF F
  <2>1. \A x, y, z \in F : <<x, y, z>> \in Seq(F)
    OBVIOUS
  <2> QED BY <1>7, <2>1 DEF F
<1>9. <<Badge("Status")>> \in Seq(Fit(sane))
  BY <1>7, SingletonFacts
<1> DEFINE abc == <<a, b, c>>
           s == <<Badge("Status")>>
<1>10. abc # <<>> /\ s # <<>>
  OBVIOUS
<1>11. OpencodeGo(g) = IF ~g.auth /\ (~g.dbReads \/ g.rows = <<>>) THEN Throws
                       ELSE IF ~g.dbReads \/ ~g.rowsRead THEN Returns(s) ELSE Returns(abc)
  BY <1>3 DEF NoData
<1> HIDE DEF abc, s
<1> QED BY <1>8, <1>9, <1>10, <1>11, ThrowsSound, ReturnsSound DEF abc, s

(***************************************************************************)
(* kiro.                                                                   *)
(***************************************************************************)
KiroPool == [used : Int, limit : Int, status : STRING]
Breakdown == [credit : BOOLEAN, used : Int, limit : Int, trial : Seq(KiroPool), bonuses : Seq(KiroPool)]
PoolsOf(b) == ToSet(b.trial) \cup ToSet(b.bonuses)
SaneBreakdown(b) == b.used >= 0 /\ \A p \in PoolsOf(b) : p.used >= 0
Shownable(sane) == {b \in Breakdown : /\ b.limit > 0 /\ \A p \in PoolsOf(b) : p.limit > 0
                                      /\ sane => SaneBreakdown(b)}

LEMMA NormalizedPool ==
  ASSUME NEW qs \in Seq(KiroPool), NEW allowed
  PROVE  /\ NormalizePool(qs, allowed) \in Seq(KiroPool)
         /\ \A p \in ToSet(NormalizePool(qs, allowed)) : p \in ToSet(qs) /\ p.limit > 0
BY AmongFacts DEF NormalizePool

LEMMA NormalizedBreakdown ==
  ASSUME NEW sane \in BOOLEAN, NEW b \in Breakdown, b.limit > 0, sane => SaneBreakdown(b)
  PROVE  NormalizeBreakdown(b) \in Shownable(sane)
<1> DEFINE t == NormalizePool(b.trial, {"none", "ACTIVE"})
           u == NormalizePool(b.bonuses, {"none", "ACTIVE", "EXHAUSTED"})
           c == NormalizeBreakdown(b)
<1>1. b.trial \in Seq(KiroPool) /\ b.bonuses \in Seq(KiroPool)
  BY DEF Breakdown
<1>2. /\ t \in Seq(KiroPool) /\ \A p \in ToSet(t) : p \in ToSet(b.trial) /\ p.limit > 0
      /\ u \in Seq(KiroPool) /\ \A p \in ToSet(u) : p \in ToSet(b.bonuses) /\ p.limit > 0
  BY <1>1, NormalizedPool
<1>3. c = [b EXCEPT !.trial = t, !.bonuses = u]
  BY DEF NormalizeBreakdown
<1> HIDE DEF t, u, c
<1>4. c \in Breakdown /\ c.limit = b.limit /\ c.used = b.used /\ c.trial = t /\ c.bonuses = u
  BY <1>2, <1>3 DEF Breakdown
<1>5. \A p \in PoolsOf(c) : p \in PoolsOf(b) /\ p.limit > 0
  BY <1>2, <1>4 DEF PoolsOf
<1> QED BY <1>4, <1>5 DEF Shownable, SaneBreakdown, c

LEMMA NormalizedSnapshot ==
  ASSUME NEW sane \in BOOLEAN, NEW raw \in Seq(Breakdown),
         sane => \A b \in ToSet(raw) : SaneBreakdown(b)
  PROVE  NormalizeApiSnapshot(raw) \in Seq(Shownable(sane))
<1> DEFINE S == {b \in ToSet(raw) : b.limit > 0}
           some == Among(raw, S)
           t == [i \in DOMAIN some |-> NormalizeBreakdown(some[i])]
           R == Shownable(sane)
<1>1. some \in Seq(Breakdown) /\ ToSet(some) = S
  BY AmongFacts
<1>2. NormalizeApiSnapshot(raw) = t
  BY DEF NormalizeApiSnapshot, Each
<1> HIDE DEF some
<1>3. DOMAIN some = 1 .. Len(some) /\ \A i \in 1 .. Len(some) : some[i] \in Breakdown /\ some[i] \in S
  BY <1>1, LenProperties, ElementOfSeq, SetOfSeq
<1>4. Mapped(t, some) /\ \A i \in 1 .. Len(some) : t[i] \in R
  BY <1>3, NormalizedBreakdown DEF Mapped
<1> HIDE DEF t, R
<1>5. t \in Seq(R)
  BY <1>1, <1>4, MappedFacts
<1> QED BY <1>2, <1>5 DEF R

LEMMA SnapshotOption ==
  ASSUME NEW sane \in BOOLEAN, NEW o \in Optional(Seq(Breakdown)),
         sane => \A raw \in o : \A b \in ToSet(raw) : SaneBreakdown(b)
  PROVE  {NormalizeApiSnapshot(raw) : raw \in o} \in Optional(Seq(Shownable(sane)))
<1>1. \A raw \in o : raw \in Seq(Breakdown)
  BY DEF Optional
<1>2. \A raw \in o : NormalizeApiSnapshot(raw) \in Seq(Shownable(sane))
  BY <1>1, NormalizedSnapshot
<1>3. \A x, y \in o : x = y
  BY DEF Optional
<1> QED BY <1>2, <1>3 DEF Optional

LEMMA PrimaryFacts ==
  ASSUME NEW S, NEW bs \in Seq(S), bs # <<>>
  PROVE  PickPrimaryBreakdown(bs) \in S
<1> DEFINE credit == Among(bs, {b \in ToSet(bs) : b.credit})
           s == credit \o bs
<1>1. credit \in Seq(S)
  BY AmongFacts
<1>2. PickPrimaryBreakdown(bs) = Head(s)
  BY DEF PickPrimaryBreakdown
<1> HIDE DEF credit
<1>3. s \in Seq(S) /\ s # <<>>
  BY <1>1, ConcatFacts
<1> HIDE DEF s
<1> QED BY <1>2, <1>3, HeadTailProperties

LEMMA KiroSound ==
  ASSUME NEW g \in MayAnswer("kiro"), NEW sane \in BOOLEAN, sane => Sane("kiro", g)
  PROVE  SoundReport(Kiro(g), sane) /\ Unique(Kiro(g).metrics)
<1> DEFINE R == Shownable(sane)
           F == Fit(sane)
           Norm(o) == {NormalizeApiSnapshot(raw) : raw \in o}
           newest == IF ShouldTryLive(g) THEN Norm(g.live) ELSE {}
           source == MergeSnapshots(newest, Norm(g.cached), Norm(g.logged))
           primary == PickPrimaryBreakdown(The(source))
           Show(label, q) == Line(label, "count", q.used, q.limit)
           bonus == PickBonusUsage(primary)
           a == <<Show("Credits", primary)>>
           b == [i \in DOMAIN bonus |-> Show("Bonus Credits", bonus[i])]
           c == When(g.overage, <<Badge("Overages")>>)
           lines == a \o b \o c
<1>1. /\ g.live \in Optional(Seq(Breakdown)) /\ g.cached \in Optional(Seq(Breakdown))
      /\ g.logged \in Optional(Seq(Breakdown)) /\ g.overage \in BOOLEAN
  BY DEF MayAnswer, Breakdown, KiroPool
<1>2. sane => \A raw \in g.live \cup g.cached \cup g.logged : \A x \in ToSet(raw) : SaneBreakdown(x)
  BY DEF Sane, UsedSome, SaneBreakdown, PoolsOf
<1>3. Kiro(g) = IF source = {} THEN Throws ELSE Returns(lines)
  BY DEF Kiro, Each
<1>4. Norm(g.live) \in Optional(Seq(R)) /\ Norm(g.cached) \in Optional(Seq(R)) /\ Norm(g.logged) \in Optional(Seq(R))
  BY <1>1, <1>2, SnapshotOption
<1> HIDE DEF Norm, R
<1>5. source \in Optional(Seq(R)) /\ <<>> \notin source
  <2>1. newest \in Optional(Seq(R))
    BY <1>4 DEF Optional
  <2> HIDE DEF newest
  <2> QED BY <1>4, <2>1 DEF MergeSnapshots, Else, Optional
<1> HIDE DEF source
<1>6. ASSUME source # {}
      PROVE  lines \in Seq(F) /\ lines # <<>>
  <2>1. The(source) \in Seq(R) /\ The(source) # <<>>
    <3> DEFINE S == Seq(R)
    <3> HIDE DEF S
    <3>1. The(source) \in source /\ The(source) \in S
      BY <1>5, <1>6, OptionalFacts DEF S
    <3> QED BY <1>5, <3>1 DEF S
  <2>2. primary \in R
    BY <2>1, PrimaryFacts
  <2> HIDE DEF primary
  <2>3. /\ primary \in Breakdown /\ primary.limit > 0 /\ (sane => primary.used >= 0)
        /\ \A p \in PoolsOf(primary) : p.limit > 0 /\ (sane => p.used >= 0)
    BY <2>2 DEF R, Shownable, SaneBreakdown
  <2>4. /\ primary.used \in Int /\ primary.limit \in Int
        /\ primary.trial \in Seq(KiroPool) /\ primary.bonuses \in Seq(KiroPool)
    BY <2>3 DEF Breakdown
  <2>5. "Credits" \in Plain /\ "Bonus Credits" \in Plain /\ "Overages" \in Plain
    BY PlainLabels
  <2>6. a \in Seq(F) /\ a # <<>>
    <3>1. Show("Credits", primary) \in F
      BY <2>3, <2>4, <2>5, LineFit
    <3> HIDE DEF Show, F
    <3> QED BY <3>1, SingletonFacts
  <2>7. bonus \in Seq(KiroPool) /\ ToSet(bonus) \subseteq PoolsOf(primary)
    <3> DEFINE s == primary.trial \o primary.bonuses
    <3>1. s \in Seq(KiroPool) /\ ToSet(s) = PoolsOf(primary)
      BY <2>4, ConcatFacts DEF PoolsOf
    <3>2. bonus = First(s)
      BY DEF PickBonusUsage
    <3> HIDE DEF s
    <3>3. CASE s = <<>>
      <4>1. bonus = <<>> /\ ToSet(<<>>) = {}
        BY <3>2, <3>3 DEF First, ToSet
      <4> QED BY <4>1, EmptySeq
    <3>4. CASE s # <<>>
      <4>1. bonus = <<s[1]>> /\ s[1] \in ToSet(s) /\ s[1] \in KiroPool
        BY <3>1, <3>2, <3>4, FirstOfSeq
      <4> QED BY <3>1, <4>1, SingletonFacts
    <3> QED BY <3>3, <3>4
  <2> HIDE DEF bonus
  <2>8. b \in Seq(F)
    <3>1. DOMAIN bonus = 1 .. Len(bonus) /\ \A i \in 1 .. Len(bonus) : bonus[i] \in KiroPool /\ bonus[i] \in PoolsOf(primary)
      BY <2>7, LenProperties, ElementOfSeq, SetOfSeq
    <3>2. \A i \in 1 .. Len(bonus) : Show("Bonus Credits", bonus[i]) \in F
      BY <2>3, <2>5, <3>1, LineFit DEF KiroPool
    <3> HIDE DEF Show, F
    <3>3. Mapped(b, bonus) /\ \A i \in 1 .. Len(bonus) : b[i] \in F
      BY <3>1, <3>2 DEF Mapped
    <3> HIDE DEF b
    <3> QED BY <2>7, <3>3, MappedFacts
  <2>9. c \in Seq(F)
    <3>1. c = One(g.overage, Badge("Overages"))
      BY DEF When, One
    <3> HIDE DEF c
    <3> QED BY <1>1, <2>5, <3>1, OneBadge
  <2> HIDE DEF a, b, c, F
  <2>10. a \o b \in Seq(F) /\ a \o b # <<>>
    BY <2>6, <2>8, ConcatFacts
  <2> QED BY <2>9, <2>10, ConcatFacts
<1> HIDE DEF lines
<1> QED BY <1>3, <1>6, ThrowsSound, ReturnsSound

(***************************************************************************)
(* jetbrains.  The pick among the states of the IDEs goes through them in  *)
(* order; one state is behind another if it ends sooner, or at the same    *)
(* time and is used less.                                                  *)
(***************************************************************************)
QuotaPart == [maximum : Amount, current : Amount, available : Amount]
QuotaFile == [maximum : Amount, current : Amount, available : Amount,
              tariff : QuotaPart, topUp : QuotaPart, until : Optional(Nat), next : Optional(Nat)]
QuotaState == {s \in [maximum : Int, used : Int, remaining : Amount, until : Optional(Nat)] :
                 s.maximum > 0 /\ s.used \in 0 .. s.maximum}
Behind(b, a) ==
  /\ OrElse(b.until, -1) <= OrElse(a.until, -1)
  /\ OrElse(b.until, -1) = OrElse(a.until, -1) => b.used * a.maximum <= a.used * b.maximum

LEMMA SumOfFacts ==
  ASSUME NEW a \in Amount, NEW b \in Amount
  PROVE  SumOf(a, b) \in Amount
<1>1. OrElse(a, 0) \in Int /\ OrElse(b, 0) \in Int
  BY OptionalFacts DEF Amount, OrElse
<1>2. OrElse(a, 0) + OrElse(b, 0) \in Int
  BY <1>1
<1> QED BY <1>2, OptionalOne DEF SumOf, Amount

LEMMA NormalizedQuota ==
  ASSUME NEW q \in QuotaFile
  PROVE  NormalizeQuota(q) \in Optional(QuotaState)
<1> DEFINE maximum == Else(q.maximum, SumOf(q.tariff.maximum, q.topUp.maximum))
           used == Else(q.current, SumOf(q.tariff.current, q.topUp.current))
           given2 == Else(q.available, SumOf(q.tariff.available, q.topUp.available))
           left == IF given2 = {} /\ maximum # {} /\ used # {} THEN {The(maximum) - The(used)} ELSE given2
           none == maximum = {} \/ OrElse(maximum, 0) <= 0 \/ used = {}
           until == Else(q.until, q.next)
           remaining == {Clamp(n, 0, The(maximum)) : n \in left}
           state == [maximum |-> The(maximum), used |-> Clamp(The(used), 0, The(maximum)),
                     remaining |-> remaining, until |-> until]
<1>1. /\ q.maximum \in Amount /\ q.current \in Amount /\ q.available \in Amount
      /\ q.tariff \in QuotaPart /\ q.topUp \in QuotaPart
      /\ q.until \in Optional(Nat) /\ q.next \in Optional(Nat)
  BY DEF QuotaFile
<1>2. /\ q.tariff.maximum \in Amount /\ q.tariff.current \in Amount /\ q.tariff.available \in Amount
      /\ q.topUp.maximum \in Amount /\ q.topUp.current \in Amount /\ q.topUp.available \in Amount
  BY <1>1 DEF QuotaPart
<1>3. maximum \in Amount /\ used \in Amount /\ given2 \in Amount /\ until \in Optional(Nat)
  BY <1>1, <1>2, SumOfFacts DEF Else
<1>4. NormalizeQuota(q) = IF none THEN {} ELSE {state}
  BY DEF NormalizeQuota
<1> HIDE DEF maximum, used, given2, until
<1>5. ASSUME ~none
      PROVE  state \in QuotaState
  <2>1. The(maximum) \in Int /\ The(maximum) > 0 /\ The(used) \in Int
    BY <1>3, <1>5, OptionalFacts DEF Amount, OrElse
  <2>2. left \in Amount
    BY <1>3, <2>1 DEF Amount, Optional
  <2>3. \A n \in Int : Clamp(n, 0, The(maximum)) \in 0 .. The(maximum) /\ Clamp(n, 0, The(maximum)) \in Int
    BY <2>1 DEF Clamp
  <2> HIDE DEF left
  <2>4. remaining \in Amount
    BY <2>2, <2>3 DEF Amount, Optional
  <2> HIDE DEF remaining
  <2> QED BY <1>3, <2>1, <2>3, <2>4 DEF QuotaState
<1> HIDE DEF state, none
<1> QED BY <1>4, <1>5, OptionalOne DEF Optional

LEMMA StatesFacts ==
  ASSUME NEW g \in MayAnswer("jetbrains")
  PROVE  JetbrainsStates(g) \in Seq(QuotaState)
<1> DEFINE t == [i \in DOMAIN g.files |-> NormalizeQuota(g.files[i])]
           O == Optional(QuotaState)
<1>1. g.files \in Seq(QuotaFile)
  BY DEF MayAnswer, QuotaFile, QuotaPart
<1>2. DOMAIN g.files = 1 .. Len(g.files) /\ \A i \in 1 .. Len(g.files) : g.files[i] \in QuotaFile
  BY <1>1, LenProperties, ElementOfSeq
<1>3. Mapped(t, g.files) /\ \A i \in 1 .. Len(g.files) : t[i] \in O
  BY <1>2, NormalizedQuota DEF Mapped
<1>4. JetbrainsStates(g) = Present(t)
  BY DEF JetbrainsStates, Each
<1> HIDE DEF t, O
<1>5. t \in Seq(O)
  BY <1>1, <1>3, MappedFacts
<1> QED BY <1>4, <1>5, PresentFacts DEF O

(* Shares compared by cross-multiplication are ordered as shares are.      *)
LEMMA RatioTransitive ==
  ASSUME NEW a \in Int, NEW b \in Int, NEW c \in Int, a >= 0, b >= 0, c >= 0,
         NEW x \in Int, NEW y \in Int, NEW z \in Int, x > 0, y > 0, z > 0,
         a * y <= b * x, b * z <= c * y
  PROVE  a * z <= c * x
<1>1. (a * y) * z <= (b * x) * z
  <2> DEFINE p == a * y
             q == b * x
  <2>1. p \in Int /\ q \in Int /\ p <= q
    OBVIOUS
  <2> HIDE DEF p, q
  <2> QED BY <2>1
<1>2. (b * z) * x <= (c * y) * x
  <2> DEFINE p == b * z
             q == c * y
  <2>1. p \in Int /\ q \in Int /\ p <= q
    OBVIOUS
  <2> HIDE DEF p, q
  <2> QED BY <2>1
<1>3. (a * z) * y <= (c * x) * y
  BY <1>1, <1>2
<1> DEFINE p == a * z
           q == c * x
<1>4. p \in Int /\ q \in Int /\ p * y <= q * y
  BY <1>3
<1> HIDE DEF p, q
<1>5. p <= q
  BY <1>4
<1> QED BY <1>5 DEF p, q

(* Being no better than is transitive, and any two states compare.         *)
LEMMA BehindOrder ==
  /\ \A a \in QuotaState : Behind(a, a)
  /\ \A a, b, c \in QuotaState : Behind(c, b) /\ Behind(b, a) => Behind(c, a)
  /\ \A a, b \in QuotaState : IF Better(b, a) THEN Behind(a, b) ELSE Behind(b, a)
<1>1. \A s \in QuotaState : /\ s.used \in Int /\ s.maximum \in Int /\ s.used >= 0 /\ s.maximum > 0
                            /\ OrElse(s.until, -1) \in Int
  <2> SUFFICES ASSUME NEW s \in QuotaState
               PROVE  /\ s.used \in Int /\ s.maximum \in Int /\ s.used >= 0 /\ s.maximum > 0
                      /\ OrElse(s.until, -1) \in Int
    OBVIOUS
  <2>1. s.used \in Int /\ s.maximum \in Int /\ s.used >= 0 /\ s.maximum > 0 /\ s.until \in Optional(Nat)
    BY DEF QuotaState
  <2>2. s.until # {} => The(s.until) \in Nat
    BY <2>1, OptionalFacts
  <2> QED BY <2>1, <2>2 DEF OrElse
<1>2. ASSUME NEW a \in QuotaState
      PROVE  Behind(a, a)
  BY <1>1 DEF Behind
<1>3. ASSUME NEW a \in QuotaState, NEW b \in QuotaState, NEW c \in QuotaState, Behind(c, b), Behind(b, a)
      PROVE  Behind(c, a)
  <2>1. OrElse(c.until, -1) <= OrElse(a.until, -1)
    BY <1>1, <1>3 DEF Behind
  <2>2. ASSUME OrElse(c.until, -1) = OrElse(a.until, -1)
        PROVE  c.used * a.maximum <= a.used * c.maximum
    <3>1. c.used * b.maximum <= b.used * c.maximum /\ b.used * a.maximum <= a.used * b.maximum
      <4>1. OrElse(c.until, -1) = OrElse(b.until, -1) /\ OrElse(b.until, -1) = OrElse(a.until, -1)
        BY <1>1, <1>3, <2>2 DEF Behind
      <4> QED BY <1>3, <4>1 DEF Behind
    <3> QED BY <1>1, <3>1, RatioTransitive
  <2> QED BY <2>1, <2>2 DEF Behind
<1>4. ASSUME NEW a \in QuotaState, NEW b \in QuotaState
      PROVE  IF Better(b, a) THEN Behind(a, b) ELSE Behind(b, a)
  <2> DEFINE ua == OrElse(a.until, -1)
             ub == OrElse(b.until, -1)
             ra == a.used * b.maximum
             rb == b.used * a.maximum
  <2>1. ua \in Int /\ ub \in Int /\ ra \in Int /\ rb \in Int
    BY <1>1
  <2>2. Better(b, a) <=> ub > ua \/ (ub = ua /\ (rb > ra \/ (rb = ra /\ b.used > a.used)))
    BY DEF Better
  <2>3. Behind(a, b) <=> ua <= ub /\ (ua = ub => ra <= rb)
    BY DEF Behind
  <2>4. Behind(b, a) <=> ub <= ua /\ (ub = ua => rb <= ra)
    BY DEF Behind
  <2> HIDE DEF ua, ub, ra, rb
  <2> QED BY <2>1, <2>2, <2>3, <2>4
<1> QED BY <1>2, <1>3, <1>4

(* The best state so far, as a run along the states.                       *)
LEMMA BestRuns ==
  ASSUME NEW base \in QuotaState, NEW s \in Seq(QuotaState)
  PROVE  \E r \in [0 .. Len(s) -> QuotaState] :
           /\ r[0] = base
           /\ \A k \in 1 .. Len(s) : r[k] = BetterOf(r[k - 1], s[k])
           /\ r[Len(s)] = FoldLeft(BetterOf, base, s)
<1> DEFINE N == Len(s)
           R == QuotaState
           f == [x \in R \X (1 .. N) |-> BetterOf(x[1], s[x[2]])]
<1>1. N \in Nat /\ DOMAIN s = 1 .. N /\ base \in R /\ \A k \in 1 .. N : s[k] \in R
  BY LenProperties, ElementOfSeq
<1>0. \A a, n \in R : BetterOf(a, n) \in R
  BY DEF BetterOf
<1>2. f \in [R \X (1 .. N) -> R]
  <2> HIDE DEF N, R
  <2> QED BY <1>0, <1>1
<1>3. \A t \in R, k \in 1 .. N : f[<<t, k>>] = BetterOf(t, s[k])
  OBVIOUS
<1> HIDE DEF f, N
<1>4. PICK g \in [SUBSET (1 .. N) -> R] : FoldSolution(g, N, base, f)
  <2> HIDE DEF R
  <2> QED BY <1>1, <1>2, FoldExists
<1>5. ASSUME NEW u \in SUBSET (1 .. N), u # {}
      PROVE  g[u] = BetterOf(g[u \ {Max(u)}], s[Max(u)])
  <2>1. Max(u) \in 1 .. N /\ u \ {Max(u)} \in SUBSET (1 .. N)
    BY <1>1, <1>5, MaxOfIndices
  <2>2. g[u \ {Max(u)}] \in R
    BY <2>1
  <2> QED BY <1>3, <1>4, <1>5, <2>1, <2>2 DEF FoldSolution
<1>6. g[{}] = base
  BY <1>4 DEF FoldSolution
<1> DEFINE F(h) == [u \in SUBSET (1 .. N) |->
                      IF u = {} THEN base ELSE BetterOf(h[u \ {Max(u)}], s[Max(u)])]
<1>7. g = F(g)
  BY <1>5, <1>6
<1>8. FoldLeft(BetterOf, base, s) = (CHOOSE h : h = F(h))[1 .. N]
  BY <1>1 DEF FoldLeft, MapThenFoldSet
<1> DEFINE h == CHOOSE h : h = F(h)
<1>9. h = F(h) /\ FoldLeft(BetterOf, base, s) = h[1 .. N]
  BY <1>7, <1>8
<1> HIDE DEF h
<1>10. h[{}] = base
  BY <1>9
<1>11. \A u \in SUBSET (1 .. N) : u # {} /\ h[u \ {Max(u)}] \in R =>
         h[u] = f[<<h[u \ {Max(u)}], Max(u)>>]
  <2> SUFFICES ASSUME NEW u \in SUBSET (1 .. N), u # {}, h[u \ {Max(u)}] \in R
               PROVE  h[u] = f[<<h[u \ {Max(u)}], Max(u)>>]
    OBVIOUS
  <2>1. h[u] = BetterOf(h[u \ {Max(u)}], s[Max(u)])
    BY <1>9
  <2>2. Max(u) \in 1 .. N
    BY <1>1, MaxOfIndices
  <2> QED BY <1>3, <2>1, <2>2
<1>12. FoldSteps(h, N, R, base, f)
  BY <1>10, <1>11 DEF FoldSteps
<1>13. PICK r \in [0 .. N -> R] : FoldRun(r, h, N, base, f)
  <2> HIDE DEF R, F
  <2> QED BY <1>1, <1>2, <1>12, FoldRuns
<1>14. ASSUME NEW k \in 1 .. N
       PROVE  r[k] = BetterOf(r[k - 1], s[k])
  <2>1. k - 1 \in 0 .. N
    BY <1>1
  <2>2. r[k - 1] \in R
    BY <2>1
  <2> QED BY <1>3, <1>13, <2>2 DEF FoldRun
<1> QED BY <1>9, <1>13, <1>14 DEF N, FoldRun

(* After each state the best so far is one of them, and none of them is    *)
(* better.                                                                 *)
LEMMA BestFacts ==
  ASSUME NEW base \in QuotaState, NEW s \in Seq(QuotaState)
  PROVE  LET best == FoldLeft(BetterOf, base, s) IN
           /\ best \in QuotaState /\ best \in {base} \cup ToSet(s)
           /\ Behind(base, best) /\ \A x \in ToSet(s) : Behind(x, best)
<1> DEFINE N == Len(s)
           best == FoldLeft(BetterOf, base, s)
<1>1. N \in Nat /\ DOMAIN s = 1 .. N /\ \A k \in 1 .. N : s[k] \in QuotaState
  BY LenProperties, ElementOfSeq
<1>2. PICK r \in [0 .. N -> QuotaState] :
             /\ r[0] = base
             /\ \A k \in 1 .. N : r[k] = BetterOf(r[k - 1], s[k])
             /\ r[N] = best
  BY BestRuns
<1> HIDE DEF N, best
<1> DEFINE Leads(k) == /\ r[k] \in {base} \cup {s[i] : i \in 1 .. k}
                       /\ Behind(base, r[k]) /\ \A i \in 1 .. k : Behind(s[i], r[k])
           Good == {k \in Nat : k <= N => Leads(k)}
<1>3. 0 \in Good
  BY <1>2, BehindOrder
<1>4. ASSUME NEW k \in Nat, k \in Good
      PROVE  k + 1 \in Good
  <2> SUFFICES ASSUME k + 1 <= N PROVE Leads(k + 1)
    OBVIOUS
  <2>0. k \in 0 .. N /\ k + 1 \in 1 .. N /\ (k + 1) - 1 = k /\ k + 1 \in 0 .. N
    BY <1>1
  <2>1. Leads(k)
    <3>1. k <= N
      BY <1>1
    <3> HIDE DEF Leads
    <3> QED BY <1>4, <3>1
  <2> DEFINE new == r[k + 1]
             old == r[k]
             x == s[k + 1]
  <2>2. new = BetterOf(old, x) /\ old \in QuotaState /\ x \in QuotaState /\ new \in QuotaState
    BY <1>1, <1>2, <2>0
  <2>3. \A i \in 1 .. k + 1 : i \in 1 .. k \/ i = k + 1
    OBVIOUS
  <2>4. \A i \in 1 .. k : s[i] \in QuotaState
    BY <1>1, <2>0
  <2>5. new \in {old, x} /\ Behind(old, new) /\ Behind(x, new)
    <3> HIDE DEF new, old, x, Leads
    <3> QED BY <2>2, BehindOrder DEF BetterOf
  <2>6. new \in {base} \cup {s[i] : i \in 1 .. k + 1}
    <3>1. k + 1 \in 1 .. k + 1 /\ \A i \in 1 .. k : i \in 1 .. k + 1
      OBVIOUS
    <3> HIDE DEF new
    <3> QED BY <2>1, <2>5, <3>1
  <2>7. Behind(base, new) /\ \A i \in 1 .. k : Behind(s[i], new)
    <3>1. Behind(base, old) /\ \A i \in 1 .. k : Behind(s[i], old)
      BY <2>1
    <3> HIDE DEF new, old, x, Leads
    <3> QED BY <2>2, <2>4, <2>5, <3>1, BehindOrder
  <2> QED BY <2>3, <2>5, <2>6, <2>7
<1>5. N \in Good
  <2> HIDE DEF Good
  <2> QED BY <1>1, <1>3, <1>4, Induction
<1>6. Leads(N) /\ N \in 0 .. N
  BY <1>1, <1>5
<1>7. ToSet(s) = {s[i] : i \in 1 .. N}
  BY <1>1 DEF ToSet
<1> QED BY <1>2, <1>6, <1>7 DEF best

(* Of the states of the IDEs the one that is shown is one that all others  *)
(* are behind.                                                             *)
LEMMA PickBestFacts ==
  ASSUME NEW states \in Seq(QuotaState), states # <<>>
  PROVE  /\ PickBestState(states) \in QuotaState /\ PickBestState(states) \in ToSet(states)
         /\ \A s \in ToSet(states) : Behind(s, PickBestState(states))
<1> DEFINE base == Head(states)
           rest == Tail(states)
<1>1. /\ base = states[1] /\ base \in QuotaState /\ rest \in Seq(QuotaState)
      /\ Len(rest) = Len(states) - 1 /\ \A i \in 1 .. Len(rest) : rest[i] = states[i + 1]
  BY HeadTailProperties
<1>2. Len(states) \in Nat /\ Len(states) # 0 /\ DOMAIN states = 1 .. Len(states)
  BY EmptySeq, LenProperties
<1>3. ToSet(rest) = {rest[i] : i \in 1 .. Len(rest)} /\ ToSet(states) = {states[i] : i \in 1 .. Len(states)}
  BY <1>1, SetOfSeq
<1>4. PickBestState(states) = FoldLeft(BetterOf, base, rest)
  BY DEF PickBestState
<1> HIDE DEF base, rest
<1>5. ToSet(states) = {base} \cup ToSet(rest)
  <2>1. ASSUME NEW i \in 1 .. Len(states)
        PROVE  states[i] \in {base} \cup ToSet(rest)
    <3>1. CASE i = 1
      BY <1>1, <3>1
    <3>2. CASE i # 1
      <4>1. i - 1 \in 1 .. Len(rest) /\ (i - 1) + 1 = i
        BY <1>1, <1>2, <3>2
      <4> QED BY <1>1, <1>3, <4>1
    <3> QED BY <3>1, <3>2
  <2>2. 1 \in 1 .. Len(states) /\ \A i \in 1 .. Len(rest) : i + 1 \in 1 .. Len(states)
    BY <1>1, <1>2
  <2>3. base \in ToSet(states) /\ \A i \in 1 .. Len(rest) : rest[i] \in ToSet(states)
    BY <1>1, <1>3, <2>2
  <2> QED BY <1>3, <2>1, <2>3
<1> QED BY <1>1, <1>4, <1>5, BestFacts

LEMMA JetbrainsSound ==
  ASSUME NEW g \in MayAnswer("jetbrains"), NEW sane \in BOOLEAN
  PROVE  SoundReport(Jetbrains(g), sane) /\ Unique(Jetbrains(g).metrics)
<1> DEFINE states == JetbrainsStates(g)
           quota == PickBestState(states)
           n == Clamp(Share(quota.used, quota.maximum), 0, 100)
           a == Percent("Quota", n)
           b == Text("Used", quota.used)
           c == When(quota.remaining # {}, <<Text("Remaining", OrElse(quota.remaining, 0))>>)
           ab == <<a, b>>
           lines == ab \o c
<1>1. states \in Seq(QuotaState)
  BY StatesFacts
<1>2. Jetbrains(g) = IF states = <<>> THEN Throws ELSE Returns(lines)
  BY DEF Jetbrains
<1> HIDE DEF states
<1>3. ASSUME states # <<>>
      PROVE  lines \in Seq(Fit(sane)) /\ lines # <<>>
  <2>1. quota \in QuotaState
    BY <1>1, <1>3, PickBestFacts
  <2> HIDE DEF quota
  <2>2. /\ quota.used \in Int /\ quota.maximum \in Int /\ quota.maximum > 0
        /\ quota.remaining \in Amount
    BY <2>1 DEF QuotaState
  <2>3. n \in Int /\ n >= 0
    BY <2>2, ShareFacts, ClampPercent
  <2>4. OrElse(quota.remaining, 0) \in Int
    BY <2>2, OptionalFacts DEF Amount, OrElse
  <2>5. "Quota" \in Plain /\ "Used" \in Plain /\ "Remaining" \in Plain
    BY PlainLabels
  <2> HIDE DEF n
  <2>6. a \in Fit(sane) /\ b \in Fit(sane)
    BY <2>2, <2>3, <2>5, PercentFit, TextFit
  <2>7. c \in Seq(Fit(sane))
    <3>1. c = One(quota.remaining # {}, Text("Remaining", OrElse(quota.remaining, 0)))
      BY DEF When, One
    <3> HIDE DEF a, b, c
    <3> QED BY <2>4, <2>5, <3>1, OneText
  <2> HIDE DEF a, b, c
  <2>8. ab \in Seq(Fit(sane)) /\ ab # <<>>
    <3> DEFINE F == Fit(sane)
    <3> HIDE DEF F
    <3>1. \A x, y \in F : <<x, y>> \in Seq(F)
      OBVIOUS
    <3> QED BY <2>6, <3>1 DEF F
  <2> HIDE DEF ab
  <2> QED BY <2>7, <2>8, ConcatFacts
<1> HIDE DEF lines
<1> QED BY <1>2, <1>3, ThrowsSound, ReturnsSound

(***************************************************************************)
(* kimi.  The session is the limit with the shortest known period, the     *)
(* week the longest of the others.                                         *)
(***************************************************************************)
KimiQuota == {q \in [used : Int, limit : Int, resets : Int] : q.limit > 0}
Candidate == [quota : Optional(KimiQuota), period : Optional(Nat)]
KimiRow == [limit : Amount, used : Amount, remaining : Amount, resets : Int, period : Optional(Nat)]

LEMMA ParsedQuota ==
  ASSUME NEW row, row.limit \in Amount, row.used \in Amount, row.remaining \in Amount,
         row.resets \in Int
  PROVE  ParseQuota(row) \in Optional(KimiQuota)
<1> DEFINE used == Else(row.used, {The(row.limit) - r : r \in row.remaining})
           none == row.limit = {} \/ OrElse(row.limit, 0) <= 0 \/ used = {}
           quota == [used |-> The(used), limit |-> The(row.limit), resets |-> row.resets]
<1>1. ParseQuota(row) = IF none THEN {} ELSE {quota}
  BY DEF ParseQuota
<1>2. ASSUME ~none
      PROVE  quota \in KimiQuota
  <2>1. The(row.limit) \in Int /\ The(row.limit) > 0
    BY <1>2, OptionalFacts DEF Amount, OrElse
  <2>2. used \in Amount
    BY <2>1 DEF Else, Amount, Optional
  <2>3. used # {}
    BY <1>2
  <2> HIDE DEF used
  <2>4. The(used) \in Int
    BY <2>2, <2>3, OptionalFacts DEF Amount
  <2> QED BY <2>1, <2>4 DEF KimiQuota
<1> HIDE DEF none, quota
<1> QED BY <1>1, <1>2, OptionalOne DEF Optional

LEMMA CandidatesFacts ==
  ASSUME NEW limits \in Seq(KimiRow)
  PROVE  LET cs == CollectLimitCandidates(limits) IN
           cs \in Seq(Candidate) /\ \A i \in 1 .. Len(cs) : cs[i] \in Candidate /\ cs[i].quota # {}
<1> DEFINE all == [i \in DOMAIN limits |-> [quota |-> ParseQuota(limits[i]), period |-> limits[i].period]]
           cs == CollectLimitCandidates(limits)
<1>1. DOMAIN limits = 1 .. Len(limits) /\ \A i \in 1 .. Len(limits) : limits[i] \in KimiRow
  BY LenProperties, ElementOfSeq
<1>2. \A i \in 1 .. Len(limits) : all[i] \in Candidate
  BY <1>1, ParsedQuota DEF KimiRow, Candidate
<1>3. Mapped(all, limits)
  BY <1>1 DEF Mapped
<1>4. cs = Among(all, {c \in ToSet(all) : c.quota # {}})
  BY DEF CollectLimitCandidates, Each
<1> HIDE DEF all, cs
<1>5. all \in Seq(Candidate)
  BY <1>2, <1>3, MappedFacts
<1>6. cs \in Seq(Candidate) /\ ToSet(cs) \subseteq {c \in ToSet(all) : c.quota # {}}
  BY <1>4, <1>5, AmongFacts
<1>7. \A i \in 1 .. Len(cs) : cs[i] \in ToSet(cs) /\ cs[i] \in Candidate
  BY <1>6, SetOfSeq, ElementOfSeq
<1> QED BY <1>6, <1>7 DEF cs

(* The session is the shortest of the periods that are known.              *)
LEMMA PickSessionFacts ==
  ASSUME NEW cs \in Seq(Candidate), cs # <<>>
  PROVE  /\ PickSession(cs) \in 1 .. Len(cs)
         /\ \A j \in 1 .. Len(cs) :
              cs[j].period # {} => /\ cs[PickSession(cs)].period # {}
                                   /\ The(cs[PickSession(cs)].period) <= The(cs[j].period)
<1> DEFINE known == {i \in DOMAIN cs : cs[i].period # {}}
           T == {The(cs[i].period) : i \in known}
           least == {i \in known : \A j \in known : The(cs[i].period) <= The(cs[j].period)}
<1>1. /\ Len(cs) \in Nat /\ Len(cs) # 0 /\ DOMAIN cs = 1 .. Len(cs)
      /\ \A i \in 1 .. Len(cs) : cs[i] \in Candidate
  BY EmptySeq, LenProperties, ElementOfSeq
<1>2. PickSession(cs) = IF known = {} THEN 1 ELSE Min(least)
  BY DEF PickSession
<1>3. \A i \in known : The(cs[i].period) \in Nat /\ i \in 1 .. Len(cs)
  BY <1>1, OptionalFacts DEF Candidate
<1>4. CASE known = {}
  BY <1>1, <1>2, <1>4
<1>5. CASE known # {}
  <2>1. T \subseteq Nat /\ T # {}
    BY <1>3, <1>5
  <2>2. \E m \in T : \A k \in T : m <= k
    <3> HIDE DEF T
    <3> QED BY <2>1, LeastNatural
  <2>3. least # {}
    BY <2>2
  <2>4. least \subseteq Nat
    BY <1>3
  <2> HIDE DEF least
  <2>5. Min(least) \in least
    BY <2>3, <2>4, MinOfIndices
  <2> QED BY <1>1, <1>2, <1>5, <2>5 DEF least
<1> QED BY <1>4, <1>5

(* Of some candidates, the one whose period is longest.                    *)
LEMMA PickLargestFacts ==
  ASSUME NEW cs \in Seq(Candidate), NEW among \in SUBSET (1 .. Len(cs)), among # {}
  PROVE  LET j == PickLargestByPeriod(cs, among) IN
           j \in among /\ \A k \in among : OrElse(cs[k].period, -1) <= OrElse(cs[j].period, -1)
<1> DEFINE N == Len(cs)
           P(i) == OrElse(cs[i].period, -1)
           v == [i \in 1 .. N |-> IF i \in among THEN 0 - P(i) ELSE 2]
           I == Int
           most == {i \in among : \A j \in among : P(j) <= P(i)}
<1>1. N \in Nat /\ \A i \in 1 .. N : cs[i] \in Candidate
  BY LenProperties, ElementOfSeq
<1>2. \A i \in 1 .. N : P(i) \in Int /\ P(i) >= -1
  BY <1>1, OptionalFacts DEF Candidate, OrElse
<1>7. among \subseteq 1 .. N
  OBVIOUS
<1> HIDE DEF P, N
<1>3. \A i \in 1 .. N : v[i] \in I /\ (i \in among => v[i] = 0 - P(i) /\ v[i] <= 1) /\ (i \notin among => v[i] = 2)
  BY <1>2
<1>4. v \in Seq(I) /\ Len(v) = N
  <2>1. v \in [1 .. N -> I]
    BY <1>3
  <2> HIDE DEF v, I
  <2>2. v \in Seq(I)
    BY <1>1, <2>1, SeqDef
  <2> QED BY <1>1, <2>1, <2>2, LenProperties
<1>5. v # <<>>
  <2>0. 1 .. 0 = {}
    OBVIOUS
  <2>1. N # 0
    BY <1>7, <2>0
  <2> HIDE DEF v
  <2> QED BY <1>4, <2>1, EmptySeq
<1> HIDE DEF v
<1>6. PICK i \in 1 .. N : \A j \in 1 .. N : v[i] <= v[j]
  BY <1>4, <1>5, LeastInSeq DEF I
<1>8. i \in among
  <2>1. PICK j \in among : TRUE
    OBVIOUS
  <2>2. v[i] <= v[j] /\ v[j] <= 1 /\ v[i] \in Int /\ v[j] \in Int
    BY <1>3, <1>6, <1>7, <2>1 DEF I
  <2>3. v[i] # 2
    BY <2>2
  <2> QED BY <1>3, <2>3
<1>9. \A j \in among : P(j) <= P(i)
  <2> SUFFICES ASSUME NEW j \in among PROVE P(j) <= P(i)
    OBVIOUS
  <2>1. v[i] <= v[j] /\ v[i] = 0 - P(i) /\ v[j] = 0 - P(j) /\ P(i) \in Int /\ P(j) \in Int
    BY <1>2, <1>3, <1>6, <1>7, <1>8
  <2> QED BY <2>1
<1>10. most # {} /\ most \subseteq Nat
  <2>1. most # {}
    BY <1>8, <1>9
  <2>2. most \subseteq 1 .. N
    BY <1>7
  <2> HIDE DEF most
  <2> QED BY <2>1, <2>2
<1>11. PickLargestByPeriod(cs, among) = Min(most)
  BY DEF PickLargestByPeriod, P
<1> HIDE DEF most
<1>12. Min(most) \in most
  BY <1>10, MinOfIndices
<1> QED BY <1>11, <1>12 DEF most, P

LEMMA WeeklyFacts ==
  ASSUME NEW usage \in [limit : Amount, used : Amount, remaining : Amount, resets : Int],
         NEW cs \in Seq(Candidate), cs # <<>> => PickSession(cs) \in 1 .. Len(cs)
  PROVE  KimiWeekly(usage, cs) \in Optional(KimiQuota)
<1> DEFINE rest == DOMAIN cs \ {PickSession(cs)}
<1>1. ParseQuota(usage) \in Optional(KimiQuota)
  BY ParsedQuota
<1>2. DOMAIN cs = 1 .. Len(cs) /\ \A i \in 1 .. Len(cs) : cs[i] \in Candidate
  BY LenProperties, ElementOfSeq
<1>3. rest \in SUBSET (1 .. Len(cs))
  BY <1>2
<1>4. KimiWeekly(usage, cs) = IF ParseQuota(usage) # {} \/ rest = {} THEN ParseQuota(usage)
                              ELSE cs[PickLargestByPeriod(cs, rest)].quota
  BY DEF KimiWeekly
<1> HIDE DEF rest
<1>5. rest # {} => PickLargestByPeriod(cs, rest) \in 1 .. Len(cs)
  BY <1>3, PickLargestFacts
<1> QED BY <1>1, <1>2, <1>4, <1>5 DEF Candidate

KimiLine(label, o) ==
  One(o # {}, Percent(label, Max({0, Share(The(o).used, The(o).limit)})))

LEMMA KimiLineFit ==
  ASSUME NEW sane \in BOOLEAN, NEW label \in Plain, NEW o \in Optional(KimiQuota)
  PROVE  KimiLine(label, o) \in Seq(Fit(sane))
<1> DEFINE n == Max({0, Share(The(o).used, The(o).limit)})
           c == o # {}
<1>1. c => n \in Int /\ n >= 0
  <2> SUFFICES ASSUME o # {} PROVE n \in Int /\ n >= 0
    OBVIOUS
  <2>1. The(o) \in KimiQuota
    BY OptionalFacts
  <2>2. Share(The(o).used, The(o).limit) \in Int
    BY <2>1, ShareFacts DEF KimiQuota
  <2> QED BY <2>2, MaxOfTwo
<1>2. KimiLine(label, o) = One(c, Percent(label, n))
  BY DEF KimiLine
<1> HIDE DEF n, c
<1>3. c \in BOOLEAN
  BY DEF c
<1> QED BY <1>1, <1>2, <1>3, OnePercent

(* What kimi shows, and from which candidates.                             *)
LEMMA KimiReports ==
  ASSUME NEW g \in MayAnswer("kimi")
  PROVE  LET cs == CollectLimitCandidates(g.limits)
             session == IF cs = <<>> THEN {} ELSE cs[PickSession(cs)].quota
             weekly == KimiWeekly(g.usage, cs) \ session
         IN /\ Kimi(g) = Returns(OrBadge(KimiLine("Session", session) \o KimiLine("Weekly", weekly)))
            /\ session \in Optional(KimiQuota) /\ weekly \in Optional(KimiQuota)
            /\ cs \in Seq(Candidate) /\ \A i \in 1 .. Len(cs) : cs[i] \in Candidate /\ cs[i].quota # {}
<1> DEFINE cs == CollectLimitCandidates(g.limits)
           session == IF cs = <<>> THEN {} ELSE cs[PickSession(cs)].quota
           all == KimiWeekly(g.usage, cs)
           weekly == all \ session
<1>1. /\ g.limits \in Seq(KimiRow)
      /\ g.usage \in [limit : Amount, used : Amount, remaining : Amount, resets : Int]
  BY DEF MayAnswer, KimiRow
<1>2. cs \in Seq(Candidate) /\ \A i \in 1 .. Len(cs) : cs[i] \in Candidate /\ cs[i].quota # {}
  BY <1>1, CandidatesFacts
<1>3. Kimi(g) = Returns(OrBadge(KimiLine("Session", session) \o KimiLine("Weekly", weekly)))
  BY DEF Kimi, KimiLine, Opt, One
<1> HIDE DEF cs
<1>4. cs # <<>> => PickSession(cs) \in 1 .. Len(cs)
  BY <1>2, PickSessionFacts
<1>5. session \in Optional(KimiQuota)
  <2>1. {} \in Optional(KimiQuota)
    BY DEF Optional
  <2> QED BY <1>2, <1>4, <2>1 DEF Candidate
<1>6. all \in Optional(KimiQuota)
  BY <1>1, <1>2, <1>4, WeeklyFacts
<1> HIDE DEF all, session
<1>7. weekly \in Optional(KimiQuota)
  BY <1>6, OptionalPart
<1> QED BY <1>2, <1>3, <1>5, <1>7 DEF cs, session, all

LEMMA KimiSound ==
  ASSUME NEW g \in MayAnswer("kimi"), NEW sane \in BOOLEAN
  PROVE  SoundReport(Kimi(g), sane) /\ Unique(Kimi(g).metrics)
<1> DEFINE cs == CollectLimitCandidates(g.limits)
           session == IF cs = <<>> THEN {} ELSE cs[PickSession(cs)].quota
           weekly == KimiWeekly(g.usage, cs) \ session
           a == KimiLine("Session", session)
           b == KimiLine("Weekly", weekly)
           lines == a \o b
<1>1. /\ Kimi(g) = Returns(OrBadge(lines))
      /\ session \in Optional(KimiQuota) /\ weekly \in Optional(KimiQuota)
  BY KimiReports
<1> HIDE DEF cs, session, weekly
<1>2. a \in Seq(Fit(sane)) /\ b \in Seq(Fit(sane))
  BY <1>1, KimiLineFit, PlainLabels
<1> HIDE DEF a, b
<1>3. lines \in Seq(Fit(sane))
  BY <1>2, ConcatFacts
<1> HIDE DEF lines
<1>4. OrBadge(lines) \in Seq(Fit(sane)) /\ OrBadge(lines) # <<>>
  BY <1>3, OrBadgeFit
<1> QED BY <1>1, <1>4, ReturnsSound

(***************************************************************************)
(* cursor.                                                                 *)
(***************************************************************************)
CursorUsage == [limit : Amount, percent : Amount, spend : Amount, left : Amount, auto : Amount]
Demand == [team : BOOLEAN, left : Int, limit : Int]
SaneUsage(u) ==
  /\ NotNegative(u.percent \cup u.spend \cup u.auto)
  /\ \A n \in u.limit : n > 0 /\ OrElse(u.left, 0) <= n

LEMMA RequestBasedSound ==
  ASSUME NEW sane \in BOOLEAN, NEW rest \in Optional(Pair), sane => UsedSome(rest)
  PROVE  /\ SoundReport(BuildRequestBasedResult(rest), sane)
         /\ Unique(BuildRequestBasedResult(rest).metrics)
<1> DEFINE found == {q \in rest : q.limit > 0}
           lines == Requests("Requests", found)
<1>1. BuildRequestBasedResult(rest) = IF found = {} THEN Throws ELSE Returns(lines)
  BY DEF BuildRequestBasedResult
<1>2. found \in Optional(Pair) /\ (sane => \A q \in found : q.used >= 0 /\ q.limit > 0)
  BY OptionalPart DEF UsedSome
<1> HIDE DEF found
<1>3. lines \in Seq(Fit(sane)) /\ (lines = <<>> <=> found = {})
  BY <1>2, RequestsFit, PlainLabels
<1> HIDE DEF lines
<1> QED BY <1>1, <1>3, ThrowsSound, ReturnsSound

LEMMA CreditsFit ==
  ASSUME NEW g \in MayAnswer("cursor"), NEW sane \in BOOLEAN, sane => UsedSome(g.grants)
  PROVE  CursorCredits(g) \in Seq(Fit(sane))
<1> DEFINE grant == {q \in g.grants : q.limit > 0}
           limits == {q.limit : q \in grant}
           total == OrElse(limits, 0) + g.stripe
           used == IF grant = {} THEN 0 ELSE The(grant).used
           c == total > 0
<1>1. g.grants \in Optional(Pair) /\ g.stripe \in Int
  BY DEF MayAnswer
<1>2. grant \in Optional(Pair) /\ (sane => \A q \in grant : q.used >= 0)
  BY <1>1, OptionalPart DEF UsedSome
<1>3. CursorCredits(g) = One(c, Line("Credits", "dollars", used, total))
  BY DEF CursorCredits, When, One
<1> HIDE DEF grant
<1>4. grant # {} => The(grant) \in Pair /\ The(grant) \in grant /\ grant = {The(grant)}
  BY <1>2, OptionalFacts
<1>5. used \in Int /\ (sane => used >= 0)
  BY <1>2, <1>4 DEF Pair
<1>6. limits \in Amount
  BY <1>2 DEF Amount, Optional, Pair
<1> HIDE DEF limits
<1>7. total \in Int
  BY <1>1, <1>6, OptionalFacts DEF OrElse, Amount
<1>8. c \in BOOLEAN /\ (c => used \in Int /\ total \in Int /\ (sane => used >= 0 /\ total > 0))
  BY <1>5, <1>7
<1>9. "Credits" \in Plain
  BY PlainLabels
<1> DEFINE x == Line("Credits", "dollars", used, total)
<1> HIDE DEF c, used, total
<1>10. One(c, x) \in Seq(Fit(sane))
  BY <1>8, <1>9, OneDollars
<1> QED BY <1>3, <1>10

LEMMA PlanUsedFacts ==
  ASSUME NEW u \in CursorUsage, NEW sane \in BOOLEAN, sane => SaneUsage(u), u.limit # {}
  PROVE  /\ The(u.limit) \in Int /\ (sane => The(u.limit) > 0)
         /\ PlanUsed(u) \in Int /\ (sane => PlanUsed(u) >= 0)
<1>1. u.limit \in Amount /\ u.spend \in Amount /\ u.left \in Amount
  BY DEF CursorUsage
<1>2. The(u.limit) \in Int /\ The(u.limit) \in u.limit
  BY <1>1, OptionalFacts DEF Amount
<1>3. u.spend # {} => The(u.spend) \in Int /\ The(u.spend) \in u.spend
  BY <1>1, OptionalFacts DEF Amount
<1>4. OrElse(u.left, 0) \in Int
  BY <1>1, OptionalFacts DEF Amount, OrElse
<1>5. sane => The(u.limit) > 0 /\ OrElse(u.left, 0) <= The(u.limit)
  BY <1>2 DEF SaneUsage
<1>6. sane /\ u.spend # {} => The(u.spend) >= 0
  BY <1>3 DEF SaneUsage, NotNegative
<1> QED BY <1>2, <1>3, <1>4, <1>5, <1>6 DEF PlanUsed

LEMMA PlanLinesFit ==
  ASSUME NEW g \in MayAnswer("cursor"), NEW sane \in BOOLEAN, sane => Sane("cursor", g),
         NEW u \in CursorUsage, sane => SaneUsage(u),
         IsTeam(g) => u.limit # {}, u.limit # {} \/ u.percent # {}
  PROVE  CursorPlanLines(g, u) \in Seq(Fit(sane)) /\ CursorPlanLines(g, u) # <<>>
<1> DEFINE F == Fit(sane)
           demand == {d \in g.demand : d.limit > 0}
           share == IF u.percent # {} THEN The(u.percent)
                    ELSE IF The(u.limit) > 0 THEN Share(PlanUsed(u), The(u.limit)) ELSE 0
           a == CursorCredits(g)
           b == IF IsTeam(g) THEN <<Line("Total usage", "dollars", PlanUsed(u), The(u.limit))>>
                ELSE <<Percent("Total usage", share)>>
           c == Opt(u.auto, LAMBDA n : Percent("Auto usage", n))
           d == Opt(demand, LAMBDA x : Line("On-demand", "dollars", x.limit - x.left, x.limit))
<1>1. /\ g.demand \in Optional(Demand)
      /\ u.percent \in Amount /\ u.auto \in Amount
  BY DEF MayAnswer, CursorUsage, Demand
<1>2. sane => UsedSome(g.grants) /\ \A x \in g.demand : x.limit > 0 => x.left <= x.limit
  BY DEF Sane, UsedSome
<1>3. "Total usage" \in Plain /\ "Auto usage" \in Plain /\ "On-demand" \in Plain
  BY PlainLabels
<1>4. CursorPlanLines(g, u) = a \o b \o c \o d
  BY DEF CursorPlanLines
<1>5. a \in Seq(F)
  BY <1>2, CreditsFit
<1>6. b \in Seq(F) /\ b # <<>>
  <2>1. CASE IsTeam(g)
    <3>1. /\ The(u.limit) \in Int /\ (sane => The(u.limit) > 0)
          /\ PlanUsed(u) \in Int /\ (sane => PlanUsed(u) >= 0)
      BY <2>1, PlanUsedFacts
    <3> DEFINE x == Line("Total usage", "dollars", PlanUsed(u), The(u.limit))
    <3>2. x \in F
      BY <1>3, <3>1, LineFit
    <3> HIDE DEF x, F
    <3>3. <<x>> \in Seq(F) /\ <<x>> # <<>>
      BY <3>2, SingletonFacts
    <3> QED BY <2>1, <3>3 DEF x
  <2>2. CASE ~IsTeam(g)
    <3>1. share \in Int /\ (sane => share >= 0)
      <4>1. CASE u.percent # {}
        <5>1. The(u.percent) \in Int /\ The(u.percent) \in u.percent
          BY <1>1, <4>1, OptionalFacts DEF Amount
        <5>2. sane => The(u.percent) >= 0
          BY <5>1 DEF SaneUsage, NotNegative
        <5> QED BY <4>1, <5>1, <5>2
      <4>2. CASE u.percent = {}
        <5>1. /\ The(u.limit) \in Int /\ PlanUsed(u) \in Int /\ (sane => PlanUsed(u) >= 0)
          BY <4>2, PlanUsedFacts
        <5>2. The(u.limit) > 0 => /\ Share(PlanUsed(u), The(u.limit)) \in Int
                                  /\ (sane => Share(PlanUsed(u), The(u.limit)) >= 0)
          BY <5>1, ShareFacts
        <5> QED BY <4>2, <5>2
      <4> QED BY <4>1, <4>2
    <3> HIDE DEF share
    <3> DEFINE x == Percent("Total usage", share)
    <3>2. x \in F
      BY <1>3, <3>1, PercentFit
    <3> HIDE DEF x, F
    <3>3. <<x>> \in Seq(F) /\ <<x>> # <<>>
      BY <3>2, SingletonFacts
    <3> QED BY <2>2, <3>3 DEF x
  <2> QED BY <2>1, <2>2
<1>7. c \in Seq(F)
  <2>1. c = One(u.auto # {}, Percent("Auto usage", The(u.auto)))
    BY DEF Opt, One
  <2>2. u.auto # {} => The(u.auto) \in Int /\ (sane => The(u.auto) >= 0)
    <3>1. u.auto # {} => The(u.auto) \in Int /\ The(u.auto) \in u.auto
      BY <1>1, OptionalFacts DEF Amount
    <3> QED BY <3>1 DEF SaneUsage, NotNegative
  <2> HIDE DEF a, b, c, d
  <2> QED BY <1>3, <2>1, <2>2, OnePercent
<1>8. d \in Seq(F)
  <2> DEFINE x == The(demand)
             used == x.limit - x.left
             limit == x.limit
             is == demand # {}
  <2>1. d = One(is, Line("On-demand", "dollars", used, limit))
    BY DEF Opt, One
  <2>2. demand \in Optional(Demand) /\ \A y \in demand : y.limit > 0 /\ y \in g.demand
    BY <1>1, OptionalPart
  <2> HIDE DEF demand
  <2>3. demand # {} => x \in Demand /\ x \in demand
    BY <2>2, OptionalFacts
  <2>4. is => used \in Int /\ limit \in Int /\ (sane => used >= 0 /\ limit > 0)
    BY <1>2, <2>2, <2>3 DEF Demand
  <2>5. is \in BOOLEAN
    OBVIOUS
  <2> HIDE DEF is, used, limit, a, b, c, d
  <2> QED BY <1>3, <2>1, <2>4, <2>5, OneDollars
<1> HIDE DEF a, b, c, d, F
<1>9. a \o b \in Seq(F) /\ a \o b # <<>>
  BY <1>5, <1>6, ConcatFacts
<1>10. a \o b \o c \in Seq(F) /\ a \o b \o c # <<>>
  BY <1>7, <1>9, ConcatFacts
<1>11. a \o b \o c \o d \in Seq(F) /\ a \o b \o c \o d # <<>>
  BY <1>8, <1>10, ConcatFacts
<1> QED BY <1>4, <1>11 DEF F

LEMMA CursorSound ==
  ASSUME NEW g \in MayAnswer("cursor"), NEW sane \in BOOLEAN, sane => Sane("cursor", g)
  PROVE  SoundReport(Cursor(g), sane) /\ Unique(Cursor(g).metrics)
<1> DEFINE rest == BuildRequestBasedResult(g.rest)
           u == The(g.usage)
           lines == CursorPlanLines(g, u)
           asks == NeedsRequestBasedFallback(g) \/ (TriesRequestBased(g) /\ ~rest.thrown)
           fails == ~g.enabled \/ g.usage = {} \/ (NoLimit(g) /\ NoPercent(g))
           counts == IsTeam(g) /\ NoLimit(g)
<1>1. g.usage \in Optional(CursorUsage) /\ g.rest \in Optional(Pair)
  BY DEF MayAnswer, CursorUsage
<1>2. sane => UsedSome(g.rest) /\ \A x \in g.usage : SaneUsage(x)
  BY DEF Sane, UsedSome, SaneUsage
<1>3. SoundReport(rest, sane) /\ Unique(rest.metrics)
  BY <1>1, <1>2, RequestBasedSound
<1>4. Cursor(g) = IF asks THEN rest ELSE IF fails THEN Throws ELSE IF counts THEN rest ELSE Returns(lines)
  BY DEF Cursor
<1>5. ASSUME ~fails, ~counts
      PROVE  lines \in Seq(Fit(sane)) /\ lines # <<>>
  <2>1. u \in CursorUsage /\ u \in g.usage /\ g.usage = {u}
    BY <1>1, <1>5, OptionalFacts
  <2>2. NoLimit(g) <=> u.limit = {}
    BY <1>5, <2>1 DEF NoLimit
  <2>3. NoPercent(g) <=> u.percent = {}
    BY <1>5, <2>1 DEF NoPercent
  <2>4. (IsTeam(g) => u.limit # {}) /\ (u.limit # {} \/ u.percent # {})
    BY <1>5, <2>2, <2>3
  <2>5. sane => SaneUsage(u)
    BY <1>2, <2>1
  <2> HIDE DEF u
  <2> QED BY <2>1, <2>4, <2>5, PlanLinesFit
<1> HIDE DEF rest, asks, fails, counts, lines
<1> QED BY <1>3, <1>4, <1>5, ThrowsSound, ReturnsSound

(***************************************************************************)
(* The daily counts of claude and codex.                                   *)
(***************************************************************************)
LEMMA SumMapped ==
  ASSUME NEW S, NEW s \in Seq(S), NEW t, Mapped(t, s), \A i \in 1 .. Len(s) : t[i] \in Nat
  PROVE  /\ t \in Seq(Nat) /\ t \in Seq(Int) /\ Len(t) = Len(s) /\ (t = <<>> <=> s = <<>>)
         /\ Sum(t) \in Nat /\ \A i \in 1 .. Len(s) : t[i] <= Sum(t)
<1> DEFINE N == Nat
           I == Int
<1>1. t \in Seq(N) /\ Len(t) = Len(s) /\ (t = <<>> <=> s = <<>>)
  <2>1. \A i \in 1 .. Len(s) : t[i] \in N
    OBVIOUS
  <2> HIDE DEF N
  <2> QED BY <2>1, MappedFacts
<1>2. t \in Seq(I)
  <2>1. \A i \in 1 .. Len(s) : t[i] \in I
    OBVIOUS
  <2> HIDE DEF I
  <2> QED BY <2>1, MappedFacts
<1>3. \A i \in 1 .. Len(t) : t[i] >= 0
  BY <1>1
<1> QED BY <1>1, <1>2, <1>3, SumFacts

LEMMA SumBelow ==
  ASSUME NEW s \in Seq(Int), NEW t \in Seq(Int), Len(s) = Len(t),
         \A i \in 1 .. Len(s) : s[i] <= t[i]
  PROVE  Sum(s) <= Sum(t)
<1> DEFINE N == Len(s)
<1>1. N \in Nat /\ \A i \in 1 .. N : s[i] \in Int /\ t[i] \in Int
  BY LenProperties, ElementOfSeq
<1>2. PICK p \in [0 .. N -> Int] :
        p[0] = 0 /\ (\A k \in 1 .. N : p[k] = p[k - 1] + s[k]) /\ p[N] = Sum(s)
  BY SumRuns
<1>3. PICK q \in [0 .. N -> Int] :
        q[0] = 0 /\ (\A k \in 1 .. N : q[k] = q[k - 1] + t[k]) /\ q[N] = Sum(t)
  BY SumRuns
<1>4. \A i \in 1 .. N : s[i] <= t[i]
  OBVIOUS
<1> HIDE DEF N
<1> DEFINE Good == {k \in Nat : k <= N => p[k] <= q[k]}
<1>5. 0 \in Good
  BY <1>2, <1>3
<1>6. ASSUME NEW k \in Nat, k \in Good
      PROVE  k + 1 \in Good
  <2> SUFFICES ASSUME k + 1 <= N PROVE p[k + 1] <= q[k + 1]
    OBVIOUS
  <2>1. k \in 0 .. N /\ k + 1 \in 1 .. N /\ (k + 1) - 1 = k /\ k <= N
    BY <1>1
  <2>2. p[k + 1] = p[k] + s[k + 1] /\ q[k + 1] = q[k] + t[k + 1]
    BY <1>2, <1>3, <2>1
  <2>3. p[k] <= q[k] /\ p[k] \in Int /\ q[k] \in Int
    BY <1>2, <1>3, <1>6, <2>1
  <2>4. s[k + 1] <= t[k + 1] /\ s[k + 1] \in Int /\ t[k + 1] \in Int
    BY <1>1, <1>4, <2>1
  <2> QED BY <2>2, <2>3, <2>4
<1>7. N \in Good
  <2> HIDE DEF Good
  <2> QED BY <1>1, <1>5, <1>6, Induction
<1> QED BY <1>1, <1>2, <1>3, <1>7

LEMMA SumZero ==
  ASSUME NEW s \in Seq(Int), \A i \in 1 .. Len(s) : s[i] = 0
  PROVE  Sum(s) = 0
<1> DEFINE N == Len(s)
<1>1. N \in Nat /\ \A i \in 1 .. N : s[i] = 0
  BY LenProperties
<1>2. PICK p \in [0 .. N -> Int] :
        p[0] = 0 /\ (\A k \in 1 .. N : p[k] = p[k - 1] + s[k]) /\ p[N] = Sum(s)
  BY SumRuns
<1> HIDE DEF N
<1> DEFINE Good == {k \in Nat : k <= N => p[k] = 0}
<1>3. 0 \in Good
  BY <1>2
<1>4. ASSUME NEW k \in Nat, k \in Good
      PROVE  k + 1 \in Good
  <2> SUFFICES ASSUME k + 1 <= N PROVE p[k + 1] = 0
    OBVIOUS
  <2>1. k + 1 \in 1 .. N /\ (k + 1) - 1 = k /\ k <= N
    BY <1>1
  <2>2. p[k + 1] = p[(k + 1) - 1] + s[k + 1] /\ s[k + 1] = 0 /\ p[k] = 0
    BY <1>1, <1>2, <1>4, <2>1
  <2> QED BY <2>1, <2>2
<1>5. N \in Good
  <2> HIDE DEF Good
  <2> QED BY <1>1, <1>3, <1>4, Induction
<1> QED BY <1>1, <1>2, <1>5

LEMMA ModelTotalFacts ==
  ASSUME NEW days \in Seq(Day), NEW m \in Models
  PROVE  ModelTotal(days, m) \in Nat
<1> DEFINE t == [i \in DOMAIN days |-> days[i].models[m] + days[i].breakdowns[m]]
<1>1. DOMAIN days = 1 .. Len(days) /\ \A i \in 1 .. Len(days) : days[i] \in Day
  BY LenProperties, ElementOfSeq
<1>2. \A i \in 1 .. Len(days) : days[i].models[m] \in Nat /\ days[i].breakdowns[m] \in Nat
  BY <1>1 DEF Day
<1>3. Mapped(t, days) /\ \A i \in 1 .. Len(days) : t[i] \in Nat
  BY <1>1, <1>2 DEF Mapped
<1>4. ModelTotal(days, m) = Sum(t)
  BY DEF ModelTotal, Each
<1> HIDE DEF t
<1> QED BY <1>3, <1>4, SumMapped

LEMMA CountFacts ==
  ASSUME NEW d \in Day
  PROVE  /\ Count(d) \in Int /\ ServedCount(d) \in Nat /\ Count(d) <= ServedCount(d)
         /\ Count(d) >= 0 => ServedCount(d) = Count(d)
         /\ ~(Count(d) > 0) => ServedCount(d) = 0
<1>1. d.tokens \in Amount
  BY DEF Day
<1>2. Count(d) \in Int
  BY <1>1, AmountFacts DEF Count, OrElse
<1>3. ServedCount(d) = IF Count(d) < 0 THEN 0 ELSE Count(d)
  BY <1>2, MaxOfTwo DEF ServedCount
<1> QED BY <1>2, <1>3

(* The sum on the card is no more than the one that is served.             *)
LEMMA TotalFacts ==
  ASSUME NEW days \in Seq(Day)
  PROVE  /\ TotalTokens(days) \in Int /\ ServedTokens(days) \in Nat
         /\ TotalTokens(days) <= ServedTokens(days)
         /\ (\A d \in ToSet(days) : Count(d) >= 0) => TotalTokens(days) = ServedTokens(days)
<1> DEFINE t == [i \in DOMAIN days |-> Count(days[i])]
           u == [i \in DOMAIN days |-> ServedCount(days[i])]
           I == Int
<1>1. /\ DOMAIN days = 1 .. Len(days) /\ \A i \in 1 .. Len(days) : days[i] \in Day
      /\ \A i \in 1 .. Len(days) : days[i] \in ToSet(days)
  BY LenProperties, ElementOfSeq, SetOfSeq
<1>2. \A i \in 1 .. Len(days) : /\ t[i] \in Int /\ u[i] \in Nat /\ t[i] <= u[i]
                                /\ Count(days[i]) >= 0 => t[i] = u[i]
  BY <1>1, CountFacts
<1>3. Mapped(t, days) /\ Mapped(u, days)
  BY DEF Mapped
<1>4. TotalTokens(days) = Sum(t) /\ ServedTokens(days) = Sum(u)
  BY DEF TotalTokens, ServedTokens, Each
<1>5. ASSUME \A d \in ToSet(days) : Count(d) >= 0
      PROVE  t = u
  BY <1>1, <1>2, <1>5
<1> HIDE DEF t, u
<1>6. u \in Seq(Int) /\ Len(u) = Len(days) /\ Sum(u) \in Nat
  BY <1>2, <1>3, SumMapped
<1>7. t \in Seq(Int) /\ Len(t) = Len(days)
  <2>1. \A i \in 1 .. Len(days) : t[i] \in I
    BY <1>2
  <2> HIDE DEF I
  <2>2. t \in Seq(I) /\ Len(t) = Len(days)
    BY <1>3, <2>1, MappedFacts
  <2> QED BY <2>2 DEF I
<1>8. Sum(t) \in Int /\ Sum(t) <= Sum(u)
  BY <1>2, <1>6, <1>7, SumFacts, SumBelow
<1> QED BY <1>4, <1>5, <1>6, <1>8

(***************************************************************************)
(* The models with a count: each at most once.                             *)
(***************************************************************************)
Counted == [name : Models, tokens : Nat \ {0}]

LEMMA ModelUsageFacts ==
  ASSUME NEW days \in Seq(Day)
  PROVE  LET us == CollectModelUsage(days) IN
           /\ us \in Seq(Counted)
           /\ \A i \in 1 .. Len(us) : us[i] \in Counted
           /\ \A i, j \in 1 .. Len(us) : us[i].name = us[j].name => i = j
           /\ \A x \in Counted : x \in ToSet(us) <=> x.tokens = ModelTotal(days, x.name)
<1> DEFINE a == ModelUsage(days, "model a")
           b == ModelUsage(days, "model b")
           ab == <<a, b>>
           ba == <<b, a>>
           order == IF b.tokens > a.tokens THEN ba ELSE ab
           S == {x \in {a, b} : x.tokens > 0}
           us == CollectModelUsage(days)
           R == [name : Models, tokens : Nat]
<1>1. "model a" \in Models /\ "model b" \in Models /\ "model a" # "model b"
  BY DEF Models
<1>2. /\ a.name = "model a" /\ a.tokens = ModelTotal(days, "model a") /\ a \in R
      /\ b.name = "model b" /\ b.tokens = ModelTotal(days, "model b") /\ b \in R
  BY <1>1, ModelTotalFacts DEF ModelUsage
<1>3. us = Among(order, S)
  BY DEF CollectModelUsage
<1> HIDE DEF a, b
<1>4. /\ ab \in Seq(R) /\ ba \in Seq(R) /\ Len(ab) = 2 /\ Len(ba) = 2
      /\ ToSet(ab) = {a, b} /\ ToSet(ba) = {a, b}
      /\ ab[1] = a /\ ab[2] = b /\ ba[1] = b /\ ba[2] = a
  <2> HIDE DEF R
  <2>1. ab \in Seq(R) /\ ba \in Seq(R) /\ Len(ab) = 2 /\ Len(ba) = 2 /\ ab[1] = a /\ ab[2] = b /\ ba[1] = b /\ ba[2] = a
    <3>1. \A x, y \in R : <<x, y>> \in Seq(R) /\ Len(<<x, y>>) = 2 /\ <<x, y>>[1] = x /\ <<x, y>>[2] = y
      OBVIOUS
    <3> QED BY <1>2, <3>1
  <2>2. 1 .. 2 = {1, 2}
    OBVIOUS
  <2> HIDE DEF ab, ba
  <2>3. ToSet(ab) = {ab[i] : i \in 1 .. 2} /\ ToSet(ba) = {ba[i] : i \in 1 .. 2}
    BY <2>1, SetOfSeq
  <2> QED BY <2>1, <2>2, <2>3
<1> HIDE DEF ab, ba
<1>5. order \in Seq(R) /\ Len(order) = 2 /\ ToSet(order) = {a, b} /\ order[1].name # order[2].name
  BY <1>1, <1>2, <1>4
<1> HIDE DEF order, R
<1>6. us \in Seq(R) /\ ToSet(us) = S
  <2>1. us \in Seq(R) /\ ToSet(us) = {a, b} \cap S
    BY <1>3, <1>5, AmongFacts
  <2> QED BY <2>1
<1>7. PICK e : Picks(e, order, us, 2)
  BY <1>3, <1>5, AmongPicks
<1> HIDE DEF us
<1>8. S \subseteq Counted
  <2>1. \A x \in R : x.tokens > 0 => x \in Counted
    BY DEF Counted, R
  <2>2. a \in R /\ b \in R
    BY <1>2
  <2> QED BY <2>1, <2>2
<1>9. us \in Seq(Counted) /\ \A i \in 1 .. Len(us) : us[i] \in Counted
  <2>1. us \in Seq(Counted)
    BY <1>6, <1>8, SeqOfSet
  <2> QED BY <2>1, ElementOfSeq
<1>10. ASSUME NEW i \in 1 .. Len(us), NEW j \in 1 .. Len(us), us[i].name = us[j].name
       PROVE  i = j
  <2>1. /\ e[i] \in 1 .. 2 /\ e[j] \in 1 .. 2 /\ us[i] = order[e[i]] /\ us[j] = order[e[j]]
        /\ i < j => e[i] < e[j]
        /\ j < i => e[j] < e[i]
    BY <1>7 DEF Picks
  <2>2. e[i] = e[j]
    <3>1. e[i] \in {1, 2} /\ e[j] \in {1, 2}
      BY <2>1
    <3> QED BY <1>5, <1>10, <2>1, <3>1
  <2>3. Len(us) \in Nat
    BY <1>9, LenProperties
  <2> QED BY <2>1, <2>2, <2>3
<1>11. \A x \in Counted : x \in S <=> x.tokens = ModelTotal(days, x.name)
  <2> SUFFICES ASSUME NEW x \in Counted
               PROVE  x \in S <=> x.tokens = ModelTotal(days, x.name)
    OBVIOUS
  <2>1. x.name \in {"model a", "model b"} /\ x = [name |-> x.name, tokens |-> x.tokens] /\ x.tokens > 0
    <3>1. x.name \in Models /\ x = [name |-> x.name, tokens |-> x.tokens] /\ x.tokens \in Nat \ {0}
      BY DEF Counted
    <3>2. \A n \in Nat \ {0} : n > 0
      OBVIOUS
    <3> QED BY <3>1, <3>2 DEF Models
  <2>2. a = [name |-> "model a", tokens |-> ModelTotal(days, "model a")]
        /\ b = [name |-> "model b", tokens |-> ModelTotal(days, "model b")]
    BY DEF a, b, ModelUsage
  <2> QED BY <1>2, <2>1, <2>2
<1> QED BY <1>6, <1>9, <1>10, <1>11 DEF us

LEMMA CostFacts ==
  ASSUME NEW days \in Seq(Day)
  PROVE  /\ Costs(days) \in Seq(Int) /\ Sum(Costs(days)) \in Int
         /\ NegativeCost(days) => Costs(days) # <<>>
<1> DEFINE t == [i \in DOMAIN days |-> days[i].cost]
           I == Int
           O == Optional(I)
           costs == Costs(days)
<1>1. DOMAIN days = 1 .. Len(days) /\ \A i \in 1 .. Len(days) : days[i] \in Day
  BY LenProperties, ElementOfSeq
<1>2. Mapped(t, days) /\ \A i \in 1 .. Len(days) : t[i] \in O
  BY <1>1 DEF Mapped, Day, Amount
<1>3. costs = Present(t)
  BY DEF Costs, Each
<1> HIDE DEF t, O, costs
<1>4. t \in Seq(O)
  BY <1>2, MappedFacts
<1>5. costs \in Seq(I)
  <2> HIDE DEF I
  <2>1. Present(t) \in Seq(I)
    BY <1>4, PresentFacts DEF O
  <2> QED BY <1>3, <2>1
<1>6. costs \in Seq(Int)
  BY <1>5 DEF I
<1>7. Sum(costs) \in Int
  BY <1>6, SumFacts
<1>8. costs = <<>> => Sum(costs) = 0
  <2>1. <<>> \in Seq(Int) /\ \A i \in 1 .. Len(<<>>) : <<>>[i] = 0
    BY EmptySeq
  <2>2. Sum(<<>>) = 0
    BY <2>1, SumZero
  <2> QED BY <2>2
<1>9. NegativeCost(days) <=> Sum(costs) < 0
  BY DEF NegativeCost, costs
<1>10. NegativeCost(days) => costs # <<>>
  BY <1>8, <1>9
<1> QED BY <1>6, <1>7, <1>10 DEF costs

(* A log whose costs add up to less than nothing has one metric that is    *)
(* refused, and so none.                                                   *)
LEMMA RefusedFacts ==
  ASSUME NEW days \in Seq(Day), NegativeCost(days)
  PROVE  ParseMetrics(CollectStructuredMetrics(days)) = <<>>
<1> DEFINE costs == Costs(days)
           total == ServedTokens(days)
           us == CollectModelUsage(days)
           a == When(total > 0, <<Metric(<<"tokens", "total">>, total)>>)
           m == Metric(<<"cost">>, Sum(costs))
           b == When(costs # <<>>, <<m>>)
           c == [i \in DOMAIN us |-> Metric(<<"tokens", us[i].name>>, us[i].tokens)]
           ms == CollectStructuredMetrics(days)
           V == [key : {<<"tokens", "total">>, <<"cost">>} \cup {<<"tokens", x>> : x \in Models}, value : Int]
<1>1. ms = a \o b \o c
  BY DEF CollectStructuredMetrics, Each
<1>2. total \in Nat /\ Sum(costs) \in Int /\ Sum(costs) < 0 /\ costs # <<>>
  BY TotalFacts, CostFacts DEF NegativeCost
<1>3. m \in V /\ m.value < 0 /\ Metric(<<"tokens", "total">>, total) \in V
  BY <1>2 DEF Metric
<1>4. a \in Seq(V)
  <2> HIDE DEF V
  <2> QED BY <1>3, SingletonFacts, EmptySeq DEF When
<1>5. b \in Seq(V) /\ m \in ToSet(b)
  <2> HIDE DEF V, m, costs
  <2>1. b = <<m>>
    BY <1>2 DEF When
  <2> QED BY <1>3, <2>1, SingletonFacts
<1>6. us \in Seq(Counted) /\ \A i \in 1 .. Len(us) : us[i] \in Counted
  BY ModelUsageFacts
<1>7. DOMAIN us = 1 .. Len(us)
  BY <1>6, LenProperties
<1> HIDE DEF us
<1>8. Mapped(c, us) /\ \A i \in 1 .. Len(us) : c[i] \in V
  BY <1>6, <1>7 DEF Mapped, Metric, Counted
<1> HIDE DEF V, a, b, c, m, ms
<1>9. c \in Seq(V)
  BY <1>6, <1>8, MappedFacts
<1> DEFINE ab == a \o b
<1>10. ab \in Seq(V) /\ m \in ToSet(ab)
  BY <1>4, <1>5, ConcatFacts
<1>11. ms = ab \o c
  BY <1>1
<1> HIDE DEF ab
<1>12. ms \in Seq(V) /\ m \in ToSet(ms)
  BY <1>9, <1>10, <1>11, ConcatFacts
<1>13. \E i \in DOMAIN ms : ms[i] = m
  BY <1>12 DEF ToSet
<1>14. ~(\A i \in DOMAIN ms : ms[i].value >= 0)
  BY <1>2, <1>3, <1>13 DEF m, Metric
<1> QED BY <1>14 DEF ParseMetrics, ms

(* The metrics of a log: its total and each model's, when there is one,    *)
(* and its cost, when that is none the runtime refuses.                    *)
LEMMA StructuredFacts ==
  ASSUME NEW days \in Seq(Day), ~NegativeCost(days)
  PROVE  LET ms == CollectStructuredMetrics(days) IN
           /\ ms \in Seq(NatMetric) /\ Unique(ms) /\ ParseMetrics(ms) = ms
           /\ \A m \in NatMetric :
                /\ m.key = <<"tokens", "total">> =>
                     (m \in ToSet(ms) <=> m.value = ServedTokens(days) /\ m.value > 0)
                /\ \A x \in Models : m.key = <<"tokens", x>> =>
                     (m \in ToSet(ms) <=> m.value = ModelTotal(days, x) /\ m.value > 0)
           /\ KeysOf(ms) \subseteq {<<"tokens", "total">>, <<"cost">>} \cup {<<"tokens", x>> : x \in Models}
<1> DEFINE costs == Costs(days)
           total == ServedTokens(days)
           us == CollectModelUsage(days)
           k == <<"tokens", "total">>
           l == <<"cost">>
           a == When(total > 0, <<Metric(k, total)>>)
           b == When(costs # <<>>, <<Metric(l, Sum(costs))>>)
           c == [i \in DOMAIN us |-> Metric(<<"tokens", us[i].name>>, us[i].tokens)]
           ms == CollectStructuredMetrics(days)
           K == {<<"tokens", x>> : x \in Models}
<1>1. ms = a \o b \o c
  BY DEF CollectStructuredMetrics, Each
<1>2. total = ServedTokens(days) /\ total \in Nat
  BY TotalFacts
<1>4. Sum(costs) \in Nat
  BY CostFacts DEF NegativeCost
<1> HIDE DEF costs, total
<1>5. k \in Seq(KeyParts) /\ l \in Seq(KeyParts) /\ \A x \in Models : <<"tokens", x>> \in Seq(KeyParts)
  <2>1. "tokens" \in KeyParts /\ "total" \in KeyParts /\ "cost" \in KeyParts
    BY PartFacts
  <2>2. \A x \in Models : x \in KeyParts
    BY DEF Models, KeyParts, Labels
  <2> QED BY <2>1, <2>2, KeyFacts
<1>6. k # l /\ k \notin K /\ l \notin K /\ \A x, y \in Models : <<"tokens", x>> = <<"tokens", y>> => x = y
  BY DEF Models
<1> HIDE DEF k, l, K
<1>7. /\ a \in Seq(NatMetric) /\ Unique(a) /\ KeysOf(a) \subseteq {k}
      /\ ToSet(a) = IF total > 0 THEN {Metric(k, total)} ELSE {}
  <2> DEFINE p == total > 0
  <2>1. a = One(p, Metric(k, total))
    BY DEF When, One
  <2>2. p \in BOOLEAN /\ (p => k \in Seq(KeyParts) /\ total \in Nat)
    BY <1>2, <1>5
  <2> HIDE DEF p, a
  <2>3. LET m == Metric(k, total) IN
           /\ One(p, m) \in Seq(NatMetric) /\ Unique(One(p, m)) /\ KeysOf(One(p, m)) \subseteq {k}
           /\ ToSet(One(p, m)) = IF p THEN {m} ELSE {}
    BY <2>2, OneMetric
  <2> QED BY <2>1, <2>3 DEF p
<1>8. /\ b \in Seq(NatMetric) /\ Unique(b) /\ KeysOf(b) \subseteq {l}
      /\ ToSet(b) \subseteq {Metric(l, Sum(costs))}
  <2> DEFINE p == costs # <<>>
             n == Sum(costs)
  <2>1. b = One(p, Metric(l, n))
    BY DEF When, One
  <2>2. p \in BOOLEAN /\ (p => l \in Seq(KeyParts) /\ n \in Nat)
    BY <1>4, <1>5
  <2> HIDE DEF p, b, n
  <2>3. LET m == Metric(l, n) IN
           /\ One(p, m) \in Seq(NatMetric) /\ Unique(One(p, m)) /\ KeysOf(One(p, m)) \subseteq {l}
           /\ ToSet(One(p, m)) = IF p THEN {m} ELSE {}
    BY <2>2, OneMetric
  <2> QED BY <2>1, <2>3 DEF n
<1>9. /\ us \in Seq(Counted) /\ \A i \in 1 .. Len(us) : us[i] \in Counted
      /\ \A i, j \in 1 .. Len(us) : us[i].name = us[j].name => i = j
      /\ \A x \in Counted : x \in ToSet(us) <=> x.tokens = ModelTotal(days, x.name)
  BY ModelUsageFacts
<1> HIDE DEF us
<1>10. /\ c \in Seq(NatMetric) /\ Len(c) = Len(us) /\ ToSet(c) = {c[i] : i \in 1 .. Len(us)}
       /\ \A i \in 1 .. Len(us) : c[i] = Metric(<<"tokens", us[i].name>>, us[i].tokens)
                                  /\ c[i].key = <<"tokens", us[i].name>> /\ c[i].value = us[i].tokens
  <2>1. DOMAIN us = 1 .. Len(us)
    BY <1>9, LenProperties
  <2>2. \A i \in 1 .. Len(us) : <<"tokens", us[i].name>> \in Seq(KeyParts) /\ us[i].tokens \in Nat
    BY <1>5, <1>9 DEF Counted
  <2>3. \A i \in 1 .. Len(us) : /\ c[i] = Metric(<<"tokens", us[i].name>>, us[i].tokens)
                                /\ c[i] \in NatMetric
                                /\ c[i].key = <<"tokens", us[i].name>> /\ c[i].value = us[i].tokens
    BY <2>1, <2>2, MetricFacts
  <2>4. Mapped(c, us)
    BY <2>1 DEF Mapped
  <2> HIDE DEF c, a, b, ms
  <2>5. c \in Seq(NatMetric) /\ Len(c) = Len(us) /\ ToSet(c) = {c[i] : i \in 1 .. Len(us)}
    <3> DEFINE M == NatMetric
               C == Counted
    <3>1. us \in Seq(C) /\ \A i \in 1 .. Len(us) : c[i] \in M
      BY <1>9, <2>3
    <3> HIDE DEF M, C
    <3>2. c \in Seq(M) /\ Len(c) = Len(us) /\ ToSet(c) = {c[i] : i \in 1 .. Len(us)}
      BY ONLY <2>4, <3>1, MappedFacts
    <3> QED BY <3>2 DEF M
  <2> QED BY <2>3, <2>5
<1> HIDE DEF c
<1>11. Unique(c)
  <2> SUFFICES ASSUME NEW i \in 1 .. Len(us), NEW j \in 1 .. Len(us), c[i].key = c[j].key
               PROVE  i = j
    BY <1>10 DEF Unique
  <2>1. us[i].name \in Models /\ us[j].name \in Models
    BY <1>9 DEF Counted
  <2>2. <<"tokens", us[i].name>> = <<"tokens", us[j].name>>
    BY <1>10
  <2> QED BY <1>6, <1>9, <2>1, <2>2
<1>12. KeysOf(c) \subseteq K
  <2>1. KeysOf(c) = {m.key : m \in ToSet(c)}
    BY <1>10, KeysFacts
  <2>2. \A i \in 1 .. Len(us) : c[i].key \in K
    BY <1>9, <1>10 DEF K, Counted
  <2> QED BY <1>10, <2>1, <2>2
<1> HIDE DEF a, b, ms
<1> DEFINE ab == a \o b
<1>13. ab \in Seq(NatMetric) /\ Unique(ab) /\ KeysOf(ab) \subseteq {k, l} /\ ToSet(ab) = ToSet(a) \cup ToSet(b)
  <2>1. KeysOf(a) \cap KeysOf(b) = {}
    BY <1>6, <1>7, <1>8
  <2> QED BY <1>7, <1>8, <2>1, UniqueConcat, ConcatFacts
<1> HIDE DEF ab
<1>14. /\ ms \in Seq(NatMetric) /\ Unique(ms) /\ KeysOf(ms) \subseteq {k, l} \cup K
       /\ ToSet(ms) = ToSet(a) \cup ToSet(b) \cup ToSet(c)
  <2>1. KeysOf(ab) \cap KeysOf(c) = {}
    BY <1>6, <1>12, <1>13
  <2>2. ms = ab \o c
    BY <1>1 DEF ab
  <2>3. /\ ab \o c \in Seq(NatMetric) /\ Unique(ab \o c) /\ KeysOf(ab \o c) = KeysOf(ab) \cup KeysOf(c)
        /\ ToSet(ab \o c) = ToSet(ab) \cup ToSet(c)
    BY <1>10, <1>11, <1>13, <2>1, UniqueConcat, ConcatFacts
  <2> QED BY <1>12, <1>13, <2>2, <2>3
<1>15. /\ \A m \in ToSet(a) : m.key = k /\ m \in NatMetric
       /\ \A m \in ToSet(b) : m.key = l /\ m \in NatMetric
       /\ \A m \in ToSet(c) : m.key \in K /\ m \in NatMetric
  <2>1. /\ KeysOf(a) = {m.key : m \in ToSet(a)} /\ KeysOf(b) = {m.key : m \in ToSet(b)}
        /\ KeysOf(c) = {m.key : m \in ToSet(c)}
    BY <1>7, <1>8, <1>10, KeysFacts
  <2>2. ToSet(a) \subseteq NatMetric /\ ToSet(b) \subseteq NatMetric /\ ToSet(c) \subseteq NatMetric
    BY <1>7, <1>8, <1>10, SetOfSeq
  <2> QED BY <1>7, <1>8, <1>12, <2>1, <2>2
<1>16. ASSUME NEW m \in NatMetric, m.key = k
       PROVE  m \in ToSet(ms) <=> m.value = ServedTokens(days) /\ m.value > 0
  <2>1. m \in ToSet(ms) <=> m \in ToSet(a)
    BY <1>6, <1>14, <1>15, <1>16
  <2>2. m = Metric(k, m.value) /\ (Metric(k, m.value) = Metric(k, total) <=> m.value = total)
    BY <1>16 DEF NatMetric, Metric
  <2> QED BY <1>2, <1>7, <2>1, <2>2
<1>17. ASSUME NEW m \in NatMetric, NEW x \in Models, m.key = <<"tokens", x>>
       PROVE  m \in ToSet(ms) <=> m.value = ModelTotal(days, x) /\ m.value > 0
  <2>1. m.key \in K
    BY <1>17 DEF K
  <2>2. m \in ToSet(ms) <=> m \in ToSet(c)
    BY <1>6, <1>14, <1>15, <2>1
  <2> DEFINE u == [name |-> x, tokens |-> m.value]
  <2>3. m.value \in Nat /\ m = Metric(<<"tokens", x>>, m.value) /\ u.name = x /\ u.tokens = m.value
    BY <1>17 DEF NatMetric, Metric
  <2>4. u \in Counted <=> m.value > 0
    BY <2>3 DEF Counted
  <2>5. \A i \in 1 .. Len(us) : c[i] = m <=> us[i] = u
    <3> SUFFICES ASSUME NEW i \in 1 .. Len(us)
                 PROVE  c[i] = m <=> us[i] = u
      OBVIOUS
    <3>1. us[i].name \in Models /\ us[i] = [name |-> us[i].name, tokens |-> us[i].tokens]
      BY <1>9 DEF Counted
    <3>2. c[i].key = <<"tokens", us[i].name>> /\ c[i].value = us[i].tokens /\ c[i] = Metric(<<"tokens", us[i].name>>, us[i].tokens)
      BY <1>10
    <3>3. c[i] = m => us[i].name = x /\ us[i].tokens = m.value
      BY <1>6, <1>17, <3>1, <3>2
    <3>4. us[i] = u => c[i] = m
      BY <2>3, <3>2
    <3> QED BY <3>1, <3>3, <3>4
  <2>6. ToSet(us) = {us[i] : i \in 1 .. Len(us)} /\ ToSet(us) \subseteq Counted
    BY <1>9, SetOfSeq
  <2>7. m \in ToSet(c) <=> u \in ToSet(us)
    BY <1>10, <2>5, <2>6
  <2> HIDE DEF u
  <2>8. u \in ToSet(us) <=> m.value = ModelTotal(days, x) /\ m.value > 0
    BY <1>9, <2>3, <2>4, <2>6
  <2> QED BY <2>2, <2>7, <2>8
<1>18. ParseMetrics(ms) = ms
  BY <1>14, KeysFacts
<1> QED BY <1>14, <1>16, <1>17, <1>18, SMTT(30) DEF k, l, K, ms

(***************************************************************************)
(* Sums of sequences put together, and of a sequence taken apart.          *)
(***************************************************************************)
LEMMA SumConcat ==
  ASSUME NEW s \in Seq(Int), NEW t \in Seq(Int)
  PROVE  s \o t \in Seq(Int) /\ Sum(s \o t) = Sum(s) + Sum(t)
<1> DEFINE N == Len(s)
           M == Len(t)
           c == s \o t
<1>1. /\ N \in Nat /\ M \in Nat
      /\ c \in Seq(Int) /\ Len(c) = N + M
      /\ \A i \in 1 .. N + M : c[i] = IF i <= N THEN s[i] ELSE t[i - N]
  BY LenProperties, ConcatProperties
<1>2. PICK p \in [0 .. N -> Int] :
        p[0] = 0 /\ (\A k \in 1 .. N : p[k] = p[k - 1] + s[k]) /\ p[N] = Sum(s)
  BY SumRuns
<1>3. PICK q \in [0 .. M -> Int] :
        q[0] = 0 /\ (\A k \in 1 .. M : q[k] = q[k - 1] + t[k]) /\ q[M] = Sum(t)
  BY SumRuns
<1>4. PICK r \in [0 .. N + M -> Int] :
        r[0] = 0 /\ (\A k \in 1 .. N + M : r[k] = r[k - 1] + c[k]) /\ r[N + M] = Sum(c)
  <2> HIDE DEF c, N, M
  <2> QED BY <1>1, SumRuns
<1> HIDE DEF c, N, M
<1> DEFINE A == {k \in Nat : k <= N => r[k] = p[k]}
           B == {k \in Nat : k <= M => r[N + k] = p[N] + q[k]}
<1>5. 0 \in A
  BY <1>2, <1>4
<1>6. ASSUME NEW k \in Nat, k \in A
      PROVE  k + 1 \in A
  <2> SUFFICES ASSUME k + 1 <= N PROVE r[k + 1] = p[k + 1]
    OBVIOUS
  <2>1. k <= N /\ k + 1 \in 1 .. N /\ k + 1 \in 1 .. N + M /\ (k + 1) - 1 = k
    BY <1>1
  <2>2. r[k] = p[k]
    BY <1>6, <2>1
  <2>3. r[k + 1] = r[k] + c[k + 1] /\ p[k + 1] = p[k] + s[k + 1] /\ c[k + 1] = s[k + 1]
    BY <1>1, <1>2, <1>4, <2>1
  <2> QED BY <2>2, <2>3
<1>7. r[N] = p[N]
  <2>1. N \in A
    <3> HIDE DEF A
    <3> QED BY <1>1, <1>5, <1>6, Induction
  <2> QED BY <1>1, <2>1
<1>8. 0 \in B
  BY <1>1, <1>2, <1>3, <1>7
<1>9. ASSUME NEW k \in Nat, k \in B
      PROVE  k + 1 \in B
  <2> SUFFICES ASSUME k + 1 <= M PROVE r[N + (k + 1)] = p[N] + q[k + 1]
    OBVIOUS
  <2> DEFINE j == N + (k + 1)
  <2>1. /\ k <= M /\ k + 1 \in 1 .. M /\ (k + 1) - 1 = k
        /\ j \in 1 .. N + M /\ j - 1 = N + k /\ j - N = k + 1 /\ ~(j <= N)
        /\ k \in 0 .. M /\ N \in 0 .. N
    BY <1>1
  <2>2. r[N + k] = p[N] + q[k]
    BY <1>9, <2>1
  <2>3. q[k + 1] = q[k] + t[k + 1]
    BY <1>3, <2>1
  <2> HIDE DEF j
  <2>4. r[j] = r[N + k] + c[j] /\ c[j] = t[k + 1]
    BY <1>1, <1>4, <2>1
  <2>5. q[k] \in Int /\ p[N] \in Int /\ t[k + 1] \in Int
    <3>1. t[k + 1] \in Int
      BY <2>1, ElementOfSeq DEF M
    <3> QED BY <1>2, <1>3, <2>1, <3>1
  <2>6. r[j] = p[N] + q[k + 1]
    BY <2>2, <2>3, <2>4, <2>5
  <2> QED BY <2>6 DEF j
<1>10. r[N + M] = p[N] + q[M]
  <2>1. M \in B
    <3> HIDE DEF B
    <3> QED BY <1>1, <1>8, <1>9, Induction
  <2> QED BY <1>1, <2>1
<1> QED BY <1>1, <1>2, <1>3, <1>4, <1>10 DEF c

LEMMA SumOne ==
  ASSUME NEW n \in Int
  PROVE  <<n>> \in Seq(Int) /\ Sum(<<n>>) = n
<1> DEFINE s == <<n>>
<1>1. s \in Seq(Int) /\ Len(s) = 1 /\ s[1] = n
  OBVIOUS
<1> HIDE DEF s
<1>2. PICK r \in [0 .. 1 -> Int] : r[0] = 0 /\ (\A k \in 1 .. 1 : r[k] = r[k - 1] + s[k]) /\ r[1] = Sum(s)
  BY <1>1, SumRuns
<1>3. r[1] = r[1 - 1] + s[1] /\ 1 - 1 = 0
  BY <1>2
<1> QED BY <1>1, <1>2, <1>3 DEF s

TokensOf(days) == [i \in DOMAIN days |-> ServedCount(days[i])]

LEMMA TokensFacts ==
  ASSUME NEW days \in Seq(Day)
  PROVE  /\ TokensOf(days) \in Seq(Int) /\ TokensOf(days) \in Seq(Nat)
         /\ Len(TokensOf(days)) = Len(days) /\ (TokensOf(days) = <<>> <=> days = <<>>)
         /\ ServedTokens(days) = Sum(TokensOf(days)) /\ ServedTokens(days) \in Nat
         /\ \A i \in 1 .. Len(days) : TokensOf(days)[i] = ServedCount(days[i]) /\ ServedCount(days[i]) <= ServedTokens(days)
<1> DEFINE t == TokensOf(days)
<1>1. DOMAIN days = 1 .. Len(days) /\ \A i \in 1 .. Len(days) : days[i] \in Day
  BY LenProperties, ElementOfSeq
<1>2. \A i \in 1 .. Len(days) : t[i] = ServedCount(days[i]) /\ t[i] \in Nat
  BY <1>1, CountFacts DEF TokensOf
<1>3. Mapped(t, days)
  BY <1>1 DEF Mapped, TokensOf
<1>4. ServedTokens(days) = Sum(t)
  BY DEF ServedTokens, Each, TokensOf
<1> HIDE DEF t
<1>5. /\ t \in Seq(Nat) /\ t \in Seq(Int) /\ Len(t) = Len(days) /\ (t = <<>> <=> days = <<>>)
      /\ Sum(t) \in Nat /\ \A i \in 1 .. Len(days) : t[i] <= Sum(t)
  BY <1>2, <1>3, SumMapped
<1> QED BY <1>2, <1>4, <1>5 DEF t

LEMMA TotalConcat ==
  ASSUME NEW s \in Seq(Day), NEW t \in Seq(Day)
  PROVE  ServedTokens(s \o t) = ServedTokens(s) + ServedTokens(t)
<1> DEFINE c == s \o t
           u == TokensOf(s) \o TokensOf(t)
<1>1. /\ c \in Seq(Day) /\ Len(c) = Len(s) + Len(t)
      /\ \A i \in 1 .. Len(s) + Len(t) : c[i] = IF i <= Len(s) THEN s[i] ELSE t[i - Len(s)]
      /\ Len(s) \in Nat /\ Len(t) \in Nat
  BY ConcatProperties, LenProperties
<1>2. /\ TokensOf(s) \in Seq(Int) /\ Len(TokensOf(s)) = Len(s)
      /\ \A i \in 1 .. Len(s) : TokensOf(s)[i] = ServedCount(s[i])
      /\ TokensOf(t) \in Seq(Int) /\ Len(TokensOf(t)) = Len(t)
      /\ \A i \in 1 .. Len(t) : TokensOf(t)[i] = ServedCount(t[i])
      /\ ServedTokens(s) = Sum(TokensOf(s)) /\ ServedTokens(t) = Sum(TokensOf(t))
  BY TokensFacts
<1>3. /\ u \in Seq(Int) /\ Len(u) = Len(s) + Len(t)
      /\ \A i \in 1 .. Len(s) + Len(t) : u[i] = IF i <= Len(s) THEN TokensOf(s)[i] ELSE TokensOf(t)[i - Len(s)]
  <2> DEFINE I == Int
             v == TokensOf(s)
             w == TokensOf(t)
  <2>1. v \in Seq(I) /\ w \in Seq(I)
    BY <1>2
  <2> HIDE DEF I, v, w
  <2>2. /\ v \o w \in Seq(I) /\ Len(v \o w) = Len(v) + Len(w)
        /\ \A i \in 1 .. Len(v) + Len(w) : (v \o w)[i] = IF i <= Len(v) THEN v[i] ELSE w[i - Len(v)]
    BY <2>1, ConcatProperties
  <2>3. Len(v) = Len(s) /\ Len(w) = Len(t) /\ u = v \o w
    BY <1>2 DEF v, w
  <2> QED BY <2>2, <2>3 DEF I, v, w
<1>4. Sum(u) = ServedTokens(s) + ServedTokens(t)
  BY <1>2, SumConcat
<1> HIDE DEF c, u
<1>5. /\ TokensOf(c) \in Seq(Int) /\ Len(TokensOf(c)) = Len(c)
      /\ \A i \in 1 .. Len(c) : TokensOf(c)[i] = ServedCount(c[i])
      /\ ServedTokens(c) = Sum(TokensOf(c))
  BY <1>1, TokensFacts
<1>6. ASSUME NEW i \in 1 .. Len(s) + Len(t)
      PROVE  u[i] = TokensOf(c)[i]
  <2>1. CASE i <= Len(s)
    <3>1. i \in 1 .. Len(s)
      BY <1>1, <2>1
    <3> QED BY <1>1, <1>2, <1>3, <1>5, <2>1, <3>1
  <2>2. CASE ~(i <= Len(s))
    <3>1. i - Len(s) \in 1 .. Len(t)
      BY <1>1, <2>2
    <3> QED BY <1>1, <1>2, <1>3, <1>5, <2>2, <3>1
  <2> QED BY <2>1, <2>2
<1>7. u = TokensOf(c)
  BY <1>1, <1>3, <1>5, <1>6, SeqEqual
<1> QED BY <1>4, <1>5, <1>7 DEF c

LEMMA TotalOne ==
  ASSUME NEW d \in Day
  PROVE  <<d>> \in Seq(Day) /\ Len(<<d>>) = 1 /\ ServedTokens(<<d>>) = ServedCount(d)
<1> DEFINE s == <<d>>
<1>1. s \in Seq(Day) /\ Len(s) = 1 /\ s[1] = d
  OBVIOUS
<1>2. TokensOf(s) = <<ServedCount(d)>>
  BY DEF TokensOf
<1>3. ServedCount(d) \in Int
  BY CountFacts
<1> HIDE DEF s
<1>4. ServedTokens(s) = Sum(<<ServedCount(d)>>)
  BY <1>1, <1>2, TokensFacts
<1> QED BY <1>1, <1>3, <1>4, SumOne DEF s

(***************************************************************************)
(* Taking a sequence apart loses no day and no token.                      *)
(***************************************************************************)
LEMMA LookCounts ==
  ASSUME NEW S, NEW found \in Seq(Day), NEW d \in Day
  PROVE  LET new == Look(S, found, d) IN
           /\ new \in Seq(Day)
           /\ Len(new) = Len(found) + (IF d \in S THEN 1 ELSE 0)
           /\ ServedTokens(new) = ServedTokens(found) + (IF d \in S THEN ServedCount(d) ELSE 0)
<1>1. Len(found) \in Nat /\ ServedTokens(found) \in Nat
  BY LenProperties, TokensFacts
<1>2. CASE d \notin S
  <2>1. Look(S, found, d) = found
    BY <1>2 DEF Look
  <2> QED BY <1>1, <1>2, <2>1
<1>3. CASE d \in S
  <2> DEFINE one == <<d>>
  <2>1. one \in Seq(Day) /\ Len(one) = 1 /\ ServedTokens(one) = ServedCount(d)
    BY TotalOne
  <2>2. Look(S, found, d) = found \o one
    BY <1>3, AppendIsConcat DEF Look
  <2> HIDE DEF one
  <2>3. found \o one \in Seq(Day) /\ Len(found \o one) = Len(found) + 1
    <3> DEFINE D == Day
    <3>1. found \in Seq(D) /\ one \in Seq(D) /\ Len(one) = 1
      BY <2>1
    <3> HIDE DEF D
    <3>2. found \o one \in Seq(D) /\ Len(found \o one) = Len(found) + Len(one)
      BY <3>1, ConcatProperties
    <3> QED BY <3>1, <3>2 DEF D
  <2> QED BY <1>3, <2>1, <2>2, <2>3, TotalConcat
<1> QED BY <1>2, <1>3

(* Days taken apart by any condition keep their number and their total.    *)
LEMMA SplitFacts ==
  ASSUME NEW S, NEW R, NEW order \in Seq(Day), \A d \in ToSet(order) : d \in R <=> d \notin S
  PROVE  LET a == Among(order, S)
             b == Among(order, R)
         IN /\ a \in Seq(Day) /\ b \in Seq(Day)
            /\ Len(a) + Len(b) = Len(order)
            /\ ServedTokens(a) + ServedTokens(b) = ServedTokens(order)
<1> DEFINE N == Len(order)
           t == TokensOf(order)
<1>1. /\ N \in Nat /\ \A k \in 1 .. N : order[k] \in Day /\ order[k] \in ToSet(order)
  BY LenProperties, ElementOfSeq, SetOfSeq
<1>2. PICK p \in [0 .. N -> Seq(Day)] : /\ p[0] = <<>>
                                        /\ \A k \in 1 .. N : p[k] = Look(S, p[k - 1], order[k])
                                        /\ p[N] = Among(order, S)
  BY AmongRuns
<1>3. PICK q \in [0 .. N -> Seq(Day)] : /\ q[0] = <<>>
                                        /\ \A k \in 1 .. N : q[k] = Look(R, q[k - 1], order[k])
                                        /\ q[N] = Among(order, R)
  BY AmongRuns
<1>4. /\ t \in Seq(Int) /\ Len(t) = N /\ ServedTokens(order) = Sum(t)
      /\ \A k \in 1 .. N : t[k] = ServedCount(order[k])
  BY TokensFacts
<1> HIDE DEF N, t
<1>5. PICK r \in [0 .. N -> Int] :
        r[0] = 0 /\ (\A k \in 1 .. N : r[k] = r[k - 1] + t[k]) /\ r[N] = Sum(t)
  BY <1>4, SumRuns
<1> DEFINE Split(k) == /\ Len(p[k]) + Len(q[k]) = k
                       /\ ServedTokens(p[k]) + ServedTokens(q[k]) = r[k]
           Good == {k \in Nat : k <= N => Split(k)}
<1>6. 0 \in Good
  <2>1. Len(<<>>) = 0 /\ <<>> \in Seq(Day) /\ TokensOf(<<>>) = <<>>
    BY EmptySeq DEF TokensOf
  <2>2. ServedTokens(<<>>) = 0
    BY <2>1, TokensFacts, SumEmpty
  <2> QED BY <1>2, <1>3, <1>5, <2>1, <2>2
<1>7. ASSUME NEW k \in Nat, k \in Good
      PROVE  k + 1 \in Good
  <2> SUFFICES ASSUME k + 1 <= N PROVE Split(k + 1)
    OBVIOUS
  <2>0. k \in 0 .. N /\ k + 1 \in 1 .. N /\ (k + 1) - 1 = k /\ k + 1 \in 0 .. N
    BY <1>1
  <2>1. Split(k)
    <3>1. k <= N
      BY <1>1
    <3> HIDE DEF Split
    <3> QED BY <1>7, <3>1
  <2> DEFINE d == order[k + 1]
             a == p[k]
             b == q[k]
             a1 == Look(S, a, d)
             b1 == Look(R, b, d)
  <2>2. /\ p[k + 1] = a1 /\ q[k + 1] = b1 /\ a \in Seq(Day) /\ b \in Seq(Day)
        /\ d \in Day /\ d \in ToSet(order) /\ r[k + 1] = r[k] + ServedCount(d)
    BY <1>1, <1>2, <1>3, <1>4, <1>5, <2>0
  <2>3. /\ Len(a1) = Len(a) + (IF d \in S THEN 1 ELSE 0)
        /\ ServedTokens(a1) = ServedTokens(a) + (IF d \in S THEN ServedCount(d) ELSE 0)
        /\ Len(b1) = Len(b) + (IF d \in R THEN 1 ELSE 0)
        /\ ServedTokens(b1) = ServedTokens(b) + (IF d \in R THEN ServedCount(d) ELSE 0)
    <3> HIDE DEF d, a, b
    <3> QED BY <2>2, LookCounts
  <2>4. /\ Len(a) \in Nat /\ Len(b) \in Nat /\ ServedTokens(a) \in Nat /\ ServedTokens(b) \in Nat
        /\ ServedCount(d) \in Nat /\ r[k] \in Int
    <3>1. r[k] \in Int
      BY <1>5, <2>0
    <3> HIDE DEF d, a, b
    <3> QED BY <2>2, <3>1, LenProperties, TokensFacts, CountFacts
  <2>5. d \in R <=> d \notin S
    BY <2>2
  <2>6. Len(a) + Len(b) = k /\ ServedTokens(a) + ServedTokens(b) = r[k]
    BY <2>1
  <2> HIDE DEF a, b, d, a1, b1
  <2>7. Len(a1) + Len(b1) = k + 1 /\ ServedTokens(a1) + ServedTokens(b1) = r[k + 1]
    <3>1. CASE d \in S
      <4>1. /\ Len(a1) = Len(a) + 1 /\ ServedTokens(a1) = ServedTokens(a) + ServedCount(d)
            /\ Len(b1) = Len(b) + 0 /\ ServedTokens(b1) = ServedTokens(b) + 0
        BY <2>3, <2>5, <3>1
      <4>2. r[k + 1] = r[k] + ServedCount(d)
        BY <2>2
      <4> QED BY <2>4, <2>6, <4>1, <4>2
    <3>2. CASE d \notin S
      <4>1. /\ Len(a1) = Len(a) + 0 /\ ServedTokens(a1) = ServedTokens(a) + 0
            /\ Len(b1) = Len(b) + 1 /\ ServedTokens(b1) = ServedTokens(b) + ServedCount(d)
        BY <2>3, <2>5, <3>2
      <4>2. r[k + 1] = r[k] + ServedCount(d)
        BY <2>2
      <4> QED BY <2>4, <2>6, <4>1, <4>2
    <3> QED BY <3>1, <3>2
  <2> QED BY <2>2, <2>7
<1>8. Split(N)
  <2>1. N \in Good
    <3> HIDE DEF Good
    <3> QED BY <1>1, <1>6, <1>7, Induction
  <2> QED BY <1>1, <2>1
<1>9. N \in 0 .. N
  BY <1>1
<1> QED BY <1>2, <1>3, <1>4, <1>5, <1>8, <1>9 DEF N

(***************************************************************************)
(* The chart: the days with a date, in order, the last ones of them.       *)
(***************************************************************************)
LEMMA InsertFacts ==
  ASSUME NEW sorted \in Seq(Day), NEW d \in Day
  PROVE  LET new == InsertByDay(sorted, d) IN
           /\ new \in Seq(Day) /\ Len(new) = Len(sorted) + 1
           /\ ToSet(new) \subseteq ToSet(sorted) \cup {d}
           /\ ServedTokens(new) = ServedTokens(sorted) + ServedCount(d)
<1> DEFINE S == {x \in ToSet(sorted) : The(x.day) <= The(d.day)}
           a == Among(sorted, S)
           b == Among(sorted, ToSet(sorted) \ S)
           one == <<d>>
           D == Day
<1>1. InsertByDay(sorted, d) = (a \o one) \o b
  BY DEF InsertByDay
<1>2. /\ a \in Seq(D) /\ b \in Seq(D) /\ Len(a) + Len(b) = Len(sorted)
      /\ ServedTokens(a) + ServedTokens(b) = ServedTokens(sorted)
  <2>1. \A x \in ToSet(sorted) : x \in ToSet(sorted) \ S <=> x \notin S
    OBVIOUS
  <2> HIDE DEF S
  <2> QED BY <2>1, SplitFacts
<1>3. one \in Seq(D) /\ Len(one) = 1 /\ ServedTokens(one) = ServedCount(d)
  BY TotalOne
<1>4. ServedTokens(a) \in Nat /\ ServedTokens(b) \in Nat /\ ServedCount(d) \in Nat
  BY <1>2, TokensFacts, CountFacts
<1> HIDE DEF a, b, one, D
<1>5. a \o one \in Seq(D) /\ Len(a \o one) = Len(a) + Len(one)
  BY <1>2, <1>3, ConcatProperties
<1>6. ServedTokens(a \o one) = ServedTokens(a) + ServedTokens(one)
  BY <1>2, <1>3, TotalConcat DEF D
<1> DEFINE ao == a \o one
<1>7. ao \in Seq(D) /\ Len(ao) = Len(a) + 1 /\ ServedTokens(ao) = ServedTokens(a) + ServedCount(d)
  BY <1>3, <1>5, <1>6
<1> HIDE DEF ao
<1>8. ao \o b \in Seq(D) /\ Len(ao \o b) = Len(ao) + Len(b)
  BY <1>2, <1>7, ConcatProperties
<1>9. ServedTokens(ao \o b) = ServedTokens(ao) + ServedTokens(b)
  BY <1>2, <1>7, TotalConcat DEF D
<1>10. Len(a) \in Nat /\ Len(b) \in Nat
  BY <1>2, LenProperties
<1> DEFINE c == ao \o b
<1>14. ToSet(c) \subseteq ToSet(sorted) \cup {d}
  <2>1. ToSet(a) \subseteq ToSet(sorted) /\ ToSet(b) \subseteq ToSet(sorted)
    BY AmongFacts DEF a, b
  <2>2. ToSet(one) = {d}
    BY SingletonFacts DEF one
  <2>3. ToSet(ao) = ToSet(a) \cup ToSet(one)
    BY <1>2, <1>3, ConcatFacts DEF ao
  <2>4. ToSet(c) = ToSet(ao) \cup ToSet(b)
    BY <1>2, <1>7, ConcatFacts
  <2> HIDE DEF c
  <2> QED BY <2>1, <2>2, <2>3, <2>4
<1>11. InsertByDay(sorted, d) = c /\ c \in Seq(Day)
  BY <1>1, <1>8 DEF ao, D
<1>12. Len(c) = Len(sorted) + 1
  <2>1. Len(c) = Len(ao) + Len(b)
    BY <1>8
  <2>2. Len(ao) = Len(a) + 1 /\ Len(a) + Len(b) = Len(sorted)
    BY <1>2, <1>7
  <2> HIDE DEF c
  <2> QED BY <1>10, <2>1, <2>2
<1>13. ServedTokens(c) = ServedTokens(sorted) + ServedCount(d)
  BY <1>2, <1>4, <1>7, <1>9
<1> HIDE DEF c
<1> QED BY <1>11, <1>12, <1>13, <1>14

(* The days sorted so far, as a run along the log.                         *)
LEMMA InsertRuns ==
  ASSUME NEW s \in Seq(Day)
  PROVE  \E r \in [0 .. Len(s) -> Seq(Day)] :
           /\ r[0] = <<>>
           /\ \A k \in 1 .. Len(s) : r[k] = InsertByDay(r[k - 1], s[k])
           /\ r[Len(s)] = FoldLeft(InsertByDay, <<>>, s)
<1> DEFINE N == Len(s)
           R == Seq(Day)
           f == [x \in R \X (1 .. N) |-> InsertByDay(x[1], s[x[2]])]
<1>1. N \in Nat /\ DOMAIN s = 1 .. N /\ <<>> \in R /\ \A k \in 1 .. N : s[k] \in Day
  BY LenProperties, ElementOfSeq
<1>0. \A a \in R, n \in Day : InsertByDay(a, n) \in R
  BY InsertFacts
<1>2. f \in [R \X (1 .. N) -> R]
  <2> HIDE DEF N, R
  <2> QED BY <1>0, <1>1
<1>3. \A t \in R, k \in 1 .. N : f[<<t, k>>] = InsertByDay(t, s[k])
  OBVIOUS
<1> HIDE DEF f, N
<1>4. PICK g \in [SUBSET (1 .. N) -> R] : FoldSolution(g, N, <<>>, f)
  <2> HIDE DEF R
  <2> QED BY <1>1, <1>2, FoldExists
<1>5. ASSUME NEW u \in SUBSET (1 .. N), u # {}
      PROVE  g[u] = InsertByDay(g[u \ {Max(u)}], s[Max(u)])
  <2>1. Max(u) \in 1 .. N /\ u \ {Max(u)} \in SUBSET (1 .. N)
    BY <1>1, <1>5, MaxOfIndices
  <2>2. g[u \ {Max(u)}] \in R
    BY <2>1
  <2> QED BY <1>3, <1>4, <1>5, <2>1, <2>2 DEF FoldSolution
<1>6. g[{}] = <<>>
  BY <1>4 DEF FoldSolution
<1> DEFINE F(h) == [u \in SUBSET (1 .. N) |->
                      IF u = {} THEN <<>> ELSE InsertByDay(h[u \ {Max(u)}], s[Max(u)])]
<1>7. g = F(g)
  BY <1>5, <1>6
<1>8. FoldLeft(InsertByDay, <<>>, s) = (CHOOSE h : h = F(h))[1 .. N]
  BY <1>1 DEF FoldLeft, MapThenFoldSet
<1> DEFINE h == CHOOSE h : h = F(h)
<1>9. h = F(h) /\ FoldLeft(InsertByDay, <<>>, s) = h[1 .. N]
  BY <1>7, <1>8
<1> HIDE DEF h
<1>10. h[{}] = <<>>
  BY <1>9
<1>11. \A u \in SUBSET (1 .. N) : u # {} /\ h[u \ {Max(u)}] \in R =>
         h[u] = f[<<h[u \ {Max(u)}], Max(u)>>]
  <2> SUFFICES ASSUME NEW u \in SUBSET (1 .. N), u # {}, h[u \ {Max(u)}] \in R
               PROVE  h[u] = f[<<h[u \ {Max(u)}], Max(u)>>]
    OBVIOUS
  <2>1. h[u] = InsertByDay(h[u \ {Max(u)}], s[Max(u)])
    BY <1>9
  <2>2. Max(u) \in 1 .. N
    BY <1>1, MaxOfIndices
  <2> QED BY <1>3, <2>1, <2>2
<1>12. FoldSteps(h, N, R, <<>>, f)
  BY <1>10, <1>11 DEF FoldSteps
<1>13. PICK r \in [0 .. N -> R] : FoldRun(r, h, N, <<>>, f)
  <2> HIDE DEF R, F
  <2> QED BY <1>1, <1>2, <1>12, FoldRuns
<1>14. ASSUME NEW k \in 1 .. N
       PROVE  r[k] = InsertByDay(r[k - 1], s[k])
  <2>1. k - 1 \in 0 .. N
    BY <1>1
  <2>2. r[k - 1] \in R
    BY <2>1
  <2> QED BY <1>3, <1>13, <2>2 DEF FoldRun
<1> QED BY <1>9, <1>13, <1>14 DEF N, FoldRun

(* Sorting by day loses no day and no token.                               *)
LEMMA SortedFacts ==
  ASSUME NEW s \in Seq(Day)
  PROVE  LET sorted == FoldLeft(InsertByDay, <<>>, s) IN
           /\ sorted \in Seq(Day) /\ Len(sorted) = Len(s) /\ ServedTokens(sorted) = ServedTokens(s)
           /\ ToSet(sorted) \subseteq ToSet(s)
<1> DEFINE N == Len(s)
           t == TokensOf(s)
           sorted == FoldLeft(InsertByDay, <<>>, s)
<1>1. N \in Nat /\ \A k \in 1 .. N : s[k] \in Day /\ s[k] \in ToSet(s)
  BY LenProperties, ElementOfSeq, SetOfSeq
<1>2. PICK q \in [0 .. N -> Seq(Day)] :
             /\ q[0] = <<>>
             /\ \A k \in 1 .. N : q[k] = InsertByDay(q[k - 1], s[k])
             /\ q[N] = sorted
  BY InsertRuns
<1>3. /\ t \in Seq(Int) /\ Len(t) = N /\ ServedTokens(s) = Sum(t)
      /\ \A k \in 1 .. N : t[k] = ServedCount(s[k])
  BY TokensFacts
<1> HIDE DEF N, t, sorted
<1>4. PICK r \in [0 .. N -> Int] :
        r[0] = 0 /\ (\A k \in 1 .. N : r[k] = r[k - 1] + t[k]) /\ r[N] = Sum(t)
  BY <1>3, SumRuns
<1> DEFINE Kept(k) == Len(q[k]) = k /\ ServedTokens(q[k]) = r[k] /\ ToSet(q[k]) \subseteq ToSet(s)
           Good == {k \in Nat : k <= N => Kept(k)}
<1>5. 0 \in Good
  <2>1. Len(<<>>) = 0 /\ <<>> \in Seq(Day) /\ TokensOf(<<>>) = <<>> /\ ToSet(<<>>) = {}
    BY EmptySeq DEF TokensOf, ToSet
  <2>2. ServedTokens(<<>>) = 0
    BY <2>1, TokensFacts, SumEmpty
  <2> QED BY <1>2, <1>4, <2>1, <2>2
<1>6. ASSUME NEW k \in Nat, k \in Good
      PROVE  k + 1 \in Good
  <2> SUFFICES ASSUME k + 1 <= N PROVE Kept(k + 1)
    OBVIOUS
  <2>0. k \in 0 .. N /\ k + 1 \in 1 .. N /\ (k + 1) - 1 = k /\ k + 1 \in 0 .. N
    BY <1>1
  <2>1. Kept(k)
    <3>1. k <= N
      BY <1>1
    <3> HIDE DEF Kept
    <3> QED BY <1>6, <3>1
  <2> DEFINE d == s[k + 1]
             a == q[k]
             new == InsertByDay(a, d)
  <2>2. q[k + 1] = new /\ a \in Seq(Day) /\ d \in Day /\ d \in ToSet(s) /\ r[k + 1] = r[k] + ServedCount(d)
    BY <1>1, <1>2, <1>3, <1>4, <2>0
  <2>3. Len(a) = k /\ ServedTokens(a) = r[k] /\ ToSet(a) \subseteq ToSet(s)
    BY <2>1
  <2> HIDE DEF d, a
  <2>4. /\ Len(new) = Len(a) + 1 /\ ServedTokens(new) = ServedTokens(a) + ServedCount(d)
        /\ ToSet(new) \subseteq ToSet(a) \cup {d}
    BY <2>2, InsertFacts
  <2> HIDE DEF new
  <2> QED BY <2>2, <2>3, <2>4
<1>7. N \in Good
  <2> HIDE DEF Good
  <2> QED BY <1>1, <1>5, <1>6, Induction
<1>8. Kept(N) /\ N \in 0 .. N
  BY <1>1, <1>7
<1> QED BY <1>2, <1>3, <1>4, <1>8 DEF N, sorted

LEMMA SumOfLast ==
  ASSUME NEW s \in Seq(Nat), NEW m \in Nat \ {0}, m <= Len(s) + 1
  PROVE  LET t == SubSeq(s, m, Len(s)) IN
           /\ t \in Seq(Nat) /\ t \in Seq(Int) /\ Len(t) = Len(s) - m + 1
           /\ Sum(t) \in Nat /\ Sum(t) <= Sum(s) /\ (m = 1 => t = s)
<1> DEFINE N == Len(s)
           I == Int
           K == Nat
           a == SubSeq(s, 1, m - 1)
           b == SubSeq(s, m, N)
<1>1. N \in Nat /\ \A i \in 1 .. N : s[i] \in K /\ s[i] \in I
  BY LenProperties, ElementOfSeq
<1>2. m \in Int /\ m - 1 \in Int /\ N \in Int /\ 1 \in Int
  BY <1>1
<1>3. /\ \A i \in 1 .. m - 1 : s[i] \in I /\ s[i] \in K
      /\ \A i \in m .. N : s[i] \in I /\ s[i] \in K
  BY <1>1
<1> HIDE DEF N
<1>4. s \in Seq(I)
  <2>1. s \in [1 .. N -> I]
    BY <1>1, LenProperties DEF N
  <2> HIDE DEF I
  <2> QED BY <1>1, <2>1, SeqDef
<1> HIDE DEF I, K
<1>5. /\ a \in Seq(I) /\ a \in Seq(K)
      /\ Len(a) = (IF 1 <= m - 1 THEN (m - 1) - 1 + 1 ELSE 0)
      /\ \A i \in 1 .. (m - 1) - 1 + 1 : a[i] = s[1 + i - 1]
  BY <1>2, <1>3, SubSeqProperties
<1>6. /\ b \in Seq(I) /\ b \in Seq(K)
      /\ Len(b) = (IF m <= N THEN N - m + 1 ELSE 0)
      /\ \A i \in 1 .. N - m + 1 : b[i] = s[m + i - 1]
  BY <1>2, <1>3, SubSeqProperties
<1>7. Len(a) = m - 1 /\ Len(b) = N - m + 1
  BY <1>1, <1>5, <1>6 DEF N
<1>8. /\ \A i \in 1 .. m - 1 : a[i] = s[i]
      /\ \A i \in 1 .. N - m + 1 : b[i] = s[i + (m - 1)]
  <2>1. \A i \in 1 .. m - 1 : i \in 1 .. (m - 1) - 1 + 1 /\ 1 + i - 1 = i
    BY <1>2
  <2>2. \A i \in 1 .. N - m + 1 : m + i - 1 = i + (m - 1)
    BY <1>2
  <2> HIDE DEF a, b
  <2> QED BY <1>5, <1>6, <2>1, <2>2
<1> HIDE DEF a, b
<1>9. Sum(a) \in Nat /\ Sum(b) \in Nat
  <2>1. Mapped(a, a) /\ (\A i \in 1 .. Len(a) : a[i] \in K) /\ Mapped(b, b) /\ (\A i \in 1 .. Len(b) : b[i] \in K)
    BY <1>5, <1>6, LenProperties, ElementOfSeq DEF Mapped
  <2>2. (\A i \in 1 .. Len(a) : a[i] \in Nat) /\ (\A i \in 1 .. Len(b) : b[i] \in Nat)
    BY <2>1 DEF K
  <2> QED BY <1>5, <1>6, <2>1, <2>2, SumMapped
<1>10. a \o b = s
  <2> DEFINE c == a \o b
  <2>1. /\ c \in Seq(I) /\ Len(c) = Len(a) + Len(b)
        /\ \A i \in 1 .. Len(a) + Len(b) : c[i] = IF i <= Len(a) THEN a[i] ELSE b[i - Len(a)]
    BY <1>5, <1>6, ConcatProperties
  <2> HIDE DEF c
  <2>2. Len(a) + Len(b) = N
    BY <1>1, <1>2, <1>7
  <2>3. ASSUME NEW i \in 1 .. N
        PROVE  c[i] = s[i]
    <3>1. CASE i <= m - 1
      <4>1. i \in 1 .. m - 1
        BY <1>1, <1>2, <3>1
      <4> QED BY <1>7, <1>8, <2>1, <2>2, <3>1, <4>1
    <3>2. CASE ~(i <= m - 1)
      <4>1. i - (m - 1) \in 1 .. N - m + 1 /\ (i - (m - 1)) + (m - 1) = i
        BY <1>1, <1>2, <3>2
      <4>2. c[i] = b[i - (m - 1)]
        BY <1>7, <2>1, <2>2, <3>2
      <4> QED BY <1>8, <4>1, <4>2
    <3> QED BY <3>1, <3>2
  <2>4. c = s
    BY <1>4, <2>1, <2>2, <2>3, SeqEqual DEF N
  <2> QED BY <2>4 DEF c
<1>11. Sum(s) = Sum(a) + Sum(b)
  <2>1. a \in Seq(Int) /\ b \in Seq(Int)
    BY <1>5, <1>6 DEF I
  <2>2. Sum(a \o b) = Sum(a) + Sum(b)
    BY <2>1, SumConcat
  <2> QED BY <1>10, <2>2
<1>12. m = 1 => b = s
  BY SubSeqFull DEF b, N
<1>13. Sum(b) <= Sum(s)
  BY <1>9, <1>11
<1>14. b \in Seq(Nat) /\ b \in Seq(Int)
  BY <1>6 DEF I, K
<1> QED BY <1>7, <1>9, <1>12, <1>13, <1>14 DEF b, N

(* The points of the chart sum to no more than what is served, and to all  *)
(* of it when every day with a count has a date and none is cut off.       *)
LEMMA ChartFacts ==
  ASSUME NEW days \in Seq(Day)
  PROVE  LET points == CollectUsageChartPoints(days) IN
           /\ points \in Seq(Nat) /\ points \in Seq(Int) /\ Len(points) <= ChartDays
           /\ Sum(points) <= ServedTokens(days)
           /\ (\A d \in ToSet(days) : Count(d) > 0 => d.day # {}) /\ Len(days) <= ChartDays =>
                Sum(points) = ServedTokens(days)
<1> DEFINE S == {d \in ToSet(days) : d.day # {} /\ d.tokens # {} /\ Count(d) >= 0}
           dated == Dated(days)
           rest == Among(days, ToSet(days) \ S)
           sorted == FoldLeft(InsertByDay, <<>>, dated)
           points == TokensOf(sorted)
           n == Len(points)
           m == Max({1, n - ChartDays + 1})
           t == CollectUsageChartPoints(days)
<1>1. dated = Among(days, S)
  BY DEF Dated
<1>2. /\ dated \in Seq(Day) /\ rest \in Seq(Day) /\ Len(dated) + Len(rest) = Len(days)
      /\ ServedTokens(dated) + ServedTokens(rest) = ServedTokens(days)
  <2> DEFINE R == ToSet(days) \ S
  <2>1. \A d \in ToSet(days) : d \in R <=> d \notin S
    OBVIOUS
  <2> HIDE DEF S, R
  <2>2. /\ Among(days, S) \in Seq(Day) /\ Among(days, R) \in Seq(Day)
        /\ Len(Among(days, S)) + Len(Among(days, R)) = Len(days)
        /\ ServedTokens(Among(days, S)) + ServedTokens(Among(days, R)) = ServedTokens(days)
    BY <2>1, SplitFacts
  <2> HIDE DEF dated
  <2> QED BY <1>1, <2>2 DEF R
<1>3. ASSUME \A d \in ToSet(days) : Count(d) > 0 => d.day # {}
      PROVE  ServedTokens(rest) = 0
  <2> DEFINE w == TokensOf(rest)
             R == ToSet(days) \ S
  <2>1. rest \in Seq(Day) /\ ToSet(rest) \subseteq R
    <3>1. rest = Among(days, R)
      OBVIOUS
    <3> HIDE DEF R, rest
    <3> QED BY <3>1, AmongFacts
  <2>2. ASSUME NEW d \in R
        PROVE  d \in Day /\ ServedCount(d) = 0
    <3>1. d \in Day /\ d \in ToSet(days)
      BY SetOfSeq
    <3>2. d.tokens = {} => Count(d) = 0
      BY DEF Count, OrElse
    <3>3. Count(d) \in Int
      BY <3>1, CountFacts
    <3>4. ~(Count(d) > 0)
      <4>1. d.day = {} \/ d.tokens = {} \/ ~(Count(d) >= 0)
        BY <3>1
      <4> QED BY <1>3, <3>1, <3>2, <3>3, <4>1
    <3> QED BY <3>1, <3>4, CountFacts
  <2> HIDE DEF R, rest
  <2>3. /\ w \in Seq(Int) /\ Len(w) = Len(rest) /\ ServedTokens(rest) = Sum(w)
        /\ \A i \in 1 .. Len(rest) : w[i] = ServedCount(rest[i])
    BY <2>1, TokensFacts
  <2>4. \A i \in 1 .. Len(rest) : rest[i] \in ToSet(rest)
    BY <2>1, SetOfSeq
  <2>5. \A i \in 1 .. Len(w) : w[i] = 0
    BY <2>1, <2>2, <2>3, <2>4
  <2> HIDE DEF w
  <2> QED BY <2>3, <2>5, SumZero
<1>15. ToSet(dated) \subseteq S /\ \A d \in S : d \in Day /\ Count(d) >= 0
  <2>1. ToSet(days) \subseteq Day
    BY SetOfSeq
  <2>2. ToSet(Among(days, S)) = ToSet(days) \cap S
    <3> HIDE DEF S
    <3> QED BY AmongFacts
  <2> QED BY <1>1, <2>1, <2>2
<1> HIDE DEF S, dated, rest
<1>4. /\ sorted \in Seq(Day) /\ Len(sorted) = Len(dated) /\ ServedTokens(sorted) = ServedTokens(dated)
      /\ ToSet(sorted) \subseteq ToSet(dated)
  BY <1>2, SortedFacts
<1>16. t = SubSeq([i \in DOMAIN sorted |-> Count(sorted[i])],
                  Max({1, Len([i \in DOMAIN sorted |-> Count(sorted[i])]) - ChartDays + 1}),
                  Len([i \in DOMAIN sorted |-> Count(sorted[i])]))
  BY DEF CollectUsageChartPoints, Each, dated
<1> HIDE DEF sorted
<1>17. [i \in DOMAIN sorted |-> Count(sorted[i])] = points
  <2>1. DOMAIN sorted = 1 .. Len(sorted) /\ \A i \in 1 .. Len(sorted) : sorted[i] \in ToSet(sorted)
    BY <1>4, LenProperties, SetOfSeq
  <2>2. \A d \in ToSet(sorted) : d \in Day /\ Count(d) >= 0
    BY <1>4, <1>15
  <2>3. \A i \in DOMAIN sorted : Count(sorted[i]) = ServedCount(sorted[i])
    BY <2>1, <2>2, CountFacts
  <2> QED BY <2>3 DEF TokensOf
<1>5. t = SubSeq(points, m, n)
  BY <1>16, <1>17
<1> HIDE DEF t
<1>6. /\ points \in Seq(Nat) /\ n = Len(dated) /\ n \in Nat
      /\ Sum(points) = ServedTokens(dated)
  BY <1>4, TokensFacts, LenProperties
<1> HIDE DEF points
<1>7. ChartDays \in Nat /\ ChartDays >= 1
  BY ReportAssumption
<1>8. m \in Nat \ {0} /\ m <= n + 1 /\ n - m + 1 <= ChartDays /\ (n <= ChartDays => m = 1)
  <2>1. m = IF n - ChartDays + 1 < 1 THEN 1 ELSE n - ChartDays + 1
    BY <1>6, <1>7, MaxOfTwo
  <2> HIDE DEF n, m
  <2> QED BY <1>6, <1>7, <2>1
<1> HIDE DEF m
<1>9. /\ t \in Seq(Nat) /\ t \in Seq(Int) /\ Len(t) = n - m + 1
      /\ Sum(t) \in Nat /\ Sum(t) <= Sum(points) /\ (m = 1 => t = points)
  <2>1. m <= Len(points) + 1
    BY <1>8
  <2> QED BY <1>5, <1>6, <1>8, <2>1, SumOfLast
<1>10. ServedTokens(dated) \in Nat /\ ServedTokens(rest) \in Nat /\ ServedTokens(days) \in Nat
  BY <1>2, TokensFacts
<1>11. Sum(t) <= ServedTokens(days)
  BY <1>2, <1>6, <1>9, <1>10
<1>12. ASSUME \A d \in ToSet(days) : Count(d) > 0 => d.day # {}, Len(days) <= ChartDays
       PROVE  Sum(t) = ServedTokens(days)
  <2>1. Len(dated) \in Nat /\ Len(rest) \in Nat /\ Len(dated) <= Len(days)
    BY <1>2, LenProperties
  <2>2. n <= ChartDays
    BY <1>6, <1>7, <1>12, <2>1
  <2>3. ServedTokens(rest) = 0
    BY <1>3, <1>12
  <2> QED BY <1>2, <1>6, <1>8, <1>9, <1>10, <2>2, <2>3
<1>13. Len(t) <= ChartDays
  BY <1>8, <1>9
<1> QED BY <1>9, <1>11, <1>12, <1>13 DEF t

(***************************************************************************)
(* The lines of the token counts.  Other is a line with none of their      *)
(* labels.                                                                 *)
(***************************************************************************)
TokenLabels == {"Last 30 Days", "Usage Trend", "model a", "model b"}
Other(sane) == {l \in Fit(sane) : l.label \notin TokenLabels}

LEMMA TokensOnFacts ==
  ASSUME NEW days \in Seq(Day), NEW day
  PROVE  TokensOn(days, day) \in Int
<1> DEFINE on == Among(days, {d \in ToSet(days) : d.day = {day}})
           n == Count(on[Len(on)])
           D == Day
<1>1. on \in Seq(D)
  BY AmongFacts
<1>2. TokensOn(days, day) = IF on = <<>> THEN 0 ELSE Max({0, n})
  BY DEF TokensOn
<1>3. on # <<>> => n \in Int
  <2>1. \A d \in D : Count(d) \in Int
    BY CountFacts
  <2> HIDE DEF on, D
  <2>2. on # <<>> => Len(on) \in 1 .. Len(on)
    BY <1>1, EmptySeq, LenProperties
  <2>3. on # <<>> => on[Len(on)] \in D
    BY <1>1, <2>2, ElementOfSeq
  <2> QED BY <2>1, <2>3
<1> HIDE DEF n, on
<1> QED BY <1>2, <1>3, MaxOfTwo

LEMMA FitWhatever ==
  ASSUME NEW sane \in BOOLEAN
  PROVE  Fit(TRUE) \subseteq Fit(sane) /\ \A l \in Fit(TRUE) : Fine(l)
BY DEF Fit

ModelLines(us) ==
  Each(us, LAMBDA m : Text(m.name, Share(m.tokens, Sum(Each(us, LAMBDA x : x.tokens)))))

LEMMA ModelLinesFacts ==
  ASSUME NEW us \in Seq(Counted)
  PROVE  /\ ModelLines(us) \in Seq(Fit(TRUE)) /\ (ModelLines(us) = <<>> <=> us = <<>>)
         /\ {l.label : l \in ToSet(ModelLines(us))} = {u.name : u \in ToSet(us)}
<1> DEFINE N == Len(us)
           tokens == [i \in DOMAIN us |-> us[i].tokens]
           total == Sum(tokens)
           ml == [i \in DOMAIN us |-> Text(us[i].name, Share(us[i].tokens, total))]
           C == Counted
           T == Fit(TRUE)
<1>1. ModelLines(us) = ml
  BY DEF ModelLines, Each
<1>2. /\ DOMAIN us = 1 .. N /\ N \in Nat /\ \A i \in 1 .. N : us[i] \in C
      /\ ToSet(us) = {us[i] : i \in 1 .. N}
  BY LenProperties, ElementOfSeq, SetOfSeq
<1>3. \A u \in C : u.name \in Models /\ u.tokens \in Nat \ {0}
  BY DEF Counted
<1> HIDE DEF C
<1>4. /\ tokens \in Seq(Int) /\ Sum(tokens) \in Nat
      /\ \A i \in 1 .. N : us[i].tokens <= total
  <2>1. Mapped(tokens, us)
    BY DEF Mapped
  <2>2. \A i \in 1 .. N : tokens[i] = us[i].tokens /\ tokens[i] \in Nat
    BY <1>2, <1>3
  <2>3. us \in Seq(C)
    BY DEF C
  <2> HIDE DEF tokens
  <2> QED BY <2>1, <2>2, <2>3, SumMapped
<1>5. ASSUME NEW i \in 1 .. N
      PROVE  Text(us[i].name, Share(us[i].tokens, total)) \in T
  <2> DEFINE n == Share(us[i].tokens, total)
  <2>1. us[i].tokens \in Int /\ total \in Int /\ total > 0 /\ us[i].name \in Models
    BY <1>2, <1>3, <1>4
  <2> HIDE DEF total
  <2>2. n \in Int
    BY <2>1, ShareFacts
  <2>3. us[i].name \in Plain
    BY <2>1, PlainLabels DEF Models
  <2> DEFINE label == us[i].name
             b == TRUE
  <2> HIDE DEF n, label
  <2>4. b \in BOOLEAN
    OBVIOUS
  <2> HIDE DEF b
  <2>5. Text(label, n) \in Fit(b)
    BY <2>2, <2>3, <2>4, TextFit DEF label
  <2> QED BY <2>5 DEF b, n, label
<1>6. \A i \in 1 .. N : ml[i] \in T /\ ml[i].label = us[i].name
  BY <1>2, <1>5 DEF Text, Line
<1>7. Mapped(ml, us)
  BY DEF Mapped
<1>8. us \in Seq(C)
  BY DEF C
<1> HIDE DEF ml, T
<1>9. ml \in Seq(T) /\ ToSet(ml) = {ml[i] : i \in 1 .. N} /\ (ml = <<>> <=> us = <<>>)
  <2>1. \A i \in 1 .. Len(us) : ml[i] \in T
    BY <1>6
  <2> HIDE DEF N, tokens, total
  <2>2. ml \in Seq(T) /\ ToSet(ml) = {ml[i] : i \in 1 .. Len(us)}
    BY <2>1, <1>7, <1>8, MappedFacts
  <2>3. ml = <<>> <=> us = <<>>
    <3>1. ml \in Seq(T) /\ Len(ml) = Len(us)
      BY <2>1, <1>7, <1>8, MappedFacts
    <3>2. ml = <<>> <=> Len(ml) = 0
      BY <2>2, EmptySeq
    <3>3. us = <<>> <=> Len(us) = 0
      BY <1>8, EmptySeq
    <3> QED BY <3>1, <3>2, <3>3
  <2> QED BY <2>2, <2>3 DEF N
<1>10. {l.label : l \in ToSet(ml)} = {u.name : u \in ToSet(us)}
  BY <1>2, <1>6, <1>9
<1> QED BY <1>1, <1>9, <1>10 DEF T

LEMMA TextLine ==
  ASSUME NEW label \in Plain, NEW n \in Int
  PROVE  Text(label, n) \in Fit(TRUE) /\ Text(label, n).label = label
<1> DEFINE b == TRUE
<1>1. b \in BOOLEAN
  OBVIOUS
<1> HIDE DEF b
<1>2. Text(label, n) \in Fit(b)
  BY <1>1, TextFit
<1>3. Text(label, n).label = label
  BY DEF Text, Line
<1> QED BY <1>2, <1>3 DEF b

LEMMA ChartLine ==
  ASSUME NEW label \in Plain, NEW points \in Seq(Int), points \in Seq(Nat), points # <<>>,
         Len(points) <= MaxBarChartPoints
  PROVE  Chart(label, points) \in Fit(TRUE) /\ Chart(label, points).label = label
<1> DEFINE I == Seq(Int)
           c == [label |-> label, kind |-> "chart", used |-> 0, limit |-> 1, points |-> points]
<1>1. points \in I /\ ToSet(points) \subseteq Nat
  <2> DEFINE N == Nat
  <2>1. points \in Seq(N)
    OBVIOUS
  <2> HIDE DEF N
  <2>2. ToSet(points) \subseteq N
    BY <2>1, SetOfSeq
  <2> QED BY <2>2 DEF N
<1>2. Chart(label, points) = c
  BY DEF Chart, Line
<1> HIDE DEF I
<1>3. c \in LineType
  BY <1>1 DEF LineType, Kinds, Plain, I
<1>4. Fine(c)
  BY <1>1 DEF Fine, Quota, Plain
<1> QED BY <1>2, <1>3, <1>4 DEF Fit

(***************************************************************************)
(* The lines of the counts are fine whatever the provider said, and the    *)
(* ones with one of the four labels are known.                             *)
(***************************************************************************)
LEMMA TokenLinesFacts ==
  ASSUME NEW days \in Seq(Day), NEW today
  PROVE  LET ls == TokenLines(days, today)
             points == CollectUsageChartPoints(days)
         IN /\ ls \in Seq(Fit(TRUE)) /\ ls # <<>>
            /\ {l \in ToSet(ls) : l.label = "Last 30 Days"}
                 = IF TotalTokens(days) > 0 THEN {Text("Last 30 Days", TotalTokens(days))} ELSE {}
            /\ {l \in ToSet(ls) : l.label = "Usage Trend"}
                 = IF points # <<>> THEN {Chart("Usage Trend", points)} ELSE {}
            /\ {l.label : l \in {x \in ToSet(ls) : x.label \in Models}}
                 = {u.name : u \in ToSet(CollectModelUsage(days))}
<1> DEFINE ls == TokenLines(days, today)
           points == CollectUsageChartPoints(days)
           total == TotalTokens(days)
           us == CollectModelUsage(days)
           F == Fit(TRUE)
           t == Text("Today", TokensOn(days, today))
           y == Text("Yesterday", TokensOn(days, today - 1))
           a == <<t, y>>
           p == total > 0
           q == points # <<>>
           tot == Text("Last 30 Days", total)
           trend == Chart("Usage Trend", points)
           b == One(p, tot)
           c == One(q, trend)
           d == ModelLines(us)
           ab == a \o b
           abc == ab \o c
<1>1. ls = abc \o d
  BY DEF TokenLines, ModelLines, When, One
<1>2. /\ "Today" \in Plain /\ "Yesterday" \in Plain /\ "Last 30 Days" \in Plain
      /\ "Usage Trend" \in Plain
  BY PlainLabels
<1>3. t \in F /\ t.label = "Today" /\ y \in F /\ y.label = "Yesterday"
  BY <1>2, TokensOnFacts, TextLine
<1>4. total \in Int
  BY TotalFacts
<1>5. tot \in F /\ tot.label = "Last 30 Days"
  <2>1. total \in Int
    BY <1>4
  <2> HIDE DEF total
  <2> QED BY <1>2, <2>1, TextLine
<1>6. q => trend \in F /\ trend.label = "Usage Trend"
  <2>1. /\ points \in Seq(Nat) /\ points \in Seq(Int) /\ Len(points) <= ChartDays
    BY ChartFacts
  <2>2. ChartDays \in Nat /\ MaxBarChartPoints \in Nat /\ ChartDays <= MaxBarChartPoints
    BY ReportAssumption
  <2> HIDE DEF points
  <2>3. Len(points) <= MaxBarChartPoints
    <3>1. Len(points) \in Nat
      BY <2>1, LenProperties
    <3> QED BY <2>1, <2>2, <3>1
  <2> QED BY <1>2, <2>1, <2>3, ChartLine
<1>7. /\ d \in Seq(F) /\ {l.label : l \in ToSet(d)} = {u.name : u \in ToSet(us)}
  BY ModelUsageFacts, ModelLinesFacts
<1>8. {u.name : u \in ToSet(us)} \subseteq Models
  <2>1. us \in Seq(Counted)
    BY ModelUsageFacts
  <2> HIDE DEF us
  <2>2. ToSet(us) \subseteq Counted
    BY <2>1, SetOfSeq
  <2> QED BY <2>2 DEF Counted
<1>9. p \in BOOLEAN /\ q \in BOOLEAN
  OBVIOUS
<1> HIDE DEF F, t, y, tot, trend, p, q, d, us, points, total
<1>10. a \in Seq(F) /\ ToSet(a) = {t, y} /\ a # <<>>
  <2>1. a \in Seq(F) /\ Len(a) = 2 /\ a[1] = t /\ a[2] = y
    <3>1. \A u, v \in F : <<u, v>> \in Seq(F)
      OBVIOUS
    <3>2. Len(a) = 2 /\ a[1] = t /\ a[2] = y
      OBVIOUS
    <3> QED BY <1>3, <3>1, <3>2
  <2> HIDE DEF a
  <2>2. ToSet(a) = {a[i] : i \in 1 .. 2}
    BY <2>1, SetOfSeq
  <2>3. 1 .. 2 = {1, 2}
    OBVIOUS
  <2>4. {a[i] : i \in 1 .. 2} = {a[1], a[2]}
    BY <2>3
  <2>5. a # <<>>
    <3>1. Len(<<>>) = 0
      OBVIOUS
    <3>2. Len(a) = 2
      BY <2>1
    <3> QED BY <3>1, <3>2
  <2> QED BY <2>1, <2>2, <2>4, <2>5
<1>11. /\ b \in Seq(F) /\ ToSet(b) = IF p THEN {tot} ELSE {}
       /\ c \in Seq(F) /\ ToSet(c) = IF q THEN {trend} ELSE {}
  BY <1>5, <1>6, <1>9, OneFacts
<1> HIDE DEF a, b, c
<1>12. ab \in Seq(F) /\ ToSet(ab) = ToSet(a) \cup ToSet(b) /\ ab # <<>>
  BY <1>10, <1>11, ConcatFacts
<1> HIDE DEF ab
<1>13. abc \in Seq(F) /\ ToSet(abc) = ToSet(ab) \cup ToSet(c) /\ abc # <<>>
  BY <1>11, <1>12, ConcatFacts
<1> HIDE DEF abc
<1>14. ls \in Seq(F) /\ ToSet(ls) = ToSet(abc) \cup ToSet(d) /\ ls # <<>>
  BY <1>1, <1>7, <1>13, ConcatFacts
<1> HIDE DEF ls
<1>15. ToSet(ls) = {t, y} \cup (IF p THEN {tot} ELSE {}) \cup (IF q THEN {trend} ELSE {}) \cup ToSet(d)
  BY <1>10, <1>11, <1>12, <1>13, <1>14
<1>16. \A l \in ToSet(d) : l.label \in Models
  BY <1>7, <1>8
<1>17. /\ "Last 30 Days" \notin Models /\ "Usage Trend" \notin Models /\ "Today" \notin Models
       /\ "Yesterday" \notin Models
  BY DEF Models
<1>18. {l \in ToSet(ls) : l.label = "Last 30 Days"} = IF p THEN {tot} ELSE {}
  BY <1>3, <1>5, <1>6, <1>15, <1>16, <1>17
<1>19. {l \in ToSet(ls) : l.label = "Usage Trend"} = IF q THEN {trend} ELSE {}
  BY <1>3, <1>5, <1>6, <1>15, <1>16, <1>17
<1>20. {x \in ToSet(ls) : x.label \in Models} = ToSet(d)
  BY <1>3, <1>5, <1>6, <1>15, <1>16, <1>17
<1> QED BY <1>7, <1>14, <1>18, <1>19, <1>20 DEF p, q, tot, trend, F, ls, us, points, total

(***************************************************************************)
(* A report that ends with the token counts.                               *)
(***************************************************************************)
Aside == Plain \ TokenLabels

LEMMA AsideLabels ==
  /\ "Status" \in Aside /\ "Session" \in Aside /\ "Weekly" \in Aside /\ "Sonnet" \in Aside
  /\ "Claude Design" \in Aside /\ "Extra usage spent" \in Aside /\ "Note" \in Aside
  /\ "Spark" \in Aside /\ "Spark Weekly" \in Aside /\ "Reviews" \in Aside /\ "Credits" \in Aside
  /\ \A label \in Aside : label \in Plain
BY PlainLabels DEF Aside, TokenLabels

LEMMA OtherOne ==
  ASSUME NEW sane \in BOOLEAN, NEW c \in BOOLEAN, NEW label \in Aside, NEW x,
         c => x \in Fit(sane) /\ x.label = label
  PROVE  One(c, x) \in Seq(Other(sane))
<1> DEFINE O == Other(sane)
<1>1. c => x \in O
  BY DEF Other, Aside
<1> HIDE DEF O
<1>2. One(c, x) \in Seq(O)
  BY <1>1, OneFacts
<1> QED BY <1>2 DEF O

LEMMA WindowOther ==
  ASSUME NEW sane \in BOOLEAN, NEW label \in Aside, NEW o \in Amount, sane => NotNegative(o)
  PROVE  One(o # {}, Percent(label, The(o))) \in Seq(Other(sane))
<1> DEFINE n == The(o)
           x == Percent(label, n)
           c == o # {}
<1>1. c => n \in Int /\ (sane => n >= 0)
  <2>1. o # {} => n \in o /\ n \in Int
    BY OptionalFacts DEF Amount
  <2> QED BY <2>1 DEF NotNegative
<1>2. label \in Plain
  BY AsideLabels
<1>3. x.label = label
  BY DEF Percent, Line
<1> HIDE DEF n
<1>4. c => x \in Fit(sane)
  BY <1>1, <1>2, PercentFit
<1>5. c \in BOOLEAN
  OBVIOUS
<1> HIDE DEF x, c
<1>6. One(c, x) \in Seq(Other(sane))
  BY <1>3, <1>4, <1>5, OtherOne
<1> QED BY <1>6 DEF c, x, n

LEMMA OtherFit ==
  ASSUME NEW sane \in BOOLEAN, NEW s \in Seq(Other(sane))
  PROVE  s \in Seq(Fit(sane)) /\ ToSet(s) \subseteq Other(sane)
<1> DEFINE O == Other(sane)
           F == Fit(sane)
<1>1. O \subseteq F
  BY DEF Other
<1> HIDE DEF O, F
<1>2. s \in Seq(O)
  BY DEF O
<1>3. ToSet(s) \subseteq O
  BY <1>2, SetOfSeq
<1>4. s \in Seq(F)
  BY <1>1, <1>2, <1>3, SeqOfSet
<1> QED BY <1>3, <1>4 DEF O, F

TokenPart(log, today) == IF log = {} THEN <<>> ELSE TokenLines(The(log), today)
CountPart(log) == IF log = {} THEN <<>> ELSE CollectStructuredMetrics(The(log))

(* The token lines of a card are fine whatever the log holds, and so are   *)
(* the metrics the runtime keeps.                                          *)
LEMMA TokenPartFacts ==
  ASSUME NEW sane \in BOOLEAN, NEW log \in Log, NEW today
  PROVE  /\ TokenPart(log, today) \in Seq(Fit(sane)) /\ TokenPart(log, today) \in Seq(Fit(TRUE))
         /\ ParseMetrics(CountPart(log)) \in Seq(NatMetric)
         /\ Unique(ParseMetrics(CountPart(log)))
         /\ log # {} => The(log) \in Seq(Day) /\ log = {The(log)}
         /\ (\A d \in log : ~NegativeCost(d)) => ParseMetrics(CountPart(log)) = CountPart(log)
         /\ (\E d \in log : NegativeCost(d)) => ParseMetrics(CountPart(log)) = <<>>
<1> DEFINE days == The(log)
           W == Fit(TRUE)
           F == Fit(sane)
           t == TokenPart(log, today)
           ms == CountPart(log)
<1>1. log # {} => days \in Seq(Day) /\ log = {days}
  BY OptionalFacts DEF Log
<1>2. ms = IF log = {} THEN <<>> ELSE CollectStructuredMetrics(days)
  BY DEF CountPart
<1>3. t = IF log = {} THEN <<>> ELSE TokenLines(days, today)
  BY DEF TokenPart
<1> HIDE DEF days, ms, t
<1>4. W \subseteq F
  BY FitWhatever
<1>5. log # {} => TokenLines(days, today) \in Seq(W)
  BY <1>1, TokenLinesFacts
<1> HIDE DEF W, F
<1>6. t \in Seq(W)
  BY <1>3, <1>5, EmptySeq
<1>7. ToSet(t) \subseteq W
  BY <1>6, SetOfSeq
<1>8. t \in Seq(F)
  BY <1>4, <1>6, <1>7, SeqOfSet
<1>9. /\ ParseMetrics(ms) \in Seq(NatMetric) /\ Unique(ParseMetrics(ms))
      /\ (\A d \in log : ~NegativeCost(d)) => ParseMetrics(ms) = ms
      /\ (\E d \in log : NegativeCost(d)) => ParseMetrics(ms) = <<>>
  <2>1. CASE log = {}
    <3>1. ms = <<>> /\ ms \in Seq(NatMetric)
      BY <1>2, <2>1, FewUnique
    <3>2. ParseMetrics(ms) = ms
      BY <3>1, KeysFacts
    <3> QED BY <2>1, <3>1, <3>2, FewUnique
  <2>2. CASE log # {} /\ NegativeCost(days)
    <3>1. ParseMetrics(ms) = <<>> /\ days \in log
      BY <1>1, <1>2, <2>2, RefusedFacts
    <3> QED BY <2>2, <3>1, FewUnique
  <2>3. CASE log # {} /\ ~NegativeCost(days)
    <3>1. ms = CollectStructuredMetrics(days) /\ days \in Seq(Day) /\ log = {days}
      BY <1>1, <1>2, <2>3
    <3>2. ms \in Seq(NatMetric) /\ Unique(ms) /\ ParseMetrics(ms) = ms
      BY <2>3, <3>1, StructuredFacts
    <3> QED BY <2>3, <3>1, <3>2
  <2> QED BY <2>1, <2>2, <2>3
<1> QED BY <1>1, <1>6, <1>8, <1>9 DEF t, W, F, days, ms

Carded(r, sane, log, today) ==
  /\ SoundReport(Taken(r), sane) /\ Unique(Taken(r).metrics) /\ ~r.thrown /\ r.lines # <<>>
  /\ r.metrics = CountPart(log)
  /\ \A l \in ToSet(r.lines) : l.label \in TokenLabels => l \in ToSet(TokenPart(log, today))
  /\ ToSet(TokenPart(log, today)) \subseteq ToSet(r.lines)

(* A card made of other lines and the token lines shows the latter         *)
(* unchanged.                                                              *)
LEMMA CardedFacts ==
  ASSUME NEW sane \in BOOLEAN, NEW log \in Log, NEW today, NEW ls \in Seq(Fit(sane)), ls # <<>>,
         NEW F, F \subseteq Other(sane), ToSet(ls) = F \cup ToSet(TokenPart(log, today))
  PROVE  Carded(ReturnsBoth(ls, CountPart(log)), sane, log, today)
<1> DEFINE ms == CountPart(log)
           r == ReturnsBoth(ls, ms)
           kept == ParseMetrics(ms)
<1>1. kept \in Seq(NatMetric) /\ Unique(kept)
  BY TokenPartFacts
<1>2. ~r.thrown /\ r.lines = ls /\ r.metrics = ms
  BY DEF ReturnsBoth
<1>3. Taken(r) = ReturnsBoth(ls, kept)
  BY <1>2 DEF Taken, ReturnsBoth
<1>4. \A l \in ToSet(ls) : l.label \in TokenLabels => l \in ToSet(TokenPart(log, today))
  BY DEF Other
<1> HIDE DEF ms, kept, r
<1>5. SoundReport(Taken(r), sane) /\ Unique(Taken(r).metrics)
  BY <1>1, <1>3, BothSound
<1> QED BY <1>2, <1>4, <1>5 DEF Carded, r, ms

(* Other lines and the token lines after them, or the badge for want of    *)
(* any.                                                                    *)
Covers(L, sane, t) == \E F \in SUBSET Other(sane) : ToSet(L) = F \cup ToSet(t)

(* Lines of other labels before the token lines disturb none of them.      *)
LEMMA JoinedFacts ==
  ASSUME NEW sane \in BOOLEAN, NEW log \in Log, NEW today, NEW other \in Seq(Other(sane))
  PROVE  LET ls == other \o TokenPart(log, today) IN
           /\ ls \in Seq(Fit(sane)) /\ ToSet(ls) = ToSet(other) \cup ToSet(TokenPart(log, today))
           /\ ToSet(other) \subseteq Other(sane)
           /\ OrBadge(ls) \in Seq(Fit(sane)) /\ OrBadge(ls) # <<>>
           /\ Covers(OrBadge(ls), sane, TokenPart(log, today))
<1> DEFINE t == TokenPart(log, today)
           ls == other \o t
           badge == Badge("Status")
<1>1. /\ t \in Seq(Fit(sane)) /\ other \in Seq(Fit(sane)) /\ ToSet(other) \subseteq Other(sane)
  BY TokenPartFacts, OtherFit
<1> HIDE DEF t
<1>2. ls \in Seq(Fit(sane)) /\ ToSet(ls) = ToSet(other) \cup ToSet(t)
      /\ (ls = <<>> <=> other = <<>> /\ t = <<>>)
  BY <1>1, ConcatFacts
<1> HIDE DEF ls
<1>3. OrBadge(ls) \in Seq(Fit(sane)) /\ OrBadge(ls) # <<>>
  BY <1>2, OrBadgeFit
<1>4. badge \in Other(sane)
  <2>1. "Status" \in Plain /\ "Status" \in Aside
    BY AsideLabels
  <2>2. badge \in Fit(sane) /\ badge.label = "Status"
    BY <2>1, BadgeFit DEF Badge, Line
  <2> HIDE DEF badge
  <2> QED BY <2>1, <2>2 DEF Other, Aside
<1>5. OrBadge(ls) = IF ls = <<>> THEN <<badge>> ELSE ls
  BY DEF OrBadge
<1>6. ToSet(<<badge>>) = {badge} /\ ToSet(<<>>) = {}
  BY DEF ToSet
<1> HIDE DEF badge
<1>7. \E F \in SUBSET Other(sane) : ToSet(OrBadge(ls)) = F \cup ToSet(t)
  <2>1. CASE ls = <<>>
    <3>1. ToSet(OrBadge(ls)) = {badge} \cup ToSet(t)
      BY <1>2, <1>5, <1>6, <2>1
    <3> QED BY <1>4, <3>1
  <2>2. CASE ls # <<>>
    BY <1>1, <1>2, <1>5, <2>2
  <2> QED BY <2>1, <2>2
<1>8. Covers(OrBadge(ls), sane, t)
  BY <1>7 DEF Covers
<1> QED BY <1>1, <1>2, <1>3, <1>8 DEF ls, t

ExtraUsage == [used : Amount, limit : Amount]
ClaudeLive == [session : Amount, week : Amount, sonnet : Amount, design : Amount,
               extra : Optional(ExtraUsage)]

LEMMA ExtraOther ==
  ASSUME NEW sane \in BOOLEAN, NEW x \in ExtraUsage, sane => NotNegative(x.used)
  PROVE  ClaudeExtra(x) \in Seq(Other(sane))
<1> DEFINE label == "Extra usage spent"
           used == The(x.used)
           limit == The(x.limit)
           positive == {n \in x.used : n > 0}
           c == x.used # {} /\ OrElse(x.limit, 0) > 0
           d == positive # {}
           spent == Line(label, "dollars", used, limit)
           note == Text(label, The(positive))
<1>1. x.used \in Amount /\ x.limit \in Amount
  BY DEF ExtraUsage
<1>2. label \in Aside /\ label \in Plain
  BY AsideLabels
<1>3. ClaudeExtra(x) = IF c THEN One(TRUE, spent) ELSE One(d, note)
  BY DEF ClaudeExtra, Opt, One
<1>4. /\ x.used # {} => used \in Int /\ used \in x.used
      /\ x.limit # {} => limit \in Int
  BY <1>1, OptionalFacts DEF Amount
<1>5. c => /\ used \in Int /\ (sane => used >= 0)
           /\ limit \in Int /\ limit > 0
  BY <1>4 DEF NotNegative, OrElse
<1>6. d => The(positive) \in Int
  <2>1. positive \in Amount
    BY <1>1, OptionalPart DEF Amount
  <2> HIDE DEF positive
  <2> QED BY <2>1, OptionalFacts DEF Amount
<1>7. spent.label = label /\ note.label = label
  BY DEF Line, Text
<1> HIDE DEF label, used, limit, positive, c, d
<1>8. c => spent \in Fit(sane)
  <2>1. ASSUME c PROVE spent \in Fit(sane)
    <3> DEFINE kind == "dollars"
    <3>1. kind \in {"count", "dollars"}
      OBVIOUS
    <3> HIDE DEF kind
    <3>2. Line(label, kind, used, limit) \in Fit(sane)
      BY <1>2, <1>5, <2>1, <3>1, LineFit
    <3> QED BY <3>2 DEF kind
  <2> QED BY <2>1
<1>9. d => note \in Fit(sane)
  BY <1>2, <1>6, TextFit
<1>10. d \in BOOLEAN /\ TRUE \in BOOLEAN
  BY DEF d
<1> HIDE DEF spent, note
<1>11. One(d, note) \in Seq(Other(sane))
  BY <1>2, <1>7, <1>9, <1>10, OtherOne
<1>12. c => One(TRUE, spent) \in Seq(Other(sane))
  <2> DEFINE b == TRUE
  <2>1. b \in BOOLEAN
    OBVIOUS
  <2> HIDE DEF b
  <2>2. c => One(b, spent) \in Seq(Other(sane))
    BY <1>2, <1>7, <1>8, <2>1, OtherOne
  <2> QED BY <2>2 DEF b
<1> QED BY <1>3, <1>11, <1>12

LEMMA ClaudeCarded ==
  ASSUME NEW g \in MayAnswer("claude"), NEW sane \in BOOLEAN, sane => Sane("claude", g)
  PROVE  Carded(Claude(g), sane, g.log, g.today)
<1> DEFINE Window(label, o) == One(o # {}, Percent(label, The(o)))
           O == Other(sane)
           w == The(g.live)
           x == The(w.extra)
           a == Window("Session", w.session)
           b == Window("Weekly", w.week)
           c == Window("Sonnet", w.sonnet)
           d == Window("Claude Design", w.design)
           e == IF w.extra = {} THEN <<>> ELSE ClaudeExtra(x)
           shownNow == a \o b \o c \o d \o e
           other == IF g.live = {} \/ g.limited THEN <<>> ELSE shownNow
           log == g.log
           today == g.today
           t == TokenPart(log, today)
           ms == CountPart(log)
           ls == other \o t
           status == Badge("Status")
           note == Text("Note", 0)
           head == <<status>>
           last == <<note>>
<1>1. Claude(g) = ReturnsBoth(IF g.limited THEN head \o ls \o last ELSE OrBadge(ls), ms)
  BY DEF Claude, ClaudeTokenLines, ClaudeMetrics, FromLog, TokenPart, CountPart, Opt, One
<1>2. g.live \in Optional(ClaudeLive) /\ g.log \in Log /\ g.limited \in BOOLEAN
  BY DEF MayAnswer, ClaudeLive, ExtraUsage
<1>3. g.live # {} => w \in ClaudeLive /\ w \in g.live
  BY <1>2, OptionalFacts
<1> HIDE DEF w
<1>4. g.live # {} => shownNow \in Seq(O)
  <2> SUFFICES ASSUME g.live # {} PROVE shownNow \in Seq(O)
    OBVIOUS
  <2>1. /\ w.session \in Amount /\ w.week \in Amount /\ w.sonnet \in Amount /\ w.design \in Amount
        /\ w.extra \in Optional(ExtraUsage)
    BY <1>3 DEF ClaudeLive
  <2>2. sane => /\ NotNegative(w.session) /\ NotNegative(w.week) /\ NotNegative(w.sonnet)
                /\ NotNegative(w.design) /\ \A y \in w.extra : NotNegative(y.used)
    BY <1>3 DEF Sane, NotNegative
  <2>3. e \in Seq(O)
    <3>1. w.extra # {} => x \in ExtraUsage /\ x \in w.extra
      BY <2>1, OptionalFacts
    <3> HIDE DEF x
    <3>2. w.extra # {} => ClaudeExtra(x) \in Seq(Other(sane))
      BY <2>2, <3>1, ExtraOther
    <3> HIDE DEF O
    <3> QED BY <3>2, EmptySeq DEF O, x
  <2>4. a \in Seq(O) /\ b \in Seq(O) /\ c \in Seq(O) /\ d \in Seq(O)
    <3>1. "Session" \in Aside /\ "Weekly" \in Aside /\ "Sonnet" \in Aside /\ "Claude Design" \in Aside
      BY AsideLabels
    <3>2. a \in Seq(O)
      BY <2>1, <2>2, <3>1, WindowOther
    <3>3. b \in Seq(O)
      BY <2>1, <2>2, <3>1, WindowOther
    <3>4. c \in Seq(O)
      BY <2>1, <2>2, <3>1, WindowOther
    <3>5. d \in Seq(O)
      BY <2>1, <2>2, <3>1, WindowOther
    <3> QED BY <3>2, <3>3, <3>4, <3>5
  <2> HIDE DEF a, b, c, d, e, O
  <2> QED BY <2>3, <2>4, ConcatFacts
<1> HIDE DEF shownNow
<1>5. other \in Seq(Other(sane))
  BY <1>4, EmptySeq
<1> HIDE DEF other
<1>6. /\ ls \in Seq(Fit(sane)) /\ ToSet(ls) = ToSet(other) \cup ToSet(t)
      /\ ToSet(other) \subseteq Other(sane)
      /\ OrBadge(ls) \in Seq(Fit(sane)) /\ OrBadge(ls) # <<>>
      /\ Covers(OrBadge(ls), sane, t)
  <2>1. log \in Log
    BY <1>2
  <2> HIDE DEF log, today
  <2> QED BY <1>5, <2>1, JoinedFacts
<1>7. CASE ~g.limited
  <2>1. PICK F \in SUBSET Other(sane) : ToSet(OrBadge(ls)) = F \cup ToSet(t)
    BY <1>6 DEF Covers
  <2> DEFINE L == OrBadge(ls)
  <2> HIDE DEF L, ls
  <2>2. L \in Seq(Fit(sane)) /\ L # <<>> /\ ToSet(L) = F \cup ToSet(TokenPart(g.log, g.today))
    BY <1>6, <2>1 DEF L
  <2>3. Carded(ReturnsBoth(L, CountPart(g.log)), sane, g.log, g.today)
    BY <1>2, <2>2, CardedFacts
  <2> QED BY <1>1, <1>7, <2>3 DEF L
<1>8. CASE g.limited
  <2> DEFINE hl == head \o ls
             L == hl \o last
  <2>1. "Status" \in Aside /\ "Note" \in Aside /\ "Status" \in Plain /\ "Note" \in Plain
    BY AsideLabels
  <2>2. status \in Fit(sane) /\ note \in Fit(sane) /\ status.label = "Status" /\ note.label = "Note"
    BY <2>1, BadgeFit, TextFit DEF Badge, Text, Line
  <2>3. status \in Other(sane) /\ note \in Other(sane)
    BY <2>1, <2>2 DEF Other, Aside
  <2>4. /\ head \in Seq(Fit(sane)) /\ ToSet(head) = {status} /\ head # <<>>
        /\ last \in Seq(Fit(sane)) /\ ToSet(last) = {note}
    <3> HIDE DEF status, note
    <3> QED BY <2>2, SingletonFacts
  <2> HIDE DEF status, note, head, last, ls
  <2>5. /\ hl \in Seq(Fit(sane)) /\ ToSet(hl) = ToSet(head) \cup ToSet(ls)
        /\ hl # <<>>
    BY <1>6, <2>4, ConcatFacts
  <2> HIDE DEF hl
  <2>6. L \in Seq(Fit(sane)) /\ ToSet(L) = ToSet(hl) \cup ToSet(last) /\ L # <<>>
    BY <2>4, <2>5, ConcatFacts
  <2> HIDE DEF L
  <2> DEFINE F == {status, note} \cup ToSet(other)
  <2>7. F \subseteq Other(sane) /\ ToSet(L) = F \cup ToSet(TokenPart(g.log, g.today))
    BY <1>6, <2>3, <2>4, <2>5, <2>6
  <2> HIDE DEF F
  <2>8. Carded(ReturnsBoth(L, CountPart(g.log)), sane, g.log, g.today)
    BY <1>2, <2>6, <2>7, CardedFacts
  <2> QED BY <1>1, <1>8, <2>8 DEF L, hl
<1> QED BY <1>2, <1>7, <1>8

RateWindows == [primary : Amount, secondary : Amount]

LEMMA PairOther ==
  ASSUME NEW sane \in BOOLEAN, NEW k \in Aside, NEW l \in Aside, NEW w \in RateWindows,
         sane => NotNegative(w.primary) /\ NotNegative(w.secondary)
  PROVE  One(w.primary # {}, Percent(k, The(w.primary)))
         \o One(w.secondary # {}, Percent(l, The(w.secondary))) \in Seq(Other(sane))
<1> DEFINE a == One(w.primary # {}, Percent(k, The(w.primary)))
           b == One(w.secondary # {}, Percent(l, The(w.secondary)))
<1>1. w.primary \in Amount /\ w.secondary \in Amount
  BY DEF RateWindows
<1>2. a \in Seq(Other(sane)) /\ b \in Seq(Other(sane))
  BY <1>1, WindowOther
<1> HIDE DEF a, b
<1>3. a \o b \in Seq(Other(sane))
  BY <1>2, ConcatFacts
<1> QED BY <1>3 DEF a, b

LEMMA ModelWindowsOther ==
  ASSUME NEW sane \in BOOLEAN, NEW models \in Seq(RateWindows),
         sane => \A w \in ToSet(models) : NotNegative(w.primary) /\ NotNegative(w.secondary)
  PROVE  FlattenSeq(Each(models, CodexModelWindows)) \in Seq(Other(sane))
<1> DEFINE O == Other(sane)
           S == Seq(O)
           t == [i \in DOMAIN models |-> CodexModelWindows(models[i])]
           R == RateWindows
<1>1. Each(models, CodexModelWindows) = t
  BY DEF Each
<1>2. DOMAIN models = 1 .. Len(models) /\ \A i \in 1 .. Len(models) : models[i] \in R /\ models[i] \in ToSet(models)
  BY LenProperties, ElementOfSeq, SetOfSeq
<1>3. ASSUME NEW w \in R, sane => NotNegative(w.primary) /\ NotNegative(w.secondary)
      PROVE  CodexModelWindows(w) \in S
  <2> DEFINE k == "Spark"
             l == "Spark Weekly"
  <2>1. k \in Aside /\ l \in Aside
    BY AsideLabels
  <2>2. CodexModelWindows(w) = One(w.primary # {}, Percent(k, The(w.primary)))
                               \o One(w.secondary # {}, Percent(l, The(w.secondary)))
    BY DEF CodexModelWindows, Opt, One
  <2> HIDE DEF k, l
  <2>3. w \in RateWindows /\ (sane => NotNegative(w.primary) /\ NotNegative(w.secondary))
    BY <1>3
  <2>4. One(w.primary # {}, Percent(k, The(w.primary)))
        \o One(w.secondary # {}, Percent(l, The(w.secondary))) \in Seq(Other(sane))
    BY <2>1, <2>3, PairOther
  <2> QED BY <2>2, <2>4
<1> HIDE DEF R
<1>4. \A i \in 1 .. Len(models) : t[i] \in S
  BY <1>2, <1>3
<1>5. Mapped(t, models)
  BY DEF Mapped
<1> HIDE DEF t, S
<1>6. t \in Seq(S)
  <2>1. models \in Seq(R)
    BY DEF R
  <2> QED BY <1>4, <1>5, <2>1, MappedFacts
<1> HIDE DEF O
<1>7. FlattenSeq(t) \in Seq(O)
  BY <1>6, FlattenFacts DEF S
<1> QED BY <1>1, <1>7 DEF O

LEMMA CreditsOther ==
  ASSUME NEW sane \in BOOLEAN, NEW o \in Amount
  PROVE  One(o # {}, Line("Credits", "count", Clamp(CreditLimit - The(o), 0, CreditLimit), CreditLimit))
           \in Seq(Other(sane))
<1> DEFINE label == "Credits"
           kind == "count"
           used == Clamp(CreditLimit - The(o), 0, CreditLimit)
           x == Line(label, kind, used, CreditLimit)
           c == o # {}
<1>1. c => used \in Int /\ used >= 0
  <2>1. o # {} => The(o) \in Int
    BY OptionalFacts DEF Amount
  <2>2. CreditLimit \in Int /\ CreditLimit >= 0
    BY DEF CreditLimit
  <2>3. o # {} => CreditLimit - The(o) \in Int
    BY <2>1, <2>2
  <2> DEFINE m == CreditLimit - The(o)
  <2>5. used = Clamp(m, 0, CreditLimit) /\ (o # {} => m \in Int) /\ 0 \in Int /\ 0 <= CreditLimit
    BY <2>2, <2>3
  <2> HIDE DEF m, used
  <2>4. o # {} => used \in 0 .. CreditLimit
    BY <2>2, <2>5, ClampFacts
  <2> QED BY <2>2, <2>4
<1>2. label \in Aside /\ label \in Plain /\ kind \in {"count", "dollars"} /\ c \in BOOLEAN
  BY AsideLabels
<1>3. CreditLimit \in Int /\ CreditLimit > 0
  BY DEF CreditLimit
<1> HIDE DEF used, kind, label
<1>4. x.label = label
  BY DEF Line
<1>5. c => x \in Fit(sane)
  BY <1>1, <1>2, <1>3, LineFit
<1> HIDE DEF x, c
<1>6. One(c, x) \in Seq(Other(sane))
  BY <1>2, <1>4, <1>5, OtherOne
<1> QED BY <1>6 DEF c, x, used, kind, label

LEMMA CodexCarded ==
  ASSUME NEW g \in MayAnswer("codex"), NEW sane \in BOOLEAN, sane => Sane("codex", g)
  PROVE  Carded(Codex(g), sane, g.log, g.today)
<1> DEFINE O == Other(sane)
           a == CodexWindows(g.headers)
           b == CodexWindows(g.body)
           windows == IF a # <<>> THEN a ELSE b
           c == FlattenSeq(Each(g.models, CodexModelWindows))
           d == One(g.reviews # {}, Percent("Reviews", The(g.reviews)))
           left == ReadCreditsRemaining(g.credits)
           e == One(left # {}, Line("Credits", "count", Clamp(CreditLimit - The(left), 0, CreditLimit), CreditLimit))
           other == windows \o c \o d \o e
           log == g.log
           today == g.today
           t == TokenPart(log, today)
           ms == CountPart(log)
           ls == other \o t
<1>1. Codex(g) = ReturnsBoth(OrBadge(ls), ms)
  BY DEF Codex, CodexTokenLines, CodexMetrics, FromLog, TokenPart, CountPart, Opt, One
<1>2. /\ g.headers \in RateWindows /\ g.body \in RateWindows /\ g.models \in Seq(RateWindows)
      /\ g.reviews \in Amount /\ g.log \in Log
      /\ g.credits.balance \in Amount /\ g.credits.header \in Amount
  BY DEF MayAnswer, RateWindows
<1>3. sane => /\ NotNegative(g.headers.primary) /\ NotNegative(g.headers.secondary)
              /\ NotNegative(g.body.primary) /\ NotNegative(g.body.secondary) /\ NotNegative(g.reviews)
              /\ \A w \in ToSet(g.models) : NotNegative(w.primary) /\ NotNegative(w.secondary)
  BY DEF Sane, NotNegative
<1>4. a \in Seq(O) /\ b \in Seq(O)
  <2> DEFINE k == "Session"
             l == "Weekly"
  <2>1. k \in Aside /\ l \in Aside
    BY AsideLabels
  <2>2. \A w : CodexWindows(w) = One(w.primary # {}, Percent(k, The(w.primary)))
                                 \o One(w.secondary # {}, Percent(l, The(w.secondary)))
    BY DEF CodexWindows, Opt, One
  <2> HIDE DEF k, l
  <2> QED BY <1>2, <1>3, <2>1, <2>2, PairOther
<1>5. c \in Seq(O)
  BY <1>2, <1>3, ModelWindowsOther
<1>6. d \in Seq(O)
  BY <1>2, <1>3, AsideLabels, WindowOther
<1>7. left \in Amount
  BY <1>2 DEF ReadCreditsRemaining, Amount, Optional
<1>8. e \in Seq(O)
  <2> HIDE DEF left
  <2> QED BY <1>7, CreditsOther
<1>9. windows \in Seq(O)
  BY <1>4
<1> HIDE DEF windows, c, d, e, O
<1>10. other \in Seq(O)
  BY <1>5, <1>6, <1>8, <1>9, ConcatFacts
<1> HIDE DEF other
<1>11. /\ OrBadge(ls) \in Seq(Fit(sane)) /\ OrBadge(ls) # <<>>
       /\ Covers(OrBadge(ls), sane, t)
  <2>1. log \in Log /\ other \in Seq(Other(sane))
    BY <1>2, <1>10 DEF O
  <2> HIDE DEF log, today
  <2> QED BY <2>1, JoinedFacts
<1>12. PICK F \in SUBSET Other(sane) : ToSet(OrBadge(ls)) = F \cup ToSet(t)
  BY <1>11 DEF Covers
<1> DEFINE L == OrBadge(ls)
<1> HIDE DEF L, ls
<1>13. L \in Seq(Fit(sane)) /\ L # <<>> /\ ToSet(L) = F \cup ToSet(TokenPart(g.log, g.today))
  BY <1>11, <1>12 DEF L
<1>14. Carded(ReturnsBoth(L, CountPart(g.log)), sane, g.log, g.today)
  BY <1>2, <1>13, CardedFacts
<1> QED BY <1>1, <1>14 DEF L

(***************************************************************************)
(* Every plugin.                                                           *)
(***************************************************************************)
LEMMA ReportedIs ==
  \A g :
       /\ Reported("jetbrains", g) = Jetbrains(g)
       /\ Reported("opencode-go", g) = OpencodeGo(g)
       /\ Reported("minimax", g) = Minimax(g)
       /\ Reported("kimi", g) = Kimi(g)
       /\ Reported("devin", g) = Devin(g)
       /\ Reported("antigravity", g) = Antigravity(g)
       /\ Reported("copilot", g) = Copilot(g)
       /\ Reported("grok", g) = Grok(g)
       /\ Reported("perplexity", g) = Perplexity(g)
       /\ Reported("zai", g) = Zai(g)
       /\ Reported("synthetic", g) = Synthetic(g)
       /\ Reported("amp", g) = Amp(g)
       /\ Reported("factory", g) = Factory(g)
       /\ Reported("kiro", g) = Kiro(g)
       /\ Reported("claude", g) = Claude(g)
       /\ Reported("codex", g) = Codex(g)
       /\ Reported("cursor", g) = Cursor(g)
BY DEF Reported

LEMMA ClaudeSound ==
  ASSUME NEW g \in MayAnswer("claude"), NEW sane \in BOOLEAN, sane => Sane("claude", g)
  PROVE  SoundReport(Taken(Claude(g)), sane) /\ Unique(Taken(Claude(g)).metrics)
BY ClaudeCarded DEF Carded

LEMMA CodexSound ==
  ASSUME NEW g \in MayAnswer("codex"), NEW sane \in BOOLEAN, sane => Sane("codex", g)
  PROVE  SoundReport(Taken(Codex(g)), sane) /\ Unique(Taken(Codex(g)).metrics)
BY CodexCarded DEF Carded

(* Copilot's two chat quotas have one key. *)
OneChat(pl, g) == pl = "copilot" => g.chat = {} \/ g.freeChat.left = {}

(* The plugins that read a log of the days.                                *)
Loggers == {"claude", "codex"}

LEMMA ReportedSound ==
  ASSUME NEW pl \in Reporters, NEW g \in MayAnswer(pl), NEW sane \in BOOLEAN, sane => Sane(pl, g)
  PROVE  LET r == Reported(pl, g) IN
           /\ SoundReport(Taken(r), sane) /\ (OneChat(pl, g) => Unique(Taken(r).metrics))
           /\ pl \notin Loggers => SoundReport(r, sane) /\ Taken(r).metrics = r.metrics
<1> DEFINE Goal(r) == /\ SoundReport(Taken(r), sane) /\ (OneChat(pl, g) => Unique(Taken(r).metrics))
                      /\ pl \notin Loggers => SoundReport(r, sane) /\ Taken(r).metrics = r.metrics
<1> HIDE DEF Goal
<1>1. CASE pl = "jetbrains"
  <2>1. Goal(Jetbrains(g))
    BY <1>1, JetbrainsSound, TakenSound DEF Goal
  <2> QED BY <1>1, <2>1, ReportedIs DEF Goal
<1>2. CASE pl = "opencode-go"
  <2>1. Goal(OpencodeGo(g))
    BY <1>2, OpencodeSound, TakenSound DEF Goal
  <2> QED BY <1>2, <2>1, ReportedIs DEF Goal
<1>3. CASE pl = "minimax"
  <2>1. Goal(Minimax(g))
    BY <1>3, MinimaxSound, TakenSound DEF Goal
  <2> QED BY <1>3, <2>1, ReportedIs DEF Goal
<1>4. CASE pl = "kimi"
  <2>1. Goal(Kimi(g))
    BY <1>4, KimiSound, TakenSound DEF Goal
  <2> QED BY <1>4, <2>1, ReportedIs DEF Goal
<1>5. CASE pl = "devin"
  <2>1. Goal(Devin(g))
    BY <1>5, DevinSound, TakenSound DEF Goal
  <2> QED BY <1>5, <2>1, ReportedIs DEF Goal
<1>6. CASE pl = "antigravity"
  <2>1. Goal(Antigravity(g))
    BY <1>6, AntigravitySound, TakenSound DEF Goal
  <2> QED BY <1>6, <2>1, ReportedIs DEF Goal
<1>7. CASE pl = "copilot"
  <2>1. Goal(Copilot(g))
    BY <1>7, CopilotSound, TakenSound DEF Goal, OneChat
  <2> QED BY <1>7, <2>1, ReportedIs DEF Goal
<1>8. CASE pl = "grok"
  <2>1. Goal(Grok(g))
    BY <1>8, GrokSound, TakenSound DEF Goal
  <2> QED BY <1>8, <2>1, ReportedIs DEF Goal
<1>9. CASE pl = "perplexity"
  <2>1. Goal(Perplexity(g))
    BY <1>9, PerplexitySound, TakenSound DEF Goal
  <2> QED BY <1>9, <2>1, ReportedIs DEF Goal
<1>10. CASE pl = "zai"
  <2>1. Goal(Zai(g))
    BY <1>10, ZaiSound, TakenSound DEF Goal
  <2> QED BY <1>10, <2>1, ReportedIs DEF Goal
<1>11. CASE pl = "synthetic"
  <2>1. Goal(Synthetic(g))
    BY <1>11, SyntheticSound, TakenSound DEF Goal
  <2> QED BY <1>11, <2>1, ReportedIs DEF Goal
<1>12. CASE pl = "amp"
  <2>1. Goal(Amp(g))
    BY <1>12, AmpSound, TakenSound DEF Goal
  <2> QED BY <1>12, <2>1, ReportedIs DEF Goal
<1>13. CASE pl = "factory"
  <2>1. Goal(Factory(g))
    BY <1>13, FactorySound, TakenSound DEF Goal
  <2> QED BY <1>13, <2>1, ReportedIs DEF Goal
<1>14. CASE pl = "kiro"
  <2>1. Goal(Kiro(g))
    BY <1>14, KiroSound, TakenSound DEF Goal
  <2> QED BY <1>14, <2>1, ReportedIs DEF Goal
<1>15. CASE pl = "claude"
  <2>1. Goal(Claude(g))
    BY <1>15, ClaudeSound DEF Goal, Loggers
  <2> QED BY <1>15, <2>1, ReportedIs DEF Goal
<1>16. CASE pl = "codex"
  <2>1. Goal(Codex(g))
    BY <1>16, CodexSound DEF Goal, Loggers
  <2> QED BY <1>16, <2>1, ReportedIs DEF Goal
<1>17. CASE pl = "cursor"
  <2>1. Goal(Cursor(g))
    BY <1>17, CursorSound, TakenSound DEF Goal
  <2> QED BY <1>17, <2>1, ReportedIs DEF Goal
<1> QED BY <1>1, <1>2, <1>3, <1>4, <1>5, <1>6, <1>7, <1>8, <1>9, <1>10, <1>11, <1>12, <1>13, <1>14, <1>15, <1>16, <1>17 DEF Reporters

ReportInv ==
  /\ reporter \in RPlugins /\ given \in Given[reporter]
  /\ output = Nothing \/ output = Output(Result)

LEMMA ReportStep ==
  ReportInv /\ [Report]_reportVars => ReportInv'
<1> SUFFICES ASSUME ReportInv, [Report]_reportVars
             PROVE  ReportInv'
  OBVIOUS
<1>1. CASE Report
  BY <1>1 DEF ReportInv, Report, Result
<1>2. CASE UNCHANGED reportVars
  BY <1>2 DEF ReportInv, reportVars, Result
<1> QED BY <1>1, <1>2

LEMMA ReportInvHolds == ReportSpec => []ReportInv
<1>1. ReportInit => ReportInv
  BY DEF ReportInit, ReportInv
<1> QED BY <1>1, ReportStep, PTL DEF ReportSpec

LEMMA ResultSound ==
  ASSUME ReportInv, NEW sane \in BOOLEAN, sane => Sane(reporter, given)
  PROVE  /\ reporter \in Reporters /\ given \in MayAnswer(reporter)
         /\ SoundReport(Taken(Result), sane)
         /\ OneChat(reporter, given) => Unique(Taken(Result).metrics)
         /\ reporter \notin Loggers => SoundReport(Result, sane) /\ Taken(Result).metrics = Result.metrics
         /\ Output(Taken(Result)) = Output(Result) /\ Taken(Result).lines = Result.lines
         /\ Taken(Result).thrown = Result.thrown
         /\ Taken(Result).metrics = ParseMetrics(Result.metrics)
<1>1. reporter \in Reporters /\ given \in MayAnswer(reporter)
  BY ReportAssumption DEF ReportInv
<1>2. /\ SoundReport(Taken(Result), sane)
      /\ OneChat(reporter, given) => Unique(Taken(Result).metrics)
      /\ reporter \notin Loggers => SoundReport(Result, sane) /\ Taken(Result).metrics = Result.metrics
  BY <1>1, ReportedSound DEF Result
<1> QED BY <1>1, <1>2, TakenOutput

LEMMA OutputTyped ==
  ASSUME NEW o, o.lines \in Seq(Accepted), o.metrics \in Seq(NatMetric),
         o = [lines |-> o.lines, metrics |-> o.metrics]
  PROVE  /\ o \in [lines : Seq(LineType), metrics : Seq(MetricType)]
         /\ \A l \in ToSet(o.lines) : Quota(l) => l.used \in Nat /\ l.limit \in Nat \ {0}
         /\ \A m \in ToSet(o.metrics) : m.value \in Nat
<1> DEFINE A == Accepted
           M == NatMetric
           L == LineType
           T == MetricType
           ls == o.lines
           ms == o.metrics
<1>1. /\ A \subseteq L /\ \A l \in A : Quota(l) => l.used \in Nat /\ l.limit \in Nat \ {0}
  BY DEF Accepted
<1>2. M \subseteq T /\ \A m \in M : m.value \in Nat
  BY DEF NatMetric, MetricType
<1> HIDE DEF A, M, L, T, ls, ms
<1>3. ls \in Seq(A) /\ ms \in Seq(M) /\ o = [lines |-> ls, metrics |-> ms]
  BY DEF A, M, ls, ms
<1>4. ToSet(ls) \subseteq A /\ ToSet(ms) \subseteq M
  BY <1>3, SetOfSeq
<1>5. ls \in Seq(L) /\ ms \in Seq(T)
  BY <1>1, <1>2, <1>3, <1>4, SeqOfSet
<1>6. o \in [lines : Seq(L), metrics : Seq(T)]
  BY <1>3, <1>5
<1>7. /\ \A l \in ToSet(ls) : Quota(l) => l.used \in Nat /\ l.limit \in Nat \ {0}
      /\ \A m \in ToSet(ms) : m.value \in Nat
  BY <1>1, <1>2, <1>4
<1> QED BY <1>6, <1>7 DEF L, T, ls, ms

LEMMA ReportTyped == ReportInv => ReportTypeOK
<1> SUFFICES ASSUME ReportInv
             PROVE  ReportTypeOK
  OBVIOUS
<1>1. reporter \in RPlugins /\ (output = Nothing \/ output = Output(Result))
  BY DEF ReportInv
<1>2. CASE output = Nothing
  <2>1. /\ output.lines = <<>> /\ output.metrics = <<>>
        /\ output = [lines |-> output.lines, metrics |-> output.metrics]
    BY <1>2 DEF Nothing
  <2>2. output.lines \in Seq(Accepted) /\ output.metrics \in Seq(NatMetric)
    BY <2>1, EmptySeq
  <2> QED BY <1>1, <2>1, <2>2, OutputTyped DEF ReportTypeOK
<1>3. CASE output = Output(Result)
  <2> DEFINE s == FALSE
  <2>1. s \in BOOLEAN /\ (s => Sane(reporter, given))
    OBVIOUS
  <2> HIDE DEF s
  <2>2. SoundReport(Taken(Result), s) /\ output = Output(Taken(Result))
    BY <1>3, <2>1, ResultSound
  <2>3. /\ output.lines \in Seq(Accepted) /\ output.metrics \in Seq(NatMetric)
        /\ output = [lines |-> output.lines, metrics |-> output.metrics]
    BY <1>3, <2>1, <2>2, OutputFacts
  <2> QED BY <1>1, <2>3, OutputTyped DEF ReportTypeOK
<1> QED BY <1>1, <1>2, <1>3

(* What is shown always has the types the interface promises, with no      *)
(* negative count and no limit of nothing, whatever the provider answered: *)
(* run_probe of runtime.rs stands between the plugin and the app.          *)
THEOREM ReportTypeCorrect == ReportSpec => []ReportTypeOK
BY ReportTyped, ReportInvHolds, PTL

LEMMA DoneResult ==
  ASSUME ReportInv, Done
  PROVE  output = Output(Result)
BY DEF ReportInv, Done

(* Whatever a working provider says, no line of any plugin is one that the *)
(* runtime replaces by an error badge: each plugin's clamps and guards are *)
(* enough for what runtime.rs checks.                                      *)
THEOREM NeverRefused == ReportSpec => []NoRefusedLine
<1>1. ReportInv => NoRefusedLine
  <2> SUFFICES ASSUME ReportInv, Done, ~Result.thrown, Sane(reporter, given)
               PROVE  Shown("Error") = {}
    BY DEF NoRefusedLine
  <2> DEFINE s == TRUE
             o == Output(Result)
  <2>1. s \in BOOLEAN /\ (s => Sane(reporter, given)) /\ output = o
    BY DoneResult
  <2> HIDE DEF s
  <2>2. /\ SoundReport(Taken(Result), s) /\ o = Output(Taken(Result))
        /\ Taken(Result).lines = Result.lines /\ Taken(Result).thrown = Result.thrown
    BY <2>1, ResultSound
  <2> HIDE DEF o
  <2>3. s /\ ~Result.thrown => ToSet(o.lines) = ToSet(Result.lines)
    BY <2>1, <2>2, OutputFacts
  <2>4. ToSet(output.lines) = ToSet(Result.lines)
    BY <2>1, <2>3 DEF s
  <2>5. \A l \in ToSet(Result.lines) : Fine(l)
    <3>1. Result.lines \in Seq(Fit(s))
      BY <2>2 DEF SoundReport
    <3>2. s => \A l \in ToSet(Result.lines) : Fine(l)
      BY <2>1, <3>1, FitLines
    <3> QED BY <3>2 DEF s
  <2>6. \A l \in ToSet(output.lines) : l.label # "Error"
    BY <2>4, <2>5 DEF Fine
  <2> QED BY <2>6 DEF Shown
<1> QED BY <1>1, ReportInvHolds, PTL

(* When no cost is refused the runtime keeps all of a plugin's metrics.    *)
LEMMA NothingRefused ==
  ASSUME ReportInv, ~CostIsRefused
  PROVE  ParseMetrics(Result.metrics) = Result.metrics
<1> DEFINE s == FALSE
<1>1. s \in BOOLEAN /\ (s => Sane(reporter, given))
  OBVIOUS
<1> HIDE DEF s
<1>2. given \in MayAnswer(reporter)
  BY <1>1, ResultSound
<1>3. CASE reporter \notin Loggers
  BY <1>1, <1>3, ResultSound
<1>4. CASE reporter \in Loggers
  <2>1. \A d \in given.log : ~NegativeCost(d)
    BY <1>4 DEF CostIsRefused, Loggers
  <2>2. given.log \in Log /\ Result.metrics = CountPart(given.log)
    <3>1. CASE reporter = "claude"
      <4>1. Result = Claude(given) /\ given \in MayAnswer("claude")
        BY <1>2, <3>1, ReportedIs DEF Result
      <4>2. s => Sane("claude", given)
        BY <1>1, <3>1
      <4>3. given.log \in Log
        BY <4>1 DEF MayAnswer
      <4>4. Carded(Claude(given), s, given.log, given.today)
        BY <1>1, <4>1, <4>2, ClaudeCarded
      <4> QED BY <4>1, <4>3, <4>4 DEF Carded
    <3>2. CASE reporter = "codex"
      <4>1. Result = Codex(given) /\ given \in MayAnswer("codex")
        BY <1>2, <3>2, ReportedIs DEF Result
      <4>2. s => Sane("codex", given)
        BY <1>1, <3>2
      <4>3. given.log \in Log
        BY <4>1 DEF MayAnswer
      <4>4. Carded(Codex(given), s, given.log, given.today)
        BY <1>1, <4>1, <4>2, CodexCarded
      <4> QED BY <4>1, <4>3, <4>4 DEF Carded
    <3> QED BY <1>4, <3>1, <3>2 DEF Loggers
  <2> QED BY <1>1, <2>1, <2>2, TokenPartFacts
<1> QED BY <1>3, <1>4

(* No metric of a plugin is lost on its way to the API, unless one of them *)
(* is a negative cost, which loses all; every quota on a card has its      *)
(* metrics there in any case, and a key is given once: of parse_metrics    *)
(* and append_derived_quota_metrics for any number of lines and metrics.   *)
THEOREM MetricsAreComplete == ReportSpec => []MetricsComplete
<1>1. ReportInv => MetricsComplete
  <2> SUFFICES ASSUME ReportInv, Done
               PROVE  /\ ~CostIsRefused => ToSet(Result.metrics) \subseteq ToSet(output.metrics)
                      /\ \A l \in ToSet(output.lines) :
                           KeysOf(QuotaMetrics(l)) \subseteq KeysOf(output.metrics)
                      /\ OneChat(reporter, given) =>
                           Cardinality(KeysOf(output.metrics)) = Len(output.metrics)
    BY DEF MetricsComplete, OneChat
  <2> DEFINE s == FALSE
             r == Taken(Result)
             o == Output(r)
  <2>1. s \in BOOLEAN /\ (s => Sane(reporter, given)) /\ output = Output(Result)
    BY DoneResult
  <2> HIDE DEF s
  <2>2. /\ SoundReport(r, s) /\ (OneChat(reporter, given) => Unique(r.metrics))
        /\ output = o /\ r.metrics = ParseMetrics(Result.metrics)
    BY <2>1, ResultSound
  <2> HIDE DEF r
  <2>3. /\ o.metrics \in Seq(NatMetric)
        /\ ToSet(r.metrics) \subseteq ToSet(o.metrics)
        /\ \A l \in ToSet(o.lines) : KeysOf(QuotaMetrics(l)) \subseteq KeysOf(o.metrics)
        /\ Unique(r.metrics) => Unique(o.metrics)
    BY <2>1, <2>2, OutputFacts
  <2> HIDE DEF o
  <2>4. Unique(r.metrics) => Cardinality(KeysOf(o.metrics)) = Len(o.metrics)
    BY <2>3, UniqueCardinality
  <2>5. ~CostIsRefused => r.metrics = Result.metrics
    BY <2>2, NothingRefused
  <2> QED BY <2>2, <2>3, <2>4, <2>5
<1> QED BY <1>1, ReportInvHolds, PTL

(***************************************************************************)
(* The counts of one card agree.  The runtime's own keys have three parts. *)
(***************************************************************************)
LEMMA QuotaKeys ==
  ASSUME NEW l \in Accepted, NEW m \in ToSet(QuotaMetrics(l))
  PROVE  Len(m.key) = 3
<1>1. CASE ~Quota(l)
  <2>1. QuotaMetrics(l) = <<>>
    BY <1>1 DEF QuotaMetrics
  <2> QED BY <2>1 DEF ToSet
<1>2. CASE Quota(l) /\ l.kind = "percent"
  <2> DEFINE k == <<"quota", l.label, "utilization">>
             x == Metric(k, Clamp(Share(l.used, l.limit), 0, 100))
  <2>1. QuotaMetrics(l) = <<x>>
    BY <1>2 DEF QuotaMetrics
  <2>2. Len(k) = 3
    OBVIOUS
  <2>3. x.key = k
    BY DEF Metric
  <2> HIDE DEF k, x
  <2>4. m = x
    BY <2>1 DEF ToSet
  <2> QED BY <2>2, <2>3, <2>4
<1>3. CASE Quota(l) /\ l.kind # "percent"
  <2> DEFINE j == <<"quota", l.label, "used">>
             k == <<"quota", l.label, "limit">>
             x == Metric(j, l.used)
             y == Metric(k, l.limit)
  <2>1. QuotaMetrics(l) = <<x, y>>
    BY <1>3 DEF QuotaMetrics
  <2>2. Len(j) = 3 /\ Len(k) = 3
    OBVIOUS
  <2>3. x.key = j /\ y.key = k
    BY DEF Metric
  <2> HIDE DEF j, k, x, y
  <2>4. m = x \/ m = y
    BY <2>1 DEF ToSet
  <2> QED BY <2>2, <2>3, <2>4
<1> QED BY <1>1, <1>2, <1>3

LEMMA WithKeys ==
  ASSUME NEW ms \in Seq(NatMetric), NEW l \in Accepted, NEW m \in ToSet(WithQuotaMetrics(ms, l))
  PROVE  m \in ToSet(ms) \/ Len(m.key) = 3
<1> DEFINE qs == QuotaMetrics(l)
           S == {x \in ToSet(qs) : x.key \notin KeysOf(ms)}
           new == Among(qs, S)
<1>1. qs \in Seq(NatMetric) /\ \A x \in ToSet(qs) : Len(x.key) = 3
  BY QuotaFacts, QuotaKeys
<1>2. WithQuotaMetrics(ms, l) = ms \o new
  BY DEF WithQuotaMetrics
<1> HIDE DEF qs, S
<1>3. new \in Seq(NatMetric) /\ ToSet(new) = ToSet(qs) \cap S
  BY <1>1, AmongFacts
<1> HIDE DEF new
<1>4. ToSet(ms \o new) = ToSet(ms) \cup ToSet(new)
  BY <1>3, ConcatFacts
<1> QED BY <1>1, <1>2, <1>3, <1>4

LEMMA DerivedKeys ==
  ASSUME NEW ls \in Seq(Accepted), NEW ms \in Seq(NatMetric),
         NEW m \in ToSet(AppendDerivedQuotaMetrics(ls, ms))
  PROVE  m \in ToSet(ms) \/ Len(m.key) = 3
<1> DEFINE N == Len(ls)
           Own(x) == x \in ToSet(ms) \/ Len(x.key) = 3
<1>1. N \in Nat /\ \A k \in 1 .. N : ls[k] \in Accepted
  BY LenProperties, ElementOfSeq
<1>2. PICK r \in [0 .. N -> Seq(NatMetric)] :
        /\ r[0] = ms
        /\ \A k \in 1 .. N : r[k] = WithQuotaMetrics(r[k - 1], ls[k])
        /\ r[N] = AppendDerivedQuotaMetrics(ls, ms)
  BY DerivedRuns
<1> HIDE DEF N
<1> DEFINE S == {k \in Nat : k <= N => \A x \in ToSet(r[k]) : Own(x)}
<1>3. 0 \in S
  BY <1>2
<1>4. ASSUME NEW k \in Nat, k \in S
      PROVE  k + 1 \in S
  <2> SUFFICES ASSUME k + 1 <= N
               PROVE  \A x \in ToSet(r[k + 1]) : Own(x)
    OBVIOUS
  <2>1. k + 1 \in 1 .. N /\ k \in 0 .. N /\ (k + 1) - 1 = k
    BY <1>1
  <2>2. r[k + 1] = WithQuotaMetrics(r[k], ls[k + 1]) /\ r[k] \in Seq(NatMetric) /\ ls[k + 1] \in Accepted
    BY <1>1, <1>2, <2>1
  <2>3. \A x \in ToSet(r[k]) : Own(x)
    BY <1>1, <1>4, <2>1
  <2>4. \A x \in ToSet(r[k + 1]) : x \in ToSet(r[k]) \/ Len(x.key) = 3
    BY <2>2, WithKeys
  <2> QED BY <2>3, <2>4
<1> HIDE DEF S
<1>5. Nat \subseteq S
  BY <1>3, <1>4, Induction
<1>6. \A x \in ToSet(r[N]) : Own(x)
  BY <1>1, <1>5 DEF S
<1> QED BY <1>2, <1>6

(* Of the lines with certain labels the runtime shows all, when none of    *)
(* them is one it refuses.                                                 *)
LEMMA ShownLines ==
  ASSUME NEW ls \in Seq(LineType), ls # <<>>, NEW K, "Error" \notin K,
         \A l \in ToSet(ls) : l.label \in K => Fine(l)
  PROVE  {l \in ToSet(ParseLines(ls)) : l.label \in K} = {l \in ToSet(ls) : l.label \in K}
<1>1. ToSet(ls) \subseteq LineType
  BY SetOfSeq
<1>2. ToSet(ParseLines(ls)) = UNION {ToSet(ParseLine(l)) : l \in ToSet(ls)}
  BY LinesParsed
<1>3. ErrorLine.label \notin K
  BY DEF ErrorLine, Badge, Line
<1>4. ASSUME NEW l \in ToSet(ls), NEW x \in ToSet(ParseLine(l)), x.label \in K
      PROVE  x = l
  <2>1. l \in LineType
    BY <1>1
  <2>2. x = [l EXCEPT !.points = x.points]
    BY <1>3, <1>4, <2>1, LineParsed
  <2>3. x.label = l.label
    <3>1. [l EXCEPT !.points = x.points].label = l.label
      BY <2>1 DEF LineType
    <3> QED BY <2>2, <3>1
  <2>4. ParseLine(l) = <<l>>
    BY <1>4, <2>1, <2>3, LineParsed
  <2> QED BY <2>4, SingletonFacts
<1>5. ASSUME NEW l \in ToSet(ls), l.label \in K
      PROVE  l \in ToSet(ParseLine(l))
  <2>1. l \in LineType
    BY <1>1
  <2>2. ParseLine(l) = <<l>>
    BY <1>5, <2>1, LineParsed
  <2> QED BY <2>2, SingletonFacts
<1> QED BY <1>2, <1>4, <1>5

(* Of the token labels, the card shows exactly the lines of the log.       *)
LEMMA CardShown ==
  ASSUME ReportInv, Done, reporter \in {"claude", "codex"}
  PROVE  LET t == ToSet(TokenPart(given.log, given.today)) IN
           /\ given.log \in Log
           /\ \A l : l.label \in TokenLabels => (l \in ToSet(output.lines) <=> l \in t)
           /\ \A m \in ToSet(output.metrics) :
                m \in NatMetric /\ (m \in ToSet(ParseMetrics(CountPart(given.log))) \/ Len(m.key) = 3)
           /\ ToSet(ParseMetrics(CountPart(given.log))) \subseteq ToSet(output.metrics)
<1> DEFINE s == FALSE
           r == Result
           t == TokenPart(given.log, given.today)
           ms == ParseMetrics(CountPart(given.log))
<1>1. s \in BOOLEAN /\ (s => Sane(reporter, given)) /\ output = Output(r)
  BY DoneResult
<1> HIDE DEF s
<1>2. given \in MayAnswer(reporter)
  BY <1>1, ResultSound
<1>3. Carded(r, s, given.log, given.today) /\ given.log \in Log
  <2>1. CASE reporter = "claude"
    <3>1. r = Claude(given)
      BY <2>1, ReportedIs DEF Result
    <3>2. given.log \in Log
      BY <1>2, <2>1 DEF MayAnswer
    <3> QED BY <1>1, <1>2, <2>1, <3>1, <3>2, ClaudeCarded
  <2>2. CASE reporter = "codex"
    <3>1. r = Codex(given)
      BY <2>2, ReportedIs DEF Result
    <3>2. given.log \in Log
      BY <1>2, <2>2 DEF MayAnswer
    <3> QED BY <1>1, <1>2, <2>2, <3>1, <3>2, CodexCarded
  <2> QED BY <2>1, <2>2
<1> HIDE DEF r
<1>4. /\ SoundReport(Taken(r), s) /\ ~r.thrown /\ r.lines # <<>> /\ ParseMetrics(r.metrics) = ms
      /\ \A l \in ToSet(r.lines) : l.label \in TokenLabels => l \in ToSet(t)
      /\ ToSet(t) \subseteq ToSet(r.lines)
  BY <1>3 DEF Carded
<1>5. t \in Seq(Fit(TRUE)) /\ ms \in Seq(NatMetric)
  BY <1>1, <1>3, TokenPartFacts
<1>6. \A l \in ToSet(t) : Fine(l)
  <2> DEFINE F == Fit(TRUE)
  <2>1. \A l \in F : Fine(l)
    BY DEF Fit
  <2> HIDE DEF F, t
  <2>2. ToSet(t) \subseteq F
    BY <1>5, SetOfSeq DEF F
  <2> QED BY <2>1, <2>2
<1> HIDE DEF t, ms
<1> DEFINE ls == ParseLines(r.lines)
           all == AppendDerivedQuotaMetrics(ls, ms)
<1>7. r.lines \in Seq(LineType)
  <2>1. r.lines \in Seq(Fit(s))
    BY <1>4 DEF SoundReport, Taken
  <2> QED BY <1>1, <2>1, FitLines
<1>8. ls \in Seq(Accepted)
  BY <1>7, LinesParsed
<1>9. {l \in ToSet(ls) : l.label \in TokenLabels} = {l \in ToSet(r.lines) : l.label \in TokenLabels}
  <2>1. "Error" \notin TokenLabels
    BY DEF TokenLabels
  <2>2. \A l \in ToSet(r.lines) : l.label \in TokenLabels => Fine(l)
    BY <1>4, <1>6
  <2> QED BY <1>4, <1>7, <2>1, <2>2, ShownLines
<1>10. output.lines = ls /\ output.metrics = all
  BY <1>1, <1>4 DEF Output
<1>11. \A l : l.label \in TokenLabels => (l \in ToSet(ls) <=> l \in ToSet(t))
  BY <1>4, <1>9
<1> HIDE DEF ls
<1>12. /\ all \in Seq(NatMetric) /\ ToSet(ms) \subseteq ToSet(all)
       /\ \A m \in ToSet(all) : m \in ToSet(ms) \/ Len(m.key) = 3
  BY <1>5, <1>8, DerivedFacts, DerivedKeys
<1> HIDE DEF all
<1>13. \A m \in ToSet(all) : m \in NatMetric
  BY <1>12, SetOfSeq
<1> QED BY <1>3, <1>10, <1>11, <1>12, <1>13 DEF t, ms

LEMMA CountedKeys ==
  ASSUME NEW days \in Seq(Day), ~NegativeCost(days),
         NEW m \in ToSet(CollectStructuredMetrics(days))
  PROVE  /\ m \in NatMetric
         /\ Len(m.key) = 2 /\ m.key[2] \in Models => m.key = <<"tokens", m.key[2]>>
<1> DEFINE ms == CollectStructuredMetrics(days)
           k == m.key
<1>1. /\ ms \in Seq(NatMetric)
      /\ KeysOf(ms) \subseteq {<<"tokens", "total">>, <<"cost">>} \cup {<<"tokens", x>> : x \in Models}
  BY StructuredFacts
<1> HIDE DEF ms
<1>2. m \in NatMetric /\ k \in KeysOf(ms)
  BY <1>1, SetOfSeq, KeysFacts DEF ms
<1> HIDE DEF k
<1>3. CASE k = <<"tokens", "total">>
  <2>1. k[2] = "total"
    BY <1>3
  <2>2. "total" \notin Models
    BY DEF Models
  <2> QED BY <1>2, <2>1, <2>2 DEF k
<1>4. CASE k = <<"cost">>
  <2>1. Len(k) = 1
    BY <1>4
  <2> QED BY <1>2, <2>1 DEF k
<1>5. ASSUME NEW x \in Models, k = <<"tokens", x>>
      PROVE  k = <<"tokens", k[2]>>
  BY <1>5
<1> QED BY <1>1, <1>2, <1>3, <1>4, <1>5 DEF k

LEMMA UsedModels ==
  ASSUME NEW days \in Seq(Day)
  PROVE  {u.name : u \in ToSet(CollectModelUsage(days))} = {x \in Models : ModelTotal(days, x) > 0}
<1> DEFINE us == CollectModelUsage(days)
<1>1. us \in Seq(Counted) /\ \A u \in Counted : u \in ToSet(us) <=> u.tokens = ModelTotal(days, u.name)
  BY ModelUsageFacts
<1> HIDE DEF us
<1>2. ToSet(us) \subseteq Counted
  BY <1>1, SetOfSeq
<1>3. ASSUME NEW u \in ToSet(us)
      PROVE  u.name \in Models /\ ModelTotal(days, u.name) > 0
  BY <1>1, <1>2 DEF Counted
<1>4. ASSUME NEW x \in Models, ModelTotal(days, x) > 0
      PROVE  \E u \in ToSet(us) : u.name = x
  <2> DEFINE u == [name |-> x, tokens |-> ModelTotal(days, x)]
  <2>1. ModelTotal(days, x) \in Nat
    BY ModelTotalFacts
  <2>2. u \in Counted /\ u.name = x /\ u.tokens = ModelTotal(days, x)
    BY <1>4, <2>1 DEF Counted
  <2> HIDE DEF u
  <2> QED BY <1>1, <2>2
<1> QED BY <1>3, <1>4 DEF us

(* The token counts of one card agree, for logs of any length, days in any *)
(* order and counts of any sign: what claude and codex show in their lines *)
(* (thirty days, chart, models) is no more than what they give the API,    *)
(* the same unless some day's count is negative, and a refused cost takes  *)
(* all of it from the API.                                                 *)
THEOREM TotalsAlwaysAgree == ReportSpec => []TotalsAgree
<1>1. ReportInv => TotalsAgree
  <2> SUFFICES ASSUME ReportInv, Done, reporter \in {"claude", "codex"}, NEW days \in given.log
               PROVE  LET shown  == {l.used : l \in Shown("Last 30 Days")}
                          served == {m.value : m \in {x \in ToSet(output.metrics) : x.key = <<"tokens", "total">>}}
                          chart  == {Sum(l.points) : l \in Shown("Usage Trend")}
                          plain  == \A d \in ToSet(days) : Count(d) >= 0
                          fits   == (\A d \in ToSet(days) : Count(d) > 0 => d.day # {}) /\ Len(days) <= ChartDays
                          said   == {l.label : l \in {x \in ToSet(output.lines) : x.label \in Models}}
                          named  == {m \in ToSet(output.metrics) : Len(m.key) = 2 /\ m.key[2] \in Models}
                      IN /\ \A c \in chart, u \in served \cup {n \in shown : plain} : c <= u /\ (fits => c = u)
                         /\ IF NegativeCost(days) THEN served = {} /\ named = {}
                            ELSE /\ \A n \in shown : \E u \in served : n <= u
                                 /\ plain => shown = served
                                 /\ said = {m.key[2] : m \in named}
                                 /\ \A x \in Models :
                                      {m.value : m \in {y \in named : y.key[2] = x}}
                                      = {Sum(Each(days, LAMBDA d : d.models[x] + d.breakdowns[x]))} \ {0}
    BY DEF TotalsAgree
  <2> DEFINE t == ToSet(TokenLines(days, given.today))
             ms == ToSet(CollectStructuredMetrics(days))
             kept == ToSet(ParseMetrics(CountPart(given.log)))
             neg == NegativeCost(days)
             Out == ToSet(output.metrics)
             L == ToSet(output.lines)
             Tot == TotalTokens(days)
             Api == ServedTokens(days)
             Of(x) == ModelTotal(days, x)
             points == CollectUsageChartPoints(days)
             k == <<"tokens", "total">>
  <2>1. /\ given.log \in Log
        /\ \A l : l.label \in TokenLabels => (l \in L <=> l \in ToSet(TokenPart(given.log, given.today)))
        /\ \A m \in Out : m \in NatMetric /\ (m \in kept \/ Len(m.key) = 3)
        /\ kept \subseteq Out
    BY CardShown
  <2>2. /\ days \in Seq(Day) /\ The(given.log) = days /\ given.log # {}
    <3>1. given.log # {} /\ The(given.log) \in Seq(Day) /\ given.log = {The(given.log)}
      BY <2>1, OptionalFacts DEF Log
    <3> QED BY <3>1
  <2>23. /\ neg => ParseMetrics(CountPart(given.log)) = <<>>
         /\ ~neg => ParseMetrics(CountPart(given.log)) = CollectStructuredMetrics(days)
    <3> DEFINE b == TRUE
    <3>1. b \in BOOLEAN /\ given.log = {days}
      BY <2>1, <2>2, OptionalFacts DEF Log
    <3> HIDE DEF b
    <3>2. /\ (\A d \in given.log : ~NegativeCost(d)) => ParseMetrics(CountPart(given.log)) = CountPart(given.log)
          /\ (\E d \in given.log : NegativeCost(d)) => ParseMetrics(CountPart(given.log)) = <<>>
      BY <2>1, <3>1, TokenPartFacts
    <3>3. CountPart(given.log) = CollectStructuredMetrics(days)
      BY <2>2 DEF CountPart
    <3> QED BY <3>1, <3>2, <3>3
  <2>24. (neg => kept = {}) /\ (~neg => kept = ms)
    <3>1. ToSet(<<>>) = {}
      BY DEF ToSet
    <3> QED BY <2>23, <3>1
  <2>3. /\ \A l : l.label \in TokenLabels => (l \in L <=> l \in t)
        /\ \A m \in Out : m \in NatMetric /\ (m \in kept \/ Len(m.key) = 3)
        /\ kept \subseteq Out
    BY <2>1, <2>2 DEF TokenPart
  <2>4. /\ {l \in t : l.label = "Last 30 Days"} = IF Tot > 0 THEN {Text("Last 30 Days", Tot)} ELSE {}
        /\ {l \in t : l.label = "Usage Trend"} = IF points # <<>> THEN {Chart("Usage Trend", points)} ELSE {}
        /\ {l.label : l \in {x \in t : x.label \in Models}}
             = {u.name : u \in ToSet(CollectModelUsage(days))}
    BY <2>2, TokenLinesFacts
  <2>5. ~neg => \A m \in NatMetric :
                  /\ m.key = k => (m \in ms <=> m.value = Api /\ m.value > 0)
                  /\ \A x \in Models : m.key = <<"tokens", x>> => (m \in ms <=> m.value = Of(x) /\ m.value > 0)
    BY <2>2, StructuredFacts
  <2>6. ~neg => \A m \in ms : m \in NatMetric /\ (Len(m.key) = 2 /\ m.key[2] \in Models => m.key = <<"tokens", m.key[2]>>)
    BY <2>2, CountedKeys
  <2>7. /\ Tot \in Int /\ Api \in Nat /\ Tot <= Api
        /\ (\A d \in ToSet(days) : Count(d) >= 0) => Tot = Api
        /\ \A x \in Models : Of(x) \in Nat
    BY <2>2, TotalFacts, ModelTotalFacts
  <2>8. {u.name : u \in ToSet(CollectModelUsage(days))} = {x \in Models : Of(x) > 0}
    BY <2>2, UsedModels
  <2>9. /\ Sum(points) <= Api
        /\ (\A d \in ToSet(days) : Count(d) > 0 => d.day # {}) /\ Len(days) <= ChartDays => Sum(points) = Api
    BY <2>2, ChartFacts
  <2>10. "Last 30 Days" \in TokenLabels /\ "Usage Trend" \in TokenLabels /\ Models \subseteq TokenLabels
    BY DEF TokenLabels, Models
  <2>11. /\ Text("Last 30 Days", Tot).used = Tot /\ Chart("Usage Trend", points).points = points
    BY DEF Text, Chart, Line
  <2>12. /\ Len(k) = 2 /\ k \in Seq(KeyParts)
         /\ \A x \in Models : Len(<<"tokens", x>>) = 2 /\ <<"tokens", x>>[2] = x /\ <<"tokens", x>> \in Seq(KeyParts)
    <3>1. "tokens" \in KeyParts /\ "total" \in KeyParts /\ \A x \in Models : x \in KeyParts
      BY PartFacts DEF Models, KeyParts, Labels
    <3>2. \A x \in KeyParts : Len(<<"tokens", x>>) = 2 /\ <<"tokens", x>>[2] = x
      OBVIOUS
    <3> QED BY <3>1, <3>2, KeyFacts
  <2>13. \A x \in Models : Sum(Each(days, LAMBDA d : d.models[x] + d.breakdowns[x])) = Of(x)
    BY DEF ModelTotal
  <2> DEFINE shown == {l.used : l \in Shown("Last 30 Days")}
             served == {m.value : m \in {x \in Out : x.key = k}}
             chart == {Sum(l.points) : l \in Shown("Usage Trend")}
             plain == \A d \in ToSet(days) : Count(d) >= 0
             fits  == (\A d \in ToSet(days) : Count(d) > 0 => d.day # {}) /\ Len(days) <= ChartDays
             said  == {l.label : l \in {x \in L : x.label \in Models}}
             named == {m \in Out : Len(m.key) = 2 /\ m.key[2] \in Models}
  <2> HIDE DEF t, ms, kept, neg, Out, L, Tot, Api, Of, points, k
  <2>14. shown = IF Tot > 0 THEN {Tot} ELSE {}
    <3>1. Shown("Last 30 Days") = {l \in t : l.label = "Last 30 Days"}
      BY <2>3, <2>10 DEF Shown, L
    <3> QED BY <2>4, <2>11, <3>1
  <2>15. served = IF ~neg /\ Api > 0 THEN {Api} ELSE {}
    <3>0. ASSUME NEW x \in Out, x.key = k
          PROVE  x \in kept
      <4>1. Len(x.key) = 2
        BY ONLY <2>12, <3>0
      <4> QED BY ONLY <2>3, <4>1, <3>0
    <3>1. {x \in Out : x.key = k} = {x \in kept : x.key = k}
      BY ONLY <2>3, <3>0
    <3>2. CASE neg
      BY <2>24, <3>1, <3>2
    <3>3. CASE ~neg
      <4>1. \A m \in ms : m.key = k => m.value = Api /\ Api > 0
        BY <2>5, <2>6, <3>3
      <4>2. Api > 0 => Metric(k, Api) \in ms /\ Metric(k, Api).key = k /\ Metric(k, Api).value = Api
        <5>1. Metric(k, Api) \in NatMetric /\ Metric(k, Api).key = k /\ Metric(k, Api).value = Api
          BY <2>7, <2>12, MetricFacts
        <5> QED BY <2>5, <3>3, <5>1
      <4> QED BY <2>24, <3>1, <3>3, <4>1, <4>2
    <3> QED BY <3>2, <3>3
  <2>16. chart \subseteq {Sum(points)}
    <3>1. Shown("Usage Trend") = {l \in t : l.label = "Usage Trend"}
      BY <2>3, <2>10 DEF Shown, L
    <3> QED BY <2>4, <2>11, <3>1
  <2>17. said = {x \in Models : Of(x) > 0}
    <3>1. {x \in L : x.label \in Models} = {x \in t : x.label \in Models}
      BY <2>3, <2>10
    <3> QED BY <2>4, <2>8, <3>1
  <2>18. ~neg => \A m \in named : /\ m.key = <<"tokens", m.key[2]>> /\ m.key[2] \in Models /\ m \in ms
                                  /\ m.value = Of(m.key[2]) /\ Of(m.key[2]) > 0
    <3> SUFFICES ASSUME ~neg, NEW m \in named
                 PROVE  /\ m.key = <<"tokens", m.key[2]>> /\ m.key[2] \in Models /\ m \in ms
                        /\ m.value = Of(m.key[2]) /\ Of(m.key[2]) > 0
      OBVIOUS
    <3>1. m \in ms /\ m \in NatMetric /\ m.key[2] \in Models /\ Len(m.key) = 2
      BY <2>3, <2>24
    <3>2. m.key = <<"tokens", m.key[2]>>
      BY <2>6, <3>1
    <3> QED BY <2>5, <3>1, <3>2
  <2>19. ~neg => \A x \in Models : Of(x) > 0 =>
           LET m == Metric(<<"tokens", x>>, Of(x)) IN m \in named /\ m.key[2] = x /\ m.value = Of(x)
    <3> SUFFICES ASSUME ~neg, NEW x \in Models, Of(x) > 0
                 PROVE  LET m == Metric(<<"tokens", x>>, Of(x)) IN
                          m \in named /\ m.key[2] = x /\ m.value = Of(x)
      OBVIOUS
    <3> DEFINE l == <<"tokens", x>>
               m == Metric(l, Of(x))
    <3>1. l \in Seq(KeyParts) /\ Len(l) = 2 /\ l[2] = x /\ Of(x) \in Nat
      BY <2>7, <2>12
    <3>2. m \in NatMetric /\ m.key = l /\ m.value = Of(x)
      BY <3>1, MetricFacts
    <3>3. m \in ms
      BY <2>5, <3>2
    <3> HIDE DEF l, m
    <3>4. m \in named /\ m.key[2] = x
      BY <2>3, <2>24, <3>1, <3>2, <3>3
    <3> QED BY <3>2, <3>4 DEF l, m
  <2>20. ~neg => said = {m.key[2] : m \in named}
    BY <2>17, <2>18, <2>19
  <2>21. ~neg => \A x \in Models : {m.value : m \in {y \in named : y.key[2] = x}} = {Of(x)} \ {0}
    <3> SUFFICES ASSUME ~neg, NEW x \in Models
                 PROVE  {m.value : m \in {y \in named : y.key[2] = x}} = {Of(x)} \ {0}
      OBVIOUS
    <3>1. \A m \in named : m.key[2] = x => m.value = Of(x) /\ Of(x) > 0
      BY <2>18
    <3>2. Of(x) > 0 => \E m \in named : m.key[2] = x /\ m.value = Of(x)
      BY <2>19
    <3>3. Of(x) \in Nat
      BY <2>7
    <3> HIDE DEF named
    <3> QED BY <3>1, <3>2, <3>3
  <2>22. \A c \in chart, u \in served \cup {n \in shown : plain} : c <= u /\ (fits => c = u)
    <3>1. \A u \in served : u = Api
      BY <2>15
    <3>2. \A u \in {n \in shown : plain} : u = Api
      BY <2>7, <2>14
    <3>3. \A c \in chart : c <= Api /\ (fits => c = Api)
      BY <2>9, <2>16
    <3> HIDE DEF chart, shown, served, plain, fits
    <3> QED BY <3>1, <3>2, <3>3
  <2>25. ~neg => (\A n \in shown : \E u \in served : n <= u) /\ (plain => shown = served)
    <3> HIDE DEF shown, served
    <3> QED BY <2>7, <2>14, <2>15
  <2>26. neg => served = {} /\ named = {}
    <3>1. neg => named = {}
      BY <2>3, <2>24
    <3> HIDE DEF served, named
    <3> QED BY <2>15, <3>1
  <2> HIDE DEF shown, served, chart, plain, fits, said, named
  <2> QED BY <2>13, <2>20, <2>21, <2>22, <2>25, <2>26
          DEF shown, served, chart, plain, fits, said, named, k, neg, Out, L
<1> QED BY <1>1, ReportInvHolds, PTL

(***************************************************************************)
(* Of several answers the one that matters most.                           *)
(***************************************************************************)
LEMMA PairFacts ==
  ASSUME NEW a, NEW b, NEW S, a \in S, b \in S
  PROVE  <<a, b>> \in Seq(S) /\ ToSet(<<a, b>>) = {a, b}
<1> DEFINE p == <<a, b>>
<1>1. p \in Seq(S) /\ DOMAIN p = 1 .. 2 /\ p[1] = a /\ p[2] = b
  <2>1. \A u, v \in S : <<u, v>> \in Seq(S)
    OBVIOUS
  <2>2. DOMAIN p = 1 .. 2 /\ p[1] = a /\ p[2] = b
    OBVIOUS
  <2> QED BY <2>1, <2>2
<1> HIDE DEF p
<1>2. 1 .. 2 = {1, 2}
  OBVIOUS
<1>3. ToSet(p) = {p[i] : i \in {1, 2}}
  BY <1>1, <1>2 DEF ToSet
<1>4. {p[i] : i \in {1, 2}} = {p[1], p[2]}
  OBVIOUS
<1> QED BY <1>1, <1>3, <1>4 DEF p

LEMMA TwoAndOne ==
  ASSUME NEW a, NEW b, NEW c \in BOOLEAN, NEW x
  PROVE  ToSet(<<a, b>> \o One(c, x)) = {a, b} \cup (IF c THEN {x} ELSE {})
<1> DEFINE S == {a, b, x}
           p == <<a, b>>
           o == One(c, x)
<1>1. a \in S /\ b \in S /\ x \in S
  OBVIOUS
<1> HIDE DEF S
<1>2. p \in Seq(S) /\ ToSet(p) = {a, b}
  BY <1>1, PairFacts
<1>3. o \in Seq(S) /\ ToSet(o) = IF c THEN {x} ELSE {}
  BY <1>1, OneFacts
<1> HIDE DEF p, o
<1>4. ToSet(p \o o) = ToSet(p) \cup ToSet(o)
  BY <1>2, <1>3, ConcatFacts
<1> QED BY <1>2, <1>3, <1>4 DEF p, o

(* What these four clamp is always fine.                                   *)
LEMMA AllShown ==
  ASSUME ReportInv, Done, ~Result.thrown,
         reporter \in {"jetbrains", "kimi", "antigravity", "minimax"}
  PROVE  ToSet(output.lines) = ToSet(Result.lines) /\ given \in MayAnswer(reporter)
<1> DEFINE s == TRUE
           o == Output(Result)
<1>1. Sane(reporter, given)
  BY DEF Sane
<1>2. s \in BOOLEAN /\ (s => Sane(reporter, given)) /\ output = o
  BY <1>1, DoneResult
<1> HIDE DEF s
<1>3. SoundReport(Result, s) /\ given \in MayAnswer(reporter)
  BY <1>2, ResultSound DEF Loggers
<1>4. s /\ ~Result.thrown => ToSet(o.lines) = ToSet(Result.lines)
  BY <1>2, <1>3, OutputFacts
<1> QED BY <1>2, <1>3, <1>4 DEF s

LEMMA JetbrainsBest ==
  ASSUME ReportInv, Done, ~Result.thrown, reporter = "jetbrains"
  PROVE  LET S == ToSet(JetbrainsStates(given)) IN
         \E a \in S : /\ Shown("Used") = {Text("Used", a.used)}
                      /\ \A b \in S : /\ OrElse(b.until, -1) <= OrElse(a.until, -1)
                                      /\ b.until = a.until =>
                                           b.used * a.maximum <= a.used * b.maximum
<1> DEFINE states == JetbrainsStates(given)
           quota == PickBestState(states)
           a == Percent("Quota", Clamp(Share(quota.used, quota.maximum), 0, 100))
           b == Text("Used", quota.used)
           c == quota.remaining # {}
           x == Text("Remaining", OrElse(quota.remaining, 0))
<1>1. ToSet(output.lines) = ToSet(Result.lines) /\ given \in MayAnswer("jetbrains")
  BY AllShown
<1>2. Result = IF states = <<>> THEN Throws ELSE Returns(<<a, b>> \o One(c, x))
  BY ReportedIs DEF Result, Jetbrains, When, One
<1>3. states \in Seq(QuotaState)
  BY <1>1, StatesFacts
<1>4. a.label = "Quota" /\ b.label = "Used" /\ x.label = "Remaining"
  BY DEF Percent, Text, Line
<1>5. c \in BOOLEAN
  OBVIOUS
<1> DEFINE lines == <<a, b>> \o One(c, x)
<1>6. ToSet(lines) = {a, b} \cup (IF c THEN {x} ELSE {})
  <2> HIDE DEF a, b, c, x
  <2> QED BY <1>5, TwoAndOne
<1> HIDE DEF states, a, x, c, lines
<1>7. states # <<>>
  BY <1>2 DEF Throws
<1>8. Result.lines = lines
  BY <1>2, <1>7 DEF Returns, lines
<1>9. quota \in ToSet(states) /\ \A s \in ToSet(states) : Behind(s, quota)
  BY <1>3, <1>7, PickBestFacts
<1> HIDE DEF quota
<1>10. Shown("Used") = {b}
  BY <1>1, <1>4, <1>6, <1>8 DEF Shown
<1>11. \A s \in ToSet(states) : /\ OrElse(s.until, -1) <= OrElse(quota.until, -1)
                                /\ s.until = quota.until => s.used * quota.maximum <= quota.used * s.maximum
  BY <1>9 DEF Behind
<1> QED BY <1>9, <1>10, <1>11 DEF states

LEMMA AntigravityBest ==
  ASSUME ReportInv, Done, ~Result.thrown, reporter = "antigravity"
  PROVE  \A m \in ToSet(ParseCloudCodeModels(given.models)) :
           \E l \in Shown(PoolLabel(m.model)) : l.used >= 100 - Clamp(OrElse(m.fraction, 0), 0, 100)
<1> DEFINE models == ParseCloudCodeModels(given.models)
           F == Fit(TRUE)
           p == PoolLine(models, "Gemini Pro")
           q == PoolLine(models, "Gemini Flash")
           r == PoolLine(models, "Claude")
<1>1. ToSet(output.lines) = ToSet(Result.lines) /\ given \in MayAnswer("antigravity")
  BY AllShown
<1>2. models \in Seq(CloudModel)
  <2> DEFINE C == CloudModel
  <2>1. given.models \in Seq(C)
    BY <1>1 DEF MayAnswer, CloudModel
  <2> HIDE DEF C
  <2>2. models \in Seq(C)
    BY <2>1, AmongFacts DEF ParseCloudCodeModels
  <2> QED BY <2>2 DEF C
<1>3. Result.lines = p \o q \o r
  <2>1. Result = Antigravity(given)
    BY ReportedIs DEF Result
  <2>2. models # <<>>
    BY <2>1 DEF Antigravity, Throws
  <2> QED BY <2>1, <2>2 DEF Antigravity, ReturnsBoth, BuildModelLines
<1> HIDE DEF models
<1>4. p \in Seq(F) /\ q \in Seq(F) /\ r \in Seq(F)
  <2> DEFINE b == TRUE
  <2>1. b \in BOOLEAN
    OBVIOUS
  <2> HIDE DEF b
  <2>2. \A pool \in PoolNames : PoolLine(models, pool) \in Seq(Fit(b))
    BY <1>2, <2>1, PoolFacts
  <2> QED BY <2>2 DEF b, PoolNames
<1> HIDE DEF p, q, r, F
<1>5. ToSet(p \o q \o r) = ToSet(p) \cup ToSet(q) \cup ToSet(r)
  <2> DEFINE pq == p \o q
  <2>1. pq \in Seq(F) /\ ToSet(pq) = ToSet(p) \cup ToSet(q)
    BY <1>4, ConcatFacts
  <2> HIDE DEF pq
  <2>2. ToSet(pq \o r) = ToSet(pq) \cup ToSet(r)
    BY <1>4, <2>1, ConcatFacts
  <2> QED BY <2>1, <2>2 DEF pq
<1>6. ASSUME NEW m \in ToSet(models)
      PROVE  \E l \in Shown(PoolLabel(m.model)) : l.used >= 100 - Clamp(OrElse(m.fraction, 0), 0, 100)
  <2> DEFINE pool == PoolLabel(m.model)
             used == UsedOf(models, pool)
             n == The(used)
             line == Percent(pool, n)
  <2>1. used # {} /\ n >= 100 - Clamp(OrElse(m.fraction, 0), 0, 100)
    <3> HIDE DEF pool
    <3>1. pool = PoolLabel(m.model)
      BY DEF pool
    <3> QED BY <1>2, <3>1, UsedFacts
  <2>2. PoolLine(models, pool) = <<line>>
    BY <2>1 DEF PoolLine, Opt
  <2>3. line.label = pool /\ line.used = n
    BY DEF Percent, Line
  <2>4. pool = "Gemini Pro" \/ pool = "Gemini Flash" \/ pool = "Claude"
    BY PoolLabelFacts
  <2> HIDE DEF pool, used, n, line
  <2>5. line \in ToSet(PoolLine(models, pool))
    <3>1. ToSet(<<line>>) = {line}
      BY DEF ToSet
    <3> QED BY <2>2, <3>1
  <2>6. line \in ToSet(p) \cup ToSet(q) \cup ToSet(r)
    BY <2>4, <2>5 DEF p, q, r
  <2>7. line \in Shown(pool)
    BY <1>1, <1>3, <1>5, <2>3, <2>6 DEF Shown
  <2>8. line.used >= 100 - Clamp(OrElse(m.fraction, 0), 0, 100)
    BY <2>1, <2>3
  <2> QED BY <2>7, <2>8 DEF pool
<1> QED BY <1>6 DEF models

LEMMA TwoOnes ==
  ASSUME NEW c \in BOOLEAN, NEW x, NEW d \in BOOLEAN, NEW y
  PROVE  ToSet(One(c, x) \o One(d, y)) = (IF c THEN {x} ELSE {}) \cup (IF d THEN {y} ELSE {})
<1> DEFINE S == {x, y}
           o == One(c, x)
           p == One(d, y)
<1>1. x \in S /\ y \in S
  OBVIOUS
<1> HIDE DEF S
<1>2. o \in Seq(S) /\ ToSet(o) = IF c THEN {x} ELSE {}
  BY <1>1, OneFacts
<1>3. p \in Seq(S) /\ ToSet(p) = IF d THEN {y} ELSE {}
  BY <1>1, OneFacts
<1> HIDE DEF o, p
<1>4. ToSet(o \o p) = ToSet(o) \cup ToSet(p)
  BY <1>2, <1>3, ConcatFacts
<1> QED BY <1>2, <1>3, <1>4 DEF o, p

LEMMA ThreeOnes ==
  ASSUME NEW c \in BOOLEAN, NEW x, NEW d \in BOOLEAN, NEW y, NEW e \in BOOLEAN, NEW z
  PROVE  ToSet(One(c, x) \o One(d, y) \o One(e, z))
           = (IF c THEN {x} ELSE {}) \cup (IF d THEN {y} ELSE {}) \cup (IF e THEN {z} ELSE {})
<1> DEFINE S == {x, y, z}
           o == One(c, x)
           p == One(d, y)
           q == One(e, z)
           op == o \o p
<1>1. x \in S /\ y \in S /\ z \in S
  OBVIOUS
<1> HIDE DEF S
<1>2. o \in Seq(S) /\ ToSet(o) = IF c THEN {x} ELSE {}
  BY <1>1, OneFacts
<1>3. p \in Seq(S) /\ ToSet(p) = IF d THEN {y} ELSE {}
  BY <1>1, OneFacts
<1>4. q \in Seq(S) /\ ToSet(q) = IF e THEN {z} ELSE {}
  BY <1>1, OneFacts
<1> HIDE DEF o, p, q
<1>5. op \in Seq(S) /\ ToSet(op) = ToSet(o) \cup ToSet(p)
  BY <1>2, <1>3, ConcatFacts
<1> HIDE DEF op
<1>6. ToSet(op \o q) = ToSet(op) \cup ToSet(q)
  BY <1>4, <1>5, ConcatFacts
<1> QED BY <1>2, <1>3, <1>4, <1>5, <1>6 DEF o, p, q, op

LEMMA MinimaxBest ==
  ASSUME ReportInv, Done, ~Result.thrown, reporter = "minimax",
         \E it \in ToSet(given.items) : HasCount(it, given.cn)
  PROVE  \A l \in Shown("Session") : l.kind = "count"
<1> DEFINE it == MinimaxChosen(given)[1]
           used == Prompts(The(MinimaxUsed(it)), given.cn)
           limit == Prompts(The(it.total), given.cn)
           line == Line("Session", "count", used, limit)
<1>1. ToSet(output.lines) = ToSet(Result.lines) /\ given \in MayAnswer("minimax")
  BY AllShown
<1>2. MinimaxChosen(given) # <<>> /\ HasCount(it, given.cn)
  BY <1>1, MinimaxChosenFacts
<1>3. Result = Minimax(given)
  BY ReportedIs DEF Result
<1>4. Result.lines = <<line>>
  <2>1. MinimaxUsed(it) # {}
    BY <1>2, <1>3 DEF Minimax, Throws
  <2> QED BY <1>2, <1>3, <2>1 DEF Minimax, ReturnsBoth
<1>5. line.kind = "count"
  BY DEF Line
<1> HIDE DEF line
<1>6. ToSet(<<line>>) = {line}
  BY DEF ToSet
<1> QED BY <1>1, <1>4, <1>5, <1>6 DEF Shown

LEMMA ZaiBest ==
  ASSUME ReportInv, Done, ~Result.thrown, reporter = "zai"
  PROVE  LET T == {x \in ToSet(given.limits) : x.type = "TOKENS_LIMIT" /\ x.unit = {3}}
         IN T # {} => \E x \in T : Shown("Session")
                                     \subseteq {Percent("Session", OrElse(x.percent, 0)), ErrorLine}
<1> DEFINE T == {x \in ToSet(given.limits) : x.type = "TOKENS_LIMIT" /\ x.unit = {3}}
           session == FindLimit(given.limits, "TOKENS_LIMIT", {3})
           weekly == FindLimit(given.limits, "TOKENS_LIMIT", {6})
           time == FindLimit(given.limits, "TIME_LIMIT", {})
           s == The(session)
           a == Percent("Session", OrElse(s.percent, 0))
           b == Percent("Weekly", OrElse(The(weekly).percent, 0))
           c == Line("Web Searches", "count", The(time).current, OrElse(The(time).usage, 0))
           sane == FALSE
           r == Result
<1> SUFFICES ASSUME T # {}
             PROVE  \E x \in T : Shown("Session")
                                   \subseteq {Percent("Session", OrElse(x.percent, 0)), ErrorLine}
  OBVIOUS
<1>1. sane \in BOOLEAN /\ (sane => Sane(reporter, given)) /\ output = Output(r)
  BY DoneResult
<1> HIDE DEF sane
<1>2. SoundReport(r, sane) /\ given \in MayAnswer("zai")
  BY <1>1, ResultSound DEF Loggers
<1>3. given.limits \in Seq(ZaiLimit)
  BY <1>2 DEF MayAnswer, ZaiLimit
<1>4. session # {} /\ s \in T
  <2> DEFINE type == "TOKENS_LIMIT"
             unit == {3}
             found == FindLimit(given.limits, type, unit)
             Typed == {x \in ToSet(given.limits) : x.type = type}
  <2>1. unit # {}
    OBVIOUS
  <2>2. \E x \in Typed : x.unit = unit
    OBVIOUS
  <2>3. T = {x \in Typed : x.unit = unit}
    OBVIOUS
  <2>4. session = found
    OBVIOUS
  <2> HIDE DEF type, unit, T, session
  <2>5. The(found) \in {x \in Typed : x.unit = unit \/ unit = {}}
    BY <1>3, <2>2, FindLimitFacts
  <2>6. The(found) \in T
    BY <2>1, <2>3, <2>5
  <2>7. found # {}
    <3>2. PICK x \in Typed : x.unit = unit
      BY <2>2
    <3> DEFINE exact == Among(given.limits, {y \in Typed : unit = {} \/ y.unit = unit})
               any == Among(given.limits, {y \in Typed : y.unit = {}})
               Z == ZaiLimit
    <3>3. found = IF exact \o any = <<>> THEN {} ELSE {(exact \o any)[1]}
      BY DEF FindLimit
    <3>4. given.limits \in Seq(Z)
      BY <1>3
    <3> HIDE DEF Z
    <3>5. exact \in Seq(Z) /\ any \in Seq(Z) /\ x \in ToSet(exact)
      BY <3>2, <3>4, AmongFacts
    <3> HIDE DEF exact, any, found
    <3>6. exact # <<>>
      BY <3>5, SomeInSeq
    <3>7. exact \o any # <<>>
      BY <3>5, <3>6, ConcatFacts
    <3> QED BY <3>3, <3>7
  <2> QED BY <2>4, <2>6, <2>7
<1> DEFINE lines == One(TRUE, a) \o One(weekly # {}, b) \o One(time # {}, c)
<1>5. r.lines = lines
  <2>1. r = Zai(given)
    BY ReportedIs DEF Result
  <2>2. Zai(given).lines = Opt(session, LAMBDA x : Percent("Session", OrElse(x.percent, 0)))
           \o Opt(weekly, LAMBDA x : Percent("Weekly", OrElse(x.percent, 0)))
           \o Opt(time, LAMBDA x : Line("Web Searches", "count", x.current, OrElse(x.usage, 0)))
    BY <1>4 DEF Zai, ReturnsBoth
  <2> HIDE DEF r
  <2> QED BY <1>4, <2>1, <2>2 DEF Opt, One
<1>6. a.label = "Session" /\ b.label # "Session" /\ c.label # "Session" /\ a.kind = "percent"
  BY DEF Percent, Line
<1>7. ErrorLine.label # "Session"
  BY DEF ErrorLine, Badge, Line
<1> HIDE DEF a, b, c
<1>8. ToSet(lines) \subseteq {a, b, c}
  <2> DEFINE x == weekly # {}
             y == time # {}
             z == TRUE
  <2>1. x \in BOOLEAN /\ y \in BOOLEAN /\ z \in BOOLEAN
    OBVIOUS
  <2>2. lines = One(z, a) \o One(x, b) \o One(y, c)
    OBVIOUS
  <2> HIDE DEF x, y, z, lines
  <2> QED BY <2>1, <2>2, ThreeOnes
<1> HIDE DEF lines, r
<1>9. r.lines \in Seq(LineType) /\ ~r.thrown
  BY <1>1, <1>2, FitLines DEF SoundReport, r
<1>10. ToSet(output.lines) \subseteq {ErrorLine} \cup UNION {ToSet(ParseLine(l)) : l \in ToSet(r.lines)}
  <2>1. output.lines = ParseLines(r.lines)
    BY <1>1, <1>9 DEF Output
  <2>2. CASE r.lines = <<>>
    BY <2>1, <2>2, ErrorParsed DEF ParseLines
  <2>3. CASE r.lines # <<>>
    BY <1>9, <2>1, <2>3, LinesParsed
  <2> QED BY <2>2, <2>3
<1>11. ASSUME NEW x \in Shown("Session")
       PROVE  x \in {a, ErrorLine}
  <2>1. x \in ToSet(output.lines) /\ x.label = "Session"
    BY DEF Shown
  <2>2. CASE x = ErrorLine
    BY <2>2
  <2>3. CASE x # ErrorLine
    <3>1. PICK l \in ToSet(r.lines) : x \in ToSet(ParseLine(l))
      BY <1>10, <2>1, <2>3
    <3>2. l \in LineType
      BY <1>9, SetOfSeq
    <3>3. x = [l EXCEPT !.points = x.points]
      BY <2>3, <3>1, <3>2, LineParsed
    <3>4. x.label = l.label
      <4>1. [l EXCEPT !.points = x.points].label = l.label
        BY <3>2 DEF LineType
      <4> QED BY <3>3, <4>1
    <3>5. l = a
      BY <1>5, <1>6, <1>8, <2>1, <3>4
    <3>6. ParseLine(l) = <<ErrorLine>> \/ ParseLine(l) = <<l>>
      BY <1>6, <3>5 DEF ParseLine
    <3>7. ToSet(<<ErrorLine>>) = {ErrorLine} /\ ToSet(<<l>>) = {l}
      BY DEF ToSet
    <3> QED BY <3>1, <3>5, <3>6, <3>7
  <2> QED BY <2>2, <2>3
<1> HIDE DEF T
<1> QED BY <1>4, <1>11 DEF a

LEMMA KimiBest ==
  ASSUME ReportInv, Done, ~Result.thrown, reporter = "kimi"
  PROVE  LET cs == CollectLimitCandidates(given.limits)
             Shorter(i, j) == cs[j].period # {} =>
                                cs[i].period # {} /\ The(cs[i].period) <= The(cs[j].period)
             Period(i) == OrElse(cs[i].period, -1)
             IsLine(label, i) ==
               Shown(label) = {Percent(label, Max({0, Share(The(cs[i].quota).used, The(cs[i].quota).limit)}))}
         IN cs # <<>> =>
              \E i \in DOMAIN cs :
                /\ IsLine("Session", i) /\ \A j \in DOMAIN cs : Shorter(i, j)
                /\ (ParseQuota(given.usage) = {} /\ Len(cs) > 1) =>
                     \E j \in DOMAIN cs \ {i} :
                       /\ cs[j].quota = cs[i].quota \/ IsLine("Weekly", j)
                       /\ \A k \in DOMAIN cs \ {i, j} : Period(k) <= Period(j)
<1> DEFINE cs == CollectLimitCandidates(given.limits)
           i == PickSession(cs)
           rest == DOMAIN cs \ {i}
           j == PickLargestByPeriod(cs, rest)
           session == IF cs = <<>> THEN {} ELSE cs[i].quota
           weekly == KimiWeekly(given.usage, cs) \ session
           Of(q) == Max({0, Share(q.used, q.limit)})
           c == session # {}
           d == weekly # {}
           a == Percent("Session", Of(The(session)))
           b == Percent("Weekly", Of(The(weekly)))
           lines == One(c, a) \o One(d, b)
<1>1. ToSet(output.lines) = ToSet(Result.lines) /\ given \in MayAnswer("kimi")
  BY AllShown
<1>2. /\ Kimi(given) = Returns(OrBadge(KimiLine("Session", session) \o KimiLine("Weekly", weekly)))
      /\ session \in Optional(KimiQuota) /\ weekly \in Optional(KimiQuota)
      /\ cs \in Seq(Candidate) /\ \A n \in 1 .. Len(cs) : cs[n] \in Candidate /\ cs[n].quota # {}
  BY <1>1, KimiReports
<1>3. Result.lines = OrBadge(lines)
  <2>1. Result = Kimi(given)
    BY ReportedIs DEF Result
  <2>2. KimiLine("Session", session) = One(c, a) /\ KimiLine("Weekly", weekly) = One(d, b)
    BY DEF KimiLine
  <2> HIDE DEF session, weekly, c, d, a, b, cs
  <2> QED BY <1>2, <2>1, <2>2 DEF Returns
<1>4. a.label = "Session" /\ b.label = "Weekly"
  BY DEF Percent, Line
<1>5. ToSet(lines) = (IF c THEN {a} ELSE {}) \cup (IF d THEN {b} ELSE {})
  <2>1. c \in BOOLEAN /\ d \in BOOLEAN
    OBVIOUS
  <2> HIDE DEF a, b, c, d
  <2> QED BY <2>1, TwoOnes
<1> HIDE DEF cs
<1> SUFFICES ASSUME cs # <<>>
             PROVE  /\ i \in DOMAIN cs
                    /\ Shown("Session") = {Percent("Session", Of(The(cs[i].quota)))}
                    /\ \A k \in DOMAIN cs : cs[k].period # {} =>
                         cs[i].period # {} /\ The(cs[i].period) <= The(cs[k].period)
                    /\ (ParseQuota(given.usage) = {} /\ Len(cs) > 1) =>
                         /\ j \in DOMAIN cs \ {i}
                         /\ \/ cs[j].quota = cs[i].quota
                            \/ Shown("Weekly") = {Percent("Weekly", Of(The(cs[j].quota)))}
                         /\ \A k \in DOMAIN cs \ {i, j} :
                              OrElse(cs[k].period, -1) <= OrElse(cs[j].period, -1)
  <2> HIDE DEF i, j, rest, session, weekly, c, d, a, b, lines
  <2> QED BY DEF cs
<1>6. DOMAIN cs = 1 .. Len(cs)
  BY <1>2, LenProperties
<1>7. /\ i \in DOMAIN cs
      /\ \A k \in DOMAIN cs : cs[k].period # {} =>
           cs[i].period # {} /\ The(cs[i].period) <= The(cs[k].period)
  BY <1>2, <1>6, PickSessionFacts
<1>8. session = cs[i].quota /\ c
  BY <1>2, <1>6, <1>7
<1>9. lines # <<>> /\ OrBadge(lines) = lines
  <2> HIDE DEF c, d, a, b, lines
  <2>1. ToSet(lines) # {}
    BY <1>5, <1>8
  <2>2. ToSet(<<>>) = {}
    BY DEF ToSet
  <2> QED BY <2>1, <2>2 DEF OrBadge
<1>10. ToSet(output.lines) = {a} \cup (IF d THEN {b} ELSE {})
  <2> HIDE DEF c, d, a, b, lines
  <2> QED BY <1>1, <1>3, <1>5, <1>8, <1>9
<1>11. Shown("Session") = {a} /\ Shown("Weekly") = IF d THEN {b} ELSE {}
  <2> HIDE DEF c, d, a, b, lines
  <2> QED BY <1>4, <1>10 DEF Shown
<1>12. a = Percent("Session", Of(The(cs[i].quota)))
  BY <1>8
<1>13. ASSUME ParseQuota(given.usage) = {}, Len(cs) > 1
       PROVE  /\ j \in DOMAIN cs \ {i}
              /\ \/ cs[j].quota = cs[i].quota
                 \/ Shown("Weekly") = {Percent("Weekly", Of(The(cs[j].quota)))}
              /\ \A k \in DOMAIN cs \ {i, j} :
                   OrElse(cs[k].period, -1) <= OrElse(cs[j].period, -1)
  <2>1. rest # {} /\ rest \in SUBSET (1 .. Len(cs))
    <3>1. Len(cs) \in Nat
      BY <1>2, LenProperties
    <3>2. 1 \in 1 .. Len(cs) /\ 2 \in 1 .. Len(cs)
      BY <1>13, <3>1
    <3> QED BY <1>6, <3>2
  <2>2. j \in rest /\ \A k \in rest : OrElse(cs[k].period, -1) <= OrElse(cs[j].period, -1)
    <3> HIDE DEF rest
    <3> QED BY <1>2, <2>1, PickLargestFacts
  <2>3. KimiWeekly(given.usage, cs) = cs[j].quota
    BY <1>13, <2>1 DEF KimiWeekly
  <2> HIDE DEF i, j
  <2>4. ASSUME cs[j].quota # cs[i].quota
        PROVE  Shown("Weekly") = {Percent("Weekly", Of(The(cs[j].quota)))}
    <3> DEFINE p == cs[i].quota
               q == cs[j].quota
               Q == KimiQuota
    <3>1. p \in Optional(Q) /\ q \in Optional(Q) /\ q # {} /\ p # q
      BY <1>2, <1>6, <1>7, <2>2, <2>4 DEF Candidate
    <3> HIDE DEF p, q, Q
    <3>2. q \ p = q
      BY <3>1 DEF Optional
    <3>3. weekly = q
      BY <1>8, <2>3, <3>2 DEF p, q
    <3>4. d /\ b = Percent("Weekly", Of(The(q)))
      BY <3>1, <3>3
    <3> QED BY <1>11, <3>4 DEF q
  <2> QED BY <2>2, <2>4
<1> HIDE DEF i, j, a
<1> QED BY <1>7, <1>11, <1>12, <1>13

(* Where several answers compete for one line, the one that matters most   *)
(* is shown, however many the provider gave and in whatever order:         *)
(* pickBestState, pickSession, the pools of antigravity, the plan items of *)
(* minimax and findLimit.                                                  *)
THEOREM BestIsShown == ReportSpec => []ShownIsBest
<1>1. ReportInv => ShownIsBest
  <2> SUFFICES ASSUME ReportInv, Done, ~Result.thrown
               PROVE  ShownIsBest
    BY DEF ShownIsBest
  <2>1. CASE reporter = "jetbrains"
    BY <2>1, JetbrainsBest DEF ShownIsBest
  <2>2. CASE reporter = "kimi"
    BY <2>2, KimiBest DEF ShownIsBest
  <2>3. CASE reporter = "antigravity"
    BY <2>3, AntigravityBest DEF ShownIsBest
  <2>4. CASE reporter = "minimax"
    BY <2>4, MinimaxBest DEF ShownIsBest
  <2>5. CASE reporter = "zai"
    BY <2>5, ZaiBest DEF ShownIsBest
  <2>6. CASE reporter \notin {"jetbrains", "kimi", "antigravity", "minimax", "zai"}
    BY <2>6 DEF ShownIsBest
  <2> QED BY <2>1, <2>2, <2>3, <2>4, <2>5, <2>6
<1> QED BY <1>1, ReportInvHolds, PTL

(***************************************************************************)
(* The calendar: the months follow one another without a gap, and every    *)
(* half day is in one of them.                                             *)
(***************************************************************************)
LEMMA MonthLengths ==
  ASSUME NEW m \in Nat
  PROVE  \E d \in Nat \ {0} : MonthLength(m) = 2 * d
<1> DEFINE L == Len(MonthDays)
           D == Nat \ {0}
<1>1. MonthDays \in Seq(D) /\ MonthDays # <<>>
  BY ReportAssumption
<1>2. L \in Nat /\ L > 0
  BY <1>1, EmptySeq
<1>3. (m % L) + 1 \in 1 .. L
  <2> HIDE DEF L
  <2> QED BY <1>2
<1> DEFINE k == (m % L) + 1
<1> HIDE DEF D
<1>4. MonthDays[k] \in D
  <2>1. k \in 1 .. Len(MonthDays)
    BY <1>3
  <2> HIDE DEF k
  <2> QED BY <1>1, <2>1, ElementOfSeq
<1>5. MonthLength(m) = 2 * MonthDays[k]
  BY DEF MonthLength
<1> HIDE DEF k
<1> QED BY <1>4, <1>5 DEF D

LEMMA MonthStarts ==
  /\ MonthStart[0] = 0
  /\ \A m \in Nat : /\ MonthStart[m] \in Nat
                    /\ MonthStart[m + 1] = MonthStart[m] + MonthLength(m)
<1> DEFINE T == Nat
           f == [x \in T \X Nat |-> x[1] + MonthLength(x[2])]
           F(g) == [m \in Nat |-> IF m = 0 THEN 0 ELSE g[m - 1] + MonthLength(m - 1)]
<1>1. \A m \in Nat : MonthLength(m) \in Nat /\ MonthLength(m) >= 2
  BY MonthLengths
<1>2. f \in [T \X Nat -> T] /\ 0 \in T
  BY <1>1
<1>3. \A a \in T, n \in Nat : f[<<a, n>>] = a + MonthLength(n)
  OBVIOUS
<1>4. PICK g \in [Nat -> T] : Recurs(g, 0, f)
  <2> DEFINE z == 0
  <2>1. z \in T
    OBVIOUS
  <2> HIDE DEF f, T, z
  <2>2. \E g \in [Nat -> T] : Recurs(g, z, f)
    BY <1>2, <2>1, Recursion
  <2> QED BY <2>2 DEF z
<1> HIDE DEF f
<1>5. g[0] = 0 /\ \A n \in Nat : g[n + 1] = g[n] + MonthLength(n)
  BY <1>3, <1>4 DEF Recurs
<1>6. \A m \in Nat : g[m] = IF m = 0 THEN 0 ELSE g[m - 1] + MonthLength(m - 1)
  <2> SUFFICES ASSUME NEW m \in Nat, m # 0
               PROVE  g[m] = g[m - 1] + MonthLength(m - 1)
    BY <1>5
  <2>1. m - 1 \in Nat /\ (m - 1) + 1 = m
    OBVIOUS
  <2> QED BY <1>5, <2>1
<1>7. g = F(g)
  BY <1>6
<1>8. MonthStart = CHOOSE h : h = F(h)
  BY DEF MonthStart
<1>9. MonthStart = F(MonthStart)
  <2> HIDE DEF F
  <2> QED BY <1>7, <1>8
<1>10. MonthStart[0] = 0 /\ \A m \in Nat : MonthStart[m + 1] = MonthStart[m] + MonthLength(m)
  <2>1. \A m \in Nat : MonthStart[m] = IF m = 0 THEN 0 ELSE MonthStart[m - 1] + MonthLength(m - 1)
    BY <1>9
  <2>2. ASSUME NEW m \in Nat
        PROVE  MonthStart[m + 1] = MonthStart[m] + MonthLength(m)
    <3>1. m + 1 \in Nat /\ m + 1 # 0 /\ (m + 1) - 1 = m
      OBVIOUS
    <3> QED BY <2>1, <3>1
  <2> QED BY <2>1, <2>2
<1> DEFINE S == {m \in Nat : MonthStart[m] \in Nat}
<1>11. 0 \in S
  BY <1>10
<1>12. \A n \in Nat : n \in S => n + 1 \in S
  BY <1>1, <1>10
<1>13. Nat \subseteq S
  <2> HIDE DEF S
  <2> QED BY <1>11, <1>12, Induction
<1> QED BY <1>10, <1>13

LEMMA MonthOrder ==
  ASSUME NEW i \in Nat, NEW j \in Nat, i <= j
  PROVE  MonthStart[i] <= MonthStart[j] /\ MonthStart[j] >= j
<1>1. \A m \in Nat : MonthLength(m) \in Nat /\ MonthLength(m) >= 2
  BY MonthLengths
<1> DEFINE S == {n \in Nat : MonthStart[i] <= MonthStart[i + n]}
           R == {n \in Nat : MonthStart[n] >= n}
<1>2. 0 \in S /\ \A n \in Nat : n \in S => n + 1 \in S
  <2>1. 0 \in S
    BY MonthStarts
  <2>2. ASSUME NEW n \in Nat, n \in S
        PROVE  n + 1 \in S
    <3>1. i + n \in Nat /\ (i + n) + 1 = i + (n + 1)
      OBVIOUS
    <3> QED BY <1>1, <2>2, <3>1, MonthStarts
  <2> QED BY <2>1, <2>2
<1>3. 0 \in R /\ \A n \in Nat : n \in R => n + 1 \in R
  BY <1>1, MonthStarts
<1>4. Nat \subseteq S /\ Nat \subseteq R
  <2> HIDE DEF S, R
  <2> QED BY <1>2, <1>3, Induction
<1>5. j - i \in Nat /\ i + (j - i) = j
  OBVIOUS
<1> QED BY <1>4, <1>5

(* Each moment lies in one month.                                          *)
LEMMA MonthOfFacts ==
  ASSUME NEW t \in Nat
  PROVE  /\ MonthOf(t) \in Nat
         /\ MonthStart[MonthOf(t)] <= t /\ t < MonthStart[MonthOf(t) + 1]
         /\ \A m \in Nat : MonthStart[m] <= t /\ t < MonthStart[m + 1] => MonthOf(t) = m
<1> DEFINE T == {m \in Nat : t < MonthStart[m + 1]}
<1>1. t \in T
  <2>1. t + 1 \in Nat
    OBVIOUS
  <2>2. MonthStart[t + 1] >= t + 1 /\ MonthStart[t + 1] \in Nat
    BY <2>1, MonthOrder, MonthStarts
  <2> QED BY <2>2
<1>2. PICK k \in T : \A m \in T : k <= m
  <2>1. T \subseteq Nat /\ T # {}
    BY <1>1
  <2> HIDE DEF T
  <2> QED BY <2>1, LeastNatural
<1>3. MonthStart[k] <= t
  <2>1. CASE k = 0
    BY <2>1, MonthStarts
  <2>2. CASE k # 0
    <3>1. k - 1 \in Nat /\ (k - 1) + 1 = k /\ ~(k <= k - 1)
      BY <2>2
    <3>2. k - 1 \notin T
      BY <1>2, <3>1
    <3>3. MonthStart[k] \in Nat
      BY MonthStarts
    <3> QED BY <3>1, <3>2, <3>3
  <2> QED BY <2>1, <2>2
<1>4. k \in 0 .. t
  BY <1>1, <1>2
<1> DEFINE m0 == MonthOf(t)
<1>5. m0 \in 0 .. t /\ MonthStart[m0] <= t /\ t < MonthStart[m0 + 1]
  BY <1>2, <1>3, <1>4 DEF MonthOf
<1>6. ASSUME NEW m \in Nat, MonthStart[m] <= t, t < MonthStart[m + 1]
      PROVE  m0 = m
  <2>1. m0 \in Nat
    BY <1>5
  <2> HIDE DEF m0
  <2>2. /\ MonthStart[m] \in Nat /\ MonthStart[m + 1] \in Nat
        /\ MonthStart[m0] \in Nat /\ MonthStart[m0 + 1] \in Nat
    BY <2>1, MonthStarts
  <2>3. ~(m0 + 1 <= m)
    <3>1. m0 + 1 <= m => MonthStart[m0 + 1] <= MonthStart[m]
      BY <2>1, MonthOrder
    <3> QED BY <1>5, <1>6, <2>2, <3>1
  <2>4. ~(m + 1 <= m0)
    <3>1. m + 1 <= m0 => MonthStart[m + 1] <= MonthStart[m0]
      BY <2>1, MonthOrder
    <3> QED BY <1>5, <1>6, <2>2, <3>1
  <2> QED BY <2>1, <2>3, <2>4
<1> QED BY <1>5, <1>6

(***************************************************************************)
(* opencode-go's windows: the anchor's day stays in its month, so the      *)
(* anchored months follow one another as those of the calendar do.         *)
(***************************************************************************)
LEMMA AnchorFacts ==
  ASSUME NEW m \in Nat, NEW a \in Nat
  PROVE  /\ AnchorMonth(m, a) \in Nat
         /\ MonthStart[m] <= AnchorMonth(m, a) /\ AnchorMonth(m, a) < MonthStart[m + 1]
<1> DEFINE s == MonthStart[m]
           into == a - MonthStart[MonthOf(a)]
           last == MonthLength(m) \div 2 - 1
           k == Clamp(into \div 2, 0, last)
<1>1. AnchorMonth(m, a) = s + (2 * k) + (into % 2)
  BY DEF AnchorMonth
<1>2. s \in Nat /\ MonthStart[m + 1] = s + MonthLength(m)
  BY MonthStarts
<1>3. PICK d \in Nat \ {0} : MonthLength(m) = 2 * d
  BY MonthLengths
<1>4. last = d - 1
  BY <1>3
<1>5. into \in Nat
  <2>1. MonthOf(a) \in Nat /\ MonthStart[MonthOf(a)] <= a
    BY MonthOfFacts
  <2>2. MonthStart[MonthOf(a)] \in Nat
    BY <2>1, MonthStarts
  <2> QED BY <2>1, <2>2
<1> HIDE DEF s, into, last
<1>6. into \div 2 \in Nat /\ into % 2 \in {0, 1}
  BY <1>5
<1>7. k \in Nat /\ k <= d - 1
  <2> DEFINE h == into \div 2
  <2> HIDE DEF h
  <2> QED BY <1>4, <1>6 DEF Clamp, h
<1> HIDE DEF k
<1> QED BY <1>1, <1>2, <1>3, <1>6, <1>7 DEF s

(* The anchored month around the present contains it, and the next begins  *)
(* at its end.                                                             *)
LEMMA BoundsFacts ==
  ASSUME NEW now \in Nat, now >= MonthLength(0),
         NEW anchor, anchor = {} \/ (\E a \in Nat : anchor = {a})
  PROVE  LET month == AnchoredMonthBounds(now, anchor)
         IN /\ month[1] <= now /\ now < month[2]
            /\ AnchoredMonthBounds(month[2], anchor)[1] = month[2]
<1> DEFINE m == MonthOf(now)
<1>1. m \in Nat /\ MonthStart[m] <= now /\ now < MonthStart[m + 1]
  BY MonthOfFacts
<1>2. m - 1 \in Nat
  <2>1. MonthStart[0 + 1] = MonthStart[0] + MonthLength(0) /\ MonthStart[0] = 0
    BY MonthStarts
  <2>2. MonthStart[1] = MonthLength(0)
    <3>1. MonthLength(0) \in Nat
      BY MonthLengths
    <3> QED BY <2>1, <3>1
  <2>3. m # 0
    BY <1>1, <2>2, MonthStarts
  <2> QED BY <1>1, <2>3
<1> HIDE DEF m
<1>3. CASE anchor = {}
  <2> DEFINE e == MonthStart[m + 1]
  <2>1. AnchoredMonthBounds(now, anchor) = <<MonthStart[m], e>>
    BY <1>3 DEF AnchoredMonthBounds, m
  <2>2. m + 1 \in Nat /\ e \in Nat
    BY <1>1, MonthStarts
  <2>3. e < MonthStart[(m + 1) + 1]
    BY <2>2, MonthStarts, MonthLengths
  <2>4. MonthOf(e) = m + 1
    BY <2>2, <2>3, MonthOfFacts
  <2>5. AnchoredMonthBounds(e, anchor)[1] = MonthStart[MonthOf(e)]
    BY <1>3 DEF AnchoredMonthBounds
  <2> QED BY <1>1, <2>1, <2>4, <2>5
<1>4. ASSUME NEW a \in Nat, anchor = {a}
      PROVE  LET month == AnchoredMonthBounds(now, anchor)
             IN /\ month[1] <= now /\ now < month[2]
                /\ AnchoredMonthBounds(month[2], anchor)[1] = month[2]
  <2> DEFINE A(n) == AnchorMonth(n, a)
             f == IF A(m) > now THEN m - 1 ELSE m
  <2>1. The(anchor) = a /\ anchor # {}
    BY <1>4 DEF The
  <2>2. \A t : AnchoredMonthBounds(t, anchor)
               = LET f2 == IF A(MonthOf(t)) > t THEN MonthOf(t) - 1 ELSE MonthOf(t)
                 IN <<A(f2), A(f2 + 1)>>
    BY <2>1 DEF AnchoredMonthBounds
  <2>3. AnchoredMonthBounds(now, anchor) = <<A(f), A(f + 1)>>
    BY <2>2 DEF m
  <2>4. \A n \in Nat : A(n) \in Nat /\ MonthStart[n] <= A(n) /\ A(n) < MonthStart[n + 1]
    BY AnchorFacts
  <2>5. f \in Nat /\ A(f) <= now /\ now < A(f + 1)
    <3>1. CASE A(m) > now
      <4>1. f = m - 1 /\ f + 1 = m /\ A(f) < MonthStart[m]
        BY <1>1, <1>2, <2>4, <3>1
      <4>2. A(f) \in Nat /\ MonthStart[m] \in Nat
        BY <1>1, <1>2, <2>4, <4>1, MonthStarts
      <4> HIDE DEF f, A
      <4> QED BY <1>1, <1>2, <3>1, <4>1, <4>2
    <3>2. CASE ~(A(m) > now)
      <4>1. f = m /\ m + 1 \in Nat /\ A(m) \in Nat
        BY <1>1, <2>4, <3>2
      <4>2. MonthStart[m + 1] <= A(m + 1) /\ A(m + 1) \in Nat /\ MonthStart[m + 1] \in Nat
        BY <2>4, <4>1, MonthStarts
      <4> HIDE DEF f, A
      <4> QED BY <1>1, <3>2, <4>1, <4>2
    <3> QED BY <3>1, <3>2
  <2> DEFINE e == A(f + 1)
  <2> HIDE DEF f, A
  <2>6. f + 1 \in Nat /\ e \in Nat /\ MonthStart[f + 1] <= e /\ e < MonthStart[(f + 1) + 1]
    BY <2>4, <2>5
  <2>7. MonthOf(e) = f + 1
    <3> HIDE DEF e
    <3> QED BY <2>6, MonthOfFacts
  <2>8. ~(A(MonthOf(e)) > e)
    BY <2>6, <2>7
  <2>9. AnchoredMonthBounds(e, anchor)[1] = e
    BY <2>2, <2>7, <2>8
  <2> QED BY <2>3, <2>5, <2>9
<1> QED BY <1>3, <1>4

(* The earliest moment of some rows is one of theirs.                      *)
LEMMA EarliestFacts ==
  ASSUME NEW rows \in Seq(CostRow)
  PROVE  \/ rows = <<>> /\ Earliest(rows) = {}
         \/ \E r \in ToSet(rows) : Earliest(rows) = {r.at}
<1> DEFINE s == [i \in DOMAIN rows |-> rows[i].at]
           I == Int
<1>1. CASE rows = <<>>
  BY <1>1 DEF Earliest
<1>2. CASE rows # <<>>
  <2>1. DOMAIN rows = 1 .. Len(rows) /\ \A i \in 1 .. Len(rows) : rows[i] \in CostRow
    BY LenProperties, ElementOfSeq
  <2>2. Mapped(s, rows) /\ \A i \in 1 .. Len(rows) : s[i] \in I
    BY <2>1 DEF Mapped, CostRow
  <2>3. {s[i] : i \in 1 .. Len(rows)} = {rows[i].at : i \in DOMAIN rows}
    BY <2>1
  <2> HIDE DEF s, I
  <2>4. s \in Seq(I) /\ s # <<>> /\ ToSet(s) = {s[i] : i \in 1 .. Len(rows)}
    BY <1>2, <2>2, MappedFacts
  <2>5. Min(ToSet(s)) \in ToSet(s)
    BY <2>4, MinOfSeq DEF I
  <2>6. Earliest(rows) = {Min(ToSet(s))}
    BY <1>2, <2>3, <2>4 DEF Earliest
  <2>7. PICK i \in DOMAIN rows : Min(ToSet(s)) = rows[i].at
    BY <2>3, <2>4, <2>5
  <2>8. rows[i] \in ToSet(rows)
    BY DEF ToSet
  <2> QED BY <2>6, <2>7, <2>8
<1> QED BY <1>1, <1>2

(* The reset of the session is ahead, no further than its length.          *)
LEMMA RollingFacts ==
  ASSUME NEW rows \in Seq(CostRow), NEW now \in Nat
  PROVE  LET reset == NextRollingReset(rows, now)
         IN reset > now - 1 /\ reset <= now + SessionSpan
<1> DEFINE some == Within(rows, now - 1, now)
           oldest == Earliest(some)
<1>1. SessionSpan = 1
  BY DEF SessionSpan
<1>2. some \in Seq(CostRow) /\ ToSet(some) = {r \in ToSet(rows) : r.at >= now - 1 /\ r.at < now}
  BY RangeFacts
<1>3. ToSet(rows) \subseteq CostRow
  BY SetOfSeq
<1>4. \A r \in ToSet(some) : r.at = now - 1
  <2> SUFFICES ASSUME NEW r \in ToSet(some)
               PROVE  r.at = now - 1
    OBVIOUS
  <2>1. r.at \in Int /\ r.at >= now - 1 /\ r.at < now
    BY <1>2, <1>3 DEF CostRow
  <2> DEFINE t == r.at
  <2> HIDE DEF t
  <2>2. t \in Int /\ t >= now - 1 /\ t < now => t = now - 1
    OBVIOUS
  <2> QED BY <2>1, <2>2 DEF t
<1> HIDE DEF some
<1>5. oldest = {} \/ oldest = {now - 1}
  BY <1>2, <1>4, EarliestFacts
<1>6. NextRollingReset(rows, now) = OrElse(oldest, now) + 1
  BY <1>1 DEF NextRollingReset, some
<1> HIDE DEF oldest
<1>7. CASE oldest = {}
  <2>1. NextRollingReset(rows, now) = now + 1
    BY <1>6, <1>7 DEF OrElse
  <2> QED BY <1>1, <2>1
<1>8. CASE oldest = {now - 1}
  <2>1. NextRollingReset(rows, now) = now
    BY <1>6, <1>8 DEF OrElse, The
  <2> QED BY <1>1, <2>1
<1> QED BY <1>5, <1>7, <1>8

(* The windows of opencode-go's costs are right for every calendar and     *)
(* every history: readNowMs, anchoredMonthBounds and nextRollingReset of   *)
(* its plugin.js never lose the present, nor leave a gap between months.   *)
THEOREM WindowsAlwaysHold == ReportSpec => []WindowsHold
<1>1. ReportInv => WindowsHold
  <2> SUFFICES ASSUME ReportInv, reporter = "opencode-go"
               PROVE  WindowsHold
    BY DEF WindowsHold
  <2> DEFINE rows == LoadHistory(given.rows)
             now == given.now
             anchor == Earliest(rows)
  <2>1. given \in MayAnswer("opencode-go")
    BY ReportAssumption DEF ReportInv
  <2>2. given.rows \in Seq(CostRow) /\ now \in Nat /\ now >= MonthLength(0)
    BY <2>1 DEF MayAnswer, CostRow
  <2>3. rows \in Seq(CostRow) /\ \A r \in ToSet(rows) : r \in CostRow /\ r.at > 0
    BY <2>2, HistoryFacts
  <2> HIDE DEF rows, now
  <2>4. anchor = {} \/ (\E a \in Nat : anchor = {a})
    <3>1. \A r \in ToSet(rows) : r.at \in Nat
      BY <2>3 DEF CostRow
    <3> QED BY <2>3, <3>1, EarliestFacts
  <2> HIDE DEF anchor
  <2>5. LET month == AnchoredMonthBounds(now, anchor)
        IN /\ month[1] <= now /\ now < month[2]
           /\ AnchoredMonthBounds(month[2], anchor)[1] = month[2]
    BY <2>2, <2>4, BoundsFacts
  <2>6. LET reset == NextRollingReset(rows, now)
        IN reset > now - 1 /\ reset <= now + SessionSpan
    BY <2>2, <2>3, RollingFacts
  <2> QED BY <2>5, <2>6 DEF WindowsHold, anchor, rows, now
<1> QED BY <1>1, ReportInvHolds, PTL

(***************************************************************************)
(* The plugins together.                                                   *)
(***************************************************************************)
LEMMA IdleParts ==
  /\ NoSession => OAuthInit
  /\ NoKey => KeyInit
  /\ NoReport => ReportInit
<1>1. NoSession => OAuthInit
  <2> SUFFICES ASSUME NoSession PROVE OAuthInit
    OBVIOUS
  <2>1. plugin \in OPlugins /\ StoresOf(plugin) = {"file"}
    BY IdleAssumption, StoresAre DEF NoSession
  <2>2. Absent \in FirstCreds
    BY DEF FirstCreds
  <2> QED BY <2>1, <2>2 DEF NoSession, OAuthInit
<1>2. NoKey => KeyInit
  <2> SUFFICES ASSUME NoKey PROVE KeyInit
    OBVIOUS
  <2>1. keyPlugin \in KPlugins /\ Places(keyPlugin) = {"zai", "glm"}
    BY IdleAssumption, PlacesAre DEF NoKey
  <2> QED BY <2>1 DEF NoKey, KeyInit
<1>3. NoReport => ReportInit
  BY IdleAssumption DEF NoReport, ReportInit
<1> QED BY <1>1, <1>2, <1>3

(* Whatever part of the plugins a behaviour follows, the sessions and the  *)
(* keys keep the invariants their properties rest on, and what is shown    *)
(* keeps its type: the plugins' runtimes share no state.                   *)
THEOREM PluginsInvariant == PluginsSpec => []PluginsIInv
<1> DEFINE Inv == OAuthIInv /\ KeyIInv /\ ReportInv
<1>1. PluginsInit => Inv
  <2>1. PluginsInit => OAuthInit /\ KeyInit /\ ReportInit
    BY IdleParts DEF PluginsInit
  <2>2. ReportInit => ReportInv
    BY DEF ReportInit, ReportInv
  <2> QED BY <2>1, <2>2, InitSound, KeysAtStart
<1>2. Inv /\ [PluginsNext]_<<part, oauthVars, keyVars, reportVars>> => Inv'
  <2> SUFFICES ASSUME Inv, [PluginsNext]_<<part, oauthVars, keyVars, reportVars>>
               PROVE  Inv'
    OBVIOUS
  <2>1. [OAuthNext]_oauthVars /\ [KeyNext]_keyVars /\ [Report]_reportVars
    BY DEF PluginsNext
  <2>2. OAuthIInv'
    BY <2>1, StepKeeps
  <2>3. KeyIInv'
    BY <2>1, KeyStepKeeps
  <2>4. ReportInv'
    BY <2>1, ReportStep
  <2> QED BY <2>2, <2>3, <2>4
<1>3. Inv => PluginsIInv
  BY ReportTyped DEF PluginsIInv
<1> QED BY <1>1, <1>2, <1>3, PTL DEF PluginsSpec
=============================================================================
