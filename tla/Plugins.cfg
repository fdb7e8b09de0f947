CONSTANTS
  OPlugins <- AllOAuth
  Probers = {p1, p2}
  MaxIssue = 3
  KPlugins <- AllKeys
  KProbers = {p1, p2}
  RPlugins <- AllReports
  Given <- SmallAnswers
  ChartDays = 2
  MonthDays <- Calendar
  MaxBarChartPoints = 3
SPECIFICATION PluginsSpec
INVARIANTS PluginsIInv RefreshTokenKept ErrorTellsTruth
  GoodNotMasked AskedOnce OutageChangesNothing LoginMeansRefused
  NoRefusedLine ShownIsBest WindowsHold MetricsComplete TotalsAgree
SYMMETRY Symmetry
CHECK_DEADLOCK FALSE
