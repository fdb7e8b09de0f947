--------------------------- MODULE ClaudeThrottle --------------------------
(***************************************************************************)
(* How often the claude plugin asks for the usage (plugins/claude):  it    *)
(* keeps the time of its last request, the end of a backoff the provider   *)
(* asked for, and the last answer in three variables of its script, and    *)
(* the runtime evaluates the script anew in a runtime of its own for every *)
(* probe (plugin_engine/runtime.rs).  Times are minutes; what a request    *)
(* does besides is in OAuthProbe.                                          *)
(***************************************************************************)
EXTENDS Naturals

CONSTANTS MinInterval,    \* MIN_USAGE_FETCH_INTERVAL_MS and the default backoff, positive
          RetryAfters,    \* the delays a 429 may name
          Horizon         \* bound: the last minute looked at

VARIABLES now,
          scope,   \* the variables of the script: backoff end, last request, last answer
          asked,   \* the request before the latest and the latest, 0 for none
          backoff, \* the end of the backoff in force before the latest request, 0 for none
          told,    \* what the provider answered to the latest request: the end of its backoff
          shown    \* what the latest probe shows
throttleVars == <<now, scope, asked, backoff, told, shown>>

FreshScope == [rateLimitedUntil |-> 0, lastUsageFetch |-> 0, cached |-> FALSE]
ThrottleInit ==
  /\ now = MinInterval /\ scope = FreshScope /\ asked = [before |-> 0, latest |-> 0]
  /\ backoff = 0 /\ told = 0 /\ shown = "nothing"

(* The script is evaluated in a new runtime: nothing of an earlier probe   *)
(* is left.                                                                *)
Evaluated == FreshScope

FromCache(s) == IF s.cached THEN "cached" ELSE "nothing"
RateLimited(s) == now < s.rateLimitedUntil
TooRecent(s) == s.rateLimitedUntil = 0 /\ now < s.lastUsageFetch + MinInterval

(* A 429 names a delay, or MinInterval stands in for it.                   *)
ParseRetryAfterSeconds == RetryAfters \cup {MinInterval}

Fetch(s) ==
  /\ asked' = [before |-> asked.latest, latest |-> now] /\ backoff' = told
  /\ LET at == [s EXCEPT !.lastUsageFetch = now, !.rateLimitedUntil = 0] IN
     \/ \E d \in ParseRetryAfterSeconds :
          /\ scope' = [at EXCEPT !.rateLimitedUntil = now + d]
          /\ told' = now + d /\ shown' = FromCache(s)
     \/ scope' = [at EXCEPT !.cached = TRUE] /\ told' = 0 /\ shown' = "live"
     \/ scope' = at /\ told' = 0 /\ shown' = "error"

Probe ==
  LET s == Evaluated IN
  /\ IF RateLimited(s) \/ TooRecent(s)
     THEN scope' = s /\ shown' = FromCache(s) /\ UNCHANGED <<asked, backoff, told>>
     ELSE Fetch(s)
  /\ UNCHANGED now

Minute == now < Horizon /\ now' = now + 1 /\ UNCHANGED <<scope, asked, backoff, told, shown>>
ThrottleSpec == ThrottleInit /\ [][Probe \/ Minute]_throttleVars
-----------------------------------------------------------------------------
(* plugins/claude/plugin.js:14, "never poll more than once per 5 min", and *)
(* its test at 1914, "does not call API again while rate-limit window is   *)
(* active": a request follows the one before by the interval at least, or  *)
(* by the delay the provider named.                                        *)
PolledSparingly ==
  asked.before # 0 =>
    IF backoff # 0 THEN asked.latest >= backoff
    ELSE asked.latest >= asked.before + MinInterval
=============================================================================
