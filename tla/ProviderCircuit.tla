--------------------------- MODULE ProviderCircuit ---------------------------
(***************************************************************************)
(* The process-local circuit breaker of src/app/resilience.py, with the two*)
(* callers that share it, one logical call at a time per caller:           *)
(*                                                                         *)
(*   OpenAICompatibleLLM.complete   src/app/generation/llm.py              *)
(*   GitHubApiClient.get_json       src/app/ingestion/github_client.py     *)
(*                                                                         *)
(* A call asks before_call once, makes up to MaxAttempts requests, and     *)
(* reports once or, in JSON mode, several times.  The breaker's lock makes *)
(* each of its methods one step; between them a call awaits the network.   *)
(*                                                                         *)
(* Time is modelled by what the code reads of it: `remaining` is how far   *)
(* _open_until lies ahead of the clock.  `failures` stops counting at the  *)
(* threshold, beyond which no test tells two counts apart.                 *)
(***************************************************************************)
EXTENDS Naturals

CONSTANTS
  Calls,            \* concurrent callers in the process
  Threshold,        \* failure_threshold
  Cooldown,         \* cooldown_seconds, in ticks
  MaxAttempts,      \* max_attempts
  JsonMode,         \* the LLM client's json_mode
  ProbesMayVanish,  \* a half-open probe may end without reporting
  Closed            \* _open_until is None

ASSUME LimitAssumption ==
  /\ Threshold \in Nat \ {0}
  /\ Cooldown \in Nat \ {0}
  /\ MaxAttempts \in Nat \ {0}

ASSUME SwitchAssumption ==
  /\ JsonMode \in BOOLEAN
  /\ ProbesMayVanish \in BOOLEAN
  /\ Closed \notin Nat

VARIABLES
  failures,     \* _failures
  remaining,    \* _open_until: Closed, or ticks until then (0: passed)
  probeFlag,    \* _probe_in_flight
  place,        \* each caller: idle, or admitted as a regular call or a probe
  attempt,      \* its current attempt
  up,           \* the provider is available
  sinceProbe    \* ticks since a probe was last admitted, up to Cooldown

breaker == <<failures, remaining, probeFlag>>
vars    == <<breaker, place, attempt, up, sinceProbe>>

Places == {"idle", "regular", "probe"}

TypeOK ==
  /\ failures \in 0 .. Threshold
  /\ remaining \in 0 .. Cooldown \cup {Closed}
  /\ probeFlag \in BOOLEAN
  /\ place \in [Calls -> Places]
  /\ attempt \in [Calls -> 1 .. MaxAttempts]
  /\ up \in BOOLEAN
  /\ sinceProbe \in 0 .. Cooldown

Init ==
  /\ failures = 0
  /\ remaining = Closed
  /\ probeFlag = FALSE
  /\ place = [c \in Calls |-> "idle"]
  /\ attempt = [c \in Calls |-> 1]
  /\ up = TRUE
  /\ sinceProbe = Cooldown

Enter(c, role) ==
  /\ place' = [place EXCEPT ![c] = role]
  /\ attempt' = [attempt EXCEPT ![c] = 1]

-----------------------------------------------------------------------------
(* The provider and the clock: external                                    *)

ProviderChanges == up' = ~up /\ UNCHANGED <<breaker, place, attempt, sinceProbe>>

Tick ==
  /\ remaining' = IF remaining \in 1 .. Cooldown THEN remaining - 1 ELSE remaining
  /\ sinceProbe' = IF sinceProbe < Cooldown THEN sinceProbe + 1 ELSE sinceProbe
  /\ UNCHANGED <<failures, probeFlag, place, attempt, up>>

-----------------------------------------------------------------------------
(* before_call                                                             *)

\* A closed circuit admits; nothing is counted.
AdmitRegular(c) ==
  /\ place[c] = "idle"
  /\ remaining = Closed
  /\ Enter(c, "regular")
  /\ UNCHANGED <<breaker, up, sinceProbe>>

\* After the cooldown the first caller becomes the probe.  Everyone else is
\* rejected with CircuitOpenError, which changes nothing.
AdmitProbe(c) ==
  /\ place[c] = "idle"
  /\ remaining = 0
  /\ ~probeFlag
  /\ probeFlag' = TRUE
  /\ sinceProbe' = 0
  /\ Enter(c, "probe")
  /\ UNCHANGED <<failures, remaining, up>>

-----------------------------------------------------------------------------
(* record_success, record_transient_failure                                *)

RecordSuccess ==
  /\ failures' = 0
  /\ remaining' = Closed
  /\ probeFlag' = FALSE

\* Mutants of RecordTransientFailure: an off-by-one threshold; an open circuit
\* keeps its deadline; the probe flag is not given back.
BugOpensLate ==
  /\ failures' = IF failures < Threshold THEN failures + 1 ELSE failures
  /\ remaining' = IF probeFlag \/ failures >= Threshold THEN Cooldown ELSE remaining
  /\ probeFlag' = FALSE

BugKeepsDeadline ==
  /\ failures' = IF failures < Threshold THEN failures + 1 ELSE failures
  /\ remaining' = IF remaining = Closed /\ failures' >= Threshold
                    THEN Cooldown ELSE remaining
  /\ probeFlag' = FALSE

BugKeepsProbe ==
  /\ failures' = IF failures < Threshold THEN failures + 1 ELSE failures
  /\ remaining' = IF probeFlag \/ failures' >= Threshold THEN Cooldown ELSE remaining
  /\ UNCHANGED probeFlag

RecordTransientFailure ==
  /\ failures' = IF failures < Threshold THEN failures + 1 ELSE failures
  /\ remaining' = IF probeFlag \/ failures' >= Threshold THEN Cooldown ELSE remaining
  /\ probeFlag' = FALSE

-----------------------------------------------------------------------------
(* The attempts of a call                                                  *)

\* A transport error or retryable status, with attempts left.
RetryTransient(c) ==
  /\ place[c] # "idle"
  /\ ~up
  /\ attempt[c] < MaxAttempts
  /\ attempt' = [attempt EXCEPT ![c] = @ + 1]
  /\ UNCHANGED <<breaker, place, up, sinceProbe>>

\* The last attempt failed: the logical call counts as one failure.
FailTransient(c) ==
  /\ place[c] # "idle"
  /\ ~up
  /\ attempt[c] = MaxAttempts
  /\ RecordTransientFailure
  /\ Enter(c, "idle")
  /\ UNCHANGED <<up, sinceProbe>>

\* The provider answered: a client error and an unusable payload count as
\* success too, the provider being there.
Answer(c) ==
  /\ place[c] # "idle"
  /\ up
  /\ RecordSuccess
  /\ Enter(c, "idle")
  /\ UNCHANGED <<up, sinceProbe>>

\* JSON mode: a truncated or invalid answer has been reported as a success
\* when the same call tries again, no longer as anybody's probe.
RetryJson(c) ==
  /\ JsonMode
  /\ place[c] # "idle"
  /\ up
  /\ attempt[c] < MaxAttempts
  /\ RecordSuccess
  /\ attempt' = [attempt EXCEPT ![c] = @ + 1]
  /\ place' = [place EXCEPT ![c] = "regular"]
  /\ UNCHANGED <<up, sinceProbe>>

\* The call ends and reports nothing: cancelled (asyncio.run cancels what
\* gather left running, Dramatiq interrupts at its time limit), or an httpx
\* error that is no TransportError.
Vanish(c) ==
  /\ place[c] # "idle"
  /\ place[c] = "probe" => ProbesMayVanish
  /\ Enter(c, "idle")
  /\ UNCHANGED <<breaker, up, sinceProbe>>

Attempt(c) == RetryTransient(c) \/ FailTransient(c) \/ Answer(c) \/ RetryJson(c)

Next ==
  \/ ProviderChanges
  \/ Tick
  \/ \E c \in Calls : AdmitRegular(c) \/ AdmitProbe(c) \/ Attempt(c) \/ Vanish(c)

\* The clock advances, and httpx's timeouts and the bounded backoff end every
\* attempt.  Nobody is obliged to make calls.
Fairness == WF_vars(Tick) /\ \A c \in Calls : WF_vars(Attempt(c))

Spec == Init /\ [][Next]_vars /\ Fairness

-----------------------------------------------------------------------------
(* Properties                                                              *)

\* The circuit is open exactly when the failures reported since the last
\* success reach the threshold, whatever late results arrive while it is
\* open, and only an open circuit has a probe in flight.
ThresholdDecides ==
  /\ remaining # Closed <=> failures >= Threshold
  /\ probeFlag => remaining = 0

\* The provider under outage sees probes at least one cooldown apart, however
\* many calls admitted earlier report late: a probe comes early only if a
\* success has closed the circuit since the previous one.
ProbesSpaced ==
  remaining # Closed /\ ~probeFlag => remaining + sinceProbe >= Cooldown

\* The circuit can be used: it is closed, or the next caller will probe.
Admits == remaining = Closed \/ (remaining = 0 /\ ~probeFlag)

\* docs/provider-resilience.md: "half-open single probe -> success -> closed,
\* -> transient failure -> open".  Once the provider is back for good, the
\* circuit does not go on rejecting calls.
Recovers == <>[]up => <>[]Admits
=============================================================================
