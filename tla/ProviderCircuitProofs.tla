------------------------ MODULE ProviderCircuitProofs ------------------------
(***************************************************************************)
(* The circuit breaker's safety properties, for any number of callers and  *)
(* any threshold, cooldown and attempt limit.                              *)
(*                                                                         *)
(* The three invariants hold together: that a late failure reopens the     *)
(* circuit for a whole cooldown (ProbesSpaced) rests on the failure count  *)
(* of an open circuit never being below the threshold (ThresholdDecides).  *)
(***************************************************************************)
EXTENDS ProviderCircuit, TLAPS

IInv == TypeOK /\ ThresholdDecides /\ ProbesSpaced

\* Entering or leaving a call keeps the callers' variables in their types.
LEMMA EnterTyped ==
  ASSUME NEW c \in Calls, NEW role \in Places, TypeOK, Enter(c, role)
  PROVE  /\ place' \in [Calls -> Places]
         /\ attempt' \in [Calls -> 1 .. MaxAttempts]
BY LimitAssumption DEF TypeOK, Enter

\* A success closes the circuit, whatever state it finds it in.
LEMMA SuccessCloses ==
  ASSUME RecordSuccess, UNCHANGED sinceProbe, IInv
  PROVE  /\ failures' \in 0 .. Threshold
         /\ remaining' = Closed
         /\ probeFlag' \in BOOLEAN
         /\ ThresholdDecides'
         /\ ProbesSpaced'
<1>1. /\ failures' = 0
      /\ remaining' = Closed
      /\ probeFlag' = FALSE
  BY DEF RecordSuccess
<1>2. ~(failures' >= Threshold) /\ failures' \in 0 .. Threshold
  BY <1>1, LimitAssumption
<1>3. ThresholdDecides' /\ ProbesSpaced'
  BY <1>1, <1>2 DEF ThresholdDecides, ProbesSpaced
<1>4. QED
  BY <1>1, <1>2, <1>3

\* A failure that finds the circuit open, or that reaches the threshold,
\* leaves it open for a whole cooldown and without a probe; any other leaves
\* it closed.
LEMMA FailureReopens ==
  ASSUME RecordTransientFailure, UNCHANGED sinceProbe, IInv
  PROVE  /\ failures' \in 0 .. Threshold
         /\ remaining' \in {Closed, Cooldown}
         /\ remaining # Closed => remaining' = Cooldown
         /\ probeFlag' = FALSE
         /\ ThresholdDecides'
         /\ ProbesSpaced'
<1> USE LimitAssumption, SwitchAssumption
<1>1. /\ failures' \in 0 .. Threshold
      /\ failures' >= failures
      /\ probeFlag' = FALSE
  BY DEF IInv, TypeOK, RecordTransientFailure
<1>2. CASE remaining # Closed
  <2>1. failures' >= Threshold
    BY <1>1, <1>2 DEF IInv, TypeOK, ThresholdDecides
  <2>2. remaining' = Cooldown
    BY <2>1 DEF RecordTransientFailure
  <2>3. QED
    BY <1>1, <2>1, <2>2 DEF IInv, TypeOK, ThresholdDecides, ProbesSpaced
<1>3. CASE remaining = Closed
  <2>1. ~probeFlag
    BY <1>3 DEF IInv, ThresholdDecides
  <2>2. remaining' = IF failures' >= Threshold THEN Cooldown ELSE Closed
    BY <1>3, <2>1 DEF RecordTransientFailure
  <2>3. QED
    BY <1>1, <1>3, <2>2 DEF IInv, TypeOK, ThresholdDecides, ProbesSpaced
<1>4. QED
  BY <1>2, <1>3

LEMMA InitInv == Init => IInv
<1> SUFFICES ASSUME Init PROVE IInv
  OBVIOUS
<1>1. TypeOK
  <2>1. /\ 0 \in 0 .. Threshold
        /\ 1 \in 1 .. MaxAttempts
        /\ Cooldown \in 0 .. Cooldown
    BY LimitAssumption
  <2>2. QED
    BY <2>1 DEF Init, TypeOK, Places
<1>2. ~(failures >= Threshold)
  BY LimitAssumption DEF Init
<1>3. ThresholdDecides /\ ProbesSpaced
  BY <1>2 DEF Init, ThresholdDecides, ProbesSpaced
<1>4. QED
  BY <1>1, <1>3 DEF IInv

LEMMA NextInv == IInv /\ [Next]_vars => IInv'
<1> SUFFICES ASSUME IInv, [Next]_vars PROVE IInv'
  OBVIOUS
<1> USE LimitAssumption, SwitchAssumption
<1>1. CASE ProviderChanges
  BY <1>1 DEF ProviderChanges, breaker, IInv, TypeOK, ThresholdDecides, ProbesSpaced
<1>2. CASE Tick
  BY <1>2 DEF Tick, IInv, TypeOK, ThresholdDecides, ProbesSpaced
<1>3. ASSUME NEW c \in Calls, AdmitRegular(c) PROVE IInv'
  BY <1>3, EnterTyped
     DEF AdmitRegular, breaker, Places, IInv, TypeOK, ThresholdDecides, ProbesSpaced
<1>4. ASSUME NEW c \in Calls, AdmitProbe(c) PROVE IInv'
  BY <1>4, EnterTyped
     DEF AdmitProbe, Places, IInv, TypeOK, ThresholdDecides, ProbesSpaced
<1>5. ASSUME NEW c \in Calls, RetryTransient(c) PROVE IInv'
  BY <1>5 DEF RetryTransient, breaker, IInv, TypeOK, ThresholdDecides, ProbesSpaced
<1>6. ASSUME NEW c \in Calls, FailTransient(c) PROVE IInv'
  <2>1. /\ RecordTransientFailure
        /\ Enter(c, "idle")
        /\ UNCHANGED <<up, sinceProbe>>
    BY <1>6 DEF FailTransient
  <2>2. TypeOK
    BY DEF IInv
  <2>3. /\ place' \in [Calls -> Places]
        /\ attempt' \in [Calls -> 1 .. MaxAttempts]
    BY <2>1, <2>2, EnterTyped DEF Places
  <2>4. remaining' \in 0 .. Cooldown \cup {Closed}
    BY <2>1, FailureReopens
  <2>5. QED
    BY <2>1, <2>2, <2>3, <2>4, FailureReopens DEF IInv, TypeOK
<1>7. ASSUME NEW c \in Calls, Answer(c) PROVE IInv'
  BY <1>7, EnterTyped, SuccessCloses DEF Answer, Places, IInv, TypeOK
<1>8. ASSUME NEW c \in Calls, RetryJson(c) PROVE IInv'
  BY <1>8, SuccessCloses DEF RetryJson, Places, IInv, TypeOK
<1>9. ASSUME NEW c \in Calls, Vanish(c) PROVE IInv'
  BY <1>9, EnterTyped
     DEF Vanish, breaker, Places, IInv, TypeOK, ThresholdDecides, ProbesSpaced
<1>10. CASE UNCHANGED vars
  BY <1>10 DEF vars, breaker, IInv, TypeOK, ThresholdDecides, ProbesSpaced
<1>11. QED
  BY <1>1, <1>2, <1>3, <1>4, <1>5, <1>6, <1>7, <1>8, <1>9, <1>10 DEF Next, Attempt

\* Every reachable state is well typed.
THEOREM CircuitTyped == Spec => []TypeOK
<1>1. IInv => TypeOK
  BY DEF IInv
<1>2. QED
  BY <1>1, InitInv, NextInv, PTL DEF Spec

\* However many calls are in flight and in whatever order their results come
\* back to record_success and record_transient_failure, the circuit is open
\* exactly when the failures since the last success reach the threshold.
THEOREM CircuitThreshold == Spec => []ThresholdDecides
<1>1. IInv => ThresholdDecides
  BY DEF IInv
<1>2. QED
  BY <1>1, InitInv, NextInv, PTL DEF Spec

\* A provider that stays down is probed at most once per cooldown, late
\* results of earlier calls included.
THEOREM CircuitSpacing == Spec => []ProbesSpaced
<1>1. IInv => ProbesSpaced
  BY DEF IInv
<1>2. QED
  BY <1>1, InitInv, NextInv, PTL DEF Spec
=============================================================================
