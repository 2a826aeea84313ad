---------------------------- MODULE QualityReviews ----------------------------
(***************************************************************************)
(* From a bad answer to a regression case:                                 *)
(*                                                                         *)
(*   feedback   src/app/api/routes/feedback.py, conversations/store.py     *)
(*   failures   src/app/api/routes/ask.py                                  *)
(*   reviews    src/app/quality/store.py, api/routes/quality_ops.py        *)
(*                                                                         *)
(* Transactions run under READ COMMITTED, as in Conversations: a request   *)
(* takes a step for what a transaction reads and one for what it commits.  *)
(* A turn is an answer_interaction; it has one possible trigger of a       *)
(* review, "failure" if it failed and "feedback_down" if it completed, so  *)
(* it has one review at most.  Which callers may rate a turn, or decide a  *)
(* review, is left out: any request here has passed that check.            *)
(***************************************************************************)
EXTENDS Naturals

CONSTANTS
  Turns,      \* interaction ids
  Causes,     \* the root causes reviewers diagnose
  Requests,   \* requests in flight at once
  None        \* no turn; no rating, root cause or case

ASSUME NoneAssumption ==
  None \notin Turns \cup Causes
               \cup {"completed", "failed", "up", "down", "pending", "dismissed", "promoted"}

VARIABLES
  status,   \* answer_interaction: of each turn, None before it is recorded
  rating,   \* answer_feedback: of each turn
  review,   \* quality_review: the status of a turn's review
  cause,    \* quality_review: its root_cause
  case,     \* regression_case: the root_cause of its regression case
  place,    \* a request: where it is
  turn,     \* the turn it is about
  read,     \* the rating or the root cause it holds, see the actions
  missed    \* history: the signals whose capture failed or was cut off

tables == <<status, rating, review, cause, case>>
locals == <<place, turn, read>>
vars   == <<tables, locals, missed>>

Ratings == {"up", "down"}
Final   == {"dismissed", "promoted"}

TypeOK ==
  /\ status \in [Turns -> {"completed", "failed", None}]
  /\ rating \in [Turns -> Ratings \cup {None}]
  /\ review \in [Turns -> {"pending", None} \cup Final]
  /\ cause \in [Turns -> Causes \cup {None}]
  /\ case \in [Turns -> Causes \cup {None}]
  /\ place \in [Requests -> {"idle", "rate", "capture", "dismiss", "promote"}]
  /\ turn \in [Requests -> Turns \cup {None}]
  /\ read \in [Requests -> Ratings \cup Causes \cup {None}]
  /\ missed \subseteq Turns

Init ==
  /\ status = [t \in Turns |-> None]
  /\ rating = [t \in Turns |-> None]
  /\ review = [t \in Turns |-> None]
  /\ cause = [t \in Turns |-> None]
  /\ case = [t \in Turns |-> None]
  /\ place = [q \in Requests |-> "idle"]
  /\ turn = [q \in Requests |-> None]
  /\ read = [q \in Requests |-> None]
  /\ missed = {}

\* Request q goes on to p about turn t, holding x.
Continue(q, p, t, x) ==
  /\ place' = [place EXCEPT ![q] = p]
  /\ turn' = [turn EXCEPT ![q] = t]
  /\ read' = [read EXCEPT ![q] = x]

Finish(q) == Continue(q, "idle", None, None)

\* The process ends, a transaction fails, or ensure_review's exception is
\* logged and swallowed: nothing retries a capture.
RequestEnds(q) ==
  /\ place[q] # "idle"
  /\ missed' = IF place[q] = "capture" THEN missed \cup {turn[q]} ELSE missed
  /\ Finish(q)
  /\ UNCHANGED tables

-----------------------------------------------------------------------------
(* Signals                                                                 *)

\* record_answer, or record_failure and then the capture of the failure.
RecordTurn(q) ==
  /\ place[q] = "idle"
  /\ \E t \in Turns, s \in {"completed", "failed"} :
       /\ status[t] = None
       /\ status' = [status EXCEPT ![t] = s]
       /\ IF s = "failed" THEN Continue(q, "capture", t, None)
                          ELSE UNCHANGED locals
  /\ UNCHANGED <<rating, review, cause, case, missed>>

\* upsert_feedback reads the turn, which must be completed, and its feedback.
RateReads(q) ==
  /\ place[q] = "idle"
  /\ \E t \in Turns :
       /\ status[t] = "completed"
       /\ Continue(q, "rate", t, rating[t])
  /\ UNCHANGED <<tables, missed>>

\* What its commit makes of the rating.  An insert needs that there is still no
\* row; an update sets a column only if it differs from what was read.
Upsert(q, new) ==
  /\ read[q] = None => rating[turn[q]] = None
  /\ rating' = IF new = read[q] THEN rating
                                ELSE [rating EXCEPT ![turn[q]] = new]

\* Mutant of Rate: only a rating that was not there before is captured.
BugCapturesFirst(q) ==
  /\ place[q] = "rate"
  /\ \E new \in Ratings :
       /\ Upsert(q, new)
       /\ IF new = "down" /\ read[q] = None
          THEN Continue(q, "capture", turn[q], None)
          ELSE Finish(q)
  /\ UNCHANGED <<status, review, cause, case, missed>>

\* The commit; submit_feedback then captures a rating "down".
Rate(q) ==
  /\ place[q] = "rate"
  /\ \E new \in Ratings :
       /\ Upsert(q, new)
       /\ IF new = "down" THEN Continue(q, "capture", turn[q], None)
                          ELSE Finish(q)
  /\ UNCHANGED <<status, review, cause, case, missed>>

\* Mutant of Capture: the insert replaces the review that is there.
BugReopens(q) ==
  /\ place[q] = "capture"
  /\ review' = [review EXCEPT ![turn[q]] = "pending"]
  /\ Finish(q)
  /\ UNCHANGED <<status, rating, cause, case, missed>>

\* ensure_review: one INSERT ... ON CONFLICT DO NOTHING.
Capture(q) ==
  /\ place[q] = "capture"
  /\ review' = [review EXCEPT ![turn[q]] = IF @ = None THEN "pending" ELSE @]
  /\ Finish(q)
  /\ UNCHANGED <<status, rating, cause, case, missed>>

-----------------------------------------------------------------------------
(* Decisions                                                               *)

\* dismiss_review or promote_review reads the review, which must be pending;
\* a promotion whose case is there returns it and changes nothing.
DecideReads(q) ==
  /\ place[q] = "idle"
  /\ \E t \in Turns, x \in Causes, p \in {"dismiss", "promote"} :
       /\ review[t] = "pending"
       /\ p = "promote" => case[t] = None
       /\ Continue(q, p, t, x)
  /\ UNCHANGED <<tables, missed>>

\* Both updates are by review_id: what the review has become does not matter.
Dismiss(q) ==
  /\ place[q] = "dismiss"
  /\ review' = [review EXCEPT ![turn[q]] = "dismissed"]
  /\ cause' = [cause EXCEPT ![turn[q]] = read[q]]
  /\ Finish(q)
  /\ UNCHANGED <<status, rating, case, missed>>

\* Mutant of Promote: review_id is not unique, and the later case is found.
BugCasesAgain(q) ==
  /\ place[q] = "promote"
  /\ review' = [review EXCEPT ![turn[q]] = "promoted"]
  /\ cause' = [cause EXCEPT ![turn[q]] = read[q]]
  /\ case' = [case EXCEPT ![turn[q]] = read[q]]
  /\ Finish(q)
  /\ UNCHANGED <<status, rating, missed>>

\* Mutant of Promote: a conflicting case is skipped, the review still updated.
BugSkipsConflict(q) ==
  /\ place[q] = "promote"
  /\ review' = [review EXCEPT ![turn[q]] = "promoted"]
  /\ cause' = [cause EXCEPT ![turn[q]] = read[q]]
  /\ case' = [case EXCEPT ![turn[q]] = IF @ = None THEN read[q] ELSE @]
  /\ Finish(q)
  /\ UNCHANGED <<status, rating, missed>>

\* The insert of the case needs that the review has none; the update of the
\* review is in the same transaction.
Promote(q) ==
  /\ place[q] = "promote"
  /\ case[turn[q]] = None
  /\ review' = [review EXCEPT ![turn[q]] = "promoted"]
  /\ cause' = [cause EXCEPT ![turn[q]] = read[q]]
  /\ case' = [case EXCEPT ![turn[q]] = read[q]]
  /\ Finish(q)
  /\ UNCHANGED <<status, rating, missed>>

-----------------------------------------------------------------------------
Next ==
  \E q \in Requests :
    \/ RequestEnds(q)
    \/ RecordTurn(q) \/ RateReads(q) \/ Rate(q) \/ Capture(q)
    \/ DecideReads(q) \/ Dismiss(q) \/ Promote(q)

Spec == Init /\ [][Next]_vars

-----------------------------------------------------------------------------
(* Properties                                                              *)

\* docs/quality-loop.md, "Capture policy": a failed turn or one rated "down"
\* has a review, or is about to, unless its capture failed.  It holds although
\* the rating that is left and the one that was captured may be those of
\* different requests (upsert_feedback, submit_feedback).
SignalsReviewed ==
  \A t \in Turns \ missed :
    status[t] = "failed" \/ rating[t] = "down" =>
      \/ review[t] # None
      \/ \E q \in Requests : place[q] = "capture" /\ turn[q] = t

\* Only signals are reviewed, and only decided reviews have a diagnosis or a
\* case: no order of captures and decisions reopens a review or decides one
\* that is not there (ensure_review, dismiss_review, promote_review).
ReviewsFollowSignals ==
  \A t \in Turns :
    /\ review[t] # None => status[t] = "failed" \/ rating[t] # None
    /\ review[t] \in Final <=> cause[t] # None
    /\ case[t] # None => review[t] \in Final

\* promote_review: a promoted review has its regression case, with the same
\* root cause, whichever decisions raced for it.
CasesAgree ==
  \A t \in Turns : review[t] = "promoted" => cause[t] # None /\ case[t] = cause[t]

\* docs/quality-loop.md, "one immutable regression case": promotions that race
\* leave the first one's case (promote_review, uq_regression_case_review).
CasesImmutable ==
  [][\A t \in Turns : case[t] # None => case'[t] = case[t]]_vars

=============================================================================
