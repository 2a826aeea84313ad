------------------------- MODULE QualityReviewsProofs -------------------------
(***************************************************************************)
(* The invariants of QualityReviews for any turns, root causes and number  *)
(* of requests in flight.  What a request holds across the gap between its *)
(* read and its commit (LocalsHold) is what makes them inductive.          *)
(***************************************************************************)
EXTENDS QualityReviews, TLAPS

\* A request that is under way is about a turn, and what it found there has
\* not been undone since: no step takes a review, or a rating, away.
LocalsHold ==
  \A q \in Requests :
    /\ place[q] # "idle" => turn[q] \in Turns
    /\ place[q] = "rate" => /\ read[q] \in Ratings \cup {None}
                            /\ read[q] # None => rating[turn[q]] # None
    /\ place[q] = "capture" => \/ status[turn[q]] = "failed"
                               \/ rating[turn[q]] # None
    /\ place[q] \in {"dismiss", "promote"} => /\ read[q] \in Causes
                                              /\ review[turn[q]] # None

IInv == TypeOK /\ LocalsHold /\ ReviewsFollowSignals /\ CasesAgree /\ SignalsReviewed

USE DEF Ratings, Final

LEMMA InitEstablishes == Init => IInv
BY NoneAssumption, SMT
   DEF Init, IInv, TypeOK, LocalsHold, ReviewsFollowSignals, CasesAgree, SignalsReviewed

\* A request that ends loses at most the capture it owed, which is then missed.
LEMMA EndPreserves ==
  ASSUME IInv, NEW q \in Requests, RequestEnds(q)
  PROVE  IInv'
<1> USE NoneAssumption DEF RequestEnds, Finish, Continue, tables
<1>1. TypeOK'  BY DEF IInv, TypeOK, LocalsHold
<1>2. LocalsHold'  BY DEF IInv, TypeOK, LocalsHold
<1>3. ReviewsFollowSignals'  BY DEF IInv, TypeOK, ReviewsFollowSignals
<1>4. CasesAgree'  BY DEF IInv, TypeOK, CasesAgree
<1>5. SignalsReviewed'
  <2> SUFFICES ASSUME NEW t \in Turns \ missed',
                      status[t] = "failed" \/ rating[t] = "down", review[t] = None
               PROVE  \E p \in Requests : place'[p] = "capture" /\ turn'[p] = t
      BY DEF SignalsReviewed
  <2>1. PICK p \in Requests : place[p] = "capture" /\ turn[p] = t
      BY DEF IInv, SignalsReviewed
  <2>2. p # q  BY <2>1
  <2> QED  BY <2>1, <2>2 DEF IInv, TypeOK
<1> QED  BY <1>1, <1>2, <1>3, <1>4, <1>5 DEF IInv

\* The turn's first rows: a failure goes straight on to its capture.
LEMMA RecordPreserves ==
  ASSUME IInv, NEW q \in Requests, RecordTurn(q)
  PROVE  IInv'
<1> USE NoneAssumption DEF Continue, locals
<1>0. PICK t \in Turns, s \in {"completed", "failed"} :
        /\ place[q] = "idle" /\ status[t] = None
        /\ status' = [status EXCEPT ![t] = s]
        /\ IF s = "failed" THEN Continue(q, "capture", t, None) ELSE UNCHANGED locals
        /\ UNCHANGED <<rating, review, cause, case, missed>>
    BY DEF RecordTurn
<1>1. TypeOK'  BY <1>0 DEF IInv, TypeOK
<1>2. LocalsHold'  BY <1>0 DEF IInv, TypeOK, LocalsHold
<1>3. ReviewsFollowSignals'  BY <1>0 DEF IInv, TypeOK, ReviewsFollowSignals
<1>4. CasesAgree'  BY <1>0 DEF IInv, TypeOK, CasesAgree
<1>5. SignalsReviewed'
  <2> SUFFICES ASSUME NEW u \in Turns \ missed,
                      status'[u] = "failed" \/ rating[u] = "down", review[u] = None
               PROVE  \E p \in Requests : place'[p] = "capture" /\ turn'[p] = u
      BY <1>0 DEF SignalsReviewed
  <2>1. CASE u = t /\ s = "failed"  BY <1>0, <2>1 DEF IInv, TypeOK
  <2>2. CASE ~(u = t /\ s = "failed")
    <3>1. status[u] = "failed" \/ rating[u] = "down"  BY <1>0, <2>2 DEF IInv, TypeOK
    <3>2. PICK p \in Requests : place[p] = "capture" /\ turn[p] = u
        BY <3>1 DEF IInv, SignalsReviewed
    <3>3. p # q  BY <1>0, <3>2
    <3> QED  BY <1>0, <3>2, <3>3 DEF IInv, TypeOK
  <2> QED  BY <2>1, <2>2
<1> QED  BY <1>1, <1>2, <1>3, <1>4, <1>5 DEF IInv

\* A read changes no table; the request was idle, so it owed no capture.
LEMMA ReadsPreserve ==
  ASSUME IInv, NEW q \in Requests, RateReads(q) \/ DecideReads(q)
  PROVE  IInv'
<1> USE NoneAssumption DEF Continue, tables
<1>0. PICK t \in Turns, p \in {"rate", "dismiss", "promote"} :
        \E x \in Ratings \cup Causes \cup {None} :
          /\ place[q] = "idle"
          /\ place' = [place EXCEPT ![q] = p]
          /\ turn' = [turn EXCEPT ![q] = t]
          /\ read' = [read EXCEPT ![q] = x]
          /\ UNCHANGED <<tables, missed>>
          /\ p = "rate" => x = rating[t]
          /\ p # "rate" => x \in Causes /\ review[t] = "pending"
    BY DEF RateReads, DecideReads, IInv, TypeOK
<1>1. TypeOK'  BY <1>0 DEF IInv, TypeOK
<1>2. LocalsHold'  BY <1>0 DEF IInv, TypeOK, LocalsHold
<1>3. ReviewsFollowSignals'  BY <1>0 DEF IInv, ReviewsFollowSignals
<1>4. CasesAgree'  BY <1>0 DEF IInv, CasesAgree
<1>5. SignalsReviewed'
  <2> SUFFICES ASSUME NEW u \in Turns \ missed,
                      status[u] = "failed" \/ rating[u] = "down", review[u] = None
               PROVE  \E r \in Requests : place'[r] = "capture" /\ turn'[r] = u
      BY <1>0 DEF SignalsReviewed
  <2>1. PICK r \in Requests : place[r] = "capture" /\ turn[r] = u
      BY DEF IInv, SignalsReviewed
  <2>2. r # q  BY <1>0, <2>1
  <2> QED  BY <1>0, <2>1, <2>2 DEF IInv, TypeOK
<1> QED  BY <1>1, <1>2, <1>3, <1>4, <1>5 DEF IInv

\* A rating "down" is left either by this request, which captures it, or by an
\* earlier one: an update that changes nothing changes no obligation.
LEMMA RatePreserves ==
  ASSUME IInv, NEW q \in Requests, Rate(q)
  PROVE  IInv'
<1> USE NoneAssumption DEF Continue, Finish
<1>0. PICK new \in Ratings :
        /\ place[q] = "rate" /\ Upsert(q, new)
        /\ IF new = "down" THEN Continue(q, "capture", turn[q], None) ELSE Finish(q)
        /\ UNCHANGED <<status, review, cause, case, missed>>
    BY DEF Rate
<1> DEFINE t == turn[q]
<1>t. t \in Turns  BY <1>0 DEF IInv, LocalsHold
<1>r. /\ rating' \in [Turns -> Ratings \cup {None}]
      /\ rating'[t] # None
      /\ \A u \in Turns : rating'[u] # rating[u] => u = t /\ rating'[u] = new
    BY <1>0, <1>t DEF Upsert, IInv, TypeOK, LocalsHold
<1> HIDE DEF t
<1>1. TypeOK'  BY <1>0, <1>r, <1>t DEF IInv, TypeOK, t
<1>2. LocalsHold'
  <2>1. \A u \in Turns : rating[u] # None => rating'[u] # None  BY <1>r DEF IInv, TypeOK
  <2> QED  BY <1>0, <1>r, <1>t, <2>1 DEF IInv, TypeOK, LocalsHold, t
<1>3. ReviewsFollowSignals'
  <2>1. \A u \in Turns : rating[u] # None => rating'[u] # None  BY <1>r DEF IInv, TypeOK
  <2> QED  BY <1>0, <2>1 DEF IInv, ReviewsFollowSignals
<1>4. CasesAgree'  BY <1>0 DEF IInv, CasesAgree
<1>5. SignalsReviewed'
  <2> SUFFICES ASSUME NEW u \in Turns \ missed,
                      status[u] = "failed" \/ rating'[u] = "down", review[u] = None
               PROVE  \E p \in Requests : place'[p] = "capture" /\ turn'[p] = u
      BY <1>0 DEF SignalsReviewed
  <2>1. CASE u = t /\ new = "down"  BY <1>0, <2>1 DEF IInv, TypeOK, t
  <2>2. CASE ~(u = t /\ new = "down")
    <3>1. status[u] = "failed" \/ rating[u] = "down"  BY <1>r, <2>2
    <3>2. PICK p \in Requests : place[p] = "capture" /\ turn[p] = u
        BY <3>1 DEF IInv, SignalsReviewed
    <3>3. p # q  BY <1>0, <3>2
    <3> QED  BY <1>0, <3>2, <3>3 DEF IInv, TypeOK
  <2> QED  BY <2>1, <2>2
<1> QED  BY <1>1, <1>2, <1>3, <1>4, <1>5 DEF IInv

\* The insert settles what this request owed, and touches no decided review.
LEMMA CapturePreserves ==
  ASSUME IInv, NEW q \in Requests, Capture(q)
  PROVE  IInv'
<1> USE NoneAssumption DEF Continue, Finish, Capture
<1>t. turn[q] \in Turns  BY DEF IInv, LocalsHold
<1>1. TypeOK'  BY <1>t DEF IInv, TypeOK
<1>2. LocalsHold'  BY <1>t DEF IInv, TypeOK, LocalsHold
<1>3. ReviewsFollowSignals'  BY <1>t DEF IInv, TypeOK, LocalsHold, ReviewsFollowSignals
<1>4. CasesAgree'  BY <1>t DEF IInv, TypeOK, CasesAgree
<1>5. SignalsReviewed'
  <2> SUFFICES ASSUME NEW u \in Turns \ missed,
                      status[u] = "failed" \/ rating[u] = "down", review'[u] = None
               PROVE  \E p \in Requests : place'[p] = "capture" /\ turn'[p] = u
      BY DEF SignalsReviewed
  <2>1. u # turn[q] /\ review[u] = None  BY <1>t DEF IInv, TypeOK
  <2>2. PICK p \in Requests : place[p] = "capture" /\ turn[p] = u
      BY <2>1 DEF IInv, SignalsReviewed
  <2>3. p # q  BY <2>1, <2>2
  <2> QED  BY <2>2, <2>3 DEF IInv, TypeOK
<1> QED  BY <1>1, <1>2, <1>3, <1>4, <1>5 DEF IInv

\* Decisions write the status and the diagnosis together.
LEMMA DecisionsPreserve ==
  ASSUME IInv, NEW q \in Requests, Dismiss(q) \/ Promote(q)
  PROVE  IInv'
<1> USE NoneAssumption DEF Continue, Finish
<1>t. /\ turn[q] \in Turns /\ read[q] \in Causes /\ review[turn[q]] # None
      /\ place[q] \in {"dismiss", "promote"}
    BY DEF IInv, LocalsHold, Dismiss, Promote
<1>1. TypeOK'  BY <1>t DEF IInv, TypeOK, Dismiss, Promote
<1>2. LocalsHold'  BY <1>t DEF IInv, TypeOK, LocalsHold, Dismiss, Promote
<1>3. ReviewsFollowSignals'
    BY <1>t DEF IInv, TypeOK, ReviewsFollowSignals, Dismiss, Promote
<1>4. CasesAgree'  BY <1>t DEF IInv, TypeOK, CasesAgree, Dismiss, Promote
<1>5. SignalsReviewed'
  <2> SUFFICES ASSUME NEW u \in Turns \ missed,
                      status[u] = "failed" \/ rating[u] = "down", review'[u] = None
               PROVE  \E p \in Requests : place'[p] = "capture" /\ turn'[p] = u
      BY DEF SignalsReviewed, Dismiss, Promote
  <2>1. u # turn[q] /\ review[u] = None  BY <1>t DEF IInv, TypeOK, Dismiss, Promote
  <2>2. PICK p \in Requests : place[p] = "capture" /\ turn[p] = u
      BY <2>1 DEF IInv, SignalsReviewed
  <2>3. p # q  BY <2>1, <2>2
  <2> QED  BY <2>2, <2>3 DEF IInv, TypeOK, Dismiss, Promote
<1> QED  BY <1>1, <1>2, <1>3, <1>4, <1>5 DEF IInv

LEMMA NextPreserves == IInv /\ [Next]_vars => IInv'
<1> SUFFICES ASSUME IInv, [Next]_vars  PROVE IInv'
    OBVIOUS
<1>1. CASE UNCHANGED vars
    BY <1>1, SMT DEF vars, tables, locals, IInv, TypeOK, LocalsHold, ReviewsFollowSignals,
       CasesAgree, SignalsReviewed
<1>2. CASE Next
  <2> PICK q \in Requests :
        \/ RequestEnds(q)
        \/ RecordTurn(q) \/ RateReads(q) \/ Rate(q) \/ Capture(q)
        \/ DecideReads(q) \/ Dismiss(q) \/ Promote(q)
      BY <1>2, Zenon DEF Next
  <2> QED  BY EndPreserves, RecordPreserves, ReadsPreserve, RatePreserves,
              CapturePreserves, DecisionsPreserve, Zenon
<1> QED  BY <1>1, <1>2

THEOREM AlwaysIInv == Spec => []IInv
<1>1. Init => IInv  BY InitEstablishes
<1>2. IInv /\ [Next]_vars => IInv'  BY NextPreserves
<1> QED  BY <1>1, <1>2, PTL DEF Spec

\* The tables and the requests' locals keep their types.
THEOREM TypeCorrect == Spec => []TypeOK
<1>1. IInv => TypeOK  BY DEF IInv
<1> QED  BY AlwaysIInv, <1>1, PTL

\* No signal is forgotten but by a capture that failed.
THEOREM SignalsAlwaysReviewed == Spec => []SignalsReviewed
<1>1. IInv => SignalsReviewed  BY DEF IInv
<1> QED  BY AlwaysIInv, <1>1, PTL

\* Reviews come from signals, diagnoses and cases from decisions.
THEOREM ReviewsAlwaysFollow == Spec => []ReviewsFollowSignals
<1>1. IInv => ReviewsFollowSignals  BY DEF IInv
<1> QED  BY AlwaysIInv, <1>1, PTL

\* A promoted review and its regression case carry one diagnosis.
THEOREM CasesAlwaysAgree == Spec => []CasesAgree
<1>1. IInv => CasesAgree  BY DEF IInv
<1> QED  BY AlwaysIInv, <1>1, PTL

\* However many promotions race, the first one's case stays.
THEOREM CasesStay == Spec => CasesImmutable
<1> DEFINE Stays == \A t \in Turns : case[t] # None => case'[t] = case[t]
<1>1. TypeOK /\ [Next]_vars => [Stays]_vars
  <2> SUFFICES ASSUME TypeOK, [Next]_vars, NEW t \in Turns, case[t] # None
               PROVE  case'[t] = case[t]
      OBVIOUS
  <2>1. CASE case' = case  BY <2>1
  <2>2. ASSUME NEW q \in Requests, Promote(q)  PROVE case'[t] = case[t]
      BY <2>2 DEF Promote, TypeOK
  <2> QED  BY <2>1, <2>2 DEF Next, vars, tables, RequestEnds, RecordTurn, RateReads, Rate,
           Capture, DecideReads, Dismiss
<1> QED  BY TypeCorrect, <1>1, PTL DEF Spec, CasesImmutable
=============================================================================
