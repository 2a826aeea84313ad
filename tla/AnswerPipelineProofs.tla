------------------------- MODULE AnswerPipelineProofs -------------------------
(***************************************************************************)
(* The invariants of AnswerPipeline for any index, limits and whatever the *)
(* model may answer.  A result speaks of evidence and of a text that are   *)
(* settled steps before it; StageHolds says what each stage may rely on.   *)
(***************************************************************************)
EXTENDS AnswerPipeline, SequenceTheorems, FiniteSetTheorems, WellFoundedInduction, TLAPS

\* The evidence: a prefix of the hits within the budget, none below the threshold.
EvidenceHolds ==
  /\ Len(blocks) <= Len(hits)
  /\ \A i \in 1 .. Len(blocks) : blocks[i].hit = hits[i]
  /\ \A i \in 1 .. Len(hits) : hits[i] \notin weak
  /\ used <= MaxChars

\* A text to be verified has passed the gate, a question that is repaired has
\* a report that did not pass, and before the end there is no result.
StageHolds ==
  /\ stage \in {"resolve", "retrieve", "rerank"} => blocks = <<>> /\ used = 0
  /\ stage \in {"generate", "verify", "repair", "recheck"} => blocks # <<>>
  /\ stage \in {"verify", "recheck"} => PassesGate(text.ids) /\ text.draft # "none"
  /\ stage \in {"repair", "recheck"} => ~report.passed
  /\ stage # "idle" => result = NoResult

IInv ==
  /\ TypeOK /\ EvidenceHolds /\ StageHolds
  /\ GroundedIsVerified /\ CitationsResolve /\ ClaimsCiteAnswer

USE LimitsAssumption, ModelAssumption

-----------------------------------------------------------------------------
(* The operators                                                           *)

LEMMA NothingTyped ==
  NoText \in Text /\ NoReport \in Report /\ NoResult \in Result
BY EmptySeq DEF NoText, NoReport, NoResult, Text, Reasons, Report, Result

LEMMA VerdictsTyped == Verdicts \cup {Unparsed} \subseteq Verdict
<1>1. <<>> \in Seq(Claim)  BY EmptySeq
<1>2. Unparsed \in Verdict  BY <1>1 DEF Unparsed, Verdict
<1> QED  BY <1>2

\* A report keeps claims of the verdict, and judges each.
LEMMA KeptTyped ==
  ASSUME NEW v \in Verdict
  PROVE  /\ Kept(v) \in Seq(Claim) /\ Len(Kept(v)) <= Len(v.claims)
         /\ Len(v.claims) <= MaxClaims => Kept(v) = v.claims
<1>0. v.claims \in Seq(Claim)  BY DEF Verdict
<1> QED  BY <1>0 DEF Kept

\* Any verdict gives a report.
LEMMA VerifiedTyped ==
  ASSUME NEW v \in Verdict, NEW ids \in SUBSET Ids
  PROVE  Verified(v, ids) \in Report
<1> DEFINE n == Len(Kept(v))
           claims == [i \in 1 .. n |-> Judged(Kept(v)[i], ids)]
<1>0. Kept(v) \in Seq(Claim)  BY KeptTyped
<1>1. \A i \in 1 .. n : Judged(Kept(v)[i], ids) \in Claim
  <2> SUFFICES ASSUME NEW c \in Claim PROVE Judged(c, ids) \in Claim  BY <1>0
  <2> QED  BY DEF Judged, Miscited, Claim
<1>2. claims \in [1 .. n -> Claim] /\ n \in Nat  BY <1>0, <1>1
<1>3. claims \in Seq(Claim)
  <2> HIDE DEF claims, n
  <2> QED  BY <1>2, SeqDef
<1>4. Passes(v, ids) \in BOOLEAN  BY DEF Passes, Verdict
<1> QED  BY <1>3, <1>4, EmptySeq DEF Verified, Report, Reasons

\* A report passes only when the verifier supported everything it was shown,
\* and then every claim cites within the text.
LEMMA PassedReport ==
  ASSUME NEW v \in Verdict, NEW ids \in SUBSET Ids, Verified(v, ids).passed
  PROVE  /\ SupportsAll(v)
         /\ \A i \in 1 .. Len(Verified(v, ids).claims) :
              /\ Verified(v, ids).claims[i].supported
              /\ Verified(v, ids).claims[i].ids \subseteq ids
<1> DEFINE n == Len(Kept(v))
           claims == [i \in 1 .. n |-> Judged(Kept(v)[i], ids)]
<1>0. Kept(v) \in Seq(Claim) /\ v.claims \in Seq(Claim)  BY KeptTyped DEF Verdict
<1>1. Passes(v, ids) /\ v.claims # <<>> /\ Verified(v, ids).claims = claims  BY DEF Verified
<1>2. Kept(v) = v.claims  BY <1>1, KeptTyped DEF Passes
<1>3. SupportsAll(v)  BY <1>0, <1>1, <1>2 DEF SupportsAll, Passes
<1>4. Len(claims) = n  BY <1>0
<1>5. \A i \in 1 .. n : claims[i].supported /\ claims[i].ids \subseteq ids
  BY <1>0, <1>1 DEF Passes, Judged
<1> HIDE DEF claims, n
<1> QED  BY <1>1, <1>3, <1>4, <1>5

-----------------------------------------------------------------------------
(* The candidates                                                          *)

LEMMA LanesNumbers ==
  /\ ExactK \in Nat \ {0} /\ CandidateK \in Nat \ {0} /\ RrfK \in Nat \ {0}
  /\ ExactWeight \in Nat \ {0} /\ HybridWeight \in Nat \ {0}
BY LanesAssumption

\* A list of any of the hits is a sequence that names each of them once.
LEMMA ListingsAre ==
  ASSUME NEW S \in SUBSET Hits, NEW s \in Listings(S)
  PROVE  s \in Seq(Hits) /\ Range(s) = S
<1>1. IsFiniteSet(S)  BY LanesAssumption, FS_Subset
<1>2. Cardinality(S) \in Nat  BY <1>1, FS_CardinalityType
<1>3. s \in [1 .. Cardinality(S) -> S]  BY DEF Listings, Bijection, Injection
<1>4. s \in Seq(Hits)  BY <1>2, <1>3, SeqDef
<1>5. \A x \in S : \E i \in 1 .. Cardinality(S) : s[i] = x
  BY DEF Listings, Bijection, Surjection
<1>6. Range(s) = S  BY <1>3, <1>5 DEF Range
<1> QED  BY <1>4, <1>6

\* Cutting a list leaves its first members.
LEMMA CutIs ==
  ASSUME NEW s \in Seq(Hits), NEW n \in Nat
  PROVE  /\ Cut(s, n) \in Seq(Hits)
         /\ Len(Cut(s, n)) = Least(n, Len(s)) /\ Len(Cut(s, n)) <= n /\ Len(Cut(s, n)) <= Len(s)
         /\ \A i \in 1 .. Len(Cut(s, n)) : Cut(s, n)[i] = s[i]
<1>1. Least(n, Len(s)) \in Nat /\ Least(n, Len(s)) <= Len(s) /\ Least(n, Len(s)) <= n
  BY DEF Least
<1> QED  BY <1>1 DEF Cut

\* A hit has a rank in a list that has it.
LEMMA RankIs ==
  ASSUME NEW s \in Seq(Hits), NEW x \in Range(s)
  PROVE  Rank(s, x) \in 1 .. Len(s)
<1>1. \E i \in 1 .. Len(s) : s[i] = x  BY DEF Range
<1> QED  BY <1>1 DEF Rank

LEMMA Scale ==
  ASSUME NEW a \in Nat, NEW b \in Nat, a < b, NEW c \in Nat \ {0}
  PROVE  a * c < b * c
<1>1. b - a \in Nat /\ b - a >= 1  OBVIOUS
<1>2. (b - a) * c >= c  BY <1>1
<1>3. b * c = a * c + (b - a) * c  OBVIOUS
<1> QED  BY <1>2, <1>3

LEMMA Chain ==
  ASSUME NEW a \in Int, NEW b \in Int, NEW c \in Int, NEW d \in Int, a <= b, b < c, c <= d
  PROVE  a < d
OBVIOUS

LEMMA Products == \A a, b \in Nat : a * b \in Nat
OBVIOUS

LEMMA Distribute ==
  ASSUME NEW a \in Nat, NEW b \in Nat, NEW c \in Nat, NEW d \in Nat, NEW e \in Nat
  PROVE  (a * b + c * d) * e = a * e * b + c * d * e
OBVIOUS

\* Whatever its rank, a hit of the exact lane outscores one that only the
\* hybrid lane has.
LEMMA ExactOutscores ==
  ASSUME NEW e \in Seq(Hits), Len(e) <= ExactK, NEW h \in Seq(Hits),
         NEW a \in Range(e), NEW b \in Range(h), b \notin Range(e)
  PROVE  Outscores(e, h, a, b)
<1> DEFINE De == Depth(e, a)  Dh == Depth(h, a)  D == Depth(h, b)
           S  == Share(HybridWeight, h, a)
<1>1. De \in Nat \ {0} /\ De <= RrfK + ExactK
  <2>1. Rank(e, a) \in 1 .. Len(e) /\ Len(e) \in Nat  BY RankIs
  <2>2. De = RrfK + Rank(e, a)  BY DEF Depth
  <2> QED  BY <2>1, <2>2, LanesNumbers
<1>2. Dh \in Nat \ {0} /\ S \in Nat
  <2>1. a \in Range(h) => Rank(h, a) \in 1 .. Len(h)  BY RankIs
  <2> QED  BY <2>1, LanesNumbers DEF Depth, Share
<1>3. D \in Nat \ {0} /\ D >= RrfK + 1
  <2>1. Rank(h, b) \in 1 .. Len(h)  BY RankIs
  <2>2. D = RrfK + Rank(h, b)  BY DEF Depth
  <2> QED  BY <2>1, <2>2, LanesNumbers
<1>4. /\ Score(e, h, a) = ExactWeight * Dh + S * De
      /\ Base(e, h, a) = De * Dh
  BY DEF Score, Base, Share
<1>5. Depth(e, b) = 1 /\ Share(ExactWeight, e, b) = 0 /\ Share(HybridWeight, h, b) = HybridWeight
  BY DEF Depth, Share
<1>6. Score(e, h, b) = HybridWeight /\ Base(e, h, b) = D
  <2>1. Base(e, h, b) = 1 * D  BY <1>5 DEF Base
  <2>2. Score(e, h, b) = 0 * D + HybridWeight * 1  BY <1>5 DEF Score
  <2> QED  BY <1>3, <2>1, <2>2, LanesNumbers
<1> HIDE DEF De, Dh, D, S
<1>7. HybridWeight * De < ExactWeight * D
  <2>1. HybridWeight * De <= HybridWeight * (RrfK + ExactK)  BY <1>1, LanesNumbers
  <2>2. ExactWeight * (RrfK + 1) <= ExactWeight * D  BY <1>3, LanesNumbers
  <2>3. /\ HybridWeight * De \in Int /\ ExactWeight * D \in Int
        /\ HybridWeight * (RrfK + ExactK) \in Int /\ ExactWeight * (RrfK + 1) \in Int
    BY <1>1, <1>3, LanesNumbers
  <2>4. HybridWeight * (RrfK + ExactK) < ExactWeight * (RrfK + 1)
    BY <2>3, FusionAssumption
  <2> QED  BY <2>1, <2>2, <2>3, <2>4, Chain
<1>8. HybridWeight * De * Dh < ExactWeight * D * Dh
  <2>1. HybridWeight * De \in Nat /\ ExactWeight * D \in Nat  BY <1>1, <1>3, LanesNumbers
  <2> QED  BY <1>2, <1>7, <2>1, Scale
<1>9. (ExactWeight * Dh + S * De) * D >= ExactWeight * D * Dh
  <2>1. S * De * D \in Nat  BY <1>1, <1>2, <1>3
  <2>2. (ExactWeight * Dh + S * De) * D = ExactWeight * D * Dh + S * De * D
    BY <1>1, <1>2, <1>3, LanesNumbers, Distribute
  <2>3. ExactWeight * D * Dh \in Nat  BY <1>2, <1>3, LanesNumbers
  <2> QED  BY <2>1, <2>2, <2>3
<1>10. HybridWeight * (De * Dh) = HybridWeight * De * Dh  BY <1>1, <1>2, LanesNumbers
<1>11. (ExactWeight * Dh + S * De) * D > HybridWeight * (De * Dh)
  <2>0. /\ HybridWeight * De \in Nat /\ ExactWeight * D \in Nat
        /\ ExactWeight * Dh \in Nat /\ S * De \in Nat
    BY <1>1, <1>2, <1>3, LanesNumbers
  <2>1. /\ HybridWeight * De * Dh \in Nat /\ ExactWeight * D * Dh \in Nat
        /\ (ExactWeight * Dh + S * De) * D \in Nat
    <3>1. ExactWeight * Dh + S * De \in Nat /\ D \in Nat /\ Dh \in Nat  BY <1>2, <1>3, <2>0
    <3> QED  BY <2>0, <3>1, Products
  <2> QED  BY <1>8, <1>9, <1>10, <2>1
<1>12. Score(e, h, a) * Base(e, h, b) > Score(e, h, b) * Base(e, h, a)
  BY <1>4, <1>6, <1>11
<1> QED  BY <1>12 DEF Outscores

\* The exact hits come first in a fusion, and all of them do if any other hit
\* is left in it.
LEMMA FusionFavoursExact ==
  ASSUME NEW e \in Seq(Hits), Len(e) <= ExactK, NEW h \in Seq(Hits), NEW limit \in Nat,
         NEW f \in Fusions(e, h, limit)
  PROVE  /\ f \in Seq(Hits)
         /\ \A i \in 1 .. Len(f) : \A j \in 1 .. i - 1 : f[i] \in Range(e) => f[j] \in Range(e)
         /\ (\E i \in 1 .. Len(f) : f[i] \notin Range(e)) => Range(e) \subseteq Range(f)
<1>1. PICK s \in Listings(Range(e) \cup Range(h)) :
        /\ f = Cut(s, limit)
        /\ \A i \in 1 .. Len(s) : \A j \in 1 .. i - 1 : ~Outscores(e, h, s[i], s[j])
  BY DEF Fusions
<1>2. Range(e) \cup Range(h) \in SUBSET Hits  BY DEF Range
<1>3. s \in Seq(Hits) /\ Range(s) = Range(e) \cup Range(h)  BY <1>2, ListingsAre
<1>4. /\ f \in Seq(Hits) /\ Len(f) \in Nat /\ Len(s) \in Nat /\ Len(f) <= Len(s)
      /\ \A i \in 1 .. Len(f) : f[i] = s[i]
  BY <1>1, <1>3, CutIs
<1>5. ASSUME NEW i \in 1 .. Len(s), NEW j \in 1 .. i - 1, s[i] \in Range(e), s[j] \notin Range(e)
      PROVE  FALSE
  <2>1. j \in 1 .. Len(s)  BY <1>4
  <2>2. s[j] \in Range(s) /\ s[i] \in Range(s)  BY <1>3, <2>1 DEF Range
  <2>3. s[j] \in Range(h)  BY <1>3, <1>5, <2>2
  <2>4. Outscores(e, h, s[i], s[j])  BY <1>5, <2>3, ExactOutscores
  <2> QED  BY <1>1, <2>4
<1>6. ASSUME NEW i \in 1 .. Len(f), f[i] \notin Range(e), NEW x \in Range(e)
      PROVE  x \in Range(f)
  <2>1. PICK k \in 1 .. Len(s) : s[k] = x
    <3>1. x \in Range(s)  BY <1>3
    <3> QED  BY <1>3, <3>1 DEF Range
  <2>2. k <= Len(f)
    <3> SUFFICES ASSUME k > Len(f) PROVE FALSE  BY <1>4
    <3>1. i \in 1 .. k - 1 /\ s[i] \notin Range(e)  BY <1>4, <1>6
    <3> QED  BY <1>5, <2>1, <3>1
  <2>3. k \in 1 .. Len(f) /\ f[k] = x  BY <1>4, <2>1, <2>2
  <2> QED  BY <1>4, <2>3 DEF Range
<1>7. ASSUME NEW i \in 1 .. Len(f), NEW j \in 1 .. i - 1, f[i] \in Range(e)
      PROVE  f[j] \in Range(e)
  <2>1. /\ i \in 1 .. Len(s) /\ j \in 1 .. Len(f)
        /\ s[i] \in Range(e) /\ f[j] = s[j]
    BY <1>4, <1>7
  <2> QED  BY <1>5, <2>1
<1>8. (\E i \in 1 .. Len(f) : f[i] \notin Range(e)) => Range(e) \subseteq Range(f)
  BY <1>6
<1> QED  BY <1>4, <1>7, <1>8

\* What a retrieval finds are lists of hits, the exact one no longer than ExactK.
LEMMA LanesTyped ==
  /\ Pool \in Nat
  /\ \A h \in HybridLists(Pool) : h \in Seq(Hits)
  /\ \A terms \in SUBSET Terms : \A m \in Matches(terms) : \A e \in ExactLists(m) : e \in Seq(Hits) /\ Len(e) <= ExactK
<1>1. Pool \in Nat  BY LanesNumbers DEF Pool
<1>2. ASSUME NEW h \in HybridLists(Pool) PROVE h \in Seq(Hits)
  <2>1. Cardinality(Hits) \in Nat  BY LanesAssumption, FS_CardinalityType
  <2>2. Least(Pool, Cardinality(Hits)) \in Nat  BY <1>1, <2>1 DEF Least
  <2>3. PICK n \in 0 .. Least(Pool, Cardinality(Hits)) : h \in [1 .. n -> Hits]
    BY DEF HybridLists, Injection
  <2> QED  BY <2>2, <2>3, SeqDef
<1>3. ASSUME NEW terms \in SUBSET Terms, NEW m \in Matches(terms), NEW e \in ExactLists(m)
      PROVE  e \in Seq(Hits) /\ Len(e) <= ExactK
  <2> DEFINE S == UNION {m[c] : c \in DOMAIN m}
  <2>1. S \in SUBSET Hits  BY DEF Matches
  <2>2. PICK s \in Listings(S) : e = Cut(s, ExactK)  BY DEF ExactLists
  <2> HIDE DEF S
  <2>3. s \in Seq(Hits)  BY <2>1, ListingsAre
  <2> QED  BY <2>2, <2>3, CutIs, LanesNumbers
<1> QED  BY <1>1, <1>2, <1>3

LEMMA RetrieveTyped ==
  ASSUME Retrieve
  PROVE  exact' \in Seq(Hits) /\ candidates' \in Seq(Hits) /\ ExactFirst'
<1>1. PICK hybrid \in HybridLists(Pool) :
        \/ exact' = <<>> /\ candidates' = hybrid
        \/ SearchBoth(exact', candidates', hybrid, Pool)
  BY DEF Retrieve
<1>2. hybrid \in Seq(Hits) /\ Pool \in Nat  BY LanesTyped
<1>3. CASE exact' = <<>> /\ candidates' = hybrid
  <2>1. Range(exact') = {}  BY <1>3 DEF Range
  <2> QED  BY <1>2, <1>3, <2>1, EmptySeq DEF ExactFirst
<1>4. CASE SearchBoth(exact', candidates', hybrid, Pool)
  <2>1. /\ exact' \in Seq(Hits) /\ Len(exact') <= ExactK
        /\ candidates' \in Fusions(exact', hybrid, Pool)
    BY <1>4, LanesTyped DEF SearchBoth
  <2> QED  BY <1>2, <2>1, FusionFavoursExact DEF ExactFirst
<1> QED  BY <1>1, <1>3, <1>4

-----------------------------------------------------------------------------
(* The steps                                                               *)

LEMMA InitEstablishes == Init => IInv
BY NothingTyped, EmptySeq
   DEF Init, IInv, TypeOK, Stages, EvidenceHolds, StageHolds, NoResult, NoText, NoReport,
       GroundedIsVerified, CitationsResolve, ClaimsCiteAnswer

LEMMA AskPreserves == ASSUME IInv, Ask PROVE IInv'
<1>1. TypeOK'  BY NothingTyped, EmptySeq DEF Ask, IInv, TypeOK, Stages
<1>2. EvidenceHolds'  BY EmptySeq DEF Ask, EvidenceHolds
<1>3. StageHolds'  BY DEF Ask, StageHolds
<1>4. (GroundedIsVerified /\ CitationsResolve /\ ClaimsCiteAnswer)'
  BY DEF Ask, NoResult, NoReport, GroundedIsVerified, CitationsResolve, ClaimsCiteAnswer
<1> QED  BY <1>1, <1>2, <1>3, <1>4 DEF IInv

LEMMA ResolvePreserves == ASSUME IInv, Resolve PROVE IInv'
<1>1. TypeOK'  BY DEF Resolve, evidence, IInv, TypeOK, Stages
<1>2. EvidenceHolds'  BY DEF Resolve, evidence, IInv, EvidenceHolds
<1>3. StageHolds'  BY DEF Resolve, evidence, IInv, StageHolds
<1>4. (GroundedIsVerified /\ CitationsResolve /\ ClaimsCiteAnswer)'
  BY DEF Resolve, evidence, IInv, GroundedIsVerified, CitationsResolve, ClaimsCiteAnswer
<1> QED  BY <1>1, <1>2, <1>3, <1>4 DEF IInv

\* A ranking names no hit twice, so what is below the threshold is not above it.
LEMMA RerankPreserves == ASSUME IInv, Rerank PROVE IInv'
<1>0. PICK ranking \in Rankings : \E strong \in 0 .. Len(ranking) :
        /\ hits' = SubSeq(ranking, 1, strong)
        /\ weak' = {ranking[i] : i \in strong + 1 .. Len(ranking)}
    BY DEF Rerank
<1>1. PICK strong \in 0 .. Len(ranking) :
        /\ hits' = SubSeq(ranking, 1, strong)
        /\ weak' = {ranking[i] : i \in strong + 1 .. Len(ranking)}
    BY <1>0
<1>2. ranking \in Seq(Hits) /\ IsInjective(ranking)
  <2>1. candidates \in Seq(Hits) /\ Len(candidates) \in Nat  BY DEF IInv, TypeOK
  <2>2. Range(candidates) \subseteq Hits  BY <2>1 DEF Range
  <2>3. Least(EvidenceLimit, Len(candidates)) \in Nat  BY <2>1 DEF Least
  <2> QED  BY <2>2, <2>3, SeqDef DEF Rankings, Injection
<1>3. /\ hits' \in Seq(Hits) /\ Len(hits') = strong
      /\ \A i \in 1 .. strong : hits'[i] = ranking[i]
    BY <1>1, <1>2
<1>4. TypeOK'
  <2>1. weak' \in SUBSET Hits  BY <1>1, <1>2
  <2> QED  BY EmptySeq, <1>3, <2>1 DEF Rerank, IInv, TypeOK, Stages
<1>5. EvidenceHolds'
  <2>1. \A i \in 1 .. strong : hits'[i] \notin weak'
      BY <1>1, <1>2, <1>3 DEF IsInjective
  <2> QED  BY <1>3, <2>1 DEF Rerank, IInv, StageHolds, EvidenceHolds
<1>6. StageHolds'  BY DEF Rerank, IInv, StageHolds
<1>7. (GroundedIsVerified /\ CitationsResolve /\ ClaimsCiteAnswer)'
  BY DEF Rerank, IInv, StageHolds, NoResult, NoReport, GroundedIsVerified,
         CitationsResolve, ClaimsCiteAnswer
<1> QED  BY <1>4, <1>5, <1>6, <1>7 DEF IInv

\* The lanes and their fusion list hits of the index.
LEMMA RetrievePreserves == ASSUME IInv, Retrieve PROVE IInv'
<1>1. exact' \in Seq(Hits) /\ candidates' \in Seq(Hits)  BY RetrieveTyped
<1>2. TypeOK'  BY <1>1 DEF Retrieve, IInv, TypeOK, Stages
<1>3. EvidenceHolds'  BY DEF Retrieve, IInv, EvidenceHolds
<1>4. StageHolds'  BY DEF Retrieve, IInv, StageHolds
<1>5. (GroundedIsVerified /\ CitationsResolve /\ ClaimsCiteAnswer)'
  BY DEF Retrieve, IInv, StageHolds, NoResult, NoReport, GroundedIsVerified,
         CitationsResolve, ClaimsCiteAnswer
<1> QED  BY <1>2, <1>3, <1>4, <1>5 DEF IInv

\* The next block is of the next hit, and is cut to what remains.
LEMMA BlockPreserves ==
  ASSUME IInv, stage = "context", Len(blocks) < Len(hits),
         NEW size \in Nat, size <= Remaining,
         blocks' = Append(blocks, [hit |-> NextHit, size |-> size]),
         used' = used + size + Separator,
         UNCHANGED <<stage, exact, candidates, hits, weak, text, report, approved, result>>
  PROVE  IInv'
<1> DEFINE b == [hit |-> NextHit, size |-> size]
<1>0. blocks \in Seq(Block) /\ hits \in Seq(Hits) /\ used \in Nat /\ Separator \in Nat
  BY DEF IInv, TypeOK, Separator
<1>1. NextHit \in Hits  BY <1>0 DEF NextHit
<1>2. b \in Block  BY <1>1 DEF Block
<1>3. /\ blocks' \in Seq(Block) /\ Len(blocks') = Len(blocks) + 1
      /\ blocks'[Len(blocks) + 1] = b
      /\ \A i \in 1 .. Len(blocks) : blocks'[i] = blocks[i]
  <2>1. blocks' = Append(blocks, b)  OBVIOUS
  <2> HIDE DEF b
  <2> QED  BY <1>0, <1>2, <2>1
<1>4. TypeOK'  BY <1>0, <1>3 DEF IInv, TypeOK
<1>5. EvidenceHolds'
  <2>1. used' <= MaxChars  BY <1>0 DEF Remaining
  <2>2. \A i \in 1 .. Len(blocks') : blocks'[i].hit = hits[i]
      BY <1>0, <1>3 DEF IInv, EvidenceHolds, NextHit
  <2> QED  BY <1>0, <1>3, <2>1, <2>2 DEF IInv, EvidenceHolds
<1>6. StageHolds'  BY DEF IInv, StageHolds, PassesGate
<1>7. (GroundedIsVerified /\ CitationsResolve /\ ClaimsCiteAnswer)'
  BY DEF IInv, StageHolds, NoResult, NoReport, GroundedIsVerified, CitationsResolve,
         ClaimsCiteAnswer
<1> QED  BY <1>4, <1>5, <1>6, <1>7 DEF IInv

LEMMA AddPreserves == ASSUME IInv, AddBlock PROVE IInv'
<1>1. hits \in Seq(Hits) /\ blocks \in Seq(Block)  BY DEF IInv, TypeOK
<1>2. NextHit \in Hits  BY <1>1 DEF AddBlock, NextHit
<1>3. Size[NextHit] \in Nat  BY <1>2
<1> QED  BY <1>3, BlockPreserves DEF AddBlock

LEMMA CutPreserves == ASSUME IInv, CutFirstBlock PROVE IInv'
<1>0. PICK size \in 1 .. MaxChars : /\ blocks' = <<[hit |-> NextHit, size |-> size]>>
                                    /\ used' = size
  BY DEF CutFirstBlock
<1>1. hits \in Seq(Hits) /\ hits # <<>> /\ blocks = <<>> /\ stage = "context"
  BY DEF IInv, TypeOK, CutFirstBlock
<1>2. NextHit = hits[1] /\ NextHit \in Hits /\ Len(hits) >= 1  BY <1>1 DEF NextHit
<1>3. TypeOK'
  <2>1. [hit |-> NextHit, size |-> size] \in Block  BY <1>2 DEF Block
  <2> DEFINE b == [hit |-> NextHit, size |-> size]
  <2>2. blocks' = <<b>> /\ b \in Block  BY <1>0, <2>1
  <2> HIDE DEF b
  <2>3. blocks' \in Seq(Block)  BY <2>2
  <2> QED  BY <1>0, <2>3 DEF CutFirstBlock, IInv, TypeOK
<1>4. EvidenceHolds'  BY <1>0, <1>1, <1>2 DEF CutFirstBlock, IInv, EvidenceHolds
<1>5. StageHolds'  BY <1>1 DEF CutFirstBlock, IInv, StageHolds
<1>6. (GroundedIsVerified /\ CitationsResolve /\ ClaimsCiteAnswer)'
  BY <1>1 DEF CutFirstBlock, IInv, StageHolds, NoResult, NoReport, GroundedIsVerified,
              CitationsResolve, ClaimsCiteAnswer
<1> QED  BY <1>3, <1>4, <1>5, <1>6 DEF IInv

\* A result without citations and without a passed report says nothing that
\* later steps could refute.
LEMMA EndPreserves ==
  ASSUME IInv, NEW kind \in {"abstained", "failed"}, NEW t \in Text,
         NEW r \in Report, ~r.passed,
         Return(kind, t, {}, r),
         UNCHANGED <<evidence, text>>, report' \in Report, approved' \in Text
  PROVE  IInv'
<1>1. TypeOK'  BY DEF Return, evidence, IInv, TypeOK, Stages, Result
<1>2. EvidenceHolds'  BY DEF evidence, IInv, EvidenceHolds
<1>3. StageHolds'  BY DEF Return, StageHolds
<1>4. (GroundedIsVerified /\ CitationsResolve /\ ClaimsCiteAnswer)'
  BY DEF Return, GroundedIsVerified, CitationsResolve, ClaimsCiteAnswer
<1> QED  BY <1>1, <1>2, <1>3, <1>4 DEF IInv

\* The message of an abstention is a text, and is not the report's.
LEMMA AbstainPreserves ==
  ASSUME IInv, NEW r \in Report, ~r.passed, Abstain(r),
         UNCHANGED <<evidence, text>>, report' \in Report, approved' \in Text
  PROVE  IInv'
<1> DEFINE t == [draft |-> "apology", ids |-> {}]
<1>1. t \in Text  BY DEF Text
<1>2. Return("abstained", t, {}, r)  BY DEF Abstain
<1> HIDE DEF t
<1> QED  BY <1>1, <1>2, EndPreserves

\* A text that passed its last verification is returned with its citations.
LEMMA GroundedPreserves ==
  ASSUME IInv, stage \in {"verify", "recheck"},
         NEW v \in Verdict, Verified(v, text.ids).passed,
         Approve(v), Grounded(text, Verified(v, text.ids)),
         UNCHANGED <<evidence, text>>, report' \in Report
  PROVE  IInv'
<1> DEFINE r == Verified(v, text.ids)
           cited == {blocks[n].hit : n \in text.ids}
<1>0. /\ text \in Text /\ text.ids \in SUBSET Ids
      /\ blocks \in Seq(Block) /\ hits \in Seq(Hits)
      /\ stage' = "idle"
      /\ result' = [kind |-> "grounded", text |-> text, citations |-> cited, report |-> r]
  BY DEF IInv, TypeOK, Text, Grounded, Return
<1>1. PassesGate(text.ids) /\ text.draft # "none"  BY DEF IInv, StageHolds
<1>2. \A n \in text.ids : n \in 1 .. Len(blocks) /\ n \in 1 .. Len(hits) /\ blocks[n].hit = hits[n]
  BY <1>0, <1>1 DEF PassesGate, Valid, IInv, EvidenceHolds
<1>3. cited \in SUBSET Hits /\ cited # {}
  BY <1>0, <1>1, <1>2 DEF PassesGate
<1>4. cited \cap weak = {}  BY <1>2 DEF IInv, EvidenceHolds
<1>5. r \in Report  BY <1>0, VerifiedTyped
<1>6. approved' = text  BY <1>0, PassedReport DEF Approve
<1>7. \A i \in 1 .. Len(r.claims) : r.claims[i].supported /\ r.claims[i].ids \subseteq text.ids
  BY <1>0, PassedReport
<1>8. \A n \in text.ids : blocks[n].hit \in cited  OBVIOUS
<1>9. r.passed  OBVIOUS
<1> HIDE DEF r, cited
<1>10. TypeOK'  BY <1>0, <1>3, <1>5, <1>6 DEF evidence, IInv, TypeOK, Stages, Result
<1>11. EvidenceHolds'  BY DEF evidence, IInv, EvidenceHolds
<1>12. StageHolds'  BY <1>0 DEF StageHolds
<1>13. GroundedIsVerified'
  BY <1>0, <1>1, <1>6, <1>9 DEF GroundedIsVerified, NoText
<1>14. CitationsResolve'
  BY <1>0, <1>2, <1>3, <1>4, <1>8 DEF evidence, CitationsResolve
<1>15. ClaimsCiteAnswer'  BY <1>0, <1>7 DEF ClaimsCiteAnswer
<1> QED  BY <1>10, <1>11, <1>12, <1>13, <1>14, <1>15 DEF IInv

\* Only a text that passes the gate goes on to a verification.
LEMMA DraftPreserves ==
  ASSUME IInv, Generate \/ Repair
  PROVE  IInv'
<1>0. PICK p \in Payloads, d \in {"answer", "repair"} :
        PassesGate(Cited(p)) /\ text' = [draft |-> d, ids |-> Cited(p)]
  BY DEF Generate, Repair
<1>1. /\ stage \in {"generate", "repair"} /\ stage' \in {"verify", "recheck"}
      /\ stage' = "recheck" => stage = "repair"
      /\ UNCHANGED <<evidence, report, approved, result>>
  BY DEF Generate, Repair
<1>2. Cited(p) \in SUBSET Ids  BY DEF Cited, Payload
<1>3. TypeOK'
  <2>1. text' \in Text  BY <1>0, <1>2 DEF Text
  <2> QED  BY <1>1, <2>1 DEF evidence, IInv, TypeOK, Stages
<1>4. EvidenceHolds'  BY <1>1 DEF evidence, IInv, EvidenceHolds
<1>5. StageHolds'
  <2>1. PassesGate(text'.ids) /\ text'.draft # "none"  BY <1>0
  <2> QED  BY <1>1, <2>1 DEF evidence, IInv, StageHolds, PassesGate, Valid
<1>6. (GroundedIsVerified /\ CitationsResolve /\ ClaimsCiteAnswer)'
  BY <1>1 DEF IInv, StageHolds, NoResult, NoReport, GroundedIsVerified, CitationsResolve,
              ClaimsCiteAnswer
<1> QED  BY <1>3, <1>4, <1>5, <1>6 DEF IInv

\* The first verification returns, abstains, or hands a failed report on.
LEMMA VerifyPreserves == ASSUME IInv, Verify PROVE IInv'
<1>0. PICK v \in Verdicts \cup {Unparsed} :
        LET r == Verified(v, text.ids)
        IN  /\ report' = r /\ Approve(v)
            /\ IF r.passed THEN Grounded(text, r)
               ELSE IF Repairable(r) THEN stage' = "repair" /\ UNCHANGED result
               ELSE Abstain(r)
  BY DEF Verify
<1> DEFINE r == Verified(v, text.ids)
<1>1. v \in Verdict  BY VerdictsTyped
<1>2. /\ text \in Text /\ text.ids \in SUBSET Ids /\ approved \in Text
      /\ stage = "verify" /\ UNCHANGED <<evidence, text>>
  BY DEF IInv, TypeOK, Text, Verify
<1>3. r \in Report  BY <1>1, <1>2, VerifiedTyped
<1>4. approved' \in Text  BY <1>0, <1>2 DEF Approve
<1>5. CASE r.passed  BY <1>0, <1>1, <1>2, <1>3, <1>5, GroundedPreserves
<1>6. CASE ~r.passed /\ Repairable(r)
  <2>0. report' = r /\ ~r.passed /\ stage' = "repair" /\ UNCHANGED result  BY <1>0, <1>6
  <2> HIDE DEF r
  <2>1. TypeOK'  BY <1>2, <1>3, <1>4, <2>0 DEF evidence, IInv, TypeOK, Stages
  <2>2. EvidenceHolds'  BY <1>2 DEF evidence, IInv, EvidenceHolds
  <2>3. StageHolds'  BY <1>2, <2>0 DEF evidence, IInv, StageHolds
  <2>4. (GroundedIsVerified /\ CitationsResolve /\ ClaimsCiteAnswer)'
    BY <1>2, <2>0 DEF IInv, StageHolds, NoResult, NoReport, GroundedIsVerified,
                      CitationsResolve, ClaimsCiteAnswer
  <2> QED  BY <2>1, <2>2, <2>3, <2>4 DEF IInv
<1>7. CASE ~r.passed /\ ~Repairable(r)
  BY <1>0, <1>2, <1>3, <1>4, <1>7, AbstainPreserves
<1> QED  BY <1>5, <1>6, <1>7

LEMMA RecheckPreserves == ASSUME IInv, Recheck PROVE IInv'
<1>0. PICK v \in Verdicts \cup {Unparsed} :
        LET r == Verified(v, text.ids)
        IN  Approve(v) /\ IF r.passed THEN Grounded(text, r) ELSE Abstain(report)
  BY DEF Recheck
<1> DEFINE r == Verified(v, text.ids)
<1>1. v \in Verdict  BY VerdictsTyped
<1>2. /\ text \in Text /\ approved \in Text /\ report \in Report /\ ~report.passed
      /\ stage = "recheck" /\ UNCHANGED <<evidence, text, report>>
  BY DEF IInv, TypeOK, StageHolds, Recheck
<1>3. approved' \in Text  BY <1>0, <1>2 DEF Approve
<1>4. CASE r.passed  BY <1>0, <1>1, <1>2, <1>4, GroundedPreserves
<1>5. CASE ~r.passed  BY <1>0, <1>2, <1>3, <1>5, AbstainPreserves
<1> QED  BY <1>4, <1>5

\* The remaining steps end a question without an answer, or go on to the model.
LEMMA OthersPreserve ==
  ASSUME IInv, CloseContext \/ Refuse \/ RejectCitations \/ RepairFails \/ Fail
  PROVE  IInv'
<1>0. UNCHANGED <<evidence, text, report, approved>> /\ report' \in Report /\ approved' \in Text
  BY DEF CloseContext, Refuse, RejectCitations, RepairFails, Fail, IInv, TypeOK
<1>n. NoReport \in Report /\ ~NoReport.passed /\ NoText \in Text
  BY NothingTyped DEF NoReport
<1>1. CASE CloseContext
  <2>1. CASE blocks = <<>>
    BY <1>0, <1>1, <1>n, <2>1, AbstainPreserves DEF CloseContext
  <2>2. CASE blocks # <<>>
    <3>0. stage = "context" /\ stage' = "generate" /\ UNCHANGED result
      BY <1>1, <2>2 DEF CloseContext
    <3>1. TypeOK'  BY <1>0, <3>0 DEF evidence, IInv, TypeOK, Stages
    <3>2. EvidenceHolds'  BY <1>0 DEF evidence, IInv, EvidenceHolds
    <3>3. StageHolds'  BY <1>0, <2>2, <3>0 DEF evidence, IInv, StageHolds
    <3>4. (GroundedIsVerified /\ CitationsResolve /\ ClaimsCiteAnswer)'
      BY <3>0 DEF IInv, StageHolds, NoResult, NoReport, GroundedIsVerified, CitationsResolve,
                  ClaimsCiteAnswer
    <3> QED  BY <3>1, <3>2, <3>3, <3>4 DEF IInv
  <2> QED  BY <2>1, <2>2
<1>2. CASE Refuse
  <2>0. PICK p \in Payloads : Return("abstained", [draft |-> "refusal", ids |-> p.inline], {}, NoReport)
    BY <1>2 DEF Refuse
  <2> DEFINE t == [draft |-> "refusal", ids |-> p.inline]
  <2>1. t \in Text  BY DEF Text, Payload
  <2>2. Return("abstained", t, {}, NoReport)  BY <2>0
  <2> HIDE DEF t
  <2> QED  BY <1>0, <1>n, <2>1, <2>2, EndPreserves
<1>3. CASE RejectCitations
  BY <1>0, <1>3, <1>n, AbstainPreserves DEF RejectCitations
<1>4. CASE RepairFails
  <2>1. report \in Report /\ ~report.passed  BY <1>4 DEF RepairFails, IInv, TypeOK, StageHolds
  <2> QED  BY <1>0, <1>4, <2>1, AbstainPreserves DEF RepairFails
<1>5. CASE Fail
  BY <1>0, <1>5, <1>n, EndPreserves DEF Fail
<1> QED  BY <1>1, <1>2, <1>3, <1>4, <1>5

LEMMA StutterPreserves == ASSUME IInv, UNCHANGED vars PROVE IInv'
<1> USE DEF vars, evidence
<1>1. TypeOK'  BY DEF IInv, TypeOK
<1>2. EvidenceHolds'  BY DEF IInv, EvidenceHolds
<1>3. StageHolds'  BY DEF IInv, StageHolds, PassesGate, Valid
<1>4. (GroundedIsVerified /\ CitationsResolve /\ ClaimsCiteAnswer)'
  BY DEF IInv, GroundedIsVerified, CitationsResolve, ClaimsCiteAnswer
<1> QED  BY <1>1, <1>2, <1>3, <1>4 DEF IInv

LEMMA NextPreserves == IInv /\ [Next]_vars => IInv'
<1> SUFFICES ASSUME IInv, [Next]_vars PROVE IInv'  OBVIOUS
<1>1. CASE Ask  BY <1>1, AskPreserves
<1>2. CASE Resolve  BY <1>2, ResolvePreserves
<1>3. CASE Retrieve \/ Rerank  BY <1>3, RetrievePreserves, RerankPreserves
<1>4. CASE AddBlock  BY <1>4, AddPreserves
<1>5. CASE CutFirstBlock  BY <1>5, CutPreserves
<1>6. CASE CloseContext \/ Refuse \/ RejectCitations \/ RepairFails \/ Fail
  BY <1>6, OthersPreserve
<1>7. CASE Generate \/ Repair  BY <1>7, DraftPreserves
<1>8. CASE Verify  BY <1>8, VerifyPreserves
<1>9. CASE Recheck  BY <1>9, RecheckPreserves
<1>10. CASE UNCHANGED vars  BY <1>10, StutterPreserves
<1> QED  BY <1>1, <1>2, <1>3, <1>4, <1>5, <1>6, <1>7, <1>8, <1>9, <1>10 DEF Next

LEMMA Inductive == Spec => []IInv
BY InitEstablishes, NextPreserves, PTL DEF Spec

\* The candidates are those of the last retrieval, or none.
LEMMA CandidatesStay == ExactFirst /\ [Next]_vars => ExactFirst'
<1> SUFFICES ASSUME ExactFirst, [Next]_vars PROVE ExactFirst'  OBVIOUS
<1>1. CASE Retrieve  BY <1>1, RetrieveTyped
<1>2. CASE Ask \/ Rerank
  <2>1. candidates' = <<>>  BY <1>2 DEF Ask, Rerank
  <2> QED  BY <2>1 DEF ExactFirst
<1>3. CASE ~(Retrieve \/ Ask \/ Rerank)
  <2>1. UNCHANGED <<exact, candidates>>
    BY <1>3 DEF Next, vars, evidence, Resolve, AddBlock, CutFirstBlock, CloseContext, Refuse,
                RejectCitations, Generate, Verify, RepairFails, Repair, Recheck, Fail
  <2> QED  BY <2>1 DEF ExactFirst
<1> QED  BY <1>1, <1>2, <1>3

-----------------------------------------------------------------------------
(* The length of the evidence.                                             *)

\* Every set of numbers has a smallest one: what holds of each number because it
\* holds of the smaller ones holds of all.  The downward closed sets of its
\* members are finite, and inclusion of finite sets is well-founded.
LEMMA Smallest ==
  ASSUME NEW S \in SUBSET Nat, S # {}
  PROVE  \E x \in S : \A y \in S : x <= y
<1> DEFINE downs == {0 .. k : k \in S}
           below == StrictSubsetOrdering(Nat)
<1>1. downs \subseteq FiniteSubsetsOf(Nat) /\ downs # {}
  <2>1. \A k \in S : 0 .. k \subseteq Nat /\ IsFiniteSet(0 .. k)
    BY FS_Interval
  <2> QED
    BY <2>1 DEF FiniteSubsetsOf
<1>2. IsWellFoundedOn(below, FiniteSubsetsOf(Nat))
  BY FS_StrictSubsetOrderingWellFounded
<1>3. \A x \in S : 0 .. x \in downs
  OBVIOUS
<1>4. \A d \in downs : \E x \in S : d = 0 .. x
  OBVIOUS
<1> HIDE DEF downs, below
<1>5. PICK low \in downs : \A d \in downs : <<d, low>> \notin below
  BY <1>1, <1>2, WFMin, Zenon
<1>6. PICK x \in S : low = 0 .. x
  BY <1>4
<1>7. ASSUME NEW y \in S, y < x PROVE FALSE
  <2>1. 0 .. y \in downs
    BY <1>3
  <2>2. 0 .. y \subseteq 0 .. x /\ 0 .. y # 0 .. x /\ 0 .. y \in SUBSET Nat /\ 0 .. x \in SUBSET Nat
    BY <1>7
  <2>3. <<0 .. y, 0 .. x>> \in below
    BY <2>2 DEF StrictSubsetOrdering, below
  <2> QED
    BY <1>5, <1>6, <2>1, <2>3
<1> QED
  BY <1>7

\* f counts the characters of the blocks up to each, as JoinedLength does.
Running(f, bs) ==
  f = [i \in 0 .. Len(bs) |-> IF i = 0 THEN 0 ELSE f[i - 1] + bs[i].size + (IF i = 1 THEN 0 ELSE 2)]

LEMMA RunningIsJoined ==
  ASSUME NEW bs, NEW f, Running(f, bs)
  PROVE  \E g : Running(g, bs) /\ JoinedLength(bs) = g[Len(bs)]
<1>1. JoinedLength(bs) = (CHOOSE g : Running(g, bs))[Len(bs)]
  BY DEF JoinedLength, Running
<1>2. Running((CHOOSE g : Running(g, bs)), bs)
  OBVIOUS
<1> QED
  BY <1>1, <1>2

LEMMA RunningAt ==
  ASSUME NEW bs \in Seq(Block), NEW f, Running(f, bs)
  PROVE  /\ f[0] = 0
         /\ \A i \in 1 .. Len(bs) : f[i] = f[i - 1] + bs[i].size + (IF i = 1 THEN 0 ELSE 2)
         /\ DOMAIN f = 0 .. Len(bs)
<1>1. Len(bs) \in Nat
  OBVIOUS
<1> DEFINE n == Len(bs)
           step(i) == IF i = 0 THEN 0 ELSE f[i - 1] + bs[i].size + (IF i = 1 THEN 0 ELSE 2)
<1>2. f = [i \in 0 .. n |-> step(i)]
  BY DEF Running
<1> HIDE DEF step, n
<1>3. DOMAIN f = 0 .. n /\ \A i \in 0 .. n : f[i] = step(i)
  BY <1>2
<1>4. 0 \in 0 .. n /\ \A i \in 1 .. n : i \in 0 .. n /\ i # 0
  BY <1>1 DEF n
<1>5. f[0] = step(0) /\ \A i \in 1 .. n : f[i] = step(i) /\ i # 0
  BY <1>3, <1>4
<1> QED
  BY <1>3, <1>5 DEF step, n

\* What has been counted does not depend on what comes after it.
LEMMA RunningAgrees ==
  ASSUME NEW bs \in Seq(Block), NEW cs \in Seq(Block), NEW f, Running(f, bs), NEW g, Running(g, cs),
         Len(bs) <= Len(cs), \A i \in 1 .. Len(bs) : cs[i] = bs[i]
  PROVE  \A i \in 0 .. Len(bs) : f[i] = g[i]
<1> DEFINE differ == {i \in 0 .. Len(bs) : f[i] # g[i]}
<1>1. Len(bs) \in Nat /\ Len(cs) \in Nat
  OBVIOUS
<1> SUFFICES ASSUME differ # {} PROVE FALSE
  OBVIOUS
<1>2. PICK i \in differ : \A j \in differ : i <= j
  <2>1. differ \in SUBSET Nat
    BY <1>1
  <2> HIDE DEF differ
  <2> QED
    BY <2>1, Smallest
<1>3. i \in 0 .. Len(bs) /\ f[i] # g[i]
  OBVIOUS
<1>4. CASE i = 0
  BY <1>3, <1>4, RunningAt
<1>5. CASE i # 0
  <2>1. i \in 1 .. Len(bs) /\ i \in 1 .. Len(cs) /\ i - 1 \in 0 .. Len(bs) /\ ~(i <= i - 1)
    BY <1>1, <1>3, <1>5
  <2>2. i - 1 \notin differ
    BY <1>2, <2>1
  <2>3. f[i - 1] = g[i - 1]
    BY <2>1, <2>2
  <2>4. f[i] = f[i - 1] + bs[i].size + (IF i = 1 THEN 0 ELSE 2)
    BY <2>1, RunningAt
  <2>5. g[i] = g[i - 1] + cs[i].size + (IF i = 1 THEN 0 ELSE 2)
    BY <2>1, RunningAt
  <2>6. cs[i] = bs[i]
    BY <2>1
  <2> QED
    BY <1>3, <2>3, <2>4, <2>5, <2>6
<1> QED
  BY <1>4, <1>5

\* One more block adds its own characters and a separator.
Extended(f, bs, b) ==
  [i \in 0 .. Len(bs) + 1 |->
     IF i = Len(bs) + 1 THEN f[Len(bs)] + b.size + (IF bs = <<>> THEN 0 ELSE 2) ELSE f[i]]

LEMMA RunningExtends ==
  ASSUME NEW bs \in Seq(Block), NEW b \in Block, NEW f, Running(f, bs)
  PROVE  Running(Extended(f, bs, b), Append(bs, b))
<1> DEFINE n == Len(bs)
           g == Extended(f, bs, b)
           cs == Append(bs, b)
           step(i) == IF i = 0 THEN 0 ELSE g[i - 1] + cs[i].size + (IF i = 1 THEN 0 ELSE 2)
<1>1. n \in Nat /\ Len(cs) = n + 1 /\ cs[n + 1] = b /\ (bs = <<>> <=> n = 0)
      /\ \A i \in 1 .. n : cs[i] = bs[i]
  OBVIOUS
<1>2. /\ g = [i \in 0 .. n + 1 |-> IF i = n + 1 THEN f[n] + b.size + (IF bs = <<>> THEN 0 ELSE 2) ELSE f[i]]
      /\ DOMAIN g = 0 .. n + 1
  BY DEF Extended
<1>3. /\ f[0] = 0
      /\ \A i \in 1 .. n : f[i] = f[i - 1] + bs[i].size + (IF i = 1 THEN 0 ELSE 2)
  BY RunningAt
<1> HIDE DEF g, n, cs
<1>4. /\ g[n + 1] = f[n] + b.size + (IF bs = <<>> THEN 0 ELSE 2)
      /\ \A i \in 0 .. n : g[i] = f[i]
  BY <1>1, <1>2
<1>5. ASSUME NEW i \in 0 .. n + 1 PROVE g[i] = step(i)
  <2>1. CASE i = 0
    BY <1>1, <1>3, <1>4, <2>1
  <2>2. CASE i \in 1 .. n
    <3>1. i - 1 \in 0 .. n /\ i \in 0 .. n /\ i # 0
      BY <1>1, <2>2
    <3>2. g[i] = f[i] /\ g[i - 1] = f[i - 1] /\ cs[i] = bs[i]
      BY <1>1, <1>4, <2>2, <3>1
    <3> QED
      BY <1>3, <2>2, <3>1, <3>2
  <2>3. CASE i = n + 1
    <3>1. i - 1 = n /\ i # 0 /\ n \in 0 .. n /\ (i = 1 <=> bs = <<>>)
      BY <1>1, <2>3
    <3>2. g[i - 1] = f[n] /\ cs[i] = b
      BY <1>1, <1>4, <2>3, <3>1
    <3> QED
      BY <1>4, <2>3, <3>1, <3>2
  <2>4. i = 0 \/ i \in 1 .. n \/ i = n + 1
    BY <1>1
  <2> QED
    BY <2>1, <2>2, <2>3, <2>4
<1> HIDE DEF step
<1>6. g = [i \in 0 .. n + 1 |-> step(i)]
  BY <1>2, <1>5
<1>7. g = [i \in 0 .. Len(cs) |-> step(i)]
  BY <1>1, <1>6
<1>8. Running(g, cs)
  BY <1>7 DEF Running, step
<1> QED
  BY <1>8 DEF g, cs

LEMMA RunningExists == ASSUME NEW bs \in Seq(Block) PROVE \E f : Running(f, bs)
<1> DEFINE bad == {n \in Nat : \E cs \in Seq(Block) : Len(cs) = n /\ ~\E f : Running(f, cs)}
<1> SUFFICES ASSUME ~\E f : Running(f, bs) PROVE FALSE
  OBVIOUS
<1>1. Len(bs) \in bad
  OBVIOUS
<1>2. PICK n \in bad : \A m \in bad : n <= m
  <2>1. bad \in SUBSET Nat /\ bad # {}
    BY <1>1
  <2> HIDE DEF bad
  <2> QED
    BY <2>1, Smallest
<1>3. PICK cs \in Seq(Block) : Len(cs) = n /\ ~\E f : Running(f, cs)
  OBVIOUS
<1>4. CASE cs = <<>>
  <2> DEFINE f == [i \in 0 .. 0 |-> 0]
  <2>1. Len(<<>>) = 0 /\ \A i \in 0 .. 0 : i = 0
    OBVIOUS
  <2>2. Running(f, <<>>)
    BY <2>1 DEF Running
  <2> QED
    BY <1>3, <1>4, <2>2
<1>5. CASE cs # <<>>
  <2>1. \E front \in Seq(Block), last \in Block : cs = Append(front, last)
    BY <1>5, SequenceEmptyOrAppend
  <2>2. PICK front \in Seq(Block), last \in Block : cs = Append(front, last)
    BY <2>1
  <2>3. Len(front) \in Nat /\ n = Len(front) + 1
    BY <1>3, <2>2
  <2>4. Len(front) \notin bad
    <3>1. ~(n <= Len(front))
      BY <2>3
    <3> HIDE DEF bad
    <3> QED
      BY <1>2, <3>1, Zenon
  <2>5. PICK f : Running(f, front)
    BY <2>3, <2>4
  <2> QED
    BY <1>3, <2>2, <2>5, RunningExtends
<1> QED
  BY <1>4, <1>5

LEMMA JoinedAdds ==
  ASSUME NEW bs \in Seq(Block), NEW b \in Block
  PROVE  JoinedLength(Append(bs, b)) = JoinedLength(bs) + b.size + (IF bs = <<>> THEN 0 ELSE 2)
<1> DEFINE cs == Append(bs, b)
<1>1. cs \in Seq(Block) /\ Len(bs) \in Nat /\ Len(cs) = Len(bs) + 1 /\ \A i \in 1 .. Len(cs) : cs[i] = cs[i]
  OBVIOUS
<1>2. PICK f : Running(f, bs) /\ JoinedLength(bs) = f[Len(bs)]
  BY RunningExists, RunningIsJoined
<1>3. Running(Extended(f, bs, b), cs)
  BY <1>2, RunningExtends
<1> HIDE DEF cs
<1>4. PICK g : Running(g, cs) /\ JoinedLength(cs) = g[Len(cs)]
  BY <1>3, RunningIsJoined
<1>5. g[Len(cs)] = Extended(f, bs, b)[Len(cs)]
  <2>1. Len(cs) <= Len(cs) /\ Len(cs) \in 0 .. Len(cs)
    BY <1>1
  <2> QED
    BY <1>1, <1>3, <1>4, <2>1, RunningAgrees
<1>6. Extended(f, bs, b)[Len(cs)] = f[Len(bs)] + b.size + (IF bs = <<>> THEN 0 ELSE 2)
  BY <1>1 DEF Extended
<1> QED
  BY <1>2, <1>4, <1>5, <1>6 DEF cs

LEMMA JoinedNothing == JoinedLength(<<>>) = 0
<1>1. <<>> \in Seq(Block) /\ Len(<<>>) = 0
  OBVIOUS
<1>2. PICK f : Running(f, <<>>) /\ JoinedLength(<<>>) = f[Len(<<>>)]
  BY <1>1, RunningExists, RunningIsJoined
<1> QED
  BY <1>1, <1>2, RunningAt

-----------------------------------------------------------------------------
(* The evidence is what fits.                                              *)

\* What is counted is the length of the joined blocks, only the first is cut,
\* and the context was closed because the next did not fit.
PrefixHolds ==
  /\ used = JoinedLength(blocks)
  /\ \A i \in 2 .. Len(blocks) : blocks[i].size = Size[hits[i]]
  /\ stage \in {"generate", "verify", "repair", "recheck"} /\ Len(blocks) < Len(hits) =>
       Size[NextHit] > Remaining

\* Appending a block keeps the count, and nothing is asked yet.
LEMMA BlockFits ==
  ASSUME IInv, PrefixHolds, stage = "context", Len(blocks) < Len(hits),
         NEW size \in Nat, blocks = <<>> \/ size = Size[NextHit],
         blocks' = Append(blocks, [hit |-> NextHit, size |-> size]),
         used' = used + size + Separator, stage' = stage, hits' = hits
  PROVE  PrefixHolds'
<1> DEFINE b == [hit |-> NextHit, size |-> size]
<1>1. blocks \in Seq(Block) /\ hits \in Seq(Hits) /\ NextHit \in Hits /\ Len(blocks) \in Nat
  BY DEF IInv, TypeOK, NextHit
<1>2. b \in Block /\ b.size = size
  BY <1>1 DEF Block
<1>3. blocks' = Append(blocks, b)
  OBVIOUS
<1> HIDE DEF b
<1>4. JoinedLength(Append(blocks, b)) = JoinedLength(blocks) + b.size + (IF blocks = <<>> THEN 0 ELSE 2)
  BY <1>1, <1>2, JoinedAdds
<1>5. used' = JoinedLength(blocks')
  BY <1>2, <1>3, <1>4 DEF PrefixHolds, Separator
<1>6. ASSUME NEW i \in 2 .. Len(blocks') PROVE blocks'[i].size = Size[hits'[i]]
  <2>1. CASE i <= Len(blocks)
    <3>1. i \in 2 .. Len(blocks) /\ blocks'[i] = blocks[i]
      BY <1>1, <1>2, <1>3, <2>1
    <3> QED
      BY <3>1 DEF PrefixHolds
  <2>2. CASE ~(i <= Len(blocks))
    <3>1. i = Len(blocks) + 1 /\ blocks'[i] = b /\ blocks # <<>>
      BY <1>1, <1>2, <1>3, <2>2
    <3> QED
      BY <1>2, <3>1 DEF NextHit
  <2> QED
    BY <2>1, <2>2
<1> QED
  BY <1>5, <1>6 DEF PrefixHolds

LEMMA PrefixKept == ASSUME IInv, PrefixHolds, [Next]_vars PROVE PrefixHolds'
<1>t. blocks \in Seq(Block) /\ hits \in Seq(Hits)
  BY DEF IInv, TypeOK
<1>1. CASE Ask
  <2>1. blocks' = <<>> /\ used' = 0 /\ stage' \in {"resolve", "retrieve"} /\ Len(blocks') = 0
    BY <1>1 DEF Ask
  <2> QED
    BY <2>1, JoinedNothing DEF PrefixHolds
<1>2. CASE Rerank
  <2>1. blocks = <<>> /\ blocks' = blocks /\ used' = used /\ stage' = "context" /\ Len(blocks') = 0
    BY <1>2 DEF Rerank, IInv, StageHolds
  <2> QED
    BY <2>1 DEF PrefixHolds
<1>3. CASE AddBlock
  <2>1. NextHit \in Hits
    BY <1>t, <1>3 DEF AddBlock, NextHit
  <2>2. Size[NextHit] \in Nat
    BY <2>1
  <2> QED
    BY <1>3, <2>2, BlockFits DEF AddBlock
<1>4. CASE CutFirstBlock
  <2>1. PICK size \in 1 .. MaxChars : blocks' = <<[hit |-> NextHit, size |-> size]>> /\ used' = size
    BY <1>4 DEF CutFirstBlock
  <2> DEFINE b == [hit |-> NextHit, size |-> size]
  <2>2. /\ stage = "context" /\ blocks = <<>> /\ hits # <<>> /\ stage' = stage /\ hits' = hits
        /\ size \in Nat /\ Len(blocks) = 0 /\ Len(hits) > 0
    BY <1>t, <1>4 DEF CutFirstBlock
  <2>3. blocks' = Append(blocks, b)
    <3>1. blocks' = <<b>>
      BY <2>1
    <3> HIDE DEF b
    <3> QED
      BY <2>2, <3>1
  <2>4. used' = used + size + Separator
    BY <2>1, <2>2, JoinedNothing DEF PrefixHolds, Separator
  <2> QED
    BY <2>2, <2>3, <2>4, BlockFits
<1>5. CASE CloseContext
  <2>1. UNCHANGED <<hits, blocks, used>> /\ (blocks # <<>> /\ Len(blocks) < Len(hits) => Size[NextHit] > Remaining)
    BY <1>5 DEF CloseContext, evidence
  <2>2. blocks = <<>> => stage' = "idle"
    BY <1>5 DEF CloseContext, Abstain, Return
  <2> QED
    BY <2>1, <2>2 DEF PrefixHolds, NextHit, Remaining, Separator
<1>6. CASE Resolve \/ Retrieve \/ Refuse \/ RejectCitations \/ Generate \/ Verify \/ RepairFails
           \/ Repair \/ Recheck \/ Fail \/ UNCHANGED vars
  <2>1. UNCHANGED <<hits, blocks, used>>
    BY <1>6 DEF Resolve, Retrieve, Refuse, RejectCitations, Generate, Verify, RepairFails, Repair,
                Recheck, Fail, vars, evidence
  <2>2. stage' \in {"generate", "verify", "repair", "recheck"} =>
          stage \in {"generate", "verify", "repair", "recheck"}
    BY <1>6 DEF Resolve, Retrieve, Refuse, RejectCitations, Generate, Verify, RepairFails, Repair,
                Recheck, Fail, vars, Return, Abstain, Grounded
  <2> QED
    BY <2>1, <2>2 DEF PrefixHolds, NextHit, Remaining, Separator
<1> QED
  BY <1>1, <1>2, <1>3, <1>4, <1>5, <1>6 DEF Next

LEMMA PrefixBegins == Init => PrefixHolds
<1> SUFFICES ASSUME Init PROVE PrefixHolds
  OBVIOUS
<1>1. blocks = <<>> /\ used = 0 /\ stage = "idle" /\ Len(blocks) = 0
  BY DEF Init
<1> QED
  BY <1>1, JoinedNothing DEF PrefixHolds

\* What fits and what does not, from what was counted.
LEMMA PrefixIsLongest == ASSUME IInv, PrefixHolds PROVE EvidenceIsLongestPrefix
<1> SUFFICES ASSUME stage \in {"generate", "verify", "repair", "recheck"}
             PROVE  /\ blocks # <<>>
                    /\ JoinedLength(blocks) <= MaxChars
                    /\ \A i \in 1 .. Len(blocks) : /\ blocks[i].hit = hits[i]
                                                   /\ i > 1 => blocks[i].size = Size[hits[i]]
                    /\ Len(blocks) < Len(hits) =>
                         JoinedLength(Append(blocks, [hit |-> NextHit, size |-> Size[NextHit]])) > MaxChars
  BY DEF EvidenceIsLongestPrefix
<1>1. /\ blocks \in Seq(Block) /\ hits \in Seq(Hits) /\ used \in Nat /\ Len(blocks) \in Nat
      /\ blocks # <<>> /\ used <= MaxChars /\ used = JoinedLength(blocks)
  BY DEF IInv, TypeOK, StageHolds, EvidenceHolds, PrefixHolds
<1>2. \A i \in 1 .. Len(blocks) : blocks[i].hit = hits[i] /\ (i > 1 => blocks[i].size = Size[hits[i]])
  BY <1>1 DEF IInv, EvidenceHolds, PrefixHolds
<1>3. ASSUME Len(blocks) < Len(hits)
      PROVE  JoinedLength(Append(blocks, [hit |-> NextHit, size |-> Size[NextHit]])) > MaxChars
  <2> DEFINE b == [hit |-> NextHit, size |-> Size[NextHit]]
  <2>1. NextHit \in Hits
    BY <1>1, <1>3 DEF NextHit
  <2>2. b \in Block /\ b.size = Size[NextHit] /\ Size[NextHit] \in Nat
    BY <2>1 DEF Block
  <2>3. Size[NextHit] > MaxChars - used - 2
    BY <1>1, <1>3 DEF PrefixHolds, Remaining, Separator
  <2> HIDE DEF b
  <2>4. JoinedLength(Append(blocks, b)) = used + b.size + 2
    BY <1>1, <2>2, JoinedAdds
  <2>5. JoinedLength(Append(blocks, b)) > MaxChars
    BY <1>1, <2>2, <2>3, <2>4
  <2> QED
    BY <2>5 DEF b
<1> QED
  BY <1>1, <1>2, <1>3

-----------------------------------------------------------------------------
(* The theorems                                                            *)

\* Every variable keeps its type, whatever the model answers.
THEOREM TypeCorrect == Spec => []TypeOK
<1>1. IInv => TypeOK  BY DEF IInv
<1> QED  BY <1>1, Inductive, PTL

\* A grounded answer is the last text the verifier supported without
\* exception, for any limits and any answers of the model.
THEOREM GroundedAlwaysVerified == Spec => []GroundedIsVerified
<1>1. IInv => GroundedIsVerified  BY DEF IInv
<1> QED  BY <1>1, Inductive, PTL

\* The ids of a grounded answer resolve to retrieved hits above the threshold.
THEOREM CitationsAlwaysResolve == Spec => []CitationsResolve
<1>1. IInv => CitationsResolve  BY DEF IInv
<1> QED  BY <1>1, Inductive, PTL

\* The claims reported with a grounded answer are supported by what it cites.
THEOREM ClaimsAlwaysCite == Spec => []ClaimsCiteAnswer
<1>1. IInv => ClaimsCiteAnswer  BY DEF IInv
<1> QED  BY <1>1, Inductive, PTL

\* No hit of the hybrid lane alone is reranked in place of one that the exact
\* lane found, for any lanes, lengths and weights within FusionAssumption.
THEOREM ExactAlwaysFirst == Spec => []ExactFirst
<1>1. Init => ExactFirst  BY DEF Init, ExactFirst
<1> QED  BY <1>1, CandidatesStay, PTL DEF Spec

\* What the model is shown is the longest prefix of the hits that fits, for any
\* sizes, limits and number of hits: the running total of build_grounded_context
\* is the length of the joined text, separators included.
THEOREM EvidenceAlwaysLongest == Spec => []EvidenceIsLongestPrefix
<1>1. IInv /\ PrefixHolds => EvidenceIsLongestPrefix  BY PrefixIsLongest
<1>2. IInv /\ PrefixHolds /\ [Next]_vars => PrefixHolds'  BY PrefixKept
<1> QED  BY <1>1, <1>2, PrefixBegins, Inductive, PTL DEF Spec
=============================================================================
