---------------------------- MODULE AnswerPipeline ----------------------------
(***************************************************************************)
(* From a question to a grounded answer, an abstention or an error:        *)
(*                                                                         *)
(*   pipeline      src/app/generation/service.py                           *)
(*   evidence      src/app/retrieval/reranked.py, generation/context.py,   *)
(*                 DebugRetrieval                                          *)
(*   verification  src/app/generation/verification.py                      *)
(*   follow-ups    src/app/conversations/intelligence.py                   *)
(*                                                                         *)
(* The pipeline keeps nothing between two questions and shares nothing     *)
(* with concurrent ones, so one question at a time is enough.  What the    *)
(* language model answers, as generator, verifier or repairer, is any      *)
(* member of Payloads or Verdicts, or an error.  A citation id S<n> is n;  *)
(* an id the model makes up is a number without a block.  Of a text only   *)
(* who wrote it and the ids cited inline are kept; of a claim, its ids and *)
(* the verifier's word for it.                                             *)
(***************************************************************************)
EXTENDS DebugRetrieval

CONSTANTS
  Size,           \* characters of each, rendered with its metadata
  EvidenceLimit,  \* evidence_limit: hits that reranking returns
  MaxChars,       \* context_max_chars
  MaxClaims,      \* max_claims of the verifier
  Ids,            \* the numbers of the citation ids a model may write
  Payloads,       \* parsed answers of the generator and the repairer
  Verdicts        \* parsed answers of the verifier

Claim   == [ids : SUBSET Ids, supported : BOOLEAN]
Payload == [inline : SUBSET Ids, declared : SUBSET Ids, grounded : BOOLEAN]
Verdict == [claims : Seq(Claim), allSupported : BOOLEAN]

ASSUME LimitsAssumption ==
  /\ EvidenceLimit \in Nat \ {0}
  /\ MaxChars \in Nat \ {0}
  /\ MaxClaims \in Nat \ {0}
  /\ Size \in [Hits -> Nat \ {0}]

ASSUME ModelAssumption ==
  /\ Ids \subseteq Nat \ {0}
  /\ Payloads \subseteq Payload
  /\ Verdicts \subseteq Verdict

VARIABLES
  stage,      \* what the question waits for; "idle" when it has its result
  exact,      \* the hits of the exact lane, for a debug question
  candidates, \* the hits to rerank
  hits,       \* the hits above the threshold, best first
  weak,       \* history: the hits that were returned below the threshold
  blocks,     \* the evidence blocks: the hit of each, and the size it is cut to
  used,       \* characters of the evidence
  text,       \* the candidate answer
  report,     \* the first verification's report
  approved,   \* history: the last text the verifier supported without exception
  result      \* what the caller gets

evidence == <<exact, candidates, hits, weak, blocks, used>>
vars     == <<stage, evidence, text, report, approved, result>>

Block    == [hit : Hits, size : Nat]
Text     == [draft : {"none", "answer", "repair", "refusal", "apology"}, ids : SUBSET Ids]
NoText   == [draft |-> "none", ids |-> {}]
Reasons  == {"none", "unjudged", "too_many_claims", "miscited", "unsupported"}
Report   == [passed : BOOLEAN, claims : Seq(Claim), reason : Reasons]
NoReport == [passed |-> FALSE, claims |-> <<>>, reason |-> "none"]
Result   == [kind : {"none", "grounded", "abstained", "failed"},
             text : Text, citations : SUBSET Hits, report : Report]
NoResult == [kind |-> "none", text |-> NoText, citations |-> {}, report |-> NoReport]
Stages   == {"idle", "resolve", "retrieve", "rerank", "context", "generate", "verify", "repair", "recheck"}

TypeOK ==
  /\ stage \in Stages
  /\ exact \in Seq(Hits)
  /\ candidates \in Seq(Hits)
  /\ hits \in Seq(Hits)
  /\ weak \in SUBSET Hits
  /\ blocks \in Seq(Block)
  /\ used \in Nat
  /\ text \in Text
  /\ report \in Report
  /\ approved \in Text
  /\ result \in Result

Init ==
  /\ stage = "idle"
  /\ exact = <<>> /\ candidates = <<>>
  /\ hits = <<>> /\ weak = {} /\ blocks = <<>> /\ used = 0
  /\ text = NoText /\ report = NoReport /\ approved = NoText
  /\ result = NoResult

\* The result ends the question.
Return(kind, t, citations, r) ==
  /\ stage' = "idle"
  /\ result' = [kind |-> kind, text |-> t, citations |-> citations, report |-> r]

Abstain(r) == Return("abstained", [draft |-> "apology", ids |-> {}], {}, r)

\* The citations of a text: the hits of the blocks it cites.
Grounded(t, r) == Return("grounded", t, {blocks[n].hit : n \in t.ids}, r)

-----------------------------------------------------------------------------
(* The question, and the evidence for it                                   *)

\* A question with history is first resolved to a standalone one.
Ask ==
  /\ stage = "idle"
  /\ stage' \in {"resolve", "retrieve"}
  /\ exact' = <<>> /\ candidates' = <<>>
  /\ hits' = <<>> /\ weak' = {} /\ blocks' = <<>> /\ used' = 0
  /\ text' = NoText /\ report' = NoReport /\ approved' = NoText
  /\ result' = NoResult

\* An error, a malformed state and low confidence all fall back to the
\* deterministic question.
Resolve ==
  /\ stage = "resolve"
  /\ stage' = "retrieve"
  /\ UNCHANGED <<evidence, text, report, approved, result>>

\* Reranking never gets fewer candidates than it may return.
Pool == IF CandidateK > EvidenceLimit THEN CandidateK ELSE EvidenceLimit

\* RerankedRetrievalService.search: a debug question with something exact to
\* look for asks both lanes at once, any other question the hybrid one alone.
Retrieve ==
  /\ stage = "retrieve"
  /\ \E hybrid \in HybridLists(Pool) :
       \/ exact' = <<>> /\ candidates' = hybrid
       \/ SearchBoth(exact', candidates', hybrid, Pool)
  /\ stage' = "rerank"
  /\ UNCHANGED <<hits, weak, blocks, used, text, report, approved, result>>

\* The cross-encoder may put the candidates in any order.
Rankings == Injection(1 .. Least(EvidenceLimit, Len(candidates)), Range(candidates))

\* Mutant of Rerank: the threshold is not applied.
BugKeepsWeak ==
  /\ stage = "rerank"
  /\ \E ranking \in Rankings : \E strong \in 0 .. Len(ranking) :
       /\ hits' = ranking
       /\ weak' = {ranking[i] : i \in strong + 1 .. Len(ranking)}
  /\ exact' = <<>> /\ candidates' = <<>>
  /\ stage' = "context"
  /\ UNCHANGED <<blocks, used, text, report, approved, result>>

\* The ranking is by descending score, so those at the threshold or above it
\* are its first ones.
Rerank ==
  /\ stage = "rerank"
  /\ \E ranking \in Rankings : \E strong \in 0 .. Len(ranking) :
       /\ hits' = SubSeq(ranking, 1, strong)
       /\ weak' = {ranking[i] : i \in strong + 1 .. Len(ranking)}
  /\ exact' = <<>> /\ candidates' = <<>>
  /\ stage' = "context"
  /\ UNCHANGED <<blocks, used, text, report, approved, result>>

NextHit     == hits[Len(blocks) + 1]
Separator == IF blocks = <<>> THEN 0 ELSE 2
Remaining == MaxChars - used - Separator

\* Mutant of AddBlock: the separator's room is not set aside before the block is.
BugNoRoomForSeparator ==
  /\ stage = "context"
  /\ Len(blocks) < Len(hits)
  /\ Size[NextHit] <= MaxChars - used
  /\ blocks' = Append(blocks, [hit |-> NextHit, size |-> Size[NextHit]])
  /\ used' = used + Size[NextHit] + Separator
  /\ UNCHANGED <<stage, exact, candidates, hits, weak, text, report, approved, result>>

\* One iteration of build_grounded_context, for a hit that fits as it is.
AddBlock ==
  /\ stage = "context"
  /\ Len(blocks) < Len(hits)
  /\ Size[NextHit] <= Remaining
  /\ blocks' = Append(blocks, [hit |-> NextHit, size |-> Size[NextHit]])
  /\ used' = used + Size[NextHit] + Separator
  /\ UNCHANGED <<stage, exact, candidates, hits, weak, text, report, approved, result>>

\* Only the first block is cut, and trailing blanks at the cut are stripped.
CutFirstBlock ==
  /\ stage = "context"
  /\ blocks = <<>> /\ hits # <<>>
  /\ Size[NextHit] > MaxChars
  /\ \E size \in 1 .. MaxChars :
       /\ blocks' = <<[hit |-> NextHit, size |-> size]>>
       /\ used' = size
  /\ UNCHANGED <<stage, exact, candidates, hits, weak, text, report, approved, result>>

\* Without a block the model is not asked at all.
CloseContext ==
  /\ stage = "context"
  /\ Len(blocks) < Len(hits) => blocks # <<>> /\ Size[NextHit] > Remaining
  /\ IF blocks = <<>> THEN Abstain(NoReport) ELSE stage' = "generate" /\ UNCHANGED result
  /\ UNCHANGED <<evidence, text, report, approved>>

-----------------------------------------------------------------------------
(* Generation and the citation gate                                        *)

Valid == 1 .. Len(blocks)

\* Without inline citations, declared ids that are all valid are appended.
Cited(p) == IF p.inline = {} /\ p.declared \subseteq Valid THEN p.declared ELSE p.inline

PassesGate(ids) == ids # {} /\ ids \subseteq Valid

\* The model's own words are returned as its refusal; no gate is applied.
Refuse ==
  /\ stage = "generate"
  /\ \E p \in Payloads :
       /\ ~p.grounded
       /\ Return("abstained", [draft |-> "refusal", ids |-> p.inline], {}, NoReport)
  /\ UNCHANGED <<evidence, text, report, approved>>

RejectCitations ==
  /\ stage = "generate"
  /\ \E p \in Payloads : p.grounded /\ ~PassesGate(Cited(p))
  /\ Abstain(NoReport)
  /\ UNCHANGED <<evidence, text, report, approved>>

Generate ==
  /\ stage = "generate"
  /\ \E p \in Payloads :
       /\ p.grounded /\ PassesGate(Cited(p))
       /\ text' = [draft |-> "answer", ids |-> Cited(p)]
  /\ stage' = "verify"
  /\ UNCHANGED <<evidence, report, approved, result>>

-----------------------------------------------------------------------------
(* Verification                                                            *)

\* An answer that is not the required JSON counts as no claims.
Unparsed == [claims |-> <<>>, allSupported |-> FALSE]

\* The verifier looks at the ids again before it asks the model.
Verifiable(ids) == ids # {} /\ ids \subseteq Valid

\* A claim with an unknown id, or with none that the text cites.
Miscited(claim, ids) ==
  \/ ~(claim.ids \subseteq Valid)
  \/ claim.ids # {} /\ claim.ids \cap ids = {}

\* Mutant of Judged: valid ids the text does not cite are kept.
BugKeepsIds(claim, ids) ==
  [claim EXCEPT !.supported = @ /\ ~Miscited(claim, ids)]

Judged(claim, ids) ==
  [ids |-> IF Miscited(claim, ids) THEN claim.ids ELSE claim.ids \cap ids,
   supported |-> claim.supported /\ ~Miscited(claim, ids)]

\* The claims a report keeps.
Kept(v) == SubSeq(v.claims, 1, IF Len(v.claims) > MaxClaims THEN MaxClaims ELSE Len(v.claims))

\* Mutant of Passes: claims beyond the limit are cut off and forgotten.
BugForgetsRest(v, ids) ==
  /\ v.allSupported
  /\ \A i \in 1 .. Len(Kept(v)) :
       Kept(v)[i].supported /\ ~Miscited(Kept(v)[i], ids)

Passes(v, ids) ==
  /\ v.allSupported /\ Len(v.claims) <= MaxClaims
  /\ \A i \in 1 .. Len(Kept(v)) :
       Kept(v)[i].supported /\ ~Miscited(Kept(v)[i], ids)

\* ClaimVerifier.verify: the report on a text citing ids, given the verdict v.
Verified(v, ids) ==
  IF ~Verifiable(ids) \/ v.claims = <<>>
  THEN [passed |-> FALSE, claims |-> <<>>, reason |-> "unjudged"]
  ELSE [passed |-> Passes(v, ids),
        claims |-> [i \in 1 .. Len(Kept(v)) |-> Judged(Kept(v)[i], ids)],
        reason |-> IF Passes(v, ids) THEN "none"
                   ELSE IF Len(v.claims) > MaxClaims THEN "too_many_claims"
                   ELSE IF \E i \in 1 .. Len(Kept(v)) : Miscited(Kept(v)[i], ids)
                   THEN "miscited" ELSE "unsupported"]

Repairable(r) ==
  /\ r.reason \in {"unsupported", "miscited"}
  /\ \E i \in 1 .. Len(r.claims) : r.claims[i].supported

\* Not the code's: the verifier took no exception to anything it was shown.
SupportsAll(v) ==
  /\ v.allSupported /\ v.claims # <<>> /\ Len(v.claims) <= MaxClaims
  /\ \A i \in 1 .. Len(v.claims) : v.claims[i].supported

Approve(v) == approved' = IF SupportsAll(v) THEN text ELSE approved

Verify ==
  /\ stage = "verify"
  /\ \E v \in Verdicts \cup {Unparsed} :
       LET r == Verified(v, text.ids)
       IN  /\ report' = r
           /\ Approve(v)
           /\ IF r.passed THEN Grounded(text, r)
              ELSE IF Repairable(r) THEN stage' = "repair" /\ UNCHANGED result
              ELSE Abstain(r)
  /\ UNCHANGED <<evidence, text>>

-----------------------------------------------------------------------------
(* One repair, and its recheck                                             *)

\* No usable repair: an error, a refusal, or citations that fail the gate.
RepairFails ==
  /\ stage = "repair"
  /\ Abstain(report)
  /\ UNCHANGED <<evidence, text, report, approved>>

Repair ==
  /\ stage = "repair"
  /\ \E p \in Payloads :
       /\ p.grounded /\ PassesGate(Cited(p))
       /\ text' = [draft |-> "repair", ids |-> Cited(p)]
  /\ stage' = "recheck"
  /\ UNCHANGED <<evidence, report, approved, result>>

\* A repair that fails leaves the abstention with the first report.
Recheck ==
  /\ stage = "recheck"
  /\ \E v \in Verdicts \cup {Unparsed} :
       LET r == Verified(v, text.ids)
       IN  /\ Approve(v)
           /\ IF r.passed THEN Grounded(text, r) ELSE Abstain(report)
  /\ UNCHANGED <<evidence, text, report>>

\* An error of retrieval, or of the model where repair does not catch it,
\* becomes the caller's error.
Fail ==
  /\ stage \in {"retrieve", "rerank", "generate", "verify", "recheck"}
  /\ Return("failed", NoText, {}, NoReport)
  /\ UNCHANGED <<evidence, text, report, approved>>

Next ==
  \/ Ask \/ Resolve \/ Retrieve \/ Rerank
  \/ AddBlock \/ CutFirstBlock \/ CloseContext
  \/ Refuse \/ RejectCitations \/ Generate
  \/ Verify \/ RepairFails \/ Repair \/ Recheck
  \/ Fail

Spec == Init /\ [][Next]_vars

-----------------------------------------------------------------------------
(* Properties                                                              *)

\* What a debug question quotes to the letter is not crowded out by what merely
\* resembles it: among the candidates no hit that the exact lane did not find
\* stands before one that it did, and one of those is cut off only if they fill
\* all the places (DebugRetrievalService._fuse).
ExactFirst ==
  /\ \A i \in 1 .. Len(candidates) : \A j \in 1 .. i - 1 :
       candidates[i] \in Range(exact) => candidates[j] \in Range(exact)
  /\ (\E i \in 1 .. Len(candidates) : candidates[i] \notin Range(exact)) =>
       Range(exact) \subseteq Range(candidates)

\* A grounded answer is, to the letter, the last text that the verifier
\* supported without exception, every claim it found included; the report
\* returned with it is the one that passed.  An abstention never carries a
\* report that passed (GroundedAnswerService.answer, ClaimVerifier.verify).
GroundedIsVerified ==
  /\ result.kind = "grounded" => /\ result.text = approved /\ approved # NoText
                                 /\ result.report.passed
  /\ result.kind = "abstained" => ~result.report.passed

\* Every id in a grounded answer resolves to an evidence block whose hit is
\* among the citations, and every citation is a hit at or above the threshold;
\* there is at least one.  Nothing else comes with citations
\* (service.py 211-252, 339; context.py 20-41).
CitationsResolve ==
  /\ result.kind = "grounded" =>
       /\ result.citations # {} /\ result.citations \cap weak = {}
       /\ \A n \in result.text.ids :
            n \in 1 .. Len(blocks) /\ blocks[n].hit \in result.citations
  /\ result.kind # "grounded" => result.citations = {}

\* Every claim in the report of a grounded answer is supported, and cites
\* nothing that the answer does not cite itself: the two agree whatever ids
\* the verifier named (verification.py 75-98).
ClaimsCiteAnswer ==
  result.kind = "grounded" =>
    \A i \in 1 .. Len(result.report.claims) :
      LET claim == result.report.claims[i]
      IN  claim.supported /\ claim.ids \subseteq result.text.ids

\* The length of the blocks joined by blank lines.
JoinedLength(bs) ==
  LET upto[i \in 0 .. Len(bs)] ==
        IF i = 0 THEN 0 ELSE upto[i - 1] + bs[i].size + (IF i = 1 THEN 0 ELSE 2)
  IN  upto[Len(bs)]

\* What the model is shown is the longest prefix of the hits whose joined text
\* fits the budget, the first hit cut if need be and never dropped
\* (build_grounded_context).
EvidenceIsLongestPrefix ==
  stage \in {"generate", "verify", "repair", "recheck"} =>
    /\ blocks # <<>>
    /\ JoinedLength(blocks) <= MaxChars
    /\ \A i \in 1 .. Len(blocks) : /\ blocks[i].hit = hits[i]
                                   /\ i > 1 => blocks[i].size = Size[hits[i]]
    /\ Len(blocks) < Len(hits) =>
         JoinedLength(Append(blocks, [hit |-> NextHit, size |-> Size[NextHit]])) > MaxChars
=============================================================================
