---------------------------- MODULE DebugRetrieval ----------------------------
(***************************************************************************)
(* The candidates of a debug question: the hits of an exact lane and of    *)
(* the hybrid lane, fused by weighted reciprocal rank                      *)
(* (src/app/retrieval/debug.py, qdrant_store.py debug_search).             *)
(*                                                                         *)
(* A list is a sequence of distinct hits, best first.  The code breaks a   *)
(* tie by chunk id, which says nothing of the hits: here either may come   *)
(* first.  A score is compared as the fraction it is.                      *)
(***************************************************************************)
EXTENDS Integers, SequencesExt, FiniteSetsExt

CONSTANTS
  Hits,           \* chunks of the index that the route's filter lets through
  Terms,          \* what a question may quote
  Kind,           \* of each: a phrase, a path, an identifier or an error code
  PerCondition,   \* per_condition_limit: hits that one condition returns
  ExactK,         \* exact_k: hits of the exact lane
  CandidateK,     \* candidate_k: hits that go on to reranking
  RrfK,           \* rrf_k
  ExactWeight,    \* exact_weight and hybrid_weight, in the same unit
  HybridWeight

ASSUME LanesAssumption ==
  /\ IsFiniteSet(Hits)
  /\ {PerCondition, ExactK, CandidateK, RrfK, ExactWeight, HybridWeight} \subseteq Nat \ {0}
  /\ Kind \in [Terms -> {"phrase", "path", "identifier", "code"}]

\* The last exact hit weighs more than the first hybrid one.  It does with the
\* defaults 30, 60, 1.5 and 1.0: 1.5 / 90 > 1 / 61.
ASSUME FusionAssumption ==
  ExactWeight * (RrfK + 1) > HybridWeight * (RrfK + ExactK)

Least(m, n) == IF m < n THEN m ELSE n
Cut(list, n) == SubSeq(list, 1, Least(n, Len(list)))

\* The sequences that list each member of S once.
Listings(S) == Bijection(1 .. Cardinality(S), S)

-----------------------------------------------------------------------------
(* The lanes                                                               *)

\* The hybrid lane: any ranking of vector similarity.
HybridLists(limit) == UNION {Injection(1 .. n, Hits) : n \in 0 .. Least(limit, Cardinality(Hits))}

\* The fields that a term is looked up in, with twice the weight of each.
Lookups ==
  [phrase     |-> [exact_phrase |-> 6],
   path       |-> [exact_path |-> 8],
   identifier |-> [exact_symbol |-> 8, exact_parent_symbol |-> 7, identifier_text |-> 4],
   code       |-> [error_code |-> 3]]

Conditions(terms) ==
  UNION {{[term |-> t, method |-> m] : m \in DOMAIN Lookups[Kind[t]]} : t \in terms}

\* The answers of the scrolls, one for each condition.
Matches(terms) == [Conditions(terms) -> {S \in SUBSET Hits : Cardinality(S) <= PerCondition}]

DebugScore(matches, hit) ==
  MapThenSumSet(LAMBDA c : Lookups[Kind[c.term]][c.method],
                {c \in DOMAIN matches : hit \in matches[c]})

\* The exact lane: the hits of any condition, by the weight of all they match.
ExactLists(matches) ==
  {Cut(s, ExactK) : s \in {r \in Listings(UNION {matches[c] : c \in DOMAIN matches}) :
     \A i \in 1 .. Len(r) : \A j \in 1 .. i - 1 :
       DebugScore(matches, r[j]) >= DebugScore(matches, r[i])}}

-----------------------------------------------------------------------------
(* Their fusion                                                            *)

Rank(list, hit) == CHOOSE i \in 1 .. Len(list) : list[i] = hit

\* What a lane gives a hit: Share / Depth, and 0 / 1 if it did not find it.
Share(weight, list, hit) == IF hit \in Range(list) THEN weight ELSE 0
Depth(list, hit)         == IF hit \in Range(list) THEN RrfK + Rank(list, hit) ELSE 1

\* The score of a hit is Score / Base.
Base(exact, hybrid, hit)  == Depth(exact, hit) * Depth(hybrid, hit)
Score(exact, hybrid, hit) ==
  Share(ExactWeight, exact, hit) * Depth(hybrid, hit)
    + Share(HybridWeight, hybrid, hit) * Depth(exact, hit)

Outscores(exact, hybrid, a, b) ==
  Score(exact, hybrid, a) * Base(exact, hybrid, b) > Score(exact, hybrid, b) * Base(exact, hybrid, a)

\* Mutant of Fusions: the lanes are handed over in the wrong order.
BugSwapsLanes(exact, hybrid, limit) ==
  {Cut(s, limit) : s \in {r \in Listings(Range(exact) \cup Range(hybrid)) :
     \A i \in 1 .. Len(r) : \A j \in 1 .. i - 1 : ~Outscores(hybrid, exact, r[i], r[j])}}

\* _fuse: the hits of both lanes, each once, best score first.
Fusions(exact, hybrid, limit) ==
  {Cut(s, limit) : s \in {r \in Listings(Range(exact) \cup Range(hybrid)) :
     \A i \in 1 .. Len(r) : \A j \in 1 .. i - 1 : ~Outscores(exact, hybrid, r[i], r[j])}}

\* search_candidates, for a question that quotes something: both lanes are
\* awaited together, and fused.
SearchBoth(exact, candidates, hybrid, limit) ==
  \E terms \in (SUBSET Terms) \ {{}} : \E matches \in Matches(terms) :
    /\ exact \in ExactLists(matches)
    /\ candidates \in Fusions(exact, hybrid, limit)
=============================================================================
