-------------------------- MODULE MCAnswerPipeline --------------------------
(* A small instance of AnswerPipeline for TLC. *)
EXTENDS AnswerPipeline

CONSTANTS small, medium, large, file, name

\* With the fusion's constants of the cfg the last exact hit only just outweighs
\* the first hybrid one, as with the defaults.
MCKind == (file :> "path") @@ (name :> "identifier")

\* Small and medium fill the budget of 6 exactly with their separator; large
\* has to be cut, and any other hit then fits only if blanks were stripped.
MCSize == (small :> 1) @@ (medium :> 3) @@ (large :> 7)

\* Declared ids matter only without inline ones: none, valid ones, unknown ones.
MCPayloads ==
  [inline : SUBSET Ids, declared : {{}, {1}, {1, 2}, {2, 3}}, grounded : BOOLEAN]

MCClaims == [ids : {{}, {1}, {1, 2}, {2}, {3}}, supported : BOOLEAN]

\* Up to MaxClaims claims of any kind, or one too many, of one kind.
MCVerdicts ==
  [claims : UNION {[1 .. n -> MCClaims] : n \in 0 .. MaxClaims}
            \cup {[i \in 1 .. MaxClaims + 1 |-> c] : c \in MCClaims},
   allSupported : BOOLEAN]
=============================================================================
