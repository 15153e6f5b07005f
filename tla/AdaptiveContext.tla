---------------------------- MODULE AdaptiveContext ----------------------------
(***************************************************************************)
(* Layer 3: how a receiver gets the context of a task from its sender      *)
(* (atp-context/src/extraction.rs, differential.rs, adaptive.rs).  The     *)
(* ContextProvider sends the chunks most relevant to the task; while their *)
(* mean relevance, the confidence of the diff, is below the threshold, the *)
(* AdaptiveContextManager asks for half of the chunks it lacks and         *)
(* merge_chunks adds what arrives.  CONTEXT_REQUESTs and their answers may *)
(* be lost or late, and the receiver may evaluate again before an answer.  *)
(*                                                                         *)
(* A chunk is its index.  Its relevance, a cosine similarity in the code,  *)
(* is a number chosen with the task; means are compared as fractions.      *)
(***************************************************************************)
EXTENDS Integers, Sequences, FiniteSets, FiniteSetsExt, Functions

CONSTANTS
    MaxLength,             \* bound: chunks of a context
    Relevance,             \* the values a similarity may take
    relevance_threshold,   \* MscConfig::relevance_threshold
    max_chunks,            \* MscConfig::max_chunks, 0 for no budget
    confidence_threshold,  \* AdaptiveContextManager::confidence_threshold
    max_rounds             \* AdaptiveContextManager::max_rounds

ASSUME ContextAssumption ==
    /\ MaxLength \in Nat /\ max_chunks \in Nat /\ max_rounds \in Nat
    /\ Relevance \subseteq Int /\ relevance_threshold \in Nat
    \* the defaults are 0.3 and 0.7
    /\ confidence_threshold \in Nat /\ relevance_threshold < confidence_threshold

\* A context: its number of chunks and their relevance to the task.
Context == UNION {[0 .. n - 1 -> Relevance] : n \in 0 .. MaxLength}

VARIABLES
    context,            \* ContextProvider::full_context
    chunks,             \* ContextDiff::chunks, the receiver's copy
    confidence,         \* ContextDiff::confidence
    refinement_rounds,
    received_indices,
    phase,              \* how far the receiver is with the task
    requests,           \* CONTEXT_REQUESTs on their way
    responses           \* their answers on their way, tagged with the round

manager  == <<refinement_rounds, received_indices>>
diff     == <<chunks, confidence>>
network  == <<requests, responses>>
vars     == <<context, diff, manager, phase, network>>

total_chunks == Cardinality(DOMAIN context)

-----------------------------------------------------------------------------
(* The diff                                                                *)

\* The stable sort of both extract_msc and merge_chunks: the place of an element
\* is the number of those that come no later.
NoLater(s, j, i) ==
    \/ context[s[j]] > context[s[i]]
    \/ context[s[j]] = context[s[i]] /\ j <= i

Place(s, i) == Cardinality({j \in DOMAIN s : NoLater(s, j, i)})

ByRelevance(s) ==
    [k \in DOMAIN s |-> s[CHOOSE i \in DOMAIN s : Place(s, i) = k]]

InIndexOrder(S) ==
    [k \in 1 .. Cardinality(S) |->
        CHOOSE i \in S : Cardinality({j \in S : j <= i}) = k]

Mean(s) == [total |-> SumFunction([k \in DOMAIN s |-> context[s[k]]]),
            count |-> Len(s)]

Sufficient == confidence.total >= confidence_threshold * confidence.count

Missing == DOMAIN context \ Range(chunks)

Truncated(s) ==
    IF max_chunks > 0 /\ Len(s) > max_chunks THEN SubSeq(s, 1, max_chunks) ELSE s

Relevant == {i \in DOMAIN context : context[i] > relevance_threshold}

\* A slip the runs must catch, named for what it gets wrong.
MergedWithoutLook(additional) == ByRelevance(chunks \o InIndexOrder(additional))

\* extract_msc: the most relevant chunks above the threshold.
ExtractMSC == Truncated(ByRelevance(InIndexOrder(Relevant)))

\* merge_chunks: what the diff does not hold yet, in the order it comes, which
\* is the order of the indices (Additional).
Merged(additional) == ByRelevance(chunks \o InIndexOrder(additional \ Range(chunks)))

-----------------------------------------------------------------------------
(* The steps                                                               *)

Init ==
    /\ context \in Context
    /\ chunks = <<>> /\ confidence = [total |-> 0, count |-> 1]
    /\ refinement_rounds = 0 /\ received_indices = {}
    /\ phase = "compress"
    /\ requests = {} /\ responses = {}

\* initial_diff: an empty context fails, a diff without chunks does not.
InitialDiff ==
    /\ phase = "compress"
    /\ IF total_chunks = 0
       THEN phase' = "failed" /\ UNCHANGED diff
       ELSE /\ phase' = "refine"
            /\ chunks' = ExtractMSC
            /\ confidence' = IF ExtractMSC = <<>> THEN [total |-> 0, count |-> 1]
                                                  ELSE Mean(ExtractMSC)
    /\ UNCHANGED <<context, manager, network>>

\* The first half of the missing chunks, rounded up.
Batch(needed) ==
    {i \in needed : 2 * Cardinality({j \in needed : j < i}) < Cardinality(needed)}

\* Slips: a round is not counted while an answer is due; the diff's chunks are
\* not recorded.
RetryIsFree   == refinement_rounds + (IF requests = {} THEN 1 ELSE 0)
ForgetsChunks == received_indices

RoundsLeft == refinement_rounds < max_rounds
NextRound  == refinement_rounds + 1
Received   == received_indices \cup Range(chunks)

\* evaluate: every branch records what the diff holds.
Evaluate ==
    LET needed == DOMAIN context \ Received IN
    /\ phase = "refine"
    /\ received_indices' = Received
    /\ \/ /\ Sufficient
          /\ phase' = "sufficient"
          /\ UNCHANGED <<refinement_rounds, requests>>
       \/ /\ ~Sufficient /\ ~RoundsLeft
          /\ phase' = "low"
          /\ UNCHANGED <<refinement_rounds, requests>>
       \/ /\ ~Sufficient /\ RoundsLeft
          /\ refinement_rounds' = NextRound
          /\ \/ /\ needed = {}
                /\ phase' = "low"
                /\ UNCHANGED requests
             \/ /\ needed # {}
                /\ requests' = requests \cup
                     {[round |-> NextRound, indices |-> Batch(needed)]}
                /\ UNCHANGED phase
    /\ UNCHANGED <<context, diff, responses>>

\* extract_chunks_by_index: the requested chunks that exist.
Additional(indices) == indices \cap DOMAIN context

\* handle_request: the provider keeps no record of what it has sent.
HandleRequest(m) ==
    /\ requests' = requests \ {m}
    /\ responses' = responses \cup {[m EXCEPT !.indices = Additional(@)]}
    /\ UNCHANGED <<context, diff, manager, phase>>

\* The receiver adds an answer to its diff.
MergeChunks(m) ==
    LET merged == Merged(m.indices) IN
    /\ phase = "refine"
    /\ responses' = responses \ {m}
    /\ chunks' = merged
    /\ confidence' = IF merged = <<>> THEN confidence ELSE Mean(merged)
    /\ UNCHANGED <<context, manager, phase, requests>>

\* A call fails, before or after the provider has seen it.
Lose(m) ==
    /\ requests' = requests \ {m} /\ responses' = responses \ {m}
    /\ UNCHANGED <<context, diff, manager, phase>>

ResetKeepsReceived ==
    /\ phase \in {"sufficient", "low", "failed"}
    /\ context' \in Context
    /\ chunks' = <<>> /\ confidence' = [total |-> 0, count |-> 1]
    /\ refinement_rounds' = 0
    /\ phase' = "compress"
    /\ requests' = {} /\ responses' = {}
    /\ UNCHANGED received_indices

\* reset, for the next task; answers to the last one reach nobody any more.
Reset ==
    /\ phase \in {"sufficient", "low", "failed"}
    /\ context' \in Context
    /\ chunks' = <<>> /\ confidence' = [total |-> 0, count |-> 1]
    /\ refinement_rounds' = 0 /\ received_indices' = {}
    /\ phase' = "compress"
    /\ requests' = {} /\ responses' = {}

Next ==
    \/ InitialDiff
    \/ Evaluate
    \/ \E m \in requests : HandleRequest(m)
    \/ \E m \in responses : MergeChunks(m)
    \/ \E m \in requests \cup responses : Lose(m)
    \/ Reset

Spec == Init /\ [][Next]_vars

\* The receiver goes on evaluating until it has a verdict, whatever becomes of
\* its requests.
FairSpec == Spec /\ WF_vars(InitialDiff) /\ WF_vars(Evaluate)

\* Refinement at its best: one task, no call fails, and the receiver merges the
\* answer to a request before it evaluates again.
Answered ==
    \/ InitialDiff
    \/ requests = {} /\ responses = {} /\ Evaluate
    \/ \E m \in requests : HandleRequest(m)
    \/ \E m \in responses : MergeChunks(m)

AnsweredSpec == Init /\ [][Answered]_vars /\ WF_vars(Answered)

-----------------------------------------------------------------------------
(* Properties                                                              *)

\* A chunk is in the diff at most once, although a receiver that asks again
\* before the first answer arrives gets the same chunks twice (merge_chunks,
\* evaluate).
NoDuplicateChunks == IsInjective(chunks)

\* LowConfidence is the answer only when the confidence is low and either the
\* rounds are used up or no chunk is missing, in the receiver's diff and not
\* merely in the record of what it has received (evaluate, reset).
LowIsJustified ==
    phase = "low" => ~Sufficient /\ (refinement_rounds = max_rounds \/ Missing = {})

\* Once a diff was insufficient, no answer makes it sufficient: the chunks it
\* lacks are no more relevant than those it has, or than the threshold that
\* keeps chunks out, so merging them never lifts the mean (extract_msc,
\* merge_chunks).  What atp-context says of refinement, RefinedUntilConfident,
\* is refuted by it.
RefinementNeverHelps == refinement_rounds > 0 => phase # "sufficient"

\* A request names chunks of the context that the diff lacks, and some
\* (evaluate).
AsksForWhatIsMissing ==
    [][\A m \in requests' \ requests : m.indices # {} /\ m.indices \subseteq Missing]_vars

\* What adaptive.rs and the wiki say: a receiver that asks for more context goes
\* on until its confidence is acceptable ("Iterative refinement until confidence
\* exceeds the threshold").  It is asked here only of a context with a chunk
\* that reaches the threshold.  It does not hold of evaluate and merge_chunks,
\* even under AnsweredSpec.
RefinedUntilConfident ==
    (requests # {} /\ \E i \in DOMAIN context : context[i] >= confidence_threshold)
        ~> phase = "sufficient"

\* Every task ends in a verdict, even if every request is lost (evaluate).
RefinementEnds == phase = "refine" ~> phase \in {"sufficient", "low"}

================================================================================
