--------------------------- MODULE MemoryRetrieval ---------------------------
(***************************************************************************)
(* Which memories come into a conversation (memory/memoryService.ts,       *)
(* retrieveRelevantMemory): the best of the ones touched last, scored by   *)
(* importance, age and the words shared with the query.  Words are topics, *)
(* an age is counted in fortnights.  How keyed facts are stored is         *)
(* RememberedFacts'.                                                       *)
(***************************************************************************)
EXTENDS Integers, SequencesExt

CONSTANTS
  Memos, Topics,
  Weights,        \* importances in use
  Pool,           \* candidates read from the database at most
  Most,           \* `limit`
  MaxFortnights

ASSUME RetrievalAssumption ==
  /\ IsFiniteSet(Memos) /\ IsFiniteSet(Topics)
  /\ Weights \subseteq 1..5 /\ Pool \in Nat \ {0} /\ Most \in Nat \ {0} /\ MaxFortnights \in 0..2

VARIABLES
  memo,       \* memo -> [live, importance, about, updated]: one disabled or deleted is not live
  fortnight,  \* now
  retrieval,  \* [pc, asked, query, found]: `found` are handed over, the best first
  unchanged   \* ghost: the store is as the candidates were read

retrievalVars == <<memo, fortnight, retrieval, unchanged>>

Gone == [live |-> FALSE, importance |-> 1, about |-> {}, updated |-> 0]
NothingFound == [pc |-> "idle", asked |-> FALSE, query |-> {}, found |-> <<>>]

RetrievalTypeOK ==
  /\ memo \in [Memos -> [live : BOOLEAN, importance : 1..5, about : SUBSET Topics, updated : 0..MaxFortnights]]
  /\ fortnight \in 0..MaxFortnights /\ unchanged \in BOOLEAN
  /\ retrieval.pc \in {"idle", "scored"} /\ retrieval.asked \in BOOLEAN /\ retrieval.query \subseteq Topics
  /\ Len(retrieval.found) <= Most /\ ToSet(retrieval.found) \subseteq Memos

RetrievalInit ==
  /\ memo = [m \in Memos |-> Gone] /\ fortnight = 0
  /\ retrieval = NothingFound /\ unchanged = FALSE

-----------------------------------------------------------------------------
(* The store *)

\* createMemory, or an update of one that is there.
IsWritten(m) ==
  /\ \E i \in Weights, about \in SUBSET Topics :
       memo' = [memo EXCEPT ![m] = [live |-> TRUE, importance |-> i, about |-> about, updated |-> fortnight]]
  /\ unchanged' = FALSE
  /\ UNCHANGED <<fortnight, retrieval>>

\* Deleted, or disabled.
IsDropped(m) ==
  /\ memo[m].live
  /\ memo' = [memo EXCEPT ![m] = Gone] /\ unchanged' = FALSE
  /\ UNCHANGED <<fortnight, retrieval>>

FortnightPasses ==
  /\ fortnight < MaxFortnights /\ fortnight' = fortnight + 1
  /\ retrieval.pc = "idle"
  /\ UNCHANGED <<memo, retrieval, unchanged>>

-----------------------------------------------------------------------------
(* Retrieval *)

Live == {m \in Memos : memo[m].live}

\* `take`, by the time of the last update; of equals, any.
CandidateSets ==
  {C \in SUBSET Live :
     /\ Cardinality(C) = Min({Pool, Cardinality(Live)})
     /\ \A c \in C, d \in Live \ C : memo[c].updated >= memo[d].updated}

\* The share of the query's words in the memory; a query all of short words shares none.
Shared(row, q) == Cardinality(row.about \intersect q)

\* 0.45 importance / 5 + 0.25 / (1 + age) + 0.3 overlap, times 1200.
Score(row, now, q) ==
  108 * row.importance + 300 \div (1 + now - row.updated)
  + (IF q = {} THEN 0 ELSE (360 * Shared(row, q)) \div Cardinality(q))

Relevant_ByWeight(row, asked, q) == TRUE
\* With a query, importance and recency alone are not enough.
Relevant(row, asked, q) == asked => Shared(row, q) > 0

Rankings(C, q) ==
  {s \in SetToSeqs(C) : \A i \in 1..Len(s) - 1 : Score(memo[s[i]], fortnight, q) >= Score(memo[s[i + 1]], fortnight, q)}

\* Read, filtered, sorted and cut: an empty query is none.
ScoresCandidates(asked, q) ==
  /\ retrieval.pc = "idle" /\ (~asked => q = {})
  /\ \E C \in CandidateSets : \E s \in Rankings({c \in C : Relevant(memo[c], asked, q)}, q) :
       retrieval' = [pc |-> "scored", asked |-> asked, query |-> q, found |-> SubSeq(s, 1, Min({Most, Len(s)}))]
  /\ unchanged' = TRUE
  /\ UNCHANGED <<memo, fortnight>>

\* lastUsedAt is written where there is still a row, and that is an update of the row.
Marks ==
  /\ retrieval.pc = "scored"
  /\ memo' = [m \in Memos |-> IF m \in ToSet(retrieval.found) /\ memo[m].live
                                THEN [memo[m] EXCEPT !.updated = fortnight] ELSE memo[m]]
  /\ retrieval' = NothingFound /\ unchanged' = FALSE
  /\ UNCHANGED fortnight

RetrievalNext ==
  \/ \E m \in Memos : IsWritten(m) \/ IsDropped(m)
  \/ FortnightPasses \/ Marks
  \/ \E asked \in BOOLEAN, q \in SUBSET Topics : ScoresCandidates(asked, q)

RetrievalSpec == RetrievalInit /\ [][RetrievalNext]_retrievalVars

-----------------------------------------------------------------------------
(* Properties *)

\* What a conversation is given is enabled when it is read; shares a word with the query if
\* there was one; and leaves out a memory that does only for as many that are no worse, or
\* for a pool full of ones touched no earlier.
RelevantAreFound ==
  unchanged =>
    LET given == ToSet(retrieval.found)
        value(m) == Score(memo[m], fortnight, retrieval.query)
        fits(m)  == memo[m].live /\ (retrieval.asked => memo[m].about \intersect retrieval.query # {})
        younger(m) == {x \in Live \ {m} : memo[x].updated >= memo[m].updated}
    IN /\ \A m \in given : fits(m)
       /\ \A m \in Memos \ given :
            fits(m) => \/ Len(retrieval.found) = Most /\ \A x \in given : value(x) >= value(m)
                       \/ Cardinality(younger(m)) >= Pool
=============================================================================
