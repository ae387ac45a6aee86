----------------------------- MODULE Retrieval -----------------------------
(***************************************************************************)
(* MultiRouteRetriever: a keyword route over the documents of a category,  *)
(* an optional vector route, the reciprocal rank fusion of what they find, *)
(* the optional reranking, and the context built from the result.          *)
(*                                                                         *)
(* A document is the key it is merged by; scores are scaled to integers.   *)
(***************************************************************************)
EXTENDS Naturals, Sequences, FiniteSets, SequencesExt, FiniteSetsExt, Functions

CONSTANTS
  Doc,          \* documents of the category
  Store,        \* the store's list of them, in its order
  Term,         \* tokens
  Terms,        \* the tokens of each document
  Idf,          \* log((N + 1) / (df + 1)) + 1, scaled, by document frequency
  DocLength,    \* the length of each document's part of the context
  MaxContext,   \* max_length
  TopK,         \* rag_top_k
  Failed,       \* a route or a grading that raised
  NoNumber      \* a grading without a number in it

ASSUME RetrievalAssumption ==
  /\ Store \in Seq(Doc) /\ IsInjective(Store)
  /\ Terms \in [Doc -> SUBSET Term]
  /\ Idf \in [0 .. Len(Store) -> Nat \ {0}]
  /\ \A n, m \in DOMAIN Idf : n < m => Idf[n] > Idf[m]
  /\ DocLength \in [Doc -> Nat]
  /\ MaxContext \in Nat /\ TopK \in 1 .. 5

\* What is fetched before a reranking is cut to TopK afterwards.
FetchK(reranking) == IF reranking THEN 2 * TopK ELSE TopK

-----------------------------------------------------------------------------
\* The members of S from the first to the last by R, the pairs of an earlier one
\* and a later one: each stands behind as many as come before it.
Ordered(S, R) ==
  [n \in 1 .. Cardinality(S) |->
     CHOOSE x \in S : Cardinality({y \in S : <<y, x>> \in R}) = n - 1]

\* sorted(..., reverse=True): by the falling value of the places, ties in the order
\* they came in.
Falling(value) ==
  {p \in (DOMAIN value) \X (DOMAIN value) :
     \/ value[p[1]] > value[p[2]]
     \/ value[p[1]] = value[p[2]] /\ p[1] < p[2]}

Descending(s, value) ==
  [n \in DOMAIN s |-> s[Ordered(DOMAIN s, Falling(value))[n]]]

Best(s, k) == SubSeq(s, 1, IF k < Len(s) THEN k ELSE Len(s))

\* KeywordRetriever: each word of the query counts as often as it is asked for and
\* the more, the fewer documents have it; no word in common, no hit.
DocFreq(t) == Cardinality({d \in Range(Store) : t \in Terms[d]})

Score(query) ==
  [d \in Doc |-> FoldSet(LAMBDA t, sum : sum + query[t] * Idf[DocFreq(t)], 0, Terms[d])]

KeywordRetrieve(query, k) ==
  LET score == Score(query)
      hits  == SelectSeq(Store, LAMBDA d : score[d] > 0)
  IN Best(Descending(hits, [i \in DOMAIN hits |-> score[hits[i]]]), k)

\* similarity_search: the nearest points above the threshold.  A document that was
\* updated has several points, so it may be found more than once.
VectorLists(k) == UNION {[1 .. n -> Doc] : n \in 0 .. k}

-----------------------------------------------------------------------------
(***************************************************************************)
(* MultiRouteRetriever.retrieve.                                           *)
(***************************************************************************)

RrfK    == 60
Scale   == 61 * 62 * 63 * 64
MaxRank == 10

\* 1 / (rrf_k + rank), for the ranks a list of at most ten can have.
Share(rank) == Scale \div (RrfK + rank)

\* The places of the lists, the route and the rank; a route that failed is skipped.
Places(lists) ==
  {p \in (DOMAIN lists) \X (1 .. MaxRank) :
     lists[p[1]] # Failed /\ p[2] \in DOMAIN lists[p[1]]}

At(lists, p) == lists[p[1]][p[2]]

PlacesOf(lists, d) == {p \in Places(lists) : At(lists, p) = d}

\* Every appearance adds its share, those in one route too; the weights are all 1.
RrfScore(lists, d) ==
  LET routes(n) == {r \in DOMAIN lists : <<r, n>> \in PlacesOf(lists, d)}
      share(n)  == Share(n) * Cardinality(routes(n))
  IN share(1) + share(2) + share(3) + share(4) + share(5)
     + share(6) + share(7) + share(8) + share(9) + share(10)

\* The keys in the order they are first seen: route after route, rank after rank.
Earlier(p, q) == p[1] < q[1] \/ (p[1] = q[1] /\ p[2] < q[2])

FirstPlaces(lists) ==
  {p \in Places(lists) : \A q \in PlacesOf(lists, At(lists, p)) : ~Earlier(q, p)}

Merged(lists) ==
  LET first == FirstPlaces(lists)
      order == Ordered(first, {pq \in first \X first : Earlier(pq[1], pq[2])})
  IN [n \in DOMAIN order |-> At(lists, order[n])]

ByScore(lists) ==
  LET merged == Merged(lists)
  IN Descending(merged, [i \in DOMAIN merged |-> RrfScore(lists, merged[i])])

\* Planted fault: the sort is not reversed.
Fuse_Ascending(lists, k) == Best(Reverse(ByScore(lists)), k)

Fuse(lists, k) == Best(ByScore(lists), k)

-----------------------------------------------------------------------------
(***************************************************************************)
(* CrossEncoderReranker and format_context.                                *)
(***************************************************************************)

\* What the model's answer is worth in ten-thousandths: its first number by ten,
\* a half without one; when the call fails, the fused score stands in.
Graded(grade, rrf) ==
  CASE grade = Failed   -> rrf \div (Scale \div 10000)
    [] grade = NoNumber -> 5000
    [] OTHER            -> 1000 * grade

\* rerank, by the grades given; without a model the order stays.
Rerank(docs, lists, grades) ==
  Best(Descending(docs, [i \in DOMAIN docs |->
                           Graded(grades[docs[i]], RrfScore(lists, docs[i]))]), TopK)

\* The documents in their order, up to the first that does not fit.
FormatContext(docs) ==
  LET length(n) == FoldSeq(LAMBDA d, sum : sum + DocLength[d], 0, SubSeq(docs, 1, n))
  IN SubSeq(docs, 1, Max({n \in 0 .. Len(docs) : length(n) <= MaxContext}))

=============================================================================
