------------------------------ MODULE Retrieval ------------------------------
(***************************************************************************)
(* The knowledge engine's HTTP service (api/main.py): hybrid retrieval     *)
(* (retrieval/engine.py), the reasoning on top of it                       *)
(* (retrieval/reasoning_engine.py), entity resolution and traversal.       *)
(*                                                                         *)
(* The handlers are coroutines that never await: one request runs at a     *)
(* time, but between two of its queries the graph may be loaded or         *)
(* restored by another process, and Neo4j may go away.  A question is what *)
(* retrieval makes of it: the ranking of the entities by similarity, the   *)
(* lexical matches (none if no term survives _lucene_terms) and the        *)
(* intent.  A reply of the LLM is the articles it names, invented ones     *)
(* included, and the phrases _determine_answer_type looks for.             *)
(***************************************************************************)
EXTENDS GraphQueries

CONSTANTS
    Articles,       \* the entities of type Article
    Invented,       \* article ids an LLM may name that no graph holds
    Regulations, Regulation,   \* the regulation of each entity
    Questions,      \* [near, matched : Seq(Entities), intent : STRING]
    Replies,        \* [names : SUBSET (Articles \cup Invented), says : SUBSET STRING]
    Terms,          \* the lists of terms a client may ask to resolve or start from
    TopKs, DefaultTopK,        \* top_k given, and for 0
    Hops, DefaultHops,         \* max_hops given, and for 0
    TypeFilters,    \* relationship_types of /graph/traverse; all of them for none
    PathCounts,     \* its limit
    TermLimit,      \* limit_per_term, 5
    SeedLimit,      \* vector hits used as seeds, 5
    Promoted,       \* articles promoted when the LLM cites none, 5
    MaxRank,        \* no list that is fused is longer
    Points,         \* what a rank counts: 1/(k + rank), in a unit that keeps ranks apart
    Graphs,         \* the graphs a load or a restore passes through
    MaxChanges, MaxOutages, MaxRestarts

ASSUME EntityAssumption ==
    /\ IsFiniteSet(Entities) /\ IsFiniteSet(Invented) /\ Articles \subseteq Entities
    /\ Invented \cap Entities = {}
    /\ Regulation \in [Entities -> Regulations]

ASSUME ReplyAssumption ==
    Replies \subseteq [names : SUBSET (Articles \cup Invented), says : SUBSET STRING]

ASSUME RequestAssumption ==
    /\ TopKs \subseteq Nat /\ DefaultTopK \in Nat
    /\ Hops \subseteq Nat /\ DefaultHops \in Nat
    /\ \A q \in Questions : q.near \in Seq(Entities) /\ q.matched \in Seq(Entities)

\* Twice top_k names and vectors; each entity once by traversal, then the counterparts.
\* One rank more than there is, so that the last that there is counts.
ASSUME FusionAssumption ==
    /\ MaxRank \in Nat /\ Points \in [1..(MaxRank + 1) -> Nat]
    /\ \A k \in TopKs \cup {DefaultTopK} : 2 * k <= MaxRank
    /\ Cardinality(Entities) + ComplementLimit <= MaxRank
    /\ \A r \in 1..MaxRank : Points[r] > Points[r + 1]

ASSUME GraphAssumption == Graphs \subseteq GraphType

VARIABLES
    up,         \* Neo4j answers
    graph,      \* what it holds
    store,      \* graph_store and the engines on it: "none" or "ready"
    health,     \* what /health said last, "unknown" once anything has changed
    pc,         \* the step of the request in service that comes next
    req,        \* that request
    left,       \* the seeds, ids or terms it has still to go through
    hits,       \* the vector arm: ids, best first
    visits,     \* the nodes its traversals met, with the hop: [id, depth]
    paths,      \* the paths /graph/traverse has collected
    lexical,    \* the name arm: ids, best first
    bridged,    \* the rows of complements_of
    answer,     \* the last answer
    faults      \* changes of the graph, outages and restarts so far

vars == <<up, graph, store, health, pc, req, left, hits, visits, paths, lexical, bridged, answer, faults>>

\* "ids" is /graph/traverse with auto_resolve off.
Kinds == {"search", "reason", "vector", "resolve", "traverse", "ids"}

\* question is empty for resolve and traverse, terms for the others.
NoRequest == [kind |-> "none", question |-> [near |-> <<>>, matched |-> <<>>, intent |-> "general"],
              regulations |-> {}, top_k |-> 0, hops |-> 0, terms |-> <<>>, types |-> {}, limit |-> 0]

Arms == {"vector", "graph", "name"}

NoAnswer == [status |-> 0, at |-> "idle", results |-> <<>>, cited |-> {}, verified |-> {},
             confidence |-> "LOW", type |-> "general", paths |-> <<>>]

\* Only the filter of one regulation is passed on.
Kept(regulations) ==
    IF Cardinality(regulations) = 1 THEN {e \in Entities : Regulation[e] \in regulations}
    ELSE Entities

\* x or default
Given(x, default) == IF x = 0 THEN default ELSE x

TopK == Given(req.top_k, DefaultTopK)
MaxHops == Given(req.hops, DefaultHops)

-----------------------------------------------------------------------------
(* Rank fusion                                                             *)

\* Traversed nodes by depth, then the counterparts, as _query concatenates them.
Graphed ==
    LET traversed == ByDepth(visits)
    IN  [i \in DOMAIN traversed |-> traversed[i].id] \o [i \in DOMAIN bridged |-> bridged[i][1]]

Lists == <<hits, Graphed, lexical>>

\* Where e is in the lists, at the given ranks.
Places(lists, e, ranks) ==
    {o \in (DOMAIN lists) \X ranks : o[2] \in DOMAIN lists[o[1]] /\ lists[o[1]][o[2]] = e}

\* The sum of 1 / (k + rank) over every occurrence.
Score(lists, e) ==
    LET sum[r \in 0..MaxRank] ==
            IF r = 0 THEN 0 ELSE sum[r - 1] + Cardinality(Places(lists, e, {r})) * Points[r]
    IN  sum[MaxRank]

SourcesOf(lists, e) ==
    {<<"vector", "graph", "name">>[l] : l \in {k \in DOMAIN lists : e \in ToSet(lists[k])}}

\* The keys of result_data, in order of insertion.
Gathered(lists) == Distinct(lists[1] \o lists[2] \o lists[3])

\* sorted(reverse=True) is stable: equal scores keep the order of insertion.
Fusion(lists) ==
    LET order == Gathered(lists)
        score == [i \in DOMAIN order |-> Score(lists, order[i])]
        Before(i, j) == score[i] > score[j] \/ (score[i] = score[j] /\ i < j)
        sorted == InOrder(DOMAIN order, {p \in (DOMAIN order) \X (DOMAIN order) : Before(p[1], p[2])})
    IN  [k \in DOMAIN sorted |-> [id |-> order[sorted[k]], arms |-> SourcesOf(lists, order[sorted[k]])]]

Ids(results) == {results[i].id : i \in DOMAIN results}

-----------------------------------------------------------------------------
(* Reasoning                                                               *)

\* Variant: a citation marked unverified counts as valid.
ConfidencesUnmarked(results, both, verified, cited) ==
    LET r == IF results < 5 THEN results ELSE 5
        b == IF both < 3 THEN both ELSE 3
        total == AtLeast(1, cited)
        overall == 3 * r * total + 5 * b * total + 20 * cited
    IN  IF results = 0 THEN {"LOW"}
        ELSE {c \in {"HIGH", "MEDIUM", "LOW"} :
                 /\ c = "HIGH" => overall >= 35 * total
                 /\ c = "MEDIUM" => overall <= 35 * total /\ overall >= 20 * total
                 /\ c = "LOW" => overall <= 20 * total}

\* 0.3 min(n/5, 1) + 0.3 min(both/3, 1) + 0.4 verified/max(cited, 1) against 0.7
\* and 0.4, all times 50 max(cited, 1).  On a threshold the floating-point sum
\* may fall on either side.
Confidences(results, both, verified, cited) ==
    LET r == IF results < 5 THEN results ELSE 5
        b == IF both < 3 THEN both ELSE 3
        total == AtLeast(1, cited)
        overall == 3 * r * total + 5 * b * total + 20 * verified
    IN  IF results = 0 THEN {"LOW"}
        ELSE {c \in {"HIGH", "MEDIUM", "LOW"} :
                 /\ c = "HIGH" => overall >= 35 * total
                 /\ c = "MEDIUM" => overall <= 35 * total /\ overall >= 20 * total
                 /\ c = "LOW" => overall <= 20 * total}

\* The articles the reply names or else the first articles retrieved.
Citations(names, results) ==
    LET articles == {i \in DOMAIN results : results[i].id \in Articles}
    IN  IF names # {} THEN names
        ELSE {results[i].id : i \in {j \in articles : Cardinality({k \in articles : k <= j}) <= Promoted}}

\* The first of its tests that holds, on the intent and the phrases of the reply.
AnswerType(intent, says) ==
    IF intent = "prohibition" \/ "prohibited" \in says THEN "prohibition"
    ELSE IF intent = "exemption" \/ "does not apply" \in says THEN "non_applicable"
    ELSE IF "unclear" \in says THEN "legal_uncertainty"
    ELSE IF "subject to" \in says THEN "conditional_permission"
    ELSE IF intent \in {"obligation", "risk_classification"} THEN "obligation" ELSE "general"

-----------------------------------------------------------------------------
(* The service                                                             *)

\* The engines are built at start-up or not at all.
Init ==
    /\ up \in BOOLEAN
    /\ graph \in Graphs
    /\ store = IF up THEN "ready" ELSE "none"
    /\ health = "unknown"
    /\ pc = "idle" /\ req = NoRequest /\ answer = NoAnswer
    /\ left = <<>> /\ hits = <<>> /\ visits = <<>> /\ paths = <<>> /\ lexical = <<>> /\ bridged = <<>>
    /\ faults = [changes |-> 0, outages |-> 0, restarts |-> 0]

Work == <<left, hits, visits, paths, lexical, bridged>>
Outside == <<up, graph, store, health, faults>>

\* The request ends with a status, at a step.
End(a) == pc' = "done" /\ answer' = a

Fails(status) == End([NoAnswer EXCEPT !.status = status, !.at = pc])

\* Variant: the vector index is not asked for.
HealthUnindexed == 
    /\ pc = "idle"
    /\ health' = IF store = "ready" /\ up THEN "healthy" ELSE "degraded"
    /\ UNCHANGED <<up, graph, store, faults, pc, req, answer, Work>>

\* GET /health counts the nodes and looks for the vector index, only for that one.
Health ==
    /\ pc = "idle"
    /\ health' = IF store = "ready" /\ up /\ "vector" \in graph.indexes THEN "healthy" ELSE "degraded"
    /\ UNCHANGED <<up, graph, store, faults, pc, req, answer, Work>>

\* A request arrives: 503 without a store, otherwise its first step.
Accept(r) ==
    /\ pc = "idle"
    /\ req' = r
    /\ left' = IF r.kind = "ids" THEN [i \in DOMAIN r.terms |-> r.terms[i].id] ELSE r.terms
    /\ IF store = "none" THEN Fails(503)
       ELSE /\ pc' = IF r.kind = "ids" THEN "follow"
                     ELSE IF r.kind \in {"resolve", "traverse"} THEN "resolve" ELSE "embed"
            /\ UNCHANGED answer
    /\ UNCHANGED <<Outside, hits, visits, paths, lexical, bridged>>

AskQuestion ==
    \E kind \in {"search", "reason", "vector"}, q \in Questions, regs \in SUBSET Regulations, k \in TopKs, h \in Hops :
        /\ kind # "vector" => Cardinality(regs) <= 1
        /\ kind # "search" => h = 0
        /\ kind = "vector" => k > 0
        /\ Accept([NoRequest EXCEPT !.kind = kind, !.question = q, !.regulations = regs, !.top_k = k, !.hops = h])

AskGraph ==
    \/ \E t \in Terms : Accept([NoRequest EXCEPT !.kind = "resolve", !.terms = t])
    \/ \E kind \in {"traverse", "ids"}, t \in Terms, types \in TypeFilters, h \in Hops \ {0}, n \in PathCounts :
           Accept([NoRequest EXCEPT !.kind = kind, !.terms = t, !.types = types, !.hops = h, !.limit = n])

\* The embedding API answers or raises.
Embed ==
    /\ pc = "embed"
    /\ \/ pc' = "vector" /\ UNCHANGED answer
       \/ Fails(500)
    /\ UNCHANGED <<Outside, Work, req>>

Queryable == up /\ "vector" \in graph.indexes

SearchVectors ==
    /\ pc = "vector"
    /\ LET keep == Kept(req.regulations)
           found == IF req.kind = "vector" THEN VectorHits(graph, req.question.near, keep, req.top_k)
                    ELSE VectorHits(graph, req.question.near, keep, 2 * TopK)
       IN  IF ~Queryable THEN Fails(500) /\ UNCHANGED Work
           ELSE /\ hits' = found
                /\ left' = First(found, SeedLimit)
                /\ IF req.kind = "vector"
                   THEN End([NoAnswer EXCEPT !.status = 200, !.at = pc,
                                !.results = [i \in DOMAIN found |-> [id |-> found[i], arms |-> {"vector"}]]])
                   ELSE pc' = "walk" /\ UNCHANGED answer
                /\ UNCHANGED <<visits, paths, lexical, bridged>>
    /\ UNCHANGED <<Outside, req>>

\* One traversal for each seed; one that raises is skipped.
Walk ==
    /\ pc = "walk"
    /\ IF left = <<>> THEN pc' = "names" /\ UNCHANGED Work
       ELSE /\ left' = Tail(left)
            /\ IF up THEN \E s \in Traversals(graph, Head(left), RelTypes, MaxHops) : visits' = Visited(visits, s)
               ELSE UNCHANGED visits
            /\ UNCHANGED <<pc, hits, paths, lexical, bridged>>
    /\ UNCHANGED <<Outside, req, answer>>

SearchNames ==
    /\ pc = "names"
    /\ pc' = "expand"
    /\ lexical' = IF up THEN NameHits(graph, req.question.matched, Kept(req.regulations), 2 * TopK) ELSE <<>>
    /\ UNCHANGED <<Outside, req, answer, left, hits, visits, paths, bridged>>

\* The handler of a failed expansion names a logger the module does not have:
\* what it raises goes up to the client.
Expand ==
    /\ pc = "expand"
    /\ LET seeds == First(hits, SeedLimit)
       IN  IF seeds = <<>> THEN pc' = "fuse" /\ UNCHANGED <<answer, bridged>>
           ELSE IF ~up THEN Fails(500) /\ UNCHANGED bridged
           ELSE pc' = "fuse" /\ bridged' \in Counterparts(graph, ToSet(seeds)) /\ UNCHANGED answer
    /\ UNCHANGED <<Outside, req, left, hits, visits, paths, lexical>>

\* Variant: top_k is cut off before the results are sorted.
FuseUnsorted ==
    /\ pc = "fuse"
    /\ LET order == First(Gathered(Lists), TopK)
           results == [k \in DOMAIN order |-> [id |-> order[k], arms |-> SourcesOf(Lists, order[k])]]
           retrieved == [NoAnswer EXCEPT !.status = 200, !.at = pc, !.results = results]
       IN  IF req.kind = "search" THEN End(retrieved)
           ELSE pc' = "reply" /\ answer' = [retrieved EXCEPT !.status = 0]
    /\ UNCHANGED <<Outside, Work, req>>

Fuse ==
    /\ pc = "fuse"
    /\ LET retrieved == [NoAnswer EXCEPT !.status = 200, !.at = pc, !.results = First(Fusion(Lists), TopK)]
       IN  IF req.kind = "search" THEN End(retrieved)
           ELSE pc' = "reply" /\ answer' = [retrieved EXCEPT !.status = 0]
    /\ UNCHANGED <<Outside, Work, req>>

\* The answer made of a reply: names cited, phrases and the answer's type.
Reasoned(names, type) ==
    LET results == answer.results
        cited == Citations(names, results)
        verified == cited \cap Ids(results)
        both == Cardinality({i \in DOMAIN results : {"vector", "graph"} \subseteq results[i].arms})
    IN  \E c \in Confidences(Cardinality(DOMAIN results), both, Cardinality(verified), Cardinality(cited)) :
            End([NoAnswer EXCEPT !.status = 200, !.at = pc, !.results = results, !.cited = cited,
                                 !.verified = verified, !.confidence = c, !.type = type])

\* The LLM replies, or raises: then the error's text is the answer.
Generate ==
    /\ pc = "reply"
    /\ \/ \E r \in Replies : Reasoned(r.names, AnswerType(req.question.intent, r.says))
       \/ Reasoned({}, "general")
    /\ UNCHANGED <<Outside, Work, req>>

\* One term of resolve_entities, an exception of which nobody catches.  The ids
\* are gathered in hits without repetition.
Resolve ==
    /\ pc = "resolve"
    /\ IF left = <<>>
       THEN /\ IF req.kind = "traverse" THEN pc' = "follow" /\ left' = hits /\ UNCHANGED answer
               ELSE /\ End([NoAnswer EXCEPT !.status = 200, !.at = pc,
                               !.results = [i \in DOMAIN hits |-> [id |-> hits[i], arms |-> {}]]])
                    /\ UNCHANGED left
            /\ UNCHANGED hits
       ELSE IF ~up THEN Fails(500) /\ UNCHANGED <<left, hits>>
       ELSE /\ left' = Tail(left)
            /\ \E s \in Resolutions(graph, Head(left), TermLimit) : hits' = Distinct(hits \o s)
            /\ UNCHANGED <<pc, answer>>
    /\ UNCHANGED <<Outside, req, visits, paths, lexical, bridged>>

\* One traversal for each resolved id until limit paths are there; one that
\* raises is skipped.
Follow ==
    /\ pc = "follow"
    /\ IF left = <<>> \/ Len(paths) >= req.limit
       THEN /\ End([NoAnswer EXCEPT !.status = 200, !.at = pc, !.paths = First(paths, req.limit)])
            /\ UNCHANGED <<left, paths>>
       ELSE /\ left' = Tail(left)
            /\ IF up THEN \E s \in Traversals(graph, Head(left), req.types, req.hops) : paths' = paths \o s
               ELSE UNCHANGED paths
            /\ UNCHANGED <<pc, answer>>
    /\ UNCHANGED <<Outside, req, hits, visits, lexical, bridged>>

\* The response goes out, and the process is free for the next request.
Forget ==
    /\ pc' = "idle" /\ req' = NoRequest /\ answer' = NoAnswer
    /\ left' = <<>> /\ hits' = <<>> /\ visits' = <<>> /\ paths' = <<>> /\ lexical' = <<>> /\ bridged' = <<>>

Respond == pc = "done" /\ Forget /\ UNCHANGED Outside

-----------------------------------------------------------------------------
(* What happens around it                                                  *)

Serving == <<pc, req, answer, Work>>

\* A script loads, clears or restores the graph.
Change ==
    /\ faults.changes < MaxChanges /\ up
    /\ graph' \in Graphs \ {graph}
    /\ faults' = [faults EXCEPT !.changes = @ + 1]
    /\ health' = "unknown"
    /\ UNCHANGED <<up, store, Serving>>

Outage ==
    /\ faults.outages < MaxOutages /\ up
    /\ up' = FALSE
    /\ faults' = [faults EXCEPT !.outages = @ + 1]
    /\ health' = "unknown"
    /\ UNCHANGED <<graph, store, Serving>>

Back ==
    /\ ~up
    /\ up' = TRUE
    /\ health' = "unknown"
    /\ UNCHANGED <<graph, store, faults, Serving>>

\* The process stops, with the request it serves, and starts again.
Restart ==
    /\ faults.restarts < MaxRestarts
    /\ faults' = [faults EXCEPT !.restarts = @ + 1]
    /\ store' = IF up THEN "ready" ELSE "none"
    /\ health' = "unknown"
    /\ Forget
    /\ UNCHANGED <<up, graph>>

Next ==
    \/ AskQuestion \/ AskGraph \/ Health
    \/ Embed \/ SearchVectors \/ Walk \/ SearchNames \/ Expand \/ Fuse \/ Generate
    \/ Resolve \/ Follow \/ Respond
    \/ Change \/ Outage \/ Back \/ Restart

Spec == Init /\ [][Next]_vars

-----------------------------------------------------------------------------
(* Properties                                                              *)

\* Each entity is returned once, and agreement counts: an entity that has, down
\* to every rank, at least as many places in the three lists as f, and at some
\* rank more, is returned ahead of f, and top_k never cuts the better of two
\* (_rrf_fusion).
AgreementOutranks ==
    answer.at \in {"fuse", "reply"} =>
        LET results == answer.results
            lists == Lists
            ranks == UNION {DOMAIN lists[l] : l \in DOMAIN lists}
            Count(e, r) == Cardinality(Places(lists, e, 1..r))
            Outranks(e, f) == /\ \A r \in ranks : Count(e, r) >= Count(f, r)
                              /\ \E r \in ranks : Count(e, r) > Count(f, r)
        IN  /\ \A i, j \in DOMAIN results : results[i].id = results[j].id => i = j
            /\ \A i \in DOMAIN results : \A e \in Entities :
                   Outranks(e, results[i].id) => \E j \in 1..(i - 1) : results[j].id = e

\* What the regulation filter does hold for: an entity of another regulation is
\* returned only because the graph arm, which is not filtered, reached it.
FilterHolds ==
    answer.at \in {"vector", "fuse", "reply"} =>
        \A i \in DOMAIN answer.results :
            answer.results[i].id \notin Kept(req.regulations) => answer.results[i].arms = {"graph"}

\* HIGH confidence needs retrieval behind the citations, whatever the LLM wrote
\* and however much was retrieved: a quarter of what is cited, and at least one
\* article, is among the results (_score_confidence).
HighIsGrounded ==
    answer.confidence = "HIGH" =>
        /\ answer.verified # {}
        /\ 4 * Cardinality(answer.verified) >= Cardinality(answer.cited)

\* /health and the handlers agree: while nothing has changed since it said
\* healthy, only the embedding API can make a request fail.
HealthyMeansAnswering ==
    [][answer' # answer /\ answer'.status \in {500, 503} /\ answer'.at # "embed" => health # "healthy"]_vars

\* engine.py:229: "expansion is additive, never fatal".
ExpansionNeverFatal == ~(answer.status = 500 /\ answer.at = "expand")
=============================================================================
