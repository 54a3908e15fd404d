---------------------------- MODULE GraphQueries ----------------------------
(***************************************************************************)
(* The read queries of GraphStore (stores/graph_store.py), as the answers  *)
(* Neo4j may give over a graph                                             *)
(*                                                                         *)
(*   [nodes    : the entities present,                                     *)
(*    rels     : <<source, type, target>>,                                 *)
(*    embedded : the entities with an embedding,                           *)
(*    indexes  : those of "vector", "name" that exist]                     *)
(*                                                                         *)
(* A query whose order the Cypher text leaves open is the set of the       *)
(* sequences it may return.  Similarity and lexical score are rankings: a  *)
(* sequence of entities, best first.                                       *)
(***************************************************************************)
EXTENDS Naturals, SequencesExt

CONSTANTS
    Entities,         \* every entity the knowledge base may hold
    RelTypes,         \* relationship types; "COMPLEMENTS" is one the code names
    OverFetch, MinFetch,    \* vector candidates for n results: max(4n, 50)
    NameFetch, MinNames,    \* lexical candidates: max(3n, 30)
    ComplementLimit,  \* LIMIT of complements_of, 20
    PathLimit         \* LIMIT of traverse, 100

ASSUME LimitsAssumption ==
    {OverFetch, MinFetch, NameFetch, MinNames, ComplementLimit, PathLimit} \subseteq Nat

GraphType == [nodes : SUBSET Entities, rels : SUBSET (Entities \X RelTypes \X Entities),
              embedded : SUBSET Entities, indexes : SUBSET {"vector", "name"}]

\* The first n elements of a sequence.
First(s, n) == [i \in (DOMAIN s) \cap (1..n) |-> s[i]]

AtLeast(low, n) == IF n < low THEN low ELSE n

\* The elements of a finite set as a strict total order, a set of pairs, puts them:
\* the k-th has k - 1 before it.
InOrder(S, R) ==
    [k \in 1..Cardinality(S) |-> CHOOSE i \in S : Cardinality({j \in S : <<j, i>> \in R}) = k - 1]

\* What a sequence has at some of its places.
Picked(s, places) ==
    LET order == InOrder(places, {p \in places \X places : p[1] < p[2]})
    IN  [k \in DOMAIN order |-> s[order[k]]]

Filtered(s, keep) == Picked(s, {i \in DOMAIN s : s[i] \in keep})

\* Index candidates best first, then the filter, then the LIMIT.
Ranked(ranking, indexed, candidates, keep, n) ==
    First(Filtered(First(Filtered(ranking, indexed), candidates), keep), n)

VectorHits(g, near, keep, n) ==
    Ranked(near, g.embedded \cap g.nodes, AtLeast(MinFetch, n * OverFetch), keep, n)

\* Variant: the lexical query is sent without its WHERE clause.
NameHitsUnfiltered(g, matched, keep, n) ==
    IF "name" \notin g.indexes THEN <<>>
    ELSE Ranked(matched, g.nodes, AtLeast(MinNames, n * NameFetch), Entities, n)

\* An absent index raises inside the query and is answered by no results.
NameHits(g, matched, keep, n) ==
    IF "name" \notin g.indexes THEN <<>>
    ELSE Ranked(matched, g.nodes, AtLeast(MinNames, n * NameFetch), keep, n)

\* Any sequence of at most limit of the rows of a result.
Rows(S, limit) == {First(s, limit) : s \in SetToSeqs(S)}

\* DISTINCT is over the pair of the neighbour and the seed it complements.
Counterparts(g, seeds) ==
    Rows({p \in Entities \X seeds :
             /\ p[1] \notin seeds
             /\ \/ <<p[1], "COMPLEMENTS", p[2]>> \in g.rels
                \/ <<p[2], "COMPLEMENTS", p[1]>> \in g.rels}, ComplementLimit)

\* The directed paths of 1..hops relationships out of start, each
\* relationship at most once in a path, over the given types.
Paths(g, start, types, hops) ==
    LET rels == {r \in g.rels : r[2] \in types}
    IN  UNION {{p \in [1..k -> rels] : /\ p[1][1] = start
                                       /\ \A i \in 2..k : p[i][1] = p[i - 1][3]
                                       /\ IsInjective(p)} : k \in 1..hops}

Nodes(path) == <<path[1][1]>> \o [i \in DOMAIN path |-> path[i][3]]

Traversals(g, start, types, hops) == Rows(Paths(g, start, types, hops), PathLimit)

-----------------------------------------------------------------------------
(* Entity resolution.  A term is what its text can mean: an id, the        *)
(* candidate ids its patterns give, and the entities whose id, name, title *)
(* or term contains its tokens.                                            *)

TermType == [id : Entities \cup {"none"}, candidates : Seq(Entities), like : SUBSET Entities]

\* The sequences of nodes resolve_entities may give for one term.
Resolutions(g, term, limit) ==
    LET candidates == Filtered(term.candidates, g.nodes)
    IN  IF term.id \in g.nodes THEN {<<term.id>>}
        ELSE IF candidates # <<>> THEN {First(candidates, limit)}
        ELSE Rows(term.like \cap g.nodes, limit)

-----------------------------------------------------------------------------
(* What the answers are turned into (retrieval/engine.py).                 *)

\* A sequence without its later repetitions.
Distinct(s) == Picked(s, {i \in DOMAIN s : \A j \in 1..(i - 1) : s[j] # s[i]})

\* What a traversal adds to the nodes already seen: those its paths meet for the
\* first time, with the hop they are first met at.
Visited(seen, trails) ==
    LET places == UNION {{t} \X DOMAIN Nodes(trails[t]) : t \in DOMAIN trails}
        Node(p) == Nodes(trails[p[1]])[p[2]]
        Earlier(p, q) == p[1] < q[1] \/ (p[1] = q[1] /\ p[2] < q[2])
        fresh == {p \in places : /\ \A i \in DOMAIN seen : seen[i].id # Node(p)
                                 /\ \A q \in places : Earlier(q, p) => Node(q) # Node(p)}
        order == InOrder(fresh, {o \in fresh \X fresh : Earlier(o[1], o[2])})
    IN  seen \o [k \in DOMAIN order |-> [id |-> Node(order[k]), depth |-> order[k][2] - 1]]

\* Graph score is 1/(1 + depth), and the sort is stable.
ByDepth(visits) ==
    LET Before(i, j) == visits[i].depth < visits[j].depth \/ (visits[i].depth = visits[j].depth /\ i < j)
        order == InOrder(DOMAIN visits, {p \in (DOMAIN visits) \X (DOMAIN visits) : Before(p[1], p[2])})
    IN  [k \in DOMAIN order |-> visits[order[k]]]
=============================================================================
