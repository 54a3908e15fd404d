---------------------------- MODULE MCRetrieval ----------------------------
(* A small knowledge base: two articles of the AI Act, one of the GDPR and a *)
(* concept without an embedding.                                             *)
EXTENDS Retrieval

MCEntities == {"a1", "a2", "g1", "c1"}
MCArticles == {"a1", "a2", "g1"}
MCInvented == {"x1", "x2", "x3", "x4"}
MCRegulation == [e \in MCEntities |-> IF e = "g1" THEN "GDPR" ELSE "EU_AI_ACT"]
MCRelTypes == {"COMPLEMENTS", "REQUIRES"}

Loaded == [nodes |-> MCEntities, embedded |-> MCArticles, indexes |-> {"vector", "name"},
           rels |-> {<<"a1", "COMPLEMENTS", "g1">>, <<"a2", "COMPLEMENTS", "g1">>,
                     <<"a1", "REQUIRES", "c1">>, <<"c1", "REQUIRES", "a2">>}]
Restored == [Loaded EXCEPT !.indexes = {"vector"}]
Nodes1 == [nodes |-> {"a1", "g1"}, embedded |-> {}, indexes |-> {}, rels |-> {}]
MCGraphs == {Loaded, Restored, Nodes1}

Question(near, matched, intent) == [near |-> near, matched |-> matched, intent |-> intent]
MCQuestions == {Question(<<"a1", "a2", "g1", "c1">>, <<"c1", "a1">>, "obligation"),
                Question(<<"g1", "c1", "a2", "a1">>, <<>>, "prohibition"),
                Question(<<"a2", "g1", "a1", "c1">>, <<"g1", "c1", "a2">>, "general")}

MCReplies == {[names |-> {}, says |-> {}],
              [names |-> {"a1", "x1"}, says |-> {"prohibited"}],
              [names |-> {"a2", "x1", "x2", "x3"}, says |-> {"unclear"}],
              [names |-> {"x1"}, says |-> {"does not apply"}],
              [names |-> {"g1", "x1", "x2", "x3", "x4"}, says |-> {"subject to"}]}

Term(id, candidates, like) == [id |-> id, candidates |-> candidates, like |-> like]
MCTerms == {<<Term("none", <<"g1", "a1">>, {})>>,
            <<Term("c1", <<>>, {}), Term("none", <<>>, {"a1", "a2", "c1"})>>}
MCPoints == [r \in 1..9 |-> 100000000 \div (60 + r)]
MCTypeFilters == {MCRelTypes, {"REQUIRES"}}
=============================================================================
