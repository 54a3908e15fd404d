---------------------------- MODULE MCExtraction ----------------------------
(***************************************************************************)
(* Extraction over corpora of three articles, a recital and a guideline,   *)
(* and some that lack a part of it.                                        *)
(***************************************************************************)
EXTENDS Extraction

Art(reg, n) == <<"Article", reg, n>>
Recital     == <<"Recital", "GDPR", 1>>
Guideline   == <<"Guideline", "GDPR", 1>>

Chapter(reg, number, articles) == [reg |-> reg, number |-> number, articles |-> articles]

Complete == [
    present |-> TRUE, hasRecitals |-> TRUE,
    chapters |-> {Chapter("GDPR", 1, {1, 2}), Chapter("AIACT", 1, {1})},
    recitals |-> {Recital}, guidelines |-> {Guideline}]

\* An article and the guidelines gone; no recitals file; a text that is no chapter
\* among the chapters; a chapter that lost its header.
Shorter == [Complete EXCEPT !.chapters = {Chapter("GDPR", 1, {1}), Chapter("AIACT", 1, {1})},
                            !.guidelines = {}]
Partial == [Complete EXCEPT !.hasRecitals = FALSE, !.recitals = {}]
Stray   == [Complete EXCEPT !.chapters = @ \cup {Chapter("GDPR", NoNumber, {})}]
Lost    == [Complete EXCEPT !.chapters = {Chapter("GDPR", NoNumber, {1, 2}),
                                          Chapter("AIACT", 1, {1})}]

MCCorpora == {Complete, NoData, Shorter, Partial, Stray, Lost}

\* Article 2 names an article of the other regulation by its number alone.
MCMentions ==
    [e \in {Art("GDPR", 1), Art("GDPR", 2), Art("AIACT", 1), Recital, Guideline} |->
        CASE e = Art("GDPR", 1)  -> {2}
          [] e = Art("GDPR", 2)  -> {1, 3}
          [] e = Art("AIACT", 1) -> {2}
          [] e = Recital         -> {1}
          [] e = Guideline       -> {2}]

MCDefinitionArticles == {Art("GDPR", 1)}
MCBearer             == <<"Actor", "ACTOR", 1>>
MCRight              == <<"Right", "RIGHT", 1>>
MCConcept(n)         == <<"Concept", "CONCEPT", n>>
MCRules              == {MCBearer}
MCRights             == {MCRight}
MCConcepts           == {MCConcept(1), MCConcept(2)}
MCConceptArticles    == {Art("GDPR", 2), Art("AIACT", 1)}
MCCrossMappings      == {<<Art("GDPR", 2), Art("AIACT", 1)>>}

MCNames ==
    [e \in MCRules \cup MCRights \cup MCConcepts |->
        CASE e = MCBearer     -> {Art("GDPR", 1)}
          [] e = MCRight      -> {Art("GDPR", 1), MCBearer}
          [] e = MCConcept(1) -> {MCConcept(2)}
          [] e = MCConcept(2) -> {}]
=============================================================================
