----------------------------- MODULE Extraction -----------------------------
(***************************************************************************)
(* How the files of parsed_data/ come to be.  Script 01 parses the legal   *)
(* texts of Data/; 02a, 03, 03b, 03c, 03e and 03f each read some of the    *)
(* parsed files and write entities and relationships; 02b and 03d check    *)
(* the whole; 02 and 04 load it into the graph (GraphLoading has the load  *)
(* itself).  An operator runs one script after another, in any order and   *)
(* any number of times, edits Data/ between them, and any script may be    *)
(* killed between two files or within one.                                 *)
(*                                                                         *)
(* An entity is <<kind, regulation, number>>, a relationship the pair of   *)
(* its ends.  Files that are always read and written together are one      *)
(* here: the recitals stand for the annexes too, the guidelines for cases  *)
(* and enforcement actions, interprets.json for cites.json, obligations    *)
(* for exemptions, "rules" for the five files of RuleBasedExtractor.       *)
(***************************************************************************)
EXTENDS Integers, Sequences, FiniteSets

CONSTANTS
    Corpora,             \* what Data/ may hold
    Shipped,             \* the corpus that the files of the repository were made from
    Mentions,            \* the article numbers that the text of an entity names
    DefinitionArticles,  \* the two articles that define terms
    Rules, Rights, Concepts,   \* entities that are tables of the code
    Names,               \* the entities that an entry of these tables names
    CrossMappings,       \* pairs of articles, one of each regulation, also a table
    ConceptArticles,     \* articles that the concepts' patterns and keywords match
    Bearer,              \* the actor whom obligations bind
    ExpectedArticles, MinRels, MaxOrphans,   \* thresholds of the exit gates
    MaxEdits,            \* bound: edits of Data/
    MaxKills             \* bound: scripts killed

NoNumber    == 0    \* a chapter file without a "Chapter N: Name:" header
Regulations == {"GDPR", "AIACT"}

\* A clone of the repository has no Data/ (CORPUS.md).
NoData == [present |-> FALSE, hasRecitals |-> FALSE,
           chapters |-> {}, recitals |-> {}, guidelines |-> {}]

ASSUME CorporaAssumption ==
    /\ {NoData, Shipped} \subseteq Corpora
    /\ \A c \in Corpora :
           /\ DOMAIN c = DOMAIN NoData
           /\ \A f \in c.chapters : f.reg \in Regulations /\ f.number \in Nat
           /\ \A r \in c.recitals : r[2] \in Regulations
\* A bearer is linked if he is one of the actors ("ACTOR_..."), a concept to concepts.
ASSUME TableAssumption ==
    /\ Rules \cup Rights \cup Concepts \subseteq DOMAIN Names
    /\ Bearer \in Rules
    /\ \A c \in Concepts : Names[c] \subseteq Concepts
ASSUME BoundAssumption ==
    {ExpectedArticles, MinRels, MaxOrphans, MaxEdits, MaxKills} \subseteq Nat

ParsedFiles     == {"chapters", "articles", "recitals", "guidelines"}
StructuralFiles == {"containment", "references", "interprets"}
EntityFiles     == {"definitions", "rules", "obligations", "concepts", "rights"}
RelFiles        == StructuralFiles \cup {"defines", "semantic_links", "obligation_links",
                                         "complements", "concept_links", "right_links"}
Files           == ParsedFiles \cup EntityFiles \cup RelFiles

\* What a script writes, in this order (of 02, what it writes if it extracts).
Outputs == [s \in {"01", "02a", "02", "03", "03b", "03c", "03e", "03f", "04"} |->
    CASE s = "01"  -> <<"chapters", "articles", "recitals", "guidelines">>
      [] s \in {"02a", "02"} -> <<"containment", "references", "interprets">>
      [] s = "03"  -> <<"definitions", "rules", "defines", "semantic_links">>
      [] s = "03b" -> <<"obligations", "obligation_links">>
      [] s = "03c" -> <<"complements">>
      [] s = "03e" -> <<"concepts", "concept_links">>
      [] s = "03f" -> <<"rights", "right_links">>
      [] s = "04"  -> <<>>]

Scripts    == DOMAIN Outputs
Extractors == Scripts \ {"01", "02", "04"}
Validators == {"02b", "03d"}

Reads == [s \in Scripts |->
    CASE s \in {"02a", "02"} -> ParsedFiles
      [] s \in {"03", "03b", "03c", "03e"} -> {"articles"}
      [] OTHER -> {}]

VARIABLES
    raw,      \* Data/
    tree,     \* the files
    dirs,     \* entities/ and relationships/, once they exist
    job,      \* the script that runs: what it read and has still to write
    passed,   \* validators that ended with 0 and nothing was written since
    current,  \* history: extractions complete, in order, since Data/ last changed
    cut,      \* history: an extraction of the structure was killed, none completed since
    edits, kills

vars == <<raw, tree, dirs, job, passed, current, cut, edits, kills>>

Missing      == [state |-> "missing", items |-> {}]
Torn         == [state |-> "torn", items |-> {}]
Whole(items) == [state |-> "whole", items |-> items]
Nothing      == [f \in ParsedFiles |-> {}]
Idle         == [script |-> "none", todo |-> <<>>, from |-> Nothing]

\* load_json: a missing file reads as an empty list, one cut short raises.
Items(f)     == tree[f].items
Readable(fs) == \A f \in fs : tree[f].state # "torn"
-----------------------------------------------------------------------------
(* The parsers: one item for each delimited block of the texts.            *)

Root(e)     == <<"Regulation", e[2], NoNumber>>
Parsed(c) == [
    chapters   |-> {<<"Chapter", f.reg, f.number>> : f \in c.chapters},
    articles   |-> UNION {{[id |-> <<"Article", f.reg, n>>, chapter |-> f.number] :
                              n \in f.articles} : f \in c.chapters},
    recitals   |-> c.recitals,
    guidelines |-> c.guidelines]

\* A bare number is taken for an article of the regulation that the text is of.
Refs(e) == {<<"Article", e[2], n>> : n \in Mentions[e]}
-----------------------------------------------------------------------------
(* The extractors: what goes into a file, given the parsed files.          *)

\* Variant: a reference is kept whether or not its target was parsed.
ExistingOfAll(targets, articles) == targets

\* "Only include if target exists in our parsed data".
Existing(targets, articles) == targets \cap articles

Containment(p) ==
    (UNION {{<<Root(c), c>>, <<c, Root(c)>>} : c \in p.chapters})
    \cup (UNION {LET c == <<"Chapter", a.id[2], a.chapter>>
                 IN  {<<c, a.id>>, <<a.id, c>>} : a \in p.articles})
    \cup {<<Root(r), r>> : r \in p.recitals}

LinksOf(e, targets) == {<<e, t>> : t \in targets \ {e}}
Of(kind, e)         == <<kind, e[2], e[3]>>

References(articles) == UNION {LinksOf(a, Existing(Refs(a), articles)) : a \in articles}
Interprets(texts, articles) == UNION {LinksOf(t, Existing(Refs(t), articles)) : t \in texts}

Definitions(articles) == {Of("Definition", a) : a \in articles \cap DefinitionArticles}
Defines(articles) == {<<a, Of("Definition", a)>> : a \in articles \cap DefinitionArticles}

Obligations(articles) == {Of("Obligation", a) : a \in articles}
ObligationLinks(articles) ==
    UNION {LinksOf(Of("Obligation", a), {a, Bearer}) : a \in articles}

\* What the tables name is linked without a look at what was parsed.
SemanticLinks      == UNION {LinksOf(r, Names[r]) : r \in Rules}
RightLinks         == UNION {LinksOf(r, Names[r]) : r \in Rights}
CuratedComplements == CrossMappings \cup {<<m[2], m[1]>> : m \in CrossMappings}
Curated            == SemanticLinks \cup RightLinks \cup CuratedComplements

\* What the articles say of each other's regulation is added to the table.
Complements(articles) ==
    CuratedComplements \cup
    UNION {LinksOf(a, {b \in Refs(a) \cap articles : b[2] # a[2]}) : a \in articles}

ConceptLinks(articles) ==
    UNION {LinksOf(c, (ConceptArticles \cap articles) \cup Names[c]) : c \in Concepts}

Content(f, p) ==
    LET articles == {a.id : a \in p.articles}
    IN  CASE f \in ParsedFiles      -> p[f]
          [] f = "containment"      -> Containment(p)
          [] f = "references"       -> References(articles)
          [] f = "interprets"       -> Interprets(p.recitals \cup p.guidelines, articles)
          [] f = "definitions"      -> Definitions(articles)
          [] f = "defines"          -> Defines(articles)
          [] f = "rules"            -> Rules
          [] f = "semantic_links"   -> SemanticLinks
          [] f = "obligations"      -> Obligations(articles)
          [] f = "obligation_links" -> ObligationLinks(articles)
          [] f = "complements"      -> Complements(articles)
          [] f = "concepts"         -> Concepts
          [] f = "concept_links"    -> ConceptLinks(articles)
          [] f = "rights"           -> Rights
          [] f = "right_links"      -> RightLinks
-----------------------------------------------------------------------------
Init ==
    /\ raw \in {Shipped, NoData}
    /\ \/ tree = [f \in Files |-> Missing] /\ dirs = {}
       \/ \* The repository as it is handed out: edpb_guidelines.json is left out.
          /\ tree = [[f \in Files |-> Whole(Content(f, Parsed(Shipped)))]
                         EXCEPT !["guidelines"] = Missing]
          /\ dirs = {"entities", "relationships"}
    /\ job = Idle /\ passed = {} /\ current = {} /\ cut = FALSE
    /\ edits = 0 /\ kills = 0

\* The operator changes the texts between two scripts.
Edit ==
    /\ job = Idle /\ edits < MaxEdits
    /\ raw' \in Corpora \ {raw}
    /\ current' = current \cap {"03f"}
    /\ edits' = edits + 1
    /\ UNCHANGED <<tree, dirs, job, passed, cut, kills>>

\* Variant: the directory will do.
NeedsExtractionOnce == "relationships" \notin dirs

\* 02 extracts "if not already done".
NeedsExtraction == "relationships" \notin dirs \/ tree["containment"].state = "missing"

\* The extraction of the structure takes the chapter of an article to be a string.
Extractable(s) ==
    /\ Readable(Reads[s])
    /\ s \in {"02a", "02"} => \A a \in Items("articles") : a.chapter # NoNumber

\* What a run counts as in the history: 02 may do the work of 02a.
AsExtractor(s) == IF s = "02" THEN "02a" ELSE s

\* A script reads all its files before it writes the first; 01 reads each text just
\* before the file it makes of it, which is the same, as no text changes meanwhile.
\* 01 needs Data/, and raises at the single files in it; a directory that is not
\* there is an empty one.  What cannot read raises having written nothing; 03 has
\* made its directories.
Start(s) ==
    /\ job = Idle
    /\ s = "01" => raw.present
    /\ LET extracts == s # "02" \/ NeedsExtraction
           todo == IF s = "01" /\ ~raw.hasRecitals THEN <<"chapters", "articles">>
                                                   ELSE Outputs[s]
           from == IF s = "01" THEN Parsed(raw)
                   ELSE [f \in ParsedFiles |-> IF f \in Reads[s] THEN Items(f) ELSE {}]
       IN  IF ~extracts
           THEN /\ job' = [Idle EXCEPT !.script = s]
                /\ UNCHANGED current
           ELSE IF Extractable(s)
           THEN /\ job' = [script |-> s, todo |-> todo, from |-> from]
                /\ current' = IF s = "01" THEN current \cap {"03f"}
                                          ELSE current \ {AsExtractor(s)}
           ELSE UNCHANGED <<job, current>>
    /\ dirs' = IF s = "03" THEN {"entities", "relationships"} ELSE dirs
    /\ UNCHANGED <<raw, tree, passed, cut, edits, kills>>

DirOf(f) == IF f \in EntityFiles THEN {"entities"}
            ELSE IF f \in RelFiles THEN {"relationships"} ELSE {}

MakesDirs == job.script \in {"01", "02", "02a"}

\* Variant: nothing parsed, nothing written.
WrittenIfAny(f) ==
    IF Content(f, job.from) = {} THEN tree ELSE [tree EXCEPT ![f] = Whole(Content(f, job.from))]

Written(f) == [tree EXCEPT ![f] = Whole(Content(f, job.from))]

\* A file is replaced as a whole, whatever was there.  03b, 03c, 03e and 03f make no
\* directory: without it the write raises.
Write ==
    /\ job.todo # <<>>
    /\ LET f == Head(job.todo)
           rest == [job EXCEPT !.todo = Tail(@)]
           done == rest.todo = <<>> /\ (job.script = "01" => raw.hasRecitals)
       IN  IF MakesDirs \/ DirOf(f) \subseteq dirs
           THEN /\ tree' = Written(f)
                /\ dirs' = dirs \cup DirOf(f)
                /\ passed' = {}
                /\ job' = IF rest.todo = <<>> /\ job.script # "02" THEN Idle ELSE rest
                /\ current' = IF done /\ (Reads[job.script] # {} => "01" \in current)
                              THEN current \cup {AsExtractor(job.script)} ELSE current
                /\ cut' = (cut /\ ~(done /\ AsExtractor(job.script) = "02a"))
           ELSE /\ job' = Idle
                /\ UNCHANGED <<tree, dirs, passed, current, cut>>
    /\ UNCHANGED <<raw, edits, kills>>

\* The process is killed between two files, or with the next one opened for writing.
Kill ==
    /\ job # Idle /\ kills < MaxKills
    /\ \/ UNCHANGED <<tree, dirs, passed>>
       \/ /\ job.todo # <<>>
          /\ MakesDirs \/ DirOf(Head(job.todo)) \subseteq dirs
          /\ tree' = [tree EXCEPT ![Head(job.todo)] = Torn]
          /\ dirs' = dirs \cup DirOf(Head(job.todo))
          /\ passed' = {}
    /\ job' = Idle
    /\ cut' = (cut \/ (job.todo # <<>> /\ AsExtractor(job.script) = "02a"))
    /\ kills' = kills + 1
    /\ UNCHANGED <<raw, current, edits>>
-----------------------------------------------------------------------------
(* The validators and the loads.                                           *)

\* The files whose entities a validator takes for nodes, and those a load does.
ValidatedFiles(v) == IF v = "02b" THEN ParsedFiles ELSE ParsedFiles \cup EntityFiles

\* Variant: a file was added to the list of 03d only.
LoadedFilesShort(s) == IF s = "02" THEN ParsedFiles
                       ELSE (ParsedFiles \cup EntityFiles) \ {"rights"}

LoadedFiles(s) == IF s = "02" THEN ParsedFiles ELSE ParsedFiles \cup EntityFiles

\* A chapter without a number is no node.
Nodes(files) ==
    {<<"Regulation", reg, NoNumber>> : reg \in Regulations}
    \cup {c \in Items("chapters") : c[3] # NoNumber}
    \cup {a.id : a \in Items("articles")}
    \cup UNION {Items(f) : f \in files \ {"chapters", "articles"}}

\* glob("*.json"): the relationships of every file there is.
Rels == UNION {Items(f) : f \in RelFiles}

Dangling(nodes) == {r \in Rels : ~({r[1], r[2]} \subseteq nodes)}
Orphans(nodes)  == {n \in nodes : \A r \in Rels : n \notin {r[1], r[2]}}

\* The exit gates; 03d asks for some entities of every kind, not that they be connected.
\* (The counts of other kinds, and the density, would only let less pass.)
PassesGate(v) ==
    LET nodes == Nodes(ValidatedFiles(v))
    IN  /\ Cardinality({n \in nodes : n[1] = "Article"}) = ExpectedArticles
        /\ Cardinality(Rels) >= MinRels
        /\ Dangling(nodes) = {}
        /\ v = "02b" => Cardinality(Orphans(nodes)) <= MaxOrphans
        /\ v = "03d" => \A f \in EntityFiles : Items(f) # {}

Validate(v) ==
    /\ job = Idle
    /\ v = "02b" => "relationships" \in dirs
    /\ Readable(ValidatedFiles(v) \cup RelFiles)
    /\ passed' = IF PassesGate(v) THEN passed \cup {v} ELSE passed \ {v}
    /\ UNCHANGED <<raw, tree, dirs, job, current, cut, edits, kills>>

\* 02, once its files are there, and 04 read entities and relationships and write
\* none: what they do to the graph is GraphLoading.
Load ==
    /\ job.script \in {"02", "04"} /\ job.todo = <<>>
    /\ job' = Idle
    /\ UNCHANGED <<raw, tree, dirs, passed, current, cut, edits, kills>>

\* The relationships that create_relationships_batch will skip.
Skipped(s) == Dangling(Nodes(LoadedFiles(s)))

Next ==
    \/ Edit \/ Write \/ Kill \/ Load
    \/ \E s \in Scripts : Start(s)
    \/ \E v \in Validators : Validate(v)

Spec == Init /\ [][Next]_vars
-----------------------------------------------------------------------------
TypeOK ==
    /\ raw \in Corpora
    /\ DOMAIN tree = Files
    /\ \A f \in Files : tree[f].state \in {"missing", "torn", "whole"}
    /\ dirs \subseteq {"entities", "relationships"}
    /\ job.script \in Scripts \cup {"none"} /\ job.todo \in Seq(Files)
    /\ passed \subseteq Validators
    /\ current \subseteq {"01"} \cup Extractors
    /\ cut \in BOOLEAN
    /\ edits \in 0..MaxEdits /\ kills \in 0..MaxKills

\* Whatever was killed, half written or left over from another corpus before it: a
\* script that has run to its end since Data/ last changed, after those it reads
\* from, has left in its files just what the present corpus gives.
RerunHeals ==
    \A s \in current : \A n \in DOMAIN Outputs[s] :
        tree[Outputs[s][n]] = Whole(Content(Outputs[s][n], Parsed(raw)))

\* When the whole chain has run, a load skips no relationship but those that are
\* written down in the code and name something the corpus does not have, and the
\* ones of a chapter without a header.
OnlyCuratedDangles ==
    current = {"01"} \cup Extractors =>
        Skipped("04") \subseteq Curated \cup {r \in Rels : \E e \in {r[1], r[2]} :
                                                 e[1] = "Chapter" /\ e[3] = NoNumber}

\* What a validator has passed, the load it stands in for takes without a skip:
\* 02b answers for 02, 03d for 04, until a file is written.
ValidatedLoads ==
    /\ "02b" \in passed => Skipped("02") = {}
    /\ "03d" \in passed => Skipped("04") = {}

\* 02 does not load a structure that is only partly there, unless an extraction
\* was killed: a directory that another script made is not taken for an extraction.
StructureIsWhole ==
    job.script = "02" /\ job.todo = <<>> /\ ~cut =>
        \A f \in StructuralFiles : tree[f].state = "whole"
=============================================================================
