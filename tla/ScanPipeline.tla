---------------------------- MODULE ScanPipeline ----------------------------
(***************************************************************************)
(* One scan of one repository (code_analyzer/): six scanners that run in a *)
(* fixed order and leave notes for each other in ctx.shared, the two LLM   *)
(* passes between and after them, the profile built from all of it, and    *)
(* the risk posture the first agent of the supervisor derives.             *)
(*                                                                         *)
(*   imports -> surfaces -> [review] -> ast_rules -> content ->            *)
(*   file_patterns -> cooccurrence -> [triage] -> profile -> classify      *)
(*                                                                         *)
(* A repository is what the scanners can read off its files: what a file   *)
(* imports, declares, mentions and routes.  Parsing, regular expressions   *)
(* and excerpts are left out; what makes a scanner raise is not: a scanner *)
(* that raises loses all of its findings, and what it had noted for the    *)
(* others by then stays.  Confidences are in thousandths.                  *)
(* ScanService takes one whole scan as its step RunScan.                   *)
(***************************************************************************)
EXTENDS Integers, FiniteSets

CONSTANTS
    NumFiles,    \* files of a repository, in the order they are listed
    Contents,    \* what a file can be, see FileType
    Suppressed,  \* the suppression lists considered: sets of <<rule, file>>
    Verdicts,    \* what the LLM can say of a surface, see VerdictType
    MaxSurfaces, \* ast_reviewer_max_surfaces
    BatchSize,   \* ast_reviewer_batch_size
    MaxTriage    \* MAX_TRIAGE_FINDINGS

Files     == 1..NumFiles
WholeRepo == 0              \* "<repo>", where repo-level findings point
Rules     == 1..10          \* rule n is AI-00n of the catalog, 10 is AI-010
Libraries == {1, 2}         \* the rules that go by a library's name
Places    == {"src", "tests", "spec", "docs", "examples", "fixtures"}

\* The directory it is in; whether its source can be read; whether it nests
\* deeper than the interpreter recurses; the libraries it imports; whether it is
\* a manifest, and how many patterns of a rule each declared name matches; the
\* routes that call a model; the words and endpoints it mentions.
FileType == [place : Places, readable : BOOLEAN, deep : BOOLEAN,
             imports : SUBSET Libraries, manifest : {"none", "good", "bad"},
             declares : [Libraries -> 0..2], route : BOOLEAN, human : BOOLEAN,
             audit : BOOLEAN, override : BOOLEAN, strings : BOOLEAN,
             pii : BOOLEAN, banned : 0..3, public : BOOLEAN]

VerdictType == [calls : BOOLEAN, human : BOOLEAN, audit : BOOLEAN, test : BOOLEAN]
SurfaceType == [file : Files, calls : BOOLEAN, human : BOOLEAN, audit : BOOLEAN, test : BOOLEAN]

ASSUME SizeAssumption == NumFiles \in Nat \ {0} /\ Contents \subseteq FileType
ASSUME LlmAssumption ==
    /\ Verdicts \subseteq VerdictType /\ BatchSize \in Nat \ {0}
    /\ MaxSurfaces \in Nat /\ MaxTriage \in Nat

VARIABLES
    repo,       \* the cloned repository
    stage,      \* the pipeline's next step
    shared,     \* ctx.shared
    review,     \* the surfaces the LLM reviewer has gone through, as it left them
    findings,   \* all_findings: a function on the keys of the findings
    profile,    \* the data signals and stats of the AISystemProfile
    posture     \* what the risk classifier makes of it

vars == <<repo, stage, shared, review, findings, profile, posture>>
-----------------------------------------------------------------------------
(* The rule catalog (rules/*.yml).                                         *)

Severity(rule) == IF rule \in {1, 8, 9} THEN "critical"
                  ELSE IF rule \in {2, 3, 5, 10} THEN "high" ELSE "medium"

Base == <<900, 950, 800, 750, 550, 650, 600, 700, 850, 650>>

\* The dampener of a rule: in which places, and to how many hundredths.
Where  == <<{"tests", "spec", "examples", "docs"}, {"tests", "spec", "examples"},
            {"tests", "spec"}, {}, {"tests", "spec", "fixtures"}, {}, {"tests", "spec"},
            {"tests", "docs", "examples"}, {"tests", "docs", "examples"}, {"tests", "spec"}>>
Factor == <<40, 60, 40, 100, 40, 100, 30, 50, 50, 40>>

\* apply_dampeners.
Dampened(rule, f) ==
    IF repo.files[f].place \in Where[rule] THEN (Base[rule] * Factor[rule]) \div 100
                                           ELSE Base[rule]

IsTestPath(f) == repo.files[f].place \in {"tests", "spec", "fixtures", "examples"}
-----------------------------------------------------------------------------
(* Findings.  A key is a rule, the file of its first evidence, the signal  *)
(* it comes from and, where one file can give several, which one.          *)

Signals == {"import", "manifest", "surface", "words", "strings", "marker"}
Key(rule, f, by) == [rule |-> rule, file |-> f, by |-> by, nth |-> 1]
Keys    == [rule : Rules, file : Files \cup {WholeRepo}, by : Signals, nth : 1..2]
Confidence == 0..1000
Finding == [conf : Confidence, suppressed : BOOLEAN, triage : {"none", "confirmed", "demoted"}]

\* is_suppressed.  Its loop asks each entry for "rule": an entry of the list
\* that is not a mapping makes every call raise.
IsSuppressed(rule, f) == <<rule, f>> \in repo.suppressed

Found(conf, sup) == [conf |-> conf, suppressed |-> sup, triage |-> "none"]

Report(new) ==
    findings' = [k \in DOMAIN findings \cup DOMAIN new |->
                    IF k \in DOMAIN new THEN new[k] ELSE findings[k]]

\* The pipeline goes on with or without the findings of a scanner.
Scanned(raises, new) == IF raises THEN UNCHANGED findings ELSE Report(new)

Active == {k \in DOMAIN findings : ~findings[k].suppressed}

Repositories ==
    [files : [Files -> Contents], docs : SUBSET {"model_card", "data_card", "dpia"},
     suppressed : Suppressed, malformed : BOOLEAN]

Init ==
    /\ repo \in Repositories
    /\ stage = "imports"
    /\ shared = [imports |-> {}, surfaces |-> {}, pii |-> FALSE,
                 manifest |-> [read |-> {}, errors |-> {}], unread |-> {},
                 triage |-> "skipped"]
    /\ review = {}
    /\ findings = [k \in {} |-> Found(0, FALSE)]
    /\ profile = [hasDpia |-> FALSE, hasModelCard |-> FALSE, hasDataCard |-> FALSE,
                  total |-> 0]
    /\ posture = [category |-> 0, score |-> 0]
-----------------------------------------------------------------------------
(* ImportScanner *)

Readable(f) == repo.files[f].readable
Imports(f)  == IF Readable(f) THEN repo.files[f].imports ELSE {}

\* The walk over a syntax tree recurses: a deep one ends the scan of imports.
Deep(f)   == Readable(f) /\ repo.files[f].deep
Walked    == {f \in Files : \A g \in 1..f : ~Deep(g)}

Declared(rule) ==
    {d \in Files \X (1..2) : repo.files[d[1]].manifest = "good"
                             /\ d[2] <= repo.files[d[1]].declares[rule]}

ImportEntries(files) ==
    {k \in {Key(rule, f, "import") : rule \in Libraries, f \in files} :
        k.rule \in Imports(k.file)}

ManifestEntries(rules) ==
    UNION {{[rule |-> rule, file |-> d[1], by |-> "manifest", nth |-> d[2]] :
               d \in Declared(rule)} : rule \in rules}

\* The confidence of an import that a manifest declares too.
Agreed(rule, conf) ==
    IF Declared(rule) = {} THEN conf
    ELSE LET more == 10 * ((conf + 55) \div 10) IN IF more > 990 THEN 990 ELSE more

\* One finding for each file and library, and one for each library declared but
\* never imported.  What other scanners read in imports_by_rule is noted file by
\* file, before the scanner knows whether it will get to its end.
ImportScan ==
    /\ stage = "imports"
    /\ LET imported  == ImportEntries(Files)
           onlyNamed == {r \in Libraries : Declared(r) # {} /\ \A k \in imported : k.rule # r}
           early     == Walked # Files \/ (repo.malformed /\ imported # {})
           late      == ~early /\ repo.malformed /\ onlyNamed # {}
           Least(set) == {n \in set : \A m \in set : n <= m}
           declaring == IF late THEN Least(onlyNamed) ELSE Libraries
           In(rule)  == {d[1] : d \in Declared(rule)}
           named     == {k \in {Key(r, f, "manifest") : r \in onlyNamed, f \in Files} :
                            k.file \in Least(In(k.rule))}
           new       == [k \in imported \cup named |->
                            IF k.by = "import"
                            THEN Found(Agreed(k.rule, Dampened(k.rule, k.file)),
                                       IsSuppressed(k.rule, k.file))
                            ELSE Found(10 * ((Base[k.rule] * 7 + 50) \div 100),
                                       IsSuppressed(k.rule, k.file))]
       IN  /\ Scanned(early \/ late, new)
           /\ shared' = [shared EXCEPT
                  !.imports  = (IF repo.malformed THEN {} ELSE ImportEntries(Walked))
                               \cup (IF early THEN {} ELSE ManifestEntries(declaring)),
                  !.manifest = IF early THEN @ ELSE
                      [read   |-> {f \in Files : repo.files[f].manifest # "none"},
                       errors |-> {f \in Files : repo.files[f].manifest = "bad"}]]
    /\ stage' = "surfaces"
    /\ UNCHANGED <<repo, review, profile, posture>>

NotedRules == {k.rule : k \in shared.imports}
-----------------------------------------------------------------------------
(* AstScanner and the LLM's review of what it found.                       *)

Surface(f) == [file |-> f, calls |-> TRUE, human |-> repo.files[f].human,
               audit |-> repo.files[f].audit, test |-> FALSE]

\* No finding yet: the routes whose body looks like a model call.  Every scanner
\* notes the files it could not read; this one goes through all of them.
CollectSurfaces ==
    /\ stage = "surfaces"
    /\ LET routes == {f \in Files : Readable(f) /\ repo.files[f].route}
       IN  /\ shared' = [shared EXCEPT !.surfaces = {Surface(f) : f \in routes},
                                       !.unread   = {f \in Files : ~Readable(f)}]
           /\ stage' = IF routes = {} THEN "ast_rules" ELSE "review"
    /\ UNCHANGED <<repo, review, findings, profile, posture>>

\* The first n of a set of surfaces, in the order of the files.
First(n, set) == {s \in set : Cardinality({t \in set : t.file < s.file}) < n}

\* The surfaces under the cap, those without a verdict yet, the next call's.
Capped  == First(MaxSurfaces, shared.surfaces)
Pending == {s \in Capped : \A r \in review : r.file # s.file}
Batch   == First(BatchSize, Pending)

\* _apply_verdict on a surface; a key the verdict lacks keeps its value, as a
\* verdict that repeats it does.
Judged(s, v) == [file |-> s.file, calls |-> v.calls, human |-> v.human,
                 audit |-> v.audit, test |-> v.test]

\* One call for a batch.  No reply, or one of another length: the batch keeps
\* the flags it has.
ReviewBatch ==
    /\ stage = "review" /\ Pending # {}
    /\ \/ review' = review \cup Batch
       \/ \E v \in [Batch -> Verdicts] : review' = review \cup {Judged(s, v[s]) : s \in Batch}
    /\ UNCHANGED <<repo, stage, shared, findings, profile, posture>>

\* A row that is not an object raises, and the batches before it are dropped too.
ReviewLost ==
    /\ stage = "review" /\ Pending # {}
    /\ review' = {}
    /\ stage' = "ast_rules"
    /\ UNCHANGED <<repo, shared, findings, profile, posture>>

\* Variant: only the surfaces the reviewer has seen come back.
EndReviewCapped ==
    /\ stage = "review" /\ Pending = {}
    /\ shared' = [shared EXCEPT !.surfaces = {s \in review : ~s.test}]
    /\ stage' = "ast_rules"
    /\ UNCHANGED <<repo, review, findings, profile, posture>>

\* Surfaces beyond the cap keep their flags; tests and mocks are dropped.
EndReview ==
    /\ stage = "review" /\ Pending = {}
    /\ LET all == review \cup (shared.surfaces \ Capped)
       IN  shared' = [shared EXCEPT !.surfaces = {s \in all : ~s.test}]
    /\ stage' = "ast_rules"
    /\ UNCHANGED <<repo, review, findings, profile, posture>>
-----------------------------------------------------------------------------
(* AstRulesScanner, ContentScanner, FilePatternScanner, CooccurrenceScanner *)

AstRules ==
    /\ stage = "ast_rules"
    /\ LET Fires(rule, s) ==
               /\ s.calls
               /\ rule = 3  => ~s.human
               /\ rule = 7  => ~s.audit
               /\ rule = 10 => ~repo.files[s.file].override
           hits == {h \in {3, 7, 10} \X shared.surfaces : Fires(h[1], h[2])}
           new  == [k \in {Key(h[1], h[2].file, "surface") : h \in hits} |->
                        Found(Dampened(k.rule, k.file), IsSuppressed(k.rule, k.file))]
       IN  Scanned(repo.malformed /\ hits # {}, new)
    /\ stage' = "content"
    /\ UNCHANGED <<repo, shared, review, profile, posture>>

\* How many lines of a file are evidence: keywords of AI-005, of AI-008.
Hits(rule, f) ==
    IF ~Readable(f) THEN 0
    ELSE IF rule = 5 THEN (IF repo.files[f].pii THEN 1 ELSE 0) ELSE repo.files[f].banned

\* Variant: the densest file first, wherever it is.
OutranksByDensity(rule, f, g) ==
    \/ Hits(rule, f) > Hits(rule, g)
    \/ Hits(rule, f) = Hits(rule, g) /\ f <= g

\* The evidence a finding points at and is dampened by: production code before
\* tests, then the file with more hits, then by name.
Outranks(rule, f, g) ==
    \/ ~IsTestPath(f) /\ IsTestPath(g)
    \/ /\ IsTestPath(f) = IsTestPath(g)
       /\ Hits(rule, f) > Hits(rule, g) \/ (Hits(rule, f) = Hits(rule, g) /\ f <= g)

\* Variant: requires_any_rule is not looked at.
GateAnything(rule) == TRUE

\* requires_any_rule: what the import scanner has noted, not what was reported.
Gate(rule) == rule \in {4, 5, 6} => NotedRules # {}

ContentScan ==
    /\ stage = "content"
    /\ LET evidence(rule) == IF Gate(rule) THEN {f \in Files : Hits(rule, f) > 0} ELSE {}
           reported(rule) == {f \in evidence(rule) : ~IsSuppressed(rule, f)}
           worded  == {k \in {Key(rule, f, "words") : rule \in {5, 8}, f \in Files} :
                          /\ k.file \in reported(k.rule)
                          /\ \A g \in reported(k.rule) : Outranks(k.rule, k.file, g)}
           strings == {f \in Files : Readable(f) /\ repo.files[f].strings}
           quoted  == {Key(2, f, "strings") : f \in {g \in strings : \A h \in strings : g <= h}}
           raises  == repo.malformed /\ evidence(5) \cup evidence(8) \cup strings # {}
           new     == [k \in worded \cup quoted |->
                          Found(Dampened(k.rule, k.file),
                                k.by = "strings" /\ IsSuppressed(2, k.file))]
       IN  /\ Scanned(raises, new)
           /\ shared' = [shared EXCEPT !.pii = ~raises /\ evidence(5) # {}]
    /\ stage' = "file_patterns"
    /\ UNCHANGED <<repo, review, profile, posture>>

\* A document that is missing is a finding once the repository uses AI.
FilePatterns ==
    /\ stage = "file_patterns"
    /\ LET Marker(rule) == IF rule = 4 THEN "model_card" ELSE "data_card"
           missing == {rule \in {4, 6} : Gate(rule) /\ Marker(rule) \notin repo.docs}
           new     == [k \in {Key(rule, WholeRepo, "marker") : rule \in missing} |->
                          Found(Base[k.rule], IsSuppressed(k.rule, WholeRepo))]
       IN  Scanned(repo.malformed /\ missing # {}, new)
    /\ stage' = "cooccurrence"
    /\ UNCHANGED <<repo, shared, review, profile, posture>>

\* AI-009: a keyword near a noted use of a library of AI-001, once for each note.
Cooccurrence ==
    /\ stage = "cooccurrence"
    /\ LET near == {k \in shared.imports : k.rule = 1 /\ repo.files[k.file].public}
           new  == [k \in {[n EXCEPT !.rule = 9] : n \in near} |->
                       Found(Dampened(9, k.file), IsSuppressed(9, k.file))]
       IN  Scanned(repo.malformed /\ near # {}, new)
    /\ stage' = "triage"
    /\ UNCHANGED <<repo, shared, review, profile, posture>>
-----------------------------------------------------------------------------
(* finding_triage: the LLM may confirm a finding or demote it.             *)

\* The pipeline's order: by scanner, then by rule, file and hit.
Position(k) ==
    LET scanner == CASE k.rule \in {3, 7, 10} -> 2 [] k.by \in {"words", "strings"} -> 3
                     [] k.by = "marker" -> 4 [] k.rule = 9 -> 5 [] OTHER -> 1
    IN  (((scanner * 11) + k.rule) * (NumFiles + 1) + k.file) * 3 + k.nth

Reviewed ==
    {k \in Active : Cardinality({j \in Active : Position(j) < Position(k)}) < MaxTriage}

\* round(confidence * 0.5, 2) of a double: of the catalog's confidences whose half
\* lies between two hundredths these go down, the others up.
TiesDown == {350, 410, 570, 850, 950, 990}

Halved(conf) == IF conf \in TiesDown THEN 10 * (conf \div 20)
                                     ELSE 10 * ((conf + 10) \div 20)

\* Variant: a confirmed finding gains what a demoted one loses.
AfterVerdictBoosting(f, v) ==
    [f EXCEPT !.triage = IF v = "none" THEN @ ELSE v,
              !.conf = IF v = "demoted" THEN Halved(@)
                       ELSE IF v = "confirmed" /\ 2 * @ <= 1000 THEN 2 * @ ELSE @]

\* An unknown verdict, or no row for a finding, leaves it alone.
AfterVerdict(f, v) ==
    [f EXCEPT !.triage = IF v = "none" THEN @ ELSE v,
              !.conf = IF v = "demoted" THEN Halved(@) ELSE @]

Triage ==
    /\ stage = "triage"
    /\ \/ /\ Active = {}
          /\ shared' = [shared EXCEPT !.triage = "skipped"]
          /\ UNCHANGED findings
       \/ /\ Active # {}
          /\ shared' = [shared EXCEPT !.triage = "failed"]
          /\ UNCHANGED findings
       \/ /\ Active # {}
          /\ shared' = [shared EXCEPT !.triage = "ok"]
          /\ \E v \in [Reviewed -> {"none", "confirmed", "demoted"}] :
                 findings' = [k \in DOMAIN findings |->
                     IF k \in Reviewed THEN AfterVerdict(findings[k], v[k]) ELSE findings[k]]
    /\ stage' = "profile"
    /\ UNCHANGED <<repo, review, profile, posture>>
-----------------------------------------------------------------------------
(* build_profile and the risk classifier.                                  *)

ActiveRules == {k.rule : k \in Active}

BuildProfile ==
    /\ stage = "profile"
    /\ profile' = [hasDpia      |-> shared.pii => 5 \notin ActiveRules,
                   hasModelCard |-> 4 \notin ActiveRules,
                   hasDataCard  |-> 6 \notin ActiveRules,
                   total        |-> Cardinality(Active)]
    /\ stage' = "classify"
    /\ UNCHANGED <<repo, shared, review, findings, posture>>

Count(severity) == Cardinality({k \in Active : Severity(k.rule) = severity})

\* Variant: every finding of a prohibited practice escalates.
TriggersAll == {k \in Active : k.rule \in {8, 9}}

\* PROHIBITED_RULE_IDS at PROHIBITED_MIN_CONFIDENCE.
Triggers == {k \in Active : k.rule \in {8, 9} /\ findings[k].conf >= 500}

Minimal    == 0
Limited    == 1
High       == 2
Prohibited == 3

Category ==
    IF Triggers # {} THEN Prohibited
    ELSE IF Count("critical") > 0 \/ Count("high") >= 2 THEN High
    ELSE IF Count("high") = 1 \/ Count("medium") >= 2 THEN Limited
    ELSE Minimal

Score ==
    LET left == 100 - 25 * Count("critical") - 10 * Count("high") - 4 * Count("medium")
    IN  IF left < 0 THEN 0 ELSE left

Classify ==
    /\ stage = "classify"
    /\ posture' = [category |-> Category, score |-> Score]
    /\ stage' = "done"
    /\ UNCHANGED <<repo, shared, review, findings, profile>>
-----------------------------------------------------------------------------
Next ==
    \/ ImportScan \/ CollectSurfaces \/ ReviewBatch \/ ReviewLost \/ EndReview
    \/ AstRules \/ ContentScan \/ FilePatterns \/ Cooccurrence
    \/ Triage \/ BuildProfile \/ Classify

Spec == Init /\ [][Next]_vars
-----------------------------------------------------------------------------
TypeOK ==
    /\ repo \in Repositories
    /\ stage \in {"imports", "surfaces", "review", "ast_rules", "content", "file_patterns",
                  "cooccurrence", "triage", "profile", "classify", "done"}
    /\ shared \in [imports : SUBSET Keys, surfaces : SUBSET SurfaceType, pii : BOOLEAN,
                   manifest : [read : SUBSET Files, errors : SUBSET Files],
                   unread : SUBSET Files, triage : {"skipped", "failed", "ok"}]
    /\ review \subseteq SurfaceType
    /\ DOMAIN findings \subseteq Keys
    /\ \A k \in DOMAIN findings : findings[k] \in Finding
    /\ profile \in [hasDpia : BOOLEAN, hasModelCard : BOOLEAN, hasDataCard : BOOLEAN, total : Nat]
    /\ posture.category \in Minimal..Prohibited /\ posture.score \in 0..100

\* However the LLM's replies are cut into batches, lost or capped, every route
\* that was found is judged once: it reaches the rules, or the reviewer called
\* that very route a test.
EveryRouteAccountedFor ==
    stage \notin {"imports", "surfaces", "review"} =>
        \A f \in Files : Readable(f) /\ repo.files[f].route =>
            LET At(surfaces) == {s \in surfaces : s.file = f}
            IN  \/ Cardinality(At(shared.surfaces)) = 1
                \/ /\ At(shared.surfaces) = {}
                   /\ Cardinality(At(review)) = 1
                   /\ \A s \in At(review) : s.test

\* A triage verdict can only make a scan quieter: no finding appears or goes,
\* and the posture they give is no worse.
TriageOnlyQuietens ==
    [][stage = "triage" => /\ DOMAIN findings' = DOMAIN findings
                           /\ Category' <= Category]_vars

\* A prohibited practice is a claim about deployment: it needs evidence outside
\* the tests, the documentation and the examples, in a file not suppressed.  As in
\* the dampeners of AI-008 and AI-009, specs and fixtures are not held to be tests.
ProhibitedNeedsDeployment ==
    posture.category = Prohibited =>
        \E f \in Files :
            /\ repo.files[f].place \notin {"tests", "docs", "examples"}
            /\ \/ Hits(8, f) > 0 /\ ~IsSuppressed(8, f)
               \/ /\ repo.files[f].public /\ ~IsSuppressed(9, f)
                  /\ \E k \in shared.imports : k.rule = 1 /\ k.file = f

(* The files that show a keyword of a rule, and the findings it has given. *)
Shown(rule) == {f \in Files : Hits(rule, f) > 0 /\ ~IsSuppressed(rule, f)}
Worded(rule) == {k \in DOMAIN findings : k.rule = rule /\ k.by = "words"}
ContentRead == stage \in {"file_patterns", "cooccurrence", "triage", "profile", "classify", "done"}

\* A rule by keywords (AI-005, AI-008) that some file shows has its finding, and a
\* test (tests, specs, fixtures, examples) neither stands for nor dampens what a file
\* outside them shows as well: the finding points at such a file, and has the
\* confidence that file gives it until the LLM demotes it.  This is said of
\* keywords only: a `strings' pattern (AI-002) is reported at the first file that
\* is listed, a test as well.
ProductionOutranksTests ==
    \A rule \in {5, 8} :
        /\ ContentRead /\ ~repo.malformed /\ Gate(rule) /\ Shown(rule) # {}
              => Worded(rule) # {}
        /\ \A k \in Worded(rule) :
              /\ k.file \in Shown(rule)
              /\ IsTestPath(k.file) => \A f \in Shown(rule) : IsTestPath(f)
              /\ findings[k].triage # "demoted" => findings[k].conf = Dampened(rule, k.file)

\* A repository without AI is not told off for its personal data, its missing
\* documents or its public spaces.
OnlyWhereAiIsUsed ==
    (\E k \in DOMAIN findings : k.rule \in {4, 5, 6, 9}) =>
        \E f \in Files, rule \in Libraries :
            rule \in Imports(f) \/ repo.files[f].declares[rule] > 0
=============================================================================
