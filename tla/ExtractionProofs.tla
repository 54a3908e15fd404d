-------------------------- MODULE ExtractionProofs --------------------------
(***************************************************************************)
(* Proofs about Extraction, for every corpus, every set of entities and    *)
(* every bound.                                                            *)
(***************************************************************************)
EXTENDS Extraction, SequenceTheorems, TLAPS

\* What a validator counts as skipped depends on the files only.
LEMMA SameFilesSameSkips ==
    ASSUME tree' = tree, NEW s
    PROVE  Skipped(s)' = Skipped(s)
BY DEF Skipped, Dangling, Nodes, Rels, Items, LoadedFiles

\* Passed by 02b or 03d, loaded by 02 or 04 without a skip: a validator's verdict
\* falls with the first file that is written, and the lists of entity files agree.
THEOREM ValidatedAlwaysLoads == Spec => []ValidatedLoads
<1>1. Init => ValidatedLoads
  BY DEF Init, ValidatedLoads
<1>2. ValidatedLoads /\ [Next]_vars => ValidatedLoads'
  <2> SUFFICES ASSUME ValidatedLoads, [Next]_vars PROVE ValidatedLoads'
    OBVIOUS
  <2>1. CASE tree' = tree /\ passed' = passed
    BY <2>1, SameFilesSameSkips DEF ValidatedLoads
  <2>2. CASE passed' = {}
    BY <2>2 DEF ValidatedLoads
  <2>3. ASSUME NEW v \in Validators, Validate(v) PROVE ValidatedLoads'
    <3>1. tree' = tree
      BY <2>3 DEF Validate
    <3>2. PassesGate(v) => Dangling(Nodes(ValidatedFiles(v))) = {}
      BY DEF PassesGate
    <3>3. PassesGate("02b") => Skipped("02") = {}
      BY <3>2, <2>3 DEF PassesGate, Skipped, ValidatedFiles, LoadedFiles
    <3>4. PassesGate("03d") => Skipped("04") = {}
      BY DEF PassesGate, Skipped, ValidatedFiles, LoadedFiles
    <3>5. \A w \in passed' : w \in passed \/ PassesGate(w)
      BY <2>3 DEF Validate
    <3>. QED
      BY <3>1, <3>3, <3>4, <3>5, SameFilesSameSkips DEF ValidatedLoads
  <2>4. Write \/ Kill => passed' = {} \/ (tree' = tree /\ passed' = passed)
    BY DEF Write, Kill
  <2>5. Edit \/ Load \/ (\E s \in Scripts : Start(s)) \/ UNCHANGED vars
            => tree' = tree /\ passed' = passed
    BY DEF Edit, Load, Start, vars
  <2>. QED
    BY <2>1, <2>2, <2>3, <2>4, <2>5 DEF Next
<1>. QED
  BY <1>1, <1>2, PTL DEF Spec
-----------------------------------------------------------------------------
(* What a script writes.                                                   *)

OutSet(s)  == {Outputs[s][n] : n \in DOMAIN Outputs[s]}
Listed(seq) == {seq[n] : n \in DOMAIN seq}

LEMMA OutputsAre ==
    /\ Outputs["01"] = <<"chapters", "articles", "recitals", "guidelines">>
    /\ Outputs["02a"] = <<"containment", "references", "interprets">>
    /\ Outputs["02"] = <<"containment", "references", "interprets">>
    /\ Outputs["03"] = <<"definitions", "rules", "defines", "semantic_links">>
    /\ Outputs["03b"] = <<"obligations", "obligation_links">>
    /\ Outputs["03c"] = <<"complements">>
    /\ Outputs["03e"] = <<"concepts", "concept_links">>
    /\ Outputs["03f"] = <<"rights", "right_links">>
    /\ Outputs["04"] = <<>>
BY DEF Outputs

LEMMA OutSets ==
    /\ OutSet("01") = ParsedFiles
    /\ OutSet("02a") = StructuralFiles /\ OutSet("02") = StructuralFiles
    /\ OutSet("03") = {"definitions", "rules", "defines", "semantic_links"}
    /\ OutSet("03b") = {"obligations", "obligation_links"}
    /\ OutSet("03c") = {"complements"}
    /\ OutSet("03e") = {"concepts", "concept_links"}
    /\ OutSet("03f") = {"rights", "right_links"}
    /\ OutSet("04") = {}
BY OutputsAre DEF OutSet, ParsedFiles, StructuralFiles

\* No file has two writers, 02 apart, which writes what 02a does.
LEMMA OneWriter ==
    ASSUME NEW s \in Scripts, NEW t \in Scripts, AsExtractor(s) # AsExtractor(t)
    PROVE  OutSet(s) \cap OutSet(t) = {}
BY OutSets DEF Scripts, Outputs, AsExtractor, ParsedFiles, StructuralFiles

LEMMA OutputsAreFiles ==
    ASSUME NEW s \in Scripts
    PROVE  /\ OutSet(s) \subseteq Files
           /\ AsExtractor(s) \in Scripts
           /\ OutSet(AsExtractor(s)) = OutSet(s)
           /\ Outputs[s] \in Seq(Files)
           /\ Outputs[s] # <<>> => AsExtractor(s) \in {"01"} \cup Extractors
<1>1. s \in {"01", "02a", "02", "03", "03b", "03c", "03e", "03f", "04"}
  BY DEF Scripts, Outputs
<1>2. OutSet(s) \subseteq Files
  BY <1>1, OutSets DEF Files, RelFiles, EntityFiles, ParsedFiles, StructuralFiles
<1>3. Outputs[s] \in Seq(Files)
  <2>1. /\ <<"chapters", "articles", "recitals", "guidelines">> \in Seq(Files)
        /\ <<"containment", "references", "interprets">> \in Seq(Files)
        /\ <<"definitions", "rules", "defines", "semantic_links">> \in Seq(Files)
        /\ <<"obligations", "obligation_links">> \in Seq(Files)
        /\ <<"complements">> \in Seq(Files)
        /\ <<"concepts", "concept_links">> \in Seq(Files)
        /\ <<"rights", "right_links">> \in Seq(Files)
        /\ <<>> \in Seq(Files)
    BY DEF Files, RelFiles, EntityFiles, ParsedFiles, StructuralFiles
  <2>. QED
    BY <1>1, <2>1, OutputsAre
<1>4. OutSet(AsExtractor(s)) = OutSet(s)
  BY <1>1, OutSets DEF AsExtractor
<1>5. AsExtractor(s) \in Scripts
  BY <1>1 DEF AsExtractor, Scripts, Outputs
<1>6. Outputs[s] # <<>> => AsExtractor(s) \in {"01"} \cup Extractors
  BY <1>1 DEF AsExtractor, Extractors, Scripts, Outputs
<1>. QED
  BY <1>2, <1>3, <1>4, <1>5, <1>6

LEMMA ParsedContent ==
    ASSUME NEW f \in ParsedFiles, NEW p
    PROVE  Content(f, p) = p[f]
BY DEF Content, ParsedFiles

\* What goes into a file depends on the files that its script reads, and of no other.
LEMMA ContentOfReads ==
    ASSUME NEW s \in Scripts, s # "01", NEW f \in OutSet(s), NEW p, NEW q,
           \A g \in Reads[s] : p[g] = q[g]
    PROVE  Content(f, p) = Content(f, q)
<1>1. CASE s \in {"02a", "02"}
  <2>1. f \in StructuralFiles
    BY <1>1, OutSets
  <2>2. /\ p.chapters = q.chapters /\ p.articles = q.articles
        /\ p.recitals = q.recitals /\ p.guidelines = q.guidelines
    BY <1>1 DEF Reads, ParsedFiles
  <2>3. Containment(p) = Containment(q)
    BY <2>2 DEF Containment
  <2>. QED
    BY <2>1, <2>2, <2>3 DEF Content, StructuralFiles, ParsedFiles
<1>2. CASE s \in {"03", "03b", "03c", "03e"}
  <2>1. p.articles = q.articles
    BY <1>2 DEF Reads
  <2>2. f \in {"definitions", "rules", "defines", "semantic_links", "obligations",
               "obligation_links", "complements", "concepts", "concept_links"}
    BY <1>2, OutSets
  <2>. QED
    BY <2>1, <2>2 DEF Content, ParsedFiles
<1>3. CASE s \in {"03f", "04"}
  BY <1>3, OutSets DEF Content, ParsedFiles
<1>. QED
  BY <1>1, <1>2, <1>3 DEF Scripts, Outputs

LEMMA WholeFields ==
    ASSUME NEW items
    PROVE  Whole(items).state = "whole" /\ Whole(items).items = items
BY DEF Whole

LEMMA HeadAndTail ==
    ASSUME NEW S, NEW seq \in Seq(S), seq # <<>>
    PROVE  /\ Head(seq) \in S /\ Tail(seq) \in Seq(S)
           /\ Listed(seq) = {Head(seq)} \cup Listed(Tail(seq))
<1>1. /\ Len(seq) \in Nat \ {0} /\ DOMAIN seq = 1..Len(seq)
      /\ Head(seq) = seq[1] /\ Tail(seq) \in Seq(S)
      /\ Len(Tail(seq)) = Len(seq) - 1
      /\ \A n \in 1..(Len(seq) - 1) : Tail(seq)[n] = seq[n + 1]
  <2>1. Len(seq) \in Nat /\ DOMAIN seq = 1..Len(seq) /\ Len(seq) # 0
    OBVIOUS
  <2>2. Head(seq) = seq[1]
    OBVIOUS
  <2>. QED
    BY <2>1, <2>2, HeadTailProperties
<1>2. DOMAIN Tail(seq) = 1..(Len(seq) - 1)
  <2>1. DOMAIN Tail(seq) = 1..Len(Tail(seq))
    BY <1>1
  <2>. QED
    BY <1>1, <2>1
<1>3. ASSUME NEW n \in DOMAIN seq, n # 1
      PROVE  n - 1 \in DOMAIN Tail(seq) /\ Tail(seq)[n - 1] = seq[n]
  BY <1>1, <1>2, <1>3
<1>4. ASSUME NEW n \in DOMAIN Tail(seq) PROVE n + 1 \in DOMAIN seq /\ seq[n + 1] = Tail(seq)[n]
  BY <1>1, <1>2
<1>5. 1 \in DOMAIN seq
  BY <1>1
<1>6. ASSUME NEW x \in Listed(seq) PROVE x \in {Head(seq)} \cup Listed(Tail(seq))
  <2>1. PICK n \in DOMAIN seq : x = seq[n]
    BY <1>6 DEF Listed
  <2>2. CASE n = 1
    BY <2>1, <2>2, <1>1
  <2>3. CASE n # 1
    BY <2>1, <2>3, <1>3 DEF Listed
  <2>. QED
    BY <2>2, <2>3
<1>7. Head(seq) \in Listed(seq)
  BY <1>1, <1>5 DEF Listed
<1>8. ASSUME NEW x \in Listed(Tail(seq)) PROVE x \in Listed(seq)
  <2>1. PICK n \in DOMAIN Tail(seq) : x = Tail(seq)[n]
    BY <1>8 DEF Listed
  <2>. QED
    BY <2>1, <1>4 DEF Listed
<1>9. Head(seq) \in S /\ Tail(seq) \in Seq(S)
  BY HeadTailProperties
<1>. QED
  BY <1>6, <1>7, <1>8, <1>9
-----------------------------------------------------------------------------
(* The inductive invariant.                                                *)

\* What remains to be written is of the files of the script.
JobOK ==
    /\ current \subseteq {"01"} \cup Extractors
    /\ DOMAIN tree = Files
    /\ job = [script |-> job.script, todo |-> job.todo, from |-> job.from]
    /\ job.script \in Scripts \cup {"none"}
    /\ job.todo \in Seq(Files)
    /\ job.todo # <<>> => /\ job.script \in Scripts
                          /\ Listed(job.todo) \subseteq OutSet(job.script)

\* What does not remain has been written.
WrittenOK ==
    job.todo # <<>> /\ (job.script = "01" => raw.hasRecitals) =>
        \A f \in OutSet(job.script) \ Listed(job.todo) :
            tree[f] = Whole(Content(f, job.from))

\* A script at work is not current, and has read what the corpus gives if 01 is.
HistoryOK ==
    job.todo # <<>> =>
        /\ AsExtractor(job.script) \notin current
        /\ job.script = "01" => job.from = Parsed(raw) /\ current \subseteq {"03f"}
        /\ "01" \in current =>
               \A g \in Reads[job.script] : job.from[g] = Parsed(raw)[g]

Extracting == job.todo # <<>> /\ AsExtractor(job.script) = "02a"
AllWhole   == \A f \in StructuralFiles : tree[f].state = "whole"

\* A structure that is there at all is whole, but for one being written or cut short.
StructureOK == tree["containment"].state # "missing" /\ ~cut /\ ~Extracting => AllWhole

IInv == JobOK /\ WrittenOK /\ HistoryOK /\ RerunHeals /\ StructureOK /\ StructureIsWhole

LEMMA InitIInv == Init => IInv
<1> SUFFICES ASSUME Init PROVE IInv
  OBVIOUS
<1>1. JobOK
  BY DEF Init, JobOK, Idle
<1>2. job.todo = <<>> /\ job.script = "none" /\ current = {}
  BY DEF Init, Idle
<1>3. StructureOK
  <2>1. "containment" \in Files /\ StructuralFiles \subseteq Files \ {"guidelines"}
    BY DEF Files, RelFiles, StructuralFiles
  <2>2. CASE tree = [f \in Files |-> Missing]
    BY <2>1, <2>2 DEF StructureOK, Missing
  <2>3. CASE tree = [[f \in Files |-> Whole(Content(f, Parsed(Shipped)))]
                         EXCEPT !["guidelines"] = Missing]
    <3>1. ASSUME NEW f \in StructuralFiles
          PROVE  tree[f] = Whole(Content(f, Parsed(Shipped)))
      <4>1. f \in Files /\ f # "guidelines"
        BY <2>1
      <4>. DEFINE made == [g \in Files |-> Whole(Content(g, Parsed(Shipped)))]
      <4>2. made[f] = Whole(Content(f, Parsed(Shipped)))
        BY <4>1, Zenon
      <4>3. tree = [made EXCEPT !["guidelines"] = Missing] /\ DOMAIN made = Files
        BY <2>3, Zenon
      <4>. HIDE DEF made
      <4>. QED
        BY <4>1, <4>2, <4>3
    <3>2. \A f \in StructuralFiles : tree[f].state = "whole"
      <4>1. ASSUME NEW f \in StructuralFiles PROVE tree[f].state = "whole"
        BY <3>1, WholeFields
      <4>. QED
        BY <4>1
    <3>. QED
      BY <3>2 DEF StructureOK, AllWhole
  <2>. QED
    BY <2>2, <2>3 DEF Init
<1>. QED
  BY <1>1, <1>2, <1>3 DEF IInv, WrittenOK, HistoryOK, RerunHeals, StructureIsWhole
-----------------------------------------------------------------------------
(* Each step keeps the invariant.                                          *)

\* RerunHeals, said of sets of files.
Heals(s) == \A f \in OutSet(s) : tree[f] = Whole(Content(f, Parsed(raw)))

LEMMA HealsBySets == RerunHeals <=> \A s \in current : Heals(s)
BY DEF RerunHeals, Heals, OutSet

LEMMA HealsBySetsNext == RerunHeals' <=> \A s \in current' : Heals(s)'
BY DEF RerunHeals, Heals, OutSet

LEMMA QuietStep ==
    ASSUME IInv, UNCHANGED <<raw, tree, job, current, cut>>
    PROVE  IInv'
BY DEF IInv, JobOK, WrittenOK, HistoryOK, RerunHeals, StructureOK, StructureIsWhole,
       Extracting, AllWhole

LEMMA LoadStep == IInv /\ Load => IInv'
<1> SUFFICES ASSUME IInv, Load PROVE IInv'
  OBVIOUS
<1>1. /\ job' = Idle /\ job'.todo = <<>> /\ job'.script = "none" /\ ~Extracting /\ ~Extracting'
      /\ UNCHANGED <<raw, tree, current, cut>>
  BY DEF Load, Idle, Extracting
<1>2. JobOK'
  BY <1>1 DEF JobOK, Idle, IInv
<1>3. WrittenOK' /\ HistoryOK' /\ StructureIsWhole'
  BY <1>1 DEF WrittenOK, HistoryOK, StructureIsWhole
<1>4. RerunHeals'
  BY <1>1 DEF RerunHeals, IInv
<1>5. StructureOK'
  BY <1>1 DEF StructureOK, AllWhole, IInv
<1>. QED
  BY <1>2, <1>3, <1>4, <1>5 DEF IInv

LEMMA EditStep == IInv /\ Edit => IInv'
<1> SUFFICES ASSUME IInv, Edit PROVE IInv'
  OBVIOUS
<1>1. /\ job.todo = <<>> /\ job.script = "none"
      /\ UNCHANGED <<tree, job, cut>> /\ current' = current \cap {"03f"}
  BY DEF Edit, Idle
<1>2. JobOK' /\ WrittenOK' /\ HistoryOK' /\ StructureIsWhole'
  BY <1>1 DEF JobOK, WrittenOK, HistoryOK, StructureIsWhole, IInv
<1>3. StructureOK'
  BY <1>1 DEF StructureOK, AllWhole, Extracting, IInv
<1>4. ASSUME NEW s \in current' PROVE Heals(s)'
  <2>1. s \in current /\ s = "03f"
    BY <1>1, <1>4
  <2>2. Heals(s)
    BY <2>1, HealsBySets DEF IInv
  <2>3. ASSUME NEW f \in OutSet(s) PROVE Content(f, Parsed(raw)) = Content(f, Parsed(raw'))
    <3>1. s \in Scripts /\ s # "01" /\ Reads[s] = {}
      BY <2>1 DEF Scripts, Outputs, Reads
    <3>. QED
      BY <3>1, ContentOfReads
  <2>. QED
    BY <2>2, <2>3, <1>1 DEF Heals
<1>5. RerunHeals'
  BY <1>4, HealsBySetsNext
<1>. QED
  BY <1>2, <1>3, <1>5 DEF IInv

LEMMA ReadsAreParsed ==
    ASSUME NEW s \in Scripts
    PROVE  Reads[s] \subseteq ParsedFiles /\ Reads["01"] = {} /\ Reads["03f"] = {}
<1>1. s \in {"01", "02a", "02", "03", "03b", "03c", "03e", "03f", "04"}
  BY DEF Scripts, Outputs
<1>. QED
  BY <1>1 DEF Reads, Scripts, Outputs, ParsedFiles

\* A script that starts to extract has read what is in the files.
LEMMA StartExtracting ==
    ASSUME IInv, NEW s \in Scripts, Start(s), job' # job, s # "02" \/ NeedsExtraction
    PROVE  IInv'
<1>. DEFINE todo == IF s = "01" /\ ~raw.hasRecitals THEN <<"chapters", "articles">>
                                                    ELSE Outputs[s]
            from == IF s = "01" THEN Parsed(raw)
                    ELSE [f \in ParsedFiles |-> IF f \in Reads[s] THEN Items(f) ELSE {}]
<1>1. /\ job = Idle /\ job' = [script |-> s, todo |-> todo, from |-> from]
      /\ current' = IF s = "01" THEN current \cap {"03f"} ELSE current \ {AsExtractor(s)}
      /\ UNCHANGED <<raw, tree, cut>>
  BY DEF Start
<1>2. /\ todo \in Seq(Files) /\ Listed(todo) \subseteq OutSet(s)
      /\ (s = "01" => raw.hasRecitals) => Listed(todo) = OutSet(s)
      /\ AsExtractor(s) = "02a" => todo # <<>>
  <2>1. CASE s = "01" /\ ~raw.hasRecitals
    <3>1. <<"chapters", "articles">> \in Seq(Files)
      BY DEF Files, ParsedFiles
    <3>2. Listed(<<"chapters", "articles">>) = {"chapters", "articles"}
      BY DEF Listed
    <3>. QED
      BY <2>1, <3>1, <3>2, OutSets DEF ParsedFiles, AsExtractor
  <2>2. CASE ~(s = "01" /\ ~raw.hasRecitals)
    <3>1. AsExtractor(s) = "02a" => Outputs[s] # <<>>
      BY OutputsAre DEF AsExtractor
    <3>. QED
      BY <2>2, <3>1, OutputsAreFiles DEF OutSet, Listed
  <2>. QED
    BY <2>1, <2>2
<1>. HIDE DEF todo
<1>3. job'.script = s /\ job'.todo = todo /\ job'.from = from
  BY <1>1
<1>. HIDE DEF from
<1>4. JobOK'
  BY <1>1, <1>2, <1>3 DEF JobOK, IInv
<1>5. WrittenOK'
  BY <1>1, <1>2, <1>3 DEF WrittenOK
<1>6. HistoryOK'
  <2>1. AsExtractor(s) \notin current'
    BY <1>1 DEF AsExtractor
  <2>2. s = "01" => from = Parsed(raw') /\ current' \subseteq {"03f"}
    BY <1>1 DEF from
  <2>3. ASSUME "01" \in current', NEW g \in Reads[s] PROVE from[g] = Parsed(raw')[g]
    <3>1. s # "01" /\ "01" \in current /\ g \in ParsedFiles
      BY <1>1, <2>3, ReadsAreParsed
    <3>2. from[g] = tree[g].items
      BY <3>1, <2>3 DEF from, Items
    <3>3. Heals("01")
      BY <3>1, HealsBySets DEF IInv
    <3>4. tree[g] = Whole(Content(g, Parsed(raw)))
      BY <3>1, <3>3, OutSets DEF Heals
    <3>5. Content(g, Parsed(raw)) = Parsed(raw)[g]
      BY <3>1, ParsedContent
    <3>. QED
      BY <1>1, <3>2, <3>4, <3>5, WholeFields
  <2>. QED
    BY <1>1, <1>3, <2>1, <2>2, <2>3 DEF HistoryOK
<1>7. RerunHeals'
  BY <1>1 DEF RerunHeals, IInv
<1>8. StructureOK' /\ StructureIsWhole'
  <2>1. ~Extracting
    BY <1>1 DEF Extracting, Idle
  <2>2. Extracting' <=> AsExtractor(s) = "02a"
    BY <1>2, <1>3 DEF Extracting
  <2>3. StructureOK'
    BY <1>1, <2>1 DEF StructureOK, AllWhole, IInv
  <2>4. StructureIsWhole'
    BY <1>2, <1>3 DEF StructureIsWhole, AsExtractor
  <2>. QED
    BY <2>3, <2>4
<1>. QED
  BY <1>4, <1>5, <1>6, <1>7, <1>8 DEF IInv

LEMMA StartStep ==
    ASSUME IInv, NEW s \in Scripts, Start(s)
    PROVE  IInv'
<1>1. CASE s = "02" /\ ~NeedsExtraction
  <2>1. /\ job = Idle /\ job' = [Idle EXCEPT !.script = s]
        /\ UNCHANGED <<raw, tree, current, cut>>
    BY <1>1 DEF Start
  <2>2. job'.todo = <<>> /\ job'.script = s /\ ~Extracting /\ ~Extracting'
    BY <2>1 DEF Idle, Extracting
  <2>3. JobOK'
    BY <2>1, <2>2 DEF JobOK, Idle, IInv
  <2>4. WrittenOK' /\ HistoryOK' /\ RerunHeals'
    BY <2>1, <2>2 DEF WrittenOK, HistoryOK, RerunHeals, IInv
  <2>5. tree["containment"].state # "missing"
    BY <1>1 DEF NeedsExtraction
  <2>6. StructureOK' /\ StructureIsWhole'
    BY <2>1, <2>2, <2>5 DEF StructureOK, StructureIsWhole, AllWhole, IInv
  <2>. QED
    BY <2>3, <2>4, <2>6 DEF IInv
<1>2. CASE s # "02" \/ NeedsExtraction
  <2>1. CASE job' # job
    BY <1>2, <2>1, StartExtracting
  <2>2. CASE job' = job
    <3>1. UNCHANGED <<raw, tree, cut>> /\ job = Idle
      BY DEF Start
    <3>2. current' = current
      <4>1. Extractable(s) => job'.script = s
        BY <1>2 DEF Start
      <4>2. job.script = "none" /\ s # "none"
        BY <3>1 DEF Idle, Scripts, Outputs
      <4>. QED
        BY <1>2, <2>2, <4>1, <4>2 DEF Start
    <3>. QED
      BY <2>2, <3>1, <3>2, QuietStep
  <2>. QED
    BY <2>1, <2>2
<1>. QED
  BY <1>1, <1>2

\* A script that is current is not at work, so what is written is none of its files.
LEMMA OthersKeep ==
    ASSUME IInv, job.todo # <<>>, NEW s \in current
    PROVE  Head(job.todo) \notin OutSet(s)
<1>1. Head(job.todo) \in OutSet(job.script) /\ job.script \in Scripts
  BY HeadAndTail DEF IInv, JobOK
<1>2. s \in Scripts /\ AsExtractor(s) = s /\ s # AsExtractor(job.script)
  BY DEF IInv, JobOK, HistoryOK, AsExtractor, Extractors, Scripts, Outputs
<1>. QED
  BY <1>1, <1>2, OneWriter

\* No script but an extraction of the structure writes its files.
LEMMA OthersSpareStructure ==
    ASSUME IInv, job.todo # <<>>, ~Extracting
    PROVE  Head(job.todo) \notin StructuralFiles
<1>1. Head(job.todo) \in OutSet(job.script) /\ job.script \in Scripts
  BY HeadAndTail DEF IInv, JobOK
<1>2. AsExtractor(job.script) # AsExtractor("02a") /\ "02a" \in Scripts
  BY DEF Extracting, AsExtractor, Scripts, Outputs
<1>. QED
  BY <1>1, <1>2, OneWriter, OutSets

LEMMA StructuralAreFiles == StructuralFiles \subseteq Files /\ "containment" \in StructuralFiles
BY DEF StructuralFiles, RelFiles, Files

LEMMA KillStep == IInv /\ Kill => IInv'
<1> SUFFICES ASSUME IInv, Kill PROVE IInv'
  OBVIOUS
<1>. DEFINE f == Head(job.todo)
<1>1. /\ job' = Idle /\ UNCHANGED <<raw, current>>
      /\ ~cut' => ~cut /\ ~Extracting
      /\ \/ tree' = tree
         \/ job.todo # <<>> /\ tree' = [tree EXCEPT ![f] = Torn]
  BY DEF Kill, Extracting
<1>2. job'.todo = <<>> /\ job'.script = "none" /\ ~Extracting'
  BY <1>1 DEF Idle, Extracting
<1>3. DOMAIN tree' = Files /\ \A g \in Files : tree'[g] = tree[g] \/ (job.todo # <<>> /\ g = f)
  BY <1>1 DEF IInv, JobOK
<1>4. JobOK'
  BY <1>1, <1>3 DEF JobOK, Idle, IInv
<1>5. WrittenOK' /\ HistoryOK' /\ StructureIsWhole'
  BY <1>2 DEF WrittenOK, HistoryOK, StructureIsWhole
<1>6. ASSUME NEW s \in current' PROVE Heals(s)'
  <2>1. s \in current /\ s \in Scripts
    BY <1>1, <1>6 DEF IInv, JobOK, Extractors, Scripts, Outputs
  <2>2. Heals(s) /\ OutSet(s) \subseteq Files
    BY <2>1, HealsBySets, OutputsAreFiles DEF IInv
  <2>3. \A g \in OutSet(s) : tree'[g] = tree[g]
    BY <1>3, <2>1, <2>2, OthersKeep
  <2>. QED
    BY <1>1, <2>2, <2>3 DEF Heals
<1>7. RerunHeals'
  BY <1>6, HealsBySetsNext
<1>8. StructureOK'
  <2>1. CASE ~cut'
    <3>1. ~cut /\ ~Extracting
      BY <1>1, <2>1
    <3>2. \A g \in StructuralFiles : tree'[g] = tree[g]
      BY <1>3, <3>1, OthersSpareStructure, StructuralAreFiles
    <3>. QED
      BY <3>1, <3>2, StructuralAreFiles DEF StructureOK, AllWhole, IInv
  <2>. QED
    BY <2>1 DEF StructureOK
<1>. QED
  BY <1>4, <1>5, <1>7, <1>8 DEF IInv

LEMMA TodoReplaced ==
    ASSUME NEW j, NEW s, NEW todo, NEW from, NEW T,
           j = [script |-> s, todo |-> todo, from |-> from]
    PROVE  [j EXCEPT !.todo = T] = [script |-> s, todo |-> T, from |-> from]
OBVIOUS

\* A file written, and a script that has perhaps come to its end.
LEMMA WriteFileStep ==
    ASSUME IInv, Write, MakesDirs \/ DirOf(Head(job.todo)) \subseteq dirs
    PROVE  IInv'
<1>. DEFINE f == Head(job.todo)
            T == Tail(job.todo)
            S == job.script
            rest == [job EXCEPT !.todo = T]
            done == T = <<>> /\ (S = "01" => raw.hasRecitals)
<1>1. /\ job.todo # <<>>
      /\ tree' = [tree EXCEPT ![f] = Whole(Content(f, job.from))]
      /\ job' = IF T = <<>> /\ S # "02" THEN Idle ELSE rest
      /\ current' = IF done /\ (Reads[S] # {} => "01" \in current)
                    THEN current \cup {AsExtractor(S)} ELSE current
      /\ cut' = (cut /\ ~(done /\ AsExtractor(S) = "02a"))
      /\ raw' = raw
  <2>1. rest.todo = T
    BY DEF IInv, JobOK
  <2>2. /\ job.todo # <<>> /\ raw' = raw
        /\ tree' = Written(f)
        /\ job' = IF rest.todo = <<>> /\ job.script # "02" THEN Idle ELSE rest
        /\ current' = IF rest.todo = <<>> /\ (S = "01" => raw.hasRecitals)
                             /\ (Reads[S] # {} => "01" \in current)
                      THEN current \cup {AsExtractor(S)} ELSE current
        /\ cut' = (cut /\ ~(rest.todo = <<>> /\ (S = "01" => raw.hasRecitals)
                               /\ AsExtractor(S) = "02a"))
    BY DEF Write
  <2>. QED
    BY <2>1, <2>2 DEF Written
<1>2. /\ S \in Scripts /\ f \in Files /\ f \in OutSet(S) /\ T \in Seq(Files)
      /\ Listed(job.todo) = {f} \cup Listed(T) /\ Listed(T) \subseteq OutSet(S)
      /\ OutSet(S) \subseteq Files /\ AsExtractor(S) \in {"01"} \cup Extractors
      /\ AsExtractor(S) \in Scripts /\ OutSet(AsExtractor(S)) = OutSet(S)
  <2>1. S \in Scripts /\ Listed(job.todo) \subseteq OutSet(S) /\ job.todo \in Seq(Files)
    BY <1>1 DEF IInv, JobOK
  <2>2. f \in Files /\ T \in Seq(Files) /\ Listed(job.todo) = {f} \cup Listed(T)
    BY <1>1, <2>1, HeadAndTail
  <2>3. f \in OutSet(S)
    BY <2>1, <2>2
  <2>4. Outputs[S] # <<>>
    BY <2>3, OutSets, OutputsAre DEF OutSet
  <2>5. /\ OutSet(S) \subseteq Files /\ AsExtractor(S) \in {"01"} \cup Extractors
        /\ AsExtractor(S) \in Scripts /\ OutSet(AsExtractor(S)) = OutSet(S)
    BY <2>1, <2>4, OutputsAreFiles
  <2>6. Listed(T) \subseteq OutSet(S)
    BY <2>1, <2>2
  <2>. QED
    BY <2>1, <2>2, <2>3, <2>5, <2>6
<1>3. /\ DOMAIN tree' = Files /\ tree'[f] = Whole(Content(f, job.from))
      /\ \A g \in Files \ {f} : tree'[g] = tree[g]
  BY <1>1, <1>2 DEF IInv, JobOK
<1>4. T # <<>> \/ S = "02" => job' = rest
  BY <1>1
<1>5. /\ rest = [script |-> S, todo |-> T, from |-> job.from]
      /\ rest.script = S /\ rest.todo = T /\ rest.from = job.from
  BY ZenonT(60), TodoReplaced DEF IInv, JobOK
<1>6. T = <<>> => job'.todo = <<>> /\ ~Extracting'
  BY <1>1, <1>5 DEF Idle, Extracting
<1>7. T # <<>> => /\ job'.script = S /\ job'.todo = T /\ job'.from = job.from
                  /\ (Extracting' <=> AsExtractor(S) = "02a") /\ current' = current
  BY <1>1, <1>4, <1>5 DEF Extracting
<1>. HIDE DEF rest
<1>8. JobOK'
  <2>1. current' \subseteq {"01"} \cup Extractors
    BY <1>1, <1>2 DEF IInv, JobOK
  <2>2. CASE T = <<>> /\ S # "02"
    BY <1>1, <1>3, <2>1, <2>2 DEF JobOK, Idle
  <2>3. CASE T # <<>> \/ S = "02"
    BY <1>2, <1>3, <1>4, <1>5, <2>1, <2>3 DEF JobOK
  <2>. QED
    BY <2>2, <2>3
<1>9. S = "01" => (raw.hasRecitals <=> raw'.hasRecitals)
  BY <1>1
<1>10. ASSUME S = "01" => raw.hasRecitals, NEW g \in OutSet(S) \ Listed(T)
       PROVE  tree'[g] = Whole(Content(g, job.from))
  <2>1. CASE g = f
    BY <1>3, <2>1
  <2>2. CASE g # f
    BY <1>1, <1>2, <1>3, <1>10, <2>2 DEF IInv, WrittenOK
  <2>. QED
    BY <2>1, <2>2
<1>11. WrittenOK'
  <2>1. CASE T = <<>>
    BY <1>6, <2>1 DEF WrittenOK
  <2>2. CASE T # <<>>
    BY <1>1, <1>7, <1>10, <2>2 DEF WrittenOK
  <2>. QED
    BY <2>1, <2>2
<1>12. HistoryOK'
  <2>1. CASE T = <<>>
    BY <1>6, <2>1 DEF HistoryOK
  <2>2. CASE T # <<>>
    BY <1>1, <1>7, <2>2 DEF HistoryOK, IInv
  <2>. QED
    BY <2>1, <2>2
<1>13. ASSUME NEW s \in current PROVE Heals(s)'
  <2>1. Heals(s) /\ f \notin OutSet(s) /\ OutSet(s) \subseteq Files
    <3>1. s \in Scripts
      BY <1>13 DEF IInv, JobOK, Extractors, Scripts, Outputs
    <3>. QED
      BY <1>1, <3>1, OthersKeep, HealsBySets, OutputsAreFiles DEF IInv
  <2>2. \A g \in OutSet(s) : tree'[g] = tree[g]
    BY <1>3, <2>1
  <2>. QED
    BY <1>1, <2>1, <2>2 DEF Heals
<1>14. ASSUME done, Reads[S] # {} => "01" \in current, NEW t, t = AsExtractor(S)
       PROVE  Heals(t)'
  <2>1. Listed(T) = {}
    BY <1>14 DEF Listed
  <2>2. ASSUME NEW g \in OutSet(S) PROVE tree'[g] = Whole(Content(g, job.from))
    BY <1>10, <1>14, <2>1, <2>2
  <2>3. ASSUME NEW g \in OutSet(S) PROVE Content(g, job.from) = Content(g, Parsed(raw))
    <3>1. CASE S = "01"
      BY <1>1, <3>1 DEF HistoryOK, IInv
    <3>2. CASE S # "01"
      <4>1. \A h \in Reads[S] : job.from[h] = Parsed(raw)[h]
        BY <1>1, <1>14 DEF HistoryOK, IInv
      <4>. QED
        BY <1>2, <2>3, <3>2, <4>1, ContentOfReads
    <3>. QED
      BY <3>1, <3>2
  <2>. QED
    BY <1>1, <1>2, <1>14, <2>2, <2>3 DEF Heals
<1>15. RerunHeals'
  <2>1. ASSUME NEW s \in current' PROVE Heals(s)'
    <3>1. CASE s \in current
      BY <1>13, <3>1
    <3>2. CASE s \notin current
      <4>1. s = AsExtractor(S) /\ done /\ (Reads[S] # {} => "01" \in current)
        BY <1>1, <2>1, <3>2
      <4>. QED
        BY <4>1, <1>14
    <3>. QED
      BY <3>1, <3>2
  <2>. QED
    BY <2>1, HealsBySetsNext
<1>16. ASSUME AsExtractor(S) = "02a", T = <<>> PROVE AllWhole'
  <2>1. OutSet(S) = StructuralFiles /\ S # "01" /\ Listed(T) = {}
    BY <1>2, <1>16, OutSets DEF AsExtractor, Listed
  <2>2. ASSUME NEW g \in StructuralFiles PROVE tree'[g].state = "whole"
    BY <1>10, <2>1, <2>2, WholeFields
  <2>. QED
    BY <2>2 DEF AllWhole
<1>17. StructureOK'
  <2>1. CASE AsExtractor(S) = "02a" /\ T = <<>>
    BY <1>16, <2>1 DEF StructureOK
  <2>2. CASE AsExtractor(S) = "02a" /\ T # <<>>
    BY <1>7, <2>2 DEF StructureOK
  <2>3. CASE AsExtractor(S) # "02a"
    <3>1. ~Extracting /\ (cut' <=> cut)
      BY <1>1, <2>3 DEF Extracting
    <3>2. \A g \in StructuralFiles : tree'[g] = tree[g]
      BY <1>1, <1>3, <3>1, OthersSpareStructure, StructuralAreFiles
    <3>3. ~(tree["containment"].state # "missing" /\ ~cut) \/ AllWhole
      BY <3>1 DEF StructureOK, IInv
    <3>. QED
      BY <3>1, <3>2, <3>3, StructuralAreFiles DEF StructureOK, AllWhole
  <2>. QED
    BY <2>1, <2>2, <2>3
<1>18. StructureIsWhole'
  <2>1. CASE T = <<>> /\ S = "02"
    BY <1>16, <2>1 DEF StructureIsWhole, AllWhole, AsExtractor
  <2>2. CASE T = <<>> /\ S # "02"
    BY <1>1, <2>2 DEF StructureIsWhole, Idle
  <2>3. CASE T # <<>>
    BY <1>7, <2>3 DEF StructureIsWhole
  <2>. QED
    BY <2>1, <2>2, <2>3
<1>. QED
  BY <1>8, <1>11, <1>12, <1>15, <1>17, <1>18 DEF IInv

LEMMA WriteStep == IInv /\ Write => IInv'
<1> SUFFICES ASSUME IInv, Write PROVE IInv'
  OBVIOUS
<1>1. CASE MakesDirs \/ DirOf(Head(job.todo)) \subseteq dirs
  BY <1>1, WriteFileStep
<1>2. CASE ~(MakesDirs \/ DirOf(Head(job.todo)) \subseteq dirs)
  <2>1. job' = Idle /\ job.todo # <<>> /\ UNCHANGED <<raw, tree, current, cut>>
    BY <1>2 DEF Write
  <2>2. job'.todo = <<>> /\ job'.script = "none" /\ ~Extracting'
    BY <2>1 DEF Idle, Extracting
  <2>3. ~Extracting
    BY <1>2 DEF MakesDirs, Extracting, AsExtractor
  <2>4. JobOK'
    BY <2>1 DEF JobOK, Idle, IInv
  <2>5. WrittenOK' /\ HistoryOK' /\ StructureIsWhole'
    BY <2>2 DEF WrittenOK, HistoryOK, StructureIsWhole
  <2>6. RerunHeals'
    BY <2>1 DEF RerunHeals, IInv
  <2>7. StructureOK'
    BY <2>1, <2>3 DEF StructureOK, AllWhole, IInv
  <2>. QED
    BY <2>4, <2>5, <2>6, <2>7 DEF IInv
<1>. QED
  BY <1>1, <1>2

LEMMA IInvStep == IInv /\ [Next]_vars => IInv'
<1> SUFFICES ASSUME IInv, [Next]_vars PROVE IInv'
  OBVIOUS
<1>1. ASSUME NEW v \in Validators, Validate(v) PROVE IInv'
  BY <1>1, QuietStep DEF Validate
<1>2. CASE UNCHANGED vars
  BY <1>2, QuietStep DEF vars
<1>. QED
  BY <1>1, <1>2, EditStep, WriteStep, KillStep, LoadStep, StartStep DEF Next

\* A script that has run to its end, after the ones it reads from and since the last
\* change to Data/, leaves in its files what the corpus gives, whatever was killed
\* between two writes or within one before.
THEOREM RerunAlwaysHeals == Spec => []RerunHeals
<1>1. IInv => RerunHeals
  BY DEF IInv
<1>. QED
  BY InitIInv, IInvStep, <1>1, PTL DEF Spec

\* The test of 02 for an extraction already made, a directory with a containment.json
\* in it, is not deceived but by an extraction that was killed.
THEOREM StructureAlwaysWhole == Spec => []StructureIsWhole
<1>1. IInv => StructureIsWhole
  BY DEF IInv
<1>. QED
  BY InitIInv, IInvStep, <1>1, PTL DEF Spec
-----------------------------------------------------------------------------
\* What JobOK leaves of the types.
Typed ==
    /\ raw \in Corpora
    /\ \A f \in Files : tree[f].state \in {"missing", "torn", "whole"}
    /\ dirs \subseteq {"entities", "relationships"}
    /\ passed \subseteq Validators /\ cut \in BOOLEAN
    /\ edits \in 0..MaxEdits /\ kills \in 0..MaxKills

LEMMA States ==
    ASSUME NEW items
    PROVE  /\ Whole(items).state = "whole" /\ Torn.state = "torn" /\ Missing.state = "missing"
BY DEF Whole, Torn, Missing

LEMMA TypedInit == Init => Typed
<1> SUFFICES ASSUME Init PROVE Typed
  OBVIOUS
<1>1. \A f \in Files : tree[f].state \in {"missing", "torn", "whole"}
  <2>1. CASE tree = [f \in Files |-> Missing]
    BY <2>1, States
  <2>2. CASE tree # [f \in Files |-> Missing]
    <3>. DEFINE made == [f \in Files |-> Whole(Content(f, Parsed(Shipped)))]
    <3>1. tree = [made EXCEPT !["guidelines"] = Missing]
      BY <2>2 DEF Init
    <3>2. ASSUME NEW f \in Files PROVE made[f].state = "whole"
      BY States
    <3>3. DOMAIN made = Files
      OBVIOUS
    <3>. HIDE DEF made
    <3>4. ASSUME NEW f \in Files PROVE tree[f] = made[f] \/ tree[f] = Missing
      BY <3>1, <3>3
    <3>. QED
      BY <3>2, <3>4, States
  <2>. QED
    BY <2>1, <2>2
<1>. QED
  <2>1. raw \in Corpora /\ dirs \subseteq {"entities", "relationships"} /\ passed \subseteq Validators
    BY CorporaAssumption DEF Init
  <2>2. edits = 0 /\ kills = 0 /\ cut = FALSE
    BY DEF Init
  <2>3. 0 \in 0..MaxEdits /\ 0 \in 0..MaxKills
    BY BoundAssumption
  <2>. QED
    BY <1>1, <2>1, <2>2, <2>3 DEF Typed

LEMMA TypedStep == IInv /\ Typed /\ [Next]_vars => Typed'
<1> SUFFICES ASSUME IInv, Typed, [Next]_vars PROVE Typed'
  OBVIOUS
<1>1. CASE Edit
  BY <1>1, BoundAssumption DEF Edit, Typed
<1>2. CASE Write
  <2>1. \/ tree' = Written(Head(job.todo)) /\ dirs' = dirs \cup DirOf(Head(job.todo)) /\ passed' = {}
           /\ cut' \in BOOLEAN
        \/ UNCHANGED <<tree, dirs, passed, cut>>
    BY <1>2 DEF Write
  <2>2. \A f \in Files : tree'[f] = tree[f] \/ tree'[f].state = "whole"
    BY <2>1, States DEF Written, IInv, JobOK
  <2>. QED
    BY <1>2, <2>1, <2>2 DEF Write, Typed, DirOf
<1>3. CASE Kill
  <2>1. \A f \in Files : tree'[f] = tree[f] \/ tree'[f].state = "torn"
    BY <1>3, States DEF Kill, IInv, JobOK
  <2>2. cut' \in BOOLEAN
    BY <1>3 DEF Kill
  <2>3. kills' \in 0..MaxKills /\ raw' = raw /\ edits' = edits
    BY <1>3, BoundAssumption DEF Kill, Typed
  <2>4. dirs' \subseteq {"entities", "relationships"} /\ passed' \subseteq Validators
    BY <1>3 DEF Kill, Typed, DirOf
  <2>. QED
    BY <2>1, <2>2, <2>3, <2>4 DEF Typed
<1>4. ASSUME NEW s \in Scripts, Start(s) PROVE Typed'
  BY <1>4 DEF Start, Typed
<1>5. ASSUME NEW v \in Validators, Validate(v) PROVE Typed'
  BY <1>5 DEF Validate, Typed
<1>6. CASE Load \/ UNCHANGED vars
  BY <1>6 DEF Load, Typed, vars
<1>. QED
  BY <1>1, <1>2, <1>3, <1>4, <1>5, <1>6 DEF Next

\* Every reachable state is well typed: what a script has still to write are files
\* that exist, a file is missing, whole or cut short.
THEOREM TypeCorrect == Spec => []TypeOK
<1>1. Init => IInv /\ Typed
  BY InitIInv, TypedInit
<1>2. IInv /\ Typed /\ [Next]_vars => (IInv /\ Typed)'
  BY IInvStep, TypedStep
<1>3. IInv /\ Typed => TypeOK
  BY DEF IInv, JobOK, Typed, TypeOK
<1>. QED
  BY <1>1, <1>2, <1>3, PTL DEF Spec
-----------------------------------------------------------------------------
(* What the load finds once the whole chain has run.                       *)

ChainComplete == current = {"01"} \cup Extractors

\* Every file is then what the corpus gives, for every file has an extractor.
LEMMA ChainFiles ==
    ASSUME IInv, ChainComplete, NEW f \in Files
    PROVE  Items(f) = Content(f, Parsed(raw))
<1>1. {"01", "02a", "03", "03b", "03c", "03e", "03f"} \subseteq current
  BY DEF ChainComplete, Extractors, Scripts, Outputs
<1>2. PICK s \in current : f \in OutSet(s)
  BY <1>1, OutSets DEF Files, RelFiles, EntityFiles, ParsedFiles, StructuralFiles
<1>3. tree[f] = Whole(Content(f, Parsed(raw)))
  BY <1>2, HealsBySets DEF IInv, Heals
<1>. QED
  BY <1>3, WholeFields DEF Items

LEMMA LinkEnds ==
    ASSUME NEW e, NEW T, NEW r \in LinksOf(e, T)
    PROVE  r[1] = e /\ r[2] \in T
BY DEF LinksOf

\* The chapters, articles and recitals that a corpus gives are of a regulation.
LEMMA ParsedParts ==
    ASSUME NEW c \in Corpora, NEW p, p = Parsed(c)
    PROVE  /\ \A ch \in p.chapters : ch[2] \in Regulations
           /\ \A a \in p.articles : <<"Chapter", a.id[2], a.chapter>> \in p.chapters
           /\ \A r \in p.recitals : r[2] \in Regulations
<1>1. /\ p.chapters = {<<"Chapter", f.reg, f.number>> : f \in c.chapters}
      /\ p.articles = UNION {{[id |-> <<"Article", f.reg, n>>, chapter |-> f.number] :
                                  n \in f.articles} : f \in c.chapters}
      /\ p.recitals = c.recitals
  BY DEF Parsed
<1>2. \A f \in c.chapters : f.reg \in Regulations
  BY CorporaAssumption
<1>3. ASSUME NEW a \in p.articles PROVE <<"Chapter", a.id[2], a.chapter>> \in p.chapters
  <2>1. PICK f \in c.chapters : \E n \in f.articles :
            a = [id |-> <<"Article", f.reg, n>>, chapter |-> f.number]
    BY <1>1
  <2>2. a.id[2] = f.reg /\ a.chapter = f.number
    BY <2>1
  <2>. QED
    BY <1>1, <2>2
<1>4. \A r \in p.recitals : r[2] \in Regulations
  BY <1>1, CorporaAssumption
<1>. QED
  BY <1>1, <1>2, <1>3, <1>4

\* What is a node: the regulations, the chapters with a number, and all else that is parsed
\* or extracted.
Known(N, p, articles) ==
    /\ \A reg \in Regulations : <<"Regulation", reg, NoNumber>> \in N
    /\ \A c \in p.chapters : c[3] # NoNumber => c \in N
    /\ articles \subseteq N /\ p.recitals \subseteq N /\ p.guidelines \subseteq N
    /\ Definitions(articles) \subseteq N /\ Obligations(articles) \subseteq N
    /\ Rules \subseteq N /\ Concepts \subseteq N

Headless(r) == \E e \in {r[1], r[2]} : e[1] = "Chapter" /\ e[3] = NoNumber
Joins(r, N) == r[1] \in N /\ r[2] \in N

LEMMA ContainmentJoins ==
    ASSUME NEW c \in Corpora, NEW p, p = Parsed(c), NEW articles,
           articles = {a.id : a \in p.articles}, NEW N, Known(N, p, articles),
           NEW r \in Containment(p)
    PROVE  Joins(r, N) \/ Headless(r)
<1>1. CASE \E ch \in p.chapters : r \in {<<Root(ch), ch>>, <<ch, Root(ch)>>}
  <2>1. PICK ch \in p.chapters : r \in {<<Root(ch), ch>>, <<ch, Root(ch)>>}
    BY <1>1
  <2>2. ch[1] = "Chapter"
    BY DEF Parsed
  <2>3. Root(ch) \in N
    BY ParsedParts DEF Root, Known
  <2>. QED
    BY <2>1, <2>2, <2>3 DEF Joins, Headless, Known
<1>2. CASE \E a \in p.articles : r \in {<<<<"Chapter", a.id[2], a.chapter>>, a.id>>,
                                        <<a.id, <<"Chapter", a.id[2], a.chapter>>>>}
  <2>1. PICK a \in p.articles : r \in {<<<<"Chapter", a.id[2], a.chapter>>, a.id>>,
                                       <<a.id, <<"Chapter", a.id[2], a.chapter>>>>}
    BY <1>2
  <2>. DEFINE ch == <<"Chapter", a.id[2], a.chapter>>
  <2>2. ch \in p.chapters /\ a.id \in articles
    BY ParsedParts
  <2>3. ch[1] = "Chapter" /\ ch[3] = a.chapter
    OBVIOUS
  <2>4. ch[3] # NoNumber => ch \in N
    BY <2>2 DEF Known
  <2>5. a.id \in N
    BY <2>2 DEF Known
  <2>6. r \in {<<ch, a.id>>, <<a.id, ch>>}
    BY <2>1
  <2>. HIDE DEF ch
  <2>. QED
    BY <2>3, <2>4, <2>5, <2>6 DEF Joins, Headless
<1>3. CASE \E t \in p.recitals : r = <<Root(t), t>>
  <2>1. PICK t \in p.recitals : r = <<Root(t), t>>
    BY <1>3
  <2>2. Root(t) \in N /\ t \in N
    BY ParsedParts DEF Root, Known
  <2>. QED
    BY <2>1, <2>2 DEF Joins
<1>4. \/ \E ch \in p.chapters : r \in {<<Root(ch), ch>>, <<ch, Root(ch)>>}
      \/ \E a \in p.articles : r \in {<<<<"Chapter", a.id[2], a.chapter>>, a.id>>,
                                      <<a.id, <<"Chapter", a.id[2], a.chapter>>>>}
      \/ r \in {<<Root(t), t>> : t \in p.recitals}
  BY Zenon DEF Containment
<1>. QED
  BY <1>1, <1>2, <1>3, <1>4

\* What is drawn from the texts joins entities; what the tables name need not exist.
LEMMA ExtractedJoin ==
    ASSUME NEW p, NEW articles, NEW N, Known(N, p, articles),
           NEW r, r \in References(articles) \cup Interprets(p.recitals \cup p.guidelines, articles)
                        \cup Defines(articles) \cup ObligationLinks(articles)
                        \cup Complements(articles) \cup ConceptLinks(articles)
    PROVE  Joins(r, N) \/ r \in Curated
<1>1. CASE r \in References(articles)
  <2>1. PICK a \in articles : r \in LinksOf(a, Existing(Refs(a), articles))
    BY <1>1 DEF References
  <2>. QED
    BY <2>1, LinkEnds DEF Existing, Joins, Known
<1>2. CASE r \in Interprets(p.recitals \cup p.guidelines, articles)
  <2>1. PICK t \in p.recitals \cup p.guidelines : r \in LinksOf(t, Existing(Refs(t), articles))
    BY <1>2 DEF Interprets
  <2>. QED
    BY <2>1, LinkEnds DEF Existing, Joins, Known
<1>3. CASE r \in Defines(articles)
  <2>1. PICK a \in articles \cap DefinitionArticles : r = <<a, Of("Definition", a)>>
    BY <1>3 DEF Defines
  <2>2. Of("Definition", a) \in Definitions(articles)
    BY <2>1 DEF Definitions
  <2>. QED
    BY <2>1, <2>2 DEF Joins, Known
<1>4. CASE r \in ObligationLinks(articles)
  <2>1. PICK a \in articles : r \in LinksOf(Of("Obligation", a), {a, Bearer})
    BY <1>4 DEF ObligationLinks
  <2>2. Of("Obligation", a) \in Obligations(articles) /\ Bearer \in Rules
    BY TableAssumption DEF Obligations
  <2>. QED
    BY <2>1, <2>2, LinkEnds DEF Joins, Known
<1>5. CASE r \in Complements(articles)
  <2>1. CASE r \in CuratedComplements
    BY <2>1 DEF Curated
  <2>2. CASE \E a \in articles : r \in LinksOf(a, {b \in Refs(a) \cap articles : b[2] # a[2]})
    BY <2>2, LinkEnds DEF Joins, Known
  <2>. QED
    BY <1>5, <2>1, <2>2 DEF Complements
<1>6. CASE r \in ConceptLinks(articles)
  <2>1. PICK c \in Concepts : r \in LinksOf(c, (ConceptArticles \cap articles) \cup Names[c])
    BY <1>6 DEF ConceptLinks
  <2>2. Names[c] \subseteq Concepts
    BY TableAssumption
  <2>. QED
    BY <2>1, <2>2, LinkEnds DEF Joins, Known
<1>. QED
  BY <1>1, <1>2, <1>3, <1>4, <1>5, <1>6

LEMMA NodesKnown ==
    ASSUME IInv, ChainComplete, NEW p, p = Parsed(raw),
           NEW articles, articles = {a.id : a \in p.articles}
    PROVE  Known(Nodes(LoadedFiles("04")), p, articles)
<1>. DEFINE N == Nodes(LoadedFiles("04"))
<1>1. /\ Items("chapters") = p.chapters /\ Items("articles") = p.articles
      /\ Items("recitals") = p.recitals /\ Items("guidelines") = p.guidelines
  BY ChainFiles, ParsedContent DEF Files, ParsedFiles
<1>2. /\ Items("definitions") = Definitions(articles) /\ Items("rules") = Rules
      /\ Items("obligations") = Obligations(articles) /\ Items("concepts") = Concepts
  <2>1. /\ Content("definitions", p) = Definitions(articles) /\ Content("rules", p) = Rules
        /\ Content("obligations", p) = Obligations(articles) /\ Content("concepts", p) = Concepts
    BY DEF Content, ParsedFiles
  <2>. QED
    BY <2>1, ChainFiles DEF Files, EntityFiles
<1>3. ASSUME NEW f \in {"recitals", "guidelines", "definitions", "rules", "obligations", "concepts"}
      PROVE  Items(f) \subseteq N
  <2>1. f \in LoadedFiles("04") \ {"chapters", "articles"}
    BY DEF LoadedFiles, ParsedFiles, EntityFiles
  <2>. QED
    BY <2>1 DEF Nodes
<1>4. /\ \A reg \in Regulations : <<"Regulation", reg, NoNumber>> \in N
      /\ \A c \in p.chapters : c[3] # NoNumber => c \in N
      /\ articles \subseteq N
  BY <1>1 DEF Nodes
<1>. HIDE DEF N
<1>5. /\ p.recitals \subseteq N /\ p.guidelines \subseteq N
      /\ Definitions(articles) \subseteq N /\ Obligations(articles) \subseteq N
      /\ Rules \subseteq N /\ Concepts \subseteq N
  BY <1>1, <1>2, <1>3
<1>. QED
  BY <1>4, <1>5 DEF Known, N

LEMMA RelsAre ==
    ASSUME IInv, ChainComplete, NEW p, p = Parsed(raw),
           NEW articles, articles = {a.id : a \in p.articles}, NEW r \in Rels
    PROVE  \/ r \in Containment(p) \/ r \in Curated
           \/ r \in References(articles) \cup Interprets(p.recitals \cup p.guidelines, articles)
                    \cup Defines(articles) \cup ObligationLinks(articles)
                    \cup Complements(articles) \cup ConceptLinks(articles)
<1>1. PICK f \in RelFiles : r \in Items(f)
  BY DEF Rels
<1>2. r \in Content(f, p)
  BY <1>1, ChainFiles DEF Files
<1>3. /\ Content("containment", p) = Containment(p)
      /\ Content("references", p) = References(articles)
      /\ Content("interprets", p) = Interprets(p.recitals \cup p.guidelines, articles)
      /\ Content("defines", p) = Defines(articles)
      /\ Content("semantic_links", p) = SemanticLinks
      /\ Content("obligation_links", p) = ObligationLinks(articles)
      /\ Content("complements", p) = Complements(articles)
      /\ Content("concept_links", p) = ConceptLinks(articles)
      /\ Content("right_links", p) = RightLinks
  BY DEF Content, ParsedFiles
<1>4. f \in {"containment", "references", "interprets", "defines", "semantic_links",
             "obligation_links", "complements", "concept_links", "right_links"}
  BY <1>1 DEF RelFiles, StructuralFiles
<1>. QED
  BY <1>2, <1>3, <1>4 DEF Curated

\* When every script has run to its end, each after those it reads from and on the same
\* texts, the load of 04 skips only what the tables of the code name and the corpus does
\* not have, and what hangs on a chapter without a header.
THEOREM OnlyCuratedEverDangles == Spec => []OnlyCuratedDangles
<1>1. IInv /\ Typed => OnlyCuratedDangles
  <2> SUFFICES ASSUME IInv, Typed, ChainComplete, NEW r \in Skipped("04")
               PROVE  r \in Curated \/ (r \in Rels /\ Headless(r))
    BY DEF OnlyCuratedDangles, ChainComplete, Headless
  <2>. DEFINE p == Parsed(raw)
              articles == {a.id : a \in p.articles}
              N == Nodes(LoadedFiles("04"))
  <2>1. r \in Rels /\ ~Joins(r, N)
    BY DEF Skipped, Dangling, Joins
  <2>2. Known(N, p, articles) /\ raw \in Corpora
    BY NodesKnown DEF Typed
  <2>. HIDE DEF N, p, articles
  <2>3. CASE r \in Containment(p)
    BY <2>1, <2>2, <2>3, ContainmentJoins DEF p, articles
  <2>4. CASE r \in Curated
    BY <2>4
  <2>5. CASE r \in References(articles) \cup Interprets(p.recitals \cup p.guidelines, articles)
                   \cup Defines(articles) \cup ObligationLinks(articles)
                   \cup Complements(articles) \cup ConceptLinks(articles)
    BY <2>1, <2>2, <2>5, ExtractedJoin
  <2>. QED
    BY <2>1, <2>3, <2>4, <2>5, RelsAre DEF p, articles
<1>2. Init => IInv /\ Typed
  BY InitIInv, TypedInit
<1>3. IInv /\ Typed /\ [Next]_vars => (IInv /\ Typed)'
  BY IInvStep, TypedStep
<1>. QED
  BY <1>1, <1>2, <1>3, PTL DEF Spec
=============================================================================
