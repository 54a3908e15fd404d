------------------------- MODULE ScanPipelineProofs -------------------------
(***************************************************************************)
(* Proofs about ScanPipeline, for repositories of any number of files and  *)
(* contents, any suppression lists, and any replies of the LLM.            *)
(***************************************************************************)
EXTENDS ScanPipeline, TLAPS, FiniteSetTheorems, WellFoundedInduction

(* What every step needs to know of the repository and the findings. *)
Typed ==
    /\ repo \in Repositories
    /\ shared \in [imports : SUBSET Keys, surfaces : SUBSET SurfaceType, pii : BOOLEAN,
                   manifest : [read : SUBSET Files, errors : SUBSET Files],
                   unread : SUBSET Files, triage : {"skipped", "failed", "ok"}]
    /\ review \subseteq SurfaceType
    /\ DOMAIN findings \subseteq Keys
    /\ \A k \in DOMAIN findings : findings[k] \in Finding

LEMMA AtMostItself ==
    ASSUME NEW c \in Confidence
    PROVE  c <= c
  BY DEF Confidence

(* The numbers of the catalog. *)
LEMMA Catalog ==
    ASSUME NEW rule \in Rules
    PROVE  /\ Base[rule] \in 550..950
           /\ Factor[rule] \in 30..100
           /\ rule \in {8, 9} => /\ Base[rule] <= 850 /\ Factor[rule] = 50
                                 /\ Where[rule] = {"tests", "docs", "examples"}
  BY DEF Rules, Base, Factor, Where

LEMMA Percent ==
    ASSUME NEW b \in Confidence, NEW f \in 0..100
    PROVE  /\ (b * f) \div 100 \in Confidence
           /\ b <= 850 /\ f = 50 => (b * f) \div 100 <= 425
<1>1. b * f \in Nat /\ b * f <= 1000 * 100
  <2>1. b * f >= 0 * f /\ b * f <= 1000 * f /\ 1000 * f <= 1000 * 100
    BY DEF Confidence
  <2> QED BY <2>1 DEF Confidence
<1> DEFINE p == b * f
<1>2. p \in Nat /\ p <= 100000
  BY <1>1
<1>3. b <= 850 /\ f = 50 => p <= 42500
  BY DEF Confidence
<1> HIDE DEF p
<1>4. p \div 100 \in Confidence /\ (p <= 42500 => p \div 100 <= 425)
  BY <1>2 DEF Confidence
<1> QED BY <1>3, <1>4 DEF p

LEMMA AtLeast ==
    ASSUME NEW was \in Confidence, NEW is \in Confidence, is <= was, is >= 500
    PROVE  was >= 500
  BY DEF Confidence

LEMMA AtMost ==
    ASSUME NEW is \in Confidence, NEW was \in Confidence, NEW top \in Confidence,
           is <= was, was <= top
    PROVE  is <= top
  BY DEF Confidence

LEMMA DampenedType ==
    ASSUME Typed, NEW rule \in Rules, NEW f \in Files
    PROVE  /\ Dampened(rule, f) \in Confidence
           /\ rule \in {8, 9} /\ repo.files[f].place \in {"tests", "docs", "examples"}
              => Dampened(rule, f) <= 425
<1> DEFINE b   == Base[rule]
           pct == Factor[rule]
<1>1. /\ b \in Confidence /\ pct \in 0..100
      /\ rule \in {8, 9} => b <= 850 /\ pct = 50
  BY Catalog DEF Confidence
<1>2. /\ (b * pct) \div 100 \in Confidence
      /\ rule \in {8, 9} => (b * pct) \div 100 <= 425
  <2>1. b \in Confidence /\ pct \in 0..100
    BY <1>1
  <2>2. rule \in {8, 9} => b <= 850 /\ pct = 50
    BY <1>1
  <2> DEFINE share == (b * pct) \div 100
  <2> HIDE DEF b, pct
  <2>3. share \in Confidence /\ (b <= 850 /\ pct = 50 => share <= 425)
    BY <2>1, Percent
  <2> HIDE DEF share
  <2>4. share \in Confidence /\ (rule \in {8, 9} => share <= 425)
    BY <2>2, <2>3
  <2> QED BY <2>4 DEF share
<1>3. Dampened(rule, f) = IF repo.files[f].place \in Where[rule] THEN (b * pct) \div 100 ELSE b
  BY DEF Dampened
<1>4. rule \in {8, 9} => Where[rule] = {"tests", "docs", "examples"}
  BY Catalog
<1> DEFINE share == (b * pct) \div 100
<1>5. /\ Dampened(rule, f) = IF repo.files[f].place \in Where[rule] THEN share ELSE b
      /\ b \in Confidence /\ share \in Confidence /\ (rule \in {8, 9} => share <= 425)
  BY <1>1, <1>2, <1>3
<1> HIDE DEF b, pct, share
<1> QED BY <1>4, <1>5

LEMMA HalvedType ==
    ASSUME NEW c \in Confidence
    PROVE  Halved(c) \in Confidence /\ Halved(c) <= c
<1>1. ASSUME c \in TiesDown
      PROVE  10 * (c \div 20) \in Confidence /\ 10 * (c \div 20) <= c
  BY <1>1, SMTT(60) DEF TiesDown, Confidence
<1>2. 10 * ((c + 10) \div 20) \in Confidence /\ 10 * ((c + 10) \div 20) <= c
  BY SMTT(60) DEF Confidence
<1> QED BY <1>1, <1>2 DEF Halved

LEMMA AfterVerdictType ==
    ASSUME NEW f \in Finding, NEW v \in {"none", "confirmed", "demoted"}
    PROVE  /\ AfterVerdict(f, v) \in Finding
           /\ AfterVerdict(f, v).suppressed = f.suppressed
           /\ AfterVerdict(f, v).conf <= f.conf
           /\ AfterVerdict(f, v).triage # "demoted" => AfterVerdict(f, v).conf = f.conf
<1>1. f.conf \in Confidence
  BY DEF Finding
<1>2. Halved(f.conf) \in Confidence /\ Halved(f.conf) <= f.conf
  BY <1>1, HalvedType
<1> DEFINE newConf == IF v = "demoted" THEN Halved(f.conf) ELSE f.conf
           newTriage == IF v = "none" THEN f.triage ELSE v
<1>3. /\ newConf \in Confidence /\ newConf <= f.conf
      /\ newTriage \in {"none", "confirmed", "demoted"}
      /\ newTriage # "demoted" => newConf = f.conf
  BY <1>1, <1>2, AtMostItself DEF Finding
<1>4. AfterVerdict(f, v) = [f EXCEPT !.triage = newTriage, !.conf = newConf]
  BY DEF AfterVerdict, Finding
<1> HIDE DEF newConf, newTriage
<1>5. AfterVerdict(f, v) = [conf |-> newConf, suppressed |-> f.suppressed, triage |-> newTriage]
  BY <1>4 DEF Finding
<1>6. f.suppressed \in BOOLEAN
  BY DEF Finding
<1> QED BY <1>3, <1>5, <1>6 DEF Finding

LEMMA FoundType ==
    ASSUME NEW c \in Confidence, NEW b \in BOOLEAN
    PROVE  Found(c, b) \in Finding
  BY DEF Found, Finding

LEMMA KeyType ==
    ASSUME NEW rule \in Rules, NEW f \in Files \cup {WholeRepo}, NEW by \in Signals
    PROVE  Key(rule, f, by) \in Keys
  BY DEF Key, Keys

LEMMA FileOf ==
    ASSUME Typed, NEW f \in Files
    PROVE  repo.files[f] \in FileType
  BY SizeAssumption DEF Typed, Repositories

LEMMA SurfaceIs ==
    ASSUME Typed, NEW f \in Files
    PROVE  Surface(f) \in SurfaceType /\ Surface(f).file = f /\ ~Surface(f).test
<1>1. repo.files[f].human \in BOOLEAN /\ repo.files[f].audit \in BOOLEAN
  BY FileOf DEF FileType
<1> QED BY <1>1 DEF Surface, SurfaceType

LEMMA SuppressedType ==
    ASSUME NEW rule, NEW f
    PROVE  IsSuppressed(rule, f) \in BOOLEAN
  BY DEF IsSuppressed

(* The keys of imports and of declarations. *)
LEMMA EntriesType ==
    ASSUME NEW files \in SUBSET Files, NEW rules \in SUBSET Libraries
    PROVE  /\ \A k \in ImportEntries(files) :
                  /\ k \in Keys /\ k.rule \in Libraries /\ k.file \in files
                  /\ k.by = "import" /\ k.rule \in Imports(k.file)
           /\ \A k \in ManifestEntries(rules) :
                  /\ k \in Keys /\ k.rule \in Libraries /\ k.file \in Files
                  /\ k.by = "manifest"
                  /\ <<k.file, k.nth>> \in Declared(k.rule)
<1>1. Libraries \subseteq Rules /\ {"import", "manifest"} \subseteq Signals
  BY DEF Libraries, Rules, Signals
<1>2. ASSUME NEW k \in ImportEntries(files)
      PROVE  /\ k \in Keys /\ k.rule \in Libraries /\ k.file \in files
             /\ k.by = "import" /\ k.rule \in Imports(k.file)
  <2>1. PICK rule \in Libraries, f \in files : k = Key(rule, f, "import")
    BY DEF ImportEntries
  <2>2. k.rule \in Imports(k.file)
    BY DEF ImportEntries
  <2>3. k \in Keys
    BY <1>1, <2>1, KeyType
  <2> QED BY <2>1, <2>2, <2>3 DEF Key
<1>3. ASSUME NEW k \in ManifestEntries(rules)
      PROVE  /\ k \in Keys /\ k.rule \in Libraries /\ k.file \in Files
             /\ k.by = "manifest" /\ <<k.file, k.nth>> \in Declared(k.rule)
  <2>1. PICK rule \in rules : \E d \in Declared(rule) :
            k = [rule |-> rule, file |-> d[1], by |-> "manifest", nth |-> d[2]]
    BY DEF ManifestEntries
  <2>2. PICK d \in Declared(rule) :
            k = [rule |-> rule, file |-> d[1], by |-> "manifest", nth |-> d[2]]
    BY <2>1
  <2>3. d \in Files \X (1..2)
    BY DEF Declared
  <2>4. d = <<d[1], d[2]>>
    BY <2>3
  <2> QED BY <1>1, <2>2, <2>3, <2>4 DEF Keys
<1> QED BY <1>2, <1>3

(* The confidences the import scanner gives. *)
LEMMA AgreedType ==
    ASSUME NEW rule, NEW c \in Confidence
    PROVE  Agreed(rule, c) \in Confidence
<1>1. 10 * ((c + 55) \div 10) \in Nat
  BY DEF Confidence
<1> QED BY <1>1 DEF Agreed, Confidence

LEMMA DeclaredConf ==
    ASSUME NEW b \in 550..950
    PROVE  10 * ((b * 7 + 50) \div 100) \in Confidence
  BY SMTT(60) DEF Confidence

LEMMA ImportFound ==
    ASSUME Typed, NEW k \in Keys, k.rule \in Libraries, k.file \in Files
    PROVE  /\ Found(Agreed(k.rule, Dampened(k.rule, k.file)), IsSuppressed(k.rule, k.file)) \in Finding
           /\ Found(10 * ((Base[k.rule] * 7 + 50) \div 100), IsSuppressed(k.rule, k.file)) \in Finding
<1>1. k.rule \in Rules
  BY DEF Libraries, Rules
<1>2. Dampened(k.rule, k.file) \in Confidence /\ Base[k.rule] \in 550..950
  BY <1>1, DampenedType, Catalog
<1>3. Agreed(k.rule, Dampened(k.rule, k.file)) \in Confidence
  BY <1>2, AgreedType
<1>4. 10 * ((Base[k.rule] * 7 + 50) \div 100) \in Confidence
  <2> DEFINE b == Base[k.rule]
  <2>1. b \in 550..950
    BY <1>2
  <2> HIDE DEF b
  <2>2. 10 * ((b * 7 + 50) \div 100) \in Confidence
    BY <2>1, DeclaredConf
  <2> QED BY <2>2 DEF b
<1> QED BY <1>3, <1>4, FoundType, SuppressedType


(* A set of numbers has a least one. *)
LEMMA LeastOf ==
    ASSUME NEW T \in SUBSET Nat, T # {}
    PROVE  \E m \in T : \A n \in T : m <= n
<1>1. IsWellFoundedOn(OpToRel(<, Nat), Nat)
  BY NatLessThanWellFounded
<1>2. PICK m \in T : \A n \in T : <<n, m>> \notin OpToRel(<, Nat)
  BY <1>1, WFMin
<1>3. ASSUME NEW n \in T PROVE m <= n
  <2>1. m \in Nat /\ n \in Nat /\ <<n, m>> \notin OpToRel(<, Nat)
    BY <1>2
  <2>2. ~(n < m)
    BY <2>1 DEF OpToRel
  <2>3. m \in Nat /\ n \in Nat
    BY <2>1
  <2> QED BY <2>2, <2>3
<1> QED BY <1>3

LEMMA HitsType ==
    ASSUME Typed, NEW rule, NEW f \in Files
    PROVE  Hits(rule, f) \in 0..3
<1>1. repo.files[f].banned \in 0..3
  BY FileOf DEF FileType
<1> QED BY <1>1 DEF Hits

(* The order of the evidence is total: of some files, one is listed first. *)
LEMMA BestFile ==
    ASSUME Typed, NEW rule, NEW S \in SUBSET Files, S # {}
    PROVE  \E f \in S : \A g \in S : Outranks(rule, f, g)
<1> DEFINE code  == {f \in S : ~IsTestPath(f)}
           tier  == IF code # {} THEN code ELSE S
           dense(n) == {f \in tier : Hits(rule, f) = n}
<1>1. /\ tier \subseteq S /\ tier # {} /\ S \subseteq Nat
      /\ \A f, g \in tier : IsTestPath(f) = IsTestPath(g)
      /\ \A f \in tier, g \in S \ tier : ~IsTestPath(f) /\ IsTestPath(g)
  <2>1. Files \subseteq Nat /\ \A f : IsTestPath(f) \in BOOLEAN
    BY SizeAssumption DEF Files, IsTestPath
  <2> QED BY <2>1
<1> HIDE DEF tier
<1>2. \A f \in tier : Hits(rule, f) \in 0..3
  BY <1>1, HitsType
<1>3. PICK n \in 0..3 : dense(n) # {} /\ \A g \in tier : Hits(rule, g) <= n
  <2>1. CASE dense(3) # {}
    BY <1>2, <2>1
  <2>2. CASE dense(3) = {} /\ dense(2) # {}
    BY <1>2, <2>2
  <2>3. CASE dense(3) = {} /\ dense(2) = {} /\ dense(1) # {}
    BY <1>2, <2>3
  <2>4. CASE dense(3) = {} /\ dense(2) = {} /\ dense(1) = {}
    <3>1. \A f \in tier : Hits(rule, f) = 0
      BY <1>2, <2>4
    <3>2. PICK f \in tier : TRUE
      BY <1>1
    <3>3. f \in dense(0) /\ 0 \in 0..3
      BY <3>1, <3>2
    <3> HIDE DEF dense
    <3> QED BY <3>1, <3>3
  <2> QED BY <2>1, <2>2, <2>3, <2>4
<1>4. PICK f \in dense(n) : \A g \in dense(n) : f <= g
  <2>1. dense(n) \in SUBSET Nat
    BY <1>1
  <2> HIDE DEF dense
  <2> QED BY <1>3, <2>1, LeastOf
<1>5. ASSUME NEW g \in S PROVE Outranks(rule, f, g)
  <2>1. CASE g \notin tier
    BY <1>1, <2>1 DEF Outranks
  <2>2. CASE g \in tier
    <3>1. IsTestPath(f) = IsTestPath(g) /\ Hits(rule, g) \in 0..3 /\ Hits(rule, g) <= n
          /\ Hits(rule, f) = n /\ (Hits(rule, g) = n => f <= g)
      BY <1>1, <1>2, <1>3, <1>4, <2>2
    <3> QED BY <3>1 DEF Outranks
  <2> QED BY <2>1, <2>2
<1> QED BY <1>1, <1>4, <1>5
-----------------------------------------------------------------------------
(* What a scanner reports joins what was there. *)
LEMMA Joined ==
    ASSUME NEW raises \in BOOLEAN, NEW new, Scanned(raises, new)
    PROVE  /\ DOMAIN findings' \subseteq DOMAIN findings \cup DOMAIN new
           /\ \A k \in DOMAIN findings' :
                  \/ k \in DOMAIN findings /\ findings'[k] = findings[k]
                  \/ k \in DOMAIN new /\ findings'[k] = new[k]
           /\ raises => findings' = findings
  BY DEF Scanned, Report

(* Where a finding comes from, and with which confidence: a keyword that   *)
(* nothing outranks, or a noted library near a keyword; repository-level   *)
(* findings and those near a library need a note of the import scanner.    *)
Traced(k, f, notes) ==
    /\ k.rule = 8 => k.by = "words"
    /\ k.by = "words" =>
           /\ k.file \in Files /\ Hits(k.rule, k.file) > 0 /\ ~IsSuppressed(k.rule, k.file)
           /\ \A g \in Files : Hits(k.rule, g) > 0 /\ ~IsSuppressed(k.rule, g)
                               => Outranks(k.rule, k.file, g)
           /\ f.triage # "demoted" => f.conf = Dampened(k.rule, k.file)
    /\ k.rule = 9 => /\ k.file \in Files /\ repo.files[k.file].public
                     /\ f.suppressed = IsSuppressed(9, k.file)
                     /\ \E n \in notes : n.rule = 1 /\ n.file = k.file
    /\ k.rule \in {8, 9} => f.conf <= Dampened(k.rule, k.file)
    /\ k.rule \in {4, 5, 6, 9} => notes # {}

(* What the import scanner notes is there to be read. *)
Noted(notes) ==
    \A n \in notes : /\ n.rule \in Libraries /\ n.file \in Files
                     /\ n.by \in {"import", "manifest"}
                     /\ \/ n.rule \in Imports(n.file)
                        \/ repo.files[n.file].declares[n.rule] > 0

Old(k) == k \in DOMAIN findings /\ findings'[k] = findings[k]
New(k) == /\ k \in Keys /\ findings'[k] \in Finding /\ findings'[k].triage = "none"
          /\ Traced(k, findings'[k], shared'.imports)

SharedType == [imports : SUBSET Keys, surfaces : SUBSET SurfaceType, pii : BOOLEAN,
               manifest : [read : SUBSET Files, errors : SUBSET Files],
               unread : SUBSET Files, triage : {"skipped", "failed", "ok"}]

LEMMA NewImports ==
    ASSUME Typed, ImportScan
    PROVE  /\ \A k \in DOMAIN findings' : Old(k) \/ New(k)
           /\ shared' \in SharedType
           /\ Noted(shared'.imports)
<1> DEFINE imported  == ImportEntries(Files)
           onlyNamed == {r \in Libraries : Declared(r) # {} /\ \A k \in imported : k.rule # r}
           early     == Walked # Files \/ (repo.malformed /\ imported # {})
           late      == ~early /\ repo.malformed /\ onlyNamed # {}
           Least(set) == {n \in set : \A m \in set : n <= m}
           declaring == IF late THEN Least(onlyNamed) ELSE Libraries
           In(rule)  == {d[1] : d \in Declared(rule)}
           named     == {k \in {Key(r, f, "manifest") : r \in onlyNamed, f \in Files} :
                            k.file \in Least(In(k.rule))}
           new       == [k \in imported \cup named |->
                            IF k.by = "import"
                            THEN Found(Agreed(k.rule, Dampened(k.rule, k.file)),
                                       IsSuppressed(k.rule, k.file))
                            ELSE Found(10 * ((Base[k.rule] * 7 + 50) \div 100),
                                       IsSuppressed(k.rule, k.file))]
           notes     == (IF repo.malformed THEN {} ELSE ImportEntries(Walked))
                        \cup (IF early THEN {} ELSE ManifestEntries(declaring))
           read      == IF early THEN shared.manifest ELSE
                           [read   |-> {f \in Files : repo.files[f].manifest # "none"},
                            errors |-> {f \in Files : repo.files[f].manifest = "bad"}]
<1>1. /\ Scanned(early \/ late, new)
      /\ shared' = [shared EXCEPT !.imports = notes, !.manifest = read]
  BY DEF ImportScan
<1>2. declaring \in SUBSET Libraries /\ Walked \in SUBSET Files
  BY DEF Walked
<1>3. /\ notes \subseteq Keys
      /\ \A n \in notes :
             /\ n.rule \in Libraries /\ n.file \in Files /\ n.by \in {"import", "manifest"}
             /\ n.rule \in Imports(n.file) \/ <<n.file, n.nth>> \in Declared(n.rule)
  BY <1>2, EntriesType
<1>4. Noted(notes)
  <2> SUFFICES ASSUME NEW n \in notes, n.rule \notin Imports(n.file)
               PROVE  repo.files[n.file].declares[n.rule] > 0
    BY <1>3 DEF Noted
  <2>1. /\ n.rule \in Libraries /\ n.file \in Files
        /\ <<n.file, n.nth>> \in Declared(n.rule)
    BY <1>3
  <2>2. n.nth \in 1..2 /\ n.nth <= repo.files[n.file].declares[n.rule]
    BY <2>1 DEF Declared
  <2>3. repo.files[n.file].declares[n.rule] \in 0..2
    BY <2>1, FileOf DEF FileType
  <2> QED BY <2>2, <2>3
<1>5. ASSUME NEW k \in imported \cup named
      PROVE  k \in Keys /\ k.rule \in Libraries /\ k.file \in Files /\ k.by # "words"
  <2>1. CASE k \in imported
    BY <2>1, EntriesType
  <2>2. CASE k \in named
    <3>1. PICK r \in Libraries, f \in Files : k = Key(r, f, "manifest")
      BY <2>2
    <3>2. Libraries \subseteq Rules /\ "manifest" \in Signals
      BY DEF Libraries, Rules, Signals
    <3>3. k \in Keys
      BY <3>1, <3>2, KeyType
    <3> QED BY <3>1, <3>3 DEF Key
  <2> QED BY <2>1, <2>2
<1>6. ASSUME NEW k \in imported \cup named
      PROVE  new[k] \in Finding /\ new[k].triage = "none" /\ k.rule \in {1, 2}
  <2>1. k.rule \in {1, 2}
    BY <1>5 DEF Libraries
  <2>2. new[k].triage = "none"
    BY DEF Found
  <2>3. new[k] \in Finding
    BY <1>5, ImportFound
  <2> HIDE DEF new
  <2> QED BY <2>1, <2>2, <2>3
<1>7. ASSUME NEW k \in DOMAIN findings'
      PROVE  Old(k) \/ New(k)
  <2> HIDE DEF early, late, new
  <2>1. Old(k) \/ (k \in DOMAIN new /\ findings'[k] = new[k])
    BY <1>1, Joined DEF Old
  <2>2. DOMAIN new = imported \cup named
    BY DEF new
  <2>3. CASE k \in imported \cup named /\ findings'[k] = new[k]
    <3>1. /\ k \in Keys /\ k.by # "words"
      BY <2>3, <1>5
    <3>2. findings'[k] \in Finding /\ k.rule \in {1, 2}
      BY <2>3, <1>6
    <3> QED BY <2>3, <3>1, <3>2, <1>6 DEF New, Traced
  <2> QED BY <2>1, <2>2, <2>3
<1>8. /\ shared \in SharedType /\ read \in [read : SUBSET Files, errors : SUBSET Files]
  BY DEF Typed, SharedType
<1>9. shared' \in SharedType /\ shared'.imports = notes
  <2> HIDE DEF notes, read
  <2> QED BY <1>1, <1>3, <1>8 DEF SharedType
<1> QED BY <1>4, <1>7, <1>9

LEMMA NewOf ==
    ASSUME NEW raises \in BOOLEAN, NEW new, Scanned(raises, new),
           \A k \in DOMAIN new : /\ k \in Keys /\ new[k] \in Finding
                                 /\ new[k].triage = "none"
                                 /\ Traced(k, new[k], shared'.imports)
    PROVE  \A k \in DOMAIN findings' : Old(k) \/ New(k)
  BY Joined DEF Old, New

LEMMA NewRules ==
    ASSUME Typed, AstRules
    PROVE  \A k \in DOMAIN findings' : Old(k) \/ New(k)
<1> DEFINE Fires(rule, s) ==
               /\ s.calls
               /\ rule = 3  => ~s.human
               /\ rule = 7  => ~s.audit
               /\ rule = 10 => ~repo.files[s.file].override
           hits == {h \in {3, 7, 10} \X shared.surfaces : Fires(h[1], h[2])}
           keys == {Key(h[1], h[2].file, "surface") : h \in hits}
           new  == [k \in keys |-> Found(Dampened(k.rule, k.file), IsSuppressed(k.rule, k.file))]
<1>1. Scanned(repo.malformed /\ hits # {}, new)
  BY DEF AstRules
<1>2. ASSUME NEW k \in keys
      PROVE  k \in Keys /\ k.rule \in {3, 7, 10} /\ k.file \in Files /\ k.by = "surface"
  <2>1. PICK h \in hits : k = Key(h[1], h[2].file, "surface")
    OBVIOUS
  <2>2. h[1] \in {3, 7, 10} /\ h[2] \in shared.surfaces
    OBVIOUS
  <2>3. h[2].file \in Files
    BY <2>2 DEF Typed, SurfaceType
  <2>4. h[1] \in Rules /\ "surface" \in Signals
    BY <2>2 DEF Rules, Signals
  <2>5. k \in Keys
    BY <2>1, <2>3, <2>4, KeyType
  <2> QED BY <2>1, <2>2, <2>3, <2>5 DEF Key
<1>3. ASSUME NEW k \in keys
      PROVE  /\ k \in Keys /\ new[k] \in Finding /\ new[k].triage = "none"
             /\ Traced(k, new[k], shared'.imports)
  <2>1. k.rule \in Rules
    BY <1>2 DEF Rules
  <2>2. Dampened(k.rule, k.file) \in Confidence
    BY <1>2, <2>1, DampenedType
  <2>3. new[k] \in Finding
    BY <2>2, FoundType, SuppressedType
  <2>4. Traced(k, new[k], shared'.imports)
    BY <1>2 DEF Traced
  <2>5. new[k].triage = "none"
    BY DEF Found
  <2> QED BY <1>2, <2>3, <2>4, <2>5
<1>4. DOMAIN new = keys
  OBVIOUS
<1> HIDE DEF new, keys, hits
<1> QED BY <1>1, <1>3, <1>4, NewOf

LEMMA NewMarkers ==
    ASSUME Typed, FilePatterns
    PROVE  \A k \in DOMAIN findings' : Old(k) \/ New(k)
<1> DEFINE Marker(rule) == IF rule = 4 THEN "model_card" ELSE "data_card"
           missing == {rule \in {4, 6} : Gate(rule) /\ Marker(rule) \notin repo.docs}
           keys == {Key(rule, WholeRepo, "marker") : rule \in missing}
           new  == [k \in keys |-> Found(Base[k.rule], IsSuppressed(k.rule, WholeRepo))]
<1>1. Scanned(repo.malformed /\ missing # {}, new) /\ shared' = shared
  BY DEF FilePatterns
<1>2. ASSUME NEW k \in keys
      PROVE  /\ k \in Keys /\ k.rule \in {4, 6} /\ k.by = "marker"
             /\ shared.imports # {}
  <2>1. PICK rule \in missing : k = Key(rule, WholeRepo, "marker")
    OBVIOUS
  <2>2. rule \in {4, 6} /\ NotedRules # {}
    BY DEF Gate
  <2>3. rule \in Rules /\ "marker" \in Signals
    BY <2>2 DEF Rules, Signals
  <2>4. k \in Keys
    BY <2>1, <2>3, KeyType
  <2> QED BY <2>1, <2>2, <2>4 DEF Key, NotedRules
<1>3. ASSUME NEW k \in keys
      PROVE  /\ k \in Keys /\ new[k] \in Finding /\ new[k].triage = "none"
             /\ Traced(k, new[k], shared'.imports)
  <2>1. Base[k.rule] \in Confidence
    BY <1>2, Catalog DEF Rules, Confidence
  <2>2. new[k] \in Finding
    BY <2>1, FoundType, SuppressedType
  <2>3. Traced(k, new[k], shared'.imports)
    BY <1>1, <1>2 DEF Traced
  <2>4. new[k].triage = "none"
    BY DEF Found
  <2> QED BY <1>2, <2>2, <2>3, <2>4
<1>4. DOMAIN new = keys
  OBVIOUS
<1> HIDE DEF new, keys, missing
<1> QED BY <1>1, <1>3, <1>4, NewOf

LEMMA NewNear ==
    ASSUME Typed, Noted(shared.imports), Cooccurrence
    PROVE  \A k \in DOMAIN findings' : Old(k) \/ New(k)
<1> DEFINE near == {k \in shared.imports : k.rule = 1 /\ repo.files[k.file].public}
           keys == {[n EXCEPT !.rule = 9] : n \in near}
           new  == [k \in keys |-> Found(Dampened(9, k.file), IsSuppressed(9, k.file))]
<1>1. Scanned(repo.malformed /\ near # {}, new) /\ shared' = shared
  BY DEF Cooccurrence
<1>2. ASSUME NEW k \in keys
      PROVE  /\ k \in Keys /\ k.rule = 9 /\ k.by # "words"
             /\ k.file \in Files /\ repo.files[k.file].public
             /\ \E n \in shared.imports : n.rule = 1 /\ n.file = k.file
  <2>1. PICK n \in near : k = [n EXCEPT !.rule = 9]
    OBVIOUS
  <2>2. n \in Keys /\ n.file \in Files
    BY DEF Typed, Noted
  <2>3. k \in Keys /\ k.rule = 9 /\ k.file = n.file /\ k.by = n.by
    BY <2>1, <2>2 DEF Keys, Rules
  <2>4. n.by # "words"
    BY DEF Noted
  <2> QED BY <2>2, <2>3, <2>4
<1>3. ASSUME NEW k \in keys
      PROVE  /\ k \in Keys /\ new[k] \in Finding /\ new[k].triage = "none"
             /\ Traced(k, new[k], shared'.imports)
  <2>1. Dampened(9, k.file) \in Confidence
    BY <1>2, DampenedType DEF Rules
  <2>2. new[k] \in Finding
    BY <2>1, FoundType, SuppressedType
  <2>3. /\ new[k].suppressed = IsSuppressed(9, k.file) /\ new[k].conf = Dampened(9, k.file)
        /\ new[k].triage = "none"
    BY DEF Found
  <2> HIDE DEF new
  <2>4. new[k].conf <= Dampened(k.rule, k.file)
    BY <1>2, <2>1, <2>3, AtMostItself
  <2>5. Traced(k, new[k], shared'.imports)
    BY <1>1, <1>2, <2>3, <2>4 DEF Traced
  <2> QED BY <1>2, <2>2, <2>3, <2>5
<1>4. DOMAIN new = keys
  OBVIOUS
<1> HIDE DEF new, keys, near
<1> QED BY <1>1, <1>3, <1>4, NewOf

LEMMA NewContent ==
    ASSUME Typed, ContentScan
    PROVE  /\ \A k \in DOMAIN findings' : Old(k) \/ New(k)
           /\ shared' \in SharedType /\ shared'.imports = shared.imports
           /\ ~repo.malformed => \A rule \in {5, 8} :
                  Gate(rule) /\ Shown(rule) # {}
                      => \E k \in DOMAIN findings' : k.rule = rule /\ k.by = "words"
<1> DEFINE evidence(rule) == IF Gate(rule) THEN {f \in Files : Hits(rule, f) > 0} ELSE {}
           reported(rule) == {f \in evidence(rule) : ~IsSuppressed(rule, f)}
           worded  == {k \in {Key(rule, f, "words") : rule \in {5, 8}, f \in Files} :
                          /\ k.file \in reported(k.rule)
                          /\ \A g \in reported(k.rule) : Outranks(k.rule, k.file, g)}
           strings == {f \in Files : Readable(f) /\ repo.files[f].strings}
           quoted  == {Key(2, f, "strings") : f \in {g \in strings : \A h \in strings : g <= h}}
           raises  == repo.malformed /\ evidence(5) \cup evidence(8) \cup strings # {}
           new     == [k \in worded \cup quoted |->
                          Found(Dampened(k.rule, k.file),
                                k.by = "strings" /\ IsSuppressed(2, k.file))]
<1>1. /\ Scanned(raises, new)
      /\ shared' = [shared EXCEPT !.pii = ~raises /\ evidence(5) # {}]
  BY DEF ContentScan
<1>2. raises \in BOOLEAN /\ (~raises /\ evidence(5) # {}) \in BOOLEAN
  <2>1. repo.malformed \in BOOLEAN
    BY DEF Typed, Repositories
  <2> QED BY <2>1
<1>3. shared' \in SharedType /\ shared'.imports = shared.imports
  <2> HIDE DEF raises
  <2> QED BY <1>1, <1>2 DEF Typed, SharedType
<1>4. ASSUME NEW k \in worded
      PROVE  /\ k \in Keys /\ k.rule \in {5, 8} /\ k.by = "words" /\ k.file \in Files
             /\ Hits(k.rule, k.file) > 0 /\ ~IsSuppressed(k.rule, k.file)
             /\ k.rule = 5 => shared.imports # {}
             /\ \A g \in Files : Hits(k.rule, g) > 0 /\ ~IsSuppressed(k.rule, g)
                                 => Outranks(k.rule, k.file, g)
  <2>1. PICK rule \in {5, 8}, f \in Files : k = Key(rule, f, "words")
    OBVIOUS
  <2>2. rule \in Rules /\ "words" \in Signals
    BY DEF Rules, Signals
  <2>3. k \in Keys /\ k.rule = rule /\ k.file = f /\ k.by = "words"
    BY <2>1, <2>2, KeyType DEF Key
  <2>4. k.file \in reported(k.rule)
    OBVIOUS
  <2>5. Gate(k.rule) /\ Hits(k.rule, k.file) > 0 /\ ~IsSuppressed(k.rule, k.file)
    BY <2>4
  <2>6. \A g \in reported(k.rule) : Outranks(k.rule, k.file, g)
    OBVIOUS
  <2>7. k.rule = 5 => shared.imports # {}
    BY <2>5 DEF Gate, NotedRules
  <2>8. \A g \in Files : Hits(k.rule, g) > 0 /\ ~IsSuppressed(k.rule, g)
                         => Outranks(k.rule, k.file, g)
    BY <2>5, <2>6
  <2> QED BY <2>1, <2>3, <2>5, <2>7, <2>8
<1>5. ASSUME NEW k \in quoted
      PROVE  k \in Keys /\ k.rule = 2 /\ k.by = "strings" /\ k.file \in Files
  <2>1. PICK f \in Files : k = Key(2, f, "strings")
    OBVIOUS
  <2>2. 2 \in Rules /\ "strings" \in Signals
    BY DEF Rules, Signals
  <2>3. k \in Keys
    BY <2>1, <2>2, KeyType
  <2> QED BY <2>1, <2>3 DEF Key
<1>6. ASSUME NEW k \in worded \cup quoted
      PROVE  /\ k \in Keys /\ new[k] \in Finding /\ new[k].triage = "none"
             /\ Traced(k, new[k], shared'.imports)
  <2>1. k \in Keys /\ k.rule \in Rules /\ k.file \in Files
    BY <1>4, <1>5 DEF Rules
  <2>2. Dampened(k.rule, k.file) \in Confidence
    BY <2>1, DampenedType
  <2>3. new[k] \in Finding
    <3>1. (k.by = "strings" /\ IsSuppressed(2, k.file)) \in BOOLEAN
      OBVIOUS
    <3>2. new[k] = Found(Dampened(k.rule, k.file), k.by = "strings" /\ IsSuppressed(2, k.file))
      OBVIOUS
    <3> DEFINE conf == Dampened(k.rule, k.file)
               hidden == k.by = "strings" /\ IsSuppressed(2, k.file)
    <3>3. conf \in Confidence /\ hidden \in BOOLEAN /\ new[k] = Found(conf, hidden)
      BY <2>2, <3>1, <3>2
    <3> HIDE DEF conf, hidden, new
    <3> QED BY <3>3, FoundType
  <2>4. new[k].conf = Dampened(k.rule, k.file) /\ new[k].triage = "none"
    BY DEF Found
  <2> HIDE DEF new
  <2>5. new[k].conf <= Dampened(k.rule, k.file)
    BY <2>2, <2>4, AtMostItself
  <2> HIDE DEF worded, quoted
  <2>6. k \in worded => Traced(k, new[k], shared'.imports)
    BY <1>3, <1>4, <2>4, <2>5 DEF Traced
  <2>7. k \in quoted => Traced(k, new[k], shared'.imports)
    BY <1>5 DEF Traced
  <2> QED BY <2>1, <2>3, <2>4, <2>6, <2>7
<1>7. DOMAIN new = worded \cup quoted
  OBVIOUS
<1>8. ASSUME ~repo.malformed, NEW rule \in {5, 8}, Gate(rule), Shown(rule) # {}
      PROVE  \E k \in DOMAIN findings' : k.rule = rule /\ k.by = "words"
  <2>1. PICK f \in Shown(rule) : \A g \in Shown(rule) : Outranks(rule, f, g)
    <3>1. Shown(rule) \in SUBSET Files
      BY DEF Shown
    <3> QED BY <1>8, <3>1, BestFile
  <2>2. reported(rule) = Shown(rule)
    BY <1>8 DEF Shown
  <2>3. Key(rule, f, "words").rule = rule /\ Key(rule, f, "words").file = f
        /\ Key(rule, f, "words").by = "words" /\ f \in Files
    BY <2>1 DEF Key, Shown
  <2> HIDE DEF reported
  <2>4. Key(rule, f, "words") \in worded
    BY <2>1, <2>2, <2>3
  <2>5. ~raises
    BY <1>8
  <2> HIDE DEF new, worded, quoted, raises
  <2>6. DOMAIN findings' = DOMAIN findings \cup DOMAIN new
    BY <1>1, <2>5 DEF Scanned, Report
  <2> QED BY <1>7, <2>3, <2>4, <2>6
<1> HIDE DEF new, worded, quoted, raises
<1>9. \A k \in DOMAIN findings' : Old(k) \/ New(k)
  BY <1>1, <1>2, <1>6, <1>7, NewOf
<1> QED BY <1>3, <1>8, <1>9
-----------------------------------------------------------------------------
(* The triage keeps the confidence of what it does not demote. *)
LEMMA Quietened ==
    ASSUME Typed, Triage
    PROVE  /\ DOMAIN findings' = DOMAIN findings
           /\ \A k \in DOMAIN findings :
                  /\ findings'[k] \in Finding
                  /\ findings'[k].suppressed = findings[k].suppressed
                  /\ findings'[k].conf <= findings[k].conf
                  /\ findings'[k].triage # "demoted" => findings'[k].conf = findings[k].conf
           /\ shared' \in SharedType /\ shared'.imports = shared.imports
<1>1. \A k \in DOMAIN findings : /\ findings[k] \in Finding
                                 /\ findings[k].conf <= findings[k].conf
  BY AtMostItself DEF Typed, Finding
<1>2. \/ findings' = findings
      \/ \E v \in [Reviewed -> {"none", "confirmed", "demoted"}] :
             findings' = [k \in DOMAIN findings |->
                 IF k \in Reviewed THEN AfterVerdict(findings[k], v[k]) ELSE findings[k]]
  BY DEF Triage
<1>3. /\ DOMAIN findings' = DOMAIN findings
      /\ \A k \in DOMAIN findings :
             /\ findings'[k] \in Finding
             /\ findings'[k].suppressed = findings[k].suppressed
             /\ findings'[k].conf <= findings[k].conf
             /\ findings'[k].triage # "demoted" => findings'[k].conf = findings[k].conf
  <2>1. CASE findings' = findings
    BY <1>1, <2>1
  <2>2. ASSUME NEW v \in [Reviewed -> {"none", "confirmed", "demoted"}],
               findings' = [k \in DOMAIN findings |->
                   IF k \in Reviewed THEN AfterVerdict(findings[k], v[k]) ELSE findings[k]]
        PROVE  /\ DOMAIN findings' = DOMAIN findings
               /\ \A k \in DOMAIN findings :
                      /\ findings'[k] \in Finding
                      /\ findings'[k].suppressed = findings[k].suppressed
                      /\ findings'[k].conf <= findings[k].conf
                      /\ findings'[k].triage # "demoted" => findings'[k].conf = findings[k].conf
    <3>1. ASSUME NEW k \in DOMAIN findings
          PROVE  /\ findings'[k] \in Finding
                 /\ findings'[k].suppressed = findings[k].suppressed
                 /\ findings'[k].conf <= findings[k].conf
                 /\ findings'[k].triage # "demoted" => findings'[k].conf = findings[k].conf
      <4>1. CASE k \in Reviewed
        <5>1. findings'[k] = AfterVerdict(findings[k], v[k])
          BY <2>2, <4>1
        <5>2. v[k] \in {"none", "confirmed", "demoted"} /\ findings[k] \in Finding
          BY <1>1, <4>1
        <5> QED BY <5>1, <5>2, AfterVerdictType
      <4>2. CASE k \notin Reviewed
        BY <1>1, <2>2, <4>2
      <4> QED BY <4>1, <4>2
    <3> QED BY <2>2, <3>1
  <2> QED BY <1>2, <2>1, <2>2
<1>4. /\ shared \in SharedType
      /\ \E t \in {"skipped", "failed", "ok"} : shared' = [shared EXCEPT !.triage = t]
  BY DEF Triage, Typed, SharedType
<1>5. shared' \in SharedType /\ shared'.imports = shared.imports
  BY <1>4 DEF SharedType
<1> QED BY <1>3, <1>5

(* Findings can be counted. *)
LEMMA KeysFinite == IsFiniteSet(Keys)
<1> DEFINE Parts == (Rules \X (Files \cup {WholeRepo})) \X (Signals \X (1..2))
           parts == [k \in Keys |-> <<<<k.rule, k.file>>, <<k.by, k.nth>>>>]
<1>1. IsFiniteSet(Rules) /\ IsFiniteSet(Files) /\ IsFiniteSet(1..2)
  <2>1. 1 \in Int /\ 2 \in Int /\ 10 \in Int /\ NumFiles \in Int
    BY SizeAssumption
  <2>2. IsFiniteSet(1..2) /\ IsFiniteSet(1..10) /\ IsFiniteSet(1..NumFiles)
    BY <2>1, FS_Interval
  <2> QED BY <2>2 DEF Rules, Files
<1>2. IsFiniteSet(Files \cup {WholeRepo})
  BY <1>1, FS_AddElement
<1>3. IsFiniteSet(Signals)
  <2>1. Signals = (((((({} \cup {"import"}) \cup {"manifest"}) \cup {"surface"})
                      \cup {"words"}) \cup {"strings"}) \cup {"marker"})
    BY DEF Signals
  <2> QED BY <2>1, FS_EmptySet, FS_AddElement
<1>4. IsFiniteSet(Rules \X (Files \cup {WholeRepo})) /\ IsFiniteSet(Signals \X (1..2))
  BY <1>1, <1>2, <1>3, FS_Product
<1>5. IsFiniteSet(Parts)
  BY <1>4, FS_Product
<1>6. parts \in [Keys -> Parts]
  BY DEF Keys
<1>7. \A k, n \in Keys : parts[k] = parts[n] => k = n
  BY DEF Keys
<1>8. parts \in Injection(Keys, Parts)
  BY <1>6, <1>7 DEF Injection, IsInjective
<1> QED BY <1>5, <1>8, FS_Injection

LEMMA Counted ==
    ASSUME Typed
    PROVE  Cardinality(Active) \in Nat /\ \A severity : Count(severity) \in Nat
<1>1. ASSUME NEW severity
      PROVE  Count(severity) \in Nat
  <2> DEFINE some == {k \in Active : Severity(k.rule) = severity}
  <2>1. some \in SUBSET Keys
    BY DEF Active, Typed
  <2> QED BY <2>1, KeysFinite, FS_Subset, FS_CardinalityType DEF Count
<1>2. Active \in SUBSET Keys
  BY DEF Active, Typed
<1> QED BY <1>1, <1>2, KeysFinite, FS_Subset, FS_CardinalityType

LEMMA PostureType ==
    ASSUME Typed
    PROVE  Category \in Minimal..Prohibited /\ Score \in 0..100
<1>1. Category \in Minimal..Prohibited
  BY DEF Category, Minimal, Limited, High, Prohibited
<1>2. \A severity : Count(severity) \in Nat
  BY Counted
<1> HIDE DEF Count
<1>3. Score \in 0..100
  BY <1>2 DEF Score
<1> QED BY <1>1, <1>3

LEMMA TypeInit == Init => TypeOK
  BY DEF Init, TypeOK, Minimal, Prohibited

LEMMA TypedIs == TypeOK => Typed /\ shared \in SharedType
  BY DEF TypeOK, Typed, SharedType

LEMMA BatchesTyped ==
    ASSUME Typed
    PROVE  /\ Batch \subseteq Pending /\ Pending \subseteq Capped
           /\ Capped \subseteq shared.surfaces /\ shared.surfaces \subseteq SurfaceType
  BY DEF Batch, Pending, Capped, First, Typed

LEMMA JudgedType ==
    ASSUME NEW s \in SurfaceType, NEW v \in Verdicts
    PROVE  Judged(s, v) \in SurfaceType /\ Judged(s, v).file = s.file
<1>1. v \in VerdictType
  BY LlmAssumption
<1> QED BY <1>1 DEF Judged, SurfaceType, VerdictType

(* The review and the surfaces it leaves. *)
LEMMA ReviewTyped ==
    ASSUME Typed, ReviewBatch
    PROVE  review' \subseteq SurfaceType
<1>1. CASE review' = review \cup Batch
  BY <1>1, BatchesTyped DEF Typed
<1>2. ASSUME NEW v \in [Batch -> Verdicts],
             review' = review \cup {Judged(s, v[s]) : s \in Batch}
      PROVE  review' \subseteq SurfaceType
  <2>1. ASSUME NEW s \in Batch
        PROVE  Judged(s, v[s]) \in SurfaceType
    BY BatchesTyped, JudgedType
  <2> QED BY <1>2, <2>1 DEF Typed
<1> QED BY <1>1, <1>2 DEF ReviewBatch

LEMMA SurfacesTyped ==
    ASSUME Typed, CollectSurfaces \/ EndReview
    PROVE  shared' \in SharedType /\ shared'.imports = shared.imports
<1>1. shared \in SharedType
  BY DEF Typed, SharedType
<1>2. CASE CollectSurfaces
  <2> DEFINE routes == {f \in Files : Readable(f) /\ repo.files[f].route}
             found  == {Surface(f) : f \in routes}
             unread == {f \in Files : ~Readable(f)}
  <2>1. found \subseteq SurfaceType /\ unread \subseteq Files
    BY SurfaceIs
  <2>2. shared' = [shared EXCEPT !.surfaces = found, !.unread = unread]
    BY <1>2 DEF CollectSurfaces
  <2> HIDE DEF found, unread
  <2> QED BY <1>1, <2>1, <2>2 DEF SharedType
<1>3. CASE EndReview
  <2> DEFINE left == {s \in review \cup (shared.surfaces \ Capped) : ~s.test}
  <2>1. left \subseteq SurfaceType
    BY DEF Typed
  <2>2. shared' = [shared EXCEPT !.surfaces = left]
    BY <1>3 DEF EndReview
  <2> HIDE DEF left
  <2> QED BY <1>1, <2>1, <2>2 DEF SharedType
<1> QED BY <1>2, <1>3

LEMMA OldOrNewTyped ==
    ASSUME Typed, \A k \in DOMAIN findings' : Old(k) \/ New(k)
    PROVE  DOMAIN findings' \subseteq Keys /\ \A k \in DOMAIN findings' : findings'[k] \in Finding
  BY DEF Old, New, Typed

(* The scanners, under the one condition they need. *)
Scanners == ImportScan \/ AstRules \/ ContentScan \/ FilePatterns \/ Cooccurrence

LEMMA ScannerNew ==
    ASSUME Typed, Noted(shared.imports), Scanners
    PROVE  /\ \A k \in DOMAIN findings' : Old(k) \/ New(k)
           /\ shared' \in SharedType
           /\ shared'.imports = shared.imports \/ (ImportScan /\ Noted(shared'.imports))
           /\ UNCHANGED <<repo, review, profile, posture>>
           /\ stage' \in {"surfaces", "content", "file_patterns", "cooccurrence", "triage"}
<1>1. shared \in SharedType
  BY DEF Typed, SharedType
<1>2. CASE ImportScan
  BY <1>2, NewImports DEF ImportScan
<1>3. CASE AstRules
  BY <1>1, <1>3, NewRules DEF AstRules
<1>4. CASE ContentScan
  BY <1>4, NewContent DEF ContentScan
<1>5. CASE FilePatterns
  BY <1>1, <1>5, NewMarkers DEF FilePatterns
<1>6. CASE Cooccurrence
  BY <1>1, <1>6, NewNear DEF Cooccurrence
<1> QED BY <1>2, <1>3, <1>4, <1>5, <1>6 DEF Scanners

LEMMA TypeStep == TypeOK /\ Noted(shared.imports) /\ [Next]_vars => TypeOK'
<1> SUFFICES ASSUME TypeOK, Noted(shared.imports), [Next]_vars PROVE TypeOK'
  OBVIOUS
<1>1. Typed /\ shared \in SharedType
  BY TypedIs
<1>2. CASE Scanners
  BY <1>1, <1>2, ScannerNew, OldOrNewTyped DEF TypeOK, SharedType
<1>3. CASE CollectSurfaces
  <2>1. shared' \in SharedType
    BY <1>1, <1>3, SurfacesTyped
  <2> QED BY <1>3, <2>1 DEF CollectSurfaces, TypeOK, SharedType
<1>4. CASE ReviewBatch
  <2>1. review' \subseteq SurfaceType
    BY <1>1, <1>4, ReviewTyped
  <2> QED BY <1>4, <2>1 DEF ReviewBatch, TypeOK
<1>5. CASE ReviewLost
  BY <1>5 DEF ReviewLost, TypeOK
<1>6. CASE EndReview
  <2>1. shared' \in SharedType
    BY <1>1, <1>6, SurfacesTyped
  <2> QED BY <1>6, <2>1 DEF EndReview, TypeOK, SharedType
<1>7. CASE Triage
  <2>1. /\ DOMAIN findings' = DOMAIN findings
        /\ \A k \in DOMAIN findings : findings'[k] \in Finding
        /\ shared' \in SharedType
    BY <1>1, <1>7, Quietened
  <2>2. stage' = "profile" /\ UNCHANGED <<repo, review, profile, posture>>
    BY <1>7 DEF Triage
  <2> QED BY <2>1, <2>2 DEF TypeOK, SharedType
<1>8. CASE BuildProfile
  <2>1. Cardinality(Active) \in Nat
    BY <1>1, Counted
  <2>2. profile' \in [hasDpia : BOOLEAN, hasModelCard : BOOLEAN, hasDataCard : BOOLEAN, total : Nat]
    <3>1. shared.pii \in BOOLEAN
      BY <1>1 DEF SharedType
    <3> QED BY <1>8, <2>1, <3>1 DEF BuildProfile
  <2> QED BY <1>8, <2>2 DEF BuildProfile, TypeOK
<1>9. CASE Classify
  <2>1. Category \in Minimal..Prohibited /\ Score \in 0..100
    BY <1>1, PostureType
  <2>2. posture' = [category |-> Category, score |-> Score]
    BY <1>9 DEF Classify
  <2> HIDE DEF Category, Score
  <2>3. posture'.category \in Minimal..Prohibited /\ posture'.score \in 0..100
    BY <2>1, <2>2
  <2>4. stage' = "done" /\ UNCHANGED <<repo, shared, review, findings, profile>>
    BY <1>9 DEF Classify
  <2> QED BY <2>3, <2>4 DEF TypeOK
<1>10. CASE UNCHANGED vars
  BY <1>10 DEF TypeOK, vars
<1> QED BY <1>2, <1>3, <1>4, <1>5, <1>6, <1>7, <1>8, <1>9, <1>10 DEF Next, Scanners
-----------------------------------------------------------------------------
Untriaged == {"imports", "surfaces", "review", "ast_rules", "content", "file_patterns",
              "cooccurrence", "triage"}

(* A rule by keywords that some file shows has given a finding. *)
Told == ContentRead /\ ~repo.malformed =>
            \A rule \in {5, 8} : Gate(rule) /\ Shown(rule) # {} => Worded(rule) # {}

(* The inductive invariant: the notes are of what is there, every finding  *)
(* can be traced, none is judged before the triage, and a prohibited       *)
(* posture has findings that gave it.                                      *)
Reasons ==
    /\ TypeOK
    /\ Noted(shared.imports)
    /\ stage = "imports" => DOMAIN findings = {}
    /\ \A k \in DOMAIN findings : Traced(k, findings[k], shared.imports)
    /\ stage \in Untriaged => \A k \in DOMAIN findings : findings[k].triage = "none"
    /\ Told
    /\ posture.category = Prohibited => stage = "done" /\ Triggers # {}

LEMMA ReasonsInit == Init => Reasons
<1> SUFFICES ASSUME Init PROVE Reasons
  OBVIOUS
<1>1. DOMAIN findings = {} /\ shared.imports = {} /\ posture.category = 0
  BY DEF Init
<1>2. Told
  BY DEF Init, Told, ContentRead
<1> QED BY <1>1, <1>2, TypeInit DEF Reasons, Noted, Prohibited

LEMMA NotedFrame ==
    ASSUME repo' = repo, Noted(shared'.imports)
    PROVE  Noted(shared.imports)'
  BY DEF Noted, Imports, Readable

LEMMA TracedFrame ==
    ASSUME repo' = repo, NEW k, Traced(k, findings'[k], shared'.imports)
    PROVE  Traced(k, findings[k], shared.imports)'
<1>1. /\ \A rule, f : Hits(rule, f)' = Hits(rule, f)
      /\ \A rule, f : IsSuppressed(rule, f)' = IsSuppressed(rule, f)
      /\ \A f : IsTestPath(f)' = IsTestPath(f)
  BY DEF Hits, Readable, IsSuppressed, IsTestPath
<1>2. \A rule, f, g : Outranks(rule, f, g)' <=> Outranks(rule, f, g)
  BY <1>1 DEF Outranks
<1>3. \A rule, f : Dampened(rule, f)' = Dampened(rule, f)
  BY DEF Dampened
<1> QED BY <1>1, <1>2, <1>3 DEF Traced

(* Findings may be added or judged: what was told of the keywords stays. *)
LEMMA ToldFrame ==
    ASSUME repo' = repo, shared'.imports = shared.imports, Told,
           DOMAIN findings \subseteq DOMAIN findings',
           ContentRead' => ContentRead
    PROVE  Told'
<1>1. \A rule : Shown(rule)' = Shown(rule) /\ Gate(rule)' = Gate(rule)
  BY DEF Shown, Hits, Readable, IsSuppressed, Gate, NotedRules
<1>2. \A rule : Worded(rule) # {} => Worded(rule)' # {}
  BY DEF Worded
<1> QED BY <1>1, <1>2 DEF Told

LEMMA ToldStep ==
    ASSUME Typed, Noted(shared.imports), Told, [Next]_vars
    PROVE  Told'
<1>1. CASE ContentScan
  <2>1. UNCHANGED repo /\ shared'.imports = shared.imports
    BY <1>1, NewContent DEF ContentScan
  <2>2. \A rule : Shown(rule)' = Shown(rule) /\ Gate(rule)' = Gate(rule)
    BY <2>1 DEF Shown, Hits, Readable, IsSuppressed, Gate, NotedRules
  <2>3. ~repo.malformed => \A rule \in {5, 8} : Gate(rule) /\ Shown(rule) # {}
                             => Worded(rule)' # {}
    BY <1>1, NewContent DEF Worded
  <2> QED BY <2>1, <2>2, <2>3 DEF Told
<1>2. CASE ImportScan \/ CollectSurfaces \/ ReviewBatch \/ ReviewLost \/ EndReview \/ AstRules
  <2>1. CASE ImportScan \/ CollectSurfaces
    BY <2>1 DEF ImportScan, CollectSurfaces, Told, ContentRead
  <2>2. CASE ReviewBatch \/ ReviewLost \/ EndReview
    BY <2>2 DEF ReviewBatch, ReviewLost, EndReview, Told, ContentRead
  <2>3. CASE AstRules
    BY <2>3 DEF AstRules, Told, ContentRead
  <2> QED BY <1>2, <2>1, <2>2, <2>3
<1>3. CASE FilePatterns \/ Cooccurrence
  <2>1. UNCHANGED <<repo, shared>> /\ ContentRead
    BY <1>3 DEF FilePatterns, Cooccurrence, ContentRead
  <2>2. \E raises, new : Scanned(raises, new)
    BY <1>3 DEF FilePatterns, Cooccurrence
  <2>3. DOMAIN findings \subseteq DOMAIN findings'
    BY <2>2 DEF Scanned, Report
  <2> QED BY <2>1, <2>3, ToldFrame
<1>4. CASE Triage
  <2>1. UNCHANGED repo /\ ContentRead
    BY <1>4 DEF Triage, ContentRead
  <2>2. DOMAIN findings' = DOMAIN findings /\ shared'.imports = shared.imports
    BY <1>4, Quietened
  <2> QED BY <2>1, <2>2, ToldFrame
<1>5. CASE BuildProfile \/ Classify
  <2>1. UNCHANGED <<repo, shared, findings>> /\ ContentRead
    BY <1>5 DEF BuildProfile, Classify, ContentRead
  <2> QED BY <2>1, ToldFrame
<1>6. CASE UNCHANGED vars
  <2>1. UNCHANGED <<repo, shared, findings, stage>>
    BY <1>6 DEF vars
  <2> QED BY <2>1, ToldFrame DEF ContentRead
<1> QED BY <1>1, <1>2, <1>3, <1>4, <1>5, <1>6 DEF Next

LEMMA ReasonsStep == Reasons /\ [Next]_vars => Reasons'
<1> SUFFICES ASSUME Reasons, [Next]_vars PROVE Reasons'
  OBVIOUS
<1>1. Typed /\ Noted(shared.imports) /\ TypeOK'
  BY TypedIs, TypeStep DEF Reasons
<1>2. repo' = repo
  BY SMTT(30) DEF Next, vars, ImportScan, CollectSurfaces, ReviewBatch, ReviewLost, EndReview, AstRules,
         ContentScan, FilePatterns, Cooccurrence, Triage, BuildProfile, Classify
<1>3. /\ Noted(shared'.imports)
      /\ stage' = "imports" => DOMAIN findings' = {}
      /\ \A k \in DOMAIN findings' : Traced(k, findings'[k], shared'.imports)
  <2>1. CASE Scanners
    <3>1. /\ \A k \in DOMAIN findings' : Old(k) \/ New(k)
          /\ shared'.imports = shared.imports \/ (ImportScan /\ Noted(shared'.imports))
          /\ stage' # "imports"
      BY <1>1, <2>1, ScannerNew
    <3>2. ImportScan => DOMAIN findings = {}
      BY DEF ImportScan, Reasons
    <3>3. ASSUME NEW k \in DOMAIN findings'
          PROVE  Traced(k, findings'[k], shared'.imports)
      <4>1. CASE New(k)
        BY <4>1 DEF New
      <4>2. CASE Old(k)
        <5>1. shared'.imports = shared.imports
          BY <3>1, <3>2, <4>2 DEF Old
        <5> QED BY <4>2, <5>1 DEF Old, Reasons
      <4> QED BY <3>1, <4>1, <4>2
    <3> QED BY <1>1, <3>1, <3>3
  <2>2. CASE CollectSurfaces \/ EndReview
    <3>1. shared'.imports = shared.imports
      BY <1>1, <2>2, SurfacesTyped
    <3>2. findings' = findings /\ stage' # "imports"
      BY <2>2 DEF CollectSurfaces, EndReview
    <3> QED BY <1>1, <3>1, <3>2 DEF Reasons
  <2>3. CASE Triage
    <3>1. /\ DOMAIN findings' = DOMAIN findings
          /\ \A k \in DOMAIN findings :
                 /\ findings'[k] \in Finding
                 /\ findings'[k].suppressed = findings[k].suppressed
                 /\ findings'[k].conf <= findings[k].conf
                 /\ findings'[k].triage # "demoted" => findings'[k].conf = findings[k].conf
          /\ shared'.imports = shared.imports
      BY <1>1, <2>3, Quietened
    <3>2. ASSUME NEW k \in DOMAIN findings
          PROVE  Traced(k, findings'[k], shared'.imports)
      <4>1. Traced(k, findings[k], shared.imports)
        BY DEF Reasons
      <4>2. ASSUME k.rule \in {8, 9}
            PROVE  findings'[k].conf <= Dampened(k.rule, k.file)
        <5>1. k.file \in Files /\ k.rule \in Rules
          BY <4>1, <4>2 DEF Traced, Rules
        <5>2. Dampened(k.rule, k.file) \in Confidence
          BY <1>1, <5>1, DampenedType
        <5>3. findings'[k].conf \in Confidence /\ findings[k].conf \in Confidence
          BY <1>1, <3>1 DEF Finding, Typed
        <5>4. findings[k].conf <= Dampened(k.rule, k.file)
          BY <4>1, <4>2 DEF Traced
        <5>5. findings'[k].conf <= findings[k].conf
          BY <3>1
        <5> QED BY <5>2, <5>3, <5>4, <5>5, AtMost
      <4>3. findings'[k].triage # "demoted" /\ k.by = "words"
               => findings'[k].conf = Dampened(k.rule, k.file)
        <5>1. findings[k].triage = "none"
          BY <2>3 DEF Reasons, Triage, Untriaged
        <5> QED BY <3>1, <4>1, <5>1 DEF Traced
      <4> QED BY <3>1, <4>1, <4>2, <4>3 DEF Traced
    <3>3. stage' # "imports"
      BY <2>3 DEF Triage
    <3> QED BY <1>1, <3>1, <3>2, <3>3
  <2>4. CASE ReviewBatch \/ ReviewLost \/ BuildProfile \/ Classify \/ UNCHANGED vars
    <3>1. UNCHANGED <<shared, findings>> /\ (stage' = "imports" => stage = "imports")
      BY <2>4 DEF ReviewBatch, ReviewLost, BuildProfile, Classify, vars
    <3> QED BY <1>1, <3>1 DEF Reasons
  <2> QED BY <2>1, <2>2, <2>3, <2>4 DEF Next, Scanners
<1>4. posture'.category = Prohibited => stage' = "done" /\ Triggers' # {}
  <2>1. CASE Classify
    <3> HIDE DEF Category, Score
    <3>1. posture'.category = Category /\ stage' = "done" /\ findings' = findings
      BY <2>1 DEF Classify
    <3>2. Category = Prohibited => Triggers # {}
      BY DEF Category, Prohibited, Minimal, Limited, High
    <3>3. Triggers' = Triggers
      BY <3>1 DEF Triggers, Active
    <3> QED BY <3>1, <3>2, <3>3
  <2>2. CASE UNCHANGED vars
    BY <2>2 DEF Reasons, vars, Triggers, Active
  <2>3. CASE Next /\ ~Classify
    <3> DEFINE Early == posture' = posture /\ stage # "done"
    <3>1. CollectSurfaces \/ ReviewBatch \/ ReviewLost \/ EndReview => Early
      BY DEF CollectSurfaces, ReviewBatch, ReviewLost, EndReview
    <3>2. ImportScan \/ AstRules => Early
      BY DEF ImportScan, AstRules
    <3>3. ContentScan \/ FilePatterns \/ Cooccurrence => Early
      BY DEF ContentScan, FilePatterns, Cooccurrence
    <3>4. Triage \/ BuildProfile => Early
      BY DEF Triage, BuildProfile
    <3>5. Early
      BY <2>3, <3>1, <3>2, <3>3, <3>4 DEF Next
    <3> QED BY <3>5 DEF Reasons
  <2> QED BY <2>1, <2>2, <2>3
<1>5. Noted(shared.imports)'
  BY <1>2, <1>3, NotedFrame
<1>6. \A k \in DOMAIN findings' : Traced(k, findings[k], shared.imports)'
  BY <1>2, <1>3, TracedFrame
<1>7. (stage = "imports" => DOMAIN findings = {})'
  BY <1>3
<1>8. (posture.category = Prohibited => stage = "done" /\ Triggers # {})'
  BY <1>4 DEF Prohibited
<1>9. Told'
  BY <1>1, ToldStep DEF Reasons
<1>10. (stage \in Untriaged => \A k \in DOMAIN findings : findings[k].triage = "none")'
  <2>1. CASE Scanners
    <3>1. stage \in Untriaged
      BY <2>1 DEF Scanners, ImportScan, AstRules, ContentScan, FilePatterns, Cooccurrence, Untriaged
    <3>2. \A k \in DOMAIN findings' : Old(k) \/ New(k)
      BY <1>1, <2>1, ScannerNew
    <3>3. \A k \in DOMAIN findings' : findings'[k].triage = "none"
      BY <3>1, <3>2 DEF Old, New, Reasons
    <3> QED BY <3>3
  <2>2. CASE CollectSurfaces \/ ReviewBatch \/ ReviewLost \/ EndReview
    <3>1. stage \in Untriaged /\ findings' = findings
      BY <2>2 DEF CollectSurfaces, ReviewBatch, ReviewLost, EndReview, Untriaged
    <3> QED BY <3>1 DEF Reasons
  <2>3. CASE Triage \/ BuildProfile \/ Classify
    <3>1. stage' \notin Untriaged
      BY <2>3 DEF Triage, BuildProfile, Classify, Untriaged
    <3> QED BY <3>1 DEF Untriaged
  <2>4. CASE UNCHANGED vars
    BY <2>4 DEF vars, Reasons, Untriaged
  <2> QED BY <2>1, <2>2, <2>3, <2>4 DEF Next, Scanners
<1> QED BY <1>1, <1>5, <1>6, <1>7, <1>8, <1>9, <1>10 DEF Reasons

(* Every reachable state of a scan has its types, for every repository of  *)
(* the shape considered (scan.py, risk_classifier.py): what an LLM pass or *)
(* a dampener makes of a confidence stays one, the score stays in 0..100.  *)
THEOREM TypeCorrect == Spec => []TypeOK
<1>1. Reasons => TypeOK
  BY DEF Reasons
<1> QED BY <1>1, ReasonsInit, ReasonsStep, PTL DEF Spec

LEMMA ReasonsAlways == Spec => []Reasons
  BY ReasonsInit, ReasonsStep, PTL DEF Spec

(* The choice of evidence (content_scanner.py:119-131): a keyword finding  *)
(* is there when some file shows the rule, points into the tests only when *)
(* all that do are tests, and its confidence is dampened by no other file. *)
THEOREM ProductionAlwaysOutranksTests == Spec => []ProductionOutranksTests
<1>1. Reasons => ProductionOutranksTests
  <2> SUFFICES ASSUME Reasons, NEW rule \in {5, 8}, NEW k \in Worded(rule)
               PROVE  /\ k.file \in Shown(rule)
                      /\ IsTestPath(k.file) => \A f \in Shown(rule) : IsTestPath(f)
                      /\ findings[k].triage # "demoted"
                            => findings[k].conf = Dampened(rule, k.file)
    BY DEF ProductionOutranksTests, Reasons, Told
  <2>1. /\ k \in DOMAIN findings /\ k.rule = rule /\ k.by = "words"
        /\ Traced(k, findings[k], shared.imports)
    BY DEF Worded, Reasons
  <2>2. k.file \in Shown(rule) /\ \A f \in Shown(rule) : Outranks(rule, k.file, f)
    BY <2>1 DEF Traced, Shown
  <2>3. findings[k].triage # "demoted" => findings[k].conf = Dampened(rule, k.file)
    BY <2>1 DEF Traced
  <2>4. IsTestPath(k.file) => \A f \in Shown(rule) : IsTestPath(f)
    BY <2>2 DEF Outranks
  <2> QED BY <2>2, <2>3, <2>4
<1> QED BY <1>1, ReasonsAlways, PTL

(* The gates (file_pattern_scanner.py:38, content_scanner.py): whatever the *)
(* scanners that raise leave behind, a finding about the use of AI implies  *)
(* an import or a declaration of a library.                                 *)
THEOREM OnlyEverWhereAiIsUsed == Spec => []OnlyWhereAiIsUsed
<1>1. Reasons => OnlyWhereAiIsUsed
  <2> SUFFICES ASSUME Reasons, NEW k \in DOMAIN findings, k.rule \in {4, 5, 6, 9}
               PROVE  \E f \in Files, rule \in Libraries :
                          rule \in Imports(f) \/ repo.files[f].declares[rule] > 0
    BY DEF OnlyWhereAiIsUsed
  <2>1. PICK n \in shared.imports : TRUE
    BY DEF Reasons, Traced
  <2> QED BY <2>1 DEF Reasons, Noted
<1> QED BY <1>1, ReasonsAlways, PTL

(* The prohibited category (risk_classifier.py:47): however the replies of *)
(* the LLM fall, it rests on evidence in a place no dampener takes below   *)
(* the threshold, in a file whose rule is not suppressed.                  *)
THEOREM ProhibitedAlwaysNeedsDeployment == Spec => []ProhibitedNeedsDeployment
<1>1. Reasons => ProhibitedNeedsDeployment
  <2> SUFFICES ASSUME Reasons, posture.category = Prohibited
               PROVE  \E f \in Files :
                          /\ repo.files[f].place \notin {"tests", "docs", "examples"}
                          /\ \/ Hits(8, f) > 0 /\ ~IsSuppressed(8, f)
                             \/ /\ repo.files[f].public /\ ~IsSuppressed(9, f)
                                /\ \E k \in shared.imports : k.rule = 1 /\ k.file = f
    BY DEF ProhibitedNeedsDeployment
  <2>1. PICK k \in Active : k.rule \in {8, 9} /\ findings[k].conf >= 500
    BY DEF Reasons, Triggers
  <2>2. /\ k \in DOMAIN findings /\ ~findings[k].suppressed
        /\ Traced(k, findings[k], shared.imports) /\ Typed
    BY TypedIs DEF Active, Reasons
  <2>3. k.file \in Files /\ k.rule \in Rules
    BY <2>1, <2>2 DEF Traced, Rules
  <2>4. repo.files[k.file].place \notin {"tests", "docs", "examples"}
    <3> DEFINE top == Dampened(k.rule, k.file)
               conf == findings[k].conf
    <3>1. top \in Confidence
      BY <2>2, <2>3, DampenedType
    <3>2. repo.files[k.file].place \in {"tests", "docs", "examples"} => top <= 425
      BY <2>1, <2>2, <2>3, DampenedType
    <3>3. conf \in Confidence /\ conf >= 500 /\ conf <= top
      BY <2>1, <2>2 DEF Typed, Finding, Traced
    <3> HIDE DEF top, conf
    <3> QED BY <3>1, <3>2, <3>3 DEF Confidence
  <2>5. CASE k.rule = 8
    BY <2>2, <2>3, <2>4, <2>5 DEF Traced
  <2>6. CASE k.rule = 9
    BY <2>2, <2>3, <2>4, <2>6 DEF Traced
  <2> QED BY <2>1, <2>5, <2>6
<1> QED BY <1>1, ReasonsAlways, PTL

(* The triage (finding_triage.py:84): whatever the LLM says of whichever   *)
(* findings, the category they give afterwards is no worse than before.    *)
THEOREM TriageOnlyEverQuietens == Spec => TriageOnlyQuietens
<1>1. ASSUME Reasons, [Next]_vars
      PROVE  [stage = "triage" => /\ DOMAIN findings' = DOMAIN findings
                                  /\ Category' <= Category]_vars
  <2> SUFFICES ASSUME stage = "triage", Next
               PROVE  DOMAIN findings' = DOMAIN findings /\ Category' <= Category
    BY <1>1
  <2>1. Triage /\ Typed
    BY <1>1, TypedIs DEF Reasons, Next, ImportScan, CollectSurfaces, ReviewBatch, ReviewLost,
                         EndReview, AstRules, ContentScan, FilePatterns, Cooccurrence,
                         BuildProfile, Classify
  <2>2. /\ DOMAIN findings' = DOMAIN findings
        /\ \A k \in DOMAIN findings :
               /\ findings'[k] \in Finding /\ findings[k] \in Finding
               /\ findings'[k].suppressed = findings[k].suppressed
               /\ findings'[k].conf <= findings[k].conf
    BY <2>1, Quietened DEF Typed
  <2>3. Active' = Active
    BY <2>2 DEF Active
  <2>4. \A severity : Count(severity)' = Count(severity)
    BY <2>3 DEF Count
  <2>5. Triggers' \subseteq Triggers
    <3> SUFFICES ASSUME NEW k \in Active, k.rule \in {8, 9}, findings'[k].conf >= 500
                 PROVE  findings[k].conf >= 500
      BY <2>3 DEF Triggers
    <3> DEFINE was == findings[k].conf
               is  == findings'[k].conf
    <3>1. was \in Confidence /\ is \in Confidence /\ is <= was /\ is >= 500
      BY <2>2 DEF Active, Finding
    <3> HIDE DEF was, is
    <3>2. was >= 500
      BY <3>1, AtLeast
    <3> QED BY <3>2 DEF was
  <2>6. Category' <= Category
    <3> HIDE DEF Count, Triggers
    <3> QED BY <2>4, <2>5 DEF Category, Minimal, Limited, High, Prohibited
  <2> QED BY <2>2, <2>6
<1> QED BY <1>1, ReasonsAlways, PTL DEF Spec, TriageOnlyQuietens
-----------------------------------------------------------------------------
(* The review: one surface for each route, one verdict for each surface.   *)
OneEach(surfaces) == \A s, t \in surfaces : s.file = t.file => s = t

HasRoute(f) == Readable(f) /\ repo.files[f].route

Accounted ==
    /\ stage \in {"imports", "surfaces"} => review = {}
    /\ stage = "review" =>
           /\ OneEach(shared.surfaces) /\ OneEach(review)
           /\ \A f \in Files : HasRoute(f) => \E s \in shared.surfaces : s.file = f
           /\ \A s \in shared.surfaces : ~s.test
           /\ \A r \in review : \E s \in Capped : s.file = r.file
    /\ EveryRouteAccountedFor

(* A set with one surface for a file has that one. *)
LEMMA JustOne ==
    ASSUME NEW surfaces, OneEach(surfaces), NEW s \in surfaces
    PROVE  Cardinality({t \in surfaces : t.file = s.file}) = 1
<1>1. {t \in surfaces : t.file = s.file} = {s}
  BY DEF OneEach
<1> QED BY <1>1, FS_Singleton

LEMMA AccountedInit == Init => Accounted
  BY DEF Init, Accounted, EveryRouteAccountedFor

LEMMA CollectAccounted ==
    ASSUME TypeOK, Accounted, CollectSurfaces
    PROVE  Accounted'
<1> DEFINE routes == {f \in Files : Readable(f) /\ repo.files[f].route}
<1>1. shared \in SharedType /\ Typed
  BY TypedIs
<1>2. shared'.surfaces = {Surface(f) : f \in routes} /\ repo' = repo /\ review' = {}
  BY <1>1 DEF CollectSurfaces, SharedType, Accounted
<1>3. \A f \in Files : HasRoute(f)' = HasRoute(f)
  BY <1>2 DEF HasRoute, Readable
<1>4. CASE routes = {}
  <2>1. stage' = "ast_rules" /\ \A f \in Files : ~HasRoute(f)
    BY <1>4 DEF CollectSurfaces, HasRoute
  <2> QED BY <1>2, <1>3, <2>1 DEF Accounted, EveryRouteAccountedFor, HasRoute
<1>5. CASE routes # {}
  <2>1. stage' = "review"
    BY <1>5 DEF CollectSurfaces
  <2>2. \A f \in routes : Surface(f).file = f /\ ~Surface(f).test
    BY <1>1, SurfaceIs
  <2>3. /\ OneEach(shared'.surfaces) /\ OneEach(review')
        /\ \A f \in Files : HasRoute(f) => \E s \in shared'.surfaces : s.file = f
        /\ \A s \in shared'.surfaces : ~s.test
    BY <1>2, <2>2 DEF OneEach, HasRoute
  <2> QED BY <1>2, <1>3, <2>1, <2>3 DEF Accounted, EveryRouteAccountedFor, OneEach
<1> QED BY <1>4, <1>5

LEMMA ReviewAccounted ==
    ASSUME TypeOK, Accounted, ReviewBatch
    PROVE  Accounted'
<1>1. /\ stage = "review" /\ stage' = "review" /\ UNCHANGED <<repo, shared>> /\ Typed
  BY TypedIs DEF ReviewBatch
<1>2. /\ OneEach(shared.surfaces) /\ OneEach(review)
      /\ \A r \in review : \E s \in Capped : s.file = r.file
  BY <1>1 DEF Accounted
<1>3. Capped' = Capped /\ \A f \in Files : HasRoute(f)' = HasRoute(f)
  BY <1>1 DEF Capped, First, HasRoute, Readable
(* Each surface of the batch comes back once, under its own file. *)
<1>4. PICK back : /\ review' = review \cup {back[s] : s \in Batch}
                  /\ \A s \in Batch : back[s].file = s.file
  <2>1. CASE review' = review \cup Batch
    <3> DEFINE back == [s \in Batch |-> s]
    <3>1. review' = review \cup {back[s] : s \in Batch} /\ \A s \in Batch : back[s].file = s.file
      BY <2>1
    <3> QED BY <3>1
  <2>2. ASSUME NEW v \in [Batch -> Verdicts],
               review' = review \cup {Judged(s, v[s]) : s \in Batch}
        PROVE  \E back : /\ review' = review \cup {back[s] : s \in Batch}
                         /\ \A s \in Batch : back[s].file = s.file
    <3> DEFINE back == [s \in Batch |-> Judged(s, v[s])]
    <3>1. \A s \in Batch : Judged(s, v[s]).file = s.file
      BY DEF Judged
    <3>2. review' = review \cup {back[s] : s \in Batch} /\ \A s \in Batch : back[s].file = s.file
      BY <2>2, <3>1
    <3> QED BY <3>2
  <2> QED BY <2>1, <2>2 DEF ReviewBatch
<1>5. \A s \in Batch : s \in Capped /\ s \in shared.surfaces /\ \A r \in review : r.file # s.file
  BY <1>1, BatchesTyped DEF Pending
<1>6. OneEach(review')
  <2> SUFFICES ASSUME NEW s \in review', NEW t \in review', s.file = t.file
               PROVE  s = t
    BY DEF OneEach
  <2>1. CASE s \in review /\ t \in review
    BY <1>2, <2>1 DEF OneEach
  <2>2. CASE s \notin review /\ t \notin review
    <3>1. PICK a \in Batch, b \in Batch : s = back[a] /\ t = back[b]
      BY <1>4, <2>2
    <3> QED BY <1>2, <1>4, <1>5, <3>1 DEF OneEach
  <2>3. CASE s \in review /\ t \notin review
    BY <1>4, <1>5, <2>3
  <2>4. CASE s \notin review /\ t \in review
    BY <1>4, <1>5, <2>4
  <2> QED BY <2>1, <2>2, <2>3, <2>4
<1>7. \A r \in review' : \E s \in Capped : s.file = r.file
  BY <1>2, <1>4, <1>5
<1> QED BY <1>1, <1>3, <1>6, <1>7 DEF Accounted, EveryRouteAccountedFor

(* The condition of the property for one file. *)
Judgement(f, surfaces, reviewed) ==
    LET At(set) == {s \in set : s.file = f}
    IN  \/ Cardinality(At(surfaces)) = 1
        \/ /\ At(surfaces) = {}
           /\ Cardinality(At(reviewed)) = 1
           /\ \A s \in At(reviewed) : s.test

LEMMA AccountedBy ==
    ASSUME repo' = repo, stage' \notin {"imports", "surfaces", "review"},
           \A f \in Files : HasRoute(f) => Judgement(f, shared'.surfaces, review')
    PROVE  Accounted'
  BY DEF Accounted, EveryRouteAccountedFor, HasRoute, Readable, Judgement

LEMMA LostAccounted ==
    ASSUME TypeOK, Accounted, ReviewLost
    PROVE  Accounted'
<1>1. stage = "review" /\ stage' = "ast_rules" /\ UNCHANGED <<repo, shared>>
  BY DEF ReviewLost
<1>2. ASSUME NEW f \in Files, HasRoute(f)
      PROVE  Judgement(f, shared'.surfaces, review')
  <2>1. PICK s \in shared.surfaces : s.file = f /\ OneEach(shared.surfaces)
    BY <1>1, <1>2 DEF Accounted
  <2> QED BY <1>1, <2>1, JustOne DEF Judgement
<1> QED BY <1>1, <1>2, AccountedBy

LEMMA EndAccounted ==
    ASSUME TypeOK, Accounted, EndReview
    PROVE  Accounted'
<1> DEFINE all  == review \cup (shared.surfaces \ Capped)
           left == {s \in all : ~s.test}
<1>1. /\ stage = "review" /\ stage' = "ast_rules" /\ UNCHANGED <<repo, review>> /\ Typed
      /\ Pending = {}
  BY TypedIs DEF EndReview
<1>2. shared'.surfaces = left
  <2>1. shared \in SharedType /\ shared' = [shared EXCEPT !.surfaces = left]
    BY TypedIs DEF EndReview
  <2> HIDE DEF left
  <2> QED BY <2>1 DEF SharedType
<1>3. /\ OneEach(shared.surfaces) /\ OneEach(review)
      /\ \A f \in Files : HasRoute(f) => \E s \in shared.surfaces : s.file = f
      /\ \A s \in shared.surfaces : ~s.test
      /\ \A r \in review : \E s \in Capped : s.file = r.file
      /\ Capped \subseteq shared.surfaces
  BY <1>1, BatchesTyped DEF Accounted
<1>4. OneEach(all)
  BY <1>3 DEF OneEach
<1>5. ASSUME NEW f \in Files, HasRoute(f)
      PROVE  Judgement(f, left, review)
  <2>1. PICK s \in shared.surfaces : s.file = f
    BY <1>3, <1>5
  <2>2. CASE s \notin Capped
    <3>1. s \in left /\ OneEach(left)
      BY <1>3, <1>4, <2>2 DEF OneEach
    <3> HIDE DEF left
    <3> QED BY <2>1, <3>1, JustOne DEF Judgement
  <2>3. CASE s \in Capped
    <3>1. PICK r \in review : r.file = f
      BY <1>1, <2>1, <2>3 DEF Pending
    <3>2. \A t \in all : t.file = f => t = r
      BY <1>4, <3>1 DEF OneEach
    <3>3. CASE ~r.test
      <4>1. r \in left /\ OneEach(left)
        BY <1>4, <3>1, <3>3 DEF OneEach
      <4> HIDE DEF left
      <4> QED BY <3>1, <4>1, JustOne DEF Judgement
    <3>4. CASE r.test
      <4>1. {t \in left : t.file = f} = {}
        BY <3>2, <3>4
      <4>2. Cardinality({t \in review : t.file = f}) = 1
        BY <1>3, <3>1, JustOne
      <4>3. \A t \in review : t.file = f => t.test
        BY <3>2, <3>4
      <4> HIDE DEF left
      <4> QED BY <4>1, <4>2, <4>3 DEF Judgement
    <3> QED BY <3>3, <3>4
  <2> QED BY <2>2, <2>3
<1> HIDE DEF left
<1> QED BY <1>1, <1>2, <1>5, AccountedBy

LEMMA AccountedStep == Reasons /\ Accounted /\ [Next]_vars => Accounted'
<1> SUFFICES ASSUME Reasons, Accounted, [Next]_vars PROVE Accounted'
  OBVIOUS
<1>1. TypeOK /\ Typed /\ Noted(shared.imports) /\ shared \in SharedType
  BY TypedIs DEF Reasons
<1>2. CASE CollectSurfaces \/ ReviewBatch \/ ReviewLost \/ EndReview
  BY <1>1, <1>2, CollectAccounted, ReviewAccounted, LostAccounted, EndAccounted
<1>3. CASE ImportScan
  <2>1. stage = "imports" /\ stage' = "surfaces" /\ review' = review
    BY <1>3 DEF ImportScan
  <2> QED BY <2>1 DEF Accounted, EveryRouteAccountedFor
(* The others leave the routes, the surfaces and the review alone. *)
<1>4. ASSUME AstRules \/ ContentScan \/ FilePatterns \/ Cooccurrence \/ Triage
             \/ BuildProfile \/ Classify
      PROVE  /\ stage \notin {"imports", "surfaces", "review"}
             /\ stage' \notin {"imports", "surfaces", "review"}
             /\ UNCHANGED <<repo, review>> /\ shared'.surfaces = shared.surfaces
  <2>1. CASE AstRules \/ FilePatterns \/ Cooccurrence
    BY <2>1 DEF AstRules, FilePatterns, Cooccurrence
  <2>2. CASE BuildProfile \/ Classify
    BY <2>2 DEF BuildProfile, Classify
  <2>3. CASE ContentScan
    <3>1. /\ stage = "content" /\ stage' = "file_patterns" /\ UNCHANGED <<repo, review>>
          /\ \E b : shared' = [shared EXCEPT !.pii = b]
      BY <2>3 DEF ContentScan
    <3> QED BY <1>1, <3>1 DEF SharedType
  <2>4. CASE Triage
    <3>1. /\ stage = "triage" /\ stage' = "profile" /\ UNCHANGED <<repo, review>>
          /\ \E t : shared' = [shared EXCEPT !.triage = t]
      BY <2>4 DEF Triage
    <3> QED BY <1>1, <3>1 DEF SharedType
  <2> QED BY <1>4, <2>1, <2>2, <2>3, <2>4
<1>5. CASE AstRules \/ ContentScan \/ FilePatterns \/ Cooccurrence \/ Triage
           \/ BuildProfile \/ Classify
  <2>1. \A f \in Files : HasRoute(f) => Judgement(f, shared.surfaces, review)
    BY <1>4, <1>5 DEF Accounted, EveryRouteAccountedFor, HasRoute, Judgement
  <2> QED BY <1>4, <1>5, <2>1, AccountedBy
<1>6. CASE UNCHANGED vars
  BY <1>6 DEF Accounted, EveryRouteAccountedFor, OneEach, HasRoute, Readable, Capped, First, vars
<1> QED BY <1>2, <1>3, <1>5, <1>6 DEF Next

(* The review of the routes (llm_ast_reviewer.py, scan.py): at any cap and *)
(* batch size, whichever replies are lost, short or garbled, a route comes *)
(* to the rules once, or the reviewer called it a test.                    *)
THEOREM EveryRouteAlwaysAccountedFor == Spec => []EveryRouteAccountedFor
<1>1. Accounted => EveryRouteAccountedFor
  BY DEF Accounted
<1> QED BY <1>1, AccountedInit, AccountedStep, ReasonsAlways, PTL DEF Spec
=============================================================================
