--------------------------- MODULE RetrievalProofs ---------------------------
(***************************************************************************)
(* Proofs about Retrieval, for every knowledge base, question and reply:   *)
(* confidence is earned by retrieval, /health tells the truth, the filter  *)
(* holds where it is applied, and more agreement never ranks lower.        *)
(***************************************************************************)
EXTENDS Retrieval, FiniteSetTheorems, SequenceTheorems, WellFoundedInduction, TLAPS

\* What the step that scores an answer relies on: the results have a number.
Countable ==
    /\ req.top_k \in Nat
    /\ pc = "reply" => IsFiniteSet(DOMAIN answer.results)

GroundedInv == Countable /\ HighIsGrounded

\* What /health having said healthy means until something changes.
HealthInv == health = "healthy" => store = "ready" /\ Queryable

\* The first n elements are finitely many.
LEMMA FirstIsFinite ==
    ASSUME NEW s, NEW n \in Nat
    PROVE  IsFiniteSet(DOMAIN First(s, n))
<1>1. DOMAIN First(s, n) \subseteq 1..n  BY DEF First
<1>2. IsFiniteSet(1..n)  BY FS_Interval
<1> QED  BY <1>1, <1>2, FS_Subset

LEMMA TopKIsNat == ASSUME req.top_k \in Nat PROVE TopK \in Nat
BY RequestAssumption DEF TopK, Given

\* What an answer cites is finite, whatever the LLM named.
LEMMA CitedIsFinite ==
    ASSUME NEW names, names \subseteq Articles \cup Invented, NEW results
    PROVE  IsFiniteSet(Citations(names, results))
<1>1. Citations(names, results) \subseteq Articles \cup Invented  BY DEF Citations
<1>2. IsFiniteSet(Entities \cup Invented)  BY EntityAssumption, FS_Union
<1> QED  BY <1>1, <1>2, EntityAssumption, FS_Subset

\* HIGH takes a quarter of the citations verified: results and agreement alone
\* give at most 30 of the 35 points.
LEMMA HighNeedsCitations ==
    ASSUME NEW n \in Nat, NEW both \in Nat, NEW verified \in Nat, NEW cited \in Nat,
           "HIGH" \in Confidences(n, both, verified, cited)
    PROVE  4 * verified >= cited /\ verified > 0
<1> DEFINE r == IF n < 5 THEN n ELSE 5
           b == IF both < 3 THEN both ELSE 3
           total == AtLeast(1, cited)
<1>1. total \in Nat /\ total >= 1 /\ total >= cited  BY DEF AtLeast
<1>2. r \in 0..5 /\ b \in 0..3  OBVIOUS
<1>3. 3 * r * total + 5 * b * total + 20 * verified >= 35 * total  BY DEF Confidences
<1>4. 3 * r * total <= 15 * total
  <2>1. r = 0 \/ r = 1 \/ r = 2 \/ r = 3 \/ r = 4 \/ r = 5  BY <1>2
  <2> HIDE DEF r, total
  <2> QED  BY <2>1, <1>1
<1>5. 5 * b * total <= 15 * total
  <2>1. b = 0 \/ b = 1 \/ b = 2 \/ b = 3  BY <1>2
  <2> HIDE DEF b, total
  <2> QED  BY <2>1, <1>1
<1>6. 20 * verified >= 5 * total
  <2>1. 3 * r * total \in Int /\ 5 * b * total \in Int  BY <1>1, <1>2
  <2> DEFINE x == 3 * r * total
             y == 5 * b * total
  <2> HIDE DEF r, b, total, x, y
  <2>2. x \in Int /\ y \in Int /\ x <= 15 * total /\ y <= 15 * total /\ x + y + 20 * verified >= 35 * total
    BY <2>1, <1>3, <1>4, <1>5 DEF x, y
  <2> QED  BY <2>2, <1>1
<1> HIDE DEF r, b, total
<1> QED  BY <1>1, <1>6

-----------------------------------------------------------------------------
(* HighIsGrounded                                                          *)

LEMMA LowIsGrounded == ASSUME answer'.confidence = "LOW" PROVE HighIsGrounded'
BY DEF HighIsGrounded

LEMMA ReasonedIsGrounded ==
    ASSUME NEW names, names \subseteq Articles \cup Invented, NEW type,
           IsFiniteSet(DOMAIN answer.results), Reasoned(names, type)
    PROVE  HighIsGrounded' /\ pc' = "done"
<1> DEFINE results == answer.results
           cited == Citations(names, results)
           verified == cited \cap Ids(results)
           matched == {i \in DOMAIN results : {"vector", "graph"} \subseteq results[i].arms}
<1>1. PICK c \in Confidences(Cardinality(DOMAIN results), Cardinality(matched),
                             Cardinality(verified), Cardinality(cited)) :
          End([NoAnswer EXCEPT !.status = 200, !.at = pc, !.results = results, !.cited = cited,
                               !.verified = verified, !.confidence = c, !.type = type])
  BY DEF Reasoned
<1>2. answer'.confidence = c /\ answer'.cited = cited /\ answer'.verified = verified /\ pc' = "done"
  BY <1>1 DEF End, NoAnswer
<1>3. Cardinality(cited) \in Nat /\ IsFiniteSet(verified)
  BY CitedIsFinite, FS_CardinalityType, FS_Subset
<1>4. Cardinality(verified) \in Nat /\ (verified = {} => Cardinality(verified) = 0)
  BY <1>3, FS_CardinalityType, FS_EmptySet
<1>5. Cardinality(DOMAIN results) \in Nat /\ Cardinality(matched) \in Nat
  <2>1. IsFiniteSet(matched)  BY FS_Subset
  <2> QED  BY <2>1, FS_CardinalityType
<1>6. ASSUME c = "HIGH" PROVE 4 * Cardinality(verified) >= Cardinality(cited) /\ Cardinality(verified) > 0
  BY <1>1, <1>3, <1>4, <1>5, <1>6, HighNeedsCitations
<1> HIDE DEF cited, verified
<1> QED  BY <1>2, <1>4, <1>6 DEF HighIsGrounded

LEMMA InitGrounded == Init => GroundedInv
BY DEF Init, GroundedInv, Countable, HighIsGrounded, NoRequest, NoAnswer

LEMMA AskGrounded ==
    ASSUME GroundedInv, NEW r, r.top_k \in Nat, Accept(r)
    PROVE  GroundedInv'
<1>1. req'.top_k \in Nat /\ pc' # "reply"  BY DEF Accept, Fails, End
<1>2. UNCHANGED answer \/ answer'.confidence = "LOW"  BY DEF Accept, Fails, End, NoAnswer
<1> QED  BY <1>1, <1>2, LowIsGrounded DEF GroundedInv, Countable, HighIsGrounded

LEMMA StepGrounded == ASSUME GroundedInv, [Next]_vars PROVE GroundedInv'
<1> USE DEF GroundedInv
<1>1. CASE AskQuestion
  <2>1. PICK kind \in {"search", "reason", "vector"}, q \in Questions, regs \in SUBSET Regulations,
              k \in TopKs, h \in Hops :
            Accept([NoRequest EXCEPT !.kind = kind, !.question = q, !.regulations = regs, !.top_k = k, !.hops = h])
    BY <1>1, Zenon DEF AskQuestion
  <2> QED  BY <2>1, AskGrounded, RequestAssumption DEF NoRequest
<1>2. CASE AskGraph
  <2>1. CASE \E t \in Terms : Accept([NoRequest EXCEPT !.kind = "resolve", !.terms = t])
    BY <2>1, AskGrounded DEF NoRequest
  <2>2. ASSUME NEW kind \in {"traverse", "ids"}, NEW t \in Terms, NEW types \in TypeFilters,
               NEW h \in Hops \ {0}, NEW n \in PathCounts,
               Accept([NoRequest EXCEPT !.kind = kind, !.terms = t, !.types = types, !.hops = h, !.limit = n])
        PROVE  GroundedInv'
    BY <2>2, AskGrounded DEF NoRequest
  <2> QED  BY <1>2, <2>1, <2>2, Zenon DEF AskGraph
<1>3. CASE Embed
  <2>1. UNCHANGED req /\ pc' # "reply" /\ (UNCHANGED answer \/ answer'.confidence = "LOW")
    BY <1>3 DEF Embed, Fails, End, NoAnswer
  <2> QED  BY <2>1, LowIsGrounded DEF Countable, HighIsGrounded
<1>4. CASE SearchVectors
  <2>1. UNCHANGED req /\ pc' # "reply" /\ (UNCHANGED answer \/ answer'.confidence = "LOW")
    BY <1>4 DEF SearchVectors, Fails, End, NoAnswer
  <2> QED  BY <2>1, LowIsGrounded DEF Countable, HighIsGrounded
<1>5. CASE Walk
  BY <1>5 DEF Walk, Countable, HighIsGrounded
<1>6. CASE SearchNames
  BY <1>6 DEF SearchNames, Countable, HighIsGrounded
<1>7. CASE Expand
  <2>1. UNCHANGED req /\ pc' # "reply" /\ (UNCHANGED answer \/ answer'.confidence = "LOW")
    BY <1>7 DEF Expand, Fails, End, NoAnswer
  <2> QED  BY <2>1, LowIsGrounded DEF Countable, HighIsGrounded
<1>8. CASE Fuse
  <2>1. UNCHANGED req /\ answer'.confidence = "LOW" /\ answer'.results = First(Fusion(Lists), TopK)
    BY <1>8 DEF Fuse, End, NoAnswer
  <2> QED  BY <2>1, TopKIsNat, FirstIsFinite, LowIsGrounded DEF Countable
<1>9. CASE Generate
  <2>1. IsFiniteSet(DOMAIN answer.results) /\ UNCHANGED req  BY <1>9 DEF Generate, Countable
  <2>2. HighIsGrounded' /\ pc' = "done"
    <3>1. CASE \E r \in Replies : Reasoned(r.names, AnswerType(req.question.intent, r.says))
      BY <2>1, <3>1, ReasonedIsGrounded, ReplyAssumption
    <3>2. CASE Reasoned({}, "general")
      BY <2>1, <3>2, ReasonedIsGrounded
    <3> QED  BY <1>9, <3>1, <3>2 DEF Generate
  <2> QED  BY <2>1, <2>2 DEF Countable
<1>10. CASE Resolve
  <2>1. UNCHANGED req /\ pc' # "reply" /\ (UNCHANGED answer \/ answer'.confidence = "LOW")
    BY <1>10 DEF Resolve, Fails, End, NoAnswer
  <2> QED  BY <2>1, LowIsGrounded DEF Countable, HighIsGrounded
<1>11. CASE Follow
  <2>1. UNCHANGED req /\ pc' # "reply" /\ (UNCHANGED answer \/ answer'.confidence = "LOW")
    BY <1>11 DEF Follow, End, NoAnswer
  <2> QED  BY <2>1, LowIsGrounded DEF Countable, HighIsGrounded
<1>12. CASE Respond \/ Restart
  BY <1>12 DEF Respond, Restart, Forget, NoRequest, NoAnswer, Countable, HighIsGrounded
<1>13. CASE Health \/ Change \/ Outage \/ Back \/ UNCHANGED vars
  BY <1>13 DEF Health, Change, Outage, Back, Serving, vars, Countable, HighIsGrounded
<1> QED
  BY <1>1, <1>2, <1>3, <1>4, <1>5, <1>6, <1>7, <1>8, <1>9, <1>10, <1>11, <1>12, <1>13 DEF Next

\* A HIGH answer always has a quarter of its citations, and at least one, among
\* the results it was given.
THEOREM HighAlwaysGrounded == Spec => []HighIsGrounded
<1>1. GroundedInv => HighIsGrounded  BY DEF GroundedInv
<1> QED  BY <1>1, InitGrounded, StepGrounded, PTL DEF Spec

-----------------------------------------------------------------------------
(* HealthyMeansAnswering                                                   *)

LEMMA FailsMeans ==
    ASSUME NEW status, Fails(status) PROVE answer'.status = status /\ answer'.at = pc
BY DEF Fails, End, NoAnswer

\* How each step that answers changes the status.
LEMMA SearchStatus == ASSUME SearchVectors PROVE ~Queryable \/ UNCHANGED answer \/ answer'.status = 200
BY DEF SearchVectors, End, NoAnswer

LEMMA FuseStatus == ASSUME Fuse PROVE answer'.status \in {0, 200}
BY ZenonT(30) DEF Fuse, End, NoAnswer

LEMMA ReplyStatus == ASSUME Generate PROVE answer'.status = 200
<1>1. ASSUME NEW names, NEW type, Reasoned(names, type) PROVE answer'.status = 200
  BY <1>1 DEF Reasoned, End, NoAnswer
<1> QED  BY <1>1 DEF Generate

LEMMA ResolveStatus == ASSUME Resolve PROVE ~up \/ UNCHANGED answer \/ answer'.status = 200
BY DEF Resolve, End, NoAnswer

LEMMA FollowStatus == ASSUME Follow PROVE UNCHANGED answer \/ answer'.status = 200
BY DEF Follow, End, NoAnswer

LEMMA AcceptHealth ==
    ASSUME NEW r, Accept(r)
    PROVE  /\ UNCHANGED <<up, graph, store, health>>
           /\ UNCHANGED answer \/ store = "none"
BY DEF Accept, Outside

LEMMA AskHealth ==
    ASSUME AskQuestion \/ AskGraph
    PROVE  /\ UNCHANGED <<up, graph, store, health>>
           /\ UNCHANGED answer \/ store = "none"
<1>1. CASE AskQuestion  BY <1>1, AcceptHealth, Zenon DEF AskQuestion
<1>2. CASE AskGraph  BY <1>2, AcceptHealth, Zenon DEF AskGraph
<1> QED  BY <1>1, <1>2

LEMMA InitHealth == Init => HealthInv
BY DEF Init, HealthInv

LEMMA StepHealth == ASSUME HealthInv, [Next]_vars PROVE HealthInv'
<1> USE DEF HealthInv, Queryable
<1>1. CASE AskQuestion \/ AskGraph
  BY <1>1, AskHealth
<1>2. CASE Embed \/ SearchVectors \/ Walk \/ SearchNames \/ Expand \/ Fuse \/ Generate \/ Resolve \/ Follow \/ Respond
  BY <1>2 DEF Embed, SearchVectors, Walk, SearchNames, Expand, Fuse, Generate, Resolve, Follow, Respond, Outside
<1>3. CASE Health
  BY <1>3 DEF Health
<1>4. CASE Change \/ Outage \/ Back \/ Restart
  BY <1>4 DEF Change, Outage, Back, Restart
<1>5. CASE UNCHANGED vars
  BY <1>5 DEF vars
<1> QED  BY <1>1, <1>2, <1>3, <1>4, <1>5 DEF Next

LEMMA FailureIsKnown ==
    ASSUME HealthInv, Next, answer' # answer, answer'.status \in {500, 503}, answer'.at # "embed"
    PROVE  health # "healthy"
<1>1. CASE AskQuestion \/ AskGraph
  BY <1>1, AskHealth DEF HealthInv
<1>2. CASE Embed
  BY <1>2, FailsMeans DEF Embed
<1>3. CASE SearchVectors
  BY <1>3, SearchStatus DEF HealthInv
<1>4. CASE Expand
  <2>1. ~up \/ UNCHANGED answer  BY <1>4 DEF Expand
  <2> QED  BY <2>1 DEF HealthInv, Queryable
<1>5. CASE Resolve
  BY <1>5, ResolveStatus DEF HealthInv, Queryable
<1>6. CASE Fuse \/ Follow
  BY <1>6, FuseStatus, FollowStatus
<1>7. CASE Generate
  BY <1>7, ReplyStatus
<1>8. CASE Respond \/ Restart
  BY <1>8 DEF Respond, Restart, Forget, NoAnswer
<1>9. CASE Health \/ Walk \/ SearchNames \/ Change \/ Outage \/ Back
  BY <1>9 DEF Health, Walk, SearchNames, Change, Outage, Back, Serving
<1> QED  BY <1>1, <1>2, <1>3, <1>4, <1>5, <1>6, <1>7, <1>8, <1>9 DEF Next

\* While nothing has changed since /health said healthy, no request is refused
\* and none fails after its question is embedded.
THEOREM HealthyAlwaysAnswers == Spec => HealthyMeansAnswering
<1>1. HealthInv /\ [Next]_vars =>
        [answer' # answer /\ answer'.status \in {500, 503} /\ answer'.at # "embed" => health # "healthy"]_vars
  BY FailureIsKnown
<1> QED  BY <1>1, InitHealth, StepHealth, PTL DEF Spec, HealthyMeansAnswering
-----------------------------------------------------------------------------
(* Orders: what InOrder, and the operators that are built on it, give.     *)

StrictTotal(S, R) ==
    /\ \A x \in S : <<x, x>> \notin R
    /\ \A x, y \in S : x # y => <<x, y>> \in R \/ <<y, x>> \in R
    /\ \A x, y, z \in S : <<x, y>> \in R /\ <<y, z>> \in R => <<x, z>> \in R

\* Every element stands in the order once, before all that come after it.
LEMMA InOrderIs ==
    ASSUME NEW S, IsFiniteSet(S), NEW R, StrictTotal(S, R),
           NEW o, o = InOrder(S, R), NEW n, n = Cardinality(S)
    PROVE  /\ n \in Nat /\ o \in [1..n -> S]
           /\ \A x \in S : \E k \in 1..n : o[k] = x
           /\ \A k, l \in 1..n : k < l => <<o[k], o[l]>> \in R
           /\ \A k, l \in 1..n : o[k] = o[l] => k = l
           /\ \A k, l \in 1..n : <<o[k], o[l]>> \in R => k < l
<1>. DEFINE Before(i) == {j \in S : <<j, i>> \in R}
            rank == [i \in S |-> Cardinality(Before(i)) + 1]
<1>1. n \in Nat
  BY FS_CardinalityType
<1>2. ASSUME NEW i \in S
      PROVE  IsFiniteSet(Before(i)) /\ Cardinality(Before(i)) \in Nat /\ rank[i] \in 1..n
  <2>1. Before(i) \in SUBSET (S \ {i})
    BY DEF StrictTotal
  <2>2. IsFiniteSet(S \ {i}) /\ Cardinality(S \ {i}) = n - 1
    BY FS_RemoveElement
  <2>3. rank[i] = Cardinality(Before(i)) + 1
    OBVIOUS
  <2>. HIDE DEF rank, Before
  <2>4. IsFiniteSet(Before(i)) /\ Cardinality(Before(i)) <= n - 1
    BY <2>1, <2>2, FS_Subset
  <2>5. Cardinality(Before(i)) \in Nat
    BY <2>4, FS_CardinalityType
  <2>. QED
    BY <1>1, <2>3, <2>4, <2>5
<1>3. ASSUME NEW i \in S, NEW j \in S, <<i, j>> \in R
      PROVE  rank[i] < rank[j]
  <2>1. i \notin Before(i) /\ Before(i) \cup {i} \subseteq Before(j)
    BY <1>3 DEF StrictTotal
  <2>2. Cardinality(Before(i) \cup {i}) = Cardinality(Before(i)) + 1
    BY <1>2, <2>1, FS_AddElement
  <2>3. Cardinality(Before(i) \cup {i}) <= Cardinality(Before(j))
    BY <1>2, <2>1, FS_Subset
  <2>4. rank[i] = Cardinality(Before(i)) + 1 /\ rank[j] = Cardinality(Before(j)) + 1
    OBVIOUS
  <2>5. Cardinality(Before(i)) \in Nat /\ Cardinality(Before(j)) \in Nat
    BY <1>2
  <2>. HIDE DEF rank, Before
  <2>. QED
    BY <2>2, <2>3, <2>4, <2>5
<1>4. rank \in [S -> 1..n]
  BY <1>2
<1>5. \A i \in S : Cardinality({j \in S : <<j, i>> \in R}) = rank[i] - 1
  BY <1>2
<1>. HIDE DEF rank, Before
<1>6. \A i, j \in S : rank[i] = rank[j] => i = j
  <2>. SUFFICES ASSUME NEW i \in S, NEW j \in S, i # j PROVE rank[i] # rank[j]
    OBVIOUS
  <2>1. rank[i] < rank[j] \/ rank[j] < rank[i]
    BY <1>3 DEF StrictTotal
  <2>2. rank[i] \in Nat /\ rank[j] \in Nat
    BY <1>1, <1>4
  <2>. QED
    BY <2>1, <2>2
<1>7. rank \in Injection(S, 1..n)
  BY <1>4, <1>6 DEF Injection, IsInjective
<1>8. rank \in Surjection(S, 1..n)
  <2>1. IsFiniteSet(1..n) /\ Cardinality(1..n) = n
    BY <1>1, FS_Interval
  <2>. QED
    BY <1>7, <2>1, FS_Injection
<1>9. ASSUME NEW k \in 1..n PROVE o[k] \in S /\ rank[o[k]] = k
  <2>1. \E i \in S : rank[i] = k
    BY <1>8 DEF Surjection
  <2>2. \E i \in S : Cardinality({j \in S : <<j, i>> \in R}) = k - 1
    BY <2>1, <1>5, <1>1
  <2>3. o[k] = CHOOSE i \in S : Cardinality({j \in S : <<j, i>> \in R}) = k - 1
    BY DEF InOrder
  <2>4. o[k] \in S /\ Cardinality({j \in S : <<j, o[k]>> \in R}) = k - 1
    BY <2>2, <2>3
  <2>5. rank[o[k]] \in 1..n /\ rank[o[k]] - 1 = k - 1
    BY <2>4, <1>5, <1>4
  <2>. QED
    BY <2>4, <2>5, <1>1
<1>10. o \in [1..n -> S]
  BY <1>9 DEF InOrder
<1>11. ASSUME NEW x \in S PROVE rank[x] \in 1..n /\ o[rank[x]] = x
  BY <1>4, <1>6, <1>9
<1>12. ASSUME NEW k \in 1..n, NEW l \in 1..n
       PROVE  /\ k < l => <<o[k], o[l]>> \in R
              /\ o[k] = o[l] => k = l
              /\ <<o[k], o[l]>> \in R => k < l
  <2>1. o[k] \in S /\ o[l] \in S /\ rank[o[k]] = k /\ rank[o[l]] = l
    BY <1>9
  <2>2. <<o[k], o[l]>> \in R => k < l
    BY <2>1, <1>3
  <2>3. <<o[l], o[k]>> \in R => l < k
    BY <2>1, <1>3
  <2>4. o[k] # o[l] => <<o[k], o[l]>> \in R \/ <<o[l], o[k]>> \in R
    BY <2>1 DEF StrictTotal
  <2>. QED
    BY <2>1, <2>2, <2>3, <2>4
<1>. QED
  BY <1>1, <1>10, <1>11, <1>12

LEMMA NumbersAreOrdered ==
    ASSUME NEW I, I \subseteq Nat, NEW R, R = {p \in I \X I : p[1] < p[2]}
    PROVE  StrictTotal(I, R)
<1>1. \A i, j \in I : <<i, j>> \in R <=> i < j
  OBVIOUS
<1>. HIDE <1>1
<1>2. \A i \in I : i \in Nat
  OBVIOUS
<1>. QED
  BY <1>1, <1>2 DEF StrictTotal

\* What is picked keeps its order, and nothing else is picked.
LEMMA PickedIs ==
    ASSUME NEW s, NEW I, I \subseteq Nat, IsFiniteSet(I), NEW q, q = Picked(s, I),
           NEW n, n = Cardinality(I)
    PROVE  n \in Nat /\ \E o \in [1..n -> I] :
               /\ DOMAIN q = 1..n
               /\ \A k \in 1..n : q[k] = s[o[k]]
               /\ \A i \in I : \E k \in 1..n : o[k] = i
               /\ \A k, l \in 1..n : o[k] = o[l] => k = l
<1>. DEFINE R == {p \in I \X I : p[1] < p[2]}
            o == InOrder(I, R)
<1>1. StrictTotal(I, R)
  BY NumbersAreOrdered
<1>2. q = [k \in DOMAIN o |-> s[o[k]]]
  BY DEF Picked
<1>. HIDE DEF R
<1>3. /\ n \in Nat /\ o \in [1..n -> I]
      /\ \A x \in I : \E k \in 1..n : o[k] = x
      /\ \A k, l \in 1..n : o[k] = o[l] => k = l
  BY <1>1, InOrderIs
<1>. HIDE DEF o
<1>. QED
  BY <1>2, <1>3

LEMMA PickedFrom ==
    ASSUME NEW A, NEW s \in Seq(A), NEW I, I \subseteq DOMAIN s, NEW B, \A i \in I : s[i] \in B,
           NEW q, q = Picked(s, I)
    PROVE  /\ q \in Seq(B) /\ Len(q) = Cardinality(I)
           /\ \A k \in DOMAIN q : \E i \in I : q[k] = s[i]
           /\ \A i \in I : \E k \in DOMAIN q : q[k] = s[i]
<1>. DEFINE n == Cardinality(I)
<1>1. DOMAIN s = 1..Len(s) /\ Len(s) \in Nat /\ IsFiniteSet(1..Len(s))
  BY FS_Interval
<1>2. I \subseteq Nat /\ IsFiniteSet(I)
  BY <1>1, FS_Subset
<1>3. /\ n \in Nat
      /\ \E o \in [1..n -> I] :
             /\ DOMAIN q = 1..n
             /\ \A k \in 1..n : q[k] = s[o[k]]
             /\ \A i \in I : \E k \in 1..n : o[k] = i
  BY <1>2, PickedIs
<1>4. PICK o \in [1..n -> I] : /\ DOMAIN q = 1..n
                               /\ \A k \in 1..n : q[k] = s[o[k]]
                               /\ \A i \in I : \E k \in 1..n : o[k] = i
  BY <1>3
<1>5. q = [k \in 1..n |-> q[k]]
  BY <1>4 DEF Picked
<1>. HIDE DEF n
<1>6. q \in [1..n -> B]
  BY <1>4, <1>5
<1>7. q \in Seq(B) /\ Len(q) = n
  BY <1>3, <1>6
<1>. QED
  BY <1>4, <1>7 DEF n

LEMMA FirstIs ==
    ASSUME NEW A, NEW s \in Seq(A), NEW n \in Nat, NEW q, q = First(s, n)
    PROVE  /\ q \in Seq(A) /\ Len(q) <= n /\ Len(q) <= Len(s)
           /\ DOMAIN q = {i \in DOMAIN s : i <= n}
           /\ \A i \in DOMAIN q : i \in DOMAIN s /\ q[i] = s[i]
<1>. DEFINE m == IF Len(s) < n THEN Len(s) ELSE n
<1>1. Len(s) \in Nat /\ DOMAIN s = 1..Len(s) /\ m \in Nat
  OBVIOUS
<1>2. (DOMAIN s) \cap (1..n) = 1..m /\ 1..m = {i \in DOMAIN s : i <= n} /\ m <= n /\ m <= Len(s)
  BY <1>1
<1>3. q = [i \in 1..m |-> s[i]]
  BY <1>2 DEF First
<1>. HIDE DEF m
<1>4. \A i \in 1..m : s[i] \in A
  BY <1>1, <1>2
<1>5. q \in Seq(A) /\ Len(q) = m /\ DOMAIN q = 1..m
  BY <1>1, <1>3, <1>4
<1>. QED
  BY <1>1, <1>2, <1>3, <1>5

LEMMA FilteredIs ==
    ASSUME NEW A, NEW s \in Seq(A), NEW K
    PROVE  Filtered(s, K) \in Seq(A \cap K)
<1>. DEFINE I == {i \in DOMAIN s : s[i] \in K}
<1>1. \A i \in I : s[i] \in A \cap K
  OBVIOUS
<1>2. I \subseteq DOMAIN s
  OBVIOUS
<1>. HIDE DEF I
<1>3. Picked(s, I) \in Seq(A \cap K)
  BY <1>1, <1>2, PickedFrom
<1>. QED
  BY <1>3 DEF Filtered, I

\* The answer of an index: entities of the ranking that the filter keeps, no more than asked for.
LEMMA RankedIs ==
    ASSUME NEW ranking \in Seq(Entities), NEW indexed, NEW candidates \in Nat, NEW keep,
           NEW n \in Nat, NEW q, q = Ranked(ranking, indexed, candidates, keep, n)
    PROVE  q \in Seq(Entities \cap keep) /\ Len(q) <= n
<1>. DEFINE found == First(Filtered(ranking, indexed), candidates)
<1>1. Filtered(ranking, indexed) \in Seq(Entities \cap indexed)
  BY FilteredIs
<1>2. found \in Seq(Entities \cap indexed)
  BY <1>1, FirstIs
<1>3. found \in Seq(Entities)
  BY <1>2
<1>. HIDE DEF found
<1>4. Filtered(found, keep) \in Seq(Entities \cap keep)
  BY <1>3, FilteredIs
<1>5. q = First(Filtered(found, keep), n)
  BY DEF Ranked, found
<1>. QED
  BY <1>4, <1>5, FirstIs
-----------------------------------------------------------------------------
(* Scores                                                                  *)

\* Induction for a set, by its least missing number.
LEMMA Inductively ==
    ASSUME NEW T, 0 \in T, \A n \in Nat : n \in T => n + 1 \in T
    PROVE  Nat \subseteq T
<1>. DEFINE Missing == Nat \ T
<1>1. SUFFICES ASSUME Missing # {} PROVE FALSE
  OBVIOUS
<1>2. PICK m \in Missing : \A n \in Missing : <<n, m>> \notin OpToRel(<, Nat)
  <2>1. IsWellFoundedOn(OpToRel(<, Nat), Nat)
    BY NatLessThanWellFounded
  <2>2. Missing \subseteq Nat
    OBVIOUS
  <2>. HIDE DEF Missing
  <2>. QED
    BY <1>1, <2>1, <2>2, WFMin
<1>3. m \in Nat /\ m # 0
  OBVIOUS
<1>4. m - 1 \in Nat /\ m - 1 < m /\ (m - 1) + 1 = m
  BY <1>3
<1>5. <<m - 1, m>> \in OpToRel(<, Nat)
  BY <1>3, <1>4 DEF OpToRel
<1>6. m - 1 \in T
  BY <1>2, <1>4, <1>5
<1>. QED
  BY <1>4, <1>6

\* Running sums exist, and are numbers.
LEMMA SumsExist ==
    ASSUME NEW N \in Nat, NEW w \in [1..N -> Nat]
    PROVE  \E g \in [0..N -> Nat] : g[0] = 0 /\ \A r \in 1..N : g[r] = g[r - 1] + w[r]
<1>. DEFINE Sums(g, n) == g[0] = 0 /\ \A r \in 1..n : g[r] = g[r - 1] + w[r]
            Exist(n) == n <= N => \E g \in [0..n -> Nat] : Sums(g, n)
            T == {n \in Nat : Exist(n)}
<1>1. 0 \in T
  <2>. DEFINE g == [x \in 0..0 |-> 0]
  <2>1. g \in [0..0 -> Nat] /\ Sums(g, 0)
    OBVIOUS
  <2>. HIDE DEF g, Sums
  <2>2. Exist(0)
    BY <2>1
  <2>. HIDE DEF Exist
  <2>. QED
    BY <2>2
<1>2. ASSUME NEW n \in Nat, n \in T PROVE n + 1 \in T
  <2>0. n + 1 \in T <=> Exist(n + 1)
    <3>. HIDE DEF Exist
    <3>. QED
      OBVIOUS
  <2>1. SUFFICES ASSUME n + 1 <= N PROVE \E h \in [0..(n + 1) -> Nat] : Sums(h, n + 1)
    <3>. HIDE DEF T, Sums
    <3>. QED
      BY <2>0
  <2>2. PICK g \in [0..n -> Nat] : Sums(g, n)
    <3>1. Exist(n)
      <4>. HIDE DEF Exist
      <4>. QED
        BY <1>2
    <3>. HIDE DEF Sums, T
    <3>. QED
      BY <2>1, <3>1
  <2>. DEFINE h == [x \in 0..(n + 1) |-> IF x = n + 1 THEN g[n] + w[n + 1] ELSE g[x]]
  <2>3. g \in [0..n -> Nat] /\ g[0] = 0 /\ \A r \in 1..n : g[r] = g[r - 1] + w[r]
    BY <2>2
  <2>4. w[n + 1] \in Nat /\ g[n] \in Nat
    BY <2>1, <2>3
  <2>5. ASSUME NEW x \in 0..(n + 1) PROVE h[x] \in Nat
    BY <2>3, <2>4
  <2>6. h \in [0..(n + 1) -> Nat]
    BY <2>5
  <2>7. h[0] = 0
    BY <2>3
  <2>8. ASSUME NEW r \in 1..(n + 1) PROVE h[r] = h[r - 1] + w[r]
    <3>1. CASE r = n + 1
      BY <3>1
    <3>2. CASE r # n + 1
      <4>1. r \in 1..n /\ r - 1 \in 0..n /\ r - 1 # n + 1 /\ r \in 0..(n + 1) /\ r - 1 \in 0..(n + 1)
        BY <3>2
      <4>2. h[r] = g[r] /\ h[r - 1] = g[r - 1]
        BY <3>2, <4>1
      <4>. QED
        BY <2>3, <4>1, <4>2
    <3>. QED
      BY <3>1, <3>2
  <2>. HIDE DEF h
  <2>9. Sums(h, n + 1)
    BY <2>7, <2>8
  <2>. HIDE DEF Sums
  <2>. QED
    BY <2>6, <2>9
<1>. HIDE DEF T
<1>3. N \in T
  BY <1>1, <1>2, Inductively
<1>4. Exist(N)
  <2>. HIDE DEF Exist
  <2>. QED
    BY <1>3 DEF T
<1>5. \E g \in [0..N -> Nat] : Sums(g, N)
  <2>. HIDE DEF Sums
  <2>. QED
    BY <1>4
<1>. QED
  BY <1>5

\* The points of one rank.
Earned(lists, e) == [r \in 1..MaxRank |-> Cardinality(Places(lists, e, {r})) * Points[r]]

\* Places at finitely many ranks of three lists are finitely many.
LEMMA PlacesAreFinite ==
    ASSUME NEW lists, DOMAIN lists = 1..3, NEW e, NEW ranks, IsFiniteSet(ranks)
    PROVE  IsFiniteSet(Places(lists, e, ranks)) /\ Cardinality(Places(lists, e, ranks)) \in Nat
<1>1. IsFiniteSet((1..3) \X ranks)
  <2>1. \A m \in Int : IsFiniteSet(1..m)
    BY FS_Interval
  <2>2. 3 \in Int
    OBVIOUS
  <2>3. IsFiniteSet(1..3)
    BY <2>1, <2>2, Zenon
  <2>. QED
    BY <2>3, FS_Product
<1>2. Places(lists, e, ranks) \subseteq (1..3) \X ranks
  BY DEF Places
<1>. QED
  BY <1>1, <1>2, FS_Subset, FS_CardinalityType

LEMMA EarnedIs ==
    ASSUME NEW lists, DOMAIN lists = 1..3, NEW e
    PROVE  Earned(lists, e) \in [1..MaxRank -> Nat]
<1>1. ASSUME NEW r \in 1..MaxRank
      PROVE  Cardinality(Places(lists, e, {r})) * Points[r] \in Nat
  <2>1. Cardinality(Places(lists, e, {r})) \in Nat
    BY FS_Singleton, PlacesAreFinite
  <2>2. Points[r] \in Nat
    BY FusionAssumption
  <2>. QED
    BY <2>1, <2>2
<1>. QED
  BY <1>1 DEF Earned

\* The score is what the ranks add up to.
LEMMA ScoreIs ==
    ASSUME NEW lists, DOMAIN lists = 1..3, NEW e
    PROVE  /\ Score(lists, e) \in Nat
           /\ \E g \in [0..MaxRank -> Nat] :
                  /\ g[0] = 0 /\ g[MaxRank] = Score(lists, e)
                  /\ \A r \in 1..MaxRank : g[r] = g[r - 1] + Earned(lists, e)[r]
<1>. DEFINE w == Earned(lists, e)
            Sums(f) == [r \in 0..MaxRank |->
                           IF r = 0 THEN 0 ELSE f[r - 1] + Cardinality(Places(lists, e, {r})) * Points[r]]
            sum == CHOOSE f : f = Sums(f)
<1>1. MaxRank \in Nat
  BY FusionAssumption
<1>2. w \in [1..MaxRank -> Nat]
  BY EarnedIs
<1>3. PICK g \in [0..MaxRank -> Nat] : g[0] = 0 /\ \A r \in 1..MaxRank : g[r] = g[r - 1] + w[r]
  <2>. HIDE DEF w
  <2>. QED
    BY <1>1, <1>2, SumsExist
<1>4. \A r \in 1..MaxRank : w[r] = Cardinality(Places(lists, e, {r})) * Points[r]
  BY DEF Earned
<1>5. g = Sums(g)
  <2>1. ASSUME NEW r \in 0..MaxRank
        PROVE  g[r] = IF r = 0 THEN 0 ELSE g[r - 1] + Cardinality(Places(lists, e, {r})) * Points[r]
    <3>1. r = 0 \/ r \in 1..MaxRank
      BY <1>1
    <3>. QED
      BY <1>3, <1>4, <3>1
  <2>2. g = [r \in 0..MaxRank |-> g[r]]
    OBVIOUS
  <2>3. Sums(g) = [r \in 0..MaxRank |-> g[r]]
    BY <2>1
  <2>. QED
    BY <2>2, <2>3
<1>6. sum = Sums(sum)
  <2>. HIDE DEF Sums
  <2>. QED
    BY <1>5
<1>7. Score(lists, e) = sum[MaxRank]
  BY DEF Score
<1>. HIDE DEF w
<1>8. ASSUME NEW r \in 0..MaxRank PROVE sum[r] = IF r = 0 THEN 0 ELSE sum[r - 1] + w[r]
  <2>. HIDE DEF sum
  <2>1. sum[r] = Sums(sum)[r]
    BY <1>6
  <2>2. r = 0 \/ r \in 1..MaxRank
    BY <1>1
  <2>. QED
    BY <2>1, <2>2, <1>4
<1>. HIDE DEF sum
<1>9. sum \in [0..MaxRank -> Nat]
  <2>. DEFINE T == {n \in Nat : n <= MaxRank => sum[n] \in Nat}
  <2>1. 0 \in T
    BY <1>1, <1>8
  <2>2. ASSUME NEW n \in Nat, n \in T PROVE n + 1 \in T
    <3>1. SUFFICES ASSUME n + 1 <= MaxRank PROVE sum[n + 1] \in Nat
      OBVIOUS
    <3>2. sum[n] \in Nat /\ w[n + 1] \in Nat /\ n + 1 \in 0..MaxRank
      BY <1>1, <1>2, <2>2, <3>1
    <3>. QED
      BY <1>8, <3>2
  <2>. HIDE DEF T
  <2>3. Nat \subseteq T
    BY <2>1, <2>2, Inductively
  <2>4. \A r \in 0..MaxRank : sum[r] \in Nat
    BY <1>1, <2>3 DEF T
  <2>5. sum = [r \in 0..MaxRank |-> sum[r]]
    BY <1>6 DEF Sums
  <2>. QED
    BY <2>4, <2>5
<1>10. sum[0] = 0 /\ \A r \in 1..MaxRank : sum[r] = sum[r - 1] + w[r]
  BY <1>1, <1>8
<1>11. sum[MaxRank] \in Nat
  BY <1>1, <1>9
<1>. HIDE DEF Sums
<1>. QED
  BY <1>7, <1>9, <1>10, <1>11 DEF w

-----------------------------------------------------------------------------
(* Fusion                                                                  *)

\* A sequence without its repetitions has the same elements, each once.
LEMMA DistinctIs ==
    ASSUME NEW A, NEW s \in Seq(A), NEW q, q = Distinct(s)
    PROVE  /\ q \in Seq(A)
           /\ \A k, l \in DOMAIN q : q[k] = q[l] => k = l
           /\ \A k \in DOMAIN q : \E i \in DOMAIN s : q[k] = s[i]
           /\ \A i \in DOMAIN s : \E k \in DOMAIN q : q[k] = s[i]
<1>. DEFINE I == {i \in DOMAIN s : \A j \in 1..(i - 1) : s[j] # s[i]}
            n == Cardinality(I)
<1>1. DOMAIN s = 1..Len(s) /\ Len(s) \in Nat /\ IsFiniteSet(1..Len(s))
  BY FS_Interval
<1>2. I \subseteq DOMAIN s /\ I \subseteq Nat /\ IsFiniteSet(I)
  <2>1. I \subseteq 1..Len(s) /\ I \subseteq Nat
    BY <1>1
  <2>. QED
    BY <1>1, <2>1, FS_Subset
<1>3. \A i \in DOMAIN s : \E m \in I : s[m] = s[i]
  <2>. DEFINE T == {t \in Nat : \A i \in DOMAIN s : i <= t => \E m \in I : s[m] = s[i]}
  <2>1. 0 \in T
    BY <1>1
  <2>2. ASSUME NEW t \in Nat, t \in T PROVE t + 1 \in T
    <3>1. SUFFICES ASSUME NEW i \in DOMAIN s, i = t + 1 PROVE \E m \in I : s[m] = s[i]
      BY <1>1, <2>2
    <3>2. CASE i \in I
      BY <3>2
    <3>3. CASE i \notin I
      <4>1. PICK j \in 1..(i - 1) : s[j] = s[i]
        BY <3>3
      <4>2. j \in DOMAIN s /\ j <= t
        BY <1>1, <3>1
      <4>3. \E m \in I : s[m] = s[j]
        BY <2>2, <4>2
      <4>. QED
        BY <4>1, <4>3
    <3>. QED
      BY <3>2, <3>3
  <2>. HIDE DEF T
  <2>3. Nat \subseteq T
    BY <2>1, <2>2, Inductively
  <2>. QED
    BY <1>1, <2>3 DEF T
<1>4. \A i, j \in I : s[i] = s[j] => i = j
  <2>. SUFFICES ASSUME NEW i \in I, NEW j \in I, i # j PROVE s[i] # s[j]
    OBVIOUS
  <2>1. i \in Nat /\ j \in Nat /\ i >= 1 /\ j >= 1
    BY <1>1
  <2>2. i < j \/ j < i
    BY <2>1
  <2>3. i < j => i \in 1..(j - 1)
    BY <2>1
  <2>4. j < i => j \in 1..(i - 1)
    BY <2>1
  <2>. QED
    BY <2>2, <2>3, <2>4
<1>5. q = Picked(s, I)
  BY DEF Distinct
<1>6. \A i \in I : s[i] \in A
  BY <1>2
<1>. HIDE DEF I
<1>7. /\ q \in Seq(A) /\ Len(q) = n
      /\ \A k \in DOMAIN q : \E i \in I : q[k] = s[i]
      /\ \A i \in I : \E k \in DOMAIN q : q[k] = s[i]
  BY <1>2, <1>5, <1>6, PickedFrom
<1>8. \E o \in [1..n -> I] :
          /\ DOMAIN q = 1..n
          /\ \A k \in 1..n : q[k] = s[o[k]]
          /\ \A k, l \in 1..n : o[k] = o[l] => k = l
  BY <1>2, <1>5, PickedIs
<1>. HIDE DEF n
<1>9. \A k, l \in DOMAIN q : q[k] = q[l] => k = l
  <2>1. PICK o \in [1..n -> I] : /\ DOMAIN q = 1..n
                                 /\ \A k \in 1..n : q[k] = s[o[k]]
                                 /\ \A k, l \in 1..n : o[k] = o[l] => k = l
    BY <1>8
  <2>. QED
    BY <1>4, <2>1
<1>. QED
  BY <1>2, <1>3, <1>7, <1>9

\* What retrieval fuses: three lists.
ThreeLists(lists) == DOMAIN lists = 1..3 /\ \A l \in 1..3 : lists[l] \in Seq(Entities)

\* e is in one of the lists.
Listed(lists, e) == \E l \in 1..3 : \E i \in DOMAIN lists[l] : lists[l][i] = e

LEMMA GatheredIs ==
    ASSUME NEW lists, ThreeLists(lists), NEW q, q = Gathered(lists)
    PROVE  /\ q \in Seq(Entities)
           /\ \A k, l \in DOMAIN q : q[k] = q[l] => k = l
           /\ \A k \in DOMAIN q : Listed(lists, q[k])
           /\ \A e : Listed(lists, e) => \E k \in DOMAIN q : q[k] = e
<1>. DEFINE a == lists[1]
            b == lists[2]
            c == lists[3]
            s == a \o b \o c
<1>1. a \in Seq(Entities) /\ b \in Seq(Entities) /\ c \in Seq(Entities)
  BY DEF ThreeLists
<1>2. q = Distinct(s)
  BY DEF Gathered
<1>3. \A e : Listed(lists, e) <=> \/ \E i \in DOMAIN a : a[i] = e
                                  \/ \E i \in DOMAIN b : b[i] = e
                                  \/ \E i \in DOMAIN c : c[i] = e
  <2>1. \A l : l \in 1..3 <=> l = 1 \/ l = 2 \/ l = 3
    OBVIOUS
  <2>. QED
    BY <2>1 DEF Listed
<1>. HIDE DEF a, b, c
<1>4. s \in Seq(Entities)
  BY <1>1
<1>5. \A i \in DOMAIN s : Listed(lists, s[i])
  <2>. SUFFICES ASSUME NEW i \in DOMAIN s PROVE Listed(lists, s[i])
    OBVIOUS
  <2>1. CASE i <= Len(a)
    <3>1. i \in DOMAIN a /\ s[i] = a[i]
      BY <1>1, <2>1
    <3>. QED
      BY <1>3, <3>1
  <2>2. CASE i > Len(a) /\ i <= Len(a) + Len(b)
    <3>1. i - Len(a) \in DOMAIN b /\ s[i] = b[i - Len(a)]
      BY <1>1, <2>2
    <3>. QED
      BY <1>3, <3>1
  <2>3. CASE i > Len(a) + Len(b)
    <3>1. i - (Len(a) + Len(b)) \in DOMAIN c /\ s[i] = c[i - (Len(a) + Len(b))]
      BY <1>1, <2>3
    <3>. QED
      BY <1>3, <3>1
  <2>4. i \in Nat /\ Len(a) \in Nat /\ Len(b) \in Nat
    BY <1>1
  <2>. QED
    BY <2>1, <2>2, <2>3, <2>4
<1>6. ASSUME NEW e, Listed(lists, e) PROVE \E i \in DOMAIN s : s[i] = e
  <2>1. ASSUME NEW i \in DOMAIN a, a[i] = e PROVE i \in DOMAIN s /\ s[i] = e
    BY <1>1, <2>1
  <2>2. ASSUME NEW i \in DOMAIN b, b[i] = e PROVE Len(a) + i \in DOMAIN s /\ s[Len(a) + i] = e
    BY <1>1, <2>2
  <2>3. ASSUME NEW i \in DOMAIN c, c[i] = e
        PROVE  Len(a) + Len(b) + i \in DOMAIN s /\ s[Len(a) + Len(b) + i] = e
    BY <1>1, <2>3
  <2>. HIDE DEF s
  <2>. QED
    BY <1>3, <1>6, <2>1, <2>2, <2>3
<1>. HIDE DEF s
<1>7. /\ q \in Seq(Entities)
      /\ \A k, l \in DOMAIN q : q[k] = q[l] => k = l
      /\ \A k \in DOMAIN q : \E i \in DOMAIN s : q[k] = s[i]
      /\ \A i \in DOMAIN s : \E k \in DOMAIN q : q[k] = s[i]
  BY <1>2, <1>4, DistinctIs
<1>8. \A k \in DOMAIN q : Listed(lists, q[k])
  BY <1>5, <1>7
<1>9. \A e : Listed(lists, e) => \E k \in DOMAIN q : q[k] = e
  BY <1>6, <1>7
<1>. QED
  BY <1>7, <1>8, <1>9

\* Numbered scores, ties by place, are an order.
LEMMA ScoresAreOrdered ==
    ASSUME NEW I, I \subseteq Nat, NEW score, \A i \in I : score[i] \in Nat,
           NEW R, R = {p \in I \X I : score[p[1]] > score[p[2]] \/ (score[p[1]] = score[p[2]] /\ p[1] < p[2])}
    PROVE  StrictTotal(I, R)
<1>1. \A i, j \in I : <<i, j>> \in R <=> (score[i] > score[j] \/ (score[i] = score[j] /\ i < j))
  OBVIOUS
<1>2. \A i \in I : i \in Nat /\ score[i] \in Nat
  OBVIOUS
<1>3. \A i \in I : <<i, i>> \notin R
  BY <1>1, <1>2
<1>4. \A i, j \in I : i # j => <<i, j>> \in R \/ <<j, i>> \in R
  <2>. SUFFICES ASSUME NEW i \in I, NEW j \in I, i # j PROVE <<i, j>> \in R \/ <<j, i>> \in R
    OBVIOUS
  <2>1. i \in Nat /\ j \in Nat /\ score[i] \in Nat /\ score[j] \in Nat
    BY <1>2
  <2>2. score[i] > score[j] \/ score[j] > score[i] \/ (score[i] = score[j] /\ i < j) \/ (score[j] = score[i] /\ j < i)
    BY <2>1
  <2>. QED
    BY <1>1, <2>2
<1>5. \A i, j, k \in I : <<i, j>> \in R /\ <<j, k>> \in R => <<i, k>> \in R
  <2>. SUFFICES ASSUME NEW i \in I, NEW j \in I, NEW k \in I, <<i, j>> \in R, <<j, k>> \in R
                PROVE  <<i, k>> \in R
    OBVIOUS
  <2>1. i \in Nat /\ j \in Nat /\ k \in Nat /\ score[i] \in Nat /\ score[j] \in Nat /\ score[k] \in Nat
    BY <1>2
  <2>2. /\ score[i] > score[j] \/ (score[i] = score[j] /\ i < j)
        /\ score[j] > score[k] \/ (score[j] = score[k] /\ j < k)
    BY <1>1
  <2>3. score[i] > score[k] \/ (score[i] = score[k] /\ i < k)
    BY <2>1, <2>2
  <2>. QED
    BY <1>1, <2>3
<1>. QED
  BY <1>3, <1>4, <1>5 DEF StrictTotal

\* The fused list: every entity of the three lists once, with its arms, by score.
LEMMA FusionIs ==
    ASSUME NEW lists, ThreeLists(lists), NEW q, q = Fusion(lists)
    PROVE  /\ q \in Seq([id : Entities, arms : SUBSET Arms])
           /\ \A k \in DOMAIN q : Listed(lists, q[k].id) /\ q[k].arms = SourcesOf(lists, q[k].id)
           /\ \A k, l \in DOMAIN q : q[k].id = q[l].id => k = l
           /\ \A e : Listed(lists, e) => \E k \in DOMAIN q : q[k].id = e
           /\ \A k, l \in DOMAIN q : Score(lists, q[k].id) > Score(lists, q[l].id) => k < l
<1>. DEFINE order == Gathered(lists)
            score == [i \in DOMAIN order |-> Score(lists, order[i])]
            R == {p \in (DOMAIN order) \X (DOMAIN order) :
                     score[p[1]] > score[p[2]] \/ (score[p[1]] = score[p[2]] /\ p[1] < p[2])}
            sorted == InOrder(DOMAIN order, R)
            n == Cardinality(DOMAIN order)
<1>1. /\ order \in Seq(Entities)
      /\ \A k, l \in DOMAIN order : order[k] = order[l] => k = l
      /\ \A k \in DOMAIN order : Listed(lists, order[k])
      /\ \A e : Listed(lists, e) => \E k \in DOMAIN order : order[k] = e
  BY GatheredIs
<1>2. q = [k \in DOMAIN sorted |-> [id |-> order[sorted[k]], arms |-> SourcesOf(lists, order[sorted[k]])]]
  BY DEF Fusion
<1>. HIDE DEF order
<1>3. DOMAIN order = 1..Len(order) /\ Len(order) \in Nat /\ DOMAIN order \subseteq Nat /\ IsFiniteSet(DOMAIN order)
  BY <1>1, FS_Interval
<1>4. \A i \in DOMAIN order : score[i] = Score(lists, order[i]) /\ score[i] \in Nat
  BY ScoreIs DEF ThreeLists
<1>. HIDE DEF score
<1>5. StrictTotal(DOMAIN order, R)
  BY <1>3, <1>4, ScoresAreOrdered
<1>6. \A i, j \in DOMAIN order : score[i] > score[j] => <<i, j>> \in R
  OBVIOUS
<1>. HIDE DEF R
<1>7. /\ n \in Nat /\ sorted \in [1..n -> DOMAIN order]
      /\ \A x \in DOMAIN order : \E k \in 1..n : sorted[k] = x
      /\ \A k, l \in 1..n : sorted[k] = sorted[l] => k = l
      /\ \A k, l \in 1..n : <<sorted[k], sorted[l]>> \in R => k < l
  <2>. DEFINE I == DOMAIN order
  <2>1. sorted = InOrder(I, R) /\ n = Cardinality(I) /\ IsFiniteSet(I) /\ StrictTotal(I, R)
    BY <1>3, <1>5
  <2>. HIDE DEF sorted, n, I
  <2>2. /\ n \in Nat /\ sorted \in [1..n -> I]
        /\ \A x \in I : \E k \in 1..n : sorted[k] = x
        /\ \A k, l \in 1..n : sorted[k] = sorted[l] => k = l
        /\ \A k, l \in 1..n : <<sorted[k], sorted[l]>> \in R => k < l
    BY <2>1, InOrderIs
  <2>. QED
    BY <2>2 DEF I
<1>. HIDE DEF sorted, n
<1>8. /\ DOMAIN q = 1..n
      /\ \A k \in 1..n : /\ sorted[k] \in DOMAIN order
                         /\ q[k].id = order[sorted[k]]
                         /\ q[k].arms = SourcesOf(lists, order[sorted[k]])
  BY <1>2, <1>7
<1>9. \A e : SourcesOf(lists, e) \subseteq Arms
  BY DEF SourcesOf, ThreeLists, Arms
<1>10. q \in Seq([id : Entities, arms : SUBSET Arms])
  <2>1. \A k \in 1..n : order[sorted[k]] \in Entities
    BY <1>1, <1>8
  <2>. DEFINE Results == [id : Entities, arms : SUBSET Arms]
  <2>2. q \in [1..n -> Results]
    BY <1>2, <1>7, <1>9, <2>1
  <2>. HIDE DEF Results
  <2>3. q \in Seq(Results)
    BY <1>7, <2>2
  <2>. QED
    BY <2>3 DEF Results
<1>11. \A k \in DOMAIN q : Listed(lists, q[k].id) /\ q[k].arms = SourcesOf(lists, q[k].id)
  BY <1>1, <1>8
<1>12. \A k, l \in DOMAIN q : q[k].id = q[l].id => k = l
  BY <1>1, <1>7, <1>8
<1>13. ASSUME NEW e, Listed(lists, e) PROVE \E k \in DOMAIN q : q[k].id = e
  <2>1. PICK x \in DOMAIN order : order[x] = e
    BY <1>1, <1>13
  <2>2. PICK k \in 1..n : sorted[k] = x
    BY <1>7
  <2>. QED
    BY <1>8, <2>1, <2>2
<1>14. ASSUME NEW k \in DOMAIN q, NEW l \in DOMAIN q, Score(lists, q[k].id) > Score(lists, q[l].id)
       PROVE  k < l
  <2>1. k \in 1..n /\ l \in 1..n /\ sorted[k] \in DOMAIN order /\ sorted[l] \in DOMAIN order
    BY <1>8
  <2>2. score[sorted[k]] > score[sorted[l]]
    BY <1>4, <1>8, <1>14, <2>1
  <2>. QED
    BY <1>6, <1>7, <2>1, <2>2
<1>. QED
  BY <1>10, <1>11, <1>12, <1>13, <1>14

-----------------------------------------------------------------------------
(* What the graph arm meets                                                *)

Sightings == [id : Entities, depth : Nat]

\* No entity is met twice.
Apart(visits_) == \A i, j \in DOMAIN visits_ : visits_[i].id = visits_[j].id => i = j

LEMMA RowsAre ==
    ASSUME NEW S, NEW limit \in Nat, NEW s \in Rows(S, limit)
    PROVE  /\ DOMAIN s \subseteq 1..limit
           /\ \A i \in DOMAIN s : s[i] \in S
           /\ IsFiniteSet(S) => s \in Seq(S) /\ Len(s) <= limit
<1>1. PICK f \in SetToSeqs(S) : s = First(f, limit)
  BY DEF Rows
<1>2. f \in [1..Cardinality(S) -> S]
  BY <1>1 DEF SetToSeqs
<1>3. DOMAIN s \subseteq 1..limit /\ \A i \in DOMAIN s : s[i] \in S
  BY <1>1, <1>2 DEF First
<1>4. ASSUME IsFiniteSet(S) PROVE s \in Seq(S) /\ Len(s) <= limit
  <2>1. Cardinality(S) \in Nat
    BY <1>4, FS_CardinalityType
  <2>2. f \in Seq(S)
    BY <1>2, <2>1
  <2>. QED
    BY <1>1, <2>2, FirstIs
<1>. QED
  BY <1>3, <1>4

LEMMA NodesAre ==
    ASSUME NEW g \in GraphType, NEW start, NEW types, NEW hops \in Nat,
           NEW p \in Paths(g, start, types, hops)
    PROVE  Nodes(p) \in Seq(Entities) /\ DOMAIN Nodes(p) \subseteq 1..(hops + 1)
<1>. DEFINE Rels == {r \in g.rels : r[2] \in types}
            rest == [i \in DOMAIN p |-> p[i][3]]
<1>1. PICK k \in 1..hops : p \in [1..k -> Rels]
  BY DEF Paths
<1>2. Rels \subseteq Entities \X RelTypes \X Entities
  BY DEF GraphType
<1>3. \A i \in 1..k : p[i] \in Entities \X RelTypes \X Entities
  BY <1>1, <1>2
<1>4. k \in Nat /\ 1 \in 1..k /\ k <= hops /\ DOMAIN p = 1..k
  BY <1>1
<1>5. p[1][1] \in Entities /\ \A i \in 1..k : p[i][3] \in Entities
  BY <1>3, <1>4
<1>6. rest \in Seq(Entities) /\ Len(rest) = k
  BY <1>4, <1>5
<1>. HIDE DEF rest
<1>7. <<p[1][1]>> \in Seq(Entities) /\ Len(<<p[1][1]>>) = 1
  BY <1>5
<1>8. Nodes(p) = <<p[1][1]>> \o rest
  BY DEF Nodes, rest
<1>9. Nodes(p) \in Seq(Entities) /\ Len(Nodes(p)) = 1 + k
  BY <1>6, <1>7, <1>8
<1>10. DOMAIN Nodes(p) = 1..(1 + k) /\ 1..(1 + k) \subseteq 1..(hops + 1)
  BY <1>4, <1>9
<1>. QED
  BY <1>9, <1>10

\* Places in paths, one path after the other, are an order.
LEMMA PlacesAreOrdered ==
    ASSUME NEW I, I \subseteq Nat \X Nat, NEW R,
           R = {o \in I \X I : o[1][1] < o[2][1] \/ (o[1][1] = o[2][1] /\ o[1][2] < o[2][2])}
    PROVE  StrictTotal(I, R)
<1>1. \A p, q \in I : <<p, q>> \in R <=> p[1] < q[1] \/ (p[1] = q[1] /\ p[2] < q[2])
  OBVIOUS
<1>2. \A p \in I : p[1] \in Nat /\ p[2] \in Nat /\ p = <<p[1], p[2]>>
  OBVIOUS
<1>3. \A p \in I : <<p, p>> \notin R
  BY <1>1, <1>2
<1>4. \A p, q \in I : p # q => <<p, q>> \in R \/ <<q, p>> \in R
  <2>. SUFFICES ASSUME NEW p \in I, NEW q \in I, p # q PROVE <<p, q>> \in R \/ <<q, p>> \in R
    OBVIOUS
  <2>1. p[1] \in Nat /\ p[2] \in Nat /\ q[1] \in Nat /\ q[2] \in Nat
    BY <1>2
  <2>2. p[1] # q[1] \/ p[2] # q[2]
    BY <1>2
  <2>3. \/ p[1] < q[1] \/ (p[1] = q[1] /\ p[2] < q[2])
        \/ q[1] < p[1] \/ (q[1] = p[1] /\ q[2] < p[2])
    BY <2>1, <2>2
  <2>. QED
    BY <1>1, <2>3
<1>5. \A p, q, r \in I : <<p, q>> \in R /\ <<q, r>> \in R => <<p, r>> \in R
  <2>. SUFFICES ASSUME NEW p \in I, NEW q \in I, NEW r \in I, <<p, q>> \in R, <<q, r>> \in R
                PROVE  <<p, r>> \in R
    OBVIOUS
  <2>1. p[1] \in Nat /\ p[2] \in Nat /\ q[1] \in Nat /\ q[2] \in Nat /\ r[1] \in Nat /\ r[2] \in Nat
    BY <1>2
  <2>2. /\ p[1] < q[1] \/ (p[1] = q[1] /\ p[2] < q[2])
        /\ q[1] < r[1] \/ (q[1] = r[1] /\ q[2] < r[2])
    BY <1>1
  <2>3. p[1] < r[1] \/ (p[1] = r[1] /\ p[2] < r[2])
    BY <2>1, <2>2
  <2>. QED
    BY <1>1, <2>3
<1>. QED
  BY <1>3, <1>4, <1>5 DEF StrictTotal

\* A traversal adds entities that were not met, each once.
LEMMA VisitedIs ==
    ASSUME NEW g \in GraphType, NEW start, NEW types, NEW hops \in Nat,
           NEW trails \in Traversals(g, start, types, hops),
           NEW seen \in Seq(Sightings), Apart(seen), NEW v, v = Visited(seen, trails)
    PROVE  v \in Seq(Sightings) /\ Apart(v)
<1>. DEFINE places == UNION {{t} \X DOMAIN Nodes(trails[t]) : t \in DOMAIN trails}
            Node(p) == Nodes(trails[p[1]])[p[2]]
            Earlier(p, q) == p[1] < q[1] \/ (p[1] = q[1] /\ p[2] < q[2])
            fresh == {p \in places : /\ \A i \in DOMAIN seen : seen[i].id # Node(p)
                                     /\ \A q \in places : Earlier(q, p) => Node(q) # Node(p)}
            R == {o \in fresh \X fresh : Earlier(o[1], o[2])}
            order == InOrder(fresh, R)
            n == Cardinality(fresh)
            new == [k \in DOMAIN order |-> [id |-> Node(order[k]), depth |-> order[k][2] - 1]]
<1>1. PathLimit \in Nat
  BY LimitsAssumption
<1>2. DOMAIN trails \subseteq 1..PathLimit /\ \A t \in DOMAIN trails : trails[t] \in Paths(g, start, types, hops)
  BY <1>1, RowsAre DEF Traversals
<1>3. \A t \in DOMAIN trails : Nodes(trails[t]) \in Seq(Entities) /\ DOMAIN Nodes(trails[t]) \subseteq 1..(hops + 1)
  BY <1>2, NodesAre
<1>4. ASSUME NEW p \in places
      PROVE  p \in (1..PathLimit) \X (1..(hops + 1)) /\ Node(p) \in Entities
  <2>1. PICK t \in DOMAIN trails : p \in {t} \X DOMAIN Nodes(trails[t])
    OBVIOUS
  <2>2. p[1] = t /\ p[2] \in DOMAIN Nodes(trails[t]) /\ p = <<t, p[2]>>
    BY <2>1
  <2>. QED
    BY <1>2, <1>3, <2>2
<1>5. IsFiniteSet(fresh) /\ fresh \subseteq Nat \X Nat
  <2>1. IsFiniteSet((1..PathLimit) \X (1..(hops + 1)))
    <3>1. IsFiniteSet(1..PathLimit) /\ IsFiniteSet(1..(hops + 1))
      BY <1>1, FS_Interval
    <3>. QED
      BY <3>1, FS_Product
  <2>2. fresh \subseteq (1..PathLimit) \X (1..(hops + 1))
    BY <1>4
  <2>3. (1..PathLimit) \X (1..(hops + 1)) \subseteq Nat \X Nat
    OBVIOUS
  <2>. QED
    BY <2>1, <2>2, <2>3, FS_Subset
<1>6. \A p \in fresh : Node(p) \in Entities /\ p[2] - 1 \in Nat
  <2>1. \A p \in fresh : p \in places
    OBVIOUS
  <2>2. \A p \in fresh : p[2] \in 1..(hops + 1)
    BY <1>4, <2>1
  <2>. QED
    BY <1>4, <2>1, <2>2
<1>7. \A p \in fresh : \A i \in DOMAIN seen : seen[i].id # Node(p)
  OBVIOUS
<1>8. StrictTotal(fresh, R)
  <2>. HIDE DEF fresh
  <2>. QED
    BY <1>5, PlacesAreOrdered
<1>9. \A p, q \in fresh : <<p, q>> \in R => Node(p) # Node(q)
  OBVIOUS
<1>10. v = seen \o new
  BY DEF Visited
<1>. HIDE DEF fresh, R, Node
<1>11. /\ n \in Nat /\ order \in [1..n -> fresh]
       /\ \A k, l \in 1..n : order[k] = order[l] => k = l
  BY <1>5, <1>8, InOrderIs
<1>. HIDE DEF order, n
<1>12. \A k \in 1..n : order[k] \in fresh
  BY <1>11
<1>13. new \in Seq(Sightings) /\ DOMAIN new = 1..n /\ Len(new) = n
  <2>1. \A k \in 1..n : [id |-> Node(order[k]), depth |-> order[k][2] - 1] \in Sightings
    BY <1>6, <1>12 DEF Sightings
  <2>2. new = [k \in 1..n |-> [id |-> Node(order[k]), depth |-> order[k][2] - 1]]
    BY <1>11
  <2>. QED
    BY <1>11, <2>1, <2>2
<1>14. \A k \in 1..n : new[k].id = Node(order[k])
  BY <1>11
<1>15. \A k, l \in 1..n : new[k].id = new[l].id => k = l
  <2>. SUFFICES ASSUME NEW k \in 1..n, NEW l \in 1..n, k # l PROVE new[k].id # new[l].id
    OBVIOUS
  <2>1. order[k] # order[l] /\ order[k] \in fresh /\ order[l] \in fresh
    BY <1>11, <1>12
  <2>2. <<order[k], order[l]>> \in R \/ <<order[l], order[k]>> \in R
    BY <1>8, <2>1 DEF StrictTotal
  <2>. QED
    BY <1>9, <1>14, <2>1, <2>2
<1>16. \A i \in DOMAIN seen : \A k \in 1..n : seen[i].id # new[k].id
  BY <1>7, <1>12, <1>14
<1>. HIDE DEF new
<1>17. v \in Seq(Sightings)
  BY <1>10, <1>13
<1>18. Apart(v)
  <2>. SUFFICES ASSUME NEW i \in DOMAIN v, NEW j \in DOMAIN v, v[i].id = v[j].id PROVE i = j
    BY DEF Apart
  <2>1. \A x \in DOMAIN v : \/ x \in DOMAIN seen /\ v[x] = seen[x]
                            \/ x - Len(seen) \in 1..n /\ v[x] = new[x - Len(seen)]
    BY <1>10, <1>13
  <2>2. i \in Nat /\ j \in Nat /\ Len(seen) \in Nat
    BY <1>17
  <2>3. i - Len(seen) = j - Len(seen) => i = j
    BY <2>2
  <2>. QED
    BY <1>15, <1>16, <2>1, <2>3 DEF Apart
<1>. QED
  BY <1>17, <1>18

LEMMA DepthsAreOrdered ==
    ASSUME NEW I, I \subseteq Nat, NEW s, \A i \in I : s[i].depth \in Nat,
           NEW R, R = {p \in I \X I : s[p[1]].depth < s[p[2]].depth \/ (s[p[1]].depth = s[p[2]].depth /\ p[1] < p[2])}
    PROVE  StrictTotal(I, R)
<1>1. \A i, j \in I : <<i, j>> \in R <=> (s[i].depth < s[j].depth \/ (s[i].depth = s[j].depth /\ i < j))
  OBVIOUS
<1>2. \A i \in I : i \in Nat /\ s[i].depth \in Nat
  OBVIOUS
<1>3. \A i \in I : <<i, i>> \notin R
  BY <1>1, <1>2
<1>4. \A i, j \in I : i # j => <<i, j>> \in R \/ <<j, i>> \in R
  <2>. SUFFICES ASSUME NEW i \in I, NEW j \in I, i # j PROVE <<i, j>> \in R \/ <<j, i>> \in R
    OBVIOUS
  <2>1. i \in Nat /\ j \in Nat /\ s[i].depth \in Nat /\ s[j].depth \in Nat
    BY <1>2
  <2>2. \/ s[i].depth < s[j].depth \/ (s[i].depth = s[j].depth /\ i < j)
        \/ s[j].depth < s[i].depth \/ (s[j].depth = s[i].depth /\ j < i)
    BY <2>1
  <2>. QED
    BY <1>1, <2>2
<1>5. \A i, j, k \in I : <<i, j>> \in R /\ <<j, k>> \in R => <<i, k>> \in R
  <2>. SUFFICES ASSUME NEW i \in I, NEW j \in I, NEW k \in I, <<i, j>> \in R, <<j, k>> \in R
                PROVE  <<i, k>> \in R
    OBVIOUS
  <2>1. i \in Nat /\ j \in Nat /\ k \in Nat /\ s[i].depth \in Nat /\ s[j].depth \in Nat /\ s[k].depth \in Nat
    BY <1>2
  <2>2. /\ s[i].depth < s[j].depth \/ (s[i].depth = s[j].depth /\ i < j)
        /\ s[j].depth < s[k].depth \/ (s[j].depth = s[k].depth /\ j < k)
    BY <1>1
  <2>3. s[i].depth < s[k].depth \/ (s[i].depth = s[k].depth /\ i < k)
    BY <2>1, <2>2
  <2>. QED
    BY <1>1, <2>3
<1>. QED
  BY <1>3, <1>4, <1>5 DEF StrictTotal

\* Sorting by depth keeps each sighting, once.
LEMMA ByDepthIs ==
    ASSUME NEW s \in Seq(Sightings), Apart(s), NEW q, q = ByDepth(s)
    PROVE  q \in Seq(Sightings) /\ Apart(q)
<1>. DEFINE R == {p \in (DOMAIN s) \X (DOMAIN s) :
                     s[p[1]].depth < s[p[2]].depth \/ (s[p[1]].depth = s[p[2]].depth /\ p[1] < p[2])}
            order == InOrder(DOMAIN s, R)
            n == Cardinality(DOMAIN s)
<1>1. DOMAIN s = 1..Len(s) /\ DOMAIN s \subseteq Nat /\ IsFiniteSet(DOMAIN s)
  BY FS_Interval
<1>2. \A i \in DOMAIN s : s[i] \in Sightings /\ s[i].depth \in Nat
  <2>1. \A x \in Sightings : x.depth \in Nat
    BY DEF Sightings
  <2>. QED
    BY <2>1
<1>3. StrictTotal(DOMAIN s, R)
  BY <1>1, <1>2, DepthsAreOrdered
<1>4. q = [k \in DOMAIN order |-> s[order[k]]]
  BY DEF ByDepth
<1>. HIDE DEF R
<1>5. /\ n \in Nat /\ order \in [1..n -> DOMAIN s]
      /\ \A k, l \in 1..n : order[k] = order[l] => k = l
  BY <1>1, <1>3, InOrderIs
<1>. HIDE DEF order, n
<1>6. DOMAIN q = 1..n /\ \A k \in 1..n : order[k] \in DOMAIN s /\ q[k] = s[order[k]]
  BY <1>4, <1>5
<1>7. q \in Seq(Sightings)
  BY <1>2, <1>4, <1>5, <1>6
<1>8. Apart(q)
  BY <1>5, <1>6 DEF Apart
<1>. QED
  BY <1>7, <1>8

\* Entities met once each are no more than there are.
LEMMA ApartIsShort ==
    ASSUME NEW s \in Seq(Sightings), Apart(s)
    PROVE  Len(s) <= Cardinality(Entities)
<1>. DEFINE f == [i \in 1..Len(s) |-> s[i].id]
<1>1. Len(s) \in Nat /\ DOMAIN s = 1..Len(s)
  OBVIOUS
<1>2. \A i \in 1..Len(s) : s[i].id \in Entities
  <2>1. \A x \in Sightings : x.id \in Entities
    BY DEF Sightings
  <2>. QED
    BY <1>1, <2>1
<1>3. f \in [1..Len(s) -> Entities] /\ \A i, j \in 1..Len(s) : f[i] = f[j] => i = j
  BY <1>1, <1>2 DEF Apart
<1>. HIDE DEF f
<1>4. f \in Injection(1..Len(s), Entities)
  BY <1>3 DEF Injection, IsInjective
<1>5. Cardinality(1..Len(s)) <= Cardinality(Entities)
  BY <1>4, EntityAssumption, FS_Injection
<1>6. Cardinality(1..Len(s)) = Len(s)
  BY <1>1, FS_Interval
<1>. QED
  BY <1>5, <1>6

\* The counterparts of some entities: pairs of entities, no more than the query asks for.
LEMMA CounterpartsAre ==
    ASSUME NEW g, NEW seeds, seeds \subseteq Entities, NEW b \in Counterparts(g, seeds)
    PROVE  b \in Seq(Entities \X Entities) /\ Len(b) <= ComplementLimit
<1>. DEFINE S == {p \in Entities \X seeds :
                     /\ p[1] \notin seeds
                     /\ \/ <<p[1], "COMPLEMENTS", p[2]>> \in g.rels
                        \/ <<p[2], "COMPLEMENTS", p[1]>> \in g.rels}
<1>1. S \subseteq Entities \X Entities
  OBVIOUS
<1>2. IsFiniteSet(S)
  BY <1>1, EntityAssumption, FS_Product, FS_Subset
<1>3. b \in Rows(S, ComplementLimit)
  BY DEF Counterparts
<1>. HIDE DEF S
<1>4. b \in Seq(S) /\ Len(b) <= ComplementLimit
  BY <1>2, <1>3, LimitsAssumption, RowsAre
<1>. QED
  BY <1>1, <1>4

-----------------------------------------------------------------------------
(* The lists that are fused                                                *)

\* What the arms have gathered: filtered entities by vectors and by name, whatever
\* the graph reaches, and no list longer than the ranks that count.
ListsSound ==
    /\ hits \in Seq(Kept(req.regulations)) /\ Len(hits) <= MaxRank
    /\ lexical \in Seq(Kept(req.regulations)) /\ Len(lexical) <= MaxRank
    /\ visits \in Seq(Sightings) /\ Apart(visits)
    /\ bridged \in Seq(Entities \X Entities) /\ Len(bridged) <= ComplementLimit

NothingYet == hits = <<>> /\ visits = <<>> /\ lexical = <<>> /\ bridged = <<>>

\* What is asked, and of which graph.
Asked ==
    /\ graph \in Graphs
    /\ req.top_k \in TopKs \cup {0} /\ req.hops \in Nat
    /\ pc \in {"embed", "vector", "walk", "names", "expand", "fuse", "reply"} => req.question \in Questions

\* The lists are empty before the search and sound from then on.
Searched ==
    /\ pc \in {"idle", "embed", "vector"} => NothingYet
    /\ pc \in {"walk", "names", "expand", "fuse", "reply"} => ListsSound

\* Once fused, the lists stay what the answer was made of.
Answered ==
    /\ answer.at \in {"fuse", "reply"} =>
           pc \in {"done", "reply"} /\ ListsSound /\ answer.results = First(Fusion(Lists), TopK)
    /\ answer.at = "vector" =>
           pc = "done" /\ \A i \in DOMAIN answer.results : answer.results[i].id \in Kept(req.regulations)
    /\ pc = "reply" => answer.at = "fuse"

FusedInv == Asked /\ Searched /\ Answered

LEMMA KeptAreEntities ==
    ASSUME NEW regs PROVE Kept(regs) \subseteq Entities /\ Entities \cap Kept(regs) = Kept(regs)
BY DEF Kept

LEMMA LimitsAre ==
    ASSUME Asked
    PROVE  /\ req.top_k \in Nat /\ TopK \in Nat /\ 2 * TopK \in Nat /\ 2 * TopK <= MaxRank
           /\ MaxHops \in Nat /\ MaxRank \in Nat
<1>1. req.top_k \in Nat /\ req.hops \in Nat
  <2>1. \A k \in TopKs : k \in Nat
    BY RequestAssumption
  <2>2. req.top_k \in TopKs \cup {0} /\ req.hops \in Nat
    BY DEF Asked
  <2>3. req.top_k = 0 \/ req.top_k \in TopKs
    BY <2>2
  <2>. QED
    BY <2>1, <2>2, <2>3
<1>2. TopK \in TopKs \cup {DefaultTopK} /\ TopK \in Nat
  BY RequestAssumption DEF Asked, TopK, Given
<1>3. MaxHops \in Nat
  BY <1>1, RequestAssumption DEF MaxHops, Given
<1>. QED
  BY <1>1, <1>2, <1>3, FusionAssumption

LEMMA CandidatesAre ==
    ASSUME NEW low \in Nat, NEW n \in Nat, NEW m \in Nat
    PROVE  AtLeast(low, n * m) \in Nat
BY DEF AtLeast

LEMMA VectorHitsAre ==
    ASSUME NEW q \in Questions, NEW regs, NEW n \in Nat, NEW found,
           found = VectorHits(graph, q.near, Kept(regs), n)
    PROVE  found \in Seq(Kept(regs)) /\ Len(found) <= n
<1>1. AtLeast(MinFetch, n * OverFetch) \in Nat
  BY CandidatesAre, LimitsAssumption
<1>2. q.near \in Seq(Entities)
  BY RequestAssumption
<1>3. found \in Seq(Entities \cap Kept(regs)) /\ Len(found) <= n
  BY <1>1, <1>2, RankedIs DEF VectorHits
<1>. QED
  BY <1>3, KeptAreEntities

LEMMA NameHitsAre ==
    ASSUME NEW q \in Questions, NEW regs, NEW n \in Nat, NEW found,
           found = NameHits(graph, q.matched, Kept(regs), n)
    PROVE  found \in Seq(Kept(regs)) /\ Len(found) <= n
<1>1. AtLeast(MinNames, n * NameFetch) \in Nat
  BY CandidatesAre, LimitsAssumption
<1>2. q.matched \in Seq(Entities)
  BY RequestAssumption
<1>3. CASE "name" \notin graph.indexes
  BY <1>3 DEF NameHits
<1>4. CASE "name" \in graph.indexes
  <2>1. found \in Seq(Entities \cap Kept(regs)) /\ Len(found) <= n
    BY <1>1, <1>2, <1>4, RankedIs DEF NameHits
  <2>. QED
    BY <2>1, KeptAreEntities
<1>. QED
  BY <1>3, <1>4

LEMMA InitFused == Init => FusedInv
BY DEF Init, FusedInv, Asked, Searched, NothingYet, Answered, NoRequest, NoAnswer

\* A request finds nothing left of the last one.
LEMMA AcceptFused ==
    ASSUME FusedInv, NEW r, Accept(r), r.top_k \in TopKs \cup {0}, r.hops \in Nat,
           r.kind \in {"search", "reason", "vector"} => r.question \in Questions,
           r.kind \in Kinds
    PROVE  FusedInv'
<1>1. pc = "idle" /\ req' = r /\ UNCHANGED <<graph, hits, visits, lexical, bridged>>
  BY DEF Accept, Outside
<1>2. \/ pc' = "done" /\ answer'.at = "idle"
      \/ pc' \in {"follow", "resolve"} /\ answer' = answer
      \/ pc' = "embed" /\ answer' = answer /\ r.kind \in {"search", "reason", "vector"}
  BY DEF Accept, Fails, End, NoAnswer, Kinds
<1>3. answer.at \notin {"fuse", "reply", "vector"}
  BY <1>1 DEF FusedInv, Answered
<1>. QED
  BY <1>1, <1>2, <1>3 DEF FusedInv, Asked, Searched, NothingYet, Answered

LEMMA AskFused == ASSUME FusedInv, AskQuestion \/ AskGraph PROVE FusedInv'
<1>1. CASE AskQuestion
  <2>1. PICK kind \in {"search", "reason", "vector"}, q \in Questions, regs \in SUBSET Regulations,
              k \in TopKs, h \in Hops :
            Accept([NoRequest EXCEPT !.kind = kind, !.question = q, !.regulations = regs, !.top_k = k, !.hops = h])
    BY <1>1, Zenon DEF AskQuestion
  <2>. QED
    BY <2>1, AcceptFused, RequestAssumption DEF NoRequest, Kinds
<1>2. CASE AskGraph
  <2>1. CASE \E t \in Terms : Accept([NoRequest EXCEPT !.kind = "resolve", !.terms = t])
    BY <2>1, AcceptFused DEF NoRequest, Kinds
  <2>2. ASSUME NEW kind \in {"traverse", "ids"}, NEW t \in Terms, NEW types \in TypeFilters,
               NEW h \in Hops \ {0}, NEW n \in PathCounts,
               Accept([NoRequest EXCEPT !.kind = kind, !.terms = t, !.types = types, !.hops = h, !.limit = n])
        PROVE  FusedInv'
    BY <2>2, AcceptFused, RequestAssumption DEF NoRequest, Kinds
  <2>. QED
    BY <1>2, <2>1, <2>2, Zenon DEF AskGraph
<1>. QED
  BY <1>1, <1>2

LEMMA VectorsFused == ASSUME FusedInv, SearchVectors PROVE FusedInv'
<1>. DEFINE found == IF req.kind = "vector" THEN VectorHits(graph, req.question.near, Kept(req.regulations), req.top_k)
                     ELSE VectorHits(graph, req.question.near, Kept(req.regulations), 2 * TopK)
<1>1. pc = "vector" /\ UNCHANGED <<graph, req>> /\ req.question \in Questions /\ NothingYet
  BY DEF SearchVectors, Outside, FusedInv, Asked, Searched
<1>2. found \in Seq(Kept(req.regulations)) /\ (req.kind # "vector" => Len(found) <= MaxRank)
  <2>1. /\ req.top_k \in Nat /\ 2 * TopK \in Nat /\ 2 * TopK <= MaxRank /\ MaxRank \in Nat
    BY LimitsAre DEF FusedInv
  <2>2. CASE req.kind = "vector"
    BY <1>1, <2>1, <2>2, VectorHitsAre
  <2>3. CASE req.kind # "vector"
    <3>. DEFINE n == 2 * TopK
    <3>. HIDE DEF n
    <3>1. n \in Nat /\ n <= MaxRank /\ MaxRank \in Nat /\ found = VectorHits(graph, req.question.near, Kept(req.regulations), n)
      BY <2>1, <2>3 DEF n
    <3>. HIDE DEF found
    <3>2. found \in Seq(Kept(req.regulations)) /\ Len(found) <= n
      BY <1>1, <3>1, VectorHitsAre
    <3>. QED
      BY <3>1, <3>2
  <2>. QED
    BY <2>2, <2>3
<1>3. \/ pc' = "done" /\ answer'.at = "vector" /\ answer'.results = <<>>
      \/ /\ pc' = "done" /\ answer'.at = "vector"
         /\ answer'.results = [i \in DOMAIN found |-> [id |-> found[i], arms |-> {"vector"}]]
      \/ /\ pc' = "walk" /\ answer' = answer /\ req.kind # "vector"
         /\ hits' = found /\ UNCHANGED <<visits, lexical, bridged>>
  <2>1. CASE ~Queryable
    <3>1. Fails(500)
      BY <2>1 DEF SearchVectors
    <3>. QED
      BY <1>1, <3>1 DEF Fails, End, NoAnswer
  <2>2. CASE Queryable /\ req.kind = "vector"
    <3>. HIDE DEF found
    <3>1. End([NoAnswer EXCEPT !.status = 200, !.at = pc,
                   !.results = [i \in DOMAIN found |-> [id |-> found[i], arms |-> {"vector"}]]])
      BY <2>2 DEF SearchVectors, found
    <3>. QED
      BY <1>1, <3>1 DEF End, NoAnswer
  <2>3. CASE Queryable /\ req.kind # "vector"
    BY <2>3 DEF SearchVectors
  <2>. QED
    BY <2>1, <2>2, <2>3
<1>. HIDE DEF found
<1>4. Asked'
  BY <1>1, <1>3 DEF FusedInv, Asked
<1>5. CASE pc' = "done" /\ answer'.at = "vector"
  <2>1. \A i \in DOMAIN answer'.results : answer'.results[i].id \in Kept(req.regulations)
    BY <1>1, <1>2, <1>3, <1>5
  <2>. QED
    BY <1>1, <1>4, <1>5, <2>1 DEF FusedInv, Searched, Answered
<1>6. CASE /\ pc' = "walk" /\ answer' = answer /\ req.kind # "vector"
           /\ hits' = found /\ UNCHANGED <<visits, lexical, bridged>>
  <2>1. ListsSound'
    <3>1. <<>> \in Seq(Kept(req.regulations)) /\ <<>> \in Seq(Sightings) /\ <<>> \in Seq(Entities \X Entities) /\ Len(<<>>) = 0
      OBVIOUS
    <3>2. MaxRank \in Nat /\ ComplementLimit \in Nat
      BY FusionAssumption, LimitsAssumption
    <3>3. Apart(<<>>)
      BY DEF Apart
    <3>4. /\ hits' = found /\ lexical' = <<>> /\ visits' = <<>> /\ bridged' = <<>> /\ req' = req
      BY <1>1, <1>6 DEF NothingYet
    <3>. QED
      BY <1>2, <1>6, <3>1, <3>2, <3>3, <3>4 DEF ListsSound
  <2>2. answer.at \notin {"fuse", "reply", "vector"}
    BY <1>1 DEF FusedInv, Answered
  <2>. QED
    BY <1>4, <1>6, <2>1, <2>2 DEF FusedInv, Searched, Answered
<1>. QED
  BY <1>3, <1>5, <1>6

\* The steps of the graph and name arms leave the lists sound.
LEMMA ArmsFused == ASSUME FusedInv, Walk \/ SearchNames \/ Expand PROVE FusedInv'
<1>1. /\ pc \in {"walk", "names", "expand"} /\ UNCHANGED <<graph, req, hits>>
      /\ ListsSound /\ req.question \in Questions
  BY DEF Walk, SearchNames, Expand, Outside, Work, FusedInv, Asked, Searched
<1>2. answer.at \notin {"fuse", "reply", "vector"}
  BY <1>1 DEF FusedInv, Answered
<1>3. \/ answer' = answer /\ pc' \in {"walk", "names", "expand", "fuse"}
      \/ pc' = "done" /\ answer'.at = "expand"
  <2>1. CASE Walk
    BY <2>1 DEF Walk
  <2>2. CASE SearchNames
    BY <2>2 DEF SearchNames
  <2>3. CASE Expand
    <3>1. Fails(500) \/ (answer' = answer /\ pc' = "fuse")
      BY <2>3 DEF Expand
    <3>2. pc = "expand"
      BY <2>3 DEF Expand
    <3>. QED
      BY <3>1, <3>2 DEF Fails, End, NoAnswer
  <2>. QED
    BY <2>1, <2>2, <2>3
<1>4. visits' \in Seq(Sightings) /\ Apart(visits')
  <2>1. CASE visits' = visits
    BY <1>1, <2>1 DEF ListsSound
  <2>2. CASE \E t \in Traversals(graph, Head(left), RelTypes, MaxHops) : visits' = Visited(visits, t)
    <3>1. PICK t \in Traversals(graph, Head(left), RelTypes, MaxHops) : visits' = Visited(visits, t)
      BY <2>2
    <3>2. MaxHops \in Nat /\ graph \in GraphType
      BY LimitsAre, GraphAssumption DEF FusedInv, Asked
    <3>3. visits \in Seq(Sightings) /\ Apart(visits)
      BY <1>1 DEF ListsSound
    <3>. QED
      BY <3>1, <3>2, <3>3, VisitedIs
  <2>. QED
    BY <2>1, <2>2 DEF Walk, SearchNames, Expand, Work
<1>5. lexical' \in Seq(Kept(req.regulations)) /\ Len(lexical') <= MaxRank
  <2>1. CASE lexical' = lexical
    BY <1>1, <2>1 DEF ListsSound
  <2>2. CASE lexical' = <<>>
    BY <2>2, FusionAssumption
  <2>3. CASE lexical' = NameHits(graph, req.question.matched, Kept(req.regulations), 2 * TopK)
    <3>. DEFINE n == 2 * TopK
    <3>. HIDE DEF n
    <3>1. n \in Nat /\ n <= MaxRank /\ MaxRank \in Nat
      BY LimitsAre DEF FusedInv, n
    <3>2. lexical' = NameHits(graph, req.question.matched, Kept(req.regulations), n)
      BY <2>3 DEF n
    <3>3. lexical' \in Seq(Kept(req.regulations)) /\ Len(lexical') <= n
      BY <1>1, <3>1, <3>2, NameHitsAre
    <3>4. Len(lexical') \in Nat
      BY <3>3
    <3>. QED
      BY <3>1, <3>3, <3>4
  <2>. QED
    BY <2>1, <2>2, <2>3 DEF Walk, SearchNames, Expand, Work
<1>6. bridged' \in Seq(Entities \X Entities) /\ Len(bridged') <= ComplementLimit
  <2>1. CASE bridged' = bridged
    BY <1>1, <2>1 DEF ListsSound
  <2>2. CASE bridged' \in Counterparts(graph, ToSet(First(hits, SeedLimit)))
    <3>1. ToSet(First(hits, SeedLimit)) \subseteq Entities
      <4>1. hits \in Seq(Entities)
        BY <1>1, KeptAreEntities DEF ListsSound
      <4>. QED
        BY <4>1 DEF ToSet, First
    <3>. QED
      BY <2>2, <3>1, CounterpartsAre
  <2>. QED
    BY <2>1, <2>2 DEF Walk, SearchNames, Expand, Work
<1>7. ListsSound'
  BY <1>1, <1>4, <1>5, <1>6 DEF ListsSound
<1>. QED
  BY <1>1, <1>2, <1>3, <1>7 DEF FusedInv, Asked, Searched, Answered

LEMMA FuseFused == ASSUME FusedInv, Fuse PROVE FusedInv'
<1>1. pc = "fuse" /\ UNCHANGED <<graph, req, hits, visits, lexical, bridged>> /\ ListsSound /\ req.question \in Questions
  BY DEF Fuse, Outside, Work, FusedInv, Asked, Searched
<1>2. pc' \in {"done", "reply"} /\ answer'.at = "fuse" /\ answer'.results = First(Fusion(Lists), TopK)
  BY <1>1 DEF Fuse, End, NoAnswer
<1>3. ListsSound' /\ Lists' = Lists /\ TopK' = TopK
  BY <1>1 DEF ListsSound, Lists, Graphed, TopK
<1>. QED
  BY <1>1, <1>2, <1>3 DEF FusedInv, Asked, Searched, Answered

LEMMA GenerateFused == ASSUME FusedInv, Generate PROVE FusedInv'
<1>1. pc = "reply" /\ UNCHANGED <<graph, req, hits, visits, lexical, bridged>>
  BY DEF Generate, Outside, Work
<1>2. ASSUME NEW names, NEW type, Reasoned(names, type)
      PROVE  pc' = "done" /\ answer'.at = "reply" /\ answer'.results = answer.results
  BY <1>1, <1>2 DEF Reasoned, End, NoAnswer
<1>3. pc' = "done" /\ answer'.at = "reply" /\ answer'.results = answer.results
  BY <1>2 DEF Generate
<1>4. ListsSound /\ answer.results = First(Fusion(Lists), TopK)
  BY <1>1 DEF FusedInv, Answered
<1>5. ListsSound' /\ Lists' = Lists /\ TopK' = TopK
  BY <1>1, <1>4 DEF ListsSound, Lists, Graphed, TopK
<1>. QED
  BY SMTT(30), <1>1, <1>3, <1>4, <1>5 DEF FusedInv, Asked, Searched, Answered

LEMMA QuietFused ==
    ASSUME FusedInv, graph' \in Graphs, UNCHANGED <<pc, req, answer, hits, visits, lexical, bridged>>
    PROVE  FusedInv'
<1>1. ListsSound' <=> ListsSound
  BY DEF ListsSound
<1>2. Lists' = Lists /\ TopK' = TopK
  BY DEF Lists, Graphed, TopK
<1>. QED
  BY <1>1, <1>2 DEF FusedInv, Asked, Searched, NothingYet, Answered

LEMMA StepFused == ASSUME FusedInv, [Next]_vars PROVE FusedInv'
<1>1. CASE AskQuestion \/ AskGraph
  BY <1>1, AskFused
<1>2. CASE Embed
  BY ZenonT(30), <1>2 DEF Embed, Outside, Work, Fails, End, NoAnswer, FusedInv, Asked, Searched, NothingYet, Answered
<1>3. CASE SearchVectors
  BY <1>3, VectorsFused
<1>4. CASE Walk \/ SearchNames \/ Expand
  BY <1>4, ArmsFused
<1>5. CASE Fuse
  BY <1>5, FuseFused
<1>6. CASE Generate
  BY <1>6, GenerateFused
<1>7. CASE Resolve \/ Follow
  <2>1. /\ pc \in {"resolve", "follow"} /\ pc' \in {"resolve", "follow", "done"} /\ UNCHANGED <<graph, req>>
        /\ UNCHANGED answer \/ answer'.at \in {"resolve", "follow"}
    BY <1>7 DEF Resolve, Follow, Outside, Fails, End, NoAnswer
  <2>2. answer.at \notin {"fuse", "reply", "vector"}
    BY <2>1 DEF FusedInv, Answered
  <2>. QED
    BY <2>1, <2>2 DEF FusedInv, Asked, Searched, Answered
<1>8. CASE Respond \/ Restart
  BY <1>8 DEF Respond, Restart, Forget, Outside, NoRequest, NoAnswer, FusedInv, Asked, Searched, NothingYet, Answered
<1>9. CASE Health \/ Change \/ Outage \/ Back \/ UNCHANGED vars
  <2>1. UNCHANGED <<pc, req, answer, hits, visits, lexical, bridged>> /\ (UNCHANGED graph \/ graph' \in Graphs)
    BY <1>9 DEF Health, Change, Outage, Back, Serving, Work, vars
  <2>. QED
    BY <2>1, QuietFused DEF FusedInv, Asked
<1>. QED
  BY <1>1, <1>2, <1>3, <1>4, <1>5, <1>6, <1>7, <1>8, <1>9 DEF Next

-----------------------------------------------------------------------------
(* FilterHolds                                                             *)

\* The graph arm's list: entities, no more of them than there are ranks.
LEMMA GraphedIs ==
    ASSUME ListsSound, NEW q, q = Graphed
    PROVE  q \in Seq(Entities) /\ Len(q) <= MaxRank
<1>. DEFINE traversed == ByDepth(visits)
            a == [i \in DOMAIN traversed |-> traversed[i].id]
            b == [i \in DOMAIN bridged |-> bridged[i][1]]
<1>1. traversed \in Seq(Sightings) /\ Apart(traversed)
  BY ByDepthIs DEF ListsSound
<1>2. Len(traversed) <= Cardinality(Entities)
  BY <1>1, ApartIsShort
<1>3. q = a \o b
  BY DEF Graphed
<1>. HIDE DEF traversed
<1>4. a \in Seq(Entities) /\ Len(a) = Len(traversed)
  <2>1. \A i \in DOMAIN traversed : traversed[i].id \in Entities
    <3>1. \A x \in Sightings : x.id \in Entities
      BY DEF Sightings
    <3>. QED
      BY <1>1, <3>1
  <2>. QED
    BY <1>1, <2>1
<1>5. b \in Seq(Entities) /\ Len(b) = Len(bridged) /\ Len(bridged) <= ComplementLimit
  <2>1. bridged \in Seq(Entities \X Entities) /\ Len(bridged) <= ComplementLimit
    BY DEF ListsSound
  <2>2. \A i \in DOMAIN bridged : bridged[i][1] \in Entities
    BY <2>1
  <2>. QED
    BY <2>1, <2>2
<1>. HIDE DEF a, b
<1>6. q \in Seq(Entities) /\ Len(q) = Len(a) + Len(b)
  <2>1. a \in Seq(Entities) /\ b \in Seq(Entities)
    BY <1>4, <1>5
  <2>. QED
    BY <1>3, <2>1
<1>7. Cardinality(Entities) \in Nat
  BY EntityAssumption, FS_CardinalityType
<1>8. Len(a) \in Nat /\ Len(b) \in Nat
  BY <1>4, <1>5
<1>. QED
  BY <1>2, <1>4, <1>5, <1>6, <1>7, <1>8, FusionAssumption, LimitsAssumption

LEMMA ListsAre ==
    ASSUME ListsSound
    PROVE  /\ ThreeLists(Lists)
           /\ Lists[1] = hits /\ Lists[2] = Graphed /\ Lists[3] = lexical
           /\ \A l \in 1..3 : Len(Lists[l]) <= MaxRank
<1>. DEFINE q == Graphed
<1>1. q \in Seq(Entities) /\ Len(q) <= MaxRank
  BY GraphedIs
<1>. HIDE DEF q
<1>2. Lists = <<hits, q, lexical>>
  BY DEF Lists, q
<1>3. hits \in Seq(Entities) /\ lexical \in Seq(Entities) /\ Len(hits) <= MaxRank /\ Len(lexical) <= MaxRank
  BY KeptAreEntities DEF ListsSound
<1>4. DOMAIN Lists = 1..3 /\ Lists[1] = hits /\ Lists[2] = q /\ Lists[3] = lexical
  BY <1>2
<1>5. \A l \in 1..3 : l = 1 \/ l = 2 \/ l = 3
  OBVIOUS
<1>6. ThreeLists(Lists) /\ \A l \in 1..3 : Len(Lists[l]) <= MaxRank
  BY <1>1, <1>3, <1>4, <1>5 DEF ThreeLists
<1>. QED
  BY <1>4, <1>6 DEF q

LEMMA FusedFilterHolds == ASSUME FusedInv PROVE FilterHolds
<1>1. ASSUME answer.at \in {"fuse", "reply"}, NEW i \in DOMAIN answer.results,
             answer.results[i].id \notin Kept(req.regulations)
      PROVE  answer.results[i].arms = {"graph"}
  <2>. DEFINE e == answer.results[i].id
              lists == Lists
              fused == Fusion(lists)
  <2>1. ListsSound /\ answer.results = First(fused, TopK)
    BY <1>1 DEF FusedInv, Answered
  <2>2. ThreeLists(lists) /\ lists[1] = hits /\ lists[3] = lexical
    BY <2>1, ListsAre
  <2>. HIDE DEF lists
  <2>3. \A k \in DOMAIN fused : Listed(lists, fused[k].id) /\ fused[k].arms = SourcesOf(lists, fused[k].id)
    BY <2>2, FusionIs
  <2>4. i \in DOMAIN fused /\ answer.results[i] = fused[i]
    BY <1>1, <2>1 DEF First
  <2>5. Listed(lists, e) /\ answer.results[i].arms = SourcesOf(lists, e)
    BY <2>3, <2>4
  <2>. HIDE DEF e
  <2>6. e \notin ToSet(lists[1]) /\ e \notin ToSet(lists[3])
    <3>1. e \notin Kept(req.regulations)
      BY <1>1 DEF e
    <3>2. ToSet(hits) \subseteq Kept(req.regulations) /\ ToSet(lexical) \subseteq Kept(req.regulations)
      BY <2>1 DEF ListsSound, ToSet
    <3>. QED
      BY <2>2, <3>1, <3>2
  <2>7. e \in ToSet(lists[2])
    <3>1. PICK l \in 1..3 : e \in ToSet(lists[l])
      BY <2>5 DEF Listed, ToSet
    <3>2. l = 2
      BY <2>6, <3>1
    <3>. QED
      BY <3>1, <3>2
  <2>8. {k \in DOMAIN lists : e \in ToSet(lists[k])} = {2}
    <3>1. \A k \in 1..3 : k = 1 \/ k = 2 \/ k = 3
      OBVIOUS
    <3>. QED
      BY <2>2, <2>6, <2>7, <3>1 DEF ThreeLists
  <2>9. SourcesOf(lists, e) = {<<"vector", "graph", "name">>[l] : l \in {2}}
    BY <2>8 DEF SourcesOf
  <2>10. SourcesOf(lists, e) = {"graph"}
    BY <2>9
  <2>. QED
    BY <2>5, <2>10
<1>2. ASSUME answer.at = "vector", NEW i \in DOMAIN answer.results
      PROVE  answer.results[i].id \in Kept(req.regulations)
  BY <1>2 DEF FusedInv, Answered
<1>. QED
  BY <1>1, <1>2 DEF FilterHolds

\* Whatever the graph becomes while a question is answered, an entity of another
\* regulation than the one asked for is returned only through the graph arm.
THEOREM FilterAlwaysHolds == Spec => []FilterHolds
<1>1. FusedInv => FilterHolds
  BY FusedFilterHolds
<1>. QED
  BY <1>1, InitFused, StepFused, PTL DEF Spec

-----------------------------------------------------------------------------
(* AgreementOutranks                                                       *)

\* One more rank: d and d1 are the leads in places before and with it, p and p1
\* what this rank and the next one count.
LEMMA LeadGrows ==
    ASSUME NEW g \in Nat, NEW h \in Nat, NEW x \in Nat, NEW y \in Nat, NEW d \in Int, NEW d1 \in Int,
           NEW p \in Nat, NEW p1 \in Nat, g - h >= d * p, d1 = d + (x - y), d1 >= 0, p > p1
    PROVE  /\ (g + x * p) - (h + y * p) >= d1 * p1
           /\ g - h > d * p \/ d1 > 0 => (g + x * p) - (h + y * p) > d1 * p1
<1>1. d1 * p = d * p + (x * p - y * p)
  OBVIOUS
<1>2. x * p \in Nat /\ y * p \in Nat /\ d * p \in Int /\ d1 * p \in Int /\ d1 * p1 \in Int
  OBVIOUS
<1>3. d1 * p >= d1 * p1 /\ (d1 > 0 => d1 * p > d1 * p1)
  <2>1. d1 * p = d1 * p1 + d1 * (p - p1)
    OBVIOUS
  <2>2. d1 * (p - p1) >= 0 /\ (d1 > 0 => d1 * (p - p1) > 0) /\ d1 * (p - p1) \in Int
    OBVIOUS
  <2>. DEFINE u == d1 * p
              v == d1 * p1
              w == d1 * (p - p1)
  <2>3. u = v + w /\ w >= 0 /\ (d1 > 0 => w > 0) /\ u \in Int /\ v \in Int /\ w \in Int
    BY <1>2, <2>1, <2>2
  <2>. HIDE DEF u, v, w
  <2>4. u >= v /\ (d1 > 0 => u > v)
    BY <2>3
  <2>. QED
    BY <2>4 DEF u, v
<1>. DEFINE xp == x * p
            yp == y * p
            dp == d * p
            ep == d1 * p
            eq == d1 * p1
<1>4. /\ xp \in Nat /\ yp \in Nat /\ dp \in Int /\ ep \in Int /\ eq \in Int
      /\ ep = dp + (xp - yp) /\ ep >= eq /\ (d1 > 0 => ep > eq) /\ g - h >= dp
  BY <1>1, <1>2, <1>3
<1>. HIDE DEF xp, yp, dp, ep, eq
<1>5. (g + xp) - (h + yp) >= eq /\ (g - h > dp \/ d1 > 0 => (g + xp) - (h + yp) > eq)
  BY <1>4
<1>. QED
  BY <1>5 DEF xp, yp, dp, eq

LEMMA LeadIs ==
    \A a, b, u, v \in Nat :
        a + u >= b + v => /\ a - b \in Int /\ (a + u) - (b + v) \in Int
                          /\ (a + u) - (b + v) = (a - b) + (u - v)
                          /\ (a + u) - (b + v) >= 0
OBVIOUS

LEMMA LeadIsWorth ==
    \A a, b, p \in Nat : a >= b => (a - b) * p >= 0 /\ (a - b) * p \in Int
<1>. SUFFICES ASSUME NEW a \in Nat, NEW b \in Nat, NEW p \in Nat, a >= b
              PROVE  (a - b) * p >= 0 /\ (a - b) * p \in Int
  OBVIOUS
<1>. DEFINE z == a - b
<1>1. z \in Nat
  OBVIOUS
<1>. HIDE DEF z
<1>2. z * p >= 0 /\ z * p \in Int
  BY <1>1
<1>. QED
  BY <1>2 DEF z

\* Two tallies over ranks 1..N of points P: x and y are the places at each rank, a and
\* b down to it, g and h the points down to it.
Tallies(N, P, x, y, a, b, g, h) ==
    /\ N \in Nat /\ P \in [1..(N + 1) -> Nat] /\ \A r \in 1..N : P[r] > P[r + 1]
    /\ x \in [1..N -> Nat] /\ y \in [1..N -> Nat]
    /\ a \in [0..N -> Nat] /\ b \in [0..N -> Nat] /\ a[0] = 0 /\ b[0] = 0
    /\ \A r \in 1..N : a[r] = a[r - 1] + x[r] /\ b[r] = b[r - 1] + y[r]
    /\ g \in [0..N -> Nat] /\ h \in [0..N -> Nat] /\ g[0] = 0 /\ h[0] = 0
    /\ \A r \in 1..N : g[r] = g[r - 1] + x[r] * P[r] /\ h[r] = h[r - 1] + y[r] * P[r]

\* Who is never behind in places, and at some rank ahead, is ahead in points.
LEMMA LeadCounts ==
    ASSUME NEW N, NEW P, NEW x, NEW y, NEW a, NEW b, NEW g, NEW h,
           Tallies(N, P, x, y, a, b, g, h),
           \A r \in 1..N : a[r] >= b[r], NEW m \in 1..N, a[m] > b[m]
    PROVE  g[N] > h[N]
<1>. USE DEF Tallies
<1>. DEFINE Lead(n) == g[n] - h[n] >= (a[n] - b[n]) * P[n + 1]
            Strict(n) == g[n] - h[n] > (a[n] - b[n]) * P[n + 1]
            Holds(n) == n <= N => Lead(n) /\ (m <= n => Strict(n))
            T == {n \in Nat : Holds(n)}
<1>1. Holds(0)
  <2>1. P[1] \in Nat /\ m > 0 /\ 0 * P[1] = 0
    OBVIOUS
  <2>. QED
    BY <2>1
<1>2. ASSUME NEW n \in Nat, Holds(n) PROVE Holds(n + 1)
  <2>1. SUFFICES ASSUME n + 1 <= N PROVE Lead(n + 1) /\ (m <= n + 1 => Strict(n + 1))
    OBVIOUS
  <2>2. /\ n + 1 \in 1..N /\ n \in 0..N /\ n + 1 \in 0..N /\ n + 1 \in 1..(N + 1) /\ n + 2 \in 1..(N + 1)
        /\ (n + 1) - 1 = n /\ (n + 1) + 1 = n + 2
    BY <2>1
  <2>. DEFINE d == a[n] - b[n]
              d1 == a[n + 1] - b[n + 1]
              p == P[n + 1]
              p1 == P[n + 2]
              u == x[n + 1]
              v == y[n + 1]
  <2>3. /\ a[n] \in Nat /\ b[n] \in Nat /\ a[n + 1] \in Nat /\ b[n + 1] \in Nat
        /\ a[n + 1] = a[n] + u /\ b[n + 1] = b[n] + v /\ a[n + 1] >= b[n + 1]
        /\ u \in Nat /\ v \in Nat
    BY <2>2
  <2>4. d \in Int /\ d1 \in Int /\ d1 = d + (u - v) /\ d1 >= 0
    <3>. HIDE DEF u, v
    <3>2. d1 = (a[n] + u) - (b[n] + v) /\ a[n] + u >= b[n] + v
      BY <2>3
    <3>3. a[n] \in Nat /\ b[n] \in Nat /\ u \in Nat /\ v \in Nat
      BY <2>3
    <3>. HIDE DEF d1
    <3>4. /\ a[n] - b[n] \in Int /\ (a[n] + u) - (b[n] + v) \in Int
          /\ (a[n] + u) - (b[n] + v) = (a[n] - b[n]) + (u - v)
          /\ (a[n] + u) - (b[n] + v) >= 0
      BY <3>2, <3>3, LeadIs
    <3>. QED
      BY <3>2, <3>4, Zenon
  <2>5. p \in Nat /\ p1 \in Nat /\ p > p1
    BY <2>2
  <2>6. /\ g[n] \in Nat /\ h[n] \in Nat /\ g[n + 1] \in Nat /\ h[n + 1] \in Nat
        /\ g[n + 1] = g[n] + u * p /\ h[n + 1] = h[n] + v * p
    BY <2>2
  <2>7. Lead(n) /\ (m <= n => Strict(n))
    BY <1>2, <2>1
  <2>8. g[n] - h[n] >= d * p /\ (m <= n => g[n] - h[n] > d * p)
    BY <2>7
  <2>9. m <= n + 1 => m <= n \/ d1 > 0
    <3>1. m <= n + 1 => m <= n \/ m = n + 1
      OBVIOUS
    <3>2. m = n + 1 => d1 > 0
      BY <2>3
    <3>. QED
      BY <3>1, <3>2
  <2>10. /\ Lead(n + 1) <=> g[n + 1] - h[n + 1] >= d1 * p1
         /\ Strict(n + 1) <=> g[n + 1] - h[n + 1] > d1 * p1
    BY <2>2
  <2>. HIDE DEF d, d1, p, p1, u, v, Lead, Strict
  <2>11. /\ (g[n] + u * p) - (h[n] + v * p) >= d1 * p1
         /\ g[n] - h[n] > d * p \/ d1 > 0 => (g[n] + u * p) - (h[n] + v * p) > d1 * p1
    BY <2>3, <2>4, <2>5, <2>6, <2>8, LeadGrows
  <2>. QED
    BY <2>6, <2>8, <2>9, <2>10, <2>11
<1>3. Holds(N)
  <2>. HIDE DEF Holds
  <2>1. Nat \subseteq T
    <3>1. 0 \in T
      BY <1>1
    <3>2. \A n \in Nat : n \in T => n + 1 \in T
      BY <1>2
    <3>. HIDE DEF T
    <3>. QED
      BY <3>1, <3>2, Inductively
  <2>. QED
    BY <2>1
<1>4. g[N] - h[N] > (a[N] - b[N]) * P[N + 1]
  BY <1>3
<1>5. (a[N] - b[N]) * P[N + 1] >= 0 /\ (a[N] - b[N]) * P[N + 1] \in Int
  <2>1. N \in 1..N /\ N \in 0..N /\ N + 1 \in 1..(N + 1)
    OBVIOUS
  <2>2. a[N] \in Nat /\ b[N] \in Nat /\ a[N] >= b[N] /\ P[N + 1] \in Nat
    BY <2>1
  <2>. QED
    BY <2>2, LeadIsWorth, Zenon
<1>6. g[N] \in Nat /\ h[N] \in Nat
  OBVIOUS
<1>. QED
  BY <1>4, <1>5, <1>6

\* The places of e, down to each rank.
Counts(lists, e) == [r \in 0..MaxRank |-> Cardinality(Places(lists, e, 1..r))]
At(lists, e) == [r \in 1..MaxRank |-> Cardinality(Places(lists, e, {r}))]

LEMMA CountsAre ==
    ASSUME NEW lists, DOMAIN lists = 1..3, NEW e
    PROVE  /\ At(lists, e) \in [1..MaxRank -> Nat]
           /\ Counts(lists, e) \in [0..MaxRank -> Nat]
           /\ Counts(lists, e)[0] = 0
           /\ \A r \in 1..MaxRank : Counts(lists, e)[r] = Counts(lists, e)[r - 1] + At(lists, e)[r]
<1>1. MaxRank \in Nat
  BY FusionAssumption
<1>2. \A r \in 1..MaxRank : IsFiniteSet(Places(lists, e, {r})) /\ Cardinality(Places(lists, e, {r})) \in Nat
  BY FS_Singleton, PlacesAreFinite
<1>3. \A r \in 0..MaxRank : IsFiniteSet(Places(lists, e, 1..r)) /\ Cardinality(Places(lists, e, 1..r)) \in Nat
  BY FS_Interval, PlacesAreFinite
<1>4. Counts(lists, e)[0] = 0
  <2>1. Places(lists, e, 1..0) = {}
    BY DEF Places
  <2>2. Cardinality(Places(lists, e, 1..0)) = 0
    BY <2>1, FS_EmptySet
  <2>. QED
    BY <1>1, <2>2 DEF Counts
<1>5. ASSUME NEW r \in 1..MaxRank
      PROVE  Cardinality(Places(lists, e, 1..r)) =
                 Cardinality(Places(lists, e, 1..(r - 1))) + Cardinality(Places(lists, e, {r}))
  <2>. DEFINE S == Places(lists, e, 1..(r - 1))
              U == Places(lists, e, {r})
  <2>1. Places(lists, e, 1..r) = S \cup U
    <3>1. 1..r = (1..(r - 1)) \cup {r}
      BY <1>1
    <3>. QED
      BY <3>1 DEF Places
  <2>2. S \cap U = {}
    <3>1. \A o \in S : o[2] \in 1..(r - 1)
      BY DEF Places
    <3>2. \A o \in U : o[2] = r
      BY DEF Places
    <3>3. r \notin 1..(r - 1)
      BY <1>1
    <3>. HIDE DEF S, U
    <3>. QED
      BY <3>1, <3>2, <3>3
  <2>3. IsFiniteSet(S) /\ IsFiniteSet(U) /\ Cardinality(S) \in Nat /\ Cardinality(U) \in Nat
    BY <1>1, <1>2, <1>3
  <2>. HIDE DEF S, U
  <2>4. Cardinality(S \cup U) = Cardinality(S) + Cardinality(U)
    <3>1. Cardinality(S \cup U) = Cardinality(S) + Cardinality(U) - Cardinality(S \cap U)
      BY <2>3, FS_Union
    <3>2. Cardinality(S \cap U) = 0
      BY <2>2, FS_EmptySet
    <3>. QED
      BY <2>3, <3>1, <3>2
  <2>. QED
    BY <2>1, <2>4 DEF S, U
<1>6. \A r \in 1..MaxRank : r \in 0..MaxRank /\ r - 1 \in 0..MaxRank
  BY <1>1
<1>. QED
  BY <1>2, <1>3, <1>4, <1>5, <1>6 DEF Counts, At

\* Agreement gives the higher score.
LEMMA AgreementScores ==
    ASSUME NEW lists, ThreeLists(lists), \A l \in 1..3 : Len(lists[l]) <= MaxRank,
           NEW e, NEW f, NEW ranks, ranks = UNION {DOMAIN lists[l] : l \in DOMAIN lists},
           \A r \in ranks : Cardinality(Places(lists, e, 1..r)) >= Cardinality(Places(lists, f, 1..r)),
           NEW m \in ranks, Cardinality(Places(lists, e, 1..m)) > Cardinality(Places(lists, f, 1..m))
    PROVE  Score(lists, e) > Score(lists, f) /\ Listed(lists, e)
<1>. DEFINE a == Counts(lists, e)
            b == Counts(lists, f)
            x == At(lists, e)
            y == At(lists, f)
<1>1. MaxRank \in Nat /\ DOMAIN lists = 1..3
  BY FusionAssumption DEF ThreeLists
<1>2. ranks \subseteq 1..MaxRank
  <2>1. ASSUME NEW r \in ranks PROVE r \in 1..MaxRank
    <3>1. PICK l \in 1..3 : r \in DOMAIN lists[l]
      BY <1>1
    <3>2. lists[l] \in Seq(Entities) /\ Len(lists[l]) <= MaxRank
      BY DEF ThreeLists
    <3>3. DOMAIN lists[l] = 1..Len(lists[l]) /\ Len(lists[l]) \in Nat
      BY <3>2
    <3>. QED
      BY <1>1, <3>1, <3>2, <3>3
  <2>. QED
    BY <2>1
<1>3. /\ x \in [1..MaxRank -> Nat] /\ a \in [0..MaxRank -> Nat] /\ a[0] = 0
      /\ \A r \in 1..MaxRank : a[r] = a[r - 1] + x[r]
  BY <1>1, CountsAre
<1>4. /\ y \in [1..MaxRank -> Nat] /\ b \in [0..MaxRank -> Nat] /\ b[0] = 0
      /\ \A r \in 1..MaxRank : b[r] = b[r - 1] + y[r]
  BY <1>1, CountsAre
<1>5. \A r \in ranks : a[r] >= b[r]
  <2>1. \A r \in ranks : r \in 0..MaxRank
    BY <1>1, <1>2
  <2>. QED
    BY <2>1 DEF Counts
<1>6. a[m] > b[m] /\ m \in 1..MaxRank
  <2>1. m \in 0..MaxRank /\ m \in 1..MaxRank
    BY <1>1, <1>2
  <2>. QED
    BY <2>1 DEF Counts
<1>7. ASSUME NEW r \in 1..MaxRank, r \notin ranks PROVE x[r] = 0 /\ y[r] = 0
  <2>1. \A l \in 1..3 : r \notin DOMAIN lists[l]
    BY <1>1, <1>7
  <2>2. Places(lists, e, {r}) = {} /\ Places(lists, f, {r}) = {}
    BY <1>1, <2>1 DEF Places
  <2>. QED
    BY <2>2, FS_EmptySet DEF At
<1>8. \A r \in 1..MaxRank : a[r] >= b[r]
  <2>. DEFINE Ahead(n) == n <= MaxRank => a[n] >= b[n]
              T == {n \in Nat : Ahead(n)}
  <2>. HIDE DEF a, b, x, y
  <2>1. Ahead(0)
    BY <1>3, <1>4
  <2>2. ASSUME NEW n \in Nat, Ahead(n) PROVE Ahead(n + 1)
    <3>1. SUFFICES ASSUME n + 1 <= MaxRank PROVE a[n + 1] >= b[n + 1]
      OBVIOUS
    <3>2. n + 1 \in 1..MaxRank /\ n \in 0..MaxRank /\ (n + 1) - 1 = n /\ a[n] >= b[n]
      BY <1>1, <2>2, <3>1
    <3>3. CASE n + 1 \in ranks
      BY <1>5, <3>3
    <3>4. CASE n + 1 \notin ranks
      <4>1. a[n + 1] = a[n] + x[n + 1] /\ b[n + 1] = b[n] + y[n + 1]
        BY <1>3, <1>4, <3>2
      <4>2. x[n + 1] = 0 /\ y[n + 1] = 0
        BY <1>7, <3>2, <3>4
      <4>3. a[n] \in Nat /\ b[n] \in Nat
        BY <1>3, <1>4, <3>2
      <4>. QED
        BY <3>2, <4>1, <4>2, <4>3
    <3>. QED
      BY SMTT(30), <3>3, <3>4
  <2>. HIDE DEF Ahead
  <2>3. 0 \in T
    BY <2>1
  <2>4. Nat \subseteq T
    <3>1. \A n \in Nat : n \in T => n + 1 \in T
      BY <2>2
    <3>. HIDE DEF T
    <3>. QED
      BY <2>3, <3>1, Inductively
  <2>5. \A n \in Nat : Ahead(n)
    BY <2>4 DEF T
  <2>6. ASSUME NEW r \in 1..MaxRank PROVE r \in Nat /\ r <= MaxRank
    BY <1>1, <2>6
  <2>. QED
    BY <2>5, <2>6 DEF Ahead
<1>9. PICK g \in [0..MaxRank -> Nat] : /\ g[0] = 0 /\ g[MaxRank] = Score(lists, e)
                                       /\ \A r \in 1..MaxRank : g[r] = g[r - 1] + Earned(lists, e)[r]
  BY ZenonT(60), <1>1, ScoreIs
<1>10. PICK h \in [0..MaxRank -> Nat] : /\ h[0] = 0 /\ h[MaxRank] = Score(lists, f)
                                        /\ \A r \in 1..MaxRank : h[r] = h[r - 1] + Earned(lists, f)[r]
  BY ZenonT(60), <1>1, ScoreIs
<1>11. \A r \in 1..MaxRank : Earned(lists, e)[r] = x[r] * Points[r] /\ Earned(lists, f)[r] = y[r] * Points[r]
  BY DEF Earned, At
<1>12. \A r \in 1..MaxRank : g[r] = g[r - 1] + x[r] * Points[r] /\ h[r] = h[r - 1] + y[r] * Points[r]
  BY <1>9, <1>10, <1>11
<1>. HIDE DEF a, b, x, y
<1>13. g[MaxRank] > h[MaxRank]
  <2>1. \A r \in 1..MaxRank : a[r] = a[r - 1] + x[r] /\ b[r] = b[r - 1] + y[r]
    BY <1>3, <1>4
  <2>2. Points \in [1..(MaxRank + 1) -> Nat] /\ \A r \in 1..MaxRank : Points[r] > Points[r + 1]
    BY FusionAssumption
  <2>3. Tallies(MaxRank, Points, x, y, a, b, g, h)
    BY <1>1, <1>3, <1>4, <1>9, <1>10, <1>12, <2>1, <2>2 DEF Tallies
  <2>. QED
    BY <1>6, <1>8, <2>3, LeadCounts
<1>14. Listed(lists, e)
  <2>1. Places(lists, e, 1..m) # {}
    <3>1. SUFFICES ASSUME Places(lists, e, 1..m) = {} PROVE FALSE
      OBVIOUS
    <3>2. Cardinality(Places(lists, e, 1..m)) = 0
      BY <3>1, FS_EmptySet
    <3>3. Cardinality(Places(lists, f, 1..m)) \in Nat
      <4>1. m \in Int
        BY <1>6
      <4>2. IsFiniteSet(1..m)
        BY <4>1, FS_Interval
      <4>. QED
        BY <1>1, <4>2, PlacesAreFinite
    <3>. QED
      BY <3>2, <3>3
  <2>2. PICK o \in Places(lists, e, 1..m) : TRUE
    BY <2>1
  <2>3. o[1] \in 1..3 /\ o[2] \in DOMAIN lists[o[1]] /\ lists[o[1]][o[2]] = e
    BY <1>1 DEF Places
  <2>. QED
    BY <2>3 DEF Listed
<1>. QED
  BY <1>9, <1>10, <1>13, <1>14

LEMMA FusedAgreement == ASSUME FusedInv PROVE AgreementOutranks
<1>. SUFFICES ASSUME answer.at \in {"fuse", "reply"} PROVE AgreementOutranks
  BY DEF AgreementOutranks
<1>. DEFINE results == answer.results
            lists == Lists
            fused == Fusion(lists)
            ranks == UNION {DOMAIN lists[l] : l \in DOMAIN lists}
            Count(e, r) == Cardinality(Places(lists, e, 1..r))
            Outranks(e, f) == /\ \A r \in ranks : Count(e, r) >= Count(f, r)
                              /\ \E r \in ranks : Count(e, r) > Count(f, r)
<1>1. ListsSound /\ results = First(fused, TopK)
  BY DEF FusedInv, Answered
<1>2. TopK \in Nat
  BY LimitsAre DEF FusedInv
<1>3. ThreeLists(lists) /\ \A l \in 1..3 : Len(lists[l]) <= MaxRank
  BY <1>1, ListsAre
<1>. HIDE DEF lists
<1>4. /\ fused \in Seq([id : Entities, arms : SUBSET Arms])
      /\ \A k, l \in DOMAIN fused : fused[k].id = fused[l].id => k = l
      /\ \A e : Listed(lists, e) => \E k \in DOMAIN fused : fused[k].id = e
      /\ \A k, l \in DOMAIN fused : Score(lists, fused[k].id) > Score(lists, fused[l].id) => k < l
  BY <1>3, FusionIs
<1>. HIDE DEF fused, results
<1>5. \A i \in DOMAIN results : i \in DOMAIN fused /\ results[i] = fused[i]
  BY <1>1 DEF First
<1>6. DOMAIN results = {k \in DOMAIN fused : k <= TopK} /\ DOMAIN fused \subseteq Nat \ {0}
  <2>. DEFINE Results == [id : Entities, arms : SUBSET Arms]
  <2>. HIDE DEF Results
  <2>1. fused \in Seq(Results)
    BY <1>4 DEF Results
  <2>2. DOMAIN results = {k \in DOMAIN fused : k <= TopK}
    BY <1>1, <1>2, <2>1, FirstIs
  <2>3. DOMAIN fused = 1..Len(fused)
    BY <2>1
  <2>. QED
    BY <2>2, <2>3
<1>7. \A i, j \in DOMAIN results : results[i].id = results[j].id => i = j
  BY <1>4, <1>5
<1>8. ASSUME NEW i \in DOMAIN results, NEW e \in Entities, Outranks(e, results[i].id)
      PROVE  \E j \in 1..(i - 1) : results[j].id = e
  <2>. DEFINE f == results[i].id
  <2>1. PICK m \in ranks : Count(e, m) > Count(f, m)
    BY <1>8
  <2>2. \A r \in ranks : Count(e, r) >= Count(f, r)
    BY <1>8
  <2>. HIDE DEF f
  <2>3. Score(lists, e) > Score(lists, f) /\ Listed(lists, e)
    BY <1>3, <2>1, <2>2, AgreementScores
  <2>4. PICK k \in DOMAIN fused : fused[k].id = e
    BY <1>4, <2>3
  <2>5. i \in DOMAIN fused /\ fused[i].id = f
    BY <1>5 DEF f
  <2>6. k < i
    BY <1>4, <2>3, <2>4, <2>5
  <2>7. k \in Nat /\ k # 0 /\ i \in Nat /\ i <= TopK
    BY <1>6
  <2>8. k \in 1..(i - 1) /\ k \in DOMAIN results
    BY <1>2, <1>6, <2>6, <2>7
  <2>. QED
    BY <1>5, <2>4, <2>8
<1>. QED
  BY <1>7, <1>8 DEF AgreementOutranks, results, lists

\* Whatever the arms return, each entity is in an answer once, and one on which
\* they agree more, rank by rank, stands ahead of one on which they agree less:
\* top_k cuts nothing better than what it leaves.
THEOREM AgreementAlwaysOutranks == Spec => []AgreementOutranks
<1>1. FusedInv => AgreementOutranks
  BY FusedAgreement
<1>. QED
  BY <1>1, InitFused, StepFused, PTL DEF Spec
=============================================================================
