-------------------------- MODULE GovernanceProofs --------------------------
(***************************************************************************)
(* Proof that the rate limit of the control plane holds, for any agents,   *)
(* policies, window and clock.                                             *)
(***************************************************************************)
EXTENDS Governance, FiniteSetTheorems, TLAPS

\* The calls of an agent in the hour up to t.
Window(a, t) == {d \in history : d.agent = a /\ d.time > t - Hour /\ d.time <= t}

\* Calls are not in the future, and pruning a list drops none of the last hour.
LimiterInv ==
    /\ clock \in Nat
    /\ IsFiniteSet(history)
    /\ \A c \in history : c.agent \in Agents /\ c.time \in 0..clock
    /\ kept \in [Agents -> SUBSET history]
    /\ \A c \in history : c.time > clock - Hour => c \in kept[c.agent]

IInv == LimiterInv /\ WindowBounded

LEMMA InitIInv == Init => IInv
<1> SUFFICES ASSUME Init PROVE IInv  OBVIOUS
<1>1. IsFiniteSet(history)  BY FS_EmptySet DEF Init
<1> QED  BY <1>1 DEF Init, IInv, LimiterInv, WindowBounded

\* A call that passes the check: the hour up to it holds no more than allowed.
LEMMA AcceptedFits ==
    ASSUME IInv, NEW a \in Agents, NEW t \in {clock, clock + 1}, NEW call,
           call.agent = a, call.time = t, Check(a), history' = history \cup {call}
    PROVE  WindowBounded'
<1>1. IsFiniteSet(Recent(a)) /\ Recent(a) \subseteq history
  <2>1. Recent(a) \subseteq history  BY DEF Recent, IInv, LimiterInv
  <2> QED  BY <2>1, FS_Subset DEF IInv, LimiterInv
<1>2. IsFiniteSet(Recent(a) \cup {call}) /\ Cardinality(Recent(a) \cup {call}) <= Policies[a].calls
  <2>1. Policies[a].calls \in Nat  BY PolicyAssumption
  <2>2. Cardinality(Recent(a)) \in Nat  BY <1>1, FS_CardinalityType
  <2>3. /\ IsFiniteSet(Recent(a) \cup {call})
        /\ \/ Cardinality(Recent(a) \cup {call}) = Cardinality(Recent(a))
           \/ Cardinality(Recent(a) \cup {call}) = Cardinality(Recent(a)) + 1
    BY <1>1, FS_AddElement, Zenon
  <2>4. Cardinality(Recent(a)) < Policies[a].calls  BY DEF Check
  <2> QED  BY <2>1, <2>2, <2>3, <2>4
<1> DEFINE hour(c) == {d \in history' : d.agent = c.agent /\ d.time > c.time - Hour /\ d.time <= c.time}
<1>3. ASSUME NEW c \in history', call \in hour(c)
      PROVE  Cardinality(hour(c)) <= Policies[c.agent].calls
  <2>1. c.agent = a /\ c.time = t
    BY <1>3 DEF IInv, LimiterInv
  <2>2. hour(c) \subseteq Recent(a) \cup {call}
    BY <2>1, PolicyAssumption DEF Recent, IInv, LimiterInv
  <2>3. Cardinality(hour(c)) <= Cardinality(Recent(a) \cup {call})
    BY <2>2, <1>2, FS_Subset
  <2>4. Cardinality(hour(c)) \in Nat /\ Cardinality(Recent(a) \cup {call}) \in Nat
    BY <2>2, <1>2, FS_Subset, FS_CardinalityType
  <2> QED  BY <2>1, <2>3, <2>4, <1>2, PolicyAssumption
<1>4. ASSUME NEW c \in history', call \notin hour(c)
      PROVE  Cardinality(hour(c)) <= Policies[c.agent].calls
  <2>1. c \in history
    BY <1>4, PolicyAssumption DEF IInv, LimiterInv
  <2>2. hour(c) = {d \in history : d.agent = c.agent /\ d.time > c.time - Hour /\ d.time <= c.time}
    BY <1>4
  <2> QED  BY <2>1, <2>2 DEF IInv, WindowBounded
<1> QED  BY <1>3, <1>4 DEF WindowBounded

LEMMA AuthorizeIInv ==
    ASSUME IInv, NEW a \in Agents, NEW action, NEW estimate, NEW s, Authorize(a, action, estimate, s)
    PROVE  IInv'
<1>1. CASE verdict' = "ok"
  <2> DEFINE call == NextCall(a, clock')
  <2>1. /\ clock' \in {clock, clock + 1}
        /\ history' = history \cup {call}
        /\ kept' = [kept EXCEPT ![a] = Recent(a) \cup {call}]
    BY <1>1 DEF Authorize
  <2>2. call.agent = a /\ call.time = clock'  BY DEF NextCall, Call
  <2>3. Check(a)  BY <1>1 DEF Authorize, Decision
  <2> HIDE DEF call
  <2>4. WindowBounded'  BY <2>1, <2>2, <2>3, AcceptedFits
  <2>5. clock' \in Nat /\ IsFiniteSet(history')
    BY <2>1, FS_AddElement DEF IInv, LimiterInv
  <2>6. \A c \in history' : c.agent \in Agents /\ c.time \in 0..clock'
    BY <2>1, <2>2, <2>5 DEF IInv, LimiterInv
  <2>7. kept' \in [Agents -> SUBSET history']
    BY <2>1 DEF IInv, LimiterInv, Recent
  <2>8. ASSUME NEW c \in history', c.time > clock' - Hour PROVE c \in kept'[c.agent]
    <3>1. CASE c = call  BY <2>1, <2>2, <3>1 DEF IInv, LimiterInv
    <3>2. CASE c \in history
      <4>1. c.time > clock - Hour
        BY <2>1, <2>8, <3>2, PolicyAssumption DEF IInv, LimiterInv
      <4> QED  BY <2>1, <3>2, <4>1 DEF IInv, LimiterInv, Recent
    <3> QED  BY <2>1, <3>1, <3>2
  <2> QED  BY <2>4, <2>5, <2>6, <2>7, <2>8 DEF IInv, LimiterInv
<1>2. CASE verdict' # "ok"
  <2>1. UNCHANGED <<clock, history>> /\ kept' = [kept EXCEPT ![a] = Recent(a)]
    BY <1>2 DEF Authorize
  <2> QED  BY <2>1 DEF IInv, LimiterInv, WindowBounded, Recent
<1> QED  BY <1>1, <1>2

LEMMA StepIInv == ASSUME IInv, [Next]_vars PROVE IInv'
<1>1. ASSUME NEW a \in Agents, NEW action \in Actions, NEW estimate \in Estimates,
             NEW s \in Sessions \cup {NoSession}, Authorize(a, action, estimate, s)
      PROVE  IInv'
  BY <1>1, AuthorizeIInv
<1>2. ASSUME NEW cost \in Charges, NEW s \in Sessions \cup {NoSession}, AddCost(cost, s) PROVE IInv'
  BY <1>2 DEF AddCost, IInv, LimiterInv, WindowBounded
<1>3. CASE Tick
  BY <1>3, PolicyAssumption DEF Tick, IInv, LimiterInv, WindowBounded
<1>4. CASE NewDay
  BY <1>4 DEF NewDay, IInv, LimiterInv, WindowBounded
<1>5. CASE UNCHANGED vars
  BY <1>5 DEF vars, IInv, LimiterInv, WindowBounded
<1> QED  BY <1>1, <1>2, <1>3, <1>4, <1>5 DEF Next

\* No agent ever has more calls let through within an hour than its policy
\* allows, whenever the hour begins.
THEOREM WindowAlwaysBounded == Spec => []WindowBounded
<1>1. IInv => WindowBounded  BY DEF IInv
<1> QED  BY <1>1, InitIInv, StepIInv, PTL DEF Spec
=============================================================================
