------------------------ MODULE KnowledgeBackupProofs -----------------------
(***************************************************************************)
(* Proofs about KnowledgeBackup and the scripts of GraphLoading that it    *)
(* composes: type correctness, the safety invariants of the load, the dump *)
(* and the restore, and two action properties, from one inductive          *)
(* invariant.                                                              *)
(***************************************************************************)
EXTENDS KnowledgeBackup, FiniteSetTheorems, TLAPS

-----------------------------------------------------------------------------
(* Types.  NodeMaps are the functions that the nodes of a graph may be.    *)

Node == [era : Nat, vec : Vectors]
NodeMaps == UNION {[S -> Node] : S \in SUBSET Ids}
Graph == [nodes : NodeMaps, rels : SUBSET (Ids \X Ids), indexes : SUBSET Indexes]
File(R) == [there : BOOLEAN, records : SUBSET R, ends : Ends]

Jobs == [script : Scripts \cup {"none"},
         pc : {"ended", "clear", "indexes", "nodes", "rels", "gate", "vectors",
               "vector_index", "name_index"},
         at : Nat, skipped : Nat, retries : Nat,
         exit : {"none", "ok", "failed", "raised"}, runs : Nat]

Dumps == [pc : {"none", "rels", "indexes", "meta", "verify", "ended"},
          nodes : SUBSET NodeRecord, rels : SUBSET RelRecord,
          quiet : BOOLEAN, exit : {"none", "ok", "bad"}]

FileSets == [nodes : File(NodeRecord), rels : File(RelRecord),
             indexes : [there : BOOLEAN, good : BOOLEAN, listed : SUBSET Indexes],
             meta : [there : BOOLEAN, nodes : Nat, rels : Nat], damage : Nat]

Restores == [pc : {"none", "constraint", "nodes", "rels", "indexes", "verify", "ended"},
             into : Instances, empty : BOOLEAN,
             nodes : SUBSET NodeRecord, batch : SUBSET NodeRecord, rels : SUBSET RelRecord,
             exit : {"none", "refused", "bad", "mismatch", "ok"}, runs : Nat]

LoadTypes ==
    /\ db \in [Instances -> Graph]
    /\ era \in Nat
    /\ job \in Jobs

Types ==
    /\ LoadTypes
    /\ dump \in Dumps
    /\ files \in FileSets
    /\ restore \in Restores

\* A relationship hangs between two nodes that are there.
Closed == \A i \in Instances : \A r \in db[i].rels : Present(db[i], r)
-----------------------------------------------------------------------------
(* The script: what the batches behind it have left in the graph.          *)

Linked(n) == Relations[n] \in db["old"].rels
Behind(n) == n \in DOMAIN Relations /\ (job.pc = "gate" \/ n <= job.at)

Loaded ==
    /\ job.pc = "nodes" => job.at <= Cardinality(LoadedIds) /\ 1..job.at \subseteq DOMAIN db["old"].nodes
    /\ job.pc \in {"rels", "gate"} =>
           /\ LoadedIds \subseteq DOMAIN db["old"].nodes
           /\ \A n \in DOMAIN Relations :
                  Behind(n) => /\ Present(db["old"], Relations[n]) => Linked(n)
                               /\ job.skipped = 0 => Linked(n)
    /\ job.pc = "vectors" => job.script \in {"embed", "vectors"}
-----------------------------------------------------------------------------
(* The dump and its files.                                                 *)

OneEach(nodes) == \A m, n \in nodes : m.id = n.id => m = n
Pair(r) == <<r.start.id, r.end.id>>
OnePair(rels) == \A r, s \in rels : Pair(r) = Pair(s) => r = s
In(nodes, eid) == \E n \in nodes : n.id = eid.id /\ n.era = eid.era

Dumped ==
    /\ IsFiniteSet(dump.nodes) /\ OneEach(dump.nodes)
    /\ IsFiniteSet(dump.rels) /\ OnePair(dump.rels)
    /\ dump.quiet => \A r \in dump.rels : In(dump.nodes, r.start) /\ In(dump.nodes, r.end)
    /\ dump.pc = "none" => dump.rels = {}
    /\ dump.pc \in {"none", "rels"} => ~dump.quiet
    /\ dump.pc # "ended" => dump.exit = "none"

Written ==
    /\ files.nodes.records \subseteq dump.nodes
    /\ files.rels.records \subseteq dump.rels
    /\ files.meta.there => /\ dump.pc \in {"verify", "ended"}
                           /\ files.meta.nodes = Cardinality(dump.nodes)
                           /\ files.meta.rels = Cardinality(dump.rels)
    /\ dump.exit = "ok" /\ files.damage = 0 =>
           files.nodes = Lines(dump.nodes) /\ files.rels = Lines(dump.rels)
-----------------------------------------------------------------------------
(* The restore.                                                            *)

Running == restore.pc \notin {"none", "ended"}

\* One process at a time: no restore before the dump is over, and no script
\* during one.
Apart ==
    /\ dump.pc # "ended" => restore.pc = "none" /\ restore.exit = "none" /\ db["new"] = EmptyGraph
    /\ ~Running => restore.nodes = {} /\ restore.batch = {} /\ restore.rels = {}
    /\ restore.runs = 0 => restore.pc = "none" /\ restore.exit = "none"
    /\ Running => job.pc = "ended" /\ files.meta.there /\ restore.exit = "none"
    /\ restore.exit \in {"mismatch", "ok"} => files.meta.there

\* What "new" holds came out of the dump, and what is still to be restored.
FromDump ==
    /\ \A i \in DOMAIN db["new"].nodes :
           \E n \in dump.nodes : n.id = i /\ n.vec = db["new"].nodes[i].vec
    /\ \A p \in db["new"].rels : \E r \in dump.rels : p = Pair(r)
    /\ restore.nodes \subseteq dump.nodes /\ restore.batch \subseteq dump.nodes
    /\ restore.rels \subseteq dump.rels

\* What was in the files is in the instance or still to be restored.
Restored(n) == n.id \in DOMAIN Into.nodes
Underway ==
    /\ restore.pc \in {"constraint", "nodes"} =>
           \A n \in files.nodes.records : n \in restore.nodes \/ n \in restore.batch \/ Restored(n)
    /\ restore.pc \in {"rels", "indexes", "verify"} =>
           \A n \in files.nodes.records : Restored(n)
    /\ restore.pc \in {"constraint", "nodes", "rels"} =>
           \A r \in files.rels.records :
               r \in restore.rels \/ (Known(r.start) /\ Known(r.end) => Pair(r) \in Into.rels)
    /\ restore.pc \in {"indexes", "verify"} =>
           \A r \in files.rels.records : Known(r.start) /\ Known(r.end) => Pair(r) \in Into.rels

IndInv ==
    /\ Types /\ Closed /\ Loaded /\ Dumped /\ Written /\ Apart /\ FromDump /\ Underway
    /\ RestoreFaithful /\ QuietDumpRestores
-----------------------------------------------------------------------------
(* Facts about the operators.                                              *)

\* Upto stops at n, and otherwise a whole batch further on.
LEMMA UptoFacts ==
    ASSUME NEW at \in Nat, NEW batch \in Nat \ {0}, NEW n \in Nat, at <= n
    PROVE  /\ Upto(at, batch, n) \in Nat
           /\ at <= Upto(at, batch, n) /\ Upto(at, batch, n) <= n
           /\ Upto(at, batch, n) <= at + batch
           /\ Upto(at, batch, n) # n => Upto(at, batch, n) = at + batch
BY DEF Upto

\* The entities a script loads are the first of them, as many as there are.
LEMMA LoadedIdsCounted ==
    /\ Cardinality(LoadedIds) \in Nat
    /\ LoadedIds = 1..Cardinality(LoadedIds)
    /\ LoadedIds \subseteq Ids
<1>1. NumEntities \in Nat /\ NumStructural \in Nat /\ NumStructural <= NumEntities
  BY EntitiesAssumption
<1>2. ASSUME NEW n \in Nat
      PROVE  Cardinality(1..n) = n
  <2>1. CASE n = 0
    BY <2>1, FS_EmptySet
  <2>2. CASE n > 0
    BY <2>2, FS_Interval
  <2> QED  BY <2>1, <2>2
<1> QED  BY <1>1, <1>2 DEF LoadedIds, Ids

LEMMA BatchFacts ==
    /\ NodeBatch \in Nat \ {0} /\ RelBatch \in Nat \ {0} /\ VectorBatch \in Nat \ {0}
    /\ Len(Relations) \in Nat /\ DOMAIN Relations = 1..Len(Relations)
    /\ NumEntities \in Nat /\ RestoreBatch \in Nat \ {0}
BY BatchAssumption, RelationsAssumption, EntitiesAssumption, RestoreAssumption

\* The empty graph is a graph.
LEMMA EmptyGraphTyped ==
    /\ EmptyGraph \in Graph /\ DOMAIN EmptyGraph.nodes = {} /\ EmptyGraph.rels = {}
<1>1. EmptyGraph.nodes \in [{} -> Node]
  BY DEF EmptyGraph
<1>2. EmptyGraph.nodes \in NodeMaps
  BY <1>1 DEF NodeMaps
<1> QED  BY <1>2 DEF EmptyGraph, Graph

\* What a graph is, field by field.
LEMMA GraphFields ==
    ASSUME NEW g \in Graph
    PROVE  /\ DOMAIN g.nodes \subseteq Ids /\ g.nodes \in [DOMAIN g.nodes -> Node]
           /\ g.rels \subseteq Ids \X Ids /\ g.indexes \subseteq Indexes
BY DEF Graph, NodeMaps

\* Other nodes on a set of entities, other relationships, other indexes.
LEMMA NodesReplaced ==
    ASSUME NEW g \in Graph, NEW S \in SUBSET Ids, NEW f \in [S -> Node]
    PROVE  /\ [g EXCEPT !.nodes = f] \in Graph
           /\ [g EXCEPT !.nodes = f].nodes = f
           /\ [g EXCEPT !.nodes = f].rels = g.rels
           /\ [g EXCEPT !.nodes = f].indexes = g.indexes
<1>1. f \in NodeMaps
  BY DEF NodeMaps
<1> QED  BY <1>1 DEF Graph

LEMMA RelsReplaced ==
    ASSUME NEW g \in Graph, NEW R \in SUBSET (Ids \X Ids)
    PROVE  /\ [g EXCEPT !.rels = R] \in Graph
           /\ [g EXCEPT !.rels = R].nodes = g.nodes
           /\ [g EXCEPT !.rels = R].rels = R
           /\ [g EXCEPT !.rels = R].indexes = g.indexes
BY DEF Graph

LEMMA IndexesReplaced ==
    ASSUME NEW g \in Graph, NEW X \in SUBSET Indexes
    PROVE  /\ [g EXCEPT !.indexes = X] \in Graph
           /\ [g EXCEPT !.indexes = X].nodes = g.nodes
           /\ [g EXCEPT !.indexes = X].rels = g.rels
           /\ [g EXCEPT !.indexes = X].indexes = X
BY DEF Graph

\* Another graph in one of the instances.
LEMMA InstanceReplaced ==
    ASSUME db \in [Instances -> Graph], NEW i \in Instances, NEW g \in Graph,
           db' = [db EXCEPT ![i] = g]
    PROVE  /\ db' \in [Instances -> Graph] /\ db'[i] = g
           /\ \A j \in Instances : j # i => db'[j] = db[j]
OBVIOUS
-----------------------------------------------------------------------------
(* The scripts.  LoadStep is what each of their actions is shown to do.    *)

LoadInv == LoadTypes /\ Closed /\ Loaded

Kept ==
    \A i \in DOMAIN db["old"].nodes :
        db["old"].nodes[i].vec = "embedding" /\ job.pc # "clear" =>
            /\ i \in DOMAIN db'["old"].nodes
            /\ \/ db'["old"].nodes[i].vec = "embedding"
               \/ job.script = "embed" /\ db'["old"].nodes[i].vec = "zeros"

LoadStep == LoadInv' /\ db'["new"] = db["new"] /\ Kept

\* A graph that is closed takes the place of the one in "old".
LEMMA OldReplaced ==
    ASSUME LoadInv, NEW g \in Graph, \A r \in g.rels : Present(g, r),
           db' = [db EXCEPT !["old"] = g]
    PROVE  /\ db' \in [Instances -> Graph] /\ db'["old"] = g
           /\ db'["new"] = db["new"] /\ Closed'
<1>1. /\ db' \in [Instances -> Graph] /\ db'["old"] = g
      /\ \A j \in Instances : j # "old" => db'[j] = db[j]
  BY InstanceReplaced DEF LoadInv, LoadTypes, Instances
<1>2. db'["new"] = db["new"]
  BY <1>1 DEF Instances
<1>3. \A r \in db'["new"].rels : Present(db'["new"], r)
  BY <1>2 DEF LoadInv, Closed, Instances
<1> QED  BY <1>1, <1>2, <1>3 DEF Closed, Instances

\* Where no graph changes, nothing is lost and nothing dangles.
LEMMA GraphsUntouched ==
    ASSUME LoadInv, UNCHANGED db
    PROVE  /\ db' \in [Instances -> Graph] /\ db'["new"] = db["new"] /\ Closed' /\ Kept
<1>1. db' = db
  OBVIOUS
<1>2. Closed'
  BY <1>1 DEF LoadInv, Closed
<1>3. Kept
  BY <1>1 DEF Kept
<1> QED  BY <1>1, <1>2, <1>3 DEF LoadInv, LoadTypes

\* A script that ends leaves nothing to say of its batches.
LEMMA Ended ==
    ASSUME job \in Jobs, NEW exit \in {"ok", "failed", "raised"}, End(exit)
    PROVE  job' \in Jobs /\ job'.pc = "ended" /\ Loaded'
<1>1. job' \in Jobs /\ job'.pc = "ended"
  BY DEF End, Idle, Jobs
<1> QED  BY <1>1 DEF Loaded

LEMMA BeginLoads ==
    ASSUME LoadInv, NEW script \in Scripts, NEW clear \in BOOLEAN, Begin(script, clear)
    PROVE  LoadStep
<1>1. UNCHANGED <<db, era>>
  BY DEF Begin
<1>2. job \in Jobs
  BY DEF LoadInv, LoadTypes
<1>3. job' \in Jobs /\ job'.pc \in {"clear", "indexes", "vectors", "vector_index"}
      /\ (job'.pc = "vectors" => job'.script \in {"embed", "vectors"})
  <2>1. FirstPart[script] \in {"indexes", "vectors", "vector_index"}
        /\ (FirstPart[script] = "vectors" => script \in {"embed", "vectors"})
    BY DEF FirstPart, Scripts
  <2> DEFINE pc == IF clear THEN "clear" ELSE FirstPart[script]
             runs == job.runs + 1
  <2>2. job' = [Idle EXCEPT !.script = script, !.runs = runs, !.pc = pc]
    BY DEF Begin
  <2>3. pc \in {"clear", "indexes", "vectors", "vector_index"} /\ runs \in Nat
    BY <1>2, <2>1 DEF Jobs
  <2>4. pc = "vectors" => script \in {"embed", "vectors"}
    BY <2>1
  <2> HIDE DEF pc, runs
  <2>5. job' = [script |-> script, pc |-> pc, at |-> 0, skipped |-> 0,
                retries |-> 0, exit |-> "none", runs |-> runs]
    BY <2>2 DEF Idle
  <2> QED  BY <2>3, <2>4, <2>5 DEF Jobs
<1>4. Loaded'
  BY <1>3 DEF Loaded
<1>5. /\ db' \in [Instances -> Graph] /\ db'["new"] = db["new"] /\ Closed' /\ Kept
  BY <1>1, GraphsUntouched
<1> QED  BY <1>1, <1>3, <1>4, <1>5 DEF LoadStep, LoadInv, LoadTypes

LEMMA DieLoads ==
    ASSUME LoadInv, Die
    PROVE  LoadStep
<1>1. UNCHANGED <<db, era>> /\ End("raised") /\ job \in Jobs
  BY DEF Die, LoadInv, LoadTypes
<1>2. job' \in Jobs /\ Loaded'
  BY <1>1, Ended
<1>3. /\ db' \in [Instances -> Graph] /\ db'["new"] = db["new"] /\ Closed' /\ Kept
  BY <1>1, GraphsUntouched
<1> QED  BY <1>1, <1>2, <1>3 DEF LoadStep, LoadInv, LoadTypes

LEMMA GateLoads ==
    ASSUME LoadInv, Gate
    PROVE  LoadStep
<1>1. UNCHANGED <<db, era>> /\ job \in Jobs /\ (End("ok") \/ End("failed"))
  BY DEF Gate, LoadInv, LoadTypes
<1>2. job' \in Jobs /\ Loaded'
  BY <1>1, Ended
<1>3. /\ db' \in [Instances -> Graph] /\ db'["new"] = db["new"] /\ Closed' /\ Kept
  BY <1>1, GraphsUntouched
<1> QED  BY <1>1, <1>2, <1>3 DEF LoadStep, LoadInv, LoadTypes

\* --clear touches no relationship's ends: either it leaves the relationships
\* and every node, or it takes both away.
LEMMA ClearLoads ==
    ASSUME LoadInv, Clear
    PROVE  LoadStep
<1>1. db \in [Instances -> Graph] /\ db["old"] \in Graph /\ era \in Nat /\ job \in Jobs
  BY DEF LoadInv, LoadTypes, Instances
<1>2. Kept
  BY DEF Clear, Kept
<1>3. CASE job.script = "embed"
  <2> DEFINE f == [i \in DOMAIN db["old"].nodes |-> [db["old"].nodes[i] EXCEPT !.vec = "none"]]
             g == [db["old"] EXCEPT !.nodes = f]
  <2>1. DOMAIN db["old"].nodes \subseteq Ids /\ db["old"].nodes \in [DOMAIN db["old"].nodes -> Node]
    BY <1>1, GraphFields
  <2>2. f \in [DOMAIN db["old"].nodes -> Node] /\ DOMAIN f = DOMAIN db["old"].nodes
    BY <2>1 DEF Node, Vectors
  <2>3. db' = [db EXCEPT !["old"] = g] /\ Goto("vectors") /\ era' = era
    BY <1>3 DEF Clear
  <2> HIDE DEF f
  <2>4. g \in Graph /\ g.nodes = f /\ g.rels = db["old"].rels
    BY <1>1, <2>1, <2>2, NodesReplaced
  <2> HIDE DEF g
  <2>5. \A r \in g.rels : Present(g, r)
    BY <2>2, <2>4 DEF LoadInv, Closed, Instances, Present
  <2>6. db' \in [Instances -> Graph] /\ db'["new"] = db["new"] /\ Closed'
    BY <2>3, <2>4, <2>5, OldReplaced
  <2>7. job' \in Jobs /\ job'.pc = "vectors" /\ job'.script = "embed"
    BY <1>1, <1>3, <2>3 DEF Goto, Jobs
  <2>8. Loaded'
    BY <2>7 DEF Loaded
  <2> QED  BY <1>1, <1>2, <2>3, <2>6, <2>7, <2>8 DEF LoadStep, LoadInv, LoadTypes
<1>4. CASE job.script # "embed"
  <2> DEFINE g == [[db["old"] EXCEPT !.nodes = EmptyGraph.nodes] EXCEPT !.rels = {}]
  <2>1. db' = [db EXCEPT !["old"] = g] /\ Goto("indexes") /\ era' = era + 1
    BY <1>1, <1>4 DEF Clear, Graph
  <2>2. EmptyGraph.nodes \in [{} -> Node]
    BY DEF EmptyGraph
  <2>3. [db["old"] EXCEPT !.nodes = EmptyGraph.nodes] \in Graph
    BY <1>1, <2>2, NodesReplaced
  <2>4. g \in Graph /\ g.rels = {}
    BY <2>3, RelsReplaced
  <2> HIDE DEF g
  <2>5. db' \in [Instances -> Graph] /\ db'["new"] = db["new"] /\ Closed'
    BY <2>1, <2>4, OldReplaced
  <2>6. job' \in Jobs /\ job'.pc = "indexes"
    BY <1>1, <2>1 DEF Goto, Jobs
  <2>7. Loaded'
    BY <2>6 DEF Loaded
  <2> QED  BY <1>1, <1>2, <2>1, <2>5, <2>6, <2>7 DEF LoadStep, LoadInv, LoadTypes
<1> QED  BY <1>3, <1>4

\* New indexes leave the nodes and the relationships as they are.
LEMMA IndexesAdded ==
    ASSUME LoadInv, NEW X \in SUBSET Indexes,
           db' = [db EXCEPT !["old"].indexes = @ \cup X]
    PROVE  db' \in [Instances -> Graph] /\ db'["new"] = db["new"] /\ Closed' /\ Kept
<1> DEFINE Y == db["old"].indexes \cup X
           g == [db["old"] EXCEPT !.indexes = Y]
<1>1. db \in [Instances -> Graph] /\ db["old"] \in Graph
  BY DEF LoadInv, LoadTypes, Instances
<1>2. Y \subseteq Indexes
  BY <1>1, GraphFields
<1>3. db' = [db EXCEPT !["old"] = g]
  BY <1>1 DEF Instances
<1> HIDE DEF Y
<1>4. g \in Graph /\ g.nodes = db["old"].nodes /\ g.rels = db["old"].rels
  BY <1>1, <1>2, IndexesReplaced
<1> HIDE DEF g
<1>5. \A r \in g.rels : Present(g, r)
  BY <1>4 DEF LoadInv, Closed, Instances, Present
<1>6. db' \in [Instances -> Graph] /\ db'["old"] = g /\ db'["new"] = db["new"] /\ Closed'
  BY <1>3, <1>4, <1>5, OldReplaced
<1>7. Kept
  BY <1>4, <1>6 DEF Kept
<1> QED  BY <1>6, <1>7

LEMMA CreateIndexesLoads ==
    ASSUME LoadInv, CreateIndexes
    PROVE  LoadStep
<1>1. era' = era /\ era \in Nat /\ job \in Jobs /\ Goto("nodes")
  BY DEF CreateIndexes, LoadInv, LoadTypes
<1>2. db' = [db EXCEPT !["old"].indexes = @ \cup {"constraint", "labels"}]
  BY DEF CreateIndexes
<1>3. db' \in [Instances -> Graph] /\ db'["new"] = db["new"] /\ Closed' /\ Kept
  BY <1>2, IndexesAdded DEF Indexes
<1>4. job' \in Jobs /\ job'.pc = "nodes" /\ job'.at = 0 /\ job'.script = job.script
  BY <1>1 DEF Goto, Jobs
<1>5. Cardinality(LoadedIds)' \in Nat
  BY <1>4, LoadedIdsCounted DEF LoadedIds
<1>6. Loaded'
  BY <1>4, <1>5 DEF Loaded
<1> QED  BY <1>1, <1>3, <1>4, <1>6 DEF LoadStep, LoadInv, LoadTypes

LEMMA CreateVectorIndexLoads ==
    ASSUME LoadInv, CreateVectorIndex
    PROVE  LoadStep
<1>1. era' = era /\ era \in Nat /\ job \in Jobs
  BY DEF CreateVectorIndex, LoadInv, LoadTypes
<1>2. db' = [db EXCEPT !["old"].indexes = @ \cup {"vector"}]
  BY DEF CreateVectorIndex
<1>3. db' \in [Instances -> Graph] /\ db'["new"] = db["new"] /\ Closed' /\ Kept
  BY <1>2, IndexesAdded DEF Indexes
<1>4. Goto("name_index") \/ End("ok") \/ End("failed")
  BY DEF CreateVectorIndex
<1>5. job' \in Jobs /\ Loaded'
  <2>1. CASE Goto("name_index")
    BY <1>1, <2>1 DEF Goto, Jobs, Loaded
  <2>2. CASE End("ok") \/ End("failed")
    BY <1>1, <2>2, Ended
  <2> QED  BY <1>4, <2>1, <2>2
<1> QED  BY <1>1, <1>3, <1>5 DEF LoadStep, LoadInv, LoadTypes

LEMMA CreateNameIndexLoads ==
    ASSUME LoadInv, CreateNameIndex
    PROVE  LoadStep
<1>1. era' = era /\ era \in Nat /\ job \in Jobs /\ End("ok")
  BY DEF CreateNameIndex, LoadInv, LoadTypes
<1>2. db' = [db EXCEPT !["old"].indexes = @ \cup {"name"}]
  BY DEF CreateNameIndex
<1>3. db' \in [Instances -> Graph] /\ db'["new"] = db["new"] /\ Closed' /\ Kept
  BY <1>2, IndexesAdded DEF Indexes
<1>4. job' \in Jobs /\ Loaded'
  BY <1>1, Ended
<1> QED  BY <1>1, <1>3, <1>4 DEF LoadStep, LoadInv, LoadTypes

\* MERGE adds the entities it is given and changes no node that was there.
LEMMA MergedAdds ==
    ASSUME NEW g \in Graph, NEW ids \in SUBSET Ids, era \in Nat
    PROVE  /\ Merged(g, ids) \in Graph
           /\ DOMAIN Merged(g, ids).nodes = DOMAIN g.nodes \cup ids
           /\ \A i \in DOMAIN g.nodes : Merged(g, ids).nodes[i] = g.nodes[i]
           /\ Merged(g, ids).rels = g.rels
<1> DEFINE f == [i \in DOMAIN g.nodes \cup ids |->
                    IF i \in DOMAIN g.nodes THEN g.nodes[i] ELSE [era |-> era, vec |-> "none"]]
<1>1. DOMAIN g.nodes \subseteq Ids /\ g.nodes \in [DOMAIN g.nodes -> Node]
  BY GraphFields
<1>2. [era |-> era, vec |-> "none"] \in Node
  BY DEF Node, Vectors
<1>3. f \in [DOMAIN g.nodes \cup ids -> Node] /\ DOMAIN f = DOMAIN g.nodes \cup ids
      /\ \A i \in DOMAIN g.nodes : f[i] = g.nodes[i]
  BY <1>1, <1>2
<1>4. Merged(g, ids) = [g EXCEPT !.nodes = f]
  BY DEF Merged
<1> HIDE DEF f
<1>5. Merged(g, ids) \in Graph /\ Merged(g, ids).nodes = f /\ Merged(g, ids).rels = g.rels
  BY <1>1, <1>3, <1>4, NodesReplaced
<1> QED  BY <1>3, <1>5

LEMMA LoadNodesLoads ==
    ASSUME LoadInv, LoadNodes
    PROVE  LoadStep
<1> DEFINE last == Cardinality(LoadedIds)
           next == Upto(job.at, NodeBatch, last)
           ids == (job.at + 1)..next
           g == Merged(db["old"], ids)
<1>1. /\ db \in [Instances -> Graph] /\ db["old"] \in Graph /\ era \in Nat /\ era' = era
      /\ job \in Jobs /\ job.at \in Nat
  BY DEF LoadInv, LoadTypes, Instances, Jobs, LoadNodes
<1>2. job.pc = "nodes" /\ job.at <= last /\ 1..job.at \subseteq DOMAIN db["old"].nodes
  BY DEF LoadInv, Loaded, LoadNodes
<1>3. last \in Nat /\ LoadedIds = 1..last /\ LoadedIds \subseteq Ids
  BY LoadedIdsCounted
<1>4. next \in Nat /\ job.at <= next /\ next <= last
  BY <1>1, <1>2, <1>3, BatchFacts, UptoFacts
<1>5. db' = [db EXCEPT !["old"] = g]
  BY DEF LoadNodes
<1>6. \/ End("raised")
      \/ next = last /\ Goto("rels")
      \/ next # last /\ job' = [job EXCEPT !.at = next]
  BY DEF LoadNodes
<1> HIDE DEF last, next
<1>7. ids \subseteq Ids
  BY <1>1, <1>3, <1>4
<1>8. /\ g \in Graph /\ DOMAIN g.nodes = DOMAIN db["old"].nodes \cup ids /\ g.rels = db["old"].rels
      /\ \A i \in DOMAIN db["old"].nodes : g.nodes[i] = db["old"].nodes[i]
  BY <1>1, <1>7, MergedAdds
<1>9. 1..next \subseteq DOMAIN g.nodes
  BY <1>1, <1>2, <1>4, <1>8
<1> HIDE DEF ids, g
<1>10. \A r \in g.rels : Present(g, r)
  BY <1>8 DEF LoadInv, Closed, Instances, Present
<1>11. db' \in [Instances -> Graph] /\ db'["old"] = g /\ db'["new"] = db["new"] /\ Closed'
  BY <1>5, <1>8, <1>10, OldReplaced
<1>12. Kept
  BY <1>8, <1>11 DEF Kept
<1>13. CASE End("raised")
  <2>1. job' \in Jobs /\ Loaded'
    BY <1>1, <1>13, Ended
  <2> QED  BY <1>1, <1>11, <1>12, <2>1 DEF LoadStep, LoadInv, LoadTypes
<1>14. CASE next = last /\ Goto("rels")
  <2>1. job' \in Jobs /\ job'.pc = "rels" /\ job'.at = 0 /\ job'.script = job.script
    BY <1>1, <1>14 DEF Goto, Jobs
  <2>2. LoadedIds' \subseteq DOMAIN db'["old"].nodes
    BY <1>3, <1>9, <1>11, <1>14, <2>1 DEF LoadedIds
  <2>3. \A n \in DOMAIN Relations : ~Behind(n)'
    BY <2>1, BatchFacts DEF Behind
  <2>4. Loaded'
    BY <2>1, <2>2, <2>3 DEF Loaded
  <2> QED  BY <1>1, <1>11, <1>12, <2>1, <2>4 DEF LoadStep, LoadInv, LoadTypes
<1>15. CASE next # last /\ job' = [job EXCEPT !.at = next]
  <2>1. job' \in Jobs /\ job'.pc = "nodes" /\ job'.at = next /\ job'.script = job.script
    BY <1>1, <1>2, <1>4, <1>15 DEF Jobs
  <2>2. Cardinality(LoadedIds)' = last
    BY <2>1 DEF LoadedIds, last
  <2>3. Loaded'
    BY <1>4, <1>9, <1>11, <2>1, <2>2 DEF Loaded
  <2> QED  BY <1>1, <1>11, <1>12, <2>1, <2>3 DEF LoadStep, LoadInv, LoadTypes
<1> QED  BY <1>6, <1>13, <1>14, <1>15

\* What a job is after some of its fields have changed.
LEMMA JobChanged ==
    ASSUME job \in Jobs, NEW pc \in {"rels", "gate", "vectors", "vector_index"},
           NEW at \in Nat, NEW k \in Nat, NEW t \in Nat,
           job' = [script |-> job.script, pc |-> pc, at |-> at, skipped |-> k,
                   retries |-> t, exit |-> job.exit, runs |-> job.runs]
    PROVE  /\ job' \in Jobs /\ job'.script = job.script /\ job'.pc = pc
           /\ job'.at = at /\ job'.skipped = k
BY DEF Jobs

\* The counter of those skipped never falls, and stays at 0 only if nothing of
\* the batch was skipped.
LEMMA CountedFacts ==
    ASSUME job \in Jobs, NEW part \in SUBSET (DOMAIN Relations)
    PROVE  \E k \in Nat :
               /\ Counted(part) = [job EXCEPT !.skipped = k]
               /\ k = 0 => job.skipped = 0 /\ \A n \in part : Present(db["old"], Relations[n])
<1> DEFINE missed == {n \in part : ~Present(db["old"], Relations[n])}
           k == job.skipped + Cardinality(missed)
<1>1. IsFiniteSet(DOMAIN Relations)
  BY BatchFacts, FS_Interval
<1>2. IsFiniteSet(missed)
  BY <1>1, FS_Subset
<1>3. Cardinality(missed) \in Nat /\ (Cardinality(missed) = 0 <=> missed = {})
  BY <1>2, FS_CardinalityType, FS_EmptySet
<1>4. Counted(part) = [job EXCEPT !.skipped = k]
  BY DEF Counted, Jobs
<1>5. k \in Nat /\ (k = 0 => job.skipped = 0 /\ Cardinality(missed) = 0)
  BY <1>3 DEF Jobs
<1>6. missed = {} => \A n \in part : Present(db["old"], Relations[n])
  OBVIOUS
<1> HIDE DEF missed, k
<1> QED  BY <1>3, <1>4, <1>5, <1>6

LEMMA RetryRelsLoads ==
    ASSUME LoadInv, RetryRels
    PROVE  LoadStep
<1>1. UNCHANGED <<db, era>> /\ job \in Jobs /\ job.pc = "rels" /\ era \in Nat
  BY DEF RetryRels, LoadInv, LoadTypes
<1>2. db' \in [Instances -> Graph] /\ db'["new"] = db["new"] /\ Closed' /\ Kept
  BY <1>1, GraphsUntouched
<1>3. PICK reached \in job.at..Upto(job.at, RelBatch, Len(Relations)) :
          job' = [Counted({n \in Batch : n <= reached}) EXCEPT !.retries = @ + 1]
  BY DEF RetryRels
<1> DEFINE part == {n \in Batch : n <= reached}
<1>4. part \in SUBSET (DOMAIN Relations)
  BY DEF Batch
<1>5. PICK k \in Nat : /\ Counted(part) = [job EXCEPT !.skipped = k]
                       /\ k = 0 => job.skipped = 0
  BY <1>1, <1>4, CountedFacts
<1>6. job' = [[job EXCEPT !.skipped = k] EXCEPT !.retries = @ + 1]
  BY <1>3, <1>5
<1>7. /\ job' \in Jobs /\ job'.pc = "rels" /\ job'.at = job.at
      /\ job'.script = job.script /\ job'.skipped = k
  <2> DEFINE t == job.retries + 1
  <2>1. job.at \in Nat /\ t \in Nat
    BY <1>1 DEF Jobs
  <2>2. job' = [script |-> job.script, pc |-> "rels", at |-> job.at, skipped |-> k,
                retries |-> t, exit |-> job.exit, runs |-> job.runs]
    BY <1>1, <1>6 DEF Jobs
  <2> HIDE DEF t
  <2> QED  BY <1>1, <2>1, <2>2, JobChanged
<1>8. Loaded'
  <2>1. LoadedIds' = LoadedIds
    BY <1>7 DEF LoadedIds
  <2>2. \A n \in DOMAIN Relations : Behind(n)' => Behind(n)
    BY <1>1, <1>7 DEF Behind
  <2>3. \A n : Linked(n)' <=> Linked(n)
    BY <1>1 DEF Linked
  <2> QED  BY <1>1, <1>5, <1>7, <2>1, <2>2, <2>3 DEF LoadInv, Loaded
<1> QED  BY <1>1, <1>2, <1>7, <1>8 DEF LoadStep, LoadInv, LoadTypes

LEMMA LoadRelsLoads ==
    ASSUME LoadInv, LoadRels
    PROVE  LoadStep
<1> DEFINE next == Upto(job.at, RelBatch, Len(Relations))
           found == {r \in {Relations[n] : n \in Batch} : Present(db["old"], r)}
           R == db["old"].rels \cup found
           g == [db["old"] EXCEPT !.rels = R]
<1>1. /\ db \in [Instances -> Graph] /\ db["old"] \in Graph /\ era \in Nat /\ era' = era
      /\ job \in Jobs /\ job.at \in Nat /\ job.pc = "rels"
  BY DEF LoadInv, LoadTypes, Instances, Jobs, LoadRels
<1>2. /\ LoadedIds \subseteq DOMAIN db["old"].nodes
      /\ \A n \in DOMAIN Relations :
             Behind(n) => /\ Present(db["old"], Relations[n]) => Linked(n)
                          /\ job.skipped = 0 => Linked(n)
  BY <1>1 DEF LoadInv, Loaded
<1>3. next <= job.at + RelBatch \/ next = Len(Relations)
  BY <1>1, BatchFacts DEF Upto
<1>4. db' = [db EXCEPT !["old"] = g]
  BY <1>1 DEF LoadRels, Instances
<1>5. \/ End("raised")
      \/ next = Len(Relations) /\ job' = [Counted(Batch) EXCEPT !.pc = "gate", !.at = 0]
      \/ next # Len(Relations) /\ job' = [Counted(Batch) EXCEPT !.at = next]
  BY DEF LoadRels
<1>6. next \in Nat /\ (next # Len(Relations) => next = job.at + RelBatch)
      /\ (next = Len(Relations) => Len(Relations) <= job.at + RelBatch)
  BY <1>1, BatchFacts DEF Upto
<1> HIDE DEF next
<1>7. \A n \in Batch : Present(db["old"], Relations[n]) => Relations[n] \in R
  OBVIOUS
<1>8. R \subseteq Ids \X Ids
  <2>1. \A n \in DOMAIN Relations : Relations[n] \in Named \X Named
    BY RelationsAssumption
  <2>2. \A n \in Batch : Present(db["old"], Relations[n]) => Relations[n] \in Ids \X Ids
    BY <1>1, <2>1, GraphFields DEF Batch, Present
  <2>3. db["old"].rels \subseteq Ids \X Ids
    BY <1>1, GraphFields
  <2> QED  BY <2>2, <2>3
<1>9. \A r \in R : Present(db["old"], r)
  BY DEF LoadInv, Closed, Instances
<1>10. db["old"].rels \subseteq R
  OBVIOUS
<1> HIDE DEF found, R
<1>11. g \in Graph /\ g.nodes = db["old"].nodes /\ g.rels = R
  BY <1>1, <1>8, RelsReplaced
<1> HIDE DEF g
<1>12. \A r \in g.rels : Present(g, r)
  BY <1>9, <1>11 DEF Present
<1>13. db' \in [Instances -> Graph] /\ db'["old"] = g /\ db'["new"] = db["new"] /\ Closed'
  BY <1>4, <1>11, <1>12, OldReplaced
<1>14. Kept
  BY <1>11, <1>13 DEF Kept
<1>15. CASE End("raised")
  <2>1. job' \in Jobs /\ Loaded'
    BY <1>1, <1>15, Ended
  <2> QED  BY <1>1, <1>13, <1>14, <2>1 DEF LoadStep, LoadInv, LoadTypes
<1>16. CASE ~End("raised")
  <2>1. PICK k \in Nat :
            /\ Counted(Batch) = [job EXCEPT !.skipped = k]
            /\ k = 0 => job.skipped = 0 /\ \A n \in Batch : Present(db["old"], Relations[n])
    BY <1>1, CountedFacts DEF Batch
  <2>2. \/ next = Len(Relations)
           /\ job' = [[job EXCEPT !.skipped = k] EXCEPT !.pc = "gate", !.at = 0]
        \/ next # Len(Relations) /\ job' = [[job EXCEPT !.skipped = k] EXCEPT !.at = next]
    BY <1>5, <1>16, <2>1
  <2>3. /\ job' \in Jobs /\ job'.script = job.script /\ job'.skipped = k
        /\ \/ next = Len(Relations) /\ job'.pc = "gate"
           \/ next # Len(Relations) /\ job'.pc = "rels" /\ job'.at = next
    <3>1. job.retries \in Nat
      BY <1>1 DEF Jobs
    <3>2. CASE next = Len(Relations)
      <4>1. job' = [script |-> job.script, pc |-> "gate", at |-> 0, skipped |-> k,
                    retries |-> job.retries, exit |-> job.exit, runs |-> job.runs]
        BY <1>1, <2>2, <3>2 DEF Jobs
      <4> QED  BY <1>1, <3>1, <3>2, <4>1, JobChanged
    <3>3. CASE next # Len(Relations)
      <4>1. job' = [script |-> job.script, pc |-> "rels", at |-> next, skipped |-> k,
                    retries |-> job.retries, exit |-> job.exit, runs |-> job.runs]
        BY <1>1, <2>2, <3>3 DEF Jobs
      <4> QED  BY <1>1, <1>6, <3>1, <3>3, <4>1, JobChanged
    <3> QED  BY <3>2, <3>3
  <2>4. LoadedIds' = LoadedIds
    BY <2>3 DEF LoadedIds
  <2>5. ASSUME NEW n \in DOMAIN Relations, Behind(n)'
        PROVE  Behind(n) \/ n \in Batch
    <3>1. n \in 1..Len(Relations)
      BY BatchFacts
    <3>2. n <= job.at + RelBatch
      <4>1. CASE next = Len(Relations)
        BY <1>1, <1>6, <3>1, <4>1, BatchFacts
      <4>2. CASE next # Len(Relations)
        <5>1. n <= next
          BY <2>3, <2>5, <4>2 DEF Behind
        <5> QED  BY <1>6, <4>2, <5>1
      <4> QED  BY <4>1, <4>2
    <3> QED  BY <1>1, <3>1, <3>2, BatchFacts DEF Behind, Batch
  <2>6. \A n \in DOMAIN Relations : Linked(n)' <=> Relations[n] \in R
    BY <1>11, <1>13 DEF Linked
  <2>7. \A n \in DOMAIN Relations : Present(db'["old"], Relations[n]) <=> Present(db["old"], Relations[n])
    BY <1>11, <1>13 DEF Present
  <2>8. \A n \in DOMAIN Relations :
            Behind(n)' => /\ Present(db'["old"], Relations[n]) => Linked(n)'
                          /\ job'.skipped = 0 => Linked(n)'
    BY <1>2, <1>7, <1>10, <2>1, <2>3, <2>5, <2>6, <2>7 DEF Linked
  <2>9. Loaded'
    BY <1>2, <1>11, <1>13, <2>3, <2>4, <2>8 DEF Loaded
  <2> QED  BY <1>1, <1>13, <1>14, <2>3, <2>9 DEF LoadStep, LoadInv, LoadTypes
<1> QED  BY <1>15, <1>16

LEMMA WriteVectorsLoads ==
    ASSUME LoadInv, WriteVectors
    PROVE  LoadStep
<1> DEFINE next == Upto(job.at, VectorBatch, NumEntities)
           chunk == (job.at + 1)..next
<1>1. /\ db \in [Instances -> Graph] /\ db["old"] \in Graph /\ era \in Nat /\ era' = era
      /\ job \in Jobs /\ job.at \in Nat /\ job.pc = "vectors"
  BY DEF LoadInv, LoadTypes, Instances, Jobs, WriteVectors
<1>2. job.script \in {"embed", "vectors"}
  BY <1>1 DEF LoadInv, Loaded
<1>3. next \in Nat
  BY <1>1, BatchFacts DEF Upto
<1>4. PICK refused \in SUBSET chunk :
          /\ job.script = "vectors" => refused = {}
          /\ db' = [db EXCEPT !["old"].nodes =
                 [i \in DOMAIN @ |->
                     IF i \notin chunk THEN @[i]
                     ELSE [@[i] EXCEPT !.vec = IF i \in refused THEN "zeros" ELSE "embedding"]]]
  BY DEF WriteVectors
<1>5. Goto("vector_index") \/ job' = [job EXCEPT !.at = next]
  BY DEF WriteVectors
<1> HIDE DEF next, chunk
<1> DEFINE f == [i \in DOMAIN db["old"].nodes |->
                    IF i \notin chunk THEN db["old"].nodes[i]
                    ELSE [db["old"].nodes[i] EXCEPT
                              !.vec = IF i \in refused THEN "zeros" ELSE "embedding"]]
           g == [db["old"] EXCEPT !.nodes = f]
<1>6. db' = [db EXCEPT !["old"] = g]
  BY <1>1, <1>4 DEF Instances
<1>7. DOMAIN db["old"].nodes \subseteq Ids /\ db["old"].nodes \in [DOMAIN db["old"].nodes -> Node]
  BY <1>1, GraphFields
<1>8. ASSUME NEW i \in DOMAIN db["old"].nodes
      PROVE  /\ f[i] \in Node
             /\ \/ f[i] = db["old"].nodes[i] \/ f[i].vec = "embedding"
                \/ job.script = "embed" /\ f[i].vec = "zeros"
  <2>1. db["old"].nodes[i] \in Node
    BY <1>7
  <2>2. CASE i \notin chunk
    BY <2>1, <2>2
  <2>3. CASE i \in chunk /\ i \in refused
    BY <1>2, <1>4, <2>1, <2>3 DEF Node, Vectors
  <2>4. CASE i \in chunk /\ i \notin refused
    BY <2>1, <2>4 DEF Node, Vectors
  <2> QED  BY <2>2, <2>3, <2>4
<1>9. DOMAIN f = DOMAIN db["old"].nodes /\ f \in [DOMAIN db["old"].nodes -> Node]
  BY <1>8
<1> HIDE DEF f
<1>10. g \in Graph /\ g.nodes = f /\ g.rels = db["old"].rels
  BY <1>1, <1>7, <1>9, NodesReplaced
<1> HIDE DEF g
<1>11. \A r \in g.rels : Present(g, r)
  BY <1>9, <1>10 DEF LoadInv, Closed, Instances, Present
<1>12. db' \in [Instances -> Graph] /\ db'["old"] = g /\ db'["new"] = db["new"] /\ Closed'
  BY <1>6, <1>10, <1>11, OldReplaced
<1>13. Kept
  BY <1>8, <1>9, <1>10, <1>12 DEF Kept
<1>14. job' \in Jobs /\ job'.pc \in {"vectors", "vector_index"} /\ job'.script = job.script
  <2>1. job.skipped \in Nat /\ job.retries \in Nat
    BY <1>1 DEF Jobs
  <2>2. CASE Goto("vector_index")
    <3>1. job' = [script |-> job.script, pc |-> "vector_index", at |-> 0, skipped |-> job.skipped,
                  retries |-> job.retries, exit |-> job.exit, runs |-> job.runs]
      BY <1>1, <2>2 DEF Goto, Jobs
    <3> QED  BY <1>1, <2>1, <3>1, JobChanged
  <2>3. CASE job' = [job EXCEPT !.at = next]
    <3>1. job' = [script |-> job.script, pc |-> "vectors", at |-> next, skipped |-> job.skipped,
                  retries |-> job.retries, exit |-> job.exit, runs |-> job.runs]
      BY <1>1, <2>3 DEF Jobs
    <3> QED  BY <1>1, <1>3, <2>1, <3>1, JobChanged
  <2> QED  BY <1>5, <2>2, <2>3
<1>15. Loaded'
  BY <1>2, <1>14 DEF Loaded
<1> QED  BY <1>1, <1>12, <1>13, <1>14, <1>15 DEF LoadStep, LoadInv, LoadTypes

LEMMA StepLoads ==
    ASSUME LoadInv, LoadNext
    PROVE  LoadStep
BY BeginLoads, DieLoads, ClearLoads, CreateIndexesLoads, LoadNodesLoads, LoadRelsLoads,
   RetryRelsLoads, GateLoads, WriteVectorsLoads, CreateVectorIndexLoads, CreateNameIndexLoads
   DEF LoadNext
-----------------------------------------------------------------------------
(* What the queries of the dump return.                                    *)

\* As many images as elements, when no two elements have the same image.
LEMMA SameCount ==
    ASSUME NEW S, IsFiniteSet(S), NEW f, f = [x \in S |-> f[x]],
           NEW T, T = {f[x] : x \in S}
    PROVE  /\ IsFiniteSet(T)
           /\ (\A x, y \in S : f[x] = f[y] => x = y) => Cardinality(T) = Cardinality(S)
<1>1. f \in [S -> T]
  OBVIOUS
<1>2. f \in Surjection(S, T)
  BY <1>1 DEF Surjection
<1>3. (\A x, y \in S : f[x] = f[y] => x = y) => f \in Injection(S, T)
  BY <1>1 DEF Injection, IsInjective
<1> QED  BY <1>2, <1>3, FS_Surjection

LEMMA IdsFinite == IsFiniteSet(Ids)
BY BatchFacts, FS_Interval DEF Ids

\* One record for each node, with the id that is unique.
LEMMA NodesOfGraph ==
    ASSUME NEW g \in Graph
    PROVE  /\ NodesOf(g) \subseteq NodeRecord
           /\ IsFiniteSet(NodesOf(g)) /\ OneEach(NodesOf(g))
<1> DEFINE rec(i) == [id |-> i, era |-> g.nodes[i].era, vec |-> g.nodes[i].vec]
           f == [i \in DOMAIN g.nodes |-> rec(i)]
<1>1. DOMAIN g.nodes \subseteq Ids /\ \A i \in DOMAIN g.nodes : g.nodes[i] \in Node
  BY GraphFields
<1>2. NodesOf(g) \subseteq NodeRecord
  BY <1>1 DEF NodesOf, NodeRecord, Node
<1>3. IsFiniteSet(DOMAIN g.nodes)
  BY <1>1, IdsFinite, FS_Subset
<1>4. NodesOf(g) = {f[i] : i \in DOMAIN g.nodes} /\ f = [i \in DOMAIN g.nodes |-> f[i]]
  BY DEF NodesOf
<1> HIDE DEF f
<1>5. IsFiniteSet(NodesOf(g))
  BY <1>3, <1>4, SameCount
<1>6. OneEach(NodesOf(g))
  BY DEF OneEach, NodesOf
<1> QED  BY <1>2, <1>5, <1>6

\* One record for each relationship, between the records of two nodes.
LEMMA RelsOfGraph ==
    ASSUME NEW g \in Graph, \A r \in g.rels : Present(g, r)
    PROVE  /\ RelsOf(g) \subseteq RelRecord
           /\ IsFiniteSet(RelsOf(g)) /\ OnePair(RelsOf(g))
           /\ \A r \in RelsOf(g) : In(NodesOf(g), r.start) /\ In(NodesOf(g), r.end)
<1> DEFINE f == [r \in g.rels |-> [start |-> EidOf(g, r[1]), end |-> EidOf(g, r[2])]]
<1>1. /\ DOMAIN g.nodes \subseteq Ids /\ \A i \in DOMAIN g.nodes : g.nodes[i] \in Node
      /\ g.rels \subseteq Ids \X Ids
  BY GraphFields
<1>2. \A r \in g.rels : r[1] \in DOMAIN g.nodes /\ r[2] \in DOMAIN g.nodes
  BY DEF Present
<1>3. \A i \in DOMAIN g.nodes : EidOf(g, i) \in Eid /\ EidOf(g, i).id = i
                                /\ In(NodesOf(g), EidOf(g, i))
  <2> SUFFICES ASSUME NEW i \in DOMAIN g.nodes
               PROVE  EidOf(g, i) \in Eid /\ EidOf(g, i).id = i /\ In(NodesOf(g), EidOf(g, i))
    OBVIOUS
  <2> DEFINE n == [id |-> i, era |-> g.nodes[i].era, vec |-> g.nodes[i].vec]
  <2>1. EidOf(g, i) \in Eid /\ EidOf(g, i).id = i
    BY <1>1 DEF EidOf, Eid, Node
  <2>2. n \in NodesOf(g) /\ n.id = EidOf(g, i).id /\ n.era = EidOf(g, i).era
    BY DEF NodesOf, EidOf
  <2> QED  BY <2>1, <2>2 DEF In
<1>4. RelsOf(g) \subseteq RelRecord
  BY <1>2, <1>3 DEF RelsOf, RelRecord
<1>5. \A r \in RelsOf(g) : In(NodesOf(g), r.start) /\ In(NodesOf(g), r.end)
  BY <1>2, <1>3 DEF RelsOf
<1>6. IsFiniteSet(g.rels)
  BY <1>1, IdsFinite, FS_Product, FS_Subset
<1>7. RelsOf(g) = {f[r] : r \in g.rels} /\ f = [r \in g.rels |-> f[r]]
  BY DEF RelsOf
<1> HIDE DEF f
<1>8. IsFiniteSet(RelsOf(g))
  BY <1>6, <1>7, SameCount
<1>9. OnePair(RelsOf(g))
  <2>1. ASSUME NEW a \in RelsOf(g), NEW b \in RelsOf(g), Pair(a) = Pair(b)
        PROVE  a = b
    <3>1. PICK p \in g.rels : a = [start |-> EidOf(g, p[1]), end |-> EidOf(g, p[2])]
      BY DEF RelsOf
    <3>2. PICK q \in g.rels : b = [start |-> EidOf(g, q[1]), end |-> EidOf(g, q[2])]
      BY DEF RelsOf
    <3>3. Pair(a) = <<p[1], p[2]>> /\ Pair(b) = <<q[1], q[2]>>
      BY <1>2, <1>3, <3>1, <3>2 DEF Pair
    <3>4. p[1] = q[1] /\ p[2] = q[2]
      <4> DEFINE p1 == p[1]  p2 == p[2]  q1 == q[1]  q2 == q[2]
      <4>1. <<p1, p2>> = <<q1, q2>>
        BY <2>1, <3>3
      <4> HIDE DEF p1, p2, q1, q2
      <4>2. p1 = q1 /\ p2 = q2
        BY <4>1
      <4> QED  BY <4>2 DEF p1, p2, q1, q2
    <3> QED  BY <3>1, <3>2, <3>4
  <2> QED  BY <2>1 DEF OnePair
<1> QED  BY <1>4, <1>5, <1>8, <1>9

\* A file that lost its end holds part of what it held.
LEMMA BrokenFile ==
    ASSUME NEW R, NEW file \in File(R), NEW f \in Broken(file)
    PROVE  f \in File(R) /\ f.records \subseteq file.records
<1>1. PICK kept \in SUBSET file.records, e \in Ends :
          f = [there |-> TRUE, records |-> kept, ends |-> e]
  BY DEF Broken, Prefixes
<1> QED  BY <1>1 DEF File

LEMMA WholeFile ==
    ASSUME NEW R, NEW records \in SUBSET R
    PROVE  Lines(records) \in File(R) /\ Lines(records).records = records
BY DEF Lines, File, Ends
-----------------------------------------------------------------------------
(* The dump.                                                               *)

\* What is said of the restore, and of the graphs.
RestoreInv == Apart /\ FromDump /\ Underway /\ RestoreFaithful /\ QuietDumpRestores

LEMMA Parts ==
    IndInv <=> Types /\ Closed /\ Loaded /\ Dumped /\ Written /\ RestoreInv
BY DEF IndInv, RestoreInv

\* Until the dump is over there is nothing to say of the restore.
LEMMA NoRestoreYet ==
    ASSUME IndInv, dump.pc # "ended", db'["new"] = db["new"], UNCHANGED restore
    PROVE  RestoreInv'
<1>1. /\ restore.pc = "none" /\ restore.exit = "none" /\ db["new"] = EmptyGraph
      /\ restore.nodes = {} /\ restore.batch = {} /\ restore.rels = {}
  BY DEF IndInv, Apart, Running
<1>2. Apart' /\ Underway' /\ RestoreFaithful' /\ QuietDumpRestores'
  BY <1>1 DEF Apart, Running, Underway, RestoreFaithful, QuietDumpRestores
<1>3. FromDump'
  BY <1>1, EmptyGraphTyped DEF FromDump
<1> QED  BY <1>2, <1>3 DEF RestoreInv

\* Where neither a graph nor the script changes.
LEMMA LoadUntouched ==
    ASSUME IndInv, UNCHANGED <<db, era, job>>
    PROVE  LoadTypes' /\ Closed' /\ Loaded'
<1>1. LoadTypes /\ Closed /\ Loaded
  BY DEF IndInv, Types
<1> QED  BY <1>1 DEF LoadTypes, Closed, Loaded, Behind, Linked, LoadedIds

LEMMA LoadInductive ==
    ASSUME IndInv, Load
    PROVE  IndInv'
<1>1. LoadInv /\ LoadNext /\ dump.pc # "ended" /\ UNCHANGED <<dump, files, restore>>
  BY DEF IndInv, Types, LoadInv, Load
<1>2. LoadStep
  BY <1>1, StepLoads
<1>3. RestoreInv'
  BY <1>1, <1>2, NoRestoreYet DEF LoadStep
<1>4. Types' /\ Closed' /\ Loaded'
  BY <1>1, <1>2 DEF IndInv, Types, LoadStep, LoadInv
<1>5. Dumped' /\ Written'
  BY <1>1 DEF IndInv, Dumped, Written
<1> QED  BY <1>3, <1>4, <1>5 DEF IndInv, RestoreInv

\* A step of the dump process leaves the rest to be shown of its own files.
LEMMA DumpStep ==
    ASSUME IndInv, dump.pc # "ended", UNCHANGED <<db, era, job, restore>>,
           dump' \in Dumps, files' \in FileSets, Dumped', Written'
    PROVE  IndInv'
<1>1. RestoreInv'
  BY NoRestoreYet
<1>2. LoadTypes' /\ Closed' /\ Loaded'
  BY LoadUntouched
<1>3. Types'
  BY <1>2 DEF IndInv, Types
<1> QED  BY <1>1, <1>2, <1>3 DEF IndInv, RestoreInv

\* What the dump knows before it is over.
LEMMA DumpFields ==
    ASSUME IndInv
    PROVE  /\ dump \in Dumps /\ files \in FileSets /\ restore \in Restores
           /\ db["old"] \in Graph /\ db["new"] \in Graph
           /\ \A r \in db["old"].rels : Present(db["old"], r)
           /\ dump.nodes \subseteq NodeRecord /\ dump.rels \subseteq RelRecord
           /\ files.nodes \in File(NodeRecord) /\ files.rels \in File(RelRecord)
           /\ IsFiniteSet(dump.nodes) /\ IsFiniteSet(dump.rels)
           /\ Cardinality(dump.nodes) \in Nat /\ Cardinality(dump.rels) \in Nat
<1>1. Types /\ Closed /\ Dumped
  BY DEF IndInv
<1>2. /\ dump \in Dumps /\ files \in FileSets /\ restore \in Restores
      /\ db["old"] \in Graph /\ db["new"] \in Graph
      /\ \A r \in db["old"].rels : Present(db["old"], r)
  BY <1>1 DEF Types, LoadTypes, Instances, Closed
<1>3. /\ dump.nodes \subseteq NodeRecord /\ dump.rels \subseteq RelRecord
      /\ files.nodes \in File(NodeRecord) /\ files.rels \in File(RelRecord)
  BY <1>2 DEF Dumps, FileSets
<1>4. IsFiniteSet(dump.nodes) /\ IsFiniteSet(dump.rels)
  BY <1>1 DEF Dumped
<1> QED  BY <1>2, <1>3, <1>4, FS_CardinalityType

LEMMA DumpNodesInductive ==
    ASSUME IndInv, DumpNodes
    PROVE  IndInv'
<1> DEFINE nodes == NodesOf(db["old"])
           whole == Lines(nodes)
<1>1. /\ dump.pc = "none" /\ UNCHANGED <<db, era, job, restore>>
      /\ dump' = [dump EXCEPT !.pc = "rels", !.nodes = nodes]
      /\ files' = [files EXCEPT !.nodes = whole]
  BY DEF DumpNodes
<1>2. /\ dump \in Dumps /\ files \in FileSets /\ db["old"] \in Graph
  BY DumpFields
<1>3. nodes \subseteq NodeRecord /\ IsFiniteSet(nodes) /\ OneEach(nodes)
  BY <1>2, NodesOfGraph
<1>4. whole \in File(NodeRecord) /\ whole.records = nodes
  BY <1>3, WholeFile
<1> HIDE DEF nodes, whole
<1>5. /\ dump' \in Dumps /\ dump'.pc = "rels" /\ dump'.nodes = nodes /\ dump'.rels = dump.rels
      /\ dump'.quiet = dump.quiet /\ dump'.exit = dump.exit
  BY <1>1, <1>2, <1>3 DEF Dumps
<1>6. /\ files' \in FileSets /\ files'.nodes = whole /\ files'.rels = files.rels
      /\ files'.meta = files.meta /\ files'.damage = files.damage
  BY <1>1, <1>2, <1>4 DEF FileSets
<1>7. dump.rels = {} /\ ~dump.quiet /\ dump.exit = "none" /\ ~files.meta.there
  BY <1>1 DEF IndInv, Dumped, Written
<1>8. Dumped'
  BY <1>3, <1>5, <1>7, FS_EmptySet DEF Dumped, OnePair
<1>9. Written'
  BY <1>4, <1>5, <1>6, <1>7 DEF IndInv, Written
<1> QED  BY <1>1, <1>5, <1>6, <1>8, <1>9, DumpStep

LEMMA DumpRelsInductive ==
    ASSUME IndInv, DumpRels
    PROVE  IndInv'
<1> DEFINE rels == RelsOf(db["old"])
           whole == Lines(rels)
           quiet == (NodesOf(db["old"]) = dump.nodes)
<1>1. /\ dump.pc = "rels" /\ UNCHANGED <<db, era, job, restore>>
      /\ dump' = [dump EXCEPT !.pc = "indexes", !.rels = rels, !.quiet = quiet]
      /\ files' = [files EXCEPT !.rels = whole]
  BY DEF DumpRels
<1>2. /\ dump \in Dumps /\ files \in FileSets /\ db["old"] \in Graph
      /\ \A r \in db["old"].rels : Present(db["old"], r)
  BY DumpFields
<1>3. /\ rels \subseteq RelRecord /\ IsFiniteSet(rels) /\ OnePair(rels)
      /\ quiet => \A r \in rels : In(dump.nodes, r.start) /\ In(dump.nodes, r.end)
  BY <1>2, RelsOfGraph
<1>4. whole \in File(RelRecord) /\ whole.records = rels
  BY <1>3, WholeFile
<1>5. quiet \in BOOLEAN
  OBVIOUS
<1> HIDE DEF rels, whole, quiet
<1>6. /\ dump' \in Dumps /\ dump'.pc = "indexes" /\ dump'.nodes = dump.nodes /\ dump'.rels = rels
      /\ dump'.quiet = quiet /\ dump'.exit = dump.exit
  BY <1>1, <1>2, <1>3, <1>5 DEF Dumps
<1>7. /\ files' \in FileSets /\ files'.nodes = files.nodes /\ files'.rels = whole
      /\ files'.meta = files.meta /\ files'.damage = files.damage
  BY <1>1, <1>2, <1>4 DEF FileSets
<1>8. dump.exit = "none" /\ ~files.meta.there
  BY <1>1 DEF IndInv, Dumped, Written
<1>9. Dumped'
  BY <1>3, <1>6, <1>8 DEF IndInv, Dumped
<1>10. Written'
  BY <1>4, <1>6, <1>7, <1>8 DEF IndInv, Written
<1> QED  BY <1>1, <1>6, <1>7, <1>9, <1>10, DumpStep

LEMMA DumpIndexesInductive ==
    ASSUME IndInv, DumpIndexes
    PROVE  IndInv'
<1> DEFINE file == [there |-> TRUE, good |-> TRUE, listed |-> db["old"].indexes]
<1>1. /\ dump.pc = "indexes" /\ UNCHANGED <<db, era, job, restore>>
      /\ dump' = [dump EXCEPT !.pc = "meta"]
      /\ files' = [files EXCEPT !.indexes = file]
  BY DEF DumpIndexes
<1>2. dump \in Dumps /\ files \in FileSets /\ db["old"].indexes \subseteq Indexes
  BY DumpFields, GraphFields
<1>3. file \in [there : BOOLEAN, good : BOOLEAN, listed : SUBSET Indexes]
  BY <1>2
<1> HIDE DEF file
<1>4. /\ dump' \in Dumps /\ dump'.pc = "meta" /\ dump'.nodes = dump.nodes
      /\ dump'.rels = dump.rels /\ dump'.quiet = dump.quiet /\ dump'.exit = dump.exit
  BY <1>1, <1>2 DEF Dumps
<1>5. /\ files' \in FileSets /\ files'.nodes = files.nodes /\ files'.rels = files.rels
      /\ files'.meta = files.meta /\ files'.damage = files.damage
  BY <1>1, <1>2, <1>3 DEF FileSets
<1>6. dump.exit = "none" /\ ~files.meta.there
  BY <1>1 DEF IndInv, Dumped, Written
<1>7. Dumped'
  BY <1>4, <1>6 DEF IndInv, Dumped
<1>8. Written'
  BY <1>4, <1>5, <1>6 DEF IndInv, Written
<1> QED  BY <1>1, <1>4, <1>5, <1>7, <1>8, DumpStep

LEMMA DumpMetaInductive ==
    ASSUME IndInv, DumpMeta
    PROVE  IndInv'
<1> DEFINE n == Cardinality(dump.nodes)
           r == Cardinality(dump.rels)
           meta == [there |-> TRUE, nodes |-> n, rels |-> r]
<1>1. /\ dump.pc = "meta" /\ UNCHANGED <<db, era, job, restore>>
      /\ dump' = [dump EXCEPT !.pc = "verify"]
      /\ files' = [files EXCEPT !.meta = meta]
  BY DEF DumpMeta
<1>2. dump \in Dumps /\ files \in FileSets /\ n \in Nat /\ r \in Nat
  BY DumpFields
<1> HIDE DEF n, r
<1>3. meta \in [there : BOOLEAN, nodes : Nat, rels : Nat] /\ meta.nodes = n /\ meta.rels = r
  BY <1>2
<1> HIDE DEF meta
<1>4. /\ dump' \in Dumps /\ dump'.pc = "verify" /\ dump'.nodes = dump.nodes
      /\ dump'.rels = dump.rels /\ dump'.quiet = dump.quiet /\ dump'.exit = dump.exit
  BY <1>1, <1>2 DEF Dumps
<1>5. /\ files' \in FileSets /\ files'.nodes = files.nodes /\ files'.rels = files.rels
      /\ files'.meta = meta /\ files'.damage = files.damage
  BY <1>1, <1>2, <1>3 DEF FileSets
<1>6. dump.exit = "none"
  BY <1>1 DEF IndInv, Dumped
<1>7. Dumped'
  BY <1>4, <1>6 DEF IndInv, Dumped
<1>8. Written'
  BY <1>3, <1>4, <1>5, <1>6 DEF IndInv, Written, n, r
<1> QED  BY <1>1, <1>4, <1>5, <1>7, <1>8, DumpStep

\* The end of the dump, good or bad: it may have cut a file short.
LEMMA DumpDiesInductive ==
    ASSUME IndInv, DumpDies
    PROVE  IndInv'
<1>1. /\ dump.pc \in {"rels", "indexes", "meta"} /\ UNCHANGED <<db, era, job, restore>>
      /\ dump' = [dump EXCEPT !.pc = "ended", !.exit = "bad"]
  BY DEF DumpDies
<1>2. dump \in Dumps /\ files \in FileSets
      /\ files.nodes \in File(NodeRecord) /\ files.rels \in File(RelRecord)
  BY DumpFields
<1>3. /\ dump' \in Dumps /\ dump'.pc = "ended" /\ dump'.nodes = dump.nodes
      /\ dump'.rels = dump.rels /\ dump'.quiet = dump.quiet /\ dump'.exit = "bad"
  BY <1>1, <1>2 DEF Dumps
<1>4. /\ files' \in FileSets /\ files'.meta = files.meta
      /\ files'.nodes.records \subseteq files.nodes.records
      /\ files'.rels.records \subseteq files.rels.records
  <2>1. CASE UNCHANGED files
    BY <1>2, <2>1
  <2>2. CASE \E f \in Broken(files.nodes) : files' = [files EXCEPT !.nodes = f]
    <3>1. PICK f \in Broken(files.nodes) : files' = [files EXCEPT !.nodes = f]
      BY <2>2
    <3>2. f \in File(NodeRecord) /\ f.records \subseteq files.nodes.records
      BY <1>2, BrokenFile
    <3> QED  BY <1>2, <3>1, <3>2 DEF FileSets
  <2>3. CASE \E f \in Broken(files.rels) : files' = [files EXCEPT !.rels = f]
    <3>1. PICK f \in Broken(files.rels) : files' = [files EXCEPT !.rels = f]
      BY <2>3
    <3>2. f \in File(RelRecord) /\ f.records \subseteq files.rels.records
      BY <1>2, BrokenFile
    <3> QED  BY <1>2, <3>1, <3>2 DEF FileSets
  <2> QED  BY <2>1, <2>2, <2>3 DEF DumpDies
<1>5. ~files.meta.there
  BY <1>1 DEF IndInv, Written
<1>6. Dumped'
  BY <1>1, <1>3 DEF IndInv, Dumped
<1>7. Written'
  BY <1>3, <1>4, <1>5 DEF IndInv, Written
<1> QED  BY <1>1, <1>3, <1>4, <1>6, <1>7, DumpStep

\* A file that ends in a complete line and holds as many records as the query
\* returned holds them all.
LEMMA CheckedWhole ==
    ASSUME NEW R, NEW file \in File(R), NEW records, IsFiniteSet(records),
           file.records \subseteq records, Checks(file, Cardinality(records))
    PROVE  file = Lines(records)
<1>1. file.there /\ file.ends = "line" /\ Terminated(file) = Cardinality(records)
  BY DEF Checks
<1>2. Cardinality(file.records) \in Nat /\ Cardinality(records) \in Nat
  BY FS_Subset, FS_CardinalityType
<1>3. Cardinality(file.records) = Cardinality(records)
  BY <1>1, <1>2 DEF Terminated
<1>4. file.records = records
  BY <1>3, FS_Subset
<1>5. file.there = TRUE
  BY <1>1 DEF File
<1> QED  BY <1>1, <1>4, <1>5 DEF File, Lines

LEMMA VerifiedFiles ==
    ASSUME IndInv, Verified
    PROVE  files.nodes = Lines(dump.nodes) /\ files.rels = Lines(dump.rels)
<1>1. /\ files.nodes \in File(NodeRecord) /\ files.rels \in File(RelRecord)
      /\ IsFiniteSet(dump.nodes) /\ IsFiniteSet(dump.rels)
  BY DumpFields
<1>2. /\ files.meta.nodes = Cardinality(dump.nodes) /\ files.meta.rels = Cardinality(dump.rels)
      /\ files.nodes.records \subseteq dump.nodes /\ files.rels.records \subseteq dump.rels
  BY DEF IndInv, Written, Verified
<1>3. Checks(files.nodes, Cardinality(dump.nodes)) /\ Checks(files.rels, Cardinality(dump.rels))
  BY <1>2 DEF Verified
<1> QED  BY <1>1, <1>2, <1>3, CheckedWhole

LEMMA VerifyInductive ==
    ASSUME IndInv, Verify
    PROVE  IndInv'
<1>1. /\ dump.pc = "verify" /\ UNCHANGED <<db, era, job, files, restore>>
      /\ dump' = [dump EXCEPT !.pc = "ended", !.exit = IF Verified THEN "ok" ELSE "bad"]
  BY DEF Verify
<1>2. dump \in Dumps /\ files \in FileSets
  BY DumpFields
<1> DEFINE exit == IF Verified THEN "ok" ELSE "bad"
<1>3. exit \in {"ok", "bad"} /\ (exit = "ok" => Verified)
  OBVIOUS
<1>4. dump' = [dump EXCEPT !.pc = "ended", !.exit = exit]
  BY <1>1
<1> HIDE DEF exit
<1>5. /\ dump' \in Dumps /\ dump'.pc = "ended" /\ dump'.nodes = dump.nodes
      /\ dump'.rels = dump.rels /\ dump'.quiet = dump.quiet /\ dump'.exit = exit
  BY <1>2, <1>3, <1>4 DEF Dumps
<1>6. Dumped'
  BY <1>1, <1>5 DEF IndInv, Dumped
<1>7. Written'
  BY <1>1, <1>3, <1>5, VerifiedFiles DEF IndInv, Written
<1> QED  BY <1>1, <1>2, <1>5, <1>6, <1>7, DumpStep

\* Damage comes before any restore, and is counted.
LEMMA DamageInductive ==
    ASSUME IndInv, Damage
    PROVE  IndInv'
<1>1. UNCHANGED <<db, era, job, dump, restore>> /\ restore.runs = 0
  BY DEF Damage
<1>2. dump \in Dumps /\ files \in FileSets /\ restore \in Restores
      /\ files.nodes \in File(NodeRecord) /\ files.rels \in File(RelRecord)
  BY DumpFields
<1>3. /\ files' \in FileSets /\ files'.meta = files.meta /\ files'.damage = files.damage + 1
      /\ files'.nodes.records \subseteq files.nodes.records
      /\ files'.rels.records \subseteq files.rels.records
  <2> DEFINE d == files.damage + 1
  <2>1. d \in Nat
    BY <1>2 DEF FileSets
  <2>2. CASE \E f \in Broken(files.nodes) : files' = [files EXCEPT !.nodes = f, !.damage = @ + 1]
    <3>1. PICK f \in Broken(files.nodes) : files' = [files EXCEPT !.nodes = f, !.damage = d]
      BY <1>2, <2>2 DEF FileSets
    <3>2. f \in File(NodeRecord) /\ f.records \subseteq files.nodes.records
      BY <1>2, BrokenFile
    <3> HIDE DEF d
    <3>3. files' \in FileSets /\ files'.meta = files.meta /\ files'.damage = d
          /\ files'.nodes = f /\ files'.rels = files.rels
      BY <1>2, <2>1, <3>1, <3>2 DEF FileSets
    <3> QED  BY <3>2, <3>3 DEF d
  <2>3. CASE \E f \in Broken(files.rels) : files' = [files EXCEPT !.rels = f, !.damage = @ + 1]
    <3>1. PICK f \in Broken(files.rels) : files' = [files EXCEPT !.rels = f, !.damage = d]
      BY <1>2, <2>3 DEF FileSets
    <3>2. f \in File(RelRecord) /\ f.records \subseteq files.rels.records
      BY <1>2, BrokenFile
    <3> HIDE DEF d
    <3>3. files' \in FileSets /\ files'.meta = files.meta /\ files'.damage = d
          /\ files'.nodes = files.nodes /\ files'.rels = f
      BY <1>2, <2>1, <3>1, <3>2 DEF FileSets
    <3> QED  BY <3>2, <3>3 DEF d
  <2>4. CASE files' = [files EXCEPT !.indexes.good = FALSE, !.damage = @ + 1]
    <3> DEFINE file == [files.indexes EXCEPT !.good = FALSE]
    <3>1. files' = [files EXCEPT !.indexes = file, !.damage = d]
      BY <1>2, <2>4 DEF FileSets
    <3>2. file \in [there : BOOLEAN, good : BOOLEAN, listed : SUBSET Indexes]
      BY <1>2 DEF FileSets
    <3> HIDE DEF d, file
    <3>3. files' \in FileSets /\ files'.meta = files.meta /\ files'.damage = d
          /\ files'.nodes = files.nodes /\ files'.rels = files.rels
      BY <1>2, <2>1, <3>1, <3>2 DEF FileSets
    <3> QED  BY <3>3 DEF d
  <2> QED  BY <2>2, <2>3, <2>4 DEF Damage
<1>4. files'.damage # 0
  BY <1>2, <1>3 DEF FileSets
<1>5. restore.pc = "none" /\ restore.exit = "none"
  BY <1>1 DEF IndInv, Apart
<1>6. Types' /\ Closed' /\ Loaded'
  BY <1>1, <1>2, <1>3, LoadUntouched DEF Types
<1>7. Dumped'
  BY <1>1 DEF IndInv, Dumped
<1>8. Written'
  BY <1>1, <1>3, <1>4 DEF IndInv, Written
<1>9. Apart' /\ Underway' /\ RestoreFaithful' /\ QuietDumpRestores'
  BY <1>1, <1>3, <1>5 DEF IndInv, Apart, Running, Underway, RestoreFaithful, QuietDumpRestores
<1>10. FromDump'
  BY <1>1 DEF IndInv, FromDump
<1> QED  BY <1>6, <1>7, <1>8, <1>9, <1>10 DEF IndInv
-----------------------------------------------------------------------------
(* The restore.                                                            *)

\* While one runs nothing else does, and the dump and its files stand still.
LEMMA Alone ==
    ASSUME IndInv, Running
    PROVE  /\ dump.pc = "ended" /\ job.pc = "ended" /\ files.meta.there
           /\ restore.exit = "none" /\ restore.runs # 0
           /\ restore.into \in Instances /\ Into \in Graph
           /\ \A r \in Into.rels : Present(Into, r)
           /\ restore.nodes \subseteq NodeRecord /\ restore.batch \subseteq NodeRecord
           /\ restore.rels \subseteq RelRecord
<1>1. restore \in Restores /\ db \in [Instances -> Graph] /\ Closed
  BY DEF IndInv, Types, LoadTypes
<1>2. restore.into \in Instances /\ Into \in Graph /\ \A r \in Into.rels : Present(Into, r)
  BY <1>1 DEF Restores, Into, Closed
<1>3. /\ restore.nodes \subseteq NodeRecord /\ restore.batch \subseteq NodeRecord
      /\ restore.rels \subseteq RelRecord
  BY <1>1 DEF Restores
<1> QED  BY <1>2, <1>3 DEF IndInv, Apart, Running

\* A step of the restore leaves its own invariants to be shown.
LEMMA RestoreStep ==
    ASSUME IndInv, job.pc = "ended", UNCHANGED <<era, job, dump, files>>,
           db' \in [Instances -> Graph], Closed', restore' \in Restores, RestoreInv'
    PROVE  IndInv'
<1>1. Types'
  BY DEF IndInv, Types, LoadTypes
<1>2. Loaded'
  BY DEF Loaded
<1>3. Dumped' /\ Written'
  BY DEF IndInv, Dumped, Written
<1> QED  BY <1>1, <1>2, <1>3 DEF IndInv, RestoreInv

LEMMA SameGraphs ==
    ASSUME IndInv, UNCHANGED db
    PROVE  db' \in [Instances -> Graph] /\ Closed'
BY DEF IndInv, Types, LoadTypes, Closed

\* A graph that is closed takes the place of the one that is restored into.
LEMMA IntoReplaced ==
    ASSUME IndInv, Running, NEW g \in Graph, \A r \in g.rels : Present(g, r),
           db' = [db EXCEPT ![restore.into] = g], restore'.into = restore.into
    PROVE  /\ db' \in [Instances -> Graph] /\ Closed' /\ Into' = g
           /\ restore.into = "new" => db'["new"] = g
           /\ restore.into # "new" => db'["new"] = db["new"]
<1>1. db \in [Instances -> Graph] /\ restore.into \in Instances
  BY Alone DEF IndInv, Types, LoadTypes
<1>2. /\ db' \in [Instances -> Graph] /\ db'[restore.into] = g
      /\ \A j \in Instances : j # restore.into => db'[j] = db[j]
  BY <1>1, InstanceReplaced
<1>3. \A j \in Instances : \A r \in db'[j].rels : Present(db'[j], r)
  BY <1>2 DEF IndInv, Closed
<1> QED  BY <1>1, <1>2, <1>3 DEF Closed, Into, Instances

\* One that stops has nothing left to restore; what it says on exit is to be shown.
LEMMA Stopped ==
    ASSUME IndInv, Running, UNCHANGED <<db, era, job, dump, files>>,
           NEW exit \in {"bad", "mismatch", "ok"}, Stop(exit),
           exit = "ok" => RestoreFaithful', exit = "mismatch" => QuietDumpRestores'
    PROVE  IndInv'
<1>1. restore \in Restores
  BY DEF IndInv, Types
<1>2. restore' = [restore EXCEPT !.pc = "ended", !.nodes = {}, !.batch = {}, !.rels = {},
                                 !.exit = exit]
  BY DEF Stop
<1>3. /\ restore' \in Restores /\ restore'.pc = "ended" /\ restore'.nodes = {}
      /\ restore'.batch = {} /\ restore'.rels = {} /\ restore'.exit = exit
      /\ restore'.runs = restore.runs
  BY <1>1, <1>2 DEF Restores
<1>4. Apart'
  BY <1>3, Alone DEF Apart, Running
<1>5. FromDump'
  BY <1>3 DEF IndInv, FromDump
<1>6. Underway'
  BY <1>3 DEF Underway
<1>7. RestoreFaithful' /\ QuietDumpRestores'
  BY <1>3 DEF RestoreFaithful, QuietDumpRestores
<1> QED  BY <1>3, <1>4, <1>5, <1>6, <1>7, Alone, SameGraphs, RestoreStep DEF RestoreInv

\* One that goes on has not exited, so only its bookkeeping is to be shown.
LEMMA GoesOn ==
    ASSUME IndInv, Running, UNCHANGED <<era, job, dump, files>>,
           db' \in [Instances -> Graph], Closed', restore' \in Restores,
           restore'.pc \in {"nodes", "rels", "indexes", "verify"},
           restore'.exit = "none", restore'.runs = restore.runs,
           FromDump', Underway'
    PROVE  IndInv'
<1>1. Apart'
  BY Alone DEF Apart, Running
<1>2. RestoreFaithful' /\ QuietDumpRestores'
  BY DEF RestoreFaithful, QuietDumpRestores
<1> QED  BY <1>1, <1>2, Alone, RestoreStep DEF RestoreInv

LEMMA RestoreDiesInductive ==
    ASSUME IndInv, RestoreDies
    PROVE  IndInv'
BY Stopped DEF RestoreDies, Running

LEMMA StartRestoreInductive ==
    ASSUME IndInv, NEW into \in Instances, NEW force \in BOOLEAN, StartRestore(into, force)
    PROVE  IndInv'
<1>1. /\ ~Running /\ job.pc = "ended" /\ dump.pc = "ended"
      /\ UNCHANGED <<db, era, job, dump, files>>
  BY DEF StartRestore, Running
<1>2. restore \in Restores /\ files \in FileSets
  BY DumpFields
<1> DEFINE runs == restore.runs + 1
           empty == db[into].nodes = EmptyGraph.nodes
<1>3. runs \in Nat /\ runs # 0 /\ empty \in BOOLEAN
  BY <1>2 DEF Restores
<1>4. restore.nodes = {} /\ restore.batch = {} /\ restore.rels = {}
  BY <1>1 DEF IndInv, Apart
<1>5. db' \in [Instances -> Graph] /\ Closed'
  BY <1>1, SameGraphs
<1>6. \/ restore' = [restore EXCEPT !.pc = "ended", !.exit = "refused", !.runs = runs]
      \/ /\ files.meta.there
         /\ restore' = [pc |-> "constraint", into |-> into, empty |-> empty,
                        nodes |-> files.nodes.records, batch |-> {},
                        rels |-> files.rels.records, exit |-> "none", runs |-> runs]
  BY DEF StartRestore
<1> HIDE DEF runs, empty
<1>7. CASE restore' = [restore EXCEPT !.pc = "ended", !.exit = "refused", !.runs = runs]
  <2>1. /\ restore' \in Restores /\ restore'.pc = "ended" /\ restore'.exit = "refused"
        /\ restore'.runs = runs /\ restore'.nodes = {} /\ restore'.batch = {} /\ restore'.rels = {}
    BY <1>2, <1>3, <1>4, <1>7 DEF Restores
  <2>2. Apart' /\ Underway' /\ RestoreFaithful' /\ QuietDumpRestores'
    BY <1>1, <1>3, <2>1 DEF Apart, Running, Underway, RestoreFaithful, QuietDumpRestores
  <2>3. FromDump'
    BY <1>1, <2>1 DEF IndInv, FromDump
  <2> QED  BY <1>1, <1>5, <2>1, <2>2, <2>3, RestoreStep DEF RestoreInv
<1>8. CASE /\ files.meta.there
           /\ restore' = [pc |-> "constraint", into |-> into, empty |-> empty,
                          nodes |-> files.nodes.records, batch |-> {},
                          rels |-> files.rels.records, exit |-> "none", runs |-> runs]
  <2>1. files.nodes.records \subseteq NodeRecord /\ files.rels.records \subseteq RelRecord
    BY <1>2 DEF FileSets, File
  <2>2. restore' \in Restores
    BY <1>3, <1>8, <2>1 DEF Restores
  <2>3. /\ restore'.pc = "constraint" /\ restore'.exit = "none" /\ restore'.runs = runs
        /\ restore'.nodes = files.nodes.records /\ restore'.batch = {}
        /\ restore'.rels = files.rels.records
    BY <1>8
  <2>4. Apart' /\ RestoreFaithful' /\ QuietDumpRestores'
    BY <1>1, <1>3, <1>8, <2>3 DEF Apart, Running, RestoreFaithful, QuietDumpRestores
  <2>5. Underway'
    BY <1>1, <2>3 DEF Underway
  <2>6. FromDump'
    BY <1>1, <2>3 DEF IndInv, FromDump, Written
  <2> QED  BY <1>1, <1>5, <2>2, <2>4, <2>5, <2>6, RestoreStep DEF RestoreInv
<1> QED  BY <1>6, <1>7, <1>8

LEMMA RestoreConstraintInductive ==
    ASSUME IndInv, RestoreConstraint
    PROVE  IndInv'
<1> DEFINE X == Into.indexes \cup {"constraint"}
           g == [Into EXCEPT !.indexes = X]
<1>1. restore.pc = "constraint" /\ Running /\ UNCHANGED <<era, job, dump, files>>
  BY DEF RestoreConstraint, Running
<1>2. /\ restore \in Restores /\ restore.into \in Instances /\ Into \in Graph
      /\ \A r \in Into.rels : Present(Into, r)
  BY <1>1, Alone, DumpFields
<1>3. db' = [db EXCEPT ![restore.into] = g] /\ restore' = [restore EXCEPT !.pc = "nodes"]
  BY <1>2 DEF RestoreConstraint, Into, IndInv, Types, LoadTypes
<1>4. X \subseteq Indexes
  BY <1>2, GraphFields DEF Indexes
<1> HIDE DEF X
<1>5. g \in Graph /\ g.nodes = Into.nodes /\ g.rels = Into.rels
  BY <1>2, <1>4, IndexesReplaced
<1> HIDE DEF g
<1>6. /\ restore' \in Restores /\ restore'.pc = "nodes" /\ restore'.into = restore.into
      /\ restore'.nodes = restore.nodes /\ restore'.batch = restore.batch
      /\ restore'.rels = restore.rels /\ restore'.exit = restore.exit /\ restore'.runs = restore.runs
  BY <1>2, <1>3 DEF Restores
<1>7. \A r \in g.rels : Present(g, r)
  BY <1>2, <1>5 DEF Present
<1>8. /\ db' \in [Instances -> Graph] /\ Closed' /\ Into' = g
      /\ restore.into = "new" => db'["new"] = g
      /\ restore.into # "new" => db'["new"] = db["new"]
  BY <1>1, <1>3, <1>5, <1>6, <1>7, IntoReplaced
<1>9. FromDump'
  BY <1>1, <1>5, <1>6, <1>8 DEF IndInv, FromDump, Into
<1>10. Underway'
  BY <1>1, <1>5, <1>6, <1>8 DEF IndInv, Underway, Restored, Known
<1> QED  BY <1>1, <1>6, <1>8, <1>9, <1>10, Alone, GoesOn

\* The last batch is over when no record is left, or is cut off in the middle of one.
LEMMA ReadNodesInductive ==
    ASSUME IndInv, ReadNodes
    PROVE  IndInv'
<1>1. /\ restore.pc = "nodes" /\ restore.batch = {} /\ Running
      /\ UNCHANGED <<db, era, job, dump, files>>
  BY DEF ReadNodes, Running
<1>2. restore \in Restores /\ restore.exit = "none" /\ restore.nodes \subseteq NodeRecord
  BY <1>1, Alone, DumpFields
<1>3. db' \in [Instances -> Graph] /\ Closed'
  BY <1>1, SameGraphs
<1>4. CASE Stop("bad")
  BY <1>1, <1>4, Stopped
<1>5. CASE restore.nodes = {} /\ restore' = [restore EXCEPT !.pc = "rels"]
  <2>1. /\ restore' \in Restores /\ restore'.pc = "rels" /\ restore'.into = restore.into
        /\ restore'.nodes = restore.nodes /\ restore'.batch = restore.batch
        /\ restore'.rels = restore.rels /\ restore'.exit = restore.exit
        /\ restore'.runs = restore.runs
    BY <1>2, <1>5 DEF Restores
  <2>2. FromDump'
    BY <1>1, <2>1 DEF IndInv, FromDump
  <2>3. Underway'
    BY <1>1, <1>5, <2>1 DEF IndInv, Underway, Restored, Known, Into
  <2> QED  BY <1>1, <1>2, <1>3, <2>1, <2>2, <2>3, GoesOn
<1>6. CASE \E more \in SUBSET restore.nodes :
               restore' = [restore EXCEPT !.batch = more, !.nodes = @ \ more]
  <2>1. PICK more \in SUBSET restore.nodes :
            restore' = [restore EXCEPT !.batch = more, !.nodes = @ \ more]
    BY <1>6
  <2> DEFINE rest == restore.nodes \ more
  <2>2. restore' = [restore EXCEPT !.batch = more, !.nodes = rest]
    BY <1>2, <2>1 DEF Restores
  <2>3. rest \subseteq NodeRecord /\ more \subseteq NodeRecord
    BY <1>2
  <2>4. \A n \in restore.nodes : n \in rest \/ n \in more
    OBVIOUS
  <2>5. rest \subseteq restore.nodes
    OBVIOUS
  <2> HIDE DEF rest
  <2>6. /\ restore' \in Restores /\ restore'.pc = "nodes" /\ restore'.into = restore.into
        /\ restore'.nodes = rest /\ restore'.batch = more
        /\ restore'.rels = restore.rels /\ restore'.exit = restore.exit
        /\ restore'.runs = restore.runs
    BY <1>1, <1>2, <2>2, <2>3 DEF Restores
  <2>7. FromDump'
    BY <1>1, <2>5, <2>6 DEF IndInv, FromDump
  <2>8. Underway'
    BY <1>1, <2>4, <2>6 DEF IndInv, Underway, Restored, Known, Into
  <2> QED  BY <1>1, <1>2, <1>3, <2>6, <2>7, <2>8, GoesOn
<1> QED  BY <1>4, <1>5, <1>6 DEF ReadNodes

LEMMA CreateNodeInductive ==
    ASSUME IndInv, CreateNode
    PROVE  IndInv'
<1>1. restore.pc = "nodes" /\ Running /\ UNCHANGED <<era, job, dump, files>>
  BY DEF CreateNode, Running
<1>2. /\ restore \in Restores /\ restore.exit = "none" /\ restore.into \in Instances
      /\ Into \in Graph /\ \A r \in Into.rels : Present(Into, r)
      /\ restore.batch \subseteq NodeRecord /\ era \in Nat
  BY <1>1, Alone, DumpFields DEF IndInv, Types, LoadTypes
<1>3. CASE Stop("bad") /\ UNCHANGED db
  BY <1>1, <1>3, Stopped
<1>4. CASE ~(Stop("bad") /\ UNCHANGED db)
  <2>1. PICK n \in restore.batch :
            /\ n.id \notin DOMAIN Into.nodes
            /\ db' = [db EXCEPT ![restore.into].nodes =
                          [i \in DOMAIN @ \cup {n.id} |->
                              IF i = n.id THEN [era |-> era, vec |-> n.vec] ELSE @[i]]]
            /\ restore' = [restore EXCEPT !.batch = @ \ {n}]
    BY <1>4 DEF CreateNode
  <2> DEFINE rest == restore.batch \ {n}
             S == DOMAIN Into.nodes \cup {n.id}
             f == [i \in S |-> IF i = n.id THEN [era |-> era, vec |-> n.vec] ELSE Into.nodes[i]]
             g == [Into EXCEPT !.nodes = f]
  <2>2. db' = [db EXCEPT ![restore.into] = g]
    BY <1>2, <2>1 DEF Into, IndInv, Types, LoadTypes
  <2>3. DOMAIN Into.nodes \subseteq Ids /\ Into.nodes \in [DOMAIN Into.nodes -> Node]
    BY <1>2, GraphFields
  <2>4. n.id \in Ids /\ n.vec \in Vectors
    BY <1>2 DEF NodeRecord
  <2>5. [era |-> era, vec |-> n.vec] \in Node
    BY <1>2, <2>4 DEF Node
  <2>6. S \subseteq Ids /\ f \in [S -> Node] /\ DOMAIN f = S
    BY <2>3, <2>4, <2>5
  <2>7. f[n.id].vec = n.vec /\ \A i \in DOMAIN Into.nodes : f[i] = Into.nodes[i]
    BY <2>1
  <2>8. /\ rest \subseteq restore.batch /\ \A m \in restore.batch : m \in rest \/ m = n
        /\ DOMAIN Into.nodes \subseteq S /\ n.id \in S
        /\ \A i \in S : i \in DOMAIN Into.nodes \/ i = n.id
    OBVIOUS
  <2>9. restore' = [restore EXCEPT !.batch = rest]
    BY <1>2, <2>1 DEF Restores
  <2> HIDE DEF f, S, rest
  <2>10. g \in Graph /\ g.nodes = f /\ g.rels = Into.rels
    BY <1>2, <2>6, NodesReplaced
  <2> HIDE DEF g
  <2>11. \A r \in g.rels : Present(g, r)
    BY <1>2, <2>6, <2>8, <2>10 DEF Present
  <2>12. /\ restore' \in Restores /\ restore'.pc = "nodes" /\ restore'.into = restore.into
         /\ restore'.nodes = restore.nodes /\ restore'.batch = rest
         /\ restore'.rels = restore.rels /\ restore'.exit = restore.exit
         /\ restore'.runs = restore.runs
    BY <1>1, <1>2, <2>8, <2>9 DEF Restores
  <2>13. /\ db' \in [Instances -> Graph] /\ Closed' /\ Into' = g
         /\ restore.into = "new" => db'["new"] = g
         /\ restore.into # "new" => db'["new"] = db["new"]
    BY <1>1, <2>2, <2>10, <2>11, <2>12, IntoReplaced
  <2>14. FromDump /\ Underway
    BY DEF IndInv
  <2>15. n \in dump.nodes
    BY <2>14 DEF FromDump
  <2>16. FromDump'
    <3>1. CASE restore.into # "new"
      BY <1>1, <2>8, <2>12, <2>13, <2>14, <3>1 DEF FromDump
    <3>2. CASE restore.into = "new"
      <4>1. \A i \in S : \E m \in dump.nodes : m.id = i /\ m.vec = f[i].vec
        BY <2>7, <2>8, <2>14, <2>15, <3>2 DEF FromDump, Into
      <4>2. \A p \in g.rels : \E r \in dump.rels : p = Pair(r)
        BY <2>10, <2>14, <3>2 DEF FromDump, Into
      <4>3. restore.nodes \subseteq dump.nodes /\ rest \subseteq dump.nodes
            /\ restore.rels \subseteq dump.rels
        BY <2>8, <2>14 DEF FromDump
      <4> QED  BY <1>1, <2>6, <2>10, <2>12, <2>13, <3>2, <4>1, <4>2, <4>3 DEF FromDump
    <3> QED  BY <3>1, <3>2
  <2>17. Underway'
    BY <1>1, <2>6, <2>8, <2>10, <2>12, <2>13, <2>14 DEF Underway, Restored, Known
  <2> QED  BY <1>1, <1>2, <2>12, <2>13, <2>16, <2>17, GoesOn
<1> QED  BY <1>3, <1>4

\* A relationship whose ends the nodes file names finds them restored.
LEMMA CreateRelInductive ==
    ASSUME IndInv, CreateRel
    PROVE  IndInv'
<1>1. restore.pc = "rels" /\ Running /\ UNCHANGED <<era, job, dump, files>>
  BY DEF CreateRel, Running
<1>2. /\ restore \in Restores /\ restore.exit = "none" /\ restore.into \in Instances
      /\ Into \in Graph /\ \A r \in Into.rels : Present(Into, r)
      /\ restore.rels \subseteq RelRecord
  BY <1>1, Alone, DumpFields
<1>3. PICK r \in restore.rels :
          /\ restore' = [restore EXCEPT !.rels = @ \ {r}]
          /\ db' = IF Known(r.start) /\ Known(r.end) /\ Present(Into, Pair(r))
                   THEN [db EXCEPT ![restore.into].rels = @ \cup {Pair(r)}] ELSE db
  BY DEF CreateRel, Pair
<1> DEFINE rest == restore.rels \ {r}
           R == IF Known(r.start) /\ Known(r.end) /\ Present(Into, Pair(r))
                THEN Into.rels \cup {Pair(r)} ELSE Into.rels
           g == [Into EXCEPT !.rels = R]
<1>4. db' = [db EXCEPT ![restore.into] = g]
  <2>1. db \in [Instances -> Graph]
    BY DEF IndInv, Types, LoadTypes
  <2>2. CASE Known(r.start) /\ Known(r.end) /\ Present(Into, Pair(r))
    BY <1>2, <1>3, <2>1, <2>2 DEF Into
  <2>3. CASE ~(Known(r.start) /\ Known(r.end) /\ Present(Into, Pair(r)))
    <3>1. g = Into
      BY <1>2, <2>3 DEF Graph
    <3> QED  BY <1>3, <2>1, <2>3, <3>1 DEF Into
  <2> QED  BY <2>2, <2>3
<1>5. r.start.id \in Ids /\ r.end.id \in Ids
  BY <1>2 DEF RelRecord, Eid
<1>6. R \subseteq Ids \X Ids /\ \A p \in R : Present(Into, p)
  BY <1>2, <1>5, GraphFields DEF Pair
<1>7. restore' = [restore EXCEPT !.rels = rest]
  BY <1>2, <1>3 DEF Restores
<1>8. /\ rest \subseteq restore.rels /\ \A s \in restore.rels : s \in rest \/ s = r
      /\ Into.rels \subseteq R /\ \A p \in R : p \in Into.rels \/ p = Pair(r)
  OBVIOUS
<1>9. Known(r.start) /\ Known(r.end) => Pair(r) \in R
  <2> SUFFICES ASSUME Known(r.start), Known(r.end)
               PROVE  Present(Into, Pair(r))
    OBVIOUS
  <2>1. \A n \in files.nodes.records : n.id \in DOMAIN Into.nodes
    BY <1>1 DEF IndInv, Underway, Restored
  <2>2. r.start.id \in DOMAIN Into.nodes /\ r.end.id \in DOMAIN Into.nodes
    BY <2>1 DEF Known
  <2> QED  BY <2>2 DEF Present, Pair
<1> HIDE DEF rest, R
<1>10. g \in Graph /\ g.nodes = Into.nodes /\ g.rels = R
  BY <1>2, <1>6, RelsReplaced
<1> HIDE DEF g
<1>11. \A p \in g.rels : Present(g, p)
  BY <1>6, <1>10 DEF Present
<1>12. /\ restore' \in Restores /\ restore'.pc = "rels" /\ restore'.into = restore.into
       /\ restore'.nodes = restore.nodes /\ restore'.batch = restore.batch
       /\ restore'.rels = rest /\ restore'.exit = restore.exit /\ restore'.runs = restore.runs
  BY <1>1, <1>2, <1>7, <1>8 DEF Restores
<1>13. /\ db' \in [Instances -> Graph] /\ Closed' /\ Into' = g
       /\ restore.into = "new" => db'["new"] = g
       /\ restore.into # "new" => db'["new"] = db["new"]
  BY <1>1, <1>4, <1>10, <1>11, <1>12, IntoReplaced
<1>14. FromDump /\ Underway
  BY DEF IndInv
<1>15. r \in dump.rels
  BY <1>14 DEF FromDump
<1>16. FromDump'
  <2>1. CASE restore.into # "new"
    BY <1>1, <1>8, <1>12, <1>13, <1>14, <2>1 DEF FromDump
  <2>2. CASE restore.into = "new"
    <3>1. \A p \in R : \E s \in dump.rels : p = Pair(s)
      BY <1>8, <1>14, <1>15, <2>2 DEF FromDump, Into
    <3>2. \A i \in DOMAIN g.nodes : \E n \in dump.nodes : n.id = i /\ n.vec = g.nodes[i].vec
      BY <1>10, <1>14, <2>2 DEF FromDump, Into
    <3> QED  BY <1>1, <1>8, <1>10, <1>12, <1>13, <1>14, <2>2, <3>1, <3>2 DEF FromDump
  <2> QED  BY <2>1, <2>2
<1>17. Underway'
  BY <1>1, <1>8, <1>9, <1>10, <1>12, <1>13, <1>14 DEF Underway, Restored, Known
<1> QED  BY <1>1, <1>2, <1>12, <1>13, <1>16, <1>17, GoesOn

LEMMA EndRelsInductive ==
    ASSUME IndInv, EndRels
    PROVE  IndInv'
<1>1. restore.pc = "rels" /\ restore.rels = {} /\ Running
      /\ UNCHANGED <<db, era, job, dump, files>>
  BY DEF EndRels, Running
<1>2. restore \in Restores /\ restore.exit = "none"
  BY <1>1, Alone, DumpFields
<1>3. db' \in [Instances -> Graph] /\ Closed'
  BY <1>1, SameGraphs
<1>4. CASE Stop("bad")
  BY <1>1, <1>4, Stopped
<1>5. CASE restore' = [restore EXCEPT !.pc = "indexes"]
  <2>1. /\ restore' \in Restores /\ restore'.pc = "indexes" /\ restore'.into = restore.into
        /\ restore'.nodes = restore.nodes /\ restore'.batch = restore.batch
        /\ restore'.rels = restore.rels /\ restore'.exit = restore.exit
        /\ restore'.runs = restore.runs
    BY <1>2, <1>5 DEF Restores
  <2>2. FromDump'
    BY <1>1, <2>1 DEF IndInv, FromDump
  <2>3. Underway'
    BY <1>1, <2>1 DEF IndInv, Underway, Restored, Known, Into
  <2> QED  BY <1>1, <1>2, <1>3, <2>1, <2>2, <2>3, GoesOn
<1> QED  BY <1>4, <1>5 DEF EndRels

LEMMA RestoreIndexesInductive ==
    ASSUME IndInv, RestoreIndexes
    PROVE  IndInv'
<1> DEFINE X == Into.indexes \cup (files.indexes.listed \cap {"vector"})
           g == [Into EXCEPT !.indexes = X]
<1>1. restore.pc = "indexes" /\ Running /\ UNCHANGED <<era, job, dump, files>>
  BY DEF RestoreIndexes, Running
<1>2. /\ restore \in Restores /\ restore.exit = "none" /\ restore.into \in Instances
      /\ Into \in Graph /\ \A r \in Into.rels : Present(Into, r)
  BY <1>1, Alone, DumpFields
<1>3. CASE Stop("bad") /\ UNCHANGED db
  BY <1>1, <1>3, Stopped
<1>4. CASE ~(Stop("bad") /\ UNCHANGED db)
  <2>1. db' = [db EXCEPT ![restore.into] = g] /\ restore' = [restore EXCEPT !.pc = "verify"]
    BY <1>2, <1>4 DEF RestoreIndexes, Into, IndInv, Types, LoadTypes
  <2>2. X \subseteq Indexes
    BY <1>2, GraphFields DEF Indexes
  <2> HIDE DEF X
  <2>3. g \in Graph /\ g.nodes = Into.nodes /\ g.rels = Into.rels
    BY <1>2, <2>2, IndexesReplaced
  <2> HIDE DEF g
  <2>4. /\ restore' \in Restores /\ restore'.pc = "verify" /\ restore'.into = restore.into
        /\ restore'.nodes = restore.nodes /\ restore'.batch = restore.batch
        /\ restore'.rels = restore.rels /\ restore'.exit = restore.exit
        /\ restore'.runs = restore.runs
    BY <1>2, <2>1 DEF Restores
  <2>5. \A r \in g.rels : Present(g, r)
    BY <1>2, <2>3 DEF Present
  <2>6. /\ db' \in [Instances -> Graph] /\ Closed' /\ Into' = g
        /\ restore.into = "new" => db'["new"] = g
        /\ restore.into # "new" => db'["new"] = db["new"]
    BY <1>1, <2>1, <2>3, <2>4, <2>5, IntoReplaced
  <2>7. FromDump'
    BY <1>1, <2>3, <2>4, <2>6 DEF IndInv, FromDump, Into
  <2>8. Underway'
    BY <1>1, <2>3, <2>4, <2>6 DEF IndInv, Underway, Restored, Known
  <2> QED  BY <1>1, <1>2, <2>4, <2>6, <2>7, <2>8, GoesOn
<1> QED  BY <1>3, <1>4
-----------------------------------------------------------------------------
(* The closing count: what came out of a set, and is as many, is all of it. *)

DumpIds == {n.id : n \in dump.nodes}
DumpPairs == {Pair(r) : r \in dump.rels}

LEMMA DumpCounts ==
    ASSUME IndInv
    PROVE  /\ IsFiniteSet(DumpIds) /\ Cardinality(DumpIds) = Cardinality(dump.nodes)
           /\ IsFiniteSet(DumpPairs) /\ Cardinality(DumpPairs) = Cardinality(dump.rels)
           /\ DOMAIN db["new"].nodes \subseteq DumpIds /\ db["new"].rels \subseteq DumpPairs
<1>1. Dumped /\ FromDump
  BY DEF IndInv
<1>2. IsFiniteSet(DumpIds) /\ Cardinality(DumpIds) = Cardinality(dump.nodes)
  <2> DEFINE f == [n \in dump.nodes |-> n.id]
  <2>1. \A m, n \in dump.nodes : f[m] = f[n] => m = n
    BY <1>1 DEF Dumped, OneEach
  <2>2. f = [n \in dump.nodes |-> f[n]] /\ DumpIds = {f[n] : n \in dump.nodes}
    BY DEF DumpIds
  <2>3. IsFiniteSet(dump.nodes)
    BY <1>1 DEF Dumped
  <2> HIDE DEF f
  <2> QED  BY <2>1, <2>2, <2>3, SameCount
<1>3. IsFiniteSet(DumpPairs) /\ Cardinality(DumpPairs) = Cardinality(dump.rels)
  <2> DEFINE f == [r \in dump.rels |-> Pair(r)]
  <2>1. \A r, s \in dump.rels : f[r] = f[s] => r = s
    BY <1>1 DEF Dumped, OnePair
  <2>2. f = [r \in dump.rels |-> f[r]] /\ DumpPairs = {f[r] : r \in dump.rels}
    BY DEF DumpPairs
  <2>3. IsFiniteSet(dump.rels)
    BY <1>1 DEF Dumped
  <2> HIDE DEF f
  <2> QED  BY <2>1, <2>2, <2>3, SameCount
<1>4. DOMAIN db["new"].nodes \subseteq DumpIds /\ db["new"].rels \subseteq DumpPairs
  BY <1>1 DEF FromDump, DumpIds, DumpPairs
<1> QED  BY <1>2, <1>3, <1>4

\* The counts of meta.json are met only by everything the dump had read.
LEMMA CountsMet ==
    ASSUME IndInv, files.meta.there,
           Cardinality(DOMAIN db["new"].nodes) = files.meta.nodes,
           Cardinality(db["new"].rels) = files.meta.rels
    PROVE  LET g == db["new"]
           IN  /\ {<<i, g.nodes[i].vec>> : i \in DOMAIN g.nodes} = {<<n.id, n.vec>> : n \in dump.nodes}
               /\ g.rels = {<<r.start.id, r.end.id>> : r \in dump.rels}
<1> DEFINE g == db["new"]
<1>1. Dumped /\ FromDump /\ Written
  BY DEF IndInv
<1>2. /\ Cardinality(DOMAIN g.nodes) = Cardinality(dump.nodes)
      /\ Cardinality(g.rels) = Cardinality(dump.rels)
  BY <1>1 DEF Written
<1>3. DOMAIN g.nodes = DumpIds /\ g.rels = DumpPairs
  BY <1>2, DumpCounts, FS_Subset
<1>4. ASSUME NEW n \in dump.nodes
      PROVE  n.id \in DOMAIN g.nodes /\ g.nodes[n.id].vec = n.vec
  <2>1. n.id \in DOMAIN g.nodes
    BY <1>3 DEF DumpIds
  <2>2. PICK m \in dump.nodes : m.id = n.id /\ m.vec = g.nodes[n.id].vec
    BY <1>1, <2>1 DEF FromDump
  <2>3. m = n
    BY <1>1, <2>2 DEF Dumped, OneEach
  <2> QED  BY <2>1, <2>2, <2>3
<1>5. \A i \in DOMAIN g.nodes : \E n \in dump.nodes : n.id = i /\ n.vec = g.nodes[i].vec
  BY <1>1 DEF FromDump
<1>6. g.rels = {<<r.start.id, r.end.id>> : r \in dump.rels}
  BY <1>3 DEF DumpPairs, Pair
<1> HIDE DEF g
<1>7. {<<i, g.nodes[i].vec>> : i \in DOMAIN g.nodes} = {<<n.id, n.vec>> : n \in dump.nodes}
  BY <1>4, <1>5
<1> QED  BY <1>6, <1>7 DEF g

\* A restore of whole files of a quiet dump has written all that was to be counted.
LEMMA QuietCounts ==
    ASSUME IndInv, restore.pc = "verify", restore.into = "new",
           dump.quiet, dump.exit = "ok", files.damage = 0
    PROVE  /\ Cardinality(DOMAIN Into.nodes) = files.meta.nodes
           /\ Cardinality(Into.rels) = files.meta.rels
<1>1. Dumped /\ Written /\ Underway /\ files.meta.there /\ Into = db["new"]
  BY DEF IndInv, Apart, Running, Into
<1>2. files.nodes.records = dump.nodes /\ files.rels.records = dump.rels
  BY <1>1 DEF Written, Lines
<1>3. \A n \in dump.nodes : n.id \in DOMAIN Into.nodes
  BY <1>1, <1>2 DEF Underway, Restored
<1>4. \A r \in dump.rels : Known(r.start) /\ Known(r.end)
  BY <1>1, <1>2 DEF Dumped, In, Known
<1>5. \A r \in dump.rels : Pair(r) \in Into.rels
  BY <1>1, <1>2, <1>4 DEF Underway
<1>6. DOMAIN Into.nodes = DumpIds /\ Into.rels = DumpPairs
  BY <1>1, <1>3, <1>5, DumpCounts DEF DumpIds, DumpPairs
<1> QED  BY <1>1, <1>6, DumpCounts DEF Written

LEMMA RestoreVerifyInductive ==
    ASSUME IndInv, RestoreVerify
    PROVE  IndInv'
<1> DEFINE met == /\ Cardinality(DOMAIN Into.nodes) = files.meta.nodes
                  /\ Cardinality(Into.rels) = files.meta.rels
<1>1. restore.pc = "verify" /\ Running /\ UNCHANGED <<db, era, job, dump, files>>
  BY DEF RestoreVerify, Running
<1>2. restore \in Restores /\ files.meta.there
  BY <1>1, Alone, DumpFields
<1>3. CASE met
  <2>1. Stop("ok")
    BY <1>3 DEF RestoreVerify
  <2>2. restore'.into = restore.into
    BY <1>2, <2>1 DEF Stop, Restores
  <2>3. restore.into = "new" =>
            LET g == db["new"]
            IN  /\ {<<i, g.nodes[i].vec>> : i \in DOMAIN g.nodes} = {<<n.id, n.vec>> : n \in dump.nodes}
                /\ g.rels = {<<r.start.id, r.end.id>> : r \in dump.rels}
    BY <1>2, <1>3, CountsMet DEF Into
  <2>4. RestoreFaithful'
    BY <1>1, <2>2, <2>3 DEF RestoreFaithful
  <2> QED  BY <1>1, <2>1, <2>4, Stopped
<1>4. CASE ~met
  <2>1. Stop("mismatch")
    BY <1>4 DEF RestoreVerify
  <2>2. restore'.into = restore.into
    BY <1>2, <2>1 DEF Stop, Restores
  <2>3. QuietDumpRestores'
    BY <1>1, <1>4, <2>2, QuietCounts DEF QuietDumpRestores
  <2> QED  BY <1>1, <2>1, <2>3, Stopped
<1> QED  BY <1>3, <1>4
-----------------------------------------------------------------------------
(* The theorems.                                                           *)

LEMMA InitIndInv == Init => IndInv
<1> SUFFICES ASSUME Init PROVE IndInv
  OBVIOUS
<1>1. db = [i \in Instances |-> EmptyGraph] /\ era = 0 /\ job = Idle
  BY DEF Init, LoadInit
<1>2. db["old"] = EmptyGraph /\ db["new"] = EmptyGraph
  BY <1>1 DEF Instances
<1>3. LoadTypes
  BY <1>1, EmptyGraphTyped DEF LoadTypes, Jobs, Idle
<1>4. dump \in Dumps /\ restore \in Restores
  BY DEF Init, Dumps, Restores, Instances
<1>5. files \in FileSets
  BY DEF Init, FileSets, File, NoLines, Ends
<1>6. Closed
  BY <1>1, EmptyGraphTyped DEF Closed
<1>7. Loaded
  BY <1>1 DEF Loaded, Idle
<1>8. Dumped
  BY FS_EmptySet DEF Init, Dumped, OneEach, OnePair
<1>9. Written
  BY DEF Init, Written, NoLines
<1>10. Apart /\ Underway /\ RestoreFaithful /\ QuietDumpRestores
  BY <1>2 DEF Init, Apart, Running, Underway, RestoreFaithful, QuietDumpRestores
<1>11. FromDump
  BY <1>2, EmptyGraphTyped DEF Init, FromDump
<1> QED  BY <1>3, <1>4, <1>5, <1>6, <1>7, <1>8, <1>9, <1>10, <1>11 DEF IndInv, Types

LEMMA StutterInductive == IndInv /\ UNCHANGED vars => IndInv'
<1> SUFFICES ASSUME IndInv, UNCHANGED vars PROVE IndInv'
  OBVIOUS
<1>1. UNCHANGED <<db, era, job, dump, files, restore>>
  BY DEF vars
<1>2. LoadTypes' /\ Closed' /\ Loaded'
  BY <1>1, LoadUntouched
<1>3. Types' /\ Dumped' /\ Written'
  BY <1>1, <1>2 DEF IndInv, Types, Dumped, Written
<1>4. Apart' /\ FromDump' /\ RestoreFaithful' /\ QuietDumpRestores'
  BY <1>1 DEF IndInv, Apart, Running, FromDump, RestoreFaithful, QuietDumpRestores
<1>5. Underway'
  BY <1>1 DEF IndInv, Underway, Restored, Known, Into
<1> QED  BY <1>2, <1>3, <1>4, <1>5 DEF IndInv

LEMMA StepInductive == IndInv /\ [Next]_vars => IndInv'
<1> SUFFICES ASSUME IndInv, [Next]_vars PROVE IndInv'
  OBVIOUS
<1>1. CASE Load
  BY <1>1, LoadInductive
<1>2. CASE DumpNodes \/ DumpRels \/ DumpIndexes \/ DumpMeta \/ DumpDies \/ Verify \/ Damage
  BY <1>2, DumpNodesInductive, DumpRelsInductive, DumpIndexesInductive, DumpMetaInductive,
     DumpDiesInductive, VerifyInductive, DamageInductive
<1>3. CASE \E into \in Instances, force \in BOOLEAN : StartRestore(into, force)
  BY <1>3, StartRestoreInductive
<1>4. CASE RestoreConstraint \/ ReadNodes \/ CreateNode \/ CreateRel \/ EndRels
           \/ RestoreIndexes \/ RestoreVerify \/ RestoreDies
  BY <1>4, RestoreConstraintInductive, ReadNodesInductive, CreateNodeInductive,
     CreateRelInductive, EndRelsInductive, RestoreIndexesInductive, RestoreVerifyInductive,
     RestoreDiesInductive
<1>5. CASE UNCHANGED vars
  BY <1>5, StutterInductive
<1> QED  BY <1>1, <1>2, <1>3, <1>4, <1>5 DEF Next

\* The inductive invariant holds in every state that can be reached.
THEOREM Inductive == Spec => []IndInv
BY InitIndInv, StepInductive, PTL DEF Spec

\* Type correctness of the scripts, the dump, its files and the restore.
THEOREM TypeCorrect == Spec => []TypeOK
<1>1. IndInv => TypeOK
  <2> SUFFICES ASSUME IndInv PROVE TypeOK
    OBVIOUS
  <2>1. db \in [Instances -> Graph] /\ era \in Nat /\ job \in Jobs
    BY DEF IndInv, Types, LoadTypes
  <2>2. \A i \in Instances :
            /\ DOMAIN db[i].nodes \subseteq Ids
            /\ \A n \in DOMAIN db[i].nodes : db[i].nodes[n] \in Node
            /\ db[i].rels \subseteq Ids \X Ids /\ db[i].indexes \subseteq Indexes
    <3> SUFFICES ASSUME NEW i \in Instances
                 PROVE  /\ DOMAIN db[i].nodes \subseteq Ids
                        /\ \A n \in DOMAIN db[i].nodes : db[i].nodes[n] \in Node
                        /\ db[i].rels \subseteq Ids \X Ids /\ db[i].indexes \subseteq Indexes
      OBVIOUS
    <3>1. db[i] \in Graph
      BY <2>1
    <3> QED  BY <3>1, GraphFields
  <2>3. LoadTypeOK
    BY <2>1, <2>2 DEF LoadTypeOK, Jobs, Node
  <2>4. dump \in Dumps /\ files \in FileSets /\ restore \in Restores
    BY DumpFields
  <2> QED  BY <2>3, <2>4 DEF TypeOK, Dumps, FileSets, File, Restores
<1> QED  BY <1>1, Inductive, PTL

\* A load that comes to its gate has left behind every entity it lists, and every
\* listed relationship between entities that are there, whatever died before it.
THEOREM LoadsAreComplete == Spec => []LoadComplete
<1>1. IndInv => LoadComplete
  BY DEF IndInv, Loaded, LoadComplete, Behind, Linked
<1> QED  BY <1>1, Inductive, PTL

\* A counter of skipped relationships that ends at 0 means that none is missing,
\* however often a batch was tried again.
THEOREM ZeroSkippedIsAll == Spec => []NoneSkippedMeansAll
<1>1. IndInv => NoneSkippedMeansAll
  BY DEF IndInv, Loaded, NoneSkippedMeansAll, Behind, Linked
<1> QED  BY <1>1, Inductive, PTL

\* A restore that exits with 0 has put back exactly what the dump had read.
THEOREM RestoresAreFaithful == Spec => []RestoreFaithful
<1>1. IndInv => RestoreFaithful
  BY DEF IndInv
<1> QED  BY <1>1, Inductive, PTL

\* A verified dump of nodes that did not change, and of files left alone, is
\* never found wanting.
THEOREM QuietDumpsRestore == Spec => []QuietDumpRestores
<1>1. IndInv => QuietDumpRestores
  BY DEF IndInv
<1> QED  BY <1>1, Inductive, PTL

\* A restore adds nodes to an instance and changes none that is there.
LEMMA RestoreKeeps ==
    ASSUME IndInv, RestoreConstraint \/ CreateNode \/ CreateRel \/ RestoreIndexes
    PROVE  Kept
<1>1. db \in [Instances -> Graph] /\ restore \in Restores
  BY DEF IndInv, Types, LoadTypes
<1>2. restore.into \in Instances
  BY <1>1 DEF Restores
<1>3. CASE RestoreConstraint \/ CreateRel \/ RestoreIndexes
  <2>1. db'["old"].nodes = db["old"].nodes
    <3>1. CASE RestoreConstraint
      BY <1>1, <1>2, <3>1 DEF RestoreConstraint, Instances, Graph
    <3>2. CASE CreateRel
      BY <1>1, <1>2, <3>2 DEF CreateRel, Instances, Graph
    <3>3. CASE RestoreIndexes
      BY <1>1, <1>2, <3>3 DEF RestoreIndexes, Instances, Graph
    <3> QED  BY <1>3, <3>1, <3>2, <3>3
  <2> QED  BY <2>1 DEF Kept
<1>4. CASE CreateNode
  <2>1. CASE UNCHANGED db
    BY <2>1 DEF Kept
  <2>2. CASE ~UNCHANGED db
    <3>1. PICK n \in restore.batch :
              /\ n.id \notin DOMAIN Into.nodes
              /\ db' = [db EXCEPT ![restore.into].nodes =
                            [i \in DOMAIN @ \cup {n.id} |->
                                IF i = n.id THEN [era |-> era, vec |-> n.vec] ELSE @[i]]]
      BY <1>4, <2>2 DEF CreateNode
    <3> DEFINE f == [i \in DOMAIN Into.nodes \cup {n.id} |->
                        IF i = n.id THEN [era |-> era, vec |-> n.vec] ELSE Into.nodes[i]]
    <3>2. db' = [db EXCEPT ![restore.into] = [Into EXCEPT !.nodes = f]]
      BY <1>1, <1>2, <3>1 DEF Into
    <3>3. \A i \in DOMAIN Into.nodes : i \in DOMAIN f /\ f[i] = Into.nodes[i]
      BY <3>1
    <3> HIDE DEF f
    <3>4. CASE restore.into = "old"
      <4>1. db'["old"].nodes = f
        BY <1>1, <1>2, <3>2, <3>4 DEF Into, Graph
      <4> QED  BY <3>3, <3>4, <4>1 DEF Kept, Into
    <3>5. CASE restore.into # "old"
      <4>1. db'["old"] = db["old"]
        BY <1>1, <3>2, <3>5 DEF Instances
      <4> QED  BY <4>1 DEF Kept
    <3> QED  BY <3>4, <3>5
  <2> QED  BY <2>1, <2>2
<1> QED  BY <1>3, <1>4

\* An embedding is only lost to an explicit --clear or to script 05, which puts
\* zeros where the API failed it: no load, no retry and no restore takes it away.
THEOREM EmbeddingsAreKept == Spec => VectorsKept
<1>1. IndInv /\ [Next]_vars => [Kept]_loadVars
  <2> SUFFICES ASSUME IndInv, [Next]_vars PROVE [Kept]_loadVars
    OBVIOUS
  <2>1. CASE Load
    <3>1. LoadInv /\ LoadNext
      BY <2>1 DEF Load, IndInv, Types, LoadInv
    <3> QED  BY <3>1, StepLoads DEF LoadStep
  <2>2. CASE DumpNodes \/ DumpRels \/ DumpIndexes \/ DumpMeta \/ DumpDies \/ Verify \/ Damage
             \/ \E into \in Instances, force \in BOOLEAN : StartRestore(into, force)
    BY <2>2 DEF DumpNodes, DumpRels, DumpIndexes, DumpMeta, DumpDies, Verify, Damage,
                StartRestore, loadVars
  <2>3. CASE RestoreConstraint \/ CreateNode \/ CreateRel \/ RestoreIndexes
    BY <2>3, RestoreKeeps
  <2>4. CASE ReadNodes \/ EndRels \/ RestoreVerify \/ RestoreDies
    BY <2>4 DEF ReadNodes, EndRels, RestoreVerify, RestoreDies, loadVars
  <2>5. CASE UNCHANGED vars
    BY <2>5 DEF vars, loadVars
  <2> QED  BY <2>1, <2>2, <2>3, <2>4, <2>5 DEF Next
<1>2. [Kept]_loadVars <=>
        [\A i \in DOMAIN db["old"].nodes :
           db["old"].nodes[i].vec = "embedding" /\ job.pc # "clear" =>
               /\ i \in DOMAIN db'["old"].nodes
               /\ \/ db'["old"].nodes[i].vec = "embedding"
                  \/ job.script = "embed" /\ db'["old"].nodes[i].vec = "zeros"]_loadVars
  BY DEF Kept
<1> QED  BY <1>1, <1>2, Inductive, PTL DEF Spec, VectorsKept

\* What passes the self-check is, at that moment, the two files whole.
THEOREM VerifiedDumpsAreWhole == Spec => VerifiedWhole
<1>1. IndInv /\ [Next]_vars =>
        [dump.exit = "none" /\ dump'.exit = "ok" =>
           /\ files.nodes = Lines(dump.nodes)
           /\ files.rels = Lines(dump.rels)]_vars
  <2> SUFFICES ASSUME IndInv, Next, dump.exit = "none", dump'.exit = "ok"
               PROVE  files.nodes = Lines(dump.nodes) /\ files.rels = Lines(dump.rels)
    OBVIOUS
  <2>1. dump \in Dumps
    BY DumpFields
  <2>2. CASE Verify
    <3>1. Verified
      BY <2>1, <2>2 DEF Verify, Dumps
    <3> QED  BY <3>1, VerifiedFiles
  <2>3. CASE DumpNodes \/ DumpRels \/ DumpIndexes \/ DumpMeta \/ DumpDies
    BY <2>1, <2>3 DEF DumpNodes, DumpRels, DumpIndexes, DumpMeta, DumpDies, Dumps
  <2>4. CASE UNCHANGED dump
    BY <2>4
  <2> QED
    BY <2>2, <2>3, <2>4 DEF Next, Load, Damage, StartRestore, RestoreConstraint, ReadNodes,
       CreateNode, CreateRel, EndRels, RestoreIndexes, RestoreVerify, RestoreDies
<1> QED  BY <1>1, Inductive, PTL DEF Spec, VerifiedWhole
=============================================================================
