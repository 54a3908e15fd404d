---------------------------- MODULE GraphLoading ----------------------------
(***************************************************************************)
(* The knowledge graph and the scripts that fill it: 02 and 04 load parsed *)
(* entities and relationships in batches (graph_store.py), 05 and 09 put   *)
(* embeddings on the nodes, and a line of README.md adds the search        *)
(* indexes.  An operator runs one after another against the instance       *)
(* "old"; each may die at any point and be run again.                      *)
(* KnowledgeBackup adds the dump, which runs at the same time, and the     *)
(* restore of it into an instance.                                         *)
(* Entities are numbered in the order of the parsed files.  Labels, texts  *)
(* and vectors are left out; that a node has an embedding is not.          *)
(***************************************************************************)
EXTENDS Integers, Sequences, FiniteSets

CONSTANTS
    NumEntities,     \* entities in all parsed files
    NumStructural,   \* those of the files that script 02 loads, which come first
    Relations,       \* the relationship files: a sequence of pairs of entities
    NodeBatch, RelBatch, VectorBatch,
    MinNodes, MinRels, MinVectors,   \* the thresholds of the exit gates
    MaxJobs,         \* bound: scripts run
    MaxRetries       \* bound: transient errors met by one script

Ids     == 1..NumEntities
Named   == 1..(NumEntities + 1)   \* some relationships name an entity nobody parsed
Indexes == {"constraint", "labels", "vector", "name"}

ASSUME EntitiesAssumption == NumEntities \in Nat /\ NumStructural \in 0..NumEntities
ASSUME RelationsAssumption == Relations \in Seq(Named \X Named)
ASSUME BatchAssumption == {NodeBatch, RelBatch, VectorBatch} \subseteq Nat \ {0}
ASSUME BoundAssumption == {MinNodes, MinRels, MinVectors, MaxJobs, MaxRetries} \subseteq Nat

VARIABLES
    db,     \* the instances: nodes, relationships, indexes
    era,    \* how often "old" was wiped: a node loaded again has a new element id
    job     \* the script that runs against "old"

loadVars == <<db, era, job>>

Instances == {"old", "new"}
Scripts   == {"structural", "full", "embed", "vectors", "search"}

\* A node by its id, which :Entity(id) keeps unique; MERGE keeps a relationship
\* unique.  Its vector may be the zeros that 05 puts where the API failed it.
Vectors == {"none", "zeros", "embedding"}
EmptyGraph == [nodes |-> [i \in {} |-> [era |-> 0, vec |-> "none"]], rels |-> {}, indexes |-> {}]

Idle == [script |-> "none", pc |-> "ended", at |-> 0, skipped |-> 0,
         retries |-> 0, exit |-> "none", runs |-> 0]

LoadInit ==
    /\ db = [i \in Instances |-> EmptyGraph]
    /\ era = 0
    /\ job = Idle

Present(g, r) == {r[1], r[2]} \subseteq DOMAIN g.nodes

Upto(at, batch, n) == IF at + batch < n THEN at + batch ELSE n
-----------------------------------------------------------------------------
(* Starting and ending a script.                                           *)

FirstPart == [script \in Scripts |->
    IF script \in {"structural", "full"} THEN "indexes"
    ELSE IF script = "search" THEN "vector_index" ELSE "vectors"]

Begin(script, clear) ==
    /\ job.pc = "ended" /\ job.runs < MaxJobs
    /\ clear => script \in {"structural", "full", "embed"}
    /\ job' = [Idle EXCEPT
           !.script = script, !.runs = job.runs + 1,
           !.pc = IF clear THEN "clear" ELSE FirstPart[script]]
    /\ UNCHANGED <<db, era>>

Goto(pc) == job' = [job EXCEPT !.pc = pc, !.at = 0]
End(exit) == job' = [Idle EXCEPT !.exit = exit, !.runs = job.runs]

\* The driver raises what it does not retry, an API call fails, or the process
\* is killed: what has been committed stays.
Die ==
    /\ job.pc # "ended"
    /\ End("raised")
    /\ UNCHANGED <<db, era>>

\* --clear: everything for 02 and 04, the embeddings for 05.
Clear ==
    /\ job.pc = "clear"
    /\ IF job.script = "embed"
       THEN /\ db' = [db EXCEPT !["old"].nodes =
                          [i \in DOMAIN @ |-> [@[i] EXCEPT !.vec = "none"]]]
            /\ Goto("vectors")
            /\ UNCHANGED era
       ELSE /\ db' = [db EXCEPT !["old"].nodes = EmptyGraph.nodes, !["old"].rels = {}]
            /\ Goto("indexes")
            /\ era' = era + 1

CreateIndexes ==
    /\ job.pc = "indexes"
    /\ db' = [db EXCEPT !["old"].indexes = @ \cup {"constraint", "labels"}]
    /\ Goto("nodes")
    /\ UNCHANGED era
-----------------------------------------------------------------------------
(* create_nodes_batch, create_relationships_batch: one transaction a batch *)

LoadedIds == IF job.script = "structural" THEN 1..NumStructural ELSE Ids

\* Variant: SET n = props.
MergedReplacing(g, ids) ==
    [g EXCEPT !.nodes = [i \in DOMAIN @ \cup ids |-> [era |-> era, vec |-> "none"]]]

\* MERGE (n {id}) SET n += props: a node that is there keeps its embedding.
Merged(g, ids) ==
    [g EXCEPT !.nodes = [i \in DOMAIN @ \cup ids |->
                            IF i \in DOMAIN @ THEN @[i] ELSE [era |-> era, vec |-> "none"]]]

\* The transaction lands, and the script goes on or loses the connection before
\* it hears of it.
LoadNodes ==
    /\ job.pc = "nodes"
    /\ LET next == Upto(job.at, NodeBatch, Cardinality(LoadedIds))
       IN  /\ db' = [db EXCEPT !["old"] = Merged(@, (job.at + 1)..next)]
           /\ \/ End("raised")
              \/ IF next = Cardinality(LoadedIds) THEN Goto("rels")
                                                  ELSE job' = [job EXCEPT !.at = next]
    /\ UNCHANGED era

\* Variant: the last of each batch is left out.
BatchShort == {n \in DOMAIN Relations : job.at < n /\ n < job.at + RelBatch}

\* The relationships of the batch that comes next.
Batch == {n \in DOMAIN Relations : job.at < n /\ n <= job.at + RelBatch}

\* Variant: what is not found counts as created.
CountedAllCreated(part) == job

\* Variant: the difference the other way round.
CountedBackwards(part) ==
    LET found == Cardinality({n \in part : Present(db["old"], Relations[n])})
    IN  [job EXCEPT !.skipped = @ + (found - Cardinality(part))]

\* What a batch, or the part of it that ran, adds to the counter.
Counted(part) ==
    [job EXCEPT !.skipped =
        @ + Cardinality({n \in part : ~Present(db["old"], Relations[n])})]

\* A relationship whose ends are not both there is skipped.
LoadRels ==
    /\ job.pc = "rels"
    /\ LET next == Upto(job.at, RelBatch, Len(Relations))
       IN  /\ db' = [db EXCEPT !["old"].rels =
                        @ \cup {r \in {Relations[n] : n \in Batch} : Present(db["old"], r)}]
           /\ \/ End("raised")
              \/ IF next = Len(Relations)
                 THEN job' = [Counted(Batch) EXCEPT !.pc = "gate", !.at = 0]
                 ELSE job' = [Counted(Batch) EXCEPT !.at = next]
    /\ UNCHANGED era

\* execute_write runs the function again after a transient error: nothing of the
\* transaction stays, but the counters are nonlocal (of the two, the one of those
\* created is left out: nothing but a print reads it).
RetryRels ==
    /\ job.pc = "rels" /\ job.retries < MaxRetries
    /\ \E reached \in job.at..Upto(job.at, RelBatch, Len(Relations)) :
           job' = [Counted({n \in Batch : n <= reached}) EXCEPT !.retries = @ + 1]
    /\ UNCHANGED <<db, era>>

Orphans(g) == {i \in DOMAIN g.nodes : \A r \in g.rels : i \notin {r[1], r[2]}}

\* The exit gate of 02 and 04.
Gate ==
    /\ job.pc = "gate"
    /\ LET g == db["old"]
       IN  End(IF /\ Cardinality(DOMAIN g.nodes) >= MinNodes
                  /\ Cardinality(g.rels) >= MinRels
                  /\ Orphans(g) = {} THEN "ok" ELSE "failed")
    /\ UNCHANGED <<db, era>>
-----------------------------------------------------------------------------
(* Embeddings and search indexes, each query a transaction of its own.     *)

\* MATCH (n {id}) SET n.embedding: an id the graph does not have is passed over.
\* 09 has its vectors in files; 05 asks an API, in batches smaller than those it
\* writes, and takes zeros for what was refused twice.
WriteVectors ==
    /\ job.pc = "vectors"
    /\ LET next == Upto(job.at, VectorBatch, NumEntities)
           chunk == (job.at + 1)..next
       IN  /\ \E refused \in SUBSET chunk :
                  /\ job.script = "vectors" => refused = {}
                  /\ db' = [db EXCEPT !["old"].nodes =
                         [i \in DOMAIN @ |->
                             IF i \notin chunk THEN @[i]
                             ELSE [@[i] EXCEPT !.vec = IF i \in refused THEN "zeros"
                                                                       ELSE "embedding"]]]
           /\ IF next = NumEntities THEN Goto("vector_index")
                                    ELSE job' = [job EXCEPT !.at = next]
    /\ UNCHANGED era

\* 05 has a gate, which zeros pass, 09 ends well whatever was missing, README.md goes on.
CreateVectorIndex ==
    /\ job.pc = "vector_index"
    /\ db' = [db EXCEPT !["old"].indexes = @ \cup {"vector"}]
    /\ LET embedded == {i \in DOMAIN db["old"].nodes : db["old"].nodes[i].vec # "none"}
       IN  \/ job.script = "search" /\ Goto("name_index")
           \/ job.script = "vectors" /\ End("ok")
           \/ /\ job.script \notin {"search", "vectors"}
              /\ End(IF Cardinality(embedded) >= MinVectors THEN "ok" ELSE "failed")
    /\ UNCHANGED era

CreateNameIndex ==
    /\ job.pc = "name_index"
    /\ db' = [db EXCEPT !["old"].indexes = @ \cup {"name"}]
    /\ End("ok")
    /\ UNCHANGED era

LoadNext ==
    \/ \E script \in Scripts, clear \in BOOLEAN : Begin(script, clear)
    \/ Die \/ Clear \/ CreateIndexes \/ LoadNodes \/ LoadRels \/ RetryRels \/ Gate
    \/ WriteVectors \/ CreateVectorIndex \/ CreateNameIndex
-----------------------------------------------------------------------------
LoadTypeOK ==
    /\ \A i \in Instances :
           /\ DOMAIN db[i].nodes \subseteq Ids
           /\ \A n \in DOMAIN db[i].nodes : db[i].nodes[n] \in [era : Nat, vec : Vectors]
           /\ db[i].rels \subseteq Ids \X Ids
           /\ db[i].indexes \subseteq Indexes
    /\ era \in Nat
    /\ job \in [script : Scripts \cup {"none"},
                pc : {"ended", "clear", "indexes", "nodes", "rels", "gate", "vectors",
                      "vector_index", "name_index"},
                at : Nat, skipped : Nat, retries : Nat,
                exit : {"none", "ok", "failed", "raised"}, runs : Nat]

\* Whatever died before it and was run again, a load that comes to its gate has
\* left every entity it lists in the graph, and every listed relationship
\* between two entities that are there.
LoadComplete ==
    job.pc = "gate" =>
        /\ LoadedIds \subseteq DOMAIN db["old"].nodes
        /\ \A n \in DOMAIN Relations :
               Present(db["old"], Relations[n]) => Relations[n] \in db["old"].rels

\* "Skipped: 0" is printed only when all of the listed relationships are there,
\* however often a batch was retried.
NoneSkippedMeansAll ==
    job.pc = "gate" /\ job.skipped = 0 =>
        \A n \in DOMAIN Relations : Relations[n] \in db["old"].rels

\* An embedding, once paid for, is only lost to an explicit --clear or to 05,
\* which writes what it has over what was there.
VectorsKept ==
    [][\A i \in DOMAIN db["old"].nodes :
           db["old"].nodes[i].vec = "embedding" /\ job.pc # "clear" =>
               /\ i \in DOMAIN db'["old"].nodes
               /\ \/ db'["old"].nodes[i].vec = "embedding"
                  \/ job.script = "embed" /\ db'["old"].nodes[i].vec = "zeros"]_loadVars
=============================================================================
