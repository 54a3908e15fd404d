--------------------------- MODULE KnowledgeBackup --------------------------
(***************************************************************************)
(* The weekly dump of the knowledge graph (10_backup_to_jsonl.py, run by a *)
(* scheduled workflow while the scripts of GraphLoading may run), its      *)
(* verification, what can happen to the files, and the restore             *)
(* (11_restore_from_jsonl.py).  One dump is followed from its first query  *)
(* to the last attempt to restore it.                                      *)
(***************************************************************************)
EXTENDS GraphLoading

CONSTANTS
    RestoreBatch,   \* BATCH_SIZE of the restore
    MaxRestores,    \* bound: restores run
    MaxDamage       \* bound: times a file is damaged

ASSUME RestoreAssumption ==
    RestoreBatch \in Nat \ {0} /\ MaxRestores \in Nat /\ MaxDamage \in Nat

VARIABLES
    dump,      \* the process of script 10, and what its queries returned
    files,     \* <TS>_nodes.jsonl, <TS>_rels.jsonl, <TS>_indexes.json, <TS>_meta.json
    restore    \* the process of script 11

vars == <<db, era, job, dump, files, restore>>

\* A record refers to a node by its element id: which entity, loaded when.
Eid == [id : Ids, era : Nat]
NodeRecord == [id : Ids, era : Nat, vec : Vectors]
RelRecord  == [start : Eid, end : Eid]

\* A file of lines: its readable records and how it ends: in a complete line, in
\* a record without its newline, or in the middle of one.
Ends == {"line", "no_newline", "mid_record"}
Lines(records) == [there |-> TRUE, records |-> records, ends |-> "line"]
NoLines == [there |-> FALSE, records |-> {}, ends |-> "line"]

Init ==
    /\ LoadInit
    /\ dump = [pc |-> "none", nodes |-> {}, rels |-> {},
               quiet |-> FALSE, exit |-> "none"]
    /\ files = [nodes |-> NoLines, rels |-> NoLines,
                indexes |-> [there |-> FALSE, good |-> FALSE, listed |-> {}],
                meta |-> [there |-> FALSE, nodes |-> 0, rels |-> 0], damage |-> 0]
    /\ restore = [pc |-> "none", into |-> "new", empty |-> FALSE,
                  nodes |-> {}, batch |-> {}, rels |-> {}, exit |-> "none", runs |-> 0]
-----------------------------------------------------------------------------
(* run_backup.  Each query reads what is committed when it runs.           *)

NodesOf(g) == {[id |-> i, era |-> g.nodes[i].era, vec |-> g.nodes[i].vec] : i \in DOMAIN g.nodes}
EidOf(g, i) == [id |-> i, era |-> g.nodes[i].era]
RelsOf(g) == {[start |-> EidOf(g, r[1]), end |-> EidOf(g, r[2])] : r \in g.rels}

DumpNodes ==
    /\ dump.pc = "none"
    /\ dump' = [dump EXCEPT !.pc = "rels", !.nodes = NodesOf(db["old"])]
    /\ files' = [files EXCEPT !.nodes = Lines(NodesOf(db["old"]))]
    /\ UNCHANGED <<db, era, job, restore>>

\* quiet says whether the nodes are still the same.
DumpRels ==
    /\ dump.pc = "rels"
    /\ dump' = [dump EXCEPT !.pc = "indexes", !.rels = RelsOf(db["old"]),
                            !.quiet = (NodesOf(db["old"]) = dump.nodes)]
    /\ files' = [files EXCEPT !.rels = Lines(RelsOf(db["old"]))]
    /\ UNCHANGED <<db, era, job, restore>>

DumpIndexes ==
    /\ dump.pc = "indexes"
    /\ dump' = [dump EXCEPT !.pc = "meta"]
    /\ files' = [files EXCEPT !.indexes =
                     [there |-> TRUE, good |-> TRUE, listed |-> db["old"].indexes]]
    /\ UNCHANGED <<db, era, job, restore>>

DumpMeta ==
    /\ dump.pc = "meta"
    /\ dump' = [dump EXCEPT !.pc = "verify"]
    /\ files' = [files EXCEPT !.meta =
                     [there |-> TRUE, nodes |-> Cardinality(dump.nodes),
                                      rels  |-> Cardinality(dump.rels)]]
    /\ UNCHANGED <<db, era, job, restore>>

\* A query breaks off or the process is killed: the file it was writing is cut
\* anywhere, and there is no meta file.
Prefixes(file) ==
    {[there |-> TRUE, records |-> kept, ends |-> e] :
        kept \in SUBSET file.records, e \in Ends}

Broken(file) ==
    {f \in Prefixes(file) :
        /\ f.ends = "line" => f.records # file.records
        /\ f.ends = "no_newline" => f.records # {}
        /\ f.ends = "mid_record" => f.records # file.records}

DumpDies ==
    /\ dump.pc \in {"rels", "indexes", "meta"}
    /\ dump' = [dump EXCEPT !.pc = "ended", !.exit = "bad"]
    /\ \/ UNCHANGED files
       \/ dump.pc = "rels" /\ \E f \in Broken(files.nodes) : files' = [files EXCEPT !.nodes = f]
       \/ dump.pc = "indexes" /\ \E f \in Broken(files.rels) : files' = [files EXCEPT !.rels = f]
    /\ UNCHANGED <<db, era, job, restore>>

\* On the disk, on the way to the artifact and back: a file loses its end before
\* anyone restores it.
Damage ==
    /\ files.meta.there /\ files.damage < MaxDamage
    /\ restore.runs = 0
    /\ \/ \E f \in Broken(files.nodes) : files' = [files EXCEPT !.nodes = f, !.damage = @ + 1]
       \/ \E f \in Broken(files.rels) : files' = [files EXCEPT !.rels = f, !.damage = @ + 1]
       \/ files' = [files EXCEPT !.indexes.good = FALSE, !.damage = @ + 1]
    /\ UNCHANGED <<db, era, job, dump, restore>>
-----------------------------------------------------------------------------
(* verify_dump *)

\* The newline-terminated lines of a file.
Terminated(file) == Cardinality(file.records) - (IF file.ends = "no_newline" THEN 1 ELSE 0)

\* Variant: counts every line and does not look at the last one.
ChecksCountOnly(file, expected) ==
    LET lines == Cardinality(file.records) + (IF file.ends = "mid_record" THEN 1 ELSE 0)
    IN  file.there /\ lines = expected

Checks(file, expected) ==
    /\ file.there
    /\ file.ends = "line"
    /\ Terminated(file) = expected

Verified ==
    /\ files.meta.there
    /\ Checks(files.nodes, files.meta.nodes)
    /\ Checks(files.rels, files.meta.rels)
    /\ files.indexes.there /\ files.indexes.good

Verify ==
    /\ dump.pc = "verify"
    /\ dump' = [dump EXCEPT !.pc = "ended", !.exit = IF Verified THEN "ok" ELSE "bad"]
    /\ UNCHANGED <<db, era, job, files, restore>>
-----------------------------------------------------------------------------
(* The restore.  It trusts the files: only that all four exist is checked. *)

Stop(exit) ==
    restore' = [restore EXCEPT !.pc = "ended", !.nodes = {}, !.batch = {}, !.rels = {}, !.exit = exit]
Into == db[restore.into]

\* The same operator runs the scripts, one at a time.  Bound: files that were
\* damaged before the self-check are restored only as those damaged after it.
StartRestore(into, force) ==
    /\ restore.pc \in {"none", "ended"} /\ restore.runs < MaxRestores
    /\ job.pc = "ended" /\ dump.pc = "ended"
    /\ dump.exit = "ok" \/ ~files.meta.there
    /\ LET empty   == db[into].nodes = EmptyGraph.nodes
           refused == \/ ~files.meta.there \/ ~files.nodes.there
                      \/ ~files.rels.there \/ ~files.indexes.there
                      \/ ~force /\ (into = "old" \/ ~empty)
       IN  restore' = IF refused
                      THEN [restore EXCEPT !.pc = "ended", !.exit = "refused", !.runs = @ + 1]
                      ELSE [pc |-> "constraint", into |-> into, empty |-> empty,
                            nodes |-> files.nodes.records, batch |-> {},
                            rels |-> files.rels.records,
                            exit |-> "none", runs |-> restore.runs + 1]
    /\ UNCHANGED <<db, era, job, dump, files>>

RestoreConstraint ==
    /\ restore.pc = "constraint"
    /\ db' = [db EXCEPT ![restore.into].indexes = @ \cup {"constraint"}]
    /\ restore' = [restore EXCEPT !.pc = "nodes"]
    /\ UNCHANGED <<era, job, dump, files>>

\* Variant: the last batch, when it is not full, is never written.
ReadFullBatches ==
    /\ restore.pc = "nodes" /\ restore.batch = {}
    /\ IF Cardinality(restore.nodes) < RestoreBatch
       THEN restore' = [restore EXCEPT !.pc = "rels"]
       ELSE \E more \in SUBSET restore.nodes :
                /\ Cardinality(more) = RestoreBatch
                /\ restore' = [restore EXCEPT !.batch = more, !.nodes = @ \ more]
    /\ UNCHANGED <<db, era, job, dump, files>>

\* Lines are read until a batch is full or the file ends; one that is cut off
\* raises, and the batch it would have been in is not written.
ReadNodes ==
    /\ restore.pc = "nodes" /\ restore.batch = {}
    /\ IF Cardinality(restore.nodes) < RestoreBatch /\ files.nodes.ends = "mid_record"
       THEN Stop("bad")
       ELSE IF restore.nodes = {} THEN restore' = [restore EXCEPT !.pc = "rels"]
       ELSE \E more \in SUBSET restore.nodes :
                /\ Cardinality(more) = Upto(0, RestoreBatch, Cardinality(restore.nodes))
                /\ restore' = [restore EXCEPT !.batch = more, !.nodes = @ \ more]
    /\ UNCHANGED <<db, era, job, dump, files>>

\* CREATE, and the constraint on the id.
CreateNode ==
    /\ restore.pc = "nodes"
    /\ \E n \in restore.batch :
           IF n.id \in DOMAIN Into.nodes
           THEN Stop("bad") /\ UNCHANGED db
           ELSE /\ db' = [db EXCEPT ![restore.into].nodes =
                              [i \in DOMAIN @ \cup {n.id} |->
                                  IF i = n.id THEN [era |-> era, vec |-> n.vec] ELSE @[i]]]
                /\ restore' = [restore EXCEPT !.batch = @ \ {n}]
    /\ UNCHANGED <<era, job, dump, files>>

\* eid_to_id: the nodes file says which id an element id had.
Known(eid) == \E n \in files.nodes.records : n.id = eid.id /\ n.era = eid.era

\* A relationship with an end that is not in the nodes file is skipped.
CreateRel ==
    /\ restore.pc = "rels" /\ restore.rels # {}
    /\ \E r \in restore.rels :
           /\ restore' = [restore EXCEPT !.rels = @ \ {r}]
           /\ LET pair == <<r.start.id, r.end.id>>
              IN  db' = IF Known(r.start) /\ Known(r.end) /\ Present(Into, pair)
                        THEN [db EXCEPT ![restore.into].rels = @ \cup {pair}] ELSE db
    /\ UNCHANGED <<era, job, dump, files>>

EndRels ==
    /\ restore.pc = "rels" /\ restore.rels = {}
    /\ IF files.rels.ends = "mid_record" THEN Stop("bad")
                                         ELSE restore' = [restore EXCEPT !.pc = "indexes"]
    /\ UNCHANGED <<db, era, job, dump, files>>

\* Of the indexes listed, the vector indexes.
RestoreIndexes ==
    /\ restore.pc = "indexes"
    /\ IF files.indexes.good
       THEN /\ db' = [db EXCEPT ![restore.into].indexes = @ \cup (files.indexes.listed \cap {"vector"})]
            /\ restore' = [restore EXCEPT !.pc = "verify"]
       ELSE Stop("bad") /\ UNCHANGED db
    /\ UNCHANGED <<era, job, dump, files>>

\* Variant: the nodes are counted, the relationships are not.
RestoreVerifyNodes ==
    /\ restore.pc = "verify"
    /\ Stop(IF Cardinality(DOMAIN Into.nodes) = files.meta.nodes THEN "ok" ELSE "mismatch")
    /\ UNCHANGED <<db, era, job, dump, files>>

\* The closing count of the instance against meta.json.
RestoreVerify ==
    /\ restore.pc = "verify"
    /\ Stop(IF /\ Cardinality(DOMAIN Into.nodes) = files.meta.nodes
               /\ Cardinality(Into.rels) = files.meta.rels THEN "ok" ELSE "mismatch")
    /\ UNCHANGED <<db, era, job, dump, files>>

RestoreDies ==
    /\ restore.pc \notin {"none", "ended"}
    /\ Stop("bad")
    /\ UNCHANGED <<db, era, job, dump, files>>
-----------------------------------------------------------------------------
\* Bound: the scripts are followed until the dump is over.
Load == dump.pc # "ended" /\ LoadNext /\ UNCHANGED <<dump, files, restore>>

Next ==
    \/ Load
    \/ DumpNodes \/ DumpRels \/ DumpIndexes \/ DumpMeta \/ DumpDies \/ Verify \/ Damage
    \/ \E into \in Instances, force \in BOOLEAN : StartRestore(into, force)
    \/ RestoreConstraint \/ ReadNodes \/ CreateNode \/ CreateRel \/ EndRels
    \/ RestoreIndexes \/ RestoreVerify \/ RestoreDies

Spec == Init /\ [][Next]_vars
-----------------------------------------------------------------------------
TypeOK ==
    /\ LoadTypeOK
    /\ dump.pc \in {"none", "rels", "indexes", "meta", "verify", "ended"}
    /\ dump.nodes \subseteq NodeRecord /\ dump.rels \subseteq RelRecord
    /\ dump.quiet \in BOOLEAN /\ dump.exit \in {"none", "ok", "bad"}
    /\ files.nodes.records \subseteq NodeRecord /\ files.nodes.ends \in Ends
    /\ files.rels.records \subseteq RelRecord /\ files.rels.ends \in Ends
    /\ files.indexes.listed \subseteq Indexes
    /\ files.meta \in [there : BOOLEAN, nodes : Nat, rels : Nat]
    /\ restore.pc \in {"none", "constraint", "nodes", "rels", "indexes", "verify", "ended"}
    /\ restore.nodes \subseteq NodeRecord /\ restore.batch \subseteq restore.nodes \cup NodeRecord
    /\ restore.rels \subseteq RelRecord
    /\ restore.exit \in {"none", "refused", "bad", "mismatch", "ok"}

\* A dump that passes its self-check holds, at that moment, every record the
\* two queries returned and nothing else, whatever has happened to the files.
VerifiedWhole ==
    [][dump.exit = "none" /\ dump'.exit = "ok" =>
           /\ files.nodes = Lines(dump.nodes)
           /\ files.rels = Lines(dump.rels)]_vars

\* A restore into an empty instance that exits with 0 has put back exactly what
\* the dump had read, however the files were damaged since and however many
\* attempts died before it.
RestoreFaithful ==
    restore.exit = "ok" /\ restore.empty /\ restore.into = "new" =>
        LET g == db["new"]
        IN  /\ {<<i, g.nodes[i].vec>> : i \in DOMAIN g.nodes} = {<<n.id, n.vec>> : n \in dump.nodes}
            /\ g.rels = {<<r.start.id, r.end.id>> : r \in dump.rels}

\* If the nodes of the graph did not change between the two queries, a verified
\* dump whose files were left alone is never found wanting by a restore into an
\* empty instance.
QuietDumpRestores ==
    dump.quiet /\ dump.exit = "ok" /\ files.damage = 0
    /\ restore.into = "new" /\ restore.empty =>
        restore.exit # "mismatch"
-----------------------------------------------------------------------------
\* "so the newest artifact is always restorable" (backup-knowledge-graph.yml:95),
\* where an artifact is a dump that passed its self-check.
ArtifactRestores ==
    dump.exit = "ok" /\ files.damage = 0 /\ restore.into = "new" /\ restore.empty =>
        restore.exit # "mismatch"
=============================================================================
